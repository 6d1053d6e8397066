------------------------------- MODULE Reload -------------------------------
(***************************************************************************)
(* Loading a configuration (olivehc_load_conf): the checks of the error    *)
(* log, the devices, the servers and the workers, each of which may fail   *)
(* half-way, and then either the load or the rollback.  What is tracked is *)
(* what the checks acquire: descriptors, hashes and slots of the index     *)
(* arrays.  What a device or a server stores is in Server, what becomes of *)
(* the workers in Worker.                                                  *)
(***************************************************************************)
EXTENDS IdxPointer, SequencesExt, Bags

CONSTANTS
  Histories,   \* sets of configurations that one run of the program may load:
               \* records of a list of files and a list of ports with access logs
  Failures     \* what may fail in a reload: pairs of a step and its object

VARIABLES
  confs,      \* the configurations of this run
  devices,    \* ohc_device_t objects in devices and deleted_devices
  servers,    \* ohc_server_t objects in servers and deleted_servers
  device_indexs, server_indexs,
  fds,        \* the open descriptors: a bag of what they are open on
  hashes,     \* the number of hashes allocated
  overrun     \* has a slot been taken that is not in the array?

reloadVars == <<confs, devices, servers, device_indexs, server_indexs, fds, hashes, overrun>>

ReloadInit ==
  /\ confs \in Histories /\ devices = {} /\ servers = {}
  /\ device_indexs = IDX_POINTER_INIT /\ server_indexs = IDX_POINTER_INIT
  /\ fds = SetToBag({<<"error_log">>}) /\ hashes = 0 /\ overrun = FALSE

LiveFiles == {d.file : d \in {x \in devices : ~x.deleted}}

LivePorts == {s.port : s \in {x \in servers : ~x.deleted}}

LogOf(port) == (CHOOSE s \in servers : s.port = port /\ ~s.deleted).log

-----------------------------------------------------------------------------
(* The checks.  A check c has the descriptors and the number of hashes so  *)
(* far, the entries of the configuration with what was acquired for them,  *)
(* the number of slots counted, and whether it still succeeds.             *)

Fail(c) == [c EXCEPT !.ok = FALSE]

(* The check of one device of the configuration: a new one is opened. *)
DeviceEntry(c, file) ==
  LET open == file \notin LiveFiles
      entry == [c EXCEPT !.count = @ + 1,
                         !.devices = Append(@, [file |-> file, open |-> open, nomem |-> c.bad = <<"nomem", file>>]),
                         !.fds = IF open THEN @ (+) SetToBag({<<"device", file>>}) ELSE @]
  IN IF \/ ~c.ok
        \/ c.count + 1 >= IPT_ARRAY_SIZE - 1
        \/ c.bad = <<"stat", file>>
        \/ \E d \in devices : d.deleted /\ d.file = file /\ d.open
        \/ \E i \in DOMAIN c.devices : c.devices[i].file = file
        \/ open /\ c.bad = <<"open", file>>
     THEN Fail(c)
     ELSE IF open /\ c.bad = <<"type", file>> THEN Fail(entry) ELSE entry

(* Mutant: the deleted devices are not counted. *)
device_conf_check_Live(c, list) == IF c.ok THEN FoldLeft(DeviceEntry, c, list) ELSE c

(* The slots of the deleted devices are counted, those of the devices that *)
(* this reload will delete are not.                                        *)
device_conf_check(c, list) ==
  LET start == [c EXCEPT !.count = Cardinality({d \in devices : d.deleted})]
  IN IF c.ok THEN FoldLeft(DeviceEntry, start, list) ELSE c

Listen(e) == SetToBag({<<"listen", e.port>>})

Log(e) == SetToBag({<<"access_log", e.log>>})

(* The check of one server of the configuration: a new one is bound and    *)
(* gets a hash; a new log file is opened.                                  *)
ServerEntry(c, e) ==
  LET new == e.port \notin LivePorts
      newlog == new \/ LogOf(e.port) # e.log
      entry(hash, log) ==
        [c EXCEPT !.count = @ + 1, !.hashes = IF hash THEN @ + 1 ELSE @,
                  !.servers = Append(@, [port |-> e.port, log |-> e.log, bound |-> new, hash |-> hash, opened |-> log]),
                  !.fds = @ (+) (IF new THEN Listen(e) ELSE EmptyBag) (+) (IF log THEN Log(e) ELSE EmptyBag)]
  IN IF \/ ~c.ok
        \/ c.count + 1 >= IPT_ARRAY_SIZE - 1
        \/ c.bad = <<"value", e.port>>
        \/ \E i \in DOMAIN c.servers : c.servers[i].port = e.port
        \/ new /\ c.bad = <<"bind", e.port>>
     THEN Fail(c)
     ELSE IF new /\ c.bad = <<"hash", e.port>> THEN Fail(entry(FALSE, FALSE))
     ELSE IF newlog /\ c.bad = <<"log", e.port>> THEN Fail(entry(new, FALSE))
     ELSE entry(new, newlog)

server_conf_check(c, list) ==
  LET start == [c EXCEPT !.count = Cardinality({s \in servers : s.deleted})]
  IN IF c.ok THEN FoldLeft(ServerEntry, start, list) ELSE c

(* The error log is opened first, if its name has changed. *)
olivehc_global_conf_check(bad, renamed) ==
  LET opened == renamed /\ bad[1] # "error_log"
  IN [ok |-> ~(renamed /\ ~opened), bad |-> bad, renamed |-> opened,
      fds |-> IF opened THEN fds (+) SetToBag({<<"error_log">>}) ELSE fds,
      hashes |-> hashes, devices |-> <<>>, servers |-> <<>>, count |-> 0]

Checked(dlist, slist, bad, renamed) ==
  LET c == server_conf_check(device_conf_check(olivehc_global_conf_check(bad, renamed), dlist), slist)
  IN [c EXCEPT !.ok = @ /\ bad[1] # "worker"]

-----------------------------------------------------------------------------
(* Rollback.                                                               *)

EntryFds(c) ==
  [devices |-> SetToBag({<<"device", c.devices[i].file>> : i \in {n \in DOMAIN c.devices : c.devices[n].open}}),
   listen |-> SetToBag({<<"listen", c.servers[i].port>> : i \in {n \in DOMAIN c.servers : c.servers[n].bound}}),
   logs |-> FoldSet(LAMBDA i, bag : bag (+) Log(c.servers[i]), EmptyBag, {n \in DOMAIN c.servers : c.servers[n].opened}),
   error |-> IF c.renamed THEN SetToBag({<<"error_log">>}) ELSE EmptyBag]

(* Mutant: a log that was opened for a server that stays is forgotten. *)
Closed_NoLogs(c) == EntryFds(c).error (+) EntryFds(c).devices (+) EntryFds(c).listen

(* What the rollbacks of the error log, the devices and the servers close. *)
Closed(c) == EntryFds(c).error (+) EntryFds(c).devices (+) EntryFds(c).listen (+) EntryFds(c).logs

server_conf_rollback(c) == c.hashes - Cardinality({i \in DOMAIN c.servers : c.servers[i].hash})

(* A reload that fails in a check. *)
Rollback(c) ==
  /\ ~c.ok
  /\ fds' = c.fds (-) Closed(c) /\ hashes' = server_conf_rollback(c)
  /\ UNCHANGED <<devices, servers, device_indexs, server_indexs, overrun, confs>>

-----------------------------------------------------------------------------
(* Load.                                                                   *)

(* A device that is no longer configured; a kicked one is only an entry. *)
device_delete(d) == IF d.kicked THEN {} ELSE {[d EXCEPT !.deleted = TRUE]}

(* A load l has the objects and the index array so far. *)
device_add(l, e) ==
  IF ~e.open \/ l.overrun THEN l
  ELSE IF FreeSlots(l.ipt) = {} THEN [l EXCEPT !.overrun = TRUE]
  ELSE LET added == idx_pointer_add(l.ipt, e.file)
       IN [l EXCEPT !.ipt = added.ipt,
                    !.objects = @ \cup {[file |-> e.file, open |-> TRUE, index |-> added.index,
                                         deleted |-> FALSE, kicked |-> e.nomem]}]

device_conf_load(c) ==
  LET listed == {c.devices[i].file : i \in DOMAIN c.devices}
      kept == {d \in devices : d.deleted \/ d.file \in listed}
      gone == UNION {device_delete(d) : d \in devices \ kept}
  IN FoldLeft(device_add, [objects |-> kept \cup gone, ipt |-> device_indexs, overrun |-> FALSE], c.devices)

server_create(l, e) ==
  IF ~e.bound \/ l.overrun THEN l
  ELSE IF FreeSlots(l.ipt) = {} THEN [l EXCEPT !.overrun = TRUE]
  ELSE LET added == idx_pointer_add(l.ipt, e.port)
       IN [l EXCEPT !.ipt = added.ipt,
                    !.objects = @ \cup {[port |-> e.port, log |-> e.log, index |-> added.index, deleted |-> FALSE]}]

(* A server that stays takes the new log. *)
server_update(s, c) ==
  LET e == CHOOSE e \in {c.servers[i] : i \in DOMAIN c.servers} : e.port = s.port
  IN [s EXCEPT !.log = e.log]

server_conf_load(c) ==
  LET listed == {c.servers[i].port : i \in DOMAIN c.servers}
      stay == {s \in servers : ~s.deleted /\ s.port \in listed}
      gone == {s \in servers : ~s.deleted /\ s.port \notin listed}
      old == {s \in servers : s.deleted}
      objects == old \cup {[s EXCEPT !.deleted = TRUE] : s \in gone} \cup {server_update(s, c) : s \in stay}
  IN FoldLeft(server_create, [objects |-> objects, ipt |-> server_indexs, overrun |-> FALSE], c.servers)

(* The descriptors a load closes: listening sockets of the servers it      *)
(* removes, and the logs that were replaced.                               *)
Replaced(c) ==
  LET live == {s \in servers : ~s.deleted}
      gone == {s \in live : ~\E i \in DOMAIN c.servers : c.servers[i].port = s.port}
      relogged == {s \in live : \E i \in DOMAIN c.servers : c.servers[i].port = s.port /\ c.servers[i].opened}
  IN (IF c.renamed THEN SetToBag({<<"error_log">>}) ELSE EmptyBag)
     (+) SetToBag({<<"listen", s.port>> : s \in gone})
     (+) FoldSet(LAMBDA s, bag : bag (+) Log(s), EmptyBag, relogged)

Load(c) ==
  /\ c.ok
  /\ LET d == device_conf_load(c)
         s == server_conf_load(c)
     IN /\ devices' = d.objects /\ device_indexs' = d.ipt
        /\ servers' = s.objects /\ server_indexs' = s.ipt
        /\ overrun' = (d.overrun \/ s.overrun)
  /\ fds' = c.fds (-) Replaced(c) /\ hashes' = c.hashes /\ UNCHANGED confs

olivehc_load_conf ==
  \E conf \in confs, bad \in Failures, renamed \in BOOLEAN :
    LET c == Checked(conf.devices, conf.servers, bad, renamed) IN Rollback(c) \/ Load(c)

-----------------------------------------------------------------------------
(* Other operations on the same objects.                                   *)

(* A bad device: the entry stays, as a kicked one, and its object goes. *)
device_kick(d) ==
  /\ ~d.deleted /\ ~d.kicked
  /\ devices' = (devices \ {d}) \cup {[d EXCEPT !.deleted = TRUE], [d EXCEPT !.kicked = TRUE]}
  /\ UNCHANGED <<servers, device_indexs, server_indexs, fds, hashes, overrun, confs>>

(* A second of device_routine for a deleted device: it is closed when       *)
(* nobody uses it, and freed when it is empty, which an unused one is.      *)
device_destroy(d) ==
  /\ d.deleted
  /\ fds' = IF d.open THEN fds (-) SetToBag({<<"device", d.file>>}) ELSE fds
  /\ \/ /\ d.open
        /\ devices' = (devices \ {d}) \cup {[d EXCEPT !.open = FALSE]} /\ UNCHANGED device_indexs
     \/ /\ devices' = devices \ {d}
        /\ device_indexs' = idx_pointer_delete(device_indexs, d.index)
  /\ UNCHANGED <<servers, server_indexs, hashes, overrun, confs>>

(* A deleted server whose items are gone. *)
server_destroy(s) ==
  /\ s.deleted
  /\ servers' = servers \ {s} /\ fds' = fds (-) Log(s) /\ hashes' = hashes - 1
  /\ server_indexs' = idx_pointer_delete(server_indexs, s.index)
  /\ UNCHANGED <<devices, device_indexs, overrun, confs>>

Undefined == overrun /\ UNCHANGED reloadVars

ReloadNext ==
  \/ ~overrun /\ olivehc_load_conf
  \/ ~overrun /\ \E d \in devices : device_kick(d) \/ device_destroy(d)
  \/ ~overrun /\ \E s \in servers : server_destroy(s)
  \/ Undefined

ReloadSpec == ReloadInit /\ [][ReloadNext]_reloadVars

-----------------------------------------------------------------------------
(* Properties.                                                             *)

BagOf(S, what(_)) == FoldSet(LAMBDA x, bag : bag (+) SetToBag({what(x)}), EmptyBag, S)

(* No reload, whichever of its steps fails, and no removal leaks a          *)
(* descriptor or a hash or closes one that is in use: what is open is what  *)
(* the objects have open (the checks, device_conf_rollback,                 *)
(* server_conf_rollback, server_update, device_destroy, server_destroy).    *)
DescriptorsExact ==
  ~overrun =>
    /\ fds = SetToBag({<<"error_log">>})
             (+) BagOf({d \in devices : d.open /\ ~d.kicked}, LAMBDA d : <<"device", d.file>>)
             (+) BagOf({s \in servers : ~s.deleted}, LAMBDA s : <<"listen", s.port>>)
             (+) BagOf(servers, LAMBDA s : <<"access_log", s.log>>)
    /\ hashes = Cardinality(servers)

(* The slot of an object is its own, a removed object keeps it until it is  *)
(* freed, nothing else is in the arrays, and lowest is never above a free   *)
(* slot (device_of_item and server_of_item go through the slot).            *)
SlotsExact ==
  ~overrun =>
    /\ \A d \in {x \in devices : ~x.kicked} : device_indexs.array[d.index] = d.file
    /\ \A s \in servers : server_indexs.array[s.index] = s.port
    /\ Cardinality({i \in Slots : device_indexs.array[i] # Empty}) = Cardinality({d \in devices : ~d.kicked})
    /\ Cardinality({i \in Slots : server_indexs.array[i] # Empty}) = Cardinality(servers)
    /\ NoneBelow(device_indexs) /\ NoneBelow(server_indexs)

Removed(S, T) == {x \in S : ~x.deleted /\ [x EXCEPT !.deleted = TRUE] \in T}

(* The check of the number of devices ("deleted devices take slots in       *)
(* @device_indexs", device.c:224) and of servers leaves room for two: only  *)
(* a reload that removes three at once can run past the array.              *)
OnlyMassRemovalOverruns ==
  [][overrun' => overrun \/ Cardinality(Removed(devices, devices')) > 2
                         \/ Cardinality(Removed(servers, servers')) > 2]_reloadVars
=============================================================================
