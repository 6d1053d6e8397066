------------------------------- MODULE Server -------------------------------
(***************************************************************************)
(* Servers, items and the requests that hold them (server.c), on top of    *)
(* the devices (device.c).  Everything here runs in the master thread, so  *)
(* a handler is one step; between the handler that takes an item and       *)
(* server_request_finalize a worker reads or writes the item's block.      *)
(*                                                                         *)
(* The expire time of an item against the clock, and its clear count       *)
(* against the server's, are one flag, stale: neither ever goes back (the  *)
(* 16-bit clear count is taken not to wrap).  Statistics are left out, and *)
(* lists of servers and devices are visited by number.                     *)
(***************************************************************************)
EXTENDS Device

CONSTANTS
  Files,        \* device files a configuration may name
  Ports,        \* listen ports a configuration may name
  Servers,      \* numbers (from 1) of the ohc_server_t objects
  Keys,         \* MD5 keys of the requests
  Requests,     \* connections
  Lengths,      \* item lengths, in units
  Confs,        \* the configurations a reload may read
  FirstConf,    \* the one read at startup
  PassbyEnable, PassbyBegin, PassbyLimit,  \* passby_enable, _begin_item_nr, _limit_nr
  KeepAlive,    \* do connections stay open after a request?
  MemFails      \* may an allocation fail?

(* A configuration has the files of its devices and, for each of its ports, *)
(* the capacity of the server (0: share what is left).                      *)
ASSUME ServerAssumption ==
  /\ FirstConf \in Confs
  /\ \A c \in Confs : /\ c.files \in SUBSET Files \ {{}}
                      /\ DOMAIN c.capacity \in SUBSET Ports \ {{}}

VARIABLES
  dev, order, queue, kicked, oops,  \* see Device
  item,       \* the items that exist
  hash,       \* per server and key, the nodes with that key, latest first
  lru,        \* per server, and under Shared: items, latest used first
  passby,     \* per server, its passby items, latest used first
  srv,        \* the servers that exist
  req         \* per connection, its server and the item it holds

vars == <<dev, order, queue, kicked, oops, item, hash, lru, passby, srv, req>>

Shared == 0      \* shared_lru_head
Passby == <<>>   \* a hash node that is a passby item
NoItem == <<>>   \* r->item = NULL
NoServer == 0    \* no connection
Dangling == -1   \* r->server points to a freed server

Store(mem) == [dev |-> dev, order |-> order, queue |-> queue, kicked |-> kicked,
               oops |-> oops, item |-> item, hash |-> hash, lru |-> lru,
               passby |-> passby, srv |-> srv, req |-> req, mem |-> mem]

Become(st) ==
  /\ dev' = st.dev /\ order' = st.order /\ queue' = st.queue /\ kicked' = st.kicked
  /\ oops' = st.oops /\ item' = st.item /\ hash' = st.hash /\ lru' = st.lru
  /\ passby' = st.passby /\ srv' = st.srv /\ req' = st.req

Memory == {"item", "passby", "device"}

(* What there is memory for in a step that may ask for these. *)
Mem(kinds) == IF MemFails THEN {Memory \ lack : lack \in SUBSET kinds} ELSE {Memory}

-----------------------------------------------------------------------------
(* Items.                                                                  *)

server_lru_head(st, s) == IF st.srv[s].capacity # 0 THEN s ELSE Shared

LruDel(st, i) == [st EXCEPT !.lru = [l \in DOMAIN @ |-> Remove(@[l], i)]]

LruAdd(st, i) == [st EXCEPT !.lru[server_lru_head(st, st.item[i].server)] = <<i>> \o @]

hash_del(st, s, k, node) == [st EXCEPT !.hash[s][k] = RemoveFirst(@, node)]

hash_add(st, s, k, node) == [st EXCEPT !.hash[s][k] = <<node>> \o @]

server_passby_item_delete(st, s, k) ==
  [hash_del(st, s, k, Passby) EXCEPT
     !.passby[s] = SelectSeq(@, LAMBDA p : p.key # k)]

(* Off the hash at once; the rest when nobody uses the item any more. *)
server_item_delete(st, i) ==
  LET it == st.item[i]
      s1 == IF it.deleted THEN st ELSE hash_del(st, it.server, it.key, i)
      s2 == device_return_free_block(LruDel(s1, i), i)
  IN IF it.used # 0 \/ it.putting THEN [s1 EXCEPT !.item[i].deleted = TRUE]
     ELSE [s2 EXCEPT !.srv[it.server].consumed = @ - ipbucket_block_size(it.len),
                     !.srv[it.server].item_nr = @ - 1,
                     !.item = Restrict(@, DOMAIN @ \ {i})]

server_item_valid(st, i) ==
  /\ ~st.dev[i[1]].deleted
  /\ ~st.srv[st.item[i].server].deleted
  /\ ~st.item[i].stale

(* Mutant: the list is walked from the latest used item. *)
FromOldest_Latest(list) == list

(* list_for_each_reverse_safe. *)
FromOldest(list) == Reverse(list)

(* The loop of server_item_expire (list s) and server_shared_expire (list   *)
(* Shared): from the least recently used item on, delete until enough is    *)
(* done and a valid item is met.                                            *)
WalkLru(st, l, target) ==
  LET Enough(a) == IF l = Shared THEN a.size >= target
                   ELSE st.srv[l].consumed - a.st.srv[l].consumed >= target
      Visit(a, i) ==
        IF a.stop \/ (Enough(a) /\ server_item_valid(a.st, i)) THEN [a EXCEPT !.stop = TRUE]
        ELSE [st |-> server_item_delete(a.st, i), n |-> a.n + 1, stop |-> a.n >= LoopLimit,
              size |-> a.size + a.st.item[i].len]
  IN FoldLeft(Visit, [st |-> st, n |-> 0, stop |-> FALSE, size |-> 0], FromOldest(st.lru[l]))

(* The passby items of s, after the walk over its items. *)
WalkPassby(walked, s) ==
  LET Visit(a, p) ==
        IF a.stop \/ (PassbyEnable /\ Len(a.st.passby[s]) < PassbyLimit /\ ~p.stale)
        THEN [a EXCEPT !.stop = TRUE]
        ELSE [a EXCEPT !.st = server_passby_item_delete(@, s, p.key), !.n = @ + 1,
                       !.stop = a.n >= LoopLimit]
  IN FoldLeft(Visit, [walked EXCEPT !.stop = FALSE], FromOldest(walked.st.passby[s])).st

server_item_expire(st, s, target) == WalkPassby(WalkLru(st, s, target), s)

server_shared_expire(st, target) == WalkLru(st, Shared, target).st

(* Delete the cold neighbours of an almost biggest free block, over and     *)
(* over, until one is large enough or nothing changes.                      *)
device_free_block_extend(st, len) ==
  LET target == ipbucket_block_size(len)
      Cold(s, d, n) == /\ n \in DOMAIN s.order[d] /\ ~s.order[d][n].free
                       /\ LET i == <<d, s.order[d][n].off>>
                          IN ~s.item[i].putting /\ s.item[i].used = 0
      DeleteAt(s, t, d, n) == IF Cold(s, d, n) THEN server_item_delete(t, <<d, s.order[d][n].off>>) ELSE t
      Turn(a, k) ==
        LET top  == ipbucket_biggest(a.st.queue)
            size == SizeAt(a.st, top[1])
            d    == top[1][1]
            n    == At(a.st, top[1])
            next == IF a.st.dev[d].deleted THEN device_fblock_delete(a.st, top[1])
                    ELSE DeleteAt(a.st, DeleteAt(a.st, a.st, d, n - 1), d, n + 1)
        IN IF a.done \/ top = <<>> \/ size >= target \/ size = a.last
           THEN [a EXCEPT !.done = TRUE]
           ELSE [st |-> next, last |-> size, done |-> FALSE]
  IN FoldLeft(Turn, [st |-> st, last |-> 0, done |-> FALSE],
              [k \in 1 .. LoopLimit |-> k]).st

-----------------------------------------------------------------------------
(* The handlers of requests.                                               *)

(* A request to server s comes in, on a new connection or on an idle one. *)
Arrives(r, s) ==
  /\ req[r].item = NoItem
  /\ req[r].server = s \/ (req[r].server = NoServer /\ ~srv[s].deleted)

(* What the handler made of the state, for a connection that was accepted;  *)
(* it is closed at once if the request is done and it is not kept alive.    *)
Answered(st, r) ==
  IF st.req[r].item = NoItem /\ ~KeepAlive
  THEN [st EXCEPT !.req[r].server = NoServer] ELSE st

On(r, s, mem) == [Store(mem) EXCEPT !.req[r].server = s]

Hold(st, r, i) == [st EXCEPT !.req[r].item = i, !.dev[i[1]].used = @ + 1]

GetStore(st, r, k) ==
  LET s == st.req[r].server
      node == Head(st.hash[s][k])
      touched == SelectSeq(st.passby[s], LAMBDA p : p.key = k)
                 \o SelectSeq(st.passby[s], LAMBDA p : p.key # k)
  IN IF st.hash[s][k] = <<>> THEN st
     ELSE IF node = Passby THEN [st EXCEPT !.passby[s] = touched]
     ELSE IF st.item[node].deleted \/ st.item[node].putting THEN st
     ELSE IF ~server_item_valid(st, node) THEN server_item_delete(st, node)
     ELSE LruAdd(LruDel(Hold([st EXCEPT !.item[node].used = @ + 1], r, node), node), node)

server_request_get_handler(r, s, k) ==
  /\ Arrives(r, s)
  /\ \E mem \in Mem({"device"}) : Become(Answered(GetStore(On(r, s, mem), r, k), r))

server_passby_store(st, s, k) ==
  [hash_add(st, s, k, Passby) EXCEPT
     !.passby[s] = <<[key |-> k, stale |-> FALSE]>> \o @]

(* The try_again loop of server_request_put_handler, after a first try that *)
(* got what it got: expire, then extend, then give up.                      *)
RECURSIVE Allocate(_, _, _, _)
Allocate(got, s, len, try) ==
  LET now == got.st
      own == now.lru[s] # <<>>
      Again(st, n) == Allocate(device_get_free_block(st, len), s, len, n)
  IN IF got.ok \/ now.oops THEN got
     ELSE IF try < 2 /\ own /\ now.srv[s].consumed + len * 2 > now.srv[s].capacity
     THEN Again(server_item_expire(now, s, len * 2), try + 1)
     ELSE IF try + 1 < 5 /\ now.lru[Shared] # <<>>
     THEN Again(server_shared_expire(now, len * 2), try + 2)
     ELSE IF try + 2 < 9 /\ own
     THEN Again(server_item_expire(now, s, len * 2), try + 3)
     ELSE IF try + 3 < 12
     THEN Again(device_free_block_extend(now, len), try + 4)
     ELSE got

NewItem(s, k, len) ==
  [server |-> s, key |-> k, len |-> len, putting |-> TRUE, deleted |-> FALSE,
   badblock |-> FALSE, used |-> 0, stale |-> FALSE, full |-> FALSE]

(* An item at the place that was got, linked everywhere. *)
AddItem(st, r, i, k, len) ==
  LET s == st.req[r].server
      new == [st EXCEPT !.item = @ @@ (i :> NewItem(s, k, len)),
                        !.srv[s].consumed = @ + ipbucket_block_size(len),
                        !.srv[s].item_nr = @ + 1]
  IN Hold(LruAdd(hash_add(new, s, k, i), i), r, i)

StoreAt(got, r, k, len) == IF got.ok THEN AddItem(got.st, r, got.place, k, len) ELSE got.st

(* "check done, store the item now": nothing is stored without memory for   *)
(* the item, or without space.                                              *)
StoreItem(st, r, k, len) ==
  IF "item" \notin st.mem THEN st
  ELSE StoreAt(Allocate(device_get_free_block(st, len), st.req[r].server, len, 0), r, k, len)

(* Mutant: the item that is replaced stays in the hash. *)
PutStore_Keep(st, r, k, len, method) ==
  LET s == st.req[r].server
      node == Head(st.hash[s][k])
  IN IF st.srv[s].capacity # 0 /\ len > st.srv[s].capacity THEN st
     ELSE IF st.hash[s][k] = <<>>
     THEN IF PassbyEnable /\ st.srv[s].item_nr >= PassbyBegin /\ "passby" \in st.mem
          THEN server_passby_store(st, s, k) ELSE StoreItem(st, r, k, len)
     ELSE IF node = Passby THEN StoreItem(server_passby_item_delete(st, s, k), r, k, len)
     ELSE IF method = "PUT" \/ ~server_item_valid(st, node) THEN StoreItem(st, r, k, len)
     ELSE st

(* Declined when too large, when only recorded as a passby item, or when a  *)
(* POST finds a valid item; stored at once if there is no memory for the    *)
(* passby item; item_max_size and an expired request decline    *)
(* without any effect and are left out.                                     *)
PutStore(st, r, k, len, method) ==
  LET s == st.req[r].server
      node == Head(st.hash[s][k])
  IN IF st.srv[s].capacity # 0 /\ len > st.srv[s].capacity THEN st
     ELSE IF st.hash[s][k] = <<>>
     THEN IF PassbyEnable /\ st.srv[s].item_nr >= PassbyBegin /\ "passby" \in st.mem
          THEN server_passby_store(st, s, k) ELSE StoreItem(st, r, k, len)
     ELSE IF node = Passby THEN StoreItem(server_passby_item_delete(st, s, k), r, k, len)
     ELSE IF method = "PUT" \/ ~server_item_valid(st, node)
     THEN StoreItem(server_item_delete(st, node), r, k, len)
     ELSE st

server_request_put_handler(r, s, k, len, method) ==
  /\ Arrives(r, s)
  /\ \E mem \in Mem({"item", "device"} \cup {kind \in {"passby"} : PassbyEnable}) :
       Become(Answered(PutStore(On(r, s, mem), r, k, len, method), r))

DeleteStore(st, s, k) ==
  LET node == Head(st.hash[s][k])
  IN IF st.hash[s][k] = <<>> THEN st
     ELSE IF node = Passby THEN server_passby_item_delete(st, s, k)
     ELSE server_item_delete(st, node)

server_request_delete_handler(r, s, k) ==
  /\ Arrives(r, s)
  /\ \E mem \in Mem({"device"}) : Become(Answered(DeleteStore(On(r, s, mem), s, k), r))

(* Mutant: a GET that ends does not count the device down. *)
Release_Device(st, r) ==
  LET i == st.req[r].item
  IN [st EXCEPT !.req[r].item = NoItem,
                !.item[i].used = IF st.item[i].putting THEN @ ELSE @ - 1,
                !.item[i].putting = FALSE]

(* Mutant: a GET that ends does not count the item down. *)
Release_Item(st, r) ==
  LET i == st.req[r].item
  IN [st EXCEPT !.req[r].item = NoItem,
                !.dev[i[1]].used = @ - 1,
                !.item[i].putting = FALSE]

Release(st, r) ==
  LET i == st.req[r].item
  IN [st EXCEPT !.req[r].item = NoItem,
                !.dev[i[1]].used = @ - 1,
                !.item[i].used = IF st.item[i].putting THEN @ ELSE @ - 1,
                !.item[i].putting = FALSE]

(* Mutant: a body that was cut short is kept. *)
FinalizeStore_Short(st, r, how) ==
  LET i == st.req[r].item
      rel == Release(st, r)
  IN IF how = "disk_error"
     THEN server_item_delete([rel EXCEPT !.item[i].badblock = TRUE], i)
     ELSE IF rel.item[i].deleted THEN server_item_delete(rel, i)
     ELSE [rel EXCEPT !.item[i].full = @ \/ how = "done"]

(* how: "done" (all of the item was processed), "short" or "disk_error". *)
FinalizeStore(st, r, how) ==
  LET i == st.req[r].item
      rel == Release(st, r)
  IN IF how = "disk_error"
     THEN server_item_delete([rel EXCEPT !.item[i].badblock = TRUE], i)
     ELSE IF rel.item[i].deleted \/ (st.item[i].putting /\ how = "short")
     THEN server_item_delete(rel, i)
     ELSE [rel EXCEPT !.item[i].full = @ \/ how = "done"]

(* The request comes back from the worker (or never got there). *)
server_request_finalize(r, how) ==
  /\ req[r].item # NoItem
  /\ \E mem \in Mem({"device"}) : Become(Answered(FinalizeStore(Store(mem), r, how), r))

server_listen_handler(r, s) ==
  /\ KeepAlive /\ req[r].server = NoServer /\ ~srv[s].deleted
  /\ Become([Store(Memory) EXCEPT !.req[r].server = s])

(* The client closes, or the keepalive timer fires. *)
ConnectionEnds(r) ==
  /\ req[r].server \in DOMAIN srv /\ req[r].item = NoItem
  /\ Become([Store(Memory) EXCEPT !.req[r].server = NoServer])

-----------------------------------------------------------------------------
(* Time, the clear command, the routines of every second and reload.       *)

ItemExpires(i) ==
  /\ ~item[i].stale
  /\ Become([Store(Memory) EXCEPT !.item[i].stale = TRUE])

PassbyExpires(s, n) ==
  /\ ~passby[s][n].stale
  /\ Become([Store(Memory) EXCEPT !.passby[s][n].stale = TRUE])

server_clear(s) ==
  /\ ~srv[s].deleted
  /\ Become([Store(Memory) EXCEPT
        !.item = [i \in DOMAIN @ |-> [@[i] EXCEPT !.stale = @ \/ item[i].server = s]]])

FreeServer(st, s) ==
  LET Dangle(q) == IF q.server = s THEN [q EXCEPT !.server = Dangling] ELSE q
  IN [st EXCEPT
        !.srv = Restrict(@, DOMAIN @ \ {s}), !.hash = Restrict(@, DOMAIN @ \ {s}),
        !.lru = Restrict(@, DOMAIN @ \ {s}), !.passby = Restrict(@, DOMAIN @ \ {s}),
        !.req = [r \in Requests |-> Dangle(@[r])]]

(* A server goes when it has no item left; its connections do not count. *)
FreeIfEmpty(st, s) ==
  IF st.srv[s].item_nr # 0 \/ st.passby[s] # <<>> THEN st ELSE FreeServer(st, s)

server_destroy(st, s) == FreeIfEmpty(server_item_expire(st, s, st.srv[s].consumed), s)

Ascending(S) == SetToSortSeq(S, <)

(* Mutant: one unit less than what is over. *)
OverSize_Short(st, s) ==
  IF st.srv[s].consumed > st.srv[s].capacity + 1
  THEN st.srv[s].consumed - st.srv[s].capacity - 1 ELSE 0

OverSize(st, s) ==
  IF st.srv[s].consumed > st.srv[s].capacity
  THEN st.srv[s].consumed - st.srv[s].capacity ELSE 0

server_routine(st) ==
  LET Expire(t, s) == server_item_expire(t, s, OverSize(t, s))
      deleted == {s \in DOMAIN st.srv : st.srv[s].deleted}
      expired == FoldLeft(Expire, st, Ascending(DOMAIN st.srv \ deleted))
  IN FoldLeft(server_destroy, server_shared_expire(expired, 0), Ascending(deleted))

(* One visit of device_routine: empty the order list, as far as the limit   *)
(* and the items in use allow, close the file when nobody uses it, and free *)
(* the device when the list is empty.                                       *)
device_destroy(st, d) ==
  LET list == st.order[d]
      Visit(s, b) == IF b.free THEN device_fblock_delete(s, <<d, b.off>>)
                     ELSE server_item_delete(s, <<d, b.off>>)
      walked == FoldLeft(Visit, st, SubSeq(list, 1, Min({Len(list), LoopLimit + 1})))
      closed == CloseUnused(walked, d)
  IN IF closed.order[d] # <<>> THEN closed
     ELSE [closed EXCEPT !.dev = Restrict(@, DOMAIN @ \ {d}),
                         !.order = Restrict(@, DOMAIN @ \ {d})]

device_routine(st) ==
  FoldLeft(device_destroy, st, Ascending({d \in DOMAIN st.dev : st.dev[d].deleted}))

Routine == \E mem \in Mem({"device"}) : Become(device_routine(server_routine(Store(mem))))

(* Devices that are no longer named are deleted (a kicked entry is just     *)
(* freed), new ones are added.                                              *)
device_conf_load(st, files) ==
  LET gone == {d \in DOMAIN st.dev : ~st.dev[d].deleted /\ st.dev[d].file \notin files}
      kept == {st.dev[d].file : d \in {e \in DOMAIN st.dev : ~st.dev[e].deleted}}
      st1 == FoldLeft(device_delete, [st EXCEPT !.kicked = @ \cap files], Ascending(gone))
  IN FoldLeft(device_add, st1, SetToSeq(files \ (kept \cup st.kicked)))

server_create(st, p) ==
  LET s == Min(Servers \ DOMAIN st.srv)
  IN [st EXCEPT
        !.srv = @ @@ (s :> [port |-> p, deleted |-> FALSE, capacity |-> 0,
                            consumed |-> 0, item_nr |-> 0]),
        !.hash = @ @@ (s :> [k \in Keys |-> <<>>]),
        !.lru = @ @@ (s :> <<>>), !.passby = @ @@ (s :> <<>>)]

Serving(st) == {s \in DOMAIN st.srv : ~st.srv[s].deleted}

server_delete(st, s) == [st EXCEPT !.srv[s].deleted = TRUE]

(* Of what a configuration sets, only the capacity is state here. *)
server_update(st, s, capacity) == [st EXCEPT !.srv[s].capacity = capacity]

server_conf_load(st, capacity) ==
  LET gone == {s \in Serving(st) : st.srv[s].port \notin DOMAIN capacity}
      new == DOMAIN capacity \ {st.srv[s].port : s \in Serving(st)}
      Update(t, s) == server_update(t, s, capacity[t.srv[s].port])
      st1 == FoldLeft(server_delete, st, Ascending(gone))
      st2 == FoldLeft(server_create, st1, SetToSeq(new))
  IN FoldLeft(Update, st2, Ascending(Serving(st2)))

(* Mutant: a file whose device is still being deleted is opened again. *)
device_conf_check_Deleting(files) == TRUE

(* The one check of the configuration that depends on the state. *)
device_conf_check(files) ==
  \A d \in DOMAIN dev : dev[d].file \in files /\ dev[d].deleted => ~dev[d].open

(* A reload whose checks fail changes nothing here.  The bounds: enough     *)
(* objects for what is new.                                                 *)
Reload(c) ==
  /\ device_conf_check(c.files)
  /\ Cardinality(c.files) <= Cardinality(Devices \ DOMAIN dev)
       + Cardinality({d \in DOMAIN dev : ~dev[d].deleted /\ dev[d].file \in c.files})
  /\ Cardinality(DOMAIN c.capacity) <= Cardinality(Servers \ DOMAIN srv)
       + Cardinality({s \in Serving(Store(Memory)) : srv[s].port \in DOMAIN c.capacity})
  /\ \E mem \in Mem({"device"}) :
       Become(server_conf_load(device_conf_load(Store(mem), c.files), c.capacity))

Empty == [dev |-> <<>>, order |-> <<>>, queue |-> ipbucket_init, kicked |-> {},
          oops |-> FALSE, item |-> <<>>, hash |-> <<>>, lru |-> (Shared :> <<>>),
          passby |-> <<>>, srv |-> <<>>,
          req |-> [r \in Requests |-> [server |-> NoServer, item |-> NoItem]], mem |-> Memory]

Init ==
  LET st == server_conf_load(device_conf_load(Empty, FirstConf.files), FirstConf.capacity)
  IN /\ dev = st.dev /\ order = st.order /\ queue = st.queue /\ kicked = st.kicked
     /\ oops = st.oops /\ item = st.item /\ hash = st.hash /\ lru = st.lru
     /\ passby = st.passby /\ srv = st.srv /\ req = st.req

(* What a client or a worker brings about. *)
Handler ==
  \E r \in Requests :
    \/ ConnectionEnds(r)
    \/ \E how \in {"done", "short", "disk_error"} : server_request_finalize(r, how)
    \/ \E s \in DOMAIN srv :
         \/ server_listen_handler(r, s)
         \/ \E k \in Keys :
              \/ server_request_get_handler(r, s, k)
              \/ server_request_delete_handler(r, s, k)
              \/ \E len \in Lengths, method \in {"PUT", "POST"} :
                   server_request_put_handler(r, s, k, len, method)

Time ==
  \/ \E i \in DOMAIN item : ItemExpires(i)
  \/ \E s \in DOMAIN srv : \E n \in DOMAIN passby[s] : PassbyExpires(s, n)

Admin ==
  \/ \E s \in DOMAIN srv : server_clear(s)
  \/ \E c \in Confs : Reload(c)

Next == ~oops /\ (Handler \/ Time \/ Admin \/ Routine)

Spec == Init /\ [][Next]_vars

Places == Devices \X (0 .. Max({Capacity[f] : f \in Files}))

Finishes(r) == \E how \in {"done", "short", "disk_error"} : server_request_finalize(r, how)

(* Weak fairness of what the program does by itself: the routines run every *)
(* second (olivehc_master_entry); a worker gives every request back, for    *)
(* its IO ends or times out; time passes every expire time.  The first two  *)
(* are written out with their enabling conditions, without ENABLED.         *)
Fairness ==
  /\ \/ []<>(device_routine(server_routine(Store(Memory))) = Store(Memory))
     \/ []<><<Routine>>_vars
  /\ \A r \in Requests : []<>(req[r].item = NoItem) \/ []<><<Finishes(r)>>_vars
  /\ \A i \in Places : WF_vars(i \in DOMAIN item /\ ItemExpires(i))
  /\ \A s \in Servers : WF_vars(s \in DOMAIN passby
                                 /\ \E n \in DOMAIN passby[s] : PassbyExpires(s, n))

FairSpec == Spec /\ Fairness

-----------------------------------------------------------------------------
(* Properties.                                                             *)

Holders(i) == {r \in Requests : req[r].item = i}

Held(r) == req[r].item # NoItem

Ordered == {d \in DOMAIN dev : ~dev[d].deleted}

BlockSizes(list, Kind(_)) == FoldLeft(+, 0, [n \in DOMAIN list |-> IF Kind(list[n]) THEN list[n].size ELSE 0])

(* The order list of a device in service: blocks in the order of their     *)
(* offsets, without overlap, inside the device, free neighbours merged; and*)
(* what is not free is counted as consumed, lost bad blocks included       *)
(* (device_get_free_block, device_return_free_block).                      *)
SpaceExact ==
  \A d \in Ordered :
    LET list == order[d]
        free == BlockSizes(list, LAMBDA b : b.free)
        taken == BlockSizes(list, LAMBDA b : ~b.free)
    IN /\ \A n \in DOMAIN list :
            /\ list[n].size > 0
            /\ list[n].off + list[n].size
                 <= IF n = Len(list) THEN Capacity[dev[d].file] ELSE list[n + 1].off
       /\ \A n \in 1 .. Len(list) - 1 :
            ~(list[n].free /\ list[n + 1].free
              /\ list[n].off + list[n].size = list[n + 1].off)
       /\ dev[d].consumed = taken + dev[d].badblock
       /\ free + dev[d].consumed <= Capacity[dev[d].file]
       /\ ~MemFails => free + dev[d].consumed = Capacity[dev[d].file]

(* Every free block is in the queue of its size class (ipbucket_add),      *)
(* once, and nothing else is in a queue: what the search finds is there,   *)
(* and no free space is lost to it.                                        *)
QueueExact ==
  LET nodes == UNION {{<<d, order[d][n].off>> :
                         n \in {m \in DOMAIN order[d] : order[d][m].free}} : d \in DOMAIN order}
      places == UNION {{q} \X DOMAIN queue[q] : q \in DOMAIN queue}
  IN /\ \A p \in places :
          LET node == queue[p[1]][p[2]]
          IN node \in nodes /\ ipbucket_index(SizeAt(Store(Memory), node), FALSE) = p[1]
     /\ \A node \in nodes : Cardinality({p \in places : queue[p[1]][p[2]] = node}) = 1

(* The counts that decide when an item or a device may go: used and putting*)
(* of an item are exactly the requests that hold it, used of a device the  *)
(* requests that hold one of its items, and an item that is marked deleted *)
(* is still held (or nobody would ever free it).                           *)
CountsExact ==
  /\ \A i \in DOMAIN item :
       /\ IF item[i].putting THEN item[i].used = 0 /\ Cardinality(Holders(i)) = 1
          ELSE item[i].used = Cardinality(Holders(i))
       /\ item[i].deleted => Holders(i) # {}
  /\ \A d \in DOMAIN dev :
       dev[d].used = Cardinality({r \in Requests : Held(r) /\ req[r].item[1] = d})

(* An item that is not marked deleted is in the hash of its server under   *)
(* its key, alone; a deleted one is not; each is on one LRU list and in the*)
(* order list of its device; and the server counts them all.               *)
LinksExact ==
  /\ \A i \in DOMAIN item :
       /\ \A s \in DOMAIN srv, k \in Keys :
            Contains(hash[s][k], i) <=> ~item[i].deleted /\ s = item[i].server /\ k = item[i].key
       /\ Cardinality({p \in UNION {{l} \X DOMAIN lru[l] : l \in DOMAIN lru} : lru[p[1]][p[2]] = i}) = 1
       /\ \E n \in DOMAIN order[i[1]] :
            order[i[1]][n] = ItemBlock(i[2], ipbucket_block_size(item[i].len))
  /\ \A s \in DOMAIN srv :
       LET mine == {i \in DOMAIN item : item[i].server = s}
       IN /\ srv[s].item_nr = Cardinality(mine)
          /\ srv[s].consumed = MapThenSumSet(LAMBDA i : ipbucket_block_size(item[i].len), mine)
          /\ \A k \in Keys :
               /\ Len(hash[s][k]) <= 1
               /\ Contains(hash[s][k], Passby)
                    <=> \E n \in DOMAIN passby[s] : passby[s][n].key = k

(* While a worker reads or writes the block of an item: the item is there, *)
(* its device too, and the device file is open.                            *)
HeldIsThere ==
  \A r \in Requests : Held(r) =>
    /\ req[r].item \in DOMAIN item
    /\ req[r].item[1] \in DOMAIN dev /\ dev[req[r].item[1]].open

(* No two workers touch the same bytes of a device file unless both read   *)
(* the same item, although blocks are freed and allocated meanwhile and    *)
(* devices come and go: the reason why no lock protects the data.          *)
NoConflict ==
  LET Size(i) == ipbucket_block_size(item[i].len)
      Overlap(i, j) == /\ dev[i[1]].file = dev[j[1]].file
                       /\ i[2] < j[2] + Size(j) /\ j[2] < i[2] + Size(i)
  IN \A r1, r2 \in Requests : r1 # r2 /\ Held(r1) /\ Held(r2) =>
       (Overlap(req[r1].item, req[r2].item)
          => req[r1].item = req[r2].item /\ ~item[req[r1].item].putting)

(* A GET only ever finds an item whose body was stored completely.         *)
HitsAreComplete ==
  \A i \in DOMAIN item : item[i].full \/ item[i].putting

(* A step took a valid item off the hash and left one of the same list that *)
(* was used less recently.                                                  *)
OutOfOrder ==
  LET In(h, x) == \E s \in DOMAIN h : Contains(h[s][item[x].key], x)
  IN \E l \in DOMAIN lru : \E n, m \in DOMAIN lru[l] :
       /\ n < m /\ In(hash, lru[l][n]) /\ ~In(hash', lru[l][n]) /\ In(hash', lru[l][m])
       /\ server_item_valid(Store(Memory), lru[l][n])

(* "its items are expired in accordance with LRU" (README): when the       *)
(* routine of every second takes a valid item off the hash, it has taken   *)
(* off every item of the list that was used less recently.                 *)
EvictsOldest == [][OutOfOrder => ~Routine]_vars

(* A server exceeds its capacity, with an item on its list that nobody uses. *)
OverCapacity(s) ==
  /\ srv[s].capacity # 0 /\ srv[s].consumed > srv[s].capacity
  /\ \E n \in DOMAIN lru[s] : item[lru[s][n]].used = 0 /\ ~item[lru[s][n]].putting

(* As many of the least recently used items of a list as one visit reaches. *)
Reached(l) == ToSet(SubSeq(FromOldest(lru[l]), 1, Min({Len(lru[l]), LoopLimit + 1})))

(* A step left a server over its capacity and an item that is reached. *)
LeftOver ==
  \E s \in Serving(Store(Memory)) :
    OverCapacity(s)' /\ \E i \in Reached(s) : i \in DOMAIN item' /\ ~item'[i].deleted

(* "If the space usage of a server exceed its capacity, its items are      *)
(* expired in accordance with LRU" (README): if a server exceeds its       *)
(* capacity after the routine although nobody uses some item of its list,  *)
(* then that is for LOOP_LIMIT: the oldest items of the list, as many as   *)
(* the limit allows, have gone or go with their last user.  Items that it  *)
(* stored while it had no capacity are on the shared list, where they do   *)
(* not give way to a capacity that a reload sets.                          *)
CapacityKept == [][LeftOver => ~Routine]_vars

(* "in deleting, try later" (device.c:248): later comes.  A device that a   *)
(* reload removed, or that was kicked, is freed, whatever the requests and  *)
(* reloads that go on meanwhile.                                            *)
DeviceGoes ==
  \A d \in Devices : (d \in DOMAIN dev /\ dev[d].deleted) ~> (d \notin DOMAIN dev)

(* "in order to free its items bit by bit" (server.c:102): a server that a  *)
(* reload removed is freed, also one whose items are on the shared list     *)
(* behind valid items of other servers.                                     *)
ServerGoes ==
  \A s \in Servers : (s \in DOMAIN srv /\ srv[s].deleted) ~> (s \notin DOMAIN srv)

(* A reload never frees a server a connection still refers to (README      *)
(* "can be modified by reloading").                                        *)
ServerOutlivesConnections == \A r \in Requests : req[r].server # Dangling
=============================================================================
