------------------------------- MODULE Format -------------------------------
(***************************************************************************)
(* Dump and load (format.c): when the program quits it writes the items of *)
(* each device to the start of the device file, and when it starts it      *)
(* loads them.  The module adds to the store of Server the contents of the *)
(* files and the life of the process, which quits, dies and starts again.  *)
(*                                                                         *)
(* A file is a sequence of cells, numbered from 0: the superblock, the     *)
(* ports, one cell per record and, from anywhere on, UnitCells cells per   *)
(* unit of a body.  A body is known by its port and key.  The checksum is  *)
(* taken to tell apart any two lists of ports.  What the process wrote is  *)
(* in the file although it dies.  As in Server, an expire time against the *)
(* clock is a flag, stale.                                                 *)
(***************************************************************************)
EXTENDS Server

CONSTANTS
  UnitCells,    \* cells of a unit of the file
  NoDump,       \* the ports whose servers have server_dump off
  LoadFails     \* what may fail in the load: "read", or memory of a kind

ASSUME FormatAssumption ==
  /\ UnitCells \in Nat \ {0} /\ NoDump \subseteq Ports
  /\ LoadFails \subseteq {"read", "item", "device"}

VARIABLES
  file,     \* per file, its cells
  up,       \* is the process alive?
  saved,    \* per file, the records that the next load should bring back
  revived,  \* the files that a reload took into service with a dump on them
  killed    \* the files in service when the process was last killed

fvars == <<vars, file, up, saved, revived, killed>>

Junk == [kind |-> "junk"]

Body(p, k) == [kind |-> "body", port |-> p, key |-> k]

Superblock(nr, ports) == [kind |-> "super", nr |-> nr, ports |-> ports]

PortList(ports) == [kind |-> "ports", ports |-> ports]

InfoCells == 2   \* OHC_FM_INFO_SIZE: superblock and ports

Cells(f) == 0 .. Capacity[f] * UnitCells - 1

FileOf(i) == dev[i[1]].file

BodyCells(i) ==
  i[2] * UnitCells .. (i[2] + ipbucket_block_size(item[i].len)) * UnitCells - 1

BodyOf(i) == Body(srv[item[i].server].port, item[i].key)

Unwritten(i) == {c \in BodyCells(i) : file[FileOf(i)][c] # BodyOf(i)}

-----------------------------------------------------------------------------
(* While the process lives.                                                *)

(* A worker writes the next piece of a body. *)
WorkerWrites(r) ==
  LET i == req[r].item
  IN /\ up /\ i # NoItem
     /\ item[i].putting /\ Unwritten(i) # {}
     /\ file' = [file EXCEPT ![FileOf(i)][Min(Unwritten(i))] = BodyOf(i)]
     /\ UNCHANGED <<vars, up, saved, revived, killed>>

(* The magic, the version and the checksum are right. *)
Good(cells) ==
  cells[0].kind = "super" /\ cells[1] = PortList(cells[0].ports)

(* A step of the store.  A PUT is only done when its body is written.  A    *)
(* device that a reload adds is neither loaded nor cleared.                 *)
Serves ==
  /\ up /\ Next
  /\ \A i \in DOMAIN item \cap DOMAIN item' :
       item'[i].full /\ ~item[i].full => Unwritten(i) = {}
  /\ revived' = revived \cup {dev'[d].file : d \in {e \in DOMAIN dev' \ DOMAIN dev : Good(file[dev'[e].file])}}
  /\ UNCHANGED <<file, up, saved, killed>>

-----------------------------------------------------------------------------
(* The dump.                                                               *)

server_dump_ports == [s \in Serving(Store(Memory)) |-> srv[s].port]

Dumped(i) ==
  server_item_valid(Store(Memory), i) /\ srv[item[i].server].port \notin NoDump

(* The records of device d, in the order of the offsets. *)
Records(d) ==
  LET items == SelectSeq(order[d], LAMBDA b : ~b.free /\ Dumped(<<d, b.off>>))
      Record(b) == [kind |-> "record", key |-> item[<<d, b.off>>].key,
                    len |-> item[<<d, b.off>>].len, off |-> b.off,
                    index |-> item[<<d, b.off>>].server, stale |-> FALSE]
  IN [n \in DOMAIN items |-> Record(items[n])]

(* What format_store_device writes, in its order: the ports, the records    *)
(* and, if there are any, the superblock.                                   *)
Writes(d) ==
  LET recs == Records(d)
  IN <<[at |-> 1, cell |-> PortList(server_dump_ports)]>>
     \o [n \in DOMAIN recs |-> [at |-> InfoCells + n - 1, cell |-> recs[n]]]
     \o (IF recs = <<>> THEN <<>>
         ELSE <<[at |-> 0, cell |-> Superblock(Len(recs), server_dump_ports)]>>)

(* The first n writes of format_store_device are done. *)
format_store_device(cells, d, n) ==
  FoldLeft(LAMBDA c, w : [c EXCEPT ![w.at] = w.cell], cells, SubSeq(Writes(d), 1, n))

Override(nr) == InfoCells + nr

(* What the records of d, all written, should bring back: not the items     *)
(* whose bodies they cover.                                                 *)
Lasting(d) ==
  LET recs == Records(d)
      Entry(rec) == [key |-> rec.key, len |-> rec.len, off |-> rec.off,
                     port |-> srv[rec.index].port]
  IN {Entry(recs[n]) : n \in {m \in DOMAIN recs :
                                recs[m].off * UnitCells >= Override(Len(recs))}}

request_check_quit == \A r \in Requests : req[r].server = NoServer

Dies ==
  /\ up' = FALSE /\ UNCHANGED revived
  /\ Become(Empty)

(* The quit command has been obeyed and the last connection is gone:        *)
(* device_format_store, each of whose devices may meet a write error or the *)
(* death of the process after some of its writes.  An entry of a kicked     *)
(* device has no items and writes at most the ports.                        *)
Quit ==
  /\ up /\ ~oops /\ request_check_quit
  /\ \E done \in [Ordered -> 0 .. 2 + Max({Capacity[f] : f \in Files})],
        bad \in SUBSET kicked :
       LET Of(f) == {d \in Ordered : dev[d].file = f}
           Whole(d) == done[d] = Len(Writes(d))
       IN /\ \A d \in Ordered : done[d] <= Len(Writes(d))
          /\ file' = [f \in Files |->
               IF f \in bad THEN [file[f] EXCEPT ![1] = PortList(server_dump_ports)]
               ELSE FoldSet(LAMBDA d, c : format_store_device(c, d, done[d]), file[f], Of(f))]
          /\ saved' = [f \in Files |->
               IF Of(f) = {} THEN IF f \in bad THEN {} ELSE saved[f]
               ELSE UNION {IF Whole(d) THEN Lasting(d) ELSE {} : d \in Of(f)}]
  /\ Dies /\ UNCHANGED killed

(* The process is killed, or device_get_free_block exits. *)
Crash ==
  /\ up /\ Dies
  /\ killed' = {dev[d].file : d \in DOMAIN dev}
  /\ saved' = [f \in Files |-> IF f \in killed' THEN {} ELSE saved[f]]
  /\ UNCHANGED file

-----------------------------------------------------------------------------
(* The load.                                                               *)

server_load_fm_item(st, s, d, rec) ==
  LET bsize == ipbucket_block_size(rec.len)
      cut == device_cut_free_block(st, d, rec.off, bsize)
      i == <<d, rec.off>>
      new == [cut.st EXCEPT
                !.item = @ @@ (i :> [NewItem(s, rec.key, rec.len) EXCEPT
                                       !.putting = FALSE, !.full = TRUE]),
                !.srv[s].consumed = @ + bsize,
                !.srv[s].item_nr = @ + 1]
  IN IF "item" \notin st.mem \/ ~cut.ok THEN st ELSE LruAdd(hash_add(new, s, rec.key, i), i)

(* Mutant: items under the records are loaded too. *)
Skipped_NoOverride(rec, nr) == rec.kind # "record" \/ rec.stale

(* The items that the dump itself covered, and what has expired.  (Bytes    *)
(* that are no record would be taken for one; they are skipped here.)       *)
Skipped(rec, nr) ==
  rec.kind # "record" \/ rec.off * UnitCells < Override(nr) \/ rec.stale

(* A record goes to the server that now has the port its server had.  (For  *)
(* an index without a port disk_servers is not set: the records of a dump   *)
(* that was interrupted under an older superblock may have one.  Such a     *)
(* record is skipped here.)                                                 *)
LoadRecord(st, d, cells, rec) ==
  LET ports == cells[0].ports
      new == {s \in DOMAIN st.srv : rec.index \in DOMAIN ports /\ st.srv[s].port = ports[rec.index]}
  IN IF Skipped(rec, cells[0].nr) \/ new = {} THEN st
     ELSE server_load_fm_item(st, CHOOSE s \in new : TRUE, d, rec)

(* Mutant: the first record that is skipped ends the load. *)
LoadRecords_Stop(st, d, cells, n) ==
  LET recs == [m \in 1 .. n |-> cells[InfoCells + m - 1]]
      bad == {m \in 1 .. n : Skipped(recs[m], cells[0].nr)}
  IN FoldLeft(LAMBDA t, rec : LoadRecord(t, d, cells, rec), st,
              SubSeq(recs, 1, Min(bad \cup {n + 1}) - 1))

LoadRecords(st, d, cells, n) ==
  FoldLeft(LAMBDA t, rec : LoadRecord(t, d, cells, rec), st,
           [m \in 1 .. n |-> cells[InfoCells + m - 1]])

(* n records can be read; the magic is cleared after the last one, if that  *)
(* can be done.                                                             *)
format_load_device(st, d, n) ==
  LET cells == file[st.dev[d].file]
  IN IF ~Good(cells) THEN st
     ELSE IF n < cells[0].nr THEN LoadRecords(st, d, cells, n)
     ELSE device_load_post(LoadRecords(st, d, cells, cells[0].nr), d)

(* Mutant: the magic is left as it is. *)
Cleared_Not(cells) == cells

Cleared(cells) == IF Good(cells) THEN [cells EXCEPT ![0] = Junk] ELSE cells

(* The start of the process under configuration c, before its first event:  *)
(* there is memory for the devices, and as mem says for what they hold.     *)
Starts(c, mem) ==
  LET st == server_conf_load(device_conf_load(Empty, c.files), c.capacity)
      all == 1 + Max({Capacity[f] : f \in Files}) * UnitCells
  IN /\ ~up /\ up' = TRUE
     /\ \E reads \in [DOMAIN st.dev -> IF "read" \in LoadFails THEN 0 .. all ELSE {all}] :
          LET Whole(f) == \E d \in DOMAIN st.dev : /\ st.dev[d].file = f
                                                   /\ reads[d] > file[f][0].nr
          IN /\ Become(FoldLeft(LAMBDA t, d : format_load_device(t, d, reads[d]),
                                [st EXCEPT !.mem = mem], Ascending(DOMAIN st.dev)))
             /\ file' = [f \in Files |->
                  IF f \in c.files /\ Good(file[f]) /\ Whole(f) THEN Cleared(file[f]) ELSE file[f]]
     /\ saved' = [f \in Files |-> IF f \in c.files THEN {} ELSE saved[f]]
     /\ killed' = {} /\ UNCHANGED revived

(* The process dies in the load, when it has cleared the first devices.     *)
DiesInLoad(c) ==
  LET st == device_conf_load(Empty, c.files)
  IN /\ ~up
     /\ \E n \in DOMAIN st.dev :
          LET done == {st.dev[d].file : d \in {e \in DOMAIN st.dev : e <= n}}
          IN /\ file' = [f \in Files |-> IF f \in done THEN Cleared(file[f]) ELSE file[f]]
             /\ saved' = [f \in Files |-> IF f \in done THEN {} ELSE saved[f]]
     /\ UNCHANGED <<vars, up, revived, killed>>

(* The expire time of an item in a dump passes while the process is down. *)
RecordExpires(f, c) ==
  LET rec == file[f][c]
  IN /\ ~up /\ Good(file[f]) /\ c \in InfoCells .. Override(file[f][0].nr) - 1
     /\ rec.kind = "record" /\ ~rec.stale
     /\ file' = [file EXCEPT ![f][c].stale = TRUE]
     /\ saved' = [saved EXCEPT ![f] = {e \in @ : e.off # rec.off}]
     /\ UNCHANGED <<vars, up, revived, killed>>

-----------------------------------------------------------------------------
FormatInit ==
  /\ Init
  /\ file = [f \in Files |-> [c \in Cells(f) |-> Junk]]
  /\ up = TRUE
  /\ saved = [f \in Files |-> {}] /\ revived = {} /\ killed = {}

FormatNext ==
  \/ Serves
  \/ \E r \in Requests : WorkerWrites(r)
  \/ Quit
  \/ Crash
  \/ \E c \in Confs, lack \in SUBSET (LoadFails \ {"read"}) : Starts(c, Memory \ lack)
  \/ \E c \in Confs : DiesInLoad(c)
  \/ \E f \in Files : \E c \in Cells(f) : RecordExpires(f, c)

FormatSpec == FormatInit /\ [][FormatNext]_fvars

-----------------------------------------------------------------------------
(* Properties.                                                             *)

(* The bytes of an item that a GET may find are those that were stored     *)
(* under its key on its port, whatever dumps, loads and crashes there were *)
(* since and whoever had its block before: a dump covers no body that is   *)
(* loaded again, and no dump outlives the bodies it refers to.  Stated of  *)
(* the files that no reload took into service with a dump on them.         *)
BodiesIntact ==
  \A i \in DOMAIN item : item[i].full /\ FileOf(i) \notin revived => Unwritten(i) = {}

(* What a start finds on file f, as entries of saved. *)
Restored(f) ==
  {[key |-> item'[i].key, len |-> item'[i].len, off |-> i[2], port |-> srv'[item'[i].server].port] :
     i \in {j \in DOMAIN item' : dev'[j[1]].file = f}}

(* A start brings back only what the last quit saved, and nothing from a   *)
(* file that was in service when the process died, or died before its dump *)
(* was complete (format_load_device clears the magic).  Stated as          *)
(* BodiesIntact is.                                                        *)
RestoresOnlySaved ==
  [][~up /\ up' => \A f \in Files \ revived : Restored(f) \subseteq saved[f]]_fvars

(* "If OliveHC quits abnormally, all data lose" (README): a start brings   *)
(* back nothing from a file that was in service when the process was       *)
(* killed.                                                                 *)
AbnormalQuitLosesAll ==
  [][~up /\ up' => \A f \in killed : Restored(f) = {}]_fvars

(* "They will be dumped onto store devices only when OliveHC quits, for     *)
(* persistence" (README): a start brings back every valid item of a quit    *)
(* that was not interrupted, unless it expired meanwhile, its port is no    *)
(* longer served, or the dump itself lies on it, provided there is memory.  *)
RestoresAllSaved ==
  [][~up /\ (\E c \in Confs : Starts(c, Memory)) =>
       \A f \in Files : \A e \in saved[f] :
         /\ \E d \in DOMAIN dev' : dev'[d].file = f
         /\ \E s \in DOMAIN srv' : srv'[s].port = e.port
         => e \in Restored(f)]_fvars
=============================================================================
