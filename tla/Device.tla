------------------------------- MODULE Device -------------------------------
(***************************************************************************)
(* Devices and free blocks (device.c) as operators on the state st of the  *)
(* store.  They use these fields of st:                                    *)
(*   dev     the ohc_device_t objects that exist, by number                *)
(*   order   per device, its order list: free blocks and items by offset   *)
(*   queue   the free_blocks of all devices, by size class                 *)
(*   item    the ohc_item_t objects that exist, by place                   *)
(*   kicked  the files whose entry in the device list is a kicked one      *)
(*   mem     what there is memory for in this step: "item", "passby" and   *)
(*           "device", the free blocks and the copies of kicked devices    *)
(*   oops    device_get_free_block reached its exit(1)                     *)
(* Items and free blocks are named by their place, <<device, offset>>: it  *)
(* is theirs as long as they are in an order list.  Sizes count 512-byte   *)
(* units.                                                                  *)
(***************************************************************************)
EXTENDS IPBucket, FiniteSets, SequencesExt

CONSTANTS
  Devices,      \* numbers of the ohc_device_t objects
  Capacity,     \* Capacity[f]: units of the device file f
  BadPercent,   \* device_badblock_percent
  LoopLimit     \* LOOP_LIMIT

FreeBlock(off, size) == [off |-> off, size |-> size, free |-> TRUE]

ItemBlock(off, size) == [off |-> off, size |-> size, free |-> FALSE]

(* Position and size of the block at a place. *)
At(st, place) ==
  CHOOSE n \in DOMAIN st.order[place[1]] : st.order[place[1]][n].off = place[2]

SizeAt(st, place) == st.order[place[1]][At(st, place)].size

device_fblock_insert(st, d, n, off, size) ==
  IF "device" \notin st.mem THEN st
  ELSE [st EXCEPT !.order[d] = InsertAt(@, n, FreeBlock(off, size)),
                  !.queue = ipbucket_add(@, <<d, off>>, size)]

Unlink(st, place) == [st EXCEPT !.order[place[1]] = RemoveAt(@, At(st, place))]

device_fblock_delete(st, place) ==
  [Unlink(st, place) EXCEPT !.queue = ipbucket_del(@, place)]

(* Mutant: the block keeps its place in the queues. *)
device_ipbucket_update_None(st, d, n, off, size) ==
  [st EXCEPT !.order[d][n] = FreeBlock(off, size)]

(* The free block at position n becomes one of that offset and size. *)
device_ipbucket_update(st, d, n, off, size) ==
  [st EXCEPT !.order[d][n] = FreeBlock(off, size),
             !.queue = ipbucket_add(ipbucket_del(@, <<d, st.order[d][n].off>>),
                                    <<d, off>>, size)]

-----------------------------------------------------------------------------
(* Devices come and go.                                                    *)

NewDevice(f) == [file |-> f, deleted |-> FALSE, open |-> TRUE, used |-> 0,
                 consumed |-> 0, badblock |-> 0]

(* Without memory for the free block the entry is a kicked one. *)
device_add(st, f) ==
  LET d == CHOOSE n \in Devices \ DOMAIN st.dev :
             \A m \in Devices \ DOMAIN st.dev : n <= m
      new == [st EXCEPT !.dev = @ @@ (d :> NewDevice(f)), !.order = @ @@ (d :> <<>>)]
  IN IF Capacity[f] # 0 /\ "device" \notin st.mem THEN [st EXCEPT !.kicked = @ \cup {f}]
     ELSE IF Capacity[f] # 0 THEN device_fblock_insert(new, d, 1, 0, Capacity[f])
     ELSE new

device_delete(st, d) == [st EXCEPT !.dev[d].deleted = TRUE]

(* A kicked copy takes the place of the device in the list. *)
device_kick(st, d) ==
  IF "device" \notin st.mem THEN st
  ELSE device_delete([st EXCEPT !.kicked = @ \cup {st.dev[d].file}], d)

(* Mutant: the file is closed without waiting for its users. *)
CloseUnused_Now(st, d) == [st EXCEPT !.dev[d].open = FALSE]

(* "we want to close the fd as soon as possible". *)
CloseUnused(st, d) == [st EXCEPT !.dev[d].open = @ /\ st.dev[d].used # 0]

-----------------------------------------------------------------------------
(* Space for items.                                                        *)

(* Cut an item's block off the rear of the free block at a place. *)
Take(st, place, bsize) ==
  LET d    == place[1]
      off  == place[2]
      n    == At(st, place)
      rest == st.order[d][n].size - bsize
      used == [st EXCEPT !.dev[d].consumed = @ + bsize]
  IN IF rest > 0
     THEN [ok |-> TRUE, place |-> <<d, off + rest>>,
           st |-> [device_ipbucket_update(used, d, n, off, rest) EXCEPT
                     !.order[d] = InsertAt(@, n + 1, ItemBlock(off + rest, bsize))]]
     ELSE IF rest = 0
     THEN [ok |-> TRUE, place |-> place,
           st |-> [used EXCEPT !.order[d][n] = ItemBlock(off, bsize),
                               !.queue = ipbucket_del(@, place)]]
     ELSE [ok |-> FALSE, st |-> [st EXCEPT !.oops = TRUE]]

(* The first block of the scan whose device is not deleted; free blocks of  *)
(* deleted devices met on the way are dropped.                              *)
TakeFirst(st, scan, bsize) ==
  LET live  == {k \in DOMAIN scan : ~st.dev[scan[k][1]].deleted}
      first == Min(live \cup {Len(scan) + 1})
      swept == FoldLeft(device_fblock_delete, st,
                        SubSeq(scan, 1, Min({first - 1, LoopLimit + 1})))
  IN IF first > Min({Len(scan), LoopLimit + 1}) THEN [ok |-> FALSE, st |-> swept]
     ELSE Take(swept, scan[first], bsize)

(* A block for an item of that length. *)
device_get_free_block(st, len) ==
  TakeFirst(st, ipbucket_scan(st.queue, len), ipbucket_block_size(len))

(* Mutant: only the block behind is merged. *)
Recycle_NoForward(st, d, n, off, bsize) ==
  LET list == st.order[d]
      backward == n <= Len(list) /\ list[n].free /\ list[n].off = off + bsize
  IN IF backward THEN device_ipbucket_update(st, d, n, off, bsize + list[n].size)
     ELSE device_fblock_insert(st, d, n, off, bsize)

(* The block at off, which was at position n of the list, becomes free and  *)
(* is merged with the free blocks it touches.                               *)
Recycle(st, d, n, off, bsize) ==
  LET list     == st.order[d]
      forward  == n > 1 /\ list[n - 1].free /\ list[n - 1].off + list[n - 1].size = off
      backward == n <= Len(list) /\ list[n].free /\ list[n].off = off + bsize
  IN IF forward /\ backward
     THEN device_fblock_delete(
            device_ipbucket_update(st, d, n - 1, list[n - 1].off,
                                   list[n - 1].size + bsize + list[n].size),
            <<d, list[n].off>>)
     ELSE IF forward
     THEN device_ipbucket_update(st, d, n - 1, list[n - 1].off, list[n - 1].size + bsize)
     ELSE IF backward
     THEN device_ipbucket_update(st, d, n, off, bsize + list[n].size)
     ELSE device_fblock_insert(st, d, n, off, bsize)

(* A deleted device gets nothing back; the block of a badblock item is lost *)
(* for ever, and too many of them kick the device.                          *)
device_return_free_block(st, i) ==
  LET d == i[1]
      bsize == SizeAt(st, i)
      bad == st.dev[d].badblock + bsize
      marked == [Unlink(st, i) EXCEPT !.dev[d].badblock = bad]
  IN IF st.dev[d].deleted THEN Unlink(st, i)
     ELSE IF st.item[i].badblock
     THEN IF (bad * 100) \div Capacity[st.dev[d].file] > BadPercent
          THEN device_kick(marked, d) ELSE marked
     ELSE Recycle([Unlink(st, i) EXCEPT !.dev[d].consumed = @ - bsize], d, At(st, i), i[2], bsize)

-----------------------------------------------------------------------------
(* Loading a dump.                                                         *)

(* Mutant: a gap is not made a free block. *)
device_cut_free_block_NoGap(st, d, off, bsize) ==
  LET list == st.order[d]
      rest == list[Len(list)]
      gap  == off - rest.off
      Moved(node) == IF node = <<d, rest.off>> THEN <<d, off + bsize>> ELSE node
  IN IF gap < 0 \/ rest.size < gap + bsize THEN [ok |-> FALSE, st |-> st]
     ELSE [ok |-> TRUE,
           st |-> [st EXCEPT !.order[d] = Front(@) \o <<ItemBlock(off, bsize),
                                                       FreeBlock(off + bsize, rest.size - gap - bsize)>>,
                             !.queue = [q \in DOMAIN @ |-> [n \in DOMAIN @[q] |-> Moved(@[q][n])]],
                             !.dev[d].consumed = @ + bsize]]

(* The last block of the list, the remaining space, gives up its first     *)
(* bsize units from off on; a gap before them becomes a free block.  The   *)
(* remaining block moves, but keeps its place in the queues.               *)
device_cut_free_block(st, d, off, bsize) ==
  LET list == st.order[d]
      rest == list[Len(list)]
      gap  == off - rest.off
      Moved(node) == IF node = <<d, rest.off>> THEN <<d, off + bsize>> ELSE node
      cut  == [st EXCEPT
                 !.order[d] = Front(@) \o <<ItemBlock(off, bsize),
                                           FreeBlock(off + bsize, rest.size - gap - bsize)>>,
                 !.queue = [q \in DOMAIN @ |-> [n \in DOMAIN @[q] |-> Moved(@[q][n])]],
                 !.dev[d].consumed = @ + bsize]
  IN IF gap < 0 \/ rest.size < gap + bsize THEN [ok |-> FALSE, st |-> st]
     ELSE [ok |-> TRUE, st |-> IF gap = 0 THEN cut
                               ELSE device_fblock_insert(cut, d, Len(list), rest.off, gap)]

(* Mutant: the remaining block keeps its place in the queues. *)
device_load_post_None(st, d) == st

(* The remaining block gets into the queue of its size, or goes. *)
device_load_post(st, d) ==
  LET n == Len(st.order[d])
      rest == st.order[d][n]
  IN IF rest.size = 0 THEN device_fblock_delete(st, <<d, rest.off>>)
     ELSE device_ipbucket_update(st, d, n, rest.off, rest.size)
=============================================================================
