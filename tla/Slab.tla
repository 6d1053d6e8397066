-------------------------------- MODULE Slab --------------------------------
(***************************************************************************)
(* The slab allocator of utils/slab.c, which gives out the memory of       *)
(* requests, items, passby records and free blocks.  A block without free  *)
(* items is on no list: slab_free gets back to it through the leader of    *)
(* the item.                                                               *)
(***************************************************************************)
EXTENDS Integers, FiniteSets, Sequences

CONSTANTS
  Blocks,     \* bound: addresses of blocks
  Buckets     \* slab_buckets: items of a block

ASSUME SlabAssumption == IsFiniteSet(Blocks) /\ Buckets \in Nat \ {0}

VARIABLES
  made,         \* the blocks that are allocated
  block_head,   \* the list of blocks
  item_head,    \* per block, the list of its free items: a set of numbers
  frees,        \* per block, their count
  out           \* the items given out: pairs of a block and a number

slabVars == <<made, block_head, item_head, frees, out>>

SlabInit ==
  /\ made = {} /\ block_head = <<>> /\ out = {}
  /\ item_head = [b \in Blocks |-> {}] /\ frees = [b \in Blocks |-> 0]

(* A block is taken out of a list that it is on. *)
hlist_del(list, b) ==
  LET k == CHOOSE n \in DOMAIN list : list[n] = b
  IN [n \in 1 .. Len(list) - 1 |-> IF n < k THEN list[n] ELSE list[n + 1]]

(* The first free item of a block is given out; a block without free items *)
(* leaves the list.                                                        *)
TakeFrom(b, list, items, count) ==
  \E i \in items :
    /\ out' = out \cup {<<b, i>>}
    /\ item_head' = [item_head EXCEPT ![b] = items \ {i}]
    /\ frees' = [frees EXCEPT ![b] = count - 1]
    /\ block_head' = IF count - 1 = 0 THEN hlist_del(list, b) ELSE list

(* If malloc fails the caller gets NULL and nothing changes. *)
slab_alloc ==
  IF block_head = <<>>
  THEN \E b \in Blocks \ made :
         made' = made \cup {b} /\ TakeFrom(b, <<b>>, 1 .. Buckets, Buckets)
  ELSE LET b == Head(block_head)
       IN UNCHANGED made /\ TakeFrom(b, block_head, item_head[b], frees[b])

(* Mutant: a block that was full does not come back to the list. *)
Caught_Not(b) == block_head

(* A block that had no free item is caught again. *)
Caught(b) == IF frees[b] = 0 THEN <<b>> \o block_head ELSE block_head

(* A block whose items are all free is freed if another block follows it. *)
Freed(b, list) == frees[b] + 1 = Buckets /\ b # list[Len(list)]

slab_free(p) ==
  LET b == p[1]
      list == Caught(b)
  IN /\ p \in out /\ out' = out \ {p}
     /\ frees' = [frees EXCEPT ![b] = @ + 1]
     /\ IF Freed(b, list)
        THEN /\ made' = made \ {b} /\ block_head' = hlist_del(list, b)
             /\ item_head' = [item_head EXCEPT ![b] = {}]
        ELSE /\ item_head' = [item_head EXCEPT ![b] = @ \cup {p[2]}]
             /\ block_head' = list /\ UNCHANGED made

SlabNext == slab_alloc \/ \E p \in out : slab_free(p)

SlabSpec == SlabInit /\ [][SlabNext]_slabVars

-----------------------------------------------------------------------------
(* Properties.                                                             *)

(* Every variable has its type. *)
SlabTypeOK ==
  /\ made \subseteq Blocks /\ block_head \in Seq(Blocks)
  /\ item_head \in [Blocks -> SUBSET (1 .. Buckets)] /\ frees \in [Blocks -> Nat]
  /\ out \subseteq Blocks \X (1 .. Buckets)

(* The blocks of the list, once each. *)
Once(list) == \A m, n \in DOMAIN list : list[m] = list[n] => m = n

Listed(list, b) == \E n \in DOMAIN list : list[n] = b

(* No item is given out twice, and none belongs to a block that was freed: *)
(* in every block an item is either free or given out, the count of free   *)
(* items is right, and the list has the blocks with free items, once each. *)
SlabExact ==
  /\ \A p \in out : p[1] \in made
  /\ \A b \in made :
       /\ frees[b] = Cardinality(item_head[b])
       /\ \A i \in 1 .. Buckets : i \in item_head[b] <=> <<b, i>> \notin out
  /\ Once(block_head)
  /\ \A b \in Blocks : Listed(block_head, b) <=> b \in made /\ frees[b] > 0

(* Memory goes back: at most one block without any item in use is kept     *)
(* ("never free the first slab-block", slab.c:109), and it is the last.    *)
OneSpareBlock ==
  \A n \in DOMAIN block_head : frees[block_head[n]] = Buckets => n = Len(block_head)
=============================================================================
