------------------------------ MODULE IPBucket ------------------------------
(***************************************************************************)
(* The size classes of utils/ipbucket.h: which block an item of some size  *)
(* takes, and in which queue of free blocks to put or to look for one.     *)
(* In the code IPB_BEGIN is 9 (512-byte units) and IPB_END is 32.          *)
(***************************************************************************)
EXTENDS Integers, Sequences

CONSTANTS IPB_BEGIN, IPB_END

ASSUME IPBAssumption == IPB_BEGIN \in Nat /\ IPB_END \in Nat /\ IPB_END > IPB_BEGIN + 2

IPB_BUCKETS == (IPB_END - IPB_BEGIN) * 4 - 4 + 1

Pow2[n \in Nat] == IF n = 0 THEN 1 ELSE 2 * Pow2[n - 1]

IPB_1ST == Pow2[IPB_BEGIN]

bit_highest(n) == CHOOSE h \in 0 .. n : Pow2[h] <= n /\ n < Pow2[h + 1]

RoundUp(size, step) == ((size + step - 1) \div step) * step

ipbucket_block_size(size) ==
  RoundUp(size, IF size <= 4 * IPB_1ST THEN IPB_1ST ELSE Pow2[bit_highest(size) - 2])

(* Mutant: the up index of a small size is the down index. *)
SmallIndex_Down(size, up) == IF size < 2 * IPB_1ST THEN 0 ELSE size \div IPB_1ST - 1

(* Sizes up to four units: one class per unit. *)
SmallIndex(size, up) ==
  LET units == IF up THEN (size + IPB_1ST - 1) \div IPB_1ST ELSE size \div IPB_1ST
  IN IF units = 0 THEN 0 ELSE units - 1

(* Above them: four classes between two powers of two. *)
LargeIndex(size, up) ==
  LET first  == bit_highest(size)
      subidx == (size \div Pow2[first - 2]) % 4
      tail   == IF up /\ size % Pow2[first - 2] # 0 THEN 1 ELSE 0
  IN (first - IPB_BEGIN) * 4 - 5 + subidx + tail

(* up: the first class all of whose blocks hold size; else: the class of a  *)
(* block of that size.                                                      *)
ipbucket_index(size, up) ==
  IF size > Pow2[IPB_END] THEN IF up THEN -1 ELSE IPB_BUCKETS - 1
  ELSE IF size <= 4 * IPB_1ST THEN SmallIndex(size, up)
  ELSE LargeIndex(size, up)

-----------------------------------------------------------------------------
(* The queues, a function from 0 .. IPB_BUCKETS - 1 to sequences of nodes. *)

ipbucket_init == [i \in 0 .. IPB_BUCKETS - 1 |-> <<>>]

(* A block of exactly a class's size goes to the head, others to the tail. *)
ipbucket_add(queue, node, size) ==
  [queue EXCEPT ![ipbucket_index(size, FALSE)] =
     IF size = ipbucket_block_size(size) THEN <<node>> \o @ ELSE Append(@, node)]

ipbucket_del(queue, node) ==
  [i \in DOMAIN queue |-> SelectSeq(queue[i], LAMBDA n : n # node)]

(* The nodes ipbucket_get(size) takes, one after the other, if each of them *)
(* is asked for in turn.                                                    *)
ipbucket_scan(queue, size) ==
  LET from == ipbucket_index(size, TRUE)
      Up[i \in 0 .. IPB_BUCKETS] == IF i = IPB_BUCKETS THEN <<>> ELSE queue[i] \o Up[i + 1]
  IN IF from = -1 THEN <<>> ELSE Up[from]

(* The last node of the highest non-empty queue, as a sequence of at most   *)
(* one element.                                                             *)
ipbucket_biggest(queue) ==
  LET full == {i \in DOMAIN queue : queue[i] # <<>>}
  IN IF full = {} THEN <<>>
     ELSE LET top == queue[CHOOSE i \in full : \A j \in full : j <= i]
          IN <<top[Len(top)]>>
=============================================================================
