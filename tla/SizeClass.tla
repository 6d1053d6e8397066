----------------------------- MODULE SizeClass ------------------------------
(***************************************************************************)
(* Walks over the sizes: want is the length of an item to store, have the  *)
(* size of a free block (always a multiple of the unit, because capacities *)
(* are and block sizes are).                                               *)
(***************************************************************************)
EXTENDS IPBucket

CONSTANTS MaxWant, MaxHave   \* bounds: largest item and largest free block

ASSUME SizeClassAssumption == MaxWant \in Nat \ {0} /\ MaxHave \in Nat \ {0} /\ MaxHave % IPB_1ST = 0

VARIABLES want, have

sizeVars == <<want, have>>

SizeInit == want = 1 /\ have = IPB_1ST

LongerItem == want' = (want % MaxWant) + 1 /\ UNCHANGED have

LargerBlock == have' = (have % MaxHave) + IPB_1ST /\ UNCHANGED want

SizeNext == LongerItem \/ LargerBlock

(* A block is in the range ipbucket_get searches for an item exactly when  *)
(* the item's block fits in it: the search misses no block that is large   *)
(* enough, and device_get_free_block never meets one that is too small     *)
(* ("should not be here", device.c:461).  An item above 2^IPB_END finds    *)
(* nothing.                                                                *)
ClassFits ==
  LET up == ipbucket_index(want, TRUE)
      down == ipbucket_index(have, FALSE)
  IN /\ down \in 0 .. IPB_BUCKETS - 1
     /\ IF want > Pow2[IPB_END] THEN up = -1
        ELSE up \in 0 .. IPB_BUCKETS - 1 /\ (down >= up <=> have >= ipbucket_block_size(want))
=============================================================================
