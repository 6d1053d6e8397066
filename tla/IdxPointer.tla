----------------------------- MODULE IdxPointer -----------------------------
(***************************************************************************)
(* The index pointers of utils/idx_pointer.h: an array of pointers and the *)
(* lowest slot that may be free.                                           *)
(***************************************************************************)
EXTENDS Integers, FiniteSetsExt

CONSTANT IPT_ARRAY_SIZE

ASSUME IdxAssumption == IPT_ARRAY_SIZE \in Nat \ {0}

Slots == 0 .. IPT_ARRAY_SIZE - 1

Empty == "NULL"

IDX_POINTER_INIT == [lowest |-> 0, array |-> [i \in Slots |-> Empty]]

(* The slots that the loop of idx_pointer_add can stop at. *)
FreeSlots(ipt) == {i \in Slots : i >= ipt.lowest /\ ipt.array[i] = Empty}

(* Only with a free slot: without one the loop runs past the array, or the *)
(* caller gets the index -1, which it does not check.                      *)
idx_pointer_add(ipt, pointer) ==
  LET index == Min(FreeSlots(ipt))
  IN [ipt |-> [lowest |-> index + 1, array |-> [ipt.array EXCEPT ![index] = pointer]], index |-> index]

(* Mutant: lowest is not lowered. *)
idx_pointer_delete_High(ipt, index) == [ipt EXCEPT !.array[index] = Empty]

idx_pointer_delete(ipt, index) ==
  [lowest |-> IF index < ipt.lowest THEN index ELSE ipt.lowest,
   array |-> [ipt.array EXCEPT ![index] = Empty]]

-----------------------------------------------------------------------------
(* Properties.                                                             *)

(* No slot below lowest is free. *)
NoneBelow(ipt) == \A i \in Slots : ipt.array[i] = Empty => i >= ipt.lowest
=============================================================================
