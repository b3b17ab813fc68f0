---------------------------- MODULE MCObjectHeap ----------------------------
(* Instances of ObjectHeap for TLC.  Size limits and reserves are scaled     *)
(* down so that growth, both reserves and the 24 bit limit occur in objects  *)
(* of a few slots; two symbols have the same name.                           *)
EXTENDS ObjectHeap, TLC

CONSTANTS p1, p2, foo, Foo, bar, baz, v

MCNameOf == [s \in Symbols |-> IF s = Foo THEN foo ELSE s]

MCPositions == {-1, 0, 2, 4}

PtrSymmetry == Permutations(Ptrs)
=============================================================================
