-------------------------- MODULE MCDisciplinedHeap -------------------------
(* Instance of DisciplinedHeap for TLC, with limits as in MCObjectHeap.      *)
EXTENDS DisciplinedHeap, TLC

CONSTANTS p1, p2, foo, Foo, bar, v, w

MCNameOf == [s \in Symbols |-> IF s = Foo THEN foo ELSE s]

MCPositions == 0 .. 2
=============================================================================
