----------------------------- MODULE PartObjects -----------------------------
(***************************************************************************)
(* What the objects of a package part have in common for the code that     *)
(* reads, writes and converts them (src/src/io/package/part_data.cpp).     *)
(***************************************************************************)
EXTENDS Integers

CONSTANT SymbolClass    \* 0x55552, the class of symbols

(* Object::peek: a map is an array whose class is an integer. *)
Kind(o) ==
    CASE o.type \in {0, 2} -> IF o.type = 0 /\ o.class = SymbolClass THEN "symbol" ELSE "binary"
      [] o.type = 1        -> IF o.class % 4 = 0 THEN "map" ELSE "array"
      [] o.type = 3        -> "frame"

Slotted == {"map", "array", "frame"}

(* The offset that a reference leads to: ref & ~3. *)
Place(ref) == ref - (ref % 4)
=============================================================================
