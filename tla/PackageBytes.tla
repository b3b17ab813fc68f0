---------------------------- MODULE PackageBytes ----------------------------
(***************************************************************************)
(* The bytes of a package (src/src/io/package/package_bytes.cpp): numbers  *)
(* of two and of four bytes, the most significant byte first.  Positions   *)
(* count from 0.                                                           *)
(***************************************************************************)
EXTENDS Integers, Sequences, SequencesExt

CONSTANT Base       \* the number of values of a byte, 256

ASSUME BaseAssumption == Base \in Nat /\ Base > 15

Byte == 0 .. Base - 1

(* get_ushort, get_uint: a number of two or of four bytes.                  *)
Number(bytes) ==
    LET high == bytes[1] * Base + bytes[2]
    IN  IF Len(bytes) = 2 THEN high ELSE (high * Base + bytes[3]) * Base + bytes[4]

(* What a word becomes as an int: from the half of the words on, negative.   *)
WordValues == Base * Base * Base * Base

AsInt(number) == IF 2 * number < WordValues THEN number ELSE number - WordValues

Short(number) == <<(number \div Base) % Base, number % Base>>
Word(number)  == Short(number \div (Base * Base)) \o Short(number)

(* get_data, get_cstring: the bytes from a position on. *)
Slice(bytes, at, length) == SubSeq(bytes, at + 1, at + length)

(* The next multiple, for powers of two. *)
AlignedTo(at, align) == ((at + align - 1) \div align) * align

(* A table of fields gives the place and the width of each. *)
Fields(bytes, at, table) == [f \in DOMAIN table |-> Slice(bytes, at + table[f][1], table[f][2])]
=============================================================================
