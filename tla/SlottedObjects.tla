--------------------------- MODULE SlottedObjects ---------------------------
(***************************************************************************)
(* Arrays, frame maps and frames of the object system                      *)
(* (src/src/objects/objects.cpp, src/include/dyn/objects.h) as values, and *)
(* the methods of SlottedObject, Array and Frame as operators on them.     *)
(*                                                                         *)
(* A slotted object owns a block of memory "slot", of which the first      *)
(* "length" slots are in use and the next "reserve" slots are spare.  C++  *)
(* indices are kept: slot is a function on 0 .. capacity-1.  A frame owns  *)
(* its map (no operation hands the pointer out or shares it), so the map   *)
(* is part of the frame; slot 0 of a map is the unused super map and slot  *)
(* i+1 holds the tag of slot i of the frame.                               *)
(***************************************************************************)
EXTENDS Integers

CONSTANTS
    Ptrs,           \* addresses of arrays and frames
    Symbols,        \* symbol objects; Sym() makes a new one on every call
    NameOf,         \* the case-folded name of each symbol
    Immediates,     \* the non-pointer Refs that occur
    NIL, UNREF,     \* two of them: RefNIL and the default constructed Ref
    Garbage,        \* the content of memory that realloc has not initialised
    SizeLimit,      \* the 24 bit size_ holds lengths below 2^24 / 8
    GrowthStep,     \* 16: a longer object gets the large reserve when it grows
    SmallReserve,   \* 5
    LargeReserve,   \* 9
    InitialReserve  \* 4: spare slots of an object created empty

Ref == Immediates \cup Symbols \cup Ptrs

Names == {NameOf[s] : s \in Symbols}

ASSUME RefAssumption ==
    /\ NIL \in Immediates
    /\ UNREF \in Immediates
    /\ NIL # UNREF
    /\ Garbage \notin Ref
    /\ Immediates \cap Symbols = {}
    /\ Immediates \cap Ptrs = {}
    /\ Symbols \cap Ptrs = {}

ASSUME SizeAssumption ==
    /\ SizeLimit \in Nat \ {0, 1}
    /\ GrowthStep \in Nat
    /\ SmallReserve \in Nat
    /\ LargeReserve \in Nat
    /\ InitialReserve \in Nat

Indices == 0 .. SizeLimit - 1

(* A block of memory is a function on the indices that were allocated. *)
IsMemory(m) ==
    /\ DOMAIN m \in SUBSET Nat
    /\ m \in [DOMAIN m -> Ref \cup {Garbage}]

IsSlotted(o) ==
    /\ o.length \in 0 .. SizeLimit - 1
    /\ o.reserve \in Nat
    /\ IsMemory(o.slot)

(* The head is the word that array.class_ and frame.map_ share.            *)
Object(tag, head, length, reserve, slot) ==
    [tag |-> tag, head |-> head, length |-> length, reserve |-> reserve, slot |-> slot]

IsObject(o) == o = Object(o.tag, o.head, o.length, o.reserve, o.slot) /\ IsSlotted(o)

IsArrayObject(o) == IsObject(o) /\ o.tag = "array" /\ o.head \in Ref

IsFrameObject(o) == IsObject(o) /\ o.tag = "frame" /\ IsArrayObject(o.head)

(* Fresh memory: new Ref[n] runs the default constructor on every slot. *)
NewSlots(n) == [i \in 0 .. n - 1 |-> UNREF]

(* Faulty: the length is not cut to the bits it has. *)
NewArrayUncut(class, n) == Object("array", class, n, 0, NewSlots(n))

(* Array(class, length): the length goes through the 24 bit size_. *)
NewArray(class, n) == Object("array", class, n % SizeLimit, 0, NewSlots(n))

(* Array(class): no slots in use, a few in reserve. *)
NewEmptyArray(class) ==
    Object("array", class, 0, InitialReserve, NewSlots(InitialReserve))

(* Frame(): a map with only the super map slot, and no slots in use.  The    *)
(* class of a map is never read; UNREF stands for it.                       *)
NewFrame ==
    Object("frame", NewArray(UNREF, 1), 0, InitialReserve, NewSlots(InitialReserve))

(* What an address holds that is not in use. *)
NoObject == Object("none", Garbage, 0, 0, NewSlots(0))

Realloc(memory, n) ==
    [i \in 0 .. n - 1 |-> IF i \in DOMAIN memory THEN memory[i] ELSE Garbage]

(* SlottedObject::SetLength: use the reserve, or reallocate with a new one; *)
(* the slots that come into use read NIL.                                   *)
Fits(o, n) == n <= o.length + o.reserve

(* Faulty: the reserve counted the wrong way round. *)
ReserveForBackwards(o, n) ==
    IF Fits(o, n) THEN n - (o.length + o.reserve)
    ELSE IF n > GrowthStep THEN LargeReserve ELSE SmallReserve

ReserveFor(o, n) ==
    IF Fits(o, n) THEN o.length + o.reserve - n
    ELSE IF n > GrowthStep THEN LargeReserve ELSE SmallReserve

(* Faulty: the reserve is counted but not allocated. *)
MemoryForWithoutReserve(o, n) == IF Fits(o, n) THEN o.slot ELSE Realloc(o.slot, n)

MemoryFor(o, n) == IF Fits(o, n) THEN o.slot ELSE Realloc(o.slot, n + ReserveFor(o, n))

(* Faulty: new slots are left as realloc made them. *)
SlotsForUninitialised(o, n) == MemoryFor(o, n)

SlotsFor(o, n) ==
    [i \in DOMAIN MemoryFor(o, n) |->
        IF i \in o.length .. n - 1 THEN NIL ELSE MemoryFor(o, n)[i]]

SetLength(o, n) ==
    Object(o.tag, o.head, n % SizeLimit, ReserveFor(o, n), SlotsFor(o, n))

(* The assertion in the loop of SetLength that initialises the new slots. *)
SetLengthAsserts(o, n) == \A i \in o.length .. n - 1 : i < n % SizeLimit

SetSlot(o, i, value) ==
    Object(o.tag, o.head, o.length, o.reserve, [o.slot EXCEPT ![i] = value])

SetSlotAsserts(o, i) == i \in 0 .. o.length - 1

(* SlottedObject::GetSlot: past the end reads NIL. *)
GetSlot(o, i) == IF i < o.length THEN o.slot[i] ELSE NIL

GetSlotAsserts(o, i) == i < o.length => i >= 0

(* Array::AddSlot returns the index of the new slot, o.length. *)
AddSlot(o, value) == SetSlot(SetLength(o, o.length + 1), o.length, value)

AddSlotAsserts(o) ==
    /\ SetLengthAsserts(o, o.length + 1)
    /\ SetSlotAsserts(SetLength(o, o.length + 1), o.length)

(* Faulty: symbols compared as pointers. *)
SymbolsIdentical(s, t) == s = t

(* Symbols compare by case-folded name: Sym() does not unify them. *)
SymbolsEqual(s, t) == s = t \/ NameOf[s] = NameOf[t]

(* Faulty: the search skips the first tag. *)
TagSlotsAfterFirst(map, tag) ==
    {i \in 2 .. map.length - 1 : SymbolsEqual(map.slot[i], tag)}

TagSlots(map, tag) == {i \in 1 .. map.length - 1 : SymbolsEqual(map.slot[i], tag)}

HasTag(frame, tag) == TagSlots(frame.head, tag) # {}

(* Faulty: the index in the map instead of the one in the frame. *)
FindMapIndex(map, tag) ==
    IF TagSlots(map, tag) = {}
    THEN -1
    ELSE CHOOSE i \in TagSlots(map, tag) : \A j \in TagSlots(map, tag) : i <= j

(* FindOffset: the FRAME slot of the first equal tag, the map slot less one. *)
FindOffset(map, tag) ==
    IF TagSlots(map, tag) = {}
    THEN -1
    ELSE (CHOOSE i \in TagSlots(map, tag) : \A j \in TagSlots(map, tag) : i <= j) - 1

(* Frame::SetSlot.  "index" is a map index for a new tag, but FindOffset has *)
(* already subtracted one for a known tag; the code subtracts one in both.   *)
WithTag(frame, tag) ==
    Object("frame", AddSlot(frame.head, tag), frame.length, frame.reserve, frame.slot)

FrameSetSlot(frame, tag, value) ==
    LET index == FindOffset(frame.head, tag)
        added == frame.head.length
    IN  IF index = -1
        THEN SetSlot(SetLength(WithTag(frame, tag), added), added - 1, value)
        ELSE SetSlot(frame, index - 1, value)

(* Faulty: a new slot that is asserted, and written, without the "- 1". *)
FrameSetSlotAssertsPastEnd(frame, tag) ==
    LET index == FindOffset(frame.head, tag)
        added == frame.head.length
    IN  IF index = -1
        THEN /\ AddSlotAsserts(frame.head)
             /\ SetLengthAsserts(frame, added)
             /\ SetSlotAsserts(SetLength(frame, added), added)
        ELSE SetSlotAsserts(frame, index - 1)

FrameSetSlotAsserts(frame, tag) ==
    LET index == FindOffset(frame.head, tag)
        added == frame.head.length
    IN  IF index = -1
        THEN /\ AddSlotAsserts(frame.head)
             /\ SetLengthAsserts(frame, added)
             /\ SetSlotAsserts(SetLength(frame, added), added - 1)
        ELSE SetSlotAsserts(frame, index - 1)

(* Frame::GetSlot(tag) indexes the slots with the offset as it is. *)
FrameGetSlot(frame, tag) ==
    LET index == FindOffset(frame.head, tag)
    IN  IF index = -1 THEN NIL ELSE frame.slot[index]

FrameGetSlotAsserts(frame, tag) ==
    LET index == FindOffset(frame.head, tag)
    IN  index # -1 => index \in 0 .. frame.length - 1

(* The constructors initialise the tag byte with t{Tag, 0x10}.  flags_ has    *)
(* the five bits above the tag, so 0x10 is its bit 4, dirty_; read_only_ is   *)
(* bit 3.                                                                     *)
ConstructorFlags == 16
IsReadOnly(flags) == (flags \div 8) % 2 = 1

-----------------------------------------------------------------------------
(* What keeps an object usable.  It owns the slots it uses and those it      *)
(* counts as spare; no slot in use holds what realloc left there; a frame    *)
(* has one tag for each slot, a symbol, and no tag twice.                    *)
OwnsItsSlots(o) == 0 .. o.length + o.reserve - 1 \subseteq DOMAIN o.slot

Initialised(o) == \A i \in 0 .. o.length - 1 : o.slot[i] # Garbage

InStep(frame) ==
    LET map  == frame.head
        tags == 1 .. map.length - 1
    IN  /\ map.length = frame.length + 1
        /\ \A i \in tags : map.slot[i] \in Symbols
        /\ \A i, j \in tags : SymbolsEqual(map.slot[i], map.slot[j]) => i = j

(* One slot more stays below the limit. *)
Room(o) == o.length + 1 < SizeLimit
=============================================================================
