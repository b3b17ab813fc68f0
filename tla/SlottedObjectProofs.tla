------------------------ MODULE SlottedObjectProofs -------------------------
(***************************************************************************)
(* What the methods of arrays, frame maps and frames preserve, for every   *)
(* size limit and every growth policy.                                     *)
(***************************************************************************)
EXTENDS FreshObjects, SequenceTheorems, TLAPS

(* An array, and a frame, as every operation expects and leaves them. *)
Sound(o) == OwnsItsSlots(o) /\ Initialised(o)

SoundArray(a) == IsArrayObject(a) /\ Sound(a)

SoundFrame(f) == IsFrameObject(f) /\ Sound(f) /\ SoundArray(f.head) /\ InStep(f)

(* The slots of b are those of o, but for some that hold ref or NIL.         *)
OnlyNew(o, b, ref) ==
    \A i \in 0 .. b.length - 1 :
        b.slot[i] = ref \/ b.slot[i] = NIL \/ (i < o.length /\ b.slot[i] = o.slot[i])

(* The frame b has one more tag than f, and ref under it.                     *)
Bound(f, b, tag, ref) ==
    /\ b.length = f.length + 1
    /\ \A i \in 1 .. f.length : b.head.slot[i] = f.head.slot[i]
    /\ b.head.slot[b.length] = tag
    /\ \A i \in 0 .. f.length - 1 : b.slot[i] = f.slot[i]
    /\ b.slot[f.length] = ref

-----------------------------------------------------------------------------
(* Truncation to 24 bits changes nothing below the limit, and never         *)
(* lengthens.                                                                *)
LEMMA Truncation ==
    ASSUME NEW n \in Nat
    PROVE  /\ n % SizeLimit \in 0 .. SizeLimit - 1
           /\ n % SizeLimit <= n
           /\ n < SizeLimit => n % SizeLimit = n
<1>1. n % SizeLimit \in 0 .. SizeLimit - 1
  BY SizeAssumption
<1>2. n < SizeLimit => n % SizeLimit = n
  BY SizeAssumption, Z3
<1>3. n % SizeLimit <= n
  BY <1>1, <1>2, SizeAssumption
<1>4. QED
  BY <1>1, <1>2, <1>3

(* A length that passes the assertion in SetLength is below the limit, so   *)
(* size_ holds it.                                                           *)
LEMMA AssertedLength ==
    ASSUME NEW o, NEW n \in Nat, IsSlotted(o), SetLengthAsserts(o, n)
    PROVE  n < SizeLimit /\ n % SizeLimit = n
<1>1. o.length \in 0 .. SizeLimit - 1
  BY DEF IsSlotted
<1>2. CASE n >= SizeLimit
  <2>1. n - 1 \in o.length .. n - 1
    BY <1>1, <1>2, SizeAssumption
  <2>2. n - 1 < n % SizeLimit
    BY <2>1 DEF SetLengthAsserts
  <2>3. QED
    BY <2>2, <1>2, Truncation, SizeAssumption
<1>3. QED
  BY <1>2, Truncation, SizeAssumption

(* Realloc keeps what it had and owns what was asked for.                    *)
LEMMA ReallocKeeps ==
    ASSUME NEW m, IsMemory(m), NEW n \in Nat
    PROVE  /\ IsMemory(Realloc(m, n))
           /\ DOMAIN Realloc(m, n) = 0 .. n - 1
           /\ \A i \in DOMAIN m : i < n => Realloc(m, n)[i] = m[i]
  BY DEF IsMemory, Realloc

(* What SetLength does to reserve and memory: the slots in use and the spare *)
(* ones are owned, the old ones are as they were and the new ones read NIL.  *)
LEMMA GrownSlots ==
    ASSUME NEW o, IsSlotted(o), OwnsItsSlots(o), NEW n \in Nat
    PROVE  /\ ReserveFor(o, n) \in Nat
           /\ IsMemory(SlotsFor(o, n))
           /\ \A i \in Nat : i < n + ReserveFor(o, n) => i \in DOMAIN SlotsFor(o, n)
           /\ \A i \in 0 .. n - 1 :
                 SlotsFor(o, n)[i] = IF i < o.length THEN o.slot[i] ELSE NIL
<1>1. /\ o.length \in Nat
      /\ o.reserve \in Nat
      /\ IsMemory(o.slot)
      /\ 0 .. o.length + o.reserve - 1 \subseteq DOMAIN o.slot
  BY SizeAssumption DEF IsSlotted, OwnsItsSlots
<1>2. ReserveFor(o, n) \in Nat
  BY <1>1, SizeAssumption DEF ReserveFor, Fits
<1>3. /\ IsMemory(MemoryFor(o, n))
      /\ \A i \in Nat : i < n + ReserveFor(o, n) => i \in DOMAIN MemoryFor(o, n)
      /\ \A i \in 0 .. n - 1 : i < o.length => MemoryFor(o, n)[i] = o.slot[i]
  <2>1. CASE Fits(o, n)
    <3>1. n + ReserveFor(o, n) = o.length + o.reserve
      BY <1>1, <2>1 DEF ReserveFor, Fits
    <3>2. MemoryFor(o, n) = o.slot
      BY <2>1 DEF MemoryFor
    <3>3. \A i \in Nat : i < n + ReserveFor(o, n) => i \in DOMAIN o.slot
      BY <1>1, <1>2, <3>1
    <3>4. QED
      BY <1>1, <3>2, <3>3
  <2>2. CASE ~Fits(o, n)
    <3>1. PICK size \in Nat : size = n + ReserveFor(o, n)
      BY <1>2
    <3>2. MemoryFor(o, n) = Realloc(o.slot, size)
      BY <2>2, <3>1 DEF MemoryFor
    <3>3. /\ IsMemory(Realloc(o.slot, size))
          /\ DOMAIN Realloc(o.slot, size) = 0 .. size - 1
          /\ \A i \in DOMAIN o.slot : i < size => Realloc(o.slot, size)[i] = o.slot[i]
      <4>1. IsMemory(o.slot)
        BY <1>1
      <4>2. QED
        BY <4>1, ReallocKeeps
    <3>a. \A i \in Nat : i < size => i \in DOMAIN Realloc(o.slot, size)
      BY <3>3
    <3>4. \A i \in 0 .. n - 1 : i < o.length => i \in DOMAIN o.slot /\ i < size
      BY <1>1, <1>2, <3>1
    <3>5. \A i \in 0 .. n - 1 : i < o.length => Realloc(o.slot, size)[i] = o.slot[i]
      BY <3>3, <3>4
    <3>6. QED
      BY <3>1, <3>2, <3>3, <3>a, <3>5, Zenon
  <2>3. QED
    BY <2>1, <2>2
<1>4. DOMAIN SlotsFor(o, n) = DOMAIN MemoryFor(o, n)
  BY DEF SlotsFor
<1>5. IsMemory(SlotsFor(o, n))
  BY <1>3, <1>4, RefAssumption DEF SlotsFor, IsMemory, Ref
<1>6. \A i \in 0 .. n - 1 :
         SlotsFor(o, n)[i] = IF i < o.length THEN o.slot[i] ELSE NIL
  BY <1>1, <1>2, <1>3 DEF SlotsFor
<1>7. QED
  BY <1>2, <1>3, <1>4, <1>5, <1>6

(* SetLength, when it passes its assertion, leaves a sound object.           *)
LEMMA ResizedObject ==
    ASSUME NEW o, IsObject(o), Sound(o), NEW n \in Nat, SetLengthAsserts(o, n),
           NEW b, b = SetLength(o, n)
    PROVE  /\ IsObject(b) /\ Sound(b)
           /\ b.tag = o.tag /\ b.head = o.head /\ b.length = n
           /\ \A i \in 0 .. n - 1 : b.slot[i] = IF i < o.length THEN o.slot[i] ELSE NIL
<1>1. IsSlotted(o) /\ OwnsItsSlots(o) /\ Initialised(o)
  BY DEF Sound, IsObject
<1>2. n < SizeLimit /\ n % SizeLimit = n
  BY <1>1, AssertedLength
<1>3. b = Object(o.tag, o.head, n, ReserveFor(o, n), SlotsFor(o, n))
  BY <1>2 DEF SetLength
<1>4. /\ b.tag = o.tag
      /\ b.head = o.head
      /\ b.length = n
      /\ b.reserve = ReserveFor(o, n)
      /\ b.slot = SlotsFor(o, n)
  BY <1>3 DEF Object
<1>5. IsObject(b)
  BY <1>1, <1>2, <1>3, <1>4, GrownSlots, SizeAssumption DEF IsObject, IsSlotted
<1>6. OwnsItsSlots(b)
  BY <1>1, <1>4, GrownSlots DEF OwnsItsSlots
<1>7. \A i \in 0 .. n - 1 : b.slot[i] = IF i < o.length THEN o.slot[i] ELSE NIL
  BY <1>1, <1>4, GrownSlots
<1>8. Initialised(b)
  BY <1>1, <1>4, <1>7, RefAssumption DEF Initialised, Ref, IsSlotted
<1>9. QED
  BY <1>4, <1>5, <1>6, <1>7, <1>8 DEF Sound

(* The same for an array.                                                    *)
LEMMA ArraySetLength ==
    ASSUME NEW a, SoundArray(a), NEW n \in Nat, SetLengthAsserts(a, n),
           NEW b, b = SetLength(a, n)
    PROVE  /\ SoundArray(b)
           /\ b.length = n
           /\ \A i \in 0 .. n - 1 : b.slot[i] = IF i < a.length THEN a.slot[i] ELSE NIL
<1>1. IsObject(a) /\ Sound(a) /\ a.tag = "array" /\ a.head \in Ref
  BY DEF SoundArray, IsArrayObject
<1>2. QED
  BY <1>1, ResizedObject DEF SoundArray, IsArrayObject

(* Storing a Ref in a slot in use.                                           *)
LEMMA StoredSlot ==
    ASSUME NEW o, IsSlotted(o), Sound(o), NEW i \in 0 .. o.length - 1, NEW ref \in Ref,
           NEW b, b = SetSlot(o, i, ref)
    PROVE  /\ b = Object(b.tag, b.head, b.length, b.reserve, b.slot)
           /\ b.tag = o.tag /\ b.head = o.head /\ b.length = o.length
           /\ IsSlotted(b)
           /\ Sound(b)
           /\ \A j \in 0 .. o.length - 1 : b.slot[j] = IF j = i THEN ref ELSE o.slot[j]
<1>1. /\ o.length \in 0 .. SizeLimit - 1
      /\ o.reserve \in Nat
      /\ IsMemory(o.slot)
      /\ 0 .. o.length + o.reserve - 1 \subseteq DOMAIN o.slot
      /\ \A j \in 0 .. o.length - 1 : o.slot[j] # Garbage
  BY DEF IsSlotted, Sound, OwnsItsSlots, Initialised
<1>2. b = Object(o.tag, o.head, o.length, o.reserve, [o.slot EXCEPT ![i] = ref])
  BY DEF SetSlot
<1>3. /\ b.tag = o.tag /\ b.head = o.head /\ b.length = o.length
      /\ b.reserve = o.reserve /\ b.slot = [o.slot EXCEPT ![i] = ref]
  BY <1>2 DEF Object
<1>4. b = Object(b.tag, b.head, b.length, b.reserve, b.slot)
  BY <1>2, <1>3
<1>5. i \in DOMAIN o.slot /\ \A j \in 0 .. o.length - 1 : j \in DOMAIN o.slot
  BY <1>1, SizeAssumption
<1>6. /\ DOMAIN b.slot = DOMAIN o.slot
      /\ \A j \in DOMAIN o.slot : b.slot[j] = IF j = i THEN ref ELSE o.slot[j]
  BY <1>3, <1>1 DEF IsMemory
<1>7. IsMemory(b.slot)
  BY <1>1, <1>3, <1>5, <1>6 DEF IsMemory
<1>8. IsSlotted(b)
  BY <1>1, <1>3, <1>7 DEF IsSlotted
<1>9. \A j \in 0 .. o.length - 1 : b.slot[j] = IF j = i THEN ref ELSE o.slot[j]
  BY <1>5, <1>6
<1>10. OwnsItsSlots(b)
  BY <1>1, <1>3, <1>6 DEF OwnsItsSlots
<1>11. Initialised(b)
  BY <1>1, <1>3, <1>9, RefAssumption DEF Initialised
<1>12. QED
  BY <1>3, <1>4, <1>8, <1>9, <1>10, <1>11 DEF Sound

(* An array with another Ref in a slot is an array.                          *)
LEMMA ArraySetSlot ==
    ASSUME NEW a, SoundArray(a), NEW i \in 0 .. a.length - 1, NEW ref \in Ref
    PROVE  SoundArray(SetSlot(a, i, ref))
<1>1. IsSlotted(a) /\ Sound(a) /\ a.tag = "array" /\ a.head \in Ref
  BY DEF SoundArray, IsArrayObject, IsObject
<1>2. PICK b : b = SetSlot(a, i, ref)
  OBVIOUS
<1>3. IsSlotted(b) /\ Sound(b) /\ b.tag = a.tag /\ b.head = a.head
      /\ b = Object(b.tag, b.head, b.length, b.reserve, b.slot)
  BY <1>1, <1>2, StoredSlot
<1>4. QED
  BY <1>1, <1>2, <1>3 DEF SoundArray, IsArrayObject, IsObject

(* AddSlot makes an array one longer and leaves what was there.              *)
LEMMA ArrayAddSlot ==
    ASSUME NEW a, SoundArray(a), NEW ref \in Ref, AddSlotAsserts(a),
           NEW b, b = AddSlot(a, ref)
    PROVE  /\ SoundArray(b)
           /\ b.length = a.length + 1
           /\ \A i \in 0 .. a.length - 1 : b.slot[i] = a.slot[i]
           /\ b.slot[a.length] = ref
<1>1. a.length \in Nat
  BY SizeAssumption DEF SoundArray, IsArrayObject, IsObject, IsSlotted
<1>2. PICK grown : grown = SetLength(a, a.length + 1)
  OBVIOUS
<1>3. /\ SoundArray(grown)
      /\ grown.length = a.length + 1
      /\ \A i \in 0 .. a.length : grown.slot[i] = IF i < a.length THEN a.slot[i] ELSE NIL
  <2>1. a.length + 1 \in Nat /\ SetLengthAsserts(a, a.length + 1)
    BY <1>1 DEF AddSlotAsserts
  <2>2. QED
    BY <1>1, <1>2, <2>1, ArraySetLength
<1>4. a.length \in 0 .. grown.length - 1
  BY <1>1, <1>3
<1>5. b = SetSlot(grown, a.length, ref)
  BY <1>2 DEF AddSlot
<1>6. SoundArray(b)
  BY <1>3, <1>4, <1>5, ArraySetSlot
<1>7. /\ b.length = grown.length
      /\ \A j \in 0 .. grown.length - 1 : b.slot[j] = IF j = a.length THEN ref ELSE grown.slot[j]
  <2>1. IsSlotted(grown) /\ Sound(grown)
    BY <1>3 DEF SoundArray, IsArrayObject, IsObject
  <2>2. QED
    BY <2>1, <1>4, <1>5, StoredSlot
<1>8. QED
  BY <1>1, <1>3, <1>4, <1>6, <1>7

-----------------------------------------------------------------------------
(* FindOffset gives -1 for a tag the map does not have and otherwise an      *)
(* index of the frame, the only one whose tag equals it.                     *)
LEMMA OffsetOfTag ==
    ASSUME NEW f, SoundFrame(f), NEW tag \in Symbols
    PROVE  /\ ~HasTag(f, tag) => FindOffset(f.head, tag) = -1
           /\ HasTag(f, tag) =>
                 /\ FindOffset(f.head, tag) \in 0 .. f.length - 1
                 /\ SymbolsEqual(f.head.slot[FindOffset(f.head, tag) + 1], tag)
<1> DEFINE found == TagSlots(f.head, tag)
<1>1. CASE found = {}
  BY <1>1 DEF HasTag, FindOffset
<1>2. CASE found # {}
  <2>1. /\ f.length \in Nat
        /\ f.head.length = f.length + 1
        /\ \A i, j \in 1 .. f.length :
              SymbolsEqual(f.head.slot[i], f.head.slot[j]) => i = j
    BY SizeAssumption DEF SoundFrame, InStep, IsFrameObject, IsObject, IsSlotted
  <2>2. \A i \in found : i \in 1 .. f.length /\ SymbolsEqual(f.head.slot[i], tag)
    BY <2>1 DEF TagSlots
  <2>3. \A i, j \in found : i = j
    <3>1. TAKE i, j \in found
    <3>2. SymbolsEqual(f.head.slot[i], f.head.slot[j])
      BY <2>2 DEF SymbolsEqual
    <3>3. QED
      BY <2>1, <2>2, <3>2
  <2>4. PICK i \in found : \A j \in found : i <= j
    BY <1>2, <2>2, <2>3
  <2>5. (CHOOSE k \in found : \A j \in found : k <= j) \in found
    BY <2>4
  <2>6. PICK k \in found : FindOffset(f.head, tag) = k - 1
    BY <1>2, <2>5 DEF FindOffset
  <2>7. QED
    BY <1>2, <2>1, <2>2, <2>6 DEF HasTag
<1>3. QED
  BY <1>1, <1>2

(* A tag that the frame has: a slot changes, the tags do not.                *)
LEMMA FrameStore ==
    ASSUME NEW f, SoundFrame(f), NEW i \in 0 .. f.length - 1, NEW ref \in Ref
    PROVE  SoundFrame(SetSlot(f, i, ref)) /\ OnlyNew(f, SetSlot(f, i, ref), ref)
<1>1. /\ IsSlotted(f) /\ Sound(f) /\ f.tag = "frame" /\ SoundArray(f.head)
      /\ IsArrayObject(f.head) /\ InStep(f)
  BY DEF SoundFrame, IsFrameObject, IsObject
<1>2. PICK b : b = SetSlot(f, i, ref)
  OBVIOUS
<1>3. /\ IsObject(b) /\ Sound(b)
      /\ b.tag = "frame" /\ b.head = f.head /\ b.length = f.length
  BY <1>1, <1>2, StoredSlot DEF IsObject
<1>4. InStep(b)
  BY <1>1, <1>3 DEF InStep
<1>5. OnlyNew(f, b, ref)
  <2>1. \A j \in 0 .. f.length - 1 : b.slot[j] = IF j = i THEN ref ELSE f.slot[j]
    BY <1>1, <1>2, StoredSlot
  <2>2. QED
    BY <1>1, <1>3, <2>1, SizeAssumption DEF OnlyNew, IsSlotted
<1>6. QED
  BY <1>1, <1>2, <1>3, <1>4, <1>5 DEF SoundFrame, IsFrameObject

(* A tag that the frame does not have: map and slots grow in step.           *)
LEMMA FrameGrow ==
    ASSUME NEW f, SoundFrame(f), NEW tag \in Symbols, NEW ref \in Ref,
           ~HasTag(f, tag), FrameSetSlotAsserts(f, tag)
    PROVE  /\ SoundFrame(FrameSetSlot(f, tag, ref))
           /\ OnlyNew(f, FrameSetSlot(f, tag, ref), ref)
           /\ Bound(f, FrameSetSlot(f, tag, ref), tag, ref)
<1>1. /\ IsObject(f) /\ Sound(f) /\ f.tag = "frame" /\ SoundArray(f.head) /\ InStep(f)
      /\ f.length \in Nat
  BY SizeAssumption DEF SoundFrame, IsFrameObject, IsObject, IsSlotted
<1>2. FindOffset(f.head, tag) = -1
  BY OffsetOfTag
<1>3. PICK map : map = AddSlot(f.head, tag)
  OBVIOUS
<1>4. f.head.length = f.length + 1
  BY <1>1 DEF InStep
<1>5. /\ SoundArray(map)
      /\ map.length = f.length + 2
      /\ \A i \in 0 .. f.length : map.slot[i] = f.head.slot[i]
      /\ map.slot[f.length + 1] = tag
  <2>1. AddSlotAsserts(f.head) /\ tag \in Ref
    BY <1>2 DEF FrameSetSlotAsserts, Ref
  <2>2. QED
    BY <1>1, <1>3, <1>4, <2>1, ArrayAddSlot
<1>6. PICK w : w = WithTag(f, tag)
  OBVIOUS
<1>7. /\ w = Object("frame", map, f.length, f.reserve, f.slot)
      /\ w.tag = "frame" /\ w.head = map /\ w.length = f.length
      /\ w.reserve = f.reserve /\ w.slot = f.slot
  BY <1>3, <1>6 DEF WithTag, Object
<1>8. IsObject(w) /\ Sound(w)
  BY <1>1, <1>7 DEF IsObject, IsSlotted, Sound, OwnsItsSlots, Initialised
<1>9. SetLengthAsserts(w, f.length + 1)
  BY <1>2, <1>4, <1>7 DEF FrameSetSlotAsserts, SetLengthAsserts
<1>10. PICK g : g = SetLength(w, f.length + 1)
  OBVIOUS
<1>11. IsObject(g) /\ Sound(g) /\ g.tag = "frame" /\ g.head = map /\ g.length = f.length + 1
  BY <1>1, <1>7, <1>8, <1>9, <1>10, ResizedObject
<1>12. InStep(g)
  <2>1. \A i \in 1 .. f.length :
           f.head.slot[i] \in Symbols /\ ~SymbolsEqual(f.head.slot[i], tag)
    BY <1>1, <1>4 DEF InStep, HasTag, TagSlots
  <2>2. \A i \in 1 .. f.length + 1 :
           map.slot[i] = IF i = f.length + 1 THEN tag ELSE f.head.slot[i]
    BY <1>1, <1>5
  <2>3. \A i \in 1 .. f.length + 1 : map.slot[i] \in Symbols
    BY <1>1, <2>1, <2>2
  <2>4. \A i, j \in 1 .. f.length + 1 : SymbolsEqual(map.slot[i], map.slot[j]) => i = j
    <3>1. \A i, j \in 1 .. f.length : SymbolsEqual(f.head.slot[i], f.head.slot[j]) => i = j
      BY <1>1, <1>4 DEF InStep
    <3>2. \A i \in 1 .. f.length : ~SymbolsEqual(tag, f.head.slot[i])
      BY <2>1 DEF SymbolsEqual
    <3>3. QED
      BY <1>1, <2>1, <2>2, <3>1, <3>2
  <2>5. map.length - 1 = f.length + 1
    BY <1>1, <1>5
  <2>6. QED
    BY <1>1, <1>5, <1>11, <2>3, <2>4, <2>5 DEF InStep
<1>13. SoundFrame(g)
  BY <1>5, <1>11, <1>12 DEF SoundFrame, SoundArray, IsFrameObject
<1>14. FrameSetSlot(f, tag, ref) = SetSlot(g, f.length, ref)
  BY <1>1, <1>2, <1>4, <1>6, <1>10 DEF FrameSetSlot
<1>15. f.length \in 0 .. g.length - 1
  BY <1>1, <1>11
<1>16. \A i \in 0 .. g.length - 1 : g.slot[i] = IF i < f.length THEN f.slot[i] ELSE NIL
  BY <1>1, <1>7, <1>8, <1>9, <1>10, <1>11, ResizedObject
<1>17. PICK b : b = SetSlot(g, f.length, ref)
  OBVIOUS
<1>18. SoundFrame(b) /\ OnlyNew(g, b, ref)
  BY <1>13, <1>15, <1>17, FrameStore
<1>19. b.length = g.length
  BY <1>17 DEF SetSlot, Object
<1>20. OnlyNew(f, b, ref)
  BY <1>11, <1>16, <1>18, <1>19, <1>1 DEF OnlyNew
<1>21. Bound(f, b, tag, ref)
  <2>1. b.head = map
    BY <1>11, <1>17 DEF SetSlot, Object
  <2>2. \A i \in 0 .. g.length - 1 : b.slot[i] = IF i = f.length THEN ref ELSE g.slot[i]
    <3>1. IsSlotted(g) /\ Sound(g)
      BY <1>11 DEF IsObject
    <3>2. QED
      BY <1>15, <1>17, <3>1, StoredSlot
  <2>3. QED
    BY <1>1, <1>5, <1>11, <1>16, <1>19, <2>1, <2>2 DEF Bound
<1>22. QED
  BY <1>14, <1>17, <1>18, <1>20, <1>21

(* Frame::SetSlot, whenever it passes its assertions, leaves a sound frame.  *)
LEMMA FrameSetSlotSound ==
    ASSUME NEW f, SoundFrame(f), NEW tag \in Symbols, NEW ref \in Ref,
           FrameSetSlotAsserts(f, tag)
    PROVE  SoundFrame(FrameSetSlot(f, tag, ref)) /\ OnlyNew(f, FrameSetSlot(f, tag, ref), ref)
<1>1. CASE HasTag(f, tag)
  <2>1. PICK index \in 0 .. f.length - 1 : index = FindOffset(f.head, tag)
    BY <1>1, OffsetOfTag
  <2>2. f.length \in Nat /\ index # -1
    BY <2>1, SizeAssumption DEF SoundFrame, IsFrameObject, IsObject, IsSlotted
  <2>3. index - 1 \in 0 .. f.length - 1
    BY <2>1, <2>2 DEF FrameSetSlotAsserts, SetSlotAsserts
  <2>4. FrameSetSlot(f, tag, ref) = SetSlot(f, index - 1, ref)
    BY <2>1, <2>2 DEF FrameSetSlot
  <2>5. QED
    BY <2>3, <2>4, FrameStore
<1>2. CASE ~HasTag(f, tag)
  BY <1>2, FrameGrow
<1>3. QED
  BY <1>1, <1>2

-----------------------------------------------------------------------------
(* Fresh objects are sound.                                                  *)
LEMMA NewObjectsSound ==
    /\ \A class \in Ref, n \in Nat : SoundArray(NewArray(class, n))
    /\ \A class \in Ref : SoundArray(NewEmptyArray(class))
    /\ SoundFrame(NewFrame)
<1>1. ASSUME NEW n \in Nat
      PROVE  /\ IsMemory(NewSlots(n))
             /\ DOMAIN NewSlots(n) = 0 .. n - 1
             /\ \A i \in 0 .. n - 1 : NewSlots(n)[i] # Garbage
  BY RefAssumption DEF IsMemory, NewSlots, Ref
<1>2. ASSUME NEW tag, NEW head, NEW length \in 0 .. SizeLimit - 1, NEW reserve \in Nat,
             NEW n \in Nat, length + reserve <= n,
             NEW o, o = Object(tag, head, length, reserve, NewSlots(n))
      PROVE  IsObject(o) /\ Sound(o) /\ o.tag = tag /\ o.head = head /\ o.length = length
  <2>1. /\ o.tag = tag /\ o.head = head /\ o.length = length
        /\ o.reserve = reserve /\ o.slot = NewSlots(n)
    BY <1>2 DEF Object
  <2>2. IsObject(o)
    BY <1>1, <1>2, <2>1 DEF IsObject, IsSlotted
  <2>3. OwnsItsSlots(o)
    BY <1>1, <1>2, <2>1, SizeAssumption DEF OwnsItsSlots
  <2>4. Initialised(o)
    BY <1>1, <1>2, <2>1, SizeAssumption DEF Initialised
  <2>5. QED
    BY <2>1, <2>2, <2>3, <2>4 DEF Sound
<1>3. ASSUME NEW class \in Ref, NEW n \in Nat
      PROVE  /\ SoundArray(NewArray(class, n))
             /\ NewArray(class, n).length = n % SizeLimit
  <2>1. n % SizeLimit \in 0 .. SizeLimit - 1 /\ (n % SizeLimit) + 0 <= n
    BY Truncation, SizeAssumption
  <2>2. PICK o : o = NewArray(class, n)
    OBVIOUS
  <2>3. IsObject(o) /\ Sound(o) /\ o.tag = "array" /\ o.head = class /\ o.length = n % SizeLimit
    BY <1>2, <2>1, <2>2 DEF NewArray
  <2>4. QED
    BY <2>2, <2>3 DEF SoundArray, IsArrayObject
<1>4. ASSUME NEW class \in Ref
      PROVE  SoundArray(NewEmptyArray(class))
  <2>1. PICK o : o = NewEmptyArray(class)
    OBVIOUS
  <2>2. IsObject(o) /\ Sound(o) /\ o.tag = "array" /\ o.head = class
    BY <1>2, <2>1, SizeAssumption DEF NewEmptyArray
  <2>3. QED
    BY <2>1, <2>2 DEF SoundArray, IsArrayObject
<1>5. SoundFrame(NewFrame)
  <2>1. PICK o : o = NewFrame
    OBVIOUS
  <2>2. IsObject(o) /\ Sound(o) /\ o.tag = "frame" /\ o.head = NewArray(UNREF, 1) /\ o.length = 0
    BY <1>2, <2>1, SizeAssumption DEF NewFrame
  <2>3. SoundArray(o.head) /\ o.head.length = 1
    BY <1>3, <2>2, RefAssumption, Truncation, SizeAssumption DEF Ref
  <2>4. InStep(o)
    BY <2>2, <2>3 DEF InStep
  <2>5. QED
    BY <2>1, <2>2, <2>3, <2>4 DEF SoundFrame, SoundArray, IsFrameObject
<1>6. QED
  BY <1>3, <1>4, <1>5

(* What a slot in use holds is a Ref.                                        *)
LEMMA SlotHoldsRef ==
    ASSUME NEW o, IsSlotted(o), Sound(o), NEW i \in 0 .. o.length - 1
    PROVE  o.slot[i] \in Ref
<1>1. i \in DOMAIN o.slot /\ o.slot[i] # Garbage /\ IsMemory(o.slot)
  BY SizeAssumption DEF IsSlotted, Sound, OwnsItsSlots, Initialised
<1>2. QED
  BY <1>1 DEF IsMemory

-----------------------------------------------------------------------------
(* For those that build graphs: binaries, and heaps of objects of all kinds. *)
SoundBinary(o) == IsObject(o) /\ Sound(o) /\ o.tag = "binary" /\ o.length = 0 /\ o.head \in Ref

SoundObject(o) == SoundArray(o) \/ SoundFrame(o) \/ SoundBinary(o)

SoundHeap(h) == DOMAIN h = Ptrs /\ \A p \in Ptrs : h[p] = NoObject \/ SoundObject(h[p])

(* Objects are told from the address that is not in use by their tag.        *)
LEMMA SoundIsSomething ==
    ASSUME NEW o, SoundArray(o) \/ SoundFrame(o) \/ SoundBinary(o)
    PROVE  /\ o # NoObject
           /\ o.length \in Nat
           /\ SoundArray(o) => o.tag = "array"
           /\ SoundFrame(o) => o.tag = "frame"
<1>1. NoObject.tag = "none"
  BY DEF NoObject, Object
<1>2. o.tag \in {"array", "frame", "binary"} /\ o.length \in Nat
  BY SizeAssumption DEF SoundArray, SoundFrame, SoundBinary, IsArrayObject, IsFrameObject, IsObject, IsSlotted
<1>3. QED
  BY <1>1, <1>2 DEF SoundArray, SoundFrame, IsArrayObject, IsFrameObject

(* A new binary.                                                             *)
LEMMA BinarySound ==
    ASSUME NEW class \in Ref
    PROVE  SoundBinary(Binary(class))
<1>1. PICK o : o = Binary(class)
  OBVIOUS
<1>2. /\ o.tag = "binary" /\ o.head = class /\ o.length = 0 /\ o.reserve = 0
      /\ o.slot = NewSlots(0) /\ o = Object(o.tag, o.head, o.length, o.reserve, o.slot)
  BY <1>1 DEF Binary, Object
<1>3. DOMAIN NewSlots(0) = {} /\ IsMemory(NewSlots(0))
  BY DEF NewSlots, IsMemory
<1>4. IsObject(o) /\ Sound(o)
  BY <1>2, <1>3, SizeAssumption DEF IsObject, IsSlotted, Sound, OwnsItsSlots, Initialised
<1>5. QED
  BY <1>1, <1>2, <1>4 DEF SoundBinary

(* A new array has the length it was asked for, or less.                     *)
LEMMA NewArrayLength ==
    ASSUME NEW class \in Ref, NEW n \in Nat, NEW a, a = NewArray(class, n)
    PROVE  SoundArray(a) /\ a.length \in Nat /\ a.length <= n /\ a.tag = "array"
<1>1. a.length = n % SizeLimit /\ a.tag = "array"
  BY DEF NewArray, Object
<1>2. QED
  BY <1>1, Truncation, NewObjectsSound, SizeAssumption

(* Where there is room, a fresh address is one that is not in use.           *)
LEMMA FreshAddress ==
    ASSUME NEW h, HasRoom(h)
    PROVE  Fresh(h) \in Ptrs /\ h[Fresh(h)] = NoObject
  BY DEF HasRoom, Fresh

(* One more slot below the size limit never fails an assertion.              *)
LEMMA RoomForOne ==
    ASSUME NEW o, IsSlotted(o), Room(o)
    PROVE  /\ (o.length + 1) % SizeLimit = o.length + 1
           /\ SetLengthAsserts(o, o.length + 1)
           /\ AddSlotAsserts(o)
<1>1. o.length \in Nat /\ o.length + 1 < SizeLimit
  BY SizeAssumption DEF IsSlotted, Room
<1>2. (o.length + 1) % SizeLimit = o.length + 1
  BY <1>1, Truncation
<1>3. SetLengthAsserts(o, o.length + 1)
  BY <1>1, <1>2 DEF SetLengthAsserts
<1>4. SetLength(o, o.length + 1).length = o.length + 1
  BY <1>2 DEF SetLength, Object
<1>5. QED
  BY <1>1, <1>2, <1>3, <1>4 DEF AddSlotAsserts, SetSlotAsserts

(* Nor does a new tag in a frame whose map has room.                         *)
LEMMA RoomForTag ==
    ASSUME NEW f, SoundFrame(f), NEW tag \in Symbols, ~HasTag(f, tag), Room(f.head)
    PROVE  FrameSetSlotAsserts(f, tag)
<1>1. /\ IsSlotted(f) /\ IsSlotted(f.head)
      /\ f.head.length = f.length + 1
  BY DEF SoundFrame, SoundArray, IsFrameObject, IsArrayObject, IsObject, InStep
<1>2. f.length \in Nat /\ Room(f)
  BY <1>1, SizeAssumption DEF Room, IsSlotted
<1>3. AddSlotAsserts(f.head)
  BY <1>1, RoomForOne
<1>4. SetLengthAsserts(f, f.length + 1) /\ SetLength(f, f.length + 1).length = f.length + 1
  BY <1>1, <1>2, RoomForOne DEF SetLength, Object
<1>5. SetSlotAsserts(SetLength(f, f.length + 1), f.length)
  BY <1>2, <1>4 DEF SetSlotAsserts
<1>6. FindOffset(f.head, tag) = -1
  BY OffsetOfTag
<1>7. QED
  BY <1>1, <1>2, <1>3, <1>4, <1>5, <1>6 DEF FrameSetSlotAsserts

-----------------------------------------------------------------------------
(* The sequences of activations: one less, and one more.                     *)
LEMMA ShortenedSequence ==
    ASSUME NEW S, NEW s \in Seq(S), s # << >>
    PROVE  /\ Len(s) \in Nat \ {0} /\ Len(s) \in DOMAIN s /\ s[Len(s)] \in S
           /\ SubSeq(s, 1, Len(s) - 1) \in Seq(S)
           /\ DOMAIN SubSeq(s, 1, Len(s) - 1) = 1 .. Len(s) - 1
           /\ \A k \in 1 .. Len(s) - 1 : SubSeq(s, 1, Len(s) - 1)[k] = s[k]
<1>1. Len(s) \in Nat \ {0} /\ DOMAIN s = 1 .. Len(s)
  BY EmptySeq, LenProperties
<1>2. QED
  BY <1>1, SubSeqProperties

(* A sequence and one element more.                                          *)
LEMMA AppendedSequence ==
    ASSUME NEW S, NEW s \in Seq(S), NEW e \in S
    PROVE  /\ Append(s, e) \in Seq(S)
           /\ Len(s) \in Nat /\ DOMAIN s = 1 .. Len(s)
           /\ Len(Append(s, e)) = Len(s) + 1
           /\ DOMAIN Append(s, e) = 1 .. Len(s) + 1
           /\ \A k \in 1 .. Len(s) : Append(s, e)[k] = s[k]
           /\ Append(s, e)[Len(s) + 1] = e
  OBVIOUS

(* and another one instead of the last.                                      *)
LEMMA ReplacedLast ==
    ASSUME NEW S, NEW s \in Seq(S), s # << >>, NEW e \in S,
           NEW d, d = Append(SubSeq(s, 1, Len(s) - 1), e)
    PROVE  /\ d \in Seq(S) /\ DOMAIN s = 1 .. Len(s)
           /\ Len(d) = Len(s) /\ Len(s) \in Nat \ {0} /\ DOMAIN d = 1 .. Len(s)
           /\ \A k \in 1 .. Len(s) - 1 : d[k] = s[k]
           /\ d[Len(s)] = e
<1>1. PICK f : f = SubSeq(s, 1, Len(s) - 1)
  OBVIOUS
<1>2. /\ Len(s) \in Nat \ {0} /\ f \in Seq(S) /\ DOMAIN f = 1 .. Len(s) - 1
      /\ \A k \in 1 .. Len(s) - 1 : f[k] = s[k]
  BY <1>1, ShortenedSequence
<1>3. Len(f) = Len(s) - 1 /\ DOMAIN s = 1 .. Len(s)
  BY <1>2, LenProperties
<1>4. /\ d \in Seq(S) /\ Len(d) = Len(f) + 1 /\ DOMAIN d = 1 .. Len(f) + 1
      /\ \A k \in 1 .. Len(f) : d[k] = f[k]
      /\ d[Len(f) + 1] = e
  BY <1>1, <1>2, AppendedSequence
<1>5. Len(f) + 1 = Len(s)
  BY <1>2, <1>3
<1>6. QED
  BY <1>2, <1>3, <1>4, <1>5
=============================================================================
