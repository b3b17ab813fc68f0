-------------------------- MODULE ObjectHeapProofs --------------------------
(***************************************************************************)
(* Proofs about ObjectHeap, for any client, and about DisciplinedHeap, for *)
(* one that keeps to its contract: it meets no failing assertion, and sees *)
(* an ObjectStore.  They hold for every set of addresses, symbols and      *)
(* immediates, every size limit and every growth policy.                   *)
(***************************************************************************)
EXTENDS DisciplinedHeap, SlottedObjectProofs

(* The inductive invariant: every object is sound, on top of the types of    *)
(* the other variables.                                                      *)
HeapSound == \A p \in Live : SoundArray(heap[p]) \/ SoundFrame(heap[p])

IInv ==
    /\ DOMAIN heap = Ptrs
    /\ HeapSound
    /\ IsAnswer(answer)
    /\ status \in {"running"} \cup Deaths
    /\ TagReadsNeverAssert

(* There is no object yet.                                                   *)
LEMMA InitSound == Init => IInv
  BY DEF Init, IInv, HeapSound, Live, IsAnswer, TagReadsNeverAssert

(* An object can only be found sound as what its tag says.                   *)
LEMMA SoundByTag ==
    ASSUME IInv, NEW p
    PROVE  /\ IsFrame(p) => p \in Ptrs /\ SoundFrame(heap[p])
           /\ IsArray(p) => p \in Ptrs /\ SoundArray(heap[p])
  BY DEF IInv, HeapSound, Live, IsFrame, IsArray,
         SoundFrame, SoundArray, IsFrameObject, IsArrayObject

(* The three ways a step ends.                                               *)
LEMMA ReturnSound ==
    ASSUME IInv, NEW a, IsAnswer(a), Return(a), UNCHANGED heap
    PROVE  IInv'
  BY DEF IInv, HeapSound, Live, Return, TagReadsNeverAssert, Deaths, IsAnswer, Void

(* with an object that was written,                                           *)
LEMMA UpdateSound ==
    ASSUME IInv, NEW a, IsAnswer(a), Return(a),
           NEW p \in Ptrs, NEW o, SoundArray(o) \/ SoundFrame(o),
           heap' = [heap EXCEPT ![p] = o]
    PROVE  IInv'
<1>1. DOMAIN heap' = Ptrs /\ \A q \in Ptrs : heap'[q] = IF q = p THEN o ELSE heap[q]
  BY DEF IInv
<1>2. HeapSound'
  BY <1>1 DEF IInv, HeapSound, Live
<1>3. QED
  BY <1>1, <1>2 DEF IInv, Return, TagReadsNeverAssert, IsAnswer

(* and with an assertion that fails.                                         *)
LEMMA DieSound ==
    ASSUME IInv, NEW where \in Deaths \ {"Frame::GetSlot assert"}, Die(where)
    PROVE  IInv'
  BY DEF IInv, HeapSound, Live, Die, TagReadsNeverAssert, IsAnswer

(* Everything a call returns or throws is an answer.                         *)
LEMMA Answering ==
    /\ IsAnswer(Void)
    /\ \A r \in Ref : IsAnswer(Value(r))
    /\ \A i \in Nat : IsAnswer(Index(i))
    /\ \A e \in Errors : IsAnswer(Throw(e))
  BY DEF IsAnswer, Index

-----------------------------------------------------------------------------
(* One lemma per operation: it preserves the invariant.                      *)
LEMMA AllocateSound ==
    ASSUME IInv, NEW o, SoundArray(o) \/ SoundFrame(o), Allocate(o)
    PROVE  IInv'
<1>1. PICK p \in Ptrs : heap' = [heap EXCEPT ![p] = o] /\ Return(Value(p))
  BY DEF Allocate
<1>2. IsAnswer(Value(p))
  BY Answering DEF Ref
<1>3. QED
  BY <1>1, <1>2, UpdateSound

(* The frame gets the slot, or one of its assertions ends the program.       *)
LEMMA SetFrameSlotSound ==
    ASSUME IInv, NEW obj, NEW tag, NEW ref \in Ref, SetFrameSlot(obj, tag, ref)
    PROVE  IInv'
<1>1. CASE SetFrameSlotError(obj, tag) # {}
  <2>1. PICK e \in SetFrameSlotError(obj, tag) : Return(Throw(e)) /\ UNCHANGED heap
    BY <1>1 DEF SetFrameSlot
  <2>2. e \in Errors
    BY <2>1 DEF SetFrameSlotError, Errors
  <2>3. QED
    BY <2>1, <2>2, Answering, ReturnSound
<1>2. CASE SetFrameSlotError(obj, tag) = {}
  <2>1. IsFrame(obj) /\ tag \in Symbols
    BY <1>2 DEF SetFrameSlotError
  <2>2. obj \in Ptrs /\ SoundFrame(heap[obj])
    BY <2>1, SoundByTag
  <2>3. CASE /\ FrameSetSlotAsserts(heap[obj], tag)
             /\ heap' = [heap EXCEPT ![obj] = FrameSetSlot(heap[obj], tag, ref)]
             /\ Return(Void)
    <3>1. SoundFrame(FrameSetSlot(heap[obj], tag, ref))
      BY <2>1, <2>2, <2>3, FrameSetSlotSound
    <3>2. QED
      BY <2>2, <2>3, <3>1, Answering, UpdateSound
  <2>4. CASE Die(IF HasTag(heap[obj], tag) THEN "Frame::SetSlot assert"
                                           ELSE "SetLength assert")
    <3>1. PICK where \in Deaths \ {"Frame::GetSlot assert"} : Die(where)
      BY <2>4 DEF Deaths
    <3>2. QED
      BY <3>1, DieSound
  <2>5. QED
    BY <1>2, <2>3, <2>4 DEF SetFrameSlot
<1>3. QED
  BY <1>1, <1>2

(* Reading changes nothing, and its assertion cannot fail on a sound frame.  *)
LEMMA GetFrameSlotSound ==
    ASSUME IInv, NEW obj, NEW tag, GetFrameSlot(obj, tag)
    PROVE  IInv'
<1>1. CASE Return(Throw("NotAFrame")) /\ UNCHANGED heap
  BY <1>1, Answering, ReturnSound DEF Errors
<1>2. CASE /\ IsFrame(obj) /\ tag \in Symbols
           /\ IF FrameGetSlotAsserts(heap[obj], tag)
              THEN Return(Value(FrameGetSlot(heap[obj], tag))) /\ UNCHANGED heap
              ELSE Die("Frame::GetSlot assert")
  <2>1. SoundFrame(heap[obj])
    BY <1>2, SoundByTag
  <2>2. PICK index : index = FindOffset(heap[obj].head, tag)
    OBVIOUS
  <2>3. index = -1 \/ index \in 0 .. heap[obj].length - 1
    BY <1>2, <2>1, <2>2, OffsetOfTag
  <2>4. FrameGetSlotAsserts(heap[obj], tag)
    BY <2>2, <2>3 DEF FrameGetSlotAsserts
  <2>5. FrameGetSlot(heap[obj], tag) \in Ref
    <3>1. CASE index = -1
      BY <2>2, <3>1, RefAssumption DEF FrameGetSlot, Ref
    <3>2. CASE index # -1
      <4>1. heap[obj].slot[index] \in Ref
        BY <2>1, <2>3, <3>2, SlotHoldsRef DEF SoundFrame, IsFrameObject, IsObject
      <4>2. QED
        BY <2>2, <3>2, <4>1 DEF FrameGetSlot
    <3>3. QED
      BY <3>1, <3>2
  <2>6. QED
    BY <1>2, <2>4, <2>5, Answering, ReturnSound
<1>3. CASE /\ IsFrame(obj)
           /\ IF heap[obj].head.length > 1
              THEN Die("null tag")
              ELSE Return(Value(NIL)) /\ UNCHANGED heap
  <2>1. CASE Die("null tag")
    BY <2>1, DieSound DEF Deaths
  <2>2. CASE Return(Value(NIL)) /\ UNCHANGED heap
    BY <2>2, RefAssumption, Answering, ReturnSound DEF Ref
  <2>3. QED
    BY <1>3, <2>1, <2>2
<1>4. QED
  BY <1>1, <1>2, <1>3 DEF GetFrameSlot

(* The array gets one slot more, or the length reaches SizeLimit.            *)
LEMMA AddArraySlotSound ==
    ASSUME IInv, NEW obj, NEW ref \in Ref, AddArraySlot(obj, ref)
    PROVE  IInv'
<1>1. CASE Return(Throw("NotAnArray")) /\ UNCHANGED heap
  BY <1>1, Answering, ReturnSound DEF Errors
<1>2. CASE /\ IsArray(obj)
           /\ AddSlotAsserts(heap[obj])
           /\ heap' = [heap EXCEPT ![obj] = AddSlot(heap[obj], ref)]
           /\ Return(Index(heap[obj].length))
  <2>1. obj \in Ptrs /\ SoundArray(heap[obj])
    BY <1>2, SoundByTag
  <2>2. heap[obj].length \in Nat
    BY <2>1, SizeAssumption DEF SoundArray, IsArrayObject, IsObject, IsSlotted
  <2>3. SoundArray(AddSlot(heap[obj], ref))
    BY <1>2, <2>1, ArrayAddSlot
  <2>4. QED
    BY <1>2, <2>1, <2>2, <2>3, Answering, UpdateSound
<1>3. CASE Die("SetLength assert")
  BY <1>3, DieSound DEF Deaths
<1>4. QED
  BY <1>1, <1>2, <1>3 DEF AddArraySlot

(* Reading a slot in use gives a Ref.                                        *)
LEMMA GetArraySlotSound ==
    ASSUME IInv, NEW obj, NEW i \in Int, GetArraySlot(obj, i)
    PROVE  IInv'
<1>1. CASE Return(Value(NIL)) /\ UNCHANGED heap
  BY <1>1, RefAssumption, Answering, ReturnSound DEF Ref
<1>2. CASE /\ IsArray(obj)
           /\ GetSlotAsserts(heap[obj], i)
           /\ Return(Value(GetSlot(heap[obj], i))) /\ UNCHANGED heap
  <2>1. SoundArray(heap[obj])
    BY <1>2, SoundByTag
  <2>2. GetSlot(heap[obj], i) \in Ref
    <3>1. CASE i < heap[obj].length
      <4>1. i \in 0 .. heap[obj].length - 1
        BY <1>2, <2>1, <3>1, SizeAssumption
           DEF GetSlotAsserts, SoundArray, IsArrayObject, IsObject, IsSlotted
      <4>2. heap[obj].slot[i] \in Ref
        BY <2>1, <4>1, SlotHoldsRef DEF SoundArray, IsArrayObject, IsObject
      <4>3. QED
        BY <3>1, <4>2 DEF GetSlot
    <3>2. CASE ~(i < heap[obj].length)
      BY <3>2, RefAssumption DEF GetSlot, Ref
    <3>3. QED
      BY <3>1, <3>2
  <2>3. QED
    BY <1>2, <2>2, Answering, ReturnSound
<1>3. CASE Die("GetSlot assert")
  BY <1>3, DieSound DEF Deaths
<1>4. QED
  BY <1>1, <1>2, <1>3 DEF GetArraySlot

(* Writing a slot in use keeps the array sound.                              *)
LEMMA SetArraySlotSound ==
    ASSUME IInv, NEW obj, NEW i \in Int, NEW ref \in Ref, SetArraySlot(obj, i, ref)
    PROVE  IInv'
<1>1. CASE Return(Void) /\ UNCHANGED heap
  BY <1>1, Answering, ReturnSound
<1>2. CASE /\ IsArray(obj)
           /\ SetSlotAsserts(heap[obj], i)
           /\ heap' = [heap EXCEPT ![obj] = SetSlot(heap[obj], i, ref)]
           /\ Return(Void)
  <2>1. obj \in Ptrs /\ SoundArray(heap[obj])
    BY <1>2, SoundByTag
  <2>2. SoundArray(SetSlot(heap[obj], i, ref))
    BY <1>2, <2>1, ArraySetSlot DEF SetSlotAsserts
  <2>3. QED
    BY <1>2, <2>1, <2>2, Answering, UpdateSound
<1>3. CASE Die("SetSlot assert")
  BY <1>3, DieSound DEF Deaths
<1>4. QED
  BY <1>1, <1>2, <1>3 DEF SetArraySlot

(* Any length that is accepted keeps the array sound.                        *)
LEMMA SetArrayLengthSound ==
    ASSUME IInv, NEW obj, NEW n \in Nat, SetArrayLength(obj, n)
    PROVE  IInv'
<1>1. CASE /\ IsArray(obj)
           /\ SetLengthAsserts(heap[obj], n)
           /\ heap' = [heap EXCEPT ![obj] = SetLength(heap[obj], n)]
           /\ Return(Void)
  <2>1. obj \in Ptrs /\ SoundArray(heap[obj])
    BY <1>1, SoundByTag
  <2>2. SoundArray(SetLength(heap[obj], n))
    BY <1>1, <2>1, ArraySetLength
  <2>3. QED
    BY <1>1, <2>1, <2>2, Answering, UpdateSound
<1>2. CASE Die("SetLength assert")
  BY <1>2, DieSound DEF Deaths
<1>3. QED
  BY <1>1, <1>2 DEF SetArrayLength

(* Every call preserves the invariant.                                       *)
LEMMA NextSound == IInv /\ [Next]_vars => IInv'
<1> SUFFICES ASSUME IInv, [Next]_vars
             PROVE  IInv'
  OBVIOUS
<1>1. CASE UNCHANGED vars
  BY <1>1 DEF vars, IInv, HeapSound, Live, TagReadsNeverAssert, IsAnswer
<1>2. CASE AllocateFrame
  BY <1>2, NewObjectsSound, AllocateSound DEF AllocateFrame
<1>3. ASSUME NEW class \in Classes,
             \/ AllocateEmptyArray(class)
             \/ \E n \in Lengths : AllocateArray(class, n)
      PROVE  IInv'
  <2>1. class \in Ref /\ Lengths \subseteq Nat
    BY ClientAssumption DEF Ref
  <2>2. CASE AllocateEmptyArray(class)
    BY <2>1, <2>2, NewObjectsSound, AllocateSound DEF AllocateEmptyArray
  <2>3. CASE \E n \in Lengths : AllocateArray(class, n)
    <3>1. PICK n \in Nat : AllocateArray(class, n)
      BY <2>1, <2>3
    <3>2. QED
      BY <2>1, <3>1, NewObjectsSound, AllocateSound DEF AllocateArray
  <2>4. QED
    BY <1>3, <2>2, <2>3
<1>4. ASSUME NEW obj \in Targets \cap Held,
             \/ \E tag \in Symbols \cup Immediates, value \in Values \cap Held :
                   SetFrameSlot(obj, tag, value)
             \/ \E tag \in Symbols \cup Immediates : GetFrameSlot(obj, tag)
             \/ \E value \in Values \cap Held : AddArraySlot(obj, value)
             \/ \E i \in Positions : GetArraySlot(obj, i)
             \/ \E i \in Positions, value \in Values \cap Held : SetArraySlot(obj, i, value)
             \/ \E n \in Lengths : SetArrayLength(obj, n)
      PROVE  IInv'
  <2>1. Values \cap Held \subseteq Ref /\ Positions \subseteq Int /\ Lengths \subseteq Nat
    BY ClientAssumption
  <2>2. CASE \E tag \in Symbols \cup Immediates, value \in Values \cap Held :
               SetFrameSlot(obj, tag, value)
    BY <2>1, <2>2, SetFrameSlotSound
  <2>3. CASE \E tag \in Symbols \cup Immediates : GetFrameSlot(obj, tag)
    BY <2>3, GetFrameSlotSound
  <2>4. CASE \E value \in Values \cap Held : AddArraySlot(obj, value)
    BY <2>1, <2>4, AddArraySlotSound
  <2>5. CASE \E i \in Positions : GetArraySlot(obj, i)
    BY <2>1, <2>5, GetArraySlotSound
  <2>6. CASE \E i \in Positions, value \in Values \cap Held : SetArraySlot(obj, i, value)
    BY <2>1, <2>6, SetArraySlotSound
  <2>7. CASE \E n \in Lengths : SetArrayLength(obj, n)
    BY <2>1, <2>7, SetArrayLengthSound
  <2>8. QED
    BY <1>4, <2>2, <2>3, <2>4, <2>5, <2>6, <2>7
<1>5. QED
  BY <1>1, <1>2, <1>3, <1>4 DEF Next

(* The invariant says all of the properties.                                 *)
LEMMA IInvImplies ==
    IInv => TypeOK /\ MemorySafe /\ NoGarbageInUse /\ TagsMirrorSlots /\ TagReadsNeverAssert
<1> SUFFICES ASSUME IInv
             PROVE  TypeOK /\ MemorySafe /\ NoGarbageInUse /\ TagsMirrorSlots
                    /\ TagReadsNeverAssert
  OBVIOUS
<1>1. TypeOK
  BY DEF IInv, TypeOK, HeapSound, SoundArray, SoundFrame
<1>2. \A p \in Live : Sound(heap[p])
  BY DEF IInv, HeapSound, SoundArray, SoundFrame
<1>3. \A p \in Live : IsFrame(p) => Sound(heap[p].head) /\ InStep(heap[p])
  BY SoundByTag DEF SoundFrame, SoundArray
<1>4. QED
  BY <1>1, <1>2, <1>3 DEF IInv, Sound, MemorySafe, NoGarbageInUse, TagsMirrorSlots

(* It holds in every state of every behaviour.                               *)
LEMMA Invariance == Spec => []IInv
<1>1. Init => IInv
  BY InitSound
<1>2. IInv /\ [Next]_vars => IInv'
  BY NextSound
<1>3. QED
  BY <1>1, <1>2, PTL DEF Spec

-----------------------------------------------------------------------------
(* The variables keep their types, whatever the client does.                 *)
THEOREM TypeCorrect == Spec => []TypeOK
  BY Invariance, IInvImplies, PTL

(* Length and reserve never promise memory that was not allocated.           *)
THEOREM MemorySafety == Spec => []MemorySafe
  BY Invariance, IInvImplies, PTL

(* No reader sees memory that realloc left uninitialised.                    *)
THEOREM SlotsInitialised == Spec => []NoGarbageInUse
  BY Invariance, IInvImplies, PTL

(* Every frame and its map agree, and the tags of a frame differ.            *)
THEOREM FramesInStep == Spec => []TagsMirrorSlots
  BY Invariance, IInvImplies, PTL

(* The assertion in Frame::GetSlot(tag) cannot fail, even for frames whose   *)
(* slots Frame::SetSlot has put in the wrong place.                          *)
THEOREM TagReadsInRange == Spec => []TagReadsNeverAssert
  BY Invariance, IInvImplies, PTL

-----------------------------------------------------------------------------
(* A disciplined step is a step of the heap. *)
LEMMA DisciplinedStep == DisciplinedNext => Next
<1> SUFFICES ASSUME DisciplinedNext
             PROVE  Next
  OBVIOUS
<1>1. CASE NewObject
  BY <1>1 DEF DisciplinedNext, Next, NewObject
<1>2. ASSUME NEW obj \in Targets \cap Held, UseFrame(obj)
      PROVE  Next
  <2>1. PICK tag \in Symbols :
            \/ \E value \in Values \cap Held : SetFrameSlot(obj, tag, value)
            \/ GetFrameSlot(obj, tag)
    BY <1>2 DEF UseFrame
  <2>2. QED
    BY <1>2, <2>1 DEF Next, DisciplinedNext
<1>3. ASSUME NEW obj \in Targets \cap Held, UseArray(obj)
      PROVE  Next
  BY <1>3 DEF Next, DisciplinedNext, UseArray
<1>4. QED
  BY <1>1, <1>2, <1>3 DEF DisciplinedNext

-----------------------------------------------------------------------------
(* SetLength to a length below the limit does not assert either.             *)
LEMMA LengthInRange ==
    ASSUME NEW o, IsSlotted(o), NEW n \in Nat, n < SizeLimit
    PROVE  SetLengthAsserts(o, n)
<1>1. n % SizeLimit = n /\ o.length \in Nat
  BY Truncation, SizeAssumption DEF IsSlotted
<1>2. QED
  BY <1>1 DEF SetLengthAsserts

(* A disciplined client's calls return.                                      *)
LEMMA StepSurvives ==
    ASSUME IInv, DisciplinedNext
    PROVE  DisciplineSurvives'
<1>1. status = "running"
  BY DEF DisciplinedNext
<1>2. CASE NewObject
  BY <1>1, <1>2 DEF NewObject, AllocateFrame, AllocateArray, AllocateEmptyArray,
                    Allocate, Return, DisciplineSurvives
<1>3. ASSUME NEW obj \in Targets \cap Held, UseFrame(obj)
      PROVE  DisciplineSurvives'
  <2>1. PICK tag \in Symbols :
            \/ \E value \in Values \cap Held :
                  /\ IsFrame(obj) => Room(heap[obj].head) /\ ~HasTag(heap[obj], tag)
                  /\ SetFrameSlot(obj, tag, value)
            \/ GetFrameSlot(obj, tag)
    BY <1>3 DEF UseFrame
  <2>2. CASE \E value \in Values \cap Held :
                  /\ IsFrame(obj) => Room(heap[obj].head) /\ ~HasTag(heap[obj], tag)
                  /\ SetFrameSlot(obj, tag, value)
    <3>1. PICK value : /\ IsFrame(obj) => Room(heap[obj].head) /\ ~HasTag(heap[obj], tag)
                       /\ SetFrameSlot(obj, tag, value)
      BY <2>2
    <3>2. CASE SetFrameSlotError(obj, tag) # {}
      BY <1>1, <3>1, <3>2 DEF SetFrameSlot, Return, DisciplineSurvives
    <3>3. CASE SetFrameSlotError(obj, tag) = {}
      <4>1. IsFrame(obj)
        BY <3>3 DEF SetFrameSlotError
      <4>2. FrameSetSlotAsserts(heap[obj], tag)
        BY <3>1, <4>1, SoundByTag, RoomForTag
      <4>3. QED
        BY <1>1, <3>1, <3>3, <4>2 DEF SetFrameSlot, Return, DisciplineSurvives
    <3>4. QED
      BY <3>2, <3>3
  <2>3. CASE GetFrameSlot(obj, tag)
    <3>1. status' # "Frame::GetSlot assert"
      BY <2>3, GetFrameSlotSound DEF IInv, TagReadsNeverAssert
    <3>2. tag \notin Immediates
      BY <2>1, RefAssumption
    <3>3. QED
      BY <1>1, <2>3, <3>1, <3>2 DEF GetFrameSlot, Return, Die, DisciplineSurvives
  <2>4. QED
    BY <2>1, <2>2, <2>3
<1>4. ASSUME NEW obj \in Targets \cap Held, UseArray(obj)
      PROVE  DisciplineSurvives'
  <2>1. IsArray(obj) => IsSlotted(heap[obj])
    BY SoundByTag DEF SoundArray, IsArrayObject, IsObject
  <2>2. ASSUME NEW value, IsArray(obj) => Room(heap[obj]), AddArraySlot(obj, value)
        PROVE  DisciplineSurvives'
    BY <1>1, <2>1, <2>2, RoomForOne DEF AddArraySlot, Return, DisciplineSurvives
  <2>3. ASSUME NEW i \in Positions, i >= 0, GetArraySlot(obj, i)
        PROVE  DisciplineSurvives'
    BY <1>1, <2>3 DEF GetArraySlot, GetSlotAsserts, Return, DisciplineSurvives
  <2>4. ASSUME NEW i \in Positions, NEW value, SetArraySlot(obj, i, value),
               IsArray(obj) => i \in 0 .. heap[obj].length - 1
        PROVE  DisciplineSurvives'
    BY <1>1, <2>4 DEF SetArraySlot, SetSlotAsserts, Return, DisciplineSurvives
  <2>5. ASSUME NEW n \in Lengths, n < SizeLimit, SetArrayLength(obj, n)
        PROVE  DisciplineSurvives'
    <3>1. SetLengthAsserts(heap[obj], n)
      BY <2>1, <2>5, ClientAssumption, LengthInRange DEF SetArrayLength
    <3>2. QED
      BY <1>1, <2>5, <3>1 DEF SetArrayLength, Return, DisciplineSurvives
  <2>6. QED
    BY <1>4, <2>2, <2>3, <2>4, <2>5 DEF UseArray
<1>5. QED
  BY <1>2, <1>3, <1>4 DEF DisciplinedNext

(* The invariant of the heap, and that the program runs, hold throughout.    *)
LEMMA DisciplinedInvariance == DisciplinedSpec => [](IInv /\ DisciplineSurvives)
<1>1. DisciplinedInit => IInv /\ DisciplineSurvives
  BY InitSound DEF DisciplinedInit, Init, DisciplineSurvives
<1>2. ASSUME IInv, DisciplineSurvives, [DisciplinedNext]_<<vars, call>>
      PROVE  IInv' /\ DisciplineSurvives'
  <2>1. CASE DisciplinedNext
    BY <1>2, <2>1, DisciplinedStep, NextSound, StepSurvives
  <2>2. CASE UNCHANGED <<vars, call>>
    <3>1. UNCHANGED vars
      BY <2>2
    <3>2. IInv'
      BY <1>2, <3>1, NextSound
    <3>3. DisciplineSurvives'
      BY <1>2, <3>1 DEF vars, DisciplineSurvives
    <3>4. QED
      BY <3>2, <3>3
  <2>3. QED
    BY <1>2, <2>1, <2>2
<1>3. QED
  BY <1>1, <1>2, PTL DEF DisciplinedSpec

(* No sequence of calls of a client that keeps to its contract makes an      *)
(* assertion of objects.cpp fail, whatever the limits and reserves are.      *)
THEOREM Survives == DisciplinedSpec => []DisciplineSurvives
  BY DisciplinedInvariance, PTL

-----------------------------------------------------------------------------
(* What the contents of an array and of a frame are, and how an operation    *)
(* changes them.                                                             *)
LEMMA ArrayContents ==
    ASSUME NEW a, SoundArray(a)
    PROVE  Contents(a) = Store!Array([i \in 0 .. a.length - 1 |-> a.slot[i]])
  BY DEF Contents, SoundArray, IsArrayObject, Store!Array

(* Under each name that a tag of the frame has, its slot; nothing else.      *)
IsDictionary(slots, f) ==
    /\ slots = [name \in DOMAIN slots |-> slots[name]]
    /\ DOMAIN slots = {NameOf[f.head.slot[i]] : i \in 1 .. f.length}
    /\ \A i \in 1 .. f.length : slots[NameOf[f.head.slot[i]]] = f.slot[i - 1]

(* A frame holds one dictionary only.                                        *)
LEMMA OneDictionary ==
    ASSUME NEW f, NEW s, IsDictionary(s, f), NEW t, IsDictionary(t, f)
    PROVE  s = t
<1>1. DOMAIN s = DOMAIN t
  BY DEF IsDictionary
<1>2. ASSUME NEW name \in DOMAIN s
      PROVE  s[name] = t[name]
  <2>1. PICK i \in 1 .. f.length : name = NameOf[f.head.slot[i]]
    BY DEF IsDictionary
  <2>2. QED
    BY <2>1 DEF IsDictionary
<1>3. QED
  BY <1>1, <1>2 DEF IsDictionary

(* A sound frame holds one, and Contents finds it.                           *)
LEMMA FrameContents ==
    ASSUME NEW f, SoundFrame(f)
    PROVE  \E slots : Contents(f) = Store!Frame(slots) /\ IsDictionary(slots, f)
<1> DEFINE Tagged(name) == {i \in 1 .. f.head.length - 1 : NameOf[f.head.slot[i]] = name}
           bound == {name \in Names : Tagged(name) # {}}
           slots == [name \in bound |-> f.slot[(CHOOSE i \in Tagged(name) : TRUE) - 1]]
<1>1. /\ f.tag = "frame"
      /\ f.head.length - 1 = f.length
      /\ \A i \in 1 .. f.length : f.head.slot[i] \in Symbols
      /\ \A i, j \in 1 .. f.length : SymbolsEqual(f.head.slot[i], f.head.slot[j]) => i = j
  <2>1. f.length \in Nat
    BY SizeAssumption DEF SoundFrame, IsFrameObject, IsObject, IsSlotted
  <2>2. QED
    BY <2>1 DEF SoundFrame, IsFrameObject, InStep
<1>2. Contents(f) = Store!Frame(slots)
  BY <1>1 DEF Contents, Store!Frame
<1>3. ASSUME NEW i \in 1 .. f.length
      PROVE  Tagged(NameOf[f.head.slot[i]]) = {i}
  BY <1>1 DEF SymbolsEqual
<1>4. bound = {NameOf[f.head.slot[i]] : i \in 1 .. f.length}
  BY <1>1 DEF Names
<1>5. ASSUME NEW i \in 1 .. f.length
      PROVE  slots[NameOf[f.head.slot[i]]] = f.slot[i - 1]
  <2>1. NameOf[f.head.slot[i]] \in bound
    BY <1>4
  <2>2. (CHOOSE j \in Tagged(NameOf[f.head.slot[i]]) : TRUE) = i
    BY <1>3
  <2>3. QED
    BY <2>1, <2>2
<1>6. IsDictionary(slots, f)
  BY <1>4, <1>5 DEF IsDictionary
<1>7. QED
  BY <1>2, <1>6

(* A tag is found where the dictionary has its name.                         *)
LEMMA Reads ==
    ASSUME NEW f, SoundFrame(f), NEW slots, IsDictionary(slots, f), NEW tag \in Symbols
    PROVE  /\ HasTag(f, tag) <=> NameOf[tag] \in DOMAIN slots
           /\ FrameGetSlot(f, tag) = Store!Lookup(slots, NameOf[tag])
<1>1. /\ f.length \in Nat
      /\ f.head.length = f.length + 1
  BY SizeAssumption DEF SoundFrame, IsFrameObject, IsObject, IsSlotted, InStep
<1>2. \A s \in Symbols : SymbolsEqual(s, tag) <=> NameOf[s] = NameOf[tag]
  BY DEF SymbolsEqual
<1>3. \A i \in 1 .. f.length : f.head.slot[i] \in Symbols
  BY <1>1 DEF SoundFrame, InStep
<1>4. HasTag(f, tag) <=> \E i \in 1 .. f.length : SymbolsEqual(f.head.slot[i], tag)
  BY <1>1 DEF HasTag, TagSlots
<1>5. HasTag(f, tag) <=> NameOf[tag] \in DOMAIN slots
  BY <1>2, <1>3, <1>4 DEF IsDictionary
<1>6. CASE HasTag(f, tag)
  <2>1. PICK index \in 0 .. f.length - 1 : /\ index = FindOffset(f.head, tag)
                                           /\ SymbolsEqual(f.head.slot[index + 1], tag)
    BY <1>6, OffsetOfTag
  <2>2. FrameGetSlot(f, tag) = f.slot[index]
    BY <1>1, <2>1 DEF FrameGetSlot
  <2>3. index + 1 \in 1 .. f.length /\ (index + 1) - 1 = index
    BY <1>1, <2>1
  <2>4. slots[NameOf[tag]] = f.slot[index]
    BY <1>2, <1>3, <2>1, <2>3 DEF IsDictionary
  <2>5. QED
    BY <1>5, <1>6, <2>2, <2>4 DEF Store!Lookup
<1>7. CASE ~HasTag(f, tag)
  BY <1>5, <1>7, OffsetOfTag DEF FrameGetSlot, Store!Lookup
<1>8. QED
  BY <1>5, <1>6, <1>7

(* A new tag binds its name.                                                 *)
LEMMA Binds ==
    ASSUME NEW f, SoundFrame(f), NEW slots, IsDictionary(slots, f),
           NEW tag \in Symbols, ~HasTag(f, tag), NEW ref,
           NEW b, SoundFrame(b), Bound(f, b, tag, ref)
    PROVE  IsDictionary(Store!Bind(slots, NameOf[tag], ref), b)
<1> DEFINE bind == Store!Bind(slots, NameOf[tag], ref)
<1>1. /\ f.length \in Nat
      /\ b.length = f.length + 1
      /\ \A i \in 1 .. f.length : b.head.slot[i] = f.head.slot[i]
      /\ b.head.slot[f.length + 1] = tag
      /\ \A i \in 0 .. f.length - 1 : b.slot[i] = f.slot[i]
      /\ b.slot[f.length] = ref
  BY SizeAssumption DEF Bound, SoundFrame, IsFrameObject, IsObject, IsSlotted
<1>2. NameOf[tag] \notin DOMAIN slots
  BY Reads
<1>3. \A i \in 1 .. f.length + 1 :
         NameOf[b.head.slot[i]] = IF i = f.length + 1 THEN NameOf[tag] ELSE NameOf[f.head.slot[i]]
  BY <1>1
<1>4. DOMAIN bind = {NameOf[b.head.slot[i]] : i \in 1 .. b.length}
  <2>1. DOMAIN bind = DOMAIN slots \cup {NameOf[tag]}
    BY DEF Store!Bind
  <2>2. DOMAIN slots = {NameOf[f.head.slot[i]] : i \in 1 .. f.length}
    BY DEF IsDictionary
  <2>3. \A name : name \in DOMAIN bind <=> \E i \in 1 .. b.length : name = NameOf[b.head.slot[i]]
    BY <1>1, <1>3, <2>1, <2>2
  <2>4. QED
    BY <2>3
<1>5. ASSUME NEW i \in 1 .. b.length
      PROVE  bind[NameOf[b.head.slot[i]]] = b.slot[i - 1]
  <2>1. CASE i = f.length + 1
    BY <1>1, <2>1 DEF Store!Bind
  <2>2. CASE i \in 1 .. f.length
    <3>1. NameOf[b.head.slot[i]] = NameOf[f.head.slot[i]]
      BY <1>1, <2>2
    <3>2. NameOf[f.head.slot[i]] \in DOMAIN slots
      BY <2>2 DEF IsDictionary
    <3>3. bind[NameOf[f.head.slot[i]]] = slots[NameOf[f.head.slot[i]]]
      BY <1>2, <3>2 DEF Store!Bind
    <3>4. b.slot[i - 1] = f.slot[i - 1]
      BY <1>1, <2>2
    <3>5. QED
      BY <2>2, <3>1, <3>3, <3>4 DEF IsDictionary
  <2>3. QED
    BY <1>1, <2>1, <2>2
<1>6. bind = [name \in DOMAIN bind |-> bind[name]]
  BY DEF Store!Bind
<1>7. QED
  BY <1>4, <1>5, <1>6 DEF IsDictionary

-----------------------------------------------------------------------------
(* An object is not what an unused address holds, nor are its contents.      *)
LEMMA Something ==
    /\ \A o : SoundArray(o) \/ SoundFrame(o) => o # NoObject
    /\ \A slots : Store!Frame(slots) # NoObject /\ Store!Array(slots) # NoObject
<1>1. NoObject.tag = "none" /\ DOMAIN NoObject = {"tag", "head", "length", "reserve", "slot"}
  BY DEF NoObject, Object
<1>2. \A o : SoundArray(o) \/ SoundFrame(o) => o # NoObject
  BY <1>1 DEF SoundArray, SoundFrame, IsArrayObject, IsFrameObject
<1>3. ASSUME NEW slots
      PROVE  Store!Frame(slots) # NoObject /\ Store!Array(slots) # NoObject
  <2>1. /\ DOMAIN Store!Frame(slots) = {"kind", "slots"}
        /\ DOMAIN Store!Array(slots) = {"kind", "slots"}
    BY DEF Store!Frame, Store!Array
  <2>2. QED
    BY <1>1, <2>1
<1>4. QED
  BY <1>2, <1>3

(* The store has what the heap has.                                          *)
LEMMA StoredKinds ==
    ASSUME IInv, NEW p
    PROVE  /\ IsFrame(p) => /\ SoundFrame(heap[p])
                            /\ p \in Store!Objects("frame") /\ p \notin Store!Objects("array")
                            /\ StoredObjects[p] = Contents(heap[p])
           /\ IsArray(p) => /\ SoundArray(heap[p])
                            /\ p \in Store!Objects("array") /\ p \notin Store!Objects("frame")
                            /\ StoredObjects[p] = Contents(heap[p])
           /\ ~IsFrame(p) => p \notin Store!Objects("frame")
           /\ ~IsArray(p) => p \notin Store!Objects("array")
<1>1. CASE IsFrame(p)
  <2>1. p \in Live /\ SoundFrame(heap[p]) /\ ~IsArray(p)
    BY <1>1, SoundByTag DEF IsFrame, IsArray, Live
  <2>2. PICK slots : Contents(heap[p]) = Store!Frame(slots)
    BY <2>1, FrameContents
  <2>3. StoredObjects[p] = Store!Frame(slots)
    BY <2>1, <2>2 DEF StoredObjects, Live
  <2>4. p \in Ptrs /\ StoredObjects[p] # NoObject /\ StoredObjects[p].kind = "frame"
    BY <2>1, <2>3, Something DEF Store!Frame, Live
  <2>5. QED
    BY <1>1, <2>1, <2>2, <2>3, <2>4 DEF Store!Objects
<1>2. CASE IsArray(p)
  <2>1. p \in Live /\ SoundArray(heap[p]) /\ ~IsFrame(p)
    BY <1>2, SoundByTag DEF IsFrame, IsArray, Live
  <2>2. PICK slots : Contents(heap[p]) = Store!Array(slots)
    BY <2>1, ArrayContents
  <2>3. StoredObjects[p] = Store!Array(slots)
    BY <2>1, <2>2 DEF StoredObjects, Live
  <2>4. p \in Ptrs /\ StoredObjects[p] # NoObject /\ StoredObjects[p].kind = "array"
    BY <2>1, <2>3, Something DEF Store!Array, Live
  <2>5. QED
    BY <1>2, <2>1, <2>2, <2>3, <2>4 DEF Store!Objects
<1>3. CASE ~IsFrame(p) /\ ~IsArray(p)
  <2>1. p \notin Live
    BY <1>3 DEF IInv, HeapSound, Live, IsFrame, IsArray, SoundArray, SoundFrame,
                IsArrayObject, IsFrameObject
  <2>2. p \in Ptrs => StoredObjects[p] = NoObject
    BY <2>1 DEF StoredObjects
  <2>3. QED
    BY <1>3, <2>2 DEF Store!Objects
<1>4. QED
  BY <1>1, <1>2, <1>3

(* The length of an array is its size in the store.                          *)
LEMMA StoredSize ==
    ASSUME IInv, NEW p, IsArray(p)
    PROVE  Store!Size(p) = heap[p].length
<1>1. StoredObjects[p].slots = [i \in 0 .. heap[p].length - 1 |-> heap[p].slot[i]]
  <2>1. SoundArray(heap[p]) /\ StoredObjects[p] = Contents(heap[p])
    BY StoredKinds
  <2>2. PICK slots : slots = [i \in 0 .. heap[p].length - 1 |-> heap[p].slot[i]]
    OBVIOUS
  <2>3. StoredObjects[p] = Store!Array(slots)
    BY <2>1, <2>2, ArrayContents
  <2>4. StoredObjects[p].slots = slots
    BY <2>3 DEF Store!Array
  <2>5. QED
    BY <2>2, <2>4
<1>2. heap[p].length \in 0 .. SizeLimit - 1
  BY StoredKinds DEF SoundArray, IsArrayObject, IsObject, IsSlotted
<1>3. ASSUME NEW n \in 0 .. SizeLimit - 1
      PROVE  DOMAIN StoredObjects[p].slots = 0 .. n - 1 <=> n = heap[p].length
  <2>1. PICK length \in 0 .. SizeLimit - 1 : length = heap[p].length
    BY <1>2
  <2>2. DOMAIN StoredObjects[p].slots = 0 .. length - 1
    BY <1>1, <2>1
  <2>3. 0 .. n - 1 = 0 .. length - 1 => n = length
    <3>1. n \in Nat /\ length \in Nat
      BY SizeAssumption
    <3>2. CASE n < length
      <4>1. n \in 0 .. length - 1 /\ n \notin 0 .. n - 1
        BY <3>1, <3>2
      <4>2. QED
        BY <4>1
    <3>3. CASE length < n
      <4>1. length \in 0 .. n - 1 /\ length \notin 0 .. length - 1
        BY <3>1, <3>3
      <4>2. QED
        BY <4>1
    <3>4. QED
      BY <3>1, <3>2, <3>3
  <2>4. QED
    BY <2>1, <2>2, <2>3
<1>4. QED
  BY <1>2, <1>3 DEF Store!Size

(* The contents of an object, and a change of the store.                     *)
Holds(o, kind, slots) == Contents(o) = [kind |-> kind, slots |-> slots]

Writes(p, slots) == StoredObjects' = [StoredObjects EXCEPT ![p].slots = slots]

(* An operation on one object writes it in the store and nothing else.       *)
LEMMA Written ==
    ASSUME IInv, NEW p \in Live, NEW o, SoundArray(o) \/ SoundFrame(o),
           heap' = [heap EXCEPT ![p] = o],
           NEW kind, NEW old, NEW new,
           Holds(heap[p], kind, old), Holds(o, kind, new)
    PROVE  Writes(p, new)
<1>1. /\ p \in Ptrs
      /\ \A q \in Ptrs : heap'[q] = IF q = p THEN o ELSE heap[q]
  BY DEF IInv, Live
<1>2. o # NoObject
  BY Something
<1>3. \A q \in Ptrs : q \in Live' <=> q \in Live
  BY <1>1, <1>2 DEF Live
<1>4. \A q \in Ptrs \ {p} : StoredObjects'[q] = StoredObjects[q]
  BY <1>1, <1>3 DEF StoredObjects
<1>5. /\ StoredObjects'[p] = [kind |-> kind, slots |-> new]
      /\ StoredObjects[p] = [kind |-> kind, slots |-> old]
  BY <1>1, <1>3 DEF StoredObjects, Holds
<1>6. [StoredObjects[p] EXCEPT !.slots = new] = [kind |-> kind, slots |-> new]
  BY <1>5
<1>7. /\ StoredObjects = [q \in Ptrs |-> StoredObjects[q]]
      /\ StoredObjects' = [q \in Ptrs |-> StoredObjects'[q]]
  BY DEF StoredObjects
<1>8. QED
  BY <1>1, <1>4, <1>5, <1>6, <1>7 DEF Writes

(* A new object is a new one in the store.                                   *)
LEMMA Stored ==
    ASSUME IInv, NEW o, SoundArray(o) \/ SoundFrame(o), Allocate(o)
    PROVE  Store!New(Contents(o))
<1>1. PICK p \in Ptrs : /\ heap[p] = NoObject
                        /\ heap' = [heap EXCEPT ![p] = o]
                        /\ answer' = Value(p)
  BY DEF Allocate, Return
<1>2. \A q \in Ptrs : heap'[q] = IF q = p THEN o ELSE heap[q]
  BY <1>1 DEF IInv
<1>3. StoredObjects[p] = NoObject
  BY <1>1 DEF StoredObjects, Live
<1>4. o # NoObject
  BY Something
<1>5. \A q \in Ptrs : StoredObjects'[q] = IF q = p THEN Contents(o) ELSE StoredObjects[q]
  BY <1>2, <1>4 DEF StoredObjects, Live
<1>6. /\ StoredObjects = [q \in Ptrs |-> StoredObjects[q]]
      /\ StoredObjects' = [q \in Ptrs |-> StoredObjects'[q]]
  BY DEF StoredObjects
<1>7. StoredObjects' = [StoredObjects EXCEPT ![p] = Contents(o)]
  BY <1>5, <1>6
<1>8. QED
  BY <1>1, <1>3, <1>7 DEF Store!New, Store!Value, Value

-----------------------------------------------------------------------------
(* Each operation is the one of the store.                                   *)
LEMMA NewObjectStores ==
    ASSUME IInv, NewObject
    PROVE  Store!Next
<1>1. CASE AllocateFrame /\ call' = Call("AllocateFrame", NIL, NIL, NIL)
  <2>1. Store!New(Contents(NewFrame))
    BY <1>1, NewObjectsSound, Stored DEF AllocateFrame
  <2>2. PICK slots : Contents(NewFrame) = Store!Frame(slots) /\ IsDictionary(slots, NewFrame)
    BY NewObjectsSound, FrameContents
  <2>3. NewFrame.length = 0
    BY DEF NewFrame, Object
  <2>4. IsDictionary([name \in {} |-> NIL], NewFrame)
    BY <2>3 DEF IsDictionary
  <2>5. slots = [name \in {} |-> NIL]
    BY <2>2, <2>4, OneDictionary
  <2>6. CallByName' = Store!Call("AllocateFrame", NIL, NIL, NIL)
    BY <1>1 DEF CallByName, Call, Store!Call
  <2>7. QED
    BY <2>1, <2>2, <2>5, <2>6 DEF Store!Next, Store!AllocateFrame
<1>2. ASSUME NEW class \in Classes, NEW n \in Nat, n < SizeLimit,
             NEW o, SoundArray(o), o.length = n, \A i \in 0 .. n - 1 : o.slot[i] = UNREF,
             Allocate(o), call' = Call("AllocateArray", NIL, n, class)
      PROVE  Store!Next
  <2>1. Store!New(Contents(o))
    BY <1>2, Stored
  <2>2. [i \in 0 .. o.length - 1 |-> o.slot[i]] = [i \in 0 .. n - 1 |-> UNREF]
    BY <1>2
  <2>3. Contents(o) = Store!Array([i \in 0 .. n - 1 |-> UNREF])
    BY <1>2, <2>2, ArrayContents
  <2>4. CallByName' = Store!Call("AllocateArray", NIL, n, class)
    BY <1>2 DEF CallByName, Call, Store!Call
  <2>5. Store!AllocateArray(class, n)
    BY <2>1, <2>3, <2>4 DEF Store!AllocateArray
  <2>6. n \in 0 .. SizeLimit - 1
    BY <1>2, SizeAssumption
  <2>7. QED
    BY <2>5, <2>6 DEF Store!Next
<1>3. ASSUME NEW class \in Classes, AllocateEmptyArray(class),
             call' = Call("AllocateArray", NIL, 0, class)
      PROVE  Store!Next
  <2>1. PICK o : o = NewEmptyArray(class)
    OBVIOUS
  <2>2. SoundArray(o)
    BY <2>1, NewObjectsSound, ClientAssumption DEF Ref
  <2>3. o.length = 0
    BY <2>1 DEF NewEmptyArray, Object
  <2>4. \A i \in 0 .. 0 - 1 : o.slot[i] = UNREF
    OBVIOUS
  <2>5. 0 < SizeLimit /\ 0 \in Nat
    BY SizeAssumption
  <2>6. QED
    BY <1>2, <1>3, <2>1, <2>2, <2>3, <2>4, <2>5 DEF AllocateEmptyArray
<1>4. ASSUME NEW class \in Classes, NEW n \in Lengths, n < SizeLimit, AllocateArray(class, n),
             call' = Call("AllocateArray", NIL, n, class)
      PROVE  Store!Next
  <2>1. PICK o : o = NewArray(class, n)
    OBVIOUS
  <2>2. n \in Nat /\ n % SizeLimit = n
    BY <1>4, ClientAssumption, Truncation
  <2>3. SoundArray(o)
    BY <2>1, <2>2, NewObjectsSound, ClientAssumption DEF Ref
  <2>4. o.length = n /\ \A i \in 0 .. n - 1 : o.slot[i] = UNREF
    BY <2>1, <2>2 DEF NewArray, NewSlots, Object
  <2>5. QED
    BY <1>2, <1>4, <2>1, <2>2, <2>3, <2>4 DEF AllocateArray
<1>5. QED
  BY <1>1, <1>3, <1>4 DEF NewObject

(* Whatever the client does with a frame is a step of the store.             *)
LEMMA UseFrameStores ==
    ASSUME IInv, DisciplineSurvives', NEW obj \in Targets \cap Held, UseFrame(obj)
    PROVE  Store!Next
<1>1. PICK tag \in Symbols :
          \/ \E value \in Values \cap Held :
                /\ IsFrame(obj) => Room(heap[obj].head) /\ ~HasTag(heap[obj], tag)
                /\ SetFrameSlot(obj, tag, value)
                /\ call' = Call("SetFrameSlot", obj, tag, value)
          \/ GetFrameSlot(obj, tag) /\ call' = Call("GetFrameSlot", obj, tag, NIL)
  BY DEF UseFrame
<1>2. NameOf[tag] \in Names
  BY DEF Names
<1>3. ASSUME NEW value \in Values \cap Held,
             IsFrame(obj) => Room(heap[obj].head) /\ ~HasTag(heap[obj], tag),
             SetFrameSlot(obj, tag, value),
             call' = Call("SetFrameSlot", obj, tag, value)
      PROVE  Store!SetFrameSlot(obj, NameOf[tag], value)
  <2>1. CallByName' = Store!Call("SetFrameSlot", obj, NameOf[tag], value)
    BY <1>3 DEF CallByName, Call, Store!Call
  <2>2. CASE ~IsFrame(obj)
    <3>1. answer' = Throw("NotAFrame") /\ UNCHANGED heap
      BY <1>3, <2>2 DEF SetFrameSlot, SetFrameSlotError, Return
    <3>2. UNCHANGED StoredObjects
      BY <3>1 DEF StoredObjects, Live
    <3>3. QED
      BY <2>1, <2>2, <3>1, <3>2, StoredKinds
         DEF Store!SetFrameSlot, Store!Answer, Store!Throw, Throw
  <2>3. CASE IsFrame(obj)
    <3>1. PICK f : f = heap[obj]
      OBVIOUS
    <3>2. /\ SoundFrame(f) /\ obj \in Live /\ StoredObjects[obj] = Contents(f)
          /\ obj \in Store!Objects("frame")
      BY <2>3, <3>1, StoredKinds DEF IsFrame, Live
    <3>3. FrameSetSlotAsserts(f, tag) /\ ~HasTag(f, tag)
      BY <1>3, <2>3, <3>1, <3>2, RoomForTag
    <3>4. PICK b : b = FrameSetSlot(f, tag, value)
      OBVIOUS
    <3>5. heap' = [heap EXCEPT ![obj] = b] /\ answer' = Void
      <4>1. SetFrameSlotError(obj, tag) = {}
        BY <2>3 DEF SetFrameSlotError, IsReadOnly, ConstructorFlags
      <4>2. QED
        BY <1>3, <3>1, <3>3, <3>4, <4>1 DEF SetFrameSlot, Return
    <3>6. SoundFrame(b) /\ Bound(f, b, tag, value)
      <4>1. value \in Ref
        BY ClientAssumption
      <4>2. QED
        BY <3>2, <3>3, <3>4, <4>1, FrameGrow
    <3>7. PICK slots : Contents(f) = Store!Frame(slots) /\ IsDictionary(slots, f)
      BY <3>2, FrameContents
    <3>8. PICK bound : bound = Store!Bind(slots, NameOf[tag], value)
      OBVIOUS
    <3>9. Contents(b) = Store!Frame(bound)
      <4>1. IsDictionary(bound, b)
        BY <3>2, <3>3, <3>6, <3>7, <3>8, Binds
      <4>2. QED
        BY <3>6, <4>1, FrameContents, OneDictionary
    <3>10. Writes(obj, bound)
      <4>1. Holds(heap[obj], "frame", slots)
        BY <3>1, <3>7 DEF Store!Frame, Holds
      <4>2. Holds(b, "frame", bound)
        BY <3>9 DEF Store!Frame, Holds
      <4>3. heap' = [heap EXCEPT ![obj] = b] /\ SoundFrame(b) /\ obj \in Live
        BY <3>2, <3>5, <3>6
      <4>4. QED
        BY <4>1, <4>2, <4>3, Written
    <3>11. StoredObjects[obj].slots = slots
      BY <3>2, <3>7 DEF Store!Frame
    <3>12. QED
      BY <2>1, <3>2, <3>5, <3>8, <3>10, <3>11
         DEF Store!SetFrameSlot, Store!Write, Writes, Store!Void, Void
  <2>4. QED
    BY <2>2, <2>3
<1>4. ASSUME GetFrameSlot(obj, tag), call' = Call("GetFrameSlot", obj, tag, NIL)
      PROVE  Store!GetFrameSlot(obj, NameOf[tag])
  <2>1. CallByName' = Store!Call("GetFrameSlot", obj, NameOf[tag], NIL)
    BY <1>4 DEF CallByName, Call, Store!Call
  <2>2. tag \notin Immediates
    BY RefAssumption
  <2>3. /\ UNCHANGED heap
        /\ ~IsFrame(obj) => answer' = Throw("NotAFrame")
        /\ IsFrame(obj) => answer' = Value(FrameGetSlot(heap[obj], tag))
    BY <1>4, <2>2 DEF GetFrameSlot, Return, Die, DisciplineSurvives
  <2>4. UNCHANGED StoredObjects
    BY <2>3 DEF StoredObjects, Live
  <2>5. CASE ~IsFrame(obj)
    BY <2>1, <2>3, <2>4, <2>5, StoredKinds
       DEF Store!GetFrameSlot, Store!Answer, Store!Throw, Throw
  <2>6. CASE IsFrame(obj)
    <3>1. PICK f : f = heap[obj]
      OBVIOUS
    <3>2. /\ SoundFrame(f) /\ StoredObjects[obj] = Contents(f)
          /\ obj \in Store!Objects("frame")
      BY <2>6, <3>1, StoredKinds
    <3>3. PICK slots : Contents(f) = Store!Frame(slots) /\ IsDictionary(slots, f)
      BY <3>2, FrameContents
    <3>4. StoredObjects[obj].slots = slots
      BY <3>2, <3>3 DEF Store!Frame
    <3>5. FrameGetSlot(f, tag) = Store!Lookup(slots, NameOf[tag])
      BY <3>2, <3>3, Reads
    <3>6. QED
      BY <2>1, <2>3, <2>4, <2>6, <3>1, <3>2, <3>4, <3>5
         DEF Store!GetFrameSlot, Store!Answer, Store!Value, Value
  <2>7. QED
    BY <2>5, <2>6
<1>5. CASE GetFrameSlot(obj, tag) /\ call' = Call("GetFrameSlot", obj, tag, NIL)
  BY <1>2, <1>4, <1>5 DEF Store!Next
<1>6. CASE \E value \in Values \cap Held :
                /\ IsFrame(obj) => Room(heap[obj].head) /\ ~HasTag(heap[obj], tag)
                /\ SetFrameSlot(obj, tag, value)
                /\ call' = Call("SetFrameSlot", obj, tag, value)
  <2>1. PICK value \in Values \cap Held : Store!SetFrameSlot(obj, NameOf[tag], value)
    BY <1>3, <1>6
  <2>2. QED
    BY <1>2, <2>1 DEF Store!Next
<1>7. QED
  BY <1>1, <1>5, <1>6

(* A slot of an array changes to what Bind says, or a slot is added.         *)
LEMMA SlotBinds ==
    ASSUME NEW a, SoundArray(a), NEW i \in 0 .. a.length, NEW ref,
           NEW b, SoundArray(b), b.length = (IF i = a.length THEN a.length + 1 ELSE a.length),
           \A j \in 0 .. b.length - 1 : b.slot[j] = IF j = i THEN ref ELSE a.slot[j],
           NEW slots, Holds(a, "array", slots)
    PROVE  Holds(b, "array", Store!Bind(slots, i, ref))
<1>1. a.length \in Nat
  BY SizeAssumption DEF SoundArray, IsArrayObject, IsObject, IsSlotted
<1>2. slots = [j \in 0 .. a.length - 1 |-> a.slot[j]]
  <2>1. PICK s : s = [j \in 0 .. a.length - 1 |-> a.slot[j]]
    OBVIOUS
  <2>2. [kind |-> "array", slots |-> slots] = [kind |-> "array", slots |-> s]
    BY <2>1, ArrayContents DEF Holds, Store!Array
  <2>3. QED
    BY <2>1, <2>2
<1>3. DOMAIN slots \cup {i} = 0 .. b.length - 1
  BY <1>1, <1>2
<1>4. ASSUME NEW j \in 0 .. b.length - 1
      PROVE  b.slot[j] = IF j = i THEN ref ELSE slots[j]
  <2>1. j # i => j \in 0 .. a.length - 1
    BY <1>1
  <2>2. QED
    BY <1>2, <2>1
<1>5. [j \in 0 .. b.length - 1 |-> b.slot[j]] = Store!Bind(slots, i, ref)
  BY <1>3, <1>4 DEF Store!Bind
<1>6. QED
  BY <1>5, ArrayContents DEF Holds, Store!Array

(* A slot below the length is looked up; any other reads NIL.                *)
LEMMA SlotLooksUp ==
    ASSUME NEW a, SoundArray(a), NEW slots, Holds(a, "array", slots)
    PROVE  /\ DOMAIN slots = 0 .. a.length - 1
           /\ \A i \in Int : i >= 0 => GetSlot(a, i) = Store!Lookup(slots, i)
           /\ \A i \in Nat : Store!Lookup(slots, i) = IF i < a.length THEN a.slot[i] ELSE NIL
<1>1. a.length \in Nat
  BY SizeAssumption DEF SoundArray, IsArrayObject, IsObject, IsSlotted
<1>2. slots = [j \in 0 .. a.length - 1 |-> a.slot[j]]
  <2>1. PICK s : s = [j \in 0 .. a.length - 1 |-> a.slot[j]]
    OBVIOUS
  <2>2. [kind |-> "array", slots |-> slots] = [kind |-> "array", slots |-> s]
    BY <2>1, ArrayContents DEF Holds, Store!Array
  <2>3. QED
    BY <2>1, <2>2
<1>3. QED
  BY <1>1, <1>2 DEF GetSlot, Store!Lookup

(* How an array is stored, and that a step that leaves the heap alone leaves *)
(* the store alone.                                                          *)
LEMMA ArrayStored ==
    ASSUME IInv, NEW obj, IsArray(obj)
    PROVE  /\ obj \in Live /\ SoundArray(heap[obj]) /\ obj \in Store!Objects("array")
           /\ \E slots : Holds(heap[obj], "array", slots) /\ StoredObjects[obj].slots = slots
<1>1. /\ SoundArray(heap[obj]) /\ obj \in Store!Objects("array")
      /\ StoredObjects[obj] = Contents(heap[obj])
  BY StoredKinds
<1>2. obj \in Live
  BY DEF IsArray, Live
<1>3. PICK slots : Contents(heap[obj]) = [kind |-> "array", slots |-> slots]
  BY <1>1, ArrayContents DEF Store!Array
<1>4. StoredObjects[obj].slots = slots
  BY <1>1, <1>3
<1>5. QED
  BY <1>1, <1>2, <1>3, <1>4 DEF Holds

(* A heap that stays stores what it stored.                                  *)
LEMMA StoreStays == UNCHANGED heap => UNCHANGED StoredObjects
  BY DEF StoredObjects, Live

(* Adding a slot appends to the sequence, or is refused by both.             *)
LEMMA AddArraySlotStores ==
    ASSUME IInv, NEW obj, NEW value \in Ref, AddArraySlot(obj, value),
           IsArray(obj) => Room(heap[obj]), call' = Call("AddArraySlot", obj, NIL, value)
    PROVE  Store!AddArraySlot(obj, value)
<1>1. CallByName' = Store!Call("AddArraySlot", obj, NIL, value)
  BY DEF CallByName, Call, Store!Call
<1>2. CASE ~IsArray(obj)
  BY <1>1, <1>2, StoreStays, StoredKinds
     DEF AddArraySlot, Return, Store!AddArraySlot, Store!Answer, Store!Throw, Throw
<1>3. CASE IsArray(obj)
  <2>1. PICK a : a = heap[obj]
    OBVIOUS
  <2>2. SoundArray(a) /\ obj \in Live /\ obj \in Store!Objects("array")
    BY <1>3, <2>1, ArrayStored
  <2>3. PICK slots : Holds(a, "array", slots) /\ StoredObjects[obj].slots = slots
    BY <1>3, <2>1, ArrayStored
  <2>4. a.length \in Nat /\ a.length + 1 < SizeLimit /\ AddSlotAsserts(a)
    BY <1>3, <2>1, <2>2, RoomForOne, SizeAssumption
       DEF Room, SoundArray, IsArrayObject, IsObject, IsSlotted
  <2>5. PICK b : b = AddSlot(a, value)
    OBVIOUS
  <2>6. heap' = [heap EXCEPT ![obj] = b] /\ answer' = Index(a.length)
    BY <1>3, <2>1, <2>4, <2>5 DEF AddArraySlot, Return
  <2>7. /\ SoundArray(b) /\ b.length = a.length + 1
        /\ \A i \in 0 .. a.length - 1 : b.slot[i] = a.slot[i]
        /\ b.slot[a.length] = value
    BY <2>2, <2>4, <2>5, ArrayAddSlot
  <2>8. \A j \in 0 .. b.length - 1 : b.slot[j] = IF j = a.length THEN value ELSE a.slot[j]
    BY <2>4, <2>7
  <2>9. PICK bound : bound = Store!Bind(slots, a.length, value)
    OBVIOUS
  <2>10. a.length \in 0 .. a.length
    BY <2>4
  <2>11. Holds(b, "array", bound)
    BY <2>2, <2>3, <2>7, <2>8, <2>9, <2>10, SlotBinds
  <2>12. Writes(obj, bound)
    BY <2>1, <2>2, <2>3, <2>6, <2>7, <2>11, Written
  <2>13. Store!Size(obj) = a.length
    BY <1>3, <2>1, StoredSize
  <2>14. a.length + 1 \in 0 .. SizeLimit - 1
    BY <2>4, SizeAssumption
  <2>15. QED
    BY <1>1, <2>2, <2>3, <2>6, <2>9, <2>12, <2>13, <2>14
       DEF Store!AddArraySlot, Store!Write, Writes, Store!Index, Index
<1>4. QED
  BY <1>2, <1>3

(* Reading a slot reads the sequence; behind its end both throw.             *)
LEMMA GetArraySlotStores ==
    ASSUME IInv, NEW obj, NEW i \in Int, i >= 0, GetArraySlot(obj, i),
           call' = Call("GetArraySlot", obj, i, NIL)
    PROVE  Store!GetArraySlot(obj, i)
<1>1. CallByName' = Store!Call("GetArraySlot", obj, i, NIL)
  BY DEF CallByName, Call, Store!Call
<1>2. CASE ~IsArray(obj)
  BY <1>1, <1>2, StoreStays, StoredKinds
     DEF GetArraySlot, Return, Store!GetArraySlot, Store!Answer, Store!Value, Value
<1>3. CASE IsArray(obj)
  <2>1. PICK a : a = heap[obj]
    OBVIOUS
  <2>2. SoundArray(a) /\ obj \in Live /\ obj \in Store!Objects("array")
    BY <1>3, <2>1, ArrayStored
  <2>3. PICK slots : Holds(a, "array", slots) /\ StoredObjects[obj].slots = slots
    BY <1>3, <2>1, ArrayStored
  <2>4. UNCHANGED heap /\ answer' = Value(GetSlot(a, i))
    BY <1>3, <2>1 DEF GetArraySlot, GetSlotAsserts, Return
  <2>5. GetSlot(a, i) = Store!Lookup(slots, i)
    BY <2>2, <2>3, SlotLooksUp
  <2>6. QED
    BY <1>1, <2>2, <2>3, <2>4, <2>5, StoreStays
       DEF Store!GetArraySlot, Store!Answer, Store!Value, Value
<1>4. QED
  BY <1>2, <1>3

(* Writing a slot writes the sequence.                                       *)
LEMMA SetArraySlotStores ==
    ASSUME IInv, NEW obj, NEW i, NEW value \in Ref, SetArraySlot(obj, i, value),
           IsArray(obj) => i \in 0 .. heap[obj].length - 1,
           call' = Call("SetArraySlot", obj, i, value)
    PROVE  Store!SetArraySlot(obj, i, value)
<1>1. CallByName' = Store!Call("SetArraySlot", obj, i, value)
  BY DEF CallByName, Call, Store!Call
<1>2. CASE ~IsArray(obj)
  BY <1>1, <1>2, StoreStays, StoredKinds
     DEF SetArraySlot, Return, Store!SetArraySlot, Store!Answer, Store!Void, Void
<1>3. CASE IsArray(obj)
  <2>1. PICK a : a = heap[obj]
    OBVIOUS
  <2>2. SoundArray(a) /\ obj \in Live /\ obj \in Store!Objects("array")
    BY <1>3, <2>1, ArrayStored
  <2>3. PICK slots : Holds(a, "array", slots) /\ StoredObjects[obj].slots = slots
    BY <1>3, <2>1, ArrayStored
  <2>4. a.length \in Nat /\ i \in 0 .. a.length - 1
    BY <1>3, <2>1, <2>2, SizeAssumption DEF SoundArray, IsArrayObject, IsObject, IsSlotted
  <2>5. PICK b : b = SetSlot(a, i, value)
    OBVIOUS
  <2>6. heap' = [heap EXCEPT ![obj] = b] /\ answer' = Void
    BY <1>3, <2>1, <2>4, <2>5 DEF SetArraySlot, SetSlotAsserts, Return
  <2>7. SoundArray(b)
    BY <2>2, <2>4, <2>5, ArraySetSlot
  <2>8. /\ b.length = a.length
        /\ \A j \in 0 .. a.length - 1 : b.slot[j] = IF j = i THEN value ELSE a.slot[j]
    <3>1. IsSlotted(a) /\ Sound(a)
      BY <2>2 DEF SoundArray, IsArrayObject, IsObject
    <3>2. QED
      BY <2>4, <2>5, <3>1, StoredSlot
  <2>9. PICK bound : bound = Store!Bind(slots, i, value)
    OBVIOUS
  <2>10. i \in 0 .. a.length /\ i # a.length
    BY <2>4
  <2>11. Holds(b, "array", bound)
    BY <2>2, <2>3, <2>7, <2>8, <2>9, <2>10, SlotBinds
  <2>12. Writes(obj, bound)
    BY <2>1, <2>2, <2>3, <2>6, <2>7, <2>11, Written
  <2>13. DOMAIN slots = 0 .. a.length - 1
    BY <2>2, <2>3, SlotLooksUp
  <2>14. QED
    BY <1>1, <2>2, <2>3, <2>4, <2>6, <2>9, <2>12, <2>13
       DEF Store!SetArraySlot, Store!Write, Writes, Store!Void, Void
<1>4. QED
  BY <1>2, <1>3

(* A new length cuts the sequence, or fills it with NIL.                     *)
LEMMA SetArrayLengthStores ==
    ASSUME IInv, NEW obj, NEW n \in Nat, n < SizeLimit, SetArrayLength(obj, n),
           call' = Call("SetArrayLength", obj, n, NIL)
    PROVE  Store!SetArrayLength(obj, n)
<1>1. CallByName' = Store!Call("SetArrayLength", obj, n, NIL)
  BY DEF CallByName, Call, Store!Call
<1>2. PICK a : a = heap[obj]
  OBVIOUS
<1>3. IsArray(obj)
  BY DEF SetArrayLength
<1>4. SoundArray(a) /\ obj \in Live /\ obj \in Store!Objects("array")
  BY <1>2, <1>3, ArrayStored
<1>5. PICK slots : Holds(a, "array", slots) /\ StoredObjects[obj].slots = slots
  BY <1>2, <1>3, ArrayStored
<1>6. SetLengthAsserts(a, n)
  BY <1>4, LengthInRange DEF SoundArray, IsArrayObject, IsObject
<1>7. PICK b : b = SetLength(a, n)
  OBVIOUS
<1>8. heap' = [heap EXCEPT ![obj] = b] /\ answer' = Void
  BY <1>2, <1>3, <1>6, <1>7 DEF SetArrayLength, Return
<1>9. /\ SoundArray(b) /\ b.length = n
      /\ \A i \in 0 .. n - 1 : b.slot[i] = IF i < a.length THEN a.slot[i] ELSE NIL
  BY <1>4, <1>6, <1>7, ArraySetLength
<1>10. \A i \in 0 .. n - 1 : b.slot[i] = Store!Lookup(slots, i)
  <2>1. \A i \in 0 .. n - 1 : i \in Nat
    OBVIOUS
  <2>2. QED
    BY <1>4, <1>5, <1>9, <2>1, SlotLooksUp
<1>11. PICK resized : resized = [i \in 0 .. n - 1 |-> Store!Lookup(slots, i)]
  OBVIOUS
<1>12. Holds(b, "array", resized)
  <2>1. [i \in 0 .. b.length - 1 |-> b.slot[i]] = resized
    BY <1>9, <1>10, <1>11
  <2>2. QED
    BY <1>9, <2>1, ArrayContents DEF Holds, Store!Array
<1>13. Writes(obj, resized)
  BY <1>2, <1>4, <1>5, <1>8, <1>9, <1>12, Written
<1>14. QED
  BY <1>1, <1>4, <1>5, <1>8, <1>11, <1>13
     DEF Store!SetArrayLength, Store!Write, Writes, Store!Void, Void

(* Whatever the client does with an array is a step of the store.            *)
LEMMA UseArrayStores ==
    ASSUME IInv, NEW obj \in Targets \cap Held, UseArray(obj)
    PROVE  Store!Next
<1>1. Values \subseteq Ref /\ Positions \subseteq Int /\ Lengths \subseteq Nat
  BY ClientAssumption
<1>2. ASSUME NEW value \in Values \cap Held, IsArray(obj) => Room(heap[obj]),
             AddArraySlot(obj, value), call' = Call("AddArraySlot", obj, NIL, value)
      PROVE  Store!Next
  BY <1>1, <1>2, AddArraySlotStores DEF Store!Next
<1>3. ASSUME NEW i \in Positions, i >= 0, GetArraySlot(obj, i),
             call' = Call("GetArraySlot", obj, i, NIL)
      PROVE  Store!Next
  BY <1>1, <1>3, GetArraySlotStores DEF Store!Next
<1>4. ASSUME NEW i \in Positions, NEW value \in Values \cap Held,
             IsArray(obj) => i \in 0 .. heap[obj].length - 1,
             SetArraySlot(obj, i, value), call' = Call("SetArraySlot", obj, i, value)
      PROVE  Store!Next
  BY <1>1, <1>4, SetArraySlotStores DEF Store!Next
<1>5. ASSUME NEW n \in Lengths, n < SizeLimit, SetArrayLength(obj, n),
             call' = Call("SetArrayLength", obj, n, NIL)
      PROVE  Store!Next
  <2>1. Store!SetArrayLength(obj, n)
    BY <1>1, <1>5, SetArrayLengthStores
  <2>2. n \in 0 .. SizeLimit - 1
    BY <1>1, <1>5, SizeAssumption
  <2>3. QED
    BY <2>1, <2>2 DEF Store!Next
<1>6. QED
  BY <1>2, <1>3, <1>4, <1>5 DEF UseArray

(* The initial state is the store's, and every step is one of the store's,   *)
(* or changes nothing of it.                                                 *)
LEMMA InitStores == DisciplinedInit => Store!Init
<1> SUFFICES ASSUME DisciplinedInit
             PROVE  Store!Init
  OBVIOUS
<1>1. StoredObjects = [p \in Ptrs |-> NoObject]
  BY DEF DisciplinedInit, Init, StoredObjects, Live
<1>2. CallByName = Store!Call("none", NIL, NIL, NIL)
  BY DEF DisciplinedInit, Call, CallByName, Store!Call
<1>3. QED
  BY <1>1, <1>2 DEF DisciplinedInit, Init, Store!Init, Store!Void, Void

(* Every step of the client is a step of the store, or a stutter.            *)
LEMMA StepStores ==
    IInv /\ DisciplineSurvives' /\ [DisciplinedNext]_<<vars, call>> => [Store!Next]_(Store!vars)
<1> SUFFICES ASSUME IInv, DisciplineSurvives', [DisciplinedNext]_<<vars, call>>
             PROVE  [Store!Next]_(Store!vars)
  OBVIOUS
<1>1. CASE DisciplinedNext
  BY <1>1, NewObjectStores, UseFrameStores, UseArrayStores DEF DisciplinedNext
<1>2. CASE UNCHANGED <<vars, call>>
  <2>1. UNCHANGED <<heap, answer, call>>
    BY <1>2 DEF vars
  <2>2. UNCHANGED <<StoredObjects, CallByName, answer>>
    BY <2>1, StoreStays DEF CallByName
  <2>3. QED
    BY <2>2 DEF Store!vars
<1>3. QED
  BY <1>1, <1>2

(* Frames are dictionaries by name and arrays are sequences: what a client   *)
(* that keeps to its contract stores is what it reads, under any symbol with *)
(* the name, and a call changes no other object, for every number of objects *)
(* and symbols, every size limit and every policy of growth.                 *)
THEOREM Implements == DisciplinedSpec => ImplementsStore
<1>1. DisciplinedInit => Store!Init
  BY InitStores
<1>2. IInv /\ DisciplineSurvives' /\ [DisciplinedNext]_<<vars, call>> => [Store!Next]_(Store!vars)
  BY StepStores
<1>3. QED
  BY <1>1, <1>2, DisciplinedInvariance, PTL DEF DisciplinedSpec, ImplementsStore, Store!Spec
=============================================================================
