----------------------------- MODULE ObjectHeap -----------------------------
(***************************************************************************)
(* The public operations on arrays and frames (src/src/objects/objects.cpp *)
(* 285-442), called in any order by a client that keeps every Ref it got.  *)
(* The program has one thread; what is hard is a long sequence of calls.   *)
(* An assertion that fails and a null pointer that is followed end the     *)
(* program: "status" names the place, and the heap is left as it was.      *)
(***************************************************************************)
EXTENDS SlottedObjects

CONSTANTS
    Targets,    \* the Refs they call operations on
    Classes,    \* the symbols they give arrays as class
    Values,     \* the Refs clients store
    Lengths,    \* the lengths clients ask for
    Positions   \* the slot indices clients use

ASSUME ClientAssumption ==
    /\ Targets \subseteq Ref
    /\ Classes \subseteq Symbols
    /\ Values \subseteq Ref
    /\ Lengths \subseteq Nat
    /\ Positions \subseteq Int

VARIABLES
    heap,       \* what lives at each address
    answer,     \* what the last call returned or threw
    status      \* "running", or where the program died

vars == <<heap, answer, status>>

Void       == [kind |-> "void", val |-> "none"]
Value(ref) == [kind |-> "ref", val |-> ref]
Index(i)   == [kind |-> "index", val |-> i]
Throw(err) == [kind |-> "throw", val |-> err]

Errors == {"NotAFrame", "NotAnArray", "NotASymbol", "ObjectReadOnly"}

Deaths == {"SetLength assert", "SetSlot assert", "GetSlot assert",
           "Frame::SetSlot assert", "Frame::GetSlot assert", "null tag"}

IsAnswer(a) ==
    \/ a = Void
    \/ \E r \in Ref : a = Value(r)
    \/ a = Index(a.val) /\ a.val \in Nat
    \/ \E e \in Errors : a = Throw(e)

IsFrame(ref) == ref \in Ptrs /\ heap[ref] # NoObject /\ heap[ref].tag = "frame"
IsArray(ref) == ref \in Ptrs /\ heap[ref] # NoObject /\ heap[ref].tag = "array"

(* The objects there are, and the Refs a client can hold. *)
Live == {p \in Ptrs : heap[p] # NoObject}
Held == Immediates \cup Symbols \cup Live

Init ==
    /\ heap = [p \in Ptrs |-> NoObject]
    /\ answer = Void
    /\ status = "running"

-----------------------------------------------------------------------------
Return(a) == answer' = a /\ UNCHANGED status

Die(where) == status' = where /\ UNCHANGED <<heap, answer>>

Allocate(object) ==
    \E p \in Ptrs :
        /\ heap[p] = NoObject
        /\ heap' = [heap EXCEPT ![p] = object]
        /\ Return(Value(p))

AllocateFrame == Allocate(NewFrame)

AllocateArray(class, n) == Allocate(NewArray(class, n))

(* The constructor Array(class). *)
AllocateEmptyArray(class) == Allocate(NewEmptyArray(class))

(* The checks of SetFrameSlot, in their order. *)
SetFrameSlotError(obj, tag) ==
    IF ~IsFrame(obj) THEN {"NotAFrame"}
    ELSE IF IsReadOnly(ConstructorFlags) THEN {"ObjectReadOnly"}
    ELSE IF tag \notin Symbols THEN {"NotASymbol"}
    ELSE {}

SetFrameSlot(obj, tag, value) ==
    IF SetFrameSlotError(obj, tag) # {}
    THEN \E e \in SetFrameSlotError(obj, tag) : Return(Throw(e)) /\ UNCHANGED heap
    ELSE \/ /\ FrameSetSlotAsserts(heap[obj], tag)
            /\ heap' = [heap EXCEPT ![obj] = FrameSetSlot(heap[obj], tag, value)]
            /\ Return(Void)
         \/ /\ ~FrameSetSlotAsserts(heap[obj], tag)
            /\ Die(IF HasTag(heap[obj], tag) THEN "Frame::SetSlot assert"
                                             ELSE "SetLength assert")

(* GetFrameSlot does not check the tag: comparing a symbol of the map with an *)
(* immediate follows the null pointer that GetObject returns for it.          *)
GetFrameSlot(obj, tag) ==
    \/ /\ ~IsFrame(obj)
       /\ Return(Throw("NotAFrame")) /\ UNCHANGED heap
    \/ /\ IsFrame(obj)
       /\ tag \in Symbols
       /\ IF FrameGetSlotAsserts(heap[obj], tag)
          THEN Return(Value(FrameGetSlot(heap[obj], tag))) /\ UNCHANGED heap
          ELSE Die("Frame::GetSlot assert")
    \/ /\ IsFrame(obj)
       /\ tag \in Immediates
       /\ IF heap[obj].head.length > 1
          THEN Die("null tag")
          ELSE Return(Value(NIL)) /\ UNCHANGED heap

AddArraySlot(obj, value) ==
    \/ /\ ~IsArray(obj)
       /\ Return(Throw("NotAnArray")) /\ UNCHANGED heap
    \/ /\ IsArray(obj)
       /\ AddSlotAsserts(heap[obj])
       /\ heap' = [heap EXCEPT ![obj] = AddSlot(heap[obj], value)]
       /\ Return(Index(heap[obj].length))
    \/ /\ IsArray(obj)
       /\ ~AddSlotAsserts(heap[obj])
       /\ Die("SetLength assert")

GetArraySlot(obj, i) ==
    \/ /\ ~IsArray(obj)
       /\ Return(Value(NIL)) /\ UNCHANGED heap
    \/ /\ IsArray(obj)
       /\ GetSlotAsserts(heap[obj], i)
       /\ Return(Value(GetSlot(heap[obj], i))) /\ UNCHANGED heap
    \/ /\ IsArray(obj)
       /\ ~GetSlotAsserts(heap[obj], i)
       /\ Die("GetSlot assert")

SetArraySlot(obj, i, value) ==
    \/ /\ ~IsArray(obj)
       /\ Return(Void) /\ UNCHANGED heap
    \/ /\ IsArray(obj)
       /\ SetSlotAsserts(heap[obj], i)
       /\ heap' = [heap EXCEPT ![obj] = SetSlot(heap[obj], i, value)]
       /\ Return(Void)
    \/ /\ IsArray(obj)
       /\ ~SetSlotAsserts(heap[obj], i)
       /\ Die("SetSlot assert")

(* SlottedObject::SetLength is public; a shorter array keeps its memory. *)
SetArrayLength(obj, n) ==
    /\ IsArray(obj)
    /\ \/ /\ SetLengthAsserts(heap[obj], n)
          /\ heap' = [heap EXCEPT ![obj] = SetLength(heap[obj], n)]
          /\ Return(Void)
       \/ /\ ~SetLengthAsserts(heap[obj], n)
          /\ Die("SetLength assert")

(* Any client. *)
Next ==
    /\ status = "running"
    /\ \/ AllocateFrame
       \/ \E class \in Classes :
             \/ AllocateEmptyArray(class)
             \/ \E n \in Lengths : AllocateArray(class, n)
       \/ \E obj \in Targets \cap Held :
             \/ \E tag \in Symbols \cup Immediates, value \in Values \cap Held :
                   SetFrameSlot(obj, tag, value)
             \/ \E tag \in Symbols \cup Immediates : GetFrameSlot(obj, tag)
             \/ \E value \in Values \cap Held : AddArraySlot(obj, value)
             \/ \E i \in Positions : GetArraySlot(obj, i)
             \/ \E i \in Positions, value \in Values \cap Held : SetArraySlot(obj, i, value)
             \/ \E n \in Lengths : SetArrayLength(obj, n)

Spec == Init /\ [][Next]_vars

-----------------------------------------------------------------------------
(* Every variable has its type.                                              *)
TypeOK ==
    /\ DOMAIN heap = Ptrs
    /\ \A p \in Live : IsArrayObject(heap[p]) \/ IsFrameObject(heap[p])
    /\ IsAnswer(answer)
    /\ status \in {"running"} \cup Deaths

(* The slots an object uses, and those it counts as spare, are memory it     *)
(* owns: size_ and reserve_ never promise more than was allocated, whatever  *)
(* sequence of growing, shrinking and 24 bit truncation led there.  Every    *)
(* slot access of objects.cpp relies on it.                                  *)
MemorySafe ==
    \A p \in Live : /\ OwnsItsSlots(heap[p])
                    /\ IsFrame(p) => OwnsItsSlots(heap[p].head)

(* No slot in use holds what realloc left there: a slot is written before    *)
(* size_ lets a reader see it.                                               *)
NoGarbageInUse ==
    \A p \in Live : /\ Initialised(heap[p])
                    /\ IsFrame(p) => Initialised(heap[p].head)

(* A frame and its map stay in step: one tag for each slot, every tag a      *)
(* symbol, and no two tags the same symbol, so FindOffset is unambiguous.    *)
TagsMirrorSlots == \A p \in Live : IsFrame(p) => InStep(heap[p])

(* Reading a slot by tag never fails the assertion of objects.cpp:374,       *)
(* whatever was done to the frame before.                                    *)
TagReadsNeverAssert == status # "Frame::GetSlot assert"

(* objects.cpp:364 asserts that the slot to write lies in the frame.         *)
FrameSlotInRange == status # "Frame::SetSlot assert"
=============================================================================
