-------------------------- MODULE DisciplinedHeap ---------------------------
(***************************************************************************)
(* ObjectHeap driven by a client that keeps to its contract, and what such *)
(* a client sees: an ObjectStore.  The contract is the way the NSOF reader *)
(* (stream.cpp 178-189) and the package conversion (part_data.cpp 648-682) *)
(* use the heap for frames whose tags differ: each tag is set once, slots  *)
(* of frames are named by symbols, indices are in range, and no object     *)
(* reaches the 24 bit size.                                                *)
(***************************************************************************)
EXTENDS ObjectHeap

VARIABLE call   \* the last call, which its answer is an answer to

Call(op, obj, key, ref) == [op |-> op, obj |-> obj, key |-> key, ref |-> ref]

DisciplinedInit == Init /\ call = Call("none", NIL, NIL, NIL)

NewObject ==
    \/ AllocateFrame /\ call' = Call("AllocateFrame", NIL, NIL, NIL)
    \/ \E class \in Classes :
          \/ AllocateEmptyArray(class) /\ call' = Call("AllocateArray", NIL, 0, class)
          \/ \E n \in Lengths :
                /\ n < SizeLimit
                /\ AllocateArray(class, n)
                /\ call' = Call("AllocateArray", NIL, n, class)

UseFrame(obj) ==
    \E tag \in Symbols :
       \/ \E value \in Values \cap Held :
             /\ IsFrame(obj) => Room(heap[obj].head) /\ ~HasTag(heap[obj], tag)
             /\ SetFrameSlot(obj, tag, value)
             /\ call' = Call("SetFrameSlot", obj, tag, value)
       \/ GetFrameSlot(obj, tag) /\ call' = Call("GetFrameSlot", obj, tag, NIL)

UseArray(obj) ==
    \/ \E value \in Values \cap Held :
          /\ IsArray(obj) => Room(heap[obj])
          /\ AddArraySlot(obj, value)
          /\ call' = Call("AddArraySlot", obj, NIL, value)
    \/ \E i \in Positions :
          /\ i >= 0
          /\ GetArraySlot(obj, i)
          /\ call' = Call("GetArraySlot", obj, i, NIL)
    \/ \E i \in Positions, value \in Values \cap Held :
          /\ IsArray(obj) => i \in 0 .. heap[obj].length - 1
          /\ SetArraySlot(obj, i, value)
          /\ call' = Call("SetArraySlot", obj, i, value)
    \/ \E n \in Lengths :
          /\ n < SizeLimit
          /\ SetArrayLength(obj, n)
          /\ call' = Call("SetArrayLength", obj, n, NIL)

DisciplinedNext ==
    /\ status = "running"
    /\ NewObject \/ \E obj \in Targets \cap Held : UseFrame(obj) \/ UseArray(obj)

DisciplinedSpec == DisciplinedInit /\ [][DisciplinedNext]_<<vars, call>>

-----------------------------------------------------------------------------
(* No sequence of such calls ends the program: every assertion of            *)
(* objects.cpp on the way holds.                                             *)
DisciplineSurvives == status = "running"

(* The contents of an object as a client sees them.                          *)
Contents(o) ==
    IF o.tag = "array"
    THEN [kind |-> "array", slots |-> [i \in 0 .. o.length - 1 |-> o.slot[i]]]
    ELSE LET Tagged(name) == {i \in 1 .. o.head.length - 1 : NameOf[o.head.slot[i]] = name}
             bound == {name \in Names : Tagged(name) # {}}
         IN  [kind |-> "frame", slots |-> [name \in bound |->
                                 o.slot[(CHOOSE i \in Tagged(name) : TRUE) - 1]]]

StoredObjects == [p \in Ptrs |-> IF p \in Live THEN Contents(heap[p]) ELSE NoObject]

CallByName ==
    IF call.op \in {"SetFrameSlot", "GetFrameSlot"}
    THEN [call EXCEPT !.key = NameOf[call.key]]
    ELSE call

Store == INSTANCE ObjectStore WITH
    Sizes <- 0 .. SizeLimit - 1,
    store <- StoredObjects,
    call  <- CallByName,
    reply <- answer

(* For such a client frames are dictionaries keyed by name and arrays are    *)
(* sequences: what is stored is what is read, under any symbol with the      *)
(* name, and the rest of the heap is as it was, across every reallocation.   *)
ImplementsStore == Store!Spec
=============================================================================
