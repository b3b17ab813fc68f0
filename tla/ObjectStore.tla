---------------------------- MODULE ObjectStore -----------------------------
(***************************************************************************)
(* What the object system promises a client that keeps to its contract:    *)
(* a frame is a dictionary from names to Refs, an array is a finite        *)
(* sequence of Refs, and a call touches the one object it names.  There    *)
(* are no reserves, no maps, no symbol objects and no crashes.             *)
(***************************************************************************)
EXTENDS Integers

CONSTANTS
    Ptrs, Names, NIL, UNREF, NoObject,
    Sizes,      \* the lengths an array may have
    Targets,    \* the Refs clients call operations on
    Classes,    \* the classes they give arrays
    Values,     \* the Refs they store
    Positions   \* the slot indices they use

VARIABLES
    store,  \* the dictionary or sequence at each address
    call,   \* the last call
    reply   \* and what it returned or threw

vars == <<store, call, reply>>

Call(op, obj, key, ref) == [op |-> op, obj |-> obj, key |-> key, ref |-> ref]

Void       == [kind |-> "void", val |-> "none"]
Value(ref) == [kind |-> "ref", val |-> ref]
Index(i)   == [kind |-> "index", val |-> i]
Throw(err) == [kind |-> "throw", val |-> err]

Frame(slots) == [kind |-> "frame", slots |-> slots]
Array(slots) == [kind |-> "array", slots |-> slots]

Objects(kind) == {p \in Ptrs : store[p] # NoObject /\ store[p].kind = kind}

Init ==
    /\ store = [p \in Ptrs |-> NoObject]
    /\ call = Call("none", NIL, NIL, NIL)
    /\ reply = Void

-----------------------------------------------------------------------------
Answer(a) == reply' = a /\ UNCHANGED store

Write(p, slots, a) ==
    /\ store' = [store EXCEPT ![p].slots = slots]
    /\ reply' = a

Bind(slots, k, ref) ==
    [j \in DOMAIN slots \cup {k} |-> IF j = k THEN ref ELSE slots[j]]

Lookup(slots, k) == IF k \in DOMAIN slots THEN slots[k] ELSE NIL

Size(p) == CHOOSE n \in Sizes : DOMAIN store[p].slots = 0 .. n - 1

New(object) ==
    \E p \in Ptrs :
        /\ store[p] = NoObject
        /\ store' = [store EXCEPT ![p] = object]
        /\ reply' = Value(p)

AllocateFrame ==
    /\ call' = Call("AllocateFrame", NIL, NIL, NIL)
    /\ New(Frame([name \in {} |-> NIL]))

AllocateArray(class, n) ==
    /\ call' = Call("AllocateArray", NIL, n, class)
    /\ New(Array([i \in 0 .. n - 1 |-> UNREF]))

SetFrameSlot(obj, name, ref) ==
    /\ call' = Call("SetFrameSlot", obj, name, ref)
    /\ IF obj \in Objects("frame")
       THEN Write(obj, Bind(store[obj].slots, name, ref), Void)
       ELSE Answer(Throw("NotAFrame"))

GetFrameSlot(obj, name) ==
    /\ call' = Call("GetFrameSlot", obj, name, NIL)
    /\ Answer(IF obj \in Objects("frame") THEN Value(Lookup(store[obj].slots, name))
                                          ELSE Throw("NotAFrame"))

AddArraySlot(obj, ref) ==
    /\ call' = Call("AddArraySlot", obj, NIL, ref)
    /\ IF obj \in Objects("array")
       THEN /\ Size(obj) + 1 \in Sizes
            /\ Write(obj, Bind(store[obj].slots, Size(obj), ref), Index(Size(obj)))
       ELSE Answer(Throw("NotAnArray"))

GetArraySlot(obj, i) ==
    /\ call' = Call("GetArraySlot", obj, i, NIL)
    /\ Answer(Value(IF obj \in Objects("array") THEN Lookup(store[obj].slots, i) ELSE NIL))

SetArraySlot(obj, i, ref) ==
    /\ call' = Call("SetArraySlot", obj, i, ref)
    /\ IF obj \in Objects("array")
       THEN i \in DOMAIN store[obj].slots /\ Write(obj, Bind(store[obj].slots, i, ref), Void)
       ELSE Answer(Void)

(* A longer array has the old slots and then NIL, also where it was longer  *)
(* before.                                                                  *)
SetArrayLength(obj, n) ==
    /\ call' = Call("SetArrayLength", obj, n, NIL)
    /\ obj \in Objects("array")
    /\ Write(obj, [i \in 0 .. n - 1 |-> Lookup(store[obj].slots, i)], Void)

Next ==
    \/ AllocateFrame
    \/ \E class \in Classes, n \in Sizes : AllocateArray(class, n)
    \/ \E obj \in Targets :
          \/ \E name \in Names :
                \/ GetFrameSlot(obj, name)
                \/ \E ref \in Values : SetFrameSlot(obj, name, ref)
          \/ \E ref \in Values : AddArraySlot(obj, ref)
          \/ \E i \in Positions :
                \/ GetArraySlot(obj, i)
                \/ \E ref \in Values : SetArraySlot(obj, i, ref)
          \/ \E n \in Sizes : SetArrayLength(obj, n)

Spec == Init /\ [][Next]_vars
=============================================================================
