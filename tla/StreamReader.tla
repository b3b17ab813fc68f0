---------------------------- MODULE StreamReader ----------------------------
(***************************************************************************)
(* The reader of Newton Streamed Object Format, src/src/io/stream.cpp.     *)
(* read_next_ calls itself for the parts of an object; the activations are *)
(* on the stack "calls" and "value" is what the last one returned.  Every  *)
(* object gets the next precedent ID before its parts are read, so that    *)
(* the parts can refer to it.  A stream is a sequence of tokens: the tag   *)
(* byte with the numbers that belong to it.  Objects are those of          *)
(* SlottedObjects.                                                         *)
(***************************************************************************)
EXTENDS FreshObjects, Sequences, FiniteSets

CONSTANTS
    Streams,        \* the contents of files
    NoRef,          \* no value has been returned
    ArrayClass,     \* gSymObjArray
    StringClass     \* gSymObjString

VARIABLES
    stream, pos,    \* bytes_ and its position
    precedent,      \* precedent_: precedent[k + 1] has ID k
    heap,           \* the objects made
    calls,          \* activations of read_next_, the innermost last
    value,          \* what the last activation returned
    status          \* "closed", "open", "reading", "read", or how the program died

vars == <<stream, pos, precedent, heap, calls, value, status>>

Token(tag, val) == [tag |-> tag, val |-> val]

ObjectTags == {"binary", "array", "plainArray", "frame", "symbol", "string"}

(* An activation that waits for the class, for slot i of n, or for tag i.   *)
Call(stage, ref, id, i, n) == [stage |-> stage, ref |-> ref, id |-> id, i |-> i, n |-> n]

NewSymbol(name) == FreshSymbol(name, {precedent[k] : k \in DOMAIN precedent})

(* Newton's tag of an integer is 00 and of a pointer 01, Dyne's the reverse; *)
(* the 32 bits are then taken for an address, without sign.                  *)
StreamImmediate(imm) ==
    IF (imm \div 2) % 2 = 0
    THEN IF imm % 2 = 0 THEN imm + 1 ELSE imm - 1
    ELSE imm

Character(code) == code * 16 + 6

ImmediateOf(t) == IF t.tag = "char" THEN Character(t.val) ELSE StreamImmediate(t.val)

(* The version number is the first token, whatever it is; counts and IDs     *)
(* have no sign.                                                             *)
IsToken(t) ==
    /\ t.tag \in {"binary", "array", "plainArray", "frame", "precedent"} => t.val \in Nat
    /\ t.tag \in {"immediate", "char"} => ImmediateOf(t) \in Immediates

IsStream(s) ==
    /\ s \in Seq({s[k] : k \in DOMAIN s})
    /\ \A k \in DOMAIN s : IsToken(s[k]) /\ (k = 1 <=> s[k].tag = "version")

ASSUME StreamAssumption ==
    /\ \A s \in Streams : IsStream(s)
    /\ {ArrayClass, StringClass} \subseteq Symbols /\ NoRef \notin Ref

Init ==
    /\ stream = << >>
    /\ pos = 1
    /\ precedent = << >>
    /\ heap = [p \in Ptrs |-> NoObject]
    /\ calls = << >>
    /\ value = NoRef
    /\ status = "closed"

Open(contents) ==
    /\ status = "closed"
    /\ stream' = contents
    /\ pos' = 1
    /\ status' = "open"
    /\ UNCHANGED <<precedent, heap, calls, value>>

Die(how) == status' = how /\ UNCHANGED <<stream, pos, precedent, heap, calls, value>>

(* read(): the version number, then one object.  Nothing checks the end.    *)
Read ==
    /\ status = "open"
    /\ IF pos > Len(stream)
       THEN Die("read past the end")
       ELSE /\ pos' = pos + 1
            /\ IF stream[pos] = Token("version", 2)
               THEN status' = "reading" /\ UNCHANGED value
               ELSE status' = "read" /\ value' = NIL
            /\ UNCHANGED <<stream, precedent, heap, calls>>

-----------------------------------------------------------------------------
Top     == calls[Len(calls)]
Returns == SubSeq(calls, 1, Len(calls) - 1)
Replaced(call) == Append(Returns, call)

Reading == status = "reading" /\ value = NoRef
Advance == pos' = pos + 1 /\ UNCHANGED <<stream, status>>

TokenIs(tags) == Reading /\ pos <= Len(stream) /\ stream[pos].tag \in tags

Val == stream[pos].val

ReadPastEnd == Reading /\ pos > Len(stream) /\ Die("read past the end")

ReadImmediate ==
    /\ TokenIs({"immediate", "char"})
    /\ value' = ImmediateOf(stream[pos])
    /\ Advance /\ UNCHANGED <<precedent, heap, calls>>

ReadNil ==
    /\ TokenIs({"nil", "unsupported"})
    /\ value' = NIL
    /\ Advance /\ UNCHANGED <<precedent, heap, calls>>

ReadPrecedent ==
    /\ TokenIs({"precedent"})
    /\ IF Val < Len(precedent)
       THEN value' = precedent[Val + 1] /\ Advance /\ UNCHANGED <<precedent, heap, calls>>
       ELSE Die("precedent out of range")

ReadSymbol ==
    /\ TokenIs({"symbol"})
    /\ HasSymbol(Val, {precedent[k] : k \in DOMAIN precedent})
    /\ value' = NewSymbol(Val)
    /\ precedent' = Append(precedent, NewSymbol(Val))
    /\ Advance /\ UNCHANGED <<heap, calls>>

ReadString ==
    /\ TokenIs({"string"}) /\ HasRoom(heap)
    /\ value' = Fresh(heap)
    /\ heap' = [heap EXCEPT ![Fresh(heap)] = Binary(StringClass)]
    /\ precedent' = Append(precedent, Fresh(heap))
    /\ Advance /\ UNCHANGED calls

(* Faulty: the ID is taken after the class. *)
ReserveIdLate(tag) == UNCHANGED precedent

(* The ID of a binary or an array is reserved while its class is read.      *)
ReserveId(tag) == precedent' = Append(precedent, NIL)

ReadClassed ==
    /\ TokenIs({"binary", "array"})
    /\ ReserveId(stream[pos].tag)
    /\ calls' = Append(calls, Call(IF stream[pos].tag = "array" THEN "arrayClass" ELSE "binaryClass",
                                   NoRef, Len(precedent) + 1, 0, Val))
    /\ Advance /\ UNCHANGED <<heap, value>>

(* An object that has no part to wait for is returned at once.              *)
ReadUnclassed ==
    /\ TokenIs({"plainArray", "frame"}) /\ HasRoom(heap)
    /\ LET ref == Fresh(heap)
           stage == IF stream[pos].tag = "frame" THEN "tags" ELSE "slots"
       IN  /\ heap' = [heap EXCEPT ![ref] =
                          IF stage = "tags" THEN NewFrame ELSE NewArray(ArrayClass, Val)]
           /\ precedent' = Append(precedent, ref)
           /\ IF Val > 0
              THEN /\ calls' = Append(calls, Call(stage, ref, Len(precedent) + 1, 0, Val))
                   /\ UNCHANGED value
              ELSE value' = ref /\ UNCHANGED calls
    /\ Advance

-----------------------------------------------------------------------------
(* The innermost activation gets the value it waits for.                    *)
Waiting(stage) ==
    status = "reading" /\ value # NoRef /\ calls # << >> /\ Top.stage = stage

Local == UNCHANGED <<stream, pos, status>>

(* Faulty: the object is not entered under its ID. *)
FillIdNot(id, ref) == UNCHANGED precedent

FillId(id, ref) == precedent' = [precedent EXCEPT ![id] = ref]

GetBinaryClass ==
    /\ Waiting("binaryClass") /\ HasRoom(heap)
    /\ heap' = [heap EXCEPT ![Fresh(heap)] = Binary(value)]
    /\ FillId(Top.id, Fresh(heap))
    /\ value' = Fresh(heap)
    /\ calls' = Returns
    /\ Local

GetArrayClass ==
    /\ Waiting("arrayClass") /\ HasRoom(heap)
    /\ LET ref == Fresh(heap)
       IN  /\ heap' = [heap EXCEPT ![ref] = NewArray(value, Top.n)]
           /\ FillId(Top.id, ref)
           /\ IF Top.n > 0
              THEN calls' = Replaced(Call("slots", ref, Top.id, 0, Top.n)) /\ value' = NoRef
              ELSE calls' = Returns /\ value' = ref
    /\ Local

(* Faulty: the last part is not waited for. *)
MoreShort(stage, i) ==
    IF i + 1 < Top.n
    THEN calls' = Replaced(Call(stage, Top.ref, Top.id, i, Top.n)) /\ value' = NoRef
    ELSE calls' = Returns /\ value' = Top.ref

(* After the last part, the activation returns its object. *)
More(stage, i) ==
    IF i < Top.n
    THEN calls' = Replaced(Call(stage, Top.ref, Top.id, i, Top.n)) /\ value' = NoRef
    ELSE calls' = Returns /\ value' = Top.ref

GetSlotValue ==
    /\ Waiting("slots")
    /\ IF SetSlotAsserts(heap[Top.ref], Top.i)
       THEN /\ heap' = [heap EXCEPT ![Top.ref] = SetSlot(heap[Top.ref], Top.i, value)]
            /\ More("slots", Top.i + 1)
            /\ Local /\ UNCHANGED precedent
       ELSE Die("SetSlot assert")

(* SetFrameSlot(frame, tag, NIL) throws when the tag is not a symbol, and     *)
(* asserts when the first tag comes again.                                   *)
GetTag ==
    /\ Waiting("tags")
    /\ IF value \notin Symbols
       THEN Die("NotASymbol")
       ELSE IF ~FrameSetSlotAsserts(heap[Top.ref], value)
       THEN Die("Frame::SetSlot assert")
       ELSE /\ heap' = [heap EXCEPT ![Top.ref] = FrameSetSlot(heap[Top.ref], value, NIL)]
            /\ calls' = Replaced(IF Top.i + 1 < Top.n
                                 THEN Call("tags", Top.ref, Top.id, Top.i + 1, Top.n)
                                 ELSE Call("slots", Top.ref, Top.id, 0, Top.n))
            /\ value' = NoRef
            /\ Local /\ UNCHANGED precedent

Finish ==
    /\ status = "reading" /\ value # NoRef /\ calls = << >>
    /\ status' = "read"
    /\ UNCHANGED <<stream, pos, precedent, heap, calls, value>>

ReadStep ==
    \/ Read \/ ReadPastEnd \/ ReadImmediate \/ ReadNil \/ ReadPrecedent \/ ReadSymbol
    \/ ReadString \/ ReadClassed \/ ReadUnclassed
    \/ GetBinaryClass \/ GetArrayClass \/ GetSlotValue \/ GetTag \/ Finish

Next == ReadStep \/ (status = "closed" /\ \E contents \in Streams : Open(contents))

Spec == Init /\ [][Next]_vars

-----------------------------------------------------------------------------
Deaths ==
    {"read past the end", "precedent out of range", "SetSlot assert",
     "Frame::SetSlot assert", "NotASymbol"}

Stages == {"binaryClass", "arrayClass", "tags", "slots"}

(* Every variable has its type.                                             *)
TypeOK ==
    /\ pos \in 1 .. Len(stream) + 1
    /\ \A k \in DOMAIN precedent : precedent[k] \in Ref
    /\ \A p \in Ptrs : heap[p] = NoObject \/ IsFrameObject(heap[p])
                       \/ (IsObject(heap[p]) /\ heap[p].head \in Ref)
    /\ \A k \in DOMAIN calls : calls[k].stage \in Stages /\ calls[k].id \in DOMAIN precedent
    /\ value \in Ref \cup {NoRef}
    /\ status \in {"closed", "open", "reading", "read"} \cup Deaths

(* An ID leads to the object that was given it, except that the object of a  *)
(* binary or an array does not exist while its class is being read: those    *)
(* activations, and no others, have an ID that reads NIL.                    *)
Holes == {k \in DOMAIN precedent : precedent[k] = NIL}

HolesAreOpen ==
    Holes = {calls[k].id : k \in {j \in DOMAIN calls :
                                     calls[j].stage \in {"binaryClass", "arrayClass"}}}

(* The objects of a stream are numbered in the order their tags appear in    *)
(* the stream, however they are nested: the writer numbers them so.          *)
ObjectsRead == {k \in 1 .. pos - 1 : stream[k].tag \in ObjectTags}

IdsInOrder == Len(precedent) = Cardinality(ObjectsRead)

(* When a read has come to its end, all slots that were counted were filled: *)
(* no array or frame is left half read, malformed as the stream may be.  (An *)
(* immediate of the stream may look like a slot that was never filled.)      *)
HasNoUnref ==
    \A k \in DOMAIN stream : stream[k].tag \in {"immediate", "char"} => ImmediateOf(stream[k]) # UNREF

NothingHalfRead ==
    status = "read" /\ HasNoUnref =>
        \A p \in Ptrs : heap[p] # NoObject =>
            \A i \in 0 .. heap[p].length - 1 : heap[p].slot[i] # UNREF
=============================================================================
