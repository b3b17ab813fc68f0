--------------------------- MODULE PartConversion ---------------------------
(***************************************************************************)
(* PartDataNOS::toNOS (src/src/io/package/part_data.cpp): the objects of a *)
(* package part, which refer to each other by their offsets, become a      *)
(* graph in the object system.  toNOS of an object calls refToNOS for each *)
(* of its references, which calls toNOS of the object there; an object     *)
(* remembers what it became when it is complete, and a mark that is still  *)
(* set before that stops the program.  The activations are on the stack    *)
(* "calls"; "pending" is the reference refToNOS was just called with, and  *)
(* "value" what the last call returned.  A reference is a number of Word   *)
(* values, and the last two of its bits are its tag, as in the package.    *)
(***************************************************************************)
EXTENDS FreshObjects, PartObjects, Sequences

CONSTANTS
    Parts,          \* a part is a function from offsets to objects
    NoRef,          \* no value
    NoCall,         \* refToNOS is not being called
    Word,           \* the number of values of a reference, 2^32
    StringName,     \* binaries of this class, and reals, are objects of their own
    StringClass,
    MaxRuns         \* bound: how often the client calls toNOS

VARIABLES
    part,           \* what load() read
    holes,          \* the null entries that operator[] added to object_list_
    marked,         \* the offsets of objects whose mark is set
    memo,           \* nos_object_ of each object
    heap, calls, pending, value,
    runs,           \* how often toNOS was called
    status          \* "idle", "converting", or how the program ended

vars == <<part, holes, marked, memo, heap, calls, pending, value, runs, status>>

Loaded(type, class, refs, name) ==
    [type |-> type, class |-> class, refs |-> refs, name |-> name]

Offsets == DOMAIN part

(* The first object in the list; holes are not in it when this is used. *)
Root == CHOOSE o \in Offsets : \A q \in Offsets : o <= q

Signed(ref) == IF ref >= Word \div 2 THEN ref - Word ELSE ref

(* refToNOS of anything but a pointer.  A magic pointer loses two bits of   *)
(* its index.                                                               *)
Immediate(ref) ==
    CASE ref % 4 = 0 -> (Signed(ref) \div 4) * 4 + 1
      [] ref % 4 = 2 -> ref
      [] ref % 4 = 3 -> (ref \div 16384) * 16384 + ((ref \div 16) % 4096) * 4 + 3

(* What load makes: it has read a type of two bits, words, and references    *)
(* for slotted objects only.  The first object is the root.                  *)
IsLoaded(o) ==
    /\ o.type \in 0 .. 3
    /\ o.class \in 0 .. Word - 1
    /\ o.refs \in Seq(0 .. Word - 1)
    /\ o.type \in {0, 2} => o.refs = << >>
    /\ Kind(o) # "symbol" =>
           \A ref \in {o.class} \cup {o.refs[i] : i \in DOMAIN o.refs} :
               ref % 4 # 1 => Immediate(ref) \in Immediates

IsPart(p) ==
    /\ DOMAIN p \subseteq Nat
    /\ \E o \in DOMAIN p : \A q \in DOMAIN p : o <= q
    /\ \A o \in DOMAIN p : IsLoaded(p[o])

ASSUME PartAssumption ==
    /\ \A p \in Parts : IsPart(p)
    /\ Word \in Nat \ {0} /\ Word % 4 = 0 /\ SymbolClass % 4 = 2
    /\ NoRef \notin Ref /\ NoCall \notin 0 .. Word - 1
    /\ StringClass \in Symbols
    /\ MaxRuns \in Nat

Call(at, stage, ref, tag, i) == [at |-> at, stage |-> stage, ref |-> ref, tag |-> tag, i |-> i]

Init ==
    /\ part \in Parts
    /\ holes = {}
    /\ marked = {}
    /\ memo = [o \in Offsets |-> NoRef]
    /\ heap = [p \in Ptrs |-> NoObject]
    /\ calls = << >>
    /\ pending = NoCall
    /\ value = NoRef
    /\ runs = 0
    /\ status = "idle"

Die(how) ==
    status' = how /\ UNCHANGED <<part, holes, marked, memo, heap, calls, pending, value, runs>>

-----------------------------------------------------------------------------
(* The client. *)
(* Every entry of the list is visited first.  The root must be an array     *)
(* with one slot; nothing checks it.  The slot is taken for a pointer,      *)
(* whatever its tag.                                                        *)
ToNOS ==
    /\ status = "idle" /\ runs < MaxRuns
    /\ IF holes # {} THEN Die("null object")
       ELSE IF Kind(part[Root]) \notin Slotted \/ part[Root].refs = << >> THEN Die("undefined")
       ELSE LET data == Place(part[Root].refs[1])
            IN  IF data \notin Offsets
                THEN Die("null object")
                ELSE /\ marked' = {Root}
                     /\ pending' = data + 1
                     /\ value' = NoRef
                     /\ runs' = runs + 1
                     /\ status' = "converting"
                     /\ UNCHANGED <<part, holes, memo, heap, calls>>

(* writeAsm and compare, too, visit every entry. *)
VisitAll == status = "idle" /\ holes # {} /\ Die("null object visited")

-----------------------------------------------------------------------------
Calling == status = "converting" /\ pending # NoCall

Return(ref) == value' = ref /\ pending' = NoCall

(* Faulty: the reference as it is in the package. *)
ConvertVerbatim ==
    /\ Calling /\ pending % 4 # 1
    /\ Return(pending)
    /\ UNCHANGED <<part, holes, marked, memo, heap, calls, runs, status>>

ConvertImmediate ==
    /\ Calling /\ pending % 4 # 1
    /\ Return(Immediate(pending))
    /\ UNCHANGED <<part, holes, marked, memo, heap, calls, runs, status>>

(* object_at adds the offset it does not find to the list. *)
ConvertDangling ==
    /\ Calling /\ pending % 4 = 1 /\ Place(pending) \notin Offsets
    /\ holes' = holes \cup {Place(pending)}
    /\ Return(UNREF)
    /\ UNCHANGED <<part, marked, memo, heap, calls, runs, status>>

ObjectAt(kinds) ==
    /\ Calling /\ pending % 4 = 1 /\ Place(pending) \in Offsets
    /\ Kind(part[Place(pending)]) \in kinds

(* Faulty: what an object became is looked up only if it is a binary. *)
RememberedBinaries(o) == memo[o] # NoRef /\ Kind(part[o]) = "binary"

Remembered(o) == memo[o] # NoRef

ReturnRemembered ==
    /\ ObjectAt(Slotted \cup {"binary", "symbol"})
    /\ Remembered(Place(pending))
    /\ Return(memo[Place(pending)])
    /\ UNCHANGED <<part, holes, marked, memo, heap, calls, runs, status>>

DiscoverRecursion ==
    /\ ObjectAt(Slotted \cup {"binary", "symbol"})
    /\ ~Remembered(Place(pending))
    /\ Place(pending) \in marked
    /\ Die("recursion")

Begins(kinds) ==
    /\ ObjectAt(kinds)
    /\ ~Remembered(Place(pending))
    /\ Place(pending) \notin marked
    /\ marked' = marked \cup {Place(pending)}

ConvertSymbol ==
    /\ Begins({"symbol"})
    /\ LET o      == Place(pending)
           used   == {memo[q] : q \in Offsets}
           symbol == FreshSymbol(part[o].name, used)
       IN  /\ HasSymbol(part[o].name, used)
           /\ memo' = [memo EXCEPT ![o] = symbol]
           /\ Return(symbol)
    /\ UNCHANGED <<part, holes, heap, calls, runs, status>>

(* Binaries, arrays and maps convert their class first. *)
BeginClassed ==
    /\ Begins({"binary", "array", "map"})
    /\ calls' = Append(calls, Call(Place(pending), "class", NoRef, NoRef, 0))
    /\ pending' = part[Place(pending)].class
    /\ UNCHANGED <<part, holes, memo, heap, value, runs, status>>

(* A frame is allocated first; then its class, the map, becomes an array.    *)
BeginFrame ==
    /\ Begins({"frame"}) /\ HasRoom(heap)
    /\ heap' = [heap EXCEPT ![Fresh(heap)] = NewFrame]
    /\ calls' = Append(calls, Call(Place(pending), "map", Fresh(heap), NoRef, 0))
    /\ pending' = part[Place(pending)].class
    /\ UNCHANGED <<part, holes, memo, value, runs, status>>

-----------------------------------------------------------------------------
(* The innermost activation gets the value it waits for.                    *)
Top     == calls[Len(calls)]
Source  == part[Top.at]
Returns == SubSeq(calls, 1, Len(calls) - 1)

Waiting(stage) ==
    status = "converting" /\ pending = NoCall /\ calls # << >> /\ Top.stage = stage

Ask(call, ref) ==
    /\ calls' = Append(Returns, call)
    /\ pending' = ref
    /\ value' = NoRef
    /\ UNCHANGED memo

(* Faulty: what it became is not remembered. *)
CompleteForgetting(ref) == calls' = Returns /\ value' = ref /\ UNCHANGED <<memo, pending>>

(* Returns from toNOS of the object. *)
Complete(ref) ==
    /\ memo' = [memo EXCEPT ![Top.at] = ref]
    /\ calls' = Returns
    /\ value' = ref
    /\ UNCHANGED pending

Rest == UNCHANGED <<part, marked, runs, status>>

(* PartDataNOS::getSymbol *)
IsSymbolNamed(ref, name) ==
    /\ ref % 4 = 1 /\ Place(ref) \in Offsets
    /\ Kind(part[Place(ref)]) = "symbol" /\ part[Place(ref)].name = name

(* The class is converted once more, which gives the same value. *)
MakeBinary ==
    /\ Waiting("class") /\ Kind(Source) = "binary" /\ HasRoom(heap)
    /\ heap' = [heap EXCEPT ![Fresh(heap)] =
                   Binary(IF IsSymbolNamed(Source.class, StringName) THEN StringClass ELSE value)]
    /\ Complete(Fresh(heap))
    /\ Rest /\ UNCHANGED holes

AskSlot(ref, i) ==
    IF i < Len(Source.refs)
    THEN Ask(Call(Top.at, "slot", ref, NoRef, i), Source.refs[i + 1])
    ELSE Complete(ref)

MakeArray ==
    /\ Waiting("class") /\ Kind(Source) # "binary" /\ HasRoom(heap)
    /\ heap' = [heap EXCEPT ![Fresh(heap)] = NewArray(value, 0)]
    /\ AskSlot(Fresh(heap), 0)
    /\ Rest /\ UNCHANGED holes

GetSlotValue ==
    /\ Waiting("slot")
    /\ IF AddSlotAsserts(heap[Top.ref])
       THEN /\ heap' = [heap EXCEPT ![Top.ref] = AddSlot(@, value)]
            /\ AskSlot(Top.ref, Top.i + 1)
            /\ Rest /\ UNCHANGED holes
       ELSE Die("SetLength assert")

-----------------------------------------------------------------------------
Map == part[Place(Source.class)]

(* Faulty: the slot of the super map is counted as a tag. *)
SymbolAtFromZero(i) == Map.refs[i + 1]

(* ObjectMap::symbol_at, behind the slot for a super map. *)
SymbolAt(i) == Map.refs[i + 2]

(* The next tag.  The map's slots are read whatever the object there is,     *)
(* and however many it has.                                                  *)
AskTag(ref, i) ==
    IF i = Len(Source.refs) THEN Complete(ref)
    ELSE Ask(Call(Top.at, "tag", ref, NoRef, i), SymbolAt(i))

TagReadable(i) ==
    i < Len(Source.refs) => Kind(Map) \in Slotted /\ i + 2 <= Len(Map.refs)

(* map->mark(true), wherever the class leads, whatever its tag. *)
GetMap ==
    /\ Waiting("map")
    /\ IF Place(Source.class) \notin Offsets THEN Die("null object")
       ELSE IF ~TagReadable(0) THEN Die("undefined")
       ELSE /\ marked' = marked \cup {Place(Source.class)}
            /\ AskTag(Top.ref, 0)
            /\ UNCHANGED <<part, holes, heap, runs, status>>

GetTag ==
    /\ Waiting("tag")
    /\ Ask(Call(Top.at, "value", Top.ref, value, Top.i), Source.refs[Top.i + 1])
    /\ Rest /\ UNCHANGED <<holes, heap>>

GetValue ==
    /\ Waiting("value")
    /\ IF Top.tag \notin Symbols THEN Die("NotASymbol")
       ELSE IF ~FrameSetSlotAsserts(heap[Top.ref], Top.tag) THEN Die("Frame::SetSlot assert")
       ELSE IF ~TagReadable(Top.i + 1) THEN Die("undefined")
       ELSE /\ heap' = [heap EXCEPT ![Top.ref] = FrameSetSlot(@, Top.tag, value)]
            /\ AskTag(Top.ref, Top.i + 1)
            /\ Rest /\ UNCHANGED holes

Finish ==
    /\ status = "converting" /\ pending = NoCall /\ calls = << >>
    /\ status' = "idle"
    /\ UNCHANGED <<part, holes, marked, memo, heap, calls, pending, value, runs>>

Step ==
    \/ ConvertImmediate \/ ConvertDangling \/ ReturnRemembered \/ DiscoverRecursion
    \/ ConvertSymbol \/ BeginClassed \/ BeginFrame
    \/ MakeBinary \/ MakeArray \/ GetSlotValue \/ GetMap \/ GetTag \/ GetValue \/ Finish

Next == ToNOS \/ VisitAll \/ Step

Spec == Init /\ [][Next]_vars

-----------------------------------------------------------------------------
Deaths ==
    {"null object", "null object visited", "undefined", "recursion", "NotASymbol", "SetLength assert",
     "Frame::SetSlot assert"}

(* Every variable has its type.                                             *)
TypeOK ==
    /\ holes \cap Offsets = {} /\ marked \subseteq Offsets
    /\ \A o \in Offsets : memo[o] \in Symbols \cup Ptrs \cup {NoRef}
    /\ \A p \in Ptrs : heap[p] = NoObject \/ IsFrameObject(heap[p])
                       \/ (IsObject(heap[p]) /\ heap[p].head \in Ref)
    /\ \A k \in DOMAIN calls : /\ calls[k].at \in Offsets
                              /\ calls[k].stage \in {"class", "slot", "map", "tag", "value"}
                              /\ calls[k].i \in 0 .. Len(part[calls[k].at].refs)
    /\ pending \in (0 .. Word - 1) \cup {NoCall}
    /\ value \in Ref \cup {NoRef}
    /\ runs \in 0 .. MaxRuns
    /\ status \in {"idle", "converting"} \cup Deaths

Converted == {o \in Offsets : memo[o] # NoRef}
Open      == {calls[k].at : k \in DOMAIN calls}

(* The objects that an object refers to.                                    *)
RefsOf(o) == {part[o].class} \cup {part[o].refs[i] : i \in DOMAIN part[o].refs}

Pointers(o) == {Place(ref) : ref \in {r \in RefsOf(o) : r % 4 = 1}}

HasCycle(set) ==
    \E cycle \in (SUBSET set) \ {{}} : \A o \in cycle : Pointers(o) \cap cycle # {}

(* The root holds a pointer, and the class of a frame is one.               *)
PointersWhereRequired ==
    /\ Kind(part[Root]) \in Slotted /\ part[Root].refs # << >> /\ part[Root].refs[1] % 4 = 1
    /\ \A o \in Offsets : Kind(part[o]) = "frame" => part[o].class % 4 = 1

(* A mark that is set belongs to an object that is being converted, was       *)
(* converted, or is the root: the assertion that discovers recursion never    *)
(* fails for an object that is merely referred to twice, in the first         *)
(* conversion of a part and in later ones.                                    *)
MarksAreHonest == PointersWhereRequired => marked \subseteq {Root} \cup Open \cup Converted

(* The class of a frame leads to a map with a symbol of another name for      *)
(* each of its slots.                                                        *)
HasItsMap(o) ==
    LET map == part[Place(part[o].class)]
    IN  /\ Kind(map) = "map" /\ Len(map.refs) = Len(part[o].refs) + 1
        /\ \A i \in 2 .. Len(map.refs) :
              /\ map.refs[i] % 4 = 1 /\ Place(map.refs[i]) \in Offsets
              /\ Kind(part[Place(map.refs[i])]) = "symbol"
              /\ \A j \in 2 .. i - 1 : part[Place(map.refs[i])].name # part[Place(map.refs[j])].name

(* A part as the Newton's own tools build it. *)
WellFormed ==
    /\ PointersWhereRequired
    /\ \A o \in Offsets :
          /\ Pointers(o) \subseteq Offsets
          /\ Len(part[o].refs) < SizeLimit
          /\ Kind(part[o]) = "frame" => HasItsMap(o)

(* Nothing but recursion stops the conversion of a well formed part: the tags *)
(* are found in the map, where nothing checks the index, and are symbols.     *)
WellFormedConverts == WellFormed => status \in {"idle", "converting", "recursion"}

(* The conversion stops for recursion where there is a cycle, and only there. *)
CyclesAreDiscovered ==
    /\ status = "recursion" /\ PointersWhereRequired => HasCycle({Root} \cup Open)
    /\ ~HasCycle(Converted)

(* An object of the part becomes one object, however often and on whatever    *)
(* ways it is reached, and the heap holds no others.                          *)
MadeOnce ==
    /\ \A o, q \in Converted : memo[o] = memo[q] => o = q
    /\ {p \in Ptrs : heap[p] # NoObject} =
          ({memo[o] : o \in Converted} \cap Ptrs)
              \cup ({calls[k].ref : k \in DOMAIN calls} \ {NoRef})

(* ... and stays it: a second conversion of the part gives the same objects.  *)
MemoKept == [][\A o \in Converted : memo'[o] = memo[o]]_vars

(* What a reference should become; nothing is said of magic pointers.        *)
Became(ref, source) ==
    /\ source % 4 = 0 => ref = Signed(source) + 1
    /\ source % 4 = 1 => ref = IF Place(source) \in Offsets THEN memo[Place(source)] ELSE UNREF
    /\ source % 4 = 2 => ref = source

Holds(object, sources, first) ==
    \A i \in DOMAIN sources : Became(object.slot[first + i - 1], sources[i])

TagsOf(o) == LET map == part[Place(part[o].class)] IN [i \in DOMAIN part[o].refs |-> map.refs[i + 1]]

NamesOf(o) == [i \in DOMAIN part[o].refs |-> NameOf[memo[Place(TagsOf(o)[i])]]]

DistinctTags(o) ==
    \A i, j \in DOMAIN part[o].refs : NamesOf(o)[i] = NamesOf(o)[j] => i = j

SameObject(o) ==
    LET object == heap[memo[o]]
    IN  CASE Kind(part[o]) = "symbol" -> NameOf[memo[o]] = part[o].name
          [] Kind(part[o]) = "binary" ->
                /\ object = Binary(object.head)
                /\ \/ IsSymbolNamed(part[o].class, StringName) /\ object.head = StringClass
                   \/ Became(object.head, part[o].class)
          [] Kind(part[o]) \in {"array", "map"} ->
                /\ object.tag = "array" /\ object.length = Len(part[o].refs)
                /\ Became(object.head, part[o].class)
                /\ Holds(object, part[o].refs, 0)
          [] Kind(part[o]) = "frame" ->
                /\ object.tag = "frame"
                /\ DistinctTags(o) => /\ object.length = Len(part[o].refs)
                                      /\ Holds(object, part[o].refs, 0)
                                      /\ Holds(object.head, TagsOf(o), 1)

(* An object that was converted is the one in the part: integers have their   *)
(* sign, references lead to what the objects they refer to became, and tags   *)
(* belong to the slots they belonged to.  Nothing is said of the value of a   *)
(* magic pointer, nor of the slots of a frame with a tag that is there twice. *)
GraphKept == \A o \in Converted : SameObject(o)
=============================================================================
