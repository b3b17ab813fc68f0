------------------------ MODULE PartConversionProofs ------------------------
(***************************************************************************)
(* Proofs about PartConversion for every part, any number of conversions,  *)
(* and every set of addresses and symbols.  The definitions of this module *)
(* that take a part "p", a memory "m", a heap "h" or calls "cs" say of     *)
(* these what the invariant says of the variables.                         *)
(***************************************************************************)
EXTENDS PartConversion, SlottedObjectProofs

Stages == {"class", "slot", "map", "tag", "value"}

Calls == [at : Nat, stage : Stages, ref : Ptrs \cup {NoRef}, tag : Ref \cup {NoRef}, i : Nat]

MapOf(p, o) == p[Place(p[o].class)]

TagAt(p, o, i) ==
    /\ Place(p[o].class) \in DOMAIN p /\ Kind(MapOf(p, o)) \in Slotted
    /\ i + 2 <= Len(MapOf(p, o).refs)

(* An activation has the object it fills, and reads its next reference from  *)
(* where there is one.                                                       *)
SoundCall(p, h, c) ==
    /\ c.at \in DOMAIN p
    /\ c.stage = "class" => Kind(p[c.at]) \in {"binary", "array", "map"} /\ c.ref = NoRef
    /\ c.stage = "slot" =>
          Kind(p[c.at]) \in {"array", "map"} /\ c.ref \in Ptrs /\ SoundArray(h[c.ref])
    /\ c.stage \in {"map", "tag", "value"} =>
          Kind(p[c.at]) = "frame" /\ c.ref \in Ptrs /\ SoundFrame(h[c.ref])
    /\ c.stage \in {"class", "map"} => c.i = 0
    /\ c.stage \notin {"class", "map"} => c.i < Len(p[c.at].refs)
    /\ c.stage \in {"tag", "value"} => TagAt(p, c.at, c.i)
    /\ c.stage = "value" => c.tag \in Ref

SoundCalls(p, h, cs) == cs \in Seq(Calls) /\ \A k \in DOMAIN cs : SoundCall(p, h, cs[k])

SoundMemo(p, m) ==
    /\ m \in [DOMAIN p -> Symbols \cup Ptrs \cup {NoRef}]
    /\ \A o \in DOMAIN p : m[o] # NoRef => (m[o] \in Symbols <=> Kind(p[o]) = "symbol")

(* What refToNOS may be asked for. *)
Convertible(ref) == ref \in 0 .. Word - 1 /\ (ref % 4 # 1 => Immediate(ref) \in Immediates)

(* The types, in more detail than TypeOK.                                    *)
Typed ==
    /\ IsPart(part)
    /\ holes \cap Offsets = {} /\ marked \subseteq Offsets
    /\ SoundMemo(part, memo)
    /\ SoundHeap(heap)
    /\ SoundCalls(part, heap, calls)
    /\ pending = NoCall \/ Convertible(pending)
    /\ value \in Ref \cup {NoRef}
    /\ status = "converting" /\ pending = NoCall => value \in Ref
    /\ status = "idle" => pending = NoCall /\ calls = << >>
    /\ runs \in 0 .. MaxRuns
    /\ status \in {"idle", "converting"} \cup Deaths

-----------------------------------------------------------------------------
(* The kinds of objects, and what each is sure to have.                      *)
LEMMA KindOf ==
    ASSUME NEW o, IsLoaded(o)
    PROVE  /\ Kind(o) \in {"symbol", "binary", "map", "array", "frame"}
           /\ Kind(o) \in {"symbol", "binary"} => o.refs = << >>
           /\ Kind(o) = "symbol" => o.class = SymbolClass
           /\ o.refs \in Seq(0 .. Word - 1) /\ Len(o.refs) \in Nat /\ DOMAIN o.refs = 1 .. Len(o.refs)
           /\ Kind(o) # "symbol" =>
                 Convertible(o.class) /\ \A i \in 1 .. Len(o.refs) : Convertible(o.refs[i])
<1>1. o.refs \in Seq(0 .. Word - 1) /\ o.class \in 0 .. Word - 1
  BY DEF IsLoaded
<1>2. /\ Len(o.refs) \in Nat /\ DOMAIN o.refs = 1 .. Len(o.refs)
      /\ \A i \in 1 .. Len(o.refs) : o.refs[i] \in 0 .. Word - 1
  BY <1>1, LenProperties, ElementOfSeq
<1>3. o.type \in 0 .. 3
  BY DEF IsLoaded
<1>4. /\ o.type = 0 => Kind(o) = IF o.class = SymbolClass THEN "symbol" ELSE "binary"
      /\ o.type = 1 => Kind(o) = IF o.class % 4 = 0 THEN "map" ELSE "array"
      /\ o.type = 2 => Kind(o) = "binary"
      /\ o.type = 3 => Kind(o) = "frame"
  BY SMT DEF Kind
<1>5. Kind(o) # "symbol" =>
          Convertible(o.class) /\ \A i \in 1 .. Len(o.refs) : Convertible(o.refs[i])
  BY <1>1, <1>2 DEF IsLoaded, Convertible
<1>6. o.type \in {0, 1, 2, 3}
  BY <1>3
<1>7. Kind(o) \in {"symbol", "binary", "map", "array", "frame"}
  BY <1>4, <1>6
<1>8. Kind(o) \in {"symbol", "binary"} => o.refs = << >>
  BY <1>4, <1>6 DEF IsLoaded
<1>9. Kind(o) = "symbol" => o.class = SymbolClass
  BY <1>4, <1>6
<1>10. QED
  BY <1>1, <1>2, <1>5, <1>7, <1>8, <1>9

(* The place of a reference, and a pointer to it.                            *)
LEMMA Places ==
    ASSUME NEW ref \in 0 .. Word - 1
    PROVE  /\ Place(ref) \in Nat
           /\ Place(ref) + 1 \in 0 .. Word - 1
           /\ (Place(ref) + 1) % 4 = 1
           /\ Place(Place(ref) + 1) = Place(ref)
<1>1. Word \in Nat /\ Word % 4 = 0
  BY PartAssumption
<1>2. QED
  BY <1>1, SMT DEF Place

(* The first object of a part.                                               *)
LEMMA RootExists ==
    ASSUME IsPart(part)
    PROVE  Root \in Offsets /\ \A o \in Offsets : IsLoaded(part[o])
  BY DEF IsPart, Root, Offsets

-----------------------------------------------------------------------------
(* The reference that an activation asks refToNOS for.                       *)
Asked(p, c) ==
    IF c.stage \in {"class", "map"} THEN p[c.at].class
    ELSE IF c.stage = "tag" THEN MapOf(p, c.at).refs[c.i + 2]
    ELSE p[c.at].refs[c.i + 1]

(* An activation asks for what the package can hold.                         *)
LEMMA AskedConvertible ==
    ASSUME NEW p, IsPart(p), NEW h, NEW c \in Calls, SoundCall(p, h, c)
    PROVE  Convertible(Asked(p, c))
<1>1. c.at \in DOMAIN p /\ IsLoaded(p[c.at]) /\ c.i \in Nat /\ c.stage \in Stages
  BY DEF SoundCall, IsPart, Calls
<1>2. Kind(p[c.at]) # "symbol"
  BY <1>1 DEF SoundCall, Stages
<1>3. CASE c.stage \in {"class", "map"}
  BY <1>1, <1>2, <1>3, KindOf DEF Asked
<1>4. CASE c.stage = "tag"
  <2>1. /\ Place(p[c.at].class) \in DOMAIN p /\ Kind(MapOf(p, c.at)) \in Slotted
        /\ c.i + 2 <= Len(MapOf(p, c.at).refs)
    BY <1>4 DEF SoundCall, TagAt
  <2>2. IsLoaded(MapOf(p, c.at)) /\ Kind(MapOf(p, c.at)) # "symbol"
    BY <2>1 DEF IsPart, MapOf, Slotted
  <2>3. PICK map : map = MapOf(p, c.at)
    OBVIOUS
  <2>4. /\ Len(map.refs) \in Nat
        /\ \A j \in 1 .. Len(map.refs) : Convertible(map.refs[j])
    BY <2>2, <2>3, KindOf
  <2>5. c.i + 2 \in 1 .. Len(map.refs)
    BY <1>1, <2>1, <2>3, <2>4
  <2>6. QED
    BY <1>4, <2>3, <2>4, <2>5 DEF Asked
<1>5. CASE c.stage \in {"slot", "value"}
  <2>1. c.i < Len(p[c.at].refs)
    BY <1>5 DEF SoundCall
  <2>2. /\ Len(p[c.at].refs) \in Nat
        /\ \A j \in 1 .. Len(p[c.at].refs) : Convertible(p[c.at].refs[j])
    BY <1>1, <1>2, KindOf
  <2>3. c.i + 1 \in 1 .. Len(p[c.at].refs)
    BY <1>1, <2>1, <2>2
  <2>4. QED
    BY <1>5, <2>2, <2>3 DEF Asked
<1>6. QED
  BY <1>1, <1>3, <1>4, <1>5 DEF Stages

(* A heap g in which arrays and frames of h are still arrays and frames      *)
(* keeps the activations.                                                    *)
KeepsKinds(h, g) ==
    \A q \in Ptrs : (SoundArray(h[q]) => SoundArray(g[q])) /\ (SoundFrame(h[q]) => SoundFrame(g[q]))

(* An activation stays what it is when objects are only added to or          *)
(* filled.                                                                   *)
LEMMA CallKept ==
    ASSUME NEW p, NEW h, NEW g, KeepsKinds(h, g), NEW c, SoundCall(p, h, c)
    PROVE  SoundCall(p, g, c)
  BY DEF KeepsKinds, SoundCall

(* So do they all, with one more,                                            *)
LEMMA PushedCalls ==
    ASSUME NEW p, NEW h, NEW g, NEW cs, SoundCalls(p, h, cs), KeepsKinds(h, g),
           NEW c \in Calls, SoundCall(p, g, c)
    PROVE  SoundCalls(p, g, Append(cs, c))
<1>1. PICK d : d = Append(cs, c)
  OBVIOUS
<1>2. cs \in Seq(Calls) /\ \A k \in DOMAIN cs : SoundCall(p, g, cs[k])
  BY CallKept DEF SoundCalls
<1>3. /\ d \in Seq(Calls) /\ Len(cs) \in Nat /\ DOMAIN cs = 1 .. Len(cs) /\ DOMAIN d = 1 .. Len(cs) + 1
      /\ \A k \in 1 .. Len(cs) : d[k] = cs[k]
      /\ d[Len(cs) + 1] = c
  BY <1>1, <1>2, AppendedSequence
<1>4. ASSUME NEW k \in DOMAIN d
      PROVE  SoundCall(p, g, d[k])
  <2>1. CASE k = Len(cs) + 1
    BY <1>3, <2>1
  <2>2. CASE k \in 1 .. Len(cs)
    BY <1>2, <1>3, <2>2
  <2>3. QED
    BY <1>3, <2>1, <2>2
<1>5. QED
  BY <1>1, <1>3, <1>4 DEF SoundCalls

(* with one less,                                                            *)
LEMMA PoppedCalls ==
    ASSUME NEW p, NEW h, NEW g, NEW cs, SoundCalls(p, h, cs), KeepsKinds(h, g), cs # << >>
    PROVE  SoundCalls(p, g, SubSeq(cs, 1, Len(cs) - 1))
<1>1. PICK d : d = SubSeq(cs, 1, Len(cs) - 1)
  OBVIOUS
<1>2. cs \in Seq(Calls) /\ \A k \in DOMAIN cs : SoundCall(p, g, cs[k])
  BY CallKept DEF SoundCalls
<1>3. /\ Len(cs) \in Nat \ {0} /\ DOMAIN cs = 1 .. Len(cs)
      /\ d \in Seq(Calls) /\ DOMAIN d = 1 .. Len(cs) - 1
      /\ \A k \in 1 .. Len(cs) - 1 : d[k] = cs[k]
  BY <1>1, <1>2, ShortenedSequence, LenProperties
<1>4. QED
  BY <1>1, <1>2, <1>3 DEF SoundCalls

(* and with another one on the top.                                          *)
LEMMA ReplacedCalls ==
    ASSUME NEW p, NEW h, NEW g, NEW cs, SoundCalls(p, h, cs), KeepsKinds(h, g), cs # << >>,
           NEW c \in Calls, SoundCall(p, g, c)
    PROVE  SoundCalls(p, g, Append(SubSeq(cs, 1, Len(cs) - 1), c))
<1>1. PICK d : d = SubSeq(cs, 1, Len(cs) - 1)
  OBVIOUS
<1>2. SoundCalls(p, g, d)
  BY <1>1, PoppedCalls
<1>3. KeepsKinds(g, g)
  BY DEF KeepsKinds
<1>4. QED
  BY <1>1, <1>2, <1>3, PushedCalls

(* The innermost activation.                                                 *)
LEMMA LastCall ==
    ASSUME NEW p, NEW h, NEW cs, SoundCalls(p, h, cs), cs # << >>
    PROVE  /\ cs \in Seq(Calls)
           /\ Len(cs) \in Nat \ {0} /\ DOMAIN cs = 1 .. Len(cs)
           /\ Len(cs) \in DOMAIN cs
           /\ cs[Len(cs)] \in Calls /\ SoundCall(p, h, cs[Len(cs)])
  BY ShortenedSequence, LenProperties DEF SoundCalls

(* An object is written to an address that is free, or holds one of its kind. *)
Suits(h, a, o) ==
    \/ h[a] = NoObject /\ SoundObject(o)
    \/ SoundArray(h[a]) /\ SoundArray(o)
    \/ SoundFrame(h[a]) /\ SoundFrame(o)

Puts(h, a, o, g) == g = [h EXCEPT ![a] = o]

(* A heap stays sound when an object is put where none was, or where one     *)
(* of its kind was.                                                          *)
LEMMA Written ==
    ASSUME NEW h, SoundHeap(h), NEW a \in Ptrs, NEW o, Suits(h, a, o),
           NEW g, Puts(h, a, o, g)
    PROVE  /\ SoundHeap(g) /\ KeepsKinds(h, g)
           /\ g[a] = o /\ \A q \in Ptrs \ {a} : g[q] = h[q]
<1>1. DOMAIN g = Ptrs /\ g[a] = o /\ \A q \in Ptrs \ {a} : g[q] = h[q]
  BY DEF SoundHeap, Puts
<1>2. SoundHeap(g)
  BY <1>1 DEF SoundHeap, SoundObject, Suits
<1>3. /\ ~SoundArray(NoObject) /\ ~SoundFrame(NoObject)
      /\ SoundArray(h[a]) => ~SoundFrame(h[a])
  <2>1. SoundArray(h[a]) \/ SoundFrame(h[a]) => h[a] # NoObject
    BY SoundIsSomething
  <2>2. ~SoundArray(NoObject) /\ ~SoundFrame(NoObject)
    BY SoundIsSomething, Zenon
  <2>3. SoundArray(h[a]) => h[a].tag = "array"
    BY SoundIsSomething
  <2>4. SoundFrame(h[a]) => h[a].tag = "frame"
    BY SoundIsSomething
  <2>5. QED
    BY <2>2, <2>3, <2>4
<1>4. KeepsKinds(h, g)
  BY <1>1, <1>3 DEF KeepsKinds, Suits
<1>5. QED
  BY <1>1, <1>2, <1>4

-----------------------------------------------------------------------------
(* Each step keeps the types; what a step of the conversion has to show.     *)
LEMMA TypedKept ==
    ASSUME Typed, UNCHANGED <<part, runs>>, status' = "converting",
           holes' \cap Offsets = {}, marked' \subseteq Offsets,
           SoundMemo(part, memo'), SoundHeap(heap'), SoundCalls(part, heap', calls'),
           pending' = NoCall \/ Convertible(pending'),
           value' \in Ref \cup {NoRef},
           pending' = NoCall => value' \in Ref
    PROVE  Typed'
<1>1. Offsets' = Offsets
  BY DEF Offsets
<1>2. QED
  BY <1>1 DEF Typed

(* Dying changes nothing else.                                               *)
LEMMA TypedDead ==
    ASSUME Typed, NEW how \in Deaths, Die(how)
    PROVE  Typed'
<1>1. how \notin {"idle", "converting"}
  BY DEF Deaths
<1>2. Offsets' = Offsets
  BY DEF Offsets, Die
<1>3. QED
  BY <1>1, <1>2 DEF Typed, Die

(* refToNOS is not being called with NoCall.                                 *)
LEMMA CallingFacts ==
    ASSUME Typed, Calling
    PROVE  /\ status = "converting"
           /\ Convertible(pending) /\ pending \in 0 .. Word - 1
           /\ Place(pending) \in Nat
  BY Places DEF Typed, Calling, Convertible

(* Anything but a pointer becomes a reference.                               *)
LEMMA ConvertImmediateTyped == Typed /\ ConvertImmediate => Typed'
<1> SUFFICES ASSUME Typed, ConvertImmediate
             PROVE  Typed'
  OBVIOUS
<1>1. value' \in Ref
  BY CallingFacts DEF ConvertImmediate, Return, Convertible, Ref
<1>2. QED
  BY <1>1, CallingFacts, TypedKept DEF ConvertImmediate, Return, Typed

(* So does a pointer to where no object is: UNREF.                           *)
LEMMA ConvertDanglingTyped == Typed /\ ConvertDangling => Typed'
<1> SUFFICES ASSUME Typed, ConvertDangling
             PROVE  Typed'
  OBVIOUS
<1>1. value' \in Ref
  BY RefAssumption DEF ConvertDangling, Return, Ref
<1>2. holes' \cap Offsets = {}
  BY DEF ConvertDangling, Typed
<1>3. QED
  BY <1>1, <1>2, CallingFacts, TypedKept DEF ConvertDangling, Return, Typed

(* What is remembered is a reference.                                        *)
LEMMA ReturnRememberedTyped == Typed /\ ReturnRemembered => Typed'
<1> SUFFICES ASSUME Typed, ReturnRemembered
             PROVE  Typed'
  OBVIOUS
<1>1. value' \in Ref
  BY DEF ReturnRemembered, ObjectAt, Remembered, Return, Ref, Typed, SoundMemo, Offsets
<1>2. QED
  BY <1>1, CallingFacts, TypedKept DEF ReturnRemembered, ObjectAt, Return, Typed

(* A symbol nothing has become yet.                                          *)
LEMMA SymbolMade ==
    ASSUME NEW name, NEW used, HasSymbol(name, used)
    PROVE  /\ FreshSymbol(name, used) \in Symbols \ used
           /\ NameOf[FreshSymbol(name, used)] = name
  BY DEF HasSymbol, FreshSymbol

(* What an object became is remembered at its offset, and only there.        *)
LEMMA MemoWritten ==
    ASSUME NEW p, NEW m, SoundMemo(p, m), NEW o \in DOMAIN p, NEW ref \in Symbols \cup Ptrs,
           ref \in Symbols <=> Kind(p[o]) = "symbol",
           NEW n, n = [m EXCEPT ![o] = ref]
    PROVE  /\ SoundMemo(p, n)
           /\ n[o] = ref /\ \A q \in DOMAIN p \ {o} : n[q] = m[q]
<1>1. DOMAIN n = DOMAIN p /\ DOMAIN m = DOMAIN p
  BY DEF SoundMemo
<1>2. \A q \in DOMAIN p : n[q] = IF q = o THEN ref ELSE m[q]
  BY <1>1
<1>3. n \in [DOMAIN p -> Symbols \cup Ptrs \cup {NoRef}]
  BY <1>1, <1>2 DEF SoundMemo
<1>4. QED
  BY <1>2, <1>3 DEF SoundMemo

(* A symbol becomes a symbol.                                                *)
LEMMA ConvertSymbolTyped == Typed /\ ConvertSymbol => Typed'
<1> SUFFICES ASSUME Typed, ConvertSymbol
             PROVE  Typed'
  OBVIOUS
<1>1. /\ ObjectAt({"symbol"}) /\ Calling /\ Place(pending) \in Offsets
      /\ Kind(part[Place(pending)]) = "symbol"
      /\ marked' = marked \cup {Place(pending)}
  BY DEF ConvertSymbol, Begins, ObjectAt
<1>2. PICK symbol \in Symbols : memo' = [memo EXCEPT ![Place(pending)] = symbol] /\ Return(symbol)
  BY SymbolMade DEF ConvertSymbol
<1>3. SoundMemo(part, memo')
  BY <1>1, <1>2, MemoWritten DEF Typed, Offsets
<1>4. value' \in Ref /\ pending' = NoCall
  BY <1>2 DEF Return, Ref
<1>5. QED
  BY <1>1, <1>3, <1>4, CallingFacts, TypedKept DEF ConvertSymbol, Typed

-----------------------------------------------------------------------------
(* The shapes of the steps: what each shape does to the activations, to what *)
(* is remembered, and to the heap.  A call fills one object, which is there   *)
(* from its start or is allocated by the step.                               *)
Fills(h, g, old, new) ==
    /\ new \in Ptrs /\ g[new] # NoObject
    /\ old = new \/ (old = NoRef /\ h[new] = NoObject)
    /\ \A q \in Ptrs \ {new} : g[q] = h[q]

Filled(old, new) == Fills(heap, heap', old, new)

Grown == SoundHeap(heap') /\ KeepsKinds(heap, heap')

(* How many of its references an activation has converted, when it has the   *)
(* value it waits for.                                                       *)
Reached(c) == IF c.stage \in {"slot", "value"} THEN c.i + 1 ELSE c.i

Follows(c, d) ==
    /\ d.at = c.at /\ d.i = Reached(c)
    /\ d.stage = CASE c.stage \in {"class", "slot"} -> "slot"
                   [] c.stage \in {"map", "value"}  -> "tag"
                   [] c.stage = "tag"               -> "value"

Dies == \E how \in Deaths \ {"recursion"} : Die(how)

(* What an activation writes when it has the value it waits for.             *)
Wrote(old, new) ==
    /\ Top.stage = "class" =>
          new = IF Kind(Source) = "binary"
                THEN Binary(IF IsSymbolNamed(Source.class, StringName) THEN StringClass ELSE value)
                ELSE NewArray(value, 0)
    /\ Top.stage = "slot" => AddSlotAsserts(old) /\ new = AddSlot(old, value)
    /\ Top.stage \in {"map", "tag"} => new = old
    /\ Top.stage = "value" => /\ Top.tag \in Symbols /\ FrameSetSlotAsserts(old, Top.tag)
                              /\ new = FrameSetSlot(old, Top.tag, value)

(* What a reference becomes.                                                 *)
Answer(p, m, ref) ==
    IF ref % 4 # 1 THEN Immediate(ref)
    ELSE IF Place(ref) \in DOMAIN p THEN m[Place(ref)]
    ELSE UNREF

(* refToNOS returns at once.                                                 *)
Returned ==
    /\ Calling /\ pending' = NoCall
    /\ pending % 4 = 1 /\ Place(pending) \in Offsets => memo[Place(pending)] # NoRef
    /\ value' = Answer(part, memo, pending)
    /\ UNCHANGED <<part, marked, memo, heap, calls, runs, status>>

(* The client starts with the slot of the root.                              *)
First == Place(part[Root].refs[1])

Started ==
    /\ status = "idle" /\ status' = "converting"
    /\ Kind(part[Root]) \in Slotted /\ part[Root].refs # << >>
    /\ pending' = First + 1 /\ marked' = {Root}
    /\ UNCHANGED <<part, memo, heap, calls>>

Begun(c) ==
    /\ Calling /\ pending % 4 = 1 /\ Place(pending) \in Offsets
    /\ memo[Place(pending)] = NoRef /\ Place(pending) \notin marked
    /\ c \in Calls /\ SoundCall(part, heap', c) /\ c.at = Place(pending)
    /\ \/ c.stage = "class" /\ c.ref = NoRef /\ heap' = heap
       \/ c.stage = "map" /\ Filled(NoRef, c.ref) /\ heap'[c.ref] = NewFrame
    /\ Grown
    /\ marked' = marked \cup {c.at}
    /\ calls' = Append(calls, c) /\ pending' = Asked(part, c)
    /\ UNCHANGED <<part, holes, memo, value, runs, status>>

(* The map of a frame is marked before its tags are converted.               *)
Continued(c) ==
    /\ Waiting(Top.stage)
    /\ c \in Calls /\ SoundCall(part, heap', c) /\ Follows(Top, c)
    /\ c.stage = "value" => c.tag = value
    /\ Filled(Top.ref, c.ref) /\ Grown /\ Wrote(heap[Top.ref], heap'[c.ref])
    /\ marked' = marked \cup {Place(Source.class) : s \in {Top.stage} \cap {"map"}}
    /\ marked' \subseteq Offsets
    /\ calls' = Append(Returns, c) /\ pending' = Asked(part, c) /\ value' = NoRef
    /\ UNCHANGED <<part, holes, memo, runs, status>>

Completed(ref) ==
    /\ Waiting(Top.stage)
    /\ Top.stage # "tag" /\ Reached(Top) = Len(Source.refs)
    /\ Filled(Top.ref, ref) /\ Grown /\ Wrote(heap[Top.ref], heap'[ref])
    /\ marked' = marked \cup {Place(Source.class) : s \in {Top.stage} \cap {"map"}}
    /\ marked' \subseteq Offsets
    /\ Complete(ref)
    /\ UNCHANGED <<part, holes, runs, status>>

(* The three shapes keep the types.                                          *)
LEMMA BegunTyped ==
    ASSUME Typed, NEW c, Begun(c)
    PROVE  Typed'
<1>1. Convertible(pending')
  BY AskedConvertible DEF Typed, Begun
<1>2. SoundCalls(part, heap', calls')
  BY PushedCalls DEF Typed, Begun, Grown
<1>3. pending' # NoCall
  BY <1>1, PartAssumption DEF Convertible
<1>4. marked' \subseteq Offsets /\ status' = "converting"
  BY CallingFacts DEF Typed, Begun
<1>5. QED
  BY <1>1, <1>2, <1>3, <1>4, TypedKept DEF Typed, Begun, Grown

(* The innermost activation has what it waits for.                           *)
LEMMA WaitingFacts ==
    ASSUME Typed, NEW stage, Waiting(stage)
    PROVE  /\ status = "converting" /\ pending = NoCall /\ calls # << >>
           /\ Top \in Calls /\ Top.stage = stage /\ SoundCall(part, heap, Top)
           /\ Top.at \in Offsets /\ IsLoaded(part[Top.at]) /\ Source = part[Top.at]
           /\ value \in Ref
           /\ calls \in Seq(Calls) /\ Len(calls) \in Nat \ {0} /\ DOMAIN calls = 1 .. Len(calls)
<1>1. /\ status = "converting" /\ pending = NoCall /\ calls # << >> /\ Top.stage = stage
      /\ SoundCalls(part, heap, calls) /\ IsPart(part) /\ value \in Ref
  BY DEF Waiting, Typed
<1>2. Top \in Calls /\ SoundCall(part, heap, Top)
  BY <1>1, LastCall DEF Top
<1>3. Top.at \in Offsets
  BY <1>2 DEF SoundCall, Offsets
<1>4. QED
  BY <1>1, <1>2, <1>3, LastCall, RootExists DEF Source

(* An activation that goes on keeps the types.                               *)
LEMMA ContinuedTyped ==
    ASSUME Typed, NEW c, Continued(c)
    PROVE  Typed'
<1>1. calls' = Append(SubSeq(calls, 1, Len(calls) - 1), c) /\ Waiting(Top.stage)
  BY DEF Continued, Returns
<1>2. Convertible(pending')
  BY AskedConvertible DEF Typed, Continued
<1>3. SoundCalls(part, heap', calls')
  BY <1>1, WaitingFacts, ReplacedCalls DEF Typed, Continued, Grown
<1>4. pending' # NoCall
  BY <1>2, PartAssumption DEF Convertible
<1>5. status' = "converting"
  BY <1>1, WaitingFacts DEF Continued
<1>6. QED
  BY <1>2, <1>3, <1>4, <1>5, TypedKept DEF Typed, Continued, Grown

(* An activation that returns keeps the types.                               *)
LEMMA CompletedTyped ==
    ASSUME Typed, NEW ref, Completed(ref)
    PROVE  Typed'
<1>1. /\ calls' = SubSeq(calls, 1, Len(calls) - 1) /\ pending' = pending
      /\ value' = ref /\ memo' = [memo EXCEPT ![Top.at] = ref] /\ ref \in Ptrs
      /\ Waiting(Top.stage)
  BY DEF Completed, Complete, Returns, Filled, Fills
<1>2. SoundCalls(part, heap', calls')
  BY <1>1, WaitingFacts, PoppedCalls DEF Typed, Completed, Grown
<1>3. Kind(part[Top.at]) # "symbol"
  BY <1>1, WaitingFacts DEF SoundCall, Calls, Stages
<1>4. ref \notin Symbols /\ Top.at \in DOMAIN part
  BY <1>1, WaitingFacts, RefAssumption DEF Offsets
<1>5. SoundMemo(part, memo')
  BY <1>1, <1>3, <1>4, MemoWritten DEF Typed
<1>6. pending' = NoCall /\ status' = "converting" /\ value' \in Ref
  BY <1>1, WaitingFacts DEF Completed, Ref
<1>7. QED
  BY <1>2, <1>5, <1>6, TypedKept DEF Typed, Completed, Grown

(* What is written to the heap fills the object of an activation.            *)
LEMMA WrittenFilled ==
    ASSUME SoundHeap(heap), NEW a \in Ptrs, NEW o, Suits(heap, a, o), Puts(heap, a, o, heap'),
           NEW old, old = a \/ (old = NoRef /\ heap[a] = NoObject)
    PROVE  Filled(old, a) /\ Grown /\ heap'[a] = o
<1>1. /\ SoundHeap(heap') /\ KeepsKinds(heap, heap')
      /\ heap'[a] = o /\ \A q \in Ptrs \ {a} : heap'[q] = heap[q]
  BY Written
<1>2. o # NoObject
  BY SoundIsSomething DEF Suits, SoundObject
<1>3. QED
  BY <1>1, <1>2 DEF Filled, Fills, Grown

-----------------------------------------------------------------------------
(* The shape of each action's step.                                          *)
LEMMA BeginClassedShape == Typed /\ BeginClassed => \E c : Begun(c)
<1> SUFFICES ASSUME Typed, BeginClassed
             PROVE  \E c : Begun(c)
  OBVIOUS
<1>1. /\ Calling /\ pending % 4 = 1 /\ Place(pending) \in Offsets
      /\ memo[Place(pending)] = NoRef /\ Place(pending) \notin marked
      /\ Kind(part[Place(pending)]) \in {"binary", "array", "map"}
      /\ marked' = marked \cup {Place(pending)}
  BY DEF BeginClassed, Begins, ObjectAt, Remembered
<1>2. PICK c : c = Call(Place(pending), "class", NoRef, NoRef, 0)
  OBVIOUS
<1>3. /\ c.at = Place(pending) /\ c.stage = "class" /\ c.ref = NoRef /\ c.i = 0 /\ c \in Calls
  BY <1>1, <1>2, CallingFacts DEF Call, Calls, Stages
<1>4. SoundCall(part, heap, c) /\ Asked(part, c) = part[Place(pending)].class
  BY <1>1, <1>3 DEF SoundCall, Asked, Offsets
<1>5. KeepsKinds(heap, heap)
  BY DEF KeepsKinds
<1>6. /\ calls' = Append(calls, c) /\ pending' = part[Place(pending)].class
      /\ UNCHANGED <<part, holes, memo, heap, value, runs, status>>
  BY <1>2 DEF BeginClassed
<1>7. Grown
  BY <1>5, <1>6 DEF Typed, Grown
<1>8. Begun(c)
  BY <1>1, <1>3, <1>4, <1>6, <1>7 DEF Begun
<1>9. QED
  BY <1>8

(* A frame begins with an empty frame, for which the heap has room.          *)
LEMMA BeginFrameShape == Typed /\ BeginFrame => \E c : Begun(c)
<1> SUFFICES ASSUME Typed, BeginFrame
             PROVE  \E c : Begun(c)
  OBVIOUS
<1>1. /\ Calling /\ pending % 4 = 1 /\ Place(pending) \in Offsets
      /\ memo[Place(pending)] = NoRef /\ Place(pending) \notin marked
      /\ Kind(part[Place(pending)]) = "frame"
      /\ marked' = marked \cup {Place(pending)} /\ HasRoom(heap)
  BY DEF BeginFrame, Begins, ObjectAt, Remembered
<1>2. PICK a : a = Fresh(heap)
  OBVIOUS
<1>3. a \in Ptrs /\ heap[a] = NoObject
  BY <1>1, <1>2, FreshAddress
<1>4. PICK c : c = Call(Place(pending), "map", a, NoRef, 0)
  OBVIOUS
<1>5. /\ c.at = Place(pending) /\ c.stage = "map" /\ c.ref = a /\ c.i = 0 /\ c \in Calls
  BY <1>1, <1>3, <1>4, CallingFacts DEF Call, Calls, Stages
<1>6. /\ calls' = Append(calls, c) /\ pending' = part[Place(pending)].class
      /\ heap' = [heap EXCEPT ![a] = NewFrame]
      /\ UNCHANGED <<part, holes, memo, value, runs, status>>
  BY <1>2, <1>4 DEF BeginFrame
<1>7. Filled(NoRef, a) /\ Grown /\ heap'[a] = NewFrame
  <2>1. SoundObject(NewFrame)
    BY NewObjectsSound DEF SoundObject
  <2>2. Suits(heap, a, NewFrame) /\ SoundHeap(heap) /\ Puts(heap, a, NewFrame, heap')
    BY <1>3, <1>6, <2>1 DEF Typed, Suits, Puts
  <2>3. QED
    BY <1>3, <2>2, WrittenFilled
<1>8. SoundCall(part, heap', c) /\ Asked(part, c) = part[Place(pending)].class
  BY <1>1, <1>3, <1>5, <1>7, NewObjectsSound DEF SoundCall, Asked, Offsets
<1>9. Begun(c)
  BY <1>1, <1>5, <1>6, <1>7, <1>8 DEF Begun
<1>10. QED
  BY <1>9

(* A binary completes with its class.                                        *)
LEMMA MakeBinaryShape == Typed /\ MakeBinary => \E ref : Completed(ref)
<1> SUFFICES ASSUME Typed, MakeBinary
             PROVE  \E ref : Completed(ref)
  OBVIOUS
<1>1. /\ Waiting("class") /\ HasRoom(heap) /\ UNCHANGED <<part, holes, marked, runs, status>>
      /\ Kind(Source) = "binary"
  BY DEF MakeBinary, Rest
<1>2. PICK a : a = Fresh(heap)
  OBVIOUS
<1>3. a \in Ptrs /\ heap[a] = NoObject /\ Complete(a)
  BY <1>1, <1>2, FreshAddress DEF MakeBinary
<1>4. PICK o : /\ o = Binary(IF IsSymbolNamed(Source.class, StringName) THEN StringClass ELSE value)
  OBVIOUS
<1>5. SoundObject(o)
  BY <1>1, <1>4, WaitingFacts, BinarySound, PartAssumption DEF SoundObject, Ref
<1>6. Suits(heap, a, o) /\ Puts(heap, a, o, heap')
  BY <1>2, <1>3, <1>4, <1>5 DEF Suits, Puts, MakeBinary
<1>7. Top.ref = NoRef /\ Top.stage = "class" /\ Top.i = 0
  BY <1>1, WaitingFacts DEF SoundCall
<1>8. Filled(Top.ref, a) /\ Grown /\ heap'[a] = o
  BY <1>3, <1>6, <1>7, WrittenFilled DEF Typed
<1>9. Wrote(heap[Top.ref], heap'[a])
  BY <1>1, <1>4, <1>7, <1>8 DEF Wrote
<1>10. Reached(Top) = Len(Source.refs)
  BY <1>1, <1>7, WaitingFacts, KindOf, EmptySeq DEF Reached
<1>11. Completed(a)
  BY <1>1, <1>3, <1>7, <1>8, <1>9, <1>10 DEF Completed, Typed
<1>12. QED
  BY <1>11

(* The next slot of an array, or its end.                                    *)
LEMMA AskSlotShape ==
    ASSUME Typed, NEW stage \in {"class", "slot"}, Waiting(stage),
           UNCHANGED <<part, holes, marked, runs, status>>,
           NEW a, Filled(Top.ref, a), Grown, Wrote(heap[Top.ref], heap'[a]), SoundArray(heap'[a]),
           Kind(Source) \in {"array", "map"},
           AskSlot(a, Reached(Top))
    PROVE  Completed(a) \/ \E c : Continued(c)
<1>1. /\ marked' \subseteq Offsets /\ Top.stage = stage /\ a \in Ptrs
      /\ marked' = marked \cup {Place(Source.class) : s \in {Top.stage} \cap {"map"}}
  BY WaitingFacts DEF Typed, Filled, Fills
<1>2. /\ Reached(Top) \in Nat /\ Len(Source.refs) \in Nat /\ Reached(Top) <= Len(Source.refs)
  BY WaitingFacts, KindOf DEF Reached, SoundCall, Calls
<1>3. CASE Reached(Top) < Len(Source.refs)
  <2>1. PICK c : c = Call(Top.at, "slot", a, NoRef, Reached(Top))
    OBVIOUS
  <2>2. /\ c.at = Top.at /\ c.stage = "slot" /\ c.ref = a /\ c.i = Reached(Top) /\ c \in Calls
    BY <1>1, <1>2, <2>1, WaitingFacts DEF Call, Calls, Stages
  <2>3. SoundCall(part, heap', c) /\ Asked(part, c) = Source.refs[Reached(Top) + 1]
    BY <1>1, <1>3, <2>2, WaitingFacts DEF SoundCall, Asked, Offsets
  <2>4. Ask(c, Asked(part, c))
    BY <1>3, <2>1, <2>3 DEF AskSlot
  <2>5. Follows(Top, c)
    BY <1>1, <2>2 DEF Follows
  <2>6. Continued(c)
    BY <1>1, <2>2, <2>3, <2>4, <2>5 DEF Continued, Ask
  <2>7. QED
    BY <2>6
<1>4. CASE ~(Reached(Top) < Len(Source.refs))
  <2>1. Reached(Top) = Len(Source.refs) /\ Complete(a)
    BY <1>2, <1>4 DEF AskSlot
  <2>2. QED
    BY <1>1, <2>1 DEF Completed
<1>5. QED
  BY <1>3, <1>4

(* An array without slots completes; any other goes on to its first slot.    *)
LEMMA MakeArrayShape == Typed /\ MakeArray => (\E ref : Completed(ref)) \/ (\E c : Continued(c))
<1> SUFFICES ASSUME Typed, MakeArray
             PROVE  (\E ref : Completed(ref)) \/ (\E c : Continued(c))
  OBVIOUS
<1>1. Waiting("class") /\ HasRoom(heap) /\ UNCHANGED <<part, holes, marked, runs, status>>
  BY DEF MakeArray, Rest
<1>2. PICK a : a = Fresh(heap)
  OBVIOUS
<1>3. a \in Ptrs /\ heap[a] = NoObject /\ AskSlot(a, 0)
  BY <1>1, <1>2, FreshAddress DEF MakeArray
<1>4. PICK o : o = NewArray(value, 0)
  OBVIOUS
<1>5. SoundArray(o)
  BY <1>1, <1>4, WaitingFacts, NewObjectsSound
<1>6. Suits(heap, a, o) /\ Puts(heap, a, o, heap')
  BY <1>2, <1>3, <1>4, <1>5 DEF Suits, Puts, MakeArray, SoundObject
<1>7. Top.ref = NoRef /\ Reached(Top) = 0 /\ Kind(Source) \in {"array", "map"}
  BY <1>1, WaitingFacts DEF MakeArray, SoundCall, Reached
<1>8. Filled(Top.ref, a) /\ Grown /\ heap'[a] = o
  BY <1>3, <1>6, <1>7, WrittenFilled DEF Typed
<1>9. Wrote(heap[Top.ref], heap'[a])
  BY <1>1, <1>4, <1>7, <1>8, WaitingFacts DEF Wrote
<1>10. QED
  BY <1>1, <1>3, <1>5, <1>7, <1>8, <1>9, AskSlotShape

(* After a slot comes the next one, or the end.                              *)
LEMMA GetSlotValueShape ==
    Typed /\ GetSlotValue =>
        Dies \/ (\E ref : Completed(ref)) \/ (\E c : Continued(c))
<1> SUFFICES ASSUME Typed, GetSlotValue
             PROVE  Dies \/ (\E ref : Completed(ref)) \/ (\E c : Continued(c))
  OBVIOUS
<1>1. Waiting("slot") /\ SoundCall(part, heap, Top)
  BY WaitingFacts DEF GetSlotValue
<1>2. PICK a \in Ptrs : a = Top.ref
  BY <1>1, WaitingFacts DEF SoundCall
<1>3. Kind(Source) \in {"array", "map"} /\ SoundArray(heap[a]) /\ Reached(Top) = Top.i + 1
  BY <1>1, <1>2, WaitingFacts DEF SoundCall, Reached
<1>4. CASE AddSlotAsserts(heap[a])
  <2>1. PICK o : o = AddSlot(heap[a], value)
    OBVIOUS
  <2>2. SoundArray(o)
    BY <1>1, <1>3, <1>4, <2>1, WaitingFacts, ArrayAddSlot
  <2>3. /\ AskSlot(a, Top.i + 1) /\ UNCHANGED <<part, holes, marked, runs, status>>
        /\ heap' = [heap EXCEPT ![a] = AddSlot(heap[a], value)]
    BY <1>2, <1>4 DEF GetSlotValue, Rest, Typed, SoundHeap
  <2>4. Suits(heap, a, o) /\ Puts(heap, a, o, heap')
    BY <1>3, <2>1, <2>2, <2>3 DEF Suits, Puts
  <2>5. Filled(Top.ref, a) /\ Grown /\ heap'[a] = o
    BY <1>2, <2>4, WrittenFilled DEF Typed
  <2>6. Wrote(heap[Top.ref], heap'[a])
    BY <1>1, <1>2, <1>4, <2>1, <2>5, WaitingFacts DEF Wrote
  <2>7. QED
    BY <1>1, <1>3, <2>2, <2>3, <2>5, <2>6, AskSlotShape
<1>5. CASE ~AddSlotAsserts(heap[a])
  BY <1>2, <1>5 DEF GetSlotValue, Deaths, Dies
<1>6. QED
  BY <1>4, <1>5

(* The next tag of a frame, or its end.                                      *)
LEMMA AskTagShape ==
    ASSUME Typed, NEW stage \in {"map", "value"}, Waiting(stage),
           UNCHANGED <<part, holes, runs, status>>,
           marked' = marked \cup {Place(Source.class) : s \in {stage} \cap {"map"}},
           NEW a, Filled(Top.ref, a), Grown, Wrote(heap[Top.ref], heap'[a]), SoundFrame(heap'[a]),
           Place(Source.class) \in Offsets,
           TagReadable(Reached(Top)), AskTag(a, Reached(Top))
    PROVE  Completed(a) \/ \E c : Continued(c)
<1>1. marked' \subseteq Offsets /\ Top.stage = stage /\ a \in Ptrs
  BY WaitingFacts DEF Typed, Filled, Fills
<1>2. /\ Reached(Top) \in Nat /\ Len(Source.refs) \in Nat /\ Reached(Top) <= Len(Source.refs)
  BY WaitingFacts, KindOf DEF Reached, SoundCall, Calls
<1>3. CASE Reached(Top) = Len(Source.refs)
  BY <1>1, <1>3 DEF AskTag, Completed
<1>4. CASE Reached(Top) # Len(Source.refs)
  <2>1. PICK c : c = Call(Top.at, "tag", a, NoRef, Reached(Top))
    OBVIOUS
  <2>2. /\ c.at = Top.at /\ c.stage = "tag" /\ c.ref = a /\ c.i = Reached(Top) /\ c \in Calls
    BY <1>1, <1>2, <2>1, WaitingFacts DEF Call, Calls, Stages
  <2>3. Reached(Top) < Len(Source.refs)
    BY <1>2, <1>4
  <2>4. Map = MapOf(part, Top.at) /\ TagAt(part, Top.at, Reached(Top))
    BY <2>3, WaitingFacts DEF Map, MapOf, TagAt, TagReadable, Offsets
  <2>5. Kind(Source) = "frame"
    BY WaitingFacts DEF SoundCall
  <2>6. SoundCall(part, heap', c)
    BY <1>1, <2>2, <2>3, <2>4, <2>5, WaitingFacts DEF SoundCall, Offsets
  <2>7. Asked(part, c) = SymbolAt(Reached(Top))
    BY <2>2, <2>4 DEF Asked, SymbolAt
  <2>8. Ask(c, Asked(part, c))
    BY <1>4, <2>1, <2>7 DEF AskTag
  <2>9. Follows(Top, c)
    BY <1>1, <2>2 DEF Follows
  <2>10. Continued(c)
    BY <1>1, <2>2, <2>6, <2>8, <2>9 DEF Continued, Ask
  <2>11. QED
    BY <2>10
<1>5. QED
  BY <1>3, <1>4

(* After the map of a frame comes its first tag, or the end.                 *)
LEMMA GetMapShape ==
    Typed /\ GetMap =>
        Dies \/ (\E ref : Completed(ref)) \/ (\E c : Continued(c))
<1> SUFFICES ASSUME Typed, GetMap
             PROVE  Dies \/ (\E ref : Completed(ref)) \/ (\E c : Continued(c))
  OBVIOUS
<1>1. Waiting("map")
  BY DEF GetMap
<1>2. PICK a \in Ptrs : a = Top.ref
  BY <1>1, WaitingFacts DEF SoundCall
<1>3. CASE Place(Source.class) \notin Offsets
  BY <1>3 DEF GetMap, Deaths, Dies
<1>4. CASE Place(Source.class) \in Offsets /\ ~TagReadable(0)
  BY <1>4 DEF GetMap, Deaths, Dies
<1>5. CASE Place(Source.class) \in Offsets /\ TagReadable(0)
  <2>1. /\ marked' = marked \cup {Place(Source.class)} /\ AskTag(a, 0)
        /\ UNCHANGED <<part, holes, heap, runs, status>>
    BY <1>2, <1>5 DEF GetMap
  <2>2. Grown
    BY <2>1 DEF Typed, KeepsKinds, Grown
  <2>3. SoundFrame(heap'[a]) /\ Reached(Top) = 0 /\ Top.stage = "map"
    BY <1>1, <1>2, <2>1, WaitingFacts DEF SoundCall, Reached
  <2>4. Filled(Top.ref, a)
    BY <1>2, <2>1, <2>3, SoundIsSomething DEF Filled, Fills
  <2>5. marked' = marked \cup {Place(Source.class) : s \in {"map"} \cap {"map"}}
    BY <2>1
  <2>6. Wrote(heap[Top.ref], heap'[a])
    BY <1>2, <2>1, <2>3 DEF Wrote
  <2>7. QED
    BY <1>1, <1>5, <2>1, <2>2, <2>3, <2>4, <2>5, <2>6, AskTagShape
<1>6. QED
  BY <1>3, <1>4, <1>5

(* After a tag comes its value.                                              *)
LEMMA GetTagShape == Typed /\ GetTag => \E c : Continued(c)
<1> SUFFICES ASSUME Typed, GetTag
             PROVE  \E c : Continued(c)
  OBVIOUS
<1>1. Waiting("tag") /\ UNCHANGED <<part, holes, marked, heap, runs, status>>
  BY DEF GetTag, Rest
<1>2. PICK c : c = Call(Top.at, "value", Top.ref, value, Top.i)
  OBVIOUS
<1>3. /\ c.at = Top.at /\ c.stage = "value" /\ c.ref = Top.ref /\ c.i = Top.i /\ c.tag = value
      /\ c \in Calls /\ Top.stage = "tag"
  BY <1>1, <1>2, WaitingFacts DEF Call, Calls, Stages
<1>4. SoundCall(part, heap', c) /\ Asked(part, c) = Source.refs[Top.i + 1]
  BY <1>1, <1>3, WaitingFacts DEF SoundCall, Asked
<1>5. Ask(c, Asked(part, c))
  BY <1>2, <1>4 DEF GetTag
<1>6. /\ marked' \subseteq Offsets /\ Grown
      /\ marked' = marked \cup {Place(Source.class) : s \in {Top.stage} \cap {"map"}}
  BY <1>1, <1>3 DEF Typed, KeepsKinds, Grown
<1>7. Filled(Top.ref, c.ref)
  BY <1>1, <1>3, WaitingFacts, SoundIsSomething DEF SoundCall, Filled, Fills
<1>8. Follows(Top, c)
  BY <1>3 DEF Follows, Reached
<1>9. Wrote(heap[Top.ref], heap'[c.ref])
  BY <1>1, <1>3 DEF Wrote
<1>10. Continued(c)
  BY <1>1, <1>3, <1>4, <1>5, <1>6, <1>7, <1>8, <1>9 DEF Continued, Ask
<1>11. QED
  BY <1>10

(* After a value comes the next tag, or the end.                             *)
LEMMA GetValueShape ==
    Typed /\ GetValue =>
        Dies \/ (\E ref : Completed(ref)) \/ (\E c : Continued(c))
<1> SUFFICES ASSUME Typed, GetValue
             PROVE  Dies \/ (\E ref : Completed(ref)) \/ (\E c : Continued(c))
  OBVIOUS
<1>1. Waiting("value") /\ SoundCall(part, heap, Top)
  BY WaitingFacts DEF GetValue
<1>2. PICK a \in Ptrs : a = Top.ref
  BY <1>1, WaitingFacts DEF SoundCall
<1>3. /\ SoundFrame(heap[a]) /\ Reached(Top) = Top.i + 1 /\ Top.stage = "value"
      /\ Place(Source.class) \in Offsets
  BY <1>1, <1>2, WaitingFacts DEF SoundCall, TagAt, Offsets, Reached
<1>4. CASE /\ Top.tag \in Symbols /\ FrameSetSlotAsserts(heap[a], Top.tag)
           /\ TagReadable(Top.i + 1)
  <2>1. PICK o : o = FrameSetSlot(heap[a], Top.tag, value)
    OBVIOUS
  <2>2. SoundFrame(o)
    BY <1>1, <1>3, <1>4, <2>1, WaitingFacts, FrameSetSlotSound
  <2>3. /\ AskTag(a, Top.i + 1) /\ UNCHANGED <<part, holes, marked, runs, status>>
        /\ heap' = [heap EXCEPT ![a] = FrameSetSlot(heap[a], Top.tag, value)]
    BY <1>2, <1>4 DEF GetValue, Rest, Typed, SoundHeap
  <2>4. Suits(heap, a, o) /\ Puts(heap, a, o, heap')
    BY <1>3, <2>1, <2>2, <2>3 DEF Suits, Puts
  <2>5. Filled(Top.ref, a) /\ Grown /\ heap'[a] = o
    BY <1>2, <2>4, WrittenFilled DEF Typed
  <2>6. marked' = marked \cup {Place(Source.class) : s \in {"value"} \cap {"map"}}
    BY <2>3
  <2>7. Wrote(heap[Top.ref], heap'[a])
    BY <1>2, <1>3, <1>4, <2>1, <2>5 DEF Wrote
  <2>8. QED
    BY <1>1, <1>3, <1>4, <2>2, <2>3, <2>5, <2>6, <2>7, AskTagShape
<1>5. CASE ~ (/\ Top.tag \in Symbols /\ FrameSetSlotAsserts(heap[a], Top.tag)
              /\ TagReadable(Top.i + 1))
  BY <1>2, <1>5 DEF GetValue, Deaths, Dies
<1>6. QED
  BY <1>4, <1>5

(* The end of toNOS keeps the types.                                         *)
LEMMA FinishTyped == Typed /\ Finish => Typed'
<1> SUFFICES ASSUME Typed, Finish
             PROVE  Typed'
  OBVIOUS
<1>1. Offsets' = Offsets
  BY DEF Finish, Offsets
<1>2. QED
  BY <1>1 DEF Typed, Finish

(* The root's slot, when it is taken for a pointer.                          *)
LEMMA ToNOSTyped == Typed /\ ToNOS => Typed'
<1> SUFFICES ASSUME Typed, ToNOS
             PROVE  Typed'
  OBVIOUS
<1>1. Root \in Offsets /\ IsLoaded(part[Root])
  BY RootExists DEF Typed
<1>2. CASE \E how \in Deaths : Die(how)
  BY <1>2, TypedDead
<1>3. CASE ~ \E how \in Deaths : Die(how)
  <2>1. /\ status = "idle" /\ runs < MaxRuns
        /\ Kind(part[Root]) \in Slotted /\ part[Root].refs # << >>
        /\ pending' = Place(part[Root].refs[1]) + 1
        /\ marked' = {Root} /\ value' = NoRef /\ runs' = runs + 1 /\ status' = "converting"
        /\ UNCHANGED <<part, holes, memo, heap, calls>>
    BY <1>3 DEF ToNOS, Deaths
  <2>2. PICK refs : refs = part[Root].refs
    OBVIOUS
  <2>3. refs \in Seq(0 .. Word - 1) /\ refs # << >>
    BY <1>1, <2>1, <2>2 DEF IsLoaded
  <2>4. refs[1] \in 0 .. Word - 1
    <3>1. Len(refs) \in Nat \ {0}
      BY <2>3, EmptySeq, LenProperties
    <3>2. 1 \in 1 .. Len(refs)
      BY <3>1
    <3>3. QED
      BY <2>3, <3>2, ElementOfSeq
  <2>5. Convertible(pending')
    BY <2>1, <2>2, <2>4, Places DEF Convertible
  <2>6. pending' # NoCall
    BY <2>5, PartAssumption DEF Convertible
  <2>7. Offsets' = Offsets
    BY <2>1 DEF Offsets
  <2>8. runs' \in 0 .. MaxRuns
    BY <2>1, PartAssumption DEF Typed
  <2>9. QED
    BY <1>1, <2>1, <2>5, <2>6, <2>7, <2>8 DEF Typed
<1>4. QED
  BY <1>2, <1>3

(* Every variable has its type at the start, and after each step.            *)
LEMMA InitTyped == Init => Typed
<1> SUFFICES ASSUME Init
             PROVE  Typed
  OBVIOUS
<1>1. IsPart(part) /\ MaxRuns \in Nat /\ NoRef \notin Ref
  BY PartAssumption DEF Init
<1>2. SoundMemo(part, memo)
  BY DEF Init, SoundMemo, Offsets
<1>3. SoundCalls(part, heap, calls)
  <2>1. calls = << >> /\ calls \in Seq(Calls) /\ DOMAIN calls = {}
    BY EmptySeq DEF Init
  <2>2. QED
    BY <2>1 DEF SoundCalls
<1>4. SoundHeap(heap)
  BY DEF Init, SoundHeap
<1>5. QED
  BY <1>1, <1>2, <1>3, <1>4 DEF Init, Typed

(* Every step has one of the shapes.                                         *)
LEMMA Shapes ==
    ASSUME Typed, Next
    PROVE  \/ Started \/ Returned \/ ConvertSymbol \/ Finish
           \/ \E c : Begun(c) \/ Continued(c)
           \/ \E ref : Completed(ref)
           \/ Dies \/ DiscoverRecursion
<1>1. CASE ToNOS \/ VisitAll
  BY <1>1 DEF ToNOS, VisitAll, Dies, Deaths, Started, First
<1>2. CASE ConvertImmediate \/ ConvertDangling \/ ReturnRemembered
  BY <1>2 DEF ConvertImmediate, ConvertDangling, ReturnRemembered, ObjectAt, Remembered, Return, Returned,
              Answer, Offsets
<1>3. QED
  BY <1>1, <1>2, BeginClassedShape, BeginFrameShape, MakeBinaryShape, MakeArrayShape,
     GetSlotValueShape, GetMapShape, GetTagShape, GetValueShape
     DEF Next, Step

(* Each step keeps the types.                                                *)
LEMMA NextTyped == Typed /\ [Next]_vars => Typed'
<1> SUFFICES ASSUME Typed, [Next]_vars
             PROVE  Typed'
  OBVIOUS
<1>1. CASE UNCHANGED vars
  <2>1. Offsets' = Offsets
    BY <1>1 DEF vars, Offsets
  <2>2. QED
    BY <1>1, <2>1 DEF Typed, vars
<1>2. CASE VisitAll \/ DiscoverRecursion \/ Dies
  BY <1>2, TypedDead DEF VisitAll, DiscoverRecursion, Deaths, Dies
<1>3. CASE (\E c : Begun(c) \/ Continued(c)) \/ \E ref : Completed(ref)
  BY <1>3, BegunTyped, ContinuedTyped, CompletedTyped
<1>4. QED
  BY <1>1, <1>2, <1>3, ToNOSTyped, FinishTyped, ConvertImmediateTyped, ConvertDanglingTyped,
     ReturnRememberedTyped, ConvertSymbolTyped, BeginClassedShape, BeginFrameShape,
     MakeBinaryShape, MakeArrayShape, GetSlotValueShape, GetMapShape, GetTagShape, GetValueShape
     DEF Next, Step

-----------------------------------------------------------------------------
(* One activation for each object that is being converted, and one object in *)
(* the heap for each activation that has allocated one.                      *)
Distinct(cs) ==
    \A j, k \in DOMAIN cs : cs[j].at = cs[k].at \/ (cs[j].ref = cs[k].ref /\ cs[j].ref # NoRef) => j = k

Unmade(m, c) == m[c.at] = NoRef /\ (c.ref # NoRef => \A o \in DOMAIN m : m[o] # c.ref)

Owned(m, cs) == {m[o] : o \in DOMAIN m} \cup {cs[k].ref : k \in DOMAIN cs}

Once(m, h, cs, mk) ==
    /\ Distinct(cs)
    /\ \A k \in DOMAIN cs : Unmade(m, cs[k]) /\ cs[k].at \in mk
    /\ \A o, q \in DOMAIN m : m[o] # NoRef /\ m[o] = m[q] => o = q
    /\ \A a \in Ptrs : h[a] # NoObject <=> a \in Owned(m, cs)

(* The object that the innermost activation fills is nobody else's.          *)
Own(m, cs, n, ref) ==
    /\ ref \in Ptrs /\ ref # NoRef
    /\ \A o \in DOMAIN m : m[o] # ref
    /\ \A k \in DOMAIN cs \ {n} : cs[k].ref # ref

(* Fills writes to an object that is nobody else's.                          *)
LEMMA OwnObject ==
    ASSUME NEW m, NEW h, NEW g, NEW cs \in Seq(Calls), NEW mk, Once(m, h, cs, mk),
           NEW n \in DOMAIN cs, NEW old, old = cs[n].ref, NEW ref, Fills(h, g, old, ref)
    PROVE  Own(m, cs, n, ref)
<1>1. ref \in Ptrs /\ ref # NoRef
  BY PartAssumption DEF Fills, Ref
<1>2. CASE ref = cs[n].ref
  BY <1>1, <1>2 DEF Once, Distinct, Unmade, Own
<1>3. CASE h[ref] = NoObject
  BY <1>1, <1>3 DEF Once, Owned, Own
<1>4. QED
  BY <1>1, <1>2, <1>3 DEF Fills, Own

(* Ownership is kept when an activation begins,                              *)
LEMMA OncePushed ==
    ASSUME NEW m, NEW h, NEW g, NEW cs \in Seq(Calls), NEW mk, Once(m, h, cs, mk),
           NEW c \in Calls, c.at \in DOMAIN m, m[c.at] = NoRef, c.at \notin mk,
           (c.ref = NoRef /\ g = h) \/ Fills(h, g, NoRef, c.ref),
           NEW d, d = Append(cs, c)
    PROVE  Once(m, g, d, mk \cup {c.at})
<1>1. /\ DOMAIN cs = 1 .. Len(cs) /\ Len(cs) \in Nat /\ DOMAIN d = 1 .. Len(cs) + 1
      /\ \A k \in DOMAIN cs : d[k] = cs[k]
      /\ d[Len(cs) + 1] = c
  BY AppendedSequence
<1>2. PICK n : n = Len(cs) + 1
  OBVIOUS
<1>3. DOMAIN d = DOMAIN cs \cup {n} /\ n \notin DOMAIN cs /\ d[n] = c
  BY <1>1, <1>2
<1>4. c.ref # NoRef => /\ c.ref \in Ptrs /\ h[c.ref] = NoObject
                       /\ \A o \in DOMAIN m : m[o] # c.ref
                       /\ \A k \in DOMAIN cs : cs[k].ref # c.ref
  BY PartAssumption DEF Fills, Once, Owned, Ref
<1>5. \A k \in DOMAIN cs : cs[k].at # c.at
  BY DEF Once
<1>6. Distinct(d)
  BY <1>1, <1>3, <1>4, <1>5 DEF Once, Distinct
<1>7. \A k \in DOMAIN d : Unmade(m, d[k]) /\ d[k].at \in mk \cup {c.at}
  BY <1>1, <1>3, <1>4 DEF Once, Unmade
<1>8. ASSUME NEW a \in Ptrs
      PROVE  g[a] # NoObject <=> a \in Owned(m, d)
  <2>1. a \in Owned(m, d) <=> a \in Owned(m, cs) \/ a = c.ref
    BY <1>1, <1>3 DEF Owned
  <2>2. g[a] # NoObject <=> h[a] # NoObject \/ a = c.ref
    BY PartAssumption DEF Fills, Ref
  <2>3. QED
    BY <2>1, <2>2 DEF Once
<1>9. QED
  BY <1>6, <1>7, <1>8 DEF Once

(* when it goes on,                                                          *)
LEMMA OnceReplaced ==
    ASSUME NEW m, NEW h, NEW g, NEW cs \in Seq(Calls), cs # << >>, NEW mk, NEW nk, mk \subseteq nk,
           Once(m, h, cs, mk),
           NEW c \in Calls, c.at = cs[Len(cs)].at, Fills(h, g, cs[Len(cs)].ref, c.ref),
           NEW d, d = Append(SubSeq(cs, 1, Len(cs) - 1), c)
    PROVE  Once(m, g, d, nk)
<1>1. PICK n : n = Len(cs)
  OBVIOUS
<1>2. /\ DOMAIN cs = 1 .. n /\ n \in Nat \ {0} /\ DOMAIN d = 1 .. n
      /\ \A k \in 1 .. n - 1 : d[k] = cs[k]
      /\ d[n] = c
  BY <1>1, ReplacedLast
<1>3. n \in DOMAIN cs /\ DOMAIN d = DOMAIN cs /\ \A k \in DOMAIN cs \ {n} : d[k] = cs[k]
  BY <1>2
<1>4. /\ c.ref \in Ptrs /\ c.ref # NoRef
      /\ \A o \in DOMAIN m : m[o] # c.ref
      /\ \A k \in DOMAIN cs \ {n} : cs[k].ref # c.ref
  <2>1. PICK old : old = cs[n].ref
    OBVIOUS
  <2>2. Fills(h, g, old, c.ref)
    BY <1>1, <2>1
  <2>3. Own(m, cs, n, c.ref)
    BY <1>3, <2>1, <2>2, OwnObject
  <2>4. QED
    BY <2>3 DEF Own
<1>5. Distinct(d)
  BY <1>1, <1>2, <1>3, <1>4 DEF Once, Distinct
<1>6. \A k \in DOMAIN d : Unmade(m, d[k]) /\ d[k].at \in nk
  BY <1>1, <1>2, <1>3, <1>4 DEF Once, Unmade
<1>7. ASSUME NEW a \in Ptrs
      PROVE  g[a] # NoObject <=> a \in Owned(m, d)
  <2>1. cs[n].ref = c.ref \/ cs[n].ref \notin Ptrs
    BY <1>1, PartAssumption DEF Fills, Ref
  <2>2. a \in Owned(m, d) <=> a \in Owned(m, cs) \/ a = c.ref
    BY <1>2, <1>3, <2>1 DEF Owned
  <2>3. g[a] # NoObject <=> h[a] # NoObject \/ a = c.ref
    BY DEF Fills
  <2>4. QED
    BY <2>2, <2>3 DEF Once
<1>8. QED
  BY <1>5, <1>6, <1>7 DEF Once

(* and when it returns: the object passes from the activation to what is     *)
(* remembered.                                                               *)
LEMMA OnceCompleted ==
    ASSUME NEW m, NEW h, NEW g, NEW cs \in Seq(Calls), cs # << >>, NEW mk, NEW nk, mk \subseteq nk,
           Once(m, h, cs, mk),
           NEW ref, Fills(h, g, cs[Len(cs)].ref, ref),
           \A k \in DOMAIN cs : cs[k].at \in DOMAIN m,
           NEW w, DOMAIN w = DOMAIN m, cs[Len(cs)].at \in DOMAIN m, w[cs[Len(cs)].at] = ref,
           \A o \in DOMAIN m \ {cs[Len(cs)].at} : w[o] = m[o],
           NEW d, d = SubSeq(cs, 1, Len(cs) - 1)
    PROVE  Once(w, g, d, nk)
<1>1. PICK n : n = Len(cs)
  OBVIOUS
<1>2. /\ DOMAIN cs = 1 .. n /\ n \in Nat \ {0} /\ DOMAIN d = 1 .. n - 1
      /\ \A k \in 1 .. n - 1 : d[k] = cs[k]
  BY <1>1, ShortenedSequence, LenProperties
<1>3. n \in DOMAIN cs /\ DOMAIN d = DOMAIN cs \ {n} /\ \A k \in DOMAIN d : d[k] = cs[k]
  BY <1>2
<1>4. /\ ref \in Ptrs /\ ref # NoRef
      /\ \A o \in DOMAIN m : m[o] # ref
      /\ \A k \in DOMAIN cs \ {n} : cs[k].ref # ref
  <2>1. PICK old : old = cs[n].ref
    OBVIOUS
  <2>2. Fills(h, g, old, ref)
    BY <1>1, <2>1
  <2>3. Own(m, cs, n, ref)
    BY <1>3, <2>1, <2>2, OwnObject
  <2>4. QED
    BY <2>3 DEF Own
<1>5. PICK at : at = cs[n].at
  OBVIOUS
<1>6. at \in DOMAIN m /\ w[at] = ref /\ \A o \in DOMAIN m \ {at} : w[o] = m[o]
  BY <1>1, <1>5
<1>7. \A k \in DOMAIN d : cs[k].at # at
  BY <1>3, <1>5 DEF Once, Distinct
<1>8. Distinct(d)
  BY <1>3 DEF Once, Distinct
<1>9. ASSUME NEW k \in DOMAIN d
      PROVE  Unmade(w, d[k]) /\ d[k].at \in nk
  <2>1. k \in DOMAIN cs \ {n} /\ d[k] = cs[k] /\ cs[k].at # at
    BY <1>3, <1>7
  <2>2. /\ m[cs[k].at] = NoRef /\ cs[k].at \in nk
        /\ cs[k].ref # NoRef => \A o \in DOMAIN m : m[o] # cs[k].ref
    BY <2>1 DEF Once, Unmade
  <2>3. w[cs[k].at] = NoRef
    BY <1>6, <2>1, <2>2
  <2>4. cs[k].ref # NoRef => \A o \in DOMAIN w : w[o] # cs[k].ref
    BY <1>4, <1>6, <2>1, <2>2
  <2>5. QED
    BY <2>1, <2>2, <2>3, <2>4 DEF Unmade
<1>10. \A o, q \in DOMAIN w : w[o] # NoRef /\ w[o] = w[q] => o = q
  BY <1>4, <1>6 DEF Once
<1>11. ASSUME NEW a \in Ptrs
       PROVE  g[a] # NoObject <=> a \in Owned(w, d)
  <2>1. cs[n].ref = ref \/ cs[n].ref \notin Ptrs
    BY <1>1, PartAssumption DEF Fills, Ref
  <2>2. m[at] \notin Ptrs
    BY <1>3, <1>5, PartAssumption DEF Once, Unmade, Ref
  <2>3. a \in {w[o] : o \in DOMAIN w} <=> a \in {m[o] : o \in DOMAIN m} \/ a = ref
    BY <1>6, <2>2
  <2>4. a \in {cs[k].ref : k \in DOMAIN cs} => a \in {d[k].ref : k \in DOMAIN d} \/ a = ref
    BY <1>3, <2>1
  <2>5. a \in {d[k].ref : k \in DOMAIN d} => a \in {cs[k].ref : k \in DOMAIN cs}
    BY <1>3
  <2>6. a \in Owned(w, d) <=> a \in Owned(m, cs) \/ a = ref
    BY <2>3, <2>4, <2>5 DEF Owned
  <2>7. g[a] # NoObject <=> h[a] # NoObject \/ a = ref
    BY DEF Fills
  <2>8. QED
    BY <2>6, <2>7 DEF Once
<1>12. QED
  BY <1>8, <1>9, <1>10, <1>11 DEF Once

(* A symbol is not in the heap of the model.                                 *)
LEMMA OnceSymbol ==
    ASSUME NEW m, NEW h, NEW cs \in Seq(Calls), NEW mk, Once(m, h, cs, mk),
           NEW o \in DOMAIN m, m[o] = NoRef, o \notin mk, \A k \in DOMAIN cs : cs[k].at \in DOMAIN m,
           NEW symbol \in Symbols, \A q \in DOMAIN m : m[q] # symbol,
           NEW w, DOMAIN w = DOMAIN m, w[o] = symbol, \A q \in DOMAIN m \ {o} : w[q] = m[q]
    PROVE  Once(w, h, cs, mk \cup {o})
<1>1. symbol # NoRef /\ symbol \notin Ptrs /\ NoRef \notin Ptrs
  BY RefAssumption, PartAssumption DEF Ref
<1>2. ASSUME NEW k \in DOMAIN cs
      PROVE  cs[k].ref \in Ptrs \cup {NoRef}
  <2>1. cs[k] \in Calls
    BY ElementOfSeq, LenProperties
  <2>2. QED
    BY <2>1 DEF Calls
<1>3. ASSUME NEW k \in DOMAIN cs
      PROVE  Unmade(w, cs[k]) /\ cs[k].at \in mk \cup {o}
  <2>1. /\ m[cs[k].at] = NoRef /\ cs[k].at \in mk
        /\ cs[k].ref # NoRef => \A q \in DOMAIN m : m[q] # cs[k].ref
    BY DEF Once, Unmade
  <2>2. w[cs[k].at] = NoRef
    BY <2>1
  <2>3. cs[k].ref # NoRef => \A q \in DOMAIN w : w[q] # cs[k].ref
    BY <1>1, <1>2, <2>1
  <2>4. QED
    BY <2>1, <2>2, <2>3 DEF Unmade
<1>4. \A q, r \in DOMAIN w : w[q] # NoRef /\ w[q] = w[r] => q = r
  BY <1>1 DEF Once
<1>5. \A a \in Ptrs : a \in Owned(w, cs) <=> a \in Owned(m, cs)
  BY <1>1 DEF Owned
<1>6. QED
  BY <1>3, <1>4, <1>5 DEF Once

-----------------------------------------------------------------------------
(* The step of a symbol, which is complete at once.                          *)
LEMMA SymbolFacts ==
    ASSUME Typed, ConvertSymbol
    PROVE  /\ Calling /\ pending % 4 = 1 /\ Place(pending) \in Offsets
           /\ memo[Place(pending)] = NoRef /\ Place(pending) \notin marked
           /\ Kind(part[Place(pending)]) = "symbol"
           /\ marked' = marked \cup {Place(pending)}
           /\ pending' = NoCall
           /\ UNCHANGED <<part, holes, heap, calls, runs, status>>
           /\ value' \in Symbols /\ NameOf[value'] = part[Place(pending)].name
           /\ \A q \in Offsets : memo[q] # value'
           /\ DOMAIN memo' = Offsets /\ memo'[Place(pending)] = value'
           /\ \A q \in Offsets \ {Place(pending)} : memo'[q] = memo[q]
<1>1. /\ Calling /\ pending % 4 = 1 /\ Place(pending) \in Offsets
      /\ memo[Place(pending)] = NoRef /\ Place(pending) \notin marked
      /\ Kind(part[Place(pending)]) = "symbol"
      /\ marked' = marked \cup {Place(pending)}
      /\ UNCHANGED <<part, holes, heap, calls, runs, status>>
  BY DEF ConvertSymbol, Begins, ObjectAt, Remembered
<1>2. PICK used : used = {memo[q] : q \in Offsets}
  OBVIOUS
<1>3. PICK name : name = part[Place(pending)].name
  OBVIOUS
<1>4. PICK symbol : symbol = FreshSymbol(name, used)
  OBVIOUS
<1>5. /\ HasSymbol(name, used) /\ memo' = [memo EXCEPT ![Place(pending)] = symbol]
      /\ value' = symbol /\ pending' = NoCall
  BY <1>2, <1>3, <1>4 DEF ConvertSymbol, Return
<1>6. symbol \in Symbols \ used /\ NameOf[symbol] = name
  BY <1>4, <1>5, SymbolMade
<1>7. DOMAIN memo = Offsets
  BY DEF Typed, SoundMemo, Offsets
<1>8. QED
  BY <1>1, <1>2, <1>3, <1>5, <1>6, <1>7

(* The step that completes the innermost activation.                         *)
LEMMA CompletedFacts ==
    ASSUME Typed, NEW ref, Completed(ref)
    PROVE  /\ calls \in Seq(Calls) /\ calls # << >> /\ Len(calls) \in DOMAIN calls
           /\ Top = calls[Len(calls)] /\ Top.at \in Offsets /\ SoundCall(part, heap, Top)
           /\ calls' = SubSeq(calls, 1, Len(calls) - 1)
           /\ status = "converting" /\ pending = NoCall /\ pending' = NoCall /\ value' = ref
           /\ DOMAIN memo = Offsets /\ DOMAIN memo' = Offsets /\ memo'[Top.at] = ref
           /\ \A q \in Offsets \ {Top.at} : memo'[q] = memo[q]
<1>1. Waiting(Top.stage) /\ Complete(ref)
  BY DEF Completed
<1>2. DOMAIN memo = Offsets
  BY DEF Typed, SoundMemo, Offsets
<1>3. QED
  BY <1>1, <1>2, WaitingFacts DEF Complete, Returns, Top

(* Each step keeps who owns what.                                            *)
LEMMA OnceNext == Typed /\ Once(memo, heap, calls, marked) /\ [Next]_vars
                     => Once(memo, heap, calls, marked)'
<1> SUFFICES ASSUME Typed, Once(memo, heap, calls, marked), [Next]_vars
             PROVE  Once(memo', heap', calls', marked')
  OBVIOUS
<1>1. calls \in Seq(Calls) /\ DOMAIN memo = Offsets
  BY DEF Typed, SoundCalls, SoundMemo, Offsets
<1>2. CASE UNCHANGED <<memo, heap, calls, marked>>
  BY <1>2
<1>3. CASE Started
  <2>1. calls = << >> /\ DOMAIN calls = {}
    BY <1>3, EmptySeq DEF Started, Typed
  <2>2. QED
    BY <1>3, <2>1 DEF Started, Once
<1>4. CASE ConvertSymbol
  <2>1. \A k \in DOMAIN calls : calls[k].at \in DOMAIN memo
    BY <1>1 DEF Typed, SoundCalls, SoundCall, Offsets
  <2>2. QED
    BY <1>1, <1>4, <2>1, SymbolFacts, OnceSymbol
<1>5. ASSUME NEW c, Begun(c)
      PROVE  Once(memo', heap', calls', marked')
  <2>1. /\ c \in Calls /\ c.at \in DOMAIN memo /\ memo[c.at] = NoRef /\ c.at \notin marked
        /\ calls' = Append(calls, c) /\ memo' = memo /\ marked' = marked \cup {c.at}
    BY <1>1, <1>5 DEF Begun
  <2>2. (c.ref = NoRef /\ heap' = heap) \/ Fills(heap, heap', NoRef, c.ref)
    BY <1>5 DEF Begun, Filled
  <2>3. QED
    BY <1>1, <2>1, <2>2, OncePushed
<1>6. ASSUME NEW c, Continued(c)
      PROVE  Once(memo', heap', calls', marked')
  <2>1. /\ c \in Calls /\ c.at = calls[Len(calls)].at /\ calls # << >>
        /\ calls' = Append(SubSeq(calls, 1, Len(calls) - 1), c) /\ memo' = memo
        /\ marked \subseteq marked' /\ Fills(heap, heap', calls[Len(calls)].ref, c.ref)
    BY <1>6 DEF Continued, Waiting, Follows, Top, Returns, Filled
  <2>2. QED
    BY <1>1, <2>1, OnceReplaced
<1>7. ASSUME NEW ref, Completed(ref)
      PROVE  Once(memo', heap', calls', marked')
  <2>1. marked \subseteq marked' /\ Fills(heap, heap', calls[Len(calls)].ref, ref)
    BY <1>7 DEF Completed, Filled, Top
  <2>2. /\ calls # << >> /\ calls' = SubSeq(calls, 1, Len(calls) - 1)
        /\ DOMAIN memo' = DOMAIN memo /\ calls[Len(calls)].at \in DOMAIN memo
        /\ memo'[calls[Len(calls)].at] = ref
        /\ \A o \in DOMAIN memo \ {calls[Len(calls)].at} : memo'[o] = memo[o]
    BY <1>1, <1>7, CompletedFacts
  <2>3. \A k \in DOMAIN calls : calls[k].at \in DOMAIN memo
    BY <1>1 DEF Typed, SoundCalls, SoundCall, Offsets
  <2>4. QED
    BY <1>1, <2>1, <2>2, <2>3, OnceCompleted
<1>8. QED
  BY <1>2, <1>3, <1>4, <1>5, <1>6, <1>7, Shapes
     DEF vars, Returned, Finish, Dies, Die, DiscoverRecursion

(* What is remembered stays.                                                 *)
LEMMA MemoNext ==
    ASSUME Typed, Once(memo, heap, calls, marked), [Next]_vars
    PROVE  \A o \in Offsets : memo[o] # NoRef => memo'[o] = memo[o]
<1>1. ASSUME NEW ref, Completed(ref)
      PROVE  memo[Top.at] = NoRef
  BY <1>1, CompletedFacts DEF Once, Unmade
<1>2. CASE UNCHANGED memo
  BY <1>2
<1>3. CASE ConvertSymbol
  BY <1>3, SymbolFacts
<1>4. CASE \E ref : Completed(ref)
  BY <1>1, <1>4, CompletedFacts
<1>5. QED
  BY <1>2, <1>3, <1>4, Shapes
     DEF vars, Started, Begun, Continued, Returned, Finish, Dies, Die, DiscoverRecursion

-----------------------------------------------------------------------------
(* How the activations hang together: each converts the object that the one  *)
(* below it asked for, and what an activation asked for before is complete.  *)
Done(p, m, ref) == ref % 4 = 1 /\ Place(ref) \in DOMAIN p => m[Place(ref)] # NoRef

SoFar(p, m, c) ==
    /\ c.stage \notin {"class", "map"} => Done(p, m, p[c.at].class)
    /\ \A j \in 1 .. c.i : Done(p, m, p[c.at].refs[j])

Leads(p, c, d) == Asked(p, c) % 4 = 1 /\ Place(Asked(p, c)) = d.at

Chain(p, m, cs, first, ref) ==
    /\ cs = << >> /\ ref # NoCall => ref = first + 1 /\ first \in Nat
    /\ cs # << >> => cs[1].at = first
    /\ cs # << >> => \/ ref = Asked(p, cs[Len(cs)])
                     \/ ref = NoCall /\ Done(p, m, Asked(p, cs[Len(cs)]))
    /\ \A k \in 1 .. Len(cs) - 1 : Leads(p, cs[k], cs[k + 1])
    /\ \A k \in DOMAIN cs : SoFar(p, m, cs[k])

(* More is done when more is remembered.                                     *)
Extends(p, m, w) == \A o \in DOMAIN p : m[o] # NoRef => w[o] = m[o]

(* What an activation asked for before stays complete.                       *)
LEMMA SoFarKept ==
    ASSUME NEW p, NEW m, NEW w, Extends(p, m, w)
    PROVE  /\ \A ref : Done(p, m, ref) => Done(p, w, ref)
           /\ \A c : SoFar(p, m, c) => SoFar(p, w, c)
  BY DEF Extends, Done, SoFar

(* When the value is there, another reference of the object is done.         *)
LEMMA ReachedDone ==
    ASSUME NEW p, NEW m, NEW c \in Calls, SoFar(p, m, c), Done(p, m, Asked(p, c)),
           c.stage \in {"class", "map"} => c.i = 0
    PROVE  /\ Done(p, m, p[c.at].class)
           /\ \A j \in 1 .. Reached(c) : Done(p, m, p[c.at].refs[j])
<1>1. c.i \in Nat /\ c.stage \in Stages
  BY DEF Calls
<1>2. CASE c.stage \in {"class", "map"}
  BY <1>1, <1>2 DEF SoFar, Asked, Reached
<1>3. CASE c.stage = "tag"
  BY <1>1, <1>3 DEF SoFar, Reached
<1>4. CASE c.stage \in {"slot", "value"}
  <2>1. Done(p, m, p[c.at].refs[c.i + 1]) /\ Reached(c) = c.i + 1
    BY <1>4 DEF Asked, Reached
  <2>2. Done(p, m, p[c.at].class) /\ \A j \in 1 .. c.i : Done(p, m, p[c.at].refs[j])
    BY <1>4 DEF SoFar
  <2>3. \A j \in 1 .. Reached(c) : j \in 1 .. c.i \/ j = c.i + 1
    BY <1>1, <2>1
  <2>4. QED
    BY <2>1, <2>2, <2>3
<1>5. QED
  BY <1>1, <1>2, <1>3, <1>4 DEF Stages

(* The activations hang together when one begins,                            *)
LEMMA ChainPushed ==
    ASSUME NEW p, NEW m, NEW cs \in Seq(Calls), NEW first, NEW ref \in 0 .. Word - 1,
           Chain(p, m, cs, first, ref), ref % 4 = 1, NEW c \in Calls, c.at = Place(ref),
           c.stage \in {"class", "map"}, c.i = 0,
           NEW d, d = Append(cs, c)
    PROVE  Chain(p, m, d, first, Asked(p, c))
<1>1. /\ d \in Seq(Calls) /\ Len(cs) \in Nat /\ DOMAIN cs = 1 .. Len(cs)
      /\ Len(d) = Len(cs) + 1 /\ DOMAIN d = 1 .. Len(cs) + 1
      /\ \A k \in 1 .. Len(cs) : d[k] = cs[k]
      /\ d[Len(cs) + 1] = c
  BY AppendedSequence
<1>2. ref # NoCall
  BY PartAssumption
<1>3. SoFar(p, m, c)
  BY DEF SoFar
<1>4. cs = << >> => Len(cs) = 0 /\ c.at = first
  <2>1. ASSUME first \in Nat, ref = first + 1
        PROVE  Place(ref) = first
    BY <2>1, SMT DEF Place
  <2>2. QED
    BY <1>2, <2>1, EmptySeq DEF Chain
<1>5. cs # << >> => /\ Len(cs) \in 1 .. Len(cs) /\ 1 \in 1 .. Len(cs)
                    /\ cs[1].at = first /\ Leads(p, cs[Len(cs)], c)
  <2>1. cs # << >> => Len(cs) \in 1 .. Len(cs) /\ 1 \in 1 .. Len(cs)
    BY EmptySeq, LenProperties
  <2>2. cs # << >> => cs[1].at = first /\ ref = Asked(p, cs[Len(cs)])
    BY <1>2 DEF Chain
  <2>3. QED
    BY <2>1, <2>2 DEF Leads
<1>6. d # << >> /\ d[1].at = first
  BY <1>1, <1>4, <1>5, EmptySeq
<1>7. ASSUME NEW k \in 1 .. Len(d) - 1
      PROVE  Leads(p, d[k], d[k + 1])
  <2>1. CASE k = Len(cs)
    <3>1. k \in 1 .. Len(cs)
      BY <1>1
    <3>2. cs # << >>
      BY <1>4, <2>1, <3>1
    <3>3. Leads(p, cs[k], c) /\ d[k] = cs[k] /\ d[k + 1] = c
      BY <1>1, <1>5, <2>1, <3>1, <3>2
    <3>4. QED
      BY <3>3
  <2>2. CASE k # Len(cs)
    <3>1. k \in 1 .. Len(cs)
      BY <1>1
    <3>2. Len(cs) \in Nat
      BY <1>1
    <3>3. k \in 1 .. Len(cs) - 1 /\ k + 1 \in 1 .. Len(cs)
      BY <2>2, <3>1, <3>2
    <3>4. Leads(p, cs[k], cs[k + 1])
      BY <3>3 DEF Chain
    <3>5. d[k] = cs[k] /\ d[k + 1] = cs[k + 1]
      BY <1>1, <3>1, <3>3
    <3>6. QED
      BY <3>4, <3>5
  <2>3. QED
    BY <2>1, <2>2
<1>8. \A k \in DOMAIN d : SoFar(p, m, d[k])
  BY <1>1, <1>3 DEF Chain
<1>9. QED
  BY <1>1, <1>6, <1>7, <1>8 DEF Chain

(* when the innermost goes on,                                               *)
LEMMA ChainReplaced ==
    ASSUME NEW p, NEW m, NEW cs \in Seq(Calls), cs # << >>, NEW first,
           Chain(p, m, cs, first, NoCall), Asked(p, cs[Len(cs)]) # NoCall,
           cs[Len(cs)].stage \in {"class", "map"} => cs[Len(cs)].i = 0,
           NEW c \in Calls, Follows(cs[Len(cs)], c),
           NEW d, d = Append(SubSeq(cs, 1, Len(cs) - 1), c)
    PROVE  Chain(p, m, d, first, Asked(p, c))
<1>1. PICK n : n = Len(cs)
  OBVIOUS
<1>2. /\ d \in Seq(Calls) /\ DOMAIN cs = 1 .. n /\ n \in Nat \ {0} /\ DOMAIN d = 1 .. n /\ Len(d) = n
      /\ \A k \in 1 .. n - 1 : d[k] = cs[k]
      /\ d[n] = c
  BY <1>1, ReplacedLast
<1>3. PICK top \in Calls : top = cs[n]
  BY <1>1, <1>2, ElementOfSeq
<1>4. Done(p, m, Asked(p, top)) /\ SoFar(p, m, top)
  BY <1>1, <1>2, <1>3 DEF Chain
<1>5. /\ Done(p, m, p[top.at].class)
      /\ \A j \in 1 .. Reached(top) : Done(p, m, p[top.at].refs[j])
  BY <1>1, <1>3, <1>4, ReachedDone
<1>6. c.at = top.at /\ c.i = Reached(top)
  BY <1>1, <1>3 DEF Follows
<1>7. SoFar(p, m, c)
  BY <1>5, <1>6 DEF SoFar
<1>8. \A k \in DOMAIN d : SoFar(p, m, d[k])
  BY <1>2, <1>7 DEF Chain
<1>9. d # << >> /\ d[1].at = first
  BY <1>2, <1>3, <1>6, EmptySeq DEF Chain
<1>10. ASSUME NEW k \in 1 .. n - 1
       PROVE  Leads(p, d[k], d[k + 1])
  <2>1. Leads(p, cs[k], cs[k + 1])
    BY <1>1 DEF Chain
  <2>2. d[k] = cs[k] /\ d[k + 1].at = cs[k + 1].at
    <3>1. CASE k = n - 1
      BY <1>2, <1>3, <1>6, <3>1
    <3>2. CASE k # n - 1
      BY <1>2, <3>2
    <3>3. QED
      BY <3>1, <3>2
  <2>3. QED
    BY <2>1, <2>2 DEF Leads
<1>11. QED
  BY <1>2, <1>8, <1>9, <1>10 DEF Chain

(* and when it returns.                                                      *)
LEMMA ChainPopped ==
    ASSUME NEW p, NEW m, NEW w, NEW cs \in Seq(Calls), cs # << >>, NEW first,
           Chain(p, m, cs, first, NoCall), Extends(p, m, w),
           w[cs[Len(cs)].at] # NoRef,
           NEW d, d = SubSeq(cs, 1, Len(cs) - 1)
    PROVE  Chain(p, w, d, first, NoCall)
<1>1. PICK n : n = Len(cs)
  OBVIOUS
<1>2. /\ d \in Seq(Calls) /\ DOMAIN cs = 1 .. n /\ n \in Nat \ {0} /\ DOMAIN d = 1 .. n - 1
      /\ \A k \in 1 .. n - 1 : d[k] = cs[k]
  BY <1>1, ShortenedSequence, LenProperties
<1>3. Len(d) = n - 1
  BY <1>2, LenProperties
<1>4. \A k \in DOMAIN d : SoFar(p, w, d[k])
  BY <1>2, SoFarKept DEF Chain
<1>5. \A k \in 1 .. Len(d) - 1 : Leads(p, d[k], d[k + 1])
  BY <1>1, <1>2, <1>3 DEF Chain
<1>6. CASE d # << >>
  <2>1. n - 1 \in 1 .. n - 1 /\ 1 \in 1 .. n - 1
    BY <1>2, <1>3, <1>6, EmptySeq
  <2>2. d[1].at = first
    BY <1>2, <2>1 DEF Chain
  <2>3. Leads(p, cs[n - 1], cs[n])
    BY <1>1, <1>2, <2>1 DEF Chain
  <2>4. Done(p, w, Asked(p, d[n - 1]))
    BY <1>1, <1>2, <2>1, <2>3 DEF Leads, Done
  <2>5. QED
    BY <1>3, <1>4, <1>5, <2>2, <2>4 DEF Chain
<1>7. CASE d = << >>
  BY <1>4, <1>5, <1>7 DEF Chain
<1>8. QED
  BY <1>6, <1>7

(* The innermost activation got an answer, or another object was remembered. *)
LEMMA ChainAnswered ==
    ASSUME NEW p, NEW m, NEW w, NEW cs, NEW first, NEW ref, ref # NoCall,
           Chain(p, m, cs, first, ref), Extends(p, m, w), Done(p, w, ref)
    PROVE  Chain(p, w, cs, first, NoCall)
  BY SoFarKept DEF Chain

-----------------------------------------------------------------------------
(* The objects that are complete refer to complete objects only, and there   *)
(* is no cycle among them.                                                   *)
PointersIn(p, o) ==
    {Place(ref) : ref \in {r \in {p[o].class} \cup {p[o].refs[i] : i \in DOMAIN p[o].refs} : r % 4 = 1}}

CycleIn(p, set) ==
    \E cycle \in SUBSET set : cycle # {} /\ \A o \in cycle : PointersIn(p, o) \cap cycle # {}

Made(p, m) == {o \in DOMAIN p : m[o] # NoRef}

Closed(p, m) == \A o \in Made(p, m) : \A q \in PointersIn(p, o) \cap DOMAIN p : q \in Made(p, m)

Acyclic(p, m) == Closed(p, m) /\ ~CycleIn(p, Made(p, m))

(* The operators of PartConversion are those above, of the current part.     *)
LEMMA Cycles ==
    /\ \A o : Pointers(o) = PointersIn(part, o)
    /\ \A set : HasCycle(set) <=> CycleIn(part, set)
    /\ Converted = Made(part, memo)
<1>1. \A o : Pointers(o) = PointersIn(part, o)
  BY DEF Pointers, RefsOf, PointersIn
<1>2. ASSUME NEW set
      PROVE  HasCycle(set) <=> CycleIn(part, set)
  <2>1. \A cycle \in SUBSET set : cycle # {} => cycle \in (SUBSET set) \ {{}}
    OBVIOUS
  <2>2. \A cycle \in (SUBSET set) \ {{}} : cycle \in SUBSET set /\ cycle # {}
    OBVIOUS
  <2>3. CycleIn(part, set) => HasCycle(set)
    BY <1>1, <2>1 DEF HasCycle, CycleIn
  <2>4. HasCycle(set) => CycleIn(part, set)
    BY <1>1, <2>2 DEF HasCycle, CycleIn
  <2>5. QED
    BY <2>3, <2>4
<1>3. QED
  BY <1>1, <1>2 DEF Converted, Made, Offsets

(* An object that becomes complete last is on no cycle.                      *)
LEMMA AcyclicKept ==
    ASSUME NEW p, NEW m, Acyclic(p, m), NEW at \in DOMAIN p, m[at] = NoRef,
           PointersIn(p, at) \cap DOMAIN p \subseteq Made(p, m),
           NEW w, w[at] # NoRef, \A o \in DOMAIN p \ {at} : w[o] = m[o]
    PROVE  Acyclic(p, w)
<1>1. Made(p, w) = Made(p, m) \cup {at} /\ at \notin Made(p, m) /\ Made(p, m) \subseteq DOMAIN p
  BY DEF Made
<1>2. Closed(p, w)
  BY <1>1 DEF Acyclic, Closed
<1>3. ASSUME NEW cycle \in SUBSET Made(p, w), cycle # {},
             \A o \in cycle : PointersIn(p, o) \cap cycle # {}
      PROVE  FALSE
  <2>1. PICK rest : rest = cycle \ {at}
    OBVIOUS
  <2>2. rest \in SUBSET Made(p, m)
    BY <1>1, <2>1
  <2>3. \A o \in cycle : at \notin PointersIn(p, o)
    BY <1>1 DEF Acyclic, Closed
  <2>4. \A o \in cycle : PointersIn(p, o) \cap rest # {}
    BY <1>3, <2>1, <2>3
  <2>5. rest # {}
    BY <1>3, <2>4
  <2>6. CycleIn(p, Made(p, m))
    BY <2>1, <2>2, <2>4, <2>5 DEF CycleIn
  <2>7. QED
    BY <2>6 DEF Acyclic
<1>4. QED
  BY <1>2, <1>3 DEF Acyclic, CycleIn

(* An object whose references are all done refers to what is complete.       *)
LEMMA DonePointers ==
    ASSUME NEW p, NEW m, NEW o \in DOMAIN p, Done(p, m, p[o].class),
           \A j \in DOMAIN p[o].refs : Done(p, m, p[o].refs[j])
    PROVE  PointersIn(p, o) \cap DOMAIN p \subseteq Made(p, m)
  BY DEF PointersIn, Made, Done

(* A symbol refers to nothing.                                               *)
LEMMA SymbolPointsNowhere ==
    ASSUME NEW p, NEW o \in DOMAIN p, IsLoaded(p[o]), Kind(p[o]) = "symbol"
    PROVE  PointersIn(p, o) = {}
<1>1. p[o].class % 4 = 2 /\ p[o].refs = << >>
  BY KindOf, PartAssumption
<1>2. DOMAIN p[o].refs = {}
  BY <1>1, EmptySeq
<1>3. QED
  BY <1>1, <1>2 DEF PointersIn

(* An activation asks for an object that its object refers to, or for a tag  *)
(* in the map of its object, which is complete when that is a pointer.       *)
LEMMA AskedPointer ==
    ASSUME NEW p, NEW h, NEW c \in Calls, SoundCall(p, h, c), IsLoaded(p[c.at]),
           c.stage # "tag", Asked(p, c) % 4 = 1
    PROVE  Place(Asked(p, c)) \in PointersIn(p, c.at)
<1>1. c.stage \in Stages /\ c.i \in Nat
  BY DEF Calls
<1>2. CASE c.stage \in {"class", "map"}
  BY <1>2 DEF Asked, PointersIn
<1>3. CASE c.stage \in {"slot", "value"}
  <2>1. c.i < Len(p[c.at].refs)
    BY <1>3 DEF SoundCall
  <2>2. c.i + 1 \in DOMAIN p[c.at].refs
    BY <1>1, <2>1, KindOf
  <2>3. QED
    BY <1>3, <2>2 DEF Asked, PointersIn
<1>4. QED
  BY <1>1, <1>2, <1>3 DEF Stages

(* A tag is complete when the map is.                                        *)
LEMMA TagDone ==
    ASSUME NEW p, IsPart(p), NEW m, Closed(p, m), NEW h, NEW c \in Calls, SoundCall(p, h, c),
           SoFar(p, m, c), c.stage = "tag", p[c.at].class % 4 = 1
    PROVE  Done(p, m, Asked(p, c))
<1>1. c.i \in Nat /\ TagAt(p, c.at, c.i) /\ Done(p, m, p[c.at].class)
  BY DEF Calls, SoundCall, SoFar
<1>2. PICK at : at = Place(p[c.at].class)
  OBVIOUS
<1>3. at \in DOMAIN p /\ MapOf(p, c.at) = p[at] /\ c.i + 2 <= Len(p[at].refs)
  BY <1>1, <1>2 DEF TagAt, MapOf
<1>4. at \in Made(p, m)
  BY <1>1, <1>2, <1>3 DEF Done, Made
<1>5. IsLoaded(p[at])
  BY <1>3 DEF IsPart
<1>6. c.i + 2 \in DOMAIN p[at].refs
  BY <1>1, <1>3, <1>5, KindOf
<1>7. Asked(p, c) = p[at].refs[c.i + 2]
  BY <1>3 DEF Asked
<1>8. Asked(p, c) % 4 = 1 => Place(Asked(p, c)) \in PointersIn(p, at)
  BY <1>6, <1>7 DEF PointersIn
<1>9. QED
  BY <1>4, <1>8 DEF Closed, Made, Done

-----------------------------------------------------------------------------
(* Marks, activations and what is complete.                                  *)
Linked ==
    /\ Chain(part, memo, calls, First, pending)
    /\ Acyclic(part, memo)
    /\ PointersWhereRequired => marked \subseteq {Root} \cup Open \cup Made(part, memo)
    /\ status = "recursion" /\ PointersWhereRequired => CycleIn(part, {Root} \cup Open)

(* What depends on the part only.                                            *)
LEMMA SamePart ==
    ASSUME part' = part
    PROVE  /\ Offsets' = Offsets /\ Root' = Root /\ First' = First
           /\ PointersWhereRequired' <=> PointersWhereRequired
  BY DEF Offsets, Root, First, PointersWhereRequired

(* The slot of the root is a pointer.                                        *)
LEMMA RootPoints ==
    ASSUME Typed, Kind(part[Root]) \in Slotted, part[Root].refs # << >>
    PROVE  /\ First \in Nat /\ First = Place(First + 1) /\ First + 1 \in 0 .. Word - 1
           /\ (First + 1) % 4 = 1
           /\ PointersWhereRequired => First \in PointersIn(part, Root)
<1>1. PICK refs : refs = part[Root].refs
  OBVIOUS
<1>2. refs \in Seq(0 .. Word - 1) /\ refs # << >> /\ IsLoaded(part[Root])
  BY <1>1, RootExists DEF IsLoaded, Typed
<1>3. Len(refs) \in Nat \ {0} /\ DOMAIN refs = 1 .. Len(refs)
  BY <1>2, EmptySeq, LenProperties
<1>4. 1 \in DOMAIN refs
  BY <1>3
<1>5. refs[1] \in 0 .. Word - 1
  BY <1>2, <1>3, <1>4, ElementOfSeq
<1>6. PointersWhereRequired => First \in PointersIn(part, Root)
  BY <1>1, <1>4 DEF PointersWhereRequired, PointersIn, First
<1>7. First = Place(refs[1])
  BY <1>1 DEF First
<1>8. QED
  BY <1>5, <1>6, <1>7, Places

(* A mark that is found set closes a cycle of objects that are being         *)
(* converted.                                                                *)
LEMMA RecursionIsCycle ==
    ASSUME Typed, Once(memo, heap, calls, marked), Linked, PointersWhereRequired, Calling,
           pending % 4 = 1, Place(pending) \in Offsets, memo[Place(pending)] = NoRef,
           Place(pending) \in marked
    PROVE  CycleIn(part, {Root} \cup Open)
<1>1. PICK at : at = Place(pending)
  OBVIOUS
<1>2. at \in {Root} \cup Open
  BY <1>1 DEF Linked, Made
<1>3. First \in PointersIn(part, Root)
  BY RootPoints DEF PointersWhereRequired
<1>4. Chain(part, memo, calls, First, pending) /\ Closed(part, memo) /\ pending # NoCall
      /\ IsPart(part) /\ SoundCalls(part, heap, calls)
  BY DEF Linked, Acyclic, Calling, Typed
<1>5. CASE calls = << >>
  <2>1. pending = First + 1 /\ Open = {}
    BY <1>4, <1>5, EmptySeq DEF Chain, Open
  <2>2. at = First
    BY <1>1, <2>1, RootPoints DEF PointersWhereRequired
  <2>3. at = Root
    BY <1>2, <2>1
  <2>4. PointersIn(part, Root) \cap {Root} # {}
    BY <1>3, <2>2, <2>3
  <2>5. QED
    BY <2>4 DEF CycleIn
<1>6. CASE calls # << >>
  <2>1. PICK n : n = Len(calls)
    OBVIOUS
  <2>2. calls \in Seq(Calls) /\ n \in Nat \ {0} /\ DOMAIN calls = 1 .. n
    BY <1>4, <1>6, <2>1, LastCall
  <2>3. ASSUME NEW k \in 1 .. n, Asked(part, calls[k]) % 4 = 1, NEW to \in Offsets,
               to = Place(Asked(part, calls[k])), memo[to] = NoRef
        PROVE  to \in PointersIn(part, calls[k].at)
    <3>1. PICK c \in Calls : c = calls[k]
      BY <2>2, ElementOfSeq, LenProperties
    <3>2. SoundCall(part, heap, c) /\ SoFar(part, memo, c)
      BY <1>4, <2>2, <3>1 DEF SoundCalls, Chain
    <3>3. c.at \in DOMAIN part /\ IsLoaded(part[c.at])
      BY <1>4, <3>2 DEF SoundCall, IsPart
    <3>4. Asked(part, c) % 4 = 1 /\ to = Place(Asked(part, c)) /\ ~Done(part, memo, Asked(part, c))
      BY <2>3, <3>1 DEF Done, Offsets
    <3>5. c.stage = "tag" => part[c.at].class % 4 = 1
      BY <3>2, <3>3 DEF SoundCall, PointersWhereRequired, Offsets
    <3>6. c.stage # "tag"
      BY <1>4, <3>2, <3>4, <3>5, TagDone
    <3>7. QED
      BY <3>1, <3>2, <3>3, <3>4, <3>6, AskedPointer
  <2>4. pending = Asked(part, calls[n])
    BY <1>4, <1>6, <2>1 DEF Chain
  <2>5. at \in PointersIn(part, calls[n].at)
    BY <1>1, <2>2, <2>3, <2>4
  <2>6. ASSUME NEW k \in 1 .. n - 1
        PROVE  calls[k + 1].at \in PointersIn(part, calls[k].at)
    <3>1. k \in 1 .. n /\ k + 1 \in 1 .. n
      BY <2>2
    <3>2. Leads(part, calls[k], calls[k + 1])
      BY <1>4, <2>1 DEF Chain
    <3>3. calls[k + 1].at \in Offsets /\ memo[calls[k + 1].at] = NoRef
      BY <1>4, <2>2, <3>1 DEF SoundCalls, SoundCall, Once, Unmade, Offsets
    <3>4. QED
      BY <2>3, <3>1, <3>2, <3>3 DEF Leads
  <2>7. calls[1].at = First
    BY <1>4, <1>6 DEF Chain
  <2>8. CASE at = Root
    <3>1. PICK cycle : cycle = {Root} \cup Open
      OBVIOUS
    <3>2. PointersIn(part, Root) \cap cycle # {}
      BY <1>3, <2>2, <2>7, <3>1 DEF Open
    <3>3. ASSUME NEW k \in 1 .. n
          PROVE  PointersIn(part, calls[k].at) \cap cycle # {}
      <4>1. CASE k = n
        BY <2>5, <2>8, <3>1, <4>1
      <4>2. CASE k # n
        <5>1. k \in 1 .. n - 1 /\ k + 1 \in 1 .. n
          BY <2>2, <4>2
        <5>2. calls[k + 1].at \in cycle
          BY <2>2, <3>1, <5>1 DEF Open
        <5>3. QED
          BY <2>6, <5>1, <5>2
      <4>3. QED
        BY <4>1, <4>2
    <3>4. \A o \in cycle : PointersIn(part, o) \cap cycle # {}
      BY <2>2, <3>1, <3>2, <3>3 DEF Open
    <3>5. QED
      BY <3>1, <3>4 DEF CycleIn
  <2>9. CASE at \in Open
    <3>1. PICK j \in 1 .. n : at = calls[j].at
      BY <2>2, <2>9 DEF Open
    <3>2. PICK cycle : cycle = {calls[k].at : k \in j .. n}
      OBVIOUS
    <3>3. \A k \in j .. n : k \in 1 .. n
      BY <2>2
    <3>4. cycle \in SUBSET ({Root} \cup Open) /\ at \in cycle
      BY <2>2, <3>1, <3>2, <3>3 DEF Open
    <3>5. ASSUME NEW k \in j .. n
          PROVE  PointersIn(part, calls[k].at) \cap cycle # {}
      <4>1. CASE k = n
        BY <2>5, <3>4, <4>1
      <4>2. CASE k # n
        <5>1. k \in 1 .. n - 1 /\ k + 1 \in j .. n
          BY <2>2, <4>2
        <5>2. calls[k + 1].at \in cycle
          BY <3>2, <5>1
        <5>3. QED
          BY <2>6, <5>1, <5>2
      <4>3. QED
        BY <4>1, <4>2
    <3>6. \A o \in cycle : PointersIn(part, o) \cap cycle # {}
      BY <3>2, <3>5
    <3>7. QED
      BY <3>4, <3>6 DEF CycleIn
  <2>10. QED
    BY <1>2, <2>8, <2>9
<1>7. QED
  BY <1>5, <1>6

-----------------------------------------------------------------------------
(* What a step has to show to keep Linked.                                   *)
LEMMA LinkedKept ==
    ASSUME part' = part,
           Chain(part, memo', calls', First, pending'),
           Acyclic(part, memo'),
           PointersWhereRequired => marked' \subseteq {Root} \cup Open' \cup Made(part, memo'),
           status' # "recursion"
    PROVE  Linked'
  BY SamePart DEF Linked

(* The objects of the activations.                                           *)
LEMMA OpenPushed ==
    ASSUME NEW cs \in Seq(Calls), NEW c \in Calls, calls = cs, calls' = Append(cs, c)
    PROVE  Open' = Open \cup {c.at}
<1>1. /\ DOMAIN cs = 1 .. Len(cs) /\ DOMAIN calls' = 1 .. Len(cs) + 1 /\ Len(cs) \in Nat
      /\ \A k \in 1 .. Len(cs) : calls'[k] = cs[k]
      /\ calls'[Len(cs) + 1] = c
  BY AppendedSequence
<1>2. DOMAIN calls' = DOMAIN cs \cup {Len(cs) + 1}
  BY <1>1
<1>3. QED
  BY <1>1, <1>2 DEF Open

(* ... one less is open when it returns,                                     *)
LEMMA OpenPopped ==
    ASSUME NEW cs \in Seq(Calls), cs # << >>, calls = cs, calls' = SubSeq(cs, 1, Len(cs) - 1)
    PROVE  Open = Open' \cup {cs[Len(cs)].at}
<1>1. PICK n : n = Len(cs)
  OBVIOUS
<1>2. /\ DOMAIN cs = 1 .. n /\ DOMAIN calls' = 1 .. n - 1 /\ n \in Nat \ {0}
      /\ \A k \in 1 .. n - 1 : calls'[k] = cs[k]
  BY <1>1, ShortenedSequence, LenProperties
<1>3. DOMAIN cs = DOMAIN calls' \cup {n} /\ \A k \in DOMAIN calls' : calls'[k].at = cs[k].at
  BY <1>2
<1>4. QED
  BY <1>1, <1>3 DEF Open

(* ... and the same are open when it goes on.                                *)
LEMMA OpenReplaced ==
    ASSUME NEW cs \in Seq(Calls), cs # << >>, NEW c \in Calls, calls = cs,
           calls' = Append(SubSeq(cs, 1, Len(cs) - 1), c), c.at = cs[Len(cs)].at
    PROVE  Open' = Open
<1>1. PICK n : n = Len(cs)
  OBVIOUS
<1>2. /\ DOMAIN cs = 1 .. n /\ n \in Nat \ {0} /\ DOMAIN calls' = 1 .. n
      /\ \A k \in 1 .. n - 1 : calls'[k] = cs[k]
      /\ calls'[n] = c
  BY <1>1, ReplacedLast
<1>3. ASSUME NEW k \in 1 .. n
      PROVE  calls'[k].at = cs[k].at
  <2>1. CASE k = n
    BY <1>1, <1>2, <2>1
  <2>2. CASE k # n
    BY <1>2, <2>2
  <2>3. QED
    BY <2>1, <2>2
<1>4. QED
  BY <1>2, <1>3 DEF Open

(* The call of the client keeps how things hang together.                    *)
LEMMA StartedLinked == Typed /\ Linked /\ Started => Linked'
<1> SUFFICES ASSUME Typed, Linked, Started
             PROVE  Linked'
  OBVIOUS
<1>1. /\ calls = << >> /\ calls' = << >> /\ pending' = First + 1 /\ marked' = {Root}
      /\ part' = part /\ memo' = memo /\ status' = "converting"
  BY DEF Started, Typed
<1>2. First \in Nat
  BY RootPoints DEF Started
<1>3. Chain(part, memo', calls', First, pending')
  BY <1>1, <1>2, EmptySeq DEF Chain
<1>4. QED
  BY <1>1, <1>3, LinkedKept DEF Linked

(* An answer that leaves the activations as they are.                        *)
LEMMA AnsweredLinked ==
    ASSUME Typed, Linked, Calling, part' = part, calls' = calls, status' = status, pending' = NoCall,
           Extends(part, memo, memo'), Done(part, memo', pending), Acyclic(part, memo'),
           PointersWhereRequired => marked' \subseteq {Root} \cup Open \cup Made(part, memo')
    PROVE  Linked'
<1>1. Chain(part, memo', calls', First, pending')
  BY ChainAnswered DEF Linked, Calling
<1>2. Open' = Open
  BY DEF Open
<1>3. QED
  BY <1>1, <1>2, LinkedKept DEF Calling

(* So do an answer that refToNOS has at once,                                *)
LEMMA ReturnedLinked == Typed /\ Linked /\ Returned => Linked'
<1> SUFFICES ASSUME Typed, Linked, Returned
             PROVE  Linked'
  OBVIOUS
<1>1. Done(part, memo', pending) /\ Extends(part, memo, memo') /\ Made(part, memo') = Made(part, memo)
  BY DEF Returned, Done, Extends, Offsets, Made
<1>2. QED
  BY <1>1, AnsweredLinked DEF Linked, Returned

(* a symbol, which closes no cycle,                                          *)
LEMMA ConvertSymbolLinked == Typed /\ Linked /\ ConvertSymbol => Linked'
<1> SUFFICES ASSUME Typed, Linked, ConvertSymbol
             PROVE  Linked'
  OBVIOUS
<1>1. PICK at \in DOMAIN part : at = Place(pending)
  BY SymbolFacts DEF Offsets
<1>2. /\ Calling /\ pending % 4 = 1 /\ memo[at] = NoRef /\ Kind(part[at]) = "symbol"
      /\ marked' = marked \cup {at} /\ pending' = NoCall
      /\ UNCHANGED <<part, calls, status>>
      /\ memo'[at] = value' /\ value' \in Symbols
      /\ \A q \in DOMAIN part \ {at} : memo'[q] = memo[q]
  BY <1>1, SymbolFacts DEF Offsets
<1>3. memo'[at] # NoRef
  BY <1>2, PartAssumption DEF Ref
<1>4. Extends(part, memo, memo') /\ Done(part, memo', pending)
  BY <1>1, <1>2, <1>3 DEF Extends, Done
<1>5. PointersIn(part, at) = {}
  BY <1>2, SymbolPointsNowhere DEF Typed, IsPart
<1>6. PointersIn(part, at) \cap DOMAIN part \subseteq Made(part, memo)
  BY <1>5
<1>7. Acyclic(part, memo')
  BY <1>2, <1>3, <1>6, AcyclicKept DEF Linked
<1>8. Made(part, memo') = Made(part, memo) \cup {at}
  BY <1>2, <1>3 DEF Made
<1>9. PointersWhereRequired => marked' \subseteq {Root} \cup Open \cup Made(part, memo')
  BY <1>2, <1>8 DEF Linked
<1>10. QED
  BY <1>2, <1>4, <1>7, <1>9, AnsweredLinked

(* an activation that begins,                                                *)
LEMMA BegunLinked ==
    ASSUME Typed, Linked, NEW c, Begun(c)
    PROVE  Linked'
<1>1. /\ c \in Calls /\ c.at = Place(pending) /\ c.stage \in {"class", "map"} /\ pending % 4 = 1
      /\ calls' = Append(calls, c) /\ pending' = Asked(part, c) /\ marked' = marked \cup {c.at}
      /\ UNCHANGED <<part, memo, status>> /\ Calling /\ SoundCall(part, heap', c)
  BY DEF Begun
<1>2. c.i = 0 /\ calls \in Seq(Calls)
  BY <1>1 DEF SoundCall, Typed, SoundCalls
<1>3. pending \in 0 .. Word - 1 /\ status' = "converting"
  BY <1>1, CallingFacts
<1>4. Chain(part, memo', calls', First, pending')
  BY <1>1, <1>2, <1>3, ChainPushed DEF Linked
<1>5. Open' = Open \cup {c.at}
  BY <1>1, <1>2, OpenPushed
<1>6. PointersWhereRequired => marked' \subseteq {Root} \cup Open' \cup Made(part, memo')
  BY <1>1, <1>5 DEF Linked
<1>7. QED
  BY <1>1, <1>3, <1>4, <1>6, LinkedKept DEF Linked

(* A map that is marked is complete.                                         *)
LEMMA MarksOfMaps ==
    ASSUME Typed, Linked, Waiting(Top.stage),
           marked' = marked \cup {Place(Source.class) : s \in {Top.stage} \cap {"map"}},
           marked' \subseteq Offsets, PointersWhereRequired
    PROVE  marked' \subseteq {Root} \cup Open \cup Made(part, memo)
<1>1. marked \subseteq {Root} \cup Open \cup Made(part, memo)
  BY DEF Linked
<1>2. CASE Top.stage = "map"
  <2>1. Done(part, memo, Asked(part, Top)) /\ Asked(part, Top) = Source.class
    BY <1>2, WaitingFacts, AskedConvertible, PartAssumption
       DEF Linked, Chain, Typed, Asked, Top, Convertible
  <2>2. Source.class % 4 = 1
    BY <1>2, WaitingFacts DEF PointersWhereRequired, SoundCall
  <2>3. Place(Source.class) \in Made(part, memo)
    BY <1>2, <2>1, <2>2 DEF Done, Made, Offsets
  <2>4. QED
    BY <1>1, <1>2, <2>3
<1>3. CASE Top.stage # "map"
  BY <1>1, <1>3
<1>4. QED
  BY <1>2, <1>3

(* one that goes on,                                                         *)
LEMMA ContinuedLinked ==
    ASSUME Typed, Linked, NEW c, Continued(c)
    PROVE  Linked'
<1>1. /\ c \in Calls /\ Follows(Top, c) /\ Waiting(Top.stage)
      /\ calls' = Append(SubSeq(calls, 1, Len(calls) - 1), c) /\ pending' = Asked(part, c)
      /\ UNCHANGED <<part, memo, status>>
  BY DEF Continued, Returns
<1>2. /\ calls \in Seq(Calls) /\ calls # << >> /\ pending = NoCall /\ status = "converting"
      /\ Top \in Calls /\ SoundCall(part, heap, Top) /\ Top = calls[Len(calls)]
  BY <1>1, WaitingFacts DEF Top
<1>3. Asked(part, Top) # NoCall /\ (Top.stage \in {"class", "map"} => Top.i = 0)
  <2>1. Convertible(Asked(part, Top))
    BY <1>2, AskedConvertible DEF Typed
  <2>2. QED
    BY <1>2, <2>1, PartAssumption DEF SoundCall, Convertible
<1>4. Chain(part, memo', calls', First, pending')
  BY <1>1, <1>2, <1>3, ChainReplaced DEF Linked
<1>5. Open' = Open
  BY <1>1, <1>2, OpenReplaced DEF Follows
<1>6. PointersWhereRequired => marked' \subseteq {Root} \cup Open' \cup Made(part, memo')
  BY <1>1, <1>5, MarksOfMaps DEF Continued
<1>7. QED
  BY <1>1, <1>2, <1>4, <1>6, LinkedKept DEF Linked

(* and one that returns: all that its object refers to is complete before    *)
(* it.                                                                       *)
LEMMA CompletedLinked ==
    ASSUME Typed, Once(memo, heap, calls, marked), Linked, NEW ref, Completed(ref)
    PROVE  Linked'
<1>1. /\ calls \in Seq(Calls) /\ calls # << >> /\ pending = NoCall /\ status = "converting"
      /\ Top = calls[Len(calls)] /\ SoundCall(part, heap, Top) /\ Len(calls) \in DOMAIN calls
      /\ calls' = SubSeq(calls, 1, Len(calls) - 1) /\ pending' = NoCall
      /\ part' = part /\ status' = "converting"
  BY CompletedFacts DEF Completed
<1>2. PICK at \in DOMAIN part : at = Top.at
  BY <1>1 DEF SoundCall
<1>3. ref # NoRef
  BY PartAssumption DEF Completed, Filled, Fills, Ref
<1>4. memo[at] = NoRef /\ memo'[at] # NoRef /\ \A o \in DOMAIN part \ {at} : memo'[o] = memo[o]
  BY <1>1, <1>2, <1>3, CompletedFacts DEF Once, Unmade, Offsets
<1>5. Extends(part, memo, memo')
  BY <1>4 DEF Extends
<1>6. Chain(part, memo', calls', First, pending')
  BY <1>1, <1>2, <1>4, <1>5, ChainPopped DEF Linked
<1>7. PointersIn(part, at) \cap DOMAIN part \subseteq Made(part, memo)
  <2>1. Waiting(Top.stage) /\ Reached(Top) = Len(Source.refs) /\ Source = part[at]
    BY <1>2 DEF Completed, Source
  <2>2. Top \in Calls
    BY <2>1, WaitingFacts
  <2>3. Asked(part, Top) # NoCall /\ (Top.stage \in {"class", "map"} => Top.i = 0)
    <3>1. Convertible(Asked(part, Top))
      BY <1>1, <2>2, AskedConvertible DEF Typed
    <3>2. QED
      BY <1>1, <3>1, PartAssumption DEF SoundCall, Convertible
  <2>4. SoFar(part, memo, Top) /\ Done(part, memo, Asked(part, Top))
    BY <1>1, <2>3 DEF Linked, Chain
  <2>5. /\ Done(part, memo, part[at].class)
        /\ \A j \in 1 .. Len(part[at].refs) : Done(part, memo, part[at].refs[j])
    BY <1>2, <2>1, <2>2, <2>3, <2>4, ReachedDone
  <2>6. DOMAIN part[at].refs = 1 .. Len(part[at].refs)
    BY KindOf DEF Typed, IsPart
  <2>7. QED
    BY <2>5, <2>6, DonePointers
<1>8. Acyclic(part, memo')
  BY <1>4, <1>7, AcyclicKept DEF Linked
<1>9. Open = Open' \cup {at}
  BY <1>1, <1>2, OpenPopped
<1>10. Made(part, memo') = Made(part, memo) \cup {at}
  BY <1>4 DEF Made
<1>11. PointersWhereRequired => marked' \subseteq {Root} \cup Open' \cup Made(part, memo')
  <2>1. /\ Waiting(Top.stage) /\ marked' \subseteq Offsets
        /\ marked' = marked \cup {Place(Source.class) : s \in {Top.stage} \cap {"map"}}
    BY DEF Completed
  <2>2. PointersWhereRequired => marked' \subseteq {Root} \cup Open \cup Made(part, memo)
    BY <2>1, MarksOfMaps
  <2>3. QED
    BY <1>9, <1>10, <2>2
<1>12. QED
  BY <1>1, <1>6, <1>8, <1>11, LinkedKept

(* Each step keeps how things hang together.                                 *)
LEMMA LinkedNext ==
    ASSUME Typed, Once(memo, heap, calls, marked), Linked, [Next]_vars
    PROVE  Linked'
<1>1. CASE UNCHANGED <<part, marked, memo, calls, pending, status>>
  <2>1. Open' = Open
    BY <1>1 DEF Open
  <2>2. QED
    BY <1>1, <2>1, SamePart DEF Linked
<1>2. CASE Dies \/ Finish
  <2>1. UNCHANGED <<part, marked, memo, calls, pending>> /\ status' # "recursion"
    BY <1>2 DEF Dies, Die, Finish
  <2>2. Open' = Open
    BY <2>1 DEF Open
  <2>3. QED
    BY <2>1, <2>2, LinkedKept DEF Linked
<1>3. CASE DiscoverRecursion
  <2>1. /\ Calling /\ pending % 4 = 1 /\ Place(pending) \in Offsets /\ memo[Place(pending)] = NoRef
        /\ Place(pending) \in marked
        /\ UNCHANGED <<part, marked, memo, calls, pending>>
    BY <1>3 DEF DiscoverRecursion, ObjectAt, Remembered, Die
  <2>2. Open' = Open
    BY <2>1 DEF Open
  <2>3. PointersWhereRequired => CycleIn(part, {Root} \cup Open)
    BY <2>1, RecursionIsCycle
  <2>4. QED
    BY <2>1, <2>2, <2>3, SamePart DEF Linked
<1>4. QED
  BY <1>1, <1>2, <1>3, Shapes, StartedLinked, ReturnedLinked, ConvertSymbolLinked, BegunLinked,
     ContinuedLinked, CompletedLinked DEF vars

-----------------------------------------------------------------------------
(* What an object of the heap has of the object of the part that it is made  *)
(* from: its class, and the first n of its slots, with their tags.  Nothing  *)
(* is said of the slots of a frame that has a tag twice.                     *)
TagRef(p, o, i) == MapOf(p, o).refs[i + 1]

Settled(p, m, ref, source) == Done(p, m, source) /\ ref = Answer(p, m, source)

IsTag(p, m, source) ==
    source % 4 = 1 /\ Place(source) \in DOMAIN p /\ m[Place(source)] \in Symbols

Differ(p, m, o, n) ==
    \A j, k \in 1 .. n :
        NameOf[m[Place(TagRef(p, o, j))]] = NameOf[m[Place(TagRef(p, o, k))]] => j = k

NamedIn(p, ref, name) ==
    /\ ref % 4 = 1 /\ Place(ref) \in DOMAIN p
    /\ Kind(p[Place(ref)]) = "symbol" /\ p[Place(ref)].name = name

BinaryFilled(p, m, object, o) ==
    /\ object = Binary(object.head)
    /\ \/ NamedIn(p, p[o].class, StringName) /\ object.head = StringClass
       \/ Settled(p, m, object.head, p[o].class)

ArrayFilled(p, m, object, o, n) ==
    /\ object.tag = "array" /\ object.length = n
    /\ Settled(p, m, object.head, p[o].class)
    /\ \A j \in 1 .. n : Settled(p, m, object.slot[j - 1], p[o].refs[j])

FrameFilled(p, m, object, o, n) ==
    /\ object.tag = "frame"
    /\ \A j \in 1 .. n : IsTag(p, m, TagRef(p, o, j))
    /\ Differ(p, m, o, n) =>
          /\ object.length = n
          /\ \A j \in 1 .. n : /\ Settled(p, m, object.slot[j - 1], p[o].refs[j])
                              /\ object.head.slot[j] = m[Place(TagRef(p, o, j))]

FilledUpTo(p, m, object, o, n) ==
    /\ Kind(p[o]) = "binary" => BinaryFilled(p, m, object, o)
    /\ Kind(p[o]) \in {"array", "map"} => ArrayFilled(p, m, object, o, n)
    /\ Kind(p[o]) = "frame" => FrameFilled(p, m, object, o, n)

Partial(p, m, h, c) ==
    /\ c.stage # "class" => FilledUpTo(p, m, h[c.ref], c.at, c.i)
    /\ c.stage = "value" => Settled(p, m, c.tag, TagRef(p, c.at, c.i + 1))

Whole(p, m, h, o) ==
    IF Kind(p[o]) = "symbol" THEN NameOf[m[o]] = p[o].name
    ELSE FilledUpTo(p, m, h[m[o]], o, Len(p[o].refs))

Kept ==
    /\ \A o \in Made(part, memo) : Whole(part, memo, heap, o)
    /\ \A k \in DOMAIN calls : Partial(part, memo, heap, calls[k])
    /\ pending = NoCall /\ calls # << >> => Settled(part, memo, value, Asked(part, calls[Len(calls)]))

(* It stays so when more is remembered.                                      *)
LEMMA SettledGrows ==
    ASSUME NEW p, NEW m, NEW w, Extends(p, m, w), NEW ref, NEW source, Settled(p, m, ref, source)
    PROVE  Settled(p, w, ref, source)
  BY DEF Extends, Settled, Done, Answer

(* A tag stays a tag when more is remembered.                                *)
LEMMA TagGrows ==
    ASSUME NEW p, NEW m, NEW w, Extends(p, m, w), NEW source, IsTag(p, m, source)
    PROVE  IsTag(p, w, source) /\ w[Place(source)] = m[Place(source)]
  BY PartAssumption DEF Extends, IsTag, Ref

(* So does what an object has so far.                                        *)
LEMMA FilledGrows ==
    ASSUME NEW p, NEW m, NEW w, Extends(p, m, w), NEW object, NEW o, NEW n,
           FilledUpTo(p, m, object, o, n)
    PROVE  FilledUpTo(p, w, object, o, n)
<1>1. Kind(p[o]) = "binary" => BinaryFilled(p, w, object, o)
  BY SettledGrows DEF FilledUpTo, BinaryFilled
<1>2. Kind(p[o]) \in {"array", "map"} => ArrayFilled(p, w, object, o, n)
  BY SettledGrows DEF FilledUpTo, ArrayFilled
<1>3. ASSUME FrameFilled(p, m, object, o, n)
      PROVE  FrameFilled(p, w, object, o, n)
  <2>1. \A j \in 1 .. n : /\ IsTag(p, w, TagRef(p, o, j))
                          /\ w[Place(TagRef(p, o, j))] = m[Place(TagRef(p, o, j))]
    BY <1>3, TagGrows DEF FrameFilled
  <2>2. Differ(p, w, o, n) => Differ(p, m, o, n)
    BY <2>1 DEF Differ
  <2>3. \A j \in 1 .. n : Settled(p, m, object.slot[j - 1], p[o].refs[j])
                             => Settled(p, w, object.slot[j - 1], p[o].refs[j])
    BY SettledGrows
  <2>4. QED
    BY <1>3, <2>1, <2>2, <2>3 DEF FrameFilled
<1>4. QED
  BY <1>1, <1>2, <1>3 DEF FilledUpTo

(* ... and when something else of the heap is written.                       *)
LEMMA PartialGrows ==
    ASSUME NEW p, NEW m, NEW w, Extends(p, m, w), NEW h, NEW g, NEW ref,
           \A q \in Ptrs \ {ref} : g[q] = h[q],
           NEW c \in Calls, SoundCall(p, h, c), c.ref # ref, Partial(p, m, h, c)
    PROVE  Partial(p, w, g, c)
<1>1. c.stage # "class" => c.ref \in Ptrs
  BY DEF SoundCall, Calls, Stages
<1>2. c.stage # "class" => g[c.ref] = h[c.ref]
  BY <1>1
<1>3. c.stage # "class" => FilledUpTo(p, w, h[c.ref], c.at, c.i)
  BY FilledGrows DEF Partial
<1>4. c.stage = "value" => Settled(p, w, c.tag, TagRef(p, c.at, c.i + 1))
  BY SettledGrows DEF Partial
<1>5. QED
  BY <1>2, <1>3, <1>4 DEF Partial

(* What is complete stays so when another object is written.                 *)
LEMMA WholeGrows ==
    ASSUME NEW p, NEW m, NEW w, Extends(p, m, w), SoundMemo(p, m), NEW h, NEW g, NEW ref,
           \A q \in Ptrs \ {ref} : g[q] = h[q],
           NEW o \in Made(p, m), m[o] # ref, Whole(p, m, h, o)
    PROVE  Whole(p, w, g, o)
<1>1. w[o] = m[o] /\ o \in DOMAIN p
  BY DEF Extends, Made
<1>2. CASE Kind(p[o]) = "symbol"
  BY <1>1, <1>2 DEF Whole
<1>3. CASE Kind(p[o]) # "symbol"
  <2>1. m[o] \in Ptrs
    BY <1>1, <1>3 DEF SoundMemo, Made
  <2>2. PICK object : object = h[m[o]]
    OBVIOUS
  <2>3. g[w[o]] = object
    BY <1>1, <2>1, <2>2
  <2>4. FilledUpTo(p, m, object, o, Len(p[o].refs))
    BY <1>3, <2>2 DEF Whole
  <2>5. FilledUpTo(p, w, object, o, Len(p[o].refs))
    BY <2>4, FilledGrows
  <2>6. QED
    BY <1>3, <2>3, <2>5 DEF Whole
<1>4. QED
  BY <1>2, <1>3

-----------------------------------------------------------------------------
(* The innermost activation writes what belongs there.                       *)
LEMMA NamedSame ==
    \A ref, name : IsSymbolNamed(ref, name) <=> NamedIn(part, ref, name)
  BY DEF IsSymbolNamed, NamedIn, Offsets

(* The class that is written is the object's,                                *)
LEMMA ClassWritten ==
    ASSUME Typed, Waiting("class"), Settled(part, memo, value, Asked(part, Top)),
           NEW new, Wrote(heap[Top.ref], new)
    PROVE  FilledUpTo(part, memo, new, Top.at, 0)
<1>1. /\ Top.stage = "class" /\ Source = part[Top.at] /\ Asked(part, Top) = Source.class
      /\ Kind(Source) \in {"binary", "array", "map"}
  BY WaitingFacts DEF Asked, SoundCall
<1>2. CASE Kind(Source) = "binary"
  <2>1. PICK class : class = IF IsSymbolNamed(Source.class, StringName) THEN StringClass ELSE value
    OBVIOUS
  <2>2. new = Binary(class)
    BY <1>1, <1>2, <2>1 DEF Wrote
  <2>3. new.head = class
    BY <2>2 DEF Binary, Object
  <2>4. \/ NamedIn(part, Source.class, StringName) /\ class = StringClass
        \/ Settled(part, memo, class, Source.class)
    BY <1>1, <2>1, NamedSame
  <2>5. BinaryFilled(part, memo, new, Top.at)
    BY <1>1, <2>2, <2>3, <2>4 DEF BinaryFilled
  <2>6. QED
    BY <1>1, <1>2, <2>5 DEF FilledUpTo
<1>3. CASE Kind(Source) \in {"array", "map"}
  <2>1. new = NewArray(value, 0)
    BY <1>1, <1>3 DEF Wrote
  <2>2. new.tag = "array" /\ new.head = value /\ new.length = 0
    BY <2>1, SizeAssumption DEF NewArray, Object
  <2>3. ArrayFilled(part, memo, new, Top.at, 0)
    BY <1>1, <2>2 DEF ArrayFilled
  <2>4. QED
    BY <1>1, <1>3, <2>3 DEF FilledUpTo
<1>4. QED
  BY <1>1, <1>2, <1>3

(* AddSlot leaves the class alone.                                           *)
LEMMA AddSlotHead ==
    ASSUME NEW o, NEW ref, NEW b, b = AddSlot(o, ref)
    PROVE  b.tag = o.tag /\ b.head = o.head
  BY DEF AddSlot, SetSlot, SetLength, Object

(* the next slot is the object's next slot,                                  *)
LEMMA SlotWritten ==
    ASSUME Typed, Waiting("slot"), Settled(part, memo, value, Asked(part, Top)),
           Partial(part, memo, heap, Top), NEW new, Wrote(heap[Top.ref], new)
    PROVE  FilledUpTo(part, memo, new, Top.at, Top.i + 1)
<1>1. PICK old : old = heap[Top.ref]
  OBVIOUS
<1>2. PICK n \in Nat : n = Top.i
  BY WaitingFacts DEF Calls
<1>3. /\ Top.stage = "slot" /\ Kind(part[Top.at]) \in {"array", "map"} /\ SoundArray(old)
      /\ Asked(part, Top) = part[Top.at].refs[n + 1]
      /\ AddSlotAsserts(old) /\ new = AddSlot(old, value) /\ value \in Ref
  BY <1>1, <1>2, WaitingFacts DEF Asked, SoundCall, Wrote
<1>4. ArrayFilled(part, memo, old, Top.at, n)
  BY <1>1, <1>2, <1>3 DEF Partial, FilledUpTo
<1>5. /\ new.length = n + 1 /\ new.slot[n] = value
      /\ \A i \in 0 .. n - 1 : new.slot[i] = old.slot[i]
      /\ new.tag = "array" /\ new.head = old.head
  BY <1>3, <1>4, ArrayAddSlot, AddSlotHead DEF ArrayFilled
<1>6. ASSUME NEW j \in 1 .. n + 1
      PROVE  Settled(part, memo, new.slot[j - 1], part[Top.at].refs[j])
  <2>1. CASE j = n + 1
    <3>1. j - 1 = n
      BY <2>1
    <3>2. new.slot[j - 1] = value /\ part[Top.at].refs[j] = Asked(part, Top)
      BY <1>3, <1>5, <2>1, <3>1
    <3>3. QED
      BY <3>2
  <2>2. CASE j # n + 1
    <3>1. j \in 1 .. n /\ j - 1 \in 0 .. n - 1
      BY <2>2
    <3>2. new.slot[j - 1] = old.slot[j - 1]
      BY <1>5, <3>1
    <3>3. QED
      BY <1>4, <3>1, <3>2 DEF ArrayFilled
  <2>3. QED
    BY <2>1, <2>2
<1>7. ArrayFilled(part, memo, new, Top.at, n + 1)
  BY <1>4, <1>5, <1>6 DEF ArrayFilled
<1>8. QED
  BY <1>2, <1>3, <1>7 DEF FilledUpTo

(* A tag that is written is a symbol that the part has at that place.        *)
LEMMA TagWritten ==
    ASSUME NEW source, Convertible(source), NEW tag \in Symbols, Settled(part, memo, tag, source)
    PROVE  IsTag(part, memo, source) /\ tag = memo[Place(source)]
  BY RefAssumption DEF Convertible, Settled, Answer, IsTag

(* A tag that differs from those before it is not in the frame yet.          *)
LEMMA NewTag ==
    ASSUME NEW old, SoundFrame(old), NEW o, NEW n \in Nat, FrameFilled(part, memo, old, o, n),
           NEW tag, tag = memo[Place(TagRef(part, o, n + 1))], Differ(part, memo, o, n + 1)
    PROVE  old.length = n /\ ~HasTag(old, tag)
<1>1. \A j \in 1 .. n : j \in 1 .. n + 1
  OBVIOUS
<1>2. Differ(part, memo, o, n)
  BY <1>1 DEF Differ
<1>3. old.length = n /\ \A j \in 1 .. n : old.head.slot[j] = memo[Place(TagRef(part, o, j))]
  BY <1>2 DEF FrameFilled
<1>4. ~HasTag(old, tag)
  <2>1. SUFFICES ASSUME NEW j \in TagSlots(old.head, tag)
                 PROVE  FALSE
    BY DEF HasTag
  <2>2. old.head.length = n + 1
    BY <1>3 DEF SoundFrame, InStep
  <2>3. j \in 1 .. n /\ SymbolsEqual(old.head.slot[j], tag)
    BY <2>2 DEF TagSlots
  <2>4. NameOf[old.head.slot[j]] = NameOf[tag]
    BY <2>3 DEF SymbolsEqual
  <2>5. NameOf[memo[Place(TagRef(part, o, j))]] = NameOf[memo[Place(TagRef(part, o, n + 1))]]
    BY <1>3, <2>3, <2>4
  <2>6. j \in 1 .. n + 1 /\ n + 1 \in 1 .. n + 1 /\ j # n + 1
    BY <2>3
  <2>7. QED
    BY <2>5, <2>6 DEF Differ
<1>5. QED
  BY <1>3, <1>4

(* and the next value goes under the tag that the map has for it.            *)
LEMMA ValueWritten ==
    ASSUME Typed, Waiting("value"), Settled(part, memo, value, Asked(part, Top)),
           Partial(part, memo, heap, Top), NEW new, Wrote(heap[Top.ref], new)
    PROVE  FilledUpTo(part, memo, new, Top.at, Top.i + 1)
<1>1. PICK old : old = heap[Top.ref]
  OBVIOUS
<1>2. PICK n \in Nat : n = Top.i
  BY WaitingFacts DEF Calls
<1>3. PICK o : o = Top.at
  OBVIOUS
<1>4. PICK tag \in Symbols : tag = Top.tag
  BY WaitingFacts DEF Wrote
<1>5. /\ Top.stage = "value" /\ Kind(part[o]) = "frame" /\ SoundFrame(old)
      /\ Asked(part, Top) = part[o].refs[n + 1] /\ TagAt(part, o, n)
      /\ FrameSetSlotAsserts(old, tag) /\ new = FrameSetSlot(old, tag, value) /\ value \in Ref
  BY <1>1, <1>2, <1>3, <1>4, WaitingFacts DEF Asked, SoundCall, Wrote
<1>6. FrameFilled(part, memo, old, o, n) /\ Settled(part, memo, tag, TagRef(part, o, n + 1))
  BY <1>1, <1>2, <1>3, <1>4, <1>5 DEF Partial, FilledUpTo
<1>7. Convertible(TagRef(part, o, n + 1))
  <2>1. PICK map : map = MapOf(part, o)
    OBVIOUS
  <2>2. IsLoaded(map) /\ Kind(map) # "symbol" /\ n + 2 <= Len(map.refs)
    BY <1>5, <2>1 DEF TagAt, Typed, IsPart, MapOf, Slotted
  <2>3. n + 2 \in 1 .. Len(map.refs)
    BY <2>2, KindOf
  <2>4. Convertible(map.refs[n + 2])
    BY <2>2, <2>3, KindOf
  <2>5. TagRef(part, o, n + 1) = map.refs[n + 2]
    <3>1. (n + 1) + 1 = n + 2
      OBVIOUS
    <3>2. QED
      BY <2>1, <3>1 DEF TagRef
  <2>6. QED
    BY <2>4, <2>5
<1>8. /\ IsTag(part, memo, TagRef(part, o, n + 1))
      /\ tag = memo[Place(TagRef(part, o, n + 1))]
  BY <1>6, <1>7, TagWritten
<1>9. SoundFrame(new) /\ new.tag = "frame"
  BY <1>5, FrameSetSlotSound, SoundIsSomething
<1>10. \A j \in 1 .. n + 1 : j \in 1 .. n \/ j = n + 1
  OBVIOUS
<1>11. \A j \in 1 .. n + 1 : IsTag(part, memo, TagRef(part, o, j))
  BY <1>6, <1>8, <1>10 DEF FrameFilled
<1>12. ASSUME Differ(part, memo, o, n + 1)
       PROVE  /\ new.length = n + 1
              /\ \A j \in 1 .. n + 1 : /\ Settled(part, memo, new.slot[j - 1], part[o].refs[j])
                                      /\ new.head.slot[j] = memo[Place(TagRef(part, o, j))]
  <2>1. \A j \in 1 .. n : j \in 1 .. n + 1
    OBVIOUS
  <2>2. Differ(part, memo, o, n)
    BY <1>12, <2>1 DEF Differ
  <2>3. /\ old.length = n
        /\ \A j \in 1 .. n : /\ Settled(part, memo, old.slot[j - 1], part[o].refs[j])
                            /\ old.head.slot[j] = memo[Place(TagRef(part, o, j))]
    BY <1>6, <2>2 DEF FrameFilled
  <2>4. ~HasTag(old, tag)
    BY <1>5, <1>6, <1>8, <1>12, NewTag
  <2>5. Bound(old, new, tag, value)
    BY <1>5, <2>4, FrameGrow
  <2>6. /\ new.length = n + 1
        /\ \A i \in 1 .. n : new.head.slot[i] = old.head.slot[i]
        /\ new.head.slot[n + 1] = tag
        /\ \A i \in 0 .. n - 1 : new.slot[i] = old.slot[i]
        /\ new.slot[n] = value
    BY <2>3, <2>5 DEF Bound
  <2>7. ASSUME NEW j \in 1 .. n + 1
        PROVE  /\ Settled(part, memo, new.slot[j - 1], part[o].refs[j])
               /\ new.head.slot[j] = memo[Place(TagRef(part, o, j))]
    <3>1. CASE j = n + 1
      <4>1. j - 1 = n
        BY <3>1
      <4>2. new.slot[j - 1] = value /\ part[o].refs[j] = Asked(part, Top)
        BY <1>5, <2>6, <3>1, <4>1
      <4>3. new.head.slot[j] = memo[Place(TagRef(part, o, j))]
        BY <1>8, <2>6, <3>1
      <4>4. QED
        BY <4>2, <4>3
    <3>2. CASE j # n + 1
      <4>1. j \in 1 .. n /\ j - 1 \in 0 .. n - 1
        BY <3>2
      <4>2. new.slot[j - 1] = old.slot[j - 1] /\ new.head.slot[j] = old.head.slot[j]
        BY <2>6, <4>1
      <4>3. QED
        BY <2>3, <4>1, <4>2
    <3>3. QED
      BY <3>1, <3>2
  <2>8. QED
    BY <2>6, <2>7
<1>13. FrameFilled(part, memo, new, o, n + 1)
  BY <1>9, <1>11, <1>12 DEF FrameFilled
<1>14. QED
  BY <1>2, <1>3, <1>5, <1>13 DEF FilledUpTo

(* Whatever the step, the object has what its activation has reached.        *)
LEMMA StepWritten ==
    ASSUME Typed, Waiting(Top.stage), Settled(part, memo, value, Asked(part, Top)),
           Partial(part, memo, heap, Top), NEW new, Wrote(heap[Top.ref], new)
    PROVE  FilledUpTo(part, memo, new, Top.at, Reached(Top))
<1>1. Top.stage \in Stages /\ (Top.stage \in {"class", "map"} => Top.i = 0)
  BY WaitingFacts DEF Calls, SoundCall
<1>2. CASE Top.stage = "class"
  BY <1>1, <1>2, ClassWritten DEF Reached
<1>3. CASE Top.stage = "slot"
  BY <1>3, SlotWritten DEF Reached
<1>4. CASE Top.stage \in {"map", "tag"}
  BY <1>4 DEF Wrote, Partial, Reached
<1>5. CASE Top.stage = "value"
  BY <1>5, ValueWritten DEF Reached
<1>6. QED
  BY <1>1, <1>2, <1>3, <1>4, <1>5 DEF Stages

-----------------------------------------------------------------------------
(* Each step keeps what the objects have.                                    *)
LEMMA KeptKept ==
    ASSUME part' = part,
           \A o \in Made(part, memo') : Whole(part, memo', heap', o),
           \A k \in DOMAIN calls' : Partial(part, memo', heap', calls'[k]),
           pending' = NoCall /\ calls' # << >> =>
               Settled(part, memo', value', Asked(part, calls'[Len(calls')]))
    PROVE  Kept'
  BY DEF Kept

(* The client's call and the end of the program change no object.            *)
LEMMA QuietKept ==
    ASSUME Kept, UNCHANGED <<part, memo, heap, calls>>,
           pending' = NoCall /\ calls # << >> =>
               Settled(part, memo, value', Asked(part, calls[Len(calls)]))
    PROVE  Kept'
  BY KeptKept DEF Kept

(* An answer that refToNOS has at once is the right one.                     *)
LEMMA ReturnedKept ==
    ASSUME Typed, Linked, Kept, Returned
    PROVE  Kept'
<1>1. Settled(part, memo, value', pending)
  BY DEF Returned, Settled, Done, Offsets
<1>2. calls # << >> => pending = Asked(part, calls[Len(calls)])
  BY DEF Returned, Calling, Linked, Chain
<1>3. QED
  BY <1>1, <1>2, QuietKept DEF Returned

(* A symbol has the name of the symbol in the part.                          *)
LEMMA ConvertSymbolKept ==
    ASSUME Typed, Linked, Kept, ConvertSymbol
    PROVE  Kept'
<1>1. PICK at \in DOMAIN part : at = Place(pending)
  BY SymbolFacts DEF Offsets
<1>2. /\ Calling /\ pending % 4 = 1 /\ memo[at] = NoRef /\ Kind(part[at]) = "symbol"
      /\ UNCHANGED <<part, heap, calls>>
      /\ memo'[at] = value' /\ value' \in Symbols /\ NameOf[value'] = part[at].name
      /\ \A q \in DOMAIN part \ {at} : memo'[q] = memo[q]
  BY <1>1, SymbolFacts DEF Offsets
<1>3. memo'[at] # NoRef
  BY <1>2, PartAssumption DEF Ref
<1>4. Extends(part, memo, memo') /\ Settled(part, memo', value', pending)
  BY <1>1, <1>2, <1>3 DEF Extends, Settled, Done, Answer
<1>5. SoundMemo(part, memo) /\ NoRef \notin Ptrs /\ \A o \in DOMAIN part : memo[o] # NoRef => o \in Made(part, memo)
  BY PartAssumption DEF Typed, Made, Ref
<1>6. ASSUME NEW o \in Made(part, memo')
      PROVE  Whole(part, memo', heap', o)
  <2>1. CASE o = at
    BY <1>2, <2>1 DEF Whole
  <2>2. CASE o # at
    <3>1. o \in Made(part, memo) /\ memo[o] # NoRef
      BY <1>2, <2>2 DEF Made
    <3>2. Whole(part, memo, heap, o)
      BY <3>1 DEF Kept
    <3>3. QED
      BY <1>2, <1>4, <1>5, <3>1, <3>2, WholeGrows
  <2>3. QED
    BY <2>1, <2>2
<1>7. ASSUME NEW k \in DOMAIN calls
      PROVE  Partial(part, memo', heap', calls[k])
  <2>1. PICK c : c = calls[k]
    OBVIOUS
  <2>2. c \in Calls /\ SoundCall(part, heap, c) /\ Partial(part, memo, heap, c)
    BY <2>1, ElementOfSeq, LenProperties DEF Typed, SoundCalls, Kept
  <2>3. value' # c.ref
    BY <1>2, <2>2, RefAssumption, PartAssumption DEF Calls, Ref
  <2>4. \A q \in Ptrs \ {value'} : heap'[q] = heap[q]
    BY <1>2
  <2>5. Partial(part, memo', heap', c)
    BY <1>4, <2>2, <2>3, <2>4, PartialGrows
  <2>6. QED
    BY <2>1, <2>5
<1>8. calls # << >> => pending = Asked(part, calls[Len(calls)])
  BY <1>2 DEF Calling, Linked, Chain
<1>9. QED
  BY <1>2, <1>4, <1>6, <1>7, <1>8, KeptKept

(* The activations other than the one that writes, and what is complete.     *)
LEMMA OthersKept ==
    ASSUME Typed, Once(memo, heap, calls, marked), Kept,
           NEW w, Extends(part, memo, w), NEW g, NEW n \in DOMAIN calls, NEW old, old = calls[n].ref,
           NEW ref, Fills(heap, g, old, ref)
    PROVE  /\ \A o \in Made(part, memo) : Whole(part, w, g, o)
           /\ \A k \in DOMAIN calls \ {n} : Partial(part, w, g, calls[k])
<1>1. /\ calls \in Seq(Calls) /\ SoundCalls(part, heap, calls) /\ SoundMemo(part, memo)
      /\ DOMAIN memo = DOMAIN part
  BY DEF Typed, SoundCalls, SoundMemo
<1>2. Own(memo, calls, n, ref)
  BY <1>1, OwnObject
<1>3. \A q \in Ptrs \ {ref} : g[q] = heap[q]
  BY DEF Fills
<1>4. ASSUME NEW o \in Made(part, memo)
      PROVE  Whole(part, w, g, o)
  <2>1. memo[o] # ref /\ Whole(part, memo, heap, o)
    BY <1>1, <1>2 DEF Own, Made, Kept
  <2>2. QED
    BY <1>1, <1>3, <2>1, WholeGrows
<1>5. ASSUME NEW k \in DOMAIN calls \ {n}
      PROVE  Partial(part, w, g, calls[k])
  <2>1. PICK c : c = calls[k]
    OBVIOUS
  <2>2. c \in Calls /\ SoundCall(part, heap, c) /\ Partial(part, memo, heap, c)
    BY <1>1, <2>1, ElementOfSeq, LenProperties DEF SoundCalls, Kept
  <2>3. c.ref # ref
    BY <1>2, <2>1 DEF Own
  <2>4. Partial(part, w, g, c)
    BY <1>3, <2>2, <2>3, PartialGrows
  <2>5. QED
    BY <2>1, <2>4
<1>6. QED
  BY <1>4, <1>5

(* A new activation has nothing yet, and disturbs nothing.                   *)
LEMMA BegunKept ==
    ASSUME Typed, Once(memo, heap, calls, marked), Kept, NEW c, Begun(c)
    PROVE  Kept'
<1>1. /\ c \in Calls /\ c.stage \in {"class", "map"} /\ SoundCall(part, heap', c)
      /\ calls' = Append(calls, c) /\ pending' = Asked(part, c)
      /\ part' = part /\ memo' = memo /\ calls \in Seq(Calls)
      /\ SoundCalls(part, heap, calls) /\ SoundMemo(part, memo)
  BY DEF Begun, Typed, SoundCalls
<1>2. pending' # NoCall
  BY <1>1, AskedConvertible, PartAssumption DEF Typed, Convertible
<1>3. Extends(part, memo, memo)
  BY DEF Extends
<1>4. PICK ref : /\ \A q \in Ptrs \ {ref} : heap'[q] = heap[q]
                 /\ \A o \in Made(part, memo) : memo[o] # ref
                 /\ \A k \in DOMAIN calls : calls[k].stage # "class" => calls[k].ref # ref
  <2>1. CASE c.stage = "class"
    <3>1. heap' = heap /\ NoRef \notin Ptrs
      BY <2>1, PartAssumption DEF Begun, Ref
    <3>2. ASSUME NEW k \in DOMAIN calls, calls[k].stage # "class"
          PROVE  calls[k].ref # NoRef
      <4>1. PICK d \in Calls : d = calls[k]
        BY <1>1, ElementOfSeq, LenProperties
      <4>2. SoundCall(part, heap, d) /\ d.stage \in Stages
        BY <1>1, <4>1 DEF SoundCalls, Calls
      <4>3. QED
        BY <3>1, <3>2, <4>1, <4>2 DEF SoundCall, Stages
    <3>3. QED
      BY <3>1, <3>2 DEF Made
  <2>2. CASE c.stage = "map"
    <3>1. Fills(heap, heap', NoRef, c.ref)
      BY <2>2 DEF Begun, Filled
    <3>2. heap[c.ref] = NoObject /\ c.ref \in Ptrs /\ \A q \in Ptrs \ {c.ref} : heap'[q] = heap[q]
      BY <3>1, PartAssumption DEF Fills, Ref
    <3>3. c.ref \notin Owned(memo, calls)
      BY <3>2 DEF Once
    <3>4. DOMAIN memo = DOMAIN part
      BY <1>1 DEF SoundMemo
    <3>5. \A o \in DOMAIN part : memo[o] # c.ref
      BY <3>3, <3>4 DEF Owned
    <3>6. \A k \in DOMAIN calls : calls[k].ref # c.ref
      BY <3>3 DEF Owned
    <3>7. PICK a : a = c.ref
      OBVIOUS
    <3>8. QED
      BY <3>2, <3>5, <3>6, <3>7 DEF Made
  <2>3. QED
    BY <1>1, <2>1, <2>2
<1>5. ASSUME NEW o \in Made(part, memo)
      PROVE  Whole(part, memo, heap', o)
  <2>1. memo[o] # ref /\ Whole(part, memo, heap, o)
    BY <1>4 DEF Kept
  <2>2. QED
    BY <1>1, <1>3, <1>4, <2>1, WholeGrows
<1>6. ASSUME NEW k \in DOMAIN calls
      PROVE  Partial(part, memo, heap', calls[k])
  <2>1. PICK d : d = calls[k]
    OBVIOUS
  <2>2. d \in Calls /\ SoundCall(part, heap, d) /\ Partial(part, memo, heap, d)
    BY <1>1, <2>1, ElementOfSeq, LenProperties DEF SoundCalls, Kept
  <2>3. CASE d.stage = "class"
    BY <2>1, <2>3 DEF Partial
  <2>4. CASE d.stage # "class"
    <3>1. d.ref # ref
      BY <1>4, <2>1, <2>4
    <3>2. Partial(part, memo, heap', d)
      BY <1>3, <1>4, <2>2, <3>1, PartialGrows
    <3>3. QED
      BY <2>1, <3>2
  <2>5. QED
    BY <2>3, <2>4
<1>7. Partial(part, memo, heap', c)
  <2>1. CASE c.stage = "class"
    BY <2>1 DEF Partial
  <2>2. CASE c.stage = "map"
    <3>1. heap'[c.ref] = NewFrame /\ Kind(part[c.at]) = "frame" /\ c.i = 0
      BY <1>1, <2>2 DEF Begun, SoundCall
    <3>2. NewFrame.tag = "frame" /\ NewFrame.length = 0
      BY DEF NewFrame, Object
    <3>3. FrameFilled(part, memo, NewFrame, c.at, 0)
      BY <3>2 DEF FrameFilled
    <3>4. QED
      BY <2>2, <3>1, <3>3 DEF Partial, FilledUpTo
  <2>3. QED
    BY <1>1, <2>1, <2>2
<1>8. ASSUME NEW k \in DOMAIN calls'
      PROVE  Partial(part, memo, heap', calls'[k])
  <2>1. /\ DOMAIN calls = 1 .. Len(calls) /\ Len(calls) \in Nat
        /\ k \in 1 .. Len(calls) + 1
        /\ \A j \in 1 .. Len(calls) : calls'[j] = calls[j]
        /\ calls'[Len(calls) + 1] = c
    BY <1>1, AppendedSequence
  <2>2. CASE k = Len(calls) + 1
    BY <1>7, <2>1, <2>2
  <2>3. CASE k # Len(calls) + 1
    BY <1>6, <2>1, <2>3
  <2>4. QED
    BY <2>2, <2>3
<1>9. QED
  BY <1>1, <1>2, <1>5, <1>8, KeptKept

(* What the innermost activation has before its step.                        *)
LEMMA TopKept ==
    ASSUME Typed, Kept, Waiting(Top.stage)
    PROVE  /\ Len(calls) \in DOMAIN calls /\ Top = calls[Len(calls)]
           /\ Settled(part, memo, value, Asked(part, Top))
           /\ Partial(part, memo, heap, Top)
<1>1. /\ calls # << >> /\ pending = NoCall
      /\ Len(calls) \in Nat \ {0} /\ DOMAIN calls = 1 .. Len(calls)
  BY WaitingFacts
<1>2. Len(calls) \in DOMAIN calls
  BY <1>1
<1>3. QED
  BY <1>1, <1>2 DEF Kept, Top

(* An activation that goes on has one slot more, and disturbs nothing.       *)
LEMMA ContinuedKept ==
    ASSUME Typed, Once(memo, heap, calls, marked), Kept, NEW c, Continued(c)
    PROVE  Kept'
<1>1. PICK n : n = Len(calls)
  OBVIOUS
<1>2. /\ c \in Calls /\ Follows(Top, c) /\ Waiting(Top.stage) /\ SoundCall(part, heap', c)
      /\ calls' = Append(SubSeq(calls, 1, Len(calls) - 1), c) /\ pending' = Asked(part, c)
      /\ part' = part /\ memo' = memo /\ (c.stage = "value" => c.tag = value)
      /\ Wrote(heap[Top.ref], heap'[c.ref]) /\ Fills(heap, heap', Top.ref, c.ref)
  BY DEF Continued, Returns, Filled
<1>3. /\ n \in DOMAIN calls /\ Top = calls[n] /\ calls \in Seq(Calls) /\ calls # << >>
      /\ Settled(part, memo, value, Asked(part, Top)) /\ Top \in Calls
  BY <1>1, <1>2, TopKept, WaitingFacts
<1>4. Convertible(pending') /\ Extends(part, memo, memo)
  BY <1>2, AskedConvertible DEF Typed, Extends
<1>5. pending' # NoCall
  BY <1>4, PartAssumption DEF Convertible
<1>6. PICK old : old = Top.ref
  OBVIOUS
<1>7. /\ \A o \in Made(part, memo) : Whole(part, memo, heap', o)
      /\ \A k \in DOMAIN calls \ {n} : Partial(part, memo, heap', calls[k])
  <2>1. old = calls[n].ref /\ Fills(heap, heap', old, c.ref)
    BY <1>2, <1>3, <1>6
  <2>2. QED
    BY <1>3, <1>4, <2>1, OthersKept
<1>8. Partial(part, memo, heap', c)
  <2>1. FilledUpTo(part, memo, heap'[c.ref], Top.at, Reached(Top))
    BY <1>2, <1>3, TopKept, StepWritten
  <2>2. c.at = Top.at /\ c.i = Reached(Top) /\ (c.stage = "value" => Top.stage = "tag")
    BY <1>2, <1>3 DEF Follows, Calls, Stages
  <2>3. ASSUME c.stage = "value"
        PROVE  Settled(part, memo, c.tag, TagRef(part, c.at, c.i + 1))
    <3>1. c.i = Top.i /\ c.i \in Nat /\ c.tag = value /\ Top.stage = "tag"
      BY <1>2, <2>2, <2>3 DEF Reached, Calls
    <3>2. (c.i + 1) + 1 = c.i + 2
      BY <3>1
    <3>3. Asked(part, Top) = TagRef(part, c.at, c.i + 1)
      BY <2>2, <3>1, <3>2 DEF Asked, TagRef
    <3>4. QED
      BY <1>3, <3>1, <3>3
  <2>4. QED
    BY <2>1, <2>2, <2>3 DEF Partial
<1>9. ASSUME NEW k \in DOMAIN calls'
      PROVE  Partial(part, memo, heap', calls'[k])
  <2>1. /\ DOMAIN calls = 1 .. n /\ n \in Nat \ {0} /\ k \in 1 .. n
        /\ \A j \in 1 .. n - 1 : calls'[j] = calls[j]
        /\ calls'[n] = c
    BY <1>1, <1>2, <1>3, ReplacedLast
  <2>2. CASE k = n
    BY <1>8, <2>1, <2>2
  <2>3. CASE k # n
    BY <1>7, <2>1, <2>3
  <2>4. QED
    BY <2>2, <2>3
<1>10. QED
  BY <1>2, <1>5, <1>7, <1>9, KeptKept

(* An activation that returns leaves a complete object.                      *)
LEMMA CompletedKept ==
    ASSUME Typed, Once(memo, heap, calls, marked), Linked, Kept, NEW ref, Completed(ref)
    PROVE  Kept'
<1>1. PICK n : n = Len(calls)
  OBVIOUS
<1>2. /\ Waiting(Top.stage) /\ Reached(Top) = Len(Source.refs) /\ part' = part
      /\ Wrote(heap[Top.ref], heap'[ref]) /\ Fills(heap, heap', Top.ref, ref)
  BY DEF Completed, Filled
<1>3. /\ n \in DOMAIN calls /\ Top = calls[n] /\ calls \in Seq(Calls) /\ calls # << >>
      /\ Settled(part, memo, value, Asked(part, Top)) /\ Top \in Calls
      /\ SoundCall(part, heap, Top) /\ Source = part[Top.at]
      /\ calls' = SubSeq(calls, 1, Len(calls) - 1) /\ pending = NoCall /\ value' = ref
  BY <1>1, <1>2, TopKept, WaitingFacts, CompletedFacts
<1>4. PICK at \in DOMAIN part : at = Top.at
  BY <1>3 DEF SoundCall
<1>5. ref # NoRef
  BY <1>2, PartAssumption DEF Fills, Ref
<1>6. /\ memo[at] = NoRef /\ memo'[at] = ref
      /\ \A o \in DOMAIN part \ {at} : memo'[o] = memo[o]
  BY <1>3, <1>4, <1>5, CompletedFacts DEF Once, Unmade, Offsets
<1>7. Extends(part, memo, memo')
  BY <1>6 DEF Extends
<1>8. PICK old : old = Top.ref
  OBVIOUS
<1>9. /\ \A o \in Made(part, memo) : Whole(part, memo', heap', o)
      /\ \A k \in DOMAIN calls \ {n} : Partial(part, memo', heap', calls[k])
  <2>1. old = calls[n].ref /\ Fills(heap, heap', old, ref)
    BY <1>2, <1>3, <1>8
  <2>2. QED
    BY <1>3, <1>7, <2>1, OthersKept
<1>10. ASSUME NEW o \in Made(part, memo')
       PROVE  Whole(part, memo', heap', o)
  <2>1. CASE o = at
    <3>1. FilledUpTo(part, memo, heap'[ref], at, Len(part[at].refs))
      BY <1>2, <1>3, <1>4, TopKept, StepWritten
    <3>2. PICK object : object = heap'[ref]
      OBVIOUS
    <3>3. FilledUpTo(part, memo', object, at, Len(part[at].refs))
      BY <1>7, <3>1, <3>2, FilledGrows
    <3>4. Kind(part[at]) # "symbol"
      BY <1>3, <1>4 DEF SoundCall, Calls, Stages
    <3>5. QED
      BY <1>6, <2>1, <3>2, <3>3, <3>4 DEF Whole
  <2>2. CASE o # at
    BY <1>6, <1>9, <2>2 DEF Made
  <2>3. QED
    BY <2>1, <2>2
<1>11. /\ DOMAIN calls = 1 .. n /\ n \in Nat \ {0} /\ DOMAIN calls' = 1 .. n - 1
       /\ \A k \in 1 .. n - 1 : calls'[k] = calls[k]
       /\ calls' \in Seq(Calls)
  BY <1>1, <1>3, ShortenedSequence, LenProperties
<1>12. ASSUME NEW k \in DOMAIN calls'
       PROVE  Partial(part, memo', heap', calls'[k])
  <2>1. k \in DOMAIN calls \ {n} /\ calls'[k] = calls[k]
    BY <1>11
  <2>2. QED
    BY <1>9, <2>1
<1>13. ASSUME calls' # << >>
       PROVE  Settled(part, memo', value', Asked(part, calls'[Len(calls')]))
  <2>1. Len(calls') = n - 1
    BY <1>11, LenProperties
  <2>2. n - 1 \in 1 .. n - 1 /\ (n - 1) + 1 = n
    BY <1>11, <1>13, <2>1, EmptySeq
  <2>3. Leads(part, calls[n - 1], calls[(n - 1) + 1])
    BY <1>1, <2>2 DEF Linked, Chain
  <2>4. Leads(part, calls[n - 1], Top)
    BY <1>3, <2>2, <2>3
  <2>5. calls'[Len(calls')] = calls[n - 1]
    BY <1>11, <2>1, <2>2
  <2>6. PICK source : source = Asked(part, calls[n - 1])
    OBVIOUS
  <2>7. source % 4 = 1 /\ Place(source) = at
    BY <1>4, <2>4, <2>6 DEF Leads
  <2>8. Settled(part, memo', value', source)
    BY <1>3, <1>5, <1>6, <2>7 DEF Settled, Done, Answer
  <2>9. QED
    BY <2>5, <2>6, <2>8
<1>14. QED
  BY <1>2, <1>10, <1>12, <1>13, KeptKept

(* Each step keeps what the objects have.                                    *)
LEMMA KeptNext ==
    ASSUME Typed, Once(memo, heap, calls, marked), Linked, Kept, [Next]_vars
    PROVE  Kept'
<1>1. CASE UNCHANGED <<part, memo, heap, calls, pending, value>>
  BY <1>1, QuietKept DEF Kept
<1>2. CASE Started
  BY <1>2, QuietKept DEF Started, Typed
<1>3. CASE Dies \/ DiscoverRecursion \/ Finish
  BY <1>1, <1>3 DEF Dies, Die, DiscoverRecursion, Finish
<1>4. QED
  BY <1>1, <1>2, <1>3, Shapes, ReturnedKept, ConvertSymbolKept, BegunKept, ContinuedKept,
     CompletedKept DEF vars


-----------------------------------------------------------------------------
(* Nothing is converted at the start.                                        *)
LEMMA InitOnce == Init => Once(memo, heap, calls, marked)
<1> SUFFICES ASSUME Init
             PROVE  Once(memo, heap, calls, marked)
  OBVIOUS
<1>1. DOMAIN calls = {} /\ DOMAIN memo = Offsets /\ \A o \in Offsets : memo[o] = NoRef
  BY DEF Init
<1>2. NoRef \notin Ptrs /\ \A a \in Ptrs : heap[a] = NoObject
  BY PartAssumption DEF Init, Ref
<1>3. Owned(memo, calls) \subseteq {NoRef}
  BY <1>1 DEF Owned
<1>4. \A a \in Ptrs : heap[a] # NoObject <=> a \in Owned(memo, calls)
  BY <1>2, <1>3
<1>5. QED
  BY <1>1, <1>4 DEF Once, Distinct

(* Nothing hangs together at the start,                                      *)
LEMMA InitLinked == Init => Linked
<1> SUFFICES ASSUME Init
             PROVE  Linked
  OBVIOUS
<1>1. calls = << >> /\ DOMAIN calls = {} /\ Len(calls) = 0 /\ pending = NoCall
  BY EmptySeq DEF Init
<1>2. Made(part, memo) = {}
  BY DEF Init, Made, Offsets
<1>3. Chain(part, memo, calls, First, pending)
  BY <1>1 DEF Chain
<1>4. Acyclic(part, memo)
  BY <1>2 DEF Acyclic, Closed, CycleIn
<1>5. QED
  BY <1>3, <1>4 DEF Init, Linked

(* and nothing is filled.                                                    *)
LEMMA InitKept == Init => Kept
<1> SUFFICES ASSUME Init
             PROVE  Kept
  OBVIOUS
<1>1. calls = << >> /\ DOMAIN calls = {}
  BY EmptySeq DEF Init
<1>2. Made(part, memo) = {}
  BY DEF Init, Made, Offsets
<1>3. QED
  BY <1>1, <1>2 DEF Kept

(* The inductive invariant: the types, who owns which object, how the        *)
(* activations hang together, and what the objects hold so far.              *)
Inductive == Typed /\ Once(memo, heap, calls, marked) /\ Linked /\ Kept

(* The invariant holds at the start,                                         *)
LEMMA InitInductive == Init => Inductive
  BY InitTyped, InitOnce, InitLinked, InitKept DEF Inductive

(* and every step keeps it.                                                  *)
LEMMA NextInductive == Inductive /\ [Next]_vars => Inductive'
<1> SUFFICES ASSUME Inductive, [Next]_vars
             PROVE  Inductive'
  OBVIOUS
<1>1. Typed'
  BY NextTyped DEF Inductive
<1>2. Once(memo, heap, calls, marked)'
  BY OnceNext DEF Inductive
<1>3. Linked'
  BY LinkedNext DEF Inductive
<1>4. Kept'
  BY KeptNext DEF Inductive
<1>5. QED
  BY <1>1, <1>2, <1>3, <1>4 DEF Inductive

(* It holds in every state.                                                  *)
LEMMA InductiveAlways == Spec => []Inductive
<1>1. QED
  BY InitInductive, NextInductive, PTL DEF Spec

-----------------------------------------------------------------------------
(* What the types say of every variable.                                     *)
LEMMA TypedTypes == Typed => TypeOK
<1> SUFFICES ASSUME Typed
             PROVE  TypeOK
  OBVIOUS
<1>1. \A o \in Offsets : memo[o] \in Symbols \cup Ptrs \cup {NoRef}
  BY DEF Typed, SoundMemo, Offsets
<1>2. \A p \in Ptrs : \/ heap[p] = NoObject \/ IsFrameObject(heap[p])
                      \/ (IsObject(heap[p]) /\ heap[p].head \in Ref)
  BY DEF Typed, SoundHeap, SoundObject, SoundArray, SoundFrame, SoundBinary, IsArrayObject
<1>3. ASSUME NEW k \in DOMAIN calls
      PROVE  /\ calls[k].at \in Offsets
             /\ calls[k].stage \in {"class", "slot", "map", "tag", "value"}
             /\ calls[k].i \in 0 .. Len(part[calls[k].at].refs)
  <2>1. PICK c : c = calls[k]
    OBVIOUS
  <2>2. c \in Calls /\ SoundCall(part, heap, c)
    BY <2>1, ElementOfSeq, LenProperties DEF Typed, SoundCalls
  <2>3. c.at \in Offsets /\ c.stage \in {"class", "slot", "map", "tag", "value"} /\ c.i \in Nat
    BY <2>2 DEF SoundCall, Calls, Stages, Offsets
  <2>4. Len(part[c.at].refs) \in Nat
    BY <2>3, KindOf DEF Typed, IsPart, Offsets
  <2>5. c.i = 0 \/ c.i < Len(part[c.at].refs)
    BY <2>2 DEF SoundCall
  <2>6. c.i \in 0 .. Len(part[c.at].refs)
    BY <2>3, <2>4, <2>5
  <2>7. QED
    BY <2>1, <2>3, <2>6
<1>4. pending \in (0 .. Word - 1) \cup {NoCall}
  BY DEF Typed, Convertible
<1>5. QED
  BY <1>1, <1>2, <1>3, <1>4 DEF Typed, TypeOK

(* Every variable has its type, whatever the part is.                        *)
THEOREM TypeCorrect == Spec => []TypeOK
<1>1. Inductive => TypeOK
  BY TypedTypes DEF Inductive
<1>2. QED
  BY <1>1, InductiveAlways, PTL

-----------------------------------------------------------------------------
(* Who owns what says that objects are made once.                            *)
LEMMA OnceMade ==
    ASSUME Typed, Once(memo, heap, calls, marked)
    PROVE  MadeOnce
<1>1. DOMAIN memo = Offsets /\ Converted = {o \in Offsets : memo[o] # NoRef} /\ NoRef \notin Ptrs
  BY PartAssumption DEF Typed, SoundMemo, Offsets, Converted, Ref
<1>2. \A o, q \in Converted : memo[o] = memo[q] => o = q
  BY <1>1 DEF Once
<1>3. ASSUME NEW k \in DOMAIN calls
      PROVE  calls[k].ref \in Ptrs \cup {NoRef}
  <2>1. PICK c \in Calls : c = calls[k]
    BY ElementOfSeq, LenProperties DEF Typed, SoundCalls
  <2>2. QED
    BY <2>1 DEF Calls
<1>4. ASSUME NEW p \in Ptrs
      PROVE  heap[p] # NoObject <=> \/ \E o \in Converted : p = memo[o]
                                    \/ \E k \in DOMAIN calls : p = calls[k].ref
  <2>1. heap[p] # NoObject <=> p \in Owned(memo, calls)
    BY DEF Once
  <2>2. QED
    BY <1>1, <2>1 DEF Owned
<1>5. {p \in Ptrs : heap[p] # NoObject} =
          ({memo[o] : o \in Converted} \cap Ptrs)
              \cup ({calls[k].ref : k \in DOMAIN calls} \ {NoRef})
  BY <1>1, <1>3, <1>4
<1>6. QED
  BY <1>2, <1>5 DEF MadeOnce

(* An object of the part becomes one object of the heap, and the heap holds  *)
(* nothing but what the objects became and what the activations fill.        *)
THEOREM MakesOnce == Spec => []MadeOnce
<1>1. Inductive => MadeOnce
  BY OnceMade DEF Inductive
<1>2. QED
  BY <1>1, InductiveAlways, PTL

(* What an object became it stays, through every later conversion.           *)
THEOREM RemembersForever == Spec => MemoKept
<1>1. ASSUME Inductive, [Next]_vars
      PROVE  [\A o \in Converted : memo'[o] = memo[o]]_vars
  BY <1>1, MemoNext DEF Inductive, Converted
<1>2. QED
  BY <1>1, InductiveAlways, PTL DEF Spec, MemoKept

-----------------------------------------------------------------------------
(* A mark that is set belongs to the root, or to an object that is being     *)
(* converted or was: a second reference to it is not taken for recursion.    *)
THEOREM MarksAreTrue == Spec => []MarksAreHonest
<1>1. Inductive => MarksAreHonest
  BY Cycles DEF Inductive, Linked, MarksAreHonest
<1>2. QED
  BY <1>1, InductiveAlways, PTL

(* Recursion is reported where there is a cycle, and what was converted has  *)
(* none.                                                                     *)
THEOREM DiscoversCycles == Spec => []CyclesAreDiscovered
<1>1. Inductive => CyclesAreDiscovered
  BY Cycles DEF Inductive, Linked, Acyclic, CyclesAreDiscovered
<1>2. QED
  BY <1>1, InductiveAlways, PTL


-----------------------------------------------------------------------------
(* A reference that is settled became what it should.                        *)
LEMMA SettledBecame ==
    ASSUME NEW source \in 0 .. Word - 1, NEW ref, Settled(part, memo, ref, source)
    PROVE  Became(ref, source)
<1>1. source % 4 \in {0, 1, 2, 3}
  OBVIOUS
<1>2. CASE source % 4 = 0
  <2>1. Signed(source) \in Int /\ Signed(source) % 4 = 0
    BY <1>2, PartAssumption, SMT DEF Signed
  <2>2. (Signed(source) \div 4) * 4 = Signed(source)
    BY <2>1, SMT
  <2>3. ref = Immediate(source)
    BY <1>2 DEF Settled, Answer
  <2>4. Immediate(source) = Signed(source) + 1
    BY <1>2, <2>2, SMT DEF Immediate
  <2>5. QED
    BY <1>2, <2>3, <2>4 DEF Became
<1>3. CASE source % 4 = 1
  BY <1>3 DEF Settled, Answer, Became, Offsets
<1>4. CASE source % 4 = 2
  <2>1. ref = Immediate(source)
    BY <1>4 DEF Settled, Answer
  <2>2. Immediate(source) = source
    BY <1>4 DEF Immediate
  <2>3. QED
    BY <1>4, <2>1, <2>2 DEF Became
<1>5. CASE source % 4 = 3
  BY <1>5 DEF Became
<1>6. QED
  BY <1>1, <1>2, <1>3, <1>4, <1>5

(* Where the names of the tags differ, they are the tags of the slots.       *)
LEMMA TagsDiffer ==
    ASSUME Typed, NEW o \in Offsets, NEW n, n = Len(part[o].refs)
    PROVE  /\ DOMAIN TagsOf(o) = 1 .. n
           /\ \A i \in 1 .. n : TagsOf(o)[i] = TagRef(part, o, i)
           /\ DistinctTags(o) => Differ(part, memo, o, n)
<1>1. DOMAIN part[o].refs = 1 .. n
  BY KindOf DEF Typed, IsPart, Offsets
<1>2. DOMAIN TagsOf(o) = 1 .. n /\ \A i \in 1 .. n : TagsOf(o)[i] = TagRef(part, o, i)
  BY <1>1 DEF TagsOf, TagRef, MapOf
<1>3. \A i \in 1 .. n : NamesOf(o)[i] = NameOf[memo[Place(TagRef(part, o, i))]]
  BY <1>1, <1>2 DEF NamesOf
<1>4. DistinctTags(o) => Differ(part, memo, o, n)
  BY <1>1, <1>3 DEF DistinctTags, Differ
<1>5. QED
  BY <1>2, <1>4

(* An object that is complete is the one in the part.                        *)
LEMMA WholeIsSame ==
    ASSUME Typed, NEW o \in Converted, Whole(part, memo, heap, o)
    PROVE  SameObject(o)
<1>1. o \in Offsets /\ IsLoaded(part[o])
  BY DEF Converted, Typed, IsPart, Offsets
<1>2. PICK n : n = Len(part[o].refs)
  OBVIOUS
<1>3. /\ Kind(part[o]) \in {"symbol", "binary", "map", "array", "frame"}
      /\ n \in Nat /\ DOMAIN part[o].refs = 1 .. n
      /\ part[o].class \in 0 .. Word - 1
      /\ \A i \in 1 .. n : part[o].refs[i] \in 0 .. Word - 1
  <2>1. part[o].refs \in Seq(0 .. Word - 1) /\ part[o].class \in 0 .. Word - 1
    BY <1>1 DEF IsLoaded
  <2>2. QED
    BY <1>1, <1>2, <2>1, KindOf, ElementOfSeq
<1>4. PICK object : object = heap[memo[o]]
  OBVIOUS
<1>5. CASE Kind(part[o]) = "symbol"
  BY <1>5 DEF Whole, SameObject
<1>6. CASE Kind(part[o]) = "binary"
  <2>1. BinaryFilled(part, memo, object, o)
    BY <1>4, <1>6 DEF Whole, FilledUpTo
  <2>2. /\ object = Binary(object.head)
        /\ \/ IsSymbolNamed(part[o].class, StringName) /\ object.head = StringClass
           \/ Became(object.head, part[o].class)
    BY <1>3, <2>1, NamedSame, SettledBecame DEF BinaryFilled
  <2>3. QED
    BY <1>4, <1>6, <2>2 DEF SameObject
<1>7. CASE Kind(part[o]) \in {"array", "map"}
  <2>1. ArrayFilled(part, memo, object, o, n)
    BY <1>2, <1>4, <1>7 DEF Whole, FilledUpTo
  <2>2. object.tag = "array" /\ object.length = n /\ Became(object.head, part[o].class)
    BY <1>3, <2>1, SettledBecame DEF ArrayFilled
  <2>3. ASSUME NEW i \in 1 .. n
        PROVE  Became(object.slot[0 + i - 1], part[o].refs[i])
    <3>1. 0 + i - 1 = i - 1
      OBVIOUS
    <3>2. Settled(part, memo, object.slot[i - 1], part[o].refs[i])
      BY <2>1 DEF ArrayFilled
    <3>3. QED
      BY <1>3, <3>1, <3>2, SettledBecame
  <2>4. Holds(object, part[o].refs, 0)
    BY <1>3, <2>3 DEF Holds
  <2>5. QED
    BY <1>2, <1>4, <1>7, <2>2, <2>4 DEF SameObject
<1>8. CASE Kind(part[o]) = "frame"
  <2>1. FrameFilled(part, memo, object, o, n)
    BY <1>2, <1>4, <1>8 DEF Whole, FilledUpTo
  <2>2. ASSUME DistinctTags(o)
        PROVE  /\ object.length = n
               /\ Holds(object, part[o].refs, 0)
               /\ Holds(object.head, TagsOf(o), 1)
    <3>1. object.length = n /\ \A i \in 1 .. n :
              /\ Settled(part, memo, object.slot[i - 1], part[o].refs[i])
              /\ object.head.slot[i] = memo[Place(TagRef(part, o, i))]
              /\ IsTag(part, memo, TagRef(part, o, i))
      BY <1>1, <1>2, <2>1, <2>2, TagsDiffer DEF FrameFilled
    <3>2. ASSUME NEW i \in 1 .. n
          PROVE  /\ Became(object.slot[0 + i - 1], part[o].refs[i])
                 /\ Became(object.head.slot[1 + i - 1], TagsOf(o)[i])
      <4>1. 0 + i - 1 = i - 1 /\ 1 + i - 1 = i
        OBVIOUS
      <4>2. Became(object.slot[i - 1], part[o].refs[i])
        BY <1>3, <3>1, SettledBecame
      <4>3. TagsOf(o)[i] = TagRef(part, o, i)
        BY <1>1, <1>2, TagsDiffer
      <4>4. Became(object.head.slot[i], TagRef(part, o, i))
        BY <3>1 DEF Became, IsTag, Offsets
      <4>5. QED
        BY <4>1, <4>2, <4>3, <4>4
    <3>3. DOMAIN TagsOf(o) = 1 .. n
      BY <1>1, <1>2, TagsDiffer
    <3>4. QED
      BY <1>3, <3>1, <3>2, <3>3 DEF Holds
  <2>3. object.tag = "frame"
    BY <2>1 DEF FrameFilled
  <2>4. QED
    BY <1>2, <1>4, <1>8, <2>2, <2>3 DEF SameObject
<1>9. QED
  BY <1>3, <1>5, <1>6, <1>7, <1>8

(* For every part, an object that was converted is the one in the part: its  *)
(* class and its slots became what they should, in their order, and under    *)
(* their tags; magic pointers, and the slots of frames with a tag that is    *)
(* there twice, aside.                                                       *)
THEOREM KeepsTheGraph == Spec => []GraphKept
<1>1. Inductive => GraphKept
  BY Cycles, WholeIsSame DEF Inductive, Kept, GraphKept
<1>2. QED
  BY <1>1, InductiveAlways, PTL


-----------------------------------------------------------------------------
(* Well formed parts: the map of a frame, and the names in it.               *)
LEMMA ItsMap ==
    ASSUME Typed, WellFormed, NEW o \in Offsets, Kind(part[o]) = "frame",
           NEW n, n = Len(part[o].refs)
    PROVE  /\ n \in Nat /\ n + 1 < SizeLimit
           /\ part[o].class % 4 = 1 /\ Place(part[o].class) \in Offsets
           /\ Kind(MapOf(part, o)) = "map" /\ Len(MapOf(part, o).refs) = n + 1
           /\ \A i \in 1 .. n : NamedIn(part, TagRef(part, o, i), part[Place(TagRef(part, o, i))].name)
           /\ \A i, j \in 1 .. n :
                 part[Place(TagRef(part, o, i))].name = part[Place(TagRef(part, o, j))].name => i = j
<1>1. n \in Nat /\ IsLoaded(part[o])
  BY KindOf DEF Typed, IsPart, Offsets
<1>2. part[o].class % 4 = 1
  BY DEF WellFormed, PointersWhereRequired
<1>3. Place(part[o].class) \in Offsets
  BY <1>2 DEF WellFormed, Pointers, RefsOf
<1>4. PICK map : map = MapOf(part, o)
  OBVIOUS
<1>5. /\ Kind(map) = "map" /\ Len(map.refs) = n + 1
      /\ \A i \in 2 .. n + 1 :
            /\ NamedIn(part, map.refs[i], part[Place(map.refs[i])].name)
            /\ \A j \in 2 .. i - 1 : part[Place(map.refs[i])].name # part[Place(map.refs[j])].name
  BY <1>4 DEF WellFormed, HasItsMap, MapOf, NamedIn, Offsets
<1>6. n + 1 < SizeLimit
  BY <1>3, <1>4, <1>5 DEF WellFormed, MapOf
<1>7. ASSUME NEW i \in 1 .. n
      PROVE  i + 1 \in 2 .. n + 1 /\ TagRef(part, o, i) = map.refs[i + 1]
  BY <1>1, <1>4 DEF TagRef
<1>8. ASSUME NEW i \in 1 .. n, NEW j \in 1 .. n, j < i
      PROVE  part[Place(TagRef(part, o, i))].name # part[Place(TagRef(part, o, j))].name
  <2>1. j + 1 \in 2 .. (i + 1) - 1
    BY <1>1, <1>8
  <2>2. part[Place(map.refs[i + 1])].name # part[Place(map.refs[j + 1])].name
    BY <1>5, <1>7, <2>1
  <2>3. QED
    BY <1>7, <2>2
<1>9. ASSUME NEW i \in 1 .. n, NEW j \in 1 .. n,
             part[Place(TagRef(part, o, i))].name = part[Place(TagRef(part, o, j))].name
      PROVE  i = j
  <2>1. ~(i < j) /\ ~(j < i)
    BY <1>8, <1>9
  <2>2. QED
    BY <1>1, <2>1
<1>10. QED
  BY <1>1, <1>2, <1>3, <1>4, <1>5, <1>6, <1>7, <1>9

(* The symbols that the tags became have the names of the tags.              *)
LEMMA NamesDiffer ==
    ASSUME Typed, Kept, WellFormed, NEW o \in Offsets, Kind(part[o]) = "frame",
           NEW n \in Nat, n <= Len(part[o].refs),
           \A j \in 1 .. n : IsTag(part, memo, TagRef(part, o, j))
    PROVE  Differ(part, memo, o, n)
<1>1. PICK m \in Nat : m = Len(part[o].refs)
  BY ItsMap
<1>2. \A j \in 1 .. n : j \in 1 .. m
  BY <1>1
<1>3. ASSUME NEW j \in 1 .. n
      PROVE  NameOf[memo[Place(TagRef(part, o, j))]] = part[Place(TagRef(part, o, j))].name
  <2>1. PICK q : q = Place(TagRef(part, o, j))
    OBVIOUS
  <2>2. q \in DOMAIN part /\ memo[q] \in Symbols
    BY <2>1 DEF IsTag
  <2>3. memo[q] # NoRef
    BY <2>2, PartAssumption DEF Ref
  <2>4. q \in Made(part, memo) /\ Kind(part[q]) = "symbol"
    BY <2>2, <2>3 DEF Made, Typed, SoundMemo
  <2>5. QED
    BY <2>1, <2>4 DEF Kept, Whole
<1>4. \A i, j \in 1 .. m :
          part[Place(TagRef(part, o, i))].name = part[Place(TagRef(part, o, j))].name => i = j
  BY <1>1, ItsMap
<1>5. QED
  BY <1>2, <1>3, <1>4 DEF Differ

(* No reference in a well formed part leads to where no object is.           *)
LEMMA NoneDangles ==
    ASSUME Typed, Linked, WellFormed, Calling, pending % 4 = 1,
           calls = << >> => Kind(part[Root]) \in Slotted /\ part[Root].refs # << >>
    PROVE  Place(pending) \in Offsets
<1>1. PointersWhereRequired /\ \A o \in Offsets : PointersIn(part, o) \subseteq Offsets
  BY Cycles DEF WellFormed
<1>2. pending # NoCall /\ IsPart(part)
  BY DEF Calling, Typed
<1>3. CASE calls = << >>
  <2>1. pending = First + 1
    BY <1>2, <1>3 DEF Linked, Chain
  <2>2. Place(pending) \in PointersIn(part, Root) /\ Root \in Offsets
    BY <1>1, <1>2, <1>3, <2>1, RootPoints, RootExists
  <2>3. QED
    BY <1>1, <2>2
<1>4. CASE calls # << >>
  <2>1. PICK c : c = calls[Len(calls)]
    OBVIOUS
  <2>2. pending = Asked(part, c)
    BY <1>2, <1>4, <2>1 DEF Linked, Chain
  <2>3. c \in Calls /\ SoundCall(part, heap, c)
    BY <1>4, <2>1, LastCall DEF Typed
  <2>4. c.at \in Offsets /\ IsLoaded(part[c.at]) /\ c.i \in Nat
    BY <1>2, <2>3 DEF SoundCall, IsPart, Calls, Offsets
  <2>5. CASE c.stage # "tag"
    <3>1. Place(pending) \in PointersIn(part, c.at)
      BY <2>2, <2>3, <2>4, <2>5, AskedPointer
    <3>2. QED
      BY <1>1, <2>4, <3>1
  <2>6. CASE c.stage = "tag"
    <3>1. Kind(part[c.at]) = "frame" /\ c.i < Len(part[c.at].refs)
      BY <2>3, <2>6 DEF SoundCall
    <3>2. PICK n \in Nat : n = Len(part[c.at].refs)
      BY <2>4, <3>1, ItsMap
    <3>3. c.i + 1 \in 1 .. n
      BY <2>4, <3>1, <3>2
    <3>4. NamedIn(part, TagRef(part, c.at, c.i + 1), part[Place(TagRef(part, c.at, c.i + 1))].name)
      BY <2>4, <3>1, <3>2, <3>3, ItsMap
    <3>5. (c.i + 1) + 1 = c.i + 2
      BY <2>4
    <3>6. pending = TagRef(part, c.at, c.i + 1)
      BY <2>2, <2>6, <3>5 DEF Asked, TagRef
    <3>7. QED
      BY <3>4, <3>6 DEF NamedIn, Offsets
  <2>7. QED
    BY <2>5, <2>6
<1>5. QED
  BY <1>3, <1>4

(* The tags of a frame are found in its map.                                 *)
LEMMA TagsReadable ==
    ASSUME Typed, WellFormed, NEW stage, Waiting(stage), Kind(Source) = "frame", NEW i \in Nat
    PROVE  Place(Source.class) \in Offsets /\ TagReadable(i)
<1>1. Top.at \in Offsets /\ Source = part[Top.at]
  BY WaitingFacts
<1>2. PICK n \in Nat : n = Len(Source.refs)
  BY <1>1, ItsMap
<1>3. /\ Place(Source.class) \in Offsets
      /\ Map = MapOf(part, Top.at) /\ Kind(Map) = "map" /\ Len(Map.refs) = n + 1
  BY <1>1, <1>2, ItsMap DEF Map, MapOf
<1>4. i < n => i + 2 <= n + 1
  BY <1>2
<1>5. QED
  BY <1>2, <1>3, <1>4 DEF TagReadable, Slotted

(* The array that is filled has room for the next of its slots.              *)
LEMMA SlotFits ==
    ASSUME Typed, Kept, WellFormed, Waiting("slot")
    PROVE  AddSlotAsserts(heap[Top.ref])
<1>1. PICK old : old = heap[Top.ref]
  OBVIOUS
<1>2. PICK n \in Nat : n = Top.i
  BY WaitingFacts DEF Calls
<1>3. /\ Top.stage = "slot" /\ Kind(part[Top.at]) \in {"array", "map"} /\ SoundArray(old)
      /\ n < Len(part[Top.at].refs) /\ Top.at \in Offsets /\ IsLoaded(part[Top.at])
  BY <1>1, <1>2, WaitingFacts DEF SoundCall
<1>4. Partial(part, memo, heap, Top)
  BY <1>3, TopKept
<1>5. old.length = n
  BY <1>1, <1>2, <1>3, <1>4 DEF Partial, FilledUpTo, ArrayFilled
<1>6. Len(part[Top.at].refs) \in Nat /\ Len(part[Top.at].refs) < SizeLimit
  BY <1>3, KindOf DEF WellFormed
<1>7. IsSlotted(old) /\ Room(old)
  BY <1>3, <1>5, <1>6, SizeAssumption DEF SoundArray, IsArrayObject, IsObject, Room
<1>8. QED
  BY <1>1, <1>7, RoomForOne

(* The tag is a symbol of another name than those before it, and the frame   *)
(* has room for it.                                                          *)
LEMMA ValueFits ==
    ASSUME Typed, Kept, WellFormed, Waiting("value")
    PROVE  Top.tag \in Symbols /\ FrameSetSlotAsserts(heap[Top.ref], Top.tag)
<1>1. PICK old : old = heap[Top.ref]
  OBVIOUS
<1>2. PICK n \in Nat : n = Top.i
  BY WaitingFacts DEF Calls
<1>3. PICK o \in Offsets : o = Top.at
  BY WaitingFacts
<1>4. /\ Top.stage = "value" /\ Kind(part[o]) = "frame" /\ SoundFrame(old)
      /\ n < Len(part[o].refs)
  BY <1>1, <1>2, <1>3, WaitingFacts DEF SoundCall
<1>5. Partial(part, memo, heap, Top)
  BY <1>4, TopKept
<1>6. FrameFilled(part, memo, old, o, n) /\ Settled(part, memo, Top.tag, TagRef(part, o, n + 1))
  BY <1>1, <1>2, <1>3, <1>4, <1>5 DEF Partial, FilledUpTo
<1>7. PICK m \in Nat : m = Len(part[o].refs) /\ m + 1 < SizeLimit
  BY <1>4, ItsMap
<1>8. n + 1 \in 1 .. m
  BY <1>4, <1>7
<1>9. NamedIn(part, TagRef(part, o, n + 1), part[Place(TagRef(part, o, n + 1))].name)
  BY <1>4, <1>7, <1>8, ItsMap
<1>10. /\ IsTag(part, memo, TagRef(part, o, n + 1))
       /\ Top.tag = memo[Place(TagRef(part, o, n + 1))] /\ Top.tag \in Symbols
  <2>1. PICK source : source = TagRef(part, o, n + 1)
    OBVIOUS
  <2>2. source % 4 = 1 /\ Place(source) \in DOMAIN part /\ Kind(part[Place(source)]) = "symbol"
    BY <1>9, <2>1 DEF NamedIn
  <2>3. Top.tag = memo[Place(source)] /\ memo[Place(source)] # NoRef
    BY <1>6, <2>1, <2>2 DEF Settled, Done, Answer
  <2>4. memo[Place(source)] \in Symbols
    BY <2>2, <2>3 DEF Typed, SoundMemo
  <2>5. QED
    BY <2>1, <2>2, <2>3, <2>4 DEF IsTag
<1>11. \A j \in 1 .. n + 1 : j \in 1 .. n \/ j = n + 1
  OBVIOUS
<1>12. \A j \in 1 .. n + 1 : IsTag(part, memo, TagRef(part, o, j))
  BY <1>6, <1>10, <1>11 DEF FrameFilled
<1>13. Differ(part, memo, o, n + 1)
  BY <1>4, <1>7, <1>8, <1>12, NamesDiffer
<1>14. old.length = n /\ ~HasTag(old, Top.tag)
  BY <1>4, <1>6, <1>10, <1>13, NewTag
<1>15. old.head.length = n + 1 /\ n \in Nat /\ n + 2 < SizeLimit
  BY <1>4, <1>7, <1>8, <1>14, SizeAssumption DEF SoundFrame, InStep
<1>16. Room(old.head)
  BY <1>15, SizeAssumption DEF Room
<1>17. QED
  BY <1>1, <1>4, <1>10, <1>14, <1>16, RoomForTag


-----------------------------------------------------------------------------
(* The conversion of a well formed part goes on, or ends in recursion.       *)
GoesOn == holes = {} /\ status \in {"idle", "converting", "recursion"}

(* Whether a part is well formed depends on the part only.                   *)
LEMMA SameForm ==
    ASSUME part' = part
    PROVE  WellFormed' <=> WellFormed
<1>1. Offsets' = Offsets /\ (PointersWhereRequired' <=> PointersWhereRequired)
  BY SamePart
<1>2. \A o : Pointers(o)' = Pointers(o)
  BY DEF Pointers, RefsOf
<1>3. \A o : HasItsMap(o)' <=> HasItsMap(o)
  BY <1>1 DEF HasItsMap
<1>4. QED
  BY <1>1, <1>2, <1>3 DEF WellFormed

(* The root of a well formed part has a slot.                                *)
LEMMA RootStays ==
    ASSUME WellFormed
    PROVE  Kind(part[Root]) \in Slotted /\ part[Root].refs # << >>
  BY DEF WellFormed, PointersWhereRequired

(* refToNOS goes on, or discovers recursion.                                 *)
LEMMA CallsGoOn ==
    ASSUME Inductive, WellFormed, GoesOn,
           \/ ConvertImmediate \/ ConvertDangling \/ ReturnRemembered \/ DiscoverRecursion
           \/ ConvertSymbol \/ BeginClassed \/ BeginFrame
    PROVE  GoesOn'
<1>1. ~ConvertDangling
  BY NoneDangles, RootStays DEF Inductive, ConvertDangling
<1>2. CASE DiscoverRecursion
  BY <1>2 DEF DiscoverRecursion, Die, GoesOn
<1>3. CASE ConvertImmediate \/ ReturnRemembered \/ ConvertSymbol \/ BeginClassed \/ BeginFrame
  BY <1>3 DEF ConvertImmediate, ReturnRemembered, ConvertSymbol, BeginClassed, BeginFrame, GoesOn
<1>4. QED
  BY <1>1, <1>2, <1>3

(* An activation with what it waits for goes on.                             *)
LEMMA ActivationsGoOn ==
    ASSUME Inductive, WellFormed, GoesOn,
           MakeBinary \/ MakeArray \/ GetSlotValue \/ GetMap \/ GetTag \/ GetValue \/ Finish
    PROVE  GoesOn'
<1>1. CASE MakeBinary \/ MakeArray \/ GetTag \/ Finish
  BY <1>1 DEF MakeBinary, MakeArray, GetTag, Finish, Rest, GoesOn
<1>2. CASE GetSlotValue
  <2>1. AddSlotAsserts(heap[Top.ref])
    BY <1>2, SlotFits DEF Inductive, GetSlotValue
  <2>2. QED
    BY <1>2, <2>1 DEF GetSlotValue, Rest, GoesOn
<1>3. CASE GetMap
  <2>1. Waiting("map") /\ Kind(Source) = "frame"
    BY <1>3, WaitingFacts DEF Inductive, GetMap, SoundCall
  <2>2. Place(Source.class) \in Offsets /\ TagReadable(0)
    BY <2>1, TagsReadable DEF Inductive
  <2>3. QED
    BY <1>3, <2>2 DEF GetMap, GoesOn
<1>4. CASE GetValue
  <2>1. Waiting("value") /\ Kind(Source) = "frame" /\ Top.i \in Nat
    BY <1>4, WaitingFacts DEF Inductive, GetValue, SoundCall, Calls
  <2>2. Top.tag \in Symbols /\ FrameSetSlotAsserts(heap[Top.ref], Top.tag)
    BY <2>1, ValueFits DEF Inductive
  <2>3. TagReadable(Top.i + 1)
    BY <2>1, TagsReadable DEF Inductive
  <2>4. QED
    BY <1>4, <2>2, <2>3 DEF GetValue, Rest, GoesOn
<1>5. QED
  BY <1>1, <1>2, <1>3, <1>4

(* The client finds no hole, and a slot in the root.                         *)
LEMMA ClientGoesOn ==
    ASSUME Inductive, WellFormed, GoesOn, ToNOS \/ VisitAll
    PROVE  GoesOn'
<1>1. ~VisitAll
  BY DEF GoesOn, VisitAll
<1>2. /\ Kind(part[Root]) \in Slotted /\ part[Root].refs # << >>
      /\ \A o \in Offsets : PointersIn(part, o) \subseteq Offsets
  BY Cycles, RootStays DEF WellFormed
<1>3. First \in PointersIn(part, Root) /\ Root \in Offsets
  BY <1>2, RootPoints, RootExists DEF Inductive, Typed, WellFormed
<1>4. First \in Offsets
  BY <1>2, <1>3
<1>5. QED
  BY <1>1, <1>2, <1>4 DEF ToNOS, First, GoesOn

(* No step changes the part.                                                 *)
LEMMA PartStays ==
    ASSUME [Next]_vars
    PROVE  part' = part
  BY DEF vars, Next, Step, ToNOS, VisitAll, Die, ConvertImmediate, ConvertDangling, ReturnRemembered,
         DiscoverRecursion, ConvertSymbol, BeginClassed, BeginFrame, MakeBinary, MakeArray,
         GetSlotValue, GetMap, GetTag, GetValue, Finish, Rest

(* Nothing but recursion stops the conversion of a well formed part: its     *)
(* references lead to objects, its frames find their tags in their maps, the *)
(* tags become symbols, and no slot is one too many.                         *)
THEOREM ConvertsWellFormed == Spec => []WellFormedConverts
<1>1. Init => (WellFormed => GoesOn)
  BY DEF Init, GoesOn
<1>2. Inductive /\ (WellFormed => GoesOn) /\ [Next]_vars => (WellFormed => GoesOn)'
  <2> SUFFICES ASSUME Inductive, WellFormed => GoesOn, [Next]_vars, WellFormed'
               PROVE  GoesOn'
    OBVIOUS
  <2>1. WellFormed /\ GoesOn
    BY PartStays, SameForm
  <2>2. CASE UNCHANGED vars
    BY <2>1, <2>2 DEF vars, GoesOn
  <2>3. CASE Next
    BY <2>1, <2>3, CallsGoOn, ActivationsGoOn, ClientGoesOn DEF Next, Step
  <2>4. QED
    BY <2>2, <2>3
<1>3. (WellFormed => GoesOn) => WellFormedConverts
  BY DEF GoesOn, WellFormedConverts
<1>4. QED
  BY <1>1, <1>2, <1>3, InductiveAlways, PTL DEF Spec
=============================================================================
