------------------------- MODULE StreamReaderProofs -------------------------
(***************************************************************************)
(* Proofs about StreamReader for every stream, every set of addresses and  *)
(* symbols and every size limit; and that every graph of StreamedGraphs is *)
(* read as it was written.                                                 *)
(***************************************************************************)
EXTENDS StreamedGraphs, SlottedObjectProofs, FiniteSetTheorems, WellFoundedInduction

Calls == [stage : Stages, ref : Ptrs \cup {NoRef}, id : Nat, i : Nat, n : Nat]

ClassStages == {"binaryClass", "arrayClass"}

(* An activation that waits for a part has its object, in the heap h; it will *)
(* not run out of slots before the object does.                              *)
HasObject(h, c) ==
    /\ c.ref \in Ptrs
    /\ c.i < c.n
    /\ \/ SoundFrame(h[c.ref])
       \/ c.stage = "slots" /\ SoundArray(h[c.ref]) /\ h[c.ref].length <= c.n

(* The activations cs, when n IDs were given: the inner ones have later IDs. *)
CallsSound(cs, n, h) ==
    /\ cs \in Seq(Calls)
    /\ \A k \in DOMAIN cs : /\ cs[k].id \in 1 .. n
                            /\ cs[k].stage \notin ClassStages => HasObject(h, cs[k])
    /\ \A j, k \in DOMAIN cs : j < k => cs[j].id < cs[k].id

HolesMatch(ids, cs) ==
    \A k \in DOMAIN ids :
        ids[k] = NIL <=> \E j \in DOMAIN cs : cs[j].stage \in ClassStages /\ cs[j].id = k

(* A slot that was not filled is waited for.                                 *)
Unfilled(h, p, i) == h[p] # NoObject /\ i < h[p].length /\ h[p].slot[i] = UNREF

Awaits(c, p, i) == c.stage = "slots" /\ c.ref = p /\ c.i <= i

AllAwaited(h, cs) ==
    \A p \in Ptrs, i \in Nat :
        Unfilled(h, p, i) => h[p].tag = "array" /\ \E k \in DOMAIN cs : Awaits(cs[k], p, i)

NothingLooksUnfilled ==
    /\ value # NoRef => value # UNREF
    /\ \A k \in DOMAIN precedent : precedent[k] # UNREF
    /\ AllAwaited(heap, calls)

(* The inductive invariant. *)
IInv ==
    /\ IsStream(stream)
    /\ pos \in Nat /\ 1 <= pos /\ pos <= Len(stream) + 1
    /\ precedent \in Seq(Ref)
    /\ SoundHeap(heap)
    /\ value \in Ref \cup {NoRef}
    /\ status \in {"closed", "open", "reading", "read"} \cup Deaths
    /\ status \in {"closed", "open", "read"} => calls = << >>
    /\ status \in {"closed", "open"} => pos = 1 /\ precedent = << >>
    /\ status = "closed" => value = NoRef /\ heap = [p \in Ptrs |-> NoObject]
    /\ CallsSound(calls, Len(precedent), heap)
    /\ HolesMatch(precedent, calls)
    /\ IdsInOrder
    /\ HasNoUnref => NothingLooksUnfilled

-----------------------------------------------------------------------------
(* A call more, a call less, and another instead of the last.                *)
LEMMA PushedCall ==
    ASSUME NEW cs, NEW n \in Nat, NEW h, NEW c \in Calls, CallsSound(cs, n, h), c.id = n + 1,
           c.stage \notin ClassStages => HasObject(h, c)
    PROVE  CallsSound(Append(cs, c), n + 1, h)
<1> DEFINE d == Append(cs, c)
<1>1. cs \in Seq(Calls) /\ \A k \in DOMAIN cs : cs[k].id \in 1 .. n
  BY DEF CallsSound
<1>2. /\ d \in Seq(Calls) /\ Len(cs) \in Nat /\ DOMAIN cs = 1 .. Len(cs) /\ DOMAIN d = 1 .. Len(cs) + 1
      /\ \A k \in 1 .. Len(cs) : d[k] = cs[k]
      /\ d[Len(cs) + 1] = c
  BY <1>1, AppendedSequence
<1> HIDE DEF d
<1>3. ASSUME NEW k \in DOMAIN d
      PROVE  /\ d[k].id \in 1 .. n + 1
             /\ d[k].stage \notin ClassStages => HasObject(h, d[k])
  <2>1. CASE k = Len(cs) + 1
    BY <1>2, <2>1
  <2>2. CASE k \in 1 .. Len(cs)
    BY <1>1, <1>2, <2>2 DEF CallsSound
  <2>3. QED
    BY <1>2, <2>1, <2>2
<1>4. ASSUME NEW j \in DOMAIN d, NEW k \in DOMAIN d, j < k
      PROVE  d[j].id < d[k].id
  <2>1. j \in 1 .. Len(cs) /\ d[j] = cs[j] /\ d[j].id \in 1 .. n
    BY <1>1, <1>2, <1>4
  <2>2. CASE k = Len(cs) + 1
    BY <1>2, <2>1, <2>2
  <2>3. CASE k \in 1 .. Len(cs)
    BY <1>1, <1>2, <1>4, <2>1, <2>3 DEF CallsSound
  <2>4. QED
    BY <1>2, <2>2, <2>3
<1>5. QED
  BY <1>2, <1>3, <1>4 DEF CallsSound, d

(* Without the innermost activation,                                         *)
LEMMA PoppedCall ==
    ASSUME NEW cs, NEW n \in Nat, NEW h, CallsSound(cs, n, h), cs # << >>
    PROVE  CallsSound(SubSeq(cs, 1, Len(cs) - 1), n, h)
<1>1. cs \in Seq(Calls) /\ DOMAIN cs = 1 .. Len(cs)
  BY LenProperties DEF CallsSound
<1>2. PICK d : d = SubSeq(cs, 1, Len(cs) - 1)
  OBVIOUS
<1>3. /\ Len(cs) \in Nat \ {0} /\ d \in Seq(Calls) /\ DOMAIN d = 1 .. Len(cs) - 1
      /\ \A k \in 1 .. Len(cs) - 1 : d[k] = cs[k]
  BY <1>1, <1>2, ShortenedSequence
<1>4. \A k \in DOMAIN d : k \in DOMAIN cs /\ d[k] = cs[k]
  BY <1>1, <1>3
<1>5. QED
  BY <1>2, <1>3, <1>4 DEF CallsSound

(* or with another stage of it, the activations stay sound.                  *)
LEMMA ReplacedCall ==
    ASSUME NEW cs, NEW n \in Nat, NEW h, CallsSound(cs, n, h), cs # << >>,
           NEW c \in Calls, c.id = cs[Len(cs)].id,
           c.stage \notin ClassStages => HasObject(h, c)
    PROVE  CallsSound(Append(SubSeq(cs, 1, Len(cs) - 1), c), n, h)
<1>1. cs \in Seq(Calls) /\ DOMAIN cs = 1 .. Len(cs)
  BY LenProperties DEF CallsSound
<1>2. PICK s : s = SubSeq(cs, 1, Len(cs) - 1)
  OBVIOUS
<1>3. /\ Len(cs) \in Nat \ {0} /\ Len(cs) \in DOMAIN cs
      /\ s \in Seq(Calls) /\ DOMAIN s = 1 .. Len(cs) - 1
      /\ \A k \in 1 .. Len(cs) - 1 : s[k] = cs[k]
  BY <1>1, <1>2, ShortenedSequence
<1>4. Len(s) = Len(cs) - 1
  BY <1>3, LenProperties
<1>5. PICK d : d = Append(s, c)
  OBVIOUS
<1>6. /\ d \in Seq(Calls) /\ DOMAIN d = 1 .. Len(cs)
      /\ \A k \in 1 .. Len(cs) - 1 : d[k] = cs[k]
      /\ d[Len(cs)] = c
  BY <1>3, <1>4, <1>5, AppendedSequence
<1>7. \A k \in DOMAIN d : /\ k \in DOMAIN cs /\ d[k].id = cs[k].id
                          /\ k # Len(cs) => d[k] = cs[k]
  BY <1>1, <1>3, <1>6
<1>8. \A k \in DOMAIN d : d[k].id \in 1 .. n
  BY <1>7 DEF CallsSound
<1>9. \A k \in DOMAIN d : d[k].stage \notin ClassStages => HasObject(h, d[k])
  BY <1>6, <1>7 DEF CallsSound
<1>10. \A j, k \in DOMAIN d : j < k => d[j].id < d[k].id
  BY <1>7 DEF CallsSound
<1>11. QED
  BY <1>2, <1>5, <1>6, <1>8, <1>9, <1>10 DEF CallsSound

(* Objects that are still there, of their kind, keep the activations sound.  *)
Kept(h, g, p) ==
    \/ h[p] = NoObject \/ g[p] = h[p]
    \/ SoundFrame(h[p]) /\ SoundFrame(g[p])
    \/ SoundArray(h[p]) /\ SoundArray(g[p]) /\ g[p].length = h[p].length

(* They stay sound in a heap that keeps the kind and length of objects.      *)
LEMMA CallsKept ==
    ASSUME NEW cs, NEW n \in Nat, NEW m \in Nat, n <= m, NEW h, NEW g,
           CallsSound(cs, n, h), \A p \in Ptrs : Kept(h, g, p)
    PROVE  CallsSound(cs, m, g)
<1>1. ASSUME NEW k \in DOMAIN cs, HasObject(h, cs[k])
      PROVE  HasObject(g, cs[k])
  <2>1. PICK p \in Ptrs : p = cs[k].ref
    BY <1>1 DEF HasObject
  <2>2. SoundFrame(h[p]) \/ SoundArray(h[p])
    BY <1>1, <2>1 DEF HasObject
  <2>3. h[p] # NoObject /\ ~(SoundFrame(h[p]) /\ SoundArray(h[p]))
    BY <2>2, SoundIsSomething
  <2>4. QED
    BY <1>1, <2>1, <2>3 DEF HasObject, Kept
<1>2. QED
  BY <1>1 DEF CallsSound

-----------------------------------------------------------------------------
(* An ID is given: it reads NIL while an activation waits for a class.       *)
LEMMA HoleMade ==
    ASSUME NEW ids \in Seq(Ref), NEW cs \in Seq(Calls), HolesMatch(ids, cs),
           \A k \in DOMAIN cs : cs[k].id \in 1 .. Len(ids),
           NEW x \in Ref, NEW c \in Calls, c.id = Len(ids) + 1,
           x = NIL <=> c.stage \in ClassStages
    PROVE  HolesMatch(Append(ids, x), Append(cs, c))
<1>1. PICK e : e = Append(ids, x)
  OBVIOUS
<1>2. PICK d : d = Append(cs, c)
  OBVIOUS
<1>3. /\ Len(ids) \in Nat /\ DOMAIN ids = 1 .. Len(ids) /\ DOMAIN e = 1 .. Len(ids) + 1
      /\ \A k \in 1 .. Len(ids) : e[k] = ids[k]
      /\ e[Len(ids) + 1] = x
  BY <1>1, AppendedSequence
<1>4. /\ Len(cs) \in Nat /\ DOMAIN cs = 1 .. Len(cs) /\ DOMAIN d = 1 .. Len(cs) + 1
      /\ \A k \in 1 .. Len(cs) : d[k] = cs[k]
      /\ d[Len(cs) + 1] = c
  BY <1>2, AppendedSequence
<1>5. ASSUME NEW k \in 1 .. Len(ids)
      PROVE  e[k] = NIL <=> \E j \in DOMAIN d : d[j].stage \in ClassStages /\ d[j].id = k
  <2>1. e[k] = NIL <=> \E j \in DOMAIN cs : cs[j].stage \in ClassStages /\ cs[j].id = k
    BY <1>3, <1>5 DEF HolesMatch
  <2>2. c.id # k
    BY <1>3, <1>5
  <2>3. QED
    BY <1>4, <2>1, <2>2
<1>6. \A j \in 1 .. Len(cs) : d[j].id # Len(ids) + 1
  BY <1>3, <1>4
<1>7. QED
  BY <1>1, <1>2, <1>3, <1>4, <1>5, <1>6 DEF HolesMatch

(* Reading something complete makes no hole.                                 *)
LEMMA NoHoleMade ==
    ASSUME NEW ids \in Seq(Ref), NEW cs \in Seq(Calls), HolesMatch(ids, cs),
           \A k \in DOMAIN cs : cs[k].id \in 1 .. Len(ids),
           NEW x \in Ref, x # NIL
    PROVE  HolesMatch(Append(ids, x), cs)
<1>1. PICK e : e = Append(ids, x)
  OBVIOUS
<1>2. /\ Len(ids) \in Nat /\ DOMAIN ids = 1 .. Len(ids) /\ DOMAIN e = 1 .. Len(ids) + 1
      /\ \A k \in 1 .. Len(ids) : e[k] = ids[k]
      /\ e[Len(ids) + 1] = x
  BY <1>1, AppendedSequence
<1>3. \A j \in DOMAIN cs : cs[j].id # Len(ids) + 1
  BY <1>2
<1>4. QED
  BY <1>1, <1>2, <1>3 DEF HolesMatch

(* ds are the activations cs but for the last, and perhaps one that waits    *)
(* for a part.                                                               *)
Resumes(cs, ds) ==
    /\ cs # << >>
    /\ \A j \in 1 .. Len(cs) - 1 : j \in DOMAIN ds /\ ds[j] = cs[j]
    /\ \A j \in DOMAIN ds : j \in 1 .. Len(cs) - 1 \/ ds[j].stage \notin ClassStages

(* Returning resumes the caller,                                             *)
LEMMA ReturnResumes ==
    ASSUME NEW cs \in Seq(Calls), cs # << >>
    PROVE  Resumes(cs, SubSeq(cs, 1, Len(cs) - 1))
  BY ShortenedSequence DEF Resumes

(* and so does going on behind the class.                                    *)
LEMMA ReplacementResumes ==
    ASSUME NEW cs \in Seq(Calls), cs # << >>, NEW c \in Calls, c.stage \notin ClassStages,
           NEW ds, ds = Append(SubSeq(cs, 1, Len(cs) - 1), c)
    PROVE  Resumes(cs, ds) /\ Len(cs) \in DOMAIN ds /\ ds[Len(cs)] = c
<1>1. PICK s : s = SubSeq(cs, 1, Len(cs) - 1)
  OBVIOUS
<1>2. /\ Len(cs) \in Nat \ {0} /\ s \in Seq(Calls) /\ DOMAIN s = 1 .. Len(cs) - 1
      /\ \A k \in 1 .. Len(cs) - 1 : s[k] = cs[k]
  BY <1>1, ShortenedSequence
<1>3. Len(s) = Len(cs) - 1
  BY <1>2, LenProperties
<1>4. /\ DOMAIN ds = 1 .. Len(cs)
      /\ \A k \in 1 .. Len(cs) - 1 : ds[k] = cs[k]
      /\ ds[Len(cs)] = c
  BY <1>1, <1>2, <1>3, AppendedSequence
<1>5. QED
  BY <1>2, <1>4 DEF Resumes

(* The class was read: the object is entered under its ID.                   *)
LEMMA HoleFilled ==
    ASSUME NEW ids \in Seq(Ref), NEW cs, NEW ds, NEW h, HolesMatch(ids, cs), Resumes(cs, ds),
           CallsSound(cs, Len(ids), h), NEW x \in Ref, x # NIL
    PROVE  HolesMatch([ids EXCEPT ![cs[Len(cs)].id] = x], ds)
<1>1. /\ cs \in Seq(Calls) /\ DOMAIN cs = 1 .. Len(cs)
      /\ Len(ids) \in Nat /\ DOMAIN ids = 1 .. Len(ids)
  BY LenProperties DEF CallsSound
<1>2. Len(cs) \in Nat \ {0} /\ Len(cs) \in DOMAIN cs
  BY <1>1, ShortenedSequence DEF Resumes
<1>3. PICK n \in 1 .. Len(ids) : n = cs[Len(cs)].id
  BY <1>2 DEF CallsSound
<1>4. PICK e : e = [ids EXCEPT ![n] = x]
  OBVIOUS
<1>5. DOMAIN e = DOMAIN ids /\ \A k \in DOMAIN ids : e[k] = IF k = n THEN x ELSE ids[k]
  BY <1>4
<1>6. \A j \in 1 .. Len(cs) - 1 : cs[j].id \in 1 .. Len(ids) /\ cs[j].id < n
  BY <1>1, <1>2, <1>3 DEF CallsSound
<1>7. \A j \in DOMAIN ds : ds[j].stage \in ClassStages => ds[j].id # n
  BY <1>1, <1>3, <1>6, SMTT(30) DEF Resumes
<1>8. ASSUME NEW k \in DOMAIN ids, k # n
      PROVE  ids[k] = NIL <=> \E j \in DOMAIN ds : ds[j].stage \in ClassStages /\ ds[j].id = k
  <2>1. ids[k] = NIL <=> \E j \in DOMAIN cs : cs[j].stage \in ClassStages /\ cs[j].id = k
    BY <1>8 DEF HolesMatch
  <2>2. \A j \in DOMAIN cs : cs[j].id = k => j \in 1 .. Len(cs) - 1
    BY <1>1, <1>2, <1>3, <1>8
  <2>3. \A j \in 1 .. Len(cs) - 1 : j \in DOMAIN cs
    BY <1>1, <1>2
  <2>4. QED
    BY <2>1, <2>2, <2>3 DEF Resumes
<1>9. QED
  BY <1>3, <1>4, <1>5, <1>7, <1>8 DEF HolesMatch

(* A part was read.                                                          *)
LEMMA HolesStay ==
    ASSUME NEW ids, NEW cs \in Seq(Calls), NEW ds, HolesMatch(ids, cs), Resumes(cs, ds),
           cs[Len(cs)].stage \notin ClassStages
    PROVE  HolesMatch(ids, ds)
<1>1. DOMAIN cs = 1 .. Len(cs) /\ Len(cs) \in Nat
  BY LenProperties
<1>2. ASSUME NEW k \in DOMAIN ids
      PROVE  ids[k] = NIL <=> \E j \in DOMAIN ds : ds[j].stage \in ClassStages /\ ds[j].id = k
  <2>1. ids[k] = NIL <=> \E j \in DOMAIN cs : cs[j].stage \in ClassStages /\ cs[j].id = k
    BY <1>2 DEF HolesMatch
  <2>2. \A j \in DOMAIN cs : cs[j].stage \in ClassStages => j \in 1 .. Len(cs) - 1
    BY <1>1
  <2>3. \A j \in 1 .. Len(cs) - 1 : j \in DOMAIN cs
    BY <1>1
  <2>4. QED
    BY <2>1, <2>2, <2>3 DEF Resumes
<1>3. QED
  BY <1>2 DEF HolesMatch

-----------------------------------------------------------------------------
(* One object changes: what it lacks must be waited for, and whoever waits   *)
(* for parts of other objects still does.                                    *)
OthersAwaited(cs, ds, q) ==
    \A k \in DOMAIN cs : cs[k].stage = "slots" /\ cs[k].ref # q => \E j \in DOMAIN ds : ds[j] = cs[k]

(* If only the object at q changes, and its unfilled slots are awaited, all  *)
(* are.                                                                      *)
LEMMA StillAwaited ==
    ASSUME NEW h, NEW g, NEW cs, NEW ds, NEW q, AllAwaited(h, cs),
           \A p \in Ptrs \ {q} : g[p] = h[p],
           \A i \in Nat : Unfilled(g, q, i) =>
               g[q].tag = "array" /\ \E k \in DOMAIN ds : Awaits(ds[k], q, i),
           OthersAwaited(cs, ds, q)
    PROVE  AllAwaited(g, ds)
<1>1. ASSUME NEW p \in Ptrs, NEW i \in Nat, Unfilled(g, p, i)
      PROVE  g[p].tag = "array" /\ \E k \in DOMAIN ds : Awaits(ds[k], p, i)
  <2>1. CASE p = q
    BY <1>1, <2>1
  <2>2. CASE p # q
    <3>1. Unfilled(h, p, i) /\ g[p] = h[p]
      BY <1>1, <2>2 DEF Unfilled
    <3>2. PICK k \in DOMAIN cs : Awaits(cs[k], p, i)
      BY <3>1 DEF AllAwaited
    <3>3. PICK j \in DOMAIN ds : ds[j] = cs[k]
      BY <3>2, <2>2 DEF Awaits, OthersAwaited
    <3>4. QED
      BY <3>1, <3>2, <3>3 DEF AllAwaited
  <2>3. QED
    BY <2>1, <2>2
<1>2. QED
  BY <1>1 DEF AllAwaited

(* The last activation waits for no slot: the others wait for all of them.   *)
LEMMA OthersAwait ==
    ASSUME NEW cs \in Seq(Calls), NEW ds, Resumes(cs, ds), NEW q,
           cs[Len(cs)].stage = "slots" => cs[Len(cs)].ref = q
    PROVE  OthersAwaited(cs, ds, q)
<1>1. DOMAIN cs = 1 .. Len(cs) /\ Len(cs) \in Nat
  BY LenProperties
<1>2. \A k \in DOMAIN cs : k = Len(cs) \/ k \in 1 .. Len(cs) - 1
  BY <1>1
<1>3. QED
  BY <1>2 DEF Resumes, OthersAwaited

-----------------------------------------------------------------------------
(* A token more, and perhaps an object more, was read.                       *)
LEMMA OneTokenMore ==
    ASSUME pos \in Nat, 1 <= pos, pos' = pos + 1, stream' = stream
    PROVE  /\ Cardinality(ObjectsRead) \in Nat
           /\ Cardinality(ObjectsRead') =
                 Cardinality(ObjectsRead) + (IF stream[pos].tag \in ObjectTags THEN 1 ELSE 0)
<1>1. IsFiniteSet(ObjectsRead)
  <2>1. IsFiniteSet(1 .. pos - 1)
    BY FS_Interval
  <2>2. ObjectsRead \subseteq 1 .. pos - 1
    BY DEF ObjectsRead
  <2>3. QED
    BY <2>1, <2>2, FS_Subset, Zenon
<1>2. pos \notin ObjectsRead
  BY DEF ObjectsRead
<1>3. CASE stream[pos].tag \in ObjectTags
  <2>1. ObjectsRead' = ObjectsRead \cup {pos}
    BY <1>3 DEF ObjectsRead
  <2>2. QED
    BY <1>1, <1>2, <1>3, <2>1, FS_AddElement, FS_CardinalityType
<1>4. CASE stream[pos].tag \notin ObjectTags
  <2>1. ObjectsRead' = ObjectsRead
    BY <1>4 DEF ObjectsRead
  <2>2. QED
    BY <1>1, <1>4, <2>1, FS_CardinalityType
<1>5. QED
  BY <1>3, <1>4

-----------------------------------------------------------------------------
(* The steps. *)
LEMMA Initially == Init => IInv
<1> SUFFICES ASSUME Init
             PROVE  IInv
  OBVIOUS
<1>1. IsStream(stream) /\ Len(stream) = 0
  BY DEF Init, IsStream
<1>2. CallsSound(calls, Len(precedent), heap) /\ HolesMatch(precedent, calls)
  BY DEF Init, CallsSound, HolesMatch
<1>3. SoundHeap(heap) /\ AllAwaited(heap, calls)
  BY DEF Init, SoundHeap, AllAwaited, Unfilled
<1>4. IdsInOrder
  <2>1. ObjectsRead = {}
    BY DEF Init, ObjectsRead
  <2>2. QED
    BY <2>1, FS_EmptySet DEF IdsInOrder, Init
<1>5. QED
  BY <1>1, <1>2, <1>3, <1>4 DEF Init, IInv, NothingLooksUnfilled

(* A program that died stays as it was.                                      *)
LEMMA DeathSound ==
    ASSUME IInv, NEW how \in Deaths, Die(how)
    PROVE  IInv'
<1>1. UNCHANGED <<stream, pos, precedent, heap, calls, value>> /\ status' \in Deaths
  BY DEF Die
<1>2. IdsInOrder' /\ (HasNoUnref' => NothingLooksUnfilled')
  BY <1>1 DEF IInv, IdsInOrder, ObjectsRead, HasNoUnref, NothingLooksUnfilled
<1>3. QED
  BY <1>1, <1>2 DEF IInv, Deaths

(* A reader that opens a stream has read nothing.                            *)
LEMMA OpenSound ==
    ASSUME IInv, NEW contents, IsStream(contents), Open(contents)
    PROVE  IInv'
<1>1. IsStream(stream') /\ Len(stream') \in Nat
  BY LenProperties DEF Open, IsStream
<1>2. /\ pos' = 1 /\ status' = "open" /\ precedent' = << >> /\ precedent = << >> /\ calls = << >>
      /\ calls' = calls /\ heap' = heap /\ value' = value
  BY DEF Open, IInv
<1>3. IdsInOrder'
  <2>1. ObjectsRead' = {}
    BY <1>2 DEF ObjectsRead
  <2>2. QED
    BY <1>2, <2>1, FS_EmptySet DEF IdsInOrder
<1>4. AllAwaited(heap, calls) /\ value = NoRef
  BY DEF Open, IInv, AllAwaited, Unfilled
<1>5. QED
  BY <1>1, <1>2, <1>3, <1>4 DEF IInv, NothingLooksUnfilled

(* The version number; whatever it is, no object was read.                   *)
LEMMA ReadSound ==
    ASSUME IInv, Read
    PROVE  IInv'
<1>1. CASE pos > Len(stream)
  BY <1>1, DeathSound DEF Read, Deaths
<1>2. CASE ~(pos > Len(stream))
  <2>1. /\ pos = 1 /\ pos' = 2 /\ calls = << >> /\ precedent = << >> /\ stream' = stream
        /\ precedent' = precedent /\ heap' = heap /\ calls' = calls /\ status' \in {"reading", "read"}
        /\ value' = value \/ value' = NIL
    BY <1>2 DEF Read, IInv
  <2>2. Len(stream) \in Nat /\ DOMAIN stream = 1 .. Len(stream)
    BY LenProperties DEF IInv, IsStream
  <2>3. stream[1].tag = "version"
    BY <1>2, <2>1, <2>2 DEF IInv, IsStream
  <2>4. IdsInOrder'
    <3>1. ObjectsRead' = {}
      BY <2>1, <2>3 DEF ObjectTags, ObjectsRead
    <3>2. QED
      BY <2>1, <3>1, FS_EmptySet DEF IdsInOrder
  <2>5. HasNoUnref' => NothingLooksUnfilled'
    BY <2>1, RefAssumption DEF HasNoUnref, NothingLooksUnfilled, IInv
  <2>6. NIL \in Ref
    BY RefAssumption DEF Ref
  <2>7. QED
    BY <1>2, <2>1, <2>2, <2>4, <2>5, <2>6 DEF IInv
<1>3. QED
  BY <1>1, <1>2

-----------------------------------------------------------------------------
(* A token was read. *)
LEMMA TokenFacts ==
    ASSUME IInv, NEW tags, TokenIs(tags), Advance
    PROVE  /\ IsToken(stream[pos]) /\ stream[pos].tag \in tags /\ pos \in DOMAIN stream
           /\ pos' \in Nat /\ 1 <= pos' /\ pos' <= Len(stream') + 1
           /\ stream' = stream /\ status' = "reading" /\ status = "reading" /\ value = NoRef
           /\ Len(precedent) \in Nat /\ DOMAIN precedent = 1 .. Len(precedent)
           /\ Len(precedent) = Cardinality(ObjectsRead)
           /\ Cardinality(ObjectsRead') =
                 Len(precedent) + (IF stream[pos].tag \in ObjectTags THEN 1 ELSE 0)
<1>1. Len(stream) \in Nat /\ DOMAIN stream = 1 .. Len(stream)
  BY LenProperties DEF IInv, IsStream
<1>2. /\ pos \in Nat /\ 1 <= pos /\ pos <= Len(stream) /\ pos' = pos + 1 /\ stream' = stream
      /\ status = "reading" /\ status' = status /\ value = NoRef /\ stream[pos].tag \in tags
  BY DEF IInv, TokenIs, Reading, Advance
<1>3. IsToken(stream[pos])
  BY <1>1, <1>2 DEF IInv, IsStream
<1>4. Len(precedent) \in Nat /\ DOMAIN precedent = 1 .. Len(precedent)
  BY LenProperties DEF IInv
<1>5. Len(precedent) = Cardinality(ObjectsRead)
  BY DEF IInv, IdsInOrder
<1>6. Cardinality(ObjectsRead') =
         Cardinality(ObjectsRead) + (IF stream[pos].tag \in ObjectTags THEN 1 ELSE 0)
  BY <1>2, OneTokenMore
<1>7. pos' \in Nat /\ 1 <= pos' /\ pos' <= Len(stream') + 1 /\ pos \in DOMAIN stream
  BY <1>1, <1>2
<1>8. QED
  BY <1>2, <1>3, <1>4, <1>5, <1>6, <1>7

(* It stands for a value and no object.                                      *)
LEMMA ValueRead ==
    ASSUME IInv, NEW tags, TokenIs(tags), Advance, tags \cap ObjectTags = {},
           UNCHANGED <<precedent, heap, calls>>, value' \in Ref, HasNoUnref => value' # UNREF
    PROVE  IInv'
<1>1. IdsInOrder'
  BY TokenFacts DEF IdsInOrder
<1>2. HasNoUnref' => NothingLooksUnfilled'
  BY TokenFacts DEF IInv, HasNoUnref, NothingLooksUnfilled
<1>3. QED
  BY <1>1, <1>2, TokenFacts DEF IInv

(* An object was entered under the next ID.                                  *)
LEMMA ObjectEntered ==
    ASSUME IInv, TokenIs(ObjectTags), Advance,
           NEW x \in Ref, precedent' = Append(precedent, x),
           value' \in {value, x}, x # UNREF,
           SoundHeap(heap'),
           CallsSound(calls', Len(precedent) + 1, heap'),
           HolesMatch(precedent', calls'),
           HasNoUnref => AllAwaited(heap', calls')
    PROVE  IInv'
<1>1. /\ precedent' \in Seq(Ref) /\ Len(precedent') = Len(precedent) + 1
      /\ DOMAIN precedent' = 1 .. Len(precedent) + 1
      /\ \A k \in 1 .. Len(precedent) : precedent'[k] = precedent[k]
      /\ precedent'[Len(precedent) + 1] = x
  BY AppendedSequence DEF IInv
<1>2. IdsInOrder'
  BY <1>1, TokenFacts DEF IdsInOrder
<1>3. HasNoUnref' => NothingLooksUnfilled'
  <2>1. SUFFICES ASSUME HasNoUnref
                 PROVE  NothingLooksUnfilled'
    BY TokenFacts DEF HasNoUnref
  <2>2. \A k \in DOMAIN precedent' : precedent'[k] # UNREF
    BY <1>1, <2>1, TokenFacts DEF IInv, NothingLooksUnfilled
  <2>3. QED
    BY <2>1, <2>2, TokenFacts DEF IInv, NothingLooksUnfilled
<1>4. QED
  BY <1>1, <1>2, <1>3, TokenFacts DEF IInv

(* Facts about the activations that the steps below start from.              *)
LEMMA CallFacts ==
    ASSUME IInv
    PROVE  /\ calls \in Seq(Calls) /\ precedent \in Seq(Ref) /\ Len(precedent) \in Nat
           /\ \A k \in DOMAIN calls : calls[k].id \in 1 .. Len(precedent)
           /\ CallsSound(calls, Len(precedent), heap)
           /\ HolesMatch(precedent, calls)
           /\ HasNoUnref => AllAwaited(heap, calls)
  BY LenProperties DEF IInv, CallsSound, NothingLooksUnfilled

(* An object at an address that was not in use.                              *)
LEMMA FreshObject ==
    ASSUME IInv, HasRoom(heap), NEW o, SoundObject(o), NEW p, p = Fresh(heap),
           heap' = [heap EXCEPT ![p] = o]
    PROVE  /\ p \in Ptrs /\ p \in Ref /\ p # NIL /\ p # UNREF
           /\ heap[p] = NoObject /\ heap'[p] = o
           /\ SoundHeap(heap')
           /\ \A q \in Ptrs : Kept(heap, heap', q)
           /\ \A q \in Ptrs \ {p} : heap'[q] = heap[q]
           /\ \A k \in DOMAIN calls : calls[k].stage = "slots" => calls[k].ref # p
<1>1. p \in Ptrs /\ heap[p] = NoObject
  BY FreshAddress
<1>2. p \in Ref /\ p # NIL /\ p # UNREF
  BY <1>1, RefAssumption DEF Ref
<1>3. /\ DOMAIN heap = Ptrs /\ DOMAIN heap' = Ptrs /\ heap'[p] = o
      /\ \A q \in Ptrs \ {p} : heap'[q] = heap[q]
  BY <1>1 DEF IInv, SoundHeap
<1>4. SoundHeap(heap')
  BY <1>3 DEF IInv, SoundHeap
<1>5. \A q \in Ptrs : Kept(heap, heap', q)
  BY <1>1, <1>3 DEF Kept
<1>6. \A k \in DOMAIN calls : calls[k].stage = "slots" => calls[k].ref # p
  BY <1>1, SoundIsSomething DEF IInv, CallsSound, HasObject, ClassStages
<1>7. QED
  BY <1>1, <1>2, <1>3, <1>4, <1>5, <1>6

(* One lemma for each case of read_next_: it preserves the invariant. An     *)
(* immediate is a result and nothing else.                                   *)
LEMMA ReadImmediateSound == IInv /\ ReadImmediate => IInv'
<1> SUFFICES ASSUME IInv, ReadImmediate
             PROVE  IInv'
  OBVIOUS
<1> DEFINE tags == {"immediate", "char"}
<1>1. TokenIs(tags) /\ Advance /\ UNCHANGED <<precedent, heap, calls>> /\ tags \cap ObjectTags = {}
  BY DEF ReadImmediate, ObjectTags
<1>2. value' = ImmediateOf(stream[pos])
  BY DEF ReadImmediate
<1>3. value' \in Ref
  BY <1>1, <1>2, TokenFacts DEF IsToken, Ref
<1>4. HasNoUnref => value' # UNREF
  BY <1>1, <1>2, TokenFacts DEF HasNoUnref
<1>5. QED
  BY <1>1, <1>3, <1>4, ValueRead

(* NIL is one, too.                                                          *)
LEMMA ReadNilSound == IInv /\ ReadNil => IInv'
<1> SUFFICES ASSUME IInv, ReadNil
             PROVE  IInv'
  OBVIOUS
<1> DEFINE tags == {"nil", "unsupported"}
<1>1. TokenIs(tags) /\ Advance /\ UNCHANGED <<precedent, heap, calls>> /\ tags \cap ObjectTags = {}
  BY DEF ReadNil, ObjectTags
<1>2. value' \in Ref /\ value' # UNREF
  BY RefAssumption DEF ReadNil, Ref
<1>3. QED
  BY <1>1, <1>2, ValueRead

(* A precedent is looked up, never added.                                    *)
LEMMA ReadPrecedentSound == IInv /\ ReadPrecedent => IInv'
<1> SUFFICES ASSUME IInv, ReadPrecedent
             PROVE  IInv'
  OBVIOUS
<1> DEFINE tags == {"precedent"}
<1>1. TokenIs(tags) /\ tags \cap ObjectTags = {}
  BY DEF ReadPrecedent, ObjectTags
<1>2. CASE Val < Len(precedent)
  <2>1. Advance /\ UNCHANGED <<precedent, heap, calls>> /\ value' = precedent[Val + 1]
    BY <1>2 DEF ReadPrecedent
  <2>2. Val \in Nat
    BY <1>1, <2>1, TokenFacts DEF IsToken, Val
  <2>3. Val + 1 \in DOMAIN precedent
    BY <1>1, <1>2, <2>1, <2>2, TokenFacts
  <2>4. value' \in Ref /\ (HasNoUnref => value' # UNREF)
    BY <2>1, <2>3 DEF IInv, NothingLooksUnfilled
  <2>5. QED
    BY <1>1, <2>1, <2>4, ValueRead
<1>3. CASE ~(Val < Len(precedent))
  BY <1>3, DeathSound DEF ReadPrecedent, Deaths
<1>4. QED
  BY <1>2, <1>3

(* A symbol is complete when it gets its ID;                                 *)
LEMMA ReadSymbolSound == IInv /\ ReadSymbol => IInv'
<1> SUFFICES ASSUME IInv, ReadSymbol
             PROVE  IInv'
  OBVIOUS
<1>1. TokenIs({"symbol"}) /\ Advance /\ heap' = heap /\ calls' = calls
  BY DEF ReadSymbol
<1>2. PICK x : x = NewSymbol(Val)
  OBVIOUS
<1>3. value' = x /\ precedent' = Append(precedent, x)
  BY <1>2 DEF ReadSymbol
<1>4. x \in Symbols
  BY <1>2 DEF ReadSymbol, HasSymbol, NewSymbol, FreshSymbol
<1>5. x \in Ref /\ x # NIL /\ x # UNREF
  BY <1>4, RefAssumption DEF Ref
<1>6. HolesMatch(precedent', calls')
  BY <1>1, <1>3, <1>5, CallFacts, NoHoleMade
<1>7. CallsSound(calls', Len(precedent) + 1, heap')
  BY <1>1, CallFacts, CallsKept DEF Kept
<1>8. TokenIs(ObjectTags)
  BY <1>1 DEF TokenIs, ObjectTags
<1>9. SoundHeap(heap') /\ (HasNoUnref => AllAwaited(heap', calls'))
  BY <1>1, CallFacts DEF IInv
<1>10. QED
  BY <1>1, <1>3, <1>5, <1>6, <1>7, <1>8, <1>9, ObjectEntered

(* so is a string.                                                           *)
LEMMA ReadStringSound == IInv /\ ReadString => IInv'
<1> SUFFICES ASSUME IInv, ReadString
             PROVE  IInv'
  OBVIOUS
<1>1. TokenIs({"string"}) /\ HasRoom(heap) /\ Advance /\ calls' = calls
  BY DEF ReadString
<1>2. PICK p : p = Fresh(heap)
  OBVIOUS
<1>3. PICK o : o = Binary(StringClass)
  OBVIOUS
<1>4. value' = p /\ precedent' = Append(precedent, p) /\ heap' = [heap EXCEPT ![p] = o]
  BY <1>2, <1>3 DEF ReadString
<1>5. SoundBinary(o) /\ SoundObject(o) /\ o.length = 0
  BY <1>3, BinarySound, StreamAssumption DEF Ref, SoundObject, SoundBinary
<1>6. /\ p \in Ref /\ p # NIL /\ p # UNREF /\ heap'[p] = o /\ SoundHeap(heap')
      /\ \A q \in Ptrs : Kept(heap, heap', q)
      /\ \A q \in Ptrs \ {p} : heap'[q] = heap[q]
  BY <1>1, <1>2, <1>4, <1>5, FreshObject
<1>7. HolesMatch(precedent', calls')
  BY <1>1, <1>4, <1>6, CallFacts, NoHoleMade
<1>8. CallsSound(calls', Len(precedent) + 1, heap')
  BY <1>1, <1>6, CallFacts, CallsKept
<1>9. HasNoUnref => AllAwaited(heap', calls')
  <2>1. \A i \in Nat : ~Unfilled(heap', p, i)
    BY <1>5, <1>6 DEF Unfilled
  <2>2. OthersAwaited(calls, calls', p)
    BY <1>1 DEF OthersAwaited
  <2>3. QED
    BY <1>6, <2>1, <2>2, CallFacts, StillAwaited
<1>10. TokenIs(ObjectTags)
  BY <1>1 DEF TokenIs, ObjectTags
<1>11. QED
  BY <1>1, <1>4, <1>6, <1>7, <1>8, <1>9, <1>10, ObjectEntered

(* A binary or an array with a class gets its ID now, and a hole.            *)
LEMMA ReadClassedSound == IInv /\ ReadClassed => IInv'
<1> SUFFICES ASSUME IInv, ReadClassed
             PROVE  IInv'
  OBVIOUS
<1>1. TokenIs({"binary", "array"}) /\ Advance /\ heap' = heap /\ value' = value
  BY DEF ReadClassed
<1>z. PICK stage : stage = IF stream[pos].tag = "array" THEN "arrayClass" ELSE "binaryClass"
  OBVIOUS
<1>a. stage \in ClassStages /\ stage \in Stages
  BY <1>z DEF ClassStages, Stages
<1>2. PICK c : c = Call(stage, NoRef, Len(precedent) + 1, 0, Val)
  OBVIOUS
<1>3. calls' = Append(calls, c) /\ precedent' = Append(precedent, NIL)
  BY <1>z, <1>2 DEF ReadClassed, ReserveId
<1>4. Val \in Nat
  BY <1>1, TokenFacts DEF IsToken, Val
<1>5. c \in Calls /\ c.stage \in ClassStages /\ c.id = Len(precedent) + 1
  BY <1>2, <1>4, <1>a, CallFacts DEF Call, Calls
<1>6. NIL \in Ref /\ NIL # UNREF
  BY RefAssumption DEF Ref
<1>7. HolesMatch(precedent', calls')
  BY <1>3, <1>5, <1>6, CallFacts, HoleMade
<1>8. CallsSound(calls', Len(precedent) + 1, heap')
  BY <1>1, <1>3, <1>5, CallFacts, PushedCall
<1>9. HasNoUnref => AllAwaited(heap', calls')
  <2>1. \A k \in DOMAIN calls : k \in DOMAIN calls' /\ calls'[k] = calls[k]
    BY <1>3, <1>5, CallFacts, AppendedSequence
  <2>2. QED
    BY <1>1, <2>1, CallFacts DEF AllAwaited
<1>10. TokenIs(ObjectTags)
  BY <1>1 DEF TokenIs, ObjectTags
<1>11. SoundHeap(heap')
  BY <1>1 DEF IInv
<1>12. QED
  BY <1>1, <1>3, <1>6, <1>7, <1>8, <1>9, <1>10, <1>11, ObjectEntered

(* A plain array or a frame; it is returned, or its parts are waited for.    *)
LEMMA ReadUnclassedSound == IInv /\ ReadUnclassed => IInv'
<1> SUFFICES ASSUME IInv, ReadUnclassed
             PROVE  IInv'
  OBVIOUS
<1>1. TokenIs({"plainArray", "frame"}) /\ HasRoom(heap) /\ Advance
  BY DEF ReadUnclassed
<1>2. Val \in Nat
  BY <1>1, TokenFacts DEF IsToken, Val
<1>3. PICK p : p = Fresh(heap)
  OBVIOUS
<1>4. PICK stage : stage = IF stream[pos].tag = "frame" THEN "tags" ELSE "slots"
  OBVIOUS
<1>5. PICK o : o = IF stage = "tags" THEN NewFrame ELSE NewArray(ArrayClass, Val)
  OBVIOUS
<1>6. heap' = [heap EXCEPT ![p] = o] /\ precedent' = Append(precedent, p)
  BY <1>3, <1>4, <1>5 DEF ReadUnclassed
<1>7. stage \in {"tags", "slots"} /\ stage \in Stages /\ stage \notin ClassStages
  BY <1>4 DEF Stages, ClassStages
<1>8. /\ stage = "tags" => SoundFrame(o) /\ o.length = 0 /\ o.tag = "frame"
      /\ stage = "slots" => SoundArray(o) /\ o.length \in Nat /\ o.length <= Val /\ o.tag = "array"
  <2>1. CASE stage = "tags"
    BY <1>5, <2>1, NewObjectsSound DEF NewFrame, Object
  <2>2. CASE stage = "slots"
    <3>1. ArrayClass \in Ref /\ o = NewArray(ArrayClass, Val)
      BY <1>5, <2>2, StreamAssumption DEF Ref
    <3>2. QED
      BY <1>2, <2>2, <3>1, NewArrayLength
  <2>3. QED
    BY <1>7, <2>1, <2>2
<1>9. SoundObject(o)
  BY <1>7, <1>8 DEF SoundObject
<1>10. /\ p \in Ptrs /\ p \in Ref /\ p # NIL /\ p # UNREF /\ heap'[p] = o /\ SoundHeap(heap')
       /\ \A q \in Ptrs : Kept(heap, heap', q)
       /\ \A q \in Ptrs \ {p} : heap'[q] = heap[q]
  BY <1>1, <1>3, <1>6, <1>9, FreshObject
<1>11. CallsSound(calls, Len(precedent), heap')
  BY <1>10, CallFacts, CallsKept
<1>12. TokenIs(ObjectTags)
  BY <1>1 DEF TokenIs, ObjectTags
<1>13. CASE Val > 0
  <2>1. PICK c : c = Call(stage, p, Len(precedent) + 1, 0, Val)
    OBVIOUS
  <2>2. calls' = Append(calls, c) /\ value' = value
    BY <1>3, <1>4, <1>13, <2>1 DEF ReadUnclassed
  <2>3. /\ c \in Calls /\ c.stage = stage /\ c.ref = p /\ c.id = Len(precedent) + 1 /\ c.i = 0
        /\ c.n = Val
    BY <1>2, <1>7, <1>10, <2>1, CallFacts DEF Call, Calls
  <2>4. HasObject(heap', c)
    BY <1>2, <1>7, <1>8, <1>10, <1>13, <2>3 DEF HasObject
  <2>5. CallsSound(calls', Len(precedent) + 1, heap')
    BY <1>11, <2>2, <2>3, <2>4, CallFacts, PushedCall
  <2>6. HolesMatch(precedent', calls')
    BY <1>6, <1>7, <1>10, <2>2, <2>3, CallFacts, HoleMade
  <2>7. HasNoUnref => AllAwaited(heap', calls')
    <3>1. /\ \A k \in DOMAIN calls : k \in DOMAIN calls' /\ calls'[k] = calls[k]
          /\ \E k \in DOMAIN calls' : calls'[k] = c
      BY <2>2, <2>3, CallFacts, AppendedSequence
    <3>2. \A i \in Nat : Unfilled(heap', p, i) =>
             heap'[p].tag = "array" /\ \E k \in DOMAIN calls' : Awaits(calls'[k], p, i)
      BY <1>7, <1>8, <1>10, <2>3, <3>1 DEF Unfilled, Awaits
    <3>3. OthersAwaited(calls, calls', p)
      BY <3>1 DEF OthersAwaited
    <3>4. QED
      BY <1>10, <3>2, <3>3, CallFacts, StillAwaited
  <2>8. QED
    BY <1>1, <1>6, <1>10, <1>12, <2>2, <2>5, <2>6, <2>7, ObjectEntered
<1>14. CASE ~(Val > 0)
  <2>1. calls' = calls /\ value' = p
    BY <1>3, <1>14 DEF ReadUnclassed
  <2>2. o.length = 0
    BY <1>2, <1>7, <1>8, <1>14
  <2>3. CallsSound(calls', Len(precedent) + 1, heap')
    <3>1. \A q \in Ptrs : Kept(heap', heap', q)
      BY DEF Kept
    <3>2. QED
      BY <1>11, <2>1, <3>1, CallFacts, CallsKept
  <2>4. HolesMatch(precedent', calls')
    BY <1>6, <1>10, <2>1, CallFacts, NoHoleMade
  <2>5. HasNoUnref => AllAwaited(heap', calls')
    <3>1. \A i \in Nat : ~Unfilled(heap', p, i)
      BY <1>10, <2>2 DEF Unfilled
    <3>2. OthersAwaited(calls, calls', p)
      BY <2>1 DEF OthersAwaited
    <3>3. QED
      BY <1>10, <3>1, <3>2, CallFacts, StillAwaited
  <2>6. QED
    BY <1>1, <1>6, <1>10, <1>12, <2>1, <2>3, <2>4, <2>5, ObjectEntered
<1>15. QED
  BY <1>13, <1>14

-----------------------------------------------------------------------------
(* The innermost activation got its value. *)
LEMMA WaitingFacts ==
    ASSUME IInv, NEW stage, Waiting(stage)
    PROVE  /\ calls # << >> /\ calls \in Seq(Calls) /\ Len(calls) \in Nat \ {0}
           /\ Top \in Calls /\ Top = calls[Len(calls)] /\ Len(calls) \in DOMAIN calls
           /\ Top.stage = stage /\ Top.id \in DOMAIN precedent
           /\ value \in Ref /\ (HasNoUnref => value # UNREF)
           /\ status = "reading"
           /\ stage \notin ClassStages => HasObject(heap, Top) /\ Top.ref \in Ptrs
<1>1. /\ calls # << >> /\ calls \in Seq(Calls) /\ status = "reading" /\ value \in Ref
      /\ Top.stage = stage /\ (HasNoUnref => value # UNREF)
  BY DEF Waiting, IInv, CallsSound, NothingLooksUnfilled
<1>2. /\ Len(calls) \in Nat \ {0} /\ Top \in Calls /\ Top = calls[Len(calls)]
      /\ Len(calls) \in DOMAIN calls
  BY <1>1, ShortenedSequence DEF Top
<1>3. Top.id \in DOMAIN precedent
  BY <1>2, LenProperties DEF IInv, CallsSound
<1>4. stage \notin ClassStages => HasObject(heap, Top)
  BY <1>1, <1>2 DEF IInv, CallsSound
<1>5. QED
  BY <1>1, <1>2, <1>3, <1>4 DEF HasObject

(* What remains to be shown of such a step.                                  *)
LEMMA Progress ==
    ASSUME IInv, NEW stage, Waiting(stage), Local,
           precedent' \in Seq(Ref), Len(precedent') = Len(precedent), SoundHeap(heap'),
           value' \in Ref \cup {NoRef},
           CallsSound(calls', Len(precedent), heap'), HolesMatch(precedent', calls'),
           HasNoUnref => NothingLooksUnfilled'
    PROVE  IInv'
<1>1. UNCHANGED <<stream, pos, status>> /\ status = "reading"
  BY DEF Local, Waiting
<1>2. IdsInOrder'
  <2>1. ObjectsRead' = ObjectsRead
    BY <1>1 DEF ObjectsRead
  <2>2. QED
    BY <2>1 DEF IInv, IdsInOrder
<1>3. HasNoUnref' => NothingLooksUnfilled'
  BY <1>1 DEF HasNoUnref
<1>4. QED
  BY <1>1, <1>2, <1>3 DEF IInv

(* The object is there, and entered under its ID.                            *)
LEMMA IdFilled ==
    ASSUME IInv, NEW stage \in ClassStages, Waiting(stage), NEW x \in Ref, x # NIL, x # UNREF,
           FillId(Top.id, x), Resumes(calls, calls')
    PROVE  /\ precedent' \in Seq(Ref) /\ Len(precedent') = Len(precedent)
           /\ HolesMatch(precedent', calls')
           /\ HasNoUnref => \A k \in DOMAIN precedent' : precedent'[k] # UNREF
<1>1. PICK n \in DOMAIN precedent : n = Top.id
  BY WaitingFacts
<1>2. /\ precedent' = [precedent EXCEPT ![n] = x]
      /\ precedent \in Seq(Ref)
  BY <1>1 DEF FillId, IInv
<1>3. precedent' \in Seq(Ref) /\ Len(precedent') = Len(precedent)
  BY <1>2, ExceptSeq
<1>4. HolesMatch(precedent', calls')
  BY <1>1, <1>2, CallFacts, WaitingFacts, HoleFilled
<1>5. HasNoUnref => \A k \in DOMAIN precedent' : precedent'[k] # UNREF
  BY <1>2 DEF IInv, NothingLooksUnfilled
<1>6. QED
  BY <1>3, <1>4, <1>5

(* The class fills the hole of a binary, and ends it.                        *)
LEMMA GetBinaryClassSound == IInv /\ GetBinaryClass => IInv'
<1> SUFFICES ASSUME IInv, GetBinaryClass
             PROVE  IInv'
  OBVIOUS
<1>1. Waiting("binaryClass") /\ HasRoom(heap) /\ Local /\ "binaryClass" \in ClassStages
  BY DEF GetBinaryClass, ClassStages
<1>2. PICK p : p = Fresh(heap)
  OBVIOUS
<1>3. PICK o : o = Binary(value)
  OBVIOUS
<1>4. value' = p /\ heap' = [heap EXCEPT ![p] = o] /\ calls' = Returns /\ FillId(Top.id, p)
  BY <1>2, <1>3 DEF GetBinaryClass
<1>5. SoundBinary(o) /\ SoundObject(o) /\ o.length = 0
  BY <1>1, <1>3, BinarySound, WaitingFacts DEF SoundObject, SoundBinary
<1>6. /\ p \in Ref /\ p # NIL /\ p # UNREF /\ heap'[p] = o /\ SoundHeap(heap')
      /\ \A q \in Ptrs : Kept(heap, heap', q)
      /\ \A q \in Ptrs \ {p} : heap'[q] = heap[q]
  BY <1>1, <1>2, <1>4, <1>5, FreshObject
<1>7. Resumes(calls, calls')
  BY <1>1, <1>4, WaitingFacts, ReturnResumes DEF Returns
<1>8. /\ precedent' \in Seq(Ref) /\ Len(precedent') = Len(precedent)
      /\ HolesMatch(precedent', calls')
      /\ HasNoUnref => \A k \in DOMAIN precedent' : precedent'[k] # UNREF
  BY <1>1, <1>4, <1>6, <1>7, IdFilled
<1>9. CallsSound(calls', Len(precedent), heap')
  <2>1. CallsSound(calls, Len(precedent), heap')
    BY <1>6, CallFacts, CallsKept
  <2>2. QED
    BY <1>1, <1>4, <2>1, CallFacts, WaitingFacts, PoppedCall DEF Returns
<1>10. HasNoUnref => AllAwaited(heap', calls')
  <2>1. \A i \in Nat : ~Unfilled(heap', p, i)
    BY <1>5, <1>6 DEF Unfilled
  <2>2. OthersAwaited(calls, calls', p)
    <3>1. calls[Len(calls)].stage # "slots" /\ calls \in Seq(Calls)
      BY <1>1, WaitingFacts, CallFacts
    <3>2. QED
      BY <1>7, <3>1, OthersAwait
  <2>3. QED
    BY <1>6, <2>1, <2>2, CallFacts, StillAwaited
<1>11. HasNoUnref => NothingLooksUnfilled'
  BY <1>4, <1>6, <1>8, <1>10 DEF NothingLooksUnfilled
<1>12. QED
  BY <1>1, <1>4, <1>6, <1>8, <1>9, <1>11, Progress

(* The class fills the hole of an array, whose slots are now awaited.        *)
LEMMA GetArrayClassSound == IInv /\ GetArrayClass => IInv'
<1> SUFFICES ASSUME IInv, GetArrayClass
             PROVE  IInv'
  OBVIOUS
<1>1. Waiting("arrayClass") /\ HasRoom(heap) /\ Local /\ "arrayClass" \in ClassStages
  BY DEF GetArrayClass, ClassStages
<1>2. PICK p : p = Fresh(heap)
  OBVIOUS
<1>3. PICK n \in Nat : n = Top.n
  BY <1>1, WaitingFacts DEF Calls
<1>4. PICK o : o = NewArray(value, n)
  OBVIOUS
<1>5. heap' = [heap EXCEPT ![p] = o] /\ FillId(Top.id, p)
  BY <1>2, <1>3, <1>4 DEF GetArrayClass
<1>6. SoundArray(o) /\ o.length \in Nat /\ o.length <= n /\ o.tag = "array" /\ SoundObject(o)
  BY <1>1, <1>4, NewArrayLength, WaitingFacts DEF SoundObject
<1>7. /\ p \in Ptrs /\ p \in Ref /\ p # NIL /\ p # UNREF /\ heap'[p] = o /\ SoundHeap(heap')
      /\ \A q \in Ptrs : Kept(heap, heap', q)
      /\ \A q \in Ptrs \ {p} : heap'[q] = heap[q]
  BY <1>1, <1>2, <1>5, <1>6, FreshObject
<1>8. CallsSound(calls, Len(precedent), heap')
  BY <1>7, CallFacts, CallsKept
<1>9. CASE n > 0
  <2>1. PICK c : c = Call("slots", p, Top.id, 0, n)
    OBVIOUS
  <2>2. calls' = Replaced(c) /\ value' = NoRef
    BY <1>2, <1>3, <1>9, <2>1 DEF GetArrayClass
  <2>3. /\ c \in Calls /\ c.stage = "slots" /\ c.ref = p /\ c.id = Top.id /\ c.i = 0 /\ c.n = n
    BY <1>1, <1>7, <2>1, WaitingFacts DEF Call, Calls, Stages
  <2>4. HasObject(heap', c)
    BY <1>6, <1>7, <1>9, <2>3 DEF HasObject
  <2>5. CallsSound(calls', Len(precedent), heap')
    BY <1>1, <1>8, <2>2, <2>3, <2>4, CallFacts, WaitingFacts, ReplacedCall DEF Replaced, Returns
  <2>6. Resumes(calls, calls') /\ Len(calls) \in DOMAIN calls' /\ calls'[Len(calls)] = c
    <3>1. c.stage \notin ClassStages
      BY <2>3 DEF ClassStages
    <3>2. calls' = Append(SubSeq(calls, 1, Len(calls) - 1), c) /\ calls # << >> /\ calls \in Seq(Calls)
      BY <1>1, <2>2, WaitingFacts DEF Replaced, Returns
    <3>3. QED
      BY <2>3, <3>1, <3>2, ReplacementResumes
  <2>7. /\ precedent' \in Seq(Ref) /\ Len(precedent') = Len(precedent)
        /\ HolesMatch(precedent', calls')
        /\ HasNoUnref => \A k \in DOMAIN precedent' : precedent'[k] # UNREF
    BY <1>1, <1>5, <1>7, <2>6, IdFilled
  <2>8. HasNoUnref => AllAwaited(heap', calls')
    <3>1. \A i \in Nat : Unfilled(heap', p, i) =>
             heap'[p].tag = "array" /\ \E k \in DOMAIN calls' : Awaits(calls'[k], p, i)
      BY <1>6, <1>7, <2>3, <2>6 DEF Unfilled, Awaits
    <3>2. OthersAwaited(calls, calls', p)
      <4>1. calls[Len(calls)].stage # "slots" /\ calls \in Seq(Calls)
        BY <1>1, WaitingFacts, CallFacts
      <4>2. QED
        BY <2>6, <4>1, OthersAwait
    <3>3. QED
      BY <1>7, <3>1, <3>2, CallFacts, StillAwaited
  <2>9. HasNoUnref => NothingLooksUnfilled'
    BY <2>2, <2>7, <2>8 DEF NothingLooksUnfilled
  <2>10. QED
    BY <1>1, <1>7, <2>2, <2>5, <2>7, <2>9, Progress
<1>10. CASE ~(n > 0)
  <2>1. calls' = Returns /\ value' = p
    BY <1>2, <1>3, <1>10 DEF GetArrayClass
  <2>2. Resumes(calls, calls')
    BY <1>1, <2>1, WaitingFacts, ReturnResumes DEF Returns
  <2>3. /\ precedent' \in Seq(Ref) /\ Len(precedent') = Len(precedent)
        /\ HolesMatch(precedent', calls')
        /\ HasNoUnref => \A k \in DOMAIN precedent' : precedent'[k] # UNREF
    BY <1>1, <1>5, <1>7, <2>2, IdFilled
  <2>4. CallsSound(calls', Len(precedent), heap')
    BY <1>1, <1>8, <2>1, CallFacts, WaitingFacts, PoppedCall DEF Returns
  <2>5. HasNoUnref => AllAwaited(heap', calls')
    <3>1. \A i \in Nat : ~Unfilled(heap', p, i)
      BY <1>6, <1>7, <1>10 DEF Unfilled
    <3>2. OthersAwaited(calls, calls', p)
      <4>1. calls[Len(calls)].stage # "slots" /\ calls \in Seq(Calls)
        BY <1>1, WaitingFacts, CallFacts
      <4>2. QED
        BY <2>2, <4>1, OthersAwait
    <3>3. QED
      BY <1>7, <3>1, <3>2, CallFacts, StillAwaited
  <2>6. HasNoUnref => NothingLooksUnfilled'
    BY <1>7, <2>1, <2>3, <2>5 DEF NothingLooksUnfilled
  <2>7. QED
    BY <1>1, <1>7, <2>1, <2>3, <2>4, <2>6, Progress
<1>11. QED
  BY <1>9, <1>10

(* A slot of an array or a frame that was not filled holds the value now.    *)
LEMMA SlotStored ==
    ASSUME NEW o, NEW i \in Nat, NEW ref \in Ref, NEW b,
           SoundArray(o) \/ SoundFrame(o), SetSlotAsserts(o, i), b = SetSlot(o, i, ref)
    PROVE  /\ SoundArray(o) => SoundArray(b) /\ b.length = o.length
           /\ SoundFrame(o) => SoundFrame(b)
           /\ b.length = o.length /\ b.tag = o.tag
           /\ \A j \in 0 .. b.length - 1 : b.slot[j] = IF j = i THEN ref ELSE o.slot[j]
<1>1. i \in 0 .. o.length - 1
  BY DEF SetSlotAsserts
<1>2. IsSlotted(o) /\ Sound(o)
  BY DEF SoundArray, SoundFrame, IsArrayObject, IsFrameObject, IsObject
<1>3. /\ b.length = o.length /\ b.tag = o.tag
      /\ \A j \in 0 .. b.length - 1 : b.slot[j] = IF j = i THEN ref ELSE o.slot[j]
  BY <1>1, <1>2, StoredSlot
<1>4. SoundArray(o) => SoundArray(b)
  BY <1>1, ArraySetSlot
<1>5. SoundFrame(o) => SoundFrame(b)
  BY <1>1, FrameStore
<1>6. QED
  BY <1>3, <1>4, <1>5

(* An object that changed, and is still what it was.                         *)
LEMMA ChangedObject ==
    ASSUME IInv, NEW p \in Ptrs, NEW b, heap' = [heap EXCEPT ![p] = b],
           \/ SoundFrame(heap[p]) /\ SoundFrame(b)
           \/ SoundArray(heap[p]) /\ SoundArray(b) /\ b.length = heap[p].length
    PROVE  /\ heap'[p] = b /\ SoundHeap(heap')
           /\ \A q \in Ptrs : Kept(heap, heap', q)
           /\ \A q \in Ptrs \ {p} : heap'[q] = heap[q]
<1>1. /\ DOMAIN heap = Ptrs /\ DOMAIN heap' = Ptrs /\ heap'[p] = b
      /\ \A q \in Ptrs \ {p} : heap'[q] = heap[q]
  BY DEF IInv, SoundHeap
<1>2. SoundHeap(heap')
  BY <1>1 DEF IInv, SoundHeap, SoundObject
<1>3. \A q \in Ptrs : Kept(heap, heap', q)
  BY <1>1 DEF Kept
<1>4. QED
  BY <1>1, <1>2, <1>3

(* A slot's value is set, and the next slot is awaited.                      *)
LEMMA GetSlotValueSound == IInv /\ GetSlotValue => IInv'
<1> SUFFICES ASSUME IInv, GetSlotValue
             PROVE  IInv'
  OBVIOUS
<1>1. Waiting("slots") /\ "slots" \notin ClassStages
  BY DEF GetSlotValue, ClassStages
<1>2. PICK p \in Ptrs : p = Top.ref
  BY <1>1, WaitingFacts
<1>3. PICK i \in Nat : i = Top.i
  BY <1>1, WaitingFacts DEF Calls
<1>4. PICK n \in Nat : n = Top.n
  BY <1>1, WaitingFacts DEF Calls
<1>5. /\ i < n
      /\ \/ SoundFrame(heap[p])
         \/ SoundArray(heap[p]) /\ heap[p].length <= n
  BY <1>1, <1>2, <1>3, <1>4, WaitingFacts DEF HasObject
<1>6. CASE ~SetSlotAsserts(heap[Top.ref], Top.i)
  BY <1>6, DeathSound DEF GetSlotValue, Deaths
<1>7. CASE SetSlotAsserts(heap[p], i)
  <2>1. PICK b : b = SetSlot(heap[p], i, value)
    OBVIOUS
  <2>2. /\ heap' = [heap EXCEPT ![p] = b] /\ More("slots", i + 1) /\ Local
        /\ precedent' = precedent
    BY <1>2, <1>3, <1>7, <2>1 DEF GetSlotValue
  <2>3. value \in Ref /\ (HasNoUnref => value # UNREF)
    BY <1>1, WaitingFacts
  <2>4. /\ SoundArray(heap[p]) => SoundArray(b) /\ b.length = heap[p].length
        /\ SoundFrame(heap[p]) => SoundFrame(b)
        /\ b.length = heap[p].length /\ b.tag = heap[p].tag
        /\ \A j \in 0 .. b.length - 1 : b.slot[j] = IF j = i THEN value ELSE heap[p].slot[j]
    BY <1>5, <1>7, <2>1, <2>3, SlotStored
  <2>5. /\ heap'[p] = b /\ SoundHeap(heap')
        /\ \A q \in Ptrs : Kept(heap, heap', q)
        /\ \A q \in Ptrs \ {p} : heap'[q] = heap[q]
    BY <1>5, <2>2, <2>4, ChangedObject
  <2>6. CallsSound(calls, Len(precedent), heap')
    BY <2>5, CallFacts, CallsKept
  (* What b lacks, the object lacked. *)
  <2>7. \A j \in Nat : Unfilled(heap', p, j) /\ HasNoUnref => j # i /\ Unfilled(heap, p, j)
    <3>1. heap[p] # NoObject
      BY <1>5, SoundIsSomething
    <3>2. \A j \in Nat : j < b.length => j \in 0 .. b.length - 1
      <4>1. b.length \in Nat
        BY <1>5, <2>4, SoundIsSomething
      <4>2. QED
        BY <4>1
    <3>3. QED
      BY <2>3, <2>4, <2>5, <3>1, <3>2 DEF Unfilled
  <2>8. \A k \in DOMAIN calls : k = Len(calls) \/ k \in 1 .. Len(calls) - 1
    BY <1>1, WaitingFacts, LenProperties
  <2>9. calls[Len(calls)] = Top /\ Top.stage = "slots" /\ Top.ref = p /\ Top.i = i
    BY <1>1, <1>2, <1>3, WaitingFacts
  <2>10. CASE i + 1 < n
    <3>1. PICK c : c = Call("slots", p, Top.id, i + 1, n)
      OBVIOUS
    <3>2. calls' = Replaced(c) /\ value' = NoRef
      BY <1>2, <1>4, <2>2, <2>10, <3>1 DEF More
    <3>3. /\ c \in Calls /\ c.stage = "slots" /\ c.ref = p /\ c.id = Top.id /\ c.i = i + 1 /\ c.n = n
      <4>1. Top.id \in Nat
        BY <1>1, WaitingFacts DEF Calls
      <4>2. QED
        BY <3>1, <4>1 DEF Call, Calls, Stages
    <3>4. HasObject(heap', c)
      BY <1>5, <2>4, <2>5, <2>10, <3>3 DEF HasObject
    <3>5. calls' = Append(SubSeq(calls, 1, Len(calls) - 1), c) /\ calls # << >> /\ calls \in Seq(Calls)
      BY <1>1, <3>2, WaitingFacts DEF Replaced, Returns
    <3>6. CallsSound(calls', Len(precedent), heap')
      BY <2>6, <2>9, <3>3, <3>4, <3>5, CallFacts, ReplacedCall
    <3>7. Resumes(calls, calls') /\ Len(calls) \in DOMAIN calls' /\ calls'[Len(calls)] = c
      BY <1>1, <3>3, <3>5, ReplacementResumes
    <3>8. HolesMatch(precedent', calls')
      BY <1>1, <2>2, <2>9, <3>5, <3>7, CallFacts, HolesStay
    <3>9. ASSUME HasNoUnref
          PROVE  AllAwaited(heap', calls')
      <4>1. ASSUME NEW j \in Nat, Unfilled(heap', p, j)
            PROVE  heap'[p].tag = "array" /\ \E k \in DOMAIN calls' : Awaits(calls'[k], p, j)
        <5>1. j # i /\ Unfilled(heap, p, j)
          BY <2>7, <3>9, <4>1
        <5>2. heap[p].tag = "array" /\ heap'[p].tag = "array"
          BY <2>4, <2>5, <3>9, <5>1, CallFacts DEF AllAwaited
        <5>3. PICK k \in DOMAIN calls : Awaits(calls[k], p, j)
          BY <3>9, <5>1, CallFacts DEF AllAwaited
        <5>4. CASE k = Len(calls)
          BY <2>9, <3>3, <3>7, <5>1, <5>2, <5>3, <5>4 DEF Awaits
        <5>5. CASE k \in 1 .. Len(calls) - 1
          BY <3>7, <5>2, <5>3, <5>5 DEF Resumes
        <5>6. QED
          BY <2>8, <5>4, <5>5
      <4>2. OthersAwaited(calls, calls', p)
        BY <2>9, <3>5, <3>7, OthersAwait
      <4>3. QED
        BY <2>5, <3>9, <4>1, <4>2, CallFacts, StillAwaited
    <3>10. HasNoUnref => NothingLooksUnfilled'
      BY <2>2, <3>2, <3>9 DEF NothingLooksUnfilled, IInv
    <3>11. QED
      BY <1>1, <2>2, <2>5, <3>2, <3>6, <3>8, <3>10, CallFacts, Progress
  <2>11. CASE ~(i + 1 < n)
    <3>1. calls' = Returns /\ value' = p
      BY <1>2, <1>4, <2>2, <2>11 DEF More
    <3>2. Resumes(calls, calls')
      BY <1>1, <3>1, WaitingFacts, ReturnResumes DEF Returns
    <3>3. CallsSound(calls', Len(precedent), heap')
      BY <1>1, <2>6, <3>1, CallFacts, WaitingFacts, PoppedCall DEF Returns
    <3>4. HolesMatch(precedent', calls')
      BY <1>1, <2>2, <2>9, <3>2, CallFacts, HolesStay
    <3>5. p \in Ref /\ p # UNREF
      BY RefAssumption DEF Ref
    <3>6. ASSUME HasNoUnref
          PROVE  AllAwaited(heap', calls')
      <4>1. ASSUME NEW j \in Nat, Unfilled(heap', p, j)
            PROVE  heap'[p].tag = "array" /\ \E k \in DOMAIN calls' : Awaits(calls'[k], p, j)
        <5>1. j # i /\ Unfilled(heap, p, j)
          BY <2>7, <3>6, <4>1
        <5>2. heap[p].tag = "array" /\ heap'[p].tag = "array"
          BY <2>4, <2>5, <3>6, <5>1, CallFacts DEF AllAwaited
        <5>3. PICK k \in DOMAIN calls : Awaits(calls[k], p, j)
          BY <3>6, <5>1, CallFacts DEF AllAwaited
        <5>4. j < n /\ ~(i <= j)
          <6>1. SoundArray(heap[p]) /\ heap[p].length <= n /\ heap[p].length \in Nat
            BY <1>5, <5>2, SoundIsSomething
          <6>2. QED
            BY <2>11, <5>1, <6>1 DEF Unfilled
        <5>5. CASE k = Len(calls)
          BY <2>9, <5>3, <5>4, <5>5 DEF Awaits
        <5>6. CASE k \in 1 .. Len(calls) - 1
          BY <3>2, <5>2, <5>3, <5>6 DEF Resumes
        <5>7. QED
          BY <2>8, <5>5, <5>6
      <4>2. OthersAwaited(calls, calls', p)
        BY <1>1, <2>9, <3>2, WaitingFacts, OthersAwait
      <4>3. QED
        BY <2>5, <3>6, <4>1, <4>2, CallFacts, StillAwaited
    <3>7. HasNoUnref => NothingLooksUnfilled'
      BY <2>2, <3>1, <3>5, <3>6 DEF NothingLooksUnfilled, IInv
    <3>8. QED
      BY <1>1, <2>2, <2>5, <3>1, <3>3, <3>4, <3>5, <3>7, CallFacts, Progress
  <2>12. QED
    BY <2>10, <2>11
<1>8. QED
  BY <1>2, <1>3, <1>6, <1>7

(* A frame grows by a tag, or an assertion ends the program.                 *)
LEMMA GetTagSound == IInv /\ GetTag => IInv'
<1> SUFFICES ASSUME IInv, GetTag
             PROVE  IInv'
  OBVIOUS
<1>1. Waiting("tags") /\ "tags" \notin ClassStages
  BY DEF GetTag, ClassStages
<1>2. PICK p \in Ptrs : p = Top.ref
  BY <1>1, WaitingFacts
<1>3. Top.i \in Nat /\ Top.n \in Nat /\ Top.id \in Nat /\ Top.i < Top.n /\ SoundFrame(heap[p])
  BY <1>1, <1>2, WaitingFacts DEF HasObject, Calls
<1>4. CASE value \notin Symbols \/ ~FrameSetSlotAsserts(heap[Top.ref], value)
  BY <1>4, DeathSound DEF GetTag, Deaths
<1>5. CASE value \in Symbols /\ FrameSetSlotAsserts(heap[p], value)
  <2>1. PICK b : b = FrameSetSlot(heap[p], value, NIL)
    OBVIOUS
  <2>2. PICK c : c = IF Top.i + 1 < Top.n THEN Call("tags", p, Top.id, Top.i + 1, Top.n)
                                          ELSE Call("slots", p, Top.id, 0, Top.n)
    OBVIOUS
  <2>3. /\ heap' = [heap EXCEPT ![p] = b] /\ calls' = Replaced(c) /\ value' = NoRef
        /\ Local /\ precedent' = precedent
    BY <1>2, <1>5, <2>1, <2>2 DEF GetTag
  <2>4. NIL \in Ref /\ NIL # UNREF
    BY RefAssumption DEF Ref
  <2>5. SoundFrame(b) /\ OnlyNew(heap[p], b, NIL)
    BY <1>3, <1>5, <2>1, <2>4, FrameSetSlotSound
  <2>6. /\ heap'[p] = b /\ SoundHeap(heap')
        /\ \A q \in Ptrs : Kept(heap, heap', q)
        /\ \A q \in Ptrs \ {p} : heap'[q] = heap[q]
    BY <1>3, <2>3, <2>5, ChangedObject
  <2>7. CallsSound(calls, Len(precedent), heap')
    BY <2>6, CallFacts, CallsKept
  <2>8. /\ c \in Calls /\ c.stage \notin ClassStages /\ c.ref = p /\ c.id = Top.id /\ c.i < c.n
    <3>1. CASE Top.i + 1 < Top.n
      BY <1>3, <2>2, <3>1 DEF Call, Calls, Stages, ClassStages
    <3>2. CASE ~(Top.i + 1 < Top.n)
      BY <1>3, <2>2, <3>2 DEF Call, Calls, Stages, ClassStages
    <3>3. QED
      BY <3>1, <3>2
  <2>9. HasObject(heap', c)
    BY <2>5, <2>6, <2>8 DEF HasObject
  <2>10. /\ calls' = Append(SubSeq(calls, 1, Len(calls) - 1), c) /\ calls # << >>
         /\ calls \in Seq(Calls) /\ calls[Len(calls)] = Top /\ Top.stage = "tags"
    BY <1>1, <2>3, WaitingFacts DEF Replaced, Returns
  <2>11. CallsSound(calls', Len(precedent), heap')
    BY <2>7, <2>8, <2>9, <2>10, CallFacts, ReplacedCall
  <2>12. Resumes(calls, calls')
    BY <2>8, <2>10, ReplacementResumes
  <2>13. HolesMatch(precedent', calls')
    BY <1>1, <2>3, <2>10, <2>12, CallFacts, HolesStay
  <2>14. ASSUME HasNoUnref
         PROVE  AllAwaited(heap', calls')
    <3>1. heap[p] # NoObject /\ heap[p].tag = "frame" /\ heap[p].length \in Nat /\ b.length \in Nat
      BY <1>3, <2>5, SoundIsSomething
    <3>2. \A j \in Nat : j < heap[p].length => heap[p].slot[j] # UNREF
      BY <2>14, <3>1, CallFacts DEF AllAwaited, Unfilled
    <3>3. \A j \in Nat : j < b.length => b.slot[j] # UNREF
      <4>1. TAKE j \in Nat
      <4>2. HAVE j < b.length
      <4>3. j \in 0 .. b.length - 1
        BY <3>1, <4>2
      <4>4. QED
        BY <2>4, <2>5, <3>2, <4>3 DEF OnlyNew
    <3>4. \A j \in Nat : ~Unfilled(heap', p, j)
      BY <2>6, <3>3 DEF Unfilled
    <3>5. OthersAwaited(calls, calls', p)
      BY <2>10, <2>12, OthersAwait
    <3>6. QED
      BY <2>6, <2>14, <3>4, <3>5, CallFacts, StillAwaited
  <2>15. HasNoUnref => NothingLooksUnfilled'
    BY <2>3, <2>14 DEF NothingLooksUnfilled, IInv
  <2>16. QED
    BY <1>1, <2>3, <2>6, <2>11, <2>13, <2>15, CallFacts, Progress
<1>6. QED
  BY <1>2, <1>4, <1>5

(* The reader ends with nothing left to do.                                  *)
LEMMA FinishSound == IInv /\ Finish => IInv'
<1> SUFFICES ASSUME IInv, Finish
             PROVE  IInv'
  OBVIOUS
<1>1. UNCHANGED <<stream, pos, precedent, heap, calls, value>> /\ calls = << >> /\ status' = "read"
  BY DEF Finish
<1>2. IdsInOrder' /\ (HasNoUnref' => NothingLooksUnfilled')
  BY <1>1 DEF IInv, IdsInOrder, ObjectsRead, HasNoUnref, NothingLooksUnfilled
<1>3. QED
  BY <1>1, <1>2 DEF IInv

(* Every step keeps the inductive invariant.                                 *)
LEMMA NextSound == IInv /\ [Next]_vars => IInv'
<1> SUFFICES ASSUME IInv, [Next]_vars
             PROVE  IInv'
  OBVIOUS
<1>1. CASE UNCHANGED vars
  <2>1. UNCHANGED <<stream, pos, precedent, heap, calls, value, status>>
    BY <1>1 DEF vars
  <2>2. IdsInOrder' /\ (HasNoUnref' => NothingLooksUnfilled')
    BY <2>1 DEF IInv, IdsInOrder, ObjectsRead, HasNoUnref, NothingLooksUnfilled
  <2>3. QED
    BY <2>1, <2>2 DEF IInv
<1>2. CASE ReadPastEnd
  BY <1>2, DeathSound DEF ReadPastEnd, Deaths
<1>3. CASE \E contents \in Streams : Open(contents)
  BY <1>3, StreamAssumption, OpenSound
<1>4. QED
  BY <1>1, <1>2, <1>3, ReadSound, ReadImmediateSound, ReadNilSound, ReadPrecedentSound,
     ReadSymbolSound, ReadStringSound, ReadClassedSound, ReadUnclassedSound,
     GetBinaryClassSound, GetArrayClassSound, GetSlotValueSound, GetTagSound, FinishSound
     DEF Next, ReadStep

(* The invariant, for every stream.                                          *)
LEMMA AlwaysIInv == Spec => []IInv
<1>1. Init => IInv
  BY Initially
<1>2. IInv /\ [Next]_vars => IInv'
  BY NextSound
<1>3. QED
  BY <1>1, <1>2, PTL DEF Spec

-----------------------------------------------------------------------------
(* Every variable has its type: what is read of any stream are arrays,       *)
(* frames and binaries as the object system makes them.                      *)
THEOREM TypeCorrect == Spec => []TypeOK
<1>1. IInv => TypeOK
  <2> SUFFICES ASSUME IInv
               PROVE  TypeOK
    OBVIOUS
  <2>1. pos \in 1 .. Len(stream) + 1
    BY LenProperties DEF IInv, IsStream
  <2>2. \A k \in DOMAIN precedent : precedent[k] \in Ref
    BY DEF IInv
  <2>3. ASSUME NEW p \in Ptrs, heap[p] # NoObject
        PROVE  IsFrameObject(heap[p]) \/ (IsObject(heap[p]) /\ heap[p].head \in Ref)
    <3>1. SoundArray(heap[p]) \/ SoundFrame(heap[p]) \/ SoundBinary(heap[p])
      BY <2>3 DEF IInv, SoundHeap, SoundObject
    <3>2. QED
      BY <3>1 DEF SoundArray, SoundFrame, SoundBinary, IsArrayObject
  <2>4. ASSUME NEW k \in DOMAIN calls
        PROVE  calls[k].stage \in Stages /\ calls[k].id \in DOMAIN precedent
    <3>1. calls[k] \in Calls
      BY CallFacts
    <3>2. QED
      BY <3>1, LenProperties, CallFacts DEF Calls
  <2>5. QED
    BY <2>1, <2>2, <2>3, <2>4 DEF IInv, TypeOK
<1>2. QED
  BY <1>1, AlwaysIInv, PTL

(* An ID reads NIL exactly while the class of its object is being read.      *)
THEOREM HolesAlwaysOpen == Spec => []HolesAreOpen
<1>1. IInv => HolesAreOpen
  <2> SUFFICES ASSUME IInv
               PROVE  HolesAreOpen
    OBVIOUS
  <2>1. \A k \in DOMAIN calls : calls[k].id \in DOMAIN precedent
    BY CallFacts, LenProperties
  <2>2. QED
    BY <2>1, CallFacts DEF HolesAreOpen, Holes, HolesMatch, ClassStages
<1>2. QED
  BY <1>1, AlwaysIInv, PTL

(* The k-th object whose tag is in the stream has the k-th ID.               *)
THEOREM IdsAlwaysInOrder == Spec => []IdsInOrder
<1>1. IInv => IdsInOrder
  BY DEF IInv
<1>2. QED
  BY <1>1, AlwaysIInv, PTL

(* A read that comes to its end has filled every slot of every object, at    *)
(* any depth and in any stream.                                              *)
THEOREM NothingStaysHalfRead == Spec => []NothingHalfRead
<1>1. IInv => NothingHalfRead
  <2> SUFFICES ASSUME IInv, status = "read", HasNoUnref,
                      NEW p \in Ptrs, heap[p] # NoObject, NEW i \in 0 .. heap[p].length - 1
               PROVE  heap[p].slot[i] # UNREF
    BY DEF NothingHalfRead
  <2>1. calls = << >> /\ AllAwaited(heap, calls)
    BY DEF IInv, NothingLooksUnfilled
  <2>2. heap[p].length \in Nat
    BY SoundIsSomething DEF IInv, SoundHeap, SoundObject
  <2>3. ~Unfilled(heap, p, i)
    BY <2>1, <2>2 DEF AllAwaited
  <2>4. QED
    BY <2>2, <2>3 DEF Unfilled
<1>2. QED
  BY <1>1, AlwaysIInv, PTL

-----------------------------------------------------------------------------
(* A graph that is written and read: the reader follows the writer.          *)
(* What is written: the parts of objects, and the root.                      *)
Items(g) == Nodes \cup IntegersOf(g)

PartsOf(g, ids, c) == Parts(g.of[ids[c.id]])

(* The part that an activation waits for; slots come last.                   *)
NextPart(g, ids, c) ==
    IF c.stage = "slots" THEN Len(PartsOf(g, ids, c)) - c.n + c.i + 1 ELSE c.i + 1

(* The parts behind the m-th, and then the others.                           *)
PartsBehind(parts, m, others) == SubSeq(parts, m + 1, Len(parts)) \o others

(* The j-th activation waits for this, and then for these; the parts behind   *)
(* the object that it reads are the last ones.                               *)
Awaited(g, ids, cs, j) ==
    IF j = 0 THEN g.root ELSE PartsOf(g, ids, cs[j])[NextPart(g, ids, cs[j])]

Behind(g, ids, cs, rests, j) ==
    IF j = 0 THEN << >>
    ELSE PartsBehind(PartsOf(g, ids, cs[j]), NextPart(g, ids, cs[j]), rests[j])

Nested(g, ids, cs, rests) ==
    /\ rests \in Seq(Seq(Items(g))) /\ Len(rests) = Len(cs)
    /\ \A j \in DOMAIN cs : /\ rests[j] = Behind(g, ids, cs, rests, j - 1)
                            /\ ids[cs[j].id] = Awaited(g, ids, cs, j - 1)

(* What was read for an item.                                                *)
Means(ids, prec, ref, v) ==
    IF v \in Nodes THEN \E k \in DOMAIN ids : ids[k] = v /\ prec[k] = ref /\ ref # NIL
    ELSE ref = v * 4 + 1

(* The writer still has to write what the activations wait for.              *)
InStepWith(g, w, cs, rests, prec, v) ==
    IF v = NoRef
    THEN w.todo = <<Awaited(g, w.ids, cs, Len(cs))>> \o Behind(g, w.ids, cs, rests, Len(cs))
    ELSE /\ w.todo = Behind(g, w.ids, cs, rests, Len(cs))
         /\ Means(w.ids, prec, v, Awaited(g, w.ids, cs, Len(cs)))

(* The k-th object, with t of its tags and s of its slots.                   *)
SlotsMean(ids, prec, x, parts, s) == \A i \in 1 .. s : Means(ids, prec, x.slot[i - 1], parts[i])

ReadTo(g, ids, prec, h, k, t, s) ==
    LET object == g.of[ids[k]]
        x      == h[prec[k]]
    IN  /\ object.kind = "symbol" => prec[k] \in Symbols /\ NameOf[prec[k]] = object.name
        /\ object.kind # "symbol" => prec[k] \in Ptrs /\ x # NoObject
        /\ object.kind = "string" => x = Binary(StringClass)
        /\ object.kind = "binary" => x = Binary(x.head) /\ Means(ids, prec, x.head, object.class)
        /\ object.kind = "array" => Means(ids, prec, x.head, object.class)
        /\ object.kind = "plainArray" => x.head = ArrayClass
        /\ object.kind \in {"array", "plainArray"} =>
              x.tag = "array" /\ x.length = Len(object.parts)
        /\ object.kind = "frame" =>
              /\ x.tag = "frame" /\ x.length = t /\ x.head.length = t + 1
              /\ \A i \in 1 .. t : Means(ids, prec, x.head.slot[i], object.tags[i])
        /\ object.kind # "symbol" => SlotsMean(ids, prec, x, object.parts, s)

(* The activation fits the object that it reads.                             *)
CallFits(g, ids, prec, c) ==
    LET object == g.of[ids[c.id]]
    IN  /\ c.n = Len(object.parts)
        /\ c.stage = "binaryClass" => object.kind = "binary" /\ c.i = 0
        /\ c.stage = "arrayClass" => object.kind = "array" /\ c.i = 0
        /\ c.stage = "tags" => object.kind = "frame"
        /\ c.stage = "slots" => object.kind \in {"array", "plainArray", "frame"}
        /\ c.stage \in {"tags", "slots"} => c.ref = prec[c.id] /\ c.i < c.n

CallRead(g, ids, prec, h, c) ==
    LET tags == Len(g.of[ids[c.id]].tags)
    IN  /\ c.stage = "tags" => ReadTo(g, ids, prec, h, c.id, c.i, 0)
        /\ c.stage = "slots" => ReadTo(g, ids, prec, h, c.id, tags, c.i)

IsComplete(g, ids, prec, h, k) ==
    ReadTo(g, ids, prec, h, k, Len(g.of[ids[k]].tags), Len(g.of[ids[k]].parts))

ReadSoFar(g, ids, prec, h, cs) ==
    /\ \A j \in DOMAIN cs : CallFits(g, ids, prec, cs[j]) /\ CallRead(g, ids, prec, h, cs[j])
    /\ \A k \in DOMAIN ids : (\A j \in DOMAIN cs : cs[j].id # k) => IsComplete(g, ids, prec, h, k)

OneToOne(prec) == \A j, k \in DOMAIN prec : prec[j] = prec[k] /\ prec[j] # NIL => j = k

(* The reader has read what the writer had written.                          *)
Tracks(g, w, prec, h, cs, v) ==
    /\ Len(w.ids) = Len(prec) /\ IsInjective(w.ids) /\ OneToOne(prec)
    /\ ReadSoFar(g, w.ids, prec, h, cs)
    /\ \E rests : Nested(g, w.ids, cs, rests) /\ InStepWith(g, w, cs, rests, prec, v)

GraphInv ==
    graph # NoGraph /\ NoneNegative(graph) =>
        /\ status \notin Deaths
        /\ status # "closed" => stream = WrittenOf[graph].stream
        /\ status = "open" => value = NoRef
        /\ status \in {"reading", "read"} =>
              /\ pos \in 2 .. Len(stream) + 1
              /\ Tracks(graph, Writing(graph)[pos], precedent, heap, calls, value)
        /\ status = "read" => value # NoRef

-----------------------------------------------------------------------------
(* A set of natural numbers has a least one.                                 *)
LEMMA LeastNumber ==
    ASSUME NEW T, T \subseteq Nat, T # {}
    PROVE  \E n \in T : \A m \in T : n <= m
<1> DEFINE R == OpToRel(<, Nat)
<1>1. IsWellFoundedOn(R, Nat)
  BY NatLessThanWellFounded
<1>2. ASSUME NEW x \in Nat, NEW y \in Nat, x < y
      PROVE  <<x, y>> \in R
  BY <1>2 DEF OpToRel
<1> HIDE DEF R
<1>3. PICK n \in T : \A m \in T : ~(<<m, n>> \in R)
  BY <1>1, WFMin
<1>4. ASSUME NEW m \in T
      PROVE  n <= m
  <2>1. m \in Nat /\ n \in Nat
    OBVIOUS
  <2>2. ~(m < n)
    BY <1>2, <1>3, <2>1
  <2>3. QED
    BY <2>1, <2>2
<1>5. QED
  BY <1>4

(* The writer is what its steps make of it.                                  *)
Step(g, w) == IF w.todo = << >> THEN w ELSE AfterToken(g.of, w)

IsRun(f, g, N) ==
    f = [k \in 2 .. N + 1 |-> IF k = 2 THEN Writer(<<g.root>>, << >>) ELSE Step(g, f[k - 1])]

(* There is such a function, of any length.                                  *)
LEMMA RunsExist ==
    ASSUME NEW N \in Nat, NEW g
    PROVE  \E f : IsRun(f, g, N)
<1> DEFINE Good(n) == \E f : IsRun(f, g, n)
           T == {n \in 0 .. N : ~Good(n)}
<1>1. SUFFICES ASSUME T # {}
               PROVE  FALSE
  <2>1. N \in 0 .. N
    OBVIOUS
  <2>2. T = {} => Good(N)
    <3> HIDE DEF Good
    <3>1. QED
      BY <2>1
  <2>3. QED
    BY <2>2
<1>2. PICK n \in T : \A m \in T : n <= m
  <2>1. T \subseteq Nat
    OBVIOUS
  <2> HIDE DEF T
  <2>2. QED
    BY <1>1, <2>1, LeastNumber
<1>3. n \in 0 .. N /\ ~Good(n)
  BY <1>2
<1>4. n # 0
  <2>1. IsRun([k \in 2 .. 0 + 1 |-> 0], g, 0)
    BY DEF IsRun
  <2>2. QED
    BY <1>3, <2>1
<1>5. n - 1 \in 0 .. N /\ n \in 1 .. N /\ ~(n <= n - 1)
  BY <1>3, <1>4
<1>6. PICK f : IsRun(f, g, n - 1)
  <2>1. n - 1 \notin T
    BY <1>2, <1>5
  <2> HIDE DEF IsRun
  <2>2. QED
    BY <1>5, <2>1
<1> DEFINE last == IF n = 1 THEN Writer(<<g.root>>, << >>) ELSE Step(g, f[n])
           h == [k \in 2 .. n + 1 |-> IF k = n + 1 THEN last ELSE f[k]]
<1>7. \A k \in 2 .. n : f[k] = IF k = 2 THEN Writer(<<g.root>>, << >>) ELSE Step(g, f[k - 1])
  <2>1. 2 .. (n - 1) + 1 = 2 .. n
    BY <1>5
  <2>2. QED
    BY <1>6, <2>1 DEF IsRun
<1>8. \A k \in 2 .. n + 1 : h[k] = IF k = 2 THEN Writer(<<g.root>>, << >>) ELSE Step(g, h[k - 1])
  <2>1. \A k \in 2 .. n : k \in 2 .. n + 1 /\ h[k] = f[k]
    BY <1>5
  <2>2. n + 1 \in 2 .. n + 1 /\ h[n + 1] = last
    BY <1>5
  <2> HIDE DEF h
  <2>3. ASSUME NEW k \in 2 .. n + 1
        PROVE  h[k] = IF k = 2 THEN Writer(<<g.root>>, << >>) ELSE Step(g, h[k - 1])
    <3>1. CASE k \in 2 .. n
      <4>1. k # 2 => k - 1 \in 2 .. n
        BY <1>5, <3>1
      <4>2. QED
        BY <1>7, <2>1, <3>1, <4>1
    <3>2. CASE k = n + 1
      <4>1. n # 1 => n \in 2 .. n /\ k # 2
        BY <1>5, <3>2
      <4>2. k - 1 = n /\ (n = 1 => k = 2)
        BY <1>5, <3>2
      <4>3. CASE n = 1
        BY <2>2, <3>2, <4>2, <4>3
      <4>4. CASE n # 1
        BY <2>1, <2>2, <3>2, <4>1, <4>2, <4>4
      <4>5. QED
        BY <4>3, <4>4
    <3>3. QED
      BY <1>5, <3>1, <3>2
  <2>4. QED
    BY <2>3
<1>9. IsRun(h, g, n)
  <2>1. h = [k \in 2 .. n + 1 |-> h[k]]
    OBVIOUS
  <2> HIDE DEF h
  <2>2. QED
    BY <1>8, <2>1 DEF IsRun
<1>10. QED
  BY <1>3, <1>9

(* What remains to be written, and what was numbered.                        *)
LEMMA WriterSteps ==
    ASSUME NEW g \in Graphs
    PROVE  /\ DOMAIN Writing(g) = 2 .. LongestStream + 1
           /\ Writing(g)[2] = Writer(<<g.root>>, << >>)
           /\ \A k \in 3 .. LongestStream + 1 : Writing(g)[k] = Step(g, Writing(g)[k - 1])
<1> DEFINE F == CHOOSE f : IsRun(f, g, LongestStream)
<1>1. Writing(g) = F
  BY DEF Writing, IsRun, Step
<1>2. LongestStream \in Nat \ {0}
  BY GraphAssumption
<1>3. IsRun(F, g, LongestStream)
  BY <1>2, RunsExist
<1> HIDE DEF F
<1>4. \A k \in 2 .. LongestStream + 1 :
         F[k] = IF k = 2 THEN Writer(<<g.root>>, << >>) ELSE Step(g, F[k - 1])
  BY <1>3 DEF IsRun
<1>5. DOMAIN F = 2 .. LongestStream + 1
  BY <1>3 DEF IsRun
<1>6. 2 \in 2 .. LongestStream + 1
     /\ \A k \in 3 .. LongestStream + 1 : k \in 2 .. LongestStream + 1 /\ k # 2
  BY <1>2
<1>7. QED
  BY <1>1, <1>4, <1>5, <1>6

-----------------------------------------------------------------------------
(* A sequence is one of what it has.                                         *)
LEMMA SeqOfElements ==
    ASSUME NEW S, NEW s \in Seq(S), NEW V, \A i \in DOMAIN s : s[i] \in V
    PROVE  s \in Seq(V)
<1>1. DOMAIN s = 1 .. Len(s) /\ Len(s) \in Nat
  BY LenProperties
<1>2. QED
  BY <1>1

(* The l parts of an object, the last n of them in its slots, in the order    *)
(* in which they are written.                                                *)
PartsAre(g, object, parts, l, n) ==
    /\ parts \in Seq(Items(g)) /\ l = Len(parts) /\ n = Len(object.parts) /\ n <= l
    /\ \A i \in 1 .. n : parts[l - n + i] = object.parts[i]
    /\ object.kind \in {"binary", "array"} => parts[1] = object.class /\ l = n + 1
    /\ object.kind \in {"symbol", "string"} => parts = << >>
    /\ object.kind = "plainArray" => l = n
    /\ object.kind = "frame" =>
          Len(object.tags) = n /\ l = n + n /\ \A i \in 1 .. n : parts[i] = object.tags[i]

(* The parts of an object are its class or its tags, and then its slots.     *)
LEMMA PartsOfSource ==
    ASSUME NEW g \in Graphs, NEW node \in Nodes, NEW object, object = g.of[node],
           NEW parts, parts = Parts(object)
    PROVE  \E l \in Nat, n \in Nat : PartsAre(g, object, parts, l, n)
<1>1. IsSource(g, object)
  BY GraphAssumption DEF IsGraph
<1>2. object.kind \in ObjectTags /\ object.parts \in Seq(Items(g)) /\ object.tags \in Seq(Items(g))
  <2>1. Nodes \subseteq Items(g)
    BY DEF Items
  <2>2. object.parts \in Seq(Items(g)) /\ object.tags \in Seq(Nodes)
    <3>1. object.parts \in Seq(Nodes \cup Int) /\ object.tags \in Seq(Nodes)
      BY <1>1 DEF IsSource
    <3>2. ASSUME NEW i \in DOMAIN object.parts
          PROVE  object.parts[i] \in Items(g)
      BY DEF Items, IntegersOf, Range
    <3>3. QED
      BY <3>1, <3>2, SeqOfElements
  <2>3. object.tags \in Seq(Items(g))
    BY <2>1, <2>2
  <2>4. QED
    BY <1>1, <2>2, <2>3 DEF IsSource
<1>3. PICK t \in Seq(Items(g)) : t = object.parts
  BY <1>2
<1>4. PICK n \in Nat : n = Len(t)
  BY LenProperties
<1>5. ASSUME NEW s \in Seq(Items(g)), NEW k \in Nat, Len(s) = k, parts = s \o t
      PROVE  /\ parts \in Seq(Items(g)) /\ Len(parts) = k + n
             /\ \A i \in 1 .. k : parts[i] = s[i]
             /\ \A i \in 1 .. n : parts[k + i] = t[i]
  <2>1. /\ parts \in Seq(Items(g)) /\ Len(parts) = k + n
        /\ \A i \in 1 .. k + n : parts[i] = IF i <= k THEN s[i] ELSE t[i - k]
    <3>1. /\ s \o t \in Seq(Items(g)) /\ Len(s \o t) = Len(s) + Len(t)
          /\ \A i \in 1 .. Len(s) + Len(t) : (s \o t)[i] = IF i <= Len(s) THEN s[i] ELSE t[i - Len(s)]
      BY ConcatProperties
    <3>2. QED
      BY <1>4, <1>5, <3>1
  <2>2. \A i \in 1 .. k : i \in 1 .. k + n /\ i <= k
    OBVIOUS
  <2>3. \A i \in 1 .. n : k + i \in 1 .. k + n /\ ~(k + i <= k) /\ (k + i) - k = i
    OBVIOUS
  <2>4. QED
    BY <2>1, <2>2, <2>3
<1>6. CASE object.kind \in {"binary", "array"}
  <2>1. PICK class \in Items(g) : class = object.class
    <3>1. object.class \in Nodes
      BY <1>1, <1>6 DEF IsSource, IsSymbolNode
    <3>2. QED
      BY <3>1 DEF Items
  <2>2. PICK s \in Seq(Items(g)) : s = <<class>> /\ Len(s) = 1 /\ s[1] = class
    <3>1. <<class>> \in Seq(Items(g)) /\ Len(<<class>>) = 1 /\ <<class>>[1] = class
      BY <2>1
    <3>2. QED
      BY <3>1
  <2>3. parts = s \o t
    <3>1. CASE object.kind = "binary"
      <4>1. t = << >> /\ parts = s
        BY <1>1, <1>3, <2>1, <2>2, <3>1 DEF IsSource, Parts
      <4>2. QED
        BY <4>1, ConcatEmptySeq
    <3>2. CASE object.kind = "array"
      BY <1>3, <2>1, <2>2, <3>2 DEF Parts
    <3>3. QED
      BY <1>6, <3>1, <3>2
  <2>4. /\ parts \in Seq(Items(g)) /\ Len(parts) = 1 + n
        /\ \A i \in 1 .. 1 : parts[i] = s[i]
        /\ \A i \in 1 .. n : parts[1 + i] = t[i]
    BY <1>5, <2>2, <2>3
  <2>5. PICK l \in Nat : l = n + 1 /\ l = Len(parts)
    BY <2>4
  <2>6. n <= l /\ \A i \in 1 .. n : l - n + i = 1 + i
    BY <2>5
  <2>7. parts[1] = object.class
    BY <2>1, <2>2, <2>4
  <2>8. object.kind \notin {"symbol", "string", "plainArray", "frame"}
    BY <1>6
  <2>9. \A i \in 1 .. n : parts[l - n + i] = object.parts[i]
    BY <1>3, <2>4, <2>6
  <2>10. QED
    BY <1>3, <1>4, <2>4, <2>5, <2>6, <2>7, <2>8, <2>9 DEF PartsAre
<1>7. CASE object.kind \notin {"binary", "array"}
  <2>1. PICK s \in Seq(Items(g)) : s = object.tags
    BY <1>2
  <2>2. PICK k \in Nat : k = Len(s)
    BY LenProperties
  <2>3. parts = s \o t
    BY <1>3, <1>7, <2>1 DEF Parts
  <2>4. /\ parts \in Seq(Items(g)) /\ Len(parts) = k + n
        /\ \A i \in 1 .. k : parts[i] = s[i]
        /\ \A i \in 1 .. n : parts[k + i] = t[i]
    BY <1>5, <2>2, <2>3
  <2>5. PICK l \in Nat : l = k + n /\ l = Len(parts)
    BY <2>4
  <2>6. n <= l /\ \A i \in 1 .. n : l - n + i = k + i
    BY <2>5
  <2>7. object.kind # "frame" => s = << >> /\ k = 0
    <3>1. object.kind # "frame" => s = << >>
      BY <1>1, <2>1 DEF IsSource
    <3>2. QED
      BY <2>2, <3>1, EmptySeq
  <2>8. object.kind \in {"symbol", "string"} => parts = << >>
    <3>1. SUFFICES ASSUME object.kind \in {"symbol", "string"}
                   PROVE  parts = << >>
      OBVIOUS
    <3>2. t = << >> /\ s = << >>
      BY <1>1, <1>3, <2>7, <3>1 DEF IsSource
    <3>3. QED
      BY <2>3, <3>2, ConcatEmptySeq
  <2>9. object.kind = "frame" => k = n
    <3>1. object.kind = "frame" => Len(s) = Len(t)
      BY <1>1, <1>3, <2>1 DEF IsSource
    <3>2. QED
      BY <1>4, <2>2, <3>1
  <2>10. object.kind = "plainArray" => l = n
    BY <2>5, <2>7
  <2>11. object.kind = "frame" =>
            Len(object.tags) = n /\ l = n + n /\ \A i \in 1 .. n : parts[i] = object.tags[i]
    BY <2>1, <2>2, <2>4, <2>5, <2>9
  <2>12. \A i \in 1 .. n : parts[l - n + i] = object.parts[i]
    BY <1>3, <2>4, <2>6
  <2>13. QED
    BY <1>3, <1>4, <1>7, <2>4, <2>5, <2>6, <2>8, <2>10, <2>11, <2>12 DEF PartsAre
<1>8. QED
  BY <1>6, <1>7

(* The first item of a list, and the others.                                 *)
LEMMA HeadAndTail ==
    ASSUME NEW S, NEW s \in Seq(S), s # << >>
    PROVE  Head(s) \in S /\ Tail(s) \in Seq(S) /\ s = <<Head(s)>> \o Tail(s)
  OBVIOUS

(* An item put before a list is its first one.                               *)
LEMMA FirstOf ==
    ASSUME NEW S, NEW x \in S, NEW s \in Seq(S), NEW all, all = <<x>> \o s
    PROVE  all \in Seq(S) /\ all # << >> /\ Head(all) = x /\ Tail(all) = s
  OBVIOUS

Typed(g, w) == w.todo \in Seq(Items(g)) /\ w.ids \in Seq(Nodes)

(* One token more. *)
LEMMA AfterTokenTyped ==
    ASSUME NEW g \in Graphs, NEW w, Typed(g, w), w.todo # << >>
    PROVE  Typed(g, AfterToken(g.of, w))
<1>1. Head(w.todo) \in Items(g) /\ Tail(w.todo) \in Seq(Items(g)) /\ w.ids \in Seq(Nodes)
  BY HeadAndTail DEF Typed
<1>2. PICK v \in Items(g) : v = Head(w.todo)
  BY <1>1
<1>3. CASE IsNew(w.ids, v)
  <2>1. v \in Nodes
    BY <1>3 DEF IsNew
  <2>2. PICK s \in Seq(Items(g)) : s = Parts(g.of[v])
    BY <2>1, PartsOfSource DEF PartsAre
  <2>3. AfterToken(g.of, w) = Writer(s \o Tail(w.todo), Append(w.ids, v))
    BY <1>2, <1>3, <2>2 DEF AfterToken
  <2>4. s \o Tail(w.todo) \in Seq(Items(g)) /\ Append(w.ids, v) \in Seq(Nodes)
    BY <1>1, <2>1, <2>2
  <2>5. QED
    BY <2>3, <2>4 DEF Typed, Writer
<1>4. CASE ~IsNew(w.ids, v)
  <2>1. AfterToken(g.of, w) = Writer(Tail(w.todo), w.ids)
    BY <1>2, <1>4 DEF AfterToken
  <2>2. QED
    BY <1>1, <2>1 DEF Typed, Writer
<1>5. QED
  BY <1>3, <1>4

(* The ID of an object that has one.                                         *)
LEMMA IdOfKnown ==
    ASSUME NEW ids \in Seq(Nodes), NEW v \in Nodes, ~IsNew(ids, v)
    PROVE  /\ IdOf(ids, v) \in DOMAIN ids /\ ids[IdOf(ids, v)] = v
           /\ IdOf(ids, v) \in 1 .. Len(ids) /\ Len(ids) \in Nat
<1>1. DOMAIN ids = 1 .. Len(ids) /\ Len(ids) \in Nat
  BY LenProperties
<1>2. \E k \in DOMAIN ids : ids[k] = v
  BY <1>1 DEF IsNew, Contains
<1>3. QED
  BY <1>1, <1>2 DEF IdOf

(* What is written is a token, but not another version number.               *)
LEMMA NextTokenSound ==
    ASSUME NEW g \in Graphs, NEW w, Typed(g, w), w.todo # << >>
    PROVE  IsToken(NextToken(g.of, w)) /\ NextToken(g.of, w).tag # "version"
<1>1. PICK v \in Items(g) : v = Head(w.todo)
  BY HeadAndTail DEF Typed
<1>2. CASE v \notin Nodes
  <2>1. PICK n : n = (v * 4) % Word
    OBVIOUS
  <2>2. StreamImmediate(n) \in Immediates
    BY <1>2, <2>1, GraphAssumption DEF IsGraph, Items
  <2>3. NextToken(g.of, w) = Token("immediate", n)
    BY <1>1, <1>2, <2>1 DEF NextToken, IsNew
  <2>4. QED
    BY <2>2, <2>3 DEF IsToken, Token, ImmediateOf
<1>3. CASE IsNew(w.ids, v)
  <2>1. v \in Nodes
    BY <1>3 DEF IsNew
  <2>2. PICK object : object = g.of[v]
    OBVIOUS
  <2>3. object.kind \in ObjectTags /\ Len(object.parts) \in Nat
    <3>1. IsSource(g, object)
      BY <2>1, <2>2, GraphAssumption DEF IsGraph
    <3>2. QED
      BY <2>1, <2>2, <3>1, PartsOfSource DEF IsSource, PartsAre
  <2>4. PICK n : n = IF object.kind = "symbol" THEN object.name ELSE Len(object.parts)
    OBVIOUS
  <2>5. NextToken(g.of, w) = Token(object.kind, n)
    BY <1>1, <1>3, <2>1, <2>2, <2>4 DEF NextToken
  <2>6. object.kind \in {"binary", "array", "plainArray", "frame"} => n \in Nat
    BY <2>3, <2>4
  <2>7. QED
    BY <2>3, <2>5, <2>6 DEF IsToken, Token, ObjectTags
<1>4. CASE v \in Nodes /\ ~IsNew(w.ids, v)
  <2>1. PICK n : n = IdOf(w.ids, v)
    OBVIOUS
  <2>2. n \in 1 .. Len(w.ids) /\ Len(w.ids) \in Nat
    BY <1>4, <2>1, IdOfKnown DEF Typed
  <2>3. NextToken(g.of, w) = Token("precedent", n - 1)
    BY <1>1, <1>4, <2>1 DEF NextToken
  <2>4. n - 1 \in Nat
    BY <2>2
  <2>5. QED
    BY <2>3, <2>4 DEF IsToken, Token
<1>5. QED
  BY <1>2, <1>3, <1>4

(* The writer has sequences, whatever it has written.                        *)
LEMMA WriterTyped ==
    ASSUME NEW g \in Graphs, NEW k \in 2 .. LongestStream + 1
    PROVE  Typed(g, Writing(g)[k])
<1> DEFINE W == Writing(g)
           T == {n \in 2 .. LongestStream + 1 : ~Typed(g, W[n])}
<1>0. LongestStream \in Nat \ {0}
  BY GraphAssumption
<1>1. SUFFICES ASSUME T # {}
               PROVE  FALSE
  OBVIOUS
<1>2. PICK n \in T : \A m \in T : n <= m
  <2>1. T \subseteq Nat
    BY <1>0
  <2> HIDE DEF T
  <2>2. QED
    BY <1>1, <2>1, LeastNumber
<1>3. n \in 2 .. LongestStream + 1 /\ ~Typed(g, W[n])
  BY <1>2
<1> HIDE DEF W
<1>4. n # 2
  <2>1. g.root \in Items(g)
    BY GraphAssumption DEF IsGraph, Items, IntegersOf
  <2>2. <<g.root>> \in Seq(Items(g)) /\ << >> \in Seq(Nodes)
    BY <2>1
  <2>3. W[2] = Writer(<<g.root>>, << >>)
    BY WriterSteps DEF W
  <2>4. Typed(g, W[2])
    BY <2>2, <2>3 DEF Typed, Writer
  <2>5. QED
    BY <1>3, <2>4
<1>5. n \in 3 .. LongestStream + 1 /\ n - 1 \in 2 .. LongestStream + 1 /\ ~(n <= n - 1)
  BY <1>0, <1>3, <1>4
<1>6. Typed(g, W[n - 1])
  <2>1. n - 1 \notin T
    BY <1>2, <1>5
  <2>2. QED
    BY <1>5, <2>1
<1>7. W[n] = Step(g, W[n - 1])
  BY <1>5, WriterSteps DEF W
<1>8. QED
  BY <1>3, <1>6, <1>7, AfterTokenTyped DEF Step

IsSequence(s) == s \in Seq({s[k] : k \in DOMAIN s})

(* The stream ends when nothing remains to be written.                       *)
LEMMA StreamOfGraph ==
    ASSUME NEW g \in Graphs, NEW W, W = Writing(g), NEW s, s = WrittenOf[g].stream
    PROVE  /\ Len(s) \in Nat \ {0} /\ Len(s) + 1 \in 2 .. LongestStream + 1 /\ IsSequence(s)
           /\ DOMAIN s = 1 .. Len(s)
           /\ s[1] = Token("version", 2)
           /\ \A k \in 2 .. Len(s) : s[k] = NextToken(g.of, W[k])
           /\ Ends(W, Len(s) + 1)
           /\ WrittenOf[g].ids = W[Len(s) + 1].ids
<1>1. DOMAIN W = 2 .. LongestStream + 1 /\ LongestStream \in Nat \ {0}
  BY WriterSteps, GraphAssumption
<1>2. \E k \in DOMAIN W : Ends(W, k)
  <2> DEFINE T == {k \in DOMAIN W : W[k].todo = << >>}
  <2>1. T \subseteq Nat /\ T # {}
    BY <1>1, GraphAssumption DEF IsGraph
  <2>2. PICK n \in T : \A m \in T : n <= m
    <3> HIDE DEF T
    <3>1. QED
      BY <2>1, LeastNumber
  <2>3. ASSUME NEW j \in 2 .. n - 1
        PROVE  W[j].todo # << >>
    <3>1. j \in DOMAIN W /\ ~(n <= j)
      BY <1>1, <2>2
    <3>2. QED
      BY <2>2, <3>1
  <2>4. QED
    BY <2>2, <2>3 DEF Ends
<1>3. PICK end : end = CHOOSE k \in DOMAIN W : Ends(W, k)
  OBVIOUS
<1>4. end \in 2 .. LongestStream + 1 /\ Ends(W, end)
  BY <1>1, <1>2, <1>3
<1>5. PICK n \in Nat : n = end - 1 /\ n + 1 = end /\ n # 0
  BY <1>1, <1>4
<1>6. /\ s = [k \in 1 .. n |-> IF k = 1 THEN Token("version", 2) ELSE NextToken(g.of, W[k])]
      /\ WrittenOf[g].ids = W[n + 1].ids
  BY <1>3, <1>5 DEF WrittenOf
<1>7. IsSequence(s) /\ Len(s) = n /\ DOMAIN s = 1 .. n
  BY <1>6 DEF IsSequence
<1>8. s[1] = Token("version", 2) /\ \A k \in 2 .. n : s[k] = NextToken(g.of, W[k])
  BY <1>5, <1>6
<1>9. QED
  BY <1>4, <1>5, <1>6, <1>7, <1>8

(* It is one that the reader could be given.                                 *)
LEMMA GraphStream ==
    ASSUME NEW g \in Graphs
    PROVE  IsStream(WrittenOf[g].stream)
<1>1. PICK s : s = WrittenOf[g].stream
  OBVIOUS
<1>2. PICK n \in Nat : n = Len(s)
  BY <1>1, StreamOfGraph
<1>3. /\ IsSequence(s) /\ DOMAIN s = 1 .. n
      /\ s[1] = Token("version", 2) /\ n + 1 \in 2 .. LongestStream + 1
      /\ \A k \in 2 .. n : s[k] = NextToken(g.of, Writing(g)[k]) /\ Writing(g)[k].todo # << >>
  <2>1. Ends(Writing(g), n + 1) => \A k \in 2 .. n : Writing(g)[k].todo # << >>
    <3>1. 2 .. (n + 1) - 1 = 2 .. n
      OBVIOUS
    <3>2. QED
      BY <3>1 DEF Ends
  <2>2. /\ IsSequence(s) /\ DOMAIN s = 1 .. Len(s)
        /\ s[1] = Token("version", 2) /\ Len(s) + 1 \in 2 .. LongestStream + 1
        /\ \A k \in 2 .. Len(s) : s[k] = NextToken(g.of, Writing(g)[k])
        /\ Ends(Writing(g), Len(s) + 1)
    <3>1. PICK W : W = Writing(g)
      OBVIOUS
    <3>2. QED
      BY <1>1, <3>1, StreamOfGraph
  <2>3. n + 1 \in 2 .. LongestStream + 1 /\ Ends(Writing(g), n + 1)
    BY <1>2, <2>2
  <2>4. \A k \in 2 .. n : s[k] = NextToken(g.of, Writing(g)[k])
    BY <1>2, <2>2, Zenon
  <2>5. DOMAIN s = 1 .. n
    BY <1>2, <2>2
  <2>6. \A k \in 2 .. n : Writing(g)[k].todo # << >>
    BY <2>1, <2>3
  <2>7. \A k \in 2 .. n : s[k] = NextToken(g.of, Writing(g)[k]) /\ Writing(g)[k].todo # << >>
    BY <2>4, <2>6
  <2>8. QED
    BY <2>2, <2>3, <2>5, <2>7
<1>4. ASSUME NEW k \in DOMAIN s
      PROVE  IsToken(s[k]) /\ (k = 1 <=> s[k].tag = "version")
  <2>1. CASE k = 1
    BY <1>3, <2>1 DEF IsToken, Token
  <2>2. CASE k # 1
    <3>1. k \in 2 .. n /\ k \in 2 .. LongestStream + 1
      BY <1>3, <2>2, GraphAssumption
    <3>2. QED
      BY <1>3, <2>2, <3>1, WriterTyped, NextTokenSound
  <2>3. QED
    BY <2>1, <2>2
<1>5. QED
  BY <1>1, <1>3, <1>4 DEF IsStream, IsSequence

-----------------------------------------------------------------------------
(* What is behind a part that is not the last one, and behind the last.      *)
LEMMA NextOfParts ==
    ASSUME NEW S, NEW parts \in Seq(S), NEW others \in Seq(S), NEW l, l = Len(parts),
           NEW m \in Nat, m < l, NEW k, k = m + 1, NEW next, next = PartsBehind(parts, k, others)
    PROVE  /\ next \in Seq(S) /\ parts[k] \in S
           /\ PartsBehind(parts, m, others) = <<parts[k]>> \o next
<1>1. PICK n \in Nat : n = Len(parts) /\ DOMAIN parts = 1 .. n
  BY LenProperties
<1>2. k \in 1 .. n /\ n \in k .. n
  BY <1>1
<1>3. parts[k] \in S
  BY <1>1, <1>2, ElementOfSeq
<1>4. PICK t \in Seq(S) : t = SubSeq(parts, k + 1, n)
  <2>1. \A i \in k + 1 .. n : parts[i] \in S
    BY <1>1, ElementOfSeq
  <2>2. SubSeq(parts, k + 1, n) \in Seq(S)
    BY <2>1, SubSeqProperties
  <2>3. QED
    BY <2>2
<1>5. SubSeq(parts, k, n) = <<parts[k]>> \o t
  <2>1. PICK i \in 1 .. Len(parts) : i = k /\ n \in i .. Len(parts)
    BY <1>1, <1>2
  <2>2. SubSeq(parts, i, n) = <<parts[i]>> \o SubSeq(parts, i + 1, n)
    BY <2>1, SubSeqRecursiveFirst, Zenon
  <2>3. QED
    BY <1>4, <2>1, <2>2
<1>6. next = t \o others /\ PartsBehind(parts, m, others) = (<<parts[k]>> \o t) \o others
  BY <1>1, <1>4, <1>5 DEF PartsBehind
<1>7. \A one \in Seq(S) : (one \o t) \o others = one \o (t \o others)
  BY ConcatAssociative
<1>8. <<parts[k]>> \in Seq(S) /\ t \o others \in Seq(S)
  BY <1>3
<1>9. (<<parts[k]>> \o t) \o others = <<parts[k]>> \o (t \o others)
  BY <1>7, <1>8, Zenon
<1>10. QED
  BY <1>3, <1>6, <1>8, <1>9, Zenon

(* Nothing is behind the last part.                                          *)
LEMMA LastOfParts ==
    ASSUME NEW S, NEW parts \in Seq(S), NEW others \in Seq(S)
    PROVE  PartsBehind(parts, Len(parts), others) = others
<1>1. PICK n \in Nat : n = Len(parts)
  BY LenProperties
<1>2. SubSeq(parts, n + 1, n) = << >>
  BY <1>1
<1>3. << >> \o others = others
  BY ConcatEmptySeq
<1>4. QED
  BY <1>1, <1>2, <1>3 DEF PartsBehind

(* and everything is behind none of them.                                    *)
LEMMA AllOfParts ==
    ASSUME NEW S, NEW parts \in Seq(S), NEW others \in Seq(S)
    PROVE  PartsBehind(parts, 0, others) = parts \o others
<1>1. PICK n \in Nat : n = Len(parts) /\ DOMAIN parts = 1 .. n
  BY LenProperties
<1>2. SubSeq(parts, 0 + 1, n) = parts
  BY <1>1, SubSeqFull
<1>3. QED
  BY <1>1, <1>2 DEF PartsBehind

-----------------------------------------------------------------------------
(* The part that an activation waits for is there.                           *)
LEMMA NextPartThere ==
    ASSUME NEW g \in Graphs, NEW ids \in Seq(Nodes), NEW prec, NEW c \in Calls,
           c.id \in DOMAIN ids, CallFits(g, ids, prec, c)
    PROVE  /\ PartsOf(g, ids, c) \in Seq(Items(g)) /\ Len(PartsOf(g, ids, c)) \in Nat
           /\ NextPart(g, ids, c) \in 1 .. Len(PartsOf(g, ids, c))
           /\ PartsOf(g, ids, c)[NextPart(g, ids, c)] \in Items(g)
<1>1. PICK node \in Nodes : node = ids[c.id]
  BY LenProperties, ElementOfSeq
<1>2. PICK object : object = g.of[node]
  OBVIOUS
<1>3. PICK parts : parts = Parts(object)
  OBVIOUS
<1>4. PartsOf(g, ids, c) = parts
  BY <1>1, <1>2, <1>3 DEF PartsOf
<1>5. PICK l \in Nat, n \in Nat :
         /\ parts \in Seq(Items(g)) /\ l = Len(parts) /\ n = Len(object.parts) /\ n <= l
         /\ object.kind \in {"binary", "array"} => l = n + 1
  BY <1>2, <1>3, PartsOfSource DEF PartsAre
<1>6. /\ c.n = n /\ c.i \in Nat /\ c.stage \in Stages
      /\ c.stage \in {"binaryClass", "arrayClass"} => object.kind \in {"binary", "array"} /\ c.i = 0
      /\ c.stage \in {"tags", "slots"} => c.i < n
  BY <1>1, <1>2, <1>5 DEF CallFits, Calls
<1>7. NextPart(g, ids, c) = IF c.stage = "slots" THEN l - n + c.i + 1 ELSE c.i + 1
  BY <1>4, <1>5, <1>6 DEF NextPart
<1>8. NextPart(g, ids, c) \in 1 .. l
  <2>1. CASE c.stage = "slots"
    BY <1>5, <1>6, <1>7, <2>1
  <2>2. CASE c.stage # "slots"
    BY <1>5, <1>6, <1>7, <2>2 DEF Stages
  <2>3. QED
    BY <2>1, <2>2
<1>9. parts[NextPart(g, ids, c)] \in Items(g)
  BY <1>5, <1>8, ElementOfSeq
<1>10. QED
  BY <1>4, <1>5, <1>8, <1>9

(* What is awaited, and what is behind it.                                   *)
LEMMA AwaitedTyped ==
    ASSUME NEW g \in Graphs, NEW ids \in Seq(Nodes), NEW prec, NEW cs \in Seq(Calls), NEW rests,
           \A j \in DOMAIN cs : cs[j].id \in DOMAIN ids /\ CallFits(g, ids, prec, cs[j]),
           Nested(g, ids, cs, rests)
    PROVE  /\ Awaited(g, ids, cs, Len(cs)) \in Items(g)
           /\ Behind(g, ids, cs, rests, Len(cs)) \in Seq(Items(g))
<1>1. PICK n \in Nat : n = Len(cs) /\ DOMAIN cs = 1 .. n
  BY LenProperties
<1>2. CASE n = 0
  <2>1. g.root \in Items(g)
    BY GraphAssumption DEF IsGraph, Items, IntegersOf
  <2>2. QED
    BY <1>1, <1>2, <2>1 DEF Awaited, Behind
<1>3. CASE n # 0
  <2>1. n \in DOMAIN cs
    BY <1>1, <1>3
  <2>2. PICK c \in Calls : c = cs[n]
    BY <1>1, <2>1, ElementOfSeq
  <2>3. PICK parts \in Seq(Items(g)) : parts = PartsOf(g, ids, c)
    BY <2>1, <2>2, NextPartThere
  <2>4. PICK m \in Nat : m = NextPart(g, ids, c) /\ parts[m] \in Items(g)
    BY <2>1, <2>2, <2>3, NextPartThere
  <2>5. rests[n] \in Seq(Items(g))
    <3>1. rests \in Seq(Seq(Items(g))) /\ Len(rests) = n
      BY <1>1 DEF Nested
    <3>2. n \in 1 .. Len(rests)
      BY <1>1, <1>3, <3>1
    <3>3. QED
      BY <3>1, <3>2, ElementOfSeq
  <2>6. PartsBehind(parts, m, rests[n]) \in Seq(Items(g))
    <3>1. PICK l \in Nat : l = Len(parts)
      BY LenProperties
    <3>2. \A i \in m + 1 .. l : parts[i] \in Items(g)
      <4>1. \A i \in m + 1 .. l : i \in 1 .. l
        BY <3>1
      <4>2. QED
        BY <3>1, <4>1, ElementOfSeq
    <3>3. SubSeq(parts, m + 1, l) \in Seq(Items(g))
      BY <3>2, SubSeqProperties
    <3>4. QED
      BY <2>5, <3>1, <3>3, ConcatProperties DEF PartsBehind
  <2>7. QED
    BY <1>1, <1>3, <2>2, <2>3, <2>4, <2>6 DEF Awaited, Behind
<1>4. QED
  BY <1>2, <1>3

(* An activation waits for the same, whatever is read meanwhile.             *)
LEMMA AwaitedSame ==
    ASSUME NEW g, NEW ids, NEW ids2, NEW cs, NEW cs2, NEW rests, NEW rests2, NEW j,
           j # 0 => cs2[j] = cs[j] /\ rests2[j] = rests[j] /\ ids2[cs[j].id] = ids[cs[j].id]
    PROVE  /\ Awaited(g, ids2, cs2, j) = Awaited(g, ids, cs, j)
           /\ Behind(g, ids2, cs2, rests2, j) = Behind(g, ids, cs, rests, j)
<1>1. CASE j = 0
  BY <1>1 DEF Awaited, Behind
<1>2. CASE j # 0
  <2>1. PICK c : c = cs[j] /\ c = cs2[j] /\ rests2[j] = rests[j] /\ ids2[c.id] = ids[c.id]
    BY <1>2
  <2>2. PartsOf(g, ids2, c) = PartsOf(g, ids, c)
    BY <2>1 DEF PartsOf
  <2>3. NextPart(g, ids2, c) = NextPart(g, ids, c)
    BY <2>2 DEF NextPart
  <2>4. QED
    BY <1>2, <2>1, <2>2, <2>3 DEF Awaited, Behind
<1>3. QED
  BY <1>1, <1>2

(* So do the n outermost ones, when those are the same.                      *)
LEMMA NestedSame ==
    ASSUME NEW g, NEW ids, NEW ids2, NEW cs \in Seq(Calls), NEW cs2 \in Seq(Calls), NEW rests,
           NEW rests2 \in Seq(Seq(Items(g))), NEW l, l = Len(cs), NEW n \in Nat, n <= l,
           Nested(g, ids, cs, rests), Len(cs2) = n, Len(rests2) = n,
           \A j \in DOMAIN cs : ids2[cs[j].id] = ids[cs[j].id],
           \A j \in 1 .. n : cs2[j].id = cs[j].id /\ rests2[j] = rests[j] /\ (j < n => cs2[j] = cs[j])
    PROVE  Nested(g, ids2, cs2, rests2)
<1>1. PICK m \in Nat : m = Len(cs) /\ DOMAIN cs = 1 .. m /\ n <= m
  BY LenProperties
<1>2. DOMAIN cs2 = 1 .. n
  BY LenProperties
<1>3. ASSUME NEW j \in 1 .. n
      PROVE  /\ rests2[j] = Behind(g, ids2, cs2, rests2, j - 1)
             /\ ids2[cs2[j].id] = Awaited(g, ids2, cs2, j - 1)
  <2>1. PICK i : i = j - 1
    OBVIOUS
  <2>2. i # 0 => i \in 1 .. n /\ i < n /\ i \in DOMAIN cs
    BY <1>1, <2>1
  <2>3. i # 0 => cs2[i] = cs[i] /\ rests2[i] = rests[i] /\ ids2[cs[i].id] = ids[cs[i].id]
    BY <2>2
  <2>4. /\ Awaited(g, ids2, cs2, i) = Awaited(g, ids, cs, i)
        /\ Behind(g, ids2, cs2, rests2, i) = Behind(g, ids, cs, rests, i)
    BY ONLY <2>3, AwaitedSame
  <2>5. j \in DOMAIN cs
    BY <1>1
  <2>6. rests[j] = Behind(g, ids, cs, rests, i) /\ ids[cs[j].id] = Awaited(g, ids, cs, i)
    BY <2>1, <2>5 DEF Nested
  <2>7. rests2[j] = rests[j] /\ ids2[cs2[j].id] = ids[cs[j].id]
    BY <2>5
  <2>8. QED
    BY <2>1, <2>4, <2>6, <2>7
<1>4. QED
  BY <1>2, <1>3 DEF Nested

(* A sequence with one element more, and with one less.                      *)
LEMMA OneMore ==
    ASSUME NEW S, NEW s \in Seq(S), NEW e \in S, NEW d, d = Append(s, e), NEW n, n = Len(s)
    PROVE  /\ n \in Nat /\ DOMAIN s = 1 .. n
           /\ d \in Seq(S) /\ Len(d) = n + 1 /\ DOMAIN d = 1 .. n + 1
           /\ \A k \in 1 .. n : d[k] = s[k]
           /\ d[n + 1] = e
  BY AppendedSequence

(* A sequence without its last element.                                      *)
LEMMA OneLess ==
    ASSUME NEW S, NEW s \in Seq(S), NEW n, n = Len(s), n # 0, NEW d, d = SubSeq(s, 1, n - 1)
    PROVE  /\ n \in Nat \ {0} /\ DOMAIN s = 1 .. n /\ s[n] \in S
           /\ d \in Seq(S) /\ Len(d) = n - 1 /\ DOMAIN d = 1 .. n - 1
           /\ \A k \in 1 .. n - 1 : d[k] = s[k]
<1>1. n \in Nat \ {0} /\ DOMAIN s = 1 .. n /\ s # << >>
  BY LenProperties, EmptySeq
<1>2. s[n] \in S /\ d \in Seq(S) /\ DOMAIN d = 1 .. n - 1 /\ \A k \in 1 .. n - 1 : d[k] = s[k]
  BY <1>1, ShortenedSequence
<1>3. PICK m \in Nat : m = Len(d) /\ DOMAIN d = 1 .. m
  BY <1>2, LenProperties
<1>4. m = n - 1
  BY <1>1, <1>2, <1>3
<1>5. QED
  BY <1>1, <1>2, <1>3, <1>4

(* All activations fit what they read.                                       *)
Fit(g, ids, prec, cs) ==
    \A j \in DOMAIN cs : cs[j].id \in DOMAIN ids /\ CallFits(g, ids, prec, cs[j])

(* The writer at a point of the reader. *)
Meets(g, w, cs, prec, v) ==
    \E rests : Nested(g, w.ids, cs, rests) /\ InStepWith(g, w, cs, rests, prec, v)

(* Nothing but more objects: the activations wait for the same.              *)
LEMMA MeetsKept ==
    ASSUME NEW g, NEW ids, NEW ids2, NEW cs \in Seq(Calls), NEW rests, Nested(g, ids, cs, rests),
           \A j \in DOMAIN cs : ids2[cs[j].id] = ids[cs[j].id],
           NEW v, v # NoRef, NEW prec, Means(ids2, prec, v, Awaited(g, ids, cs, Len(cs))),
           NEW w, w = Writer(Behind(g, ids, cs, rests, Len(cs)), ids2)
    PROVE  Meets(g, w, cs, prec, v)
<1>1. PICK m \in Nat : m = Len(cs) /\ DOMAIN cs = 1 .. m
  BY LenProperties
<1>2. rests \in Seq(Seq(Items(g))) /\ Len(rests) = m
  BY <1>1 DEF Nested
<1>3. Nested(g, ids2, cs, rests)
  <2>1. ASSUME NEW j \in 1 .. m
        PROVE  /\ rests[j] = Behind(g, ids2, cs, rests, j - 1)
               /\ ids2[cs[j].id] = Awaited(g, ids2, cs, j - 1)
    <3>1. PICK i : i = j - 1
      OBVIOUS
    <3>2. i # 0 => cs[i] = cs[i] /\ rests[i] = rests[i] /\ ids2[cs[i].id] = ids[cs[i].id]
      BY <1>1, <3>1
    <3>3. /\ Awaited(g, ids2, cs, i) = Awaited(g, ids, cs, i)
          /\ Behind(g, ids2, cs, rests, i) = Behind(g, ids, cs, rests, i)
      BY ONLY <3>2, AwaitedSame
    <3>4. rests[j] = Behind(g, ids, cs, rests, i) /\ ids[cs[j].id] = Awaited(g, ids, cs, i)
      BY <1>1, <3>1 DEF Nested
    <3>5. QED
      BY <1>1, <3>1, <3>3, <3>4
  <2>2. QED
    BY <1>1, <1>2, <2>1 DEF Nested
<1>4. m # 0 => m \in DOMAIN cs
  BY <1>1
<1>5. /\ Awaited(g, ids2, cs, m) = Awaited(g, ids, cs, m)
      /\ Behind(g, ids2, cs, rests, m) = Behind(g, ids, cs, rests, m)
  <2>1. m # 0 => cs[m] = cs[m] /\ rests[m] = rests[m] /\ ids2[cs[m].id] = ids[cs[m].id]
    BY <1>4
  <2>2. QED
    BY ONLY <2>1, AwaitedSame
<1>6. w.ids = ids2 /\ w.todo = Behind(g, ids, cs, rests, m)
  BY <1>1 DEF Writer
<1>7. InStepWith(g, w, cs, rests, prec, v)
  BY <1>1, <1>5, <1>6 DEF InStepWith
<1>8. QED
  BY <1>3, <1>6, <1>7 DEF Meets

(* An activation more: it waits for the first part of its object.            *)
LEMMA MeetsPushed ==
    ASSUME NEW g \in Graphs, NEW ids, NEW ids2 \in Seq(Nodes), NEW cs \in Seq(Calls), NEW rests,
           Nested(g, ids, cs, rests), \A j \in DOMAIN cs : ids2[cs[j].id] = ids[cs[j].id],
           Behind(g, ids, cs, rests, Len(cs)) \in Seq(Items(g)),
           NEW c \in Calls, c.id \in DOMAIN ids2,
           ids2[c.id] = Awaited(g, ids, cs, Len(cs)), NEW prec, CallFits(g, ids2, prec, c),
           NextPart(g, ids2, c) = 1,
           NEW w, w = Writer(PartsOf(g, ids2, c) \o Behind(g, ids, cs, rests, Len(cs)), ids2)
    PROVE  Meets(g, w, Append(cs, c), prec, NoRef)
<1>1. PICK m \in Nat : m = Len(cs) /\ DOMAIN cs = 1 .. m
  BY LenProperties
<1>2. PICK rest \in Seq(Items(g)) : rest = Behind(g, ids, cs, rests, m)
  BY <1>1
<1>3. PICK rests2 : rests2 = Append(rests, rest)
  OBVIOUS
<1>4. /\ rests2 \in Seq(Seq(Items(g))) /\ Len(rests2) = m + 1
      /\ \A j \in 1 .. m : rests2[j] = rests[j]
      /\ rests2[m + 1] = rest
  <2>1. rests \in Seq(Seq(Items(g))) /\ Len(rests) = m
    BY <1>1 DEF Nested
  <2>2. QED
    BY <1>2, <1>3, <2>1, OneMore
<1>5. PICK cs2 : cs2 = Append(cs, c)
  OBVIOUS
<1>6. /\ cs2 \in Seq(Calls) /\ Len(cs2) = m + 1 /\ DOMAIN cs2 = 1 .. m + 1
      /\ \A j \in 1 .. m : cs2[j] = cs[j]
      /\ cs2[m + 1] = c
  BY <1>1, <1>5, OneMore
<1>7. ASSUME NEW j \in 0 .. m
      PROVE  /\ Awaited(g, ids2, cs2, j) = Awaited(g, ids, cs, j)
             /\ Behind(g, ids2, cs2, rests2, j) = Behind(g, ids, cs, rests, j)
  <2>1. j # 0 => cs2[j] = cs[j] /\ rests2[j] = rests[j] /\ ids2[cs[j].id] = ids[cs[j].id]
    <3>1. j # 0 => j \in 1 .. m /\ j \in DOMAIN cs
      BY <1>1
    <3>2. QED
      BY <1>4, <1>6, <3>1
  <2>2. QED
    BY ONLY <2>1, AwaitedSame
<1>8. ASSUME NEW j \in 1 .. m + 1
      PROVE  /\ rests2[j] = Behind(g, ids2, cs2, rests2, j - 1)
             /\ ids2[cs2[j].id] = Awaited(g, ids2, cs2, j - 1)
  <2>1. PICK i \in 0 .. m : i = j - 1
    OBVIOUS
  <2>2. /\ Awaited(g, ids2, cs2, i) = Awaited(g, ids, cs, i)
        /\ Behind(g, ids2, cs2, rests2, i) = Behind(g, ids, cs, rests, i)
    BY <1>7
  <2>3. CASE j = m + 1
    BY <1>1, <1>2, <1>4, <1>6, <2>1, <2>2, <2>3
  <2>4. CASE j \in 1 .. m
    <3>1. rests[j] = Behind(g, ids, cs, rests, i) /\ ids[cs[j].id] = Awaited(g, ids, cs, i)
      BY <1>1, <2>1, <2>4 DEF Nested
    <3>2. rests2[j] = rests[j] /\ ids2[cs2[j].id] = ids[cs[j].id]
      BY <1>1, <1>4, <1>6, <2>4
    <3>3. QED
      BY <2>1, <2>2, <3>1, <3>2
  <2>5. QED
    BY <2>3, <2>4
<1>9. Nested(g, ids2, cs2, rests2)
  BY <1>4, <1>6, <1>8 DEF Nested
<1>10. PICK parts \in Seq(Items(g)) : parts = PartsOf(g, ids2, c) /\ 1 \in 1 .. Len(parts)
  BY NextPartThere
<1>11. parts \o rest = <<parts[1]>> \o PartsBehind(parts, 1, rest)
  <2>1. PartsBehind(parts, 0, rest) = parts \o rest
    BY AllOfParts
  <2>2. PICK l \in Nat, m0 \in Nat, m1 \in Nat : l = Len(parts) /\ m0 = 0 /\ m1 = 1
    BY LenProperties
  <2>3. m0 < l /\ m1 = m0 + 1
    BY <1>10, <2>2
  <2>4. PartsBehind(parts, m0, rest) = <<parts[m1]>> \o PartsBehind(parts, m1, rest)
    BY <2>2, <2>3, NextOfParts
  <2>5. QED
    BY <2>1, <2>2, <2>4
<1>12. Awaited(g, ids2, cs2, m + 1) = parts[1] /\ Behind(g, ids2, cs2, rests2, m + 1) = PartsBehind(parts, 1, rest)
  BY <1>4, <1>6, <1>10 DEF Awaited, Behind
<1>13. w.ids = ids2 /\ w.todo = parts \o rest
  BY <1>1, <1>2, <1>10 DEF Writer
<1>14. InStepWith(g, w, cs2, rests2, prec, NoRef)
  BY <1>6, <1>11, <1>12, <1>13 DEF InStepWith
<1>15. QED
  BY <1>5, <1>9, <1>13, <1>14 DEF Meets

(* Another instead of the last: it waits for the next part of its object.    *)
LEMMA MeetsReplaced ==
    ASSUME NEW g \in Graphs, NEW ids \in Seq(Nodes), NEW cs \in Seq(Calls), cs # << >>, NEW rests,
           Nested(g, ids, cs, rests), NEW w, w.ids = ids,
           w.todo = Behind(g, ids, cs, rests, Len(cs)),
           NEW top, top = cs[Len(cs)], top.id \in DOMAIN ids, NEW prec, CallFits(g, ids, prec, top),
           NEW c \in Calls, c.id = top.id, NEW prec2, CallFits(g, ids, prec2, c),
           NextPart(g, ids, c) = NextPart(g, ids, top) + 1,
           NEW cs2, cs2 = Append(SubSeq(cs, 1, Len(cs) - 1), c)
    PROVE  Meets(g, w, cs2, prec2, NoRef)
<1>1. PICK l \in Nat \ {0} : l = Len(cs) /\ DOMAIN cs = 1 .. l
  BY LenProperties, EmptySeq
<1>2. PICK shorter : shorter = SubSeq(cs, 1, l - 1)
  OBVIOUS
<1>3. PICK n \in Nat : n = l - 1 /\ n < l /\ n + 1 = l
  BY <1>1
<1>4. /\ shorter \in Seq(Calls) /\ Len(shorter) = n
      /\ \A k \in 1 .. n : shorter[k] = cs[k]
      /\ cs[l] \in Calls
  BY <1>1, <1>2, <1>3, OneLess
<1>5. cs2 = Append(shorter, c)
  BY <1>1, <1>2
<1>6. /\ cs2 \in Seq(Calls) /\ Len(cs2) = l
      /\ \A k \in 1 .. n : cs2[k] = shorter[k]
      /\ cs2[l] = c
  BY <1>3, <1>4, <1>5, OneMore
<1>7. \A j \in 1 .. l : cs2[j].id = cs[j].id /\ (j < l => cs2[j] = cs[j])
  <2>1. TAKE j \in 1 .. l
  <2>2. CASE j = l
    BY <1>1, <1>6, <2>2
  <2>3. CASE j # l
    <3>1. j \in 1 .. n
      BY <1>3, <2>3
    <3>2. QED
      BY <1>4, <1>6, <3>1
  <2>4. QED
    BY <2>2, <2>3
<1>8. rests \in Seq(Seq(Items(g))) /\ Len(rests) = l
  BY <1>1 DEF Nested
<1>9. Nested(g, ids, cs2, rests)
  <2>1. /\ cs \in Seq(Calls) /\ cs2 \in Seq(Calls) /\ rests \in Seq(Seq(Items(g)))
        /\ l \in Nat /\ l <= l /\ l = Len(cs) /\ Nested(g, ids, cs, rests) /\ Len(cs2) = l /\ Len(rests) = l
        /\ \A j \in DOMAIN cs : ids[cs[j].id] = ids[cs[j].id]
        /\ \A j \in 1 .. l : cs2[j].id = cs[j].id /\ rests[j] = rests[j] /\ (j < l => cs2[j] = cs[j])
    BY <1>1, <1>6, <1>7, <1>8
  <2>2. QED
    BY ONLY <2>1, NestedSame
<1>10. PICK parts \in Seq(Items(g)) : parts = PartsOf(g, ids, c)
  BY NextPartThere
<1>11. PartsOf(g, ids, top) = parts
  BY <1>10 DEF PartsOf
<1>12. PICK m \in Nat, k \in Nat, e \in Nat :
          m = NextPart(g, ids, top) /\ k = NextPart(g, ids, c) /\ k = m + 1 /\ m < e /\ e = Len(parts)
  <2>1. top \in Calls
    BY <1>1, <1>4
  <2>2. PICK e \in Nat : e = Len(parts)
    BY LenProperties
  <2>3. NextPart(g, ids, c) \in 1 .. e
    BY <1>10, <2>2, NextPartThere
  <2>4. NextPart(g, ids, top) \in 1 .. e
    <3>1. NextPart(g, ids, top) \in 1 .. Len(PartsOf(g, ids, top))
      BY <2>1, NextPartThere
    <3>2. QED
      BY <1>11, <2>2, <3>1
  <2>5. NextPart(g, ids, top) < e
    BY <2>3, <2>4
  <2>6. NextPart(g, ids, top) \in Nat /\ NextPart(g, ids, c) \in Nat
    BY <2>3, <2>4
  <2>7. QED
    BY <2>2, <2>5, <2>6
<1>13. PICK rest \in Seq(Items(g)) : rest = rests[l]
  BY <1>1, <1>8, ElementOfSeq
<1>14. PartsBehind(parts, m, rest) = <<parts[k]>> \o PartsBehind(parts, k, rest)
  <2>1. /\ parts \in Seq(Items(g)) /\ rest \in Seq(Items(g)) /\ m \in Nat
        /\ e = Len(parts) /\ m < e /\ k = m + 1
    BY <1>12
  <2>2. QED
    BY ONLY <2>1, NextOfParts
<1>15. w.todo = PartsBehind(parts, m, rest)
  BY <1>1, <1>11, <1>12, <1>13 DEF Behind
<1>16. /\ Awaited(g, ids, cs2, l) = parts[k]
       /\ Behind(g, ids, cs2, rests, l) = PartsBehind(parts, k, rest)
  BY <1>1, <1>6, <1>10, <1>12, <1>13 DEF Awaited, Behind
<1>17. InStepWith(g, w, cs2, rests, prec2, NoRef)
  BY <1>6, <1>14, <1>15, <1>16 DEF InStepWith
<1>18. QED
  BY <1>9, <1>17 DEF Meets

(* An activation less: its last part was read.                               *)
LEMMA MeetsPopped ==
    ASSUME NEW g \in Graphs, NEW ids \in Seq(Nodes), NEW cs \in Seq(Calls), cs # << >>, NEW rests,
           Nested(g, ids, cs, rests), NEW w, w.ids = ids,
           w.todo = Behind(g, ids, cs, rests, Len(cs)),
           NEW top, top = cs[Len(cs)], top.id \in DOMAIN ids, NEW prec, CallFits(g, ids, prec, top),
           NextPart(g, ids, top) = Len(PartsOf(g, ids, top)),
           NEW prec2, NEW v, v # NoRef, Means(ids, prec2, v, ids[top.id])
    PROVE  Meets(g, w, SubSeq(cs, 1, Len(cs) - 1), prec2, v)
<1>1. PICK l \in Nat \ {0} : l = Len(cs) /\ DOMAIN cs = 1 .. l
  BY LenProperties, EmptySeq
<1>2. PICK cs2 : cs2 = SubSeq(cs, 1, l - 1)
  OBVIOUS
<1>3. PICK n \in Nat : n = l - 1 /\ n <= l /\ n + 1 = l
  BY <1>1
<1>4. /\ cs2 \in Seq(Calls) /\ Len(cs2) = n
      /\ \A k \in 1 .. n : cs2[k] = cs[k]
      /\ cs[l] \in Calls
  BY <1>1, <1>2, <1>3, OneLess
<1>5. rests \in Seq(Seq(Items(g))) /\ Len(rests) = l
  BY <1>1 DEF Nested
<1>6. PICK rests2 : rests2 = SubSeq(rests, 1, l - 1)
  OBVIOUS
<1>7. /\ rests2 \in Seq(Seq(Items(g))) /\ Len(rests2) = n
      /\ \A k \in 1 .. n : rests2[k] = rests[k]
      /\ rests[l] \in Seq(Items(g))
  BY <1>1, <1>3, <1>5, <1>6, OneLess
<1>8. Nested(g, ids, cs2, rests2)
  <2>1. /\ cs \in Seq(Calls) /\ cs2 \in Seq(Calls) /\ rests2 \in Seq(Seq(Items(g)))
        /\ n \in Nat /\ n <= l /\ l = Len(cs) /\ Nested(g, ids, cs, rests) /\ Len(cs2) = n /\ Len(rests2) = n
        /\ \A j \in DOMAIN cs : ids[cs[j].id] = ids[cs[j].id]
        /\ \A j \in 1 .. n : cs2[j].id = cs[j].id /\ rests2[j] = rests[j] /\ (j < n => cs2[j] = cs[j])
    BY <1>1, <1>3, <1>4, <1>7
  <2>2. QED
    BY ONLY <2>1, NestedSame
<1>9. PICK parts \in Seq(Items(g)) : parts = PartsOf(g, ids, top)
  BY <1>1, <1>4, NextPartThere
<1>10. w.todo = rests[l]
  <2>1. w.todo = PartsBehind(parts, Len(parts), rests[l])
    BY <1>1, <1>9 DEF Behind
  <2>2. PartsBehind(parts, Len(parts), rests[l]) = rests[l]
    BY <1>7, LastOfParts
  <2>3. QED
    BY <2>1, <2>2
<1>11. rests[l] = Behind(g, ids, cs, rests, n) /\ ids[top.id] = Awaited(g, ids, cs, n)
  <2>1. l \in DOMAIN cs /\ l - 1 = n
    BY <1>1, <1>3
  <2>2. rests[l] = Behind(g, ids, cs, rests, l - 1) /\ ids[cs[l].id] = Awaited(g, ids, cs, l - 1)
    BY <2>1 DEF Nested
  <2>3. QED
    BY <1>1, <2>1, <2>2
<1>12. /\ Awaited(g, ids, cs2, n) = Awaited(g, ids, cs, n)
       /\ Behind(g, ids, cs2, rests2, n) = Behind(g, ids, cs, rests, n)
  <2>1. n # 0 => cs2[n] = cs[n] /\ rests2[n] = rests[n] /\ ids[cs[n].id] = ids[cs[n].id]
    BY <1>4, <1>7
  <2>2. QED
    BY ONLY <2>1, AwaitedSame
<1>13. InStepWith(g, w, cs2, rests2, prec2, v)
  BY <1>4, <1>10, <1>11, <1>12 DEF InStepWith
<1>14. QED
  BY <1>1, <1>2, <1>8, <1>13 DEF Meets

-----------------------------------------------------------------------------
(* No object gets another ID, and no ID that leads to an object another one. *)
KeepsIds(ids, prec, ids2, prec2) ==
    \A k \in DOMAIN ids :
        k \in DOMAIN ids2 /\ ids2[k] = ids[k] /\ (prec[k] # NIL => prec2[k] = prec[k])

(* What was read for an item stays what was read for it.                     *)
LEMMA MeansKept ==
    ASSUME NEW ids, NEW prec, NEW ids2, NEW prec2, KeepsIds(ids, prec, ids2, prec2)
    PROVE  \A ref, v : Means(ids, prec, ref, v) => Means(ids2, prec2, ref, v)
  BY DEF Means, KeepsIds

(* What was read of an object stays, when the object is not changed.         *)
LEMMA ReadToKept ==
    ASSUME NEW g, NEW ids, NEW prec, NEW h, NEW ids2, NEW prec2, NEW h2,
           KeepsIds(ids, prec, ids2, prec2), NEW k \in DOMAIN ids, NEW t, NEW s,
           ReadTo(g, ids, prec, h, k, t, s), prec[k] \in Ptrs => h2[prec[k]] = h[prec[k]]
    PROVE  ReadTo(g, ids2, prec2, h2, k, t, s)
<1>1. PICK object : object = g.of[ids[k]]
  OBVIOUS
<1>2. PICK x : x = h[prec[k]]
  OBVIOUS
<1>3. prec[k] # NIL
  <2>1. prec[k] \in Symbols \/ prec[k] \in Ptrs
    BY DEF ReadTo
  <2>2. QED
    BY <2>1, RefAssumption
<1>4. ids2[k] = ids[k] /\ prec2[k] = prec[k]
  BY <1>3 DEF KeepsIds
<1>5. object.kind # "symbol" => h2[prec2[k]] = x
  BY <1>1, <1>2, <1>4 DEF ReadTo
<1>6. \A ref, v : Means(ids, prec, ref, v) => Means(ids2, prec2, ref, v)
  BY MeansKept
<1>7. object.kind # "symbol" => SlotsMean(ids2, prec2, x, object.parts, s)
  BY <1>1, <1>2, <1>6 DEF ReadTo, SlotsMean
<1>8. object.kind = "symbol" => prec[k] \in Symbols /\ NameOf[prec[k]] = object.name
  BY <1>1 DEF ReadTo
<1>9. object.kind # "symbol" =>
        /\ prec[k] \in Ptrs /\ x # NoObject
        /\ object.kind = "string" => x = Binary(StringClass)
        /\ object.kind = "binary" => x = Binary(x.head) /\ Means(ids2, prec2, x.head, object.class)
        /\ object.kind = "array" => Means(ids2, prec2, x.head, object.class)
        /\ object.kind = "plainArray" => x.head = ArrayClass
        /\ object.kind \in {"array", "plainArray"} =>
              x.tag = "array" /\ x.length = Len(object.parts)
        /\ object.kind = "frame" =>
              /\ x.tag = "frame" /\ x.length = t /\ x.head.length = t + 1
              /\ \A i \in 1 .. t : Means(ids2, prec2, x.head.slot[i], object.tags[i])
  BY <1>1, <1>2, <1>6 DEF ReadTo
<1>10. QED
  BY <1>1, <1>4, <1>5, <1>7, <1>8, <1>9 DEF ReadTo

(* An object that an activation reads, or that is there, has an entry.       *)
LEMMA HasEntry ==
    ASSUME NEW g, NEW ids, NEW prec, NEW h, NEW k, NEW t, NEW s, ReadTo(g, ids, prec, h, k, t, s)
    PROVE  /\ prec[k] # NIL
           /\ prec[k] \in Symbols \/ (prec[k] \in Ptrs /\ h[prec[k]] # NoObject)
<1>1. prec[k] \in Symbols \/ (prec[k] \in Ptrs /\ h[prec[k]] # NoObject)
  BY DEF ReadTo
<1>2. QED
  BY <1>1, RefAssumption

(* But for the q-th object nothing changes.                                  *)
OneChanges(g, ids, prec, h, cs, ids2, prec2, h2, cs2, q) ==
    /\ ReadSoFar(g, ids, prec, h, cs) /\ KeepsIds(ids, prec, ids2, prec2)
    /\ \A k \in DOMAIN ids2 : k \in DOMAIN ids \/ k = q
    /\ \A k \in DOMAIN ids : k # q /\ prec[k] \in Ptrs /\ h[prec[k]] # NoObject =>
          h2[prec[k]] = h[prec[k]]
    /\ \A j \in DOMAIN cs : cs[j].id \in DOMAIN ids
    /\ \A j \in DOMAIN cs2 : cs2[j].id # q => \E i \in DOMAIN cs : cs2[j] = cs[i]
    /\ \A j \in DOMAIN cs : cs[j].id # q => \E i \in DOMAIN cs2 : cs[j] = cs2[i]
    /\ \A j \in DOMAIN cs2 : cs2[j].id = q =>
          CallFits(g, ids2, prec2, cs2[j]) /\ CallRead(g, ids2, prec2, h2, cs2[j])
    /\ q \in DOMAIN ids2 /\ (\A j \in DOMAIN cs2 : cs2[j].id # q) => IsComplete(g, ids2, prec2, h2, q)

(* When one object changes, what was read of the others stays.               *)
LEMMA ReadSoFarKept ==
    ASSUME NEW g, NEW ids, NEW prec, NEW h, NEW cs, NEW ids2, NEW prec2, NEW h2, NEW cs2, NEW q,
           OneChanges(g, ids, prec, h, cs, ids2, prec2, h2, cs2, q)
    PROVE  ReadSoFar(g, ids2, prec2, h2, cs2)
<1> /\ ReadSoFar(g, ids, prec, h, cs) /\ KeepsIds(ids, prec, ids2, prec2)
    /\ \A k \in DOMAIN ids2 : k \in DOMAIN ids \/ k = q
    /\ \A k \in DOMAIN ids : k # q /\ prec[k] \in Ptrs /\ h[prec[k]] # NoObject =>
          h2[prec[k]] = h[prec[k]]
    /\ \A j \in DOMAIN cs : cs[j].id \in DOMAIN ids
    /\ \A j \in DOMAIN cs2 : cs2[j].id # q => \E i \in DOMAIN cs : cs2[j] = cs[i]
    /\ \A j \in DOMAIN cs : cs[j].id # q => \E i \in DOMAIN cs2 : cs[j] = cs2[i]
    /\ \A j \in DOMAIN cs2 : cs2[j].id = q =>
          CallFits(g, ids2, prec2, cs2[j]) /\ CallRead(g, ids2, prec2, h2, cs2[j])
    /\ q \in DOMAIN ids2 /\ (\A j \in DOMAIN cs2 : cs2[j].id # q) => IsComplete(g, ids2, prec2, h2, q)
  BY DEF OneChanges
<1>1. ASSUME NEW k \in DOMAIN ids, k # q, NEW t, NEW s, ReadTo(g, ids, prec, h, k, t, s)
      PROVE  ReadTo(g, ids2, prec2, h2, k, t, s) /\ ids2[k] = ids[k] /\ prec2[k] = prec[k]
  <2>1. prec[k] # NIL /\ (prec[k] \in Ptrs => h[prec[k]] # NoObject)
    BY <1>1, HasEntry, RefAssumption
  <2>2. prec[k] \in Ptrs => h2[prec[k]] = h[prec[k]]
    BY <1>1, <2>1
  <2>3. QED
    BY <1>1, <2>1, <2>2, ReadToKept DEF KeepsIds
<1>2. ASSUME NEW j \in DOMAIN cs2
      PROVE  CallFits(g, ids2, prec2, cs2[j]) /\ CallRead(g, ids2, prec2, h2, cs2[j])
  <2>1. CASE cs2[j].id = q
    BY <2>1
  <2>2. CASE cs2[j].id # q
    <3>1. PICK i \in DOMAIN cs : cs2[j] = cs[i]
      BY <2>2
    <3>2. PICK c : c = cs[i] /\ c.id \in DOMAIN ids /\ c.id # q
      BY <2>2, <3>1
    <3>3. CallFits(g, ids, prec, c) /\ CallRead(g, ids, prec, h, c) /\ ids2[c.id] = ids[c.id]
      BY <3>2 DEF ReadSoFar, KeepsIds
    <3>4. PICK object : object = g.of[ids[c.id]]
      OBVIOUS
    <3>5. PICK tags : tags = Len(object.tags)
      OBVIOUS
    <3>6. c.stage = "tags" => ReadTo(g, ids, prec, h, c.id, c.i, 0)
      BY <3>3 DEF CallRead
    <3>7. c.stage = "slots" => ReadTo(g, ids, prec, h, c.id, tags, c.i)
      BY <3>3, <3>4, <3>5 DEF CallRead
    <3>8. c.stage = "tags" => ReadTo(g, ids2, prec2, h2, c.id, c.i, 0) /\ prec2[c.id] = prec[c.id]
      BY <1>1, <3>2, <3>6
    <3>9. c.stage = "slots" => ReadTo(g, ids2, prec2, h2, c.id, tags, c.i) /\ prec2[c.id] = prec[c.id]
      BY <1>1, <3>2, <3>7
    <3>10. CallFits(g, ids2, prec2, c)
      BY <3>3, <3>8, <3>9 DEF CallFits
    <3>11. CallRead(g, ids2, prec2, h2, c)
      BY <3>3, <3>4, <3>5, <3>8, <3>9 DEF CallRead
    <3>12. QED
      BY <3>1, <3>2, <3>10, <3>11
  <2>3. QED
    BY <2>1, <2>2
<1>3. ASSUME NEW k \in DOMAIN ids2, \A j \in DOMAIN cs2 : cs2[j].id # k
      PROVE  IsComplete(g, ids2, prec2, h2, k)
  <2>1. CASE k = q
    BY <1>3, <2>1
  <2>2. CASE k # q
    <3>1. k \in DOMAIN ids /\ ids2[k] = ids[k]
      BY <2>2 DEF KeepsIds
    <3>2. \A j \in DOMAIN cs : cs[j].id # k
      BY <1>3, <2>2
    <3>3. IsComplete(g, ids, prec, h, k)
      BY <3>1, <3>2 DEF ReadSoFar
    <3>4. PICK object : object = g.of[ids[k]]
      OBVIOUS
    <3>5. PICK t, s : t = Len(object.tags) /\ s = Len(object.parts)
      OBVIOUS
    <3>6. ReadTo(g, ids, prec, h, k, t, s)
      BY <3>3, <3>4, <3>5 DEF IsComplete
    <3>7. ReadTo(g, ids2, prec2, h2, k, t, s)
      BY <1>1, <2>2, <3>1, <3>6
    <3>8. QED
      BY <3>1, <3>4, <3>5, <3>7 DEF IsComplete
  <2>3. QED
    BY <2>1, <2>2
<1>4. QED
  BY <1>2, <1>3 DEF ReadSoFar

-----------------------------------------------------------------------------
(* The reader of a graph, and the writer w before the token that is next.    *)
Following(w) ==
    /\ IInv /\ status = "reading"
    /\ graph \in Graphs /\ graph # NoGraph /\ NoneNegative(graph)
    /\ stream = WrittenOf[graph].stream /\ pos \in 2 .. Len(stream) + 1
    /\ w = Writing(graph)[pos] /\ Tracks(graph, w, precedent, heap, calls, value)

(* What is known of a reader that follows the writer.                        *)
LEMMA FollowingFacts ==
    ASSUME NEW w, Following(w)
    PROVE  /\ \E n \in Nat : /\ n = Len(w.ids) /\ n = Len(precedent)
                             /\ DOMAIN w.ids = 1 .. n /\ DOMAIN precedent = 1 .. n
           /\ w.ids \in Seq(Nodes) /\ precedent \in Seq(Ref) /\ calls \in Seq(Calls)
           /\ IsInjective(w.ids) /\ OneToOne(precedent)
           /\ ReadSoFar(graph, w.ids, precedent, heap, calls)
           /\ Fit(graph, w.ids, precedent, calls)
           /\ \A j, k \in DOMAIN calls : calls[j].id = calls[k].id => j = k
           /\ Meets(graph, w, calls, precedent, value)
<1>1. IInv /\ graph \in Graphs /\ Tracks(graph, w, precedent, heap, calls, value)
  BY DEF Following
<1>2. w.ids \in Seq(Nodes)
  <2>1. PICK l \in Nat : l = Len(stream)
    BY StreamOfGraph DEF Following
  <2>2. l + 1 \in 2 .. LongestStream + 1
    <3>1. Len(WrittenOf[graph].stream) + 1 \in 2 .. LongestStream + 1
      BY <1>1, StreamOfGraph
    <3>2. QED
      BY <2>1, <3>1 DEF Following
  <2>3. pos \in 2 .. LongestStream + 1
    BY <2>1, <2>2, GraphAssumption DEF Following
  <2>4. QED
    BY <1>1, <2>3, WriterTyped DEF Following, Typed
<1>3. PICK n \in Nat : n = Len(w.ids) /\ DOMAIN w.ids = 1 .. n
  BY <1>2, LenProperties
<1>4. n = Len(precedent)
  BY <1>1, <1>3 DEF Tracks
<1>5. precedent \in Seq(Ref) /\ DOMAIN precedent = 1 .. n
  BY <1>1, <1>4, LenProperties DEF IInv
<1>6. calls \in Seq(Calls) /\ \A k \in DOMAIN calls : calls[k].id \in 1 .. n
  BY <1>1, <1>4, CallFacts
<1>7. Fit(graph, w.ids, precedent, calls)
  BY <1>1, <1>3, <1>6 DEF Tracks, ReadSoFar, Fit
<1>8. ASSUME NEW j \in DOMAIN calls, NEW k \in DOMAIN calls, calls[j].id = calls[k].id
      PROVE  j = k
  <2>1. CallsSound(calls, Len(precedent), heap)
    BY <1>1, CallFacts
  <2>2. j \in Nat /\ k \in Nat
    BY <1>6, LenProperties
  <2>3. calls[j].id \in Nat
    BY <1>6
  <2>4. ~(j < k) /\ ~(k < j)
    BY <1>8, <2>1, <2>3 DEF CallsSound
  <2>5. QED
    BY <2>2, <2>4
<1>9. QED
  BY <1>1, <1>2, <1>3, <1>4, <1>5, <1>6, <1>7, <1>8 DEF Tracks, Meets

(* What an ID leads to.                                                      *)
LEMMA Entries ==
    ASSUME NEW w, Following(w), NEW k \in DOMAIN precedent
    PROVE  \/ precedent[k] = NIL
           \/ precedent[k] \in Symbols
           \/ precedent[k] \in Ptrs /\ heap[precedent[k]] # NoObject
<1>1. k \in DOMAIN w.ids
  BY FollowingFacts
<1>2. CASE \E j \in DOMAIN calls : calls[j].id = k
  <2>1. PICK j \in DOMAIN calls : calls[j].id = k
    BY <1>2
  <2>2. CallRead(graph, w.ids, precedent, heap, calls[j])
    BY FollowingFacts DEF ReadSoFar
  <2>3. calls[j] \in Calls
    BY FollowingFacts, LenProperties, ElementOfSeq
  <2>4. CASE calls[j].stage \in {"tags", "slots"}
    BY <2>1, <2>2, <2>4, HasEntry DEF CallRead
  <2>5. CASE calls[j].stage \in ClassStages
    <3>1. HolesMatch(precedent, calls)
      BY CallFacts DEF Following
    <3>2. QED
      BY <2>1, <2>5, <3>1 DEF HolesMatch
  <2>6. QED
    BY <2>3, <2>4, <2>5 DEF Calls, Stages, ClassStages
<1>3. CASE \A j \in DOMAIN calls : calls[j].id # k
  BY <1>1, <1>3, FollowingFacts, HasEntry DEF ReadSoFar, IsComplete
<1>4. QED
  BY <1>2, <1>3

(* What remains to be shown of a step.                                       *)
LEMMA StillFollowing ==
    ASSUME NEW w, Following(w), graph' = graph, stream' = stream, status' = "reading",
           pos' \in 2 .. Len(stream) + 1,
           Tracks(graph, Writing(graph)[pos'], precedent', heap', calls', value')
    PROVE  GraphInv'
  BY DEF Following, GraphInv, Deaths

(* The next token is the one that the writer writes next.                    *)
LEMMA TokenWritten ==
    ASSUME NEW w, Following(w), value = NoRef
    PROVE  \E rests : \E v \in Items(graph), behind \in Seq(Items(graph)) :
              /\ Nested(graph, w.ids, calls, rests)
              /\ v = Awaited(graph, w.ids, calls, Len(calls))
              /\ behind = Behind(graph, w.ids, calls, rests, Len(calls))
              /\ pos \in 2 .. Len(stream) /\ pos + 1 \in 2 .. Len(stream) + 1
              /\ stream[pos] = NextToken(graph.of, w) /\ v = Head(w.todo)
              /\ Writing(graph)[pos + 1] =
                    IF IsNew(w.ids, v) THEN Writer(Parts(graph.of[v]) \o behind, Append(w.ids, v))
                    ELSE Writer(behind, w.ids)
<1>1. PICK rests : Nested(graph, w.ids, calls, rests) /\ InStepWith(graph, w, calls, rests, precedent, value)
  BY FollowingFacts DEF Meets
<1>2. graph \in Graphs /\ stream = WrittenOf[graph].stream
  BY DEF Following
<1>3. /\ Awaited(graph, w.ids, calls, Len(calls)) \in Items(graph)
      /\ Behind(graph, w.ids, calls, rests, Len(calls)) \in Seq(Items(graph))
  <2>1. /\ w.ids \in Seq(Nodes) /\ calls \in Seq(Calls)
        /\ \A j \in DOMAIN calls : calls[j].id \in DOMAIN w.ids /\ CallFits(graph, w.ids, precedent, calls[j])
    BY FollowingFacts DEF Fit
  <2>2. QED
    BY <1>1, <1>2, <2>1, AwaitedTyped
<1>4. PICK v \in Items(graph) : v = Awaited(graph, w.ids, calls, Len(calls))
  BY <1>3
<1>5. PICK behind \in Seq(Items(graph)) : behind = Behind(graph, w.ids, calls, rests, Len(calls))
  BY <1>3
<1>6. w.todo = <<v>> \o behind
  BY <1>1, <1>4, <1>5 DEF InStepWith
<1>7. w.todo # << >> /\ Head(w.todo) = v /\ Tail(w.todo) = behind
  BY <1>6, FirstOf
<1>8. PICK l \in Nat \ {0} : l = Len(stream) /\ l + 1 \in 2 .. LongestStream + 1
  <2>1. /\ Len(WrittenOf[graph].stream) \in Nat \ {0}
        /\ Len(WrittenOf[graph].stream) + 1 \in 2 .. LongestStream + 1
    BY <1>2, StreamOfGraph
  <2>2. QED
    BY <1>2, <2>1
<1>9. PICK W : W = Writing(graph)
  OBVIOUS
<1>10. Ends(W, l + 1) /\ \A k \in 2 .. l : stream[k] = NextToken(graph.of, W[k])
  <2>1. Ends(W, Len(stream) + 1) /\ \A k \in 2 .. Len(stream) : stream[k] = NextToken(graph.of, W[k])
    BY <1>2, <1>9, StreamOfGraph
  <2>2. QED
    BY <1>8, <2>1
<1>11. pos \in 2 .. l + 1 /\ w = W[pos]
  BY <1>8, <1>9 DEF Following
<1>12. pos # l + 1
  BY <1>7, <1>10, <1>11 DEF Ends
<1>13. pos \in 2 .. l /\ pos + 1 \in 2 .. l + 1 /\ pos + 1 \in 3 .. LongestStream + 1 /\ (pos + 1) - 1 = pos
  BY <1>8, <1>11, <1>12, GraphAssumption
<1>14. W[pos + 1] = AfterToken(graph.of, w)
  <2>1. W[pos + 1] = Step(graph, W[(pos + 1) - 1])
    BY <1>2, <1>9, <1>13, WriterSteps
  <2>2. QED
    BY <1>7, <1>11, <1>13, <2>1 DEF Step
<1>15. W[pos + 1] = IF IsNew(w.ids, v) THEN Writer(Parts(graph.of[v]) \o behind, Append(w.ids, v))
                    ELSE Writer(behind, w.ids)
  BY <1>7, <1>14 DEF AfterToken
<1>16. stream[pos] = NextToken(graph.of, w)
  BY <1>10, <1>11, <1>13
<1>17. QED
  BY <1>1, <1>4, <1>5, <1>7, <1>8, <1>9, <1>13, <1>15, <1>16

-----------------------------------------------------------------------------
(* No ID leads to x yet. *)
Unused(prec, x) == x # NIL => \A k \in DOMAIN prec : prec[k] # x

(* The q-th ID was given to v, and leads to x. *)
Entered(ids, prec, q, v, x) ==
    DOMAIN ids = 1 .. q /\ DOMAIN prec = 1 .. q /\ q \in DOMAIN ids /\ ids[q] = v /\ prec[q] = x

(* v is given the next ID, q. *)
Enters(ids, prec, v, x, ids2, prec2, q) ==
    /\ ids \in Seq(Nodes) /\ prec \in Seq(Ref) /\ Len(ids) = Len(prec)
    /\ IsInjective(ids) /\ OneToOne(prec)
    /\ v \in Nodes /\ IsNew(ids, v) /\ x \in Ref /\ Unused(prec, x)
    /\ ids2 = Append(ids, v) /\ prec2 = Append(prec, x) /\ q = Len(ids) + 1

HasEntered(ids, prec, v, x, ids2, prec2, q) ==
    /\ ids2 \in Seq(Nodes) /\ Len(ids2) = Len(prec2) /\ Entered(ids2, prec2, q, v, x)
    /\ IsInjective(ids2) /\ OneToOne(prec2) /\ KeepsIds(ids, prec, ids2, prec2)

(* The next ID goes to an object that had none.                              *)
LEMMA NextId ==
    ASSUME NEW ids, NEW prec, NEW v, NEW x, NEW ids2, NEW prec2, NEW q,
           Enters(ids, prec, v, x, ids2, prec2, q)
    PROVE  HasEntered(ids, prec, v, x, ids2, prec2, q)
<1>0. /\ ids \in Seq(Nodes) /\ prec \in Seq(Ref) /\ Len(ids) = Len(prec)
      /\ IsInjective(ids) /\ OneToOne(prec)
      /\ v \in Nodes /\ IsNew(ids, v) /\ x \in Ref /\ Unused(prec, x)
      /\ ids2 = Append(ids, v) /\ prec2 = Append(prec, x) /\ q = Len(ids) + 1
  BY DEF Enters
<1> PICK n \in Nat : n = Len(ids) /\ n = Len(prec) /\ q = n + 1
  BY <1>0, LenProperties
<1>1. /\ n \in Nat /\ DOMAIN ids = 1 .. n /\ ids2 \in Seq(Nodes) /\ Len(ids2) = n + 1
      /\ DOMAIN ids2 = 1 .. n + 1 /\ \A k \in 1 .. n : ids2[k] = ids[k]
      /\ ids2[n + 1] = v
  <2>1. ids \in Seq(Nodes) /\ v \in Nodes /\ ids2 = Append(ids, v) /\ n = Len(ids)
    BY <1>0
  <2>2. QED
    BY ONLY <2>1, OneMore
<1>2. /\ DOMAIN prec = 1 .. n /\ Len(prec2) = n + 1
      /\ DOMAIN prec2 = 1 .. n + 1 /\ \A k \in 1 .. n : prec2[k] = prec[k]
      /\ prec2[n + 1] = x
  BY <1>0, OneMore
<1>3. \A k \in 1 .. n : ids[k] # v
  BY <1>0, <1>1 DEF IsNew, Contains
<1>4. \A j, k \in 1 .. n : ids[j] = ids[k] => j = k
  BY <1>0, <1>1 DEF IsInjective
<1>5. ASSUME NEW j \in 1 .. n + 1, NEW k \in 1 .. n + 1, ids2[j] = ids2[k]
      PROVE  j = k
  <2>1. CASE j \in 1 .. n /\ k \in 1 .. n
    BY <1>1, <1>4, <1>5, <2>1
  <2>2. CASE j = n + 1 \/ k = n + 1
    BY <1>1, <1>3, <1>5, <2>2
  <2>3. QED
    BY <1>1, <2>1, <2>2
<1>6. ASSUME NEW j \in 1 .. n + 1, NEW k \in 1 .. n + 1, prec2[j] = prec2[k], prec2[j] # NIL
      PROVE  j = k
  <2>1. CASE j \in 1 .. n /\ k \in 1 .. n
    BY <1>0, <1>2, <1>6, <2>1 DEF OneToOne
  <2>2. CASE j = n + 1 \/ k = n + 1
    BY <1>0, <1>2, <1>6, <2>2 DEF Unused
  <2>3. QED
    BY <1>1, <2>1, <2>2
<1>7. IsInjective(ids2) /\ OneToOne(prec2)
  BY <1>1, <1>2, <1>5, <1>6 DEF IsInjective, OneToOne
<1>8. KeepsIds(ids, prec, ids2, prec2)
  BY <1>1, <1>2 DEF KeepsIds
<1>9. Entered(ids2, prec2, q, v, x)
  <2>1. q \in 1 .. n + 1
    OBVIOUS
  <2>2. DOMAIN ids2 = 1 .. q /\ DOMAIN prec2 = 1 .. q /\ q \in DOMAIN ids2 /\ ids2[q] = v /\ prec2[q] = x
    BY <1>1, <1>2, <2>1
  <2>3. QED
    BY <2>2 DEF Entered
<1>10. Len(ids2) = Len(prec2)
  BY <1>1, <1>2
<1>11. QED
  BY <1>1, <1>7, <1>8, <1>9, <1>10 DEF HasEntered

(* A value that was read stands for what was written.                        *)
LEMMA ValueTracked ==
    ASSUME NEW w, Following(w), NEW rests, Nested(graph, w.ids, calls, rests),
           NEW v, v = Awaited(graph, w.ids, calls, Len(calls)),
           NEW behind, behind = Behind(graph, w.ids, calls, rests, Len(calls)),
           UNCHANGED <<precedent, heap, calls>>, value' # NoRef, Means(w.ids, precedent, value', v)
    PROVE  Tracks(graph, Writer(behind, w.ids), precedent', heap', calls', value')
<1>1. PICK w2 : w2 = Writer(behind, w.ids)
  OBVIOUS
<1>2. PICK ref : ref = value'
  OBVIOUS
<1>3. w2.ids = w.ids
  BY <1>1 DEF Writer
<1>4. Meets(graph, w2, calls, precedent, ref)
  <2>1. calls \in Seq(Calls) /\ \A j \in DOMAIN calls : w.ids[calls[j].id] = w.ids[calls[j].id]
    BY FollowingFacts
  <2>2. QED
    BY <1>1, <1>2, <2>1, MeetsKept
<1>5. QED
  BY <1>1, <1>2, <1>3, <1>4, FollowingFacts DEF Tracks, Meets

(* An object without parts was read. *)
LEMMA ObjectTracked ==
    ASSUME NEW w, Following(w), NEW rests, Nested(graph, w.ids, calls, rests),
           NEW v \in Nodes, v = Awaited(graph, w.ids, calls, Len(calls)), IsNew(w.ids, v),
           NEW behind, behind = Behind(graph, w.ids, calls, rests, Len(calls)),
           NEW x \in Ref, x # NIL, x # NoRef, Unused(precedent, x),
           precedent' = Append(precedent, x), calls' = calls, value' = x,
           \A p \in Ptrs : heap[p] # NoObject => heap'[p] = heap[p],
           NEW ids2, ids2 = Append(w.ids, v), IsComplete(graph, ids2, precedent', heap', Len(precedent) + 1)
    PROVE  Tracks(graph, Writer(behind, ids2), precedent', heap', calls', value')
<1>1. PICK w2 : w2 = Writer(behind, ids2)
  OBVIOUS
<1>2. PICK prec2 : prec2 = precedent' /\ prec2 = Append(precedent, x)
  OBVIOUS
<1>3. PICK n \in Nat : n = Len(w.ids) /\ n = Len(precedent) /\ DOMAIN w.ids = 1 .. n /\ DOMAIN precedent = 1 .. n
  BY FollowingFacts
<1>4. /\ w.ids \in Seq(Nodes) /\ precedent \in Seq(Ref) /\ IsInjective(w.ids) /\ OneToOne(precedent)
      /\ calls \in Seq(Calls) /\ ReadSoFar(graph, w.ids, precedent, heap, calls)
      /\ \A j \in DOMAIN calls : calls[j].id \in DOMAIN w.ids
  BY FollowingFacts DEF Fit
<1>6. PICK q : q = n + 1
  OBVIOUS
<1>5. /\ ids2 \in Seq(Nodes) /\ Len(ids2) = Len(prec2) /\ Entered(ids2, prec2, q, v, x)
      /\ IsInjective(ids2) /\ OneToOne(prec2) /\ KeepsIds(w.ids, precedent, ids2, prec2)
  <2>1. Enters(w.ids, precedent, v, x, ids2, prec2, q)
    BY <1>2, <1>3, <1>4, <1>6 DEF Enters
  <2>2. HasEntered(w.ids, precedent, v, x, ids2, prec2, q)
    BY ONLY <2>1, NextId
  <2>3. QED
    BY ONLY <2>2 DEF HasEntered
<1>7. PICK h2 : h2 = heap'
  OBVIOUS
<1>8. ReadSoFar(graph, ids2, prec2, h2, calls)
  <2>1. \A k \in DOMAIN ids2 : k \in DOMAIN w.ids \/ k = q
    BY <1>3, <1>5, <1>6 DEF Entered
  <2>2. \A j \in DOMAIN calls : calls[j].id # q
    BY <1>3, <1>4, <1>6
  <2>3. IsComplete(graph, ids2, prec2, h2, q)
    BY <1>2, <1>3, <1>6, <1>7
  <2>4. \A k \in DOMAIN w.ids : k # q /\ precedent[k] \in Ptrs /\ heap[precedent[k]] # NoObject =>
           h2[precedent[k]] = heap[precedent[k]]
    BY <1>7
  <2>5. /\ ReadSoFar(graph, w.ids, precedent, heap, calls) /\ KeepsIds(w.ids, precedent, ids2, prec2)
        /\ \A j \in DOMAIN calls : calls[j].id \in DOMAIN w.ids
    BY <1>4, <1>5
  <2>6. QED
    <3>1. OneChanges(graph, w.ids, precedent, heap, calls, ids2, prec2, h2, calls, q)
      BY <2>1, <2>2, <2>3, <2>4, <2>5 DEF OneChanges
    <3>2. QED
      BY ONLY <3>1, ReadSoFarKept
<1>9. Meets(graph, w2, calls, prec2, x)
  <2>1. \A j \in DOMAIN calls : ids2[calls[j].id] = w.ids[calls[j].id]
    BY <1>4, <1>5 DEF KeepsIds
  <2>2. Means(ids2, prec2, x, v)
    <3>1. q \in DOMAIN ids2 /\ ids2[q] = v /\ prec2[q] = x
      BY <1>5 DEF Entered
    <3>2. QED
      BY <3>1 DEF Means
  <2>3. QED
    BY <1>1, <1>4, <2>1, <2>2, MeetsKept
<1>10. w2.ids = ids2
  BY <1>1 DEF Writer
<1>11. QED
  BY <1>1, <1>2, <1>5, <1>7, <1>8, <1>9, <1>10 DEF Tracks, Meets

(* The writer goes on with the parts of an object.                           *)
Pushes(g, ids, ids2, cs, rests, c, prec, w) ==
    /\ g \in Graphs /\ ids2 \in Seq(Nodes) /\ cs \in Seq(Calls)
    /\ Nested(g, ids, cs, rests) /\ \A j \in DOMAIN cs : ids2[cs[j].id] = ids[cs[j].id]
    /\ Behind(g, ids, cs, rests, Len(cs)) \in Seq(Items(g))
    /\ c \in Calls /\ c.id \in DOMAIN ids2 /\ ids2[c.id] = Awaited(g, ids, cs, Len(cs))
    /\ CallFits(g, ids2, prec, c) /\ NextPart(g, ids2, c) = 1
    /\ w = Writer(PartsOf(g, ids2, c) \o Behind(g, ids, cs, rests, Len(cs)), ids2)

(* The new activation awaits the first part of the object.                   *)
LEMMA Pushed ==
    ASSUME NEW g, NEW ids, NEW ids2, NEW cs, NEW rests, NEW c, NEW prec, NEW w,
           Pushes(g, ids, ids2, cs, rests, c, prec, w), NEW cs2, cs2 = Append(cs, c)
    PROVE  Meets(g, w, cs2, prec, NoRef)
<1>1. /\ g \in Graphs /\ ids2 \in Seq(Nodes) /\ cs \in Seq(Calls)
      /\ Nested(g, ids, cs, rests) /\ \A j \in DOMAIN cs : ids2[cs[j].id] = ids[cs[j].id]
      /\ Behind(g, ids, cs, rests, Len(cs)) \in Seq(Items(g))
      /\ c \in Calls /\ c.id \in DOMAIN ids2 /\ ids2[c.id] = Awaited(g, ids, cs, Len(cs))
      /\ CallFits(g, ids2, prec, c) /\ NextPart(g, ids2, c) = 1
      /\ w = Writer(PartsOf(g, ids2, c) \o Behind(g, ids, cs, rests, Len(cs)), ids2)
  BY DEF Pushes
<1>2. cs2 = Append(cs, c)
  OBVIOUS
<1>3. QED
  BY ONLY <1>1, <1>2, MeetsPushed

(* An object whose parts are to be read next.                                *)
LEMMA CallTracked ==
    ASSUME NEW w, Following(w), NEW rests, Nested(graph, w.ids, calls, rests),
           NEW v \in Nodes, v = Awaited(graph, w.ids, calls, Len(calls)), IsNew(w.ids, v),
           NEW behind \in Seq(Items(graph)), behind = Behind(graph, w.ids, calls, rests, Len(calls)),
           NEW x \in Ref, Unused(precedent, x), precedent' = Append(precedent, x),
           NEW c \in Calls, c.id = Len(precedent) + 1, calls' = Append(calls, c), value' = NoRef,
           \A p \in Ptrs : heap[p] # NoObject => heap'[p] = heap[p],
           NEW ids2, ids2 = Append(w.ids, v),
           CallFits(graph, ids2, precedent', c), CallRead(graph, ids2, precedent', heap', c),
           NextPart(graph, ids2, c) = 1
    PROVE  Tracks(graph, Writer(Parts(graph.of[v]) \o behind, ids2), precedent', heap', calls', value')
<1>1. PICK w2 : w2 = Writer(Parts(graph.of[v]) \o behind, ids2)
  OBVIOUS
<1>2. PICK prec2 : prec2 = precedent' /\ prec2 = Append(precedent, x)
  OBVIOUS
<1>3. PICK n \in Nat : n = Len(w.ids) /\ n = Len(precedent) /\ DOMAIN w.ids = 1 .. n /\ DOMAIN precedent = 1 .. n
  BY FollowingFacts
<1>4. /\ w.ids \in Seq(Nodes) /\ precedent \in Seq(Ref) /\ IsInjective(w.ids) /\ OneToOne(precedent)
      /\ calls \in Seq(Calls) /\ ReadSoFar(graph, w.ids, precedent, heap, calls)
      /\ \A j \in DOMAIN calls : calls[j].id \in DOMAIN w.ids
  BY FollowingFacts DEF Fit
<1>5. PICK q : q = n + 1
  OBVIOUS
<1>6. /\ ids2 \in Seq(Nodes) /\ Len(ids2) = Len(prec2) /\ Entered(ids2, prec2, q, v, x)
      /\ IsInjective(ids2) /\ OneToOne(prec2) /\ KeepsIds(w.ids, precedent, ids2, prec2)
  <2>1. Enters(w.ids, precedent, v, x, ids2, prec2, q)
    BY <1>2, <1>3, <1>4, <1>5 DEF Enters
  <2>2. HasEntered(w.ids, precedent, v, x, ids2, prec2, q)
    BY ONLY <2>1, NextId
  <2>3. QED
    BY ONLY <2>2 DEF HasEntered
<1>7. PICK h2 : h2 = heap'
  OBVIOUS
<1>8. PICK cs2 : cs2 = calls' /\ cs2 = Append(calls, c)
  OBVIOUS
<1>9. PICK m \in Nat : m = Len(calls) /\ DOMAIN calls = 1 .. m
  BY <1>4, LenProperties
<1>10. /\ DOMAIN cs2 = 1 .. m + 1 /\ \A j \in 1 .. m : cs2[j] = calls[j]
       /\ cs2[m + 1] = c
  <2>1. calls \in Seq(Calls) /\ c \in Calls /\ cs2 = Append(calls, c) /\ m = Len(calls)
    BY <1>4, <1>8, <1>9
  <2>2. QED
    BY ONLY <2>1, OneMore
<1>11. c.id = q /\ \A j \in DOMAIN calls : calls[j].id # q
  BY <1>3, <1>4, <1>5
<1>12. ReadSoFar(graph, ids2, prec2, h2, cs2)
  <2>1. \A k \in DOMAIN ids2 : k \in DOMAIN w.ids \/ k = q
    BY <1>3, <1>5, <1>6 DEF Entered
  <2>2. \A j \in DOMAIN cs2 : (j \in DOMAIN calls /\ cs2[j] = calls[j]) \/ cs2[j] = c
    BY <1>9, <1>10
  <2>3. \A j \in DOMAIN cs2 : cs2[j].id # q => \E i \in DOMAIN calls : cs2[j] = calls[i]
    BY <1>11, <2>2
  <2>4. \A j \in DOMAIN calls : j \in DOMAIN cs2 /\ cs2[j] = calls[j]
    BY <1>9, <1>10
  <2>5. \A j \in DOMAIN calls : calls[j].id # q => \E i \in DOMAIN cs2 : calls[j] = cs2[i]
    BY <2>4
  <2>6. CallFits(graph, ids2, prec2, c) /\ CallRead(graph, ids2, prec2, h2, c)
    BY <1>2, <1>7
  <2>7. \A j \in DOMAIN cs2 : cs2[j].id = q =>
           CallFits(graph, ids2, prec2, cs2[j]) /\ CallRead(graph, ids2, prec2, h2, cs2[j])
    BY <1>11, <2>2, <2>6
  <2>8. \E j \in DOMAIN cs2 : cs2[j].id = q
    <3>1. m + 1 \in 1 .. m + 1
      OBVIOUS
    <3>2. m + 1 \in DOMAIN cs2 /\ cs2[m + 1].id = q
      BY <1>10, <1>11, <3>1
    <3>3. QED
      BY <3>2
  <2>9. q \in DOMAIN ids2 /\ (\A j \in DOMAIN cs2 : cs2[j].id # q) => IsComplete(graph, ids2, prec2, h2, q)
    BY <2>8
  <2>10. \A k \in DOMAIN w.ids : k # q /\ precedent[k] \in Ptrs /\ heap[precedent[k]] # NoObject =>
           h2[precedent[k]] = heap[precedent[k]]
    BY <1>7
  <2>11. /\ ReadSoFar(graph, w.ids, precedent, heap, calls) /\ KeepsIds(w.ids, precedent, ids2, prec2)
         /\ \A j \in DOMAIN calls : calls[j].id \in DOMAIN w.ids
    BY <1>4, <1>6
  <2>12. QED
    <3>1. OneChanges(graph, w.ids, precedent, heap, calls, ids2, prec2, h2, cs2, q)
      BY <2>1, <2>3, <2>5, <2>7, <2>9, <2>10, <2>11 DEF OneChanges
    <3>2. QED
      BY ONLY <3>1, ReadSoFarKept
<1>13. Meets(graph, w2, cs2, prec2, NoRef)
  <2>1. \A j \in DOMAIN calls : ids2[calls[j].id] = w.ids[calls[j].id]
    BY <1>4, <1>6 DEF KeepsIds
  <2>2. c.id \in DOMAIN ids2 /\ ids2[c.id] = v
    BY <1>6, <1>11 DEF Entered
  <2>3. PartsOf(graph, ids2, c) = Parts(graph.of[v])
    BY <2>2 DEF PartsOf
  <2>4. graph \in Graphs
    BY DEF Following
  <2>5. /\ ids2 \in Seq(Nodes) /\ calls \in Seq(Calls)
        /\ Nested(graph, w.ids, calls, rests) /\ behind \in Seq(Items(graph))
        /\ behind = Behind(graph, w.ids, calls, rests, Len(calls)) /\ c \in Calls
        /\ v = Awaited(graph, w.ids, calls, Len(calls)) /\ CallFits(graph, ids2, prec2, c)
        /\ NextPart(graph, ids2, c) = 1 /\ w2 = Writer(Parts(graph.of[v]) \o behind, ids2)
        /\ cs2 = Append(calls, c)
    BY <1>1, <1>2, <1>4, <1>6, <1>8
  <2>6. QED
    <3>1. Pushes(graph, w.ids, ids2, calls, rests, c, prec2, w2)
      BY <2>1, <2>2, <2>3, <2>4, <2>5 DEF Pushes
    <3>2. QED
      BY ONLY <3>1, <1>8, Pushed
<1>14. w2.ids = ids2
  BY <1>1 DEF Writer
<1>15. QED
  BY <1>1, <1>2, <1>6, <1>7, <1>8, <1>12, <1>13, <1>14 DEF Tracks, Meets

-----------------------------------------------------------------------------
(* The token tells what is written: an integer, an object, or its ID.        *)
LEMMA TokenCases ==
    ASSUME NEW g \in Graphs, NEW w, NEW v, v = Head(w.todo), NEW token, token = NextToken(g.of, w)
    PROVE  /\ v \notin Nodes => token.tag = "immediate" /\ token.val = (v * 4) % Word
           /\ IsNew(w.ids, v) =>
                 /\ v \in Nodes /\ token.tag = g.of[v].kind /\ token.tag \in ObjectTags
                 /\ token.val = IF g.of[v].kind = "symbol" THEN g.of[v].name ELSE Len(g.of[v].parts)
           /\ v \in Nodes /\ ~IsNew(w.ids, v) =>
                 token.tag = "precedent" /\ token.val = IdOf(w.ids, v) - 1
<1>1. CASE v \notin Nodes
  <2>1. ~IsNew(w.ids, v)
    BY <1>1 DEF IsNew
  <2>2. QED
    BY <1>1, <2>1 DEF NextToken, Token
<1>2. CASE IsNew(w.ids, v)
  <2>1. v \in Nodes
    BY <1>2 DEF IsNew
  <2>2. IsSource(g, g.of[v])
    BY <2>1, GraphAssumption DEF IsGraph
  <2>3. QED
    BY <1>2, <2>1, <2>2 DEF NextToken, Token, IsSource
<1>3. CASE v \in Nodes /\ ~IsNew(w.ids, v)
  BY <1>3 DEF NextToken, Token
<1>4. QED
  BY <1>1, <1>2, <1>3

(* An integer that is not negative is read as what was written.              *)
LEMMA IntegerRead ==
    ASSUME NEW g \in Graphs, NoneNegative(g), NEW v \in Items(g), v \notin Nodes
    PROVE  StreamImmediate((v * 4) % Word) = v * 4 + 1
<1>1. v \in IntegersOf(g)
  BY DEF Items
<1>2. v \in Int
  <2>1. g.root \in Nodes \cup Int /\ \A n \in Nodes : IsSource(g, g.of[n])
    BY GraphAssumption DEF IsGraph
  <2>2. CASE v = g.root
    BY <2>1, <2>2
  <2>3. CASE v # g.root
    <3>1. PICK n \in Nodes : v \in Range(g.of[n].parts)
      BY <1>1, <2>3 DEF IntegersOf
    <3>2. PICK s \in Seq(Nodes \cup Int) : s = g.of[n].parts
      BY <2>1 DEF IsSource
    <3>3. PICK i \in DOMAIN s : v = s[i]
      BY <3>1, <3>2 DEF Range
    <3>4. v \in Nodes \cup Int
      BY <3>2, <3>3, LenProperties, ElementOfSeq
    <3>5. QED
      BY <3>4
  <2>4. QED
    BY <2>2, <2>3
<1>3. 0 <= v /\ v * 4 < Word /\ Word \in Nat \ {0}
  BY <1>1, GraphAssumption DEF NoneNegative
<1>4. PICK u \in Nat : u = v * 4
  BY <1>2, <1>3
<1>5. u % Word = u
  BY <1>3, <1>4
<1>6. (u \div 2) % 2 = 0 /\ u % 2 = 0
  BY <1>2, <1>3, <1>4
<1>7. QED
  BY <1>4, <1>5, <1>6 DEF StreamImmediate

(* An object that is entered next. *)
EnteredNext(w, v, x, q, ids2, prec2) ==
    /\ v \in Nodes /\ x \in Ref /\ q = Len(precedent) + 1
    /\ ids2 = Append(w.ids, v) /\ prec2 = Append(precedent, x)

(* The ID that is next leads to it.                                          *)
LEMMA EntryIs ==
    ASSUME NEW w, Following(w), NEW v, NEW x, NEW q, NEW ids2, NEW prec2,
           EnteredNext(w, v, x, q, ids2, prec2)
    PROVE  ids2[q] = v /\ prec2[q] = x
<1> /\ v \in Nodes /\ x \in Ref /\ q = Len(precedent) + 1
    /\ ids2 = Append(w.ids, v) /\ prec2 = Append(precedent, x)
  BY DEF EnteredNext
<1>1. PICK n \in Nat : n = Len(w.ids) /\ n = Len(precedent)
  BY FollowingFacts
<1>2. w.ids \in Seq(Nodes) /\ precedent \in Seq(Ref)
  BY FollowingFacts
<1>3. ids2[n + 1] = v
  <2>1. w.ids \in Seq(Nodes) /\ v \in Nodes /\ ids2 = Append(w.ids, v) /\ n = Len(w.ids)
    BY <1>1, <1>2
  <2>2. QED
    BY ONLY <2>1, OneMore
<1>5. prec2[n + 1] = x
  <2>1. precedent \in Seq(Ref) /\ x \in Ref /\ prec2 = Append(precedent, x) /\ n = Len(precedent)
    BY <1>1, <1>2
  <2>2. QED
    BY ONLY <2>1, OneMore
<1>4. QED
  BY <1>1, <1>3, <1>5

(* A new address is nobody's ID yet. *)
LEMMA FreshUnused ==
    ASSUME NEW w, Following(w), NEW p \in Ptrs, heap[p] = NoObject
    PROVE  Unused(precedent, p) /\ p \in Ref /\ p # NIL /\ p # NoRef
<1>1. p \in Ref /\ p # NIL /\ p # NoRef
  BY RefAssumption, StreamAssumption DEF Ref
<1>2. \A k \in DOMAIN precedent : precedent[k] # p
  BY Entries, RefAssumption
<1>3. QED
  BY <1>1, <1>2 DEF Unused

(* The object that an activation reads.                                      *)
LEMMA ObjectOfCall ==
    ASSUME NEW w, Following(w), NEW j \in DOMAIN calls, NEW c, c = calls[j]
    PROVE  /\ c \in Calls /\ c.id \in DOMAIN w.ids /\ c.id \in DOMAIN precedent
           /\ w.ids[c.id] \in Nodes /\ graph \in Graphs
           /\ IsSource(graph, graph.of[w.ids[c.id]])
           /\ CallFits(graph, w.ids, precedent, c) /\ CallRead(graph, w.ids, precedent, heap, c)
           /\ graph.of[w.ids[c.id]].kind # "symbol"
<1>1. c \in Calls
  BY FollowingFacts, LenProperties, ElementOfSeq
<1>2. c.id \in DOMAIN w.ids /\ CallFits(graph, w.ids, precedent, c) /\ w.ids \in Seq(Nodes)
  BY FollowingFacts DEF Fit
<1>3. CallRead(graph, w.ids, precedent, heap, c)
  BY FollowingFacts DEF ReadSoFar
<1>4. w.ids[c.id] \in Nodes
  BY <1>2, LenProperties, ElementOfSeq
<1>5. graph \in Graphs /\ IsSource(graph, graph.of[w.ids[c.id]])
  BY <1>4, GraphAssumption DEF Following, IsGraph
<1>6. c.id \in DOMAIN precedent
  BY <1>2, FollowingFacts
<1>7. graph.of[w.ids[c.id]].kind # "symbol"
  BY <1>1, <1>2 DEF CallFits, Calls, Stages
<1>8. QED
  BY <1>1, <1>2, <1>3, <1>4, <1>5, <1>6, <1>7

(* A class and a tag is a symbol,                                            *)
LEMMA SymbolAwaited ==
    ASSUME NEW w, Following(w), NEW j \in DOMAIN calls,
           calls[j].stage \in ClassStages \cup {"tags"}
    PROVE  IsSymbolNode(graph, Awaited(graph, w.ids, calls, j))
<1>1. PICK c : c = calls[j]
  OBVIOUS
<1>2. /\ c \in Calls /\ w.ids[c.id] \in Nodes /\ graph \in Graphs
      /\ IsSource(graph, graph.of[w.ids[c.id]]) /\ CallFits(graph, w.ids, precedent, c)
  BY <1>1, ObjectOfCall
<1>3. PICK object : object = graph.of[w.ids[c.id]]
  OBVIOUS
<1>4. PICK parts : parts = Parts(object)
  OBVIOUS
<1>5. PICK l \in Nat, n \in Nat : PartsAre(graph, object, parts, l, n)
  BY <1>2, <1>3, <1>4, PartsOfSource
<1>6. PICK i \in Nat : i = c.i
  BY <1>2 DEF Calls
<1>7. PartsOf(graph, w.ids, c) = parts
  BY <1>3, <1>4 DEF PartsOf
<1>8. NextPart(graph, w.ids, c) = i + 1
  BY <1>1, <1>6 DEF NextPart, ClassStages
<1>9. Awaited(graph, w.ids, calls, j) = parts[i + 1]
  <2>1. j # 0
    BY FollowingFacts, LenProperties
  <2>2. QED
    BY <1>1, <1>7, <1>8, <2>1 DEF Awaited
<1>10. CASE c.stage \in ClassStages
  <2>1. object.kind \in {"binary", "array"} /\ i = 0
    BY <1>2, <1>3, <1>6, <1>10 DEF CallFits, ClassStages
  <2>2. parts[i + 1] = object.class
    BY <1>5, <2>1 DEF PartsAre
  <2>3. IsSymbolNode(graph, object.class)
    BY <1>2, <1>3, <2>1 DEF IsSource
  <2>4. QED
    BY <1>9, <2>2, <2>3
<1>11. CASE c.stage = "tags"
  <2>1. object.kind = "frame" /\ i < n
    BY <1>2, <1>3, <1>5, <1>6, <1>11 DEF CallFits, PartsAre
  <2>2. i + 1 \in 1 .. n
    BY <2>1
  <2>3. parts[i + 1] = object.tags[i + 1]
    BY <1>5, <2>1, <2>2 DEF PartsAre
  <2>4. i + 1 \in DOMAIN object.tags
    <3>1. PICK s \in Seq(Nodes) : s = object.tags
      BY <1>2, <1>3 DEF IsSource
    <3>2. Len(s) = n
      BY <1>5, <2>1, <3>1 DEF PartsAre
    <3>3. QED
      BY <2>2, <3>1, <3>2, LenProperties
  <2>5. IsSymbolNode(graph, object.tags[i + 1])
    BY <1>2, <1>3, <2>1, <2>4 DEF IsSource
  <2>6. QED
    BY <1>9, <2>3, <2>5
<1>12. QED
  BY <1>1, <1>10, <1>11

(* so what waits for it is the innermost activation.                         *)
LEMMA AwaitsInnermost ==
    ASSUME NEW w, Following(w), NEW rests, Nested(graph, w.ids, calls, rests),
           NEW j \in DOMAIN calls, IsSymbolNode(graph, Awaited(graph, w.ids, calls, j))
    PROVE  j = Len(calls)
<1>1. PICK m \in Nat : m = Len(calls) /\ DOMAIN calls = 1 .. m
  BY FollowingFacts, LenProperties
<1>2. SUFFICES ASSUME j # m
               PROVE  FALSE
  BY <1>1
<1>3. PICK i : i \in DOMAIN calls /\ i - 1 = j
  <2>1. j + 1 \in 1 .. m /\ (j + 1) - 1 = j
    BY <1>1, <1>2
  <2>2. QED
    BY <1>1, <2>1
<1>4. w.ids[calls[i].id] = Awaited(graph, w.ids, calls, j)
  BY <1>3 DEF Nested
<1>5. graph.of[w.ids[calls[i].id]].kind # "symbol"
  BY <1>3, ObjectOfCall
<1>6. QED
  BY <1>4, <1>5 DEF IsSymbolNode

(* So an object whose ID is written has been made.                           *)
LEMMA AwaitedIsMade ==
    ASSUME NEW w, Following(w), NEW rests, Nested(graph, w.ids, calls, rests),
           NEW k \in DOMAIN w.ids, w.ids[k] = Awaited(graph, w.ids, calls, Len(calls))
    PROVE  precedent[k] # NIL
<1>1. SUFFICES ASSUME precedent[k] = NIL
               PROVE  FALSE
  OBVIOUS
<1>2. k \in DOMAIN precedent
  BY FollowingFacts
<1>3. PICK j \in DOMAIN calls : calls[j].stage \in ClassStages /\ calls[j].id = k
  BY <1>1, <1>2, CallFacts DEF Following, HolesMatch
<1>4. IsSymbolNode(graph, Awaited(graph, w.ids, calls, j))
  BY <1>3, SymbolAwaited
<1>5. j = Len(calls)
  BY <1>4, AwaitsInnermost
<1>6. graph.of[w.ids[k]].kind # "symbol"
  BY <1>3, ObjectOfCall
<1>7. QED
  BY <1>4, <1>5, <1>6 DEF IsSymbolNode

-----------------------------------------------------------------------------
(* The value is that of what is awaited. *)
LEMMA ValueAwaited ==
    ASSUME NEW w, Following(w), value # NoRef
    PROVE  \E rests :
              /\ Nested(graph, w.ids, calls, rests)
              /\ w.todo = Behind(graph, w.ids, calls, rests, Len(calls))
              /\ Means(w.ids, precedent, value, Awaited(graph, w.ids, calls, Len(calls)))
  BY FollowingFacts DEF Meets, InStepWith

(* All objects but the q-th stay. *)
OthersStay(q) ==
    \A k \in DOMAIN precedent :
        k # q /\ precedent[k] \in Ptrs /\ heap[precedent[k]] # NoObject =>
            heap'[precedent[k]] = heap[precedent[k]]

(* The innermost activation returns its object.                              *)
LEMMA CallEnds ==
    ASSUME NEW w, Following(w), NEW stage, Waiting(stage), NEW q, q = Top.id,
           Len(precedent') = Len(precedent), OneToOne(precedent'),
           KeepsIds(w.ids, precedent, w.ids, precedent'), OthersStay(q),
           calls' = Returns, value' # NoRef, value' # NIL, precedent'[q] = value',
           IsComplete(graph, w.ids, precedent', heap', q),
           NextPart(graph, w.ids, Top) = Len(PartsOf(graph, w.ids, Top))
    PROVE  Tracks(graph, w, precedent', heap', calls', value')
<1>1. PICK rests : /\ Nested(graph, w.ids, calls, rests)
                   /\ w.todo = Behind(graph, w.ids, calls, rests, Len(calls))
  BY ValueAwaited DEF Waiting
<1>2. PICK m \in Nat \ {0} : m = Len(calls) /\ DOMAIN calls = 1 .. m /\ Top = calls[m] /\ calls # << >>
  BY WaitingFacts, LenProperties DEF Following
<1>3. PICK top : top = Top
  OBVIOUS
<1>4. /\ top \in Calls /\ q \in DOMAIN w.ids /\ w.ids[q] \in Nodes /\ graph \in Graphs
      /\ CallFits(graph, w.ids, precedent, top)
  BY <1>2, <1>3, ObjectOfCall
<1>5. /\ calls \in Seq(Calls) /\ w.ids \in Seq(Nodes) /\ IsInjective(w.ids)
      /\ Len(w.ids) = Len(precedent') /\ ReadSoFar(graph, w.ids, precedent, heap, calls)
      /\ DOMAIN w.ids = DOMAIN precedent
      /\ \A j \in DOMAIN calls : calls[j].id \in DOMAIN w.ids
      /\ \A j, k \in DOMAIN calls : calls[j].id = calls[k].id => j = k
  BY FollowingFacts DEF Fit
<1>6. PICK cs2 : cs2 = calls' /\ cs2 = SubSeq(calls, 1, m - 1)
  BY <1>2 DEF Returns
<1>7. DOMAIN cs2 = 1 .. m - 1 /\ \A k \in 1 .. m - 1 : cs2[k] = calls[k]
  <2>1. calls \in Seq(Calls) /\ m = Len(calls) /\ m # 0 /\ cs2 = SubSeq(calls, 1, m - 1)
    BY <1>2, <1>5, <1>6
  <2>2. QED
    BY ONLY <2>1, OneLess
<1>8. \A j \in DOMAIN cs2 : j \in DOMAIN calls /\ cs2[j] = calls[j] /\ cs2[j].id # q
  <2>1. \A j \in 1 .. m - 1 : j \in 1 .. m /\ j # m /\ m \in 1 .. m
    BY <1>2
  <2>2. QED
    BY <1>2, <1>5, <1>7, <2>1
<1>9. \A j \in DOMAIN calls : calls[j].id # q => j \in DOMAIN cs2 /\ cs2[j] = calls[j]
  <2>1. \A j \in 1 .. m : j # m => j \in 1 .. m - 1
    BY <1>2
  <2>2. QED
    BY <1>2, <1>7, <2>1
<1>10. PICK prec2, h2, x : prec2 = precedent' /\ h2 = heap' /\ x = value'
  OBVIOUS
<1>11. ReadSoFar(graph, w.ids, prec2, h2, cs2)
  <2>1. \A j \in DOMAIN cs2 : cs2[j].id # q => \E i \in DOMAIN calls : cs2[j] = calls[i]
    BY <1>8
  <2>2. \A j \in DOMAIN calls : calls[j].id # q => \E i \in DOMAIN cs2 : calls[j] = cs2[i]
    BY <1>9
  <2>3. \A k \in DOMAIN w.ids : k # q /\ precedent[k] \in Ptrs /\ heap[precedent[k]] # NoObject =>
           h2[precedent[k]] = heap[precedent[k]]
    BY <1>5, <1>10 DEF OthersStay
  <2>4. IsComplete(graph, w.ids, prec2, h2, q) /\ KeepsIds(w.ids, precedent, w.ids, prec2)
    BY <1>10
  <2>5. OneChanges(graph, w.ids, precedent, heap, calls, w.ids, prec2, h2, cs2, q)
    BY <1>5, <1>8, <2>1, <2>2, <2>3, <2>4 DEF OneChanges
  <2>6. QED
    BY ONLY <2>5, ReadSoFarKept
<1>12. Meets(graph, w, cs2, prec2, x)
  <2>1. Means(w.ids, prec2, x, w.ids[q])
    BY <1>4, <1>10 DEF Means
  <2>2. /\ calls \in Seq(Calls) /\ calls # << >> /\ top \in Calls /\ w.ids \in Seq(Nodes)
        /\ Nested(graph, w.ids, calls, rests) /\ w.todo = Behind(graph, w.ids, calls, rests, Len(calls))
        /\ graph \in Graphs /\ CallFits(graph, w.ids, precedent, top) /\ top = calls[Len(calls)]
        /\ q = top.id /\ q \in DOMAIN w.ids /\ x # NoRef
        /\ NextPart(graph, w.ids, top) = Len(PartsOf(graph, w.ids, top))
        /\ cs2 = SubSeq(calls, 1, Len(calls) - 1)
    BY <1>1, <1>2, <1>3, <1>4, <1>5, <1>6, <1>10
  <2>3. QED
    BY ONLY <2>1, <2>2, MeetsPopped
<1>13. QED
  BY <1>5, <1>6, <1>10, <1>11, <1>12 DEF Tracks, Meets

(* The innermost activation waits for the next part.                         *)
LEMMA CallGoesOn ==
    ASSUME NEW w, Following(w), NEW stage, Waiting(stage), NEW q, q = Top.id,
           Len(precedent') = Len(precedent), OneToOne(precedent'),
           KeepsIds(w.ids, precedent, w.ids, precedent'), OthersStay(q),
           NEW c \in Calls, c.id = q, calls' = Replaced(c), value' = NoRef,
           CallFits(graph, w.ids, precedent', c), CallRead(graph, w.ids, precedent', heap', c),
           NextPart(graph, w.ids, c) = NextPart(graph, w.ids, Top) + 1
    PROVE  Tracks(graph, w, precedent', heap', calls', value')
<1>1. PICK rests : /\ Nested(graph, w.ids, calls, rests)
                   /\ w.todo = Behind(graph, w.ids, calls, rests, Len(calls))
  BY ValueAwaited DEF Waiting
<1>2. PICK m \in Nat \ {0} : m = Len(calls) /\ DOMAIN calls = 1 .. m /\ Top = calls[m] /\ calls # << >>
  BY WaitingFacts, LenProperties DEF Following
<1>3. PICK top : top = Top
  OBVIOUS
<1>4. /\ top \in Calls /\ q \in DOMAIN w.ids /\ w.ids[q] \in Nodes /\ graph \in Graphs
      /\ CallFits(graph, w.ids, precedent, top)
  BY <1>2, <1>3, ObjectOfCall
<1>5. /\ calls \in Seq(Calls) /\ w.ids \in Seq(Nodes) /\ IsInjective(w.ids)
      /\ Len(w.ids) = Len(precedent') /\ ReadSoFar(graph, w.ids, precedent, heap, calls)
      /\ DOMAIN w.ids = DOMAIN precedent
      /\ \A j \in DOMAIN calls : calls[j].id \in DOMAIN w.ids
      /\ \A j, k \in DOMAIN calls : calls[j].id = calls[k].id => j = k
  BY FollowingFacts DEF Fit
<1>6. PICK cs2 : cs2 = calls' /\ cs2 = Append(SubSeq(calls, 1, m - 1), c)
  BY <1>2 DEF Returns, Replaced
<1>7. DOMAIN cs2 = 1 .. m /\ cs2[m] = c /\ \A k \in 1 .. m - 1 : cs2[k] = calls[k]
  <2>1. PICK shorter : shorter = SubSeq(calls, 1, m - 1)
    OBVIOUS
  <2>2. PICK l \in Nat : l = m - 1 /\ l + 1 = m
    BY <1>2
  <2>3. shorter \in Seq(Calls) /\ Len(shorter) = l /\ \A k \in 1 .. l : shorter[k] = calls[k]
    <3>1. calls \in Seq(Calls) /\ m = Len(calls) /\ m # 0 /\ shorter = SubSeq(calls, 1, m - 1)
      BY <1>2, <1>5, <2>1
    <3>2. shorter \in Seq(Calls) /\ Len(shorter) = m - 1 /\ \A k \in 1 .. m - 1 : shorter[k] = calls[k]
      BY ONLY <3>1, OneLess
    <3>3. QED
      BY <2>2, <3>2
  <2>4. DOMAIN cs2 = 1 .. l + 1 /\ cs2[l + 1] = c /\ \A k \in 1 .. l : cs2[k] = shorter[k]
    <3>1. shorter \in Seq(Calls) /\ c \in Calls /\ l = Len(shorter) /\ cs2 = Append(shorter, c)
      BY <1>6, <2>1, <2>3
    <3>2. QED
      BY ONLY <3>1, OneMore
  <2>5. QED
    BY <2>2, <2>3, <2>4
<1>8. \A j \in DOMAIN cs2 : j = m \/ (j \in DOMAIN calls /\ cs2[j] = calls[j] /\ cs2[j].id # q)
  <2>1. \A j \in 1 .. m : j # m => j \in 1 .. m - 1
    BY <1>2
  <2>2. m \in 1 .. m
    BY <1>2
  <2>3. QED
    BY <1>2, <1>5, <1>7, <2>1, <2>2
<1>9. \A j \in DOMAIN calls : calls[j].id # q => j \in DOMAIN cs2 /\ cs2[j] = calls[j]
  <2>1. \A j \in 1 .. m : j # m => j \in 1 .. m - 1
    BY <1>2
  <2>2. QED
    BY <1>2, <1>7, <2>1
<1>10. PICK prec2, h2, x : prec2 = precedent' /\ h2 = heap' /\ x = value'
  OBVIOUS
<1>11. ReadSoFar(graph, w.ids, prec2, h2, cs2)
  <2>1. \A j \in DOMAIN cs2 : cs2[j].id # q => \E i \in DOMAIN calls : cs2[j] = calls[i]
    BY <1>7, <1>8
  <2>2. \A j \in DOMAIN calls : calls[j].id # q => \E i \in DOMAIN cs2 : calls[j] = cs2[i]
    BY <1>9
  <2>3. \A k \in DOMAIN w.ids : k # q /\ precedent[k] \in Ptrs /\ heap[precedent[k]] # NoObject =>
           h2[precedent[k]] = heap[precedent[k]]
    BY <1>5, <1>10 DEF OthersStay
  <2>4. CallFits(graph, w.ids, prec2, c) /\ CallRead(graph, w.ids, prec2, h2, c)
    BY <1>10
  <2>5. \A j \in DOMAIN cs2 : cs2[j].id = q =>
           CallFits(graph, w.ids, prec2, cs2[j]) /\ CallRead(graph, w.ids, prec2, h2, cs2[j])
    BY <1>7, <1>8, <2>4
  <2>6. m \in DOMAIN cs2 /\ cs2[m].id = q
    BY <1>2, <1>7
  <2>7. q \in DOMAIN w.ids /\ (\A j \in DOMAIN cs2 : cs2[j].id # q) => IsComplete(graph, w.ids, prec2, h2, q)
    BY <2>6
  <2>8. KeepsIds(w.ids, precedent, w.ids, prec2)
    BY <1>10
  <2>9. OneChanges(graph, w.ids, precedent, heap, calls, w.ids, prec2, h2, cs2, q)
    BY <1>5, <2>1, <2>2, <2>3, <2>5, <2>7, <2>8 DEF OneChanges
  <2>10. QED
    BY ONLY <2>9, ReadSoFarKept
<1>12. Meets(graph, w, cs2, prec2, NoRef)
  <2>1. /\ calls \in Seq(Calls) /\ calls # << >> /\ top \in Calls /\ w.ids \in Seq(Nodes)
        /\ Nested(graph, w.ids, calls, rests) /\ w.todo = Behind(graph, w.ids, calls, rests, Len(calls))
        /\ graph \in Graphs /\ CallFits(graph, w.ids, precedent, top) /\ top = calls[Len(calls)]
        /\ top.id \in DOMAIN w.ids /\ c \in Calls /\ c.id = top.id
        /\ CallFits(graph, w.ids, prec2, c)
        /\ NextPart(graph, w.ids, c) = NextPart(graph, w.ids, top) + 1
        /\ cs2 = Append(SubSeq(calls, 1, Len(calls) - 1), c)
    BY <1>1, <1>2, <1>3, <1>4, <1>5, <1>6, <1>10
  <2>2. QED
    BY ONLY <2>1, MeetsReplaced
<1>13. QED
  BY <1>5, <1>6, <1>10, <1>11, <1>12 DEF Tracks, Meets

-----------------------------------------------------------------------------
(* What remains to be shown when a token was read.                           *)
LEMMA TokenRead ==
    ASSUME NEW w, Following(w), NEW tags, TokenIs(tags), Advance, graph' = graph,
           pos + 1 \in 2 .. Len(stream) + 1,
           Tracks(graph, Writing(graph)[pos + 1], precedent', heap', calls', value')
    PROVE  GraphInv'
<1>1. stream' = stream /\ status' = "reading" /\ pos' = pos + 1
  BY DEF TokenIs, Reading, Advance
<1>2. QED
  BY <1>1, StillFollowing

(* The token that is next was written for v, and "behind" will be next.       *)
WrittenFor(w, rests, v, behind) ==
    /\ pos + 1 \in 2 .. Len(stream) + 1
    /\ Nested(graph, w.ids, calls, rests)
    /\ v = Awaited(graph, w.ids, calls, Len(calls))
    /\ behind = Behind(graph, w.ids, calls, rests, Len(calls))
    /\ Writing(graph)[pos + 1] =
          IF IsNew(w.ids, v) THEN Writer(Parts(graph.of[v]) \o behind, Append(w.ids, v))
          ELSE Writer(behind, w.ids)
    /\ v \notin Nodes =>
          ~IsNew(w.ids, v) /\ stream[pos].tag = "immediate" /\ Val = (v * 4) % Word
    /\ IsNew(w.ids, v) =>
          /\ v \in Nodes /\ IsSource(graph, graph.of[v])
          /\ stream[pos].tag = graph.of[v].kind /\ stream[pos].tag \in ObjectTags
          /\ Val = IF graph.of[v].kind = "symbol" THEN graph.of[v].name
                   ELSE Len(graph.of[v].parts)
    /\ v \in Nodes /\ ~IsNew(w.ids, v) =>
          stream[pos].tag = "precedent" /\ Val = IdOf(w.ids, v) - 1

(* Every token that is read was written for what is awaited.                 *)
LEMMA WhatIsRead ==
    ASSUME NEW w, Following(w), NEW tags, TokenIs(tags)
    PROVE  /\ stream[pos].tag \in tags /\ value = NoRef
           /\ \E rests, v, behind :
                 WrittenFor(w, rests, v, behind) /\ v \in Items(graph) /\ behind \in Seq(Items(graph))
<1>1. value = NoRef /\ stream[pos].tag \in tags
  BY DEF TokenIs, Reading
<1>2. PICK rests : \E v \in Items(graph), behind \in Seq(Items(graph)) :
         /\ Nested(graph, w.ids, calls, rests)
         /\ v = Awaited(graph, w.ids, calls, Len(calls))
         /\ behind = Behind(graph, w.ids, calls, rests, Len(calls))
         /\ pos \in 2 .. Len(stream) /\ pos + 1 \in 2 .. Len(stream) + 1
         /\ stream[pos] = NextToken(graph.of, w) /\ v = Head(w.todo)
         /\ Writing(graph)[pos + 1] =
               IF IsNew(w.ids, v) THEN Writer(Parts(graph.of[v]) \o behind, Append(w.ids, v))
               ELSE Writer(behind, w.ids)
  BY <1>1, TokenWritten
<1>3. PICK v \in Items(graph), behind \in Seq(Items(graph)) :
         /\ Nested(graph, w.ids, calls, rests)
         /\ v = Awaited(graph, w.ids, calls, Len(calls))
         /\ behind = Behind(graph, w.ids, calls, rests, Len(calls))
         /\ pos + 1 \in 2 .. Len(stream) + 1
         /\ stream[pos] = NextToken(graph.of, w) /\ v = Head(w.todo)
         /\ Writing(graph)[pos + 1] =
               IF IsNew(w.ids, v) THEN Writer(Parts(graph.of[v]) \o behind, Append(w.ids, v))
               ELSE Writer(behind, w.ids)
  BY <1>2
<1>4. graph \in Graphs
  BY DEF Following
<1>5. PICK token : token = stream[pos] /\ token.val = Val
  BY DEF Val
<1>6. /\ v \notin Nodes => token.tag = "immediate" /\ token.val = (v * 4) % Word
      /\ IsNew(w.ids, v) =>
            /\ v \in Nodes /\ token.tag = graph.of[v].kind /\ token.tag \in ObjectTags
            /\ token.val = IF graph.of[v].kind = "symbol" THEN graph.of[v].name
                           ELSE Len(graph.of[v].parts)
      /\ v \in Nodes /\ ~IsNew(w.ids, v) =>
            token.tag = "precedent" /\ token.val = IdOf(w.ids, v) - 1
  BY <1>3, <1>4, <1>5, TokenCases
<1>7. v \notin Nodes => ~IsNew(w.ids, v)
  BY DEF IsNew
<1>8. v \in Nodes => IsSource(graph, graph.of[v])
  BY <1>4, GraphAssumption DEF IsGraph
<1>9. QED
  BY <1>1, <1>3, <1>5, <1>6, <1>7, <1>8 DEF WrittenFor

(* Integers are read, *)
LEMMA ImmediateFollows ==
    ASSUME NEW w, Following(w), ReadImmediate, graph' = graph
    PROVE  GraphInv'
<1>1. /\ TokenIs({"immediate", "char"}) /\ Advance /\ UNCHANGED <<precedent, heap, calls>>
      /\ value' = ImmediateOf(stream[pos])
  BY DEF ReadImmediate
<1>2. PICK rests, v, behind :
         WrittenFor(w, rests, v, behind) /\ v \in Items(graph) /\ behind \in Seq(Items(graph))
  BY <1>1, WhatIsRead
<1>3. stream[pos].tag \in {"immediate", "char"}
  BY <1>1, WhatIsRead
<1>4. /\ pos + 1 \in 2 .. Len(stream) + 1
      /\ v = Awaited(graph, w.ids, calls, Len(calls))
      /\ behind = Behind(graph, w.ids, calls, rests, Len(calls))
      /\ Nested(graph, w.ids, calls, rests)
      /\ Writing(graph)[pos + 1] = Writer(behind, w.ids)
      /\ v \notin Nodes /\ stream[pos].tag = "immediate" /\ Val = (v * 4) % Word
  BY <1>2, <1>3 DEF WrittenFor, ObjectTags
<1>5. value' = v * 4 + 1
  <2>1. value' = StreamImmediate((v * 4) % Word)
    BY <1>1, <1>4 DEF ImmediateOf, Val
  <2>2. graph \in Graphs /\ NoneNegative(graph)
    BY DEF Following
  <2>3. QED
    BY <1>2, <1>4, <2>1, <2>2, IntegerRead
<1>6. value' # NoRef
  <2>1. value' \in Immediates
    BY <1>1, TokenFacts DEF IsToken, Following
  <2>2. QED
    BY <2>1, StreamAssumption DEF Ref
<1>7. Means(w.ids, precedent, value', v)
  BY <1>5, <1>4 DEF Means
<1>8. Tracks(graph, Writer(behind, w.ids), precedent', heap', calls', value')
  BY <1>1, <1>6, <1>7, <1>4, ValueTracked
<1>9. QED
  BY <1>1, <1>4, <1>8, TokenRead

(* NIL is not written, *)
LEMMA NothingIsNil ==
    ASSUME NEW w, Following(w), ReadNil
    PROVE  FALSE
<1>1. TokenIs({"nil", "unsupported"})
  BY DEF ReadNil
<1>2. PICK rests, v, behind : WrittenFor(w, rests, v, behind)
  BY <1>1, WhatIsRead
<1>3. stream[pos].tag \in {"nil", "unsupported"}
  BY <1>1, WhatIsRead
<1>4. QED
  BY <1>2, <1>3 DEF WrittenFor, ObjectTags

(* nor does the stream end too soon;                                         *)
LEMMA NeverPastEnd ==
    ASSUME NEW w, Following(w), ReadPastEnd
    PROVE  FALSE
<1>1. value = NoRef /\ pos > Len(stream)
  BY DEF ReadPastEnd, Reading
<1>2. pos \in 2 .. Len(stream)
  BY <1>1, TokenWritten
<1>3. Len(stream) \in Nat
  BY StreamOfGraph DEF Following
<1>4. QED
  BY <1>1, <1>2, <1>3

(* an ID is that of an object that was made;                                 *)
LEMMA PrecedentFollows ==
    ASSUME NEW w, Following(w), ReadPrecedent, graph' = graph
    PROVE  GraphInv'
<1>1. TokenIs({"precedent"})
  BY DEF ReadPrecedent
<1>2. PICK rests, v, behind :
         WrittenFor(w, rests, v, behind) /\ v \in Items(graph) /\ behind \in Seq(Items(graph))
  BY <1>1, WhatIsRead
<1>3. stream[pos].tag = "precedent"
  BY <1>1, WhatIsRead
<1>4. /\ pos + 1 \in 2 .. Len(stream) + 1
      /\ v = Awaited(graph, w.ids, calls, Len(calls))
      /\ behind = Behind(graph, w.ids, calls, rests, Len(calls))
      /\ Nested(graph, w.ids, calls, rests)
      /\ Writing(graph)[pos + 1] = Writer(behind, w.ids)
      /\ v \in Nodes /\ ~IsNew(w.ids, v) /\ Val = IdOf(w.ids, v) - 1
  BY <1>2, <1>3 DEF WrittenFor, ObjectTags
<1>5. PICK n \in Nat : n = Len(w.ids) /\ n = Len(precedent) /\ DOMAIN w.ids = 1 .. n /\ DOMAIN precedent = 1 .. n
  BY FollowingFacts
<1>6. PICK k \in 1 .. n : k = IdOf(w.ids, v) /\ w.ids[k] = v
  BY <1>4, <1>5, FollowingFacts, IdOfKnown
<1>7. Val < Len(precedent) /\ Val + 1 = k
  BY <1>4, <1>5, <1>6
<1>8. value' = precedent[k] /\ Advance /\ UNCHANGED <<precedent, heap, calls>>
  BY <1>7 DEF ReadPrecedent
<1>9. precedent[k] # NIL
  BY <1>4, <1>5, <1>6, AwaitedIsMade
<1>10. value' # NoRef
  <2>1. precedent[k] \in Ref
    BY <1>5, FollowingFacts, LenProperties, ElementOfSeq
  <2>2. QED
    BY <1>8, <2>1, StreamAssumption
<1>11. Means(w.ids, precedent, value', v)
  BY <1>4, <1>5, <1>6, <1>8, <1>9 DEF Means
<1>12. Tracks(graph, Writer(behind, w.ids), precedent', heap', calls', value')
  BY <1>4, <1>8, <1>10, <1>11, ValueTracked
<1>13. QED
  BY <1>1, <1>4, <1>8, <1>12, TokenRead

(* a symbol is a new object with the name that was written;                  *)
LEMMA SymbolFollows ==
    ASSUME NEW w, Following(w), ReadSymbol, graph' = graph
    PROVE  GraphInv'
<1>1. TokenIs({"symbol"}) /\ Advance /\ heap' = heap /\ calls' = calls
  BY DEF ReadSymbol
<1>2. PICK rests, v, behind :
         WrittenFor(w, rests, v, behind) /\ v \in Items(graph) /\ behind \in Seq(Items(graph))
  BY <1>1, WhatIsRead
<1>3. stream[pos].tag = "symbol"
  BY <1>1, WhatIsRead
<1>4. /\ pos + 1 \in 2 .. Len(stream) + 1
      /\ v = Awaited(graph, w.ids, calls, Len(calls))
      /\ behind = Behind(graph, w.ids, calls, rests, Len(calls))
      /\ Nested(graph, w.ids, calls, rests)
      /\ Writing(graph)[pos + 1] = Writer(Parts(graph.of[v]) \o behind, Append(w.ids, v))
      /\ v \in Nodes /\ IsNew(w.ids, v)
      /\ graph.of[v].kind = "symbol" /\ Val = graph.of[v].name
  BY <1>2, <1>3 DEF WrittenFor, ObjectTags
<1>5. PICK x : x = NewSymbol(Val)
  OBVIOUS
<1>6. value' = x /\ precedent' = Append(precedent, x)
  BY <1>5 DEF ReadSymbol
<1>7. x \in Symbols /\ NameOf[x] = Val /\ \A k \in DOMAIN precedent : precedent[k] # x
  <2>1. \E s \in Symbols \ {precedent[k] : k \in DOMAIN precedent} : NameOf[s] = Val
    BY DEF ReadSymbol, HasSymbol
  <2>2. x = CHOOSE s \in Symbols \ {precedent[k] : k \in DOMAIN precedent} : NameOf[s] = Val
    BY <1>5 DEF NewSymbol, FreshSymbol
  <2>3. x \in Symbols \ {precedent[k] : k \in DOMAIN precedent} /\ NameOf[x] = Val
    BY <2>1, <2>2
  <2>4. QED
    BY <2>3
<1>8. x \in Ref /\ x # NIL /\ x # NoRef /\ Unused(precedent, x)
  BY <1>7, RefAssumption, StreamAssumption DEF Ref, Unused
<1>9. PICK ids2 : ids2 = Append(w.ids, v)
  OBVIOUS
<1>10. PICK q : q = Len(precedent) + 1
  OBVIOUS
<1>11. PICK prec2 : prec2 = precedent'
  OBVIOUS
<1>12. ids2[q] = v /\ prec2[q] = x
  <2>1. Following(w) /\ EnteredNext(w, v, x, q, ids2, prec2)
    BY <1>4, <1>6, <1>8, <1>9, <1>10, <1>11 DEF EnteredNext
  <2>2. QED
    BY ONLY <2>1, EntryIs
<1>13. IsComplete(graph, ids2, prec2, heap', q)
  BY <1>4, <1>7, <1>12 DEF IsComplete, ReadTo
<1>14. Writing(graph)[pos + 1] = Writer(behind, ids2)
  <2>1. Parts(graph.of[v]) = << >>
    <3>1. graph \in Graphs
      BY DEF Following
    <3>2. QED
      BY <1>4, <3>1, PartsOfSource DEF PartsAre
  <2>2. << >> \o behind = behind
    BY <1>2, ConcatEmptySeq
  <2>3. QED
    BY <1>4, <1>9, <2>1, <2>2
<1>15. Tracks(graph, Writer(behind, ids2), precedent', heap', calls', value')
  <2>1. \A p \in Ptrs : heap[p] # NoObject => heap'[p] = heap[p]
    BY <1>1
  <2>2. QED
    BY <1>1, <1>4, <1>6, <1>8, <1>9, <1>10, <1>11, <1>13, <2>1, ObjectTracked
<1>16. QED
  BY <1>1, <1>4, <1>14, <1>15, TokenRead

(* a string is a new object;                                                 *)
LEMMA StringFollows ==
    ASSUME NEW w, Following(w), ReadString, graph' = graph
    PROVE  GraphInv'
<1>1. TokenIs({"string"}) /\ HasRoom(heap) /\ Advance /\ calls' = calls
  BY DEF ReadString
<1>2. PICK rests, v, behind :
         WrittenFor(w, rests, v, behind) /\ v \in Items(graph) /\ behind \in Seq(Items(graph))
  BY <1>1, WhatIsRead
<1>3. stream[pos].tag = "string"
  BY <1>1, WhatIsRead
<1>4. /\ pos + 1 \in 2 .. Len(stream) + 1
      /\ v = Awaited(graph, w.ids, calls, Len(calls))
      /\ behind = Behind(graph, w.ids, calls, rests, Len(calls))
      /\ Nested(graph, w.ids, calls, rests)
      /\ Writing(graph)[pos + 1] = Writer(Parts(graph.of[v]) \o behind, Append(w.ids, v))
      /\ v \in Nodes /\ IsNew(w.ids, v)
      /\ graph.of[v].kind = "string" /\ IsSource(graph, graph.of[v])
  BY <1>2, <1>3 DEF WrittenFor, ObjectTags
<1>5. PICK p : p = Fresh(heap)
  OBVIOUS
<1>6. PICK o : o = Binary(StringClass)
  OBVIOUS
<1>7. value' = p /\ precedent' = Append(precedent, p) /\ heap' = [heap EXCEPT ![p] = o]
  BY <1>5, <1>6 DEF ReadString
<1>8. /\ SoundObject(o) /\ o # NoObject
  BY <1>6, BinarySound, SoundIsSomething, StreamAssumption DEF Ref, SoundObject
<1>9. /\ p \in Ptrs /\ heap[p] = NoObject /\ heap'[p] = o
      /\ \A a \in Ptrs \ {p} : heap'[a] = heap[a]
  BY <1>1, <1>5, <1>7, <1>8, FreshObject DEF Following
<1>10. Unused(precedent, p) /\ p \in Ref /\ p # NIL /\ p # NoRef
  BY <1>9, FreshUnused
<1>11. PICK ids2 : ids2 = Append(w.ids, v)
  OBVIOUS
<1>12. PICK q : q = Len(precedent) + 1
  OBVIOUS
<1>13. PICK prec2, h2 : prec2 = precedent' /\ h2 = heap'
  OBVIOUS
<1>14. ids2[q] = v /\ prec2[q] = p
  <2>1. Following(w) /\ EnteredNext(w, v, p, q, ids2, prec2)
    BY <1>4, <1>7, <1>10, <1>11, <1>12, <1>13 DEF EnteredNext
  <2>2. QED
    BY ONLY <2>1, EntryIs
<1>15. PICK object : object = graph.of[v]
  OBVIOUS
<1>16. Len(object.parts) = 0
  BY <1>4, <1>15 DEF IsSource
<1>17. \A i \in 1 .. 0 : FALSE
  OBVIOUS
<1>18. SlotsMean(ids2, prec2, o, object.parts, 0)
  BY <1>17 DEF SlotsMean
<1>19. ReadTo(graph, ids2, prec2, h2, q, Len(object.tags), 0)
  BY <1>4, <1>6, <1>8, <1>9, <1>13, <1>14, <1>15, <1>18 DEF ReadTo
<1>20. IsComplete(graph, ids2, prec2, h2, q)
  BY <1>14, <1>15, <1>16, <1>19 DEF IsComplete
<1>21. Writing(graph)[pos + 1] = Writer(behind, ids2)
  <2>1. Parts(graph.of[v]) = << >>
    <3>1. graph \in Graphs
      BY DEF Following
    <3>2. QED
      BY <1>4, <3>1, PartsOfSource DEF PartsAre
  <2>2. << >> \o behind = behind
    BY <1>2, ConcatEmptySeq
  <2>3. QED
    BY <1>4, <1>11, <2>1, <2>2
<1>22. Tracks(graph, Writer(behind, ids2), precedent', heap', calls', value')
  <2>1. \A a \in Ptrs : heap[a] # NoObject => heap'[a] = heap[a]
    BY <1>9
  <2>2. QED
    BY <1>1, <1>4, <1>7, <1>10, <1>11, <1>12, <1>13, <1>20, <2>1, ObjectTracked
<1>23. QED
  BY <1>1, <1>4, <1>21, <1>22, TokenRead

(* a binary or an array gets its ID, and awaits its class;                   *)
LEMMA ClassedFollows ==
    ASSUME NEW w, Following(w), ReadClassed, graph' = graph
    PROVE  GraphInv'
<1>1. TokenIs({"binary", "array"}) /\ Advance /\ heap' = heap /\ value' = value
  BY DEF ReadClassed
<1>2. PICK rests, v, behind :
         WrittenFor(w, rests, v, behind) /\ v \in Items(graph) /\ behind \in Seq(Items(graph))
  BY <1>1, WhatIsRead
<1>3. stream[pos].tag \in {"binary", "array"} /\ value = NoRef
  BY <1>1, WhatIsRead
<1>4. /\ pos + 1 \in 2 .. Len(stream) + 1
      /\ v = Awaited(graph, w.ids, calls, Len(calls))
      /\ behind = Behind(graph, w.ids, calls, rests, Len(calls))
      /\ Nested(graph, w.ids, calls, rests)
      /\ Writing(graph)[pos + 1] = Writer(Parts(graph.of[v]) \o behind, Append(w.ids, v))
      /\ v \in Nodes /\ IsNew(w.ids, v)
      /\ graph.of[v].kind = stream[pos].tag /\ Val = Len(graph.of[v].parts)
  BY <1>2, <1>3 DEF WrittenFor, ObjectTags
<1>5. PICK stage : stage = IF stream[pos].tag = "array" THEN "arrayClass" ELSE "binaryClass"
  OBVIOUS
<1>6. PICK q : q = Len(precedent) + 1
  OBVIOUS
<1>7. PICK c : c = Call(stage, NoRef, q, 0, Val)
  OBVIOUS
<1>8. calls' = Append(calls, c) /\ precedent' = Append(precedent, NIL)
  BY <1>5, <1>6, <1>7 DEF ReadClassed, ReserveId
<1>9. Val \in Nat /\ Len(precedent) \in Nat
  BY <1>1, <1>3, TokenFacts DEF IsToken, Val, Following
<1>10. c \in Calls
  BY <1>5, <1>6, <1>7, <1>9 DEF Call, Calls, Stages
<1>11. c.id = q /\ c.stage = stage /\ c.i = 0 /\ c.n = Val
  BY <1>7 DEF Call
<1>12. NIL \in Ref /\ Unused(precedent, NIL)
  BY RefAssumption DEF Ref, Unused
<1>13. PICK ids2 : ids2 = Append(w.ids, v)
  OBVIOUS
<1>14. PICK prec2, h2 : prec2 = precedent' /\ h2 = heap'
  OBVIOUS
<1>15. ids2[q] = v
  <2>1. EnteredNext(w, v, NIL, q, ids2, prec2)
    BY <1>4, <1>6, <1>8, <1>12, <1>13, <1>14 DEF EnteredNext
  <2>2. QED
    BY <2>1, EntryIs
<1>16. CallFits(graph, ids2, prec2, c)
  BY <1>3, <1>4, <1>5, <1>11, <1>15 DEF CallFits
<1>17. CallRead(graph, ids2, prec2, h2, c)
  BY <1>5, <1>11 DEF CallRead
<1>18. NextPart(graph, ids2, c) = 1
  BY <1>5, <1>11 DEF NextPart
<1>19. Tracks(graph, Writer(Parts(graph.of[v]) \o behind, ids2), precedent', heap', calls', value')
  <2>1. (\A p \in Ptrs : heap[p] # NoObject => heap'[p] = heap[p]) /\ value' = NoRef
    BY <1>1, <1>3
  <2>2. QED
    BY <1>2, <1>4, <1>6, <1>8, <1>10, <1>11, <1>12, <1>13, <1>14, <1>16, <1>17, <1>18, <2>1, CallTracked
<1>20. QED
  BY <1>1, <1>4, <1>13, <1>19, TokenRead

(* The object of a plain array or of a frame, when none of its parts is read. *)
LEMMA UnclassedObject ==
    ASSUME NEW source, NEW n \in Nat, n = Len(source.parts),
           source.kind = "plainArray" => n < SizeLimit,
           source.kind \in {"plainArray", "frame"},
           NEW o, o = IF source.kind = "frame" THEN NewFrame ELSE NewArray(ArrayClass, n)
    PROVE  /\ SoundObject(o) /\ o # NoObject
           /\ source.kind = "plainArray" => o.tag = "array" /\ o.head = ArrayClass /\ o.length = n
           /\ source.kind = "frame" => o.tag = "frame" /\ o.length = 0 /\ o.head.length = 0 + 1
<1>1. CASE source.kind = "frame"
  <2>1. SoundFrame(o)
    BY <1>1, NewObjectsSound
  <2>2. o.tag = "frame" /\ o.length = 0 /\ o.head = NewArray(UNREF, 1)
    BY <1>1 DEF NewFrame, Object
  <2>3. NewArray(UNREF, 1).length = 1 % SizeLimit
    BY DEF NewArray, Object
  <2>4. 1 % SizeLimit = 1
    BY SizeAssumption, Truncation
  <2>5. QED
    BY <1>1, <2>1, <2>2, <2>3, <2>4, SoundIsSomething DEF SoundObject
<1>2. CASE source.kind = "plainArray"
  <2>1. ArrayClass \in Ref
    BY StreamAssumption DEF Ref
  <2>2. SoundArray(o)
    BY <1>2, <2>1, NewObjectsSound
  <2>3. o.tag = "array" /\ o.head = ArrayClass /\ o.length = n % SizeLimit
    BY <1>2 DEF NewArray, Object
  <2>4. n % SizeLimit = n
    BY <1>2, Truncation
  <2>5. QED
    BY <1>2, <2>2, <2>3, <2>4, SoundIsSomething DEF SoundObject
<1>3. QED
  BY <1>1, <1>2

(* a plain array or a frame is made, and awaits its first part, if any.      *)
LEMMA UnclassedFollows ==
    ASSUME NEW w, Following(w), ReadUnclassed, graph' = graph
    PROVE  GraphInv'
<1>1. TokenIs({"plainArray", "frame"}) /\ HasRoom(heap) /\ Advance
  BY DEF ReadUnclassed
<1>2. PICK rests, v, behind :
         WrittenFor(w, rests, v, behind) /\ v \in Items(graph) /\ behind \in Seq(Items(graph))
  BY <1>1, WhatIsRead
<1>3. stream[pos].tag \in {"plainArray", "frame"} /\ value = NoRef
  BY <1>1, WhatIsRead
<1>4. /\ pos + 1 \in 2 .. Len(stream) + 1
      /\ v = Awaited(graph, w.ids, calls, Len(calls))
      /\ behind = Behind(graph, w.ids, calls, rests, Len(calls))
      /\ Nested(graph, w.ids, calls, rests)
      /\ Writing(graph)[pos + 1] = Writer(Parts(graph.of[v]) \o behind, Append(w.ids, v))
      /\ v \in Nodes /\ IsNew(w.ids, v) /\ IsSource(graph, graph.of[v])
      /\ graph.of[v].kind = stream[pos].tag /\ Val = Len(graph.of[v].parts)
  BY <1>2, <1>3 DEF WrittenFor, ObjectTags
<1>5. PICK source : source = graph.of[v]
  OBVIOUS
<1>6. PICK parts : parts = Parts(source)
  OBVIOUS
<1>7. PICK l \in Nat, n \in Nat : PartsAre(graph, source, parts, l, n)
  <2>1. graph \in Graphs
    BY DEF Following
  <2>2. QED
    BY <1>4, <1>5, <1>6, <2>1, PartsOfSource
<1>8. n = Len(source.parts) /\ Val = n
  BY <1>4, <1>5, <1>7 DEF PartsAre
<1>9. PICK p : p = Fresh(heap)
  OBVIOUS
<1>10. PICK o : o = IF source.kind = "frame" THEN NewFrame ELSE NewArray(ArrayClass, n)
  OBVIOUS
<1>11. PICK stage : stage = IF source.kind = "frame" THEN "tags" ELSE "slots"
  OBVIOUS
<1>12. PICK q : q = Len(precedent) + 1
  OBVIOUS
<1>13. PICK c : c = Call(stage, p, q, 0, n)
  OBVIOUS
<1>14. /\ heap' = [heap EXCEPT ![p] = o] /\ precedent' = Append(precedent, p)
       /\ IF n > 0 THEN calls' = Append(calls, c) /\ value' = value
          ELSE value' = p /\ calls' = calls
  BY <1>4, <1>5, <1>8, <1>9, <1>10, <1>11, <1>12, <1>13 DEF ReadUnclassed
<1>15. /\ SoundObject(o) /\ o # NoObject
       /\ source.kind = "plainArray" => o.tag = "array" /\ o.head = ArrayClass /\ o.length = n
       /\ source.kind = "frame" => o.tag = "frame" /\ o.length = 0 /\ o.head.length = 0 + 1
  <2>1. source.kind \in {"plainArray", "frame"}
    BY <1>3, <1>4, <1>5
  <2>2. source.kind = "plainArray" => n < SizeLimit
    BY <1>4, <1>5, <1>8 DEF IsSource
  <2>3. QED
    BY <1>8, <1>10, <2>1, <2>2, UnclassedObject
<1>16. /\ p \in Ptrs /\ heap[p] = NoObject /\ heap'[p] = o
       /\ \A a \in Ptrs \ {p} : heap'[a] = heap[a]
  <2>1. IInv /\ HasRoom(heap) /\ SoundObject(o) /\ p = Fresh(heap) /\ heap' = [heap EXCEPT ![p] = o]
    BY <1>1, <1>9, <1>14, <1>15 DEF Following
  <2>2. QED
    BY ONLY <2>1, FreshObject
<1>17. Unused(precedent, p) /\ p \in Ref /\ p # NIL /\ p # NoRef
  BY <1>16, FreshUnused
<1>18. PICK ids2 : ids2 = Append(w.ids, v)
  OBVIOUS
<1>19. PICK prec2, h2 : prec2 = precedent' /\ h2 = heap'
  OBVIOUS
<1>20. ids2[q] = v /\ prec2[q] = p
  <2>1. EnteredNext(w, v, p, q, ids2, prec2)
    BY <1>4, <1>12, <1>14, <1>17, <1>18, <1>19 DEF EnteredNext
  <2>2. QED
    BY <2>1, EntryIs
<1>21. ASSUME NEW t, source.kind = "frame" => t = 0
       PROVE  ReadTo(graph, ids2, prec2, h2, q, t, 0)
  <2>1. \A i \in 1 .. 0 : FALSE
    OBVIOUS
  <2>2. SlotsMean(ids2, prec2, o, source.parts, 0)
    BY <2>1 DEF SlotsMean
  <2>3. h2[prec2[q]] = o /\ prec2[q] \in Ptrs /\ graph.of[ids2[q]] = source
    BY <1>5, <1>16, <1>19, <1>20
  <2>4. source.kind \notin {"symbol", "string", "binary", "array"}
    BY <1>3, <1>4, <1>5
  <2>5. source.kind = "plainArray" => o.tag = "array" /\ o.head = ArrayClass /\ o.length = Len(source.parts)
    BY <1>8, <1>15
  <2>6. source.kind = "frame" =>
           /\ o.tag = "frame" /\ o.length = t /\ o.head.length = t + 1
           /\ \A i \in 1 .. t : Means(ids2, prec2, o.head.slot[i], source.tags[i])
    BY <1>15, <1>21, <2>1
  <2>7. QED
    BY <1>15, <2>2, <2>3, <2>4, <2>5, <2>6 DEF ReadTo
<1>22. \A a \in Ptrs : heap[a] # NoObject => heap'[a] = heap[a]
  BY <1>16
<1>23. CASE n > 0
  <2>1. calls' = Append(calls, c) /\ value' = NoRef
    BY <1>3, <1>14, <1>23
  <2>2. c.id = q /\ c.stage = stage /\ c.i = 0 /\ c.n = n /\ c.ref = p
    BY <1>13 DEF Call
  <2>3. c \in Calls
    <3>1. Len(precedent) \in Nat
      BY FollowingFacts
    <3>2. QED
      BY <1>11, <1>12, <1>13, <1>16, <3>1 DEF Call, Calls, Stages
  <2>4. source.kind \in {"plainArray", "frame"} /\ graph.of[ids2[q]] = source
    BY <1>3, <1>4, <1>5, <1>20
  <2>5. CallFits(graph, ids2, prec2, c)
    BY <1>8, <1>11, <1>20, <1>23, <2>2, <2>4 DEF CallFits
  <2>6. CallRead(graph, ids2, prec2, h2, c)
    <3>1. c.stage = "tags" => ReadTo(graph, ids2, prec2, h2, q, 0, 0)
      BY <1>21
    <3>2. c.stage = "slots" => ReadTo(graph, ids2, prec2, h2, q, Len(source.tags), 0)
      BY <1>11, <1>21, <2>2
    <3>3. QED
      BY <2>2, <2>4, <3>1, <3>2 DEF CallRead
  <2>7. NextPart(graph, ids2, c) = 1
    <3>1. PartsOf(graph, ids2, c) = parts
      BY <1>6, <2>2, <2>4 DEF PartsOf
    <3>2. CASE source.kind = "frame"
      BY <1>11, <2>2, <3>2 DEF NextPart
    <3>3. CASE source.kind = "plainArray"
      <4>1. Len(parts) = n
        BY <1>7, <3>3 DEF PartsAre
      <4>2. QED
        BY <1>11, <2>2, <3>1, <3>3, <4>1 DEF NextPart
    <3>4. QED
      BY <2>4, <3>2, <3>3
  <2>8. Tracks(graph, Writer(Parts(graph.of[v]) \o behind, ids2), precedent', heap', calls', value')
    BY <1>2, <1>4, <1>12, <1>14, <1>17, <1>18, <1>19, <1>22, <2>1, <2>2, <2>3, <2>5, <2>6, <2>7, CallTracked
  <2>9. QED
    BY <1>1, <1>4, <1>18, <2>8, TokenRead
<1>24. CASE ~(n > 0)
  <2>1. calls' = calls /\ value' = p
    BY <1>14, <1>24
  <2>2. n = 0
    BY <1>24
  <2>3. IsComplete(graph, ids2, prec2, h2, q)
    <3>1. source.kind = "frame" => Len(source.tags) = 0
      BY <1>7, <2>2 DEF PartsAre
    <3>2. ReadTo(graph, ids2, prec2, h2, q, Len(source.tags), 0)
      BY <1>21, <3>1
    <3>3. graph.of[ids2[q]] = source /\ Len(source.parts) = 0
      BY <1>5, <1>8, <1>20, <2>2
    <3>4. QED
      BY <3>2, <3>3 DEF IsComplete
  <2>4. Writing(graph)[pos + 1] = Writer(behind, ids2)
    <3>1. Len(parts) = 0 /\ parts \in Seq(Items(graph))
      BY <1>3, <1>4, <1>5, <1>7, <2>2 DEF PartsAre
    <3>2. parts = << >>
      BY <3>1, EmptySeq
    <3>3. << >> \o behind = behind
      BY <1>2, ConcatEmptySeq
    <3>4. QED
      BY <1>4, <1>5, <1>6, <1>18, <3>2, <3>3
  <2>5. Tracks(graph, Writer(behind, ids2), precedent', heap', calls', value')
    BY <1>4, <1>12, <1>14, <1>17, <1>18, <1>19, <1>22, <2>1, <2>3, ObjectTracked
  <2>6. QED
    BY <1>1, <1>4, <2>4, <2>5, TokenRead
<1>25. QED
  BY <1>23, <1>24

-----------------------------------------------------------------------------
(* A new object is entered under the ID that was reserved for it.            *)
LEMMA HoleFills ==
    ASSUME NEW w, Following(w), NEW stage \in ClassStages, Waiting(stage), NEW q, q = Top.id,
           NEW p \in Ptrs, heap[p] = NoObject, FillId(q, p),
           \A a \in Ptrs \ {p} : heap'[a] = heap[a]
    PROVE  /\ Len(precedent') = Len(precedent) /\ OneToOne(precedent')
           /\ KeepsIds(w.ids, precedent, w.ids, precedent') /\ OthersStay(q)
           /\ q \in DOMAIN w.ids /\ precedent'[q] = p
<1>1. Len(calls) \in DOMAIN calls /\ Top = calls[Len(calls)] /\ Top.stage = stage
  BY WaitingFacts DEF Following
<1>2. q \in DOMAIN precedent /\ q \in DOMAIN w.ids
  BY <1>1, ObjectOfCall
<1>3. precedent[q] = NIL
  BY <1>1, <1>2, CallFacts DEF Following, HolesMatch
<1>4. precedent \in Seq(Ref) /\ OneToOne(precedent) /\ DOMAIN w.ids = DOMAIN precedent
  BY FollowingFacts
<1>5. p \in Ref /\ p # NIL /\ \A k \in DOMAIN precedent : precedent[k] # p
  BY FreshUnused DEF Unused
<1>6. PICK prec2 : prec2 = precedent' /\ prec2 = [precedent EXCEPT ![q] = p]
  BY DEF FillId
<1>7. Len(prec2) = Len(precedent)
  BY <1>2, <1>4, <1>5, <1>6, ExceptSeq
<1>8. /\ DOMAIN prec2 = DOMAIN precedent /\ prec2[q] = p
      /\ \A k \in DOMAIN precedent : k # q => prec2[k] = precedent[k]
  BY <1>2, <1>4, <1>6
<1>9. OneToOne(prec2)
  <2>1. SUFFICES ASSUME NEW j \in DOMAIN prec2, NEW k \in DOMAIN prec2, prec2[j] = prec2[k], prec2[j] # NIL
                 PROVE  j = k
    BY DEF OneToOne
  <2>2. CASE j # q /\ k # q
    BY <1>4, <1>8, <2>1, <2>2 DEF OneToOne
  <2>3. CASE j = q \/ k = q
    BY <1>5, <1>8, <2>1, <2>3
  <2>4. QED
    BY <2>2, <2>3
<1>10. KeepsIds(w.ids, precedent, w.ids, prec2)
  BY <1>3, <1>4, <1>8 DEF KeepsIds
<1>11. OthersStay(q)
  BY DEF OthersStay
<1>12. QED
  BY <1>2, <1>6, <1>7, <1>8, <1>9, <1>10, <1>11

(* The value is the class that was written.                                  *)
LEMMA ClassRead ==
    ASSUME NEW w, Following(w), NEW stage \in ClassStages, Waiting(stage), NEW object,
           object = graph.of[w.ids[Top.id]]
    PROVE  /\ IsSource(graph, object) /\ w.ids[Top.id] \in Nodes /\ graph \in Graphs
           /\ CallFits(graph, w.ids, precedent, Top) /\ Top.n = Len(object.parts)
           /\ stage = "binaryClass" => object.kind = "binary"
           /\ stage = "arrayClass" => object.kind = "array"
           /\ Means(w.ids, precedent, value, object.class)
           /\ NextPart(graph, w.ids, Top) = 1
           /\ \E l \in Nat, n \in Nat : PartsAre(graph, object, PartsOf(graph, w.ids, Top), l, n)
<1>1. PICK m : m = Len(calls) /\ m \in DOMAIN calls /\ m # 0
  BY WaitingFacts DEF Following
<1>2. PICK top : top = Top /\ top = calls[m] /\ top.stage = stage
  BY <1>1, WaitingFacts DEF Following
<1>3. /\ w.ids[top.id] \in Nodes /\ graph \in Graphs /\ IsSource(graph, object)
      /\ CallFits(graph, w.ids, precedent, top)
  BY <1>1, <1>2, ObjectOfCall
<1>4. PICK parts : parts = Parts(object) /\ parts = PartsOf(graph, w.ids, top)
  BY <1>2 DEF PartsOf
<1>5. \E l \in Nat, n \in Nat : PartsAre(graph, object, parts, l, n)
  BY <1>2, <1>3, <1>4, PartsOfSource
<1>6. /\ top.n = Len(object.parts) /\ top.i = 0 /\ object.kind \in {"binary", "array"}
      /\ stage = "binaryClass" => object.kind = "binary"
      /\ stage = "arrayClass" => object.kind = "array"
  BY <1>2, <1>3 DEF CallFits, ClassStages
<1>7. NextPart(graph, w.ids, top) = 1
  BY <1>2, <1>6 DEF NextPart, ClassStages
<1>8. Awaited(graph, w.ids, calls, m) = object.class
  <2>1. parts[1] = object.class
    BY <1>5, <1>6 DEF PartsAre
  <2>2. QED
    BY <1>1, <1>2, <1>4, <1>7, <2>1 DEF Awaited
<1>9. Means(w.ids, precedent, value, object.class)
  BY <1>1, <1>8, ValueAwaited DEF Waiting
<1>10. QED
  BY <1>2, <1>3, <1>4, <1>5, <1>6, <1>7, <1>9

(* A binary is made when its class was read.                                 *)
LEMMA BinaryClassFollows ==
    ASSUME NEW w, Following(w), GetBinaryClass, graph' = graph
    PROVE  GraphInv'
<1>1. Waiting("binaryClass") /\ HasRoom(heap) /\ Local /\ "binaryClass" \in ClassStages
  BY DEF GetBinaryClass, ClassStages
<1>2. PICK p : p = Fresh(heap)
  OBVIOUS
<1>3. PICK o : o = Binary(value)
  OBVIOUS
<1>4. PICK q : q = Top.id
  OBVIOUS
<1>5. value' = p /\ heap' = [heap EXCEPT ![p] = o] /\ calls' = Returns /\ FillId(q, p)
  BY <1>2, <1>3, <1>4 DEF GetBinaryClass
<1>6. SoundObject(o) /\ o # NoObject /\ o.head = value
  <2>1. SoundBinary(o)
    BY <1>1, <1>3, BinarySound, WaitingFacts DEF Following
  <2>2. QED
    BY <1>3, <2>1, SoundIsSomething DEF SoundObject, Binary, Object
<1>7. /\ p \in Ptrs /\ heap[p] = NoObject /\ heap'[p] = o
      /\ \A a \in Ptrs \ {p} : heap'[a] = heap[a]
  <2>1. IInv /\ HasRoom(heap) /\ SoundObject(o) /\ p = Fresh(heap) /\ heap' = [heap EXCEPT ![p] = o]
    BY <1>1, <1>2, <1>5, <1>6 DEF Following
  <2>2. QED
    BY ONLY <2>1, FreshObject
<1>8. /\ Len(precedent') = Len(precedent) /\ OneToOne(precedent')
      /\ KeepsIds(w.ids, precedent, w.ids, precedent') /\ OthersStay(q)
      /\ q \in DOMAIN w.ids /\ precedent'[q] = p
  BY <1>1, <1>4, <1>5, <1>7, HoleFills
<1>9. PICK object : object = graph.of[w.ids[q]]
  OBVIOUS
<1>10. /\ IsSource(graph, object) /\ object.kind = "binary"
       /\ Means(w.ids, precedent, value, object.class) /\ NextPart(graph, w.ids, Top) = 1
       /\ \E l \in Nat, n \in Nat : PartsAre(graph, object, PartsOf(graph, w.ids, Top), l, n)
  BY <1>1, <1>4, <1>9, ClassRead
<1>11. PICK prec2, h2 : prec2 = precedent' /\ h2 = heap'
  OBVIOUS
<1>12. Means(w.ids, prec2, o.head, object.class)
  BY <1>6, <1>8, <1>10, <1>11, MeansKept
<1>13. Len(object.parts) = 0
  BY <1>10 DEF IsSource
<1>14. SlotsMean(w.ids, prec2, o, object.parts, 0)
  <2>1. \A i \in 1 .. 0 : FALSE
    OBVIOUS
  <2>2. QED
    BY <2>1 DEF SlotsMean
<1>15. o = Binary(o.head)
  BY <1>3, <1>6
<1>16. ReadTo(graph, w.ids, prec2, h2, q, Len(object.tags), 0)
  BY <1>6, <1>7, <1>8, <1>9, <1>10, <1>11, <1>12, <1>14, <1>15 DEF ReadTo
<1>17. IsComplete(graph, w.ids, prec2, h2, q)
  BY <1>9, <1>13, <1>16 DEF IsComplete
<1>18. NextPart(graph, w.ids, Top) = Len(PartsOf(graph, w.ids, Top))
  BY <1>10, <1>13 DEF PartsAre
<1>19. value' # NoRef /\ value' # NIL
  BY <1>5, <1>7, FreshUnused
<1>20. Tracks(graph, w, precedent', heap', calls', value')
  BY <1>1, <1>4, <1>5, <1>8, <1>11, <1>17, <1>18, <1>19, CallEnds
<1>21. stream' = stream /\ pos' = pos /\ status' = "reading"
  BY <1>1 DEF Local, Waiting
<1>22. QED
  BY <1>20, <1>21, StillFollowing DEF Following

(* An array is made when its class was read, and awaits its first slot.      *)
LEMMA ArrayClassFollows ==
    ASSUME NEW w, Following(w), GetArrayClass, graph' = graph
    PROVE  GraphInv'
<1>1. Waiting("arrayClass") /\ HasRoom(heap) /\ Local /\ "arrayClass" \in ClassStages
  BY DEF GetArrayClass, ClassStages
<1>2. PICK p : p = Fresh(heap)
  OBVIOUS
<1>3. PICK q : q = Top.id
  OBVIOUS
<1>4. PICK object : object = graph.of[w.ids[q]]
  OBVIOUS
<1>5. /\ IsSource(graph, object) /\ object.kind = "array" /\ w.ids[q] \in Nodes
      /\ Means(w.ids, precedent, value, object.class) /\ NextPart(graph, w.ids, Top) = 1
      /\ Top.n = Len(object.parts)
      /\ \E l \in Nat, n \in Nat : PartsAre(graph, object, PartsOf(graph, w.ids, Top), l, n)
  BY <1>1, <1>3, <1>4, ClassRead
<1>6. PICK parts : parts = Parts(object) /\ parts = PartsOf(graph, w.ids, Top)
  BY <1>3, <1>4 DEF PartsOf
<1>7. PICK l \in Nat, n \in Nat : PartsAre(graph, object, parts, l, n)
  BY <1>5, <1>6
<1>8. n = Len(object.parts) /\ l = Len(parts) /\ l = n + 1 /\ Top.n = n /\ n < SizeLimit
  <2>1. n = Len(object.parts) /\ l = Len(parts) /\ l = n + 1
    BY <1>5, <1>7 DEF PartsAre
  <2>2. Len(object.parts) < SizeLimit
    BY <1>5 DEF IsSource
  <2>3. QED
    BY <1>5, <2>1, <2>2
<1>9. PICK o : o = NewArray(value, n)
  OBVIOUS
<1>10. PICK c : c = Call("slots", p, q, 0, n)
  OBVIOUS
<1>11. /\ heap' = [heap EXCEPT ![p] = o] /\ FillId(q, p)
       /\ IF n > 0 THEN calls' = Replaced(c) /\ value' = NoRef ELSE calls' = Returns /\ value' = p
  BY <1>2, <1>3, <1>8, <1>9, <1>10 DEF GetArrayClass
<1>12. SoundObject(o) /\ o # NoObject /\ o.tag = "array" /\ o.head = value /\ o.length = n
  <2>1. SoundArray(o)
    BY <1>1, <1>9, NewObjectsSound, WaitingFacts DEF Following
  <2>2. o.tag = "array" /\ o.head = value /\ o.length = n % SizeLimit
    BY <1>9 DEF NewArray, Object
  <2>3. n % SizeLimit = n
    BY <1>8, Truncation
  <2>4. QED
    BY <2>1, <2>2, <2>3, SoundIsSomething DEF SoundObject
<1>13. /\ p \in Ptrs /\ heap[p] = NoObject /\ heap'[p] = o
       /\ \A a \in Ptrs \ {p} : heap'[a] = heap[a]
  <2>1. IInv /\ HasRoom(heap) /\ SoundObject(o) /\ p = Fresh(heap) /\ heap' = [heap EXCEPT ![p] = o]
    BY <1>1, <1>2, <1>11, <1>12 DEF Following
  <2>2. QED
    BY ONLY <2>1, FreshObject
<1>14. /\ Len(precedent') = Len(precedent) /\ OneToOne(precedent')
       /\ KeepsIds(w.ids, precedent, w.ids, precedent') /\ OthersStay(q)
       /\ q \in DOMAIN w.ids /\ precedent'[q] = p
  BY <1>1, <1>3, <1>11, <1>13, HoleFills
<1>15. PICK prec2, h2 : prec2 = precedent' /\ h2 = heap'
  OBVIOUS
<1>16. Means(w.ids, prec2, o.head, object.class)
  BY <1>5, <1>12, <1>14, <1>15, MeansKept
<1>17. ASSUME NEW t
       PROVE  ReadTo(graph, w.ids, prec2, h2, q, t, 0)
  <2>1. \A i \in 1 .. 0 : FALSE
    OBVIOUS
  <2>2. SlotsMean(w.ids, prec2, o, object.parts, 0)
    BY <2>1 DEF SlotsMean
  <2>3. h2[prec2[q]] = o /\ prec2[q] \in Ptrs /\ graph.of[w.ids[q]] = object
    BY <1>4, <1>13, <1>14, <1>15
  <2>4. QED
    BY <1>5, <1>8, <1>12, <1>16, <2>2, <2>3 DEF ReadTo
<1>18. stream' = stream /\ pos' = pos /\ status' = "reading"
  BY <1>1 DEF Local, Waiting
<1>19. p # NoRef /\ p # NIL
  BY <1>13, FreshUnused
<1>20. CASE n > 0
  <2>1. calls' = Replaced(c) /\ value' = NoRef
    BY <1>11, <1>20
  <2>2. c.id = q /\ c.stage = "slots" /\ c.i = 0 /\ c.n = n /\ c.ref = p
    BY <1>10 DEF Call
  <2>3. c \in Calls
    <3>1. q \in Nat
      BY <1>1, <1>3, WaitingFacts DEF Following, Calls
    <3>2. QED
      BY <1>10, <1>13, <3>1 DEF Call, Calls, Stages
  <2>4. CallFits(graph, w.ids, prec2, c)
    BY <1>4, <1>5, <1>8, <1>14, <1>15, <1>20, <2>2 DEF CallFits
  <2>5. CallRead(graph, w.ids, prec2, h2, c)
    BY <1>4, <1>17, <2>2 DEF CallRead
  <2>6. NextPart(graph, w.ids, c) = NextPart(graph, w.ids, Top) + 1
    <3>1. PartsOf(graph, w.ids, c) = parts
      BY <1>4, <1>6, <2>2 DEF PartsOf
    <3>2. NextPart(graph, w.ids, c) = l - n + 0 + 1
      BY <1>8, <2>2, <3>1 DEF NextPart
    <3>3. QED
      BY <1>5, <1>8, <3>2
  <2>7. Tracks(graph, w, precedent', heap', calls', value')
    BY <1>1, <1>3, <1>14, <1>15, <2>1, <2>2, <2>3, <2>4, <2>5, <2>6, CallGoesOn
  <2>8. QED
    BY <1>18, <2>7, StillFollowing DEF Following
<1>21. CASE ~(n > 0)
  <2>1. calls' = Returns /\ value' = p /\ n = 0
    BY <1>11, <1>21
  <2>2. IsComplete(graph, w.ids, prec2, h2, q)
    BY <1>4, <1>8, <1>17, <2>1 DEF IsComplete
  <2>3. NextPart(graph, w.ids, Top) = Len(PartsOf(graph, w.ids, Top))
    BY <1>5, <1>6, <1>8, <2>1
  <2>4. Tracks(graph, w, precedent', heap', calls', value')
    BY <1>1, <1>3, <1>14, <1>15, <1>19, <2>1, <2>2, <2>3, CallEnds
  <2>5. QED
    BY <1>18, <2>4, StillFollowing DEF Following
<1>22. QED
  BY <1>20, <1>21

-----------------------------------------------------------------------------
(* An activation that has its object: what it is, and what it waits for.     *)
LEMMA ObjectInHand ==
    ASSUME NEW w, Following(w), NEW stage \in {"tags", "slots"}, Waiting(stage), NEW q, q = Top.id,
           NEW object, object = graph.of[w.ids[q]], NEW p, p = Top.ref
    PROVE  /\ q \in DOMAIN w.ids /\ q \in DOMAIN precedent /\ precedent[q] = p
           /\ p \in Ptrs /\ p \in Ref /\ p # NIL /\ p # NoRef
           /\ graph \in Graphs /\ w.ids[q] \in Nodes /\ IsSource(graph, object)
           /\ CallFits(graph, w.ids, precedent, Top) /\ CallRead(graph, w.ids, precedent, heap, Top)
           /\ Means(w.ids, precedent, value, Awaited(graph, w.ids, calls, Len(calls)))
           /\ \E parts : \E l \in Nat, n \in Nat, i \in Nat :
                 /\ parts = PartsOf(graph, w.ids, Top) /\ parts = Parts(object)
                 /\ PartsAre(graph, object, parts, l, n) /\ l = Len(parts)
                 /\ Top.n = n /\ n = Len(object.parts) /\ Top.i = i /\ i < n
                 /\ Awaited(graph, w.ids, calls, Len(calls)) = parts[NextPart(graph, w.ids, Top)]
<1>1. PICK m : m = Len(calls) /\ m \in DOMAIN calls /\ m # 0
  BY WaitingFacts DEF Following
<1>2. PICK top : top = Top /\ top = calls[m] /\ top.stage = stage
  BY <1>1, WaitingFacts DEF Following
<1>3. /\ top \in Calls /\ q \in DOMAIN w.ids /\ q \in DOMAIN precedent
      /\ w.ids[q] \in Nodes /\ graph \in Graphs /\ IsSource(graph, object)
      /\ CallFits(graph, w.ids, precedent, top) /\ CallRead(graph, w.ids, precedent, heap, top)
  BY <1>1, <1>2, ObjectOfCall
<1>4. PICK parts : parts = Parts(object) /\ parts = PartsOf(graph, w.ids, top)
  BY <1>2 DEF PartsOf
<1>5. PICK l \in Nat, n \in Nat : PartsAre(graph, object, parts, l, n)
  BY <1>3, <1>4, PartsOfSource
<1>6. l = Len(parts) /\ n = Len(object.parts)
  BY <1>5 DEF PartsAre
<1>7. top.n = n /\ precedent[q] = p /\ top.i < n
  BY <1>2, <1>3, <1>6 DEF CallFits
<1>8. PICK i \in Nat : i = top.i
  BY <1>3 DEF Calls
<1>9. p \in Ptrs /\ p \in Ref /\ p # NIL /\ p # NoRef
  <2>1. stage \notin ClassStages
    BY DEF ClassStages
  <2>2. p \in Ptrs
    BY <2>1, WaitingFacts DEF Following
  <2>3. QED
    BY <2>2, RefAssumption, StreamAssumption DEF Ref
<1>10. Awaited(graph, w.ids, calls, m) = parts[NextPart(graph, w.ids, top)]
  BY <1>1, <1>2, <1>4 DEF Awaited
<1>11. Means(w.ids, precedent, value, Awaited(graph, w.ids, calls, m))
  BY <1>1, ValueAwaited DEF Waiting
<1>12. i < n
  BY <1>7, <1>8
<1>13. QED
  BY <1>1, <1>2, <1>3, <1>4, <1>5, <1>6, <1>7, <1>8, <1>9, <1>10, <1>11, <1>12

(* Its object changes, and no ID.                                            *)
LEMMA ChangeInHand ==
    ASSUME NEW w, Following(w), NEW q \in DOMAIN precedent, NEW p, precedent[q] = p, p # NIL,
           precedent' = precedent, \A a \in Ptrs \ {p} : heap'[a] = heap[a]
    PROVE  /\ Len(precedent') = Len(precedent) /\ OneToOne(precedent')
           /\ KeepsIds(w.ids, precedent, w.ids, precedent') /\ OthersStay(q)
<1>1. OneToOne(precedent) /\ DOMAIN w.ids = DOMAIN precedent
  BY FollowingFacts
<1>2. KeepsIds(w.ids, precedent, w.ids, precedent')
  BY <1>1 DEF KeepsIds
<1>3. ASSUME NEW k \in DOMAIN precedent, k # q
      PROVE  precedent[k] # p
  BY <1>1, <1>3 DEF OneToOne
<1>4. OthersStay(q)
  BY <1>3 DEF OthersStay
<1>5. QED
  BY <1>1, <1>2, <1>4

(* One slot more was read.                                                   *)
LEMMA SlotRead ==
    ASSUME NEW g, NEW ids, NEW prec, NEW h, NEW k, NEW t, NEW i \in Nat, NEW ref, NEW h2, NEW object,
           object = g.of[ids[k]], object.kind \in {"array", "plainArray", "frame"},
           ReadTo(g, ids, prec, h, k, t, i),
           NEW x, x = h[prec[k]], NEW b, b = h2[prec[k]], b # NoObject,
           b.tag = x.tag, b.head = x.head, b.length = x.length,
           \A j \in 0 .. i - 1 : b.slot[j] = x.slot[j],
           b.slot[i] = ref, Means(ids, prec, ref, object.parts[i + 1])
    PROVE  ReadTo(g, ids, prec, h2, k, t, i + 1)
<1>1. SlotsMean(ids, prec, x, object.parts, i)
  BY DEF ReadTo
<1>2. SlotsMean(ids, prec, b, object.parts, i + 1)
  <2>1. SUFFICES ASSUME NEW j \in 1 .. i + 1
                 PROVE  Means(ids, prec, b.slot[j - 1], object.parts[j])
    BY DEF SlotsMean
  <2>2. CASE j \in 1 .. i
    <3>1. j - 1 \in 0 .. i - 1
      BY <2>2
    <3>2. b.slot[j - 1] = x.slot[j - 1]
      BY <3>1
    <3>3. Means(ids, prec, x.slot[j - 1], object.parts[j])
      BY <1>1, <2>2 DEF SlotsMean
    <3>4. QED
      BY <3>2, <3>3
  <2>3. CASE j \notin 1 .. i
    <3>1. j = i + 1 /\ j - 1 = i
      BY <2>3
    <3>2. QED
      BY <3>1
  <2>4. QED
    BY <2>2, <2>3
<1>3. QED
  BY <1>2 DEF ReadTo

(* A slot gets its value, and the next slot is awaited, if there is one.     *)
LEMMA SlotValueFollows ==
    ASSUME NEW w, Following(w), GetSlotValue, graph' = graph
    PROVE  GraphInv'
<1>1. Waiting("slots")
  BY DEF GetSlotValue
<1>2. PICK q, p : q = Top.id /\ p = Top.ref
  OBVIOUS
<1>3. PICK object : object = graph.of[w.ids[q]]
  OBVIOUS
<1>4. /\ q \in DOMAIN w.ids /\ q \in DOMAIN precedent /\ precedent[q] = p
      /\ p \in Ptrs /\ p \in Ref /\ p # NIL /\ p # NoRef
      /\ graph \in Graphs /\ w.ids[q] \in Nodes /\ IsSource(graph, object)
      /\ CallFits(graph, w.ids, precedent, Top) /\ CallRead(graph, w.ids, precedent, heap, Top)
      /\ Means(w.ids, precedent, value, Awaited(graph, w.ids, calls, Len(calls)))
  BY <1>1, <1>2, <1>3, ObjectInHand
<1>5. PICK parts : \E l \in Nat, n \in Nat, i \in Nat :
         /\ parts = PartsOf(graph, w.ids, Top) /\ parts = Parts(object)
         /\ PartsAre(graph, object, parts, l, n) /\ l = Len(parts)
         /\ Top.n = n /\ n = Len(object.parts) /\ Top.i = i /\ i < n
         /\ Awaited(graph, w.ids, calls, Len(calls)) = parts[NextPart(graph, w.ids, Top)]
  BY <1>1, <1>2, <1>3, ObjectInHand
<1>6. PICK l \in Nat, n \in Nat, i \in Nat :
         /\ parts = PartsOf(graph, w.ids, Top) /\ parts = Parts(object)
         /\ PartsAre(graph, object, parts, l, n) /\ l = Len(parts)
         /\ Top.n = n /\ n = Len(object.parts) /\ Top.i = i /\ i < n
         /\ Awaited(graph, w.ids, calls, Len(calls)) = parts[NextPart(graph, w.ids, Top)]
  BY <1>5
<1>7. Top.stage = "slots"
  BY <1>1, WaitingFacts DEF Following
<1>8. PICK t : t = Len(object.tags)
  OBVIOUS
<1>9. object.kind \in {"array", "plainArray", "frame"}
  BY <1>2, <1>3, <1>4, <1>7 DEF CallFits
<1>10. ReadTo(graph, w.ids, precedent, heap, q, t, i)
  BY <1>2, <1>3, <1>4, <1>6, <1>7, <1>8 DEF CallRead
<1>11. object.kind = "frame" => t = n
  BY <1>6, <1>8 DEF PartsAre
<1>12. PICK x : x = heap[p]
  OBVIOUS
<1>13. x.length = n
  BY <1>3, <1>4, <1>6, <1>9, <1>10, <1>11, <1>12 DEF ReadTo
<1>14. SetSlotAsserts(x, i)
  BY <1>6, <1>13 DEF SetSlotAsserts
<1>15. PICK b : b = SetSlot(x, i, value)
  OBVIOUS
<1>16. /\ heap' = [heap EXCEPT ![p] = b] /\ More("slots", i + 1) /\ Local
       /\ precedent' = precedent
  BY <1>2, <1>6, <1>12, <1>14, <1>15 DEF GetSlotValue
<1>17. SoundFrame(x) \/ SoundArray(x)
  <2>1. "slots" \notin ClassStages
    BY DEF ClassStages
  <2>2. HasObject(heap, Top)
    BY <1>1, <2>1, WaitingFacts DEF Following
  <2>3. QED
    BY <1>2, <1>12, <2>2 DEF HasObject
<1>18. value \in Ref
  BY <1>1, WaitingFacts DEF Following
<1>19. /\ SoundArray(x) => SoundArray(b) /\ b.length = x.length
       /\ SoundFrame(x) => SoundFrame(b)
       /\ b.length = x.length /\ b.tag = x.tag
       /\ \A j \in 0 .. b.length - 1 : b.slot[j] = IF j = i THEN value ELSE x.slot[j]
  BY <1>14, <1>15, <1>17, <1>18, SlotStored
<1>20. b.head = x.head /\ b # NoObject
  <2>1. SoundArray(b) \/ SoundFrame(b)
    BY <1>17, <1>19
  <2>2. QED
    BY <1>15, <2>1, SoundIsSomething DEF SetSlot, Object
<1>21. /\ heap'[p] = b /\ \A a \in Ptrs \ {p} : heap'[a] = heap[a]
  <2>1. IInv
    BY DEF Following
  <2>2. QED
    BY <1>4, <1>12, <1>16, <1>17, <1>19, <2>1, ChangedObject
<1>22. /\ Len(precedent') = Len(precedent) /\ OneToOne(precedent')
       /\ KeepsIds(w.ids, precedent, w.ids, precedent') /\ OthersStay(q)
  BY <1>4, <1>16, <1>21, ChangeInHand
<1>23. PICK h2 : h2 = heap'
  OBVIOUS
<1>24. b.slot[i] = value /\ \A j \in 0 .. i - 1 : b.slot[j] = x.slot[j]
  <2>1. i \in 0 .. b.length - 1 /\ \A j \in 0 .. i - 1 : j \in 0 .. b.length - 1 /\ j # i
    BY <1>6, <1>13, <1>19
  <2>2. QED
    BY <1>19, <2>1
<1>25. NextPart(graph, w.ids, Top) = l - n + i + 1
  BY <1>6, <1>7 DEF NextPart
<1>26. n <= l /\ \A k \in 1 .. n : parts[l - n + k] = object.parts[k]
  BY <1>6 DEF PartsAre
<1>27. Means(w.ids, precedent, value, object.parts[i + 1])
  <2>1. i + 1 \in 1 .. n /\ l - n + (i + 1) = l - n + i + 1
    BY <1>6, <1>26
  <2>2. parts[l - n + (i + 1)] = object.parts[i + 1]
    BY <1>26, <2>1
  <2>3. QED
    BY <1>4, <1>6, <1>25, <2>1, <2>2
<1>28. ReadTo(graph, w.ids, precedent, h2, q, t, i + 1)
  <2>1. h2[precedent[q]] = b /\ heap[precedent[q]] = x
    BY <1>4, <1>12, <1>21, <1>23
  <2>2. QED
    BY <1>3, <1>9, <1>10, <1>19, <1>20, <1>24, <1>27, <2>1, SlotRead
<1>29. stream' = stream /\ pos' = pos /\ status' = "reading"
  BY <1>1, <1>16 DEF Local, Waiting
<1>30. CASE i + 1 < n
  <2>1. PICK c : c = Call("slots", p, q, i + 1, n)
    OBVIOUS
  <2>2. calls' = Replaced(c) /\ value' = NoRef
    BY <1>2, <1>6, <1>16, <1>30, <2>1 DEF More
  <2>3. c.id = q /\ c.stage = "slots" /\ c.i = i + 1 /\ c.n = n /\ c.ref = p
    BY <2>1 DEF Call
  <2>4. c \in Calls
    <3>1. q \in Nat
      BY <1>1, <1>2, WaitingFacts DEF Following, Calls
    <3>2. QED
      BY <1>4, <2>1, <3>1 DEF Call, Calls, Stages
  <2>5. CallFits(graph, w.ids, precedent', c)
    BY <1>3, <1>4, <1>6, <1>9, <1>16, <1>30, <2>3 DEF CallFits
  <2>6. CallRead(graph, w.ids, precedent', heap', c)
    BY <1>3, <1>8, <1>16, <1>23, <1>28, <2>3 DEF CallRead
  <2>7. NextPart(graph, w.ids, c) = NextPart(graph, w.ids, Top) + 1
    <3>1. PartsOf(graph, w.ids, c) = parts
      BY <1>3, <1>6, <2>3 DEF PartsOf
    <3>2. NextPart(graph, w.ids, c) = l - n + (i + 1) + 1
      BY <1>6, <2>3, <3>1 DEF NextPart
    <3>3. QED
      BY <1>25, <3>2
  <2>8. Tracks(graph, w, precedent', heap', calls', value')
    BY <1>1, <1>2, <1>22, <2>2, <2>3, <2>4, <2>5, <2>6, <2>7, CallGoesOn
  <2>9. QED
    BY <1>29, <2>8, StillFollowing DEF Following
<1>31. CASE ~(i + 1 < n)
  <2>1. calls' = Returns /\ value' = p /\ n = i + 1
    BY <1>2, <1>6, <1>16, <1>31 DEF More
  <2>2. IsComplete(graph, w.ids, precedent', heap', q)
    BY <1>3, <1>6, <1>8, <1>16, <1>23, <1>28, <2>1 DEF IsComplete
  <2>3. NextPart(graph, w.ids, Top) = Len(PartsOf(graph, w.ids, Top))
    BY <1>6, <1>25, <2>1
  <2>4. precedent'[q] = value' /\ value' # NoRef /\ value' # NIL
    BY <1>4, <1>16, <2>1
  <2>5. Tracks(graph, w, precedent', heap', calls', value')
    BY <1>1, <1>2, <1>22, <2>1, <2>2, <2>3, <2>4, CallEnds
  <2>6. QED
    BY <1>29, <2>5, StillFollowing DEF Following
<1>32. QED
  BY <1>30, <1>31

(* What a symbol was read as is a symbol of that name.                       *)
LEMMA SymbolIs ==
    ASSUME NEW w, Following(w), NEW ref, NEW v, Means(w.ids, precedent, ref, v),
           IsSymbolNode(graph, v)
    PROVE  ref \in Symbols /\ NameOf[ref] = graph.of[v].name
<1>1. v \in Nodes /\ graph.of[v].kind = "symbol"
  BY DEF IsSymbolNode
<1>2. PICK k \in DOMAIN w.ids : w.ids[k] = v /\ precedent[k] = ref
  BY <1>1 DEF Means
<1>3. \A j \in DOMAIN calls : calls[j].id # k
  BY <1>1, <1>2, ObjectOfCall
<1>4. IsComplete(graph, w.ids, precedent, heap, k)
  BY <1>2, <1>3, FollowingFacts DEF ReadSoFar
<1>5. QED
  BY <1>1, <1>2, <1>4 DEF IsComplete, ReadTo

(* A frame that has i tags, and the next one.                                *)
LEMMA TagIsNew ==
    ASSUME NEW w, Following(w), NEW object, IsSource(graph, object), object.kind = "frame",
           NEW n \in Nat, Len(object.tags) = n, NEW i \in Nat, i < n,
           NEW x, SoundFrame(x), x.head.length = i + 1,
           \A j \in 1 .. i : Means(w.ids, precedent, x.head.slot[j], object.tags[j]),
           NEW ref, NEW v, v = object.tags[i + 1], Means(w.ids, precedent, ref, v)
    PROVE  ref \in Symbols /\ ~HasTag(x, ref) /\ FrameSetSlotAsserts(x, ref)
<1>1. PICK tags \in Seq(Nodes) : tags = object.tags /\ DOMAIN tags = 1 .. n
  BY LenProperties DEF IsSource
<1>2. /\ \A j \in 1 .. n : IsSymbolNode(graph, tags[j])
      /\ \A j, k \in 1 .. n : graph.of[tags[j]].name = graph.of[tags[k]].name => j = k
      /\ n + 1 < SizeLimit
  BY <1>1 DEF IsSource
<1>3. i + 1 \in 1 .. n /\ \A j \in 1 .. i : j \in 1 .. n /\ j # i + 1
  OBVIOUS
<1>4. ref \in Symbols /\ NameOf[ref] = graph.of[v].name
  <2>1. IsSymbolNode(graph, v)
    BY <1>1, <1>2, <1>3
  <2>2. QED
    BY <2>1, SymbolIs
<1>5. ASSUME NEW j \in 1 .. i
      PROVE  x.head.slot[j] \in Symbols /\ NameOf[x.head.slot[j]] = graph.of[tags[j]].name
  <2>1. PICK s, u : s = x.head.slot[j] /\ u = tags[j]
    OBVIOUS
  <2>2. Means(w.ids, precedent, s, u) /\ IsSymbolNode(graph, u)
    BY <1>1, <1>2, <1>3, <2>1
  <2>3. s \in Symbols /\ NameOf[s] = graph.of[u].name
    BY <2>2, SymbolIs
  <2>4. QED
    BY <2>1, <2>3
<1>6. ASSUME NEW j \in 1 .. i
      PROVE  ~SymbolsEqual(x.head.slot[j], ref)
  <2>1. SUFFICES ASSUME SymbolsEqual(x.head.slot[j], ref)
                 PROVE  FALSE
    OBVIOUS
  <2>2. NameOf[x.head.slot[j]] = NameOf[ref]
    BY <2>1 DEF SymbolsEqual
  <2>3. graph.of[tags[j]].name = graph.of[tags[i + 1]].name
    BY <1>1, <1>4, <1>5, <2>2
  <2>4. j \in 1 .. n /\ j # i + 1 /\ i + 1 \in 1 .. n
    BY <1>3
  <2>5. QED
    BY <1>2, <2>3, <2>4
<1>7. ~HasTag(x, ref)
  <2>1. x.head.length - 1 = i
    OBVIOUS
  <2>2. QED
    BY <1>6, <2>1 DEF HasTag, TagSlots
<1>8. Room(x.head)
  BY <1>2, SizeAssumption DEF Room
<1>9. QED
  BY <1>4, <1>7, <1>8, RoomForTag

(* One tag more was read.                                                    *)
TagSet(ids, prec, x, ref, object, i) ==
    /\ i \in Nat /\ SoundFrame(x) /\ x.length = i /\ x.head.length = i + 1
    /\ \A j \in 1 .. i : Means(ids, prec, x.head.slot[j], object.tags[j])
    /\ ref \in Symbols /\ ~HasTag(x, ref) /\ FrameSetSlotAsserts(x, ref)
    /\ Means(ids, prec, ref, object.tags[i + 1])

HasTags(ids, prec, b, object, i) ==
    /\ SoundFrame(b) /\ b # NoObject /\ b.tag = "frame"
    /\ b.length = i + 1 /\ b.head.length = (i + 1) + 1
    /\ \A j \in 1 .. i + 1 : Means(ids, prec, b.head.slot[j], object.tags[j])

(* The frame that Frame::SetSlot makes has the tags that were written.       *)
LEMMA TagRead ==
    ASSUME NEW ids, NEW prec, NEW x, NEW ref, NEW object, NEW i,
           TagSet(ids, prec, x, ref, object, i), NEW b, b = FrameSetSlot(x, ref, NIL)
    PROVE  HasTags(ids, prec, b, object, i)
<1> /\ i \in Nat /\ SoundFrame(x) /\ x.length = i /\ x.head.length = i + 1
    /\ \A j \in 1 .. i : Means(ids, prec, x.head.slot[j], object.tags[j])
    /\ ref \in Symbols /\ ~HasTag(x, ref) /\ FrameSetSlotAsserts(x, ref)
    /\ Means(ids, prec, ref, object.tags[i + 1])
  BY DEF TagSet
<1>1. SoundFrame(b) /\ Bound(x, b, ref, NIL)
  <2>1. NIL \in Ref
    BY RefAssumption DEF Ref
  <2>2. QED
    BY <2>1, FrameGrow
<1>2. b # NoObject /\ b.tag = "frame"
  BY <1>1, SoundIsSomething
<1>3. b.length = i + 1 /\ b.head.slot[i + 1] = ref /\ \A j \in 1 .. i : b.head.slot[j] = x.head.slot[j]
  BY <1>1 DEF Bound
<1>4. b.head.length = (i + 1) + 1
  BY <1>1, <1>3 DEF SoundFrame, InStep
<1>5. ASSUME NEW j \in 1 .. i + 1
      PROVE  Means(ids, prec, b.head.slot[j], object.tags[j])
  <2>1. CASE j \in 1 .. i
    BY <1>3, <2>1
  <2>2. CASE j = i + 1
    BY <1>3, <2>2
  <2>3. QED
    BY <2>1, <2>2
<1>6. QED
  BY <1>1, <1>2, <1>3, <1>4, <1>5 DEF HasTags

(* A frame grows by the tag that was written, and awaits the next part.      *)
LEMMA TagFollows ==
    ASSUME NEW w, Following(w), GetTag, graph' = graph
    PROVE  GraphInv'
<1>1. Waiting("tags") /\ "tags" \in {"tags", "slots"}
  BY DEF GetTag
<1>2. PICK q, p : q = Top.id /\ p = Top.ref
  OBVIOUS
<1>3. PICK object : object = graph.of[w.ids[q]]
  OBVIOUS
<1>4. /\ q \in DOMAIN w.ids /\ q \in DOMAIN precedent /\ precedent[q] = p
      /\ p \in Ptrs /\ p \in Ref /\ p # NIL /\ p # NoRef
      /\ graph \in Graphs /\ w.ids[q] \in Nodes /\ IsSource(graph, object)
      /\ CallFits(graph, w.ids, precedent, Top) /\ CallRead(graph, w.ids, precedent, heap, Top)
      /\ Means(w.ids, precedent, value, Awaited(graph, w.ids, calls, Len(calls)))
  BY <1>1, <1>2, <1>3, ObjectInHand
<1>5. PICK parts : \E l \in Nat, n \in Nat, i \in Nat :
         /\ parts = PartsOf(graph, w.ids, Top) /\ parts = Parts(object)
         /\ PartsAre(graph, object, parts, l, n) /\ l = Len(parts)
         /\ Top.n = n /\ n = Len(object.parts) /\ Top.i = i /\ i < n
         /\ Awaited(graph, w.ids, calls, Len(calls)) = parts[NextPart(graph, w.ids, Top)]
  BY <1>1, <1>2, <1>3, ObjectInHand
<1>6. PICK l \in Nat, n \in Nat, i \in Nat :
         /\ parts = PartsOf(graph, w.ids, Top) /\ parts = Parts(object)
         /\ PartsAre(graph, object, parts, l, n) /\ l = Len(parts)
         /\ Top.n = n /\ n = Len(object.parts) /\ Top.i = i /\ i < n
         /\ Awaited(graph, w.ids, calls, Len(calls)) = parts[NextPart(graph, w.ids, Top)]
  BY <1>5
<1>7. Top.stage = "tags"
  BY <1>1, WaitingFacts DEF Following
<1>8. object.kind = "frame"
  BY <1>2, <1>3, <1>4, <1>7 DEF CallFits
<1>9. Len(object.tags) = n /\ l = n + n /\ \A k \in 1 .. n : parts[k] = object.tags[k]
  BY <1>6, <1>8 DEF PartsAre
<1>10. ReadTo(graph, w.ids, precedent, heap, q, i, 0)
  BY <1>2, <1>4, <1>6, <1>7 DEF CallRead
<1>11. PICK x : x = heap[p]
  OBVIOUS
<1>12. /\ x.length = i /\ x.head.length = i + 1
       /\ \A j \in 1 .. i : Means(w.ids, precedent, x.head.slot[j], object.tags[j])
  BY <1>3, <1>4, <1>8, <1>10, <1>11 DEF ReadTo
<1>13. SoundFrame(x)
  <2>1. "tags" \notin ClassStages
    BY DEF ClassStages
  <2>2. HasObject(heap, Top)
    BY <1>1, <2>1, WaitingFacts DEF Following
  <2>3. QED
    BY <1>2, <1>7, <1>11, <2>2 DEF HasObject
<1>14. NextPart(graph, w.ids, Top) = i + 1
  BY <1>6, <1>7 DEF NextPart
<1>15. PICK v : v = object.tags[i + 1]
  OBVIOUS
<1>16. Means(w.ids, precedent, value, v)
  <2>1. i + 1 \in 1 .. n
    BY <1>6
  <2>2. parts[i + 1] = v
    BY <1>9, <1>15, <2>1
  <2>3. QED
    BY <1>4, <1>6, <1>14, <2>2
<1>17. value \in Symbols /\ ~HasTag(x, value) /\ FrameSetSlotAsserts(x, value)
  BY <1>4, <1>6, <1>8, <1>9, <1>12, <1>13, <1>15, <1>16, TagIsNew
<1>18. PICK b : b = FrameSetSlot(x, value, NIL)
  OBVIOUS
<1>19. HasTags(w.ids, precedent, b, object, i)
  <2>1. TagSet(w.ids, precedent, x, value, object, i)
    BY <1>6, <1>12, <1>13, <1>15, <1>16, <1>17 DEF TagSet
  <2>2. QED
    BY <1>18, <2>1, TagRead
<1>20. PICK c : c = IF i + 1 < n THEN Call("tags", p, q, i + 1, n) ELSE Call("slots", p, q, 0, n)
  OBVIOUS
<1>21. /\ heap' = [heap EXCEPT ![p] = b] /\ calls' = Replaced(c) /\ value' = NoRef
       /\ Local /\ precedent' = precedent
  BY <1>2, <1>6, <1>11, <1>17, <1>18, <1>20 DEF GetTag
<1>22. /\ heap'[p] = b /\ \A a \in Ptrs \ {p} : heap'[a] = heap[a]
  <2>1. IInv /\ SoundFrame(heap[p]) /\ SoundFrame(b)
    BY <1>11, <1>13, <1>19 DEF Following, HasTags
  <2>2. QED
    BY <1>4, <1>21, <2>1, ChangedObject
<1>23. /\ Len(precedent') = Len(precedent) /\ OneToOne(precedent')
       /\ KeepsIds(w.ids, precedent, w.ids, precedent') /\ OthersStay(q)
  BY <1>4, <1>21, <1>22, ChangeInHand
<1>24. PICK h2 : h2 = heap'
  OBVIOUS
<1>25. PICK t : t = i + 1
  OBVIOUS
<1>26. ReadTo(graph, w.ids, precedent, h2, q, t, 0)
  <2>1. \A k \in 1 .. 0 : FALSE
    OBVIOUS
  <2>2. SlotsMean(w.ids, precedent, b, object.parts, 0)
    BY <2>1 DEF SlotsMean
  <2>3. h2[precedent[q]] = b /\ precedent[q] \in Ptrs
    BY <1>4, <1>22, <1>24
  <2>4. /\ b.tag = "frame" /\ b.length = t /\ b.head.length = t + 1 /\ b # NoObject
        /\ \A j \in 1 .. t : Means(w.ids, precedent, b.head.slot[j], object.tags[j])
    BY <1>19, <1>25 DEF HasTags
  <2>5. QED
    BY <1>3, <1>8, <2>2, <2>3, <2>4 DEF ReadTo
<1>27. c.id = q /\ c.n = n /\ c.ref = p
  BY <1>20 DEF Call
<1>28. q \in Nat
  BY <1>1, <1>2, WaitingFacts DEF Following, Calls
<1>29. PartsOf(graph, w.ids, c) = parts
  BY <1>3, <1>6, <1>27 DEF PartsOf
<1>30. /\ c \in Calls /\ CallFits(graph, w.ids, precedent', c)
       /\ CallRead(graph, w.ids, precedent', heap', c)
       /\ NextPart(graph, w.ids, c) = NextPart(graph, w.ids, Top) + 1
  <2>1. CASE i + 1 < n
    <3>1. c = Call("tags", p, q, i + 1, n) /\ c.stage = "tags" /\ c.i = i + 1
      BY <1>20, <2>1 DEF Call
    <3>2. c \in Calls
      BY <1>4, <1>28, <3>1 DEF Call, Calls, Stages
    <3>3. CallFits(graph, w.ids, precedent', c)
      BY <1>3, <1>4, <1>6, <1>8, <1>21, <1>27, <2>1, <3>1 DEF CallFits
    <3>4. CallRead(graph, w.ids, precedent', heap', c)
      BY <1>21, <1>24, <1>25, <1>26, <1>27, <3>1 DEF CallRead
    <3>5. NextPart(graph, w.ids, c) = (i + 1) + 1
      BY <3>1 DEF NextPart
    <3>6. QED
      BY <1>14, <3>2, <3>3, <3>4, <3>5
  <2>2. CASE ~(i + 1 < n)
    <3>1. c = Call("slots", p, q, 0, n) /\ c.stage = "slots" /\ c.i = 0 /\ n = i + 1
      BY <1>6, <1>20, <2>2 DEF Call
    <3>2. c \in Calls
      BY <1>4, <1>28, <3>1 DEF Call, Calls, Stages
    <3>3. CallFits(graph, w.ids, precedent', c)
      <4>1. 0 < n /\ n = Len(object.parts)
        BY <1>6
      <4>2. c.stage = "slots" /\ c.i < c.n
        BY <1>27, <3>1, <4>1
      <4>3. c.n = Len(object.parts) /\ c.ref = precedent'[q]
        BY <1>4, <1>21, <1>27, <4>1
      <4>4. QED
        BY <1>3, <1>8, <1>27, <4>2, <4>3 DEF CallFits
    <3>4. CallRead(graph, w.ids, precedent', heap', c)
      <4>1. t = Len(object.tags)
        BY <1>9, <1>25, <3>1
      <4>2. QED
        BY <1>3, <1>21, <1>24, <1>26, <1>27, <3>1, <4>1 DEF CallRead
    <3>5. NextPart(graph, w.ids, c) = l - n + 0 + 1
      BY <1>6, <1>27, <1>29, <3>1 DEF NextPart
    <3>6. QED
      BY <1>9, <1>14, <3>1, <3>2, <3>3, <3>4, <3>5
  <2>3. QED
    BY <2>1, <2>2
<1>31. Tracks(graph, w, precedent', heap', calls', value')
  BY <1>1, <1>2, <1>21, <1>23, <1>27, <1>30, CallGoesOn
<1>32. stream' = stream /\ pos' = pos /\ status' = "reading"
  BY <1>1, <1>21 DEF Local, Waiting
<1>33. QED
  BY <1>31, <1>32, StillFollowing DEF Following

-----------------------------------------------------------------------------
(* The version number was read; the writer has the root to write.            *)
LEMMA VersionFollows ==
    ASSUME IInv, GraphInv, graph \in Graphs, graph # NoGraph, NoneNegative(graph), Read, graph' = graph
    PROVE  GraphInv'
<1>1. status = "open" /\ pos = 1 /\ precedent = << >> /\ calls = << >>
  BY DEF Read, IInv
<1>2. stream = WrittenOf[graph].stream /\ value = NoRef
  BY <1>1 DEF GraphInv
<1>3. Len(stream) \in Nat \ {0} /\ stream[1] = Token("version", 2)
  BY <1>2, StreamOfGraph
<1>4. /\ stream' = stream /\ pos' = 2 /\ status' = "reading"
      /\ precedent' = << >> /\ calls' = << >> /\ value' = NoRef
  <2>1. ~(1 > Len(stream))
    <3>1. PICK n \in Nat \ {0} : n = Len(stream)
      BY <1>3
    <3>2. ~(1 > n)
      OBVIOUS
    <3>3. QED
      BY <3>1, <3>2
  <2>2. ~(pos > Len(stream)) /\ stream[pos] = Token("version", 2)
    BY <1>1, <1>3, <2>1
  <2>3. stream' = stream /\ pos' = pos + 1 /\ status' = "reading" /\ UNCHANGED <<precedent, calls, value>>
    BY <2>2 DEF Read
  <2>4. QED
    BY <1>1, <1>2, <2>3
<1>5. pos' \in 2 .. Len(stream') + 1
  BY <1>3, <1>4
<1>6. Writing(graph)[2] = Writer(<<graph.root>>, << >>)
  BY WriterSteps
<1>7. PICK w : w = Writing(graph)[2] /\ w.todo = <<graph.root>> /\ w.ids = << >>
  BY <1>6 DEF Writer
<1>8. DOMAIN << >> = {} /\ Len(<< >>) = 0
  OBVIOUS
<1>9. IsInjective(w.ids) /\ OneToOne(<< >>)
  BY <1>7, <1>8 DEF IsInjective, OneToOne
<1>10. PICK h2 : h2 = heap'
  OBVIOUS
<1>11. ReadSoFar(graph, w.ids, << >>, h2, << >>)
  BY <1>7, <1>8 DEF ReadSoFar
<1>12. Nested(graph, w.ids, << >>, << >>)
  BY <1>8 DEF Nested
<1>13. InStepWith(graph, w, << >>, << >>, << >>, NoRef)
  <2>1. <<graph.root>> \o << >> = <<graph.root>>
    OBVIOUS
  <2>2. QED
    BY <1>7, <1>8, <2>1 DEF InStepWith, Awaited, Behind
<1>14. Tracks(graph, w, << >>, h2, << >>, NoRef)
  BY <1>7, <1>9, <1>11, <1>12, <1>13 DEF Tracks
<1>15. Tracks(graph', Writing(graph')[pos'], precedent', heap', calls', value')
  BY <1>4, <1>7, <1>10, <1>14
<1>16. stream' = WrittenOf[graph'].stream
  BY <1>2, <1>4
<1>17. QED
  BY <1>4, <1>5, <1>15, <1>16 DEF GraphInv, Deaths

(* The last value was read.                                                  *)
LEMMA FinishFollows ==
    ASSUME NEW w, Following(w), Finish, graph' = graph
    PROVE  GraphInv'
<1>1. UNCHANGED <<stream, pos, precedent, heap, calls, value>> /\ status' = "read" /\ value # NoRef
  BY DEF Finish
<1>2. Tracks(graph', Writing(graph')[pos'], precedent', heap', calls', value')
  BY <1>1 DEF Following
<1>3. stream' = WrittenOf[graph'].stream /\ pos' \in 2 .. Len(stream') + 1
  BY <1>1 DEF Following
<1>4. QED
  BY <1>1, <1>2, <1>3 DEF GraphInv, Deaths

(* Every step keeps the reader in step with the writer.                      *)
GraphIInv == graph \in Graphs \cup {NoGraph} /\ IInv /\ GraphInv

(* Each step of the reader, in a graph that has no negative integer.         *)
LEMMA ReadStepFollows ==
    ASSUME GraphIInv, ReadStep, graph' = graph
    PROVE  GraphInv'
<1>1. SUFFICES ASSUME graph # NoGraph, NoneNegative(graph)
               PROVE  GraphInv'
  BY DEF GraphInv
<1>2. graph \in Graphs /\ IInv /\ GraphInv
  BY <1>1 DEF GraphIInv
<1>3. CASE Read
  BY <1>1, <1>2, <1>3, VersionFollows
<1>4. CASE ~Read
  <2>1. status = "reading"
    BY <1>4 DEF ReadStep, ReadPastEnd, ReadImmediate, ReadNil, ReadPrecedent, ReadSymbol, ReadString,
                ReadClassed, ReadUnclassed, GetBinaryClass, GetArrayClass, GetSlotValue, GetTag, Finish,
                TokenIs, Reading, Waiting
  <2>2. PICK w : Following(w)
    BY <1>1, <1>2, <2>1 DEF Following, GraphInv
  <2>3. CASE ReadPastEnd
    BY <2>2, <2>3, NeverPastEnd
  <2>4. CASE ReadNil
    BY <2>2, <2>4, NothingIsNil
  <2>5. QED
    BY <1>4, <2>2, <2>3, <2>4, ImmediateFollows, PrecedentFollows, SymbolFollows, StringFollows,
       ClassedFollows, UnclassedFollows, BinaryClassFollows, ArrayClassFollows, SlotValueFollows,
       TagFollows, FinishFollows DEF ReadStep
<1>5. QED
  BY <1>3, <1>4

(* and read_next_ keeps its own invariant.                                   *)
LEMMA ReadStepSound == IInv /\ ReadStep => IInv'
<1> SUFFICES ASSUME IInv, ReadStep
             PROVE  IInv'
  OBVIOUS
<1>1. CASE ReadPastEnd
  BY <1>1, DeathSound DEF ReadPastEnd, Deaths
<1>2. QED
  BY <1>1, ReadSound, ReadImmediateSound, ReadNilSound, ReadPrecedentSound,
     ReadSymbolSound, ReadStringSound, ReadClassedSound, ReadUnclassedSound,
     GetBinaryClassSound, GetArrayClassSound, GetSlotValueSound, GetTagSound, FinishSound
     DEF ReadStep

(* and so does a reader that has stopped.                                    *)
LEMMA UnchangedSound == IInv /\ UNCHANGED vars => IInv'
<1> SUFFICES ASSUME IInv, UNCHANGED vars
             PROVE  IInv'
  OBVIOUS
<1>1. UNCHANGED <<stream, pos, precedent, heap, calls, value, status>>
  BY DEF vars
<1>2. IdsInOrder' /\ (HasNoUnref' => NothingLooksUnfilled')
  BY <1>1 DEF IInv, IdsInOrder, ObjectsRead, HasNoUnref, NothingLooksUnfilled
<1>3. QED
  BY <1>1, <1>2 DEF IInv

(* The invariant of reader and writer, for every graph and every stream.     *)
LEMMA GraphIInvHolds == GraphSpec => []GraphIInv
<1>1. GraphInit => GraphIInv
  <2>1. GraphInit => GraphInv
    BY DEF GraphInit, Init, GraphInv, Deaths
  <2>2. QED
    BY <2>1, Initially DEF GraphInit, GraphIInv
<1>2. ASSUME GraphIInv, UNCHANGED <<vars, graph>>
      PROVE  GraphIInv'
  <2>1. UNCHANGED <<stream, pos, precedent, heap, calls, value, status, graph>>
    BY <1>2 DEF vars
  <2>2. GraphInv'
    BY <1>2, <2>1 DEF GraphIInv, GraphInv
  <2>3. IInv'
    BY <1>2, UnchangedSound DEF GraphIInv
  <2>4. QED
    BY <1>2, <2>1, <2>2, <2>3 DEF GraphIInv
<1>3. ASSUME GraphIInv, OpenStream, graph' = graph
      PROVE  GraphIInv'
  <2>1. CASE graph # NoGraph /\ Open(WrittenOf[graph].stream)
    <3>1. graph \in Graphs /\ IInv
      BY <1>3, <2>1 DEF GraphIInv
    <3>2. IInv'
      BY <2>1, <3>1, GraphStream, OpenSound
    <3>3. stream' = WrittenOf[graph].stream /\ status' = "open" /\ value' = NoRef
      BY <2>1, <3>1 DEF Open, IInv
    <3>4. GraphInv'
      BY <1>3, <3>3 DEF GraphInv, Deaths
    <3>5. QED
      BY <1>3, <3>2, <3>4 DEF GraphIInv
  <2>2. CASE graph = NoGraph /\ \E contents \in Streams : Open(contents)
    <3>1. IInv'
      BY <1>3, <2>2, StreamAssumption, OpenSound DEF GraphIInv
    <3>2. QED
      BY <1>3, <2>2, <3>1 DEF GraphIInv, GraphInv
  <2>3. QED
    BY <1>3, <2>1, <2>2 DEF OpenStream
<1>4. ASSUME GraphIInv, ReadStep, graph' = graph
      PROVE  GraphIInv'
  BY <1>4, ReadStepFollows, ReadStepSound DEF GraphIInv
<1>5. GraphIInv /\ [GraphNext]_<<vars, graph>> => GraphIInv'
  BY <1>2, <1>3, <1>4 DEF GraphNext, Stopped
<1>6. QED
  BY <1>1, <1>5, PTL DEF GraphSpec

(* What was read is what was written.                                        *)
LEMMA MeansImage ==
    ASSUME NEW ids, ids = Ids, IsInjective(ids), NEW ref, NEW v, Means(ids, precedent, ref, v)
    PROVE  ref = Image(v)
<1>1. CASE v \in Nodes
  <2>1. PICK k \in DOMAIN ids : ids[k] = v /\ precedent[k] = ref
    BY <1>1 DEF Means
  <2>2. IdOf(ids, v) = k
    <3>1. \A j \in DOMAIN ids : ids[j] = v => j = k
      BY <2>1 DEF IsInjective
    <3>2. QED
      BY <2>1, <3>1 DEF IdOf
  <2>3. QED
    BY <1>1, <2>1, <2>2 DEF Image
<1>2. CASE v \notin Nodes
  BY <1>2 DEF Means, Image
<1>3. QED
  BY <1>1, <1>2

(* An object of which every part was read is the object that was written.    *)
LEMMA ObjectIsSame ==
    ASSUME NEW ids, ids = Ids, IsInjective(ids), NEW k \in DOMAIN ids, NEW v, v = ids[k],
           v \in Nodes, precedent[k] # NIL, IsSource(graph, graph.of[v]),
           IsComplete(graph, ids, precedent, heap, k)
    PROVE  SameObject(v)
<1>1. PICK object : object = graph.of[v]
  OBVIOUS
<1>2. Image(v) = precedent[k]
  <2>1. Means(ids, precedent, precedent[k], v)
    BY DEF Means
  <2>2. QED
    BY <2>1, MeansImage
<1>3. PICK x : x = heap[precedent[k]]
  OBVIOUS
<1>4. PICK parts \in Seq(Nodes \cup Int) : parts = object.parts
  BY <1>1 DEF IsSource
<1>5. PICK tags \in Seq(Nodes) : tags = object.tags
  BY <1>1 DEF IsSource
<1>6. PICK n \in Nat, t \in Nat : n = Len(parts) /\ t = Len(tags) /\ DOMAIN parts = 1 .. n /\ DOMAIN tags = 1 .. t
  BY LenProperties
<1>7. ReadTo(graph, ids, precedent, heap, k, t, n)
  BY <1>1, <1>4, <1>5, <1>6 DEF IsComplete
<1>8. object.kind # "symbol" => \A i \in DOMAIN parts : x.slot[i - 1] = Image(parts[i])
  <2>1. SUFFICES ASSUME object.kind # "symbol", NEW i \in DOMAIN parts
                 PROVE  x.slot[i - 1] = Image(parts[i])
    OBVIOUS
  <2>2. SlotsMean(ids, precedent, x, parts, n)
    BY <1>1, <1>3, <1>4, <1>7, <2>1 DEF ReadTo
  <2>3. Means(ids, precedent, x.slot[i - 1], parts[i])
    BY <1>6, <2>1, <2>2 DEF SlotsMean
  <2>4. QED
    BY <2>3, MeansImage
<1>9. CASE object.kind = "symbol"
  BY <1>1, <1>2, <1>7, <1>9 DEF ReadTo, SameObject
<1>10. CASE object.kind = "string"
  BY <1>1, <1>2, <1>7, <1>10 DEF ReadTo, SameObject
<1>11. CASE object.kind = "binary"
  <2>1. x = Binary(x.head) /\ Means(ids, precedent, x.head, object.class)
    BY <1>1, <1>3, <1>7, <1>11 DEF ReadTo
  <2>2. x.head = Image(object.class)
    BY <2>1, MeansImage
  <2>3. QED
    BY <1>1, <1>2, <1>3, <1>11, <2>1, <2>2 DEF SameObject
<1>12. CASE object.kind = "array"
  <2>1. x.tag = "array" /\ x.length = n /\ Means(ids, precedent, x.head, object.class)
    BY <1>1, <1>3, <1>4, <1>6, <1>7, <1>12 DEF ReadTo
  <2>2. x.head = Image(object.class)
    BY <2>1, MeansImage
  <2>3. Holds(x, parts)
    BY <1>6, <1>8, <1>12, <2>1 DEF Holds
  <2>4. QED
    BY <1>1, <1>2, <1>3, <1>4, <1>12, <2>1, <2>2, <2>3 DEF SameObject
<1>13. CASE object.kind = "plainArray"
  <2>1. x.tag = "array" /\ x.length = n /\ x.head = ArrayClass
    BY <1>1, <1>3, <1>4, <1>6, <1>7, <1>13 DEF ReadTo
  <2>2. Holds(x, parts)
    BY <1>6, <1>8, <1>13, <2>1 DEF Holds
  <2>3. QED
    BY <1>1, <1>2, <1>3, <1>4, <1>13, <2>1, <2>2 DEF SameObject
<1>14. CASE object.kind = "frame"
  <2>1. /\ x.tag = "frame" /\ x.length = t /\ x.head.length = t + 1
        /\ \A i \in 1 .. t : Means(ids, precedent, x.head.slot[i], tags[i])
    BY <1>1, <1>3, <1>5, <1>7, <1>14 DEF ReadTo
  <2>2. t = n
    BY <1>1, <1>4, <1>5, <1>6, <1>14 DEF IsSource
  <2>3. Holds(x, parts)
    BY <1>6, <1>8, <1>14, <2>1, <2>2 DEF Holds
  <2>4. \A i \in DOMAIN tags : x.head.slot[i] = Image(tags[i])
    BY <1>6, <2>1, MeansImage
  <2>5. QED
    BY <1>1, <1>2, <1>3, <1>4, <1>5, <1>6, <1>14, <2>1, <2>3, <2>4 DEF SameObject
<1>15. QED
  BY <1>1, <1>9, <1>10, <1>11, <1>12, <1>13, <1>14 DEF IsSource, ObjectTags

(* In the end the writer has nothing to write, and nothing is awaited.       *)
LEMMA ReadAsWritten ==
    ASSUME GraphIInv, graph # NoGraph, NoneNegative(graph), status = "read"
    PROVE  pos = Len(stream) + 1 /\ SameAsWritten
<1>1. /\ graph \in Graphs /\ IInv /\ stream = WrittenOf[graph].stream
      /\ pos \in 2 .. Len(stream) + 1 /\ value # NoRef
      /\ Tracks(graph, Writing(graph)[pos], precedent, heap, calls, value)
  BY DEF GraphIInv, GraphInv
<1>2. PICK w, W : W = Writing(graph) /\ w = W[pos]
  OBVIOUS
<1>3. PICK n \in Nat : n = Len(stream)
  BY <1>1, StreamOfGraph
<1>4. calls = << >> /\ Len(calls) = 0 /\ DOMAIN calls = {}
  BY <1>1 DEF IInv
<1>5. w.todo = << >> /\ Means(w.ids, precedent, value, graph.root)
  <2>1. Tracks(graph, w, precedent, heap, calls, value)
    BY <1>1, <1>2
  <2>2. PICK rests : InStepWith(graph, w, calls, rests, precedent, value)
    BY <2>1 DEF Tracks
  <2>3. /\ w.todo = Behind(graph, w.ids, calls, rests, 0)
        /\ Means(w.ids, precedent, value, Awaited(graph, w.ids, calls, 0))
    BY <1>1, <1>4, <2>2 DEF InStepWith
  <2>4. QED
    BY <2>3 DEF Behind, Awaited
<1>6. Ends(W, n + 1) /\ Ids = W[n + 1].ids
  <2>1. graph \in Graphs /\ W = Writing(graph) /\ stream = WrittenOf[graph].stream
    BY <1>1, <1>2
  <2>2. Ends(W, Len(stream) + 1) /\ WrittenOf[graph].ids = W[Len(stream) + 1].ids
    BY ONLY <2>1, StreamOfGraph
  <2>3. QED
    BY <1>3, <2>2 DEF Ids
<1>7. pos = n + 1
  <2>1. \A j \in 2 .. n : W[j].todo # << >>
    BY <1>6 DEF Ends
  <2>2. pos \in 2 .. n + 1 /\ pos \notin 2 .. n
    BY <1>1, <1>2, <1>3, <1>5, <2>1
  <2>3. QED
    BY <2>2
<1>8. PICK ids : ids = w.ids /\ ids = Ids
  BY <1>2, <1>6, <1>7
<1>9. /\ IsInjective(ids) /\ Len(ids) = Len(precedent) /\ OneToOne(precedent)
      /\ \A k \in DOMAIN ids : IsComplete(graph, ids, precedent, heap, k)
  BY <1>1, <1>2, <1>4, <1>8 DEF Tracks, ReadSoFar
<1>10. \A k \in DOMAIN precedent : precedent[k] # NIL
  BY <1>1, <1>4 DEF IInv, HolesMatch
<1>11. IsInjective(precedent)
  BY <1>9, <1>10 DEF OneToOne, IsInjective
<1>12. ids \in Seq(Nodes) /\ DOMAIN ids = DOMAIN precedent
  <2>1. n + 1 \in 2 .. LongestStream + 1
    BY <1>1, <1>3, StreamOfGraph
  <2>2. ids \in Seq(Nodes)
    BY <1>1, <1>2, <1>7, <1>8, <2>1, WriterTyped DEF Typed
  <2>3. QED
    BY <1>1, <1>9, <2>2, LenProperties DEF IInv
<1>13. value = Image(graph.root)
  BY <1>5, <1>8, <1>9, MeansImage
<1>14. ASSUME NEW k \in DOMAIN Ids
       PROVE  SameObject(Ids[k])
  <2>1. PICK v \in Nodes : v = ids[k]
    BY <1>8, <1>12, LenProperties, ElementOfSeq
  <2>2. IsSource(graph, graph.of[v])
    BY <1>1, <2>1, GraphAssumption DEF IsGraph
  <2>3. SameObject(v)
    BY <1>8, <1>9, <1>10, <1>12, <2>1, <2>2, ObjectIsSame
  <2>4. QED
    BY <1>8, <2>1, <2>3
<1>15. QED
  BY <1>3, <1>7, <1>11, <1>13, <1>14 DEF SameAsWritten

(* Every graph is read to its last token as it was written, with its sharing *)
(* and its cycles, and nothing stops the reader: for every graph of objects  *)
(* whose integers are not negative and whose counts the object system holds. *)
THEOREM GraphsAreRead == GraphSpec => []SameGraph
<1>1. GraphIInv => SameGraph
  <2>1. GraphIInv /\ graph # NoGraph /\ NoneNegative(graph) => status \notin Deaths
    BY DEF GraphIInv, GraphInv
  <2>2. QED
    BY <2>1, ReadAsWritten DEF SameGraph, SameAsWritten
<1>2. QED
  BY <1>1, GraphIInvHolds, PTL
=============================================================================
