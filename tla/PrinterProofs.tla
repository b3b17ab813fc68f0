---------------------------- MODULE PrinterProofs ----------------------------
(***************************************************************************)
(* For every graph and every depth: current_depth_ counts the arrays and   *)
(* frames that are open, and bounds the recursion of the Print methods,    *)
(* although nothing counts the binaries that are open.                     *)
(***************************************************************************)
EXTENDS Printer, Integers, FiniteSetTheorems, SequenceTheorems, TLAPS

Refs  == DOMAIN graph.of
Call  == [ref : Refs, next : Nat \ {0}]
Items == [what : {"open", "close", "address", "plain", "quoted"}, ref : Refs]

OpenIn(s)   == {k \in DOMAIN s : KindOf(s[k].ref) \in Containers}
BinaryIn(s) == {k \in DOMAIN s : KindOf(s[k].ref) \in Binaries}

(* A binary prints its class and nothing else.                               *)
Follows(ref, part) == KindOf(ref) \in Binaries => part = graph.of[ref].class

(* What may be on the stack: each object was reached from the one before.    *)
IsStack(s) ==
    /\ s \in Seq(Call)
    /\ \A k \in 1 .. Len(s) : KindOf(s[k].ref) \in Containers \cup Binaries
    /\ \A k \in 1 .. Len(s) - 1 : Follows(s[k].ref, s[k + 1].ref)

(* 'instructions at the limit give back a level that they did not take (see   *)
(* DepthAfter), and a cycle behind them is followed further.                 *)
InstructionsAboveLimit ==
    calls # << >> /\ KindOf(Top.ref) = "instructions" => current_depth < PrintDepth

IInv ==
    /\ graph \in Graphs
    /\ IsStack(calls)
    /\ pending \in Refs \cup {None}
    /\ pending # None /\ calls # << >> => Follows(Top.ref, pending)
    /\ current_depth \in 0 .. PrintDepth
    /\ OpenCount <= current_depth
    /\ DepthIsNesting
    /\ sym_next \in BOOLEAN
    /\ out \in Seq(Items)
    /\ status \in {"running", "overflow", "null class"}
    /\ status = "overflow" => StackLimit < Deepest(graph)

-----------------------------------------------------------------------------
(* The objects of the graph.                                                 *)
LEMMA Wellformed ==
    ASSUME graph \in Graphs
    PROVE  /\ graph.root \in Refs
           /\ None \notin Refs
           /\ IsFiniteSet(BinariesOf(graph))
           /\ ClassesCameFirst(graph)
           /\ \A ref \in Refs : /\ KindOf(ref) \in Kinds
                                /\ graph.of[ref].class \in Refs
                                /\ graph.of[ref].tags \in Seq(Refs)
                                /\ graph.of[ref].slots \in Seq(Refs)
                                /\ KindOf(ref) = "frame" =>
                                       Len(graph.of[ref].tags) = Len(graph.of[ref].slots)
  BY GraphAssumption DEF IsGraph, Refs, KindOf

(* What Print is called with are objects of the graph, and the class of a    *)
(* binary is its only part.                                                  *)
LEMMA PartsAreRefs ==
    ASSUME graph \in Graphs, NEW ref \in Refs, KindOf(ref) \in Containers \cup Binaries,
           NEW parts, parts = PartsOf(graph.of[ref])
    PROVE  /\ Len(parts) \in Nat
           /\ \A i \in 1 .. Len(parts) : parts[i].ref \in Refs /\ Follows(ref, parts[i].ref)
<1> DEFINE node == graph.of[ref]
           P == [ref : Refs, name : BOOLEAN]
<1>1. /\ node.class \in Refs /\ node.tags \in Seq(Refs) /\ node.slots \in Seq(Refs)
      /\ node.kind = KindOf(ref)
      /\ node.kind = "frame" => Len(node.tags) = Len(node.slots)
  BY Wellformed DEF KindOf
<1>2. PICK n \in Nat : /\ n = Len(node.slots) /\ DOMAIN node.slots = 1 .. n
                       /\ \A i \in 1 .. n : node.slots[i] \in Refs
  BY <1>1, LenProperties, ElementOfSeq
<1> HIDE DEF node
<1>3. \A r \in Refs : Named(r) \in P /\ Plain(r) \in P /\ Named(r).ref = r
  BY DEF Named, Plain, Part
<1>4. CASE node.kind \in Binaries
  <2>1. parts = <<Named(node.class)>>
    BY <1>4 DEF PartsOf, Binaries, node
  <2>2. Len(parts) = 1 /\ parts[1].ref = node.class
    BY <1>3, <1>1, <2>1
  <2>3. QED
    BY <1>1, <2>2 DEF Follows, node
<1>5. CASE node.kind = "array"
  <2> DEFINE front == IF node.class = ArraySymbol THEN << >> ELSE <<Named(node.class)>>
             back == [i \in DOMAIN node.slots |-> Plain(node.slots[i])]
  <2>1. parts = front \o back
    BY <1>5 DEF PartsOf, Binaries, node
  <2>2. front \in Seq(P)
    <3>1. Named(node.class) \in P
      BY <1>1, <1>3
    <3> HIDE DEF P
    <3>2. << >> \in Seq(P) /\ <<Named(node.class)>> \in Seq(P)
      BY <3>1
    <3>3. QED
      BY <3>2
  <2>3. back \in Seq(P)
    <3>1. back = [i \in 1 .. n |-> Plain(node.slots[i])]
      BY <1>2
    <3>2. \A i \in 1 .. n : Plain(node.slots[i]) \in P
      BY <1>2, <1>3
    <3> HIDE DEF P
    <3>3. back \in [1 .. n -> P]
      BY <3>1, <3>2
    <3>4. [1 .. n -> P] \in {[1 .. m -> P] : m \in Nat}
      OBVIOUS
    <3>5. QED
      BY <3>3, <3>4, SeqDef, Zenon
  <2> HIDE DEF front, back, P
  <2>4. parts \in Seq(P)
    BY <2>1, <2>2, <2>3, ConcatProperties
  <2>5. Len(parts) \in Nat /\ \A i \in 1 .. Len(parts) : parts[i] \in P
    BY <2>4, LenProperties, ElementOfSeq
  <2>6. QED
    BY <1>1, <1>5, <2>5 DEF P, Follows, Binaries
<1>6. CASE node.kind = "frame"
  <2>1. parts = [i \in 1 .. 2 * Len(node.slots) |->
                    IF i % 2 = 1 THEN Named(node.tags[(i + 1) \div 2])
                                 ELSE Plain(node.slots[i \div 2])]
    BY <1>6 DEF PartsOf, Binaries, node
  <2>2. \A i \in 1 .. n : node.tags[i] \in Refs
    BY <1>1, <1>2, <1>6, ElementOfSeq
  <2>3. ASSUME NEW i \in 1 .. 2 * n
        PROVE  parts[i].ref \in Refs
    <3>1. CASE i % 2 = 1
      <4>1. (i + 1) \div 2 \in 1 .. n
        BY <3>1
      <4>2. parts[i] = Named(node.tags[(i + 1) \div 2])
        BY <1>2, <2>1, <3>1
      <4>3. QED
        BY <1>3, <2>2, <4>1, <4>2
    <3>2. CASE i % 2 # 1
      <4>1. i \div 2 \in 1 .. n
        BY <3>2
      <4>2. parts[i] = Plain(node.slots[i \div 2])
        BY <1>2, <2>1, <3>2
      <4>3. QED
        BY <1>2, <1>3, <4>1, <4>2
    <3>3. QED
      BY <3>1, <3>2
  <2>4. Len(parts) = 2 * n
    BY <1>2, <2>1
  <2>5. QED
    BY <1>1, <1>2, <1>6, <2>3, <2>4 DEF Follows, Binaries
<1>7. QED
  BY <1>1, <1>4, <1>5, <1>6 DEF Containers

-----------------------------------------------------------------------------
(* Arrays and frames on a stack.                                             *)
LEMMA CountsOnStack ==
    ASSUME NEW s, IsStack(s)
    PROVE  /\ Len(s) \in Nat /\ DOMAIN s = 1 .. Len(s)
           /\ \A k \in 1 .. Len(s) : s[k] \in Call
           /\ IsFiniteSet(OpenIn(s)) /\ Cardinality(OpenIn(s)) \in Nat
           /\ IsFiniteSet(BinaryIn(s)) /\ Cardinality(BinaryIn(s)) \in Nat
           /\ Len(s) = Cardinality(OpenIn(s)) + Cardinality(BinaryIn(s))
<1>1. Len(s) \in Nat /\ DOMAIN s = 1 .. Len(s) /\ \A k \in 1 .. Len(s) : s[k] \in Call
  BY LenProperties, ElementOfSeq DEF IsStack
<1>2. IsFiniteSet(1 .. Len(s)) /\ Cardinality(1 .. Len(s)) = Len(s)
  <2>1. 1 \in Int /\ Len(s) \in Int
    BY <1>1
  <2>2. IsFiniteSet(1 .. Len(s)) /\ Cardinality(1 .. Len(s)) = IF 1 > Len(s) THEN 0 ELSE Len(s) - 1 + 1
    BY <2>1, FS_Interval
  <2>3. QED
    BY <1>1, <2>2
<1>3. OpenIn(s) \in SUBSET (1 .. Len(s)) /\ BinaryIn(s) \in SUBSET (1 .. Len(s))
  BY <1>1 DEF OpenIn, BinaryIn
<1>4. IsFiniteSet(OpenIn(s)) /\ IsFiniteSet(BinaryIn(s))
  BY <1>2, <1>3, FS_Subset, Zenon
<1>5. Cardinality(OpenIn(s)) \in Nat /\ Cardinality(BinaryIn(s)) \in Nat
  BY <1>4, FS_CardinalityType
<1>6. OpenIn(s) \cup BinaryIn(s) = 1 .. Len(s) /\ OpenIn(s) \cap BinaryIn(s) = {}
  BY <1>1 DEF OpenIn, BinaryIn, IsStack, Containers, Binaries
<1>7. Cardinality(OpenIn(s) \cup BinaryIn(s))
          = Cardinality(OpenIn(s)) + Cardinality(BinaryIn(s)) - Cardinality(OpenIn(s) \cap BinaryIn(s))
  BY <1>4, FS_Union
<1>8. Cardinality({}) = 0
  BY FS_EmptySet
<1>9. /\ Cardinality(OpenIn(s) \cup BinaryIn(s)) = Len(s)
      /\ Cardinality(OpenIn(s) \cap BinaryIn(s)) = 0
  BY <1>2, <1>6, <1>8, Zenon
<1>10. Len(s) = Cardinality(OpenIn(s)) + Cardinality(BinaryIn(s))
  BY <1>1, <1>5, <1>7, <1>9
<1>11. QED
  BY <1>1, <1>4, <1>5, <1>10

(* Of binaries one behind the other each is another: else they would be a    *)
(* circle of classes, in which none came first.                              *)
LEMMA NoneTwice ==
    ASSUME graph \in Graphs, NEW s, IsStack(s),
           NEW i \in 1 .. Len(s), NEW j \in 1 .. Len(s), i < j,
           \A k \in i .. j : KindOf(s[k].ref) \in Binaries
    PROVE  s[i].ref # s[j].ref
<1>1. SUFFICES ASSUME s[i].ref = s[j].ref
               PROVE  FALSE
  OBVIOUS
<1>2. Len(s) \in Nat /\ \A k \in 1 .. Len(s) : s[k].ref \in Refs
  BY CountsOnStack DEF Call
<1> DEFINE some == {s[k].ref : k \in i .. j}
<1>3. some \in SUBSET BinariesOf(graph) /\ some # {}
  BY <1>2 DEF BinariesOf, Refs, KindOf
<1>4. PICK ref \in some : graph.of[ref].class \notin some
  BY <1>3, Wellformed DEF ClassesCameFirst
<1>5. PICK k \in i .. j : ref = s[k].ref
  OBVIOUS
<1>6. \E m \in i .. j - 1 : ref = s[m].ref
  <2>1. CASE k = j
    BY <1>1, <1>5, <2>1
  <2>2. CASE k # j
    BY <1>5, <2>2
  <2>3. QED
    BY <2>1, <2>2
<1>7. PICK m \in i .. j - 1 : ref = s[m].ref
  BY <1>6
<1>8. m \in 1 .. Len(s) - 1 /\ m \in i .. j /\ m + 1 \in i .. j
  BY <1>2
<1>9. s[m + 1].ref = graph.of[ref].class
  BY <1>7, <1>8 DEF IsStack, Follows
<1>10. QED
  BY <1>4, <1>8, <1>9

(* The number of arrays and frames before a binary tells it from the others  *)
(* of the same object.                                                       *)
Before(s, k) == {j \in OpenIn(s) : j < k}

LEMMA ToldApart ==
    ASSUME graph \in Graphs, NEW s, IsStack(s),
           NEW i \in BinaryIn(s), NEW j \in BinaryIn(s), i < j,
           Cardinality(Before(s, i)) = Cardinality(Before(s, j))
    PROVE  s[i].ref # s[j].ref
<1>1. /\ Len(s) \in Nat /\ DOMAIN s = 1 .. Len(s) /\ IsFiniteSet(OpenIn(s))
  BY CountsOnStack
<1>2. i \in 1 .. Len(s) /\ j \in 1 .. Len(s)
  BY <1>1 DEF BinaryIn
<1>3. Before(s, j) \in SUBSET OpenIn(s) /\ Before(s, i) \in SUBSET Before(s, j)
  BY <1>1, <1>2 DEF Before, OpenIn
<1>4. IsFiniteSet(Before(s, j))
  BY <1>1, <1>3, FS_Subset, Zenon
<1>5. Before(s, i) = Before(s, j)
  BY <1>3, <1>4, FS_Subset
<1>6. ASSUME NEW k \in i .. j
      PROVE  KindOf(s[k].ref) \in Binaries
  <2>1. k \in 1 .. Len(s)
    BY <1>2
  <2>2. k \notin OpenIn(s)
    <3>1. CASE k = j
      BY <3>1 DEF BinaryIn, OpenIn, Binaries, Containers
    <3>2. CASE k # j
      BY <1>2, <1>5, <3>2 DEF Before
    <3>3. QED
      BY <3>1, <3>2
  <2>3. QED
    BY <1>1, <2>1, <2>2 DEF IsStack, OpenIn
<1>7. QED
  BY <1>2, <1>6, NoneTwice

(* The depth bounds the whole stack.                                         *)
LEMMA StackIsBounded ==
    ASSUME graph \in Graphs, NEW s, IsStack(s), Cardinality(OpenIn(s)) <= PrintDepth
    PROVE  Len(s) <= Deepest(graph)
<1> DEFINE B == BinariesOf(graph)
           f == [k \in BinaryIn(s) |-> <<Cardinality(Before(s, k)), s[k].ref>>]
           T == (0 .. PrintDepth) \X B
<1>1. PrintDepth \in Nat /\ IsFiniteSet(B)
  BY DepthAssumption, Wellformed
<1>2. /\ Len(s) \in Nat /\ DOMAIN s = 1 .. Len(s)
      /\ \A k \in 1 .. Len(s) : s[k].ref \in Refs
      /\ IsFiniteSet(OpenIn(s)) /\ Cardinality(OpenIn(s)) \in Nat
      /\ Cardinality(BinaryIn(s)) \in Nat
      /\ Len(s) = Cardinality(OpenIn(s)) + Cardinality(BinaryIn(s))
  BY CountsOnStack DEF Call
<1>3. IsFiniteSet(T) /\ Cardinality(T) = (PrintDepth + 1) * Cardinality(B)
  <2>1. IsFiniteSet(0 .. PrintDepth) /\ Cardinality(0 .. PrintDepth) = PrintDepth + 1
    <3>1. 0 \in Int /\ PrintDepth \in Int
      BY <1>1
    <3>2. /\ IsFiniteSet(0 .. PrintDepth)
          /\ Cardinality(0 .. PrintDepth) = IF 0 > PrintDepth THEN 0 ELSE PrintDepth - 0 + 1
      BY <3>1, FS_Interval
    <3>3. QED
      BY <1>1, <3>2
  <2> HIDE DEF B
  <2>2. QED
    BY <1>1, <2>1, FS_Product
<1>4. ASSUME NEW k \in BinaryIn(s)
      PROVE  f[k] \in T
  <2>1. s[k].ref \in B
    BY <1>2 DEF BinaryIn, BinariesOf, Refs, KindOf
  <2>2. Cardinality(Before(s, k)) \in 0 .. PrintDepth
    <3>1. Before(s, k) \in SUBSET OpenIn(s)
      BY DEF Before
    <3>2. IsFiniteSet(Before(s, k)) /\ Cardinality(Before(s, k)) <= Cardinality(OpenIn(s))
      BY <1>2, <3>1, FS_Subset
    <3>3. Cardinality(Before(s, k)) \in Nat
      BY <3>2, FS_CardinalityType
    <3>4. QED
      BY <1>1, <1>2, <3>2, <3>3
  <2>3. QED
    BY <2>1, <2>2
<1>5. ASSUME NEW i \in BinaryIn(s), NEW j \in BinaryIn(s), f[i] = f[j]
      PROVE  i = j
  <2>1. Cardinality(Before(s, i)) = Cardinality(Before(s, j)) /\ s[i].ref = s[j].ref
    <3>1. f[i] = <<Cardinality(Before(s, i)), s[i].ref>> /\ f[j] = <<Cardinality(Before(s, j)), s[j].ref>>
      OBVIOUS
    <3> HIDE DEF f
    <3>2. <<Cardinality(Before(s, i)), s[i].ref>> = <<Cardinality(Before(s, j)), s[j].ref>>
      BY <1>5, <3>1, Zenon
    <3>3. QED
      BY <3>2
  <2>2. i \in Int /\ j \in Int
    <3>1. BinaryIn(s) \subseteq 1 .. Len(s) /\ Len(s) \in Nat
      BY <1>2 DEF BinaryIn
    <3> HIDE DEF f, T
    <3>2. QED
      BY <3>1
  <2>3. ~(i < j)
    BY <2>1, ToldApart
  <2>4. ~(j < i)
    BY <2>1, ToldApart
  <2>5. QED
    BY <2>2, <2>3, <2>4
<1>6. f \in Injection(BinaryIn(s), T)
  <2>1. f \in [BinaryIn(s) -> T] /\ DOMAIN f = BinaryIn(s)
    BY <1>4
  <2> HIDE DEF f, T
  <2>2. IsInjective(f)
    BY <1>5, <2>1 DEF IsInjective
  <2>3. QED
    BY <2>1, <2>2, Zenon DEF Injection
<1>7. Cardinality(BinaryIn(s)) <= Cardinality(T)
  <2> HIDE DEF f, T
  <2>1. QED
    BY <1>3, <1>6, FS_Injection
<1>8. Cardinality(B) \in Nat
  BY <1>1, FS_CardinalityType
<1>9. (PrintDepth + 1) * Cardinality(B) \in Nat
  BY <1>1, <1>8
<1>10. Deepest(graph) = PrintDepth + Cardinality(T)
  BY <1>3 DEF Deepest
<1> HIDE DEF B, T
<1>11. QED
  BY <1>1, <1>2, <1>3, <1>7, <1>9, <1>10

-----------------------------------------------------------------------------
(* Another activation.                                                       *)
LEMMA Pushed ==
    ASSUME graph \in Graphs, NEW s, IsStack(s), NEW call \in Call,
           KindOf(call.ref) \in Containers \cup Binaries,
           s # << >> => Follows(s[Len(s)].ref, call.ref),
           NEW t, t = Append(s, call)
    PROVE  /\ IsStack(t)
           /\ Cardinality(OpenIn(t)) = IF KindOf(call.ref) \in Containers
                                        THEN Cardinality(OpenIn(s)) + 1 ELSE Cardinality(OpenIn(s))
<1>1. /\ Len(s) \in Nat /\ DOMAIN s = 1 .. Len(s)
      /\ IsFiniteSet(OpenIn(s)) /\ Cardinality(OpenIn(s)) \in Nat
  BY CountsOnStack
<1>2. /\ s \in Seq(Call)
      /\ \A k \in 1 .. Len(s) : KindOf(s[k].ref) \in Containers \cup Binaries
      /\ \A k \in 1 .. Len(s) - 1 : Follows(s[k].ref, s[k + 1].ref)
  BY DEF IsStack
<1>3. /\ t \in Seq(Call) /\ Len(t) = Len(s) + 1 /\ t[Len(s) + 1] = call
      /\ \A i \in 1 .. Len(s) : t[i] = s[i]
  BY <1>2, AppendProperties
<1>4. DOMAIN t = 1 .. Len(s) + 1
  BY <1>3, LenProperties
<1>5. ASSUME NEW k \in 1 .. Len(t)
      PROVE  KindOf(t[k].ref) \in Containers \cup Binaries
  BY <1>1, <1>2, <1>3
<1>6. ASSUME NEW k \in 1 .. Len(t) - 1
      PROVE  Follows(t[k].ref, t[k + 1].ref)
  <2>1. k \in 1 .. Len(s) /\ t[k] = s[k]
    BY <1>1, <1>3
  <2>2. CASE k = Len(s)
    <3>1. s # << >>
      BY <2>1
    <3>2. QED
      BY <1>3, <2>1, <2>2, <3>1
  <2>3. CASE k # Len(s)
    <3>1. k \in 1 .. Len(s) - 1 /\ t[k + 1] = s[k + 1]
      <4>1. PICK n \in Nat : n = Len(s)
        BY <1>1
      <4>2. k \in 1 .. n /\ k # n
        BY <2>1, <2>3, <4>1
      <4>3. k \in 1 .. n - 1 /\ k + 1 \in 1 .. n
        BY <4>2
      <4>4. QED
        BY <1>3, <4>1, <4>3
    <3>2. QED
      BY <1>2, <2>1, <3>1
  <2>4. QED
    BY <2>2, <2>3
<1>7. IsStack(t)
  BY <1>3, <1>5, <1>6 DEF IsStack
<1>8. CASE KindOf(call.ref) \in Containers
  <2>1. OpenIn(t) = OpenIn(s) \cup {Len(s) + 1} /\ Len(s) + 1 \notin OpenIn(s)
    BY <1>1, <1>3, <1>4, <1>8 DEF OpenIn
  <2>2. Cardinality(OpenIn(s) \cup {Len(s) + 1}) = Cardinality(OpenIn(s)) + 1
    BY <1>1, <2>1, FS_AddElement
  <2>3. QED
    BY <1>7, <1>8, <2>1, <2>2
<1>9. CASE KindOf(call.ref) \notin Containers
  <2>1. OpenIn(t) = OpenIn(s)
    BY <1>1, <1>3, <1>4, <1>9 DEF OpenIn
  <2>2. QED
    BY <1>7, <1>9, <2>1
<1>10. QED
  BY <1>8, <1>9

(* One activation less.                                                      *)
LEMMA Popped ==
    ASSUME graph \in Graphs, NEW s, IsStack(s), s # << >>,
           NEW t, t = SubSeq(s, 1, Len(s) - 1)
    PROVE  /\ IsStack(t)
           /\ Cardinality(OpenIn(t)) = IF KindOf(s[Len(s)].ref) \in Containers
                                        THEN Cardinality(OpenIn(s)) - 1 ELSE Cardinality(OpenIn(s))
           /\ KindOf(s[Len(s)].ref) \in Containers => Cardinality(OpenIn(s)) > 0
           /\ t # << >> => Follows(t[Len(t)].ref, s[Len(s)].ref)
<1>1. /\ Len(s) \in Nat /\ DOMAIN s = 1 .. Len(s) /\ \A k \in 1 .. Len(s) : s[k] \in Call
      /\ IsFiniteSet(OpenIn(s)) /\ Cardinality(OpenIn(s)) \in Nat
  BY CountsOnStack
<1>2. Len(s) \in Nat \ {0}
  BY EmptySeq DEF IsStack
<1>3. PICK n \in Nat : n = Len(s) - 1 /\ Len(s) = n + 1
  BY <1>2
<1>4. /\ t \in Seq(Call) /\ Len(t) = n /\ \A i \in 1 .. n : t[i] = s[i]
  <2>1. 1 \in Int /\ n \in Int /\ \A i \in 1 .. n : s[i] \in Call
    BY <1>1, <1>3
  <2>2. /\ t \in Seq(Call) /\ Len(t) = IF 1 <= n THEN n - 1 + 1 ELSE 0
        /\ \A i \in 1 .. n - 1 + 1 : t[i] = s[1 + i - 1]
    BY <1>3, <2>1, SubSeqProperties
  <2>3. QED
    BY <1>3, <2>2
<1>5. DOMAIN t = 1 .. n
  BY <1>4, LenProperties
<1>6. IsStack(t)
  BY <1>1, <1>3, <1>4 DEF IsStack
<1>7. t # << >> => Follows(t[Len(t)].ref, s[Len(s)].ref)
  <2>1. SUFFICES ASSUME t # << >>
                 PROVE  Follows(t[Len(t)].ref, s[Len(s)].ref)
    OBVIOUS
  <2>2. n # 0
    BY <1>4, <2>1
  <2>3. n \in 1 .. Len(s) - 1 /\ n + 1 = Len(s) /\ t[n] = s[n] /\ Len(t) = n
    BY <1>1, <1>3, <1>4, <2>2
  <2>4. Follows(s[n].ref, s[n + 1].ref)
    BY <2>3 DEF IsStack
  <2>5. QED
    BY <2>3, <2>4
<1>8. /\ DOMAIN s = 1 .. n + 1 /\ \A k \in 1 .. n + 1 : k = n + 1 \/ k \in 1 .. n
      /\ \A k \in 1 .. n : k \in 1 .. n + 1 /\ k # n + 1
  <2>1. DOMAIN s = 1 .. n + 1
    BY <1>1, <1>3
  <2>2. QED
    BY <2>1
<1>9. CASE KindOf(s[Len(s)].ref) \in Containers
  <2>1. OpenIn(s) = OpenIn(t) \cup {n + 1} /\ n + 1 \notin OpenIn(t)
    <3>1. KindOf(s[n + 1].ref) \in Containers /\ n + 1 \in 1 .. n + 1
      BY <1>3, <1>9
    <3>2. QED
      BY <1>4, <1>5, <1>8, <3>1 DEF OpenIn
  <2>2. IsFiniteSet(OpenIn(t)) /\ Cardinality(OpenIn(t)) \in Nat
    BY <1>6, CountsOnStack
  <2>3. Cardinality(OpenIn(t) \cup {n + 1}) = Cardinality(OpenIn(t)) + 1
    BY <2>1, <2>2, FS_AddElement
  <2>4. Cardinality(OpenIn(s)) = Cardinality(OpenIn(t)) + 1
    BY <2>1, <2>3, Zenon
  <2>5. QED
    BY <1>6, <1>7, <1>9, <2>2, <2>4
<1>10. CASE KindOf(s[Len(s)].ref) \notin Containers
  <2>1. OpenIn(t) = OpenIn(s)
    <3>1. KindOf(s[n + 1].ref) \notin Containers
      BY <1>3, <1>10
    <3>2. QED
      BY <1>4, <1>5, <1>8, <3>1 DEF OpenIn
  <2>2. QED
    BY <1>6, <1>7, <1>10, <2>1
<1>11. QED
  BY <1>9, <1>10

-----------------------------------------------------------------------------
(* The graph never changes; what a step has to show of the rest.             *)
LEMMA Concludes ==
    ASSUME IInv, graph' = graph, NEW t, t = calls', IsStack(t),
           pending' \in Refs \cup {None},
           pending' # None /\ t # << >> => Follows(t[Len(t)].ref, pending'),
           current_depth' \in 0 .. PrintDepth,
           Cardinality(OpenIn(t)) <= current_depth',
           status' # "overflow" => current_depth' = Cardinality(OpenIn(t)),
           sym_next' \in BOOLEAN,
           out' \in Seq(Items),
           status' \in {"running", "overflow", "null class"},
           status' = "overflow" => StackLimit < Deepest(graph)
    PROVE  IInv'
<1>1. /\ Refs' = Refs /\ Call' = Call /\ Items' = Items /\ Deepest(graph)' = Deepest(graph)
      /\ \A r : KindOf(r)' = KindOf(r)
      /\ \A r, part : Follows(r, part)' <=> Follows(r, part)
  BY DEF Refs, Call, Items, Deepest, KindOf, Follows
<1>2. IsStack(calls)'
  BY <1>1 DEF IsStack
<1>3. OpenCount' = Cardinality(OpenIn(t))
  BY <1>1 DEF OpenCount, OpenIn
<1>4. (pending # None /\ calls # << >> => Follows(Top.ref, pending))'
  BY <1>1 DEF Top
<1>5. DepthIsNesting'
  BY <1>3 DEF DepthIsNesting
<1>6. graph' \in Graphs
  BY DEF IInv
<1>7. QED
  BY <1>1, <1>2, <1>3, <1>4, <1>5, <1>6 DEF IInv

(* While Print runs, the depth is the number of open arrays and frames.      *)
LEMMA Running ==
    ASSUME IInv, status = "running"
    PROVE  /\ graph \in Graphs /\ IsStack(calls) /\ PrintDepth \in Nat /\ StackLimit \in Nat
           /\ current_depth \in 0 .. PrintDepth
           /\ current_depth = Cardinality(OpenIn(calls))
           /\ sym_next \in BOOLEAN /\ out \in Seq(Items)
           /\ pending # None => pending \in Refs
           /\ pending # None /\ calls # << >> => Follows(calls[Len(calls)].ref, pending)
  BY DepthAssumption DEF IInv, DepthIsNesting, OpenCount, OpenIn, Top

(* What is written.                                                          *)
LEMMA Written ==
    ASSUME out \in Seq(Items), NEW ref \in Refs,
           NEW what \in {"open", "close", "address", "plain", "quoted"},
           Write(Item(what, ref))
    PROVE  out' \in Seq(Items)
<1>1. Item(what, ref) \in Items
  BY DEF Item, Items
<1>2. out' = Append(out, Item(what, ref))
  BY DEF Write
<1>3. QED
  BY <1>1, <1>2, AppendProperties

(* What has no parts, or is too deep, is written and done.                   *)
LEMMA LeafStep ==
    ASSUME IInv, PrintLeaf \/ PrintAddress
    PROVE  IInv'
<1>1. /\ status = "running" /\ pending # None /\ pending' = None
      /\ UNCHANGED <<graph, calls, current_depth, sym_next, status>>
      /\ \E what \in {"address", "plain", "quoted"} : Write(Item(what, pending))
  BY DEF PrintLeaf, PrintAddress, Called
<1>2. out' \in Seq(Items)
  BY <1>1, Running, Written
<1>3. PICK t : t = calls' /\ t = calls
  BY <1>1
<1>4. QED
  BY <1>1, <1>2, <1>3, Running, Concludes

(* An object that is entered lies where the stack may grow: only arrays and  *)
(* frames count, and there is no stack that high.                            *)
LEMMA EnterStep ==
    ASSUME IInv, status = "running", pending # None,
           KindOf(pending) \in Containers \cup Binaries,
           KindOf(pending) \in Containers => current_depth < PrintDepth,
           Enter, Write(Item("open", pending)), graph' = graph,
           pending' = None, sym_next' = sym_next,
           current_depth' = IF KindOf(pending) \in Containers
                            THEN current_depth + 1 ELSE current_depth
    PROVE  IInv'
<1> DEFINE call == [ref |-> pending, next |-> 1]
<1>1. /\ graph \in Graphs /\ IsStack(calls) /\ PrintDepth \in Nat /\ StackLimit \in Nat
      /\ current_depth \in 0 .. PrintDepth
      /\ current_depth = Cardinality(OpenIn(calls))
      /\ sym_next' \in BOOLEAN
      /\ pending \in Refs
      /\ calls # << >> => Follows(calls[Len(calls)].ref, pending)
  BY Running
<1>2. out' \in Seq(Items)
  BY <1>1, Running, Written
<1>3. call \in Call /\ call.ref = pending
  BY <1>1 DEF Call
<1> HIDE DEF call
<1>4. PICK u : u = Append(calls, call)
  OBVIOUS
<1>5. /\ IsStack(u)
      /\ Cardinality(OpenIn(u)) = IF KindOf(pending) \in Containers
                                  THEN Cardinality(OpenIn(calls)) + 1 ELSE Cardinality(OpenIn(calls))
  BY <1>1, <1>3, <1>4, Pushed
<1>6. /\ current_depth' \in 0 .. PrintDepth /\ Cardinality(OpenIn(u)) = current_depth'
      /\ Cardinality(OpenIn(calls)) <= current_depth'
      /\ Cardinality(OpenIn(u)) <= current_depth'
  BY <1>1, <1>5
<1>7. CASE Len(calls) < StackLimit
  <2>1. calls' = u /\ status' = status
    BY <1>4, <1>7 DEF Enter, call
  <2>2. PICK t : t = calls' /\ t = u
    BY <2>1
  <2>3. QED
    BY <1>1, <1>2, <1>5, <1>6, <2>1, <2>2, Concludes
<1>8. CASE ~(Len(calls) < StackLimit)
  <2>1. calls' = calls /\ status' = "overflow"
    BY <1>8 DEF Enter
  <2>2. Len(u) <= Deepest(graph)
    BY <1>1, <1>5, <1>6, StackIsBounded
  <2>3. Len(u) = Len(calls) + 1 /\ Len(calls) \in Nat
    <3>1. calls \in Seq(Call)
      BY <1>1 DEF IsStack
    <3>2. QED
      BY <1>3, <1>4, <3>1, AppendProperties, LenProperties
  <2>4. Deepest(graph) \in Nat
    <3>1. Cardinality(BinariesOf(graph)) \in Nat
      BY <1>1, Wellformed, FS_CardinalityType
    <3>2. QED
      BY <1>1, <3>1 DEF Deepest
  <2>5. StackLimit < Deepest(graph)
    BY <1>1, <1>8, <2>2, <2>3, <2>4
  <2>6. PICK t : t = calls' /\ t = calls
    BY <2>1
  <2>7. QED
    BY <1>1, <1>2, <1>6, <2>1, <2>5, <2>6, Concludes
<1>9. QED
  BY <1>7, <1>8

(* The next part of the innermost object.                                    *)
LEMMA PartStep ==
    ASSUME IInv, PrintPart
    PROVE  IInv'
<1>1. /\ status = "running" /\ pending = None /\ calls # << >>
      /\ Top.next <= Len(Parts)
      /\ pending' = Parts[Top.next].ref
      /\ sym_next' = (Parts[Top.next].name \/ AfterName)
      /\ calls' = [calls EXCEPT ![Len(calls)].next = @ + 1]
      /\ UNCHANGED <<graph, current_depth, out, status>>
  BY DEF PrintPart, Returned
<1>2. /\ graph \in Graphs /\ IsStack(calls)
      /\ current_depth \in 0 .. PrintDepth
      /\ current_depth = Cardinality(OpenIn(calls))
      /\ out' \in Seq(Items)
  BY <1>1, Running
<1>3. PICK n \in Nat \ {0} : n = Len(calls)
  BY <1>1, <1>2, EmptySeq DEF IsStack
<1>4. /\ DOMAIN calls = 1 .. n
      /\ \A k \in 1 .. n : calls[k] \in Call /\ KindOf(calls[k].ref) \in Containers \cup Binaries
      /\ calls \in Seq(Call)
  BY <1>2, <1>3, CountsOnStack DEF IsStack
<1>5. /\ n \in 1 .. n /\ Top = calls[n] /\ Top.ref \in Refs /\ Top.next \in Nat \ {0}
      /\ KindOf(Top.ref) \in Containers \cup Binaries
  BY <1>3, <1>4 DEF Top, Call
<1>6. pending' \in Refs /\ Follows(Top.ref, pending')
  <2>1. PICK ref \in Refs : ref = Top.ref /\ KindOf(ref) \in Containers \cup Binaries
    BY <1>5
  <2>2. PICK parts : parts = PartsOf(graph.of[ref])
    OBVIOUS
  <2>3. /\ Len(parts) \in Nat
        /\ \A i \in 1 .. Len(parts) : parts[i].ref \in Refs /\ Follows(ref, parts[i].ref)
    BY <1>2, <2>1, <2>2, PartsAreRefs
  <2>4. parts = Parts
    BY <2>1, <2>2 DEF Parts
  <2>5. Top.next \in 1 .. Len(parts) /\ pending' = parts[Top.next].ref
    BY <1>1, <1>5, <2>3, <2>4
  <2>6. QED
    BY <2>1, <2>3, <2>5
<1>7. PICK t : t = calls'
  OBVIOUS
<1> DEFINE call == [calls[n] EXCEPT !.next = @ + 1]
<1>8. call \in Call /\ call.ref = calls[n].ref
  BY <1>4, <1>5 DEF Call
<1>9. t = [calls EXCEPT ![n] = call]
  BY <1>1, <1>3, <1>7
<1> HIDE DEF call
<1>10. /\ t \in Seq(Call) /\ Len(t) = n /\ DOMAIN t = 1 .. n
       /\ \A k \in 1 .. n : t[k] = IF k = n THEN call ELSE calls[k]
  <2>1. t \in Seq(Call) /\ Len(t) = n
    BY <1>3, <1>4, <1>5, <1>8, <1>9, ExceptSeq
  <2>2. QED
    BY <1>4, <1>9, <2>1
<1>11. \A k \in 1 .. n : t[k].ref = calls[k].ref
  BY <1>8, <1>10
<1>12. IsStack(t)
  <2>1. ASSUME NEW k \in 1 .. n - 1
        PROVE  Follows(t[k].ref, t[k + 1].ref)
    <3>1. k \in 1 .. n /\ k + 1 \in 1 .. n
      OBVIOUS
    <3>2. Follows(calls[k].ref, calls[k + 1].ref)
      BY <1>2, <1>3 DEF IsStack
    <3>3. QED
      BY <1>11, <3>1, <3>2
  <2>2. QED
    BY <1>4, <1>10, <1>11, <2>1 DEF IsStack
<1>13. OpenIn(t) = OpenIn(calls)
  BY <1>4, <1>10, <1>11 DEF OpenIn
<1>14. t[Len(t)].ref = Top.ref
  BY <1>5, <1>10, <1>11
<1>15. sym_next' \in BOOLEAN
  BY <1>1
<1>16. /\ Cardinality(OpenIn(t)) = current_depth' /\ Cardinality(OpenIn(t)) <= current_depth'
       /\ current_depth' \in 0 .. PrintDepth
  <2>1. Cardinality(OpenIn(t)) = Cardinality(OpenIn(calls))
    BY <1>13, Zenon
  <2>2. current_depth \in Int
    BY <1>2, DepthAssumption
  <2>3. QED
    BY <1>1, <1>2, <2>1, <2>2
<1>17. QED
  BY <1>1, <1>2, <1>6, <1>7, <1>12, <1>14, <1>15, <1>16, Concludes

(* Back to the one before: the depth goes back by what it went up.           *)
LEMMA CloseStep ==
    ASSUME IInv, InstructionsAboveLimit, Close
    PROVE  IInv'
<1>1. /\ status = "running" /\ pending = None /\ calls # << >>
      /\ Write(Item("close", Top.ref))
      /\ current_depth' = DepthAfter(KindOf(Top.ref))
      /\ sym_next' = AfterName
      /\ calls' = SubSeq(calls, 1, Len(calls) - 1)
      /\ UNCHANGED <<graph, pending, status>>
  BY DEF Close, Returned
<1>2. /\ graph \in Graphs /\ IsStack(calls) /\ PrintDepth \in Nat \ {0}
      /\ current_depth \in 0 .. PrintDepth
      /\ current_depth = Cardinality(OpenIn(calls))
      /\ sym_next \in BOOLEAN
  BY <1>1, Running, DepthAssumption
<1>3. PICK t : t = calls'
  OBVIOUS
<1>4. /\ IsStack(t)
      /\ Cardinality(OpenIn(t)) = IF KindOf(Top.ref) \in Containers
                                  THEN current_depth - 1 ELSE current_depth
      /\ KindOf(Top.ref) \in Containers => current_depth > 0
  BY <1>1, <1>2, <1>3, Popped DEF Top
<1>5. Top.ref \in Refs /\ KindOf(Top.ref) \in Containers \cup Binaries
  <2>1. Len(calls) \in Nat \ {0}
    BY <1>1, <1>2, EmptySeq DEF IsStack
  <2>2. Len(calls) \in 1 .. Len(calls)
    BY <2>1
  <2>3. \A k \in 1 .. Len(calls) : calls[k] \in Call
    BY <1>2, CountsOnStack
  <2>4. QED
    BY <1>2, <2>2, <2>3 DEF Top, Call, IsStack
<1>6. out' \in Seq(Items)
  <2>1. out \in Seq(Items)
    BY DEF IInv
  <2>2. QED
    BY <1>1, <1>5, <2>1, Written
<1>7. sym_next' \in BOOLEAN
  BY <1>1, <1>2 DEF AfterName
<1>8. current_depth' = Cardinality(OpenIn(t))
  <2>1. CASE KindOf(Top.ref) \in Containers
    <3>1. current_depth' = DecrDepth(current_depth)
      <4>1. DepthAfter(KindOf(Top.ref)) = DecrDepth(current_depth)
        BY <2>1, Zenon DEF DepthAfter, Containers
      <4>2. QED
        BY <1>1, <4>1
    <3>2. Cardinality(OpenIn(t)) = current_depth - 1 /\ current_depth > 0
      BY <1>4, <2>1
    <3>3. current_depth' = current_depth - 1
      BY <3>1, <3>2 DEF DecrDepth
    <3>4. QED
      BY <3>2, <3>3
  <2>2. CASE KindOf(Top.ref) = "instructions"
    <3>1. current_depth' = DecrDepth(IncrDepth(current_depth))
      BY <1>1, <2>2 DEF DepthAfter, Containers
    <3>2. current_depth < PrintDepth
      BY <1>1, <2>2 DEF InstructionsAboveLimit
    <3>3. IncrDepth(current_depth) = current_depth + 1
      BY <3>2 DEF IncrDepth
    <3>4. current_depth' = current_depth
      BY <1>2, <3>1, <3>3 DEF DecrDepth
    <3>5. QED
      BY <1>4, <2>2, <3>4 DEF Containers
  <2>3. CASE KindOf(Top.ref) = "binary"
    <3>1. current_depth' = current_depth
      BY <1>1, <2>3 DEF DepthAfter, Containers
    <3>2. QED
      BY <1>4, <2>3, <3>1 DEF Containers
  <2>4. QED
    BY <1>5, <2>1, <2>2, <2>3 DEF Binaries
<1>9. current_depth' \in 0 .. PrintDepth /\ Cardinality(OpenIn(t)) <= current_depth'
  BY <1>2, <1>4, <1>8
<1>10. QED
  BY <1>1, <1>3, <1>4, <1>6, <1>7, <1>8, <1>9, Concludes

(* What only reads, and the crash on a class that is no object.              *)
LEMMA RestStep ==
    ASSUME IInv, CompareNullClass \/ UNCHANGED vars
    PROVE  IInv'
<1>1. /\ UNCHANGED <<graph, calls, pending, current_depth, out>>
      /\ (status = "running" /\ status' = "null class" /\ sym_next' = AfterName)
            \/ UNCHANGED <<sym_next, status>>
  BY DEF CompareNullClass, Returned, vars
<1>2. sym_next' \in BOOLEAN
  BY <1>1 DEF IInv, AfterName
<1>3. DepthIsNesting'
  BY <1>1 DEF IInv, DepthIsNesting, OpenCount, KindOf
<1>4. /\ (status \in {"running", "overflow", "null class"})'
      /\ (status = "overflow" => StackLimit < Deepest(graph))'
  BY <1>1 DEF IInv, Deepest
<1>5. IsStack(calls)' /\ (pending \in Refs \cup {None})' /\ (out \in Seq(Items))'
  BY <1>1 DEF IInv, IsStack, Call, Items, Refs, Follows, KindOf
<1>6. (pending # None /\ calls # << >> => Follows(Top.ref, pending))'
  BY <1>1 DEF IInv, Top, Follows, KindOf
<1>7. (OpenCount <= current_depth)' /\ (current_depth \in 0 .. PrintDepth)' /\ graph' \in Graphs
  BY <1>1 DEF IInv, OpenCount, KindOf
<1>8. QED
  BY <1>2, <1>3, <1>4, <1>5, <1>6, <1>7 DEF IInv

(* Every step, unless 'instructions were printed at the limit.               *)
LEMMA Inductive == IInv /\ InstructionsAboveLimit /\ [Next]_vars => IInv'
<1>1. SUFFICES ASSUME IInv, InstructionsAboveLimit, [Next]_vars
               PROVE  IInv'
  OBVIOUS
<1>2. CASE PrintLeaf \/ PrintAddress
  BY <1>1, <1>2, LeafStep
<1>3. CASE PrintContainer
  <2>1. /\ status = "running" /\ pending # None /\ KindOf(pending) \in Containers
        /\ current_depth < PrintDepth
        /\ Enter /\ Write(Item("open", pending)) /\ graph' = graph
        /\ pending' = None /\ sym_next' = sym_next
        /\ current_depth' = current_depth + 1
    BY <1>3 DEF PrintContainer, Called, MoreDepth, IncrDepth
  <2>2. QED
    BY <1>1, <2>1, EnterStep
<1>4. CASE PrintBinary
  <2>1. /\ status = "running" /\ pending # None /\ KindOf(pending) \in Binaries
        /\ Enter /\ Write(Item("open", pending)) /\ graph' = graph
        /\ pending' = None /\ sym_next' = sym_next
        /\ current_depth' = current_depth
    BY <1>4 DEF PrintBinary, Called
  <2>2. KindOf(pending) \notin Containers
    BY <2>1 DEF Containers, Binaries
  <2>3. QED
    BY <1>1, <2>1, <2>2, EnterStep
<1>5. CASE PrintPart
  BY <1>1, <1>5, PartStep
<1>6. CASE Close
  BY <1>1, <1>6, CloseStep
<1>7. CASE CompareNullClass \/ UNCHANGED vars
  BY <1>1, <1>7, RestStep
<1>8. QED
  BY <1>1, <1>2, <1>3, <1>4, <1>5, <1>6, <1>7 DEF Next

(* Print is called with the root.                                            *)
LEMMA Initially == Init => IInv
<1>1. SUFFICES ASSUME Init
               PROVE  IInv
  OBVIOUS
<1>2. /\ graph \in Graphs /\ calls = << >> /\ pending = graph.root /\ current_depth = 0
      /\ sym_next = FALSE /\ out = << >> /\ status = "running"
  BY <1>1 DEF Init
<1>3. IsStack(calls)
  <2>1. calls \in Seq(Call) /\ Len(calls) = 0
    BY <1>2, EmptySeq
  <2>2. QED
    BY <2>1 DEF IsStack
<1>4. OpenCount = 0
  <2>1. {k \in DOMAIN calls : KindOf(calls[k].ref) \in Containers} = {}
    BY <1>2
  <2>2. Cardinality({}) = 0
    BY FS_EmptySet
  <2>3. QED
    BY <2>1, <2>2, Zenon DEF OpenCount
<1>5. pending \in Refs
  BY <1>2, Wellformed
<1>6. out \in Seq(Items)
  BY <1>2, EmptySeq
<1>7. 0 \in 0 .. PrintDepth
  BY DepthAssumption
<1>8. OpenCount <= current_depth /\ DepthIsNesting
  BY <1>2, <1>4 DEF DepthIsNesting
<1>9. QED
  BY <1>2, <1>3, <1>5, <1>6, <1>7, <1>8 DEF IInv

(* The invariant, as long as 'instructions are printed above the limit.      *)
LEMMA AlwaysIInv == Spec /\ []InstructionsAboveLimit => []IInv
  BY Initially, Inductive, PTL DEF Spec

-----------------------------------------------------------------------------
(* The recursion is bounded by print_depth_ and the binaries of the graph,   *)
(* whatever cycles there are: every variable has its type.                   *)
THEOREM TypeCorrect == Spec /\ []InstructionsAboveLimit => []TypeOK
<1>1. ASSUME IInv
      PROVE  TypeOK
  <2>1. graph \in Graphs /\ IsStack(calls) /\ current_depth \in 0 .. PrintDepth /\ PrintDepth \in Nat
    BY <1>1, DepthAssumption DEF IInv
  <2>2. /\ DOMAIN calls = 1 .. Len(calls)
        /\ \A k \in 1 .. Len(calls) : calls[k] \in Call
        /\ Cardinality(OpenIn(calls)) \in Nat
    BY <2>1, CountsOnStack
  <2>3. Cardinality(OpenIn(calls)) <= PrintDepth
    <3>1. OpenCount = Cardinality(OpenIn(calls))
      BY DEF OpenCount, OpenIn
    <3>2. Cardinality(OpenIn(calls)) <= current_depth
      BY <1>1, <3>1 DEF IInv
    <3>3. QED
      BY <2>1, <2>2, <3>2
  <2>4. Len(calls) <= Deepest(graph)
    BY <2>1, <2>3, StackIsBounded
  <2>5. \A k \in DOMAIN calls : calls[k].ref \in DOMAIN graph.of /\ calls[k].next \in Nat \ {0}
    BY <2>2 DEF Call, Refs
  <2>6. \A k \in DOMAIN out : out[k].what \in {"open", "close", "address", "plain", "quoted"}
    <3>1. out \in Seq(Items) /\ DOMAIN out = 1 .. Len(out)
      BY <1>1, LenProperties DEF IInv
    <3>2. \A k \in DOMAIN out : out[k] \in Items
      BY <3>1, ElementOfSeq
    <3>3. QED
      BY <3>2 DEF Items
  <2>7. QED
    BY <1>1, <2>4, <2>5, <2>6 DEF TypeOK, IInv, Refs
<1>2. QED
  BY <1>1, AlwaysIInv, PTL

(* No path through the Print methods of Object, Array and Frame forgets to   *)
(* go back a level, or goes back too far.                                    *)
THEOREM DepthAlwaysIsNesting == Spec /\ []InstructionsAboveLimit => []DepthIsNesting
<1>1. IInv => DepthIsNesting
  BY DEF IInv
<1>2. QED
  BY <1>1, AlwaysIInv, PTL

(* Memory for as many activations is enough for every graph with so many     *)
(* binaries, cyclic or not.                                                  *)
THEOREM OverflowsOnlyBelow ==
    Spec /\ []InstructionsAboveLimit => [](status = "overflow" => StackLimit < Deepest(graph))
<1>1. IInv => (status = "overflow" => StackLimit < Deepest(graph))
  BY DEF IInv
<1>2. QED
  BY <1>1, AlwaysIInv, PTL
=============================================================================
