-------------------------- MODULE DecompilerProofs --------------------------
(***************************************************************************)
(* For every program: the decompiler keeps to its types, never takes the   *)
(* bottom of its stack, its nodes account for the instructions seen, and   *)
(* what they print shows each of these once.                               *)
(***************************************************************************)
EXTENDS Decompiler, FiniteSetTheorems, WellFoundedInduction, SequenceTheorems, TLAPS

(* The nodes of a stack: their texts belong to no set that can be named.    *)
NodesOf(s) == {s[i] : i \in DOMAIN s}

IsStack(s) == s \in Seq(NodesOf(s))

(* A node has the fields of ND, with their types.                           *)
IsNode(x) ==
    /\ x = Node(x.type, x.first, x.last, x.arg, x.text, x.info)
    /\ x.type \in NodeTypes
    /\ x.first \in Int /\ x.last \in Int /\ x.arg \in Int
    /\ x.info \in 0 .. 2

(* A stack of nodes with one bottom, at the bottom.                         *)
Sound(s) ==
    /\ IsStack(s)
    /\ Len(s) > 0
    /\ \A i \in 1 .. Len(s) : IsNode(s[i])
    /\ \A i \in 1 .. Len(s) : s[i].type = "EndOfStack" <=> i = 1

(* Each node starts where the node below it stops.                          *)
Chain(s) == \A i \in 2 .. Len(s) : Follows(s[i].first, s[i - 1])

IInv ==
    /\ IsProgram(instructions)
    /\ pc \in DOMAIN instructions
    /\ phase \in {"label", "code", "end", "dead"}
    /\ result \in {1, 0, -1, -2}
    /\ phase # "end" => result = 1
    /\ Sound(stack)
    /\ Decoding => Chain(stack) /\ Follows(pc, stack[Len(stack)])

-----------------------------------------------------------------------------
(* Every set of natural numbers has a least element: what stands behind     *)
(* "the first ... that" in the model.  The order of the initial segments     *)
(* 0 .. n by inclusion is well founded.                                      *)
LEMMA LeastNumber ==
    ASSUME NEW T, T \subseteq Nat, T # {}
    PROVE  \E x \in T : \A y \in T : x <= y
<1> DEFINE R == StrictSubsetOrdering(Nat)
           F == FiniteSubsetsOf(Nat)
           U == {0 .. n : n \in T}
<1>1. IsWellFoundedOn(R, F)
  BY FS_StrictSubsetOrderingWellFounded
<1>2. \A n \in T : 0 .. n \in F
  BY FS_Interval DEF FiniteSubsetsOf
<1>3. U \subseteq F /\ U # {}
  BY <1>2
<1>4. PICK u \in U : \A v \in U : <<v, u>> \notin R
  <2> HIDE DEF R, F, U
  <2> QED
    BY <1>1, <1>3, WFMin
<1>5. PICK x \in T : u = 0 .. x
  BY <1>4
<1>6. ASSUME NEW y \in T, y < x
      PROVE  FALSE
  <2>1. x \in 0 .. x /\ x \notin 0 .. y
    BY <1>6
  <2>2. 0 .. y \subseteq 0 .. x /\ 0 .. y # 0 .. x
    BY <1>6, <2>1
  <2>3. <<0 .. y, 0 .. x>> \in R
    BY <2>2 DEF StrictSubsetOrdering
  <2>4. QED
    BY <2>3, <1>4, <1>5, <1>6
<1>7. QED
  BY <1>6

(* A bounded set has a greatest element, the one least far from the bound.   *)
LEMMA GreatestNumber ==
    ASSUME NEW n \in Nat, NEW T, T \subseteq 0 .. n, T # {}
    PROVE  \E x \in T : \A y \in T : y <= x
<1> DEFINE D == {n - y : y \in T}
<1>1. D \subseteq Nat /\ D # {}
  OBVIOUS
<1>2. PICK d \in D : \A e \in D : d <= e
  <2> HIDE DEF D
  <2> QED
    BY <1>1, LeastNumber
<1>3. PICK x \in T : d = n - x
  BY <1>2
<1>4. \A y \in T : n - y \in D
  OBVIOUS
<1>5. \A y \in T : y <= x
  BY <1>2, <1>3, <1>4
<1>6. QED
  BY <1>5

(* What holds for zero, and for n + 1 when it does for n, holds for all.     *)
LEMMA NumbersInduction ==
    ASSUME NEW T, 0 \in T, \A n \in Nat : n \in T => n + 1 \in T
    PROVE  Nat \subseteq T
<1>1. SUFFICES ASSUME Nat \ T # {}
               PROVE  FALSE
  OBVIOUS
<1>2. PICK x \in Nat \ T : \A y \in Nat \ T : x <= y
  BY <1>1, LeastNumber
<1>3. x - 1 \in Nat /\ x - 1 \in T
  BY <1>2
<1>4. QED
  BY <1>2, <1>3

-----------------------------------------------------------------------------
(* Any sequence is one of its own elements.                                 *)
LEMMA StackOfItsNodes ==
    ASSUME NEW S, NEW s \in Seq(S)
    PROVE  IsStack(s)
<1>1. Len(s) \in Nat /\ s \in [1 .. Len(s) -> S]
  BY LenProperties
<1>2. s \in [1 .. Len(s) -> NodesOf(s)]
  BY <1>1 DEF NodesOf
<1> DEFINE N == NodesOf(s)
<1>3. s \in Seq(N)
  <2> HIDE DEF N
  <2>1. [1 .. Len(s) -> N] \in {[1 .. n -> N] : n \in Nat}
    BY <1>1
  <2>2. Seq(N) = UNION {[1 .. n -> N] : n \in Nat}
    BY SeqDef
  <2>3. s \in [1 .. Len(s) -> N]
    BY <1>2 DEF N
  <2>4. QED
    BY <2>1, <2>2, <2>3, Zenon
<1>4. QED
  BY <1>3 DEF IsStack

(* The stack s cut after m nodes, with x on top.                             *)
Joined(s, m, x) == Append(SubSeq(s, 1, m), x)

(* What a stack holds after its top has been replaced by one node.          *)
LEMMA Replaced ==
    ASSUME NEW s, IsStack(s), NEW m \in 0 .. Len(s), NEW x
    PROVE  /\ IsStack(Joined(s, m, x))
           /\ Len(Joined(s, m, x)) = m + 1
           /\ \A i \in 1 .. m : Joined(s, m, x)[i] = s[i]
           /\ Joined(s, m, x)[m + 1] = x
<1> DEFINE t == Joined(s, m, x)
<1>1. PICK S : s \in Seq(S) /\ x \in S
  <2>1. s \in Seq(NodesOf(s) \cup {x})
    BY SeqMonotonic DEF IsStack
  <2>2. QED
    BY <2>1
<1>2. t \in Seq(S)
  BY <1>1 DEF Joined
<1>3. IsStack(t)
  <2> HIDE DEF t
  <2> QED
    BY <1>2, StackOfItsNodes
<1>4. QED
  BY <1>1, <1>3 DEF Joined

(* Cutting a stack leaves the nodes below the cut.                           *)
LEMMA CutShort ==
    ASSUME NEW s, IsStack(s), NEW m \in 0 .. Len(s),
           NEW t, t = SubSeq(s, 1, m)
    PROVE  /\ IsStack(t)
           /\ Len(t) = m
           /\ \A i \in 1 .. m : t[i] = s[i]
<1>1. PICK S : s \in Seq(S)
  BY DEF IsStack
<1>2. t \in Seq(S)
  BY <1>1
<1>3. IsStack(t)
  BY <1>2, StackOfItsNodes
<1>4. QED
  BY <1>1, <1>3

(* The index of a node on a stack is a number.                               *)
LEMMA StackHeight ==
    ASSUME NEW s, IsStack(s)
    PROVE  Len(s) \in Nat /\ DOMAIN s = 1 .. Len(s)
  BY LenProperties DEF IsStack

(* Cutting a stack above its bottom leaves a stack.                         *)
LEMMA CutSound ==
    ASSUME NEW s, Sound(s), NEW m \in 1 .. Len(s),
           NEW t, t = SubSeq(s, 1, m)
    PROVE  Sound(t) /\ Len(t) = m /\ \A i \in 1 .. m : t[i] = s[i]
<1>1. IsStack(t) /\ Len(t) = m /\ \A i \in 1 .. m : t[i] = s[i]
  <2>1. IsStack(s) /\ m \in 0 .. Len(s)
    BY StackHeight DEF Sound
  <2>2. QED
    BY <2>1, CutShort
<1>2. m \in Nat /\ m > 0 /\ 1 .. m \subseteq 1 .. Len(s)
  BY StackHeight DEF Sound
<1>3. QED
  BY <1>1, <1>2 DEF Sound

(* A node put on what is left above the bottom makes a stack.               *)
LEMMA JoinSound ==
    ASSUME NEW s, Sound(s), NEW m \in 1 .. Len(s),
           NEW x, IsNode(x), x.type # "EndOfStack",
           NEW t, t = Joined(s, m, x)
    PROVE  /\ Sound(t)
           /\ Len(t) = m + 1
           /\ \A i \in 1 .. m : t[i] = s[i]
           /\ t[m + 1] = x
<1>1. /\ IsStack(t)
      /\ Len(t) = m + 1
      /\ \A i \in 1 .. m : t[i] = s[i]
      /\ t[m + 1] = x
  <2>1. IsStack(s) /\ m \in 0 .. Len(s)
    BY StackHeight DEF Sound
  <2>2. QED
    BY <2>1, Replaced
<1>2. m \in Nat /\ m > 0 /\ 1 .. m \subseteq 1 .. Len(s)
  BY StackHeight DEF Sound
<1>3. \A i \in 1 .. m + 1 : i \in 1 .. m \/ i = m + 1
  BY <1>2
<1>4. Sound(t)
  BY <1>1, <1>2, <1>3 DEF Sound
<1>5. QED
  BY <1>1, <1>4

(* The search below stack[i] ends above the bottom or at it.                 *)
LEMMA SearchEnds ==
    ASSUME Sound(stack), NEW i \in 2 .. Len(stack)
    PROVE  BelowStatements(i) \in 1 .. i - 1
<1> DEFINE T == {j \in 1 .. i - 1 : stack[j].type # "Statement"}
<1>1. Len(stack) \in Nat /\ i \in Nat /\ 1 <= i - 1 /\ i - 1 < Len(stack)
  BY StackHeight DEF Sound
<1>2. 1 \in T
  BY <1>1 DEF Sound
<1>3. PICK x \in T : \A y \in T : y <= x
  <2>1. T \subseteq 0 .. i - 1 /\ T # {} /\ i - 1 \in Nat
    BY <1>1, <1>2
  <2> HIDE DEF T
  <2>2. QED
    BY <2>1, GreatestNumber
<1>4. \A k \in x + 1 .. i - 1 : stack[k].type = "Statement"
  BY <1>1, <1>3
<1>5. QED
  BY <1>3, <1>4 DEF BelowStatements

(* The search down the arguments ends at the bottom at the latest.           *)
LEMMA ArgsFound ==
    ASSUME Sound(stack), NEW k \in Nat, k < Len(stack), NEW n \in Nat
    PROVE  /\ ArgsFrom(k, n) \in 0 .. n
           /\ ArgsFrom(k, n) + k < Len(stack)
           /\ \A i \in k .. k + ArgsFrom(k, n) - 1 : Top(i).type = "Expr"
<1> DEFINE T == {m \in 0 .. n : m < n => Top(k + m).type # "Expr"}
           Found(m) == /\ \A i \in k .. k + m - 1 : Top(i).type = "Expr"
                       /\ m < n => Top(k + m).type # "Expr"
<1>1. Len(stack) \in Nat
  BY StackHeight DEF Sound
<1>2. PICK m \in T : \A y \in T : m <= y
  <2>1. T \subseteq Nat /\ n \in T
    OBVIOUS
  <2> HIDE DEF T
  <2>2. QED
    BY <2>1, LeastNumber
<1>3. \A j \in 0 .. m - 1 : Top(k + j).type = "Expr"
  BY <1>2
<1>4. \A i \in k .. k + m - 1 : Top(i).type = "Expr"
  <2>1. TAKE i \in k .. k + m - 1
  <2>2. i - k \in 0 .. m - 1 /\ k + (i - k) = i
    BY <1>2, <2>1
  <2>3. QED
    BY <1>3, <2>2
<1>5. \E a \in 0 .. n : Found(a)
  BY <1>2, <1>4
<1>6. /\ ArgsFrom(k, n) \in 0 .. n
      /\ Found(ArgsFrom(k, n))
  <2> HIDE DEF Found
  <2>1. ArgsFrom(k, n) = CHOOSE a \in 0 .. n : Found(a)
    BY DEF ArgsFrom, Found
  <2>2. QED
    BY <1>5, <2>1, Zenon
<1>7. ArgsFrom(k, n) + k < Len(stack)
  <2>1. SUFFICES ASSUME Len(stack) <= ArgsFrom(k, n) + k
                 PROVE  FALSE
    BY <1>1, <1>6
  <2>2. Len(stack) - 1 \in k .. k + ArgsFrom(k, n) - 1
    BY <1>1, <1>6, <2>1
  <2>3. Top(Len(stack) - 1).type = "Expr"
    BY <1>6, <2>2
  <2>4. QED
    BY <1>1, <2>3 DEF Top, Sound
<1>8. QED
  BY <1>6, <1>7

(* Expressions at the top stand above the bottom.                            *)
LEMMA ExpressionsAboveBottom ==
    ASSUME Sound(stack), NEW k \in Nat, k <= Len(stack),
           \A i \in 0 .. k - 1 : Top(i).type = "Expr"
    PROVE  k < Len(stack)
<1>1. Len(stack) \in Nat /\ Len(stack) > 0 /\ stack[1].type # "Expr"
  BY StackHeight DEF Sound
<1>2. CASE k = Len(stack)
  <2>1. Top(k - 1) = stack[1] /\ k - 1 \in 0 .. k - 1
    BY <1>1, <1>2 DEF Top
  <2>2. QED
    BY <1>1, <2>1
<1>3. QED
  BY <1>1, <1>2

(* So do two operands, the heads and arguments of a call, the nodes of a     *)
(* loop and those of a conditional.                                          *)
LEMMA OperandsFound ==
    ASSUME Sound(stack), Top(0).type = "Expr", Top(1).type = "Expr"
    PROVE  Len(stack) \in Nat /\ 2 < Len(stack)
<1>1. Len(stack) \in Nat /\ Len(stack) > 0
  BY StackHeight DEF Sound
<1>2. 1 < Len(stack)
  BY <1>1, ExpressionsAboveBottom
<1>3. QED
  BY <1>1, <1>2, ExpressionsAboveBottom

LEMMA HeadsFound ==
    ASSUME Sound(stack), NEW heads \in {1, 2},
           \A i \in 0 .. heads - 1 : Top(i).type = "Expr"
    PROVE  Len(stack) \in Nat /\ heads < Len(stack)
<1>1. Len(stack) \in Nat /\ Len(stack) > 0
  BY StackHeight DEF Sound
<1>2. 1 < Len(stack)
  BY <1>1, ExpressionsAboveBottom
<1>3. QED
  BY <1>1, <1>2, ExpressionsAboveBottom

LEMMA WhileFound ==
    ASSUME Sound(stack), IsWhileDo
    PROVE  Len(stack) \in Nat /\ WhileStart \in 2 .. Len(stack) - 2
<1>1. Len(stack) \in Nat /\ Len(stack) > 0
  BY StackHeight DEF Sound
<1>2. 1 < Len(stack)
  BY <1>1, ExpressionsAboveBottom DEF IsWhileDo
<1>3. stack[Len(stack) - 1].type = "Statement"
  BY DEF IsWhileDo, Top
<1>4. Len(stack) - 1 \in 2 .. Len(stack)
  BY <1>1, <1>2, <1>3 DEF Sound
<1>5. WhileStart \in 1 .. Len(stack) - 2
  BY <1>4, SearchEnds DEF WhileStart
<1>6. stack[WhileStart].type = "BranchFwd" /\ stack[1].type = "EndOfStack"
  BY <1>1 DEF IsWhileDo, Sound
<1>7. QED
  BY <1>1, <1>5, <1>6

(* The branches of "if" and their conditions stand above the bottom.         *)
LEMMA ElseBranchFound ==
    ASSUME Sound(stack), NEW type, type \in {"Expr", "Statement"}, Top(0).type = type
    PROVE  ElseBranch \in 1 .. Len(stack) - 1
<1>1. Len(stack) \in Nat /\ Len(stack) > 0 /\ stack[Len(stack)].type # "EndOfStack"
  BY StackHeight DEF Sound, Top
<1>2. Len(stack) \in 2 .. Len(stack)
  BY <1>1 DEF Sound
<1>3. QED
  BY <1>1, <1>2, SearchEnds DEF ElseBranch

LEMMA IfElseFound ==
    ASSUME Sound(stack), NEW type \in {"Expr", "Statement"}, HasIfElseShape(type)
    PROVE  /\ Len(stack) \in Nat
           /\ ElseBranch \in 1 .. Len(stack) - 1
           /\ ThenBranch \in 3 .. ElseBranch - 2
<1>1. Len(stack) \in Nat /\ stack[1].type = "EndOfStack"
  BY StackHeight DEF Sound
<1>2. ElseBranch \in 1 .. Len(stack) - 1
  BY ElseBranchFound DEF HasIfElseShape
<1>3. ElseBranch # 1 /\ ElseBranch - 1 # 1
  <2>1. ElseBranch # 1
    BY <1>1 DEF HasIfElseShape
  <2>2. ElseBranch - 1 # 1
    BY <1>1 DEF HasIfElseShape
  <2>3. QED
    BY <2>1, <2>2
<1>4. ElseBranch - 1 \in 2 .. Len(stack)
  BY <1>1, <1>2, <1>3
<1>5. ThenBranch \in 1 .. ElseBranch - 2
  BY <1>1, <1>2, <1>4, SearchEnds DEF ThenBranch
<1>6. ThenBranch # 1 /\ ThenBranch - 1 # 1
  <2>1. ThenBranch # 1
    BY <1>1 DEF HasIfElseShape
  <2>2. ThenBranch - 1 # 1
    BY <1>1 DEF HasIfElseShape
  <2>3. QED
    BY <2>1, <2>2
<1>7. QED
  BY <1>1, <1>2, <1>5, <1>6

LEMMA IfThenFound ==
    ASSUME Sound(stack), IsIfThen
    PROVE  Len(stack) \in Nat /\ ElseBranch \in 3 .. Len(stack) - 1
<1>1. Len(stack) \in Nat /\ stack[1].type = "EndOfStack"
  BY StackHeight DEF Sound
<1>2. ElseBranch \in 1 .. Len(stack) - 1
  BY ElseBranchFound DEF IsIfThen
<1>3. ElseBranch # 1 /\ ElseBranch - 1 # 1
  <2>1. ElseBranch # 1
    BY <1>1 DEF IsIfThen
  <2>2. ElseBranch - 1 # 1
    BY <1>1 DEF IsIfThen
  <2>3. QED
    BY <2>1, <2>2
<1>4. QED
  BY <1>1, <1>2, <1>3

-----------------------------------------------------------------------------
(* Before the last instruction there is a next one.                          *)
LEMMA InProgram ==
    ASSUME IInv
    PROVE  /\ pc \in Nat
           /\ instructions[pc].bc \in Bytecodes
           /\ instructions[pc].arg \in Int
           /\ instructions[pc].bc # "EndOfFile" => pc + 1 \in DOMAIN instructions
<1>1. IsProgram(instructions)
  BY DEF IInv
<1>2. PICK n \in Nat :
         /\ DOMAIN instructions = 0 .. n
         /\ \A i \in 0 .. n :
               /\ instructions[i].bc \in Bytecodes
               /\ instructions[i].arg \in Int
               /\ instructions[i].bc = "EndOfFile" <=> i = n
  BY <1>1 DEF IsProgram
<1>3. pc \in 0 .. n
  BY <1>2 DEF IInv
<1>4. QED
  BY <1>2, <1>3

(* A handler that stops breaks nothing that decoding needs.                  *)
LEMMA StopKeeps ==
    ASSUME IInv, NEW code \in {0, -1, -2}, Stop(code), Sound(stack')
    PROVE  IInv'
<1>1. /\ instructions' = instructions /\ pc' = pc
      /\ phase' = "end" /\ result' = code
  BY DEF Stop
<1>2. ~Decoding'
  BY <1>1 DEF Decoding
<1>3. QED
  BY <1>1, <1>2 DEF IInv, Sound, IsStack, NodesOf

(* A handler that goes on has to leave the nodes contiguous.                 *)
LEMMA ContinueKeeps ==
    ASSUME IInv, phase = "code", instructions[pc].bc # "EndOfFile", Continue,
           Sound(stack'),
           Decoding' => Chain(stack') /\ Follows(pc + 1, stack'[Len(stack')])
    PROVE  IInv'
<1>1. /\ instructions' = instructions /\ pc' = pc + 1
      /\ phase' \in {"label", "code"} /\ result' = 1
  BY DEF Continue
<1>2. pc + 1 \in DOMAIN instructions
  BY InProgram
<1>3. Decoding' => Chain(stack)' /\ Follows(pc, stack[Len(stack)])'
  BY <1>1 DEF Chain, Follows, OnlyPops
<1>4. Sound(stack)'
  BY DEF Sound, IsStack, NodesOf, IsNode, Node, NodeTypes
<1>5. QED
  BY <1>1, <1>2, <1>3, <1>4 DEF IInv

(* A node that starts where the lowest node it replaces did, or at the       *)
(* current instruction when it replaces none, keeps the nodes contiguous.    *)
LEMMA JoinChain ==
    ASSUME Sound(stack), Chain(stack), Follows(pc, stack[Len(stack)]),
           NEW m \in 1 .. Len(stack),
           NEW x, IsNode(x), x.type # "EndOfStack",
           x.first = IF m = Len(stack) THEN pc ELSE stack[m + 1].first
    PROVE  Chain(Joined(stack, m, x))
<1> DEFINE t == Joined(stack, m, x)
<1>1. /\ Len(t) = m + 1
      /\ \A i \in 1 .. m : t[i] = stack[i]
      /\ t[m + 1] = x
  <2> HIDE DEF t
  <2>1. t = Joined(stack, m, x)
    BY DEF t
  <2>2. QED
    BY <2>1, JoinSound
<1>2. Len(stack) \in Nat /\ m \in Nat /\ m > 0 /\ m <= Len(stack)
  BY StackHeight DEF Sound
<1> HIDE DEF t
<1>3. ASSUME NEW i \in 2 .. m + 1
      PROVE  Follows(t[i].first, t[i - 1])
  <2>1. CASE i <= m
    <3>1. t[i] = stack[i] /\ t[i - 1] = stack[i - 1] /\ i \in 2 .. Len(stack)
      BY <1>1, <1>2, <2>1
    <3>2. QED
      BY <3>1 DEF Chain
  <2>2. CASE i = m + 1 /\ m = Len(stack)
    BY <1>1, <1>2, <2>2
  <2>3. CASE i = m + 1 /\ m < Len(stack)
    <3>1. t[i].first = stack[m + 1].first /\ t[i - 1] = stack[m] /\ m + 1 \in 2 .. Len(stack)
      BY <1>1, <1>2, <2>3
    <3>2. Follows(stack[m + 1].first, stack[m + 1 - 1]) /\ m + 1 - 1 = m
      BY <1>2, <3>1 DEF Chain
    <3>3. QED
      BY <3>1, <3>2
  <2>4. QED
    BY <1>2, <2>1, <2>2, <2>3
<1>4. Chain(t)
  BY <1>1, <1>3 DEF Chain
<1>5. QED
  BY <1>4 DEF t

(* A handler that replaces the top of the stack by one node and goes on.     *)
LEMMA NodeKeeps ==
    ASSUME IInv, phase = "code", instructions[pc].bc # "EndOfFile", Continue,
           NEW m \in 1 .. Len(stack),
           NEW x, IsNode(x), x.type # "EndOfStack",
           x.first = IF m = Len(stack) THEN pc ELSE stack[m + 1].first,
           x.last \in {pc, pc + 1},
           stack' = Joined(stack, m, x)
    PROVE  IInv'
<1>1. Sound(stack) /\ Chain(stack) /\ Follows(pc, stack[Len(stack)])
  BY DEF IInv, Decoding
<1>2. Sound(stack') /\ Len(stack') = m + 1 /\ stack'[m + 1] = x
  BY <1>1, JoinSound
<1>3. Chain(stack')
  BY <1>1, JoinChain
<1>4. Follows(pc + 1, x)
  BY InProgram DEF Follows, OnlyPops
<1>5. QED
  BY <1>2, <1>3, <1>4, ContinueKeeps

(* A control structure recognised at a label, which ends there or where the  *)
(* top of the stack did.                                                     *)
LEMMA LabelKeeps ==
    ASSUME IInv, UNCHANGED <<instructions, pc, phase, result>>,
           NEW m \in 1 .. Len(stack) - 1,
           NEW x, IsNode(x), x.type # "EndOfStack",
           x.first = stack[m + 1].first,
           x.last \in {pc, stack[Len(stack)].last},
           stack' = Joined(stack, m, x)
    PROVE  IInv'
<1>1. Sound(stack) /\ (Decoding => Chain(stack) /\ Follows(pc, stack[Len(stack)]))
  BY DEF IInv
<1>2. m \in 1 .. Len(stack) /\ m # Len(stack)
  BY <1>1, StackHeight DEF Sound
<1>3. Sound(stack') /\ Len(stack') = m + 1 /\ stack'[m + 1] = x
  BY <1>1, <1>2, JoinSound
<1>4. Decoding => Chain(stack')
  BY <1>1, <1>2, JoinChain
<1>5. Decoding => Follows(pc, x)
  BY <1>1, InProgram DEF Follows, OnlyPops
<1>6. Sound(stack)'
  BY <1>3 DEF Sound, IsStack, NodesOf, IsNode, Node, NodeTypes
<1>7. Decoding' => Chain(stack)' /\ Follows(pc, stack[Len(stack)])'
  BY <1>3, <1>4, <1>5 DEF Decoding, Chain, Follows, OnlyPops
<1>8. QED
  BY <1>6, <1>7 DEF IInv
-----------------------------------------------------------------------------
(* What the parts of a node are makes it a node.                             *)
LEMMA MadeNode ==
    ASSUME NEW type \in NodeTypes, NEW first \in Int, NEW last \in Int,
           NEW arg \in Int, NEW text, NEW info \in 0 .. 2
    PROVE  IsNode(Node(type, first, last, arg, text, info))
  BY DEF IsNode, Node

(* Pushing cuts nothing off.                                                 *)
LEMMA PushJoins ==
    ASSUME Sound(stack), NEW x
    PROVE  /\ Len(stack) \in 1 .. Len(stack)
           /\ Append(stack, x) = Joined(stack, Len(stack), x)
<1>1. PICK S : stack \in Seq(S)
  BY DEF Sound, IsStack
<1>2. SubSeq(stack, 1, Len(stack)) = stack
  BY <1>1, SubSeqFull
<1>3. QED
  BY <1>2, StackHeight DEF Sound, Joined

(* A leaf or a branch that waits on the stack.                               *)
LEMMA PushKeeps ==
    ASSUME IInv, phase = "code", instructions[pc].bc # "EndOfFile",
           NEW x, IsNode(x), x.type # "EndOfStack", x.first = pc, x.last = pc, Push(x)
    PROVE  IInv'
<1>1. Sound(stack)
  BY DEF IInv
<1>2. Continue /\ stack' = Joined(stack, Len(stack), x)
  BY <1>1, PushJoins DEF Push
<1>3. QED
  BY <1>1, <1>2, PushJoins, NodeKeeps

(* An instruction that becomes a leaf pushes one node of its own pc.         *)
LEMMA LeafKeeps ==
    ASSUME IInv, DoLeaf
    PROVE  IInv'
<1>1. PICK info \in 0 .. 2 :
         Push(Node("Expr", pc, pc, 0, Text(instructions[pc].bc, pc, << >>), info))
  BY DEF DoLeaf
<1>2. phase = "code" /\ instructions[pc].bc # "EndOfFile"
  BY DEF DoLeaf, At, Leaves
<1> DEFINE x == Node("Expr", pc, pc, 0, Text(instructions[pc].bc, pc, << >>), info)
<1>3. IsNode(x) /\ x.type # "EndOfStack" /\ x.first = pc /\ x.last = pc
  <2>1. "Expr" \in NodeTypes /\ pc \in Int /\ 0 \in Int
    BY InProgram DEF NodeTypes
  <2>2. IsNode(x)
    BY <2>1, MadeNode
  <2>3. QED
    BY <2>2 DEF Node
<1>4. Push(x)
  BY <1>1
<1> HIDE DEF x
<1>5. QED
  BY <1>2, <1>3, <1>4, PushKeeps

(* The node of a branch is a node that starts and ends at its pc.            *)
LEMMA BranchNodeIsNode ==
    ASSUME IInv, NEW name \in {"Branch", "BranchTrue", "BranchFalse"}
    PROVE  /\ IsNode(BranchNode(name))
           /\ BranchNode(name).type # "EndOfStack"
           /\ BranchNode(name).first = pc
           /\ BranchNode(name).last = pc
<1>1. PICK type \in NodeTypes \ {"EndOfStack"} :
         BranchNode(name) = Node(type, pc, pc, Arg, Text(name, pc, << >>), 0)
  BY DEF BranchNode, Forward, Backward, NodeTypes
<1>2. pc \in Int /\ Arg \in Int /\ 0 \in 0 .. 2
  BY InProgram DEF Arg
<1>3. IsNode(Node(type, pc, pc, Arg, Text(name, pc, << >>), 0))
  BY <1>2, MadeNode
<1>4. QED
  BY <1>1, <1>3 DEF Node

(* Branches are pushed as nodes of their own, for DoLabel to find.           *)
LEMMA BranchesKeep ==
    ASSUME IInv, DoBranch \/ DoBranchIfFalse
    PROVE  IInv'
<1>1. PICK name \in {"Branch", "BranchTrue", "BranchFalse"} : Push(BranchNode(name))
  BY DEF DoBranch, DoBranchIfFalse
<1>2. phase = "code" /\ instructions[pc].bc # "EndOfFile"
  BY DEF DoBranch, DoBranchIfFalse, At
<1>3. QED
  BY <1>1, <1>2, BranchNodeIsNode, PushKeeps

(* An infix operator replaces its two operands by one node that covers both. *)
LEMMA InfixKeeps ==
    ASSUME IInv, DoInfixOperator
    PROVE  IInv'
<1>1. /\ Sound(stack) /\ phase = "code" /\ instructions[pc].bc \in Infix
      /\ instructions[pc].bc # "EndOfFile"
  BY DEF IInv, DoInfixOperator, At, Infix, Precedence
<1>2. Len(stack) \in Nat /\ Len(stack) > 0
  BY <1>1, StackHeight DEF Sound
<1>3. CASE ~(Top(0).type = "Expr" /\ Top(1).type = "Expr")
  <2>1. Stop(-1) /\ UNCHANGED stack
    BY <1>3 DEF DoInfixOperator
  <2>2. QED
    BY <1>1, <2>1, StopKeeps
<1>4. CASE Top(0).type = "Expr" /\ Top(1).type = "Expr"
  <2> DEFINE m == Len(stack) - 2
  <2>1. m \in 1 .. Len(stack) /\ m + 1 \in 1 .. Len(stack) /\ m # Len(stack)
    <3>1. 2 < Len(stack)
      BY <1>1, <1>4, OperandsFound
    <3>2. QED
      BY <1>2, <3>1
  <2>2. Top(1).first = stack[m + 1].first /\ stack[m + 1].first \in Int
    BY <1>1, <1>2, <2>1 DEF Top, Sound, IsNode
  <2> DEFINE level == Precedence[instructions[pc].bc]
  <2>3. PICK text :
           /\ stack' = Append(Popped(2), Expr(Top(1).first, pc, level, text))
           /\ Continue
    BY <1>4 DEF DoInfixOperator
  <2> DEFINE x == Node("Expr", Top(1).first, pc, level, text, 0)
  <2>4. IsNode(x) /\ x.type # "EndOfStack" /\ x.first = stack[m + 1].first /\ x.last = pc
    <3>1. "Expr" \in NodeTypes /\ pc \in Int /\ Top(1).first \in Int /\ level \in Int
      BY <1>1, <2>2, InProgram DEF NodeTypes, Infix, Precedence
    <3>2. IsNode(x)
      BY <3>1, MadeNode
    <3>3. QED
      BY <2>2, <3>2 DEF Node
  <2>5. stack' = Joined(stack, m, x)
    BY <2>3 DEF Joined, Popped, Expr
  <2> HIDE DEF x, m
  <2>6. QED
    BY <1>1, <2>1, <2>3, <2>4, <2>5, NodeKeeps
<1>5. QED
  BY <1>3, <1>4

(* A call replaces its heads and arguments by one node, or pops expressions  *)
(* and stops.                                                                *)
LEMMA CallsKeep ==
    ASSUME IInv, phase = "code", instructions[pc].bc # "EndOfFile",
           NEW heads \in {1, 2}, CallWith(heads)
    PROVE  IInv'
<1> DEFINE n    == Arg
           args == IF n > 0 THEN ArgsFrom(heads, n) ELSE 0
           Headless == \E i \in 0 .. heads - 1 : Top(i).type # "Expr"
<1>1. Sound(stack) /\ n \in Int
  BY InProgram DEF IInv, Arg
<1>2. Len(stack) \in Nat /\ Len(stack) > 0 /\ stack[1].type = "EndOfStack"
  BY <1>1, StackHeight DEF Sound
<1>3. CASE Headless
  <2>1. stack' = Popped(IF Top(0).type = "Expr" THEN 1 ELSE 0) /\ Stop(-1)
    BY <1>3 DEF CallWith
  <2>2. PICK m \in 1 .. Len(stack) : stack' = SubSeq(stack, 1, m)
    <3>1. CASE Top(0).type = "Expr"
      <4>1. 1 < Len(stack)
        BY <1>1, <1>2, <3>1, ExpressionsAboveBottom
      <4>2. QED
        BY <1>2, <2>1, <3>1, <4>1 DEF Popped
    <3>2. CASE Top(0).type # "Expr"
      BY <1>2, <2>1, <3>2 DEF Popped
    <3>3. QED
      BY <3>1, <3>2
  <2>3. Sound(stack')
    BY <1>1, <2>2, CutSound
  <2>4. QED
    BY <2>1, <2>3, StopKeeps
<1>4. CASE ~Headless
  <2>1. heads < Len(stack)
    BY <1>1, <1>4, HeadsFound
  <2>2. args \in Nat /\ args + heads < Len(stack)
    <3>1. CASE n > 0
      <4>1. n \in Nat /\ heads \in Nat
        BY <1>1, <3>1
      <4>2. /\ ArgsFrom(heads, n) \in 0 .. n
            /\ ArgsFrom(heads, n) + heads < Len(stack)
        BY <1>1, <2>1, <4>1, ArgsFound
      <4>3. QED
        BY <3>1, <4>1, <4>2
    <3>2. CASE ~(n > 0)
      BY <1>2, <2>1, <3>2
    <3>3. QED
      BY <3>1, <3>2
  <2>3. CASE args = n /\ n > 0
    <3> DEFINE m == Len(stack) - (heads + n)
    <3>1. PICK text :
             /\ stack' = Append(Popped(heads + n), Expr(ArgListStart(heads, n), pc, 0, text))
             /\ Continue
      BY <1>4, <2>3 DEF CallWith
    <3>2. /\ m \in 1 .. Len(stack) /\ m # Len(stack) /\ m + 1 \in 1 .. Len(stack)
          /\ ArgListStart(heads, n) = stack[m + 1].first
      <4>1. Len(stack) - (heads + n - 1) = m + 1
        BY <1>1, <1>2
      <4>2. QED
        BY <1>2, <2>2, <2>3, <4>1 DEF ArgListStart, Top
    <3> DEFINE x == Node("Expr", ArgListStart(heads, n), pc, 0, text, 0)
    <3>3. IsNode(x) /\ x.type # "EndOfStack" /\ x.first = stack[m + 1].first /\ x.last = pc
      <4>1. "Expr" \in NodeTypes /\ pc \in Int /\ ArgListStart(heads, n) \in Int
        BY <1>1, <3>2, InProgram DEF NodeTypes, Sound, IsNode
      <4>2. IsNode(x)
        BY <4>1, MadeNode
      <4>3. QED
        BY <3>2, <4>2 DEF Node
    <3>4. stack' = Joined(stack, m, x)
      BY <3>1 DEF Joined, Popped, Expr
    <3> HIDE DEF x, m
    <3>5. QED
      BY <3>1, <3>2, <3>3, <3>4, NodeKeeps
  <2>4. CASE ~(args = n /\ n > 0)
    <3>1. stack' = Popped(heads + args) /\ Stop(-1)
      BY <1>4, <2>4 DEF CallWith
    <3>2. Len(stack) - (heads + args) \in 1 .. Len(stack)
      BY <1>2, <2>2
    <3>3. Sound(stack')
      <4> HIDE DEF args
      <4>1. QED
        BY <1>1, <3>1, <3>2, CutSound DEF Popped
    <3>4. QED
      BY <3>1, <3>3, StopKeeps
  <2>5. QED
    BY <2>3, <2>4
<1>5. QED
  BY <1>3, <1>4

(* An assignment and a return that prints take the top of the stack.         *)
LEMMA StatementKeeps ==
    ASSUME IInv, phase = "code", instructions[pc].bc # "EndOfFile", Continue,
           Top(0).type = "Expr", NEW text,
           stack' = Append(Popped(1), Statement(Top(0).first, pc, text))
    PROVE  IInv'
<1> DEFINE m == Len(stack) - 1
           x == Node("Statement", Top(0).first, pc, 0, text, 0)
<1>1. Sound(stack) /\ Len(stack) \in Nat /\ 1 < Len(stack)
  BY StackHeight, ExpressionsAboveBottom DEF IInv, Sound
<1>2. /\ m \in 1 .. Len(stack) /\ m # Len(stack) /\ m + 1 = Len(stack)
      /\ Top(0) = stack[m + 1] /\ Top(0).first \in Int
  BY <1>1 DEF Top, Sound, IsNode
<1>3. IsNode(x) /\ x.type # "EndOfStack" /\ x.first = stack[m + 1].first /\ x.last = pc
  <2>1. "Statement" \in NodeTypes /\ pc \in Int
    BY InProgram DEF NodeTypes
  <2>2. Top(0).first \in Int
    BY <1>2
  <2>3. IsNode(x)
    BY <2>1, <2>2, MadeNode
  <2>4. QED
    BY <1>2, <2>3 DEF Node
<1>4. stack' = Joined(stack, m, x)
  BY DEF Joined, Popped, Statement
<1> HIDE DEF m, x
<1>5. QED
  BY <1>2, <1>3, <1>4, NodeKeeps

(* An assignment turns the expression on top into a statement.               *)
LEMMA FindAndSetVarKeeps ==
    ASSUME IInv, DoFindAndSetVar
    PROVE  IInv'
<1>1. Sound(stack) /\ phase = "code" /\ instructions[pc].bc # "EndOfFile"
  BY DEF IInv, DoFindAndSetVar, At
<1>2. CASE Top(0).type = "Expr"
  BY <1>1, <1>2, StatementKeeps DEF DoFindAndSetVar
<1>3. CASE Top(0).type # "Expr"
  BY <1>1, <1>3, StopKeeps DEF DoFindAndSetVar
<1>4. QED
  BY <1>2, <1>3

(* A pop turns the expression on top into a statement, in its place.         *)
LEMMA PopKeeps ==
    ASSUME IInv, DoPop
    PROVE  IInv'
<1>1. Sound(stack) /\ phase = "code" /\ instructions[pc].bc = "Pop"
  BY DEF IInv, DoPop, At
<1>2. CASE Top(0).type # "Expr"
  BY <1>1, <1>2, StopKeeps DEF DoPop
<1>3. CASE Top(0).type = "Expr"
  <2>1. PICK n \in Nat : n = Len(stack) /\ 1 < n /\ DOMAIN stack = 1 .. n
    BY <1>1, <1>3, StackHeight, ExpressionsAboveBottom DEF Sound
  <2>2. IsNode(stack[n])
    BY <1>1, <2>1 DEF Sound
  <2>3. PICK x : x = Node("Statement", stack[n].first, stack[n].last, stack[n].arg,
                          stack[n].text, stack[n].info)
    OBVIOUS
  <2>4. stack' = [stack EXCEPT ![n] = x] /\ Continue
    <3>1. /\ stack' = [stack EXCEPT ![n] = [stack[n] EXCEPT !.type = "Statement"]]
          /\ Continue
      BY <1>3, <2>1 DEF DoPop
    <3>2. x = [stack[n] EXCEPT !.type = "Statement"]
      BY <2>2, <2>3 DEF IsNode, Node
    <3>3. QED
      BY <3>1, <3>2
  <2>5. /\ IsNode(x) /\ x.type # "EndOfStack"
        /\ x.first = stack[n].first /\ x.last = stack[n].last /\ x.last \in Int
    BY <2>2, <2>3 DEF IsNode, Node, NodeTypes
  <2>6. PICK S : stack \in Seq(S) /\ x \in S
    <3>1. stack \in Seq(NodesOf(stack) \cup {x})
      BY <1>1, SeqMonotonic DEF IsStack, Sound
    <3>2. QED
      BY <3>1
  <2>7. PICK t : t = [stack EXCEPT ![n] = x] /\ t = stack'
    BY <2>4
  <2>8. /\ t \in Seq(S) /\ Len(t) = n
        /\ \A i \in 1 .. n : t[i] = IF i = n THEN x ELSE stack[i]
    BY <2>1, <2>6, <2>7, ExceptSeq
  <2>9. Sound(t)
    <3>1. IsStack(t)
      BY <2>8, StackOfItsNodes
    <3>2. QED
      BY <1>1, <2>1, <2>5, <2>8, <3>1 DEF Sound
  <2>10. Chain(stack) /\ Follows(pc, stack[n])
    BY <1>1, <2>1 DEF IInv, Decoding
  <2>11. Chain(t)
    <3>1. SUFFICES ASSUME NEW i \in 2 .. n
                   PROVE  Follows(t[i].first, t[i - 1])
      BY <2>8 DEF Chain
    <3>2. t[i].first = stack[i].first /\ t[i - 1] = stack[i - 1]
      BY <2>1, <2>5, <2>8
    <3>3. QED
      BY <2>1, <2>10, <3>2 DEF Chain
  <2>12. Follows(pc + 1, t[n])
    <3>1. t[n].last = stack[n].last /\ stack[n].last \in Int
      BY <2>1, <2>5, <2>8
    <3>2. OnlyPops(stack[n].last + 1, pc - 1) /\ pc \in Nat
      BY <2>10, InProgram DEF Follows
    <3>3. OnlyPops(stack[n].last + 1, pc)
      BY <1>1, <3>1, <3>2 DEF OnlyPops
    <3>4. QED
      BY <3>1, <3>2, <3>3 DEF Follows
  <2>13. QED
    BY <1>1, <2>4, <2>7, <2>8, <2>9, <2>11, <2>12, ContinueKeeps
<1>4. QED
  BY <1>2, <1>3

(* A return that prints nothing ends the function.                           *)
LEMMA ReturnKeeps ==
    ASSUME IInv, DoReturn
    PROVE  IInv'
<1>1. Sound(stack) /\ phase = "code" /\ instructions[pc].bc # "EndOfFile"
  BY DEF IInv, DoReturn, At
<1>2. AtEndOfFunction /\ Continue => ~Decoding'
  BY DEF AtEndOfFunction, Continue, Decoding
<1>3. CASE Top(0).type # "Expr"
  <2>1. CASE AtEndOfFunction
    BY <1>1, <1>2, <1>3, <2>1, ContinueKeeps DEF DoReturn
  <2>2. CASE ~AtEndOfFunction
    BY <1>1, <1>3, <2>2, StopKeeps DEF DoReturn
  <2>3. QED
    BY <2>1, <2>2
<1>4. CASE Top(0).type = "Expr"
  <2>1. CASE AtEndOfFunction /\ AfterPushNil
    <3>1. stack' = SubSeq(stack, 1, Len(stack) - 1) /\ Continue
      BY <1>4, <2>1 DEF DoReturn, Popped
    <3>2. Len(stack) - 1 \in 1 .. Len(stack)
      BY <1>1, <1>4, StackHeight, ExpressionsAboveBottom DEF Sound
    <3>3. Sound(stack')
      BY <1>1, <3>1, <3>2, CutSound
    <3>4. QED
      BY <1>1, <1>2, <2>1, <3>1, <3>3, ContinueKeeps
  <2>2. CASE ~(AtEndOfFunction /\ AfterPushNil)
    BY <1>1, <1>4, <2>2, StatementKeeps DEF DoReturn
  <2>3. QED
    BY <2>1, <2>2
<1>5. QED
  BY <1>3, <1>4

(* A branch back closes a loop, whose node takes the place of the branch at  *)
(* its start, or stops the decompiler.                                       *)
LEMMA BranchIfTrueKeeps ==
    ASSUME IInv, DoBranchIfTrue
    PROVE  IInv'
<1>1. Sound(stack) /\ phase = "code" /\ instructions[pc].bc # "EndOfFile"
  BY DEF IInv, DoBranchIfTrue, At
<1>2. Len(stack) \in Nat /\ Len(stack) > 0
  BY <1>1, StackHeight DEF Sound
<1>3. CASE Arg > pc
  BY <1>1, <1>3, BranchNodeIsNode, PushKeeps DEF DoBranchIfTrue
<1>4. CASE ~(Arg > pc) /\ IsWhileDo
  <2> DEFINE m == WhileStart - 1
  <2>1. WhileStart \in 2 .. Len(stack) - 2
    BY <1>1, <1>4, WhileFound
  <2>2. stack[WhileStart].type = "BranchFwd"
    BY <1>4 DEF IsWhileDo
  <2>3. /\ m \in 1 .. Len(stack) /\ m # Len(stack) /\ m + 1 = WhileStart
        /\ stack[m + 1].first \in Int
    BY <1>1, <1>2, <2>1, <2>2 DEF Sound, IsNode
  <2>4. PICK text :
           /\ stack' = Append(SubSeq(stack, 1, WhileStart - 1),
                              Statement(stack[WhileStart].first, pc + 1, text))
           /\ Continue
    BY <1>4 DEF DoBranchIfTrue
  <2> DEFINE x == Node("Statement", stack[WhileStart].first, pc + 1, 0, text, 0)
  <2>5. IsNode(x) /\ x.type # "EndOfStack" /\ x.first = stack[m + 1].first /\ x.last = pc + 1
    <3>1. "Statement" \in NodeTypes /\ pc + 1 \in Int /\ stack[WhileStart].first \in Int
      BY <2>3, InProgram DEF NodeTypes
    <3>2. IsNode(x)
      BY <3>1, MadeNode
    <3>3. QED
      BY <2>3, <3>2 DEF Node
  <2>6. stack' = Joined(stack, m, x)
    BY <2>4 DEF Joined, Statement
  <2> HIDE DEF m, x
  <2>7. QED
    BY <1>1, <2>3, <2>4, <2>5, <2>6, NodeKeeps
<1>5. CASE ~(Arg > pc) /\ ~IsWhileDo
  <2> DEFINE x == BranchNode("BranchTrue")
  <2>1. stack' = Append(stack, x) /\ Stop(0)
    BY <1>5 DEF DoBranchIfTrue
  <2>2. IsNode(x) /\ x.type # "EndOfStack"
    BY BranchNodeIsNode
  <2> HIDE DEF x
  <2>3. Sound(stack')
    <3>1. /\ Len(stack) \in 1 .. Len(stack)
          /\ stack' = Joined(stack, Len(stack), x)
      BY <1>1, <2>1, PushJoins
    <3>2. QED
      BY <1>1, <2>2, <3>1, JoinSound
  <2>4. QED
    BY <2>1, <2>3, StopKeeps
<1>6. QED
  BY <1>3, <1>4, <1>5

-----------------------------------------------------------------------------
(* Control structures recognised at a label.                                 *)

(* What the node of "and" or "or" takes from the stack.                      *)
LEMMA LogicalKeeps ==
    ASSUME IInv, UNCHANGED <<instructions, pc, phase, result>>,
           NEW branch, NEW constant, Logical(branch, constant),
           NEW what, JoinLogical(what)
    PROVE  IInv'
<1> DEFINE m == Len(stack) - 5
<1>1. Sound(stack) /\ Len(stack) \in Nat /\ Len(stack) >= 6
  BY StackHeight DEF IInv, Sound, Logical
<1>2. /\ m \in 1 .. Len(stack) - 1 /\ Top(4) = stack[m + 1]
      /\ Top(4).first \in Int
  BY <1>1 DEF Top, Sound, IsNode
<1>3. PICK text : stack' = Append(Popped(5), Expr(Top(4).first, pc, 11, text))
  BY DEF JoinLogical
<1> DEFINE x == Node("Expr", Top(4).first, pc, 11, text, 0)
<1>4. IsNode(x) /\ x.type # "EndOfStack" /\ x.first = stack[m + 1].first /\ x.last = pc
  <2>1. "Expr" \in NodeTypes /\ pc \in Int
    BY InProgram DEF NodeTypes
  <2>2. IsNode(x)
    BY <1>2, <2>1, MadeNode
  <2>3. QED
    BY <1>2, <2>2 DEF Node
<1>5. stack' = Joined(stack, m, x)
  BY <1>3 DEF Joined, Popped, Expr
<1> HIDE DEF m, x
<1>6. QED
  BY <1>2, <1>4, <1>5, LabelKeeps

(* Joining if-then-else replaces everything from the condition up by one     *)
(* node that covers it.                                                      *)
LEMMA IfElseKeeps ==
    ASSUME IInv, UNCHANGED <<instructions, pc, phase, result>>,
           NEW type \in {"Expr", "Statement"}, HasIfElseShape(type), JoinIfElse(type)
    PROVE  IInv'
<1> DEFINE m == ThenBranch - 2
<1>1. Sound(stack) /\ Len(stack) \in Nat
  BY StackHeight DEF IInv, Sound
<1>2. ElseBranch \in 1 .. Len(stack) - 1 /\ stack[1].type = "EndOfStack"
  BY <1>1, IfElseFound DEF Sound
<1>3. ThenBranch \in 3 .. ElseBranch - 2
  BY <1>1, IfElseFound
<1>4. /\ m \in 1 .. Len(stack) - 1 /\ m + 1 = ThenBranch - 1
      /\ stack[ThenBranch - 1].first \in Int
  BY <1>1, <1>2, <1>3 DEF Sound, IsNode
<1>5. PICK text :
         stack' = Append(SubSeq(stack, 1, ThenBranch - 2),
                         Node(type, stack[ThenBranch - 1].first, Top(0).last, 0, text, 0))
  BY DEF JoinIfElse
<1> DEFINE x == Node(type, stack[ThenBranch - 1].first, Top(0).last, 0, text, 0)
<1>6. /\ IsNode(x) /\ x.type # "EndOfStack"
      /\ x.first = stack[m + 1].first /\ x.last = stack[Len(stack)].last
  <2>1. type \in NodeTypes /\ Top(0).last \in Int /\ Top(0) = stack[Len(stack)]
    BY <1>1, <1>2 DEF NodeTypes, Top, Sound, IsNode
  <2>2. IsNode(x)
    BY <1>4, <2>1, MadeNode
  <2>3. QED
    BY <1>4, <2>1, <2>2 DEF Node
<1>7. stack' = Joined(stack, m, x)
  BY <1>5 DEF Joined
<1> HIDE DEF m, x
<1>8. QED
  BY <1>4, <1>6, <1>7, LabelKeeps

(* Joining if-then does the same without an else.                            *)
LEMMA IfThenKeeps ==
    ASSUME IInv, UNCHANGED <<instructions, pc, phase, result>>, IsIfThen, JoinIfThen
    PROVE  IInv'
<1> DEFINE m == ElseBranch - 2
<1>1. Sound(stack) /\ Len(stack) \in Nat
  BY StackHeight DEF IInv, Sound
<1>2. ElseBranch \in 3 .. Len(stack) - 1 /\ stack[1].type = "EndOfStack"
  BY <1>1, IfThenFound DEF Sound
<1>3. /\ m \in 1 .. Len(stack) - 1 /\ m + 1 = ElseBranch - 1
      /\ stack[ElseBranch - 1].first \in Int
  BY <1>1, <1>2 DEF Sound, IsNode
<1>4. PICK text :
         stack' = Append(SubSeq(stack, 1, ElseBranch - 2),
                         Statement(stack[ElseBranch - 1].first, Top(0).last, text))
  BY DEF JoinIfThen
<1> DEFINE x == Node("Statement", stack[ElseBranch - 1].first, Top(0).last, 0, text, 0)
<1>5. /\ IsNode(x) /\ x.type # "EndOfStack"
      /\ x.first = stack[m + 1].first /\ x.last = stack[Len(stack)].last
  <2>1. "Statement" \in NodeTypes /\ Top(0).last \in Int /\ Top(0) = stack[Len(stack)]
    BY <1>1, <1>2 DEF NodeTypes, Top, Sound, IsNode
  <2>2. IsNode(x)
    BY <1>3, <2>1, MadeNode
  <2>3. QED
    BY <1>3, <2>1, <2>2 DEF Node
<1>6. stack' = Joined(stack, m, x)
  BY <1>4 DEF Joined, Statement
<1> HIDE DEF m, x
<1>7. QED
  BY <1>3, <1>5, <1>6, LabelKeeps

-----------------------------------------------------------------------------
(* What does not touch the stack and goes on with the same instruction.      *)
LEMMA StayKeeps ==
    ASSUME IInv, UNCHANGED <<instructions, stack, pc, result>>,
           phase' = phase \/ (phase # "end" /\ phase' \in {"code", "dead"})
    PROVE  IInv'
<1>1. Sound(stack)'
  BY DEF IInv, Sound, IsStack, NodesOf, IsNode, Node, NodeTypes
<1>2. Decoding' => Chain(stack)' /\ Follows(pc, stack[Len(stack)])'
  BY DEF IInv, Decoding, Chain, Follows, OnlyPops
<1>3. QED
  BY <1>1, <1>2 DEF IInv

(* The program is any, at its first instruction, with the bottom on the      *)
(* stack.                                                                    *)
LEMMA Initially ==
    ASSUME Init
    PROVE  IInv
<1>0. IsProgram(instructions)
  BY ProgramAssumption DEF Init
<1>1. 0 \in DOMAIN instructions
  BY <1>0 DEF IsProgram
<1>2. stack \in Seq({EndOfStack}) /\ Len(stack) = 1 /\ stack[1] = EndOfStack
  BY DEF Init, Start
<1>3. IsNode(EndOfStack)
  BY DEF IsNode, EndOfStack, Node, NodeTypes
<1>4. Sound(stack)
  BY <1>2, <1>3, StackOfItsNodes DEF Sound, EndOfStack, Node
<1>5. Chain(stack)
  BY <1>2 DEF Chain
<1>6. Follows(0, stack[1])
  BY <1>2 DEF Follows, OnlyPops, EndOfStack, Node
<1>7. QED
  BY <1>0, <1>1, <1>2, <1>4, <1>5, <1>6 DEF Init, Start, IInv

(* Every handler keeps the invariant.                                        *)
LEMMA Inductive ==
    ASSUME IInv, [Next]_vars
    PROVE  IInv'
<1>1. CASE CheckLogicAnd
  BY <1>1, LogicalKeeps DEF CheckLogicAnd, IsLogicAnd
<1>2. CASE CheckLogicOr
  BY <1>2, LogicalKeeps DEF CheckLogicOr, IsLogicOr
<1>3. CASE CheckIfThenElseExpr
  BY <1>3, IfElseKeeps DEF CheckIfThenElseExpr
<1>4. CASE CheckIfThenElse
  BY <1>4, IfElseKeeps DEF CheckIfThenElse
<1>5. CASE CheckIfThen
  BY <1>5, IfThenKeeps DEF CheckIfThen
<1>6. CASE LabelDone
  BY <1>6, StayKeeps DEF LabelDone, AtLabel
<1>7. CASE DoEOF \/ DoUnsupported
  <2>1. Sound(stack)
    BY DEF IInv
  <2>2. PICK code \in {-1, -2} : Stop(code) /\ UNCHANGED stack
    BY <1>7 DEF DoEOF, DoUnsupported
  <2>3. QED
    BY <2>1, <2>2, StopKeeps
<1>8. CASE DoPushDies \/ DoLeaf
  BY <1>8, LeafKeeps, StayKeeps DEF DoPushDies, IsNegativeLiteral, At
<1>9. CASE DoInfixOperator
  BY <1>9, InfixKeeps
<1>10. CASE DoCallOrInvoke \/ DoSend \/ DoResend
  <2>1. PICK heads \in {1, 2} : CallWith(heads)
    BY <1>10 DEF DoCallOrInvoke, DoSend, DoResend
  <2>2. phase = "code" /\ instructions[pc].bc # "EndOfFile"
    BY <1>10 DEF DoCallOrInvoke, DoSend, DoResend, At, Calls, Sends, Resends
  <2>3. QED
    BY <2>1, <2>2, CallsKeep
<1>11. CASE DoFindAndSetVar
  BY <1>11, FindAndSetVarKeeps
<1>12. CASE DoPop
  BY <1>12, PopKeeps
<1>13. CASE DoReturn
  BY <1>13, ReturnKeeps
<1>14. CASE DoBranch \/ DoBranchIfFalse
  BY <1>14, BranchesKeep
<1>15. CASE DoBranchIfTrue
  BY <1>15, BranchIfTrueKeeps
<1>16. CASE UNCHANGED vars
  BY <1>16, StayKeeps DEF vars
<1>17. QED
  BY <1>1, <1>2, <1>3, <1>4, <1>5, <1>6, <1>7, <1>8, <1>9, <1>10, <1>11, <1>12,
     <1>13, <1>14, <1>15, <1>16 DEF Next, DoLabel, Do

(* The invariant, for every program.                                         *)
LEMMA AlwaysIInv == Spec => []IInv
  BY Initially, Inductive, PTL DEF Spec

(* Every variable has its type, whatever program transcode_from_ns returns.  *)
THEOREM TypeCorrect == Spec => []TypeOK
<1>1. IInv => TypeOK
  BY StackHeight DEF IInv, TypeOK, Sound, IsNode
<1>2. QED
  BY <1>1, AlwaysIInv, PTL

(* No handler takes or buries the bottom of the stack: each of the searches  *)
(* down the stack ends, on every program.                                    *)
THEOREM BottomNeverTaken == Spec => []BottomStays
<1>1. IInv => BottomStays
  BY StackHeight DEF IInv, BottomStays, Sound
<1>2. QED
  BY <1>1, AlwaysIInv, PTL

(* Until the function ends, each node starts where the one below it stops,   *)
(* so that pc_first is what a branch to the node compares with.              *)
THEOREM NodesAreContiguous == Spec => []Contiguous
<1>1. IInv => Contiguous
  <2>1. ASSUME IInv
        PROVE  Top(0) = stack[Len(stack)]
    BY <2>1, StackHeight DEF IInv, Sound, Top
  <2>2. QED
    BY <2>1 DEF IInv, Contiguous, Chain
<1>2. QED
  BY <1>1, AlwaysIInv, PTL

-----------------------------------------------------------------------------
(* What the texts on the stack show.                                        *)

(* The instructions that have to show.                                      *)
Shown == {i \in DOMAIN instructions : instructions[i].bc \in Visible}

(* A text that does not show i, and one that shows it in one place.          *)
Lacks(text, i) == \A p \in text.shows : p.at # i

Carries(text, i) ==
    \E p \in text.shows : p.at = i /\ \A q \in text.shows : q.at = i => q = p

(* None of the nodes N of the stack s shows i; just one of them does.        *)
NoneOf(s, N, i) == \A k \in N : Lacks(s[k].text, i)

OneOf(s, N, i) ==
    \E k \in N : Carries(s[k].text, i) /\ \A l \in N \ {k} : Lacks(s[l].text, i)

(* A text that shows what the nodes N show together, each instruction once,  *)
(* and the instructions Own besides.                                         *)
Gathers(text, s, N, Own) ==
    \A i \in Shown :
        /\ i \notin Own /\ NoneOf(s, N, i) => Lacks(text, i)
        /\ i \notin Own /\ OneOf(s, N, i)  => Carries(text, i)
        /\ i \in Own /\ NoneOf(s, N, i)    => Carries(text, i)

Mute(x) == \A i \in Shown : Lacks(x.text, i)

(* What the joins leave out says nothing: branches that wait, which start at *)
(* no instruction that shows, and the constants nil and true.                *)
Silent(x) ==
    /\ x.type \notin {"EndOfStack", "Expr", "Statement"} => Mute(x) /\ x.first \notin Shown
    /\ x.info # 0 => Mute(x)

(* Of the instructions before n each shows once, of the others none.         *)
Whole(s, n) ==
    /\ \A i \in Shown : i < n => OneOf(s, 1 .. Len(s), i)
    /\ \A i \in Shown : i >= n => NoneOf(s, 1 .. Len(s), i)
    /\ \A k \in 1 .. Len(s) : Silent(s[k])

PInv == IInv /\ (Decoding => Whole(stack, pc))

(* The places of a text are its own and those of its parts.                  *)
OwnPlaces(what, at) == IF what \in {"block", "brackets"} THEN {} ELSE {at}

LEMMA TextLacks ==
    ASSUME NEW what, NEW at, NEW parts, NEW i, i \notin OwnPlaces(what, at),
           \A k \in DOMAIN parts : Lacks(parts[k], i)
    PROVE  Lacks(Text(what, at, parts), i)
  BY DEF Lacks, Text, Within, Place, OwnPlaces

LEMMA TextCarriesPart ==
    ASSUME NEW what, NEW at, NEW parts, NEW i, i \notin OwnPlaces(what, at),
           NEW k \in DOMAIN parts, Carries(parts[k], i),
           \A j \in DOMAIN parts \ {k} : Lacks(parts[j], i)
    PROVE  Carries(Text(what, at, parts), i)
<1> DEFINE t == Text(what, at, parts)
<1>1. PICK p \in parts[k].shows : p.at = i /\ \A q \in parts[k].shows : q.at = i => q = p
  BY DEF Carries
<1>2. PICK o : o = Place(p.at, <<k, p.way>>)
  OBVIOUS
<1>3. o \in t.shows /\ o.at = i
  <2>1. o \in Within(k, parts[k])
    BY <1>1, <1>2 DEF Within
  <2>2. o \in UNION {Within(j, parts[j]) : j \in DOMAIN parts}
    BY <2>1
  <2>3. o \in t.shows
    BY <2>2 DEF Text
  <2>4. QED
    BY <1>1, <1>2, <2>3 DEF Place
<1>4. ASSUME NEW q \in t.shows, q.at = i
      PROVE  q = o
  <2>1. PICK j \in DOMAIN parts : q \in Within(j, parts[j])
    BY <1>4 DEF Text, OwnPlaces, Place
  <2>2. PICK r \in parts[j].shows : q = Place(r.at, <<j, r.way>>)
    BY <2>1 DEF Within
  <2>3. r.at = i
    BY <1>4, <2>2 DEF Place
  <2>4. j = k
    BY <2>3 DEF Lacks
  <2>5. QED
    BY <1>1, <1>2, <2>2, <2>3, <2>4
<1>5. QED
  BY <1>3, <1>4 DEF Carries

LEMMA TextCarriesOwn ==
    ASSUME NEW what, NEW at, NEW parts, at \in OwnPlaces(what, at),
           \A k \in DOMAIN parts : Lacks(parts[k], at)
    PROVE  Carries(Text(what, at, parts), at)
<1> DEFINE t == Text(what, at, parts)
<1>1. Place(at, << >>) \in t.shows /\ Place(at, << >>).at = at
  BY DEF Text, OwnPlaces, Place
<1>2. ASSUME NEW q \in t.shows, q.at = at
      PROVE  q = Place(at, << >>)
  BY <1>2 DEF Text, Within, Place, Lacks, OwnPlaces
<1>3. QED
  BY <1>1, <1>2 DEF Carries

(* A text made of parts that gather sets of nodes with nothing in common     *)
(* gathers all the nodes M, when those it leaves out are mute.               *)
LEMMA TextGathers ==
    ASSUME NEW what, NEW at, NEW parts, NEW N, NEW M, NEW s,
           \A j \in DOMAIN parts : Gathers(parts[j], s, N[j], {}) /\ N[j] \subseteq M,
           \A j \in DOMAIN parts : \A k \in DOMAIN parts \ {j} : N[j] \cap N[k] = {},
           \A l \in M : Mute(s[l]) \/ \E j \in DOMAIN parts : l \in N[j]
    PROVE  Gathers(Text(what, at, parts), s, M, OwnPlaces(what, at))
<1> DEFINE t == Text(what, at, parts)
<1>1. ASSUME NEW i \in Shown, NoneOf(s, M, i)
      PROVE  \A j \in DOMAIN parts : Lacks(parts[j], i)
  <2>1. TAKE j \in DOMAIN parts
  <2>2. NoneOf(s, N[j], i)
    BY <1>1 DEF NoneOf
  <2>3. QED
    BY <2>2 DEF Gathers
<1>2. ASSUME NEW i \in Shown, i \notin OwnPlaces(what, at), OneOf(s, M, i)
      PROVE  Carries(t, i)
  <2>1. PICK k \in M : Carries(s[k].text, i) /\ \A l \in M \ {k} : Lacks(s[l].text, i)
    BY <1>2 DEF OneOf
  <2>2. ~Lacks(s[k].text, i)
    BY <2>1 DEF Carries, Lacks
  <2>3. PICK j \in DOMAIN parts : k \in N[j]
    BY <2>2 DEF Mute
  <2>4. OneOf(s, N[j], i)
    BY <2>1, <2>3 DEF OneOf
  <2>5. Carries(parts[j], i)
    BY <2>4 DEF Gathers
  <2>6. \A h \in DOMAIN parts \ {j} : Lacks(parts[h], i)
    <3>1. TAKE h \in DOMAIN parts \ {j}
    <3>2. k \notin N[h]
      BY <2>3
    <3>3. NoneOf(s, N[h], i)
      BY <2>1, <3>2 DEF NoneOf
    <3>4. QED
      BY <3>3 DEF Gathers
  <2>7. QED
    BY <1>2, <2>5, <2>6, TextCarriesPart
<1>3. ASSUME NEW i \in Shown, i \in OwnPlaces(what, at), NoneOf(s, M, i)
      PROVE  Carries(t, i)
  <2>1. i = at /\ at \in OwnPlaces(what, at)
    BY <1>3 DEF OwnPlaces
  <2>2. \A j \in DOMAIN parts : Lacks(parts[j], at)
    BY <1>1, <1>3, <2>1
  <2>3. QED
    BY <2>1, <2>2, TextCarriesOwn
<1>4. ASSUME NEW i \in Shown, i \notin OwnPlaces(what, at), NoneOf(s, M, i)
      PROVE  Lacks(t, i)
  BY <1>1, <1>4, TextLacks
<1>5. ASSUME NEW i \in Shown
      PROVE  /\ i \notin OwnPlaces(what, at) /\ NoneOf(s, M, i) => Lacks(t, i)
             /\ i \notin OwnPlaces(what, at) /\ OneOf(s, M, i)  => Carries(t, i)
             /\ i \in OwnPlaces(what, at) /\ NoneOf(s, M, i)    => Carries(t, i)
  <2> HIDE DEF t
  <2>1. QED
    BY <1>2, <1>3, <1>4
<1>6. QED
  <2> HIDE DEF t
  <2>1. Gathers(t, s, M, OwnPlaces(what, at))
    BY <1>5 DEF Gathers
  <2>2. QED
    BY <2>1 DEF t

(* The text of a node gathers that node, in brackets or not.                 *)
LEMMA NodeGathers ==
    ASSUME NEW s, NEW k
    PROVE  Gathers(s[k].text, s, {k}, {})
  BY DEF Gathers, NoneOf, OneOf

LEMMA BracketedGathers ==
    ASSUME NEW s, NEW k, NEW precedence
    PROVE  Gathers(Bracketed(precedence, s[k]), s, {k}, {})
<1>1. CASE ~(precedence < s[k].arg)
  BY <1>1, NodeGathers DEF Bracketed
<1>2. CASE precedence < s[k].arg
  <2>1. PICK parts : parts = <<s[k].text>>
    OBVIOUS
  <2>2. PICK N : N = <<{k}>>
    OBVIOUS
  <2>3. DOMAIN parts = {1} /\ parts[1] = s[k].text /\ N[1] = {k}
    BY <2>1, <2>2
  <2>4. \A j \in DOMAIN parts : Gathers(parts[j], s, N[j], {}) /\ N[j] \subseteq {k}
    <3>1. Gathers(s[k].text, s, {k}, {})
      BY NodeGathers
    <3>2. QED
      BY <2>3, <3>1
  <2>5. Gathers(Text("brackets", s[k].first, parts), s, {k}, OwnPlaces("brackets", s[k].first))
    <3>1. \A j \in DOMAIN parts : \A h \in DOMAIN parts \ {j} : N[j] \cap N[h] = {}
      BY <2>3
    <3>2. \A l \in {k} : Mute(s[l]) \/ \E j \in DOMAIN parts : l \in N[j]
      BY <2>3
    <3>3. QED
      BY <2>4, <3>1, <3>2, TextGathers
  <2>6. QED
    BY <1>2, <2>1, <2>5 DEF Bracketed, OwnPlaces
<1>3. QED
  BY <1>1, <1>2

(* A block gathers the nodes it is made of.                                  *)
LEMMA BlockGathers ==
    ASSUME NEW s, IsStack(s), NEW a \in 1 .. Len(s), NEW b \in a .. Len(s)
    PROVE  Gathers(Block(SubSeq(s, a, b)), s, a .. b, {})
<1>1. PICK nodes : nodes = SubSeq(s, a, b)
  OBVIOUS
<1>2. /\ DOMAIN nodes = 1 .. b - a + 1
      /\ \A j \in 1 .. b - a + 1 : nodes[j] = s[a + j - 1]
      /\ a \in Nat /\ b \in Nat
  <2>1. PICK S : s \in Seq(S)
    BY DEF IsStack
  <2>2. QED
    BY <1>1, <2>1, StackHeight
<1>3. PICK parts : parts = [j \in DOMAIN nodes |-> nodes[j].text]
  OBVIOUS
<1>4. PICK N : N = [j \in DOMAIN nodes |-> {a + j - 1}]
  OBVIOUS
<1>5. ASSUME NEW j \in DOMAIN parts
      PROVE  parts[j] = s[a + j - 1].text /\ N[j] = {a + j - 1} /\ j \in 1 .. b - a + 1
  BY <1>2, <1>3, <1>4
<1>6. \A j \in DOMAIN parts : Gathers(parts[j], s, N[j], {}) /\ N[j] \subseteq a .. b
  <2>1. TAKE j \in DOMAIN parts
  <2>2. Gathers(s[a + j - 1].text, s, {a + j - 1}, {})
    BY NodeGathers
  <2>3. a + j - 1 \in a .. b
    BY <1>2, <1>5
  <2>4. QED
    BY <1>5, <2>2, <2>3
<1>7. \A j \in DOMAIN parts : \A h \in DOMAIN parts \ {j} : N[j] \cap N[h] = {}
  BY <1>2, <1>5
<1>8. \A l \in a .. b : Mute(s[l]) \/ \E j \in DOMAIN parts : l \in N[j]
  <2>1. TAKE l \in a .. b
  <2>2. l - a + 1 \in DOMAIN parts /\ a + (l - a + 1) - 1 = l
    BY <1>2, <1>3
  <2>3. QED
    BY <1>5, <2>2
<1>9. Gathers(Text("block", nodes[1].first, parts), s, a .. b, OwnPlaces("block", nodes[1].first))
  BY <1>6, <1>7, <1>8, TextGathers
<1>10. QED
  BY <1>1, <1>3, <1>9 DEF Block, OwnPlaces

(* Texts of two parts and of three.                                          *)
LEMMA PairGathers ==
    ASSUME NEW what, NEW at, NEW t, NEW u, NEW s, NEW A, NEW B, NEW M,
           Gathers(t, s, A, {}), Gathers(u, s, B, {}),
           A \cap B = {}, A \cup B \subseteq M,
           \A l \in M \ (A \cup B) : Mute(s[l])
    PROVE  Gathers(Text(what, at, <<t, u>>), s, M, OwnPlaces(what, at))
<1>1. PICK parts : parts = <<t, u>>
  OBVIOUS
<1>2. PICK N : N = <<A, B>>
  OBVIOUS
<1>3. DOMAIN parts = {1, 2} /\ parts[1] = t /\ parts[2] = u /\ N[1] = A /\ N[2] = B
  BY <1>1, <1>2
<1>4. \A j \in DOMAIN parts : Gathers(parts[j], s, N[j], {}) /\ N[j] \subseteq M
  BY <1>3
<1>5. \A j \in DOMAIN parts : \A h \in DOMAIN parts \ {j} : N[j] \cap N[h] = {}
  BY <1>3
<1>6. \A l \in M : Mute(s[l]) \/ \E j \in DOMAIN parts : l \in N[j]
  BY <1>3
<1>7. QED
  BY <1>1, <1>4, <1>5, <1>6, TextGathers

LEMMA TripleGathers ==
    ASSUME NEW what, NEW at, NEW t, NEW u, NEW v, NEW s, NEW A, NEW B, NEW C, NEW M,
           Gathers(t, s, A, {}), Gathers(u, s, B, {}), Gathers(v, s, C, {}),
           A \cap B = {}, A \cap C = {}, B \cap C = {}, A \cup B \cup C \subseteq M,
           \A l \in M \ (A \cup B \cup C) : Mute(s[l])
    PROVE  Gathers(Text(what, at, <<t, u, v>>), s, M, OwnPlaces(what, at))
<1>1. PICK parts : parts = <<t, u, v>>
  OBVIOUS
<1>2. PICK N : N = <<A, B, C>>
  OBVIOUS
<1>3. /\ DOMAIN parts = {1, 2, 3}
      /\ parts[1] = t /\ parts[2] = u /\ parts[3] = v
      /\ N[1] = A /\ N[2] = B /\ N[3] = C
  BY <1>1, <1>2
<1>4. \A j \in DOMAIN parts : Gathers(parts[j], s, N[j], {}) /\ N[j] \subseteq M
  BY <1>3
<1>5. \A j \in DOMAIN parts : \A h \in DOMAIN parts \ {j} : N[j] \cap N[h] = {}
  BY <1>3
<1>6. \A l \in M : Mute(s[l]) \/ \E j \in DOMAIN parts : l \in N[j]
  BY <1>3
<1>7. QED
  BY <1>1, <1>4, <1>5, <1>6, TextGathers

(* When what stands for the top of the stack gathers it, and the instruction *)
(* the walk goes past, what shows on the stack is whole again.               *)
LEMMA JoinWhole ==
    ASSUME Sound(stack), NEW n \in Nat, Whole(stack, n), Shown \subseteq Nat,
           NEW m \in 1 .. Len(stack),
           NEW x, Silent(x),
           NEW next \in {n, n + 1},
           Gathers(x.text, stack, m + 1 .. Len(stack), n .. next - 1),
           NEW t, t = Joined(stack, m, x)
    PROVE  Whole(t, next)
<1>1. /\ Len(t) = m + 1
      /\ \A i \in 1 .. m : t[i] = stack[i]
      /\ t[m + 1] = x
  <2>1. IsStack(stack) /\ m \in 0 .. Len(stack)
    BY StackHeight DEF Sound
  <2>2. QED
    BY <2>1, Replaced
<1>2. Len(stack) \in Nat /\ m \in Nat /\ m > 0 /\ m <= Len(stack)
  BY StackHeight DEF Sound
<1>3. \A k \in 1 .. m + 1 : k \in 1 .. m \/ k = m + 1
  BY <1>2
<1>4. \A k \in 1 .. Len(t) : Silent(t[k])
  BY <1>1, <1>2, <1>3 DEF Whole
<1>5. ASSUME NEW i \in Shown, i < n
      PROVE  OneOf(t, 1 .. Len(t), i)
  <2>1. PICK k \in 1 .. Len(stack) :
           /\ Carries(stack[k].text, i)
           /\ \A l \in (1 .. Len(stack)) \ {k} : Lacks(stack[l].text, i)
    BY <1>5 DEF Whole, OneOf
  <2>2. i \notin n .. next - 1
    BY <1>5
  <2>3. CASE k \in 1 .. m
    <3>1. NoneOf(stack, m + 1 .. Len(stack), i)
      BY <1>2, <2>1, <2>3 DEF NoneOf
    <3>2. Lacks(x.text, i)
      BY <2>2, <3>1 DEF Gathers
    <3>3. Carries(t[k].text, i) /\ k \in 1 .. Len(t)
      BY <1>1, <1>2, <2>1, <2>3
    <3>4. \A l \in (1 .. Len(t)) \ {k} : Lacks(t[l].text, i)
      BY <1>1, <1>2, <1>3, <2>1, <3>2
    <3>5. QED
      BY <3>3, <3>4 DEF OneOf
  <2>4. CASE k \in m + 1 .. Len(stack)
    <3>1. OneOf(stack, m + 1 .. Len(stack), i)
      BY <1>2, <2>1, <2>4 DEF OneOf
    <3>2. Carries(t[m + 1].text, i)
      BY <1>1, <2>2, <3>1 DEF Gathers
    <3>3. \A l \in (1 .. Len(t)) \ {m + 1} : Lacks(t[l].text, i)
      BY <1>1, <1>2, <1>3, <2>1, <2>4
    <3>4. m + 1 \in 1 .. Len(t)
      BY <1>1, <1>2
    <3>5. QED
      BY <3>2, <3>3, <3>4 DEF OneOf
  <2>5. QED
    BY <1>2, <2>3, <2>4
<1>6. ASSUME NEW i \in Shown, i >= n
      PROVE  /\ NoneOf(stack, m + 1 .. Len(stack), i)
             /\ \A l \in 1 .. m : Lacks(t[l].text, i)
  BY <1>1, <1>2, <1>6 DEF Whole, NoneOf
<1>7. ASSUME NEW i \in Shown, i >= n, i < next
      PROVE  OneOf(t, 1 .. Len(t), i)
  <2>1. i \in n .. next - 1
    BY <1>7
  <2>2. Carries(t[m + 1].text, i)
    BY <1>1, <1>6, <1>7, <2>1 DEF Gathers
  <2>3. \A l \in (1 .. Len(t)) \ {m + 1} : Lacks(t[l].text, i)
    BY <1>1, <1>3, <1>6, <1>7
  <2>4. m + 1 \in 1 .. Len(t)
    BY <1>1, <1>2
  <2>5. QED
    BY <2>2, <2>3, <2>4 DEF OneOf
<1>8. ASSUME NEW i \in Shown, i >= next
      PROVE  NoneOf(t, 1 .. Len(t), i)
  <2>1. i >= n /\ i \notin n .. next - 1
    BY <1>8
  <2>2. Lacks(t[m + 1].text, i)
    BY <1>1, <1>6, <2>1 DEF Gathers
  <2>3. QED
    BY <1>1, <1>3, <1>6, <2>1, <2>2 DEF NoneOf
<1>9. ASSUME NEW i \in Shown, i < next
      PROVE  i < n \/ i >= n
  BY <1>9
<1>10. QED
  BY <1>4, <1>5, <1>7, <1>8, <1>9 DEF Whole

-----------------------------------------------------------------------------
(* What each handler does to what shows.                                    *)

(* Shown instructions are where instructions are.                            *)
LEMMA ShownAreNumbers ==
    ASSUME IInv
    PROVE  Shown \subseteq Nat
  BY DEF IInv, IsProgram, Shown

LEMMA OwnIsNow ==
    ASSUME NEW text, NEW s, NEW M, NEW what, what \notin {"block", "brackets"},
           IInv, Gathers(text, s, M, OwnPlaces(what, pc))
    PROVE  Gathers(text, s, M, pc .. pc)
<1>1. OwnPlaces(what, pc) = pc .. pc
  BY InProgram DEF OwnPlaces
<1>2. QED
  BY <1>1

(* An instruction that does not show, and that a text is nevertheless about. *)
LEMMA OwnIsMute ==
    ASSUME NEW text, NEW s, NEW M, NEW Own, NEW Other,
           Own \cap Shown = {}, Other \cap Shown = {}, Gathers(text, s, M, Own)
    PROVE  Gathers(text, s, M, Other)
  BY DEF Gathers

(* A handler that replaces the top of the stack by one node and goes on.     *)
LEMMA NodePrints ==
    ASSUME PInv, phase = "code", instructions[pc].bc # "EndOfFile", Continue,
           NEW m \in 1 .. Len(stack),
           NEW x, Silent(x),
           Gathers(x.text, stack, m + 1 .. Len(stack), pc .. pc),
           stack' = Joined(stack, m, x)
    PROVE  Whole(stack, pc)'
<1>1. Sound(stack) /\ Whole(stack, pc)
  BY DEF PInv, IInv, Decoding
<1>2. pc \in Nat /\ pc + 1 \in {pc, pc + 1} /\ pc + 1 - 1 = pc
  BY InProgram DEF PInv
<1>3. Shown \subseteq Nat
  BY ShownAreNumbers DEF PInv
<1>4. Whole(stack', pc + 1)
  <2>1. PICK t : t = stack'
    OBVIOUS
  <2>2. PICK n : n = pc + 1
    OBVIOUS
  <2>3. Gathers(x.text, stack, m + 1 .. Len(stack), pc .. n - 1)
    BY <1>2, <2>2
  <2>4. Whole(t, n)
    BY <1>1, <1>2, <1>3, <2>1, <2>2, <2>3, JoinWhole
  <2>5. QED
    BY <2>1, <2>2, <2>4
<1>5. pc' = pc + 1 /\ instructions' = instructions
  BY DEF Continue
<1>6. QED
  BY <1>4, <1>5 DEF Whole, OneOf, NoneOf, Carries, Lacks, Silent, Mute, Shown

(* A control structure recognised at a label.                                *)
LEMMA LabelPrints ==
    ASSUME PInv, UNCHANGED <<instructions, pc, phase, result>>, Decoding,
           NEW m \in 1 .. Len(stack),
           NEW x, Silent(x),
           Gathers(x.text, stack, m + 1 .. Len(stack), {}),
           stack' = Joined(stack, m, x)
    PROVE  Whole(stack, pc)'
<1>1. Sound(stack) /\ Whole(stack, pc)
  BY DEF PInv, IInv
<1>2. pc \in Nat /\ pc .. pc - 1 = {}
  BY InProgram DEF PInv
<1>3. Shown \subseteq Nat
  BY ShownAreNumbers DEF PInv
<1>4. Whole(stack', pc)
  <2>1. PICK t : t = stack'
    OBVIOUS
  <2>2. PICK n : n = pc
    OBVIOUS
  <2>3. Gathers(x.text, stack, m + 1 .. Len(stack), n .. n - 1)
    BY <1>2, <2>2
  <2>4. Whole(t, n)
    BY <1>1, <1>2, <1>3, <2>1, <2>2, <2>3, JoinWhole
  <2>5. QED
    BY <2>1, <2>2, <2>4
<1>5. QED
  BY <1>4 DEF Whole, OneOf, NoneOf, Carries, Lacks, Silent, Mute, Shown

(* An expression or a statement may say anything; a text without parts shows *)
(* its instruction only.                                                     *)
LEMMA PlainNodeSilent ==
    ASSUME NEW type \in {"Expr", "Statement"}, NEW first, NEW last, NEW arg, NEW text
    PROVE  Silent(Node(type, first, last, arg, text, 0))
  BY DEF Silent, Node

LEMMA BareText ==
    ASSUME NEW what, NEW at, NEW s, NEW M, M = {}
    PROVE  /\ Gathers(Text(what, at, << >>), s, M, OwnPlaces(what, at))
           /\ at \notin Shown => \A i \in Shown : Lacks(Text(what, at, << >>), i)
<1>1. PICK parts : parts = << >>
  OBVIOUS
<1>2. DOMAIN parts = {}
  BY <1>1
<1>3. PICK N : N = << >>
  OBVIOUS
<1>4. Gathers(Text(what, at, parts), s, M, OwnPlaces(what, at))
  BY <1>2, TextGathers
<1>5. ASSUME at \notin Shown, NEW i \in Shown
      PROVE  Lacks(Text(what, at, parts), i)
  <2>1. i \notin OwnPlaces(what, at)
    BY <1>5 DEF OwnPlaces
  <2>2. QED
    BY <1>2, <2>1, TextLacks
<1>6. QED
  BY <1>1, <1>4, <1>5

(* What is pushed and stands for the current instruction alone.              *)
LEMMA PushPrints ==
    ASSUME PInv, phase = "code", instructions[pc].bc # "EndOfFile",
           NEW x, NEW what, what \notin {"block", "brackets"},
           x.text = Text(what, pc, << >>), Silent(x), Push(x)
    PROVE  Whole(stack, pc)'
<1>1. Sound(stack) /\ IInv
  BY DEF PInv, IInv
<1>2. PICK m : m = Len(stack)
  OBVIOUS
<1>3. m \in 1 .. Len(stack) /\ m + 1 .. Len(stack) = {}
  BY <1>1, <1>2, PushJoins, StackHeight DEF Sound
<1>4. Continue /\ stack' = Joined(stack, m, x)
  BY <1>1, <1>2, PushJoins DEF Push
<1>5. Gathers(x.text, stack, m + 1 .. Len(stack), pc .. pc)
  BY <1>1, <1>3, BareText, OwnIsNow
<1>6. QED
  BY <1>3, <1>4, <1>5, NodePrints

(* A leaf shows, unless it is a constant.                                    *)
LEMMA LeafPrints ==
    ASSUME PInv, DoLeaf
    PROVE  Whole(stack, pc)'
<1>1. /\ phase = "code" /\ instructions[pc].bc \in Leaves
      /\ instructions[pc].bc # "EndOfFile"
      /\ instructions[pc].bc \notin {"block", "brackets"}
  BY DEF DoLeaf, At, Leaves
<1>2. PICK info :
         /\ Push(Node("Expr", pc, pc, 0, Text(instructions[pc].bc, pc, << >>), info))
         /\ info # 0 => instructions[pc].bc = "PushConst"
  BY DEF DoLeaf
<1>3. PICK x : x = Node("Expr", pc, pc, 0, Text(instructions[pc].bc, pc, << >>), info)
  OBVIOUS
<1>4. x.text = Text(instructions[pc].bc, pc, << >>) /\ x.type = "Expr" /\ x.info = info
  BY <1>3 DEF Node
<1>5. ASSUME info # 0
      PROVE  Mute(x)
  <2>1. pc \notin Shown
    BY <1>2, <1>5 DEF Shown, Visible, Infix, Precedence, Calls, Sends, Resends
  <2>2. QED
    BY <1>4, <2>1, BareText DEF Mute
<1>6. Silent(x)
  BY <1>4, <1>5 DEF Silent
<1>7. QED
  BY <1>1, <1>2, <1>3, <1>4, <1>6, PushPrints

(* A branch that waits does not.                                             *)
LEMMA BranchNodePrints ==
    ASSUME PInv, phase = "code", instructions[pc].bc \in Branches,
           NEW name \in {"Branch", "BranchTrue", "BranchFalse"}, Push(BranchNode(name))
    PROVE  Whole(stack, pc)'
<1>1. PICK x : x = BranchNode(name)
  OBVIOUS
<1>2. x.text = Text(name, pc, << >>) /\ x.first = pc /\ x.info = 0
  BY <1>1 DEF BranchNode, Node
<1>3. pc \notin Shown
  BY DEF Shown, Branches, Visible, Infix, Precedence, Calls, Sends, Resends
<1>4. Mute(x)
  BY <1>2, <1>3, BareText DEF Mute
<1>5. Silent(x)
  BY <1>2, <1>3, <1>4 DEF Silent
<1>6. instructions[pc].bc # "EndOfFile" /\ name \notin {"block", "brackets"}
  BY DEF Branches
<1>7. QED
  BY <1>1, <1>2, <1>5, <1>6, PushPrints

(* An infix operator shows both operands.                                    *)
LEMMA InfixPrints ==
    ASSUME PInv, DoInfixOperator, Continue
    PROVE  Whole(stack, pc)'
<1>1. /\ IInv /\ Sound(stack) /\ phase = "code" /\ instructions[pc].bc \in Infix
      /\ instructions[pc].bc # "EndOfFile"
      /\ instructions[pc].bc \notin {"block", "brackets"}
  BY DEF PInv, IInv, DoInfixOperator, At, Infix, Precedence
<1>2. Top(0).type = "Expr" /\ Top(1).type = "Expr"
  BY DEF DoInfixOperator, Continue, Stop
<1>3. Len(stack) \in Nat /\ 2 < Len(stack)
  BY <1>1, <1>2, OperandsFound
<1>4. PICK m : m = Len(stack) - 2
  OBVIOUS
<1>5. PICK level : level = Precedence[instructions[pc].bc]
  OBVIOUS
<1>6. PICK text : text = Text(instructions[pc].bc, pc,
                              <<Bracketed(level, stack[m + 1]), Bracketed(level, stack[m + 2])>>)
  OBVIOUS
<1>7. PICK x : x = Node("Expr", Top(1).first, pc, level, text, 0)
  OBVIOUS
<1>8. stack' = Joined(stack, m, x)
  BY <1>2, <1>3, <1>4, <1>5, <1>6, <1>7 DEF DoInfixOperator, Joined, Popped, Expr, Top
<1>9. Gathers(text, stack, m + 1 .. Len(stack), OwnPlaces(instructions[pc].bc, pc))
  <2>1. /\ {m + 1} \cap {m + 2} = {}
        /\ {m + 1} \cup {m + 2} = m + 1 .. Len(stack)
    BY <1>3, <1>4
  <2>2. /\ Gathers(Bracketed(level, stack[m + 1]), stack, {m + 1}, {})
        /\ Gathers(Bracketed(level, stack[m + 2]), stack, {m + 2}, {})
    BY BracketedGathers
  <2>3. QED
    BY <1>6, <2>1, <2>2, PairGathers
<1>10. x.text = text
  BY <1>7 DEF Node
<1>11. Gathers(x.text, stack, m + 1 .. Len(stack), pc .. pc)
  BY <1>1, <1>9, <1>10, OwnIsNow
<1>12. Silent(x)
  BY <1>7, PlainNodeSilent
<1>13. QED
  <2>1. m \in 1 .. Len(stack)
    BY <1>3, <1>4
  <2>2. QED
    BY <1>1, <1>8, <1>11, <1>12, <2>1, NodePrints

(* A call shows what it calls and its arguments, each in its place.          *)
LEMMA CallPrints ==
    ASSUME PInv, phase = "code", instructions[pc].bc \in Calls \cup Sends \cup Resends,
           NEW heads \in {1, 2}, CallWith(heads), Continue
    PROVE  Whole(stack, pc)'
<1> DEFINE args == IF Arg > 0 THEN ArgsFrom(heads, Arg) ELSE 0
           Part(n, i) == IF i <= heads THEN i - 1 ELSE 2 * heads + n - i
<1>1. /\ IInv /\ Sound(stack) /\ Arg \in Int
      /\ instructions[pc].bc # "EndOfFile"
      /\ instructions[pc].bc \notin {"block", "brackets"}
  BY InProgram DEF PInv, IInv, Arg, Calls, Sends, Resends
<1>2. /\ ~(\E i \in 0 .. heads - 1 : Top(i).type # "Expr")
      /\ args = Arg /\ Arg > 0
  BY DEF CallWith, Continue, Stop
<1>3. Len(stack) \in Nat /\ heads < Len(stack)
  BY <1>1, <1>2, HeadsFound
<1>4. PICK n : n = Arg
  OBVIOUS
<1>5. n \in Nat /\ n > 0 /\ heads + n < Len(stack)
  <2>1. Arg \in Nat /\ heads \in Nat
    BY <1>1, <1>2
  <2>2. ArgsFrom(heads, Arg) + heads < Len(stack)
    BY <1>1, <1>3, <2>1, ArgsFound
  <2>3. QED
    BY <1>2, <1>4, <2>1, <2>2
<1>6. PICK m : m = Len(stack) - (heads + n)
  OBVIOUS
<1>7. m \in 1 .. Len(stack)
  BY <1>3, <1>5, <1>6
<1>8. PICK parts : parts = [i \in 1 .. heads + n |-> Top(Part(n, i)).text]
  OBVIOUS
<1>9. PICK text : text = Text(instructions[pc].bc, pc, parts)
  OBVIOUS
<1>10. PICK x : x = Node("Expr", ArgListStart(heads, n), pc, 0, text, 0)
  OBVIOUS
<1>11. stack' = Joined(stack, m, x)
  <2>1. \A i \in 1 .. heads + n : [j \in 1 .. heads + n |-> Part(n, j)][i] = Part(n, i)
    OBVIOUS
  <2>2. stack' = Append(Popped(heads + n), Expr(ArgListStart(heads, n), pc, 0, text))
    <3>1. text =
             Text(instructions[pc].bc, pc,
                  [i \in 1 .. heads + n |->
                      Top([j \in 1 .. heads + n |->
                              IF j <= heads THEN j - 1 ELSE 2 * heads + n - j][i]).text])
      BY <1>8, <1>9, <2>1
    <3>2. QED
      BY <1>2, <1>4, <3>1 DEF CallWith
  <2>3. QED
    BY <1>6, <1>10, <2>2 DEF Joined, Popped, Expr
<1>12. PICK N : N = [i \in 1 .. heads + n |-> {Len(stack) - Part(n, i)}]
  OBVIOUS
<1>13. ASSUME NEW i \in DOMAIN parts
       PROVE  /\ i \in 1 .. heads + n
              /\ N[i] = {Len(stack) - Part(n, i)}
              /\ Part(n, i) \in 0 .. heads + n - 1
              /\ parts[i] = stack[Len(stack) - Part(n, i)].text
  BY <1>5, <1>8, <1>12, SMTT(30) DEF Top
<1>14. \A i \in DOMAIN parts :
          Gathers(parts[i], stack, N[i], {}) /\ N[i] \subseteq m + 1 .. Len(stack)
  <2>1. TAKE i \in DOMAIN parts
  <2>2. PICK k : k = Len(stack) - Part(n, i)
    OBVIOUS
  <2>3. N[i] = {k} /\ parts[i] = stack[k].text /\ k \in m + 1 .. Len(stack)
    BY <1>3, <1>5, <1>6, <1>13, <2>2
  <2>4. Gathers(stack[k].text, stack, {k}, {})
    BY NodeGathers
  <2>5. QED
    BY <2>3, <2>4
<1>15. \A i \in DOMAIN parts : \A j \in DOMAIN parts \ {i} : N[i] \cap N[j] = {}
  <2>1. ASSUME NEW i \in DOMAIN parts, NEW j \in DOMAIN parts, Part(n, i) = Part(n, j)
        PROVE  i = j
    <3>1. i \in 1 .. heads + n /\ j \in 1 .. heads + n
      BY <1>13
    <3>2. QED
      BY <1>5, <2>1, <3>1
  <2> HIDE DEF Part
  <2>2. ASSUME NEW i \in DOMAIN parts, NEW j \in DOMAIN parts, i # j
        PROVE  N[i] \cap N[j] = {}
    <3>1. PICK a : a = Part(n, i)
      OBVIOUS
    <3>2. PICK b : b = Part(n, j)
      OBVIOUS
    <3>3. a # b /\ a \in Int /\ b \in Int
      BY <1>5, <1>13, <2>1, <2>2, <3>1, <3>2
    <3>4. N[i] = {Len(stack) - a} /\ N[j] = {Len(stack) - b}
      BY <1>13, <3>1, <3>2
    <3>5. QED
      BY <1>3, <3>3, <3>4
  <2>3. QED
    BY <2>2
<1>16. \A l \in m + 1 .. Len(stack) : Mute(stack[l]) \/ \E i \in DOMAIN parts : l \in N[i]
  <2>1. TAKE l \in m + 1 .. Len(stack)
  <2>2. PICK d : d = Len(stack) - l
    OBVIOUS
  <2>3. d \in 0 .. heads + n - 1 /\ l = Len(stack) - d
    BY <1>3, <1>5, <1>6, <2>2
  <2>4. PICK i \in 1 .. heads + n : Part(n, i) = d
    <3>1. CASE d < heads
      <4>1. d + 1 \in 1 .. heads + n /\ Part(n, d + 1) = d
        BY <1>5, <2>3, <3>1
      <4>2. QED
        BY <4>1
    <3>2. CASE d >= heads
      <4>1. 2 * heads + n - d \in 1 .. heads + n /\ Part(n, 2 * heads + n - d) = d
        BY <1>5, <2>3, <3>2
      <4>2. QED
        BY <4>1
    <3>3. QED
      BY <2>3, <3>1, <3>2
  <2>5. i \in DOMAIN parts
    BY <1>8
  <2>6. QED
    BY <1>13, <2>3, <2>4, <2>5
<1>17. Gathers(text, stack, m + 1 .. Len(stack), OwnPlaces(instructions[pc].bc, pc))
  BY <1>9, <1>14, <1>15, <1>16, TextGathers
<1>18. x.text = text
  BY <1>10 DEF Node
<1>19. Gathers(x.text, stack, m + 1 .. Len(stack), pc .. pc)
  BY <1>1, <1>17, <1>18, OwnIsNow
<1>20. Silent(x)
  BY <1>10, PlainNodeSilent
<1>21. QED
  BY <1>1, <1>7, <1>11, <1>19, <1>20, NodePrints

(* An assignment and a return that prints show the value they take.          *)
LEMMA StatementPrints ==
    ASSUME PInv, phase = "code", instructions[pc].bc # "EndOfFile", Continue,
           Top(0).type = "Expr", NEW what, what \notin {"block", "brackets"},
           stack' = Append(Popped(1), Statement(Top(0).first, pc, Text(what, pc, <<Top(0).text>>)))
    PROVE  Whole(stack, pc)'
<1>1. IInv /\ Sound(stack) /\ Len(stack) \in Nat /\ 1 < Len(stack)
  BY StackHeight, ExpressionsAboveBottom DEF PInv, IInv, Sound
<1>2. PICK m : m = Len(stack) - 1
  OBVIOUS
<1>3. m \in 1 .. Len(stack) /\ m + 1 .. Len(stack) = {Len(stack)}
  BY <1>1, <1>2
<1>4. PICK parts : parts = <<Top(0).text>>
  OBVIOUS
<1>5. PICK N : N = <<{Len(stack)}>>
  OBVIOUS
<1>6. DOMAIN parts = {1} /\ parts[1] = stack[Len(stack)].text /\ N[1] = {Len(stack)}
  BY <1>1, <1>4, <1>5 DEF Top
<1>7. Gathers(stack[Len(stack)].text, stack, {Len(stack)}, {})
  BY NodeGathers
<1>8. Gathers(Text(what, pc, parts), stack, {Len(stack)}, OwnPlaces(what, pc))
  <2>1. \A j \in DOMAIN parts : Gathers(parts[j], stack, N[j], {}) /\ N[j] \subseteq {Len(stack)}
    BY <1>6, <1>7
  <2>2. \A j \in DOMAIN parts : \A h \in DOMAIN parts \ {j} : N[j] \cap N[h] = {}
    BY <1>6
  <2>3. \A l \in {Len(stack)} : Mute(stack[l]) \/ \E j \in DOMAIN parts : l \in N[j]
    BY <1>6
  <2>4. QED
    BY <2>1, <2>2, <2>3, TextGathers
<1>9. PICK x : x = Node("Statement", Top(0).first, pc, 0, Text(what, pc, parts), 0)
  OBVIOUS
<1>10. x.text = Text(what, pc, parts)
  BY <1>9 DEF Node
<1>11. Gathers(x.text, stack, m + 1 .. Len(stack), pc .. pc)
  BY <1>1, <1>3, <1>8, <1>10, OwnIsNow
<1>12. Silent(x)
  BY <1>9, PlainNodeSilent
<1>13. stack' = Joined(stack, m, x)
  BY <1>2, <1>4, <1>9 DEF Joined, Popped, Statement
<1>14. QED
  BY <1>3, <1>11, <1>12, <1>13, NodePrints

(* A pop does not show, and changes no text.                                 *)
LEMMA PopPrints ==
    ASSUME PInv, DoPop, Continue
    PROVE  Whole(stack, pc)'
<1>1. /\ Sound(stack) /\ Whole(stack, pc) /\ pc \in Nat /\ pc \notin Shown
      /\ Shown \subseteq Nat /\ Top(0).type = "Expr"
  <2>1. instructions[pc].bc = "Pop" /\ phase = "code" /\ Top(0).type = "Expr"
    BY DEF DoPop, At, Continue, Stop
  <2>2. Decoding
    BY <2>1 DEF Decoding, PInv, IInv
  <2>3. pc \notin Shown
    BY <2>1 DEF Shown, Visible, Infix, Precedence, Calls, Sends, Resends
  <2>4. QED
    BY <2>1, <2>2, <2>3, InProgram, ShownAreNumbers DEF PInv, IInv
<1>2. PICK n : n = Len(stack)
  OBVIOUS
<1>3. n \in Nat /\ 1 < n /\ DOMAIN stack = 1 .. n
  BY <1>1, <1>2, StackHeight, ExpressionsAboveBottom DEF Sound
<1>4. PICK x : x = [stack[n] EXCEPT !.type = "Statement"]
  OBVIOUS
<1>5. x.text = stack[n].text /\ x.info = stack[n].info /\ x.type = "Statement"
  <2>1. IsNode(stack[n])
    BY <1>1, <1>2, <1>3 DEF Sound
  <2>2. QED
    BY <1>4, <2>1 DEF IsNode, Node
<1>6. PICK t : t = [stack EXCEPT ![n] = x] /\ t = stack'
  BY <1>1, <1>2, <1>4 DEF DoPop
<1>7. Len(t) = n /\ \A i \in 1 .. n : t[i] = IF i = n THEN x ELSE stack[i]
  <2>1. PICK S : stack \in Seq(S) /\ x \in S
    <3>1. stack \in Seq(NodesOf(stack) \cup {x})
      BY <1>1, SeqMonotonic DEF IsStack, Sound
    <3>2. QED
      BY <3>1
  <2>2. QED
    BY <1>2, <1>3, <1>6, <2>1, ExceptSeq
<1>8. \A k \in 1 .. n : t[k].text = stack[k].text /\ Silent(t[k])
  <2>1. \A k \in 1 .. n : Silent(stack[k])
    BY <1>1, <1>2 DEF Whole
  <2>2. Silent(x)
    BY <1>3, <1>5, <2>1 DEF Silent, Mute
  <2>3. QED
    BY <1>5, <1>7, <2>1, <2>2
<1>9. \A i \in Shown : i < pc + 1 => i < pc
  BY <1>1
<1>10. \A i \in Shown : i >= pc + 1 => i >= pc
  BY <1>1
<1>11. \A i \in Shown : /\ OneOf(stack, 1 .. n, i) => OneOf(t, 1 .. n, i)
                        /\ NoneOf(stack, 1 .. n, i) => NoneOf(t, 1 .. n, i)
  BY <1>8 DEF OneOf, NoneOf
<1>12. Whole(t, pc + 1)
  BY <1>1, <1>2, <1>7, <1>8, <1>9, <1>10, <1>11 DEF Whole
<1>13. pc' = pc + 1 /\ instructions' = instructions
  BY DEF Continue
<1>14. QED
  BY <1>6, <1>12, <1>13 DEF Whole, OneOf, NoneOf, Carries, Lacks, Silent, Mute, Shown

(* A loop shows its condition and its body: what is left out is the branch   *)
(* at its start.                                                             *)
LEMMA WhilePrints ==
    ASSUME PInv, phase = "code", instructions[pc].bc = "BranchIfTrue",
           ~(Arg > pc), IsWhileDo, DoBranchIfTrue
    PROVE  Whole(stack, pc)'
<1>1. Sound(stack) /\ Whole(stack, pc) /\ IsStack(stack)
  BY DEF PInv, IInv, Decoding, Sound
<1>2. PICK start : start = WhileStart
  OBVIOUS
<1>3. PICK top : top = Len(stack)
  OBVIOUS
<1>4. top \in Nat /\ start \in 2 .. top - 2
  BY <1>1, <1>2, <1>3, WhileFound
<1>5. PICK m : m = start - 1
  OBVIOUS
<1>6. m \in 1 .. Len(stack) /\ m + 1 = start
  BY <1>3, <1>4, <1>5
<1>7. Mute(stack[start]) /\ stack[start].first \notin Shown
  <2>1. stack[start].type = "BranchFwd" /\ start \in 1 .. Len(stack)
    BY <1>2, <1>3, <1>4 DEF IsWhileDo
  <2>2. QED
    BY <1>1, <2>1 DEF Whole, Silent
<1>8. PICK body : body = Block(SubSeq(stack, start + 1, top - 1))
  OBVIOUS
<1>9. PICK text : text = Text("while", stack[start].first, <<stack[top].text, body>>)
  OBVIOUS
<1>10. Gathers(text, stack, start .. top, OwnPlaces("while", stack[start].first))
  <2>1. Gathers(stack[top].text, stack, {top}, {})
    BY NodeGathers
  <2>2. Gathers(body, stack, start + 1 .. top - 1, {})
    <3>1. start + 1 \in 1 .. Len(stack) /\ top - 1 \in start + 1 .. Len(stack)
      BY <1>3, <1>4
    <3>2. QED
      BY <1>1, <1>8, <3>1, BlockGathers
  <2>3. /\ {top} \cap (start + 1 .. top - 1) = {}
        /\ {top} \cup (start + 1 .. top - 1) \subseteq start .. top
        /\ (start .. top) \ ({top} \cup (start + 1 .. top - 1)) \subseteq {start}
    BY <1>4
  <2>4. \A l \in (start .. top) \ ({top} \cup (start + 1 .. top - 1)) : Mute(stack[l])
    BY <1>7, <2>3
  <2>5. QED
    BY <1>9, <2>1, <2>2, <2>3, <2>4, PairGathers
<1>11. Gathers(text, stack, m + 1 .. Len(stack), pc .. pc)
  <2>1. pc \notin Shown /\ pc .. pc = {pc}
    BY InProgram DEF PInv, Shown, Visible, Infix, Precedence, Calls, Sends, Resends
  <2>2. OwnPlaces("while", stack[start].first) \cap Shown = {}
    BY <1>7 DEF OwnPlaces
  <2>3. (pc .. pc) \cap Shown = {}
    BY <2>1
  <2>4. QED
    BY <1>3, <1>6, <1>10, <2>2, <2>3, OwnIsMute
<1>12. PICK x : x = Node("Statement", stack[start].first, pc + 1, 0, text, 0)
  OBVIOUS
<1>13. x.text = text /\ Silent(x)
  BY <1>12, PlainNodeSilent DEF Node
<1>14. stack' = Joined(stack, m, x) /\ Continue
  <2>1. /\ stack' =
              Append(SubSeq(stack, 1, WhileStart - 1),
                     Statement(stack[WhileStart].first, pc + 1,
                               Text("while", stack[WhileStart].first,
                                    <<Top(0).text,
                                      Block(SubSeq(stack, WhileStart + 1, Len(stack) - 1))>>)))
        /\ Continue
    BY DEF DoBranchIfTrue
  <2>2. Top(0) = stack[top]
    BY <1>3, <1>4 DEF Top
  <2>3. QED
    BY <1>2, <1>3, <1>5, <1>8, <1>9, <1>12, <2>1, <2>2 DEF Joined, Statement
<1>15. QED
  BY <1>6, <1>11, <1>13, <1>14, NodePrints

(* "and" and "or" show their operands: what is left out are the branches and *)
(* the constant that the value is when the second is not computed.           *)
LEMMA LogicalPrints ==
    ASSUME PInv, Decoding, UNCHANGED <<instructions, pc, phase, result>>,
           NEW branch \in {"BranchFalseFwd", "BranchTrueFwd"}, NEW constant \in {1, 2},
           Logical(branch, constant), NEW what \in {"and", "or"}, JoinLogical(what)
    PROVE  Whole(stack, pc)'
<1>1. Sound(stack) /\ Whole(stack, pc)
  BY DEF PInv, IInv
<1>2. PICK m : m = Len(stack) - 5
  OBVIOUS
<1>3. Len(stack) \in Nat /\ m \in Nat /\ m >= 1 /\ Len(stack) = m + 5 /\ m \in 1 .. Len(stack)
  BY <1>1, <1>2, StackHeight DEF Sound, Logical
<1>4. /\ Top(0) = stack[m + 5] /\ Top(1) = stack[m + 4] /\ Top(2) = stack[m + 3]
      /\ Top(3) = stack[m + 2] /\ Top(4) = stack[m + 1]
  BY <1>3 DEF Top
<1>5. /\ Mute(stack[m + 2]) /\ Mute(stack[m + 4]) /\ Mute(stack[m + 5])
      /\ stack[m + 2].first \notin Shown
  <2>1. \A k \in 1 .. Len(stack) : Silent(stack[k])
    BY <1>1 DEF Whole
  <2>2. Silent(stack[m + 2]) /\ Silent(stack[m + 4]) /\ Silent(stack[m + 5])
    BY <1>3, <2>1
  <2>3. /\ stack[m + 5].info # 0 /\ stack[m + 4].type = "BranchFwd"
        /\ stack[m + 2].type = branch
    BY <1>4 DEF Logical
  <2>4. QED
    BY <2>2, <2>3 DEF Silent
<1>6. PICK left : left = Bracketed(11, stack[m + 1])
  OBVIOUS
<1>7. PICK right : right = Bracketed(11, stack[m + 3])
  OBVIOUS
<1>8. PICK text : text = Text(what, stack[m + 2].first, <<left, right>>)
  OBVIOUS
<1>9. Gathers(text, stack, m + 1 .. Len(stack), OwnPlaces(what, stack[m + 2].first))
  <2>1. Gathers(left, stack, {m + 1}, {}) /\ Gathers(right, stack, {m + 3}, {})
    BY <1>6, <1>7, BracketedGathers
  <2>2. /\ {m + 1} \cap {m + 3} = {}
        /\ {m + 1} \cup {m + 3} \subseteq m + 1 .. Len(stack)
        /\ (m + 1 .. Len(stack)) \ ({m + 1} \cup {m + 3}) \subseteq {m + 2, m + 4, m + 5}
    BY <1>3
  <2>3. \A l \in (m + 1 .. Len(stack)) \ ({m + 1} \cup {m + 3}) : Mute(stack[l])
    BY <1>5, <2>2
  <2>4. QED
    BY <1>8, <2>1, <2>2, <2>3, PairGathers
<1>10. PICK x : x = Node("Expr", stack[m + 1].first, pc, 11, text, 0)
  OBVIOUS
<1>11. x.text = text /\ Silent(x)
  BY <1>10, PlainNodeSilent DEF Node
<1>12. Gathers(x.text, stack, m + 1 .. Len(stack), {})
  <2>1. OwnPlaces(what, stack[m + 2].first) \cap Shown = {} /\ {} \cap Shown = {}
    BY <1>5 DEF OwnPlaces
  <2>2. QED
    BY <1>9, <1>11, <2>1, OwnIsMute
<1>13. stack' = Joined(stack, m, x)
  BY <1>2, <1>4, <1>6, <1>7, <1>8, <1>10 DEF JoinLogical, Joined, Popped, Expr
<1>14. QED
  BY <1>3, <1>11, <1>12, <1>13, LabelPrints

(* "if" shows its condition and its blocks: what is left out are the         *)
(* branches around them.                                                     *)
LEMMA IfElsePrints ==
    ASSUME PInv, Decoding, UNCHANGED <<instructions, pc, phase, result>>,
           NEW type \in {"Expr", "Statement"}, HasIfElseShape(type), JoinIfElse(type)
    PROVE  Whole(stack, pc)'
<1>1. Sound(stack) /\ Whole(stack, pc) /\ IsStack(stack)
  BY DEF PInv, IInv, Sound
<1>2. PICK first : first = ThenBranch
  OBVIOUS
<1>3. PICK second : second = ElseBranch
  OBVIOUS
<1>4. PICK top : top = Len(stack)
  OBVIOUS
<1>5. top \in Nat /\ second \in 1 .. top - 1 /\ first \in 3 .. second - 2
  BY <1>1, <1>2, <1>3, <1>4, IfElseFound
<1>6. PICK m : m = first - 2
  OBVIOUS
<1>7. m \in 1 .. Len(stack) /\ m + 1 = first - 1
  BY <1>4, <1>5, <1>6
<1>8. Mute(stack[first]) /\ Mute(stack[second]) /\ stack[first].first \notin Shown
  <2>1. Silent(stack[first]) /\ Silent(stack[second])
    <3>1. first \in 1 .. Len(stack) /\ second \in 1 .. Len(stack)
      BY <1>4, <1>5
    <3>2. QED
      BY <1>1, <3>1 DEF Whole
  <2>2. stack[first].type = "BranchFalseFwd" /\ stack[second].type = "BranchFwd"
    BY <1>2, <1>3 DEF HasIfElseShape
  <2>3. QED
    BY <2>1, <2>2 DEF Silent
<1>9. PICK yes : yes = Block(SubSeq(stack, first + 1, second - 1))
  OBVIOUS
<1>10. PICK no : no = Block(SubSeq(stack, second + 1, top))
  OBVIOUS
<1>11. PICK text : text = Text("if", stack[first].first, <<stack[first - 1].text, yes, no>>)
  OBVIOUS
<1>12. Gathers(text, stack, first - 1 .. top, OwnPlaces("if", stack[first].first))
  <2> DEFINE A == {first - 1}
             B == first + 1 .. second - 1
             C == second + 1 .. top
  <2>1. Gathers(stack[first - 1].text, stack, A, {})
    BY NodeGathers
  <2>2. Gathers(yes, stack, B, {})
    <3>1. first + 1 \in 1 .. Len(stack) /\ second - 1 \in first + 1 .. Len(stack)
      BY <1>4, <1>5
    <3>2. QED
      BY <1>1, <1>9, <3>1, BlockGathers
  <2>3. Gathers(no, stack, C, {})
    <3>1. second + 1 \in 1 .. Len(stack) /\ top \in second + 1 .. Len(stack)
      BY <1>4, <1>5
    <3>2. QED
      BY <1>1, <1>10, <3>1, BlockGathers
  <2>4. /\ A \cap B = {} /\ A \cap C = {} /\ B \cap C = {}
        /\ A \cup B \cup C \subseteq first - 1 .. top
        /\ (first - 1 .. top) \ (A \cup B \cup C) \subseteq {first, second}
    BY <1>5
  <2>5. \A l \in (first - 1 .. top) \ (A \cup B \cup C) : Mute(stack[l])
    BY <1>8, <2>4
  <2> HIDE DEF A, B, C
  <2>6. QED
    BY <1>11, <2>1, <2>2, <2>3, <2>4, <2>5, TripleGathers
<1>13. PICK x : x = Node(type, stack[first - 1].first, Top(0).last, 0, text, 0)
  OBVIOUS
<1>14. x.text = text /\ Silent(x)
  BY <1>13, PlainNodeSilent DEF Node
<1>15. Gathers(x.text, stack, m + 1 .. Len(stack), {})
  <2>1. OwnPlaces("if", stack[first].first) \cap Shown = {} /\ {} \cap Shown = {}
    BY <1>8 DEF OwnPlaces
  <2>2. QED
    BY <1>4, <1>7, <1>12, <1>14, <2>1, OwnIsMute
<1>16. stack' = Joined(stack, m, x)
  BY <1>2, <1>3, <1>4, <1>6, <1>9, <1>10, <1>11, <1>13 DEF JoinIfElse, Joined
<1>17. QED
  BY <1>7, <1>14, <1>15, <1>16, LabelPrints

LEMMA IfThenPrints ==
    ASSUME PInv, Decoding, UNCHANGED <<instructions, pc, phase, result>>, IsIfThen, JoinIfThen
    PROVE  Whole(stack, pc)'
<1>1. Sound(stack) /\ Whole(stack, pc) /\ IsStack(stack)
  BY DEF PInv, IInv, Sound
<1>2. PICK branch : branch = ElseBranch
  OBVIOUS
<1>3. PICK top : top = Len(stack)
  OBVIOUS
<1>4. top \in Nat /\ branch \in 3 .. top - 1
  BY <1>1, <1>2, <1>3, IfThenFound
<1>5. PICK m : m = branch - 2
  OBVIOUS
<1>6. m \in 1 .. Len(stack) /\ m + 1 = branch - 1
  BY <1>3, <1>4, <1>5
<1>7. Mute(stack[branch]) /\ stack[branch].first \notin Shown
  <2>1. Silent(stack[branch])
    <3>1. branch \in 1 .. Len(stack)
      BY <1>3, <1>4
    <3>2. QED
      BY <1>1, <3>1 DEF Whole
  <2>2. stack[branch].type = "BranchFalseFwd"
    BY <1>2 DEF IsIfThen
  <2>3. QED
    BY <2>1, <2>2 DEF Silent
<1>8. PICK block : block = Block(SubSeq(stack, branch + 1, top))
  OBVIOUS
<1>9. PICK text : text = Text("if", stack[branch].first, <<stack[branch - 1].text, block>>)
  OBVIOUS
<1>10. Gathers(text, stack, branch - 1 .. top, OwnPlaces("if", stack[branch].first))
  <2>1. Gathers(stack[branch - 1].text, stack, {branch - 1}, {})
    BY NodeGathers
  <2>2. Gathers(block, stack, branch + 1 .. top, {})
    <3>1. branch + 1 \in 1 .. Len(stack) /\ top \in branch + 1 .. Len(stack)
      BY <1>3, <1>4
    <3>2. QED
      BY <1>1, <1>8, <3>1, BlockGathers
  <2>3. /\ {branch - 1} \cap (branch + 1 .. top) = {}
        /\ {branch - 1} \cup (branch + 1 .. top) \subseteq branch - 1 .. top
        /\ (branch - 1 .. top) \ ({branch - 1} \cup (branch + 1 .. top)) \subseteq {branch}
    BY <1>4
  <2>4. \A l \in (branch - 1 .. top) \ ({branch - 1} \cup (branch + 1 .. top)) : Mute(stack[l])
    BY <1>7, <2>3
  <2>5. QED
    BY <1>9, <2>1, <2>2, <2>3, <2>4, PairGathers
<1>11. PICK x : x = Node("Statement", stack[branch - 1].first, Top(0).last, 0, text, 0)
  OBVIOUS
<1>12. x.text = text /\ Silent(x)
  BY <1>11, PlainNodeSilent DEF Node
<1>13. Gathers(x.text, stack, m + 1 .. Len(stack), {})
  <2>1. OwnPlaces("if", stack[branch].first) \cap Shown = {} /\ {} \cap Shown = {}
    BY <1>7 DEF OwnPlaces
  <2>2. QED
    BY <1>3, <1>6, <1>10, <1>12, <2>1, OwnIsMute
<1>14. stack' = Joined(stack, m, x)
  BY <1>2, <1>3, <1>5, <1>8, <1>9, <1>11 DEF JoinIfThen, IfThenBlock, Joined, Statement
<1>15. QED
  BY <1>6, <1>12, <1>13, <1>14, LabelPrints

(* A handler that stops has ended the function; so has a return that prints  *)
(* nothing.                                                                  *)
LEMMA StoppedNotDecoding ==
    ASSUME NEW code \in {0, -1, -2}, Stop(code)
    PROVE  ~Decoding'
  BY DEF Stop, Decoding

LEMMA ReturnPrints ==
    ASSUME PInv, DoReturn, Decoding'
    PROVE  Whole(stack, pc)'
<1>1. phase = "code" /\ instructions[pc].bc = "Return" /\ instructions[pc].bc # "EndOfFile"
  BY DEF DoReturn, At
<1>2. AtEndOfFunction /\ Continue => ~Decoding'
  BY DEF AtEndOfFunction, Continue, Decoding
<1>3. Top(0).type = "Expr" /\ ~AtEndOfFunction
  BY <1>2, StoppedNotDecoding DEF DoReturn
<1>4. /\ stack' = Append(Popped(1), Statement(Top(0).first, pc,
                                    Text("Return", pc, <<Top(0).text>>)))
      /\ Continue
  BY <1>3 DEF DoReturn
<1>5. QED
  BY <1>1, <1>3, <1>4, StatementPrints

LEMMA StayPrints ==
    ASSUME PInv, UNCHANGED <<instructions, stack, pc, result>>
    PROVE  Decoding' => Whole(stack, pc)'
  BY DEF PInv, Decoding, Whole, OneOf, NoneOf, Carries, Lacks, Silent, Mute, Shown

(* The bottom shows nothing.                                                 *)
LEMMA PrintsInitially ==
    ASSUME Init
    PROVE  PInv
<1>1. IInv
  BY Initially
<1>2. Shown \subseteq Nat
  BY <1>1, ShownAreNumbers
<1>3. stack = <<EndOfStack>> /\ pc = 0
  BY DEF Init, Start
<1>4. -1 \notin Shown
  BY <1>2
<1>5. \A i \in Shown : Lacks(EndOfStack.text, i)
  <2>1. EndOfStack.text = Text("bottom", -1, << >>)
    BY DEF EndOfStack, Node
  <2>2. QED
    BY <1>4, <2>1, BareText
<1>6. EndOfStack.type = "EndOfStack" /\ EndOfStack.info = 0
  BY DEF EndOfStack, Node
<1>7. 1 .. Len(stack) = {1} /\ stack[1] = EndOfStack
  BY <1>3
<1>8. Whole(stack, pc)
  BY <1>2, <1>3, <1>5, <1>6, <1>7 DEF Whole, NoneOf, Silent
<1>9. QED
  BY <1>1, <1>8 DEF PInv

LEMMA PrintsInductive ==
    ASSUME PInv, [Next]_vars
    PROVE  PInv'
<1>1. IInv'
  BY Inductive DEF PInv
<1>2. SUFFICES ASSUME Decoding'
               PROVE  Whole(stack, pc)'
  BY <1>1 DEF PInv
<1>3. AtLabel /\ UNCHANGED <<instructions, pc, phase, result>> => Decoding
  BY <1>2 DEF Decoding
<1>4. CASE CheckLogicAnd
  BY <1>3, <1>4, LogicalPrints DEF CheckLogicAnd, IsLogicAnd
<1>5. CASE CheckLogicOr
  BY <1>3, <1>5, LogicalPrints DEF CheckLogicOr, IsLogicOr
<1>6. CASE CheckIfThenElseExpr
  BY <1>3, <1>6, IfElsePrints DEF CheckIfThenElseExpr
<1>7. CASE CheckIfThenElse
  BY <1>3, <1>7, IfElsePrints DEF CheckIfThenElse
<1>8. CASE CheckIfThen
  BY <1>3, <1>8, IfThenPrints DEF CheckIfThen
<1>9. CASE LabelDone
  BY <1>2, <1>9, StayPrints DEF LabelDone
<1>10. CASE DoEOF \/ DoUnsupported
  BY <1>2, <1>10, StoppedNotDecoding DEF DoEOF, DoUnsupported
<1>11. CASE DoPushDies \/ DoLeaf
  <2>1. DoPushDies => Decoding
    BY <1>2 DEF Decoding, DoPushDies
  <2>2. QED
    BY <1>2, <1>11, <2>1, LeafPrints, StayPrints DEF DoPushDies
<1>12. CASE DoInfixOperator
  <2>1. Continue
    BY <1>2, <1>12, StoppedNotDecoding DEF DoInfixOperator
  <2>2. QED
    BY <1>12, <2>1, InfixPrints
<1>13. CASE DoCallOrInvoke \/ DoSend \/ DoResend
  <2>1. PICK heads \in {1, 2} : CallWith(heads)
    BY <1>13 DEF DoCallOrInvoke, DoSend, DoResend
  <2>2. phase = "code" /\ instructions[pc].bc \in Calls \cup Sends \cup Resends
    BY <1>13 DEF DoCallOrInvoke, DoSend, DoResend, At
  <2>3. Continue
    BY <1>2, <2>1, StoppedNotDecoding DEF CallWith
  <2>4. QED
    BY <2>1, <2>2, <2>3, CallPrints
<1>14. CASE DoFindAndSetVar
  <2>1. phase = "code" /\ instructions[pc].bc # "EndOfFile"
    BY <1>14 DEF DoFindAndSetVar, At
  <2>2. /\ Top(0).type = "Expr" /\ Continue
        /\ stack' = Append(Popped(1), Statement(Top(0).first, pc,
                                          Text("FindAndSetVar", pc, <<Top(0).text>>)))
    BY <1>2, <1>14, StoppedNotDecoding DEF DoFindAndSetVar
  <2>3. QED
    BY <2>1, <2>2, StatementPrints
<1>15. CASE DoPop
  <2>1. Continue
    BY <1>2, <1>15, StoppedNotDecoding DEF DoPop
  <2>2. QED
    BY <1>15, <2>1, PopPrints
<1>16. CASE DoReturn
  BY <1>2, <1>16, ReturnPrints
<1>17. CASE DoBranch \/ DoBranchIfFalse
  <2>1. phase = "code" /\ instructions[pc].bc \in Branches
    BY <1>17 DEF DoBranch, DoBranchIfFalse, At, Branches
  <2>2. PICK name \in {"Branch", "BranchTrue", "BranchFalse"} : Push(BranchNode(name))
    BY <1>17 DEF DoBranch, DoBranchIfFalse
  <2>3. QED
    BY <2>1, <2>2, BranchNodePrints
<1>18. CASE DoBranchIfTrue
  <2>1. phase = "code" /\ instructions[pc].bc = "BranchIfTrue" /\ instructions[pc].bc \in Branches
    BY <1>18 DEF DoBranchIfTrue, At, Branches
  <2>2. CASE Arg > pc
    <3>1. Push(BranchNode("BranchTrue"))
      BY <1>18, <2>2 DEF DoBranchIfTrue
    <3>2. QED
      BY <2>1, <3>1, BranchNodePrints
  <2>3. CASE ~(Arg > pc) /\ IsWhileDo
    BY <1>18, <2>1, <2>3, WhilePrints
  <2>4. CASE ~(Arg > pc) /\ ~IsWhileDo
    BY <1>2, <1>18, <2>4, StoppedNotDecoding DEF DoBranchIfTrue
  <2>5. QED
    BY <2>2, <2>3, <2>4
<1>19. CASE UNCHANGED vars
  BY <1>2, <1>19, StayPrints DEF vars
<1>20. QED
  BY <1>4, <1>5, <1>6, <1>7, <1>8, <1>9, <1>10, <1>11, <1>12, <1>13, <1>14, <1>15,
     <1>16, <1>17, <1>18, <1>19 DEF Next, DoLabel, Do

(* What shows in one place of the stack occurs once.                         *)
LEMMA OneOccurrence ==
    ASSUME IInv, NEW i, OneOf(stack, 1 .. Len(stack), i)
    PROVE  Cardinality(Occurrences(i)) = 1
<1>1. DOMAIN stack = 1 .. Len(stack)
  BY StackHeight DEF IInv, Sound
<1>2. PICK k \in 1 .. Len(stack) :
         /\ Carries(stack[k].text, i)
         /\ \A l \in (1 .. Len(stack)) \ {k} : Lacks(stack[l].text, i)
  BY DEF OneOf
<1>3. PICK p \in stack[k].text.shows : p.at = i /\ \A q \in stack[k].text.shows : q.at = i => q = p
  BY <1>2 DEF Carries
<1>4. ASSUME NEW n \in DOMAIN stack, NEW q \in stack[n].text.shows, q.at = i
      PROVE  n = k /\ q = p
  BY <1>1, <1>2, <1>3, <1>4 DEF Lacks
<1>5. Occurrences(i) = {<<k, p>>}
  <2>1. <<k, p>> \in Occurrences(i)
    BY <1>1, <1>3 DEF Occurrences
  <2>2. \A o \in Occurrences(i) : o = <<k, p>>
    <3>1. TAKE o \in Occurrences(i)
    <3>2. PICK n \in DOMAIN stack : o \in {<<n, q>> : q \in {r \in stack[n].text.shows : r.at = i}}
      BY <3>1 DEF Occurrences
    <3>3. PICK q \in stack[n].text.shows : q.at = i /\ o = <<n, q>>
      BY <3>2
    <3>4. QED
      BY <1>4, <3>3
  <2>3. QED
    BY <2>1, <2>2
<1>6. QED
  BY <1>5, FS_Singleton

(* Until the function ends, every call, assignment, operator and variable    *)
(* before pc is in just one place of what has been printed so far, on every  *)
(* program that transcode_from_ns can return.                                *)
THEOREM AlwaysPrintedOnce == Spec => []PrintedOnce
<1>1. PInv => PrintedOnce
  <2>1. SUFFICES ASSUME PInv, Decoding,
                        NEW i \in 0 .. pc - 1, instructions[i].bc \in Visible
                 PROVE  Cardinality(Occurrences(i)) = 1
    BY DEF PrintedOnce
  <2>2. pc \in Nat /\ i \in Int /\ i < pc
    BY <2>1, InProgram DEF PInv
  <2>3. i \in Shown
    <3>1. PICK n : n \in Nat /\ DOMAIN instructions = 0 .. n
      BY <2>1 DEF PInv, IInv, IsProgram
    <3>2. pc \in 0 .. n
      BY <2>1, <3>1 DEF PInv, IInv
    <3>3. QED
      BY <2>1, <2>2, <3>1, <3>2 DEF Shown
  <2>4. OneOf(stack, 1 .. Len(stack), i)
    BY <2>1, <2>2, <2>3 DEF PInv, Whole
  <2>5. QED
    BY <2>1, <2>4, OneOccurrence DEF PInv
<1>2. QED
  BY <1>1, PrintsInitially, PrintsInductive, PTL DEF Spec

=============================================================================
