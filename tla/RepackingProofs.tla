--------------------------- MODULE RepackingProofs ---------------------------
(***************************************************************************)
(* For every set of files, whatever is in them: the loader stays within    *)
(* the bytes, what it keeps of them has its type, what the writer makes of *)
(* it assembles to bytes again, no two objects of a part ever have the     *)
(* same label, packages that compare as the same are the same, and the     *)
(* writer counts the bytes that the loader has read.                       *)
(***************************************************************************)
EXTENDS Repacking, FiniteSetTheorems, SequenceTheorems, WellFoundedInduction, TLAPS

(* A sequence of anything. *)
IsSequence(s) == s \in Seq({s[k] : k \in DOMAIN s})

-----------------------------------------------------------------------------
(* A set of natural numbers has a least one.                                 *)
LEMMA LeastNumber ==
    ASSUME NEW T, T \subseteq Nat, T # {}
    PROVE  \E n \in T : \A m \in T : n <= m
<1> DEFINE R == OpToRel(<, Nat)
<1>1. IsWellFoundedOn(R, Nat)
  BY NatLessThanWellFounded
<1>2. ASSUME NEW x \in Nat, NEW y \in Nat, x < y
      PROVE  <<x, y>> \in R
  BY <1>2 DEF OpToRel
<1> HIDE DEF R
<1>3. PICK n \in T : \A m \in T : ~(<<m, n>> \in R)
  BY <1>1, WFMin
<1>4. ASSUME NEW m \in T
      PROVE  n <= m
  <2>1. m \in Nat /\ n \in Nat
    OBVIOUS
  <2>2. ~(m < n)
    BY <1>2, <1>3, <2>1
  <2>3. QED
    BY <2>1, <2>2
<1>5. QED
  BY <1>4

(* What holds of the first number and passes on to the next holds of all.     *)
LEMMA Climbing ==
    ASSUME NEW V, NEW low \in Nat, NEW N \in Nat, NEW f, f[low] \in V,
           \A n \in low + 1 .. N : f[n - 1] \in V => f[n] \in V
    PROVE  \A n \in low .. N : f[n] \in V
<1> DEFINE T == {n \in low .. N : f[n] \notin V}
<1>1. SUFFICES ASSUME T # {}
               PROVE  FALSE
  OBVIOUS
<1>2. PICK n \in T : \A m \in T : n <= m
  <2>1. T \subseteq Nat
    OBVIOUS
  <2> HIDE DEF T
  <2>2. QED
    BY <1>1, <2>1, LeastNumber
<1>3. n \in low .. N /\ f[n] \notin V
  BY <1>2
<1>4. n \in low + 1 .. N /\ n - 1 \in low .. N /\ ~(n <= n - 1)
  BY <1>3
<1>5. f[n - 1] \in V
  BY <1>2, <1>4
<1>6. QED
  BY <1>3, <1>4, <1>5

(* What is computed step by step exists: a function from low to N of values   *)
(* in V, where each value is a step from the one before.                      *)
Stepwise(f, base, step, low, N) ==
    f = [n \in low .. N |-> IF n = low THEN base ELSE step[n][f[n - 1]]]

LEMMA StepwiseExists ==
    ASSUME NEW V, NEW base \in V, NEW low \in Nat, NEW N \in Nat, low <= N,
           NEW step \in [low + 1 .. N -> [V -> V]]
    PROVE  \E f \in [low .. N -> V] : Stepwise(f, base, step, low, N)
<1> DEFINE Good(n) == \E f \in [low .. n -> V] : Stepwise(f, base, step, low, n)
           T == {n \in low .. N : ~Good(n)}
<1>1. SUFFICES ASSUME T # {}
               PROVE  FALSE
  OBVIOUS
<1>2. PICK n \in T : \A m \in T : n <= m
  <2>1. T \subseteq Nat
    OBVIOUS
  <2> HIDE DEF T
  <2>2. QED
    BY <1>1, <2>1, LeastNumber
<1>3. n \in low .. N /\ ~Good(n)
  BY <1>2
<1>4. n # low
  <2> DEFINE g == [m \in low .. low |-> base]
  <2>1. g \in [low .. low -> V] /\ Stepwise(g, base, step, low, low)
    BY DEF Stepwise
  <2> HIDE DEF g
  <2>2. QED
    BY <1>3, <2>1
<1>5. n - 1 \in low .. N /\ n \in low + 1 .. N /\ ~(n <= n - 1)
  BY <1>3, <1>4
<1>6. PICK f \in [low .. n - 1 -> V] : Stepwise(f, base, step, low, n - 1)
  <2>1. n - 1 \notin T
    BY <1>2, <1>5
  <2>2. Good(n - 1)
    BY <1>5, <2>1
  <2>3. QED
    BY <2>2
<1> DEFINE g == [m \in low .. n |-> IF m = n THEN step[n][f[n - 1]] ELSE f[m]]
<1>7. f[n - 1] \in V /\ step[n] \in [V -> V] /\ step[n][f[n - 1]] \in V
  <2>1. n - 1 \in low .. n - 1
    BY <1>5
  <2>2. QED
    BY <1>5, <1>6, <2>1
<1>8. g \in [low .. n -> V]
  BY <1>5, <1>6, <1>7
<1>9. \A m \in low .. n : g[m] = IF m = low THEN base ELSE step[m][g[m - 1]]
  <2>1. \A m \in low .. n - 1 : f[m] = IF m = low THEN base ELSE step[m][f[m - 1]]
    BY <1>6 DEF Stepwise
  <2>2. \A m \in low .. n - 1 : g[m] = f[m]
    BY <1>5
  <2>3. g[n] = step[n][f[n - 1]]
    BY <1>5
  <2> HIDE DEF g
  <2>4. ASSUME NEW m \in low .. n
        PROVE  g[m] = IF m = low THEN base ELSE step[m][g[m - 1]]
    <3>1. CASE m = n
      BY <1>5, <2>2, <2>3, <3>1
    <3>2. CASE m # n
      BY <1>5, <2>1, <2>2, <3>2
    <3>3. QED
      BY <3>1, <3>2
  <2>5. QED
    BY <2>4
<1>10. Stepwise(g, base, step, low, n)
  BY <1>9 DEF Stepwise
<1>11. QED
  BY <1>3, <1>8, <1>10

-----------------------------------------------------------------------------
(* Sequences of anything. *)
LEMMA SequenceOf ==
    ASSUME NEW S, NEW s \in Seq(S)
    PROVE  IsSequence(s)
<1>1. Len(s) \in Nat /\ s \in [1 .. Len(s) -> S] /\ DOMAIN s = 1 .. Len(s)
  BY LenProperties
<1> DEFINE R == {s[k] : k \in DOMAIN s}
<1>2. s \in [1 .. Len(s) -> R]
  BY <1>1
<1> HIDE DEF R
<1>3. [1 .. Len(s) -> R] \in {[1 .. m -> R] : m \in Nat}
  BY <1>1
<1>4. s \in Seq(R)
  BY <1>2, <1>3, SeqDef, Zenon
<1>5. QED
  BY <1>4 DEF R, IsSequence

LEMMA Elements ==
    ASSUME NEW s, IsSequence(s)
    PROVE  /\ Len(s) \in Nat /\ DOMAIN s = 1 .. Len(s)
           /\ s = [k \in 1 .. Len(s) |-> s[k]]
           /\ \A S : (\A k \in 1 .. Len(s) : s[k] \in S) => s \in Seq(S)
<1>1. Len(s) \in Nat /\ s \in [1 .. Len(s) -> {s[k] : k \in DOMAIN s}] /\ DOMAIN s = 1 .. Len(s)
  BY LenProperties DEF IsSequence
<1>2. ASSUME NEW S, \A k \in 1 .. Len(s) : s[k] \in S
      PROVE  s \in Seq(S)
  <2>1. s \in [1 .. Len(s) -> S]
    BY <1>1, <1>2
  <2>2. QED
    BY <1>1, <2>1, SeqDef, Zenon
<1>3. QED
  BY <1>1, <1>2

LEMMA Appended ==
    ASSUME NEW s, IsSequence(s), NEW x
    PROVE  /\ IsSequence(Append(s, x))
           /\ Len(Append(s, x)) = Len(s) + 1
           /\ \A k \in 1 .. Len(s) : Append(s, x)[k] = s[k]
           /\ Append(s, x)[Len(s) + 1] = x
<1> DEFINE S == {s[k] : k \in DOMAIN s} \cup {x}
<1>1. Len(s) \in Nat /\ DOMAIN s = 1 .. Len(s)
  BY Elements
<1>2. s \in Seq(S) /\ x \in S
  <2>1. \A k \in 1 .. Len(s) : s[k] \in S
    BY <1>1
  <2> HIDE DEF S
  <2>2. s \in Seq(S)
    BY <2>1, Elements
  <2>3. QED
    BY <2>2 DEF S
<1> HIDE DEF S
<1>3. Append(s, x) \in Seq(S) /\ Len(Append(s, x)) = Len(s) + 1
      /\ \A k \in 1 .. Len(s) : Append(s, x)[k] = s[k]
      /\ Append(s, x)[Len(s) + 1] = x
  BY <1>2, AppendProperties
<1>4. IsSequence(Append(s, x))
  BY <1>3, SequenceOf
<1>5. QED
  BY <1>3, <1>4

Put(s, i, x) == [s EXCEPT ![i] = x]

LEMMA Replaced ==
    ASSUME NEW s, IsSequence(s), NEW i \in 1 .. Len(s), NEW x, NEW t, t = Put(s, i, x)
    PROVE  /\ IsSequence(t)
           /\ Len(t) = Len(s) /\ DOMAIN t = 1 .. Len(s)
           /\ \A k \in 1 .. Len(s) : t[k] = IF k = i THEN x ELSE s[k]
<1> DEFINE S == {s[k] : k \in DOMAIN s} \cup {x}
<1>1. Len(s) \in Nat /\ DOMAIN s = 1 .. Len(s)
  BY Elements
<1>2. s \in Seq(S) /\ x \in S
  <2>1. \A k \in 1 .. Len(s) : s[k] \in S
    BY <1>1
  <2> HIDE DEF S
  <2>2. s \in Seq(S)
    BY <2>1, Elements
  <2>3. QED
    BY <2>2 DEF S
<1> HIDE DEF S
<1>3. t \in Seq(S) /\ Len(t) = Len(s) /\ \A k \in 1 .. Len(s) : t[k] = IF k = i THEN x ELSE s[k]
  BY <1>2, ExceptSeq DEF Put
<1>4. DOMAIN t = 1 .. Len(s)
  BY <1>3, LenProperties
<1>5. QED
  BY <1>3, <1>4, SequenceOf

LEMMA Joined ==
    ASSUME NEW s, IsSequence(s), NEW t, IsSequence(t)
    PROVE  /\ IsSequence(s \o t)
           /\ Len(s \o t) = Len(s) + Len(t)
           /\ \A k \in 1 .. Len(s) + Len(t) :
                  (s \o t)[k] = IF k <= Len(s) THEN s[k] ELSE t[k - Len(s)]
<1> DEFINE S == {s[k] : k \in DOMAIN s} \cup {t[k] : k \in DOMAIN t}
<1>1. /\ Len(s) \in Nat /\ DOMAIN s = 1 .. Len(s)
      /\ Len(t) \in Nat /\ DOMAIN t = 1 .. Len(t)
  BY Elements
<1>2. s \in Seq(S) /\ t \in Seq(S)
  <2>1. (\A k \in 1 .. Len(s) : s[k] \in S) /\ (\A k \in 1 .. Len(t) : t[k] \in S)
    BY <1>1
  <2> HIDE DEF S
  <2>2. QED
    BY <2>1, Elements
<1> HIDE DEF S
<1>3. /\ s \o t \in Seq(S) /\ Len(s \o t) = Len(s) + Len(t)
      /\ \A k \in 1 .. Len(s) + Len(t) :
             (s \o t)[k] = IF k <= Len(s) THEN s[k] ELSE t[k - Len(s)]
  BY <1>2, ConcatProperties
<1>4. QED
  BY <1>3, SequenceOf

(* The parts of a sequence make a sequence.                                  *)
LEMMA Flattened ==
    ASSUME NEW S, NEW ss \in Seq(Seq(S))
    PROVE  FlattenSeq(ss) \in Seq(S)
<1> DEFINE N == Len(ss)
           V == Seq(S)
           Equation(f) == f = [i \in 1 .. N |-> IF i = 1 THEN ss[i] ELSE f[i - 1] \o ss[i]]
           step == [i \in 1 + 1 .. N |-> [v \in V |-> v \o ss[i]]]
<1>1. N \in Nat /\ \A i \in 1 .. N : ss[i] \in V
  BY LenProperties, ElementOfSeq
<1>2. CASE N = 0
  <2>1. ss = << >>
    BY <1>2, EmptySeq
  <2>2. QED
    BY <1>2, <2>1, EmptySeq DEF FlattenSeq
<1>3. CASE N # 0
  <2>1. \A v, w \in V : v \o w \in V
    BY ConcatProperties
  <2>2. 1 <= N /\ ss[1] \in V
    BY <1>1, <1>3
  <2> HIDE DEF V
  <2>3. step \in [1 + 1 .. N -> [V -> V]]
    BY <1>1, <2>1
  <2>4. PICK f \in [1 .. N -> V] : Stepwise(f, ss[1], step, 1, N)
    <3> HIDE DEF step, N
    <3>1. 1 \in Nat
      OBVIOUS
    <3>2. QED
      BY <1>1, <2>2, <2>3, <3>1, StepwiseExists
  <2>5. Equation(f)
    <3>1. \A i \in 1 .. N : f[i] = IF i = 1 THEN ss[1] ELSE step[i][f[i - 1]]
      BY <2>4 DEF Stepwise
    <3>2. ASSUME NEW i \in 1 .. N, i # 1
          PROVE  step[i][f[i - 1]] = f[i - 1] \o ss[i]
      <4>1. i \in 1 + 1 .. N /\ i - 1 \in 1 .. N
        BY <1>1, <3>2
      <4>2. f[i - 1] \in V
        BY <2>4, <4>1
      <4>3. QED
        BY <4>1, <4>2
    <3> HIDE DEF step
    <3>3. QED
      BY <2>4, <3>1, <3>2
  <2> DEFINE F == CHOOSE g : Equation(g)
  <2> HIDE DEF Equation, step
  <2>6. Equation(F)
    BY <2>5
  <2>7. FlattenSeq(ss) = F[N]
    BY <1>3 DEF FlattenSeq, Equation
  <2> HIDE DEF F
  <2>8. \A i \in 1 .. N : F[i] = IF i = 1 THEN ss[i] ELSE F[i - 1] \o ss[i]
    BY <2>6 DEF Equation
  <2>9. \A i \in 1 .. N : F[i] \in V
    <3>1. F[1] \in V
      BY <2>2, <2>8, <1>1
    <3>2. ASSUME NEW i \in 1 + 1 .. N, F[i - 1] \in V
          PROVE  F[i] \in V
      <4>1. i \in 1 .. N /\ i # 1
        BY <1>1
      <4>2. F[i] = F[i - 1] \o ss[i]
        BY <2>8, <4>1
      <4>3. QED
        BY <1>1, <2>1, <3>2, <4>1, <4>2
    <3> HIDE DEF N
    <3>3. 1 \in Nat
      OBVIOUS
    <3>4. QED
      BY <1>1, <3>1, <3>2, <3>3, Climbing
  <2>10. QED
    BY <1>1, <2>2, <2>7, <2>9 DEF V
<1>4. QED
  BY <1>2, <1>3

-----------------------------------------------------------------------------
(* Bytes and numbers. *)
LEMMA BaseIsPositive == Base \in Nat /\ Base > 15 /\ Byte \subseteq Nat
  BY BaseAssumption DEF Byte

LEMMA NumberIsNat ==
    ASSUME NEW bytes \in Seq(Byte), Len(bytes) \in {2, 4}
    PROVE  Number(bytes) \in Nat
<1>1. \A a, b \in Nat : a * Base + b \in Nat
  BY BaseIsPositive
<1>2. \A k \in 1 .. Len(bytes) : bytes[k] \in Nat
  BY BaseIsPositive, ElementOfSeq
<1>3. bytes[1] \in Nat /\ bytes[2] \in Nat
  BY <1>2
<1> DEFINE high == bytes[1] * Base + bytes[2]
<1>4. high \in Nat
  BY <1>1, <1>3
<1>5. CASE Len(bytes) = 2
  BY <1>4, <1>5 DEF Number
<1>6. CASE Len(bytes) = 4
  <2>1. bytes[3] \in Nat /\ bytes[4] \in Nat
    BY <1>2, <1>6
  <2>2. Number(bytes) = (high * Base + bytes[3]) * Base + bytes[4]
    BY <1>6 DEF Number
  <2> HIDE DEF high
  <2>3. QED
    BY <1>1, <1>4, <2>1, <2>2
<1>7. QED
  BY <1>5, <1>6

LEMMA Remainder == \A n \in Int : n % Base \in Byte /\ n \div Base \in Int
  BY BaseAssumption DEF Byte

LEMMA NumbersAreBytes ==
    ASSUME NEW n \in Int
    PROVE  /\ Short(n) \in Seq(Byte) /\ Len(Short(n)) = 2
           /\ Word(n) \in Seq(Byte) /\ Len(Word(n)) = 4
           /\ \A width : Digits(n, width) \in Seq(Byte)
<1>1. ASSUME NEW m \in Int
      PROVE  Short(m) \in Seq(Byte) /\ Len(Short(m)) = 2
  <2>1. m % Base \in Byte /\ (m \div Base) % Base \in Byte
    BY Remainder
  <2>2. QED
    BY <2>1 DEF Short
<1>2. n \div (Base * Base) \in Int
  <2>1. Base * Base \in Nat /\ Base * Base > 0
    BY BaseIsPositive
  <2>2. QED
    BY <2>1
<1>3. Word(n) \in Seq(Byte) /\ Len(Word(n)) = 4
  <2>1. PICK high \in Seq(Byte) : high = Short(n \div (Base * Base)) /\ Len(high) = 2
    BY <1>1, <1>2
  <2>2. PICK low \in Seq(Byte) : low = Short(n) /\ Len(low) = 2
    BY <1>1
  <2>3. Word(n) = high \o low
    BY <2>1, <2>2 DEF Word
  <2>4. high \o low \in Seq(Byte) /\ Len(high \o low) = Len(high) + Len(low)
    BY ConcatProperties
  <2>5. QED
    BY <2>1, <2>2, <2>3, <2>4
<1>4. QED
  BY <1>1, <1>3 DEF Digits

LEMMA SliceOfBytes ==
    ASSUME NEW S, NEW bytes \in Seq(S), NEW at \in Nat, NEW length \in Nat,
           at + length <= Len(bytes)
    PROVE  Slice(bytes, at, length) \in Seq(S) /\ Len(Slice(bytes, at, length)) = length
<1>1. Len(bytes) \in Nat
  BY LenProperties
<1>2. \A i \in at + 1 .. at + length : bytes[i] \in S
  BY <1>1, ElementOfSeq
<1>3. QED
  BY <1>2, SubSeqProperties DEF Slice

LEMMA NumberInSlice ==
    ASSUME NEW bytes \in Seq(Byte), NEW at \in Nat, NEW width \in {2, 4}, at + width <= Len(bytes)
    PROVE  Number(Slice(bytes, at, width)) \in Nat
<1>1. PICK slice : slice = Slice(bytes, at, width)
  OBVIOUS
<1>2. slice \in Seq(Byte) /\ Len(slice) = width
  BY <1>1, SliceOfBytes
<1>3. QED
  BY <1>1, <1>2, NumberIsNat

LEMMA Aligned ==
    ASSUME NEW at \in Int, NEW align \in {4, 8}
    PROVE  AlignedTo(at, align) \in Int /\ AlignedTo(at, align) >= at
<1>1. CASE align = 4
  BY <1>1 DEF AlignedTo
<1>2. CASE align = 8
  BY <1>2 DEF AlignedTo
<1>3. QED
  BY <1>1, <1>2

-----------------------------------------------------------------------------
(* The sum of a sequence of numbers is what their sums lead to.              *)
Sums(f, numbers, N) ==
    /\ f \in [0 .. N -> Int]
    /\ f[0] = 0 /\ \A n \in 1 .. N : f[n] = f[n - 1] + numbers[n]
    /\ Added(numbers) = f[N]

LEMMA AddedSteps ==
    ASSUME NEW numbers \in Seq(Int)
    PROVE  \E f : Sums(f, numbers, Len(numbers))
<1> DEFINE N == Len(numbers)
           Equation(f) == f = [n \in 0 .. N |-> IF n = 0 THEN 0 ELSE f[n - 1] + numbers[n]]
           step == [n \in 0 + 1 .. N |-> [v \in Int |-> v + numbers[n]]]
<1>1. N \in Nat /\ \A n \in 1 .. N : numbers[n] \in Int
  BY LenProperties, ElementOfSeq
<1>2. PICK f \in [0 .. N -> Int] : Stepwise(f, 0, step, 0, N)
  <2>1. step \in [0 + 1 .. N -> [Int -> Int]]
    BY <1>1
  <2> HIDE DEF step, N
  <2>2. 0 \in Int /\ 0 <= N
    BY <1>1
  <2>3. QED
    BY <1>1, <2>1, <2>2, StepwiseExists, Zenon
<1>3. Equation(f)
  <2>1. \A n \in 0 .. N : f[n] = IF n = 0 THEN 0 ELSE step[n][f[n - 1]]
    BY <1>2 DEF Stepwise
  <2>2. ASSUME NEW n \in 0 .. N, n # 0
        PROVE  step[n][f[n - 1]] = f[n - 1] + numbers[n]
    <3>1. n \in 0 + 1 .. N /\ n - 1 \in 0 .. N
      BY <1>1, <2>2
    <3>2. f[n - 1] \in Int
      BY <1>2, <3>1
    <3>3. QED
      BY <3>1, <3>2
  <2> HIDE DEF step
  <2>3. QED
    BY <1>2, <2>1, <2>2
<1> DEFINE F == CHOOSE g : Equation(g)
<1> HIDE DEF Equation, step
<1>4. Equation(F)
  BY <1>3
<1>5. Added(numbers) = F[N]
  BY DEF Added, Equation
<1> HIDE DEF F
<1>6. \A n \in 0 .. N : F[n] = IF n = 0 THEN 0 ELSE F[n - 1] + numbers[n]
  BY <1>4 DEF Equation
<1>7. \A n \in 0 .. N : F[n] \in Int
  <2>1. F[0] \in Int
    BY <1>1, <1>6
  <2>2. ASSUME NEW n \in 0 + 1 .. N, F[n - 1] \in Int
        PROVE  F[n] \in Int
    <3>1. n \in 1 .. N /\ n \in 0 .. N /\ n # 0
      BY <1>1
    <3>2. F[n] = F[n - 1] + numbers[n]
      BY <1>6, <3>1
    <3>3. QED
      BY <1>1, <2>2, <3>1, <3>2
  <2> HIDE DEF N
  <2>3. QED
    BY <1>1, <2>1, <2>2, Climbing
<1>8. F \in [0 .. N -> Int] /\ F[0] = 0 /\ \A n \in 1 .. N : F[n] = F[n - 1] + numbers[n]
  <2>1. DOMAIN F = 0 .. N /\ F = [n \in 0 .. N |-> F[n]]
    BY <1>4 DEF Equation
  <2> HIDE DEF N
  <2>2. F \in [0 .. N -> Int]
    BY <1>7, <2>1
  <2>3. F[0] = 0
    BY <1>1, <1>6
  <2>4. ASSUME NEW n \in 1 .. N
        PROVE  F[n] = F[n - 1] + numbers[n]
    <3>1. n \in 0 .. N /\ n # 0
      BY <1>1
    <3>2. QED
      BY <1>6, <3>1
  <2>5. QED
    BY <2>2, <2>3, <2>4
<1>9. QED
  BY <1>5, <1>8 DEF Sums

LEMMA SumIsInt ==
    ASSUME NEW numbers \in Seq(Int)
    PROVE  Added(numbers) \in Int
<1>1. Len(numbers) \in Nat
  BY LenProperties
<1>2. QED
  BY <1>1, AddedSteps DEF Sums

LEMMA SumsOf ==
    ASSUME NEW N \in Nat, NEW s \in [1 .. N -> Int]
    PROVE  \E f : Sums(f, s, N)
<1>1. s \in Seq(Int) /\ Len(s) = N
  OBVIOUS
<1>2. QED
  BY <1>1, AddedSteps

(* What is true of 0, and of the next number with each one, is true of all.  *)
LEMMA Steps ==
    ASSUME NEW N \in Nat, NEW P, 0 \in P, \A n \in 1 .. N : n - 1 \in P => n \in P
    PROVE  N \in P
<1> DEFINE T == {n \in 0 .. N : n \notin P}
<1>1. SUFFICES ASSUME N \notin P
               PROVE  FALSE
  OBVIOUS
<1>2. PICK n \in T : \A m \in T : n <= m
  <2>1. T \subseteq Nat /\ T # {}
    BY <1>1
  <2> HIDE DEF T
  <2>2. QED
    BY <2>1, LeastNumber
<1>3. n \in 0 .. N /\ n \notin P /\ n # 0
  BY <1>2
<1>4. n \in 1 .. N /\ n - 1 \in 0 .. N /\ ~(n <= n - 1)
  BY <1>3
<1>5. n - 1 \in P
  BY <1>2, <1>4
<1>6. QED
  BY <1>3, <1>4, <1>5

(* Zeros add nothing. *)
LEMMA AddedZeros ==
    ASSUME NEW N \in Nat, NEW s \in [1 .. N -> Int], \A n \in 1 .. N : s[n] = 0
    PROVE  Added(s) = 0
<1>1. N \in 0 .. N
  OBVIOUS
<1>2. PICK f : Sums(f, s, N)
  BY SumsOf
<1> DEFINE P == {n \in 0 .. N : f[n] = 0}
<1>3. 0 \in P
  BY <1>2 DEF Sums
<1>4. ASSUME NEW n \in 1 .. N, n - 1 \in P
      PROVE  n \in P
  <2>1. n - 1 \in 0 .. N /\ n \in 0 .. N
    OBVIOUS
  <2>2. f[n - 1] = 0
    BY <1>4, <2>1
  <2>3. f[n] = 0
    BY <1>2, <2>2 DEF Sums
  <2>4. QED
    BY <2>1, <2>3
<1>5. N \in P
  <2> HIDE DEF P
  <2>1. QED
    BY <1>3, <1>4, Steps
<1>6. QED
  BY <1>2, <1>5 DEF Sums

(* The sum grows by as much as one of the numbers does.                      *)
LEMMA AddedAtOne ==
    ASSUME NEW N \in Nat, NEW s \in [1 .. N -> Int], NEW t \in [1 .. N -> Int],
           NEW i \in 1 .. N, NEW d \in Nat, t[i] = s[i] + d,
           \A n \in 1 .. N : n # i => t[n] = s[n]
    PROVE  Added(t) = Added(s) + d
<1>1. N \in 0 .. N /\ ~(N < i)
  OBVIOUS
<1>2. PICK f : Sums(f, s, N)
  BY SumsOf
<1>3. PICK g : Sums(g, t, N)
  BY SumsOf
<1> DEFINE P == {n \in 0 .. N : g[n] = IF n < i THEN f[n] ELSE f[n] + d}
<1>4. 0 \in P
  BY <1>2, <1>3 DEF Sums
<1>5. ASSUME NEW n \in 1 .. N, n - 1 \in P
      PROVE  n \in P
  <2>1. n - 1 \in 0 .. N /\ n \in 0 .. N
    OBVIOUS
  <2>2. g[n - 1] = IF n - 1 < i THEN f[n - 1] ELSE f[n - 1] + d
    BY <1>5, <2>1
  <2>3. f[n - 1] \in Int /\ f[n] = f[n - 1] + s[n] /\ g[n] = g[n - 1] + t[n] /\ s[n] \in Int
    BY <1>2, <1>3, <2>1 DEF Sums
  <2>4. t[n] = IF n = i THEN s[n] + d ELSE s[n]
    OBVIOUS
  <2>5. g[n] = IF n < i THEN f[n] ELSE f[n] + d
    <3>1. CASE n < i
      BY <2>2, <2>3, <2>4, <3>1
    <3>2. CASE n = i
      BY <2>2, <2>3, <2>4, <3>2
    <3>3. CASE n > i
      BY <2>2, <2>3, <2>4, <3>3
    <3>4. QED
      BY <3>1, <3>2, <3>3
  <2>6. QED
    BY <2>1, <2>5
<1>6. N \in P
  <2> HIDE DEF P
  <2>1. QED
    BY <1>4, <1>5, Steps
<1>7. QED
  BY <1>1, <1>2, <1>3, <1>6 DEF Sums

(* Of places that are at least as far from each other as the numbers say,    *)
(* the last one is at least as far from the first one as their sum says.     *)
LEMMA Telescope ==
    ASSUME NEW N \in Nat, NEW s \in [1 .. N -> Int], NEW b \in [1 .. N + 1 -> Int],
           \A n \in 1 .. N : b[n + 1] >= b[n] + s[n]
    PROVE  /\ b[N + 1] >= b[1] + Added(s)
           /\ (\A n \in 1 .. N : b[n + 1] = b[n] + s[n]) => b[N + 1] = b[1] + Added(s)
<1>1. N \in 0 .. N
  OBVIOUS
<1>2. PICK f : Sums(f, s, N)
  BY SumsOf
<1> DEFINE exact == \A n \in 1 .. N : b[n + 1] = b[n] + s[n]
           P == {n \in 0 .. N : b[n + 1] >= b[1] + f[n] /\ (exact => b[n + 1] = b[1] + f[n])}
<1>3. 0 \in P
  <2>1. b[1] \in Int /\ 0 \in 0 .. N
    OBVIOUS
  <2>2. b[0 + 1] >= b[1] + f[0] /\ b[0 + 1] = b[1] + f[0]
    BY <1>2, <2>1 DEF Sums
  <2> HIDE DEF exact
  <2>3. QED
    BY <2>1, <2>2
<1>4. ASSUME NEW n \in 1 .. N, n - 1 \in P
      PROVE  n \in P
  <2>1. n - 1 \in 0 .. N /\ n \in 0 .. N /\ n \in 1 .. N + 1 /\ n + 1 \in 1 .. N + 1 /\ 1 \in 1 .. N + 1
        /\ (n - 1) + 1 = n
    OBVIOUS
  <2>2. b[n] \in Int /\ b[n + 1] \in Int /\ b[1] \in Int /\ s[n] \in Int /\ f[n - 1] \in Int
        /\ f[n] = f[n - 1] + s[n] /\ b[n + 1] >= b[n] + s[n] /\ (exact => b[n + 1] = b[n] + s[n])
    BY <1>2, <2>1 DEF Sums
  <2> HIDE DEF exact
  <2>3. b[n] >= b[1] + f[n - 1] /\ (exact => b[n] = b[1] + f[n - 1])
    BY <1>4, <2>1
  <2>4. b[n + 1] >= b[1] + f[n]
    <3>1. PICK u \in Int, v \in Int, w \in Int, x \in Int, y \in Int :
              u = b[n + 1] /\ v = b[n] /\ w = b[1] /\ x = s[n] /\ y = f[n - 1]
      BY <2>2
    <3>2. f[n] = y + x /\ u >= v + x /\ v >= w + y
      BY <2>2, <2>3, <3>1, Zenon
    <3>3. u >= w + (y + x)
      BY <3>2
    <3>4. QED
      BY <3>1, <3>2, <3>3, Zenon
  <2>5. ASSUME exact
        PROVE  b[n + 1] = b[1] + f[n]
    <3>1. b[n + 1] = b[n] + s[n] /\ b[n] = b[1] + f[n - 1]
      BY <2>2, <2>3, <2>5
    <3>2. b[n + 1] = b[1] + f[n - 1] + s[n]
      BY <3>1, Zenon
    <3>3. b[1] + f[n - 1] + s[n] = b[1] + (f[n - 1] + s[n])
      BY <2>2
    <3>4. QED
      BY <2>2, <3>2, <3>3, Zenon
  <2>6. QED
    BY <2>1, <2>4, <2>5
<1>5. N \in P
  <2> HIDE DEF P
  <2>1. QED
    BY <1>3, <1>4, Steps
<1> HIDE DEF exact
<1>6. b[N + 1] >= b[1] + f[N] /\ (exact => b[N + 1] = b[1] + f[N])
  BY <1>1, <1>5
<1>7. QED
  BY <1>2, <1>6 DEF Sums, exact


-----------------------------------------------------------------------------
(* The assembler. *)
AscizStates == {r \in [text : Seq(Byte), hex : BOOLEAN] : r.hex => Len(r.text) > 0}

AscizStep(before, c) ==
    IF Printable(c) /\ before.hex /\ IsHexDigit(c)
    THEN [before EXCEPT !.text[Len(before.text)] = (16 * @ + HexValue(c)) % Base]
    ELSE [text |-> Append(before.text, c), hex |-> ~Printable(c)]

LEMMA AscizStepTyped ==
    ASSUME NEW r \in AscizStates, NEW c \in Byte
    PROVE  AscizStep(r, c) \in AscizStates
<1>1. r.text \in Seq(Byte) /\ r.hex \in BOOLEAN /\ (r.hex => Len(r.text) > 0)
      /\ r = [text |-> r.text, hex |-> r.hex]
  BY DEF AscizStates
<1>2. Len(r.text) \in Nat
  BY <1>1, LenProperties
<1>3. CASE Printable(c) /\ r.hex /\ IsHexDigit(c)
  <2>1. Len(r.text) \in 1 .. Len(r.text)
    BY <1>1, <1>2, <1>3
  <2>2. r.text[Len(r.text)] \in Nat
    BY <1>1, <2>1, ElementOfSeq, BaseIsPositive
  <2>3. HexValue(c) \in Int
    BY BaseIsPositive DEF HexValue
  <2>4. PICK byte \in Byte : byte = (16 * r.text[Len(r.text)] + HexValue(c)) % Base
    <3>1. PICK n \in Int : n = 16 * r.text[Len(r.text)] + HexValue(c)
      BY <2>2, <2>3
    <3>2. n % Base \in Byte
      BY Remainder
    <3>3. QED
      BY <3>1, <3>2
  <2>5. PICK t \in Seq(Byte) : t = [r.text EXCEPT ![Len(r.text)] = byte] /\ Len(t) = Len(r.text)
    <3>1. PICK u : u = [r.text EXCEPT ![Len(r.text)] = byte]
      OBVIOUS
    <3>2. u \in Seq(Byte) /\ Len(u) = Len(r.text)
      BY <1>1, <2>1, <3>1, ExceptSeq
    <3>3. QED
      BY <3>1, <3>2
  <2>6. AscizStep(r, c) = [text |-> t, hex |-> r.hex]
    BY <1>1, <1>3, <2>4, <2>5 DEF AscizStep
  <2>7. QED
    BY <1>1, <2>5, <2>6 DEF AscizStates
<1>4. CASE ~(Printable(c) /\ r.hex /\ IsHexDigit(c))
  <2>1. PICK t \in Seq(Byte) : t = Append(r.text, c) /\ Len(t) = Len(r.text) + 1
    <3>1. PICK u : u = Append(r.text, c)
      OBVIOUS
    <3>2. u \in Seq(Byte) /\ Len(u) = Len(r.text) + 1
      BY <1>1, <3>1, AppendProperties
    <3>3. QED
      BY <3>1, <3>2
  <2>2. PICK h \in BOOLEAN : h = ~Printable(c)
    BY DEF Printable
  <2>3. AscizStep(r, c) = [text |-> t, hex |-> h]
    BY <1>4, <2>1, <2>2 DEF AscizStep
  <2>4. QED
    BY <1>2, <2>1, <2>3 DEF AscizStates
<1>5. QED
  BY <1>3, <1>4

LEMMA AscizTextIsBytes ==
    ASSUME NEW text \in Seq(Byte)
    PROVE  AscizText(text) \in Seq(Byte)
<1> DEFINE N == Len(text)
           nothing == [text |-> << >>, hex |-> FALSE]
           Equation(f) == f = [n \in 0 .. N |-> IF n = 0 THEN nothing ELSE AscizStep(f[n - 1], text[n])]
           step == [n \in 0 + 1 .. N |-> [v \in AscizStates |-> AscizStep(v, text[n])]]
<1>1. N \in Nat /\ \A n \in 1 .. N : text[n] \in Byte
  BY LenProperties, ElementOfSeq
<1>2. nothing \in AscizStates
  BY EmptySeq DEF AscizStates
<1>3. PICK f \in [0 .. N -> AscizStates] : Stepwise(f, nothing, step, 0, N)
  <2>1. step \in [0 + 1 .. N -> [AscizStates -> AscizStates]]
    BY <1>1, AscizStepTyped
  <2> HIDE DEF step, N, nothing
  <2>2. 0 \in Nat /\ 0 <= N
    BY <1>1
  <2>3. QED
    BY <1>1, <1>2, <2>1, <2>2, StepwiseExists, Zenon
<1>4. Equation(f)
  <2>1. \A n \in 0 .. N : f[n] = IF n = 0 THEN nothing ELSE step[n][f[n - 1]]
    BY <1>3 DEF Stepwise
  <2>2. ASSUME NEW n \in 0 .. N, n # 0
        PROVE  step[n][f[n - 1]] = AscizStep(f[n - 1], text[n])
    <3>1. n \in 0 + 1 .. N /\ n - 1 \in 0 .. N
      BY <1>1, <2>2
    <3>2. f[n - 1] \in AscizStates
      BY <1>3, <3>1
    <3>3. QED
      BY <3>1, <3>2
  <2> HIDE DEF step, nothing
  <2>3. QED
    BY <1>3, <2>1, <2>2
<1> DEFINE F == CHOOSE g : Equation(g)
<1>5. AscizText(text) = F[N].text
  BY DEF AscizText, AscizStep
<1> HIDE DEF Equation, step
<1>6. Equation(F)
  BY <1>4
<1> HIDE DEF F
<1>7. \A n \in 0 .. N : F[n] = IF n = 0 THEN nothing ELSE AscizStep(F[n - 1], text[n])
  BY <1>6 DEF Equation
<1>8. \A n \in 0 .. N : F[n] \in AscizStates
  <2>1. F[0] \in AscizStates
    BY <1>1, <1>2, <1>7
  <2>2. ASSUME NEW n \in 0 + 1 .. N, F[n - 1] \in AscizStates
        PROVE  F[n] \in AscizStates
    <3>1. n \in 1 .. N /\ n \in 0 .. N /\ n # 0
      BY <1>1
    <3>2. F[n] = AscizStep(F[n - 1], text[n])
      BY <1>7, <3>1
    <3>3. QED
      BY <1>1, <2>2, <3>1, <3>2, AscizStepTyped
  <2> HIDE DEF N
  <2>3. 0 \in Nat
    OBVIOUS
  <2>4. QED
    BY <1>1, <2>1, <2>2, <2>3, Climbing
<1>9. F[N] \in AscizStates
  BY <1>1, <1>8
<1>10. QED
  BY <1>5, <1>9 DEF AscizStates

(* What stands in an assembler file.                                         *)
IsItem(item) ==
    /\ item.op \in {"verbatim", "label", "local", "address", "distance", "to local", "balign", "asciz"}
    /\ item.op = "verbatim" => item.bytes \in Seq(Byte)
    /\ item.op = "label"    => item = Define(item.label)
    /\ item.op = "address"  => item.plus \in Int
    /\ item.op \in {"address", "distance"} => item.width \in {2, 4}
    /\ item.op = "to local" => item.rest \in Int
    /\ item.op = "balign"   => item.align = 4 /\ item.fill \in Byte
    /\ item.op = "asciz"    => item.text \in Seq(Byte)

IsAsm(items) == IsSequence(items) /\ \A k \in DOMAIN items : IsItem(items[k])

LEMMA ItemLengthIsNat ==
    ASSUME NEW item, IsItem(item), NEW at \in Nat
    PROVE  ItemLength(item, at) \in Nat
<1>1. CASE item.op = "verbatim"
  <2>1. Len(item.bytes) \in Nat
    BY <1>1, LenProperties DEF IsItem
  <2>2. QED
    BY <1>1, <2>1 DEF ItemLength
<1>2. CASE item.op \in {"label", "local", "address", "distance", "to local"}
  <2>1. CASE item.op \in {"label", "local"}
    BY <2>1 DEF ItemLength
  <2>2. CASE item.op \in {"address", "distance"}
    <3>1. ItemLength(item, at) = item.width
      BY <2>2 DEF ItemLength
    <3>2. item.width \in {2, 4}
      BY <2>2 DEF IsItem
    <3>3. QED
      BY <3>1, <3>2
  <2>3. CASE item.op = "to local"
    BY <2>3 DEF ItemLength
  <2>4. QED
    BY <1>2, <2>1, <2>2, <2>3
<1>3. CASE item.op = "balign"
  <2>1. AlignedTo(at, 4) \in Int /\ AlignedTo(at, 4) >= at
    BY Aligned
  <2>2. ItemLength(item, at) = AlignedTo(at, 4) - at
    BY <1>3 DEF ItemLength, IsItem
  <2>3. QED
    BY <2>1, <2>2
<1>4. CASE item.op = "asciz"
  <2>1. Len(AscizText(item.text)) \in Nat
    BY <1>4, AscizTextIsBytes, LenProperties DEF IsItem
  <2>2. QED
    BY <1>4, <2>1 DEF ItemLength
<1>5. QED
  BY <1>1, <1>2, <1>3, <1>4 DEF IsItem

(* Every item has an address, and so has the end.                            *)
LEMMA AddressesAreNat ==
    ASSUME NEW items, IsAsm(items)
    PROVE  \A i \in 1 .. Len(items) + 1 : Addresses(items)[i] \in Nat
<1> DEFINE N == Len(items) + 1
           Behind(v, i) == v + ItemLength(items[i - 1], v)
           Equation(f) == f = [i \in 1 .. N |-> IF i = 1 THEN 0 ELSE Behind(f[i - 1], i)]
           step == [i \in 1 + 1 .. N |-> [v \in Nat |-> Behind(v, i)]]
<1>1. Len(items) \in Nat /\ DOMAIN items = 1 .. Len(items)
  BY Elements DEF IsAsm
<1>2. ASSUME NEW i \in 1 + 1 .. N, NEW v \in Nat
      PROVE  Behind(v, i) \in Nat
  <2>1. i - 1 \in DOMAIN items
    BY <1>1
  <2>2. ItemLength(items[i - 1], v) \in Nat
    BY <2>1, ItemLengthIsNat DEF IsAsm
  <2>3. QED
    BY <2>2
<1>3. N \in Nat /\ 1 \in Nat /\ 1 <= N /\ 0 \in Nat
  BY <1>1
<1> HIDE DEF N, Behind
<1>4. PICK f \in [1 .. N -> Nat] : Stepwise(f, 0, step, 1, N)
  <2>1. step \in [1 + 1 .. N -> [Nat -> Nat]]
    BY <1>2
  <2> HIDE DEF step
  <2>2. QED
    BY <1>3, <2>1, StepwiseExists, Zenon
<1>5. Equation(f)
  <2>1. \A i \in 1 .. N : f[i] = IF i = 1 THEN 0 ELSE step[i][f[i - 1]]
    BY <1>4 DEF Stepwise
  <2>2. ASSUME NEW i \in 1 .. N, i # 1
        PROVE  step[i][f[i - 1]] = Behind(f[i - 1], i)
    <3>1. i \in 1 + 1 .. N /\ i - 1 \in 1 .. N
      BY <1>3, <2>2
    <3>2. f[i - 1] \in Nat
      BY <1>4, <3>1
    <3>3. QED
      BY <3>1, <3>2
  <2> HIDE DEF step
  <2>3. QED
    BY <1>4, <2>1, <2>2
<1> DEFINE F == CHOOSE g : Equation(g)
<1>6. Addresses(items) = F
  BY DEF Addresses, N, Behind
<1> HIDE DEF Equation, step
<1>7. Equation(F)
  BY <1>5
<1> HIDE DEF F
<1>8. \A i \in 1 .. N : F[i] = IF i = 1 THEN 0 ELSE Behind(F[i - 1], i)
  BY <1>7 DEF Equation
<1>9. \A i \in 1 .. N : F[i] \in Nat
  <2>1. F[1] \in Nat
    BY <1>3, <1>8
  <2>2. ASSUME NEW i \in 1 + 1 .. N, F[i - 1] \in Nat
        PROVE  F[i] \in Nat
    <3>1. i \in 1 .. N /\ i # 1
      BY <1>3
    <3>2. F[i] = Behind(F[i - 1], i)
      BY <1>8, <3>1
    <3>3. QED
      BY <1>2, <2>2, <3>2
  <2>3. QED
    BY <1>3, <2>1, <2>2, Climbing
<1>10. QED
  BY <1>6, <1>9 DEF N

(* Assembled items are bytes. *)
LEMMA AssembledIsBytes ==
    ASSUME NEW items, IsAsm(items), Assembles(items)
    PROVE  Assembled(items) \in Seq(Byte)
<1> DEFINE places == Addresses(items)
           At(label) == places[CHOOSE i \in DOMAIN items : items[i] = Define(label)]
           Next1(i, j) == /\ items[j] = LocalLabel
                          /\ \A k \in i .. j - 1 : items[k] # LocalLabel
           NextLocal(i) == places[CHOOSE j \in i .. Len(items) : Next1(i, j)]
           Encoded(i) ==
               LET item == items[i]
               IN  CASE item.op = "verbatim" -> item.bytes
                     [] item.op \in {"label", "local"} -> << >>
                     [] item.op = "address"  -> Digits(At(item.label) + item.plus, item.width)
                     [] item.op = "distance" -> Digits(At(item.to) - At(item.from), item.width)
                     [] item.op = "to local" -> Word((NextLocal(i) - places[i]) * Base + item.rest)
                     [] item.op = "balign"   -> [k \in 1 .. ItemLength(item, places[i]) |-> item.fill]
                     [] item.op = "asciz"    -> Append(AscizText(item.text), 0)
<1>1. Len(items) \in Nat /\ DOMAIN items = 1 .. Len(items) /\ \A i \in 1 .. Len(items) : IsItem(items[i])
  BY Elements DEF IsAsm
<1>2. \A i \in 1 .. Len(items) : places[i] \in Nat
  BY <1>1, AddressesAreNat
<1>3. Assembled(items) = FlattenSeq([i \in DOMAIN items |-> Encoded(i)])
  BY DEF Assembled
<1> HIDE DEF places
<1>4. \A label \in Defined(items) : At(label) \in Nat
  <2>1. SUFFICES ASSUME NEW label \in Defined(items)
                 PROVE  At(label) \in Nat
    OBVIOUS
  <2>2. PICK i \in DOMAIN items : items[i].op = "label" /\ items[i].label = label
    BY DEF Defined
  <2>3. items[i] = Define(label)
    BY <1>1, <2>2 DEF IsItem
  <2>4. (CHOOSE k \in DOMAIN items : items[k] = Define(label)) \in DOMAIN items
    BY <2>3, Zenon
  <2>5. QED
    BY <1>1, <1>2, <2>4
<1>5. ASSUME NEW i \in 1 .. Len(items), items[i].op = "to local"
      PROVE  NextLocal(i) \in Nat
  <2> DEFINE T == {j \in i .. Len(items) : items[j] = LocalLabel}
  <2>1. T # {} /\ T \subseteq Nat
    <3>1. \A k \in DOMAIN items : items[k].op = "to local" => \E j \in k .. Len(items) : items[j] = LocalLabel
      BY DEF Assembles
    <3>2. T # {}
      BY <1>1, <1>5, <3>1
    <3>3. T \subseteq Nat
      BY <1>1
    <3>4. QED
      BY <3>2, <3>3
  <2>2. PICK j \in T : \A k \in T : j <= k
    <3> HIDE DEF T
    <3>1. QED
      BY <2>1, LeastNumber
  <2>3. j \in i .. Len(items) /\ Next1(i, j)
    <3>1. ASSUME NEW k \in i .. j - 1
          PROVE  items[k] # LocalLabel
      <4>1. k \in i .. Len(items) /\ ~(j <= k)
        BY <1>1, <2>2
      <4>2. QED
        BY <2>2, <4>1
    <3>2. QED
      BY <2>2, <3>1
  <2> HIDE DEF Next1
  <2>4. (CHOOSE k \in i .. Len(items) : Next1(i, k)) \in i .. Len(items)
    BY <2>3, Zenon
  <2>5. PICK k \in i .. Len(items) : NextLocal(i) = places[k]
    BY <2>4
  <2>6. k \in 1 .. Len(items)
    BY <1>1
  <2>7. QED
    BY <1>2, <2>5, <2>6
<1> HIDE DEF At, NextLocal
<1>6. ASSUME NEW i \in 1 .. Len(items)
      PROVE  Encoded(i) \in Seq(Byte)
  <2> DEFINE item == items[i]
  <2>1. IsItem(item)
    BY <1>1
  <2>2. CASE item.op = "verbatim"
    BY <2>1, <2>2 DEF IsItem
  <2>3. CASE item.op \in {"label", "local"}
    BY <2>3, EmptySeq
  <2>4. CASE item.op = "address"
    <3>1. item.label \in Defined(items)
      BY <1>1, <2>4 DEF Assembles, Used
    <3>2. PICK n \in Int : n = At(item.label) + item.plus
      BY <1>4, <2>1, <2>4, <3>1 DEF IsItem
    <3>3. Encoded(i) = Digits(n, item.width)
      BY <2>4, <3>2
    <3>4. QED
      BY <3>3, NumbersAreBytes
  <2>5. CASE item.op = "distance"
    <3>1. item.to \in Defined(items) /\ item.from \in Defined(items)
      <4>1. i \in {k \in DOMAIN items : items[k].op = "distance"}
        BY <1>1, <2>5
      <4>2. {item.from, item.to} \subseteq Used(items)
        BY <4>1, Zenon DEF Used
      <4>3. Used(items) \subseteq Defined(items)
        BY DEF Assembles
      <4>4. QED
        BY <4>2, <4>3
    <3>2. PICK n \in Int : n = At(item.to) - At(item.from)
      BY <1>4, <3>1
    <3>3. Encoded(i) = Digits(n, item.width)
      BY <2>5, <3>2
    <3>4. QED
      BY <3>3, NumbersAreBytes
  <2>6. CASE item.op = "to local"
    <3>1. item.rest \in Int /\ NextLocal(i) \in Nat /\ places[i] \in Nat
      BY <1>2, <1>5, <2>1, <2>6 DEF IsItem
    <3>2. PICK n \in Int : n = (NextLocal(i) - places[i]) * Base + item.rest
      BY <3>1, BaseIsPositive
    <3>3. Encoded(i) = Word(n)
      BY <2>6, <3>2
    <3>4. QED
      BY <3>3, NumbersAreBytes
  <2>7. CASE item.op = "balign"
    <3>1. PICK n \in Nat : n = ItemLength(item, places[i])
      BY <1>2, <2>1, ItemLengthIsNat
    <3>2. Encoded(i) = [k \in 1 .. n |-> item.fill] /\ item.fill \in Byte
      BY <2>1, <2>7, <3>1 DEF IsItem
    <3>3. Encoded(i) \in [1 .. n -> Byte] /\ [1 .. n -> Byte] \in {[1 .. m -> Byte] : m \in Nat}
      BY <3>2
    <3>4. QED
      BY <3>3, SeqDef, Zenon
  <2>8. CASE item.op = "asciz"
    <3>1. PICK text \in Seq(Byte) : text = AscizText(item.text)
      BY <2>1, <2>8, AscizTextIsBytes DEF IsItem
    <3>2. 0 \in Byte
      BY BaseIsPositive DEF Byte
    <3>3. Encoded(i) = Append(text, 0)
      BY <2>8, <3>1
    <3>4. Append(text, 0) \in Seq(Byte)
      BY <3>2, AppendProperties
    <3>5. QED
      BY <3>3, <3>4
  <2>9. QED
    BY <2>1, <2>2, <2>3, <2>4, <2>5, <2>6, <2>7, <2>8 DEF IsItem
<1> DEFINE ss == [i \in DOMAIN items |-> Encoded(i)]
           V == Seq(Byte)
<1> HIDE DEF Encoded
<1>7. ss \in [1 .. Len(items) -> V]
  BY <1>1, <1>6
<1> HIDE DEF ss, V
<1>8. ss \in Seq(Seq(Byte))
  <2>1. [1 .. Len(items) -> V] \in {[1 .. m -> V] : m \in Nat}
    BY <1>1
  <2>2. ss \in Seq(V)
    BY <1>7, <2>1, SeqDef, Zenon
  <2>3. QED
    BY <2>2 DEF V
<1>9. FlattenSeq(ss) \in Seq(Byte)
  BY <1>8, Flattened
<1>10. QED
  BY <1>3, <1>9 DEF ss

-----------------------------------------------------------------------------
(* A package as the loader keeps it: fields that are the bytes they were,    *)
(* and numbers.  Only labels can be anything.                                *)
IsFields(fields, table) ==
    /\ DOMAIN fields = DOMAIN table
    /\ \A f \in DOMAIN table : fields[f] \in Seq(Byte) /\ Len(fields[f]) = table[f][2]

IsObject(o) ==
    /\ DOMAIN o = {"offset", "type", "flags", "size", "ref_cnt", "class", "hash", "data", "refs",
                   "padding", "label"}
    /\ o.offset \in Nat /\ o.type \in 0 .. 3 /\ o.flags \in Int /\ o.size \in Int
    /\ o.ref_cnt \in Nat /\ o.class \in Nat
    /\ o.hash \in Seq(Byte) /\ o.data \in Seq(Byte) /\ o.refs \in Seq(Nat)
    /\ o.padding \in Nat

IsPart(part) ==
    /\ DOMAIN part = {"entry", "info", "start", "align", "data", "objects"}
    /\ IsFields(part.entry, EntryFields)
    /\ part.info \in Seq(Byte) /\ part.data \in Seq(Byte)
    /\ part.start \in Nat /\ part.align \in {4, 8}
    /\ IsSequence(part.objects)
    /\ \A k \in DOMAIN part.objects : IsObject(part.objects[k])

Relocations == [head : Seq(Byte), start : Nat, sets : Seq(Seq(Byte)), padding : Seq(Byte)]

IsPackage(package) ==
    /\ DOMAIN package = {"header", "copyright", "name", "info", "relocation", "parts"}
    /\ package.copyright \in Seq(Nat) /\ package.name \in Seq(Nat)
    /\ package.info \in Seq(Byte)
    /\ package.relocation \in Relocations
    /\ IsSequence(package.parts)
    /\ \A i \in DOMAIN package.parts : IsPart(package.parts[i])

-----------------------------------------------------------------------------
(* What the writer writes.                                                   *)
LEMMA AsmOf ==
    ASSUME NEW S, \A x \in S : IsItem(x), NEW s \in Seq(S)
    PROVE  IsAsm(s)
<1>1. IsSequence(s)
  BY SequenceOf
<1>2. \A k \in DOMAIN s : s[k] \in S
  BY LenProperties, ElementOfSeq
<1>3. QED
  BY <1>1, <1>2 DEF IsAsm

LEMMA AsmItems ==
    ASSUME NEW s, IsAsm(s)
    PROVE  \E S : s \in Seq(S) /\ \A x \in S : IsItem(x)
<1> DEFINE S == {s[k] : k \in DOMAIN s}
<1>1. s \in Seq(S) /\ \A x \in S : IsItem(x)
  BY DEF IsAsm, IsSequence
<1>2. QED
  BY <1>1

LEMMA JoinedAsm ==
    ASSUME NEW s, IsAsm(s), NEW t, IsAsm(t)
    PROVE  IsAsm(s \o t)
<1>1. PICK S : s \in Seq(S) /\ \A x \in S : IsItem(x)
  BY AsmItems
<1>2. PICK T : t \in Seq(T) /\ \A x \in T : IsItem(x)
  BY AsmItems
<1>3. s \in Seq(S \cup T) /\ t \in Seq(S \cup T)
  BY <1>1, <1>2, SeqMonotonic
<1>4. s \o t \in Seq(S \cup T)
  BY <1>3, ConcatProperties
<1>5. \A x \in S \cup T : IsItem(x)
  BY <1>1, <1>2
<1>6. QED
  BY <1>4, <1>5, AsmOf

LEMMA FlattenedAsm ==
    ASSUME NEW n \in Nat, NEW ss, ss = [i \in 1 .. n |-> ss[i]], \A i \in 1 .. n : IsAsm(ss[i])
    PROVE  IsAsm(FlattenSeq(ss))
<1> DEFINE S == UNION {{ss[i][k] : k \in DOMAIN ss[i]} : i \in 1 .. n}
           V == Seq(S)
<1>1. ASSUME NEW i \in 1 .. n
      PROVE  ss[i] \in V
  <2>1. IsAsm(ss[i])
    OBVIOUS
  <2>2. \A k \in DOMAIN ss[i] : ss[i][k] \in S
    OBVIOUS
  <2> HIDE DEF S
  <2>3. \A k \in 1 .. Len(ss[i]) : ss[i][k] \in S
    BY <2>1, <2>2, Elements DEF IsAsm
  <2>4. QED
    BY <2>1, <2>3, Elements DEF IsAsm
<1>2. \A x \in S : IsItem(x)
  BY DEF IsAsm
<1> HIDE DEF S, V
<1>3. ss \in [1 .. n -> V] /\ [1 .. n -> V] \in {[1 .. m -> V] : m \in Nat}
  BY <1>1
<1>4. ss \in Seq(V)
  BY <1>3, SeqDef, Zenon
<1>5. FlattenSeq(ss) \in Seq(S)
  BY <1>4, Flattened DEF V
<1>6. QED
  BY <1>2, <1>5, AsmOf

LEMMA Items ==
    /\ \A bytes \in Seq(Byte) : IsItem(Verbatim(bytes))
    /\ \A label : IsItem(Define(label))
    /\ \A label, plus, width : plus \in Int /\ width \in {2, 4} => IsItem(Address(label, plus, width))
    /\ \A from, to, width : width \in {2, 4} => IsItem(Distance(from, to, width))
    /\ \A fill \in Byte : IsItem(Balign(4, fill))
    /\ \A text \in Seq(Byte) : IsItem(Asciz(text))
    /\ \A rest \in Int : IsItem(ToLocal(rest))
    /\ IsItem(LocalLabel)
<1>1. \A bytes \in Seq(Byte) : IsItem(Verbatim(bytes))
  BY DEF IsItem, Verbatim
<1>2. \A label : IsItem(Define(label))
  BY DEF IsItem, Define
<1>3. \A label, plus, width : plus \in Int /\ width \in {2, 4} => IsItem(Address(label, plus, width))
  BY DEF IsItem, Address
<1>4. \A from, to, width : width \in {2, 4} => IsItem(Distance(from, to, width))
  BY DEF IsItem, Distance
<1>5. \A fill \in Byte : IsItem(Balign(4, fill))
  BY DEF IsItem, Balign
<1>6. \A text \in Seq(Byte) : IsItem(Asciz(text))
  BY DEF IsItem, Asciz
<1>7. \A rest \in Int : IsItem(ToLocal(rest))
  BY DEF IsItem, ToLocal
<1>8. IsItem(LocalLabel)
  BY DEF IsItem, LocalLabel
<1>9. QED
  BY <1>1, <1>2, <1>3, <1>4, <1>5, <1>6, <1>7, <1>8

LEMMA Fillers2 == Fill \in Byte /\ EndFill \in Byte /\ 0 \in Byte
<1>1. 0 \in Byte
  BY BaseIsPositive DEF Byte
<1>2. 191 % Base \in Byte /\ 255 % Base \in Byte
  BY Remainder
<1>3. QED
  BY <1>1, <1>2 DEF Fill, EndFill

LEMMA HeaderItems ==
    ASSUME NEW package, IsFields(package.header, HeaderFields)
    PROVE  IsAsm(HeaderAsm(package))
<1> DEFINE Field(f)  == Verbatim(package.header[f])
           data      == Mark("pkg_data", 0)
           Text(from, to) == <<Distance(data, from, 2), Distance(from, to, 2)>>
           first == <<Define(Mark("package_start", 0)), Field("signature"), Field("type"), Field("flags"),
                      Field("version")>>
           last == <<Distance(Mark("package_start", 0), Mark("package_end", 0), 4),
                     Field("date"), Field("reserved2"), Field("reserved3"),
                     Address(Mark("directory_size", 0), 0, 4), Field("num_parts")>>
           copyright == Text(Mark("pkg_copyright_start", 0), Mark("pkg_copyright_end", 0))
           name == Text(Mark("pkg_name_start", 0), Mark("pkg_name_end", 0))
<1>1. \A f \in {"signature", "type", "flags", "version", "date", "reserved2", "reserved3", "num_parts"} :
          IsItem(Field(f))
  <2>1. \A f \in DOMAIN HeaderFields : package.header[f] \in Seq(Byte)
    BY DEF IsFields
  <2>2. {"signature", "type", "flags", "version", "date", "reserved2", "reserved3", "num_parts"}
            \subseteq DOMAIN HeaderFields
    BY DEF HeaderFields
  <2> HIDE DEF Field
  <2>3. QED
    BY <2>1, <2>2, Items DEF Field
<1>2. \A label : IsItem(Define(label)) /\ IsItem(Address(label, 0, 4))
  BY Items
<1>3. \A from, to, width : width \in {2, 4} => IsItem(Distance(from, to, width))
  BY Items
<1> HIDE DEF Field, data
<1>4. IsAsm(first)
  <2> DEFINE S == {Define(Mark("package_start", 0)), Field("signature"), Field("type"), Field("flags"),
                   Field("version")}
  <2>1. first \in Seq(S)
    OBVIOUS
  <2>2. \A x \in S : IsItem(x)
    BY <1>1, <1>2
  <2> HIDE DEF first, S
  <2>3. QED
    BY <2>1, <2>2, AsmOf
<1>5. IsAsm(last)
  <2> DEFINE S == {Distance(Mark("package_start", 0), Mark("package_end", 0), 4),
                   Field("date"), Field("reserved2"), Field("reserved3"),
                   Address(Mark("directory_size", 0), 0, 4), Field("num_parts")}
  <2>1. last \in Seq(S)
    OBVIOUS
  <2>2. \A x \in S : IsItem(x)
    BY <1>1, <1>2, <1>3
  <2> HIDE DEF last, S
  <2>3. QED
    BY <2>1, <2>2, AsmOf
<1>6. \A from, to : IsAsm(Text(from, to))
  <2> SUFFICES ASSUME NEW from, NEW to
               PROVE  IsAsm(Text(from, to))
    OBVIOUS
  <2> DEFINE S == {Distance(data, from, 2), Distance(from, to, 2)}
  <2>1. Text(from, to) \in Seq(S)
    OBVIOUS
  <2>2. \A x \in S : IsItem(x)
    BY <1>3
  <2> HIDE DEF Text, S
  <2>3. QED
    BY <2>1, <2>2, AsmOf
<1>7. IsAsm(copyright) /\ IsAsm(name)
  BY <1>6
<1>8. HeaderAsm(package) = ((first \o copyright) \o name) \o last
  BY DEF HeaderAsm, Field, data
<1> HIDE DEF first, last, copyright, name
<1>9. IsAsm(first \o copyright)
  BY <1>4, <1>7, JoinedAsm
<1>10. IsAsm((first \o copyright) \o name)
  BY <1>7, <1>9, JoinedAsm
<1>11. QED
  BY <1>5, <1>8, <1>10, JoinedAsm

LEMMA EntryItems ==
    ASSUME NEW i, NEW entry, IsFields(entry, EntryFields)
    PROVE  IsAsm(EntryAsm(i, entry))
<1> DEFINE S == {EntryAsm(i, entry)[k] : k \in 1 .. 9}
<1>1. /\ entry.offset \in Seq(Byte) /\ entry.type \in Seq(Byte) /\ entry.reserved \in Seq(Byte)
      /\ entry.flags \in Seq(Byte) /\ entry.compressor \in Seq(Byte)
  <2>1. \A f \in DOMAIN EntryFields : entry[f] \in Seq(Byte)
    BY DEF IsFields
  <2>2. {"offset", "type", "reserved", "flags", "compressor"} \subseteq DOMAIN EntryFields
    BY DEF EntryFields
  <2>3. QED
    BY <2>1, <2>2
<1>2. EntryAsm(i, entry) \in Seq(S)
  BY DEF EntryAsm
<1>3. \A x \in S : IsItem(x)
  <2>1. \A k \in 1 .. 9 : IsItem(EntryAsm(i, entry)[k])
    <3>1. /\ IsItem(Verbatim(entry.offset)) /\ IsItem(Verbatim(entry.type))
          /\ IsItem(Verbatim(entry.reserved)) /\ IsItem(Verbatim(entry.flags))
          /\ IsItem(Verbatim(entry.compressor))
      BY <1>1, Items
    <3>2. /\ IsItem(Distance(Part(i), PartEnd(i), 4)) /\ IsItem(Address(InfoStart(i), 0, 2))
          /\ IsItem(Distance(InfoStart(i), InfoEnd(i), 2))
      BY Items
    <3>3. \A k \in 1 .. 9 : k \in {1, 2, 3, 4, 5, 6, 7, 8, 9}
      OBVIOUS
    <3>4. QED
      BY <3>1, <3>2, <3>3 DEF EntryAsm
  <2>2. QED
    BY <2>1
<1> HIDE DEF S
<1>4. QED
  BY <1>2, <1>3, AsmOf

(* Tuples of one, two and three items. *)
LEMMA FewItems ==
    /\ IsAsm(<< >>)
    /\ \A x : IsItem(x) => IsAsm(<<x>>)
    /\ \A x, y : IsItem(x) /\ IsItem(y) => IsAsm(<<x, y>>)
    /\ \A x, y, z : IsItem(x) /\ IsItem(y) /\ IsItem(z) => IsAsm(<<x, y, z>>)
<1>1. IsAsm(<< >>)
  BY DEF IsAsm, IsSequence
<1>2. ASSUME NEW x, IsItem(x)
      PROVE  IsAsm(<<x>>)
  <2>1. <<x>> \in Seq({x})
    OBVIOUS
  <2>2. \A w \in {x} : IsItem(w)
    BY <1>2
  <2>3. QED
    BY <2>1, <2>2, AsmOf
<1>3. ASSUME NEW x, NEW y, IsItem(x), IsItem(y)
      PROVE  IsAsm(<<x, y>>)
  <2>1. <<x, y>> \in Seq({x, y})
    OBVIOUS
  <2>2. \A w \in {x, y} : IsItem(w)
    BY <1>3
  <2>3. QED
    BY <2>1, <2>2, AsmOf
<1>4. ASSUME NEW x, NEW y, NEW z, IsItem(x), IsItem(y), IsItem(z)
      PROVE  IsAsm(<<x, y, z>>)
  <2>1. <<x, y, z>> \in Seq({x, y, z})
    OBVIOUS
  <2>2. \A w \in {x, y, z} : IsItem(w)
    BY <1>4
  <2>3. QED
    BY <2>1, <2>2, AsmOf
<1>5. QED
  BY <1>1, <1>2, <1>3, <1>4

LEMMA Unicode ==
    ASSUME NEW text \in Seq(Nat)
    PROVE  IsItem(TextAsm(text))
<1> DEFINE ss == [i \in DOMAIN text |-> Short(text[i])]
           V == Seq(Byte)
<1>1. \A i \in DOMAIN text : Short(text[i]) \in V
  BY NumbersAreBytes, LenProperties, ElementOfSeq
<1>2. PICK n \in Nat : DOMAIN text = 1 .. n
  BY LenProperties
<1> HIDE DEF V
<1>3. ss \in [1 .. n -> V] /\ [1 .. n -> V] \in {[1 .. m -> V] : m \in Nat}
  BY <1>1, <1>2
<1> HIDE DEF ss
<1>4. ss \in Seq(V)
  <2>1. Seq(V) = UNION {[1 .. m -> V] : m \in Nat}
    BY SeqDef, Zenon
  <2>2. QED
    BY <1>3, <2>1, Zenon
<1>5. FlattenSeq(ss) \in Seq(Byte)
  <2>1. ss \in Seq(Seq(Byte))
    BY <1>4, Zenon DEF V
  <2>2. QED
    BY <2>1, Flattened, Zenon
<1>6. Short(0) \in Seq(Byte)
  BY NumbersAreBytes
<1>7. FlattenSeq(ss) \o Short(0) \in Seq(Byte)
  BY <1>5, <1>6, ConcatProperties
<1>8. TextAsm(text) = Verbatim(FlattenSeq(ss) \o Short(0))
  BY DEF TextAsm, ss
<1>9. QED
  BY <1>7, <1>8, Items

LEMMA TextsItems ==
    ASSUME NEW package, IsPackage(package)
    PROVE  IsAsm(TextsAsm(package))
<1> DEFINE Part1(field, text) == IF HasText(package, field) THEN <<TextAsm(text)>> ELSE << >>
           a == <<Define(Mark("pkg_data", 0)), Define(Mark("pkg_copyright_start", 0))>>
           b == Part1("copyright_length", package.copyright)
           c == <<Define(Mark("pkg_copyright_end", 0)), Define(Mark("pkg_name_start", 0))>>
           d == Part1("name_length", package.name)
           e == <<Define(Mark("pkg_name_end", 0))>>
<1>1. \A label : IsItem(Define(label))
  BY Items
<1>2. IsAsm(a) /\ IsAsm(c) /\ IsAsm(e)
  BY <1>1, FewItems
<1>3. IsAsm(b) /\ IsAsm(d)
  <2>1. IsItem(TextAsm(package.copyright)) /\ IsItem(TextAsm(package.name))
    BY Unicode DEF IsPackage
  <2>2. IsAsm(<<TextAsm(package.copyright)>>) /\ IsAsm(<<TextAsm(package.name)>>) /\ IsAsm(<< >>)
    BY <2>1, FewItems
  <2>3. QED
    BY <2>2
<1>4. TextsAsm(package) = (((a \o b) \o c) \o d) \o e
  BY DEF TextsAsm
<1> HIDE DEF a, b, c, d, e
<1>5. IsAsm(a \o b)
  BY <1>2, <1>3, JoinedAsm
<1>6. IsAsm((a \o b) \o c)
  BY <1>2, <1>5, JoinedAsm
<1>7. IsAsm(((a \o b) \o c) \o d)
  BY <1>3, <1>6, JoinedAsm
<1>8. QED
  BY <1>2, <1>4, <1>7, JoinedAsm

LEMMA InfoItems ==
    ASSUME NEW i, NEW info \in Seq(Byte)
    PROVE  IsAsm(InfoAsm(i, info))
<1>1. IsItem(Define(InfoStart(i))) /\ IsItem(Verbatim(info)) /\ IsItem(Define(InfoEnd(i)))
  BY Items
<1>2. QED
  BY <1>1, FewItems DEF InfoAsm

LEMMA PackageInfoItems ==
    ASSUME NEW package, IsPackage(package)
    PROVE  IsAsm(PackageInfoAsm(package))
<1>1. /\ IsItem(Verbatim(package.info)) /\ IsItem(Balign(4, EndFill))
      /\ IsItem(Define(Mark("directory_size", 0)))
  BY Items, Fillers2 DEF IsPackage
<1>2. QED
  BY <1>1, FewItems DEF PackageInfoAsm

LEMMA RelocationItems ==
    ASSUME NEW package, IsPackage(package)
    PROVE  IsAsm(RelocationAsm(package))
<1>1. /\ package.relocation.head \in Seq(Byte) /\ package.relocation.sets \in Seq(Seq(Byte))
      /\ package.relocation.padding \in Seq(Byte)
  BY DEF IsPackage, Relocations
<1>2. FlattenSeq(package.relocation.sets) \in Seq(Byte)
  BY <1>1, Flattened
<1>3. /\ IsItem(Verbatim(package.relocation.head)) /\ IsItem(Verbatim(package.relocation.padding))
      /\ IsItem(Verbatim(FlattenSeq(package.relocation.sets)))
  BY <1>1, <1>2, Items
<1>4. QED
  BY <1>3, FewItems DEF RelocationAsm

LEMMA RefItem ==
    ASSUME NEW part, NEW ref \in Nat
    PROVE  IsItem(AsmRef(part, ref))
<1>1. \A label : IsItem(Address(label, 1, 4))
  BY Items
<1>2. IsItem(Verbatim(Word(ref)))
  BY NumbersAreBytes, Items
<1>3. QED
  BY <1>1, <1>2 DEF AsmRef

LEMMA Kinds ==
    ASSUME NEW o, o.type \in 0 .. 3
    PROVE  Kind(o) = "symbol" \/ Kind(o) = "binary" \/ Kind(o) \in Slotted
<1>1. CASE o.type \in {0, 2}
  BY <1>1 DEF Kind
<1>2. CASE o.type = 1
  BY <1>2 DEF Kind, Slotted
<1>3. CASE o.type = 3
  BY <1>3 DEF Kind, Slotted
<1>4. QED
  BY <1>1, <1>2, <1>3

LEMMA ObjectItems ==
    ASSUME NEW part, NEW o, IsObject(o)
    PROVE  IsAsm(ObjectAsm(part, o))
<1> DEFINE head == <<Define(o.label), HeadAsm(o), Verbatim(Word(o.ref_cnt))>>
           rest == CASE Kind(o) = "symbol" -> SymbolAsm(o)
                     [] Kind(o) = "binary" -> BinaryAsm(part, o)
                     [] Kind(o) \in Slotted -> SlottedAsm(part, o)
<1>0. ObjectAsm(part, o) = head \o rest
  BY DEF ObjectAsm
<1>1. IsAsm(head)
  <2>1. o.flags + o.type \in Int
    BY DEF IsObject
  <2>2. IsItem(HeadAsm(o))
    BY <2>1, Items DEF HeadAsm
  <2>3. IsItem(Verbatim(Word(o.ref_cnt)))
    BY NumbersAreBytes, Items DEF IsObject
  <2>4. IsItem(Define(o.label))
    BY Items
  <2>5. QED
    BY <2>2, <2>3, <2>4, FewItems
<1>2. IsItem(AsmRef(part, o.class))
  BY RefItem DEF IsObject
<1>3. CASE Kind(o) = "symbol"
  <2>1. IsItem(Verbatim(Word(o.class)))
    BY NumbersAreBytes, Items DEF IsObject
  <2>2. IsItem(Verbatim(o.hash)) /\ IsItem(Asciz(o.data))
    BY Items DEF IsObject
  <2>3. IsAsm(SymbolAsm(o))
    BY <2>1, <2>2, FewItems DEF SymbolAsm
  <2>4. rest = SymbolAsm(o)
    BY <1>3 DEF Slotted
  <2> HIDE DEF head, rest
  <2>5. QED
    BY <1>0, <1>1, <2>3, <2>4, JoinedAsm
<1>4. CASE Kind(o) = "binary"
  <2>1. IsItem(Verbatim(o.data))
    BY Items DEF IsObject
  <2>2. IsAsm(BinaryAsm(part, o))
    BY <1>2, <2>1, FewItems DEF BinaryAsm
  <2>3. rest = BinaryAsm(part, o)
    BY <1>4 DEF Slotted
  <2> HIDE DEF head, rest
  <2>4. QED
    BY <1>0, <1>1, <2>2, <2>3, JoinedAsm
<1>5. CASE Kind(o) \in Slotted
  <2> DEFINE slots == [i \in DOMAIN o.refs |-> AsmRef(part, o.refs[i])]
  <2>1. o.refs \in Seq(Nat) /\ Len(o.refs) \in Nat /\ DOMAIN o.refs = 1 .. Len(o.refs)
    BY LenProperties DEF IsObject
  <2>2. \A i \in 1 .. Len(o.refs) : IsItem(AsmRef(part, o.refs[i]))
    BY <2>1, RefItem, ElementOfSeq
  <2>3. IsAsm(slots)
    <3> DEFINE S == {AsmRef(part, o.refs[i]) : i \in 1 .. Len(o.refs)}
    <3>1. slots \in [1 .. Len(o.refs) -> S] /\ [1 .. Len(o.refs) -> S] \in {[1 .. m -> S] : m \in Nat}
      BY <2>1
    <3>2. \A x \in S : IsItem(x)
      BY <2>2
    <3> HIDE DEF S, slots
    <3>3. slots \in Seq(S)
      BY <3>1, SeqDef, Zenon
    <3>4. QED
      BY <3>2, <3>3, AsmOf
  <2>4. IsAsm(<<AsmRef(part, o.class)>>)
    BY <1>2, FewItems
  <2>5. SlottedAsm(part, o) = <<AsmRef(part, o.class)>> \o slots
    BY DEF SlottedAsm
  <2> HIDE DEF slots
  <2>6. IsAsm(SlottedAsm(part, o))
    BY <2>3, <2>4, <2>5, JoinedAsm
  <2>7. rest = SlottedAsm(part, o)
    BY <1>5 DEF Slotted
  <2> HIDE DEF head, rest
  <2>8. QED
    BY <1>0, <1>1, <2>6, <2>7, JoinedAsm
<1>6. QED
  BY <1>3, <1>4, <1>5, Kinds DEF IsObject

LEMMA FillItem ==
    ASSUME NEW part, NEW o, IsObject(o)
    PROVE  IsItem(FillAsm(part, o))
<1>1. PICK n \in Nat : n = o.padding
  BY DEF IsObject
<1>2. [k \in 1 .. n |-> Fill] \in [1 .. n -> Byte] /\ [1 .. n -> Byte] \in {[1 .. m -> Byte] : m \in Nat}
  BY Fillers2
<1>3. [k \in 1 .. n |-> Fill] \in Seq(Byte)
  <2>1. Seq(Byte) = UNION {[1 .. m -> Byte] : m \in Nat}
    BY SeqDef, Zenon
  <2>2. QED
    BY <1>2, <2>1, Zenon
<1>4. IsItem(Verbatim([k \in 1 .. n |-> Fill])) /\ IsItem(Balign(4, Fill))
  BY <1>3, Items, Fillers2
<1>5. QED
  BY <1>1, <1>4 DEF FillAsm

LEMMA PartItems ==
    ASSUME NEW i, NEW part, IsPart(part)
    PROVE  IsAsm(PartAsm(i, part))
<1> DEFINE content == IF IsNOS(part) THEN NOSPartAsm(part) ELSE GenericPartAsm(part)
           first == <<Define(Part(i))>>
           last == <<Balign(4, 0), Define(PartEnd(i))>>
<1>1. IsAsm(first) /\ IsAsm(last)
  <2>1. IsItem(Define(Part(i))) /\ IsItem(Balign(4, 0)) /\ IsItem(Define(PartEnd(i)))
    BY Items, Fillers2
  <2>2. QED
    BY <2>1, FewItems
<1>2. IsAsm(NOSPartAsm(part))
  <2> DEFINE One(k) == ObjectAsm(part, part.objects[k]) \o <<LocalLabel, FillAsm(part, part.objects[k])>>
             ss == [k \in DOMAIN part.objects |-> One(k)]
  <2>1. PICK n \in Nat : DOMAIN part.objects = 1 .. n
    BY Elements DEF IsPart
  <2>2. ASSUME NEW k \in 1 .. n
        PROVE  IsAsm(One(k))
    <3>1. IsObject(part.objects[k])
      BY <2>1 DEF IsPart
    <3>2. IsAsm(ObjectAsm(part, part.objects[k]))
      BY <3>1, ObjectItems
    <3>3. IsItem(LocalLabel) /\ IsItem(FillAsm(part, part.objects[k]))
      BY <3>1, FillItem, Items
    <3>4. IsAsm(<<LocalLabel, FillAsm(part, part.objects[k])>>)
      BY <3>3, FewItems
    <3>5. QED
      BY <3>2, <3>4, JoinedAsm
  <2>3. NOSPartAsm(part) = FlattenSeq(ss)
    BY DEF NOSPartAsm
  <2> HIDE DEF One
  <2>4. ss = [k \in 1 .. n |-> ss[k]] /\ \A k \in 1 .. n : IsAsm(ss[k])
    BY <2>1, <2>2
  <2> HIDE DEF ss
  <2>5. IsAsm(FlattenSeq(ss))
    BY <2>4, FlattenedAsm
  <2>6. QED
    BY <2>3, <2>5
<1>3. IsAsm(GenericPartAsm(part))
  <2>1. IsItem(Verbatim(part.data))
    BY Items DEF IsPart
  <2>2. QED
    BY <2>1, FewItems DEF GenericPartAsm
<1>4. IsAsm(content)
  BY <1>2, <1>3
<1>5. PartAsm(i, part) = (first \o content) \o last
  BY DEF PartAsm
<1> HIDE DEF first, content, last
<1>6. IsAsm(first \o content)
  BY <1>1, <1>4, JoinedAsm
<1>7. QED
  BY <1>1, <1>5, <1>6, JoinedAsm

LEMMA AsIntIsInt ==
    ASSUME NEW n \in Int
    PROVE  /\ WordValues \in Nat
           /\ AsInt(n) \in Int /\ AsInt(n) <= n
           /\ Rounds(n) \in Nat
<1>1. Base \in Nat
  BY BaseIsPositive
<1>2. PICK b \in Nat : b = Base * Base
  BY <1>1
<1>3. PICK c \in Nat : c = b * Base
  BY <1>1, <1>2
<1>4. WordValues \in Nat
  <2>1. WordValues = c * Base
    BY <1>2, <1>3, Zenon DEF WordValues
  <2>2. QED
    BY <1>1, <1>3, <2>1
<1>5. PICK w \in Nat : w = WordValues
  BY <1>4
<1>6. AsInt(n) = IF 2 * n < w THEN n ELSE n - w
  BY <1>5 DEF AsInt
<1>7. AsInt(n) \in Int /\ AsInt(n) <= n
  BY <1>6
<1>8. QED
  BY <1>4, <1>7 DEF Rounds

LEMMA FieldIsNumber ==
    ASSUME NEW fields, NEW table, IsFields(fields, table), NEW f \in DOMAIN table, table[f][2] \in {2, 4}
    PROVE  Number(fields[f]) \in Nat
<1>1. fields[f] \in Seq(Byte) /\ Len(fields[f]) \in {2, 4}
  BY DEF IsFields
<1>2. QED
  BY <1>1, NumberIsNat

LEMMA HeaderNumbers ==
    ASSUME NEW package, IsFields(package.header, HeaderFields)
    PROVE  /\ \A f \in {"copyright_length", "name_length", "num_parts", "directory_size", "flags"} :
                  Number(package.header[f]) \in Nat
           /\ NumParts(package) \in Nat
<1> DEFINE F == {"copyright_length", "name_length", "num_parts", "directory_size", "flags"}
<1>1. \A f \in F : f \in DOMAIN HeaderFields /\ HeaderFields[f][2] \in {2, 4}
  BY DEF HeaderFields
<1>2. \A f \in F : Number(package.header[f]) \in Nat
  BY <1>1, FieldIsNumber
<1>3. package.header.num_parts = package.header["num_parts"]
  OBVIOUS
<1>4. QED
  BY <1>2, <1>3, AsIntIsInt DEF NumParts

LEMMA EntryNumbers ==
    ASSUME NEW part, IsPart(part)
    PROVE  Number(part.entry.info_length) \in Nat /\ SizeOf(part) \in Int /\ Number(part.entry.flags) \in Nat
<1> DEFINE F == {"info_length", "size", "flags"}
<1>1. \A f \in F : f \in DOMAIN EntryFields /\ EntryFields[f][2] \in {2, 4}
  BY DEF EntryFields
<1>2. \A f \in F : Number(part.entry[f]) \in Nat
  BY <1>1, FieldIsNumber DEF IsPart
<1>3. QED
  BY <1>2, AsIntIsInt DEF SizeOf

LEMMA SumOfParts ==
    ASSUME NEW n \in Nat, NEW numbers \in [1 .. n -> Int]
    PROVE  Added(numbers) \in Int
<1>1. numbers \in Seq(Int)
  OBVIOUS
<1>2. QED
  BY <1>1, SumIsInt

(* The size of the relocation data, if it is there.                          *)
LEMMA RelocationSizeIsInt ==
    ASSUME NEW package, IsPackage(package), Len(package.relocation.head) = 20
    PROVE  /\ Number(Slice(package.relocation.head, 4, 4)) \in Nat
           /\ RelocationSize(package) \in Int
<1>1. PICK head \in Seq(Byte) : head = package.relocation.head /\ Len(head) = 20
  BY DEF IsPackage, Relocations
<1>2. 4 + 4 <= Len(head) /\ 4 \in Nat /\ 4 \in {2, 4}
  <2>1. Len(head) = 20
    BY <1>1, Zenon
  <2>2. QED
    BY <2>1
<1>3. Number(Slice(head, 4, 4)) \in Nat
  BY <1>2, NumberInSlice, Zenon
<1>4. QED
  BY <1>1, <1>3, AsIntIsInt DEF RelocationSize

(* A package, its header included, with whole relocation data.               *)
IsWhole(package) ==
    /\ IsPackage(package)
    /\ IsFields(package.header, HeaderFields)
    /\ HasRelocation(package) => Len(package.relocation.head) = 20

LEMMA WrittenIsInt ==
    ASSUME NEW package, IsWhole(package)
    PROVE  Written(package) \in Int
<1>1. PICK n \in Nat : DOMAIN package.parts = 1 .. n /\ n = Len(package.parts)
  BY Elements DEF IsWhole, IsPackage
<1>2. Added([i \in DOMAIN package.parts |-> Len(package.parts[i].info)]) \in Int
  <2>1. \A i \in 1 .. n : Len(package.parts[i].info) \in Nat
    BY <1>1, LenProperties DEF IsWhole, IsPackage, IsPart
  <2>2. [i \in DOMAIN package.parts |-> Len(package.parts[i].info)] \in [1 .. n -> Int]
    BY <1>1, <2>1
  <2>3. QED
    BY <2>2, SumOfParts
<1>3. Added([i \in DOMAIN package.parts |-> SizeOf(package.parts[i])]) \in Int
  <2>1. \A i \in 1 .. n : SizeOf(package.parts[i]) \in Int
    BY <1>1, EntryNumbers DEF IsWhole, IsPackage
  <2>2. [i \in DOMAIN package.parts |-> SizeOf(package.parts[i])] \in [1 .. n -> Int]
    BY <1>1, <2>1
  <2>3. QED
    BY <2>2, SumOfParts
<1>4. Len(package.info) \in Nat /\ Len(package.copyright) \in Nat /\ Len(package.name) \in Nat
  BY LenProperties DEF IsWhole, IsPackage
<1>5. WrittenWithoutRelocation(package) \in Int
  <2>1. PICK infos \in Int : infos = Added([i \in DOMAIN package.parts |-> Len(package.parts[i].info)])
    BY <1>2
  <2>2. PICK sizes \in Int : sizes = Added([i \in DOMAIN package.parts |-> SizeOf(package.parts[i])])
    BY <1>3
  <2>3. WrittenWithoutRelocation(package) =
            52 + 32 * n
              + (IF HasText(package, "copyright_length") THEN 2 * (Len(package.copyright) + 1) ELSE 0)
              + (IF HasText(package, "name_length") THEN 2 * (Len(package.name) + 1) ELSE 0)
              + infos + Len(package.info) + sizes
    <3>1. HeaderSize = 52 /\ EntrySize = 32
      BY DEF HeaderSize, EntrySize
    <3>2. QED
      BY <1>1, <2>1, <2>2, <3>1, Zenon DEF WrittenWithoutRelocation
  <2>4. PICK a \in Nat :
            a = IF HasText(package, "copyright_length") THEN 2 * (Len(package.copyright) + 1) ELSE 0
    BY <1>4
  <2>5. PICK b \in Nat : b = IF HasText(package, "name_length") THEN 2 * (Len(package.name) + 1) ELSE 0
    BY <1>4
  <2>6. PICK c \in Nat : c = Len(package.info)
    BY <1>4
  <2>7. WrittenWithoutRelocation(package) = 52 + 32 * n + a + b + infos + c + sizes
    BY <2>3, <2>4, <2>5, <2>6, Zenon
  <2>8. 52 + 32 * n + a + b + infos + c + sizes \in Int
    OBVIOUS
  <2>9. QED
    BY <2>7, <2>8, Zenon
<1>6. HasRelocation(package) => RelocationSize(package) \in Int
  BY RelocationSizeIsInt DEF IsWhole
<1>7. QED
  BY <1>5, <1>6 DEF Written

LEMMA RestItems ==
    ASSUME NEW package, IsWhole(package), ~(Written(package) < 0), NEW bytes \in Seq(Byte)
    PROVE  IsAsm(RestAsm(package, bytes))
<1>1. PICK w \in Nat : w = Written(package)
  BY WrittenIsInt
<1>2. CASE w < Len(bytes)
  <2>1. SubSeq(bytes, w + 1, Len(bytes)) \in Seq(Byte)
    <3>1. Len(bytes) \in Nat
      BY LenProperties
    <3>2. QED
      BY <1>2, <3>1, SubSeqProperties
  <2>2. IsAsm(<<Verbatim(SubSeq(bytes, w + 1, Len(bytes)))>>)
    BY <2>1, Items, FewItems
  <2>3. QED
    BY <1>1, <1>2, <2>2 DEF RestAsm
<1>3. CASE ~(w < Len(bytes))
  BY <1>1, <1>3, FewItems DEF RestAsm
<1>4. QED
  BY <1>2, <1>3

(* What is written for a package can be read as items of the assembler.      *)
LEMMA AssemblerFileIsAsm ==
    ASSUME NEW package, IsWhole(package), ~(Written(package) < 0), NEW bytes \in Seq(Byte)
    PROVE  IsAsm(AssemblerFile(package, bytes))
<1> DEFINE parts == package.parts
           entries == FlattenSeq([i \in DOMAIN parts |-> EntryAsm(i, parts[i].entry)])
           infos == FlattenSeq([i \in DOMAIN parts |-> InfoAsm(i, parts[i].info)])
           contents == FlattenSeq([i \in DOMAIN parts |-> PartAsm(i, parts[i])])
           end == <<Define(Mark("package_end", 0))>>
           h == HeaderAsm(package)
           t == TextsAsm(package)
           p == PackageInfoAsm(package)
           r == RelocationAsm(package)
           e == RestAsm(package, bytes)
<1>1. IsPackage(package) /\ IsFields(package.header, HeaderFields)
  BY DEF IsWhole
<1>2. PICK n \in Nat : DOMAIN parts = 1 .. n
  BY <1>1, Elements DEF IsPackage
<1>3. \A i \in 1 .. n : IsPart(parts[i]) /\ IsFields(parts[i].entry, EntryFields) /\ parts[i].info \in Seq(Byte)
  BY <1>1, <1>2 DEF IsPackage, IsPart
<1>4. IsAsm(entries)
  <2> DEFINE ss == [i \in DOMAIN parts |-> EntryAsm(i, parts[i].entry)]
  <2>1. \A i \in 1 .. n : IsAsm(EntryAsm(i, parts[i].entry))
    BY <1>3, EntryItems
  <2>2. ss = [i \in 1 .. n |-> ss[i]] /\ \A i \in 1 .. n : IsAsm(ss[i])
    BY <1>2, <2>1
  <2> HIDE DEF ss
  <2>3. IsAsm(FlattenSeq(ss))
    BY <2>2, FlattenedAsm
  <2>4. QED
    BY <2>3 DEF ss
<1>5. IsAsm(infos)
  <2> DEFINE ss == [i \in DOMAIN parts |-> InfoAsm(i, parts[i].info)]
  <2>1. \A i \in 1 .. n : IsAsm(InfoAsm(i, parts[i].info))
    BY <1>3, InfoItems
  <2>2. ss = [i \in 1 .. n |-> ss[i]] /\ \A i \in 1 .. n : IsAsm(ss[i])
    BY <1>2, <2>1
  <2> HIDE DEF ss
  <2>3. IsAsm(FlattenSeq(ss))
    BY <2>2, FlattenedAsm
  <2>4. QED
    BY <2>3 DEF ss
<1>6. IsAsm(contents)
  <2> DEFINE ss == [i \in DOMAIN parts |-> PartAsm(i, parts[i])]
  <2>1. \A i \in 1 .. n : IsAsm(PartAsm(i, parts[i]))
    BY <1>3, PartItems
  <2>2. ss = [i \in 1 .. n |-> ss[i]] /\ \A i \in 1 .. n : IsAsm(ss[i])
    BY <1>2, <2>1
  <2> HIDE DEF ss
  <2>3. IsAsm(FlattenSeq(ss))
    BY <2>2, FlattenedAsm
  <2>4. QED
    BY <2>3 DEF ss
<1>7. IsAsm(end)
  BY Items, FewItems
<1>8. IsAsm(h) /\ IsAsm(t) /\ IsAsm(p) /\ IsAsm(r) /\ IsAsm(e)
  BY <1>1, HeaderItems, TextsItems, PackageInfoItems, RelocationItems, RestItems
<1>9. AssemblerFile(package, bytes) =
          (((((((h \o entries) \o t) \o infos) \o p) \o r) \o contents) \o end) \o e
  BY DEF AssemblerFile
<1> HIDE DEF parts, entries, infos, contents, end, h, t, p, r, e
<1>10. IsAsm((h \o entries) \o t)
  BY <1>4, <1>8, JoinedAsm
<1>11. IsAsm((((h \o entries) \o t) \o infos) \o p)
  BY <1>5, <1>8, <1>10, JoinedAsm
<1>12. IsAsm(((((h \o entries) \o t) \o infos) \o p) \o r)
  BY <1>8, <1>11, JoinedAsm
<1>13. IsAsm((((((h \o entries) \o t) \o infos) \o p) \o r) \o contents)
  BY <1>6, <1>12, JoinedAsm
<1>14. IsAsm(((((((h \o entries) \o t) \o infos) \o p) \o r) \o contents) \o end)
  BY <1>7, <1>13, JoinedAsm
<1>15. QED
  BY <1>8, <1>9, <1>14, JoinedAsm

LEMMA InsertedItem ==
    ASSUME NEW items, IsAsm(items), NEW j \in DOMAIN items, NEW item, IsItem(item)
    PROVE  IsAsm(InsertAt(items, j, item))
<1>1. PICK S : items \in Seq(S) /\ \A x \in S : IsItem(x)
  BY AsmItems
<1>2. PICK n \in Nat : n = Len(items) /\ j \in 1 .. n
  BY <1>1, LenProperties
<1>3. SubSeq(items, 1, j - 1) \in Seq(S) /\ SubSeq(items, j, n) \in Seq(S)
  BY <1>1, <1>2, SubSeqProperties
<1>4. IsAsm(SubSeq(items, 1, j - 1)) /\ IsAsm(SubSeq(items, j, n)) /\ IsAsm(<<item>>)
  BY <1>1, <1>3, AsmOf, FewItems
<1>5. InsertAt(items, j, item) = (SubSeq(items, 1, j - 1) \o <<item>>) \o SubSeq(items, j, n)
  BY <1>2 DEF InsertAt
<1>6. IsAsm(SubSeq(items, 1, j - 1) \o <<item>>)
  BY <1>4, JoinedAsm
<1>7. QED
  BY <1>4, <1>5, <1>6, JoinedAsm

LEMMA AdditionIsItem == \A o : IsItem(Addition(o))
<1>1. IsItem(Verbatim(<<7>>))
  <2>1. 7 \in Byte
    BY BaseIsPositive DEF Byte
  <2>2. <<7>> \in Seq(Byte)
    BY <2>1
  <2>3. QED
    BY <2>2, Items
<1>2. IsItem(Verbatim(Word(2)))
  BY NumbersAreBytes, Items
<1>3. QED
  BY <1>1, <1>2 DEF Addition

-----------------------------------------------------------------------------
(* What holds while a package is loaded: how far the loader is, and that the *)
(* parts are those that the header announces.                                *)
Phases == {"header", "entry", "info", "relocation", "set", "part", "object"}

Progress ==
    /\ phase \in Phases
    /\ status \in {"loading"} \cup Done
    /\ status = "loaded" => phase = "part"
    /\ phase = "header" => pkg = NoPackage /\ index = 1
    /\ phase # "header" => IsFields(pkg.header, HeaderFields)
    /\ phase = "entry" => index = Len(pkg.parts) + 1 /\ Len(pkg.parts) <= NumParts(pkg)
    /\ phase \notin {"header", "entry"} => Len(pkg.parts) = NumParts(pkg)
    /\ phase = "object" => index <= Len(pkg.parts)
    /\ phase \in {"set", "part", "object"} /\ (phase = "set" \/ HasRelocation(pkg)) =>
          Len(pkg.relocation.head) = 20

ReaderInv ==
    /\ file \in Seq(Byte)
    /\ pos \in 0 .. Len(file)
    /\ index \in 1 .. pos + 1
    /\ IsPackage(pkg)
    /\ EntrySize * Len(pkg.parts) <= pos
    /\ Progress

(* Objects are one behind the other, so that offsets are no two objects';    *)
(* and the labels made of names are those that addLabel has not met yet.     *)
IsLabelOf(label, i, o) ==
    \/ label = NoLabel
    \/ label = Label("sym", i, label.text)
    \/ label = ObjectLabel(i, o.offset)

OffsetsGrow(objects) ==
    \A k \in DOMAIN objects : \A j \in 1 .. k - 1 : objects[j].offset < objects[k].offset

ObjectsBefore(objects, at) == \A k \in DOMAIN objects : objects[k].offset < at

LabelsDiffer(i, objects) ==
    /\ \A k \in DOMAIN objects : IsLabelOf(objects[k].label, i, objects[k])
    /\ \A k \in DOMAIN objects : \A j \in 1 .. k - 1 :
          objects[j].label.kind = "sym" /\ objects[k].label.kind = "sym" =>
              objects[j].label.text # objects[k].label.text

Labelling(i, objects, at) ==
    OffsetsGrow(objects) /\ ObjectsBefore(objects, at) /\ LabelsDiffer(i, objects)

LabelInv == \A i \in DOMAIN pkg.parts : Labelling(i, pkg.parts[i].objects, pos)

Stages == {"first", "written", "not assembled", "undefined", "second", "compared"}

MainInv ==
    /\ built \in Packages
    /\ IsAsm(asm)
    /\ result \in -1 .. 1
    /\ stage \in Stages

Inv == ReaderInv /\ LabelInv /\ MainInv

-----------------------------------------------------------------------------
(* How a package changes while it is loaded. *)
LEMMA PartsOf ==
    ASSUME NEW p, IsPackage(p)
    PROVE  /\ IsSequence(p.parts) /\ Len(p.parts) \in Nat /\ DOMAIN p.parts = 1 .. Len(p.parts)
           /\ \A i \in 1 .. Len(p.parts) : IsPart(p.parts[i])
  BY Elements DEF IsPackage

LEMMA PartAdded ==
    ASSUME NEW p, IsPackage(p), NEW x, IsPart(x), NEW q, q = [p EXCEPT !.parts = Append(p.parts, x)]
    PROVE  /\ IsPackage(q) /\ q.header = p.header /\ q.relocation = p.relocation
           /\ Len(q.parts) = Len(p.parts) + 1 /\ DOMAIN q.parts = 1 .. Len(p.parts) + 1
           /\ \A k \in 1 .. Len(p.parts) : q.parts[k] = p.parts[k]
           /\ q.parts[Len(p.parts) + 1] = x
<1>1. IsSequence(p.parts)
  BY PartsOf
<1>2. PICK parts : parts = Append(p.parts, x)
  OBVIOUS
<1>3. /\ IsSequence(parts) /\ Len(parts) = Len(p.parts) + 1
      /\ \A k \in 1 .. Len(p.parts) : parts[k] = p.parts[k]
      /\ parts[Len(p.parts) + 1] = x
  BY <1>1, <1>2, Appended
<1>4. DOMAIN parts = 1 .. Len(p.parts) + 1
  BY <1>3, Elements
<1>5. /\ q.parts = parts /\ q.header = p.header /\ q.relocation = p.relocation /\ q.info = p.info
      /\ q.copyright = p.copyright /\ q.name = p.name /\ DOMAIN q = DOMAIN p
  BY <1>2 DEF IsPackage
<1>6. \A k \in DOMAIN parts : IsPart(parts[k])
  <2>1. ASSUME NEW k \in 1 .. Len(p.parts) + 1
        PROVE  IsPart(parts[k])
    <3>1. Len(p.parts) \in Nat /\ \A i \in 1 .. Len(p.parts) : IsPart(p.parts[i])
      BY PartsOf
    <3>2. k \in 1 .. Len(p.parts) \/ k = Len(p.parts) + 1
      BY <3>1
    <3>3. QED
      BY <1>3, <3>1, <3>2
  <2>2. QED
    BY <1>4, <2>1
<1>7. IsPackage(q)
  BY <1>3, <1>5, <1>6 DEF IsPackage
<1>8. QED
  BY <1>3, <1>4, <1>5, <1>7

WithPart(p, i, x) == [p EXCEPT !.parts = Put(p.parts, i, x)]

LEMMA PartChanged ==
    ASSUME NEW p, IsPackage(p), NEW i \in DOMAIN p.parts, NEW x, IsPart(x),
           NEW q, q = WithPart(p, i, x)
    PROVE  /\ IsPackage(q) /\ q.header = p.header /\ q.relocation = p.relocation
           /\ Len(q.parts) = Len(p.parts) /\ DOMAIN q.parts = 1 .. Len(p.parts)
           /\ \A k \in 1 .. Len(p.parts) : q.parts[k] = IF k = i THEN x ELSE p.parts[k]
<1>1. IsSequence(p.parts) /\ Len(p.parts) \in Nat /\ i \in 1 .. Len(p.parts)
  BY PartsOf
<1>2. PICK parts : parts = Put(p.parts, i, x)
  OBVIOUS
<1>3. /\ IsSequence(parts) /\ Len(parts) = Len(p.parts) /\ DOMAIN parts = 1 .. Len(p.parts)
      /\ \A k \in 1 .. Len(p.parts) : parts[k] = IF k = i THEN x ELSE p.parts[k]
  <2>1. PICK s : s = p.parts
    OBVIOUS
  <2>2. IsSequence(s) /\ i \in 1 .. Len(s) /\ parts = Put(s, i, x)
    BY <1>1, <1>2, <2>1
  <2>3. /\ IsSequence(parts) /\ Len(parts) = Len(s) /\ DOMAIN parts = 1 .. Len(s)
        /\ \A k \in 1 .. Len(s) : parts[k] = IF k = i THEN x ELSE s[k]
    BY <2>2, Replaced
  <2>4. QED
    BY <2>1, <2>3
<1>4. /\ q.parts = parts /\ q.header = p.header /\ q.relocation = p.relocation /\ q.info = p.info
      /\ q.copyright = p.copyright /\ q.name = p.name /\ DOMAIN q = DOMAIN p
  <2>1. q = [p EXCEPT !.parts = parts]
    BY <1>2, Zenon DEF WithPart
  <2>2. QED
    BY <2>1 DEF IsPackage
<1>5. \A k \in DOMAIN parts : IsPart(parts[k])
  BY <1>3, PartsOf
<1>6. IsPackage(q)
  BY <1>3, <1>4, <1>5 DEF IsPackage
<1>7. QED
  BY <1>3, <1>4, <1>6

(* When no objects are read, labels are as they were. *)
LEMMA LabelsStay ==
    ASSUME ReaderInv, LabelInv, pos' \in Int, pos' >= pos,
           DOMAIN pkg'.parts = DOMAIN pkg.parts,
           \A k \in DOMAIN pkg.parts : pkg'.parts[k].objects = pkg.parts[k].objects
    PROVE  LabelInv'
<1>1. ASSUME NEW i \in DOMAIN pkg'.parts
      PROVE  Labelling(i, pkg'.parts[i].objects, pos')
  <2>1. Labelling(i, pkg.parts[i].objects, pos) /\ pkg'.parts[i].objects = pkg.parts[i].objects
    BY <1>1 DEF LabelInv
  <2>2. PICK objects : objects = pkg.parts[i].objects
    OBVIOUS
  <2>3. \A k \in DOMAIN objects : objects[k].offset \in Nat
    BY <1>1, <2>2 DEF ReaderInv, IsPackage, IsPart, IsObject
  <2>4. pos \in Int
    BY DEF ReaderInv
  <2>5. ObjectsBefore(objects, pos')
    BY <2>1, <2>2, <2>3, <2>4 DEF Labelling, ObjectsBefore
  <2>6. QED
    BY <2>1, <2>2, <2>5 DEF Labelling
<1>2. QED
  BY <1>1 DEF LabelInv

LEMMA Reading ==
    ASSUME ReaderInv
    PROVE  /\ Len(file) \in Nat /\ pos \in Nat /\ pos <= Len(file) /\ index \in Nat /\ index >= 1
           /\ index <= pos + 1
           /\ IsPackage(pkg) /\ Len(pkg.parts) \in Nat /\ Len(pkg.parts) <= pos
           /\ DOMAIN pkg.parts = 1 .. Len(pkg.parts)
           /\ \A i \in 1 .. Len(pkg.parts) : IsPart(pkg.parts[i])
           /\ phase # "header" => NumParts(pkg) \in Nat
<1>1. Len(file) \in Nat
  BY LenProperties DEF ReaderInv
<1>2. IsPackage(pkg)
  BY DEF ReaderInv
<1>3. /\ Len(pkg.parts) \in Nat /\ DOMAIN pkg.parts = 1 .. Len(pkg.parts)
      /\ \A i \in 1 .. Len(pkg.parts) : IsPart(pkg.parts[i])
  BY <1>2, PartsOf
<1>4. phase # "header" => NumParts(pkg) \in Nat
  BY HeaderNumbers DEF ReaderInv, Progress
<1>5. pos \in 0 .. Len(file) /\ index \in 1 .. pos + 1 /\ 32 * Len(pkg.parts) <= pos
  BY DEF ReaderInv, EntrySize
<1>6. QED
  BY <1>1, <1>2, <1>3, <1>4, <1>5

LEMMA StopStep ==
    ASSUME ReaderInv, LabelInv, NEW how \in Done, how = "loaded" => phase = "part", Stop(how)
    PROVE  ReaderInv' /\ LabelInv'
<1>1. ReaderInv'
  BY DEF ReaderInv, Progress, Stop, NumParts, HasRelocation
<1>2. LabelInv'
  BY DEF LabelInv, Stop
<1>3. QED
  BY <1>1, <1>2

LEMMA HeaderStep ==
    ASSUME ReaderInv, LabelInv, LoadHeader
    PROVE  ReaderInv' /\ LabelInv'
<1>1. /\ phase = "header" /\ status = "loading" /\ pkg = NoPackage /\ pos + 52 <= Len(file)
      /\ pkg' = [pkg EXCEPT !.header = Fields(file, 0, HeaderFields)]
      /\ pos' = 52 /\ phase' = "entry" /\ index' = 1 /\ file' = file /\ status' = status
  BY DEF LoadHeader, Loading, Has, HeaderSize, Go, ReaderInv, Progress
<1>2. Len(file) \in Nat /\ 52 <= Len(file) /\ file \in Seq(Byte)
  BY <1>1, Reading DEF ReaderInv
<1>3. PICK fields : fields = Fields(file, 0, HeaderFields)
  OBVIOUS
<1>4. IsFields(fields, HeaderFields)
  <2>1. \A f \in DOMAIN HeaderFields :
            /\ HeaderFields[f][1] \in Nat /\ HeaderFields[f][2] \in Nat
            /\ HeaderFields[f][1] + HeaderFields[f][2] <= 52
    BY DEF HeaderFields
  <2>2. ASSUME NEW f \in DOMAIN HeaderFields
        PROVE  fields[f] \in Seq(Byte) /\ Len(fields[f]) = HeaderFields[f][2]
    <3>1. PICK a \in Nat, n \in Nat : a = HeaderFields[f][1] /\ n = HeaderFields[f][2] /\ a + n <= 52
      BY <2>1
    <3>2. fields[f] = Slice(file, a, n)
      BY <1>3, <3>1 DEF Fields
    <3>3. a + n <= Len(file)
      BY <1>2, <3>1
    <3>4. Slice(file, a, n) \in Seq(Byte) /\ Len(Slice(file, a, n)) = n
      BY <1>2, <3>3, SliceOfBytes
    <3>5. QED
      BY <3>1, <3>2, <3>4
  <2>3. DOMAIN fields = DOMAIN HeaderFields
    BY <1>3 DEF Fields
  <2>4. QED
    BY <2>2, <2>3 DEF IsFields
<1>5. /\ pkg'.header = fields /\ pkg'.parts = << >> /\ pkg'.relocation = NoRelocation
      /\ IsPackage(pkg')
  <2>1. pkg' = [NoPackage EXCEPT !.header = fields]
    BY <1>1, <1>3
  <2>2. IsPackage(NoPackage)
    BY <1>1 DEF ReaderInv
  <2>3. QED
    BY <2>1, <2>2 DEF NoPackage, IsPackage
<1>6. Len(pkg'.parts) = 0 /\ DOMAIN pkg'.parts = {}
  BY <1>5
<1>7. NumParts(pkg') \in Nat
  BY <1>4, <1>5, HeaderNumbers
<1>8. Progress'
  BY <1>1, <1>4, <1>5, <1>6, <1>7 DEF Progress, Phases, Done
<1>9. ReaderInv'
  BY <1>1, <1>2, <1>5, <1>6, <1>8 DEF ReaderInv, EntrySize
<1>10. LabelInv'
  BY <1>6 DEF LabelInv
<1>11. QED
  BY <1>9, <1>10

LEMMA EntryStep ==
    ASSUME ReaderInv, LabelInv, LoadEntry
    PROVE  ReaderInv' /\ LabelInv'
<1>1. /\ phase = "entry" /\ status = "loading" /\ index <= NumParts(pkg) /\ pos + 32 <= Len(file)
      /\ index = Len(pkg.parts) + 1 /\ IsFields(pkg.header, HeaderFields)
      /\ pkg' = [pkg EXCEPT !.parts = Append(pkg.parts, NewPart(Fields(file, pos, EntryFields)))]
      /\ pos' = pos + 32 /\ phase' = "entry" /\ index' = index + 1 /\ file' = file /\ status' = status
  BY DEF LoadEntry, Loading, Has, EntrySize, Go, ReaderInv, Progress
<1>2. PICK fields : fields = Fields(file, pos, EntryFields)
  OBVIOUS
<1>3. IsFields(fields, EntryFields)
  <2>1. \A f \in DOMAIN EntryFields :
            /\ EntryFields[f][1] \in Nat /\ EntryFields[f][2] \in Nat
            /\ EntryFields[f][1] + EntryFields[f][2] <= 32
    BY DEF EntryFields
  <2>2. ASSUME NEW f \in DOMAIN EntryFields
        PROVE  fields[f] \in Seq(Byte) /\ Len(fields[f]) = EntryFields[f][2]
    <3>1. PICK a \in Nat, n \in Nat : a = EntryFields[f][1] /\ n = EntryFields[f][2] /\ a + n <= 32
      BY <2>1
    <3>2. PICK at \in Nat : at = pos + a /\ at + n <= Len(file)
      <4>1. pos \in Nat /\ Len(file) \in Nat
        BY Reading
      <4>2. pos + 32 <= Len(file) /\ a \in Nat /\ n \in Nat /\ a + n <= 32
        BY <1>1, <3>1
      <4>3. pos + a \in Nat /\ pos + a + n <= Len(file)
        BY <4>1, <4>2
      <4>4. QED
        BY <4>3
    <3>3. fields[f] = Slice(file, at, n)
      BY <1>2, <3>1, <3>2 DEF Fields
    <3>4. file \in Seq(Byte)
      BY DEF ReaderInv
    <3>5. QED
      BY <3>1, <3>2, <3>3, <3>4, SliceOfBytes
  <2>3. DOMAIN fields = DOMAIN EntryFields
    BY <1>2 DEF Fields
  <2>4. QED
    BY <2>2, <2>3 DEF IsFields
<1>4. PICK x : x = NewPart(fields)
  OBVIOUS
<1>5. IsPart(x) /\ x.objects = << >>
  <2>1. 0 \in Nat /\ 8 \in {4, 8} /\ << >> \in Seq(Byte) /\ IsSequence(<< >>)
    BY DEF IsSequence
  <2>2. QED
    BY <1>3, <1>4, <2>1 DEF IsPart, NewPart
<1>6. pkg' = [pkg EXCEPT !.parts = Append(pkg.parts, x)] /\ IsPackage(pkg)
  BY <1>1, <1>2, <1>4 DEF ReaderInv
<1>7. /\ IsPackage(pkg') /\ pkg'.header = pkg.header /\ pkg'.relocation = pkg.relocation
      /\ Len(pkg'.parts) = Len(pkg.parts) + 1 /\ DOMAIN pkg'.parts = 1 .. Len(pkg.parts) + 1
      /\ \A k \in 1 .. Len(pkg.parts) : pkg'.parts[k] = pkg.parts[k]
      /\ pkg'.parts[Len(pkg.parts) + 1] = x
  BY <1>5, <1>6, PartAdded
<1>8. NumParts(pkg') = NumParts(pkg)
  BY <1>7 DEF NumParts
<1>9. Progress'
  <2>1. Len(pkg.parts) \in Nat /\ NumParts(pkg) \in Nat
    BY <1>1, Reading
  <2>2. QED
    BY <1>1, <1>7, <1>8, <2>1 DEF Progress, Phases, Done
<1>10. ReaderInv'
  <2>1. Len(file) \in Nat /\ pos \in Nat /\ index \in Nat /\ index <= pos + 1 /\ Len(pkg.parts) \in Nat
        /\ 32 * Len(pkg.parts) <= pos /\ file \in Seq(Byte) /\ index >= 1
    BY Reading DEF ReaderInv, EntrySize
  <2>2. pos' \in 0 .. Len(file') /\ index' \in 1 .. pos' + 1 /\ 32 * Len(pkg'.parts) <= pos'
    BY <1>1, <1>7, <2>1
  <2>3. QED
    BY <1>1, <1>7, <1>9, <2>1, <2>2 DEF ReaderInv, EntrySize
<1>11. LabelInv'
  <2>1. SUFFICES ASSUME NEW i \in DOMAIN pkg'.parts
                 PROVE  Labelling(i, pkg'.parts[i].objects, pos')
    BY DEF LabelInv
  <2>2. CASE i = Len(pkg.parts) + 1
    BY <1>5, <1>7, <2>2 DEF Labelling, OffsetsGrow, ObjectsBefore, LabelsDiffer
  <2>3. CASE i \in 1 .. Len(pkg.parts)
    <3>1. PICK objects : objects = pkg.parts[i].objects
      OBVIOUS
    <3>2. Labelling(i, objects, pos) /\ pkg'.parts[i].objects = objects
      BY <1>7, <2>3, <3>1, Reading DEF LabelInv
    <3>3. \A k \in DOMAIN objects : objects[k].offset \in Nat
      BY <2>3, <3>1, Reading DEF IsPart, IsObject
    <3>4. pos \in Nat
      BY Reading
    <3>5. ObjectsBefore(objects, pos')
      BY <1>1, <3>2, <3>3, <3>4 DEF Labelling, ObjectsBefore
    <3>6. QED
      BY <3>2, <3>5 DEF Labelling
  <2>4. QED
    BY <1>7, <2>2, <2>3, Reading
<1>12. QED
  BY <1>10, <1>11

(* How many bytes a text takes. *)
TextRoom(length) == IF length = 0 THEN 0 ELSE IF length < 4 THEN 2 ELSE 2 * (length \div 2)

LEMMA TextIsWords ==
    ASSUME ReaderInv, NEW at \in Nat, NEW length \in Nat, at + TextRoom(length) <= Len(file)
    PROVE  TextAt(at, length) \in Seq(Nat)
<1>1. PICK n \in Int : n = IF length = 0 THEN 0 ELSE length \div 2 - 1
  OBVIOUS
<1>2. file \in Seq(Byte) /\ Len(file) \in Nat
  BY Reading DEF ReaderInv
<1>3. ASSUME NEW i \in 1 .. n
      PROVE  Number(Slice(file, at + 2 * i - 2, 2)) \in Nat
  <2>1. length >= 4 /\ 2 * n + 2 <= TextRoom(length)
    BY <1>1 DEF TextRoom
  <2>2. PICK from \in Nat : from = at + 2 * i - 2
    OBVIOUS
  <2>3. from + 2 <= Len(file)
    <3>1. TextRoom(length) \in Int
      BY DEF TextRoom
    <3>2. QED
      BY <1>2, <2>1, <2>2, <3>1
  <2>4. Number(Slice(file, from, 2)) \in Nat
    BY <1>2, <2>3, NumberInSlice
  <2>5. QED
    BY <2>2, <2>4
<1>4. PICK m \in Nat : 1 .. n = 1 .. m
  <2>1. CASE n < 0
    <3>1. 1 .. n = 1 .. 0
      BY <2>1
    <3>2. QED
      BY <3>1
  <2>2. CASE n >= 0
    BY <2>2
  <2>3. QED
    BY <2>1, <2>2
<1> DEFINE text == [i \in 1 .. n |-> Number(Slice(file, at + 2 * i - 2, 2))]
<1>5. TextAt(at, length) = text
  BY <1>1 DEF TextAt
<1>6. text \in [1 .. m -> Nat] /\ [1 .. m -> Nat] \in {[1 .. k -> Nat] : k \in Nat}
  BY <1>3, <1>4
<1> HIDE DEF text
<1>7. Seq(Nat) = UNION {[1 .. k -> Nat] : k \in Nat}
  BY SeqDef, Zenon
<1>8. QED
  BY <1>5, <1>6, <1>7, Zenon

LEMMA TextsStep ==
    ASSUME ReaderInv, LabelInv, LoadTexts
    PROVE  ReaderInv' /\ LabelInv'
<1>1. PICK c \in Nat, n \in Nat :
          c = Number(pkg.header["copyright_length"]) /\ n = Number(pkg.header["name_length"])
  <2>1. IsFields(pkg.header, HeaderFields)
    BY DEF LoadTexts, Loading, ReaderInv, Progress
  <2>2. QED
    BY <2>1, HeaderNumbers
<1>2. PICK a \in Nat, b \in Nat :
          a = TextRoom(c) /\ b = TextRoom(n)
          /\ TextBytes("copyright_length") = a /\ TextBytes("name_length") = b
  BY <1>1 DEF TextBytes, TextRoom
<1>3. PICK copyright, name : copyright = TextAt(pos, c) /\ name = TextAt(pos + a, n)
  OBVIOUS
<1>4. /\ phase = "entry" /\ status = "loading" /\ index > NumParts(pkg)
      /\ pos + (a + b) <= Len(file)
      /\ index = Len(pkg.parts) + 1 /\ Len(pkg.parts) <= NumParts(pkg) /\ IsFields(pkg.header, HeaderFields)
      /\ pos' = pos + a + b /\ phase' = "info" /\ index' = 1 /\ file' = file /\ status' = status
  BY <1>2 DEF LoadTexts, Loading, Has, Go, ReaderInv, Progress
<1>5. pkg' = [pkg EXCEPT !.copyright = copyright, !.name = name]
  BY <1>1, <1>2, <1>3 DEF LoadTexts
<1>6. copyright \in Seq(Nat) /\ name \in Seq(Nat)
  <2>1. pos \in Nat /\ pos + a \in Nat /\ Len(file) \in Nat
    BY Reading
  <2>2. pos + a <= Len(file) /\ (pos + a) + b <= Len(file)
    BY <1>4, <2>1
  <2>3. TextAt(pos, c) \in Seq(Nat)
    BY <1>2, <2>1, <2>2, TextIsWords
  <2>4. TextAt(pos + a, n) \in Seq(Nat)
    BY <1>2, <2>1, <2>2, TextIsWords
  <2>5. QED
    BY <1>3, <2>3, <2>4
<1>7. /\ IsPackage(pkg') /\ pkg'.header = pkg.header /\ pkg'.relocation = pkg.relocation
      /\ pkg'.parts = pkg.parts
  <2>1. IsPackage(pkg)
    BY DEF ReaderInv
  <2>2. QED
    BY <1>5, <1>6, <2>1 DEF IsPackage
<1>8. NumParts(pkg') = NumParts(pkg)
  BY <1>7 DEF NumParts
<1>9. Progress'
  <2>1. Len(pkg.parts) \in Nat /\ NumParts(pkg) \in Nat
    BY <1>4, Reading
  <2>2. QED
    BY <1>4, <1>7, <1>8, <2>1 DEF Progress, Phases, Done
<1>10. ReaderInv'
  <2>1. Len(file) \in Nat /\ pos \in Nat /\ Len(pkg.parts) \in Nat
        /\ 32 * Len(pkg.parts) <= pos /\ file \in Seq(Byte)
    BY Reading DEF ReaderInv, EntrySize
  <2>2. pos' \in 0 .. Len(file') /\ index' \in 1 .. pos' + 1 /\ 32 * Len(pkg'.parts) <= pos'
    BY <1>4, <1>7, <2>1
  <2>3. QED
    BY <1>4, <1>7, <1>9, <2>1, <2>2 DEF ReaderInv, EntrySize
<1>11. LabelInv'
  <2>1. pos' \in Int /\ pos' >= pos
    BY <1>4, Reading
  <2>2. QED
    BY <1>7, <2>1, LabelsStay
<1>12. QED
  BY <1>10, <1>11

LEMMA Advance ==
    ASSUME ReaderInv, LabelInv, Progress', IsPackage(pkg'), file' = file,
           pos' \in Int, pos <= pos', pos' <= Len(file), index' \in Int, 1 <= index', index' <= pos' + 1,
           Len(pkg'.parts) = Len(pkg.parts),
           \A k \in 1 .. Len(pkg.parts) : pkg'.parts[k].objects = pkg.parts[k].objects
    PROVE  ReaderInv' /\ LabelInv'
<1>1. Len(file) \in Nat /\ pos \in Nat /\ Len(pkg.parts) \in Nat
      /\ 32 * Len(pkg.parts) <= pos /\ file \in Seq(Byte)
  BY Reading DEF ReaderInv, EntrySize
<1>2. pos' \in 0 .. Len(file') /\ index' \in 1 .. pos' + 1 /\ 32 * Len(pkg'.parts) <= pos'
  <2>1. pos' \in 0 .. Len(file')
    BY <1>1
  <2>2. index' \in 1 .. pos' + 1
    <3>1. \A a, b, c \in Int : a <= b /\ b <= c => b \in a .. c
      OBVIOUS
    <3>2. 1 \in Int /\ pos' + 1 \in Int
      OBVIOUS
    <3>3. QED
      BY <3>1, <3>2, Zenon
  <2>3. 32 * Len(pkg'.parts) <= pos'
    <3>1. Len(pkg'.parts) = Len(pkg.parts)
      OBVIOUS
    <3>2. 32 * Len(pkg.parts) <= pos'
      BY <1>1
    <3>3. QED
      BY <3>1, <3>2, Zenon
  <2>4. QED
    BY <2>1, <2>2, <2>3
<1>3. ReaderInv'
  BY <1>1, <1>2 DEF ReaderInv, EntrySize
<1>4. DOMAIN pkg'.parts = DOMAIN pkg.parts /\ DOMAIN pkg.parts = 1 .. Len(pkg.parts)
  BY PartsOf DEF ReaderInv
<1>5. LabelInv'
  BY <1>1, <1>4, LabelsStay
<1>6. QED
  BY <1>3, <1>5

LEMMA InfoStep ==
    ASSUME ReaderInv, LabelInv, LoadInfo
    PROVE  ReaderInv' /\ LabelInv'
<1>1. /\ phase = "info" /\ status = "loading" /\ index <= NumParts(pkg)
      /\ Len(pkg.parts) = NumParts(pkg) /\ IsFields(pkg.header, HeaderFields)
      /\ Has(InfoLength)
      /\ pos' = pos + InfoLength /\ phase' = "info" /\ index' = index + 1 /\ file' = file /\ status' = status
      /\ pkg' = [pkg EXCEPT !.parts[index].info = Slice(file, pos, InfoLength)]
  BY DEF LoadInfo, Loading, Go, ReaderInv, Progress
<1>2. index \in 1 .. Len(pkg.parts) /\ index \in DOMAIN pkg.parts /\ IsPart(pkg.parts[index])
  BY <1>1, Reading
<1>3. PICK n \in Nat : n = InfoLength /\ pos + n <= Len(file)
  BY <1>1, <1>2, EntryNumbers DEF InfoLength, Current, Has
<1>4. PICK info \in Seq(Byte) : info = Slice(file, pos, n)
  BY <1>3, Reading, SliceOfBytes DEF ReaderInv
<1>5. PICK x : x = [pkg.parts[index] EXCEPT !.info = info]
  OBVIOUS
<1>6. IsPart(x) /\ x.objects = pkg.parts[index].objects
  BY <1>2, <1>4, <1>5 DEF IsPart
<1>7. pkg' = WithPart(pkg, index, x)
  BY <1>1, <1>3, <1>4, <1>5 DEF Put, WithPart
<1>8. IsPackage(pkg)
  BY DEF ReaderInv
<1>9. /\ IsPackage(pkg') /\ pkg'.header = pkg.header /\ pkg'.relocation = pkg.relocation
      /\ Len(pkg'.parts) = Len(pkg.parts)
      /\ \A k \in 1 .. Len(pkg.parts) : pkg'.parts[k] = IF k = index THEN x ELSE pkg.parts[k]
  BY <1>2, <1>6, <1>7, <1>8, PartChanged
<1>10. NumParts(pkg') = NumParts(pkg)
  BY <1>9 DEF NumParts
<1>11. Progress'
  BY <1>1, <1>9, <1>10 DEF Progress, Phases, Done
<1>12. \A k \in 1 .. Len(pkg.parts) : pkg'.parts[k].objects = pkg.parts[k].objects
  BY <1>6, <1>9
<1>13. pos' \in Int /\ pos <= pos' /\ pos' <= Len(file) /\ index' \in Int /\ 1 <= index' /\ index' <= pos' + 1
  BY <1>1, <1>2, <1>3, Reading
<1>14. QED
  BY <1>1, <1>9, <1>11, <1>12, <1>13, Advance

LEMMA PackageInfoStep ==
    ASSUME ReaderInv, LabelInv, LoadPackageInfo
    PROVE  ReaderInv' /\ LabelInv'
<1>1. /\ phase = "info" /\ status = "loading"
      /\ Len(pkg.parts) = NumParts(pkg) /\ IsFields(pkg.header, HeaderFields)
      /\ Has(PackageInfoLength)
      /\ pos' = pos + PackageInfoLength /\ index' = 1 /\ file' = file /\ status' = status
      /\ phase' = IF HasRelocation(pkg) THEN "relocation" ELSE "part"
      /\ pkg' = [pkg EXCEPT !.info = Slice(file, pos, PackageInfoLength)]
  BY DEF LoadPackageInfo, Loading, Go, ReaderInv, Progress
<1>2. PICK n \in Nat : n = PackageInfoLength /\ pos + n <= Len(file)
  <2>1. PackageInfoLength \in Int
    BY <1>1, HeaderNumbers, Reading DEF PackageInfoLength
  <2>2. QED
    BY <1>1, <2>1 DEF Has
<1>3. PICK info \in Seq(Byte) : info = Slice(file, pos, n)
  BY <1>2, Reading, SliceOfBytes DEF ReaderInv
<1>4. /\ IsPackage(pkg') /\ pkg'.header = pkg.header /\ pkg'.relocation = pkg.relocation
      /\ pkg'.parts = pkg.parts
  <2>1. IsPackage(pkg) /\ pkg' = [pkg EXCEPT !.info = info]
    BY <1>1, <1>2, <1>3 DEF ReaderInv
  <2>2. QED
    BY <2>1 DEF IsPackage
<1>5. NumParts(pkg') = NumParts(pkg) /\ HasRelocation(pkg') = HasRelocation(pkg)
  BY <1>4 DEF NumParts, HasRelocation
<1>6. Progress'
  BY <1>1, <1>4, <1>5 DEF Progress, Phases, Done
<1>7. pos' \in Int /\ pos <= pos' /\ pos' <= Len(file) /\ index' \in Int /\ 1 <= index' /\ index' <= pos' + 1
  BY <1>1, <1>2, Reading
<1>8. QED
  BY <1>1, <1>4, <1>6, <1>7, Advance

LEMMA RelocationHeadStep ==
    ASSUME ReaderInv, LabelInv, LoadRelocationHead
    PROVE  ReaderInv' /\ LabelInv'
<1>1. /\ phase = "relocation" /\ status = "loading"
      /\ Len(pkg.parts) = NumParts(pkg) /\ IsFields(pkg.header, HeaderFields)
      /\ pos + 20 <= Len(file)
      /\ pos' = pos + 20 /\ index' = 1 /\ file' = file /\ status' = status /\ phase' = "set"
      /\ pkg' = [pkg EXCEPT !.relocation =
                    [pkg.relocation EXCEPT !.head = Slice(file, pos, 20), !.start = pos]]
  BY DEF LoadRelocationHead, Loading, Has, Go, ReaderInv, Progress
<1>2. PICK head \in Seq(Byte) : head = Slice(file, pos, 20) /\ Len(head) = 20
  <2>1. file \in Seq(Byte) /\ pos \in Nat /\ 20 \in Nat
    BY Reading DEF ReaderInv
  <2>2. Slice(file, pos, 20) \in Seq(Byte) /\ Len(Slice(file, pos, 20)) = 20
    BY <1>1, <2>1, SliceOfBytes, Zenon
  <2>3. QED
    BY <2>2
<1>3. PICK relocation : relocation = [pkg.relocation EXCEPT !.head = head, !.start = pos]
  OBVIOUS
<1>4. relocation \in Relocations /\ relocation.head = head
  <2>1. pkg.relocation \in Relocations /\ pos \in Nat
    BY Reading DEF IsPackage
  <2>2. QED
    BY <1>2, <1>3, <2>1 DEF Relocations
<1>5. /\ IsPackage(pkg') /\ pkg'.header = pkg.header /\ pkg'.relocation = relocation
      /\ pkg'.parts = pkg.parts
  <2>1. IsPackage(pkg) /\ pkg' = [pkg EXCEPT !.relocation = relocation]
    BY <1>1, <1>2, <1>3 DEF ReaderInv
  <2>2. QED
    BY <1>4, <2>1 DEF IsPackage
<1>6. NumParts(pkg') = NumParts(pkg)
  BY <1>5 DEF NumParts
<1>7. Progress'
  BY <1>1, <1>2, <1>4, <1>5, <1>6 DEF Progress, Phases, Done
<1>8. pos' \in Int /\ pos <= pos' /\ pos' <= Len(file) /\ index' \in Int /\ 1 <= index' /\ index' <= pos' + 1
  BY <1>1, Reading
<1>9. QED
  BY <1>1, <1>5, <1>7, <1>8, Advance

LEMMA SetIsRead ==
    ASSUME ReaderInv, LoadRelocationSet
    PROVE  \E n \in Nat : n = SetLength + SetPadding /\ n >= 4 /\ pos + n <= Len(file) /\ pos' = pos + n
<1>1. /\ pos + 4 <= Len(file) /\ Has(SetLength + SetPadding)
      /\ pos' = pos + SetLength + SetPadding
  BY DEF LoadRelocationSet, Has
<1>2. PICK k \in Nat : k = SetLength /\ k >= 4
  <2>1. PICK at \in Nat : at = pos + 2 /\ at + 2 <= Len(file)
    BY <1>1, Reading
  <2>2. file \in Seq(Byte)
    BY DEF ReaderInv
  <2>3. Number(Slice(file, at, 2)) \in Nat
    BY <2>1, <2>2, NumberInSlice
  <2>4. QED
    BY <2>1, <2>3 DEF SetLength
<1>3. PICK l \in Int : l = SetPadding /\ l >= 0
  <2>1. PICK m \in Int : m = AlignedTo(pos + k, 4) /\ m >= pos + k
    <3>1. PICK at \in Int : at = pos + k
      BY Reading
    <3>2. AlignedTo(at, 4) \in Int /\ AlignedTo(at, 4) >= at
      BY Aligned
    <3>3. QED
      BY <3>1, <3>2
  <2>2. SetPadding = m - (pos + k)
    BY <1>2, <2>1 DEF SetPadding
  <2>3. QED
    BY <2>1, <2>2, Reading
<1>4. PICK n \in Nat : n = SetLength + SetPadding /\ n = k + l /\ n >= 4
  BY <1>2, <1>3
<1>5. pos + n <= Len(file) /\ pos' = pos + n
  BY <1>1, <1>2, <1>3, <1>4, Reading DEF Has
<1>6. QED
  BY <1>4, <1>5

LEMMA RelocationSetStep ==
    ASSUME ReaderInv, LabelInv, LoadRelocationSet
    PROVE  ReaderInv' /\ LabelInv'
<1>1. /\ phase = "set" /\ status = "loading"
      /\ Len(pkg.parts) = NumParts(pkg) /\ IsFields(pkg.header, HeaderFields)
      /\ Len(pkg.relocation.head) = 20
      /\ index' = index + 1 /\ file' = file /\ status' = status
      /\ phase' = "set"
      /\ pkg' = [pkg EXCEPT !.relocation.sets = Append(@, Slice(file, pos, SetLength + SetPadding))]
  BY DEF LoadRelocationSet, Loading, Go, ReaderInv, Progress
<1>2. PICK n \in Nat : n = SetLength + SetPadding /\ n >= 4 /\ pos + n <= Len(file) /\ pos' = pos + n
  BY SetIsRead
<1>3. PICK set \in Seq(Byte) : set = Slice(file, pos, n)
  <2>1. file \in Seq(Byte) /\ pos \in Nat
    BY Reading DEF ReaderInv
  <2>2. QED
    BY <1>2, <2>1, SliceOfBytes
<1>4. PICK relocation : relocation = [pkg.relocation EXCEPT !.sets = Append(pkg.relocation.sets, set)]
  OBVIOUS
<1>5. relocation \in Relocations /\ relocation.head = pkg.relocation.head
  <2>1. pkg.relocation \in Relocations
    BY Reading DEF IsPackage
  <2>2. Append(pkg.relocation.sets, set) \in Seq(Seq(Byte))
    BY <2>1, AppendProperties DEF Relocations
  <2>3. QED
    BY <1>4, <2>1, <2>2 DEF Relocations
<1>6. /\ IsPackage(pkg') /\ pkg'.header = pkg.header /\ pkg'.relocation = relocation
      /\ pkg'.parts = pkg.parts
  <2>1. IsPackage(pkg) /\ pkg' = [pkg EXCEPT !.relocation = relocation]
    BY <1>1, <1>2, <1>3, <1>4 DEF ReaderInv
  <2>2. QED
    BY <1>5, <2>1 DEF IsPackage
<1>7. NumParts(pkg') = NumParts(pkg)
  BY <1>6 DEF NumParts
<1>8. Progress'
  BY <1>1, <1>5, <1>6, <1>7 DEF Progress, Phases, Done
<1>9. pos' \in Int /\ pos <= pos' /\ pos' <= Len(file) /\ index' \in Int /\ 1 <= index' /\ index' <= pos' + 1
  BY <1>1, <1>2, Reading
<1>10. QED
  BY <1>1, <1>6, <1>8, <1>9, Advance

LEMMA RelocationPaddingStep ==
    ASSUME ReaderInv, LabelInv, LoadRelocationPadding
    PROVE  ReaderInv' /\ LabelInv'
<1>1. /\ phase = "set" /\ status = "loading"
      /\ Len(pkg.parts) = NumParts(pkg) /\ IsFields(pkg.header, HeaderFields)
      /\ Len(pkg.relocation.head) = 20
      /\ index' = 1 /\ file' = file /\ status' = status /\ phase' = "part"
  BY DEF LoadRelocationPadding, Loading, Go, ReaderInv, Progress
<1>2. CASE RelocationPadding <= 0 /\ UNCHANGED <<pos, pkg>>
  <2>1. NumParts(pkg') = NumParts(pkg)
    BY <1>2
  <2>2. Progress'
    BY <1>1, <1>2, <2>1 DEF Progress, Phases, Done
  <2>3. IsPackage(pkg')
    BY <1>2 DEF ReaderInv
  <2>4. pos' \in Int /\ pos <= pos' /\ pos' <= Len(file) /\ index' \in Int /\ 1 <= index' /\ index' <= pos' + 1
    BY <1>1, <1>2, Reading
  <2>5. Len(pkg'.parts) = Len(pkg.parts)
        /\ \A k \in 1 .. Len(pkg.parts) : pkg'.parts[k].objects = pkg.parts[k].objects
    BY <1>2
  <2>6. QED
    BY <1>1, <2>2, <2>3, <2>4, <2>5, Advance
<1>3. CASE /\ RelocationPadding > 0 /\ Has(RelocationPadding)
           /\ pkg' = [pkg EXCEPT !.relocation.padding = Slice(file, pos, RelocationPadding)]
           /\ pos' = pos + RelocationPadding
  <2>1. PICK n \in Nat : n = RelocationPadding /\ pos + n <= Len(file)
    <3>1. PICK start \in Nat, size \in Nat :
              start = pkg.relocation.start /\ size = Number(Slice(pkg.relocation.head, 4, 4))
      <4>1. pkg.relocation.start \in Nat
        BY Reading DEF IsPackage, Relocations
      <4>2. QED
        BY <1>1, <4>1, Reading, RelocationSizeIsInt
    <3>2. PICK m \in Int : m = start + size - pos
      BY Reading
    <3>3. AsInt(m) \in Int
      BY AsIntIsInt
    <3>4. RelocationPadding \in Int
      BY <3>1, <3>2, <3>3 DEF RelocationPadding
    <3>5. QED
      BY <1>3, <3>4 DEF Has
  <2>2. PICK padding \in Seq(Byte) : padding = Slice(file, pos, n)
    <3>1. file \in Seq(Byte) /\ pos \in Nat
      BY Reading DEF ReaderInv
    <3>2. QED
      BY <2>1, <3>1, SliceOfBytes
  <2>3. PICK relocation : relocation = [pkg.relocation EXCEPT !.padding = padding]
    OBVIOUS
  <2>4. relocation \in Relocations /\ relocation.head = pkg.relocation.head
    <3>1. pkg.relocation \in Relocations
      BY Reading DEF IsPackage
    <3>2. QED
      BY <2>3, <3>1 DEF Relocations
  <2>5. /\ IsPackage(pkg') /\ pkg'.header = pkg.header /\ pkg'.relocation = relocation
        /\ pkg'.parts = pkg.parts
    <3>1. IsPackage(pkg) /\ pkg' = [pkg EXCEPT !.relocation = relocation]
      BY <1>3, <2>1, <2>2, <2>3 DEF ReaderInv
    <3>2. QED
      BY <2>4, <3>1 DEF IsPackage
  <2>6. NumParts(pkg') = NumParts(pkg)
    BY <2>5 DEF NumParts
  <2>7. Progress'
    BY <1>1, <2>4, <2>5, <2>6 DEF Progress, Phases, Done
  <2>8. pos' \in Int /\ pos <= pos' /\ pos' <= Len(file) /\ index' \in Int /\ 1 <= index' /\ index' <= pos' + 1
    BY <1>1, <1>3, <2>1, Reading
  <2>9. QED
    BY <1>1, <2>5, <2>7, <2>8, Advance
<1>4. QED
  BY <1>2, <1>3 DEF LoadRelocationPadding

LEMMA BeginPartStep ==
    ASSUME ReaderInv, LabelInv, BeginPart
    PROVE  ReaderInv' /\ LabelInv'
<1>1. PICK align \in {4, 8} :
          pkg' = [pkg EXCEPT !.parts[index].start = pos, !.parts[index].align = align]
  BY DEF BeginPart
<1>2. /\ phase = "part" /\ status = "loading" /\ index <= NumParts(pkg)
      /\ Len(pkg.parts) = NumParts(pkg) /\ IsFields(pkg.header, HeaderFields)
      /\ HasRelocation(pkg) => Len(pkg.relocation.head) = 20
      /\ pos' = pos /\ phase' = "object" /\ index' = index /\ file' = file /\ status' = status
  BY DEF BeginPart, Loading, Go, ReaderInv, Progress
<1>3. index \in 1 .. Len(pkg.parts) /\ index \in DOMAIN pkg.parts /\ IsPart(pkg.parts[index])
  BY <1>2, Reading
<1>4. PICK x : x = [pkg.parts[index] EXCEPT !.start = pos, !.align = align]
  OBVIOUS
<1>5. IsPart(x) /\ x.objects = pkg.parts[index].objects
  BY <1>3, <1>4, Reading DEF IsPart
<1>6. pkg' = WithPart(pkg, index, x)
  BY <1>1, <1>3, <1>4, Reading DEF Put, WithPart, IsPackage
<1>7. IsPackage(pkg)
  BY DEF ReaderInv
<1>8. /\ IsPackage(pkg') /\ pkg'.header = pkg.header /\ pkg'.relocation = pkg.relocation
      /\ Len(pkg'.parts) = Len(pkg.parts)
      /\ \A k \in 1 .. Len(pkg.parts) : pkg'.parts[k] = IF k = index THEN x ELSE pkg.parts[k]
  BY <1>3, <1>5, <1>6, <1>7, PartChanged
<1>9. NumParts(pkg') = NumParts(pkg) /\ HasRelocation(pkg') = HasRelocation(pkg)
  BY <1>8 DEF NumParts, HasRelocation
<1>10. Progress'
  BY <1>2, <1>8, <1>9 DEF Progress, Phases, Done
<1>11. \A k \in 1 .. Len(pkg.parts) : pkg'.parts[k].objects = pkg.parts[k].objects
  BY <1>5, <1>8
<1>12. pos' \in Int /\ pos <= pos' /\ pos' <= Len(file) /\ index' \in Int /\ 1 <= index' /\ index' <= pos' + 1
  BY <1>2, Reading
<1>13. QED
  BY <1>2, <1>8, <1>10, <1>11, <1>12, Advance

LEMMA GenericPartStep ==
    ASSUME ReaderInv, LabelInv, LoadGenericPart
    PROVE  ReaderInv' /\ LabelInv'
<1>1. /\ phase = "part" /\ status = "loading" /\ index <= NumParts(pkg)
      /\ Len(pkg.parts) = NumParts(pkg) /\ IsFields(pkg.header, HeaderFields)
      /\ HasRelocation(pkg) => Len(pkg.relocation.head) = 20
      /\ Has(SizeOf(Current))
      /\ pos' = pos + SizeOf(Current) /\ phase' = "part" /\ index' = index + 1 /\ file' = file
      /\ status' = status
      /\ pkg' = [pkg EXCEPT !.parts[index].start = pos,
                            !.parts[index].data = Slice(file, pos, SizeOf(Current))]
  BY DEF LoadGenericPart, Loading, Go, ReaderInv, Progress
<1>2. index \in 1 .. Len(pkg.parts) /\ index \in DOMAIN pkg.parts /\ IsPart(pkg.parts[index])
  BY <1>1, Reading
<1>3. PICK n \in Nat : n = SizeOf(Current) /\ pos + n <= Len(file)
  BY <1>1, <1>2, EntryNumbers DEF Current, Has
<1>4. PICK data \in Seq(Byte) : data = Slice(file, pos, n)
  BY <1>3, Reading, SliceOfBytes DEF ReaderInv
<1>5. PICK x : x = [pkg.parts[index] EXCEPT !.start = pos, !.data = data]
  OBVIOUS
<1>6. IsPart(x) /\ x.objects = pkg.parts[index].objects
  BY <1>2, <1>4, <1>5, Reading DEF IsPart
<1>7. pkg' = WithPart(pkg, index, x)
  BY <1>1, <1>2, <1>3, <1>4, <1>5, Reading DEF Put, WithPart, IsPackage
<1>8. IsPackage(pkg)
  BY DEF ReaderInv
<1>9. /\ IsPackage(pkg') /\ pkg'.header = pkg.header /\ pkg'.relocation = pkg.relocation
      /\ Len(pkg'.parts) = Len(pkg.parts)
      /\ \A k \in 1 .. Len(pkg.parts) : pkg'.parts[k] = IF k = index THEN x ELSE pkg.parts[k]
  BY <1>2, <1>6, <1>7, <1>8, PartChanged
<1>10. NumParts(pkg') = NumParts(pkg) /\ HasRelocation(pkg') = HasRelocation(pkg)
  BY <1>9 DEF NumParts, HasRelocation
<1>11. Progress'
  BY <1>1, <1>9, <1>10 DEF Progress, Phases, Done
<1>12. \A k \in 1 .. Len(pkg.parts) : pkg'.parts[k].objects = pkg.parts[k].objects
  BY <1>6, <1>9
<1>13. pos' \in Int /\ pos <= pos' /\ pos' <= Len(file) /\ index' \in Int /\ 1 <= index' /\ index' <= pos' + 1
  BY <1>1, <1>2, <1>3, Reading
<1>14. QED
  BY <1>1, <1>9, <1>11, <1>12, <1>13, Advance

LEMMA EndPartStep ==
    ASSUME ReaderInv, LabelInv, EndPart
    PROVE  ReaderInv' /\ LabelInv'
<1>1. /\ phase = "object" /\ status = "loading" /\ index <= Len(pkg.parts)
      /\ Len(pkg.parts) = NumParts(pkg) /\ IsFields(pkg.header, HeaderFields)
      /\ HasRelocation(pkg) => Len(pkg.relocation.head) = 20
      /\ pos' = pos /\ pkg' = pkg /\ phase' = "part" /\ index' = index + 1 /\ file' = file
      /\ status' = status
  BY DEF EndPart, Loading, Go, ReaderInv, Progress
<1>2. IsPackage(pkg')
  BY <1>1 DEF ReaderInv
<1>3. Progress'
  BY <1>1 DEF Progress, Phases, Done
<1>4. pos' \in Int /\ pos <= pos' /\ pos' <= Len(file) /\ index' \in Int /\ 1 <= index' /\ index' <= pos' + 1
  BY <1>1, Reading
<1>5. Len(pkg'.parts) = Len(pkg.parts)
      /\ \A k \in 1 .. Len(pkg.parts) : pkg'.parts[k].objects = pkg.parts[k].objects
  BY <1>1
<1>6. QED
  BY <1>1, <1>2, <1>3, <1>4, <1>5, Advance

(* What load() of an object reads before it knows how long the object is.    *)
LEMMA PeekTyped ==
    ASSUME ReaderInv, Has(12)
    PROVE  Peek.type \in 0 .. 3 /\ Peek.flags \in Int /\ Peek.total \in Int /\ Peek.class \in Nat
<1>1. file \in Seq(Byte) /\ Len(file) \in Nat /\ pos \in Nat /\ pos + 12 <= Len(file)
  BY Reading DEF ReaderInv, Has
<1>2. PICK header \in Nat : header = Number(Slice(file, pos, 4))
  <2>1. pos + 4 <= Len(file)
    BY <1>1
  <2>2. QED
    BY <1>1, <2>1, NumberInSlice
<1>3. PICK at \in Nat : at = pos + 8 /\ at + 4 <= Len(file)
  BY <1>1
<1>4. Number(Slice(file, at, 4)) \in Nat
  BY <1>1, <1>3, NumberInSlice
<1>5. header % Base \in Int /\ header \div Base \in Int
  BY <1>2, Remainder, BaseIsPositive
<1>6. PICK r \in 0 .. 3 : r = header % 4
  BY <1>2
<1>7. Peek.type = r /\ Peek.flags = (header % Base) - r /\ Peek.total = header \div Base
      /\ Peek.class = Number(Slice(file, at, 4))
  BY <1>2, <1>3, <1>6, Zenon DEF Peek
<1>8. QED
  BY <1>4, <1>5, <1>6, <1>7

(* An object is in the file whole, and never shorter than its head.          *)
LEMMA ObjectRoom ==
    ASSUME ReaderInv, Has(ObjectLength)
    PROVE  /\ Has(12) /\ ObjectLength \in Nat /\ ObjectLength >= 12 /\ pos + ObjectLength <= Len(file)
           /\ Kind(Peek) = "symbol" => ObjectLength = Peek.total /\ Peek.total >= 17
           /\ Kind(Peek) = "binary" => ObjectLength = Peek.total
<1>1. Len(file) \in Nat /\ pos \in Nat
  BY Reading
<1>2. ~Has(Beyond)
  BY <1>1 DEF Has, Beyond
<1>3. Has(12)
  BY <1>2 DEF ObjectLength
<1>4. Peek.total \in Int /\ Peek.type \in 0 .. 3
  BY <1>3, PeekTyped
<1>5. PICK total \in Int : total = Peek.total
  BY <1>4
<1>6. CASE Kind(Peek) = "symbol"
  <2>1. ObjectLength = IF total < 17 THEN Beyond ELSE total
    BY <1>3, <1>5, <1>6 DEF ObjectLength, Slotted
  <2>2. total >= 17 /\ ObjectLength = total
    BY <1>2, <1>5, <2>1
  <2>3. pos + ObjectLength <= Len(file)
    BY DEF Has
  <2>4. QED
    BY <1>3, <1>5, <1>6, <2>2, <2>3
<1>7. CASE Kind(Peek) = "binary"
  <2>1. ObjectLength = IF total < 12 THEN Beyond ELSE total
    BY <1>3, <1>5, <1>7 DEF ObjectLength, Slotted
  <2>2. total >= 12 /\ ObjectLength = total
    BY <1>2, <1>5, <2>1
  <2>3. pos + ObjectLength <= Len(file)
    BY DEF Has
  <2>4. QED
    BY <1>3, <1>5, <1>7, <2>2, <2>3
<1>8. CASE Kind(Peek) \in Slotted
  <2>1. ObjectLength = CASE total < 8 -> Beyond
                         [] total \in 8 .. 11 -> 12
                         [] total >= 12 -> 8 + 4 * ((total - 8) \div 4)
    BY <1>3, <1>5, <1>8 DEF ObjectLength, Slotted
  <2>2. ~(total < 8)
    BY <1>2, <2>1
  <2>3. ObjectLength \in Nat /\ ObjectLength >= 12
    <3>1. CASE total \in 8 .. 11
      BY <2>1, <3>1
    <3>2. CASE total >= 12
      <4>1. ObjectLength = 8 + 4 * ((total - 8) \div 4)
        BY <2>1, <3>2
      <4>2. QED
        BY <3>2, <4>1
    <3>3. QED
      BY <2>2, <3>1, <3>2
  <2>4. pos + ObjectLength <= Len(file)
    BY DEF Has
  <2>5. QED
    BY <1>3, <1>8, <2>3, <2>4 DEF Slotted
<1>9. QED
  BY <1>4, <1>6, <1>7, <1>8, Kinds

LEMMA PaddingIsNat ==
    ASSUME ReaderInv, Loading("object"), NEW length \in Nat
    PROVE  Padding(length) \in Nat
<1>1. index \in 1 .. Len(pkg.parts) /\ IsPart(pkg.parts[index])
  BY Reading DEF ReaderInv, Progress, Loading
<1>2. PICK align \in {4, 8}, start \in Nat : align = Current.align /\ start = Current.start
  BY <1>1 DEF Current, IsPart
<1>3. PICK at \in Int : at = pos + length - start
  BY Reading
<1>4. AlignedTo(at, align) \in Int /\ AlignedTo(at, align) >= at
  BY Aligned
<1>5. Padding(length) = AlignedTo(at, align) - at
  BY <1>2, <1>3 DEF Padding
<1>6. QED
  BY <1>4, <1>5

LEMMA SlotsAreNat ==
    ASSUME ReaderInv, NEW length \in Nat, length >= 12, pos + length <= Len(file)
    PROVE  [i \in 1 .. (length - 12) \div 4 |-> Number(Slice(file, pos + 8 + 4 * i, 4))] \in Seq(Nat)
<1>1. PICK m \in Nat : m = (length - 12) \div 4 /\ 12 + 4 * m <= length
  OBVIOUS
<1>2. file \in Seq(Byte) /\ Len(file) \in Nat /\ pos \in Nat
  BY Reading DEF ReaderInv
<1> DEFINE refs == [i \in 1 .. m |-> Number(Slice(file, pos + 8 + 4 * i, 4))]
<1>3. ASSUME NEW i \in 1 .. m
      PROVE  Number(Slice(file, pos + 8 + 4 * i, 4)) \in Nat
  <2>1. PICK at \in Nat : at = pos + 8 + 4 * i /\ at + 4 <= Len(file)
    BY <1>1, <1>2
  <2>2. Number(Slice(file, at, 4)) \in Nat
    BY <1>2, <2>1, NumberInSlice
  <2>3. QED
    BY <2>1, <2>2
<1>4. refs \in [1 .. m -> Nat] /\ [1 .. m -> Nat] \in {[1 .. k -> Nat] : k \in Nat}
  BY <1>3
<1>5. Seq(Nat) = UNION {[1 .. k -> Nat] : k \in Nat}
  BY SeqDef, Zenon
<1> HIDE DEF refs
<1>6. refs \in Seq(Nat)
  BY <1>4, <1>5, Zenon
<1>7. QED
  BY <1>1, <1>6 DEF refs

LEMMA LoadedObjectTyped ==
    ASSUME ReaderInv, Loading("object"), Has(ObjectLength)
    PROVE  IsObject(LoadedObject) /\ LoadedObject.offset = pos /\ LoadedObject.label = NoLabel
<1>1. /\ Has(12) /\ ObjectLength \in Nat /\ ObjectLength >= 12 /\ pos + ObjectLength <= Len(file)
      /\ Kind(Peek) = "symbol" => ObjectLength = Peek.total /\ Peek.total >= 17
      /\ Kind(Peek) = "binary" => ObjectLength = Peek.total
  BY ObjectRoom
<1>2. Peek.type \in 0 .. 3 /\ Peek.flags \in Int /\ Peek.total \in Int /\ Peek.class \in Nat
  BY <1>1, PeekTyped
<1>3. Padding(ObjectLength) \in Nat
  BY <1>1, PaddingIsNat
<1>4. file \in Seq(Byte) /\ Len(file) \in Nat /\ pos \in Nat
  BY Reading DEF ReaderInv
<1>5. Number(Slice(file, pos + 4, 4)) \in Nat
  <2>1. PICK at \in Nat : at = pos + 4 /\ at + 4 <= Len(file)
    BY <1>1, <1>4
  <2>2. Number(Slice(file, at, 4)) \in Nat
    BY <1>4, <2>1, NumberInSlice
  <2>3. QED
    BY <2>1, <2>2
<1>6. PICK head : head = HeadOf(Peek)
  OBVIOUS
<1>7. IsObject(head) /\ head.offset = pos /\ head.label = NoLabel
  <2>1. << >> \in Seq(Byte) /\ << >> \in Seq(Nat)
    OBVIOUS
  <2>2. QED
    BY <1>2, <1>3, <1>4, <1>5, <1>6, <2>1 DEF HeadOf, IsObject
<1>8. CASE Kind(Peek) = "symbol"
  <2>1. PICK hash \in Seq(Byte) : hash = Slice(file, pos + 12, 4)
    <3>1. PICK at \in Nat : at = pos + 12 /\ at + 4 <= Len(file)
      BY <1>1, <1>4, <1>8
    <3>2. QED
      BY <1>4, <3>1, SliceOfBytes
  <2>2. PICK data \in Seq(Byte) : data = Slice(file, pos + 16, Peek.total - 17)
    <3>1. PICK at \in Nat, n \in Nat : at = pos + 16 /\ n = Peek.total - 17 /\ at + n <= Len(file)
      <4>1. PICK total \in Nat : total = Peek.total /\ total >= 17 /\ pos + total <= Len(file)
        BY <1>1, <1>2, <1>8
      <4>2. PICK n \in Nat : n = total - 17
        BY <4>1
      <4>3. pos + 16 \in Nat /\ (pos + 16) + n <= Len(file)
        BY <1>4, <4>1, <4>2
      <4>4. QED
        BY <4>1, <4>2, <4>3
    <3>2. QED
      BY <1>4, <3>1, SliceOfBytes
  <2>3. LoadedObject = [head EXCEPT !.hash = hash, !.data = data]
    <3>1. LoadedObject = LoadedSymbol(Peek)
      BY <1>8 DEF LoadedObject, Slotted
    <3>2. QED
      BY <1>6, <2>1, <2>2, <3>1 DEF LoadedSymbol
  <2>4. QED
    BY <1>7, <2>3 DEF IsObject
<1>9. CASE Kind(Peek) = "binary"
  <2>1. PICK data \in Seq(Byte) : data = Slice(file, pos + 12, Peek.total - 12)
    <3>1. PICK at \in Nat, n \in Nat : at = pos + 12 /\ n = Peek.total - 12 /\ at + n <= Len(file)
      <4>1. PICK total \in Nat : total = Peek.total /\ total >= 12 /\ pos + total <= Len(file)
        BY <1>1, <1>2, <1>9
      <4>2. PICK n \in Nat : n = total - 12
        BY <4>1
      <4>3. pos + 12 \in Nat /\ (pos + 12) + n <= Len(file)
        BY <1>4, <4>1, <4>2
      <4>4. QED
        BY <4>1, <4>2, <4>3
    <3>2. QED
      BY <1>4, <3>1, SliceOfBytes
  <2>2. LoadedObject = [head EXCEPT !.data = data]
    <3>1. LoadedObject = LoadedBinary(Peek)
      BY <1>9 DEF LoadedObject, Slotted
    <3>2. QED
      BY <1>6, <2>1, <3>1 DEF LoadedBinary
  <2>3. QED
    BY <1>7, <2>2 DEF IsObject
<1>10. CASE Kind(Peek) \in Slotted
  <2>1. PICK refs \in Seq(Nat) :
            refs = [i \in 1 .. (ObjectLength - 12) \div 4 |-> Number(Slice(file, pos + 8 + 4 * i, 4))]
    BY <1>1, SlotsAreNat
  <2>2. LoadedObject = [head EXCEPT !.refs = refs]
    <3>1. LoadedObject = LoadedSlotted(Peek)
      BY <1>10 DEF LoadedObject, Slotted
    <3>2. QED
      BY <1>6, <2>1, <3>1 DEF LoadedSlotted
  <2>3. QED
    BY <1>7, <2>2 DEF IsObject
<1>11. QED
  BY <1>2, <1>8, <1>9, <1>10, Kinds

LEMMA ObjectStep ==
    ASSUME ReaderInv, LabelInv, LoadObject
    PROVE  ReaderInv' /\ LabelInv'
<1>1. /\ phase = "object" /\ status = "loading" /\ index <= Len(pkg.parts)
      /\ Len(pkg.parts) = NumParts(pkg) /\ IsFields(pkg.header, HeaderFields)
      /\ HasRelocation(pkg) => Len(pkg.relocation.head) = 20
      /\ Loading("object") /\ Has(ObjectLength) /\ Has(ObjectLength + Padding(ObjectLength))
      /\ pos' = pos + ObjectLength + Padding(ObjectLength) /\ phase' = "object" /\ index' = index
      /\ file' = file /\ status' = status
      /\ pkg' = [pkg EXCEPT !.parts[index].objects = Append(@, LoadedObject)]
  BY DEF LoadObject, Loading, Go, ReaderInv, Progress
<1>2. index \in 1 .. Len(pkg.parts) /\ index \in DOMAIN pkg.parts /\ IsPart(pkg.parts[index])
  BY <1>1, Reading
<1>3. PICK n \in Nat : pos' = pos + n /\ n >= 12 /\ pos + n <= Len(file)
  <2>1. ObjectLength \in Nat /\ ObjectLength >= 12
    BY <1>1, ObjectRoom
  <2>2. Padding(ObjectLength) \in Nat
    BY <1>1, <2>1, PaddingIsNat
  <2>3. PICK a \in Nat, b \in Nat : a = ObjectLength /\ b = Padding(ObjectLength) /\ a >= 12
    BY <2>1, <2>2
  <2>4. pos + (a + b) <= Len(file) /\ pos' = pos + a + b
    BY <1>1, <2>3 DEF Has
  <2>5. QED
    BY <2>3, <2>4, Reading
<1>4. PICK o : o = LoadedObject
  OBVIOUS
<1>5. IsObject(o) /\ o.offset = pos /\ o.label = NoLabel
  BY <1>1, <1>4, LoadedObjectTyped
<1>6. PICK before : before = pkg.parts[index].objects
  OBVIOUS
<1>7. PICK objects : objects = Append(before, o)
  OBVIOUS
<1>8. IsSequence(before) /\ \A k \in 1 .. Len(before) : IsObject(before[k])
  BY <1>2, <1>6, Elements DEF IsPart
<1>9. /\ IsSequence(objects) /\ Len(objects) = Len(before) + 1 /\ Len(before) \in Nat
      /\ DOMAIN objects = 1 .. Len(before) + 1 /\ DOMAIN before = 1 .. Len(before)
      /\ \A k \in 1 .. Len(before) : objects[k] = before[k]
      /\ objects[Len(before) + 1] = o
  <2>1. /\ IsSequence(objects) /\ Len(objects) = Len(before) + 1
        /\ \A k \in 1 .. Len(before) : objects[k] = before[k]
        /\ objects[Len(before) + 1] = o
    BY <1>7, <1>8, Appended
  <2>2. DOMAIN objects = 1 .. Len(objects) /\ Len(before) \in Nat /\ DOMAIN before = 1 .. Len(before)
    BY <1>8, <2>1, Elements
  <2>3. QED
    BY <2>1, <2>2
<1>10. \A k \in DOMAIN objects : IsObject(objects[k])
  <2>1. \A k \in 1 .. Len(before) + 1 : k \in 1 .. Len(before) \/ k = Len(before) + 1
    BY <1>9
  <2>2. QED
    BY <1>5, <1>8, <1>9, <2>1
<1>11. PICK x : x = [pkg.parts[index] EXCEPT !.objects = objects]
  OBVIOUS
<1>12. IsPart(x) /\ x.objects = objects
  BY <1>2, <1>9, <1>10, <1>11 DEF IsPart
<1>13. pkg' = WithPart(pkg, index, x)
  BY <1>1, <1>2, <1>4, <1>6, <1>7, <1>11, Reading DEF Put, WithPart, IsPackage
<1>14. IsPackage(pkg)
  BY DEF ReaderInv
<1>15. /\ IsPackage(pkg') /\ pkg'.header = pkg.header /\ pkg'.relocation = pkg.relocation
       /\ Len(pkg'.parts) = Len(pkg.parts) /\ DOMAIN pkg'.parts = 1 .. Len(pkg.parts)
       /\ \A k \in 1 .. Len(pkg.parts) : pkg'.parts[k] = IF k = index THEN x ELSE pkg.parts[k]
  BY <1>2, <1>12, <1>13, <1>14, PartChanged
<1>16. NumParts(pkg') = NumParts(pkg) /\ HasRelocation(pkg') = HasRelocation(pkg)
  BY <1>15 DEF NumParts, HasRelocation
<1>17. Progress'
  BY <1>1, <1>15, <1>16 DEF Progress, Phases, Done
<1>18. ReaderInv'
  <2>1. Len(file) \in Nat /\ pos \in Nat /\ Len(pkg.parts) \in Nat /\ index \in Nat
        /\ 32 * Len(pkg.parts) <= pos /\ file \in Seq(Byte) /\ index >= 1 /\ index <= pos + 1
    BY Reading DEF ReaderInv, EntrySize
  <2>2. pos' \in 0 .. Len(file') /\ index' \in 1 .. pos' + 1 /\ 32 * Len(pkg'.parts) <= pos'
    BY <1>1, <1>3, <1>15, <2>1
  <2>3. QED
    BY <1>1, <1>15, <1>17, <2>1, <2>2 DEF ReaderInv, EntrySize
<1>19. Labelling(index, objects, pos')
  <2>1. Labelling(index, before, pos) /\ pos \in Nat
    BY <1>2, <1>6, Reading DEF LabelInv
  <2>2. \A k \in 1 .. Len(before) : before[k].offset \in Nat /\ before[k].offset < pos
    BY <1>8, <1>9, <2>1 DEF Labelling, ObjectsBefore, IsObject
  <2>3. \A k \in 1 .. Len(before) + 1 : k \in 1 .. Len(before) \/ k = Len(before) + 1
    BY <1>9
  <2>4. ObjectsBefore(objects, pos')
    BY <1>3, <1>5, <1>9, <2>1, <2>2, <2>3 DEF ObjectsBefore
  <2>5. OffsetsGrow(objects)
    <3>1. ASSUME NEW k \in 1 .. Len(before) + 1, NEW j \in 1 .. k - 1
          PROVE  objects[j].offset < objects[k].offset
      <4>1. j \in 1 .. Len(before)
        BY <1>9
      <4>2. CASE k = Len(before) + 1
        BY <1>5, <1>9, <2>2, <4>1, <4>2
      <4>3. CASE k \in 1 .. Len(before)
        BY <1>9, <2>1, <4>1, <4>3 DEF Labelling, OffsetsGrow
      <4>4. QED
        BY <2>3, <4>2, <4>3
    <3>2. QED
      BY <1>9, <3>1 DEF OffsetsGrow
  <2>6. LabelsDiffer(index, objects)
    <3>1. \A k \in 1 .. Len(before) + 1 : IsLabelOf(objects[k].label, index, objects[k])
      BY <1>5, <1>9, <2>1, <2>3 DEF Labelling, LabelsDiffer, IsLabelOf
    <3>2. ASSUME NEW k \in 1 .. Len(before) + 1, NEW j \in 1 .. k - 1,
                 objects[j].label.kind = "sym", objects[k].label.kind = "sym"
          PROVE  objects[j].label.text # objects[k].label.text
      <4>1. j \in 1 .. Len(before)
        BY <1>9
      <4>2. CASE k = Len(before) + 1
        BY <1>5, <1>9, <3>2, <4>2 DEF NoLabel, Label
      <4>3. CASE k \in 1 .. Len(before)
        BY <1>9, <2>1, <3>2, <4>1, <4>3 DEF Labelling, LabelsDiffer
      <4>4. QED
        BY <2>3, <4>2, <4>3
    <3>3. QED
      BY <1>9, <3>1, <3>2 DEF LabelsDiffer
  <2>7. QED
    BY <2>4, <2>5, <2>6 DEF Labelling
<1>20. LabelInv'
  <2>1. SUFFICES ASSUME NEW i \in DOMAIN pkg'.parts
                 PROVE  Labelling(i, pkg'.parts[i].objects, pos')
    BY DEF LabelInv
  <2>2. CASE i = index
    BY <1>2, <1>12, <1>15, <1>19, <2>2
  <2>3. CASE i # index
    <3>1. PICK others : others = pkg.parts[i].objects
      OBVIOUS
    <3>2. Labelling(i, others, pos) /\ pkg'.parts[i].objects = others
      BY <1>15, <2>3, <3>1, Reading DEF LabelInv
    <3>3. \A k \in DOMAIN others : others[k].offset \in Nat
      BY <1>15, <3>1, Reading DEF IsPart, IsObject
    <3>4. pos \in Nat
      BY Reading
    <3>5. ObjectsBefore(others, pos')
      BY <1>3, <3>2, <3>3, <3>4 DEF Labelling, ObjectsBefore
    <3>6. QED
      BY <3>2, <3>5 DEF Labelling
  <2>4. QED
    BY <2>2, <2>3
<1>21. QED
  BY <1>18, <1>20

(* A label made of a name is one that addLabel has not met.                  *)
LEMMA NewSymbolLabel ==
    ASSUME NEW i, NEW name, NEW objects, NEW label, label = SymbolLabel(i, name, objects),
           label.kind \notin {"undefined", "endless"}
    PROVE  label = Label("sym", i, label.text) /\ label.text \notin TakenLabels(objects)
<1> DEFINE text == LabelText(name)
           free == FreeNumbers(text, objects)
           least == CHOOSE n \in free : \A m \in free : n <= m
<1>1. CASE text \notin TakenLabels(objects)
  <2>1. label = Label("sym", i, text)
    BY <1>1 DEF SymbolLabel
  <2> HIDE DEF text
  <2>2. label.text = text
    BY <2>1 DEF Label
  <2>3. QED
    BY <1>1, <2>1, <2>2
<1>2. CASE text \in TakenLabels(objects)
  <2>1. label = IF Len(text) >= StemRoom THEN Label("undefined", i, text)
                ELSE IF free = {} THEN Label("endless", i, text)
                ELSE Label("sym", i, Numbered(text, least))
    BY <1>2 DEF SymbolLabel
  <2>2. \A n \in free : Numbered(text, n) \notin TakenLabels(objects)
    BY DEF FreeNumbers
  <2>3. free \subseteq Nat
    <3>1. \A n \in 2 .. LastNumber : n \in Nat
      OBVIOUS
    <3>2. QED
      BY <3>1 DEF FreeNumbers
  <2> HIDE DEF text, free
  <2>4. free # {} => least \in free
    <3>1. SUFFICES ASSUME free # {}
                   PROVE  least \in free
      OBVIOUS
    <3>2. \E n \in free : \A m \in free : n <= m
      BY <2>3, <3>1, LeastNumber
    <3>3. QED
      BY <3>2, Zenon
  <2> HIDE DEF least
  <2>5. label = Label("sym", i, Numbered(text, least)) /\ free # {}
    <3>1. \A t : Label("undefined", i, t).kind = "undefined" /\ Label("endless", i, t).kind = "endless"
      BY DEF Label
    <3>2. QED
      BY <2>1, <3>1
  <2>6. label.text = Numbered(text, least)
    BY <2>5 DEF Label
  <2>7. QED
    BY <2>2, <2>4, <2>5, <2>6
<1>3. QED
  BY <1>1, <1>2

LEMMA LabelStep ==
    ASSUME ReaderInv, LabelInv, MakeAsmLabel
    PROVE  ReaderInv' /\ LabelInv'
<1> DEFINE first == CHOOSE k \in Unlabelled : \A j \in Unlabelled : k <= j
           made == IF Kind(Objects[first]) = "symbol" THEN SymbolLabel(index, Objects[first].data, Objects)
                   ELSE ObjectLabel(index, Objects[first].offset)
<1>1. /\ phase = "object" /\ status = "loading" /\ index <= Len(pkg.parts)
      /\ Len(pkg.parts) = NumParts(pkg) /\ IsFields(pkg.header, HeaderFields)
      /\ HasRelocation(pkg) => Len(pkg.relocation.head) = 20
      /\ Unlabelled # {}
  BY DEF MakeAsmLabel, Loading, ReaderInv, Progress
<1>2. index \in 1 .. Len(pkg.parts) /\ index \in DOMAIN pkg.parts /\ IsPart(pkg.parts[index])
  BY <1>1, Reading
<1>3. PICK before : before = Objects /\ before = pkg.parts[index].objects
  BY DEF Objects, Current
<1>4. /\ IsSequence(before) /\ Len(before) \in Nat /\ DOMAIN before = 1 .. Len(before)
      /\ \A k \in 1 .. Len(before) : IsObject(before[k])
  BY <1>2, <1>3, Elements DEF IsPart
<1>5. PICK k \in 1 .. Len(before) : k = first
  <2>1. Unlabelled \subseteq 1 .. Len(before)
    BY <1>3, <1>4 DEF Unlabelled
  <2>2. Unlabelled \subseteq Nat
    BY <1>4, <2>1
  <2>3. \E n \in Unlabelled : \A m \in Unlabelled : n <= m
    BY <1>1, <2>2, LeastNumber
  <2>4. first \in Unlabelled
    BY <2>3, Zenon
  <2>5. QED
    BY <2>1, <2>4
<1>6. PICK label : label = made
  <2> HIDE DEF made
  <2>1. QED
    OBVIOUS
<1>7. IF label.kind \in {"undefined", "endless"} THEN Stop(label.kind)
      ELSE /\ pkg' = [pkg EXCEPT !.parts[index].objects[k].label = label]
           /\ UNCHANGED <<file, pos, phase, index, status>>
  BY <1>5, <1>6 DEF MakeAsmLabel
<1>8. CASE label.kind \in {"undefined", "endless"}
  <2>1. Stop(label.kind) /\ label.kind \in Done /\ label.kind # "loaded"
    BY <1>7, <1>8 DEF Done
  <2>2. QED
    BY <2>1, StopStep
<1>9. CASE label.kind \notin {"undefined", "endless"}
  <2>1. pkg' = [pkg EXCEPT !.parts[index].objects[k].label = label]
        /\ file' = file /\ pos' = pos /\ phase' = phase /\ index' = index /\ status' = status
    BY <1>7, <1>9
  <2>2. /\ label = Label("sym", index, label.text) /\ label.text \notin TakenLabels(before)
        \/ label = ObjectLabel(index, before[k].offset)
    <3>1. CASE Kind(before[k]) = "symbol"
      <4>1. label = SymbolLabel(index, before[k].data, before)
        BY <1>3, <1>5, <1>6, <3>1
      <4>2. QED
        BY <1>9, <4>1, NewSymbolLabel
    <3>2. CASE Kind(before[k]) # "symbol"
      BY <1>3, <1>5, <1>6, <3>2
    <3>3. QED
      BY <3>1, <3>2
  <2> HIDE DEF first, made
  <2>3. PICK o : o = [before[k] EXCEPT !.label = label]
    OBVIOUS
  <2>4. IsObject(o) /\ o.offset = before[k].offset /\ o.label = label
    BY <1>4, <2>3 DEF IsObject
  <2>5. PICK objects : objects = Put(before, k, o)
    OBVIOUS
  <2>6. /\ IsSequence(objects) /\ Len(objects) = Len(before) /\ DOMAIN objects = 1 .. Len(before)
        /\ \A j \in 1 .. Len(before) : objects[j] = IF j = k THEN o ELSE before[j]
    BY <1>4, <2>5, Replaced
  <2>7. \A j \in 1 .. Len(before) : IsObject(objects[j]) /\ objects[j].offset = before[j].offset
    BY <1>4, <2>4, <2>6
  <2>8. PICK x : x = [pkg.parts[index] EXCEPT !.objects = objects]
    OBVIOUS
  <2>9. IsPart(x) /\ x.objects = objects
    BY <1>2, <2>6, <2>7, <2>8 DEF IsPart
  <2>10. pkg' = WithPart(pkg, index, x)
    <3>1. objects = [before EXCEPT ![k] = [before[k] EXCEPT !.label = label]]
      BY <2>3, <2>5 DEF Put
    <3>2. x = [pkg.parts[index] EXCEPT !.objects = [pkg.parts[index].objects EXCEPT ![k] =
                  [pkg.parts[index].objects[k] EXCEPT !.label = label]]]
      BY <1>3, <2>8, <3>1
    <3>3. QED
      BY <2>1, <3>2, Zenon DEF Put, WithPart
  <2>11. IsPackage(pkg)
    BY DEF ReaderInv
  <2>12. /\ IsPackage(pkg') /\ pkg'.header = pkg.header /\ pkg'.relocation = pkg.relocation
         /\ Len(pkg'.parts) = Len(pkg.parts) /\ DOMAIN pkg'.parts = 1 .. Len(pkg.parts)
         /\ \A j \in 1 .. Len(pkg.parts) : pkg'.parts[j] = IF j = index THEN x ELSE pkg.parts[j]
    BY <1>2, <2>9, <2>10, <2>11, PartChanged
  <2>13. NumParts(pkg') = NumParts(pkg) /\ HasRelocation(pkg') = HasRelocation(pkg)
    BY <2>12 DEF NumParts, HasRelocation
  <2>14. Progress'
    BY <1>1, <2>1, <2>12, <2>13 DEF Progress, Phases, Done
  <2>15. ReaderInv'
    BY <2>1, <2>12, <2>14 DEF ReaderInv
  <2>16. Labelling(index, before, pos)
    BY <1>2, <1>3 DEF LabelInv
  <2>17. Labelling(index, objects, pos)
    <3>1. OffsetsGrow(objects)
      <4>1. \A m \in 1 .. Len(before) : \A j \in 1 .. m - 1 : j \in 1 .. Len(before)
        BY <1>4
      <4>2. \A m \in 1 .. Len(before) : \A j \in 1 .. m - 1 : before[j].offset < before[m].offset
        BY <1>4, <2>16 DEF Labelling, OffsetsGrow
      <4>3. QED
        BY <2>6, <2>7, <4>1, <4>2 DEF OffsetsGrow
    <3>2. ObjectsBefore(objects, pos)
      BY <1>4, <2>6, <2>7, <2>16 DEF Labelling, ObjectsBefore
    <3>3. \A j \in DOMAIN objects : IsLabelOf(objects[j].label, index, objects[j])
      <4>1. ASSUME NEW j \in 1 .. Len(before)
            PROVE  IsLabelOf(objects[j].label, index, objects[j])
        <5>1. CASE j = k
          BY <2>2, <2>4, <2>6, <5>1 DEF IsLabelOf
        <5>2. CASE j # k
          BY <1>4, <2>6, <2>16, <5>2 DEF Labelling, LabelsDiffer
        <5>3. QED
          BY <5>1, <5>2
      <4>2. QED
        BY <2>6, <4>1
    <3>4. ASSUME NEW m \in 1 .. Len(before), NEW j \in 1 .. m - 1,
                 objects[j].label.kind = "sym", objects[m].label.kind = "sym"
          PROVE  objects[j].label.text # objects[m].label.text
      <4>1. j \in 1 .. Len(before) /\ j # m
        BY <1>4
      <4>2. \A n \in 1 .. Len(before) : before[n].label.kind = "sym" =>
                before[n].label.text \in TakenLabels(before)
        BY <1>4 DEF TakenLabels
      <4>3. label.kind = "sym" => label.text \notin TakenLabels(before)
        BY <2>2 DEF ObjectLabel, Label
      <4>4. CASE j = k
        BY <2>4, <2>6, <3>4, <4>1, <4>2, <4>3, <4>4
      <4>5. CASE m = k
        BY <2>4, <2>6, <3>4, <4>1, <4>2, <4>3, <4>5
      <4>6. CASE j # k /\ m # k
        <5>1. objects[j] = before[j] /\ objects[m] = before[m]
          BY <2>6, <4>1, <4>6
        <5>2. QED
          BY <1>4, <2>16, <3>4, <5>1 DEF Labelling, LabelsDiffer
      <4>7. QED
        BY <4>4, <4>5, <4>6
    <3>5. LabelsDiffer(index, objects)
      BY <2>6, <3>3, <3>4 DEF LabelsDiffer
    <3>6. QED
      BY <3>1, <3>2, <3>5 DEF Labelling
  <2>18. LabelInv'
    <3>1. SUFFICES ASSUME NEW i \in DOMAIN pkg'.parts
                   PROVE  Labelling(i, pkg'.parts[i].objects, pos')
      BY DEF LabelInv
    <3>2. CASE i = index
      BY <1>2, <2>1, <2>9, <2>12, <2>17, <3>2
    <3>3. CASE i # index
      BY <2>1, <2>12, <3>3, Reading DEF LabelInv
    <3>4. QED
      BY <3>2, <3>3
  <2>19. QED
    BY <2>15, <2>18
<1>10. QED
  BY <1>8, <1>9

LEMMA LoadStep ==
    ASSUME ReaderInv, LabelInv, Load
    PROVE  ReaderInv' /\ LabelInv'
<1>1. CASE Refuse
  <2>1. Stop("refused") /\ "refused" \in Done
    BY <1>1 DEF Refuse, Done
  <2>2. QED
    BY <2>1, StopStep
<1>2. CASE LoadHeader
  BY <1>2, HeaderStep
<1>3. CASE LoadEntry
  BY <1>3, EntryStep
<1>4. CASE LoadTexts
  BY <1>4, TextsStep
<1>5. CASE LoadInfo
  BY <1>5, InfoStep
<1>6. CASE LoadPackageInfo
  BY <1>6, PackageInfoStep
<1>7. CASE LoadRelocationHead
  BY <1>7, RelocationHeadStep
<1>8. CASE LoadRelocationSet
  BY <1>8, RelocationSetStep
<1>9. CASE LoadRelocationPadding
  BY <1>9, RelocationPaddingStep
<1>10. CASE BeginPart
  BY <1>10, BeginPartStep
<1>11. CASE LoadGenericPart
  BY <1>11, GenericPartStep
<1>12. CASE LoadObject
  BY <1>12, ObjectStep
<1>13. CASE MakeAsmLabel
  BY <1>13, LabelStep
<1>14. CASE EndPart
  BY <1>14, EndPartStep
<1>15. CASE Succeed
  <2>1. Stop("loaded") /\ "loaded" \in Done /\ phase = "part"
    BY <1>15 DEF Succeed, Loading, Done
  <2>2. QED
    BY <2>1, StopStep
<1>16. CASE LosePartEnd \/ ReadPastEnd
  <2>1. Stop("undefined") /\ "undefined" \in Done
    BY <1>16 DEF LosePartEnd, ReadPastEnd, Done
  <2>2. QED
    BY <2>1, StopStep
<1>17. QED
  BY <1>1, <1>2, <1>3, <1>4, <1>5, <1>6, <1>7, <1>8, <1>9, <1>10, <1>11, <1>12, <1>13, <1>14, <1>15, <1>16
     DEF Load

-----------------------------------------------------------------------------
(* What the program does with packages. *)
LEMMA EmptyPackage == IsPackage(NoPackage) /\ Len(NoPackage.parts) = 0 /\ DOMAIN NoPackage.parts = {}
<1>1. << >> \in Seq(Nat) /\ << >> \in Seq(Byte) /\ << >> \in Seq(Seq(Byte)) /\ IsSequence(<< >>)
  BY DEF IsSequence
<1>2. NoRelocation \in Relocations
  BY <1>1 DEF NoRelocation, Relocations
<1>3. QED
  BY <1>1, <1>2 DEF NoPackage, IsPackage

LEMMA Started ==
    ASSUME NEW bytes \in Seq(Byte)
    PROVE  /\ Begin(bytes) => ReaderInv /\ LabelInv
           /\ LoadOther(bytes) => ReaderInv' /\ LabelInv'
<1>1. Len(bytes) \in Nat
  BY LenProperties
<1>2. ASSUME Begin(bytes)
      PROVE  ReaderInv /\ LabelInv
  <2>1. Progress
    BY <1>2 DEF Begin, Progress, Phases, Done
  <2>2. ReaderInv
    BY <1>1, <1>2, <2>1, EmptyPackage DEF Begin, ReaderInv, EntrySize
  <2>3. LabelInv
    BY <1>2, EmptyPackage DEF Begin, LabelInv
  <2>4. QED
    BY <2>2, <2>3
<1>3. ASSUME LoadOther(bytes)
      PROVE  ReaderInv' /\ LabelInv'
  <2>1. Progress'
    BY <1>3 DEF LoadOther, Progress, Phases, Done
  <2>2. ReaderInv'
    BY <1>1, <1>3, <2>1, EmptyPackage DEF LoadOther, ReaderInv, EntrySize
  <2>3. LabelInv'
    BY <1>3, EmptyPackage DEF LoadOther, LabelInv
  <2>4. QED
    BY <2>2, <2>3
<1>4. QED
  BY <1>2, <1>3

LEMMA ReaderStays ==
    ASSUME ReaderInv, LabelInv, UNCHANGED reader
    PROVE  ReaderInv' /\ LabelInv'
  BY DEF ReaderInv, LabelInv, Progress, NumParts, HasRelocation, reader

LEMMA InitInv == Init => Inv
<1> SUFFICES ASSUME Init
             PROVE  Inv
  OBVIOUS
<1>1. built \in Packages /\ Begin(FileOf(built))
  BY DEF Init
<1>2. FileOf(built) \in Seq(Byte)
  BY <1>1, FilesAssumption
<1>3. ReaderInv /\ LabelInv
  BY <1>1, <1>2, Started
<1>4. IsAsm(<< >>)
  BY FewItems
<1>5. MainInv
  BY <1>1, <1>4 DEF MainInv, Init, Stages
<1>6. QED
  BY <1>3, <1>5 DEF Inv

LEMMA LoadedIsWhole ==
    ASSUME ReaderInv, status = "loaded"
    PROVE  IsWhole(pkg)
  BY DEF ReaderInv, Progress, IsWhole

LEMMA NextInv == Inv /\ [Next]_vars => Inv'
<1> SUFFICES ASSUME Inv, [Next]_vars
             PROVE  Inv'
  OBVIOUS
<1> USE DEF Inv
<1>1. CASE LoadFirst
  <2>1. Load /\ UNCHANGED main
    BY <1>1 DEF LoadFirst
  <2>2. MainInv'
    BY <2>1 DEF MainInv, main
  <2>3. QED
    BY <2>1, <2>2, LoadStep
<1>2. CASE LoadSecond
  <2>1. Load /\ UNCHANGED main
    BY <1>2 DEF LoadSecond
  <2>2. MainInv'
    BY <2>1 DEF MainInv, main
  <2>3. QED
    BY <2>1, <2>2, LoadStep
<1>3. CASE WriteAsm
  <2>1. ReaderInv' /\ LabelInv'
    BY <1>3, ReaderStays DEF WriteAsm, reader
  <2>2. status = "loaded" /\ UNCHANGED <<built, result>>
    BY <1>3 DEF WriteAsm
  <2>3. ~WriteIsUndefined(pkg) => IsAsm(AssemblerFile(pkg, file))
    <3>1. IsWhole(pkg)
      BY <2>2, LoadedIsWhole
    <3>2. file \in Seq(Byte)
      BY DEF ReaderInv
    <3>3. ~WriteIsUndefined(pkg) => ~(Written(pkg) < 0)
      BY DEF WriteIsUndefined
    <3>4. QED
      BY <3>1, <3>2, <3>3, AssemblerFileIsAsm
  <2>4. IsAsm(asm') /\ stage' \in Stages
    BY <1>3, <2>3 DEF WriteAsm, MainInv, Stages
  <2>5. QED
    BY <2>1, <2>2, <2>4 DEF MainInv
<1>4. CASE EditAsm
  <2>1. ReaderInv' /\ LabelInv'
    BY <1>4, ReaderStays DEF EditAsm, reader
  <2>2. PICK o : \E j \in DOMAIN asm : asm' = InsertAt(asm, j, Addition(o))
    BY <1>4 DEF EditAsm
  <2>3. IsAsm(asm')
    BY <2>2, AdditionIsItem, InsertedItem DEF MainInv
  <2>4. UNCHANGED <<built, result, stage>>
    BY <1>4 DEF EditAsm
  <2>5. QED
    BY <2>1, <2>3, <2>4 DEF MainInv
<1>5. CASE Assemble
  <2>1. UNCHANGED <<built, asm, result>>
    BY <1>5 DEF Assemble
  <2>2. CASE Assembles(asm)
    <3>1. LoadOther(Assembled(asm))
      BY <1>5, <2>2 DEF Assemble
    <3>2. ReaderInv' /\ LabelInv'
      BY <2>2, <3>1, AssembledIsBytes, Started DEF MainInv
    <3>3. stage' = "second"
      BY <3>1 DEF LoadOther
    <3>4. QED
      BY <2>1, <3>2, <3>3 DEF MainInv, Stages
  <2>3. CASE ~Assembles(asm)
    <3>1. stage' = "not assembled" /\ UNCHANGED reader
      BY <1>5, <2>3 DEF Assemble, reader
    <3>2. QED
      BY <2>1, <3>1, ReaderStays DEF MainInv, Stages
  <2>4. QED
    BY <2>2, <2>3
<1>6. CASE CompareWithFile
  <2>1. PICK other \in Contenders(built) : LoadOther(other)
    BY <1>6 DEF CompareWithFile
  <2>2. other \in Seq(Byte)
    BY FilesAssumption DEF MainInv
  <2>3. ReaderInv' /\ LabelInv'
    BY <2>1, <2>2, Started
  <2>4. UNCHANGED <<built, asm, result>> /\ stage' = "second"
    BY <1>6, <2>1 DEF CompareWithFile, LoadOther
  <2>5. QED
    BY <2>3, <2>4 DEF MainInv, Stages
<1>7. CASE CompareContents
  <2>1. ReaderInv' /\ LabelInv'
    BY <1>7, ReaderStays DEF CompareContents, reader
  <2>2. Compare(original, pkg) \in {-1, 0}
    BY DEF Compare, FirstDifference, Result
  <2>3. result' \in -1 .. 1
    BY <1>7, <2>2 DEF CompareContents
  <2>4. UNCHANGED <<built, asm>> /\ stage' = "compared"
    BY <1>7 DEF CompareContents
  <2>5. QED
    BY <2>1, <2>3, <2>4 DEF MainInv, Stages
<1>8. CASE UNCHANGED vars
  <2>1. UNCHANGED reader /\ UNCHANGED <<built, asm, result, stage>>
    BY <1>8 DEF vars, reader
  <2>2. QED
    BY <2>1, ReaderStays DEF MainInv
<1>9. QED
  BY <1>1, <1>2, <1>3, <1>4, <1>5, <1>6, <1>7, <1>8 DEF Next

(* The invariant holds in every behaviour: of the loader whatever the bytes  *)
(* of a file are, and of the assembler file, edited or not.                  *)
THEOREM Invariance == Spec => []Inv
  BY InitInv, NextInv, PTL DEF Spec

-----------------------------------------------------------------------------
(* Whatever bytes a file has, the loader reads no byte behind its end, does  *)
(* not get ahead of the parts that the header announces, and aligns every    *)
(* part in one of the two ways there are: TypeOK of Repacking.               *)
THEOREM TypeCorrect == Spec => []TypeOK
<1>1. Inv => TypeOK
  <2> SUFFICES ASSUME Inv
               PROVE  TypeOK
    OBVIOUS
  <2>1. ReaderInv
    BY DEF Inv
  <2>2. index \in 1 .. Len(file) + 1
    BY <2>1, Reading
  <2>3. \A i \in DOMAIN pkg.parts : pkg.parts[i].align \in {4, 8}
    BY <2>1, Reading DEF IsPart
  <2>4. QED
    BY <2>1, <2>2, <2>3 DEF TypeOK, Inv, ReaderInv, MainInv, Progress, Phases, Stages
<1>2. QED
  BY <1>1, Invariance, PTL

LEMMA DistinctLabels ==
    ASSUME NEW i, NEW objects, IsSequence(objects), NEW at,
           \A k \in DOMAIN objects : IsObject(objects[k]), Labelling(i, objects, at),
           NEW k \in DOMAIN objects, NEW j \in 1 .. k - 1, objects[k].label # NoLabel
    PROVE  objects[j].label # objects[k].label
<1>1. DOMAIN objects = 1 .. Len(objects) /\ Len(objects) \in Nat
  BY Elements
<1>2. j \in DOMAIN objects
  BY <1>1
<1>3. SUFFICES ASSUME objects[j].label = objects[k].label
               PROVE  FALSE
  OBVIOUS
<1>4. PICK label : label = objects[k].label /\ label = objects[j].label
  BY <1>3
<1>5. CASE label.kind = "sym"
  BY <1>2, <1>4, <1>5 DEF Labelling, LabelsDiffer
<1>6. CASE label.kind # "sym"
  <2>1. /\ IsLabelOf(label, i, objects[k]) /\ IsLabelOf(label, i, objects[j])
        /\ objects[j].offset < objects[k].offset
    BY <1>2, <1>4 DEF Labelling, LabelsDiffer, OffsetsGrow
  <2>2. label = ObjectLabel(i, objects[k].offset) /\ label = ObjectLabel(i, objects[j].offset)
    BY <1>4, <1>6, <2>1 DEF IsLabelOf, Label
  <2>3. objects[k].offset = objects[j].offset
    BY <2>2 DEF ObjectLabel, Label
  <2>4. objects[k].offset \in Nat /\ objects[j].offset \in Nat
    BY <1>2 DEF IsObject
  <2>5. QED
    BY <2>1, <2>3, <2>4
<1>7. QED
  BY <1>5, <1>6

(* Whatever the names of the symbols of a part are, and however they collide *)
(* when they are written as labels, cut and numbered, no two objects of the  *)
(* part get the same label: LabelsAreUnique of Repacking.                    *)
THEOREM LabelsAlwaysUnique == Spec => []LabelsAreUnique
<1>1. Inv => LabelsAreUnique
  <2> SUFFICES ASSUME Inv, NEW i \in DOMAIN pkg.parts
               PROVE  LET objects  == pkg.parts[i].objects
                          labelled == {n \in DOMAIN objects : objects[n].label # NoLabel}
                      IN  Cardinality({objects[k].label : k \in labelled}) = Cardinality(labelled)
    BY DEF LabelsAreUnique
  <2> DEFINE objects  == pkg.parts[i].objects
             labelled == {n \in DOMAIN objects : objects[n].label # NoLabel}
             labels   == {objects[k].label : k \in labelled}
             f        == [k \in labelled |-> objects[k].label]
  <2>1. IsPart(pkg.parts[i]) /\ Labelling(i, objects, pos)
    BY Reading DEF Inv, LabelInv
  <2>2. /\ IsSequence(objects) /\ DOMAIN objects = 1 .. Len(objects) /\ Len(objects) \in Nat
        /\ \A k \in DOMAIN objects : IsObject(objects[k])
    BY <2>1, Elements DEF IsPart
  <2> HIDE DEF objects
  <2>3. IsFiniteSet(labelled)
    <3>1. PICK n \in Nat : DOMAIN objects = 1 .. n
      BY <2>2
    <3>2. IsFiniteSet(1 .. n)
      BY FS_Interval
    <3>3. labelled \subseteq 1 .. n
      BY <3>1
    <3> HIDE DEF labelled
    <3>4. QED
      BY <3>2, <3>3, FS_Subset, Zenon
  <2>4. \A k, j \in labelled : objects[k].label = objects[j].label => k = j
    <3>1. SUFFICES ASSUME NEW k \in labelled, NEW j \in labelled, k # j
                   PROVE  objects[k].label # objects[j].label
      OBVIOUS
    <3>2. CASE j < k
      <4>1. j \in 1 .. k - 1
        BY <2>2, <3>2
      <4>2. QED
        BY <2>1, <2>2, <4>1, DistinctLabels
    <3>3. CASE k < j
      <4>1. k \in 1 .. j - 1
        BY <2>2, <3>3
      <4>2. QED
        BY <2>1, <2>2, <4>1, DistinctLabels
    <3>4. QED
      BY <2>2, <3>1, <3>2, <3>3
  <2> HIDE DEF labelled
  <2>5. f \in Surjection(labelled, labels) /\ f \in Injection(labelled, labels)
    BY <2>4 DEF Surjection, Injection, IsInjective
  <2> HIDE DEF f, labels
  <2>6. Cardinality(labels) = Cardinality(labelled)
    BY <2>3, <2>5, FS_Surjection
  <2>7. QED
    BY <2>6 DEF labels, labelled, objects
<1>2. QED
  BY <1>1, Invariance, PTL


-----------------------------------------------------------------------------
(* Where the objects of a part are.  How many bytes load() of an object has  *)
(* read, and where the next object is.                                       *)
Room(o) ==
    IF Kind(o) \in Slotted THEN IF o.size < 4 THEN 12 ELSE 8 + 4 * (o.size \div 4) ELSE o.size + 8

Behind(part, o) == part.start + AlignedTo((o.offset + Room(o)) - part.start, part.align)

(* One object is behind the other, from the start of the part on.            *)
InLine(part) ==
    /\ 1 \in DOMAIN part.objects => part.objects[1].offset = part.start
    /\ \A k \in DOMAIN part.objects :
          k # 1 => part.objects[k].offset = Behind(part, part.objects[k - 1])
    /\ IsNOS(part) => part.data = << >>

(* The position is where the next object of the part will be.                *)
Reached(part, at) ==
    LET objects == part.objects
    IN  at = IF objects = << >> THEN part.start ELSE Behind(part, objects[Len(objects)])

Unread(i) == (phase = "part" => i >= index) /\ (phase = "object" => i > index)

LayoutInv ==
    /\ \A i \in DOMAIN pkg.parts : InLine(pkg.parts[i])
    /\ \A i \in DOMAIN pkg.parts : Unread(i) => pkg.parts[i].objects = << >>
    /\ phase = "object" => Reached(pkg.parts[index], pos)

(* Where an object is, and what says how long it is, stay what they are.     *)
SamePlace(o, x) == o.offset = x.offset /\ o.type = x.type /\ o.class = x.class /\ o.size = x.size

LEMMA SameRoom ==
    ASSUME NEW o, NEW x, SamePlace(o, x)
    PROVE  Room(o) = Room(x) /\ \A part : Behind(part, o) = Behind(part, x)
<1>1. Kind(o) = Kind(x)
  BY DEF SamePlace, Kind
<1>2. Room(o) = Room(x)
  BY <1>1 DEF SamePlace, Room
<1>3. QED
  BY <1>2 DEF SamePlace, Behind

(* What a part needs to be in line.                                          *)
SameLine(part, x) ==
    /\ x.entry = part.entry /\ x.start = part.start /\ x.align = part.align
    /\ x.data = part.data
    /\ Len(x.objects) = Len(part.objects) /\ DOMAIN x.objects = DOMAIN part.objects
    /\ \A k \in DOMAIN part.objects : SamePlace(part.objects[k], x.objects[k])

LEMMA LineStays ==
    ASSUME NEW part, NEW x, IsPart(part), IsPart(x), SameLine(part, x)
    PROVE  /\ InLine(part) => InLine(x)
           /\ \A at : Reached(part, at) => Reached(x, at)
           /\ part.objects = << >> => x.objects = << >>
<1>1. /\ DOMAIN part.objects = 1 .. Len(part.objects) /\ Len(part.objects) \in Nat
      /\ DOMAIN x.objects = 1 .. Len(part.objects) /\ Len(x.objects) = Len(part.objects)
      /\ part.objects = << >> <=> Len(part.objects) = 0
      /\ x.objects = << >> <=> Len(part.objects) = 0
  <2>1. \A s : IsSequence(s) => DOMAIN s = 1 .. Len(s) /\ Len(s) \in Nat /\ (s = << >> <=> Len(s) = 0)
    BY EmptySeq, Elements DEF IsSequence
  <2>2. QED
    BY <2>1 DEF IsPart, SameLine
<1>2. ASSUME NEW k \in 1 .. Len(part.objects)
      PROVE  /\ x.objects[k].offset = part.objects[k].offset
             /\ Behind(x, x.objects[k]) = Behind(part, part.objects[k])
  <2>1. SamePlace(part.objects[k], x.objects[k])
    BY <1>1 DEF SameLine
  <2>2. Behind(part, part.objects[k]) = Behind(part, x.objects[k])
    BY <2>1, SameRoom
  <2>3. Behind(x, x.objects[k]) = Behind(part, x.objects[k])
    BY DEF Behind, SameLine
  <2>4. QED
    BY <2>1, <2>2, <2>3 DEF SamePlace
<1>3. ASSUME InLine(part)
      PROVE  InLine(x)
  <2>1. 1 \in DOMAIN x.objects => x.objects[1].offset = x.start
    BY <1>1, <1>2, <1>3 DEF InLine, SameLine
  <2>2. ASSUME NEW k \in DOMAIN x.objects, k # 1
        PROVE  x.objects[k].offset = Behind(x, x.objects[k - 1])
    <3>1. k \in 1 .. Len(part.objects) /\ k - 1 \in 1 .. Len(part.objects)
      BY <1>1, <2>2
    <3>2. part.objects[k].offset = Behind(part, part.objects[k - 1])
      BY <1>1, <1>3, <2>2, <3>1 DEF InLine
    <3>3. QED
      BY <1>2, <3>1, <3>2
  <2>3. IsNOS(x) => x.data = << >>
    BY <1>3 DEF InLine, IsNOS, SameLine
  <2>4. QED
    BY <2>1, <2>2, <2>3 DEF InLine
<1>4. ASSUME NEW at, Reached(part, at)
      PROVE  Reached(x, at)
  <2>1. CASE Len(part.objects) = 0
    BY <1>1, <1>4, <2>1 DEF Reached, SameLine
  <2>2. CASE Len(part.objects) # 0
    BY <1>1, <1>2, <1>4, <2>2 DEF Reached
  <2>3. QED
    BY <2>1, <2>2
<1>5. QED
  BY <1>1, <1>3, <1>4


(* Steps that read no object.                                                *)
LEMMA LayoutStays ==
    ASSUME ReaderInv, ReaderInv', LayoutInv, DOMAIN pkg'.parts = DOMAIN pkg.parts,
           \A k \in DOMAIN pkg.parts : SameLine(pkg.parts[k], pkg'.parts[k]),
           \A i \in DOMAIN pkg.parts : Unread(i)' => Unread(i),
           phase' = "object" => phase = "object" /\ index' = index /\ pos' = pos
    PROVE  LayoutInv'
<1>1. ASSUME NEW k \in DOMAIN pkg.parts
      PROVE  /\ InLine(pkg.parts[k]) => InLine(pkg'.parts[k])
             /\ \A at : Reached(pkg.parts[k], at) => Reached(pkg'.parts[k], at)
             /\ pkg.parts[k].objects = << >> => pkg'.parts[k].objects = << >>
  <2>1. IsPart(pkg.parts[k]) /\ IsPart(pkg'.parts[k])
    BY DEF ReaderInv, IsPackage
  <2>2. SameLine(pkg.parts[k], pkg'.parts[k])
    OBVIOUS
  <2>3. QED
    BY <2>1, <2>2, LineStays
<1>2. \A i \in DOMAIN pkg'.parts : InLine(pkg'.parts[i])
  BY <1>1 DEF LayoutInv
<1>3. \A i \in DOMAIN pkg'.parts : Unread(i)' => pkg'.parts[i].objects = << >>
  BY <1>1 DEF LayoutInv
<1>4. ASSUME phase' = "object"
      PROVE  Reached(pkg'.parts[index'], pos')
  <2>1. phase = "object" /\ index' = index /\ pos' = pos
    BY <1>4
  <2>2. index \in DOMAIN pkg.parts
    BY <2>1, Reading DEF ReaderInv, Progress
  <2>3. Reached(pkg.parts[index], pos)
    BY <2>1 DEF LayoutInv
  <2>4. QED
    BY <1>1, <2>1, <2>2, <2>3
<1>5. QED
  BY <1>2, <1>3, <1>4 DEF LayoutInv, Unread

LEMMA SameParts ==
    ASSUME NEW part, IsPart(part), NEW x, x.entry = part.entry, x.start = part.start, x.align = part.align,
           x.data = part.data, x.objects = part.objects
    PROVE  SameLine(part, x)
  BY DEF SameLine, SamePlace

(* Steps that read no part at all.                                           *)
LEMMA PartsStay ==
    ASSUME ReaderInv, ReaderInv', LayoutInv, pkg'.parts = pkg.parts,
           \A i \in DOMAIN pkg.parts : Unread(i)' => Unread(i),
           phase' = "object" => phase = "object" /\ index' = index /\ pos' = pos
    PROVE  LayoutInv'
<1>1. \A k \in DOMAIN pkg.parts : SameLine(pkg.parts[k], pkg'.parts[k])
  BY SameParts DEF ReaderInv, IsPackage
<1>2. DOMAIN pkg'.parts = DOMAIN pkg.parts
  OBVIOUS
<1>3. QED
  BY <1>1, <1>2, LayoutStays

LEMMA StoppedLayout ==
    ASSUME ReaderInv, ReaderInv', LayoutInv, UNCHANGED <<pos, pkg, phase, index>>
    PROVE  LayoutInv'
  BY DEF LayoutInv, Unread

LEMMA DirectoryLayout ==
    ASSUME ReaderInv, ReaderInv', LayoutInv, LoadHeader \/ LoadEntry \/ LoadTexts
    PROVE  LayoutInv'
<1>1. CASE LoadHeader
  <2>1. pkg = NoPackage /\ pkg' = [pkg EXCEPT !.header = Fields(file, 0, HeaderFields)] /\ phase' = "entry"
    BY <1>1 DEF LoadHeader, Loading, Go, ReaderInv, Progress
  <2>2. pkg'.parts = pkg.parts
    BY <2>1 DEF NoPackage
  <2>3. DOMAIN pkg.parts = {}
    BY <2>1, EmptyPackage
  <2>4. QED
    BY <2>1, <2>2, <2>3, PartsStay
<1>2. CASE LoadEntry
  <2>1. PICK x : x = NewPart(Fields(file, pos, EntryFields))
    OBVIOUS
  <2>2. pkg' = [pkg EXCEPT !.parts = Append(pkg.parts, x)] /\ phase = "entry" /\ phase' = "entry"
    BY <1>2, <2>1 DEF LoadEntry, Loading, Go
  <2>3. IsSequence(pkg.parts) /\ Len(pkg.parts) \in Nat /\ DOMAIN pkg.parts = 1 .. Len(pkg.parts)
    BY PartsOf DEF ReaderInv
  <2>4. pkg'.parts = Append(pkg.parts, x)
    BY <2>2 DEF ReaderInv, IsPackage
  <2>5. /\ DOMAIN pkg'.parts = 1 .. Len(pkg.parts) + 1
        /\ \A k \in 1 .. Len(pkg.parts) : pkg'.parts[k] = pkg.parts[k]
        /\ pkg'.parts[Len(pkg.parts) + 1] = x
    BY <2>3, <2>4, Appended, Elements
  <2>6. InLine(x) /\ x.objects = << >>
    BY <2>1 DEF NewPart, InLine
  <2>7. \A i \in DOMAIN pkg.parts : InLine(pkg.parts[i]) /\ pkg.parts[i].objects = << >>
    BY <2>2 DEF LayoutInv, Unread
  <2>8. \A i \in DOMAIN pkg'.parts : InLine(pkg'.parts[i]) /\ pkg'.parts[i].objects = << >>
    BY <2>3, <2>5, <2>6, <2>7
  <2>9. QED
    BY <2>2, <2>8 DEF LayoutInv
<1>3. CASE LoadTexts
  <2>1. phase = "entry" /\ phase' = "info"
    BY <1>3 DEF LoadTexts, Loading, Go
  <2>2. pkg'.parts = pkg.parts
    BY <1>3 DEF LoadTexts, ReaderInv, IsPackage
  <2>3. QED
    BY <2>1, <2>2, PartsStay DEF Unread
<1>4. QED
  BY <1>1, <1>2, <1>3

LEMMA InfoLayout ==
    ASSUME ReaderInv, ReaderInv', LayoutInv, LoadInfo
    PROVE  LayoutInv'
<1>1. /\ phase = "info" /\ phase' = "info" /\ index <= NumParts(pkg)
      /\ pkg' = [pkg EXCEPT !.parts[index].info = Slice(file, pos, InfoLength)]
  BY DEF LoadInfo, Loading, Go
<1>2. index \in DOMAIN pkg.parts /\ DOMAIN pkg.parts = 1 .. Len(pkg.parts)
  BY <1>1, Reading DEF ReaderInv, Progress
<1>3. pkg'.parts = [pkg.parts EXCEPT ![index] = [@ EXCEPT !.info = Slice(file, pos, InfoLength)]]
  BY <1>1 DEF ReaderInv, IsPackage
<1>4. DOMAIN pkg'.parts = DOMAIN pkg.parts
  BY <1>3
<1>5. ASSUME NEW k \in DOMAIN pkg.parts
      PROVE  SameLine(pkg.parts[k], pkg'.parts[k])
  <2>1. IsPart(pkg.parts[k])
    BY DEF ReaderInv, IsPackage
  <2>2. PICK x : x = pkg'.parts[k]
    OBVIOUS
  <2>3. /\ x.entry = pkg.parts[k].entry /\ x.start = pkg.parts[k].start /\ x.align = pkg.parts[k].align
        /\ x.data = pkg.parts[k].data /\ x.objects = pkg.parts[k].objects
    <3>1. CASE k = index
      BY <1>2, <1>3, <2>1, <2>2, <3>1 DEF IsPart
    <3>2. CASE k # index
      BY <1>2, <1>3, <2>2, <3>2
    <3>3. QED
      BY <3>1, <3>2
  <2>4. QED
    BY <2>1, <2>2, <2>3, SameParts
<1>6. QED
  BY <1>1, <1>4, <1>5, LayoutStays DEF Unread

LEMMA RelocationLayout ==
    ASSUME ReaderInv, ReaderInv', LayoutInv,
           LoadPackageInfo \/ LoadRelocationHead \/ LoadRelocationSet \/ LoadRelocationPadding
    PROVE  LayoutInv'
<1>1. phase \in {"info", "relocation", "set"} /\ phase' \in {"relocation", "set", "part"}
  BY DEF LoadPackageInfo, LoadRelocationHead, LoadRelocationSet, LoadRelocationPadding, Loading, Go
<1>2. pkg'.parts = pkg.parts
  BY DEF LoadPackageInfo, LoadRelocationHead, LoadRelocationSet, LoadRelocationPadding, ReaderInv, IsPackage
<1>3. QED
  BY <1>1, <1>2, PartsStay DEF Unread


(* When one part changes, the others are as they were.                       *)
LEMMA LayoutChanged ==
    ASSUME ReaderInv, LayoutInv, index \in DOMAIN pkg.parts, NEW x, IsPart(x), pkg' = WithPart(pkg, index, x),
           InLine(x), phase' \in {"part", "object"},
           phase' = "object" => index' = index /\ Reached(x, pos'),
           phase' = "part" => index' = index + 1,
           phase \in {"part", "object"}
    PROVE  LayoutInv'
<1>1. IsPackage(pkg) /\ Len(pkg.parts) \in Nat /\ DOMAIN pkg.parts = 1 .. Len(pkg.parts) /\ index \in Nat
  BY Reading
<1>2. /\ DOMAIN pkg'.parts = 1 .. Len(pkg.parts)
      /\ \A k \in 1 .. Len(pkg.parts) : pkg'.parts[k] = IF k = index THEN x ELSE pkg.parts[k]
  <2>1. PICK p, i, q : p = pkg /\ i = index /\ q = pkg'
    OBVIOUS
  <2>2. IsPackage(p) /\ i \in DOMAIN p.parts /\ IsPart(x) /\ q = WithPart(p, i, x)
    BY <1>1, <2>1
  <2>3. /\ DOMAIN q.parts = 1 .. Len(p.parts)
        /\ \A k \in 1 .. Len(p.parts) : q.parts[k] = IF k = i THEN x ELSE p.parts[k]
    BY <2>2, PartChanged
  <2>4. QED
    BY <2>1, <2>3
<1>3. \A i \in DOMAIN pkg'.parts : InLine(pkg'.parts[i])
  BY <1>1, <1>2 DEF LayoutInv
<1>4. ASSUME NEW i \in DOMAIN pkg'.parts, Unread(i)'
      PROVE  pkg'.parts[i].objects = << >>
  <2>1. i \in 1 .. Len(pkg.parts) /\ i > index
    BY <1>1, <1>2, <1>4 DEF Unread
  <2>2. Unread(i) /\ i # index /\ i \in DOMAIN pkg.parts
    BY <1>1, <2>1 DEF Unread
  <2>3. pkg'.parts[i] = pkg.parts[i]
    BY <1>2, <2>1, <2>2
  <2>4. QED
    BY <2>2, <2>3 DEF LayoutInv
<1>5. phase' = "object" => Reached(pkg'.parts[index'], pos')
  BY <1>1, <1>2
<1>6. QED
  BY <1>3, <1>4, <1>5 DEF LayoutInv

LEMMA BeginPartLayout ==
    ASSUME ReaderInv, LayoutInv, BeginPart
    PROVE  LayoutInv'
<1>1. PICK align \in {4, 8} : pkg' = [pkg EXCEPT !.parts[index].start = pos, !.parts[index].align = align]
  BY DEF BeginPart
<1>2. phase = "part" /\ index <= NumParts(pkg) /\ pos' = pos /\ phase' = "object" /\ index' = index
  BY DEF BeginPart, Loading, Go
<1>3. index \in 1 .. Len(pkg.parts) /\ index \in DOMAIN pkg.parts /\ IsPart(pkg.parts[index])
  BY <1>2, Reading DEF ReaderInv, Progress
<1>4. PICK x : x = [pkg.parts[index] EXCEPT !.start = pos, !.align = align]
  OBVIOUS
<1>5. /\ IsPart(x) /\ x.objects = pkg.parts[index].objects /\ x.start = pos
      /\ x.data = pkg.parts[index].data /\ x.entry = pkg.parts[index].entry
  BY <1>3, <1>4, Reading DEF IsPart
<1>6. pkg' = WithPart(pkg, index, x)
  BY <1>1, <1>3, <1>4, Reading DEF Put, WithPart, IsPackage
<1>7. x.objects = << >>
  <2>1. Unread(index) /\ index \in Int
    BY <1>2, Reading DEF Unread
  <2>2. QED
    BY <1>3, <1>5, <2>1 DEF LayoutInv
<1>8. InLine(x)
  BY <1>3, <1>5, <1>7 DEF InLine, IsNOS, LayoutInv
<1>9. Reached(x, pos')
  BY <1>2, <1>5, <1>7 DEF Reached
<1>10. QED
  BY <1>2, <1>3, <1>5, <1>6, <1>8, <1>9, LayoutChanged

LEMMA GenericPartLayout ==
    ASSUME ReaderInv, LayoutInv, LoadGenericPart
    PROVE  LayoutInv'
<1>1. /\ phase = "part" /\ index <= NumParts(pkg) /\ ~IsNOS(Current) /\ Has(SizeOf(Current))
      /\ phase' = "part" /\ index' = index + 1
      /\ pkg' = [pkg EXCEPT !.parts[index].start = pos,
                            !.parts[index].data = Slice(file, pos, SizeOf(Current))]
  BY DEF LoadGenericPart, Loading, Go
<1>2. index \in 1 .. Len(pkg.parts) /\ index \in DOMAIN pkg.parts /\ IsPart(pkg.parts[index])
  BY <1>1, Reading DEF ReaderInv, Progress
<1>3. PICK n \in Nat : n = SizeOf(Current) /\ pos + n <= Len(file)
  BY <1>1, <1>2, EntryNumbers DEF Current, Has
<1>4. PICK data \in Seq(Byte) : data = Slice(file, pos, n)
  BY <1>3, Reading, SliceOfBytes DEF ReaderInv
<1>5. PICK x : x = [pkg.parts[index] EXCEPT !.start = pos, !.data = data]
  OBVIOUS
<1>6. IsPart(x) /\ x.objects = pkg.parts[index].objects /\ x.entry = pkg.parts[index].entry
  BY <1>2, <1>4, <1>5, Reading DEF IsPart
<1>7. pkg' = WithPart(pkg, index, x)
  BY <1>1, <1>2, <1>3, <1>4, <1>5, Reading DEF Put, WithPart, IsPackage
<1>8. x.objects = << >>
  <2>1. Unread(index) /\ index \in Int
    BY <1>1, Reading DEF Unread
  <2>2. QED
    BY <1>2, <1>6, <2>1 DEF LayoutInv
<1>9. InLine(x)
  BY <1>1, <1>6, <1>8 DEF InLine, IsNOS, Current
<1>10. QED
  BY <1>1, <1>2, <1>6, <1>7, <1>9, LayoutChanged

LEMMA EndPartLayout ==
    ASSUME ReaderInv, ReaderInv', LayoutInv, EndPart
    PROVE  LayoutInv'
<1>1. phase = "object" /\ phase' = "part" /\ index' = index + 1 /\ pkg' = pkg
  BY DEF EndPart, Loading, Go
<1>2. \A i \in DOMAIN pkg.parts : Unread(i)' => Unread(i)
  BY <1>1, Reading DEF Unread
<1>3. QED
  BY <1>1, <1>2, PartsStay

(* The padding that load() reads ends where the next object begins.          *)
LEMMA LoadedInLine ==
    ASSUME ReaderInv, Loading("object"), Has(ObjectLength), NEW o, o = LoadedObject
    PROVE  /\ IsObject(o) /\ o.offset = pos
           /\ Behind(Current, o) = pos + ObjectLength + Padding(ObjectLength)
<1>1. IsObject(o) /\ o.offset = pos
  BY LoadedObjectTyped
<1>2. /\ Has(12) /\ ObjectLength \in Nat
      /\ Kind(Peek) = "symbol" => ObjectLength = Peek.total
      /\ Kind(Peek) = "binary" => ObjectLength = Peek.total
  BY ObjectRoom
<1>3. Peek.type \in 0 .. 3 /\ Peek.total \in Int
  BY <1>2, PeekTyped
<1>4. o.type = Peek.type /\ o.class = Peek.class /\ o.size = Peek.total - 8
  <2>1. \/ o = LoadedSymbol(Peek) \/ o = LoadedBinary(Peek) \/ o = LoadedSlotted(Peek)
    BY <1>3, Kinds DEF LoadedObject, Slotted
  <2>2. PICK head : head = HeadOf(Peek)
    OBVIOUS
  <2>3. head.type = Peek.type /\ head.class = Peek.class /\ head.size = Peek.total - 8
    BY <2>2 DEF HeadOf
  <2>4. CASE o = LoadedSymbol(Peek)
    <3>1. o.type = head.type /\ o.class = head.class /\ o.size = head.size
      BY <2>2, <2>4 DEF LoadedSymbol
    <3>2. QED
      BY <2>3, <3>1
  <2>5. CASE o = LoadedBinary(Peek)
    <3>1. o.type = head.type /\ o.class = head.class /\ o.size = head.size
      BY <2>2, <2>5 DEF LoadedBinary
    <3>2. QED
      BY <2>3, <3>1
  <2>6. CASE o = LoadedSlotted(Peek)
    <3>1. o.type = head.type /\ o.class = head.class /\ o.size = head.size
      BY <2>2, <2>6 DEF LoadedSlotted
    <3>2. QED
      BY <2>3, <3>1
  <2>7. QED
    BY <2>1, <2>4, <2>5, <2>6
<1>5. Kind(o) = Kind(Peek)
  BY <1>4 DEF Kind
<1>6. PICK total \in Int : total = Peek.total
  BY <1>3
<1>7. Room(o) = ObjectLength
  <2>1. CASE Kind(Peek) \in {"symbol", "binary"}
    <3>1. Room(o) = o.size + 8
      BY <1>5, <2>1 DEF Room, Slotted
    <3>2. QED
      BY <1>2, <1>4, <1>6, <2>1, <3>1
  <2>2. CASE Kind(Peek) \in Slotted
    <3>1. ObjectLength = CASE total < 8 -> Beyond
                           [] total \in 8 .. 11 -> 12
                           [] total >= 12 -> 8 + 4 * ((total - 8) \div 4)
      BY <1>2, <1>6, <2>2 DEF ObjectLength, Slotted
    <3>2. ~(total < 8)
      <4>1. ~Has(Beyond)
        BY Reading DEF Has, Beyond
      <4>2. QED
        BY <3>1, <4>1
    <3>3. PICK size \in Int : size = total - 8 /\ size = o.size
      BY <1>4, <1>6
    <3>4. Room(o) = IF size < 4 THEN 12 ELSE 8 + 4 * (size \div 4)
      BY <1>5, <2>2, <3>3 DEF Room
    <3>5. CASE size < 4
      BY <3>1, <3>2, <3>3, <3>4, <3>5
    <3>6. CASE ~(size < 4)
      BY <3>1, <3>2, <3>3, <3>4, <3>6
    <3>7. QED
      BY <3>5, <3>6
  <2>3. QED
    BY <1>3, <2>1, <2>2, Kinds DEF Slotted
<1>8. index \in 1 .. Len(pkg.parts) /\ IsPart(pkg.parts[index])
  BY Reading DEF ReaderInv, Progress, Loading
<1>9. PICK align \in {4, 8}, start \in Nat : align = Current.align /\ start = Current.start
  BY <1>8 DEF Current, IsPart
<1>10. PICK at \in Int : at = (pos + ObjectLength) - start
  BY <1>2, Reading
<1>11. PICK next \in Int : next = AlignedTo(at, align)
  BY <1>9, <1>10, Aligned
<1>12. Behind(Current, o) = start + next
  BY <1>1, <1>7, <1>9, <1>10, <1>11 DEF Behind
<1>13. Padding(ObjectLength) = next - at
  <2>1. PICK length \in Nat, place \in Nat : length = ObjectLength /\ place = pos
    BY <1>2, Reading
  <2>2. place + length - start = at
    BY <1>10, <2>1
  <2>3. Padding(length) = AlignedTo(place + length - start, align) - (place + length - start)
    BY <1>9, <2>1, Zenon DEF Padding
  <2>4. Padding(length) = AlignedTo(at, align) - at
    BY <2>2, <2>3, Zenon
  <2>5. QED
    BY <1>11, <2>1, <2>4, Zenon
<1>14. pos + ObjectLength + Padding(ObjectLength) = start + next
  <2>1. PICK length \in Nat, place \in Nat : length = ObjectLength /\ place = pos
    BY <1>2, Reading
  <2>2. at = (place + length) - start
    BY <1>10, <2>1
  <2>3. next \in Int /\ start \in Nat
    BY <1>9, <1>11
  <2>4. place + length + (next - at) = start + next
    BY <2>1, <2>2, <2>3
  <2>5. QED
    BY <1>13, <2>1, <2>4
<1>15. QED
  BY <1>1, <1>12, <1>14

LEMMA ObjectLayout ==
    ASSUME ReaderInv, LayoutInv, LoadObject
    PROVE  LayoutInv'
<1>1. /\ phase = "object" /\ Loading("object") /\ Has(ObjectLength)
      /\ pos' = pos + ObjectLength + Padding(ObjectLength) /\ phase' = "object" /\ index' = index
      /\ pkg' = [pkg EXCEPT !.parts[index].objects = Append(@, LoadedObject)]
  BY DEF LoadObject, Loading, Go
<1>2. index \in 1 .. Len(pkg.parts) /\ index \in DOMAIN pkg.parts /\ IsPart(pkg.parts[index])
  BY <1>1, Reading DEF ReaderInv, Progress
<1>3. PICK o : o = LoadedObject
  OBVIOUS
<1>4. PICK part : part = pkg.parts[index]
  OBVIOUS
<1>5. IsObject(o) /\ o.offset = pos /\ Behind(part, o) = pos'
  <2>1. Current = part
    BY <1>4 DEF Current
  <2>2. QED
    BY <1>1, <1>3, <2>1, LoadedInLine
<1>6. InLine(part) /\ Reached(part, pos)
  BY <1>1, <1>2, <1>4 DEF LayoutInv
<1>7. PICK before : before = part.objects
  OBVIOUS
<1>8. PICK objects : objects = Append(before, o)
  OBVIOUS
<1>9. /\ IsSequence(before) /\ Len(before) \in Nat /\ DOMAIN before = 1 .. Len(before)
      /\ before = << >> <=> Len(before) = 0
      /\ \A k \in 1 .. Len(before) : IsObject(before[k])
  BY <1>2, <1>4, <1>7, EmptySeq, Elements DEF IsPart, IsSequence
<1>10. /\ IsSequence(objects) /\ Len(objects) = Len(before) + 1 /\ DOMAIN objects = 1 .. Len(before) + 1
       /\ \A k \in 1 .. Len(before) : objects[k] = before[k]
       /\ objects[Len(before) + 1] = o
       /\ objects # << >>
  <2>1. /\ IsSequence(objects) /\ Len(objects) = Len(before) + 1
        /\ \A k \in 1 .. Len(before) : objects[k] = before[k]
        /\ objects[Len(before) + 1] = o
    BY <1>8, <1>9, Appended
  <2>2. DOMAIN objects = 1 .. Len(objects)
    BY <2>1, Elements
  <2>3. objects # << >>
    BY <1>9, <2>1
  <2>4. QED
    BY <2>1, <2>2, <2>3
<1>11. \A k \in 1 .. Len(before) + 1 : k \in 1 .. Len(before) \/ k = Len(before) + 1
  BY <1>9
<1>12. PICK x : x = [part EXCEPT !.objects = objects]
  OBVIOUS
<1>13. /\ IsPart(x) /\ x.objects = objects /\ x.start = part.start /\ x.align = part.align
       /\ x.data = part.data /\ x.entry = part.entry
  <2>1. \A k \in DOMAIN objects : IsObject(objects[k])
    BY <1>5, <1>9, <1>10, <1>11
  <2>2. QED
    BY <1>2, <1>4, <1>10, <1>12, <2>1 DEF IsPart
<1>14. \A y : Behind(x, y) = Behind(part, y)
  BY <1>13 DEF Behind
<1>15. pkg' = WithPart(pkg, index, x)
  BY <1>1, <1>2, <1>3, <1>4, <1>7, <1>8, <1>12, Reading DEF Put, WithPart, IsPackage
<1>16. InLine(x)
  <2>1. objects[1].offset = x.start
    <3>1. CASE Len(before) = 0
      BY <1>5, <1>6, <1>7, <1>9, <1>10, <1>13, <3>1 DEF Reached
    <3>2. CASE Len(before) # 0
      <4>1. 1 \in 1 .. Len(before)
        BY <1>9, <3>2
      <4>2. before[1].offset = part.start
        BY <1>6, <1>7, <1>9, <4>1 DEF InLine
      <4>3. QED
        BY <1>10, <1>13, <4>1, <4>2
    <3>3. QED
      BY <3>1, <3>2
  <2>2. ASSUME NEW k \in 1 .. Len(before) + 1, k # 1
        PROVE  objects[k].offset = Behind(x, objects[k - 1])
    <3>1. k - 1 \in 1 .. Len(before) /\ objects[k - 1] = before[k - 1]
      BY <1>9, <1>10, <2>2
    <3>2. CASE k = Len(before) + 1
      <4>1. pos = Behind(part, before[Len(before)])
        <5>1. before # << >>
          BY <1>9, <2>2, <3>2
        <5>2. QED
          BY <1>6, <1>7, <5>1 DEF Reached
      <4>2. k - 1 = Len(before)
        BY <1>9, <3>2
      <4>3. QED
        BY <1>5, <1>10, <1>14, <3>1, <3>2, <4>1, <4>2
    <3>3. CASE k \in 1 .. Len(before)
      <4>1. before[k].offset = Behind(part, before[k - 1])
        BY <1>6, <1>7, <1>9, <2>2, <3>3 DEF InLine
      <4>2. QED
        BY <1>10, <1>14, <3>1, <3>3, <4>1
    <3>4. QED
      BY <1>11, <3>2, <3>3
  <2>3. IsNOS(x) => x.data = << >>
    BY <1>6, <1>13 DEF InLine, IsNOS
  <2>4. QED
    BY <1>10, <1>13, <2>1, <2>2, <2>3 DEF InLine
<1>17. Reached(x, pos')
  <2>1. objects[Len(objects)] = o
    BY <1>10
  <2>2. QED
    BY <1>5, <1>10, <1>13, <1>14, <2>1 DEF Reached
<1>18. QED
  BY <1>1, <1>2, <1>13, <1>15, <1>16, <1>17, LayoutChanged

LEMMA LabelLayout ==
    ASSUME ReaderInv, ReaderInv', LayoutInv, MakeAsmLabel
    PROVE  LayoutInv'
<1> DEFINE k == CHOOSE n \in Unlabelled : \A j \in Unlabelled : n <= j
           made == IF Kind(Objects[k]) = "symbol" THEN SymbolLabel(index, Objects[k].data, Objects)
                   ELSE ObjectLabel(index, Objects[k].offset)
<1>1. phase = "object" /\ index \in 1 .. Len(pkg.parts) /\ index \in DOMAIN pkg.parts
  BY Reading DEF MakeAsmLabel, Loading, ReaderInv, Progress
<1>2. PICK label : label = made
  <2> HIDE DEF made
  <2>1. QED
    OBVIOUS
<1>3. IF label.kind \in {"undefined", "endless"} THEN Stop(label.kind)
      ELSE /\ pkg' = [pkg EXCEPT !.parts[index].objects[k].label = label]
           /\ UNCHANGED <<file, pos, phase, index, status>>
  BY <1>2 DEF MakeAsmLabel
<1> HIDE DEF k, made
<1>4. CASE label.kind \in {"undefined", "endless"}
  <2>1. UNCHANGED <<pos, pkg, phase, index>>
    BY <1>3, <1>4 DEF Stop
  <2>2. QED
    BY <2>1, StoppedLayout
<1>5. CASE label.kind \notin {"undefined", "endless"}
  <2>1. /\ pkg' = [pkg EXCEPT !.parts[index].objects[k].label = label]
        /\ pos' = pos /\ phase' = phase /\ index' = index
    BY <1>3, <1>5
  <2>2. PICK part : part = pkg.parts[index] /\ IsPart(part)
    BY <1>1, Reading
  <2>3. PICK objects : objects = [part.objects EXCEPT ![k] = [part.objects[k] EXCEPT !.label = label]]
    OBVIOUS
  <2>4. PICK x : x = [part EXCEPT !.objects = objects]
    OBVIOUS
  <2>5. pkg' = WithPart(pkg, index, x)
    BY <2>1, <2>2, <2>3, <2>4, Zenon DEF Put, WithPart
  <2>6. /\ DOMAIN pkg'.parts = DOMAIN pkg.parts /\ pkg'.parts[index] = x
        /\ \A i \in DOMAIN pkg.parts : i # index => pkg'.parts[i] = pkg.parts[i]
    <3>1. pkg'.parts = Put(pkg.parts, index, x)
      BY <2>5 DEF WithPart, ReaderInv, IsPackage
    <3>2. QED
      BY <1>1, <3>1 DEF Put
  <2>7. /\ DOMAIN objects = DOMAIN part.objects
        /\ \A j \in DOMAIN part.objects : SamePlace(part.objects[j], objects[j])
    <3>1. DOMAIN objects = DOMAIN part.objects
      BY <2>3
    <3>2. ASSUME NEW j \in DOMAIN part.objects
          PROVE  SamePlace(part.objects[j], objects[j])
      <4>1. CASE j = k
        <5>1. IsObject(part.objects[k])
          BY <2>2, <4>1 DEF IsPart
        <5>2. objects[k] = [part.objects[k] EXCEPT !.label = label]
          BY <2>3, <4>1
        <5>3. QED
          BY <4>1, <5>1, <5>2 DEF SamePlace, IsObject
      <4>2. CASE j # k
        BY <2>3, <4>2 DEF SamePlace
      <4>3. QED
        BY <4>1, <4>2
    <3>3. QED
      BY <3>1, <3>2
  <2>8. IsPart(pkg'.parts[index])
    BY <1>1, <2>6 DEF ReaderInv, IsPackage
  <2>9. SameLine(part, pkg'.parts[index])
    <3>1. x = pkg'.parts[index] /\ x = [part EXCEPT !.objects = objects] /\ IsPart(x)
      BY <2>4, <2>6, <2>8
    <3>2. /\ x.objects = objects /\ x.entry = part.entry /\ x.start = part.start /\ x.align = part.align
          /\ x.data = part.data
      BY <2>2, <3>1 DEF IsPart
    <3>3. /\ Len(objects) \in Nat /\ DOMAIN objects = 1 .. Len(objects)
          /\ Len(part.objects) \in Nat /\ DOMAIN part.objects = 1 .. Len(part.objects)
      BY <2>2, <3>1, <3>2, Elements DEF IsPart
    <3>4. Len(objects) = Len(part.objects)
      <4>1. PICK n \in Nat, m \in Nat : n = Len(objects) /\ m = Len(part.objects) /\ 1 .. n = 1 .. m
        BY <2>7, <3>3
      <4>2. (m >= 1 => m \in 1 .. n) /\ (n >= 1 => n \in 1 .. m)
        BY <4>1
      <4>3. n = m
        BY <4>2
      <4>4. QED
        BY <4>1, <4>3
    <3>5. QED
      BY <2>7, <3>1, <3>2, <3>4 DEF SameLine
  <2>10. ASSUME NEW i \in DOMAIN pkg.parts
         PROVE  SameLine(pkg.parts[i], pkg'.parts[i])
    <3>1. CASE i = index
      BY <2>2, <2>9, <3>1
    <3>2. CASE i # index
      <4>1. pkg'.parts[i] = pkg.parts[i] /\ IsPart(pkg.parts[i])
        BY <2>6, <3>2 DEF ReaderInv, IsPackage
      <4>2. QED
        BY <4>1, SameParts
    <3>3. QED
      BY <3>1, <3>2
  <2>11. \A i \in DOMAIN pkg.parts : Unread(i)' => Unread(i)
    BY <2>1 DEF Unread
  <2>12. phase' = "object" => phase = "object" /\ index' = index /\ pos' = pos
    BY <2>1
  <2>13. QED
    BY <2>6, <2>10, <2>11, <2>12, LayoutStays
<1>6. QED
  BY <1>4, <1>5

LEMMA LoadLayout ==
    ASSUME ReaderInv, ReaderInv', LayoutInv, Load
    PROVE  LayoutInv'
<1>1. CASE Refuse \/ LosePartEnd \/ Succeed \/ ReadPastEnd
  BY <1>1, StoppedLayout DEF Refuse, LosePartEnd, Succeed, ReadPastEnd, Stop
<1>2. CASE LoadHeader \/ LoadEntry \/ LoadTexts
  BY <1>2, DirectoryLayout
<1>3. CASE LoadInfo
  BY <1>3, InfoLayout
<1>4. CASE LoadPackageInfo \/ LoadRelocationHead \/ LoadRelocationSet \/ LoadRelocationPadding
  BY <1>4, RelocationLayout
<1>5. CASE BeginPart \/ LoadGenericPart \/ EndPart
  BY <1>5, BeginPartLayout, GenericPartLayout, EndPartLayout
<1>6. CASE LoadObject \/ MakeAsmLabel
  BY <1>6, ObjectLayout, LabelLayout
<1>7. QED
  BY <1>1, <1>2, <1>3, <1>4, <1>5, <1>6 DEF Load


-----------------------------------------------------------------------------
(* What compareContents calls the same is the same.                          *)
LEMMA ObjectsAgree ==
    ASSUME NEW o, NEW x, CompareObjects(o, x) = 0
    PROVE  o.type = x.type /\ o.class = x.class /\ o.size = x.size /\ o.data = x.data /\ o.refs = x.refs
<1>1. SameBase(o, x) /\ Agree(o, x, {"hash", "data", "refs"})
  BY DEF CompareObjects, Result
<1>2. QED
  BY <1>1 DEF SameBase, Agree

(* Objects of the same lengths, one behind the other, are at the same places.*)
LEMMA SameOffsets ==
    ASSUME NEW part, NEW x, IsPart(part), IsPart(x), InLine(part), InLine(x),
           x.start = part.start, x.align = part.align,
           Len(x.objects) = Len(part.objects),
           \A k \in DOMAIN part.objects : CompareObjects(part.objects[k], x.objects[k]) = 0
    PROVE  \A k \in DOMAIN part.objects : x.objects[k].offset = part.objects[k].offset
<1>1. PICK n \in Nat : n = Len(part.objects) /\ DOMAIN part.objects = 1 .. n /\ DOMAIN x.objects = 1 .. n
  BY Elements DEF IsPart
<1> DEFINE T == {k \in 1 .. n : x.objects[k].offset # part.objects[k].offset}
<1>2. SUFFICES ASSUME T # {}
               PROVE  FALSE
  BY <1>1
<1>3. PICK k \in T : \A m \in T : k <= m
  <2>1. T \subseteq Nat
    OBVIOUS
  <2> HIDE DEF T
  <2>2. QED
    BY <1>2, <2>1, LeastNumber
<1>4. k \in 1 .. n /\ x.objects[k].offset # part.objects[k].offset
  BY <1>3
<1>5. k # 1
  <2>1. 1 \in 1 .. n => x.objects[1].offset = part.objects[1].offset
    BY <1>1 DEF InLine
  <2>2. QED
    BY <1>4, <2>1
<1>6. k - 1 \in 1 .. n /\ ~(k <= k - 1)
  BY <1>4, <1>5
<1>7. x.objects[k - 1].offset = part.objects[k - 1].offset
  BY <1>3, <1>6
<1>8. SamePlace(part.objects[k - 1], x.objects[k - 1])
  <2>1. CompareObjects(part.objects[k - 1], x.objects[k - 1]) = 0
    BY <1>1, <1>6
  <2>2. QED
    BY <1>7, <2>1, ObjectsAgree DEF SamePlace
<1>9. Behind(part, part.objects[k - 1]) = Behind(x, x.objects[k - 1])
  <2>1. Behind(part, part.objects[k - 1]) = Behind(part, x.objects[k - 1])
    BY <1>8, SameRoom
  <2>2. QED
    BY <2>1 DEF Behind
<1>10. /\ part.objects[k].offset = Behind(part, part.objects[k - 1])
       /\ x.objects[k].offset = Behind(x, x.objects[k - 1])
  BY <1>1, <1>4, <1>5 DEF InLine
<1>11. QED
  BY <1>4, <1>9, <1>10

LEMMA SameReferences ==
    ASSUME NEW part, NEW x, DOMAIN x.objects = DOMAIN part.objects,
           \A k \in DOMAIN part.objects : x.objects[k].offset = part.objects[k].offset
    PROVE  \A ref : RefShape(part, ref) = RefShape(x, ref)
<1>1. SUFFICES ASSUME NEW ref
               PROVE  RefShape(part, ref) = RefShape(x, ref)
  OBVIOUS
<1>2. ObjectAt(part, ref) = ObjectAt(x, ref)
  BY DEF ObjectAt
<1>3. PICK places : places = ObjectAt(part, ref)
  OBVIOUS
<1>4. ObjectAt(x, ref) = places
  BY <1>2, <1>3
<1>5. /\ RefShape(part, ref) = IF ref % 4 = 1 /\ places # {} THEN -(CHOOSE k \in places : TRUE) ELSE ref
      /\ RefShape(x, ref) = IF ref % 4 = 1 /\ places # {} THEN -(CHOOSE k \in places : TRUE) ELSE ref
  BY <1>3, <1>4 DEF RefShape
<1>6. QED
  BY <1>5

PartShape(part) ==
    [data |-> part.data, objects |-> [k \in DOMAIN part.objects |-> ObjectShape(part, part.objects[k])]]

LEMMA SamePartShapes ==
    ASSUME NEW part, NEW x, IsPart(part), IsPart(x), InLine(part), InLine(x),
           Agree(part, x, {"start", "align"}), CompareParts(part, x) = 0
    PROVE  PartShape(part) = PartShape(x)
<1>1. CompareData(part, x) = 0 /\ part.entry["flags"] = x.entry["flags"]
  BY DEF CompareParts, Agree
<1>2. /\ IsNOS(part) /\ Len(part.objects) = Len(x.objects)
      /\ \A k \in DOMAIN part.objects : CompareObjects(part.objects[k], x.objects[k]) = 0
  BY <1>1 DEF CompareData, Result
<1>3. IsNOS(x)
  BY <1>1, <1>2 DEF IsNOS
<1>4. part.data = << >> /\ x.data = << >>
  BY <1>2, <1>3 DEF InLine
<1>5. DOMAIN part.objects = DOMAIN x.objects
  BY <1>2, Elements DEF IsPart
<1>6. \A k \in DOMAIN part.objects : x.objects[k].offset = part.objects[k].offset
  <2>1. x.start = part.start /\ x.align = part.align
    BY DEF Agree
  <2>2. QED
    BY <1>2, <2>1, SameOffsets
<1>7. \A ref : RefShape(part, ref) = RefShape(x, ref)
  BY <1>5, <1>6, SameReferences
<1>8. ASSUME NEW k \in DOMAIN part.objects
      PROVE  ObjectShape(part, part.objects[k]) = ObjectShape(x, x.objects[k])
  <2>1. PICK o, y : o = part.objects[k] /\ y = x.objects[k]
    OBVIOUS
  <2>2. o.type = y.type /\ o.class = y.class /\ o.data = y.data /\ o.refs = y.refs
    BY <1>2, <2>1, ObjectsAgree
  <2>3. [i \in DOMAIN o.refs |-> RefShape(part, o.refs[i])] = [i \in DOMAIN y.refs |-> RefShape(x, y.refs[i])]
    BY <1>7, <2>2
  <2>4. RefShape(part, o.class) = RefShape(x, y.class)
    BY <1>7, <2>2
  <2>5. QED
    BY <2>1, <2>2, <2>3, <2>4 DEF ObjectShape
<1>9. [k \in DOMAIN part.objects |-> ObjectShape(part, part.objects[k])]
         = [k \in DOMAIN x.objects |-> ObjectShape(x, x.objects[k])]
  BY <1>5, <1>8
<1>10. QED
  BY <1>4, <1>9 DEF PartShape

(* A package that was loaded.                                                *)
Sound(package) ==
    /\ IsPackage(package)
    /\ Len(package.parts) = NumParts(package)
    /\ \A i \in DOMAIN package.parts : InLine(package.parts[i])

LEMMA SameShapes ==
    ASSUME NEW p, NEW q, Sound(p), Sound(q), PlacedAlike(p, q), Compare(p, q) = 0
    PROVE  Shape(p) = Shape(q)
<1>1. p.header.num_parts = q.header.num_parts /\ NumParts(p) = NumParts(q)
  <2>1. ASSUME p.header.num_parts # q.header.num_parts
        PROVE  FALSE
    <3>1. Compare(p, q) = -1
      BY <2>1, Zenon DEF Compare
    <3>2. QED
      BY <3>1
  <2>2. QED
    BY <2>1, Zenon DEF NumParts
<1>2. PICK n \in Nat : DOMAIN p.parts = 1 .. n /\ DOMAIN q.parts = 1 .. n
  <2>1. /\ DOMAIN p.parts = 1 .. Len(p.parts) /\ Len(p.parts) \in Nat /\ Len(p.parts) = NumParts(p)
        /\ DOMAIN q.parts = 1 .. Len(q.parts) /\ Len(q.parts) = NumParts(q)
    BY PartsOf DEF Sound
  <2>2. QED
    BY <1>1, <2>1
<1>3. ASSUME NEW i \in DOMAIN p.parts
      PROVE  CompareParts(p.parts[i], q.parts[i]) = 0
  <2> DEFINE results == [k \in DOMAIN p.parts |-> CompareParts(p.parts[k], q.parts[k])]
             header  == Result(/\ Agree(p.header, q.header,
                                        {"signature", "type", "flags", "version", "size", "date"})
                               /\ Agree(p, q, {"copyright", "name"}))
  <2>1. FirstDifference(header, results) = 0
    BY <1>1 DEF Compare
  <2>2. DOMAIN results = DOMAIN p.parts /\ results[i] = CompareParts(p.parts[i], q.parts[i])
    OBVIOUS
  <2> HIDE DEF results, header
  <2>3. results # << >>
    BY <2>2
  <2>4. \A k \in DOMAIN results : results[k] = 0
    BY <2>1, <2>3 DEF FirstDifference, Result
  <2>5. QED
    BY <2>2, <2>4
<1>4. ASSUME NEW i \in DOMAIN p.parts
      PROVE  PartShape(p.parts[i]) = PartShape(q.parts[i])
  <2>1. PICK part, x : part = p.parts[i] /\ x = q.parts[i]
    OBVIOUS
  <2>2. IsPart(part) /\ IsPart(x) /\ InLine(part) /\ InLine(x)
    BY <1>2, <2>1 DEF Sound, IsPackage
  <2>3. Agree(part, x, {"start", "align"}) /\ CompareParts(part, x) = 0
    BY <1>3, <2>1 DEF PlacedAlike
  <2>4. QED
    BY <2>1, <2>2, <2>3, SamePartShapes
<1>5. \A package : Shape(package) = [i \in DOMAIN package.parts |-> PartShape(package.parts[i])]
  BY DEF Shape, PartShape
<1>6. QED
  BY <1>2, <1>4, <1>5

(* The packages that are compared are those that were loaded.                *)
CompareInv ==
    /\ stage \in {"written", "not assembled", "second", "compared"} => Sound(original)
    /\ stage = "compared" => result = -1 \/ (result = Compare(original, pkg) /\ Sound(pkg))

SameInv == Inv /\ LayoutInv /\ CompareInv

LEMMA LoadedIsSound ==
    ASSUME ReaderInv, LayoutInv, status = "loaded"
    PROVE  Sound(pkg)
  BY DEF ReaderInv, Progress, LayoutInv, Sound

LEMMA InitSame == Init => SameInv
<1> SUFFICES ASSUME Init
             PROVE  SameInv
  OBVIOUS
<1>1. LayoutInv
  BY EmptyPackage DEF Init, Begin, LayoutInv
<1>2. CompareInv
  BY DEF Init, CompareInv
<1>3. QED
  BY <1>1, <1>2, InitInv DEF SameInv

LEMMA NextSame == SameInv /\ [Next]_vars => SameInv'
<1> SUFFICES ASSUME SameInv, [Next]_vars
             PROVE  SameInv'
  OBVIOUS
<1>1. Inv /\ Inv' /\ ReaderInv /\ ReaderInv' /\ LayoutInv /\ CompareInv
  BY NextInv DEF SameInv, Inv
<1>2. CASE LoadFirst \/ LoadSecond
  <2>1. Load /\ UNCHANGED main /\ stage \in {"first", "second"}
    BY <1>2 DEF LoadFirst, LoadSecond
  <2>2. LayoutInv'
    BY <1>1, <2>1, LoadLayout
  <2>3. CompareInv'
    BY <1>1, <2>1 DEF CompareInv, main
  <2>4. QED
    BY <1>1, <2>2, <2>3 DEF SameInv
<1>3. CASE WriteAsm
  <2>1. UNCHANGED <<pos, pkg, phase, index>> /\ status = "loaded"
    BY <1>3 DEF WriteAsm
  <2>2. LayoutInv' /\ Sound(pkg)
    BY <1>1, <2>1, StoppedLayout, LoadedIsSound
  <2>3. stage' = "undefined" \/ (stage' = "written" /\ original' = pkg)
    BY <1>3 DEF WriteAsm
  <2>4. QED
    BY <1>1, <2>2, <2>3 DEF SameInv, CompareInv, Sound
<1>4. CASE EditAsm
  <2>1. UNCHANGED <<pos, pkg, phase, index, original, stage>> /\ stage = "written"
    BY <1>4 DEF EditAsm
  <2>2. LayoutInv'
    BY <1>1, <2>1, StoppedLayout
  <2>3. QED
    BY <1>1, <2>1, <2>2 DEF SameInv, CompareInv
<1>5. ASSUME NEW bytes, LoadOther(bytes)
      PROVE  LayoutInv' /\ stage' = "second"
  BY <1>5, EmptyPackage DEF LoadOther, LayoutInv
<1>6. CASE Assemble
  <2>1. stage = "written" /\ original' = original
    BY <1>6 DEF Assemble
  <2>2. CASE Assembles(asm)
    <3>1. LayoutInv' /\ stage' = "second"
      BY <1>5, <1>6, <2>2 DEF Assemble
    <3>2. QED
      BY <1>1, <2>1, <3>1 DEF SameInv, CompareInv
  <2>3. CASE ~Assembles(asm)
    <3>1. stage' = "not assembled" /\ UNCHANGED <<pos, pkg, phase, index>>
      BY <1>6, <2>3 DEF Assemble
    <3>2. LayoutInv'
      BY <1>1, <3>1, StoppedLayout
    <3>3. QED
      BY <1>1, <2>1, <3>1, <3>2 DEF SameInv, CompareInv
  <2>4. QED
    BY <2>2, <2>3
<1>7. CASE CompareWithFile
  <2>1. status = "loaded" /\ original' = pkg
    BY <1>7 DEF CompareWithFile
  <2>2. LayoutInv' /\ stage' = "second"
    BY <1>5, <1>7 DEF CompareWithFile
  <2>3. Sound(pkg)
    BY <1>1, <2>1, LoadedIsSound
  <2>4. QED
    BY <1>1, <2>1, <2>2, <2>3 DEF SameInv, CompareInv
<1>8. CASE CompareContents
  <2>1. /\ UNCHANGED <<pos, pkg, phase, index, original>> /\ stage = "second" /\ stage' = "compared"
        /\ status \in {"loaded", "refused"}
        /\ result' = IF status = "refused" THEN -1 ELSE Compare(original, pkg)
    BY <1>8 DEF CompareContents
  <2>2. LayoutInv'
    BY <1>1, <2>1, StoppedLayout
  <2>3. status = "loaded" => Sound(pkg)
    BY <1>1, LoadedIsSound
  <2>4. CompareInv'
    BY <1>1, <2>1, <2>3 DEF CompareInv
  <2>5. QED
    BY <1>1, <2>2, <2>4 DEF SameInv
<1>9. CASE UNCHANGED vars
  <2>1. UNCHANGED <<pos, pkg, phase, index, original, stage, result>>
    BY <1>9 DEF vars
  <2>2. LayoutInv'
    BY <1>1, <2>1, StoppedLayout
  <2>3. QED
    BY <1>1, <2>1, <2>2 DEF SameInv, CompareInv
<1>10. QED
  BY <1>2, <1>3, <1>4, <1>6, <1>7, <1>8, <1>9 DEF Next

(* Whatever two files are compared: when compareContents finds no difference *)
(* and the parts are at the same places, the packages have the same objects, *)
(* and every reference leads to the same one: CompareSeesParts of Repacking. *)
THEOREM SameIsTheSame == Spec => []CompareSeesParts
<1>1. SameInv => CompareSeesParts
  <2> SUFFICES ASSUME SameInv, stage = "compared", result = 0, PlacedAlike(original, pkg)
               PROVE  Shape(original) = Shape(pkg)
    BY DEF CompareSeesParts
  <2>1. Sound(original) /\ Sound(pkg) /\ Compare(original, pkg) = 0
    BY DEF SameInv, CompareInv
  <2>2. QED
    BY <2>1, SameShapes
<1>2. Spec => []SameInv
  BY InitSame, NextSame, PTL DEF Spec
<1>3. QED
  BY <1>1, <1>2, PTL

-----------------------------------------------------------------------------
(* How many bytes there are in front of the parts, as the writer counts.     *)
Lengths(package) == [i \in DOMAIN package.parts |-> Len(package.parts[i].info)]
Sizes(package)   == [i \in DOMAIN package.parts |-> SizeOf(package.parts[i])]

TextsRoom(package) ==
    (IF HasText(package, "copyright_length") THEN 2 * (Len(package.copyright) + 1) ELSE 0)
      + (IF HasText(package, "name_length") THEN 2 * (Len(package.name) + 1) ELSE 0)

BeforeInfo(package) == 52 + 32 * Len(package.parts) + TextsRoom(package) + Added(Lengths(package))

Directory(package) == BeforeInfo(package) + Len(package.info)

RelocationRoom(package) == IF HasRelocation(package) THEN RelocationSize(package) ELSE 0

(* Where the parts begin of which the loader has seen the beginning, and the *)
(* position for the next one.                                                *)
Begun(i) == i < index \/ (i = index /\ phase = "object")

Beginning(i) == IF Begun(i) THEN pkg.parts[i].start ELSE pos

(* The loader is where the writer's count is, and behind it if relocation    *)
(* data or parts are longer than they say.                                   *)
DirectoryCounted ==
    /\ phase = "entry" => pos = 52 + 32 * Len(pkg.parts) /\ \A i \in DOMAIN pkg.parts : pkg.parts[i].info = << >>
    /\ phase = "info" => pos = BeforeInfo(pkg) /\ \A i \in DOMAIN pkg.parts : i >= index => pkg.parts[i].info = << >>
    /\ phase = "relocation" => HasRelocation(pkg) /\ pos = Directory(pkg)
    /\ phase = "set" => HasRelocation(pkg) /\ pkg.relocation.start = Directory(pkg)
                        /\ pkg.relocation.start <= pos

PartsCounted ==
    phase \in {"part", "object"} =>
       /\ index <= Len(pkg.parts) + 1
       /\ IF HasRelocation(pkg)
          THEN /\ pkg.relocation.start = Directory(pkg)
               /\ Beginning(1) >= pkg.relocation.start + RelocationRoom(pkg)
          ELSE Beginning(1) = Directory(pkg)
       /\ \A i \in DOMAIN pkg.parts : i < index => Beginning(i + 1) >= Beginning(i) + SizeOf(pkg.parts[i])

CountInv ==
    /\ DirectoryCounted /\ PartsCounted
    /\ status = "loaded" => index > Len(pkg.parts)

-----------------------------------------------------------------------------
(* The writer's count. *)
LEMMA CountsAreInts ==
    ASSUME NEW package, IsPackage(package)
    PROVE  /\ Lengths(package) \in [1 .. Len(package.parts) -> Int]
           /\ Sizes(package) \in [1 .. Len(package.parts) -> Int]
           /\ TextsRoom(package) \in Nat /\ BeforeInfo(package) \in Int /\ Directory(package) \in Int
<1>1. PICK n \in Nat : n = Len(package.parts) /\ DOMAIN package.parts = 1 .. n
                       /\ \A i \in 1 .. n : IsPart(package.parts[i])
  BY PartsOf
<1>2. Lengths(package) \in [1 .. n -> Int]
  <2>1. \A i \in 1 .. n : Len(package.parts[i].info) \in Nat
    BY <1>1, LenProperties DEF IsPart
  <2>2. QED
    BY <1>1, <2>1 DEF Lengths
<1>3. Sizes(package) \in [1 .. n -> Int]
  <2>1. \A i \in 1 .. n : SizeOf(package.parts[i]) \in Int
    BY <1>1, EntryNumbers
  <2>2. QED
    BY <1>1, <2>1 DEF Sizes
<1>4. Len(package.info) \in Nat /\ Len(package.copyright) \in Nat /\ Len(package.name) \in Nat
  BY LenProperties DEF IsPackage
<1>5. TextsRoom(package) \in Nat
  <2>1. PICK c \in Nat, m \in Nat :
            /\ c = IF HasText(package, "copyright_length") THEN 2 * (Len(package.copyright) + 1) ELSE 0
            /\ m = IF HasText(package, "name_length") THEN 2 * (Len(package.name) + 1) ELSE 0
    BY <1>4
  <2>2. TextsRoom(package) = c + m
    BY <2>1, Zenon DEF TextsRoom
  <2>3. QED
    BY <2>2
<1>6. Added(Lengths(package)) \in Int
  BY <1>2, SumOfParts
<1>7. BeforeInfo(package) \in Int
  BY <1>1, <1>5, <1>6 DEF BeforeInfo
<1>8. QED
  BY <1>1, <1>2, <1>3, <1>4, <1>5, <1>7 DEF Directory

LEMMA WrittenInParts ==
    ASSUME NEW package, IsWhole(package)
    PROVE  /\ RelocationRoom(package) \in Int
           /\ Written(package) = Directory(package) + RelocationRoom(package) + Added(Sizes(package))
<1>1. RelocationRoom(package) \in Int
  <2>1. HasRelocation(package) => RelocationSize(package) \in Int
    BY RelocationSizeIsInt DEF IsWhole
  <2>2. QED
    BY <2>1 DEF RelocationRoom
<1>2. PICK n \in Nat : n = Len(package.parts)
  BY PartsOf DEF IsWhole
<1>3. PICK infos \in Int, sizes \in Int : infos = Added(Lengths(package)) /\ sizes = Added(Sizes(package))
  <2>1. Lengths(package) \in [1 .. n -> Int] /\ Sizes(package) \in [1 .. n -> Int]
    BY <1>2, CountsAreInts DEF IsWhole
  <2>2. QED
    BY <2>1, SumOfParts
<1>4. PICK c \in Nat, m \in Nat :
          /\ c = IF HasText(package, "copyright_length") THEN 2 * (Len(package.copyright) + 1) ELSE 0
          /\ m = IF HasText(package, "name_length") THEN 2 * (Len(package.name) + 1) ELSE 0
  <2>1. Len(package.copyright) \in Nat /\ Len(package.name) \in Nat
    BY LenProperties DEF IsWhole, IsPackage
  <2>2. QED
    BY <2>1
<1>5. PICK d \in Nat : d = Len(package.info)
  BY LenProperties DEF IsWhole, IsPackage
<1>6. PICK r \in Int : r = RelocationRoom(package)
  BY <1>1
<1>7. Written(package) = 52 + 32 * n + c + m + infos + d + sizes + r
  <2>1. HeaderSize = 52 /\ EntrySize = 32
    BY DEF HeaderSize, EntrySize
  <2>2. /\ infos = Added([i \in DOMAIN package.parts |-> Len(package.parts[i].info)])
        /\ sizes = Added([i \in DOMAIN package.parts |-> SizeOf(package.parts[i])])
    BY <1>3 DEF Lengths, Sizes
  <2>3. WrittenWithoutRelocation(package) = 52 + 32 * n + c + m + infos + d + sizes
    BY <1>2, <1>4, <1>5, <2>1, <2>2, Zenon DEF WrittenWithoutRelocation
  <2>4. QED
    BY <1>6, <2>3, Zenon DEF Written, RelocationRoom
<1>8. Directory(package) = 52 + 32 * n + (c + m) + infos + d
  <2>1. TextsRoom(package) = c + m
    BY <1>4, Zenon DEF TextsRoom
  <2>2. QED
    BY <1>2, <1>3, <1>5, <2>1, Zenon DEF Directory, BeforeInfo
<1>9. 52 + 32 * n + c + m + infos + d + sizes + r = 52 + 32 * n + (c + m) + infos + d + r + sizes
  OBVIOUS
<1>10. QED
  BY <1>1, <1>3, <1>6, <1>7, <1>8, <1>9, Zenon

(* A text takes the bytes that it is written with.                           *)
LEMMA TextCounted ==
    ASSUME NEW at, NEW c \in Nat
    PROVE  TextRoom(c) = IF c # 0 THEN 2 * (Len(TextAt(at, c)) + 1) ELSE 0
<1>1. CASE c = 0
  BY <1>1 DEF TextRoom
<1>2. CASE c \in 1 .. 3
  <2>1. 1 .. (c \div 2 - 1) = 1 .. 0
    BY <1>2
  <2>2. TextAt(at, c) = << >>
    BY <1>2, <2>1 DEF TextAt
  <2>3. QED
    BY <1>2, <2>2 DEF TextRoom
<1>3. CASE c > 3
  <2>1. PICK n \in Nat : n = c \div 2 - 1
    BY <1>3
  <2>2. TextAt(at, c) = [i \in 1 .. n |-> Number(Slice(file, at + 2 * i - 2, 2))]
    BY <1>3, <2>1 DEF TextAt
  <2>3. Len(TextAt(at, c)) = n
    BY <2>2
  <2>4. QED
    BY <1>3, <2>1, <2>3 DEF TextRoom
<1>4. QED
  BY <1>1, <1>2, <1>3

(* Packages that have the same in front of their parts.                      *)
SameFront(p, q) ==
    /\ q.header = p.header /\ q.copyright = p.copyright /\ q.name = p.name /\ q.info = p.info
    /\ Len(q.parts) = Len(p.parts) /\ DOMAIN q.parts = DOMAIN p.parts
    /\ \A k \in DOMAIN p.parts : q.parts[k].info = p.parts[k].info

LEMMA FrontStays ==
    ASSUME NEW p, NEW q, SameFront(p, q)
    PROVE  /\ BeforeInfo(q) = BeforeInfo(p) /\ Directory(q) = Directory(p)
           /\ HasRelocation(q) = HasRelocation(p)
<1>1. Lengths(q) = Lengths(p)
  BY DEF Lengths, SameFront
<1>2. TextsRoom(q) = TextsRoom(p)
  BY Zenon DEF TextsRoom, HasText, SameFront
<1>3. BeforeInfo(q) = BeforeInfo(p)
  BY <1>1, <1>2, Zenon DEF BeforeInfo, SameFront
<1>4. Directory(q) = Directory(p)
  BY <1>3, Zenon DEF Directory, SameFront
<1>5. HasRelocation(q) = HasRelocation(p)
  BY DEF HasRelocation, SameFront
<1>6. QED
  BY <1>3, <1>4, <1>5


-----------------------------------------------------------------------------
(* The loader counts as the writer does. *)
LEMMA StoppedCount ==
    ASSUME CountInv, UNCHANGED <<pos, pkg, phase, index>>,
           status' = "loaded" => status = "loaded" \/ index > Len(pkg.parts)
    PROVE  CountInv'
<1>1. DirectoryCounted'
  BY DEF CountInv, DirectoryCounted
<1>2. PartsCounted'
  BY DEF CountInv, PartsCounted, Beginning, Begun
<1>3. QED
  BY <1>1, <1>2 DEF CountInv

LEMMA HeaderCount ==
    ASSUME ReaderInv, CountInv, LoadHeader
    PROVE  CountInv'
<1>1. /\ pkg = NoPackage /\ pkg' = [pkg EXCEPT !.header = Fields(file, 0, HeaderFields)]
      /\ pos' = 52 /\ phase' = "entry" /\ status' = "loading"
  BY DEF LoadHeader, Loading, HeaderSize, Go, ReaderInv, Progress
<1>2. Len(pkg'.parts) = 0 /\ DOMAIN pkg'.parts = {}
  BY <1>1 DEF NoPackage
<1>3. QED
  BY <1>1, <1>2 DEF CountInv, DirectoryCounted, PartsCounted

LEMMA EntryCount ==
    ASSUME ReaderInv, CountInv, LoadEntry
    PROVE  CountInv'
<1>1. PICK x : x = NewPart(Fields(file, pos, EntryFields))
  OBVIOUS
<1>2. /\ pkg' = [pkg EXCEPT !.parts = Append(pkg.parts, x)]
      /\ phase = "entry" /\ phase' = "entry" /\ status' = "loading" /\ pos' = pos + 32
  BY <1>1 DEF LoadEntry, Loading, EntrySize, Go
<1>3. IsSequence(pkg.parts) /\ Len(pkg.parts) \in Nat /\ DOMAIN pkg.parts = 1 .. Len(pkg.parts)
  BY PartsOf DEF ReaderInv
<1>4. pkg'.parts = Append(pkg.parts, x)
  BY <1>2 DEF ReaderInv, IsPackage
<1>5. /\ Len(pkg'.parts) = Len(pkg.parts) + 1 /\ DOMAIN pkg'.parts = 1 .. Len(pkg.parts) + 1
      /\ \A k \in 1 .. Len(pkg.parts) : pkg'.parts[k] = pkg.parts[k]
      /\ pkg'.parts[Len(pkg.parts) + 1] = x
  BY <1>3, <1>4, Appended, Elements
<1>6. pos = 52 + 32 * Len(pkg.parts) /\ \A i \in DOMAIN pkg.parts : pkg.parts[i].info = << >>
  BY <1>2 DEF CountInv, DirectoryCounted
<1>7. x.info = << >>
  BY <1>1 DEF NewPart
<1>8. \A i \in DOMAIN pkg'.parts : pkg'.parts[i].info = << >>
  BY <1>3, <1>5, <1>6, <1>7
<1>9. pos' = 52 + 32 * Len(pkg'.parts)
  BY <1>2, <1>3, <1>5, <1>6
<1>10. QED
  BY <1>2, <1>8, <1>9 DEF CountInv, DirectoryCounted, PartsCounted

LEMMA TextsCount ==
    ASSUME ReaderInv, ReaderInv', CountInv, LoadTexts
    PROVE  CountInv'
<1>1. PICK c \in Nat, n \in Nat :
          c = Number(pkg.header["copyright_length"]) /\ n = Number(pkg.header["name_length"])
  <2>1. IsFields(pkg.header, HeaderFields)
    BY DEF LoadTexts, Loading, ReaderInv, Progress
  <2>2. QED
    BY <2>1, HeaderNumbers
<1>2. PICK a \in Nat, b \in Nat :
          a = TextRoom(c) /\ b = TextRoom(n)
          /\ TextBytes("copyright_length") = a /\ TextBytes("name_length") = b
  BY <1>1 DEF TextBytes, TextRoom
<1>3. PICK copyright, name : copyright = TextAt(pos, c) /\ name = TextAt(pos + a, n)
  OBVIOUS
<1>4. /\ phase = "entry" /\ status' = "loading" /\ pos' = pos + a + b /\ phase' = "info" /\ index' = 1
      /\ pkg' = [pkg EXCEPT !.copyright = copyright, !.name = name]
  BY <1>1, <1>2, <1>3 DEF LoadTexts, Loading, Go
<1>5. /\ pkg'.header = pkg.header /\ pkg'.parts = pkg.parts
      /\ pkg'.copyright = copyright /\ pkg'.name = name
  BY <1>4 DEF ReaderInv, IsPackage
<1>6. TextsRoom(pkg') = a + b
  <2>1. a = IF c # 0 THEN 2 * (Len(copyright) + 1) ELSE 0
    BY <1>2, <1>3, TextCounted
  <2>2. b = IF n # 0 THEN 2 * (Len(name) + 1) ELSE 0
    BY <1>2, <1>3, TextCounted
  <2>3. HasText(pkg', "copyright_length") = (c # 0) /\ HasText(pkg', "name_length") = (n # 0)
    BY <1>1, <1>5 DEF HasText
  <2>4. QED
    BY <1>5, <2>1, <2>2, <2>3, Zenon DEF TextsRoom
<1>7. PICK N \in Nat : N = Len(pkg.parts) /\ DOMAIN pkg.parts = 1 .. N
  BY Reading
<1>8. pos = 52 + 32 * N /\ \A i \in 1 .. N : pkg'.parts[i].info = << >>
  BY <1>4, <1>5, <1>7 DEF CountInv, DirectoryCounted
<1>9. Added(Lengths(pkg')) = 0
  <2>1. PICK s : s = Lengths(pkg')
    OBVIOUS
  <2>2. s \in [1 .. N -> Int] /\ \A i \in 1 .. N : s[i] = 0
    BY <1>5, <1>7, <1>8, <2>1 DEF Lengths
  <2>3. QED
    BY <2>1, <2>2, AddedZeros
<1>10. pos' = BeforeInfo(pkg')
  <2>1. BeforeInfo(pkg') = 52 + 32 * N + (a + b) + 0
    BY <1>5, <1>6, <1>7, <1>9, Zenon DEF BeforeInfo
  <2>2. QED
    BY <1>4, <1>8, <2>1
<1>11. \A i \in DOMAIN pkg'.parts : pkg'.parts[i].info = << >>
  BY <1>5, <1>7, <1>8
<1>12. QED
  BY <1>4, <1>10, <1>11 DEF CountInv, DirectoryCounted, PartsCounted

LEMMA InfoCount ==
    ASSUME ReaderInv, ReaderInv', CountInv, LoadInfo
    PROVE  CountInv'
<1>1. /\ phase = "info" /\ phase' = "info" /\ index <= NumParts(pkg) /\ Has(InfoLength)
      /\ pos' = pos + InfoLength /\ index' = index + 1 /\ status' = "loading"
      /\ pkg' = [pkg EXCEPT !.parts[index].info = Slice(file, pos, InfoLength)]
  BY DEF LoadInfo, Loading, Go
<1>2. PICK N \in Nat : N = Len(pkg.parts) /\ DOMAIN pkg.parts = 1 .. N /\ index \in 1 .. N
                       /\ IsPart(pkg.parts[index])
  BY <1>1, Reading DEF ReaderInv, Progress
<1>3. PICK n \in Nat : n = InfoLength /\ pos + n <= Len(file)
  BY <1>1, <1>2, EntryNumbers DEF InfoLength, Current, Has
<1>4. PICK info : info = Slice(file, pos, n) /\ Len(info) = n
  BY <1>3, Reading, SliceOfBytes DEF ReaderInv
<1>5. /\ pkg'.parts = [pkg.parts EXCEPT ![index] = [@ EXCEPT !.info = info]]
      /\ pkg'.header = pkg.header /\ pkg'.copyright = pkg.copyright /\ pkg'.name = pkg.name
  BY <1>1, <1>3, <1>4 DEF ReaderInv, IsPackage
<1>6. /\ DOMAIN pkg'.parts = 1 .. N
      /\ pkg'.parts[index].info = info
      /\ \A k \in 1 .. N : k # index => pkg'.parts[k] = pkg.parts[k]
  BY <1>2, <1>5 DEF IsPart
<1>7. Len(pkg'.parts) = N
  <2>1. PICK m \in Nat : m = Len(pkg'.parts) /\ DOMAIN pkg'.parts = 1 .. m
    BY PartsOf DEF ReaderInv
  <2>2. N \in 1 .. N => N \in 1 .. m
    BY <1>6, <2>1
  <2>3. m \in 1 .. m => m \in 1 .. N
    BY <1>6, <2>1
  <2>4. QED
    BY <1>2, <2>1, <2>2, <2>3
<1>8. /\ pos = BeforeInfo(pkg)
      /\ \A i \in DOMAIN pkg.parts : i >= index => pkg.parts[i].info = << >>
  BY <1>1 DEF CountInv, DirectoryCounted
<1>9. PICK s, t : s = Lengths(pkg) /\ t = Lengths(pkg')
  OBVIOUS
<1>10. Added(t) = Added(s) + n /\ Added(s) \in Int
  <2>1. s \in [1 .. N -> Int] /\ t \in [1 .. N -> Int]
    BY <1>2, <1>7, <1>9, CountsAreInts DEF ReaderInv
  <2>2. t[index] = s[index] + n
    <3>1. s[index] = 0
      <4>1. pkg.parts[index].info = << >>
        BY <1>2, <1>8
      <4>2. QED
        BY <1>2, <1>9, <4>1 DEF Lengths
    <3>2. t[index] = n
      BY <1>2, <1>4, <1>6, <1>9 DEF Lengths
    <3>3. QED
      BY <3>1, <3>2
  <2>3. \A k \in 1 .. N : k # index => t[k] = s[k]
    BY <1>2, <1>6, <1>9 DEF Lengths
  <2>4. PICK i \in 1 .. N : i = index
    BY <1>2
  <2>5. Added(t) = Added(s) + n
    BY <2>1, <2>2, <2>3, <2>4, AddedAtOne
  <2>6. QED
    BY <2>1, <2>5, SumOfParts
<1>11. pos' = BeforeInfo(pkg')
  <2>1. PICK r \in Nat : r = TextsRoom(pkg)
    BY CountsAreInts DEF ReaderInv
  <2>2. TextsRoom(pkg') = r
    BY <1>5, <2>1, Zenon DEF TextsRoom, HasText
  <2>3. PICK sum \in Int : sum = Added(s) /\ Added(t) = sum + n
    BY <1>10
  <2>4. pos = 52 + 32 * N + r + sum
    BY <1>2, <1>8, <1>9, <2>1, <2>3, Zenon DEF BeforeInfo
  <2>5. BeforeInfo(pkg') = 52 + 32 * N + r + (sum + n)
    BY <1>7, <1>9, <2>2, <2>3, Zenon DEF BeforeInfo
  <2>6. QED
    BY <1>1, <1>3, <2>4, <2>5
<1>12. \A i \in DOMAIN pkg'.parts : i >= index' => pkg'.parts[i].info = << >>
  BY <1>1, <1>2, <1>6, <1>8
<1>13. QED
  BY <1>1, <1>11, <1>12 DEF CountInv, DirectoryCounted, PartsCounted


LEMMA PackageInfoCount ==
    ASSUME ReaderInv, ReaderInv', CountInv, LoadPackageInfo
    PROVE  CountInv'
<1>1. /\ phase = "info" /\ status' = "loading" /\ IsFields(pkg.header, HeaderFields)
      /\ Has(PackageInfoLength) /\ pos' = pos + PackageInfoLength /\ index' = 1
      /\ phase' = IF HasRelocation(pkg) THEN "relocation" ELSE "part"
      /\ pkg' = [pkg EXCEPT !.info = Slice(file, pos, PackageInfoLength)]
  BY DEF LoadPackageInfo, Loading, Go, ReaderInv, Progress
<1>2. PICK n \in Nat : n = PackageInfoLength /\ pos + n <= Len(file)
  <2>1. PackageInfoLength \in Int
    BY <1>1, HeaderNumbers, Reading DEF PackageInfoLength
  <2>2. QED
    BY <1>1, <2>1 DEF Has
<1>3. PICK info : info = Slice(file, pos, n) /\ Len(info) = n
  BY <1>2, Reading, SliceOfBytes DEF ReaderInv
<1>4. /\ pkg'.info = info /\ pkg'.header = pkg.header /\ pkg'.copyright = pkg.copyright
      /\ pkg'.name = pkg.name /\ pkg'.parts = pkg.parts
  BY <1>1, <1>2, <1>3 DEF ReaderInv, IsPackage
<1>5. BeforeInfo(pkg') = BeforeInfo(pkg) /\ BeforeInfo(pkg) \in Int
  <2>1. TextsRoom(pkg') = TextsRoom(pkg) /\ Lengths(pkg') = Lengths(pkg)
    BY <1>4, Zenon DEF TextsRoom, HasText, Lengths
  <2>2. BeforeInfo(pkg) \in Int
    BY CountsAreInts DEF ReaderInv
  <2>3. QED
    BY <1>4, <2>1, <2>2, Zenon DEF BeforeInfo
<1>6. pos' = Directory(pkg')
  <2>1. pos = BeforeInfo(pkg)
    BY <1>1 DEF CountInv, DirectoryCounted
  <2>2. QED
    BY <1>1, <1>2, <1>3, <1>4, <1>5, <2>1, Zenon DEF Directory
<1>7. HasRelocation(pkg') = HasRelocation(pkg)
  BY <1>4 DEF HasRelocation
<1>8. CASE HasRelocation(pkg)
  BY <1>1, <1>6, <1>7, <1>8 DEF CountInv, DirectoryCounted, PartsCounted
<1>9. CASE ~HasRelocation(pkg)
  <2>1. phase' = "part" /\ index' = 1 /\ ~HasRelocation(pkg')
    BY <1>1, <1>7, <1>9
  <2>2. Beginning(1)' = pos'
    BY <2>1 DEF Beginning, Begun
  <2>3. DOMAIN pkg'.parts \subseteq Nat /\ Len(pkg'.parts) \in Nat /\ \A i \in DOMAIN pkg'.parts : ~(i < 1)
    <3>1. IsPackage(pkg')
      BY DEF ReaderInv
    <3>2. QED
      BY <3>1, PartsOf
  <2>4. PartsCounted'
    BY <1>6, <2>1, <2>2, <2>3 DEF PartsCounted
  <2>5. QED
    BY <1>1, <2>1, <2>4 DEF CountInv, DirectoryCounted
<1>10. QED
  BY <1>8, <1>9

(* Steps that leave the directory as it is.                                  *)
LEMMA RelocationHeadCount ==
    ASSUME ReaderInv, ReaderInv', CountInv, LoadRelocationHead
    PROVE  CountInv'
<1>1. /\ phase = "relocation" /\ status' = "loading" /\ phase' = "set"
      /\ pkg' = [pkg EXCEPT !.relocation =
                    [pkg.relocation EXCEPT !.head = Slice(file, pos, 20), !.start = pos]]
  BY DEF LoadRelocationHead, Loading, Go
<1>2. SameFront(pkg, pkg')
  BY <1>1 DEF ReaderInv, IsPackage, SameFront
<1>3. Directory(pkg') = Directory(pkg) /\ HasRelocation(pkg') = HasRelocation(pkg)
  BY <1>2, FrontStays
<1>4. pkg'.relocation.start = pos
  BY <1>1, Reading DEF IsPackage, Relocations
<1>5. HasRelocation(pkg) /\ pos = Directory(pkg)
  BY <1>1 DEF CountInv, DirectoryCounted
<1>6. pkg'.relocation.start <= pos'
  BY <1>4, Reading DEF LoadRelocationHead
<1>7. QED
  BY <1>1, <1>3, <1>4, <1>5, <1>6 DEF CountInv, DirectoryCounted, PartsCounted

LEMMA RelocationSetCount ==
    ASSUME ReaderInv, ReaderInv', CountInv, LoadRelocationSet
    PROVE  CountInv'
<1>1. /\ phase = "set" /\ status' = "loading" /\ phase' = "set"
      /\ pkg' = [pkg EXCEPT !.relocation.sets = Append(@, Slice(file, pos, SetLength + SetPadding))]
  BY DEF LoadRelocationSet, Loading, Go
<1>2. SameFront(pkg, pkg')
  BY <1>1 DEF ReaderInv, IsPackage, SameFront
<1>3. Directory(pkg') = Directory(pkg) /\ HasRelocation(pkg') = HasRelocation(pkg)
  BY <1>2, FrontStays
<1>4. pkg'.relocation.start = pkg.relocation.start /\ pkg.relocation.start \in Nat
  BY <1>1, Reading DEF IsPackage, Relocations
<1>5. HasRelocation(pkg) /\ pkg.relocation.start = Directory(pkg) /\ pkg.relocation.start <= pos
  BY <1>1 DEF CountInv, DirectoryCounted
<1>6. pkg'.relocation.start <= pos'
  BY <1>4, <1>5, SetIsRead, Reading
<1>7. QED
  BY <1>1, <1>3, <1>4, <1>5, <1>6 DEF CountInv, DirectoryCounted, PartsCounted

LEMMA RelocationPaddingCount ==
    ASSUME ReaderInv, ReaderInv', CountInv, LoadRelocationPadding
    PROVE  CountInv'
<1>1. /\ phase = "set" /\ status' = "loading" /\ phase' = "part" /\ index' = 1
      /\ Len(pkg.relocation.head) = 20
  BY DEF LoadRelocationPadding, Loading, Go, ReaderInv, Progress
<1>2. PICK padding : \/ RelocationPadding <= 0 /\ UNCHANGED <<pos, pkg>>
                     \/ /\ RelocationPadding > 0 /\ pos' = pos + RelocationPadding
                        /\ pkg' = [pkg EXCEPT !.relocation.padding = padding]
  BY DEF LoadRelocationPadding
<1>3. /\ SameFront(pkg, pkg') /\ pkg'.relocation.start = pkg.relocation.start
      /\ pkg'.relocation.head = pkg.relocation.head
  <2>1. CASE UNCHANGED pkg
    BY <2>1 DEF SameFront
  <2>2. CASE pkg' = [pkg EXCEPT !.relocation.padding = padding]
    BY <2>2 DEF ReaderInv, IsPackage, Relocations, SameFront
  <2>3. QED
    BY <1>2, <2>1, <2>2
<1>4. Directory(pkg') = Directory(pkg) /\ HasRelocation(pkg') = HasRelocation(pkg)
  BY <1>3, FrontStays
<1>5. HasRelocation(pkg) /\ pkg.relocation.start = Directory(pkg) /\ pkg.relocation.start <= pos
  BY <1>1 DEF CountInv, DirectoryCounted
<1>6. PICK start \in Nat, size \in Nat, at \in Nat :
          /\ start = pkg.relocation.start /\ size = Number(Slice(pkg.relocation.head, 4, 4))
          /\ at = pos /\ start <= at
  <2>1. Number(Slice(pkg.relocation.head, 4, 4)) \in Nat
    BY <1>1, Reading, RelocationSizeIsInt
  <2>2. pkg.relocation.start \in Nat
    BY Reading DEF IsPackage, Relocations
  <2>3. QED
    BY <1>5, <2>1, <2>2, Reading
<1>7. PICK room \in Int : room = RelocationSize(pkg) /\ room = AsInt(size)
  BY <1>6, AsIntIsInt DEF RelocationSize
<1>8. pos' >= start + room
  <2>1. PICK n \in Int : n = start + size - at /\ RelocationPadding = AsInt(n)
    BY <1>6 DEF RelocationPadding
  <2>2. PICK w \in Nat : w = WordValues
    BY AsIntIsInt, <2>1
  <2>3. /\ room = IF 2 * size < w THEN size ELSE size - w
        /\ RelocationPadding = IF 2 * n < w THEN n ELSE n - w
    BY <1>7, <2>1, <2>2 DEF AsInt
  <2>4. pos' = IF RelocationPadding > 0 THEN at + RelocationPadding ELSE at
    BY <1>2, <1>6, <2>1, <2>3
  <2>5. CASE 2 * n < w
    BY <1>6, <2>1, <2>3, <2>4, <2>5
  <2>6. CASE 2 * n >= w
    BY <1>6, <2>1, <2>3, <2>4, <2>6
  <2>7. QED
    BY <2>1, <2>2, <2>5, <2>6
<1>9. Beginning(1)' = pos'
  BY <1>1 DEF Beginning, Begun
<1>10. RelocationRoom(pkg') = room
  BY <1>3, <1>4, <1>5, <1>7 DEF RelocationRoom, RelocationSize
<1>11. DOMAIN pkg'.parts \subseteq Nat /\ Len(pkg'.parts) \in Nat /\ \A i \in DOMAIN pkg'.parts : ~(i < 1)
  <2>1. IsPackage(pkg')
    BY DEF ReaderInv
  <2>2. QED
    BY <2>1, PartsOf
<1>12. PartsCounted'
  <2>1. pkg'.relocation.start = start /\ start = Directory(pkg') /\ HasRelocation(pkg')
    BY <1>3, <1>4, <1>5, <1>6
  <2>2. Beginning(1)' >= pkg'.relocation.start + RelocationRoom(pkg')
    BY <1>8, <1>9, <1>10, <2>1
  <2>3. index' <= Len(pkg'.parts) + 1 /\ \A i \in DOMAIN pkg'.parts : ~(i < index')
    BY <1>1, <1>11
  <2>4. QED
    BY <2>1, <2>2, <2>3 DEF PartsCounted
<1>13. QED
  BY <1>1, <1>12 DEF CountInv, DirectoryCounted


-----------------------------------------------------------------------------
(* What steps do that read a part: the part begins where the loader was, or  *)
(* where it began; when it ends, the loader is behind it.                    *)
SameBeginnings ==
    /\ SameFront(pkg, pkg') /\ pkg'.relocation = pkg.relocation
    /\ \A k \in DOMAIN pkg.parts : pkg'.parts[k].entry = pkg.parts[k].entry
    /\ \A k \in DOMAIN pkg.parts :
          pkg'.parts[k].start = IF k = index THEN Beginning(index) ELSE pkg.parts[k].start

Within == phase' = "object" /\ index' = index

BehindPart ==
    /\ phase' = "part" /\ index' = index + 1
    /\ pos' >= Beginning(index) + SizeOf(pkg.parts[index])

LEMMA PartCount ==
    ASSUME ReaderInv, ReaderInv', CountInv, phase \in {"part", "object"}, status' = "loading",
           index \in DOMAIN pkg.parts, SameBeginnings, Within \/ BehindPart
    PROVE  CountInv'
<1>1. PICK N \in Nat : N = Len(pkg.parts) /\ DOMAIN pkg.parts = 1 .. N /\ index \in 1 .. N
  BY Reading
<1>2. Len(pkg'.parts) = N /\ DOMAIN pkg'.parts = 1 .. N
  BY <1>1 DEF SameBeginnings, SameFront
<1>3. ASSUME NEW i \in 1 .. N, i <= index
      PROVE  Beginning(i)' = Beginning(i)
  <2>1. Begun(i)'
    BY <1>1, <1>3 DEF Begun, Within, BehindPart
  <2>2. Beginning(i)' = pkg'.parts[i].start
    BY <2>1 DEF Beginning
  <2>3. CASE i = index
    BY <1>1, <2>2, <2>3 DEF SameBeginnings
  <2>4. CASE i # index
    <3>1. Begun(i)
      BY <1>1, <1>3, <2>4 DEF Begun
    <3>2. Beginning(i) = pkg.parts[i].start
      BY <3>1 DEF Beginning
    <3>3. QED
      BY <1>1, <2>2, <2>4, <3>2 DEF SameBeginnings
  <2>5. QED
    BY <2>3, <2>4
<1>4. \A i \in 1 .. N : SizeOf(pkg'.parts[i]) = SizeOf(pkg.parts[i])
  BY <1>1 DEF SameBeginnings, SizeOf
<1>5. /\ Directory(pkg') = Directory(pkg) /\ HasRelocation(pkg') = HasRelocation(pkg)
      /\ RelocationRoom(pkg') = RelocationRoom(pkg) /\ pkg'.relocation = pkg.relocation
  <2>1. Directory(pkg') = Directory(pkg) /\ HasRelocation(pkg') = HasRelocation(pkg)
    BY FrontStays DEF SameBeginnings
  <2>2. pkg'.relocation = pkg.relocation
    BY DEF SameBeginnings
  <2>3. QED
    BY <2>1, <2>2 DEF RelocationRoom, RelocationSize
<1>6. PartsCounted
  BY DEF CountInv
<1>7. Beginning(1)' = Beginning(1)
  <2>1. 1 \in 1 .. N /\ 1 <= index
    BY <1>1
  <2>2. QED
    BY <1>3, <2>1
<1>8. ASSUME NEW i \in 1 .. N, i < index'
      PROVE  Beginning(i + 1)' >= Beginning(i)' + SizeOf(pkg'.parts[i])
  <2>1. CASE i < index
    <3>1. i + 1 \in 1 .. N /\ i + 1 <= index /\ i <= index
      BY <1>1, <2>1
    <3>2. Beginning(i + 1)' = Beginning(i + 1) /\ Beginning(i)' = Beginning(i)
      BY <1>3, <3>1
    <3>3. Beginning(i + 1) >= Beginning(i) + SizeOf(pkg.parts[i])
      BY <1>1, <1>6, <2>1 DEF PartsCounted
    <3>4. QED
      BY <1>4, <3>2, <3>3
  <2>2. CASE i = index
    <3>1. BehindPart
      BY <1>1, <1>8, <2>2 DEF Within
    <3>2. Beginning(i + 1)' = pos'
      BY <1>1, <2>2, <3>1 DEF Beginning, Begun, BehindPart
    <3>3. Beginning(i)' = Beginning(i)
      BY <1>1, <1>3, <2>2
    <3>4. QED
      BY <1>4, <2>2, <3>1, <3>2, <3>3 DEF BehindPart
  <2>3. QED
    BY <1>1, <1>8, <2>1, <2>2 DEF Within, BehindPart
<1>9. index' <= Len(pkg'.parts) + 1
  BY <1>1, <1>2 DEF Within, BehindPart
<1>10. PartsCounted'
  <2>1. IF HasRelocation(pkg)
        THEN /\ pkg.relocation.start = Directory(pkg)
             /\ Beginning(1) >= pkg.relocation.start + RelocationRoom(pkg)
        ELSE Beginning(1) = Directory(pkg)
    BY <1>6 DEF PartsCounted
  <2>2. IF HasRelocation(pkg')
        THEN /\ pkg'.relocation.start = Directory(pkg')
             /\ Beginning(1)' >= pkg'.relocation.start + RelocationRoom(pkg')
        ELSE Beginning(1)' = Directory(pkg')
    BY <1>5, <1>7, <2>1, Zenon
  <2>3. QED
    BY <1>2, <1>8, <1>9, <2>2 DEF PartsCounted
<1>11. DirectoryCounted'
  BY DEF DirectoryCounted, Within, BehindPart
<1>12. QED
  BY <1>10, <1>11 DEF CountInv

LEMMA ChangedPart ==
    ASSUME ReaderInv, index \in DOMAIN pkg.parts, NEW x, IsPart(x), pkg' = WithPart(pkg, index, x),
           x.entry = pkg.parts[index].entry, x.info = pkg.parts[index].info, x.start = Beginning(index)
    PROVE  SameBeginnings
<1>1. PICK p, i, q : p = pkg /\ i = index /\ q = pkg'
  OBVIOUS
<1>2. IsPackage(p) /\ i \in DOMAIN p.parts /\ q = WithPart(p, i, x)
  BY <1>1 DEF ReaderInv
<1>3. /\ q.header = p.header /\ q.relocation = p.relocation
      /\ Len(q.parts) = Len(p.parts) /\ DOMAIN q.parts = 1 .. Len(p.parts)
      /\ \A k \in 1 .. Len(p.parts) : q.parts[k] = IF k = i THEN x ELSE p.parts[k]
  BY <1>2, PartChanged
<1>4. DOMAIN p.parts = 1 .. Len(p.parts)
  BY <1>2, PartsOf
<1>5. q.copyright = p.copyright /\ q.name = p.name /\ q.info = p.info
  <2>1. PICK parts : parts = Put(p.parts, i, x)
    OBVIOUS
  <2>2. q = [p EXCEPT !.parts = parts]
    BY <1>2, <2>1, Zenon DEF WithPart
  <2>3. QED
    BY <1>2, <2>2 DEF IsPackage
<1>6. ASSUME NEW k \in DOMAIN p.parts
      PROVE  /\ q.parts[k].info = p.parts[k].info /\ q.parts[k].entry = p.parts[k].entry
             /\ q.parts[k].start = IF k = i THEN Beginning(i) ELSE p.parts[k].start
  <2>1. CASE k = i
    BY <1>1, <1>3, <1>4, <2>1
  <2>2. CASE k # i
    BY <1>3, <1>4, <2>2
  <2>3. QED
    BY <2>1, <2>2
<1>7. SameFront(p, q)
  BY <1>3, <1>4, <1>5, <1>6 DEF SameFront
<1>8. QED
  BY <1>1, <1>3, <1>6, <1>7 DEF SameBeginnings

LEMMA BeginPartCount ==
    ASSUME ReaderInv, ReaderInv', CountInv, BeginPart
    PROVE  CountInv'
<1>1. PICK align \in {4, 8} : pkg' = [pkg EXCEPT !.parts[index].start = pos, !.parts[index].align = align]
  BY DEF BeginPart
<1>2. /\ phase = "part" /\ index <= NumParts(pkg) /\ phase' = "object" /\ index' = index
      /\ status' = "loading"
  BY DEF BeginPart, Loading, Go
<1>3. index \in 1 .. Len(pkg.parts) /\ index \in DOMAIN pkg.parts /\ IsPart(pkg.parts[index])
  BY <1>2, Reading DEF ReaderInv, Progress
<1>4. PICK x : x = [pkg.parts[index] EXCEPT !.start = pos, !.align = align]
  OBVIOUS
<1>5. /\ IsPart(x) /\ x.start = pos /\ x.info = pkg.parts[index].info
      /\ x.entry = pkg.parts[index].entry
  BY <1>3, <1>4, Reading DEF IsPart
<1>6. pkg' = WithPart(pkg, index, x)
  BY <1>1, <1>3, <1>4, Reading DEF Put, WithPart, IsPackage
<1>7. Beginning(index) = pos
  BY <1>2, <1>3 DEF Beginning, Begun
<1>8. SameBeginnings
  BY <1>3, <1>5, <1>6, <1>7, ChangedPart
<1>9. QED
  BY <1>2, <1>3, <1>8, PartCount DEF Within

LEMMA GenericPartCount ==
    ASSUME ReaderInv, ReaderInv', CountInv, LoadGenericPart
    PROVE  CountInv'
<1>1. /\ phase = "part" /\ index <= NumParts(pkg) /\ Has(SizeOf(Current))
      /\ phase' = "part" /\ index' = index + 1 /\ status' = "loading"
      /\ pos' = pos + SizeOf(Current)
      /\ pkg' = [pkg EXCEPT !.parts[index].start = pos,
                            !.parts[index].data = Slice(file, pos, SizeOf(Current))]
  BY DEF LoadGenericPart, Loading, Go
<1>2. index \in 1 .. Len(pkg.parts) /\ index \in DOMAIN pkg.parts /\ IsPart(pkg.parts[index])
  BY <1>1, Reading DEF ReaderInv, Progress
<1>3. PICK n \in Nat : n = SizeOf(Current) /\ pos + n <= Len(file)
  BY <1>1, <1>2, EntryNumbers DEF Current, Has
<1>4. PICK data \in Seq(Byte) : data = Slice(file, pos, n)
  BY <1>3, Reading, SliceOfBytes DEF ReaderInv
<1>5. PICK x : x = [pkg.parts[index] EXCEPT !.start = pos, !.data = data]
  OBVIOUS
<1>6. /\ IsPart(x) /\ x.start = pos /\ x.info = pkg.parts[index].info
      /\ x.entry = pkg.parts[index].entry
  BY <1>2, <1>4, <1>5, Reading DEF IsPart
<1>7. pkg' = WithPart(pkg, index, x)
  BY <1>1, <1>2, <1>3, <1>4, <1>5, Reading DEF Put, WithPart, IsPackage
<1>8. Beginning(index) = pos
  BY <1>1, <1>2 DEF Beginning, Begun
<1>9. SameBeginnings
  BY <1>2, <1>6, <1>7, <1>8, ChangedPart
<1>10. BehindPart
  BY <1>1, <1>3, <1>8, Reading DEF BehindPart, Current
<1>11. QED
  BY <1>1, <1>2, <1>9, <1>10, PartCount

LEMMA EndPartCount ==
    ASSUME ReaderInv, ReaderInv', CountInv, EndPart
    PROVE  CountInv'
<1>1. /\ phase = "object" /\ phase' = "part" /\ index' = index + 1 /\ status' = "loading"
      /\ pos' = pos /\ pkg' = pkg /\ EndReached(Current)
  BY DEF EndPart, Loading, Go
<1>2. index \in 1 .. Len(pkg.parts) /\ index \in DOMAIN pkg.parts
  BY <1>1, Reading DEF ReaderInv, Progress
<1>3. Beginning(index) = pkg.parts[index].start
  BY <1>1 DEF Beginning, Begun
<1>4. SameBeginnings
  BY <1>1, <1>3 DEF SameBeginnings, SameFront
<1>5. BehindPart
  BY <1>1, <1>3 DEF BehindPart, EndReached, Current
<1>6. QED
  BY <1>1, <1>2, <1>4, <1>5, PartCount

(* Objects and labels. *)
LEMMA ObjectsCount ==
    ASSUME ReaderInv, ReaderInv', CountInv, phase = "object", NEW objects,
           pkg' = [pkg EXCEPT !.parts[index].objects = objects],
           phase' = "object", index' = index, status' = "loading"
    PROVE  CountInv'
<1>1. index \in 1 .. Len(pkg.parts) /\ index \in DOMAIN pkg.parts /\ IsPart(pkg.parts[index])
  BY Reading DEF ReaderInv, Progress
<1>2. PICK part : part = pkg.parts[index] /\ IsPart(part)
  BY <1>1
<1>3. PICK x : x = [part EXCEPT !.objects = objects]
  OBVIOUS
<1>4. x.start = part.start /\ x.info = part.info /\ x.entry = part.entry
  BY <1>2, <1>3 DEF IsPart
<1>5. /\ pkg'.parts = [pkg.parts EXCEPT ![index] = x]
      /\ pkg'.header = pkg.header /\ pkg'.copyright = pkg.copyright /\ pkg'.name = pkg.name
      /\ pkg'.info = pkg.info /\ pkg'.relocation = pkg.relocation
  BY <1>2, <1>3 DEF ReaderInv, IsPackage
<1>6. Beginning(index) = part.start
  BY <1>2 DEF Beginning, Begun
<1>7. /\ DOMAIN pkg'.parts = DOMAIN pkg.parts
      /\ \A k \in DOMAIN pkg.parts : pkg'.parts[k] = IF k = index THEN x ELSE pkg.parts[k]
  BY <1>1, <1>5
<1>8. Len(pkg'.parts) = Len(pkg.parts)
  <2>1. PICK m \in Nat, n \in Nat :
            /\ m = Len(pkg'.parts) /\ DOMAIN pkg'.parts = 1 .. m
            /\ n = Len(pkg.parts) /\ DOMAIN pkg.parts = 1 .. n
    BY PartsOf DEF ReaderInv
  <2>2. n \in 1 .. n => n \in 1 .. m
    BY <1>7, <2>1
  <2>3. m \in 1 .. m => m \in 1 .. n
    BY <1>7, <2>1
  <2>4. QED
    BY <2>1, <2>2, <2>3
<1>9. ASSUME NEW k \in DOMAIN pkg.parts
      PROVE  /\ pkg'.parts[k].info = pkg.parts[k].info /\ pkg'.parts[k].entry = pkg.parts[k].entry
             /\ pkg'.parts[k].start = IF k = index THEN Beginning(index) ELSE pkg.parts[k].start
  <2>1. CASE k = index
    BY <1>2, <1>4, <1>6, <1>7, <2>1
  <2>2. CASE k # index
    BY <1>7, <2>2
  <2>3. QED
    BY <2>1, <2>2
<1>10. SameBeginnings
  BY <1>5, <1>7, <1>8, <1>9 DEF SameBeginnings, SameFront
<1>11. QED
  BY <1>1, <1>10, PartCount DEF Within

LEMMA ObjectCount ==
    ASSUME ReaderInv, ReaderInv', CountInv, LoadObject
    PROVE  CountInv'
<1>1. /\ phase = "object" /\ phase' = "object" /\ index' = index /\ status' = "loading"
      /\ pkg' = [pkg EXCEPT !.parts[index].objects = Append(@, LoadedObject)]
  BY DEF LoadObject, Loading, Go
<1>2. PICK objects : objects = Append(pkg.parts[index].objects, LoadedObject)
  OBVIOUS
<1>3. pkg' = [pkg EXCEPT !.parts[index].objects = objects]
  BY <1>1, <1>2 DEF ReaderInv, IsPackage
<1>4. QED
  BY <1>1, <1>3, ObjectsCount

LEMMA LabelCount ==
    ASSUME ReaderInv, ReaderInv', CountInv, MakeAsmLabel
    PROVE  CountInv'
<1> DEFINE k == CHOOSE n \in Unlabelled : \A j \in Unlabelled : n <= j
           made == IF Kind(Objects[k]) = "symbol" THEN SymbolLabel(index, Objects[k].data, Objects)
                   ELSE ObjectLabel(index, Objects[k].offset)
<1>1. phase = "object" /\ status = "loading"
  BY DEF MakeAsmLabel, Loading
<1>2. PICK label : label = made
  <2> HIDE DEF made
  <2>1. QED
    OBVIOUS
<1>3. IF label.kind \in {"undefined", "endless"} THEN Stop(label.kind)
      ELSE /\ pkg' = [pkg EXCEPT !.parts[index].objects[k].label = label]
           /\ UNCHANGED <<file, pos, phase, index, status>>
  BY <1>2 DEF MakeAsmLabel
<1> HIDE DEF k, made
<1>4. CASE label.kind \in {"undefined", "endless"}
  <2>1. UNCHANGED <<pos, pkg, phase, index>> /\ status' # "loaded"
    BY <1>3, <1>4 DEF Stop
  <2>2. QED
    BY <2>1, StoppedCount
<1>5. CASE label.kind \notin {"undefined", "endless"}
  <2>1. /\ pkg' = [pkg EXCEPT !.parts[index].objects[k].label = label]
        /\ phase' = phase /\ index' = index /\ status' = status
    BY <1>3, <1>5
  <2>2. PICK objects : objects = [pkg.parts[index].objects EXCEPT ![k].label = label]
    OBVIOUS
  <2>3. pkg' = [pkg EXCEPT !.parts[index].objects = objects]
    BY <2>1, <2>2 DEF ReaderInv, IsPackage
  <2>4. QED
    BY <1>1, <2>1, <2>3, ObjectsCount
<1>6. QED
  BY <1>4, <1>5


LEMMA LoadCount ==
    ASSUME ReaderInv, ReaderInv', CountInv, Load
    PROVE  CountInv'
<1>1. CASE Refuse \/ LosePartEnd \/ ReadPastEnd
  BY <1>1, StoppedCount DEF Refuse, LosePartEnd, ReadPastEnd, Stop
<1>2. CASE Succeed
  <2>1. UNCHANGED <<pos, pkg, phase, index>> /\ index > Len(pkg.parts)
    BY <1>2 DEF Succeed, Loading, Stop, ReaderInv, Progress
  <2>2. QED
    BY <2>1, StoppedCount
<1>3. CASE LoadHeader \/ LoadEntry \/ LoadTexts
  BY <1>3, HeaderCount, EntryCount, TextsCount
<1>4. CASE LoadInfo \/ LoadPackageInfo
  BY <1>4, InfoCount, PackageInfoCount
<1>5. CASE LoadRelocationHead \/ LoadRelocationSet \/ LoadRelocationPadding
  BY <1>5, RelocationHeadCount, RelocationSetCount, RelocationPaddingCount
<1>6. CASE BeginPart \/ LoadGenericPart \/ EndPart
  BY <1>6, BeginPartCount, GenericPartCount, EndPartCount
<1>7. CASE LoadObject \/ MakeAsmLabel
  BY <1>7, ObjectCount, LabelCount
<1>8. QED
  BY <1>1, <1>2, <1>3, <1>4, <1>5, <1>6, <1>7 DEF Load

(* When all is loaded, the beginnings of the parts lead from the end of the  *)
(* directory to the position.                                                *)
LEMMA LoadedIsCounted ==
    ASSUME ReaderInv, CountInv, status = "loaded"
    PROVE  Written(pkg) <= pos /\ (Exact(pkg, pos) => Written(pkg) = pos)
<1>1. PICK N \in Nat : N = Len(pkg.parts) /\ DOMAIN pkg.parts = 1 .. N
  BY Reading
<1>2. phase = "part" /\ index = N + 1
  <2>1. phase = "part"
    BY DEF ReaderInv, Progress
  <2>2. index > N /\ index <= N + 1 /\ index \in Nat
    BY <1>1, <2>1, Reading DEF CountInv, PartsCounted
  <2>3. QED
    BY <1>1, <2>1, <2>2
<1>3. PICK at \in Nat : at = pos
  BY Reading
<1> DEFINE b == [i \in 1 .. N + 1 |-> Beginning(i)]
<1>4. /\ \A i \in 1 .. N : Beginning(i) = pkg.parts[i].start /\ pkg.parts[i].start \in Nat
      /\ Beginning(N + 1) = at
  <2>1. \A i \in 1 .. N : Begun(i)
    BY <1>2 DEF Begun
  <2>2. ~Begun(N + 1)
    BY <1>2 DEF Begun
  <2>3. \A i \in 1 .. N : pkg.parts[i].start \in Nat
    BY <1>1, Reading DEF IsPart
  <2>4. QED
    BY <1>3, <2>1, <2>2, <2>3 DEF Beginning
<1>5. b \in [1 .. N + 1 -> Int]
  <2>1. \A i \in 1 .. N + 1 : i \in 1 .. N \/ i = N + 1
    OBVIOUS
  <2>2. QED
    BY <1>4, <2>1
<1>6. PICK s \in [1 .. N -> Int] : s = Sizes(pkg)
  BY <1>1, CountsAreInts DEF ReaderInv
<1>7. \A i \in 1 .. N : s[i] = SizeOf(pkg.parts[i])
  BY <1>1, <1>6 DEF Sizes
<1>8. \A i \in 1 .. N : i \in 1 .. N + 1 /\ i + 1 \in 1 .. N + 1
  OBVIOUS
<1>9. \A i \in 1 .. N : b[i] = Beginning(i) /\ b[i + 1] = Beginning(i + 1)
  BY <1>8
<1>10. ASSUME NEW i \in 1 .. N
       PROVE  b[i + 1] >= b[i] + s[i]
  <2>1. i \in DOMAIN pkg.parts /\ i < index
    BY <1>1, <1>2
  <2>2. Beginning(i + 1) >= Beginning(i) + SizeOf(pkg.parts[i])
    BY <1>2, <2>1 DEF CountInv, PartsCounted
  <2>3. QED
    BY <1>7, <1>9, <2>2, Zenon
<1>11. b[1] = Beginning(1) /\ b[N + 1] = at
  BY <1>4
<1> HIDE DEF b
<1>12. /\ b[N + 1] >= b[1] + Added(s)
       /\ (\A i \in 1 .. N : b[i + 1] = b[i] + s[i]) => b[N + 1] = b[1] + Added(s)
  BY <1>5, <1>10, Telescope
<1>13. PICK front \in Int, room \in Int, sum \in Int, first \in Int :
           front = Directory(pkg) /\ room = RelocationRoom(pkg) /\ sum = Added(s) /\ first = b[1]
  <2>1. IsWhole(pkg) /\ IsPackage(pkg)
    BY LoadedIsWhole DEF ReaderInv
  <2>2. Directory(pkg) \in Int /\ RelocationRoom(pkg) \in Int
    BY <2>1, CountsAreInts, WrittenInParts
  <2>3. Added(s) \in Int
    BY SumOfParts
  <2>4. b[1] \in Int
    BY <1>5
  <2>5. QED
    BY <2>2, <2>3, <2>4
<1>14. Written(pkg) = front + room + sum
  <2>1. IsWhole(pkg)
    BY LoadedIsWhole
  <2>2. Written(pkg) = Directory(pkg) + RelocationRoom(pkg) + Added(Sizes(pkg))
    BY <2>1, WrittenInParts
  <2>3. QED
    BY <1>6, <1>13, <2>2, Zenon
<1>15. IF HasRelocation(pkg) THEN pkg.relocation.start = front /\ first >= front + room
       ELSE first = front /\ room = 0
  <2>1. IF HasRelocation(pkg)
        THEN /\ pkg.relocation.start = Directory(pkg)
             /\ Beginning(1) >= pkg.relocation.start + RelocationRoom(pkg)
        ELSE Beginning(1) = Directory(pkg)
    BY <1>2 DEF CountInv, PartsCounted
  <2>2. ~HasRelocation(pkg) => RelocationRoom(pkg) = 0
    BY DEF RelocationRoom
  <2>3. QED
    BY <1>11, <1>13, <2>1, <2>2, Zenon
<1>16. Written(pkg) <= pos
  <2>1. at >= first + sum
    BY <1>11, <1>12, <1>13, Zenon
  <2>2. first >= front + room
    BY <1>15
  <2>3. at >= front + room + sum
    BY <2>1, <2>2
  <2>4. QED
    BY <1>3, <1>14, <2>3
<1>17. ASSUME Exact(pkg, pos)
       PROVE  Written(pkg) = pos
  <2>1. \A i \in 1 .. N + 1 : Begins(pkg, pos, i) = Beginning(i)
    <3>1. \A i \in 1 .. N + 1 : i \in 1 .. N \/ i = N + 1
      OBVIOUS
    <3>2. N + 1 \notin 1 .. N
      OBVIOUS
    <3>3. QED
      BY <1>1, <1>3, <1>4, <3>1, <3>2 DEF Begins
  <2>2. \A i \in 1 .. N : b[i + 1] = b[i] + s[i]
    <3>1. ASSUME NEW i \in 1 .. N
          PROVE  b[i + 1] = b[i] + s[i]
      <4>1. Begins(pkg, pos, i + 1) = pkg.parts[i].start + SizeOf(pkg.parts[i])
        BY <1>1, <1>17 DEF Exact
      <4>2. Begins(pkg, pos, i + 1) = b[i + 1]
        BY <1>8, <1>9, <2>1
      <4>3. QED
        BY <1>4, <1>7, <1>9, <4>1, <4>2, Zenon
    <3>2. QED
      BY <3>1
  <2>3. at = first + sum
    BY <1>11, <1>12, <1>13, <2>2, Zenon
  <2>4. first = front + room
    <3>1. CASE HasRelocation(pkg)
      <4>1. Begins(pkg, pos, 1) = pkg.relocation.start + RelocationRoom(pkg)
        BY <1>17, <3>1 DEF Exact, RelocationRoom
      <4>2. 1 \in 1 .. N + 1
        OBVIOUS
      <4>3. first = pkg.relocation.start + room
        BY <1>11, <1>13, <2>1, <4>1, <4>2, Zenon
      <4>4. QED
        BY <1>15, <3>1, <4>3
    <3>2. CASE ~HasRelocation(pkg)
      BY <1>15, <3>2
    <3>3. QED
      BY <3>1, <3>2
  <2>5. QED
    BY <1>3, <1>14, <2>3, <2>4
<1>18. QED
  BY <1>16, <1>17

LEMMA InitCount == Init => CountInv
  BY DEF Init, Begin, CountInv, DirectoryCounted, PartsCounted

LEMMA NextCount == Inv /\ Inv' /\ CountInv /\ [Next]_vars => CountInv'
<1> SUFFICES ASSUME ReaderInv, ReaderInv', CountInv, [Next]_vars
             PROVE  CountInv'
  BY DEF Inv
<1>1. CASE LoadFirst \/ LoadSecond
  BY <1>1, LoadCount DEF LoadFirst, LoadSecond
<1>2. CASE WriteAsm \/ EditAsm \/ CompareContents \/ UNCHANGED vars
  <2>1. UNCHANGED <<pos, pkg, phase, index, status>>
    BY <1>2 DEF WriteAsm, EditAsm, CompareContents, vars
  <2>2. QED
    BY <2>1, StoppedCount
<1>3. ASSUME NEW bytes, LoadOther(bytes)
      PROVE  CountInv'
  BY <1>3 DEF LoadOther, CountInv, DirectoryCounted, PartsCounted
<1>4. CASE Assemble
  <2>1. CASE Assembles(asm)
    BY <1>3, <1>4, <2>1 DEF Assemble
  <2>2. CASE ~Assembles(asm)
    <3>1. UNCHANGED <<pos, pkg, phase, index, status>>
      BY <1>4, <2>2 DEF Assemble
    <3>2. QED
      BY <3>1, StoppedCount
  <2>3. QED
    BY <2>1, <2>2
<1>5. CASE CompareWithFile
  BY <1>3, <1>5 DEF CompareWithFile
<1>6. QED
  BY <1>1, <1>2, <1>4, <1>5 DEF Next

(* For every file: the number of bytes that writeAsm returns is never more   *)
(* than what load has read; and it is what load has read, if relocation data *)
(* and parts end where they say: BytesCounted of Repacking.                  *)
THEOREM BytesAreCounted == Spec => []BytesCounted
<1>1. ReaderInv /\ CountInv => BytesCounted
  BY LoadedIsCounted DEF BytesCounted
<1>2. Inv /\ CountInv => BytesCounted
  BY <1>1 DEF Inv
<1>3. Spec => []CountInv
  BY Invariance, InitCount, NextCount, PTL DEF Spec
<1>4. QED
  BY <1>2, <1>3, Invariance, PTL

=============================================================================
