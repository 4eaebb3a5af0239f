----------------------------- MODULE FoldProofs -----------------------------
(***************************************************************************)
(* Facts about the folds of the models, whatever their length: what        *)
(* Rehydrate and SumOf make of a stream that grows, shrinks or is empty,   *)
(* and what Total makes of a function on a finite set when one value       *)
(* changes.  That such a fold exists and is the only one is shown by       *)
(* induction, from the well-foundedness of <.                              *)
(***************************************************************************)
EXTENDS OrderDomain, FiniteSetTheorems, WellFoundedInduction, TLAPS

(* Every set of natural numbers with 0 and, with n, n + 1 has them all.    *)
LEMMA Induction ==
  ASSUME NEW P, 0 \in P, \A n \in Nat : n \in P => n + 1 \in P
  PROVE  \A n \in Nat : n \in P
<1> DEFINE R == OpToRel(<, Nat)
           T == Nat \ P
<1>1. \A x, y \in Nat : x < y => <<x, y>> \in R
  BY DEF OpToRel
<1>2. IsWellFoundedOn(R, Nat)
  BY NatLessThanWellFounded
<1> HIDE DEF R
<1> SUFFICES ASSUME T # {} PROVE FALSE
  OBVIOUS
<1>3. PICK m \in T : \A y \in T : ~ (<<y, m>> \in R)
  BY <1>2, WFMin
<1>4. \A k \in T : ~ (k < m)
  BY <1>1, <1>3
<1>5. m # 0
  OBVIOUS
<1>6. m - 1 \in Nat /\ m - 1 \in P
  BY <1>4, <1>5
<1> QED BY <1>6

\* The steps of a fold of length n over S: one function for each position.
Steps(S, n) == [1..n -> [S -> S]]

\* f holds what folding the steps F from s0 gives on the way.
FoldOf(f, S, s0, n, F) ==
  f \in [0..n -> S] /\ f[0] = s0 /\ \A i \in 1..n : f[i] = F[i][f[i - 1]]

(* Steps have a fold, whatever their number.                               *)
LEMMA FoldExists ==
  ASSUME NEW S, NEW s0 \in S, NEW n \in Nat, NEW F \in Steps(S, n)
  PROVE  \E f : FoldOf(f, S, s0, n, F)
<1> USE DEF Steps
<1> DEFINE Good(f, k) == f[0] = s0 /\ \A i \in 1..k : f[i] = F[i][f[i - 1]]
           P == {k \in Nat : k <= n => \E f \in [0..k -> S] : Good(f, k)}
<1>1. 0 \in P
  <2> DEFINE f == [i \in 0..0 |-> s0]
  <2>1. f \in [0..0 -> S] /\ f[0] = s0
    OBVIOUS
  <2>2. 1..0 = {}
    OBVIOUS
  <2> QED BY <2>1, <2>2
<1>2. ASSUME NEW k \in Nat, k \in P PROVE k + 1 \in P
  <2> SUFFICES ASSUME k + 1 <= n PROVE \E g \in [0..(k + 1) -> S] : Good(g, k + 1)
    OBVIOUS
  <2>1. PICK f \in [0..k -> S] : Good(f, k)
    BY <1>2
  <2> DEFINE last == F[k + 1][f[k]]
             g == [i \in 0..(k + 1) |-> IF i = k + 1 THEN last ELSE f[i]]
  <2>2. last \in S
    <3>1. f[k] \in S /\ k + 1 \in 1..n
      OBVIOUS
    <3> QED BY <3>1
  <2>3. g \in [0..(k + 1) -> S]
    BY <2>2
  <2>4. g[0] = s0
    BY <2>1
  <2>5. ASSUME NEW i \in 1..(k + 1) PROVE g[i] = F[i][g[i - 1]]
    <3>1. g[i - 1] = f[i - 1]
      OBVIOUS
    <3>2. CASE i = k + 1
      BY <3>1, <3>2
    <3>3. CASE i # k + 1
      <4>1. i \in 1..k /\ g[i] = f[i]
        BY <3>3
      <4> QED BY <2>1, <3>1, <4>1
    <3> QED BY <3>2, <3>3
  <2> QED BY <2>3, <2>4, <2>5
<1>3. \A k \in Nat : k \in P
  <2> HIDE DEF P
  <2> QED BY <1>1, <1>2, Induction
<1>4. n \in P /\ n <= n
  BY <1>3
<1> QED BY <1>4 DEF FoldOf

\* f and g start alike, and go on alike where they were alike.
Alike(f, g, n) ==
  f[0] = g[0] /\ \A i \in 1..n : f[i - 1] = g[i - 1] => f[i] = g[i]

(* Two functions that start alike and go on alike agree.                   *)
LEMMA FoldUnique ==
  ASSUME NEW n \in Nat, NEW f, NEW g, Alike(f, g, n)
  PROVE  \A i \in 0..n : f[i] = g[i]
<1> USE DEF Alike
<1> DEFINE P == {k \in Nat : k <= n => f[k] = g[k]}
<1>1. 0 \in P
  OBVIOUS
<1>2. ASSUME NEW k \in Nat, k \in P PROVE k + 1 \in P
  <2> SUFFICES ASSUME k + 1 <= n PROVE f[k + 1] = g[k + 1]
    OBVIOUS
  <2>1. f[k] = g[k] /\ k + 1 \in 1..n /\ (k + 1) - 1 = k
    BY <1>2
  <2> DEFINE j == k + 1
  <2>2. j \in 1..n /\ f[j - 1] = g[j - 1]
    BY <2>1
  <2> HIDE DEF j
  <2>3. f[j] = g[j]
    BY <2>2
  <2> QED BY <2>3 DEF j
<1>3. \A k \in Nat : k \in P
  <2> HIDE DEF P
  <2> QED BY <1>1, <1>2, Induction
<1> QED BY <1>3

-----------------------------------------------------------------------------
(* SumOf                                                                   *)

\* p holds the partial sums of values.
PartialSums(p, values) ==
  /\ p \in [0..Len(values) -> Int] /\ p[0] = 0
  /\ \A i \in 1..Len(values) : p[i] = p[i - 1] + values[i]

LEMMA SumsExist ==
  ASSUME NEW values \in Seq(Int)
  PROVE  \E p : PartialSums(p, values)
<1> DEFINE n == Len(values)
           F == [i \in 1..n |-> [a \in Int |-> a + values[i]]]
<1>1. n \in Nat /\ \A i \in 1..n : values[i] \in Int
  OBVIOUS
<1> HIDE DEF n
<1>2. F \in [1..n -> [Int -> Int]]
  BY <1>1
<1>3. \A a \in Int, i \in 1..n : F[i][a] = a + values[i]
  OBVIOUS
<1> HIDE DEF F
<1>4. PICK p \in [0..n -> Int] : p[0] = 0 /\ \A i \in 1..n : p[i] = F[i][p[i - 1]]
  <2>1. 0 \in Int /\ F \in Steps(Int, n)
    BY <1>2 DEF Steps
  <2>2. \E p : FoldOf(p, Int, 0, n, F)
    BY <1>1, <2>1, FoldExists
  <2> QED BY <2>2 DEF FoldOf
<1>5. ASSUME NEW i \in 1..n PROVE p[i] = p[i - 1] + values[i]
  <2>1. p[i - 1] \in Int
    BY <1>1
  <2> QED BY <1>3, <1>4, <2>1
<1> QED BY <1>4, <1>5 DEF PartialSums, n

LEMMA SumOfIs ==
  ASSUME NEW values \in Seq(Int), NEW p, PartialSums(p, values)
  PROVE  SumOf(values) = p[Len(values)]
<1> DEFINE n == Len(values)
           Body(f) == [i \in 0..n |-> IF i = 0 THEN 0 ELSE f[i - 1] + values[i]]
           sum == CHOOSE f : f = Body(f)
<1>1. n \in Nat
  OBVIOUS
<1>2. p = Body(p)
  BY <1>1 DEF PartialSums
<1>3. sum = Body(sum)
  BY <1>2
<1>4. SumOf(values) = sum[n]
  BY DEF SumOf
<1> HIDE DEF sum
<1> HIDE DEF n
<1>5. /\ sum[0] = p[0]
      /\ \A i \in 1..n : sum[i - 1] = p[i - 1] => sum[i] = p[i]
  <2>1. \A i \in 0..n : sum[i] = IF i = 0 THEN 0 ELSE sum[i - 1] + values[i]
    <3>1. \A i \in 0..n : Body(sum)[i] = IF i = 0 THEN 0 ELSE sum[i - 1] + values[i]
      OBVIOUS
    <3> HIDE DEF Body
    <3> QED BY <1>3, <3>1
  <2>2. \A i \in 0..n : p[i] = IF i = 0 THEN 0 ELSE p[i - 1] + values[i]
    <3>1. \A i \in 0..n : Body(p)[i] = IF i = 0 THEN 0 ELSE p[i - 1] + values[i]
      OBVIOUS
    <3> HIDE DEF Body
    <3> QED BY <1>2, <3>1
  <2> QED BY <1>1, <2>1, <2>2
<1>6. \A i \in 0..n : sum[i] = p[i]
  BY <1>1, <1>5, FoldUnique, ZenonT(40) DEF Alike
<1> QED BY <1>1, <1>4, <1>6 DEF n

LEMMA SumOfType ==
  ASSUME NEW values \in Seq(Int)
  PROVE  SumOf(values) \in Int
<1>1. PICK p : PartialSums(p, values)
  BY SumsExist
<1>2. SumOf(values) = p[Len(values)]
  BY <1>1, SumOfIs
<1> QED BY <1>1, <1>2 DEF PartialSums

(* A sum of numbers that are not negative is not negative.                 *)
LEMMA SumOfNat ==
  ASSUME NEW values \in Seq(Nat)
  PROVE  SumOf(values) \in Nat
<1> DEFINE n == Len(values)
<1>0. values \in Seq(Int) /\ n \in Nat /\ \A i \in 1..n : values[i] \in Nat
  OBVIOUS
<1>1. PICK p : PartialSums(p, values)
  BY <1>0, SumsExist
<1>2. SumOf(values) = p[n]
  BY <1>0, <1>1, SumOfIs
<1>3. p \in [0..n -> Int] /\ p[0] = 0 /\ \A i \in 1..n : p[i] = p[i - 1] + values[i]
  BY <1>1 DEF PartialSums
<1> HIDE DEF n
<1> DEFINE P == {i \in Nat : i <= n => p[i] \in Nat}
<1>4. 0 \in P
  BY <1>3
<1>5. ASSUME NEW i \in Nat, i \in P PROVE i + 1 \in P
  <2> DEFINE j == i + 1
  <2>1. j \in Nat /\ j - 1 = i
    OBVIOUS
  <2> HIDE DEF j
  <2>2. ASSUME j <= n PROVE p[j] \in Nat
    <3>1. j \in 1..n /\ i <= n
      BY <1>0, <2>1, <2>2
    <3>2. p[j] = p[i] + values[j] /\ values[j] \in Nat
      BY <1>0, <1>3, <2>1, <3>1
    <3>3. p[i] \in Nat
      BY <1>5, <3>1
    <3> QED BY <3>2, <3>3
  <2>3. j \in P
    BY <2>1, <2>2
  <2> QED BY <2>3 DEF j
<1> HIDE DEF P
<1>6. n \in P
  BY <1>0, <1>4, <1>5, Induction
<1> QED BY <1>0, <1>2, <1>6 DEF P

(* One more value adds it.                                                 *)
LEMMA SumOfLonger ==
  ASSUME NEW values \in Seq(Int), NEW next \in Seq(Int), Len(next) = Len(values) + 1,
         \A i \in 1..Len(values) : next[i] = values[i]
  PROVE  SumOf(next) = SumOf(values) + next[Len(next)]
<1> DEFINE n == Len(values)
<1>0. /\ n \in Nat /\ Len(next) = n + 1 /\ next[n + 1] \in Int
      /\ \A i \in 1..n : next[i] = values[i]
  OBVIOUS
<1>1. PICK p : PartialSums(p, values)
  BY SumsExist
<1>2. p \in [0..n -> Int] /\ p[0] = 0 /\ \A i \in 1..n : p[i] = p[i - 1] + values[i]
  BY <1>1 DEF PartialSums
<1>a. \A i \in 0..n : p[i] \in Int
  BY <1>2
<1> HIDE DEF n
<1> DEFINE q == [i \in 0..(n + 1) |-> IF i = n + 1 THEN p[n] + next[n + 1] ELSE p[i]]
<1>3. PartialSums(q, next)
  <2>1. q \in [0..(n + 1) -> Int] /\ q[0] = 0
    <3>1. ASSUME NEW i \in 0..(n + 1) PROVE q[i] \in Int
      <4>1. CASE i = n + 1
        <5>1. p[n] \in Int
          BY <1>0, <1>2
        <5> QED BY <4>1, <5>1, <1>0
      <4>2. CASE i # n + 1
        <5>1. i \in 0..n
          BY <4>2, <1>0
        <5> QED BY <1>2, <4>2, <5>1
      <4> QED BY <4>1, <4>2
    <3>2. 0 \in 0..(n + 1) /\ 0 # n + 1
      BY <1>0
    <3> QED BY <1>2, <3>1, <3>2
  <2>2. ASSUME NEW i \in 1..(n + 1) PROVE q[i] = q[i - 1] + next[i]
    <3>1. CASE i = n + 1
      BY <3>1, <1>0
    <3>2. CASE i # n + 1
      <4>1. i \in 1..n /\ q[i] = p[i] /\ q[i - 1] = p[i - 1] /\ next[i] = values[i]
        BY <3>2, <1>0
      <4> QED BY <1>2, <4>1
    <3> QED BY <3>1, <3>2
  <2> QED BY <1>0, <2>1, <2>2 DEF PartialSums
<1>4. SumOf(values) = p[n]
  BY <1>1, SumOfIs DEF n
<1>5. SumOf(next) = q[n + 1]
  <2> HIDE DEF q
  <2> QED BY <1>0, <1>3, SumOfIs
<1>6. q[n + 1] = p[n] + next[n + 1]
  BY <1>0
<1> QED BY <1>0, <1>4, <1>5, <1>6

(* Taking out one value takes it off.                                      *)
LEMMA SumOfShorter ==
  ASSUME NEW values \in Seq(Int), NEW rest \in Seq(Int), NEW k \in 1..Len(values),
         Len(rest) = Len(values) - 1,
         \A i \in 1..Len(rest) : rest[i] = IF i < k THEN values[i] ELSE values[i + 1]
  PROVE  SumOf(rest) = SumOf(values) - values[k]
<1> DEFINE n == Len(values)
<1>0. /\ n \in Nat /\ n >= 1 /\ Len(rest) = n - 1 /\ k \in 1..n /\ values[k] \in Int
      /\ \A i \in 1..n : values[i] \in Int
      /\ \A i \in 1..(n - 1) : rest[i] = IF i < k THEN values[i] ELSE values[i + 1]
  OBVIOUS
<1>1. PICK p : PartialSums(p, values)
  BY SumsExist
<1>2. p \in [0..n -> Int] /\ p[0] = 0 /\ \A i \in 1..n : p[i] = p[i - 1] + values[i]
  BY <1>1 DEF PartialSums
<1>a. \A i \in 0..n : p[i] \in Int
  BY <1>2
<1> HIDE DEF n
<1> DEFINE q == [i \in 0..(n - 1) |-> IF i < k THEN p[i] ELSE p[i + 1] - values[k]]
<1>3. PartialSums(q, rest)
  <2>1. q \in [0..(n - 1) -> Int] /\ q[0] = 0
    <3>1. ASSUME NEW i \in 0..(n - 1) PROVE q[i] \in Int
      <4>1. i \in 0..n /\ i + 1 \in 0..n
        BY <1>0
      <4>2. p[i] \in Int /\ p[i + 1] \in Int
        BY <1>2, <4>1
      <4> QED BY <1>0, <4>2
    <3>2. 0 \in 0..(n - 1) /\ 0 < k
      BY <1>0
    <3> QED BY <1>2, <3>1, <3>2
  <2>2. ASSUME NEW i \in 1..(n - 1) PROVE q[i] = q[i - 1] + rest[i]
    <3>1. CASE i < k
      <4>1. q[i] = p[i] /\ q[i - 1] = p[i - 1] /\ rest[i] = values[i]
        BY <3>1, <1>0, SMTT(30)
      <4> QED BY <1>0, <1>2, <4>1
    <3>2. CASE i >= k
      <4> DEFINE j == i + 1
      <4>0. j \in 1..n /\ j - 1 = i
        BY <1>0
      <4>1. q[i] = p[j] - values[k] /\ rest[i] = values[j]
        BY <3>2, <1>0
      <4>2. p[j] = p[i] + values[j] /\ p[i] \in Int /\ values[j] \in Int
        <5> HIDE DEF j, q
        <5>1. i \in 0..n
          BY <1>0
        <5> QED BY <1>2, <1>a, <4>0, <5>1, <1>0
      <4>3. CASE i = k
        <5>1. q[i - 1] = p[i - 1] /\ p[i] = p[i - 1] + values[k] /\ p[i - 1] \in Int
          BY <4>3, <1>0, <1>2
        <5>2. values[k] \in Int
          BY <1>0
        <5> HIDE DEF q, j
        <5> QED BY <4>1, <4>2, <5>1, <5>2
      <4>4. CASE i # k
        <5>1. q[i - 1] = p[i] - values[k]
          BY <4>4, <3>2, <1>0
        <5>2. values[k] \in Int
          BY <1>0
        <5> HIDE DEF q, j
        <5> QED BY <4>1, <4>2, <5>1, <5>2
      <4> QED BY <4>3, <4>4
    <3> QED BY <3>1, <3>2, <1>0
  <2> QED BY <1>0, <2>1, <2>2 DEF PartialSums
<1>4. SumOf(values) = p[n]
  BY <1>1, SumOfIs DEF n
<1>5. SumOf(rest) = q[n - 1]
  <2> HIDE DEF q
  <2> QED BY <1>0, <1>3, SumOfIs
<1>6. q[n - 1] = p[n] - values[k]
  <2>1. CASE k = n
    <3>1. q[n - 1] = p[n - 1] /\ p[n] = p[n - 1] + values[k] /\ p[n - 1] \in Int
      BY <2>1, <1>0, <1>2
    <3> QED BY <3>1, <1>0
  <2>2. CASE k # n
    BY <2>2, <1>0
  <2> QED BY <2>1, <2>2
<1> QED BY <1>4, <1>5, <1>6

(* Nothing but zeros sums up to zero.                                      *)
LEMMA SumOfZeros ==
  ASSUME NEW values \in Seq(Int), \A i \in 1..Len(values) : values[i] = 0
  PROVE  SumOf(values) = 0
<1> DEFINE p == [i \in 0..Len(values) |-> 0]
<1>1. PartialSums(p, values)
  BY DEF PartialSums
<1> HIDE DEF p
<1>2. SumOf(values) = p[Len(values)]
  BY <1>1, SumOfIs
<1> QED BY <1>2 DEF p

-----------------------------------------------------------------------------
(* Rehydrate                                                               *)

\* f holds the states that a stream of states of S goes through.
StatesOf(f, events, S) ==
  /\ f \in [0..Len(events) -> S] /\ f[0] = NoOrder
  /\ \A i \in 1..Len(events) : f[i] = Apply(f[i - 1], events[i])

(* A stream whose events keep the states in S has its states.              *)
LEMMA StatesExist ==
  ASSUME NEW E, NEW events \in Seq(E), NEW S, NoOrder \in S,
         \A s \in S, e \in E : Apply(s, e) \in S
  PROVE  \E f : StatesOf(f, events, S)
<1> DEFINE n == Len(events)
           F == [i \in 1..n |-> [s \in S |-> Apply(s, events[i])]]
<1>1. n \in Nat /\ \A i \in 1..n : events[i] \in E
  OBVIOUS
<1> HIDE DEF n
<1>2. F \in [1..n -> [S -> S]]
  BY <1>1
<1>3. \A s \in S, i \in 1..n : F[i][s] = Apply(s, events[i])
  OBVIOUS
<1> HIDE DEF F
<1>4. PICK f \in [0..n -> S] : f[0] = NoOrder /\ \A i \in 1..n : f[i] = F[i][f[i - 1]]
  <2>1. F \in Steps(S, n)
    BY <1>2 DEF Steps
  <2>2. \E f : FoldOf(f, S, NoOrder, n, F)
    BY <1>1, <2>1, FoldExists
  <2> QED BY <2>2 DEF FoldOf
<1>5. ASSUME NEW i \in 1..n PROVE f[i] = Apply(f[i - 1], events[i])
  <2>1. f[i - 1] \in S
    BY <1>1
  <2> QED BY <1>3, <1>4, <2>1
<1> QED BY <1>4, <1>5 DEF StatesOf, n

LEMMA RehydrateIs ==
  ASSUME NEW E, NEW events \in Seq(E), NEW S, NEW f, StatesOf(f, events, S)
  PROVE  Rehydrate(events) = f[Len(events)]
<1> DEFINE n == Len(events)
           Body(g) == [i \in 0..n |-> IF i = 0 THEN NoOrder ELSE Apply(g[i - 1], events[i])]
           fold == CHOOSE g : g = Body(g)
<1>1. n \in Nat
  OBVIOUS
<1>2. f = Body(f)
  BY <1>1 DEF StatesOf
<1>3. fold = Body(fold)
  BY <1>2
<1>4. Rehydrate(events) = fold[n]
  BY DEF Rehydrate
<1> HIDE DEF fold, n
<1>5. /\ fold[0] = f[0]
      /\ \A i \in 1..n : fold[i - 1] = f[i - 1] => fold[i] = f[i]
  <2>1. \A i \in 0..n : fold[i] = IF i = 0 THEN NoOrder ELSE Apply(fold[i - 1], events[i])
    <3>1. \A i \in 0..n : Body(fold)[i] = IF i = 0 THEN NoOrder
                                          ELSE Apply(fold[i - 1], events[i])
      OBVIOUS
    <3> HIDE DEF Body
    <3> QED BY <1>3, <3>1
  <2>2. \A i \in 0..n : f[i] = IF i = 0 THEN NoOrder ELSE Apply(f[i - 1], events[i])
    <3>1. \A i \in 0..n : Body(f)[i] = IF i = 0 THEN NoOrder ELSE Apply(f[i - 1], events[i])
      OBVIOUS
    <3> HIDE DEF Body
    <3> QED BY <1>2, <3>1
  <2> QED BY <1>1, <2>1, <2>2
<1>6. \A i \in 0..n : fold[i] = f[i]
  BY <1>1, <1>5, FoldUnique, ZenonT(40) DEF Alike
<1> QED BY <1>1, <1>4, <1>6 DEF n

(* An empty stream is no order.                                            *)
LEMMA RehydrateEmpty ==
  Rehydrate(<<>>) = NoOrder
<1> DEFINE f == [i \in 0..0 |-> NoOrder]
<1>1. StatesOf(f, <<>>, {NoOrder})
  <2>1. Len(<<>>) = 0 /\ 1..0 = {}
    OBVIOUS
  <2> QED BY <2>1 DEF StatesOf
<1>2. <<>> \in Seq({}) /\ Len(<<>>) = 0 /\ f[0] = NoOrder
  OBVIOUS
<1> HIDE DEF f
<1> QED BY <1>1, <1>2, RehydrateIs

(* One more event is applied to the state before it.                       *)
LEMMA RehydrateAppend ==
  ASSUME NEW E, NEW events \in Seq(E), NEW S, NoOrder \in S,
         \A s \in S, e \in E : Apply(s, e) \in S,
         NEW last \in E
  PROVE  /\ Rehydrate(events) \in S
         /\ Rehydrate(Append(events, last)) = Apply(Rehydrate(events), last)
<1> DEFINE n == Len(events)
           next == Append(events, last)
<1>0. /\ n \in Nat /\ Len(next) = n + 1 /\ next[n + 1] = last /\ next \in Seq(E)
      /\ \A i \in 1..n : next[i] = events[i]
  OBVIOUS
<1>1. PICK f : StatesOf(f, events, S)
  BY StatesExist
<1>2. PICK g : StatesOf(g, next, S)
  <2> HIDE DEF next
  <2> QED BY <1>0, StatesExist
<1>3. Rehydrate(events) = f[n]
  BY <1>1, RehydrateIs
<1>4. Rehydrate(next) = g[n + 1]
  <2> HIDE DEF next
  <2> QED BY <1>0, <1>2, RehydrateIs
<1> HIDE DEF n, next
<1>5. \A i \in 1..n : f[i] = Apply(f[i - 1], events[i])
  BY <1>1 DEF StatesOf, n
<1>6. /\ \A i \in 1..n : g[i] = Apply(g[i - 1], events[i])
      /\ g[n + 1] = Apply(g[n], last)
  <2>1. \A i \in 1..(n + 1) : g[i] = Apply(g[i - 1], next[i])
    BY <1>0, <1>2 DEF StatesOf
  <2>2. n + 1 \in 1..(n + 1) /\ (n + 1) - 1 = n
    BY <1>0
  <2> DEFINE j == n + 1
  <2>3. g[j] = Apply(g[j - 1], next[j])
    BY <2>1, <2>2
  <2>4. \A i \in 1..n : i \in 1..(n + 1)
    BY <1>0
  <2> QED BY <1>0, <2>1, <2>2, <2>3, <2>4
<1>7. f[0] = g[0] /\ f[n] \in S
  BY <1>0, <1>1, <1>2 DEF StatesOf, n
<1>8. \A i \in 0..n : f[i] = g[i]
  <2>1. \A i \in 1..n : f[i - 1] = g[i - 1] => f[i] = g[i]
    BY <1>5, <1>6
  <2>2. n \in Nat /\ Alike(f, g, n)
    BY <1>0, <1>7, <2>1 DEF Alike
  <2> QED BY <2>2, FoldUnique
<1>9. f[n] = g[n]
  BY <1>0, <1>8
<1> QED BY <1>3, <1>4, <1>6, <1>7, <1>9 DEF next

-----------------------------------------------------------------------------
(* decide and apply                                                        *)

\* What holds of the folded state alone, as a predicate of that state.
GoodState(s) ==
  /\ s \in OrderState
  /\ s.cum_qty <= s.original_qty
  /\ s.status \in LiveStatus \cup {"filled"} => s.leaves_qty = s.original_qty - s.cum_qty
  /\ s.status = "suspended" => s.resume_to_status \in LiveStatus \ {"suspended"}
  /\ LET shown == IF s.status = "suspended" THEN s.resume_to_status ELSE s.status
     IN  /\ shown \in {"submitted", "routed", "none"} => s.cum_qty = 0
         /\ shown = "partially_filled" => s.cum_qty > 0
         /\ shown = "filled" => s.cum_qty = s.original_qty
  /\ s.status = "none" => s.version = 0 /\ s.notional = 0
  /\ s.status # "none" /\ s.order_type = "limit" => s.limit_price > 0

(***************************************************************************)
(* One lemma per command: an emitted event is a well-typed event carrying  *)
(* the next version, folding it into a good state gives a good state, and   *)
(* what it books is added to what was booked.                              *)
(***************************************************************************)
GoodStep(s, e) ==
  /\ e \in OrderDomainEvent
  /\ GoodState(Apply(s, e))
  /\ Apply(s, e).version = s.version + 1
  /\ BookedQty(e) \in Nat /\ Apply(s, e).cum_qty = s.cum_qty + BookedQty(e)
  /\ BookedCost(e) \in Nat /\ Apply(s, e).notional = s.notional + BookedCost(e)

\* submit_order is only accepted without an order and starts a good one.
LEMMA SubmitGood ==
  ASSUME NEW s, GoodState(s),
         NEW q \in Int, NEW t \in OrderType, NEW p \in Nat,
         NEW e \in DecideSubmit(s, q, t, p)
  PROVE  GoodStep(s, e) /\ s.status = "none"
<1>1. /\ s.status = "none"
      /\ q > 0
      /\ t = "limit" => p > 0
      /\ e = [type |-> "order_submitted", version |-> 1, status_after |-> "submitted",
              quantity |-> q, order_type |-> t, limit_price |-> p]
  BY DEF DecideSubmit, Emit, Allowed, AllowedKinds, ValidSubmit
<1> DEFINE r == [NoOrder EXCEPT !.status = "submitted", !.order_type = t, !.limit_price = p,
                               !.original_qty = q, !.leaves_qty = q, !.version = 1]
<1>2. Apply(s, e) = r
  BY <1>1 DEF Apply, FillTypes, ApplySubmitted
<1>3. e \in OrderDomainEvent
  BY <1>1 DEF OrderDomainEvent
<1>4. NoOrder \in OrderState
  BY DEF NoOrder, OrderState, OrderType
<1>5. q \in Nat /\ "submitted" \in OrderStatus
  BY <1>1 DEF OrderStatus, LiveStatus
<1>6. /\ r \in OrderState
      /\ r.status = "submitted" /\ r.version = 1
      /\ r.order_type = t /\ r.limit_price = p
      /\ r.original_qty = q /\ r.leaves_qty = q
  BY <1>4, <1>5 DEF OrderState
<1>7. r.cum_qty = 0 /\ r.notional = 0
  BY DEF NoOrder
<1> HIDE DEF r
<1>8. GoodState(r)
  BY <1>1, <1>6, <1>7 DEF GoodState, LiveStatus
<1>9. s.version + 1 = 1 /\ s.cum_qty = 0 /\ s.notional = 0
  BY <1>1 DEF GoodState
<1>10. BookedQty(e) = 0 /\ BookedCost(e) = 0
  BY <1>1 DEF BookedQty, BookedCost, FillTypes
<1> QED
  BY <1>1, <1>2, <1>3, <1>6, <1>7, <1>8, <1>9, <1>10 DEF GoodStep

\* Routing, rejecting, canceling and expiring change no quantity or price.
LEMMA LifecycleGood ==
  ASSUME NEW s, GoodState(s), s.status \in LiveStatus,
         NEW type, NEW after,
         <<type, after>> \in {<<"order_rejected", "rejected">>, <<"order_canceled", "canceled">>,
                              <<"order_expired", "expired">>}
                             \cup (IF s.status = "submitted" THEN {<<"order_routed", "routed">>} ELSE {})
  PROVE  GoodStep(s, Event(s, type, after))
<1> DEFINE e == Event(s, type, after)
<1>1. e = [type |-> type, version |-> s.version + 1, status_after |-> after]
  BY DEF Event
<1>2. type \in LifecycleTypes /\ after \in OrderStatus
  BY DEF LifecycleTypes, OrderStatus, LiveStatus, TerminalStatus
<1>3. e \in OrderDomainEvent
  BY <1>1, <1>2 DEF OrderDomainEvent, GoodState, OrderState
<1> DEFINE lv == IF type = "order_canceled" THEN 0 ELSE s.leaves_qty
<1> DEFINE r == [s EXCEPT !.leaves_qty = lv, !.status = after, !.resume_to_status = "none",
                  !.version = s.version + 1]
<1>4. Apply(s, e) = r
  BY <1>1, <1>2 DEF Apply, ApplyLifecycle, FillTypes, LifecycleTypes
<1>5. s \in OrderState /\ lv \in Int /\ s.version + 1 \in Nat
  BY DEF GoodState, OrderState
<1> HIDE DEF e, lv
<1>6. /\ r \in OrderState
      /\ r.status = after
      /\ r.version = s.version + 1
      /\ r.leaves_qty = lv
      /\ r.cum_qty = s.cum_qty /\ r.notional = s.notional
      /\ r.original_qty = s.original_qty
      /\ r.order_type = s.order_type
      /\ r.limit_price = s.limit_price
  BY <1>2, <1>5 DEF OrderState
<1> HIDE DEF r
<1>7. after = "routed" => s.status = "submitted" /\ lv = s.leaves_qty
  BY DEF lv
<1>8. GoodState(r)
  BY <1>6, <1>7 DEF GoodState, LiveStatus
<1>b. BookedQty(e) = 0 /\ BookedCost(e) = 0
  BY <1>1, <1>2 DEF BookedQty, BookedCost, FillTypes, LifecycleTypes, e
<1>c. r.cum_qty = s.cum_qty + 0 /\ r.notional = s.notional + 0
  BY <1>6 DEF GoodState, OrderState
<1> QED
  BY <1>3, <1>4, <1>6, <1>8, <1>b, <1>c DEF GoodStep, e

\* An amendment keeps at least the filled quantity, and a limit keeps a price.
LEMMA ReplaceGood ==
  ASSUME NEW s, GoodState(s), NEW kq \in BOOLEAN, NEW q \in Int, NEW kp \in BOOLEAN, NEW p \in Nat,
         NEW e \in DecideReplace(s, kq, q, kp, p)
  PROVE  GoodStep(s, e) /\ s.status \in LiveStatus
<1> DEFINE qty == IF kq THEN s.original_qty ELSE q
           px  == IF kp THEN s.limit_price ELSE p
<1>1. /\ s.status \in LiveStatus \ {"suspended"}
      /\ qty > 0 /\ qty >= s.cum_qty
      /\ kp \/ p > 0
      /\ e = [type |-> "order_amended", version |-> s.version + 1, status_after |-> s.status,
              quantity |-> qty, limit_price |-> px]
  BY DEF DecideReplace, Emit, Allowed, AllowedKinds, GoodState, OrderState, OrderStatus, LiveStatus, TerminalStatus
<1>2. qty \in Nat /\ px \in Nat
  BY <1>1 DEF GoodState, OrderState
<1> HIDE DEF qty, px
<1>3. e \in OrderDomainEvent
  BY <1>1, <1>2 DEF OrderDomainEvent, GoodState, OrderState
<1> DEFINE r == [s EXCEPT !.limit_price = px, !.original_qty = qty,
                  !.leaves_qty = qty - s.cum_qty, !.status = s.status,
                  !.version = s.version + 1]
<1>4. Apply(s, e) = r
  BY <1>1 DEF Apply, FillTypes, ApplyAmended
<1>5. s.order_type = "limit" => px > 0
  BY <1>1 DEF px, GoodState, LiveStatus
<1>6. /\ s \in OrderState /\ s.status \in OrderStatus
      /\ s.version + 1 \in Nat /\ qty - s.cum_qty \in Int
  BY <1>1, <1>2 DEF GoodState, OrderState, OrderStatus
<1>7. /\ r \in OrderState
      /\ r.status = s.status
      /\ r.version = s.version + 1
      /\ r.leaves_qty = qty - s.cum_qty
      /\ r.cum_qty = s.cum_qty /\ r.notional = s.notional
      /\ r.original_qty = qty
      /\ r.order_type = s.order_type
      /\ r.limit_price = px
  BY <1>2, <1>6 DEF OrderState
<1> HIDE DEF r
<1>8. GoodState(r)
  BY <1>1, <1>2, <1>5, <1>6, <1>7 DEF GoodState, LiveStatus, OrderState
<1>b. BookedQty(e) = 0 /\ BookedCost(e) = 0
  BY <1>1 DEF BookedQty, BookedCost, FillTypes
<1>c. r.cum_qty = s.cum_qty + 0 /\ r.notional = s.notional + 0
  BY <1>7 DEF GoodState, OrderState
<1> QED
  BY <1>1, <1>3, <1>4, <1>7, <1>8, <1>b, <1>c DEF GoodStep

\* A suspension remembers a status that still tells what has been filled.
LEMMA SuspendGood ==
  ASSUME NEW s, GoodState(s), NEW e \in DecideSuspend(s)
  PROVE  GoodStep(s, e) /\ s.status \in LiveStatus
<1>1. /\ s.status \in LiveStatus \ {"suspended"}
      /\ e = [type |-> "order_suspended", version |-> s.version + 1,
              status_after |-> "suspended", resume_to_status |-> s.status]
  BY DEF DecideSuspend, Emit, Allowed, AllowedKinds, GoodState, OrderState, OrderStatus, LiveStatus, TerminalStatus
<1>2. e \in OrderDomainEvent
  BY <1>1 DEF OrderDomainEvent, GoodState, OrderState
<1> DEFINE r == [s EXCEPT !.status = "suspended", !.resume_to_status = s.status,
                  !.version = s.version + 1]
<1>3. Apply(s, e) = r
  BY <1>1 DEF Apply, FillTypes, ApplySuspended
<1>4. s \in OrderState /\ "suspended" \in OrderStatus /\ s.version + 1 \in Nat
  BY DEF GoodState, OrderState, OrderStatus, LiveStatus
<1>5. /\ r \in OrderState
      /\ r.status = "suspended"
      /\ r.resume_to_status = s.status
      /\ r.version = s.version + 1
      /\ r.cum_qty = s.cum_qty /\ r.notional = s.notional
      /\ r.original_qty = s.original_qty
      /\ r.leaves_qty = s.leaves_qty
      /\ r.order_type = s.order_type
      /\ r.limit_price = s.limit_price
  BY <1>1, <1>4 DEF OrderState
<1> HIDE DEF r
<1>6. GoodState(r)
  BY <1>1, <1>5 DEF GoodState, LiveStatus
<1>b. BookedQty(e) = 0 /\ BookedCost(e) = 0
  BY <1>1 DEF BookedQty, BookedCost, FillTypes
<1>c. r.cum_qty = s.cum_qty + 0 /\ r.notional = s.notional + 0
  BY <1>5 DEF GoodState, OrderState
<1> QED
  BY <1>1, <1>2, <1>3, <1>5, <1>6, <1>b, <1>c DEF GoodStep

\* A release restores the status the suspension remembered.
LEMMA ReleaseGood ==
  ASSUME NEW s, GoodState(s), NEW e \in DecideRelease(s)
  PROVE  GoodStep(s, e) /\ s.status \in LiveStatus
<1>1. /\ s.status = "suspended"
      /\ e = [type |-> "order_released", version |-> s.version + 1,
              status_after |-> s.resume_to_status, resumed_to_status |-> s.resume_to_status]
  BY DEF DecideRelease, Emit, Allowed, AllowedKinds, GoodState, OrderState, OrderStatus, LiveStatus, TerminalStatus
<1>2. s.resume_to_status \in LiveStatus \ {"suspended"}
  BY <1>1 DEF GoodState
<1>3. e \in OrderDomainEvent
  BY <1>1, <1>2 DEF OrderDomainEvent, GoodState, OrderState
<1> DEFINE r == [s EXCEPT !.status = s.resume_to_status, !.resume_to_status = "none",
                  !.version = s.version + 1]
<1>4. Apply(s, e) = r
  BY <1>1 DEF Apply, FillTypes, ApplyReleased
<1>5. s \in OrderState /\ s.resume_to_status \in OrderStatus /\ s.version + 1 \in Nat
  BY <1>2 DEF GoodState, OrderState, OrderStatus
<1>6. /\ r \in OrderState
      /\ r.status = s.resume_to_status
      /\ r.version = s.version + 1
      /\ r.cum_qty = s.cum_qty /\ r.notional = s.notional
      /\ r.original_qty = s.original_qty
      /\ r.leaves_qty = s.leaves_qty
      /\ r.order_type = s.order_type
      /\ r.limit_price = s.limit_price
  BY <1>5 DEF OrderState
<1> HIDE DEF r
<1>7. GoodState(r)
  BY <1>1, <1>2, <1>6 DEF GoodState, LiveStatus
<1>b. BookedQty(e) = 0 /\ BookedCost(e) = 0
  BY <1>1 DEF BookedQty, BookedCost, FillTypes
<1>c. r.cum_qty = s.cum_qty + 0 /\ r.notional = s.notional + 0
  BY <1>6 DEF GoodState, OrderState
<1> QED
  BY <1>1, <1>3, <1>4, <1>6, <1>7, <1>b, <1>c DEF GoodStep, LiveStatus

\* A fill never exceeds what is left, and its status follows from what remains.
LEMMA FillGood ==
  ASSUME NEW s, GoodState(s), NEW q \in Int, NEW p \in Nat, NEW e \in DecideFill(s, q, p)
  PROVE  GoodStep(s, e) /\ s.status \in LiveStatus
<1> DEFINE cum    == s.cum_qty + q
           leaves == s.original_qty - cum
           partly == leaves > 0
           cost   == s.notional + q * p
<1>1. /\ s.status \in LiveStatus
      /\ q > 0 /\ p > 0
      /\ cum <= s.original_qty
      /\ e = [type         |-> IF partly THEN "order_partially_filled" ELSE "order_filled",
              version      |-> s.version + 1,
              status_after |-> IF partly THEN "partially_filled" ELSE "filled",
              fill_qty     |-> q,
              fill_price   |-> p,
              cum_qty      |-> cum,
              leaves_qty   |-> IF partly THEN leaves ELSE 0,
              notional     |-> cost]
  BY DEF DecideFill, Emit, Allowed, AllowedKinds, GoodState, OrderState, OrderStatus, LiveStatus, TerminalStatus
<1>2. s \in OrderState
  BY DEF GoodState
<1>3. q * p \in Nat
  BY <1>1
<1>4. cum \in Nat /\ leaves \in Nat /\ cost \in Nat /\ cum > 0 /\ leaves = s.original_qty - cum
  BY <1>1, <1>2, <1>3 DEF OrderState
<1>5. partly \in BOOLEAN /\ (~ partly => leaves = 0) /\ (partly => leaves > 0)
  BY <1>4
<1> HIDE DEF cum, leaves, partly, cost
<1>6. e \in OrderDomainEvent
  BY <1>1, <1>2, <1>4, <1>5 DEF OrderDomainEvent, OrderState, FillTypes, OrderStatus, LiveStatus, TerminalStatus
<1> DEFINE lv == IF partly THEN leaves ELSE 0
           st == IF partly THEN "partially_filled" ELSE "filled"
<1> DEFINE r == [s EXCEPT !.cum_qty = cum, !.leaves_qty = lv, !.notional = cost,
                  !.status = st, !.version = s.version + 1]
<1>7. Apply(s, e) = r
  BY <1>1, <1>5 DEF Apply, FillTypes, ApplyFill
<1>8. lv = leaves /\ lv \in Int /\ st \in OrderStatus /\ s.version + 1 \in Nat
  BY <1>2, <1>4, <1>5 DEF OrderState, OrderStatus, LiveStatus, TerminalStatus
<1> HIDE DEF lv, st
<1>9. /\ r \in OrderState
      /\ r.status = st
      /\ r.version = s.version + 1
      /\ r.leaves_qty = lv
      /\ r.cum_qty = cum /\ r.notional = cost
      /\ r.original_qty = s.original_qty
      /\ r.order_type = s.order_type
      /\ r.limit_price = s.limit_price
  BY <1>2, <1>4, <1>8 DEF OrderState
<1> HIDE DEF r
<1>10. cum <= s.original_qty /\ (~ partly => cum = s.original_qty)
  BY <1>1, <1>2, <1>4, <1>5 DEF OrderState
<1>11. s.order_type = "limit" => s.limit_price > 0
  BY <1>1 DEF GoodState, LiveStatus
<1>12. GoodState(r)
  BY <1>4, <1>5, <1>8, <1>9, <1>10, <1>11 DEF GoodState, LiveStatus, st
<1>b. BookedQty(e) = q /\ BookedCost(e) = q * p
  BY <1>1, <1>5 DEF BookedQty, BookedCost, FillTypes
<1>c. r.cum_qty = s.cum_qty + BookedQty(e) /\ r.notional = s.notional + BookedCost(e)
  BY <1>9, <1>b DEF cum, cost
<1>d. BookedQty(e) \in Nat /\ BookedCost(e) \in Nat
  BY <1>1, <1>3, <1>b
<1> QED
  BY <1>1, <1>6, <1>7, <1>9, <1>12, <1>c, <1>d DEF GoodStep

\* The events of the commands that only close or route the order.
LEMMA SimpleCommandsGood ==
  ASSUME NEW s, GoodState(s),
         NEW e \in DecideRoute(s) \cup DecideCancel(s) \cup DecideExpire(s)
                   \cup DecideReject(s) \cup DecideCanceled(s)
  PROVE  GoodStep(s, e) /\ s.status \in LiveStatus
<1> USE DEF Emit, Allowed, AllowedKinds, LiveStatus
<1>0. s.status \in OrderStatus \cup {"none"}
  BY DEF GoodState, OrderState
<1>1. CASE e \in DecideRoute(s)
  <2>1. s.status = "submitted" /\ e = Event(s, "order_routed", "routed")
    BY <1>0, <1>1 DEF DecideRoute, OrderStatus, TerminalStatus
  <2> QED
    BY <2>1, LifecycleGood
<1>2. CASE e \in DecideCancel(s) \cup DecideCanceled(s)
  <2>1. s.status \in LiveStatus /\ e = Event(s, "order_canceled", "canceled")
    BY <1>0, <1>2 DEF DecideCancel, DecideCanceled, OrderStatus, TerminalStatus
  <2> QED
    BY <2>1, LifecycleGood
<1>3. CASE e \in DecideExpire(s)
  <2>1. s.status \in LiveStatus /\ e = Event(s, "order_expired", "expired")
    BY <1>0, <1>3 DEF DecideExpire, OrderStatus, TerminalStatus
  <2> QED
    BY <2>1, LifecycleGood
<1>4. CASE e \in DecideReject(s)
  <2>1. s.status \in LiveStatus /\ e = Event(s, "order_rejected", "rejected")
    BY <1>0, <1>4 DEF DecideReject, OrderStatus, TerminalStatus
  <2> QED
    BY <2>1, LifecycleGood
<1> QED
  BY <1>1, <1>2, <1>3, <1>4

(* Applying an event of the stream to a state gives a state.               *)
LEMMA ApplyType ==
  ASSUME NEW s \in OrderState, NEW e \in OrderDomainEvent
  PROVE  Apply(s, e) \in OrderState
<1>1. CASE e.type = "order_submitted"
  <2>1. e.status_after = "submitted" /\ e.order_type \in OrderType /\ e.limit_price \in Nat
        /\ e.quantity \in Nat /\ e.version \in Nat
    BY <1>1 DEF OrderDomainEvent, FillTypes, LifecycleTypes
  <2>2. Apply(s, e) = ApplySubmitted(e)
    BY <1>1 DEF Apply, FillTypes
  <2>3. NoOrder \in OrderState
    BY DEF NoOrder, OrderState, OrderType
  <2>4. e.status_after \in OrderStatus /\ e.quantity \in Int
    BY <2>1 DEF OrderStatus, LiveStatus
  <2> QED BY <2>1, <2>2, <2>3, <2>4 DEF ApplySubmitted, OrderState
<1>2. CASE e.type = "order_amended"
  <2>1. e.status_after \in LiveStatus /\ e.limit_price \in Nat /\ e.quantity \in Nat /\ e.version \in Nat
    BY <1>2 DEF OrderDomainEvent, FillTypes, LifecycleTypes
  <2>2. Apply(s, e) = ApplyAmended(s, e)
    BY <1>2 DEF Apply, FillTypes
  <2>3. e.quantity - s.cum_qty \in Int
    BY <2>1 DEF OrderState
  <2> QED BY <2>1, <2>2, <2>3 DEF ApplyAmended, OrderState, OrderStatus
<1>3. CASE e.type \in FillTypes
  <2>1. e.status_after \in OrderStatus /\ e.cum_qty \in Nat /\ e.leaves_qty \in Nat
        /\ e.notional \in Nat /\ e.version \in Nat
    BY <1>3 DEF OrderDomainEvent, FillTypes, LifecycleTypes
  <2>2. Apply(s, e) = ApplyFill(s, e)
    BY <1>3 DEF Apply, FillTypes
  <2>3. e.leaves_qty \in Int
    BY <2>1
  <2> QED BY <2>1, <2>2, <2>3 DEF ApplyFill, OrderState
<1>4. CASE e.type = "order_suspended"
  <2>1. e.status_after = "suspended" /\ e.resume_to_status \in LiveStatus /\ e.version \in Nat
    BY <1>4 DEF OrderDomainEvent, FillTypes, LifecycleTypes
  <2>2. Apply(s, e) = ApplySuspended(s, e)
    BY <1>4 DEF Apply, FillTypes
  <2>3. e.status_after \in OrderStatus
    BY <2>1 DEF OrderStatus, LiveStatus
  <2> QED BY <2>1, <2>2, <2>3 DEF ApplySuspended, OrderState
<1>5. CASE e.type = "order_released"
  <2>1. e.resumed_to_status \in LiveStatus /\ e.version \in Nat
    BY <1>5 DEF OrderDomainEvent, FillTypes, LifecycleTypes
  <2>2. Apply(s, e) = ApplyReleased(s, e)
    BY <1>5 DEF Apply, FillTypes
  <2> QED BY <2>1, <2>2 DEF ApplyReleased, OrderState, OrderStatus
<1>6. CASE e.type \in LifecycleTypes
  <2>1. e.status_after \in OrderStatus /\ e.version \in Nat
    BY <1>6 DEF OrderDomainEvent, FillTypes, LifecycleTypes
  <2>2. Apply(s, e) = ApplyLifecycle(s, e)
    BY <1>6 DEF Apply, FillTypes, LifecycleTypes
  <2> DEFINE lv == IF e.type = "order_canceled" THEN 0 ELSE s.leaves_qty
  <2>3. lv \in Int
    BY DEF OrderState
  <2>4. Apply(s, e) = [s EXCEPT !.leaves_qty = lv, !.status = e.status_after,
                               !.resume_to_status = "none", !.version = e.version]
    BY <2>2 DEF ApplyLifecycle
  <2> HIDE DEF lv
  <2> QED BY <2>1, <2>3, <2>4 DEF OrderState
<1> QED BY <1>1, <1>2, <1>3, <1>4, <1>5, <1>6 DEF OrderDomainEvent

(* What a stream of events folds to is a state, and one more event is      *)
(* applied to it.                                                          *)
LEMMA RehydrateNext ==
  ASSUME NEW events \in Seq(OrderDomainEvent), NEW e \in OrderDomainEvent
  PROVE  /\ Rehydrate(events) \in OrderState
         /\ Rehydrate(Append(events, e)) = Apply(Rehydrate(events), e)
<1>1. NoOrder \in OrderState
  BY DEF NoOrder, OrderState, OrderType
<1>2. \A s \in OrderState, f \in OrderDomainEvent : Apply(s, f) \in OrderState
  BY ApplyType
<1> DEFINE S == OrderState
           E == OrderDomainEvent
<1>3. NoOrder \in S /\ (\A s \in S, f \in E : Apply(s, f) \in S) /\ events \in Seq(E) /\ e \in E
  BY <1>1, <1>2
<1> HIDE DEF S, E
<1>4. /\ Rehydrate(events) \in S
      /\ Rehydrate(Append(events, e)) = Apply(Rehydrate(events), e)
  BY <1>3, RehydrateAppend
<1> QED BY <1>4 DEF S

(* States with the same fields are the same.                               *)
LEMMA SameState ==
  ASSUME NEW a \in OrderState, NEW b \in OrderState,
         a.status = b.status, a.order_type = b.order_type, a.limit_price = b.limit_price,
         a.original_qty = b.original_qty, a.leaves_qty = b.leaves_qty, a.cum_qty = b.cum_qty,
         a.notional = b.notional, a.resume_to_status = b.resume_to_status, a.version = b.version
  PROVE  a = b
BY DEF OrderState

(* What folding a lifecycle event changes.                                 *)
LEMMA LifecycleApply ==
  ASSUME NEW s, GoodState(s), NEW type \in LifecycleTypes, NEW after \in OrderStatus
  PROVE  LET r == Apply(s, Event(s, type, after)) IN
         /\ r.status = after /\ r.version = s.version + 1 /\ r.resume_to_status = "none"
         /\ r.order_type = s.order_type /\ r.limit_price = s.limit_price
         /\ r.original_qty = s.original_qty /\ r.cum_qty = s.cum_qty /\ r.notional = s.notional
         /\ type # "order_canceled" => r.leaves_qty = s.leaves_qty
         /\ BookedQty(Event(s, type, after)) = 0
<1> DEFINE e == Event(s, type, after)
           lv == IF type = "order_canceled" THEN 0 ELSE s.leaves_qty
<1>1. e.type = type /\ e.version = s.version + 1 /\ e.status_after = after
  BY DEF Event
<1>2. Apply(s, e) = [s EXCEPT !.leaves_qty = lv, !.status = after, !.resume_to_status = "none",
                              !.version = s.version + 1]
  BY <1>1 DEF Apply, ApplyLifecycle, FillTypes, LifecycleTypes
<1>3. BookedQty(e) = 0
  BY <1>1 DEF BookedQty, FillTypes, LifecycleTypes
<1>4. s \in OrderState /\ (type # "order_canceled" => lv = s.leaves_qty)
  BY DEF GoodState
<1> HIDE DEF e, lv
<1> QED BY <1>2, <1>3, <1>4 DEF e, OrderState

(* What folding a fill changes.                                            *)
LEMMA FillApply ==
  ASSUME NEW s, GoodState(s), NEW q \in Int, NEW p \in Nat, NEW e \in DecideFill(s, q, p)
  PROVE  LET r == Apply(s, e) IN
         /\ r.status = IF s.cum_qty + q < s.original_qty THEN "partially_filled" ELSE "filled"
         /\ r.original_qty = s.original_qty /\ r.resume_to_status = s.resume_to_status
         /\ BookedQty(e) = q /\ q > 0 /\ s.cum_qty + q <= s.original_qty
<1> DEFINE partly == s.original_qty - (s.cum_qty + q) > 0
<1>1. /\ q > 0 /\ s.cum_qty + q <= s.original_qty
      /\ e.type = IF partly THEN "order_partially_filled" ELSE "order_filled"
      /\ e.status_after = IF partly THEN "partially_filled" ELSE "filled"
      /\ e.fill_qty = q
  BY DEF DecideFill, Emit
<1>2. s \in OrderState
  BY DEF GoodState
<1>3. partly <=> s.cum_qty + q < s.original_qty
  BY <1>2 DEF OrderState
<1>4. Apply(s, e) = ApplyFill(s, e) /\ BookedQty(e) = q
  BY <1>1 DEF Apply, FillTypes, BookedQty
<1>5. /\ ApplyFill(s, e).status = e.status_after
      /\ ApplyFill(s, e).original_qty = s.original_qty
      /\ ApplyFill(s, e).resume_to_status = s.resume_to_status
  BY <1>2 DEF ApplyFill, OrderState
<1> HIDE DEF partly
<1> QED BY <1>1, <1>3, <1>4, <1>5

-----------------------------------------------------------------------------
(* What the values of a function on a finite set add up to.  Total takes    *)
(* them in an arbitrary order; the lemmas show that it does not matter.     *)

\* A property of every subset of a finite set, by induction on its size.
LEMMA SubsetInduction ==
  ASSUME NEW D, IsFiniteSet(D), NEW Q, {} \in Q,
         \A S \in SUBSET D : S # {} /\ (\A x \in S : S \ {x} \in Q) => S \in Q
  PROVE  \A S \in SUBSET D : S \in Q
<1> DEFINE P == {n \in Nat : \A S \in SUBSET D : Cardinality(S) = n => S \in Q}
<1>1. \A S \in SUBSET D : /\ IsFiniteSet(S) /\ Cardinality(S) \in Nat
                          /\ Cardinality(S) = 0 <=> S = {}
  BY FS_Subset, FS_CardinalityType, FS_EmptySet
<1>2. 0 \in P
  BY <1>1
<1>3. ASSUME NEW n \in Nat, n \in P PROVE n + 1 \in P
  <2> SUFFICES ASSUME NEW S \in SUBSET D, Cardinality(S) = n + 1 PROVE S \in Q
    OBVIOUS
  <2>1. S # {}
    BY <1>1
  <2>2. ASSUME NEW x \in S PROVE S \ {x} \in Q
    <3>1. Cardinality(S \ {x}) = n /\ S \ {x} \in SUBSET D
      BY <1>1, FS_RemoveElement
    <3> QED
      BY <3>1, <1>3
  <2> QED
    BY <2>1, <2>2
<1>4. \A n \in Nat : n \in P
  <2> HIDE DEF P
  <2> QED
    BY <1>2, <1>3, Induction
<1> QED
  BY <1>1, <1>4

Pick(S) == CHOOSE x \in S : TRUE

\* s holds the sum over each subset, taken element by element.
SumIs(s, f) ==
  s = [S \in SUBSET DOMAIN f |-> IF S = {} THEN 0 ELSE f[Pick(S)] + s[S \ {Pick(S)}]]

\* There is such a function.
LEMMA SumExists ==
  ASSUME NEW D, IsFiniteSet(D), NEW f \in [D -> Int]
  PROVE  \E s : SumIs(s, f)
<1> DEFINE Good(s, n) == \A S \in SUBSET D : Cardinality(S) <= n =>
                           s[S] = IF S = {} THEN 0 ELSE f[Pick(S)] + s[S \ {Pick(S)}]
           P == {n \in Nat : \E s : s = [S \in SUBSET D |-> s[S]] /\ Good(s, n)}
<1>1. \A S \in SUBSET D :
        /\ IsFiniteSet(S) /\ Cardinality(S) \in Nat /\ Cardinality(S) <= Cardinality(D)
        /\ Cardinality(S) = 0 <=> S = {}
        /\ S # {} => /\ Pick(S) \in S /\ S \ {Pick(S)} \in SUBSET D
                     /\ Cardinality(S \ {Pick(S)}) = Cardinality(S) - 1
  BY FS_Subset, FS_CardinalityType, FS_EmptySet, FS_RemoveElement DEF Pick
<1>2. 0 \in P
  <2> DEFINE s == [S \in SUBSET D |-> 0]
  <2>1. Good(s, 0) /\ s = [S \in SUBSET D |-> s[S]]
    <3>1. \A S \in SUBSET D : Cardinality(S) <= 0 => S = {}
      <4> SUFFICES ASSUME NEW S \in SUBSET D, Cardinality(S) <= 0 PROVE S = {}
        OBVIOUS
      <4>1. Cardinality(S) \in Nat /\ (Cardinality(S) = 0 => S = {})
        BY <1>1
      <4> QED
        BY <4>1
    <3> QED
      BY <3>1
  <2> HIDE DEF Good, s
  <2> QED
    BY <2>1
<1>3. ASSUME NEW n \in Nat, n \in P PROVE n + 1 \in P
  <2>1. PICK s : s = [S \in SUBSET D |-> s[S]] /\ Good(s, n)
    BY <1>3
  <2> DEFINE t == [S \in SUBSET D |-> IF Cardinality(S) <= n THEN s[S]
                                       ELSE f[Pick(S)] + s[S \ {Pick(S)}]]
  <2>2. ASSUME NEW S \in SUBSET D, Cardinality(S) <= n + 1
        PROVE  t[S] = IF S = {} THEN 0 ELSE f[Pick(S)] + t[S \ {Pick(S)}]
    <3>1. CASE S = {}
      <4>1. Cardinality(S) <= n
        BY <3>1, FS_EmptySet
      <4> QED
        BY <2>1, <3>1, <4>1
    <3>2. CASE S # {}
      <4>1. Cardinality(S \ {Pick(S)}) <= n /\ S \ {Pick(S)} \in SUBSET D
        BY <1>1, <2>2, <3>2
      <4>2. t[S \ {Pick(S)}] = s[S \ {Pick(S)}]
        BY <4>1
      <4>3. t[S] = f[Pick(S)] + s[S \ {Pick(S)}]
        <5>1. CASE Cardinality(S) <= n
          BY <2>1, <3>2, <5>1
        <5>2. CASE ~ (Cardinality(S) <= n)
          BY <5>2
        <5> QED
          BY <5>1, <5>2
      <4> QED
        BY <3>2, <4>2, <4>3
    <3> QED
      BY <3>1, <3>2
  <2>3. t = [S \in SUBSET D |-> t[S]] /\ Good(t, n + 1)
    BY <2>2
  <2> HIDE DEF t, Good
  <2> QED
    BY <2>3
<1>4. \A n \in Nat : n \in P
  <2> HIDE DEF P
  <2> QED
    BY <1>2, <1>3, Induction
<1>5. Cardinality(D) \in Nat /\ DOMAIN f = D
  BY FS_CardinalityType
<1>6. PICK s : s = [S \in SUBSET D |-> s[S]] /\ Good(s, Cardinality(D))
  BY <1>4, <1>5
<1>7. \A S \in SUBSET D : s[S] = IF S = {} THEN 0 ELSE f[Pick(S)] + s[S \ {Pick(S)}]
  BY <1>1, <1>6
<1>8. s = [S \in SUBSET D |-> IF S = {} THEN 0 ELSE f[Pick(S)] + s[S \ {Pick(S)}]]
  BY <1>6, <1>7
<1> QED
  BY <1>5, <1>8 DEF SumIs

\* What the defining equation says of one subset.
LEMMA SumStep ==
  ASSUME NEW f, NEW s, SumIs(s, f), NEW S, S \subseteq DOMAIN f, S # {}
  PROVE  Pick(S) \in S /\ s[S] = f[Pick(S)] + s[S \ {Pick(S)}]
BY DEF SumIs, Pick

LEMMA SumEmpty ==
  ASSUME NEW f, NEW s, SumIs(s, f)
  PROVE  s[{}] = 0
<1>1. {} \in SUBSET DOMAIN f
  OBVIOUS
<1> QED
  BY <1>1 DEF SumIs

LEMMA SumInt ==
  ASSUME NEW D, IsFiniteSet(D), NEW f \in [D -> Int], NEW s, SumIs(s, f)
  PROVE  \A S \in SUBSET D : s[S] \in Int
<1> DEFINE Q == {S \in SUBSET D : s[S] \in Int}
<1>1. {} \in Q
  BY SumEmpty
<1>2. ASSUME NEW S \in SUBSET D, S # {}, \A x \in S : S \ {x} \in Q PROVE S \in Q
  <2>1. Pick(S) \in S /\ s[S] = f[Pick(S)] + s[S \ {Pick(S)}]
    <3>1. S \subseteq DOMAIN f /\ S # {}
      BY <1>2
    <3> HIDE DEF Q
    <3> QED
      BY <3>1, SumStep
  <2>2. f[Pick(S)] \in Int /\ s[S \ {Pick(S)}] \in Int
    BY <1>2, <2>1
  <2> QED
    BY <2>1, <2>2
<1>3. \A S \in SUBSET D : S \in Q
  <2> HIDE DEF Q
  <2> QED
    BY <1>1, <1>2, SubsetInduction
<1> QED
  BY <1>3

\* Any element may be taken first.
LEMMA SumTakesAny ==
  ASSUME NEW D, IsFiniteSet(D), NEW f \in [D -> Int], NEW s, SumIs(s, f)
  PROVE  \A S \in SUBSET D : \A x \in S : s[S] = f[x] + s[S \ {x}]
<1> DEFINE Q == {S \in SUBSET D : \A x \in S : s[S] = f[x] + s[S \ {x}]}
<1>1. {} \in Q
  OBVIOUS
<1>2. ASSUME NEW S \in SUBSET D, S # {}, \A x \in S : S \ {x} \in Q PROVE S \in Q
  <2> DEFINE c == Pick(S)
  <2>1. c \in S /\ s[S] = f[c] + s[S \ {c}]
    <3>1. S \subseteq DOMAIN f /\ S # {}
      BY <1>2
    <3> HIDE DEF Q
    <3> QED
      BY <3>1, SumStep
  <2> HIDE DEF c
  <2> SUFFICES ASSUME NEW x \in S, x # c PROVE s[S] = f[x] + s[S \ {x}]
    BY <2>1
  <2>2. x \in S \ {c} /\ c \in S \ {x} /\ (S \ {c}) \ {x} = (S \ {x}) \ {c}
    BY <2>1
  <2>3. s[S \ {c}] = f[x] + s[(S \ {x}) \ {c}]
    BY <1>2, <2>1, <2>2
  <2>4. s[S \ {x}] = f[c] + s[(S \ {x}) \ {c}]
    BY <1>2, <2>2
  <2>5. s[(S \ {x}) \ {c}] \in Int /\ f[x] \in Int /\ f[c] \in Int
    BY <2>1, SumInt
  <2> DEFINE r == s[(S \ {x}) \ {c}]
  <2>6. f[c] + (f[x] + r) = f[x] + (f[c] + r)
    BY <2>5
  <2> HIDE DEF r
  <2> QED
    BY <2>1, <2>3, <2>4, <2>6 DEF r
<1>3. \A S \in SUBSET D : S \in Q
  <2> HIDE DEF Q
  <2> QED
    BY <1>1, <1>2, SubsetInduction
<1> QED
  BY <1>3

\* Equal values have equal sums, whatever else the functions hold.
LEMMA SumsAgree ==
  ASSUME NEW D, IsFiniteSet(D), NEW E, NEW f \in [D -> Int], NEW g \in [E -> Int],
         NEW s, NEW t, SumIs(s, f), SumIs(t, g), D \subseteq E, \A x \in D : f[x] = g[x]
  PROVE  \A S \in SUBSET D : s[S] = t[S]
<1> DEFINE Q == {S \in SUBSET D : s[S] = t[S]}
<1>1. {} \in Q
  BY SumEmpty
<1>2. ASSUME NEW S \in SUBSET D, S # {}, \A x \in S : S \ {x} \in Q PROVE S \in Q
  <2>1. S \subseteq DOMAIN f /\ S \subseteq DOMAIN g
    OBVIOUS
  <2>2. Pick(S) \in S /\ s[S] = f[Pick(S)] + s[S \ {Pick(S)}]
    BY <1>2, <2>1, SumStep
  <2>3. t[S] = g[Pick(S)] + t[S \ {Pick(S)}]
    BY <1>2, <2>1, SumStep
  <2> QED
    BY <1>2, <2>2, <2>3
<1>3. \A S \in SUBSET D : S \in Q
  <2> HIDE DEF Q
  <2> QED
    BY <1>1, <1>2, SubsetInduction
<1> QED
  BY <1>3

\* Total is the sum over the whole domain.
LEMMA TotalIs ==
  ASSUME NEW D, IsFiniteSet(D), NEW f \in [D -> Int]
  PROVE  \E s : SumIs(s, f) /\ Total(f) = s[D]
<1> DEFINE Body(s) == [S \in SUBSET DOMAIN f |->
                         IF S = {} THEN 0 ELSE f[CHOOSE x \in S : TRUE] + s[S \ {CHOOSE x \in S : TRUE}]]
           sum == CHOOSE s : s = Body(s)
<1>1. \A s : SumIs(s, f) <=> s = Body(s)
  BY DEF SumIs, Pick
<1>2. \E s : s = Body(s)
  <2> HIDE DEF Body
  <2> QED
    BY <1>1, SumExists
<1>3. sum = Body(sum)
  BY <1>2
<1>4. Total(f) = sum[D]
  BY DEF Total
<1> HIDE DEF sum, Body
<1> QED
  BY <1>1, <1>3, <1>4

\* A total is an integer, and each value may be taken off it.
LEMMA TotalInt ==
  ASSUME NEW D, IsFiniteSet(D), NEW f \in [D -> Int]
  PROVE  Total(f) \in Int
BY TotalIs, SumInt

LEMMA TotalEmpty == \A f : DOMAIN f = {} /\ f \in [{} -> Int] => Total(f) = 0
  BY TotalIs, SumEmpty, FS_EmptySet

LEMMA TotalWithout ==
  ASSUME NEW D, IsFiniteSet(D), NEW f \in [D -> Int], NEW x \in D
  PROVE  /\ Total(f) = f[x] + Total([y \in D \ {x} |-> f[y]])
         /\ Total([y \in D \ {x} |-> f[y]]) \in Int
<1> DEFINE E == D \ {x}
           g == [y \in E |-> f[y]]
<1>1. IsFiniteSet(E) /\ g \in [E -> Int]
  BY FS_Subset
<1>2. PICK s : SumIs(s, f) /\ Total(f) = s[D]
  BY TotalIs
<1>3. PICK t : SumIs(t, g) /\ Total(g) = t[E]
  BY <1>1, TotalIs
<1>4. s[D] = f[x] + s[E]
  BY <1>2, SumTakesAny
<1>5. E \subseteq D /\ \A y \in E : g[y] = f[y]
  OBVIOUS
<1> HIDE DEF E, g
<1>6. t[E] = s[E]
  <2>1. E \in SUBSET E
    OBVIOUS
  <2> QED
    BY <1>1, <1>2, <1>3, <1>5, <2>1, SumsAgree
<1>7. Total(g) \in Int
  BY <1>1, TotalInt
<1>8. Total(f) = f[x] + Total(g)
  BY <1>2, <1>3, <1>4, <1>6
<1> QED
  BY <1>7, <1>8 DEF E, g
=============================================================================
