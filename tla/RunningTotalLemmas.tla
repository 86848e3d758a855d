------------------------- MODULE RunningTotalLemmas -------------------------
(***************************************************************************)
(* What appending to a sequence of integers, or changing one of them, does *)
(* to its total.  The library's induction theorems take an operator, so    *)
(* induction over the naturals is used here in its form for sets.          *)
(***************************************************************************)
EXTENDS RunningTotals, SequenceTheorems, WellFoundedInduction, TLAPS

\* A set of naturals that holds 0 and the successor of each of its elements
\* below a bound holds every natural up to the bound.
LEMMA BoundedInduction ==
    ASSUME NEW N \in Nat, NEW S, 0 \in S,
           \A n \in 0..N : n \in S /\ n < N => n + 1 \in S
    PROVE  0..N \subseteq S
<1>. DEFINE T == {n \in 0..N : n \notin S}
<1>1. SUFFICES ASSUME T # {} PROVE FALSE
  OBVIOUS
<1>2. T \subseteq Nat
  OBVIOUS
<1>. HIDE DEF T
<1>3. PICK x \in T : \A y \in T : ~ (<<y, x>> \in OpToRel(<, Nat))
  BY <1>1, <1>2, NatLessThanWellFounded, WFMin
<1>4. x \in 0..N /\ x \notin S
  BY DEF T
<1>5. x - 1 \in 0..N
  BY <1>4
<1>6. <<x - 1, x>> \in OpToRel(<, Nat)
  <2>1. x - 1 \in Nat /\ x \in Nat /\ x - 1 < x
    BY <1>4, <1>5
  <2>. QED
    BY <2>1 DEF OpToRel
<1>7. x - 1 \notin T
  BY <1>3, <1>6
<1>. QED
  BY <1>4, <1>5, <1>7 DEF T

\* The recursive definition of RunningTotal defines a function.
LEMMA RunningTotalDef ==
    ASSUME NEW v \in Seq(Int)
    PROVE  /\ RunningTotal(v) \in [0..Len(v) -> Int]
           /\ RunningTotal(v)[0] = 0
           /\ \A n \in 1..Len(v) : RunningTotal(v)[n] = RunningTotal(v)[n - 1] + v[n]
<1>. DEFINE L == Len(v)
            Step(f, n) == IF n = 0 THEN 0 ELSE f[n - 1] + v[n]
            Good(m) == \E f \in [0..m -> Int] : \A n \in 0..m : f[n] = Step(f, n)
            S == {m \in 0..L : Good(m)}
<1>1. L \in Nat /\ \A n \in 1..L : v[n] \in Int
  BY LenProperties, ElementOfSeq
<1>. HIDE DEF L
<1>2. 0 \in S
  <2>. DEFINE f0 == [n \in 0..0 |-> 0]
  <2>1. f0 \in [0..0 -> Int]
    OBVIOUS
  <2>2. \A n \in 0..0 : f0[n] = Step(f0, n)
    OBVIOUS
  <2>. HIDE DEF f0
  <2>3. Good(0)
    BY <2>1, <2>2
  <2>. QED
    BY <1>1, <2>3
<1>3. ASSUME NEW m \in 0..L, m \in S, m < L
      PROVE  m + 1 \in S
  <2>1. PICK f \in [0..m -> Int] : \A n \in 0..m : f[n] = Step(f, n)
    BY <1>3
  <2>. DEFINE g == [n \in 0..(m + 1) |-> IF n = m + 1 THEN f[m] + v[m + 1] ELSE f[n]]
  <2>2. g \in [0..(m + 1) -> Int]
    <3>1. m + 1 \in 1..L /\ m \in 0..m
      BY <1>1, <1>3
    <3>2. f[m] + v[m + 1] \in Int
      BY <1>1, <3>1
    <3>3. \A n \in 0..(m + 1) : n # m + 1 => n \in 0..m
      BY <1>1
    <3>. QED
      BY <3>2, <3>3
  <2>3. \A n \in 0..(m + 1) : g[n] = Step(g, n)
    <3>1. ASSUME NEW n \in 0..(m + 1), n = m + 1
          PROVE  g[n] = Step(g, n)
      <4>1. g[n] = f[m] + v[m + 1] /\ g[m] = f[m] /\ n # 0 /\ n - 1 = m
        BY <3>1, <1>1
      <4>. QED
        BY <4>1, <3>1
    <3>2. ASSUME NEW n \in 0..(m + 1), n # m + 1
          PROVE  g[n] = Step(g, n)
      <4>1. n \in 0..m /\ g[n] = f[n] /\ f[n] = Step(f, n)
        BY <3>2, <2>1, <1>1
      <4>2. CASE n = 0
        BY <4>1, <4>2
      <4>3. CASE n # 0
        <5>1. n - 1 \in 0..(m + 1) /\ n - 1 # m + 1
          BY <4>1, <4>3, <1>1
        <5>2. g[n - 1] = f[n - 1]
          BY <5>1
        <5>. QED
          BY <4>1, <4>3, <5>2
      <4>. QED
        BY <4>2, <4>3
    <3>. QED
      BY <3>1, <3>2
  <2>4. m + 1 \in 0..L
    BY <1>1, <1>3
  <2>. HIDE DEF g
  <2>5. Good(m + 1)
    BY <2>2, <2>3
  <2>. QED
    BY <2>4, <2>5
<1>4. L \in S
  <2>. HIDE DEF S
  <2>1. 0..L \subseteq S
    BY <1>1, <1>2, <1>3, BoundedInduction
  <2>. QED
    BY <2>1, <1>1
<1>5. PICK f \in [0..L -> Int] : \A n \in 0..L : f[n] = Step(f, n)
  BY <1>4
<1>6. f = [n \in 0..L |-> IF n = 0 THEN 0 ELSE f[n - 1] + v[n]]
  BY <1>5
<1>7. RunningTotal(v) =
        [n \in 0..L |-> IF n = 0 THEN 0 ELSE RunningTotal(v)[n - 1] + v[n]]
  BY <1>6 DEF RunningTotal, L
<1>. DEFINE t == RunningTotal(v)
<1>. HIDE DEF t
<1>8. t = [n \in 0..L |-> IF n = 0 THEN 0 ELSE t[n - 1] + v[n]]
  BY <1>7 DEF t
<1>9. t[0] = 0 /\ \A n \in 1..L : t[n] = t[n - 1] + v[n]
  <2>1. \A n \in 0..L : t[n] = IF n = 0 THEN 0 ELSE t[n - 1] + v[n]
    BY <1>8
  <2>. QED
    BY <2>1, <1>1
<1>10. t \in [0..L -> Int]
  <2>. DEFINE U == {n \in 0..L : t[n] \in Int}
  <2>1. 0 \in U
    BY <1>1, <1>9
  <2>2. ASSUME NEW n \in 0..L, n \in U, n < L
        PROVE  n + 1 \in U
    <3>1. n + 1 \in 1..L /\ n + 1 - 1 = n
      BY <1>1, <2>2
    <3>2. t[n + 1] = t[n] + v[n + 1]
      BY <3>1, <1>9
    <3>. QED
      BY <3>1, <3>2, <2>2, <1>1
  <2>3. 0..L \subseteq U
    <3>. HIDE DEF U
    <3>. QED
      BY <1>1, <2>1, <2>2, BoundedInduction
  <2>4. \A n \in 0..L : t[n] \in Int
    BY <2>3
  <2>5. t = [n \in 0..L |-> t[n]]
    BY <1>8
  <2>. QED
    BY <2>4, <2>5
<1>. QED
  BY <1>9, <1>10 DEF t, L

\* A total is an integer.
LEMMA TotalType ==
    ASSUME NEW v \in Seq(Int)
    PROVE  Total(v) \in Int
<1>1. Len(v) \in 0..Len(v)
  BY LenProperties
<1>. QED
  BY <1>1, RunningTotalDef DEF Total

\* Two sequences that agree up to m have the same running total at m.
LEMMA SamePrefix ==
    ASSUME NEW v \in Seq(Int), NEW w \in Seq(Int), NEW m \in Nat,
           m <= Len(v), m <= Len(w), \A n \in 1..m : v[n] = w[n]
    PROVE  \A n \in 0..m : RunningTotal(v)[n] = RunningTotal(w)[n]
<1>. DEFINE S == {n \in 0..m : RunningTotal(v)[n] = RunningTotal(w)[n]}
<1>0. Len(v) \in Nat /\ Len(w) \in Nat
  BY LenProperties
<1>1. 0 \in S
  BY RunningTotalDef
<1>2. ASSUME NEW n \in 0..m, n \in S, n < m
      PROVE  n + 1 \in S
  <2>1. n + 1 \in 1..Len(v) /\ n + 1 \in 1..Len(w) /\ n + 1 \in 1..m /\ n + 1 - 1 = n
    BY <1>0, <1>2
  <2>2. RunningTotal(v)[n + 1] = RunningTotal(v)[n] + v[n + 1]
    BY <2>1, RunningTotalDef
  <2>3. RunningTotal(w)[n + 1] = RunningTotal(w)[n] + w[n + 1]
    BY <2>1, RunningTotalDef
  <2>. QED
    BY <2>1, <2>2, <2>3, <1>2
<1>3. 0..m \subseteq S
  <2>. HIDE DEF S
  <2>. QED
    BY <1>1, <1>2, BoundedInduction
<1>. QED
  BY <1>3

\* Appending x adds x to the total.
LEMMA TotalAppend ==
    ASSUME NEW v \in Seq(Int), NEW w \in Seq(Int), NEW x \in Int,
           Len(w) = Len(v) + 1, w[Len(v) + 1] = x,
           \A n \in 1..Len(v) : w[n] = v[n]
    PROVE  Total(w) = Total(v) + x
<1>1. Len(v) \in Nat
  BY LenProperties
<1>2. RunningTotal(w)[Len(v)] = RunningTotal(v)[Len(v)]
  <2>1. Len(v) <= Len(v) /\ Len(v) <= Len(w) /\ Len(v) \in 0..Len(v)
    BY <1>1
  <2>2. \A n \in 0..Len(v) : RunningTotal(v)[n] = RunningTotal(w)[n]
    BY <1>1, <2>1, SamePrefix
  <2>. QED
    BY <2>1, <2>2
<1>3. Len(v) + 1 \in 1..Len(w) /\ Len(v) + 1 - 1 = Len(v)
  BY <1>1
<1>4. RunningTotal(w)[Len(v) + 1] = RunningTotal(w)[Len(v)] + x
  BY <1>3, RunningTotalDef
<1>. QED
  BY <1>2, <1>4 DEF Total

\* Raising one element by d raises the total by d.
LEMMA TotalChange ==
    ASSUME NEW v \in Seq(Int), NEW w \in Seq(Int), NEW d \in Int,
           NEW i \in 1..Len(v), Len(w) = Len(v), w[i] = v[i] + d,
           \A n \in 1..Len(v) : n # i => w[n] = v[n]
    PROVE  Total(w) = Total(v) + d
<1>. DEFINE L == Len(v)
            S == {n \in 0..L :
                    RunningTotal(w)[n] = RunningTotal(v)[n] + (IF n < i THEN 0 ELSE d)}
<1>1. L \in Nat /\ i \in Nat /\ i <= L /\ 1 <= i
  BY LenProperties
<1>2. /\ \A n \in 0..L : RunningTotal(v)[n] \in Int /\ RunningTotal(w)[n] \in Int
      /\ RunningTotal(v)[0] = 0 /\ RunningTotal(w)[0] = 0
      /\ \A n \in 1..L : /\ RunningTotal(v)[n] = RunningTotal(v)[n - 1] + v[n]
                         /\ RunningTotal(w)[n] = RunningTotal(w)[n - 1] + w[n]
      /\ \A n \in 1..L : v[n] \in Int
  BY RunningTotalDef, ElementOfSeq
<1>. HIDE DEF L
<1>3. 0 \in S
  BY <1>1, <1>2
<1>4. ASSUME NEW n \in 0..L, n \in S, n < L
      PROVE  n + 1 \in S
  <2>1. n + 1 \in 1..L /\ n + 1 \in 0..L /\ n + 1 - 1 = n
    BY <1>1, <1>4
  <2>2. /\ RunningTotal(v)[n + 1] = RunningTotal(v)[n] + v[n + 1]
        /\ RunningTotal(w)[n + 1] = RunningTotal(w)[n] + w[n + 1]
        /\ RunningTotal(v)[n] \in Int /\ v[n + 1] \in Int
    BY <2>1, <1>2
  <2>3. RunningTotal(w)[n] = RunningTotal(v)[n] + (IF n < i THEN 0 ELSE d)
    BY <1>4
  <2>4. w[n + 1] = v[n + 1] + (IF n + 1 = i THEN d ELSE 0)
    BY <2>1, <2>2 DEF L
  <2>5. RunningTotal(w)[n + 1] = RunningTotal(v)[n + 1] + (IF n + 1 < i THEN 0 ELSE d)
    BY <2>1, <2>2, <2>3, <2>4, <1>1
  <2>. QED
    BY <2>1, <2>5
<1>5. 0..L \subseteq S
  <2>. HIDE DEF S
  <2>. QED
    BY <1>1, <1>3, <1>4, BoundedInduction
<1>6. RunningTotal(w)[L] = RunningTotal(v)[L] + d
  BY <1>1, <1>5
<1>. QED
  BY <1>6 DEF Total, L

=============================================================================
