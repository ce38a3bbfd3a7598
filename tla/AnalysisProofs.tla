--------------------------- MODULE AnalysisProofs ---------------------------
(***************************************************************************)
(* What is proved about the loops that analyse a series: the gap scan of   *)
(* DataQuality and its validation suite, and the indicators, the drawdown  *)
(* and the replay of the fills of Analytics.                               *)
(*                                                                         *)
(* Such a loop is a recursive function on 0 .. n.  Its invariant holds by  *)
(* induction, which has to be made from well-foundedness: InductionTo says *)
(* that a set with 0 that is closed under successors up to n has all of    *)
(* 0 .. n, RecursionExists that the equations of the loop have a solution, *)
(* SameLoop that the function which is chosen to satisfy them is one.  A   *)
(* fold is such a function on the subsets of its domain: FoldExists finds  *)
(* it by induction on their size, FoldedLoop reads it as a loop.           *)
(***************************************************************************)
EXTENDS DataQuality, Analytics, FiniteSetTheorems, WellFoundedInduction, TLAPS
-----------------------------------------------------------------------------
(* Induction and recursion. *)

(* A set of naturals that is not empty has a least element.                *)
LEMMA LeastNatural ==
  ASSUME NEW T, T \subseteq Nat, T # {}
  PROVE  \E x \in T : \A y \in T : x <= y
<1> DEFINE Below == OpToRel(<, Nat)
<1>1. IsWellFoundedOn(Below, Nat)
  BY NatLessThanWellFounded, Zenon
<1>2. \A x, y \in Nat : x < y => <<x, y>> \in Below
  BY DEF OpToRel
<1> HIDE DEF Below
<1>3. \E x \in T : \A y \in T : ~(<<y, x>> \in Below)
  BY <1>1, WFMin, Zenon
<1>4. PICK x \in T : \A y \in T : ~(<<y, x>> \in Below)
  BY <1>3
<1>5. ASSUME NEW y \in T PROVE x <= y
  <2>1. x \in Nat /\ y \in Nat /\ ~(y < x)
    BY <1>2, <1>4
  <2> QED BY <2>1
<1> QED BY <1>5

(* Induction from 0 to n. *)
LEMMA InductionTo ==
  ASSUME NEW n \in Nat, NEW T, 0 \in T, \A k \in 0 .. n - 1 : k \in T => k + 1 \in T
  PROVE  0 .. n \subseteq T
<1>1. SUFFICES ASSUME (0 .. n) \ T # {} PROVE FALSE
  OBVIOUS
<1>2. (0 .. n) \ T \subseteq Nat
  OBVIOUS
<1>3. PICK x \in (0 .. n) \ T : \A y \in (0 .. n) \ T : x <= y
  BY <1>1, <1>2, LeastNatural
<1>4. x - 1 \in 0 .. n - 1 /\ x - 1 \notin (0 .. n) \ T /\ (x - 1) + 1 = x
  BY <1>3
<1> QED BY <1>3, <1>4

(* The values of a loop that runs over 1 .. n from a base.                 *)
Iterates(f, n, base, step) == f[0] = base /\ \A k \in 1 .. n : f[k] = step[<<k, f[k - 1]>>]

LEMMA RecursionExists ==
  ASSUME NEW n \in Nat, NEW S, NEW base \in S, NEW step \in [(1 .. n) \X S -> S]
  PROVE  \E f \in [0 .. n -> S] : Iterates(f, n, base, step)
<1> DEFINE Upto(m) == \E f \in [0 .. m -> S] : f[0] = base /\ \A k \in 1 .. m : f[k] = step[<<k, f[k - 1]>>]
           T == {m \in 0 .. n : Upto(m)}
<1>1. 0 \in T
  <2> DEFINE z == [k \in 0 .. 0 |-> base]
  <2>1. z \in [0 .. 0 -> S] /\ z[0] = base /\ \A k \in 1 .. 0 : z[k] = step[<<k, z[k - 1]>>]
    OBVIOUS
  <2>2. Upto(0)
    BY <2>1
  <2> QED BY <2>2
<1>2. ASSUME NEW m \in 0 .. n - 1, m \in T PROVE m + 1 \in T
  <2>1. PICK f \in [0 .. m -> S] : f[0] = base /\ \A k \in 1 .. m : f[k] = step[<<k, f[k - 1]>>]
    BY <1>2
  <2> DEFINE g == [k \in 0 .. m + 1 |-> IF k = m + 1 THEN step[<<m + 1, f[m]>>] ELSE f[k]]
  <2>2. step[<<m + 1, f[m]>>] \in S
    <3>1. f[m] \in S /\ m + 1 \in 1 .. n
      BY <2>1
    <3> QED BY <3>1
  <2>3. g \in [0 .. m + 1 -> S] /\ g[0] = base
    BY <2>1, <2>2
  <2>4. ASSUME NEW k \in 1 .. m + 1 PROVE g[k] = step[<<k, g[k - 1]>>]
    <3>1. k - 1 \in 0 .. m /\ k - 1 # m + 1 /\ g[k - 1] = f[k - 1]
      OBVIOUS
    <3>2. CASE k = m + 1
      <4>1. k - 1 = m /\ g[k] = step[<<m + 1, f[m]>>]
        BY <3>2
      <4> QED BY <3>1, <3>2, <4>1
    <3>3. CASE k # m + 1
      <4>1. k \in 1 .. m /\ g[k] = f[k]
        BY <3>3
      <4> QED BY <2>1, <3>1, <4>1
    <3> QED BY <3>2, <3>3
  <2>5. Upto(m + 1)
    BY <2>3, <2>4
  <2>6. m + 1 \in 0 .. n
    OBVIOUS
  <2> QED BY <2>5, <2>6
<1> HIDE DEF T
<1>3. 0 .. n \subseteq T
  BY <1>1, <1>2, InductionTo
<1> QED BY <1>3 DEF T, Iterates

(* A function that takes each step of such a loop is a solution.           *)
Follows(g, n, S, base, step) ==
  /\ DOMAIN g = 0 .. n /\ g = [k \in DOMAIN g |-> g[k]] /\ g[0] = base
  /\ \A k \in 1 .. n : g[k - 1] \in S => g[k] = step[<<k, g[k - 1]>>]

LEMMA SameLoop ==
  ASSUME NEW n \in Nat, NEW S, NEW base \in S, NEW step \in [(1 .. n) \X S -> S],
         NEW g, Follows(g, n, S, base, step)
  PROVE  g \in [0 .. n -> S] /\ Iterates(g, n, base, step)
<1> DEFINE T == {k \in 0 .. n : g[k] \in S}
<1>1. 0 \in T
  BY DEF Follows
<1>2. ASSUME NEW k \in 0 .. n - 1, k \in T PROVE k + 1 \in T
  <2>1. k + 1 \in 1 .. n /\ k + 1 \in 0 .. n /\ (k + 1) - 1 = k /\ g[k] \in S
    BY <1>2
  <2>2. g[k + 1] = step[<<k + 1, g[k]>>] /\ <<k + 1, g[k]>> \in (1 .. n) \X S
    BY <2>1 DEF Follows
  <2>3. g[k + 1] \in S
    BY <2>2
  <2> QED BY <2>1, <2>3
<1> HIDE DEF T
<1>3. 0 .. n \subseteq T
  BY <1>1, <1>2, InductionTo
<1>4. \A k \in 0 .. n : g[k] \in S
  BY <1>3 DEF T
<1>5. \A k \in 1 .. n : k - 1 \in 0 .. n
  OBVIOUS
<1>6. g \in [0 .. n -> S]
  BY <1>4 DEF Follows
<1>7. Iterates(g, n, base, step)
  BY <1>4, <1>5 DEF Iterates, Follows
<1> QED BY <1>6, <1>7
-----------------------------------------------------------------------------
(* Multiples of a step are ordered as their factors.                       *)
LEMMA Multiples ==
  ASSUME NEW i \in Int, NEW j \in Int, NEW d \in Nat \ {0}
  PROVE  /\ i * d \in Int /\ (i + 1) * d = i * d + d
         /\ i < j => i * d + d <= j * d
         /\ i * d <= j * d <=> i <= j
         /\ i * d = j * d <=> i = j
<1>1. \A x, y \in Int : x < y => x * d + d <= y * d
  <2> SUFFICES ASSUME NEW x \in Int, NEW y \in Int, x < y PROVE x * d + d <= y * d
    OBVIOUS
  <2>1. y - x - 1 \in Nat
    OBVIOUS
  <2>2. (y - x - 1) * d \in Nat
    BY <2>1
  <2>3. y * d = x * d + d + (y - x - 1) * d
    OBVIOUS
  <2> QED BY <2>2, <2>3
<1>2. i * d \in Int /\ j * d \in Int /\ (i + 1) * d = i * d + d
  OBVIOUS
<1>3. i < j => i * d + d <= j * d
  BY <1>1
<1>4. j < i => j * d + d <= i * d
  BY <1>1
<1> QED BY <1>2, <1>3, <1>4

LEMMA ExpectedBarFacts ==
  ASSUME NEW w, w[1] \in Int, NEW i \in Int, NEW j \in Int
  PROVE  /\ ExpectedBar(w, i) \in Int
         /\ ExpectedBar(w, i + 1) = ExpectedBar(w, i) + Step
         /\ ExpectedBar(w, i) <= ExpectedBar(w, j) <=> i <= j
         /\ ExpectedBar(w, i) = ExpectedBar(w, j) <=> i = j
         /\ i < j => ExpectedBar(w, i) + Step <= ExpectedBar(w, j)
<1>1. Step \in Nat \ {0}
  BY StepAssumption
<1>2. i - 1 \in Int /\ j - 1 \in Int /\ (i - 1) + 1 = i /\ (i + 1) - 1 = i
  OBVIOUS
<1>3. /\ (i - 1) * Step \in Int /\ (j - 1) * Step \in Int /\ i * Step = (i - 1) * Step + Step
      /\ i - 1 < j - 1 => (i - 1) * Step + Step <= (j - 1) * Step
      /\ (i - 1) * Step <= (j - 1) * Step <=> i - 1 <= j - 1
      /\ (i - 1) * Step = (j - 1) * Step <=> i - 1 = j - 1
  BY <1>1, <1>2, Multiples
<1> QED BY <1>1, <1>2, <1>3 DEF ExpectedBar
-----------------------------------------------------------------------------
(* The loop of gaps_from_expected_and_actual.                              *)
Intervals == Seq(Int \X Int)

LEMMA ExtendTypes ==
  ASSUME NEW rs \in Intervals, NEW t \in Int
  PROVE  Extend(rs, t) \in Intervals
<1>1. CASE rs # <<>> /\ t - Last(rs)[2] = Step
  <2>1. Len(rs) \in 1 .. Len(rs) /\ rs[Len(rs)] \in Int \X Int
    BY <1>1 DEF Intervals
  <2>2. [rs[Len(rs)] EXCEPT ![2] = t] \in Int \X Int
    BY <2>1
  <2>3. Extend(rs, t) = [rs EXCEPT ![Len(rs)] = [rs[Len(rs)] EXCEPT ![2] = t]]
    BY <1>1 DEF Extend
  <2> QED BY <2>1, <2>2, <2>3 DEF Intervals
<1>2. CASE ~(rs # <<>> /\ t - Last(rs)[2] = Step)
  BY <1>2 DEF Extend, Intervals
<1> QED BY <1>1, <1>2

LEMMA RunsRecursion ==
  ASSUME NEW w, w[1] \in Int, ExpectedBars(w) \in Nat, NEW actual
  PROVE  /\ Runs(w, actual) \in [0 .. ExpectedBars(w) -> Intervals]
         /\ Runs(w, actual)[0] = <<>>
         /\ \A k \in 1 .. ExpectedBars(w) :
              Runs(w, actual)[k] =
                IF ExpectedBar(w, k) \in actual THEN Runs(w, actual)[k - 1]
                ELSE Extend(Runs(w, actual)[k - 1], ExpectedBar(w, k))
<1> DEFINE n == ExpectedBars(w)
           next(k, rs) == IF ExpectedBar(w, k) \in actual THEN rs ELSE Extend(rs, ExpectedBar(w, k))
           step == [p \in (1 .. n) \X Intervals |-> next(p[1], p[2])]
           IsLoop(f) == f = [k \in 0 .. n |-> IF k = 0 THEN <<>> ELSE next(k, f[k - 1])]
<1>1. n \in Nat /\ <<>> \in Intervals
  BY DEF Intervals
<1>2. step \in [(1 .. n) \X Intervals -> Intervals]
  <2> SUFFICES ASSUME NEW k \in 1 .. n, NEW rs \in Intervals PROVE next(k, rs) \in Intervals
    OBVIOUS
  <2>1. ExpectedBar(w, k) \in Int
    BY <1>1, ExpectedBarFacts
  <2> QED BY <2>1, ExtendTypes
<1> HIDE DEF n, next
<1>3. ASSUME NEW k \in 1 .. n, NEW rs \in Intervals PROVE step[<<k, rs>>] = next(k, rs)
  <2>1. <<k, rs>> \in (1 .. n) \X Intervals /\ <<k, rs>>[1] = k /\ <<k, rs>>[2] = rs
    OBVIOUS
  <2> QED BY <2>1, Zenon
<1> HIDE DEF step
<1>4. PICK f \in [0 .. n -> Intervals] : f[0] = <<>> /\ \A k \in 1 .. n : f[k] = step[<<k, f[k - 1]>>]
  <2>1. \E f \in [0 .. n -> Intervals] : Iterates(f, n, <<>>, step)
    BY <1>1, <1>2, RecursionExists
  <2> QED BY <2>1 DEF Iterates
<1>5. ASSUME NEW k \in 0 .. n PROVE f[k] = IF k = 0 THEN <<>> ELSE next(k, f[k - 1])
  <2>1. k # 0 => k \in 1 .. n /\ k - 1 \in 0 .. n
    BY <1>1
  <2>2. k # 0 => f[k] = step[<<k, f[k - 1]>>] /\ f[k - 1] \in Intervals
    BY <1>4, <2>1
  <2>3. k # 0 => f[k] = next(k, f[k - 1])
    BY <1>3, <2>1, <2>2
  <2> QED BY <1>4, <2>3
<1>6. IsLoop(f)
  BY <1>4, <1>5
<1>7. Runs(w, actual) = CHOOSE g : IsLoop(g)
  BY DEF Runs, n, next
<1> DEFINE runs == Runs(w, actual)
<1>8. IsLoop(runs)
  BY <1>6, <1>7, Zenon
<1> HIDE DEF runs
<1>9. /\ DOMAIN runs = 0 .. n /\ runs = [k \in DOMAIN runs |-> runs[k]]
      /\ runs[0] = <<>> /\ \A k \in 1 .. n : runs[k] = next(k, runs[k - 1])
  <2>1. ASSUME NEW k \in 0 .. n PROVE runs[k] = IF k = 0 THEN <<>> ELSE next(k, runs[k - 1])
    BY <1>8
  <2>2. 0 \in 0 .. n /\ \A k \in 1 .. n : k \in 0 .. n /\ k # 0
    BY <1>1
  <2> QED BY <1>8, <2>1, <2>2
<1>10. Follows(runs, n, Intervals, <<>>, step)
  BY <1>3, <1>9 DEF Follows
<1>11. runs \in [0 .. n -> Intervals]
  BY <1>1, <1>2, <1>10, SameLoop
<1>12. \A k \in 1 .. n : next(k, runs[k - 1]) =
          IF ExpectedBar(w, k) \in actual THEN runs[k - 1] ELSE Extend(runs[k - 1], ExpectedBar(w, k))
  BY DEF next
<1> QED BY <1>9, <1>11, <1>12 DEF n, runs
-----------------------------------------------------------------------------
(* What the loop has established after k expected bars: the runs lie among *)
(* those bars, are further than a step apart, and cover exactly the bars   *)
(* that are missing.                                                       *)
Covered(rs, t) == \E i \in 1 .. Len(rs) : rs[i][1] <= t /\ t <= rs[i][2]

RunsBetweenBars(w, k, rs) ==
  \A i \in 1 .. Len(rs) :
    \E a, b \in 1 .. k : a <= b /\ rs[i] = <<ExpectedBar(w, a), ExpectedBar(w, b)>>

RunsApart(rs) == \A i \in 1 .. Len(rs) - 1 : rs[i + 1][1] - rs[i][2] > Step

RunsCover(w, actual, k, rs) ==
  \A j \in 1 .. k : ExpectedBar(w, j) \notin actual <=> Covered(rs, ExpectedBar(w, j))

LoopInv(w, actual, k, rs) ==
  /\ rs \in Intervals
  /\ RunsBetweenBars(w, k, rs)
  /\ RunsApart(rs)
  /\ RunsCover(w, actual, k, rs)

(* A run that ends among the first k bars covers no later bar. *)
LEMMA NotYetCovered ==
  ASSUME NEW w, w[1] \in Int, NEW k \in Nat, NEW rs, RunsBetweenBars(w, k, rs)
  PROVE  ~Covered(rs, ExpectedBar(w, k + 1))
<1> SUFFICES ASSUME NEW i \in 1 .. Len(rs), ExpectedBar(w, k + 1) <= rs[i][2] PROVE FALSE
  BY DEF Covered
<1>1. PICK a, b \in 1 .. k : rs[i] = <<ExpectedBar(w, a), ExpectedBar(w, b)>>
  BY DEF RunsBetweenBars
<1>2. ExpectedBar(w, b) < ExpectedBar(w, k + 1)
  <2>1. b \in Int /\ k + 1 \in Int /\ b < k + 1
    BY <1>1
  <2>2. /\ ExpectedBar(w, b) \in Int /\ ExpectedBar(w, k + 1) \in Int
        /\ ExpectedBar(w, b) + Step <= ExpectedBar(w, k + 1)
    BY <2>1, ExpectedBarFacts
  <2> QED BY <2>2, StepAssumption
<1>3. ExpectedBar(w, b) \in Int /\ ExpectedBar(w, k + 1) \in Int
  BY <1>1, ExpectedBarFacts
<1> QED BY <1>1, <1>2, <1>3

(* A stored bar leaves the runs as they are. *)
LEMMA LoopPassesStored ==
  ASSUME NEW w, w[1] \in Int, NEW actual, NEW k \in Nat, NEW rs, LoopInv(w, actual, k, rs),
         ExpectedBar(w, k + 1) \in actual
  PROVE  LoopInv(w, actual, k + 1, rs)
<1>1. RunsBetweenBars(w, k + 1, rs)
  BY DEF LoopInv, RunsBetweenBars
<1>2. ~Covered(rs, ExpectedBar(w, k + 1))
  BY NotYetCovered DEF LoopInv
<1>3. RunsCover(w, actual, k + 1, rs)
  <2>1. \A j \in 1 .. k + 1 : j = k + 1 \/ j \in 1 .. k
    OBVIOUS
  <2> QED BY <1>2, <2>1 DEF LoopInv, RunsCover
<1> QED BY <1>1, <1>3 DEF LoopInv

(* A missing bar next to the last run lengthens it, another one starts a   *)
(* run of its own.                                                         *)
LEMMA LoopTakesMissing ==
  ASSUME NEW w, w[1] \in Int, NEW actual, NEW k \in Nat, NEW rs, LoopInv(w, actual, k, rs),
         ExpectedBar(w, k + 1) \notin actual
  PROVE  LoopInv(w, actual, k + 1, Extend(rs, ExpectedBar(w, k + 1)))
<1> DEFINE t == ExpectedBar(w, k + 1)
           more == Extend(rs, t)
           n == Len(rs)
<1>1. t \in Int /\ Step \in Nat \ {0} /\ k + 1 \in Int /\ n \in Nat
  BY StepAssumption, ExpectedBarFacts DEF LoopInv, Intervals
<1>2. \A j \in 1 .. k : ExpectedBar(w, j) \in Int /\ ExpectedBar(w, j) + Step <= t
  <2> SUFFICES ASSUME NEW j \in 1 .. k PROVE ExpectedBar(w, j) \in Int /\ ExpectedBar(w, j) + Step <= t
    OBVIOUS
  <2>1. j \in Int /\ j < k + 1
    OBVIOUS
  <2> QED BY <1>1, <2>1, ExpectedBarFacts
<1>3. k > 0 => t = ExpectedBar(w, k) + Step
  BY ExpectedBarFacts
<1>4. more \in Intervals
  BY <1>1, ExtendTypes DEF LoopInv
<1>5. \A i \in 1 .. n : rs[i] \in Int \X Int
  BY DEF LoopInv, Intervals
<1>6. \A j \in 1 .. k : ExpectedBar(w, j) \notin actual <=> Covered(rs, ExpectedBar(w, j))
  BY DEF LoopInv, RunsCover
<1>7. \A i \in 1 .. n : \E a, b \in 1 .. k : a <= b /\ rs[i] = <<ExpectedBar(w, a), ExpectedBar(w, b)>>
  BY DEF LoopInv, RunsBetweenBars
<1>8. \A i \in 1 .. n - 1 : rs[i + 1][1] - rs[i][2] > Step
  BY DEF LoopInv, RunsApart
<1>9. \A j \in 1 .. k + 1 : j = k + 1 \/ j \in 1 .. k
  OBVIOUS
<1>10. rs \in Seq(Int \X Int)
  BY DEF LoopInv, Intervals
<1>11. CASE rs # <<>> /\ t - Last(rs)[2] = Step
  <2>1. n \in 1 .. n /\ rs[n] = Last(rs) /\ rs[n][2] + Step = t
    <3>1. n \in 1 .. n
      BY <1>10, <1>11
    <3>2. rs[n] = Last(rs)
      BY DEF Last
    <3> QED BY <1>1, <1>5, <1>11, <3>1, <3>2
  <2> DEFINE long == <<rs[n][1], t>>
  <2>2. more = [rs EXCEPT ![n] = long]
    <3>1. more = [rs EXCEPT ![n] = [rs[n] EXCEPT ![2] = t]]
      BY <1>11 DEF Extend
    <3>2. [rs[n] EXCEPT ![2] = t] = <<rs[n][1], t>>
      BY <1>5, <2>1
    <3> QED BY <3>1, <3>2
  <2> HIDE DEF more
  <2>3. Len(more) = n /\ more[n] = <<rs[n][1], t>> /\ \A i \in 1 .. n : i # n => more[i] = rs[i]
    BY <1>10, <2>1, <2>2
  <2> HIDE DEF n, t
  <2>4. RunsBetweenBars(w, k + 1, more)
    <3> SUFFICES ASSUME NEW i \in 1 .. n
                 PROVE  \E a, b \in 1 .. k + 1 : a <= b /\ more[i] = <<ExpectedBar(w, a), ExpectedBar(w, b)>>
      BY <2>3 DEF RunsBetweenBars
    <3>1. PICK a, b \in 1 .. k : a <= b /\ rs[i] = <<ExpectedBar(w, a), ExpectedBar(w, b)>>
      BY <1>7
    <3>2. a \in 1 .. k + 1 /\ b \in 1 .. k + 1 /\ k + 1 \in 1 .. k + 1 /\ a <= k + 1
      BY <3>1
    <3>3. i = n => more[i] = <<ExpectedBar(w, a), ExpectedBar(w, k + 1)>>
      BY <2>3, <3>1 DEF t
    <3>4. i # n => more[i] = <<ExpectedBar(w, a), ExpectedBar(w, b)>>
      BY <2>3, <3>1
    <3> QED BY <3>1, <3>2, <3>3, <3>4
  <2>5. RunsApart(more)
    <3> SUFFICES ASSUME NEW i \in 1 .. n - 1 PROVE more[i + 1][1] - more[i][2] > Step
      BY <2>3 DEF RunsApart
    <3>1. i \in 1 .. n /\ i # n /\ i + 1 \in 1 .. n
      BY <1>1
    <3>2. more[i] = rs[i] /\ more[i + 1][1] = rs[i + 1][1]
      BY <2>3, <3>1
    <3> QED BY <1>8, <3>2
  <2>6. \A j \in 1 .. k : Covered(more, ExpectedBar(w, j)) <=> Covered(rs, ExpectedBar(w, j))
    <3> SUFFICES ASSUME NEW j \in 1 .. k, NEW i \in 1 .. n
                 PROVE  more[i][1] <= ExpectedBar(w, j) /\ ExpectedBar(w, j) <= more[i][2]
                          <=> rs[i][1] <= ExpectedBar(w, j) /\ ExpectedBar(w, j) <= rs[i][2]
      BY <2>3 DEF Covered, n
    <3>1. CASE i # n
      BY <2>3, <3>1
    <3>2. CASE i = n
      <4>1. ExpectedBar(w, j) \in Int /\ ExpectedBar(w, j) + Step <= t
        BY <1>2
      <4>2. more[i][1] = rs[i][1] /\ more[i][2] = t /\ rs[i][2] + Step = t /\ rs[i][2] \in Int
        BY <1>5, <2>1, <2>3, <3>2
      <4> QED BY <1>1, <4>1, <4>2
    <3> QED BY <3>1, <3>2
  <2>7. Covered(more, t)
    <3>1. more[n][1] <= t /\ t <= more[n][2]
      <4>1. PICK a, b \in 1 .. k : a <= b /\ rs[n] = <<ExpectedBar(w, a), ExpectedBar(w, b)>>
        BY <1>7, <2>1
      <4>2. ExpectedBar(w, a) \in Int /\ ExpectedBar(w, a) + Step <= t
        BY <1>2
      <4> QED BY <1>1, <2>3, <4>1, <4>2
    <3> QED BY <2>1, <2>3, <3>1 DEF Covered
  <2>8. RunsCover(w, actual, k + 1, more)
    BY <1>6, <1>9, <2>6, <2>7 DEF RunsCover, t
  <2> QED BY <1>4, <2>4, <2>5, <2>8 DEF LoopInv, more, t
<1>12. CASE ~(rs # <<>> /\ t - Last(rs)[2] = Step)
  <2>1. more = Append(rs, <<t, t>>)
    BY <1>12 DEF Extend
  <2> HIDE DEF more
  <2>2. Len(more) = n + 1 /\ more[n + 1] = <<t, t>> /\ \A i \in 1 .. n : more[i] = rs[i]
    BY <1>1, <1>10, <2>1
  <2>3. n > 0 => t - rs[n][2] > Step
    <3> SUFFICES ASSUME n > 0 PROVE t - rs[n][2] > Step
      OBVIOUS
    <3>1. n \in 1 .. n /\ rs # <<>> /\ Last(rs) = rs[n]
      BY <1>1, <1>10 DEF Last
    <3>2. PICK a, b \in 1 .. k : a <= b /\ rs[n] = <<ExpectedBar(w, a), ExpectedBar(w, b)>>
      BY <1>7, <3>1
    <3>3. t - rs[n][2] # Step /\ rs[n][2] = ExpectedBar(w, b)
      BY <1>12, <3>1, <3>2
    <3>4. ExpectedBar(w, b) \in Int /\ ExpectedBar(w, b) + Step <= t
      BY <1>2
    <3> HIDE DEF t, n
    <3> QED BY <1>1, <3>3, <3>4
  <2>4. \A i \in 1 .. n + 1 : i = n + 1 \/ i \in 1 .. n
    BY <1>1
  <2>5. n + 1 \in 1 .. n + 1 /\ \A i \in 1 .. n : i \in 1 .. n + 1
    BY <1>1
  <2> HIDE DEF n, t
  <2>6. RunsBetweenBars(w, k + 1, more)
    <3>1. k + 1 \in 1 .. k + 1 /\ k + 1 <= k + 1 /\ more[n + 1] = <<ExpectedBar(w, k + 1), ExpectedBar(w, k + 1)>>
      BY <2>2 DEF t
    <3>2. \A i \in 1 .. n : \E a, b \in 1 .. k + 1 :
             a <= b /\ more[i] = <<ExpectedBar(w, a), ExpectedBar(w, b)>>
      <4> SUFFICES ASSUME NEW i \in 1 .. n
                   PROVE  \E a, b \in 1 .. k + 1 : a <= b /\ more[i] = <<ExpectedBar(w, a), ExpectedBar(w, b)>>
        OBVIOUS
      <4>1. PICK a, b \in 1 .. k : a <= b /\ rs[i] = <<ExpectedBar(w, a), ExpectedBar(w, b)>>
        BY <1>7
      <4>2. a \in 1 .. k + 1 /\ b \in 1 .. k + 1
        BY <4>1
      <4> QED BY <2>2, <4>1, <4>2
    <3> QED BY <2>2, <2>4, <3>1, <3>2 DEF RunsBetweenBars
  <2>7. RunsApart(more)
    <3> SUFFICES ASSUME NEW i \in 1 .. n PROVE more[i + 1][1] - more[i][2] > Step
      <4>1. Len(more) - 1 = n
        BY <1>1, <2>2
      <4> QED BY <4>1 DEF RunsApart
    <3>1. CASE i = n
      <4>1. more[i + 1][1] = t /\ more[i][2] = rs[n][2] /\ n > 0
        BY <1>1, <2>2, <3>1
      <4> QED BY <2>3, <4>1
    <3>2. CASE i # n
      <4>1. i \in 1 .. n - 1 /\ i + 1 \in 1 .. n
        BY <1>1, <3>2
      <4> QED BY <1>8, <2>2, <4>1
    <3> QED BY <3>1, <3>2
  <2>8. \A j \in 1 .. k : Covered(more, ExpectedBar(w, j)) <=> Covered(rs, ExpectedBar(w, j))
    <3> SUFFICES ASSUME NEW j \in 1 .. k
                 PROVE  Covered(more, ExpectedBar(w, j)) <=> Covered(rs, ExpectedBar(w, j))
      OBVIOUS
    <3>1. ~(more[n + 1][1] <= ExpectedBar(w, j))
      <4>1. ExpectedBar(w, j) \in Int /\ ExpectedBar(w, j) + Step <= t
        BY <1>2
      <4>2. more[n + 1][1] = t
        BY <2>2
      <4> QED BY <1>1, <4>1, <4>2
    <3> QED BY <2>2, <2>4, <2>5, <3>1 DEF Covered, n
  <2>9. Covered(more, t)
    <3>1. more[n + 1][1] = t /\ more[n + 1][2] = t /\ t <= t
      BY <1>1, <2>2
    <3> QED BY <2>2, <2>5, <3>1 DEF Covered
  <2>10. RunsCover(w, actual, k + 1, more)
    BY <1>6, <1>9, <2>8, <2>9 DEF RunsCover, t
  <2> QED BY <1>4, <2>6, <2>7, <2>10 DEF LoopInv, more, t
<1> QED BY <1>11, <1>12
-----------------------------------------------------------------------------
LEMMA WindowFacts ==
  ASSUME NEW w \in Windows
  PROVE  w[1] \in Int /\ ExpectedBars(w) \in Nat
<1>1. w \in Nat \X Nat /\ w[1] <= w[2]
  BY WindowsAssumption
<1>2. w[2] - w[1] \in Nat /\ Step \in Nat \ {0}
  BY <1>1, StepAssumption
<1>3. (w[2] - w[1]) \div Step \in Nat
  BY <1>2
<1> QED BY <1>1, <1>3 DEF ExpectedBars

(* After the last expected bar the invariant of the loop is its result.    *)
LEMMA LoopResult ==
  ASSUME NEW w \in Windows, NEW actual
  PROVE  LoopInv(w, actual, ExpectedBars(w), GapsFromExpectedAndActual(w, actual))
<1> DEFINE n == ExpectedBars(w)
           runs == Runs(w, actual)
           T == {k \in 0 .. n : LoopInv(w, actual, k, runs[k])}
<1>1. w[1] \in Int /\ n \in Nat
  BY WindowFacts
<1>2. /\ runs \in [0 .. n -> Intervals] /\ runs[0] = <<>>
      /\ \A k \in 1 .. n :
           runs[k] = IF ExpectedBar(w, k) \in actual THEN runs[k - 1]
                     ELSE Extend(runs[k - 1], ExpectedBar(w, k))
  BY <1>1, RunsRecursion
<1> HIDE DEF n, runs
<1>3. 0 \in T
  <2>1. LoopInv(w, actual, 0, <<>>)
    BY DEF LoopInv, Intervals, RunsBetweenBars, RunsApart, RunsCover
  <2> QED BY <1>1, <1>2, <2>1
<1>4. ASSUME NEW k \in 0 .. n - 1, k \in T PROVE k + 1 \in T
  <2>1. k \in Nat /\ k + 1 \in 0 .. n /\ k + 1 \in 1 .. n /\ (k + 1) - 1 = k /\ LoopInv(w, actual, k, runs[k])
    BY <1>1, <1>4
  <2>2. runs[k + 1] = IF ExpectedBar(w, k + 1) \in actual THEN runs[k]
                      ELSE Extend(runs[k], ExpectedBar(w, k + 1))
    BY <1>2, <2>1
  <2>3. CASE ExpectedBar(w, k + 1) \in actual
    <3>1. LoopInv(w, actual, k + 1, runs[k])
      BY <1>1, <2>1, <2>3, LoopPassesStored
    <3> QED BY <2>1, <2>2, <2>3, <3>1
  <2>4. CASE ExpectedBar(w, k + 1) \notin actual
    <3>1. LoopInv(w, actual, k + 1, Extend(runs[k], ExpectedBar(w, k + 1)))
      BY <1>1, <2>1, <2>4, LoopTakesMissing
    <3> QED BY <2>1, <2>2, <2>4, <3>1
  <2> QED BY <2>3, <2>4
<1> HIDE DEF T
<1>5. 0 .. n \subseteq T
  BY <1>1, <1>3, <1>4, InductionTo
<1>6. n \in T
  BY <1>1, <1>5
<1> QED BY <1>6 DEF T, n, runs, GapsFromExpectedAndActual

(* The bars of a run from one expected bar to another are those between.   *)
LEMMA BarsOfRun ==
  ASSUME NEW w, w[1] \in Int, NEW a \in Nat, NEW b \in Nat, a <= b
  PROVE  ExpectedOpenTimes(<<ExpectedBar(w, a), ExpectedBar(w, b)>>) = {ExpectedBar(w, j) : j \in a .. b}
<1> DEFINE g == <<ExpectedBar(w, a), ExpectedBar(w, b)>>
<1>1. Step \in Nat \ {0}
  BY StepAssumption
<1>2. ExpectedBar(w, a) \in Int /\ ExpectedBar(w, b) \in Int
  BY ExpectedBarFacts
<1>3. \A k \in Nat : ExpectedBar(g, k) = ExpectedBar(w, a + k - 1)
  <2> SUFFICES ASSUME NEW k \in Nat PROVE ExpectedBar(g, k) = ExpectedBar(w, a + k - 1)
    OBVIOUS
  <2>1. (a + k - 1) - 1 = (a - 1) + (k - 1)
    OBVIOUS
  <2>2. ((a - 1) + (k - 1)) * Step = (a - 1) * Step + (k - 1) * Step
    BY <1>1
  <2>3. (a - 1) * Step \in Int /\ (k - 1) * Step \in Int
    BY <1>1
  <2>4. g[1] = ExpectedBar(w, a)
    OBVIOUS
  <2> QED BY <2>1, <2>2, <2>3, <2>4 DEF ExpectedBar
<1>4. ExpectedBars(g) = b - a + 1
  <2>1. ExpectedBar(w, b) - ExpectedBar(w, a) = (b - a) * Step
    <3>1. (b - 1) * Step - (a - 1) * Step = (b - a) * Step
      BY <1>1
    <3>2. (a - 1) * Step \in Int /\ (b - 1) * Step \in Int /\ (b - a) * Step \in Int
      BY <1>1
    <3> QED BY <3>1, <3>2 DEF ExpectedBar
  <2>2. ((b - a) * Step) \div Step = b - a
    <3>1. \A m \in Nat : (m * Step) \div Step = m
      BY <1>1
    <3>2. b - a \in Nat
      OBVIOUS
    <3> QED BY <3>1, <3>2
  <2>3. g[2] - g[1] = ExpectedBar(w, b) - ExpectedBar(w, a)
    OBVIOUS
  <2> HIDE DEF g
  <2> QED BY <2>1, <2>2, <2>3 DEF ExpectedBars
<1> HIDE DEF g
<1>5. ExpectedOpenTimes(g) = {ExpectedBar(w, a + k - 1) : k \in 1 .. b - a + 1}
  <2>1. ExpectedOpenTimes(g) = {ExpectedBar(g, k) : k \in 1 .. b - a + 1}
    BY <1>4 DEF ExpectedOpenTimes
  <2>2. \A k \in 1 .. b - a + 1 : ExpectedBar(g, k) = ExpectedBar(w, a + k - 1)
    BY <1>3
  <2> QED BY <2>1, <2>2
<1>6. \A j \in a .. b : j - a + 1 \in 1 .. b - a + 1 /\ a + (j - a + 1) - 1 = j
  OBVIOUS
<1>7. \A k \in 1 .. b - a + 1 : a + k - 1 \in a .. b
  OBVIOUS
<1>8. ASSUME NEW x, x \in ExpectedOpenTimes(g) PROVE x \in {ExpectedBar(w, j) : j \in a .. b}
  BY <1>5, <1>7, <1>8
<1>9. ASSUME NEW x, x \in {ExpectedBar(w, j) : j \in a .. b} PROVE x \in ExpectedOpenTimes(g)
  <2>1. PICK j \in a .. b : x = ExpectedBar(w, j)
    BY <1>9
  <2>2. x = ExpectedBar(w, a + (j - a + 1) - 1) /\ j - a + 1 \in 1 .. b - a + 1
    BY <1>6, <2>1
  <2> HIDE DEF g
  <2> QED BY <1>5, <2>2
<1> QED BY <1>8, <1>9 DEF g

(* Whatever rows are stored, the gaps of a window are its missing bars.    *)
LEMMA GapsAreTheMissing ==
  ASSUME NEW w \in Windows, NEW actual
  PROVE  LET gs == GapsFromExpectedAndActual(w, actual) IN
           /\ UNION {ExpectedOpenTimes(g) : g \in ToSet(gs)} = ExpectedOpenTimes(w) \ actual
           /\ \A i \in 1 .. Len(gs) - 1 : gs[i + 1][1] - gs[i][2] > Step
<1> DEFINE n == ExpectedBars(w)
           gs == GapsFromExpectedAndActual(w, actual)
<1>1. w[1] \in Int /\ n \in Nat
  BY WindowFacts
<1>2. LoopInv(w, actual, n, gs)
  BY LoopResult
<1> HIDE DEF n, gs
<1>3. \A i \in 1 .. Len(gs) : \E a, b \in 1 .. n : a <= b /\ gs[i] = <<ExpectedBar(w, a), ExpectedBar(w, b)>>
  BY <1>2 DEF LoopInv, RunsBetweenBars
<1>4. \A j \in 1 .. n : ExpectedBar(w, j) \notin actual <=> Covered(gs, ExpectedBar(w, j))
  BY <1>2 DEF LoopInv, RunsCover
<1>5. ToSet(gs) = {gs[i] : i \in 1 .. Len(gs)}
  BY <1>2 DEF LoopInv, Intervals, ToSet
<1>6. ExpectedOpenTimes(w) = {ExpectedBar(w, j) : j \in 1 .. n}
  BY DEF ExpectedOpenTimes, n
<1>7. ASSUME NEW i \in 1 .. Len(gs), NEW x, x \in ExpectedOpenTimes(gs[i])
      PROVE  x \in ExpectedOpenTimes(w) \ actual
  <2>1. PICK a, b \in 1 .. n : a <= b /\ gs[i] = <<ExpectedBar(w, a), ExpectedBar(w, b)>>
    BY <1>3
  <2>2. PICK j \in a .. b : x = ExpectedBar(w, j)
    <3>1. ExpectedOpenTimes(gs[i]) = {ExpectedBar(w, j) : j \in a .. b}
      BY <1>1, <2>1, BarsOfRun
    <3> QED BY <1>7, <3>1
  <2>3. j \in 1 .. n
    BY <1>1, <2>1, <2>2
  <2>4. ExpectedBar(w, a) <= ExpectedBar(w, j) /\ ExpectedBar(w, j) <= ExpectedBar(w, b)
    BY <1>1, <2>1, <2>2, ExpectedBarFacts
  <2>5. Covered(gs, ExpectedBar(w, j))
    BY <2>1, <2>4 DEF Covered
  <2> QED BY <1>4, <1>6, <2>2, <2>3, <2>5
<1>8. ASSUME NEW x, x \in ExpectedOpenTimes(w) \ actual
      PROVE  \E i \in 1 .. Len(gs) : x \in ExpectedOpenTimes(gs[i])
  <2>1. PICK j \in 1 .. n : x = ExpectedBar(w, j)
    BY <1>6, <1>8
  <2>2. PICK i \in 1 .. Len(gs) : gs[i][1] <= ExpectedBar(w, j) /\ ExpectedBar(w, j) <= gs[i][2]
    BY <1>4, <1>8, <2>1 DEF Covered
  <2>3. PICK a, b \in 1 .. n : a <= b /\ gs[i] = <<ExpectedBar(w, a), ExpectedBar(w, b)>>
    BY <1>3
  <2>4. a <= j /\ j <= b
    BY <1>1, <2>2, <2>3, ExpectedBarFacts
  <2>5. ExpectedOpenTimes(gs[i]) = {ExpectedBar(w, k) : k \in a .. b}
    BY <1>1, <2>3, BarsOfRun
  <2> QED BY <1>1, <2>1, <2>4, <2>5
<1>9. UNION {ExpectedOpenTimes(g) : g \in ToSet(gs)} = ExpectedOpenTimes(w) \ actual
  BY <1>5, <1>7, <1>8
<1>10. \A i \in 1 .. Len(gs) - 1 : gs[i + 1][1] - gs[i][2] > Step
  BY <1>2 DEF LoopInv, RunsApart
<1> QED BY <1>9, <1>10 DEF gs

(* Every scan, whenever it runs and whatever the table holds, reports each *)
(* missing bar of its window exactly once, in maximal runs.                *)
THEOREM ScansMissNothing == QualitySpec => []GapsAreExact
<1>1. GapsAreExact
  BY GapsAreTheMissing DEF GapsAreExact, DetectGaps, Missing
<1> QED BY <1>1, PTL
-----------------------------------------------------------------------------
(* A bar that breaks a rule of its own is reported as quarantined.         *)
LEMMA RejectsAreQuarantined ==
  ASSUME NEW c, ValidateCandle(c) # {}
  PROVE  \E e \in ValidateCandle(c) : e.severity = "quarantined" /\ e.open_time = c.open_time
BY DEF ValidateCandle, Quarantined, Violation

LEMMA UpsertKeeps ==
  ASSUME NEW cs
  PROVE  DOMAIN Upsert(cs) = DOMAIN candle \cup {c.open_time : c \in cs}
BY DEF Upsert

(* No bar that was ever in an ingested batch is lost without a trace: only *)
(* archival removes rows, and events are never removed.                    *)
THEOREM NothingIsDropped == QualitySpec => []NeverSilentlyDropped
<1>1. QualityInit => NeverSilentlyDropped
  BY DEF QualityInit, NeverSilentlyDropped
<1>2. NeverSilentlyDropped /\ [QualityNext]_qualityVars => NeverSilentlyDropped'
  <2> SUFFICES ASSUME NeverSilentlyDropped, [QualityNext]_qualityVars PROVE NeverSilentlyDropped'
    OBVIOUS
  <2>1. ASSUME events \subseteq events', DOMAIN candle \subseteq DOMAIN candle', offered' = offered
        PROVE  NeverSilentlyDropped'
    BY <2>1 DEF NeverSilentlyDropped
  <2>2. CASE UNCHANGED qualityVars
    BY <2>1, <2>2 DEF qualityVars
  <2>3. CASE Tick
    BY <2>1, <2>3 DEF Tick
  <2>4. CASE Archive
    BY <2>4 DEF Archive, NeverSilentlyDropped
  <2>5. ASSUME NEW s \in Scanners, ScanStep(s) \/ Fail(s) PROVE NeverSilentlyDropped'
    <3>1. CASE Detect(s)
      BY <2>1, <3>1 DEF Detect
    <3>2. CASE Record(s)
      BY <2>1, <3>2 DEF Record
    <3>3. CASE Finish(s)
      BY <2>1, <3>3 DEF Finish
    <3>4. CASE Skip(s)
      BY <2>1, <3>4 DEF Skip
    <3>5. CASE Fetch(s)
      BY <2>1, <3>5 DEF Fetch
    <3>6. CASE Commit(s)
      <4>1. DOMAIN candle \subseteq DOMAIN candle'
        BY <3>6, UpsertKeeps DEF Commit
      <4> QED BY <2>1, <3>6, <4>1 DEF Commit
    <3>7. CASE CommitRefused(s)
      BY <2>1, <3>7 DEF CommitRefused, EndScan
    <3>8. CASE Fail(s)
      BY <2>1, <3>8 DEF Fail, EndScan
    <3> QED BY <2>5, <3>1, <3>2, <3>3, <3>4, <3>5, <3>6, <3>7, <3>8 DEF ScanStep
  <2>6. ASSUME NEW batch \in Batches, Ingest(batch) PROVE NeverSilentlyDropped'
    <3>1. DOMAIN candle' = DOMAIN candle \cup {batch[i].open_time : i \in Retained(batch)}
      <4>1. DOMAIN candle' = DOMAIN candle \cup {c.open_time : c \in {batch[i] : i \in Retained(batch)}}
        BY <2>6, UpsertKeeps DEF Ingest
      <4> QED BY <4>1
    <3>2. events' = events \cup Violations(batch)
      BY <2>6 DEF Ingest
    <3>3. offered' = offered \cup {batch[i].open_time : i \in DOMAIN batch}
      BY <2>6 DEF Ingest, ToSet
    <3>4. ASSUME NEW i \in DOMAIN batch, i \notin Retained(batch)
          PROVE  \E e \in events' : e.severity = "quarantined" /\ e.open_time = batch[i].open_time
      <4>1. ValidateCandle(batch[i]) # {}
        BY <3>4 DEF Retained
      <4>2. PICK e \in ValidateCandle(batch[i]) : e.severity = "quarantined" /\ e.open_time = batch[i].open_time
        BY <4>1, RejectsAreQuarantined
      <4>3. e \in Violations(batch)
        BY DEF Violations, ToSet
      <4> QED BY <3>2, <4>2, <4>3
    <3>5. ASSUME NEW t \in offered'
          PROVE  t \in DOMAIN candle' \/ \E e \in events' : e.severity = "quarantined" /\ e.open_time = t
      <4>1. CASE t \in offered
        BY <3>1, <3>2, <4>1 DEF NeverSilentlyDropped
      <4>2. CASE t \notin offered
        <5>1. PICK i \in DOMAIN batch : t = batch[i].open_time
          BY <3>3, <4>2
        <5> QED BY <3>1, <3>4, <5>1
      <4> QED BY <4>1, <4>2
    <3> QED BY <3>5 DEF NeverSilentlyDropped
  <2>7. ASSUME NEW batch \in Batches, IngestRefused(batch) PROVE NeverSilentlyDropped'
    BY <2>2, <2>7 DEF IngestRefused
  <2>8. ASSUME NEW w \in Windows, Suite(w) PROVE NeverSilentlyDropped'
    BY <2>1, <2>8 DEF Suite
  <2> QED BY <2>2, <2>3, <2>4, <2>5, <2>6, <2>7, <2>8 DEF QualityNext
<1> QED BY <1>1, <1>2, PTL DEF QualitySpec
-----------------------------------------------------------------------------
(* The drawdown of an equity curve. *)

LEMMA Scaling ==
  ASSUME NEW a \in Int, NEW b \in Int, NEW z \in Int, z > 0
  PROVE  /\ a * z \in Int /\ b * z \in Int
         /\ a < b <=> a * z < b * z
         /\ a <= b <=> a * z <= b * z
<1>1. z \in Nat \ {0}
  OBVIOUS
<1>2. a * z \in Int /\ b * z \in Int
  OBVIOUS
<1>3. a * z <= b * z <=> a <= b
  BY <1>1, Multiples
<1>4. b * z <= a * z <=> b <= a
  BY <1>1, Multiples
<1> QED BY <1>2, <1>3, <1>4

(* What falls by more than a fraction falls by more than a smaller one.    *)
LEMMA DeeperFall ==
  ASSUME NEW x \in Int, NEW a \in Int, a > 0, NEW N \in Int, NEW D \in Int, D > 0,
         NEW M \in Int, NEW E \in Int, E > 0, M * D > N * E, x * E > M * a
  PROVE  x * D > N * a
<1>1. x * E \in Int /\ M * a \in Int /\ M * D \in Int /\ N * E \in Int /\ x * D \in Int /\ N * a \in Int
  OBVIOUS
<1>2. (M * a) * D < (x * E) * D
  BY <1>1, Scaling
<1>3. (N * E) * a < (M * D) * a
  BY <1>1, Scaling
<1>4. (M * a) * D = (M * D) * a /\ (x * E) * D = (x * D) * E /\ (N * E) * a = (N * a) * E
  OBVIOUS
<1>5. (N * a) * E < (x * D) * E
  <2>1. (M * a) * D \in Int /\ (x * E) * D \in Int /\ (N * E) * a \in Int /\ (M * D) * a \in Int
    BY <1>1
  <2> QED BY <1>2, <1>3, <1>4, <2>1
<1> QED BY <1>1, <1>5, Scaling

(* A sign in front of a product. *)
LEMMA NegatedProduct ==
  ASSUME NEW m \in Int, NEW z \in Int
  PROVE  (-m) * z = -(m * z)
OBVIOUS

(* To a point that is not below zero, the fall from the peak is the        *)
(* largest fraction.                                                       *)
LEMMA PeakFallsMost ==
  ASSUME NEW x \in Int, x > 0, NEW p \in Int, x <= p, NEW e \in Int, e >= 0,
         NEW N \in Int, NEW D \in Int, D > 0, (p - e) * D <= N * p
  PROVE  ~((x - e) * D > N * x)
<1> SUFFICES ASSUME (x - e) * D > N * x PROVE FALSE
  OBVIOUS
<1>1. (x - e) * D \in Int /\ N * x \in Int /\ (p - e) * D \in Int /\ N * p \in Int /\ p > 0
  OBVIOUS
<1>2. (N * x) * p < ((x - e) * D) * p
  BY <1>1, Scaling
<1>3. ((p - e) * D) * x <= (N * p) * x
  BY <1>1, Scaling
<1>4. (N * x) * p = (N * p) * x
  OBVIOUS
<1>5. ((p - e) * x) * D < ((x - e) * p) * D
  <2>1. ((x - e) * D) * p = ((x - e) * p) * D /\ ((p - e) * D) * x = ((p - e) * x) * D
    OBVIOUS
  <2>2. /\ (N * x) * p \in Int /\ (N * p) * x \in Int
        /\ ((x - e) * D) * p \in Int /\ ((p - e) * D) * x \in Int
    BY <1>1
  <2> QED BY <1>2, <1>3, <1>4, <2>1, <2>2
<1>6. (p - e) * x < (x - e) * p
  <2>1. (p - e) * x \in Int /\ (x - e) * p \in Int
    OBVIOUS
  <2> QED BY <1>5, <2>1, Scaling
<1>7. (p - e) * x = x * p - e * x /\ (x - e) * p = x * p - e * p
  OBVIOUS
<1>8. e * x <= e * p
  <2>1. (p - x) \in Nat /\ e \in Nat
    OBVIOUS
  <2>2. e * (p - x) \in Nat
    BY <2>1
  <2>3. e * p = e * x + e * (p - x)
    OBVIOUS
  <2> QED BY <2>2, <2>3
<1>9. x * p \in Int /\ e * x \in Int /\ e * p \in Int
  OBVIOUS
<1> QED BY <1>6, <1>7, <1>8, <1>9
-----------------------------------------------------------------------------
Points     == [ts : Int, equity : Int]
Drawdowns  == [peak : Int, peak_ts : Int, drawdown : Int \X Int, duration : Int]
AtStart(c) == [peak |-> c[1].equity, peak_ts |-> c[1].ts, drawdown |-> <<0, 1>>, duration |-> 0]

LEMMA SinkFacts ==
  ASSUME NEW d \in Drawdowns, NEW point \in Points
  PROVE  /\ Sink(d, point) \in Drawdowns
         /\ point.equity > d.peak =>
              Sink(d, point).peak = point.equity /\ Sink(d, point).drawdown = d.drawdown
         /\ ~(point.equity > d.peak) =>
              /\ Sink(d, point).peak = d.peak
              /\ Sink(d, point).drawdown =
                   IF (d.peak - point.equity) * d.drawdown[2] > d.drawdown[1] * d.peak
                   THEN <<d.peak - point.equity, d.peak>> ELSE d.drawdown
<1>1. CASE point.equity > d.peak
  BY <1>1 DEF Sink, Drawdowns, Points
<1>2. CASE ~(point.equity > d.peak)
  <2> DEFINE worst == IF (d.peak - point.equity) * d.drawdown[2] > d.drawdown[1] * d.peak
                      THEN <<d.peak - point.equity, d.peak>> ELSE d.drawdown
             longest == IF point.ts - d.peak_ts > d.duration THEN point.ts - d.peak_ts ELSE d.duration
  <2>1. Sink(d, point) = [d EXCEPT !.drawdown = worst, !.duration = longest]
    BY <1>2 DEF Sink
  <2>2. worst \in Int \X Int /\ longest \in Int
    BY DEF Drawdowns, Points
  <2> HIDE DEF worst, longest
  <2>3. Sink(d, point) \in Drawdowns /\ Sink(d, point).peak = d.peak /\ Sink(d, point).drawdown = worst
    BY <2>1, <2>2 DEF Drawdowns
  <2> QED BY <1>2, <2>3 DEF worst
<1> QED BY <1>1, <1>2

LEMMA SinkingRecursion ==
  ASSUME NEW c \in Seq(Points), Len(c) > 0
  PROVE  /\ Sinking(c) \in [0 .. Len(c) -> Drawdowns] /\ Sinking(c)[0] = AtStart(c)
         /\ \A k \in 1 .. Len(c) : Sinking(c)[k] = Sink(Sinking(c)[k - 1], c[k])
<1> DEFINE n == Len(c)
           base == AtStart(c)
           step == [p \in (1 .. n) \X Drawdowns |-> Sink(p[2], c[p[1]])]
           IsLoop(f) == f = [k \in 0 .. n |-> IF k = 0 THEN base ELSE Sink(f[k - 1], c[k])]
<1>1. n \in Nat /\ base \in Drawdowns
  <2>1. c[1] \in Points
    OBVIOUS
  <2> QED BY <2>1 DEF AtStart, Drawdowns, Points
<1>2. step \in [(1 .. n) \X Drawdowns -> Drawdowns]
  <2>1. ASSUME NEW k \in 1 .. n, NEW d \in Drawdowns PROVE Sink(d, c[k]) \in Drawdowns
    <3>1. c[k] \in Points
      OBVIOUS
    <3> QED BY <3>1, SinkFacts
  <2> QED BY <2>1
<1> HIDE DEF base, n
<1>3. ASSUME NEW k \in 1 .. n, NEW d \in Drawdowns PROVE step[<<k, d>>] = Sink(d, c[k])
  <2>1. <<k, d>> \in (1 .. n) \X Drawdowns /\ <<k, d>>[1] = k /\ <<k, d>>[2] = d
    OBVIOUS
  <2> QED BY <2>1, Zenon
<1> HIDE DEF step
<1>4. PICK f \in [0 .. n -> Drawdowns] : f[0] = base /\ \A k \in 1 .. n : f[k] = step[<<k, f[k - 1]>>]
  <2>1. \E f \in [0 .. n -> Drawdowns] : Iterates(f, n, base, step)
    BY <1>1, <1>2, RecursionExists
  <2> QED BY <2>1 DEF Iterates
<1>5. ASSUME NEW k \in 0 .. n PROVE f[k] = IF k = 0 THEN base ELSE Sink(f[k - 1], c[k])
  <2>1. k # 0 => k \in 1 .. n /\ k - 1 \in 0 .. n
    BY <1>1
  <2>2. k # 0 => f[k] = step[<<k, f[k - 1]>>] /\ f[k - 1] \in Drawdowns
    BY <1>4, <2>1
  <2>3. k # 0 => f[k] = Sink(f[k - 1], c[k])
    BY <1>3, <2>1, <2>2
  <2> QED BY <1>4, <2>3
<1>6. IsLoop(f)
  BY <1>4, <1>5
<1> DEFINE d == Sinking(c)
<1>7. d = CHOOSE g : IsLoop(g)
  BY DEF Sinking, n, base, AtStart
<1>8. IsLoop(d)
  BY <1>6, <1>7, Zenon
<1> HIDE DEF d
<1>9. /\ DOMAIN d = 0 .. n /\ d = [k \in DOMAIN d |-> d[k]]
      /\ d[0] = base /\ \A k \in 1 .. n : d[k] = Sink(d[k - 1], c[k])
  <2>1. ASSUME NEW k \in 0 .. n PROVE d[k] = IF k = 0 THEN base ELSE Sink(d[k - 1], c[k])
    BY <1>8
  <2>2. 0 \in 0 .. n /\ \A k \in 1 .. n : k \in 0 .. n /\ k # 0
    BY <1>1
  <2> QED BY <1>8, <2>1, <2>2
<1>10. Follows(d, n, Drawdowns, base, step)
  BY <1>3, <1>9 DEF Follows
<1>11. d \in [0 .. n -> Drawdowns]
  BY <1>1, <1>2, <1>10, SameLoop
<1> QED BY <1>9, <1>11 DEF n, base, d
-----------------------------------------------------------------------------
(* The fall of the curve from its i-th point to its j-th, against a        *)
(* fraction.                                                               *)
FallsMore(c, i, j, f) == (c[i].equity - c[j].equity) * f[2] > f[1] * c[i].equity
FallsBy(c, i, j, f)   == (c[i].equity - c[j].equity) * f[2] = f[1] * c[i].equity

(* Only a fall to a point below zero, from one that is not the highest,    *)
(* can be the larger fraction.                                             *)
Excused(c, i, j) == c[j].equity < 0 /\ \E m \in 1 .. j : c[m].equity > c[i].equity

FallInv(c, k, d) ==
  /\ d \in Drawdowns
  /\ \E i \in 1 .. k : d.peak = c[i].equity
  /\ \A i \in 1 .. k : c[i].equity <= d.peak
  /\ d.drawdown[1] >= 0 /\ d.drawdown[2] > 0
  /\ \E j \in 1 .. k : \E i \in 1 .. j : FallsBy(c, i, j, d.drawdown)
  /\ \A j \in 1 .. k : \A i \in 1 .. j : FallsMore(c, i, j, d.drawdown) => Excused(c, i, j)

LEMMA FirstPoint ==
  ASSUME NEW c \in Seq(Points), Len(c) > 0
  PROVE  FallInv(c, 1, Sink(AtStart(c), c[1]))
<1> DEFINE d == Sink(AtStart(c), c[1])
           e == c[1].equity
<1>1. c[1] \in Points /\ e \in Int
  <2>1. c[1] \in Points
    OBVIOUS
  <2> QED BY <2>1 DEF Points
<1>2. /\ AtStart(c) \in Drawdowns /\ AtStart(c).peak = e /\ AtStart(c).drawdown = <<0, 1>>
  BY <1>1 DEF AtStart, Drawdowns, Points
<1>3. d \in Drawdowns /\ d.peak = e /\ d.drawdown = <<0, 1>>
  <2> DEFINE start == AtStart(c)
  <2>1. ~(c[1].equity > start.peak)
    BY <1>1, <1>2
  <2>2. ~((start.peak - c[1].equity) * start.drawdown[2] > start.drawdown[1] * start.peak)
    <3>1. start.peak - c[1].equity = 0 /\ start.drawdown[2] = 1 /\ start.drawdown[1] = 0 /\ start.peak \in Int
      BY <1>1, <1>2
    <3> HIDE DEF start
    <3> QED BY <3>1
  <2> HIDE DEF start
  <2>3. d \in Drawdowns /\ d.peak = start.peak /\ d.drawdown = start.drawdown
    <3>1. start \in Drawdowns /\ d = Sink(start, c[1])
      BY <1>2 DEF start
    <3> HIDE DEF d
    <3> QED BY <1>1, <2>1, <2>2, <3>1, SinkFacts
  <2> QED BY <1>2, <2>3 DEF start
<1> HIDE DEF d
<1>4. FallsBy(c, 1, 1, <<0, 1>>) /\ ~FallsMore(c, 1, 1, <<0, 1>>)
  <2>1. (e - e) * 1 = 0 /\ 0 * e = 0
    BY <1>1
  <2>2. (c[1].equity - c[1].equity) * <<0, 1>>[2] = (e - e) * 1 /\ <<0, 1>>[1] * c[1].equity = 0 * e
    OBVIOUS
  <2> HIDE DEF e
  <2> QED BY <2>1, <2>2 DEF FallsBy, FallsMore
<1>5. 1 .. 1 = {1}
  OBVIOUS
<1>6. \A i \in 1 .. 1 : c[i].equity <= d.peak
  BY <1>1, <1>3, <1>5
<1>7. \E j \in 1 .. 1 : \E i \in 1 .. j : FallsBy(c, i, j, d.drawdown)
  BY <1>3, <1>4, <1>5
<1>8. \A j \in 1 .. 1 : \A i \in 1 .. j : ~FallsMore(c, i, j, d.drawdown)
  BY <1>3, <1>4, <1>5
<1>9. d.drawdown[1] >= 0 /\ d.drawdown[2] > 0 /\ \E i \in 1 .. 1 : d.peak = c[i].equity
  BY <1>3, <1>5
<1> QED BY <1>3, <1>6, <1>7, <1>8, <1>9 DEF FallInv, d

LEMMA NextPoint ==
  ASSUME NEW c \in Seq(Points), NEW k \in 1 .. Len(c) - 1, NEW d, FallInv(c, k, d),
         \A i \in 1 .. k : c[i].equity > 0
  PROVE  FallInv(c, k + 1, Sink(d, c[k + 1]))
<1> DEFINE s == Sink(d, c[k + 1])
           e == c[k + 1].equity
           N == d.drawdown[1]
           D == d.drawdown[2]
           p == d.peak
<1>1. /\ \A i \in 1 .. Len(c) : c[i] \in Points /\ c[i].equity \in Int
      /\ k + 1 \in 1 .. Len(c) /\ \A i \in 1 .. k : i \in 1 .. Len(c) /\ i \in 1 .. k + 1
  <2>1. \A i \in 1 .. Len(c) : c[i] \in Points
    OBVIOUS
  <2> QED BY <2>1 DEF Points
<1>2. d \in Drawdowns /\ p \in Int /\ N \in Int /\ D \in Int /\ N >= 0 /\ D > 0 /\ e \in Int
  BY <1>1 DEF FallInv, Drawdowns
<1>3. PICK top \in 1 .. k : p = c[top].equity
  BY DEF FallInv
<1>4. p > 0 /\ \A i \in 1 .. k : c[i].equity <= p
  BY <1>3 DEF FallInv
<1>5. PICK a \in 1 .. k : \E i \in 1 .. a : FallsBy(c, i, a, d.drawdown)
  BY DEF FallInv
<1>6. \A j \in 1 .. k : \A i \in 1 .. j : FallsMore(c, i, j, d.drawdown) => Excused(c, i, j)
  BY DEF FallInv
<1>7. \A i \in 1 .. k + 1 : i = k + 1 \/ i \in 1 .. k
  OBVIOUS
<1>8. c[k + 1] \in Points
  BY <1>1
<1>9. CASE e > p
  <2>1. s \in Drawdowns /\ s.peak = e /\ s.drawdown = d.drawdown
    BY <1>2, <1>8, <1>9, SinkFacts
  <2> HIDE DEF s
  <2>2. \A i \in 1 .. k + 1 : c[i].equity <= e
    <3>1. \A i \in 1 .. k : c[i].equity <= e
      BY <1>1, <1>2, <1>4, <1>9
    <3>2. e <= e
      BY <1>2
    <3> QED BY <1>7, <3>1, <3>2
  <2>3. ASSUME NEW i \in 1 .. k + 1 PROVE ~FallsMore(c, i, k + 1, d.drawdown)
    <3>1. c[i].equity \in Int /\ c[i].equity <= e /\ c[i].equity > 0
      BY <1>1, <1>2, <1>4, <1>7, <1>9, <2>2
    <3> DEFINE x == c[i].equity
    <3>2. (x - e) * D <= 0
      <4>1. e - x \in Nat /\ D \in Nat
        BY <1>2, <3>1
      <4>2. (e - x) * D \in Nat
        BY <4>1
      <4>3. (x - e) * D = -((e - x) * D)
        <5>1. e - x \in Int /\ D \in Int /\ x - e = -(e - x)
          BY <1>2, <3>1
        <5> HIDE DEF x, e, D
        <5>2. (-(e - x)) * D = -((e - x) * D)
          BY <5>1, NegatedProduct
        <5> QED BY <5>1, <5>2
      <4> HIDE DEF x, e, D
      <4> QED BY <4>2, <4>3
    <3>3. N * x >= 0
      <4>1. N \in Nat /\ x \in Nat
        BY <1>2, <3>1
      <4> HIDE DEF x, N
      <4> QED BY <4>1
    <3>4. (x - e) * D \in Int /\ N * x \in Int
      BY <1>2, <3>1
    <3> HIDE DEF x, e, D, N
    <3>5. ~((x - e) * D > N * x)
      BY <3>2, <3>3, <3>4
    <3> QED BY <3>5 DEF FallsMore, x, e, D, N
  <2>4. \A j \in 1 .. k + 1 : \A i \in 1 .. j : FallsMore(c, i, j, s.drawdown) => Excused(c, i, j)
    BY <1>6, <1>7, <2>1, <2>3
  <2>5. \E j \in 1 .. k + 1 : \E i \in 1 .. j : FallsBy(c, i, j, s.drawdown)
    BY <1>1, <1>5, <2>1
  <2>6. \E i \in 1 .. k + 1 : s.peak = c[i].equity
    <3>1. k + 1 \in 1 .. k + 1
      OBVIOUS
    <3> QED BY <2>1, <3>1
  <2> QED BY <1>2, <2>1, <2>2, <2>4, <2>5, <2>6 DEF FallInv, s
<1>10. CASE ~(e > p)
  <2> DEFINE M == s.drawdown[1]
             E == s.drawdown[2]
  <2>1. s \in Drawdowns /\ s.peak = p
        /\ s.drawdown = IF (p - e) * D > N * p THEN <<p - e, p>> ELSE d.drawdown
    BY <1>2, <1>8, <1>10, SinkFacts
  <2> HIDE DEF s
  <2>2. M \in Int /\ E \in Int
    BY <2>1 DEF Drawdowns
  <2>3. M >= 0 /\ E > 0
    BY <1>2, <1>4, <1>10, <2>1
  <2>4. (p - e) * E <= M * p
    <3>1. CASE (p - e) * D > N * p
      <4>1. M = p - e /\ E = p
        BY <2>1, <3>1
      <4> HIDE DEF M, E, p, e
      <4> QED BY <1>2, <4>1
    <3>2. CASE ~((p - e) * D > N * p)
      <4>1. M = N /\ E = D
        BY <2>1, <3>2
      <4>2. p \in Int /\ e \in Int /\ N \in Int /\ D \in Int
        BY <1>2
      <4> DEFINE A == (p - e) * D
                 B == N * p
      <4>3. (p - e) * E = A /\ M * p = B /\ ~(A > B)
        BY <3>2, <4>1
      <4> HIDE DEF M, E, p, e, N, D
      <4>4. A \in Int /\ B \in Int
        <5>1. p - e \in Int
          BY <4>2
        <5> QED BY <4>2, <5>1
      <4> HIDE DEF A, B
      <4>5. A <= B
        BY <4>3, <4>4
      <4> QED BY <4>3, <4>5
    <3> QED BY <3>1, <3>2
  <2>5. ASSUME NEW j \in 1 .. k, NEW i \in 1 .. j, FallsMore(c, i, j, s.drawdown) PROVE Excused(c, i, j)
    <3>1. CASE s.drawdown = d.drawdown
      BY <1>6, <2>5, <3>1
    <3>2. CASE s.drawdown # d.drawdown
      <4>1. (p - e) * D > N * p /\ M = p - e /\ E = p
        BY <2>1, <3>2
      <4> DEFINE x == c[i].equity - c[j].equity
                 y == c[i].equity
      <4>2. i \in 1 .. k /\ x \in Int /\ y \in Int /\ y > 0
        BY <1>1
      <4>3. x * E > M * y
        BY <2>5 DEF FallsMore
      <4>4. M * D > N * E
        BY <4>1
      <4> HIDE DEF x, y, M, E, N, D
      <4>5. x * D > N * y
        BY <1>2, <2>2, <2>3, <4>2, <4>3, <4>4, DeeperFall
      <4>6. FallsMore(c, i, j, d.drawdown)
        BY <4>5 DEF FallsMore, x, y, N, D
      <4> QED BY <1>6, <4>6
    <3> QED BY <3>1, <3>2
  <2>6. ASSUME NEW i \in 1 .. k + 1, FallsMore(c, i, k + 1, s.drawdown) PROVE Excused(c, i, k + 1)
    <3> DEFINE x == c[i].equity
    <3>1. x \in Int /\ (x - e) * E > M * x
      BY <1>1, <2>6 DEF FallsMore
    <3>2. x > 0 \/ i = k + 1
      BY <1>7
    <3>3. x <= p
      BY <1>2, <1>4, <1>7, <1>10
    <3>4. CASE i = k + 1 /\ ~(x > 0)
      <4>1. x = e
        BY <3>4
      <4>2. e < 0 /\ p > x
        <5>1. (x - e) * E = 0
          BY <2>2, <3>1, <4>1
        <5>2. x = 0 => M * x = 0
          BY <2>2
        <5>3. M * x < 0
          BY <3>1, <5>1
        <5> HIDE DEF x, e, M, E, p
        <5> QED BY <1>2, <1>4, <3>1, <3>4, <4>1, <5>2, <5>3
      <4> QED BY <1>1, <1>3, <4>2 DEF Excused
    <3>5. CASE x > 0
      <4>1. e < 0
        <5> SUFFICES ASSUME ~(e < 0) PROVE FALSE
          OBVIOUS
        <5> HIDE DEF x, e, M, E, p
        <5>1. e >= 0
          BY <1>2
        <5> QED BY <1>2, <2>2, <2>3, <2>4, <3>1, <3>3, <3>5, <5>1, PeakFallsMost
      <4>2. x # p
        <5> HIDE DEF x, e, M, E, p
        <5>1. (p - e) * E \in Int /\ M * p \in Int
          BY <1>2, <2>2
        <5> QED BY <2>4, <3>1, <5>1
      <4>3. p > x
        BY <1>2, <3>1, <3>3, <4>2
      <4> QED BY <1>1, <1>3, <4>1, <4>3 DEF Excused
    <3> QED BY <3>2, <3>4, <3>5
  <2>7. \A j \in 1 .. k + 1 : \A i \in 1 .. j : FallsMore(c, i, j, s.drawdown) => Excused(c, i, j)
    BY <1>7, <2>5, <2>6
  <2>8. \E j \in 1 .. k + 1 : \E i \in 1 .. j : FallsBy(c, i, j, s.drawdown)
    <3>1. CASE s.drawdown = d.drawdown
      BY <1>1, <1>5, <3>1
    <3>2. CASE s.drawdown # d.drawdown
      <4>1. s.drawdown = <<p - e, p>>
        BY <2>1, <3>2
      <4>2. FallsBy(c, top, k + 1, <<p - e, p>>)
        BY <1>3 DEF FallsBy
      <4>3. k + 1 \in 1 .. k + 1 /\ top \in 1 .. k + 1
        OBVIOUS
      <4> QED BY <4>1, <4>2, <4>3
    <3> QED BY <3>1, <3>2
  <2>9. \A i \in 1 .. k + 1 : c[i].equity <= p
    BY <1>2, <1>4, <1>7, <1>10
  <2>10. \E i \in 1 .. k + 1 : s.peak = c[i].equity
    BY <1>1, <1>3, <2>1
  <2> QED BY <2>1, <2>3, <2>7, <2>8, <2>9, <2>10 DEF FallInv, s
<1> QED BY <1>9, <1>10

(* The result of the loop over a curve that only its last point may take   *)
(* to zero or below.                                                       *)
LEMMA WorstFall ==
  ASSUME NEW c \in Seq(Points), Len(c) > 0, \A i \in 1 .. Len(c) - 1 : c[i].equity > 0
  PROVE  FallInv(c, Len(c), MaxDrawdownAndDuration(c))
<1> DEFINE n == Len(c)
           d == Sinking(c)
           T == {k \in 0 .. n : k = 0 \/ FallInv(c, k, d[k])}
<1>1. n \in Nat /\ n > 0
  OBVIOUS
<1>2. d[0] = AtStart(c) /\ \A k \in 1 .. n : d[k] = Sink(d[k - 1], c[k])
  BY SinkingRecursion
<1> HIDE DEF d
<1>3. 0 \in T
  OBVIOUS
<1>4. ASSUME NEW k \in 0 .. n - 1, k \in T PROVE k + 1 \in T
  <2>1. k + 1 \in 1 .. n /\ k + 1 \in 0 .. n /\ (k + 1) - 1 = k
    BY <1>1
  <2>2. d[k + 1] = Sink(d[k], c[k + 1])
    BY <1>2, <2>1
  <2>3. CASE k = 0
    <3>1. FallInv(c, 1, d[1])
      BY <1>2, <2>2, <2>3, FirstPoint
    <3> QED BY <2>1, <2>3, <3>1
  <2>4. CASE k # 0
    <3>1. k \in 1 .. n - 1 /\ FallInv(c, k, d[k]) /\ \A i \in 1 .. k : i \in 1 .. n - 1
      BY <1>4, <2>4
    <3>2. FallInv(c, k + 1, d[k + 1])
      BY <2>2, <3>1, NextPoint
    <3> QED BY <2>1, <3>2
  <2> QED BY <2>3, <2>4
<1> HIDE DEF T
<1>5. 0 .. n \subseteq T
  BY <1>1, <1>3, <1>4, InductionTo
<1>6. n \in T /\ n # 0
  BY <1>1, <1>5
<1> QED BY <1>6 DEF T, n, d, MaxDrawdownAndDuration
-----------------------------------------------------------------------------
(* The account of a run, and its curve, are integers.                      *)
RunTypeOK ==
  /\ bars \in Seq(Candles) /\ curve \in Seq(Points)
  /\ cash \in Int /\ holding \in Int

LEMMA RunTypes == RunSpec => []RunTypeOK
<1>1. RunInit => RunTypeOK
  <2> SUFFICES ASSUME RunInit PROVE RunTypeOK
    OBVIOUS
  <2>1. StartEquity \in Int
    BY AnalyticsAssumption
  <2>2. [ts |-> 0, equity |-> StartEquity] \in Points
    BY <2>1 DEF Points
  <2> QED BY <2>1, <2>2 DEF RunInit, RunTypeOK
<1>2. RunTypeOK /\ [RunNext]_runVars => RunTypeOK'
  <2> SUFFICES ASSUME RunTypeOK, [RunNext]_runVars PROVE RunTypeOK'
    OBVIOUS
  <2>1. ASSUME NEW b \in Candles, Bar(b), cash' \in Int, holding' \in Int PROVE RunTypeOK'
    <3>1. Len(bars) + 1 \in Int /\ bars' \in Seq(Candles)
      BY <2>1 DEF RunTypeOK, Bar
    <3>2. b.close \in Int
      BY CandlesAssumption
    <3>3. cash' + holding' * b.close \in Int
      BY <2>1, <3>2
    <3>4. [ts |-> Len(bars) + 1, equity |-> cash' + holding' * b.close] \in Points
      BY <3>1, <3>3 DEF Points
    <3>5. curve' \in Seq(Points)
      BY <2>1, <3>4 DEF RunTypeOK, Bar
    <3> QED BY <2>1, <3>1, <3>5 DEF RunTypeOK
  <2>2. ASSUME NEW b \in Candles, Watch(b) PROVE RunTypeOK'
    BY <2>1, <2>2 DEF Watch, RunTypeOK
  <2>3. ASSUME NEW b \in Candles, NEW t \in Trades, Fill(b, t) PROVE RunTypeOK'
    <3>1. SignedQty(t) \in Int /\ b.close \in Int /\ Fee \in Int
      BY TradesAssumption, CandlesAssumption, AnalyticsAssumption DEF SignedQty
    <3>2. SignedQty(t) * b.close \in Int
      BY <3>1
    <3>3. cash' \in Int /\ holding' \in Int
      <4> DEFINE n    == SignedQty(t)
                 cost == SignedQty(t) * b.close
      <4>1. cash' = cash - cost - Fee /\ holding' = holding + n
        BY <2>3, Zenon DEF Fill
      <4>2. cash \in Int /\ holding \in Int
        BY DEF RunTypeOK
      <4>3. n \in Int /\ cost \in Int /\ Fee \in Int
        BY <3>1, <3>2
      <4> HIDE DEF n, cost
      <4> QED BY <4>1, <4>2, <4>3
    <3> QED BY <2>1, <2>3, <3>3 DEF Fill
  <2>4. CASE UNCHANGED runVars
    BY <2>4 DEF runVars, RunTypeOK
  <2> QED BY <2>2, <2>3, <2>4 DEF RunNext
<1> QED BY <1>1, <1>2, PTL DEF RunSpec

(* For any bars, trades and length of the run, the drawdown of an accepted *)
(* curve is the worst fall between two of its points.                      *)
THEOREM DrawdownIsTheWorst == RunSpec => []DrawdownIsWorstFall
<1>1. RunTypeOK => DrawdownIsWorstFall
  <2> SUFFICES ASSUME RunTypeOK, Complete PROVE DrawdownIsWorstFall
    BY DEF DrawdownIsWorstFall
  <2> DEFINE n == Len(curve)
             f == MaxDrawdownAndDuration(curve).drawdown
  <2>1. n > 0 /\ curve \in Seq(Points) /\ \A i \in 1 .. n - 1 : ~(curve[i].equity <= 0)
    BY DEF Complete, Rejected, RunTypeOK
  <2>2. \A i \in 1 .. n - 1 : curve[i].equity > 0
    <3>1. \A i \in 1 .. n - 1 : curve[i] \in Points
      BY <2>1
    <3> QED BY <2>1, <3>1 DEF Points
  <2>3. FallInv(curve, n, MaxDrawdownAndDuration(curve))
    BY <2>1, <2>2, WorstFall
  <2>4. Sheet.max_drawdown = f
    BY DEF Sheet, ComputeTearsheet
  <2>5. DOMAIN curve = 1 .. n
    BY <2>1
  <2> HIDE DEF n, f
  <2>6. /\ \E j \in 1 .. n : \E i \in 1 .. j : FallsBy(curve, i, j, f)
        /\ \A j \in 1 .. n : \A i \in 1 .. j : FallsMore(curve, i, j, f) => Excused(curve, i, j)
    BY <2>3 DEF FallInv, f
  <2> QED BY <2>4, <2>5, <2>6 DEF DrawdownIsWorstFall, FallsBy, FallsMore, Excused
<1> QED BY <1>1, RunTypes, PTL
-----------------------------------------------------------------------------
(* Series.  What the vectorized functions return are functions on 1 .. n.  *)
IsSeries(f, n) == DOMAIN f = 1 .. n /\ f = [i \in DOMAIN f |-> f[i]]

Agrees(s, t, n) == \A i \in 1 .. n : s[i] = t[i]

LEMMA SeqOfFunction ==
  ASSUME NEW n \in Nat, NEW S, NEW f \in [1 .. n -> S]
  PROVE  f \in Seq(S) /\ Len(f) = n
OBVIOUS

LEMMA SeriesLength ==
  ASSUME NEW n \in Nat, NEW f, IsSeries(f, n)
  PROVE  Len(f) = n /\ f \in Seq({f[i] : i \in 1 .. n})
<1>1. f \in [1 .. n -> {f[i] : i \in 1 .. n}]
  BY DEF IsSeries
<1> QED BY <1>1

LEMMA PrefixOfSeries ==
  ASSUME NEW n \in Nat, NEW m \in Nat, n <= m, NEW f, IsSeries(f, n), NEW g, IsSeries(g, m),
         Agrees(f, g, n)
  PROVE  IsPrefix(f, g)
<1> DEFINE V == {f[i] : i \in 1 .. n} \cup {g[i] : i \in 1 .. m}
<1>1. Len(f) = n /\ Len(g) = m
  BY SeriesLength
<1>2. f \in Seq(V) /\ g \in Seq(V)
  <2>1. f \in [1 .. n -> V] /\ g \in [1 .. m -> V]
    BY DEF IsSeries
  <2> HIDE DEF V
  <2> QED BY <2>1
<1> HIDE DEF V
<1>3. /\ SubSeq(f, 1, n) \in Seq(V) /\ Len(SubSeq(f, 1, n)) = n
      /\ SubSeq(g, 1, n) \in Seq(V) /\ Len(SubSeq(g, 1, n)) = n
      /\ \A i \in 1 .. n : SubSeq(f, 1, n)[i] = f[i] /\ SubSeq(g, 1, n)[i] = g[i]
  BY <1>1, <1>2
<1>4. SubSeq(f, 1, n) = SubSeq(g, 1, n)
  BY <1>3 DEF Agrees
<1> QED BY <1>1, <1>4 DEF IsPrefix

LEMMA AppendedSeries ==
  ASSUME NEW n \in Nat, NEW s \in Seq(Int), Len(s) = n, NEW y \in Int, NEW f, IsSeries(f, n + 1),
         Agrees(f, s, n), f[n + 1] = y
  PROVE  f = Append(s, y)
<1> DEFINE t == Append(s, y)
<1>1. t \in Seq(Int) /\ Len(t) = n + 1 /\ \A i \in 1 .. n + 1 : t[i] = IF i = n + 1 THEN y ELSE s[i]
  OBVIOUS
<1> HIDE DEF t
<1>2. \A i \in 1 .. n + 1 : f[i] = t[i]
  <2>1. \A i \in 1 .. n + 1 : i = n + 1 \/ i \in 1 .. n
    OBVIOUS
  <2> QED BY <1>1, <2>1 DEF Agrees
<1>3. t = [i \in 1 .. n + 1 |-> t[i]]
  BY <1>1
<1>4. f = t
  BY <1>2, <1>3 DEF IsSeries
<1> QED BY <1>4 DEF t

(* A running total. *)
LEMMA CumsumRecursion ==
  ASSUME NEW v \in Seq(Int)
  PROVE  /\ Cumsum(v) \in [0 .. Len(v) -> Int] /\ Cumsum(v)[0] = 0
         /\ \A k \in 1 .. Len(v) : Cumsum(v)[k] = Cumsum(v)[k - 1] + v[k]
<1> DEFINE n == Len(v)
           step == [p \in (1 .. n) \X Int |-> p[2] + v[p[1]]]
           IsLoop(f) == f = [k \in 0 .. n |-> IF k = 0 THEN 0 ELSE f[k - 1] + v[k]]
<1>1. n \in Nat /\ 0 \in Int
  OBVIOUS
<1>2. step \in [(1 .. n) \X Int -> Int]
  OBVIOUS
<1>3. ASSUME NEW k \in 1 .. n, NEW x \in Int PROVE step[<<k, x>>] = x + v[k]
  <2>1. <<k, x>> \in (1 .. n) \X Int /\ <<k, x>>[1] = k /\ <<k, x>>[2] = x
    OBVIOUS
  <2> QED BY <2>1, Zenon
<1> HIDE DEF n, step
<1>4. PICK f \in [0 .. n -> Int] : f[0] = 0 /\ \A k \in 1 .. n : f[k] = step[<<k, f[k - 1]>>]
  <2>1. \E f \in [0 .. n -> Int] : Iterates(f, n, 0, step)
    BY <1>1, <1>2, RecursionExists
  <2> QED BY <2>1 DEF Iterates
<1>5. ASSUME NEW k \in 0 .. n PROVE f[k] = IF k = 0 THEN 0 ELSE f[k - 1] + v[k]
  <2>1. k # 0 => k \in 1 .. n /\ k - 1 \in 0 .. n
    BY <1>1
  <2>2. k # 0 => f[k] = step[<<k, f[k - 1]>>] /\ f[k - 1] \in Int
    BY <1>4, <2>1
  <2>3. k # 0 => f[k] = f[k - 1] + v[k]
    BY <1>3, <2>1, <2>2
  <2> QED BY <1>4, <2>3
<1>6. IsLoop(f)
  BY <1>4, <1>5
<1> DEFINE c == Cumsum(v)
<1>7. c = CHOOSE g : IsLoop(g)
  BY DEF Cumsum, n
<1>8. IsLoop(c)
  BY <1>6, <1>7, Zenon
<1> HIDE DEF c
<1>9. /\ DOMAIN c = 0 .. n /\ c = [k \in DOMAIN c |-> c[k]]
      /\ c[0] = 0 /\ \A k \in 1 .. n : c[k] = c[k - 1] + v[k]
  <2>1. ASSUME NEW k \in 0 .. n PROVE c[k] = IF k = 0 THEN 0 ELSE c[k - 1] + v[k]
    BY <1>8
  <2>2. 0 \in 0 .. n /\ \A k \in 1 .. n : k \in 0 .. n /\ k # 0
    BY <1>1
  <2> QED BY <1>8, <2>1, <2>2
<1>10. Follows(c, n, Int, 0, step)
  BY <1>3, <1>9 DEF Follows
<1>11. c \in [0 .. n -> Int]
  BY <1>1, <1>2, <1>10, SameLoop
<1> QED BY <1>9, <1>11 DEF n, c

LEMMA CumsumAgrees ==
  ASSUME NEW v \in Seq(Int), NEW w \in Seq(Int), NEW n \in Nat, n <= Len(v), n <= Len(w), Agrees(v, w, n)
  PROVE  \A k \in 0 .. n : Cumsum(v)[k] = Cumsum(w)[k]
<1> DEFINE c == Cumsum(v)
           d == Cumsum(w)
           T == {k \in 0 .. n : c[k] = d[k]}
<1>1. /\ c[0] = 0 /\ \A k \in 1 .. Len(v) : c[k] = c[k - 1] + v[k]
      /\ d[0] = 0 /\ \A k \in 1 .. Len(w) : d[k] = d[k - 1] + w[k]
  BY CumsumRecursion
<1> HIDE DEF c, d
<1>2. 0 \in T
  BY <1>1
<1>3. ASSUME NEW k \in 0 .. n - 1, k \in T PROVE k + 1 \in T
  <2>1. k + 1 \in 1 .. n /\ k + 1 \in 0 .. n /\ (k + 1) - 1 = k /\ k + 1 \in 1 .. Len(v) /\ k + 1 \in 1 .. Len(w)
    OBVIOUS
  <2>2. c[k + 1] = c[k] + v[k + 1] /\ d[k + 1] = d[k] + w[k + 1]
    BY <1>1, <2>1
  <2> QED BY <1>3, <2>1, <2>2 DEF Agrees
<1> HIDE DEF T
<1>4. 0 .. n \subseteq T
  BY <1>2, <1>3, InductionTo
<1> QED BY <1>4 DEF T, c, d

LEMMA RollingSumAgrees ==
  ASSUME NEW v \in Seq(Int), NEW w \in Seq(Int), NEW n \in Nat, n <= Len(v), n <= Len(w), Agrees(v, w, n)
  PROVE  Agrees(RollingSum(v), RollingSum(w), n)
<1> SUFFICES ASSUME NEW i \in 1 .. n PROVE RollingSum(v)[i] = RollingSum(w)[i]
  BY DEF Agrees
<1>1. i \in DOMAIN v /\ i \in DOMAIN w
  OBVIOUS
<1>2. i < Period \/ (i - Period \in 0 .. n /\ i \in 0 .. n)
  BY IndicatorsAssumption
<1>3. \A k \in 0 .. n : Cumsum(v)[k] = Cumsum(w)[k]
  BY CumsumAgrees
<1> QED BY <1>1, <1>2, <1>3 DEF RollingSum

LEMMA RollingMeanAgrees ==
  ASSUME NEW v \in Seq(Int), NEW w \in Seq(Int), NEW n \in Nat, n <= Len(v), n <= Len(w), Agrees(v, w, n)
  PROVE  Agrees(RollingMean(v), RollingMean(w), n) /\ IsSeries(RollingMean(v), Len(v))
<1>1. \A i \in 1 .. n : RollingSum(v)[i] = RollingSum(w)[i]
  BY RollingSumAgrees DEF Agrees
<1>2. DOMAIN v = 1 .. Len(v) /\ \A i \in 1 .. n : i \in DOMAIN v /\ i \in DOMAIN w
  OBVIOUS
<1>3. \A i \in 1 .. n : RollingMean(v)[i] = RollingMean(w)[i]
  BY <1>1, <1>2 DEF RollingMean
<1>4. IsSeries(RollingMean(v), Len(v))
  BY <1>2 DEF RollingMean, IsSeries
<1> QED BY <1>3, <1>4 DEF Agrees

LEMMA SquaresAgree ==
  ASSUME NEW v \in Seq(Int), NEW w \in Seq(Int), NEW n \in Nat, n <= Len(v), n <= Len(w), Agrees(v, w, n)
  PROVE  Agrees(Squares(v), Squares(w), n) /\ IsSeries(Squares(v), Len(v))
         /\ Squares(v) \in Seq(Int) /\ Len(Squares(v)) = Len(v)
<1>1. DOMAIN v = 1 .. Len(v) /\ DOMAIN w = 1 .. Len(w) /\ \A i \in 1 .. Len(v) : v[i] \in Int
  OBVIOUS
<1>2. \A x \in Int : x * x \in Int
  OBVIOUS
<1>3. Squares(v) \in [1 .. Len(v) -> Int]
  BY <1>1, <1>2 DEF Squares
<1>4. \A i \in 1 .. n : i \in DOMAIN v /\ i \in DOMAIN w /\ v[i] = w[i]
  BY <1>1 DEF Agrees
<1>5. Agrees(Squares(v), Squares(w), n)
  BY <1>4 DEF Squares, Agrees
<1>6. Squares(v) \in Seq(Int) /\ Len(Squares(v)) = Len(v)
  <2>1. Len(v) \in Nat
    OBVIOUS
  <2> QED BY <1>3, <2>1, SeqOfFunction
<1> QED BY <1>3, <1>5, <1>6 DEF IsSeries

LEMMA RollingVarianceAgrees ==
  ASSUME NEW v \in Seq(Int), NEW w \in Seq(Int), NEW n \in Nat, n <= Len(v), n <= Len(w), Agrees(v, w, n)
  PROVE  Agrees(RollingVariance(v), RollingVariance(w), n) /\ IsSeries(RollingVariance(v), Len(v))
<1>1. /\ Squares(v) \in Seq(Int) /\ Len(Squares(v)) = Len(v)
      /\ Squares(w) \in Seq(Int) /\ Len(Squares(w)) = Len(w) /\ Agrees(Squares(v), Squares(w), n)
  <2>1. Agrees(w, v, n)
    BY DEF Agrees
  <2> QED BY <2>1, SquaresAgree
<1>2. Agrees(RollingSum(v), RollingSum(w), n) /\ Agrees(RollingSum(Squares(v)), RollingSum(Squares(w)), n)
  BY <1>1, RollingSumAgrees
<1>3. DOMAIN v = 1 .. Len(v) /\ \A i \in 1 .. n : i \in DOMAIN v /\ i \in DOMAIN w
  OBVIOUS
<1> QED BY <1>2, <1>3 DEF RollingVariance, Agrees, IsSeries

(* The differences, and what is made of them. *)
LEMMA DeltaAgrees ==
  ASSUME NEW v \in Seq(Int), NEW w \in Seq(Int), NEW n \in Nat, n <= Len(v), n <= Len(w), Agrees(v, w, n)
  PROVE  /\ \A i \in 1 .. Len(v) : Delta(v)[i] \in Int
         /\ \A i \in 1 .. n : Delta(v)[i] = Delta(w)[i]
<1>1. DOMAIN v = 1 .. Len(v) /\ DOMAIN w = 1 .. Len(w) /\ \A i \in 1 .. Len(v) : v[i] \in Int
  OBVIOUS
<1>2. \A i \in 1 .. Len(v) : i = 1 \/ i - 1 \in 1 .. Len(v)
  OBVIOUS
<1>3. \A i \in 1 .. n : i \in 1 .. Len(v) /\ i \in 1 .. Len(w) /\ (i = 1 \/ i - 1 \in 1 .. n)
  OBVIOUS
<1>4. ASSUME NEW i \in 1 .. Len(v) PROVE Delta(v)[i] \in Int
  BY <1>1, <1>2 DEF Delta
<1>5. ASSUME NEW i \in 1 .. n PROVE Delta(v)[i] = Delta(w)[i]
  BY <1>1, <1>3 DEF Delta, Agrees
<1> QED BY <1>4, <1>5

LEMMA GainsAgree ==
  ASSUME NEW v \in Seq(Int), NEW w \in Seq(Int), NEW n \in Nat, n <= Len(v), n <= Len(w), Agrees(v, w, n)
  PROVE  /\ Agrees(Gains(v), Gains(w), n) /\ IsSeries(Gains(v), Len(v))
         /\ Gains(v) \in Seq(Int) /\ Len(Gains(v)) = Len(v)
         /\ Agrees(Losses(v), Losses(w), n) /\ IsSeries(Losses(v), Len(v))
         /\ Losses(v) \in Seq(Int) /\ Len(Losses(v)) = Len(v)
<1>1. /\ DOMAIN v = 1 .. Len(v) /\ DOMAIN w = 1 .. Len(w)
      /\ \A i \in 1 .. n : i \in DOMAIN v /\ i \in DOMAIN w
  OBVIOUS
<1>2. /\ \A i \in 1 .. Len(v) : Delta(v)[i] \in Int
      /\ \A i \in 1 .. n : Delta(v)[i] = Delta(w)[i]
  BY DeltaAgrees
<1>3. \A x \in Int : Positive(x) \in Int /\ Positive(-x) \in Int
  BY DEF Positive
<1>4. Gains(v) \in [1 .. Len(v) -> Int] /\ Losses(v) \in [1 .. Len(v) -> Int]
  BY <1>1, <1>2, <1>3 DEF Gains, Losses
<1>5. Agrees(Gains(v), Gains(w), n) /\ Agrees(Losses(v), Losses(w), n)
  BY <1>1, <1>2 DEF Gains, Losses, Agrees
<1>6. /\ Gains(v) \in Seq(Int) /\ Len(Gains(v)) = Len(v)
      /\ Losses(v) \in Seq(Int) /\ Len(Losses(v)) = Len(v)
  <2>1. Len(v) \in Nat
    OBVIOUS
  <2>2. Gains(v) \in Seq(Int) /\ Len(Gains(v)) = Len(v)
    BY <1>4, <2>1, SeqOfFunction
  <2>3. Losses(v) \in Seq(Int) /\ Len(Losses(v)) = Len(v)
    BY <1>4, <2>1, SeqOfFunction
  <2> QED BY <2>2, <2>3
<1>7. IsSeries(Gains(v), Len(v))
  BY <1>4 DEF IsSeries
<1>8. IsSeries(Losses(v), Len(v))
  BY <1>4 DEF IsSeries
<1> QED BY <1>5, <1>6, <1>7, <1>8

LEMMA RsiAgrees ==
  ASSUME NEW v \in Seq(Int), NEW w \in Seq(Int), NEW n \in Nat, n <= Len(v), n <= Len(w), Agrees(v, w, n)
  PROVE  Agrees(Rsi(v), Rsi(w), n) /\ IsSeries(Rsi(v), Len(v))
<1>1. Agrees(w, v, n)
  BY DEF Agrees
<1>2. /\ Gains(v) \in Seq(Int) /\ Len(Gains(v)) = Len(v) /\ Gains(w) \in Seq(Int) /\ Len(Gains(w)) = Len(w)
      /\ Losses(v) \in Seq(Int) /\ Len(Losses(v)) = Len(v) /\ Losses(w) \in Seq(Int) /\ Len(Losses(w)) = Len(w)
      /\ Agrees(Gains(v), Gains(w), n) /\ Agrees(Losses(v), Losses(w), n)
  BY <1>1, GainsAgree
<1>3. Agrees(RollingSum(Gains(v)), RollingSum(Gains(w)), n)
      /\ Agrees(RollingSum(Losses(v)), RollingSum(Losses(w)), n)
  BY <1>2, RollingSumAgrees
<1>4. DOMAIN v = 1 .. Len(v) /\ \A i \in 1 .. n : i \in DOMAIN v /\ i \in DOMAIN w
  OBVIOUS
<1> QED BY <1>3, <1>4 DEF Rsi, Agrees, IsSeries

(* A closing price is positive, so the return on it is an integer. *)
Prices == Nat \ {0}

LEMMA ReturnIsInt ==
  ASSUME NEW p \in Prices, NEW c \in Prices
  PROVE  Return(p, c) \in Int
<1>1. Unit \in Int
  BY IndicatorsAssumption
<1>2. \A x \in Int : x \div p \in Int
  BY DEF Prices
<1>3. (c - p) * Unit \in Int
  BY <1>1 DEF Prices
<1> QED BY <1>2, <1>3 DEF Return

LEMMA ReturnsAgree ==
  ASSUME NEW v \in Seq(Prices), NEW w \in Seq(Prices), NEW n \in Nat, n <= Len(v), n <= Len(w),
         Agrees(v, w, n)
  PROVE  /\ Agrees(Returns(v), Returns(w), n) /\ IsSeries(Returns(v), Len(v))
         /\ Returns(v) \in Seq(Int) /\ Len(Returns(v)) = Len(v)
<1>1. /\ DOMAIN v = 1 .. Len(v) /\ DOMAIN w = 1 .. Len(w) /\ \A i \in 1 .. Len(v) : v[i] \in Prices
      /\ \A i \in 1 .. Len(v) : i = 1 \/ i - 1 \in 1 .. Len(v)
      /\ \A i \in 1 .. n : i \in 1 .. Len(v) /\ i \in 1 .. Len(w) /\ (i = 1 \/ i - 1 \in 1 .. n)
  OBVIOUS
<1>2. \A p \in Prices, c \in Prices : Return(p, c) \in Int
  BY ReturnIsInt
<1>3. \A i \in 1 .. Len(v) : Returns(v)[i] \in Int
  BY <1>1, <1>2 DEF Returns
<1>4. Returns(v) \in [1 .. Len(v) -> Int]
  BY <1>1, <1>3 DEF Returns
<1>5. ASSUME NEW i \in 1 .. n PROVE Returns(v)[i] = Returns(w)[i]
  BY <1>1 DEF Returns, Agrees
<1>6. Returns(v) \in Seq(Int) /\ Len(Returns(v)) = Len(v)
  <2>1. Len(v) \in Nat
    OBVIOUS
  <2> QED BY <1>4, <2>1, SeqOfFunction
<1> QED BY <1>4, <1>5, <1>6 DEF IsSeries, Agrees

(* Both forms of the true range. *)
LEMMA LargestOfThree ==
  ASSUME NEW x \in Int, NEW y \in Int, NEW z \in Int
  PROVE  Largest({x}) \in Int /\ Largest({x, y, z}) \in Int
<1>1. ASSUME NEW S, S \subseteq Int, NEW m \in S, \A u \in S : u <= m PROVE Largest(S) \in Int
  BY <1>1 DEF Largest
<1>2. Largest({x}) \in Int
  <2>1. \A u \in {x} : u <= x
    OBVIOUS
  <2> QED BY <1>1, <2>1
<1>3. \E m \in {x, y, z} : \A u \in {x, y, z} : u <= m
  <2>1. \E m \in {x, y, z} : x <= m /\ y <= m /\ z <= m
    OBVIOUS
  <2> QED BY <2>1
<1>4. {x, y, z} \subseteq Int
  OBVIOUS
<1>5. Largest({x, y, z}) \in Int
  <2> DEFINE S == {x, y, z}
  <2> HIDE DEF S
  <2>1. PICK m \in S : \A u \in S : u <= m
    BY <1>3 DEF S
  <2>2. S \subseteq Int
    BY <1>4 DEF S
  <2>3. Largest(S) \in Int
    BY <1>1, <2>1, <2>2
  <2> QED BY <2>3 DEF S
<1> QED BY <1>2, <1>5

CloseBefore(s, i) == IF i = 1 THEN None ELSE <<s[i - 1].close>>

LEMMA CandleFields ==
  ASSUME NEW s \in Seq(Candles), NEW i \in 1 .. Len(s)
  PROVE  /\ s[i] \in Candles /\ s[i].high \in Int /\ s[i].low \in Int
         /\ s[i].close \in Prices /\ s[i].close \in Int
<1>1. s[i] \in Candles
  OBVIOUS
<1> QED BY <1>1, CandlesAssumption DEF Prices

LEMMA TrueRangesByStep ==
  ASSUME NEW s \in Seq(Candles), NEW i \in 1 .. Len(s)
  PROVE  TrueRanges(s)[i] = TrueRange(CloseBefore(s, i), s[i]) /\ TrueRanges(s)[i] \in Int
<1>1. DOMAIN s = 1 .. Len(s) /\ i \in DOMAIN s
  OBVIOUS
<1> DEFINE h == s[i].high
           l == s[i].low
           Far(x, j) == Magnitude(x - s[j].close)
           before == {i - 1} \cap DOMAIN s
           R == {Far(x, j) : x \in {h, l}, j \in before}
<1>2. TrueRanges(s)[i] = Largest({h - l} \cup R)
  BY <1>1 DEF TrueRanges
<1>3. h \in Int /\ l \in Int
  BY CandleFields
<1>4. CASE i = 1
  <2>1. before = {}
    BY <1>1, <1>4
  <2>2. R = {}
    BY <2>1
  <2>3. TrueRanges(s)[i] = Largest({h - l})
    <3> HIDE DEF R, h, l
    <3>1. {h - l} \cup R = {h - l}
      BY <2>2
    <3> QED BY <1>2, <3>1, Zenon
  <2>4. TrueRange(CloseBefore(s, i), s[i]) = h - l
    BY <1>4 DEF TrueRange, CloseBefore
  <2>5. Largest({h - l}) = h - l
    BY <1>3 DEF Largest
  <2> QED BY <1>3, <2>3, <2>4, <2>5
<1>5. CASE i # 1
  <2>1. i - 1 \in 1 .. Len(s) /\ before = {i - 1}
    BY <1>1, <1>5
  <2>2. R = {Far(h, i - 1), Far(l, i - 1)}
    BY <2>1
  <2>3. {h - l} \cup {Far(h, i - 1), Far(l, i - 1)} = {h - l, Far(h, i - 1), Far(l, i - 1)}
    OBVIOUS
  <2>4. TrueRanges(s)[i] = Largest({h - l, Far(h, i - 1), Far(l, i - 1)})
    <3> HIDE DEF R, h, l, Far
    <3> QED BY <1>2, <2>2, <2>3, Zenon
  <2>5. TrueRange(CloseBefore(s, i), s[i]) = Largest({h - l, Far(h, i - 1), Far(l, i - 1)})
    <3>1. CloseBefore(s, i) = <<s[i - 1].close>> /\ CloseBefore(s, i) # None
      BY <1>5 DEF CloseBefore, None
    <3> DEFINE q == CloseBefore(s, i)
    <3>2. q # None /\ q[1] = s[i - 1].close
      BY <3>1
    <3> HIDE DEF q
    <3>3. TrueRange(q, s[i]) = Largest({h - l, Magnitude(h - q[1]), Magnitude(l - q[1])})
      BY <3>2 DEF TrueRange
    <3>4. Magnitude(h - q[1]) = Far(h, i - 1) /\ Magnitude(l - q[1]) = Far(l, i - 1)
      BY <3>2
    <3> HIDE DEF h, l, Far
    <3>5. TrueRange(q, s[i]) = Largest({h - l, Far(h, i - 1), Far(l, i - 1)})
      BY <3>3, <3>4, Zenon
    <3> QED BY <3>5 DEF q
  <2>6. Far(h, i - 1) \in Int /\ Far(l, i - 1) \in Int /\ h - l \in Int
    <3>1. s[i - 1].close \in Int
      BY <2>1, CandleFields
    <3>2. \A x \in Int : Magnitude(x) \in Int
      BY DEF Magnitude
    <3>3. h - s[i - 1].close \in Int /\ l - s[i - 1].close \in Int /\ h - l \in Int
      BY <1>3, <3>1
    <3> HIDE DEF h, l
    <3> QED BY <3>2, <3>3
  <2>7. Largest({h - l, Far(h, i - 1), Far(l, i - 1)}) \in Int
    BY <2>6, LargestOfThree
  <2> QED BY <2>4, <2>5, <2>7
<1> QED BY <1>4, <1>5

(* B2 is B, or B and more bars. *)
Longer(s, t) == Len(s) <= Len(t) /\ Agrees(s, t, Len(s))

LEMMA TrueRangesAgree ==
  ASSUME NEW s \in Seq(Candles), NEW t \in Seq(Candles), Longer(s, t)
  PROVE  /\ Agrees(TrueRanges(s), TrueRanges(t), Len(s)) /\ IsSeries(TrueRanges(s), Len(s))
         /\ TrueRanges(s) \in Seq(Int) /\ Len(TrueRanges(s)) = Len(s)
<1>1. \A i \in 1 .. Len(s) : TrueRanges(s)[i] \in Int
  BY TrueRangesByStep
<1>2. TrueRanges(s) \in [1 .. Len(s) -> Int]
  <2>1. DOMAIN s = 1 .. Len(s)
    OBVIOUS
  <2> QED BY <1>1, <2>1 DEF TrueRanges
<1>3. ASSUME NEW i \in 1 .. Len(s) PROVE TrueRanges(s)[i] = TrueRanges(t)[i]
  <2>1. i \in 1 .. Len(t) /\ (i = 1 \/ i - 1 \in 1 .. Len(s))
    BY DEF Longer
  <2>2. s[i] = t[i] /\ CloseBefore(s, i) = CloseBefore(t, i)
    BY <2>1 DEF Longer, Agrees, CloseBefore
  <2>3. TrueRanges(t)[i] = TrueRange(CloseBefore(t, i), t[i])
    BY <2>1, TrueRangesByStep
  <2>4. TrueRanges(s)[i] = TrueRange(CloseBefore(s, i), s[i])
    BY TrueRangesByStep
  <2> QED BY <2>2, <2>3, <2>4
<1>4. TrueRanges(s) \in Seq(Int) /\ Len(TrueRanges(s)) = Len(s)
  <2>1. Len(s) \in Nat
    OBVIOUS
  <2> QED BY <1>2, <2>1, SeqOfFunction
<1> QED BY <1>2, <1>3, <1>4 DEF IsSeries, Agrees

LEMMA ClosesAgree ==
  ASSUME NEW s \in Seq(Candles), NEW t \in Seq(Candles), Longer(s, t)
  PROVE  /\ Agrees(Closes(s), Closes(t), Len(s)) /\ IsSeries(Closes(s), Len(s))
         /\ Closes(s) \in Seq(Prices) /\ Closes(s) \in Seq(Int) /\ Len(Closes(s)) = Len(s)
<1>1. \A i \in 1 .. Len(s) : s[i].close \in Prices /\ s[i].close \in Int
  BY CandleFields
<1>2. DOMAIN s = 1 .. Len(s) /\ \A i \in 1 .. Len(s) : i \in DOMAIN s /\ i \in DOMAIN t
  BY DEF Longer
<1>3. Closes(s) \in [1 .. Len(s) -> Prices] /\ Closes(s) \in [1 .. Len(s) -> Int]
  BY <1>1, <1>2 DEF Closes
<1>4. Closes(s) \in Seq(Prices) /\ Closes(s) \in Seq(Int) /\ Len(Closes(s)) = Len(s)
  <2>1. Len(s) \in Nat
    OBVIOUS
  <2> QED BY <1>3, <2>1, SeqOfFunction
<1>5. Agrees(Closes(s), Closes(t), Len(s))
  BY <1>2 DEF Closes, Agrees, Longer
<1>6. IsSeries(Closes(s), Len(s))
  BY <1>3 DEF IsSeries
<1> QED BY <1>4, <1>5, <1>6

(* Only the values up to i have a weight at i. *)
LEMMA EwmAgrees ==
  ASSUME NEW m \in Nat, NEW l \in Nat, NEW n \in Nat, n <= m, n <= l,
         NEW v, NEW w, DOMAIN v = 1 .. m, DOMAIN w = 1 .. l, Agrees(v, w, n), NEW span
  PROVE  Agrees(Ewm(v, span), Ewm(w, span), n) /\ IsSeries(Ewm(v, span), m)
<1>1. ASSUME NEW i \in 1 .. n PROVE Ewm(v, span)[i] = Ewm(w, span)[i]
  <2>1. i \in DOMAIN v /\ i \in DOMAIN w /\ \A k \in 1 .. i : k \in 1 .. n
    OBVIOUS
  <2>2. \A k \in 1 .. i : v[k] = w[k]
    BY <2>1 DEF Agrees
  <2>3. Weighed(v, span, i) = Weighed(w, span, i)
    BY <2>2, Zenon DEF Weighed
  <2> QED BY <2>1, <2>3, Zenon DEF Ewm
<1>2. IsSeries(Ewm(v, span), m)
  BY Zenon DEF Ewm, IsSeries
<1> QED BY <1>1, <1>2 DEF Agrees

(* Every output of the vectorized library over a series is the one over a  *)
(* longer series, as far as the shorter one reaches.                       *)
LEMMA BatchGrows ==
  ASSUME NEW s \in Seq(Candles), NEW t \in Seq(Candles), Longer(s, t)
  PROVE  \A name \in DOMAIN Batch(s) : IsPrefix(Batch(s)[name], Batch(t)[name])
<1> DEFINE m == Len(s)
           n == Len(t)
           c == Closes(s)
           d == Closes(t)
           Line(v) == [i \in DOMAIN v |-> Ewm(v, FastSpan)[i] - Ewm(v, SlowSpan)[i]]
           All(v) == [i \in DOMAIN v |-> <<v[i]>>]
           Grows(f, g) == IsSeries(f, m) /\ IsSeries(g, n) /\ Agrees(f, g, m)
<1>1. m \in Nat /\ n \in Nat /\ m <= n /\ Longer(t, t)
  BY DEF Longer, Agrees
<1>2. /\ c \in Seq(Int) /\ c \in Seq(Prices) /\ Len(c) = m /\ d \in Seq(Int) /\ d \in Seq(Prices) /\ Len(d) = n
      /\ Grows(c, d) /\ Agrees(d, d, n)
  BY <1>1, ClosesAgree
<1>3. ASSUME NEW f, NEW g, Grows(f, g) PROVE IsPrefix(f, g)
  BY <1>1, <1>3, PrefixOfSeries
<1>4. ASSUME NEW f, NEW g, Grows(f, g) PROVE Grows(All(f), All(g))
  <2>1. \A i \in 1 .. m : i \in DOMAIN f /\ i \in DOMAIN g /\ f[i] = g[i]
    BY <1>1, <1>4 DEF IsSeries, Agrees
  <2>2. Agrees(All(f), All(g), m)
    BY <2>1 DEF Agrees
  <2>3. DOMAIN f = 1 .. m /\ DOMAIN g = 1 .. n
    BY <1>4 DEF IsSeries
  <2>4. IsSeries(All(f), m) /\ IsSeries(All(g), n)
    BY <2>3, Zenon DEF IsSeries
  <2> QED BY <2>2, <2>4
<1>5. ASSUME NEW f, NEW g, Grows(f, g), NEW span PROVE Grows(Ewm(f, span), Ewm(g, span))
  <2>1. DOMAIN f = 1 .. m /\ DOMAIN g = 1 .. n /\ Agrees(g, g, n)
    BY <1>5 DEF IsSeries, Agrees
  <2>2. Agrees(Ewm(f, span), Ewm(g, span), m) /\ IsSeries(Ewm(f, span), m)
    BY <1>1, <1>5, <2>1, EwmAgrees
  <2>3. IsSeries(Ewm(g, span), n)
    BY <1>1, <2>1, EwmAgrees
  <2> QED BY <2>2, <2>3
<1>6. Grows(Line(c), Line(d))
  <2>1. Grows(Ewm(c, FastSpan), Ewm(d, FastSpan)) /\ Grows(Ewm(c, SlowSpan), Ewm(d, SlowSpan))
    BY <1>2, <1>5
  <2>2. DOMAIN c = 1 .. m /\ DOMAIN d = 1 .. n /\ \A i \in 1 .. m : i \in DOMAIN c /\ i \in DOMAIN d
    BY <1>1, <1>2 DEF IsSeries
  <2> HIDE DEF c, d
  <2>3. Agrees(Line(c), Line(d), m)
    BY <2>1, <2>2 DEF Agrees
  <2>4. IsSeries(Line(c), m) /\ IsSeries(Line(d), n)
    BY <2>2, Zenon DEF IsSeries
  <2> QED BY <2>3, <2>4
<1>7. ASSUME NEW f \in Seq(Int), NEW g \in Seq(Int), Len(f) = m, Len(g) = n, Agrees(f, g, m)
      PROVE  Grows(RollingMean(f), RollingMean(g)) /\ Grows(RollingVariance(f), RollingVariance(g))
             /\ Grows(Rsi(f), Rsi(g))
  <2>1. Agrees(g, g, n)
    BY DEF Agrees
  <2>2. Grows(RollingMean(f), RollingMean(g))
    BY <1>1, <1>7, <2>1, RollingMeanAgrees
  <2>3. Grows(RollingVariance(f), RollingVariance(g))
    BY <1>1, <1>7, <2>1, RollingVarianceAgrees
  <2>4. Grows(Rsi(f), Rsi(g))
    BY <1>1, <1>7, <2>1, RsiAgrees
  <2> QED BY <2>2, <2>3, <2>4
<1>8. /\ TrueRanges(s) \in Seq(Int) /\ Len(TrueRanges(s)) = m
      /\ TrueRanges(t) \in Seq(Int) /\ Len(TrueRanges(t)) = n /\ Agrees(TrueRanges(s), TrueRanges(t), m)
  BY <1>1, TrueRangesAgree
<1>9. /\ Returns(c) \in Seq(Int) /\ Len(Returns(c)) = m
      /\ Returns(d) \in Seq(Int) /\ Len(Returns(d)) = n /\ Agrees(Returns(c), Returns(d), m)
  BY <1>1, <1>2, ReturnsAgree
<1>10. /\ Batch(s) = [ sma |-> RollingMean(c), ema |-> All(Ewm(c, Span)), rsi |-> Rsi(c),
                       atr |-> RollingMean(TrueRanges(s)), bollinger |-> RollingVariance(c),
                       macd |-> All(Line(c)), signal |-> All(Ewm(Line(c), SignalSpan)),
                       volatility |-> RollingVariance(Returns(c)) ]
       /\ Batch(t) = [ sma |-> RollingMean(d), ema |-> All(Ewm(d, Span)), rsi |-> Rsi(d),
                       atr |-> RollingMean(TrueRanges(t)), bollinger |-> RollingVariance(d),
                       macd |-> All(Line(d)), signal |-> All(Ewm(Line(d), SignalSpan)),
                       volatility |-> RollingVariance(Returns(d)) ]
  BY Zenon DEF Batch
<1>11. /\ Grows(RollingMean(c), RollingMean(d)) /\ Grows(Rsi(c), Rsi(d))
       /\ Grows(RollingVariance(c), RollingVariance(d))
       /\ Grows(RollingMean(TrueRanges(s)), RollingMean(TrueRanges(t)))
       /\ Grows(RollingVariance(Returns(c)), RollingVariance(Returns(d)))
  BY <1>2, <1>7, <1>8, <1>9
<1>12. /\ Grows(All(Ewm(c, Span)), All(Ewm(d, Span))) /\ Grows(All(Line(c)), All(Line(d)))
       /\ Grows(All(Ewm(Line(c), SignalSpan)), All(Ewm(Line(d), SignalSpan)))
  <2> HIDE DEF Grows, All, Line
  <2>1. Grows(Ewm(c, Span), Ewm(d, Span)) /\ Grows(Ewm(Line(c), SignalSpan), Ewm(Line(d), SignalSpan))
    BY <1>2, <1>5, <1>6
  <2> QED BY <1>4, <1>6, <2>1
<1> HIDE DEF Grows, All, Line, c, d
<1>13. DOMAIN Batch(s) = {"sma", "ema", "rsi", "atr", "bollinger", "macd", "signal", "volatility"}
  BY <1>10
<1>14. \A name \in {"sma", "ema", "rsi", "atr", "bollinger", "macd", "signal", "volatility"} :
         Grows(Batch(s)[name], Batch(t)[name])
  BY <1>10, <1>11, <1>12
<1> QED BY <1>3, <1>13, <1>14

(* For any bars and length of the run, the values of every vectorized      *)
(* indicator at a bar are final: a later bar changes none of them.         *)
THEOREM NothingLooksAhead == RunSpec => IndicatorsAreCausal
<1>1. RunTypeOK /\ RunTypeOK' /\ [RunNext]_runVars =>
        [LET before == Batch(bars)
             after  == Batch(bars')
         IN  \A name \in DOMAIN before : IsPrefix(before[name], after[name])]_runVars
  <2> SUFFICES ASSUME RunTypeOK, RunTypeOK', RunNext
               PROVE  \A name \in DOMAIN Batch(bars) : IsPrefix(Batch(bars)[name], Batch(bars')[name])
    OBVIOUS
  <2>1. PICK b \in Candles : Bar(b)
    BY DEF RunNext, Watch, Fill
  <2>2. bars \in Seq(Candles) /\ bars' \in Seq(Candles)
    BY DEF RunTypeOK
  <2>3. Longer(bars, bars')
    BY <2>1, <2>2 DEF Bar, Longer, Agrees
  <2> QED BY <2>2, <2>3, BatchGrows
<1> QED BY <1>1, RunTypes, PTL DEF RunSpec, IndicatorsAreCausal
-----------------------------------------------------------------------------
(* Windows.  A window over a series keeps the last of its running totals.  *)
WindowOf(w, v) ==
  /\ w.cumsum = Cumsum(v)[Len(v)] /\ w.history \in Seq(Int)
  /\ Len(w.history) = IF Len(v) < Period THEN Len(v) + 1 ELSE Period + 1
  /\ \A i \in 1 .. Len(w.history) : w.history[i] = Cumsum(v)[Len(v) - Len(w.history) + i]

LEMMA EmptyWindow == WindowOf(NewWindow, <<>>)
<1>1. <<>> \in Seq(Int) /\ Len(<<>>) = 0
  OBVIOUS
<1>2. Cumsum(<<>>)[0] = 0
  BY <1>1, CumsumRecursion
<1>3. NewWindow.cumsum = 0 /\ NewWindow.history = <<0>>
  BY DEF NewWindow
<1>4. <<0>> \in Seq(Int) /\ Len(<<0>>) = 1 /\ <<0>>[1] = 0
  OBVIOUS
<1>5. 0 < Period
  BY IndicatorsAssumption
<1> QED BY <1>1, <1>2, <1>3, <1>4, <1>5 DEF WindowOf

LEMMA PushedWindow ==
  ASSUME NEW v \in Seq(Int), NEW y \in Int, NEW w, WindowOf(w, v)
  PROVE  WindowOf(Push(w, y), Append(v, y))
<1> DEFINE n == Len(v)
           u == Append(v, y)
           c == Cumsum(v)
           d == Cumsum(u)
           h == w.history
           l == Len(h)
           grown == Append(h, w.cumsum + y)
           p == Push(w, y)
<1>1. /\ u \in Seq(Int) /\ Len(u) = n + 1 /\ u[n + 1] = y /\ n \in Nat /\ Agrees(v, u, n)
  BY DEF Agrees
<1>2. c[n] \in Int /\ \A k \in 0 .. n : c[k] \in Int
  <2>1. n \in 0 .. n /\ c \in [0 .. n -> Int]
    BY <1>1, CumsumRecursion
  <2> QED BY <2>1
<1>3. \A k \in 0 .. n : c[k] = d[k]
  <2>1. n <= Len(v) /\ n <= Len(u)
    BY <1>1
  <2> HIDE DEF u
  <2> QED BY <1>1, <2>1, CumsumAgrees
<1>4. d[n + 1] = c[n] + y
  <2>1. n + 1 \in 1 .. n + 1 /\ (n + 1) - 1 = n /\ n \in 0 .. n
    BY <1>1
  <2>2. \A k \in 1 .. n + 1 : d[k] = d[k - 1] + u[k]
    <3> HIDE DEF u
    <3> QED BY <1>1, CumsumRecursion
  <2> HIDE DEF u, d, c
  <2> QED BY <1>1, <1>3, <2>1, <2>2
<1>5. /\ w.cumsum = c[n] /\ h \in Seq(Int) /\ l = IF n < Period THEN n + 1 ELSE Period + 1
      /\ \A i \in 1 .. l : h[i] = c[n - l + i]
  BY DEF WindowOf
<1> HIDE DEF u, c, d, h
<1>6. Period \in Nat /\ Period >= 2 /\ l \in Nat /\ l <= n + 1 /\ l >= 1
  BY <1>1, <1>5, IndicatorsAssumption
<1>7. grown \in Seq(Int) /\ Len(grown) = l + 1 /\ \A i \in 1 .. l + 1 : grown[i] = d[n - l + i]
  <2>1. w.cumsum + y \in Int
    BY <1>2, <1>5
  <2>2. /\ grown \in Seq(Int) /\ Len(grown) = l + 1
        /\ \A i \in 1 .. l + 1 : grown[i] = IF i = l + 1 THEN w.cumsum + y ELSE h[i]
    BY <1>5, <2>1
  <2>3. ASSUME NEW i \in 1 .. l + 1 PROVE grown[i] = d[n - l + i]
    <3>1. CASE i = l + 1
      <4>1. n - l + i = n + 1
        BY <1>1, <1>6, <3>1
      <4> QED BY <1>4, <1>5, <2>2, <3>1, <4>1
    <3>2. CASE i # l + 1
      <4>1. i \in 1 .. l /\ n - l + i \in 0 .. n
        BY <1>1, <1>6, <3>2
      <4> QED BY <1>3, <1>5, <2>2, <3>2, <4>1
    <3> QED BY <3>1, <3>2
  <2> QED BY <2>2, <2>3
<1>8. p.cumsum = d[n + 1] /\ p.history = IF Len(grown) > Period + 1 THEN Tail(grown) ELSE grown
  BY <1>4, <1>5 DEF Push, h
<1> HIDE DEF grown, p, l
<1>9. /\ p.history \in Seq(Int) /\ Len(p.history) = IF n + 1 < Period THEN n + 2 ELSE Period + 1
      /\ \A i \in 1 .. Len(p.history) : p.history[i] = d[n + 1 - Len(p.history) + i]
  <2>1. CASE l + 1 > Period + 1
    <3>1. l = Period + 1 /\ n >= Period
      BY <1>1, <1>5, <1>6, <2>1
    <3>2. p.history = Tail(grown)
      BY <1>7, <1>8, <2>1
    <3>3. /\ Tail(grown) \in Seq(Int) /\ Len(Tail(grown)) = l
          /\ \A i \in 1 .. l : Tail(grown)[i] = grown[i + 1]
      BY <1>6, <1>7
    <3>4. ASSUME NEW i \in 1 .. l PROVE Tail(grown)[i] = d[n + 1 - l + i]
      <4>1. i + 1 \in 1 .. l + 1 /\ n - l + (i + 1) = n + 1 - l + i
        BY <1>1, <1>6
      <4> QED BY <1>7, <3>3, <4>1
    <3>5. /\ p.history \in Seq(Int) /\ Len(p.history) = l
          /\ \A i \in 1 .. l : p.history[i] = d[n + 1 - l + i]
      BY <3>2, <3>3, <3>4
    <3>6. l = IF n + 1 < Period THEN n + 2 ELSE Period + 1
      BY <1>1, <1>6, <3>1
    <3> QED BY <3>5, <3>6
  <2>2. CASE ~(l + 1 > Period + 1)
    <3>1. l = n + 1 /\ n < Period
      BY <1>1, <1>5, <1>6, <2>2
    <3>2. p.history = grown
      BY <1>7, <1>8, <2>2
    <3>3. (IF n + 1 < Period THEN n + 2 ELSE Period + 1) = l + 1
      BY <1>1, <1>6, <3>1
    <3>4. \A i \in 1 .. l + 1 : n - l + i = n + 1 - (l + 1) + i
      BY <1>1, <1>6
    <3> QED BY <1>7, <3>2, <3>3, <3>4
  <2> QED BY <2>1, <2>2
<1>10. d = Cumsum(u) /\ Len(u) = n + 1
  BY <1>1 DEF d
<1>11. p.cumsum = Cumsum(u)[Len(u)]
  BY <1>8, <1>10
<1>12. Len(p.history) = IF Len(u) < Period THEN Len(u) + 1 ELSE Period + 1
  BY <1>1, <1>9, <1>10
<1>13. \A i \in 1 .. Len(p.history) : p.history[i] = Cumsum(u)[Len(u) - Len(p.history) + i]
  BY <1>9, <1>10
<1>14. WindowOf(p, u)
  BY <1>9, <1>11, <1>12, <1>13 DEF WindowOf
<1> QED BY <1>14 DEF p, u

LEMMA WindowedTotal ==
  ASSUME NEW v \in Seq(Int), Len(v) > 0, NEW w, WindowOf(w, v)
  PROVE  /\ WindowTotal(w) = RollingSum(v)[Len(v)]
         /\ WindowTotal(w) = None <=> Len(v) < Period
<1> DEFINE n == Len(v)
           c == Cumsum(v)
           h == w.history
<1>1. n \in Nat /\ n \in DOMAIN v /\ Period \in Nat /\ Period >= 2
  BY IndicatorsAssumption
<1>2. /\ h \in Seq(Int) /\ Len(h) = IF n < Period THEN n + 1 ELSE Period + 1
      /\ \A i \in 1 .. Len(h) : h[i] = c[n - Len(h) + i]
  BY DEF WindowOf
<1>3. RollingSum(v)[n] = IF n < Period THEN None ELSE <<c[n] - c[n - Period]>>
  BY <1>1 DEF RollingSum
<1>4. WindowTotal(w) = IF Len(h) = Period + 1 THEN <<Last(h) - Head(h)>> ELSE None
  BY DEF WindowTotal
<1> HIDE DEF n, c, h
<1>5. CASE n < Period
  <2>1. Len(h) # Period + 1
    BY <1>1, <1>2, <1>5
  <2> QED BY <1>3, <1>4, <1>5, <2>1 DEF n
<1>6. CASE ~(n < Period)
  <2>1. Len(h) = Period + 1 /\ 1 \in 1 .. Len(h) /\ Len(h) \in 1 .. Len(h)
    BY <1>1, <1>2, <1>6
  <2>2. n - Len(h) + 1 = n - Period /\ n - Len(h) + Len(h) = n
    BY <1>1, <2>1
  <2>3. h[1] = c[n - Period] /\ h[Len(h)] = c[n]
    BY <1>2, <2>1, <2>2
  <2>4. Head(h) = h[1] /\ Last(h) = h[Len(h)]
    BY <1>2, <2>1 DEF Last
  <2>5. <<c[n] - c[n - Period]>> # None
    BY DEF None
  <2> QED BY <1>3, <1>4, <1>6, <2>1, <2>3, <2>4, <2>5 DEF n
<1> QED BY <1>5, <1>6

(* What a new bar appends to the series that the windows are over. *)
LEMMA AppendedSquares ==
  ASSUME NEW v \in Seq(Int), NEW y \in Int
  PROVE  /\ Squares(Append(v, y)) = Append(Squares(v), y * y) /\ y * y \in Int
         /\ Squares(v) \in Seq(Int) /\ Len(Squares(v)) = Len(v)
<1> DEFINE u == Append(v, y)
<1>1. /\ u \in Seq(Int) /\ Len(u) = Len(v) + 1 /\ u[Len(v) + 1] = y /\ Len(v) \in Nat
      /\ Agrees(v, u, Len(v)) /\ Agrees(u, u, Len(u)) /\ DOMAIN u = 1 .. Len(v) + 1
  BY DEF Agrees
<1> HIDE DEF u
<1>2. IsSeries(Squares(u), Len(v) + 1)
  <2>1. Len(u) \in Nat /\ Len(u) <= Len(u)
    BY <1>1
  <2> QED BY <1>1, <2>1, SquaresAgree
<1>3. /\ Agrees(Squares(v), Squares(u), Len(v)) /\ Squares(v) \in Seq(Int) /\ Len(Squares(v)) = Len(v)
  <2>1. Len(v) <= Len(v) /\ Len(v) <= Len(u)
    BY <1>1
  <2> QED BY <1>1, <2>1, SquaresAgree
<1>4. Squares(u)[Len(v) + 1] = y * y /\ y * y \in Int
  BY <1>1 DEF Squares
<1>5. Agrees(Squares(u), Squares(v), Len(v))
  BY <1>3 DEF Agrees
<1>6. Squares(u) = Append(Squares(v), y * y)
  BY <1>1, <1>2, <1>3, <1>4, <1>5, AppendedSeries
<1> QED BY <1>3, <1>4, <1>6 DEF u

LEMMA AppendedGains ==
  ASSUME NEW v \in Seq(Int), NEW y \in Int,
         NEW x \in Int, x = IF v = <<>> THEN y ELSE v[Len(v)]
  PROVE  /\ Gains(Append(v, y)) = Append(Gains(v), Positive(y - x))
         /\ Losses(Append(v, y)) = Append(Losses(v), Positive(-(y - x)))
         /\ Positive(y - x) \in Int /\ Positive(-(y - x)) \in Int
         /\ Gains(v) \in Seq(Int) /\ Losses(v) \in Seq(Int)
<1> DEFINE u == Append(v, y)
           n == Len(v)
<1>1. /\ u \in Seq(Int) /\ Len(u) = n + 1 /\ u[n + 1] = y /\ n \in Nat
      /\ Agrees(v, u, n) /\ Agrees(u, u, Len(u)) /\ DOMAIN u = 1 .. n + 1 /\ n <= Len(u)
  BY DEF Agrees
<1>2. Delta(u)[n + 1] = y - x
  <2>1. v = <<>> => Delta(u)[n + 1] = y - x
    <3> SUFFICES ASSUME v = <<>> PROVE Delta(u)[n + 1] = y - x
      OBVIOUS
    <3>1. n = 0 /\ x = y
      OBVIOUS
    <3> HIDE DEF u, n
    <3> QED BY <1>1, <3>1 DEF Delta
  <2>2. v # <<>> => Delta(u)[n + 1] = y - x
    <3> SUFFICES ASSUME v # <<>> PROVE Delta(u)[n + 1] = y - x
      OBVIOUS
    <3>1. n # 0 /\ x = v[n] /\ n \in 1 .. n
      OBVIOUS
    <3> HIDE DEF u, n
    <3>2. n + 1 # 1 /\ (n + 1) - 1 = n /\ u[n] = v[n] /\ n + 1 \in DOMAIN u
      BY <1>1, <3>1 DEF Agrees
    <3> QED BY <1>1, <3>1, <3>2 DEF Delta
  <2> QED BY <2>1, <2>2
<1> HIDE DEF u, n
<1>3. n + 1 \in DOMAIN u /\ n <= n /\ n = Len(v)
  BY <1>1 DEF n
<1>4. Gains(u)[n + 1] = Positive(y - x) /\ Losses(u)[n + 1] = Positive(-(y - x))
  BY <1>2, <1>3 DEF Gains, Losses
<1>5. Positive(y - x) \in Int /\ Positive(-(y - x)) \in Int
  BY DEF Positive
<1>6. IsSeries(Gains(u), n + 1) /\ IsSeries(Losses(u), n + 1)
  BY <1>1, GainsAgree
<1>7. /\ Agrees(Gains(v), Gains(u), n) /\ Gains(v) \in Seq(Int) /\ Len(Gains(v)) = n
      /\ Agrees(Losses(v), Losses(u), n) /\ Losses(v) \in Seq(Int) /\ Len(Losses(v)) = n
  BY <1>1, <1>3, GainsAgree
<1>8. Agrees(Gains(u), Gains(v), n) /\ Agrees(Losses(u), Losses(v), n)
  BY <1>7 DEF Agrees
<1>9. Gains(u) = Append(Gains(v), Positive(y - x))
  BY <1>1, <1>4, <1>5, <1>6, <1>7, <1>8, AppendedSeries
<1>10. Losses(u) = Append(Losses(v), Positive(-(y - x)))
  BY <1>1, <1>4, <1>5, <1>6, <1>7, <1>8, AppendedSeries
<1> QED BY <1>5, <1>7, <1>9, <1>10 DEF u

LEMMA AppendedReturns ==
  ASSUME NEW v \in Seq(Prices), NEW y \in Prices, NEW r \in Int,
         r = IF v = <<>> THEN 0 ELSE Return(v[Len(v)], y)
  PROVE  Returns(Append(v, y)) = Append(Returns(v), r) /\ Returns(v) \in Seq(Int)
<1> DEFINE u == Append(v, y)
           n == Len(v)
<1>1. /\ u \in Seq(Prices) /\ Len(u) = n + 1 /\ u[n + 1] = y /\ n \in Nat
      /\ Agrees(v, u, n) /\ Agrees(u, u, Len(u)) /\ DOMAIN u = 1 .. n + 1 /\ n <= Len(u)
  BY DEF Agrees
<1>2. v = <<>> => Returns(u)[n + 1] = r
  <2> SUFFICES ASSUME v = <<>> PROVE Returns(u)[n + 1] = r
    OBVIOUS
  <2>1. n = 0 /\ r = 0
    OBVIOUS
  <2> HIDE DEF u, n
  <2> QED BY <1>1, <2>1 DEF Returns
<1>3. v # <<>> => Returns(u)[n + 1] = r
  <2> SUFFICES ASSUME v # <<>> PROVE Returns(u)[n + 1] = r
    OBVIOUS
  <2>1. n # 0 /\ r = Return(v[n], y) /\ n \in 1 .. n
    OBVIOUS
  <2> HIDE DEF u, n
  <2>2. n + 1 # 1 /\ (n + 1) - 1 = n /\ u[n] = v[n] /\ n + 1 \in DOMAIN u
    BY <1>1, <2>1 DEF Agrees
  <2> QED BY <1>1, <2>1, <2>2 DEF Returns
<1> HIDE DEF u, n
<1>4. n <= n /\ n = Len(v)
  BY <1>1 DEF n
<1>5. IsSeries(Returns(u), n + 1)
  BY <1>1, ReturnsAgree
<1>6. Agrees(Returns(v), Returns(u), n) /\ Returns(v) \in Seq(Int) /\ Len(Returns(v)) = n
  BY <1>1, <1>4, ReturnsAgree
<1>7. Agrees(Returns(u), Returns(v), n)
  BY <1>6 DEF Agrees
<1>8. Returns(u)[n + 1] = r
  BY <1>2, <1>3
<1>9. Returns(u) = Append(Returns(v), r)
  BY <1>1, <1>5, <1>6, <1>7, <1>8, AppendedSeries
<1> QED BY <1>6, <1>9 DEF u

LEMMA AppendedRanges ==
  ASSUME NEW s \in Seq(Candles), NEW b \in Candles
  PROVE  /\ TrueRanges(Append(s, b)) =
              Append(TrueRanges(s), TrueRange(IF s = <<>> THEN None ELSE <<s[Len(s)].close>>, b))
         /\ TrueRange(IF s = <<>> THEN None ELSE <<s[Len(s)].close>>, b) \in Int
         /\ TrueRanges(s) \in Seq(Int)
<1> DEFINE u == Append(s, b)
           n == Len(s)
           previous == IF s = <<>> THEN None ELSE <<s[Len(s)].close>>
           y == TrueRange(previous, b)
<1>1. /\ u \in Seq(Candles) /\ Len(u) = n + 1 /\ u[n + 1] = b /\ n \in Nat /\ n + 1 \in 1 .. Len(u)
      /\ Longer(s, u) /\ Longer(u, u)
  BY DEF Agrees, Longer
<1>2. CloseBefore(u, n + 1) = previous
  <2>1. s = <<>> => n + 1 = 1
    OBVIOUS
  <2>2. s # <<>> => n + 1 # 1 /\ (n + 1) - 1 = n /\ u[n] = s[n]
    OBVIOUS
  <2> HIDE DEF u
  <2> QED BY <2>1, <2>2 DEF CloseBefore
<1> HIDE DEF u, n, previous
<1>3. TrueRanges(u)[n + 1] = y /\ y \in Int
  BY <1>1, <1>2, TrueRangesByStep
<1>4. IsSeries(TrueRanges(u), n + 1)
  BY <1>1, TrueRangesAgree
<1>5. /\ Agrees(TrueRanges(s), TrueRanges(u), n) /\ TrueRanges(s) \in Seq(Int)
      /\ Len(TrueRanges(s)) = n
  BY <1>1, TrueRangesAgree DEF n
<1>6. Agrees(TrueRanges(u), TrueRanges(s), n)
  BY <1>5 DEF Agrees
<1>7. TrueRanges(u) = Append(TrueRanges(s), y)
  BY <1>1, <1>3, <1>4, <1>5, <1>6, AppendedSeries
<1> QED BY <1>3, <1>5, <1>7 DEF u, y, previous

LEMMA AppendedCloses ==
  ASSUME NEW s \in Seq(Candles), NEW b \in Candles
  PROVE  /\ Closes(Append(s, b)) = Append(Closes(s), b.close)
         /\ Closes(s) \in Seq(Int) /\ Closes(s) \in Seq(Prices) /\ Len(Closes(s)) = Len(s)
         /\ b.close \in Int /\ b.close \in Prices
         /\ s # <<>> => Closes(s)[Len(s)] = s[Len(s)].close
<1> DEFINE u == Append(s, b)
           n == Len(s)
<1>1. /\ u \in Seq(Candles) /\ Len(u) = n + 1 /\ u[n + 1] = b /\ n \in Nat /\ n + 1 \in DOMAIN u
      /\ Longer(s, u) /\ Longer(u, u) /\ Longer(s, s)
  BY DEF Agrees, Longer
<1> HIDE DEF u
<1>2. b.close \in Int /\ b.close \in Prices
  BY CandlesAssumption DEF Prices
<1>3. Closes(u)[n + 1] = b.close
  BY <1>1 DEF Closes
<1>4. IsSeries(Closes(u), n + 1)
  BY <1>1, ClosesAgree
<1>5. /\ Agrees(Closes(s), Closes(u), n) /\ Closes(s) \in Seq(Int) /\ Closes(s) \in Seq(Prices)
      /\ Len(Closes(s)) = n
  BY <1>1, ClosesAgree
<1>6. Agrees(Closes(u), Closes(s), n)
  BY <1>5 DEF Agrees
<1>7. Closes(u) = Append(Closes(s), b.close)
  BY <1>1, <1>2, <1>3, <1>4, <1>5, <1>6, AppendedSeries
<1>8. s # <<>> => n \in DOMAIN s
  OBVIOUS
<1>9. s # <<>> => Closes(s)[n] = s[n].close
  BY <1>8 DEF Closes
<1> QED BY <1>2, <1>5, <1>7, <1>9 DEF u

(* Every window of the streaming library is one over the bars so far.      *)
StreamInv ==
  LET c == Closes(bars)
  IN  /\ stream.prev_close = IF bars = <<>> THEN None ELSE <<bars[Len(bars)].close>>
      /\ WindowOf(stream.values, c) /\ WindowOf(stream.squares, Squares(c))
      /\ WindowOf(stream.gains, Gains(c)) /\ WindowOf(stream.losses, Losses(c))
      /\ WindowOf(stream.ranges, TrueRanges(bars))
      /\ WindowOf(stream.returns, Returns(c)) /\ WindowOf(stream.return_squares, Squares(Returns(c)))

LEMMA StreamFollows == RunSpec => []StreamInv
<1>1. RunInit => StreamInv
  <2> SUFFICES ASSUME RunInit PROVE StreamInv
    OBVIOUS
  <2>1. bars = <<>> /\ stream = NewState /\ DOMAIN bars = {}
    BY DEF RunInit
  <2>2. \A f : DOMAIN f = {} /\ f = [i \in DOMAIN f |-> f[i]] => f = <<>>
    OBVIOUS
  <2>3. Closes(bars) = <<>> /\ TrueRanges(bars) = <<>>
    BY <2>1, <2>2 DEF Closes, TrueRanges
  <2>4. Squares(<<>>) = <<>> /\ Gains(<<>>) = <<>> /\ Losses(<<>>) = <<>> /\ Returns(<<>>) = <<>>
    BY <2>2 DEF Squares, Gains, Losses, Returns
  <2>5. /\ NewState.prev_close = None /\ NewState.values = NewWindow /\ NewState.squares = NewWindow
        /\ NewState.gains = NewWindow /\ NewState.losses = NewWindow /\ NewState.ranges = NewWindow
        /\ NewState.returns = NewWindow /\ NewState.return_squares = NewWindow
    BY DEF NewState
  <2> QED BY <2>1, <2>3, <2>4, <2>5, EmptyWindow DEF StreamInv
<1>2. RunTypeOK /\ StreamInv /\ [RunNext]_runVars => StreamInv'
  <2> SUFFICES ASSUME RunTypeOK, StreamInv, [RunNext]_runVars PROVE StreamInv'
    OBVIOUS
  <2>1. ASSUME NEW b \in Candles, Bar(b) PROVE StreamInv'
    <3> DEFINE c == Closes(bars)
               y == b.close
               previous == IF stream.prev_close = None THEN y ELSE stream.prev_close[1]
               r == IF stream.prev_close = None THEN 0 ELSE Return(previous, y)
               tr == TrueRange(stream.prev_close, b)
    <3>1. bars \in Seq(Candles) /\ bars' = Append(bars, b) /\ bars' # <<>> /\ bars'[Len(bars')] = b
      BY <2>1 DEF RunTypeOK, Bar
    <3>2. /\ Closes(bars') = Append(c, y) /\ c \in Seq(Int) /\ c \in Seq(Prices) /\ Len(c) = Len(bars)
          /\ y \in Int /\ y \in Prices /\ (bars # <<>> => c[Len(bars)] = bars[Len(bars)].close)
      BY <3>1, AppendedCloses
    <3>3. /\ stream'.prev_close = <<y>> /\ stream'.values = Push(stream.values, y)
          /\ stream'.squares = Push(stream.squares, y * y)
          /\ stream'.gains = Push(stream.gains, Positive(y - previous))
          /\ stream'.losses = Push(stream.losses, Positive(-(y - previous)))
          /\ stream'.ranges = Push(stream.ranges, tr)
          /\ stream'.returns = Push(stream.returns, r)
          /\ stream'.return_squares = Push(stream.return_squares, r * r)
      BY <2>1 DEF Bar, Update
    <3>4. stream.prev_close = IF bars = <<>> THEN None ELSE <<bars[Len(bars)].close>>
      BY DEF StreamInv
    <3>5. c = <<>> <=> bars = <<>>
      BY <3>1, <3>2
    <3>6. previous = (IF c = <<>> THEN y ELSE c[Len(c)]) /\ previous \in Int
      <4>1. CASE bars = <<>>
        BY <3>2, <3>4, <3>5, <4>1
      <4>2. CASE bars # <<>>
        <5>1. stream.prev_close # None /\ stream.prev_close[1] = c[Len(c)]
          BY <3>2, <3>4, <4>2 DEF None
        <5>2. c[Len(c)] \in Int
          BY <3>2, <3>5, <4>2
        <5> QED BY <3>5, <4>2, <5>1, <5>2
      <4> QED BY <4>1, <4>2
    <3>7. r = (IF c = <<>> THEN 0 ELSE Return(c[Len(c)], y)) /\ r \in Int
      <4>1. stream.prev_close = None <=> c = <<>>
        BY <3>4, <3>5 DEF None
      <4>2. c # <<>> => c[Len(c)] \in Prices
        BY <3>2
      <4>3. c # <<>> => Return(c[Len(c)], y) \in Int
        BY <3>2, <4>2, ReturnIsInt
      <4> HIDE DEF previous, c
      <4> QED BY <3>6, <4>1, <4>3
    <3> HIDE DEF previous, r, tr, y, c
    <3>8. WindowOf(stream'.values, Closes(bars'))
      BY <3>2, <3>3, PushedWindow DEF StreamInv, c
    <3>9. WindowOf(stream'.squares, Squares(Closes(bars')))
      <4>1. Squares(Closes(bars')) = Append(Squares(c), y * y) /\ Squares(c) \in Seq(Int) /\ y * y \in Int
        BY <3>2, AppendedSquares
      <4>2. WindowOf(stream.squares, Squares(c))
        BY DEF StreamInv, c
      <4> QED BY <3>3, <4>1, <4>2, PushedWindow
    <3>10. WindowOf(stream'.gains, Gains(Closes(bars'))) /\ WindowOf(stream'.losses, Losses(Closes(bars')))
      <4>1. /\ Gains(Append(c, y)) = Append(Gains(c), Positive(y - previous))
            /\ Losses(Append(c, y)) = Append(Losses(c), Positive(-(y - previous)))
            /\ Positive(y - previous) \in Int /\ Positive(-(y - previous)) \in Int
            /\ Gains(c) \in Seq(Int) /\ Losses(c) \in Seq(Int)
        BY <3>2, <3>6, AppendedGains
      <4>2. WindowOf(stream.gains, Gains(c)) /\ WindowOf(stream.losses, Losses(c))
        BY DEF StreamInv, c
      <4> QED BY <3>2, <3>3, <4>1, <4>2, PushedWindow
    <3>11. WindowOf(stream'.ranges, TrueRanges(bars'))
      <4>1. TrueRanges(bars') = Append(TrueRanges(bars), tr) /\ tr \in Int /\ TrueRanges(bars) \in Seq(Int)
        BY <3>1, <3>4, AppendedRanges DEF tr
      <4>2. WindowOf(stream.ranges, TrueRanges(bars))
        BY DEF StreamInv
      <4> QED BY <3>3, <4>1, <4>2, PushedWindow
    <3>12. /\ WindowOf(stream'.returns, Returns(Closes(bars')))
           /\ WindowOf(stream'.return_squares, Squares(Returns(Closes(bars'))))
      <4>1. Returns(Closes(bars')) = Append(Returns(c), r) /\ Returns(c) \in Seq(Int)
        BY <3>2, <3>7, AppendedReturns
      <4>2. /\ Squares(Append(Returns(c), r)) = Append(Squares(Returns(c)), r * r)
            /\ Squares(Returns(c)) \in Seq(Int) /\ r * r \in Int
        BY <3>7, <4>1, AppendedSquares
      <4>3. WindowOf(stream.returns, Returns(c)) /\ WindowOf(stream.return_squares, Squares(Returns(c)))
        BY DEF StreamInv, c
      <4>4. WindowOf(stream'.returns, Returns(Closes(bars')))
        BY <3>3, <3>7, <4>1, <4>3, PushedWindow
      <4>5. WindowOf(stream'.return_squares, Squares(Returns(Closes(bars'))))
        BY <3>3, <4>1, <4>2, <4>3, PushedWindow
      <4> QED BY <4>4, <4>5
    <3>13. stream'.prev_close = IF bars' = <<>> THEN None ELSE <<bars'[Len(bars')].close>>
      BY <3>1, <3>3 DEF y
    <3> QED BY <3>8, <3>9, <3>10, <3>11, <3>12, <3>13 DEF StreamInv
  <2>2. CASE UNCHANGED runVars
    BY <2>2 DEF runVars, StreamInv
  <2>3. ASSUME NEW b \in Candles, Watch(b) \/ \E t \in Trades : Fill(b, t) PROVE StreamInv'
    BY <2>1, <2>3 DEF Watch, Fill
  <2> QED BY <2>2, <2>3 DEF RunNext
<1> QED BY <1>1, <1>2, RunTypes, PTL DEF RunSpec

(* The last value of a series of windowed values. *)
LEMMA WindowedMean ==
  ASSUME NEW v \in Seq(Int), Len(v) > 0, NEW w, WindowOf(w, v)
  PROVE  /\ MeanOf(w) = Last(RollingMean(v))
         /\ Last(RollingMean(v)) = RollingMean(v)[Len(v)]
         /\ RollingMean(v)[Len(v)] = None <=> Len(v) < Period
<1> DEFINE n == Len(v)
<1>1. n \in DOMAIN v /\ n \in Nat /\ n <= Len(v)
  OBVIOUS
<1>2. WindowTotal(w) = RollingSum(v)[n] /\ (WindowTotal(w) = None <=> n < Period)
  BY WindowedTotal
<1>3. Len(RollingMean(v)) = n
  <2>1. Agrees(v, v, n)
    BY DEF Agrees
  <2>2. IsSeries(RollingMean(v), n)
    BY <1>1, <2>1, RollingMeanAgrees
  <2> QED BY <1>1, <2>2, SeriesLength
<1> HIDE DEF n
<1>4. RollingMean(v)[n] = IF RollingSum(v)[n] = None THEN None ELSE <<RollingSum(v)[n][1] \div Period>>
  BY <1>1 DEF RollingMean
<1>5. MeanOf(w) = RollingMean(v)[n]
  BY <1>2, <1>4 DEF MeanOf, Full, Total
<1>6. RollingMean(v)[n] = None <=> n < Period
  BY <1>2, <1>4 DEF None
<1> QED BY <1>3, <1>5, <1>6 DEF Last, n

LEMMA WindowedVariance ==
  ASSUME NEW v \in Seq(Int), Len(v) > 0, NEW w, WindowOf(w, v), NEW q, WindowOf(q, Squares(v))
  PROVE  VarianceOf(w, q) = Last(RollingVariance(v))
<1> DEFINE n == Len(v)
<1>1. n \in DOMAIN v /\ n \in Nat /\ n <= Len(v) /\ Agrees(v, v, n)
  BY DEF Agrees
<1>2. WindowTotal(w) = RollingSum(v)[n] /\ (WindowTotal(w) = None <=> n < Period)
  BY WindowedTotal
<1>3. WindowTotal(q) = RollingSum(Squares(v))[n] /\ (WindowTotal(q) = None <=> n < Period)
  <2>1. Squares(v) \in Seq(Int) /\ Len(Squares(v)) = n
    BY <1>1, SquaresAgree
  <2> HIDE DEF n
  <2>2. n > 0
    BY DEF n
  <2> QED BY <2>1, <2>2, WindowedTotal
<1>4. Len(RollingVariance(v)) = n
  <2>1. IsSeries(RollingVariance(v), n)
    BY <1>1, RollingVarianceAgrees
  <2> QED BY <1>1, <2>1, SeriesLength
<1> HIDE DEF n
<1>5. RollingVariance(v)[n] =
        IF RollingSum(v)[n] = None THEN None
        ELSE <<SampleVariance(RollingSum(v)[n][1], RollingSum(Squares(v))[n][1])>>
  BY <1>1 DEF RollingVariance
<1>6. VarianceOf(w, q) = RollingVariance(v)[n]
  BY <1>2, <1>3, <1>5 DEF VarianceOf, Full, Total
<1> QED BY <1>4, <1>6 DEF Last

LEMMA WindowedStrength ==
  ASSUME NEW v \in Seq(Int), Len(v) > 0,
         NEW g, WindowOf(g, Gains(v)), NEW l, WindowOf(l, Losses(v))
  PROVE  (IF Full(g) /\ Full(l) THEN <<Strength(Total(g), Total(l))>> ELSE None) = Last(Rsi(v))
<1> DEFINE n == Len(v)
<1>1. n \in DOMAIN v /\ n \in Nat /\ n <= Len(v) /\ n > 0 /\ Agrees(v, v, n)
  BY DEF Agrees
<1>2. /\ Gains(v) \in Seq(Int) /\ Len(Gains(v)) = n /\ Losses(v) \in Seq(Int) /\ Len(Losses(v)) = n
  BY <1>1, GainsAgree
<1>3. Len(Rsi(v)) = n
  <2>1. IsSeries(Rsi(v), n)
    BY <1>1, RsiAgrees
  <2> QED BY <1>1, <2>1, SeriesLength
<1> HIDE DEF n
<1>4. WindowTotal(g) = RollingSum(Gains(v))[n] /\ (WindowTotal(g) = None <=> n < Period)
  BY <1>1, <1>2, WindowedTotal
<1>5. WindowTotal(l) = RollingSum(Losses(v))[n] /\ (WindowTotal(l) = None <=> n < Period)
  BY <1>1, <1>2, WindowedTotal
<1>6. Rsi(v)[n] =
        IF RollingSum(Gains(v))[n] = None THEN None
        ELSE <<Strength(RollingSum(Gains(v))[n][1], RollingSum(Losses(v))[n][1])>>
  BY <1>1 DEF Rsi
<1>7. (IF Full(g) /\ Full(l) THEN <<Strength(Total(g), Total(l))>> ELSE None) = Rsi(v)[n]
  BY <1>4, <1>5, <1>6 DEF Full, Total
<1> QED BY <1>3, <1>7 DEF Last

(* For any bars and length of the run, what every windowed indicator       *)
(* returned for the last bar is the last value of its vectorized form, and *)
(* there is no value before the window is full.                            *)
THEOREM WindowsMatchTheSeries ==
  RunSpec => [](bars # <<>> => /\ Agree(Windowed)
                               /\ Batch(bars).sma[Len(bars)] = None <=> Len(bars) < Period)
<1>1. RunTypeOK /\ StreamInv /\ bars # <<>> =>
        /\ Agree(Windowed)
        /\ Batch(bars).sma[Len(bars)] = None <=> Len(bars) < Period
  <2> SUFFICES ASSUME RunTypeOK, StreamInv, bars # <<>>
               PROVE  /\ Agree(Windowed)
                      /\ Batch(bars).sma[Len(bars)] = None <=> Len(bars) < Period
    OBVIOUS
  <2> DEFINE c == Closes(bars)
             t == TrueRanges(bars)
             r == Returns(c)
  <2>1. bars \in Seq(Candles) /\ Len(bars) > 0 /\ Len(bars) <= Len(bars) /\ Longer(bars, bars)
    BY DEF RunTypeOK, Longer, Agrees
  <2>2. c \in Seq(Int) /\ c \in Seq(Prices) /\ Len(c) = Len(bars)
    BY <2>1, ClosesAgree
  <2>3. t \in Seq(Int) /\ Len(t) = Len(bars)
    BY <2>1, TrueRangesAgree
  <2>4. r \in Seq(Int) /\ Len(r) = Len(bars)
    <3>1. Len(bars) \in Nat /\ Agrees(c, c, Len(bars))
      BY DEF Agrees
    <3> QED BY <2>1, <2>2, <3>1, ReturnsAgree
  <2>5. /\ WindowOf(stream.values, c) /\ WindowOf(stream.squares, Squares(c))
        /\ WindowOf(stream.gains, Gains(c)) /\ WindowOf(stream.losses, Losses(c))
        /\ WindowOf(stream.ranges, t)
        /\ WindowOf(stream.returns, r) /\ WindowOf(stream.return_squares, Squares(r))
    BY DEF StreamInv
  <2>6. /\ Batch(bars).sma = RollingMean(c) /\ Batch(bars).rsi = Rsi(c)
        /\ Batch(bars).atr = RollingMean(t) /\ Batch(bars).bollinger = RollingVariance(c)
        /\ Batch(bars).volatility = RollingVariance(r)
    BY DEF Batch
  <2>7. /\ Streamed(stream).sma = MeanOf(stream.values)
        /\ Streamed(stream).rsi = (IF Full(stream.gains) /\ Full(stream.losses)
                                   THEN <<Strength(Total(stream.gains), Total(stream.losses))>> ELSE None)
        /\ Streamed(stream).atr = MeanOf(stream.ranges)
        /\ Streamed(stream).bollinger = VarianceOf(stream.values, stream.squares)
        /\ Streamed(stream).volatility = VarianceOf(stream.returns, stream.return_squares)
    BY DEF Streamed
  <2> HIDE DEF c, t, r
  <2>8. /\ MeanOf(stream.values) = Last(RollingMean(c))
        /\ RollingMean(c)[Len(c)] = None <=> Len(c) < Period
    BY <2>1, <2>2, <2>5, WindowedMean
  <2>9. MeanOf(stream.ranges) = Last(RollingMean(t))
    BY <2>1, <2>3, <2>5, WindowedMean
  <2>10. VarianceOf(stream.values, stream.squares) = Last(RollingVariance(c))
    BY <2>1, <2>2, <2>5, WindowedVariance
  <2>11. VarianceOf(stream.returns, stream.return_squares) = Last(RollingVariance(r))
    BY <2>1, <2>4, <2>5, WindowedVariance
  <2>12. (IF Full(stream.gains) /\ Full(stream.losses)
          THEN <<Strength(Total(stream.gains), Total(stream.losses))>> ELSE None) = Last(Rsi(c))
    BY <2>1, <2>2, <2>5, WindowedStrength
  <2>13. ASSUME NEW name \in Windowed PROVE Streamed(stream)[name] = Last(Batch(bars)[name])
    <3>1. CASE name = "sma"
      BY <2>6, <2>7, <2>8, <3>1
    <3>2. CASE name = "rsi"
      BY <2>6, <2>7, <2>12, <3>2
    <3>3. CASE name = "atr"
      BY <2>6, <2>7, <2>9, <3>3
    <3>4. CASE name = "bollinger"
      BY <2>6, <2>7, <2>10, <3>4
    <3>5. CASE name = "volatility"
      BY <2>6, <2>7, <2>11, <3>5
    <3> QED BY <3>1, <3>2, <3>3, <3>4, <3>5 DEF Windowed
  <2> QED BY <2>2, <2>6, <2>8, <2>13 DEF Agree
<1> QED BY <1>1, RunTypes, StreamFollows, PTL
-----------------------------------------------------------------------------
(* Folds over an interval are loops. *)

(* The elements of a finite set can be folded in any order: some function  *)
(* on its subsets takes, for each, the step of a chosen element after what *)
(* it gives for the others.                                                *)
FoldsBy(f, D, base, pick, step) ==
  \A t \in SUBSET D : f[t] = IF t = {} THEN base ELSE step[<<pick[t], f[t \ {pick[t]}]>>]

LEMMA FoldExists ==
  ASSUME NEW D, IsFiniteSet(D), NEW S, NEW base \in S, NEW step \in [D \X S -> S],
         NEW pick, \A t \in SUBSET D : t # {} => pick[t] \in t
  PROVE  \E f \in [SUBSET D -> S] : FoldsBy(f, D, base, pick, step)
<1> DEFINE Small(m) == {t \in SUBSET D : Cardinality(t) <= m}
           next(t, x) == step[<<pick[t], x>>]
           Upto(m) == \E f \in [Small(m) -> S] :
                        \A t \in Small(m) : f[t] = IF t = {} THEN base ELSE next(t, f[t \ {pick[t]}])
           n == Cardinality(D)
           T == {m \in 0 .. n : Upto(m)}
<1>1. n \in Nat
  BY FS_CardinalityType
<1>2. ASSUME NEW t \in SUBSET D PROVE IsFiniteSet(t) /\ Cardinality(t) \in Nat /\ Cardinality(t) <= n
  BY FS_Subset, FS_CardinalityType
<1>3. ASSUME NEW t \in SUBSET D, t # {}
      PROVE  /\ pick[t] \in D /\ t \ {pick[t]} \in SUBSET D
             /\ Cardinality(t \ {pick[t]}) = Cardinality(t) - 1
  <2>1. pick[t] \in t
    BY <1>3
  <2>2. IsFiniteSet(t)
    BY <1>2
  <2> QED BY <2>1, <2>2, FS_RemoveElement
<1>4. ASSUME NEW t \in SUBSET D, t # {}, NEW x \in S PROVE next(t, x) \in S
  BY <1>3, <1>4
<1> HIDE DEF n, next
<1>5. 0 \in T
  <2> HIDE DEF T
  <2> DEFINE f == [t \in Small(0) |-> base]
  <2>1. \A t \in Small(0) : t = {}
    BY <1>2, FS_EmptySet
  <2>2. f \in [Small(0) -> S] /\ \A t \in Small(0) : f[t] = base
    OBVIOUS
  <2>3. \A t \in Small(0) : f[t] = IF t = {} THEN base ELSE next(t, f[t \ {pick[t]}])
    BY <2>1, <2>2
  <2> HIDE DEF f
  <2>4. Upto(0)
    BY <2>2, <2>3
  <2>5. 0 \in 0 .. n
    BY <1>1
  <2> HIDE DEF Upto
  <2> QED BY <2>4, <2>5 DEF T
<1>6. ASSUME NEW m \in 0 .. n - 1, m \in T PROVE m + 1 \in T
  <2>1. PICK f \in [Small(m) -> S] : \A t \in Small(m) : f[t] = IF t = {} THEN base ELSE next(t, f[t \ {pick[t]}])
    BY <1>6
  <2> DEFINE g == [t \in Small(m + 1) |-> IF t = {} THEN base ELSE next(t, f[t \ {pick[t]}])]
  <2>2. ASSUME NEW t \in Small(m + 1), t # {} PROVE t \ {pick[t]} \in Small(m)
    BY <1>1, <1>2, <1>3, <2>2
  <2>3. \A t \in Small(m + 1) : t # {} => next(t, f[t \ {pick[t]}]) \in S
    BY <1>4, <2>1, <2>2
  <2>4. g \in [Small(m + 1) -> S]
    BY <2>3
  <2>5. ASSUME NEW t \in Small(m) PROVE t \in Small(m + 1) /\ g[t] = f[t]
    <3>1. t \in Small(m + 1)
      BY <1>1, <1>2
    <3> QED BY <2>1, <3>1
  <2>6. \A t \in Small(m + 1) : g[t] = IF t = {} THEN base ELSE next(t, f[t \ {pick[t]}])
    OBVIOUS
  <2> HIDE DEF g
  <2>7. \A t \in Small(m + 1) : g[t] = IF t = {} THEN base ELSE next(t, g[t \ {pick[t]}])
    BY <2>2, <2>5, <2>6
  <2>8. Upto(m + 1)
    BY <2>4, <2>7
  <2>9. m + 1 \in 0 .. n
    BY <1>1
  <2> QED BY <2>8, <2>9
<1> HIDE DEF T
<1>7. n \in T
  BY <1>1, <1>5, <1>6, InductionTo
<1>8. Small(n) = SUBSET D
  BY <1>2
<1> QED BY <1>7, <1>8 DEF T, FoldsBy, next

(* The largest number up to k of 1 .. k is k, which leaves those before it. *)
LEMMA LastOfInterval ==
  ASSUME NEW k \in Nat \ {0}
  PROVE  Max(1 .. k) = k /\ (1 .. k) \ {k} = 1 .. k - 1 /\ 1 .. k # {}
<1>1. k \in 1 .. k /\ \A y \in 1 .. k : k >= y
  OBVIOUS
<1>2. \A x \in 1 .. k : (\A y \in 1 .. k : x >= y) => x = k
  BY <1>1
<1>3. Max(1 .. k) = k
  BY <1>1, <1>2 DEF Max
<1>4. (1 .. k) \ {k} = 1 .. k - 1
  OBVIOUS
<1> QED BY <1>1, <1>3, <1>4

LEMMA MaxIsMember ==
  ASSUME NEW n \in Nat, NEW t \in SUBSET (1 .. n), t # {}
  PROVE  Max(t) \in t
<1> DEFINE U == {n - x : x \in t}
<1>1. \A x \in t : n - x \in Nat
  OBVIOUS
<1>5. U \subseteq Nat /\ U # {}
  BY <1>1
<1>2. PICK y \in U : \A z \in U : y <= z
  BY <1>5, LeastNatural
<1>3. PICK x \in t : y = n - x
  BY <1>2
<1>4. ASSUME NEW z \in t PROVE x >= z
  <2>1. n - z \in U
    OBVIOUS
  <2>2. n - x <= n - z
    BY <1>2, <1>3, <2>1
  <2>3. x \in Int /\ z \in Int
    OBVIOUS
  <2> QED BY <2>2, <2>3
<1> QED BY <1>3, <1>4 DEF Max

(* The fold from the left over 1 .. n is a loop over 1 .. n. *)
FoldsByMax(f, n, base, step) ==
  \A t \in SUBSET (1 .. n) : f[t] = IF t = {} THEN base ELSE step[<<Max(t), f[t \ {Max(t)}]>>]

LEMMA FoldByMax ==
  ASSUME NEW n \in Nat, NEW S, NEW base \in S, NEW step \in [(1 .. n) \X S -> S]
  PROVE  \E f \in [SUBSET (1 .. n) -> S] : FoldsByMax(f, n, base, step)
<1> DEFINE pick == [t \in SUBSET (1 .. n) |-> Max(t)]
<1>1. \A t \in SUBSET (1 .. n) : pick[t] = Max(t)
  OBVIOUS
<1>2. \A t \in SUBSET (1 .. n) : t # {} => pick[t] \in t
  BY <1>1, MaxIsMember
<1>3. IsFiniteSet(1 .. n)
  BY FS_Interval
<1> HIDE DEF pick
<1>4. PICK f \in [SUBSET (1 .. n) -> S] : FoldsBy(f, 1 .. n, base, pick, step)
  BY <1>2, <1>3, FoldExists
<1>5. \A t \in SUBSET (1 .. n) : f[t] = IF t = {} THEN base ELSE step[<<Max(t), f[t \ {Max(t)}]>>]
  BY <1>1, <1>4 DEF FoldsBy
<1> QED BY <1>4, <1>5 DEF FoldsByMax

(* A function that takes each such step from one interval to the next.     *)
FoldsIntervals(g, n, S, base, step) ==
  /\ g[{}] = base
  /\ \A k \in 1 .. n : g[1 .. k - 1] \in S => g[1 .. k] = step[<<k, g[1 .. k - 1]>>]

(* A loop over 1 .. n ends with x. *)
EndsLoop(x, n, S, base, step) == \E h \in [0 .. n -> S] : Iterates(h, n, base, step) /\ h[n] = x

LEMMA FoldedLoop ==
  ASSUME NEW n \in Nat, NEW S, NEW base \in S, NEW step \in [(1 .. n) \X S -> S],
         NEW g, FoldsIntervals(g, n, S, base, step)
  PROVE  EndsLoop(g[1 .. n], n, S, base, step)
<1> DEFINE h == [k \in 0 .. n |-> g[1 .. k]]
<1>1. DOMAIN h = 0 .. n /\ h = [k \in DOMAIN h |-> h[k]] /\ h[n] = g[1 .. n]
  OBVIOUS
<1>2. h[0] = base
  <2>1. 1 .. 0 = {} /\ 0 \in 0 .. n
    OBVIOUS
  <2>2. g[{}] = base
    BY DEF FoldsIntervals
  <2> QED BY <2>1, <2>2, Zenon
<1>3. \A k \in 1 .. n : h[k] = g[1 .. k] /\ h[k - 1] = g[1 .. k - 1]
  OBVIOUS
<1> HIDE DEF h
<1>4. Follows(h, n, S, base, step)
  BY <1>1, <1>2, <1>3 DEF Follows, FoldsIntervals
<1>5. h \in [0 .. n -> S] /\ Iterates(h, n, base, step)
  BY <1>4, SameLoop
<1> QED BY <1>1, <1>5 DEF EndsLoop

(* The sum of a sequence, number by number. *)
LEMMA FoldedSum ==
  ASSUME NEW s \in Seq(Int)
  PROVE  \E h \in [0 .. Len(s) -> Int] :
           /\ h[0] = 0 /\ \A k \in 1 .. Len(s) : h[k] = h[k - 1] + s[k]
           /\ AddUp(s) = h[Len(s)]
<1> DEFINE n == Len(s)
           step == [p \in (1 .. n) \X Int |-> p[2] + s[p[1]]]
           IsFold(f) == f = [t \in SUBSET (1 .. n) |-> IF t = {} THEN 0 ELSE f[t \ {Max(t)}] + s[Max(t)]]
<1>1. n \in Nat /\ 0 \in Int /\ DOMAIN s = 1 .. n
  OBVIOUS
<1>2. step \in [(1 .. n) \X Int -> Int]
  OBVIOUS
<1>3. ASSUME NEW k \in 1 .. n, NEW x \in Int PROVE step[<<k, x>>] = x + s[k]
  <2>1. <<k, x>> \in (1 .. n) \X Int /\ <<k, x>>[1] = k /\ <<k, x>>[2] = x
    OBVIOUS
  <2> QED BY <2>1, Zenon
<1> DEFINE g == CHOOSE f : IsFold(f)
<1>4. AddUp(s) = g[1 .. n]
  BY <1>1, Zenon DEF AddUp, FoldLeft, MapThenFoldSet
<1> HIDE DEF n, step
<1>5. PICK f \in [SUBSET (1 .. n) -> Int] : FoldsByMax(f, n, 0, step)
  BY <1>1, <1>2, FoldByMax
<1>6. ASSUME NEW t \in SUBSET (1 .. n)
      PROVE  f[t] = IF t = {} THEN 0 ELSE f[t \ {Max(t)}] + s[Max(t)]
  <2>1. t # {} => Max(t) \in 1 .. n /\ f[t \ {Max(t)}] \in Int
    BY <1>1, <1>5, MaxIsMember
  <2> QED BY <1>3, <1>5, <2>1 DEF FoldsByMax
<1>7. IsFold(f)
  BY <1>5, <1>6
<1>8. IsFold(g)
  BY <1>7, Zenon
<1> HIDE DEF g
<1>9. FoldsIntervals(g, n, Int, 0, step)
  <2>1. \A t \in SUBSET (1 .. n) : g[t] = IF t = {} THEN 0 ELSE g[t \ {Max(t)}] + s[Max(t)]
    BY <1>8
  <2>2. ASSUME NEW k \in 1 .. n PROVE g[1 .. k] = g[1 .. k - 1] + s[k]
    <3>1. 1 .. k \in SUBSET (1 .. n) /\ k \in Nat \ {0}
      BY <1>1
    <3> QED BY <2>1, <3>1, LastOfInterval
  <2> QED BY <1>3, <2>1, <2>2 DEF FoldsIntervals
<1>10. PICK h \in [0 .. n -> Int] : Iterates(h, n, 0, step) /\ h[n] = g[1 .. n]
  <2>1. EndsLoop(g[1 .. n], n, Int, 0, step)
    BY <1>1, <1>2, <1>9, FoldedLoop
  <2> QED BY <2>1 DEF EndsLoop
<1>11. \A k \in 1 .. n : h[k] = h[k - 1] + s[k]
  <2>1. \A k \in 1 .. n : k - 1 \in 0 .. n
    BY <1>1
  <2> QED BY <1>3, <1>10, <2>1 DEF Iterates
<1>12. h[0] = 0
  BY <1>10 DEF Iterates
<1> QED BY <1>4, <1>10, <1>11, <1>12 DEF n
-----------------------------------------------------------------------------
(* The fold that counts the bars without volume.                           *)
NoStreak == [streak |-> 0, found |-> {}]
StreakFlags(cs) == {Flagged("zero_volume_streak", cs[i]) : i \in 1 .. Len(cs)}

LEMMA FoldedStreaks ==
  ASSUME NEW cs \in Seq(Quotes)
  PROVE  \E h \in [0 .. Len(cs) -> [streak : Nat, found : SUBSET StreakFlags(cs)]] :
           /\ h[0] = NoStreak /\ \A k \in 1 .. Len(cs) : h[k] = StreakEndsAt(h[k - 1], cs[k])
           /\ FoldLeft(StreakEndsAt, NoStreak, cs) = h[Len(cs)]
<1> DEFINE n == Len(cs)
           S == [streak : Nat, found : SUBSET StreakFlags(cs)]
           step == [p \in (1 .. n) \X S |-> StreakEndsAt(p[2], cs[p[1]])]
           IsFold(f) == f = [t \in SUBSET (1 .. n) |->
                               IF t = {} THEN NoStreak ELSE StreakEndsAt(f[t \ {Max(t)}], cs[Max(t)])]
<1>1. n \in Nat /\ NoStreak \in S /\ DOMAIN cs = 1 .. n
  BY DEF NoStreak
<1>2. step \in [(1 .. n) \X S -> S]
  <2> SUFFICES ASSUME NEW k \in 1 .. n, NEW acc \in S PROVE StreakEndsAt(acc, cs[k]) \in S
    OBVIOUS
  <2>1. acc.streak \in Nat /\ acc.found \in SUBSET StreakFlags(cs) /\ acc = [streak |-> acc.streak, found |-> acc.found]
    OBVIOUS
  <2>2. Flagged("zero_volume_streak", cs[k]) \in StreakFlags(cs)
    BY DEF StreakFlags
  <2>3. CASE cs[k].volume = 0
    <3>1. StreakEndsAt(acc, cs[k]) = [streak |-> acc.streak + 1, found |-> acc.found]
      BY <2>1, <2>3 DEF StreakEndsAt
    <3> QED BY <2>1, <3>1
  <2>4. CASE cs[k].volume # 0
    <3>1. StreakEndsAt(acc, cs[k]) =
            [streak |-> 0, found |-> IF acc.streak >= StreakThreshold
                                     THEN acc.found \cup {Flagged("zero_volume_streak", cs[k])} ELSE acc.found]
      BY <2>4 DEF StreakEndsAt
    <3> QED BY <2>1, <2>2, <3>1
  <2> QED BY <2>3, <2>4
<1>3. ASSUME NEW k \in 1 .. n, NEW x \in S PROVE step[<<k, x>>] = StreakEndsAt(x, cs[k])
  <2>1. <<k, x>> \in (1 .. n) \X S /\ <<k, x>>[1] = k /\ <<k, x>>[2] = x
    OBVIOUS
  <2> QED BY <2>1, Zenon
<1> DEFINE g == CHOOSE f : IsFold(f)
<1>4. FoldLeft(StreakEndsAt, NoStreak, cs) = g[1 .. n]
  BY <1>1, Zenon DEF FoldLeft, MapThenFoldSet
<1> HIDE DEF n, S, step
<1>5. PICK f \in [SUBSET (1 .. n) -> S] : FoldsByMax(f, n, NoStreak, step)
  BY <1>1, <1>2, FoldByMax
<1>6. ASSUME NEW t \in SUBSET (1 .. n)
      PROVE  f[t] = IF t = {} THEN NoStreak ELSE StreakEndsAt(f[t \ {Max(t)}], cs[Max(t)])
  <2>1. t # {} => Max(t) \in 1 .. n /\ f[t \ {Max(t)}] \in S
    BY <1>1, <1>5, MaxIsMember
  <2> QED BY <1>3, <1>5, <2>1 DEF FoldsByMax
<1>7. IsFold(f)
  BY <1>5, <1>6
<1>8. IsFold(g)
  BY <1>7, Zenon
<1> HIDE DEF g
<1>9. FoldsIntervals(g, n, S, NoStreak, step)
  <2>1. \A t \in SUBSET (1 .. n) : g[t] = IF t = {} THEN NoStreak ELSE StreakEndsAt(g[t \ {Max(t)}], cs[Max(t)])
    BY <1>8
  <2>2. ASSUME NEW k \in 1 .. n PROVE g[1 .. k] = StreakEndsAt(g[1 .. k - 1], cs[k])
    <3>1. 1 .. k \in SUBSET (1 .. n) /\ k \in Nat \ {0}
      BY <1>1
    <3> QED BY <2>1, <3>1, LastOfInterval
  <2> QED BY <1>3, <2>1, <2>2 DEF FoldsIntervals
<1>10. PICK h \in [0 .. n -> S] : Iterates(h, n, NoStreak, step) /\ h[n] = g[1 .. n]
  <2>1. EndsLoop(g[1 .. n], n, S, NoStreak, step)
    BY <1>1, <1>2, <1>9, FoldedLoop
  <2> QED BY <2>1 DEF EndsLoop
<1>11. \A k \in 1 .. n : h[k] = StreakEndsAt(h[k - 1], cs[k])
  <2>1. \A k \in 1 .. n : k - 1 \in 0 .. n
    BY <1>1
  <2> QED BY <1>3, <1>10, <2>1 DEF Iterates
<1>12. h[0] = NoStreak
  BY <1>10 DEF Iterates
<1> QED BY <1>4, <1>10, <1>11, <1>12 DEF n, S

(* A quiet run that ends at the j-th bar is long enough to be reported.    *)
LongRunTo(cs, j) == \E i \in 1 .. j : j - i + 1 >= StreakThreshold /\ QuietRun(cs, i, j)

(* What the count knows after k bars: s is the number of quiet bars that   *)
(* end there, and the flags are those of the runs that ended before.       *)
CountsTo(cs, k, s) ==
  /\ s \in 0 .. k
  /\ \A i \in k - s + 1 .. k : cs[i].volume = 0
  /\ s < k => cs[k - s].volume # 0

LEMMA CountMeetsThreshold ==
  ASSUME NEW cs \in Seq(Quotes), NEW k \in 0 .. Len(cs), NEW s, CountsTo(cs, k, s),
         k < Len(cs) => cs[k + 1].volume # 0
  PROVE  (k >= 1 /\ LongRunTo(cs, k)) <=> s >= StreakThreshold
<1>1. StreakThreshold \in Nat \ {0} /\ Len(cs) \in Nat /\ s \in 0 .. k
  BY RulesAssumption DEF CountsTo
<1>2. ASSUME s >= StreakThreshold PROVE k >= 1 /\ LongRunTo(cs, k)
  <2> DEFINE i == k - s + 1
  <2>1. i \in 1 .. k /\ k - i + 1 >= StreakThreshold
    BY <1>1, <1>2
  <2>2. QuietRun(cs, i, k)
    <3>1. i > 1 => cs[i - 1].volume # 0
      <4>1. i - 1 = k - s /\ (i > 1 => s < k)
        BY <1>1
      <4> QED BY <4>1 DEF CountsTo
    <3> QED BY <3>1 DEF QuietRun, CountsTo
  <2> HIDE DEF i
  <2> QED BY <1>1, <2>1, <2>2 DEF LongRunTo
<1>3. ASSUME k >= 1, LongRunTo(cs, k) PROVE s >= StreakThreshold
  <2>1. PICK i \in 1 .. k : k - i + 1 >= StreakThreshold /\ QuietRun(cs, i, k)
    BY <1>3 DEF LongRunTo
  <2>2. SUFFICES ASSUME s < k - i + 1 PROVE FALSE
    BY <1>1, <2>1
  <2>3. k - s \in i .. k /\ s < k
    BY <1>1, <2>1, <2>2
  <2>4. cs[k - s].volume = 0
    BY <2>1, <2>3 DEF QuietRun
  <2> QED BY <2>3, <2>4 DEF CountsTo
<1> QED BY <1>2, <1>3

LEMMA MinOfTwo ==
  ASSUME NEW a \in Int, NEW b \in Int
  PROVE  Min({a, b}) = IF a <= b THEN a ELSE b
<1> DEFINE m == IF a <= b THEN a ELSE b
<1>1. m \in {a, b} /\ \A y \in {a, b} : m <= y
  OBVIOUS
<1>2. \A x \in {a, b} : (\A y \in {a, b} : x <= y) => x = m
  OBVIOUS
<1> QED BY <1>1, <1>2 DEF Min

(* Each long run is flagged on the bar that ends it, or on the last one,   *)
(* and nothing else is.                                                    *)
LEMMA StreaksFound ==
  ASSUME NEW cs \in Seq(Quotes), Len(cs) >= 1
  PROVE  ZeroVolumeStreaks(cs) =
           {Flagged("zero_volume_streak", cs[Min({j + 1, Len(cs)})]) : j \in {i \in 1 .. Len(cs) : LongRunTo(cs, i)}}
<1> DEFINE n == Len(cs)
           flag(i) == Flagged("zero_volume_streak", cs[i])
           S == [streak : Nat, found : SUBSET StreakFlags(cs)]
           Ended(k) == {flag(j + 1) : j \in {i \in 1 .. k - 1 : LongRunTo(cs, i)}}
<1>1. n \in Nat /\ n >= 1 /\ StreakThreshold \in Nat \ {0}
  BY RulesAssumption
<1>2. PICK h \in [0 .. n -> S] :
        /\ h[0] = NoStreak /\ \A k \in 1 .. n : h[k] = StreakEndsAt(h[k - 1], cs[k])
        /\ FoldLeft(StreakEndsAt, NoStreak, cs) = h[n]
  BY FoldedStreaks
<1> DEFINE T == {k \in 0 .. n : CountsTo(cs, k, h[k].streak) /\ h[k].found = Ended(k)}
<1>3. 0 \in T
  <2>1. h[0].streak = 0 /\ h[0].found = {}
    BY <1>2 DEF NoStreak
  <2>2. CountsTo(cs, 0, 0)
    BY DEF CountsTo
  <2>3. Ended(0) = {}
    OBVIOUS
  <2>4. 0 \in 0 .. n
    BY <1>1
  <2> HIDE DEF Ended
  <2> QED BY <2>1, <2>2, <2>3, <2>4
<1>4. ASSUME NEW k \in 0 .. n - 1, k \in T PROVE k + 1 \in T
  <2> DEFINE s == h[k].streak
  <2>1. /\ k + 1 \in 0 .. n /\ k + 1 \in 1 .. n /\ (k + 1) - 1 = k /\ k \in 0 .. n /\ k < n
        /\ CountsTo(cs, k, s) /\ h[k].found = Ended(k) /\ s \in 0 .. k
    BY <1>1, <1>4 DEF CountsTo
  <2>2. h[k + 1] = StreakEndsAt(h[k], cs[k + 1]) /\ h[k] \in S
    BY <1>2, <2>1
  <2> HIDE DEF T, Ended
  <2>3. CASE cs[k + 1].volume = 0
    <3>1. h[k + 1].streak = s + 1 /\ h[k + 1].found = h[k].found
      BY <2>2, <2>3 DEF StreakEndsAt
    <3>2. CountsTo(cs, k + 1, s + 1)
      <4>1. s + 1 \in 0 .. k + 1 /\ (k + 1) - (s + 1) = k - s /\ (s + 1 < k + 1 <=> s < k)
        BY <2>1
      <4>2. \A i \in (k + 1) - (s + 1) + 1 .. k + 1 : i = k + 1 \/ i \in k - s + 1 .. k
        BY <2>1
      <4> QED BY <2>1, <2>3, <4>1, <4>2 DEF CountsTo
    <3>3. Ended(k + 1) = Ended(k)
      <4>1. ~LongRunTo(cs, k)
        BY <2>1, <2>3 DEF LongRunTo, QuietRun
      <4>2. \A i \in 1 .. (k + 1) - 1 : i = k \/ i \in 1 .. k - 1
        BY <2>1
      <4>3. \A i \in 1 .. k - 1 : i \in 1 .. (k + 1) - 1
        BY <2>1
      <4> QED BY <4>1, <4>2, <4>3 DEF Ended
    <3> QED BY <2>1, <3>1, <3>2, <3>3 DEF T
  <2>4. CASE cs[k + 1].volume # 0
    <3>1. /\ h[k + 1].streak = 0
          /\ h[k + 1].found = IF s >= StreakThreshold THEN h[k].found \cup {flag(k + 1)} ELSE h[k].found
      BY <2>2, <2>4 DEF StreakEndsAt
    <3>2. CountsTo(cs, k + 1, 0)
      BY <2>1, <2>4 DEF CountsTo
    <3>3. (k >= 1 /\ LongRunTo(cs, k)) <=> s >= StreakThreshold
      BY <2>1, <2>4, CountMeetsThreshold
    <3>4. \A i : i \in 1 .. (k + 1) - 1 <=> i \in 1 .. k - 1 \/ (i = k /\ k >= 1)
      BY <2>1
    <3>5. Ended(k + 1) = IF s >= StreakThreshold THEN Ended(k) \cup {flag(k + 1)} ELSE Ended(k)
      BY <3>3, <3>4 DEF Ended
    <3> QED BY <2>1, <3>1, <3>2, <3>5 DEF T
  <2> QED BY <2>3, <2>4
<1> HIDE DEF T
<1>5. n \in T
  <2>1. 0 .. n \subseteq T
    BY <1>1, <1>3, <1>4, InductionTo
  <2> QED BY <1>1, <2>1
<1>6. CountsTo(cs, n, h[n].streak) /\ h[n].found = Ended(n)
  BY <1>5 DEF T
<1>7. LongRunTo(cs, n) <=> h[n].streak >= StreakThreshold
  BY <1>1, <1>6, CountMeetsThreshold
<1>8. ZeroVolumeStreaks(cs) = Ended(n) \cup (IF LongRunTo(cs, n) THEN {flag(n)} ELSE {})
  BY <1>2, <1>6, <1>7 DEF ZeroVolumeStreaks, Last, NoStreak
<1>9. \A j \in 1 .. n : Min({j + 1, n}) = IF j = n THEN n ELSE j + 1
  BY <1>1, MinOfTwo
<1>10. \A j : j \in 1 .. n <=> j \in 1 .. n - 1 \/ j = n
  BY <1>1
<1>11. \A j \in 1 .. n - 1 : j # n
  BY <1>1
<1> HIDE DEF n, flag
<1>12. ZeroVolumeStreaks(cs) = {flag(Min({j + 1, n})) : j \in {i \in 1 .. n : LongRunTo(cs, i)}}
  <2>1. ASSUME NEW x, x \in ZeroVolumeStreaks(cs)
        PROVE  x \in {flag(Min({j + 1, n})) : j \in {i \in 1 .. n : LongRunTo(cs, i)}}
    <3>1. CASE x \in Ended(n)
      <4>1. PICK j \in 1 .. n - 1 : LongRunTo(cs, j) /\ x = flag(j + 1)
        BY <3>1
      <4> QED BY <1>9, <1>10, <1>11, <4>1
    <3>2. CASE x = flag(n) /\ LongRunTo(cs, n)
      BY <1>9, <1>10, <3>2
    <3> QED BY <1>8, <2>1, <3>1, <3>2
  <2>2. ASSUME NEW j \in 1 .. n, LongRunTo(cs, j) PROVE flag(Min({j + 1, n})) \in ZeroVolumeStreaks(cs)
    <3>1. CASE j = n
      BY <1>8, <1>9, <2>2, <3>1
    <3>2. CASE j # n
      BY <1>8, <1>9, <1>10, <2>2, <3>2
    <3> QED BY <3>1, <3>2
  <2> QED BY <2>1, <2>2
<1> QED BY <1>12 DEF n, flag
-----------------------------------------------------------------------------
(* The variance of a window by its definition and by the sum of squares:   *)
(* the sum of (n r - S)^2 is n times n * squares - S^2.                    *)
Expansion(n, t, k, d, q, s) == d = n * (n * q) - 2 * (t * (n * s)) + k * (t * t)

LEMMA DeviationTurn ==
  ASSUME NEW n \in Int, NEW t \in Int, NEW k \in Int, NEW x \in Int, NEW d \in Int, NEW q \in Int, NEW s \in Int,
         Expansion(n, t, k, d, q, s)
  PROVE  Expansion(n, t, k + 1, d + (n * x - t) * (n * x - t), q + x * x, s + x)
<1> DEFINE y == n * x
           u == n * q
           v == n * s
<1>1. y \in Int /\ u \in Int /\ v \in Int
  OBVIOUS
<1>2. n * (q + x * x) = u + y * x /\ n * (s + x) = v + y
  OBVIOUS
<1>3. n * (u + y * x) = n * u + y * y
  OBVIOUS
<1>4. t * (v + y) = t * v + t * y
  BY <1>1
<1>5. (y - t) * (y - t) = y * y - 2 * (t * y) + t * t
  BY <1>1
<1>6. (k + 1) * (t * t) = k * (t * t) + t * t
  OBVIOUS
<1>7. n * u \in Int /\ t * v \in Int /\ t * y \in Int /\ y * y \in Int /\ t * t \in Int /\ k * (t * t) \in Int
  BY <1>1
<1> HIDE DEF y, u, v
<1>8. d = n * u - 2 * (t * v) + k * (t * t)
  BY DEF Expansion, u, v
<1>9. d + (y - t) * (y - t) = n * (u + y * x) - 2 * (t * (v + y)) + (k + 1) * (t * t)
  BY <1>1, <1>3, <1>4, <1>5, <1>6, <1>7, <1>8
<1> QED BY <1>2, <1>9, Zenon DEF Expansion, y

LEMMA DeviationsAndSquares ==
  ASSUME NEW b \in Seq(Int), NEW n \in Nat, Len(b) = n, NEW total \in Int, total = AddUp(b)
  PROVE  /\ AddUp([i \in DOMAIN b |-> (n * b[i] - total) * (n * b[i] - total)])
              = n * (n * AddUp([i \in DOMAIN b |-> b[i] * b[i]]) - total * total)
         /\ AddUp([i \in DOMAIN b |-> b[i] * b[i]]) \in Int
<1> DEFINE dev == [i \in DOMAIN b |-> (n * b[i] - total) * (n * b[i] - total)]
           sq  == [i \in DOMAIN b |-> b[i] * b[i]]
<1>1. DOMAIN b = 1 .. n /\ \A i \in 1 .. n : b[i] \in Int
  OBVIOUS
<1>2. dev \in Seq(Int) /\ Len(dev) = n /\ \A i \in 1 .. n : dev[i] = (n * b[i] - total) * (n * b[i] - total)
  <2>1. \A i \in 1 .. n : (n * b[i] - total) * (n * b[i] - total) \in Int
    BY <1>1
  <2>2. dev \in [1 .. n -> Int]
    BY <1>1, <2>1
  <2>3. \A i \in 1 .. n : dev[i] = (n * b[i] - total) * (n * b[i] - total)
    BY <1>1
  <2> HIDE DEF dev
  <2> QED BY <2>2, <2>3, SeqOfFunction
<1>3. sq \in Seq(Int) /\ Len(sq) = n /\ \A i \in 1 .. n : sq[i] = b[i] * b[i]
  <2>1. \A i \in 1 .. n : b[i] * b[i] \in Int
    BY <1>1
  <2>2. sq \in [1 .. n -> Int]
    BY <1>1, <2>1
  <2>3. \A i \in 1 .. n : sq[i] = b[i] * b[i]
    BY <1>1
  <2> HIDE DEF sq
  <2> QED BY <2>2, <2>3, SeqOfFunction
<1> HIDE DEF dev, sq
<1>4. PICK s \in [0 .. n -> Int] :
        s[0] = 0 /\ (\A k \in 1 .. n : s[k] = s[k - 1] + b[k]) /\ AddUp(b) = s[n]
  BY FoldedSum
<1>5. PICK q \in [0 .. n -> Int] :
        q[0] = 0 /\ (\A k \in 1 .. n : q[k] = q[k - 1] + sq[k]) /\ AddUp(sq) = q[n]
  BY <1>3, FoldedSum
<1>6. PICK d \in [0 .. n -> Int] :
        d[0] = 0 /\ (\A k \in 1 .. n : d[k] = d[k - 1] + dev[k]) /\ AddUp(dev) = d[n]
  BY <1>2, FoldedSum
<1> DEFINE Expanded(k) == Expansion(n, total, k, d[k], q[k], s[k])
           T == {k \in 0 .. n : Expanded(k)}
<1>7. 0 \in T
  <2>1. n * (n * 0) = 0 /\ 2 * (total * (n * 0)) = 0 /\ 0 * (total * total) = 0 /\ 0 \in 0 .. n
    OBVIOUS
  <2> QED BY <1>4, <1>5, <1>6, <2>1 DEF Expansion
<1>8. ASSUME NEW k \in 0 .. n - 1, k \in T PROVE k + 1 \in T
  <2>1. k + 1 \in 1 .. n /\ k + 1 \in 0 .. n /\ (k + 1) - 1 = k /\ k \in 0 .. n /\ k \in Int /\ Expanded(k)
    BY <1>8
  <2>2. /\ d[k + 1] = d[k] + (n * b[k + 1] - total) * (n * b[k + 1] - total)
        /\ q[k + 1] = q[k] + b[k + 1] * b[k + 1]
        /\ s[k + 1] = s[k] + b[k + 1]
    BY <1>2, <1>3, <1>4, <1>5, <1>6, <2>1
  <2>3. d[k] \in Int /\ q[k] \in Int /\ s[k] \in Int /\ b[k + 1] \in Int
    BY <1>1, <2>1
  <2>4. Expansion(n, total, k + 1, d[k] + (n * b[k + 1] - total) * (n * b[k + 1] - total),
                  q[k] + b[k + 1] * b[k + 1], s[k] + b[k + 1])
    <3>1. n \in Int /\ total \in Int /\ k \in Int
      OBVIOUS
    <3> QED BY <2>1, <2>3, <3>1, DeviationTurn, Zenon
  <2> QED BY <2>1, <2>2, <2>4
<1> HIDE DEF T
<1>9. n \in T
  <2>1. 0 .. n \subseteq T
    BY <1>7, <1>8, InductionTo
  <2> QED BY <2>1
<1>10. d[n] = n * (n * q[n]) - 2 * (total * (n * total)) + n * (total * total)
  BY <1>4, <1>9 DEF T, Expansion
<1>11. d[n] = n * (n * q[n] - total * total) /\ q[n] \in Int
  <2> DEFINE z == total * total
             u == n * q[n]
  <2>1. q[n] \in Int /\ z \in Int /\ u \in Int
    BY <1>5
  <2>2. total * (n * total) = n * z
    OBVIOUS
  <2>3. n * (u - z) = n * u - n * z
    BY <2>1
  <2>4. n * u \in Int /\ n * z \in Int
    BY <2>1
  <2>5. d[n] = n * u - 2 * (n * z) + n * z
    BY <1>10, <2>2, Zenon
  <2>6. d[n] = n * (u - z)
    <3> HIDE DEF z, u
    <3> QED BY <2>3, <2>4, <2>5
  <2> QED BY <2>1, <2>6
<1> QED BY <1>5, <1>6, <1>11 DEF dev, sq

(* n times both sides. *)
LEMMA SameComparison ==
  ASSUME NEW n \in Nat \ {0}, NEW x \in Int, NEW c \in Int, NEW r \in Int
  PROVE  /\ n * x > 0 <=> x > 0
         /\ r * r * n * n * n > c * c * (n * x) <=> r * r * n * n > c * c * x
<1>1. \A y, z \in Int : n * y > n * z <=> y > z
  <2>1. \A y, z \in Int : y > z => n * y > n * z
    <3> SUFFICES ASSUME NEW y \in Int, NEW z \in Int, y > z PROVE n * y > n * z
      OBVIOUS
    <3>1. y - z - 1 \in Nat /\ n * (y - z - 1) \in Nat
      OBVIOUS
    <3>2. n * y = n * z + n + n * (y - z - 1)
      OBVIOUS
    <3>3. n * y \in Int /\ n * z \in Int
      OBVIOUS
    <3> QED BY <3>1, <3>2, <3>3
  <2>2. \A y, z \in Int : y <= z => n * y <= n * z
    <3> SUFFICES ASSUME NEW y \in Int, NEW z \in Int, y <= z PROVE n * y <= n * z
      OBVIOUS
    <3>1. z - y \in Nat /\ n * (z - y) \in Nat
      OBVIOUS
    <3>2. n * z = n * y + n * (z - y)
      OBVIOUS
    <3>3. n * y \in Int /\ n * z \in Int
      OBVIOUS
    <3> QED BY <3>1, <3>2, <3>3
  <2>3. \A y, z \in Int : n * y \in Int /\ n * z \in Int /\ (y > z \/ y <= z)
    OBVIOUS
  <2> QED BY <2>1, <2>2, <2>3
<1>2. n * x > 0 <=> x > 0
  <2>1. n * 0 = 0
    OBVIOUS
  <2> QED BY <1>1, <2>1
<1>3. r * r * n * n * n > c * c * (n * x) <=> r * r * n * n > c * c * x
  <2> DEFINE y == r * r * n * n
             z == c * c * x
  <2>1. y \in Int /\ z \in Int
    OBVIOUS
  <2>2. r * r * n * n * n = n * y
    OBVIOUS
  <2>3. c * c * (n * x) = n * z
    <3>1. c * c \in Int
      OBVIOUS
    <3>2. (c * c) * (n * x) = n * ((c * c) * x)
      BY <3>1
    <3> QED BY <3>2
  <2> HIDE DEF y, z
  <2>4. n * y > n * z <=> y > z
    BY <1>1, <2>1
  <2> QED BY <2>2, <2>3, <2>4 DEF y, z
<1> QED BY <1>2, <1>3

LEMMA QuoteReturn ==
  ASSUME NEW p \in Quotes, NEW c \in Quotes
  PROVE  CloseReturn(p, c) \in Int
<1>1. p.close \in Nat /\ c.close \in Nat /\ ReturnUnit \in Nat
  BY RulesAssumption DEF Quotes
<1>2. CASE p.close = 0
  BY <1>2 DEF CloseReturn
<1>3. CASE p.close # 0
  <2>1. (c.close - p.close) * ReturnUnit \in Int
    BY <1>1
  <2>2. \A x \in Int : x \div p.close \in Int
    BY <1>1, <1>3
  <2> QED BY <1>3, <2>1, <2>2 DEF CloseReturn
<1> QED BY <1>2, <1>3

(* A move is flagged exactly on the bars that jump. *)
LEMMA MovesFound ==
  ASSUME NEW cs \in Seq(Quotes), Len(cs) >= 2
  PROVE  PriceMoves(cs) = {Flagged("price_move_sigma", cs[k]) : k \in {j \in MoveWindow + 2 .. Len(cs) : Jump(cs, j)}}
<1> DEFINE N == Len(cs)
           n == MoveWindow
           returns == [k \in 1 .. N - 1 |-> CloseReturn(cs[k], cs[k + 1])]
           spreadOf(base) == LET t == AddUp(base)
                             IN  AddUp([i \in DOMAIN base |-> (n * base[i] - t) * (n * base[i] - t)])
           moved(j) == LET s == spreadOf(Baseline(returns, j)) IN
                         s > 0 /\ returns[j] * returns[j] * n * n * n > Sigma * Sigma * s
<1>1. N \in Nat /\ N >= 2 /\ n \in Nat \ {0} /\ Sigma \in Int
  BY RulesAssumption
<1>2. returns \in Seq(Int) /\ Len(returns) = N - 1 /\ \A k \in 1 .. N - 1 : returns[k] = CloseReturn(cs[k], cs[k + 1])
  <2>1. ASSUME NEW k \in 1 .. N - 1 PROVE CloseReturn(cs[k], cs[k + 1]) \in Int
    <3>1. k \in 1 .. N /\ k + 1 \in 1 .. N
      BY <1>1
    <3>2. cs[k] \in Quotes /\ cs[k + 1] \in Quotes
      BY <3>1
    <3> QED BY <3>2, QuoteReturn
  <2>2. returns \in [1 .. N - 1 -> Int]
    BY <2>1
  <2>3. N - 1 \in Nat /\ \A k \in 1 .. N - 1 : returns[k] = CloseReturn(cs[k], cs[k + 1])
    BY <1>1
  <2> HIDE DEF returns, N
  <2> QED BY <2>2, <2>3, SeqOfFunction
<1>3. PriceMoves(cs) = {Flagged("price_move_sigma", cs[k + 1]) : k \in {j \in n + 1 .. N - 1 : moved(j)}}
  BY Zenon DEF PriceMoves
<1> HIDE DEF returns
<1>4. ASSUME NEW j \in n + 1 .. N - 1 PROVE moved(j) <=> Jump(cs, j + 1)
  <2> DEFINE base == Baseline(returns, j)
             r(i)  == CloseReturn(cs[i - 1], cs[i])
             mine  == [i \in 1 .. n |-> r((j + 1) - n - 1 + i)]
             t     == AddUp(base)
             sq    == AddUp([i \in DOMAIN base |-> base[i] * base[i]])
  <2>1. /\ j \in 1 .. N - 1 /\ j - n \in 1 .. N - 1 /\ j - 1 \in 1 .. N - 1
        /\ (j - 1) - (j - n) + 1 = n
    BY <1>1
  <2>2. base \in Seq(Int) /\ Len(base) = n /\ \A i \in 1 .. n : base[i] = returns[j - n + i - 1]
    <3>1. base = SubSeq(returns, j - n, j - 1)
      BY DEF Baseline
    <3>2. /\ SubSeq(returns, j - n, j - 1) \in Seq(Int)
          /\ Len(SubSeq(returns, j - n, j - 1)) = n
          /\ \A i \in 1 .. n : SubSeq(returns, j - n, j - 1)[i] = returns[(j - n) + i - 1]
      <4> HIDE DEF N, n
      <4> QED BY <1>1, <1>2, <2>1
    <3> QED BY <3>1, <3>2
  <2>3. mine = base
    <3>1. ASSUME NEW i \in 1 .. n PROVE r((j + 1) - n - 1 + i) = base[i]
      <4>1. j - n + i - 1 \in 1 .. N - 1 /\ (j + 1) - n - 1 + i = (j - n + i - 1) + 1 /\ ((j + 1) - n - 1 + i) - 1 = j - n + i - 1
        BY <1>1
      <4>2. base[i] = CloseReturn(cs[j - n + i - 1], cs[(j - n + i - 1) + 1])
        BY <1>2, <2>2, <4>1
      <4> QED BY <4>1, <4>2
    <3>2. base = [i \in 1 .. n |-> base[i]]
      BY <2>2
    <3> HIDE DEF base, r
    <3> QED BY <3>1, <3>2
  <2>4. r(j + 1) = returns[j] /\ returns[j] \in Int
    <3>1. (j + 1) - 1 = j
      OBVIOUS
    <3> QED BY <1>2, <2>1, <3>1
  <2>5. Jump(cs, j + 1) <=> (n * sq - t * t > 0 /\ returns[j] * returns[j] * n * n > Sigma * Sigma * (n * sq - t * t))
    <3>1. Jump(cs, j + 1) <=>
            (LET squares == AddUp([i \in DOMAIN mine |-> mine[i] * mine[i]])
                 total   == AddUp(mine)
                 spread  == n * squares - total * total
             IN  spread > 0 /\ r(j + 1) * r(j + 1) * n * n > Sigma * Sigma * spread)
      BY Zenon DEF Jump
    <3> HIDE DEF mine, r, base, n
    <3> QED BY <2>3, <2>4, <3>1
  <2> HIDE DEF base
  <2>6. t \in Int
    <3>1. PICK h \in [0 .. Len(base) -> Int] : AddUp(base) = h[Len(base)]
      BY <2>2, FoldedSum
    <3>2. Len(base) \in 0 .. Len(base)
      BY <2>2, <1>1
    <3> QED BY <3>1, <3>2
  <2>7. spreadOf(base) = n * (n * sq - t * t) /\ sq \in Int
    BY <1>1, <2>2, <2>6, DeviationsAndSquares
  <2> HIDE DEF t, sq
  <2>8. n * sq - t * t \in Int
    BY <1>1, <2>6, <2>7
  <2>9. moved(j) <=> (n * (n * sq - t * t) > 0 /\ returns[j] * returns[j] * n * n * n > Sigma * Sigma * (n * (n * sq - t * t)))
    BY <2>7 DEF base
  <2> DEFINE x == n * sq - t * t
  <2> HIDE DEF x
  <2>10. moved(j) <=> (n * x > 0 /\ returns[j] * returns[j] * n * n * n > Sigma * Sigma * (n * x))
    BY <2>9 DEF x
  <2>11. Jump(cs, j + 1) <=> (x > 0 /\ returns[j] * returns[j] * n * n > Sigma * Sigma * x)
    BY <2>5 DEF x
  <2>12. x \in Int
    BY <2>8 DEF x
  <2> HIDE DEF moved, n
  <2> QED BY <1>1, <2>4, <2>10, <2>11, <2>12, SameComparison
<1> HIDE DEF moved
<1>5. \A k \in n + 2 .. N : k - 1 \in n + 1 .. N - 1 /\ (k - 1) + 1 = k
  BY <1>1
<1>6. \A j \in n + 1 .. N - 1 : j + 1 \in n + 2 .. N
  BY <1>1
<1> HIDE DEF n, N
<1>7. {Flagged("price_move_sigma", cs[k + 1]) : k \in {j \in n + 1 .. N - 1 : moved(j)}}
        = {Flagged("price_move_sigma", cs[k]) : k \in {j \in n + 2 .. N : Jump(cs, j)}}
  <2>1. ASSUME NEW j \in n + 1 .. N - 1, moved(j)
        PROVE  \E k \in n + 2 .. N : Jump(cs, k) /\ cs[j + 1] = cs[k]
    BY <1>4, <1>6, <2>1
  <2>2. ASSUME NEW k \in n + 2 .. N, Jump(cs, k)
        PROVE  \E j \in n + 1 .. N - 1 : moved(j) /\ cs[j + 1] = cs[k]
    <3>1. k - 1 \in n + 1 .. N - 1 /\ (k - 1) + 1 = k
      BY <1>5
    <3>2. moved(k - 1) <=> Jump(cs, (k - 1) + 1)
      BY <1>4, <3>1
    <3>3. moved(k - 1)
      BY <2>2, <3>1, <3>2
    <3> QED BY <3>1, <3>3
  <2> QED BY <2>1, <2>2
<1> QED BY <1>3, <1>7 DEF n, N
-----------------------------------------------------------------------------
(* Rows in the order of their times. *)

LEMMA RankFacts ==
  ASSUME NEW S, S \subseteq Int, IsFiniteSet(S), NEW t \in S, NEW v \in S
  PROVE  /\ Rank(S, t) \in 1 .. Cardinality(S)
         /\ t < v => Rank(S, t) < Rank(S, v)
         /\ Rank(S, t) = Rank(S, v) => t = v
<1> DEFINE Upto(x) == {u \in S : u <= x}
<1>1. \A x \in S : Upto(x) \in SUBSET S /\ x \in Upto(x)
  OBVIOUS
<1>2. \A x \in S : IsFiniteSet(Upto(x)) /\ Cardinality(Upto(x)) \in Nat /\ Cardinality(Upto(x)) <= Cardinality(S)
  BY <1>1, FS_Subset, FS_CardinalityType
<1>3. \A x \in S : Cardinality(Upto(x)) # 0
  BY <1>1, <1>2, FS_EmptySet
<1>4. Cardinality(S) \in Nat
  BY FS_CardinalityType
<1>5. ASSUME NEW x \in S, NEW y \in S, x < y PROVE Cardinality(Upto(x)) < Cardinality(Upto(y))
  <2>1. Upto(x) \in SUBSET Upto(y) /\ y \notin Upto(x)
    <3>1. x \in Int /\ y \in Int /\ \A u \in S : u \in Int
      OBVIOUS
    <3>2. \A u \in S : u <= x => u <= y
      BY <1>5, <3>1
    <3>3. ~(y <= x)
      BY <1>5, <3>1
    <3>4. Upto(x) \subseteq Upto(y)
      BY <3>2
    <3> QED BY <3>3, <3>4
  <2>2. Upto(x) # Upto(y)
    BY <1>1, <2>1
  <2>3. /\ Cardinality(Upto(x)) <= Cardinality(Upto(y))
        /\ Cardinality(Upto(y)) = Cardinality(Upto(x)) => Upto(y) = Upto(x)
    BY <1>2, <2>1, FS_Subset
  <2> QED BY <1>2, <2>2, <2>3
<1>6. \A x \in S : Rank(S, x) = Cardinality(Upto(x))
  BY DEF Rank
<1> HIDE DEF Upto
<1>7. t \in Int /\ v \in Int
  OBVIOUS
<1> QED BY <1>2, <1>3, <1>4, <1>5, <1>6, <1>7

(* In a finite set of integers there is one of every rank. *)
Within(S, a, b) == S \subseteq a .. b

LEMMA EveryRank ==
  ASSUME NEW a \in Int, NEW b \in Int, NEW S, Within(S, a, b)
  PROVE  \A i \in 1 .. Cardinality(S) : \E t \in S : Rank(S, t) = i
<1> DEFINE Part(k) == {u \in S : u < a + k}
           Listed(P) == \A i \in 1 .. Cardinality(P) : \E t \in P : Rank(P, t) = i
           K == IF a <= b THEN b - a + 1 ELSE 0
           T == {k \in 0 .. K : Listed(Part(k))}
<1>1. (\A u \in S : u \in Int /\ a <= u /\ u <= b) /\ IsFiniteSet(S)
  <2>1. IsFiniteSet(a .. b) /\ S \in SUBSET (a .. b)
    BY FS_Interval DEF Within
  <2>2. \A u \in S : u \in Int /\ a <= u /\ u <= b
    BY DEF Within
  <2>3. IsFiniteSet(S)
    BY <2>1, FS_Subset, Zenon
  <2> QED BY <2>2, <2>3
<1>2. \A k \in Nat : IsFiniteSet(Part(k)) /\ Cardinality(Part(k)) \in Nat
  <2>1. \A k \in Nat : Part(k) \in SUBSET S
    OBVIOUS
  <2> QED BY <1>1, <2>1, FS_Subset, FS_CardinalityType
<1>3. K \in Nat
  OBVIOUS
<1>4. 0 \in T
  <2>1. Part(0) = {}
    <3>1. \A u \in S : ~(u < a + 0)
      BY <1>1
    <3> QED BY <3>1
  <2>2. Cardinality({}) = 0
    BY FS_EmptySet
  <2>3. Listed({})
    BY <2>2
  <2>4. 0 \in 0 .. K
    BY <1>3
  <2> HIDE DEF Listed, Part, K
  <2> QED BY <2>1, <2>3, <2>4
<1>5. ASSUME NEW k \in 0 .. K - 1, k \in T PROVE k + 1 \in T
  <2>1. k \in Nat /\ k + 1 \in 0 .. K /\ Listed(Part(k))
    BY <1>3, <1>5
  <2>2. CASE a + k \notin S
    <3>1. Part(k + 1) = Part(k)
      <4>1. \A u \in S : u < a + (k + 1) <=> u < a + k
        BY <1>1, <2>1, <2>2
      <4> QED BY <4>1
    <3> HIDE DEF Listed, Part
    <3> QED BY <2>1, <3>1
  <2>3. CASE a + k \in S
    <3> DEFINE x == a + k
               P == Part(k)
               Q == Part(k + 1)
    <3>1. Q = P \cup {x} /\ x \notin P
      <4>1. \A u \in S : u < a + (k + 1) <=> u < a + k \/ u = x
        BY <1>1, <2>1
      <4>2. ~(x < a + k)
        BY <2>1
      <4> QED BY <2>3, <4>1, <4>2
    <3>2. Cardinality(Q) = Cardinality(P) + 1 /\ Cardinality(P) \in Nat
      <4>1. IsFiniteSet(P) /\ Cardinality(P) \in Nat
        BY <1>2, <2>1
      <4> HIDE DEF P, Q, x
      <4>2. Cardinality(P \cup {x}) = Cardinality(P) + 1
        BY <3>1, <4>1, FS_AddElement
      <4> QED BY <3>1, <4>1, <4>2
    <3>3. ASSUME NEW i \in 1 .. Cardinality(Q) PROVE \E t \in Q : Rank(Q, t) = i
      <4>1. CASE i = Cardinality(Q)
        <5>1. \A u \in Q : u <= x
          BY <1>1, <2>1
        <5>3. {u \in Q : u <= x} = Q
          <6> HIDE DEF Q, x
          <6> QED BY <5>1
        <5>2. Rank(Q, x) = i
          BY <4>1, <5>3 DEF Rank
        <5> QED BY <3>1, <5>2
      <4>2. CASE i # Cardinality(Q)
        <5>1. i \in 1 .. Cardinality(P)
          BY <3>2, <4>2
        <5>2. PICK t \in P : Rank(P, t) = i
          BY <2>1, <5>1
        <5>3. {u \in Q : u <= t} = {u \in P : u <= t}
          <6>1. ~(x <= t)
            BY <1>1, <2>1
          <6> HIDE DEF Q, x, P
          <6> QED BY <3>1, <6>1
        <5> QED BY <3>1, <5>2, <5>3 DEF Rank
      <4> QED BY <4>1, <4>2
    <3> QED BY <2>1, <3>3
  <2> QED BY <2>2, <2>3
<1> HIDE DEF T
<1>6. K \in T
  <2>1. 0 .. K \subseteq T
    BY <1>3, <1>4, <1>5, InductionTo
  <2> QED BY <1>3, <2>1
<1>7. Part(K) = S
  <2>1. \A u \in S : u < a + K
    BY <1>1
  <2> HIDE DEF K
  <2> QED BY <2>1
<1> HIDE DEF Part, K
<1> QED BY <1>6, <1>7 DEF T

(* So it is for every interval that divides the time from the epoch to its *)
(* bars: a week starts on Monday, the epoch was a Thursday.                *)
VenueOnGrid == \A t \in DOMAIN Venue : IsAligned(t)

(* What every row of the table keeps. *)
Row(t, c) == t \in Nat /\ (VenueOnGrid => IsAligned(t)) /\ c \in Quotes /\ c.open_time = t /\ Storable(c)
TableOK == \A t \in DOMAIN candle : Row(t, candle[t])

(* The rows of a window are its stored times in ascending order. *)
LEMMA RowsInOrder ==
  ASSUME TableOK, NEW w, w[1] \in Int, w[2] \in Int
  PROVE  \E n \in Nat : \E at \in [1 .. n -> TimesOf(w)] :
           /\ \A i, j \in 1 .. n : i < j => at[i] < at[j]
           /\ \A t \in TimesOf(w) : \E i \in 1 .. n : at[i] = t
           /\ RowsOf(w) \in Seq(Quotes) /\ Len(RowsOf(w)) = n
           /\ \A i \in 1 .. n : RowsOf(w)[i] = candle[at[i]] /\ RowsOf(w)[i].open_time = at[i]
<1> DEFINE S == TimesOf(w)
           n == Cardinality(S)
           nth(i) == CHOOSE t \in S : Rank(S, t) = i
           at == [i \in 1 .. n |-> nth(i)]
           rows == RowsOf(w)
<1>1. S \subseteq w[1] .. w[2] /\ \A t \in S : t \in DOMAIN candle /\ Row(t, candle[t])
  BY DEF TimesOf, TableOK, Row
<1>2. IsFiniteSet(S) /\ S \subseteq Int /\ n \in Nat
  <2>1. IsFiniteSet(w[1] .. w[2])
    BY FS_Interval
  <2> QED BY <1>1, <2>1, FS_Subset, FS_CardinalityType
<1>3. \A i \in 1 .. n : \E t \in S : Rank(S, t) = i
  <2> HIDE DEF S
  <2>1. Within(S, w[1], w[2])
    BY <1>1 DEF Within
  <2> QED BY <2>1, EveryRank
<1>4. \A i \in 1 .. n : at[i] \in S /\ Rank(S, at[i]) = i
  BY <1>3
<1>5. rows = [i \in 1 .. n |-> candle[at[i]]]
  <2>1. rows = [i \in 1 .. n |-> candle[nth(i)]]
    BY Zenon DEF RowsOf
  <2> HIDE DEF nth, S, n, rows
  <2>2. \A i \in 1 .. n : at[i] = nth(i)
    OBVIOUS
  <2> HIDE DEF at
  <2> QED BY <2>1, <2>2
<1>6. at \in [1 .. n -> S]
  BY <1>4
<1> HIDE DEF at, S, n, rows
<1>7. ASSUME NEW i \in 1 .. n, NEW j \in 1 .. n, i < j PROVE at[i] < at[j]
  <2>1. at[i] \in Int /\ at[j] \in Int /\ Rank(S, at[i]) = i /\ Rank(S, at[j]) = j
    BY <1>2, <1>4
  <2>2. ~(at[j] < at[i])
    <3>1. at[j] < at[i] => Rank(S, at[j]) < Rank(S, at[i])
      BY <1>2, <1>4, RankFacts
    <3> QED BY <1>7, <2>1, <3>1
  <2>3. at[i] # at[j]
    BY <1>7, <2>1
  <2> QED BY <2>1, <2>2, <2>3
<1>8. ASSUME NEW t \in S PROVE \E i \in 1 .. n : at[i] = t
  <2>1. Rank(S, t) \in 1 .. n
    BY <1>2, RankFacts DEF n
  <2>2. at[Rank(S, t)] \in S /\ Rank(S, at[Rank(S, t)]) = Rank(S, t)
    BY <1>4, <2>1
  <2>3. at[Rank(S, t)] = t
    BY <1>2, <2>2, RankFacts
  <2> QED BY <2>1, <2>3
<1>9. \A i \in 1 .. n : rows[i] = candle[at[i]] /\ candle[at[i]] \in Quotes /\ candle[at[i]].open_time = at[i]
  BY <1>1, <1>4, <1>5 DEF Row
<1>10. rows \in Seq(Quotes) /\ Len(rows) = n
  <2>1. rows \in [1 .. n -> Quotes]
    BY <1>5, <1>9
  <2> QED BY <1>2, <2>1, SeqOfFunction
<1>11. \E m \in Nat : \E f \in [1 .. m -> S] :
           /\ \A i, j \in 1 .. m : i < j => f[i] < f[j]
           /\ \A t \in S : \E i \in 1 .. m : f[i] = t
           /\ rows \in Seq(Quotes) /\ Len(rows) = m
           /\ \A i \in 1 .. m : rows[i] = candle[f[i]] /\ rows[i].open_time = f[i]
  <2>1. \A i, j \in 1 .. n : i < j => at[i] < at[j]
    BY <1>7
  <2>2. \A t \in S : \E i \in 1 .. n : at[i] = t
    BY <1>8
  <2>3. \A i \in 1 .. n : rows[i] = candle[at[i]] /\ rows[i].open_time = at[i]
    BY <1>9
  <2> QED BY <1>2, <1>6, <1>10, <2>1, <2>2, <2>3, Zenon
<1> QED BY <1>11 DEF S, rows
-----------------------------------------------------------------------------
(* Which rule a violation is of. *)
LEMMA OwnRules ==
  ASSUME NEW c, NEW v \in ValidateCandle(c)
  PROVE  v.check \in {"ohlc_invariant", "volume_nonneg", "timestamp_alignment"}
BY DEF ValidateCandle, Quarantined, Violation

LEMMA SuiteByRule ==
  ASSUME NEW cs \in Seq(Quotes)
  PROVE  /\ \A v \in Violations(cs) :
              \/ \E i \in 1 .. Len(cs) : v \in ValidateCandle(cs[i])
              \/ /\ Len(cs) >= 2
                 /\ \/ v.check = "zero_volume_streak" /\ v \in ZeroVolumeStreaks(cs)
                    \/ v.check = "price_move_sigma" /\ v \in PriceMoves(cs)
                    \/ \E i \in 1 .. Len(cs) - 1 : v \in PairRules(cs[i], cs[i + 1])
         /\ Len(cs) >= 2 => /\ ZeroVolumeStreaks(cs) \subseteq Violations(cs)
                            /\ PriceMoves(cs) \subseteq Violations(cs)
                            /\ \A i \in 1 .. Len(cs) - 1 : PairRules(cs[i], cs[i + 1]) \subseteq Violations(cs)
         /\ Len(cs) >= 2 => /\ \A v \in ZeroVolumeStreaks(cs) : v.check = "zero_volume_streak"
                            /\ \A v \in PriceMoves(cs) : v.check = "price_move_sigma"
<1>1. Len(cs) \in Nat /\ ToSet(cs) = {cs[i] : i \in 1 .. Len(cs)}
  BY DEF ToSet
<1>2. ASSUME Len(cs) >= 2
      PROVE  /\ \A v \in ZeroVolumeStreaks(cs) : v.check = "zero_volume_streak"
             /\ \A v \in PriceMoves(cs) : v.check = "price_move_sigma"
  <2>1. \A v \in ZeroVolumeStreaks(cs) : v.check = "zero_volume_streak"
    <3>1. Len(cs) >= 1
      BY <1>1, <1>2
    <3>2. \A v \in ZeroVolumeStreaks(cs) : \E j \in 1 .. Len(cs) : v = Flagged("zero_volume_streak", cs[Min({j + 1, Len(cs)})])
      BY <3>1, StreaksFound
    <3>3. \A c : Flagged("zero_volume_streak", c).check = "zero_volume_streak"
      BY DEF Flagged, Violation
    <3> QED BY <3>2, <3>3
  <2>2. \A v \in PriceMoves(cs) : v.check = "price_move_sigma"
    <3>1. \A v \in PriceMoves(cs) : \E j \in MoveWindow + 2 .. Len(cs) : v = Flagged("price_move_sigma", cs[j])
      BY <1>2, MovesFound
    <3>2. \A c : Flagged("price_move_sigma", c).check = "price_move_sigma"
      BY DEF Flagged, Violation
    <3> QED BY <3>1, <3>2
  <2> QED BY <2>1, <2>2
<1>3. ValidateCandleSequence(cs) =
        IF Len(cs) < 2 THEN {}
        ELSE ZeroVolumeStreaks(cs) \cup (UNION {PairRules(cs[i], cs[i + 1]) : i \in 1 .. Len(cs) - 1}) \cup PriceMoves(cs)
  BY DEF ValidateCandleSequence
<1>4. Violations(cs) = (UNION {ValidateCandle(c) : c \in ToSet(cs)}) \cup ValidateCandleSequence(cs)
  BY DEF Violations
<1> QED BY <1>1, <1>2, <1>3, <1>4

(* The holes that the suite reports. *)
LEMMA HolesFound ==
  ASSUME NEW cs \in Seq(Quotes)
  PROVE  {v.open_time : v \in {u \in Violations(cs) : u.check = "missing_interval"}}
           = {cs[i].open_time : i \in {j \in 2 .. Len(cs) : cs[j].open_time - cs[j - 1].open_time > Step}}
<1>1. Len(cs) \in Nat /\ Step \in Nat \ {0} /\ \A i \in 1 .. Len(cs) : cs[i].open_time \in Int
  <2>1. \A c \in Quotes : c.open_time \in Int
    BY DEF Quotes
  <2> QED BY <2>1, StepAssumption
<1>2. ASSUME NEW v \in Violations(cs), v.check = "missing_interval"
      PROVE  \E j \in 2 .. Len(cs) : cs[j].open_time - cs[j - 1].open_time > Step /\ v.open_time = cs[j].open_time
  <2>1. PICK i \in 1 .. Len(cs) - 1 : v \in PairRules(cs[i], cs[i + 1])
    BY <1>2, SuiteByRule, OwnRules
  <2>2. v.open_time = cs[i + 1].open_time /\ cs[i + 1].open_time - cs[i].open_time > Step
    BY <1>2, <2>1 DEF PairRules, Flagged, Violation
  <2>3. i + 1 \in 2 .. Len(cs) /\ (i + 1) - 1 = i
    BY <1>1
  <2> QED BY <2>2, <2>3
<1>3. ASSUME NEW j \in 2 .. Len(cs), cs[j].open_time - cs[j - 1].open_time > Step
      PROVE  \E v \in Violations(cs) : v.check = "missing_interval" /\ v.open_time = cs[j].open_time
  <2>1. j - 1 \in 1 .. Len(cs) - 1 /\ (j - 1) + 1 = j /\ Len(cs) >= 2 /\ j \in 1 .. Len(cs) /\ j - 1 \in 1 .. Len(cs)
    BY <1>1
  <2>2. PairRules(cs[j - 1], cs[j]) = {Flagged("missing_interval", cs[j])}
    BY <1>1, <1>3, <2>1 DEF PairRules
  <2>3. Flagged("missing_interval", cs[j]) \in Violations(cs)
    BY <2>1, <2>2, SuiteByRule
  <2>4. /\ Flagged("missing_interval", cs[j]).check = "missing_interval"
        /\ Flagged("missing_interval", cs[j]).open_time = cs[j].open_time
    BY DEF Flagged, Violation
  <2> QED BY <2>3, <2>4
<1>4. ASSUME NEW x, x \in {v.open_time : v \in {u \in Violations(cs) : u.check = "missing_interval"}}
      PROVE  x \in {cs[i].open_time : i \in {j \in 2 .. Len(cs) : cs[j].open_time - cs[j - 1].open_time > Step}}
  BY <1>2, <1>4
<1>5. ASSUME NEW x, x \in {cs[i].open_time : i \in {j \in 2 .. Len(cs) : cs[j].open_time - cs[j - 1].open_time > Step}}
      PROVE  x \in {v.open_time : v \in {u \in Violations(cs) : u.check = "missing_interval"}}
  BY <1>3, <1>5
<1> QED BY <1>4, <1>5

(* Aligned times of an aligned window are among its expected bars. *)
LEMMA AlignedIsExpected ==
  ASSUME NEW w \in Windows, IsAligned(w[1]), NEW t \in Nat, IsAligned(t), w[1] <= t, t <= w[2]
  PROVE  \E j \in 1 .. ExpectedBars(w) : t = ExpectedBar(w, j)
<1> DEFINE p == w[1] \div Step
           q == t \div Step
<1>1. w[1] \in Nat /\ w[2] \in Nat /\ Step \in Nat \ {0}
  BY WindowsAssumption, StepAssumption
<1>2. w[1] = p * Step /\ t = q * Step /\ p \in Int /\ q \in Int
  BY <1>1 DEF IsAligned
<1>3. q - p \in Nat
  <2>1. p * Step <= q * Step <=> p <= q
    BY <1>1, <1>2, Multiples
  <2> QED BY <1>2, <2>1
<1>4. t - w[1] = (q - p) * Step
  <2>1. (q - p) * Step = q * Step - p * Step
    <3>1. \A x, y, z \in Int : (x - y) * z = x * z - y * z
      OBVIOUS
    <3> QED BY <1>1, <1>2, <3>1
  <2> QED BY <1>2, <2>1
<1> HIDE DEF p, q
<1>5. q - p <= (w[2] - w[1]) \div Step
  <2> DEFINE x == w[2] - w[1]
             y == x \div Step
  <2>1. x \in Int /\ y \in Int /\ x < y * Step + Step
    <3>1. x \in Int
      BY <1>1
    <3> HIDE DEF x
    <3> QED BY <1>1, <3>1
  <2>2. (q - p) * Step < (y + 1) * Step
    <3>1. (y + 1) * Step = y * Step + Step
      BY <1>1, <2>1, Multiples
    <3>2. (q - p) * Step <= x
      BY <1>1, <1>4
    <3>3. (q - p) * Step \in Int /\ y * Step \in Int
      BY <1>1, <1>3, <2>1
    <3> HIDE DEF x, y
    <3> QED BY <1>1, <2>1, <3>1, <3>2, <3>3
  <2> HIDE DEF x, y
  <2>3. (y + 1) * Step <= (q - p) * Step <=> y + 1 <= q - p
    BY <1>1, <1>3, <2>1, Multiples
  <2>4. (y + 1) * Step \in Int /\ (q - p) * Step \in Int
    BY <1>1, <1>3, <2>1
  <2>5. q - p <= y
    BY <1>3, <2>1, <2>2, <2>3, <2>4
  <2> QED BY <2>5 DEF x, y
<1>6. q - p + 1 \in 1 .. ExpectedBars(w)
  BY <1>1, <1>3, <1>5 DEF ExpectedBars
<1>7. t = ExpectedBar(w, q - p + 1)
  <2>1. (q - p + 1) - 1 = q - p
    BY <1>3
  <2>2. (q - p) * Step \in Int
    BY <1>1, <1>3
  <2> QED BY <1>1, <1>4, <2>1, <2>2 DEF ExpectedBar
<1> QED BY <1>6, <1>7
-----------------------------------------------------------------------------
(* The inductive invariant: every row passes the CHECKs and is kept under  *)
(* its own time, on the grid if the venue's bars are, and a page holds     *)
(* bars of the venue.                                                      *)
RowsInv == TableOK /\ page \in [Scanners -> SUBSET DOMAIN Venue]

LEMMA UpsertedRows ==
  ASSUME TableOK, NEW cs, \A c \in cs : Row(c.open_time, c), candle' = Upsert(cs)
  PROVE  TableOK'
<1>1. /\ DOMAIN candle' = DOMAIN candle \cup {c.open_time : c \in cs}
      /\ \A t \in DOMAIN candle' :
           candle'[t] = IF \E c \in cs : c.open_time = t THEN CHOOSE c \in cs : c.open_time = t ELSE candle[t]
  BY DEF Upsert
<1>2. SUFFICES ASSUME NEW t \in DOMAIN candle' PROVE Row(t, candle'[t])
  BY DEF TableOK, Row, Storable, OhlcBroken, IsAligned, VenueOnGrid
<1>3. CASE \E c \in cs : c.open_time = t
  <2>1. candle'[t] \in cs /\ candle'[t].open_time = t
    BY <1>1, <1>3
  <2> QED BY <2>1
<1>4. CASE ~\E c \in cs : c.open_time = t
  <2>1. candle'[t] = candle[t] /\ t \in DOMAIN candle
    BY <1>1, <1>4
  <2> QED BY <2>1 DEF TableOK
<1> QED BY <1>3, <1>4

LEMMA RowsStayGood == QualitySpec => []RowsInv
<1>1. QualityInit => RowsInv
  BY DEF QualityInit, RowsInv, TableOK
<1>2. RowsInv /\ [QualityNext]_qualityVars => RowsInv'
  <2> SUFFICES ASSUME RowsInv, [QualityNext]_qualityVars PROVE RowsInv'
    OBVIOUS
  <2>1. ASSUME UNCHANGED candle PROVE TableOK'
    BY <2>1 DEF RowsInv, TableOK, Row
  <2>2. \A s \in Scanners, k \in SUBSET DOMAIN Venue :
          page' = [page EXCEPT ![s] = k] => page' \in [Scanners -> SUBSET DOMAIN Venue]
    BY DEF RowsInv
  <2>3. ASSUME UNCHANGED page PROVE page' \in [Scanners -> SUBSET DOMAIN Venue]
    BY <2>3 DEF RowsInv
  <2>4. CASE UNCHANGED qualityVars
    BY <2>1, <2>3, <2>4 DEF qualityVars, scans, RowsInv
  <2>5. CASE Tick
    BY <2>1, <2>3, <2>5 DEF Tick, scans, RowsInv
  <2>6. CASE Archive
    <3>1. TableOK'
      BY <2>6 DEF Archive, RowsInv, TableOK, Row
    <3> QED BY <2>3, <2>6, <3>1 DEF Archive, scans, RowsInv
  <2>7. ASSUME NEW s \in Scanners, ScanStep(s) \/ Fail(s) PROVE RowsInv'
    <3>1. CASE Detect(s)
      BY <2>1, <2>3, <3>1 DEF Detect, RowsInv
    <3>2. CASE Record(s)
      BY <2>1, <2>3, <3>2 DEF Record, RowsInv
    <3>3. CASE Finish(s)
      BY <2>1, <2>3, <3>3 DEF Finish, RowsInv
    <3>4. CASE Skip(s)
      BY <2>1, <2>3, <3>4 DEF Skip, RowsInv
    <3>5. CASE Fetch(s)
      <4> DEFINE g == Head(gaps[s])
                 k == {t \in DOMAIN Venue : g[1] <= t /\ t <= g[2] /\ t <= clock}
      <4>1. page' = [page EXCEPT ![s] = k] /\ candle' = candle
        BY <3>5 DEF Fetch
      <4>2. k \in SUBSET DOMAIN Venue
        OBVIOUS
      <4> HIDE DEF k
      <4> QED BY <2>1, <2>2, <4>1, <4>2 DEF RowsInv
    <3>6. CASE Commit(s)
      <4> DEFINE cs == {Venue[t] : t \in page[s]}
      <4>1. page[s] \subseteq DOMAIN Venue
        BY DEF RowsInv
      <4>2. ASSUME NEW t \in page[s] PROVE Row(Venue[t].open_time, Venue[t])
        <5>1. Venue[t] \in Quotes /\ Venue[t].open_time = t /\ Storable(Venue[t])
          BY <3>6, <4>1, VenueAssumption DEF Commit
        <5>2. t \in Nat
          BY <5>1 DEF Quotes
        <5>3. VenueOnGrid => IsAligned(t)
          BY <4>1 DEF VenueOnGrid
        <5> QED BY <5>1, <5>2, <5>3 DEF Row
      <4>3. TableOK'
        <5>1. \A c \in cs : Row(c.open_time, c)
          BY <4>2
        <5>2. candle' = Upsert(cs)
          BY <3>6 DEF Commit
        <5> HIDE DEF cs
        <5> QED BY <5>1, <5>2, UpsertedRows DEF RowsInv
      <4>4. page' = [page EXCEPT ![s] = {}]
        BY <3>6 DEF Commit
      <4> QED BY <2>2, <4>3, <4>4 DEF RowsInv
    <3>7. CASE CommitRefused(s) \/ Fail(s)
      <4>1. page' = [page EXCEPT ![s] = {}] /\ candle' = candle
        BY <3>7 DEF CommitRefused, Fail, EndScan
      <4> QED BY <2>1, <2>2, <4>1 DEF RowsInv
    <3> QED BY <2>7, <3>1, <3>2, <3>3, <3>4, <3>5, <3>6, <3>7 DEF ScanStep
  <2>8. ASSUME NEW batch \in Batches, Ingest(batch) PROVE RowsInv'
    <3> DEFINE cs == {batch[i] : i \in Retained(batch)}
    <3>1. batch \in Seq(Quotes)
      BY BatchesAssumption
    <3>2. ASSUME NEW i \in Retained(batch) PROVE Row(batch[i].open_time, batch[i])
      <4>1. i \in DOMAIN batch /\ ValidateCandle(batch[i]) = {} /\ Storable(batch[i])
        BY <2>8 DEF Retained, Ingest, Accepts
      <4>2. batch[i] \in Quotes /\ batch[i].open_time \in Nat
        <5>1. batch[i] \in Quotes
          BY <3>1, <4>1
        <5> QED BY <5>1 DEF Quotes
      <4>3. IsAligned(batch[i].open_time)
        BY <4>1 DEF ValidateCandle
      <4> QED BY <4>1, <4>2, <4>3 DEF Row
    <3>3. \A c \in cs : Row(c.open_time, c)
      BY <3>2
    <3>4. candle' = Upsert(cs) /\ page' = page
      BY <2>8 DEF Ingest, scans
    <3> HIDE DEF cs
    <3>5. TableOK'
      BY <3>3, <3>4, UpsertedRows DEF RowsInv
    <3> QED BY <2>3, <3>4, <3>5 DEF RowsInv
  <2>9. ASSUME NEW batch \in Batches, IngestRefused(batch) PROVE RowsInv'
    BY <2>4, <2>9 DEF IngestRefused
  <2>10. ASSUME NEW w \in Windows, Suite(w) PROVE RowsInv'
    BY <2>1, <2>3, <2>10 DEF Suite, scans, RowsInv
  <2> QED BY <2>4, <2>5, <2>6, <2>7, <2>8, <2>9, <2>10 DEF QualityNext
<1> QED BY <1>1, <1>2, PTL DEF QualitySpec

(* A row is the first after a hole exactly when it comes more than a step  *)
(* after the row before it.                                                *)
LEMMA HoleBeforeRow ==
  ASSUME TableOK, VenueOnGrid, NEW w \in Windows, IsAligned(w[1]), NEW t \in TimesOf(w), NEW p \in TimesOf(w), p < t,
         \A u \in TimesOf(w) : u <= p \/ t <= u
  PROVE  t - p > Step <=> t \in {g[2] + Step : g \in ToSet(DetectGaps(w))}
<1> DEFINE gs == DetectGaps(w)
           n == ExpectedBars(w)
           bar(j) == ExpectedBar(w, j)
<1>1. w[1] \in Int /\ n \in Nat /\ Step \in Nat \ {0}
  BY WindowFacts, StepAssumption
<1>2. LoopInv(w, DOMAIN candle, n, gs)
  BY LoopResult DEF DetectGaps
<1>3. ASSUME NEW x \in TimesOf(w) PROVE x \in Nat /\ x \in DOMAIN candle /\ \E j \in 1 .. n : x = bar(j)
  <2>1. x \in Nat /\ x \in DOMAIN candle /\ IsAligned(x) /\ w[1] <= x /\ x <= w[2]
    BY DEF TableOK, Row, TimesOf
  <2> QED BY <2>1, AlignedIsExpected
<1>4. PICK j \in 1 .. n : t = bar(j)
  BY <1>3
<1>5. PICK i \in 1 .. n : p = bar(i)
  BY <1>3
<1>6. \A a, b \in Int : /\ bar(a) \in Int /\ bar(a + 1) = bar(a) + Step
                        /\ (bar(a) <= bar(b) <=> a <= b) /\ (bar(a) = bar(b) <=> a = b)
                        /\ (a < b => bar(a) + Step <= bar(b))
  BY <1>1, ExpectedBarFacts
<1>7. ToSet(gs) = {gs[k] : k \in 1 .. Len(gs)}
  BY <1>2 DEF LoopInv, Intervals, ToSet
<1>8. \A k \in 1 .. Len(gs) : \E a, b \in 1 .. n : a <= b /\ gs[k] = <<bar(a), bar(b)>>
  BY <1>2 DEF LoopInv, RunsBetweenBars
<1>9. \A k \in 1 .. n : bar(k) \notin DOMAIN candle <=> Covered(gs, bar(k))
  BY <1>2 DEF LoopInv, RunsCover
<1> HIDE DEF gs, n, bar
<1>10. i < j
  <2>1. ~(bar(j) <= bar(i))
    BY <1>4, <1>5, <1>6
  <2>2. i \in Int /\ j \in Int
    BY <1>1
  <2> QED BY <1>6, <2>1, <2>2
<1>11. ASSUME t - p > Step PROVE \E k \in 1 .. Len(gs) : t = gs[k][2] + Step
  <2>1. i # j - 1 /\ j - 1 \in 1 .. n /\ i < j - 1 /\ (j - 1) + 1 = j
    <3>1. i \in Int /\ j \in Int /\ i + 1 \in Int
      BY <1>1
    <3>2. bar(i + 1) = p + Step /\ p \in Int /\ t \in Int
      BY <1>3, <1>5, <1>6, <3>1
    <3>3. i + 1 # j
      BY <1>4, <1>11, <3>2, <1>1
    <3> QED BY <1>1, <1>10, <3>1, <3>3
  <2>2. bar(j - 1) + Step = t /\ p < bar(j - 1) /\ bar(j - 1) < t /\ bar(j - 1) \in Int
    <3>1. i \in Int /\ j \in Int /\ j - 1 \in Int
      BY <1>1
    <3>2. bar((j - 1) + 1) = bar(j - 1) + Step /\ bar(i) + Step <= bar(j - 1) /\ bar(j - 1) \in Int /\ bar(i) \in Int
      BY <1>6, <2>1, <3>1
    <3> QED BY <1>1, <1>4, <1>5, <2>1, <3>2
  <2>3. bar(j - 1) \notin DOMAIN candle
    <3>1. bar(j - 1) \notin TimesOf(w)
      BY <1>3, <2>2
    <3>2. w[1] <= p /\ t <= w[2] /\ w[2] \in Int /\ p \in Int /\ t \in Int
      BY <1>3, WindowsAssumption DEF TimesOf
    <3>3. w[1] <= bar(j - 1) /\ bar(j - 1) <= w[2]
      BY <1>1, <2>2, <3>2
    <3> QED BY <3>1, <3>3 DEF TimesOf
  <2>4. PICK k \in 1 .. Len(gs) : gs[k][1] <= bar(j - 1) /\ bar(j - 1) <= gs[k][2]
    BY <1>9, <2>1, <2>3 DEF Covered
  <2>5. PICK a, b \in 1 .. n : a <= b /\ gs[k] = <<bar(a), bar(b)>>
    BY <1>8
  <2>6. a <= j - 1 /\ j - 1 <= b
    BY <1>1, <1>6, <2>1, <2>4, <2>5
  <2>7. b < j
    <3>1. SUFFICES ASSUME j <= b PROVE FALSE
      BY <1>1
    <3>2. bar(a) <= bar(j) /\ bar(j) <= bar(b)
      <4>1. a <= j /\ a \in Int /\ b \in Int /\ j \in Int
        BY <1>1, <2>6, <3>1
      <4> QED BY <1>6, <3>1, <4>1
    <3>3. Covered(gs, bar(j))
      BY <2>5, <3>2 DEF Covered
    <3> QED BY <1>3, <1>4, <1>9, <3>3
  <2>8. b = j - 1
    BY <1>1, <2>6, <2>7
  <2> QED BY <2>2, <2>5, <2>8
<1>12. ASSUME NEW k \in 1 .. Len(gs), t = gs[k][2] + Step PROVE t - p > Step
  <2>1. PICK a, b \in 1 .. n : a <= b /\ gs[k] = <<bar(a), bar(b)>>
    BY <1>8
  <2>2. a \in Int /\ b \in Int /\ i \in Int /\ j \in Int /\ bar(a) \in Int /\ bar(b) \in Int /\ bar(a) <= bar(b)
    BY <1>1, <1>6, <2>1
  <2>3. Covered(gs, bar(b))
    BY <2>1, <2>2 DEF Covered
  <2>4. bar(b) \notin DOMAIN candle
    BY <1>9, <2>1, <2>3
  <2>5. b + 1 = j
    <3>1. bar(b + 1) = bar(b) + Step /\ bar(b) + Step = bar(j) /\ b + 1 \in Int
      BY <1>4, <1>6, <1>12, <2>1, <2>2
    <3> QED BY <1>6, <2>2, <3>1
  <2>6. i # b
    BY <1>3, <1>5, <2>4
  <2>7. i < b
    BY <1>10, <2>2, <2>5, <2>6
  <2>8. bar(i) + Step <= bar(b) /\ bar(i) \in Int
    BY <1>6, <2>2, <2>7
  <2> QED BY <1>1, <1>5, <1>12, <2>1, <2>2, <2>8
<1> QED BY <1>7, <1>11, <1>12 DEF gs
-----------------------------------------------------------------------------
(* The suite and the scanner over one table. *)
LEMMA SuiteSeesHoles ==
  ASSUME TableOK, VenueOnGrid, \A w \in Windows : IsAligned(w[1])
  PROVE  DetectorsAgree
<1> SUFFICES ASSUME NEW w \in Windows
             PROVE  {v.open_time : v \in {u \in Violations(RowsOf(w)) : u.check = "missing_interval"}}
                      = {RowsOf(w)[i].open_time : i \in 2 .. Len(RowsOf(w))}
                          \cap {g[2] + Step : g \in ToSet(DetectGaps(w))}
  BY DEF DetectorsAgree
<1> DEFINE rows == RowsOf(w)
           after == {g[2] + Step : g \in ToSet(DetectGaps(w))}
<1>1. w[1] \in Int /\ w[2] \in Int /\ IsAligned(w[1])
  BY WindowsAssumption
<1>2. PICK n \in Nat : \E at \in [1 .. n -> TimesOf(w)] :
        /\ \A i, j \in 1 .. n : i < j => at[i] < at[j]
        /\ \A t \in TimesOf(w) : \E i \in 1 .. n : at[i] = t
        /\ rows \in Seq(Quotes) /\ Len(rows) = n
        /\ \A i \in 1 .. n : rows[i] = candle[at[i]] /\ rows[i].open_time = at[i]
  BY <1>1, RowsInOrder
<1>8. PICK at \in [1 .. n -> TimesOf(w)] :
        /\ \A i, j \in 1 .. n : i < j => at[i] < at[j]
        /\ \A t \in TimesOf(w) : \E i \in 1 .. n : at[i] = t
        /\ rows \in Seq(Quotes) /\ Len(rows) = n
        /\ \A i \in 1 .. n : rows[i] = candle[at[i]] /\ rows[i].open_time = at[i]
  BY <1>2
<1>3. {v.open_time : v \in {u \in Violations(rows) : u.check = "missing_interval"}}
        = {rows[i].open_time : i \in {j \in 2 .. Len(rows) : rows[j].open_time - rows[j - 1].open_time > Step}}
  BY <1>8, HolesFound
<1> HIDE DEF rows, after
<1>4. ASSUME NEW j \in 2 .. n
      PROVE  rows[j].open_time - rows[j - 1].open_time > Step <=> rows[j].open_time \in after
  <2> DEFINE t == at[j]
             p == at[j - 1]
  <2>1. j \in 1 .. n /\ j - 1 \in 1 .. n /\ j - 1 < j
    BY <1>2
  <2>2. t \in TimesOf(w) /\ p \in TimesOf(w) /\ p < t
    BY <1>8, <2>1
  <2>3. ASSUME NEW u \in TimesOf(w) PROVE u <= p \/ t <= u
    <3>1. PICK i \in 1 .. n : at[i] = u
      BY <1>8
    <3>2. i < j - 1 \/ i = j - 1 \/ i = j \/ j < i
      BY <2>1
    <3>3. u \in Nat /\ t \in Nat /\ p \in Nat
      <4>1. \A x \in TimesOf(w) : x \in Nat
        BY DEF TableOK, Row, TimesOf
      <4> QED BY <2>2, <4>1
    <3>4. (i < j - 1 => u < p) /\ (j < i => t < u)
      BY <1>8, <2>1, <3>1
    <3> QED BY <3>1, <3>2, <3>3, <3>4
  <2>4. t - p > Step <=> t \in after
    <3> HIDE DEF t, p
    <3> QED BY <1>1, <2>2, <2>3, HoleBeforeRow DEF after
  <2> QED BY <1>8, <2>1, <2>4
<1>5. {rows[i].open_time : i \in {j \in 2 .. Len(rows) : rows[j].open_time - rows[j - 1].open_time > Step}}
        = {rows[i].open_time : i \in 2 .. Len(rows)} \cap after
  BY <1>8, <1>4
<1> QED BY <1>3, <1>5 DEF rows, after

(* If windows start on the grid and the venue's bars lie on it, as all but *)
(* weekly bars do, the holes that the nightly suite                        *)
(* reports (run_validation_suite, by comparing neighbouring rows) are the  *)
(* gaps between two rows that detect_gaps reports, by enumerating the      *)
(* expected slots, whatever has been ingested, repaired and archived.      *)
THEOREM BothDetectorsAgree ==
  ASSUME VenueOnGrid, \A w \in Windows : IsAligned(w[1])
  PROVE  QualitySpec => []DetectorsAgree
<1>1. RowsInv => DetectorsAgree
  BY SuiteSeesHoles DEF RowsInv
<1> QED BY <1>1, RowsStayGood, PTL

(* Of each of these checks the suite reports what its own loop finds. *)
LEMMA FoundOf ==
  ASSUME NEW cs \in Seq(Quotes), Len(cs) >= 2
  PROVE  /\ {v.open_time : v \in {u \in Violations(cs) : u.check = "zero_volume_streak"}}
              = {v.open_time : v \in ZeroVolumeStreaks(cs)}
         /\ {v.open_time : v \in {u \in Violations(cs) : u.check = "price_move_sigma"}}
              = {v.open_time : v \in PriceMoves(cs)}
<1>1. \A i, j : \A v \in PairRules(cs[i], cs[j]) : v.check \in {"timestamp_monotonic", "missing_interval"}
  BY DEF PairRules, Flagged, Violation
<1>2. {u \in Violations(cs) : u.check = "zero_volume_streak"} = ZeroVolumeStreaks(cs)
  BY <1>1, SuiteByRule, OwnRules
<1>3. {u \in Violations(cs) : u.check = "price_move_sigma"} = PriceMoves(cs)
  BY <1>1, SuiteByRule, OwnRules
<1> QED BY <1>2, <1>3

LEMMA SuiteSeesRules ==
  ASSUME TableOK
  PROVE  SuiteFindsAll
<1> SUFFICES ASSUME NEW w \in Windows, Len(RowsOf(w)) >= 2
             PROVE  /\ {v.open_time : v \in {u \in Violations(RowsOf(w)) : u.check = "zero_volume_streak"}}
                         = {RowsOf(w)[Min({p[2] + 1, Len(RowsOf(w))})].open_time :
                              p \in {q \in (1 .. Len(RowsOf(w))) \X (1 .. Len(RowsOf(w))) :
                                       q[2] - q[1] + 1 >= StreakThreshold /\ QuietRun(RowsOf(w), q[1], q[2])}}
                    /\ {v.open_time : v \in {u \in Violations(RowsOf(w)) : u.check = "price_move_sigma"}}
                         = {RowsOf(w)[k].open_time : k \in {j \in MoveWindow + 2 .. Len(RowsOf(w)) : Jump(RowsOf(w), j)}}
  BY DEF SuiteFindsAll
<1> DEFINE rows == RowsOf(w)
           n == Len(rows)
<1>1. rows \in Seq(Quotes)
  <2>1. w[1] \in Int /\ w[2] \in Int
    BY WindowsAssumption
  <2> QED BY <2>1, RowsInOrder
<1> HIDE DEF rows
<1>2. n \in Nat /\ n >= 2 /\ StreakThreshold \in Nat \ {0}
  BY <1>1, RulesAssumption DEF rows
<1>3. \A check, c : Flagged(check, c).open_time = c.open_time
  BY DEF Flagged, Violation
<1>4. {v.open_time : v \in PriceMoves(rows)} = {rows[k].open_time : k \in {j \in MoveWindow + 2 .. n : Jump(rows, j)}}
  BY <1>1, <1>2, <1>3, MovesFound
<1>5. {v.open_time : v \in ZeroVolumeStreaks(rows)}
        = {rows[Min({j + 1, n})].open_time : j \in {i \in 1 .. n : LongRunTo(rows, i)}}
  <2> DEFINE ends == {i \in 1 .. n : LongRunTo(rows, i)}
             last(j) == rows[Min({j + 1, n})]
  <2>1. ZeroVolumeStreaks(rows) = {Flagged("zero_volume_streak", last(j)) : j \in ends}
    <3>1. Len(rows) >= 1
      BY <1>2
    <3> QED BY <1>1, <3>1, StreaksFound
  <2> HIDE DEF ends, last
  <2>2. {v.open_time : v \in ZeroVolumeStreaks(rows)} = {last(j).open_time : j \in ends}
    BY <1>3, <2>1
  <2> QED BY <2>2 DEF ends, last
<1>6. ASSUME NEW j \in 1 .. n
      PROVE  LongRunTo(rows, j) <=>
               \E i \in 1 .. n : j - i + 1 >= StreakThreshold /\ QuietRun(rows, i, j)
  <2>1. \A i \in 1 .. n : j - i + 1 >= StreakThreshold => i \in 1 .. j
    BY <1>2
  <2>2. \A i \in 1 .. j : i \in 1 .. n
    BY <1>2
  <2> QED BY <2>1, <2>2 DEF LongRunTo
<1>7. {rows[Min({j + 1, n})].open_time : j \in {i \in 1 .. n : LongRunTo(rows, i)}}
        = {rows[Min({p[2] + 1, n})].open_time :
             p \in {q \in (1 .. n) \X (1 .. n) : q[2] - q[1] + 1 >= StreakThreshold /\ QuietRun(rows, q[1], q[2])}}
  <2> DEFINE end(j) == rows[Min({j + 1, n})].open_time
             pairs == {q \in (1 .. n) \X (1 .. n) : q[2] - q[1] + 1 >= StreakThreshold /\ QuietRun(rows, q[1], q[2])}
  <2>1. ASSUME NEW j \in 1 .. n, LongRunTo(rows, j) PROVE \E p \in pairs : p[2] = j
    <3>1. PICK i \in 1 .. n : j - i + 1 >= StreakThreshold /\ QuietRun(rows, i, j)
      BY <1>6, <2>1
    <3>2. <<i, j>> \in pairs
      BY <3>1
    <3> QED BY <3>2
  <2>2. ASSUME NEW p \in pairs PROVE p[2] \in 1 .. n /\ LongRunTo(rows, p[2])
    BY <1>6
  <2> HIDE DEF end, pairs, n
  <2>3. {end(j) : j \in {i \in 1 .. n : LongRunTo(rows, i)}} = {end(p[2]) : p \in pairs}
    BY <2>1, <2>2
  <2> QED BY <2>3 DEF end, pairs
<1> QED BY <1>1, <1>2, <1>4, <1>5, <1>7, FoundOf DEF rows

(* run_validation_suite flags every long run of bars without volume and    *)
(* every price move among the stored rows, and no other: its loops over    *)
(* the rows compute what is meant by a quiet run and by a jump.            *)
THEOREM SuiteMissesNothing == QualitySpec => []SuiteFindsAll
<1>1. RowsInv => SuiteFindsAll
  BY SuiteSeesRules DEF RowsInv
<1> QED BY <1>1, RowsStayGood, PTL

OffGrid(v) == /\ v = Violation("timestamp_alignment", "quarantined", v.open_time)
              /\ ~IsAligned(v.open_time)

QuarantinesOffGridOnly ==
  \A w \in Windows : \A v \in Violations(RowsOf(w)) : v.severity = "flagged" \/ OffGrid(v)

(* Of the rules a row can break on its own, run_validation_suite can find  *)
(* alignment broken in a stored row and nothing else: what a batch with a  *)
(* broken bar or the venue's own bars bring into the table passes the      *)
(* others.  Weekly bars, which come from the venue by a backfill, are off  *)
(* the grid, and each of them is quarantined.                              *)
THEOREM StoredRowsBreakAlignmentOnly == QualitySpec => []QuarantinesOffGridOnly
<1>1. ASSUME TableOK PROVE QuarantinesOffGridOnly
  <2> SUFFICES ASSUME NEW w \in Windows, NEW v \in Violations(RowsOf(w))
               PROVE  v.severity = "flagged" \/ OffGrid(v)
    BY DEF QuarantinesOffGridOnly
  <2> DEFINE rows == RowsOf(w)
  <2>1. w[1] \in Int /\ w[2] \in Int
    BY WindowsAssumption
  <2>2. rows \in Seq(Quotes) /\ Len(rows) \in Nat
    BY <1>1, <2>1, RowsInOrder
  <2>3. ASSUME NEW i \in 1 .. Len(rows), v \in ValidateCandle(rows[i])
        PROVE  OffGrid(v)
    <3>1. \E t \in DOMAIN candle : rows[i] = candle[t]
      <4>1. PICK n \in Nat : \E at \in [1 .. n -> TimesOf(w)] :
              Len(rows) = n /\ \A j \in 1 .. n : rows[j] = candle[at[j]]
        BY <1>1, <2>1, RowsInOrder
      <4> PICK at \in [1 .. n -> TimesOf(w)] :
            Len(rows) = n /\ \A j \in 1 .. n : rows[j] = candle[at[j]]
        BY <4>1
      <4>2. at[i] \in TimesOf(w) /\ rows[i] = candle[at[i]]
        OBVIOUS
      <4>3. at[i] \in DOMAIN candle
        BY <4>2 DEF TimesOf
      <4> QED BY <4>2, <4>3
    <3>2. \E t \in Nat : Row(t, rows[i])
      BY <1>1, <3>1 DEF TableOK, Row
    <3>3. rows[i].volume \in Int
      BY <3>2 DEF Row, Quotes
    <3>4. ~OhlcBroken(rows[i]) /\ ~(rows[i].volume < 0)
      BY <3>2, <3>3 DEF Row, Storable
    <3>5. v = Quarantined("timestamp_alignment", rows[i]) /\ ~IsAligned(rows[i].open_time)
      BY <2>3, <3>4 DEF ValidateCandle
    <3>6. Quarantined("timestamp_alignment", rows[i]).open_time = rows[i].open_time
      BY DEF Quarantined, Violation
    <3> QED BY <3>5, <3>6 DEF Quarantined, OffGrid
  <2>4. \A c, check : Flagged(check, c).severity = "flagged"
    BY DEF Flagged, Violation
  <2> HIDE DEF rows
  <2>5. CASE \E i \in 1 .. Len(rows) : v \in ValidateCandle(rows[i])
    BY <2>3, <2>5
  <2>6. CASE Len(rows) >= 2 /\ v \in ZeroVolumeStreaks(rows)
    <3>1. Len(rows) >= 1
      BY <2>2, <2>6
    <3>2. ZeroVolumeStreaks(rows) =
            {Flagged("zero_volume_streak", rows[Min({j + 1, Len(rows)})]) :
               j \in {i \in 1 .. Len(rows) : LongRunTo(rows, i)}}
      BY <2>2, <3>1, StreaksFound
    <3> QED BY <2>4, <2>6, <3>2
  <2>7. CASE Len(rows) >= 2 /\ v \in PriceMoves(rows)
    <3>1. PriceMoves(rows) =
            {Flagged("price_move_sigma", rows[k]) : k \in {j \in MoveWindow + 2 .. Len(rows) : Jump(rows, j)}}
      BY <2>2, <2>7, MovesFound
    <3> QED BY <2>4, <2>7, <3>1
  <2>8. CASE \E i \in 1 .. Len(rows) - 1 : v \in PairRules(rows[i], rows[i + 1])
    BY <2>4, <2>8 DEF PairRules
  <2> QED BY <2>2, <2>5, <2>6, <2>7, <2>8, SuiteByRule DEF rows
<1>2. RowsInv => QuarantinesOffGridOnly
  BY <1>1 DEF RowsInv
<1> QED BY <1>2, RowsStayGood, PTL
-----------------------------------------------------------------------------
(* Sums over finite sets and over sequences. *)

(* f gives the sum of the values v over each subset of D, whichever        *)
(* element is taken from it first.                                         *)
Adds(f, v, D) ==
  /\ f \in [SUBSET D -> Int] /\ f[{}] = 0
  /\ \A t \in SUBSET D : \A y \in t : f[t] = v[y] + f[t \ {y}]

(* Such a sum exists: the fold which takes the elements as CHOOSE picks    *)
(* them is one, since by induction on the size the order does not matter.  *)
LEMMA SumExists ==
  ASSUME NEW D, IsFiniteSet(D), NEW v \in [D -> Int]
  PROVE  \E f : Adds(f, v, D)
<1> DEFINE pick == [t \in SUBSET D |-> CHOOSE y \in t : TRUE]
           step == [p \in D \X Int |-> v[p[1]] + p[2]]
<1>1. \A t \in SUBSET D : t # {} => pick[t] \in t
  OBVIOUS
<1>2. step \in [D \X Int -> Int]
  OBVIOUS
<1>3. ASSUME NEW y \in D, NEW x \in Int PROVE step[<<y, x>>] = v[y] + x
  <2>1. <<y, x>> \in D \X Int /\ <<y, x>>[1] = y /\ <<y, x>>[2] = x
    OBVIOUS
  <2> QED BY <2>1, Zenon
<1> HIDE DEF pick, step
<1>4. PICK f \in [SUBSET D -> Int] : FoldsBy(f, D, 0, pick, step)
  <2>1. 0 \in Int
    OBVIOUS
  <2> QED BY <1>1, <1>2, <2>1, FoldExists
<1>5. ASSUME NEW t \in SUBSET D, t # {} PROVE f[t] = v[pick[t]] + f[t \ {pick[t]}]
  <2>1. f[t] = step[<<pick[t], f[t \ {pick[t]}]>>]
    BY <1>4, <1>5 DEF FoldsBy
  <2>2. pick[t] \in D /\ f[t \ {pick[t]}] \in Int
    BY <1>1, <1>4, <1>5
  <2> QED BY <1>3, <2>1, <2>2
<1>6. f[{}] = 0
  BY <1>4 DEF FoldsBy
<1> DEFINE n == Cardinality(D)
           Small(m) == {t \in SUBSET D : Cardinality(t) <= m}
           T == {m \in 0 .. n : \A t \in Small(m) : \A y \in t : f[t] = v[y] + f[t \ {y}]}
<1>7. n \in Nat /\ \A t \in SUBSET D : IsFiniteSet(t) /\ Cardinality(t) \in Nat /\ Cardinality(t) <= n
  BY FS_Subset, FS_CardinalityType
<1> HIDE DEF n
<1>8. 0 \in T
  <2>1. \A t \in Small(0) : t = {}
    BY <1>7, FS_EmptySet
  <2>2. 0 \in 0 .. n
    BY <1>7
  <2> HIDE DEF Small
  <2> QED BY <2>1, <2>2
<1>9. ASSUME NEW m \in 0 .. n - 1, m \in T PROVE m + 1 \in T
  <2>1. m + 1 \in 0 .. n
    BY <1>7
  <2>2. ASSUME NEW t \in Small(m + 1), NEW y \in t PROVE f[t] = v[y] + f[t \ {y}]
    <3> DEFINE p == pick[t]
    <3>1. t \in SUBSET D /\ t # {} /\ p \in t
      BY <1>1
    <3>2. ASSUME NEW z \in t PROVE t \ {z} \in Small(m)
      <4>1. Cardinality(t \ {z}) = Cardinality(t) - 1
        BY <1>7, FS_RemoveElement
      <4> QED BY <1>7, <1>9, <4>1
    <3> HIDE DEF p, Small
    <3>3. f[t] = v[p] + f[t \ {p}]
      BY <1>5, <3>1 DEF p
    <3>4. CASE y # p
      <4>1. f[t \ {p}] = v[y] + f[(t \ {p}) \ {y}]
        BY <1>9, <3>1, <3>2, <3>4
      <4>2. f[t \ {y}] = v[p] + f[(t \ {y}) \ {p}]
        BY <1>9, <3>1, <3>2, <3>4
      <4>3. (t \ {p}) \ {y} = (t \ {y}) \ {p}
        OBVIOUS
      <4>4. v[p] \in Int /\ v[y] \in Int /\ f[(t \ {p}) \ {y}] \in Int
        BY <1>4, <3>1
      <4> DEFINE rest == f[(t \ {p}) \ {y}]
                 a == v[p]
                 b == v[y]
      <4>5. f[t] = a + (b + rest) /\ f[t \ {y}] = a + rest
        BY <3>3, <4>1, <4>2, <4>3
      <4>6. a \in Int /\ b \in Int /\ rest \in Int
        BY <4>4
      <4> HIDE DEF a, rest
      <4>7. f[t] = b + f[t \ {y}]
        <5> HIDE DEF b
        <5> QED BY <4>5, <4>6
      <4> QED BY <4>7
    <3> QED BY <3>3, <3>4
  <2> HIDE DEF Small
  <2> QED BY <2>1, <2>2
<1> HIDE DEF T
<1>10. n \in T
  <2>1. 0 .. n \subseteq T
    BY <1>7, <1>8, <1>9, InductionTo
  <2> QED BY <1>7, <2>1
<1>11. \A t \in SUBSET D : \A y \in t : f[t] = v[y] + f[t \ {y}]
  BY <1>7, <1>10 DEF T
<1> QED BY <1>4, <1>6, <1>11 DEF Adds

(* The position that a set of fills adds up to. *)
Held(F) == MapThenSumSet(SignedQty, F)

(* The fold of MapThenSumSet is that sum.                                  *)
LEMMA HeldIsSum ==
  ASSUME NEW D, IsFiniteSet(D), NEW v \in [D -> Int], \A x \in D : v[x] = SignedQty(x),
         NEW f, Adds(f, v, D), NEW F \in SUBSET D
  PROVE  Held(F) = f[F]
<1> DEFINE first(t) == CHOOSE x \in t : TRUE
           IsFold(g) == g = [t \in SUBSET F |-> IF t = {} THEN 0 ELSE SignedQty(first(t)) + g[t \ {first(t)}]]
           g == CHOOSE h : IsFold(h)
           r == [t \in SUBSET F |-> f[t]]
<1>1. Held(F) = g[F]
  BY Zenon DEF Held, MapThenSumSet, MapThenFoldSet
<1>2. \A t \in SUBSET F : t # {} => first(t) \in t
  OBVIOUS
<1> HIDE DEF first
<1>3. ASSUME NEW t \in SUBSET F
      PROVE  f[t] = IF t = {} THEN 0 ELSE SignedQty(first(t)) + f[t \ {first(t)}]
  <2>1. CASE t = {}
    BY <2>1 DEF Adds
  <2>2. CASE t # {}
    <3>1. first(t) \in t /\ first(t) \in D /\ t \in SUBSET D
      BY <1>2, <2>2
    <3>2. f[t] = v[first(t)] + f[t \ {first(t)}]
      BY <3>1 DEF Adds
    <3> QED BY <2>2, <3>1, <3>2
  <2> QED BY <2>1, <2>2
<1>4. IsFold(r)
  <2>1. \A t \in SUBSET F : r[t] = f[t] /\ (t \ {first(t)}) \in SUBSET F
    OBVIOUS
  <2>2. \A t \in SUBSET F : r[t] = IF t = {} THEN 0 ELSE SignedQty(first(t)) + r[t \ {first(t)}]
    BY <1>3, <2>1
  <2> QED BY <2>2
<1>5. IsFold(g)
  BY <1>4, Zenon
<1> HIDE DEF g, r
<1>6. \A t \in SUBSET F : g[t] = IF t = {} THEN 0 ELSE SignedQty(first(t)) + g[t \ {first(t)}]
  BY <1>5
<1> DEFINE n == Cardinality(F)
           Small(m) == {t \in SUBSET F : Cardinality(t) <= m}
           T == {m \in 0 .. n : \A t \in Small(m) : g[t] = f[t]}
<1>7. n \in Nat /\ \A t \in SUBSET F : IsFiniteSet(t) /\ Cardinality(t) \in Nat /\ Cardinality(t) <= n
  <2>1. IsFiniteSet(F)
    BY FS_Subset
  <2> QED BY <2>1, FS_Subset, FS_CardinalityType
<1> HIDE DEF n
<1>8. 0 \in T
  <2>1. \A t \in Small(0) : t = {}
    BY <1>7, FS_EmptySet
  <2>2. 0 \in 0 .. n /\ {} \in SUBSET F
    BY <1>7
  <2> HIDE DEF Small
  <2> QED BY <1>3, <1>6, <2>1, <2>2
<1>9. ASSUME NEW m \in 0 .. n - 1, m \in T PROVE m + 1 \in T
  <2>1. m + 1 \in 0 .. n
    BY <1>7
  <2>2. ASSUME NEW t \in Small(m + 1) PROVE g[t] = f[t]
    <3>1. CASE t = {}
      BY <1>3, <1>6, <3>1
    <3>2. CASE t # {}
      <4>1. first(t) \in t
        BY <1>2, <3>2
      <4>2. Cardinality(t \ {first(t)}) = Cardinality(t) - 1
        BY <1>7, <4>1, FS_RemoveElement
      <4>3. t \ {first(t)} \in Small(m)
        BY <1>7, <1>9, <4>2
      <4>4. g[t \ {first(t)}] = f[t \ {first(t)}] /\ t \in SUBSET F
        BY <1>9, <4>3
      <4> QED BY <1>3, <1>6, <3>2, <4>4
    <3> QED BY <3>1, <3>2
  <2> HIDE DEF Small
  <2> QED BY <2>1, <2>2
<1> HIDE DEF T
<1>10. n \in T
  <2>1. 0 .. n \subseteq T
    BY <1>7, <1>8, <1>9, InductionTo
  <2> QED BY <1>7, <2>1
<1>11. g[F] = f[F]
  BY <1>7, <1>10 DEF T, n
<1> QED BY <1>1, <1>11

(* One more fill adds its signed quantity to the position.                 *)
LEMMA HeldByOneMore ==
  ASSUME NEW F, IsFiniteSet(F), \A x \in F : SignedQty(x) \in Int, NEW y, y \notin F, SignedQty(y) \in Int
  PROVE  Held(F \cup {y}) = Held(F) + SignedQty(y)
<1> DEFINE D == F \cup {y}
           v == [x \in D |-> SignedQty(x)]
<1>1. IsFiniteSet(D)
  BY FS_AddElement
<1>2. v \in [D -> Int] /\ \A x \in D : v[x] = SignedQty(x)
  OBVIOUS
<1>3. F \in SUBSET D /\ D \in SUBSET D /\ y \in D /\ D \ {y} = F
  OBVIOUS
<1> HIDE DEF v, D
<1>4. PICK f : Adds(f, v, D)
  BY <1>1, <1>2, SumExists
<1>5. Held(F) = f[F] /\ Held(D) = f[D]
  BY <1>1, <1>2, <1>3, <1>4, HeldIsSum
<1>6. f[D] = v[y] + f[F] /\ f[F] \in Int
  BY <1>3, <1>4 DEF Adds
<1>7. v[y] = SignedQty(y)
  BY <1>2, <1>3
<1> QED BY <1>5, <1>6, <1>7 DEF D

(* No fills, no position.                                                  *)
LEMMA HeldByNone == Held({}) = 0
<1> DEFINE v == [x \in {} |-> SignedQty(x)]
<1>1. IsFiniteSet({}) /\ v \in [{} -> Int] /\ (\A x \in {} : v[x] = SignedQty(x)) /\ {} \in SUBSET {}
  BY FS_EmptySet
<1> HIDE DEF v
<1>2. PICK f : Adds(f, v, {})
  BY <1>1, SumExists
<1>3. Held({}) = f[{}]
  BY <1>1, <1>2, HeldIsSum
<1> QED BY <1>2, <1>3 DEF Adds

(* One more number adds to the sum of a sequence. *)
LEMMA AppendedSum ==
  ASSUME NEW s \in Seq(Int), NEW x \in Int
  PROVE  AddUp(s) \in Int /\ AddUp(Append(s, x)) = AddUp(s) + x
<1> DEFINE n == Len(s)
           e == Append(s, x)
<1>1. n \in Nat /\ e \in Seq(Int) /\ Len(e) = n + 1 /\ e[n + 1] = x /\ \A k \in 1 .. n : e[k] = s[k]
  OBVIOUS
<1> HIDE DEF e
<1>2. PICK h \in [0 .. n -> Int] : /\ h[0] = 0 /\ \A k \in 1 .. n : h[k] = h[k - 1] + s[k]
                                   /\ AddUp(s) = h[n]
  BY FoldedSum
<1>3. PICK g \in [0 .. n + 1 -> Int] : /\ g[0] = 0 /\ \A k \in 1 .. n + 1 : g[k] = g[k - 1] + e[k]
                                       /\ AddUp(e) = g[n + 1]
  BY <1>1, FoldedSum
<1> HIDE DEF n
<1> DEFINE T == {k \in 0 .. n : g[k] = h[k]}
<1>4. 0 \in T
  BY <1>1, <1>2, <1>3
<1>5. ASSUME NEW k \in 0 .. n - 1, k \in T PROVE k + 1 \in T
  <2>1. k + 1 \in 1 .. n /\ k + 1 \in 1 .. n + 1 /\ (k + 1) - 1 = k /\ k + 1 \in 0 .. n
    BY <1>1
  <2> QED BY <1>1, <1>2, <1>3, <1>5, <2>1
<1> HIDE DEF T
<1>6. g[n] = h[n]
  <2>1. 0 .. n \subseteq T
    BY <1>1, <1>4, <1>5, InductionTo
  <2> QED BY <1>1, <2>1 DEF T
<1>7. n + 1 \in 1 .. n + 1 /\ (n + 1) - 1 = n /\ n \in 0 .. n
  BY <1>1
<1>8. AddUp(e) = h[n] + x
  BY <1>1, <1>3, <1>6, <1>7
<1> QED BY <1>2, <1>7, <1>8 DEF e

(* The empty sequence adds up to zero.                                     *)
LEMMA EmptySum == AddUp(<<>>) = 0
<1>1. <<>> \in Seq(Int) /\ Len(<<>>) = 0
  OBVIOUS
<1> QED BY <1>1, FoldedSum

-----------------------------------------------------------------------------
(* The replay of the fills. *)

(* Fills, positions and the variables of the loop of _replay_fills.        *)
FillRecords == [id : Nat, ts : Nat, side : {"buy", "sell"}, qty : Nat \ {0}, price : Nat \ {0}, fee : Nat]
Positions   == [qty : Int, avg_entry : Int, realized_pnl : Int, applied : SUBSET Nat]
Replays     == [position : Positions, trades : Seq(Int), days : Int, cursor : Nat]
NoFillYet   == [position |-> Flat, trades |-> <<>>, days |-> 0, cursor |-> 0]
Replay(s)   == FoldLeft(Replayed, NoFillYet, s)

(* A fill changes the position, by its quantity up or down.                *)
LEMMA SignedQtyFacts ==
  ASSUME NEW f \in FillRecords
  PROVE  /\ SignedQty(f) \in Int \ {0}
         /\ SignedQty(f) > 0 => SignedQty(f) = f.qty
         /\ ~(SignedQty(f) > 0) => SignedQty(f) = -f.qty
BY DEF FillRecords, SignedQty

(* Abs is the absolute value.                                              *)
LEMMA AbsValue ==
  ASSUME NEW n \in Int
  PROVE  Abs(n) \in Nat /\ (n >= 0 => Abs(n) = n) /\ (n <= 0 => Abs(n) = -n)
BY DEF Abs

(* A booked position is one of integers.                                   *)
LEMMA BookedType ==
  ASSUME NEW p \in Positions, NEW f \in FillRecords
  PROVE  Book(p, f) \in Positions /\ ApplyFill(p, f) \in Positions
<1>1. /\ p.qty \in Int /\ p.avg_entry \in Int /\ p.realized_pnl \in Int /\ p.applied \in SUBSET Nat
      /\ f.qty \in Nat \ {0} /\ f.price \in Nat /\ f.fee \in Nat /\ f.id \in Nat
  BY DEF Positions, FillRecords
<1>2. Abs(p.qty) \in Nat /\ SignedQty(f) \in Int
  BY <1>1, AbsValue, SignedQtyFacts
<1>3. WeightedAverage(p, f) \in Int
  <2> DEFINE x == Abs(p.qty) * p.avg_entry + f.qty * f.price
             d == Abs(p.qty) + f.qty
  <2>1. x \in Int /\ d \in Nat \ {0}
    BY <1>1, <1>2
  <2>2. WeightedAverage(p, f) = x \div d
    BY DEF WeightedAverage, Mean
  <2> HIDE DEF x, d
  <2> QED BY <2>1, <2>2
<1>4. AverageAfterClosing(p, f) \in Int
  BY <1>1, <1>2 DEF AverageAfterClosing
<1>5. ClosingQty(p, f) \in Int
  BY <1>1, <1>2 DEF ClosingQty
<1>6. PricePnl(p, f) \in Int
  BY <1>1, <1>5 DEF PricePnl
<1>7. Book(p, f) \in Positions
  BY <1>1, <1>2, <1>3, <1>4, <1>6 DEF Book, Positions
<1> QED BY <1>7 DEF ApplyFill

(* A position with the cash of Book: whatever the fill does to it, its     *)
(* price and its fee are what changes the cash.                            *)
LEMMA BookedCash ==
  ASSUME NEW p \in Positions, NEW f \in FillRecords, ExactAverage(p, f)
  PROVE  CashOf(Book(p, f)) = CashOf(p) - SignedQty(f) * f.price - f.fee
<1> DEFINE q == p.qty
           a == p.avg_entry
           n == f.qty
           x == f.price
           s == SignedQty(f)
           b == Book(p, f).avg_entry
           gain == PricePnl(p, f)
<1>1. q \in Int /\ a \in Int /\ n \in Nat \ {0} /\ x \in Int /\ s \in Int /\ p.realized_pnl \in Int /\ f.fee \in Int
  BY SignedQtyFacts DEF Positions, FillRecords
<1>2. b \in Int /\ gain \in Int
  <2>1. Book(p, f).realized_pnl \in Int /\ b \in Int
    BY BookedType DEF Positions
  <2>2. ClosingQty(p, f) \in Int
    BY <1>1, AbsValue DEF ClosingQty
  <2> QED BY <1>1, <2>1, <2>2 DEF PricePnl
<1>3. (s > 0 => s = n) /\ (~(s > 0) => s = -n) /\ (q >= 0 => Abs(q) = q) /\ (q <= 0 => Abs(q) = -q)
  BY <1>1, SignedQtyFacts, AbsValue
<1>4. SameDirection(p, f) <=> (q = 0 \/ (q > 0 <=> s > 0))
  BY DEF SameDirection
<1>5. gain - (q + s) * b = -(q * a) - s * x
  <2>1. CASE SameDirection(p, f)
    <3>1. gain = 0 /\ (Abs(q) + n) * b = Abs(q) * a + n * x
      BY <2>1 DEF PricePnl, Book, ExactAverage
    <3>2. CASE s > 0
      <4>1. s = n /\ Abs(q) = q
        BY <1>1, <1>3, <1>4, <2>1, <3>2
      <4> HIDE DEF q, a, n, x, s, b, gain
      <4> QED BY <1>1, <1>2, <3>1, <4>1
    <3>3. CASE ~(s > 0)
      <4>1. s = -n /\ Abs(q) = -q
        BY <1>1, <1>3, <1>4, <2>1, <3>3
      <4> HIDE DEF q, a, n, x, s, b, gain
      <4>2. (q + -n) * b = -((-q + n) * b) /\ (-q) * a = -(q * a) /\ (-n) * x = -(n * x)
        BY <1>1, <1>2
      <4> QED BY <1>1, <1>2, <3>1, <4>1, <4>2
    <3> QED BY <3>2, <3>3
  <2>2. CASE ~SameDirection(p, f)
    <3>1. q # 0 /\ s = (IF q > 0 THEN -n ELSE n) /\ Abs(q) = (IF q > 0 THEN q ELSE -q)
      BY <1>1, <1>3, <1>4, <2>2
    <3>2. gain = IF q > 0 THEN ClosingQty(p, f) * (x - a) ELSE -(ClosingQty(p, f) * (x - a))
      BY <1>1, <2>2 DEF PricePnl
    <3>3. b = AverageAfterClosing(p, f)
      BY <2>2 DEF Book
    <3>4. CASE n < Abs(q)
      <4>1. b = a /\ ClosingQty(p, f) = n
        BY <1>1, <3>1, <3>3, <3>4 DEF AverageAfterClosing, ClosingQty
      <4>2. gain = -(s * (x - a))
        <5> HIDE DEF q, a, n, x, s, b, gain
        <5>1. (-n) * (x - a) = -(n * (x - a)) /\ n * (x - a) \in Int
          BY <1>1
        <5> QED BY <3>1, <3>2, <4>1, <5>1
      <4> HIDE DEF q, a, n, x, s, b, gain
      <4>3. s * (x - a) = s * x - s * a /\ (q + s) * a = q * a + s * a
        BY <1>1
      <4> QED BY <1>1, <4>1, <4>2, <4>3
    <3>5. CASE ~(n < Abs(q))
      <4>1. gain = q * (x - a)
        <5>1. ClosingQty(p, f) = Abs(q)
          BY <3>5 DEF ClosingQty
        <5> HIDE DEF q, a, n, x, s, b, gain
        <5>2. (-q) * (x - a) = -(q * (x - a)) /\ q * (x - a) \in Int
          BY <1>1
        <5> QED BY <3>1, <3>2, <5>1, <5>2
      <4>2. b = (IF n = Abs(q) THEN 0 ELSE x) /\ (n = Abs(q) => q + s = 0)
        BY <1>1, <3>1, <3>3, <3>5 DEF AverageAfterClosing
      <4> HIDE DEF q, a, n, x, s, b, gain
      <4>3. q * (x - a) = q * x - q * a /\ (q + s) * x = q * x + s * x /\ (q + s) * 0 = 0
        BY <1>1
      <4>4. n = Abs(q) => q * x = -(s * x)
        <5>1. q + s = 0 => q = -s /\ (-s) * x = -(s * x)
          BY <1>1
        <5> QED BY <4>2, <5>1
      <4> QED BY <1>1, <4>1, <4>2, <4>3, <4>4
    <3> QED BY <3>4, <3>5
  <2> QED BY <2>1, <2>2
<1>6. Book(p, f).qty = q + s /\ Book(p, f).realized_pnl = p.realized_pnl + (gain - f.fee)
  BY DEF Book
<1>7. (q + s) * b \in Int /\ q * a \in Int /\ s * x \in Int
  BY <1>1, <1>2
<1>8. CashOf(Book(p, f)) = (p.realized_pnl + (gain - f.fee)) - (q + s) * b /\ CashOf(p) = p.realized_pnl - q * a
  BY <1>6 DEF CashOf
<1> HIDE DEF q, a, x, s, b, gain
<1>9. CashOf(Book(p, f)) = CashOf(p) - s * x - f.fee
  BY <1>1, <1>2, <1>5, <1>7, <1>8
<1> QED BY <1>9 DEF s, x

(* One turn of the loop of _replay_fills keeps the types.                  *)
LEMMA ReplayType ==
  ASSUME NEW r \in Replays, NEW f \in FillRecords
  PROVE  Replayed(r, f) \in Replays
<1> DEFINE p == ApplyFill(r.position, f)
<1>1. r.position \in Positions /\ r.trades \in Seq(Int) /\ r.days \in Int /\ r.cursor \in Nat /\ f.ts \in Nat
  BY DEF Replays, FillRecords
<1>2. p \in Positions
  BY <1>1, BookedType
<1>3. p.realized_pnl - r.position.realized_pnl \in Int
  BY <1>1, <1>2 DEF Positions
<1> HIDE DEF p
<1>4. Append(r.trades, p.realized_pnl - r.position.realized_pnl) \in Seq(Int)
  BY <1>1, <1>3
<1>5. Replayed(r, f) =
        [ position |-> p,
          trades   |-> IF IsClosing(r.position, f)
                       THEN Append(r.trades, p.realized_pnl - r.position.realized_pnl) ELSE r.trades,
          days     |-> r.days + (IF r.position.qty # 0 THEN f.ts - r.cursor ELSE 0),
          cursor   |-> f.ts ]
  BY DEF Replayed, p
<1> QED BY <1>1, <1>2, <1>4, <1>5 DEF Replays

(* The replay of the fills as a loop: the state after each fill is made    *)
(* from the one before it.                                                 *)
LEMMA FoldedReplay ==
  ASSUME NEW s \in Seq(FillRecords)
  PROVE  \E h \in [0 .. Len(s) -> Replays] :
           /\ h[0] = NoFillYet /\ \A k \in 1 .. Len(s) : h[k] = Replayed(h[k - 1], s[k])
           /\ Replay(s) = h[Len(s)]
<1> DEFINE n == Len(s)
           step == [p \in (1 .. n) \X Replays |-> Replayed(p[2], s[p[1]])]
           IsFold(f) == f = [t \in SUBSET (1 .. n) |-> IF t = {} THEN NoFillYet ELSE Replayed(f[t \ {Max(t)}], s[Max(t)])]
<1>1. n \in Nat /\ NoFillYet \in Replays /\ DOMAIN s = 1 .. n
  BY DEF NoFillYet, Replays, Positions, Flat
<1>2. step \in [(1 .. n) \X Replays -> Replays]
  <2>1. \A k \in 1 .. n, x \in Replays : Replayed(x, s[k]) \in Replays
    BY ReplayType
  <2> QED BY <2>1
<1>3. ASSUME NEW k \in 1 .. n, NEW x \in Replays PROVE step[<<k, x>>] = Replayed(x, s[k])
  <2>1. <<k, x>> \in (1 .. n) \X Replays /\ <<k, x>>[1] = k /\ <<k, x>>[2] = x
    OBVIOUS
  <2> QED BY <2>1, Zenon
<1> DEFINE g == CHOOSE f : IsFold(f)
<1>4. Replay(s) = g[1 .. n]
  BY <1>1, Zenon DEF Replay, FoldLeft, MapThenFoldSet
<1> HIDE DEF n, step
<1>5. PICK f \in [SUBSET (1 .. n) -> Replays] : FoldsByMax(f, n, NoFillYet, step)
  BY <1>1, <1>2, FoldByMax
<1>6. ASSUME NEW t \in SUBSET (1 .. n)
      PROVE  f[t] = IF t = {} THEN NoFillYet ELSE Replayed(f[t \ {Max(t)}], s[Max(t)])
  <2>1. t # {} => Max(t) \in 1 .. n /\ f[t \ {Max(t)}] \in Replays
    BY <1>1, <1>5, MaxIsMember
  <2> QED BY <1>3, <1>5, <2>1 DEF FoldsByMax
<1>7. IsFold(f)
  BY <1>5, <1>6
<1>8. IsFold(g)
  BY <1>7, Zenon
<1> HIDE DEF g
<1>9. FoldsIntervals(g, n, Replays, NoFillYet, step)
  <2>1. \A t \in SUBSET (1 .. n) : g[t] = IF t = {} THEN NoFillYet ELSE Replayed(g[t \ {Max(t)}], s[Max(t)])
    BY <1>8
  <2>2. ASSUME NEW k \in 1 .. n PROVE g[1 .. k] = Replayed(g[1 .. k - 1], s[k])
    <3>1. 1 .. k \in SUBSET (1 .. n) /\ k \in Nat \ {0}
      BY <1>1
    <3> QED BY <2>1, <3>1, LastOfInterval
  <2> QED BY <1>3, <2>1, <2>2 DEF FoldsIntervals
<1>10. PICK h \in [0 .. n -> Replays] : Iterates(h, n, NoFillYet, step) /\ h[n] = g[1 .. n]
  <2>1. EndsLoop(g[1 .. n], n, Replays, NoFillYet, step)
    BY <1>1, <1>2, <1>9, FoldedLoop
  <2> QED BY <2>1 DEF EndsLoop
<1>11. \A k \in 1 .. n : h[k] = Replayed(h[k - 1], s[k])
  <2>1. \A k \in 1 .. n : k - 1 \in 0 .. n
    BY <1>1
  <2> QED BY <1>3, <1>10, <2>1 DEF Iterates
<1>12. h[0] = NoFillYet
  BY <1>10 DEF Iterates
<1> QED BY <1>4, <1>10, <1>11, <1>12 DEF n

(* One more fill is one more turn of the loop. *)
LEMMA OneMoreFill ==
  ASSUME NEW s \in Seq(FillRecords), NEW f \in FillRecords
  PROVE  Replay(s) \in Replays /\ Replay(Append(s, f)) = Replayed(Replay(s), f)
<1> DEFINE n == Len(s)
           e == Append(s, f)
<1>1. n \in Nat /\ e \in Seq(FillRecords) /\ Len(e) = n + 1 /\ e[n + 1] = f /\ \A k \in 1 .. n : e[k] = s[k]
  OBVIOUS
<1> HIDE DEF e
<1>2. PICK h \in [0 .. n -> Replays] : /\ h[0] = NoFillYet /\ \A k \in 1 .. n : h[k] = Replayed(h[k - 1], s[k])
                                       /\ Replay(s) = h[n]
  BY FoldedReplay
<1>3. PICK g \in [0 .. n + 1 -> Replays] :
        /\ g[0] = NoFillYet /\ \A k \in 1 .. n + 1 : g[k] = Replayed(g[k - 1], e[k])
        /\ Replay(e) = g[n + 1]
  BY <1>1, FoldedReplay
<1> HIDE DEF n
<1> DEFINE T == {k \in 0 .. n : g[k] = h[k]}
<1>4. 0 \in T
  BY <1>1, <1>2, <1>3
<1>5. ASSUME NEW k \in 0 .. n - 1, k \in T PROVE k + 1 \in T
  <2>1. k + 1 \in 1 .. n /\ k + 1 \in 1 .. n + 1 /\ (k + 1) - 1 = k /\ k + 1 \in 0 .. n
    BY <1>1
  <2>2. h[k + 1] = Replayed(h[k], s[k + 1]) /\ g[k + 1] = Replayed(g[k], e[k + 1])
    BY <1>2, <1>3, <2>1
  <2> QED BY <1>1, <1>5, <2>1, <2>2
<1> HIDE DEF T
<1>6. g[n] = h[n]
  <2>1. 0 .. n \subseteq T
    BY <1>1, <1>4, <1>5, InductionTo
  <2> QED BY <1>1, <2>1 DEF T
<1>7. n + 1 \in 1 .. n + 1 /\ (n + 1) - 1 = n /\ n \in 0 .. n
  BY <1>1
<1>8. Replay(e) = Replayed(h[n], f)
  <2>1. g[n + 1] = Replayed(g[(n + 1) - 1], e[n + 1])
    BY <1>3, <1>7
  <2> QED BY <1>1, <1>3, <1>6, <1>7, <2>1
<1> QED BY <1>2, <1>7, <1>8 DEF e

(* Without fills the loop does not turn.                                   *)
LEMMA NothingReplayed == Replay(<<>>) = NoFillYet
<1>1. <<>> \in Seq(FillRecords) /\ Len(<<>>) = 0
  OBVIOUS
<1> QED BY <1>1, FoldedReplay

(* A fill that is later than all others comes last. *)
LEMMA LaterFillIsLast ==
  ASSUME NEW F, IsFiniteSet(F), F \subseteq FillRecords, NEW f \in FillRecords, \A g \in F : g.ts < f.ts,
         InOrder(F) \in Seq(FillRecords), Len(InOrder(F)) = Cardinality(F)
  PROVE  InOrder(F \cup {f}) = Append(InOrder(F), f)
<1> DEFINE E == F \cup {f}
           n == Cardinality(F)
           place(x) == Cardinality({g \in F : ~Earlier(x, g)})
           place1(x) == Cardinality({g \in E : ~Earlier(x, g)})
<1>1. n \in Nat /\ Cardinality(E) = n + 1
  <2>1. f \notin F
    BY DEF FillRecords
  <2> QED BY <2>1, FS_AddElement, FS_CardinalityType
<1>2. InOrder(F) = [i \in 1 .. n |-> CHOOSE x \in F : place(x) = i]
  BY Zenon DEF InOrder
<1>3. InOrder(E) = [i \in 1 .. n + 1 |-> CHOOSE x \in E : place1(x) = i]
  BY <1>1, Zenon DEF InOrder
<1>4. ASSUME NEW x \in F PROVE place1(x) = place(x) /\ place(x) \in Nat /\ place(x) <= n
  <2>1. Earlier(x, f)
    BY DEF Earlier
  <2>2. {g \in E : ~Earlier(x, g)} = {g \in F : ~Earlier(x, g)}
    BY <2>1
  <2>3. {g \in F : ~Earlier(x, g)} \in SUBSET F
    OBVIOUS
  <2> QED BY <2>2, <2>3, FS_Subset, FS_CardinalityType
<1>5. place1(f) = n + 1
  <2>1. \A g \in F : ~Earlier(f, g)
    BY DEF Earlier, FillRecords
  <2>2. ~Earlier(f, f)
    BY DEF Earlier, FillRecords
  <2>3. {g \in E : ~Earlier(f, g)} = E
    BY <2>1, <2>2
  <2> QED BY <1>1, <2>3
<1> HIDE DEF place, place1
<1>6. ASSUME NEW i \in 1 .. n PROVE (CHOOSE x \in E : place1(x) = i) = CHOOSE x \in F : place(x) = i
  <2>1. \A x : (x \in E /\ place1(x) = i) <=> (x \in F /\ place(x) = i)
    BY <1>1, <1>4, <1>5
  <2> HIDE DEF E
  <2> QED BY <2>1
<1>7. (CHOOSE x \in E : place1(x) = n + 1) = f
  <2>1. \A x \in E : place1(x) = n + 1 <=> x = f
    BY <1>1, <1>4, <1>5
  <2>2. f \in E
    OBVIOUS
  <2> HIDE DEF E
  <2> QED BY <2>1, <2>2
<1>8. Append(InOrder(F), f) = [i \in 1 .. n + 1 |-> IF i = n + 1 THEN f ELSE InOrder(F)[i]]
  <2> DEFINE s == InOrder(F)
             e == Append(s, f)
  <2> HIDE DEF s, n
  <2>1. s \in Seq(FillRecords) /\ Len(s) = n
    BY DEF s, n
  <2>2. e \in Seq(FillRecords) /\ Len(e) = n + 1 /\ \A i \in 1 .. n + 1 : e[i] = IF i = n + 1 THEN f ELSE s[i]
    BY <1>1, <2>1
  <2> HIDE DEF e
  <2>3. e = [i \in 1 .. n + 1 |-> e[i]]
    BY <2>2
  <2> QED BY <2>2, <2>3 DEF e, s
<1> HIDE DEF E
<1>9. \A i \in 1 .. n + 1 : i = n + 1 \/ i \in 1 .. n
  BY <1>1
<1>10. \A i \in 1 .. n : InOrder(F)[i] = CHOOSE x \in F : place(x) = i
  BY <1>2
<1>11. \A i \in 1 .. n + 1 : InOrder(E)[i] = IF i = n + 1 THEN f ELSE InOrder(F)[i]
  BY <1>1, <1>3, <1>6, <1>7, <1>9, <1>10
<1>12. InOrder(E) = [i \in 1 .. n + 1 |-> InOrder(E)[i]]
  BY <1>3
<1> QED BY <1>8, <1>11, <1>12 DEF E

(* No fills are in order.                                                  *)
LEMMA NoFillInOrder == InOrder({}) = <<>>
<1>1. Cardinality({}) = 0
  BY FS_EmptySet
<1>2. 1 .. 0 = {}
  OBVIOUS
<1> QED BY <1>1, <1>2 DEF InOrder

-----------------------------------------------------------------------------
(* The run of Analytics. *)

(* What the fills of a run, its curve and its account have to do with one another. *)
RunFacts ==
  /\ Len(curve) = Len(bars) + 1 /\ curve[1].equity = StartEquity
  /\ \A i \in 1 .. Len(curve) : curve[i].ts = i - 1
  /\ bars # <<>> => curve[Len(curve)].equity = cash + holding * bars[Len(bars)].close
  /\ IsFiniteSet(fills) /\ fills \subseteq FillRecords
  /\ \A f \in fills : f.ts <= Len(bars) /\ f.id < Len(bars) /\ f.fee = Fee

(* The fills that open or add, and the bars which began with a position.   *)
Opening(F)     == {f \in F : Held({g \in F : g.ts < f.ts}) * SignedQty(f) >= 0}
Invested(F, c) == {i \in 1 .. Len(c) - 1 : Held({f \in F : f.ts <= c[i].ts}) # 0}

(* The replay r of the fills so far holds the position of the account; its *)
(* results are those of the trades less the fees of the other fills, and   *)
(* its days are the bars at which something was held.                      *)
ReplayAgrees(r) ==
  /\ InOrder(fills) \in Seq(FillRecords) /\ Len(InOrder(fills)) = Cardinality(fills)
  /\ r = Replay(InOrder(fills))
  /\ r.position.qty = holding /\ Held(fills) = holding
  /\ r.position.applied = {f.id : f \in fills}
  /\ AddUp(r.trades) - Fee * Cardinality(Opening(fills)) = r.position.realized_pnl
  /\ r.days + (IF holding # 0 THEN Len(bars) - r.cursor ELSE 0) = Cardinality(Invested(fills, curve))

(* A fill which is later than all others is one more that opens or adds,   *)
(* or is not, and leaves the earlier ones what they were.                  *)
LEMMA OpenedOnce ==
  ASSUME NEW F, IsFiniteSet(F), F \subseteq FillRecords, NEW f \in FillRecords, \A g \in F : g.ts < f.ts
  PROVE  /\ Cardinality(Opening(F)) \in Nat
         /\ Cardinality(Opening(F \cup {f})) = Cardinality(Opening(F)) + (IF Held(F) * SignedQty(f) >= 0 THEN 1 ELSE 0)
<1> DEFINE E == F \cup {f}
           upto(D, x) == {g \in D : g.ts < x.ts}
<1>1. f \notin F /\ \A g \in F : ~(f.ts < g.ts)
  BY DEF FillRecords
<1>2. upto(E, f) = F
  <2>1. ~(f.ts < f.ts)
    BY DEF FillRecords
  <2> QED BY <2>1
<1>3. \A x \in F : upto(E, x) = upto(F, x)
  BY <1>1
<1>4. \A x \in E : x \in Opening(E) <=> Held(upto(E, x)) * SignedQty(x) >= 0
  BY DEF Opening
<1>5. \A x \in F : x \in Opening(F) <=> Held(upto(F, x)) * SignedQty(x) >= 0
  BY DEF Opening
<1>6. Opening(E) \subseteq E /\ Opening(F) \subseteq F
  BY DEF Opening
<1> HIDE DEF upto
<1>7. Opening(E) = IF Held(F) * SignedQty(f) >= 0 THEN Opening(F) \cup {f} ELSE Opening(F)
  BY <1>1, <1>2, <1>3, <1>4, <1>5, <1>6
<1>8. IsFiniteSet(Opening(F)) /\ f \notin Opening(F) /\ Cardinality(Opening(F)) \in Nat
  BY <1>1, <1>6, FS_Subset, FS_CardinalityType
<1>9. Cardinality(Opening(F) \cup {f}) = Cardinality(Opening(F)) + 1
  BY <1>8, FS_AddElement
<1> HIDE DEF E
<1> QED BY <1>7, <1>8, <1>9 DEF E

(* One more point of the curve counts the bar that began at the last one,  *)
(* if a position was held there; a fill after that point changes no count. *)
LEMMA InvestedOnce ==
  ASSUME RunFacts, bars \in Seq(Candles), NEW c, Len(c) = Len(curve) + 1, \A i \in 1 .. Len(curve) : c[i] = curve[i],
         NEW G, fills \subseteq G, \A f \in G \ fills : f.ts = Len(bars) + 1
  PROVE  /\ Cardinality(Invested(fills, curve)) \in Nat
         /\ Cardinality(Invested(G, c)) = Cardinality(Invested(fills, curve)) + (IF Held(fills) # 0 THEN 1 ELSE 0)
<1> DEFINE n == Len(curve)
           upto(D, x) == {f \in D : f.ts <= x}
           before == Invested(fills, curve)
           after == Invested(G, c)
<1>1. n \in Nat \ {0} /\ Len(c) = n + 1 /\ Len(bars) = n - 1 /\ \A i \in 1 .. n : c[i] = curve[i] /\ curve[i].ts = i - 1
  BY DEF RunFacts
<1>2. ASSUME NEW i \in 1 .. n PROVE upto(G, c[i].ts) = upto(fills, curve[i].ts)
  <2>1. \A f \in G \ fills : ~(f.ts <= i - 1)
    BY <1>1
  <2> QED BY <1>1, <2>1
<1>3. upto(fills, curve[n].ts) = fills
  <2>1. curve[n].ts = Len(bars)
    BY <1>1
  <2> QED BY <2>1 DEF RunFacts
<1>4. \A i : i \in after <=> i \in 1 .. n /\ Held(upto(G, c[i].ts)) # 0
  BY <1>1 DEF Invested
<1>5. \A i : i \in before <=> i \in 1 .. n - 1 /\ Held(upto(fills, curve[i].ts)) # 0
  BY DEF Invested
<1>6. \A i : i \in 1 .. n <=> i \in 1 .. n - 1 \/ i = n
  BY <1>1
<1>7. n \notin before /\ before \in SUBSET (1 .. n)
  <2>1. n \notin 1 .. n - 1 /\ 1 .. n - 1 \subseteq 1 .. n
    BY <1>1
  <2>2. before \subseteq 1 .. n - 1
    BY <1>5
  <2> HIDE DEF before, n
  <2> QED BY <2>1, <2>2
<1> HIDE DEF upto, before, after, n
<1>8. after = IF Held(fills) # 0 THEN before \cup {n} ELSE before
  <2>1. \A i : i \in after <=> i \in before \/ (i = n /\ Held(fills) # 0)
    BY <1>1, <1>2, <1>3, <1>4, <1>5, <1>6
  <2> QED BY <2>1
<1>9. IsFiniteSet(before) /\ Cardinality(before) \in Nat
  <2>1. IsFiniteSet(1 .. n)
    BY <1>1, FS_Interval
  <2> QED BY <1>7, <2>1, FS_Subset, FS_CardinalityType
<1>10. Cardinality(before \cup {n}) = Cardinality(before) + 1
  BY <1>7, <1>9, FS_AddElement
<1> QED BY <1>8, <1>9, <1>10 DEF before, after

(* A fill closes nothing if its product with the position is not negative. *)
LEMMA SameSign ==
  ASSUME NEW q \in Int, NEW s \in Int \ {0}
  PROVE  q * s >= 0 <=> (q = 0 \/ (q > 0 <=> s > 0))
<1>1. CASE q = 0
  BY <1>1
<1>2. CASE q > 0 /\ s > 0
  <2>1. q * s > 0
    BY <1>2
  <2> QED BY <1>2, <2>1
<1>3. CASE q < 0 /\ s < 0
  <2>1. (-q) * (-s) > 0 /\ q * s = (-q) * (-s)
    BY <1>3
  <2> QED BY <1>3, <2>1
<1>4. CASE q > 0 /\ s < 0
  <2>1. q * (-s) > 0 /\ q * s = -(q * (-s))
    BY <1>4
  <2> QED BY <1>4, <2>1
<1>5. CASE q < 0 /\ s > 0
  <2>1. (-q) * s > 0 /\ q * s = -((-q) * s)
    BY <1>5
  <2> QED BY <1>5, <2>1
<1> QED BY <1>1, <1>2, <1>3, <1>4, <1>5

(* The state of the replay of the fills booked so far; its invariant; and  *)
(* that the position explains the cash of the account.                     *)
Sofar == Replay(InOrder(fills))
ReplayInv == RunTypeOK /\ RunFacts /\ ReplayAgrees(Sofar)
CashInv   == CashOf(Sofar.position) = cash - StartEquity

(* No fill of the run rounds the average of the position it meets. *)
ExactFills == [][\A f \in fills' \ fills : ExactAverage(ReplayFills(fills, curve).position, f)]_runVars

(* What a bar adds to the bars and to the curve.                           *)
LEMMA NextBarFacts ==
  ASSUME RunTypeOK, RunFacts, NEW b \in Candles, Bar(b), cash' \in Int, holding' \in Int
  PROVE  /\ Len(bars') = Len(bars) + 1 /\ bars'[Len(bars')] = b /\ bars' # <<>>
         /\ Len(curve') = Len(curve) + 1 /\ \A i \in 1 .. Len(curve) : curve'[i] = curve[i]
         /\ Len(curve') = Len(bars') + 1 /\ curve'[1].equity = StartEquity
         /\ \A i \in 1 .. Len(curve') : curve'[i].ts = i - 1
         /\ curve'[Len(curve')].equity = cash' + holding' * b.close
<1> DEFINE last == [ts |-> Len(bars) + 1, equity |-> cash' + holding' * b.close]
<1>1. bars \in Seq(Candles) /\ curve \in Seq(Points) /\ bars' = Append(bars, b) /\ curve' = Append(curve, last)
  BY DEF RunTypeOK, Bar
<1>2. Len(bars) \in Nat /\ Len(curve) = Len(bars) + 1
  BY <1>1 DEF RunFacts
<1>3. Len(bars') = Len(bars) + 1 /\ bars'[Len(bars')] = b /\ bars' # <<>>
  BY <1>1
<1>4. last \in Points
  <2>1. cash' + holding' * b.close \in Int
    <3>1. b.close \in Int
      BY CandlesAssumption
    <3> QED BY <3>1
  <2> QED BY <1>2, <2>1 DEF Points
<1>5. last.ts = Len(bars) + 1 /\ last.equity = cash' + holding' * b.close
  OBVIOUS
<1> HIDE DEF last
<1>6. Len(curve') = Len(curve) + 1 /\ curve'[Len(curve) + 1] = last /\ \A i \in 1 .. Len(curve) : curve'[i] = curve[i]
  BY <1>1, <1>4
<1>7. \A i \in 1 .. Len(curve') : i = Len(curve) + 1 \/ i \in 1 .. Len(curve)
  BY <1>2, <1>6
<1>8. \A i \in 1 .. Len(curve') : curve'[i].ts = i - 1
  <2>1. \A i \in 1 .. Len(curve) : curve[i].ts = i - 1
    BY DEF RunFacts
  <2> QED BY <1>2, <1>5, <1>6, <1>7, <2>1
<1>9. 1 \in 1 .. Len(curve) /\ curve[1].equity = StartEquity
  BY <1>2 DEF RunFacts
<1> QED BY <1>2, <1>3, <1>5, <1>6, <1>8, <1>9

(* A bar without a fill keeps the replay and counts its bar.               *)
LEMMA WatchKeepsReplay ==
  ASSUME ReplayInv, RunTypeOK', NEW b \in Candles, Watch(b)
  PROVE  ReplayInv' /\ Sofar' = Sofar
<1>1. UNCHANGED <<fills, cash, holding>> /\ Bar(b) /\ cash' \in Int /\ holding' \in Int
  BY DEF Watch, RunTypeOK
<1>2. /\ Len(bars') = Len(bars) + 1 /\ bars'[Len(bars')] = b /\ bars' # <<>>
      /\ Len(curve') = Len(curve) + 1 /\ \A i \in 1 .. Len(curve) : curve'[i] = curve[i]
      /\ Len(curve') = Len(bars') + 1 /\ curve'[1].equity = StartEquity
      /\ \A i \in 1 .. Len(curve') : curve'[i].ts = i - 1
      /\ curve'[Len(curve')].equity = cash' + holding' * b.close
  BY <1>1, NextBarFacts DEF ReplayInv
<1>3. bars \in Seq(Candles) /\ Len(bars) \in Nat
  BY DEF ReplayInv, RunTypeOK
<1>4. RunFacts'
  <2>1. IsFiniteSet(fills) /\ fills \subseteq FillRecords
    BY DEF ReplayInv, RunFacts
  <2>2. \A f \in fills : f.ts <= Len(bars') /\ f.id < Len(bars') /\ f.fee = Fee
    <3>1. \A f \in fills : f.ts \in Nat /\ f.id \in Nat
      BY <2>1 DEF FillRecords
    <3>2. \A f \in fills : f.ts <= Len(bars) /\ f.id < Len(bars) /\ f.fee = Fee
      BY DEF ReplayInv, RunFacts
    <3> QED BY <1>2, <1>3, <3>1, <3>2
  <2> QED BY <1>1, <1>2, <2>1, <2>2 DEF RunFacts
<1>5. Sofar' = Sofar
  BY <1>1 DEF Sofar
<1>6. /\ Cardinality(Invested(fills, curve)) \in Nat
      /\ Cardinality(Invested(fills, curve')) = Cardinality(Invested(fills, curve)) + (IF holding # 0 THEN 1 ELSE 0)
  <2>1. Held(fills) = holding
    BY DEF ReplayInv, ReplayAgrees
  <2> QED BY <1>2, <1>3, <2>1, InvestedOnce DEF ReplayInv
<1>7. ReplayAgrees(Sofar)'
  <2> DEFINE r == Sofar
  <2>1. ReplayAgrees(r)
    BY DEF ReplayInv
  <2>2. r.days \in Int /\ r.cursor \in Int
    <3>1. r \in Replays
      <4>1. InOrder(fills) \in Seq(FillRecords)
        BY <2>1 DEF ReplayAgrees
      <4>2. \E h \in [0 .. Len(InOrder(fills)) -> Replays] : r = h[Len(InOrder(fills))]
        BY <4>1, FoldedReplay DEF Sofar
      <4> QED BY <4>1, <4>2
    <3> QED BY <3>1 DEF Replays
  <2> HIDE DEF r
  <2>3. r.days + (IF holding # 0 THEN Len(bars') - r.cursor ELSE 0) = Cardinality(Invested(fills, curve'))
    BY <1>2, <1>3, <1>6, <2>1, <2>2 DEF ReplayAgrees
  <2> QED BY <1>1, <1>5, <2>1, <2>3 DEF ReplayAgrees, r
<1> QED BY <1>4, <1>5, <1>7 DEF ReplayInv

(* A fill comes last in the replay, and books into its position.           *)
LEMMA FillKeepsReplay ==
  ASSUME ReplayInv, RunTypeOK', NEW b \in Candles, NEW t \in Trades, Fill(b, t)
  PROVE  /\ ReplayInv'
         /\ \E f \in fills' \ fills : /\ f \in FillRecords /\ Sofar.position \in Positions
                                      /\ Sofar'.position = Book(Sofar.position, f)
                                      /\ cash' = cash - SignedQty(f) * f.price - f.fee
<1> DEFINE f == [id |-> Len(bars), ts |-> Len(bars) + 1, side |-> t.side, qty |-> t.qty, price |-> b.close, fee |-> Fee]
           r == Sofar
           rr == Replayed(r, f)
<1>1. /\ holding' = holding + SignedQty(t) /\ cash' = cash - SignedQty(t) * b.close - Fee /\ fills' = fills \cup {f}
      /\ Bar(b) /\ cash' \in Int /\ holding' \in Int
  BY DEF Fill, RunTypeOK
<1>2. /\ Len(bars') = Len(bars) + 1 /\ bars'[Len(bars')] = b /\ bars' # <<>>
      /\ Len(curve') = Len(curve) + 1 /\ \A i \in 1 .. Len(curve) : curve'[i] = curve[i]
      /\ Len(curve') = Len(bars') + 1 /\ curve'[1].equity = StartEquity
      /\ \A i \in 1 .. Len(curve') : curve'[i].ts = i - 1
      /\ curve'[Len(curve')].equity = cash' + holding' * b.close
  BY <1>1, NextBarFacts DEF ReplayInv
<1>3. bars \in Seq(Candles) /\ Len(bars) \in Nat /\ holding \in Int /\ Fee \in Nat
  BY AnalyticsAssumption DEF ReplayInv, RunTypeOK
<1>4. /\ f \in FillRecords /\ SignedQty(f) = SignedQty(t)
      /\ f.ts = Len(bars) + 1 /\ f.id = Len(bars) /\ f.fee = Fee /\ f.price = b.close
  <2>1. t.side \in {"buy", "sell"} /\ t.qty \in Nat \ {0} /\ b.close \in Nat \ {0}
    BY TradesAssumption, CandlesAssumption
  <2> QED BY <1>3, <2>1 DEF FillRecords, SignedQty
<1>5. SignedQty(f) \in Int \ {0}
  BY <1>4, SignedQtyFacts
<1> HIDE DEF f
<1>6. /\ IsFiniteSet(fills) /\ fills \subseteq FillRecords
      /\ \A g \in fills : g.ts \in Nat /\ g.id \in Nat /\ g.ts <= Len(bars) /\ g.id < Len(bars) /\ g.fee = Fee
  <2>1. fills \subseteq FillRecords
    BY DEF ReplayInv, RunFacts
  <2>2. \A g \in fills : g.ts \in Nat /\ g.id \in Nat
    BY <2>1 DEF FillRecords
  <2> QED BY <2>1, <2>2 DEF ReplayInv, RunFacts
<1>7. f \notin fills /\ \A g \in fills : g.ts < f.ts /\ g.id # f.id
  BY <1>3, <1>4, <1>6
<1>8. RunFacts'
  <2>1. IsFiniteSet(fills') /\ fills' \subseteq FillRecords
    BY <1>1, <1>4, <1>6, FS_AddElement
  <2>2. \A g \in fills' : g.ts <= Len(bars') /\ g.id < Len(bars') /\ g.fee = Fee
    BY <1>1, <1>2, <1>3, <1>4, <1>6
  <2> QED BY <1>2, <2>1, <2>2 DEF RunFacts
<1>9. ReplayAgrees(r)
  BY DEF ReplayInv
<1>10. InOrder(fills) \in Seq(FillRecords) /\ Len(InOrder(fills)) = Cardinality(fills) /\ r = Replay(InOrder(fills))
  BY <1>9 DEF ReplayAgrees
<1>11. InOrder(fills') = Append(InOrder(fills), f)
  BY <1>1, <1>4, <1>6, <1>7, <1>10, LaterFillIsLast
<1>12. r \in Replays /\ Sofar' = rr
  <2>1. Sofar' = Replay(InOrder(fills'))
    BY DEF Sofar
  <2> QED BY <1>4, <1>10, <1>11, <2>1, OneMoreFill
<1>13. r.position \in Positions /\ r.trades \in Seq(Int) /\ r.days \in Int /\ r.cursor \in Nat
  BY <1>12 DEF Replays
<1>14. r.position.qty = holding /\ Held(fills) = holding
  BY <1>9 DEF ReplayAgrees
<1>15. rr.position = Book(r.position, f)
  <2>1. f.id \notin r.position.applied
    BY <1>7, <1>9 DEF ReplayAgrees
  <2> QED BY <2>1 DEF Replayed, ApplyFill
<1> HIDE DEF r
<1>16. rr.position.qty = holding' /\ rr.position.applied = {g.id : g \in fills'}
  <2>1. rr.position.qty = holding + SignedQty(f) /\ rr.position.applied = r.position.applied \cup {f.id}
    BY <1>14, <1>15 DEF Book
  <2>2. r.position.applied = {g.id : g \in fills}
    BY <1>9 DEF ReplayAgrees
  <2> QED BY <1>1, <1>4, <2>1, <2>2
<1>17. Held(fills') = holding'
  <2>1. \A g \in fills : SignedQty(g) \in Int
    BY <1>6, SignedQtyFacts
  <2> QED BY <1>1, <1>4, <1>5, <1>6, <1>7, <1>14, <2>1, HeldByOneMore
<1>18. AddUp(rr.trades) - Fee * Cardinality(Opening(fills')) = rr.position.realized_pnl
  <2> DEFINE k == Cardinality(Opening(fills))
             gain == PricePnl(r.position, f)
             pnl == r.position.realized_pnl
             total == AddUp(r.trades)
  <2>1. /\ k \in Nat
        /\ Cardinality(Opening(fills')) = k + (IF holding * SignedQty(f) >= 0 THEN 1 ELSE 0)
    BY <1>1, <1>4, <1>6, <1>7, <1>14, OpenedOnce
  <2>2. holding * SignedQty(f) >= 0 <=> SameDirection(r.position, f)
    BY <1>3, <1>5, <1>14, SameSign DEF SameDirection
  <2>3. rr.position.realized_pnl = pnl + (gain - f.fee) /\ pnl \in Int /\ rr.position.realized_pnl \in Int
    <3>1. rr.position \in Positions
      BY <1>4, <1>13, <1>15, BookedType
    <3> QED BY <1>13, <1>15, <3>1 DEF Book, Positions
  <2>4. total - Fee * k = pnl /\ total \in Int
    <3>1. total \in Int
      BY <1>13, AppendedSum
    <3> QED BY <1>9, <3>1 DEF ReplayAgrees
  <2>5. CASE SameDirection(r.position, f)
    <3>1. rr.trades = r.trades /\ gain = 0
      BY <2>5 DEF Replayed, IsClosing, PricePnl
    <3>2. Cardinality(Opening(fills')) = k + 1
      BY <2>1, <2>2, <2>5
    <3> HIDE DEF k, pnl, total, gain, rr
    <3>3. Fee * (k + 1) = Fee * k + Fee /\ Fee * k \in Int
      BY <1>3, <2>1
    <3>4. AddUp(rr.trades) = total
      BY <3>1 DEF total
    <3> QED BY <1>3, <1>4, <2>3, <2>4, <3>1, <3>2, <3>3, <3>4
  <2>6. CASE ~SameDirection(r.position, f)
    <3> DEFINE won == rr.position.realized_pnl - pnl
    <3>1. rr.trades = Append(r.trades, won)
      <4>1. IsClosing(r.position, f)
        BY <2>6 DEF IsClosing, SameDirection
      <4> QED BY <4>1 DEF Replayed
    <3>2. Cardinality(Opening(fills')) = k
      BY <2>1, <2>2, <2>6
    <3>3. won \in Int
      BY <2>3
    <3> HIDE DEF k, total, gain, won, rr
    <3>4. AddUp(rr.trades) = total + won
      BY <1>13, <3>1, <3>3, AppendedSum DEF total
    <3>5. Fee * k \in Int
      BY <1>3, <2>1
    <3> HIDE DEF pnl
    <3> QED BY <2>3, <2>4, <3>2, <3>3, <3>4, <3>5 DEF won
  <2> QED BY <2>5, <2>6
<1>19. rr.days + (IF holding' # 0 THEN Len(bars') - rr.cursor ELSE 0) = Cardinality(Invested(fills', curve'))
  <2>1. rr.days = r.days + (IF r.position.qty # 0 THEN f.ts - r.cursor ELSE 0) /\ rr.cursor = f.ts
    BY Zenon DEF Replayed
  <2> HIDE DEF rr
  <2>2. rr.days = r.days + (IF holding # 0 THEN Len(bars) + 1 - r.cursor ELSE 0) /\ rr.cursor = Len(bars) + 1
    <3>1. r.position.qty = holding /\ f.ts = Len(bars) + 1
      BY <1>4, <1>14
    <3>2. Len(bars) \in Nat /\ r.cursor \in Nat
      BY <1>3, <1>13
    <3>3. f.ts - r.cursor = Len(bars) + 1 - r.cursor
      BY <3>1, <3>2
    <3> QED BY <2>1, <3>1, <3>3
  <2>3. /\ Cardinality(Invested(fills, curve)) \in Nat
        /\ Cardinality(Invested(fills', curve')) = Cardinality(Invested(fills, curve)) + (IF holding # 0 THEN 1 ELSE 0)
    <3>1. fills \subseteq fills' /\ \A g \in fills' \ fills : g.ts = Len(bars) + 1
      BY <1>1, <1>4
    <3> QED BY <1>2, <1>3, <1>14, <3>1, InvestedOnce DEF ReplayInv
  <2>4. r.days + (IF holding # 0 THEN Len(bars) - r.cursor ELSE 0) = Cardinality(Invested(fills, curve))
    BY <1>9 DEF ReplayAgrees
  <2> QED BY <1>2, <1>3, <1>13, <2>2, <2>3, <2>4
<1>20. InOrder(fills') \in Seq(FillRecords) /\ Len(InOrder(fills')) = Cardinality(fills')
  <2>1. Cardinality(fills') = Cardinality(fills) + 1
    BY <1>1, <1>6, <1>7, FS_AddElement
  <2> QED BY <1>4, <1>10, <1>11, <2>1
<1> HIDE DEF rr
<1>21. ReplayAgrees(Sofar)'
  <2>1. Sofar' = Replay(InOrder(fills'))
    BY DEF Sofar
  <2> QED BY <1>12, <1>16, <1>17, <1>18, <1>19, <1>20, <2>1 DEF ReplayAgrees
<1>22. cash' = cash - SignedQty(f) * f.price - f.fee /\ f \in fills' \ fills
  BY <1>1, <1>4, <1>7
<1>23. Sofar.position \in Positions /\ Sofar'.position = Book(Sofar.position, f)
  BY <1>12, <1>13, <1>15 DEF r
<1> QED BY <1>4, <1>8, <1>21, <1>22, <1>23 DEF ReplayInv

(* Before the first bar the replay is flat and has no trades.              *)
LEMMA ReplayStarts == RunInit => ReplayInv /\ CashInv
<1> SUFFICES ASSUME RunInit PROVE ReplayInv /\ CashInv
  OBVIOUS
<1>1. /\ bars = <<>> /\ curve = <<[ts |-> 0, equity |-> StartEquity]>> /\ fills = {}
      /\ cash = StartEquity /\ holding = 0 /\ StartEquity \in Nat /\ Fee \in Nat
  BY AnalyticsAssumption DEF RunInit
<1>2. RunTypeOK
  <2>1. [ts |-> 0, equity |-> StartEquity] \in Points
    BY <1>1 DEF Points
  <2> QED BY <1>1, <2>1 DEF RunTypeOK
<1>3. RunFacts
  <2>1. Len(curve) = 1 /\ Len(bars) = 0 /\ curve[1].equity = StartEquity /\ curve[1].ts = 0
    BY <1>1
  <2>2. \A i \in 1 .. Len(curve) : curve[i].ts = i - 1
    BY <2>1
  <2>3. IsFiniteSet(fills)
    BY <1>1, FS_EmptySet
  <2> QED BY <1>1, <2>1, <2>2, <2>3 DEF RunFacts
<1>4. Sofar = NoFillYet
  BY <1>1, NoFillInOrder, NothingReplayed DEF Sofar
<1>5. NoFillYet.position = Flat /\ NoFillYet.trades = <<>> /\ NoFillYet.days = 0 /\ NoFillYet.cursor = 0
  BY DEF NoFillYet
<1>6. Flat.qty = 0 /\ Flat.avg_entry = 0 /\ Flat.realized_pnl = 0 /\ Flat.applied = {}
  BY DEF Flat
<1>7. Cardinality(Opening(fills)) = 0 /\ Cardinality(Invested(fills, curve)) = 0
  <2>1. Opening(fills) = {}
    BY <1>1 DEF Opening
  <2>2. Invested(fills, curve) = {}
    <3>1. 1 .. Len(curve) - 1 = {}
      BY <1>1
    <3> QED BY <3>1 DEF Invested
  <2> QED BY <2>1, <2>2, FS_EmptySet
<1>8. InOrder(fills) = <<>> /\ Cardinality(fills) = 0 /\ Held(fills) = 0
  BY <1>1, NoFillInOrder, HeldByNone, FS_EmptySet
<1>9. ReplayAgrees(Sofar)
  <2>1. AddUp(Sofar.trades) - Fee * Cardinality(Opening(fills)) = Sofar.position.realized_pnl
    BY <1>1, <1>4, <1>5, <1>6, <1>7, EmptySum
  <2>2. Sofar.days + (IF holding # 0 THEN Len(bars) - Sofar.cursor ELSE 0) = Cardinality(Invested(fills, curve))
    BY <1>1, <1>4, <1>5, <1>7
  <2>3. Sofar.position.qty = holding /\ Held(fills) = holding /\ Sofar.position.applied = {f.id : f \in fills}
    BY <1>1, <1>4, <1>5, <1>6, <1>8
  <2>4. InOrder(fills) \in Seq(FillRecords) /\ Len(InOrder(fills)) = Cardinality(fills)
    BY <1>8
  <2> QED BY <2>1, <2>2, <2>3, <2>4 DEF ReplayAgrees, Sofar
<1>10. CashInv
  BY <1>1, <1>4, <1>5, <1>6 DEF CashInv, CashOf
<1> QED BY <1>2, <1>3, <1>9, <1>10 DEF ReplayInv

(* compute_tearsheet replays the fills from the first point of the curve. *)
LEMMA ReplayedFromStart ==
  ASSUME ReplayInv
  PROVE  /\ ReplayFills(fills, curve).position = Sofar.position
         /\ ReplayFills(fills, curve).trades = Sofar.trades
         /\ ReplayFills(fills, curve).days = Cardinality(Invested(fills, curve))
<1>1. curve \in Seq(Points) /\ bars \in Seq(Candles) /\ Len(curve) = Len(bars) + 1
  BY DEF ReplayInv, RunTypeOK, RunFacts
<1>2. 1 \in 1 .. Len(curve) /\ Len(curve) \in 1 .. Len(curve) /\ Last(curve) = curve[Len(curve)]
  BY <1>1 DEF Last
<1>3. curve[1].ts = 0 /\ Last(curve).ts = Len(bars)
  BY <1>1, <1>2 DEF ReplayInv, RunFacts
<1>4. [position |-> Flat, trades |-> <<>>, days |-> 0, cursor |-> curve[1].ts] = NoFillYet
  BY <1>3 DEF NoFillYet
<1>5. FoldLeft(Replayed, [position |-> Flat, trades |-> <<>>, days |-> 0, cursor |-> curve[1].ts], InOrder(fills)) = Sofar
  BY <1>4, Zenon DEF Sofar, Replay
<1>6. ReplayFills(fills, curve) =
        [ position |-> Sofar.position, trades |-> Sofar.trades,
          days |-> Sofar.days + (IF Sofar.position.qty # 0 THEN Last(curve).ts - Sofar.cursor ELSE 0) ]
  BY <1>5, Zenon DEF ReplayFills
<1> QED BY <1>3, <1>6 DEF ReplayInv, ReplayAgrees

(* Every step keeps the two invariants, if its fill rounds no average.     *)
LEMMA ReplayStep ==
  ASSUME ReplayInv, CashInv, RunTypeOK', [RunNext]_runVars,
         [\A f \in fills' \ fills : ExactAverage(ReplayFills(fills, curve).position, f)]_runVars
  PROVE  ReplayInv' /\ CashInv'
<1>1. CASE UNCHANGED runVars
  BY <1>1 DEF runVars, ReplayInv, RunTypeOK, RunFacts, ReplayAgrees, CashInv, Sofar
<1>2. ASSUME NEW b \in Candles, Watch(b) PROVE ReplayInv' /\ CashInv'
  <2>1. ReplayInv' /\ Sofar' = Sofar
    BY <1>2, WatchKeepsReplay
  <2> QED BY <1>2, <2>1 DEF CashInv, Watch
<1>3. ASSUME NEW b \in Candles, NEW t \in Trades, Fill(b, t) PROVE ReplayInv' /\ CashInv'
  <2>1. ReplayInv'
    BY <1>3, FillKeepsReplay
  <2>2. PICK f \in fills' \ fills : /\ f \in FillRecords /\ Sofar.position \in Positions
                                    /\ Sofar'.position = Book(Sofar.position, f)
                                    /\ cash' = cash - SignedQty(f) * f.price - f.fee
    BY <1>3, FillKeepsReplay
  <2>3. ExactAverage(Sofar.position, f)
    <3>1. runVars' # runVars
      BY <2>2 DEF runVars
    <3> QED BY <2>2, <3>1, ReplayedFromStart
  <2>4. CashOf(Book(Sofar.position, f)) = CashOf(Sofar.position) - SignedQty(f) * f.price - f.fee
    BY <2>2, <2>3, BookedCash
  <2>5. CashOf(Sofar'.position) = cash' - StartEquity
    <3> DEFINE x == SignedQty(f) * f.price
    <3>1. x \in Int /\ f.fee \in Int /\ cash \in Int /\ StartEquity \in Int
      <4>1. f.price \in Int /\ f.fee \in Int
        BY <2>2 DEF FillRecords
      <4>2. SignedQty(f) \in Int
        BY <2>2, SignedQtyFacts
      <4>3. cash \in Int
        BY DEF ReplayInv, RunTypeOK
      <4>4. StartEquity \in Int
        BY AnalyticsAssumption
      <4> QED BY <4>1, <4>2, <4>3, <4>4
    <3> HIDE DEF x
    <3>2. CashOf(Sofar'.position) = (cash - StartEquity) - x - f.fee /\ cash' = cash - x - f.fee
      BY <2>2, <2>4 DEF CashInv, x
    <3> QED BY <3>1, <3>2
  <2> QED BY <2>1, <2>5 DEF CashInv
<1> QED BY <1>1, <1>2, <1>3 DEF RunNext

(* As long as no fill rounds the average of the position which it meets,   *)
(* the trades of the tearsheet, the fees of the other fills and the value  *)
(* of the open position explain the change of the equity, and the days in  *)
(* the market are the bars that began with a position: what _replay_fills  *)
(* makes of the fills is what the account has seen.                        *)
THEOREM TradesExplainTheRun == RunSpec /\ ExactFills => []TradesExplainEquity
<1>1. RunInit => ReplayInv /\ CashInv
  BY ReplayStarts
<1>2. ReplayInv /\ CashInv /\ RunTypeOK' /\ [RunNext]_runVars
        /\ [\A f \in fills' \ fills : ExactAverage(ReplayFills(fills, curve).position, f)]_runVars
          => ReplayInv' /\ CashInv'
  BY ReplayStep
<1>3. ReplayInv /\ CashInv => TradesExplainEquity
  <2> SUFFICES ASSUME ReplayInv, CashInv, Complete PROVE TradesExplainEquity
    BY DEF TradesExplainEquity
  <2> DEFINE r == ReplayFills(fills, curve)
             p == Sofar.position
             held(F) == MapThenSumSet(SignedQty, F)
             upto(i) == {f \in fills : f.ts <= curve[i].ts}
             invested == {i \in 1 .. Len(curve) - 1 : held(upto(i)) # 0}
             opening == {f \in fills : held({g \in fills : g.ts < f.ts}) * SignedQty(f) >= 0}
  <2>1. r.position = p /\ r.trades = Sofar.trades /\ r.days = Cardinality(Invested(fills, curve))
    BY ReplayedFromStart
  <2>2. opening = Opening(fills) /\ invested = Invested(fills, curve)
    BY Zenon DEF Opening, Invested, Held
  <2>3. Sheet.days_in_market = r.days
    BY DEF Sheet, ComputeTearsheet
  <2>4. curve \in Seq(Points) /\ bars \in Seq(Candles) /\ Len(curve) = Len(bars) + 1 /\ Len(curve) >= 2
    BY DEF ReplayInv, RunTypeOK, RunFacts, Complete, Rejected
  <2>5. Len(bars) \in 1 .. Len(bars) /\ bars # <<>> /\ curve # <<>>
    BY <2>4
  <2>6. Last(Closes(bars)) = bars[Len(bars)].close /\ bars[Len(bars)].close \in Int
    <3>1. Len(Closes(bars)) = Len(bars) /\ Closes(bars)[Len(bars)] = bars[Len(bars)].close
      BY <2>4, <2>5 DEF Closes
    <3>2. bars[Len(bars)] \in Candles
      BY <2>4, <2>5
    <3> QED BY <3>1, <3>2, CandlesAssumption DEF Last
  <2>7. Last(curve).equity = cash + holding * bars[Len(bars)].close /\ Head(curve).equity = StartEquity
    BY <2>4, <2>5 DEF Last, ReplayInv, RunFacts
  <2>8. SumOf(r.trades) = AddUp(Sofar.trades)
    BY <2>1, Zenon DEF SumOf, AddUp
  <2>9. /\ AddUp(Sofar.trades) - Fee * Cardinality(Opening(fills)) = p.realized_pnl /\ p.qty = holding
        /\ p.realized_pnl - p.qty * p.avg_entry = cash - StartEquity
    BY DEF ReplayInv, ReplayAgrees, CashInv, CashOf
  <2>10. p \in Positions /\ cash \in Int /\ holding \in Int /\ StartEquity \in Int
    <3>1. InOrder(fills) \in Seq(FillRecords)
      BY DEF ReplayInv, ReplayAgrees
    <3>2. Sofar \in Replays
      <4>1. PICK h \in [0 .. Len(InOrder(fills)) -> Replays] : Sofar = h[Len(InOrder(fills))]
        BY <3>1, FoldedReplay DEF Sofar
      <4> QED BY <3>1, <4>1
    <3> QED BY <3>2, AnalyticsAssumption DEF Replays, ReplayInv, RunTypeOK
  <2> HIDE DEF r, p, held, opening, invested
  <2>11. SumOf(r.trades) - Fee * Cardinality(opening) + r.position.qty * (Last(Closes(bars)) - r.position.avg_entry)
           = Last(curve).equity - Head(curve).equity
    <3> DEFINE close == Last(Closes(bars))
               avg == p.avg_entry
    <3>1. close \in Int /\ avg \in Int /\ p.realized_pnl \in Int
      BY <2>6, <2>10 DEF Positions
    <3>2. /\ SumOf(r.trades) - Fee * Cardinality(opening) = p.realized_pnl
          /\ r.position.qty = holding /\ r.position.avg_entry = avg
          /\ p.realized_pnl - holding * avg = cash - StartEquity
          /\ Last(curve).equity = cash + holding * close /\ Head(curve).equity = StartEquity
      BY <2>1, <2>2, <2>6, <2>7, <2>8, <2>9
    <3> HIDE DEF close, avg
    <3>3. holding * (close - avg) = holding * close - holding * avg /\ holding * close \in Int /\ holding * avg \in Int
      BY <2>10, <3>1
    <3>4. p.realized_pnl + holding * (close - avg) = (cash + holding * close) - StartEquity
      BY <2>10, <3>1, <3>2, <3>3
    <3> QED BY <3>2, <3>4 DEF close
  <2>12. Sheet.days_in_market = Cardinality(invested)
    BY <2>1, <2>2, <2>3
  <2> QED BY <2>11, <2>12, Zenon DEF TradesExplainEquity, r, held, upto, opening, invested
<1> QED BY <1>1, <1>2, <1>3, RunTypes, PTL DEF RunSpec, ExactFills
-----------------------------------------------------------------------------
(* The exponential averages.  The vectorized one is a weighed sum over all  *)
(* values, the streaming one a step from the last average.  They are equal *)
(* where no division has a remainder.                                      *)

(* A power is a product of that many factors. *)
LEMMA PowerSteps ==
  ASSUME NEW b \in Int, NEW n \in Nat
  PROVE  Power(b, 0) = 1 /\ Power(b, n) \in Int /\ Power(b, n + 1) = b * Power(b, n)
<1> DEFINE step(m) == [p \in (1 .. m) \X Int |-> b * p[2]]
           IsLoop(m, f) == f = [k \in 0 .. m |-> IF k = 0 THEN 1 ELSE b * f[k - 1]]
           loop(m) == CHOOSE f : IsLoop(m, f)
<1>1. ASSUME NEW m \in Nat, NEW k \in 1 .. m, NEW x \in Int PROVE step(m)[<<k, x>>] = b * x
  <2>1. <<k, x>> \in (1 .. m) \X Int /\ <<k, x>>[2] = x
    OBVIOUS
  <2> QED BY <2>1, Zenon
<1>2. ASSUME NEW m \in Nat PROVE step(m) \in [(1 .. m) \X Int -> Int]
  OBVIOUS
<1>3. ASSUME NEW m \in Nat PROVE Power(b, m) = loop(m)[m]
  BY Zenon DEF Power
<1>4. ASSUME NEW m \in Nat
      PROVE  /\ loop(m) \in [0 .. m -> Int] /\ loop(m)[0] = 1
             /\ \A k \in 1 .. m : loop(m)[k] = b * loop(m)[k - 1]
  <2> HIDE DEF step
  <2>1. PICK f \in [0 .. m -> Int] : f[0] = 1 /\ \A k \in 1 .. m : f[k] = step(m)[<<k, f[k - 1]>>]
    <3>1. \E f \in [0 .. m -> Int] : Iterates(f, m, 1, step(m))
      <4>1. 1 \in Int
        OBVIOUS
      <4> QED BY <1>2, <4>1, RecursionExists
    <3> QED BY <3>1 DEF Iterates
  <2>2. ASSUME NEW k \in 0 .. m PROVE f[k] = IF k = 0 THEN 1 ELSE b * f[k - 1]
    <3>1. k # 0 => k \in 1 .. m /\ k - 1 \in 0 .. m
      OBVIOUS
    <3>2. k # 0 => f[k] = step(m)[<<k, f[k - 1]>>] /\ f[k - 1] \in Int
      BY <2>1, <3>1
    <3>3. k # 0 => f[k] = b * f[k - 1]
      BY <1>1, <3>1, <3>2
    <3> QED BY <2>1, <3>3
  <2>3. IsLoop(m, f)
    BY <2>1, <2>2
  <2>4. IsLoop(m, loop(m))
    BY <2>3, Zenon
  <2> DEFINE c == loop(m)
  <2>5. c = [k \in 0 .. m |-> IF k = 0 THEN 1 ELSE b * c[k - 1]]
    BY <2>4
  <2> HIDE DEF c
  <2>6. DOMAIN c = 0 .. m /\ c = [k \in DOMAIN c |-> c[k]] /\ c[0] = 1 /\ \A k \in 1 .. m : c[k] = b * c[k - 1]
    <3>1. \A k \in 0 .. m : c[k] = IF k = 0 THEN 1 ELSE b * c[k - 1]
      BY <2>5
    <3>2. 0 \in 0 .. m /\ \A k \in 1 .. m : k \in 0 .. m /\ k # 0
      OBVIOUS
    <3> QED BY <2>5, <3>1, <3>2
  <2>7. Follows(c, m, Int, 1, step(m))
    BY <1>1, <2>6 DEF Follows
  <2>8. c \in [0 .. m -> Int]
    <3>1. 1 \in Int
      OBVIOUS
    <3> QED BY <1>2, <2>7, <3>1, SameLoop
  <2>9. c \in [0 .. m -> Int] /\ c[0] = 1 /\ \A k \in 1 .. m : c[k] = b * c[k - 1]
    BY <2>6, <2>8
  <2> QED BY <2>9 DEF c
<1> HIDE DEF loop
<1> DEFINE T == {k \in 0 .. n : loop(n)[k] = loop(n + 1)[k]}
<1>5. n + 1 \in Nat
  OBVIOUS
<1>6. 0 \in T
  BY <1>4, <1>5
<1>7. ASSUME NEW k \in 0 .. n - 1, k \in T PROVE k + 1 \in T
  <2>1. k + 1 \in 1 .. n /\ k + 1 \in 1 .. n + 1 /\ k + 1 \in 0 .. n /\ (k + 1) - 1 = k
    OBVIOUS
  <2>2. loop(n)[k + 1] = b * loop(n)[k]
    BY <1>4, <2>1
  <2>3. loop(n + 1)[k + 1] = b * loop(n + 1)[k]
    BY <1>4, <1>5, <2>1
  <2> QED BY <1>7, <2>1, <2>2, <2>3
<1> HIDE DEF T
<1>8. n \in T
  <2>1. 0 .. n \subseteq T
    BY <1>6, <1>7, InductionTo
  <2> QED BY <2>1
<1>9. n + 1 \in 1 .. n + 1 /\ (n + 1) - 1 = n /\ 0 \in Nat /\ n \in 0 .. n
  OBVIOUS
<1>10. loop(n + 1)[n + 1] = b * loop(n + 1)[n]
  BY <1>4, <1>5, <1>9
<1>11. loop(n + 1)[n] = loop(n)[n]
  BY <1>8 DEF T
<1>12. Power(b, n + 1) = b * Power(b, n)
  BY <1>3, <1>5, <1>10, <1>11
<1>13. Power(b, 0) = 1
  BY <1>3, <1>4, <1>9
<1>14. Power(b, n) \in Int
  BY <1>3, <1>4, <1>9
<1> QED BY <1>12, <1>13, <1>14

(* A power of a positive number is positive. *)
LEMMA PowerIsPositive ==
  ASSUME NEW b \in Nat \ {0}, NEW n \in Nat
  PROVE  Power(b, n) \in Nat \ {0}
<1> DEFINE T == {k \in 0 .. n : Power(b, k) \in Nat \ {0}}
<1>1. b \in Int /\ 0 \in Nat /\ \A x, y \in Nat \ {0} : x * y \in Nat \ {0}
  OBVIOUS
<1>2. 0 \in T
  <2>1. Power(b, 0) = 1
    BY <1>1, PowerSteps
  <2> QED BY <2>1
<1>3. ASSUME NEW k \in 0 .. n - 1, k \in T PROVE k + 1 \in T
  <2>1. k \in Nat /\ k + 1 \in 0 .. n
    OBVIOUS
  <2>2. Power(b, k + 1) = b * Power(b, k)
    BY <1>1, <2>1, PowerSteps
  <2>3. Power(b, k) \in Nat \ {0}
    BY <1>3
  <2>4. Power(b, k + 1) \in Nat \ {0}
    BY <1>1, <2>2, <2>3, Zenon
  <2> QED BY <2>1, <2>4
<1> HIDE DEF T
<1>4. 0 .. n \subseteq T
  BY <1>2, <1>3, InductionTo
<1> QED BY <1>4 DEF T

(* The sum of a function is the one that does not depend on the order.     *)
LEMMA SummedIsSum ==
  ASSUME NEW D, IsFiniteSet(D), NEW v \in [D -> Int], NEW f, Adds(f, v, D)
  PROVE  Summed(v) = f[D]
<1> DEFINE first(t) == CHOOSE x \in t : TRUE
           IsFold(g) == g = [t \in SUBSET D |-> IF t = {} THEN 0 ELSE v[first(t)] + g[t \ {first(t)}]]
           g == CHOOSE h : IsFold(h)
           r == [t \in SUBSET D |-> f[t]]
<1>1. Summed(v) = g[D]
  <2>1. DOMAIN v = D
    OBVIOUS
  <2> QED BY <2>1, Zenon DEF Summed, FoldFunction, FoldFunctionOnSet, MapThenFoldSet
<1>2. \A t \in SUBSET D : t # {} => first(t) \in t
  OBVIOUS
<1> HIDE DEF first
<1>3. ASSUME NEW t \in SUBSET D
      PROVE  f[t] = IF t = {} THEN 0 ELSE v[first(t)] + f[t \ {first(t)}]
  <2>1. CASE t = {}
    BY <2>1 DEF Adds
  <2>2. CASE t # {}
    BY <1>2, <2>2 DEF Adds
  <2> QED BY <2>1, <2>2
<1>4. IsFold(r)
  <2>1. \A t \in SUBSET D : r[t] = f[t] /\ (t \ {first(t)}) \in SUBSET D
    OBVIOUS
  <2>2. \A t \in SUBSET D : r[t] = IF t = {} THEN 0 ELSE v[first(t)] + r[t \ {first(t)}]
    BY <1>3, <2>1
  <2> QED BY <2>2
<1>5. IsFold(g)
  BY <1>4, Zenon
<1> HIDE DEF g, r
<1>6. \A t \in SUBSET D : g[t] = IF t = {} THEN 0 ELSE v[first(t)] + g[t \ {first(t)}]
  BY <1>5
<1> DEFINE n == Cardinality(D)
           Small(m) == {t \in SUBSET D : Cardinality(t) <= m}
           T == {m \in 0 .. n : \A t \in Small(m) : g[t] = f[t]}
<1>7. n \in Nat /\ \A t \in SUBSET D : IsFiniteSet(t) /\ Cardinality(t) \in Nat /\ Cardinality(t) <= n
  BY FS_Subset, FS_CardinalityType
<1> HIDE DEF n
<1>8. 0 \in T
  <2>1. \A t \in Small(0) : t = {}
    BY <1>7, FS_EmptySet
  <2>2. 0 \in 0 .. n /\ {} \in SUBSET D
    BY <1>7
  <2> HIDE DEF Small
  <2> QED BY <1>3, <1>6, <2>1, <2>2
<1>9. ASSUME NEW m \in 0 .. n - 1, m \in T PROVE m + 1 \in T
  <2>1. m + 1 \in 0 .. n
    BY <1>7
  <2>2. ASSUME NEW t \in Small(m + 1) PROVE g[t] = f[t]
    <3>1. CASE t = {}
      BY <1>3, <1>6, <3>1
    <3>2. CASE t # {}
      <4>1. first(t) \in t
        BY <1>2, <3>2
      <4>2. Cardinality(t \ {first(t)}) = Cardinality(t) - 1
        BY <1>7, <4>1, FS_RemoveElement
      <4>3. t \ {first(t)} \in Small(m)
        BY <1>7, <1>9, <4>2
      <4>4. g[t \ {first(t)}] = f[t \ {first(t)}] /\ t \in SUBSET D
        BY <1>9, <4>3
      <4> QED BY <1>3, <1>6, <3>2, <4>4
    <3> QED BY <3>1, <3>2
  <2> HIDE DEF Small
  <2> QED BY <2>1, <2>2
<1> HIDE DEF T
<1>10. n \in T
  <2>1. 0 .. n \subseteq T
    BY <1>7, <1>8, <1>9, InductionTo
  <2> QED BY <1>7, <2>1
<1>11. g[D] = f[D]
  BY <1>7, <1>10 DEF T, n
<1> QED BY <1>1, <1>11

(* Over an interval the sum is a running total. *)
LEMMA SummedLoop ==
  ASSUME NEW a \in Int, NEW n \in Nat, NEW v \in [a + 1 .. a + n -> Int]
  PROVE  \E h \in [0 .. n -> Int] :
           /\ h[0] = 0 /\ \A k \in 1 .. n : h[k] = h[k - 1] + v[a + k]
           /\ Summed(v) = h[n]
<1> DEFINE D == a + 1 .. a + n
<1>1. IsFiniteSet(D)
  BY FS_Interval
<1>2. PICK f : Adds(f, v, D)
  BY <1>1, SumExists
<1>3. Summed(v) = f[D]
  BY <1>1, <1>2, SummedIsSum
<1> DEFINE h == [k \in 0 .. n |-> f[a + 1 .. a + k]]
<1>4. \A k \in 0 .. n : a + 1 .. a + k \in SUBSET D
  OBVIOUS
<1>5. h \in [0 .. n -> Int]
  BY <1>2, <1>4 DEF Adds
<1>6. h[0] = 0
  <2>1. a + 1 .. a + 0 = {} /\ 0 \in 0 .. n
    OBVIOUS
  <2>2. h[0] = f[a + 1 .. a + 0]
    BY <2>1
  <2>3. f[{}] = 0
    BY <1>2 DEF Adds
  <2> HIDE DEF h
  <2> QED BY <2>1, <2>2, <2>3, Zenon
<1>7. ASSUME NEW k \in 1 .. n PROVE h[k] = h[k - 1] + v[a + k]
  <2> DEFINE t == a + 1 .. a + k
             s == a + 1 .. a + (k - 1)
  <2>1. t \in SUBSET D /\ a + k \in t /\ t \ {a + k} = s
    OBVIOUS
  <2>2. h[k] = f[t] /\ h[k - 1] = f[s]
    OBVIOUS
  <2>3. f[t] = v[a + k] + f[t \ {a + k}]
    BY <1>2, <2>1 DEF Adds
  <2>4. v[a + k] \in Int /\ h[k - 1] \in Int
    <3>1. k - 1 \in 0 .. n /\ a + k \in D
      OBVIOUS
    <3> HIDE DEF h
    <3> QED BY <1>5, <3>1
  <2> HIDE DEF h, s, t
  <2>5. h[k] = v[a + k] + h[k - 1]
    BY <2>1, <2>2, <2>3
  <2> QED BY <2>4, <2>5
<1>8. Summed(v) = h[n]
  <2>1. h[n] = f[a + 1 .. a + n]
    OBVIOUS
  <2> QED BY <1>3, <2>1
<1> HIDE DEF h
<1>9. \A k \in 1 .. n : h[k] = h[k - 1] + v[a + k]
  BY <1>7
<1> WITNESS h \in [0 .. n -> Int]
<1> QED BY <1>6, <1>8, <1>9

(* A sum of one more number, the others scaled. *)
LEMMA ScaledSum ==
  ASSUME NEW n \in Nat, NEW p \in Int, NEW v \in [1 .. n -> Int], NEW w \in [1 .. n + 1 -> Int],
         \A k \in 1 .. n : w[k] = p * v[k]
  PROVE  Summed(w) = p * Summed(v) + w[n + 1] /\ Summed(v) \in Int
<1>1. v \in [0 + 1 .. 0 + n -> Int] /\ w \in [0 + 1 .. 0 + (n + 1) -> Int] /\ 0 \in Int /\ n + 1 \in Nat
  OBVIOUS
<1>2. \A k \in Int : 0 + k = k
  OBVIOUS
<1>3. PICK h \in [0 .. n -> Int] :
        /\ h[0] = 0 /\ \A k \in 1 .. n : h[k] = h[k - 1] + v[0 + k]
        /\ Summed(v) = h[n]
  BY <1>1, SummedLoop
<1>4. PICK g \in [0 .. n + 1 -> Int] :
        /\ g[0] = 0 /\ \A k \in 1 .. n + 1 : g[k] = g[k - 1] + w[0 + k]
        /\ Summed(w) = g[n + 1]
  BY <1>1, SummedLoop
<1> DEFINE T == {k \in 0 .. n : g[k] = p * h[k]}
<1>5. 0 \in T
  <2>1. p * 0 = 0 /\ 0 \in 0 .. n
    OBVIOUS
  <2> QED BY <1>3, <1>4, <2>1
<1>6. ASSUME NEW k \in 0 .. n - 1, k \in T PROVE k + 1 \in T
  <2>1. k + 1 \in 1 .. n /\ k + 1 \in 1 .. n + 1 /\ k + 1 \in 0 .. n /\ (k + 1) - 1 = k /\ 0 + (k + 1) = k + 1
    OBVIOUS
  <2>2. h[k + 1] = h[k] + v[k + 1] /\ g[k + 1] = g[k] + p * v[k + 1] /\ g[k] = p * h[k]
    BY <1>3, <1>4, <1>6, <2>1
  <2>3. h[k] \in Int /\ v[k + 1] \in Int
    BY <2>1
  <2>4. \A x, y \in Int : p * (x + y) = p * x + p * y
    OBVIOUS
  <2>5. p * (h[k] + v[k + 1]) = p * h[k] + p * v[k + 1]
    BY <2>3, <2>4
  <2>6. g[k + 1] = p * h[k + 1]
    BY <2>2, <2>5
  <2> QED BY <2>1, <2>6
<1> HIDE DEF T
<1>7. g[n] = p * h[n]
  <2>1. 0 .. n \subseteq T
    BY <1>5, <1>6, InductionTo
  <2> QED BY <2>1 DEF T
<1>8. n + 1 \in 1 .. n + 1 /\ (n + 1) - 1 = n /\ 0 + (n + 1) = n + 1 /\ n \in 0 .. n
  OBVIOUS
<1>9. g[n + 1] = g[n] + w[n + 1]
  BY <1>4, <1>8
<1>10. h[n] \in Int
  BY <1>8
<1> QED BY <1>3, <1>4, <1>7, <1>9, <1>10

Spans == Nat \ {0}

(* The weights are integers. *)
LEMMA WeightIsInt ==
  ASSUME NEW span \in Spans, NEW i \in Nat, NEW k \in 1 .. i
  PROVE  Weight(span, k, i) \in Int
<1>1. span - 1 \in Int /\ span + 1 \in Int /\ i - 1 \in Nat /\ i - k \in Nat /\ (k # 1 => k - 2 \in Nat)
  BY DEF Spans
<1>2. Power(span - 1, i - 1) \in Int /\ Power(span - 1, i - k) \in Int /\ (k # 1 => Power(span + 1, k - 2) \in Int)
  BY <1>1, PowerSteps
<1>3. \A x, y \in Int : 2 * x * y \in Int
  OBVIOUS
<1> QED BY <1>2, <1>3 DEF Weight

(* The weighed sum at the next value. *)
LEMMA WeighedSteps ==
  ASSUME NEW span \in Spans, NEW v \in Seq(Int), NEW i \in 1 .. Len(v) - 1
  PROVE  /\ Weighed(v, span, i) \in Int
         /\ Weighed(v, span, i + 1) = (span - 1) * Weighed(v, span, i) + 2 * Power(span + 1, i - 1) * v[i + 1]
<1> DEFINE p == span - 1
           x == [k \in 1 .. i |-> Weight(span, k, i) * v[k]]
           y == [k \in 1 .. i + 1 |-> Weight(span, k, i + 1) * v[k]]
<1>1. p \in Int /\ i \in Nat /\ i + 1 \in Nat /\ i + 1 \in 1 .. Len(v) /\ i - 1 \in Nat
  BY DEF Spans
<1>2. ASSUME NEW k \in 1 .. i PROVE Weight(span, k, i + 1) = p * Weight(span, k, i)
  <2>1. i - k \in Nat /\ (i - 1) + 1 = i + 1 - 1 /\ (i - k) + 1 = i + 1 - k
    OBVIOUS
  <2>2. Power(p, i + 1 - 1) = p * Power(p, i - 1)
    BY <1>1, <2>1, PowerSteps
  <2>3. Power(p, i + 1 - k) = p * Power(p, i - k) /\ Power(p, i - k) \in Int
    BY <1>1, <2>1, PowerSteps
  <2>4. CASE k = 1
    BY <2>2, <2>4 DEF Weight
  <2>5. CASE k # 1
    <3> DEFINE a == Power(p, i - k)
               b == Power(span + 1, k - 2)
    <3>1. a \in Int /\ b \in Int
      <4>1. k - 2 \in Nat /\ span + 1 \in Int
        BY <2>5 DEF Spans
      <4> QED BY <2>3, <4>1, PowerSteps
    <3>2. Weight(span, k, i) = 2 * a * b /\ Weight(span, k, i + 1) = 2 * (p * a) * b
      BY <2>3, <2>5 DEF Weight
    <3> HIDE DEF a, b, p
    <3>3. 2 * (p * a) * b = p * (2 * a * b)
      <4>1. p \in Int
        BY <1>1
      <4> QED BY <3>1, <4>1
    <3> QED BY <3>2, <3>3
  <2> QED BY <2>4, <2>5
<1>3. Weight(span, i + 1, i + 1) = 2 * Power(span + 1, i - 1)
  <2>1. i + 1 # 1 /\ i + 1 - (i + 1) = 0 /\ i + 1 - 2 = i - 1
    OBVIOUS
  <2>2. Power(p, 0) = 1
    BY <1>1, PowerSteps
  <2>3. 2 * 1 = 2
    OBVIOUS
  <2> QED BY <2>1, <2>2, <2>3 DEF Weight
<1>4. \A k \in 1 .. i + 1 : v[k] \in Int
  BY <1>1
<1>5. x \in [1 .. i -> Int] /\ y \in [1 .. i + 1 -> Int]
  <2>1. \A k \in 1 .. i : k \in 1 .. i + 1 /\ Weight(span, k, i) \in Int
    BY <1>1, WeightIsInt
  <2>2. \A k \in 1 .. i + 1 : Weight(span, k, i + 1) \in Int
    BY <1>1, WeightIsInt
  <2>3. \A a, b \in Int : a * b \in Int
    OBVIOUS
  <2> QED BY <1>4, <2>1, <2>2, <2>3
<1>6. \A k \in 1 .. i : y[k] = p * x[k]
  <2> SUFFICES ASSUME NEW k \in 1 .. i PROVE y[k] = p * x[k]
    OBVIOUS
  <2>1. Weight(span, k, i) \in Int /\ v[k] \in Int /\ k \in 1 .. i + 1
    BY <1>1, <1>4, WeightIsInt
  <2>2. x[k] = Weight(span, k, i) * v[k] /\ y[k] = (p * Weight(span, k, i)) * v[k]
    BY <1>2, <2>1
  <2>3. \A a, b \in Int : (p * a) * b = p * (a * b)
    BY <1>1
  <2> QED BY <2>1, <2>2, <2>3
<1>7. y[i + 1] = 2 * Power(span + 1, i - 1) * v[i + 1]
  BY <1>3
<1>8. Weighed(v, span, i) = Summed(x) /\ Weighed(v, span, i + 1) = Summed(y)
  BY Zenon DEF Weighed
<1> HIDE DEF x, y
<1>9. Summed(y) = p * Summed(x) + y[i + 1] /\ Summed(x) \in Int
  BY <1>1, <1>5, <1>6, ScaledSum
<1> QED BY <1>7, <1>8, <1>9

(* The average starts from the first value. *)
LEMMA FirstWeighed ==
  ASSUME NEW span \in Spans, NEW v \in Seq(Int), Len(v) > 0
  PROVE  Weighed(v, span, 1) = v[1]
<1> DEFINE x == [k \in 1 .. 1 |-> Weight(span, k, 1) * v[k]]
<1>1. Weight(span, 1, 1) = 1
  <2>1. 1 - 1 = 0 /\ span - 1 \in Int /\ 0 \in Nat
    BY DEF Spans
  <2>2. Power(span - 1, 0) = 1
    BY <2>1, PowerSteps
  <2> QED BY <2>1, <2>2 DEF Weight
<1>2. x \in [0 + 1 .. 0 + 1 -> Int] /\ x[0 + 1] = v[1] /\ v[1] \in Int
  BY <1>1
<1>3. Weighed(v, span, 1) = Summed(x)
  BY Zenon DEF Weighed
<1> HIDE DEF x
<1>4. PICK h \in [0 .. 1 -> Int] :
        /\ h[0] = 0 /\ \A k \in 1 .. 1 : h[k] = h[k - 1] + x[0 + k]
        /\ Summed(x) = h[1]
  <2>1. 0 \in Int /\ 1 \in Nat
    OBVIOUS
  <2> QED BY <1>2, <2>1, SummedLoop
<1>5. h[1] = h[0] + x[0 + 1]
  BY <1>4
<1> QED BY <1>2, <1>3, <1>4, <1>5

(* Division without a remainder. *)
LEMMA ExactQuotient ==
  ASSUME NEW x \in Int, NEW m \in Nat \ {0}, x % m = 0
  PROVE  x \div m \in Int /\ x = m * (x \div m)
OBVIOUS

LEMMA QuotientOfMultiple ==
  ASSUME NEW x \in Int, NEW m \in Nat \ {0}
  PROVE  (m * x) \div m = x
OBVIOUS

(* And so are the weighed sums. *)
LEMMA WeighedIsInt ==
  ASSUME NEW span \in Spans, NEW v \in Seq(Int), NEW i \in 1 .. Len(v)
  PROVE  Weighed(v, span, i) \in Int
<1> DEFINE x == [k \in 1 .. i |-> Weight(span, k, i) * v[k]]
<1>1. x \in [0 + 1 .. 0 + i -> Int] /\ i \in Nat
  <2>1. \A k \in 1 .. i : Weight(span, k, i) \in Int /\ v[k] \in Int
    BY WeightIsInt
  <2>2. \A a, b \in Int : a * b \in Int
    OBVIOUS
  <2> QED BY <2>1, <2>2
<1>2. Weighed(v, span, i) = Summed(x)
  BY Zenon DEF Weighed
<1> HIDE DEF x
<1>3. PICK h \in [0 .. i -> Int] :
        /\ h[0] = 0 /\ \A k \in 1 .. i : h[k] = h[k - 1] + x[0 + k]
        /\ Summed(x) = h[i]
  <2>1. 0 \in Int
    OBVIOUS
  <2> QED BY <1>1, <2>1, SummedLoop
<1> QED BY <1>1, <1>2, <1>3

(* No division of the weighed sums has a remainder. *)
ExactEwm(v, span) == \A i \in 1 .. Len(v) : Weighed(v, span, i) % Power(span + 1, i - 1) = 0

(* The exponential average of a series is one of integers, as long. *)
LEMMA EwmSeries ==
  ASSUME NEW span \in Spans, NEW v \in Seq(Int)
  PROVE  /\ Ewm(v, span) \in Seq(Int) /\ Len(Ewm(v, span)) = Len(v)
         /\ \A i \in 1 .. Len(v) : Ewm(v, span)[i] = Weighed(v, span, i) \div Power(span + 1, i - 1)
         /\ Len(v) > 0 => Ewm(v, span)[1] = v[1]
<1>1. DOMAIN v = 1 .. Len(v) /\ Len(v) \in Nat /\ span + 1 \in Nat \ {0}
  BY DEF Spans
<1>2. ASSUME NEW i \in 1 .. Len(v)
      PROVE  /\ Ewm(v, span)[i] = Weighed(v, span, i) \div Power(span + 1, i - 1)
             /\ Ewm(v, span)[i] \in Int
  <2>1. Ewm(v, span)[i] = Weighed(v, span, i) \div Power(span + 1, i - 1)
    BY <1>1 DEF Ewm
  <2>2. Weighed(v, span, i) \in Int
    BY WeighedIsInt
  <2>3. Power(span + 1, i - 1) \in Nat \ {0}
    <3>1. i - 1 \in Nat
      OBVIOUS
    <3> QED BY <1>1, <3>1, PowerIsPositive
  <2>4. \A x \in Int : \A m \in Nat \ {0} : x \div m \in Int
    OBVIOUS
  <2>5. Weighed(v, span, i) \div Power(span + 1, i - 1) \in Int
    BY <2>2, <2>3, <2>4, Zenon
  <2> QED BY <2>1, <2>5
<1>3. Ewm(v, span) \in [1 .. Len(v) -> Int]
  <2>1. Agrees(v, v, Len(v)) /\ Len(v) <= Len(v)
    BY <1>1 DEF Agrees
  <2>2. IsSeries(Ewm(v, span), Len(v))
    BY <1>1, <2>1, EwmAgrees
  <2> DEFINE e == Ewm(v, span)
  <2>3. DOMAIN e = 1 .. Len(v) /\ e = [i \in DOMAIN e |-> e[i]] /\ \A i \in 1 .. Len(v) : e[i] \in Int
    BY <1>2, <2>2, Zenon DEF IsSeries
  <2> HIDE DEF e
  <2>4. e \in [1 .. Len(v) -> Int]
    BY <2>3
  <2> QED BY <2>4 DEF e
<1>4. Ewm(v, span) \in Seq(Int) /\ Len(Ewm(v, span)) = Len(v)
  BY <1>1, <1>3, SeqOfFunction
<1>5. Len(v) > 0 => Ewm(v, span)[1] = v[1]
  <2> SUFFICES ASSUME Len(v) > 0 PROVE Ewm(v, span)[1] = v[1]
    OBVIOUS
  <2>1. 1 \in 1 .. Len(v) /\ 1 - 1 = 0 /\ span + 1 \in Int /\ 0 \in Nat /\ v[1] \in Int
    BY <1>1
  <2>2. Ewm(v, span)[1] = Weighed(v, span, 1) \div Power(span + 1, 0)
    BY <1>2, <2>1
  <2>3. Weighed(v, span, 1) = v[1]
    BY FirstWeighed
  <2>4. Power(span + 1, 0) = 1
    BY <2>1, PowerSteps
  <2>5. \A x \in Int : x \div 1 = x
    OBVIOUS
  <2> QED BY <2>1, <2>2, <2>3, <2>4, <2>5
<1> QED BY <1>2, <1>4, <1>5

(* A positive factor of both sides. *)
LEMMA SameFactor ==
  ASSUME NEW m \in Nat \ {0}, NEW x \in Int, NEW y \in Int, m * x = m * y
  PROVE  x = y
<1>1. x * m = y * m
  OBVIOUS
<1> QED BY <1>1, Multiples

(* Where no division has a remainder, the average of the values so far     *)
(* moves towards the next one as the streaming average does.               *)
LEMMA EwmSteps ==
  ASSUME NEW span \in Spans, NEW v \in Seq(Int), ExactEwm(v, span), NEW i \in 1 .. Len(v) - 1
  PROVE  <<Ewm(v, span)[i + 1]>> = EmaStep(<<Ewm(v, span)[i]>>, v[i + 1], span)
<1> DEFINE m == span + 1
           p == span - 1
           M == Power(m, i - 1)
           e == Ewm(v, span)[i]
           f == Ewm(v, span)[i + 1]
           x == v[i + 1]
<1>1. /\ m \in Nat \ {0} /\ m \in Int /\ p = m - 2 /\ i - 1 \in Nat /\ (i - 1) + 1 = i + 1 - 1
      /\ i \in 1 .. Len(v) /\ i + 1 \in 1 .. Len(v) /\ x \in Int
  BY DEF Spans
<1>2. e \in Int /\ f \in Int
  <2> DEFINE w == Ewm(v, span)
  <2>1. w \in Seq(Int) /\ Len(w) = Len(v)
    BY EwmSeries
  <2> HIDE DEF w
  <2>2. w[i] \in Int /\ w[i + 1] \in Int
    BY <1>1, <2>1
  <2> QED BY <2>2 DEF w
<1>3. M \in Nat \ {0} /\ Power(m, i + 1 - 1) = m * M
  BY <1>1, PowerIsPositive, PowerSteps
<1>4. Weighed(v, span, i) = M * e
  <2>1. Weighed(v, span, i) % M = 0 /\ Weighed(v, span, i) \in Int
    BY <1>1, WeighedIsInt DEF ExactEwm
  <2>2. e = Weighed(v, span, i) \div M
    BY <1>1, EwmSeries
  <2> QED BY <1>3, <2>1, <2>2, ExactQuotient
<1>5. Weighed(v, span, i + 1) = (m * M) * f
  <2>1. Weighed(v, span, i + 1) % (m * M) = 0 /\ Weighed(v, span, i + 1) \in Int
    BY <1>1, <1>3, WeighedIsInt DEF ExactEwm
  <2>2. f = Weighed(v, span, i + 1) \div (m * M)
    BY <1>1, <1>3, EwmSeries
  <2>3. m * M \in Nat \ {0}
    <3>1. \A a, b \in Nat \ {0} : a * b \in Nat \ {0}
      OBVIOUS
    <3> QED BY <1>1, <1>3, <3>1, Zenon
  <2> QED BY <2>1, <2>2, <2>3, ExactQuotient
<1>6. Weighed(v, span, i + 1) = p * Weighed(v, span, i) + 2 * M * x
  BY WeighedSteps
<1>7. EmaStep(<<e>>, x, span) = <<e + (2 * (x - e)) \div m>>
  BY DEF EmaStep, None
<1> HIDE DEF m, p, M, e, f, x
<1>8. M \in Int
  BY <1>3
<1>9. M * (m * f) = M * (p * e + 2 * x)
  <2>1. (m * M) * f = M * (m * f)
    BY <1>1, <1>2, <1>8
  <2>2. p \in Int
    BY <1>1
  <2>3. M * (p * e + 2 * x) = p * (M * e) + 2 * M * x
    <3>1. p * e \in Int /\ 2 * x \in Int
      BY <1>1, <1>2, <2>2
    <3>2. M * (p * e + 2 * x) = M * (p * e) + M * (2 * x)
      BY <1>8, <3>1
    <3>3. M * (p * e) = p * (M * e)
      BY <1>2, <1>8, <2>2
    <3>4. M * (2 * x) = 2 * M * x
      BY <1>1, <1>8
    <3> QED BY <3>2, <3>3, <3>4
  <2> QED BY <1>4, <1>5, <1>6, <2>1, <2>3
<1>10. m * f = p * e + 2 * x
  <2>1. m * f \in Int /\ p * e + 2 * x \in Int
    BY <1>1, <1>2
  <2> QED BY <1>3, <1>9, <2>1, SameFactor
<1>11. 2 * (x - e) = m * (f - e)
  <2>1. p * e = m * e - 2 * e
    BY <1>1, <1>2
  <2>2. m * (f - e) = m * f - m * e
    BY <1>1, <1>2
  <2>3. m * f \in Int /\ m * e \in Int
    BY <1>1, <1>2
  <2> QED BY <1>1, <1>2, <1>10, <2>1, <2>2, <2>3
<1>12. (2 * (x - e)) \div m = f - e
  <2>1. f - e \in Int
    BY <1>2
  <2> QED BY <1>1, <1>11, <2>1, QuotientOfMultiple
<1>13. e + (f - e) = f
  BY <1>2
<1>14. EmaStep(<<e>>, x, span) = <<f>>
  BY <1>7, <1>12, <1>13
<1> QED BY <1>14 DEF e, f, x

(* What the streaming average of a series holds. *)
Averages(v, span) == IF v = <<>> THEN None ELSE <<Ewm(v, span)[Len(v)]>>

(* The average after one more value is one step of the streaming average. *)
LEMMA AppendedEwm ==
  ASSUME NEW span \in Spans, NEW v \in Seq(Int), NEW y \in Int, ExactEwm(Append(v, y), span)
  PROVE  Averages(Append(v, y), span) = EmaStep(Averages(v, span), y, span)
<1> DEFINE u == Append(v, y)
           n == Len(v)
<1>1. /\ u \in Seq(Int) /\ Len(u) = n + 1 /\ u[n + 1] = y /\ u # <<>> /\ n \in Nat
      /\ Agrees(v, u, n) /\ DOMAIN v = 1 .. n /\ DOMAIN u = 1 .. n + 1 /\ (n = 0 <=> v = <<>>)
      /\ ExactEwm(u, span)
  BY DEF Agrees
<1> HIDE DEF u
<1>2. Averages(u, span) = <<Ewm(u, span)[n + 1]>>
  BY <1>1 DEF Averages
<1>3. CASE n = 0
  <2>1. Averages(v, span) = None
    BY <1>1, <1>3 DEF Averages
  <2>2. Ewm(u, span)[1] = u[1]
    <3>1. Len(u) > 0
      BY <1>1
    <3> QED BY <1>1, <3>1, EwmSeries
  <2>3. Ewm(u, span)[n + 1] = y
    BY <1>1, <1>3, <2>2
  <2> QED BY <1>2, <2>1, <2>3 DEF EmaStep, u
<1>4. CASE n # 0
  <2>1. n \in 1 .. Len(u) - 1 /\ n \in 1 .. n
    BY <1>1, <1>4
  <2>2. <<Ewm(u, span)[n + 1]>> = EmaStep(<<Ewm(u, span)[n]>>, y, span)
    BY <1>1, <2>1, EwmSteps
  <2>3. Ewm(v, span)[n] = Ewm(u, span)[n]
    <3>1. Agrees(Ewm(v, span), Ewm(u, span), n)
      <4>1. n <= n /\ n <= n + 1 /\ n + 1 \in Nat
        BY <1>1
      <4> QED BY <1>1, <4>1, EwmAgrees
    <3> QED BY <2>1, <3>1 DEF Agrees
  <2>4. Averages(v, span) = <<Ewm(u, span)[n]>>
    BY <1>1, <1>4, <2>3 DEF Averages
  <2> QED BY <1>2, <2>2, <2>4 DEF u
<1> QED BY <1>3, <1>4
-----------------------------------------------------------------------------
(* In a full window that is divided without a remainder, the shortcut that *)
(* multiplies the mean of the squares less the square of the mean is the   *)
(* sum of the squared deviations.                                          *)
ExactWindow(total, squares) ==
  /\ total % Period = 0 /\ squares % Period = 0
  /\ (squares - total * (total \div Period)) % (Period - 1) = 0

LEMMA VarianceShortcut ==
  ASSUME NEW total \in Int, NEW squares \in Int, ExactWindow(total, squares), NEW d \in Nat,
         d = squares - Period * ((total \div Period) * (total \div Period))
  PROVE  (Period - 1) * SampleVariance(total, squares) = d
<1> DEFINE mean == total \div Period
           s == squares \div Period
           z == mean * mean
<1>1. Period \in Nat \ {0} /\ Period \in Int /\ Period - 1 \in Nat \ {0}
  BY IndicatorsAssumption
<1>2. mean \in Int /\ total = Period * mean /\ s \in Int /\ squares = Period * s /\ z \in Int
  <2>1. total % Period = 0 /\ squares % Period = 0
    BY DEF ExactWindow
  <2>2. mean \in Int /\ total = Period * mean /\ s \in Int /\ squares = Period * s
    BY <1>1, <2>1, ExactQuotient
  <2> HIDE DEF mean
  <2> QED BY <2>2
<1>3. (squares - total * mean) % (Period - 1) = 0
  BY DEF ExactWindow
<1>4. SampleVariance(total, squares) = (Positive(s - z) * Period) \div (Period - 1)
  BY DEF SampleVariance
<1>5. d = squares - Period * z
  OBVIOUS
<1>6. total * mean = Period * z
  <2> HIDE DEF mean
  <2>1. (Period * mean) * mean = Period * (mean * mean)
    BY <1>1, <1>2
  <2> QED BY <1>2, <2>1
<1> HIDE DEF mean, s, z
<1>7. Period * (s - z) = d
  <2>1. Period * (s - z) = Period * s - Period * z
    BY <1>1, <1>2
  <2> QED BY <1>2, <1>5, <2>1
<1>8. s - z >= 0
  <2> SUFFICES ASSUME s - z < 0 PROVE FALSE
    BY <1>2
  <2>1. z - s - 1 \in Nat
    BY <1>2
  <2>2. Period * (z - s - 1) \in Nat
    BY <1>1, <2>1
  <2>3. Period * (s - z) = -(Period * (z - s - 1)) - Period
    BY <1>1, <1>2
  <2> QED BY <1>1, <1>7, <2>2, <2>3
<1>9. Positive(s - z) = s - z
  BY <1>2, <1>8 DEF Positive
<1>10. Positive(s - z) * Period = d
  <2>1. (s - z) * Period = Period * (s - z)
    BY <1>1, <1>2
  <2> QED BY <1>7, <1>9, <2>1
<1>11. d % (Period - 1) = 0
  BY <1>3, <1>5, <1>6
<1>12. d \in Int
  OBVIOUS
<1>13. d = (Period - 1) * (d \div (Period - 1))
  BY <1>1, <1>11, <1>12, ExactQuotient, Zenon
<1>14. SampleVariance(total, squares) = d \div (Period - 1)
  BY <1>4, <1>10, Zenon
<1> QED BY <1>13, <1>14, Zenon

(* The places of a window of p values behind the first a. *)
LEMMA WindowIndices ==
  ASSUME NEW a \in Nat, NEW p \in Nat, NEW k \in 0 .. p - 1
  PROVE  /\ k + 1 \in 1 .. p /\ k + 1 \in 0 .. p /\ (k + 1) - 1 = k /\ k \in 0 .. p /\ k \in Int
         /\ a + (k + 1) \in 1 .. a + p /\ a + (k + 1) \in a + 1 .. a + p /\ a + (k + 1) - 1 = a + k
         /\ a + k \in 0 .. a + p /\ a + (k + 1) \in 0 .. a + p /\ a \in 0 .. a + p
OBVIOUS

(* The squared deviations of a window add up to what the sums of its values *)
(* and of their squares say, value by value. *)
LEMMA WindowDeviations ==
  ASSUME NEW v \in Seq(Int), NEW n \in Nat, n = Len(v), n >= Period, NEW mean \in Int,
         NEW total \in Int, NEW squares \in Int,
         total = Cumsum(v)[n] - Cumsum(v)[n - Period],
         squares = Cumsum(Squares(v))[n] - Cumsum(Squares(v))[n - Period],
         total = Period * mean
  PROVE  /\ Summed([i \in n - Period + 1 .. n |-> (v[i] - mean) * (v[i] - mean)])
              = squares - Period * (mean * mean)
         /\ Summed([i \in n - Period + 1 .. n |-> (v[i] - mean) * (v[i] - mean)]) \in Nat
<1> DEFINE a == n - Period
           c == Cumsum(v)
           q == Cumsum(Squares(v))
           dev == [i \in n - Period + 1 .. n |-> (v[i] - mean) * (v[i] - mean)]
<1>1. Period \in Nat /\ a \in Nat /\ a \in Int /\ a + Period = n /\ n - Period + 1 .. n = a + 1 .. a + Period
  BY IndicatorsAssumption
<1>2. /\ c \in [0 .. n -> Int] /\ \A k \in 1 .. n : c[k] = c[k - 1] + v[k]
  BY CumsumRecursion
<1>3. /\ q \in [0 .. n -> Int] /\ \A k \in 1 .. n : q[k] = q[k - 1] + v[k] * v[k]
  <2>1. Squares(v) \in Seq(Int) /\ Len(Squares(v)) = n
    <3>1. Agrees(v, v, n)
      BY DEF Agrees
    <3> QED BY <3>1, SquaresAgree
  <2>2. \A k \in 1 .. n : Squares(v)[k] = v[k] * v[k]
    BY DEF Squares
  <2>3. /\ q \in [0 .. n -> Int] /\ \A k \in 1 .. n : q[k] = q[k - 1] + Squares(v)[k]
    BY <2>1, CumsumRecursion
  <2> HIDE DEF q
  <2> QED BY <2>2, <2>3
<1>4. ASSUME NEW i \in a + 1 .. a + Period
      PROVE  dev[i] = (v[i] - mean) * (v[i] - mean) /\ dev[i] \in Nat /\ v[i] \in Int
  <2>1. i \in 1 .. n /\ i \in n - Period + 1 .. n
    BY <1>1
  <2>2. v[i] \in Int
    BY <2>1
  <2> DEFINE y == v[i] - mean
  <2>3. y \in Int
    BY <2>2
  <2>4. y * y \in Nat
    <3> HIDE DEF y
    <3> QED BY <2>3
  <2> QED BY <2>1, <2>2, <2>4
<1>5. dev \in [a + 1 .. a + Period -> Int]
  <2>1. dev = [i \in a + 1 .. a + Period |-> dev[i]]
    BY <1>1
  <2> HIDE DEF dev
  <2> QED BY <1>4, <2>1
<1>6. total = c[a + Period] - c[a] /\ squares = q[a + Period] - q[a]
  BY <1>1
<1> HIDE DEF a, c, q, dev
<1>7. PICK h \in [0 .. Period -> Int] :
        /\ h[0] = 0 /\ \A k \in 1 .. Period : h[k] = h[k - 1] + dev[a + k]
        /\ Summed(dev) = h[Period]
  BY <1>1, <1>5, SummedLoop
<1> DEFINE Expanded(k) == Expansion(1, mean, k, h[k], q[a + k] - q[a], c[a + k] - c[a])
           T == {k \in 0 .. Period : h[k] >= 0 /\ Expanded(k)}
<1>8. 0 \in T
  <2>1. q[a + 0] - q[a] = 0 /\ c[a + 0] - c[a] = 0
    <3>1. a \in 0 .. n /\ a + 0 = a
      BY <1>1
    <3>2. c[a] \in Int /\ q[a] \in Int
      BY <1>2, <1>3, <3>1
    <3> QED BY <3>1, <3>2
  <2>2. 0 = 1 * (1 * 0) - 2 * (mean * (1 * 0)) + 0 * (mean * mean) /\ 0 \in 0 .. Period
    BY <1>1
  <2> QED BY <1>7, <2>1, <2>2 DEF Expansion
<1>9. ASSUME NEW k \in 0 .. Period - 1, k \in T PROVE k + 1 \in T
  <2> DEFINE x == v[a + (k + 1)]
  <2>1. /\ k + 1 \in 1 .. Period /\ k + 1 \in 0 .. Period /\ (k + 1) - 1 = k /\ k \in 0 .. Period /\ k \in Int
        /\ a + (k + 1) \in 1 .. n /\ a + (k + 1) \in a + 1 .. a + Period /\ a + (k + 1) - 1 = a + k
        /\ a + k \in 0 .. n /\ a + (k + 1) \in 0 .. n /\ a \in 0 .. n
    <3>1. /\ k + 1 \in 1 .. Period /\ k + 1 \in 0 .. Period /\ (k + 1) - 1 = k /\ k \in 0 .. Period /\ k \in Int
          /\ a + (k + 1) \in 1 .. a + Period /\ a + (k + 1) \in a + 1 .. a + Period /\ a + (k + 1) - 1 = a + k
          /\ a + k \in 0 .. a + Period /\ a + (k + 1) \in 0 .. a + Period /\ a \in 0 .. a + Period
      BY <1>1, WindowIndices, Zenon
    <3>2. a + Period = n
      BY <1>1
    <3> QED BY <3>1, <3>2, Zenon
  <2>2. x \in Int /\ dev[a + (k + 1)] = (x - mean) * (x - mean) /\ dev[a + (k + 1)] \in Nat
    BY <1>4, <2>1
  <2>3. h[k + 1] = h[k] + (x - mean) * (x - mean)
    BY <1>7, <2>1, <2>2
  <2>4. c[a + (k + 1)] = c[a + k] + x /\ q[a + (k + 1)] = q[a + k] + x * x
    BY <1>2, <1>3, <2>1
  <2>5. c[a] \in Int /\ q[a] \in Int /\ c[a + k] \in Int /\ q[a + k] \in Int /\ h[k] \in Int
    BY <1>2, <1>3, <1>7, <2>1
  <2>6. h[k] >= 0 /\ Expanded(k)
    BY <1>9
  <2> HIDE DEF x, T
  <2>7. 1 * x = x
    BY <2>2
  <2>8. Expansion(1, mean, k + 1, h[k] + (1 * x - mean) * (1 * x - mean),
                  (q[a + k] - q[a]) + x * x, (c[a + k] - c[a]) + x)
    <3>1. q[a + k] - q[a] \in Int /\ c[a + k] - c[a] \in Int /\ 1 \in Int
      BY <2>5
    <3> QED BY <2>1, <2>2, <2>5, <2>6, <3>1, DeviationTurn
  <2>9. (q[a + k] - q[a]) + x * x = q[a + (k + 1)] - q[a] /\ (c[a + k] - c[a]) + x = c[a + (k + 1)] - c[a]
    <3> DEFINE y == x * x
    <3>1. y \in Int
      BY <2>2
    <3>2. q[a + (k + 1)] = q[a + k] + y /\ c[a + (k + 1)] = c[a + k] + x
      BY <2>4
    <3> HIDE DEF y
    <3>3. (q[a + k] - q[a]) + y = q[a + (k + 1)] - q[a] /\ (c[a + k] - c[a]) + x = c[a + (k + 1)] - c[a]
      <4> DEFINE q0 == q[a]
                 q1 == q[a + k]
                 c0 == c[a]
                 c1 == c[a + k]
      <4>1. q0 \in Int /\ q1 \in Int /\ c0 \in Int /\ c1 \in Int
        BY <2>5
      <4>2. q[a + (k + 1)] = q1 + y /\ c[a + (k + 1)] = c1 + x
        BY <3>2
      <4> HIDE DEF q0, q1, c0, c1
      <4>3. (q1 - q0) + y = (q1 + y) - q0 /\ (c1 - c0) + x = (c1 + x) - c0
        BY <2>2, <3>1, <4>1
      <4>4. (q1 - q0) + y = q[a + (k + 1)] - q0 /\ (c1 - c0) + x = c[a + (k + 1)] - c0
        BY <4>2, <4>3
      <4> QED BY <4>4 DEF q0, q1, c0, c1
    <3> QED BY <3>3 DEF y
  <2>10. Expanded(k + 1)
    BY <2>3, <2>7, <2>8, <2>9
  <2>11. h[k + 1] >= 0
    <3>1. (x - mean) * (x - mean) \in Nat
      BY <2>2
    <3> QED BY <2>3, <2>5, <2>6, <3>1
  <2> QED BY <2>1, <2>10, <2>11 DEF T
<1> HIDE DEF T
<1>10. h[Period] >= 0 /\ Expanded(Period) /\ h[Period] \in Int
  <2>1. 0 .. Period \subseteq T
    BY <1>1, <1>8, <1>9, InductionTo
  <2>2. Period \in 0 .. Period
    BY <1>1
  <2> QED BY <1>7, <2>1, <2>2 DEF T
<1>11. h[Period] = 1 * (1 * squares) - 2 * (mean * (1 * total)) + Period * (mean * mean)
  BY <1>6, <1>10 DEF Expansion
<1>12. h[Period] = squares - Period * (mean * mean)
  <2> DEFINE z == mean * mean
  <2>1. z \in Int
    OBVIOUS
  <2>2. 1 * (1 * squares) = squares /\ 1 * total = total
    OBVIOUS
  <2>3. mean * (Period * mean) = Period * z
    BY <1>1
  <2>4. Period * z \in Int
    BY <1>1, <2>1
  <2>5. h[Period] = squares - 2 * (Period * z) + Period * z
    BY <1>11, <2>2, <2>3, Zenon
  <2> HIDE DEF z
  <2>6. h[Period] = squares - Period * z
    BY <2>4, <2>5
  <2> QED BY <2>6 DEF z
<1>13. Summed(dev) = squares - Period * (mean * mean) /\ Summed(dev) \in Nat
  BY <1>7, <1>10, <1>12
<1> QED BY <1>13 DEF dev

(* The MACD line. *)
Line(c) == [i \in DOMAIN c |-> Ewm(c, FastSpan)[i] - Ewm(c, SlowSpan)[i]]

LEMMA LineSeries ==
  ASSUME NEW c \in Seq(Int)
  PROVE  Line(c) \in Seq(Int) /\ Len(Line(c)) = Len(c) /\ IsSeries(Line(c), Len(c))
<1>1. {FastSpan, SlowSpan, SignalSpan, Span} \subseteq Spans
  BY IndicatorsAssumption DEF Spans
<1>2. DOMAIN c = 1 .. Len(c) /\ Len(c) \in Nat
  OBVIOUS
<1>3. ASSUME NEW i \in 1 .. Len(c) PROVE Ewm(c, FastSpan)[i] - Ewm(c, SlowSpan)[i] \in Int
  <2> DEFINE f == Ewm(c, FastSpan)
             g == Ewm(c, SlowSpan)
  <2>1. f \in Seq(Int) /\ Len(f) = Len(c) /\ g \in Seq(Int) /\ Len(g) = Len(c)
    BY <1>1, EwmSeries
  <2> HIDE DEF f, g
  <2>2. f[i] \in Int /\ g[i] \in Int
    BY <2>1
  <2>3. f[i] - g[i] \in Int
    BY <2>2
  <2> QED BY <2>3 DEF f, g
<1>4. Line(c) \in [1 .. Len(c) -> Int]
  BY <1>2, <1>3 DEF Line
<1> QED BY <1>2, <1>4, SeqOfFunction DEF IsSeries

(* A new close appends the difference of the averages to the MACD line. *)
LEMMA AppendedLine ==
  ASSUME NEW c \in Seq(Int), NEW y \in Int
  PROVE  /\ Line(Append(c, y)) =
              Append(Line(c), Averages(Append(c, y), FastSpan)[1] - Averages(Append(c, y), SlowSpan)[1])
         /\ Averages(Append(c, y), FastSpan)[1] - Averages(Append(c, y), SlowSpan)[1] \in Int
<1> DEFINE u == Append(c, y)
           n == Len(c)
           l == Averages(u, FastSpan)[1] - Averages(u, SlowSpan)[1]
<1>1. /\ u \in Seq(Int) /\ Len(u) = n + 1 /\ u # <<>> /\ n \in Nat /\ n + 1 \in 1 .. n + 1
      /\ Agrees(c, u, n) /\ DOMAIN c = 1 .. n /\ DOMAIN u = 1 .. n + 1
  BY DEF Agrees
<1> HIDE DEF u
<1>2. l = Ewm(u, FastSpan)[n + 1] - Ewm(u, SlowSpan)[n + 1]
  BY <1>1 DEF Averages
<1>3. Line(u)[n + 1] = l
  BY <1>1, <1>2 DEF Line
<1> HIDE DEF l
<1>4. Line(u) \in Seq(Int) /\ Len(Line(u)) = n + 1 /\ IsSeries(Line(u), n + 1)
  BY <1>1, LineSeries
<1>5. Line(c) \in Seq(Int) /\ Len(Line(c)) = n
  BY LineSeries
<1>6. l \in Int
  BY <1>1, <1>3, <1>4
<1>7. Agrees(Line(u), Line(c), n)
  <2>1. n <= n /\ n <= n + 1 /\ n + 1 \in Nat
    BY <1>1
  <2>2. \A span : Agrees(Ewm(c, span), Ewm(u, span), n)
    BY <1>1, <2>1, EwmAgrees
  <2>3. ASSUME NEW i \in 1 .. n PROVE Line(u)[i] = Line(c)[i]
    <3>1. Ewm(c, FastSpan)[i] = Ewm(u, FastSpan)[i] /\ Ewm(c, SlowSpan)[i] = Ewm(u, SlowSpan)[i]
      BY <2>2 DEF Agrees
    <3>2. i \in DOMAIN c /\ i \in DOMAIN u
      BY <1>1
    <3> QED BY <3>1, <3>2 DEF Line
  <2> QED BY <2>3 DEF Agrees
<1>8. Line(u) = Append(Line(c), l)
  BY <1>1, <1>3, <1>4, <1>5, <1>6, <1>7, AppendedSeries
<1> QED BY <1>6, <1>8 DEF u, l

(* No division that the indicators make for the bars so far has a          *)
(* remainder: those of the exponential averages, at any bar, and those of  *)
(* the mean and the variance of the window at the last one.                *)
ExactDivisions ==
  LET c == Closes(bars)
      n == Len(bars)
  IN  /\ \A span \in {Span, FastSpan, SlowSpan} : ExactEwm(c, span)
      /\ ExactEwm(Line(c), SignalSpan)
      /\ n >= Period => ExactWindow(RollingSum(c)[n][1], RollingSum(Squares(c))[n][1])

(* The exponential averages of the streaming library are those of the      *)
(* closes so far, and of the MACD line over them.                          *)
AveragesInv ==
  LET c == Closes(bars)
  IN  /\ stream.ema = Averages(c, Span)
      /\ stream.fast = Averages(c, FastSpan) /\ stream.slow = Averages(c, SlowSpan)
      /\ stream.signal = Averages(Line(c), SignalSpan)

(* Each step of the streaming averages is that of the vectorized ones. *)
LEMMA AveragesFollow == RunSpec /\ []ExactDivisions => []AveragesInv
<1>1. RunInit => AveragesInv
  <2> SUFFICES ASSUME RunInit PROVE AveragesInv
    OBVIOUS
  <2>1. bars = <<>> /\ stream = NewState /\ DOMAIN bars = {}
    BY DEF RunInit
  <2>2. \A f : DOMAIN f = {} /\ f = [i \in DOMAIN f |-> f[i]] => f = <<>>
    OBVIOUS
  <2>3. Closes(bars) = <<>>
    BY <2>1, <2>2 DEF Closes
  <2>4. Line(<<>>) = <<>>
    BY <2>2 DEF Line
  <2>5. NewState.ema = None /\ NewState.fast = None /\ NewState.slow = None /\ NewState.signal = None
    BY DEF NewState
  <2> QED BY <2>1, <2>3, <2>4, <2>5 DEF AveragesInv, Averages
<1>2. RunTypeOK /\ AveragesInv /\ ExactDivisions' /\ [RunNext]_runVars => AveragesInv'
  <2> SUFFICES ASSUME RunTypeOK, AveragesInv, ExactDivisions', [RunNext]_runVars PROVE AveragesInv'
    OBVIOUS
  <2>1. ASSUME NEW b \in Candles, Bar(b) PROVE AveragesInv'
    <3> DEFINE c == Closes(bars)
               y == b.close
               d == Append(c, y)
               fast == EmaStep(stream.fast, y, FastSpan)
               slow == EmaStep(stream.slow, y, SlowSpan)
    <3>1. bars \in Seq(Candles) /\ bars' = Append(bars, b)
      BY <2>1 DEF RunTypeOK, Bar
    <3>2. Closes(bars') = d /\ c \in Seq(Int) /\ y \in Int
      BY <3>1, AppendedCloses
    <3>3. /\ stream'.ema = EmaStep(stream.ema, y, Span) /\ stream'.fast = fast /\ stream'.slow = slow
          /\ stream'.signal = EmaStep(stream.signal, fast[1] - slow[1], SignalSpan)
      BY <2>1 DEF Bar, Update
    <3>4. /\ stream.ema = Averages(c, Span) /\ stream.fast = Averages(c, FastSpan)
          /\ stream.slow = Averages(c, SlowSpan) /\ stream.signal = Averages(Line(c), SignalSpan)
      BY DEF AveragesInv
    <3>5. Closes(bars)' = d
      BY <3>2 DEF Closes
    <3>6. (\A span \in {Span, FastSpan, SlowSpan} : ExactEwm(d, span)) /\ ExactEwm(Line(d), SignalSpan)
      BY <3>2 DEF ExactDivisions
    <3>7. {Span, FastSpan, SlowSpan, SignalSpan} \subseteq Spans
      BY IndicatorsAssumption DEF Spans
    <3> HIDE DEF c, y
    <3>8. \A span \in {Span, FastSpan, SlowSpan} : Averages(d, span) = EmaStep(Averages(c, span), y, span)
      BY <3>2, <3>6, <3>7, AppendedEwm
    <3>9. /\ stream'.ema = Averages(d, Span) /\ fast = Averages(d, FastSpan) /\ slow = Averages(d, SlowSpan)
      BY <3>3, <3>4, <3>8
    <3> HIDE DEF fast, slow
    <3>10. Line(d) = Append(Line(c), fast[1] - slow[1]) /\ fast[1] - slow[1] \in Int /\ Line(c) \in Seq(Int)
      BY <3>2, <3>9, AppendedLine, LineSeries
    <3>11. stream'.signal = Averages(Line(d), SignalSpan)
      <4>1. Averages(Append(Line(c), fast[1] - slow[1]), SignalSpan)
              = EmaStep(Averages(Line(c), SignalSpan), fast[1] - slow[1], SignalSpan)
        BY <3>6, <3>7, <3>10, AppendedEwm
      <4> QED BY <3>3, <3>4, <3>10, <4>1
    <3> QED BY <3>2, <3>3, <3>9, <3>11 DEF AveragesInv
  <2>2. CASE UNCHANGED runVars
    BY <2>2 DEF runVars, AveragesInv
  <2>3. ASSUME NEW b \in Candles, Watch(b) \/ \E t \in Trades : Fill(b, t) PROVE AveragesInv'
    BY <2>1, <2>3 DEF Watch, Fill
  <2> QED BY <2>2, <2>3 DEF RunNext
<1> QED BY <1>1, <1>2, RunTypes, PTL DEF RunSpec

(* The last value of a series whose values are all there. *)
LEMMA LastOfAll ==
  ASSUME NEW v \in Seq(Int), v # <<>>
  PROVE  Last([i \in DOMAIN v |-> <<v[i]>>]) = <<v[Len(v)]>>
<1> DEFINE w == [i \in DOMAIN v |-> <<v[i]>>]
<1>1. DOMAIN w = 1 .. Len(v) /\ Len(v) \in Nat /\ Len(v) \in DOMAIN v /\ w = [i \in DOMAIN w |-> w[i]]
  OBVIOUS
<1>2. w[Len(v)] = <<v[Len(v)]>>
  BY <1>1
<1> HIDE DEF w
<1>3. Len(w) = Len(v)
  BY <1>1, SeriesLength DEF IsSeries
<1>4. Last(w) = <<v[Len(v)]>>
  BY <1>2, <1>3 DEF Last
<1> QED BY <1>4 DEF w

(* For any bars, spans, period and length of the run in which no division  *)
(* has a remainder: what every indicator returned for the last bar is the  *)
(* last value of its vectorized form, there is no value before the window  *)
(* is full, and the variance is the one of the window.                     *)
THEOREM StreamAndBatchAgree == RunSpec /\ []ExactDivisions => []StreamMatchesBatch
<1>1. /\ RunTypeOK /\ AveragesInv /\ ExactDivisions
      /\ bars # <<>> => /\ Agree(Windowed)
                        /\ Batch(bars).sma[Len(bars)] = None <=> Len(bars) < Period
      => StreamMatchesBatch
  <2> SUFFICES ASSUME RunTypeOK, AveragesInv, ExactDivisions, bars # <<>>, Agree(Windowed),
                      Batch(bars).sma[Len(bars)] = None <=> Len(bars) < Period
               PROVE  LET batch  == Batch(bars)
                          mean   == batch.sma[Len(bars)]
                          c      == Closes(bars)
                          window == Len(bars) - Period + 1 .. Len(bars)
                      IN  /\ Agree(Windowed) /\ Agree(DOMAIN batch \ Windowed)
                          /\ mean = None <=> Len(bars) < Period
                          /\ mean # None =>
                               (Period - 1) * Last(batch.bollinger)[1] =
                                 Summed([i \in window |-> (c[i] - mean[1]) * (c[i] - mean[1])])
    BY DEF StreamMatchesBatch
  <2> DEFINE c == Closes(bars)
             n == Len(bars)
             All(v) == [i \in DOMAIN v |-> <<v[i]>>]
  <2>1. bars \in Seq(Candles) /\ n \in Nat /\ n > 0 /\ Longer(bars, bars)
    BY DEF RunTypeOK, Longer, Agrees
  <2>2. c \in Seq(Int) /\ Len(c) = n /\ c # <<>>
    <3>1. c \in Seq(Int) /\ Len(c) = n
      BY <2>1, ClosesAgree
    <3> HIDE DEF c
    <3> QED BY <2>1, <3>1
  <2>3. /\ Batch(bars).ema = All(Ewm(c, Span)) /\ Batch(bars).macd = All(Line(c))
        /\ Batch(bars).signal = All(Ewm(Line(c), SignalSpan))
        /\ Batch(bars).sma = RollingMean(c) /\ Batch(bars).bollinger = RollingVariance(c)
        /\ DOMAIN Batch(bars) \ Windowed = {"ema", "macd", "signal"}
    <3>1. Batch(bars) = [ sma |-> RollingMean(c), ema |-> All(Ewm(c, Span)), rsi |-> Rsi(c),
                          atr |-> RollingMean(TrueRanges(bars)), bollinger |-> RollingVariance(c),
                          macd |-> All(Line(c)), signal |-> All(Ewm(Line(c), SignalSpan)),
                          volatility |-> RollingVariance(Returns(c)) ]
      BY Zenon DEF Batch, Line
    <3> HIDE DEF All, c
    <3> QED BY <3>1 DEF Windowed
  <2>4. /\ Streamed(stream).ema = stream.ema /\ Streamed(stream).macd = <<stream.fast[1] - stream.slow[1]>>
        /\ Streamed(stream).signal = stream.signal
    BY DEF Streamed
  <2>5. /\ stream.ema = Averages(c, Span) /\ stream.fast = Averages(c, FastSpan)
        /\ stream.slow = Averages(c, SlowSpan) /\ stream.signal = Averages(Line(c), SignalSpan)
    BY DEF AveragesInv
  <2>6. {Span, FastSpan, SlowSpan, SignalSpan} \subseteq Spans
    BY IndicatorsAssumption DEF Spans
  <2>7. n >= Period => ExactWindow(RollingSum(c)[n][1], RollingSum(Squares(c))[n][1])
    BY DEF ExactDivisions
  <2> HIDE DEF c
  <2>8. Line(c) \in Seq(Int) /\ Len(Line(c)) = n /\ Line(c) # <<>>
    <3>1. Line(c) \in Seq(Int) /\ Len(Line(c)) = n
      BY <2>2, LineSeries
    <3> DEFINE l == Line(c)
    <3> HIDE DEF l
    <3>2. l \in Seq(Int) /\ Len(l) = n
      BY <3>1 DEF l
    <3>3. l # <<>>
      BY <2>1, <3>2
    <3> QED BY <3>1, <3>3 DEF l
  <2>9. ASSUME NEW v \in Seq(Int), Len(v) = n, v # <<>>, NEW span \in Spans
        PROVE  Last(All(Ewm(v, span))) = Averages(v, span)
    <3> DEFINE w == Ewm(v, span)
    <3>1. w \in Seq(Int) /\ Len(w) = n
      BY <2>9, EwmSeries
    <3> HIDE DEF w
    <3>2. w # <<>>
      BY <2>1, <3>1
    <3>3. Last(All(w)) = <<w[n]>>
      BY <3>1, <3>2, LastOfAll
    <3> QED BY <2>9, <3>3 DEF Averages, w
  <2>10. Agree(DOMAIN Batch(bars) \ Windowed)
    <3>1. Last(Batch(bars).ema) = stream.ema
      BY <2>2, <2>3, <2>5, <2>6, <2>9
    <3>2. Last(Batch(bars).signal) = stream.signal
      BY <2>3, <2>5, <2>6, <2>8, <2>9
    <3>3. Last(Batch(bars).macd) = <<stream.fast[1] - stream.slow[1]>>
      <4>1. Last(All(Line(c))) = <<Line(c)[n]>>
        BY <2>8, LastOfAll
      <4>2. n \in DOMAIN c
        BY <2>1, <2>2
      <4>3. Line(c)[n] = Ewm(c, FastSpan)[n] - Ewm(c, SlowSpan)[n]
        BY <4>2 DEF Line
      <4>4. stream.fast[1] = Ewm(c, FastSpan)[n] /\ stream.slow[1] = Ewm(c, SlowSpan)[n]
        BY <2>2, <2>5 DEF Averages
      <4> QED BY <2>3, <4>1, <4>3, <4>4
    <3>4. ASSUME NEW name \in {"ema", "macd", "signal"} PROVE Streamed(stream)[name] = Last(Batch(bars)[name])
      BY <2>4, <3>1, <3>2, <3>3
    <3> QED BY <2>3, <3>4 DEF Agree
  <2>11. ASSUME Batch(bars).sma[n] # None
         PROVE  (Period - 1) * Last(Batch(bars).bollinger)[1] =
                  Summed([i \in n - Period + 1 .. n |->
                            (c[i] - Batch(bars).sma[n][1]) * (c[i] - Batch(bars).sma[n][1])])
    <3> DEFINE s == Cumsum(c)
               q == Cumsum(Squares(c))
               total == RollingSum(c)[n][1]
               squares == RollingSum(Squares(c))[n][1]
               mean == total \div Period
    <3>1. /\ n >= Period /\ Period \in Nat \ {0} /\ n \in DOMAIN c /\ n - Period \in 0 .. n /\ n \in 0 .. n
          /\ n \in 1 .. n
      BY <2>1, <2>2, <2>11, IndicatorsAssumption
    <3>2. Squares(c) \in Seq(Int) /\ Len(Squares(c)) = n /\ n \in DOMAIN Squares(c)
      <4>1. Agrees(c, c, n)
        BY DEF Agrees
      <4>2. Squares(c) \in Seq(Int) /\ Len(Squares(c)) = n
        BY <2>1, <2>2, <4>1, SquaresAgree
      <4>3. DOMAIN Squares(c) = DOMAIN c
        BY DEF Squares
      <4> QED BY <3>1, <4>2, <4>3
    <3>3. s[n] - s[n - Period] \in Int /\ q[n] - q[n - Period] \in Int
      <4>1. s \in [0 .. n -> Int]
        BY <2>2, CumsumRecursion
      <4>2. q \in [0 .. n -> Int]
        BY <3>2, CumsumRecursion
      <4> HIDE DEF s, q
      <4>3. s[n] \in Int /\ s[n - Period] \in Int /\ q[n] \in Int /\ q[n - Period] \in Int
        BY <3>1, <4>1, <4>2
      <4> QED BY <4>3
    <3>4. RollingSum(c)[n] = <<s[n] - s[n - Period]>> /\ RollingSum(Squares(c))[n] = <<q[n] - q[n - Period]>>
      BY <2>1, <3>1, <3>2 DEF RollingSum
    <3>5. total = s[n] - s[n - Period] /\ squares = q[n] - q[n - Period] /\ total \in Int /\ squares \in Int
      BY <3>3, <3>4
    <3>6. RollingSum(c)[n] # None
      BY <3>4 DEF None
    <3>7. Batch(bars).sma[n] = <<mean>>
      BY <2>3, <3>1, <3>6 DEF RollingMean
    <3>8. Last(Batch(bars).bollinger) = <<SampleVariance(total, squares)>>
      <4>1. IsSeries(RollingVariance(c), n)
        <5>1. Agrees(c, c, n) /\ n <= n
          BY <2>1 DEF Agrees
        <5> QED BY <2>1, <2>2, <5>1, RollingVarianceAgrees
      <4>2. Len(RollingVariance(c)) = n
        BY <2>1, <4>1, SeriesLength
      <4>3. RollingVariance(c)[n] = <<SampleVariance(total, squares)>>
        BY <3>1, <3>6 DEF RollingVariance
      <4> QED BY <2>3, <4>2, <4>3 DEF Last
    <3>9. ExactWindow(total, squares)
      BY <2>7, <3>1
    <3> HIDE DEF total, squares
    <3>10. mean \in Int /\ total = Period * mean
      BY <3>1, <3>5, <3>9, ExactQuotient DEF ExactWindow
    <3> HIDE DEF mean
    <3> DEFINE dev == Summed([i \in n - Period + 1 .. n |-> (c[i] - mean) * (c[i] - mean)])
    <3>11. dev = squares - Period * (mean * mean) /\ dev \in Nat
      <4>1. total \in Int /\ squares \in Int /\ total = s[n] - s[n - Period] /\ squares = q[n] - q[n - Period]
        BY <3>5
      <4>2. c \in Seq(Int) /\ n \in Nat /\ n = Len(c) /\ n >= Period /\ mean \in Int /\ total = Period * mean
        BY <2>1, <2>2, <3>1, <3>10
      <4> HIDE DEF n
      <4> DEFINE f == [i \in n - Period + 1 .. n |-> (c[i] - mean) * (c[i] - mean)]
      <4>3. Summed(f) = squares - Period * (mean * mean) /\ Summed(f) \in Nat
        <5> HIDE DEF s, q
        <5>1. s = Cumsum(c) /\ q = Cumsum(Squares(c))
          BY DEF s, q
        <5> QED BY <4>1, <4>2, <5>1, WindowDeviations
      <4> QED BY <4>3
    <3> HIDE DEF dev
    <3>12. (Period - 1) * SampleVariance(total, squares) = dev
      BY <3>5, <3>9, <3>11, VarianceShortcut DEF mean
    <3>13. Batch(bars).sma[n][1] = mean /\ Last(Batch(bars).bollinger)[1] = SampleVariance(total, squares)
      BY <3>7, <3>8
    <3> QED BY <3>12, <3>13, Zenon DEF dev
  <2> QED BY <2>10, <2>11, Zenon DEF c
<1> QED BY <1>1, RunTypes, AveragesFollow, WindowsMatchTheSeries, PTL
=============================================================================
