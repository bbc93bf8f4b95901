---------------------------- MODULE PricingProofs ----------------------------
(***************************************************************************)
(* What the operators of Pricing and Planner compute, for any catalog,     *)
(* plan and brief.                                                         *)
(*                                                                         *)
(* Each of them is a loop of the code: over the packages of a plan (Sums,  *)
(* Collects), over the turns of _allocate (Turns).  The lemmas give such   *)
(* a loop its values step by step, and LoopInduction carries what the loop *)
(* keeps from its first step to its last.                                  *)
(***************************************************************************)
EXTENDS Planner, FiniteSetTheorems, SequenceTheorems, TLAPS

-----------------------------------------------------------------------------
(* Induction over numbers, and loops.                                      *)

\* A set of numbers with 0 and with the successor of each member has them all.
LEMMA SetInduction ==
    ASSUME NEW S \in SUBSET Nat, 0 \in S, \A n \in S : n + 1 \in S
    PROVE  S = Nat
<1> DEFINE R == OpToRel(<, Nat)
<1>1. IsWellFoundedOn(R, Nat)
  BY NatLessThanWellFounded
<1>2. \A x, y \in Nat : x < y => << x, y >> \in R
  BY DEF OpToRel
<1> HIDE DEF R
<1>3. SUFFICES ASSUME Nat \ S # {} PROVE FALSE
  OBVIOUS
<1>4. PICK x \in Nat \ S : \A y \in Nat \ S : ~(<< y, x >> \in R)
  BY <1>1, <1>3, WFMin
<1>5. x # 0 /\ x - 1 \in Nat /\ x - 1 < x
  BY <1>4
<1>6. x - 1 \in S
  BY <1>2, <1>4, <1>5
<1>7. QED
  BY <1>4, <1>5, <1>6

\* What holds of 0 and is kept by each step of a loop of n steps holds after
\* every one of them.
LEMMA LoopInduction ==
    ASSUME NEW n \in Nat, NEW S, 0 \in S, \A i \in 1 .. n : i - 1 \in S => i \in S
    PROVE  0 .. n \subseteq S
<1> DEFINE T == { i \in Nat : i <= n => i \in S }
<1>1. 0 \in T
  OBVIOUS
<1>2. ASSUME NEW i \in T PROVE i + 1 \in T
  <2>1. SUFFICES ASSUME i + 1 <= n PROVE i + 1 \in S
    OBVIOUS
  <2>2. i \in S /\ i + 1 \in 1 .. n /\ (i + 1) - 1 = i
    BY <2>1
  <2>3. QED
    BY <2>2
<1> HIDE DEF T
<1>3. T = Nat
  <2>1. T \in SUBSET Nat
    BY DEF T
  <2>2. QED
    BY <1>1, <1>2, <2>1, SetInduction
<1>4. QED
  BY <1>3 DEF T

\* The greatest number of a set that ends in n is n.
LEMMA MaxOf ==
    ASSUME NEW n \in Int, NEW s \in SUBSET Int, n \in s, \A i \in s : i <= n
    PROVE  Max(s) = n
<1>1. n \in s /\ \A y \in s : n >= y
  OBVIOUS
<1>2. Max(s) \in s /\ \A y \in s : Max(s) >= y
  BY <1>1 DEF Max
<1>3. Max(s) \in Int /\ Max(s) >= n /\ Max(s) <= n
  BY <1>2
<1>4. QED
  BY <1>3

\* Of finitely many numbered values that are numbers one is the greatest.
LEMMA GreatestExists ==
    ASSUME NEW n \in Nat, NEW s \in SUBSET (1 .. n), s # {}, NEW v, \A i \in s : v[i] \in Int
    PROVE  \E m \in s : \A i \in s : v[m] >= v[i]
<1> DEFINE Top(m, k) == m \in s /\ m \in 1 .. k /\ \A i \in s : i <= k => v[m] >= v[i]
           S == { k \in 0 .. n : (\E i \in s : i <= k) => \E m : Top(m, k) }
<1>1. 0 \in S
  OBVIOUS
<1>2. ASSUME NEW k \in 1 .. n, k - 1 \in S
      PROVE  k \in S
  <2>1. CASE k \notin s
    <3>1. \A i \in s : i <= k => i <= k - 1
      BY <2>1
    <3>2. \A m : Top(m, k - 1) => Top(m, k)
      BY <3>1
    <3>3. QED
      BY <1>2, <3>1, <3>2
  <2>2. CASE k \in s /\ \A i \in s : ~(i <= k - 1)
    <3>1. \A i \in s : i <= k => i = k
      BY <2>2
    <3>2. Top(k, k)
      BY <2>2, <3>1
    <3>3. QED
      BY <3>2
  <2>3. CASE k \in s /\ \E i \in s : i <= k - 1
    <3>1. PICK m : Top(m, k - 1)
      BY <1>2, <2>3
    <3>2. \A i \in s : i <= k => i <= k - 1 \/ i = k
      OBVIOUS
    <3>3. CASE v[m] >= v[k]
      <4>1. Top(m, k)
        BY <3>1, <3>2, <3>3
      <4>2. QED
        BY <4>1
    <3>4. CASE ~(v[m] >= v[k])
      <4>1. v[m] \in Int /\ v[k] \in Int /\ v[k] >= v[m] /\ v[k] >= v[k]
        BY <2>3, <3>1, <3>4
      <4>2. \A i \in s : i <= k - 1 => v[k] >= v[i]
        BY <3>1, <4>1
      <4>3. Top(k, k)
        BY <2>3, <3>2, <4>1, <4>2
      <4>4. QED
        BY <4>3
    <3>5. QED
      BY <3>3, <3>4
  <2>4. QED
    BY <2>1, <2>2, <2>3
<1>3. n \in S
  <2> HIDE DEF S
  <2>1. 0 .. n \subseteq S
    BY <1>1, <1>2, LoopInduction
  <2>2. QED
    BY <2>1
<1>4. \A i \in s : i <= n
  OBVIOUS
<1>5. PICK m : Top(m, n)
  <2> HIDE DEF Top
  <2>1. \E i \in s : i <= n
    BY <1>4
  <2>2. QED
    BY <1>3, <2>1
<1>6. QED
  BY <1>4, <1>5

\* A set of numbers up to n that is not empty has a greatest and a least one.
LEMMA MaxIn ==
    ASSUME NEW n \in Nat, NEW s \in SUBSET (1 .. n), s # {}
    PROVE  Max(s) \in s /\ \A i \in s : i <= Max(s)
<1> DEFINE v == [i \in 1 .. n |-> i]
<1>1. \A i \in s : v[i] \in Int
  OBVIOUS
<1>2. \E m \in s : \A i \in s : v[m] >= v[i]
  <2> HIDE DEF v
  <2>1. QED
    BY <1>1, GreatestExists
<1>3. \E m \in s : \A i \in s : m >= i
  BY <1>2
<1>4. Max(s) \in s /\ \A i \in s : Max(s) >= i
  BY <1>3 DEF Max
<1>5. QED
  BY <1>4

LEMMA MinIn ==
    ASSUME NEW n \in Nat, NEW s \in SUBSET (1 .. n), s # {}
    PROVE  Min(s) \in s /\ \A i \in s : Min(s) <= i
<1> DEFINE v == [i \in 1 .. n |-> 0 - i]
<1>1. \A i \in s : v[i] \in Int
  OBVIOUS
<1>2. \E m \in s : \A i \in s : v[m] >= v[i]
  <2> HIDE DEF v
  <2>1. QED
    BY <1>1, GreatestExists
<1>3. PICK m \in s : \A i \in s : v[m] >= v[i]
  BY <1>2
<1>4. ASSUME NEW i \in s PROVE m <= i
  <2>1. i \in Int /\ m \in Int /\ v[m] = 0 - m /\ v[i] = 0 - i /\ v[m] >= v[i]
    BY <1>3
  <2> HIDE DEF v
  <2>2. QED
    BY <2>1
<1>5. QED
  BY <1>4 DEF Min

\* What a fold gives for each set of places: it is made from the greatest place
\* and the value for the others.
IsFold(g, n, base, step) ==
    \A s \in SUBSET (1 .. n) :
        g[s] = IF s = {} THEN base ELSE step[Max(s)][g[s \ {Max(s)}]]

\* Folding a sequence of n elements from the left is a loop: the value for a set
\* of places is made from its greatest place and the value for the others.
LEMMA FoldExists ==
    ASSUME NEW n \in Nat, NEW V, NEW base \in V, NEW step,
           \A i \in 1 .. n : \A v \in V : step[i][v] \in V
    PROVE  \E g \in [SUBSET (1 .. n) -> V] : IsFold(g, n, base, step)
<1> USE DEF IsFold
<1> DEFINE Folds(g, k) == g \in [SUBSET (1 .. k) -> V] /\ IsFold(g, k, base, step)
           S == { k \in 0 .. n : \E g : Folds(g, k) }
<1>1. 0 \in S
  <2> DEFINE g == [s \in SUBSET (1 .. 0) |-> base]
  <2>1. \A s \in SUBSET (1 .. 0) : s = {}
    OBVIOUS
  <2>2. Folds(g, 0)
    BY <2>1
  <2>3. 0 \in 0 .. n
    OBVIOUS
  <2> HIDE DEF Folds, g
  <2>4. QED
    BY <2>2, <2>3
<1>2. ASSUME NEW k \in 1 .. n, k - 1 \in S
      PROVE  k \in S
  <2>1. PICK g : Folds(g, k - 1)
    BY <1>2
  <2> DEFINE h == [s \in SUBSET (1 .. k) |-> IF k \in s THEN step[k][g[s \ {k}]] ELSE g[s]]
  <2>3. ASSUME NEW s \in SUBSET (1 .. k)
        PROVE  /\ k \in s => s \ {k} \in SUBSET (1 .. (k - 1)) /\ Max(s) = k
               /\ k \notin s => s \in SUBSET (1 .. (k - 1))
    <3>1. \A i \in s : i \in Int /\ i <= k
      OBVIOUS
    <3>2. s \in SUBSET Int
      BY <3>1
    <3>3. k \in s => Max(s) = k
      BY <3>1, <3>2, MaxOf
    <3>4. QED
      BY <3>1, <3>3
  <2>4. \A s \in SUBSET (1 .. k) : h[s] \in V
    <3> SUFFICES ASSUME NEW s \in SUBSET (1 .. k) PROVE h[s] \in V
      OBVIOUS
    <3>1. CASE k \in s
      <4>1. g[s \ {k}] \in V
        BY <2>1, <2>3, <3>1
      <4>2. QED
        BY <3>1, <4>1
    <3>2. CASE k \notin s
      BY <2>1, <2>3, <3>2
    <3>3. QED
      BY <3>1, <3>2
  <2>5. \A s \in SUBSET (1 .. k) :
          h[s] = IF s = {} THEN base ELSE step[Max(s)][h[s \ {Max(s)}]]
    <3> SUFFICES ASSUME NEW s \in SUBSET (1 .. k)
                 PROVE  h[s] = IF s = {} THEN base ELSE step[Max(s)][h[s \ {Max(s)}]]
      OBVIOUS
    <3>1. CASE k \in s
      <4>1. Max(s) = k /\ k \notin s \ {k} /\ s \ {k} \in SUBSET (1 .. k)
        BY <2>3, <3>1
      <4>2. h[s \ {k}] = g[s \ {k}]
        BY <4>1
      <4>3. QED
        BY <3>1, <4>1, <4>2
    <3>2. CASE k \notin s /\ s # {}
      <4>1. s \in SUBSET (1 .. (k - 1))
        BY <2>3, <3>2
      <4>2. k \notin s \ {Max(s)} /\ s \ {Max(s)} \in SUBSET (1 .. k)
        BY <3>2
      <4>3. h[s] = g[s] /\ h[s \ {Max(s)}] = g[s \ {Max(s)}]
        BY <3>2, <4>2
      <4>4. g[s] = step[Max(s)][g[s \ {Max(s)}]]
        BY <2>1, <3>2, <4>1
      <4>5. QED
        BY <3>2, <4>3, <4>4
    <3>3. CASE s = {}
      <4>1. h[s] = g[s]
        BY <3>3
      <4>2. g[s] = base
        BY <2>1, <2>3, <3>3
      <4>3. QED
        BY <3>3, <4>1, <4>2
    <3>4. QED
      BY <3>1, <3>2, <3>3
  <2>6. Folds(h, k)
    BY <2>4, <2>5
  <2>7. k \in 0 .. n
    OBVIOUS
  <2> HIDE DEF Folds, h
  <2>8. QED
    BY <2>6, <2>7
<1>3. n \in S
  <2> HIDE DEF S
  <2>1. 0 .. n \subseteq S
    BY <1>1, <1>2, LoopInduction
  <2>2. QED
    BY <2>1
<1>4. QED
  BY <1>3

\* A loop over 1 .. n goes from 1 .. (i - 1) to 1 .. i.
LEMMA PrefixStep ==
    ASSUME NEW n \in Nat, NEW i \in 1 .. n
    PROVE  /\ 1 .. i \in SUBSET (1 .. n) /\ 1 .. i # {}
           /\ Max(1 .. i) = i /\ (1 .. i) \ {i} = 1 .. (i - 1)
<1>1. i \in 1 .. i /\ 1 .. i \in SUBSET Int /\ \A j \in 1 .. i : j <= i
  OBVIOUS
<1>2. Max(1 .. i) = i
  BY <1>1, MaxOf
<1>3. QED
  BY <1>1, <1>2

-----------------------------------------------------------------------------
(* Totals, and the re-stamping of prices. *)

\* f[i] is the sum of the first i budgets of a plan.
Sums(f, n, plan) ==
    /\ f[0] = 0 /\ f[n] = TotalBudget(plan)
    /\ \A i \in 1 .. n : f[i - 1] \in Int /\ f[i] = f[i - 1] + plan[i].budget

\* The total of a plan is the sum of its budgets, taken one after the other.
LEMMA TotalAsLoop ==
    ASSUME NEW n \in Nat, NEW plan, DOMAIN plan = 1 .. n,
           \A i \in 1 .. n : plan[i].budget \in Int
    PROVE  \E f : Sums(f, n, plan)
<1> DEFINE B(g) == [s \in SUBSET (1 .. n) |->
                      IF s = {} THEN 0 ELSE g[s \ {Max(s)}] + plan[Max(s)].budget]
<1>1. \E g : g = B(g)
  <2> DEFINE step == [i \in 1 .. n |-> [v \in Int |-> v + plan[i].budget]]
  <2>1. \A i \in 1 .. n : \A v \in Int : step[i][v] \in Int
    OBVIOUS
  <2>2. PICK g \in [SUBSET (1 .. n) -> Int] : IsFold(g, n, 0, step)
    <3> HIDE DEF step
    <3>1. 0 \in Int
      OBVIOUS
    <3>2. QED
      BY <2>1, <3>1, FoldExists
  <2>3. ASSUME NEW s \in SUBSET (1 .. n), s # {}
        PROVE  step[Max(s)][g[s \ {Max(s)}]] = g[s \ {Max(s)}] + plan[Max(s)].budget
    <3>1. Max(s) \in 1 .. n
      BY <2>3, MaxIn
    <3>2. g[s \ {Max(s)}] \in Int
      BY <2>2
    <3>3. QED
      BY <3>1, <3>2
  <2>4. g = B(g)
    BY <2>2, <2>3 DEF IsFold
  <2>5. QED
    BY <2>4
<1> DEFINE iter == CHOOSE g : g = B(g)
<1>2. iter = B(iter)
  BY <1>1
<1>3. TotalBudget(plan) = iter[1 .. n]
  BY DEF TotalBudget, FoldLeft, MapThenFoldSet
<1> HIDE DEF iter
<1> DEFINE f == [i \in 0 .. n |-> iter[1 .. i]]
<1>4. f[0] = 0
  BY <1>2
<1>5. ASSUME NEW i \in 1 .. n
      PROVE  f[i] = f[i - 1] + plan[i].budget
  <2>1. f[i] = iter[1 .. i] /\ f[i - 1] = iter[1 .. (i - 1)]
    OBVIOUS
  <2>2. iter[1 .. i] = iter[(1 .. i) \ {Max(1 .. i)}] + plan[Max(1 .. i)].budget
    BY <1>2, PrefixStep
  <2>3. QED
    BY <2>1, <2>2, PrefixStep
<1>6. f[n] = TotalBudget(plan)
  BY <1>3
<1> HIDE DEF f
<1>7. \A i \in 0 .. n : f[i] \in Int
  <2> DEFINE S == { i \in 0 .. n : f[i] \in Int }
  <2>1. 0 \in S
    BY <1>4
  <2>2. ASSUME NEW i \in 1 .. n, i - 1 \in S PROVE i \in S
    BY <1>5, <2>2
  <2> HIDE DEF S
  <2>3. 0 .. n \subseteq S
    BY <2>1, <2>2, LoopInduction
  <2>4. QED
    BY <2>3 DEF S
<1>8. \A i \in 1 .. n : f[i - 1] \in Int
  BY <1>7
<1>9. QED
  BY <1>4, <1>5, <1>6, <1>8 DEF Sums

\* Plans with the same budgets have the same total.
LEMMA SameTotal ==
    ASSUME NEW n \in Nat, NEW p, NEW q, DOMAIN p = 1 .. n, DOMAIN q = 1 .. n,
           \A i \in 1 .. n : p[i].budget \in Int /\ q[i].budget = p[i].budget
    PROVE  TotalBudget(p) = TotalBudget(q)
<1>1. PICK f : Sums(f, n, p)
  BY TotalAsLoop
<1>2. PICK g : Sums(g, n, q)
  <2>1. \A i \in 1 .. n : q[i].budget \in Int
    OBVIOUS
  <2>2. QED
    BY <2>1, TotalAsLoop
<1> USE DEF Sums
<1> DEFINE S == { i \in 0 .. n : f[i] = g[i] }
<1>3. 0 \in S
  BY <1>1, <1>2
<1>4. ASSUME NEW i \in 1 .. n, i - 1 \in S PROVE i \in S
  BY <1>1, <1>2, <1>4
<1> HIDE DEF S
<1>5. 0 .. n \subseteq S
  BY <1>3, <1>4, LoopInduction
<1>6. QED
  BY <1>1, <1>2, <1>5 DEF S

\* A package with the seller's price on it.
Stamped(pkg, catalog, currency) ==
    [ pkg EXCEPT !.cpm = AuthoritativeCpm(catalog[ProductIndex(catalog, pkg.product)],
                                          pkg.option, currency) ]

\* f[i] is what resolve_plan_pricing has collected after i packages.
Collects(f, n, plan, catalog, currency, R) ==
    /\ f[0] = << >> /\ f[n] = Resolve(plan, catalog, currency)
    /\ \A i \in 0 .. n : f[i] \in Seq(R)
    /\ \A i \in 1 .. n :
         f[i] = IF Resolvable(plan[i], catalog, currency)
                  THEN Append(f[i - 1], Stamped(plan[i], catalog, currency))
                  ELSE f[i - 1]

\* resolve_plan_pricing goes through the plan once.
LEMMA ResolveAsLoop ==
    ASSUME NEW n \in Nat, NEW plan, DOMAIN plan = 1 .. n, NEW catalog, NEW currency,
           NEW R, \A i \in 1 .. n : Resolvable(plan[i], catalog, currency) =>
                                      Stamped(plan[i], catalog, currency) \in R
    PROVE  \E f : Collects(f, n, plan, catalog, currency, R)
<1> DEFINE Next1(i, v) == IF Resolvable(plan[i], catalog, currency)
                            THEN Append(v, Stamped(plan[i], catalog, currency)) ELSE v
           B(g) == [s \in SUBSET (1 .. n) |->
                      IF s = {} THEN << >> ELSE Next1(Max(s), g[s \ {Max(s)}])]
<1>0. \A i \in 1 .. n : \A v \in Seq(R) : Next1(i, v) \in Seq(R)
  OBVIOUS
<1>1. \E g : g = B(g)
  <2> DEFINE step == [i \in 1 .. n |-> [v \in Seq(R) |-> Next1(i, v)]]
  <2> HIDE DEF Next1
  <2>1. \A i \in 1 .. n : \A v \in Seq(R) : step[i][v] \in Seq(R)
    BY <1>0
  <2>2. PICK g \in [SUBSET (1 .. n) -> Seq(R)] : IsFold(g, n, << >>, step)
    <3> HIDE DEF step
    <3>1. << >> \in Seq(R)
      OBVIOUS
    <3>2. QED
      BY <2>1, <3>1, FoldExists
  <2>3. ASSUME NEW s \in SUBSET (1 .. n), s # {}
        PROVE  step[Max(s)][g[s \ {Max(s)}]] = Next1(Max(s), g[s \ {Max(s)}])
    <3>1. Max(s) \in 1 .. n
      BY <2>3, MaxIn
    <3>2. g[s \ {Max(s)}] \in Seq(R)
      BY <2>2
    <3>3. QED
      BY <3>1, <3>2
  <2>4. g = B(g)
    BY <2>2, <2>3 DEF IsFold
  <2>5. QED
    BY <2>4
<1> DEFINE iter == CHOOSE g : g = B(g)
<1>2. iter = B(iter)
  BY <1>1
<1>3. Resolve(plan, catalog, currency) = iter[1 .. n]
  BY DEF Resolve, FoldLeft, MapThenFoldSet, Stamped
<1> HIDE DEF iter, Next1
<1> DEFINE f == [i \in 0 .. n |-> iter[1 .. i]]
<1>4. f[0] = << >>
  BY <1>2
<1>5. ASSUME NEW i \in 1 .. n
      PROVE  f[i] = Next1(i, f[i - 1])
  <2>1. f[i] = iter[1 .. i] /\ f[i - 1] = iter[1 .. (i - 1)]
    OBVIOUS
  <2>2. iter[1 .. i] = Next1(Max(1 .. i), iter[(1 .. i) \ {Max(1 .. i)}])
    BY <1>2, PrefixStep
  <2>3. QED
    BY <2>1, <2>2, PrefixStep
<1>6. f[n] = Resolve(plan, catalog, currency)
  BY <1>3
<1> HIDE DEF f
<1>7. \A i \in 0 .. n : f[i] \in Seq(R)
  <2> DEFINE S == { i \in 0 .. n : f[i] \in Seq(R) }
  <2>1. 0 \in S
    <3>1. f[0] \in Seq(R)
      BY <1>4
    <3>2. 0 \in 0 .. n
      OBVIOUS
    <3>3. QED
      BY <3>1, <3>2
  <2>2. ASSUME NEW i \in 1 .. n, i - 1 \in S PROVE i \in S
    BY <1>0, <1>5, <2>2
  <2> HIDE DEF S
  <2>3. 0 .. n \subseteq S
    BY <2>1, <2>2, LoopInduction
  <2>4. QED
    BY <2>3 DEF S
<1>8. QED
  BY <1>4, <1>5, <1>6, <1>7 DEF Next1, Collects

-----------------------------------------------------------------------------
(* The prices of a seller. *)

\* Where there is a bookable price there is a worst one.
LEMMA WorstPrice ==
    ASSUME NEW catalog, IsCatalog(catalog), NEW p \in ToSet(catalog), NEW option, NEW currency,
           BookablePrices(p, option, currency) # {}
    PROVE  /\ AuthoritativeCpm(p, option, currency) \in BookablePrices(p, option, currency)
           /\ \A x \in BookablePrices(p, option, currency) :
                x \in Int /\ x >= 0 /\ x <= AuthoritativeCpm(p, option, currency)
<1> DEFINE os == p.options
           n == Len(os)
           v == [i \in 1 .. n |-> os[i].price.amount]
           s == { i \in 1 .. n : os[i].id = option /\ Buyable(os[i], currency) }
           B == BookablePrices(p, option, currency)
<1>1. n \in Nat /\ DOMAIN os = 1 .. n
  BY DEF IsCatalog, IsSequence
<1>2. \A i \in 1 .. n : os[i].price.kind = "amount" => os[i].price.amount \in Int
  BY <1>1 DEF IsCatalog, ToSet
<1>3. B = { v[i] : i \in s }
  BY <1>1 DEF BookablePrices, ToSet
<1>4. \A i \in s : v[i] \in Int /\ v[i] >= 0
  BY <1>2 DEF Buyable
<1>5. s \in SUBSET (1 .. n) /\ s # {}
  BY <1>3
<1>6. \E m \in s : \A i \in s : v[m] >= v[i]
  <2> HIDE DEF v, s, n
  <2>1. QED
    BY <1>1, <1>4, <1>5, GreatestExists
<1>7. \E x \in B : \A y \in B : x >= y
  BY <1>3, <1>6
<1>8. Max(B) \in B /\ \A y \in B : Max(B) >= y
  BY <1>7 DEF Max
<1>9. \A x \in B : x \in Int /\ x >= 0
  BY <1>3, <1>4
<1>10. QED
  BY <1>8, <1>9 DEF AuthoritativeCpm

\* The index of products gives a product of that id, if the catalog has one.
LEMMA IndexedProduct ==
    ASSUME NEW catalog, IsCatalog(catalog), NEW id
    PROVE  LET i == ProductIndex(catalog, id)
           IN  /\ i # 0 => i \in DOMAIN catalog /\ catalog[i] \in ToSet(catalog) /\ catalog[i].id = id
               /\ \A j \in DOMAIN catalog : catalog[j].id = id => i # 0 /\ j <= i
<1> DEFINE I == { i \in 1 .. Len(catalog) : catalog[i].id = id }
<1>1. Len(catalog) \in Nat /\ DOMAIN catalog = 1 .. Len(catalog)
  BY DEF IsCatalog, IsSequence
<1>2. ProductIndex(catalog, id) = IF I # {} THEN Max(I) ELSE 0
  BY DEF ProductIndex, SelectLastInSeq
<1>3. I \in SUBSET (1 .. Len(catalog))
  OBVIOUS
<1>4. I # {} => Max(I) \in I /\ \A i \in I : i <= Max(I)
  <2> HIDE DEF I
  <2>1. QED
    BY <1>1, <1>3, MaxIn
<1> DEFINE i == ProductIndex(catalog, id)
<1>5. ASSUME i # 0
      PROVE  i \in DOMAIN catalog /\ catalog[i] \in ToSet(catalog) /\ catalog[i].id = id
  <2>1. i \in I
    BY <1>2, <1>4, <1>5
  <2>2. QED
    BY <1>1, <2>1 DEF ToSet
<1>6. ASSUME NEW j \in DOMAIN catalog, catalog[j].id = id
      PROVE  i # 0 /\ j <= i
  <2>1. j \in I
    BY <1>1, <1>6
  <2>2. i \in I /\ j <= i
    BY <1>2, <1>4, <2>1
  <2>3. QED
    BY <2>2
<1>7. QED
  BY <1>5, <1>6

-----------------------------------------------------------------------------
(* What resolve_plan_pricing returns. *)

\* A package that carries the seller's worst price for its option.
AtSellerPrice(pkg, catalog, currency) ==
    /\ Resolvable(pkg, catalog, currency)
    /\ pkg.cpm = AuthoritativeCpm(catalog[ProductIndex(catalog, pkg.product)], pkg.option, currency)

LEMMA StampedPackage ==
    ASSUME NEW pkg, IsPackage(pkg), NEW catalog, NEW currency, Resolvable(pkg, catalog, currency)
    PROVE  /\ IsPackage(Stamped(pkg, catalog, currency))
           /\ AtSellerPrice(Stamped(pkg, catalog, currency), catalog, currency)
<1> DEFINE cpm == AuthoritativeCpm(catalog[ProductIndex(catalog, pkg.product)], pkg.option, currency)
           r == Stamped(pkg, catalog, currency)
<1>1. r = [pkg EXCEPT !.cpm = cpm]
  BY DEF Stamped
<1> HIDE DEF cpm
<1>2. pkg = [ product |-> pkg.product, option |-> pkg.option, cpm |-> pkg.cpm, budget |-> pkg.budget ]
  BY DEF IsPackage
<1>3. r = [ product |-> pkg.product, option |-> pkg.option, cpm |-> cpm, budget |-> pkg.budget ]
  BY <1>1, <1>2
<1> HIDE DEF r
<1>4. r.product = pkg.product /\ r.option = pkg.option /\ r.cpm = cpm /\ r.budget = pkg.budget
  BY <1>3
<1>5. IsPackage(r)
  BY <1>3, <1>4 DEF IsPackage
<1>6. AtSellerPrice(r, catalog, currency)
  BY <1>4 DEF AtSellerPrice, Resolvable, cpm
<1>7. QED
  BY <1>5, <1>6 DEF r

\* Whatever the planner claimed, every package that is left can be booked and
\* carries the worst price the seller could charge for it (guard.py:55-58).
THEOREM PricesAreTheSellers ==
    ASSUME NEW plan, IsPlan(plan), NEW catalog, NEW currency
    PROVE  LET r == Resolve(plan, catalog, currency)
           IN  IsPlan(r) /\ \A i \in DOMAIN r : AtSellerPrice(r[i], catalog, currency)
<1> DEFINE n == Len(plan)
           I == { i \in 1 .. n : Resolvable(plan[i], catalog, currency) }
           R == { Stamped(plan[i], catalog, currency) : i \in I }
           r == Resolve(plan, catalog, currency)
<1>1. n \in Nat /\ DOMAIN plan = 1 .. n /\ \A i \in 1 .. n : IsPackage(plan[i])
  BY DEF IsPlan, IsSequence, ToSet
<1>2. r \in Seq(R)
  <2>1. \A i \in 1 .. n : Resolvable(plan[i], catalog, currency) =>
                            Stamped(plan[i], catalog, currency) \in R
    OBVIOUS
  <2> HIDE DEF R, n
  <2>2. PICK f : Collects(f, n, plan, catalog, currency, R)
    BY <1>1, <2>1, ResolveAsLoop
  <2>3. QED
    BY <1>1, <2>2 DEF Collects
<1>3. \A x \in R : IsPackage(x) /\ AtSellerPrice(x, catalog, currency)
  BY <1>1, StampedPackage
<1> HIDE DEF r, R
<1>4. \A i \in DOMAIN r : r[i] \in R
  BY <1>2
<1>5. IsSequence(r)
  BY <1>2, <1>4 DEF IsSequence, ToSet
<1>6. IsPlan(r)
  BY <1>3, <1>4, <1>5 DEF IsPlan, ToSet
<1>7. QED
  BY <1>3, <1>4, <1>6 DEF r

\* A plan whose packages can all be booked keeps them, at the prices of the seller.
LEMMA ResolveStamps ==
    ASSUME NEW plan, IsPlan(plan), NEW catalog, NEW currency,
           \A i \in DOMAIN plan : Resolvable(plan[i], catalog, currency)
    PROVE  Resolve(plan, catalog, currency) = [i \in DOMAIN plan |-> Stamped(plan[i], catalog, currency)]
<1> DEFINE n == Len(plan)
           r == [i \in 1 .. n |-> Stamped(plan[i], catalog, currency)]
           R == { Stamped(plan[i], catalog, currency) : i \in 1 .. n }
<1>1. /\ n \in Nat /\ DOMAIN plan = 1 .. n
      /\ \A i \in 1 .. n : Resolvable(plan[i], catalog, currency)
  BY DEF IsPlan, IsSequence
<1>2. \A i \in 1 .. n : r[i] = Stamped(plan[i], catalog, currency) /\ r[i] \in R
  OBVIOUS
<1>3. r \in Seq(R) /\ Len(r) = n
  <2>1. r \in [1 .. n -> R]
    BY <1>2
  <2> HIDE DEF r, R, n
  <2>2. QED
    BY <1>1, <2>1
<1> HIDE DEF n, r, R
<1>4. PICK f : /\ f[0] = << >> /\ f[n] = Resolve(plan, catalog, currency)
               /\ \A i \in 1 .. n : f[i] = Append(f[i - 1], r[i])
  <2>1. \A i \in 1 .. n : Resolvable(plan[i], catalog, currency) =>
                            Stamped(plan[i], catalog, currency) \in R
    BY <1>2
  <2>2. PICK f : Collects(f, n, plan, catalog, currency, R)
    BY <1>1, <2>1, ResolveAsLoop
  <2>3. QED
    BY <1>1, <1>2, <2>2 DEF Collects
<1> DEFINE S == { i \in 0 .. n : f[i] = SubSeq(r, 1, i) }
<1>5. 0 \in S
  <2>1. SubSeq(r, 1, 0) = << >> /\ 0 \in 0 .. n
    BY <1>1, <1>3
  <2>2. QED
    BY <1>4, <2>1
<1>6. ASSUME NEW i \in 1 .. n, i - 1 \in S
      PROVE  i \in S
  <2>1. Append(SubSeq(r, 1, i - 1), r[i]) = SubSeq(r, 1, i)
    BY <1>1, <1>3
  <2>2. f[i] = Append(f[i - 1], r[i]) /\ f[i - 1] = SubSeq(r, 1, i - 1)
    BY <1>4, <1>6
  <2>3. i \in 0 .. n
    BY <1>1
  <2>4. QED
    BY <2>1, <2>2, <2>3
<1>7. f[n] = SubSeq(r, 1, n)
  <2> HIDE DEF S
  <2>1. 0 .. n \subseteq S
    BY <1>1, <1>5, <1>6, LoopInduction
  <2>2. QED
    BY <1>1, <2>1 DEF S
<1>8. SubSeq(r, 1, n) = r
  BY <1>3
<1>9. r = [i \in DOMAIN plan |-> Stamped(plan[i], catalog, currency)]
  BY <1>1 DEF r
<1>10. QED
  BY <1>4, <1>7, <1>8, <1>9

-----------------------------------------------------------------------------
(* The planner's choice of options. *)

\* What is proposed for a product can be booked and is not over the ceiling.
LEMMA CandidateFits ==
    ASSUME NEW catalog, IsCatalog(catalog), NEW p \in ToSet(catalog), NEW brief,
           Candidate(p, brief) # 0
    PROVE  LET k == Candidate(p, brief)
           IN  /\ k \in DOMAIN p.options /\ p.options[k] \in ToSet(p.options)
               /\ Buyable(p.options[k], brief.currency)
               /\ brief.maxCpm # NoCeiling => ~(p.options[k].price.amount > brief.maxCpm)
<1> DEFINE os == p.options
           best(po) == /\ Buyable(po, brief.currency)
                       /\ \A q \in ToSet(os) :
                            Buyable(q, brief.currency) => po.price.amount <= q.price.amount
           I == { i \in 1 .. Len(os) : best(os[i]) }
           k == Candidate(p, brief)
<1>1. Len(os) \in Nat /\ DOMAIN os = 1 .. Len(os)
  BY DEF IsCatalog, IsSequence
<1>2. CheapestOption(p, brief.currency) = IF I # {} THEN Min(I) ELSE 0
  BY DEF CheapestOption, SelectInSeq
<1>3. I # {} => Min(I) \in I
  <2>1. I \in SUBSET (1 .. Len(os))
    OBVIOUS
  <2> HIDE DEF I
  <2>2. QED
    BY <1>1, <2>1, MinIn
<1>4. k = CheapestOption(p, brief.currency) /\ k # 0
      /\ (brief.maxCpm # NoCeiling => ~(os[k].price.amount > brief.maxCpm))
  BY DEF Candidate
<1>5. k \in I
  BY <1>2, <1>3, <1>4
<1>6. QED
  BY <1>1, <1>4, <1>5 DEF ToSet

\* Of finitely many products one is outranked by all the others.
LEMMA LastRanked ==
    ASSUME NEW N \in Nat, NEW fits \in SUBSET (1 .. N), fits # {}, NEW catalog,
           \A i \in fits : catalog[i].score \in Int
    PROVE  \E l \in fits : \A i \in fits \ {l} : Outranks(catalog, i, l) /\ ~Outranks(catalog, l, i)
<1> DEFINE v == [i \in 1 .. N |-> 0 - catalog[i].score]
<1>1. PICK m \in fits : \A i \in fits : v[m] >= v[i]
  <2>1. \A i \in fits : v[i] \in Int
    OBVIOUS
  <2> HIDE DEF v
  <2>2. QED
    BY <2>1, GreatestExists
<1>2. ASSUME NEW i \in fits PROVE catalog[m].score <= catalog[i].score
  <2>1. v[m] = 0 - catalog[m].score /\ v[i] = 0 - catalog[i].score /\ v[m] >= v[i]
    BY <1>1
  <2> HIDE DEF v
  <2>2. QED
    BY <2>1
<1> DEFINE low == { i \in fits : catalog[i].score = catalog[m].score }
<1>3. Max(low) \in low /\ \A i \in low : i <= Max(low)
  <2>1. low \in SUBSET (1 .. N) /\ low # {}
    OBVIOUS
  <2> HIDE DEF low
  <2>2. QED
    BY <2>1, MaxIn
<1> DEFINE l == Max(low)
<1>4. ASSUME NEW i \in fits \ {l}
      PROVE  Outranks(catalog, i, l) /\ ~Outranks(catalog, l, i)
  <2>1. l \in low /\ \A j \in low : j <= l
    BY <1>3
  <2> HIDE DEF l
  <2>2. l \in Int /\ i \in Int /\ i # l /\ catalog[l].score = catalog[m].score
        /\ (catalog[i].score = catalog[m].score => i <= l)
    BY <2>1
  <2>3. catalog[m].score <= catalog[i].score /\ catalog[m].score \in Int /\ catalog[i].score \in Int
    BY <1>2
  <2>4. QED
    BY <2>2, <2>3 DEF Outranks
<1>5. l \in fits
  BY <1>3
<1>6. QED
  BY <1>4, <1>5

\* Every rank is that of a product.
LEMMA Ranking ==
    ASSUME NEW N \in Nat, NEW fits \in SUBSET (1 .. N), NEW catalog,
           \A i \in fits : catalog[i].score \in Int, NEW n \in 1 .. Cardinality(fits)
    PROVE  \E i \in fits : Rank(catalog, fits, i) = n - 1
<1> DEFINE Above(F, i) == { j \in F : Outranks(catalog, j, i) }
           Ranks(F) == \A r \in 1 .. Cardinality(F) : \E i \in F : Cardinality(Above(F, i)) = r - 1
           S == { k \in 0 .. N : \A F \in SUBSET fits : Cardinality(F) = k => Ranks(F) }
<1>1. ASSUME NEW F \in SUBSET fits
      PROVE  IsFiniteSet(F) /\ Cardinality(F) \in 0 .. N
  <2>1. IsFiniteSet(1 .. N) /\ Cardinality(1 .. N) = N
    BY FS_Interval
  <2>2. F \in SUBSET (1 .. N)
    OBVIOUS
  <2>3. IsFiniteSet(F) /\ Cardinality(F) <= Cardinality(1 .. N)
    BY <2>1, <2>2, FS_Subset
  <2>4. Cardinality(F) \in Nat
    BY <2>3, FS_CardinalityType
  <2>5. QED
    BY <2>1, <2>3, <2>4
<1>2. 0 \in S
  OBVIOUS
<1>3. ASSUME NEW k \in 1 .. N, k - 1 \in S
      PROVE  k \in S
  <2> HIDE DEF Ranks
  <2> SUFFICES ASSUME NEW F \in SUBSET fits, Cardinality(F) = k
               PROVE  Ranks(F)
    OBVIOUS
  <2> USE DEF Ranks
  <2>1. F # {}
    BY FS_EmptySet
  <2>2. PICK l \in F : \A i \in F \ {l} : Outranks(catalog, i, l) /\ ~Outranks(catalog, l, i)
    <3>1. F \in SUBSET (1 .. N) /\ \A i \in F : catalog[i].score \in Int
      OBVIOUS
    <3>2. QED
      BY <2>1, <3>1, LastRanked
  <2>3. Cardinality(F \ {l}) = k - 1
    BY <1>1, FS_RemoveElement
  <2>4. l \notin Above(F, l)
    BY DEF Outranks
  <2>5. Above(F, l) = F \ {l}
    BY <2>2, <2>4
  <2>6. \A i \in F \ {l} : Above(F, i) = Above(F \ {l}, i)
    BY <2>2
  <2>7. Ranks(F \ {l})
    BY <1>3, <2>3
  <2>8. ASSUME NEW r \in 1 .. k
        PROVE  \E i \in F : Cardinality(Above(F, i)) = r - 1
    <3> HIDE DEF Above
    <3>1. CASE r = k
      BY <2>3, <2>5, <3>1
    <3>2. CASE r # k
      <4>1. r \in 1 .. Cardinality(F \ {l})
        BY <2>3, <3>2
      <4>2. PICK i \in F \ {l} : Cardinality(Above(F \ {l}, i)) = r - 1
        BY <2>7, <4>1
      <4>3. QED
        BY <2>6, <4>2
    <3>3. QED
      BY <3>1, <3>2
  <2>9. QED
    BY <2>8
<1>4. Ranks(fits)
  <2> HIDE DEF S, Ranks
  <2>1. 0 .. N \subseteq S
    BY <1>2, <1>3, LoopInduction
  <2>2. QED
    BY <1>1, <2>1 DEF S
<1>5. QED
  BY <1>4 DEF Rank

\* Products are listed once.
ProductsUnique(catalog) ==
    \A i, j \in DOMAIN catalog : catalog[i].id = catalog[j].id => i = j

\* Candidate c is the cheapest option of the i-th product.
Proposes(c, brief, catalog, i) ==
    LET o == catalog[i].options[Candidate(catalog[i], brief)]
    IN  /\ Candidate(catalog[i], brief) # 0
        /\ c.product = catalog[i].id /\ c.option = o.id /\ c.cpm = o.price.amount
        /\ c.min \in Int /\ (ProductsUnique(catalog) => c.min = o.minSpend)

LEMMA CandidatesListed ==
    ASSUME NEW catalog, IsCatalog(catalog), NEW brief
    PROVE  LET cs == Candidates(brief, catalog)
           IN  /\ IsSequence(cs)
               /\ \A n \in DOMAIN cs : \E i \in DOMAIN catalog : Proposes(cs[n], brief, catalog, i)
<1> DEFINE fits == { i \in DOMAIN catalog : Candidate(catalog[i], brief) # 0 }
           N == Len(catalog)
           opt(i) == catalog[i].options[Candidate(catalog[i], brief)]
           same(i) == { j \in fits : catalog[j].id = catalog[i].id }
           ranked(n) == CHOOSE i \in fits : Rank(catalog, fits, i) = n - 1
           item(n) == [ product |-> catalog[ranked(n)].id, option |-> opt(ranked(n)).id,
                        cpm |-> opt(ranked(n)).price.amount,
                        min |-> opt(Max(same(ranked(n)))).minSpend ]
           cs == Candidates(brief, catalog)
<1>1. /\ N \in Nat /\ DOMAIN catalog = 1 .. N
      /\ \A i \in 1 .. N : catalog[i] \in ToSet(catalog) /\ catalog[i].score \in Int
  <2>1. N \in Nat /\ DOMAIN catalog = 1 .. N
    BY DEF IsCatalog, IsSequence
  <2>2. \A i \in 1 .. N : catalog[i] \in ToSet(catalog)
    BY <2>1 DEF ToSet
  <2>3. QED
    BY <2>1, <2>2 DEF IsCatalog
<1>2. fits \in SUBSET (1 .. N)
  BY <1>1
<1>3. Cardinality(fits) \in Nat
  <2>1. IsFiniteSet(1 .. N)
    BY <1>1, FS_Interval
  <2>2. QED
    BY <1>2, <2>1, FS_Subset, FS_CardinalityType
<1>4. cs = [n \in 1 .. Cardinality(fits) |-> item(n)]
  BY DEF Candidates
<1>5. ASSUME NEW n \in 1 .. Cardinality(fits)
      PROVE  ranked(n) \in fits
  <2>1. \E i \in fits : Rank(catalog, fits, i) = n - 1
    <3>1. \A i \in fits : catalog[i].score \in Int
      BY <1>1, <1>2
    <3> HIDE DEF fits, N
    <3>2. QED
      BY <1>1, <1>2, <3>1, Ranking, ZenonT(30)
  <2> HIDE DEF fits
  <2>2. QED
    BY <2>1
<1>6. ASSUME NEW i \in fits
      PROVE  opt(i) \in ToSet(catalog[i].options) /\ opt(i).minSpend \in Int
  <2>1. catalog[i] \in ToSet(catalog)
    BY <1>1
  <2>2. opt(i) \in ToSet(catalog[i].options)
    BY <2>1, CandidateFits
  <2>3. QED
    BY <2>1, <2>2 DEF IsCatalog
<1>7. ASSUME NEW i \in fits
      PROVE  /\ Max(same(i)) \in fits
             /\ ProductsUnique(catalog) => Max(same(i)) = i
  <2>1. same(i) \in SUBSET (1 .. N) /\ same(i) # {}
    BY <1>2
  <2>2. Max(same(i)) \in same(i)
    <3> HIDE DEF same, N
    <3>1. QED
      BY <1>1, <2>1, MaxIn
  <2>3. QED
    BY <2>2 DEF ProductsUnique
<1>8. ASSUME NEW n \in 1 .. Cardinality(fits)
      PROVE  Proposes(cs[n], brief, catalog, ranked(n))
  <2> DEFINE i == ranked(n)
             m == Max(same(i))
  <2>1. i \in fits /\ m \in fits /\ (ProductsUnique(catalog) => m = i)
    BY <1>5, <1>7
  <2>2. cs[n] = [ product |-> catalog[i].id, option |-> opt(i).id,
                  cpm |-> opt(i).price.amount, min |-> opt(m).minSpend ]
    BY <1>4
  <2>3. opt(m).minSpend \in Int
    BY <1>6, <2>1
  <2>4. Candidate(catalog[i], brief) # 0
    BY <2>1
  <2>5. ProductsUnique(catalog) => opt(m).minSpend = opt(i).minSpend
    BY <2>1
  <2>6. Proposes(cs[n], brief, catalog, i)
    <3> HIDE DEF i, m, cs, fits
    <3>1. QED
      BY <2>2, <2>3, <2>4, <2>5 DEF Proposes
  <2>7. QED
    BY <2>6
<1>9. IsSequence(cs)
  <2>1. DOMAIN cs = 1 .. Cardinality(fits) /\ cs = [n \in 1 .. Cardinality(fits) |-> cs[n]]
    BY <1>4
  <2>2. \A n \in 1 .. Cardinality(fits) : cs[n] \in ToSet(cs)
    BY <2>1 DEF ToSet
  <2> HIDE DEF cs, fits
  <2>3. QED
    BY <1>3, <2>1, <2>2 DEF IsSequence
<1>10. QED
  BY <1>1, <1>2, <1>4, <1>5, <1>8, <1>9

-----------------------------------------------------------------------------
(* Equal shares. *)

\* A rounded share is a number of cents, at most half a cent off.
LEMMA RoundedShare ==
    ASSUME NEW n \in Nat \ {0}, NEW c \in Nat, NEW tieUp
    PROVE  \E q \in Nat : /\ RoundToCent(10 * c, n, tieUp) = 10 * q
                          /\ n * (2 * q) <= 2 * c + n /\ 2 * c <= n * (2 * q) + n
<1> DEFINE d == 10 * n
           q == (10 * c) \div d
           r == (10 * c) % d
           up == 2 * r > d \/ (2 * r = d /\ tieUp)
           s == IF up THEN q + 1 ELSE q
<1>1. d \in Nat \ {0} /\ 10 * c \in Nat
  OBVIOUS
<1>2. q \in Nat /\ r \in Nat /\ r < d /\ 10 * c = d * q + r
  <2> HIDE DEF d
  <2>1. QED
    BY <1>1
<1>3. RoundToCent(10 * c, n, tieUp) = 10 * s
  BY DEF RoundToCent
<1>4. s \in Nat /\ ((s = q /\ 2 * r <= d) \/ (s = q + 1 /\ 2 * r >= d))
  <2> HIDE DEF d, q, r
  <2>1. QED
    BY <1>1, <1>2
<1> HIDE DEF q, r, s
<1>5. 10 * c = 10 * (n * q) + r /\ n * q \in Nat
  BY <1>2
<1>6. CASE s = q /\ 2 * r <= d
  <2>1. n * (2 * s) = 2 * (n * q)
    BY <1>2, <1>6
  <2>2. QED
    BY <1>2, <1>3, <1>4, <1>5, <1>6, <2>1
<1>7. CASE s = q + 1 /\ 2 * r >= d
  <2>1. n * (2 * s) = 2 * (n * q) + 2 * n
    BY <1>2, <1>7
  <2>2. 10 * n <= 2 * r /\ r < 10 * n
    BY <1>2, <1>7
  <2> DEFINE m == n * q
  <2>3. m \in Nat /\ 10 * c = 10 * m + r /\ n * (2 * s) = 2 * m + 2 * n
    BY <1>5, <2>1
  <2> HIDE DEF m, d
  <2>4. 2 * m + 2 * n <= 2 * c + n /\ 2 * c <= (2 * m + 2 * n) + n
    BY <1>2, <2>2, <2>3
  <2>5. QED
    BY <1>3, <1>4, <2>3, <2>4
<1>8. QED
  BY <1>4, <1>6, <1>7

\* A number of cents is not rounded.
LEMMA CentsStay ==
    ASSUME NEW m \in Int, NEW tieUp
    PROVE  RoundToCent(10 * m, 1, tieUp) = 10 * m
<1>1. (10 * m) \div (10 * 1) = m /\ (10 * m) % (10 * 1) = 0
  OBVIOUS
<1>2. QED
  BY <1>1 DEF RoundToCent

\* A budget of whole cents is split into equal shares and a last one that takes
\* what is left.
SplitBy(n, c, q) ==
    /\ q \in Nat /\ n * (2 * q) <= 2 * c + n /\ 2 * c <= n * (2 * q) + n
    /\ Shares(n, 10 * c) = [i \in 1 .. n |-> IF i = n THEN 10 * (c - (n - 1) * q) ELSE 10 * q]

LEMMA SharesAre ==
    ASSUME NEW n \in Nat \ {0}, NEW c \in Nat
    PROVE  \E q : SplitBy(n, c, q)
<1>1. PICK q \in Nat : /\ RoundToCent(10 * c, n, ShareTieUp(10 * c, n)) = 10 * q
                       /\ n * (2 * q) <= 2 * c + n /\ 2 * c <= n * (2 * q) + n
  BY RoundedShare
<1> DEFINE per == RoundToCent(10 * c, n, ShareTieUp(10 * c, n))
<1>2. n * per - 10 * c = 10 * (n * q - c) /\ n * q - c \in Int
  BY <1>1
<1>3. RoundToCent(n * per - 10 * c, 1, DriftTieUp(10 * c, n)) = 10 * (n * q - c)
  BY <1>2, CentsStay
<1>4. per - 10 * (n * q - c) = 10 * (c - (n - 1) * q)
  <2>1. (n - 1) * q = n * q - q
    BY <1>1
  <2>2. per = 10 * q /\ n * q \in Int
    BY <1>1
  <2> HIDE DEF per
  <2>3. QED
    BY <2>1, <2>2
<1>5. Shares(n, 10 * c) = [i \in 1 .. n |-> IF i = n THEN 10 * (c - (n - 1) * q) ELSE 10 * q]
  BY <1>1, <1>3, <1>4 DEF Shares
<1>6. QED
  BY <1>1, <1>5 DEF SplitBy

\* Rounding gives a number of cents, and moves an amount by at most half a cent.
LEMMA RoundsToCents ==
    ASSUME NEW a \in Int, NEW n \in Nat \ {0}, NEW tieUp
    PROVE  \E q \in Int : /\ RoundToCent(a, n, tieUp) = 10 * q
                          /\ n = 1 => 10 * q - a \in -5 .. 5
<1> DEFINE d == 10 * n
           k == a \div d
           r == a % d
           up == 2 * r > d \/ (2 * r = d /\ tieUp)
           s == IF up THEN k + 1 ELSE k
<1>1. d \in Nat \ {0}
  OBVIOUS
<1>2. k \in Int /\ r \in Nat /\ a = d * k + r
  <2> HIDE DEF d
  <2>1. QED
    BY <1>1
<1>3. RoundToCent(a, n, tieUp) = 10 * s
  BY DEF RoundToCent
<1>4. s \in Int /\ ((s = k /\ 2 * r <= d) \/ (s = k + 1 /\ 2 * r >= d /\ r < d))
  <2>1. r < d
    <3> HIDE DEF d
    <3>1. QED
      BY <1>1
  <2> HIDE DEF d, k, r
  <2>2. QED
    BY <1>1, <1>2, <2>1
<1> HIDE DEF k, r, s
<1>5. ASSUME n = 1 PROVE 10 * s - a \in -5 .. 5
  <2>1. d = 10 /\ a = 10 * k + r
    BY <1>2, <1>5
  <2> HIDE DEF d
  <2>2. QED
    BY <1>2, <1>4, <2>1
<1>6. QED
  BY <1>3, <1>4, <1>5

\* Whatever the rounding, the shares of a budget add up to a number of cents at
\* most half a cent away from it (planner.py:54, 61-66).
THEOREM SharesAddUp ==
    ASSUME NEW n \in Nat \ {0}, NEW budget \in Int, NEW plan, DOMAIN plan = 1 .. n,
           \A i \in 1 .. n : plan[i].budget = Shares(n, budget)[i]
    PROVE  \E t \in Int : TotalBudget(plan) = 10 * t /\ 10 * t - budget \in -5 .. 5
<1> DEFINE per == RoundToCent(budget, n, ShareTieUp(budget, n))
           over == n * per - budget
           drift == RoundToCent(over, 1, DriftTieUp(budget, n))
<1>1. PICK q \in Int : per = 10 * q
  BY RoundsToCents
<1>2. over \in Int /\ over = 10 * (n * q) - budget
  <2> HIDE DEF per
  <2>1. QED
    BY <1>1
<1>3. PICK e \in Int : drift = 10 * e /\ 10 * e - over \in -5 .. 5
  <2> HIDE DEF over
  <2>1. over \in Int /\ 1 \in Nat \ {0}
    BY <1>2
  <2>2. PICK e \in Int : /\ RoundToCent(over, 1, DriftTieUp(budget, n)) = 10 * e
                         /\ 1 = 1 => 10 * e - over \in -5 .. 5
    BY <2>1, RoundsToCents
  <2>3. QED
    BY <2>2
<1>4. \A i \in 1 .. n : plan[i].budget = IF i = n THEN 10 * q - 10 * e ELSE 10 * q
  <2>1. \A i \in 1 .. n : plan[i].budget = IF i = n THEN per - drift ELSE per
    BY DEF Shares
  <2> HIDE DEF per, drift
  <2>2. QED
    BY <1>1, <1>3, <2>1
<1> HIDE DEF per, over, drift
<1>5. PICK f : Sums(f, n, plan)
  <2>1. \A i \in 1 .. n : plan[i].budget \in Int
    BY <1>4
  <2>2. QED
    BY <2>1, TotalAsLoop
<1> DEFINE S == { i \in 0 .. n : i < n => f[i] = 10 * (i * q) }
<1>6. 0 \in S
  BY <1>5 DEF Sums
<1>7. ASSUME NEW i \in 1 .. n, i - 1 \in S
      PROVE  i \in S
  <2>1. SUFFICES ASSUME i < n PROVE f[i] = 10 * (i * q)
    OBVIOUS
  <2>2. f[i - 1] = 10 * ((i - 1) * q) /\ f[i] = f[i - 1] + 10 * q
    BY <1>4, <1>5, <1>7, <2>1 DEF Sums
  <2>3. (i - 1) * q = i * q - q /\ i * q \in Int
    OBVIOUS
  <2>4. QED
    BY <2>2, <2>3
<1>8. f[n - 1] = 10 * ((n - 1) * q)
  <2>1. n - 1 \in 0 .. n /\ n - 1 < n
    OBVIOUS
  <2> HIDE DEF S
  <2>2. 0 .. n \subseteq S
    BY <1>6, <1>7, LoopInduction
  <2>3. n - 1 \in S
    BY <2>1, <2>2
  <2>4. QED
    BY <2>1, <2>3 DEF S
<1>9. TotalBudget(plan) = f[n - 1] + (10 * q - 10 * e)
  <2>1. n \in 1 .. n
    OBVIOUS
  <2>2. plan[n].budget = 10 * q - 10 * e
    BY <1>4, <2>1
  <2>3. f[n] = f[n - 1] + plan[n].budget
    BY <1>5, <2>1 DEF Sums
  <2>4. QED
    BY <1>5, <2>2, <2>3 DEF Sums
<1>10. (n - 1) * q = n * q - q /\ n * q \in Int
  OBVIOUS
<1>11. TotalBudget(plan) = 10 * (n * q - e)
  <2> DEFINE m == n * q
  <2>1. m \in Int /\ TotalBudget(plan) = 10 * (m - q) + (10 * q - 10 * e)
    BY <1>8, <1>9, <1>10
  <2> HIDE DEF m
  <2>2. TotalBudget(plan) = 10 * (m - e)
    BY <2>1
  <2>3. QED
    BY <2>2 DEF m
<1>12. 10 * (n * q - e) - budget \in -5 .. 5
  <2> DEFINE m == n * q
  <2>1. m \in Int /\ over = 10 * m - budget
    BY <1>2, <1>10
  <2> HIDE DEF m
  <2>2. 10 * (m - e) - budget \in -5 .. 5
    BY <1>3, <2>1
  <2>3. QED
    BY <2>2 DEF m
<1>13. n * q - e \in Int
  BY <1>10
<1>14. QED
  BY <1>11, <1>12, <1>13, Zenon

\* A product grows with its second factor.
LEMMA Monotone ==
    ASSUME NEW a \in Nat, NEW x \in Int, NEW y \in Int, x <= y
    PROVE  a * x <= a * y
  OBVIOUS

\* Each share is a number of cents, off the n-th part of the budget by no more
\* than the drift of the other n - 1.
LEMMA ShareBounds ==
    ASSUME NEW n \in Nat \ {0}, NEW c \in Nat, NEW i \in 1 .. n
    PROVE  \E s \in Int : /\ Shares(n, 10 * c)[i] = 10 * s
                          /\ n * (2 * s) <= 2 * c + n * (n - 1)
                          /\ 2 * c <= n * (2 * s) + n * (n - 1)
<1>1. PICK q : SplitBy(n, c, q)
  BY SharesAre
<1>2. /\ q \in Nat /\ n * (2 * q) <= 2 * c + n /\ 2 * c <= n * (2 * q) + n
      /\ Shares(n, 10 * c)[i] = IF i = n THEN 10 * (c - (n - 1) * q) ELSE 10 * q
  BY <1>1 DEF SplitBy
<1>3. CASE i # n
  <2>1. n <= n * (n - 1)
    <3>1. 1 <= n - 1 /\ n * 1 = n
      BY <1>3
    <3>2. QED
      BY <3>1, Monotone
  <2>2. n * (n - 1) \in Int /\ n * (2 * q) \in Int
    BY <1>2
  <2>3. QED
    BY <1>2, <1>3, <2>1, <2>2
<1>4. CASE i = n
  <2> DEFINE s == c - (n - 1) * q
             t == n * (2 * q)
  <2>1. s \in Int /\ t \in Int /\ n * (n - 1) \in Int /\ n * c \in Int
    BY <1>2
  <2>2. n * (2 * s) = 2 * (n * c) - (n - 1) * t
    BY <1>2
  <2>3. (n - 1) * (2 * c - n) <= (n - 1) * t /\ (n - 1) * t <= (n - 1) * (2 * c + n)
    <3> HIDE DEF t
    <3>1. 2 * c - n <= t /\ t <= 2 * c + n
      BY <1>2, <2>1 DEF t
    <3>2. QED
      BY <2>1, <3>1, Monotone
  <2>4. /\ (n - 1) * (2 * c - n) = 2 * (n * c) - 2 * c - n * (n - 1)
        /\ (n - 1) * (2 * c + n) = 2 * (n * c) - 2 * c + n * (n - 1)
    OBVIOUS
  <2>5. Shares(n, 10 * c)[i] = 10 * s
    BY <1>2, <1>4
  <2> HIDE DEF s, t
  <2>6. (n - 1) * t \in Int /\ n * (2 * s) \in Int
    BY <2>1
  <2>7. QED
    BY <2>1, <2>2, <2>3, <2>4, <2>5, <2>6
<1>5. QED
  BY <1>3, <1>4

\* With a cent for each of N * N * N, every share of a split is at least as large as
\* every share of a split among more packages, however the cents are rounded.
LEMMA SharesGrow ==
    ASSUME NEW N \in Nat, NEW c \in Nat, N * N * N <= c,
           NEW k \in 1 .. N, NEW m \in 1 .. N, k < m,
           NEW i \in 1 .. k, NEW j \in 1 .. m
    PROVE  Shares(m, 10 * c)[j] <= Shares(k, 10 * c)[i]
<1>1. PICK s \in Int : /\ Shares(k, 10 * c)[i] = 10 * s
                       /\ 2 * c <= k * (2 * s) + k * (k - 1)
  BY ShareBounds
<1>2. PICK t \in Int : /\ Shares(m, 10 * c)[j] = 10 * t
                       /\ m * (2 * t) <= 2 * c + m * (m - 1)
  BY ShareBounds
<1> DEFINE d == m * k
<1>3. k * (m * (2 * t)) <= k * (2 * c + m * (m - 1))
  <2>1. m * (2 * t) \in Int /\ 2 * c + m * (m - 1) \in Int
    BY <1>2
  <2>2. QED
    BY <1>2, <2>1, Monotone
<1>4. m * (2 * c) <= m * (k * (2 * s) + k * (k - 1))
  <2>1. k * (2 * s) + k * (k - 1) \in Int
    BY <1>1
  <2>2. QED
    BY <1>1, <2>1, Monotone
<1>5. d * (m + k - 2) <= 2 * c
  <2>1. d <= N * N /\ d \in Nat
    <3>1. m * k <= m * N /\ N * m <= N * N /\ m * N = N * m
      BY Monotone
    <3>2. QED
      BY <3>1
  <2>2. d * (m + k - 2) <= d * (2 * N)
    <3> HIDE DEF d
    <3>1. QED
      BY <2>1, Monotone
  <2>3. (2 * N) * d <= (2 * N) * (N * N)
    <3> HIDE DEF d
    <3>1. 2 * N \in Nat /\ N * N \in Int
      OBVIOUS
    <3>2. QED
      BY <2>1, <3>1, Monotone
  <2>4. (2 * N) * (N * N) = 2 * (N * N * N) /\ d * (2 * N) = (2 * N) * d
    OBVIOUS
  <2>5. N * N * N \in Int /\ d * (2 * N) \in Int /\ d * (m + k - 2) \in Int
    OBVIOUS
  <2> HIDE DEF d
  <2>6. QED
    BY <2>2, <2>3, <2>4, <2>5
<1>6. 1 * (2 * c) <= (m - k) * (2 * c)
  <2>1. 1 <= m - k
    OBVIOUS
  <2>2. (2 * c) * 1 <= (2 * c) * (m - k)
    BY <2>1, Monotone
  <2>3. QED
    BY <2>2
<1>7. d * (2 * t) <= d * (2 * s)
  <2>1. /\ k * (m * (2 * t)) = d * (2 * t)
        /\ k * (2 * c + m * (m - 1)) = k * (2 * c) + d * (m - 1)
        /\ m * (k * (2 * s) + k * (k - 1)) = d * (2 * s) + d * (k - 1)
        /\ (m - k) * (2 * c) = m * (2 * c) - k * (2 * c)
        /\ d * (m + k - 2) = d * (m - 1) + d * (k - 1)
    BY <1>1, <1>2
  <2>2. /\ d * (2 * t) \in Int /\ d * (2 * s) \in Int /\ d * (m - 1) \in Int
        /\ d * (k - 1) \in Int /\ m * (2 * c) \in Int /\ k * (2 * c) \in Int
    BY <1>1, <1>2
  <2> HIDE DEF d
  <2>3. QED
    BY <1>3, <1>4, <1>5, <1>6, <2>1, <2>2
<1>8. d \in Nat /\ d # 0
  OBVIOUS
<1>9. t <= s
  <2> SUFFICES ASSUME s + 1 <= t PROVE FALSE
    BY <1>1, <1>2
  <2> HIDE DEF d
  <2>1. d * (2 * s + 2) <= d * (2 * t)
    <3>1. 2 * s + 2 <= 2 * t
      BY <1>1, <1>2
    <3>2. QED
      BY <1>1, <1>2, <1>8, <3>1, Monotone
  <2>2. d * (2 * s + 2) = d * (2 * s) + 2 * d
    BY <1>1, <1>8
  <2>3. d * (2 * s) \in Int /\ d * (2 * t) \in Int
    BY <1>1, <1>2, <1>8
  <2>4. QED
    BY <1>7, <1>8, <2>1, <2>2, <2>3
<1>10. QED
  BY <1>1, <1>2, <1>9

-----------------------------------------------------------------------------
(* The loop of _allocate. *)

\* The package to drop is one that is short, and no other that is short has a
\* higher minimum.
LEMMA LeastAffordableIsShort ==
    ASSUME NEW n \in Nat, NEW short \in SUBSET (1 .. n), short # {}, NEW cands,
           \A i \in short : cands[i].min \in Int
    PROVE  LET d == LeastAffordable(cands, short)
           IN  d \in short /\ \A i \in short : cands[i].min <= cands[d].min
<1> DEFINE v == [i \in 1 .. n |-> cands[i].min]
<1>1. PICK m \in short : \A i \in short : cands[i].min <= cands[m].min
  <2>1. \A i \in short : v[i] = cands[i].min /\ v[i] \in Int
    OBVIOUS
  <2> HIDE DEF v
  <2>2. PICK m \in short : \A i \in short : v[m] >= v[i]
    BY <2>1, GreatestExists
  <2>3. QED
    BY <2>1, <2>2
<1> DEFINE ties == { i \in short : cands[i].min = cands[m].min }
<1>2. Min(ties) \in ties /\ \A i \in ties : Min(ties) <= i
  <2>1. ties \in SUBSET (1 .. n) /\ ties # {}
    OBVIOUS
  <2> HIDE DEF ties
  <2>2. QED
    BY <2>1, MinIn
<1> DEFINE k == Min(ties)
<1>3. k \in short /\ \A j \in short :
        cands[j].min < cands[k].min \/ (cands[j].min = cands[k].min /\ k <= j)
  <2>1. k \in short /\ cands[k].min = cands[m].min /\ \A j \in ties : k <= j
    BY <1>2
  <2> HIDE DEF k
  <2>2. ASSUME NEW j \in short
        PROVE  cands[j].min < cands[k].min \/ (cands[j].min = cands[k].min /\ k <= j)
    BY <1>1, <2>1
  <2>3. QED
    BY <2>1, <2>2
<1> HIDE DEF k
<1> DEFINE d == LeastAffordable(cands, short)
<1>4. d \in short /\ \A j \in short :
        cands[j].min < cands[d].min \/ (cands[j].min = cands[d].min /\ d <= j)
  BY <1>3 DEF LeastAffordable
<1> HIDE DEF d
<1>5. ASSUME NEW j \in short PROVE cands[j].min <= cands[d].min
  <2>1. cands[j].min \in Int /\ cands[d].min \in Int
    BY <1>4
  <2>2. QED
    BY <1>4, <2>1
<1>6. QED
  BY <1>4, <1>5 DEF d

AreCandidates(cands) == IsSequence(cands) /\ \A i \in DOMAIN cands : cands[i].min \in Int

\* The candidates whose share is below their minimum.
ShortOf(cands, budget) ==
    { i \in DOMAIN cands : Shares(Len(cands), budget)[i] < cands[i].min }

\* rest is what is left of the candidates without the d-th.
Without(rest, cands, d) ==
    /\ AreCandidates(rest) /\ d \in 1 .. Len(cands) /\ Len(rest) = Len(cands) - 1
    /\ \A i \in DOMAIN rest : rest[i] = cands[IF i < d THEN i ELSE i + 1]

\* A sequence without its d-th element.
LEMMA Cut ==
    ASSUME NEW R, NEW s \in Seq(R), NEW d \in 1 .. Len(s)
    PROVE  LET rest == SubSeq(s, 1, d - 1) \o SubSeq(s, d + 1, Len(s))
           IN  /\ rest \in Seq(R) /\ Len(rest) = Len(s) - 1
               /\ \A i \in 1 .. (Len(s) - 1) : rest[i] = s[IF i < d THEN i ELSE i + 1]
<1> DEFINE n == Len(s)
           a == SubSeq(s, 1, d - 1)
           b == SubSeq(s, d + 1, n)
<1>1. n \in Nat /\ d \in Nat
  OBVIOUS
<1>2. a \in Seq(R) /\ Len(a) = d - 1 /\ \A i \in 1 .. (d - 1) : a[i] = s[i]
  <2>1. 1 \in 1 .. (n + 1) /\ d - 1 \in 0 .. n
    BY <1>1
  <2>2. QED
    BY <2>1, SubSeqProperties
<1>3. b \in Seq(R) /\ Len(b) = n - d /\ \A i \in 1 .. (n - d) : b[i] = s[d + i]
  <2>1. d + 1 \in 1 .. (n + 1) /\ n \in d .. n
    BY <1>1
  <2>2. QED
    BY <1>1, <2>1, SubSeqProperties
<1> HIDE DEF a, b
<1>4. a \o b \in Seq(R) /\ Len(a \o b) = n - 1
  <2>1. Len(a \o b) = Len(a) + Len(b) /\ a \o b \in Seq(R)
    BY <1>2, <1>3, ConcatProperties
  <2>2. QED
    BY <1>1, <1>2, <1>3, <2>1
<1>5. ASSUME NEW i \in 1 .. (n - 1)
      PROVE  (a \o b)[i] = s[IF i < d THEN i ELSE i + 1]
  <2>1. CASE i < d
    BY <1>1, <1>2, <1>3, <2>1
  <2>2. CASE ~(i < d)
    <3>1. i - (d - 1) \in 1 .. (n - d) /\ d + (i - (d - 1)) = i + 1
      BY <1>1, <2>2
    <3>2. (a \o b)[i] = b[i - (d - 1)]
      BY <1>1, <1>2, <1>3, <2>2
    <3>3. QED
      BY <1>3, <2>2, <3>1, <3>2
  <2>3. QED
    BY <2>1, <2>2
<1>6. QED
  BY <1>4, <1>5 DEF a, b

\* A turn that drops a package drops one that is short, the least affordable.
LEMMA RetryDrops ==
    ASSUME NEW cands, AreCandidates(cands), NEW budget, ShortOf(cands, budget) # {}
    PROVE  \E d \in ShortOf(cands, budget) :
             /\ \A i \in ShortOf(cands, budget) : cands[i].min <= cands[d].min
             /\ Without(Retry(cands, budget), cands, d)
<1> DEFINE n == Len(cands)
           short == ShortOf(cands, budget)
           d == LeastAffordable(cands, short)
           rest == Retry(cands, budget)
<1>1. /\ n \in Nat /\ DOMAIN cands = 1 .. n /\ cands \in Seq(ToSet(cands))
      /\ \A i \in 1 .. n : cands[i].min \in Int /\ cands[i] \in ToSet(cands)
  BY DEF AreCandidates, IsSequence, ToSet
<1>2. short \in SUBSET (1 .. n)
  BY <1>1 DEF ShortOf
<1>3. d \in short /\ \A i \in short : cands[i].min <= cands[d].min
  <2>1. \A i \in short : cands[i].min \in Int
    BY <1>1, <1>2
  <2>2. short # {} /\ n \in Nat
    BY <1>1
  <2> HIDE DEF short, n
  <2>3. QED
    BY <1>2, <2>1, <2>2, LeastAffordableIsShort
<1>4. rest = SubSeq(cands, 1, d - 1) \o SubSeq(cands, d + 1, Len(cands))
  BY DEF Retry, ShortOf, RemoveAt
<1>5. d \in 1 .. n
  BY <1>2, <1>3
<1> HIDE DEF d, short, rest
<1>6. rest \in Seq(ToSet(cands)) /\ Len(rest) = n - 1
  BY <1>1, <1>4, <1>5, Cut
<1>7. \A i \in 1 .. (n - 1) : rest[i] = cands[IF i < d THEN i ELSE i + 1]
  BY <1>1, <1>4, <1>5, Cut
<1>8. DOMAIN rest = 1 .. (n - 1)
  BY <1>6
<1>9. \A i \in 1 .. (n - 1) : rest[i].min \in Int
  <2> SUFFICES ASSUME NEW i \in 1 .. (n - 1) PROVE rest[i].min \in Int
    OBVIOUS
  <2>1. (IF i < d THEN i ELSE i + 1) \in 1 .. n
    BY <1>1, <1>5
  <2>2. QED
    BY <1>1, <1>7, <2>1
<1>10. IsSequence(rest)
  BY <1>6, <1>8 DEF IsSequence, ToSet
<1>11. Without(rest, cands, d)
  BY <1>5, <1>6, <1>7, <1>8, <1>9, <1>10 DEF Without, AreCandidates
<1>12. QED
  BY <1>3, <1>11 DEF rest, short

\* The packages that a loop of _allocate ends with, with their shares.
Allotted(left, budget) ==
    [ i \in DOMAIN left |->
        [ product |-> left[i].product, option |-> left[i].option,
          cpm |-> left[i].cpm, budget |-> Shares(Len(left), budget)[i] ] ]

\* turn[k] is what is left after k turns.
Turns(turn, cands, budget) ==
    /\ turn[0] = cands
    /\ \A k \in 1 .. Len(cands) : turn[k] = Retry(turn[k - 1], budget)
    /\ Allocate(cands, budget) = Allotted(turn[Len(cands)], budget)

LEMMA AllocateAsLoop ==
    ASSUME NEW cands, Len(cands) \in Nat, NEW budget
    PROVE  \E turn : Turns(turn, cands, budget)
<1> DEFINE n == Len(cands)
           B(g, k) == [i \in 0 .. k |-> IF i = 0 THEN cands ELSE Retry(g[i - 1], budget)]
           S == { k \in 0 .. n : \E g : g = B(g, k) }
<1>1. 0 \in S
  <2> DEFINE g == [i \in 0 .. 0 |-> cands]
  <2>1. g = B(g, 0)
    OBVIOUS
  <2>2. 0 \in 0 .. n
    OBVIOUS
  <2> HIDE DEF g, B
  <2>3. QED
    BY <2>1, <2>2
<1>2. ASSUME NEW k \in 1 .. n, k - 1 \in S
      PROVE  k \in S
  <2>1. PICK g : g = B(g, k - 1)
    BY <1>2
  <2> DEFINE h == [i \in 0 .. k |-> IF i = k THEN Retry(g[k - 1], budget) ELSE g[i]]
  <2>2. \A i \in 0 .. k : h[i] = IF i = 0 THEN cands ELSE Retry(h[i - 1], budget)
    <3> SUFFICES ASSUME NEW i \in 0 .. k
                 PROVE  h[i] = IF i = 0 THEN cands ELSE Retry(h[i - 1], budget)
      OBVIOUS
    <3>1. CASE i = k
      <4>1. k - 1 \in 0 .. k /\ k - 1 # k /\ k # 0
        OBVIOUS
      <4>2. h[k - 1] = g[k - 1] /\ h[i] = Retry(g[k - 1], budget)
        BY <3>1, <4>1
      <4>3. QED
        BY <3>1, <4>1, <4>2
    <3>2. CASE i # k
      <4>1. i \in 0 .. (k - 1) /\ (i # 0 => i - 1 \in 0 .. k /\ i - 1 # k)
        BY <3>2
      <4>2. g[i] = IF i = 0 THEN cands ELSE Retry(g[i - 1], budget)
        BY <2>1, <4>1
      <4>3. h[i] = g[i] /\ (i # 0 => h[i - 1] = g[i - 1])
        BY <3>2, <4>1
      <4>4. QED
        BY <4>2, <4>3
    <3>3. QED
      BY <3>1, <3>2
  <2>3. h = B(h, k)
    BY <2>2
  <2>4. k \in 0 .. n
    OBVIOUS
  <2> HIDE DEF h, B
  <2>5. QED
    BY <2>3, <2>4
<1>3. \E g : g = B(g, n)
  <2> HIDE DEF S
  <2>1. 0 .. n \subseteq S
    BY <1>1, <1>2, LoopInduction
  <2>2. n \in 0 .. n
    OBVIOUS
  <2>3. QED
    BY <2>1, <2>2 DEF S
<1> DEFINE turn == CHOOSE g : g = B(g, n)
<1>4. turn = B(turn, n)
  BY <1>3
<1>5. Allocate(cands, budget) = Allotted(turn[n], budget)
  BY DEF Allocate, Allotted
<1> HIDE DEF turn
<1>6. turn[0] = cands /\ \A k \in 1 .. n : turn[k] = Retry(turn[k - 1], budget)
  BY <1>4
<1>7. QED
  BY <1>5, <1>6 DEF Turns

\* 1 .. n has n elements.
LEMMA OneTo ==
    ASSUME NEW n \in Nat
    PROVE  IsFiniteSet(1 .. n) /\ Cardinality(1 .. n) = n
  BY FS_Interval

LEMMA ShareIsAnAmount ==
    ASSUME NEW n \in Nat \ {0}, NEW c \in Nat, NEW i \in 1 .. n
    PROVE  Shares(n, 10 * c)[i] \in Int
<1>1. PICK s \in Int : Shares(n, 10 * c)[i] = 10 * s
  BY ShareBounds, SMTT(30)
<1>2. QED
  BY <1>1

\* Every package that is left is one of the candidates, and either none is short
\* or as many were dropped as turns were taken.
Survives(left, cands, budget, k) ==
    /\ AreCandidates(left) /\ \A i \in DOMAIN left : left[i] \in ToSet(cands)
    /\ Len(left) <= Len(cands)
    /\ ShortOf(left, budget) = {} \/ Len(left) = Len(cands) - k

LEMMA TurnsSettle ==
    ASSUME NEW cands, AreCandidates(cands), NEW budget, NEW turn, Turns(turn, cands, budget)
    PROVE  Survives(turn[Len(cands)], cands, budget, Len(cands))
<1> DEFINE n == Len(cands)
           S == { k \in 0 .. n : Survives(turn[k], cands, budget, k) }
<1>1. n \in Nat /\ DOMAIN cands = 1 .. n /\ \A i \in 1 .. n : cands[i] \in ToSet(cands)
  BY DEF AreCandidates, IsSequence, ToSet
<1>2. 0 \in S
  <2>1. turn[0] = cands
    BY DEF Turns
  <2>2. Survives(cands, cands, budget, 0)
    BY <1>1 DEF Survives
  <2>3. 0 \in 0 .. n
    BY <1>1
  <2>4. QED
    BY <2>1, <2>2, <2>3
<1>3. ASSUME NEW k \in 1 .. n, k - 1 \in S
      PROVE  k \in S
  <2> DEFINE left == turn[k - 1]
  <2>1. Survives(left, cands, budget, k - 1) /\ turn[k] = Retry(left, budget)
    BY <1>3 DEF Turns
  <2>2. k \in 0 .. n /\ DOMAIN left = 1 .. Len(left) /\ Len(left) \in Nat
    BY <1>1, <2>1 DEF Survives, AreCandidates, IsSequence
  <2>3. CASE ShortOf(left, budget) = {}
    <3>1. Retry(left, budget) = left
      BY <2>3 DEF Retry, ShortOf
    <3>2. QED
      BY <2>1, <2>2, <2>3, <3>1 DEF Survives
  <2>4. CASE ShortOf(left, budget) # {}
    <3>1. PICK d : Without(turn[k], left, d)
      BY <2>1, <2>4, RetryDrops DEF Survives
    <3>2. Len(turn[k]) = Len(left) - 1 /\ Len(left) = Len(cands) - (k - 1)
      BY <2>1, <2>4, <3>1 DEF Without, Survives
    <3>3. ASSUME NEW i \in DOMAIN turn[k]
          PROVE  turn[k][i] \in ToSet(cands)
      <4>1. DOMAIN turn[k] = 1 .. Len(turn[k])
        BY <3>1 DEF Without, AreCandidates, IsSequence
      <4>2. d \in 1 .. Len(left) /\ turn[k][i] = left[IF i < d THEN i ELSE i + 1]
        BY <3>1 DEF Without
      <4>3. (IF i < d THEN i ELSE i + 1) \in DOMAIN left
        BY <2>2, <3>2, <4>1, <4>2
      <4>4. QED
        BY <2>1, <4>2, <4>3 DEF Survives
    <3>4. AreCandidates(turn[k])
      BY <3>1 DEF Without
    <3>5. Len(turn[k]) = Len(cands) - k /\ Len(turn[k]) <= Len(cands)
      BY <1>1, <2>2, <3>2
    <3>6. Survives(turn[k], cands, budget, k)
      BY <3>3, <3>4, <3>5 DEF Survives
    <3>7. QED
      BY <2>2, <3>6
  <2>5. QED
    BY <2>3, <2>4
<1>4. QED
  <2> HIDE DEF S
  <2>1. 0 .. n \subseteq S
    BY <1>1, <1>2, <1>3, LoopInduction
  <2>2. n \in 0 .. n
    BY <1>1
  <2>3. QED
    BY <2>1, <2>2 DEF S

\* When the loop is over, no package that is left has less than its minimum.
LEMMA NobodyIsShort ==
    ASSUME NEW cands, AreCandidates(cands), NEW budget, NEW turn, Turns(turn, cands, budget)
    PROVE  LET left == turn[Len(cands)]
           IN  /\ AreCandidates(left) /\ Len(left) <= Len(cands)
               /\ \A i \in DOMAIN left : left[i] \in ToSet(cands)
               /\ ShortOf(left, budget) = {}
<1> DEFINE left == turn[Len(cands)]
<1>1. Survives(left, cands, budget, Len(cands))
  BY TurnsSettle
<1>2. Len(cands) \in Nat /\ (Len(left) = 0 => DOMAIN left = {})
  BY <1>1 DEF AreCandidates, Survives, IsSequence
<1>3. Len(left) = Len(cands) - Len(cands) => ShortOf(left, budget) = {}
  BY <1>2 DEF ShortOf
<1>4. QED
  BY <1>1, <1>3 DEF Survives

\* The candidates whose minimum is no more than a share of so much.
Affordable(cands, share) == { i \in DOMAIN cands : cands[i].min <= share }

\* Dropping one that cannot be afforded leaves those that can, and dropping any
\* leaves all the others that can.
LEMMA DropKeepsAffordable ==
    ASSUME NEW cands, AreCandidates(cands), NEW share, NEW rest, NEW d, Without(rest, cands, d)
    PROVE  /\ IsFiniteSet(Affordable(rest, share)) /\ IsFiniteSet(Affordable(cands, share))
           /\ Cardinality(Affordable(cands, share) \ {d}) <= Cardinality(Affordable(rest, share))
<1> DEFINE A == Affordable(cands, share)
           B == Affordable(rest, share)
           n == Len(cands)
           to == [i \in B |-> IF i < d THEN i ELSE i + 1]
<1>1. /\ n \in Nat /\ DOMAIN cands = 1 .. n /\ DOMAIN rest = 1 .. (n - 1) /\ d \in 1 .. n
      /\ \A i \in 1 .. (n - 1) : rest[i] = cands[IF i < d THEN i ELSE i + 1]
  BY DEF Without, AreCandidates, IsSequence
<1>2. A \in SUBSET (1 .. n) /\ B \in SUBSET (1 .. n)
  BY <1>1 DEF Affordable
<1>3. IsFiniteSet(A) /\ IsFiniteSet(B)
  <2>1. IsFiniteSet(1 .. n)
    BY <1>1, OneTo
  <2> HIDE DEF A, B
  <2>2. QED
    BY <1>2, <2>1, FS_Subset
<1>4. \A i \in B : to[i] \in A \ {d}
  BY <1>1 DEF Affordable
<1>5. ASSUME NEW a \in A \ {d}
      PROVE  \E i \in B : to[i] = a
  <2> DEFINE i == IF a < d THEN a ELSE a - 1
  <2>1. i \in 1 .. (n - 1) /\ (IF i < d THEN i ELSE i + 1) = a
    BY <1>1, <1>2
  <2>2. rest[i] = cands[a]
    BY <1>1, <2>1
  <2>3. i \in B
    BY <1>1, <2>1, <2>2 DEF Affordable
  <2>4. QED
    BY <2>1, <2>3
<1>6. to \in Surjection(B, A \ {d})
  BY <1>4, <1>5 DEF Surjection
<1>7. Cardinality(A \ {d}) <= Cardinality(B)
  <2> HIDE DEF to, A, B
  <2>1. QED
    BY <1>3, <1>6, FS_Surjection
<1>8. QED
  BY <1>3, <1>7

\* The packages that k equal shares could pay for are never fewer than k.
LEMMA AffordableStay ==
    ASSUME NEW cands, AreCandidates(cands), NEW c \in Nat,
           Len(cands) * Len(cands) * Len(cands) <= c,
           NEW turn, Turns(turn, cands, 10 * c),
           NEW k \in 1 .. Len(cands), NEW share \in Int,
           \E i \in 1 .. k : share = Shares(k, 10 * c)[i],
           \A i \in 1 .. k : share <= Shares(k, 10 * c)[i],
           k <= Cardinality(Affordable(cands, share))
    PROVE  k <= Len(turn[Len(cands)])
<1> DEFINE n == Len(cands)
           budget == 10 * c
           Enough(left) == /\ AreCandidates(left) /\ Len(left) <= n
                           /\ k <= Cardinality(Affordable(left, share))
           S == { j \in 0 .. n : Enough(turn[j]) }
<1>1. n \in Nat
  BY DEF AreCandidates, IsSequence
<1>2. ASSUME NEW left, Enough(left)
      PROVE  /\ Len(left) \in Nat /\ DOMAIN left = 1 .. Len(left)
             /\ Affordable(left, share) \subseteq 1 .. Len(left)
             /\ IsFiniteSet(Affordable(left, share)) /\ k <= Len(left)
             /\ Cardinality(1 .. Len(left)) = Len(left) /\ IsFiniteSet(1 .. Len(left))
             /\ Cardinality(Affordable(left, share)) \in Nat
  <2>1. Len(left) \in Nat /\ DOMAIN left = 1 .. Len(left)
    BY <1>2 DEF AreCandidates, IsSequence
  <2>2. Affordable(left, share) \in SUBSET (1 .. Len(left))
    BY <2>1 DEF Affordable
  <2>3. IsFiniteSet(1 .. Len(left)) /\ Cardinality(1 .. Len(left)) = Len(left)
    BY <2>1, OneTo
  <2>4. /\ IsFiniteSet(Affordable(left, share))
        /\ Cardinality(Affordable(left, share)) <= Len(left)
    BY <2>2, <2>3, FS_Subset
  <2>5. Cardinality(Affordable(left, share)) \in Nat
    BY <2>4, FS_CardinalityType
  <2>6. QED
    BY <1>2, <2>1, <2>2, <2>3, <2>4, <2>5
<1>3. ASSUME NEW left, Enough(left), ShortOf(left, budget) # {}
      PROVE  Enough(Retry(left, budget))
  <2> DEFINE A == Affordable(left, share)
             m == Len(left)
  <2>1. PICK d \in ShortOf(left, budget) :
          /\ \A i \in ShortOf(left, budget) : left[i].min <= left[d].min
          /\ Without(Retry(left, budget), left, d)
    BY <1>3, RetryDrops
  <2>2. d \in 1 .. m /\ Shares(m, budget)[d] < left[d].min
        /\ \A i \in 1 .. m : left[i].min \in Int
    BY <1>2, <1>3, <2>1 DEF ShortOf, AreCandidates
  <2>3. k <= Cardinality(A \ {d})
    <3>1. CASE d \notin A
      <4>1. A \ {d} = A
        BY <3>1
      <4>2. QED
        BY <1>3, <4>1
    <3>2. CASE d \in A
      <4>1. left[d].min <= share
        BY <3>2 DEF Affordable
      <4>2. m # k
        <5> SUFFICES ASSUME m = k PROVE FALSE
          OBVIOUS
        <5>1. share <= Shares(m, budget)[d] /\ Shares(m, budget)[d] \in Int
          <6>1. d \in 1 .. k
            BY <2>2
          <6>2. Shares(k, 10 * c)[d] \in Int
            BY <6>1, ShareIsAnAmount
          <6>3. QED
            BY <6>1, <6>2
        <5>2. QED
          BY <2>2, <4>1, <5>1
      <4>3. k < m
        BY <1>2, <1>3, <4>2
      <4>4. ASSUME NEW i \in 1 .. m
            PROVE  left[i].min <= share
        <5>1. Shares(m, budget)[i] <= share /\ Shares(m, budget)[i] \in Int
          <6>1. m \in 1 .. n
            BY <1>1, <1>2, <1>3, <4>3
          <6>2. PICK j \in 1 .. k : share = Shares(k, 10 * c)[j]
            OBVIOUS
          <6>3. Shares(m, 10 * c)[i] <= Shares(k, 10 * c)[j]
            BY <1>1, <4>3, <6>1, SharesGrow
          <6>4. Shares(m, 10 * c)[i] \in Int
            BY <6>1, ShareIsAnAmount
          <6>5. QED
            BY <6>2, <6>3, <6>4
        <5>2. CASE i \in ShortOf(left, budget)
          BY <2>1, <2>2, <4>1, <5>2
        <5>3. CASE i \notin ShortOf(left, budget)
          <6>1. ~(Shares(m, budget)[i] < left[i].min)
            BY <1>2, <1>3, <5>3 DEF ShortOf
          <6>2. QED
            BY <2>2, <5>1, <6>1, SMTT(30)
        <5>4. QED
          BY <5>2, <5>3
      <4>5. A = 1 .. m
        BY <1>2, <1>3, <4>4 DEF Affordable
      <4>6. Cardinality(A \ {d}) = m - 1
        <5>1. IsFiniteSet(A) /\ Cardinality(A) = m
          BY <1>2, <1>3, <4>5
        <5> HIDE DEF A, m
        <5>2. QED
          BY <3>2, <5>1, FS_RemoveElement
      <4>7. QED
        BY <1>2, <1>3, <4>3, <4>6
    <3>3. QED
      BY <3>1, <3>2
  <2> DEFINE rest == Retry(left, budget)
  <2>4. /\ IsFiniteSet(Affordable(rest, share)) /\ IsFiniteSet(A \ {d})
        /\ Cardinality(A \ {d}) <= Cardinality(Affordable(rest, share))
    <3> HIDE DEF rest
    <3>1. Without(rest, left, d)
      BY <2>1 DEF rest
    <3>2. QED
      BY <1>3, <3>1, DropKeepsAffordable, FS_RemoveElement
  <2>5. Cardinality(A \ {d}) \in Nat /\ Cardinality(Affordable(rest, share)) \in Nat
    BY <2>4, FS_CardinalityType
  <2>6. k <= Cardinality(Affordable(rest, share))
    <3> HIDE DEF A, rest
    <3>1. QED
      BY <2>3, <2>4, <2>5
  <2>7. AreCandidates(rest) /\ Len(rest) = m - 1
    BY <2>1 DEF Without
  <2>8. QED
    <3> HIDE DEF rest
    <3>1. Enough(rest)
      BY <1>1, <1>2, <1>3, <2>6, <2>7
    <3>2. QED
      BY <3>1 DEF rest
<1>4. 0 \in S
  <2>1. turn[0] = cands /\ Enough(cands) /\ 0 \in 0 .. n
    BY <1>1 DEF Turns
  <2> HIDE DEF Enough
  <2>2. QED
    BY <2>1
<1>5. ASSUME NEW j \in 1 .. n, j - 1 \in S
      PROVE  j \in S
  <2>1. j \in 0 .. n /\ turn[j] = Retry(turn[j - 1], budget)
    BY <1>1 DEF Turns
  <2>2. Enough(turn[j - 1])
    BY <1>5
  <2> HIDE DEF Enough
  <2>3. CASE ShortOf(turn[j - 1], budget) = {}
    <3>1. Retry(turn[j - 1], budget) = turn[j - 1]
      BY <2>3 DEF Retry, ShortOf
    <3>2. QED
      BY <2>1, <2>2, <3>1
  <2>4. CASE ShortOf(turn[j - 1], budget) # {}
    BY <1>3, <2>1, <2>2, <2>4
  <2>5. QED
    BY <2>3, <2>4
<1>6. Enough(turn[n])
  <2> HIDE DEF S
  <2>1. 0 .. n \subseteq S
    BY <1>1, <1>4, <1>5, LoopInduction
  <2>2. n \in 0 .. n
    BY <1>1
  <2> HIDE DEF Enough
  <2>3. QED
    BY <2>1, <2>2 DEF S
<1>7. QED
  <2> HIDE DEF Enough
  <2>1. k <= Len(turn[n])
    BY <1>2, <1>6
  <2>2. QED
    BY <2>1

-----------------------------------------------------------------------------
(* The rule-based plan. *)

\* The products that _allocate gets to split the budget among.
Chosen(brief, catalog) ==
    LET cands == Candidates(brief, catalog)
    IN  SubSeq(cands, 1, IF Len(cands) < brief.maxPackages THEN Len(cands) ELSE brief.maxPackages)

LEMMA ChosenAreRanked ==
    ASSUME NEW catalog, IsCatalog(catalog), NEW brief, IsBrief(brief)
    PROVE  LET cs == Candidates(brief, catalog)
               ch == Chosen(brief, catalog)
           IN  /\ AreCandidates(cs) /\ AreCandidates(ch)
               /\ DOMAIN ch = { i \in DOMAIN cs : i <= brief.maxPackages }
               /\ \A i \in DOMAIN ch : ch[i] = cs[i]
               /\ \A x \in ToSet(ch) : \E i \in DOMAIN catalog : Proposes(x, brief, catalog, i)
<1> DEFINE cs == Candidates(brief, catalog)
           ch == Chosen(brief, catalog)
           n == Len(cs)
           m == IF n < brief.maxPackages THEN n ELSE brief.maxPackages
<1>1. IsSequence(cs) /\ \A k \in DOMAIN cs : \E i \in DOMAIN catalog : Proposes(cs[k], brief, catalog, i)
  BY CandidatesListed
<1>2. ch = SubSeq(cs, 1, m)
  BY DEF Chosen
<1> HIDE DEF cs, ch
<1>3. AreCandidates(cs)
  BY <1>1 DEF AreCandidates, Proposes
<1>4. /\ n \in Nat /\ DOMAIN cs = 1 .. n /\ cs \in Seq(ToSet(cs)) /\ m \in 0 .. n
      /\ \A i \in 1 .. n : cs[i] \in ToSet(cs)
      /\ \A i \in 1 .. n : i <= brief.maxPackages <=> i <= m
  BY <1>1 DEF IsSequence, IsBrief, ToSet
<1> HIDE DEF m, n
<1>5. ch \in Seq(ToSet(cs)) /\ Len(ch) = m /\ \A i \in 1 .. m : ch[i] = cs[i]
  <2>1. \A i \in 1 .. m : cs[i] \in ToSet(cs)
    BY <1>4
  <2>2. /\ SubSeq(cs, 1, m) \in Seq(ToSet(cs))
        /\ Len(SubSeq(cs, 1, m)) = IF 1 <= m THEN m - 1 + 1 ELSE 0
        /\ \A i \in 1 .. m - 1 + 1 : SubSeq(cs, 1, m)[i] = cs[1 + i - 1]
    BY <1>4, <2>1, SubSeqProperties
  <2>3. QED
    BY <1>2, <1>4, <2>2
<1>6. DOMAIN ch = 1 .. m /\ \A i \in 1 .. m : i \in DOMAIN cs
  BY <1>4, <1>5
<1>7. \A x \in ToSet(ch) : \E k \in DOMAIN cs : x = cs[k]
  BY <1>5, <1>6 DEF ToSet
<1>8. AreCandidates(ch)
  <2>1. ch \in Seq(ToSet(ch))
    BY <1>5, <1>6 DEF ToSet
  <2>2. QED
    BY <1>3, <1>5, <1>6, <2>1 DEF AreCandidates, IsSequence
<1>9. DOMAIN ch = { i \in DOMAIN cs : i <= brief.maxPackages }
  BY <1>4, <1>6
<1>10. QED
  BY <1>1, <1>3, <1>5, <1>6, <1>7, <1>8, <1>9 DEF ch, cs

\* The plan is what is left of the chosen products when no share is below its
\* minimum.
PlanOf(plan, left, brief, catalog) ==
    /\ AreCandidates(left) /\ ShortOf(left, brief.budget) = {}
    /\ \A i \in DOMAIN left : \E j \in DOMAIN catalog : Proposes(left[i], brief, catalog, j)
    /\ plan = Allotted(left, brief.budget)

LEMMA PlanIsAllotted ==
    ASSUME NEW catalog, IsCatalog(catalog), NEW brief, IsBrief(brief)
    PROVE  \E left : PlanOf(DeterministicPlan(brief, catalog), left, brief, catalog)
<1> DEFINE ch == Chosen(brief, catalog)
           budget == brief.budget
<1>1. AreCandidates(ch) /\ \A x \in ToSet(ch) : \E j \in DOMAIN catalog : Proposes(x, brief, catalog, j)
  BY ChosenAreRanked
<1>2. DeterministicPlan(brief, catalog) = Allocate(ch, budget)
  BY DEF DeterministicPlan, Chosen
<1> HIDE DEF ch
<1>3. PICK turn : Turns(turn, ch, budget)
  <2>1. Len(ch) \in Nat
    BY <1>1 DEF AreCandidates, IsSequence
  <2>2. QED
    BY <2>1, AllocateAsLoop
<1> DEFINE left == turn[Len(ch)]
<1>4. AreCandidates(left) /\ ShortOf(left, budget) = {} /\ \A i \in DOMAIN left : left[i] \in ToSet(ch)
  BY <1>1, <1>3, NobodyIsShort
<1>5. Allocate(ch, budget) = Allotted(left, budget)
  BY <1>3 DEF Turns
<1>6. PlanOf(DeterministicPlan(brief, catalog), left, brief, catalog)
  <2> HIDE DEF left
  <2>1. QED
    BY <1>1, <1>2, <1>4, <1>5 DEF PlanOf
<1>7. QED
  BY <1>6

\* What the n packages of such a plan look like.
Shaped(plan, left, budget, n) ==
    /\ n = Len(left) /\ n \in Nat /\ DOMAIN left = 1 .. n
    /\ IsPlan(plan) /\ Len(plan) = n /\ DOMAIN plan = 1 .. n
    /\ \A i \in 1 .. n :
         /\ plan[i].product = left[i].product /\ plan[i].option = left[i].option
         /\ plan[i].cpm = left[i].cpm
         /\ plan[i].budget = Shares(n, budget)[i] /\ ~(plan[i].budget < left[i].min)

LEMMA PlanShape ==
    ASSUME NEW catalog, NEW brief, IsBrief(brief), NEW plan, NEW left,
           PlanOf(plan, left, brief, catalog)
    PROVE  Shaped(plan, left, brief.budget, Len(left))
<1> DEFINE n == Len(left)
<1>1. n \in Nat /\ DOMAIN left = 1 .. n
  BY DEF PlanOf, AreCandidates, IsSequence
<1>2. plan = [ i \in 1 .. n |->
                 [ product |-> left[i].product, option |-> left[i].option,
                   cpm |-> left[i].cpm, budget |-> Shares(n, brief.budget)[i] ] ]
  BY <1>1 DEF PlanOf, Allotted
<1>3. \A i \in 1 .. n : ~(Shares(n, brief.budget)[i] < left[i].min)
  BY <1>1 DEF PlanOf, ShortOf
<1>4. ASSUME NEW i \in 1 .. n PROVE Shares(n, brief.budget)[i] \in Int
  <2>1. n \in Nat \ {0} /\ brief.budget \in Int
    BY <1>1 DEF IsBrief
  <2>2. ASSUME NEW a \in Int, NEW b \in Nat \ {0}, NEW tieUp PROVE RoundToCent(a, b, tieUp) \in Int
    <3>1. 10 * b \in Nat \ {0}
      OBVIOUS
    <3>2. a \div (10 * b) \in Int
      <4> DEFINE d == 10 * b
      <4>1. d \in Nat \ {0}
        BY <3>1
      <4> HIDE DEF d
      <4>2. a \div d \in Int
        BY <4>1
      <4>3. QED
        BY <4>2 DEF d
    <3>3. QED
      BY <3>2 DEF RoundToCent
  <2> DEFINE per == RoundToCent(brief.budget, n, ShareTieUp(brief.budget, n))
             drift == RoundToCent(n * per - brief.budget, 1, DriftTieUp(brief.budget, n))
  <2>3. per \in Int
    BY <2>1, <2>2
  <2>4. drift \in Int
    <3> HIDE DEF per
    <3>1. n * per - brief.budget \in Int
      BY <2>1, <2>3
    <3>2. QED
      BY <2>2, <3>1
  <2>5. Shares(n, brief.budget)[i] = IF i = n THEN per - drift ELSE per
    BY DEF Shares
  <2> HIDE DEF per, drift
  <2>6. QED
    BY <2>3, <2>4, <2>5
<1> HIDE DEF n
<1>5. DOMAIN plan = 1 .. n /\ Len(plan) = n /\ \A i \in 1 .. n : plan[i] \in ToSet(plan)
  BY <1>1, <1>2 DEF ToSet
<1>6. IsSequence(plan)
  BY <1>1, <1>2, <1>5 DEF IsSequence
<1>7. ASSUME NEW i \in 1 .. n PROVE IsPackage(plan[i])
  <2>1. plan[i] = [ product |-> left[i].product, option |-> left[i].option,
                    cpm |-> left[i].cpm, budget |-> Shares(n, brief.budget)[i] ]
    BY <1>2
  <2>2. QED
    BY <1>4, <2>1 DEF IsPackage
<1>8. IsPlan(plan)
  BY <1>5, <1>6, <1>7 DEF IsPlan, ToSet
<1>9. QED
  BY <1>1, <1>2, <1>3, <1>5, <1>8 DEF n, Shaped

\* A product that is listed once can be booked at the price the planner read, or a
\* dearer one of the same option id.
LEMMA PlannedPrice ==
    ASSUME NEW catalog, IsCatalog(catalog), ProductsUnique(catalog), NEW brief,
           NEW c, NEW j \in DOMAIN catalog, Proposes(c, brief, catalog, j),
           NEW pkg, pkg.product = c.product, pkg.option = c.option, pkg.cpm = c.cpm
    PROVE  /\ Resolvable(pkg, catalog, brief.currency)
           /\ LET worst == AuthoritativeCpm(catalog[ProductIndex(catalog, pkg.product)],
                                            pkg.option, brief.currency)
              IN  \E p \in ToSet(catalog) : \E o, dearest \in ToSet(p.options) :
                    /\ p.id = pkg.product /\ o.id = pkg.option /\ dearest.id = pkg.option
                    /\ pkg.cpm = o.price.amount /\ worst = dearest.price.amount
                    /\ pkg.cpm <= worst
<1> DEFINE p == catalog[j]
           k == Candidate(p, brief)
           o == p.options[k]
           prices == BookablePrices(p, pkg.option, brief.currency)
           worst == AuthoritativeCpm(p, pkg.option, brief.currency)
<1>1. p \in ToSet(catalog) /\ k # 0
  BY DEF ToSet, Proposes
<1>2. k \in DOMAIN p.options /\ o \in ToSet(p.options) /\ Buyable(o, brief.currency)
  BY <1>1, CandidateFits
<1>3. pkg.product = p.id /\ pkg.option = o.id /\ pkg.cpm = o.price.amount
  BY DEF Proposes
<1> HIDE DEF o, k
<1>4. pkg.cpm \in prices
  BY <1>2, <1>3 DEF BookablePrices
<1>5. worst \in prices /\ pkg.cpm <= worst
  BY <1>1, <1>4, WorstPrice
<1>6. PICK dearest \in ToSet(p.options) : dearest.id = pkg.option /\ worst = dearest.price.amount
  BY <1>5 DEF BookablePrices
<1>7. ProductIndex(catalog, pkg.product) = j
  BY <1>3, IndexedProduct DEF ProductsUnique
<1>8. Resolvable(pkg, catalog, brief.currency)
  <2>1. j # 0
    BY DEF IsCatalog, IsSequence
  <2>2. QED
    BY <1>4, <1>7, <2>1 DEF Resolvable
<1>9. QED
  BY <1>1, <1>2, <1>3, <1>5, <1>6, <1>7, <1>8

\* Whatever the catalog, the rule-based planner makes a plan.
LEMMA MakesAPlan ==
    ASSUME NEW catalog, IsCatalog(catalog), NEW brief, IsBrief(brief)
    PROVE  IsPlan(DeterministicPlan(brief, catalog))
<1>1. PICK left : PlanOf(DeterministicPlan(brief, catalog), left, brief, catalog)
  BY PlanIsAllotted
<1>2. QED
  BY <1>1, PlanShape DEF Shaped

\* Of the shares of a split one is the least.
LEMMA LeastShare ==
    ASSUME NEW n \in Nat \ {0}, NEW c \in Nat
    PROVE  \E i \in 1 .. n : \A j \in 1 .. n : Shares(n, 10 * c)[i] <= Shares(n, 10 * c)[j]
<1> DEFINE s == Shares(n, 10 * c)
           v == [i \in 1 .. n |-> 0 - s[i]]
<1>1. \A i \in 1 .. n : s[i] \in Int
  BY ShareIsAnAmount
<1> HIDE DEF s
<1>2. \A i \in 1 .. n : v[i] = 0 - s[i] /\ v[i] \in Int
  BY <1>1
<1>3. 1 .. n # {} /\ 1 .. n \in SUBSET (1 .. n) /\ n \in Nat
  OBVIOUS
<1> HIDE DEF v
<1>4. PICK i \in 1 .. n : \A j \in 1 .. n : v[i] >= v[j]
  BY <1>2, <1>3, GreatestExists
<1>5. \A j \in 1 .. n : s[i] <= s[j]
  BY <1>1, <1>2, <1>4
<1>6. QED
  BY <1>5 DEF s

\* If some of the chosen products could share the budget with none of them short, the
\* plan has as many packages: the loop does not drop one too many.
LEMMA NoneDroppedInVain ==
    ASSUME NEW catalog, IsCatalog(catalog), NEW brief, IsBrief(brief),
           NEW c \in Nat, brief.budget = 10 * c,
           NEW n \in Nat, n = Len(Chosen(brief, catalog)), n * n * n <= c,
           NEW T \in SUBSET (1 .. n), NEW k \in Nat \ {0}, k = Cardinality(T),
           \A i \in T : \A j \in 1 .. k :
             ~(Shares(k, 10 * c)[j] < Chosen(brief, catalog)[i].min)
    PROVE  k <= Len(DeterministicPlan(brief, catalog))
<1> DEFINE ch == Chosen(brief, catalog)
           plan == DeterministicPlan(brief, catalog)
<1>1. AreCandidates(ch) /\ DOMAIN ch = 1 .. n
  <2>1. AreCandidates(ch)
    BY ChosenAreRanked
  <2> HIDE DEF ch
  <2>2. DOMAIN ch = 1 .. Len(ch)
    BY <2>1 DEF AreCandidates, IsSequence
  <2>3. n = Len(ch)
    BY DEF ch
  <2>4. QED
    BY <2>1, <2>2, <2>3
<1>2. plan = Allocate(ch, 10 * c)
  BY DEF DeterministicPlan, Chosen
<1>3. /\ n = Len(ch) /\ n * n * n <= c
      /\ \A i \in T : \A j \in 1 .. k : ~(Shares(k, 10 * c)[j] < ch[i].min)
  OBVIOUS
<1> HIDE DEF ch, plan
<1>4. PICK turn : Turns(turn, ch, 10 * c)
  BY <1>1, <1>3, AllocateAsLoop
<1>5. PICK m \in 1 .. k : \A j \in 1 .. k : Shares(k, 10 * c)[m] <= Shares(k, 10 * c)[j]
  BY LeastShare
<1> DEFINE share == Shares(k, 10 * c)[m]
<1>6. share \in Int
  BY ShareIsAnAmount
<1>7. T \in SUBSET Affordable(ch, share) /\ Affordable(ch, share) \in SUBSET (1 .. n)
  <2>1. \A i \in T : i \in DOMAIN ch /\ ch[i].min \in Int /\ ~(share < ch[i].min)
    BY <1>1, <1>3 DEF AreCandidates
  <2> HIDE DEF share
  <2>2. QED
    BY <1>1, <1>6, <2>1 DEF Affordable
<1>8. k <= Cardinality(Affordable(ch, share)) /\ k <= n
  <2> HIDE DEF share
  <2>1. IsFiniteSet(1 .. n) /\ Cardinality(1 .. n) = n
    BY OneTo
  <2>2. IsFiniteSet(Affordable(ch, share))
    BY <1>7, <2>1, FS_Subset
  <2>3. Cardinality(T) <= Cardinality(Affordable(ch, share))
    BY <1>7, <2>2, FS_Subset
  <2>4. Cardinality(T) <= Cardinality(1 .. n)
    BY <2>1, FS_Subset
  <2>5. QED
    BY <2>1, <2>3, <2>4
<1>9. k <= Len(turn[n])
  <2>1. k \in 1 .. Len(ch) /\ Len(ch) * Len(ch) * Len(ch) <= c
    BY <1>3, <1>8
  <2>2. \E i \in 1 .. k : share = Shares(k, 10 * c)[i]
    OBVIOUS
  <2>3. \A i \in 1 .. k : share <= Shares(k, 10 * c)[i]
    BY <1>5
  <2> HIDE DEF share
  <2>4. k <= Len(turn[Len(ch)])
    BY <1>1, <1>4, <1>6, <1>8, <2>1, <2>2, <2>3, AffordableStay
  <2>5. QED
    BY <1>3, <2>4
<1>10. Len(plan) = Len(turn[n])
  <2> DEFINE left == turn[n]
  <2>1. plan = Allotted(left, 10 * c)
    BY <1>2, <1>3, <1>4 DEF Turns
  <2>2. AreCandidates(turn[Len(ch)])
    BY <1>1, <1>4, NobodyIsShort
  <2>3. Len(left) \in Nat /\ DOMAIN left = 1 .. Len(left)
    BY <1>3, <2>2 DEF AreCandidates, IsSequence
  <2> HIDE DEF left
  <2>4. QED
    BY <2>1, <2>3 DEF Allotted, left
<1>11. QED
  BY <1>9, <1>10 DEF plan
=============================================================================
