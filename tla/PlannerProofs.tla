---------------------------- MODULE PlannerProofs ----------------------------
(***************************************************************************)
(* What the rule-based plan is worth, for every catalog, brief and number  *)
(* of packages, however floats are rounded and added up: it spends the     *)
(* budget, keeps as many packages as it can, and the guards do no more     *)
(* than correct its prices.  Where products are looked up by id, a seller  *)
(* lists each once; where a cent decides, budgets are whole cents.         *)
(***************************************************************************)
EXTENDS Planning, PricingProofs

\* Budgets are a number of whole cents.
WholeCents == \A b \in Briefs : b.budget % 10 = 0

\* Sellers list a product once.
ProductNamesUnique == \A c \in Catalogs : ProductsUnique(c)

\* The brief and the catalog stay, and a plan is the one made for them.
Made ==
    /\ brief \in Briefs /\ catalog \in Catalogs
    /\ planned \in BOOLEAN
    /\ plan = IF planned THEN DeterministicPlan(brief, catalog) ELSE << >>

LEMMA MadeAlways == Spec => []Made
<1>1. Init => Made
  BY DEF Init, Made
<1>2. Made /\ [Next]_vars => Made'
  <2> SUFFICES ASSUME Made, [Next]_vars PROVE Made'
    OBVIOUS
  <2>1. CASE MakePlan
    <3>1. brief' = brief /\ catalog' = catalog /\ planned' = TRUE
          /\ plan' = DeterministicPlan(brief, catalog)
      BY <2>1 DEF MakePlan
    <3>2. plan' = DeterministicPlan(brief', catalog')
      BY <3>1
    <3>3. QED
      BY <3>1, <3>2 DEF Made
  <2>2. CASE UNCHANGED vars
    <3>1. brief' = brief /\ catalog' = catalog /\ planned' = planned /\ plan' = plan
      BY <2>2 DEF vars
    <3>2. QED
      BY <3>1 DEF Made
  <2>3. QED
    BY <2>1, <2>2 DEF Next
<1>3. QED
  BY <1>1, <1>2, PTL DEF Spec

LEMMA InCents ==
    ASSUME Made, WholeCents
    PROVE  \E c \in Nat : brief.budget = 10 * c
<1>1. brief.budget \in Nat /\ brief.budget % 10 = 0
  BY PlanningAssumption DEF Made, WholeCents, IsBrief
<1> DEFINE b == brief.budget
<1>2. b = 10 * (b \div 10) /\ b \div 10 \in Nat
  <2>1. b \in Nat /\ b % 10 = 0
    BY <1>1
  <2> HIDE DEF b
  <2>2. QED
    BY <2>1
<1>3. QED
  BY <1>2

\* The inputs of a plan are what get_products and CampaignBrief let through.
LEMMA Inputs ==
    ASSUME Made
    PROVE  IsBrief(brief) /\ IsCatalog(catalog)
  BY PlanningAssumption DEF Made

\* No plan, or the one that is left of the chosen products.
LEMMA PlanMade ==
    ASSUME Made, plan # << >>
    PROVE  \E left : PlanOf(plan, left, brief, catalog)
  BY Inputs, PlanIsAllotted DEF Made

-----------------------------------------------------------------------------
(* The whole budget, and no package below its minimum. *)

LEMMA BudgetSpent ==
    ASSUME Made, plan # << >>
    PROVE  /\ TotalBudget(plan) \in Int /\ TotalBudget(plan) % 10 = 0
           /\ TotalBudget(plan) - brief.budget \in -5 .. 5
<1>1. brief.budget \in Int
  BY Inputs DEF IsBrief
<1>2. PICK left : PlanOf(plan, left, brief, catalog)
  BY PlanMade
<1> DEFINE n == Len(left)
<1>3. /\ n \in Nat /\ IsPlan(plan) /\ Len(plan) = n /\ DOMAIN plan = 1 .. n
      /\ \A i \in 1 .. n : plan[i].budget = Shares(n, brief.budget)[i]
  <2>1. Shaped(plan, left, brief.budget, n)
    BY <1>2, Inputs, PlanShape
  <2>2. QED
    BY <2>1 DEF Shaped
<1> HIDE DEF n
<1>4. n # 0
  <2> SUFFICES ASSUME n = 0 PROVE plan = << >>
    OBVIOUS
  <2>1. QED
    BY <1>3 DEF IsPlan, IsSequence
<1>5. PICK t \in Int : TotalBudget(plan) = 10 * t /\ 10 * t - brief.budget \in -5 .. 5
  <2> DEFINE budget == brief.budget
  <2>1. /\ n \in Nat \ {0} /\ budget \in Int /\ DOMAIN plan = 1 .. n
        /\ \A i \in 1 .. n : plan[i].budget = Shares(n, budget)[i]
    BY <1>1, <1>3, <1>4
  <2> HIDE DEF budget
  <2>2. \E t \in Int : TotalBudget(plan) = 10 * t /\ 10 * t - budget \in -5 .. 5
    BY <2>1, SharesAddUp
  <2>3. QED
    BY <2>2 DEF budget
<1>6. (10 * t) % 10 = 0 /\ 10 * t \in Int
  OBVIOUS
<1>7. QED
  BY <1>5, <1>6

\* Dropping a package hands its share to the rest, whatever is dropped and however
\* shares are rounded: a plan spends the budget to the cent and no package of it is
\* below the minimum spend of its option (_allocate, planner.py:49-72).
THEOREM BudgetSpentAboveMinimums ==
    ASSUME ProductNamesUnique
    PROVE  Spec => []SpendsBudgetAboveMinimums
<1>1. ASSUME Made PROVE SpendsBudgetAboveMinimums
  <2> SUFFICES ASSUME plan # << >>
               PROVE  /\ TotalBudget(plan) % 10 = 0
                      /\ TotalBudget(plan) - brief.budget \in -5 .. 5
                      /\ \A i \in DOMAIN plan : \E p \in ToSet(catalog) : \E o \in ToSet(p.options) :
                           p.id = plan[i].product /\ o.id = plan[i].option /\ plan[i].budget >= o.minSpend
    BY DEF SpendsBudgetAboveMinimums
  <2>1. TotalBudget(plan) % 10 = 0 /\ TotalBudget(plan) - brief.budget \in -5 .. 5
    BY <1>1, BudgetSpent
  <2>2. PICK left : PlanOf(plan, left, brief, catalog)
    BY <1>1, PlanMade
  <2>3. IsBrief(brief) /\ IsCatalog(catalog) /\ ProductsUnique(catalog)
    BY <1>1, Inputs DEF ProductNamesUnique, Made
  <2>4. ASSUME NEW i \in DOMAIN plan
        PROVE  \E p \in ToSet(catalog) : \E o \in ToSet(p.options) :
                 p.id = plan[i].product /\ o.id = plan[i].option /\ plan[i].budget >= o.minSpend
    <3>1. /\ i \in DOMAIN left /\ IsPlan(plan)
          /\ plan[i].product = left[i].product /\ plan[i].option = left[i].option
          /\ ~(plan[i].budget < left[i].min)
      <4>1. Shaped(plan, left, brief.budget, Len(left))
        BY <2>2, <2>3, PlanShape
      <4>2. QED
        BY <4>1 DEF Shaped
    <3>2. PICK j \in DOMAIN catalog : Proposes(left[i], brief, catalog, j)
      BY <2>2, <3>1 DEF PlanOf
    <3> DEFINE p == catalog[j]
               o == p.options[Candidate(p, brief)]
    <3>3. p \in ToSet(catalog)
      BY DEF ToSet
    <3>4. o \in ToSet(p.options)
      BY <2>3, <3>2, <3>3, CandidateFits DEF Proposes
    <3>5. p.id = plan[i].product /\ o.id = plan[i].option /\ o.minSpend = left[i].min
      BY <2>3, <3>1, <3>2 DEF Proposes
    <3>6. plan[i].budget \in Int /\ left[i].min \in Int
      BY <3>1, <3>2 DEF IsPlan, IsPackage, Proposes, ToSet
    <3> HIDE DEF o, p
    <3>7. plan[i].budget >= o.minSpend
      BY <3>1, <3>5, <3>6
    <3>8. QED
      BY <3>3, <3>4, <3>5, <3>7
  <2>5. QED
    BY <2>1, <2>4
<1>2. QED
  BY <1>1, MadeAlways, PTL

-----------------------------------------------------------------------------
(* What the guards make of the plan. *)

\* The guards drop no package of the plan, and raise its price only to a dearer one
\* of the same option id.
LEMMA Restamped ==
    ASSUME Made, ProductNamesUnique
    PROVE  LET resolved == Resolve(plan, catalog, brief.currency)
           IN  /\ IsPlan(plan) /\ IsPlan(resolved) /\ DOMAIN resolved = DOMAIN plan
               /\ \A i \in DOMAIN plan : Corrected(plan[i], resolved[i])
               /\ ~OverCpm(plan, brief)
<1> DEFINE resolved == Resolve(plan, catalog, brief.currency)
<1>1. IsBrief(brief) /\ IsCatalog(catalog) /\ ProductsUnique(catalog)
  BY Inputs DEF ProductNamesUnique, Made
<1>2. CASE plan = << >>
  <2>1. IsPlan(plan) /\ DOMAIN plan = 1 .. 0
    BY <1>2 DEF IsPlan, IsSequence, ToSet
  <2>2. \A i \in DOMAIN plan : Resolvable(plan[i], catalog, brief.currency)
    BY <2>1
  <2>3. DOMAIN resolved = DOMAIN plan
    BY <2>1, <2>2, ResolveStamps
  <2>4. IsPlan(resolved)
    BY <2>1, PricesAreTheSellers
  <2>5. QED
    BY <2>1, <2>3, <2>4 DEF OverCpm
<1>3. CASE plan # << >>
  <2>1. PICK left : PlanOf(plan, left, brief, catalog)
    BY <1>3, PlanMade
  <2>2. Shaped(plan, left, brief.budget, Len(left)) /\ IsPlan(plan)
    <3>1. Shaped(plan, left, brief.budget, Len(left))
      BY <1>1, <2>1, PlanShape
    <3>2. QED
      BY <3>1 DEF Shaped
  <2>3. ASSUME NEW i \in DOMAIN plan
        PROVE  /\ Resolvable(plan[i], catalog, brief.currency)
               /\ Corrected(plan[i], Stamped(plan[i], catalog, brief.currency))
               /\ brief.maxCpm # NoCeiling => ~(plan[i].cpm > brief.maxCpm)
    <3> DEFINE pkg == plan[i]
               stamped == Stamped(pkg, catalog, brief.currency)
               worst == AuthoritativeCpm(catalog[ProductIndex(catalog, pkg.product)],
                                         pkg.option, brief.currency)
    <3>1. /\ i \in DOMAIN left
          /\ pkg.product = left[i].product /\ pkg.option = left[i].option /\ pkg.cpm = left[i].cpm
      BY <2>2 DEF Shaped
    <3>2. PICK j \in DOMAIN catalog : Proposes(left[i], brief, catalog, j)
      BY <2>1, <3>1 DEF PlanOf
    <3>3. /\ Resolvable(pkg, catalog, brief.currency)
          /\ \E p \in ToSet(catalog) : \E o, dearest \in ToSet(p.options) :
               /\ p.id = pkg.product /\ o.id = pkg.option /\ dearest.id = pkg.option
               /\ pkg.cpm = o.price.amount /\ worst = dearest.price.amount /\ pkg.cpm <= worst
      BY <1>1, <3>1, <3>2, PlannedPrice
    <3>4. IsPackage(pkg)
      BY <2>2 DEF IsPlan, ToSet
    <3>5. stamped = [pkg EXCEPT !.cpm = worst]
      BY DEF Stamped
    <3>6. brief.maxCpm # NoCeiling =>
            ~(catalog[j].options[Candidate(catalog[j], brief)].price.amount > brief.maxCpm)
      BY <1>1, <3>2, CandidateFits DEF Proposes, ToSet
    <3>7. brief.maxCpm # NoCeiling => ~(pkg.cpm > brief.maxCpm)
      BY <3>1, <3>2, <3>6 DEF Proposes
    <3> HIDE DEF pkg, stamped, worst
    <3>8. stamped.cpm = worst
      BY <3>4, <3>5 DEF IsPackage
    <3>9. Corrected(pkg, stamped)
      BY <3>3, <3>5, <3>8 DEF Corrected
    <3>10. QED
      BY <3>3, <3>7, <3>9 DEF pkg, stamped
  <2>4. resolved = [i \in DOMAIN plan |-> Stamped(plan[i], catalog, brief.currency)]
    BY <2>2, <2>3, ResolveStamps
  <2>5. IsPlan(resolved)
    BY <2>2, PricesAreTheSellers
  <2> HIDE DEF resolved
  <2>6. QED
    BY <2>2, <2>3, <2>4, <2>5 DEF OverCpm, resolved
<1>4. QED
  BY <1>2, <1>3

\* Planner and guards share one idea of what is bookable (pricing.py:3-9), and the
\* guards' worst price differs from the planner's only where a seller lists an
\* option id again (guard.py:37-41): nothing is dropped, and a plan is refused only
\* for such a price, a fraction of a cent, or the error of a float sum, however
\* floats are rounded and added up.
THEOREM GuardsOnlyCorrect ==
    ASSUME ProductNamesUnique
    PROVE  Spec => []GuardOnlyCorrects
<1>1. ASSUME Made PROVE GuardOnlyCorrects
  <2> DEFINE resolved == Resolve(plan, catalog, brief.currency)
  <2>1. /\ IsPlan(plan) /\ IsPlan(resolved) /\ DOMAIN resolved = DOMAIN plan
        /\ \A i \in DOMAIN plan : Corrected(plan[i], resolved[i])
        /\ ~OverCpm(plan, brief)
    BY <1>1, Restamped
  <2>2. brief.budget \in Nat
    BY <1>1, Inputs DEF IsBrief
  <2> HIDE DEF resolved
  <2>3. TotalBudget(resolved) = TotalBudget(plan)
    <3>1. ASSUME NEW i \in DOMAIN plan PROVE resolved[i].budget = plan[i].budget
      <4> DEFINE pkg == plan[i]
                 stamped == resolved[i]
      <4>1. IsPackage(pkg) /\ stamped = [pkg EXCEPT !.cpm = stamped.cpm]
        BY <2>1 DEF IsPlan, ToSet, Corrected
      <4> HIDE DEF pkg, stamped
      <4>2. stamped.budget = pkg.budget
        BY <4>1 DEF IsPackage
      <4>3. QED
        BY <4>2 DEF pkg, stamped
    <3> DEFINE n == Len(plan)
    <3>2. n \in Nat /\ DOMAIN plan = 1 .. n /\ \A i \in 1 .. n : plan[i].budget \in Int
      BY <2>1 DEF IsPlan, IsSequence, IsPackage, ToSet
    <3> HIDE DEF n
    <3>3. QED
      BY <2>1, <3>1, <3>2, SameTotal
  <2>4. ASSUME TotalBudget(plan) > brief.budget, brief.budget % 10 = 0 PROVE FALSE
    <3> DEFINE total == TotalBudget(plan)
               budget == brief.budget
    <3>1. CASE plan = << >>
      <4>1. total = 0
        <5>1. DOMAIN plan = 1 .. 0
          BY <3>1
        <5>2. PICK f : Sums(f, 0, plan)
          BY <5>1, TotalAsLoop
        <5>3. QED
          BY <5>2 DEF Sums
      <4>2. QED
        BY <2>2, <2>4, <4>1
    <3>2. CASE plan # << >>
      <4>1. /\ total \in Int /\ budget \in Nat /\ total > budget
            /\ total % 10 = 0 /\ total - budget \in -5 .. 5 /\ budget % 10 = 0
        BY <1>1, <2>2, <2>4, <3>2, BudgetSpent
      <4> HIDE DEF total, budget
      <4>2. QED
        BY <4>1
    <3>3. QED
      BY <3>1, <3>2
  <2>5. Refuses(resolved, brief) =>
          OverCpm(resolved, brief) \/ brief.budget % 10 # 0 \/ SumsAbove(Budgets(resolved))
    BY <2>3, <2>4 DEF Refuses, OverBudget
  <2>6. QED
    BY <2>1, <2>5 DEF GuardOnlyCorrects, resolved
<1>2. QED
  BY <1>1, MadeAlways, PTL

-----------------------------------------------------------------------------
(* No package is dropped in vain. *)

\* For as many products as there are and with a cent for each of n * n * n, _allocate
\* ends with as many packages as any choice among the ranked products could
\* have: the order it drops them in costs none (planner.py:67-71).
THEOREM MostPackagesKept ==
    ASSUME WholeCents
    PROVE  Spec => []KeepsMostPackages
<1>1. ASSUME Made PROVE KeepsMostPackages
  <2> DEFINE ranked == Candidates(brief, catalog)
             top == { i \in DOMAIN ranked : i <= brief.maxPackages }
             ch == Chosen(brief, catalog)
             n == Cardinality(top)
  <2> SUFFICES ASSUME planned, brief.budget >= 10 * n * n * n,
                      NEW T \in SUBSET top, Cardinality(T) > Len(plan)
               PROVE  \E i \in T : \E j \in 1 .. Cardinality(T) :
                        Shares(Cardinality(T), brief.budget)[j] < ranked[i].min
    BY DEF KeepsMostPackages
  <2>1. IsBrief(brief) /\ IsCatalog(catalog) /\ plan = DeterministicPlan(brief, catalog)
    BY <1>1, Inputs DEF Made
  <2>2. PICK c \in Nat : brief.budget = 10 * c
    BY <1>1, InCents
  <2>3. AreCandidates(ch) /\ DOMAIN ch = top /\ \A i \in DOMAIN ch : ch[i] = ranked[i]
    BY <2>1, ChosenAreRanked
  <2>4. Len(ch) \in Nat /\ DOMAIN ch = 1 .. Len(ch)
    BY <2>3 DEF AreCandidates, IsSequence
  <2> HIDE DEF top, ch, ranked
  <2>5. n = Len(ch) /\ n \in Nat /\ top = 1 .. n /\ IsFiniteSet(top)
    <3>1. Cardinality(1 .. Len(ch)) = Len(ch) /\ IsFiniteSet(1 .. Len(ch))
      BY <2>4, OneTo
    <3>2. QED
      BY <2>3, <2>4, <3>1
  <2>6. n * n * n <= c
    <3> DEFINE m == n * n * n
    <3>1. 10 * n * n * n = 10 * m /\ m \in Nat
      BY <2>5
    <3> HIDE DEF m
    <3>2. 10 * c >= 10 * m
      BY <2>2, <3>1
    <3>3. m <= c
      BY <3>1, <3>2
    <3>4. QED
      BY <3>3 DEF m
  <2> DEFINE k == Cardinality(T)
  <2>7. k \in Nat
    BY <2>5, FS_Subset, FS_CardinalityType
  <2>8. Len(plan) \in Nat
    <3>1. PICK left : PlanOf(plan, left, brief, catalog)
      BY <2>1, PlanIsAllotted
    <3>2. QED
      BY <2>1, <3>1, PlanShape DEF Shaped
  <2> HIDE DEF n, k
  <2>9. SUFFICES ASSUME \A i \in T : \A j \in 1 .. k : ~(Shares(k, 10 * c)[j] < ch[i].min)
                 PROVE  FALSE
    BY <2>2, <2>3 DEF k
  <2>10. k > Len(plan)
    BY DEF k
  <2>11. k \in Nat \ {0} /\ T \in SUBSET (1 .. n) /\ k = Cardinality(T)
    BY <2>5, <2>7, <2>8, <2>10 DEF k
  <2>12. k <= Len(plan)
    BY <2>1, <2>2, <2>5, <2>6, <2>9, <2>11, NoneDroppedInVain DEF ch
  <2>13. QED
    BY <2>7, <2>8, <2>10, <2>12
<1>2. QED
  BY <1>1, MadeAlways, PTL
=============================================================================
