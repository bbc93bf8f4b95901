------------------------------ MODULE Planning ------------------------------
(***************************************************************************)
(* The rule-based planner at work on some brief and catalog, and what its  *)
(* plan is worth to the guards that vet it.                                *)
(***************************************************************************)
EXTENDS Planner

CONSTANTS
    Briefs,         \* campaign briefs
    Catalogs        \* product lists a seller may publish

ASSUME PlanningAssumption ==
    /\ \A b \in Briefs : IsBrief(b)
    /\ \A c \in Catalogs : IsCatalog(c)

VARIABLES brief, catalog, plan, planned

vars == << brief, catalog, plan, planned >>

Init ==
    /\ brief \in Briefs
    /\ catalog \in Catalogs
    /\ plan = << >>
    /\ planned = FALSE

MakePlan ==
    /\ ~planned
    /\ plan' = DeterministicPlan(brief, catalog)
    /\ planned' = TRUE
    /\ UNCHANGED << brief, catalog >>

Next == MakePlan

Spec == Init /\ [][Next]_vars

\* A plan that is not empty spends a number of whole cents at most half a cent from
\* the budget, so just the budget when that is in whole cents, and gives every package
\* the minimum spend of its option: dropping a package hands its share to the rest.
SpendsBudgetAboveMinimums ==
    plan # << >> =>
        /\ TotalBudget(plan) % 10 = 0
        /\ TotalBudget(plan) - brief.budget \in -5 .. 5
        /\ \A i \in DOMAIN plan : \E p \in ToSet(catalog) : \E o \in ToSet(p.options) :
             p.id = plan[i].product /\ o.id = plan[i].option /\ plan[i].budget >= o.minSpend

\* Reference for _allocate: no larger choice among the products it ranked had
\* all shares of its split at or above all its minimums, so no package was
\* dropped in vain.  That takes a budget of at least n^3 cents for n products:
\* with less, the rounding of a share can cost more than a package less gains.
KeepsMostPackages ==
    planned => LET ranked == Candidates(brief, catalog)
                   top == { i \in DOMAIN ranked : i <= brief.maxPackages }
                   n == Cardinality(top)
               IN  brief.budget >= 10 * n * n * n =>
                     \A T \in SUBSET top : Cardinality(T) > Len(plan) =>
                       \E i \in T : \E j \in 1 .. Cardinality(T) :
                         Shares(Cardinality(T), brief.budget)[j] < ranked[i].min

\* What the guard makes of a package of the plan: the price moves, if at all, to
\* a dearer one that the seller lists under the same option id.
Corrected(pkg, stamped) ==
    /\ stamped = [pkg EXCEPT !.cpm = stamped.cpm]
    /\ \E p \in ToSet(catalog) : \E o, dearest \in ToSet(p.options) :
         /\ p.id = pkg.product /\ o.id = pkg.option /\ dearest.id = pkg.option
         /\ pkg.cpm = o.price.amount /\ stamped.cpm = dearest.price.amount
         /\ pkg.cpm <= stamped.cpm

\* Planner and guard agree on what can be booked (pricing.py:3-9), and differ on
\* the price only where an option id is listed twice, which sellers do
\* (guard.py:37-38): the guard drops nothing, and refuses the plan only for such
\* a price, for a budget with a fraction of a cent, which is rounded, or for the
\* error of its float sum.
GuardOnlyCorrects ==
    LET resolved == Resolve(plan, catalog, brief.currency)
    IN  /\ DOMAIN resolved = DOMAIN plan
        /\ \A i \in DOMAIN plan : Corrected(plan[i], resolved[i])
        /\ ~OverCpm(plan, brief)
        /\ Refuses(resolved, brief) =>
             \/ OverCpm(resolved, brief)
             \/ brief.budget % 10 # 0
             \/ SumsAbove(Budgets(resolved))
=============================================================================
