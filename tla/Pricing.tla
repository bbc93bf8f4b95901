------------------------------ MODULE Pricing ------------------------------
(***************************************************************************)
(* What a seller charges for a pricing option (buyer/pricing.py), and the  *)
(* money guards that stand between a plan and a spend (buyer/guard.py).    *)
(*                                                                         *)
(* Money is counted in tenths of a cent.  The code adds and compares       *)
(* binary floats: where that decides, a constant operator says how, and    *)
(* nothing is assumed of it.  A catalog is the sequence of products of one *)
(* get_products answer, a product a sequence of options, and a plan        *)
(* (buyer/plan.py) a sequence of packages.                                 *)
(***************************************************************************)
EXTENDS Integers, SequencesExt

CONSTANTS
    NoCeiling,          \* max_cpm=None
    SumsAbove(_)        \* the float sum of these budgets is above their sum (2.2 + 2.2 + 2.2)

IsSequence(s) == s \in Seq(ToSet(s))

\* What get_products may list.  A price is [kind, amount]: fixed_price came over
\* the wire as "absent", "junk" (not a number at all), "nonfinite" (NaN,
\* infinite) or an "amount".  A minimum spend is not below zero.
IsCatalog(catalog) ==
    /\ IsSequence(catalog)
    /\ \A p \in ToSet(catalog) :
         /\ p.score \in Int /\ IsSequence(p.options)
         /\ \A po \in ToSet(p.options) :
              po.minSpend \in Nat /\ (po.price.kind = "amount" => po.price.amount \in Int)

\* PackagePlan, CampaignPlan
IsPackage(pkg) ==
    /\ pkg = [ product |-> pkg.product, option |-> pkg.option, cpm |-> pkg.cpm, budget |-> pkg.budget ]
    /\ pkg.budget \in Int
IsPlan(plan) == IsSequence(plan) /\ \A pkg \in ToSet(plan) : IsPackage(pkg)

\* CampaignBrief
IsBrief(brief) ==
    /\ brief.budget \in Nat /\ brief.maxPackages \in Nat \ {0}
    /\ brief.maxCpm = NoCeiling \/ brief.maxCpm \in Int

\* buyable_price: the option is bookable as it is, at the price it quotes.
Buyable(po, currency) ==
    /\ po.supported
    /\ (IF po.currency = "" THEN "USD" ELSE po.currency) = currency
    /\ po.price.kind = "amount" /\ po.price.amount >= 0

\* The bookable prices of the options of a product that carry this id.
BookablePrices(product, optionId, currency) ==
    { po.price.amount : po \in { o \in ToSet(product.options) :
                                    o.id = optionId /\ Buyable(o, currency) } }

\* Mutant: the best of them.
LowestCpm(product, optionId, currency) == Min(BookablePrices(product, optionId, currency))

\* authoritative_cpm, where there is a price: the worst the seller could charge.
AuthoritativeCpm(product, optionId, currency) ==
    Max(BookablePrices(product, optionId, currency))

\* The product of a catalog with this id; of several the index keeps the last.
ProductIndex(catalog, id) == SelectLastInSeq(catalog, LAMBDA p : p.id = id)

Resolvable(pkg, catalog, currency) ==
    LET i == ProductIndex(catalog, pkg.product)
    IN  i # 0 /\ BookablePrices(catalog[i], pkg.option, currency) # {}

\* resolve_plan_pricing: packages without a seller price are dropped, the
\* others carry the seller's price whatever the planner claimed.
Resolve(plan, catalog, currency) ==
    LET add(packages, pkg) ==
          IF Resolvable(pkg, catalog, currency)
            THEN Append(packages, [ pkg EXCEPT !.cpm =
                   AuthoritativeCpm(catalog[ProductIndex(catalog, pkg.product)],
                                    pkg.option, currency) ])
            ELSE packages
    IN  FoldLeft(add, << >>, plan)

\* CampaignPlan.total_budget, but for the float error of SumsAbove.
TotalBudget(plan) == FoldLeft(LAMBDA sum, pkg : sum + pkg.budget, 0, plan)

OverCpm(plan, brief) ==
    brief.maxCpm # NoCeiling /\ \E i \in DOMAIN plan : plan[i].cpm > brief.maxCpm

Budgets(plan) == [i \in DOMAIN plan |-> plan[i].budget]

\* The float total of the plan is over the budget.
OverBudget(plan, brief) ==
    \/ TotalBudget(plan) > brief.budget
    \/ TotalBudget(plan) = brief.budget /\ SumsAbove(Budgets(plan))

\* enforce_spend_ceiling raises.  At a limit is allowed, over it is not.
Refuses(plan, brief) == OverCpm(plan, brief) \/ OverBudget(plan, brief)
=============================================================================
