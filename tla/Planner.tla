------------------------------ MODULE Planner ------------------------------
(***************************************************************************)
(* The rule-based planner (deterministic_plan of buyer/planner.py): choose *)
(* the cheapest bookable option of each product, keep the best products,   *)
(* and split the budget so that every package gets its minimum spend.      *)
(*                                                                         *)
(* A product's score stands for the relevance and efficiency _score works  *)
(* out from its texts and prices.                                          *)
(***************************************************************************)
EXTENDS Pricing

\* round(x, 2) rounds the float that stands for x.  Where x is half-way between
\* two cents that float may be on either side: 0.05 / 2 is rounded to 0.03, but
\* 0.29 / 2 to 0.14.
CONSTANTS
    ShareTieUp(_, _),   \* so a share of this budget among so many is rounded up
    DriftTieUp(_, _)    \* and so is the drift of this budget among so many

\* _cheapest_option: the first of the bookable options with the lowest price,
\* 0 if there is none.
CheapestOption(product, currency) ==
    LET best(po) == /\ Buyable(po, currency)
                    /\ \A q \in ToSet(product.options) :
                         Buyable(q, currency) => po.price.amount <= q.price.amount
    IN  SelectInSeq(product.options, best)

\* Mutant: products over the ceiling are candidates.
CandidateAtAnyCpm(product, brief) == CheapestOption(product, brief.currency)

\* The bookable option of a product that is not over the ceiling, 0 if none.
Candidate(product, brief) ==
    LET i == CheapestOption(product, brief.currency)
    IN  IF /\ i # 0 /\ brief.maxCpm # NoCeiling
           /\ product.options[i].price.amount > brief.maxCpm
          THEN 0 ELSE i

\* sort by score, highest first; equals stay as the seller listed them.
Outranks(catalog, i, j) ==
    \/ catalog[i].score > catalog[j].score
    \/ catalog[i].score = catalog[j].score /\ i < j

\* How many of these products come before product i.
Rank(catalog, fits, i) == Cardinality({ j \in fits : Outranks(catalog, j, i) })

\* The candidates in order of rank, each with the minimum spend recorded for
\* its product id, which is that of the last candidate of that id.
Candidates(brief, catalog) ==
    LET fits == { i \in DOMAIN catalog : Candidate(catalog[i], brief) # 0 }
        opt(i) == catalog[i].options[Candidate(catalog[i], brief)]
        min(i) == opt(Max({ j \in fits : catalog[j].id = catalog[i].id })).minSpend
        ranked(n) == CHOOSE i \in fits : Rank(catalog, fits, i) = n - 1
    IN  [ n \in 1 .. Cardinality(fits) |->
            [ product |-> catalog[ranked(n)].id, option |-> opt(ranked(n)).id,
              cpm |-> opt(ranked(n)).price.amount, min |-> min(ranked(n)) ] ]

\* round(a / b, 2) of amounts in tenths of a cent.
RoundToCent(a, b, tieUp) ==
    LET q == a \div (10 * b)
        r == 2 * (a % (10 * b))
    IN  10 * (IF r > 10 * b \/ (r = 10 * b /\ tieUp) THEN q + 1 ELSE q)

\* Mutant: rounding drift is left where it is.
SharesWithDrift(n, budget) == [i \in 1 .. n |-> RoundToCent(budget, n, ShareTieUp(budget, n))]

\* One split of the budget: equal shares, the last of which absorbs the drift.
Shares(n, budget) ==
    LET per   == RoundToCent(budget, n, ShareTieUp(budget, n))
        drift == RoundToCent(n * per - budget, 1, DriftTieUp(budget, n))
    IN  [i \in 1 .. n |-> IF i = n THEN per - drift ELSE per]

\* Mutant: the first package that is short goes.
FirstShort(cands, short) == Min(short)

\* The package to drop: the first of those that are short with the highest minimum.
LeastAffordable(cands, short) ==
    CHOOSE i \in short : \A j \in short :
        cands[j].min < cands[i].min \/ (cands[j].min = cands[i].min /\ i <= j)

\* One turn of the loop of _allocate: split, and drop a package if any is short.
Retry(cands, budget) ==
    LET share == Shares(Len(cands), budget)
        short == { i \in DOMAIN cands : share[i] < cands[i].min }
    IN  IF short = {} THEN cands ELSE RemoveAt(cands, LeastAffordable(cands, short))

\* _allocate: the packages that are left when none is short, with their shares.
Allocate(cands, budget) ==
    LET turn[k \in 0 .. Len(cands)] == IF k = 0 THEN cands ELSE Retry(turn[k - 1], budget)
        left == turn[Len(cands)]
    IN  [ i \in DOMAIN left |->
            [ product |-> left[i].product, option |-> left[i].option,
              cpm |-> left[i].cpm, budget |-> Shares(Len(left), budget)[i] ] ]

\* deterministic_plan
DeterministicPlan(brief, catalog) ==
    LET cands == Candidates(brief, catalog)
    IN  Allocate(SubSeq(cands, 1, IF Len(cands) < brief.maxPackages
                                    THEN Len(cands) ELSE brief.maxPackages), brief.budget)
=============================================================================
