----------------------------- MODULE MCPlanner -----------------------------
(***************************************************************************)
(* Instances of Planning for TLC: every catalog and brief of a small       *)
(* space.  Amounts are tenths of a cent.                                   *)
(***************************************************************************)
EXTENDS Planning

CONSTANTS
    BriefBudgets,   \* budgets of briefs
    Minimums,       \* minimum spends
    Products        \* how many products a catalog has at most

Option(id, ok, cur, kind, amount, min) ==
    [ id |-> id, supported |-> ok, currency |-> cur,
      price |-> [kind |-> kind, amount |-> amount], minSpend |-> min ]

\* Of every kind of option there is one: dear and cheap, without a currency,
\* listed twice under one id, foreign, unsupported, NaN, and an auction.
OptionLists ==
    UNION { { << Option("a", TRUE, "USD", "amount", 500, m) >>,
              << Option("a", TRUE, "USD", "amount", 500, m), Option("b", TRUE, "", "amount", 300, m) >>,
              << Option("a", FALSE, "USD", "amount", 100, m), Option("b", TRUE, "USD", "amount", 900, m) >>,
              << Option("a", TRUE, "EUR", "amount", 100, m), Option("b", TRUE, "USD", "nonfinite", 0, m),
                 Option("c", TRUE, "USD", "absent", 0, m) >> } : m \in Minimums }
    \union { << Option("a", TRUE, "USD", "amount", 300, 120), Option("a", TRUE, "USD", "amount", 900, 0) >> }

Ids == << "p", "q", "r" >>

MCCatalogs ==
    { [i \in 1 .. n |-> [id |-> Ids[i], options |-> f[i], score |-> g[i]]] :
        n \in {Products}, f \in [1 .. Products -> OptionLists], g \in [1 .. Products -> {1, 2}] }

MCBriefs == [ budget : BriefBudgets, currency : {"USD"}, maxCpm : {NoCeiling, 500}, maxPackages : {2, 3} ]

\* What CPython 3.12 makes of the budgets of Planner.cfg: 2.2 + 2.2 + 2.2 is
\* 6.6000000000000005, and so on.
MCSumsAbove(budgets) == budgets \in { << 2200, 2200, 2200 >>, << 140, 150 >>, << 100, 100, 90 >> }
MCShareTieUp(budget, n) == budget = 50 /\ n = 2
MCDriftTieUp(budget, n) == budget = 75
=============================================================================
