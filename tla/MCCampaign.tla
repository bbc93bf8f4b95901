----------------------------- MODULE MCCampaign -----------------------------
(* Instances of Campaign for TLC.  Amounts are tenths of a cent. *)
EXTENDS Campaign, FiniteSets

Option(id, ok, cur, kind, amount) ==
    [ id |-> id, supported |-> ok, currency |-> cur,
      price |-> [kind |-> kind, amount |-> amount], minSpend |-> 0 ]

\* Product p quotes option a twice, once dearer than the ceiling; option b is
\* cheap.  Product q quotes a foreign, an unsupported and a NaN option.
Tricky ==
    << [ id |-> "p", score |-> 2,
         options |-> << Option("a", TRUE, "USD", "amount", 300), Option("a", TRUE, "", "amount", 900),
                        Option("b", TRUE, "", "amount", 400) >> ],
       [ id |-> "q", score |-> 1,
         options |-> << Option("a", TRUE, "EUR", "amount", 100), Option("b", FALSE, "USD", "amount", 100),
                        Option("c", TRUE, "USD", "nonfinite", 0) >> ] >>
Plain ==
    << [ id |-> "p", score |-> 2, options |-> << Option("b", TRUE, "USD", "amount", 400) >> ],
       [ id |-> "q", score |-> 1, options |-> << Option("b", TRUE, "USD", "amount", 500) >> ] >>

Pkg(p, o, cpm, budget) == [product |-> p, option |-> o, cpm |-> cpm, budget |-> budget]

\* What an LLM may propose: too low a price, too high a budget, options that
\* cannot be booked, products that do not exist.
Bold ==
    { << Pkg("p", "a", 100, 60) >>, << Pkg("p", "b", 100, 60), Pkg("q", "b", 100, 60) >>,
      << Pkg("q", "a", 100, 50), Pkg("q", "c", 100, 50) >>, << Pkg("q", "b", 0, 30), Pkg("x", "b", 1, 10) >> }
NoLLM == {}

MCBrief == [budget |-> 100, currency |-> "USD", maxCpm |-> 500, maxPackages |-> 3]

\* No plan that meets the budget has a sum that is off in floats (0.05 + 0.05 is
\* 0.1), and no share is half-way between two cents.
MCSumsAbove(budgets) == FALSE
MCTieUp(budget, n)   == FALSE

Drifting == {Tricky, Plain}
Stable   == {Plain}

GatewayFaults == { Response(502, "object", NoBuy), Response(200, "other", NoBuy) }
NoFaults      == {}
=============================================================================
