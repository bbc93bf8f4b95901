------------------------------ MODULE Campaign ------------------------------
(***************************************************************************)
(* run_campaign (buyer/campaign.py): discover products, plan, re-stamp     *)
(* prices, enforce the ceiling, register the account, buy durably, report. *)
(*                                                                         *)
(* A run is an ordinary call: a crash loses it, and a user may run the     *)
(* campaign again.  The buy inside it is durable.  It is taken from        *)
(* BuyOnce, which the executor implements: the wire key of a buy is the    *)
(* hash of its request, so the request stands for the key.  The seller may *)
(* change its catalog at any time, hold a buy back for manual approval,    *)
(* and book a buy after the attempt that sent it has failed.               *)
(***************************************************************************)
EXTENDS Exchange, Planner

CONSTANTS
    Brief,          \* the campaign brief
    Catalogs,       \* product lists the seller may publish
    Proposals,      \* plans an LLM planner may return; {} without an LLM
    Accounts,       \* account ids the seller may mint for the brand
    NoAccount,
    Faults,         \* answers a gateway may give in place of the seller's
    ManualApproval, \* the seller may answer "submitted" and decide later
    MaxAttempts,    \* MAX_ATTEMPTS
    MaxPosts,       \* bound: POSTs per request
    MaxRuns,        \* bound: calls of run_campaign
    MaxCrashes,     \* bound: crashes of the buyer
    NoResult

ASSUME CampaignAssumption ==
    /\ MaxAttempts \in Nat \ {0} /\ MaxPosts \in Nat
    /\ MaxRuns \in Nat /\ MaxCrashes \in Nat

ASSUME CampaignData ==
    /\ IsBrief(Brief)
    /\ \A c \in Catalogs : IsCatalog(c)
    /\ \A p \in Proposals : IsPlan(p)

-----------------------------------------------------------------------------
(* The request of a plan.  It carries budgets and option ids, not prices.   *)

Packages(plan) ==
    [ i \in DOMAIN plan |->
        [product |-> plan[i].product, option |-> plan[i].option, budget |-> plan[i].budget] ]

\* What a discovery may list.
Lists == Catalogs \cup { << >> }

\* plan_campaign, the LLM's plan if there is one or the ranker's, and
\* resolve_plan_pricing of it.
PlansFor ==
    [ c \in Lists |-> { Resolve(p, c, Brief.currency) :
                          p \in Proposals \cup {DeterministicPlan(Brief, c)} } ]

Requests ==
    { [account |-> a, start |-> s, packages |-> Packages(p)] :
        a \in Accounts, s \in 0 .. MaxRuns, p \in UNION { PlansFor[c] : c \in Lists } }

VARIABLES
    \* the run under way (lost in a crash)
    pc, products, plan, account, request, result,
    trusted,        \* history: the discovery of this run was a success
    \* the seller's shop window, and every list the buyer read from it
    catalog, seen,
    \* the durable buy of each request (BuyOnce), and its recorded Exchange
    phase, failed, posts, booked, answers,
    pending,        \* requests the seller holds for approval
    \* bounds
    runs, crashes

Buy == INSTANCE BuyOnce WITH Keys <- Requests

runVars  == << pc, products, plan, account, request, result, trusted >>
shopVars == << catalog, seen >>
buyVars  == << phase, failed, posts, booked, answers, pending >>
bounds   == << runs, crashes >>
vars     == << runVars, shopVars, buyVars, bounds >>

Init ==
    /\ pc = "idle" /\ products = << >> /\ plan = << >>
    /\ account = NoAccount /\ request = NoResult /\ result = NoResult /\ trusted = FALSE
    /\ catalog \in Catalogs /\ seen = {}
    /\ Buy!Init /\ answers = [q \in Requests |-> NoResult] /\ pending = {}
    /\ runs = 0 /\ crashes = 0

Report(status, id) == [status |-> status, request |-> request, media_buy_id |-> id]

-----------------------------------------------------------------------------
(* The run. *)

\* get_products: the products are those of the payload, whether or not the
\* answer was a success, and none if there is no payload.
Discover ==
    /\ pc = "idle" /\ runs < MaxRuns
    /\ \E r \in {Response(200, "object", NoBuy), Response(400, "envelope", NoBuy)} \cup Faults :
       \E listed \in IF r.status = 200 THEN {catalog} ELSE {catalog, << >>} :
         /\ products' = IF RestExchange(r).wire_response THEN listed ELSE << >>
         /\ trusted' = IsSuccess(RestExchange(r))
    /\ seen' = seen \cup {products'}
    /\ pc' = "plan" /\ runs' = runs + 1
    /\ result' = NoResult /\ request' = NoResult
    /\ UNCHANGED << plan, account, catalog, buyVars, crashes >>

\* The wire raises: so does run_campaign.
DiscoverRaises ==
    /\ pc = "idle" /\ runs < MaxRuns
    /\ runs' = runs + 1
    /\ result' = [Report("raised", NoBuy) EXCEPT !.request = NoResult] /\ request' = NoResult
    /\ UNCHANGED << pc, products, plan, account, trusted, shopVars, buyVars, crashes >>

\* The plan is made and priced; an empty one is a normal end.  A listed product
\* may lack a field, or hold what is no number: then planning raises.
MakePlan ==
    /\ pc = "plan"
    /\ \/ /\ plan' \in PlansFor[products]
          /\ IF plan' = << >>
               THEN pc' = "idle" /\ result' = Report("no_buy", NoBuy)
               ELSE pc' = "gate" /\ UNCHANGED result
       \/ /\ products # << >>
          /\ pc' = "idle" /\ result' = Report("raised", NoBuy) /\ UNCHANGED plan
    /\ UNCHANGED << products, account, request, trusted, shopVars, buyVars, bounds >>

\* enforce_spend_ceiling
Gate ==
    /\ pc = "gate"
    /\ IF Refuses(plan, Brief)
         THEN pc' = "idle" /\ result' = Report("refused", NoBuy)
         ELSE pc' = "account" /\ UNCHANGED result
    /\ UNCHANGED << products, plan, account, request, trusted, shopVars, buyVars, bounds >>

\* ensure_account: anything but a success that names an account ends the run,
\* as an error or with the wire's exception.
EnsureAccount ==
    /\ pc = "account"
    /\ \/ \E a \in Accounts : account' = a /\ pc' = "buy" /\ UNCHANGED result
       \/ \E end \in {"error", "raised"} :
            pc' = "idle" /\ result' = Report(end, NoBuy) /\ UNCHANGED account
    /\ UNCHANGED << products, plan, request, trusted, shopVars, buyVars, bounds >>

\* Mutant: "asap" is replaced by the time of the run.
RequestOfRun(p, a) == [account |-> a, start |-> runs, packages |-> Packages(p)]

\* _to_request: everything in it comes from the brief, the plan and the account.
RequestOf(p, a) == [account |-> a, start |-> 0, packages |-> Packages(p)]

\* create_media_buy: a buy that was answered is not made again, one under way
\* is waited for.  A failed attempt on record is raised again if its status
\* cannot be queried, and once every attempt has failed.
CreateBuy ==
    LET q == RequestOf(plan, account)
    IN  /\ pc = "buy"
        /\ request' = q
        /\ \/ Buy!Begin(q) /\ pc' = "wait" /\ UNCHANGED result
           \/ phase[q] # "idle" /\ pc' = "wait" /\ UNCHANGED << result, phase, failed, posts, booked >>
           \/ /\ failed[q] # {}
              /\ pc' = "idle" /\ result' = [Report("raised", NoBuy) EXCEPT !.request = q]
              /\ UNCHANGED << phase, failed, posts, booked >>
        /\ UNCHANGED << products, plan, account, trusted, shopVars, answers, pending, bounds >>

\* Mutant: an indeterminate answer is read as a buy.
FinishTwoWay ==
    LET x == answers[request]
    IN  /\ pc = "wait" /\ x # NoResult
        /\ pc' = "idle"
        /\ result' = IF IsError(x) THEN Report("error", NoBuy) ELSE Report("bought", x.media_buy_id)
        /\ UNCHANGED << products, plan, account, request, trusted, shopVars, buyVars, bounds >>

\* The Exchange is read: error, indeterminate, and everything else is bought.
Finish ==
    LET x == answers[request]
    IN  /\ pc = "wait" /\ x # NoResult
        /\ pc' = "idle"
        /\ result' = IF IsError(x) THEN Report("error", NoBuy)
                     ELSE IF IsIndeterminate(x) THEN Report("indeterminate", NoBuy)
                     ELSE Report("bought", x.media_buy_id)
        /\ UNCHANGED << products, plan, account, request, trusted, shopVars, buyVars, bounds >>

-----------------------------------------------------------------------------
(* The durable buy and the seller. *)

Post(q) ==
    /\ posts[q] < MaxPosts /\ Buy!Contact(q)
    /\ UNCHANGED << runVars, shopVars, answers, pending, bounds >>

\* What the seller says of a request it has been sent.
SellerSays(q) ==
    IF q \in booked THEN Response(200, "object", q)
    ELSE IF q \in pending THEN Response(200, "object", NoBuy)
    ELSE Response(400, "envelope", NoBuy)

\* The attempt is answered, by the seller or by the gateway.
Answered(q) ==
    \E r \in {SellerSays(q)} \cup Faults :
        LET x == RestExchange(r)
        IN  /\ Buy!Settle(q, IF IsSuccess(x) /\ x.media_buy_id # NoBuy THEN "bought" ELSE "unclear")
            /\ answers' = [answers EXCEPT ![q] = x]
            /\ UNCHANGED << runVars, shopVars, pending, bounds >>

\* Mutant: the exception is swallowed and the run goes on waiting.
AttemptFailsQuietly(q) ==
    /\ Buy!Fail(q)
    /\ UNCHANGED << runVars, shopVars, answers, pending, bounds >>

\* The attempt used up its tries.  Its exception ends the run that waits for it.
AttemptFails(q) ==
    /\ Buy!Fail(q)
    /\ IF pc = "wait" /\ request = q
         THEN pc' = "idle" /\ result' = Report("raised", NoBuy)
         ELSE UNCHANGED << pc, result >>
    /\ UNCHANGED << products, plan, account, request, trusted, shopVars, answers, pending, bounds >>

\* The seller books a request it was sent, at once or when it is approved.
SellerBooks(q) ==
    /\ Buy!Book(q)
    /\ pending' = pending \ {q}
    /\ UNCHANGED << runVars, shopVars, answers, bounds >>

SellerHolds(q) ==
    /\ ManualApproval /\ posts[q] > 0 /\ q \notin booked \cup pending
    /\ pending' = pending \cup {q}
    /\ UNCHANGED << runVars, shopVars, phase, failed, posts, booked, answers, bounds >>

SellerDeclines(q) ==
    /\ q \in pending
    /\ pending' = pending \ {q}
    /\ UNCHANGED << runVars, shopVars, phase, failed, posts, booked, answers, bounds >>

\* The seller publishes another list.
Reprice ==
    /\ catalog' \in Catalogs \ {catalog}
    /\ UNCHANGED << runVars, seen, buyVars, bounds >>

\* The run is gone; DBOS recovers the buy.
Crash ==
    /\ pc # "idle" /\ crashes < MaxCrashes
    /\ pc' = "idle" /\ crashes' = crashes + 1
    /\ UNCHANGED << products, plan, account, request, result, trusted, shopVars, buyVars, runs >>

Next ==
    \/ Discover \/ DiscoverRaises \/ MakePlan \/ Gate \/ EnsureAccount \/ CreateBuy \/ Finish
    \/ \E q \in Requests : \/ Post(q) \/ Answered(q) \/ AttemptFails(q)
                           \/ SellerBooks(q) \/ SellerHolds(q) \/ SellerDeclines(q)
    \/ Reprice \/ Crash

Spec == Init /\ [][Next]_vars

\* A run goes on, and the buy it waits for is answered or fails: DurableBuy
\* shows that every workflow reaches a final status.  Making a plan is a pure
\* computation, about which nothing is claimed.
FairSpec ==
    /\ Spec
    /\ WF_vars(Gate \/ EnsureAccount \/ CreateBuy \/ Finish)
    /\ WF_vars(\E q \in DOMAIN phase : AttemptFails(q) \/ Answered(q))

-----------------------------------------------------------------------------
(* Properties. *)

Begun == { q \in Requests : phase[q] # "idle" \/ failed[q] # {} \/ posts[q] > 0 }

\* Nothing a planner proposes can make the buyer begin a buy that exceeds the
\* brief: the total is at most its budget, and every package is an option all
\* of whose bookable prices in the brief's currency, in a list the seller
\* published, are at most its ceiling (guard.py:3-7, 37-40).
BuysWithinBrief ==
    \A q \in Begun :
        /\ TotalBudget(q.packages) <= Brief.budget
        /\ \A pkg \in ToSet(q.packages) : \E c \in seen : \E p \in ToSet(c) :
             LET offers == { o \in ToSet(p.options) : o.id = pkg.option /\ Buyable(o, Brief.currency) }
             IN  /\ p.id = pkg.product /\ offers # {}
                 /\ \A o \in offers : Brief.maxCpm = NoCeiling \/ o.price.amount <= Brief.maxCpm

\* Running a campaign again, after a crash, a failure or an unreadable answer,
\* never books it twice while the seller's list and account do not change
\* (executor.py:6, 100).
BookedOnce == \A q, r \in booked : q = r

\* A campaign reported as bought is booked, under the id it reports
\* (result.py:8-10, test_wire_outcomes.py:215-216).
BoughtMeansBooked ==
    result # NoResult /\ result.status = "bought" =>
        result.request \in booked /\ result.media_buy_id = result.request

\* A run that has a plan ends, with a report, an exception or a crash: nothing
\* the seller, a gateway or an earlier run left behind keeps it waiting
\* (campaign.py:119-153).
RunEnds == pc \in {"gate", "account", "buy", "wait"} ~> pc = "idle"

\* "The outcome decides; the shape only supplies the value once the outcome
\* permits reading it" (test_campaign_flow.py:86-87): a buy is prepared only
\* from a discovery that succeeded.
DiscoveryOutcomeDecides == pc \in {"account", "buy", "wait"} => trusted
=============================================================================
