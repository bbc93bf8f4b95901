---------------------------- MODULE CampaignProofs ----------------------------
(***************************************************************************)
(* Safety of run_campaign for any brief, catalogs, proposals, accounts,    *)
(* gateway faults and bounds.                                              *)
(***************************************************************************)
EXTENDS Campaign, PricingProofs

\* Every plan a run can have.
Planned == UNION { PlansFor[c] : c \in Lists }

-----------------------------------------------------------------------------
(* The run.  What it has decided so far is what the buy is made of: a plan *)
(* of a list the seller published, past the gate one it did not refuse.    *)

RunTyped ==
    /\ catalog \in Catalogs /\ seen \subseteq Lists
    /\ pc \in {"plan", "gate", "account", "buy"} => products \in seen
    /\ pc \in {"gate", "account", "buy"} => plan \in PlansFor[products] /\ plan # << >>
    /\ pc \in {"account", "buy"} => ~Refuses(plan, Brief)
    /\ pc = "buy" => account \in Accounts
    /\ pc = "wait" => request \in Requests

BuysTyped ==
    /\ phase \in [Requests -> {"idle", "running", "bought", "unclear"}]
    /\ posts \in [Requests -> Nat] /\ booked \subseteq Requests
    /\ DOMAIN failed = Requests /\ DOMAIN answers = Requests

\* Request q is that of a plan of a published list that passed the gate.
Gated(q) ==
    \E c \in seen, a \in Accounts : \E p \in PlansFor[c] :
        p # << >> /\ ~Refuses(p, Brief) /\ q = RequestOf(p, a)

\* Nothing is bought but what passed the gate in some run, this one or one
\* before a crash.
BuysGated == \A q \in Begun \cup booked : Gated(q)

RunInv == RunTyped /\ BuysTyped /\ BuysGated

LEMMA RequestTyped ==
    ASSUME NEW p \in Planned, NEW a \in Accounts
    PROVE  RequestOf(p, a) \in Requests
<1>1. 0 \in 0 .. MaxRuns
  BY CampaignAssumption
<1>2. QED
  BY <1>1 DEF Planned, RequestOf, Requests

LEMMA RunInit == Init => RunInv
BY DEF Init, Buy!Init, RunInv, RunTyped, BuysTyped, BuysGated, Begun, Lists

\* A step that leaves the buys alone, or only records an answer.
LEMMA BuysAlone ==
    ASSUME RunInv, RunTyped', UNCHANGED << phase, failed, posts, booked >>,
           DOMAIN answers' = Requests, seen \subseteq seen'
    PROVE  RunInv'
BY DEF RunInv, BuysTyped, BuysGated, Begun, Gated

\* A step of the buy of a request already begun.
LEMMA BuysStep ==
    ASSUME RunInv, RunTyped', UNCHANGED seen, DOMAIN answers' = Requests,
           NEW q \in Requests, q \in Begun,
           \/ Buy!Contact(q) \/ Buy!Book(q) \/ Buy!Fail(q)
           \/ \E end \in {"bought", "unclear"} : Buy!Settle(q, end)
    PROVE  RunInv'
<1>1. BuysTyped'
  BY DEF RunInv, BuysTyped, Buy!Contact, Buy!Book, Buy!Fail, Buy!Settle
<1>2. ASSUME NEW r \in Requests, r # q
      PROVE  phase'[r] = phase[r] /\ failed'[r] = failed[r] /\ posts'[r] = posts[r]
  BY <1>2 DEF RunInv, BuysTyped, Buy!Contact, Buy!Book, Buy!Fail, Buy!Settle
<1>3. booked' \subseteq booked \cup {q}
  BY DEF Buy!Contact, Buy!Book, Buy!Fail, Buy!Settle
<1>4. (Begun \cup booked)' \subseteq Begun \cup booked
  BY <1>2, <1>3 DEF Begun
<1>5. BuysGated'
  BY <1>4 DEF RunInv, BuysGated, Gated
<1>6. QED
  BY <1>1, <1>5 DEF RunInv

LEMMA RunStep == RunInv /\ [Next]_vars => RunInv'
<1> SUFFICES ASSUME RunInv, [Next]_vars PROVE RunInv'
  OBVIOUS
<1> USE DEF RunInv
<1>1. CASE Discover
  <2>1. /\ products' \in Lists /\ seen' = seen \cup {products'} /\ pc' = "plan"
        /\ UNCHANGED << plan, account, catalog, buyVars >>
    BY <1>1 DEF Discover, RunTyped, Lists
  <2>2. RunTyped'
    BY <2>1 DEF RunTyped, Lists
  <2>3. QED
    BY <2>1, <2>2, BuysAlone DEF buyVars, BuysTyped
<1>2. CASE DiscoverRaises
  <2>1. RunTyped'
    BY <1>2 DEF DiscoverRaises, RunTyped, shopVars
  <2>2. QED
    BY <1>2, <2>1, BuysAlone DEF DiscoverRaises, buyVars, shopVars, BuysTyped
<1>3. CASE MakePlan
  <2>1. RunTyped'
    BY <1>3 DEF MakePlan, RunTyped, shopVars
  <2>2. QED
    BY <1>3, <2>1, BuysAlone DEF MakePlan, buyVars, shopVars, BuysTyped
<1>4. CASE Gate
  <2>1. RunTyped'
    BY <1>4 DEF Gate, RunTyped, shopVars
  <2>2. QED
    BY <1>4, <2>1, BuysAlone DEF Gate, buyVars, shopVars, BuysTyped
<1>5. CASE EnsureAccount
  <2>1. RunTyped'
    BY <1>5 DEF EnsureAccount, RunTyped, shopVars
  <2>2. QED
    BY <1>5, <2>1, BuysAlone DEF EnsureAccount, buyVars, shopVars, BuysTyped
<1>6. CASE CreateBuy
  <2>1. PICK q \in Requests : q = RequestOf(plan, account) /\ Gated(q)
    <3>1. plan \in Planned /\ account \in Accounts /\ products \in seen
      BY <1>6 DEF CreateBuy, RunTyped, Planned
    <3>2. Gated(RequestOf(plan, account))
      BY <1>6, <3>1 DEF CreateBuy, RunTyped, Gated
    <3>3. QED
      BY <3>1, <3>2, RequestTyped
  <2>2. RunTyped' /\ UNCHANGED << seen, answers >>
    BY <1>6, <2>1 DEF CreateBuy, RunTyped, shopVars
  <2>3. CASE UNCHANGED << phase, failed, posts, booked >>
    BY <2>2, <2>3, BuysAlone DEF BuysTyped
  <2>4. CASE Buy!Begin(q)
    <3>1. BuysTyped'
      BY <2>2, <2>4 DEF BuysTyped, Buy!Begin
    <3>2. (Begun \cup booked)' \subseteq Begun \cup booked \cup {q}
      BY <2>4 DEF BuysTyped, Buy!Begin, Begun
    <3>3. BuysGated'
      BY <2>1, <2>2, <3>2 DEF BuysGated, Gated
    <3>4. QED
      BY <2>2, <3>1, <3>3
  <2>5. QED
    BY <1>6, <2>1, <2>3, <2>4 DEF CreateBuy
<1>7. CASE Finish
  <2>1. RunTyped'
    BY <1>7 DEF Finish, RunTyped, shopVars
  <2>2. QED
    BY <1>7, <2>1, BuysAlone DEF Finish, buyVars, shopVars, BuysTyped
<1>8. ASSUME NEW q \in Requests,
             Post(q) \/ Answered(q) \/ AttemptFails(q) \/ SellerBooks(q)
      PROVE  RunInv'
  <2>1. \/ Buy!Contact(q) \/ Buy!Book(q) \/ Buy!Fail(q)
        \/ \E end \in {"bought", "unclear"} : Buy!Settle(q, end)
    BY <1>8 DEF Post, Answered, AttemptFails, SellerBooks
  <2>2. q \in Begun
    BY <2>1 DEF Begun, Buy!Contact, Buy!Book, Buy!Fail, Buy!Settle
  <2>3. /\ DOMAIN answers' = Requests /\ UNCHANGED shopVars
        /\ UNCHANGED << products, plan, account, request >>
        /\ pc' \in {pc, "idle"}
    BY <1>8 DEF Post, Answered, AttemptFails, SellerBooks, runVars, BuysTyped
  <2>4. RunTyped'
    BY <2>3 DEF RunTyped, shopVars
  <2>5. QED
    BY <2>1, <2>2, <2>3, <2>4, BuysStep DEF shopVars
<1>9. ASSUME NEW q \in Requests, SellerHolds(q) \/ SellerDeclines(q)
      PROVE  RunInv'
  <2>1. RunTyped'
    BY <1>9 DEF SellerHolds, SellerDeclines, RunTyped, runVars, shopVars
  <2>2. QED
    BY <1>9, <2>1, BuysAlone DEF SellerHolds, SellerDeclines, shopVars, BuysTyped
<1>10. CASE Reprice
  <2>1. RunTyped'
    BY <1>10 DEF Reprice, RunTyped, runVars
  <2>2. QED
    BY <1>10, <2>1, BuysAlone DEF Reprice, buyVars, BuysTyped
<1>11. CASE Crash
  <2>1. RunTyped'
    BY <1>11 DEF Crash, RunTyped, shopVars
  <2>2. QED
    BY <1>11, <2>1, BuysAlone DEF Crash, buyVars, shopVars, BuysTyped
<1>12. CASE UNCHANGED vars
  <2>1. RunTyped'
    BY <1>12 DEF vars, RunTyped, runVars, shopVars
  <2>2. QED
    BY <1>12, <2>1, BuysAlone DEF vars, buyVars, shopVars, BuysTyped
<1>13. QED
  BY <1>1, <1>2, <1>3, <1>4, <1>5, <1>6, <1>7, <1>8, <1>9, <1>10, <1>11, <1>12 DEF Next

LEMMA RunsHold == Spec => []RunInv
BY RunInit, RunStep, PTL DEF Spec

\* Whatever plans are proposed, lists are published and runs are lost, a buy
\* that is begun or booked is of a plan of a published list, at the prices the
\* guard gave it, that the ceiling did not refuse.
THEOREM OnlyGatedBuys == Spec => []BuysGated
<1>1. RunInv => BuysGated
  BY DEF RunInv
<1>2. QED
  BY <1>1, RunsHold, PTL

-----------------------------------------------------------------------------
(* What the gate lets through is within the brief. *)

LEMMA ListsAreCatalogs ==
    ASSUME NEW c \in Lists
    PROVE  IsCatalog(c)
<1>1. IsCatalog(<< >>)
  BY DEF IsCatalog, IsSequence, ToSet
<1>2. QED
  BY <1>1, CampaignData DEF Lists

\* A plan of a list is a proposed plan with the list's prices on it.
LEMMA PlansArePriced ==
    ASSUME NEW c \in Lists, NEW p \in PlansFor[c]
    PROVE  /\ IsPlan(p)
           /\ \A i \in DOMAIN p : AtSellerPrice(p[i], c, Brief.currency)
<1>1. PICK s \in Proposals \cup {DeterministicPlan(Brief, c)} : p = Resolve(s, c, Brief.currency)
  BY DEF PlansFor
<1>2. IsPlan(s)
  <2>1. IsPlan(DeterministicPlan(Brief, c))
    BY ListsAreCatalogs, CampaignData, MakesAPlan
  <2>2. QED
    BY <2>1, CampaignData
<1>3. QED
  BY <1>1, <1>2, PricesAreTheSellers

\* Every package is an option of a product of the list, and no bookable price of
\* that option is over the ceiling.
WithinCeiling(pkg, c) ==
    \E p \in ToSet(c) :
      LET offers == { o \in ToSet(p.options) : o.id = pkg.option /\ Buyable(o, Brief.currency) }
      IN  /\ p.id = pkg.product /\ offers # {}
          /\ \A o \in offers : Brief.maxCpm = NoCeiling \/ o.price.amount <= Brief.maxCpm

LEMMA PricedWithinCeiling ==
    ASSUME NEW c \in Lists, NEW pkg, AtSellerPrice(pkg, c, Brief.currency),
           Brief.maxCpm # NoCeiling => ~(pkg.cpm > Brief.maxCpm)
    PROVE  WithinCeiling(pkg, c)
<1> DEFINE j == ProductIndex(c, pkg.product)
           p == c[j]
           prices == BookablePrices(p, pkg.option, Brief.currency)
           offers == { o \in ToSet(p.options) : o.id = pkg.option /\ Buyable(o, Brief.currency) }
<1>1. IsCatalog(c)
  BY ListsAreCatalogs
<1>2. j # 0 /\ prices # {} /\ pkg.cpm = AuthoritativeCpm(p, pkg.option, Brief.currency)
  BY DEF AtSellerPrice, Resolvable
<1>3. p \in ToSet(c) /\ p.id = pkg.product
  BY <1>1, <1>2, IndexedProduct
<1>4. prices = { o.price.amount : o \in offers }
  BY DEF BookablePrices
<1>5. \A x \in prices : x \in Int /\ x <= pkg.cpm
  BY <1>1, <1>2, <1>3, WorstPrice
<1>6. pkg.cpm \in Int
  BY <1>1, <1>2, <1>3, <1>5, WorstPrice
<1> HIDE DEF j, prices, offers
<1>7. ASSUME NEW o \in offers
      PROVE  Brief.maxCpm = NoCeiling \/ o.price.amount <= Brief.maxCpm
  <2>1. o.price.amount \in Int /\ o.price.amount <= pkg.cpm
    BY <1>4, <1>5
  <2>2. Brief.maxCpm = NoCeiling \/ Brief.maxCpm \in Int
    BY CampaignData DEF IsBrief
  <2>3. QED
    BY <1>6, <2>1, <2>2
<1>8. offers # {}
  BY <1>2, <1>4
<1>9. QED
  BY <1>3, <1>7, <1>8 DEF WithinCeiling, offers

LEMMA PackagesCost ==
    ASSUME NEW p, IsPlan(p)
    PROVE  TotalBudget(Packages(p)) = TotalBudget(p) /\ TotalBudget(p) \in Int
<1> DEFINE n == Len(p)
           q == Packages(p)
<1>1. n \in Nat /\ DOMAIN p = 1 .. n /\ \A i \in 1 .. n : p[i].budget \in Int
  BY DEF IsPlan, IsSequence, IsPackage, ToSet
<1>2. DOMAIN q = 1 .. n /\ \A i \in 1 .. n : q[i].budget = p[i].budget
  BY <1>1 DEF Packages
<1> HIDE DEF n, q
<1>3. TotalBudget(p) = TotalBudget(q)
  BY <1>1, <1>2, SameTotal
<1>4. TotalBudget(p) \in Int
  <2>1. PICK f : Sums(f, n, p)
    BY <1>1, TotalAsLoop
  <2>2. CASE n = 0
    BY <2>1, <2>2 DEF Sums
  <2>3. CASE n # 0
    <3>1. n \in 1 .. n
      BY <1>1, <2>3
    <3>2. QED
      BY <1>1, <2>1, <3>1 DEF Sums
  <2>4. QED
    BY <2>2, <2>3
<1>5. QED
  BY <1>3, <1>4 DEF q

\* Whatever an LLM proposes and whatever the seller lists, no buy is begun whose
\* total is over the budget, or with an option one of whose bookable prices is
\* over the ceiling (guard.py:3-7, 37-40): it is re-priced before it is vetted.
THEOREM NoBuyExceedsTheBrief == Spec => []BuysWithinBrief
<1>1. ASSUME RunInv PROVE BuysWithinBrief
  <2>1. SUFFICES ASSUME NEW q \in Begun
                 PROVE  /\ TotalBudget(q.packages) <= Brief.budget
                        /\ \A pkg \in ToSet(q.packages) : \E c \in seen : WithinCeiling(pkg, c)
    BY DEF BuysWithinBrief, WithinCeiling
  <2>2. Gated(q)
    BY <1>1 DEF RunInv, BuysGated
  <2>3. PICK c \in seen : \E a \in Accounts : \E p \in PlansFor[c] :
          ~Refuses(p, Brief) /\ q = RequestOf(p, a)
    BY <2>2 DEF Gated
  <2>4. PICK a \in Accounts, p \in PlansFor[c] : ~Refuses(p, Brief) /\ q = RequestOf(p, a)
    BY <2>3
  <2>5. c \in Lists /\ q.packages = Packages(p)
    BY <1>1, <2>4 DEF RunInv, RunTyped, RequestOf
  <2>6. IsPlan(p) /\ \A i \in DOMAIN p : AtSellerPrice(p[i], c, Brief.currency)
    BY <2>5, PlansArePriced
  <2>7. TotalBudget(q.packages) <= Brief.budget
    <3>1. TotalBudget(q.packages) = TotalBudget(p) /\ TotalBudget(p) \in Int
      BY <2>5, <2>6, PackagesCost
    <3>2. ~(TotalBudget(p) > Brief.budget) /\ Brief.budget \in Int
      BY <2>4, CampaignData DEF Refuses, OverBudget, IsBrief
    <3>3. QED
      BY <3>1, <3>2
  <2>8. ASSUME NEW pkg \in ToSet(q.packages)
        PROVE  WithinCeiling(pkg, c)
    <3>1. PICK i \in DOMAIN p : pkg.product = p[i].product /\ pkg.option = p[i].option
      BY <2>5 DEF Packages, ToSet
    <3>2. Brief.maxCpm # NoCeiling => ~(p[i].cpm > Brief.maxCpm)
      BY <2>4 DEF Refuses, OverCpm
    <3>3. WithinCeiling(p[i], c)
      BY <2>5, <2>6, <3>2, PricedWithinCeiling
    <3>4. QED
      BY <3>1, <3>3 DEF WithinCeiling
  <2>9. QED
    BY <2>7, <2>8
<1>2. QED
  BY <1>1, RunsHold, PTL

-----------------------------------------------------------------------------
(* Running a campaign again. *)

\* The shop does not change under the campaign: its plans that buy anything ask
\* for the same packages, and there is one account.
NoDrift ==
    /\ \A p, s \in Planned : p # << >> /\ s # << >> => Packages(p) = Packages(s)
    /\ \A a, b \in Accounts : a = b

\* A campaign run again is the same request, hence the same buy, if neither the
\* plan nor the account changed.
THEOREM CampaignsBookOnce ==
    ASSUME NoDrift
    PROVE  Spec => []BookedOnce
<1>1. RunInv => BookedOnce
  <2>1. SUFFICES ASSUME RunInv, NEW q \in booked, NEW r \in booked
                 PROVE  q = r
    BY DEF BookedOnce
  <2>2. Gated(q) /\ Gated(r)
    BY <2>1 DEF RunInv, BuysGated
  <2>3. ASSUME NEW x, Gated(x)
        PROVE  \E p \in Planned, a \in Accounts : p # << >> /\ x = RequestOf(p, a)
    <3>1. \A c \in seen : PlansFor[c] \subseteq Planned
      BY <2>1 DEF Planned, RunInv, RunTyped
    <3>2. QED
      BY <2>3, <3>1 DEF Gated
  <2>4. PICK p \in Planned, a \in Accounts : p # << >> /\ q = RequestOf(p, a)
    BY <2>2, <2>3
  <2>5. PICK s \in Planned, b \in Accounts : s # << >> /\ r = RequestOf(s, b)
    BY <2>2, <2>3
  <2>6. Packages(p) = Packages(s) /\ a = b
    BY <2>4, <2>5 DEF NoDrift
  <2>7. QED
    BY <2>4, <2>5, <2>6 DEF RequestOf
<1>2. QED
  BY <1>1, RunsHold, PTL

-----------------------------------------------------------------------------
(* What a run reports.                                                     *)

\* What a gateway gives in place of the seller's answer is never a JSON object
\* under a 2xx status.
NothingForged == \A r \in Faults : r.status \notin 200..299 \/ r.kind # "object"

\* A recorded success names the booking of its request.
AnswersTrue ==
    \A q \in Requests : answers[q] # NoResult /\ IsSuccess(answers[q]) =>
        q \in booked /\ answers[q].media_buy_id = q

ReportInv == RunInv /\ pending = {} /\ AnswersTrue /\ BoughtMeansBooked

LEMMA ReportInit == Init => ReportInv
BY RunInit DEF Init, Buy!Init, ReportInv, AnswersTrue, BoughtMeansBooked

\* A step that ends no run as bought and takes back no booking.
LEMMA ReportsStay ==
    ASSUME BoughtMeansBooked, booked \subseteq booked',
           result' = result \/ result' = NoResult \/ result'.status # "bought"
    PROVE  BoughtMeansBooked'
BY DEF BoughtMeansBooked

\* An answer that is a success is the seller's, and names the booking.
LEMMA AnsweredTruly ==
    ASSUME NothingForged, ReportInv, NEW q \in Requests, Answered(q)
    PROVE  AnswersTrue'
<1>1. PICK r \in {SellerSays(q)} \cup Faults :
         /\ answers' = [answers EXCEPT ![q] = RestExchange(r)]
         /\ UNCHANGED booked
  BY DEF Answered, Buy!Settle
<1>2. DOMAIN answers = Requests
  BY DEF ReportInv, RunInv, BuysTyped
<1>3. ASSUME IsSuccess(RestExchange(r))
      PROVE  q \in booked /\ RestExchange(r).media_buy_id = q
  <2>1. r.status \in 200..299 /\ r.kind = "object"
    BY <1>3 DEF IsSuccess, IsError, HttpFailed, RestExchange
  <2>2. r = SellerSays(q)
    BY <2>1 DEF NothingForged
  <2>3. q \in booked
    BY <2>1, <2>2 DEF SellerSays, Response, ReportInv
  <2>4. r = Response(200, "object", q)
    BY <2>2, <2>3 DEF SellerSays
  <2>5. QED
    BY <2>3, <2>4 DEF RestExchange, Response
<1>4. SUFFICES ASSUME NEW s \in Requests, answers'[s] # NoResult, IsSuccess(answers'[s])
               PROVE  s \in booked /\ answers'[s].media_buy_id = s
  BY <1>1 DEF AnswersTrue, IsSuccess, IsError, HttpFailed
<1>5. CASE s = q
  BY <1>1, <1>2, <1>3, <1>4, <1>5
<1>6. CASE s # q
  BY <1>1, <1>2, <1>4, <1>6 DEF ReportInv, AnswersTrue
<1>7. QED
  BY <1>5, <1>6

LEMMA ReportStep ==
    ASSUME NothingForged, ~ManualApproval, ReportInv, [Next]_vars
    PROVE  ReportInv'
<1>1. RunInv'
  BY RunStep DEF ReportInv
<1>2. CASE Finish
  <2>1. /\ pc = "wait" /\ request \in Requests /\ answers[request] # NoResult
        /\ UNCHANGED << answers, booked, pending >>
    BY <1>2 DEF Finish, buyVars, ReportInv, RunInv, RunTyped
  <2>2. AnswersTrue'
    BY <2>1 DEF ReportInv, AnswersTrue
  <2>3. CASE IsError(answers[request]) \/ IsIndeterminate(answers[request])
    <3>1. result'.status # "bought"
      BY <1>2, <2>3 DEF Finish, Report
    <3>2. QED
      BY <1>1, <2>1, <2>2, <3>1, ReportsStay DEF ReportInv
  <2>4. CASE ~(IsError(answers[request]) \/ IsIndeterminate(answers[request]))
    <3>1. IsSuccess(answers[request])
      BY <2>4 DEF IsIndeterminate
    <3>2. request \in booked /\ answers[request].media_buy_id = request
      BY <2>1, <3>1 DEF ReportInv, AnswersTrue
    <3>3. result' = Report("bought", answers[request].media_buy_id)
      BY <1>2, <2>4 DEF Finish
    <3>4. result'.request \in booked' /\ result'.media_buy_id = result'.request
      BY <2>1, <3>2, <3>3 DEF Report
    <3>5. QED
      BY <1>1, <2>1, <2>2, <3>4 DEF ReportInv, BoughtMeansBooked
  <2>5. QED
    BY <2>3, <2>4
<1>3. ASSUME NEW q \in Requests, Answered(q)
      PROVE  ReportInv'
  <2>1. UNCHANGED << result, booked, pending >>
    BY <1>3 DEF Answered, Buy!Settle, runVars
  <2>2. QED
    BY <1>1, <1>3, <2>1, AnsweredTruly, ReportsStay DEF ReportInv
<1>4. ASSUME booked \subseteq booked', UNCHANGED answers, pending' \subseteq pending,
             result' = result \/ result' = NoResult \/ result'.status # "bought"
      PROVE  ReportInv'
  <2>1. AnswersTrue'
    BY <1>4 DEF ReportInv, AnswersTrue
  <2>2. QED
    BY <1>1, <1>4, <2>1, ReportsStay DEF ReportInv
<1>5. CASE Discover \/ DiscoverRaises \/ MakePlan \/ Gate \/ EnsureAccount
  BY <1>4, <1>5 DEF Discover, DiscoverRaises, MakePlan, Gate, EnsureAccount, Report, buyVars
<1>6. CASE CreateBuy
  BY <1>4, <1>6 DEF CreateBuy, Report, Buy!Begin
<1>7. ASSUME NEW q \in Requests, Post(q) \/ AttemptFails(q) \/ SellerBooks(q)
      PROVE  ReportInv'
  BY <1>4, <1>7 DEF Post, AttemptFails, SellerBooks, runVars, Report,
                    Buy!Contact, Buy!Fail, Buy!Book
<1>8. ASSUME NEW q \in Requests, SellerHolds(q) \/ SellerDeclines(q)
      PROVE  ReportInv'
  BY <1>4, <1>8 DEF SellerHolds, SellerDeclines, runVars
<1>9. CASE Reprice \/ Crash \/ UNCHANGED vars
  BY <1>4, <1>9 DEF Reprice, Crash, vars, runVars, buyVars
<1>10. QED
  BY <1>2, <1>3, <1>5, <1>6, <1>7, <1>8, <1>9 DEF Next

\* A campaign reported as bought is booked under the id it reports, if the
\* seller decides at once and no gateway forges bookings.
THEOREM BoughtIsBooked ==
    ASSUME NothingForged, ~ManualApproval
    PROVE  Spec => []BoughtMeansBooked
<1>1. ReportInv /\ [Next]_vars => ReportInv'
  BY ReportStep
<1>2. ReportInv => BoughtMeansBooked
  BY DEF ReportInv
<1>3. QED
  BY <1>1, <1>2, ReportInit, PTL DEF Spec
=============================================================================
