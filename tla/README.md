# A specification of the AdCP buyer agent

These modules specify the buyer agent under `src/adcp_buyer`: how it plans a
campaign within a brief, vets the plan, places the media buy durably, waits for
it and follows its delivery, over three wires. TLC checks them on small
instances (the `.cfg` files); TLAPS proves theorems about each
part for every value of the constants: every safety property the passing runs
check is also a theorem.
`PROJECT.json` maps each definition to the lines it models.

## The system

| component | source | state | operations |
|---|---|---|---|
| durable executor | `buyer/executor.py` | none of its own: the DBOS rows of the attempts, in Postgres | `create_media_buy`, `_next_workflow_id`, the workflow and its step |
| idempotency keys | `core/idempotency.py` | none | `jcs_key`, `validate_key` |
| DBOS wiring | `buyer/dbos_app.py` | the transport singleton, the launched DBOS | `init_dbos` |
| exchange | `core/result.py` | one immutable record per answer | `is_error`, `is_success`, `is_indeterminate` |
| wires | `core/transports/{rest,mcp,a2a}.py` | HTTP client; MCP: session, rpc ids | `call` |
| campaign | `buyer/campaign.py` | locals of one run | `run_campaign`, `ensure_account` |
| planner | `buyer/planner.py` | none | `deterministic_plan`, `llm_plan`, `plan_campaign` |
| money guard | `buyer/guard.py`, `buyer/pricing.py` | none | `buyable_price`, `resolve_plan_pricing`, `enforce_spend_ceiling` |
| monitor | `buyer/monitor.py` | DBOS rows of its workflows | `await_active`, `await_completion`, `monitor_delivery` |
| webhook sink | `buyer/sink.py` | none | `receive`, `_wake_workflow` |

How they interact: `run_campaign` calls the seller through the REST wire
(`get_products`, `sync_accounts`), calls the planner and the guard as functions,
and calls `create_media_buy`. That call reads the status of earlier attempts
from DBOS, then starts or joins a workflow. The workflow's step POSTs to the
seller under the wire key; DBOS checkpoints what the step returns and, when the
process is launched again, runs unfinished workflows again. The seller dedupes
on the wire key. The monitor's workflows poll the seller and can be woken by the
sink, which sends to a workflow through the DBOS database.

What is hard:

- *The executor.* The status of an attempt is read before the workflow is
  invoked, so callers race; a crash may fall between POST, checkpoint and final
  status; a POST whose answer was lost may book later; step retries, attempts
  and recoveries multiply. The wire key must stay, the workflow id must move on,
  and each only when it should.
- *What an answer means.* Success, error and indeterminate must be told apart on
  a path with proxies in it, and must still mean that when read from a checkpoint.
- *Money.* A plan comes from an LLM or from a rounding allocator; what reaches
  the seller must stay within the brief on every path.
- *Re-running.* A run is not durable, its buy is.
- *Sessions and streams.* The MCP client keeps a session from call to call, in
  an auth posture, and streams carry frames of other requests.
- *The rendezvous.* A webhook races a timeout, polls are replayed after a crash,
  and what a poll returns may not show the buy at all.

`PROJECT.json` lists these as hazards, each at its line, with the properties
that cover it or the reason why none does.

## The modules

| module | models | role |
|---|---|---|
| `Exchange` | `core/result.py`, the classification in `rest.py` | operators |
| `Wires` | `rest.py`, `mcp.py`, `a2a.py`: calls, sessions, answers and their reading, with `Exchange` | state machine |
| `WiresProofs` | | theorems about the sessions and streams of `Wires`, and what an answer is read as |
| `DurableBuy` | executor, keys, DBOS, the REST call, the seller | state machine |
| `BuyOnce` | what the executor promises | abstract specification |
| `DurableBuyProofs` | | theorems about the attempts of `DurableBuy` |
| `BookingProofs` | | theorems about its bookings, answers and POSTs |
| `BuyOnceProofs` | | that `DurableBuy` implements `BuyOnce` |
| `Pricing` | pricing, guard | operators |
| `Planner` | `deterministic_plan` | operators |
| `Planning` | the planner at work on some brief and catalog | state machine |
| `PricingProofs` | | what the operators of `Pricing` and `Planner` compute |
| `PlannerProofs` | | theorems about `Planning` |
| `Campaign` | `run_campaign`, with `Planner`, `Pricing`, `Exchange` and `BuyOnce` | state machine |
| `CampaignProofs` | | theorems about `Campaign` |
| `Rendezvous` | monitor, webhook sink, DBOS messages, steps and recovery, the seller | state machine |
| `RendezvousProofs` | | theorems about `Rendezvous` |
| `MCDurableBuy`, `MCPlanner`, `MCCampaign`, `MCRendezvous` | | instances for TLC |

### DurableBuy

State in three groups, by what survives a crash. Of the buyer process: where each
caller is (`pc`, `req`, `att`, `wf`, `outcome`, `answer`), and what the executor
does with each workflow (`exec`, `tries`, `waiting`, `reply`). Of the DBOS
database: `status`, `body` (the workflow's input) and `saved` (the checkpoint of
its one step). Outside: POSTs on their way (`net`), POSTs sent (`sent`) and the
seller's bookings (`ledger`). `known` and `blind` are history variables that no
action reads.

| action | code |
|---|---|
| `StartCall`, `RefuseKey` | `create_media_buy` up to the lookup; `validate_key` raising |
| `Lookup`, `LookupFails`, `GiveUp` | one iteration of `_next_workflow_id`; its `except`; its `raise` |
| `Invoke`, `Return` | calling the workflow under `SetWorkflowID`; its result or error |
| `Post`, `ConnectFails`, `Timeout`, `Checkpoint` | the step: the POST, a try that raises, the recorded result |
| `Finish` | the workflow returning or raising |
| `SellerBooks`, `SellerRejects`, `SellerReplays` | the seller, as the code uses it |
| `Crash`, `Restart` | the process dying; `init_dbos` and DBOS recovery |

Each iteration of the lookup is a step of its own, so statuses may change
between them and before `Invoke`. A POST stays in `net` after its step stopped
waiting, and the seller may take it at any time.

A key is a sequence of the parts between colons, which is as much of it as the
attempt suffix depends on. A request body is a plan and a key; `Canon` gives the
canonical form of a plan, so that two plans may differ in a field the hash
excludes.

DBOS is modelled from how the executor uses it: an id is inserted once and later
calls attach to it; a step is retried `max_attempts` times within one execution;
a finished step is not run again; unfinished workflows are run again when the
process is launched. Statuses other than pending, success and error are left
out: nothing in the repository cancels or enqueues a workflow, and the limit on
recoveries DBOS has is far above the crashes considered.

### BuyOnce

The executor's promise without callers, workflows, checkpoints or messages: per
wire key, attempts follow one another; only the one under way contacts the
seller; the seller books at most once and only after it was contacted; the first
attempt that ends with an answer is the last. `DurableBuy` maps to it through
`Phase`, `Failed`, `sent` and `ledger`, and `BuysOnce` is checked as a property
and proved. `Campaign` uses the actions of `BuyOnce` for its durable buy, so what
is said there rests on what the executor is shown to implement.

### Pricing and Planner

Operators over amounts in tenths of a cent, the coarsest unit in which a budget
may be less than a cent off. The code divides, rounds and adds binary floats, and
there are two places where that decides. A share or a drift half-way between two
cents is rounded to the side its float lies on: `round(0.05 / 2, 2)` is 0.03 and
`round(0.29 / 2, 2)` is 0.14. And budgets that add up to the brief's may have a
float sum above it: `2.2 + 2.2 + 2.2` is 6.6000000000000005. What happens there is
given by constant operators, `ShareTieUp`, `DriftTieUp` and `SumsAbove`; the theorems
assume nothing about them, and `MCPlanner` gives them the values CPython 3.12 has for
the budgets of its run. Elsewhere the error of a float is far below the unit and
changes no comparison. A score is a number given with the product. `IsCatalog`, `IsPlan`
and `IsBrief` say what the code takes and passes on: the two pydantic models, and
lists whose amounts are numbers and whose minimum spends are not below zero. The
loop of `_allocate` is a recursive function of its turns, and the order `sort` gives
is stated by the rank of each candidate.

`Planning` makes one plan of some brief and catalog; its properties compare the plan
with the brief, with every other choice of packages, and with the guard. Planner and
guard differ on purpose where a seller lists an option id twice: the planner takes the
cheapest listing, the guard the worst price (`guard.py:37-41`). `GuardOnlyCorrects`
says that this and the two float cases are all that can come between them.

### Campaign

One run at a time, by any number of calls. `Discover`, `MakePlan`, `Gate`,
`EnsureAccount`, `CreateBuy` and `Finish` are the body of `run_campaign` in
order; exceptions end the run as `raised`, those of planning too, which reads fields a
listed product may lack (`planner.py:42`) and validates its numbers. A crash loses the run and keeps the
buy. The seller may publish another list at any time, hold a buy for approval
and book late. A request carries account, start, options and budgets, as
`_to_request` builds it, and stands for its key, which is its hash. An LLM
planner is a set of plans (`Proposals`), good and bad.

### Wires

One client per wire makes calls one after another. State: the call under way
(`pc`, `wire`, `authed`, `rid`, what came back in `resp`, what was read from it in
`reading`), the MCP client's `session`, `posture` and `lastId`, and outside:
requests on their way (`net`), what the seller did with each call (`did`), the
sessions it minted and still knows, and the MCP frames it may still send (`owed`).

| action | code |
|---|---|
| `StartCall`, `RefuseRequest` | `call` being entered, the session reused or not; a REST request that cannot be built |
| `Initialize`, `Notify` | the two POSTs of `_ensure_session`, each of which may raise |
| `Send`, `TimeOut` | the POST of the operation; its exception |
| `Read` | the answer being classified, the session of a failed one dropped |
| `SellerActs`, `SellerRefuses`, `Forget` | the seller carrying out, refusing, forgetting |
| `GatewayAnswers` | a proxy, a page, a redirect |

A call is known by its number, and a payload names the call it answers: that is
the identity `AnswerIsOwn` needs, and all of a payload that matters. An answer is
what the readers tell apart: frames with an id and a kind, tasks with the data
of their artifacts, or no such thing. `ReadingOf` reads it by the wire's own
rules, and `OutcomeIsRead` compares the three by what the seller did. They agree on
what was done and what failed, and part on a buy held for approval: A2A cannot
classify it (`a2a.py:105-122`), REST and MCP read a success that names no buy. The MCP and
A2A clients follow redirects, so theirs end at a page; REST reports them. A gateway
that answers a REST call with a 2xx JSON object (`"okJson"`) is taken for the seller
by `rest.py:133` and `result.py:60`; the model has it, the run leaves it out and the
theorem that depends on it says so.

### Rendezvous

One buy after it was booked. State, by what survives a crash: what the buyer
process executes (`running`) and holds of each loop (`kept`, `tries`, `got`); the
DBOS rows, checkpointed polls (`recs`), the mailbox and the outcome of `recv`;
the seller's status and impressions. `hooks` and `posted` are history variables.

| action | code |
|---|---|
| `Start` | starting `await_completion` or `monitor_delivery` |
| `Recv`, `Resolve` | `DBOS.recv`; what `await_completion` does with its outcome, the child `await_active` included |
| `Ask`, `Checkpoint` | `_poll_delivery` and its retries; DBOS recording its answer |
| `Summarise`, `Finish` | `delivery_summary` of the next answer, fresh or replayed; the loop's return |
| `Receive` | `receive` in the sink and the send, which may fail |
| `Advance` | the seller's side |
| `Crash`, `Restart` | the process dying; `init_dbos` and DBOS recovery |

A recovered loop starts over and takes its checkpointed polls one by one before
it asks again; that is how DBOS replays steps, and `SnapshotsCountedOnce` and
`StopsAtFirstLive` depend on it. A status is its place in the buy's life, so that
"earlier" has a meaning. `Webhooks` contains one that is no JSON, which the sink
hands on as `{}`. The sink swallows every exception of its send and answers 200
(`sink.py:42-43`), so a webhook may be lost for good, also one whose workflow waits; the
workflow then goes on by polling, which `WorkflowsEnd` covers. `WebhookWakesWaiter` speaks
of the webhooks whose send does not fail.

## The runs

| run | instance | properties |
|---|---|---|
| `retries` | 1 caller, 2 calls, a plan, the plan with a rotated credential and a malformed key, 2 attempts of 2 tries, four gateway faults, 1 crash | `TypeOK`, `SuccessIsOwnBooking`, `OneBuyPerPlan`, `PostsBounded`, `SettledStaysSettled`, `CallsEnd`, `RunsEnd` |
| `callers` | 2 callers, 2 calls each, a supplied key, 2 attempts of 1 try, failing queries, 1 crash | `AttemptsInOrder`, `FreshFailure`, `GivesUpLast`, `BuysOnce` |
| `planner` | every catalog of 3 products over 13 option lists, one of which lists an option id at two prices, 2 scores, budgets of 5, 7.5, 29 and 660 cents, with and without a ceiling, at most 2 or 3 packages | `SpendsBudgetAboveMinimums`, `KeepsMostPackages`, `GuardOnlyCorrects` |
| `campaign_brief` | two lists the seller switches between, four LLM plans, manual approval, 2 runs, 1 crash | `BuysWithinBrief` |
| `campaign_rerun` | 3 runs, 1 crash, gateway faults | `BookedOnce`, `BoughtMeansBooked`, `RunEnds` |
| `wires` | 3 calls over any wire in any posture, five gateway answers, 1 forgotten session | `TypeOK`, `SuccessIsDone`, `AnswerIsOwn`, `OutcomeIsRead`, `NoBorrowedSession`, `RefusedIsDropped` |
| `rendezvous` | either loop with 3 polls of 2 tries, a buy of 3 statuses, 2 webhooks, lost or sent on, 2 crashes | `TypeOK`, `SnapshotsCountedOnce`, `FollowsTheBuy`, `StopsAtFirstLive`, `WebhookWakesWaiter`, `WorkflowsEnd` |

What the properties say is stated above each in the modules. In `retries` the
second call attaches to a workflow that a crashed process left behind, which is
where `CallsEnd` needs recovery. `SuccessIsOwnBooking` relates what a caller is told to what the seller holds.
`SettledStaysSettled` is an action property about what is recorded.
`KeepsMostPackages` compares the allocator's drop loop with all choices of
packages it could have made, given a budget of n³ cents for n products: with less,
the rounding of a share can cost more than a package less gains. (At 22 cents
four shares are 6, 6, 6 and 4 cents; at eight packages and 60 cents a package is
dropped that need not be.)

Why the bounds are enough: two attempts are the least with an order between them
and make the limit reachable; two callers race; two calls of one caller have one
attempt on record before the other begins; one crash can fall at every point of
every step, and a second adds no new combination of surviving state, since what
survives (`status`, `saved`, `net`, `ledger`) is already in every reachable
combination after the first. Two tries are the least with a retry. Three
products make the allocator drop twice; of the budgets, 5 cents have a share and 7.5
a drift half-way between two cents, 29 need packages to be dropped, and both 29 and
660 have shares whose float sum is above them. `MaxAttempts` and `StepTries` are 25 and
3 in the code. On the wires, three calls are a first one, one
that reuses or replaces its session, and one that would meet what both left
behind: a late frame, a refused session, a half-done handshake. In `Rendezvous`
three polls leave one before and one after the poll at which a crash falls, two
crashes interrupt also the replay after the first, and two webhooks are a first
one and a later or duplicate one. `MaxStarts` is 1: `await_completion` and
`monitor_delivery` share nothing but the seller, so each is run by itself; the
theorems hold for both at once. Bounds are in the guards: `MaxCalls`,
`MaxCrashes` in `DurableBuy`, `MaxRuns`, `MaxPosts`, `MaxCrashes` in `Campaign`,
`MaxCalls`, `MaxForgets` in `Wires`, `MaxStarts`, `MaxShown`, `MaxWebhooks`,
`MaxCrashes` in `Rendezvous`. When they are used up the system stops,
which is why deadlock is not checked.

Fairness. In `DurableBuy` each caller goes on with its call, each running
workflow goes on, and a crashed process is started again: the code has no lock
or queue a call could wait at, and the HTTP client has a timeout, so a step ends
also without an answer. The seller gets no fairness, and nobody has to call.
In `Campaign` the run goes on and the attempt it waits for is answered or
fails, which is `RunsEnd` of the executor. In `Rendezvous` the workflows DBOS
executes go on, `recv` times out and a crashed buyer is started again; webhooks
need never come and the seller need never advance. `Wires` has no liveness: a
call ends when the HTTP client's timeout says so.

## What the code does otherwise

Each of these runs finds the named property violated; `PROJECT.json` quotes the
lines that state it.

| run | finding |
|---|---|
| `recorded_failure` | any HTTP answer ends the workflow as a success: an error or an unreadable answer is returned from the record ever after, and nobody is contacted |
| `suffixed_keys` | the supplied key `K:2` is the id of the second attempt of `K`: two buys become one |
| `campaign_submitted` | over REST, a buy held for approval is reported as bought |
| `campaign_discovery` | the outcome of discovery does not decide whether its products are used |
| `sink_database` | a buyer with a database of its own is never woken: the sink sends to the default one |

One more is known and has no run of its own: "the total never exceeds budget"
(`planner.py:54`) does not hold of what the code computes. A budget with a fraction of a
cent may be planned for more than it is, 100.006 as 100.01, since the drift is rounded to
cents too (`planner.py:64`). And a budget in whole cents may be split into shares whose
float sum is above it: 6.60 in three is 6.6000000000000005, 0.29 in two or three is
0.29000000000000004, and the drift rounds to nothing. The ceiling then refuses the plan
the planner made for that very budget (`guard.py:126`), although "at-or-under is allowed"
(`guard.py:96`). `SpendsBudgetAboveMinimums` states what holds of any budget: the shares
add up to at most half a cent from it. `GuardOnlyCorrects` lists the refusal among the
ones there are, and `planner` reaches it.

A comment is imprecise without consequence: when a status query fails,
`_next_workflow_id` returns the id of the attempt at hand, not "the bare key"
(`executor.py:69` and `:86`). `LookupFails` models what it does, and
`AttemptsInOrder` holds with it.

## What is proved

`DurableBuyProofs`, for any sets of callers, plans, keys, requests and faults
and any bounds that satisfy `BoundsAssumption` and `RequestAssumption`:

| theorem | property |
|---|---|
| `TypeCorrect` | `TypeOK` |
| `FailuresAreFresh` | `FreshFailure` |
| `GivingUpIsLast` | `GivesUpLast` |
| `AttemptsAreOrdered` | `AttemptsInOrder` |
| `FlightsAreSingle` | `SingleFlight` |
| `SettledIsFinal` | `SettledStaysSettled` |

The last three assume `SuffixFree`: no two attempts have one workflow id. It
holds of hashes, which have no colon, and fails for some keys a caller may
supply; the run `suffixed_keys` shows what happens then.

The argument has three layers, each an inductive invariant on top of the last.

1. `TypeInv` adds to `TypeOK` that a call under way passed `validate_key` and has
   chosen its id before it invokes it, that only pending workflows are executed
   and that every recorded workflow has a body. Without the first, the id a call
   invokes need not be a workflow id.
2. `CallInv` carries what a caller learned: every attempt it stepped past is
   recorded as `ERROR`, and the id it settled on was not final when the call
   began unless it had succeeded or a query failed. It is preserved because a
   final status never changes (`FinalStays`), which is also why reading the
   statuses one at a time is sound. `FreshFailure` and `GivesUpLast` follow.
3. `OrderInv` says of a caller about to invoke an attempt that all earlier ones
   are `ERROR`; with `SuffixFree` a row is only inserted in order. `SingleFlight`
   follows, since of two attempts the earlier has failed, and from it
   `SettledStaysSettled`: a step only POSTs for a pending workflow, and a key
   with a success has none.

`BookingProofs` and `BuyOnceProofs`, on top of these:

| theorem | property | assumes |
|---|---|---|
| `PlansAreBookedOnce` | `OneBuyPerPlan` | |
| `SuccessesAreOwn` | `SuccessIsOwnBooking` | `SuffixFree`, `NothingForged`, `KeyNamesPlan` |
| `PostsAreBounded` | `PostsBounded` | `SuffixFree` |
| `ExecutorBuysOnce` | `BuysOnce` | `SuffixFree`, `NothingForged` |

`NothingForged` says that no gateway answers with a JSON object under 2xx: such
an answer is a booking to `is_success`, whoever wrote it. `KeyNamesPlan` says that
one key names one canonical plan, which derived keys do and the docstring asks of
supplied ones (`executor.py:111`).

- `LedgerInv`: the input of a recorded workflow is that of some request, a
  booking is one of a request, and no key has two. `OneBuyPerPlan` follows with
  the derivation of keys, without any hypothesis: it is the key that protects
  the money, not the order of attempts.
- `ReplyInv` follows an answer from the seller to the caller: as the `reply` that
  arrived, as the checkpoint `saved`, as the answer returned, it names the booking
  made for the workflow's input, and a booking is never taken back. That the
  input is also the caller's own request is where `KeyNamesPlan` comes in: a
  call attaches to whatever workflow has its id.
- `PostsInv` counts: a key whose first `n` attempts were begun was POSTed under at
  most `StepTries * (n + crashes)` times, with the tries the attempt under way
  still has in reserve. Without the reserve it would not be inductive, since a
  POST raises the count and nothing else.
- `OnceInv` adds that whoever has an answer has POSTed (`SentBefore`), which is
  what a step of `BuyOnce` needs to settle. Each action of `DurableBuy` is then
  one action of `BuyOnce` for one key, or a stutter.

`WiresProofs`, under `WiresAssumption`, for any number of
calls, forgotten sessions and gateway answers:

| theorem | property |
|---|---|
| `SessionsAreNotBorrowed` | `NoBorrowedSession` |
| `RefusedSessionsAreDropped` | `RefusedIsDropped` |
| `AnswersAreOwn` | `AnswerIsOwn` |
| `SuccessesAreDone` | `SuccessIsDone`, given `NothingForged` |
| `OutcomesAreRead` | `OutcomeIsRead` |
| `WiresTyped` | `TypeOK` |

`SessionInv` says that a session the client holds was minted in the posture it
remembers and never met a failure, and that past the handshake this posture is
the call's own. The property alone is not inductive: nothing in it says that the
session about to be sent is one of these. `AnswerInv` says that ids are used
once: no request and no owed frame has an id the client has yet to use, and a
frame under the id of the call under way carries that call. It is why a late
frame cannot be taken for the answer.

`DoneInv` says that a call is sent once and answered once by the seller: a
request still on its way has no frame owed, and a response has at most one frame
under the call's id (`SentOnce`, `OneFrame`). Hence what was read stays backed:
after a success nothing is on its way that could change what the seller did
(`Backed`). `NothingForged` is again that no gateway answers a REST call with a JSON
object under 2xx; MCP and A2A need no such hypothesis, since the JSON
of a gateway has neither the call's id nor artifacts. The type of a reading needs these invariants too, since it names a
call.

`RendezvousProofs`, under `RendezvousAssumption`, for any polls, tries, crashes
and webhooks:

| theorem | property |
|---|---|
| `TypesHold` | `TypeOK` |
| `PollsAreCountedOnce` | `SnapshotsCountedOnce` |
| `ActiveStopsAtFirstLive` | `StopsAtFirstLive` |
| `SnapshotsFollowTheBuy` | `FollowsTheBuy` |
| `WebhooksWake` | `WebhookWakesWaiter`, given `SinkDatabase = BuyerDatabase` |

`CountInv` says that what a loop holds is the summaries of a prefix of its
checkpoints, and that an answer not yet checkpointed exists only when that
prefix is all of them and none of them stopped the loop; the last part is what a
crash in the middle of a replay would break. `FollowInv` orders the checkpoints
themselves, and the fresh answer after them, since snapshots are forgotten in a
crash and read again. `WebhookInv` relates the mailbox, the checkpoint of `recv`
and the workflow's row to `posted`, for the webhooks whose send does not fail.

`CampaignProofs`, under `CampaignAssumption`, for any brief, lists, proposals,
accounts, runs and crashes:

| theorem | property | assumes |
|---|---|---|
| `OnlyGatedBuys` | `BuysGated` | |
| `CampaignsBookOnce` | `BookedOnce` | `NoDrift` |
| `BoughtIsBooked` | `BoughtMeansBooked` | `NothingForged`, `~ManualApproval` |
| `NoBuyExceedsTheBrief` | `BuysWithinBrief` | |

`BuysGated` says that every buy begun or booked is of a plan of a published list
that the ceiling did not refuse. It is inductive only with what each stage of a
run has decided (`RunTyped`): the gate is some steps before the buy, and the
request does not carry the prices the gate looked at. `NoDrift` says that all
plans of the published lists that buy anything ask for the same packages and that
there is one account; the run `campaign_rerun` is such an instance. Without
manual approval a 2xx payload is a booking; with it `campaign_submitted` shows
otherwise. `ReportInv` says that a recorded success names the booking of its
request.

`NoBuyExceedsTheBrief` adds the money: a gated plan carries the guard's prices
(`PricesAreTheSellers`), the ceiling compared those and the sum of its budgets with
the brief, and the request asks for the same options and the same sum. It needs no
hypothesis about the planner: `CampaignData` only says that proposals are plans and
lists are lists.

`PricingProofs` and `PlannerProofs`, under `PlanningAssumption`, for any briefs and
catalogs of any length:

| theorem | property | assumes |
|---|---|---|
| `PricesAreTheSellers` | of `Resolve` | |
| `SharesAddUp` | of `Shares` | |
| `BudgetSpentAboveMinimums` | `SpendsBudgetAboveMinimums` | `ProductNamesUnique` |
| `GuardsOnlyCorrect` | `GuardOnlyCorrects` | `ProductNamesUnique` |
| `MostPackagesKept` | `KeepsMostPackages` | `WholeCents` |

`ProductNamesUnique` says that a catalog lists a product id once: `_allocate` looks
minimums up by product id and the guard looks products up by it, so of two with one id
another may decide. Option ids may repeat. `ShareTieUp`, `DriftTieUp` and `SumsAbove` may
be anything, so the theorems hold however floats are rounded and added up. `WholeCents` says that budgets are whole cents.

- These operators are loops: a sum, a filter, the turns of `_allocate`. A lemma
  (`TotalAsLoop`, `ResolveAsLoop`, `AllocateAsLoop`) gives each loop as a function with a
  first value and a value after each step, and `LoopInduction` carries what the loop
  keeps. It is itself proved from the well-foundedness of the natural numbers, as
  a statement about a set and a function, which the provers can instantiate.
- A turn drops one package or nothing (`RetryDrops`), so after as many turns as there
  are packages nobody is short (`TurnsSettle`, `NobodyIsShort`), and the shares of
  what is left add up to the budget.
- No package is dropped in vain because of a count: if a choice of k packages could
  each bear the least share of a split in k, there are always at least k such packages
  left (`AffordableStay`). One of them is dropped only while more than k packages are
  left. Then every package is one of them: the short ones are no dearer than the
  dropped one, and the others bear a share that is smaller still. So one less is
  still k. That shares grow as packages go (`SharesGrow`) is where n³ cents
  come in.
- Planner and guard agree since both price an option by `Buyable`: the planner takes the
  cheapest one (`CandidateFits`), and the guard's worst price of its id is that of a
  listing of the same id and no lower (`PlannedPrice`, `Restamped`).

Only model-checked: liveness (`CallsEnd`, `RunsEnd`, `RunEnds`, `WorkflowsEnd`), which is
out of the prover's reach.

## Not modelled

REST URL building, headers, logging and texts. The LLM itself. The SDK's
canonical hash, taken as injective on canonical forms. Two buyer processes on
one database, and the limit DBOS has on recoveries. A seller that forgets
bookings. Sleeps between polls, which only pass time, and how long anything
takes. A message sent to a workflow after its `recv`, which nothing reads, and a
webhook whose body is the JSON `null`, which is no message to `recv`. Spend in a
snapshot, which is read as impressions are. Several threads on one MCP client:
nothing in the repository shares one.

The scripts under `scripts/` are entry points and smoke probes without state;
the container file and the fuzzer, which the repository only plans, have nothing
to model.

## Plan

1. Done: executor, keys, exchange, guard, planner, campaign, wires, monitor and
   sink modelled and checked; every safety property of the passing runs proved; the
   refinement of `BuyOnce` proved.
2. Open: `MostPackagesKept` for budgets with a fraction of a cent, which no instance
   we tried refutes, and the least budget for which it holds. Two buyer processes on one database, which needs the claims DBOS makes
   on a workflow by executor id, and the repository fixes neither.
