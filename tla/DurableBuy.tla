----------------------------- MODULE DurableBuy -----------------------------
(***************************************************************************)
(* The durable create_media_buy of buyer/executor.py.                      *)
(*                                                                         *)
(* Callers run create_media_buy in one buyer process.  Each call picks the *)
(* id of an attempt by reading the status of earlier attempts one by one   *)
(* (_next_workflow_id) and then starts the workflow of that id or attaches *)
(* to it.  The workflow has one step, which POSTs the request to the       *)
(* seller and retries when the wire raises.  DBOS keeps the status of      *)
(* every attempt and the checkpoint of its step in Postgres; everything    *)
(* else dies with the process.                                             *)
(*                                                                         *)
(* The seller dedupes on the wire key, and a gateway in front of it may    *)
(* replace or swallow its answer.  A POST, once sent, may reach the seller *)
(* at any later time: after its timeout, after a crash, after a retry.     *)
(***************************************************************************)
EXTENDS Exchange, Sequences, FiniteSets

CONSTANTS
    Callers,        \* threads of the buyer that call create_media_buy
    Plans,          \* create_media_buy requests, as the caller holds them
    Canon,          \* [Plans -> canonical forms]: the fields the hash excludes removed
    Overrides,      \* idempotency keys callers supply
    KeyPattern,     \* the overrides that satisfy KEY_PATTERN
    NoKey,          \* idempotency_key=None
    Requests,       \* the calls: [plan, override]
    MaxAttempts,    \* MAX_ATTEMPTS (25 in the code)
    StepTries,      \* max_attempts of the step (3 in the code)
    Faults,         \* answers the gateway may give in place of the seller's
    NoReply,        \* no answer, no checkpoint
    StepFailed,     \* the checkpoint of a step that used up its tries
    MaxCalls,       \* bound: calls one caller makes
    MaxCrashes      \* bound: crashes of the buyer process

ASSUME BoundsAssumption ==
    /\ MaxAttempts \in Nat \ {0}
    /\ StepTries \in Nat \ {0}
    /\ MaxCalls \in Nat
    /\ MaxCrashes \in Nat

ASSUME RequestAssumption ==
    /\ Requests \subseteq [plan : Plans, override : Overrides \cup {NoKey}]
    /\ Requests # {}
    /\ KeyPattern \subseteq Overrides
    /\ NoKey \notin Overrides

-----------------------------------------------------------------------------
(* Keys and attempt ids.  A key is a sequence of the parts between colons. *)

\* Mutant: the hash covers the fields the seller excludes.
JcsKeyOfRaw(plan) == << plan >>

\* jcs_key over canonical_payload: equal for plans with equal canonical forms.
JcsKey(plan) == << Canon[plan] >>

\* The key of a call: the override if there is one, else the hash.
KeyOf(r) == IF r.override = NoKey THEN JcsKey(r.plan) ELSE r.override

\* validate_key is only applied to overrides.
Malformed(r) == r.override # NoKey /\ r.override \notin KeyPattern

\* _attempt_id: attempt 1 is the bare key, attempt n is "key:n".
AttemptId(key, n) == IF n = 1 THEN key ELSE Append(key, n)

Attempts == 1 .. MaxAttempts
Keys  == { KeyOf(r) : r \in {q \in Requests : ~Malformed(q)} }
WfIds == { AttemptId(k, n) : k \in Keys, n \in Attempts }

\* Two attempts never share a workflow id.  True of hashes and of overrides
\* that do not end in another key's attempt suffix; KEY_PATTERN does not
\* guarantee it.
SuffixFree ==
    \A k, l \in Keys : \A m, n \in Attempts :
        AttemptId(k, m) = AttemptId(l, n) => k = l /\ m = n

Bodies   == [plan : Plans, key : Keys]
Bookings == [key : Keys, canon : {Canon[p] : p \in Plans}]

-----------------------------------------------------------------------------
VARIABLES
    \* the buyer process (lost in a crash)
    up,         \* the process runs and DBOS is launched
    pc,         \* per caller: where its call is
    req,        \* per caller: the request it makes
    att,        \* per caller: the attempt its lookup is at
    wf,         \* per caller: the workflow id it settled on
    outcome,    \* per caller: how its last call ended
    answer,     \* per caller: the Exchange its last call returned
    exec,       \* per workflow: what the executor does with it
    tries,      \* per workflow: failed tries of its step
    waiting,    \* per workflow: the POST it awaits an answer to, 0 if none
    reply,      \* per workflow: the answer that arrived
    \* the DBOS system database (survives a crash)
    status,     \* per workflow: its status
    body,       \* per workflow: its input
    saved,      \* per workflow: the checkpoint of its step
    \* the wire and the seller
    sent,       \* per key: how many POSTs went out under it
    net,        \* POSTs on their way: <<workflow id, number>>
    ledger,     \* bookings the seller made
    \* bounds and history
    calls,      \* per caller: calls made
    crashes,    \* crashes so far
    known,      \* per caller: workflows with a final status when its call began
    blind       \* per caller: a status lookup of this call failed

callerVars == << pc, req, att, wf, outcome, answer, calls, known, blind >>
runVars    == << exec, tries, waiting, reply >>
dbosVars   == << status, body, saved >>
wireVars   == << sent, net, ledger >>
procVars   == << up, crashes >>
vars       == << callerVars, runVars, dbosVars, wireVars, procVars >>

NoBody == [plan |-> NoReply, key |-> NoReply]
Final  == {"SUCCESS", "ERROR"}

Init ==
    /\ up = TRUE
    /\ pc      = [c \in Callers |-> "idle"]
    /\ req     = [c \in Callers |-> CHOOSE r \in Requests : TRUE]
    /\ att     = [c \in Callers |-> 1]
    /\ wf      = [c \in Callers |-> NoReply]
    /\ outcome = [c \in Callers |-> "none"]
    /\ answer  = [c \in Callers |-> NoReply]
    /\ exec    = [w \in WfIds |-> "idle"]
    /\ tries   = [w \in WfIds |-> 0]
    /\ waiting = [w \in WfIds |-> 0]
    /\ reply   = [w \in WfIds |-> NoReply]
    /\ status  = [w \in WfIds |-> "ABSENT"]
    /\ body    = [w \in WfIds |-> NoBody]
    /\ saved   = [w \in WfIds |-> NoReply]
    /\ sent    = [k \in Keys |-> 0]
    /\ net     = {}
    /\ ledger  = {}
    /\ calls   = [c \in Callers |-> 0]
    /\ crashes = 0
    /\ known   = [c \in Callers |-> {}]
    /\ blind   = [c \in Callers |-> FALSE]

-----------------------------------------------------------------------------
(* create_media_buy, one call of one caller. *)

\* create_media_buy(plan, idempotency_key) up to the lookup.
StartCall(c) ==
    /\ up /\ pc[c] = "idle" /\ calls[c] < MaxCalls
    /\ \E r \in Requests :
         /\ ~Malformed(r)
         /\ req' = [req EXCEPT ![c] = r]
    /\ pc'      = [pc EXCEPT ![c] = "lookup"]
    /\ att'     = [att EXCEPT ![c] = 1]
    /\ outcome' = [outcome EXCEPT ![c] = "none"]
    /\ answer'  = [answer EXCEPT ![c] = NoReply]
    /\ wf'      = [wf EXCEPT ![c] = NoReply]
    /\ calls'   = [calls EXCEPT ![c] = @ + 1]
    /\ known'   = [known EXCEPT ![c] = {w \in WfIds : status[w] \in Final}]
    /\ blind'   = [blind EXCEPT ![c] = FALSE]
    /\ UNCHANGED << runVars, dbosVars, wireVars, procVars >>

\* validate_key raises InvalidIdempotencyKey before anything is read or sent.
RefuseKey(c) ==
    /\ up /\ pc[c] = "idle" /\ calls[c] < MaxCalls
    /\ \E r \in Requests :
         /\ Malformed(r)
         /\ req' = [req EXCEPT ![c] = r]
    /\ outcome' = [outcome EXCEPT ![c] = "invalidKey"]
    /\ answer'  = [answer EXCEPT ![c] = NoReply]
    /\ wf'      = [wf EXCEPT ![c] = NoReply]
    /\ calls'   = [calls EXCEPT ![c] = @ + 1]
    /\ UNCHANGED << pc, att, known, blind, runVars, dbosVars, wireVars, procVars >>

\* The lookup of caller c goes on past attempt att[c], or stops there.
StepPast(c, past) ==
    /\ pc[c] = "lookup" /\ att[c] \in Attempts
    /\ IF past
         THEN /\ att' = [att EXCEPT ![c] = @ + 1]
              /\ UNCHANGED << pc, wf >>
         ELSE /\ wf' = [wf EXCEPT ![c] = AttemptId(KeyOf(req[c]), att[c])]
              /\ pc' = [pc EXCEPT ![c] = "invoke"]
              /\ UNCHANGED att
    /\ UNCHANGED << req, outcome, answer, calls, known, blind,
                    runVars, dbosVars, wireVars, procVars >>

StatusAt(c) == status[AttemptId(KeyOf(req[c]), att[c])]

\* Mutants: past every attempt on record; past every ended one; past none.
LookupPastAny(c)   == StepPast(c, StatusAt(c) # "ABSENT")
LookupPastEnded(c) == StepPast(c, StatusAt(c) \in Final)
LookupBareKey(c)   == StepPast(c, FALSE)

\* One iteration of _next_workflow_id: an attempt that never ran, runs or
\* succeeded is the one to use; a failed one is stepped past.
Lookup(c) == StepPast(c, StatusAt(c) = "ERROR")

\* The status query raises: the id at hand is used as it is.
LookupFails(c) ==
    /\ pc[c] = "lookup" /\ att[c] \in Attempts
    /\ wf'    = [wf EXCEPT ![c] = AttemptId(KeyOf(req[c]), att[c])]
    /\ pc'    = [pc EXCEPT ![c] = "invoke"]
    /\ blind' = [blind EXCEPT ![c] = TRUE]
    /\ UNCHANGED << req, att, outcome, answer, calls, known,
                    runVars, dbosVars, wireVars, procVars >>

\* Mutant: the last attempt is not looked at.
GiveUpEarly(c) ==
    /\ pc[c] = "lookup" /\ att[c] >= MaxAttempts
    /\ pc'      = [pc EXCEPT ![c] = "idle"]
    /\ outcome' = [outcome EXCEPT ![c] = "gaveUp"]
    /\ UNCHANGED << req, att, wf, answer, calls, known, blind,
                    runVars, dbosVars, wireVars, procVars >>

\* Every attempt is recorded as ERROR: RuntimeError.
GiveUp(c) ==
    /\ pc[c] = "lookup" /\ att[c] > MaxAttempts
    /\ pc'      = [pc EXCEPT ![c] = "idle"]
    /\ outcome' = [outcome EXCEPT ![c] = "gaveUp"]
    /\ UNCHANGED << req, att, wf, answer, calls, known, blind,
                    runVars, dbosVars, wireVars, procVars >>

\* The workflow is called under SetWorkflowID.  DBOS inserts the row if the
\* id is new and this call executes it; else the call attaches to the row,
\* whose input stays that of the call that inserted it.
Invoke(c) ==
    LET w == wf[c]
    IN  /\ pc[c] = "invoke"
        /\ pc' = [pc EXCEPT ![c] = "wait"]
        /\ IF status[w] = "ABSENT"
             THEN /\ status' = [status EXCEPT ![w] = "PENDING"]
                  /\ body'   = [body EXCEPT ![w] =
                                  [plan |-> req[c].plan, key |-> KeyOf(req[c])]]
                  /\ exec'   = [exec EXCEPT ![w] = "run"]
             ELSE UNCHANGED << status, body, exec >>
        /\ UNCHANGED << req, att, wf, outcome, answer, calls, known, blind,
                        tries, waiting, reply, saved, wireVars, procVars >>

\* The workflow has a final status: its output is the Exchange to return, its
\* error is re-raised.  Neither contacts the seller.
Return(c) ==
    /\ pc[c] = "wait" /\ status[wf[c]] \in Final
    /\ pc' = [pc EXCEPT ![c] = "idle"]
    /\ IF status[wf[c]] = "SUCCESS"
         THEN /\ outcome' = [outcome EXCEPT ![c] = "answered"]
              /\ answer'  = [answer EXCEPT ![c] = saved[wf[c]]]
         ELSE /\ outcome' = [outcome EXCEPT ![c] = "raised"]
              /\ UNCHANGED answer
    /\ UNCHANGED << req, att, wf, calls, known, blind,
                    runVars, dbosVars, wireVars, procVars >>

-----------------------------------------------------------------------------
(* create_media_buy_workflow and its step _dispatch_create_media_buy. *)

\* The step POSTs the workflow's input, its wire key included.
Post(w) ==
    LET k == body[w].key
    IN  /\ exec[w] = "run" /\ waiting[w] = 0
        /\ sent'    = [sent EXCEPT ![k] = @ + 1]
        /\ waiting' = [waiting EXCEPT ![w] = sent[k] + 1]
        /\ net'     = net \cup { << w, sent[k] + 1 >> }
        /\ UNCHANGED << exec, tries, reply, ledger, callerVars, dbosVars, procVars >>

\* A try raised: the step is retried, or its failure is checkpointed.
EndTry(w, last) ==
    /\ tries' = [tries EXCEPT ![w] = @ + 1]
    /\ IF last
         THEN /\ saved' = [saved EXCEPT ![w] = StepFailed]
              /\ exec'  = [exec EXCEPT ![w] = "done"]
         ELSE UNCHANGED << exec, saved >>

\* Mutant: one try too many.
FailTryLate(w) == EndTry(w, tries[w] = StepTries)

\* DBOS retries the step until max_attempts tries have failed.
FailTry(w) == EndTry(w, tries[w] + 1 >= StepTries)

\* No connection: nothing left the buyer.
ConnectFails(w) ==
    /\ exec[w] = "run" /\ waiting[w] = 0
    /\ FailTry(w)
    /\ UNCHANGED << waiting, reply, status, body, wireVars, callerVars, procVars >>

\* Mutant: a client without a timeout.
NoTimeout(w) == FALSE /\ UNCHANGED vars

\* The client's timeout: the POST stays on its way, or its answer was lost.
Timeout(w) ==
    /\ exec[w] = "run" /\ waiting[w] # 0 /\ reply[w] = NoReply
    /\ FailTry(w)
    /\ waiting' = [waiting EXCEPT ![w] = 0]
    /\ UNCHANGED << reply, status, body, wireVars, callerVars, procVars >>

\* Mutant: the step returns the raw answer.
CheckpointRaw(w) ==
    /\ exec[w] = "run" /\ reply[w] # NoReply
    /\ saved'   = [saved EXCEPT ![w] = reply[w]]
    /\ exec'    = [exec EXCEPT ![w] = "done"]
    /\ waiting' = [waiting EXCEPT ![w] = 0]
    /\ reply'   = [reply EXCEPT ![w] = NoReply]
    /\ UNCHANGED << tries, status, body, wireVars, callerVars, procVars >>

\* The step returns the Exchange of the answer, whatever it says, and DBOS
\* checkpoints it.
Checkpoint(w) ==
    /\ exec[w] = "run" /\ reply[w] # NoReply
    /\ saved'   = [saved EXCEPT ![w] = RestExchange(reply[w])]
    /\ exec'    = [exec EXCEPT ![w] = "done"]
    /\ waiting' = [waiting EXCEPT ![w] = 0]
    /\ reply'   = [reply EXCEPT ![w] = NoReply]
    /\ UNCHANGED << tries, status, body, wireVars, callerVars, procVars >>

\* The workflow returns its step's Exchange or re-raises its failure, and DBOS
\* records the final status.
Finish(w) ==
    /\ exec[w] = "done"
    /\ status' = [status EXCEPT ![w] = IF saved[w] = StepFailed THEN "ERROR" ELSE "SUCCESS"]
    /\ exec'   = [exec EXCEPT ![w] = "idle"]
    /\ UNCHANGED << tries, waiting, reply, body, saved, wireVars, callerVars, procVars >>

-----------------------------------------------------------------------------
(* The seller, and the gateway in front of it. *)

BookingsOf(k) == { b \in ledger : b.key = k }

\* The answer reaches the executor if it still waits for this very POST, as
\* the seller gave it or replaced by the gateway; or it is lost.
Answer(p, r) ==
    \/ /\ waiting[p[1]] = p[2]
       /\ \E a \in {r} \cup Faults : reply' = [reply EXCEPT ![p[1]] = a]
    \/ UNCHANGED reply

\* The seller books a request whose key it has not booked.
SellerBooks(p) ==
    LET k == body[p[1]].key
        b == [key |-> k, canon |-> Canon[body[p[1]].plan]]
    IN  /\ p \in net /\ BookingsOf(k) = {}
        /\ net'    = net \ {p}
        /\ ledger' = ledger \cup {b}
        /\ Answer(p, Response(200, "object", b))
        /\ UNCHANGED << exec, tries, waiting, sent, callerVars, dbosVars, procVars >>

\* The seller rejects it.  Rejections are not cached.
SellerRejects(p) ==
    /\ p \in net /\ BookingsOf(body[p[1]].key) = {}
    /\ net' = net \ {p}
    /\ Answer(p, Response(400, "envelope", NoBuy))
    /\ UNCHANGED << exec, tries, waiting, sent, ledger, callerVars, dbosVars, procVars >>

\* The seller has booked this key: it replays the booking to a request of the
\* same canonical form and reports a conflict to any other.
SellerReplays(p) ==
    /\ p \in net
    /\ net' = net \ {p}
    /\ \E b \in BookingsOf(body[p[1]].key) :
         Answer(p, IF b.canon = Canon[body[p[1]].plan]
                     THEN Response(200, "object", b)
                     ELSE Response(409, "envelope", NoBuy))
    /\ UNCHANGED << exec, tries, waiting, sent, ledger, callerVars, dbosVars, procVars >>

-----------------------------------------------------------------------------
(* The buyer process dies and comes back. *)

\* Calls, executors and answers in memory are gone; Postgres and the wire stay.
Crash ==
    /\ up /\ crashes < MaxCrashes
    /\ up'      = FALSE
    /\ crashes' = crashes + 1
    /\ pc'      = [c \in Callers |-> "idle"]
    /\ outcome' = [c \in Callers |-> IF pc[c] = "idle" THEN outcome[c] ELSE "none"]
    /\ exec'    = [w \in WfIds |-> "idle"]
    /\ tries'   = [w \in WfIds |-> 0]
    /\ waiting' = [w \in WfIds |-> 0]
    /\ reply'   = [w \in WfIds |-> NoReply]
    /\ UNCHANGED << req, att, wf, answer, calls, known, blind, dbosVars, wireVars >>

\* init_dbos sets the transport, launches DBOS, and DBOS executes the rows to
\* recover again: from the step, or past it if the step is checkpointed.
Recover(rows) ==
    /\ ~up
    /\ up' = TRUE
    /\ exec' = [w \in WfIds |-> IF w \notin rows THEN "idle"
                                ELSE IF saved[w] = NoReply THEN "run" ELSE "done"]
    /\ UNCHANGED << tries, waiting, reply, crashes, callerVars, dbosVars, wireVars >>

\* Mutants: a process that never launches DBOS; one that forgets what it
\* checkpointed, and sends again.
RestartForgets == Recover({})
RestartResends ==
    /\ ~up
    /\ up' = TRUE
    /\ exec' = [w \in WfIds |-> IF body[w] # NoBody THEN "run" ELSE "idle"]
    /\ UNCHANGED << tries, waiting, reply, crashes, callerVars, dbosVars, wireVars >>

Restart == Recover({w \in WfIds : status[w] = "PENDING"})

-----------------------------------------------------------------------------
CallStep(c) ==
    StartCall(c) \/ RefuseKey(c) \/ Lookup(c) \/ LookupFails(c)
        \/ GiveUp(c) \/ Invoke(c) \/ Return(c)

RunStep(w) ==
    Post(w) \/ ConnectFails(w) \/ Timeout(w) \/ Checkpoint(w) \/ Finish(w)

SellerStep(p) == SellerBooks(p) \/ SellerRejects(p) \/ SellerReplays(p)

Next ==
    \/ \E c \in Callers : CallStep(c)
    \/ \E w \in WfIds : RunStep(w)
    \/ \E p \in net : SellerStep(p)
    \/ Crash
    \/ Restart

Spec == Init /\ [][Next]_vars

\* A call that began goes on, a workflow that DBOS runs goes on (the HTTP
\* client times out, so it needs no answer for that), and a crashed buyer is
\* started again.  Nothing is assumed of the seller, and no caller has to call.
GoesOn(c) == Lookup(c) \/ GiveUp(c) \/ Invoke(c) \/ Return(c)

Fairness ==
    /\ \A c \in Callers : WF_vars(GoesOn(c))
    /\ \A w \in WfIds : WF_vars(RunStep(w))
    /\ WF_vars(Restart)

FairSpec == Spec /\ Fairness

-----------------------------------------------------------------------------
(* Properties. *)

Replies  == Faults \cup { Response(200, "object", b) : b \in Bookings }
              \cup { Response(400, "envelope", NoBuy), Response(409, "envelope", NoBuy) }
Answers  == { RestExchange(r) : r \in Replies }

\* Every variable holds a value the code can give it.
TypeOK ==
    /\ up \in BOOLEAN
    /\ pc      \in [Callers -> {"idle", "lookup", "invoke", "wait"}]
    /\ req     \in [Callers -> Requests]
    /\ att     \in [Callers -> 1 .. MaxAttempts + 1]
    /\ wf      \in [Callers -> WfIds \cup {NoReply}]
    /\ outcome \in [Callers -> {"none", "answered", "raised", "gaveUp", "invalidKey"}]
    /\ answer  \in [Callers -> Answers \cup {NoReply, StepFailed}]
    /\ exec    \in [WfIds -> {"idle", "run", "done"}]
    /\ tries   \in [WfIds -> Nat]
    /\ waiting \in [WfIds -> Nat]
    /\ reply   \in [WfIds -> Replies \cup {NoReply}]
    /\ status  \in [WfIds -> {"ABSENT", "PENDING", "SUCCESS", "ERROR"}]
    /\ body    \in [WfIds -> Bodies \cup {NoBody}]
    /\ saved   \in [WfIds -> Answers \cup {NoReply, StepFailed}]
    /\ sent    \in [Keys -> Nat]
    /\ net     \subseteq WfIds \X Nat
    /\ ledger  \subseteq Bookings
    /\ calls   \in [Callers -> Nat]
    /\ crashes \in Nat
    /\ known   \in [Callers -> SUBSET WfIds]
    /\ blind   \in [Callers -> BOOLEAN]

StatusOf(k, n) == status[AttemptId(k, n)]

\* Attempt n of a key is only ever started after every earlier one is recorded
\* as ERROR, even when several callers read the statuses at different times
\* and some of their queries fail: _next_workflow_id "advances only past
\* attempts DBOS has already recorded as ERROR" (executor.py:19-20).
AttemptsInOrder ==
    \A k \in Keys : \A m, n \in Attempts :
        m < n /\ StatusOf(k, n) # "ABSENT" => StatusOf(k, m) = "ERROR"

\* At most one workflow at a time talks to the seller under a wire key, and
\* none does after one has succeeded: two callers, a restart or a blind lookup
\* never double-dispatch (executor.py:6, 69-70).
SingleFlight ==
    \A k \in Keys : \A m, n \in Attempts :
        m # n => StatusOf(k, m) \in {"ABSENT", "ERROR"} \/ StatusOf(k, n) \in {"ABSENT", "ERROR"}

Settled(k) == \E n \in Attempts : StatusOf(k, n) = "SUCCESS"

\* Once an attempt of a key has succeeded, no step sends another POST under
\* that key, and the answer later calls are given never changes: "a SUCCESS is
\* still short-circuited" (executor.py:20-21).
SettledStaysSettled ==
    [][\A k \in Keys : Settled(k) =>
          /\ sent'[k] = sent[k]
          /\ \A n \in Attempts : StatusOf(k, n) = "SUCCESS" =>
                /\ status'[AttemptId(k, n)] = "SUCCESS"
                /\ saved'[AttemptId(k, n)] = saved[AttemptId(k, n)]]_vars

\* A call whose status queries all worked never re-raises a failure that was
\* on record when it began: it reaches the seller again, or attaches to an
\* attempt that did (executor.py:12-17).
FreshFailure ==
    \A c \in Callers :
        outcome[c] = "raised" /\ ~blind[c] => wf[c] \notin known[c]

\* A call gives up only when every one of MAX_ATTEMPTS attempts is on record
\* as failed (executor.py:93-96).
GivesUpLast ==
    \A c \in Callers : outcome[c] = "gaveUp" =>
        \A n \in Attempts : StatusOf(KeyOf(req[c]), n) = "ERROR"

\* A call that reports success returns a booking the seller really holds, made
\* under this call's key for this call's canonical plan; a proxy's 5xx page or
\* a redirect is never one (executor.py:100, result.py:52-53, rest.py:61-64).
SuccessIsOwnBooking ==
    \A c \in Callers : outcome[c] = "answered" /\ IsSuccess(answer[c]) =>
        /\ answer[c].media_buy_id \in ledger
        /\ answer[c].media_buy_id.key = KeyOf(req[c])
        /\ answer[c].media_buy_id.canon = Canon[req[c].plan]

\* Derived keys book a canonical plan once, however many calls, retries,
\* crashes and rotated credentials there are (idempotency.py:8-13).
OneBuyPerPlan ==
    \A a, b \in ledger :
        a.canon = b.canon
          /\ (\A r \in Requests : r.override \notin {a.key, b.key}) => a = b

\* The seller is contacted at most StepTries times per attempt, and a crash
\* buys at most one more round of tries.
PostsBounded ==
    \A k \in Keys : sent[k] <= StepTries * (MaxAttempts + crashes)

\* Every call returns, raises or dies with its process, whatever the seller does.
CallsEnd == \A c \in Callers : pc[c] # "idle" ~> pc[c] = "idle"

\* Every workflow DBOS has on record reaches a final status, also across crashes.
RunsEnd == \A w \in WfIds : status[w] = "PENDING" ~> status[w] \in Final

-----------------------------------------------------------------------------
(* The executor implements BuyOnce. *)

Failed(k) == { n \in Attempts : StatusOf(k, n) = "ERROR" }

Bought(x) == IsSuccess(x) /\ x.media_buy_id # NoBuy

\* An attempt is under way from its first record to its final status; a crash
\* does not end it.
Phase(k) ==
    LET ended == { n \in Attempts : StatusOf(k, n) = "SUCCESS" }
    IN  IF \E n \in Attempts : StatusOf(k, n) = "PENDING" THEN "running"
        ELSE IF ended = {} THEN "idle"
        ELSE IF \A n \in ended : Bought(saved[AttemptId(k, n)]) THEN "bought"
        ELSE "unclear"

Once == INSTANCE BuyOnce WITH
    phase  <- [k \in Keys |-> Phase(k)],
    failed <- [k \in Keys |-> Failed(k)],
    posts  <- sent,
    booked <- {b.key : b \in ledger}

\* Whatever callers, retries, crashes and late POSTs do, a buy is made attempt
\* after attempt, by one attempt at a time, until one is answered
\* (executor.py:5-6, 19-23).
BuysOnce == Once!Spec

-----------------------------------------------------------------------------
(* What the repository says of the executor and the code does not do. *)

\* What became of a buy whose answer could not be read is found out by
\* "re-running the durable workflow" (campaign.py:142-143), and "a failed attempt
\* is retryable" (executor.py:22-23): what a call is told from an attempt that
\* was on record when it began is a success.
OnlySuccessIsFinal ==
    \A c \in Callers : outcome[c] = "answered" /\ wf[c] \in known[c] => IsSuccess(answer[c])

\* "supply a distinct key per intended buy" (executor.py:111): calls with
\* distinct keys of their own never come back with one booking.
DistinctKeysDistinctBuys ==
    \A c, d \in Callers :
        /\ outcome[c] = "answered" /\ IsSuccess(answer[c])
        /\ outcome[d] = "answered" /\ IsSuccess(answer[d])
        /\ req[c].override # req[d].override
        => answer[c].media_buy_id # answer[d].media_buy_id
=============================================================================
