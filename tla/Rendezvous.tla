----------------------------- MODULE Rendezvous -----------------------------
(***************************************************************************)
(* The async tail of one media buy: buyer/monitor.py and buyer/sink.py.    *)
(* await_completion waits for the seller's webhook and falls back to its   *)
(* child await_active, which polls until the buy is live; monitor_delivery *)
(* polls a fixed number of times.  The webhook sink is a process of its    *)
(* own.  The buyer's process may crash between any two steps; DBOS then    *)
(* runs its pending workflows again, from their checkpoints.  Sleeps       *)
(* between polls only pass time.                                           *)
(***************************************************************************)
EXTENDS Naturals, Sequences, FiniteSets

CONSTANTS
    Life,           \* the statuses the buy goes through, in order
    Polls,          \* per loop: max_polls of await_active, polls of monitor_delivery
    StepTries,      \* max_attempts of _poll_delivery
    BuyerDatabase,  \* where init_dbos keeps the buyer's workflows
    SinkDatabase,   \* DEFAULT_BUYER_DB, where the sink sends
    NoRecv, Timeout, NoAnswer,
    Webhooks,       \* what the seller may send: statuses, or a body that is no JSON
    MaxStarts,      \* bound: workflows an operator starts; they share only the seller
    MaxShown,       \* bound: impressions delivered
    MaxWebhooks,    \* bound: webhooks that reach the sink
    MaxCrashes      \* bound: crashes

Loops     == {"active", "monitor"}
Workflows == Loops \cup {"completion"}

ASSUME RendezvousAssumption ==
    /\ Life \in Seq(STRING) /\ Life # << >>
    /\ Polls \in [Loops -> Nat \ {0}] /\ StepTries \in Nat \ {0}
    /\ MaxStarts \in Nat /\ MaxShown \in Nat /\ MaxWebhooks \in Nat /\ MaxCrashes \in Nat
    /\ NoRecv \notin Webhooks /\ Timeout \notin Webhooks /\ NoRecv # Timeout

-----------------------------------------------------------------------------
(* The seller's delivery answers, and what is read from them. *)

LiveOrTerminal == {"active", "completed", "paused", "canceled", "rejected"}

\* A status is known by its place in Life, and None by no place.
NoStatus    == 0
IsLive(s)   == s # NoStatus /\ Life[s] \in LiveOrTerminal

Delivery(buy, status, shown) == [buy |-> buy, status |-> status, shown |-> shown]
Another == Delivery("another", Len(Life), 1)

\* An Exchange without a payload, a payload whose deliveries are no objects, or
\* deliveries and their total.
Answer(kind, list, total) == [kind |-> kind, list |-> list, total |-> total]

\* What may come back for a buy in this state: a seller may list other buys of
\* the account as well, and not list this one yet.
AnswersFor(s, n) ==
    { Answer("none", << >>, 0), Answer("garbled", << >>, 0), Answer("payload", << Another >>, 1),
      Answer("payload", << Another, Delivery("own", s, n) >>, n + 1) }

Last(s) == s[Len(s)]

Snapshot(status, shown) == [status |-> status, shown |-> shown]

\* Mutant: whichever delivery comes first.
FirstListed(a) == { i \in DOMAIN a.list : i = 1 }

\* The deliveries of the buy asked for.
OwnListed(a) == { i \in DOMAIN a.list : a.list[i].buy = "own" }

\* delivery_summary: the first delivery of the buy, or else no status and the
\* total of whatever the answer adds up (0 stands for none).
Summary(a) ==
    LET own == OwnListed(a)
        d   == a.list[CHOOSE i \in own : \A j \in own : i <= j]
    IN  IF own = {} THEN Snapshot(NoStatus, a.total) ELSE Snapshot(d.status, d.shown)

-----------------------------------------------------------------------------
VARIABLES
    \* the buyer process
    up,
    running,    \* workflows it executes
    kept,       \* per loop: the snapshots of this execution
    tries,      \* per loop: failed tries of the poll under way
    got,        \* per loop: its answer, not yet checkpointed
    \* the buyer's DBOS database
    row,        \* per workflow: "absent", "pending", "done" or "failed"
    recs,       \* per loop: the checkpointed answers of its polls
    inbox,      \* messages sent to "completion" and not yet received
    recvd,      \* the checkpoint of its recv
    returned,   \* per loop: the snapshots it returned
    source,     \* how "completion" was resolved
    \* the seller
    stage, shown,
    \* bounds and history
    crashes,
    hooks,      \* how many webhooks reached the sink
    posted      \* those that found "completion" waiting, and whose send did not fail

memory   == << running, kept, tries, got >>
database == << row, recs, inbox, recvd, returned, source >>
seller   == << stage, shown >>
history  == << hooks, posted >>
vars     == << up, memory, database, seller, crashes, history >>

Forgotten ==
    /\ kept'  = [l \in Loops |-> << >>]
    /\ tries' = [l \in Loops |-> 0]
    /\ got'   = [l \in Loops |-> NoAnswer]

Init ==
    /\ up = TRUE /\ running = {}
    /\ kept  = [l \in Loops |-> << >>]
    /\ tries = [l \in Loops |-> 0]
    /\ got   = [l \in Loops |-> NoAnswer]
    /\ row   = [w \in Workflows |-> "absent"]
    /\ recs  = [l \in Loops |-> << >>]
    /\ inbox = << >> /\ recvd = NoRecv /\ source = "open"
    /\ returned = [l \in Loops |-> << >>]
    /\ stage = 1 /\ shown = 0
    /\ crashes = 0 /\ hooks = 0 /\ posted = << >>

-----------------------------------------------------------------------------
(* The workflows. *)

Begin(w) ==
    /\ row[w] = "absent"
    /\ row' = [row EXCEPT ![w] = "pending"]
    /\ running' = running \cup {w}

Start(w) ==
    /\ up /\ w # "active" /\ Cardinality({v \in Workflows \ {"active"} : row[v] # "absent"}) < MaxStarts
    /\ Begin(w)
    /\ UNCHANGED << up, kept, tries, got, recs, inbox, recvd, returned, source, seller, crashes, history >>

End(w, how) ==
    /\ row' = [row EXCEPT ![w] = how]
    /\ running' = running \ {w}

\* DBOS.recv: the oldest message, or none when the timeout passes; the outcome
\* is checkpointed.
Recv ==
    /\ "completion" \in running /\ recvd = NoRecv
    /\ IF inbox # << >> THEN recvd' = Head(inbox) /\ inbox' = Tail(inbox)
       ELSE recvd' = Timeout /\ UNCHANGED inbox
    /\ UNCHANGED << up, memory, row, recs, returned, source, seller, crashes, history >>

\* A message resolves it, whatever it says; without one the child is started.
Resolve ==
    /\ "completion" \in running /\ recvd # NoRecv
    /\ \/ /\ recvd # Timeout
          /\ End("completion", "done") /\ source' = "webhook"
       \/ /\ recvd = Timeout
          /\ Begin("active") /\ UNCHANGED source
       \/ /\ recvd = Timeout /\ row["active"] \in {"done", "failed"}
          /\ End("completion", row["active"]) /\ source' = "poll"
    /\ UNCHANGED << up, kept, tries, got, recs, inbox, recvd, returned, seller, crashes, history >>

\* Mutant: only active counts.
StoppedIfActive(l) ==
    \/ Len(kept[l]) = Polls[l]
    \/ /\ l = "active" /\ kept[l] # << >> /\ Last(kept[l]).status # NoStatus
       /\ Life[Last(kept[l]).status] = "active"

\* The loop has what it polls for.
Stopped(l) ==
    \/ Len(kept[l]) = Polls[l]
    \/ l = "active" /\ kept[l] # << >> /\ IsLive(Last(kept[l]).status)

\* Mutant: the recovered loop polls anew and appends to what it has.
RepliesAfresh(l) == got[l] = NoAnswer /\ ~Stopped(l)

\* No checkpoint is left to replay: the next poll is a new one.
MustPoll(l) == got[l] = NoAnswer /\ ~Stopped(l) /\ Len(kept[l]) = Len(recs[l])

\* Mutant: one try too many.
OneMoreTry(l) == tries[l] < StepTries

TriesLeft(l) == tries[l] + 1 < StepTries

\* _poll_delivery asks the seller; a try that raises is made again, and after
\* the last one the workflow fails.
Ask(l) ==
    /\ l \in running /\ MustPoll(l)
    /\ \/ /\ \E a \in AnswersFor(stage, shown) : got' = [got EXCEPT ![l] = a]
          /\ UNCHANGED << running, tries, row >>
       \/ /\ TriesLeft(l)
          /\ tries' = [tries EXCEPT ![l] = @ + 1]
          /\ UNCHANGED << running, got, row >>
       \/ /\ ~TriesLeft(l)
          /\ End(l, "failed") /\ UNCHANGED << tries, got >>
    /\ UNCHANGED << up, kept, recs, inbox, recvd, returned, source, seller, crashes, history >>

\* The step's answer is checkpointed.
Checkpoint(l) ==
    /\ l \in running /\ got[l] # NoAnswer
    /\ recs' = [recs EXCEPT ![l] = Append(@, got[l])]
    /\ got' = [got EXCEPT ![l] = NoAnswer]
    /\ tries' = [tries EXCEPT ![l] = 0]
    /\ UNCHANGED << up, running, kept, row, inbox, recvd, returned, source, seller, crashes, history >>

\* The loop goes on with the next checkpoint, a replayed or a fresh one.  One
\* whose deliveries are no objects cannot be summarised: the workflow fails.
Summarise(l) ==
    /\ l \in running /\ got[l] = NoAnswer /\ ~Stopped(l) /\ Len(kept[l]) < Len(recs[l])
    /\ LET a == recs[l][Len(kept[l]) + 1]
       IN  IF a.kind = "garbled"
             THEN End(l, "failed") /\ UNCHANGED kept
             ELSE kept' = [kept EXCEPT ![l] = Append(@, Summary(a))] /\ UNCHANGED << row, running >>
    /\ UNCHANGED << up, tries, got, recs, inbox, recvd, returned, source, seller, crashes, history >>

\* The loop returns its last snapshot, or all of them.
Finish(l) ==
    /\ l \in running /\ Stopped(l)
    /\ End(l, "done")
    /\ returned' = [returned EXCEPT ![l] = IF l = "active" THEN << Last(kept[l]) >> ELSE kept[l]]
    /\ UNCHANGED << up, kept, tries, got, recs, inbox, recvd, source, seller, crashes, history >>

-----------------------------------------------------------------------------
(* The sink, the seller and crashes. *)

\* Mutant: the message goes out under a topic nobody receives.
SendsElsewhere == FALSE

\* _wake_workflow reaches the workflow: the sink's database is the buyer's and has
\* a row of it.
Sends == SinkDatabase = BuyerDatabase /\ row["completion"] # "absent"

Waits == row["completion"] = "pending" /\ recvd = NoRecv

\* receive: the seller's webhook, or a copy of it, is POSTed and sent on.  The send
\* may fail, if only because its database cannot be reached: the exception is
\* swallowed, the seller is told 200, and the webhook is lost.  Once recv has
\* returned, a message stays in the inbox: nothing reads it, and it is left out.
Receive ==
    /\ recvd = NoRecv /\ hooks < MaxWebhooks
    /\ hooks' = hooks + 1
    /\ \/ UNCHANGED << inbox, posted >>
       \/ \E p \in Webhooks :
            /\ inbox' = IF Sends THEN Append(inbox, p) ELSE inbox
            /\ posted' = IF Waits THEN Append(posted, p) ELSE posted
    /\ UNCHANGED << up, memory, row, recs, recvd, returned, source, seller, crashes >>

Advance ==
    /\ \/ stage < Len(Life) /\ stage' = stage + 1 /\ UNCHANGED shown
       \/ shown < MaxShown /\ shown' = shown + 1 /\ UNCHANGED stage
    /\ UNCHANGED << up, memory, database, crashes, history >>

Crash ==
    /\ up /\ crashes < MaxCrashes
    /\ up' = FALSE /\ crashes' = crashes + 1
    /\ running' = {} /\ Forgotten
    /\ UNCHANGED << database, seller, history >>

\* Mutant: the launched process runs only what it is asked to start.
NotRecovered == {}

\* DBOS.launch recovers the pending workflows.
Recovered == { w \in Workflows : row[w] = "pending" }

Restart ==
    /\ ~up /\ up' = TRUE
    /\ running' = Recovered
    /\ UNCHANGED << kept, tries, got, database, seller, crashes, history >>

Next ==
    \/ \E w \in Workflows : Start(w)
    \/ Recv \/ Resolve
    \/ \E l \in Loops : Ask(l) \/ Checkpoint(l) \/ Summarise(l) \/ Finish(l)
    \/ Receive \/ Advance \/ Crash \/ Restart

Spec == Init /\ [][Next]_vars

\* The executor's threads run, its requests and its recv time out, and a
\* crashed buyer is started again.
FairSpec ==
    /\ Spec /\ WF_vars(Recv) /\ WF_vars(Resolve) /\ WF_vars(Restart)
    /\ \A l \in Loops : WF_vars(Ask(l) \/ Checkpoint(l) \/ Summarise(l) \/ Finish(l))

-----------------------------------------------------------------------------
(* Properties. *)

Deliveries == [buy : {"own", "another"}, status : DOMAIN Life, shown : Nat]
Answers    == [kind : {"none", "garbled", "payload"}, list : Seq(Deliveries), total : Nat]
Snapshots  == [status : DOMAIN Life \cup {NoStatus}, shown : Nat]

\* Every variable holds a value the workflows can give it.
TypeOK ==
    /\ up \in BOOLEAN /\ running \subseteq Workflows
    /\ kept \in [Loops -> Seq(Snapshots)] /\ returned \in [Loops -> Seq(Snapshots)]
    /\ tries \in [Loops -> 0 .. StepTries - 1]
    /\ got \in [Loops -> Answers \cup {NoAnswer}]
    /\ row \in [Workflows -> {"absent", "pending", "done", "failed"}]
    /\ recs \in [Loops -> Seq(Answers)]
    /\ inbox \in Seq(Webhooks) /\ recvd \in Webhooks \cup {NoRecv, Timeout}
    /\ source \in {"open", "webhook", "poll"}
    /\ stage \in DOMAIN Life /\ shown \in Nat /\ crashes \in Nat /\ hooks \in Nat /\ posted \in Seq(Webhooks)

\* A crash resumes from the last completed poll "rather than restarting or
\* double-counting" (monitor.py:9-11): what a loop holds is a snapshot of each
\* completed poll, in order; it completes no more polls than it was asked for;
\* and monitor_delivery returns one snapshot of every poll it was asked for.
SnapshotsCountedOnce ==
    /\ \A l \in Loops :
         /\ Len(kept[l]) <= Len(recs[l]) /\ Len(recs[l]) <= Polls[l]
         /\ \A i \in DOMAIN kept[l] : kept[l][i] = Summary(recs[l][i])
    /\ row["monitor"] = "done" =>
         /\ Len(returned["monitor"]) = Polls["monitor"] /\ Len(recs["monitor"]) = Polls["monitor"]
         /\ \A i \in DOMAIN recs["monitor"] : returned["monitor"][i] = Summary(recs["monitor"][i])

\* The snapshots that found the buy follow it: never a status it has not
\* reached, never an earlier one or fewer impressions after a later poll, and
\* never those of another buy in the answer (monitor.py:37-43).
FollowsTheBuy ==
    \A l \in Loops : \A i \in DOMAIN kept[l] :
        LET Behind(s, n) == kept[l][i].status <= s /\ kept[l][i].shown <= n
        IN  kept[l][i].status # NoStatus =>
              /\ Behind(stage, shown)
              /\ \A j \in i .. Len(kept[l]) : kept[l][j].status # NoStatus =>
                   Behind(kept[l][j].status, kept[l][j].shown)

\* await_active completes no poll after one that showed the buy live or over,
\* also when it crashed between that poll and its return; and what it returns
\* is the outcome of its last poll (monitor.py:55).
StopsAtFirstLive ==
    /\ \A i \in DOMAIN recs["active"] :
         IsLive(Summary(recs["active"][i]).status) => i = Len(recs["active"])
    /\ row["active"] = "done" => returned["active"] = << Summary(Last(recs["active"])) >>

\* A webhook that reaches the sink while await_completion waits, and that no
\* exception keeps the sink from sending on (sink.py:42-43), resolves it
\* (sink.py:4-6): the first one is what it receives, crashes or not, and it
\* turns to polling only if there was none.
WebhookWakesWaiter ==
    /\ Waits => posted = inbox
    /\ source = "webhook" => posted # << >> /\ recvd = Head(posted)
    /\ recvd = Timeout => posted = << >>

\* Every workflow that was started comes to an end, whatever the seller answers
\* and however late or lost its webhooks are.
WorkflowsEnd == \A w \in Workflows : row[w] = "pending" ~> row[w] \in {"done", "failed"}
=============================================================================
