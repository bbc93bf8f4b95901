-------------------------- MODULE DurableBuyProofs --------------------------
(***************************************************************************)
(* Safety of the durable executor for any callers, requests, bounds and    *)
(* gateway faults.                                                         *)
(***************************************************************************)
EXTENDS DurableBuy, TLAPS

\* The id of an attempt of a key is a workflow id.
LEMMA AttemptIdType ==
    ASSUME NEW k \in Keys, NEW n \in Attempts
    PROVE  AttemptId(k, n) \in WfIds
BY DEF WfIds

\* A workflow id is the id of an attempt of a key.
LEMMA WfIdOfAttempt ==
    ASSUME NEW w \in WfIds
    PROVE  \E k \in Keys, n \in Attempts : w = AttemptId(k, n)
BY DEF WfIds

\* A request that is not refused has a key.
LEMMA KeyOfRequest ==
    ASSUME NEW r \in Requests, ~Malformed(r)
    PROVE  KeyOf(r) \in Keys
BY DEF Keys

\* The Exchange of an answer that can arrive is one a call can return.
LEMMA ExchangeOfReply ==
    ASSUME NEW r \in Replies
    PROVE  RestExchange(r) \in Answers
BY DEF Answers

-----------------------------------------------------------------------------
(* The type invariant.  Besides TypeOK it says that a call under way is for *)
(* a request that passed validate_key and has chosen its workflow id when   *)
(* it invokes it, and that every recorded workflow has a body.              *)

CallsTyped ==
    \A c \in Callers :
        /\ pc[c] # "idle" \/ outcome[c] = "gaveUp" => ~Malformed(req[c])
        /\ pc[c] # "idle" => outcome[c] = "none"
        /\ pc[c] \in {"invoke", "wait"} => wf[c] \in WfIds

BodiesTyped ==
    /\ \A w \in WfIds : exec[w] # "idle" => status[w] = "PENDING"
    /\ \A w \in WfIds : status[w] # "ABSENT" => body[w] \in Bodies
    /\ \A p \in net : status[p[1]] # "ABSENT"

TypeInv == TypeOK /\ CallsTyped /\ BodiesTyped

LEMMA TypeInit == Init => TypeInv
<1> SUFFICES ASSUME Init PROVE TypeInv
  OBVIOUS
<1> USE DEF Init
<1>1. \A c \in Callers : req[c] \in Requests
  BY RequestAssumption
<1>2. 1 \in 1 .. MaxAttempts + 1
  BY BoundsAssumption
<1>3. TypeOK
  BY <1>1, <1>2 DEF TypeOK
<1>4. CallsTyped /\ BodiesTyped
  BY DEF CallsTyped, BodiesTyped
<1>5. QED
  BY <1>3, <1>4 DEF TypeInv

\* One action of the callers.
LEMMA TypeCallStep ==
    ASSUME TypeInv, NEW c \in Callers, CallStep(c)
    PROVE  TypeInv'
<1> USE DEF TypeInv, TypeOK, CallsTyped, BodiesTyped, runVars, dbosVars, wireVars, procVars
<1>1. CASE StartCall(c)
  <2>1. PICK r \in Requests : ~Malformed(r) /\ req' = [req EXCEPT ![c] = r]
    BY <1>1 DEF StartCall
  <2>2. {w \in WfIds : status[w] \in Final} \in SUBSET WfIds
    OBVIOUS
  <2>3. TypeOK'
    BY <1>1, <2>1, <2>2, BoundsAssumption DEF StartCall
  <2>4. (CallsTyped /\ BodiesTyped)'
    BY <1>1, <2>1 DEF StartCall
  <2>5. QED
    BY <2>3, <2>4
<1>2. CASE RefuseKey(c)
  <2>1. PICK r \in Requests : req' = [req EXCEPT ![c] = r]
    BY <1>2 DEF RefuseKey
  <2>2. TypeOK'
    BY <1>2, <2>1 DEF RefuseKey
  <2>3. (CallsTyped /\ BodiesTyped)'
    BY <1>2, <2>1 DEF RefuseKey
  <2>4. QED
    BY <2>2, <2>3
<1>3. CASE Lookup(c) \/ LookupFails(c)
  <2>1. att[c] \in Attempts /\ att[c] + 1 \in 1 .. MaxAttempts + 1
    BY <1>3, BoundsAssumption DEF Lookup, LookupFails, StepPast, Attempts
  <2>2. AttemptId(KeyOf(req[c]), att[c]) \in WfIds
    BY <1>3, <2>1, AttemptIdType, KeyOfRequest DEF Lookup, LookupFails, StepPast
  <2>3. TypeOK'
    <3>1. CASE Lookup(c)
      BY <2>1, <2>2, <3>1 DEF Lookup, StepPast
    <3>2. CASE LookupFails(c)
      BY <2>1, <2>2, <3>2 DEF LookupFails
    <3>3. QED
      BY <1>3, <3>1, <3>2
  <2>4. (CallsTyped /\ BodiesTyped)'
    BY <1>3, <2>1, <2>2 DEF Lookup, LookupFails, StepPast
  <2>5. QED
    BY <2>3, <2>4
<1>4. CASE GiveUp(c)
  BY <1>4 DEF GiveUp
<1>5. CASE Invoke(c)
  <2>1. [plan |-> req[c].plan, key |-> KeyOf(req[c])] \in Bodies
    BY <1>5, KeyOfRequest, RequestAssumption DEF Invoke, Bodies
  <2>2. TypeOK'
    <3>1. CASE status[wf[c]] = "ABSENT"
      <4>1. /\ pc' = [pc EXCEPT ![c] = "wait"]
            /\ status' = [status EXCEPT ![wf[c]] = "PENDING"]
            /\ body' = [body EXCEPT ![wf[c]] = [plan |-> req[c].plan, key |-> KeyOf(req[c])]]
            /\ exec' = [exec EXCEPT ![wf[c]] = "run"]
        BY <1>5, <3>1 DEF Invoke
      <4>2. /\ pc' \in [Callers -> {"idle", "lookup", "invoke", "wait"}]
            /\ status' \in [WfIds -> {"ABSENT", "PENDING", "SUCCESS", "ERROR"}]
            /\ exec' \in [WfIds -> {"idle", "run", "done"}]
        BY <4>1
      <4>3. body' \in [WfIds -> Bodies \cup {NoBody}]
        BY <2>1, <4>1
      <4>4. QED
        BY <1>5, <4>2, <4>3 DEF Invoke
    <3>2. CASE status[wf[c]] # "ABSENT"
      BY <1>5, <3>2 DEF Invoke
    <3>3. QED
      BY <3>1, <3>2
  <2>3. CallsTyped'
    BY <1>5 DEF Invoke
  <2>4. BodiesTyped'
    <3>1. CASE status[wf[c]] = "ABSENT"
      <4>1. /\ wf[c] \in WfIds
            /\ status' = [status EXCEPT ![wf[c]] = "PENDING"]
            /\ body' = [body EXCEPT ![wf[c]] = [plan |-> req[c].plan, key |-> KeyOf(req[c])]]
            /\ exec' = [exec EXCEPT ![wf[c]] = "run"]
            /\ UNCHANGED net
        BY <1>5, <3>1 DEF Invoke
      <4>2. QED
        BY <2>1, <4>1
    <3>2. CASE status[wf[c]] # "ABSENT"
      BY <1>5, <3>2 DEF Invoke
    <3>3. QED
      BY <3>1, <3>2
  <2>5. QED
    BY <2>2, <2>3, <2>4
<1>6. CASE Return(c)
  BY <1>6 DEF Return
<1>7. QED
  BY <1>1, <1>2, <1>3, <1>4, <1>5, <1>6 DEF CallStep

\* One action of an executor.
LEMMA TypeRunStep ==
    ASSUME TypeInv, NEW w \in WfIds, RunStep(w)
    PROVE  TypeInv'
<1> USE DEF TypeInv, TypeOK, CallsTyped, BodiesTyped, callerVars, wireVars, procVars
<1>1. CASE Post(w)
  <2>1. body[w].key \in Keys
    BY <1>1 DEF Post, Bodies
  <2>2. TypeOK'
    BY <1>1, <2>1 DEF Post, dbosVars
  <2>3. (CallsTyped /\ BodiesTyped)'
    BY <1>1 DEF Post, dbosVars
  <2>4. QED
    BY <2>2, <2>3
<1>2. CASE ConnectFails(w) \/ Timeout(w)
  <2>1. /\ exec[w] = "run"
        /\ waiting' \in [WfIds -> Nat]
        /\ tries' = [tries EXCEPT ![w] = @ + 1]
        /\ \/ UNCHANGED << exec, saved >>
           \/ /\ saved' = [saved EXCEPT ![w] = StepFailed]
              /\ exec'  = [exec EXCEPT ![w] = "done"]
        /\ UNCHANGED << reply, status, body, callerVars, wireVars, procVars >>
    BY <1>2 DEF ConnectFails, Timeout, FailTry, EndTry
  <2>2. TypeOK'
    BY <2>1
  <2>3. (CallsTyped /\ BodiesTyped)'
    BY <2>1
  <2>4. QED
    BY <2>2, <2>3
<1>3. CASE Checkpoint(w)
  BY <1>3, ExchangeOfReply DEF Checkpoint
<1>4. CASE Finish(w)
  BY <1>4 DEF Finish
<1>5. QED
  BY <1>1, <1>2, <1>3, <1>4 DEF RunStep

\* One action of the seller.
LEMMA TypeSellerStep ==
    ASSUME TypeInv, NEW p \in net, SellerStep(p)
    PROVE  TypeInv'
<1> USE DEF TypeInv, TypeOK, CallsTyped, BodiesTyped, callerVars, dbosVars, procVars
<1>1. p[1] \in WfIds /\ body[p[1]] \in Bodies
  OBVIOUS
<1>2. ASSUME NEW r \in Replies, Answer(p, r)
      PROVE  reply' \in [WfIds -> Replies \cup {NoReply}]
  BY <1>1, <1>2 DEF Answer, Replies
<1>3. CASE SellerBooks(p)
  <2> DEFINE b == [key |-> body[p[1]].key, canon |-> Canon[body[p[1]].plan]]
  <2>1. b \in Bookings
    BY <1>1 DEF Bodies, Bookings
  <2>2. Response(200, "object", b) \in Replies
    BY <2>1 DEF Replies
  <2>3. reply' \in [WfIds -> Replies \cup {NoReply}]
    BY <1>2, <1>3, <2>2 DEF SellerBooks
  <2>4. ledger' \subseteq Bookings
    BY <1>3, <2>1 DEF SellerBooks
  <2>5. QED
    BY <1>3, <2>3, <2>4 DEF SellerBooks
<1>4. CASE SellerRejects(p)
  <2>1. Response(400, "envelope", NoBuy) \in Replies
    BY DEF Replies
  <2>2. reply' \in [WfIds -> Replies \cup {NoReply}]
    BY <1>2, <1>4, <2>1 DEF SellerRejects
  <2>3. QED
    BY <1>4, <2>2 DEF SellerRejects
<1>5. CASE SellerReplays(p)
  <2>1. PICK b \in BookingsOf(body[p[1]].key) :
           Answer(p, IF b.canon = Canon[body[p[1]].plan]
                       THEN Response(200, "object", b)
                       ELSE Response(409, "envelope", NoBuy))
    BY <1>5 DEF SellerReplays
  <2>2. b \in Bookings
    BY DEF BookingsOf
  <2>3. /\ Response(200, "object", b) \in Replies
        /\ Response(409, "envelope", NoBuy) \in Replies
    BY <2>2 DEF Replies
  <2>4. reply' \in [WfIds -> Replies \cup {NoReply}]
    BY <1>2, <2>1, <2>3
  <2>5. QED
    BY <1>5, <2>4 DEF SellerReplays
<1>6. QED
  BY <1>3, <1>4, <1>5 DEF SellerStep

LEMMA TypeStep == TypeInv /\ [Next]_vars => TypeInv'
<1> SUFFICES ASSUME TypeInv, [Next]_vars PROVE TypeInv'
  OBVIOUS
<1>1. CASE \E c \in Callers : CallStep(c)
  BY <1>1, TypeCallStep
<1>2. CASE \E w \in WfIds : RunStep(w)
  BY <1>2, TypeRunStep
<1>3. CASE \E p \in net : SellerStep(p)
  BY <1>3, TypeSellerStep
<1>4. CASE Crash
  <2>1. /\ pc' = [c \in Callers |-> "idle"]
        /\ outcome' \in [Callers -> {"none", "answered", "raised", "gaveUp", "invalidKey"}]
        /\ \A c \in Callers : outcome'[c] = "gaveUp" => outcome[c] = "gaveUp"
        /\ exec' = [w \in WfIds |-> "idle"]
        /\ tries' = [w \in WfIds |-> 0]
        /\ waiting' = [w \in WfIds |-> 0]
        /\ reply' = [w \in WfIds |-> NoReply]
        /\ up' = FALSE
        /\ crashes' \in Nat
        /\ UNCHANGED << req, att, wf, answer, calls, known, blind, dbosVars, wireVars >>
    BY <1>4 DEF Crash, TypeInv, TypeOK
  <2>2. TypeOK'
    BY <2>1 DEF TypeInv, TypeOK, dbosVars, wireVars
  <2>3. (CallsTyped /\ BodiesTyped)'
    BY <2>1 DEF TypeInv, TypeOK, CallsTyped, BodiesTyped, dbosVars, wireVars
  <2>4. QED
    BY <2>2, <2>3 DEF TypeInv
<1>5. CASE Restart
  BY <1>5 DEF Restart, Recover, TypeInv, TypeOK, CallsTyped, BodiesTyped,
              callerVars, dbosVars, wireVars
<1>6. CASE UNCHANGED vars
  BY <1>6 DEF vars, callerVars, runVars, dbosVars, wireVars, procVars,
              TypeInv, TypeOK, CallsTyped, BodiesTyped
<1>7. QED
  BY <1>1, <1>2, <1>3, <1>4, <1>5, <1>6 DEF Next

\* Every variable of the executor, of DBOS and of the wire keeps its type.
THEOREM TypeCorrect == Spec => []TypeOK
<1>1. Spec => []TypeInv
  BY TypeInit, TypeStep, PTL DEF Spec
<1>2. TypeInv => TypeOK
  BY DEF TypeInv
<1>3. QED
  BY <1>1, <1>2, PTL

-----------------------------------------------------------------------------
(* What a step may do to a record of DBOS. *)

\* A status goes from absent to pending when a call inserts the row, and from
\* pending to a final one; it never changes otherwise.
LEMMA StatusMoves ==
    ASSUME TypeInv, [Next]_vars, NEW w \in WfIds
    PROVE  \/ status'[w] = status[w]
           \/ /\ status[w] = "ABSENT" /\ status'[w] = "PENDING"
              /\ \E c \in Callers : Invoke(c) /\ wf[c] = w
           \/ status[w] = "PENDING" /\ status'[w] \in Final
<1> USE DEF TypeInv, TypeOK, CallsTyped, BodiesTyped
<1>1. CASE UNCHANGED status
  BY <1>1
<1>2. ASSUME NEW c \in Callers, Invoke(c)
      PROVE  \/ status'[w] = status[w]
             \/ /\ status[w] = "ABSENT" /\ status'[w] = "PENDING"
                /\ Invoke(c) /\ wf[c] = w
  <2>1. CASE wf[c] = w /\ status[w] = "ABSENT"
    BY <1>2, <2>1 DEF Invoke
  <2>2. CASE ~(wf[c] = w /\ status[w] = "ABSENT")
    BY <1>2, <2>2 DEF Invoke
  <2>3. QED
    BY <2>1, <2>2
<1>3. ASSUME NEW v \in WfIds, Finish(v)
      PROVE  status'[w] = status[w] \/ (status[w] = "PENDING" /\ status'[w] \in Final)
  <2>1. status[v] = "PENDING"
    BY <1>3 DEF Finish
  <2>2. status' = [status EXCEPT ![v] =
                      IF saved[v] = StepFailed THEN "ERROR" ELSE "SUCCESS"]
    BY <1>3 DEF Finish
  <2>3. QED
    BY <2>1, <2>2 DEF Final
<1>4. \/ UNCHANGED status
      \/ \E c \in Callers : Invoke(c)
      \/ \E v \in WfIds : Finish(v)
  <2>1. ASSUME NEW c \in Callers, CallStep(c)
        PROVE  UNCHANGED status \/ Invoke(c)
    BY <2>1 DEF CallStep, StartCall, RefuseKey, Lookup, LookupFails, StepPast, GiveUp,
                Return, dbosVars
  <2>2. ASSUME NEW v \in WfIds, RunStep(v)
        PROVE  UNCHANGED status \/ Finish(v)
    BY <2>2 DEF RunStep, Post, ConnectFails, Timeout, Checkpoint, dbosVars
  <2>3. ASSUME NEW p \in net, SellerStep(p)
        PROVE  UNCHANGED status
    BY <2>3 DEF SellerStep, SellerBooks, SellerRejects, SellerReplays, dbosVars
  <2>4. ASSUME Crash \/ Restart \/ UNCHANGED vars
        PROVE  UNCHANGED status
    BY <2>4 DEF Crash, Restart, Recover, vars, dbosVars
  <2>5. QED
    BY <2>1, <2>2, <2>3, <2>4 DEF Next
<1>5. QED
  BY <1>1, <1>2, <1>3, <1>4

\* A final status stays.
LEMMA FinalStays ==
    ASSUME TypeInv, [Next]_vars, NEW w \in WfIds, status[w] \in Final
    PROVE  status'[w] = status[w]
BY StatusMoves DEF Final

-----------------------------------------------------------------------------
(* The order of attempts, seen from the calls. *)

\* Every attempt a call has passed, or passed before it chose its own, is on
\* record as failed: what a lookup read of earlier attempts cannot go stale,
\* because ERROR is final.
CallsOrdered ==
    \A c \in Callers :
        /\ pc[c] = "lookup" =>
              \A m \in Attempts : m < att[c] => StatusOf(KeyOf(req[c]), m) = "ERROR"
        /\ pc[c] \in {"invoke", "wait"} =>
              \E n \in Attempts :
                  /\ wf[c] = AttemptId(KeyOf(req[c]), n)
                  /\ \A m \in Attempts : m < n => StatusOf(KeyOf(req[c]), m) = "ERROR"

\* A workflow that was final when a call began is chosen by it, if its lookup
\* worked, only because it succeeded.
KnownSucceeded ==
    \A c \in Callers :
        /\ \A w \in known[c] : status[w] \in Final
        /\ pc[c] \in {"invoke", "wait"} /\ ~blind[c] /\ wf[c] \in known[c] =>
              status[wf[c]] = "SUCCESS"

CallInv == TypeInv /\ CallsOrdered /\ KnownSucceeded /\ FreshFailure /\ GivesUpLast

LEMMA CallInit == Init => CallInv
BY TypeInit DEF Init, CallInv, CallsOrdered, KnownSucceeded, FreshFailure, GivesUpLast

\* Where a failed attempt is on record it stays on record.
LEMMA ErrorStays ==
    ASSUME TypeInv, [Next]_vars, NEW k \in Keys, NEW n \in Attempts,
           StatusOf(k, n) = "ERROR"
    PROVE  StatusOf(k, n)' = "ERROR"
BY FinalStays, AttemptIdType DEF StatusOf, Final

\* Steps that leave the calls alone.
LEMMA CallsAlone ==
    ASSUME CallInv, [Next]_vars, UNCHANGED << pc, req, att, wf, outcome, known, blind >>
    PROVE  (CallsOrdered /\ KnownSucceeded /\ FreshFailure /\ GivesUpLast)'
<1> USE DEF CallInv
<1>1. ASSUME NEW c \in Callers, ~Malformed(req[c])
      PROVE  KeyOf(req[c]) \in Keys
  BY <1>1, KeyOfRequest DEF TypeInv, TypeOK
<1>2. CallsOrdered'
  BY <1>1, ErrorStays DEF CallsOrdered, TypeInv, CallsTyped
<1>3. KnownSucceeded'
  BY FinalStays DEF KnownSucceeded, TypeInv, TypeOK, Final
<1>4. FreshFailure'
  BY DEF FreshFailure
<1>5. GivesUpLast'
  BY ErrorStays, KeyOfRequest DEF GivesUpLast, TypeInv, TypeOK, CallsTyped
<1>6. QED
  BY <1>2, <1>3, <1>4, <1>5


\* One action of the callers.
LEMMA CallStepKeeps ==
    ASSUME CallInv, [Next]_vars, NEW c \in Callers, CallStep(c)
    PROVE  (CallsOrdered /\ KnownSucceeded /\ FreshFailure /\ GivesUpLast)'
<1> USE DEF CallInv, TypeInv, TypeOK
<1> DEFINE key == KeyOf(req[c])
<1>1. CASE StartCall(c)
  <2>1. CallsOrdered'
    BY <1>1, BoundsAssumption DEF StartCall, CallsOrdered, StatusOf, dbosVars, Attempts
  <2>2. (KnownSucceeded /\ FreshFailure /\ GivesUpLast)'
    BY <1>1 DEF StartCall, KnownSucceeded, FreshFailure, GivesUpLast, StatusOf, dbosVars
  <2>3. QED
    BY <2>1, <2>2
<1>2. CASE RefuseKey(c)
  BY <1>2 DEF RefuseKey, CallsOrdered, KnownSucceeded, FreshFailure, GivesUpLast, StatusOf, dbosVars
<1>3. CASE Lookup(c) /\ StatusAt(c) = "ERROR"
  <2>1. /\ att' = [att EXCEPT ![c] = @ + 1]
        /\ pc[c] = "lookup" /\ att[c] \in Attempts
        /\ UNCHANGED << pc, wf, req, outcome, known, blind, status >>
    BY <1>3 DEF Lookup, StepPast, dbosVars
  <2>2. ASSUME NEW m \in Attempts, m < att[c] + 1
        PROVE  StatusOf(key, m) = "ERROR"
    <3>1. m < att[c] \/ m = att[c]
      BY <2>1, <2>2 DEF Attempts
    <3>2. QED
      BY <1>3, <2>1, <3>1 DEF CallsOrdered, StatusOf, StatusAt
  <2>3. att'[c] = att[c] + 1 /\ \A d \in Callers \ {c} : att'[d] = att[d]
    BY <2>1
  <2>4. CallsOrdered'
    BY <2>1, <2>2, <2>3 DEF CallsOrdered, StatusOf
  <2>5. QED
    BY <2>1, <2>4 DEF KnownSucceeded, FreshFailure, GivesUpLast, StatusOf
<1>4. CASE Lookup(c) /\ StatusAt(c) # "ERROR"
  <2>1. /\ wf' = [wf EXCEPT ![c] = AttemptId(key, att[c])]
        /\ pc' = [pc EXCEPT ![c] = "invoke"]
        /\ pc[c] = "lookup" /\ att[c] \in Attempts
        /\ UNCHANGED << att, req, outcome, known, blind, status >>
    BY <1>4 DEF Lookup, StepPast, dbosVars
  <2>2. CallsOrdered'
    BY <2>1 DEF CallsOrdered, StatusOf
  <2>3. KnownSucceeded'
    BY <1>4, <2>1 DEF KnownSucceeded, StatusAt, Final
  <2>4. FreshFailure'
    BY <2>1 DEF FreshFailure, CallsTyped
  <2>5. QED
    BY <2>1, <2>2, <2>3, <2>4 DEF GivesUpLast, StatusOf

<1>5. CASE LookupFails(c)
  <2>1. /\ wf' = [wf EXCEPT ![c] = AttemptId(key, att[c])]
        /\ pc' = [pc EXCEPT ![c] = "invoke"]
        /\ blind' = [blind EXCEPT ![c] = TRUE]
        /\ pc[c] = "lookup" /\ att[c] \in Attempts
        /\ UNCHANGED << att, req, outcome, known, status >>
    BY <1>5 DEF LookupFails, dbosVars
  <2>2. CallsOrdered'
    BY <2>1 DEF CallsOrdered, StatusOf
  <2>3. KnownSucceeded'
    BY <2>1 DEF KnownSucceeded
  <2>4. FreshFailure'
    BY <2>1 DEF FreshFailure, CallsTyped
  <2>5. QED
    BY <2>1, <2>2, <2>3, <2>4 DEF GivesUpLast, StatusOf
<1>6. CASE GiveUp(c)
  <2>1. /\ pc[c] = "lookup" /\ att[c] > MaxAttempts
        /\ pc' = [pc EXCEPT ![c] = "idle"]
        /\ outcome' = [outcome EXCEPT ![c] = "gaveUp"]
        /\ UNCHANGED << att, wf, req, known, blind, status >>
    BY <1>6 DEF GiveUp, dbosVars
  <2>2. \A n \in Attempts : StatusOf(key, n) = "ERROR"
    BY <2>1, BoundsAssumption DEF CallsOrdered, Attempts
  <2>3. GivesUpLast'
    BY <2>1, <2>2 DEF GivesUpLast, StatusOf
  <2>4. (CallsOrdered /\ KnownSucceeded /\ FreshFailure)'
    BY <2>1 DEF CallsOrdered, KnownSucceeded, FreshFailure, StatusOf
  <2>5. QED
    BY <2>3, <2>4
<1>7. CASE Invoke(c)
  <2>1. /\ pc[c] = "invoke"
        /\ pc' = [pc EXCEPT ![c] = "wait"]
        /\ UNCHANGED << req, att, wf, outcome, known, blind >>
    BY <1>7 DEF Invoke
  <2>2. ASSUME NEW d \in Callers, NEW n \in Attempts, ~Malformed(req[d]),
               StatusOf(KeyOf(req[d]), n) = "ERROR"
        PROVE  StatusOf(KeyOf(req[d]), n)' = "ERROR"
    <3>1. KeyOf(req[d]) \in Keys
      BY <2>2, KeyOfRequest
    <3>2. StatusOf(KeyOf(req[d]), n)' = status'[AttemptId(KeyOf(req[d]), n)]
      BY <2>1 DEF StatusOf
    <3>3. QED
      BY <2>2, <3>1, <3>2, AttemptIdType, FinalStays DEF StatusOf, Final
  <2>3. CallsOrdered'
    BY <2>1, <2>2 DEF CallsOrdered, CallsTyped, StatusOf
  <2>4. KnownSucceeded'
    BY <2>1, FinalStays DEF KnownSucceeded, Final
  <2>5. FreshFailure'
    BY <2>1 DEF FreshFailure
  <2>6. GivesUpLast'
    BY <2>1, <2>2 DEF GivesUpLast, CallsTyped, StatusOf
  <2>7. QED
    BY <2>3, <2>4, <2>5, <2>6
<1>8. CASE Return(c)
  <2>1. /\ pc[c] = "wait"
        /\ pc' = [pc EXCEPT ![c] = "idle"]
        /\ outcome' = [outcome EXCEPT ![c] =
                          IF status[wf[c]] = "SUCCESS" THEN "answered" ELSE "raised"]
        /\ UNCHANGED << req, att, wf, known, blind, status >>
    BY <1>8 DEF Return, dbosVars
  <2>2. (CallsOrdered /\ KnownSucceeded)'
    BY <2>1 DEF CallsOrdered, KnownSucceeded, StatusOf
  <2>3. FreshFailure'
    BY <2>1 DEF FreshFailure, KnownSucceeded
  <2>4. GivesUpLast'
    BY <2>1 DEF GivesUpLast, StatusOf
  <2>5. QED
    BY <2>2, <2>3, <2>4
<1>9. QED
  BY <1>1, <1>2, <1>3, <1>4, <1>5, <1>6, <1>7, <1>8 DEF CallStep

LEMMA CallStepInv == CallInv /\ [Next]_vars => CallInv'
<1> SUFFICES ASSUME CallInv, [Next]_vars PROVE CallInv'
  OBVIOUS
<1>1. TypeInv'
  BY TypeStep DEF CallInv
<1>2. (CallsOrdered /\ KnownSucceeded /\ FreshFailure /\ GivesUpLast)'
  <2>1. CASE \E c \in Callers : CallStep(c)
    BY <2>1, CallStepKeeps
  <2>2. CASE \E w \in WfIds : RunStep(w)
    BY <2>2, CallsAlone DEF RunStep, Post, ConnectFails, Timeout, Checkpoint, Finish, callerVars
  <2>3. CASE \E p \in net : SellerStep(p)
    BY <2>3, CallsAlone DEF SellerStep, SellerBooks, SellerRejects, SellerReplays, callerVars
  <2>4. CASE Crash
    <3>1. /\ pc' = [c \in Callers |-> "idle"]
          /\ \A c \in Callers : outcome'[c] \in {outcome[c], "none"}
          /\ UNCHANGED << req, att, wf, known, blind, status >>
      BY <2>4 DEF Crash, dbosVars
    <3>2. QED
      BY <3>1 DEF CallInv, CallsOrdered, KnownSucceeded, FreshFailure, GivesUpLast, StatusOf
  <2>5. CASE Restart \/ UNCHANGED vars
    BY <2>5, CallsAlone DEF Restart, Recover, vars, callerVars
  <2>6. QED
    BY <2>1, <2>2, <2>3, <2>4, <2>5 DEF Next
<1>3. QED
  BY <1>1, <1>2 DEF CallInv

LEMMA CallsCorrect == Spec => []CallInv
BY CallInit, CallStepInv, PTL DEF Spec

\* A retry of a failed plan reaches the seller again, whatever races with it.
THEOREM FailuresAreFresh == Spec => []FreshFailure
<1>1. CallInv => FreshFailure
  BY DEF CallInv
<1>2. QED
  BY <1>1, CallsCorrect, PTL

\* The executor refuses to go on only after every attempt has failed.
THEOREM GivingUpIsLast == Spec => []GivesUpLast
<1>1. CallInv => GivesUpLast
  BY DEF CallInv
<1>2. QED
  BY <1>1, CallsCorrect, PTL

-----------------------------------------------------------------------------
(* The order of attempts, seen from the records.  This is where two keys    *)
(* must not share a workflow id.                                            *)

\* A recorded attempt runs with its own wire key.
BodyOfAttempt ==
    \A k \in Keys : \A n \in Attempts :
        StatusOf(k, n) # "ABSENT" => body[AttemptId(k, n)].key = k

OrderInv == CallInv /\ AttemptsInOrder /\ BodyOfAttempt

LEMMA OrderInit == Init => OrderInv
BY CallInit, AttemptIdType DEF Init, OrderInv, AttemptsInOrder, BodyOfAttempt, StatusOf

\* What SuffixFree says of two attempts.
LEMMA SuffixFreeIds ==
    ASSUME SuffixFree,
           NEW k \in Keys, NEW l \in Keys, NEW m \in Attempts, NEW n \in Attempts,
           AttemptId(k, m) = AttemptId(l, n)
    PROVE  k = l /\ m = n
<1>1. AttemptId(k, m) = AttemptId(l, n) => k = l /\ m = n
  BY DEF SuffixFree
<1>2. QED
  BY <1>1

\* The call that inserts the row of attempt n of k is a call for k that saw
\* every earlier attempt fail.
LEMMA InvokedInOrder ==
    ASSUME SuffixFree, CallInv, NEW c \in Callers, Invoke(c),
           NEW k \in Keys, NEW n \in Attempts, wf[c] = AttemptId(k, n)
    PROVE  /\ KeyOf(req[c]) = k
           /\ \A m \in Attempts : m < n => StatusOf(k, m) = "ERROR"
<1>1. pc[c] = "invoke" /\ KeyOf(req[c]) \in Keys
  BY KeyOfRequest DEF Invoke, CallInv, TypeInv, TypeOK, CallsTyped
<1>2. PICK i \in Attempts :
         /\ wf[c] = AttemptId(KeyOf(req[c]), i)
         /\ \A m \in Attempts : m < i => StatusOf(KeyOf(req[c]), m) = "ERROR"
  BY <1>1 DEF CallInv, CallsOrdered
<1>3. KeyOf(req[c]) = k /\ i = n
  <2>1. AttemptId(KeyOf(req[c]), i) = AttemptId(k, n)
    BY <1>2
  <2>2. QED
    BY <1>1, <2>1, SuffixFreeIds
<1>4. QED
  BY <1>2, <1>3

LEMMA OrderStep ==
    ASSUME SuffixFree, OrderInv, [Next]_vars
    PROVE  OrderInv'
<1> USE DEF OrderInv
<1>1. TypeInv /\ CallInv'
  <2>1. CallInv'
    BY CallStepInv
  <2>2. TypeInv
    BY DEF CallInv
  <2>3. QED
    BY <2>1, <2>2
<1>2. AttemptsInOrder'
  <2>1. SUFFICES ASSUME NEW k \in Keys, NEW m \in Attempts, NEW n \in Attempts,
                        m < n, StatusOf(k, n)' # "ABSENT"
                 PROVE  StatusOf(k, m)' = "ERROR"
    BY DEF AttemptsInOrder
  <2>2. StatusOf(k, m) = "ERROR"
    <3>1. CASE StatusOf(k, n) # "ABSENT"
      BY <2>1, <3>1 DEF AttemptsInOrder
    <3>2. CASE StatusOf(k, n) = "ABSENT"
      <4>1. AttemptId(k, n) \in WfIds
        BY AttemptIdType
      <4>2. PICK c \in Callers : Invoke(c) /\ wf[c] = AttemptId(k, n)
        BY <1>1, <2>1, <3>2, <4>1, StatusMoves DEF StatusOf
      <4>3. QED
        BY <2>1, <4>2, InvokedInOrder
    <3>3. QED
      BY <3>1, <3>2
  <2>3. QED
    BY <1>1, <2>2, ErrorStays
<1>3. BodyOfAttempt'
  <2>1. SUFFICES ASSUME NEW k \in Keys, NEW n \in Attempts, StatusOf(k, n)' # "ABSENT"
                 PROVE  body'[AttemptId(k, n)].key = k
    BY DEF BodyOfAttempt, StatusOf
  <2> DEFINE w == AttemptId(k, n)
  <2>2. w \in WfIds
    BY AttemptIdType
  <2>3. CASE UNCHANGED body
    <3>1. CASE status[w] # "ABSENT"
      BY <2>3, <3>1 DEF BodyOfAttempt, StatusOf
    <3>2. CASE status[w] = "ABSENT"
      <4>1. PICK c \in Callers : Invoke(c) /\ wf[c] = w
        BY <1>1, <2>1, <2>2, <3>2, StatusMoves DEF StatusOf
      <4>2. /\ KeyOf(req[c]) = k
            /\ body' = [body EXCEPT ![w] = [plan |-> req[c].plan, key |-> KeyOf(req[c])]]
        BY <3>2, <4>1, InvokedInOrder DEF Invoke
      <4>3. QED
        BY <1>1, <2>2, <4>2 DEF TypeInv, TypeOK
    <3>3. QED
      BY <3>1, <3>2
  <2>4. ASSUME NEW c \in Callers, Invoke(c), status[wf[c]] = "ABSENT"
        PROVE  body'[w].key = k
    <3>1. /\ body' = [body EXCEPT ![wf[c]] = [plan |-> req[c].plan, key |-> KeyOf(req[c])]]
          /\ status' = [status EXCEPT ![wf[c]] = "PENDING"]
          /\ wf[c] \in WfIds
      BY <1>1, <2>4 DEF Invoke, TypeInv, CallsTyped
    <3>2. CASE wf[c] = w
      BY <1>1, <2>2, <2>4, <3>1, <3>2, InvokedInOrder DEF TypeInv, TypeOK
    <3>3. CASE wf[c] # w
      <4>1. status[w] # "ABSENT" /\ body'[w] = body[w]
        BY <1>1, <2>1, <2>2, <3>1, <3>3 DEF StatusOf, TypeInv, TypeOK
      <4>2. QED
        BY <4>1 DEF BodyOfAttempt, StatusOf
    <3>4. QED
      BY <3>2, <3>3
  <2>5. UNCHANGED body \/ \E c \in Callers : Invoke(c) /\ status[wf[c]] = "ABSENT"
    <3>1. ASSUME NEW c \in Callers, CallStep(c)
          PROVE  UNCHANGED body \/ (Invoke(c) /\ status[wf[c]] = "ABSENT")
      BY <3>1 DEF CallStep, StartCall, RefuseKey, Lookup, LookupFails, StepPast, GiveUp,
                  Invoke, Return, dbosVars
    <3>2. ASSUME NEW v \in WfIds, RunStep(v)
          PROVE  UNCHANGED body
      BY <3>2 DEF RunStep, Post, ConnectFails, Timeout, Checkpoint, Finish, dbosVars
    <3>3. ASSUME NEW p \in net, SellerStep(p)
          PROVE  UNCHANGED body
      BY <3>3 DEF SellerStep, SellerBooks, SellerRejects, SellerReplays, dbosVars
    <3>4. ASSUME Crash \/ Restart \/ UNCHANGED vars
          PROVE  UNCHANGED body
      BY <3>4 DEF Crash, Restart, Recover, vars, dbosVars
    <3>5. QED
      BY <3>1, <3>2, <3>3, <3>4 DEF Next
  <2>6. QED
    BY <2>3, <2>4, <2>5
<1>4. QED
  BY <1>1, <1>2, <1>3

\* Attempts are made in order if no two of them share a workflow id.
THEOREM AttemptsAreOrdered ==
    ASSUME SuffixFree
    PROVE  Spec => []AttemptsInOrder
<1>1. OrderInv /\ [Next]_vars => OrderInv'
  BY OrderStep
<1>2. OrderInv => AttemptsInOrder
  BY DEF OrderInv
<1>3. QED
  BY <1>1, <1>2, OrderInit, PTL DEF Spec

\* In order, at most one attempt is under way or has succeeded.
LEMMA OrderIsSingle == AttemptsInOrder => SingleFlight
<1> SUFFICES ASSUME AttemptsInOrder, NEW k \in Keys, NEW m \in Attempts, NEW n \in Attempts, m # n
             PROVE  \/ StatusOf(k, m) \in {"ABSENT", "ERROR"}
                    \/ StatusOf(k, n) \in {"ABSENT", "ERROR"}
  BY DEF SingleFlight
<1>1. m < n \/ n < m
  BY DEF Attempts
<1>2. QED
  BY <1>1 DEF AttemptsInOrder

\* No two workflows of one wire key are under way, or under way and settled.
THEOREM FlightsAreSingle ==
    ASSUME SuffixFree
    PROVE  Spec => []SingleFlight
BY AttemptsAreOrdered, OrderIsSingle, PTL

-----------------------------------------------------------------------------
(* A settled key stays settled. *)

\* A workflow that is executed is pending, and no attempt of its key has
\* succeeded.
LEMMA RunIsUnsettled ==
    ASSUME OrderInv, NEW w \in WfIds, exec[w] # "idle"
    PROVE  /\ status[w] = "PENDING"
           /\ body[w].key \in Keys /\ ~Settled(body[w].key)
<1> USE DEF OrderInv, CallInv, TypeInv, BodiesTyped
<1>1. status[w] = "PENDING" /\ body[w].key \in Keys
  BY DEF Bodies
<1>2. PICK k \in Keys, n \in Attempts : w = AttemptId(k, n)
  BY WfIdOfAttempt
<1>3. body[w].key = k /\ StatusOf(k, n) = "PENDING"
  BY <1>1, <1>2 DEF BodyOfAttempt, StatusOf
<1>4. ASSUME NEW m \in Attempts, StatusOf(k, m) = "SUCCESS"
      PROVE  FALSE
  BY <1>3, <1>4, OrderIsSingle DEF SingleFlight
<1>5. QED
  BY <1>1, <1>3, <1>4 DEF Settled

\* The action formula of SettledStaysSettled.
SettledStays ==
    \A k \in Keys : Settled(k) =>
        /\ sent'[k] = sent[k]
        /\ \A n \in Attempts : StatusOf(k, n) = "SUCCESS" =>
              /\ status'[AttemptId(k, n)] = "SUCCESS"
              /\ saved'[AttemptId(k, n)] = saved[AttemptId(k, n)]

LEMMA SettledStep ==
    ASSUME OrderInv, [Next]_vars
    PROVE  SettledStays
<1>1. TypeInv /\ TypeOK
  BY DEF OrderInv, CallInv, TypeInv
<1>2. \/ UNCHANGED sent
      \/ \E w \in WfIds : /\ exec[w] # "idle"
                          /\ sent' = [sent EXCEPT ![body[w].key] = @ + 1]
  <2>1. ASSUME NEW w \in WfIds, RunStep(w)
        PROVE  \/ UNCHANGED sent
               \/ exec[w] # "idle" /\ sent' = [sent EXCEPT ![body[w].key] = @ + 1]
    BY <2>1 DEF RunStep, Post, ConnectFails, Timeout, Checkpoint, Finish, wireVars
  <2>2. ASSUME NEW c \in Callers, CallStep(c)
        PROVE  UNCHANGED sent
    BY <2>2 DEF CallStep, StartCall, RefuseKey, Lookup, LookupFails, StepPast, GiveUp,
                Invoke, Return, wireVars
  <2>3. ASSUME NEW p \in net, SellerStep(p)
        PROVE  UNCHANGED sent
    BY <2>3 DEF SellerStep, SellerBooks, SellerRejects, SellerReplays
  <2>4. ASSUME Crash \/ Restart \/ UNCHANGED vars
        PROVE  UNCHANGED sent
    BY <2>4 DEF Crash, Restart, Recover, vars, wireVars
  <2>5. QED
    BY <2>1, <2>2, <2>3, <2>4 DEF Next
<1>3. \/ UNCHANGED saved
      \/ \E w \in WfIds : /\ exec[w] # "idle"
                          /\ \A v \in WfIds \ {w} : saved'[v] = saved[v]
  <2>1. ASSUME NEW w \in WfIds, RunStep(w)
        PROVE  \/ UNCHANGED saved
               \/ exec[w] # "idle" /\ \A v \in WfIds \ {w} : saved'[v] = saved[v]
    BY <1>1, <2>1 DEF RunStep, Post, ConnectFails, Timeout, FailTry, EndTry, Checkpoint,
                      Finish, dbosVars, TypeOK
  <2>2. ASSUME NEW c \in Callers, CallStep(c)
        PROVE  UNCHANGED saved
    BY <2>2 DEF CallStep, StartCall, RefuseKey, Lookup, LookupFails, StepPast, GiveUp,
                Invoke, Return, dbosVars
  <2>3. ASSUME NEW p \in net, SellerStep(p)
        PROVE  UNCHANGED saved
    BY <2>3 DEF SellerStep, SellerBooks, SellerRejects, SellerReplays, dbosVars
  <2>4. ASSUME Crash \/ Restart \/ UNCHANGED vars
        PROVE  UNCHANGED saved
    BY <2>4 DEF Crash, Restart, Recover, vars, dbosVars
  <2>5. QED
    BY <2>1, <2>2, <2>3, <2>4 DEF Next
<1>4. ASSUME NEW k \in Keys, Settled(k)
      PROVE  sent'[k] = sent[k]
  BY <1>1, <1>2, <1>4, RunIsUnsettled DEF TypeOK
<1>5. ASSUME NEW k \in Keys, NEW n \in Attempts, StatusOf(k, n) = "SUCCESS"
      PROVE  /\ status'[AttemptId(k, n)] = "SUCCESS"
             /\ saved'[AttemptId(k, n)] = saved[AttemptId(k, n)]
  <2>1. AttemptId(k, n) \in WfIds /\ status[AttemptId(k, n)] = "SUCCESS"
    BY <1>5, AttemptIdType DEF StatusOf
  <2>2. status'[AttemptId(k, n)] = "SUCCESS"
    BY <1>1, <2>1, FinalStays DEF Final
  <2>3. saved'[AttemptId(k, n)] = saved[AttemptId(k, n)]
    BY <1>3, <2>1, RunIsUnsettled
  <2>4. QED
    BY <2>2, <2>3
<1>6. QED
  BY <1>4, <1>5 DEF SettledStays

\* After a success no step contacts the seller under that key again, and the
\* recorded answer stays.
THEOREM SettledIsFinal ==
    ASSUME SuffixFree
    PROVE  Spec => SettledStaysSettled
<1>1. OrderInv /\ [Next]_vars => OrderInv'
  BY OrderStep
<1>2. OrderInv /\ [Next]_vars => [SettledStays]_vars
  BY SettledStep
<1>3. Spec => [][SettledStays]_vars
  BY <1>1, <1>2, OrderInit, PTL DEF Spec
<1>4. QED
  BY <1>3 DEF SettledStaysSettled, SettledStays
=============================================================================
