---------------------------- MODULE BookingProofs ----------------------------
(***************************************************************************)
(* What the seller books, what a call is told of it and how often the      *)
(* seller is contacted, for any callers, requests, bounds, crashes and     *)
(* gateway faults: a plan is booked once, a call that reports success      *)
(* holds its own booking, and retries are bounded.                         *)
(***************************************************************************)
EXTENDS DurableBuyProofs, Integers

\* Request r, if it is not refused, is what workflow input b carries.
Carries(b, r) == ~Malformed(r) /\ b.plan = r.plan /\ b.key = KeyOf(r)

\* The booking a seller makes for workflow input b.
BookingFor(b) == [key |-> b.key, canon |-> Canon[b.plan]]

-----------------------------------------------------------------------------
(* The ledger.  Every recorded workflow carries a request of a caller, every *)
(* booking is of such a workflow, and the seller books a key once.           *)

BodiesRequested ==
    \A w \in WfIds : status[w] # "ABSENT" => \E r \in Requests : Carries(body[w], r)

LedgerRequested ==
    \A b \in ledger : \E r \in Requests :
        ~Malformed(r) /\ b.key = KeyOf(r) /\ b.canon = Canon[r.plan]

LedgerOnce == \A a, b \in ledger : a.key = b.key => a = b

LedgerInv == TypeInv /\ BodiesRequested /\ LedgerRequested /\ LedgerOnce

\* The input of a workflow is written once, by the call that inserts its row.
LEMMA BodyMoves ==
    ASSUME TypeInv, [Next]_vars, NEW w \in WfIds
    PROVE  \/ body'[w] = body[w]
           \/ /\ status[w] = "ABSENT"
              /\ \E c \in Callers :
                    /\ Invoke(c) /\ wf[c] = w
                    /\ body'[w] = [plan |-> req[c].plan, key |-> KeyOf(req[c])]
<1> USE DEF TypeInv, TypeOK, CallsTyped
<1>1. ASSUME NEW c \in Callers, Invoke(c)
      PROVE  \/ body'[w] = body[w]
             \/ /\ status[w] = "ABSENT" /\ wf[c] = w
                /\ body'[w] = [plan |-> req[c].plan, key |-> KeyOf(req[c])]
  <2>1. CASE wf[c] = w /\ status[w] = "ABSENT"
    BY <1>1, <2>1 DEF Invoke
  <2>2. CASE ~(wf[c] = w /\ status[w] = "ABSENT")
    BY <1>1, <2>2 DEF Invoke
  <2>3. QED
    BY <2>1, <2>2
<1>2. ASSUME NEW c \in Callers, CallStep(c)
      PROVE  UNCHANGED body \/ Invoke(c)
  BY <1>2 DEF CallStep, StartCall, RefuseKey, Lookup, LookupFails, StepPast, GiveUp,
              Return, dbosVars
<1>3. ASSUME NEW v \in WfIds, RunStep(v)
      PROVE  UNCHANGED body
  BY <1>3 DEF RunStep, Post, ConnectFails, Timeout, Checkpoint, Finish, dbosVars
<1>4. ASSUME NEW p \in net, SellerStep(p)
      PROVE  UNCHANGED body
  BY <1>4 DEF SellerStep, SellerBooks, SellerRejects, SellerReplays, dbosVars
<1>5. ASSUME Crash \/ Restart \/ UNCHANGED vars
      PROVE  UNCHANGED body
  BY <1>5 DEF Crash, Restart, Recover, vars, dbosVars
<1>6. QED
  BY <1>1, <1>2, <1>3, <1>4, <1>5 DEF Next

\* The ledger grows by the booking of a recorded workflow whose key is free.
LEMMA LedgerMoves ==
    ASSUME TypeInv, [Next]_vars
    PROVE  \/ UNCHANGED ledger
           \/ \E p \in net : /\ p[1] \in WfIds /\ status[p[1]] # "ABSENT"
                             /\ BookingsOf(body[p[1]].key) = {}
                             /\ ledger' = ledger \cup {BookingFor(body[p[1]])}
<1>1. ASSUME NEW c \in Callers, CallStep(c)
      PROVE  UNCHANGED ledger
  BY <1>1 DEF CallStep, StartCall, RefuseKey, Lookup, LookupFails, StepPast, GiveUp,
              Invoke, Return, wireVars
<1>2. ASSUME NEW v \in WfIds, RunStep(v)
      PROVE  UNCHANGED ledger
  BY <1>2 DEF RunStep, Post, ConnectFails, Timeout, Checkpoint, Finish, wireVars
<1>3. ASSUME NEW p \in net, SellerStep(p)
      PROVE  \/ UNCHANGED ledger
             \/ /\ BookingsOf(body[p[1]].key) = {}
                /\ ledger' = ledger \cup {BookingFor(body[p[1]])}
  BY <1>3 DEF SellerStep, SellerBooks, SellerRejects, SellerReplays, BookingFor
<1>4. ASSUME NEW p \in net
      PROVE  p[1] \in WfIds /\ status[p[1]] # "ABSENT"
  BY DEF TypeInv, TypeOK, BodiesTyped
<1>5. ASSUME Crash \/ Restart \/ UNCHANGED vars
      PROVE  UNCHANGED ledger
  BY <1>5 DEF Crash, Restart, Recover, vars, wireVars
<1>6. QED
  BY <1>1, <1>2, <1>3, <1>4, <1>5 DEF Next

LEMMA LedgerInit == Init => LedgerInv
BY TypeInit DEF Init, LedgerInv, BodiesRequested, LedgerRequested, LedgerOnce

LEMMA LedgerStep == LedgerInv /\ [Next]_vars => LedgerInv'
<1> SUFFICES ASSUME LedgerInv, [Next]_vars PROVE LedgerInv'
  OBVIOUS
<1>1. TypeInv /\ TypeInv'
  BY TypeStep DEF LedgerInv
<1>2. BodiesRequested'
  <2>1. SUFFICES ASSUME NEW w \in WfIds, status'[w] # "ABSENT"
                 PROVE  \E r \in Requests : Carries(body'[w], r)
    BY DEF BodiesRequested, Carries
  <2>2. CASE body'[w] = body[w] /\ status[w] # "ABSENT"
    BY <2>2 DEF LedgerInv, BodiesRequested
  <2>3. ASSUME NEW c \in Callers, Invoke(c),
               body'[w] = [plan |-> req[c].plan, key |-> KeyOf(req[c])]
        PROVE  \E r \in Requests : Carries(body'[w], r)
    <3>1. req[c] \in Requests /\ ~Malformed(req[c])
      BY <1>1, <2>3 DEF Invoke, TypeInv, TypeOK, CallsTyped
    <3>2. Carries(body'[w], req[c])
      BY <2>3, <3>1 DEF Carries
    <3>3. QED
      BY <3>1, <3>2
  <2>4. CASE status[w] = "ABSENT"
    <3>1. PICK c \in Callers : Invoke(c) /\ wf[c] = w
      BY <1>1, <2>1, <2>4, StatusMoves
    <3>2. body'[w] = [plan |-> req[c].plan, key |-> KeyOf(req[c])]
      BY <1>1, <2>4, <3>1 DEF Invoke, TypeInv, TypeOK
    <3>3. QED
      BY <2>3, <3>1, <3>2
  <2>5. QED
    BY <1>1, <2>2, <2>4, BodyMoves
<1>3. CASE UNCHANGED ledger
  BY <1>1, <1>2, <1>3 DEF LedgerInv, LedgerRequested, LedgerOnce
<1>4. CASE ~UNCHANGED ledger
  <2>1. PICK p \in net : /\ p[1] \in WfIds /\ status[p[1]] # "ABSENT"
                         /\ BookingsOf(body[p[1]].key) = {}
                         /\ ledger' = ledger \cup {BookingFor(body[p[1]])}
    BY <1>1, <1>4, LedgerMoves
  <2> DEFINE new == BookingFor(body[p[1]])
  <2>2. PICK r \in Requests : Carries(body[p[1]], r)
    BY <2>1 DEF LedgerInv, BodiesRequested
  <2>3. new.key = KeyOf(r) /\ new.canon = Canon[r.plan] /\ ~Malformed(r)
    BY <2>2 DEF BookingFor, Carries
  <2>4. \A b \in ledger : b.key # new.key
    BY <2>1 DEF BookingsOf, BookingFor
  <2>5. LedgerRequested'
    BY <2>1, <2>3 DEF LedgerInv, LedgerRequested
  <2>6. LedgerOnce'
    BY <2>1, <2>4 DEF LedgerInv, LedgerOnce
  <2>7. QED
    BY <1>1, <1>2, <2>5, <2>6 DEF LedgerInv
<1>5. QED
  BY <1>3, <1>4

\* Two bookings of one canonical plan under derived keys have one key, and a
\* key is booked once.
LEMMA LedgerIsOnePerPlan == LedgerInv => OneBuyPerPlan
<1> SUFFICES ASSUME LedgerInv, NEW a \in ledger, NEW b \in ledger, a.canon = b.canon,
                    \A r \in Requests : r.override \notin {a.key, b.key}
             PROVE  a = b
  BY DEF OneBuyPerPlan
<1>1. ASSUME NEW x \in ledger, \A r \in Requests : r.override # x.key
      PROVE  x.key = << x.canon >>
  <2>1. PICK r \in Requests : x.key = KeyOf(r) /\ x.canon = Canon[r.plan]
    BY DEF LedgerInv, LedgerRequested
  <2>2. r.override = NoKey
    BY <1>1, <2>1 DEF KeyOf
  <2>3. QED
    BY <2>1, <2>2 DEF KeyOf, JcsKey
<1>2. a.key = b.key
  BY <1>1
<1>3. QED
  BY <1>2 DEF LedgerInv, LedgerOnce

\* However many callers, calls, retries, crashes and rotated credentials there
\* are, a canonical plan is booked once under derived keys.
THEOREM PlansAreBookedOnce == Spec => []OneBuyPerPlan
<1>1. Spec => []LedgerInv
  BY LedgerInit, LedgerStep, PTL DEF Spec
<1>2. QED
  BY <1>1, LedgerIsOnePerPlan, PTL

-----------------------------------------------------------------------------
(* Success.  An answer that reads as a success names the booking made for   *)
(* the workflow it is an answer to, on its way from the seller to the       *)
(* caller: as the reply that arrived, as the checkpoint, as what is         *)
(* returned.                                                                *)

\* What a gateway gives in place of the seller's answer is never a JSON object
\* under a 2xx status: that would be a forged booking.
NothingForged == \A r \in Faults : r.status \notin 200..299 \/ r.kind # "object"

\* One key names one canonical plan.  Derived keys do by construction; supplied
\* ones if callers "supply a distinct key per intended buy" (executor.py:111).
KeyNamesPlan ==
    \A q, r \in Requests :
        ~Malformed(q) /\ ~Malformed(r) /\ KeyOf(q) = KeyOf(r) => Canon[q.plan] = Canon[r.plan]

\* Exchange x, read as a success, names the one of the bookings that is for
\* workflow input b.
Own(x, b, bookings) == IsSuccess(x) =>
    /\ x.media_buy_id \in bookings
    /\ x.media_buy_id.key = b.key
    /\ x.media_buy_id.canon = Canon[b.plan]

RepliesOwn ==
    \A w \in WfIds : reply[w] # NoReply =>
        status[w] # "ABSENT" /\ Own(RestExchange(reply[w]), body[w], ledger)

SavedOwn ==
    \A w \in WfIds :
        /\ exec[w] = "done" \/ saved[w] # NoReply =>
              status[w] # "ABSENT" /\ (saved[w] = StepFailed \/ Own(saved[w], body[w], ledger))
        /\ status[w] = "SUCCESS" => Own(saved[w], body[w], ledger)

ReplyInv == OrderInv /\ LedgerInv /\ RepliesOwn /\ SavedOwn

LEMMA ReplyInit == Init => ReplyInv
BY OrderInit, LedgerInit DEF Init, ReplyInv, RepliesOwn, SavedOwn

\* What is a workflow's own booking stays its own, once the workflow is recorded.
LEMMA OwnStays ==
    ASSUME LedgerInv, [Next]_vars, NEW w \in WfIds, NEW x,
           status[w] # "ABSENT", Own(x, body[w], ledger)
    PROVE  Own(x, body'[w], ledger')
<1>1. body'[w] = body[w]
  BY BodyMoves DEF LedgerInv
<1>2. \A b \in ledger : b \in ledger'
  BY LedgerMoves DEF LedgerInv
<1>3. QED
  BY <1>1, <1>2 DEF Own

\* A record, once there, stays.
LEMMA RecordedStays ==
    ASSUME TypeInv, [Next]_vars, NEW w \in WfIds, status[w] # "ABSENT"
    PROVE  status'[w] # "ABSENT"
BY StatusMoves DEF Final

\* A redirect, a failure, a page or an envelope does not read as a success.
LEMMA OnlyPayloadsSucceed ==
    ASSUME NEW r, r.status \notin 200..299 \/ r.kind # "object"
    PROVE  ~IsSuccess(RestExchange(r))
BY DEF IsSuccess, IsError, HttpFailed, RestExchange

\* What the gateway or the seller answers is no success, or the booking itself.
LEMMA AnswerIsOwnBooking ==
    ASSUME NothingForged, NEW w \in WfIds, NEW r, NEW a \in {r} \cup Faults,
           \/ r.kind = "envelope"
           \/ \E b \in ledger' : /\ b.key = body'[w].key
                                 /\ b.canon = Canon[body'[w].plan]
                                 /\ r = Response(200, "object", b)
    PROVE  Own(RestExchange(a), body'[w], ledger')
<1>1. CASE a.status \notin 200..299 \/ a.kind # "object"
  BY <1>1, OnlyPayloadsSucceed DEF Own
<1>2. CASE ~(a.status \notin 200..299 \/ a.kind # "object")
  <2>1. a = r
    BY <1>2 DEF NothingForged
  <2>2. PICK b \in ledger' : /\ b.key = body'[w].key
                             /\ b.canon = Canon[body'[w].plan]
                             /\ r = Response(200, "object", b)
    BY <1>2, <2>1
  <2>3. RestExchange(a).media_buy_id = b
    BY <2>1, <2>2 DEF Response, RestExchange
  <2>4. QED
    BY <2>2, <2>3 DEF Own
<1>3. QED
  BY <1>1, <1>2

\* A step in which no reply arrives.
LEMMA RepliesOwnStay ==
    ASSUME ReplyInv, [Next]_vars, NEW w \in WfIds, reply'[w] \in {reply[w], NoReply},
           reply'[w] # NoReply
    PROVE  status'[w] # "ABSENT" /\ Own(RestExchange(reply[w]), body'[w], ledger')
<1>1. status[w] # "ABSENT" /\ Own(RestExchange(reply[w]), body[w], ledger)
  BY DEF ReplyInv, RepliesOwn
<1>2. QED
  BY <1>1, OwnStays, RecordedStays DEF ReplyInv, LedgerInv

\* A seller's step: the reply that may arrive is to the POST it handles.
LEMMA SellerRepliesOwn ==
    ASSUME NothingForged, ReplyInv, [Next]_vars, NEW p \in net, SellerStep(p)
    PROVE  RepliesOwn'
<1> DEFINE w == p[1]
<1>1. /\ TypeInv /\ w \in WfIds /\ status[w] # "ABSENT" /\ body[w] \in Bodies
      /\ reply \in [WfIds -> Replies \cup {NoReply}]
  BY DEF ReplyInv, LedgerInv, TypeInv, TypeOK, BodiesTyped
<1>2. UNCHANGED << status, body >>
  BY DEF SellerStep, SellerBooks, SellerRejects, SellerReplays, dbosVars
<1>3. ASSUME NEW r, Answer(p, r),
             \/ r.kind = "envelope"
             \/ \E b \in ledger' : /\ b.key = body'[w].key
                                   /\ b.canon = Canon[body'[w].plan]
                                   /\ r = Response(200, "object", b)
      PROVE  RepliesOwn'
  <2>1. SUFFICES ASSUME NEW v \in WfIds, reply'[v] # NoReply
                 PROVE  status'[v] # "ABSENT" /\ Own(RestExchange(reply'[v]), body'[v], ledger')
    BY DEF RepliesOwn
  <2>2. CASE reply'[v] = reply[v]
    <3>1. status'[v] # "ABSENT" /\ Own(RestExchange(reply[v]), body'[v], ledger')
      BY <2>1, <2>2, RepliesOwnStay
    <3>2. QED
      BY <2>2, <3>1
  <2>3. CASE reply'[v] # reply[v]
    <3>1. PICK a \in {r} \cup Faults : reply' = [reply EXCEPT ![w] = a]
      BY <1>3, <2>3 DEF Answer
    <3>2. v = w /\ reply'[v] = a
      BY <1>1, <2>3, <3>1
    <3>3. Own(RestExchange(a), body'[w], ledger')
      BY <1>1, <1>3, AnswerIsOwnBooking
    <3>4. QED
      BY <1>1, <1>2, <3>2, <3>3
  <2>4. QED
    BY <2>2, <2>3
<1>4. CASE SellerBooks(p)
  <2> DEFINE b == [key |-> body[w].key, canon |-> Canon[body[w].plan]]
  <2>1. Answer(p, Response(200, "object", b)) /\ b \in ledger'
    BY <1>4 DEF SellerBooks
  <2>2. b.key = body'[w].key /\ b.canon = Canon[body'[w].plan]
    BY <1>2
  <2>3. QED
    BY <1>3, <2>1, <2>2
<1>5. CASE SellerRejects(p)
  <2>1. Answer(p, Response(400, "envelope", NoBuy))
    BY <1>5 DEF SellerRejects
  <2>2. Response(400, "envelope", NoBuy).kind = "envelope"
    BY DEF Response
  <2>3. QED
    BY <1>3, <2>1, <2>2
<1>6. CASE SellerReplays(p)
  <2>1. PICK b \in BookingsOf(body[w].key) :
           Answer(p, IF b.canon = Canon[body[w].plan]
                       THEN Response(200, "object", b)
                       ELSE Response(409, "envelope", NoBuy))
    BY <1>6 DEF SellerReplays
  <2>2. b \in ledger' /\ b.key = body'[w].key
    BY <1>2, <1>6 DEF BookingsOf, SellerReplays
  <2>3. CASE b.canon = Canon[body[w].plan]
    BY <1>2, <1>3, <2>1, <2>2, <2>3
  <2>4. CASE b.canon # Canon[body[w].plan]
    <3>1. Answer(p, Response(409, "envelope", NoBuy))
      BY <2>1, <2>4
    <3>2. Response(409, "envelope", NoBuy).kind = "envelope"
      BY DEF Response
    <3>3. QED
      BY <1>3, <3>1, <3>2
  <2>5. QED
    BY <2>3, <2>4
<1>7. QED
  BY <1>4, <1>5, <1>6 DEF SellerStep

LEMMA RepliesStep ==
    ASSUME NothingForged, ReplyInv, [Next]_vars
    PROVE  RepliesOwn'
<1>1. CASE \E p \in net : SellerStep(p)
  BY <1>1, SellerRepliesOwn
<1>2. CASE \A w \in WfIds : reply'[w] \in {reply[w], NoReply}
  <2>1. SUFFICES ASSUME NEW w \in WfIds, reply'[w] # NoReply
                 PROVE  status'[w] # "ABSENT" /\ Own(RestExchange(reply'[w]), body'[w], ledger')
    BY DEF RepliesOwn
  <2>2. reply'[w] = reply[w]
    BY <1>2, <2>1
  <2>3. status'[w] # "ABSENT" /\ Own(RestExchange(reply[w]), body'[w], ledger')
    BY <1>2, <2>1, RepliesOwnStay
  <2>4. QED
    BY <2>2, <2>3
<1>3. TypeOK
  BY DEF ReplyInv, LedgerInv, TypeInv
<1>4. ASSUME NEW c \in Callers, CallStep(c)
      PROVE  UNCHANGED reply
  BY <1>4 DEF CallStep, StartCall, RefuseKey, Lookup, LookupFails, StepPast, GiveUp,
              Invoke, Return, runVars
<1>5. ASSUME NEW v \in WfIds, RunStep(v)
      PROVE  \A w \in WfIds : reply'[w] \in {reply[w], NoReply}
  BY <1>3, <1>5 DEF RunStep, Post, ConnectFails, Timeout, Checkpoint, Finish, TypeOK
<1>6. ASSUME Crash \/ Restart \/ UNCHANGED vars
      PROVE  \A w \in WfIds : reply'[w] \in {reply[w], NoReply}
  BY <1>6 DEF Crash, Restart, Recover, vars, runVars
<1>7. QED
  BY <1>1, <1>2, <1>4, <1>5, <1>6 DEF Next

\* A workflow whose checkpoint and executor a step leaves alone.
LEMMA SavedOwnStays ==
    ASSUME ReplyInv, [Next]_vars, NEW w \in WfIds,
           saved'[w] = saved[w],
           exec'[w] = "done" => exec[w] = "done" \/ saved[w] # NoReply,
           status'[w] = "SUCCESS" =>
               status[w] = "SUCCESS" \/ (exec[w] = "done" /\ saved[w] # StepFailed)
    PROVE  /\ exec'[w] = "done" \/ saved'[w] # NoReply =>
                /\ status'[w] # "ABSENT"
                /\ saved'[w] = StepFailed \/ Own(saved'[w], body'[w], ledger')
           /\ status'[w] = "SUCCESS" => Own(saved'[w], body'[w], ledger')
<1>1. ASSUME status[w] # "ABSENT", Own(saved[w], body[w], ledger)
      PROVE  Own(saved[w], body'[w], ledger')
  BY <1>1, OwnStays DEF ReplyInv
<1>2. ASSUME exec'[w] = "done" \/ saved'[w] # NoReply
      PROVE  /\ status'[w] # "ABSENT"
             /\ saved'[w] = StepFailed \/ Own(saved'[w], body'[w], ledger')
  <2>1. status[w] # "ABSENT" /\ (saved[w] = StepFailed \/ Own(saved[w], body[w], ledger))
    BY <1>2 DEF ReplyInv, SavedOwn
  <2>2. QED
    BY <1>1, <2>1, RecordedStays DEF ReplyInv, LedgerInv
<1>3. ASSUME status'[w] = "SUCCESS"
      PROVE  Own(saved'[w], body'[w], ledger')
  <2>1. status[w] # "ABSENT" /\ Own(saved[w], body[w], ledger)
    BY <1>3 DEF ReplyInv, SavedOwn
  <2>2. QED
    BY <1>1, <2>1
<1>4. QED
  BY <1>2, <1>3

LEMMA SavedStep ==
    ASSUME ReplyInv, [Next]_vars
    PROVE  SavedOwn'
<1>1. TypeInv /\ TypeOK /\ BodiesTyped
  BY DEF ReplyInv, LedgerInv, TypeInv
<1> DEFINE Kept(v) ==
        /\ saved'[v] = saved[v]
        /\ exec'[v] = "done" => exec[v] = "done" \/ saved[v] # NoReply
        /\ status'[v] = "SUCCESS" =>
               status[v] = "SUCCESS" \/ (exec[v] = "done" /\ saved[v] # StepFailed)
        Holds(v) ==
        /\ exec'[v] = "done" \/ saved'[v] # NoReply =>
              /\ status'[v] # "ABSENT"
              /\ saved'[v] = StepFailed \/ Own(saved'[v], body'[v], ledger')
        /\ status'[v] = "SUCCESS" => Own(saved'[v], body'[v], ledger')
<1>2. ASSUME NEW v \in WfIds, Kept(v)
      PROVE  Holds(v)
  BY <1>2, SavedOwnStays
<1>3. SUFFICES ASSUME NEW v \in WfIds PROVE Holds(v)
  BY DEF SavedOwn
<1>4. ASSUME NEW c \in Callers, CallStep(c)
      PROVE  Kept(v)
  <2>1. CASE Invoke(c)
    <3>1. /\ UNCHANGED saved
          /\ exec'[v] = "done" => exec[v] = "done"
          /\ status'[v] = "SUCCESS" => status[v] = "SUCCESS"
      BY <1>1, <2>1 DEF Invoke, TypeOK
    <3>2. QED
      BY <3>1
  <2>2. CASE UNCHANGED << saved, exec, status >>
    BY <2>2
  <2>3. QED
    BY <1>4, <2>1, <2>2 DEF CallStep, StartCall, RefuseKey, Lookup, LookupFails, StepPast,
                            GiveUp, Return, dbosVars, runVars
<1>5. ASSUME NEW w \in WfIds, RunStep(w)
      PROVE  Holds(v)
  <2>1. CASE Post(w)
    BY <1>2, <2>1 DEF Post, dbosVars
  <2>2. CASE (ConnectFails(w) \/ Timeout(w)) /\ w = v
    <3>1. \/ UNCHANGED << exec, saved, status >>
          \/ /\ exec[v] = "run" /\ saved'[v] = StepFailed /\ UNCHANGED status
      BY <1>1, <2>2 DEF ConnectFails, Timeout, FailTry, EndTry, TypeOK
    <3>2. CASE UNCHANGED << exec, saved, status >>
      BY <1>2, <3>2
    <3>3. CASE exec[v] = "run" /\ saved'[v] = StepFailed /\ UNCHANGED status
      BY <1>1, <3>3 DEF BodiesTyped
    <3>4. QED
      BY <3>1, <3>2, <3>3
  <2>3. CASE Checkpoint(w) /\ w = v
    <3>1. /\ exec[v] = "run" /\ reply[v] # NoReply /\ UNCHANGED << status, body, ledger >>
          /\ saved'[v] = RestExchange(reply[v])
      BY <1>1, <2>3 DEF Checkpoint, TypeOK, wireVars
    <3>2. status[v] = "PENDING" /\ Own(RestExchange(reply[v]), body[v], ledger)
      BY <1>1, <3>1 DEF ReplyInv, RepliesOwn, BodiesTyped
    <3>3. QED
      BY <3>1, <3>2
  <2>4. CASE (ConnectFails(w) \/ Timeout(w) \/ Checkpoint(w)) /\ w # v
    <3>1. saved'[v] = saved[v] /\ exec'[v] = exec[v] /\ UNCHANGED status
      BY <1>1, <2>4 DEF ConnectFails, Timeout, FailTry, EndTry, Checkpoint, TypeOK
    <3>2. QED
      BY <1>2, <3>1
  <2>5. CASE Finish(w)
    <3>1. /\ UNCHANGED saved
          /\ exec'[v] = "done" => exec[v] = "done"
          /\ status'[v] = "SUCCESS" =>
                status[v] = "SUCCESS" \/ (exec[v] = "done" /\ saved[v] # StepFailed)
      BY <1>1, <2>5 DEF Finish, TypeOK
    <3>2. QED
      BY <1>2, <3>1
  <2>6. QED
    BY <1>5, <2>1, <2>2, <2>3, <2>4, <2>5 DEF RunStep
<1>6. ASSUME NEW p \in net, SellerStep(p)
      PROVE  Kept(v)
  BY <1>6 DEF SellerStep, SellerBooks, SellerRejects, SellerReplays, dbosVars
<1>7. ASSUME Crash \/ Restart \/ UNCHANGED vars
      PROVE  Kept(v)
  BY <1>7 DEF Crash, Restart, Recover, vars, dbosVars, runVars
<1>8. QED
  BY <1>2, <1>4, <1>5, <1>6, <1>7 DEF Next

LEMMA ReplyStep ==
    ASSUME SuffixFree, NothingForged, ReplyInv, [Next]_vars
    PROVE  ReplyInv'
BY OrderStep, LedgerStep, RepliesStep, SavedStep DEF ReplyInv

-----------------------------------------------------------------------------
(* What the calls are told.                                                 *)

AnswerInv == ReplyInv /\ SuccessIsOwnBooking

\* What a call returns is the checkpoint of an attempt of its own key, whose
\* input is of its own canonical plan.
LEMMA ReturnsOwn ==
    ASSUME KeyNamesPlan, AnswerInv, NEW c \in Callers, Return(c), status[wf[c]] = "SUCCESS"
    PROVE  Own(saved[wf[c]], [plan |-> req[c].plan, key |-> KeyOf(req[c])], ledger)
<1>1. /\ pc[c] = "wait" /\ wf[c] \in WfIds
      /\ req[c] \in Requests /\ ~Malformed(req[c]) /\ KeyOf(req[c]) \in Keys
  BY KeyOfRequest DEF Return, AnswerInv, ReplyInv, LedgerInv, TypeInv, TypeOK, CallsTyped
<1>2. PICK n \in Attempts : wf[c] = AttemptId(KeyOf(req[c]), n)
  BY <1>1 DEF AnswerInv, ReplyInv, OrderInv, CallInv, CallsOrdered
<1>3. body[wf[c]].key = KeyOf(req[c])
  BY <1>1, <1>2 DEF AnswerInv, ReplyInv, OrderInv, BodyOfAttempt, StatusOf
<1>4. PICK r \in Requests : Carries(body[wf[c]], r)
  BY <1>1 DEF AnswerInv, ReplyInv, LedgerInv, BodiesRequested
<1>5. Canon[body[wf[c]].plan] = Canon[req[c].plan]
  BY <1>1, <1>3, <1>4 DEF KeyNamesPlan, Carries
<1>6. Own(saved[wf[c]], body[wf[c]], ledger)
  BY <1>1 DEF AnswerInv, ReplyInv, SavedOwn
<1>7. QED
  BY <1>3, <1>5, <1>6 DEF Own

LEMMA SuccessStep ==
    ASSUME KeyNamesPlan, AnswerInv, [Next]_vars
    PROVE  SuccessIsOwnBooking'
<1>1. \A b \in ledger : b \in ledger'
  BY LedgerMoves DEF AnswerInv, ReplyInv, LedgerInv
<1>2. TypeOK
  BY DEF AnswerInv, ReplyInv, LedgerInv, TypeInv
<1> DEFINE Holds(d) == outcome'[d] = "answered" /\ IsSuccess(answer'[d]) =>
        /\ answer'[d].media_buy_id \in ledger'
        /\ answer'[d].media_buy_id.key = KeyOf(req'[d])
        /\ answer'[d].media_buy_id.canon = Canon[req'[d].plan]
<1>3. SUFFICES ASSUME NEW d \in Callers PROVE Holds(d)
  BY DEF SuccessIsOwnBooking, IsSuccess, IsError, HttpFailed, KeyOf, JcsKey
<1>4. ASSUME outcome'[d] = "answered" =>
                outcome[d] = "answered" /\ answer'[d] = answer[d] /\ req'[d] = req[d]
      PROVE  Holds(d)
  BY <1>1, <1>4 DEF AnswerInv, SuccessIsOwnBooking
<1>5. ASSUME NEW c \in Callers, CallStep(c)
      PROVE  Holds(d)
  <2>1. CASE Return(c) /\ c = d /\ status[wf[c]] = "SUCCESS"
    <3>1. answer'[d] = saved[wf[d]] /\ UNCHANGED << req, ledger >>
      BY <1>2, <2>1 DEF Return, wireVars, TypeOK
    <3>2. Own(saved[wf[d]], [plan |-> req[d].plan, key |-> KeyOf(req[d])], ledger)
      BY <2>1, ReturnsOwn
    <3>3. QED
      BY <3>1, <3>2 DEF Own
  <2>2. CASE ~(Return(c) /\ c = d /\ status[wf[c]] = "SUCCESS")
    <3>1. outcome'[d] = "answered" =>
             outcome[d] = "answered" /\ answer'[d] = answer[d] /\ req'[d] = req[d]
      BY <1>2, <1>5, <2>2 DEF CallStep, StartCall, RefuseKey, Lookup, LookupFails, StepPast,
                              GiveUp, Invoke, Return, TypeOK
    <3>2. QED
      BY <1>4, <3>1
  <2>3. QED
    BY <2>1, <2>2
<1>6. ASSUME NEW w \in WfIds, RunStep(w)
      PROVE  UNCHANGED << outcome, answer, req >>
  BY <1>6 DEF RunStep, Post, ConnectFails, Timeout, Checkpoint, Finish, callerVars
<1>7. ASSUME NEW p \in net, SellerStep(p)
      PROVE  UNCHANGED << outcome, answer, req >>
  BY <1>7 DEF SellerStep, SellerBooks, SellerRejects, SellerReplays, callerVars
<1>8. ASSUME Crash \/ Restart \/ UNCHANGED vars
      PROVE  /\ outcome'[d] = "answered" => outcome[d] = "answered"
             /\ UNCHANGED << answer, req >>
  BY <1>8 DEF Crash, Restart, Recover, vars, callerVars
<1>9. QED
  BY <1>4, <1>5, <1>6, <1>7, <1>8 DEF Next

LEMMA AnswerStep ==
    ASSUME SuffixFree, NothingForged, KeyNamesPlan, AnswerInv, [Next]_vars
    PROVE  AnswerInv'
BY ReplyStep, SuccessStep DEF AnswerInv

\* A call that reports success holds a booking the seller really has, under the
\* key and for the canonical plan of that very call, if no two attempts share
\* an id, no gateway forges bookings and one key names one plan.
THEOREM SuccessesAreOwn ==
    ASSUME SuffixFree, NothingForged, KeyNamesPlan
    PROVE  Spec => []SuccessIsOwnBooking
<1>1. AnswerInv /\ [Next]_vars => AnswerInv'
  BY AnswerStep
<1>2. AnswerInv => SuccessIsOwnBooking
  BY DEF AnswerInv
<1>3. Init => AnswerInv
  BY ReplyInit DEF AnswerInv, Init, SuccessIsOwnBooking
<1>4. QED
  BY <1>1, <1>2, <1>3, PTL DEF Spec

-----------------------------------------------------------------------------
(* How often the executor contacts the seller under one key.               *)

\* The POSTs n attempts may have made after c crashes.
Quota(n, c) == StepTries * (n + c)

\* An attempt more, or a crash more, is worth one round of tries.
LEMMA QuotaGrows ==
    ASSUME NEW n \in Nat, NEW c \in Nat
    PROVE  /\ Quota(n, c) \in Nat
           /\ Quota(n + 1, c) = Quota(n, c) + StepTries
           /\ Quota(n, c + 1) = Quota(n, c) + StepTries
<1>1. StepTries \in Nat
  BY BoundsAssumption
<1>2. Quota(n, c) \in Nat
  BY <1>1 DEF Quota
<1>3. StepTries * ((n + 1) + c) = StepTries * (n + c) + StepTries
  BY <1>1
<1>4. StepTries * (n + (c + 1)) = StepTries * (n + c) + StepTries
  BY <1>1
<1>5. QED
  BY <1>2, <1>3, <1>4 DEF Quota

LEMMA QuotaMonotone ==
    ASSUME NEW m \in Nat, NEW n \in Nat, NEW c \in Nat, m <= n
    PROVE  Quota(m, c) <= Quota(n, c)
<1>1. PICK d \in Nat : n + c = (m + c) + d
  <2>1. n - m \in Nat /\ n + c = (m + c) + (n - m)
    OBVIOUS
  <2>2. QED
    BY <2>1
<1>2. StepTries \in Nat
  BY BoundsAssumption
<1>3. StepTries * ((m + c) + d) = StepTries * (m + c) + StepTries * d
  BY <1>2
<1>4. StepTries * d \in Nat /\ StepTries * (m + c) \in Nat
  BY <1>2
<1>5. QED
  BY <1>1, <1>3, <1>4 DEF Quota

-----------------------------------------------------------------------------
(* What the process holds in memory of the workflows it runs.              *)

\* A workflow runs if and only if it is pending and the process is up, it has
\* used up no more tries than it has, and it starts with none used.
RunsTyped ==
    /\ \A c \in Callers : ~up => pc[c] = "idle"
    /\ \A w \in WfIds :
         /\ status[w] = "ABSENT" \/ ~up => tries[w] = 0 /\ waiting[w] = 0
         /\ ~up => exec[w] = "idle"
         /\ exec[w] = "run" => tries[w] < StepTries
         /\ up /\ status[w] = "PENDING" => exec[w] # "idle"

RunInv == TypeInv /\ RunsTyped

LEMMA RunInit == Init => RunInv
BY TypeInit DEF Init, RunInv, RunsTyped

LEMMA RunInvStep == RunInv /\ [Next]_vars => RunInv'
<1> SUFFICES ASSUME RunInv, [Next]_vars PROVE RunInv'
  OBVIOUS
<1>1. TypeInv /\ TypeInv'
  BY TypeStep DEF RunInv
<1>2. StepTries \in Nat /\ StepTries > 0
  BY BoundsAssumption
<1> USE DEF RunInv, TypeInv, TypeOK, CallsTyped, BodiesTyped, RunsTyped
<1>3. ASSUME NEW c \in Callers, CallStep(c)
      PROVE  RunsTyped'
  <2>1. CASE StartCall(c)
    BY <1>1, <2>1 DEF StartCall, runVars, dbosVars, procVars
  <2>2. CASE Invoke(c)
    <3>1. /\ up /\ wf[c] \in WfIds /\ pc' = [pc EXCEPT ![c] = "wait"]
          /\ UNCHANGED << up, tries, waiting >>
      BY <1>1, <2>2 DEF Invoke, procVars
    <3>2. CASE status[wf[c]] = "ABSENT"
      <4>1. /\ status' = [status EXCEPT ![wf[c]] = "PENDING"]
            /\ exec' = [exec EXCEPT ![wf[c]] = "run"]
        BY <2>2, <3>2 DEF Invoke
      <4>2. QED
        BY <1>1, <1>2, <3>1, <3>2, <4>1
    <3>3. CASE status[wf[c]] # "ABSENT"
      <4>1. UNCHANGED << status, exec >>
        BY <2>2, <3>3 DEF Invoke
      <4>2. QED
        BY <1>1, <3>1, <4>1
    <3>4. QED
      BY <3>2, <3>3
  <2>3. CASE RefuseKey(c) \/ Lookup(c) \/ LookupFails(c) \/ GiveUp(c) \/ Return(c)
    <3>1. /\ UNCHANGED << up, tries, waiting, exec, status >>
          /\ \A d \in Callers : pc[d] = "idle" => pc'[d] = "idle"
      BY <1>1, <2>3 DEF RefuseKey, Lookup, LookupFails, StepPast, GiveUp, Return,
                        runVars, dbosVars, procVars
    <3>2. QED
      BY <1>1, <3>1
  <2>4. QED
    BY <1>3, <2>1, <2>2, <2>3 DEF CallStep
<1>4. ASSUME NEW w \in WfIds, RunStep(w)
      PROVE  RunsTyped'
  <2>1. UNCHANGED << up, pc >> /\ up /\ status[w] = "PENDING"
    BY <1>1, <1>4 DEF RunStep, Post, ConnectFails, Timeout, Checkpoint, Finish,
                      procVars, callerVars
  <2>2. CASE Post(w)
    BY <1>1, <2>1, <2>2 DEF Post, dbosVars
  <2>3. CASE ConnectFails(w) \/ Timeout(w)
    <3>1. /\ tries' = [tries EXCEPT ![w] = @ + 1] /\ exec[w] = "run"
          /\ \/ tries[w] + 1 < StepTries /\ UNCHANGED exec
             \/ exec' = [exec EXCEPT ![w] = "done"]
          /\ UNCHANGED status
      BY <1>1, <1>2, <2>3 DEF ConnectFails, Timeout, FailTry, EndTry
    <3>2. waiting' \in [WfIds -> Nat] /\ \A v \in WfIds \ {w} : waiting'[v] = waiting[v]
      BY <1>1, <2>3 DEF ConnectFails, Timeout
    <3>3. QED
      BY <1>1, <2>1, <3>1, <3>2
  <2>4. CASE Checkpoint(w)
    BY <1>1, <2>1, <2>4 DEF Checkpoint
  <2>5. CASE Finish(w)
    <3>1. status' = [status EXCEPT ![w] = IF saved[w] = StepFailed THEN "ERROR" ELSE "SUCCESS"]
      BY <2>5 DEF Finish
    <3>2. QED
      BY <1>1, <2>1, <2>5, <3>1 DEF Finish
  <2>6. QED
    BY <1>4, <2>2, <2>3, <2>4, <2>5 DEF RunStep
<1>5. ASSUME NEW p \in net, SellerStep(p)
      PROVE  RunsTyped'
  <2>1. UNCHANGED << up, pc, exec, tries, waiting, status >>
    BY <1>5 DEF SellerStep, SellerBooks, SellerRejects, SellerReplays,
                callerVars, dbosVars, procVars
  <2>2. QED
    BY <2>1
<1>6. CASE Crash
  BY <1>1, <1>6 DEF Crash, dbosVars
<1>7. CASE Restart
  BY <1>1, <1>2, <1>7 DEF Restart, Recover, callerVars, dbosVars
<1>8. CASE UNCHANGED vars
  BY <1>1, <1>8 DEF vars, callerVars, runVars, dbosVars, procVars
<1>9. QED
  BY <1>1, <1>3, <1>4, <1>5, <1>6, <1>7, <1>8 DEF Next

-----------------------------------------------------------------------------
(* The POSTs under a key.  Each attempt in turn has StepTries of them, and  *)
(* the attempt under way has them anew after a crash.                       *)

\* The POSTs the executor may still make for workflow w before it crashes.
Left(w) ==
    IF exec[w] = "done" THEN 0
    ELSE StepTries - (tries[w] + (IF waiting[w] = 0 THEN 0 ELSE 1))

\* If no attempt after n was begun, n attempts made all POSTs there were.
SentWithin ==
    \A k \in Keys : \A n \in 0 .. MaxAttempts :
        (\A m \in Attempts : m > n => StatusOf(k, m) = "ABSENT") =>
            sent[k] <= Quota(n, crashes)

\* The attempt under way has the POSTs in reserve that it may still make.
RoundsWithin ==
    \A k \in Keys : \A n \in Attempts :
        StatusOf(k, n) = "PENDING" =>
            sent[k] + Left(AttemptId(k, n)) <= Quota(n, crashes)

PostsInv == OrderInv /\ RunInv /\ SentWithin /\ RoundsWithin

LEMMA PostsInit == Init => PostsInv
<1> SUFFICES ASSUME Init PROVE PostsInv
  OBVIOUS
<1>1. SentWithin
  <2>1. SUFFICES ASSUME NEW k \in Keys, NEW n \in 0 .. MaxAttempts
                 PROVE  sent[k] <= Quota(n, crashes)
    BY DEF SentWithin
  <2>2. sent[k] = 0 /\ crashes = 0
    BY DEF Init
  <2>3. Quota(n, 0) \in Nat
    BY QuotaGrows, BoundsAssumption
  <2>4. QED
    BY <2>2, <2>3
<1>2. RoundsWithin
  BY AttemptIdType DEF Init, RoundsWithin, StatusOf
<1>3. QED
  BY <1>1, <1>2, OrderInit, RunInit DEF PostsInv

LEMMA LeftType ==
    ASSUME RunInv, NEW w \in WfIds, status[w] = "PENDING"
    PROVE  Left(w) \in 0 .. StepTries
<1> USE BoundsAssumption DEF RunInv, TypeInv, TypeOK, RunsTyped, Left
<1>1. CASE exec[w] = "done"
  BY <1>1
<1>2. CASE exec[w] = "run"
  BY <1>2
<1>3. CASE exec[w] = "idle"
  BY <1>3
<1>4. QED
  BY <1>1, <1>2, <1>3

\* A step that POSTs nothing, begins nothing and gives no try back.
LEMMA PostsQuiet ==
    ASSUME PostsInv, [Next]_vars, UNCHANGED << sent, crashes >>,
           \A w \in WfIds : status'[w] = "PENDING" =>
               status[w] = "PENDING" /\ Left(w)' <= Left(w)
    PROVE  SentWithin' /\ RoundsWithin'
<1>1. RunInv /\ RunInv' /\ TypeInv
  BY RunInvStep DEF PostsInv, RunInv
<1>2. sent \in [Keys -> Nat] /\ crashes \in Nat
  BY <1>1 DEF TypeInv, TypeOK
<1>3. SentWithin'
  <2>1. SUFFICES ASSUME NEW k \in Keys, NEW n \in 0 .. MaxAttempts,
                        \A m \in Attempts : m > n => StatusOf(k, m)' = "ABSENT"
                 PROVE  sent[k] <= Quota(n, crashes)
    BY DEF SentWithin, Quota
  <2>2. \A m \in Attempts : m > n => StatusOf(k, m) = "ABSENT"
    BY <1>1, <2>1, AttemptIdType, StatusMoves DEF StatusOf, Final
  <2>3. QED
    BY <2>2 DEF PostsInv, SentWithin
<1>4. RoundsWithin'
  <2>1. SUFFICES ASSUME NEW k \in Keys, NEW n \in Attempts, StatusOf(k, n)' = "PENDING"
                 PROVE  sent[k] + Left(AttemptId(k, n))' <= Quota(n, crashes)
    BY DEF RoundsWithin, Quota, Left
  <2> DEFINE w == AttemptId(k, n)
  <2>2. /\ w \in WfIds /\ status[w] = "PENDING" /\ status'[w] = "PENDING"
        /\ Left(w)' <= Left(w)
    BY <2>1, AttemptIdType DEF StatusOf
  <2>3. sent[k] + Left(w) <= Quota(n, crashes)
    BY <2>2 DEF PostsInv, RoundsWithin, StatusOf
  <2>4. Left(w) \in 0 .. StepTries /\ StepTries \in Nat
    BY <1>1, <2>2, LeftType, BoundsAssumption
  <2>5. Left(w)' \in Int
    <3>1. StepTries \in Nat /\ tries'[w] \in Nat
      BY <1>1, <2>2, BoundsAssumption DEF RunInv, TypeInv, TypeOK
    <3>2. QED
      BY <3>1 DEF Left
  <2>6. Quota(n, crashes) \in Nat
    <3>1. n \in Nat
      BY DEF Attempts
    <3>2. QED
      BY <1>2, <3>1, QuotaGrows
  <2>7. QED
    BY <1>2, <2>2, <2>3, <2>4, <2>5, <2>6
<1>5. QED
  BY <1>3, <1>4

\* A POST is one of those the attempt had in reserve.
LEMMA PostsPost ==
    ASSUME SuffixFree, PostsInv, [Next]_vars, NEW w \in WfIds, Post(w)
    PROVE  SentWithin' /\ RoundsWithin'
<1>1. TypeOK /\ RunInv /\ OrderInv
  BY DEF PostsInv, RunInv, TypeInv
<1>2. PICK k \in Keys, n \in Attempts : w = AttemptId(k, n)
  BY WfIdOfAttempt
<1>3. /\ exec[w] = "run" /\ waiting[w] = 0 /\ status[w] = "PENDING"
      /\ StatusOf(k, n) = "PENDING" /\ body[w].key = k
  BY <1>1, <1>2 DEF Post, RunInv, TypeInv, BodiesTyped, OrderInv, BodyOfAttempt, StatusOf
<1>4. /\ sent' = [sent EXCEPT ![k] = @ + 1]
      /\ waiting' = [waiting EXCEPT ![w] = sent[k] + 1]
      /\ UNCHANGED << exec, tries, status, crashes >>
  BY <1>3 DEF Post, dbosVars, procVars
<1>5. /\ sent \in [Keys -> Nat] /\ crashes \in Nat /\ tries[w] \in Nat
      /\ waiting \in [WfIds -> Nat] /\ n \in Nat /\ StepTries \in Nat
  BY <1>1, BoundsAssumption DEF TypeOK, Attempts
<1>6. /\ Left(w) = StepTries - tries[w] /\ tries[w] < StepTries
      /\ Left(w)' = StepTries - tries[w] - 1
  BY <1>1, <1>3, <1>4, <1>5 DEF Left, RunInv, RunsTyped
<1>7. sent[k] + Left(w) <= Quota(n, crashes)
  BY <1>2, <1>3 DEF PostsInv, RoundsWithin
<1>8. Quota(n, crashes) \in Nat
  BY <1>5, QuotaGrows
<1>9. sent[k] + 1 <= Quota(n, crashes)
  BY <1>5, <1>6, <1>7, <1>8
<1>10. SentWithin'
  <2>1. SUFFICES ASSUME NEW l \in Keys, NEW i \in 0 .. MaxAttempts,
                        \A m \in Attempts : m > i => StatusOf(l, m) = "ABSENT"
                 PROVE  sent'[l] <= Quota(i, crashes)
    BY <1>4 DEF SentWithin, Quota, StatusOf
  <2>2. CASE l # k
    BY <1>4, <1>5, <2>1, <2>2 DEF PostsInv, SentWithin
  <2>3. CASE l = k
    <3>1. n <= i /\ i \in Nat
      BY <1>3, <1>5, <2>1, <2>3
    <3>2. Quota(n, crashes) <= Quota(i, crashes) /\ Quota(i, crashes) \in Nat
      BY <1>5, <3>1, QuotaMonotone, QuotaGrows
    <3>3. sent'[l] = sent[k] + 1
      BY <1>4, <1>5, <2>3
    <3>4. QED
      BY <1>5, <1>8, <1>9, <3>2, <3>3
  <2>4. QED
    BY <2>2, <2>3
<1>11. RoundsWithin'
  <2>1. SUFFICES ASSUME NEW l \in Keys, NEW i \in Attempts, StatusOf(l, i) = "PENDING"
                 PROVE  sent'[l] + Left(AttemptId(l, i))' <= Quota(i, crashes)
    BY <1>4 DEF RoundsWithin, Quota, StatusOf, Left
  <2>2. CASE l # k
    <3>1. AttemptId(l, i) # w
      BY <1>2, <2>2, SuffixFreeIds
    <3>2. Left(AttemptId(l, i))' = Left(AttemptId(l, i))
      BY <1>4, <1>5, <3>1, AttemptIdType DEF Left
    <3>3. QED
      BY <1>4, <1>5, <2>1, <2>2, <3>2 DEF PostsInv, RoundsWithin
  <2>3. CASE l = k
    <3>1. i = n
      BY <1>1, <1>3, <2>1, <2>3, OrderIsSingle DEF OrderInv, SingleFlight
    <3>2. sent'[l] = sent[k] + 1
      BY <1>4, <1>5, <2>3
    <3>3. QED
      BY <1>2, <1>5, <1>6, <1>7, <1>8, <2>3, <3>1, <3>2
  <2>4. QED
    BY <2>2, <2>3
<1>12. QED
  BY <1>10, <1>11

\* An attempt begins with a full round, after those before it used up theirs.
LEMMA PostsInvoke ==
    ASSUME SuffixFree, PostsInv, [Next]_vars, NEW c \in Callers, Invoke(c),
           status[wf[c]] = "ABSENT"
    PROVE  SentWithin' /\ RoundsWithin'
<1>1. TypeOK /\ RunInv /\ OrderInv /\ CallInv /\ TypeInv
  BY DEF PostsInv, RunInv, TypeInv, OrderInv, CallInv
<1>2. wf[c] \in WfIds
  BY <1>1 DEF Invoke, TypeInv, CallsTyped
<1>3. PICK k \in Keys, n \in Attempts : wf[c] = AttemptId(k, n)
  BY <1>2, WfIdOfAttempt
<1> DEFINE w == AttemptId(k, n)
<1>4. /\ wf[c] = w /\ w \in WfIds /\ status[w] = "ABSENT"
      /\ status' = [status EXCEPT ![w] = "PENDING"]
      /\ exec' = [exec EXCEPT ![w] = "run"]
      /\ UNCHANGED << tries, waiting, sent, crashes >>
  BY <1>2, <1>3 DEF Invoke, wireVars, procVars
<1>5. /\ sent \in [Keys -> Nat] /\ crashes \in Nat /\ n \in Nat /\ n >= 1
      /\ n \in 1 .. MaxAttempts /\ StepTries \in Nat /\ MaxAttempts \in Nat
  BY <1>1, BoundsAssumption DEF TypeOK, Attempts
<1>6. ASSUME NEW v \in WfIds, v # w
      PROVE  status'[v] = status[v] /\ Left(v)' = Left(v)
  BY <1>1, <1>4, <1>6 DEF TypeOK, Left
<1>7. \A m \in Attempts : m > n - 1 => StatusOf(k, m) = "ABSENT"
  <2>1. SUFFICES ASSUME NEW m \in Attempts, m > n - 1, StatusOf(k, m) # "ABSENT"
                 PROVE  FALSE
    OBVIOUS
  <2>2. m = n \/ n < m
    BY <1>5, <2>1 DEF Attempts
  <2>3. QED
    BY <1>1, <1>3, <2>1, <2>2 DEF OrderInv, AttemptsInOrder, StatusOf
<1>8. sent[k] <= Quota(n - 1, crashes)
  <2>1. n - 1 \in 0 .. MaxAttempts
    BY <1>5
  <2>2. QED
    BY <1>7, <2>1 DEF PostsInv, SentWithin
<1>9. Quota(n, crashes) = Quota(n - 1, crashes) + StepTries /\ Quota(n - 1, crashes) \in Nat
  <2>1. n - 1 \in Nat /\ (n - 1) + 1 = n
    BY <1>5
  <2>2. Quota((n - 1) + 1, crashes) = Quota(n - 1, crashes) + StepTries
    BY <1>5, <2>1, QuotaGrows
  <2>3. QED
    BY <1>5, <2>1, <2>2, QuotaGrows
<1>10. Left(w)' = StepTries
  BY <1>1, <1>4, <1>5 DEF Left, RunInv, RunsTyped, TypeOK
<1>11. SentWithin'
  <2>1. SUFFICES ASSUME NEW l \in Keys, NEW i \in 0 .. MaxAttempts,
                        \A m \in Attempts : m > i => StatusOf(l, m)' = "ABSENT"
                 PROVE  sent[l] <= Quota(i, crashes)
    BY <1>4 DEF SentWithin, Quota
  <2>2. \A m \in Attempts : m > i => StatusOf(l, m) = "ABSENT"
    BY <1>1, <2>1, AttemptIdType, StatusMoves DEF StatusOf, Final
  <2>3. QED
    BY <2>2 DEF PostsInv, SentWithin
<1>12. RoundsWithin'
  <2>1. SUFFICES ASSUME NEW l \in Keys, NEW i \in Attempts, StatusOf(l, i)' = "PENDING"
                 PROVE  sent[l] + Left(AttemptId(l, i))' <= Quota(i, crashes)
    BY <1>4 DEF RoundsWithin, Quota, Left
  <2>2. AttemptId(l, i) \in WfIds
    BY AttemptIdType
  <2>3. CASE AttemptId(l, i) = w
    <3>1. l = k /\ i = n
      <4>1. AttemptId(l, i) = AttemptId(k, n)
        BY <1>3, <2>3
      <4>2. QED
        BY <4>1, SuffixFreeIds
    <3>2. QED
      BY <1>5, <1>8, <1>9, <1>10, <2>3, <3>1
  <2>4. CASE AttemptId(l, i) # w
    <3>1. StatusOf(l, i) = "PENDING" /\ Left(AttemptId(l, i))' = Left(AttemptId(l, i))
      BY <1>6, <2>1, <2>2, <2>4 DEF StatusOf
    <3>2. QED
      BY <3>1 DEF PostsInv, RoundsWithin
  <2>5. QED
    BY <2>3, <2>4
<1>13. QED
  BY <1>11, <1>12

\* A crash gives the attempt under way a new round.
LEMMA PostsCrash ==
    ASSUME PostsInv, [Next]_vars, Crash
    PROVE  SentWithin' /\ RoundsWithin'
<1>1. TypeOK /\ RunInv
  BY DEF PostsInv, RunInv, TypeInv
<1>2. /\ exec' = [v \in WfIds |-> "idle"]
      /\ tries' = [v \in WfIds |-> 0]
      /\ waiting' = [v \in WfIds |-> 0]
      /\ crashes' = crashes + 1
      /\ UNCHANGED << status, sent >>
  BY DEF Crash, dbosVars, wireVars
<1>3. sent \in [Keys -> Nat] /\ crashes \in Nat /\ StepTries \in Nat
  BY <1>1, BoundsAssumption DEF TypeOK
<1>4. ASSUME NEW n \in Nat
      PROVE  Quota(n, crashes + 1) = Quota(n, crashes) + StepTries /\ Quota(n, crashes) \in Nat
  BY <1>3, QuotaGrows
<1>5. SentWithin'
  <2>1. SUFFICES ASSUME NEW k \in Keys, NEW n \in 0 .. MaxAttempts,
                        \A m \in Attempts : m > n => StatusOf(k, m) = "ABSENT"
                 PROVE  sent[k] <= Quota(n, crashes + 1)
    BY <1>2 DEF SentWithin, Quota, StatusOf
  <2>2. sent[k] <= Quota(n, crashes) /\ n \in Nat
    BY <2>1 DEF PostsInv, SentWithin
  <2>3. QED
    BY <1>3, <1>4, <2>2
<1>6. RoundsWithin'
  <2>1. SUFFICES ASSUME NEW k \in Keys, NEW n \in Attempts, StatusOf(k, n) = "PENDING"
                 PROVE  sent[k] + Left(AttemptId(k, n))' <= Quota(n, crashes + 1)
    BY <1>2 DEF RoundsWithin, Quota, StatusOf, Left
  <2>2. /\ AttemptId(k, n) \in WfIds /\ n \in Nat
        /\ status[AttemptId(k, n)] = "PENDING"
    BY <2>1, AttemptIdType DEF Attempts, StatusOf
  <2>3. sent[k] + Left(AttemptId(k, n)) <= Quota(n, crashes)
    BY <2>1 DEF PostsInv, RoundsWithin
  <2>4. Left(AttemptId(k, n)) \in 0 .. StepTries
    BY <1>1, <2>2, LeftType
  <2>5. Left(AttemptId(k, n))' = StepTries
    BY <1>2, <1>3, <2>2 DEF Left
  <2>6. QED
    BY <1>3, <1>4, <2>2, <2>3, <2>4, <2>5
<1>7. QED
  BY <1>5, <1>6

LEMMA PostsStep ==
    ASSUME SuffixFree, PostsInv, [Next]_vars
    PROVE  PostsInv'
<1>1. OrderInv' /\ RunInv'
  BY OrderStep, RunInvStep DEF PostsInv
<1>2. TypeOK /\ TypeInv /\ RunInv /\ StepTries \in Nat /\ StepTries > 0
  BY BoundsAssumption DEF PostsInv, RunInv, TypeInv
<1> DEFINE Quiet ==
        /\ UNCHANGED << sent, crashes >>
        /\ \A w \in WfIds : status'[w] = "PENDING" =>
              status[w] = "PENDING" /\ Left(w)' <= Left(w)
<1>3. ASSUME Quiet
      PROVE  SentWithin' /\ RoundsWithin'
  BY <1>3, PostsQuiet
<1>4. ASSUME NEW w \in WfIds, status[w] = "PENDING"
      PROVE  Left(w) \in 0 .. StepTries
  BY <1>2, <1>4, LeftType
<1>5. ASSUME UNCHANGED << sent, crashes, status, exec, tries, waiting >>
      PROVE  Quiet
  <2>1. \A w \in WfIds : Left(w)' = Left(w)
    BY <1>5 DEF Left
  <2>2. QED
    BY <1>4, <1>5, <2>1
<1>6. ASSUME NEW c \in Callers, CallStep(c)
      PROVE  SentWithin' /\ RoundsWithin'
  <2>1. CASE Invoke(c) /\ status[wf[c]] = "ABSENT"
    BY <2>1, PostsInvoke
  <2>2. CASE ~(Invoke(c) /\ status[wf[c]] = "ABSENT")
    BY <1>3, <1>5, <1>6, <2>2 DEF CallStep, StartCall, RefuseKey, Lookup, LookupFails,
        StepPast, GiveUp, Invoke, Return, runVars, dbosVars, wireVars, procVars
  <2>3. QED
    BY <2>1, <2>2
<1>7. ASSUME NEW v \in WfIds, RunStep(v)
      PROVE  SentWithin' /\ RoundsWithin'
  <2>1. CASE Post(v)
    BY <2>1, PostsPost
  <2>2. CASE ConnectFails(v) \/ Timeout(v) \/ Checkpoint(v)
    <3>1. /\ UNCHANGED << sent, crashes, status >> /\ exec[v] = "run" /\ status[v] = "PENDING"
      BY <1>2, <2>2 DEF ConnectFails, Timeout, Checkpoint, FailTry, EndTry, wireVars,
                        procVars, TypeInv, BodiesTyped
    <3>2. Left(v)' <= Left(v)
      <4>1. CASE exec'[v] = "done"
        BY <1>2, <1>4, <3>1, <4>1 DEF Left
      <4>2. CASE exec'[v] # "done"
        <5>1. CASE ConnectFails(v)
          <6>1. /\ waiting[v] = 0 /\ UNCHANGED << waiting, exec >>
                /\ tries'[v] = tries[v] + 1 /\ tries[v] \in Nat
            BY <1>2, <4>2, <5>1 DEF ConnectFails, FailTry, EndTry, TypeOK
          <6>2. QED
            BY <1>2, <3>1, <6>1 DEF Left
        <5>2. CASE Timeout(v)
          <6>1. /\ waiting[v] # 0 /\ waiting'[v] = 0 /\ UNCHANGED exec
                /\ tries'[v] = tries[v] + 1 /\ tries[v] \in Nat
            BY <1>2, <4>2, <5>2 DEF Timeout, FailTry, EndTry, TypeOK
          <6>2. QED
            BY <1>2, <3>1, <6>1 DEF Left
        <5>3. CASE Checkpoint(v)
          BY <1>2, <4>2, <5>3 DEF Checkpoint, TypeOK
        <5>4. QED
          BY <2>2, <5>1, <5>2, <5>3
      <4>3. QED
        BY <4>1, <4>2
    <3>3. ASSUME NEW w \in WfIds, w # v
          PROVE  Left(w)' = Left(w)
      BY <1>2, <2>2, <3>3 DEF ConnectFails, Timeout, Checkpoint, FailTry, EndTry, TypeOK, Left
    <3>4. ASSUME NEW w \in WfIds, status'[w] = "PENDING"
          PROVE  status[w] = "PENDING" /\ Left(w)' <= Left(w)
      <4>1. status[w] = "PENDING" /\ Left(w) \in 0 .. StepTries
        BY <1>4, <3>1, <3>4
      <4>2. CASE w = v
        BY <3>2, <4>1, <4>2
      <4>3. CASE w # v
        BY <1>2, <3>3, <4>1, <4>3
      <4>4. QED
        BY <4>2, <4>3
    <3>5. QED
      BY <1>3, <3>1, <3>4
  <2>3. CASE Finish(v)
    <3>1. /\ UNCHANGED << sent, crashes, tries, waiting >>
          /\ \A w \in WfIds : status'[w] = "PENDING" =>
                w # v /\ status[w] = "PENDING" /\ exec'[w] = exec[w]
      BY <1>2, <2>3 DEF Finish, wireVars, procVars, TypeOK
    <3>2. ASSUME NEW w \in WfIds, status'[w] = "PENDING"
          PROVE  status[w] = "PENDING" /\ Left(w)' <= Left(w)
      <4>1. status[w] = "PENDING" /\ Left(w)' = Left(w)
        BY <3>1, <3>2 DEF Left
      <4>2. QED
        BY <1>2, <1>4, <4>1
    <3>3. QED
      BY <1>3, <3>1, <3>2
  <2>4. QED
    BY <1>7, <2>1, <2>2, <2>3 DEF RunStep
<1>8. ASSUME NEW p \in net, SellerStep(p)
      PROVE  SentWithin' /\ RoundsWithin'
  <2>1. UNCHANGED << sent, crashes, status, exec, tries, waiting >>
    BY <1>8 DEF SellerStep, SellerBooks, SellerRejects, SellerReplays, dbosVars, procVars
  <2>2. QED
    BY <1>3, <1>5, <2>1
<1>9. ASSUME Crash
      PROVE  SentWithin' /\ RoundsWithin'
  BY <1>9, PostsCrash
<1>10. ASSUME Restart
       PROVE  SentWithin' /\ RoundsWithin'
  <2>1. /\ UNCHANGED << sent, crashes, status, tries, waiting >>
        /\ \A w \in WfIds : exec[w] = "idle"
        /\ \A w \in WfIds : exec'[w] \in {"idle", "run", "done"}
    BY <1>2, <1>10 DEF Restart, Recover, dbosVars, wireVars, RunInv, RunsTyped
  <2>2. ASSUME NEW w \in WfIds, status'[w] = "PENDING"
        PROVE  status[w] = "PENDING" /\ Left(w)' <= Left(w)
    <3>1. status[w] = "PENDING" /\ Left(w) \in 0 .. StepTries
      BY <1>4, <2>1, <2>2
    <3>2. Left(w)' = 0 \/ Left(w)' = Left(w)
      BY <2>1 DEF Left
    <3>3. QED
      BY <1>2, <3>1, <3>2
  <2>3. QED
    BY <1>3, <2>1, <2>2
<1>11. ASSUME UNCHANGED vars
       PROVE  SentWithin' /\ RoundsWithin'
  BY <1>3, <1>5, <1>11 DEF vars, runVars, dbosVars, wireVars, procVars
<1>12. SentWithin' /\ RoundsWithin'
  BY <1>6, <1>7, <1>8, <1>9, <1>10, <1>11 DEF Next
<1>13. QED
  BY <1>1, <1>12 DEF PostsInv

\* If no two attempts share a workflow id, the seller is contacted under a key
\* at most StepTries times per attempt, plus one round of tries per crash.
THEOREM PostsAreBounded ==
    ASSUME SuffixFree
    PROVE  Spec => []PostsBounded
<1>1. PostsInv /\ [Next]_vars => PostsInv'
  BY PostsStep
<1>2. PostsInv => PostsBounded
  <2>1. SUFFICES ASSUME PostsInv, NEW k \in Keys
                 PROVE  sent[k] <= StepTries * (MaxAttempts + crashes)
    BY DEF PostsBounded
  <2>2. MaxAttempts \in 0 .. MaxAttempts
    BY BoundsAssumption
  <2>3. \A m \in Attempts : ~(m > MaxAttempts)
    BY BoundsAssumption DEF Attempts
  <2>4. QED
    BY <2>1, <2>2, <2>3 DEF PostsInv, SentWithin, Quota
<1>3. QED
  BY <1>1, <1>2, PostsInit, PTL DEF Spec
=============================================================================
