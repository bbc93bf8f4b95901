---------------------------- MODULE BuyOnceProofs ----------------------------
(***************************************************************************)
(* The durable executor implements BuyOnce, for any callers, requests,     *)
(* bounds, crashes and gateway faults.                                     *)
(***************************************************************************)
EXTENDS BookingProofs

-----------------------------------------------------------------------------
(* Nothing comes back for a key under which nothing was sent.              *)

Posted(w) == sent[body[w].key] > 0

SentBefore ==
    /\ \A p \in net : Posted(p[1])
    /\ \A w \in WfIds : reply[w] # NoReply => Posted(w)
    /\ \A w \in WfIds :
         exec[w] = "done" \/ saved[w] # NoReply => saved[w] = StepFailed \/ Posted(w)

OnceInv == ReplyInv /\ SentBefore

LEMMA OnceInit == Init => OnceInv
BY ReplyInit DEF Init, OnceInv, SentBefore

\* A recorded workflow that POSTed has done so for good.
LEMMA PostedStays ==
    ASSUME TypeInv, [Next]_vars, NEW w \in WfIds, status[w] # "ABSENT", Posted(w)
    PROVE  Posted(w)'
<1>1. body'[w] = body[w] /\ body[w].key \in Keys
  BY BodyMoves DEF TypeInv, BodiesTyped, Bodies
<1>2. sent \in [Keys -> Nat]
  BY DEF TypeInv, TypeOK
<1>3. \/ UNCHANGED sent
      \/ \E k \in Keys : sent' = [sent EXCEPT ![k] = @ + 1]
  <2>1. ASSUME NEW v \in WfIds, Post(v)
        PROVE  \E k \in Keys : sent' = [sent EXCEPT ![k] = @ + 1]
    BY <2>1 DEF Post, TypeInv, BodiesTyped, Bodies
  <2>2. ASSUME NEW v \in WfIds, RunStep(v)
        PROVE  UNCHANGED sent \/ Post(v)
    BY <2>2 DEF RunStep, ConnectFails, Timeout, Checkpoint, Finish, wireVars
  <2>3. ASSUME NEW c \in Callers, CallStep(c)
        PROVE  UNCHANGED sent
    BY <2>3 DEF CallStep, StartCall, RefuseKey, Lookup, LookupFails, StepPast, GiveUp,
                Invoke, Return, wireVars
  <2>4. ASSUME NEW p \in net, SellerStep(p)
        PROVE  UNCHANGED sent
    BY <2>4 DEF SellerStep, SellerBooks, SellerRejects, SellerReplays
  <2>5. ASSUME Crash \/ Restart \/ UNCHANGED vars
        PROVE  UNCHANGED sent
    BY <2>5 DEF Crash, Restart, Recover, vars, wireVars
  <2>6. QED
    BY <2>1, <2>2, <2>3, <2>4, <2>5 DEF Next
<1>4. sent'[body[w].key] >= sent[body[w].key] /\ sent'[body[w].key] \in Nat
  BY <1>1, <1>2, <1>3
<1>5. QED
  BY <1>1, <1>2, <1>4 DEF Posted

LEMMA SentStep ==
    ASSUME OnceInv, [Next]_vars
    PROVE  SentBefore'
<1>1. TypeInv /\ TypeOK /\ BodiesTyped /\ RepliesOwn /\ SavedOwn
  BY DEF OnceInv, ReplyInv, LedgerInv, TypeInv
<1>2. ASSUME NEW w \in WfIds, status[w] # "ABSENT", Posted(w)
      PROVE  Posted(w)'
  BY <1>1, <1>2, PostedStays
<1>3. ASSUME NEW p \in net
      PROVE  p[1] \in WfIds /\ Posted(p[1])'
  BY <1>1, <1>2 DEF OnceInv, SentBefore, TypeOK, BodiesTyped
<1>4. ASSUME NEW w \in WfIds, reply[w] # NoReply
      PROVE  Posted(w)'
  BY <1>1, <1>2, <1>4 DEF OnceInv, SentBefore, RepliesOwn
<1>5. ASSUME NEW w \in WfIds, exec[w] = "done" \/ saved[w] # NoReply
      PROVE  saved[w] = StepFailed \/ Posted(w)'
  BY <1>1, <1>2, <1>5 DEF OnceInv, SentBefore, SavedOwn
<1>6. ASSUME UNCHANGED << net, saved >>,
             \A w \in WfIds : reply'[w] \in {reply[w], NoReply},
             \A w \in WfIds : exec'[w] = "done" => exec[w] = "done" \/ saved[w] # NoReply
      PROVE  SentBefore'
  BY <1>3, <1>4, <1>5, <1>6 DEF SentBefore, Posted
<1>7. ASSUME NEW c \in Callers, CallStep(c)
      PROVE  SentBefore'
  <2>1. UNCHANGED << net, saved, reply >>
    BY <1>7 DEF CallStep, StartCall, RefuseKey, Lookup, LookupFails, StepPast, GiveUp,
                Invoke, Return, runVars, dbosVars, wireVars
  <2>2. \A w \in WfIds : exec'[w] = "done" => exec[w] = "done"
    BY <1>1, <1>7 DEF CallStep, StartCall, RefuseKey, Lookup, LookupFails, StepPast, GiveUp,
                      Invoke, Return, runVars, TypeOK
  <2>3. QED
    BY <1>6, <2>1, <2>2
<1>8. ASSUME NEW w \in WfIds, RunStep(w)
      PROVE  SentBefore'
  <2>1. CASE Post(w)
    <3>1. /\ UNCHANGED << reply, exec, saved >>
          /\ net' = net \cup {<< w, sent[body[w].key] + 1 >>}
      BY <2>1 DEF Post, dbosVars
    <3>2. Posted(w)'
      <4>1. body[w].key \in Keys /\ sent \in [Keys -> Nat]
        BY <1>1, <2>1 DEF Post, TypeOK, BodiesTyped, Bodies
      <4>2. sent'[body[w].key] = sent[body[w].key] + 1 /\ UNCHANGED body
        BY <2>1, <4>1 DEF Post, dbosVars
      <4>3. QED
        BY <4>1, <4>2 DEF Posted
    <3>3. \A p \in net' : p \in net \/ p[1] = w
      BY <3>1
    <3>4. \A p \in net' : Posted(p[1])'
      BY <1>3, <3>2, <3>3 DEF Posted
    <3>5. QED
      BY <1>4, <1>5, <3>1, <3>4 DEF SentBefore, Posted
  <2>2. CASE ConnectFails(w) \/ Timeout(w) \/ Checkpoint(w)
    <3>1. /\ UNCHANGED net
          /\ \A v \in WfIds : reply'[v] \in {reply[v], NoReply}
      BY <1>1, <2>2 DEF ConnectFails, Timeout, Checkpoint, wireVars, TypeOK
    <3>2. ASSUME NEW v \in WfIds, exec'[v] = "done" \/ saved'[v] # NoReply
          PROVE  saved'[v] = StepFailed \/ Posted(v)'
      <4>1. CASE v = w /\ Checkpoint(w)
        <5>1. reply[v] # NoReply
          BY <4>1 DEF Checkpoint
        <5>2. QED
          BY <1>4, <5>1
      <4>2. CASE v = w /\ saved'[w] = StepFailed
        BY <4>2
      <4>3. CASE saved'[v] = saved[v] /\ exec'[v] = exec[v]
        BY <1>5, <3>2, <4>3
      <4>4. QED
        BY <1>1, <2>2, <4>1, <4>2, <4>3 DEF ConnectFails, Timeout, FailTry, EndTry,
                                            Checkpoint, TypeOK
    <3>3. QED
      BY <1>3, <1>4, <3>1, <3>2 DEF SentBefore, Posted
  <2>3. CASE Finish(w)
    BY <1>1, <1>6, <2>3 DEF Finish, wireVars, TypeOK
  <2>4. QED
    BY <1>8, <2>1, <2>2, <2>3 DEF RunStep
<1>9. ASSUME NEW p \in net, SellerStep(p)
      PROVE  SentBefore'
  <2>1. UNCHANGED << exec, saved >> /\ net' \subseteq net
    BY <1>9 DEF SellerStep, SellerBooks, SellerRejects, SellerReplays, dbosVars
  <2>2. UNCHANGED reply \/ \E a : reply' = [reply EXCEPT ![p[1]] = a]
    BY <1>9 DEF SellerStep, SellerBooks, SellerRejects, SellerReplays, Answer
  <2>3. \A v \in WfIds : reply'[v] = reply[v] \/ v = p[1]
    BY <1>1, <2>2 DEF TypeOK
  <2>4. \A v \in WfIds : reply'[v] # NoReply => Posted(v)'
    BY <1>3, <1>4, <1>9, <2>3
  <2>5. QED
    BY <1>3, <1>5, <2>1, <2>4 DEF SentBefore, Posted
<1>10. ASSUME Crash \/ Restart \/ UNCHANGED vars
       PROVE  SentBefore'
  <2>1. /\ UNCHANGED << net, saved >>
        /\ \A w \in WfIds : reply'[w] \in {reply[w], NoReply}
        /\ \A w \in WfIds : exec'[w] = "done" => exec[w] = "done" \/ saved[w] # NoReply
    BY <1>10 DEF Crash, Restart, Recover, vars, runVars, dbosVars, wireVars
  <2>2. QED
    BY <1>6, <2>1
<1>11. QED
  BY <1>7, <1>8, <1>9, <1>10 DEF Next

LEMMA OnceInvStep ==
    ASSUME SuffixFree, NothingForged, OnceInv, [Next]_vars
    PROVE  OnceInv'
BY ReplyStep, SentStep DEF OnceInv

-----------------------------------------------------------------------------
(* The refinement mapping, key by key.                                     *)

\* A key with a pending attempt is running.
LEMMA PhaseRunning ==
    ASSUME NEW k \in Keys, NEW n \in Attempts, StatusOf(k, n) = "PENDING"
    PROVE  Phase(k) = "running"
BY DEF Phase

\* What BuyOnce sees of a key is its statuses and its recorded answers.
LEMMA KeyStutters ==
    ASSUME NEW k \in Keys,
           \A n \in Attempts : StatusOf(k, n)' = StatusOf(k, n),
           \A n \in Attempts : StatusOf(k, n) = "SUCCESS" =>
               saved'[AttemptId(k, n)] = saved[AttemptId(k, n)]
    PROVE  Phase(k)' = Phase(k) /\ Failed(k)' = Failed(k)
<1>1. Failed(k)' = Failed(k)
  BY DEF Failed
<1> DEFINE ended == { n \in Attempts : StatusOf(k, n) = "SUCCESS" }
<1>2. ended' = ended
  OBVIOUS
<1>3. (\E n \in Attempts : StatusOf(k, n)' = "PENDING")
         <=> (\E n \in Attempts : StatusOf(k, n) = "PENDING")
  OBVIOUS
<1>4. (\A n \in ended : Bought(saved'[AttemptId(k, n)]))
         <=> (\A n \in ended : Bought(saved[AttemptId(k, n)]))
  OBVIOUS
<1>5. Phase(k)' = Phase(k)
  BY <1>2, <1>3, <1>4 DEF Phase, Bought, IsSuccess, IsError, HttpFailed
<1>6. QED
  BY <1>1, <1>5

\* A step that changes the records of one attempt changes what BuyOnce sees of
\* its key only.
LEMMA OtherKeysStutter ==
    ASSUME SuffixFree, NEW k \in Keys, NEW n \in Attempts,
           \A v \in WfIds : v # AttemptId(k, n) => status'[v] = status[v] /\ saved'[v] = saved[v],
           NEW l \in Keys, l # k
    PROVE  Phase(l)' = Phase(l) /\ Failed(l)' = Failed(l)
<1>1. ASSUME NEW i \in Attempts
      PROVE  AttemptId(l, i) \in WfIds /\ AttemptId(l, i) # AttemptId(k, n)
  BY SuffixFreeIds, AttemptIdType
<1>2. \A i \in Attempts : /\ StatusOf(l, i)' = StatusOf(l, i)
                          /\ saved'[AttemptId(l, i)] = saved[AttemptId(l, i)]
  BY <1>1 DEF StatusOf
<1>3. QED
  BY <1>2, KeyStutters

\* The attempts before the one under way failed, those after it are to come.
LEMMA FailedBefore ==
    ASSUME OrderInv, NEW k \in Keys, NEW n \in Attempts,
           \A m \in Attempts : m < n => StatusOf(k, m) = "ERROR",
           StatusOf(k, n) # "ERROR"
    PROVE  /\ Failed(k) = 1 .. n - 1
           /\ \A m \in Attempts : m > n => StatusOf(k, m) = "ABSENT"
<1>1. \A m \in Attempts : m > n => StatusOf(k, m) = "ABSENT"
  BY DEF OrderInv, AttemptsInOrder
<1>2. ASSUME NEW m \in Attempts
      PROVE  StatusOf(k, m) = "ERROR" <=> m < n
  <2>1. m < n \/ m = n \/ m > n
    BY DEF Attempts
  <2>2. QED
    BY <1>1, <2>1 DEF Attempts
<1>3. n \in Nat /\ n <= MaxAttempts /\ MaxAttempts \in Nat
  BY BoundsAssumption DEF Attempts
<1>4. \A m \in Attempts : m < n <=> m \in 1 .. n - 1
  BY <1>3 DEF Attempts
<1>5. 1 .. n - 1 \subseteq Attempts
  BY <1>3 DEF Attempts
<1>6. Failed(k) = 1 .. n - 1
  BY <1>2, <1>4, <1>5 DEF Failed
<1>7. QED
  BY <1>1, <1>6

LEMMA MapInit == Init => Once!Init
<1> SUFFICES ASSUME Init PROVE Once!Init
  OBVIOUS
<1>1. ASSUME NEW k \in Keys, NEW n \in Attempts
      PROVE  StatusOf(k, n) = "ABSENT"
  BY AttemptIdType DEF Init, StatusOf
<1>2. ASSUME NEW k \in Keys
      PROVE  Phase(k) = "idle" /\ Failed(k) = {}
  BY <1>1 DEF Phase, Failed
<1>3. sent = [k \in Keys |-> 0] /\ {b.key : b \in ledger} = {}
  BY DEF Init
<1>4. QED
  BY <1>2, <1>3 DEF Once!Init

\* A step that BuyOnce does not see.
LEMMA MapStutter ==
    ASSUME UNCHANGED << sent, ledger >>,
           \A k \in Keys : Phase(k)' = Phase(k) /\ Failed(k)' = Failed(k)
    PROVE  UNCHANGED Once!onceVars
<1>1. [k \in Keys |-> Phase(k)]' = [k \in Keys |-> Phase(k)]
  OBVIOUS
<1>2. [k \in Keys |-> Failed(k)]' = [k \in Keys |-> Failed(k)]
  OBVIOUS
<1>3. {b.key : b \in ledger}' = {b.key : b \in ledger}
  OBVIOUS
<1>4. QED
  BY <1>1, <1>2, <1>3 DEF Once!onceVars

\* The insertion of a row is the begin of an attempt.
LEMMA MapInvoke ==
    ASSUME SuffixFree, OnceInv, OnceInv', NEW c \in Callers, Invoke(c),
           status[wf[c]] = "ABSENT"
    PROVE  Once!Next
<1>1. TypeInv /\ TypeOK /\ OrderInv /\ CallInv
  BY DEF OnceInv, ReplyInv, OrderInv, CallInv, TypeInv
<1>2. wf[c] \in WfIds
  BY <1>1 DEF Invoke, TypeInv, CallsTyped
<1>3. PICK k \in Keys, n \in Attempts : wf[c] = AttemptId(k, n)
  BY <1>2, WfIdOfAttempt
<1> DEFINE w == AttemptId(k, n)
<1>4. /\ wf[c] = w /\ w \in WfIds /\ StatusOf(k, n) = "ABSENT"
      /\ status' = [status EXCEPT ![w] = "PENDING"]
      /\ UNCHANGED << saved, sent, ledger >>
  BY <1>2, <1>3 DEF Invoke, wireVars, StatusOf
<1>5. \A v \in WfIds : v # w => status'[v] = status[v] /\ saved'[v] = saved[v]
  BY <1>1, <1>4 DEF TypeOK
<1>6. ASSUME NEW l \in Keys, l # k
      PROVE  Phase(l)' = Phase(l) /\ Failed(l)' = Failed(l)
  BY <1>5, <1>6, OtherKeysStutter
<1>7. \A m \in Attempts : m < n => StatusOf(k, m) = "ERROR"
  BY <1>1, <1>3, InvokedInOrder
<1>8. Failed(k) = 1 .. n - 1 /\ \A m \in Attempts : m > n => StatusOf(k, m) = "ABSENT"
  BY <1>1, <1>4, <1>7, FailedBefore
<1>9. n \in Nat /\ n >= 1 /\ n <= MaxAttempts /\ MaxAttempts \in Nat
  BY BoundsAssumption DEF Attempts
<1>10. Phase(k) = "idle"
  <2>1. \A m \in Attempts : StatusOf(k, m) \in {"ERROR", "ABSENT"}
    BY <1>4, <1>7, <1>8, <1>9 DEF Attempts
  <2>2. QED
    BY <2>1 DEF Phase
<1>11. Failed(k) # 1 .. MaxAttempts
  <2>1. n \in 1 .. MaxAttempts /\ n \notin 1 .. n - 1
    BY <1>9
  <2>2. QED
    BY <1>8, <2>1
<1>12. Phase(k)' = "running"
  <2>1. StatusOf(k, n)' = "PENDING"
    BY <1>1, <1>4 DEF StatusOf, TypeOK
  <2>2. QED
    BY <2>1 DEF Phase
<1>13. Failed(k)' = Failed(k)
  <2>1. ASSUME NEW m \in Attempts
        PROVE  StatusOf(k, m)' = "ERROR" <=> StatusOf(k, m) = "ERROR"
    <3>1. AttemptId(k, m) \in WfIds
      BY AttemptIdType
    <3>2. CASE AttemptId(k, m) = w
      BY <1>1, <1>4, <3>1, <3>2 DEF StatusOf, TypeOK
    <3>3. CASE AttemptId(k, m) # w
      BY <1>5, <3>1, <3>3 DEF StatusOf
    <3>4. QED
      BY <3>2, <3>3
  <2>2. QED
    BY <2>1 DEF Failed
<1>14. Once!Begin(k)
  <2>1. [l \in Keys |-> Phase(l)]' = [[l \in Keys |-> Phase(l)] EXCEPT ![k] = "running"]
    BY <1>6, <1>12
  <2>2. [l \in Keys |-> Failed(l)]' = [l \in Keys |-> Failed(l)]
    BY <1>6, <1>13
  <2>3. {b.key : b \in ledger}' = {b.key : b \in ledger}
    BY <1>4
  <2>4. QED
    BY <1>4, <1>10, <1>11, <2>1, <2>2, <2>3 DEF Once!Begin
<1>15. QED
  BY <1>14 DEF Once!Next

\* A POST is a contact by the attempt under way.
LEMMA MapPost ==
    ASSUME OnceInv, NEW w \in WfIds, Post(w)
    PROVE  Once!Next
<1>1. TypeInv /\ TypeOK /\ OrderInv
  BY DEF OnceInv, ReplyInv, LedgerInv, TypeInv
<1>2. PICK k \in Keys, n \in Attempts : w = AttemptId(k, n)
  BY WfIdOfAttempt
<1>3. StatusOf(k, n) = "PENDING" /\ body[w].key = k
  BY <1>1, <1>2 DEF Post, TypeInv, BodiesTyped, OrderInv, BodyOfAttempt, StatusOf
<1>4. sent' = [sent EXCEPT ![k] = @ + 1] /\ UNCHANGED << status, saved, ledger >>
  BY <1>3 DEF Post, dbosVars
<1>5. ASSUME NEW l \in Keys
      PROVE  Phase(l)' = Phase(l) /\ Failed(l)' = Failed(l)
  <2>1. \A m \in Attempts : /\ StatusOf(l, m)' = StatusOf(l, m)
                            /\ saved'[AttemptId(l, m)] = saved[AttemptId(l, m)]
    BY <1>4 DEF StatusOf
  <2>2. QED
    BY <2>1, KeyStutters
<1>6. Once!Contact(k)
  <2>1. [l \in Keys |-> Phase(l)]' = [l \in Keys |-> Phase(l)]
    BY <1>5
  <2>2. [l \in Keys |-> Failed(l)]' = [l \in Keys |-> Failed(l)]
    BY <1>5
  <2>3. {b.key : b \in ledger}' = {b.key : b \in ledger}
    BY <1>4
  <2>4. Phase(k) = "running"
    BY <1>3, PhaseRunning
  <2>5. QED
    BY <1>4, <2>1, <2>2, <2>3, <2>4 DEF Once!Contact
<1>7. QED
  BY <1>6 DEF Once!Next

\* The seller's booking is a booking of a key that was contacted.
LEMMA MapBooks ==
    ASSUME OnceInv, NEW p \in net, SellerBooks(p)
    PROVE  Once!Next
<1> DEFINE b == [key |-> body[p[1]].key, canon |-> Canon[body[p[1]].plan]]
<1>1. PICK k \in Keys : k = body[p[1]].key /\ sent[k] > 0
  BY DEF OnceInv, SentBefore, Posted, ReplyInv, LedgerInv, TypeInv, TypeOK, BodiesTyped, Bodies
<1>2. /\ \A a \in ledger : a.key # k
      /\ ledger' = ledger \cup {b}
      /\ UNCHANGED << status, saved, sent >>
  BY <1>1 DEF SellerBooks, BookingsOf, dbosVars
<1>3. ASSUME NEW l \in Keys
      PROVE  Phase(l)' = Phase(l) /\ Failed(l)' = Failed(l)
  <2>1. \A m \in Attempts : /\ StatusOf(l, m)' = StatusOf(l, m)
                            /\ saved'[AttemptId(l, m)] = saved[AttemptId(l, m)]
    BY <1>2 DEF StatusOf
  <2>2. QED
    BY <2>1, KeyStutters
<1>4. k \notin {a.key : a \in ledger}
  BY <1>2
<1>5. {a.key : a \in ledger}' = {a.key : a \in ledger} \cup {k}
  <2>1. {a.key : a \in ledger}' = {a.key : a \in ledger \cup {b}}
    BY <1>2
  <2>2. {a.key : a \in ledger \cup {b}} = {a.key : a \in ledger} \cup {b.key}
    OBVIOUS
  <2>3. QED
    BY <1>1, <2>1, <2>2
<1>6. [l \in Keys |-> Phase(l)]' = [l \in Keys |-> Phase(l)]
  BY <1>3
<1>7. [l \in Keys |-> Failed(l)]' = [l \in Keys |-> Failed(l)]
  BY <1>3
<1>8. Once!Book(k)
  BY <1>1, <1>2, <1>4, <1>5, <1>6, <1>7 DEF Once!Book
<1>9. QED
  BY <1>1, <1>8 DEF Once!Next

\* The final status of a workflow is the end of the attempt under way.
LEMMA MapFinish ==
    ASSUME SuffixFree, OnceInv, NEW w \in WfIds, Finish(w)
    PROVE  Once!Next
<1>1. TypeInv /\ TypeOK /\ OrderInv /\ SavedOwn
  BY DEF OnceInv, ReplyInv, LedgerInv, TypeInv
<1>2. PICK k \in Keys, n \in Attempts : w = AttemptId(k, n)
  BY WfIdOfAttempt
<1>3. StatusOf(k, n) = "PENDING" /\ exec[w] = "done" /\ body[w].key = k
  BY <1>1, <1>2 DEF Finish, TypeInv, BodiesTyped, OrderInv, BodyOfAttempt, StatusOf
<1>4. /\ status' = [status EXCEPT ![w] = IF saved[w] = StepFailed THEN "ERROR" ELSE "SUCCESS"]
      /\ UNCHANGED << saved, sent, ledger >>
  BY DEF Finish, wireVars
<1>5. \A v \in WfIds : v # w => status'[v] = status[v] /\ saved'[v] = saved[v]
  BY <1>1, <1>4 DEF TypeOK
<1>6. ASSUME NEW l \in Keys, l # k
      PROVE  Phase(l)' = Phase(l) /\ Failed(l)' = Failed(l)
  BY <1>2, <1>5, <1>6, OtherKeysStutter
<1>7. ASSUME NEW m \in Attempts
      PROVE  StatusOf(k, m)' = IF m = n THEN status'[w] ELSE StatusOf(k, m)
  BY <1>2, <1>5, <1>7, AttemptIdType, SuffixFreeIds DEF StatusOf
<1>8. \A m \in Attempts : m < n => StatusOf(k, m) = "ERROR"
  BY <1>1, <1>3 DEF OrderInv, AttemptsInOrder
<1>9. Failed(k) = 1 .. n - 1 /\ \A m \in Attempts : m > n => StatusOf(k, m) = "ABSENT"
  BY <1>1, <1>3, <1>8, FailedBefore
<1>10. \A m \in Attempts : m # n => StatusOf(k, m)' \in {"ERROR", "ABSENT"}
  BY <1>7, <1>8, <1>9 DEF Attempts
<1>11. Phase(k) = "running"
  BY <1>3, PhaseRunning
<1>12. {b.key : b \in ledger}' = {b.key : b \in ledger}
  BY <1>4
<1>13. CASE saved[w] = StepFailed
  <2>1. StatusOf(k, n)' = "ERROR"
    BY <1>1, <1>4, <1>7, <1>13 DEF TypeOK
  <2>2. Phase(k)' = "idle"
    <3>1. \A m \in Attempts : StatusOf(k, m)' \in {"ERROR", "ABSENT"}
      BY <1>10, <2>1
    <3>2. QED
      BY <3>1 DEF Phase
  <2>3. Failed(k)' = 1 .. n
    <3>1. Failed(k)' = Failed(k) \cup {n}
      BY <1>7, <2>1 DEF Failed
    <3>2. n \in Nat /\ n >= 1
      BY DEF Attempts
    <3>3. 1 .. n = (1 .. n - 1) \cup {n}
      BY <3>2
    <3>4. QED
      BY <1>9, <3>1, <3>3
  <2>4. [l \in Keys |-> Phase(l)]' = [[l \in Keys |-> Phase(l)] EXCEPT ![k] = "idle"]
    BY <1>6, <2>2
  <2>5. [l \in Keys |-> Failed(l)]' = [[l \in Keys |-> Failed(l)] EXCEPT ![k] = 1 .. n]
    BY <1>6, <2>3
  <2>6. n \in 1 .. MaxAttempts
    BY DEF Attempts
  <2>7. Once!Fail(k)
    BY <1>4, <1>9, <1>11, <1>12, <2>4, <2>5, <2>6 DEF Once!Fail
  <2>8. QED
    BY <2>7 DEF Once!Next
<1>14. CASE saved[w] # StepFailed
  <2> DEFINE end == IF Bought(saved[w]) THEN "bought" ELSE "unclear"
  <2>1. StatusOf(k, n)' = "SUCCESS"
    BY <1>1, <1>4, <1>7, <1>14 DEF TypeOK
  <2>2. Phase(k)' = end
    <3>1. {m \in Attempts : StatusOf(k, m)' = "SUCCESS"} = {n}
      BY <1>10, <2>1
    <3>2. ~\E m \in Attempts : StatusOf(k, m)' = "PENDING"
      BY <1>10, <2>1
    <3>3. saved'[AttemptId(k, n)] = saved[w]
      BY <1>2, <1>4
    <3>4. QED
      BY <3>1, <3>2, <3>3 DEF Phase, Bought, IsSuccess, IsError, HttpFailed
  <2>3. Failed(k)' = Failed(k)
    BY <1>3, <1>7, <2>1 DEF Failed
  <2>4. sent[k] > 0
    BY <1>3, <1>14 DEF OnceInv, SentBefore, Posted
  <2>5. end = "bought" => k \in {b.key : b \in ledger}
    BY <1>1, <1>3, <1>14 DEF SavedOwn, Own, Bought
  <2>6. [l \in Keys |-> Phase(l)]' = [[l \in Keys |-> Phase(l)] EXCEPT ![k] = end]
    BY <1>6, <2>2
  <2>7. [l \in Keys |-> Failed(l)]' = [l \in Keys |-> Failed(l)]
    BY <1>6, <2>3
  <2>8. Once!Settle(k, end)
    BY <1>4, <1>11, <1>12, <2>4, <2>5, <2>6, <2>7 DEF Once!Settle
  <2>9. end \in {"bought", "unclear"}
    OBVIOUS
  <2>10. QED
    BY <2>8, <2>9 DEF Once!Next
<1>15. QED
  BY <1>13, <1>14

\* A try that ends leaves its workflow pending: BuyOnce does not see it.
LEMMA MapTry ==
    ASSUME OnceInv, SuffixFree, NEW w \in WfIds, ConnectFails(w) \/ Timeout(w) \/ Checkpoint(w)
    PROVE  UNCHANGED Once!onceVars
<1>1. TypeInv /\ TypeOK
  BY DEF OnceInv, ReplyInv, LedgerInv, TypeInv
<1>2. /\ status[w] = "PENDING" /\ UNCHANGED << status, sent, ledger >>
      /\ \A v \in WfIds : v # w => saved'[v] = saved[v]
  BY <1>1 DEF ConnectFails, Timeout, Checkpoint, FailTry, EndTry, wireVars,
              TypeInv, BodiesTyped, TypeOK
<1>3. ASSUME NEW k \in Keys
      PROVE  Phase(k)' = Phase(k) /\ Failed(k)' = Failed(k)
  <2>1. \A n \in Attempts : /\ StatusOf(k, n)' = StatusOf(k, n)
                            /\ AttemptId(k, n) \in WfIds
    BY <1>2, AttemptIdType DEF StatusOf
  <2>2. \A n \in Attempts : StatusOf(k, n) = "SUCCESS" =>
           saved'[AttemptId(k, n)] = saved[AttemptId(k, n)]
    BY <1>2, <2>1 DEF StatusOf
  <2>3. QED
    BY <2>1, <2>2, KeyStutters
<1>4. QED
  BY <1>2, <1>3, MapStutter

LEMMA MapStep ==
    ASSUME SuffixFree, NothingForged, OnceInv, [Next]_vars
    PROVE  [Once!Next]_Once!onceVars
<1>1. OnceInv'
  BY OnceInvStep
<1>2. ASSUME UNCHANGED << status, saved, sent, ledger >>
      PROVE  UNCHANGED Once!onceVars
  <2>1. ASSUME NEW k \in Keys
        PROVE  Phase(k)' = Phase(k) /\ Failed(k)' = Failed(k)
    <3>1. \A n \in Attempts : /\ StatusOf(k, n)' = StatusOf(k, n)
                              /\ saved'[AttemptId(k, n)] = saved[AttemptId(k, n)]
      BY <1>2 DEF StatusOf
    <3>2. QED
      BY <3>1, KeyStutters
  <2>2. QED
    BY <1>2, <2>1, MapStutter
<1>3. ASSUME NEW c \in Callers, CallStep(c)
      PROVE  [Once!Next]_Once!onceVars
  <2>1. CASE Invoke(c) /\ status[wf[c]] = "ABSENT"
    BY <1>1, <2>1, MapInvoke
  <2>2. CASE ~(Invoke(c) /\ status[wf[c]] = "ABSENT")
    <3>1. UNCHANGED << status, saved, sent, ledger >>
      BY <1>3, <2>2 DEF CallStep, StartCall, RefuseKey, Lookup, LookupFails, StepPast, GiveUp,
                        Invoke, Return, dbosVars, wireVars
    <3>2. QED
      BY <1>2, <3>1
  <2>3. QED
    BY <2>1, <2>2
<1>4. ASSUME NEW w \in WfIds, RunStep(w)
      PROVE  [Once!Next]_Once!onceVars
  <2>1. CASE Post(w)
    BY <2>1, MapPost
  <2>2. CASE ConnectFails(w) \/ Timeout(w) \/ Checkpoint(w)
    BY <2>2, MapTry
  <2>3. CASE Finish(w)
    BY <2>3, MapFinish
  <2>4. QED
    BY <1>4, <2>1, <2>2, <2>3 DEF RunStep
<1>5. ASSUME NEW p \in net, SellerStep(p)
      PROVE  [Once!Next]_Once!onceVars
  <2>1. CASE SellerBooks(p)
    BY <2>1, MapBooks
  <2>2. CASE SellerRejects(p) \/ SellerReplays(p)
    <3>1. UNCHANGED << status, saved, sent, ledger >>
      BY <2>2 DEF SellerRejects, SellerReplays, dbosVars
    <3>2. QED
      BY <1>2, <3>1
  <2>3. QED
    BY <1>5, <2>1, <2>2 DEF SellerStep
<1>6. ASSUME Crash \/ Restart \/ UNCHANGED vars
      PROVE  UNCHANGED Once!onceVars
  <2>1. UNCHANGED << status, saved, sent, ledger >>
    BY <1>6 DEF Crash, Restart, Recover, vars, dbosVars, wireVars
  <2>2. QED
    BY <1>2, <2>1
<1>7. QED
  BY <1>3, <1>4, <1>5, <1>6 DEF Next

\* The executor buys attempt after attempt, one at a time, until one is
\* answered, and reports no buy the seller did not book: it implements BuyOnce
\* if no two attempts share a workflow id and no gateway forges bookings.
THEOREM ExecutorBuysOnce ==
    ASSUME SuffixFree, NothingForged
    PROVE  Spec => BuysOnce
<1>1. OnceInv /\ [Next]_vars => OnceInv'
  BY OnceInvStep
<1>2. OnceInv /\ [Next]_vars => [Once!Next]_Once!onceVars
  BY MapStep
<1>3. QED
  BY <1>1, <1>2, OnceInit, MapInit, PTL DEF Spec, BuysOnce, Once!Spec
=============================================================================
