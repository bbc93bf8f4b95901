-------------------------- MODULE RendezvousProofs --------------------------
(***************************************************************************)
(* Theorems about Rendezvous, for any number of polls, tries, crashes and  *)
(* webhooks: its types, that a poll is counted once whatever the crashes,  *)
(* that await_active stops at the first live poll, that snapshots follow   *)
(* the buy, and that a webhook wakes the workflow that waits for it if it  *)
(* is sent to its database and the send does not fail.                     *)
(***************************************************************************)
EXTENDS Rendezvous, TLAPS, WellFoundedInduction

USE DEF NoStatus

-----------------------------------------------------------------------------
(* The answers and their reading. *)

\* A set of numbers that is not empty has a first one.
LEMMA FirstOfNats ==
    ASSUME NEW s \in SUBSET Nat, s # {}
    PROVE  (CHOOSE i \in s : \A j \in s : i <= j) \in s
<1>1. \E i \in s : \A j \in s : ~ (<< j, i >> \in OpToRel(<, Nat))
  BY NatLessThanWellFounded, WFMin
<1>2. \A i, j \in Nat : j < i => << j, i >> \in OpToRel(<, Nat)
  BY Zenon DEF OpToRel
<1>3. \E i \in s : \A j \in s : i <= j
  <2>1. PICK i \in s : \A j \in s : ~ (<< j, i >> \in OpToRel(<, Nat))
    BY <1>1
  <2>2. \A j \in s : ~ (j < i)
    BY <1>2, <2>1
  <2> QED BY <2>2
<1> QED BY <1>3

\* delivery_summary returns a snapshot of whatever answer it reads.
LEMMA SummaryType == ASSUME NEW a \in Answers PROVE Summary(a) \in Snapshots
<1> DEFINE own == OwnListed(a)
           i   == CHOOSE k \in own : \A j \in own : k <= j
<1>1. own \in SUBSET Nat /\ own \subseteq DOMAIN a.list /\ a.list \in Seq(Deliveries) /\ a.total \in Nat
  BY DEF OwnListed, Answers
<1>2. CASE own = {}
  BY <1>1, <1>2 DEF Summary, Snapshot, Snapshots
<1>3. CASE own # {}
  <2>1. i \in own
    <3> HIDE DEF own
    <3> QED BY <1>1, <1>3, FirstOfNats
  <2> HIDE DEF i
  <2>2. a.list[i] \in Deliveries
    BY <1>1, <2>1
  <2>3. Summary(a) = Snapshot(a.list[i].status, a.list[i].shown)
    BY <1>3 DEF Summary, i
  <2> QED BY <2>2, <2>3 DEF Deliveries, Snapshot, Snapshots
<1> QED BY <1>2, <1>3

\* The seller's answers are answers.
LEMMA AnswersForType ==
    ASSUME NEW s \in DOMAIN Life, NEW n \in Nat PROVE AnswersFor(s, n) \subseteq Answers
<1> DEFINE d == Delivery("own", s, n)
<1>1. Another \in Deliveries /\ d \in Deliveries
  BY DEF Another, Delivery, Deliveries
<1> HIDE DEF d
<1>2. << >> \in Seq(Deliveries) /\ << Another >> \in Seq(Deliveries) /\ << Another, d >> \in Seq(Deliveries)
  BY <1>1
<1>3. \A k \in {"none", "garbled", "payload"}, l \in Seq(Deliveries), t \in Nat : Answer(k, l, t) \in Answers
  BY DEF Answer, Answers
<1>4. Answer("none", << >>, 0) \in Answers /\ Answer("garbled", << >>, 0) \in Answers
  BY <1>2, <1>3
<1>5. Answer("payload", << Another >>, 1) \in Answers /\ Answer("payload", << Another, d >>, n + 1) \in Answers
  <2>1. \A l \in Seq(Deliveries), t \in Nat : Answer("payload", l, t) \in Answers
    BY <1>3
  <2>2. n + 1 \in Nat
    OBVIOUS
  <2>3. Answer("payload", << Another >>, 1) \in Answers
    BY <1>2, <2>1
  <2>4. Answer("payload", << Another, d >>, n + 1) \in Answers
    BY <1>2, <2>1, <2>2, Zenon
  <2> QED BY <2>3, <2>4
<1>6. AnswersFor(s, n) = { Answer("none", << >>, 0), Answer("garbled", << >>, 0),
                          Answer("payload", << Another >>, 1), Answer("payload", << Another, d >>, n + 1) }
  BY DEF AnswersFor, d
<1> QED BY <1>4, <1>5, <1>6

-----------------------------------------------------------------------------
(* Types. *)

\* The initial state is typed.
LEMMA TypeInit == Init => TypeOK
<1> SUFFICES ASSUME Init PROVE TypeOK
  OBVIOUS
<1>1. 1 \in DOMAIN Life /\ 0 \in 0 .. StepTries - 1
  BY RendezvousAssumption
<1>2. << >> \in Seq(Snapshots) /\ << >> \in Seq(Answers) /\ << >> \in Seq(Webhooks)
  OBVIOUS
<1> QED BY <1>1, <1>2 DEF Init, TypeOK

\* Each step keeps the types.
LEMMA TypeStep == TypeOK /\ [Next]_vars => TypeOK'
<1> SUFFICES ASSUME TypeOK, [Next]_vars PROVE TypeOK'
  OBVIOUS
<1> USE DEF TypeOK, memory, database, seller, history
<1>1. CASE UNCHANGED vars
  BY <1>1 DEF vars
<1>2. ASSUME NEW w \in Workflows, Start(w) PROVE TypeOK'
  BY <1>2 DEF Start, Begin
<1>3. CASE Recv
  <2>1. CASE inbox # << >>
    <3>1. Head(inbox) \in Webhooks /\ Tail(inbox) \in Seq(Webhooks)
      BY <2>1
    <3> QED BY <1>3, <2>1, <3>1 DEF Recv
  <2>2. CASE inbox = << >>
    BY <1>3, <2>2 DEF Recv
  <2> QED BY <2>1, <2>2
<1>4. CASE Resolve
  BY <1>4 DEF Resolve, End, Begin, Loops, Workflows
<1>5. ASSUME NEW l \in Loops, Ask(l) PROVE TypeOK'
  <2>1. AnswersFor(stage, shown) \subseteq Answers
    BY AnswersForType
  <2>2. got' \in [Loops -> Answers \cup {NoAnswer}]
    BY <1>5, <2>1 DEF Ask
  <2>3. tries' \in [Loops -> 0 .. StepTries - 1]
    <3>1. TriesLeft(l) => tries[l] + 1 \in 0 .. StepTries - 1
      BY RendezvousAssumption DEF TriesLeft
    <3> HIDE DEF TriesLeft
    <3>2. UNCHANGED tries \/ (TriesLeft(l) /\ tries' = [tries EXCEPT ![l] = @ + 1])
      BY <1>5 DEF Ask
    <3> QED BY <3>1, <3>2
  <2>4. running' \subseteq Workflows /\ row' \in [Workflows -> {"absent", "pending", "done", "failed"}]
    BY <1>5 DEF Ask, End, Workflows
  <2> QED BY <1>5, <2>2, <2>3, <2>4 DEF Ask
<1>6. ASSUME NEW l \in Loops, Checkpoint(l) PROVE TypeOK'
  <2>1. Append(recs[l], got[l]) \in Seq(Answers) /\ 0 \in 0 .. StepTries - 1
    BY <1>6, RendezvousAssumption DEF Checkpoint
  <2>2. recs' \in [Loops -> Seq(Answers)]
    BY <1>6, <2>1 DEF Checkpoint
  <2>3. got' \in [Loops -> Answers \cup {NoAnswer}] /\ tries' \in [Loops -> 0 .. StepTries - 1]
    BY <1>6, <2>1 DEF Checkpoint
  <2> QED BY <1>6, <2>2, <2>3 DEF Checkpoint
<1>7. ASSUME NEW l \in Loops, Summarise(l) PROVE TypeOK'
  <2> DEFINE a == recs[l][Len(kept[l]) + 1]
  <2>1. a \in Answers
    <3>1. kept[l] \in Seq(Snapshots) /\ recs[l] \in Seq(Answers) /\ Len(kept[l]) < Len(recs[l])
      BY <1>7 DEF Summarise
    <3>2. Len(kept[l]) + 1 \in 1 .. Len(recs[l])
      BY <3>1
    <3> QED BY <3>1, <3>2
  <2>2. Summary(a) \in Snapshots
    BY <2>1, SummaryType
  <2>3. \/ kept' = [kept EXCEPT ![l] = Append(@, Summary(a))] /\ UNCHANGED << row, running >>
        \/ End(l, "failed") /\ UNCHANGED kept
    BY <1>7 DEF Summarise
  <2> HIDE DEF a
  <2>4. kept' \in [Loops -> Seq(Snapshots)]
    <3>1. Append(kept[l], Summary(a)) \in Seq(Snapshots)
      BY <2>2
    <3> QED BY <2>3, <3>1
  <2>5. running' \subseteq Workflows /\ row' \in [Workflows -> {"absent", "pending", "done", "failed"}]
    BY <2>3 DEF End, Workflows
  <2> QED BY <1>7, <2>4, <2>5 DEF Summarise
<1>8. ASSUME NEW l \in Loops, Finish(l) PROVE TypeOK'
  <2>1. kept[l] \in Seq(Snapshots) /\ kept[l] # << >>
    BY <1>8, RendezvousAssumption DEF Finish, Stopped
  <2>2. Last(kept[l]) \in Snapshots
    BY <2>1 DEF Last
  <2>3. returned' \in [Loops -> Seq(Snapshots)]
    BY <1>8, <2>1, <2>2 DEF Finish
  <2> QED BY <1>8, <2>3 DEF Finish, End
<1>9. CASE Receive
  <2>1. hooks' \in Nat /\ UNCHANGED << up, memory, row, recs, recvd, returned, source, seller, crashes >>
    BY <1>9 DEF Receive
  <2>2. inbox' \in Seq(Webhooks) /\ posted' \in Seq(Webhooks)
    <3>1. \A p \in Webhooks : Append(inbox, p) \in Seq(Webhooks) /\ Append(posted, p) \in Seq(Webhooks)
      OBVIOUS
    <3>2. \/ UNCHANGED << inbox, posted >>
          \/ \E p \in Webhooks : /\ inbox' \in {inbox, Append(inbox, p)}
                               /\ posted' \in {posted, Append(posted, p)}
      BY <1>9 DEF Receive
    <3> QED BY <3>1, <3>2
  <2> QED BY <2>1, <2>2
<1>10. CASE Advance
  <2>1. DOMAIN Life = 1 .. Len(Life) /\ Len(Life) \in Nat
    BY RendezvousAssumption
  <2>2. stage' \in DOMAIN Life /\ shown' \in Nat
    BY <1>10, <2>1 DEF Advance
  <2> QED BY <1>10, <2>2 DEF Advance
<1>11. CASE Crash
  <2>1. /\ kept' \in [Loops -> Seq(Snapshots)] /\ got' \in [Loops -> Answers \cup {NoAnswer}]
        /\ tries' \in [Loops -> 0 .. StepTries - 1] /\ running' = {}
    <3>1. 0 \in 0 .. StepTries - 1
      BY RendezvousAssumption
    <3>2. << >> \in Seq(Snapshots)
      OBVIOUS
    <3>3. Forgotten /\ running' = {}
      BY <1>11 DEF Crash
    <3> HIDE DEF TypeOK
    <3> QED BY <3>1, <3>2, <3>3 DEF Forgotten
  <2>2. up' = FALSE /\ crashes' \in Nat /\ UNCHANGED << database, seller, history >>
    BY <1>11 DEF Crash
  <2> QED BY <2>1, <2>2
<1>12. CASE Restart
  BY <1>12 DEF Restart, Recovered
<1> QED BY <1>1, <1>2, <1>3, <1>4, <1>5, <1>6, <1>7, <1>8, <1>9, <1>10, <1>11, <1>12 DEF Next

\* Every variable keeps its type, for any bounds.
THEOREM TypesHold == Spec => []TypeOK
<1> QED BY TypeInit, TypeStep, PTL DEF Spec

-----------------------------------------------------------------------------
(* Polls are counted once. *)

\* A loop that still runs has not come to its end; what it holds is the summary
\* of a prefix of its checkpoints, all of them when it polls or has an answer
\* in hand, so that another checkpoint never exceeds its polls.
LoopInv(l) ==
    /\ Len(kept[l]) <= Len(recs[l]) /\ Len(recs[l]) <= Polls[l]
    /\ \A i \in DOMAIN kept[l] : kept[l][i] = Summary(recs[l][i])
    /\ got[l] # NoAnswer => Len(kept[l]) = Len(recs[l]) /\ ~Stopped(l)

MonitorInv ==
    row["monitor"] = "done" =>
        /\ Len(returned["monitor"]) = Polls["monitor"] /\ Len(recs["monitor"]) = Polls["monitor"]
        /\ \A i \in DOMAIN recs["monitor"] : returned["monitor"][i] = Summary(recs["monitor"][i])

CountInv ==
    /\ running \subseteq { w \in Workflows : row[w] = "pending" }
    /\ \A l \in Loops : LoopInv(l)
    /\ MonitorInv
    /\ StopsAtFirstLive

\* The lengths of what a loop holds and has checkpointed.
LEMMA Lengths ==
    ASSUME TypeOK, NEW l \in Loops
    PROVE  /\ kept[l] \in Seq(Snapshots) /\ recs[l] \in Seq(Answers)
           /\ Len(kept[l]) \in Nat /\ DOMAIN kept[l] = 1 .. Len(kept[l])
           /\ Len(recs[l]) \in Nat /\ DOMAIN recs[l] = 1 .. Len(recs[l])
           /\ Polls[l] \in Nat \ {0}
<1>1. kept[l] \in Seq(Snapshots) /\ recs[l] \in Seq(Answers)
  BY DEF TypeOK
<1>2. Polls[l] \in Nat \ {0}
  BY RendezvousAssumption
<1> QED BY <1>1, <1>2

\* An element appended is the last, and the others keep their places.
LEMMA Appended ==
    ASSUME NEW T, NEW s \in Seq(T), NEW x \in T
    PROVE  /\ Append(s, x) \in Seq(T) /\ Len(Append(s, x)) = Len(s) + 1
           /\ DOMAIN Append(s, x) = 1 .. Len(s) + 1
           /\ \A i \in DOMAIN s : Append(s, x)[i] = s[i]
           /\ Append(s, x)[Len(s) + 1] = x
OBVIOUS

\* Nothing has been polled in the initial state.
LEMMA CountInit == Init => CountInv
BY RendezvousAssumption DEF Init, CountInv, LoopInv, MonitorInv, StopsAtFirstLive, Loops, Workflows

\* What a step that touches neither the polls nor the ends of the loops keeps.
LEMMA CountFrame ==
    ASSUME CountInv, UNCHANGED << kept, got, recs, returned >>,
           running' \subseteq { w \in Workflows : row'[w] = "pending" },
           \A l \in Loops : row'[l] = "done" => row[l] = "done"
    PROVE  CountInv'
<1>1. \A l \in Loops : LoopInv(l)'
  BY DEF CountInv, LoopInv, Stopped, IsLive, Last
<1>2. MonitorInv' /\ StopsAtFirstLive'
  BY DEF CountInv, MonitorInv, StopsAtFirstLive, IsLive, Last, Loops
<1> QED BY <1>1, <1>2 DEF CountInv

\* Each step preserves CountInv.
LEMMA CountStep == TypeOK /\ TypeOK' /\ CountInv /\ [Next]_vars => CountInv'
<1> SUFFICES ASSUME TypeOK, TypeOK', CountInv, [Next]_vars PROVE CountInv'
  OBVIOUS
<1> USE DEF memory, database, seller, history
<1>1. CASE UNCHANGED vars
  BY <1>1, CountFrame DEF vars, CountInv
<1>2. ASSUME NEW w \in Workflows, Start(w) PROVE CountInv'
  BY <1>2, CountFrame DEF Start, Begin, TypeOK, CountInv
<1>3. CASE Recv
  BY <1>3, CountFrame DEF Recv, CountInv
<1>4. CASE Resolve
  <2>1. UNCHANGED << kept, got, recs, returned >>
    BY <1>4 DEF Resolve
  <2>2. running' \subseteq { w \in Workflows : row'[w] = "pending" }
    BY <1>4 DEF Resolve, End, Begin, TypeOK, CountInv, Workflows, Loops
  <2>3. \A k \in Loops : row'[k] = "done" => row[k] = "done"
    BY <1>4 DEF Resolve, End, Begin, TypeOK, Workflows, Loops
  <2> QED BY <2>1, <2>2, <2>3, CountFrame
<1>5. ASSUME NEW l \in Loops, Ask(l) PROVE CountInv'
  <2>1. UNCHANGED << kept, recs, returned >>
    BY <1>5 DEF Ask
  <2>2. running' \subseteq { w \in Workflows : row'[w] = "pending" }
    BY <1>5 DEF Ask, End, TypeOK, CountInv, Workflows
  <2>3. \A k \in Loops : row'[k] = "done" => row[k] = "done"
    BY <1>5 DEF Ask, End, TypeOK, Workflows
  <2>4. \A k \in Loops : got'[k] # NoAnswer => Len(kept[k]) = Len(recs[k]) /\ ~Stopped(k)
    <3>1. Len(kept[l]) = Len(recs[l]) /\ ~Stopped(l)
      BY <1>5 DEF Ask, MustPoll
    <3>2. \A k \in Loops \ {l} : got'[k] = got[k]
      BY <1>5 DEF Ask, TypeOK
    <3> QED BY <3>1, <3>2 DEF CountInv, LoopInv
  <2>5. \A k \in Loops : LoopInv(k)'
    BY <2>1, <2>4 DEF CountInv, LoopInv, Stopped, IsLive, Last
  <2>6. MonitorInv' /\ StopsAtFirstLive'
    BY <2>1, <2>3 DEF CountInv, MonitorInv, StopsAtFirstLive, IsLive, Last, Loops
  <2> QED BY <2>2, <2>5, <2>6 DEF CountInv
<1>6. ASSUME NEW l \in Loops, Checkpoint(l) PROVE CountInv'
  <2>1. /\ UNCHANGED << running, kept, row, returned >> /\ l \in running /\ got[l] # NoAnswer
        /\ recs' = [recs EXCEPT ![l] = Append(@, got[l])] /\ got' = [got EXCEPT ![l] = NoAnswer]
    BY <1>6 DEF Checkpoint
  <2>2. Len(kept[l]) = Len(recs[l]) /\ ~Stopped(l)
    BY <2>1 DEF CountInv, LoopInv
  <2>3. /\ recs'[l] \in Seq(Answers) /\ Len(recs'[l]) = Len(recs[l]) + 1
        /\ \A i \in DOMAIN recs[l] : recs'[l][i] = recs[l][i]
        /\ DOMAIN recs[l] = 1 .. Len(recs[l]) /\ DOMAIN recs'[l] = 1 .. Len(recs[l]) + 1
        /\ \A k \in Loops \ {l} : recs'[k] = recs[k] /\ got'[k] = got[k]
        /\ got'[l] = NoAnswer
    <3>1. got[l] \in Answers
      BY <2>1 DEF TypeOK
    <3>2. recs'[l] = Append(recs[l], got[l]) /\ got'[l] = NoAnswer
          /\ \A k \in Loops \ {l} : recs'[k] = recs[k] /\ got'[k] = got[k]
      BY <2>1 DEF TypeOK
    <3>3. recs[l] \in Seq(Answers) /\ DOMAIN recs[l] = 1 .. Len(recs[l])
      BY Lengths
    <3> QED BY <3>1, <3>2, <3>3, Appended
  <2>4. \A k \in Loops : LoopInv(k)'
    <3>1. LoopInv(l)'
      <4>1. Len(recs[l]) < Polls[l]
        BY <2>2, Lengths DEF Stopped, CountInv, LoopInv
      <4>2. \A i \in DOMAIN kept[l] : i \in DOMAIN recs[l] /\ kept[l][i] = Summary(recs[l][i])
        BY <2>2, Lengths DEF CountInv, LoopInv
      <4>3. Len(kept[l]) <= Len(recs'[l]) /\ Len(recs'[l]) <= Polls[l]
        BY <2>2, <2>3, <4>1, Lengths
      <4> QED BY <2>1, <2>3, <4>2, <4>3 DEF LoopInv
    <3>2. ASSUME NEW k \in Loops \ {l} PROVE LoopInv(k)'
      BY <2>1, <2>3 DEF CountInv, LoopInv, Stopped, IsLive, Last
    <3> QED BY <3>1, <3>2
  <2>5. row[l] = "pending"
    BY <2>1 DEF CountInv
  <2>6. MonitorInv'
    BY <2>1, <2>3, <2>5 DEF CountInv, MonitorInv
  <2>7. StopsAtFirstLive'
    <3>1. CASE l = "active"
      <4>1. \A i \in DOMAIN recs[l] : ~IsLive(Summary(recs[l][i]).status)
        <5>1. ASSUME NEW i \in DOMAIN recs[l], IsLive(Summary(recs[l][i]).status) PROVE FALSE
          <6>1. i = Len(recs[l])
            BY <3>1, <5>1 DEF CountInv, StopsAtFirstLive
          <6>2. i = Len(kept[l]) /\ i \in DOMAIN kept[l] /\ kept[l] # << >>
            BY <2>2, <6>1, Lengths
          <6>3. Last(kept[l]) = Summary(recs[l][i])
            BY <6>2 DEF CountInv, LoopInv, Last
          <6> QED BY <2>2, <3>1, <5>1, <6>2, <6>3 DEF Stopped
        <5> QED BY <5>1
      <4>2. \A i \in DOMAIN recs'[l] : i \in DOMAIN recs[l] \/ i = Len(recs'[l])
        BY <2>3, Lengths
      <4>3. Life' = Life
        OBVIOUS
      <4> QED BY <2>1, <2>3, <2>5, <3>1, <4>1, <4>2 DEF StopsAtFirstLive
    <3>2. CASE l # "active"
      BY <2>1, <2>3, <3>2 DEF CountInv, StopsAtFirstLive
    <3> QED BY <3>1, <3>2
  <2> QED BY <2>1, <2>4, <2>6, <2>7 DEF CountInv
<1>7. ASSUME NEW l \in Loops, Summarise(l) PROVE CountInv'
  <2> DEFINE a == recs[l][Len(kept[l]) + 1]
  <2>1. /\ UNCHANGED << got, recs, returned >> /\ got[l] = NoAnswer /\ Len(kept[l]) < Len(recs[l])
        /\ \/ kept' = [kept EXCEPT ![l] = Append(@, Summary(a))] /\ UNCHANGED << row, running >>
           \/ End(l, "failed") /\ UNCHANGED kept
    BY <1>7 DEF Summarise
  <2>2. CASE End(l, "failed") /\ UNCHANGED kept
    BY <2>1, <2>2, CountFrame DEF End, TypeOK, CountInv
  <2>3. CASE kept' = [kept EXCEPT ![l] = Append(@, Summary(a))] /\ UNCHANGED << row, running >>
    <3>1. /\ Len(kept'[l]) = Len(kept[l]) + 1
          /\ DOMAIN kept'[l] = 1 .. Len(kept[l]) + 1 /\ DOMAIN kept[l] = 1 .. Len(kept[l])
          /\ \A i \in DOMAIN kept[l] : kept'[l][i] = kept[l][i]
          /\ kept'[l][Len(kept[l]) + 1] = Summary(a)
          /\ \A k \in Loops \ {l} : kept'[k] = kept[k]
      <4>1. a \in Answers
        BY <2>1, Lengths
      <4>2. Summary(a) \in Snapshots
        BY <4>1, SummaryType
      <4>3. kept'[l] = Append(kept[l], Summary(a)) /\ \A k \in Loops \ {l} : kept'[k] = kept[k]
        BY <2>3 DEF TypeOK
      <4> QED BY <4>2, <4>3, Lengths, Appended
    <3>2. LoopInv(l)'
      <4>1. Len(kept'[l]) <= Len(recs'[l]) /\ Len(recs'[l]) <= Polls[l]
        BY <2>1, <3>1, Lengths DEF CountInv, LoopInv
      <4>2. \A i \in DOMAIN kept'[l] : i \in DOMAIN kept[l] \/ i = Len(kept[l]) + 1
        BY <3>1, Lengths
      <4>3. \A i \in DOMAIN kept'[l] : kept'[l][i] = Summary(recs'[l][i])
        <5> SUFFICES ASSUME NEW i \in DOMAIN kept'[l] PROVE kept'[l][i] = Summary(recs[l][i])
          BY <2>1
        <5>1. CASE i \in DOMAIN kept[l]
          <6>1. kept[l][i] = Summary(recs[l][i])
            BY <5>1 DEF CountInv, LoopInv
          <6>2. kept'[l][i] = kept[l][i]
            BY <3>1, <5>1
          <6> QED BY <6>1, <6>2
        <5>2. CASE i = Len(kept[l]) + 1
          BY <3>1, <5>2
        <5> QED BY <4>2, <5>1, <5>2
      <4> QED BY <2>1, <4>1, <4>3 DEF LoopInv
    <3>3. ASSUME NEW k \in Loops \ {l} PROVE LoopInv(k)'
      BY <2>1, <3>1 DEF CountInv, LoopInv, Stopped, IsLive, Last
    <3> QED BY <2>1, <2>3, <3>2, <3>3 DEF CountInv, MonitorInv, StopsAtFirstLive
  <2> QED BY <2>1, <2>2, <2>3
<1>8. ASSUME NEW l \in Loops, Finish(l) PROVE CountInv'
  <2>1. /\ UNCHANGED << kept, got, recs >> /\ l \in running /\ Stopped(l) /\ End(l, "done")
        /\ returned' = [returned EXCEPT ![l] = IF l = "active" THEN << Last(kept[l]) >> ELSE kept[l]]
    BY <1>8 DEF Finish
  <2>2. \A k \in Loops : LoopInv(k)'
    BY <2>1 DEF CountInv, LoopInv, Stopped, IsLive, Last
  <2>3. running' \subseteq { w \in Workflows : row'[w] = "pending" }
    BY <2>1 DEF End, TypeOK, CountInv
  <2>4. CASE l = "monitor"
    <3>1. Len(kept[l]) = Polls[l]
      BY <2>1, <2>4 DEF Stopped
    <3>2. Len(recs[l]) = Polls[l] /\ DOMAIN recs[l] = DOMAIN kept[l]
      BY <3>1, Lengths DEF CountInv, LoopInv
    <3>3. returned'[l] = kept[l] /\ returned'["active"] = returned["active"]
      BY <2>1, <2>4 DEF TypeOK
    <3>4. row'["active"] = row["active"]
      BY <2>1, <2>4 DEF End, TypeOK
    <3>5. MonitorInv'
      BY <2>1, <2>4, <3>1, <3>2, <3>3 DEF MonitorInv, CountInv, LoopInv
    <3>6. StopsAtFirstLive'
      BY <2>1, <3>3, <3>4 DEF StopsAtFirstLive, CountInv
    <3> QED BY <2>2, <2>3, <3>5, <3>6 DEF CountInv
  <2>5. CASE l = "active"
    <3>1. returned'[l] = << Last(kept[l]) >> /\ returned'["monitor"] = returned["monitor"]
      BY <2>1, <2>5 DEF TypeOK
    <3>2. row'["monitor"] = row["monitor"]
      BY <2>1, <2>5 DEF End, TypeOK
    <3>3. MonitorInv'
      BY <2>1, <3>1, <3>2 DEF MonitorInv, CountInv
    <3>4. Last(kept[l]) = Summary(Last(recs[l]))
      <4>1. kept[l] # << >> /\ Len(kept[l]) \in DOMAIN kept[l] /\ Len(kept[l]) \in DOMAIN recs[l]
        BY <2>1, Lengths DEF Stopped, CountInv, LoopInv
      <4>2. Last(kept[l]) = Summary(recs[l][Len(kept[l])])
        BY <4>1 DEF CountInv, LoopInv, Last
      <4>3. Len(kept[l]) = Len(recs[l])
        <5>1. CASE Len(kept[l]) = Polls[l]
          BY <5>1, Lengths DEF CountInv, LoopInv
        <5>2. CASE IsLive(Last(kept[l]).status)
          BY <2>5, <4>1, <4>2, <5>2 DEF CountInv, StopsAtFirstLive
        <5> QED BY <2>1, <5>1, <5>2 DEF Stopped
      <4> QED BY <4>2, <4>3 DEF Last
    <3>5. StopsAtFirstLive'
      BY <2>1, <2>5, <3>1, <3>4 DEF StopsAtFirstLive, CountInv
    <3> QED BY <2>2, <2>3, <3>3, <3>5 DEF CountInv
  <2> QED BY <2>4, <2>5 DEF Loops
<1>9. CASE Receive
  BY <1>9, CountFrame DEF Receive, CountInv
<1>10. CASE Advance
  BY <1>10, CountFrame DEF Advance, CountInv
<1>11. CASE Crash
  <2>1. /\ \A l \in Loops : kept'[l] = << >> /\ got'[l] = NoAnswer
        /\ running' = {} /\ UNCHANGED << row, recs, returned >>
    BY <1>11 DEF Crash, Forgotten
  <2>2. \A l \in Loops : LoopInv(l)'
    <3> SUFFICES ASSUME NEW l \in Loops PROVE LoopInv(l)'
      OBVIOUS
    <3>1. kept'[l] = << >> /\ recs'[l] = recs[l] /\ got'[l] = NoAnswer
      BY <2>1
    <3>2. Len(kept'[l]) = 0 /\ DOMAIN kept'[l] = {}
      BY <3>1
    <3> QED BY <3>1, <3>2, Lengths DEF CountInv, LoopInv
  <2> QED BY <2>1, <2>2 DEF CountInv, MonitorInv, StopsAtFirstLive
<1>12. CASE Restart
  BY <1>12, CountFrame DEF Restart, Recovered, CountInv
<1> QED BY <1>1, <1>2, <1>3, <1>4, <1>5, <1>6, <1>7, <1>8, <1>9, <1>10, <1>11, <1>12 DEF Next

\* CountInv is an invariant.
LEMMA CountsHold == Spec => [](TypeOK /\ CountInv)
<1>1. TypeOK /\ CountInv /\ [Next]_vars => (TypeOK /\ CountInv)'
  BY TypeStep, CountStep
<1> QED BY TypeInit, CountInit, <1>1, PTL DEF Spec

\* Whatever the crashes, each completed poll is in the snapshots once, in
\* order, and monitor_delivery returns as many as it was asked for
\* (monitor.py:9-11).
THEOREM PollsAreCountedOnce == Spec => []SnapshotsCountedOnce
<1>1. CountInv => SnapshotsCountedOnce
  BY DEF CountInv, LoopInv, MonitorInv, SnapshotsCountedOnce
<1> QED BY CountsHold, <1>1, PTL

\* await_active completes no poll after the first live one (monitor.py:55).
THEOREM ActiveStopsAtFirstLive == Spec => []StopsAtFirstLive
<1>1. CountInv => StopsAtFirstLive
  BY DEF CountInv
<1> QED BY CountsHold, <1>1, PTL

-----------------------------------------------------------------------------
(* The snapshots follow the buy. *)

\* What is read of the buy, if it is listed, is how it stands.
LEMMA FreshSummary ==
    ASSUME NEW s \in DOMAIN Life, NEW n \in Nat, NEW a \in AnswersFor(s, n),
           Summary(a).status # NoStatus
    PROVE  Summary(a).status = s /\ Summary(a).shown = n
<1> DEFINE d == Delivery("own", s, n)
<1>1. CASE a.list = << Another, d >>
  <2>1. OwnListed(a) = {2}
    BY <1>1 DEF OwnListed, Another, Delivery
  <2>2. (CHOOSE i \in {2} : \A j \in {2} : i <= j) = 2
    OBVIOUS
  <2>3. a.list[2] = d
    BY <1>1
  <2>4. Summary(a) = Snapshot(d.status, d.shown)
    BY <2>1, <2>2, <2>3 DEF Summary
  <2> QED BY <2>4 DEF Snapshot, Delivery
<1>2. CASE a.list = << >> \/ a.list = << Another >>
  <2>1. OwnListed(a) = {}
    BY <1>2 DEF OwnListed, Another, Delivery
  <2> QED BY <2>1 DEF Summary, Snapshot
<1>3. a.list \in { << >>, << Another >>, << Another, d >> }
  BY DEF AnswersFor, Answer
<1> QED BY <1>1, <1>2, <1>3

Found(a)      == Summary(a).status # NoStatus
Behind(a, s, n) == Summary(a).status <= s /\ Summary(a).shown <= n
Before(a, b)  == Found(a) /\ Found(b) => Behind(a, Summary(b).status, Summary(b).shown)

\* The checkpoints of a loop, and the answer in hand after them, show the buy
\* in the order of its life, and none is ahead of it.
FollowInv ==
    \A l \in Loops :
        /\ \A i \in DOMAIN recs[l] : Found(recs[l][i]) => Behind(recs[l][i], stage, shown)
        /\ \A i, j \in DOMAIN recs[l] : i <= j => Before(recs[l][i], recs[l][j])
        /\ got[l] # NoAnswer =>
             /\ Found(got[l]) => Behind(got[l], stage, shown)
             /\ \A i \in DOMAIN recs[l] : Before(recs[l][i], got[l])

\* Statuses are compared by their places.
LEMMA StagesAreNumbers == DOMAIN Life \subseteq Nat
BY RendezvousAssumption

\* Each step preserves FollowInv.
LEMMA FollowStep == TypeOK /\ TypeOK' /\ FollowInv /\ [Next]_vars => FollowInv'
<1> SUFFICES ASSUME TypeOK, TypeOK', FollowInv, [Next]_vars PROVE FollowInv'
  OBVIOUS
<1> USE DEF FollowInv
<1>1. ASSUME NEW l \in Loops, Ask(l) PROVE FollowInv'
  <2>1. UNCHANGED << recs, stage, shown >> /\ \A k \in Loops \ {l} : got'[k] = got[k]
    BY <1>1 DEF Ask, seller, TypeOK
  <2>2. got'[l] = got[l] \/ got'[l] \in AnswersFor(stage, shown)
    BY <1>1 DEF Ask, TypeOK
  <2>3. CASE got'[l] \in AnswersFor(stage, shown)
    <3>1. Found(got'[l]) => Summary(got'[l]).status = stage /\ Summary(got'[l]).shown = shown
      BY <2>3, FreshSummary DEF Found, TypeOK
    <3>2. Found(got'[l]) => Behind(got'[l], stage, shown)
      <4>1. stage \in Nat /\ shown \in Nat
        BY StagesAreNumbers, Zenon DEF TypeOK
      <4>2. Found(got'[l]) => Summary(got'[l]).status <= stage /\ Summary(got'[l]).shown <= shown
        BY <3>1, <4>1
      <4> QED BY <4>2 DEF Behind
    <3>3. \A i \in DOMAIN recs[l] : Before(recs[l][i], got'[l])
      BY <3>1 DEF Before
    <3> QED BY <2>1, <3>2, <3>3
  <2>4. CASE got'[l] = got[l]
    BY <2>1, <2>4
  <2> QED BY <2>2, <2>3, <2>4
<1>2. ASSUME NEW l \in Loops, Checkpoint(l) PROVE FollowInv'
  <2>1. /\ UNCHANGED << stage, shown >> /\ got[l] # NoAnswer /\ got[l] \in Answers
        /\ recs'[l] = Append(recs[l], got[l]) /\ got'[l] = NoAnswer
        /\ \A k \in Loops \ {l} : recs'[k] = recs[k] /\ got'[k] = got[k]
    BY <1>2 DEF Checkpoint, seller, TypeOK
  <2> DEFINE n == Len(recs[l])
  <2>2. /\ DOMAIN recs'[l] = 1 .. n + 1 /\ DOMAIN recs[l] = 1 .. n /\ n \in Nat
        /\ \A i \in 1 .. n : recs'[l][i] = recs[l][i]
        /\ recs'[l][n + 1] = got[l]
    BY <2>1, Lengths, Appended
  <2> HIDE DEF n
  <2>3. \A i \in DOMAIN recs'[l] : i \in 1 .. n \/ i = n + 1
    BY <2>2
  <2>4. \A i \in DOMAIN recs'[l] : Found(recs'[l][i]) => Behind(recs'[l][i], stage, shown)
    BY <2>1, <2>2, <2>3
  <2>5. Before(got[l], got[l])
    <3>1. Summary(got[l]) \in Snapshots
      BY <2>1, SummaryType
    <3>2. Summary(got[l]).status \in DOMAIN Life \cup {0} /\ Summary(got[l]).shown \in Nat
      BY <3>1 DEF Snapshots
    <3>3. Summary(got[l]).status <= Summary(got[l]).status /\ Summary(got[l]).shown <= Summary(got[l]).shown
      BY <3>2, StagesAreNumbers
    <3> QED BY <3>3 DEF Before, Behind
  <2>6. ASSUME NEW i \in DOMAIN recs'[l], NEW j \in DOMAIN recs'[l], i <= j
        PROVE  Before(recs'[l][i], recs'[l][j])
    <3>1. CASE j \in 1 .. n
      BY <2>2, <2>6, <3>1
    <3>2. CASE j = n + 1
      BY <2>1, <2>2, <2>3, <2>5, <3>2
    <3> QED BY <2>3, <3>1, <3>2
  <2> QED BY <2>1, <2>4, <2>6
<1>3. CASE Advance
  <2>1. UNCHANGED << recs, got >> /\ stage <= stage' /\ shown <= shown'
    <3>1. stage \in Nat /\ shown \in Nat
      BY StagesAreNumbers, Zenon DEF TypeOK
    <3> QED BY <1>3, <3>1 DEF Advance, memory, database
  <2>2. ASSUME NEW a \in Answers, Behind(a, stage, shown) PROVE Behind(a, stage', shown')
    <3>1. Summary(a) \in Snapshots
      BY SummaryType
    <3>2. /\ Summary(a).status \in Nat /\ Summary(a).shown \in Nat
          /\ stage \in Nat /\ stage' \in Nat /\ shown \in Nat /\ shown' \in Nat
      <4>1. stage \in Nat /\ stage' \in Nat /\ shown \in Nat /\ shown' \in Nat
        BY StagesAreNumbers, Zenon DEF TypeOK
      <4>2. Summary(a).status \in DOMAIN Life \cup {0} /\ Summary(a).shown \in Nat
        BY <3>1 DEF Snapshots
      <4>3. Summary(a).status \in Nat
        <5>1. Summary(a).status \in DOMAIN Life => Summary(a).status \in Nat
          BY StagesAreNumbers, Zenon
        <5>2. CASE Summary(a).status = 0
          BY <5>2
        <5> QED BY <4>2, <5>1, <5>2
      <4> QED BY <4>1, <4>2, <4>3
    <3> QED BY <2>1, <2>2, <3>2 DEF Behind
  <2>3. \A l \in Loops : /\ \A i \in DOMAIN recs[l] : recs[l][i] \in Answers
                         /\ got[l] # NoAnswer => got[l] \in Answers
    <3> SUFFICES ASSUME NEW l \in Loops
                 PROVE  /\ \A i \in DOMAIN recs[l] : recs[l][i] \in Answers
                        /\ got[l] # NoAnswer => got[l] \in Answers
      OBVIOUS
    <3>1. recs[l] \in Seq(Answers) /\ got[l] \in Answers \cup {NoAnswer}
      BY DEF TypeOK
    <3> QED BY <3>1
  <2> QED BY <2>1, <2>2, <2>3
<1>4. CASE Crash
  BY <1>4 DEF Crash, Forgotten, database, seller
<1>5. CASE UNCHANGED << recs, got, stage, shown >>
  BY <1>5
<1>6. ASSUME NEW l \in Loops, Summarise(l) \/ Finish(l) PROVE FollowInv'
  BY <1>5, <1>6 DEF Summarise, Finish, seller
<1>7. CASE \/ UNCHANGED vars \/ Recv \/ Resolve \/ Receive \/ Restart
           \/ \E w \in Workflows : Start(w)
  BY <1>5, <1>7 DEF vars, Recv, Resolve, Receive, Restart, Start, memory, database, seller
<1> QED BY <1>1, <1>2, <1>3, <1>4, <1>6, <1>7 DEF Next

\* The snapshots of a loop show its own buy, in the order of its life, whatever
\* other buys the answers list (monitor.py:37-43).
THEOREM SnapshotsFollowTheBuy == Spec => []FollowsTheBuy
<1>1. Init => FollowInv
  BY DEF Init, FollowInv
<1>2. TypeOK /\ TypeOK' /\ FollowInv /\ [Next]_vars => FollowInv'
  BY FollowStep
<1>3. TypeOK /\ CountInv /\ FollowInv => FollowsTheBuy
  <2> SUFFICES ASSUME TypeOK, CountInv, FollowInv, NEW l \in Loops, NEW i \in DOMAIN kept[l],
                      kept[l][i].status # NoStatus
               PROVE  /\ kept[l][i].status <= stage /\ kept[l][i].shown <= shown
                      /\ \A j \in i .. Len(kept[l]) : kept[l][j].status # NoStatus =>
                           kept[l][i].status <= kept[l][j].status /\ kept[l][i].shown <= kept[l][j].shown
    BY DEF FollowsTheBuy
  <2>1. \A j \in DOMAIN kept[l] : j \in DOMAIN recs[l] /\ kept[l][j] = Summary(recs[l][j])
    BY Lengths DEF CountInv, LoopInv
  <2>2. \A j \in i .. Len(kept[l]) : j \in DOMAIN kept[l]
    BY Lengths
  <2>3. kept[l][i] = Summary(recs[l][i]) /\ i \in DOMAIN recs[l] /\ Found(recs[l][i])
    BY <2>1 DEF Found
  <2>4. Behind(recs[l][i], stage, shown)
    BY <2>3 DEF FollowInv
  <2>5. ASSUME NEW j \in i .. Len(kept[l]), kept[l][j].status # NoStatus
        PROVE  Behind(recs[l][i], kept[l][j].status, kept[l][j].shown)
    <3>1. kept[l][j] = Summary(recs[l][j]) /\ j \in DOMAIN recs[l] /\ i <= j
      BY <2>1, <2>2
    <3>2. Before(recs[l][i], recs[l][j]) /\ Found(recs[l][j])
      BY <2>3, <2>5, <3>1 DEF FollowInv, Found
    <3> QED BY <2>3, <3>1, <3>2 DEF Before
  <2> QED BY <2>3, <2>4, <2>5 DEF Behind
<1> QED BY <1>1, <1>2, <1>3, CountsHold, PTL DEF Spec

-----------------------------------------------------------------------------
(* Webhooks. *)

\* While the workflow waits, its inbox is what reached the sink; its recv takes
\* the first of them, or times out when there was none.
WebhookInv ==
    /\ SinkDatabase = BuyerDatabase
    /\ "completion" \in running => row["completion"] = "pending"
    /\ row["completion"] = "absent" => posted = << >> /\ inbox = << >>
    /\ row["completion"] \in {"done", "failed"} => recvd # NoRecv
    /\ recvd # NoRecv => row["completion"] # "absent"
    /\ recvd = NoRecv => source = "open"
    /\ recvd = Timeout => source # "webhook"
    /\ recvd \notin {NoRecv, Timeout} => posted # << >> /\ recvd = Head(posted)
    /\ WebhookWakesWaiter

\* If the sink sends to the database of the buyer, a webhook that reaches it
\* while await_completion waits resolves it, crashes or not (sink.py:4-6), unless
\* an exception keeps the sink from sending it on (sink.py:42-43).
THEOREM WebhooksWake == SinkDatabase = BuyerDatabase /\ Spec => []WebhookWakesWaiter
<1> USE DEF WebhookInv, WebhookWakesWaiter, Waits
<1>1. SinkDatabase = BuyerDatabase /\ Init => WebhookInv
  BY RendezvousAssumption DEF Init, Workflows
<1>2. TypeOK /\ WebhookInv /\ [Next]_vars => WebhookInv'
  <2> SUFFICES ASSUME TypeOK, WebhookInv, [Next]_vars PROVE WebhookInv'
    OBVIOUS
  <2> USE DEF TypeOK, memory, database, seller, history
  <2>1. CASE UNCHANGED vars
    BY <2>1 DEF vars
  <2>2. ASSUME NEW w \in Workflows, Start(w) PROVE WebhookInv'
    BY <2>2 DEF Start, Begin, Workflows
  <2>3. CASE Recv
    <3>1. CASE inbox # << >>
      <4>1. recvd' = Head(inbox) /\ Head(inbox) \in Webhooks /\ UNCHANGED << row, source, posted >>
        BY <2>3, <3>1 DEF Recv
      <4>2. row["completion"] = "pending" /\ recvd = NoRecv /\ posted = inbox
        BY <2>3 DEF Recv
      <4> QED BY <3>1, <4>1, <4>2, RendezvousAssumption
    <3>2. CASE inbox = << >>
      BY <2>3, <3>2 DEF Recv
    <3> QED BY <3>1, <3>2
  <2>4. CASE Resolve
    BY <2>4 DEF Resolve, End, Begin
  <2>5. ASSUME NEW l \in Loops, Ask(l) \/ Checkpoint(l) \/ Summarise(l) \/ Finish(l) PROVE WebhookInv'
    <3>1. /\ UNCHANGED << inbox, recvd, source, posted >>
          /\ UNCHANGED << row, running >> \/ End(l, "failed") \/ End(l, "done")
      BY <2>5 DEF Ask, Checkpoint, Summarise, Finish
    <3>2. row'["completion"] = row["completion"] /\ running' \subseteq running
      BY <3>1 DEF End, Workflows, Loops
    <3> QED BY <3>1, <3>2
  <2>6. CASE Receive
    <3>1. recvd = NoRecv /\ UNCHANGED << running, row, recvd, source >>
      BY <2>6 DEF Receive
    <3>2. CASE UNCHANGED << inbox, posted >>
      BY <3>1, <3>2
    <3>3. ASSUME NEW p \in Webhooks,
                 inbox' = IF Sends THEN Append(inbox, p) ELSE inbox,
                 posted' = IF Waits THEN Append(posted, p) ELSE posted
          PROVE  WebhookInv'
      <4>1. CASE Sends
        <5>1. row["completion"] # "absent" /\ (Waits => posted' = inbox')
          BY <3>3, <4>1 DEF Sends
        <5> QED BY <3>1, <5>1, RendezvousAssumption
      <4>2. CASE ~Sends
        <5>1. row["completion"] = "absent"
          BY <4>2 DEF Sends
        <5> QED BY <3>1, <3>3, <4>2, <5>1
      <4> QED BY <4>1, <4>2
    <3> QED BY <2>6, <3>2, <3>3 DEF Receive
  <2>7. CASE Advance \/ Crash \/ Restart
    BY <2>7 DEF Advance, Crash, Restart, Recovered
  <2> QED BY <2>1, <2>2, <2>3, <2>4, <2>5, <2>6, <2>7 DEF Next
<1>3. WebhookInv => WebhookWakesWaiter
  OBVIOUS
<1> HIDE DEF WebhookInv, WebhookWakesWaiter, Waits
<1> QED BY <1>1, <1>2, <1>3, TypesHold, PTL DEF Spec
=============================================================================
