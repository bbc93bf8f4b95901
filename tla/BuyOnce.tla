------------------------------ MODULE BuyOnce ------------------------------
(***************************************************************************)
(* What the durable executor promises about the buy of one wire key, told  *)
(* without callers, workflows, checkpoints, crashes or messages: attempts  *)
(* are made one after the other, only the one under way contacts the       *)
(* seller, the seller books at most once and only after it was contacted,  *)
(* and the first attempt that ends with an answer is the last.             *)
(***************************************************************************)
EXTENDS Naturals

CONSTANTS
    Keys,           \* wire keys
    MaxAttempts     \* attempts that may fail before the buyer refuses to go on

VARIABLES
    phase,      \* per key: "idle", "running", "bought" or "unclear"
    failed,     \* per key: the attempts on record as failed
    posts,      \* per key: POSTs sent to the seller
    booked      \* the keys the seller booked

onceVars == << phase, failed, posts, booked >>

Init ==
    /\ phase  = [k \in Keys |-> "idle"]
    /\ failed = [k \in Keys |-> {}]
    /\ posts  = [k \in Keys |-> 0]
    /\ booked = {}

\* An attempt begins when no other is under way and none was answered.
Begin(k) ==
    /\ phase[k] = "idle" /\ failed[k] # 1 .. MaxAttempts
    /\ phase' = [phase EXCEPT ![k] = "running"]
    /\ UNCHANGED << failed, posts, booked >>

Contact(k) ==
    /\ phase[k] = "running"
    /\ posts' = [posts EXCEPT ![k] = @ + 1]
    /\ UNCHANGED << phase, failed, booked >>

\* A POST may reach the seller long after the attempt that sent it ended.
Book(k) ==
    /\ posts[k] > 0 /\ k \notin booked
    /\ booked' = booked \cup {k}
    /\ UNCHANGED << phase, failed, posts >>

\* The attempt under way is the first that did not fail.
Fail(k) ==
    /\ phase[k] = "running"
    /\ \E n \in 1 .. MaxAttempts :
         /\ failed[k] = 1 .. n - 1
         /\ failed' = [failed EXCEPT ![k] = 1 .. n]
    /\ phase' = [phase EXCEPT ![k] = "idle"]
    /\ UNCHANGED << posts, booked >>

\* A buy is reported only if the seller booked it.
Settle(k, end) ==
    /\ phase[k] = "running" /\ posts[k] > 0
    /\ end = "bought" => k \in booked
    /\ phase' = [phase EXCEPT ![k] = end]
    /\ UNCHANGED << failed, posts, booked >>

Next == \E k \in Keys :
    \/ Begin(k) \/ Contact(k) \/ Book(k) \/ Fail(k)
    \/ \E end \in {"bought", "unclear"} : Settle(k, end)

Spec == Init /\ [][Next]_onceVars
=============================================================================
