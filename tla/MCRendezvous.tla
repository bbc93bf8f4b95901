---------------------------- MODULE MCRendezvous ----------------------------
(* Instances of Rendezvous for TLC. *)
EXTENDS Rendezvous

MCLife  == << "pending_approval", "active", "completed" >>
MCPolls == [active |-> 3, monitor |-> 3]
=============================================================================
