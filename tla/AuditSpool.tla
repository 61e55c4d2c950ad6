------------------------------ MODULE AuditSpool ------------------------------
(***************************************************************************)
(* What the file spool of an audit queue promises the queue in front of    *)
(* it: events are handed to the destination in the order in which they     *)
(* were accepted, and as long as one of them still waits, the spool says   *)
(* that it is pending (isPending), so that the queue does not overtake it. *)
(***************************************************************************)
EXTENDS Naturals

CONSTANT Events   \* numbered in the order in which the queue stashes them

VARIABLES owed,     \* events accepted, neither handed over nor given up
          pending   \* what isPending() answers

Before(S, T) == \A s \in S, t \in T : s < t

Init == owed = {} /\ pending = FALSE

Accept(new) ==
    /\ Before(owed, new)
    /\ owed' = owed \cup new
    /\ pending' = TRUE

HandOver(S) ==
    /\ Before(S, owed \ S)
    /\ owed' = owed \ S
    /\ UNCHANGED pending

(* Lost with a throwing consumer or with the index file.                   *)
GiveUp(S) ==
    /\ owed' = owed \ S
    /\ UNCHANGED pending

Raise == pending' = TRUE /\ UNCHANGED owed
Clear == owed = {} /\ pending' = FALSE /\ UNCHANGED owed

Next ==
    \/ \E S \in SUBSET Events : Accept(S) \/ HandOver(S) \/ GiveUp(S)
    \/ Raise
    \/ Clear

Spec == Init /\ [][Next]_<<owed, pending>>
===============================================================================
