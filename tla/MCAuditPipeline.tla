-------------------------- MODULE MCAuditPipeline ---------------------------
(***************************************************************************)
(* AuditPipeline for TLC: with and without summaries, to one destination   *)
(* or to two, with events of one key or of two.                            *)
(***************************************************************************)
EXTENDS AuditPipeline

CONSTANTS d1, d2, k1, k2

OneKey  == [e \in Events |-> k1]
TwoKeys == [e \in Events |-> IF e = 1 THEN k1 ELSE k2]

MCSetups == [summary : BOOLEAN, dests : {{d1}, {d1, d2}}, key : {OneKey, TwoKeys}]
=============================================================================
