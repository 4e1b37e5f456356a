--------------------------- MODULE MCTicketTriage --------------------------
(***************************************************************************)
(* Small instances of the service for TLC.  Two labels that differ in      *)
(* their intent, two queues, and two tables: refunds go to billing, or an  *)
(* operator has cleared the rules.                                         *)
(***************************************************************************)
EXTENDS TicketTriageProperties, TLC

CONSTANTS refund, bug, p1, calm, billing, general

MCIntents    == {refund, bug}
MCPriorities == {p1}
MCSentiments == {calm}
MCQueues     == {billing, general}

MCRefundsToBilling ==
    <<[intent |-> refund, priority |-> Wildcard, sentiment |-> Wildcard, queue |-> billing]>>
MCNoRules   == <<>>
MCOneTable  == {MCRefundsToBilling}
MCTwoTables == {MCRefundsToBilling, MCNoRules}

MCInterchangeable == Permutations(Reviewers) \cup Permutations(Repliers)
=============================================================================
