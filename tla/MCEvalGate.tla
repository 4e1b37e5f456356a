----------------------------- MODULE MCEvalGate -----------------------------
(***************************************************************************)
(* Values for EvalGate: two datasets, one of them with a label that the    *)
(* runner does not know, and answers that are right in one field where     *)
(* they are wrong in the other.                                            *)
(***************************************************************************)
EXTENDS EvalGate

CONSTANTS bug, refund, typo

Row(intent, priority) == [intent |-> intent, priority |-> priority]

(* In the first dataset each answer is right in both fields of one row and in one field
   of another. *)
MCDatasets == {<<Row(bug, bug), Row(bug, refund), Row(refund, refund)>>,
               <<Row(refund, typo), Row(bug, refund)>>}
MCLimits == {0, 1, -2}
MCPredictions == {Row(bug, bug), Row(refund, refund)}

(* --no-fail is asked where a gate is judged.  Baselines are written from the fixtures,
   and from one row of the provider. *)
MCFlagsThatMatter ==
    /\ run.nofail => run.limit = 0 /\ ~ run.update /\ ~ run.live
    /\ run.update /\ run.live => run.limit = 1
=============================================================================
