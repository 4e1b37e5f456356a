----------------------------- MODULE Lifecycle -----------------------------
(***************************************************************************)
(* What the service promises of a ticket, with no worker, no requests and  *)
(* no failures: the status transitions of docs/architecture.md, one gold   *)
(* label that is never revised, and a suggested reply that is resolved     *)
(* once and frozen then.                                                   *)
(***************************************************************************)
CONSTANTS Tickets, Labels, None

VARIABLES
    phase,    \* where the ticket is in its life
    machine,  \* the label the model gave it
    gold,     \* the label a human stands behind
    note      \* the suggested reply

vars == <<phase, machine, gold, note>>

Init ==
    /\ phase = [t \in Tickets |-> "absent"]
    /\ machine = [t \in Tickets |-> None]
    /\ gold = [t \in Tickets |-> None]
    /\ note = [t \in Tickets |-> None]

Arrive(t) ==
    /\ phase[t] = "absent"
    /\ phase' = [phase EXCEPT ![t] = "received"]
    /\ UNCHANGED <<machine, gold, note>>

Classify(t, l) ==
    /\ phase[t] = "received"
    /\ phase' = [phase EXCEPT ![t] = "triaged"]
    /\ machine' = [machine EXCEPT ![t] = l]
    /\ UNCHANGED <<gold, note>>

Escalate(t) ==
    /\ phase[t] = "received"
    /\ phase' = [phase EXCEPT ![t] = "needs_human"]
    /\ UNCHANGED <<machine, gold, note>>

Confirm(t) ==
    /\ phase[t] = "triaged"
    /\ phase' = [phase EXCEPT ![t] = "approved"]
    /\ gold' = [gold EXCEPT ![t] = machine[t]]
    /\ UNCHANGED <<machine, note>>

Override(t, l) ==
    /\ phase[t] \in {"triaged", "needs_human"}
    /\ phase' = [phase EXCEPT ![t] = "corrected"]
    /\ gold' = [gold EXCEPT ![t] = l]
    /\ UNCHANGED <<machine, note>>

Suggest(t) ==
    /\ machine[t] # None
    /\ note[t] = None
    /\ note' = [note EXCEPT ![t] = [state |-> "draft", body |-> "generated"]]
    /\ UNCHANGED <<phase, machine, gold>>

Rewrite(t) ==
    /\ note[t] # None
    /\ note[t].state = "draft"
    /\ note' = [note EXCEPT ![t].body = "edited"]
    /\ UNCHANGED <<phase, machine, gold>>

Resolve(t, s) ==
    /\ note[t] # None
    /\ note[t].state = "draft"
    /\ note' = [note EXCEPT ![t].state = s]
    /\ UNCHANGED <<phase, machine, gold>>

Next ==
    \E t \in Tickets :
        \/ Arrive(t)
        \/ \E l \in Labels : Classify(t, l) \/ Override(t, l)
        \/ Escalate(t)
        \/ Confirm(t)
        \/ Suggest(t)
        \/ Rewrite(t)
        \/ \E s \in {"approved", "discarded"} : Resolve(t, s)

Spec == Init /\ [][Next]_vars
=============================================================================
