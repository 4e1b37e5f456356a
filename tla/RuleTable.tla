----------------------------- MODULE RuleTable -----------------------------
(***************************************************************************)
(* What PUT /rules promises the rest of the service, with no rows and no   *)
(* locks: a request replaces the whole table at one moment between its     *)
(* start and its answer, or not at all; the answer is the table of a       *)
(* moment after that.                                                      *)
(***************************************************************************)
EXTENDS Sequences

CONSTANTS Requests, Rules, Payloads

VARIABLES
    table,   \* the ordered rule set
    request  \* request[w]: where request w is, what it was sent, what it was told

vars == <<table, request>>

NotStarted == [at |-> "none", payload |-> <<>>, answer |-> <<>>]

Init ==
    /\ table = <<>>
    /\ request = [w \in Requests |-> NotStarted]

(* The table that the migrations, or requests before these, leave. *)
Seed ==
    /\ table = <<>>
    /\ \A w \in Requests : request[w] = NotStarted
    /\ table' \in Seq(Rules)
    /\ UNCHANGED request

Start(w) ==
    /\ request[w].at = "none"
    /\ \E p \in Payloads :
          request' = [request EXCEPT ![w] = [at |-> "open", payload |-> p, answer |-> <<>>]]
    /\ UNCHANGED table

(* An empty set holds no position against the rows that others commit meanwhile: it may
   also change nothing. *)
Replace(w) ==
    /\ request[w].at = "open"
    /\ request' = [request EXCEPT ![w].at = "committed"]
    /\ \/ table' = request[w].payload
       \/ request[w].payload = <<>> /\ UNCHANGED table

Answer(w) ==
    /\ request[w].at = "committed"
    /\ request' = [request EXCEPT ![w] = [at |-> "answered", payload |-> @.payload,
                                          answer |-> table]]
    /\ UNCHANGED table

(* 500; only that of an open request says that nothing was replaced. *)
Fail(w) ==
    /\ request[w].at \in {"open", "committed"}
    /\ request' = [request EXCEPT ![w].at = "failed"]
    /\ UNCHANGED table

Next ==
    \/ Seed
    \/ \E w \in Requests : Start(w) \/ Replace(w) \/ Answer(w) \/ Fail(w)

Spec == Init /\ [][Next]_vars
=============================================================================
