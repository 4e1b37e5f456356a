---------------------------- MODULE TicketStore ----------------------------
(***************************************************************************)
(* The database (app/models.py): the only state that survives a restart,   *)
(* and the queue between the API and the worker (`received` tickets).      *)
(* One action here is one committed transaction of the API that needs no   *)
(* earlier read; the worker and the review endpoints are modules of their  *)
(* own.  A row that is keyed by ticket_id UNIQUE is a function value, None *)
(* when there is no such row.                                              *)
(***************************************************************************)
EXTENDS Routing

CONSTANTS
    Tickets,     \* one per external_id
    RuleTables,  \* the tables an operator may PUT
    SeedRules,   \* the table the migrations install
    MaxStamp     \* bound on the values of tickets.created_at

Statuses     == {"received", "triaged", "needs_human", "approved", "corrected"}
TriageErrors == {"parse_failed", "provider_error", "circuit_open"}
Purposes     == {"classify", "repair", "reply_draft", "reply_repair"}
CallOutcomes == {"ok", "parse_error", "timeout", "api_error"}
ReplyStates  == {"draft", "approved", "discarded"}

Stamps   == 1..MaxStamp
Attempts == {1, 2}  \* 1 = clean parse, 2 = the repair call was needed
CallRows == [purpose: Purposes, outcome: CallOutcomes]
TriageRows == [labels: Labels, attempts: Attempts]
(* A draft's text is what the model wrote, or what some reviewer put there. *)
DraftRows == [state: ReplyStates, body: {"generated", "edited"}, attempts: Attempts]

ASSUME StoreAssumption ==
    /\ MaxStamp \in Nat \ {0}
    /\ RuleTables \subseteq Seq(Rules)
    /\ SeedRules \in RuleTables
    /\ None \notin Tickets \cup Labels \cup TriageRows \cup DraftRows \cup TriageErrors
    /\ "absent" \notin Statuses

VARIABLES
    status,       \* tickets.status, "absent" before the row exists
    created,      \* tickets.created_at, 0 before the row exists
    queue,        \* tickets.queue
    triageError,  \* tickets.triage_error
    triage,       \* triages, one row per ticket
    correction,   \* corrections, one row per ticket: its gold labels
    draft,        \* reply_drafts, one row per ticket
    calls,        \* llm_calls of a ticket, in the order they were made
    rules         \* routing_rules by position

ticketVars == <<status, created, queue, triageError>>
storeVars  == <<status, created, queue, triageError, triage, correction, draft,
                calls, rules>>

StoreTypeOK ==
    /\ status \in [Tickets -> Statuses \cup {"absent"}]
    /\ created \in [Tickets -> Stamps \cup {0}]
    /\ queue \in [Tickets -> Queues \cup {None}]
    /\ triageError \in [Tickets -> TriageErrors \cup {None}]
    /\ triage \in [Tickets -> TriageRows \cup {None}]
    /\ correction \in [Tickets -> Labels \cup {None}]
    /\ draft \in [Tickets -> DraftRows \cup {None}]
    /\ calls \in [Tickets -> Seq(CallRows)]
    /\ rules \in RuleTables

StoreInit ==
    /\ status = [t \in Tickets |-> "absent"]
    /\ created = [t \in Tickets |-> 0]
    /\ queue = [t \in Tickets |-> None]
    /\ triageError = [t \in Tickets |-> None]
    /\ triage = [t \in Tickets |-> None]
    /\ correction = [t \in Tickets |-> None]
    /\ draft = [t \in Tickets |-> None]
    /\ calls = [t \in Tickets |-> <<>>]
    /\ rules = SeedRules

----------------------------------------------------------------------------
(* POST /tickets, POST /webhooks/email: insert a received ticket.  A replay of
   a known external_id changes nothing.  created_at is stamped from the wall
   clock before the commit, so commits need not follow stamp order, and two
   tickets may carry the same stamp: any stamp will do. *)
IngestTicket(t) ==
    /\ status[t] = "absent"
    /\ status' = [status EXCEPT ![t] = "received"]
    /\ created' \in { [created EXCEPT ![t] = s] : s \in Stamps }
    /\ UNCHANGED <<queue, triageError, triage, correction, draft, calls, rules>>

(* PUT /rules: delete every rule and insert the new table, one transaction. *)
PutRules ==
    /\ rules' \in RuleTables \ {rules}
    /\ UNCHANGED <<ticketVars, triage, correction, draft, calls>>

(* What GET /corrections/export yields as the label of a ticket, with its
   source: a correction joined on status corrected, the triage joined on status
   approved. *)
ExportedLabel(t) ==
    IF status[t] = "corrected" /\ correction[t] # None THEN correction[t]
    ELSE IF status[t] = "approved" /\ triage[t] # None THEN triage[t].labels
    ELSE None
=============================================================================
