------------------------------- MODULE Intake ------------------------------
(***************************************************************************)
(* POST /tickets, POST /webhooks/email and GET /tickets/{id}, statement by *)
(* statement (routers/tickets.py, routers/webhooks.py).  Every statement   *)
(* reads what is committed when it runs: a request may find no ticket,     *)
(* lose the race on external_id to another, and answer about a ticket that *)
(* has moved on since.  Each element of Clients is a request slot; a       *)
(* client that retries takes a slot again.                                 *)
(***************************************************************************)
EXTENDS TicketStore

CONSTANT Clients

VARIABLES
    intake,  \* intake[c]: what the request in slot c is doing
    made     \* the tickets that were answered 201 (history)

intakeVars == <<intake, made>>

(* at is the next statement, code the answer's status, status and error the ticket
   row as it was read, left the SELECTs of ticket_detail to come, seen those that
   found something. *)
Unread(at, t, code) ==
    [at |-> at, ticket |-> t, code |-> code, status |-> "absent", error |-> None,
     left |-> <<>>, seen |-> {}]

NoRequest == Unread("none", None, 0)

Parts == {"correction", "triage", "metrics"}

Requests ==
    [at: {"none", "insert", "reselect", "refresh", "read", "answer"},
     ticket: Tickets \cup {None}, code: {0, 200, 201, 500},
     status: Statuses \cup {"absent"}, error: TriageErrors \cup {None},
     left: Seq(Parts), seen: SUBSET Parts]

IntakeTypeOK ==
    /\ intake \in [Clients -> Requests]
    /\ made \in SUBSET Tickets

IntakeInit ==
    /\ intake = [c \in Clients |-> NoRequest]
    /\ made = {}

IntakeDrained == \A c \in Clients : intake[c].at = "none"

----------------------------------------------------------------------------
(* Mutants: the totals are read before the triage; the losing insert answers
   for the row it did not insert; any error is taken for a conflict; an
   upsert. *)

MetricsFirst(s) ==
    IF s = "corrected" THEN <<"metrics", "correction", "triage">>
    ELSE <<"metrics", "triage">>

ConflictCreated(c) ==
    /\ intake[c].at = "insert"
    /\ status[intake[c].ticket] # "absent"
    /\ intake' = [intake EXCEPT ![c] = Unread("refresh", @.ticket, 201)]
    /\ UNCHANGED <<storeVars, made>>

AnyErrorIsConflict(c) ==
    /\ intake[c].at = "insert"
    /\ intake' = [intake EXCEPT ![c] = Unread("reselect", @.ticket, 0)]
    /\ UNCHANGED <<storeVars, made>>

UpsertTicket(c) ==
    LET t == intake[c].ticket IN
    /\ intake[c].at = "insert"
    /\ status' = [status EXCEPT ![t] = "received"]
    /\ created' = [created EXCEPT ![t] = 1]
    /\ intake' = [intake EXCEPT ![c] = Unread("refresh", @.ticket, 201)]
    /\ UNCHANGED <<queue, triageError, triage, correction, draft, calls, rules, made>>

----------------------------------------------------------------------------
(* ticket_detail: the correction is looked for if the row read said corrected. *)
DetailReads(s) ==
    IF s = "corrected" THEN <<"correction", "triage", "metrics">>
    ELSE <<"triage", "metrics">>

Exists(part, t) ==
    CASE part = "correction" -> correction[t] # None
      [] part = "triage"     -> triage[t] # None
      [] part = "metrics"    -> calls[t] # <<>>

(* The request holds the committed row of t and goes on to ticket_detail. *)
RowRead(c, t, code) ==
    intake' = [intake EXCEPT ![c] =
        [at |-> "read", ticket |-> t, code |-> code, status |-> status[t],
         error |-> triageError[t], left |-> DetailReads(status[t]), seen |-> {}]]

(* The first SELECT finds the ticket: a replay, or GET /tickets/{id}. *)
FindTicket(c, t) ==
    /\ intake[c].at = "none"
    /\ status[t] # "absent"
    /\ RowRead(c, t, 200)
    /\ UNCHANGED <<storeVars, made>>

FindNothing(c, t) ==
    /\ intake[c].at = "none"
    /\ status[t] = "absent"
    /\ intake' = [intake EXCEPT ![c] = Unread("insert", t, 0)]
    /\ UNCHANGED <<storeVars, made>>

InsertTicket(c) ==
    /\ intake[c].at = "insert"
    /\ IngestTicket(intake[c].ticket)
    /\ intake' = [intake EXCEPT ![c] = Unread("refresh", @.ticket, 201)]
    /\ UNCHANGED made

(* IntegrityError: another request has inserted the external_id since. *)
InsertConflicts(c) ==
    /\ intake[c].at = "insert"
    /\ status[intake[c].ticket] # "absent"
    /\ intake' = [intake EXCEPT ![c] = Unread("reselect", @.ticket, 0)]
    /\ UNCHANGED <<storeVars, made>>

(* OperationalError, which ingest_ticket does not catch: SQLite's busy timeout is
   over and some other transaction still holds the write lock. *)
InsertTimesOut(c) ==
    /\ intake[c].at = "insert"
    /\ intake' = [intake EXCEPT ![c] = Unread("answer", @.ticket, 500)]
    /\ UNCHANGED <<storeVars, made>>

(* The second SELECT.  Without a row the IntegrityError is raised again. *)
Reselect(c) ==
    LET t == intake[c].ticket IN
    /\ intake[c].at = "reselect"
    /\ IF status[t] # "absent" THEN RowRead(c, t, 200)
       ELSE intake' = [intake EXCEPT ![c] = Unread("answer", @.ticket, 500)]
    /\ UNCHANGED <<storeVars, made>>

(* db.refresh reads the row again, after the commit. *)
Refresh(c) ==
    /\ intake[c].at = "refresh"
    /\ RowRead(c, intake[c].ticket, intake[c].code)
    /\ UNCHANGED <<storeVars, made>>

(* One SELECT of ticket_detail. *)
ReadPart(c) ==
    LET q    == intake[c]
        part == Head(q.left)
        rest == Tail(q.left) IN
    /\ q.at = "read"
    /\ intake' = [intake EXCEPT ![c] =
          [at |-> IF rest = <<>> THEN "answer" ELSE "read", ticket |-> q.ticket,
           code |-> q.code, status |-> q.status, error |-> q.error, left |-> rest,
           seen |-> IF Exists(part, q.ticket) THEN q.seen \cup {part} ELSE q.seen]]
    /\ UNCHANGED <<storeVars, made>>

Answer(c) ==
    /\ intake[c].at = "answer"
    /\ made' = IF intake[c].code = 201 THEN made \cup {intake[c].ticket} ELSE made
    /\ intake' = [intake EXCEPT ![c] = NoRequest]
    /\ UNCHANGED storeVars
=============================================================================
