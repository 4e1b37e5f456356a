------------------------------ MODULE Reviews ------------------------------
(***************************************************************************)
(* POST /tickets/{id}/approve and /correct (routers/reviews.py).           *)
(* A request reads the ticket in one statement and writes it in another:   *)
(* nothing locks or versions the row in between.  Each element of          *)
(* Reviewers is a request slot of the thread pool; one slot means that     *)
(* reviews are handled one at a time.                                      *)
(***************************************************************************)
EXTENDS TicketStore

CONSTANT Reviewers

VARIABLE review  \* review[r]: what the request in slot r is doing

(* Mutants of CorrectableStatuses. *)
ReviewedToo == {"triaged", "needs_human", "approved"}
ReceivedToo == {"received", "triaged", "needs_human"}

CorrectableStatuses == {"triaged", "needs_human"}

NoReview == [op |-> "none", ticket |-> None, labels |-> None, queue |-> None]

ReviewTypeOK ==
    review \in [Reviewers ->
        [op: {"none", "approve", "route", "correct"}, ticket: Tickets \cup {None},
         labels: Labels \cup {None}, queue: Queues \cup {None}]]

ReviewInit == review = [r \in Reviewers |-> NoReview]

ReviewsDrained == \A r \in Reviewers : review[r].op = "none"

----------------------------------------------------------------------------
(* Mutants: a correction that is not re-routed, one that leaves triage_error, one
   that replaces an earlier row. *)

KeepQueue(r) ==
    /\ review[r].op = "route"
    /\ review' = [review EXCEPT ![r].op = "correct",
                                ![r].queue = queue[review[r].ticket]]
    /\ UNCHANGED storeVars

CorrectLeavingError(r) ==
    LET t == review[r].ticket IN
    /\ review[r].op = "correct"
    /\ correction[t] = None
    /\ correction' = [correction EXCEPT ![t] = review[r].labels]
    /\ status' = [status EXCEPT ![t] = "corrected"]
    /\ queue' = [queue EXCEPT ![t] = review[r].queue]
    /\ review' = [review EXCEPT ![r] = NoReview]
    /\ UNCHANGED <<created, triageError, triage, draft, calls, rules>>

CorrectAgain(r) ==
    LET t == review[r].ticket IN
    /\ review[r].op = "correct"
    /\ correction' = [correction EXCEPT ![t] = review[r].labels]
    /\ status' = [status EXCEPT ![t] = "corrected"]
    /\ queue' = [queue EXCEPT ![t] = review[r].queue]
    /\ triageError' = [triageError EXCEPT ![t] = None]
    /\ review' = [review EXCEPT ![r] = NoReview]
    /\ UNCHANGED <<created, triage, draft, calls, rules>>

----------------------------------------------------------------------------
(* approve_ticket up to its commit: 409 unless the status it reads is triaged. *)
ReadToApprove(r, t) ==
    /\ review[r].op = "none"
    /\ status[t] = "triaged"
    /\ review' = [review EXCEPT ![r] =
                    [op |-> "approve", ticket |-> t, labels |-> None, queue |-> None]]
    /\ UNCHANGED storeVars

(* The commit: UPDATE tickets SET status = 'approved' WHERE id = t. *)
CommitApproval(r) ==
    /\ review[r].op = "approve"
    /\ status' = [status EXCEPT ![review[r].ticket] = "approved"]
    /\ review' = [review EXCEPT ![r] = NoReview]
    /\ UNCHANGED <<created, queue, triageError, triage, correction, draft, calls, rules>>

(* correct_ticket: 409 unless the status it reads is correctable. *)
ReadToCorrect(r, t, l) ==
    /\ review[r].op = "none"
    /\ status[t] \in CorrectableStatuses
    /\ review' = [review EXCEPT ![r] =
                    [op |-> "route", ticket |-> t, labels |-> l, queue |-> None]]
    /\ UNCHANGED storeVars

(* load_rules and resolve_queue, by the labels of the reviewer. *)
RouteCorrection(r) ==
    /\ review[r].op = "route"
    /\ review' = [review EXCEPT ![r] =
                    [op |-> "correct", ticket |-> @.ticket, labels |-> @.labels,
                     queue |-> ResolveQueue(rules, @.labels)]]
    /\ UNCHANGED storeVars

(* The commit: INSERT the correction and UPDATE the ticket. *)
CommitCorrection(r) ==
    LET t == review[r].ticket IN
    /\ review[r].op = "correct"
    /\ correction[t] = None
    /\ correction' = [correction EXCEPT ![t] = review[r].labels]
    /\ status' = [status EXCEPT ![t] = "corrected"]
    /\ queue' = [queue EXCEPT ![t] = review[r].queue]
    /\ triageError' = [triageError EXCEPT ![t] = None]
    /\ review' = [review EXCEPT ![r] = NoReview]
    /\ UNCHANGED <<created, triage, draft, calls, rules>>

(* Any database error ends the request with a 500 and its session is closed, which
   rolls it back: corrections.ticket_id is UNIQUE, so a second correction always ends
   here; a write may also give up waiting for a lock. *)
ReviewFails(r) ==
    /\ review[r].op # "none"
    /\ review' = [review EXCEPT ![r] = NoReview]
    /\ UNCHANGED storeVars

ReviewStart ==
    \E r \in Reviewers, t \in Tickets :
        \/ ReadToApprove(r, t)
        \/ \E l \in Labels : ReadToCorrect(r, t, l)

ReviewFinish ==
    \E r \in Reviewers :
        \/ CommitApproval(r)
        \/ RouteCorrection(r)
        \/ CommitCorrection(r)
        \/ ReviewFails(r)
=============================================================================
