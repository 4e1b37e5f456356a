---------------------------- MODULE ReplyDrafts ----------------------------
(***************************************************************************)
(* PUT /tickets/{id}/reply and POST .../reply/approve, .../reply/discard   *)
(* (routers/reply.py): the human's side of a suggested reply.  As in       *)
(* Reviews, the draft is read in one statement and written in another.     *)
(* Each element of Repliers is a request slot.                             *)
(***************************************************************************)
EXTENDS TicketStore

CONSTANT Repliers

VARIABLE reply  \* reply[q]: what the request in slot q is doing

NoReply == [op |-> "none", ticket |-> None]

ReplyTypeOK ==
    reply \in [Repliers -> [op: {"none", "edit", "approved", "discarded"},
                            ticket: Tickets \cup {None}]]

ReplyInit == reply = [q \in Repliers |-> NoReply]

RepliesDrained == \A q \in Repliers : reply[q].op = "none"

----------------------------------------------------------------------------
(* Mutant: no state check. *)
ReadAnyDraft(q, t, op) ==
    /\ reply[q].op = "none"
    /\ draft[t] # None
    /\ reply' = [reply EXCEPT ![q] = [op |-> op, ticket |-> t]]
    /\ UNCHANGED storeVars

(* _get_draft and the state check: 404 without a draft, 409 unless its state is
   draft.  op is "edit", or the state _transition was asked for. *)
ReadDraft(q, t, op) ==
    /\ reply[q].op = "none"
    /\ draft[t] # None
    /\ draft[t].state = "draft"
    /\ reply' = [reply EXCEPT ![q] = [op |-> op, ticket |-> t]]
    /\ UNCHANGED storeVars

(* edit_reply_draft's commit writes the body column only. *)
CommitEdit(q) ==
    /\ reply[q].op = "edit"
    /\ draft' = [draft EXCEPT ![reply[q].ticket].body = "edited"]
    /\ reply' = [reply EXCEPT ![q] = NoReply]
    /\ UNCHANGED <<ticketVars, triage, correction, calls, rules>>

(* _transition's commit writes the state column only. *)
CommitTransition(q) ==
    /\ reply[q].op \in {"approved", "discarded"}
    /\ draft' = [draft EXCEPT ![reply[q].ticket].state = reply[q].op]
    /\ reply' = [reply EXCEPT ![q] = NoReply]
    /\ UNCHANGED <<ticketVars, triage, correction, calls, rules>>

(* A database error: a 500, and nothing is written. *)
ReplyFails(q) ==
    /\ reply[q].op # "none"
    /\ reply' = [reply EXCEPT ![q] = NoReply]
    /\ UNCHANGED storeVars

ReplyStart ==
    \E q \in Repliers, t \in Tickets, op \in {"edit", "approved", "discarded"} :
        ReadDraft(q, t, op)

ReplyFinish == 
    \E q \in Repliers : CommitEdit(q) \/ CommitTransition(q) \/ ReplyFails(q)
=============================================================================
