---------------------------- MODULE TriageWorker ---------------------------
(***************************************************************************)
(* The worker thread (services/worker.py) with the classifier and reply    *)
(* pipelines it runs (services/classifier.py), inside the process that     *)
(* starts and stops it (main.py lifespan).                                 *)
(*                                                                         *)
(* pc is where the thread is.  A provider call is one step from the call   *)
(* to the llm_calls row and the breaker's record; the four call stages     *)
(* carry the purpose their row is stored under.  The row is flushed into   *)
(* the open transaction (pending) and reaches the table only when the      *)
(* worker commits.                                                         *)
(***************************************************************************)
EXTENDS TicketStore, Breaker

CONSTANTS
    HttpFailures,  \* what a failed call is recorded as
    Poisoned,      \* tickets whose answer makes the client raise, every time
    MaxGlitches,   \* bound on transient exceptions and failing commits
    MaxRestarts    \* bound on shutdowns and crashes

ASSUME WorkerAssumption ==
    /\ HttpFailures \subseteq {"timeout", "api_error"}
    /\ HttpFailures # {}
    /\ Poisoned \subseteq Tickets
    /\ MaxGlitches \in Nat
    /\ MaxRestarts \in Nat

TriageStages == {"classify", "repair"}
ReplyStages  == {"reply_draft", "reply_repair"}
CallStages   == TriageStages \cup ReplyStages
CommitStages == {"save", "escalate", "no_draft", "save_draft"}

VARIABLES
    pc,        \* the thread's position
    current,   \* the ticket process_next_ticket selected
    outcome,   \* the labels of a parsed classification
    attempts,  \* calls made by the pipeline that is running
    target,    \* the queue resolve_queue returned
    reason,    \* TriageFailure.reason, ReplyDraftFailure.reason
    pending,   \* llm_calls rows flushed, not committed
    proc,      \* the process: "up", "stopping", "closed" (client closed), "down"
    glitches,  \* how much of MaxGlitches is spent
    restarts   \* how much of MaxRestarts is spent

threadVars == <<pc, current, outcome, attempts, target, reason, pending>>
boundVars  == <<glitches, restarts>>
workerVars == <<threadVars, proc, boundVars>>

WorkerTypeOK ==
    /\ pc \in {"poll", "idle", "route", "stopped"} \cup CallStages \cup CommitStages
    /\ current \in Tickets \cup {None}
    /\ outcome \in Labels \cup {None}
    /\ attempts \in Attempts
    /\ target \in Queues \cup {None}
    /\ reason \in TriageErrors \cup {None}
    /\ pending \in Seq(CallRows)
    /\ proc \in {"up", "stopping", "closed", "down"}
    /\ glitches \in 0..MaxGlitches
    /\ restarts \in 0..MaxRestarts

WorkerInit ==
    /\ pc = "poll"
    /\ current = None
    /\ outcome = None
    /\ attempts = 1
    /\ target = None
    /\ reason = None
    /\ pending = <<>>
    /\ proc = "up"
    /\ glitches = 0
    /\ restarts = 0

(* The session is closed and its locals are gone; what was only flushed is
   rolled back. *)
Forget(position) ==
    /\ pc' = position
    /\ current' = None
    /\ outcome' = None
    /\ attempts' = 1
    /\ target' = None
    /\ reason' = None
    /\ pending' = <<>>

Glitch ==
    /\ glitches < MaxGlitches
    /\ glitches' = glitches + 1

----------------------------------------------------------------------------
(* Mutants: the poll takes escalated tickets again; the first invalid answer
   keeps its "ok"; an exception is not followed by a rollback; the reply is drafted before the triage is committed; nothing
   in _run catches a failing commit. *)

OldestUnfinished(t) ==
    /\ status[t] \in {"received", "needs_human"}
    /\ \A u \in Tickets : status[u] = "received" => created[t] <= created[u]

FirstInvalidLeftOk ==
    /\ pc \in {"classify", "reply_draft"}
    /\ Allows
    /\ proc \in {"up", "stopping"}
    /\ current \notin Poisoned
    /\ RecordSuccess
    /\ pending' = Append(pending, [purpose |-> pc, outcome |-> "ok"])
    /\ attempts' = 2
    /\ pc' = IF pc = "classify" THEN "repair" ELSE "reply_repair"
    /\ UNCHANGED <<storeVars, current, outcome, target, reason, proc, boundVars>>

RaisesWithoutRollback ==
    /\ pc \in CallStages
    /\ Allows
    /\ IF proc = "closed" \/ current \in Poisoned THEN UNCHANGED glitches ELSE Glitch
    /\ pc' = "poll"
    /\ UNCHANGED <<storeVars, breakerVars, current, outcome, attempts, target, reason,
                   pending, proc, restarts>>

RouteThenDraft ==
    /\ pc = "route"
    /\ target' = ResolveQueue(rules, outcome)
    /\ pc' = "reply_draft"
    /\ UNCHANGED <<storeVars, breakerVars, current, outcome, attempts, reason,
                   pending, proc, boundVars>>

CommitFailureKillsThread ==
    /\ pc \in CommitStages \cup {"route"}
    /\ Glitch
    /\ Forget("stopped")
    /\ UNCHANGED <<storeVars, breakerVars, proc, restarts>>

----------------------------------------------------------------------------
(* The loop of Worker._run and the head of process_next_ticket. *)

Oldest(t) ==
    /\ status[t] = "received"
    /\ \A u \in Tickets : status[u] = "received" => created[t] <= created[u]

PollTicket(t) ==
    /\ pc = "poll" /\ proc = "up"
    /\ Oldest(t)
    /\ pc' = "classify"
    /\ current' = t
    /\ UNCHANGED <<storeVars, breakerVars, outcome, attempts, target, reason,
                   pending, proc, boundVars>>

PollNothing ==
    /\ pc = "poll" /\ proc = "up"
    /\ \A t \in Tickets : status[t] # "received"
    /\ pc' = "idle"
    /\ UNCHANGED <<storeVars, breakerVars, current, outcome, attempts, target,
                   reason, pending, proc, boundVars>>

(* The SELECT raises: critical log, one poll interval of rest. *)
PollFails ==
    /\ pc = "poll" /\ proc = "up"
    /\ Glitch
    /\ Forget("idle")
    /\ UNCHANGED <<storeVars, breakerVars, proc, restarts>>

(* _stop.wait returns after the interval, or at once when the flag is set. *)
WaitOver ==
    /\ pc = "idle"
    /\ pc' = "poll"
    /\ UNCHANGED <<storeVars, breakerVars, current, outcome, attempts, target,
                   reason, pending, proc, boundVars>>

LeaveLoop ==
    /\ pc = "poll" /\ proc \in {"stopping", "closed"}
    /\ pc' = "stopped"
    /\ UNCHANGED <<storeVars, breakerVars, current, outcome, attempts, target,
                   reason, pending, proc, boundVars>>

----------------------------------------------------------------------------
(* One call of LlmClient.complete and what classify_ticket or
   generate_reply_draft makes of it. *)

Record(o) == pending' = Append(pending, [purpose |-> pc, outcome |-> o])

(* TriageFailure(r) is handled by process_next_ticket, ReplyDraftFailure(r) by
   _generate_draft. *)
GiveUp(r) ==
    /\ pc' = IF pc \in TriageStages THEN "escalate" ELSE "no_draft"
    /\ reason' = r

(* The provider answers 200 with a JSON object: the client is open and the
   ticket is not one whose answers make it raise. *)
Answered ==
    /\ Allows
    /\ proc \in {"up", "stopping"}
    /\ current \notin Poisoned
    /\ RecordSuccess

(* CircuitOpenError: no call, no row. *)
CallRefused ==
    /\ pc \in CallStages
    /\ ~ Allows
    /\ GiveUp("circuit_open")
    /\ UNCHANGED <<storeVars, breakerVars, current, outcome, attempts, target,
                   pending, proc, boundVars>>

(* The answer validates as a TriageResult. *)
TriageParsed ==
    /\ pc \in TriageStages
    /\ Answered
    /\ Record("ok")
    /\ outcome' \in Labels
    /\ pc' = "route"
    /\ UNCHANGED <<storeVars, current, attempts, target, reason, proc, boundVars>>

(* The answer validates as a ReplyDraftResult. *)
ReplyParsed ==
    /\ pc \in ReplyStages
    /\ Answered
    /\ Record("ok")
    /\ pc' = "save_draft"
    /\ UNCHANGED <<storeVars, current, outcome, attempts, target, reason, proc,
                   boundVars>>

(* The first answer does not validate: its row says so, and one repair call. *)
FirstInvalid ==
    /\ pc \in {"classify", "reply_draft"}
    /\ Answered
    /\ Record("parse_error")
    /\ attempts' = 2
    /\ pc' = IF pc = "classify" THEN "repair" ELSE "reply_repair"
    /\ UNCHANGED <<storeVars, current, outcome, target, reason, proc, boundVars>>

(* Neither does the repaired one. *)
SecondInvalid ==
    /\ pc \in {"repair", "reply_repair"}
    /\ Answered
    /\ Record("parse_error")
    /\ GiveUp("parse_failed")
    /\ UNCHANGED <<storeVars, current, outcome, attempts, target, proc, boundVars>>

(* ProviderError: the retries are exhausted, the row is flushed, the breaker
   counts a failure.  Closing the client under a call breaks its connection,
   which is a transport error like any other. *)
CallFails ==
    /\ pc \in CallStages
    /\ Allows
    /\ \E o \in HttpFailures : Record(o)
    /\ RecordFailure
    /\ GiveUp("provider_error")
    /\ UNCHANGED <<storeVars, current, outcome, attempts, target, proc, boundVars>>

(* Any other exception (an answer that is no JSON object, a flush that fails, a
   client closed by stop()): rolled back by process_next_ticket or
   _generate_draft, which still report a processed ticket, so the loop polls
   again at once.  The breaker records nothing. *)
CallRaises ==
    /\ pc \in CallStages
    /\ Allows
    /\ IF proc = "closed" \/ current \in Poisoned THEN UNCHANGED glitches ELSE Glitch
    /\ Forget("poll")
    /\ UNCHANGED <<storeVars, breakerVars, proc, restarts>>

----------------------------------------------------------------------------
(* Routing and the four commits. *)

RouteTicket ==
    /\ pc = "route"
    /\ target' = ResolveQueue(rules, outcome)
    /\ pc' = "save"
    /\ UNCHANGED <<storeVars, breakerVars, current, outcome, attempts, reason,
                   pending, proc, boundVars>>

(* Every flushed row becomes durable with the commit that follows it. *)
KeepPending == calls' = [calls EXCEPT ![current] = @ \o pending]

SaveTriage ==
    /\ pc = "save"
    /\ triage[current] = None
    /\ triage' = [triage EXCEPT ![current] = [labels |-> outcome, attempts |-> attempts]]
    /\ status' = [status EXCEPT ![current] = "triaged"]
    /\ queue' = [queue EXCEPT ![current] = target]
    /\ triageError' = [triageError EXCEPT ![current] = None]
    /\ KeepPending
    /\ pending' = <<>>
    /\ pc' = "reply_draft"
    /\ attempts' = 1
    /\ UNCHANGED <<created, correction, draft, rules, breakerVars, current, outcome,
                   target, reason, proc, boundVars>>

Escalate ==
    /\ pc = "escalate"
    /\ status' = [status EXCEPT ![current] = "needs_human"]
    /\ queue' = [queue EXCEPT ![current] = DefaultQueue]
    /\ triageError' = [triageError EXCEPT ![current] = reason]
    /\ KeepPending
    /\ Forget("poll")
    /\ UNCHANGED <<created, triage, correction, draft, rules, breakerVars, proc,
                   boundVars>>

SaveDraft ==
    /\ pc = "save_draft"
    /\ draft[current] = None
    /\ draft' = [draft EXCEPT ![current] =
                    [state |-> "draft", body |-> "generated", attempts |-> attempts]]
    /\ KeepPending
    /\ Forget("poll")
    /\ UNCHANGED <<ticketVars, triage, correction, rules, breakerVars, proc, boundVars>>

(* ReplyDraftFailure: the call rows are kept although no draft is. *)
KeepCallsOnly ==
    /\ pc = "no_draft"
    /\ KeepPending
    /\ Forget("poll")
    /\ UNCHANGED <<ticketVars, triage, correction, draft, rules, breakerVars, proc,
                   boundVars>>

(* load_rules or a commit raises: nothing around them catches it but _run, which
   rests for an interval.  A second triage or draft row of a ticket would violate
   its UNIQUE key and end the same way. *)
CommitFails ==
    /\ pc \in CommitStages \cup {"route"}
    /\ IF \/ pc = "save" /\ triage[current] # None
          \/ pc = "save_draft" /\ draft[current] # None
       THEN UNCHANGED glitches
       ELSE Glitch
    /\ Forget("idle")
    /\ UNCHANGED <<storeVars, breakerVars, proc, restarts>>

----------------------------------------------------------------------------
(* The process around the thread. *)

(* Worker.stop sets the flag (the requests in flight were drained before). *)
BeginStop ==
    /\ proc = "up"
    /\ restarts < MaxRestarts
    /\ restarts' = restarts + 1
    /\ proc' = "stopping"
    /\ UNCHANGED <<storeVars, breakerVars, threadVars, glitches>>

(* join returns because the thread ended, or because poll + 5 seconds passed
   while it was still in a call; the client is closed in both cases. *)
CloseClient ==
    /\ proc = "stopping"
    /\ proc' = "closed"
    /\ UNCHANGED <<storeVars, breakerVars, threadVars, boundVars>>

(* The memory of the process is gone: the thread (a daemon), its transaction and
   the breaker. *)
LoseMemory ==
    /\ proc' = "down"
    /\ Forget("stopped")
    /\ circuit' = "closed"
    /\ failures' = 0

Exit ==
    /\ proc = "closed"
    /\ LoseMemory
    /\ UNCHANGED <<storeVars, boundVars>>

Crash ==
    /\ proc \in {"up", "stopping", "closed"}
    /\ restarts < MaxRestarts
    /\ restarts' = restarts + 1
    /\ LoseMemory
    /\ UNCHANGED <<storeVars, glitches>>

(* lifespan starts a new worker; `received` is the queue it finds. *)
Restart ==
    /\ proc = "down"
    /\ proc' = "up"
    /\ pc' = "poll"
    /\ UNCHANGED <<storeVars, breakerVars, current, outcome, attempts, target,
                   reason, pending, boundVars>>

----------------------------------------------------------------------------
(* The steps the thread takes by itself; it keeps running until it is killed. *)
ThreadStep ==
    \/ \E t \in Tickets : PollTicket(t)
    \/ PollNothing
    \/ PollFails
    \/ WaitOver
    \/ LeaveLoop
    \/ CallRefused
    \/ TriageParsed
    \/ ReplyParsed
    \/ FirstInvalid
    \/ SecondInvalid
    \/ CallFails
    \/ CallRaises
    \/ RouteTicket
    \/ SaveTriage
    \/ Escalate
    \/ SaveDraft
    \/ KeepCallsOnly
    \/ CommitFails

Shutdown == CloseClient \/ Exit
=============================================================================
