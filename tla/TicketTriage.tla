---------------------------- MODULE TicketTriage ---------------------------
(***************************************************************************)
(* The whole service: one process that holds the worker thread and the API *)
(* requests, beside one database.  The components meet in the tables only. *)
(***************************************************************************)
EXTENDS TriageWorker, Reviews, ReplyDrafts

vars == <<storeVars, breakerVars, workerVars, review, reply>>

TypeOK ==
    /\ StoreTypeOK
    /\ BreakerTypeOK
    /\ WorkerTypeOK
    /\ ReviewTypeOK
    /\ ReplyTypeOK

Init ==
    /\ StoreInit
    /\ BreakerInit
    /\ WorkerInit
    /\ ReviewInit
    /\ ReplyInit

----------------------------------------------------------------------------
(* Requests are served while the process is up. *)
Ingest ==
    /\ proc = "up"
    /\ \E t \in Tickets : IngestTicket(t)
    /\ UNCHANGED <<breakerVars, workerVars, review, reply>>

OperatorPutsRules ==
    /\ proc = "up"
    /\ PutRules
    /\ UNCHANGED <<breakerVars, workerVars, review, reply>>

ReviewerStep ==
    /\ proc = "up"
    /\ ReviewStart \/ ReviewFinish
    /\ UNCHANGED <<breakerVars, workerVars, reply>>

ReplierStep ==
    /\ proc = "up"
    /\ ReplyStart \/ ReplyFinish
    /\ UNCHANGED <<breakerVars, workerVars, review>>

WorkerStep == ThreadStep /\ UNCHANGED <<review, reply>>

TimePasses == CooldownOver /\ UNCHANGED <<storeVars, workerVars, review, reply>>

(* The server drains its requests before lifespan stops the worker. *)
StopRequested ==
    /\ ReviewsDrained /\ RepliesDrained
    /\ BeginStop
    /\ UNCHANGED <<review, reply>>

ProcessStops == Shutdown /\ UNCHANGED <<review, reply>>

(* The requests die with the process, their transactions uncommitted. *)
ProcessDies ==
    /\ Crash
    /\ review' = [r \in Reviewers |-> NoReview]
    /\ reply' = [q \in Repliers |-> NoReply]

ProcessStarts == Restart /\ UNCHANGED <<review, reply>>

Next ==
    \/ Ingest
    \/ OperatorPutsRules
    \/ ReviewerStep
    \/ ReplierStep
    \/ WorkerStep
    \/ TimePasses
    \/ StopRequested
    \/ ProcessStops
    \/ ProcessDies
    \/ ProcessStarts

Spec == Init /\ [][Next]_vars

(* The thread is scheduled as long as it lives, stop() runs to its end, and the
   service is started again.  Nothing is asked of clients, of the provider (any
   answer, or none, ends a call) or of the end of a cooldown. *)
Fairness ==
    /\ WF_vars(WorkerStep)
    /\ WF_vars(ProcessStops)
    /\ WF_vars(ProcessStarts)

FairSpec == Spec /\ Fairness
=============================================================================
