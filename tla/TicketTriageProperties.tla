----------------------- MODULE TicketTriageProperties ----------------------
(***************************************************************************)
(* What the composed service of TicketTriage guarantees, and what its      *)
(* documents say of it.                                                    *)
(***************************************************************************)
EXTENDS TicketTriage

----------------------------------------------------------------------------
(* The tables agree with each other. *)

(* A column is set exactly when the status calls for it: an undecided ticket has
   no queue, verdict, correction or draft; needs_human has a reason, the default
   queue and no triage row; triaged and approved have the model's verdict;
   corrected has the human's (worker.py process_next_ticket, reviews.py). *)
VerdictExplainsStatus ==
    \A t \in Tickets :
        /\ status[t] \in {"absent", "received"} =>
              /\ triage[t] = None /\ correction[t] = None /\ draft[t] = None
              /\ queue[t] = None /\ triageError[t] = None
        /\ (status[t] = "needs_human") <=> (triageError[t] # None)
        /\ status[t] = "needs_human" =>
              triage[t] = None /\ correction[t] = None /\ queue[t] = DefaultQueue
        /\ status[t] \in {"triaged", "approved"} => triage[t] # None
        /\ status[t] = "triaged" => correction[t] = None
        /\ status[t] = "corrected" => correction[t] # None
        /\ draft[t] # None => triage[t] # None

(* The rows two calls with these purposes leave when the pipeline parses the
   first answer (n = 1) or the repaired one (n = 2). *)
ParsedLog(first, second, n) ==
    IF n = 1 THEN <<[purpose |-> first, outcome |-> "ok"]>>
    ELSE <<[purpose |-> first, outcome |-> "parse_error"],
           [purpose |-> second, outcome |-> "ok"]>>

(* ... and when it gives up.  An open circuit refuses the first call only. *)
FailedLogs(first, second, why) ==
    CASE why = "circuit_open" -> {<<>>}
      [] why = "provider_error" ->
           { <<[purpose |-> first, outcome |-> f]>> : f \in HttpFailures }
           \cup { <<[purpose |-> first, outcome |-> "parse_error"],
                    [purpose |-> second, outcome |-> f]>> : f \in HttpFailures }
      [] why = "parse_failed" ->
           { <<[purpose |-> first, outcome |-> "parse_error"],
               [purpose |-> second, outcome |-> "parse_error"]>> }

(* The logs a triaged ticket may show for its reply: the draft's own, those of a
   failure, or none at all (the generation was rolled back or died). *)
ReplyLogs(t) ==
    IF draft[t] # None
    THEN {ParsedLog("reply_draft", "reply_repair", draft[t].attempts)}
    ELSE UNION { FailedLogs("reply_draft", "reply_repair", why) : why \in TriageErrors }

(* The committed llm_calls rows of a ticket are exactly one run of the pipeline
   that produced its verdict, and at most one of the reply pipeline, whatever
   retries, rollbacks, crashes and restarts came before: nothing is billed to a
   ticket that its verdict does not explain.  circuit_open means that no call was
   made; a call is never refused between a classification and its repair. *)
AuditTrail ==
    \A t \in Tickets :
        IF triage[t] # None
        THEN \E tail \in ReplyLogs(t) :
                calls[t] = ParsedLog("classify", "repair", triage[t].attempts) \o tail
        ELSE IF status[t] = "needs_human"
        THEN calls[t] \in FailedLogs("classify", "repair", triageError[t])
        ELSE IF status[t] = "corrected"
        THEN calls[t] \in
                UNION { FailedLogs("classify", "repair", why) : why \in TriageErrors }
        ELSE calls[t] = <<>>

(* What AuditTrail rests on: the rows that are flushed and not committed are those the
   calls so far have left, wherever the thread is; the reply pipeline starts from the
   classification's rows alone; and the circuit, closed by an answer that had to be
   repaired, cannot open before the repair (classifier.py classify_ticket,
   generate_reply_draft; worker.py). *)
PendingExplained ==
    /\ pc \in {"poll", "idle", "stopped", "classify", "reply_draft"} =>
          pending = <<>> /\ attempts = 1
    /\ pc = "repair" =>
          pending = <<[purpose |-> "classify", outcome |-> "parse_error"]>>
    /\ pc = "reply_repair" =>
          pending = <<[purpose |-> "reply_draft", outcome |-> "parse_error"]>>
    /\ pc \in {"repair", "reply_repair"} => attempts = 2 /\ Allows
    /\ pc \in {"route", "save"} => pending = ParsedLog("classify", "repair", attempts)
    /\ pc = "save_draft" => pending = ParsedLog("reply_draft", "reply_repair", attempts)
    /\ pc \in {"escalate", "no_draft"} => reason \in TriageErrors
    /\ pc = "escalate" => pending \in FailedLogs("classify", "repair", reason)
    /\ pc = "no_draft" => pending \in FailedLogs("reply_draft", "reply_repair", reason)
    /\ pc \in ReplyStages \cup {"no_draft", "save_draft"} =>
          calls[current] = ParsedLog("classify", "repair", triage[current].attempts)

----------------------------------------------------------------------------
(* The worker and the reviewers never work on the same undecided ticket. *)

Deciding == pc \in TriageStages \cup {"route", "save", "escalate"}

(* From the SELECT to the commit of the verdict the ticket stays received and no
   review of it is open: the worker's blind UPDATE overwrites nobody's decision
   (worker.py lines 53 and 89 do not look at the status again). *)
WorkerOwnsItsTicket ==
    Deciding =>
        /\ status[current] = "received"
        /\ triage[current] = None
        /\ \A r \in Reviewers : review[r].ticket # current

(* The reply pipeline runs for a ticket with a committed triage and no draft
   yet, whatever the reviewers do to the ticket meanwhile (worker.py
   _generate_draft inserts without looking). *)
DraftStageHasVerdict ==
    pc \in ReplyStages \cup {"no_draft", "save_draft"} =>
        triage[current] # None /\ draft[current] = None

----------------------------------------------------------------------------
(* Queues. *)

(* A ticket lies in the queue that some rule table gives to its label: the
   human's once there is a correction, also if an approval overtakes it, the
   model's before that (worker.py line 82, reviews.py line 94). *)
QueueFollowsLabel ==
    \A t \in Tickets :
        /\ correction[t] # None =>
              \E table \in RuleTables : queue[t] = ResolveQueue(table, correction[t])
        /\ correction[t] = None /\ triage[t] # None =>
              \E table \in RuleTables : queue[t] = ResolveQueue(table, triage[t].labels)

(* A queue that is about to be written was resolved by a table that was loaded. *)
QueuesResolved ==
    /\ pc = "save" => \E table \in RuleTables : target = ResolveQueue(table, outcome)
    /\ \A r \in Reviewers :
          review[r].op = "correct" =>
              \E table \in RuleTables : review[r].queue = ResolveQueue(table, review[r].labels)

----------------------------------------------------------------------------
(* The inductive invariant. *)

(* The locals of process_next_ticket are set where it uses them. *)
LocalsSet ==
    /\ pc \in CallStages \cup CommitStages \cup {"route"} => current \in Tickets
    /\ pc \in {"route", "save"} => outcome \in Labels
    /\ pc = "save" => target \in Queues
    /\ pc = "escalate" => reason \in TriageErrors

(* An open request has read a ticket that was decided, and what it read can only
   have moved forward since; an open reply request has read a draft. *)
RequestsGrounded ==
    /\ \A r \in Reviewers :
          /\ review[r].op = "none" => review[r].ticket = None
          /\ review[r].op # "none" =>
                /\ review[r].ticket \in Tickets
                /\ status[review[r].ticket] \notin {"absent", "received"}
          /\ review[r].op = "approve" => triage[review[r].ticket] # None
          /\ review[r].op \in {"route", "correct"} => review[r].labels \in Labels
          /\ review[r].op = "correct" => review[r].queue \in Queues
    /\ \A q \in Repliers :
          reply[q].op # "none" =>
              /\ reply[q].ticket \in Tickets
              /\ draft[reply[q].ticket] # None

(* The parts support each other: a verdict is explained because the worker's
   UPDATE meets a received ticket, which holds because no request is grounded in
   an undecided one, which holds because no verdict is taken back. *)
IndInv ==
    /\ TypeOK
    /\ LocalsSet
    /\ RequestsGrounded
    /\ VerdictExplainsStatus
    /\ WorkerOwnsItsTicket
    /\ DraftStageHasVerdict

----------------------------------------------------------------------------
(* Steps. *)

(* A decided ticket never becomes undecided and a reviewed one is never put back
   into the review queue, even when reviews race with each other, with the
   worker and with crashes. *)
NeverGoesBack ==
    [][\A t \in Tickets :
          /\ status[t] \in {"approved", "corrected"} =>
                status'[t] \in {"approved", "corrected"}
          /\ status[t] \in CorrectableStatuses =>
                status'[t] \in {status[t], "approved", "corrected"}
          /\ status[t] = "needs_human" => status'[t] # "approved"]_vars

(* The first committed correction is the one that stays: a second request that
   read the ticket before it fails as a whole, and leaves labels, queue and
   status alone (corrections.ticket_id UNIQUE). *)
FirstCorrectionStays ==
    [][\A t \in Tickets :
          correction[t] # None =>
              /\ correction'[t] = correction[t]
              /\ queue'[t] = queue[t]]_vars

(* The text and state a draft was resolved with do not change any more
   (models.py ReplyDraft, "terminal once left draft"). *)
ResolvedDraftIsFrozen ==
    [][\A t \in Tickets :
          (draft[t] # None /\ draft[t].state # "draft") => draft'[t] = draft[t]]_vars

(* llm_calls rows that were flushed become durable: the table has one row per
   provider call (docs/architecture.md, llm_calls; docs/PRD.md).  A crash and a
   commit that fails (the thread rests in "idle") are excused; an exception that
   process_next_ticket or _generate_draft swallows is not. *)
FlushedCallsAreKept ==
    [][(pending # <<>> /\ pending' = <<>> /\ pc' = "poll") =>
          calls'[current] = calls[current] \o pending]_vars

----------------------------------------------------------------------------
(* Progress. *)

(* Every ticket that was received gets a verdict, across shutdowns, crashes,
   failing commits and provider outages (worker.py: `received` is the queue; on
   restart, unprocessed tickets are picked up again). *)
EveryTicketIsDecided ==
    \A t \in Tickets \ Poisoned :
        (status[t] = "received") ~> (status[t] \notin {"absent", "received"})

----------------------------------------------------------------------------
(* The abstract specification.  A ticket's gold label is the one the export
   yields. *)
Promise == INSTANCE Lifecycle WITH
    phase   <- status,
    machine <- [t \in Tickets |-> IF triage[t] = None THEN None ELSE triage[t].labels],
    gold    <- [t \in Tickets |-> ExportedLabel(t)],
    note    <- [t \in Tickets |-> IF draft[t] = None THEN None
                   ELSE [state |-> draft[t].state, body |-> draft[t].body]]

ASSUME NoteAssumption == None \notin [state: ReplyStates, body: {"generated", "edited"}]

(* What KeepsPromise rests on: with one request of a kind at a time, whatever a request
   read is still so when it commits, because the worker leaves decided tickets and
   drafts that exist alone (routers/reviews.py, routers/reply.py). *)
ReadsAreCurrent ==
    /\ \A r \in Reviewers :
          /\ review[r].op = "approve" => status[review[r].ticket] = "triaged"
          /\ review[r].op \in {"route", "correct"} =>
                status[review[r].ticket] \in {"triaged", "needs_human"}
    /\ \A q \in Repliers :
          reply[q].op # "none" => draft[reply[q].ticket].state = "draft"

(* With one review and one reply request at a time, the service behaves as
   Lifecycle: documented transitions only, one gold label for ever, a frozen
   resolved reply. *)
KeepsPromise == Promise!Spec
=============================================================================
