--------------------------- MODULE VerdictProofs ---------------------------
(***************************************************************************)
(* What the columns and rows of a ticket owe to its verdict, for any       *)
(* rules, replaced at any moment, any number of racing reviews, crashes    *)
(* and retries: its queue is one that its label was routed to, and its     *)
(* call log is that of the pipeline that produced the verdict.             *)
(***************************************************************************)
EXTENDS TicketTriageProofs, SequenceTheorems

----------------------------------------------------------------------------
(* The queue. *)

QueueInv == QueuesResolved /\ QueueFollowsLabel

(* Steps that write neither a queue nor a label. *)
LEMMA QueueFrame ==
    ASSUME QueueFollowsLabel, UNCHANGED <<queue, correction, triage>>
    PROVE  QueueFollowsLabel'
PROOF
  BY DEF QueueFollowsLabel

LEMMA ResolvedKept ==
    ASSUME IndInv, QueuesResolved, [Next]_vars
    PROVE  QueuesResolved'
PROOF
<1>1. rules \in RuleTables
  BY DEF IndInv, TypeOK, StoreTypeOK
<1>2. pc' = "save" => \E table \in RuleTables : target' = ResolveQueue(table, outcome')
  <2>1. CASE RouteTicket
    BY <1>1, <2>1 DEF RouteTicket
  <2>2. CASE pc' # "save" \/ UNCHANGED <<pc, target, outcome>>
    BY <2>2 DEF QueuesResolved
  <2>. QED
    BY <2>1, <2>2
       DEF Next, Ingest, OperatorPutsRules, ReviewerStep, ReplierStep, WorkerStep, ThreadStep,
           TimePasses, StopRequested, ProcessStops, ProcessDies, ProcessStarts, vars,
           PollTicket, PollNothing, PollFails, WaitOver, LeaveLoop, CallRefused, GiveUp,
           TriageParsed, ReplyParsed, FirstInvalid, SecondInvalid, CallFails, CallRaises,
           SaveTriage, Escalate, SaveDraft, KeepCallsOnly, CommitFails, Forget, Shutdown,
           BeginStop, CloseClient, Exit, LoseMemory, Crash, Restart, workerVars, threadVars
<1>3. ASSUME NEW r \in Reviewers, review'[r].op = "correct"
      PROVE  \E table \in RuleTables : review'[r].queue = ResolveQueue(table, review'[r].labels)
  <2>1. CASE \E s \in Reviewers : RouteCorrection(s)
    <3>1. PICK s \in Reviewers : RouteCorrection(s)
      BY <2>1
    <3>2. CASE r = s
      BY <1>1, <3>1, <3>2 DEF RouteCorrection, IndInv, TypeOK, ReviewTypeOK
    <3>3. CASE r # s
      BY <1>3, <3>1, <3>3 DEF RouteCorrection, IndInv, TypeOK, ReviewTypeOK, QueuesResolved
    <3>. QED
      BY <3>2, <3>3
  <2>2. CASE review' = review
    BY <1>3, <2>2 DEF QueuesResolved
  <2>3. CASE review' = [s \in Reviewers |-> NoReview]
    BY <1>3, <2>3 DEF NoReview
  <2>4. CASE \E s \in Reviewers : review' = [review EXCEPT ![s] = NoReview]
    BY <1>3, <2>4 DEF NoReview, IndInv, TypeOK, ReviewTypeOK, QueuesResolved
  <2>5. CASE ReviewStart
    <3>1. PICK s \in Reviewers, t \in Tickets :
            ReadToApprove(s, t) \/ \E l \in Labels : ReadToCorrect(s, t, l)
      BY <2>5 DEF ReviewStart
    <3>2. r # s
      BY <1>3, <3>1 DEF ReadToApprove, ReadToCorrect, IndInv, TypeOK, ReviewTypeOK
    <3>. QED
      BY <1>3, <3>1, <3>2
         DEF ReadToApprove, ReadToCorrect, IndInv, TypeOK, ReviewTypeOK, QueuesResolved
  <2>. QED
    BY <2>1, <2>2, <2>3, <2>4, <2>5
       DEF Next, Ingest, OperatorPutsRules, ReviewerStep, ReviewFinish, CommitApproval,
           CommitCorrection, ReviewFails, ReplierStep, WorkerStep, TimePasses, StopRequested,
           ProcessStops, ProcessDies, ProcessStarts, vars
<1>. QED
  BY <1>2, <1>3 DEF QueuesResolved

LEMMA QueuesKept ==
    ASSUME IndInv, QueueInv, [Next]_vars
    PROVE  QueueFollowsLabel'
PROOF
<1>1. queue \in [Tickets -> Queues \cup {None}] /\ triage \in [Tickets -> TriageRows \cup {None}]
      /\ correction \in [Tickets -> Labels \cup {None}]
  BY DEF IndInv, TypeOK, StoreTypeOK
<1>2. CASE SaveTriage
  <2>1. current \in Tickets /\ correction[current] = None
    BY <1>2
       DEF SaveTriage, IndInv, WorkerOwnsItsTicket, VerdictExplainsStatus, Deciding,
           LocalsSet, CommitStages
  <2>2. PICK table \in RuleTables : target = ResolveQueue(table, outcome)
    BY <1>2 DEF SaveTriage, QueueInv, QueuesResolved
  <2>3. queue'[current] = target /\ triage'[current].labels = outcome
        /\ correction' = correction
    BY <1>1, <1>2, <2>1 DEF SaveTriage
  <2>4. \A t \in Tickets \ {current} : queue'[t] = queue[t] /\ triage'[t] = triage[t]
    BY <1>1, <1>2 DEF SaveTriage
  <2>. QED
    BY <2>1, <2>2, <2>3, <2>4 DEF QueueInv, QueueFollowsLabel
<1>3. CASE Escalate
  <2>1. current \in Tickets /\ correction[current] = None /\ triage[current] = None
    BY <1>3
       DEF Escalate, IndInv, WorkerOwnsItsTicket, VerdictExplainsStatus, Deciding,
           LocalsSet, CommitStages
  <2>2. UNCHANGED <<triage, correction>>
        /\ \A t \in Tickets \ {current} : queue'[t] = queue[t]
    BY <1>1, <1>3 DEF Escalate
  <2>. QED
    BY <2>1, <2>2 DEF QueueInv, QueueFollowsLabel
<1>4. ASSUME NEW r \in Reviewers, CommitCorrection(r)
      PROVE  QueueFollowsLabel'
  <2>. DEFINE u == review[r].ticket
  <2>1. u \in Tickets /\ review[r].op = "correct"
    BY <1>4 DEF CommitCorrection, IndInv, RequestsGrounded
  <2>2. PICK table \in RuleTables : review[r].queue = ResolveQueue(table, review[r].labels)
    BY <2>1 DEF QueueInv, QueuesResolved
  <2>3. review[r].labels # None
    BY <2>1, StoreAssumption DEF IndInv, RequestsGrounded
  <2>4. queue' = [queue EXCEPT ![u] = review[r].queue] /\ triage' = triage
        /\ correction' = [correction EXCEPT ![u] = review[r].labels]
    BY <1>4 DEF CommitCorrection
  <2>5. \A t \in Tickets \ {u} : queue'[t] = queue[t] /\ correction'[t] = correction[t]
    BY <1>1, <2>4
  <2>6. queue'[u] = review[r].queue /\ correction'[u] = review[r].labels
    BY <1>1, <2>1, <2>4
  <2>. HIDE DEF u
  <2>. QED
    BY <2>2, <2>3, <2>4, <2>5, <2>6 DEF QueueInv, QueueFollowsLabel
<1>5. CASE UNCHANGED <<queue, correction, triage>>
  BY <1>5, QueueFrame DEF QueueInv
<1>. QED
  BY <1>2, <1>3, <1>4, <1>5
     DEF Next, Ingest, IngestTicket, OperatorPutsRules, PutRules, ReviewerStep, ReviewStart,
         ReviewFinish, ReadToApprove, ReadToCorrect, RouteCorrection, CommitApproval,
         ReviewFails, ReplierStep, ReplyStart, ReplyFinish, ReadDraft, CommitEdit,
         CommitTransition, ReplyFails, WorkerStep, ThreadStep, PollTicket, PollNothing,
         PollFails, WaitOver, LeaveLoop, CallRefused, TriageParsed, ReplyParsed,
         FirstInvalid, SecondInvalid, CallFails, CallRaises, RouteTicket, SaveDraft,
         KeepCallsOnly, CommitFails, TimePasses, StopRequested, BeginStop, ProcessStops,
         Shutdown, CloseClient, Exit, ProcessDies, Crash, ProcessStarts, Restart, vars,
         storeVars, ticketVars

(* Whatever PUT /rules and racing reviews do between the load of a table and a commit,
   a ticket lies where some table of the operator puts its label (process_next_ticket,
   correct_ticket). *)
THEOREM QueuesFollow == Spec => []QueueFollowsLabel
PROOF
<1>1. Init => QueueInv
  BY DEF Init, StoreInit, WorkerInit, ReviewInit, NoReview, QueueInv, QueuesResolved,
         QueueFollowsLabel
<1>2. IndInv /\ QueueInv /\ [Next]_vars => QueueInv'
  BY ResolvedKept, QueuesKept DEF QueueInv
<1>3. QueueInv => QueueFollowsLabel
  BY DEF QueueInv
<1>. QED
  BY <1>1, <1>2, <1>3, Invariance, PTL DEF Spec

----------------------------------------------------------------------------
(* The call log. *)

(* A process that is down has no thread; a new one starts with nothing in hand. *)
DownIsStopped == proc = "down" => pc = "stopped"

AuditInv == AuditTrail /\ PendingExplained /\ DownIsStopped

(* The log that AuditTrail demands of one ticket. *)
Trail(t) ==
    IF triage[t] # None
    THEN \E tail \in ReplyLogs(t) :
            calls[t] = ParsedLog("classify", "repair", triage[t].attempts) \o tail
    ELSE IF status[t] = "needs_human"
    THEN calls[t] \in FailedLogs("classify", "repair", triageError[t])
    ELSE IF status[t] = "corrected"
    THEN calls[t] \in UNION { FailedLogs("classify", "repair", why) : why \in TriageErrors }
    ELSE calls[t] = <<>>

LEMMA TrailByTicket == AuditTrail <=> \A t \in Tickets : Trail(t)
PROOF
  BY DEF AuditTrail, Trail

(* The log of a pipeline that parsed an answer, or gave up. *)
LEMMA ParsedTyped ==
    ASSUME NEW first \in Purposes, NEW second \in Purposes, NEW n \in Attempts
    PROVE  ParsedLog(first, second, n) \in Seq(CallRows)
PROOF
<1>1. /\ [purpose |-> first, outcome |-> "ok"] \in CallRows
      /\ [purpose |-> first, outcome |-> "parse_error"] \in CallRows
      /\ [purpose |-> second, outcome |-> "ok"] \in CallRows
  BY DEF CallRows, CallOutcomes
<1>. QED
  BY <1>1 DEF ParsedLog

(* A sequence of one and what is appended to it. *)
LEMMA AppendOne ==
    ASSUME NEW a, NEW b
    PROVE  Append(<<a>>, b) = <<a, b>>
PROOF
<1>. DEFINE S == {a, b}
<1>1. <<a>> \in Seq(S) /\ b \in S /\ <<a, b>> \in Seq(S)
  OBVIOUS
<1>. HIDE DEF S
<1>2. Len(Append(<<a>>, b)) = 2 /\ Append(<<a>>, b) \in Seq(S)
  BY <1>1, AppendProperties
<1>3. \A i \in 1 .. 2 : Append(<<a>>, b)[i] = <<a, b>>[i]
  BY <1>1
<1>. QED
  BY <1>1, <1>2, <1>3, SeqEqual

(* A pipeline that the circuit refuses leaves no row. *)
LEMMA RefusedLog ==
    ASSUME NEW first, NEW second
    PROVE  FailedLogs(first, second, "circuit_open") = {<<>>}
PROOF
  BY DEF FailedLogs

(* What the rows of one call become in the transaction. *)
LEMMA RecordFirst ==
    ASSUME pending = <<>>, NEW o, Record(o)
    PROVE  pending' = <<[purpose |-> pc, outcome |-> o]>>
PROOF
  BY DEF Record

LEMMA RecordSecond ==
    ASSUME NEW row, pending = <<row>>, NEW o, Record(o)
    PROVE  pending' = <<row, [purpose |-> pc, outcome |-> o]>>
PROOF
  BY AppendOne DEF Record

(* Nothing is left in the transaction of a thread that let go of its ticket. *)
LEMMA ForgetExplained ==
    ASSUME NEW p \in {"poll", "idle", "stopped"}, Forget(p)
    PROVE  PendingExplained'
PROOF
  BY DEF Forget, PendingExplained, ReplyStages

(* Steps of others: they write no call row, and no triage. *)
LEMMA PendingFrame ==
    ASSUME PendingExplained, UNCHANGED threadVars, UNCHANGED <<calls, triage>>,
           Allows => Allows'
    PROVE  PendingExplained'
PROOF
  BY DEF PendingExplained, threadVars

(* Steps that write no call row and decide nothing that the log would have to explain:
   a draft's number of calls never changes, and a ticket without a triage leaves
   needs_human only for corrected. *)
LEMMA TrailFrame ==
    ASSUME IndInv, AuditTrail, UNCHANGED <<calls, triage>>,
           \A t \in Tickets :
              /\ (draft'[t] = None) <=> (draft[t] = None)
              /\ draft[t] # None => draft'[t].attempts = draft[t].attempts
              /\ \/ triage[t] # None
                 \/ status'[t] = status[t] /\ triageError'[t] = triageError[t]
                 \/ status[t] \in {"absent", "received"} /\ status'[t] \in {"absent", "received"}
                 \/ status[t] = "needs_human" /\ status'[t] = "corrected"
    PROVE  AuditTrail'
PROOF
<1>. SUFFICES ASSUME NEW t \in Tickets
              PROVE  Trail(t)'
  BY DEF AuditTrail, Trail
<1>1. Trail(t)
  BY TrailByTicket
<1>2. CASE triage[t] # None
  <2>1. ReplyLogs(t)' = ReplyLogs(t)
    BY DEF ReplyLogs
  <2>. QED
    BY <1>1, <1>2, <2>1 DEF Trail
<1>3. CASE triage[t] = None /\ status'[t] = status[t] /\ triageError'[t] = triageError[t]
  BY <1>1, <1>3 DEF Trail
<1>4. CASE triage[t] = None /\ status[t] = "needs_human" /\ status'[t] = "corrected"
  <2>1. triageError[t] \in TriageErrors
    BY <1>4 DEF IndInv, VerdictExplainsStatus, TypeOK, StoreTypeOK
  <2>2. calls'[t] \in FailedLogs("classify", "repair", triageError[t])
    BY <1>1, <1>4 DEF Trail
  <2>. QED
    BY <1>4, <2>1, <2>2 DEF Trail
<1>5. CASE triage[t] = None /\ status[t] \in {"absent", "received"}
           /\ status'[t] \in {"absent", "received"}
  BY <1>1, <1>5 DEF Trail
<1>. QED
  BY <1>2, <1>3, <1>4, <1>5

----------------------------------------------------------------------------
(* The steps of the thread that write no table. *)

LEMMA CallsExplained ==
    ASSUME IndInv, AuditInv,
           \/ CallRefused \/ TriageParsed \/ ReplyParsed
           \/ FirstInvalid \/ SecondInvalid \/ CallFails
    PROVE  PendingExplained'
PROOF
<1>. USE DEF AuditInv, CallStages, TriageStages, ReplyStages
<1>0. UNCHANGED <<calls, triage, current>>
  BY DEF CallRefused, TriageParsed, ReplyParsed, FirstInvalid, SecondInvalid, CallFails,
         storeVars
<1>1. CASE CallRefused
  <2>1. /\ pc \in {"classify", "reply_draft"} /\ pending = <<>> /\ pending' = pending
        /\ reason' = "circuit_open"
        /\ pc' = IF pc = "classify" THEN "escalate" ELSE "no_draft"
    BY <1>1 DEF CallRefused, GiveUp, PendingExplained
  <2>. QED
    BY <1>0, <2>1, RefusedLog DEF PendingExplained, TriageErrors
<1>2. CASE TriageParsed
  <2>1. /\ pc \in TriageStages /\ pc' = "route" /\ Record("ok") /\ attempts' = attempts
    BY <1>2 DEF TriageParsed
  <2>2. pending' = ParsedLog("classify", "repair", attempts)
    <3>1. CASE pc = "classify"
      BY <2>1, <3>1, RecordFirst DEF PendingExplained, ParsedLog
    <3>2. CASE pc = "repair"
      BY <2>1, <3>2, RecordSecond DEF PendingExplained, ParsedLog
    <3>. QED
      BY <2>1, <3>1, <3>2
  <2>. QED
    BY <2>1, <2>2 DEF PendingExplained
<1>3. CASE ReplyParsed
  <2>1. /\ pc \in ReplyStages /\ pc' = "save_draft" /\ Record("ok") /\ attempts' = attempts
    BY <1>3 DEF ReplyParsed
  <2>2. pending' = ParsedLog("reply_draft", "reply_repair", attempts)
    <3>1. CASE pc = "reply_draft"
      BY <2>1, <3>1, RecordFirst DEF PendingExplained, ParsedLog
    <3>2. CASE pc = "reply_repair"
      BY <2>1, <3>2, RecordSecond DEF PendingExplained, ParsedLog
    <3>. QED
      BY <2>1, <3>1, <3>2
  <2>. QED
    BY <1>0, <2>1, <2>2 DEF PendingExplained
<1>4. CASE FirstInvalid
  <2>1. /\ pc \in {"classify", "reply_draft"} /\ Record("parse_error") /\ attempts' = 2
        /\ pc' = (IF pc = "classify" THEN "repair" ELSE "reply_repair")
        /\ circuit' = "closed"
    BY <1>4 DEF FirstInvalid, Answered, RecordSuccess
  <2>2. pending' = <<[purpose |-> pc, outcome |-> "parse_error"]>>
    BY <2>1, RecordFirst DEF PendingExplained
  <2>3. Allows'
    BY <2>1 DEF Allows
  <2>. QED
    BY <1>0, <2>1, <2>2, <2>3 DEF PendingExplained
<1>5. CASE SecondInvalid
  <2>1. /\ pc \in {"repair", "reply_repair"} /\ Record("parse_error")
        /\ reason' = "parse_failed"
        /\ pc' = IF pc = "repair" THEN "escalate" ELSE "no_draft"
    BY <1>5 DEF SecondInvalid, GiveUp
  <2>2. pending' = <<[purpose |-> IF pc = "repair" THEN "classify" ELSE "reply_draft",
                      outcome |-> "parse_error"],
                     [purpose |-> pc, outcome |-> "parse_error"]>>
    BY <2>1, RecordSecond DEF PendingExplained
  <2>3. \A first, second :
          FailedLogs(first, second, "parse_failed") =
            { <<[purpose |-> first, outcome |-> "parse_error"],
                [purpose |-> second, outcome |-> "parse_error"]>> }
    BY DEF FailedLogs
  <2>. QED
    BY <1>0, <2>1, <2>2, <2>3 DEF PendingExplained, TriageErrors
<1>6. CASE CallFails
  <2>1. /\ pc \in CallStages /\ reason' = "provider_error"
        /\ pc' = IF pc \in TriageStages THEN "escalate" ELSE "no_draft"
    BY <1>6 DEF CallFails, GiveUp
  <2>2. PICK f \in HttpFailures : Record(f)
    BY <1>6 DEF CallFails
  <2>3. \A first, second :
          FailedLogs(first, second, "provider_error") =
            { <<[purpose |-> first, outcome |-> g]>> : g \in HttpFailures }
            \cup { <<[purpose |-> first, outcome |-> "parse_error"],
                     [purpose |-> second, outcome |-> g]>> : g \in HttpFailures }
    BY DEF FailedLogs
  <2>4. pc \in {"classify", "reply_draft"} =>
          pending' = <<[purpose |-> pc, outcome |-> f]>>
    BY <2>2, RecordFirst DEF PendingExplained
  <2>5. pc = "repair" =>
          pending' = <<[purpose |-> "classify", outcome |-> "parse_error"],
                       [purpose |-> "repair", outcome |-> f]>>
    BY <2>2, RecordSecond DEF PendingExplained
  <2>6. pc = "reply_repair" =>
          pending' = <<[purpose |-> "reply_draft", outcome |-> "parse_error"],
                       [purpose |-> "reply_repair", outcome |-> f]>>
    BY <2>2, RecordSecond DEF PendingExplained
  <2>7. pc' = "escalate" => pending' \in FailedLogs("classify", "repair", "provider_error")
    BY <2>1, <2>3, <2>4, <2>5
  <2>8. pc' = "no_draft" =>
          pending' \in FailedLogs("reply_draft", "reply_repair", "provider_error")
    BY <2>1, <2>3, <2>4, <2>6
  <2>. QED
    BY <1>0, <2>1, <2>7, <2>8 DEF PendingExplained, TriageErrors
<1>. QED
  BY <1>1, <1>2, <1>3, <1>4, <1>5, <1>6
----------------------------------------------------------------------------
(* The commits. *)

(* What a commit adds to the log of the ticket, and to no other. *)
LEMMA Appended ==
    ASSUME IndInv, KeepPending, current \in Tickets
    PROVE  /\ calls'[current] = calls[current] \o pending
           /\ \A t \in Tickets \ {current} : calls'[t] = calls[t]
           /\ calls[current] = <<>> => calls'[current] = pending
PROOF
<1>1. /\ calls'[current] = calls[current] \o pending
      /\ \A t \in Tickets \ {current} : calls'[t] = calls[t]
  BY DEF KeepPending, IndInv, TypeOK, StoreTypeOK
<1>2. pending \in Seq(CallRows)
  BY DEF IndInv, TypeOK, WorkerTypeOK
<1>. QED
  BY <1>1, <1>2, ConcatEmptySeq

(* A ticket that no commit of the worker touches. *)
LEMMA OthersKeepTrail ==
    ASSUME NEW t \in Tickets, Trail(t),
           calls'[t] = calls[t], triage'[t] = triage[t], draft'[t] = draft[t],
           status'[t] = status[t], triageError'[t] = triageError[t]
    PROVE  Trail(t)'
PROOF
<1>1. ReplyLogs(t)' = ReplyLogs(t)
  BY DEF ReplyLogs
<1>. QED
  BY <1>1 DEF Trail

(* An undecided ticket has no log yet. *)
LEMMA UndecidedLog ==
    ASSUME IndInv, AuditTrail, Deciding, current \in Tickets
    PROVE  calls[current] = <<>> /\ draft[current] = None
PROOF
<1>1. status[current] = "received" /\ triage[current] = None /\ draft[current] = None
  BY DEF IndInv, WorkerOwnsItsTicket, VerdictExplainsStatus
<1>. QED
  BY <1>1, TrailByTicket DEF Trail

LEMMA SaveTriageExplained ==
    ASSUME IndInv, AuditInv, SaveTriage
    PROVE  AuditTrail' /\ PendingExplained'
PROOF
<1>. USE DEF AuditInv
<1>0. PICK u \in Tickets : u = current
  BY DEF SaveTriage, Escalate, SaveDraft, KeepCallsOnly, IndInv, LocalsSet, CommitStages
<1>1. /\ pc = "save" /\ current' = current /\ KeepPending
      /\ pending = ParsedLog("classify", "repair", attempts)
      /\ pending' = <<>> /\ pc' = "reply_draft" /\ attempts' = 1 /\ draft' = draft
  BY <1>0 DEF SaveTriage, PendingExplained
<1>2. /\ triage'[u] = [labels |-> outcome, attempts |-> attempts]
      /\ triage'[u] # None
      /\ \A t \in Tickets \ {u} :
            /\ triage'[t] = triage[t] /\ status'[t] = status[t]
            /\ triageError'[t] = triageError[t]
  <2>1. [labels |-> outcome, attempts |-> attempts] \in TriageRows
    BY <1>0, <1>1 DEF IndInv, LocalsSet, TypeOK, WorkerTypeOK, TriageRows
  <2>. QED
    BY <1>0, <1>1, <2>1, StoreAssumption DEF SaveTriage, IndInv, TypeOK, StoreTypeOK
<1>3. calls[u] = <<>> /\ draft[u] = None
  BY <1>0, <1>1, UndecidedLog DEF Deciding
<1>4. calls'[u] = ParsedLog("classify", "repair", attempts)
  BY <1>0, <1>1, <1>3, Appended
<1>5. Trail(u)'
  <2>1. <<>> \in ReplyLogs(u)'
    <3>1. <<>> \in FailedLogs("reply_draft", "reply_repair", "circuit_open")
      BY RefusedLog
    <3>2. draft'[u] = None /\ "circuit_open" \in TriageErrors
      BY <1>1, <1>3 DEF TriageErrors
    <3>3. ReplyLogs(u)' = UNION { FailedLogs("reply_draft", "reply_repair", why) : why \in TriageErrors }
      BY <3>2 DEF ReplyLogs
    <3>. QED
      BY <3>1, <3>2, <3>3
  <2>2. ParsedLog("classify", "repair", attempts) \o <<>>
          = ParsedLog("classify", "repair", attempts)
    <3>1. attempts \in Attempts
      BY DEF IndInv, TypeOK, WorkerTypeOK
    <3>2. ParsedLog("classify", "repair", attempts) \in Seq(CallRows)
      BY <3>1, ParsedTyped DEF Purposes
    <3>. QED
      BY <3>2, ConcatEmptySeq
  <2>3. triage'[u].attempts = attempts
    BY <1>2
  <2>4. calls'[u] = ParsedLog("classify", "repair", triage'[u].attempts) \o <<>>
    BY <1>4, <2>2, <2>3
  <2>. QED
    BY <1>2, <2>1, <2>4 DEF Trail
<1>6. \A t \in Tickets \ {u} : Trail(t)'
  BY <1>0, <1>1, <1>2, Appended, TrailByTicket, OthersKeepTrail
<1>7. AuditTrail'
  BY <1>0, <1>1, <1>5, <1>6 DEF AuditTrail, Trail
<1>8. PendingExplained'
  BY <1>0, <1>1, <1>2, <1>4 DEF PendingExplained
<1>. QED
  BY <1>7, <1>8

LEMMA EscalateExplained ==
    ASSUME IndInv, AuditInv, Escalate
    PROVE  AuditTrail' /\ PendingExplained'
PROOF
<1>. USE DEF AuditInv
<1>0. PICK u \in Tickets : u = current
  BY DEF SaveTriage, Escalate, SaveDraft, KeepCallsOnly, IndInv, LocalsSet, CommitStages
<1>1. /\ pc = "escalate" /\ KeepPending /\ Forget("poll")
      /\ pending \in FailedLogs("classify", "repair", reason)
      /\ UNCHANGED <<triage, draft>>
  BY <1>0 DEF Escalate, PendingExplained
<1>2. /\ status'[u] = "needs_human" /\ triageError'[u] = reason
      /\ \A t \in Tickets \ {u} :
            status'[t] = status[t] /\ triageError'[t] = triageError[t]
  BY <1>0, <1>1 DEF Escalate, IndInv, TypeOK, StoreTypeOK
<1>3. calls'[u] = pending /\ triage[u] = None
  BY <1>0, <1>1, UndecidedLog, Appended DEF Deciding, IndInv, WorkerOwnsItsTicket
<1>4. Trail(u)'
  BY <1>0, <1>1, <1>2, <1>3 DEF Trail
<1>5. \A t \in Tickets \ {u} : Trail(t)'
  BY <1>0, <1>1, <1>2, Appended, TrailByTicket, OthersKeepTrail
<1>6. AuditTrail'
  BY <1>0, <1>1, <1>4, <1>5 DEF AuditTrail, Trail
<1>. QED
  BY <1>0, <1>1, <1>6, ForgetExplained

LEMMA DraftCommitExplained ==
    ASSUME IndInv, AuditInv, SaveDraft \/ KeepCallsOnly
    PROVE  AuditTrail' /\ PendingExplained'
PROOF
<1>. USE DEF AuditInv
<1>0. PICK u \in Tickets : u = current
  BY DEF SaveTriage, Escalate, SaveDraft, KeepCallsOnly, IndInv, LocalsSet, CommitStages
<1>1. /\ pc \in {"save_draft", "no_draft"} /\ KeepPending
      /\ Forget("poll") /\ UNCHANGED <<triage, status, triageError>>
      /\ triage[u] # None /\ draft[u] = None
      /\ calls[u] = ParsedLog("classify", "repair", triage[u].attempts)
  BY <1>0 DEF SaveDraft, KeepCallsOnly, IndInv, PendingExplained, DraftStageHasVerdict,
              ReplyStages, ticketVars
<1>2. calls'[u] = ParsedLog("classify", "repair", triage[u].attempts) \o pending
  BY <1>0, <1>1, Appended
<1>3. \A t \in Tickets \ {u} : draft'[t] = draft[t]
  BY <1>0, <1>1 DEF SaveDraft, KeepCallsOnly, IndInv, TypeOK, StoreTypeOK
<1>4. pending \in ReplyLogs(u)'
  <2>1. CASE SaveDraft
    <3>1. draft'[u] = [state |-> "draft", body |-> "generated", attempts |-> attempts]
      BY <1>0, <1>1, <2>1 DEF SaveDraft, IndInv, TypeOK, StoreTypeOK
    <3>2. draft'[u] \in DraftRows
      BY <3>1 DEF DraftRows, ReplyStates, IndInv, TypeOK, WorkerTypeOK
    <3>3. draft'[u] # None
      BY <3>2, StoreAssumption
    <3>. QED
      BY <2>1, <3>1, <3>3 DEF SaveDraft, PendingExplained, ReplyLogs
  <2>2. CASE KeepCallsOnly
    BY <1>0, <1>1, <2>2 DEF KeepCallsOnly, PendingExplained, ReplyLogs
  <2>. QED
    BY <2>1, <2>2
<1>5. Trail(u)'
  BY <1>0, <1>1, <1>2, <1>4 DEF Trail
<1>6. \A t \in Tickets \ {u} : Trail(t)'
  BY <1>0, <1>1, <1>3, Appended, TrailByTicket, OthersKeepTrail
<1>7. AuditTrail'
  BY <1>0, <1>1, <1>5, <1>6 DEF AuditTrail, Trail
<1>. QED
  BY <1>0, <1>1, <1>7, ForgetExplained
----------------------------------------------------------------------------
(* The requests: they never write a call row, and decide only what was decided. *)

LEMMA RequestsKeepTrail ==
    ASSUME IndInv, AuditInv,
           Ingest \/ OperatorPutsRules \/ ReviewerStep \/ ReplierStep
    PROVE  AuditTrail' /\ PendingExplained'
PROOF
<1>. USE DEF AuditInv
<1>1. UNCHANGED threadVars /\ UNCHANGED <<calls, triage>> /\ (Allows => Allows')
  BY DEF Ingest, IngestTicket, OperatorPutsRules, PutRules, ReviewerStep, ReviewStart,
         ReviewFinish, ReadToApprove, ReadToCorrect, RouteCorrection, CommitApproval,
         CommitCorrection, ReviewFails, ReplierStep, ReplyStart, ReplyFinish, ReadDraft,
         CommitEdit, CommitTransition, ReplyFails, workerVars, breakerVars, storeVars,
         Allows
<1>2. ASSUME UNCHANGED draft, UNCHANGED <<status, triageError>>
      PROVE  AuditTrail'
  BY <1>1, <1>2, TrailFrame
<1>3. CASE Ingest
  <2>1. PICK u \in Tickets : IngestTicket(u)
    BY <1>3 DEF Ingest
  <2>2. /\ draft' = draft /\ triageError' = triageError
        /\ status[u] = "absent" /\ status'[u] = "received"
        /\ \A t \in Tickets \ {u} : status'[t] = status[t]
    BY <2>1 DEF IngestTicket, IndInv, TypeOK, StoreTypeOK
  <2>. QED
    BY <1>1, <2>2, TrailFrame, PendingFrame
<1>4. CASE \E r \in Reviewers : CommitApproval(r)
  <2>1. PICK r \in Reviewers : CommitApproval(r)
    BY <1>4
  <2>2. PICK u \in Tickets : u = review[r].ticket /\ triage[u] # None
    BY <2>1 DEF CommitApproval, IndInv, RequestsGrounded
  <2>3. /\ draft' = draft /\ triageError' = triageError
        /\ \A t \in Tickets \ {u} : status'[t] = status[t]
    BY <2>1, <2>2 DEF CommitApproval, IndInv, TypeOK, StoreTypeOK
  <2>. QED
    BY <1>1, <2>2, <2>3, TrailFrame, PendingFrame
<1>5. CASE \E r \in Reviewers : CommitCorrection(r)
  <2>1. PICK r \in Reviewers : CommitCorrection(r)
    BY <1>5
  <2>2. PICK u \in Tickets : u = review[r].ticket /\ status[u] \notin {"absent", "received"}
    BY <2>1 DEF CommitCorrection, IndInv, RequestsGrounded
  <2>3. triage[u] # None \/ status[u] = "needs_human"
    BY <2>1, <2>2 DEF CommitCorrection, IndInv, VerdictExplainsStatus, TypeOK, StoreTypeOK,
                     Statuses
  <2>4. /\ draft' = draft /\ status'[u] = "corrected"
        /\ \A t \in Tickets \ {u} :
              status'[t] = status[t] /\ triageError'[t] = triageError[t]
    BY <2>1, <2>2 DEF CommitCorrection, IndInv, TypeOK, StoreTypeOK
  <2>. QED
    BY <1>1, <2>3, <2>4, TrailFrame, PendingFrame
<1>6. CASE \E q \in Repliers : CommitEdit(q) \/ CommitTransition(q)
  <2>1. PICK q \in Repliers : CommitEdit(q) \/ CommitTransition(q)
    BY <1>6
  <2>2. PICK u \in Tickets : u = reply[q].ticket /\ draft[u] # None
    BY <2>1 DEF CommitEdit, CommitTransition, IndInv, RequestsGrounded
  <2>3. draft[u] \in DraftRows
    BY <2>2 DEF IndInv, TypeOK, StoreTypeOK
  <2>4. /\ UNCHANGED <<status, triageError>>
        /\ \A t \in Tickets \ {u} : draft'[t] = draft[t]
        /\ \/ draft'[u] = [draft[u] EXCEPT !.body = "edited"]
           \/ /\ reply[q].op \in {"approved", "discarded"}
              /\ draft'[u] = [draft[u] EXCEPT !.state = reply[q].op]
    BY <2>1, <2>2 DEF CommitEdit, CommitTransition, ticketVars, IndInv, TypeOK, StoreTypeOK
  <2>5. draft'[u] \in DraftRows /\ draft'[u].attempts = draft[u].attempts
    BY <2>3, <2>4 DEF DraftRows, ReplyStates
  <2>6. draft'[u] # None
    BY <2>5, StoreAssumption
  <2>7. AuditTrail'
    BY <1>1, <2>2, <2>4, <2>5, <2>6, TrailFrame
  <2>. QED
    BY <1>1, <2>7, PendingFrame
<1>7. CASE UNCHANGED <<status, triageError, draft>>
  BY <1>1, <1>2, <1>7, PendingFrame
<1>. QED
  BY <1>3, <1>4, <1>5, <1>6, <1>7
     DEF OperatorPutsRules, PutRules, ReviewerStep, ReviewStart, ReviewFinish,
         ReadToApprove, ReadToCorrect, RouteCorrection, ReviewFails, ReplierStep,
         ReplyStart, ReplyFinish, ReadDraft, ReplyFails, storeVars, ticketVars

LEMMA DownKept ==
    ASSUME DownIsStopped, [Next]_vars
    PROVE  DownIsStopped'
PROOF
<1>1. CASE WorkerStep
  <2>1. proc' = proc /\ pc # "stopped"
    BY <1>1 DEF WorkerStep, ThreadStep, PollTicket, PollNothing, PollFails, WaitOver,
                LeaveLoop, CallRefused, TriageParsed, ReplyParsed, FirstInvalid,
                SecondInvalid, CallFails, CallRaises, RouteTicket, SaveTriage, Escalate,
                SaveDraft, KeepCallsOnly, CommitFails, CallStages, TriageStages,
                ReplyStages, CommitStages
  <2>. QED
    BY <2>1 DEF DownIsStopped
<1>2. CASE ProcessStops \/ ProcessDies \/ ProcessStarts \/ StopRequested
  BY <1>2 DEF DownIsStopped, ProcessStops, Shutdown, CloseClient, Exit, LoseMemory, Forget,
              ProcessDies, Crash, ProcessStarts, Restart, StopRequested, BeginStop
<1>3. CASE Ingest \/ OperatorPutsRules \/ ReviewerStep \/ ReplierStep \/ TimePasses
           \/ UNCHANGED vars
  BY <1>3 DEF DownIsStopped, Ingest, OperatorPutsRules, ReviewerStep, ReplierStep,
              TimePasses, vars, workerVars, threadVars
<1>. QED
  BY <1>1, <1>2, <1>3 DEF Next

LEMMA NextExplained == IndInv /\ AuditInv /\ [Next]_vars => AuditInv'
PROOF
<1>. SUFFICES ASSUME IndInv, AuditInv, [Next]_vars
              PROVE  AuditInv'
  OBVIOUS
<1>. USE DEF AuditInv
<1>0. DownIsStopped'
  BY DownKept
<1>. SUFFICES AuditTrail' /\ PendingExplained'
  BY <1>0
<1>1. ASSUME UNCHANGED storeVars
      PROVE  AuditTrail'
  BY <1>1, TrailFrame DEF storeVars
<1>2. CASE Ingest \/ OperatorPutsRules \/ ReviewerStep \/ ReplierStep
  BY <1>2, RequestsKeepTrail
<1>3. CASE WorkerStep
  <2>1. CASE SaveTriage \/ Escalate \/ SaveDraft \/ KeepCallsOnly
    BY <2>1, SaveTriageExplained, EscalateExplained, DraftCommitExplained
  <2>2. CASE CallRefused \/ TriageParsed \/ ReplyParsed
             \/ FirstInvalid \/ SecondInvalid \/ CallFails
    <3>1. UNCHANGED storeVars
      BY <2>2 DEF CallRefused, TriageParsed, ReplyParsed, FirstInvalid, SecondInvalid,
                  CallFails
    <3>. QED
      BY <1>1, <2>2, <3>1, CallsExplained
  <2>3. CASE PollFails \/ CallRaises \/ CommitFails
    <3>1. UNCHANGED storeVars /\ \E p \in {"poll", "idle", "stopped"} : Forget(p)
      BY <2>3 DEF PollFails, CallRaises, CommitFails
    <3>. QED
      BY <1>1, <3>1, ForgetExplained
  <2>4. CASE (\E t \in Tickets : PollTicket(t)) \/ PollNothing \/ WaitOver \/ LeaveLoop
    <3>1. /\ UNCHANGED storeVars /\ UNCHANGED <<attempts, pending>>
          /\ pc \in {"poll", "idle"} /\ pc' \in {"classify", "idle", "poll", "stopped"}
      BY <2>4 DEF PollTicket, PollNothing, WaitOver, LeaveLoop
    <3>2. PendingExplained'
      BY <3>1 DEF PendingExplained, ReplyStages
    <3>. QED
      BY <1>1, <3>1, <3>2
  <2>5. CASE RouteTicket
    <3>1. PendingExplained'
      BY <2>5 DEF RouteTicket, PendingExplained, ReplyStages
    <3>. QED
      BY <1>1, <2>5, <3>1 DEF RouteTicket
  <2>. QED
    BY <1>3, <2>1, <2>2, <2>3, <2>4, <2>5 DEF WorkerStep, ThreadStep
<1>4. CASE TimePasses \/ StopRequested \/ (ProcessStops /\ ~ Exit) \/ UNCHANGED vars
  <2>1. UNCHANGED storeVars /\ UNCHANGED threadVars /\ (Allows => Allows')
    BY <1>4 DEF TimePasses, CooldownOver, StopRequested, BeginStop, ProcessStops, Shutdown,
                CloseClient, vars, workerVars, breakerVars, Allows
  <2>. QED
    BY <1>1, <2>1, PendingFrame DEF storeVars
<1>5. CASE Exit \/ ProcessDies
  <2>1. UNCHANGED storeVars /\ Forget("stopped")
    BY <1>5 DEF Exit, ProcessDies, Crash, LoseMemory
  <2>. QED
    BY <1>1, <2>1, ForgetExplained
<1>6. CASE ProcessStarts
  <2>1. /\ UNCHANGED storeVars /\ UNCHANGED <<attempts, pending>>
        /\ pc = "stopped" /\ pc' = "poll"
    BY <1>6 DEF ProcessStarts, Restart, DownIsStopped
  <2>2. PendingExplained'
    BY <2>1 DEF PendingExplained, ReplyStages
  <2>. QED
    BY <1>1, <2>1, <2>2
<1>. QED
  BY <1>2, <1>3, <1>4, <1>5, <1>6 DEF Next

(* The committed call rows of a ticket are exactly those of the run of the pipeline that
   produced its verdict, and of at most one run of the reply pipeline, for any number
   of retries, crashes and racing reviews (classifier.py, process_next_ticket). *)
THEOREM LogsExplained == Spec => []AuditTrail
PROOF
<1>1. Init => AuditInv
  BY DEF Init, StoreInit, WorkerInit, BreakerInit, AuditInv, AuditTrail, PendingExplained,
         ReplyStages, DownIsStopped
<1>2. AuditInv => AuditTrail
  BY DEF AuditInv
<1>. QED
  BY <1>1, <1>2, NextExplained, Invariance, PTL DEF Spec

(* The rows in the open transaction are those that the calls so far have left, and a
   repair is never refused (LlmClient.complete, process_next_ticket). *)
THEOREM PendingIsExplained == Spec => []PendingExplained
PROOF
<1>1. Init => AuditInv
  BY DEF Init, StoreInit, WorkerInit, BreakerInit, AuditInv, AuditTrail, PendingExplained,
         ReplyStages, DownIsStopped
<1>2. AuditInv => PendingExplained
  BY DEF AuditInv
<1>. QED
  BY <1>1, <1>2, NextExplained, Invariance, PTL DEF Spec
=============================================================================
