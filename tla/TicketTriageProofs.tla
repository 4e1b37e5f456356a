------------------------- MODULE TicketTriageProofs ------------------------
(***************************************************************************)
(* Theorems about the composed service for every set of tickets, requests, *)
(* rules and labels, every threshold and every bound: no finite instance   *)
(* is involved.                                                            *)
(***************************************************************************)
EXTENDS TicketTriageProperties, RoutingProofs

(* The rule table in force routes every label to a known queue. *)
LEMMA RoutedInQueues ==
    ASSUME TypeOK, NEW l \in Labels
    PROVE  ResolveQueue(rules, l) \in Queues
PROOF
  BY RoutingIsTotal, StoreAssumption DEF TypeOK, StoreTypeOK

(* The row a call stage flushes is a call row. *)
LEMMA RecordTyped ==
    ASSUME TypeOK, pc \in CallStages, NEW o \in CallOutcomes, Record(o)
    PROVE  pending' \in Seq(CallRows)
PROOF
<1>1. [purpose |-> pc, outcome |-> o] \in CallRows
  BY DEF CallStages, TriageStages, ReplyStages, CallRows, Purposes
<1>. QED
  BY <1>1 DEF Record, TypeOK, WorkerTypeOK

(* What a commit appends to the call log is typed. *)
LEMMA CallsTyped ==
    ASSUME TypeOK, KeepPending
    PROVE  calls' \in [Tickets -> Seq(CallRows)]
PROOF
<1>1. \A t \in Tickets : calls[t] \o pending \in Seq(CallRows)
  BY DEF TypeOK, StoreTypeOK, WorkerTypeOK
<1>. QED
  BY <1>1 DEF KeepPending, TypeOK, StoreTypeOK

(* What the breaker records stays within its type. *)
LEMMA BreakerTyped ==
    ASSUME BreakerTypeOK,
           RecordSuccess \/ RecordFailure \/ CooldownOver \/ UNCHANGED breakerVars
    PROVE  BreakerTypeOK'
PROOF
  BY ThresholdAssumption
     DEF BreakerTypeOK, RecordSuccess, RecordFailure, CooldownOver, breakerVars

----------------------------------------------------------------------------
(* Frames: what a step keeps when it leaves the variables of a part alone. *)

LEMMA StoreFrame ==
    ASSUME IndInv, UNCHANGED storeVars
    PROVE  StoreTypeOK' /\ VerdictExplainsStatus'
PROOF
  BY DEF IndInv, TypeOK, StoreTypeOK, VerdictExplainsStatus, storeVars

LEMMA RequestsFrame ==
    ASSUME IndInv, UNCHANGED <<review, reply>>
    PROVE  ReviewTypeOK' /\ ReplyTypeOK'
PROOF
  BY DEF IndInv, TypeOK, ReviewTypeOK, ReplyTypeOK

LEMMA GroundsFrame ==
    ASSUME IndInv, UNCHANGED <<status, triage, draft, review, reply>>
    PROVE  RequestsGrounded'
PROOF
  BY DEF IndInv, RequestsGrounded

(* A thread that let go of its ticket owns nothing. *)
LEMMA ForgetTyped ==
    ASSUME IndInv, NEW p \in {"poll", "idle", "stopped"}, Forget(p),
           proc' \in {"up", "stopping", "closed", "down"},
           glitches' \in 0 .. MaxGlitches, restarts' \in 0 .. MaxRestarts
    PROVE  /\ WorkerTypeOK' /\ LocalsSet'
           /\ WorkerOwnsItsTicket' /\ DraftStageHasVerdict'
PROOF
  BY DEF Forget, WorkerTypeOK, LocalsSet, WorkerOwnsItsTicket, DraftStageHasVerdict,
         Deciding, Attempts, CallStages, TriageStages, ReplyStages, CommitStages

----------------------------------------------------------------------------
(* One lemma per step that leaves the tables alone. *)

LEMMA PollTicketKeeps ==
    ASSUME IndInv, NEW t \in Tickets, PollTicket(t), UNCHANGED <<review, reply>>
    PROVE  IndInv'
PROOF
<1>1. /\ pc' = "classify" /\ current' = t /\ status[t] = "received"
      /\ UNCHANGED storeVars /\ UNCHANGED breakerVars
      /\ UNCHANGED <<outcome, attempts, target, reason, pending, proc, glitches, restarts>>
  BY DEF PollTicket, Oldest, boundVars
<1>2. TypeOK'
  <2>1. WorkerTypeOK'
    BY <1>1 DEF IndInv, TypeOK, WorkerTypeOK, CallStages, TriageStages
  <2>. QED
    BY <1>1, <2>1, StoreFrame, RequestsFrame, BreakerTyped DEF IndInv, TypeOK
<1>3. LocalsSet'
  BY <1>1 DEF LocalsSet
<1>4. RequestsGrounded' /\ VerdictExplainsStatus'
  BY <1>1, StoreFrame, GroundsFrame DEF storeVars
<1>5. WorkerOwnsItsTicket'
  <2>1. triage'[current'] = None /\ status'[current'] = "received"
    BY <1>1 DEF IndInv, VerdictExplainsStatus, storeVars
  <2>2. \A r \in Reviewers : review'[r].ticket # current'
    BY <1>1, StoreAssumption DEF IndInv, RequestsGrounded
  <2>. QED
    BY <2>1, <2>2 DEF WorkerOwnsItsTicket
<1>6. DraftStageHasVerdict'
  BY <1>1 DEF DraftStageHasVerdict, ReplyStages
<1>. QED
  BY <1>2, <1>3, <1>4, <1>5, <1>6 DEF IndInv

(* The thread moves on with the ticket it has, or lets go of it, and touches no
   table. *)
DraftStage == pc \in ReplyStages \cup {"no_draft", "save_draft"}

LEMMA ThreadMoves ==
    ASSUME IndInv,
           UNCHANGED storeVars, UNCHANGED <<review, reply>>,
           RecordSuccess \/ RecordFailure \/ CooldownOver \/ UNCHANGED breakerVars,
           WorkerTypeOK', LocalsSet',
           Deciding' => Deciding /\ current' = current,
           DraftStage' => DraftStage /\ current' = current
    PROVE  IndInv'
PROOF
<1>1. TypeOK'
  BY StoreFrame, RequestsFrame, BreakerTyped DEF IndInv, TypeOK
<1>2. RequestsGrounded' /\ VerdictExplainsStatus'
  BY StoreFrame, GroundsFrame DEF storeVars
<1>3. WorkerOwnsItsTicket'
  BY DEF IndInv, WorkerOwnsItsTicket, storeVars
<1>4. DraftStageHasVerdict'
  BY DEF IndInv, DraftStageHasVerdict, DraftStage, storeVars
<1>. QED
  BY <1>1, <1>2, <1>3, <1>4 DEF IndInv

LEMMA LoopKeeps ==
    ASSUME IndInv, PollNothing \/ PollFails \/ WaitOver \/ LeaveLoop,
           UNCHANGED <<review, reply>>
    PROVE  IndInv'
PROOF
<1>1. CASE PollFails
  <2>1. WorkerTypeOK' /\ LocalsSet'
    BY <1>1, ForgetTyped, WorkerAssumption
       DEF PollFails, Glitch, IndInv, TypeOK, WorkerTypeOK
  <2>2. ~ Deciding' /\ ~ DraftStage'
    BY <1>1 DEF PollFails, Forget, Deciding, DraftStage, TriageStages, ReplyStages
  <2>. QED
    BY <1>1, <2>1, <2>2, ThreadMoves DEF PollFails
<1>2. CASE PollNothing \/ WaitOver \/ LeaveLoop
  <2>1. /\ pc' \in {"idle", "poll", "stopped"}
        /\ UNCHANGED storeVars /\ UNCHANGED breakerVars
        /\ UNCHANGED <<current, outcome, attempts, target, reason, pending, proc,
                       glitches, restarts>>
    BY <1>2 DEF PollNothing, WaitOver, LeaveLoop, boundVars
  <2>2. WorkerTypeOK'
    BY <2>1 DEF IndInv, TypeOK, WorkerTypeOK
  <2>3. LocalsSet' /\ ~ Deciding' /\ ~ DraftStage'
    BY <2>1 DEF LocalsSet, Deciding, DraftStage, CallStages, TriageStages, ReplyStages,
                CommitStages
  <2>. QED
    BY <2>1, <2>2, <2>3, ThreadMoves
<1>. QED
  BY <1>1, <1>2

(* The calls that end with a row, or are refused: the thread keeps its ticket. *)
LEMMA CallKeeps ==
    ASSUME IndInv,
           \/ CallRefused \/ TriageParsed \/ ReplyParsed
           \/ FirstInvalid \/ SecondInvalid \/ CallFails,
           UNCHANGED <<review, reply>>
    PROVE  IndInv'
PROOF
<1>. USE DEF CallStages, TriageStages, ReplyStages, CommitStages
<1>1. /\ UNCHANGED storeVars
      /\ UNCHANGED <<current, target, proc, glitches, restarts>>
      /\ RecordSuccess \/ RecordFailure \/ UNCHANGED breakerVars
  BY DEF CallRefused, TriageParsed, ReplyParsed, FirstInvalid, SecondInvalid,
         CallFails, Answered, boundVars
<1>2. /\ pc \in CallStages
      /\ pc' \in IF pc \in TriageStages THEN {"repair", "route", "escalate"}
                 ELSE {"reply_repair", "save_draft", "no_draft"}
  BY DEF CallRefused, TriageParsed, ReplyParsed, FirstInvalid, SecondInvalid,
         CallFails, GiveUp
<1>3. pending' \in Seq(CallRows)
  <2>1. pending' = pending \/ \E o \in CallOutcomes : Record(o)
    BY WorkerAssumption
       DEF CallRefused, TriageParsed, ReplyParsed, FirstInvalid, SecondInvalid,
           CallFails, CallOutcomes
  <2>. QED
    BY <1>2, <2>1, RecordTyped DEF IndInv, TypeOK, WorkerTypeOK
<1>4. /\ outcome' \in Labels \cup {None}
      /\ attempts' \in Attempts
      /\ reason' \in TriageErrors \cup {None}
      /\ pc' = "escalate" => reason' \in TriageErrors
      /\ pc' = "route" => outcome' \in Labels
  BY DEF CallRefused, TriageParsed, ReplyParsed, FirstInvalid, SecondInvalid,
         CallFails, GiveUp, TriageErrors, Attempts, IndInv, TypeOK, WorkerTypeOK
<1>5. WorkerTypeOK'
  BY <1>1, <1>2, <1>3, <1>4 DEF IndInv, TypeOK, WorkerTypeOK
<1>6. LocalsSet'
  BY <1>1, <1>2, <1>4 DEF IndInv, LocalsSet
<1>7. /\ Deciding' => Deciding
      /\ DraftStage' => DraftStage
  BY <1>2 DEF Deciding, DraftStage
<1>. QED
  BY <1>1, <1>5, <1>6, <1>7, ThreadMoves

(* An exception or a failing commit: the session is closed, nothing was written. *)
LEMMA RollbackKeeps ==
    ASSUME IndInv, CallRaises \/ CommitFails, UNCHANGED <<review, reply>>
    PROVE  IndInv'
PROOF
<1>1. PICK p \in {"poll", "idle"} : Forget(p)
  BY DEF CallRaises, CommitFails
<1>2. /\ UNCHANGED storeVars /\ UNCHANGED breakerVars /\ UNCHANGED <<proc, restarts>>
      /\ glitches' \in 0 .. MaxGlitches
  BY WorkerAssumption
     DEF CallRaises, CommitFails, Glitch, IndInv, TypeOK, WorkerTypeOK
<1>3. WorkerTypeOK' /\ LocalsSet'
  BY <1>1, <1>2, ForgetTyped DEF IndInv, TypeOK, WorkerTypeOK
<1>4. ~ Deciding' /\ ~ DraftStage'
  BY <1>1 DEF Forget, Deciding, DraftStage, TriageStages, ReplyStages
<1>. QED
  BY <1>2, <1>3, <1>4, ThreadMoves

LEMMA RouteKeeps ==
    ASSUME IndInv, RouteTicket, UNCHANGED <<review, reply>>
    PROVE  IndInv'
PROOF
<1>1. outcome \in Labels /\ current \in Tickets
  BY DEF IndInv, LocalsSet, RouteTicket
<1>2. target' \in Queues
  BY <1>1, RoutedInQueues DEF RouteTicket, IndInv
<1>3. /\ pc = "route" /\ pc' = "save"
      /\ UNCHANGED storeVars /\ UNCHANGED breakerVars
      /\ UNCHANGED <<current, outcome, attempts, reason, pending, proc, glitches, restarts>>
  BY DEF RouteTicket, boundVars
<1>4. WorkerTypeOK' /\ LocalsSet'
  BY <1>1, <1>2, <1>3 DEF IndInv, TypeOK, WorkerTypeOK, LocalsSet, CommitStages
<1>5. Deciding /\ ~ DraftStage'
  BY <1>3 DEF Deciding, DraftStage, ReplyStages
<1>. QED
  BY <1>3, <1>4, <1>5, ThreadMoves

(* Stopping, closing, starting and the passing of time. *)
LEMMA ProcessKeeps ==
    ASSUME IndInv, UNCHANGED <<review, reply>>,
           BeginStop \/ CloseClient \/ Restart \/ (CooldownOver /\ UNCHANGED <<storeVars, workerVars>>)
    PROVE  IndInv'
PROOF
<1>1. /\ UNCHANGED storeVars
      /\ UNCHANGED breakerVars \/ CooldownOver
      /\ UNCHANGED <<current, outcome, attempts, target, reason, pending, glitches>>
      /\ proc' \in {"up", "stopping", "closed", "down"}
      /\ restarts' \in 0 .. MaxRestarts
      /\ pc' = pc \/ pc' = "poll"
  BY WorkerAssumption
     DEF BeginStop, CloseClient, Restart, boundVars, threadVars, workerVars, IndInv,
         TypeOK, WorkerTypeOK
<1>2. WorkerTypeOK' /\ LocalsSet'
  BY <1>1
     DEF IndInv, TypeOK, WorkerTypeOK, LocalsSet, CallStages, TriageStages, ReplyStages,
         CommitStages
<1>3. (Deciding' => Deciding) /\ (DraftStage' => DraftStage)
  BY <1>1 DEF Deciding, DraftStage, TriageStages, ReplyStages
<1>. QED
  BY <1>1, <1>2, <1>3, ThreadMoves

LEMMA MemoryLoss ==
    ASSUME IndInv, LoseMemory, UNCHANGED storeVars, UNCHANGED glitches,
           restarts' \in 0 .. MaxRestarts
    PROVE  /\ StoreTypeOK' /\ BreakerTypeOK' /\ WorkerTypeOK' /\ LocalsSet'
           /\ VerdictExplainsStatus' /\ WorkerOwnsItsTicket' /\ DraftStageHasVerdict'
PROOF
<1>1. BreakerTypeOK'
  BY BreakerTyped DEF LoseMemory, RecordSuccess, IndInv, TypeOK
<1>2. /\ WorkerTypeOK' /\ LocalsSet' /\ WorkerOwnsItsTicket' /\ DraftStageHasVerdict'
  BY ForgetTyped DEF LoseMemory, IndInv, TypeOK, WorkerTypeOK
<1>. QED
  BY <1>1, <1>2, StoreFrame

LEMMA ExitKeeps ==
    ASSUME IndInv, Exit, UNCHANGED <<review, reply>>
    PROVE  IndInv'
PROOF
<1>1. /\ StoreTypeOK' /\ BreakerTypeOK' /\ WorkerTypeOK' /\ LocalsSet'
      /\ VerdictExplainsStatus' /\ WorkerOwnsItsTicket' /\ DraftStageHasVerdict'
  BY MemoryLoss DEF Exit, boundVars, IndInv, TypeOK, WorkerTypeOK
<1>2. RequestsGrounded'
  BY GroundsFrame DEF Exit, storeVars
<1>. QED
  BY <1>1, <1>2, RequestsFrame DEF IndInv, TypeOK

LEMMA CrashKeeps ==
    ASSUME IndInv, ProcessDies
    PROVE  IndInv'
PROOF
<1>1. /\ StoreTypeOK' /\ BreakerTypeOK' /\ WorkerTypeOK' /\ LocalsSet'
      /\ VerdictExplainsStatus' /\ WorkerOwnsItsTicket' /\ DraftStageHasVerdict'
  BY MemoryLoss, WorkerAssumption DEF ProcessDies, Crash, IndInv, TypeOK, WorkerTypeOK
<1>2. ReviewTypeOK' /\ ReplyTypeOK' /\ RequestsGrounded'
  BY DEF ProcessDies, ReviewTypeOK, ReplyTypeOK, RequestsGrounded, NoReview, NoReply
<1>. QED
  BY <1>1, <1>2 DEF IndInv, TypeOK

----------------------------------------------------------------------------
(* The commits of the worker. *)

LEMMA SaveTriageKeeps ==
    ASSUME IndInv, SaveTriage, UNCHANGED <<review, reply>>
    PROVE  IndInv'
PROOF
<1>. DEFINE row == [labels |-> outcome, attempts |-> attempts]
<1>1. /\ pc = "save" /\ current \in Tickets /\ outcome \in Labels /\ target \in Queues
      /\ row \in TriageRows
  BY DEF IndInv, LocalsSet, SaveTriage, TypeOK, WorkerTypeOK, TriageRows, CommitStages
<1>2. /\ status[current] = "received" /\ correction[current] = None
      /\ draft[current] = None
      /\ \A r \in Reviewers : review[r].ticket # current
  BY <1>1 DEF IndInv, WorkerOwnsItsTicket, VerdictExplainsStatus, Deciding
<1>3. TypeOK'
  <2>1. StoreTypeOK'
    BY <1>1, CallsTyped DEF SaveTriage, IndInv, TypeOK, StoreTypeOK, Statuses
  <2>2. WorkerTypeOK'
    BY DEF SaveTriage, boundVars, IndInv, TypeOK, WorkerTypeOK, CallStages, ReplyStages,
           Attempts
  <2>. QED
    BY <2>1, <2>2, RequestsFrame, BreakerTyped DEF SaveTriage, IndInv, TypeOK
<1>4. LocalsSet'
  BY <1>1 DEF SaveTriage, LocalsSet
<1>5. triage'[current] = row /\ row # None
  BY <1>1, StoreAssumption DEF SaveTriage, IndInv, TypeOK, StoreTypeOK
<1>6. RequestsGrounded'
  BY <1>1, <1>2, <1>5
     DEF SaveTriage, IndInv, RequestsGrounded, TypeOK, StoreTypeOK, ReviewTypeOK
<1>7. VerdictExplainsStatus'
  BY <1>1, <1>2, <1>5
     DEF SaveTriage, ticketVars, IndInv, VerdictExplainsStatus, TypeOK, StoreTypeOK
<1>8. WorkerOwnsItsTicket' /\ DraftStageHasVerdict'
  BY <1>1, <1>2, <1>5
     DEF SaveTriage, WorkerOwnsItsTicket, DraftStageHasVerdict, Deciding, TriageStages
<1>. QED
  BY <1>3, <1>4, <1>6, <1>7, <1>8 DEF IndInv

LEMMA EscalateKeeps ==
    ASSUME IndInv, Escalate, UNCHANGED <<review, reply>>
    PROVE  IndInv'
PROOF
<1>1. /\ pc = "escalate" /\ current \in Tickets /\ reason \in TriageErrors
      /\ reason # None
  BY StoreAssumption DEF IndInv, LocalsSet, Escalate, CommitStages
<1>2. /\ status[current] = "received" /\ correction[current] = None
      /\ triage[current] = None /\ draft[current] = None
      /\ \A r \in Reviewers : review[r].ticket # current
  BY <1>1 DEF IndInv, WorkerOwnsItsTicket, VerdictExplainsStatus, Deciding
<1>3. /\ WorkerTypeOK' /\ LocalsSet'
      /\ WorkerOwnsItsTicket' /\ DraftStageHasVerdict'
  BY ForgetTyped DEF Escalate, boundVars, IndInv, TypeOK, WorkerTypeOK
<1>4. StoreTypeOK'
  BY <1>1, CallsTyped, RoutingAssumption
     DEF Escalate, IndInv, TypeOK, StoreTypeOK, Statuses
<1>5. TypeOK'
  BY <1>3, <1>4, RequestsFrame, BreakerTyped DEF Escalate, IndInv, TypeOK
<1>6. RequestsGrounded'
  BY <1>1, <1>2
     DEF Escalate, IndInv, RequestsGrounded, TypeOK, StoreTypeOK, ReviewTypeOK
<1>7. VerdictExplainsStatus'
  BY <1>1, <1>2 DEF Escalate, IndInv, VerdictExplainsStatus, TypeOK, StoreTypeOK
<1>. QED
  BY <1>3, <1>5, <1>6, <1>7 DEF IndInv

LEMMA SaveDraftKeeps ==
    ASSUME IndInv, SaveDraft, UNCHANGED <<review, reply>>
    PROVE  IndInv'
PROOF
<1>. DEFINE row == [state |-> "draft", body |-> "generated", attempts |-> attempts]
<1>1. /\ current \in Tickets /\ triage[current] # None
      /\ row \in DraftRows /\ row # None
  BY StoreAssumption
     DEF IndInv, LocalsSet, SaveDraft, CommitStages, DraftStageHasVerdict, DraftRows,
         ReplyStates, TypeOK, WorkerTypeOK
<1>2. draft' = [draft EXCEPT ![current] = row]
  BY DEF SaveDraft
<1>3. /\ WorkerTypeOK' /\ LocalsSet'
      /\ WorkerOwnsItsTicket' /\ DraftStageHasVerdict'
  BY ForgetTyped DEF SaveDraft, boundVars, IndInv, TypeOK, WorkerTypeOK
<1>4. StoreTypeOK'
  BY <1>1, <1>2, CallsTyped DEF SaveDraft, ticketVars, IndInv, TypeOK, StoreTypeOK
<1>5. TypeOK'
  BY <1>3, <1>4, RequestsFrame, BreakerTyped DEF SaveDraft, IndInv, TypeOK
<1>6. RequestsGrounded' /\ VerdictExplainsStatus'
  BY <1>1, <1>2
     DEF SaveDraft, ticketVars, IndInv, RequestsGrounded, VerdictExplainsStatus, TypeOK,
         StoreTypeOK
<1>. QED
  BY <1>3, <1>5, <1>6 DEF IndInv

LEMMA KeepCallsOnlyKeeps ==
    ASSUME IndInv, KeepCallsOnly, UNCHANGED <<review, reply>>
    PROVE  IndInv'
PROOF
<1>1. /\ WorkerTypeOK' /\ LocalsSet'
      /\ WorkerOwnsItsTicket' /\ DraftStageHasVerdict'
  BY ForgetTyped DEF KeepCallsOnly, boundVars, IndInv, TypeOK, WorkerTypeOK
<1>2. StoreTypeOK'
  BY CallsTyped DEF KeepCallsOnly, ticketVars, IndInv, TypeOK, StoreTypeOK
<1>3. TypeOK'
  BY <1>1, <1>2, RequestsFrame, BreakerTyped DEF KeepCallsOnly, IndInv, TypeOK
<1>4. RequestsGrounded' /\ VerdictExplainsStatus'
  BY GroundsFrame DEF KeepCallsOnly, ticketVars, IndInv, VerdictExplainsStatus
<1>. QED
  BY <1>1, <1>3, <1>4 DEF IndInv

LEMMA ThreadKeeps ==
    ASSUME IndInv, WorkerStep
    PROVE  IndInv'
PROOF
  BY PollTicketKeeps, LoopKeeps, CallKeeps, RollbackKeeps, RouteKeeps, SaveTriageKeeps,
     EscalateKeeps, SaveDraftKeeps, KeepCallsOnlyKeeps
     DEF WorkerStep, ThreadStep

----------------------------------------------------------------------------
(* The requests.  They leave the worker's memory alone. *)

LEMMA WorkerFrame ==
    ASSUME IndInv, UNCHANGED workerVars, UNCHANGED breakerVars
    PROVE  BreakerTypeOK' /\ WorkerTypeOK' /\ LocalsSet'
PROOF
<1>1. UNCHANGED <<pc, current, outcome, attempts, target, reason, pending, proc,
                 glitches, restarts>>
  BY DEF workerVars, threadVars, boundVars
<1>. QED
  BY <1>1, BreakerTyped DEF IndInv, TypeOK, WorkerTypeOK, LocalsSet

LEMMA IngestKeeps ==
    ASSUME IndInv, Ingest
    PROVE  IndInv'
PROOF
<1>1. PICK t \in Tickets : IngestTicket(t)
  BY DEF Ingest
<1>2. status[t] = "absent" /\ status' = [status EXCEPT ![t] = "received"]
  BY <1>1 DEF IngestTicket
<1>3. /\ UNCHANGED <<triage, correction, draft, queue, triageError, calls, rules>>
      /\ UNCHANGED <<review, reply>>
      /\ UNCHANGED <<pc, current>>
  BY <1>1 DEF Ingest, IngestTicket, workerVars, threadVars
<1>4. created' \in [Tickets -> Stamps \cup {0}]
  <2>1. PICK s \in Stamps : created' = [created EXCEPT ![t] = s]
    BY <1>1 DEF IngestTicket
  <2>2. created \in [Tickets -> Stamps \cup {0}]
    BY DEF IndInv, TypeOK, StoreTypeOK
  <2>. QED
    BY <2>1, <2>2
<1>5. TypeOK'
  <2>1. StoreTypeOK'
    BY <1>2, <1>3, <1>4 DEF IndInv, TypeOK, StoreTypeOK, Statuses
  <2>. QED
    BY <1>3, <2>1, WorkerFrame, RequestsFrame DEF Ingest, TypeOK
<1>6. RequestsGrounded'
  BY <1>2, <1>3 DEF IndInv, TypeOK, StoreTypeOK, RequestsGrounded
<1>7. VerdictExplainsStatus'
  BY <1>2, <1>3 DEF IndInv, TypeOK, StoreTypeOK, VerdictExplainsStatus
<1>8. WorkerOwnsItsTicket' /\ DraftStageHasVerdict'
  BY <1>2, <1>3
     DEF IndInv, TypeOK, StoreTypeOK, WorkerOwnsItsTicket, DraftStageHasVerdict, Deciding
<1>. QED
  BY <1>5, <1>6, <1>7, <1>8, WorkerFrame DEF Ingest, IndInv

LEMMA PutRulesKeeps ==
    ASSUME IndInv, OperatorPutsRules
    PROVE  IndInv'
PROOF
<1>1. /\ UNCHANGED <<status, created, triage, correction, draft, queue, triageError, calls>>
      /\ rules' \in RuleTables
      /\ UNCHANGED <<review, reply>>
      /\ UNCHANGED <<pc, current>>
  BY DEF OperatorPutsRules, PutRules, ticketVars, workerVars, threadVars
<1>2. TypeOK'
  BY <1>1, WorkerFrame, RequestsFrame
     DEF OperatorPutsRules, IndInv, TypeOK, StoreTypeOK
<1>3. /\ RequestsGrounded' /\ VerdictExplainsStatus'
      /\ WorkerOwnsItsTicket' /\ DraftStageHasVerdict'
  BY <1>1, GroundsFrame
     DEF IndInv, VerdictExplainsStatus, WorkerOwnsItsTicket, DraftStageHasVerdict, Deciding
<1>. QED
  BY <1>2, <1>3, WorkerFrame DEF OperatorPutsRules, IndInv

(* What RequestsGrounded and ReviewTypeOK say of one request. *)
Grounded(v) ==
    /\ v \in [op: {"none", "approve", "route", "correct"}, ticket: Tickets \cup {None},
             labels: Labels \cup {None}, queue: Queues \cup {None}]
    /\ v.op = "none" => v.ticket = None
    /\ v.op # "none" =>
          /\ v.ticket \in Tickets
          /\ status[v.ticket] \notin {"absent", "received"}
    /\ v.op = "approve" => triage[v.ticket] # None
    /\ v.op \in {"route", "correct"} => v.labels \in Labels
    /\ v.op = "correct" => v.queue \in Queues

LEMMA NoReviewGrounded == Grounded(NoReview)
PROOF
  BY DEF Grounded, NoReview

(* The steps of a review that write nothing yet: the ticket they hold is decided,
   so it is not the worker's. *)
LEMMA ReviewReads ==
    ASSUME IndInv, NEW r \in Reviewers,
           \/ \E t \in Tickets : \/ ReadToApprove(r, t)
                                \/ \E l \in Labels : ReadToCorrect(r, t, l)
           \/ RouteCorrection(r) \/ ReviewFails(r)
    PROVE  \E new : review' = [review EXCEPT ![r] = new] /\ Grounded(new)
PROOF
<1>1. CASE \E t \in Tickets : ReadToApprove(r, t)
  <2>1. PICK t \in Tickets : ReadToApprove(r, t)
    BY <1>1
  <2>. DEFINE new == [op |-> "approve", ticket |-> t, labels |-> None, queue |-> None]
  <2>2. triage[t] # None /\ status[t] = "triaged"
    BY <2>1 DEF ReadToApprove, IndInv, VerdictExplainsStatus
  <2>3. Grounded(new)
    BY <2>2 DEF Grounded
  <2>. QED
    BY <2>1, <2>3 DEF ReadToApprove
<1>2. CASE \E t \in Tickets, l \in Labels : ReadToCorrect(r, t, l)
  <2>1. PICK t \in Tickets, l \in Labels : ReadToCorrect(r, t, l)
    BY <1>2
  <2>. DEFINE new == [op |-> "route", ticket |-> t, labels |-> l, queue |-> None]
  <2>2. Grounded(new)
    BY <2>1 DEF Grounded, ReadToCorrect, CorrectableStatuses
  <2>. QED
    BY <2>1, <2>2 DEF ReadToCorrect
<1>3. CASE RouteCorrection(r)
  <2>. DEFINE q == ResolveQueue(rules, review[r].labels)
              new == [op |-> "correct", ticket |-> review[r].ticket,
                      labels |-> review[r].labels, queue |-> q]
  <2>1. /\ review[r].op = "route"
        /\ review[r].ticket \in Tickets /\ review[r].labels \in Labels
        /\ status[review[r].ticket] \notin {"absent", "received"}
    BY <1>3 DEF RouteCorrection, IndInv, RequestsGrounded
  <2>2. q \in Queues
    BY <2>1, RoutedInQueues DEF IndInv
  <2>3. Grounded(new)
    BY <2>1, <2>2 DEF Grounded
  <2>4. review' = [review EXCEPT ![r] = new]
    BY <1>3 DEF RouteCorrection
  <2>. HIDE DEF new
  <2>. QED
    BY <2>3, <2>4
<1>4. CASE ReviewFails(r)
  BY <1>4, NoReviewGrounded DEF ReviewFails
<1>. QED
  BY <1>1, <1>2, <1>3, <1>4

LEMMA ReviewReadKeeps ==
    ASSUME IndInv, NEW r \in Reviewers, NEW new,
           review' = [review EXCEPT ![r] = new], Grounded(new),
           UNCHANGED <<storeVars, breakerVars, workerVars, reply>>
    PROVE  IndInv'
PROOF
<1>1. UNCHANGED <<status, triage, draft>> /\ UNCHANGED <<pc, current>>
  BY DEF storeVars, workerVars, threadVars
<1>2. TypeOK'
  <2>1. ReviewTypeOK' /\ ReplyTypeOK'
    BY DEF Grounded, IndInv, TypeOK, ReviewTypeOK, ReplyTypeOK
  <2>. QED
    BY <2>1, StoreFrame, WorkerFrame DEF TypeOK
<1>3. RequestsGrounded'
  BY <1>1 DEF Grounded, IndInv, RequestsGrounded, TypeOK, ReviewTypeOK
<1>4. WorkerOwnsItsTicket'
  <2>1. Deciding => new.ticket # current
    BY StoreAssumption
       DEF Grounded, IndInv, WorkerOwnsItsTicket, LocalsSet, Deciding, CallStages,
           CommitStages
  <2>. QED
    BY <1>1, <2>1 DEF IndInv, WorkerOwnsItsTicket, Deciding, TypeOK, ReviewTypeOK
<1>5. DraftStageHasVerdict'
  BY <1>1 DEF IndInv, DraftStageHasVerdict
<1>. QED
  BY <1>2, <1>3, <1>4, <1>5, StoreFrame, WorkerFrame DEF IndInv

(* The commit of an approval.  Whatever happened to the ticket since it was read, it
   was decided then and is decided now, and it has a triage row. *)
LEMMA ApprovalKeeps ==
    ASSUME IndInv, NEW r \in Reviewers, CommitApproval(r),
           UNCHANGED <<breakerVars, workerVars, reply>>
    PROVE  IndInv'
PROOF
<1>. DEFINE t == review[r].ticket
<1>1. /\ t \in Tickets /\ triage[t] # None
      /\ status[t] \notin {"absent", "received"}
      /\ status[t] # "needs_human" /\ triageError[t] = None
  BY DEF CommitApproval, IndInv, RequestsGrounded, VerdictExplainsStatus
<1>2. /\ status' = [status EXCEPT ![t] = "approved"]
      /\ review' = [review EXCEPT ![r] = NoReview]
      /\ UNCHANGED <<created, queue, triageError, triage, correction, draft, calls, rules>>
      /\ UNCHANGED <<pc, current>>
  BY DEF CommitApproval, workerVars, threadVars
<1>3. Deciding => t # current
  BY <1>1 DEF IndInv, WorkerOwnsItsTicket
<1>4. TypeOK'
  <2>1. StoreTypeOK'
    BY <1>2 DEF IndInv, TypeOK, StoreTypeOK, Statuses
  <2>2. ReviewTypeOK' /\ ReplyTypeOK'
    BY <1>2, NoReviewGrounded DEF Grounded, IndInv, TypeOK, ReviewTypeOK, ReplyTypeOK
  <2>. QED
    BY <2>1, <2>2, WorkerFrame DEF TypeOK
<1>5. RequestsGrounded'
  BY <1>1, <1>2
     DEF NoReview, IndInv, RequestsGrounded, TypeOK, StoreTypeOK, ReviewTypeOK
<1>6. VerdictExplainsStatus'
  BY <1>1, <1>2 DEF IndInv, VerdictExplainsStatus, TypeOK, StoreTypeOK
<1>7. WorkerOwnsItsTicket' /\ DraftStageHasVerdict'
  BY <1>2, <1>3, StoreAssumption
     DEF NoReview, IndInv, WorkerOwnsItsTicket, DraftStageHasVerdict, Deciding, LocalsSet,
         CallStages, CommitStages, TypeOK, StoreTypeOK, ReviewTypeOK
<1>. QED
  BY <1>4, <1>5, <1>6, <1>7, WorkerFrame DEF IndInv

(* The commit of a correction, under the same argument. *)
LEMMA CorrectionKeeps ==
    ASSUME IndInv, NEW r \in Reviewers, CommitCorrection(r),
           UNCHANGED <<breakerVars, workerVars, reply>>
    PROVE  IndInv'
PROOF
<1>. DEFINE t == review[r].ticket
            l == review[r].labels
<1>1. /\ t \in Tickets /\ l \in Labels /\ l # None /\ review[r].queue \in Queues
      /\ status[t] \notin {"absent", "received"}
  BY StoreAssumption DEF CommitCorrection, IndInv, RequestsGrounded
<1>2. /\ status' = [status EXCEPT ![t] = "corrected"]
      /\ correction' = [correction EXCEPT ![t] = l]
      /\ queue' = [queue EXCEPT ![t] = review[r].queue]
      /\ triageError' = [triageError EXCEPT ![t] = None]
      /\ review' = [review EXCEPT ![r] = NoReview]
      /\ UNCHANGED <<created, triage, draft, calls, rules>>
      /\ UNCHANGED <<pc, current>>
  BY DEF CommitCorrection, workerVars, threadVars
<1>3. Deciding => t # current
  BY <1>1 DEF IndInv, WorkerOwnsItsTicket
<1>4. TypeOK'
  <2>1. StoreTypeOK'
    BY <1>1, <1>2 DEF IndInv, TypeOK, StoreTypeOK, Statuses
  <2>2. ReviewTypeOK' /\ ReplyTypeOK'
    BY <1>2, NoReviewGrounded DEF Grounded, IndInv, TypeOK, ReviewTypeOK, ReplyTypeOK
  <2>. QED
    BY <2>1, <2>2, WorkerFrame DEF TypeOK
<1>5. RequestsGrounded'
  BY <1>1, <1>2
     DEF NoReview, IndInv, RequestsGrounded, TypeOK, StoreTypeOK, ReviewTypeOK
<1>6. VerdictExplainsStatus'
  BY <1>1, <1>2 DEF IndInv, VerdictExplainsStatus, TypeOK, StoreTypeOK
<1>7. WorkerOwnsItsTicket' /\ DraftStageHasVerdict'
  BY <1>2, <1>3, StoreAssumption
     DEF NoReview, IndInv, WorkerOwnsItsTicket, DraftStageHasVerdict, Deciding, LocalsSet,
         CallStages, CommitStages, TypeOK, StoreTypeOK, ReviewTypeOK
<1>. QED
  BY <1>4, <1>5, <1>6, <1>7, WorkerFrame DEF IndInv

LEMMA ReviewerKeeps ==
    ASSUME IndInv, ReviewerStep
    PROVE  IndInv'
PROOF
<1>1. UNCHANGED <<breakerVars, workerVars, reply>>
  BY DEF ReviewerStep
<1>2. PICK r \in Reviewers :
        \/ \E t \in Tickets : \/ ReadToApprove(r, t)
                             \/ \E l \in Labels : ReadToCorrect(r, t, l)
        \/ CommitApproval(r) \/ RouteCorrection(r)
        \/ CommitCorrection(r) \/ ReviewFails(r)
  BY DEF ReviewerStep, ReviewStart, ReviewFinish
<1>3. CASE CommitApproval(r)
  BY <1>1, <1>3, ApprovalKeeps
<1>4. CASE CommitCorrection(r)
  BY <1>1, <1>4, CorrectionKeeps
<1>5. CASE \/ \E t \in Tickets : \/ ReadToApprove(r, t)
                                \/ \E l \in Labels : ReadToCorrect(r, t, l)
           \/ RouteCorrection(r) \/ ReviewFails(r)
  <2>1. PICK new : review' = [review EXCEPT ![r] = new] /\ Grounded(new)
    BY <1>5, ReviewReads
  <2>2. UNCHANGED storeVars
    BY <1>5 DEF ReadToApprove, ReadToCorrect, RouteCorrection, ReviewFails
  <2>. QED
    BY <1>1, <2>1, <2>2, ReviewReadKeeps
<1>. QED
  BY <1>2, <1>3, <1>4, <1>5

(* A reply request starts from a draft row, and what it writes is one. *)
LEMMA ReplierKeeps ==
    ASSUME IndInv, ReplierStep
    PROVE  IndInv'
PROOF
<1>1. /\ UNCHANGED <<breakerVars, workerVars, review>>
      /\ UNCHANGED <<status, created, queue, triageError, triage, correction, calls, rules>>
      /\ UNCHANGED <<pc, current>>
  BY DEF ReplierStep, ReplyStart, ReplyFinish, ReadDraft, CommitEdit, CommitTransition,
         ReplyFails, storeVars, ticketVars, workerVars, threadVars
<1>2. /\ ReplyTypeOK'
      /\ draft' \in [Tickets -> DraftRows \cup {None}]
      /\ \A t \in Tickets : draft'[t] # None <=> draft[t] # None
      /\ \A q \in Repliers :
            reply'[q].op # "none" =>
                reply'[q].ticket \in Tickets /\ draft'[reply'[q].ticket] # None
  <2>1. CASE ReplyStart
    BY <2>1
       DEF ReplyStart, ReadDraft, storeVars, IndInv, TypeOK, StoreTypeOK, ReplyTypeOK,
           RequestsGrounded
  <2>2. CASE \E q \in Repliers : ReplyFails(q)
    BY <2>2
       DEF ReplyFails, NoReply, storeVars, IndInv, TypeOK, StoreTypeOK, ReplyTypeOK,
           RequestsGrounded
  <2>3. CASE \E q \in Repliers : CommitEdit(q) \/ CommitTransition(q)
    <3>1. PICK q \in Repliers : CommitEdit(q) \/ CommitTransition(q)
      BY <2>3
    <3>. DEFINE t == reply[q].ticket
    <3>2. t \in Tickets /\ draft[t] # None /\ draft[t] \in DraftRows
      BY <3>1
         DEF CommitEdit, CommitTransition, IndInv, RequestsGrounded, TypeOK, StoreTypeOK
    <3>3. PICK row \in DraftRows : draft' = [draft EXCEPT ![t] = row]
      <4>1. CASE CommitEdit(q)
        <5>1. [draft[t] EXCEPT !.body = "edited"] \in DraftRows
          BY <3>2 DEF DraftRows
        <5>. QED
          BY <4>1, <5>1 DEF CommitEdit
      <4>2. CASE CommitTransition(q)
        <5>1. [draft[t] EXCEPT !.state = reply[q].op] \in DraftRows
          BY <3>2, <4>2 DEF DraftRows, ReplyStates, CommitTransition
        <5>. QED
          BY <4>2, <5>1 DEF CommitTransition
      <4>. QED
        BY <3>1, <4>1, <4>2
    <3>4. row # None
      BY StoreAssumption
    <3>5. reply' = [reply EXCEPT ![q] = NoReply]
      BY <3>1 DEF CommitEdit, CommitTransition
    <3>. QED
      BY <3>2, <3>3, <3>4, <3>5
         DEF NoReply, IndInv, TypeOK, StoreTypeOK, ReplyTypeOK, RequestsGrounded
  <2>. QED
    BY <2>1, <2>2, <2>3 DEF ReplierStep, ReplyFinish
<1>3. TypeOK'
  BY <1>1, <1>2, WorkerFrame DEF IndInv, TypeOK, StoreTypeOK, ReviewTypeOK
<1>4. RequestsGrounded'
  BY <1>1, <1>2 DEF IndInv, RequestsGrounded
<1>5. VerdictExplainsStatus' /\ WorkerOwnsItsTicket'
  BY <1>1, <1>2 DEF IndInv, VerdictExplainsStatus, WorkerOwnsItsTicket, Deciding
<1>6. DraftStageHasVerdict'
  <2>1. pc \in ReplyStages \cup {"no_draft", "save_draft"} => current \in Tickets
    BY DEF IndInv, LocalsSet, CallStages, CommitStages
  <2>. QED
    BY <1>1, <1>2, <2>1 DEF IndInv, DraftStageHasVerdict
<1>. QED
  BY <1>1, <1>3, <1>4, <1>5, <1>6, WorkerFrame DEF IndInv

----------------------------------------------------------------------------
(* The invariant is inductive. *)

LEMMA InitEstablishes == Init => IndInv
PROOF
<1>. SUFFICES ASSUME Init PROVE IndInv
  OBVIOUS
<1>1. TypeOK
  BY StoreAssumption, ThresholdAssumption, WorkerAssumption
     DEF Init, StoreInit, BreakerInit, WorkerInit, ReviewInit, ReplyInit, TypeOK,
         StoreTypeOK, BreakerTypeOK, WorkerTypeOK, ReviewTypeOK, ReplyTypeOK,
         NoReview, NoReply, Attempts
<1>2. LocalsSet /\ WorkerOwnsItsTicket /\ DraftStageHasVerdict
  BY DEF Init, WorkerInit, LocalsSet, WorkerOwnsItsTicket, DraftStageHasVerdict, Deciding,
         CallStages, TriageStages, ReplyStages, CommitStages
<1>3. RequestsGrounded
  BY DEF Init, ReviewInit, ReplyInit, NoReview, NoReply, RequestsGrounded
<1>4. VerdictExplainsStatus
  BY DEF Init, StoreInit, VerdictExplainsStatus
<1>. QED
  BY <1>1, <1>2, <1>3, <1>4 DEF IndInv

LEMMA NextKeeps == IndInv /\ [Next]_vars => IndInv'
PROOF
<1>. SUFFICES ASSUME IndInv, [Next]_vars PROVE IndInv'
  OBVIOUS
<1>1. CASE Ingest
  BY <1>1, IngestKeeps
<1>2. CASE OperatorPutsRules
  BY <1>2, PutRulesKeeps
<1>3. CASE ReviewerStep
  BY <1>3, ReviewerKeeps
<1>4. CASE ReplierStep
  BY <1>4, ReplierKeeps
<1>5. CASE WorkerStep
  BY <1>5, ThreadKeeps
<1>6. CASE TimePasses \/ StopRequested \/ ProcessStops \/ ProcessStarts
  BY <1>6, ProcessKeeps, ExitKeeps
     DEF TimePasses, StopRequested, ProcessStops, Shutdown, ProcessStarts
<1>7. CASE ProcessDies
  BY <1>7, CrashKeeps
<1>8. CASE UNCHANGED vars
  <2>1. /\ UNCHANGED storeVars /\ UNCHANGED breakerVars /\ UNCHANGED workerVars
        /\ UNCHANGED <<review, reply>> /\ UNCHANGED <<pc, current, triage, draft, status>>
    BY <1>8 DEF vars, workerVars, threadVars, storeVars
  <2>2. TypeOK' /\ LocalsSet'
    BY <2>1, StoreFrame, WorkerFrame, RequestsFrame DEF TypeOK
  <2>3. RequestsGrounded' /\ VerdictExplainsStatus'
    BY <2>1, StoreFrame, GroundsFrame
  <2>4. WorkerOwnsItsTicket' /\ DraftStageHasVerdict'
    BY <2>1 DEF IndInv, WorkerOwnsItsTicket, DraftStageHasVerdict, Deciding
  <2>. QED
    BY <2>2, <2>3, <2>4 DEF IndInv
<1>. QED
  BY <1>1, <1>2, <1>3, <1>4, <1>5, <1>6, <1>7, <1>8 DEF Next

(* The strengthened invariant holds in every reachable state: whatever the number of
   tickets, requests and rules, and however often calls fail, commits fail, the process
   dies and is started again. *)
THEOREM Invariance == Spec => []IndInv
PROOF
  BY InitEstablishes, NextKeeps, PTL DEF Spec

(* Every column, request and local keeps its type. *)
THEOREM TypesHold == Spec => []TypeOK
PROOF
<1>1. IndInv => TypeOK
  BY DEF IndInv
<1>. QED
  BY <1>1, Invariance, PTL

(* The columns of a ticket always tell the same story: status, verdict, reason,
   correction and draft agree (process_next_ticket and the reviews together). *)
THEOREM VerdictsExplained == Spec => []VerdictExplainsStatus
PROOF
<1>1. IndInv => VerdictExplainsStatus
  BY DEF IndInv
<1>. QED
  BY <1>1, Invariance, PTL

(* The UPDATE of process_next_ticket, which does not look at the status again, always
   meets a ticket that is still received and that no review has read. *)
THEOREM WorkerOwnership == Spec => []WorkerOwnsItsTicket
PROOF
<1>1. IndInv => WorkerOwnsItsTicket
  BY DEF IndInv
<1>. QED
  BY <1>1, Invariance, PTL

(* _generate_draft's INSERT never meets a draft row of the ticket, and always finds the
   triage it was generated from. *)
THEOREM DraftsFollowVerdicts == Spec => []DraftStageHasVerdict
PROOF
<1>1. IndInv => DraftStageHasVerdict
  BY DEF IndInv
<1>. QED
  BY <1>1, Invariance, PTL

----------------------------------------------------------------------------
(* What a step may never do. *)

(* The five actions that write a ticket's row or its correction. *)
LEMMA StepsOfTickets ==
    ASSUME IndInv, [Next]_vars
    PROVE  \/ UNCHANGED <<status, triage, correction, queue>>
           \/ \E t \in Tickets : IngestTicket(t)
           \/ SaveTriage \/ Escalate
           \/ \E r \in Reviewers : CommitApproval(r) \/ CommitCorrection(r)
PROOF
<1>1. CASE Ingest
  BY <1>1 DEF Ingest
<1>2. CASE OperatorPutsRules \/ ReplierStep \/ TimePasses \/ StopRequested
           \/ ProcessStops \/ ProcessDies \/ ProcessStarts \/ UNCHANGED vars
  BY <1>2
     DEF OperatorPutsRules, PutRules, ReplierStep, ReplyStart, ReplyFinish, ReadDraft,
         CommitEdit, CommitTransition, ReplyFails, TimePasses, StopRequested, BeginStop,
         ProcessStops, Shutdown, CloseClient, Exit, ProcessDies, Crash, ProcessStarts,
         Restart, vars, storeVars, ticketVars
<1>3. CASE ReviewerStep
  BY <1>3
     DEF ReviewerStep, ReviewStart, ReviewFinish, ReadToApprove, ReadToCorrect,
         RouteCorrection, ReviewFails, storeVars
<1>4. CASE WorkerStep
  BY <1>4
     DEF WorkerStep, ThreadStep, PollTicket, PollNothing, PollFails, WaitOver, LeaveLoop,
         CallRefused, TriageParsed, ReplyParsed, FirstInvalid, SecondInvalid, CallFails,
         CallRaises, RouteTicket, SaveDraft, KeepCallsOnly, CommitFails, storeVars,
         ticketVars
<1>. QED
  BY <1>1, <1>2, <1>3, <1>4 DEF Next

(* A decided ticket stays decided and a reviewed one reviewed, also when reviews of
   the same ticket overlap (approve_ticket, correct_ticket, process_next_ticket). *)
THEOREM DecisionsStand == Spec => NeverGoesBack
PROOF
<1>. DEFINE Forward ==
        \A t \in Tickets :
          /\ status[t] \in {"approved", "corrected"} =>
                status'[t] \in {"approved", "corrected"}
          /\ status[t] \in CorrectableStatuses =>
                status'[t] \in {status[t], "approved", "corrected"}
          /\ status[t] = "needs_human" => status'[t] # "approved"
<1>1. ASSUME IndInv, [Next]_vars PROVE Forward
  <2>1. CASE UNCHANGED <<status, correction, queue>>
    BY <2>1
  <2>2. CASE \E t \in Tickets : IngestTicket(t)
    BY <1>1, <2>2 DEF IngestTicket, IndInv, TypeOK, StoreTypeOK, CorrectableStatuses
  <2>3. CASE SaveTriage \/ Escalate
    <3>1. status[current] = "received"
      BY <1>1, <2>3 DEF SaveTriage, Escalate, IndInv, WorkerOwnsItsTicket, Deciding
    <3>. QED
      BY <1>1, <2>3, <3>1
         DEF SaveTriage, Escalate, IndInv, TypeOK, StoreTypeOK, CorrectableStatuses
  <2>4. CASE \E r \in Reviewers : CommitApproval(r) \/ CommitCorrection(r)
    <3>1. PICK r \in Reviewers : CommitApproval(r) \/ CommitCorrection(r)
      BY <2>4
    <3>2. CASE CommitApproval(r)
      <4>1. status[review[r].ticket] # "needs_human"
        BY <1>1, <3>2 DEF CommitApproval, IndInv, RequestsGrounded, VerdictExplainsStatus
      <4>. QED
        BY <1>1, <3>2, <4>1
           DEF CommitApproval, IndInv, TypeOK, StoreTypeOK, CorrectableStatuses
    <3>3. CASE CommitCorrection(r)
      BY <1>1, <3>3
         DEF CommitCorrection, IndInv, TypeOK, StoreTypeOK, CorrectableStatuses
    <3>. QED
      BY <3>1, <3>2, <3>3
  <2>. QED
    BY <1>1, <2>1, <2>2, <2>3, <2>4, StepsOfTickets
<1>. QED
  BY <1>1, Invariance, PTL DEF Spec, NeverGoesBack

(* Once a correction is committed, no step changes it or the queue of its ticket: not a
   racing correct_ticket, and not the worker. *)
THEOREM CorrectionsStay == Spec => FirstCorrectionStays
PROOF
<1>. DEFINE Stays ==
        \A t \in Tickets :
          correction[t] # None =>
              /\ correction'[t] = correction[t]
              /\ queue'[t] = queue[t]
<1>1. ASSUME IndInv, [Next]_vars PROVE Stays
  <2>1. CASE UNCHANGED <<status, correction, queue>>
    BY <2>1
  <2>2. CASE \E t \in Tickets : IngestTicket(t)
    BY <2>2 DEF IngestTicket
  <2>3. CASE SaveTriage \/ Escalate
    <3>1. correction[current] = None
      BY <1>1, <2>3
         DEF SaveTriage, Escalate, IndInv, WorkerOwnsItsTicket, VerdictExplainsStatus,
             Deciding, LocalsSet, CommitStages
    <3>. QED
      BY <1>1, <2>3, <3>1 DEF SaveTriage, Escalate, IndInv, TypeOK, StoreTypeOK
  <2>4. CASE \E r \in Reviewers : CommitApproval(r) \/ CommitCorrection(r)
    BY <1>1, <2>4 DEF CommitApproval, CommitCorrection, IndInv, TypeOK, StoreTypeOK
  <2>. QED
    BY <1>1, <2>1, <2>2, <2>3, <2>4, StepsOfTickets
<1>. QED
  BY <1>1, Invariance, PTL DEF Spec, FirstCorrectionStays
=============================================================================
