----------------------------- MODULE ApiProofs -----------------------------
(***************************************************************************)
(* The service with its ingestion taken apart implements the service of    *)
(* TicketTriage, and what its ticket answers, exports, totals and lists    *)
(* promise holds, for any number of clients, reviewers, tickets and        *)
(* restarts.                                                               *)
(***************************************************************************)
EXTENDS ApiProperties, VerdictProofs, FiniteSetTheorems

----------------------------------------------------------------------------
(* Every step is one of the service, or writes nothing. *)

(* A step of a client is the atomic ingestion, or writes nothing. *)
LEMMA ClientStepIsIngest ==
    ASSUME ApiInv, ClientStep
    PROVE  Ingest \/ UNCHANGED vars
PROOF
<1>1. UNCHANGED <<breakerVars, workerVars, review, reply>> /\ proc = "up"
  BY DEF ClientStep
<1>2. CASE \E c \in Clients : InsertTicket(c)
  <2>1. PICK c \in Clients : InsertTicket(c)
    BY <1>2
  <2>2. intake[c].ticket \in Tickets
    BY <2>1 DEF InsertTicket, ApiInv, KnowsItsTicket
  <2>. QED
    BY <1>1, <2>1, <2>2 DEF InsertTicket, Ingest
<1>3. CASE UNCHANGED storeVars
  BY <1>1, <1>3 DEF vars
<1>. QED
  BY <1>2, <1>3
     DEF ClientStep, FindTicket, FindNothing, InsertConflicts, InsertTimesOut, Reselect,
         Refresh, ReadPart, Answer

LEMMA ApiStepIsStep ==
    ASSUME ApiInv, [ApiNext]_apiVars
    PROVE  [Next]_vars
PROOF
<1>1. CASE ClientStep
  BY <1>1, ClientStepIsIngest DEF Next
<1>2. CASE ReaderStep \/ UNCHANGED apiVars
  BY <1>2 DEF ReaderStep, apiVars
<1>3. CASE OtherRequest \/ ApiStops \/ ApiDies \/ Background
  BY <1>3 DEF OtherRequest, ApiStops, ApiDies, Background, Next
<1>. QED
  BY <1>1, <1>2, <1>3 DEF ApiNext

----------------------------------------------------------------------------
(* What a step of the service does to the tables: rows are only added. *)

Grows ==
    \A t \in Tickets :
        /\ status[t] # "absent" => status'[t] # "absent"
        /\ triage[t] # None => triage'[t] # None
        /\ correction[t] # None => correction'[t] # None
        /\ calls[t] # <<>> => calls'[t] # <<>>
        /\ (triage[t] = None /\ status[t] \in {"needs_human", "corrected"}) =>
              triage'[t] = None /\ status'[t] \in {"needs_human", "corrected"}

(* The rows of a commit are added to the ticket's log. *)
LEMMA CallsGrow ==
    ASSUME IndInv, KeepPending, current \in Tickets
    PROVE  /\ \A t \in Tickets : calls[t] # <<>> => calls'[t] # <<>>
           /\ pending # <<>> => calls'[current] # <<>>
           /\ \A t \in Tickets : t # current => calls'[t] = calls[t]
PROOF
<1>1. calls \in [Tickets -> Seq(CallRows)] /\ pending \in Seq(CallRows)
  BY DEF IndInv, TypeOK, StoreTypeOK, WorkerTypeOK
<1>2. calls' = [calls EXCEPT ![current] = calls[current] \o pending]
  BY DEF KeepPending
<1>3. calls[current] # <<>> \/ pending # <<>> => calls[current] \o pending # <<>>
  BY <1>1
<1>. QED
  BY <1>1, <1>2, <1>3

(* The worker's commits find a ticket that nobody has decided; its draft commits leave
   the ticket alone. *)
LEMMA WorkerGrows ==
    ASSUME IndInv, ThreadStep
    PROVE  Grows
PROOF
<1>1. CASE UNCHANGED storeVars
  BY <1>1 DEF Grows, storeVars
<1>2. CASE SaveTriage \/ Escalate
  <2>1. current \in Tickets /\ status[current] = "received" /\ KeepPending
    BY <1>2
       DEF SaveTriage, Escalate, IndInv, WorkerOwnsItsTicket, Deciding, LocalsSet,
           CommitStages
  <2>2. \A t \in Tickets : calls[t] # <<>> => calls'[t] # <<>>
    BY <2>1, CallsGrow
  <2>3. CASE SaveTriage
    <3>1. triage' = [triage EXCEPT ![current] =
                       [labels |-> outcome, attempts |-> attempts]]
          /\ status' = [status EXCEPT ![current] = "triaged"]
          /\ correction' = correction
          /\ triage[current] = None
      BY <2>3 DEF SaveTriage
    <3>2. [labels |-> outcome, attempts |-> attempts] \in TriageRows
      BY <2>3
         DEF SaveTriage, IndInv, LocalsSet, TypeOK, WorkerTypeOK, TriageRows
    <3>3. [labels |-> outcome, attempts |-> attempts] # None
      BY <3>2, StoreAssumption
    <3>. QED
      BY <2>1, <2>2, <3>1, <3>3 DEF Grows, IndInv, TypeOK, StoreTypeOK
  <2>4. CASE Escalate
    BY <2>1, <2>2, <2>4 DEF Escalate, Grows, IndInv, TypeOK, StoreTypeOK
  <2>. QED
    BY <1>2, <2>3, <2>4
<1>3. CASE SaveDraft \/ KeepCallsOnly
  <2>1. current \in Tickets /\ KeepPending
    BY <1>3 DEF SaveDraft, KeepCallsOnly, IndInv, LocalsSet, CommitStages
  <2>2. \A t \in Tickets : calls[t] # <<>> => calls'[t] # <<>>
    BY <2>1, CallsGrow
  <2>. QED
    BY <1>3, <2>2 DEF SaveDraft, KeepCallsOnly, Grows, ticketVars
<1>. QED
  BY <1>1, <1>2, <1>3
     DEF ThreadStep, PollTicket, PollNothing, PollFails, WaitOver, LeaveLoop, CallRefused,
         TriageParsed, ReplyParsed, FirstInvalid, SecondInvalid, CallFails, CallRaises,
         RouteTicket, CommitFails

(* An approval meets a triage row; a correction leaves the triage alone. *)
LEMMA ReviewGrows ==
    ASSUME IndInv, NEW r \in Reviewers, CommitApproval(r) \/ CommitCorrection(r)
    PROVE  Grows
PROOF
<1>. DEFINE u == review[r].ticket
<1>1. u \in Tickets
  BY DEF CommitApproval, CommitCorrection, IndInv, RequestsGrounded
<1>2. CASE CommitApproval(r)
  <2>1. triage[u] # None
    BY <1>2 DEF CommitApproval, IndInv, RequestsGrounded
  <2>2. status' = [status EXCEPT ![u] = "approved"]
        /\ UNCHANGED <<triage, correction, calls>>
    BY <1>2 DEF CommitApproval
  <2>. QED
    BY <1>1, <2>1, <2>2 DEF Grows, IndInv, TypeOK, StoreTypeOK
<1>3. CASE CommitCorrection(r)
  <2>1. status' = [status EXCEPT ![u] = "corrected"]
        /\ correction' = [correction EXCEPT ![u] = review[r].labels]
        /\ correction[u] = None
        /\ UNCHANGED <<triage, calls>>
    BY <1>3 DEF CommitCorrection
  <2>. QED
    BY <1>1, <2>1 DEF Grows, IndInv, TypeOK, StoreTypeOK
<1>. QED
  BY <1>2, <1>3

LEMMA NextGrows ==
    ASSUME IndInv, [Next]_vars
    PROVE  Grows
PROOF
<1>1. CASE Ingest
  BY <1>1 DEF Ingest, IngestTicket, Grows, IndInv, TypeOK, StoreTypeOK
<1>2. CASE ReviewerStep
  <2>1. CASE \E r \in Reviewers : CommitApproval(r) \/ CommitCorrection(r)
    BY <2>1, ReviewGrows
  <2>2. CASE UNCHANGED storeVars
    BY <2>2 DEF Grows, storeVars
  <2>. QED
    BY <1>2, <2>1, <2>2
       DEF ReviewerStep, ReviewStart, ReviewFinish, ReadToApprove, ReadToCorrect,
           RouteCorrection, ReviewFails
<1>3. CASE ReplierStep \/ OperatorPutsRules
  <2>1. UNCHANGED <<status, triage, correction, calls>>
    BY <1>3
       DEF ReplierStep, ReplyStart, ReplyFinish, ReadDraft, CommitEdit, CommitTransition,
           ReplyFails, OperatorPutsRules, PutRules, storeVars, ticketVars
  <2>. QED
    BY <2>1 DEF Grows
<1>4. CASE WorkerStep
  BY <1>4, WorkerGrows DEF WorkerStep
<1>5. CASE TimePasses \/ StopRequested \/ ProcessStops \/ ProcessDies \/ ProcessStarts
           \/ UNCHANGED vars
  <2>1. UNCHANGED storeVars
    BY <1>5
       DEF TimePasses, StopRequested, BeginStop, ProcessStops, Shutdown, CloseClient, Exit,
           ProcessDies, Crash, ProcessStarts, Restart, vars
  <2>. QED
    BY <2>1 DEF Grows, storeVars
<1>. QED
  BY <1>1, <1>2, <1>3, <1>4, <1>5 DEF Next

----------------------------------------------------------------------------
(* A decision taken after a call has the row of that call. *)

(* The steps of the thread that commit nothing. *)
LEMMA ThreadKeepsLog ==
    ASSUME IndInv, Logged, ThreadStep, UNCHANGED storeVars
    PROVE  Logged'
PROOF
<1>1. pending \in Seq(CallRows)
  BY DEF IndInv, TypeOK, WorkerTypeOK
<1>2. \A o : Record(o) => pending' # <<>>
  BY <1>1 DEF Record
<1>3. CASE TriageParsed \/ ReplyParsed \/ FirstInvalid \/ SecondInvalid
           \/ \E o \in HttpFailures : Record(o)
  <2>1. pending' # <<>>
    BY <1>2, <1>3 DEF TriageParsed, ReplyParsed, FirstInvalid, SecondInvalid
  <2>. QED
    BY <2>1 DEF Logged, storeVars, ticketVars
<1>4. CASE CallRefused
  BY <1>4 DEF CallRefused, GiveUp, Logged, storeVars, TriageStages
<1>5. CASE RouteTicket
  BY <1>5 DEF RouteTicket, Logged, storeVars
<1>6. CASE PollFails \/ CallRaises \/ CommitFails
  BY <1>6 DEF PollFails, CallRaises, CommitFails, Forget, Logged, storeVars
<1>7. CASE (\E t \in Tickets : PollTicket(t)) \/ PollNothing \/ WaitOver \/ LeaveLoop
  BY <1>7 DEF PollTicket, PollNothing, WaitOver, LeaveLoop, Logged, storeVars
<1>8. CASE SaveTriage \/ Escalate \/ SaveDraft \/ KeepCallsOnly
  BY <1>8 DEF SaveTriage, Escalate, SaveDraft, KeepCallsOnly, Forget, Logged, storeVars
<1>. QED
  BY <1>3, <1>4, <1>5, <1>6, <1>7, <1>8 DEF ThreadStep, CallFails

(* The four commits of the thread. *)
LEMMA CommitKeepsLog ==
    ASSUME IndInv, Logged, SaveTriage \/ Escalate \/ SaveDraft \/ KeepCallsOnly
    PROVE  Logged'
PROOF
<1>1. current \in Tickets /\ KeepPending
  BY DEF SaveTriage, Escalate, SaveDraft, KeepCallsOnly, IndInv, LocalsSet, CommitStages
<1>2. /\ \A t \in Tickets : calls[t] # <<>> => calls'[t] # <<>>
      /\ pending # <<>> => calls'[current] # <<>>
  BY <1>1, CallsGrow
<1>3. CASE SaveTriage
  <2>1. calls'[current] # <<>>
    BY <1>2, <1>3 DEF SaveTriage, Logged
  <2>2. \A t \in Tickets : t # current =>
          triage'[t] = triage[t] /\ triageError'[t] = triageError[t]
    BY <1>1, <1>3 DEF SaveTriage, IndInv, TypeOK, StoreTypeOK
  <2>3. pc' = "reply_draft"
    BY <1>3 DEF SaveTriage
  <2>. QED
    BY <1>2, <2>1, <2>2, <2>3 DEF Logged
<1>4. CASE Escalate
  <2>1. \A t \in Tickets : triage'[t] = triage[t]
    BY <1>4 DEF Escalate
  <2>2. \A t \in Tickets : t # current => triageError'[t] = triageError[t]
    BY <1>1, <1>4 DEF Escalate, IndInv, TypeOK, StoreTypeOK
  <2>3. triageError'[current] = reason
    BY <1>1, <1>4 DEF Escalate, IndInv, TypeOK, StoreTypeOK
  <2>4. reason # "circuit_open" => calls'[current] # <<>>
    BY <1>2, <1>4 DEF Escalate, Logged
  <2>5. pc' = "poll"
    BY <1>4 DEF Escalate, Forget
  <2>. QED
    BY <1>2, <2>1, <2>2, <2>3, <2>4, <2>5 DEF Logged
<1>5. CASE SaveDraft \/ KeepCallsOnly
  <2>1. UNCHANGED <<triage, triageError>> /\ pc' = "poll"
    BY <1>5 DEF SaveDraft, KeepCallsOnly, Forget, ticketVars
  <2>. QED
    BY <1>2, <2>1 DEF Logged
<1>. QED
  BY <1>3, <1>4, <1>5

LEMMA NextKeepsLog ==
    ASSUME IndInv, Logged, [Next]_vars
    PROVE  Logged'
PROOF
<1>1. CASE WorkerStep
  <2>1. CASE UNCHANGED storeVars
    BY <1>1, <2>1, ThreadKeepsLog DEF WorkerStep
  <2>2. CASE SaveTriage \/ Escalate \/ SaveDraft \/ KeepCallsOnly
    BY <2>2, CommitKeepsLog
  <2>. QED
    BY <1>1, <2>1, <2>2
       DEF WorkerStep, ThreadStep, PollTicket, PollNothing, PollFails, WaitOver, LeaveLoop,
           CallRefused, TriageParsed, ReplyParsed, FirstInvalid, SecondInvalid, CallFails,
           CallRaises, RouteTicket, CommitFails
<1>2. CASE Ingest \/ OperatorPutsRules \/ ReplierStep
  <2>1. UNCHANGED <<triage, triageError, calls, pc, reason, pending>>
    BY <1>2
       DEF Ingest, IngestTicket, OperatorPutsRules, PutRules, ReplierStep, ReplyStart,
           ReplyFinish, ReadDraft, CommitEdit, CommitTransition, ReplyFails, storeVars,
           ticketVars, workerVars, threadVars
  <2>. QED
    BY <2>1 DEF Logged
<1>3. CASE ReviewerStep
  <2>1. UNCHANGED <<triage, calls, pc, reason, pending>>
    BY <1>3
       DEF ReviewerStep, ReviewStart, ReviewFinish, ReadToApprove, ReadToCorrect,
           RouteCorrection, ReviewFails, CommitApproval, CommitCorrection, storeVars,
           workerVars, threadVars
  <2>2. \A t \in Tickets : triageError'[t] \in {triageError[t], None}
    BY <1>3
       DEF ReviewerStep, ReviewStart, ReviewFinish, ReadToApprove, ReadToCorrect,
           RouteCorrection, ReviewFails, CommitApproval, CommitCorrection, storeVars,
           IndInv, TypeOK, StoreTypeOK
  <2>3. None \notin {"parse_failed", "provider_error"}
    BY StoreAssumption DEF TriageErrors
  <2>. QED
    BY <2>1, <2>2, <2>3 DEF Logged
<1>4. CASE ProcessStops \/ ProcessDies
  <2>1. UNCHANGED <<triage, triageError, calls>>
    BY <1>4 DEF ProcessStops, Shutdown, CloseClient, Exit, ProcessDies, Crash, storeVars
  <2>2. pc' = "stopped" \/ UNCHANGED <<pc, reason, pending>>
    BY <1>4
       DEF ProcessStops, Shutdown, CloseClient, Exit, ProcessDies, Crash, LoseMemory, Forget,
           threadVars
  <2>. QED
    BY <2>1, <2>2 DEF Logged
<1>5. CASE TimePasses \/ StopRequested \/ ProcessStarts \/ UNCHANGED vars
  <2>1. UNCHANGED <<triage, triageError, calls, reason, pending>>
    BY <1>5
       DEF TimePasses, StopRequested, BeginStop, ProcessStarts, Restart, vars, storeVars,
           workerVars, threadVars
  <2>2. pc' = pc \/ pc' = "poll"
    BY <1>5
       DEF TimePasses, StopRequested, BeginStop, ProcessStarts, Restart, vars, workerVars,
           threadVars
  <2>. QED
    BY <2>1, <2>2 DEF Logged
<1>. QED
  BY <1>1, <1>2, <1>3, <1>4, <1>5 DEF Next

----------------------------------------------------------------------------
(* The requests. *)

(* What is said of the clients' slots, without the tables. *)
ClientsSound ==
    /\ IntakeTypeOK
    /\ \A c \in Clients : KnowsItsTicket(intake[c]) /\ DetailProgress(intake[c])
    /\ \A t \in made : status[t] # "absent"
    /\ CreatedOnce

(* What a request knows stays true while the tables grow. *)
LEMMA KnowledgeLasts ==
    ASSUME Grows, NEW q \in Requests, KnowsItsTicket(q), DetailProgress(q)
    PROVE  KnowsItsTicket(q)' /\ DetailProgress(q)'
PROOF
<1>1. CASE q.at = "none"
  <2>1. q.code = 0 /\ q.status = "absent" /\ q.error = None /\ q.seen = {}
    BY <1>1 DEF KnowsItsTicket, DetailProgress
  <2>2. None \notin {"parse_failed", "provider_error"}
    BY StoreAssumption DEF TriageErrors
  <2>. QED
    BY <1>1, <2>1, <2>2 DEF KnowsItsTicket, DetailProgress
<1>2. CASE q.at # "none"
  <2>1. q.ticket \in Tickets
    BY <1>2 DEF KnowsItsTicket
  <2>2. KnowsItsTicket(q)'
    BY <2>1 DEF KnowsItsTicket, Grows
  <2>. QED
    BY <2>2 DEF DetailProgress
<1>. QED
  BY <1>1, <1>2

(* Steps that leave the slots alone, or empty them all. *)
LEMMA OthersKeepClients ==
    ASSUME ClientsSound, Grows, made' = made,
           intake' = intake \/ intake' = [c \in Clients |-> NoRequest]
    PROVE  ClientsSound'
PROOF
<1>1. \A t \in made : status'[t] # "absent"
  BY DEF ClientsSound, IntakeTypeOK, Grows
<1>2. CASE intake' = intake
  <2>1. IntakeTypeOK' /\ CreatedOnce'
    BY <1>2 DEF ClientsSound, IntakeTypeOK, CreatedOnce
  <2>2. ASSUME NEW c \in Clients
        PROVE  (KnowsItsTicket(intake[c]) /\ DetailProgress(intake[c]))'
    <3>. DEFINE q == intake[c]
    <3>1. q \in Requests /\ KnowsItsTicket(q) /\ DetailProgress(q) /\ q' = q
      BY <1>2 DEF ClientsSound, IntakeTypeOK
    <3>. QED
      BY <1>2, <3>1, KnowledgeLasts DEF KnowsItsTicket, DetailProgress
  <2>. QED
    BY <1>1, <2>1, <2>2 DEF ClientsSound
<1>3. CASE intake' = [c \in Clients |-> NoRequest]
  <2>1. None \notin {"parse_failed", "provider_error"}
    BY StoreAssumption DEF TriageErrors
  <2>2. NoRequest \in Requests
    BY DEF NoRequest, Unread, Requests, Parts
  <2>3. IntakeTypeOK'
    BY <1>3, <2>2 DEF ClientsSound, IntakeTypeOK
  <2>4. \A c \in Clients : (KnowsItsTicket(intake[c]) /\ DetailProgress(intake[c]))'
    BY <1>3, <2>1 DEF NoRequest, Unread, KnowsItsTicket, DetailProgress
  <2>5. CreatedOnce'
    BY <1>3 DEF NoRequest, Unread, CreatedOnce
  <2>. QED
    BY <1>1, <2>3, <2>4, <2>5 DEF ClientsSound
<1>. QED
  BY <1>2, <1>3

(* A client's step that writes nothing and answers 201 to nobody new: it is enough to
   look at the slot that moves. *)
LEMMA ReadKeepsClients ==
    ASSUME ClientsSound, UNCHANGED <<storeVars, made>>, NEW c \in Clients,
           NEW new \in Requests, intake' = [intake EXCEPT ![c] = new],
           KnowsItsTicket(new), DetailProgress(new),
           new.code = 201 => intake[c].code = 201 /\ new.ticket = intake[c].ticket
    PROVE  ClientsSound'
PROOF
<1>1. IntakeTypeOK'
  BY DEF ClientsSound, IntakeTypeOK
<1>2. \A d \in Clients : intake'[d] = IF d = c THEN new ELSE intake[d]
  BY DEF ClientsSound, IntakeTypeOK
<1>3. \A d \in Clients : (KnowsItsTicket(intake[d]) /\ DetailProgress(intake[d]))'
  BY <1>2 DEF ClientsSound, KnowsItsTicket, DetailProgress, storeVars
<1>4. CreatedOnce'
  BY <1>2 DEF ClientsSound, CreatedOnce
<1>. QED
  BY <1>1, <1>3, <1>4 DEF ClientsSound, storeVars

(* The committed row of a ticket that exists, as a request has just read it. *)
JustRead(t, k) ==
    [at |-> "read", ticket |-> t, code |-> k, status |-> status[t],
     error |-> triageError[t], left |-> DetailReads(status[t]), seen |-> {}]

LEMMA RowReadSound ==
    ASSUME IndInv, Logged, NEW t \in Tickets, status[t] # "absent", NEW k \in {200, 201}
    PROVE  /\ JustRead(t, k) \in Requests
           /\ KnowsItsTicket(JustRead(t, k))
           /\ DetailProgress(JustRead(t, k))
PROOF
<1>. DEFINE new == JustRead(t, k)
<1>. USE DEF JustRead
<1>1. DetailReads(status[t]) \in Seq(Parts)
  <2>1. <<"correction", "triage", "metrics">> \in Seq(Parts)
        /\ <<"triage", "metrics">> \in Seq(Parts)
    BY DEF Parts
  <2>. QED
    BY <2>1, Zenon DEF DetailReads
<1>2. status[t] \in Statuses \cup {"absent"} /\ triageError[t] \in TriageErrors \cup {None}
  BY DEF IndInv, TypeOK, StoreTypeOK
<1>3. new \in Requests
  BY <1>1, <1>2 DEF Requests
<1>4. KnowsItsTicket(new)
  BY DEF KnowsItsTicket, IndInv, VerdictExplainsStatus, Logged
<1>5. DetailProgress(new)
  <2>1. status[t] = "corrected" => new.left = <<"correction", "triage", "metrics">>
    BY DEF DetailReads
  <2>2. status[t] # "corrected" => new.left = <<"triage", "metrics">>
    BY DEF DetailReads
  <2>3. Len(new.left) >= 2 /\ (Len(new.left) < 3 => status[t] # "corrected")
    BY <2>1, <2>2
  <2>. QED
    BY <2>1, <2>2, <2>3 DEF DetailProgress
<1>. QED
  BY <1>3, <1>4, <1>5

(* The first SELECT, the one after a conflict, and db.refresh. *)
LEMMA RowKeepsClients ==
    ASSUME IndInv, Logged, ClientsSound, NEW c \in Clients,
           \/ \E t \in Tickets : FindTicket(c, t) \/ FindNothing(c, t)
           \/ Reselect(c)
           \/ Refresh(c)
    PROVE  ClientsSound'
PROOF
<1>. DEFINE Row(t, k) == JustRead(t, k)
<1>1. UNCHANGED <<storeVars, made>>
  BY DEF FindTicket, FindNothing, Reselect, Refresh
<1>2. ASSUME NEW t \in Tickets, NEW k \in {200, 201}, status[t] # "absent", RowRead(c, t, k),
             k = 201 => intake[c].code = 201 /\ intake[c].ticket = t
      PROVE  ClientsSound'
  <2>1. Row(t, k) \in Requests /\ KnowsItsTicket(Row(t, k)) /\ DetailProgress(Row(t, k))
    BY <1>2, RowReadSound
  <2>2. intake' = [intake EXCEPT ![c] = Row(t, k)]
    BY <1>2 DEF RowRead, JustRead
  <2>3. Row(t, k).code = 201 => intake[c].code = 201 /\ Row(t, k).ticket = intake[c].ticket
    BY <1>2 DEF JustRead
  <2>. HIDE DEF Row
  <2>. QED
    BY <1>1, <2>1, <2>2, <2>3, ReadKeepsClients
<1>3. CASE \E t \in Tickets : FindTicket(c, t)
  BY <1>2, <1>3 DEF FindTicket
<1>4. CASE \E t \in Tickets : FindNothing(c, t)
  <2>1. PICK t \in Tickets : FindNothing(c, t)
    BY <1>4
  <2>. DEFINE new == Unread("insert", t, 0)
  <2>2. None \notin {"parse_failed", "provider_error"}
    BY StoreAssumption DEF TriageErrors
  <2>3. new \in Requests /\ (new.code = 201 =>
          intake[c].code = 201 /\ new.ticket = intake[c].ticket)
    BY DEF Unread, Requests, Parts
  <2>4. KnowsItsTicket(new) /\ DetailProgress(new)
    BY <2>2 DEF Unread, KnowsItsTicket, DetailProgress
  <2>5. intake' = [intake EXCEPT ![c] = new]
    BY <2>1 DEF FindNothing
  <2>. HIDE DEF new
  <2>. QED
    BY <1>1, <2>3, <2>4, <2>5, ReadKeepsClients
<1>5. CASE Reselect(c) \/ Refresh(c)
  <2>. DEFINE t == intake[c].ticket
  <2>1. t \in Tickets /\ status[t] # "absent"
    BY <1>5 DEF Reselect, Refresh, ClientsSound, KnowsItsTicket
  <2>2. CASE Reselect(c)
    BY <1>2, <2>1, <2>2 DEF Reselect
  <2>3. CASE Refresh(c)
    <3>1. intake[c].code = 201
      BY <2>3 DEF Refresh, ClientsSound, DetailProgress
    <3>2. RowRead(c, t, 201)
      BY <2>3, <3>1 DEF Refresh
    <3>. QED
      BY <1>2, <2>1, <3>1, <3>2
  <2>. QED
    BY <1>5, <2>2, <2>3
<1>. QED
  BY <1>3, <1>4, <1>5

(* A lost race, and a lock that is not given back in time. *)
LEMMA InsertLosesKeepsClients ==
    ASSUME ClientsSound, NEW c \in Clients, InsertConflicts(c) \/ InsertTimesOut(c)
    PROVE  ClientsSound'
PROOF
<1>. DEFINE t == intake[c].ticket
<1>1. UNCHANGED <<storeVars, made>> /\ intake[c].at = "insert"
  BY DEF InsertConflicts, InsertTimesOut
<1>2. t \in Tickets
  BY <1>1 DEF ClientsSound, KnowsItsTicket
<1>3. None \notin {"parse_failed", "provider_error"}
  BY StoreAssumption DEF TriageErrors
<1>4. PICK new \in {Unread("reselect", t, 0), Unread("answer", t, 500)} :
        /\ intake' = [intake EXCEPT ![c] = new]
        /\ new = Unread("reselect", t, 0) => status[t] # "absent"
  <2>1. Unread("reselect", t, 0) # Unread("answer", t, 500)
    BY DEF Unread
  <2>. QED
    BY <2>1 DEF InsertConflicts, InsertTimesOut
<1>5. new \in Requests /\ new.code # 201
  <2>1. Unread("reselect", t, 0) \in Requests /\ Unread("reselect", t, 0).code # 201
    BY <1>2 DEF Unread, Requests, Parts
  <2>2. Unread("answer", t, 500) \in Requests /\ Unread("answer", t, 500).code # 201
    BY <1>2 DEF Unread, Requests, Parts
  <2>. QED
    BY <2>1, <2>2
<1>6. KnowsItsTicket(new) /\ DetailProgress(new)
  BY <1>2, <1>3, <1>4 DEF Unread, KnowsItsTicket, DetailProgress
<1>. QED
  BY <1>1, <1>4, <1>5, <1>6, ReadKeepsClients

(* One SELECT of ticket_detail finds what the row read before it calls for. *)
LEMMA PartKeepsClients ==
    ASSUME Logged, ClientsSound, NEW c \in Clients, ReadPart(c)
    PROVE  ClientsSound'
PROOF
<1>. DEFINE q == intake[c]
            Seen(at, rest, found) ==
              [at |-> at, ticket |-> q.ticket, code |-> q.code, status |-> q.status,
               error |-> q.error, left |-> rest, seen |-> found]
<1>1. UNCHANGED <<storeVars, made>> /\ q.at = "read"
  BY DEF ReadPart
<1>2. q \in Requests /\ KnowsItsTicket(q) /\ DetailProgress(q)
  BY DEF ClientsSound, IntakeTypeOK
<1>3. q.ticket \in Tickets /\ q.code # 500
  BY <1>1, <1>2 DEF KnowsItsTicket, DetailProgress
<1>4. q.seen \in SUBSET Parts /\ q.code \in {0, 200, 201, 500}
  BY <1>2 DEF Requests
<1>5. ASSUME NEW at \in {"read", "answer"}, NEW rest \in Seq(Parts), NEW found \in SUBSET Parts
      PROVE  Seen(at, rest, found) \in Requests
  BY <1>2, <1>5 DEF Requests
<1>6. ASSUME NEW at \in {"read", "answer"}, NEW rest \in Seq(Parts), NEW found \in SUBSET Parts,
             intake' = [intake EXCEPT ![c] = Seen(at, rest, found)],
             KnowsItsTicket(Seen(at, rest, found)), DetailProgress(Seen(at, rest, found))
      PROVE  ClientsSound'
  <2>1. Seen(at, rest, found) \in Requests
    BY <1>5
  <2>2. Seen(at, rest, found).code = 201 =>
          intake[c].code = 201 /\ Seen(at, rest, found).ticket = intake[c].ticket
    OBVIOUS
  <2>. HIDE DEF Seen
  <2>. QED
    BY <1>1, <1>6, <2>1, <2>2, ReadKeepsClients
<1>7. ASSUME NEW at \in {"read", "answer"}, NEW rest, NEW found,
             "triage" \in found /\ "triage" \notin q.seen => triage[q.ticket] # None
      PROVE  KnowsItsTicket(Seen(at, rest, found))
  BY <1>1, <1>2, <1>3, <1>4, <1>7 DEF KnowsItsTicket
<1>12. intake' = [intake EXCEPT ![c] =
          Seen(IF Tail(q.left) = <<>> THEN "answer" ELSE "read", Tail(q.left),
               IF Exists(Head(q.left), q.ticket) THEN q.seen \cup {Head(q.left)}
               ELSE q.seen)]
  BY Zenon DEF ReadPart
<1>8. CASE q.left = <<"correction", "triage", "metrics">>
  <2>. DEFINE found == IF Exists("correction", q.ticket) THEN q.seen \cup {"correction"}
                       ELSE q.seen
  <2>1. Head(q.left) = "correction" /\ Tail(q.left) = <<"triage", "metrics">>
        /\ Tail(q.left) # <<>>
    BY <1>8
  <2>2. intake' = [intake EXCEPT ![c] = Seen("read", <<"triage", "metrics">>, found)]
    <3>1. (IF Tail(q.left) = <<>> THEN "answer" ELSE "read") = "read"
      BY <2>1
    <3>2. (IF Exists(Head(q.left), q.ticket) THEN q.seen \cup {Head(q.left)}
           ELSE q.seen) = found
      BY <2>1
    <3>. HIDE DEF Seen, found
    <3>. QED
      BY <1>12, <2>1, <3>1, <3>2
  <2>3. <<"triage", "metrics">> \in Seq(Parts) /\ found \in SUBSET Parts
    BY <1>4 DEF Parts
  <2>4. q.seen = {}
    BY <1>1, <1>2, <1>8 DEF DetailProgress
  <2>5. KnowsItsTicket(Seen("read", <<"triage", "metrics">>, found))
    <3>1. "triage" \in found /\ "triage" \notin q.seen => triage[q.ticket] # None
      BY <2>4
    <3>. HIDE DEF Seen, found
    <3>. QED
      BY <1>7, <3>1
  <2>6. q.status = "corrected" => "correction" \in found
    BY <1>2 DEF Exists, KnowsItsTicket
  <2>7. DetailProgress(Seen("read", <<"triage", "metrics">>, found))
    BY <1>3, <2>4, <2>6 DEF DetailProgress
  <2>. QED
    BY <1>6, <2>2, <2>3, <2>5, <2>7
<1>9. CASE q.left = <<"triage", "metrics">>
  <2>. DEFINE found == IF Exists("triage", q.ticket) THEN q.seen \cup {"triage"}
                       ELSE q.seen
  <2>1. Head(q.left) = "triage" /\ Tail(q.left) = <<"metrics">>
        /\ Tail(q.left) # <<>>
    BY <1>9
  <2>2. intake' = [intake EXCEPT ![c] = Seen("read", <<"metrics">>, found)]
    <3>1. (IF Tail(q.left) = <<>> THEN "answer" ELSE "read") = "read"
      BY <2>1
    <3>2. (IF Exists(Head(q.left), q.ticket) THEN q.seen \cup {Head(q.left)}
           ELSE q.seen) = found
      BY <2>1
    <3>. HIDE DEF Seen, found
    <3>. QED
      BY <1>12, <2>1, <3>1, <3>2
  <2>3. <<"metrics">> \in Seq(Parts) /\ found \in SUBSET Parts
    BY <1>4 DEF Parts
  <2>4. /\ "triage" \notin q.seen
        /\ q.status = "corrected" => "correction" \in q.seen
    BY <1>1, <1>2, <1>9 DEF DetailProgress
  <2>5. "triage" \in found <=> triage[q.ticket] # None
    BY <2>4 DEF Exists
  <2>6. KnowsItsTicket(Seen("read", <<"metrics">>, found))
    <3>1. "triage" \in found /\ "triage" \notin q.seen => triage[q.ticket] # None
      BY <2>5
    <3>. HIDE DEF Seen, found
    <3>. QED
      BY <1>7, <3>1
  <2>7. /\ q.status \in {"triaged", "approved"} => "triage" \in found
        /\ q.status = "needs_human" => "triage" \notin found
        /\ q.status = "corrected" => "correction" \in found
    BY <1>2, <2>4, <2>5 DEF KnowsItsTicket
  <2>8. DetailProgress(Seen("read", <<"metrics">>, found))
    BY <1>3, <2>7 DEF DetailProgress
  <2>. QED
    BY <1>6, <2>2, <2>3, <2>6, <2>8
<1>10. CASE q.left = <<"metrics">>
  <2>. DEFINE found == IF Exists("metrics", q.ticket) THEN q.seen \cup {"metrics"}
                       ELSE q.seen
  <2>1. Head(q.left) = "metrics" /\ Tail(q.left) = <<>>
    BY <1>10
  <2>2. intake' = [intake EXCEPT ![c] = Seen("answer", <<>>, found)]
    <3>1. (IF Tail(q.left) = <<>> THEN "answer" ELSE "read") = "answer"
      BY <2>1
    <3>2. (IF Exists(Head(q.left), q.ticket) THEN q.seen \cup {Head(q.left)}
           ELSE q.seen) = found
      BY <2>1
    <3>. HIDE DEF Seen, found
    <3>. QED
      BY <1>12, <2>1, <3>1, <3>2
  <2>3. <<>> \in Seq(Parts) /\ found \in SUBSET Parts
    BY <1>4 DEF Parts
  <2>4. /\ q.status = "corrected" => "correction" \in q.seen
        /\ q.status \in {"triaged", "approved"} => "triage" \in q.seen
        /\ q.status = "needs_human" => "triage" \notin q.seen
    BY <1>1, <1>2, <1>10 DEF DetailProgress
  <2>5. KnowsItsTicket(Seen("answer", <<>>, found))
    <3>1. "triage" \in found /\ "triage" \notin q.seen => triage[q.ticket] # None
      OBVIOUS
    <3>. HIDE DEF Seen, found
    <3>. QED
      BY <1>7, <3>1
  <2>6. "metrics" \in found <=> (calls[q.ticket] # <<>> \/ "metrics" \in q.seen)
    BY DEF Exists
  <2>7. /\ "triage" \in found => calls[q.ticket] # <<>>
        /\ q.error \in {"parse_failed", "provider_error"} => calls[q.ticket] # <<>>
    BY <1>2, <1>3 DEF KnowsItsTicket, Logged
  <2>8. DetailProgress(Seen("answer", <<>>, found))
    BY <1>3, <2>4, <2>6, <2>7 DEF DetailProgress
  <2>. QED
    BY <1>6, <2>2, <2>3, <2>5, <2>8
<1>11. \/ q.left = <<"correction", "triage", "metrics">>
       \/ q.left = <<"triage", "metrics">>
       \/ q.left = <<"metrics">>
  BY <1>1, <1>2 DEF DetailProgress
<1>. QED
  BY <1>8, <1>9, <1>10, <1>11

(* An insert finds no row, so nobody else has been answered 201 for it. *)
LEMMA InsertKeepsClients ==
    ASSUME StoreTypeOK, ClientsSound, Grows, NEW c \in Clients, InsertTicket(c)
    PROVE  ClientsSound'
PROOF
<1>2. PICK t \in Tickets : t = intake[c].ticket
  BY DEF InsertTicket, ClientsSound, KnowsItsTicket
<1>. DEFINE new == Unread("refresh", t, 201)
<1>1. /\ intake[c].at = "insert" /\ status[t] = "absent" /\ status'[t] # "absent"
      /\ intake' = [intake EXCEPT ![c] = new] /\ made' = made
  <2>1. status[t] = "absent" /\ status' = [status EXCEPT ![t] = "received"]
    BY <1>2 DEF InsertTicket, IngestTicket
  <2>2. status'[t] # "absent"
    BY <2>1 DEF StoreTypeOK
  <2>3. intake[c].at = "insert" /\ intake' = [intake EXCEPT ![c] = new] /\ made' = made
    BY <1>2 DEF InsertTicket
  <2>. QED
    BY <2>1, <2>2, <2>3
<1>3. new \in Requests /\ new.ticket = t
  BY <1>2 DEF Unread, Requests, Parts
<1>4. None \notin {"parse_failed", "provider_error"}
  BY StoreAssumption DEF TriageErrors
<1>5. (KnowsItsTicket(new) /\ DetailProgress(new))'
  BY <1>1, <1>2, <1>4 DEF Unread, KnowsItsTicket, DetailProgress
<1>6. \A d \in Clients : intake'[d] = IF d = c THEN new ELSE intake[d]
  BY <1>1 DEF ClientsSound, IntakeTypeOK
<1>7. IntakeTypeOK'
  BY <1>1, <1>3 DEF ClientsSound, IntakeTypeOK
<1>8. ASSUME NEW d \in Clients
      PROVE  (KnowsItsTicket(intake[d]) /\ DetailProgress(intake[d]))'
  <2>1. CASE d = c
    BY <1>5, <1>6, <2>1 DEF KnowsItsTicket, DetailProgress
  <2>2. CASE d # c
    <3>. DEFINE q == intake[d]
    <3>1. q \in Requests /\ KnowsItsTicket(q) /\ DetailProgress(q) /\ q' = q
      BY <1>6, <2>2 DEF ClientsSound, IntakeTypeOK
    <3>. QED
      BY <3>1, KnowledgeLasts DEF KnowsItsTicket, DetailProgress
  <2>. QED
    BY <2>1, <2>2
<1>9. \A u \in made' : status'[u] # "absent"
  BY <1>1 DEF ClientsSound, IntakeTypeOK, Grows
<1>10. CreatedOnce'
  <2>1. t \notin made
    BY <1>1 DEF ClientsSound
  <2>2. \A d \in Clients : intake[d].code = 201 => intake[d].ticket # t
    BY <1>1 DEF ClientsSound, KnowsItsTicket
  <2>. HIDE DEF new
  <2>. QED
    BY <1>1, <1>3, <1>6, <2>1, <2>2 DEF ClientsSound, CreatedOnce
<1>. QED
  BY <1>7, <1>8, <1>9, <1>10 DEF ClientsSound

(* An answer remembers a creation that no other slot has in hand. *)
LEMMA AnswerKeepsClients ==
    ASSUME ClientsSound, NEW c \in Clients, Answer(c)
    PROVE  ClientsSound'
PROOF
<1>. DEFINE t == intake[c].ticket
<1>1. /\ intake[c].at = "answer" /\ UNCHANGED storeVars
      /\ intake' = [intake EXCEPT ![c] = NoRequest]
      /\ made' = IF intake[c].code = 201 THEN made \cup {t} ELSE made
  BY DEF Answer
<1>2. t \in Tickets /\ (intake[c].code = 201 => status[t] # "absent")
  BY <1>1 DEF ClientsSound, KnowsItsTicket
<1>3. NoRequest \in Requests /\ NoRequest.code # 201
  BY DEF NoRequest, Unread, Requests, Parts
<1>4. None \notin {"parse_failed", "provider_error"}
  BY StoreAssumption DEF TriageErrors
<1>5. (KnowsItsTicket(NoRequest) /\ DetailProgress(NoRequest))
  BY <1>4 DEF NoRequest, Unread, KnowsItsTicket, DetailProgress
<1>6. \A d \in Clients : intake'[d] = IF d = c THEN NoRequest ELSE intake[d]
  BY <1>1 DEF ClientsSound, IntakeTypeOK
<1>7. IntakeTypeOK'
  BY <1>1, <1>2, <1>3 DEF ClientsSound, IntakeTypeOK
<1>8. ASSUME NEW d \in Clients
      PROVE  (KnowsItsTicket(intake[d]) /\ DetailProgress(intake[d]))'
  <2>1. KnowsItsTicket(intake'[d]) /\ DetailProgress(intake'[d])
    BY <1>5, <1>6 DEF ClientsSound
  <2>. QED
    BY <1>1, <2>1 DEF KnowsItsTicket, DetailProgress, storeVars
<1>9. \A u \in made' : status'[u] # "absent"
  BY <1>1, <1>2 DEF ClientsSound, storeVars
<1>10. CreatedOnce'
  <2>1. \A d \in Clients : intake'[d].code = 201 =>
          d # c /\ intake'[d] = intake[d] /\ intake[d].ticket \notin made
          /\ (intake[c].code = 201 => intake[d].ticket # t)
    BY <1>3, <1>6 DEF ClientsSound, CreatedOnce
  <2>2. \A d, e \in Clients : intake'[d].code = 201 /\ intake'[e].code = 201 =>
          d = e \/ intake'[d].ticket # intake'[e].ticket
    BY <2>1 DEF ClientsSound, CreatedOnce
  <2>. QED
    BY <1>1, <2>1, <2>2 DEF CreatedOnce
<1>. QED
  BY <1>7, <1>8, <1>9, <1>10 DEF ClientsSound

LEMMA ClientStepKeepsClients ==
    ASSUME IndInv, Logged, ClientsSound, Grows, ClientStep
    PROVE  ClientsSound'
PROOF
<1>1. PICK c \in Clients :
        \/ \E t \in Tickets : FindTicket(c, t) \/ FindNothing(c, t)
        \/ InsertTicket(c)
        \/ InsertConflicts(c)
        \/ InsertTimesOut(c)
        \/ Reselect(c)
        \/ Refresh(c)
        \/ ReadPart(c)
        \/ Answer(c)
  BY DEF ClientStep
<1>2. StoreTypeOK
  BY DEF IndInv, TypeOK
<1>. QED
  BY <1>1, <1>2, RowKeepsClients, InsertKeepsClients, InsertLosesKeepsClients, PartKeepsClients,
     AnswerKeepsClients

----------------------------------------------------------------------------
(* The theorems. *)

LEMMA ApiInvariantInit ==
    ASSUME ApiInit
    PROVE  IndInv /\ ApiInv
PROOF
<1>1. IndInv
  BY InitEstablishes DEF ApiInit
<1>2. None \notin {"parse_failed", "provider_error"}
  BY StoreAssumption DEF TriageErrors
<1>3. Logged
  BY <1>2 DEF ApiInit, Init, StoreInit, WorkerInit, Logged
<1>4. NoRequest \in Requests
  BY DEF NoRequest, Unread, Requests, Parts
<1>5. ApiTypeOK
  BY <1>4 DEF ApiInit, IntakeInit, ApiTypeOK, IntakeTypeOK
<1>6. KnowsItsTicket(NoRequest) /\ DetailProgress(NoRequest)
  BY <1>2 DEF NoRequest, Unread, KnowsItsTicket, DetailProgress
<1>7. NoRequest.code # 201
  BY DEF NoRequest, Unread
<1>. QED
  BY <1>1, <1>3, <1>5, <1>6, <1>7 DEF ApiInit, IntakeInit, ApiInv, CreatedOnce

LEMMA ApiInvariantStep ==
    ASSUME IndInv, ApiInv, [ApiNext]_apiVars
    PROVE  IndInv' /\ ApiInv'
PROOF
<1>1. [Next]_vars
  BY ApiStepIsStep
<1>2. IndInv'
  BY <1>1, NextKeeps
<1>3. Grows /\ Logged'
  BY <1>1, NextGrows, NextKeepsLog DEF ApiInv
<1>4. backend' = backend
  BY DEF ApiNext, apiVars
<1>5. ClientsSound
  BY DEF ApiInv, ApiTypeOK, ClientsSound
<1>6. ClientsSound'
  <2>1. CASE ClientStep
    BY <1>3, <1>5, <2>1, ClientStepKeepsClients DEF ApiInv
  <2>2. CASE ~ ClientStep
    <3>1. made' = made /\ (intake' = intake \/ intake' = [c \in Clients |-> NoRequest])
      BY <2>2
         DEF ApiNext, apiVars, ReaderStep, OtherRequest, ApiStops, ApiDies, Background,
             intakeVars
    <3>. QED
      BY <1>3, <1>5, <3>1, OthersKeepClients
  <2>. QED
    BY <2>1, <2>2
<1>. QED
  BY <1>2, <1>3, <1>4, <1>6 DEF ApiInv, ApiTypeOK, ClientsSound

(* The invariant of the service and that of its requests hold of every reachable state,
   on SQLite and on a database with row locks alike. *)
THEOREM ApiInvariance == ApiSpec => [](IndInv /\ ApiInv)
PROOF
<1>1. IndInv /\ ApiInv /\ [ApiNext]_apiVars => (IndInv /\ ApiInv)'
  BY ApiInvariantStep
<1>. QED
  BY <1>1, ApiInvariantInit, PTL DEF ApiSpec

(* Ingestion by find, insert, conflict and reselect is the atomic ingestion of
   TicketTriage, whatever the other requests do. *)
THEOREM ServiceKept == ApiSpec => KeepsService
PROOF
<1>1. ApiInit => Init
  BY DEF ApiInit
<1>2. IndInv /\ ApiInv /\ [ApiNext]_apiVars => [Next]_vars
  BY ApiStepIsStep
<1>. QED
  BY <1>1, <1>2, ApiInvariance, PTL DEF ApiSpec, Spec, KeepsService

(* One request at most creates a ticket. *)
THEOREM OneCreation == ApiSpec => []CreatedOnce
PROOF
<1>1. ApiInv => CreatedOnce
  BY DEF ApiInv
<1>. QED
  BY <1>1, ApiInvariance, PTL

(* A request that lost the race on external_id finds the winner's ticket. *)
THEOREM ReplaysFindTickets == ApiSpec => []ReplayFindsItsTicket
PROOF
<1>1. ApiInv => ReplayFindsItsTicket
  BY DEF ApiInv, KnowsItsTicket, ReplayFindsItsTicket
<1>. QED
  BY <1>1, ApiInvariance, PTL

(* A ticket answer holds what its status promises. *)
THEOREM DetailsBacked == ApiSpec => []DetailIsBacked
PROOF
<1>1. ApiInv => DetailIsBacked
  BY DEF ApiInv, DetailProgress, DetailIsBacked
<1>. QED
  BY <1>1, ApiInvariance, PTL

----------------------------------------------------------------------------
(* The tables that the reports read. *)

(* A decided ticket stays decided, and the rows of a ticket change with its status
   only. *)
LEMMA RowsMoveWithStatus ==
    ASSUME IndInv, [Next]_vars, NEW t \in Tickets
    PROVE  /\ status[t] \notin {"absent", "received"} => status'[t] \notin {"absent", "received"}
           /\ status'[t] = status[t] => triage'[t] = triage[t] /\ correction'[t] = correction[t]
PROOF
<1>1. CASE UNCHANGED <<status, triage, correction, queue>>
  BY <1>1
<1>2. CASE \E u \in Tickets : IngestTicket(u)
  BY <1>2 DEF IngestTicket, IndInv, TypeOK, StoreTypeOK
<1>3. CASE SaveTriage \/ Escalate
  <2>1. status[current] = "received"
    BY <1>3 DEF SaveTriage, Escalate, IndInv, WorkerOwnsItsTicket, Deciding
  <2>. QED
    BY <1>3, <2>1 DEF SaveTriage, Escalate, IndInv, TypeOK, StoreTypeOK
<1>4. CASE \E r \in Reviewers : CommitApproval(r) \/ CommitCorrection(r)
  <2>1. PICK r \in Reviewers : CommitApproval(r) \/ CommitCorrection(r)
    BY <1>4
  <2>2. CASE CommitApproval(r)
    BY <2>2 DEF CommitApproval, IndInv, TypeOK, StoreTypeOK
  <2>3. CASE CommitCorrection(r)
    <3>1. status[review[r].ticket] # "corrected" \/ review[r].ticket \notin Tickets
      BY <2>3 DEF CommitCorrection, IndInv, VerdictExplainsStatus
    <3>. QED
      BY <2>3, <3>1 DEF CommitCorrection, IndInv, TypeOK, StoreTypeOK
  <2>. QED
    BY <2>1, <2>2, <2>3
<1>. QED
  BY <1>1, <1>2, <1>3, <1>4, StepsOfTickets

(* Every decided ticket lies in a queue, and no other. *)
LEMMA DecidedAreQueued ==
    ASSUME IndInv, QueueFollowsLabel
    PROVE  DecidedTickets = { t \in Tickets : queue[t] # None }
PROOF
<1>1. ASSUME NEW t \in Tickets
      PROVE  status[t] \notin {"absent", "received"} <=> queue[t] # None
  <2>1. StoreTypeOK /\ VerdictExplainsStatus
    BY DEF IndInv, TypeOK
  <2>2. CASE status[t] \in {"absent", "received"}
    BY <2>1, <2>2 DEF VerdictExplainsStatus
  <2>3. CASE status[t] = "needs_human"
    BY <2>1, <2>3, RoutingAssumption DEF VerdictExplainsStatus
  <2>4. CASE status[t] \in {"triaged", "approved", "corrected"}
    <3>1. correction[t] # None \/ triage[t] # None
      BY <2>1, <2>4 DEF VerdictExplainsStatus
    <3>2. \E table \in RuleTables, l \in Labels : queue[t] = ResolveQueue(table, l)
      BY <2>1, <3>1 DEF QueueFollowsLabel, StoreTypeOK, TriageRows
    <3>3. queue[t] \in Queues
      BY <3>2, RoutingIsTotal, StoreAssumption
    <3>. QED
      BY <2>4, <3>3, RoutingAssumption
  <2>. QED
    BY <2>1, <2>2, <2>3, <2>4 DEF StoreTypeOK, Statuses
<1>. QED
  BY <1>1 DEF DecidedTickets

(* A log that a parsed answer ends has its ok row. *)
LEMMA ParsedLogHasOk ==
    ASSUME NEW n \in Attempts, NEW tail \in Seq(CallRows), NEW log,
           log = ParsedLog("classify", "repair", n) \o tail
    PROVE  \E i \in DOMAIN log : log[i].outcome = "ok"
PROOF
<1>. DEFINE head == ParsedLog("classify", "repair", n)
<1>1. head \in Seq(CallRows)
  BY ParsedTyped DEF Purposes
<1>2. n = 1 \/ n = 2
  BY DEF Attempts
<1>3. \E i \in 1 .. Len(head) : head[i].outcome = "ok"
  <2>1. CASE n = 1
    <3>1. head = <<[purpose |-> "classify", outcome |-> "ok"]>>
      BY <2>1 DEF ParsedLog
    <3>2. Len(head) = 1 /\ head[1].outcome = "ok"
      BY <3>1
    <3>. HIDE DEF head
    <3>. QED
      BY <3>2
  <2>2. CASE n = 2
    <3>1. head = <<[purpose |-> "classify", outcome |-> "parse_error"],
                   [purpose |-> "repair", outcome |-> "ok"]>>
      BY <2>2 DEF ParsedLog
    <3>2. Len(head) = 2 /\ head[2].outcome = "ok"
      BY <3>1
    <3>. HIDE DEF head
    <3>. QED
      BY <3>2
  <2>. QED
    BY <1>2, <2>1, <2>2
<1>. HIDE DEF head
<1>4. log = head \o tail
  BY DEF head
<1>5. log \in Seq(CallRows) /\ Len(log) = Len(head) + Len(tail)
      /\ \A i \in 1 .. Len(head) : log[i] = head[i]
  <2>1. Len(head) \in Nat /\ Len(tail) \in Nat
    BY <1>1
  <2>2. \A i \in 1 .. Len(head) + Len(tail) :
          log[i] = IF i <= Len(head) THEN head[i] ELSE tail[i - Len(head)]
    BY <1>1, <1>4, ConcatProperties
  <2>3. log \in Seq(CallRows) /\ Len(log) = Len(head) + Len(tail)
    BY <1>1, <1>4, ConcatProperties
  <2>. QED
    BY <2>1, <2>2, <2>3
<1>6. PICK i \in 1 .. Len(head) : head[i].outcome = "ok"
  BY <1>3
<1>7. i \in DOMAIN log /\ log[i].outcome = "ok"
  BY <1>1, <1>5, <1>6
<1>. QED
  BY <1>7

(* The log of a pipeline that gave up. *)
LEMMA FailedTyped ==
    ASSUME NEW first \in Purposes, NEW second \in Purposes, NEW why \in TriageErrors,
           NEW log \in FailedLogs(first, second, why)
    PROVE  log \in Seq(CallRows)
PROOF
<1>1. \A p \in {first, second}, o \in CallOutcomes : [purpose |-> p, outcome |-> o] \in CallRows
  BY DEF CallRows
<1>2. HttpFailures \cup {"parse_error"} \subseteq CallOutcomes
  BY WorkerAssumption DEF CallOutcomes
<1>3. CASE why = "circuit_open"
  <2>1. FailedLogs(first, second, why) = {<<>>}
    BY <1>3, RefusedLog
  <2>2. log = <<>>
    BY <2>1
  <2>. QED
    BY <2>2
<1>4. CASE why = "provider_error"
  <2>1. FailedLogs(first, second, why) =
          { <<[purpose |-> first, outcome |-> f]>> : f \in HttpFailures }
          \cup { <<[purpose |-> first, outcome |-> "parse_error"],
                   [purpose |-> second, outcome |-> f]>> : f \in HttpFailures }
    BY <1>4, Zenon DEF FailedLogs
  <2>2. CASE \E f \in HttpFailures : log = <<[purpose |-> first, outcome |-> f]>>
    <3>1. PICK row \in CallRows : log = <<row>>
      BY <1>1, <1>2, <2>2
    <3>. QED
      BY <3>1
  <2>3. CASE \E f \in HttpFailures :
                log = <<[purpose |-> first, outcome |-> "parse_error"],
                        [purpose |-> second, outcome |-> f]>>
    <3>1. PICK row \in CallRows, next \in CallRows : log = <<row, next>>
      BY <1>1, <1>2, <2>3
    <3>. QED
      BY <3>1
  <2>. QED
    BY <2>1, <2>2, <2>3
<1>5. CASE why = "parse_failed"
  <2>1. FailedLogs(first, second, why) =
          { <<[purpose |-> first, outcome |-> "parse_error"],
              [purpose |-> second, outcome |-> "parse_error"]>> }
    BY <1>5, Zenon DEF FailedLogs
  <2>2. PICK row \in CallRows, next \in CallRows : log = <<row, next>>
    BY <1>1, <1>2, <2>1
  <2>. QED
    BY <2>2
<1>. QED
  BY <1>3, <1>4, <1>5 DEF TriageErrors

(* A ticket with a triage has the ok row of the answer the triage was parsed from. *)
LEMMA TriageHasItsCall ==
    ASSUME IndInv, AuditTrail, NEW t \in TriagedTickets
    PROVE  \E i \in DOMAIN calls[t] : calls[t][i].outcome = "ok"
PROOF
<1>1. t \in Tickets /\ triage[t] # None
  BY DEF TriagedTickets
<1>2. triage[t].attempts \in Attempts /\ (draft[t] # None => draft[t].attempts \in Attempts)
  BY <1>1 DEF IndInv, TypeOK, StoreTypeOK, TriageRows, DraftRows
<1>3. PICK tail \in ReplyLogs(t) :
        calls[t] = ParsedLog("classify", "repair", triage[t].attempts) \o tail
  BY <1>1 DEF AuditTrail
<1>4. tail \in Seq(CallRows)
  <2>1. CASE draft[t] # None
    <3>1. tail = ParsedLog("reply_draft", "reply_repair", draft[t].attempts)
      BY <1>3, <2>1 DEF ReplyLogs
    <3>. QED
      BY <1>2, <2>1, <3>1, ParsedTyped DEF Purposes
  <2>2. CASE draft[t] = None
    <3>1. PICK why \in TriageErrors : tail \in FailedLogs("reply_draft", "reply_repair", why)
      BY <1>3, <2>2 DEF ReplyLogs
    <3>. QED
      BY <3>1, FailedTyped DEF Purposes
  <2>. QED
    BY <2>1, <2>2
<1>. QED
  BY <1>2, <1>3, <1>4, ParsedLogHasOk

----------------------------------------------------------------------------
(* Counting. *)

LEMMA CountsAreOrdered ==
    ASSUME IsFiniteSet(Tickets), NEW S \in SUBSET Tickets, NEW T \in SUBSET Tickets,
           S \subseteq T
    PROVE  /\ Cardinality(S) \in Nat /\ Cardinality(T) \in Nat
           /\ Cardinality(S) <= Cardinality(T)
PROOF
<1>1. IsFiniteSet(T) /\ S \in SUBSET T
  BY FS_Subset
<1>2. IsFiniteSet(S) /\ Cardinality(S) <= Cardinality(T)
  BY <1>1, FS_Subset
<1>. QED
  BY <1>1, <1>2, FS_CardinalityType

(* The ok rows of a log. *)
OkRows(t) == { <<t, i>> : i \in { j \in DOMAIN calls[t] : calls[t][j].outcome = "ok" } }

LEMMA OkRowsFinite ==
    ASSUME IndInv, NEW t \in Tickets
    PROVE  IsFiniteSet(OkRows(t))
PROOF
<1>. DEFINE I == { j \in DOMAIN calls[t] : calls[t][j].outcome = "ok" }
            f == [i \in I |-> <<t, i>>]
<1>1. DOMAIN calls[t] = 1 .. Len(calls[t]) /\ Len(calls[t]) \in Nat
  BY DEF IndInv, TypeOK, StoreTypeOK
<1>2. IsFiniteSet(1 .. Len(calls[t])) /\ I \in SUBSET (1 .. Len(calls[t]))
  BY <1>1, FS_Interval
<1>3. IsFiniteSet(I)
  BY <1>2, FS_Subset
<1>4. OkRows(t) = { <<t, i>> : i \in I }
  BY DEF OkRows
<1>. HIDE DEF I
<1>5. f \in Surjection(I, { <<t, i>> : i \in I })
  BY DEF Surjection
<1>. QED
  BY <1>3, <1>4, <1>5, FS_Surjection

(* As many ok calls as triages, at least. *)
LEMMA CallsCoverTriages ==
    ASSUME IsFiniteSet(Tickets), IndInv, AuditTrail
    PROVE  OkCalls \in Nat /\ Cardinality(TriagedTickets) <= OkCalls
PROOF
<1>. DEFINE Rows == [t \in Tickets |-> OkRows(t)]
            All == { Rows[t] : t \in Tickets }
            first == [t \in TriagedTickets |-> <<t, CHOOSE i \in DOMAIN calls[t] :
                                                       calls[t][i].outcome = "ok">>]
<1>1. OkCalls = Cardinality(UNION All)
  BY DEF OkCalls, OkRows
<1>2. IsFiniteSet(All)
  <2>1. Rows \in Surjection(Tickets, All)
    BY DEF Surjection
  <2>. QED
    BY <2>1, FS_Surjection
<1>3. \A S \in All : IsFiniteSet(S)
  BY OkRowsFinite
<1>4. IsFiniteSet(UNION All)
  BY <1>2, <1>3, FS_UNION
<1>5. ASSUME NEW t \in TriagedTickets
      PROVE  first[t] \in OkRows(t)
  BY TriageHasItsCall DEF OkRows
<1>6. first \in Injection(TriagedTickets, UNION All)
  <2>1. \A t \in TriagedTickets : t \in Tickets /\ OkRows(t) \in All
    BY DEF TriagedTickets
  <2>2. \A t \in TriagedTickets : first[t] \in UNION All
    BY <1>5, <2>1
  <2>3. /\ first \in [TriagedTickets -> UNION All]
        /\ \A t, u \in TriagedTickets : first[t] = first[u] => t = u
    BY <2>2
  <2>. HIDE DEF first, All
  <2>. QED
    BY <2>3 DEF Injection, IsInjective
<1>. QED
  BY <1>1, <1>4, <1>6, FS_Injection, FS_CardinalityType
----------------------------------------------------------------------------
(* A report while the tables move. *)

(* The lines that a ticket has, or would have. *)
LEMMA LinesByTicket ==
    ASSUME NEW t \in Tickets
    PROVE  /\ { x \in CorrectedLines : x.ticket = t } =
                 IF status[t] = "corrected" /\ correction[t] # None
                 THEN {[ticket |-> t, source |-> "corrected", labels |-> correction[t]]} ELSE {}
           /\ { x \in ApprovedLines : x.ticket = t } =
                 IF status[t] = "approved" /\ triage[t] # None
                 THEN {[ticket |-> t, source |-> "approved", labels |-> triage[t].labels]} ELSE {}
PROOF
  BY DEF CorrectedLines, ApprovedLines

(* They stay while the ticket stands still. *)
LEMMA LinesStay ==
    ASSUME NEW t \in Tickets, status'[t] = status[t],
           triage'[t] = triage[t], correction'[t] = correction[t]
    PROVE  /\ { x \in CorrectedLines : x.ticket = t }' = { x \in CorrectedLines : x.ticket = t }
           /\ { x \in ApprovedLines : x.ticket = t }' = { x \in ApprovedLines : x.ticket = t }
PROOF
  BY DEF CorrectedLines, ApprovedLines

LEMMA NoReportSound ==
    ASSUME report' = NoReport, moved' = {}
    PROVE  ReportInv'
PROOF
<1>1. NoReport.kind = "none"
  BY DEF NoReport
<1>2. ReportTypeOK'
  BY DEF NoReport, ReportTypeOK, Totals, Filters
<1>. QED
  BY <1>1, <1>2 DEF ReportInv

(* What a step of the service does to what is counted. *)
LEMMA CountedSetsGrow ==
    ASSUME IndInv, [Next]_vars
    PROVE  /\ DecidedTickets \subseteq DecidedTickets'
           /\ TriagedTickets \subseteq TriagedTickets'
           /\ \A f \in Filters \ {"awaiting"} : Counts(f) \subseteq Counts(f)'
           /\ (\A t \in Tickets : status'[t] = status[t]) =>
                 /\ DecidedTickets' = DecidedTickets
                 /\ TriagedTickets' = TriagedTickets
                 /\ \A f \in Filters : Counts(f)' = Counts(f)
PROOF
<1>1. \A t \in Tickets :
        /\ status[t] \notin {"absent", "received"} => status'[t] \notin {"absent", "received"}
        /\ status'[t] = status[t] => triage'[t] = triage[t]
  BY RowsMoveWithStatus
<1>2. \A t \in Tickets : /\ status[t] # "absent" => status'[t] # "absent"
                         /\ triage[t] # None => triage'[t] # None
  BY NextGrows DEF Grows
<1>. QED
  BY <1>1, <1>2 DEF DecidedTickets, TriagedTickets, Counts, Filters

(* The totals only fall further behind. *)
LEMMA LagGrows ==
    ASSUME NEW n, \A x \in Totals : n[x] \in Nat, NEW k \in 0 .. 6,
           NEW d \in Nat, NEW l \in Nat, NEW m, StatsLag(n, k, d, l, m),
           NEW e \in Nat, NEW j \in Nat, NEW o, d <= e, l <= j,
           o = {} => m = {} /\ e = d /\ j = l
    PROVE  StatsLag(n, k, e, j, o)
PROOF
<1>1. /\ n["decided"] \in Nat /\ n["machine"] \in Nat /\ n["queues"] \in Nat
      /\ n["intents"] \in Nat /\ n["priorities"] \in Nat /\ n["sentiments"] \in Nat
      /\ n["ok"] \in Nat
  BY DEF Totals
<1>. QED
  BY <1>1 DEF StatsLag

LEMMA ReportOutlivesSteps ==
    ASSUME IsFiniteSet(Tickets), IndInv, [Next]_vars, ReportInv, report' = report, Watch
    PROVE  ReportInv'
PROOF
<1>1. ReportTypeOK'
  BY DEF ReportInv, ReportTypeOK, Watch
<1>2. CASE report.kind = "none"
  BY <1>1, <1>2 DEF ReportInv
<1>3. CASE report.kind # "none"
  <2>1. moved' = moved \cup { t \in Tickets : status'[t] # status[t] }
    BY <1>3 DEF Watch
  <2>2. \A t \in Tickets \ moved' :
          t \in Tickets \ moved /\ status'[t] = status[t]
          /\ triage'[t] = triage[t] /\ correction'[t] = correction[t]
    BY <2>1, RowsMoveWithStatus
  <2>3. moved' = {} => moved = {} /\ \A t \in Tickets : status'[t] = status[t]
    BY <2>1
  <2>4. report.kind = "export" => ExportSoFar'
    <3>1. SUFFICES ASSUME ExportSoFar PROVE ExportSoFar'
      BY DEF ReportInv
    <3>2. \A t \in Tickets \ moved' :
            /\ LinesOf(t)' = LinesOf(t)
            /\ { x \in CorrectedLines : x.ticket = t }' = { x \in CorrectedLines : x.ticket = t }
            /\ { x \in ApprovedLines : x.ticket = t }' = { x \in ApprovedLines : x.ticket = t }
      BY <2>2, LinesStay DEF LinesOf
    <3>3. \A t \in Tickets \ moved' :
            { x \in CorrectedLines \cup ApprovedLines : x.ticket = t }'
              = { x \in CorrectedLines \cup ApprovedLines : x.ticket = t }
      BY <3>2
    <3>. QED
      BY <2>2, <3>1, <3>2, <3>3 DEF ExportSoFar
  <2>5. report.kind = "stats" => StatsSoFar'
    <3>1. SUFFICES ASSUME StatsSoFar PROVE StatsSoFar'
      BY DEF ReportInv
    <3>. DEFINE d == Cardinality(DecidedTickets)
                l == Cardinality(TriagedTickets)
    <3>2. d \in Nat /\ d' \in Nat /\ l \in Nat /\ l' \in Nat /\ d <= d' /\ l <= l'
      BY CountedSetsGrow, CountsAreOrdered DEF DecidedTickets, TriagedTickets
    <3>3. moved' = {} => moved = {} /\ d' = d /\ l' = l
      BY <2>3, CountedSetsGrow
    <3>4. \A x \in Totals : report.totals[x] \in Nat
      BY DEF ReportInv, ReportTypeOK
    <3>5. Len(report.left) \in 0 .. 6
      BY <3>1 DEF StatsSoFar, StatsTails, StatsReads
    <3>6. StatsLag(report.totals, Len(report.left), d, l, moved)
      BY <3>1 DEF StatsSoFar
    <3>. HIDE DEF d, l
    <3>7. StatsLag(report.totals, Len(report.left), d', l', moved')
      BY <3>2, <3>3, <3>4, <3>5, <3>6, LagGrows
    <3>8. StatsLag(report.totals, Len(report.left), d, l, moved)'
      BY <3>7
    <3>. QED
      BY <3>1, <3>8 DEF StatsSoFar, d, l, StatsTails, StatsReads
  <2>6. report.kind = "list" => ListSoFar'
    <3>1. SUFFICES ASSUME ListSoFar PROVE ListSoFar'
      BY DEF ReportInv
    <3>. DEFINE n == Cardinality(Counts(report.filter))
    <3>2. report.filter \in Filters /\ report.total \in Nat
      BY DEF ReportInv, ReportTypeOK
    <3>3. report.filter # "awaiting" => n \in Nat /\ n' \in Nat /\ n <= n'
      BY <3>2, CountedSetsGrow, CountsAreOrdered DEF Counts
    <3>4. moved' = {} => moved = {} /\ n' = n
      BY <2>3, <3>2, CountedSetsGrow
    <3>5. TriagedTickets \subseteq TriagedTickets'
      BY CountedSetsGrow
    <3>. HIDE DEF n
    <3>. QED
      BY <2>3, <3>1, <3>2, <3>3, <3>4, <3>5 DEF ListSoFar, n
  <2>. QED
    BY <1>1, <2>4, <2>5, <2>6 DEF ReportInv
<1>. QED
  BY <1>2, <1>3
----------------------------------------------------------------------------
(* A SELECT of a report. *)

LEMMA SelectMovesNobody ==
    ASSUME Watch, UNCHANGED storeVars, ReportTypeOK
    PROVE  moved' = IF report.kind = "none" \/ report'.kind = "none" THEN {} ELSE moved
PROOF
  BY DEF Watch, storeVars, ReportTypeOK

(* What is left of a report. *)
LEMMA LeftTyped ==
    /\ {ExportReads, <<"approved">>, <<>>} \subseteq Seq(Selects)
    /\ StatsTails \subseteq Seq(Selects)
    /\ {ListReads, <<"page">>} \subseteq Seq(Selects)
PROOF
<1>1. /\ "corrected" \in Selects /\ "approved" \in Selects /\ "status" \in Selects
      /\ "queue" \in Selects /\ "intent" \in Selects /\ "priority" \in Selects
      /\ "sentiment" \in Selects /\ "calls" \in Selects /\ "count" \in Selects
      /\ "page" \in Selects
  BY DEF Selects
<1>2. {ExportReads, <<"approved">>, <<>>} \subseteq Seq(Selects)
  BY <1>1 DEF ExportReads
<1>3. StatsTails \subseteq Seq(Selects)
  BY <1>1 DEF StatsReads, StatsTails
<1>4. {ListReads, <<"page">>} \subseteq Seq(Selects)
  BY <1>1 DEF ListReads
<1>. QED
  BY <1>2, <1>3, <1>4

LEMMA ReportStarts ==
    ASSUME StartExport \/ StartStats \/ StartList, moved' = {}
    PROVE  ReportInv'
PROOF
<1>1. CASE StartExport
  <2>1. report' = [NoReport EXCEPT !.kind = "export", !.left = ExportReads]
    BY <1>1 DEF StartExport
  <2>2. ReportTypeOK'
    BY <2>1, LeftTyped DEF NoReport, ReportTypeOK, Filters
  <2>3. report'.kind = "export" /\ ExportSoFar'
    BY <2>1 DEF NoReport, ExportSoFar, ExportReads
  <2>. QED
    BY <2>2, <2>3 DEF ReportInv
<1>2. CASE StartStats
  <2>1. report' = [NoReport EXCEPT !.kind = "stats", !.left = StatsReads]
    BY <1>2 DEF StartStats
  <2>2. ReportTypeOK'
    <3>1. StatsReads \in Seq(Selects)
      BY LeftTyped DEF StatsTails
    <3>. QED
      BY <2>1, <3>1 DEF NoReport, ReportTypeOK, Filters
  <2>3. report'.kind = "stats" /\ report'.todo = {} /\ report'.left = StatsReads
    BY <2>1 DEF NoReport
  <2>4. Len(report'.left) = 6
    BY <2>3 DEF StatsReads
  <2>5. StatsSoFar'
    BY <2>3, <2>4 DEF StatsSoFar, StatsTails, StatsLag
  <2>. QED
    BY <2>2, <2>3, <2>5 DEF ReportInv
<1>3. CASE StartList
  <2>1. PICK f \in Filters :
          report' = [NoReport EXCEPT !.kind = "list", !.left = ListReads, !.filter = f]
    BY <1>3 DEF StartList
  <2>2. ReportTypeOK'
    BY <2>1, LeftTyped DEF NoReport, ReportTypeOK
  <2>3. report'.kind = "list" /\ ListSoFar'
    BY <2>1 DEF NoReport, ListSoFar, ListReads
  <2>. QED
    BY <2>2, <2>3 DEF ReportInv
<1>. QED
  BY <1>1, <1>2, <1>3

LEMMA ExportSelectKeeps ==
    ASSUME IndInv, ReportInv, ExportSelect, UNCHANGED storeVars, moved' = moved
    PROVE  ReportInv'
PROOF
<1>1. ReportTypeOK /\ ExportSoFar /\ report.kind = "export" /\ report.left # <<>>
  BY DEF ReportInv, ExportSelect
<1>2. UNCHANGED <<CorrectedLines, ApprovedLines>>
  BY DEF CorrectedLines, ApprovedLines, storeVars, ticketVars
<1>3. CorrectedLines \cup ApprovedLines \subseteq Lines
  BY DEF Lines, CorrectedLines, ApprovedLines, IndInv, TypeOK, StoreTypeOK, TriageRows
<1>4. CASE report.left = ExportReads
  <2>1. Head(report.left) = "corrected" /\ Tail(report.left) = <<"approved">>
        /\ report.lines = {}
    BY <1>1, <1>4 DEF ExportSoFar, ExportReads
  <2>2. report' = [report EXCEPT !.left = <<"approved">>, !.lines = CorrectedLines]
    BY <2>1 DEF ExportSelect
  <2>3. ReportTypeOK' /\ report'.kind = "export"
    BY <1>1, <1>3, <2>2, LeftTyped DEF ReportTypeOK
  <2>4. report'.lines = CorrectedLines /\ report'.left = <<"approved">>
        /\ report'.todo = {}
    BY <1>1, <2>2 DEF ReportTypeOK, ExportSoFar
  <2>5. ExportSoFar'
    BY <1>2, <2>4 DEF ExportSoFar, LinesOf
  <2>. QED
    BY <2>3, <2>5 DEF ReportInv
<1>5. CASE report.left = <<"approved">>
  <2>1. Head(report.left) # "corrected" /\ Tail(report.left) = <<>>
    BY <1>5
  <2>2. report' = [report EXCEPT !.left = <<>>, !.lines = report.lines \cup ApprovedLines]
    BY <2>1 DEF ExportSelect
  <2>3. ReportTypeOK' /\ report'.kind = "export"
    BY <1>1, <1>3, <2>2, LeftTyped DEF ReportTypeOK
  <2>4. report'.lines = report.lines \cup ApprovedLines /\ report'.left = <<>>
        /\ report'.todo = {}
    BY <1>1, <2>2 DEF ReportTypeOK, ExportSoFar
  <2>5. \A t \in Tickets \ moved : LinesOf(t) = { x \in CorrectedLines : x.ticket = t }
    BY <1>1, <1>5 DEF ExportSoFar, ExportReads
  <2>6. ASSUME NEW t \in Tickets \ moved
        PROVE  LinesOf(t)' = { x \in CorrectedLines \cup ApprovedLines : x.ticket = t }
    BY <2>4, <2>5 DEF LinesOf
  <2>7. ExportSoFar'
    BY <1>2, <2>4, <2>6 DEF ExportSoFar
  <2>. QED
    BY <2>3, <2>7 DEF ReportInv
<1>. QED
  BY <1>1, <1>4, <1>5 DEF ExportSoFar

LEMMA ListSelectKeeps ==
    ASSUME IsFiniteSet(Tickets), ReportInv, ListSelect, UNCHANGED storeVars, moved' = moved
    PROVE  ReportInv'
PROOF
<1>1. ReportTypeOK /\ ListSoFar /\ report.kind = "list" /\ report.left # <<>>
  BY DEF ReportInv, ListSelect
<1>2. \A f : Counts(f)' = Counts(f) /\ PageRows(f) = Counts(f) /\ Counts(f) \subseteq Tickets
  BY DEF Counts, PageRows, storeVars, ticketVars
<1>3. TriagedTickets' = TriagedTickets
  BY DEF TriagedTickets, storeVars
<1>4. Cardinality(Counts(report.filter)) \in Nat
  BY <1>2, CountsAreOrdered
<1>5. CASE report.left = ListReads
  <2>1. Head(report.left) = "count" /\ Tail(report.left) = <<"page">>
    BY <1>5 DEF ListReads
  <2>2. report' = [report EXCEPT !.left = <<"page">>,
                                 !.total = Cardinality(Counts(report.filter))]
    BY <2>1 DEF ListSelect
  <2>3. ReportTypeOK' /\ report'.kind = "list"
    BY <1>1, <1>4, <2>2, LeftTyped DEF ReportTypeOK
  <2>4. /\ report'.left = <<"page">> /\ report'.total = Cardinality(Counts(report.filter))
        /\ report'.filter = report.filter
        /\ report'.todo = {} /\ report'.page = {} /\ report'.shown = {}
    BY <1>1, <1>5, <2>2 DEF ReportTypeOK, ListSoFar, ListReads
  <2>5. ListSoFar'
    BY <1>2, <1>4, <2>4 DEF ListSoFar
  <2>. QED
    BY <2>3, <2>5 DEF ReportInv
<1>6. CASE report.left = <<"page">>
  <2>1. Head(report.left) # "count" /\ Tail(report.left) = <<>>
    BY <1>6
  <2>2. report' = [report EXCEPT !.left = <<>>, !.page = PageRows(report.filter),
                                 !.todo = PageRows(report.filter)]
    BY <2>1 DEF ListSelect
  <2>3. ReportTypeOK' /\ report'.kind = "list"
    BY <1>1, <1>2, <2>2, LeftTyped DEF ReportTypeOK
  <2>4. /\ report'.left = <<>> /\ report'.total = report.total
        /\ report'.filter = report.filter /\ report'.shown = {}
        /\ report'.page = Counts(report.filter) /\ report'.todo = Counts(report.filter)
    BY <1>1, <1>2, <1>6, <2>2 DEF ReportTypeOK, ListSoFar, ListReads
  <2>5. /\ report.filter # "awaiting" => report.total <= Cardinality(Counts(report.filter))
        /\ moved = {} => report.total = Cardinality(Counts(report.filter))
    BY <1>1, <1>6 DEF ListSoFar, ListReads
  <2>6. report.filter = "labelled" => Counts(report.filter) \subseteq TriagedTickets
    BY DEF Counts, TriagedTickets
  <2>7. ListSoFar'
    BY <1>3, <2>4, <2>5, <2>6 DEF ListSoFar
  <2>. QED
    BY <2>3, <2>7 DEF ReportInv
<1>. QED
  BY <1>1, <1>5, <1>6 DEF ListSoFar

LEMMA ListItemKeeps ==
    ASSUME ReportInv, ListItem, UNCHANGED storeVars, moved' = moved
    PROVE  ReportInv'
PROOF
<1>1. ReportTypeOK /\ ListSoFar /\ report.kind = "list" /\ report.left = <<>>
  BY DEF ReportInv, ListItem
<1>2. PICK t \in report.todo :
        report' = [report EXCEPT !.todo = report.todo \ {t},
                                 !.shown = IF triage[t] # None THEN report.shown \cup {t}
                                           ELSE report.shown]
  BY DEF ListItem
<1>3. TriagedTickets' = TriagedTickets /\ (t \in TriagedTickets => triage[t] # None)
  BY DEF TriagedTickets, storeVars
<1>4. ReportTypeOK' /\ report'.kind = "list"
  BY <1>1, <1>2 DEF ReportTypeOK
<1>5. /\ report'.left = <<>> /\ report'.total = report.total
      /\ report'.filter = report.filter /\ report'.page = report.page
      /\ report'.todo = report.todo \ {t}
      /\ report'.shown = IF triage[t] # None THEN report.shown \cup {t} ELSE report.shown
  BY <1>1, <1>2 DEF ReportTypeOK
<1>6. /\ report.filter # "awaiting" => report.total <= Cardinality(report.page)
      /\ moved = {} => report.total = Cardinality(report.page)
      /\ report.todo \subseteq report.page /\ report.shown \subseteq report.page
      /\ report.filter = "labelled" =>
            /\ report.page \subseteq TriagedTickets
            /\ report.page \ report.todo \subseteq report.shown
  BY <1>1 DEF ListSoFar, ListReads
<1>7. ListSoFar'
  BY <1>2, <1>3, <1>5, <1>6 DEF ListSoFar
<1>. QED
  BY <1>4, <1>7 DEF ReportInv

(* What each SELECT of /stats counts. *)
LEMMA StatsCounted ==
    ASSUME StatsSelect
    PROVE  LET counts(n) == report' = [report EXCEPT !.left = Tail(report.left), !.totals = n]
               labelled  == Cardinality(TriagedTickets)
           IN  /\ Head(report.left) = "status" =>
                    counts([report.totals EXCEPT
                              !["decided"] = Cardinality(DecidedTickets),
                              !["machine"] = Cardinality({ t \in Tickets :
                                                status[t] \in {"triaged", "approved"} })])
               /\ Head(report.left) = "queue" =>
                    counts([report.totals EXCEPT
                              !["queues"] = Cardinality({ t \in Tickets : queue[t] # None })])
               /\ Head(report.left) = "intent" =>
                    counts([report.totals EXCEPT !["intents"] = labelled])
               /\ Head(report.left) = "priority" =>
                    counts([report.totals EXCEPT !["priorities"] = labelled])
               /\ Head(report.left) = "sentiment" =>
                    counts([report.totals EXCEPT !["sentiments"] = labelled])
               /\ Head(report.left) = "calls" =>
                    counts([report.totals EXCEPT !["ok"] = OkCalls])
PROOF
<1>1. CASE Head(report.left) = "status"
  BY <1>1, Zenon DEF StatsSelect, Count, DecidedTickets
<1>2. CASE Head(report.left) = "queue"
  BY <1>2, Zenon DEF StatsSelect, Count
<1>3. CASE Head(report.left) = "intent"
  BY <1>3, Zenon DEF StatsSelect, Counted, Labelled, Count, TriagedTickets
<1>4. CASE Head(report.left) = "priority"
  BY <1>4, Zenon DEF StatsSelect, Counted, Labelled, Count, TriagedTickets
<1>5. CASE Head(report.left) = "sentiment"
  BY <1>5, Zenon DEF StatsSelect, Counted, Labelled, Count, TriagedTickets
<1>6. CASE Head(report.left) = "calls"
  BY <1>6, Zenon DEF StatsSelect
<1>. QED
  BY <1>1, <1>2, <1>3, <1>4, <1>5, <1>6

(* The tables that are read in turn bound each other, and so do the totals. *)
LEMMA StatsSelectKeeps ==
    ASSUME IsFiniteSet(Tickets), IndInv, QueueFollowsLabel, AuditTrail, ReportInv, StatsSelect,
           UNCHANGED storeVars, moved' = moved
    PROVE  ReportInv'
PROOF
<1>. DEFINE n == report.totals
            d == Cardinality(DecidedTickets)
            l == Cardinality(TriagedTickets)
            machine == Cardinality({ t \in Tickets : status[t] \in {"triaged", "approved"} })
            queued == Cardinality({ t \in Tickets : queue[t] # None })
            ok == OkCalls
<1>1. ReportTypeOK /\ StatsSoFar /\ report.kind = "stats" /\ report.left # <<>>
  BY DEF ReportInv, StatsSelect
<1>2. d' = d /\ l' = l
  BY DEF DecidedTickets, TriagedTickets, storeVars, ticketVars
<1>3. /\ d \in Nat /\ l \in Nat /\ machine \in Nat /\ ok \in Nat
      /\ machine <= l /\ queued = d /\ l <= ok
  <2>1. { t \in Tickets : status[t] \in {"triaged", "approved"} } \subseteq TriagedTickets
    BY DEF TriagedTickets, IndInv, VerdictExplainsStatus
  <2>2. machine \in Nat /\ l \in Nat /\ machine <= l
    BY <2>1, CountsAreOrdered DEF TriagedTickets
  <2>3. d \in Nat
    BY CountsAreOrdered DEF DecidedTickets
  <2>. QED
    BY <2>2, <2>3, DecidedAreQueued, CallsCoverTriages
<1>4. StatsLag(n, Len(report.left), d, l, moved) /\ report.todo = {}
  BY <1>1 DEF StatsSoFar
<1>5. n \in [Totals -> Nat]
  BY <1>1 DEF ReportTypeOK
<1>6. ASSUME NEW left, NEW m, left \in StatsTails, m \in [Totals -> Nat],
             report' = [report EXCEPT !.left = left, !.totals = m],
             StatsLag(m, Len(left), d, l, moved)
      PROVE  ReportInv'
  <2>1. left \in Seq(Selects)
    BY <1>6, LeftTyped
  <2>2. ReportTypeOK' /\ report'.kind = "stats"
    BY <1>1, <1>6, <2>1 DEF ReportTypeOK
  <2>3. report'.left = left /\ report'.totals = m /\ report'.todo = {}
    BY <1>1, <1>4, <1>6 DEF ReportTypeOK
  <2>. HIDE DEF d, l
  <2>4. StatsLag(report'.totals, Len(report'.left), d', l', moved')
    BY <1>2, <1>6, <2>3
  <2>5. StatsSoFar'
    BY <1>6, <2>3, <2>4 DEF StatsSoFar, StatsTails, StatsReads, d, l
  <2>. QED
    BY <2>2, <2>5 DEF ReportInv
<1>. HIDE DEF n, d, l, machine, queued, ok
<1>7. CASE report.left = StatsReads
  <2>. DEFINE m == [n EXCEPT !["decided"] = d, !["machine"] = machine]
              left == <<"queue", "intent", "priority", "sentiment", "calls">>
  <2>1. Head(report.left) = "status" /\ Tail(report.left) = left /\ Len(left) = 5
    BY <1>7 DEF StatsReads
  <2>3. report' = [report EXCEPT !.left = left, !.totals = m]
    BY <2>1, StatsCounted DEF n, d, machine
  <2>4. m \in [Totals -> Nat] /\ StatsLag(m, 5, d, l, moved)
    BY <1>3, <1>5 DEF StatsLag, Totals
  <2>5. left \in StatsTails
    BY DEF StatsTails
  <2>. HIDE DEF m, left
  <2>. QED
    BY <1>6, <2>1, <2>3, <2>4, <2>5
<1>8. CASE report.left = <<"queue", "intent", "priority", "sentiment", "calls">>
  <2>. DEFINE m == [n EXCEPT !["queues"] = queued]
              left == <<"intent", "priority", "sentiment", "calls">>
  <2>1. Head(report.left) = "queue" /\ Tail(report.left) = left /\ Len(left) = 4
    BY <1>8
  <2>2. Len(report.left) = 5
    BY <1>8
  <2>3. report' = [report EXCEPT !.left = left, !.totals = m]
    BY <2>1, StatsCounted DEF n, queued
  <2>4. m \in [Totals -> Nat] /\ StatsLag(m, 4, d, l, moved)
    BY <1>3, <1>4, <1>5, <2>2 DEF StatsLag, Totals
  <2>5. left \in StatsTails
    BY DEF StatsTails
  <2>. HIDE DEF m, left
  <2>. QED
    BY <1>6, <2>1, <2>3, <2>4, <2>5
<1>9. CASE report.left = <<"intent", "priority", "sentiment", "calls">>
  <2>. DEFINE m == [n EXCEPT !["intents"] = l]
              left == <<"priority", "sentiment", "calls">>
  <2>1. Head(report.left) = "intent" /\ Tail(report.left) = left /\ Len(left) = 3
    BY <1>9
  <2>2. Len(report.left) = 4
    BY <1>9
  <2>3. report' = [report EXCEPT !.left = left, !.totals = m]
    BY <2>1, StatsCounted DEF n, l
  <2>4. m \in [Totals -> Nat] /\ StatsLag(m, 3, d, l, moved)
    BY <1>3, <1>4, <1>5, <2>2 DEF StatsLag, Totals
  <2>5. left \in StatsTails
    BY DEF StatsTails
  <2>. HIDE DEF m, left
  <2>. QED
    BY <1>6, <2>1, <2>3, <2>4, <2>5
<1>10. CASE report.left = <<"priority", "sentiment", "calls">>
  <2>. DEFINE m == [n EXCEPT !["priorities"] = l]
              left == <<"sentiment", "calls">>
  <2>1. Head(report.left) = "priority" /\ Tail(report.left) = left /\ Len(left) = 2
    BY <1>10
  <2>2. Len(report.left) = 3
    BY <1>10
  <2>3. report' = [report EXCEPT !.left = left, !.totals = m]
    BY <2>1, StatsCounted DEF n, l
  <2>4. m \in [Totals -> Nat] /\ StatsLag(m, 2, d, l, moved)
    BY <1>3, <1>4, <1>5, <2>2 DEF StatsLag, Totals
  <2>5. left \in StatsTails
    BY DEF StatsTails
  <2>. HIDE DEF m, left
  <2>. QED
    BY <1>6, <2>1, <2>3, <2>4, <2>5
<1>11. CASE report.left = <<"sentiment", "calls">>
  <2>. DEFINE m == [n EXCEPT !["sentiments"] = l]
              left == <<"calls">>
  <2>1. Head(report.left) = "sentiment" /\ Tail(report.left) = left /\ Len(left) = 1
    BY <1>11
  <2>2. Len(report.left) = 2
    BY <1>11
  <2>3. report' = [report EXCEPT !.left = left, !.totals = m]
    BY <2>1, StatsCounted DEF n, l
  <2>4. m \in [Totals -> Nat] /\ StatsLag(m, 1, d, l, moved)
    BY <1>3, <1>4, <1>5, <2>2 DEF StatsLag, Totals
  <2>5. left \in StatsTails
    BY DEF StatsTails
  <2>. HIDE DEF m, left
  <2>. QED
    BY <1>6, <2>1, <2>3, <2>4, <2>5
<1>12. CASE report.left = <<"calls">>
  <2>. DEFINE m == [n EXCEPT !["ok"] = ok]
              left == <<>>
  <2>1. Head(report.left) = "calls" /\ Tail(report.left) = left /\ Len(left) = 0
    BY <1>12
  <2>2. Len(report.left) = 1
    BY <1>12
  <2>3. report' = [report EXCEPT !.left = left, !.totals = m]
    BY <2>1, StatsCounted DEF n, ok
  <2>4. m \in [Totals -> Nat] /\ StatsLag(m, 0, d, l, moved)
    BY <1>3, <1>4, <1>5, <2>2 DEF StatsLag, Totals
  <2>5. left \in StatsTails
    BY DEF StatsTails
  <2>. HIDE DEF m, left
  <2>. QED
    BY <1>6, <2>1, <2>3, <2>4, <2>5
<1>. QED
  BY <1>1, <1>7, <1>8, <1>9, <1>10, <1>11, <1>12 DEF StatsSoFar, StatsTails

LEMMA ReaderKeepsReports ==
    ASSUME IsFiniteSet(Tickets), IndInv, QueueFollowsLabel, AuditTrail, ReportInv, ReportStep,
           UNCHANGED storeVars, Watch
    PROVE  ReportInv'
PROOF
<1>1. moved' = IF report.kind = "none" \/ report'.kind = "none" THEN {} ELSE moved
  BY SelectMovesNobody DEF ReportInv
<1>2. ReportTypeOK
  BY DEF ReportInv
<1>3. CASE StartExport \/ StartStats \/ StartList
  <2>1. moved' = {}
    BY <1>1, <1>3 DEF StartExport, StartStats, StartList
  <2>. QED
    BY <1>3, <2>1, ReportStarts
<1>4. CASE SendReport
  <2>1. report' = NoReport /\ moved' = {}
    BY <1>1, <1>4 DEF SendReport, NoReport
  <2>. QED
    BY <2>1, NoReportSound
<1>5. CASE ExportSelect \/ StatsSelect \/ ListSelect \/ ListItem
  <2>1. report.kind # "none" /\ report'.kind = report.kind
    BY <1>2, <1>5 DEF ExportSelect, StatsSelect, ListSelect, ListItem, ReportTypeOK
  <2>2. moved' = moved
    BY <1>1, <2>1
  <2>. QED
    BY <1>5, <2>2, ExportSelectKeeps, StatsSelectKeeps, ListSelectKeeps, ListItemKeeps
<1>. QED
  BY <1>3, <1>4, <1>5 DEF ReportStep

----------------------------------------------------------------------------
(* The theorems about reports, over finitely many rows: what is counted has a number. *)

LEMMA ReportStepKeeps ==
    ASSUME IsFiniteSet(Tickets), IndInv, QueueFollowsLabel, AuditTrail, ApiInv, ReportInv,
           [ApiNext]_apiVars
    PROVE  ReportInv'
PROOF
<1>1. [Next]_vars
  BY ApiStepIsStep
<1>2. CASE UNCHANGED apiVars
  <2>1. UNCHANGED <<report, moved, status, triage, correction>>
    BY <1>2 DEF apiVars, reportVars, vars, storeVars, ticketVars
  <2>2. CorrectedLines' = CorrectedLines /\ ApprovedLines' = ApprovedLines
    BY <2>1 DEF CorrectedLines, ApprovedLines
  <2>. QED
    BY <2>1, <2>2
       DEF ReportInv, ReportTypeOK, ExportSoFar, LinesOf, StatsSoFar, ListSoFar, DecidedTickets,
           TriagedTickets, Counts
<1>3. CASE ReaderStep /\ Watch
  BY <1>3, ReaderKeepsReports DEF ReaderStep, vars
<1>4. CASE ApiDies /\ Watch
  <2>1. report' = NoReport /\ moved' = {}
    BY <1>4 DEF ApiDies, Watch, NoReport
  <2>. QED
    BY <2>1, NoReportSound
<1>5. CASE (ClientStep \/ OtherRequest \/ ApiStops \/ Background) /\ Watch
  <2>1. report' = report
    BY <1>5 DEF ClientStep, OtherRequest, ApiStops, Background
  <2>. QED
    BY <1>1, <1>5, <2>1, ReportOutlivesSteps
<1>. QED
  BY <1>2, <1>3, <1>4, <1>5 DEF ApiNext

(* Whatever happens between the SELECTs of a report, it lags behind tables that only grow
   and is exact about the tickets that stand still. *)
THEOREM ServiceInvariance ==
    ASSUME IsFiniteSet(Tickets)
    PROVE  ApiSpec => []ServiceInv
PROOF
<1>1. ApiInit => ReportInv
  <2>1. ReportInit => report = NoReport /\ ReportTypeOK
    BY DEF ReportInit, NoReport, ReportTypeOK, Totals, Filters
  <2>. QED
    BY <2>1 DEF ApiInit, NoReport, ReportInv
<1>2. IndInv /\ QueueFollowsLabel /\ AuditTrail /\ ApiInv /\ ReportInv /\ [ApiNext]_apiVars
        => ReportInv'
  BY ReportStepKeeps
<1>3. ApiSpec => [](QueueFollowsLabel /\ AuditTrail)
  BY ServiceKept, QueuesFollow, LogsExplained, PTL DEF KeepsService
<1>. QED
  BY <1>1, <1>2, <1>3, ApiInvariance, PTL DEF ApiSpec, ServiceInv

(* An export has exactly the line of every ticket that was not decided or reviewed while
   it ran (export_lines). *)
THEOREM ExportsComplete ==
    ASSUME IsFiniteSet(Tickets)
    PROVE  ApiSpec => []ExportComplete
PROOF
<1>1. ASSUME IndInv, ServiceInv PROVE ExportComplete
  <2>1. SUFFICES ASSUME report.kind = "export", Complete, NEW t \in Tickets \ moved
                 PROVE  IF ExportedLabel(t) = None THEN LinesOf(t) = {}
                        ELSE LinesOf(t) = {[ticket |-> t, source |-> status[t],
                                            labels |-> ExportedLabel(t)]}
    BY DEF ExportComplete
  <2>2. ExportSoFar /\ report.left = <<>>
    BY <1>1, <2>1 DEF ServiceInv, ReportInv, Complete
  <2>3. LinesOf(t) = { x \in CorrectedLines \cup ApprovedLines : x.ticket = t }
    BY <2>1, <2>2 DEF ExportSoFar, ExportReads
  <2>4. LinesOf(t) = { x \in CorrectedLines : x.ticket = t }
                     \cup { x \in ApprovedLines : x.ticket = t }
    BY <2>3
  <2>5. triage[t] # None => triage[t].labels # None
    BY <1>1, StoreAssumption DEF IndInv, TypeOK, StoreTypeOK, TriageRows
  <2>. QED
    BY <2>4, <2>5, LinesByTicket DEF ExportedLabel
<1>. QED
  BY <1>1, ApiInvariance, ServiceInvariance, PTL

(* The later totals of /stats never fall behind the earlier ones (compute_stats). *)
THEOREM StatsKeepUp ==
    ASSUME IsFiniteSet(Tickets)
    PROVE  ApiSpec => []StatsNeverBehind
PROOF
<1>1. ASSUME ServiceInv PROVE StatsNeverBehind
  <2>1. SUFFICES ASSUME report.kind = "stats", Complete
                 PROVE  StatsNeverBehind
    BY DEF StatsNeverBehind
  <2>2. StatsSoFar /\ Len(report.left) = 0
    BY <1>1, <2>1 DEF ServiceInv, ReportInv, Complete
  <2>3. StatsLag(report.totals, 0, Cardinality(DecidedTickets), Cardinality(TriagedTickets),
                 moved)
    BY <2>2 DEF StatsSoFar
  <2>. QED
    BY <2>3 DEF StatsLag, StatsNeverBehind
<1>. QED
  BY <1>1, ServiceInvariance, PTL

(* total and the rows of a list belong together (list_tickets). *)
THEOREM ListsAgree ==
    ASSUME IsFiniteSet(Tickets)
    PROVE  ApiSpec => []ListAgrees
PROOF
<1>1. ASSUME ServiceInv PROVE ListAgrees
  <2>1. SUFFICES ASSUME report.kind = "list", Complete
                 PROVE  ListAgrees
    BY DEF ListAgrees
  <2>2. ListSoFar /\ ReportTypeOK /\ report.left = <<>> /\ report.todo = {}
    BY <1>1, <2>1 DEF ServiceInv, ReportInv, Complete
  <2>3. report.left # ListReads /\ report.left # <<"page">>
    BY <2>2 DEF ListReads
  <2>4. /\ report.filter # "awaiting" => report.total <= Cardinality(report.page)
        /\ moved = {} => report.total = Cardinality(report.page)
        /\ report.shown \subseteq report.page
        /\ report.filter = "labelled" => report.page \ {} \subseteq report.shown
    BY <2>2, <2>3 DEF ListSoFar
  <2>. QED
    BY <2>4 DEF ListAgrees
<1>. QED
  BY <1>1, ServiceInvariance, PTL
=============================================================================
