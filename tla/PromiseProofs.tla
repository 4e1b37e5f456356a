--------------------------- MODULE PromiseProofs ---------------------------
(***************************************************************************)
(* With one review and one reply request at a time, the service implements *)
(* Lifecycle: for every set of tickets, labels and rules, whatever the     *)
(* worker, crashes and the provider do.                                    *)
(***************************************************************************)
EXTENDS TicketTriageProofs

(* One slot of a kind: the requests of a kind are handled one after another. *)
OneAtATime ==
    /\ \A r, s \in Reviewers : r = s
    /\ \A p, q \in Repliers : p = q

CurrentInv == IndInv /\ ReadsAreCurrent

----------------------------------------------------------------------------
(* What a request read stays so. *)

LEMMA CurrentFrame ==
    ASSUME ReadsAreCurrent, UNCHANGED <<status, draft, review, reply>>
    PROVE  ReadsAreCurrent'
PROOF
  BY DEF ReadsAreCurrent

(* The worker writes undecided tickets, and drafts where there are none. *)
LEMMA WorkerLeavesReads ==
    ASSUME CurrentInv, WorkerStep
    PROVE  ReadsAreCurrent'
PROOF
<1>. USE DEF CurrentInv
<1>1. CASE SaveTriage \/ Escalate
  <2>1. PICK u \in Tickets : u = current /\ status[u] = "received"
    BY <1>1 DEF SaveTriage, Escalate, IndInv, LocalsSet, CommitStages, WorkerOwnsItsTicket,
                Deciding
  <2>2. /\ \A t \in Tickets \ {u} : status'[t] = status[t]
        /\ UNCHANGED <<draft, review, reply>>
    BY <1>1, <2>1 DEF SaveTriage, Escalate, WorkerStep, IndInv, TypeOK, StoreTypeOK
  <2>3. \A r \in Reviewers :
          review[r].op # "none" =>
              review[r].ticket \in Tickets \ {u}
    BY <2>1 DEF IndInv, RequestsGrounded
  <2>. QED
    BY <2>2, <2>3 DEF ReadsAreCurrent
<1>2. CASE SaveDraft
  <2>1. PICK u \in Tickets : u = current /\ draft[u] = None
    BY <1>2 DEF SaveDraft, IndInv, LocalsSet, CommitStages
  <2>2. /\ \A t \in Tickets \ {u} : draft'[t] = draft[t]
        /\ UNCHANGED <<status, review, reply>>
    BY <1>2, <2>1 DEF SaveDraft, WorkerStep, ticketVars, IndInv, TypeOK, StoreTypeOK
  <2>3. \A q \in Repliers :
          reply[q].op # "none" => reply[q].ticket \in Tickets \ {u}
    BY <2>1 DEF IndInv, RequestsGrounded
  <2>. QED
    BY <2>2, <2>3 DEF ReadsAreCurrent
<1>3. CASE UNCHANGED <<status, draft>>
  BY <1>3, CurrentFrame DEF WorkerStep
<1>. QED
  BY <1>1, <1>2, <1>3
     DEF WorkerStep, ThreadStep, PollTicket, PollNothing, PollFails, WaitOver, LeaveLoop,
         CallRefused, TriageParsed, ReplyParsed, FirstInvalid, SecondInvalid, CallFails,
         CallRaises, RouteTicket, KeepCallsOnly, CommitFails, storeVars, ticketVars

LEMMA ReviewsLeaveReads ==
    ASSUME CurrentInv, OneAtATime, ReviewerStep
    PROVE  ReadsAreCurrent'
PROOF
<1>. USE DEF CurrentInv
<1>1. PICK r \in Reviewers :
        \/ \E t \in Tickets :
              ReadToApprove(r, t) \/ \E l \in Labels : ReadToCorrect(r, t, l)
        \/ RouteCorrection(r) \/ CommitApproval(r) \/ CommitCorrection(r) \/ ReviewFails(r)
  BY DEF ReviewerStep, ReviewStart, ReviewFinish
<1>2. UNCHANGED <<draft, reply>>
  BY <1>1 DEF ReviewerStep, ReadToApprove, ReadToCorrect, RouteCorrection, CommitApproval,
              CommitCorrection, ReviewFails, storeVars
<1>3. \A s \in Reviewers : s = r
  BY DEF OneAtATime
<1>4. review \in [Reviewers ->
        [op: {"none", "approve", "route", "correct"}, ticket: Tickets \cup {None},
         labels: Labels \cup {None}, queue: Queues \cup {None}]]
  BY DEF IndInv, TypeOK, ReviewTypeOK
<1>5. /\ review'[r].op = "approve" => status'[review'[r].ticket] = "triaged"
      /\ review'[r].op \in {"route", "correct"} =>
            status'[review'[r].ticket] \in {"triaged", "needs_human"}
  <2>1. CASE \E t \in Tickets : ReadToApprove(r, t)
    BY <1>4, <2>1 DEF ReadToApprove, storeVars
  <2>2. CASE \E t \in Tickets, l \in Labels : ReadToCorrect(r, t, l)
    BY <1>4, <2>2 DEF ReadToCorrect, CorrectableStatuses, storeVars
  <2>3. CASE RouteCorrection(r)
    BY <1>4, <2>3 DEF RouteCorrection, ReadsAreCurrent, storeVars
  <2>4. CASE CommitApproval(r) \/ CommitCorrection(r) \/ ReviewFails(r)
    <3>1. review'[r] = NoReview
      BY <1>4, <2>4 DEF CommitApproval, CommitCorrection, ReviewFails
    <3>. QED
      BY <3>1 DEF NoReview
  <2>. QED
    BY <1>1, <2>1, <2>2, <2>3, <2>4
<1>. QED
  BY <1>2, <1>3, <1>5 DEF ReadsAreCurrent

LEMMA RepliesLeaveReads ==
    ASSUME CurrentInv, OneAtATime, ReplierStep
    PROVE  ReadsAreCurrent'
PROOF
<1>. USE DEF CurrentInv
<1>1. PICK q \in Repliers :
        \/ \E t \in Tickets, op \in {"edit", "approved", "discarded"} : ReadDraft(q, t, op)
        \/ CommitEdit(q) \/ CommitTransition(q) \/ ReplyFails(q)
  BY DEF ReplierStep, ReplyStart, ReplyFinish
<1>2. UNCHANGED <<status, review>>
  BY <1>1 DEF ReplierStep, ReadDraft, CommitEdit, CommitTransition, ReplyFails, storeVars,
              ticketVars
<1>3. \A p \in Repliers : p = q
  BY DEF OneAtATime
<1>4. reply \in [Repliers -> [op: {"none", "edit", "approved", "discarded"},
                              ticket: Tickets \cup {None}]]
  BY DEF IndInv, TypeOK, ReplyTypeOK
<1>5. reply'[q].op # "none" => draft'[reply'[q].ticket].state = "draft"
  <2>1. CASE \E t \in Tickets, op \in {"edit", "approved", "discarded"} : ReadDraft(q, t, op)
    BY <1>4, <2>1 DEF ReadDraft, storeVars
  <2>2. CASE CommitEdit(q) \/ CommitTransition(q) \/ ReplyFails(q)
    <3>1. reply'[q] = NoReply
      BY <1>4, <2>2 DEF CommitEdit, CommitTransition, ReplyFails
    <3>. QED
      BY <3>1 DEF NoReply
  <2>. QED
    BY <1>1, <2>1, <2>2
<1>. QED
  BY <1>2, <1>3, <1>5 DEF ReadsAreCurrent

LEMMA NextCurrent ==
    ASSUME CurrentInv, OneAtATime, [Next]_vars
    PROVE  ReadsAreCurrent'
PROOF
<1>. USE DEF CurrentInv
<1>1. CASE Ingest
  <2>1. PICK u \in Tickets : IngestTicket(u)
    BY <1>1 DEF Ingest
  <2>2. /\ status[u] = "absent" /\ \A t \in Tickets \ {u} : status'[t] = status[t]
        /\ UNCHANGED <<draft, review, reply>>
    BY <1>1, <2>1 DEF Ingest, IngestTicket, IndInv, TypeOK, StoreTypeOK
  <2>3. \A r \in Reviewers :
          review[r].op # "none" => review[r].ticket \in Tickets \ {u}
    BY <2>2 DEF IndInv, RequestsGrounded
  <2>. QED
    BY <2>2, <2>3 DEF ReadsAreCurrent
<1>2. CASE ProcessDies
  <2>1. /\ review' = [r \in Reviewers |-> NoReview]
        /\ reply' = [q \in Repliers |-> NoReply]
    BY <1>2 DEF ProcessDies
  <2>. QED
    BY <2>1 DEF ReadsAreCurrent, NoReview, NoReply
<1>3. CASE OperatorPutsRules \/ TimePasses \/ StopRequested \/ ProcessStops
           \/ ProcessStarts \/ UNCHANGED vars
  BY <1>3, CurrentFrame
     DEF OperatorPutsRules, PutRules, TimePasses, StopRequested, BeginStop, ProcessStops,
         Shutdown, CloseClient, Exit, ProcessStarts, Restart, vars, storeVars, ticketVars
<1>. QED
  BY <1>1, <1>2, <1>3, WorkerLeavesReads, ReviewsLeaveReads, RepliesLeaveReads DEF Next

(* With one request of a kind at a time, nothing that a request read has changed when it
   commits (approve_ticket, correct_ticket, edit_reply_draft, _transition). *)
THEOREM ReadsStayCurrent ==
    ASSUME OneAtATime
    PROVE  Spec => []ReadsAreCurrent
PROOF
<1>1. Init => ReadsAreCurrent
  BY DEF Init, ReviewInit, ReplyInit, NoReview, NoReply, ReadsAreCurrent
<1>2. IndInv /\ ReadsAreCurrent /\ [Next]_vars => ReadsAreCurrent'
  BY NextCurrent DEF CurrentInv
<1>. QED
  BY <1>1, <1>2, Invariance, PTL DEF Spec

(* A draft that was approved or discarded is never touched again, as long as the
   requests on drafts do not overlap (edit_reply_draft, _transition). *)
THEOREM DraftsFreeze ==
    ASSUME OneAtATime
    PROVE  Spec => ResolvedDraftIsFrozen
PROOF
<1>1. ASSUME IndInv, ReadsAreCurrent, [Next]_vars, NEW t \in Tickets,
             draft[t] # None, draft[t].state # "draft"
      PROVE  draft'[t] = draft[t]
  <2>1. CASE SaveDraft
    <3>1. current # t
      BY <1>1, <2>1 DEF SaveDraft
    <3>. QED
      BY <1>1, <2>1, <3>1 DEF SaveDraft, IndInv, TypeOK, StoreTypeOK
  <2>2. CASE \E q \in Repliers : CommitEdit(q) \/ CommitTransition(q)
    <3>1. PICK q \in Repliers : CommitEdit(q) \/ CommitTransition(q)
      BY <2>2
    <3>2. reply[q].op # "none"
      BY <3>1 DEF CommitEdit, CommitTransition
    <3>3. reply[q].ticket # t
      BY <1>1, <3>2 DEF ReadsAreCurrent
    <3>. QED
      BY <1>1, <3>1, <3>3 DEF CommitEdit, CommitTransition, IndInv, TypeOK, StoreTypeOK
  <2>3. CASE draft' = draft
    BY <2>3
  <2>. QED
    BY <1>1, <2>1, <2>2, <2>3
       DEF Next, Ingest, IngestTicket, OperatorPutsRules, PutRules, ReviewerStep,
           ReviewStart, ReviewFinish, ReadToApprove, ReadToCorrect, RouteCorrection,
           CommitApproval, CommitCorrection, ReviewFails, ReplierStep, ReplyStart,
           ReplyFinish, ReadDraft, ReplyFails, WorkerStep, ThreadStep, PollTicket,
           PollNothing, PollFails, WaitOver, LeaveLoop, CallRefused, TriageParsed,
           ReplyParsed, FirstInvalid, SecondInvalid, CallFails, CallRaises, RouteTicket,
           SaveTriage, Escalate, KeepCallsOnly, CommitFails, TimePasses, StopRequested,
           BeginStop, ProcessStops, Shutdown, CloseClient, Exit, ProcessDies, Crash,
           ProcessStarts, Restart, vars, storeVars
<1>. DEFINE Frozen ==
        \A t \in Tickets :
          (draft[t] # None /\ draft[t].state # "draft") => draft'[t] = draft[t]
<1>2. IndInv /\ ReadsAreCurrent /\ [Next]_vars => Frozen
  BY <1>1
<1>. QED
  BY <1>2, Invariance, ReadsStayCurrent, PTL DEF Spec, ResolvedDraftIsFrozen

----------------------------------------------------------------------------
(* The refinement: what Lifecycle sees of the tables. *)

Machine == [t \in Tickets |-> IF triage[t] = None THEN None ELSE triage[t].labels]
Gold    == [t \in Tickets |-> ExportedLabel(t)]
Note    == [t \in Tickets |-> IF draft[t] = None THEN None
               ELSE [state |-> draft[t].state, body |-> draft[t].body]]

(* A mapped function changes where the rows it is mapped from change. *)
LEMMA UnchangedMap ==
    ASSUME NEW F, NEW G, \A t \in Tickets : F[t] = G[t],
           F = [t \in Tickets |-> F[t]], G = [t \in Tickets |-> G[t]]
    PROVE  F = G
PROOF
  OBVIOUS

LEMMA ChangedMap ==
    ASSUME NEW F, NEW G, NEW u \in Tickets, NEW x, G[u] = x,
           \A t \in Tickets \ {u} : G[t] = F[t],
           F = [t \in Tickets |-> F[t]], G = [t \in Tickets |-> G[t]]
    PROVE  G = [F EXCEPT ![u] = x]
PROOF
  OBVIOUS

LEMMA MapsAreFunctions ==
    /\ Machine = [t \in Tickets |-> Machine[t]]
    /\ Gold = [t \in Tickets |-> Gold[t]]
    /\ Note = [t \in Tickets |-> Note[t]]
    /\ Machine' = [t \in Tickets |-> Machine'[t]]
    /\ Gold' = [t \in Tickets |-> Gold'[t]]
    /\ Note' = [t \in Tickets |-> Note'[t]]
PROOF
  BY DEF Machine, Gold, Note

(* Steps that leave a ticket's rows alone leave its image alone. *)
LEMMA MapFrame ==
    ASSUME NEW t \in Tickets
    PROVE  /\ triage'[t] = triage[t] => Machine'[t] = Machine[t]
           /\ (status'[t] = status[t] /\ triage'[t] = triage[t]
                /\ correction'[t] = correction[t]) => Gold'[t] = Gold[t]
           /\ draft'[t] = draft[t] => Note'[t] = Note[t]
PROOF
  BY DEF Machine, Gold, Note, ExportedLabel
----------------------------------------------------------------------------
(* Each step of the service that Lifecycle sees is one step of it. *)

LEMMA IngestIsArrive ==
    ASSUME IndInv, NEW u \in Tickets, IngestTicket(u)
    PROVE  Promise!Arrive(u)
PROOF
<1>1. /\ status[u] = "absent" /\ status' = [status EXCEPT ![u] = "received"]
      /\ status'[u] = "received" /\ \A t \in Tickets \ {u} : status'[t] = status[t]
      /\ UNCHANGED <<triage, correction, draft>>
  BY DEF IngestTicket, IndInv, TypeOK, StoreTypeOK
<1>2. Machine' = Machine /\ Note' = Note
  BY <1>1, MapFrame, MapsAreFunctions, UnchangedMap
<1>3. Gold'[u] = Gold[u]
  BY <1>1 DEF Gold, ExportedLabel
<1>4. Gold' = Gold
  BY <1>1, <1>3, MapFrame, MapsAreFunctions, UnchangedMap
<1>. QED
  BY <1>1, <1>2, <1>4 DEF Promise!Arrive, Machine, Gold, Note

LEMMA SaveTriageIsClassify ==
    ASSUME IndInv, SaveTriage
    PROVE  \E u \in Tickets, l \in Labels : Promise!Classify(u, l)
PROOF
<1>1. PICK u \in Tickets : u = current /\ status[u] = "received"
  BY DEF SaveTriage, IndInv, LocalsSet, CommitStages, WorkerOwnsItsTicket, Deciding
<1>2. PICK l \in Labels : l = outcome
  BY DEF SaveTriage, IndInv, LocalsSet
<1>3. [labels |-> l, attempts |-> attempts] \in TriageRows
  BY DEF IndInv, TypeOK, WorkerTypeOK, TriageRows
<1>4. /\ status' = [status EXCEPT ![u] = "triaged"] /\ status'[u] = "triaged"
      /\ triage'[u] = [labels |-> l, attempts |-> attempts] /\ triage'[u] # None
      /\ \A t \in Tickets \ {u} : status'[t] = status[t] /\ triage'[t] = triage[t]
      /\ UNCHANGED <<correction, draft>>
  BY <1>1, <1>2, <1>3, StoreAssumption DEF SaveTriage, IndInv, TypeOK, StoreTypeOK
<1>5. Machine'[u] = l
  BY <1>4 DEF Machine
<1>6. Machine' = [Machine EXCEPT ![u] = l]
  BY <1>4, <1>5, MapFrame, MapsAreFunctions, ChangedMap
<1>7. Gold'[u] = Gold[u]
  BY <1>1, <1>4 DEF Gold, ExportedLabel
<1>8. Gold' = Gold /\ Note' = Note
  BY <1>4, <1>7, MapFrame, MapsAreFunctions, UnchangedMap
<1>9. Promise!Classify(u, l)
  BY <1>1, <1>4, <1>6, <1>8 DEF Promise!Classify, Machine, Gold, Note
<1>. QED
  BY <1>9

LEMMA EscalateIsEscalate ==
    ASSUME IndInv, Escalate
    PROVE  \E u \in Tickets : Promise!Escalate(u)
PROOF
<1>1. PICK u \in Tickets : u = current /\ status[u] = "received"
  BY DEF Escalate, IndInv, LocalsSet, CommitStages, WorkerOwnsItsTicket, Deciding
<1>2. /\ status' = [status EXCEPT ![u] = "needs_human"] /\ status'[u] = "needs_human"
      /\ \A t \in Tickets \ {u} : status'[t] = status[t]
      /\ UNCHANGED <<triage, correction, draft>>
  BY <1>1 DEF Escalate, IndInv, TypeOK, StoreTypeOK
<1>3. Gold'[u] = Gold[u]
  BY <1>1, <1>2 DEF Gold, ExportedLabel
<1>4. Machine' = Machine /\ Gold' = Gold /\ Note' = Note
  BY <1>2, <1>3, MapFrame, MapsAreFunctions, UnchangedMap
<1>5. Promise!Escalate(u)
  BY <1>1, <1>2, <1>4 DEF Promise!Escalate, Machine, Gold, Note
<1>. QED
  BY <1>5

(* The approval exports the model's label as gold. *)
LEMMA ApprovalIsConfirm ==
    ASSUME CurrentInv, NEW r \in Reviewers, CommitApproval(r)
    PROVE  \E u \in Tickets : Promise!Confirm(u)
PROOF
<1>. USE DEF CurrentInv
<1>1. PICK u \in Tickets :
        u = review[r].ticket /\ status[u] = "triaged" /\ triage[u] # None
  BY DEF CommitApproval, IndInv, RequestsGrounded, ReadsAreCurrent
<1>2. /\ status' = [status EXCEPT ![u] = "approved"] /\ status'[u] = "approved"
      /\ \A t \in Tickets \ {u} : status'[t] = status[t]
      /\ UNCHANGED <<triage, correction, draft>>
  BY <1>1 DEF CommitApproval, IndInv, TypeOK, StoreTypeOK
<1>3. Gold'[u] = Machine[u]
  BY <1>1, <1>2 DEF Gold, Machine, ExportedLabel
<1>4. Gold' = [Gold EXCEPT ![u] = Machine[u]]
  BY <1>2, <1>3, MapFrame, MapsAreFunctions, ChangedMap
<1>5. Machine' = Machine /\ Note' = Note
  BY <1>2, MapFrame, MapsAreFunctions, UnchangedMap
<1>6. Promise!Confirm(u)
  BY <1>1, <1>2, <1>4, <1>5 DEF Promise!Confirm, Machine, Gold, Note
<1>. QED
  BY <1>6

(* The correction exports the human's label as gold, for the first time. *)
LEMMA CorrectionIsOverride ==
    ASSUME CurrentInv, NEW r \in Reviewers, CommitCorrection(r)
    PROVE  \E u \in Tickets, l \in Labels : Promise!Override(u, l)
PROOF
<1>. USE DEF CurrentInv
<1>1. PICK u \in Tickets :
        u = review[r].ticket /\ status[u] \in {"triaged", "needs_human"}
  BY DEF CommitCorrection, IndInv, RequestsGrounded, ReadsAreCurrent
<1>2. PICK l \in Labels : l = review[r].labels /\ l # None
  BY StoreAssumption DEF CommitCorrection, IndInv, RequestsGrounded
<1>3. /\ status' = [status EXCEPT ![u] = "corrected"] /\ status'[u] = "corrected"
      /\ correction'[u] = l
      /\ \A t \in Tickets \ {u} : status'[t] = status[t] /\ correction'[t] = correction[t]
      /\ UNCHANGED <<triage, draft>>
  BY <1>1, <1>2 DEF CommitCorrection, IndInv, TypeOK, StoreTypeOK
<1>4. Gold'[u] = l
  BY <1>2, <1>3 DEF Gold, ExportedLabel
<1>5. Gold' = [Gold EXCEPT ![u] = l]
  BY <1>3, <1>4, MapFrame, MapsAreFunctions, ChangedMap
<1>6. Machine' = Machine /\ Note' = Note
  BY <1>3, MapFrame, MapsAreFunctions, UnchangedMap
<1>7. Promise!Override(u, l)
  BY <1>1, <1>3, <1>5, <1>6 DEF Promise!Override, Machine, Gold, Note
<1>. QED
  BY <1>7

LEMMA SaveDraftIsSuggest ==
    ASSUME IndInv, SaveDraft
    PROVE  \E u \in Tickets : Promise!Suggest(u)
PROOF
<1>1. PICK u \in Tickets : u = current /\ triage[u] # None /\ draft[u] = None
  BY DEF SaveDraft, IndInv, LocalsSet, CommitStages, DraftStageHasVerdict
<1>2. [state |-> "draft", body |-> "generated", attempts |-> attempts] \in DraftRows
  BY DEF DraftRows, ReplyStates, IndInv, TypeOK, WorkerTypeOK
<1>3. /\ draft'[u] = [state |-> "draft", body |-> "generated", attempts |-> attempts]
      /\ draft'[u] # None
      /\ \A t \in Tickets \ {u} : draft'[t] = draft[t]
      /\ UNCHANGED <<status, triage, correction>>
  BY <1>1, <1>2, StoreAssumption DEF SaveDraft, IndInv, TypeOK, StoreTypeOK, ticketVars
<1>4. Note[u] = None /\ Note'[u] = [state |-> "draft", body |-> "generated"]
  BY <1>1, <1>3 DEF Note
<1>5. Note' = [Note EXCEPT ![u] = [state |-> "draft", body |-> "generated"]]
  BY <1>3, <1>4, MapFrame, MapsAreFunctions, ChangedMap
<1>6. Machine' = Machine /\ Gold' = Gold
  BY <1>3, MapFrame, MapsAreFunctions, UnchangedMap
<1>7. Machine[u] # None
  <2>1. triage[u] \in TriageRows
    BY <1>1 DEF IndInv, TypeOK, StoreTypeOK
  <2>. QED
    BY <1>1, <2>1, StoreAssumption DEF Machine, TriageRows
<1>8. Promise!Suggest(u)
  BY <1>3, <1>4, <1>5, <1>6, <1>7 DEF Promise!Suggest, Machine, Gold, Note
<1>. QED
  BY <1>8

LEMMA ReplyIsRewriteOrResolve ==
    ASSUME CurrentInv, NEW q \in Repliers, CommitEdit(q) \/ CommitTransition(q)
    PROVE  \E u \in Tickets :
              Promise!Rewrite(u) \/ \E s \in {"approved", "discarded"} : Promise!Resolve(u, s)
PROOF
<1>. USE DEF CurrentInv
<1>1. PICK u \in Tickets :
        u = reply[q].ticket /\ draft[u] # None /\ draft[u].state = "draft"
  BY DEF CommitEdit, CommitTransition, IndInv, RequestsGrounded, ReadsAreCurrent
<1>2. draft[u] \in DraftRows
  BY <1>1 DEF IndInv, TypeOK, StoreTypeOK
<1>3. Note[u] = [state |-> draft[u].state, body |-> draft[u].body]
  BY <1>1 DEF Note
<1>4. Note[u] # None /\ Note[u].state = "draft"
  BY <1>1, <1>2, <1>3, NoteAssumption DEF DraftRows
<1>5. /\ UNCHANGED <<status, triage, correction>>
      /\ \A t \in Tickets \ {u} : draft'[t] = draft[t]
  BY <1>1 DEF CommitEdit, CommitTransition, ticketVars, IndInv, TypeOK, StoreTypeOK
<1>6. Machine' = Machine /\ Gold' = Gold
  BY <1>5, MapFrame, MapsAreFunctions, UnchangedMap
<1>7. CASE CommitEdit(q)
  <2>1. draft'[u] = [draft[u] EXCEPT !.body = "edited"]
    BY <1>1, <1>7 DEF CommitEdit, IndInv, TypeOK, StoreTypeOK
  <2>2. /\ draft'[u] \in DraftRows /\ draft'[u].state = draft[u].state
        /\ draft'[u].body = "edited"
    BY <1>2, <2>1 DEF DraftRows
  <2>3. Note'[u] = [Note[u] EXCEPT !.body = "edited"]
    BY <1>3, <2>2, StoreAssumption DEF Note
  <2>4. Note' = [Note EXCEPT ![u] = [Note[u] EXCEPT !.body = "edited"]]
    BY <1>5, <2>3, MapFrame, MapsAreFunctions, ChangedMap
  <2>5. Promise!Rewrite(u)
    BY <1>4, <1>5, <1>6, <2>4 DEF Promise!Rewrite, Machine, Gold, Note
  <2>. QED
    BY <2>5
<1>8. CASE CommitTransition(q)
  <2>1. PICK s \in {"approved", "discarded"} : draft'[u] = [draft[u] EXCEPT !.state = s]
    BY <1>1, <1>8 DEF CommitTransition, IndInv, TypeOK, StoreTypeOK
  <2>2. /\ draft'[u] \in DraftRows /\ draft'[u].body = draft[u].body
        /\ draft'[u].state = s
    BY <1>2, <2>1 DEF DraftRows, ReplyStates
  <2>3. Note'[u] = [Note[u] EXCEPT !.state = s]
    BY <1>3, <2>2, StoreAssumption DEF Note
  <2>4. Note' = [Note EXCEPT ![u] = [Note[u] EXCEPT !.state = s]]
    BY <1>5, <2>3, MapFrame, MapsAreFunctions, ChangedMap
  <2>5. Promise!Resolve(u, s)
    BY <1>4, <1>5, <1>6, <2>4 DEF Promise!Resolve, Machine, Gold, Note
  <2>. QED
    BY <2>5
<1>. QED
  BY <1>7, <1>8
----------------------------------------------------------------------------
(* The steps that write nothing Lifecycle sees stutter. *)
LEMMA QuietSteps ==
    ASSUME UNCHANGED <<status, triage, correction, draft>>
    PROVE  UNCHANGED Promise!vars
PROOF
<1>1. Machine' = Machine /\ Gold' = Gold /\ Note' = Note
  BY MapFrame, MapsAreFunctions, UnchangedMap
<1>. QED
  BY <1>1 DEF Promise!vars, Machine, Gold, Note

LEMMA WorkerImplements ==
    ASSUME CurrentInv, WorkerStep
    PROVE  [Promise!Next]_(Promise!vars)
PROOF
<1>1. CASE SaveTriage
  <2>1. PICK u \in Tickets, l \in Labels : Promise!Classify(u, l)
    BY <1>1, SaveTriageIsClassify DEF CurrentInv
  <2>. QED
    BY <2>1 DEF Promise!Next
<1>2. CASE Escalate
  <2>1. PICK u \in Tickets : Promise!Escalate(u)
    BY <1>2, EscalateIsEscalate DEF CurrentInv
  <2>. QED
    BY <2>1 DEF Promise!Next
<1>3. CASE SaveDraft
  <2>1. PICK u \in Tickets : Promise!Suggest(u)
    BY <1>3, SaveDraftIsSuggest DEF CurrentInv
  <2>. QED
    BY <2>1 DEF Promise!Next
<1>4. CASE UNCHANGED <<status, triage, correction, draft>>
  BY <1>4, QuietSteps
<1>. QED
  BY <1>1, <1>2, <1>3, <1>4
     DEF WorkerStep, ThreadStep, PollTicket, PollNothing, PollFails, WaitOver, LeaveLoop,
         CallRefused, TriageParsed, ReplyParsed, FirstInvalid, SecondInvalid, CallFails,
         CallRaises, RouteTicket, KeepCallsOnly, CommitFails, storeVars, ticketVars

LEMMA ReviewsImplement ==
    ASSUME CurrentInv, ReviewerStep
    PROVE  [Promise!Next]_(Promise!vars)
PROOF
<1>1. CASE \E r \in Reviewers : CommitApproval(r)
  <2>1. PICK u \in Tickets : Promise!Confirm(u)
    BY <1>1, ApprovalIsConfirm
  <2>. QED
    BY <2>1 DEF Promise!Next
<1>2. CASE \E r \in Reviewers : CommitCorrection(r)
  <2>1. PICK u \in Tickets, l \in Labels : Promise!Override(u, l)
    BY <1>2, CorrectionIsOverride
  <2>. QED
    BY <2>1 DEF Promise!Next
<1>3. CASE UNCHANGED <<status, triage, correction, draft>>
  BY <1>3, QuietSteps
<1>. QED
  BY <1>1, <1>2, <1>3
     DEF ReviewerStep, ReviewStart, ReviewFinish, ReadToApprove, ReadToCorrect,
         RouteCorrection, ReviewFails, storeVars

LEMMA RepliesImplement ==
    ASSUME CurrentInv, ReplierStep
    PROVE  [Promise!Next]_(Promise!vars)
PROOF
<1>1. CASE \E q \in Repliers : CommitEdit(q) \/ CommitTransition(q)
  <2>1. PICK u \in Tickets :
          Promise!Rewrite(u) \/ \E s \in {"approved", "discarded"} : Promise!Resolve(u, s)
    BY <1>1, ReplyIsRewriteOrResolve
  <2>. QED
    BY <2>1 DEF Promise!Next
<1>2. CASE UNCHANGED <<status, triage, correction, draft>>
  BY <1>2, QuietSteps
<1>. QED
  BY <1>1, <1>2
     DEF ReplierStep, ReplyStart, ReplyFinish, ReadDraft, ReplyFails, storeVars

LEMMA NextImplements ==
    ASSUME CurrentInv, [Next]_vars
    PROVE  [Promise!Next]_(Promise!vars)
PROOF
<1>1. CASE Ingest
  <2>1. PICK u \in Tickets : Promise!Arrive(u)
    BY <1>1, IngestIsArrive DEF Ingest, CurrentInv
  <2>. QED
    BY <2>1 DEF Promise!Next
<1>2. CASE \/ OperatorPutsRules \/ TimePasses \/ StopRequested \/ ProcessStops
           \/ ProcessDies \/ ProcessStarts \/ UNCHANGED vars
  BY <1>2, QuietSteps
     DEF OperatorPutsRules, PutRules, TimePasses, StopRequested, BeginStop, ProcessStops,
         Shutdown, CloseClient, Exit, ProcessDies, Crash, ProcessStarts, Restart, vars,
         storeVars, ticketVars
<1>. QED
  BY <1>1, <1>2, WorkerImplements, ReviewsImplement, RepliesImplement DEF Next

LEMMA InitImplements == Init => Promise!Init
PROOF
<1>. SUFFICES ASSUME Init
              PROVE  Promise!Init
  OBVIOUS
<1>1. /\ status = [t \in Tickets |-> "absent"]
      /\ triage = [t \in Tickets |-> None]
      /\ correction = [t \in Tickets |-> None]
      /\ draft = [t \in Tickets |-> None]
  BY DEF Init, StoreInit
<1>. QED
  BY <1>1 DEF Promise!Init, ExportedLabel

(* The service, its worker, its crashes and its provider, implements Lifecycle: every
   step a client could observe is one transition of docs/architecture.md, the gold label
   is written once, and a draft is resolved once, as long as two requests of a kind do
   not overlap.  MCTwoReviewers shows that the hypothesis is needed. *)
THEOREM PromiseKept ==
    ASSUME OneAtATime
    PROVE  Spec => KeepsPromise
PROOF
<1>1. IndInv /\ ReadsAreCurrent /\ [Next]_vars => [Promise!Next]_(Promise!vars)
  BY NextImplements DEF CurrentInv
<1>. QED
  BY <1>1, InitImplements, Invariance, ReadsStayCurrent, PTL
     DEF Spec, KeepsPromise, Promise!Spec
=============================================================================
