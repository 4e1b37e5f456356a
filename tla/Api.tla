-------------------------------- MODULE Api --------------------------------
(***************************************************************************)
(* The service of TicketTriage with its ingestion, its detail, list,       *)
(* export and statistics answers taken apart into statements, over a       *)
(* database that is SQLite or has row locks (db.py).  SQLite has one write *)
(* lock: the worker's transaction takes it with the first row it flushes   *)
(* (llm_client.py complete) and gives it back with its commit or rollback, *)
(* so it holds the lock while a repair call is under way.                  *)
(***************************************************************************)
EXTENDS TicketTriage, Intake, Reports

VARIABLE backend  \* DATABASE_URL: "sqlite" or "rowlocks" (never changes)

apiVars == <<vars, intakeVars, reportVars, backend>>

ApiInit ==
    /\ Init
    /\ IntakeInit
    /\ ReportInit
    /\ backend \in {"sqlite", "rowlocks"}

----------------------------------------------------------------------------

WriteLocked == backend = "sqlite" /\ pending # <<>>

(* A request that has to write waits while the lock is taken. *)
MayWrite == WriteLocked => storeVars' = storeVars

ClientStep ==
    /\ proc = "up"
    /\ \E c \in Clients :
          \/ \E t \in Tickets : FindTicket(c, t) \/ FindNothing(c, t)
          \/ InsertTicket(c) /\ ~ WriteLocked
          \/ InsertConflicts(c) /\ ~ WriteLocked
          \/ InsertTimesOut(c) /\ WriteLocked
          \/ Reselect(c)
          \/ Refresh(c)
          \/ ReadPart(c)
          \/ Answer(c)
    /\ UNCHANGED <<breakerVars, workerVars, review, reply, report>>

ReaderStep ==
    /\ proc = "up"
    /\ ReportStep
    /\ UNCHANGED <<vars, intakeVars>>

(* The other requests. *)
OtherRequest ==
    /\ OperatorPutsRules \/ ReviewerStep \/ ReplierStep
    /\ MayWrite
    /\ UNCHANGED <<intakeVars, report>>

ApiStops ==
    /\ IntakeDrained /\ ReportDrained
    /\ StopRequested
    /\ UNCHANGED <<intakeVars, report>>

ApiDies ==
    /\ ProcessDies
    /\ intake' = [c \in Clients |-> NoRequest]
    /\ report' = NoReport
    /\ UNCHANGED made

(* The worker, the process around it and time. *)
Background ==
    /\ WorkerStep \/ TimePasses \/ ProcessStops \/ ProcessStarts
    /\ UNCHANGED <<intakeVars, report>>

ApiNext ==
    /\ \/ ClientStep
       \/ ReaderStep
       \/ OtherRequest
       \/ ApiStops
       \/ ApiDies
       \/ Background
    /\ Watch
    /\ UNCHANGED backend

ApiSpec == ApiInit /\ [][ApiNext]_apiVars
=============================================================================
