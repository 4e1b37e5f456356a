-------------------------- MODULE LlmClientProofs --------------------------
(***************************************************************************)
(* Theorems about the provider client and its breaker, for every           *)
(* threshold, cooldown, number of retries and length of the call log:      *)
(* above all that they implement the breaker TriageWorker is built on.     *)
(***************************************************************************)
EXTENDS LlmClient, TLAPS

(* The circuit is in one of three states. *)
LEMMA CircuitStates ==
    ASSUME NEW until, NEW time
    PROVE  CircuitState(until, time) \in {"closed", "open", "half_open"}
PROOF
  BY DEF CircuitState

----------------------------------------------------------------------------
(* Types. *)

(* Steps of the thread and of the clock: the probe only witnesses. *)
LEMMA WitnessTyped ==
    ASSUME CBTypeOK, Witness
    PROVE  /\ probe' \in {"idle", "compare", "last", "closed", "open", "half_open"}
           /\ witnessed' \subseteq {"closed", "open", "half_open"}
PROOF
  BY CircuitStates DEF CBTypeOK, Witness

LEMMA FieldsTyped ==
    ASSUME CBTypeOK, ClientStep \/ Clock \/ Probe
    PROVE  CBTypeOK'
PROOF
<1>. USE CircuitBreakerAssumption
<1>1. CASE ClientStep /\ ~ Report
  <2>1. BreakerUntouched
    BY <1>1 DEF ClientStep, StartCall, RetryableFailure, FinalFailure, Success, Escape,
                Backoff, FlushRow
  <2>. QED
    BY <2>1, WitnessTyped DEF BreakerUntouched, CBTypeOK, fieldVars
<1>2. CASE Report
  <2>1. Witness /\ now' = now /\ (RecordCallSuccess \/ RecordCallFailure)
    BY <1>2 DEF Report
  <2>2. streak' \in Nat
    BY <2>1 DEF CBTypeOK, RecordCallSuccess, RecordCallFailure
  <2>3. openUntil' \in {0} \cup (1 + Cooldown) .. (MaxNow + Cooldown)
    BY <2>1 DEF CBTypeOK, RecordCallSuccess, RecordCallFailure
  <2>. QED
    BY <2>1, <2>2, <2>3, WitnessTyped DEF CBTypeOK
<1>3. CASE Clock
  BY <1>3, WitnessTyped DEF Clock, Tick, CBTypeOK, fieldVars
<1>4. CASE Probe
  BY <1>4, CircuitStates
     DEF Probe, ProbeStep, ProbeTruth, ProbeCompare, ProbeLast, CBTypeOK, fieldVars
<1>. QED
  BY <1>1, <1>2, <1>3, <1>4

(* attempt stays within the retries: the loop backs off only while some are left. *)
LEMMA CallTyped ==
    ASSUME ClientInv, ClientStep
    PROVE  TypeOK' /\ (at' = "backoff" => attempt' < MaxRetries)
PROOF
<1>. USE LlmClientAssumption DEF ClientInv, TypeOK
<1>0. CBTypeOK'
  BY FieldsTyped
<1>1. CASE StartCall
  BY <1>0, <1>1 DEF StartCall
<1>2. CASE RetryableFailure
  BY <1>0, <1>2 DEF RetryableFailure, RetryOrReturn
<1>3. CASE FinalFailure \/ Success \/ Escape \/ Report
  BY <1>0, <1>3 DEF FinalFailure, Success, Escape, Report
<1>4. CASE Backoff
  BY <1>0, <1>4 DEF Backoff
<1>5. CASE FlushRow
  BY <1>0, <1>5 DEF FlushRow
<1>. QED
  BY <1>1, <1>2, <1>3, <1>4, <1>5 DEF ClientStep

----------------------------------------------------------------------------
(* The count of failures and the log. *)

LEMMA StreakKept ==
    ASSUME ClientInv, ClientStep
    PROVE  StreakIsTail'
PROOF
<1>. USE DEF ClientInv, TypeOK, CBTypeOK
<1>1. CASE ClientStep /\ ~ FlushRow /\ ~ Report
  <2>1. at' # "report" /\ UNCHANGED <<streak, openUntil, log>> /\ at # "report"
    BY <1>1 DEF ClientStep, StartCall, RetryableFailure, RetryOrReturn, FinalFailure,
                Success, Escape, Backoff, BreakerUntouched, fieldVars
  <2>. QED
    BY <2>1 DEF StreakIsTail, Reported
<1>2. CASE FlushRow
  <2>1. /\ at = "flush" /\ at' = "report" /\ log' = Append(log, last) /\ last' = last
        /\ UNCHANGED <<streak, openUntil>>
    BY <1>2 DEF FlushRow, BreakerUntouched, fieldVars
  <2>2. Len(log') = Len(log) + 1 /\ log'[Len(log')] = last
        /\ \A i \in 1 .. Len(log) : log'[i] = log[i]
    BY <2>1
  <2>3. Reported' = Reported /\ Reported = Len(log)
    BY <2>1, <2>2 DEF Reported
  <2>4. \A i \in Reported - streak + 1 .. Reported : log'[i] # "ok"
    BY <2>2, <2>3 DEF StreakIsTail
  <2>. QED
    BY <2>1, <2>2, <2>3, <2>4 DEF StreakIsTail
<1>3. CASE Report
  <2>1. /\ at = "report" /\ at' = "ready" /\ log' = log
        /\ IF last = "ok" THEN RecordCallSuccess ELSE RecordCallFailure
    BY <1>3 DEF Report
  <2>2. Len(log) > 0 /\ log[Len(log)] = last /\ Reported = Len(log) - 1
        /\ Reported' = Len(log)
    BY <2>1 DEF StreakIsTail, Reported
  <2>3. CASE last = "ok"
    BY <2>1, <2>2, <2>3, CircuitBreakerAssumption DEF StreakIsTail, RecordCallSuccess
  <2>4. CASE last # "ok"
    <3>1. streak' = streak + 1
          /\ openUntil' = IF streak' >= Threshold THEN now + Cooldown ELSE openUntil
      BY <2>1, <2>4 DEF RecordCallFailure
    <3>2. \A i \in Reported' - streak' + 1 .. Reported' : log'[i] # "ok"
      BY <2>1, <2>2, <2>4, <3>1 DEF StreakIsTail
    <3>3. streak' < Reported' => log'[Reported' - streak'] = "ok"
      BY <2>1, <2>2, <3>1 DEF StreakIsTail
    <3>4. (openUntil' # 0) <=> (streak' >= Threshold)
      BY <3>1, CircuitBreakerAssumption DEF StreakIsTail
    <3>. QED
      BY <2>1, <2>2, <3>1, <3>2, <3>3, <3>4 DEF StreakIsTail
  <2>. QED
    BY <2>3, <2>4
<1>. QED
  BY <1>1, <1>2, <1>3

(* Whether the last Threshold recorded calls all failed can be told from the count. *)
LEMMA LogTripsByCount ==
    ASSUME ClientInv
    PROVE  /\ at # "report" => (LogTrips <=> streak >= Threshold)
           /\ at = "report" => (LogTrips <=> last # "ok" /\ streak + 1 >= Threshold)
PROOF
<1>. USE CircuitBreakerAssumption DEF ClientInv, TypeOK, CBTypeOK
<1>1. ASSUME at # "report"
      PROVE  LogTrips <=> streak >= Threshold
  <2>1. Reported = Len(log)
    BY <1>1 DEF Reported
  <2>2. ASSUME LogTrips, streak < Threshold
        PROVE  FALSE
    <3>1. streak < Reported /\ log[Len(log) - streak] = "ok"
      BY <2>1, <2>2 DEF LogTrips, StreakIsTail
    <3>2. Len(log) - streak \in Len(log) - Threshold + 1 .. Len(log)
      BY <2>2
    <3>. QED
      BY <2>2, <3>1, <3>2 DEF LogTrips
  <2>. QED
    BY <2>1, <2>2 DEF LogTrips, StreakIsTail
<1>2. ASSUME at = "report"
      PROVE  LogTrips <=> last # "ok" /\ streak + 1 >= Threshold
  <2>1. Reported = Len(log) - 1 /\ Len(log) > 0 /\ log[Len(log)] = last
    BY <1>2 DEF Reported, StreakIsTail
  <2>2. ASSUME LogTrips
        PROVE  last # "ok"
    BY <2>1, <2>2 DEF LogTrips
  <2>3. ASSUME LogTrips, streak + 1 < Threshold
        PROVE  FALSE
    <3>1. streak < Reported /\ log[Reported - streak] = "ok"
      BY <2>1, <2>3 DEF LogTrips, StreakIsTail
    <3>2. Reported - streak \in Len(log) - Threshold + 1 .. Len(log)
      BY <2>1, <2>3
    <3>. QED
      BY <2>3, <3>1, <3>2 DEF LogTrips
  <2>4. ASSUME last # "ok", streak + 1 >= Threshold
        PROVE  LogTrips
    <3>1. Len(log) >= Threshold
      BY <2>1, <2>4 DEF StreakIsTail
    <3>2. \A i \in Len(log) - Threshold + 1 .. Len(log) :
            i = Len(log) \/ i \in Reported - streak + 1 .. Reported
      BY <2>1, <2>4
    <3>. QED
      BY <2>1, <2>4, <3>1, <3>2 DEF LogTrips, StreakIsTail
  <2>. QED
    BY <2>2, <2>3, <2>4
<1>. QED
  BY <1>1, <1>2

----------------------------------------------------------------------------
(* The circuit. *)

(* The circuit is tripped only when the thread reports a failure, and time can only
   end a cooldown: it never becomes open under a call in progress. *)
LEMMA NoTrafficKept ==
    ASSUME ClientInv, ClientStep \/ Clock \/ Probe
    PROVE  NoTrafficWhileOpen'
PROOF
<1>. USE CircuitBreakerAssumption
     DEF ClientInv, TypeOK, CBTypeOK, NoTrafficWhileOpen, CircuitState
<1>1. CASE StartCall
  BY <1>1 DEF StartCall, Allow, BreakerUntouched, fieldVars
<1>2. CASE ClientStep /\ ~ StartCall /\ ~ Report
  BY <1>2 DEF ClientStep, RetryableFailure, RetryOrReturn, FinalFailure, Success, Escape,
              Backoff, FlushRow, BreakerUntouched, fieldVars
<1>3. CASE Report
  BY <1>3 DEF Report
<1>4. CASE Clock
  BY <1>4 DEF Clock, Tick, fieldVars
<1>5. CASE Probe
  BY <1>5 DEF Probe, ProbeStep, ProbeTruth, ProbeCompare, ProbeLast, fieldVars
<1>. QED
  BY <1>1, <1>2, <1>3, <1>4, <1>5

(* Whoever changes the circuit adds its new state to what a probe in progress has
   witnessed.  A probe reports closed or open from a read of the moment, and comes to its
   last read by a moment at which the circuit was half open or closed; if it finds the
   field set after the latter, the circuit has tripped, which was witnessed as open. *)
LEMMA ProbeKept ==
    ASSUME ClientInv, ClientStep \/ Clock \/ Probe
    PROVE  ProbeWitnesses' /\ ProbeIsHonest'
PROOF
<1>. USE DEF ClientInv, ProbeWitnesses, ProbeIsHonest
<1>1. CASE ClientStep \/ Clock
  <2>1. Witness
    BY <1>1 DEF Clock, Tick, ClientStep, StartCall, RetryableFailure, FinalFailure,
                Success, Escape, Backoff, FlushRow, Report, BreakerUntouched
  <2>2. probe' = probe /\ (probe \in {"compare", "last"} =>
              witnessed' = witnessed \cup {CircuitState(openUntil', now')})
    BY <2>1 DEF Witness
  <2>3. ProbeIsHonest'
    <3>1. probe \notin {"compare", "last"} => witnessed' = witnessed
      BY <2>1 DEF Witness
    <3>. QED
      BY <2>2, <3>1
  <2>4. ASSUME probe = "last", "half_open" \notin witnessed, openUntil' # 0
        PROVE  "open" \in witnessed'
    <3>1. CASE openUntil # 0
      BY <2>2, <2>4, <3>1
    <3>2. CASE openUntil = 0
      <4>1. Report /\ RecordCallFailure /\ now' = now
        BY <1>1, <2>4, <3>2
           DEF Clock, Tick, ClientStep, StartCall, RetryableFailure, FinalFailure, Success,
               Escape, Backoff, FlushRow, Report, BreakerUntouched, fieldVars,
               RecordCallSuccess
      <4>2. openUntil' = now + Cooldown
        BY <2>4, <3>2, <4>1 DEF RecordCallFailure
      <4>3. CircuitState(openUntil', now') = "open"
        BY <4>1, <4>2, CircuitBreakerAssumption DEF CircuitState, TypeOK, CBTypeOK
      <4>. QED
        BY <2>2, <2>4, <4>3
    <3>. QED
      BY <3>1, <3>2
  <2>. QED
    BY <2>2, <2>3, <2>4
<1>2. CASE Probe
  <2>1. CASE ProbeTruth
    BY <2>1 DEF ProbeTruth, fieldVars, CircuitState
  <2>2. CASE ProbeCompare
    BY <2>2 DEF ProbeCompare, fieldVars, CircuitState, TypeOK, CBTypeOK
  <2>3. CASE ProbeLast
    BY <2>3 DEF ProbeLast, fieldVars, CircuitState
  <2>. QED
    BY <1>2, <2>1, <2>2, <2>3 DEF Probe, ProbeStep
<1>. QED
  BY <1>1, <1>2

----------------------------------------------------------------------------
(* The client. *)

(* Every part of the invariant of the client is kept by its steps, by the clock and by
   the reads of a readiness probe (LlmClient.complete, CircuitBreaker.state). *)
THEOREM ClientInvariance == Spec => []ClientInv
PROOF
<1>1. Init => ClientInv
  BY CircuitBreakerAssumption, LlmClientAssumption
     DEF Init, CBInit, ClientInv, TypeOK, CBTypeOK, StreakIsTail, Reported,
         NoTrafficWhileOpen, ProbeWitnesses, ProbeIsHonest
<1>2. ClientInv /\ [Next]_vars => ClientInv'
  <2>. SUFFICES ASSUME ClientInv, [Next]_vars
                PROVE  ClientInv'
    OBVIOUS
  <2>1. CASE ClientStep
    BY <2>1, CallTyped, StreakKept, NoTrafficKept, ProbeKept DEF ClientInv
  <2>2. CASE Clock \/ Probe
    <3>1. UNCHANGED <<streak, openUntil, at, attempt, last, log>>
      BY <2>2 DEF Clock, Tick, Probe, ProbeStep, ProbeTruth, ProbeCompare, ProbeLast,
                  fieldVars
    <3>2. TypeOK' /\ (at' = "backoff" => attempt' < MaxRetries)
      BY <2>2, <3>1, FieldsTyped DEF ClientInv, TypeOK
    <3>3. StreakIsTail'
      BY <3>1 DEF ClientInv, StreakIsTail, Reported
    <3>. QED
      BY <2>2, <3>2, <3>3, NoTrafficKept, ProbeKept DEF ClientInv
  <2>3. CASE UNCHANGED vars
    BY <2>3 DEF vars, cbVars, ClientInv, TypeOK, CBTypeOK, StreakIsTail, Reported,
                NoTrafficWhileOpen, ProbeWitnesses, ProbeIsHonest
  <2>. QED
    BY <2>1, <2>2, <2>3 DEF Next
<1>. QED
  BY <1>1, <1>2, PTL DEF Spec

(* No request is sent, retried or recorded while the circuit is open
   (complete asks allow once, and only complete can open the circuit). *)
THEOREM OpenMeansSilent == Spec => []NoTrafficWhileOpen
PROOF
  BY ClientInvariance, PTL DEF ClientInv

(* Between calls the circuit is tripped exactly when the last Threshold recorded calls
   all failed (record_failure, record_success). *)
THEOREM LogDecides == Spec => []TrippedByItsLog
PROOF
<1>1. ClientInv => TrippedByItsLog
  BY LogTripsByCount DEF ClientInv, StreakIsTail, TrippedByItsLog
<1>. QED
  BY <1>1, ClientInvariance, PTL

(* A readiness probe that answers closed or open met the circuit so at some moment of
   its reads, and one that answers half_open met it half open or saw it trip, although it
   reads the field up to three times without a lock (CircuitBreaker.state). *)
THEOREM ProbesAreHonest == Spec => []ProbeIsHonest
PROOF
  BY ClientInvariance, PTL DEF ClientInv

(* A failure that ends a run of Threshold or more failures, that of a trial included,
   leaves the circuit open (record_failure). *)
THEOREM TrialsReopen == Spec => FailedTrialReopens
PROOF
<1>1. ClientInv /\ [Next]_vars =>
        [(at = "report" /\ at' = "ready" /\ LogTrips) =>
            CircuitState(openUntil', now') = "open"]_vars
  <2>. SUFFICES ASSUME ClientInv, Next, at = "report", at' = "ready", LogTrips
                PROVE  CircuitState(openUntil', now') = "open"
    OBVIOUS
  <2>1. Report
    BY DEF Next, ClientStep, StartCall, RetryableFailure, FinalFailure, Success, Escape,
           Backoff, FlushRow, Clock, Probe
  <2>2. last # "ok" /\ streak + 1 >= Threshold
    BY LogTripsByCount
  <2>3. openUntil' = now + Cooldown /\ now' = now
    BY <2>1, <2>2 DEF Report, RecordCallFailure
  <2>. QED
    BY <2>3, CircuitBreakerAssumption DEF CircuitState, ClientInv, TypeOK, CBTypeOK
<1>. QED
  BY <1>1, ClientInvariance, PTL DEF Spec, FailedTrialReopens

(* The fields with their clock implement the breaker on which the model of the worker
   rests: a report is one of its two records, the tick that reaches _open_until is the
   end of its cooldown, and everything else is invisible. *)
THEOREM FieldsImplementBreaker == Spec => ImplementsBreaker
PROOF
<1>1. Init => Abstract!BreakerInit
  BY CircuitBreakerAssumption DEF Init, CBInit, Abstract!BreakerInit, CircuitState
<1>2. ClientInv /\ [Next]_vars => [Abstract!BreakerNext]_(Abstract!breakerVars)
  <2>. SUFFICES ASSUME ClientInv, [Next]_vars
                PROVE  Abstract!BreakerNext \/ UNCHANGED Abstract!breakerVars
    OBVIOUS
  <2>. USE CircuitBreakerAssumption DEF ClientInv, TypeOK, CBTypeOK
  <2>1. CASE Report
    <3>1. CASE last = "ok"
      <4>1. Abstract!RecordSuccess
        BY <2>1, <3>1 DEF Report, RecordCallSuccess, Abstract!RecordSuccess, CircuitState
      <4>. QED
        BY <4>1 DEF Abstract!BreakerNext
    <3>2. CASE last # "ok"
      <4>1. /\ now' = now /\ streak' = streak + 1
            /\ openUntil' = IF streak' >= Threshold THEN now + Cooldown ELSE openUntil
        BY <2>1, <3>2 DEF Report, RecordCallFailure
      <4>2. Abstract!RecordFailure
        BY <4>1 DEF Abstract!RecordFailure, CircuitState
      <4>. QED
        BY <4>2 DEF Abstract!BreakerNext
    <3>. QED
      BY <3>1, <3>2
  <2>2. CASE Clock
    <3>1. now' = now + 1 /\ UNCHANGED <<openUntil, streak>>
      BY <2>2 DEF Clock, Tick, fieldVars
    <3>2. CASE CircuitState(openUntil', now') = CircuitState(openUntil, now)
      BY <3>1, <3>2 DEF Abstract!breakerVars
    <3>3. CASE CircuitState(openUntil', now') # CircuitState(openUntil, now)
      <4>1. Abstract!CooldownOver
        BY <3>1, <3>3 DEF Abstract!CooldownOver, CircuitState
      <4>. QED
        BY <4>1 DEF Abstract!BreakerNext
    <3>. QED
      BY <3>2, <3>3
  <2>3. CASE (ClientStep /\ ~ Report) \/ Probe \/ UNCHANGED vars
    <3>1. UNCHANGED <<now, openUntil, streak>>
      BY <2>3 DEF ClientStep, StartCall, RetryableFailure, FinalFailure, Success, Escape,
                  Backoff, FlushRow, BreakerUntouched, Probe, ProbeStep, ProbeTruth,
                  ProbeCompare, ProbeLast, fieldVars, vars, cbVars
    <3>. QED
      BY <3>1 DEF Abstract!breakerVars
  <2>. QED
    BY <2>1, <2>2, <2>3 DEF Next
<1>. QED
  BY <1>1, <1>2, ClientInvariance, PTL DEF Spec, ImplementsBreaker, Abstract!BreakerSpec
=============================================================================
