------------------------------ MODULE Breaker ------------------------------
(***************************************************************************)
(* The circuit breaker as its callers see it (services/llm_client.py       *)
(* CircuitBreaker): a count of consecutive failed calls and the state its  *)
(* `state` property reports.  Time is abstract: the cooldown of an open    *)
(* circuit may end at any moment.                                          *)
(***************************************************************************)
EXTENDS Integers

CONSTANT Threshold  \* settings.circuit_failure_threshold

ASSUME ThresholdAssumption == Threshold \in Nat \ {0}

VARIABLES
    circuit,  \* what `state` reports
    failures  \* _consecutive_failures, counted up to Threshold

breakerVars == <<circuit, failures>>

BreakerTypeOK ==
    /\ circuit \in {"closed", "open", "half_open"}
    /\ failures \in 0..Threshold

BreakerInit ==
    /\ circuit = "closed"
    /\ failures = 0

(* allow(): refused only while the circuit is open. *)
Allows == circuit # "open"

(* record_success(): any success closes the circuit and forgets the failures. *)
RecordSuccess ==
    /\ circuit' = "closed"
    /\ failures' = 0

(* record_failure(): at the threshold, and past it, every failure opens the
   circuit for a new cooldown.  A count beyond Threshold is Threshold. *)
RecordFailure ==
    /\ failures' = IF failures < Threshold THEN failures + 1 ELSE Threshold
    /\ circuit' = IF failures' >= Threshold THEN "open" ELSE circuit

(* time.monotonic() reaches _open_until: the next call is a trial. *)
CooldownOver ==
    /\ circuit = "open"
    /\ circuit' = "half_open"
    /\ UNCHANGED failures
----------------------------------------------------------------------------
(* The breaker on its own: what a client may observe of it. *)
BreakerNext == RecordSuccess \/ RecordFailure \/ CooldownOver
BreakerSpec == BreakerInit /\ [][BreakerNext]_breakerVars
=============================================================================
