--------------------------- MODULE CircuitBreaker --------------------------
(***************************************************************************)
(* The breaker's fields and methods (services/llm_client.py                *)
(* CircuitBreaker), with the clock they read.  The worker thread alone     *)
(* calls allow and the record methods; a readiness probe reads `state`     *)
(* from a request thread, field by field and without a lock.               *)
(***************************************************************************)
EXTENDS Integers

CONSTANTS
    Threshold,  \* settings.circuit_failure_threshold
    Cooldown,   \* settings.circuit_cooldown_seconds, in ticks
    MaxNow      \* bound on the clock

ASSUME CircuitBreakerAssumption ==
    /\ Threshold \in Nat \ {0}
    /\ Cooldown \in Nat \ {0}
    /\ MaxNow \in Nat \ {0}

VARIABLES
    now,        \* time.monotonic()
    openUntil,  \* _open_until, 0 (falsy) while the circuit never opened
    streak,     \* _consecutive_failures
    probe,      \* the probe's place in `state`, or what it returned
    witnessed   \* history: the states the circuit was in during the probe

fieldVars == <<openUntil, streak>>
cbVars    == <<now, openUntil, streak, probe, witnessed>>

(* What the circuit is at a moment, to somebody who reads all of it at once. *)
CircuitState(until, time) ==
    IF until = 0 THEN "closed" ELSE IF time < until THEN "open" ELSE "half_open"

CBTypeOK ==
    /\ now \in 1..MaxNow
    /\ openUntil \in {0} \cup (1 + Cooldown) .. (MaxNow + Cooldown)
    /\ streak \in Nat
    /\ probe \in {"idle", "compare", "last", "closed", "open", "half_open"}
    /\ witnessed \subseteq {"closed", "open", "half_open"}

CBInit ==
    /\ now = 1
    /\ openUntil = 0
    /\ streak = 0
    /\ probe = "idle"
    /\ witnessed = {}

(* A probe in progress witnesses the state each step of the others leaves. *)
Witness ==
    /\ witnessed' = IF probe \in {"compare", "last"}
                    THEN witnessed \cup {CircuitState(openUntil', now')}
                    ELSE witnessed
    /\ UNCHANGED probe

----------------------------------------------------------------------------
(* Mutants: a success that does not forget the failures, a failed trial that does
   not renew the cooldown, a threshold missed by one, a breaker nobody asks, a `state` whose last read is
   taken for "open". *)

SuccessKeepsCount ==
    /\ openUntil' = 0
    /\ UNCHANGED streak

FailureOpensOnce ==
    /\ streak' = streak + 1
    /\ openUntil' = IF streak' = Threshold THEN now + Cooldown ELSE openUntil

FailureOpensLate ==
    /\ streak' = streak + 1
    /\ openUntil' = IF streak' > Threshold THEN now + Cooldown ELSE openUntil

AlwaysAllowed == TRUE

LastReadSaysOpen ==
    /\ probe = "last"
    /\ probe' = IF openUntil # 0 THEN "open" ELSE "closed"
    /\ UNCHANGED <<now, openUntil, streak, witnessed>>

----------------------------------------------------------------------------
Allow == ~ (openUntil # 0 /\ now < openUntil)

RecordCallSuccess ==
    /\ streak' = 0
    /\ openUntil' = 0

(* At the threshold and beyond: a failed trial opens the circuit again. *)
RecordCallFailure ==
    /\ streak' = streak + 1
    /\ openUntil' = IF streak' >= Threshold THEN now + Cooldown ELSE openUntil

Tick ==
    /\ now < MaxNow
    /\ now' = now + 1
    /\ UNCHANGED fieldVars
    /\ Witness

----------------------------------------------------------------------------
(* `state` reads _open_until up to three times. *)

(* if self._open_until ... *)
ProbeTruth ==
    /\ probe \notin {"compare", "last"}
    /\ probe' = IF openUntil # 0 THEN "compare" ELSE "last"
    /\ witnessed' = {CircuitState(openUntil, now)}
    /\ UNCHANGED <<now, fieldVars>>

(* ... and time.monotonic() < self._open_until: "open" *)
ProbeCompare ==
    /\ probe = "compare"
    /\ probe' = IF now < openUntil THEN "open" ELSE "last"
    /\ UNCHANGED <<now, fieldVars, witnessed>>

(* if self._open_until: "half_open", else "closed" *)
ProbeLast ==
    /\ probe = "last"
    /\ probe' = IF openUntil # 0 THEN "half_open" ELSE "closed"
    /\ UNCHANGED <<now, fieldVars, witnessed>>

ProbeStep == ProbeTruth \/ ProbeCompare \/ ProbeLast
=============================================================================
