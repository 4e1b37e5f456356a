----------------------------- MODULE LlmClient -----------------------------
(***************************************************************************)
(* LlmClient.complete and its retry loop (services/llm_client.py), called  *)
(* by the worker thread, with the breaker it consults and records into.    *)
(* The provider is external: an attempt ends in any way the loop tells     *)
(* apart.  TriageWorker takes a whole call as one step; this module is     *)
(* what that step stands for.                                              *)
(***************************************************************************)
EXTENDS CircuitBreaker, Sequences

CONSTANTS
    MaxRetries,  \* settings.llm_max_retries
    MaxCalls     \* bound on the calls recorded

ASSUME LlmClientAssumption ==
    /\ MaxRetries \in Nat
    /\ MaxCalls \in Nat

VARIABLES
    at,       \* where the thread is: outside ("ready"), or in complete()
    attempt,  \* the loop counter of _attempt_with_retries
    last,     \* last_outcome, or "ok"
    log       \* outcomes of the llm_calls rows flushed so far

vars == <<cbVars, at, attempt, last, log>>

TypeOK ==
    /\ CBTypeOK
    /\ at \in {"ready", "post", "backoff", "flush", "report"}
    /\ attempt \in 0..MaxRetries
    /\ last \in {"ok", "timeout", "api_error"}
    /\ log \in Seq({"ok", "timeout", "api_error"})

Init ==
    /\ CBInit
    /\ at = "ready"
    /\ attempt = 0
    /\ last = "api_error"
    /\ log = <<>>

(* What a step of the thread that leaves the breaker's fields alone does to it. *)
BreakerUntouched ==
    /\ UNCHANGED <<now, fieldVars>>
    /\ Witness

----------------------------------------------------------------------------
(* Mutants: one retry too many, and a loop that does not count. *)

RetryOnceMore(o) ==
    /\ last' = o
    /\ at' = IF attempt <= MaxRetries THEN "backoff" ELSE "flush"

BackoffWithoutCounting ==
    /\ at = "backoff"
    /\ at' = "post"
    /\ BreakerUntouched
    /\ UNCHANGED <<attempt, last, log>>

----------------------------------------------------------------------------
(* complete(): refused (CircuitOpenError) while the breaker is open, a step that
   changes nothing. *)
StartCall ==
    /\ at = "ready"
    /\ Allow
    /\ Len(log) < MaxCalls
    /\ at' = "post"
    /\ attempt' = 0
    /\ last' = "api_error"
    /\ BreakerUntouched
    /\ UNCHANGED log

(* An attempt that may be repeated: back off, or return the outcome after the
   last one. *)
RetryOrReturn(o) ==
    /\ last' = o
    /\ at' = IF attempt < MaxRetries THEN "backoff" ELSE "flush"

(* TimeoutException or TransportError; 429, 500, 502, 503, 504; a 200 whose body
   is no JSON. *)
RetryableFailure ==
    /\ at = "post"
    /\ \E o \in {"timeout", "api_error"} : RetryOrReturn(o)
    /\ BreakerUntouched
    /\ UNCHANGED <<attempt, log>>

(* Any other status returns at once; 408 counts as a timeout. *)
FinalFailure ==
    /\ at = "post"
    /\ last' \in {"timeout", "api_error"}
    /\ at' = "flush"
    /\ BreakerUntouched
    /\ UNCHANGED <<attempt, log>>

(* A 200 with a JSON object. *)
Success ==
    /\ at = "post"
    /\ last' = "ok"
    /\ at' = "flush"
    /\ BreakerUntouched
    /\ UNCHANGED <<attempt, log>>

(* An exception the loop does not catch (a 200 whose JSON is no object), or a
   flush that fails: complete() is left with no row and no record. *)
Escape ==
    /\ at \in {"post", "flush"}
    /\ at' = "ready"
    /\ BreakerUntouched
    /\ UNCHANGED <<attempt, last, log>>

(* _sleep_backoff, continue *)
Backoff ==
    /\ at = "backoff"
    /\ at' = "post"
    /\ attempt' = attempt + 1
    /\ BreakerUntouched
    /\ UNCHANGED <<last, log>>

(* db.add(call); db.flush() *)
FlushRow ==
    /\ at = "flush"
    /\ log' = Append(log, last)
    /\ at' = "report"
    /\ BreakerUntouched
    /\ UNCHANGED <<attempt, last>>

(* record_failure() and ProviderError, or record_success() and the result. *)
Report ==
    /\ at = "report"
    /\ IF last = "ok" THEN RecordCallSuccess ELSE RecordCallFailure
    /\ UNCHANGED now
    /\ Witness
    /\ at' = "ready"
    /\ UNCHANGED <<attempt, last, log>>

ClientStep ==
    \/ StartCall
    \/ RetryableFailure
    \/ FinalFailure
    \/ Success
    \/ Escape
    \/ Backoff
    \/ FlushRow
    \/ Report

Clock == Tick /\ UNCHANGED <<at, attempt, last, log>>
Probe == ProbeStep /\ UNCHANGED <<at, attempt, last, log>>

Next == ClientStep \/ Clock \/ Probe

(* A call in progress is driven on by the thread that makes it. *)
Spec == Init /\ [][Next]_vars
FairSpec == Spec /\ WF_vars(ClientStep)

----------------------------------------------------------------------------
(* No request goes out, and no retry of one, while the circuit is open: the
   worker skips the provider entirely (docs/architecture.md, Provider
   resilience).  The circuit cannot open under a call in progress. *)
NoTrafficWhileOpen ==
    at \in {"post", "backoff", "flush", "report"} =>
        CircuitState(openUntil, now) # "open"

LogTrips ==
    /\ Len(log) >= Threshold
    /\ \A i \in Len(log) - Threshold + 1 .. Len(log) : log[i] # "ok"

(* The circuit is tripped exactly when the last Threshold recorded calls all
   failed: retries inside a call do not count, a success in between forgets, a
   failed trial trips again (llm_client.py record_failure, complete). *)
TrippedByItsLog ==
    at # "report" => ((openUntil # 0) <=> LogTrips)

(* Every failure that ends a run of Threshold or more, a failed trial too, leaves
   the circuit open for a new cooldown ("failure reopens it",
   docs/architecture.md; llm_client.py record_failure). *)
FailedTrialReopens ==
    [][(at = "report" /\ at' = "ready" /\ LogTrips) =>
          CircuitState(openUntil', now') = "open"]_vars

(* A probe that reports closed or open met the circuit so at some moment of its
   reads.  A report of half_open may be of no moment, but then the circuit tripped
   under the probe, closed at one moment and open at a later one: it is never made of a
   circuit that was closed, or open, all the time (llm_client.py state, health.py
   _breaker_state). *)
ProbeIsHonest ==
    /\ probe \in {"closed", "open"} => probe \in witnessed
    /\ probe = "half_open" =>
          "half_open" \in witnessed \/ {"closed", "open"} \subseteq witnessed

(* Every call ends: the retry loop is bounded and its end is reached whatever the
   provider answers ("No unbounded waits", docs/architecture.md). *)
EveryCallEnds == (at # "ready") ~> (at = "ready")

----------------------------------------------------------------------------
(* The inductive invariant. *)

(* The rows the breaker has heard of: the last one is reported after its flush. *)
Reported == IF at = "report" THEN Len(log) - 1 ELSE Len(log)

(* The count of failures is the length of the failed tail of what was reported, and
   the circuit is tripped from the threshold on. *)
StreakIsTail ==
    /\ streak <= Reported
    /\ \A i \in Reported - streak + 1 .. Reported : log[i] # "ok"
    /\ streak < Reported => log[Reported - streak] = "ok"
    /\ (openUntil # 0) <=> (streak >= Threshold)
    /\ at = "report" => Len(log) > 0 /\ log[Len(log)] = last

(* A probe in progress has witnessed the state the circuit is in; before its last read
   the circuit was half open, or it was closed and has opened since if it is tripped. *)
ProbeWitnesses ==
    /\ probe \in {"compare", "last"} => CircuitState(openUntil, now) \in witnessed
    /\ probe = "last" =>
          \/ "half_open" \in witnessed
          \/ "closed" \in witnessed /\ (openUntil # 0 => "open" \in witnessed)

ClientInv ==
    /\ TypeOK
    /\ at = "backoff" => attempt < MaxRetries
    /\ StreakIsTail
    /\ NoTrafficWhileOpen
    /\ ProbeWitnesses
    /\ ProbeIsHonest

----------------------------------------------------------------------------
(* The fields implement the breaker TriageWorker is built on. *)
Abstract == INSTANCE Breaker WITH
    circuit  <- CircuitState(openUntil, now),
    failures <- IF streak < Threshold THEN streak ELSE Threshold

ImplementsBreaker == Abstract!BreakerSpec
=============================================================================
