----------------------------- MODULE MCRouting -----------------------------
(***************************************************************************)
(* Routing as a machine that TLC can enumerate: the operator's table is    *)
(* replaced, by one request or by several that overlap, a ticket is        *)
(* labelled, the loop of resolve_queue runs on the table that it loads.    *)
(***************************************************************************)
EXTENDS RulesReplace, TLC

CONSTANTS
    MaxRules,  \* length bound on the tables
    refund, bug, p0, p2, billing, general

ASSUME MaxRulesAssumption == MaxRules \in Nat

VARIABLES labels, queue

vars == <<putVars, labels, queue>>

rules == LoadRules

Tables == UNION { [1..n -> Rules] : n \in 0..MaxRules }

MCRule(i, p, q) == [intent |-> i, priority |-> p, sentiment |-> Wildcard, queue |-> q]

MCRefunds == <<MCRule(refund, Wildcard, billing)>>
MCUrgent  == <<MCRule(Wildcard, p0, general), MCRule(refund, Wildcard, billing)>>
MCPayloads == {<<>>, MCRefunds, MCUrgent}

MCInterchangeable == Permutations(Writers)

Init ==
    /\ PutInit
    /\ labels = None
    /\ queue = None

(* PUT /rules by a request that meets no other: the whole ordered table is replaced. *)
ReplaceRules ==
    /\ labels = None
    /\ rows = {} /\ \A w \in Writers : put[w] = NotPut
    /\ \E table \in Tables : rows' = RowsOf("seed", table)
    /\ UNCHANGED <<put, labels, queue>>

(* Requests that overlap, on the tables of Payloads. *)
Overlap ==
    /\ labels = None
    /\ rules \in Payloads
    /\ PutStep
    /\ UNCHANGED <<labels, queue>>

(* A verdict or a correction is routed by the table. *)
Route ==
    /\ labels = None
    /\ labels' \in Labels
    /\ queue' = ScanRules(rules, labels')
    /\ UNCHANGED putVars

Again ==
    /\ labels # None
    /\ labels' = None
    /\ queue' = None
    /\ UNCHANGED putVars

Next == ReplaceRules \/ Overlap \/ Route \/ Again

Spec == Init /\ [][Next]_vars

(* A request as RuleTable sees it. *)
Stage(w) ==
    CASE put[w].at \in {"delete", "insert"}      -> "open"
      [] put[w].at \in {"failed", "unanswered"}  -> "failed"
      [] OTHER -> put[w].at

Request(w) == [at |-> Stage(w), payload |-> put[w].payload, answer |-> put[w].answer]

Requested == [w \in Writers |-> Request(w)]

Table == INSTANCE RuleTable WITH
    Requests <- Writers,
    table    <- rules,
    request  <- Requested

----------------------------------------------------------------------------
(* The loop stops at the matching rule of least position, for every table up to
   the bound and every labelling (routing.py resolve_queue, "the first rule
   whose non-null conditions all match wins"). *)
LoopFindsFirstMatch ==
    labels # None => queue = ResolveQueue(rules, labels)

(* A rule appended to the table takes tickets from the default queue only: it
   never moves a ticket that some rule already routed (routing.py: the for loop
   returns at the first match). *)
AppendedRuleTakesOnlyDefaulted ==
    labels # None =>
        \A r \in Rules :
            LET moved == ScanRules(Append(rules, r), labels)
            IN  moved # queue => Hits(rules, labels) = {} /\ moved = r.queue

(* Dropping a condition of a rule (NULL, the wildcard) only widens it: the ticket
   a rule takes is still taken by it (routing.py: a NULL condition never
   excludes). *)
DroppingAConditionOnlyWidens ==
    labels # None =>
        \A i \in Hits(rules, labels), f \in {"intent", "priority", "sentiment"} :
            LET wider == [rules[i] EXCEPT ![f] = Wildcard]
            IN  wider \in Rules => ScanRules(<<wider>>, labels) = rules[i].queue

(* However the statements of PUTs alternate, each replaces the table in one step or not
   at all: the rest of the service may take PUT /rules as atomic (routing.py
   replace_rules, "Atomically replace the whole ordered rule set").  In particular a PUT
   of at least one rule that commits leaves its own table and nothing else. *)
ReplacesAtomically == Table!Spec
=============================================================================
