------------------------------ MODULE Routing ------------------------------
(***************************************************************************)
(* First-match routing of a labelled ticket to a queue                     *)
(* (app/services/routing.py), and what a rule table may hold               *)
(* (app/schemas/rules.py, the CHECKs of app/models.py RoutingRule).        *)
(***************************************************************************)
EXTENDS Integers, Sequences

CONSTANTS
    Intents, Priorities, Sentiments,  \* the label sets of schemas/triage.py
    Queues,                           \* the queue names rules may mention
    DefaultQueue,                     \* settings.default_queue
    Wildcard,                              \* a NULL condition: matches every label
    None                              \* an absent row or a NULL column

ASSUME RoutingAssumption ==
    /\ Intents # {} /\ Priorities # {} /\ Sentiments # {}
    /\ DefaultQueue \in Queues
    /\ Wildcard \notin Intents \cup Priorities \cup Sentiments
    /\ None \notin Queues

(* What triage, or a human, says of a ticket. *)
Labels == [intent: Intents, priority: Priorities, sentiment: Sentiments]

(* A rule names at least one condition (ck_routing_rules_at_least_one). *)
Rules == { r \in [intent: Intents \cup {Wildcard}, priority: Priorities \cup {Wildcard},
                  sentiment: Sentiments \cup {Wildcard}, queue: Queues] :
             ~ (r.intent = Wildcard /\ r.priority = Wildcard /\ r.sentiment = Wildcard) }

----------------------------------------------------------------------------
(* Mutants: conditions OR-ed, a wildcard that matches nothing, the last match
   instead of the first. *)

MatchesOnAnyCondition(r, l) ==
    \/ r.intent    = l.intent
    \/ r.priority  = l.priority
    \/ r.sentiment = l.sentiment

MatchesWithoutWildcard(r, l) ==
    /\ r.intent    = l.intent
    /\ r.priority  = l.priority
    /\ r.sentiment = l.sentiment

ScanSkippingFirst(rules, l) ==
    LET from[i \in 1 .. Len(rules) + 1] ==
          IF i > Len(rules) THEN DefaultQueue
          ELSE IF /\ rules[i].intent    \in {Wildcard, l.intent}
                  /\ rules[i].priority  \in {Wildcard, l.priority}
                  /\ rules[i].sentiment \in {Wildcard, l.sentiment}
               THEN rules[i].queue
               ELSE from[i + 1]
    IN  IF rules = <<>> THEN DefaultQueue ELSE from[2]

----------------------------------------------------------------------------
(* A null condition is a wildcard; the conditions of a rule are AND-ed. *)
Matches(r, l) ==
    /\ r.intent    \in {Wildcard, l.intent}
    /\ r.priority  \in {Wildcard, l.priority}
    /\ r.sentiment \in {Wildcard, l.sentiment}

(* The loop of resolve_queue, as the code runs it. *)
ScanRules(rules, l) ==
    LET from[i \in 1 .. Len(rules) + 1] ==
          IF i > Len(rules) THEN DefaultQueue
          ELSE IF Matches(rules[i], l) THEN rules[i].queue
          ELSE from[i + 1]
    IN  from[1]

(* What the loop computes: the queue of the matching rule of least position, or
   the default queue when no rule matches. *)
Hits(rules, l) == { i \in 1 .. Len(rules) : Matches(rules[i], l) }

ResolveQueue(rules, l) ==
    IF Hits(rules, l) = {} THEN DefaultQueue
    ELSE rules[CHOOSE i \in Hits(rules, l) : \A j \in Hits(rules, l) : i <= j].queue
=============================================================================
