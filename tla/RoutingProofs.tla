--------------------------- MODULE RoutingProofs ---------------------------
(***************************************************************************)
(* Routing is total: whatever the table and the label, the result is one   *)
(* of the queues, and it is the queue of the first rule that matches.      *)
(***************************************************************************)
EXTENDS Routing, WellFoundedInduction, TLAPS

(* A non-empty set of positions has a least one. *)
LEMMA LeastPosition ==
    ASSUME NEW S \in SUBSET Nat, S # {}
    PROVE  \E i \in S : \A j \in S : i <= j
PROOF
<1>1. PICK i \in S : \A j \in S : ~ (<<j, i>> \in OpToRel(<, Nat))
  BY NatLessThanWellFounded, WFMin
<1>2. \A j \in S : ~ (j < i)
  BY <1>1 DEF OpToRel
<1>. QED
  BY <1>2

(* The position ResolveQueue chooses is the one resolve_queue's loop stops at:
   the rule matches and no earlier one does. *)
THEOREM FirstMatchDecides ==
    ASSUME NEW table \in Seq(Rules), NEW l \in Labels, Hits(table, l) # {}
    PROVE  \E i \in 1 .. Len(table) :
              /\ Matches(table[i], l)
              /\ \A j \in 1 .. i - 1 : ~ Matches(table[j], l)
              /\ ResolveQueue(table, l) = table[i].queue
PROOF
<1>. DEFINE H == Hits(table, l)
            i == CHOOSE x \in H : \A j \in H : x <= j
<1>1. H \in SUBSET Nat /\ H \subseteq 1 .. Len(table)
  BY DEF Hits
<1>2. i \in H /\ \A j \in H : i <= j
  BY <1>1, LeastPosition
<1>3. Matches(table[i], l) /\ i \in 1 .. Len(table)
  BY <1>2 DEF Hits
<1>4. ResolveQueue(table, l) = table[i].queue
  BY DEF ResolveQueue
<1>5. ASSUME NEW j \in 1 .. i - 1, Matches(table[j], l)
      PROVE  FALSE
  <2>. HIDE DEF i
  <2>1. j \in 1 .. Len(table) /\ j < i
    BY <1>3
  <2>2. j \in H
    BY <1>5, <2>1 DEF Hits
  <2>. QED
    BY <1>2, <1>3, <2>1, <2>2
<1>. QED
  BY <1>3, <1>4, <1>5

(* No ticket is routed outside the known queues. *)
THEOREM RoutingIsTotal ==
    ASSUME NEW table \in Seq(Rules), NEW l \in Labels
    PROVE  ResolveQueue(table, l) \in Queues
PROOF
<1>1. CASE Hits(table, l) = {}
  BY <1>1, RoutingAssumption DEF ResolveQueue
<1>2. CASE Hits(table, l) # {}
  <2>1. PICK i \in 1 .. Len(table) : ResolveQueue(table, l) = table[i].queue
    BY <1>2, FirstMatchDecides
  <2>2. table[i] \in Rules
    OBVIOUS
  <2>. QED
    BY <2>1, <2>2 DEF Rules
<1>. QED
  BY <1>1, <1>2
----------------------------------------------------------------------------
(* The loop of resolve_queue. *)

(* What the loop returns from position i on. *)
Onward(table, l, i) == { j \in Hits(table, l) : i <= j }

FirstFrom(table, l) ==
    [i \in 1 .. Len(table) + 1 |->
        IF Onward(table, l, i) = {} THEN DefaultQueue
        ELSE table[CHOOSE j \in Onward(table, l, i) :
                      \A k \in Onward(table, l, i) : j <= k].queue]

(* One turn of the loop: return the rule's queue, or go on. *)
Turn(table, l, from) ==
    [i \in 1 .. Len(table) + 1 |->
        IF i > Len(table) THEN DefaultQueue
        ELSE IF Matches(table[i], l) THEN table[i].queue
        ELSE from[i + 1]]

LEMMA LoopHasAResult ==
    ASSUME NEW table \in Seq(Rules), NEW l \in Labels
    PROVE  FirstFrom(table, l) = Turn(table, l, FirstFrom(table, l))
PROOF
<1>. DEFINE n == Len(table)
            g == FirstFrom(table, l)
<1>1. n \in Nat
  OBVIOUS
<1>2. Hits(table, l) \subseteq 1 .. n
  BY DEF Hits
<1>3. ASSUME NEW i \in 1 .. n + 1
      PROVE  g[i] = IF i > n THEN DefaultQueue
                    ELSE IF Matches(table[i], l) THEN table[i].queue
                    ELSE g[i + 1]
  <2>. DEFINE O == Onward(table, l, i)
              first == CHOOSE j \in O : \A k \in O : j <= k
  <2>1. g[i] = IF O = {} THEN DefaultQueue ELSE table[first].queue
    BY DEF FirstFrom
  <2>2. CASE i > n
    <3>1. O = {}
      BY <1>1, <1>2, <2>2 DEF Onward
    <3>. QED
      BY <2>1, <2>2, <3>1
  <2>3. CASE i <= n /\ Matches(table[i], l)
    <3>1. i \in O /\ \A k \in O : i <= k
      BY <1>1, <2>3 DEF Onward, Hits
    <3>2. O \in SUBSET Int
      BY <1>1, <1>2 DEF Onward
    <3>3. ASSUME NEW j \in O, \A k \in O : j <= k
          PROVE  j = i
      BY <3>1, <3>2, <3>3
    <3>4. first = i
      <4>. HIDE DEF O
      <4>. QED
        BY <3>1, <3>3
    <3>5. O # {} /\ ~ (i > n)
      BY <1>1, <2>3, <3>1
    <3>. HIDE DEF O, first, g
    <3>. QED
      BY <2>1, <2>3, <3>4, <3>5
  <2>4. CASE i <= n /\ ~ Matches(table[i], l)
    <3>1. O = Onward(table, l, i + 1)
      BY <1>1, <1>2, <2>4 DEF Onward, Hits
    <3>2. i + 1 \in 1 .. n + 1
      BY <1>1, <2>4
    <3>3. g[i + 1] = g[i]
      BY <2>1, <3>1, <3>2 DEF FirstFrom
    <3>. QED
      BY <1>1, <2>4, <3>3
  <2>. QED
    BY <1>1, <2>2, <2>3, <2>4
<1>4. g = [i \in 1 .. n + 1 |-> g[i]]
  BY DEF FirstFrom
<1>. HIDE DEF g
<1>5. g = Turn(table, l, g)
  BY <1>3, <1>4 DEF Turn
<1>. QED
  BY <1>5 DEF g

(* The loop has one result: two functions that obey it differ nowhere, because a
   last position where they differ would have a later one. *)
LEMMA LoopHasOneResult ==
    ASSUME NEW table \in Seq(Rules), NEW l \in Labels,
           NEW f, NEW g, f = Turn(table, l, f), g = Turn(table, l, g)
    PROVE  f = g
PROOF
<1>. DEFINE n == Len(table)
            D == { i \in 1 .. n + 1 : f[i] # g[i] }
            S == { k \in Nat : n + 1 - k \in D }
<1>1. n \in Nat
  OBVIOUS
<1>2. ASSUME D # {}
      PROVE  FALSE
  <2>1. S # {} /\ S \in SUBSET Nat
    <3>1. PICK i \in 1 .. n + 1 : f[i] # g[i]
      BY <1>2
    <3>2. n + 1 - i \in Nat /\ n + 1 - (n + 1 - i) = i
      BY <1>1
    <3>. QED
      BY <3>1, <3>2
  <2>2. PICK k \in S : \A j \in S : k <= j
    BY <2>1, LeastPosition
  <2>. DEFINE i == n + 1 - k
  <2>3. k \in Nat /\ i \in 1 .. n + 1 /\ f[i] # g[i]
    OBVIOUS
  <2>4. f[i] = IF i > n THEN DefaultQueue
               ELSE IF Matches(table[i], l) THEN table[i].queue ELSE f[i + 1]
    BY <2>3 DEF Turn
  <2>5. g[i] = IF i > n THEN DefaultQueue
               ELSE IF Matches(table[i], l) THEN table[i].queue ELSE g[i + 1]
    BY <2>3 DEF Turn
  <2>6. i <= n /\ f[i + 1] # g[i + 1]
    BY <1>1, <2>3, <2>4, <2>5
  <2>7. k - 1 \in Nat /\ n + 1 - (k - 1) = i + 1 /\ i + 1 \in 1 .. n + 1
    BY <1>1, <2>3, <2>6
  <2>8. k - 1 \in S
    BY <2>6, <2>7
  <2>. QED
    BY <2>2, <2>3, <2>8
<1>3. \A i \in 1 .. n + 1 : f[i] = g[i]
  BY <1>2
<1>4. /\ f = [i \in 1 .. n + 1 |-> f[i]]
      /\ g = [i \in 1 .. n + 1 |-> g[i]]
  BY DEF Turn
<1>. QED
  BY <1>3, <1>4

(* For tables of every length the loop of resolve_queue returns the queue of the
   matching rule of least position, or the default queue. *)
THEOREM LoopComputesFirstMatch ==
    ASSUME NEW table \in Seq(Rules), NEW l \in Labels
    PROVE  ScanRules(table, l) = ResolveQueue(table, l)
PROOF
<1>. DEFINE from == CHOOSE f : f = Turn(table, l, f)
<1>1. from = Turn(table, l, from)
  BY LoopHasAResult
<1>2. from = FirstFrom(table, l)
  BY <1>1, LoopHasAResult, LoopHasOneResult
<1>3. ScanRules(table, l) = from[1]
  BY DEF ScanRules, Turn
<1>4. Onward(table, l, 1) = Hits(table, l)
  BY DEF Onward, Hits
<1>5. 1 \in 1 .. Len(table) + 1
  OBVIOUS
<1>6. FirstFrom(table, l)[1] = ResolveQueue(table, l)
  <2>. DEFINE O == Onward(table, l, 1)
  <2>1. FirstFrom(table, l)[1] =
          IF O = {} THEN DefaultQueue
          ELSE table[CHOOSE j \in O : \A k \in O : j <= k].queue
    BY <1>5 DEF FirstFrom
  <2>. QED
    BY <1>4, <2>1 DEF ResolveQueue
<1>. HIDE DEF from
<1>. QED
  BY <1>2, <1>3, <1>6

----------------------------------------------------------------------------
(* What an operator's edit does to the routing. *)

(* A set of positions has one least element, whichever way it is described. *)
LEMMA LeastIsUnique ==
    ASSUME NEW S \in SUBSET Int, NEW i \in S, \A j \in S : i <= j
    PROVE  (CHOOSE x \in S : \A j \in S : x <= j) = i
PROOF
<1>1. ASSUME NEW x \in S, \A j \in S : x <= j
      PROVE  x = i
  BY <1>1
<1>. QED
  BY <1>1

(* A rule at the end is only reached by what no rule before it matches. *)
LEMMA AppendedRuleComesLast ==
    ASSUME NEW table \in Seq(Rules), NEW r \in Rules, NEW l \in Labels
    PROVE  ResolveQueue(Append(table, r), l) =
              IF Hits(table, l) # {} THEN ResolveQueue(table, l)
              ELSE IF Matches(r, l) THEN r.queue ELSE DefaultQueue
PROOF
<1>. DEFINE n == Len(table)
            longer == Append(table, r)
            H == Hits(table, l)
            G == Hits(longer, l)
<1>1. /\ n \in Nat /\ longer \in Seq(Rules) /\ Len(longer) = n + 1
      /\ \A i \in 1 .. n : longer[i] = table[i]
      /\ longer[n + 1] = r
  OBVIOUS
<1>2. H = { i \in 1 .. n : Matches(table[i], l) }
  BY DEF Hits
<1>3. G = { i \in 1 .. n + 1 : Matches(longer[i], l) }
  BY <1>1 DEF Hits
<1>. HIDE DEF n, longer, H, G
<1>4. G = H \cup (IF Matches(r, l) THEN {n + 1} ELSE {})
  BY <1>1, <1>2, <1>3
<1>5. CASE H # {}
  <2>1. H \in SUBSET Nat
    BY <1>1, <1>2
  <2>2. PICK i \in H : \A j \in H : i <= j
    BY <1>5, <2>1, LeastPosition
  <2>3. i \in G /\ \A j \in G : i <= j
    BY <1>1, <1>2, <1>4, <2>2
  <2>4. /\ (CHOOSE x \in H : \A j \in H : x <= j) = i
        /\ (CHOOSE x \in G : \A j \in G : x <= j) = i
    <3>1. H \in SUBSET Int /\ G \in SUBSET Int
      BY <1>1, <1>2, <1>3
    <3>. QED
      BY <2>2, <2>3, <3>1, LeastIsUnique
  <2>5. ResolveQueue(table, l) = table[i].queue
    BY <1>5, <2>4 DEF ResolveQueue, H
  <2>6. ResolveQueue(longer, l) = longer[i].queue
    BY <2>3, <2>4 DEF ResolveQueue, G
  <2>. QED
    BY <1>1, <1>2, <1>5, <2>2, <2>5, <2>6 DEF H, longer
<1>6. CASE H = {} /\ Matches(r, l)
  <2>1. G = {n + 1}
    BY <1>4, <1>6
  <2>2. (CHOOSE x \in G : \A j \in G : x <= j) = n + 1
    BY <1>1, <2>1, LeastIsUnique
  <2>3. ResolveQueue(longer, l) = longer[n + 1].queue
    BY <2>1, <2>2 DEF ResolveQueue, G
  <2>. QED
    BY <1>1, <1>6, <2>3 DEF H, longer
<1>7. CASE H = {} /\ ~ Matches(r, l)
  <2>1. G = {}
    BY <1>4, <1>7
  <2>. QED
    BY <1>7, <2>1 DEF ResolveQueue, H, G, longer
<1>. QED
  BY <1>5, <1>6, <1>7

(* A rule alone in a table decides what it matches. *)
LEMMA LoneRule ==
    ASSUME NEW r \in Rules, NEW l \in Labels, Matches(r, l)
    PROVE  ResolveQueue(<<r>>, l) = r.queue
PROOF
<1>. DEFINE H == Hits(<<r>>, l)
<1>1. H = {1}
  BY DEF Hits
<1>2. (CHOOSE x \in H : \A j \in H : x <= j) = 1
  BY <1>1, LeastIsUnique
<1>3. ResolveQueue(<<r>>, l) = <<r>>[1].queue
  BY <1>1, <1>2 DEF ResolveQueue
<1>. QED
  BY <1>3

(* Without one of its conditions a rule matches what it matched. *)
LEMMA FewerConditionsMatchMore ==
    ASSUME NEW r \in Rules, NEW l \in Labels, Matches(r, l),
           NEW f \in {"intent", "priority", "sentiment"}
    PROVE  /\ Matches([r EXCEPT ![f] = Wildcard], l)
           /\ [r EXCEPT ![f] = Wildcard].queue = r.queue
PROOF
<1>1. CASE f = "intent"
  BY <1>1 DEF Matches, Rules
<1>2. CASE f = "priority"
  BY <1>2 DEF Matches, Rules
<1>3. CASE f = "sentiment"
  BY <1>3 DEF Matches, Rules
<1>. QED
  BY <1>1, <1>2, <1>3
=============================================================================
