--------------------------- MODULE EvalGateProofs ---------------------------
(***************************************************************************)
(* The regression gate over any sequence of evaluation runs, edits of the  *)
(* dataset and deaths, for datasets, answers and labels of any number.     *)
(***************************************************************************)
EXTENDS EvalGate, FiniteSetTheorems, SequenceTheorems, WellFoundedInduction, TLAPS

----------------------------------------------------------------------------
(* The rows of a run. *)

LEMMA DatasetsAreRows ==
    ASSUME NEW rows \in Datasets
    PROVE  rows \in Seq([Fields -> GoldLabels]) /\ Len(rows) \in Nat \ {0}
PROOF
<1>1. rows \in Seq([Fields -> GoldLabels]) /\ rows # <<>>
  BY EvalAssumption
<1>. QED
  BY <1>1, EmptySeq, LenProperties

LEMMA ResultsTyped ==
    /\ \A p \in Predictions : Predicted(p) \in RowResults /\ Predicted(p).failure = "none"
    /\ \A r \in Failures : Failed(r) \in RowResults /\ Failed(r).failure = r
PROOF
  BY DEF RowResults, Predicted, Failed

LEMMA NewRow ==
    ASSUME NEW done \in Seq(RowResults), NEW r \in RowResults
    PROVE  /\ Append(done, r) \in Seq(RowResults)
           /\ Len(Append(done, r)) = Len(done) + 1
           /\ \A i \in 1 .. Len(done) : Append(done, r)[i] = done[i]
           /\ Append(done, r)[Len(done) + 1] = r
PROOF
  BY AppendProperties

(* --limit selects no more rows than there are, and all of them if it is not given. *)
LEMMA SelectedRows ==
    ASSUME run.rows \in Datasets, run.limit \in Int
    PROVE  /\ \A n \in Nat : n < Len(Selected) => n < Len(run.rows)
           /\ Len(Selected) \in Nat
           /\ run.limit = 0 => Len(Selected) = Len(run.rows)
PROOF
<1>. DEFINE rows == run.rows
            stop == IF run.limit > 0 THEN run.limit ELSE Len(rows) + run.limit
            least == Min({stop, Len(rows)})
<1>1. rows \in Seq([Fields -> GoldLabels]) /\ Len(rows) \in Nat \ {0}
  BY DatasetsAreRows
<1>2. stop \in Int
  BY <1>1
<1>3. least = IF stop <= Len(rows) THEN stop ELSE Len(rows)
  <2>. DEFINE S == {stop, Len(rows)}
  <2>1. \E x \in S : \A y \in S : x =< y
    BY <1>1, <1>2
  <2>2. least \in S /\ \A y \in S : least =< y
    BY <2>1, Zenon DEF Min
  <2>. HIDE DEF least, stop
  <2>. QED
    BY <1>1, <1>2, <2>2
<1>4. Selected = SubSeq(rows, 1, least)
  BY DEF Selected
<1>. HIDE DEF stop, least
<1>5. least \in Int /\ least <= Len(rows)
  BY <1>1, <1>2, <1>3
<1>6. Len(Selected) = IF 1 <= least THEN least ELSE 0
  <2>1. \A i \in 1 .. least : i \in 1 .. Len(rows) /\ rows[i] \in [Fields -> GoldLabels]
    BY <1>1, <1>5
  <2>. QED
    BY <1>1, <1>4, <1>5, <2>1, SubSeqProperties
<1>7. run.limit = 0 => least = Len(rows)
  BY <1>1, <1>3 DEF stop
<1>. QED
  BY <1>1, <1>5, <1>6, <1>7

----------------------------------------------------------------------------
(* Rates and their rounding. *)

LEMMA Quotient ==
    ASSUME NEW a \in Nat, NEW b \in Nat \ {0}
    PROVE  a \div b \in Nat /\ b * (a \div b) <= a /\ a < b * (a \div b) + b
PROOF
  OBVIOUS

(* A rounded rate is off by at most one unit. *)
LEMMA RoundedIsNear ==
    ASSUME NEW n \in Nat, NEW d \in Nat \ {0}
    PROVE  /\ Rounded(<<n, d>>) \in Nat
           /\ Rounded(<<n, d>>) * d <= Unit * n + d
           /\ Unit * n <= Rounded(<<n, d>>) * d + d
PROOF
<1>. DEFINE a == 2 * Unit * n + d
            b == 2 * d
            q == a \div b
<1>1. a \in Nat /\ b \in Nat \ {0}
  BY DEF Unit
<1>2. Rounded(<<n, d>>) = q
  BY DEF Rounded
<1>3. q \in Nat /\ b * q <= a /\ a < b * q + b
  BY <1>1, Quotient
<1>. HIDE DEF q
<1>4. 2 * (q * d) <= 2 * (Unit * n) + d /\ 2 * (Unit * n) + d < 2 * (q * d) + 2 * d
  BY <1>3 DEF Unit
<1>5. q * d \in Nat /\ Unit * n \in Nat
  BY <1>3 DEF Unit
<1>. QED
  BY <1>2, <1>3, <1>4, <1>5

LEMMA Times ==
    ASSUME NEW a \in Int, NEW b \in Int, NEW c \in Nat, a <= b
    PROVE  a * c <= b * c
PROOF
  OBVIOUS

(* What is left of a comparison with a rounded rate once it is rid of denominators. *)
LEMMA NotFallen ==
    ASSUME NEW a \in Nat, NEW b \in Nat \ {0}, NEW c \in Nat, NEW d \in Nat \ {0},
           ~ Fell(<<a, b>>, Rounded(<<c, d>>))
    PROVE  AtLeast(a, b, c, d, RegressionThreshold + 1)
PROOF
<1>. DEFINE q == Rounded(<<c, d>>)
            t == RegressionThreshold
<1>1. q \in Nat /\ Unit * c <= q * d + d /\ t \in Nat /\ Unit \in Nat
  BY RoundedIsNear, EvalAssumption DEF Unit
<1>2. q * b <= a * Unit + t * b
  BY <1>1 DEF Fell, Unit
<1>. HIDE DEF q, t
<1>3. (q * b) * d <= (a * Unit + t * b) * d
  BY <1>1, <1>2, Times
<1>4. (Unit * c) * b <= (q * d + d) * b
  BY <1>1, Times
<1>5. a * d * Unit + (t + 1) * b * d >= c * b * Unit
  BY <1>1, <1>3, <1>4
<1>. QED
  BY <1>5 DEF AtLeast, t

LEMMA NotRisen ==
    ASSUME NEW a \in Nat, NEW b \in Nat \ {0}, NEW c \in Nat, NEW d \in Nat \ {0},
           ~ Rose(<<a, b>>, Rounded(<<c, d>>))
    PROVE  AtLeast(c, d, a, b, RegressionThreshold + 1)
PROOF
<1>. DEFINE q == Rounded(<<c, d>>)
            t == RegressionThreshold
<1>1. q \in Nat /\ q * d <= Unit * c + d /\ t \in Nat /\ Unit \in Nat
  BY RoundedIsNear, EvalAssumption DEF Unit
<1>2. a * Unit <= q * b + t * b
  BY <1>1 DEF Rose, Unit
<1>. HIDE DEF q, t
<1>3. (a * Unit) * d <= (q * b + t * b) * d
  BY <1>1, <1>2, Times
<1>4. (q * d) * b <= (Unit * c + d) * b
  BY <1>1, Times
<1>5. c * b * Unit + (t + 1) * d * b >= a * d * Unit
  BY <1>1, <1>3, <1>4
<1>. QED
  BY <1>5 DEF AtLeast, t

(* What is counted in the results of a run. *)
LEMMA PositionsCount ==
    ASSUME NEW done \in Seq(RowResults), NEW S \in SUBSET (DOMAIN done)
    PROVE  Cardinality(S) \in Nat /\ IsFiniteSet(S) /\ (Len(done) = 0 => Cardinality(S) = 0)
PROOF
<1>1. DOMAIN done = 1 .. Len(done) /\ Len(done) \in Nat
  OBVIOUS
<1>2. IsFiniteSet(1 .. Len(done)) /\ S \in SUBSET (1 .. Len(done))
  BY <1>1, FS_Interval
<1>3. IsFiniteSet(S) /\ Cardinality(S) \in Nat
  BY <1>2, FS_Subset, FS_CardinalityType
<1>4. Len(done) = 0 => S = {}
  BY <1>2
<1>. QED
  BY <1>3, <1>4, FS_EmptySet

(* A rate over no rows is 0/1 and loses every comparison of counts harmlessly. *)
LEMMA RatesCompared ==
    ASSUME NEW a \in Nat, NEW b \in Nat, NEW c \in Nat, NEW d \in Nat,
           b = 0 => a = 0, d = 0 => c = 0
    PROVE  /\ ~ Fell(Rate(a, b), Rounded(Rate(c, d))) =>
                 AtLeast(a, b, c, d, RegressionThreshold + 1)
           /\ ~ Rose(Rate(a, b), Rounded(Rate(c, d))) =>
                 AtLeast(c, d, a, b, RegressionThreshold + 1)
PROOF
<1>1. CASE b = 0 \/ d = 0
  <2>1. RegressionThreshold + 1 \in Nat /\ Unit \in Nat
    BY EvalAssumption DEF Unit
  <2>2. CASE b = 0
    BY <2>1, <2>2 DEF AtLeast
  <2>3. CASE d = 0
    BY <2>1, <2>3 DEF AtLeast
  <2>. QED
    BY <1>1, <2>2, <2>3
<1>2. CASE b # 0 /\ d # 0
  BY <1>2, NotFallen, NotRisen DEF Rate
<1>. QED
  BY <1>1, <1>2

(* A run that passes is as good as the one behind its baseline. *)
LEMMA PassHoldsTheLine ==
    ASSUME NEW rows, NEW now \in Seq(RowResults), NEW of \in Seq(RowResults),
           NEW hash, NEW on,
           ~ Regressed(Metrics(rows, now), BuildBaseline(on, of, hash), ParseFailureRate(now))
    PROVE  LET slack == RegressionThreshold + 1 IN
           /\ \A f \in Fields :
                 AtLeast(Cardinality(Right(rows, now, f)), Len(now),
                         Cardinality(Right(on, of, f)), Len(of), slack)
           /\ AtLeast(Cardinality(ParseFailures(of)), Len(of),
                      Cardinality(ParseFailures(now)), Len(now), slack)
PROOF
<1>. DEFINE base == BuildBaseline(on, of, hash)
<1>1. Len(now) \in Nat /\ Len(of) \in Nat
  OBVIOUS
<1>2. ASSUME NEW f \in Fields
      PROVE  AtLeast(Cardinality(Right(rows, now, f)), Len(now),
                     Cardinality(Right(on, of, f)), Len(of), RegressionThreshold + 1)
  <2>1. ~ Fell(Metrics(rows, now)[f]["accuracy"], base.metrics[f]["accuracy"])
    BY <1>2 DEF Regressed
  <2>2. Metrics(rows, now)[f]["accuracy"] = Rate(Cardinality(Right(rows, now, f)), Len(now))
    BY <1>2 DEF Metrics, Accuracy
  <2>3. base.metrics[f]["accuracy"] = Rounded(Metrics(on, of)[f]["accuracy"])
    BY <1>2 DEF BuildBaseline
  <2>4. Metrics(on, of)[f]["accuracy"] = Rate(Cardinality(Right(on, of, f)), Len(of))
    BY <1>2 DEF Metrics, Accuracy
  <2>5. Right(rows, now, f) \subseteq DOMAIN now /\ Right(on, of, f) \subseteq DOMAIN of
    BY DEF Right
  <2>. QED
    BY <1>1, <2>1, <2>2, <2>3, <2>4, <2>5, PositionsCount, RatesCompared
<1>3. AtLeast(Cardinality(ParseFailures(of)), Len(of),
              Cardinality(ParseFailures(now)), Len(now), RegressionThreshold + 1)
  <2>1. ~ Rose(ParseFailureRate(now), base.pf)
    BY DEF Regressed
  <2>2. base.pf = Rounded(ParseFailureRate(of))
    BY DEF BuildBaseline
  <2>3. ParseFailures(now) \subseteq DOMAIN now /\ ParseFailures(of) \subseteq DOMAIN of
    BY DEF ParseFailures
  <2>. QED
    BY <1>1, <2>1, <2>2, <2>3, PositionsCount, RatesCompared DEF ParseFailureRate
<1>. QED
  BY <1>2, <1>3

----------------------------------------------------------------------------
(* The sum over the labels.  Its fold is a recursive function on sets of labels,
   and no principle of induction with a formula as its parameter is at hand: sets
   of least cardinality take its place. *)

LEMMA LeastNatural ==
    ASSUME NEW S \in SUBSET Nat, S # {}
    PROVE  \E i \in S : \A j \in S : i <= j
PROOF
<1>1. PICK i \in S : \A j \in S : ~ (<<j, i>> \in OpToRel(<, Nat))
  BY NatLessThanWellFounded, WFMin
<1>2. \A j \in S : ~ (j < i)
  BY <1>1 DEF OpToRel
<1>. QED
  BY <1>2

LEMMA OneLess ==
    ASSUME NEW s, IsFiniteSet(s), NEW x \in s
    PROVE  /\ IsFiniteSet(s \ {x}) /\ Cardinality(s) \in Nat \ {0}
           /\ Cardinality(s \ {x}) = Cardinality(s) - 1
PROOF
  BY FS_RemoveElement, FS_CardinalityType, FS_EmptySet

(* One turn of the fold. *)
Added(rows, done, f, g, s) ==
    IF s = {} THEN <<0, 1>>
    ELSE LET l == CHOOSE x \in s : TRUE
         IN  Plus(F1(rows, done, f, l), g[s \ {l}])

Folded(rows, done, f, labels, g) ==
    [s \in SUBSET labels |-> Added(rows, done, f, g, s)]

LEMMA FoldOfLabels ==
    ASSUME NEW rows, NEW done, NEW f, NEW labels
    PROVE  TotalF1(rows, done, f, labels)
             = (CHOOSE g : g = Folded(rows, done, f, labels, g))[labels]
PROOF
  BY Zenon DEF TotalF1, FoldSet, MapThenFoldSet, Folded, Added

LEMMA ChosenLabel ==
    ASSUME NEW s, s # {}
    PROVE  (CHOOSE x \in s : TRUE) \in s
PROOF
  OBVIOUS

(* The function obeys the fold on sets of up to n labels. *)
Obeys(rows, done, f, labels, g, n) ==
    \A s \in SUBSET labels : Cardinality(s) <= n => g[s] = Added(rows, done, f, g, s)

(* The turn on a set asks for smaller sets only. *)
LEMMA AddedLooksBelow ==
    ASSUME NEW rows, NEW done, NEW f, NEW labels, IsFiniteSet(labels), NEW n \in Nat,
           NEW g, NEW h, NEW s \in SUBSET labels, Cardinality(s) <= n + 1,
           \A t \in SUBSET labels : Cardinality(t) <= n => g[t] = h[t]
    PROVE  Added(rows, done, f, g, s) = Added(rows, done, f, h, s)
PROOF
<1>1. CASE s = {}
  BY <1>1 DEF Added
<1>2. CASE s # {}
  <2>. DEFINE l == CHOOSE x \in s : TRUE
  <2>1. l \in s
    BY <1>2, ChosenLabel
  <2>2. IsFiniteSet(s)
    BY FS_Subset
  <2>3. Added(rows, done, f, g, s) = Plus(F1(rows, done, f, l), g[s \ {l}])
        /\ Added(rows, done, f, h, s) = Plus(F1(rows, done, f, l), h[s \ {l}])
    BY <1>2 DEF Added
  <2>. HIDE DEF l
  <2>4. Cardinality(s \ {l}) <= n /\ s \ {l} \in SUBSET labels
    BY <2>1, <2>2, OneLess
  <2>. QED
    BY <2>3, <2>4
<1>. QED
  BY <1>1, <1>2

(* There is a function that obeys the fold up to any number of labels, ... *)
LEMMA FoldUpTo ==
    ASSUME NEW rows, NEW done, NEW f, NEW labels, IsFiniteSet(labels), NEW n \in Nat
    PROVE  \E g : Obeys(rows, done, f, labels, g, n)
PROOF
<1>. DEFINE Bad == {m \in Nat : \A g : ~ Obeys(rows, done, f, labels, g, m)}
<1>1. ASSUME Bad # {}
      PROVE  FALSE
  <2>1. PICK m \in Bad : \A j \in Bad : m <= j
    BY <1>1, LeastNatural
  <2>2. m \in Nat /\ \A g : ~ Obeys(rows, done, f, labels, g, m)
    OBVIOUS
  <2>3. m # 0
    <3>. SUFFICES ASSUME m = 0
                  PROVE  FALSE
      OBVIOUS
    <3>. DEFINE g == [s \in SUBSET labels |-> <<0, 1>>]
    <3>1. ASSUME NEW s \in SUBSET labels, Cardinality(s) <= 0
          PROVE  g[s] = Added(rows, done, f, g, s)
      <4>1. s = {}
        BY <3>1, FS_Subset, FS_CardinalityType, FS_EmptySet
      <4>. QED
        BY <4>1 DEF Added
    <3>2. Obeys(rows, done, f, labels, g, 0)
      BY <3>1 DEF Obeys
    <3>. HIDE DEF g
    <3>. QED
      BY <2>2, <3>2
  <2>4. m - 1 \in Nat /\ m - 1 \notin Bad
    <3>. HIDE DEF Bad
    <3>. QED
      BY <2>1, <2>2, <2>3
  <2>5. PICK g : Obeys(rows, done, f, labels, g, m - 1)
    BY <2>4
  <2>. DEFINE h == [s \in SUBSET labels |-> Added(rows, done, f, g, s)]
  <2>6. \A t \in SUBSET labels : Cardinality(t) <= m - 1 => g[t] = h[t]
    BY <2>5 DEF Obeys
  <2>7. ASSUME NEW s \in SUBSET labels, Cardinality(s) <= m
        PROVE  h[s] = Added(rows, done, f, h, s)
    <3>1. h[s] = Added(rows, done, f, g, s)
      OBVIOUS
    <3>2. Cardinality(s) <= (m - 1) + 1
      BY <2>2, <2>7
    <3>. HIDE DEF h, Bad
    <3>3. Added(rows, done, f, g, s) = Added(rows, done, f, h, s)
      BY <2>4, <2>6, <3>2, AddedLooksBelow
    <3>. QED
      BY <3>1, <3>3
  <2>8. Obeys(rows, done, f, labels, h, m)
    BY <2>7 DEF Obeys
  <2>. HIDE DEF h
  <2>. QED
    BY <2>2, <2>8
<1>2. n \notin Bad
  BY <1>1
<1>. QED
  BY <1>2

(* ... and so the fold is what its definition says. *)
LEMMA FoldObeys ==
    ASSUME NEW rows, NEW done, NEW f, NEW labels, IsFiniteSet(labels)
    PROVE  \E g : /\ g = Folded(rows, done, f, labels, g)
                  /\ TotalF1(rows, done, f, labels) = g[labels]
PROOF
<1>. DEFINE fold == CHOOSE g : g = Folded(rows, done, f, labels, g)
            n == Cardinality(labels)
<1>1. n \in Nat /\ \A s \in SUBSET labels : Cardinality(s) <= n /\ Cardinality(s) \in Nat
  BY FS_CardinalityType, FS_Subset
<1>2. PICK g : Obeys(rows, done, f, labels, g, n)
  <2>. HIDE DEF n
  <2>. QED
    BY <1>1, FoldUpTo
<1>. DEFINE h == [s \in SUBSET labels |-> g[s]]
<1>3. ASSUME NEW s \in SUBSET labels
      PROVE  h[s] = Added(rows, done, f, h, s)
  <2>1. h[s] = Added(rows, done, f, g, s)
    BY <1>1, <1>2 DEF Obeys
  <2>2. \A t \in SUBSET labels : Cardinality(t) <= n => g[t] = h[t]
    OBVIOUS
  <2>3. Cardinality(s) <= n + 1
    BY <1>1
  <2>. HIDE DEF h, n
  <2>4. Added(rows, done, f, g, s) = Added(rows, done, f, h, s)
    BY <1>1, <2>2, <2>3, AddedLooksBelow
  <2>. QED
    BY <2>1, <2>4
<1>4. h = [s \in SUBSET labels |-> h[s]]
  OBVIOUS
<1>. HIDE DEF h
<1>5. h = Folded(rows, done, f, labels, h)
  BY <1>3, <1>4 DEF Folded
<1>6. fold = Folded(rows, done, f, labels, fold)
  BY <1>5
<1>7. TotalF1(rows, done, f, labels) = fold[labels]
  BY FoldOfLabels
<1>. HIDE DEF fold
<1>. QED
  BY <1>6, <1>7

(* A label's F1 is a quotient of at most 1, and 1 only if it was said where it was
   right and nowhere else. *)
LEMMA F1IsAQuotient ==
    ASSUME NEW rows, NEW done \in Seq(RowResults), NEW f,
           NEW l \in Occurring(rows, done, f)
    PROVE  \E n \in Nat, d \in Nat \ {0} :
              /\ F1(rows, done, f, l) = <<n, d>> /\ n <= d
              /\ n = d <=> Gold(rows, done, f, l) = Said(done, f, l)
PROOF
<1>. DEFINE G == Gold(rows, done, f, l)
            S == Said(done, f, l)
            T == G \cap S
<1>1. G \in SUBSET (DOMAIN done) /\ S \in SUBSET (DOMAIN done) /\ T \in SUBSET (DOMAIN done)
      /\ G # {}
  BY DEF Gold, Said, Occurring
<1>2. /\ F1(rows, done, f, l) = Rate(2 * Cardinality(T), Cardinality(G) + Cardinality(S))
  BY DEF F1
<1>. HIDE DEF G, S
<1>3. /\ IsFiniteSet(G) /\ IsFiniteSet(S) /\ IsFiniteSet(T)
      /\ Cardinality(G) \in Nat /\ Cardinality(S) \in Nat /\ Cardinality(T) \in Nat
  BY <1>1, PositionsCount
<1>4. Cardinality(G) # 0
  BY <1>1, <1>3, FS_EmptySet
<1>5. /\ Cardinality(T) <= Cardinality(G) /\ (Cardinality(G) = Cardinality(T) => G = T)
      /\ Cardinality(T) <= Cardinality(S) /\ (Cardinality(S) = Cardinality(T) => S = T)
  <2>1. T \in SUBSET G /\ T \in SUBSET S
    OBVIOUS
  <2>. HIDE DEF T
  <2>. QED
    BY <1>3, <2>1, FS_Subset
<1>6. G = S => T = G
  OBVIOUS
<1>. HIDE DEF T
<1>. DEFINE n == 2 * Cardinality(T)
            d == Cardinality(G) + Cardinality(S)
<1>7. n \in Nat /\ d \in Nat \ {0} /\ n <= d
  BY <1>3, <1>4, <1>5
<1>8. n = d <=> G = S
  BY <1>3, <1>5, <1>6
<1>9. F1(rows, done, f, l) = <<n, d>>
  BY <1>2, <1>7 DEF Rate
<1>. HIDE DEF n, d
<1>10. F1(rows, done, f, l) = <<n, d>> /\ n <= d
       /\ (n = d <=> Gold(rows, done, f, l) = Said(done, f, l))
  BY <1>7, <1>8, <1>9 DEF G, S
<1>. QED
  BY <1>7, <1>10

(* The sum of k quotients of at most 1 is at most k, and k only if all are 1. *)
Sums(v, k, perfect) ==
    \E n \in Nat, d \in Nat \ {0} : v = <<n, d>> /\ n <= k * d /\ (n = k * d <=> perfect)

LEMMA OneMore ==
    ASSUME NEW a \in Nat, NEW b \in Nat \ {0}, a <= b,
           NEW n \in Nat, NEW d \in Nat \ {0}, NEW k \in Nat, n <= k * d
    PROVE  /\ a * d + n * b \in Nat /\ b * d \in Nat \ {0}
           /\ a * d + n * b <= (k + 1) * (b * d)
           /\ a * d + n * b = (k + 1) * (b * d) <=> a = b /\ n = k * d
PROOF
<1>1. a * d \in Nat /\ n * b \in Nat /\ b * d \in Nat \ {0} /\ k * d \in Nat
  OBVIOUS
<1>2. a * d <= b * d /\ (a * d = b * d <=> a = b)
  <2>1. a * d <= b * d
    BY Times
  <2>2. CASE a = b
    BY <2>1, <2>2
  <2>3. CASE a + 1 <= b
    <3>1. (a + 1) * d <= b * d
      BY <2>3, Times
    <3>2. (a + 1) * d = a * d + d
      OBVIOUS
    <3>. QED
      BY <1>1, <2>1, <2>3, <3>1, <3>2
  <2>. QED
    BY <2>2, <2>3
<1>3. n * b <= (k * d) * b /\ (n * b = (k * d) * b <=> n = k * d)
  <2>1. n * b <= (k * d) * b
    BY <1>1, Times
  <2>2. CASE n = k * d
    BY <2>1, <2>2
  <2>3. CASE n + 1 <= k * d
    <3>1. (n + 1) * b <= (k * d) * b
      BY <1>1, <2>3, Times
    <3>2. (n + 1) * b = n * b + b
      OBVIOUS
    <3>. QED
      BY <1>1, <2>1, <2>3, <3>1, <3>2
  <2>. QED
    BY <1>1, <2>2, <2>3
<1>4. (k + 1) * (b * d) = (k * d) * b + b * d /\ (k * d) * b \in Nat
  OBVIOUS
<1>. QED
  BY <1>1, <1>2, <1>3, <1>4

(* All labels of a set were said where they were right, and nowhere else. *)
Perfect(rows, done, f, labels) ==
    \A l \in labels : Gold(rows, done, f, l) = Said(done, f, l)

LEMMA PerfectSplits ==
    ASSUME NEW rows, NEW done, NEW f, NEW labels, NEW l \in labels
    PROVE  Perfect(rows, done, f, labels) <=>
              Gold(rows, done, f, l) = Said(done, f, l) /\ Perfect(rows, done, f, labels \ {l})
PROOF
  BY DEF Perfect

LEMMA SumGrows ==
    ASSUME NEW rows, NEW done \in Seq(RowResults), NEW f, NEW l \in Occurring(rows, done, f),
           NEW v, NEW k \in Nat, NEW all \in BOOLEAN, Sums(v, k, all)
    PROVE  Sums(Plus(F1(rows, done, f, l), v), k + 1,
                Gold(rows, done, f, l) = Said(done, f, l) /\ all)
PROOF
<1>1. PICK a \in Nat, b \in Nat \ {0} :
          /\ F1(rows, done, f, l) = <<a, b>> /\ a <= b
          /\ a = b <=> Gold(rows, done, f, l) = Said(done, f, l)
  BY F1IsAQuotient
<1>2. PICK n \in Nat, d \in Nat \ {0} : v = <<n, d>> /\ n <= k * d /\ (n = k * d <=> all)
  BY DEF Sums
<1>3. Plus(F1(rows, done, f, l), v) = <<a * d + n * b, b * d>>
  BY <1>1, <1>2 DEF Plus
<1>4. /\ a * d + n * b \in Nat /\ b * d \in Nat \ {0}
      /\ a * d + n * b <= (k + 1) * (b * d)
      /\ a * d + n * b = (k + 1) * (b * d) <=> a = b /\ n = k * d
  <2>1. a <= b /\ n <= k * d
    BY <1>1, <1>2
  <2>. QED
    BY <2>1, OneMore
<1>. DEFINE x == a * d + n * b
            y == b * d
<1>5. x \in Nat /\ y \in Nat \ {0} /\ Plus(F1(rows, done, f, l), v) = <<x, y>>
      /\ x <= (k + 1) * y
      /\ (x = (k + 1) * y <=> Gold(rows, done, f, l) = Said(done, f, l) /\ all)
  BY <1>1, <1>2, <1>3, <1>4
<1>. HIDE DEF x, y
<1>. QED
  BY <1>5 DEF Sums

LEMMA TotalIsASum ==
    ASSUME NEW rows, NEW done \in Seq(RowResults), NEW f,
           NEW labels \in SUBSET Occurring(rows, done, f), IsFiniteSet(labels)
    PROVE  Sums(TotalF1(rows, done, f, labels), Cardinality(labels),
                Perfect(rows, done, f, labels))
PROOF
<1>1. PICK g : /\ g = Folded(rows, done, f, labels, g)
               /\ TotalF1(rows, done, f, labels) = g[labels]
  BY FoldObeys
<1>2. \A s \in SUBSET labels : g[s] = Added(rows, done, f, g, s)
  BY <1>1 DEF Folded
<1>3. \A s \in SUBSET labels : IsFiniteSet(s) /\ Cardinality(s) \in Nat
  BY FS_Subset, FS_CardinalityType
<1>. DEFINE Holds(s) == Sums(g[s], Cardinality(s), Perfect(rows, done, f, s))
            Bad == {n \in Nat : \E s \in SUBSET labels : Cardinality(s) = n /\ ~ Holds(s)}
<1>4. ASSUME Bad # {}
      PROVE  FALSE
  <2>1. PICK n \in Bad : \A j \in Bad : n <= j
    BY <1>4, LeastNatural
  <2>2. PICK s \in SUBSET labels : Cardinality(s) = n /\ ~ Holds(s)
    BY <2>1
  <2>3. CASE s = {}
    <3>1. g[s] = <<0, 1>> /\ Cardinality(s) = 0 /\ Perfect(rows, done, f, s)
      BY <1>2, <2>3, FS_EmptySet DEF Added, Perfect
    <3>2. Sums(<<0, 1>>, 0, TRUE)
      BY DEF Sums
    <3>. QED
      BY <2>2, <3>1, <3>2
  <2>4. CASE s # {}
    <3>. DEFINE l == CHOOSE x \in s : TRUE
    <3>1. l \in s /\ g[s] = Plus(F1(rows, done, f, l), g[s \ {l}])
      BY <1>2, <2>4, ChosenLabel DEF Added
    <3>. HIDE DEF l
    <3>2. /\ s \ {l} \in SUBSET labels /\ Cardinality(s) \in Nat \ {0}
          /\ Cardinality(s \ {l}) = Cardinality(s) - 1 /\ Cardinality(s) - 1 \in Nat
      BY <1>3, <3>1, OneLess
    <3>3. Holds(s \ {l})
      <4>1. Cardinality(s) - 1 \notin Bad
        <5>. HIDE DEF Bad
        <5>. QED
          BY <2>1, <2>2, <3>2
      <4>. QED
        BY <3>2, <4>1
    <3>4. Perfect(rows, done, f, s \ {l}) \in BOOLEAN
      BY DEF Perfect
    <3>5. l \in Occurring(rows, done, f)
      BY <3>1
    <3>6. Sums(g[s \ {l}], Cardinality(s) - 1, Perfect(rows, done, f, s \ {l}))
      BY <3>2, <3>3
    <3>7. Sums(Plus(F1(rows, done, f, l), g[s \ {l}]), (Cardinality(s) - 1) + 1,
               Gold(rows, done, f, l) = Said(done, f, l) /\ Perfect(rows, done, f, s \ {l}))
      BY <3>2, <3>4, <3>5, <3>6, SumGrows
    <3>8. (Cardinality(s) - 1) + 1 = Cardinality(s)
      BY <3>2
    <3>9. (Gold(rows, done, f, l) = Said(done, f, l) /\ Perfect(rows, done, f, s \ {l}))
            = Perfect(rows, done, f, s)
      BY <3>1, PerfectSplits DEF Perfect
    <3>. QED
      BY <2>2, <3>1, <3>7, <3>8, <3>9
  <2>. QED
    BY <2>3, <2>4
<1>5. Cardinality(labels) \notin Bad /\ Cardinality(labels) \in Nat
  BY <1>3, <1>4
<1>6. Holds(labels)
  BY <1>5
<1>. QED
  BY <1>1, <1>6

(* As many labels occur as there are rows, at most. *)
LEMMA FewOccur ==
    ASSUME NEW rows, NEW done \in Seq(RowResults), NEW f
    PROVE  IsFiniteSet(Occurring(rows, done, f))
PROOF
<1>. DEFINE I == {i \in DOMAIN done : rows[i][f] \in Labels}
            O == Occurring(rows, done, f)
            h == [i \in I |-> rows[i][f]]
<1>1. IsFiniteSet(I)
  BY PositionsCount
<1>2. \A l : l \in O <=> l \in Labels /\ \E i \in DOMAIN done : rows[i][f] = l
  BY DEF Occurring, Gold
<1>3. h \in Surjection(I, O)
  <2>1. h \in [I -> O]
    BY <1>2
  <2>2. \A l \in O : \E i \in I : h[i] = l
    BY <1>2
  <2>. QED
    BY <2>1, <2>2 DEF Surjection
<1>. HIDE DEF I, O, h
<1>4. IsFiniteSet(O)
  BY <1>1, <1>3, FS_Surjection
<1>. QED
  BY <1>4 DEF O

(* The mean is a quotient, and 1 only if every occurring label is perfect. *)
LEMMA MacroF1IsAQuotient ==
    ASSUME NEW rows, NEW done \in Seq(RowResults), NEW f
    PROVE  \E n \in Nat, d \in Nat \ {0} :
              /\ MacroF1(rows, done, f) = <<n, d>>
              /\ Occurring(rows, done, f) # {} =>
                    (n = d <=> Perfect(rows, done, f, Occurring(rows, done, f)))
PROOF
<1>. DEFINE O == Occurring(rows, done, f)
            k == Cardinality(O)
<1>1. IsFiniteSet(O) /\ k \in Nat /\ (k = 0 <=> O = {})
  BY FewOccur, FS_CardinalityType, FS_EmptySet
<1>2. Sums(TotalF1(rows, done, f, O), k, Perfect(rows, done, f, O))
  BY <1>1, TotalIsASum
<1>3. MacroF1(rows, done, f)
        = Rate(TotalF1(rows, done, f, O)[1], TotalF1(rows, done, f, O)[2] * k)
  BY DEF MacroF1
<1>. HIDE DEF O, k
<1>4. PICK n \in Nat, d \in Nat \ {0} :
          /\ TotalF1(rows, done, f, O) = <<n, d>>
          /\ n = k * d <=> Perfect(rows, done, f, O)
  BY <1>2 DEF Sums
<1>5. MacroF1(rows, done, f) = Rate(n, d * k) /\ d * k \in Nat /\ k * d = d * k
      /\ (d * k = 0 <=> k = 0)
  BY <1>1, <1>3, <1>4
<1>6. CASE k = 0
  <2>1. MacroF1(rows, done, f) = <<0, 1>> /\ O = {}
    BY <1>1, <1>5, <1>6 DEF Rate
  <2>. QED
    BY <2>1 DEF O
<1>7. CASE k # 0
  <2>1. MacroF1(rows, done, f) = <<n, d * k>> /\ d * k \in Nat \ {0}
    BY <1>5, <1>7 DEF Rate
  <2>2. n = d * k <=> Perfect(rows, done, f, O)
    BY <1>4, <1>5
  <2>. DEFINE e == d * k
  <2>3. MacroF1(rows, done, f) = <<n, e>> /\ e \in Nat \ {0}
        /\ (n = e <=> Perfect(rows, done, f, O))
    BY <2>1, <2>2
  <2>. HIDE DEF e
  <2>. QED
    BY <1>4, <2>3 DEF O
<1>. QED
  BY <1>6, <1>7

----------------------------------------------------------------------------
(* What the fold tells of the metrics. *)

(* A rate compared with its own rounding has neither fallen nor risen: the threshold
   is one unit at least. *)
LEMMA RoundingIsHarmless ==
    ASSUME NEW n \in Nat, NEW d \in Nat \ {0}
    PROVE  ~ Fell(<<n, d>>, Rounded(<<n, d>>)) /\ ~ Rose(<<n, d>>, Rounded(<<n, d>>))
PROOF
<1>. DEFINE q == Rounded(<<n, d>>)
            t == RegressionThreshold
<1>1. q \in Nat /\ q * d <= Unit * n + d /\ Unit * n <= q * d + d
  BY RoundedIsNear
<1>2. t \in Nat /\ 1 <= t
  BY EvalAssumption
<1>3. 1 * d <= t * d
  BY <1>2, Times
<1>4. q * d \in Nat /\ Unit * n \in Nat /\ n * Unit = Unit * n /\ t * d \in Nat /\ 1 * d = d
  BY <1>1, <1>2 DEF Unit
<1>. HIDE DEF q, t
<1>5. ~ (n * Unit + t * d < q * d) /\ ~ (q * d + t * d < n * Unit)
  BY <1>1, <1>3, <1>4
<1>. QED
  BY <1>5 DEF Fell, Rose, q, t

LEMMA RatesAreQuotients ==
    ASSUME NEW n \in Nat, NEW d \in Nat
    PROVE  \E x \in Nat, y \in Nat \ {0} : Rate(n, d) = <<x, y>>
PROOF
  BY DEF Rate

(* The baseline that a run would write does not make it regress. *)
LEMMA OwnBaselineHolds ==
    ASSUME NEW rows, NEW done \in Seq(RowResults), NEW hash
    PROVE  ~ Regressed(Metrics(rows, done), BuildBaseline(rows, done, hash),
                       ParseFailureRate(done))
PROOF
<1>. DEFINE base == BuildBaseline(rows, done, hash)
<1>1. Len(done) \in Nat
  OBVIOUS
<1>2. ASSUME NEW f \in Fields, NEW m \in {"accuracy", "macro_f1"}
      PROVE  ~ Fell(Metrics(rows, done)[f][m], base.metrics[f][m])
  <2>1. base.metrics[f][m] = Rounded(Metrics(rows, done)[f][m])
    BY <1>2 DEF BuildBaseline
  <2>2. \E x \in Nat, y \in Nat \ {0} : Metrics(rows, done)[f][m] = <<x, y>>
    <3>1. CASE m = "accuracy"
      <4>1. Metrics(rows, done)[f][m] = Rate(Cardinality(Right(rows, done, f)), Len(done))
        BY <1>2, <3>1 DEF Metrics, Accuracy
      <4>2. Right(rows, done, f) \in SUBSET (DOMAIN done)
        BY DEF Right
      <4>3. Cardinality(Right(rows, done, f)) \in Nat
        BY <4>2, PositionsCount
      <4>4. \E x \in Nat, y \in Nat \ {0} :
               Rate(Cardinality(Right(rows, done, f)), Len(done)) = <<x, y>>
        BY <1>1, <4>3, RatesAreQuotients
      <4>. QED
        BY <4>1, <4>4, Zenon
    <3>2. CASE m = "macro_f1"
      <4>1. Metrics(rows, done)[f][m] = MacroF1(rows, done, f)
        BY <1>2, <3>2 DEF Metrics
      <4>2. PICK x \in Nat, y \in Nat \ {0} :
                /\ MacroF1(rows, done, f) = <<x, y>>
                /\ Occurring(rows, done, f) # {} =>
                      (x = y <=> Perfect(rows, done, f, Occurring(rows, done, f)))
        BY MacroF1IsAQuotient, Zenon
      <4>3. Metrics(rows, done)[f][m] = <<x, y>>
        BY <4>1, <4>2
      <4>. QED
        BY <4>3, Zenon
    <3>. QED
      BY <1>2, <3>1, <3>2
  <2>3. PICK x \in Nat, y \in Nat \ {0} : Metrics(rows, done)[f][m] = <<x, y>>
    BY <2>2
  <2>4. ~ Fell(<<x, y>>, Rounded(<<x, y>>))
    BY RoundingIsHarmless
  <2>. QED
    BY <2>1, <2>3, <2>4
<1>3. ~ Rose(ParseFailureRate(done), base.pf)
  <2>1. base.pf = Rounded(ParseFailureRate(done))
    BY DEF BuildBaseline
  <2>2. ParseFailures(done) \in SUBSET (DOMAIN done)
    BY DEF ParseFailures
  <2>3. Cardinality(ParseFailures(done)) \in Nat
    BY <2>2, PositionsCount
  <2>4. PICK x \in Nat, y \in Nat \ {0} : ParseFailureRate(done) = <<x, y>>
    BY <1>1, <2>3, RatesAreQuotients DEF ParseFailureRate
  <2>. QED
    BY <2>1, <2>4, RoundingIsHarmless
<1>. QED
  BY <1>2, <1>3 DEF Regressed

(* Perfect labels and right rows are the same. *)
LEMMA PerfectIsAllRight ==
    ASSUME NEW rows, NEW done, NEW f, \A i \in DOMAIN done : rows[i][f] \in Labels
    PROVE  Perfect(rows, done, f, Occurring(rows, done, f)) <=> Right(rows, done, f) = DOMAIN done
PROOF
<1>1. ASSUME Perfect(rows, done, f, Occurring(rows, done, f)), NEW i \in DOMAIN done
      PROVE  i \in Right(rows, done, f)
  <2>. DEFINE l == rows[i][f]
  <2>1. i \in Gold(rows, done, f, l) /\ l \in Occurring(rows, done, f)
    BY <1>1 DEF Gold, Occurring
  <2>2. i \in Said(done, f, l)
    BY <1>1, <2>1 DEF Perfect
  <2>. QED
    BY <2>2 DEF Said, Right
<1>2. ASSUME Right(rows, done, f) = DOMAIN done, NEW l \in Occurring(rows, done, f)
      PROVE  Gold(rows, done, f, l) = Said(done, f, l)
  <2>1. \A i \in DOMAIN done : done[i].pred[f] = rows[i][f]
    BY <1>2 DEF Right
  <2>. QED
    BY <2>1 DEF Gold, Said
<1>3. Right(rows, done, f) \subseteq DOMAIN done
  BY DEF Right
<1>. QED
  BY <1>1, <1>2, <1>3 DEF Perfect

(* An accuracy of 1 is that of rows which are all right. *)
LEMMA AccurateIsAllRight ==
    ASSUME NEW rows, NEW done \in Seq(RowResults), NEW f, Len(done) # 0
    PROVE  Accuracy(rows, done, f)[1] = Accuracy(rows, done, f)[2]
             <=> Right(rows, done, f) = DOMAIN done
PROOF
<1>. DEFINE R == Right(rows, done, f)
<1>1. Len(done) \in Nat \ {0} /\ DOMAIN done = 1 .. Len(done)
  BY LenProperties
<1>2. Accuracy(rows, done, f) = <<Cardinality(R), Len(done)>>
  BY <1>1 DEF Accuracy, Rate
<1>3. IsFiniteSet(1 .. Len(done)) /\ Cardinality(1 .. Len(done)) = Len(done)
  BY <1>1, FS_Interval
<1>4. R \in SUBSET (1 .. Len(done))
  BY <1>1 DEF Right
<1>. HIDE DEF R
<1>5. Cardinality(R) = Len(done) <=> R = 1 .. Len(done)
  BY <1>3, <1>4, FS_Subset
<1>. QED
  BY <1>1, <1>2, <1>5 DEF R

(* A row that is right has a known gold label: the answers have no other. *)
LEMMA RightRowsAreWellLabelled ==
    ASSUME NEW rows \in Datasets, NEW done \in Seq(RowResults), NEW f \in Fields,
           DOMAIN rows = DOMAIN done, Right(rows, done, f) = DOMAIN done
    PROVE  WellLabelled(rows, f)
PROOF
<1>. SUFFICES ASSUME NEW i \in DOMAIN rows
              PROVE  rows[i][f] \in Labels
  BY DEF WellLabelled
<1>1. done[i].pred[f] = rows[i][f]
  BY DEF Right
<1>2. rows[i][f] \in GoldLabels
  <2>1. rows[i] \in [Fields -> GoldLabels]
    BY DatasetsAreRows, ElementOfSeq, LenProperties
  <2>. QED
    BY <2>1
<1>3. done[i] \in RowResults
  BY ElementOfSeq, LenProperties
<1>4. done[i].pred[f] \in Labels \cup {None}
  BY <1>3, EvalAssumption DEF RowResults, Predicted, Failed
<1>. QED
  BY <1>1, <1>2, <1>4, EvalAssumption

(* Two ways to count, one notion of perfect where the gold labels are known. *)
LEMMA PerfectMetricsAgree ==
    ASSUME NEW rows, NEW done \in Seq(RowResults), NEW f, Len(done) # 0,
           \A i \in DOMAIN done : rows[i][f] \in Labels
    PROVE  Accuracy(rows, done, f)[1] = Accuracy(rows, done, f)[2]
             <=> MacroF1(rows, done, f)[1] = MacroF1(rows, done, f)[2]
PROOF
<1>1. Len(done) \in Nat \ {0} /\ DOMAIN done = 1 .. Len(done)
  BY LenProperties
<1>2. Occurring(rows, done, f) # {}
  <2>1. 1 \in DOMAIN done
    BY <1>1
  <2>. QED
    BY <2>1 DEF Occurring, Gold
<1>3. MacroF1(rows, done, f)[1] = MacroF1(rows, done, f)[2]
        <=> Perfect(rows, done, f, Occurring(rows, done, f))
  <2>1. PICK n \in Nat, d \in Nat \ {0} :
            /\ MacroF1(rows, done, f) = <<n, d>>
            /\ n = d <=> Perfect(rows, done, f, Occurring(rows, done, f))
    BY <1>2, MacroF1IsAQuotient
  <2>. QED
    BY <2>1
<1>. QED
  BY <1>3, AccurateIsAllRight, PerfectIsAllRight

----------------------------------------------------------------------------
(* The breaker and the rows. *)

LEMMA ErrorsCount ==
    ASSUME NEW done, NEW first \in Nat, NEW last \in Nat
    PROVE  /\ IsFiniteSet(ProviderErrors(done, first, last))
           /\ Cardinality(ProviderErrors(done, first, last)) \in Nat
PROOF
<1>1. IsFiniteSet(first .. last)
      /\ ProviderErrors(done, first, last) \in SUBSET (first .. last)
  BY FS_Interval DEF ProviderErrors
<1>. QED
  BY <1>1, FS_Subset, FS_CardinalityType

(* A new row leaves what was said of the earlier ones as it was. *)
LEMMA EarlierRows ==
    ASSUME NEW done \in Seq(RowResults), NEW r \in RowResults,
           NEW i \in 1 .. Len(done), Tripped(done, i)
    PROVE  Tripped(Append(done, r), i)
PROOF
<1>. DEFINE new == Append(done, r)
<1>1. \A k \in 1 .. Len(done) : new[k] = done[k]
  BY NewRow
<1>. HIDE DEF new
<1>2. PICK first \in 1 .. i : /\ Outage(done, first, i)
                             /\ Cardinality(ProviderErrors(done, first, i)) >= Threshold
  BY DEF Tripped
<1>3. \A k \in first .. i : new[k] = done[k]
  BY <1>1, <1>2
<1>4. Outage(new, first, i)
  BY <1>2, <1>3 DEF Outage
<1>5. ProviderErrors(new, first, i) = ProviderErrors(done, first, i)
  BY <1>3 DEF ProviderErrors
<1>6. Tripped(new, i)
  BY <1>2, <1>4, <1>5 DEF Tripped
<1>. QED
  BY <1>6 DEF new

(* A row that the provider failed, or that was refused, extends the outage. *)
LEMMA OutageGrows ==
    ASSUME NEW done \in Seq(RowResults), NEW r \in RowResults,
           r.failure \in {"provider_error", "circuit_open"},
           NEW first \in 1 .. Len(done) + 1, Outage(done, first, Len(done))
    PROVE  /\ Outage(Append(done, r), first, Len(done) + 1)
           /\ Cardinality(ProviderErrors(Append(done, r), first, Len(done) + 1))
                = Cardinality(ProviderErrors(done, first, Len(done)))
                    + (IF r.failure = "provider_error" THEN 1 ELSE 0)
PROOF
<1>. DEFINE n == Len(done)
            new == Append(done, r)
            E == ProviderErrors(done, first, n)
            F == ProviderErrors(new, first, n + 1)
<1>1. n \in Nat /\ new[n + 1] = r /\ \A i \in 1 .. n : new[i] = done[i]
  BY NewRow, LenProperties
<1>2. first \in Nat /\ first >= 1 /\ first <= n + 1
  BY <1>1
<1>3. Outage(done, first, n)
  OBVIOUS
<1>. HIDE DEF n, new
<1>4. \A k : k \in first .. n + 1 <=> k \in first .. n \/ k = n + 1
  BY <1>1, <1>2
<1>5. n + 1 \notin first .. n /\ \A k \in first .. n : k \in 1 .. n
  BY <1>1, <1>2
<1>6. Outage(new, first, n + 1)
  <2>1. ASSUME NEW k \in first .. n + 1
        PROVE  new[k].failure \in {"provider_error", "circuit_open"}
    <3>1. CASE k = n + 1
      BY <1>1, <3>1
    <3>2. CASE k \in first .. n
      BY <1>1, <1>3, <1>5, <3>2 DEF Outage
    <3>. QED
      BY <1>4, <3>1, <3>2
  <2>. QED
    BY <2>1 DEF Outage
<1>7. F = IF r.failure = "provider_error" THEN E \cup {n + 1} ELSE E
  <2>1. \A k : k \in F <=> (k \in first .. n \/ k = n + 1) /\ new[k].failure = "provider_error"
    BY <1>4 DEF ProviderErrors
  <2>2. \A k : k \in E <=> k \in first .. n /\ new[k].failure = "provider_error"
    BY <1>1, <1>5 DEF ProviderErrors
  <2>. HIDE DEF E, F
  <2>3. \A k : k \in F <=> k \in E \/ (k = n + 1 /\ r.failure = "provider_error")
    BY <1>1, <2>1, <2>2
  <2>. QED
    BY <2>3
<1>8. n + 1 \notin E /\ IsFiniteSet(E) /\ Cardinality(E) \in Nat
  BY <1>1, <1>2, <1>5, ErrorsCount DEF ProviderErrors
<1>. HIDE DEF E, F
<1>9. Cardinality(F) = Cardinality(E) + (IF r.failure = "provider_error" THEN 1 ELSE 0)
  <2>1. CASE r.failure = "provider_error"
    BY <1>7, <1>8, <2>1, FS_AddElement
  <2>2. CASE r.failure # "provider_error"
    BY <1>7, <1>8, <2>2
  <2>. QED
    BY <2>1, <2>2
<1>. QED
  BY <1>6, <1>9 DEF E, F, n, new

(* So the count of the breaker may grow by one with a row that the provider
   failed, stays as it is with a refused one, ... *)
LEMMA CountGrows ==
    ASSUME NEW done \in Seq(RowResults), NEW r \in RowResults, NEW n \in Nat,
           r.failure \in {"provider_error", "circuit_open"}, Counted(done, n)
    PROVE  Counted(Append(done, r), IF r.failure = "provider_error" THEN n + 1 ELSE n)
PROOF
<1>1. PICK first \in 1 .. Len(done) + 1 :
          /\ Outage(done, first, Len(done))
          /\ Cardinality(ProviderErrors(done, first, Len(done))) >= n
  BY DEF Counted
<1>2. Len(done) \in Nat /\ Len(Append(done, r)) = Len(done) + 1
  BY NewRow, LenProperties
<1>3. Cardinality(ProviderErrors(done, first, Len(done))) \in Nat
  BY <1>1, <1>2, ErrorsCount
<1>4. /\ Outage(Append(done, r), first, Len(done) + 1)
      /\ Cardinality(ProviderErrors(Append(done, r), first, Len(done) + 1))
           = Cardinality(ProviderErrors(done, first, Len(done)))
               + (IF r.failure = "provider_error" THEN 1 ELSE 0)
  BY <1>1, OutageGrows
<1>5. Cardinality(ProviderErrors(Append(done, r), first, Len(done) + 1))
        >= IF r.failure = "provider_error" THEN n + 1 ELSE n
  BY <1>1, <1>3, <1>4
<1>6. first \in 1 .. Len(Append(done, r)) + 1
  BY <1>1, <1>2
<1>. QED
  BY <1>2, <1>4, <1>5, <1>6 DEF Counted

(* ... and is nothing after any other. *)
LEMMA NothingCounted ==
    ASSUME NEW done \in Seq(RowResults)
    PROVE  Counted(done, 0)
PROOF
<1>1. Len(done) \in Nat
  BY LenProperties
<1>2. Outage(done, Len(done) + 1, Len(done))
  BY <1>1 DEF Outage
<1>3. Cardinality(ProviderErrors(done, Len(done) + 1, Len(done))) \in Nat
  BY <1>1, ErrorsCount
<1>. QED
  BY <1>1, <1>2, <1>3 DEF Counted

(* A count below another is true as well. *)
LEMMA CountedFewer ==
    ASSUME NEW done \in Seq(RowResults), NEW n \in Nat, NEW m \in 0 .. n, Counted(done, n)
    PROVE  Counted(done, m)
PROOF
<1>1. PICK first \in 1 .. Len(done) + 1 :
          /\ Outage(done, first, Len(done))
          /\ Cardinality(ProviderErrors(done, first, Len(done))) >= n
  BY DEF Counted
<1>2. first \in Nat /\ Len(done) \in Nat
  BY LenProperties
<1>3. Cardinality(ProviderErrors(done, first, Len(done))) \in Nat
  BY <1>2, ErrorsCount
<1>4. Cardinality(ProviderErrors(done, first, Len(done))) >= m
  BY <1>1, <1>3
<1>. QED
  BY <1>1, <1>4 DEF Counted

(* A new row that the circuit did not refuse, or refused in an outage, is one more
   of which RefusalsFollowAnOutage holds. *)
LEMMA RefusalsKept ==
    ASSUME results \in Seq(RowResults), RefusalsFollowAnOutage,
           NEW r \in RowResults, results' = Append(results, r),
           r.failure = "circuit_open" => Tripped(Append(results, r), Len(results) + 1)
    PROVE  RefusalsFollowAnOutage'
PROOF
<1>1. /\ Len(results) \in Nat /\ DOMAIN results = 1 .. Len(results)
      /\ results' \in Seq(RowResults) /\ Len(results') = Len(results) + 1
      /\ DOMAIN results' = 1 .. Len(results')
  BY NewRow, LenProperties
<1>2. results'[Len(results) + 1] = r /\ \A i \in 1 .. Len(results) : results'[i] = results[i]
  BY NewRow
<1>3. ASSUME NEW i \in DOMAIN results', results'[i].failure = "circuit_open"
      PROVE  Tripped(results', i)
  <2>1. CASE i = Len(results) + 1
    BY <1>2, <1>3, <2>1
  <2>2. CASE i \in 1 .. Len(results)
    BY <1>1, <1>2, <1>3, <2>2, EarlierRows DEF RefusalsFollowAnOutage
  <2>. QED
    BY <1>1, <1>3, <2>1, <2>2
<1>. QED
  BY <1>3 DEF RefusalsFollowAnOutage

(* A full count is an outage. *)
LEMMA CountTrips ==
    ASSUME NEW done \in Seq(RowResults), Len(done) >= 1, Counted(done, Threshold)
    PROVE  Tripped(done, Len(done))
PROOF
<1>1. PICK first \in 1 .. Len(done) + 1 :
          /\ Outage(done, first, Len(done))
          /\ Cardinality(ProviderErrors(done, first, Len(done))) >= Threshold
  BY DEF Counted
<1>2. Len(done) \in Nat /\ Threshold >= 1 /\ Threshold \in Nat
  BY LenProperties, ThresholdAssumption
<1>3. first # Len(done) + 1
  <2>1. SUFFICES ASSUME first = Len(done) + 1
                 PROVE  FALSE
    OBVIOUS
  <2>2. ProviderErrors(done, first, Len(done)) = {}
    BY <1>2, <2>1 DEF ProviderErrors
  <2>. QED
    BY <1>1, <1>2, <2>2, FS_EmptySet
<1>4. first \in 1 .. Len(done)
  BY <1>1, <1>2, <1>3
<1>. QED
  BY <1>1, <1>4 DEF Tripped

----------------------------------------------------------------------------
(* The inductive invariant, action by action. *)

LEMMA NoRunTyped ==
    /\ NoRun.rows = <<>> /\ NoRun.sha = <<>> /\ NoRun.base = NoFile
    /\ NoRun \in [update: BOOLEAN, limit: Limits, nofail: BOOLEAN, live: BOOLEAN,
                  rows: Datasets \cup {<<>>}, sha: Datasets \cup {<<>>}, base: {NoRun.base}]
PROOF
  BY EvalAssumption DEF NoRun, Loaded

LEMMA NothingDone ==
    <<>> \in Seq(RowResults) /\ Len(<<>>) = 0 /\ DOMAIN <<>> = {}
PROOF
  BY EmptySeq

LEMMA InitGate ==
    ASSUME EvalInit
    PROVE  GateInv
PROOF
<1>1. EvalTypeOK
  BY NoRunTyped, NothingDone, ThresholdAssumption
     DEF EvalInit, BreakerInit, EvalTypeOK, BreakerTypeOK, NoFile
<1>2. RunTypeOK
  BY NoRunTyped DEF EvalInit, RunTypeOK
<1>3. RunKnows
  BY NoRunTyped DEF EvalInit, RunKnows, FileIsOfItsRun
<1>4. VerdictStands
  BY NoRunTyped DEF EvalInit, VerdictStands, NoExit
<1>5. BreakerSeesTheRun /\ RefusalsFollowAnOutage
  BY NothingDone DEF EvalInit, BreakerSeesTheRun, RefusalsFollowAnOutage
<1>. QED
  BY <1>1, <1>2, <1>3, <1>4, <1>5 DEF GateInv

(* Nothing that is known of a run depends on what the files are now. *)
LEMMA FilesChange ==
    ASSUME GateInv, EditDataset \/ RemoveBaseline
    PROVE  GateInv'
PROOF
<1>1. UNCHANGED <<pc, run, results, verdict, exit, circuit, failures>>
      /\ dataset' \in Datasets /\ (baseline' = baseline \/ baseline' = NoFile)
  BY DEF EditDataset, RemoveBaseline, breakerVars, GateInv, EvalTypeOK
<1>2. EvalTypeOK'
  BY <1>1 DEF GateInv, EvalTypeOK, BreakerTypeOK, NoFile
<1>3. RunTypeOK'
  BY <1>1 DEF GateInv, RunTypeOK
<1>4. FileIsOfItsRun(baseline)'
  BY <1>1 DEF GateInv, RunKnows, FileIsOfItsRun
<1>5. RunKnows'
  BY <1>1, <1>4 DEF GateInv, RunKnows
<1>6. VerdictStands'
  BY <1>1 DEF GateInv, VerdictStands
<1>7. BreakerSeesTheRun' /\ RefusalsFollowAnOutage'
  BY <1>1 DEF GateInv, BreakerSeesTheRun, RefusalsFollowAnOutage
<1>. QED
  BY <1>2, <1>3, <1>5, <1>6, <1>7 DEF GateInv

(* A new process has its arguments and the rows, and no result. *)
LEMMA RunLoads ==
    ASSUME GateInv, LoadDataset
    PROVE  GateInv'
PROOF
<1>1. PICK update, nofail, live \in BOOLEAN, limit \in Limits :
          run' = Loaded(update, limit, nofail, live)
  BY DEF LoadDataset
<1>2. /\ run'.rows = dataset /\ run'.sha = <<>> /\ run'.base = NoFile
      /\ RunTypeOK' /\ dataset \in Datasets
  BY <1>1 DEF Loaded, RunTypeOK, GateInv, EvalTypeOK
<1>3. /\ results' = <<>> /\ pc' = "loading" /\ verdict' = "none" /\ exit' = NoExit
      /\ UNCHANGED <<dataset, baseline, circuit, failures>>
  BY DEF LoadDataset, breakerVars
<1>4. Len(run'.rows) \in Nat
  BY <1>2, DatasetsAreRows
<1>5. EvalTypeOK'
  BY <1>2, <1>3, <1>4, NothingDone DEF GateInv, EvalTypeOK, BreakerTypeOK
<1>6. RunKnows'
  BY <1>2, <1>3 DEF GateInv, RunKnows, FileIsOfItsRun
<1>7. VerdictStands'
  BY <1>2, <1>3 DEF VerdictStands, NoExit
<1>8. BreakerSeesTheRun' /\ RefusalsFollowAnOutage'
  BY <1>3, NothingDone DEF BreakerSeesTheRun, RefusalsFollowAnOutage
<1>. QED
  BY <1>2, <1>5, <1>6, <1>7, <1>8 DEF GateInv

(* An accepted baseline is of the dataset that the run hashed. *)
LEMMA RunStarts ==
    ASSUME GateInv, StartRun
    PROVE  GateInv'
PROOF
<1>1. /\ pc = "loading" /\ pc' = "rows" /\ Accepts(run.update)
      /\ UNCHANGED <<dataset, baseline, results, verdict, exit>>
      /\ circuit' = "closed" /\ failures' = 0
  BY DEF StartRun, NewClient
<1>. DEFINE base == IF run.update THEN NoFile ELSE baseline
<1>2. run' = [run EXCEPT !.sha = dataset, !.base = base]
  BY DEF StartRun
<1>. HIDE DEF base
<1>3. /\ run \in [update: BOOLEAN, limit: Limits, nofail: BOOLEAN, live: BOOLEAN,
                  rows: Datasets \cup {<<>>}, sha: Datasets \cup {<<>>}, base: {run.base}]
      /\ dataset \in Datasets /\ run.rows \in Datasets /\ results = <<>>
      /\ verdict = "none" /\ exit = NoExit
  BY <1>1 DEF GateInv, RunTypeOK, EvalTypeOK, RunKnows
<1>4. /\ run'.base = base /\ run'.sha = dataset /\ run'.rows = run.rows
      /\ RunTypeOK'
  BY <1>2, <1>3 DEF RunTypeOK
<1>5. /\ FileIsOfItsRun(base)
      /\ base # NoFile => base.kind = "file" /\ base.sha = dataset
  <2>1. CASE run.update
    BY <2>1 DEF base, FileIsOfItsRun
  <2>2. CASE ~run.update
    <3>1. base = baseline /\ FileIsOfItsRun(baseline) /\ baseline.kind # "broken"
      BY <1>1, <2>2 DEF base, GateInv, RunKnows, Accepts
    <3>2. baseline # NoFile => baseline.kind = "file"
      BY <3>1 DEF FileIsOfItsRun, Broken, BuildBaseline
    <3>3. baseline.kind = "file" => baseline.sha = dataset
      BY <1>1, <2>2 DEF Accepts
    <3>. QED
      BY <3>1, <3>2, <3>3
  <2>. QED
    BY <2>1, <2>2
<1>6. EvalTypeOK'
  BY <1>1, <1>3, <1>4, ThresholdAssumption DEF GateInv, EvalTypeOK, BreakerTypeOK
<1>7. RunKnows'
  BY <1>1, <1>3, <1>4, <1>5 DEF GateInv, RunKnows
<1>8. VerdictStands'
  BY <1>1, <1>3 DEF VerdictStands, NoExit
<1>9. BreakerSeesTheRun' /\ RefusalsFollowAnOutage'
  BY <1>1, <1>3, NothingDone, NothingCounted DEF BreakerSeesTheRun, RefusalsFollowAnOutage
<1>. QED
  BY <1>4, <1>6, <1>7, <1>8, <1>9 DEF GateInv

(* A run that is refused or dies leaves the files and an exit code other than 0. *)
LEMMA RunFails ==
    ASSUME GateInv, RefuseRun \/ RunDies
    PROVE  GateInv'
PROOF
<1>1. /\ pc' = "idle" /\ run' = NoRun /\ results' = <<>> /\ verdict' = "none"
      /\ exit' \in {NoExit, 1, 2}
      /\ UNCHANGED <<dataset, baseline, circuit, failures>>
  BY DEF RefuseRun, RunDies, breakerVars
<1>2. EvalTypeOK'
  BY <1>1, NoRunTyped, NothingDone DEF GateInv, EvalTypeOK, BreakerTypeOK
<1>3. RunTypeOK'
  BY <1>1, NoRunTyped DEF RunTypeOK
<1>4. RunKnows'
  BY <1>1, NoRunTyped DEF GateInv, RunKnows, FileIsOfItsRun
<1>5. VerdictStands'
  BY <1>1 DEF VerdictStands, NoExit
<1>6. BreakerSeesTheRun' /\ RefusalsFollowAnOutage'
  BY <1>1, NothingDone DEF BreakerSeesTheRun, RefusalsFollowAnOutage
<1>. QED
  BY <1>2, <1>3, <1>4, <1>5, <1>6 DEF GateInv

(* What every row has in common: it is one more result, of a row that was selected. *)
LEMMA RowAdded ==
    ASSUME GateInv, RowIsNext, NEW r \in RowResults, results' = Append(results, r),
           BreakerTypeOK', BreakerSeesTheRun',
           r.failure = "circuit_open" => Tripped(Append(results, r), Len(results) + 1)
    PROVE  GateInv'
PROOF
<1>1. /\ pc = "rows" /\ Len(results) < Len(Selected)
      /\ UNCHANGED <<dataset, baseline, pc, run, verdict, exit>>
      /\ results \in Seq(RowResults) /\ run.rows \in Datasets /\ run.limit \in Int
      /\ verdict = "none" /\ exit = NoExit
  <2>1. run.limit \in Int
    BY EvalAssumption DEF GateInv, RunTypeOK
  <2>. QED
    BY <2>1 DEF RowIsNext, GateInv, EvalTypeOK, RunKnows
<1>2. Len(results) \in Nat /\ Len(results) < Len(run.rows) /\ Len(run.rows) \in Nat
  BY <1>1, SelectedRows, DatasetsAreRows, LenProperties
<1>3. results' \in Seq(RowResults) /\ Len(results') = Len(results) + 1
  BY <1>1, NewRow
<1>4. EvalTypeOK'
  BY <1>1, <1>2, <1>3 DEF GateInv, EvalTypeOK
<1>5. RunTypeOK'
  BY <1>1 DEF GateInv, RunTypeOK
<1>6. RunKnows'
  BY <1>1 DEF GateInv, RunKnows, FileIsOfItsRun
<1>7. VerdictStands'
  BY <1>1 DEF VerdictStands, NoExit
<1>8. RefusalsFollowAnOutage'
  BY <1>1, RefusalsKept DEF GateInv
<1>. QED
  BY <1>4, <1>5, <1>6, <1>7, <1>8 DEF GateInv

(* The state of the breaker while the rows are classified. *)
LEMMA BreakerKnown ==
    ASSUME GateInv, RowIsNext
    PROVE  /\ pc = "rows" /\ pc' = "rows" /\ run' = run
           /\ results \in Seq(RowResults) /\ Len(results) \in Nat
           /\ circuit \in {"closed", "open", "half_open"} /\ failures \in 0 .. Threshold
           /\ Threshold \in Nat \ {0}
           /\ circuit # "closed" => failures = Threshold
           /\ ~run.live => failures = 0
           /\ Counted(results, failures)
PROOF
  BY ThresholdAssumption, LenProperties
     DEF GateInv, EvalTypeOK, BreakerTypeOK, BreakerSeesTheRun, RowIsNext

(* An answered row finds the breaker closed, or closes it. *)
LEMMA AnsweredRow ==
    ASSUME GateInv, RowClassified \/ RowUnparsed
    PROVE  GateInv'
PROOF
<1>1. RowIsNext /\ ProviderAnswered
  BY DEF RowClassified, RowUnparsed
<1>2. PICK r \in RowResults : results' = Append(results, r) /\ r.failure # "circuit_open"
  BY ResultsTyped DEF RowClassified, RowUnparsed, Failures
<1>3. failures' = 0 /\ circuit' = "closed"
  <2>1. CASE run.live
    BY <1>1, <2>1 DEF ProviderAnswered, RecordSuccess
  <2>2. CASE ~run.live
    BY <1>1, <2>2, BreakerKnown DEF ProviderAnswered, breakerVars
  <2>. QED
    BY <2>1, <2>2
<1>4. results' \in Seq(RowResults)
  BY <1>1, <1>2, BreakerKnown, NewRow
<1>5. BreakerTypeOK'
  BY <1>1, <1>3, BreakerKnown DEF BreakerTypeOK
<1>6. Counted(results', 0)
  BY <1>4, NothingCounted
<1>7. BreakerSeesTheRun'
  BY <1>3, <1>6 DEF BreakerSeesTheRun
<1>. QED
  BY <1>1, <1>2, <1>5, <1>7, RowAdded

(* A failed row is counted, by itself if the provider answered before it failed. *)
LEMMA FailedRow ==
    ASSUME GateInv, RowProviderError
    PROVE  GateInv'
PROOF
<1>. DEFINE r == Failed("provider_error")
<1>1. RowIsNext /\ run.live /\ results' = Append(results, r)
  BY DEF RowProviderError
<1>2. r \in RowResults /\ r.failure = "provider_error"
  BY ResultsTyped DEF Failures
<1>. HIDE DEF r
<1>3. Counted(results', failures + 1)
  BY <1>1, <1>2, BreakerKnown, CountGrows
<1>4. results' \in Seq(RowResults)
  BY <1>1, <1>2, BreakerKnown, NewRow
<1>5. failures' \in 0 .. failures + 1 /\ BreakerTypeOK'
      /\ (circuit' # "closed" => failures' = Threshold)
  <2>1. CASE RecordFailure
    BY <1>1, <2>1, BreakerKnown DEF RecordFailure, BreakerTypeOK
  <2>2. CASE failures' = 1 /\ circuit' = IF Threshold = 1 THEN "open" ELSE "closed"
    BY <1>1, <2>2, BreakerKnown DEF BreakerTypeOK
  <2>. QED
    BY <2>1, <2>2 DEF RowProviderError
<1>6. failures + 1 \in Nat
  BY <1>1, BreakerKnown
<1>7. Counted(results', failures')
  BY <1>3, <1>4, <1>5, <1>6, CountedFewer
<1>8. BreakerSeesTheRun'
  BY <1>1, <1>5, <1>7, BreakerKnown DEF BreakerSeesTheRun
<1>. QED
  BY <1>1, <1>2, <1>5, <1>8, RowAdded

(* A refused row is in the outage that opened the circuit. *)
LEMMA RefusedRow ==
    ASSUME GateInv, RowRefused
    PROVE  GateInv'
PROOF
<1>. DEFINE r == Failed("circuit_open")
<1>1. RowIsNext /\ run.live /\ circuit = "open" /\ results' = Append(results, r)
      /\ UNCHANGED <<circuit, failures>>
  BY DEF RowRefused, Allows, breakerVars
<1>2. r \in RowResults /\ r.failure = "circuit_open"
  BY ResultsTyped DEF Failures
<1>. HIDE DEF r
<1>3. failures = Threshold /\ Threshold \in Nat /\ results \in Seq(RowResults)
      /\ Counted(results, Threshold)
  BY <1>1, BreakerKnown
<1>4. Counted(Append(results, r), Threshold)
  BY <1>2, <1>3, CountGrows
<1>5. /\ Append(results, r) \in Seq(RowResults)
      /\ Len(Append(results, r)) = Len(results) + 1 /\ Len(results) \in Nat
  BY <1>2, <1>3, NewRow, LenProperties
<1>6. Tripped(Append(results, r), Len(results) + 1)
  <2>. DEFINE new == Append(results, r)
  <2>1. new \in Seq(RowResults) /\ Len(new) >= 1 /\ Counted(new, Threshold)
    BY <1>4, <1>5
  <2>2. Tripped(new, Len(new))
    <3>. HIDE DEF new
    <3>. QED
      BY <2>1, CountTrips
  <2>. QED
    BY <1>5, <2>2
<1>7. BreakerTypeOK'
  BY <1>1 DEF GateInv, EvalTypeOK, BreakerTypeOK
<1>8. BreakerSeesTheRun'
  BY <1>1, <1>3, <1>4, BreakerKnown DEF BreakerSeesTheRun
<1>. QED
  BY <1>1, <1>2, <1>6, <1>7, <1>8, RowAdded

LEMMA CooldownGate ==
    ASSUME GateInv, CooldownEnds
    PROVE  GateInv'
PROOF
<1>1. /\ pc = "rows" /\ circuit = "open" /\ circuit' = "half_open"
      /\ UNCHANGED <<dataset, baseline, pc, run, results, verdict, exit, failures>>
  BY DEF CooldownEnds, CooldownOver
<1>2. EvalTypeOK'
  BY <1>1 DEF GateInv, EvalTypeOK, BreakerTypeOK
<1>3. RunTypeOK' /\ VerdictStands'
  BY <1>1 DEF GateInv, RunTypeOK, VerdictStands
<1>4. RunKnows'
  BY <1>1 DEF GateInv, RunKnows, FileIsOfItsRun
<1>5. BreakerSeesTheRun' /\ RefusalsFollowAnOutage'
  BY <1>1 DEF GateInv, BreakerSeesTheRun, RefusalsFollowAnOutage
<1>. QED
  BY <1>2, <1>3, <1>4, <1>5 DEF GateInv

(* The gate judges every row, or is skipped. *)
LEMMA RunJudged ==
    ASSUME GateInv, SkipGate \/ Judge
    PROVE  GateInv'
PROOF
<1>1. /\ AllRowsDone /\ ~run.update /\ pc' = "idle"
      /\ UNCHANGED <<dataset, baseline, run, results, circuit, failures>>
      /\ verdict' \in {"skipped", "PASS", "FAIL"} /\ exit' \in {0, 1}
  BY DEF SkipGate, Judge, ExitCode, breakerVars
<1>2. EvalTypeOK'
  BY <1>1 DEF GateInv, EvalTypeOK, BreakerTypeOK
<1>3. RunTypeOK'
  BY <1>1 DEF GateInv, RunTypeOK
<1>4. RunKnows'
  BY <1>1 DEF GateInv, RunKnows, FileIsOfItsRun
<1>5. VerdictStands'
  <2>1. CASE SkipGate
    BY <1>1, <2>1 DEF SkipGate, VerdictStands
  <2>2. CASE Judge
    <3>1. /\ run.base # NoFile /\ run.limit = 0
          /\ verdict' = IF Regressed(Metrics(run.rows, results), run.base,
                                     ParseFailureRate(results)) THEN "FAIL" ELSE "PASS"
          /\ exit' = IF verdict' = "FAIL" /\ ~run.nofail THEN 1 ELSE 0
      BY <2>2 DEF Judge, ExitCode
    <3>2. Len(results) = Len(run.rows)
      <4>1. run.rows \in Datasets /\ Len(results) = Len(Selected)
        BY <1>1 DEF AllRowsDone, GateInv, RunKnows
      <4>. QED
        BY <3>1, <4>1, SelectedRows
    <3>. QED
      BY <1>1, <3>1, <3>2 DEF VerdictStands
  <2>. QED
    BY <2>1, <2>2
<1>6. BreakerSeesTheRun' /\ RefusalsFollowAnOutage'
  BY <1>1 DEF GateInv, BreakerSeesTheRun, RefusalsFollowAnOutage
<1>. QED
  BY <1>2, <1>3, <1>4, <1>5, <1>6 DEF GateInv

(* A new baseline is first empty, and then of this run. *)
LEMMA RunWrites ==
    ASSUME GateInv, OpenBaseline \/ WriteBaseline
    PROVE  GateInv'
PROOF
<1>1. /\ pc \in {"rows", "writing"} /\ pc' \in {"idle", "writing"}
      /\ UNCHANGED <<dataset, run, results, circuit, failures>>
      /\ run.rows \in Datasets /\ run.sha \in Datasets /\ results \in Seq(RowResults)
      /\ baseline' \in {Broken, BuildBaseline(run.rows, results, run.sha)}
  BY DEF OpenBaseline, WriteBaseline, AllRowsDone, breakerVars, GateInv, EvalTypeOK, RunKnows
<1>2. \/ pc' = "writing" /\ UNCHANGED <<verdict, exit>>
      \/ pc' = "idle" /\ verdict' = "written" /\ exit' = 0
  BY DEF OpenBaseline, WriteBaseline
<1>3. EvalTypeOK'
  BY <1>1, <1>2 DEF GateInv, EvalTypeOK, BreakerTypeOK, Broken, BuildBaseline
<1>4. RunTypeOK'
  BY <1>1 DEF GateInv, RunTypeOK
<1>5. FileIsOfItsRun(baseline')
  BY <1>1 DEF FileIsOfItsRun, BuildBaseline
<1>6. RunKnows'
  <2>1. pc' = "writing" => run.update
    BY DEF OpenBaseline, WriteBaseline
  <2>. QED
    BY <1>1, <1>2, <1>5, <2>1 DEF GateInv, RunKnows, FileIsOfItsRun
<1>7. VerdictStands'
  <2>1. CASE pc' = "writing"
    BY <1>1, <1>2, <2>1 DEF GateInv, RunKnows, VerdictStands, NoExit
  <2>2. CASE pc' = "idle"
    <3>1. run.update
      BY <2>2 DEF OpenBaseline, WriteBaseline, GateInv, RunKnows
    <3>. QED
      BY <1>1, <1>2, <2>2, <3>1 DEF VerdictStands
  <2>. QED
    BY <1>2, <2>1, <2>2
<1>8. BreakerSeesTheRun' /\ RefusalsFollowAnOutage'
  BY <1>1, <1>2 DEF GateInv, BreakerSeesTheRun, RefusalsFollowAnOutage
<1>. QED
  BY <1>3, <1>4, <1>6, <1>7, <1>8 DEF GateInv

LEMMA GateStutters ==
    ASSUME GateInv, UNCHANGED vars
    PROVE  GateInv'
PROOF
<1>1. UNCHANGED <<dataset, baseline, pc, run, results, verdict, exit, circuit, failures>>
  BY DEF vars, breakerVars
<1>. QED
  BY <1>1 DEF GateInv, EvalTypeOK, BreakerTypeOK, RunTypeOK, RunKnows, FileIsOfItsRun,
              VerdictStands, BreakerSeesTheRun, RefusalsFollowAnOutage

(* GateInv holds always: the state is of its type, a baseline file is the one that
   its run built, the verdict and the exit code are those of the results, and the
   failures that the breaker has counted are behind each other in the results. *)
THEOREM GateInvariance == EvalSpec => []GateInv
PROOF
<1>1. EvalInit => GateInv
  BY InitGate
<1>2. GateInv /\ [EvalNext]_vars => GateInv'
  <2>. SUFFICES ASSUME GateInv, [EvalNext]_vars
                PROVE  GateInv'
    OBVIOUS
  <2>1. CASE EditDataset \/ RemoveBaseline
    BY <2>1, FilesChange
  <2>2. CASE LoadDataset
    BY <2>2, RunLoads
  <2>3. CASE StartRun
    BY <2>3, RunStarts
  <2>4. CASE RefuseRun \/ RunDies
    BY <2>4, RunFails
  <2>5. CASE RowClassified \/ RowUnparsed
    BY <2>5, AnsweredRow
  <2>6. CASE RowProviderError
    BY <2>6, FailedRow
  <2>7. CASE RowRefused
    BY <2>7, RefusedRow
  <2>8. CASE CooldownEnds
    BY <2>8, CooldownGate
  <2>9. CASE SkipGate \/ Judge
    BY <2>9, RunJudged
  <2>10. CASE OpenBaseline \/ WriteBaseline
    BY <2>10, RunWrites
  <2>11. CASE UNCHANGED vars
    BY <2>11, GateStutters
  <2>. QED
    BY <2>1, <2>2, <2>3, <2>4, <2>5, <2>6, <2>7, <2>8, <2>9, <2>10, <2>11
       DEF EvalNext, ClassifyRow, EndRun
<1>. QED
  BY <1>1, <1>2, PTL DEF EvalSpec

(* A row refused by the open circuit is behind Threshold provider errors of this run,
   with no answered row since the first of them (run_pipeline, CircuitBreaker). *)
THEOREM RefusalsAreOfThisRun == EvalSpec => []RefusalsFollowAnOutage
PROOF
<1>1. GateInv => RefusalsFollowAnOutage
  BY DEF GateInv
<1>. QED
  BY <1>1, GateInvariance, PTL

(* A verdict compares results on the same rows, unless the dataset was edited between
   load_dataset and dataset_sha256 (main's hash check). *)
THEOREM VerdictsCompareOneDataset == EvalSpec => []VerdictComparesOneDataset
PROOF
<1>1. GateInv => VerdictComparesOneDataset
  BY DEF GateInv, RunKnows, VerdictStands, VerdictComparesOneDataset
<1>. QED
  BY <1>1, GateInvariance, PTL

(* However many runs, edits and deaths lie between a baseline and a run that exits 0
   against it: the run is as often right in every field and fails to parse as seldom,
   up to the threshold and one unit of rounding (build_baseline, compare_baseline). *)
THEOREM CleanExitsHoldTheLine == EvalSpec => []CleanExitHoldsTheLine
PROOF
<1>1. GateInv => CleanExitHoldsTheLine
  <2>. SUFFICES ASSUME GateInv, exit = 0, ~run.update, ~run.nofail, run.limit = 0,
                       run.base # NoFile
                PROVE  LET slack == RegressionThreshold + 1 IN
                       /\ \A f \in Fields :
                             AtLeast(Cardinality(Right(run.rows, results, f)), Len(results),
                                     Cardinality(Right(run.base.on, run.base.of, f)),
                                     Len(run.base.of), slack)
                       /\ AtLeast(Cardinality(ParseFailures(run.base.of)), Len(run.base.of),
                                  Cardinality(ParseFailures(results)), Len(results), slack)
    BY DEF CleanExitHoldsTheLine
  <2>1. verdict = "PASS" /\ results \in Seq(RowResults)
    BY DEF GateInv, EvalTypeOK, VerdictStands
  <2>2. ~ Regressed(Metrics(run.rows, results), run.base, ParseFailureRate(results))
    BY <2>1 DEF GateInv, VerdictStands
  <2>3. /\ run.base.of \in Seq(RowResults)
        /\ run.base = BuildBaseline(run.base.on, run.base.of, run.base.sha)
    BY DEF GateInv, RunKnows, FileIsOfItsRun, Broken
  <2>4. PICK on, of, hash : on = run.base.on /\ of = run.base.of /\ hash = run.base.sha
    OBVIOUS
  <2>5. ~ Regressed(Metrics(run.rows, results), BuildBaseline(on, of, hash),
                    ParseFailureRate(results))
    BY <2>2, <2>3, <2>4
  <2>. QED
    BY <2>1, <2>3, <2>4, <2>5, PassHoldsTheLine
<1>. QED
  BY <1>1, GateInvariance, PTL

(* A run whose results are those behind its baseline passes, in spite of the rounding
   of the file (build_baseline, compare_baseline). *)
THEOREM RerunsPass == EvalSpec => []RerunPasses
PROOF
<1>1. GateInv => RerunPasses
  <2>. SUFFICES ASSUME GateInv, verdict \in {"PASS", "FAIL"}, results = run.base.of,
                       run.rows = run.base.on
                PROVE  verdict = "PASS"
    BY DEF RerunPasses
  <2>1. /\ results \in Seq(RowResults)
        /\ verdict = IF Regressed(Metrics(run.rows, results), run.base,
                                  ParseFailureRate(results)) THEN "FAIL" ELSE "PASS"
    BY DEF GateInv, EvalTypeOK, VerdictStands
  <2>2. run.base = BuildBaseline(run.rows, results, run.base.sha)
    <3>1. run.base \notin {NoFile, Broken}
      BY DEF GateInv, RunKnows, VerdictStands, Broken
    <3>. QED
      BY <3>1 DEF GateInv, RunKnows, FileIsOfItsRun
  <2>3. ~ Regressed(Metrics(run.rows, results), BuildBaseline(run.rows, results, run.base.sha),
                    ParseFailureRate(results))
    BY <2>1, OwnBaselineHolds
  <2>. QED
    BY <2>1, <2>2, <2>3
<1>. QED
  BY <1>1, GateInvariance, PTL

(* When all rows of a dataset are done, a field whose accuracy is 1 has a macro-F1 of 1,
   and the converse holds if every gold label of the field is known, failed rows
   included.  That gold labels are known is no assumption of the theorem: no code checks
   it (load_dataset, field_metrics). *)
THEOREM PerfectionAgrees == EvalSpec => []PerfectTogether
PROOF
<1>1. GateInv => PerfectTogether
  <2>. DEFINE Accurate(f) == Accuracy(run.rows, results, f)[1] = Accuracy(run.rows, results, f)[2]
              Full(f) == MacroF1(run.rows, results, f)[1] = MacroF1(run.rows, results, f)[2]
  <2>. SUFFICES ASSUME GateInv, NEW f \in Fields, AllRowsDone, run.limit = 0
                PROVE  /\ Accurate(f) => Full(f)
                       /\ WellLabelled(run.rows, f) /\ Full(f) => Accurate(f)
    BY DEF PerfectTogether, Metrics
  <2>1. run.rows \in Datasets /\ results \in Seq(RowResults) /\ Len(results) = Len(Selected)
    BY DEF AllRowsDone, GateInv, EvalTypeOK, RunKnows
  <2>2. Len(results) = Len(run.rows)
    BY <2>1, SelectedRows
  <2>3. run.rows \in Seq([Fields -> GoldLabels]) /\ Len(run.rows) \in Nat \ {0}
    BY <2>1, DatasetsAreRows
  <2>4. DOMAIN results = DOMAIN run.rows /\ Len(results) # 0
    BY <2>1, <2>2, <2>3, LenProperties
  <2>5. WellLabelled(run.rows, f) => (Accurate(f) <=> Full(f))
    BY <2>1, <2>4, PerfectMetricsAgree DEF WellLabelled
  <2>6. Accurate(f) => WellLabelled(run.rows, f)
    BY <2>1, <2>4, AccurateIsAllRight, RightRowsAreWellLabelled
  <2>. QED
    BY <2>5, <2>6
<1>. QED
  BY <1>1, GateInvariance, PTL
=============================================================================
