---------------------------- MODULE TableProofs ----------------------------
(***************************************************************************)
(* The rule table under any number of overlapping PUT /rules, of any       *)
(* length, and the routing of tickets by it.                               *)
(***************************************************************************)
EXTENDS MCRouting, RoutingProofs, FiniteSetTheorems

----------------------------------------------------------------------------
(* Rows and tables: the rows of a table are as many as its rules, and give it back. *)

RowAt(x, table, i) == [by |-> x, position |-> i, rule |-> table[i]]

FirstRows(x, table, k) == { RowAt(x, table, i) : i \in 1 .. k }

LEMMA RowsCount ==
    ASSUME NEW x, NEW table, NEW k \in Nat
    PROVE  /\ IsFiniteSet(FirstRows(x, table, k))
           /\ Cardinality(FirstRows(x, table, k)) = k
PROOF
<1>. DEFINE f == [i \in 1 .. k |-> RowAt(x, table, i)]
            T == FirstRows(x, table, k)
<1>1. IsFiniteSet(1 .. k) /\ Cardinality(1 .. k) = k
  BY FS_Interval
<1>2. f \in Bijection(1 .. k, T)
  <2>1. f \in [1 .. k -> T]
    BY DEF FirstRows
  <2>2. \A i, j \in 1 .. k : f[i] = f[j] => i = j
    BY DEF RowAt
  <2>3. \A t \in T : \E i \in 1 .. k : f[i] = t
    BY DEF FirstRows
  <2>. QED
    BY <2>1, <2>2, <2>3 DEF Bijection, Injection, Surjection, IsInjective
<1>3. ExistsBijection(1 .. k, T)
  BY <1>2 DEF ExistsBijection
<1>. QED
  BY <1>1, <1>3, FS_Bijection

LEMMA RowsAreFirstRows ==
    ASSUME NEW x, NEW table \in Seq(Rules)
    PROVE  RowsOf(x, table) = FirstRows(x, table, Len(table))
PROOF
  BY DEF RowsOf, FirstRows, RowAt

(* ORDER BY position gives back the table whose rows they are. *)
LEMMA TableComesBack ==
    ASSUME NEW x, NEW table \in Seq(Rules)
    PROVE  InOrder(RowsOf(x, table)) = table
PROOF
<1>. DEFINE R == RowsOf(x, table)
            n == Len(table)
            Before(r) == { o \in R : o.position < r.position }
            At(i) == CHOOSE r \in R : Cardinality(Before(r)) = i - 1
<1>1. n \in Nat /\ R = FirstRows(x, table, n)
  BY RowsAreFirstRows
<1>2. Cardinality(R) = n
  BY <1>1, RowsCount
<1>3. ASSUME NEW j \in 1 .. n
      PROVE  Cardinality(Before(RowAt(x, table, j))) = j - 1
  <2>1. Before(RowAt(x, table, j)) = FirstRows(x, table, j - 1)
    BY <1>1 DEF FirstRows, RowAt
  <2>2. j - 1 \in Nat
    BY <1>1
  <2>. QED
    BY <2>1, <2>2, RowsCount
<1>4. ASSUME NEW i \in 1 .. n
      PROVE  At(i).rule = table[i]
  <2>1. RowAt(x, table, i) \in R
    BY <1>1 DEF FirstRows
  <2>2. ASSUME NEW r \in R, Cardinality(Before(r)) = i - 1
        PROVE  r = RowAt(x, table, i)
    <3>1. PICK j \in 1 .. n : r = RowAt(x, table, j)
      BY <1>1 DEF FirstRows
    <3>2. j - 1 = i - 1
      BY <1>3, <2>2, <3>1
    <3>. QED
      BY <1>1, <3>1, <3>2
  <2>3. Cardinality(Before(RowAt(x, table, i))) = i - 1
    BY <1>3
  <2>. HIDE DEF Before, R
  <2>4. \E r \in R : Cardinality(Before(r)) = i - 1
    BY <2>1, <2>3
  <2>5. At(i) \in R /\ Cardinality(Before(At(i))) = i - 1
    BY <2>4, Zenon
  <2>. HIDE DEF At
  <2>6. At(i) = RowAt(x, table, i)
    BY <2>2, <2>5
  <2>. QED
    BY <2>6 DEF RowAt
<1>5. InOrder(R) = [i \in 1 .. Cardinality(R) |-> At(i).rule]
  BY DEF InOrder
<1>6. table = [i \in 1 .. n |-> table[i]]
  OBVIOUS
<1>. HIDE DEF R, At
<1>7. [i \in 1 .. n |-> At(i).rule] = [i \in 1 .. n |-> table[i]]
  BY <1>4
<1>. QED
  BY <1>2, <1>5, <1>6, <1>7 DEF R

LEMMA NoRowsNoRules == InOrder({}) = <<>>
PROOF
<1>1. <<>> \in Seq(Rules) /\ RowsOf(0, <<>>) = {}
  BY DEF RowsOf
<1>. QED
  BY <1>1, TableComesBack

(* A table that has rows has one at position 1. *)
LEMMA FirstPositionTaken ==
    ASSUME NEW x, NEW table \in Seq(Rules), RowsOf(x, table) # {}
    PROVE  \E r \in RowsOf(x, table) : r.position = 1
PROOF
<1>1. 1 \in DOMAIN table
  BY DEF RowsOf
<1>2. RowAt(x, table, 1) \in RowsOf(x, table)
  BY <1>1 DEF RowsOf, RowAt
<1>. QED
  BY <1>2 DEF RowAt

(* The first k rules of a payload, as rows. *)
LEMMA PrefixRows ==
    ASSUME NEW x, NEW table \in Seq(Rules), NEW k \in 0 .. Len(table)
    PROVE  /\ RowsOf(x, SubSeq(table, 1, k)) = FirstRows(x, table, k)
           /\ Cardinality(RowsOf(x, SubSeq(table, 1, k))) = k
PROOF
<1>. DEFINE p == SubSeq(table, 1, k)
<1>1. p \in Seq(Rules) /\ Len(p) = k /\ \A i \in 1 .. k : p[i] = table[i]
  OBVIOUS
<1>2. RowsOf(x, p) = FirstRows(x, p, k)
  BY <1>1, RowsAreFirstRows
<1>3. FirstRows(x, p, k) = FirstRows(x, table, k)
  BY <1>1 DEF FirstRows, RowAt
<1>. QED
  BY <1>2, <1>3, RowsCount
----------------------------------------------------------------------------
(* The inductive invariant: one lemma per step of a request. *)

(* A table whose rows are {} is {} or one request's: the two facts of PutInv about the
   table as a whole. *)
WholeTable ==
    /\ LoadRules \in Seq(Rules)
    /\ rows # {} => \E r \in rows : rows = RowsOf(r.by, LoadRules)

LEMMA NewTableIsWhole ==
    ASSUME NEW x, NEW table \in Seq(Rules), rows' = RowsOf(x, table)
    PROVE  WholeTable'
PROOF
<1>1. LoadRules' = table
  BY TableComesBack DEF LoadRules
<1>2. \A r \in RowsOf(x, table) : r.by = x
  BY DEF RowsOf
<1>. QED
  BY <1>1, <1>2 DEF WholeTable

LEMMA SameTableIsWhole ==
    ASSUME WholeTable, rows' \in {{}, rows}
    PROVE  WholeTable'
PROOF
<1>1. CASE rows' = rows
  BY <1>1 DEF WholeTable, LoadRules
<1>2. CASE rows' = {}
  <2>1. LoadRules' = <<>>
    BY <1>2, NoRowsNoRules DEF LoadRules
  <2>. QED
    BY <1>2, <2>1 DEF WholeTable
<1>. QED
  BY <1>1, <1>2

(* What requests were told, and what the table must be once one has committed. *)
AnswersHold ==
    /\ AnswersAreCommitted
    /\ \A w \in Writers : CommittedRules(w)

(* A step that commits nothing and answers nobody. *)
LEMMA NothingCommitted ==
    ASSUME AnswersHold, rows' = rows,
           \A v \in Writers :
               /\ Committed(v) => Committed(v)' /\ put'[v].payload = put[v].payload
               /\ Committed(v)' => Committed(v)
               /\ put'[v].at = "answered" => put[v].at = "answered"
               /\ put[v].at = "answered" => put'[v].answer = put[v].answer
    PROVE  AnswersHold'
PROOF
<1>1. LoadRules' = LoadRules
  BY DEF LoadRules
<1>2. \A v \in Writers : put[v].at = "answered" => Committed(v)
  BY DEF Committed
<1>3. AnswersAreCommitted'
  <2>1. ASSUME NEW w \in Writers, put'[w].at = "answered", put'[w].payload # <<>>
        PROVE  \E v \in Writers : Committed(v)' /\ put'[w].answer = put'[v].payload
    <3>1. PICK v \in Writers : Committed(v) /\ put[w].answer = put[v].payload
      BY <1>2, <2>1 DEF AnswersHold, AnswersAreCommitted
    <3>. QED
      BY <2>1, <3>1
  <2>. QED
    BY <2>1 DEF AnswersAreCommitted
<1>4. ASSUME NEW w \in Writers
      PROVE  CommittedRules(w)'
  <2>1. ASSUME Committed(w)', put'[w].payload # <<>>
        PROVE  \E v \in Writers : Committed(v)' /\ LoadRules' = put'[v].payload
    <3>1. PICK v \in Writers : Committed(v) /\ LoadRules = put[v].payload
      BY <2>1 DEF AnswersHold, CommittedRules
    <3>. QED
      BY <1>1, <3>1
  <2>. QED
    BY <2>1 DEF CommittedRules
<1>. QED
  BY <1>3, <1>4 DEF AnswersHold

LEMMA NewEntryIsTyped ==
    ASSUME PutTypeOK, rows' \subseteq TableRows,
           NEW w \in Writers, NEW entry \in Puts, put' = [put EXCEPT ![w] = entry]
    PROVE  PutTypeOK'
PROOF
  BY DEF PutTypeOK

LEMMA PutInitKeeps ==
    ASSUME PutInit
    PROVE  PutInv
PROOF
<1>1. rows = {} /\ \A w \in Writers : put[w] = NotPut
  BY DEF PutInit
<1>2. PutTypeOK
  <2>1. NotPut \in Puts
    BY DEF NotPut, Puts
  <2>. QED
    BY <2>1 DEF PutInit, PutTypeOK
<1>3. LoadRules = <<>>
  BY <1>1, NoRowsNoRules DEF LoadRules
<1>4. Cardinality({}) = 0
  BY FS_EmptySet
<1>5. ASSUME NEW w \in Writers
      PROVE  Uncommitted(w) /\ AllOrNothing(w) /\ InsertsAlone(w) /\ CommittedRules(w)
  <2>1. RowsOf(w, SubSeq(<<>>, 1, 0)) = {}
    BY DEF RowsOf
  <2>2. put[w].inserted = {} /\ put[w].payload = <<>> /\ put[w].at = "none"
    BY <1>1 DEF NotPut
  <2>. QED
    BY <1>1, <1>4, <2>1, <2>2 DEF Uncommitted, AllOrNothing, InsertsAlone, Active, NotPut,
                                   CommittedRules, Committed
<1>6. AnswersAreCommitted
  BY <1>1 DEF AnswersAreCommitted, NotPut
<1>. QED
  BY <1>1, <1>2, <1>3, <1>5, <1>6 DEF PutInv, TableIsOnePayload

LEMMA SeeRowsKeeps ==
    ASSUME PutInv, NEW w \in Writers, SeeRows(w)
    PROVE  PutInv'
PROOF
<1>. USE DEF PutInv
<1>1. PICK p \in Payloads :
        put' = [put EXCEPT ![w] = [NotPut EXCEPT !.at = "delete", !.payload = p, !.sees = rows]]
  BY DEF SeeRows
<1>2. rows' = rows /\ put[w].at = "none"
  BY DEF SeeRows
<1>3. /\ put'[w] = [at |-> "delete", payload |-> p, sees |-> rows, deleted |-> {},
                    inserted |-> {}, answer |-> <<>>]
      /\ \A v \in Writers \ {w} : put'[v] = put[v]
  BY <1>1 DEF PutTypeOK, Puts, NotPut
<1>4. PutTypeOK'
  <2>1. p \in Seq(Rules)
    BY PayloadsAssumption
  <2>2. rows \subseteq TableRows
    BY DEF PutTypeOK
  <2>3. put'[w] \in Puts
    BY <1>3, <2>1, <2>2 DEF Puts
  <2>. QED
    BY <1>1, <1>2, <2>2, <2>3 DEF PutTypeOK
<1>5. TableIsOnePayload'
  BY <1>2, <1>3 DEF TableIsOnePayload, Committed
<1>6. WholeTable'
  BY <1>2, SameTableIsWhole DEF WholeTable
<1>7. ASSUME NEW v \in Writers
      PROVE  Uncommitted(v)'
  BY <1>2, <1>3 DEF Uncommitted, Committed
<1>8. ASSUME NEW v \in Writers
      PROVE  AllOrNothing(v)'
  BY <1>2, <1>3 DEF AllOrNothing
<1>9. InsertsAlone(w)'
  <2>1. Cardinality({}) = 0
    BY FS_EmptySet
  <2>2. RowsOf(w, SubSeq(p, 1, 0)) = {}
    BY DEF RowsOf
  <2>3. Len(p) \in Nat
    BY PayloadsAssumption
  <2>. QED
    BY <1>3, <2>1, <2>2, <2>3 DEF InsertsAlone
<1>10. ASSUME NEW v \in Writers \ {w}
       PROVE  InsertsAlone(v)'
  BY <1>2, <1>3, <1>10 DEF InsertsAlone, Active
<1>11. AnswersHold'
  <2>1. AnswersHold
    BY DEF AnswersHold
  <2>. QED
    BY <1>2, <1>3, <2>1, NothingCommitted DEF Committed
<1>. QED
  BY <1>4, <1>5, <1>6, <1>7, <1>8, <1>9, <1>10, <1>11 DEF WholeTable, AnswersHold

LEMMA DeleteRowsKeeps ==
    ASSUME PutInv, NEW w \in Writers, DeleteRows(w)
    PROVE  PutInv'
PROOF
<1>. USE DEF PutInv
<1>1. /\ put' = [put EXCEPT ![w].at = "insert", ![w].deleted = put[w].sees \cap rows]
      /\ rows' = rows /\ put[w].at = "delete"
  BY DEF DeleteRows
<1>2. /\ put'[w] = [put[w] EXCEPT !.at = "insert", !.deleted = put[w].sees \cap rows]
      /\ \A v \in Writers \ {w} : put'[v] = put[v]
  BY <1>1 DEF PutTypeOK, Puts
<1>3. /\ put'[w].at = "insert" /\ put'[w].payload = put[w].payload
      /\ put'[w].sees = put[w].sees /\ put'[w].deleted = put[w].sees \cap rows
      /\ put'[w].inserted = put[w].inserted /\ put[w].inserted = {}
  BY <1>1, <1>2 DEF PutTypeOK, Puts, InsertsAlone
<1>4. PutTypeOK'
  <2>. DEFINE entry == [put[w] EXCEPT !.at = "insert", !.deleted = put[w].sees \cap rows]
  <2>1. put[w] \in Puts /\ rows \subseteq TableRows
    BY DEF PutTypeOK
  <2>2. entry \in Puts
    BY <2>1 DEF Puts
  <2>3. put' = [put EXCEPT ![w] = entry]
    BY <1>1
  <2>. HIDE DEF entry, PutInv
  <2>. QED
    BY <1>1, <2>1, <2>2, <2>3, NewEntryIsTyped DEF PutInv
<1>5. TableIsOnePayload'
  <2>1. ASSUME NEW r \in rows, r.by \in Writers
        PROVE  put'[r.by] = put[r.by]
    BY <1>1, <1>2, <2>1 DEF TableIsOnePayload, Committed
  <2>. QED
    BY <1>1, <2>1 DEF TableIsOnePayload, Committed
<1>6. WholeTable'
  BY <1>1, SameTableIsWhole DEF WholeTable
<1>7. ASSUME NEW v \in Writers
      PROVE  Uncommitted(v)'
  <2>1. \A u \in Writers :
          put'[u].sees \cup put'[u].deleted \subseteq put[u].sees \cup put[u].deleted
    BY <1>2, <1>3
  <2>2. ~ Committed(v)' => ~ Committed(v)
    BY <1>1, <1>2, <1>3 DEF Committed
  <2>. QED
    BY <1>1, <2>1, <2>2 DEF Uncommitted
<1>8. ASSUME NEW v \in Writers
      PROVE  AllOrNothing(v)'
  <2>1. put[w].sees \cap rows \in {{}, rows}
    BY <1>1 DEF AllOrNothing
  <2>2. (put[w].sees \cap rows) \cap rows = put[w].sees \cap rows
    OBVIOUS
  <2>3. CASE v = w
    BY <1>1, <1>3, <2>1, <2>2, <2>3 DEF AllOrNothing
  <2>4. CASE v # w
    BY <1>1, <1>2, <2>4 DEF AllOrNothing
  <2>. QED
    BY <2>3, <2>4
<1>9. ASSUME NEW v \in Writers
      PROVE  InsertsAlone(v)'
  <2>1. CASE v = w
    BY <1>1, <1>3, <2>1 DEF InsertsAlone, Active
  <2>2. CASE v # w
    <3>1. put'[v] = put[v] /\ \A u \in Writers : Active(u)' => Active(u)
      BY <1>1, <1>2, <1>3, <2>2 DEF Active
    <3>2. \A u \in Writers : put'[u].inserted = put[u].inserted
      BY <1>2, <1>3
    <3>. QED
      BY <1>1, <3>1, <3>2 DEF InsertsAlone
  <2>. QED
    BY <2>1, <2>2
<1>10. AnswersHold'
  <2>1. AnswersHold
    BY DEF AnswersHold
  <2>. QED
    BY <1>1, <1>2, <1>3, <2>1, NothingCommitted DEF Committed
<1>. QED
  BY <1>4, <1>5, <1>6, <1>7, <1>8, <1>9, <1>10 DEF WholeTable, AnswersHold

LEMMA PutFailsKeeps ==
    ASSUME PutInv, NEW w \in Writers, PutFails(w)
    PROVE  PutInv'
PROOF
<1>. USE DEF PutInv
<1>. DEFINE end == IF Active(w) THEN "failed" ELSE "unanswered"
<1>1. /\ put' = [put EXCEPT ![w] = [put[w] EXCEPT !.at = end]]
      /\ rows' = rows
      /\ put[w].at \in {"delete", "insert", "committed"}
  BY DEF PutFails, Active
<1>2. end \in {"failed", "unanswered"} /\ (end = "unanswered" <=> put[w].at = "committed")
  BY <1>1 DEF Active
<1>. HIDE DEF end
<1>3. /\ put'[w].at = end /\ put'[w].payload = put[w].payload
      /\ put'[w].answer = put[w].answer
      /\ put'[w].sees = put[w].sees /\ put'[w].deleted = put[w].deleted
      /\ put'[w].inserted = put[w].inserted
      /\ \A v \in Writers \ {w} : put'[v] = put[v]
  BY <1>1 DEF PutTypeOK, Puts
<1>4. PutTypeOK'
  <2>1. put[w] \in Puts /\ rows \subseteq TableRows
    BY DEF PutTypeOK
  <2>2. [put[w] EXCEPT !.at = end] \in Puts
    BY <1>2, <2>1 DEF Puts
  <2>. QED
    BY <1>1, <2>1, <2>2, NewEntryIsTyped
<1>5. TableIsOnePayload'
  BY <1>1, <1>3, <1>2 DEF TableIsOnePayload, Committed
<1>6. WholeTable'
  BY <1>1, SameTableIsWhole DEF WholeTable
<1>7. ASSUME NEW v \in Writers
      PROVE  Uncommitted(v)' /\ AllOrNothing(v)'
  BY <1>1, <1>3, <1>2 DEF Uncommitted, AllOrNothing, Committed
<1>8. ASSUME NEW v \in Writers
      PROVE  InsertsAlone(v)'
  <2>1. CASE v = w
    BY <1>1, <1>3, <1>2, <2>1 DEF InsertsAlone, Active
  <2>2. CASE v # w
    BY <1>1, <1>3, <1>2, <2>2 DEF InsertsAlone, Active
  <2>. QED
    BY <2>1, <2>2
<1>9. AnswersHold'
  <2>1. AnswersHold
    BY DEF AnswersHold
  <2>. QED
    BY <1>1, <1>3, <1>2, <2>1, NothingCommitted DEF Committed
<1>. QED
  BY <1>4, <1>5, <1>6, <1>7, <1>8, <1>9 DEF WholeTable, AnswersHold

(* The position is free, so the table is empty for this request; nobody waits for it to
   be given back, so nobody else has inserted. *)
LEMMA FirstInsertIsAlone ==
    ASSUME PutInv, NEW w \in Writers, InsertRule(w)
    PROVE  /\ rows \subseteq put[w].deleted
           /\ \A v \in Writers \ {w} : Active(v) => put[v].inserted = {}
PROOF
<1>. USE DEF PutInv
<1>. DEFINE k == Cardinality(put[w].inserted)
<1>1. Active(w) /\ put[w].at = "insert"
  BY DEF InsertRule, Active
<1>2. CASE put[w].inserted # {}
  BY <1>1, <1>2 DEF InsertsAlone
<1>3. CASE put[w].inserted = {}
  <2>1. NextPosition(w) = 1
    BY <1>3, FS_EmptySet DEF NextPosition
  <2>2. rows \subseteq put[w].deleted
    <3>1. CASE put[w].deleted \cap rows = rows
      BY <3>1
    <3>2. CASE put[w].deleted \cap rows = {} /\ rows # {}
      <4>1. PICK r \in rows : rows = RowsOf(r.by, LoadRules)
        BY <3>2
      <4>2. PICK s \in rows : s.position = 1
        BY <3>2, <4>1, FirstPositionTaken
      <4>3. s \notin put[w].deleted
        BY <3>2
      <4>. QED
        BY <2>1, <4>2, <4>3 DEF InsertRule, Conflicts
    <3>. QED
      BY <1>1, <3>1, <3>2 DEF AllOrNothing
  <2>3. ASSUME NEW v \in Writers \ {w}, Active(v), put[v].inserted # {}
        PROVE  FALSE
    <3>1. /\ Cardinality(put[v].inserted) \in 0 .. Len(put[v].payload)
          /\ put[v].inserted =
                RowsOf(v, SubSeq(put[v].payload, 1, Cardinality(put[v].inserted)))
          /\ put[v].payload \in Seq(Rules)
      <4>1. put[v].inserted \subseteq TableRows /\ put[v].payload \in Seq(Rules)
        BY DEF PutTypeOK, Puts
      <4>2. Cardinality(put[v].inserted) \in Nat
        BY DEF InsertsAlone
      <4>. QED
        BY <4>1, <4>2 DEF InsertsAlone
    <3>2. PICK r \in put[v].inserted : r.position = 1
      <4>1. SubSeq(put[v].payload, 1, Cardinality(put[v].inserted)) \in Seq(Rules)
        BY <3>1
      <4>. QED
        BY <2>3, <3>1, <4>1, FirstPositionTaken
    <3>. QED
      BY <2>1, <2>3, <3>2 DEF InsertRule, Waits
  <2>. QED
    BY <2>2, <2>3
<1>. QED
  BY <1>2, <1>3

LEMMA InsertRuleKeeps ==
    ASSUME PutInv, NEW w \in Writers, InsertRule(w)
    PROVE  PutInv'
PROOF
<1>. USE DEF PutInv
<1>. DEFINE k == Cardinality(put[w].inserted)
            table == put[w].payload
            new == [by |-> w, position |-> k + 1, rule |-> table[k + 1]]
<1>1. table \in Seq(Rules) /\ k \in 0 .. Len(table) /\ k + 1 \in 0 .. Len(table)
  BY DEF PutTypeOK, Puts, InsertsAlone, InsertRule, AllInserted
<1>2. /\ put[w].at = "insert" /\ rows' = rows
      /\ put' = [put EXCEPT ![w] = [put[w] EXCEPT !.inserted = put[w].inserted \cup {new}]]
  BY DEF InsertRule, NextPosition, PutTypeOK, Puts
<1>3. /\ put'[w].at = "insert" /\ put'[w].payload = table
      /\ put'[w].sees = put[w].sees /\ put'[w].deleted = put[w].deleted
      /\ put'[w].inserted = put[w].inserted \cup {new}
      /\ \A v \in Writers \ {w} : put'[v] = put[v]
  BY <1>2 DEF PutTypeOK, Puts
<1>4. put'[w].inserted = RowsOf(w, SubSeq(table, 1, k + 1))
      /\ Cardinality(put'[w].inserted) = k + 1
  <2>1. put[w].inserted = FirstRows(w, table, k)
    BY <1>1, PrefixRows DEF InsertsAlone
  <2>2. FirstRows(w, table, k + 1) = FirstRows(w, table, k) \cup {new}
    BY <1>1 DEF FirstRows, RowAt
  <2>3. /\ RowsOf(w, SubSeq(table, 1, k + 1)) = FirstRows(w, table, k + 1)
        /\ Cardinality(RowsOf(w, SubSeq(table, 1, k + 1))) = k + 1
    <3>. HIDE DEF k, table
    <3>. QED
      BY <1>1, PrefixRows
  <2>. QED
    BY <1>3, <2>1, <2>2, <2>3
<1>5. PutTypeOK'
  <2>1. new \in TableRows
    BY <1>1 DEF TableRows
  <2>2. put[w] \in Puts /\ rows \subseteq TableRows
    BY DEF PutTypeOK
  <2>3. [put[w] EXCEPT !.inserted = put[w].inserted \cup {new}] \in Puts
    BY <2>1, <2>2 DEF Puts
  <2>. HIDE DEF new
  <2>. QED
    BY <1>2, <2>2, <2>3, NewEntryIsTyped
<1>6. TableIsOnePayload'
  BY <1>2, <1>3 DEF TableIsOnePayload, Committed
<1>7. WholeTable'
  BY <1>2, SameTableIsWhole DEF WholeTable
<1>8. ASSUME NEW v \in Writers
      PROVE  Uncommitted(v)' /\ AllOrNothing(v)'
  BY <1>2, <1>3 DEF Uncommitted, AllOrNothing, Committed
<1>9. InsertsAlone(w)'
  BY <1>1, <1>2, <1>3, <1>4, FirstInsertIsAlone DEF InsertsAlone, Active
<1>10. ASSUME NEW v \in Writers \ {w}
       PROVE  InsertsAlone(v)'
  <2>1. Active(v) => put[v].inserted = {}
    BY FirstInsertIsAlone
  <2>. QED
    BY <1>2, <1>3, <2>1 DEF InsertsAlone, Active
<1>11. AnswersHold'
  <2>1. AnswersHold
    BY DEF AnswersHold
  <2>. QED
    BY <1>2, <1>3, <2>1, NothingCommitted DEF Committed
<1>. QED
  BY <1>5, <1>6, <1>7, <1>8, <1>9, <1>10, <1>11 DEF WholeTable, AnswersHold

(* What a commit leaves behind: the payload, or, if that is empty, what was there or
   nothing. *)
LEMMA CommitLeaves ==
    ASSUME PutInv, NEW w \in Writers, CommitRules(w)
    PROVE  /\ put[w].payload # <<>> =>
                 rows' = RowsOf(w, put[w].payload) /\ put[w].inserted # {}
           /\ put[w].payload = <<>> => rows' \in {{}, rows}
PROOF
<1>. USE DEF PutInv
<1>1. /\ put[w].at = "insert" /\ Active(w) /\ AllInserted(w)
      /\ rows' = (rows \ put[w].deleted) \cup put[w].inserted
  BY DEF CommitRules, Active
<1>2. put[w].payload \in Seq(Rules)
  BY DEF PutTypeOK, Puts
<1>3. put[w].inserted = RowsOf(w, put[w].payload)
  <2>1. SubSeq(put[w].payload, 1, Len(put[w].payload)) = put[w].payload
    BY <1>2
  <2>. QED
    BY <1>1, <2>1 DEF InsertsAlone, AllInserted
<1>4. CASE put[w].payload # <<>>
  <2>1. RowAt(w, put[w].payload, 1) \in put[w].inserted
    BY <1>2, <1>3, <1>4 DEF RowsOf, RowAt
  <2>. QED
    BY <1>1, <1>3, <1>4, <2>1 DEF InsertsAlone
<1>5. CASE put[w].payload = <<>>
  <2>1. put[w].inserted = {}
    BY <1>3, <1>5 DEF RowsOf
  <2>2. put[w].deleted \cap rows \in {{}, rows}
    BY <1>1 DEF AllOrNothing
  <2>. QED
    BY <1>1, <1>5, <2>1, <2>2
<1>. QED
  BY <1>4, <1>5

LEMMA CommitRulesKeeps ==
    ASSUME PutInv, NEW w \in Writers, CommitRules(w)
    PROVE  PutInv'
PROOF
<1>. USE DEF PutInv
<1>1. /\ put[w].at = "insert" /\ Active(w)
      /\ put' = [put EXCEPT ![w].at = "committed"]
      /\ rows' = (rows \ put[w].deleted) \cup put[w].inserted
  BY DEF CommitRules, Active
<1>2. /\ put'[w].at = "committed" /\ put'[w].answer = put[w].answer
      /\ put'[w].payload = put[w].payload
      /\ put'[w].sees = put[w].sees /\ put'[w].deleted = put[w].deleted
      /\ put'[w].inserted = put[w].inserted
      /\ \A v \in Writers \ {w} : put'[v] = put[v]
  BY <1>1 DEF PutTypeOK, Puts
<1>3. PutTypeOK'
  <2>1. put[w] \in Puts /\ rows \subseteq TableRows
    BY DEF PutTypeOK
  <2>2. [put[w] EXCEPT !.at = "committed"] \in Puts /\ rows' \subseteq TableRows
    BY <1>1, <2>1 DEF Puts
  <2>3. put' = [put EXCEPT ![w] = [put[w] EXCEPT !.at = "committed"]]
    BY <1>1
  <2>. QED
    BY <2>2, <2>3, NewEntryIsTyped
<1>4. put[w].payload \in Seq(Rules)
  BY DEF PutTypeOK, Puts
<1>5. AnswersAreCommitted'
  BY <1>1, <1>2 DEF AnswersAreCommitted, Committed
<1>6. CASE put[w].payload # <<>>
  <2>1. rows' = RowsOf(w, put[w].payload) /\ put[w].inserted # {}
    BY <1>6, CommitLeaves
  <2>2. \A r \in rows' : r.by = w
    BY <2>1 DEF RowsOf
  <2>3. TableIsOnePayload'
    BY <1>2, <2>1, <2>2 DEF TableIsOnePayload, Committed
  <2>4. WholeTable'
    BY <1>4, <2>1, NewTableIsWhole
  <2>5. ASSUME NEW v \in Writers
        PROVE  Uncommitted(v)'
    BY <1>2, <2>2 DEF Uncommitted, Committed
  <2>6. ASSUME NEW v \in Writers \ {w}, Active(v)
        PROVE  put[v].sees \cap rows' = {} /\ put[v].deleted \cap rows' = {}
    BY <1>1, <2>2 DEF Uncommitted, Active, Committed
  <2>7. ASSUME NEW v \in Writers
        PROVE  AllOrNothing(v)'
    BY <1>2, <2>6 DEF AllOrNothing, Active
  <2>8. ASSUME NEW v \in Writers
        PROVE  InsertsAlone(v)'
    <3>1. CASE v = w
      BY <1>2, <3>1 DEF InsertsAlone, Active
    <3>2. CASE v # w
      BY <1>1, <1>2, <2>1, <3>2 DEF InsertsAlone, Active
    <3>. QED
      BY <3>1, <3>2
  <2>9. AnswersHold'
    <3>1. LoadRules' = put'[w].payload /\ Committed(w)'
      BY <1>2, <1>4, <2>1, TableComesBack DEF LoadRules, Committed
    <3>. QED
      BY <1>2, <1>5, <3>1 DEF AnswersHold, CommittedRules
  <2>. QED
    BY <1>3, <2>3, <2>4, <2>5, <2>7, <2>8, <2>9 DEF WholeTable, AnswersHold
<1>7. CASE put[w].payload = <<>>
  <2>1. rows' \in {{}, rows}
    BY <1>7, CommitLeaves
  <2>2. TableIsOnePayload'
    <3>1. ASSUME NEW r \in rows, r.by \in Writers
          PROVE  r.by # w
      BY <1>1 DEF Uncommitted, Committed
    <3>. QED
      BY <1>2, <2>1, <3>1 DEF TableIsOnePayload, Committed
  <2>3. WholeTable'
    BY <2>1, SameTableIsWhole DEF WholeTable
  <2>4. ASSUME NEW v \in Writers
        PROVE  Uncommitted(v)' /\ AllOrNothing(v)'
    BY <1>2, <2>1 DEF Uncommitted, AllOrNothing, Committed
  <2>5. ASSUME NEW v \in Writers
        PROVE  InsertsAlone(v)'
    <3>1. CASE v = w
      BY <1>2, <3>1 DEF InsertsAlone, Active
    <3>2. CASE v # w
      BY <1>1, <1>2, <2>1, <3>2 DEF InsertsAlone, Active
    <3>. QED
      BY <3>1, <3>2
  <2>6. AnswersHold'
    <3>1. ASSUME NEW v \in Writers, Committed(v)', put'[v].payload # <<>>
          PROVE  \E u \in Writers : Committed(u)' /\ LoadRules' = put'[u].payload
      <4>1. CASE rows' = {}
        <5>1. LoadRules' = put'[w].payload /\ Committed(w)'
          BY <1>2, <1>7, <4>1, NoRowsNoRules DEF LoadRules, Committed
        <5>. QED
          BY <5>1
      <4>2. CASE rows' = rows
        <5>1. Committed(v) /\ put[v].payload # <<>>
          BY <1>2, <1>7, <3>1 DEF Committed
        <5>2. PICK u \in Writers : Committed(u) /\ LoadRules = put[u].payload
          BY <5>1 DEF CommittedRules
        <5>3. Committed(u)' /\ put'[u].payload = put[u].payload /\ LoadRules' = LoadRules
          BY <1>2, <4>2, <5>2 DEF Committed, LoadRules
        <5>. QED
          BY <5>2, <5>3
      <4>. QED
        BY <2>1, <4>1, <4>2
    <3>. QED
      BY <1>5, <3>1 DEF AnswersHold, CommittedRules
  <2>. QED
    BY <1>3, <2>2, <2>3, <2>4, <2>5, <2>6 DEF WholeTable, AnswersHold
<1>. QED
  BY <1>6, <1>7

LEMMA AnswerRulesKeeps ==
    ASSUME PutInv, NEW w \in Writers, AnswerRules(w)
    PROVE  PutInv'
PROOF
<1>. USE DEF PutInv
<1>1. /\ put' = [put EXCEPT ![w].at = "answered", ![w].answer = LoadRules] /\ rows' = rows
      /\ put[w].at = "committed"
  BY DEF AnswerRules
<1>2. /\ put'[w].at = "answered" /\ put'[w].payload = put[w].payload
      /\ put'[w].sees = put[w].sees /\ put'[w].deleted = put[w].deleted
      /\ put'[w].inserted = put[w].inserted /\ put'[w].answer = LoadRules
      /\ \A v \in Writers \ {w} : put'[v] = put[v]
  BY <1>1 DEF PutTypeOK, Puts
<1>3. PutTypeOK'
  <2>1. put[w] \in Puts /\ LoadRules \in Seq(Rules)
    BY DEF PutTypeOK
  <2>2. [put[w] EXCEPT !.at = "answered", !.answer = LoadRules] \in Puts
    BY <2>1 DEF Puts
  <2>3. put' = [put EXCEPT ![w] = [put[w] EXCEPT !.at = "answered", !.answer = LoadRules]]
    BY <1>1
  <2>. QED
    BY <1>1, <2>2, <2>3, NewEntryIsTyped DEF PutTypeOK
<1>4. WholeTable'
  BY <1>1, SameTableIsWhole DEF WholeTable
<1>5. \A v \in Writers : /\ Committed(v)' <=> Committed(v)
                         /\ put'[v].payload = put[v].payload
                         /\ put'[v].sees = put[v].sees /\ put'[v].deleted = put[v].deleted
  BY <1>1, <1>2 DEF Committed
<1>6. TableIsOnePayload'
  BY <1>1, <1>5 DEF TableIsOnePayload
<1>7. ASSUME NEW v \in Writers
      PROVE  Uncommitted(v)' /\ AllOrNothing(v)'
  <2>1. Uncommitted(v)'
    BY <1>1, <1>5 DEF Uncommitted
  <2>2. AllOrNothing(v)'
    BY <1>1, <1>2 DEF AllOrNothing
  <2>. QED
    BY <2>1, <2>2
<1>8. ASSUME NEW v \in Writers
      PROVE  InsertsAlone(v)'
  <2>1. CASE v = w
    BY <1>1, <1>2, <2>1 DEF InsertsAlone, Active
  <2>2. CASE v # w
    <3>1. put'[v] = put[v] /\ \A u \in Writers : Active(u)' => Active(u)
      BY <1>1, <1>2, <2>2 DEF Active
    <3>2. \A u \in Writers : put'[u].inserted = put[u].inserted
      BY <1>2
    <3>. QED
      BY <1>1, <3>1, <3>2 DEF InsertsAlone
  <2>. QED
    BY <2>1, <2>2
<1>9. LoadRules' = LoadRules
  BY <1>1 DEF LoadRules
<1>10. \A v \in Writers : CommittedRules(v)'
  BY <1>5, <1>9 DEF CommittedRules
<1>11. AnswersAreCommitted'
  <2>1. ASSUME NEW v \in Writers, put'[v].at = "answered", put'[v].payload # <<>>
        PROVE  \E u \in Writers : Committed(u)' /\ put'[v].answer = put'[u].payload
    <3>1. CASE v = w
      <4>1. PICK u \in Writers : Committed(u) /\ LoadRules = put[u].payload
        BY <1>1, <1>2, <2>1, <3>1 DEF CommittedRules, Committed
      <4>. QED
        BY <1>2, <1>5, <3>1, <4>1
    <3>2. CASE v # w
      <4>1. PICK u \in Writers : Committed(u) /\ put[v].answer = put[u].payload
        BY <1>2, <2>1, <3>2 DEF AnswersAreCommitted
      <4>. QED
        BY <1>2, <1>5, <3>2, <4>1
    <3>. QED
      BY <3>1, <3>2
  <2>. QED
    BY <2>1 DEF AnswersAreCommitted
<1>. QED
  BY <1>3, <1>4, <1>6, <1>7, <1>8, <1>10, <1>11 DEF WholeTable

LEMMA PutStepKeeps ==
    ASSUME PutInv, PutStep
    PROVE  PutInv'
PROOF
  BY SeeRowsKeeps, DeleteRowsKeeps, InsertRuleKeeps, CommitRulesKeeps, AnswerRulesKeeps,
     PutFailsKeeps
     DEF PutStep

----------------------------------------------------------------------------
(* The machine of MCRouting. *)

(* What was routed was routed by the loop, on the table that is still there. *)
RoutedByTheLoop ==
    /\ labels \in Labels \cup {None}
    /\ labels # None => queue = ScanRules(rules, labels)

RouteInv == PutInv /\ RoutedByTheLoop

LEMMA ReplaceRulesKeeps ==
    ASSUME PutInv, ReplaceRules
    PROVE  PutInv'
PROOF
<1>. USE DEF PutInv
<1>1. PICK table \in Tables : rows' = RowsOf("seed", table)
  BY DEF ReplaceRules
<1>2. table \in Seq(Rules)
  BY MaxRulesAssumption DEF Tables
<1>3. put' = put /\ \A w \in Writers : put[w] = NotPut
  BY DEF ReplaceRules
<1>4. \A r \in rows' : r.by = "seed" /\ r.by \notin Writers
  BY <1>1, PayloadsAssumption DEF RowsOf
<1>5. PutTypeOK'
  <2>1. rows' \subseteq TableRows
    BY <1>1, <1>2 DEF RowsOf, TableRows
  <2>. QED
    BY <1>3, <2>1 DEF PutTypeOK
<1>6. TableIsOnePayload'
  BY <1>4 DEF TableIsOnePayload
<1>7. WholeTable'
  BY <1>1, <1>2, NewTableIsWhole
<1>8. ASSUME NEW w \in Writers
      PROVE  Uncommitted(w)' /\ AllOrNothing(w)' /\ CommittedRules(w)'
  BY <1>3, <1>4 DEF Uncommitted, AllOrNothing, CommittedRules, Committed, NotPut
<1>9. ASSUME NEW w \in Writers
      PROVE  InsertsAlone(w)'
  BY <1>3 DEF InsertsAlone, Active, NotPut
<1>10. AnswersAreCommitted'
  BY <1>3 DEF AnswersAreCommitted, NotPut
<1>. QED
  BY <1>5, <1>6, <1>7, <1>8, <1>9, <1>10 DEF WholeTable

(* PutInv speaks of the table and the requests only. *)
LEMMA PutInvFrame ==
    ASSUME PutInv, UNCHANGED putVars
    PROVE  PutInv'
PROOF
  BY DEF PutInv, putVars, PutTypeOK, TableIsOnePayload, LoadRules, Uncommitted,
         AllOrNothing, InsertsAlone, Active, Committed, CommittedRules, AnswersAreCommitted

LEMMA RouteInvInit == Init => RouteInv
PROOF
  BY PutInitKeeps DEF Init, RouteInv, RoutedByTheLoop

LEMMA RouteInvStep ==
    ASSUME RouteInv, [Next]_vars
    PROVE  RouteInv'
PROOF
<1>. USE DEF RouteInv
<1>1. PutInv'
  BY ReplaceRulesKeeps, PutStepKeeps, PutInvFrame
     DEF Next, Overlap, Route, Again, vars
<1>2. RoutedByTheLoop'
  <2>1. CASE ReplaceRules \/ Overlap
    BY <2>1 DEF ReplaceRules, Overlap, RoutedByTheLoop
  <2>2. CASE Route
    <3>1. rules' = rules
      BY <2>2 DEF Route, putVars, rules, LoadRules
    <3>. QED
      BY <2>2, <3>1 DEF Route, RoutedByTheLoop
  <2>3. CASE Again
    BY <2>3 DEF Again, RoutedByTheLoop
  <2>4. CASE UNCHANGED vars
    BY <2>4 DEF vars, putVars, RoutedByTheLoop, rules, LoadRules
  <2>. QED
    BY <2>1, <2>2, <2>3, <2>4 DEF Next
<1>. QED
  BY <1>1, <1>2

(* The table under overlapping PUTs, and what was routed by it. *)
THEOREM TableInvariance == Spec => []PutInv
PROOF
<1>1. RouteInv /\ [Next]_vars => RouteInv'
  BY RouteInvStep
<1>2. RouteInv => PutInv
  BY DEF RouteInv
<1>. QED
  BY <1>1, <1>2, RouteInvInit, PTL DEF Spec

(* However many PUT /rules overlap, of whatever length, the committed table is one
   request's whole payload or the table from before them (routing.py replace_rules). *)
THEOREM TableStaysWhole == Spec => []TableIsOnePayload
PROOF
<1>1. PutInv => TableIsOnePayload
  BY DEF PutInv
<1>. QED
  BY <1>1, TableInvariance, PTL

(* A 200 for a table with rules shows a whole table, of this request or of one that
   committed as well (routers/rules.py put_rules). *)
THEOREM AnswersShowCommits == Spec => []AnswersAreCommitted
PROOF
<1>1. PutInv => AnswersAreCommitted
  BY DEF PutInv
<1>. QED
  BY <1>1, TableInvariance, PTL

----------------------------------------------------------------------------
(* The refinement: one lemma per step of a request. *)

(* A step of one request changes its entry only. *)
LEMMA OneRequestMoves ==
    ASSUME PutTypeOK, PutTypeOK', NEW w \in Writers,
           \A v \in Writers \ {w} : put'[v] = put[v]
    PROVE  Requested' = [Requested EXCEPT ![w] = Request(w)']
PROOF
<1>1. \A v \in Writers \ {w} : Request(v)' = Request(v)
  BY DEF Request, Stage
<1>2. Requested' = [v \in Writers |-> IF v = w THEN Request(w)' ELSE Request(v)]
  BY <1>1, Zenon DEF Requested
<1>. QED
  BY <1>2 DEF Requested

LEMMA SeeRowsStarts ==
    ASSUME PutInv, PutInv', NEW w \in Writers, SeeRows(w)
    PROVE  Table!Start(w)
PROOF
<1>1. PICK p \in Payloads :
        put' = [put EXCEPT ![w] = [NotPut EXCEPT !.at = "delete", !.payload = p, !.sees = rows]]
  BY DEF SeeRows
<1>2. put'[w].at = "delete" /\ put'[w].payload = p /\ put'[w].answer = <<>>
  BY <1>1 DEF PutInv, PutTypeOK, NotPut
<1>3. Request(w)' = [at |-> "open", payload |-> p, answer |-> <<>>]
  BY <1>2 DEF Request, Stage
<1>4. Requested' = [Requested EXCEPT ![w] = Request(w)']
  BY <1>1, OneRequestMoves DEF PutInv, PutTypeOK
<1>5. Requested[w].at = "none"
  BY DEF SeeRows, Requested, Request, Stage
<1>6. rules' = rules
  BY DEF SeeRows, rules, LoadRules
<1>. QED
  BY <1>3, <1>4, <1>5, <1>6 DEF Table!Start

(* The statements of an open transaction are not seen. *)
LEMMA StatementsAreHidden ==
    ASSUME PutInv, PutInv', NEW w \in Writers, DeleteRows(w) \/ InsertRule(w)
    PROVE  UNCHANGED <<rules, Requested>>
PROOF
<1>1. /\ put[w].at \in {"delete", "insert"} /\ put'[w].at = "insert"
      /\ put'[w].payload = put[w].payload /\ put'[w].answer = put[w].answer
      /\ \A v \in Writers \ {w} : put'[v] = put[v]
  BY DEF DeleteRows, InsertRule, PutInv, PutTypeOK, Puts
<1>2. Request(w)' = Request(w)
  BY <1>1 DEF Request, Stage
<1>3. Requested' = [Requested EXCEPT ![w] = Request(w)']
  BY <1>1, OneRequestMoves DEF PutInv
<1>4. rules' = rules
  BY DEF DeleteRows, InsertRule, rules, LoadRules
<1>. QED
  BY <1>2, <1>3, <1>4 DEF Requested

LEMMA CommitReplaces ==
    ASSUME PutInv, PutInv', NEW w \in Writers, CommitRules(w)
    PROVE  Table!Replace(w)
PROOF
<1>1. /\ put[w].at = "insert" /\ put'[w].at = "committed"
      /\ put'[w].payload = put[w].payload /\ put'[w].answer = put[w].answer
      /\ \A v \in Writers \ {w} : put'[v] = put[v]
  BY DEF CommitRules, PutInv, PutTypeOK, Puts
<1>2. Request(w)' = [Request(w) EXCEPT !.at = "committed"] /\ Request(w).at = "open"
  BY <1>1 DEF Request, Stage
<1>3. Requested' = [Requested EXCEPT ![w] = Request(w)']
  BY <1>1, OneRequestMoves DEF PutInv
<1>4. Requested[w] = Request(w) /\ Requested[w].payload = put[w].payload
  BY DEF Requested, Request
<1>5. \/ rules' = put[w].payload
      \/ put[w].payload = <<>> /\ rules' = rules
  <2>1. CASE put[w].payload # <<>>
    <3>1. rows' = RowsOf(w, put[w].payload)
      BY <2>1, CommitLeaves
    <3>2. put[w].payload \in Seq(Rules)
      BY DEF PutInv, PutTypeOK, Puts
    <3>. QED
      BY <3>1, <3>2, TableComesBack DEF rules, LoadRules
  <2>2. CASE put[w].payload = <<>>
    <3>1. rows' \in {{}, rows}
      BY <2>2, CommitLeaves
    <3>. QED
      BY <2>2, <3>1, NoRowsNoRules DEF rules, LoadRules
  <2>. QED
    BY <2>1, <2>2
<1>. HIDE DEF Requested
<1>. QED
  BY <1>2, <1>3, <1>4, <1>5 DEF Table!Replace

LEMMA AnswerReads ==
    ASSUME PutInv, PutInv', NEW w \in Writers, AnswerRules(w)
    PROVE  Table!Answer(w)
PROOF
<1>1. /\ put[w].at = "committed" /\ put'[w].at = "answered"
      /\ put'[w].payload = put[w].payload /\ put'[w].answer = rules
      /\ \A v \in Writers \ {w} : put'[v] = put[v]
  BY DEF AnswerRules, PutInv, PutTypeOK, Puts, rules
<1>2. /\ Request(w)' = [at |-> "answered", payload |-> Request(w).payload, answer |-> rules]
      /\ Request(w).at = "committed"
  BY <1>1 DEF Request, Stage
<1>3. Requested' = [Requested EXCEPT ![w] = Request(w)']
  BY <1>1, OneRequestMoves DEF PutInv
<1>4. Requested[w] = Request(w)
  BY DEF Requested
<1>5. rules' = rules
  BY DEF AnswerRules, rules, LoadRules
<1>. QED
  BY <1>2, <1>3, <1>4, <1>5 DEF Table!Answer

LEMMA FailureFails ==
    ASSUME PutInv, PutInv', NEW w \in Writers, PutFails(w)
    PROVE  Table!Fail(w)
PROOF
<1>1. /\ put[w].at \in {"delete", "insert", "committed"}
      /\ put'[w].at \in {"failed", "unanswered"}
      /\ put'[w].payload = put[w].payload /\ put'[w].answer = put[w].answer
      /\ \A v \in Writers \ {w} : put'[v] = put[v]
  BY DEF PutFails, Active, PutInv, PutTypeOK, Puts
<1>2. /\ Request(w)' = [Request(w) EXCEPT !.at = "failed"]
      /\ Request(w).at \in {"open", "committed"}
  BY <1>1 DEF Request, Stage
<1>3. Requested' = [Requested EXCEPT ![w] = Request(w)']
  BY <1>1, OneRequestMoves DEF PutInv
<1>4. Requested[w] = Request(w)
  BY DEF Requested
<1>5. rules' = rules
  BY DEF PutFails, rules, LoadRules
<1>. QED
  BY <1>2, <1>3, <1>4, <1>5 DEF Table!Fail

LEMMA ReplaceRulesSeeds ==
    ASSUME PutInv', ReplaceRules
    PROVE  Table!Seed
PROOF
<1>1. rows = {} /\ put' = put /\ \A w \in Writers : put[w] = NotPut
  BY DEF ReplaceRules
<1>2. rules = <<>>
  BY <1>1, NoRowsNoRules DEF rules, LoadRules
<1>3. rules' \in Seq(Rules)
  BY DEF PutInv, rules
<1>4. \A w \in Writers : Request(w) = Table!NotStarted
  BY <1>1 DEF Request, Stage, NotPut, Table!NotStarted
<1>5. Requested' = Requested
  BY <1>1 DEF Requested, Request, Stage
<1>. QED
  BY <1>2, <1>3, <1>4, <1>5 DEF Table!Seed, Requested

(* PUT /rules is atomic for the rest of the service, however many requests overlap and
   whatever they send (routing.py replace_rules). *)
THEOREM ReplacementIsAtomic == Spec => ReplacesAtomically
PROOF
<1>1. Init => Table!Init
  <2>1. ASSUME Init
        PROVE  Table!Init
    <3>1. rows = {} /\ \A w \in Writers : put[w] = NotPut
      BY <2>1 DEF Init, PutInit
    <3>2. rules = <<>>
      BY <3>1, NoRowsNoRules DEF rules, LoadRules
    <3>3. \A w \in Writers : Request(w) = Table!NotStarted
      BY <3>1 DEF Request, Stage, NotPut, Table!NotStarted
    <3>. QED
      BY <3>2, <3>3 DEF Table!Init, Requested
  <2>. QED
    BY <2>1
<1>2. PutInv /\ PutInv' /\ [Next]_vars => [Table!Next]_(Table!vars)
  <2>1. ASSUME PutInv, PutInv', [Next]_vars
        PROVE  Table!Next \/ UNCHANGED <<rules, Requested>>
    <3>1. CASE ReplaceRules
      BY <2>1, <3>1, ReplaceRulesSeeds DEF Table!Next
    <3>2. CASE Overlap
      <4>1. PICK w \in Writers : SeeRows(w) \/ DeleteRows(w) \/ InsertRule(w)
                                 \/ CommitRules(w) \/ AnswerRules(w) \/ PutFails(w)
        BY <3>2 DEF Overlap, PutStep
      <4>. QED
        BY <2>1, <4>1, SeeRowsStarts, StatementsAreHidden, CommitReplaces, AnswerReads,
           FailureFails DEF Table!Next
    <3>3. CASE Route \/ Again \/ UNCHANGED vars
      BY <3>3 DEF Route, Again, vars, putVars, rules, LoadRules, Requested, Request, Stage
    <3>. QED
      BY <2>1, <3>1, <3>2, <3>3 DEF Next
  <2>. QED
    BY <2>1 DEF Table!vars
<1>. QED
  BY <1>1, <1>2, TableInvariance, PTL DEF Spec, ReplacesAtomically, Table!Spec

(* On every table that requests can leave behind, and for every label, the loop returns
   the queue of the first rule that matches (routing.py resolve_queue). *)
THEOREM TicketsGoToTheFirstMatch == Spec => []LoopFindsFirstMatch
PROOF
<1>1. RouteInv => LoopFindsFirstMatch
  BY LoopComputesFirstMatch
     DEF RouteInv, PutInv, RoutedByTheLoop, LoopFindsFirstMatch, rules
<1>2. RouteInv /\ [Next]_vars => RouteInv'
  BY RouteInvStep
<1>. QED
  BY <1>1, <1>2, RouteInvInit, PTL DEF Spec

(* A rule that is appended never takes a ticket from another rule. *)
THEOREM AppendingIsSafe == Spec => []AppendedRuleTakesOnlyDefaulted
PROOF
<1>1. ASSUME RouteInv, labels # None, NEW r \in Rules,
             ScanRules(Append(rules, r), labels) # queue
      PROVE  Hits(rules, labels) = {} /\ ScanRules(Append(rules, r), labels) = r.queue
  <2>1. labels \in Labels /\ rules \in Seq(Rules) /\ Append(rules, r) \in Seq(Rules)
    BY <1>1 DEF RouteInv, PutInv, RoutedByTheLoop, rules
  <2>2. queue = ResolveQueue(rules, labels)
    BY <1>1, <2>1, LoopComputesFirstMatch DEF RouteInv, RoutedByTheLoop
  <2>3. ScanRules(Append(rules, r), labels) = ResolveQueue(Append(rules, r), labels)
    BY <2>1, LoopComputesFirstMatch
  <2>. QED
    <3>1. Hits(rules, labels) = {} => ResolveQueue(rules, labels) = DefaultQueue
      BY DEF ResolveQueue
    <3>. HIDE DEF RouteInv
    <3>. QED
      BY <1>1, <2>1, <2>2, <2>3, <3>1, AppendedRuleComesLast
<1>2. RouteInv => AppendedRuleTakesOnlyDefaulted
  BY <1>1 DEF AppendedRuleTakesOnlyDefaulted
<1>3. RouteInv /\ [Next]_vars => RouteInv'
  BY RouteInvStep
<1>. QED
  BY <1>2, <1>3, RouteInvInit, PTL DEF Spec

(* A rule that loses a condition still takes what it took. *)
THEOREM WideningIsSafe == Spec => []DroppingAConditionOnlyWidens
PROOF
<1>1. ASSUME RouteInv, labels # None, NEW i \in Hits(rules, labels),
             NEW f \in {"intent", "priority", "sentiment"},
             [rules[i] EXCEPT ![f] = Wildcard] \in Rules
      PROVE  ScanRules(<<[rules[i] EXCEPT ![f] = Wildcard]>>, labels) = rules[i].queue
  <2>. DEFINE wider == [rules[i] EXCEPT ![f] = Wildcard]
  <2>1. labels \in Labels /\ rules \in Seq(Rules)
    BY <1>1 DEF RouteInv, PutInv, RoutedByTheLoop, rules
  <2>2. rules[i] \in Rules /\ Matches(rules[i], labels)
    BY <2>1 DEF Hits
  <2>3. Matches(wider, labels) /\ wider.queue = rules[i].queue
    BY <2>1, <2>2, FewerConditionsMatchMore
  <2>4. wider \in Rules
    BY <1>1
  <2>. HIDE DEF wider
  <2>5. ScanRules(<<wider>>, labels) = ResolveQueue(<<wider>>, labels)
    <3>1. <<wider>> \in Seq(Rules)
      BY <2>4
    <3>. QED
      BY <2>1, <3>1, LoopComputesFirstMatch
  <2>6. ResolveQueue(<<wider>>, labels) = wider.queue
    BY <2>1, <2>3, <2>4, LoneRule
  <2>. QED
    BY <2>3, <2>5, <2>6 DEF wider
<1>2. RouteInv => DroppingAConditionOnlyWidens
  BY <1>1 DEF DroppingAConditionOnlyWidens
<1>3. RouteInv /\ [Next]_vars => RouteInv'
  BY RouteInvStep
<1>. QED
  BY <1>2, <1>3, RouteInvInit, PTL DEF Spec
=============================================================================
