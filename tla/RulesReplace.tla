---------------------------- MODULE RulesReplace ---------------------------
(***************************************************************************)
(* Overlapping PUT /rules (routers/rules.py put_rules, services/routing.py *)
(* replace_rules): each deletes the rows it sees, inserts its payload at   *)
(* the positions from 1 on, commits, and reads the table for its answer.   *)
(* The database has row locks and reads what is committed when a statement *)
(* starts; one with a single write lock (SQLite) only lets fewer steps of  *)
(* two requests alternate.  Each element of Writers is one request.        *)
(***************************************************************************)
EXTENDS Routing, FiniteSets

CONSTANTS
    Writers,
    Payloads  \* the tables that requests may PUT

ASSUME PayloadsAssumption ==
    /\ Payloads \subseteq Seq(Rules)
    /\ "seed" \notin Writers  \* the name of the rows that no request inserted

VARIABLES
    rows,  \* routing_rules as committed: who inserted it, position, rule
    put    \* put[w]: the transaction of request w

putVars == <<rows, put>>

RowsOf(w, table) == { [by |-> w, position |-> i, rule |-> table[i]] : i \in DOMAIN table }

NotPut == [at |-> "none", payload |-> <<>>, sees |-> {}, deleted |-> {}, inserted |-> {},
           answer |-> <<>>]

(* Its transaction is open; it has been committed. *)
Active(w) == put[w].at \in {"delete", "insert"}
Committed(w) == put[w].at \in {"committed", "answered", "unanswered"}

PutInit ==
    /\ rows = {}
    /\ put = [w \in Writers |-> NotPut]

----------------------------------------------------------------------------
(* Mutants: positions go on after those of the rows the request cannot see; the
   position is not UNIQUE; an open INSERT is not noticed. *)

AfterTheLast(w) ==
    Cardinality(put[w].inserted) + 1
        + Cardinality({ r \in rows : r \notin put[w].deleted /\ r.by # w })

NoConflict(w) == FALSE

NoWait(w) == FALSE

----------------------------------------------------------------------------
(* ORDER BY position. *)
InOrder(table) ==
    LET At(i) == CHOOSE r \in table :
                    Cardinality({ o \in table : o.position < r.position }) = i - 1
    IN  [i \in 1..Cardinality(table) |-> At(i).rule]

LoadRules == InOrder(rows)

(* The DELETE starts: it will delete of the committed rows those that are left. *)
SeeRows(w) ==
    /\ put[w].at = "none"
    /\ \E p \in Payloads :
          put' = [put EXCEPT ![w] = [NotPut EXCEPT !.at = "delete", !.payload = p,
                                                   !.sees = rows]]
    /\ UNCHANGED rows

(* It waits for every transaction that has deleted one of them. *)
DeleteRows(w) ==
    /\ put[w].at = "delete"
    /\ \A v \in Writers \ {w} : Active(v) => put[v].deleted \cap put[w].sees = {}
    /\ put' = [put EXCEPT ![w].at = "insert", ![w].deleted = put[w].sees \cap rows]
    /\ UNCHANGED rows

(* enumerate(rules, start=1) *)
NextPosition(w) == Cardinality(put[w].inserted) + 1

(* position is UNIQUE: a committed row has it, other than those w has deleted... *)
Conflicts(w) ==
    \E r \in rows \ put[w].deleted : r.position = NextPosition(w)

(* ... or some other transaction has inserted it and is still open: the INSERT waits. *)
Waits(w) ==
    \E v \in Writers \ {w} :
        Active(v) /\ \E r \in put[v].inserted : r.position = NextPosition(w)

AllInserted(w) == Cardinality(put[w].inserted) = Len(put[w].payload)

InsertRule(w) ==
    /\ put[w].at = "insert"
    /\ ~ AllInserted(w)
    /\ ~ Conflicts(w) /\ ~ Waits(w)
    /\ LET i == Cardinality(put[w].inserted) + 1 IN
       put' = [put EXCEPT ![w].inserted = @ \cup
                  {[by |-> w, position |-> NextPosition(w), rule |-> put[w].payload[i]]}]
    /\ UNCHANGED rows

CommitRules(w) ==
    /\ put[w].at = "insert"
    /\ AllInserted(w)
    /\ rows' = (rows \ put[w].deleted) \cup put[w].inserted
    /\ put' = [put EXCEPT ![w].at = "committed"]

(* 200, with the table as a transaction of its own reads it. *)
AnswerRules(w) ==
    /\ put[w].at = "committed"
    /\ put' = [put EXCEPT ![w].at = "answered", ![w].answer = LoadRules]
    /\ UNCHANGED rows

(* An IntegrityError, a lost connection, a timeout: 500.  An open transaction is rolled
   back; what is committed stays. *)
PutFails(w) ==
    /\ Active(w) \/ put[w].at = "committed"
    /\ put' = [put EXCEPT ![w].at = IF Active(w) THEN "failed" ELSE "unanswered"]
    /\ UNCHANGED rows

PutStep ==
    \E w \in Writers :
        \/ SeeRows(w)
        \/ DeleteRows(w)
        \/ InsertRule(w)
        \/ CommitRules(w)
        \/ AnswerRules(w)
        \/ PutFails(w)

----------------------------------------------------------------------------
(* However PUTs overlap, the committed table is one request's whole payload in its
   order, or the table from before them: never a mixture of two, never one with a gap
   (routing.py replace_rules, "Atomically replace the whole ordered rule set"). *)
TableIsOnePayload ==
    \A r \in rows :
        r.by \in Writers => Committed(r.by) /\ rows = RowsOf(r.by, put[r.by].payload)

(* What a PUT of at least one rule is told with its 200 is a whole table of a request
   that committed, its own or, if others committed since, one of theirs; it is never the
   table from before (routers/rules.py put_rules, which reads the table again). *)
AnswersAreCommitted ==
    \A w \in Writers :
        (put[w].at = "answered" /\ put[w].payload # <<>>) =>
            \E v \in Writers : Committed(v) /\ put[w].answer = put[v].payload

----------------------------------------------------------------------------
(* The inductive invariant. *)

TableRows == [by: Writers \cup {"seed"}, position: Nat \ {0}, rule: Rules]

Puts == [at: {"none", "delete", "insert", "committed", "answered", "unanswered", "failed"},
         payload: Seq(Rules), answer: Seq(Rules),
         sees: SUBSET TableRows, deleted: SUBSET TableRows, inserted: SUBSET TableRows]

PutTypeOK ==
    /\ rows \subseteq TableRows
    /\ put \in [Writers -> Puts]

(* A request that has not committed has left no row that anybody could have seen. *)
Uncommitted(w) ==
    ~ Committed(w) =>
        \A v \in Writers : \A r \in rows \cup put[v].sees \cup put[v].deleted : r.by # w

(* The rows of a request that are still there are all of the table, or none. *)
AllOrNothing(w) ==
    /\ put[w].at = "delete" => put[w].sees \cap rows \in {{}, rows}
    /\ put[w].at = "insert" => put[w].deleted \cap rows \in {{}, rows}

(* A request has inserted the first rules of its payload; with the first of them it has
   the table for itself: it has deleted all rows, and nobody else inserts. *)
InsertsAlone(w) ==
    /\ LET k == Cardinality(put[w].inserted) IN
       /\ k \in 0 .. Len(put[w].payload)
       /\ put[w].inserted = RowsOf(w, SubSeq(put[w].payload, 1, k))
    /\ put[w].at \in {"none", "delete"} => put[w].inserted = {}
    /\ (Active(w) /\ put[w].inserted # {}) =>
          /\ rows \subseteq put[w].deleted
          /\ \A v \in Writers \ {w} : Active(v) => put[v].inserted = {}

(* Once a table with rules is committed, the table is that of a committed request. *)
CommittedRules(w) ==
    (Committed(w) /\ put[w].payload # <<>>) =>
        \E v \in Writers : Committed(v) /\ LoadRules = put[v].payload

PutInv ==
    /\ PutTypeOK
    /\ TableIsOnePayload
    /\ AnswersAreCommitted
    /\ LoadRules \in Seq(Rules)
    /\ rows # {} => \E r \in rows : rows = RowsOf(r.by, LoadRules)
    /\ \A w \in Writers :
          Uncommitted(w) /\ AllOrNothing(w) /\ InsertsAlone(w) /\ CommittedRules(w)
=============================================================================
