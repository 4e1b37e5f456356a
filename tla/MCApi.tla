------------------------------- MODULE MCApi -------------------------------
(***************************************************************************)
(* A small instance of the service with clients and a reader for TLC.      *)
(***************************************************************************)
EXTENDS ApiProperties, TLC

CONSTANTS refund, bug, p1, calm, billing, general

MCIntents    == {refund, bug}
MCPriorities == {p1}
MCSentiments == {calm}
MCQueues     == {billing, general}

MCRefundsToBilling ==
    <<[intent |-> refund, priority |-> Wildcard, sentiment |-> Wildcard, queue |-> billing]>>
MCOneTable == {MCRefundsToBilling}

At(places) == { c \in Clients : intake[c].at \in places }

(* A request that is past its insert only reads: one at a time shows what any number
   of them may read. *)
MCOneReads == Cardinality(At({"read", "answer"})) <= 1

(* Two inserts race where the database has row locks.  SQLite adds the wait for the
   worker's lock, and one waiting client shows it. *)
MCOneWaits == backend = "sqlite" => At({"none"}) # {}

(* A report reads the tables alone and ends with its process.  While one is under way
   one client may insert a ticket; what it reads after that changes no table. *)
MCReportsAmongInserts ==
    \/ ReportDrained
    \/ /\ backend = "rowlocks"
       /\ restarts = 0
       /\ At({"none", "insert", "refresh"}) = Clients
       /\ At({"none"}) # {}

MCConstraint == MCOneReads /\ MCOneWaits /\ MCReportsAmongInserts

MCInterchangeable == Permutations(Clients)
=============================================================================
