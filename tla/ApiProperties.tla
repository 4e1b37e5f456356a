--------------------------- MODULE ApiProperties ---------------------------
(***************************************************************************)
(* What clients of the service may rely on, and what its documents say.    *)
(***************************************************************************)
EXTENDS Api

(* With its ingestion taken apart the service still is the one of TicketTriage: a
   request inserts at most once, only where there was no row, and never touches a
   ticket that is there already (tickets.py ingest_ticket). *)
KeepsService == Spec

(* Of all the requests for one external_id, retries and concurrent ones, one at most is
   answered 201 (tickets.py, "never a duplicate row, even under rapid concurrent
   retries"). *)
CreatedOnce ==
    \A c, d \in Clients :
        intake[c].code = 201 =>
            /\ intake[c].ticket \notin made
            /\ intake[d].code = 201 => (c = d \/ intake[c].ticket # intake[d].ticket)

(* Once ingest_ticket has seen a conflict, inserted or read a row there is a row: the
   second SELECT after a lost race always finds the winner's ticket, and the `raise`
   behind it is never reached. *)
ReplayFindsItsTicket ==
    \A c \in Clients :
        intake[c].at \in {"reselect", "refresh", "read"} =>
            status[intake[c].ticket] # "absent"

(* A ticket answer is put together from up to four SELECTs while the worker and the
   reviewers go on, and still what its status promises is in it: the triage of a
   triaged or approved ticket, the correction of a corrected one, no triage for
   needs_human, the metrics of every triage and of every failure that made a call
   (tickets.py ticket_detail reads the ticket's row first and the rows it explains
   later; nothing is ever deleted). *)
DetailIsBacked ==
    \A c \in Clients :
        (intake[c].at = "answer" /\ intake[c].code # 500) =>
            /\ intake[c].status \in {"triaged", "approved"} => "triage" \in intake[c].seen
            /\ intake[c].status = "corrected" => "correction" \in intake[c].seen
            /\ intake[c].status = "needs_human" => "triage" \notin intake[c].seen
            /\ "triage" \in intake[c].seen => "metrics" \in intake[c].seen
            /\ intake[c].error \in {"parse_failed", "provider_error"} =>
                  "metrics" \in intake[c].seen

----------------------------------------------------------------------------
(* The inductive invariant of the three properties above. *)

ApiTypeOK == IntakeTypeOK /\ backend \in {"sqlite", "rowlocks"}

(* Whatever is decided after a call has a row of that call, flushed before. *)
Logged ==
    /\ \A t \in Tickets :
          /\ triage[t] # None => calls[t] # <<>>
          /\ triageError[t] \in {"parse_failed", "provider_error"} => calls[t] # <<>>
    /\ pc \in {"repair", "route", "save"} => pending # <<>>
    /\ (pc = "escalate" /\ reason # "circuit_open") => pending # <<>>

(* A request knows of a ticket that exists, and what it has read of it still holds in
   the sense that matters: rows are only added, and needs_human never gets a triage. *)
KnowsItsTicket(q) ==
    /\ q.at # "none" => q.ticket \in Tickets
    /\ q.at \in {"none", "insert", "reselect"} => q.code = 0
    /\ q.at \in {"reselect", "refresh", "read"} \/ q.code \in {200, 201} =>
          status[q.ticket] # "absent"
    /\ q.status \in {"triaged", "approved"} => triage[q.ticket] # None
    /\ q.status = "corrected" => correction[q.ticket] # None
    /\ q.status = "needs_human" =>
          triage[q.ticket] = None /\ status[q.ticket] \in {"needs_human", "corrected"}
    /\ q.error \in {"parse_failed", "provider_error"} => calls[q.ticket] # <<>>
    /\ "triage" \in q.seen => triage[q.ticket] # None

(* How far ticket_detail has come, and what it has found by then. *)
DetailProgress(q) ==
    /\ q.at \in {"none", "insert", "reselect", "refresh"} =>
          q.status = "absent" /\ q.error = None /\ q.seen = {}
    /\ q.at = "refresh" => q.code = 201
    /\ q.at = "read" => q.code # 500 /\
          \/ q.left = <<"correction", "triage", "metrics">> /\ q.seen = {}
          \/ q.left = <<"triage", "metrics">> /\ "triage" \notin q.seen
          \/ q.left = <<"metrics">>
    /\ (q.at = "read" /\ Len(q.left) < 3) \/ (q.at = "answer" /\ q.code # 500) =>
          (q.status = "corrected" => "correction" \in q.seen)
    /\ (q.at = "read" /\ Len(q.left) < 2) \/ (q.at = "answer" /\ q.code # 500) =>
          /\ q.status \in {"triaged", "approved"} => "triage" \in q.seen
          /\ q.status = "needs_human" => "triage" \notin q.seen
    /\ (q.at = "answer" /\ q.code # 500) =>
          /\ "triage" \in q.seen => "metrics" \in q.seen
          /\ q.error \in {"parse_failed", "provider_error"} => "metrics" \in q.seen

ApiInv ==
    /\ ApiTypeOK
    /\ Logged
    /\ \A c \in Clients : KnowsItsTicket(intake[c]) /\ DetailProgress(intake[c])
    /\ \A t \in made : status[t] # "absent"
    /\ CreatedOnce

----------------------------------------------------------------------------
(* Reports. *)

(* The lines of an export of a ticket. *)
LinesOf(t) == { line \in report.lines : line.ticket = t }

(* A ticket whose status stands still while the export runs has exactly the line its
   status calls for, or none; only a ticket that is decided between the two SELECTs may
   be missing or be there twice (export.py export_lines). *)
ExportComplete ==
    (report.kind = "export" /\ Complete) =>
        \A t \in Tickets \ moved :
            IF ExportedLabel(t) = None THEN LinesOf(t) = {}
            ELSE LinesOf(t) =
                    {[ticket |-> t, source |-> status[t], labels |-> ExportedLabel(t)]}

(* The totals of one answer of /stats are of different moments, but in an order that
   never makes a later one fall behind: every ticket counted as decided is counted in a
   queue, every triaged or approved one has its label counted, and every label its ok
   call.  They agree exactly if no ticket moved meanwhile (stats.py compute_stats). *)
StatsNeverBehind ==
    (report.kind = "stats" /\ Complete) =>
        LET n == report.totals IN
        /\ n["decided"] <= n["queues"]
        /\ n["machine"] <= n["intents"]
        /\ n["intents"] <= n["priorities"] /\ n["priorities"] <= n["sentiments"]
        /\ n["sentiments"] <= n["ok"]
        /\ moved = {} =>
              n["decided"] = n["queues"] /\ n["intents"] = n["sentiments"]

(* total and the rows of GET /tickets come from two statements.  A ticket never leaves
   the list without a filter, or one by label, so these rows are never fewer than
   total; rows filtered by label show a triage; and total is exact if no ticket moved
   (tickets.py list_tickets). *)
ListAgrees ==
    (report.kind = "list" /\ Complete) =>
        /\ report.filter # "awaiting" => report.total <= Cardinality(report.page)
        /\ report.filter = "labelled" => report.shown = report.page
        /\ moved = {} => report.total = Cardinality(report.page)

----------------------------------------------------------------------------
(* The inductive invariant of the reports: what the SELECTs so far have found is
   compared with the tables as they are now.  A report lags behind tables that only
   grow, and is exact about the tickets that have not moved. *)

DecidedTickets == { t \in Tickets : status[t] \notin {"absent", "received"} }
TriagedTickets == { t \in Tickets : triage[t] # None }

ExportSoFar ==
    /\ report.todo = {}
    /\ \/ report.left = ExportReads /\ report.lines = {}
       \/ /\ report.left = <<"approved">>
          /\ \A t \in Tickets \ moved : LinesOf(t) = { x \in CorrectedLines : x.ticket = t }
       \/ /\ report.left = <<>>
          /\ \A t \in Tickets \ moved :
                LinesOf(t) = { x \in CorrectedLines \cup ApprovedLines : x.ticket = t }

StatsTails ==
    { StatsReads, <<"queue", "intent", "priority", "sentiment", "calls">>,
      <<"intent", "priority", "sentiment", "calls">>, <<"priority", "sentiment", "calls">>,
      <<"sentiment", "calls">>, <<"calls">>, <<>> }

(* What the totals n owe to each other and to the tables while k SELECTs are to come. *)
StatsLag(n, k, decided, labelled, movers) ==
    /\ k <= 5 => /\ n["decided"] <= decided /\ n["machine"] <= labelled
                 /\ movers = {} => n["decided"] = decided
    /\ k <= 4 => /\ n["decided"] <= n["queues"]
                 /\ movers = {} => n["decided"] = n["queues"]
    /\ k <= 3 => /\ n["machine"] <= n["intents"] /\ n["intents"] <= labelled
                 /\ movers = {} => n["intents"] = labelled
    /\ k <= 2 => n["intents"] <= n["priorities"] /\ n["priorities"] <= labelled
    /\ k <= 1 => /\ n["priorities"] <= n["sentiments"] /\ n["sentiments"] <= labelled
                 /\ movers = {} => n["intents"] = n["sentiments"]
    /\ k = 0 => n["sentiments"] <= n["ok"]

StatsSoFar ==
    /\ report.todo = {} /\ report.left \in StatsTails
    /\ StatsLag(report.totals, Len(report.left), Cardinality(DecidedTickets),
                Cardinality(TriagedTickets), moved)

ListSoFar ==
    \/ /\ report.left = ListReads
       /\ report.todo = {} /\ report.page = {} /\ report.shown = {}
    \/ /\ report.left = <<"page">>
       /\ report.todo = {} /\ report.page = {} /\ report.shown = {}
       /\ report.filter # "awaiting" => report.total <= Cardinality(Counts(report.filter))
       /\ moved = {} => report.total = Cardinality(Counts(report.filter))
    \/ /\ report.left = <<>>
       /\ report.filter # "awaiting" => report.total <= Cardinality(report.page)
       /\ moved = {} => report.total = Cardinality(report.page)
       /\ report.todo \subseteq report.page /\ report.shown \subseteq report.page
       /\ report.filter = "labelled" =>
             /\ report.page \subseteq TriagedTickets
             /\ report.page \ report.todo \subseteq report.shown

Selects == {"corrected", "approved", "status", "queue", "intent", "priority", "sentiment",
            "calls", "count", "page"}

Lines == [ticket: Tickets, source: {"corrected", "approved"}, labels: Labels]

ReportTypeOK ==
    /\ report \in [kind: {"none", "export", "stats", "list"}, left: Seq(Selects),
                   lines: SUBSET Lines, totals: [Totals -> Nat], filter: Filters, total: Nat,
                   page: SUBSET Tickets, todo: SUBSET Tickets, shown: SUBSET Tickets]
    /\ moved \subseteq Tickets

ReportInv ==
    /\ ReportTypeOK
    /\ report.kind = "export" => ExportSoFar
    /\ report.kind = "stats" => StatsSoFar
    /\ report.kind = "list" => ListSoFar

ServiceInv == ApiInv /\ ReportInv

----------------------------------------------------------------------------
(* docs/PRD.md: "An outage degrades triage; it never blocks ingestion or corrupts
   data": no ingestion fails while the worker waits for the provider. *)
OutageNeverBlocksIngestion ==
    \A c \in Clients :
        (intake[c].at = "answer" /\ intake[c].code = 500) =>
            ~ (WriteLocked /\ pc \in CallStages)
=============================================================================
