------------------------------ MODULE Reports ------------------------------
(***************************************************************************)
(* The answers that are put together from several SELECTs while the        *)
(* service goes on: GET /corrections/export (services/export.py), GET      *)
(* /stats (services/stats.py) and GET /tickets (routers/tickets.py), each  *)
(* without since.  A report writes nothing, so one at a time shows what    *)
(* any number of them may.                                                 *)
(***************************************************************************)
EXTENDS TicketStore, FiniteSets

VARIABLES
    report,  \* the report that is being put together
    moved    \* tickets whose status has changed since it began (history)

reportVars == <<report, moved>>

(* The filters of GET /tickets, by what they read: no filter, a label of the triage,
   a status. *)
Filters == {"all", "labelled", "awaiting"}

Totals == {"decided", "machine", "queues", "intents", "priorities", "sentiments", "ok"}

(* left: the SELECTs to come.  lines: what the export has gathered.  totals: the sums
   of what stats has counted.  total, page, todo, shown: the list's count, its rows,
   the rows whose triage is still to be read and those where one was found. *)
NoReport == [kind |-> "none", left |-> <<>>, lines |-> {},
             totals |-> [x \in Totals |-> 0],
             filter |-> "all", total |-> 0, page |-> {}, todo |-> {}, shown |-> {}]

ReportInit == report = NoReport /\ moved = {}

ReportDrained == report.kind = "none"

----------------------------------------------------------------------------
(* Mutants: the join of the approved tickets takes corrected ones as well; the calls
   are counted first; the list reads its page before it counts. *)

ReviewedLines ==
    { [ticket |-> t, source |-> "approved", labels |-> triage[t].labels] :
        t \in { u \in Tickets : status[u] \in {"approved", "corrected"} /\ triage[u] # None } }

CallsFirst == <<"calls", "status", "queue", "intent", "priority", "sentiment">>

PageFirst == <<"page", "count">>

----------------------------------------------------------------------------
(* export_lines. *)

CorrectedLines ==
    { [ticket |-> t, source |-> "corrected", labels |-> correction[t]] :
        t \in { u \in Tickets : status[u] = "corrected" /\ correction[u] # None } }

ApprovedLines ==
    { [ticket |-> t, source |-> "approved", labels |-> triage[t].labels] :
        t \in { u \in Tickets : status[u] = "approved" /\ triage[u] # None } }

ExportReads == <<"corrected", "approved">>

StartExport ==
    /\ report.kind = "none"
    /\ report' = [NoReport EXCEPT !.kind = "export", !.left = ExportReads]

ExportSelect ==
    /\ report.kind = "export" /\ report.left # <<>>
    /\ report' = [report EXCEPT
          !.left = Tail(@),
          !.lines = @ \cup IF Head(report.left) = "corrected" THEN CorrectedLines
                           ELSE ApprovedLines]

----------------------------------------------------------------------------
(* compute_stats.  A GROUP BY gives one count per value; the totals are their sums. *)

StatsReads == <<"status", "queue", "intent", "priority", "sentiment", "calls">>

Count(P(_)) == Cardinality({ t \in Tickets : P(t) })

Labelled == Count(LAMBDA t : triage[t] # None)

OkCalls ==
    Cardinality(UNION { { <<t, i>> : i \in { j \in DOMAIN calls[t] :
                                               calls[t][j].outcome = "ok" } } : t \in Tickets })

StartStats ==
    /\ report.kind = "none"
    /\ report' = [NoReport EXCEPT !.kind = "stats", !.left = StatsReads]

Counted(x) == [report.totals EXCEPT ![x] = Labelled]

StatsSelect ==
    /\ report.kind = "stats" /\ report.left # <<>>
    /\ report' = [report EXCEPT
          !.left = Tail(@),
          !.totals =
              CASE Head(report.left) = "status" ->
                     [@ EXCEPT !["decided"] = Count(LAMBDA t : status[t] \notin {"absent", "received"}),
                               !["machine"] = Count(LAMBDA t : status[t] \in {"triaged", "approved"})]
                [] Head(report.left) = "queue" ->
                     [@ EXCEPT !["queues"] = Count(LAMBDA t : queue[t] # None)]
                [] Head(report.left) = "intent"    -> Counted("intents")
                [] Head(report.left) = "priority"  -> Counted("priorities")
                [] Head(report.left) = "sentiment" -> Counted("sentiments")
                [] Head(report.left) = "calls"     -> [@ EXCEPT !["ok"] = OkCalls]]

----------------------------------------------------------------------------
(* list_tickets.  The filters are put into the count's statement and into the page's
   separately.  The limit is not reached. *)

Counts(f) ==
    { t \in Tickets :
        /\ status[t] # "absent"
        /\ f = "labelled" => triage[t] # None
        /\ f = "awaiting" => status[t] = "triaged" }

PageRows(f) ==
    { t \in Tickets :
        /\ status[t] # "absent"
        /\ f = "labelled" => triage[t] # None
        /\ f = "awaiting" => status[t] = "triaged" }

ListReads == <<"count", "page">>

StartList ==
    /\ report.kind = "none"
    /\ \E f \in Filters :
          report' = [NoReport EXCEPT !.kind = "list", !.left = ListReads, !.filter = f]

ListSelect ==
    /\ report.kind = "list" /\ report.left # <<>>
    /\ report' =
          IF Head(report.left) = "count"
          THEN [report EXCEPT !.left = Tail(@), !.total = Cardinality(Counts(report.filter))]
          ELSE [report EXCEPT !.left = Tail(@), !.page = PageRows(report.filter),
                              !.todo = PageRows(report.filter)]

(* ticket_list_item reads the triage of a row of the page. *)
ListItem ==
    /\ report.kind = "list" /\ report.left = <<>>
    /\ \E t \in report.todo :
          report' = [report EXCEPT !.todo = @ \ {t},
                                   !.shown = IF triage[t] # None THEN @ \cup {t} ELSE @]

----------------------------------------------------------------------------
Complete == report.kind # "none" /\ report.left = <<>> /\ report.todo = {}

SendReport == Complete /\ report' = NoReport

ReportStep ==
    \/ StartExport \/ ExportSelect
    \/ StartStats \/ StatsSelect
    \/ StartList \/ ListSelect \/ ListItem
    \/ SendReport

(* What every step of the service does to the history. *)
Watch ==
    moved' = IF report.kind = "none" \/ report'.kind = "none" THEN {}
             ELSE moved \cup { t \in Tickets : status'[t] # status[t] }
=============================================================================
