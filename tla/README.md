# A verification of ticket-triage

TLA+ models of the ticket-triage service, the TLC runs that check them on small
instances, and theorems about them that TLAPS proves for every instance. Paths such
as `app/services/worker.py` are relative to the repository's root.

## 1. The system

ticket-triage accepts support tickets over HTTP, has a language-model provider label
them in a background thread, routes them to a queue by an operator's rules, drafts a
reply, and lets people approve or correct the result. It is one process (FastAPI, its
thread pool of synchronous request handlers, one daemon worker thread) beside one SQL
database. Requests and the worker never call each other: they meet in the tables.

| Component | Code | State | Operations | What makes it correct |
|---|---|---|---|---|
| Ingestion | `routers/tickets.py`, `routers/webhooks.py` | `tickets` | insert a `received` ticket, once per `external_id` | one ticket and one 201 per external id; a replay changes nothing and finds its ticket; available while the provider is not |
| Worker | `services/worker.py` | thread position, selected ticket, open transaction | poll, classify, route, commit, draft a reply, stop | every received ticket is decided; no decision overwritten; the call log explains the verdict |
| Pipelines | `services/classifier.py` | locals | call, parse, one repair, give up | at most two calls; nothing unvalidated is stored |
| Provider client | `services/llm_client.py` | the retry loop, one `llm_calls` row per call | attempt, back off, record | every call ends; every call is recorded |
| Circuit breaker | `services/llm_client.py` | failure count, open-until time | allow, record, report | no traffic while open; opens and closes by what was recorded |
| Routing | `services/routing.py`, `routers/rules.py` | `routing_rules` | resolve, replace the table | first match wins, total, replaced as a whole |
| Reviews | `routers/reviews.py` | `corrections`, ticket status | approve, correct | documented transitions only; one gold label |
| Reply review | `routers/reply.py` | `reply_drafts` | edit, approve, discard | resolved once, frozen then |
| Ticket reads, export, statistics | `routers/tickets.py`, `services/export.py`, `services/stats.py` | none | read, in several statements | a torn answer still keeps what it promises |
| Probes | `routers/health.py` | none | report database and breaker | closed and open are reported only of a breaker that was so; a half_open that never was only of one that tripped meanwhile |
| Lifespan | `app/main.py` | the worker | start, stop | queue and verdicts survive restarts |
| Evaluation | `evals/run.py` | files | score, gate, write a baseline | the gate fails exactly on a regression |
| Schemas, config, auth, errors, logging, prompts | the rest of `app/` | none between requests | validate, format | - |

What is hard here:

* **Read, then write.** Every review and reply request reads a row, checks its state
  in Python and writes it in a later statement, with no lock and no version column.
  The worker selects a ticket, spends seconds with the provider, and then updates the
  ticket without looking at its status again.
* **Flush, then commit.** `llm_calls` rows are flushed inside the worker's open
  transaction and become durable only with the commit that follows. Exceptions, failing
  commits and crashes in between drop them, and the work is done again.
* **Failure paths.** Provider refusals, timeouts, open circuits, invalid answers,
  unexpected exceptions, failing commits, shutdown under a running call and crashes each
  take another path through two nested exception handlers.
* **Several reads, one answer.** A ticket's detail, the list, the export and the
  statistics are put together from several SELECTs with no common snapshot, while the
  worker and the reviewers commit.
* **Locks of the database.** SQLite has one write lock, and the worker's first flush takes
  it seconds before the commit gives it back. Two `PUT /rules` delete and insert the same
  positions.
* **Unlocked sharing.** The readiness probe reads the breaker's fields one by one from a
  request thread while the worker records into them.
* **Progress.** The database column `status = 'received'` is the queue; nothing else
  remembers a ticket.

`PROJECT.json` lists every such hazard at its line with the properties that cover it.

## 2. The modules

```
Routing ---------> TicketStore ----+--> TriageWorker --+
                                   |      ^            |
                  Breaker ---------|------+            +--> TicketTriage --> TicketTriageProperties --> MCTicketTriage
                     ^             +--> Reviews -------+     |    ^               |        |
                     | implements  +--> ReplyDrafts ---+     |    |    implements v        v
CircuitBreaker --> LlmClient       |                         |    |         Lifecycle  TicketTriageProofs --> PromiseProofs
                      |            +--> Intake ------+       |    | implements             |
                      v            +--> Reports -----+-------+--> Api                      +--> VerdictProofs --> ApiProofs
               LlmClientProofs                                     |                                                 ^
                                                                   +--> ApiProperties --> MCApi                      |
                                                                              +--------------------------------------+
Routing --> RulesReplace --> MCRouting --> TableProofs
                                | implements
                                v
                            RuleTable
Routing --> RoutingProofs --> TicketTriageProofs, TableProofs
Breaker --> EvalGate --> MCEvalGate
               +--> EvalGateProofs
```

* **Routing** - labels, rules, `resolve_queue` twice: `ScanRules` is the loop as it runs,
  `ResolveQueue` is what it computes (least matching position, or the default queue).
  The service uses the second; `LoopComputesFirstMatch` proves that they agree.
* **TicketStore** - the tables. A row keyed by `ticket_id UNIQUE` is a function value,
  `None` when there is no row. Its actions are the transactions of the API that need no
  earlier read: `IngestTicket` and `PutRules`. `ExportedLabel` is what the export says.
* **Breaker** - the breaker as its callers see it, with abstract time.
* **TriageWorker** - the thread and the process around it. `pc` follows `_run`,
  `process_next_ticket` and `_generate_draft`; the four call stages carry the purpose
  that their row is stored under. One provider call is one step, from `complete` to the
  row and the breaker's record; `pending` holds the rows flushed in the open
  transaction. `CallRaises` is any exception other than the two pipeline failures,
  `CommitFails` an exception outside their handlers, `Crash` the end of the process.
  The SQL statements, and the database's answer to a violated unique key, are part of
  the action whose code executes them.
* **Reviews**, **ReplyDrafts** - one element of `Reviewers` or `Repliers` is one request
  in flight; its read and its commit are steps of their own.
* **TicketTriage** - the service: which steps belong together, what a crash takes with
  it, the next-state relation and the fairness.
* **TicketTriageProperties** - what it guarantees, and what its documents say of it.
* **Lifecycle** - the abstract specification: the transitions of
  `docs/architecture.md`, one gold label per ticket that is never revised, a reply that
  is resolved once. `KeepsPromise` maps the tables to it: `phase` is the status,
  `machine` the triage's label, `gold` the label the export yields, `note` the draft.
* **CircuitBreaker**, **LlmClient** - the breaker's fields with a clock, the retry loop,
  and a readiness probe that reads the fields one at a time. `ImplementsBreaker` maps
  them to `Breaker`: this is why `TriageWorker` may take a call as one step. Only the
  worker's thread calls `complete`, so the breaker has one writer.
* **EvalGate** - the evaluation runner beside the service: one run of `main` after
  another, each with its arguments, over a dataset file that people edit and a baseline
  file. `run` is what a run was asked and what it loaded, `results` its rows so far; its
  client has a `Breaker` of its own. `Metrics`, `BuildBaseline` and `Regressed` are the
  arithmetic, in exact quotients; rounding is as in the code. `OpenBaseline` and
  `WriteBaseline` are apart because the file is empty between them. A run may die
  anywhere (`RunDies`): uncaught exceptions exit with 1, signals with no code of `main`.
  `LoadDataset` and `StartRun` are apart because the dataset is read twice, for its rows
  and for its hash.
* **RulesReplace** - `PUT /rules` as the statements of concurrent transactions on a
  database with row locks: the DELETE sees the rows that are committed when it starts,
  waits for those that another transaction has deleted, and an INSERT waits for, or fails
  on, a position that somebody else has (`UNIQUE`). The answer is a SELECT after the
  commit. `rows` remembers who inserted each row.
* **RuleTable** - the abstract specification of `PUT /rules`: a request replaces the whole
  table in one step between its start and its answer, or not at all. `ReplacesAtomically`
  in **MCRouting** maps the rows to it, by their positions, and the statements of an open
  transaction to no step. For the rest of the service a `PUT /rules` is one step of
  `TicketStore`; this refinement is why that is right.
* **Intake** - `ingest_ticket` and `ticket_detail`, one action per statement. An element
  of `Clients` is a request slot, so a client that retries, or several at once, are
  covered. `intake[c]` is what the request knows: the ticket row as it was read, which
  SELECTs are to come, which found something. `made` remembers who was answered 201.
* **Reports** - the export, `/stats` and the list as sequences of SELECTs. `report` is
  the answer so far; `moved`, a history variable, is the set of tickets whose status
  changed since it began.
* **Api** - the service with these in place of the atomic ingestion. `backend` says
  whether the database is SQLite; if so, the transaction with flushed rows (`pending`)
  holds the write lock: other writers wait (`MayWrite`), and an ingestion that waits too
  long ends in `InsertTimesOut`.
* **ApiProperties** - what clients may rely on. `KeepsService` is the refinement: `Api`
  implements `TicketTriage`, whose other runs and theorems hold of it for that reason.
* **RoutingProofs**, **TableProofs**, **TicketTriageProofs**, **VerdictProofs**,
  **PromiseProofs**, **LlmClientProofs**, **ApiProofs**, **EvalGateProofs** - the
  theorems, see section 4.

Definitions marked "Mutants" in a module are faulty variants of the definition after
them. No specification uses them; they document what each property is sensitive to.

## 3. The runs

| Run | Instance | Shows |
|---|---|---|
| `routing` | 2 x 2 x 1 labels, 2 queues, tables of up to 2 rules; 3 overlapping `PUT /rules` with tables of 0, 1 and 2 rules | the loop finds the first match; an appended rule takes only defaulted tickets; dropping a condition only widens a rule; `TableIsOnePayload`, and `ReplacesAtomically`: statement by statement they implement `RuleTable`; the inductive invariant `PutInv` |
| `api` | 1 ticket, 2 interchangeable clients, 1 reviewer, 1 shutdown or crash, threshold 1, SQLite or row locks | `CreatedOnce`, `ReplayFindsItsTicket`, `DetailIsBacked`; `ExportComplete`, `StatsNeverBehind`, `ListAgrees`; the refinement `KeepsService`; the inductive invariant `ServiceInv` |
| `worker` | 2 tickets with 2 time stamps, 1 failing exception or commit, 1 shutdown or crash, threshold 2; under `FairSpec` | `AuditTrail` and `PendingExplained`, which makes it inductive; `DraftStageHasVerdict` over restarts, and `EveryTicketIsDecided` |
| `serial` | 1 ticket, 1 reviewer, 1 replier, 2 rule tables, both kinds of failure | the service implements `Lifecycle` (`KeepsPromise`), by `ReadsAreCurrent`; `VerdictExplainsStatus`, `ResolvedDraftIsFrozen` |
| `race` | 1 ticket, 2 reviewers, 2 repliers, interchangeable | what survives races: no review ever holds the ticket that the worker is about to update (`WorkerOwnsItsTicket`); `QueueFollowsLabel`, `NeverGoesBack`, `FirstCorrectionStays`, and the inductive invariant `IndInv` |
| `client` | threshold 2, cooldown 2, 4 calls, 1 retry, 5 clock ticks | the retry loop and breaker: `NoTrafficWhileOpen`, `TrippedByItsLog`, `FailedTrialReopens`, `ImplementsBreaker`, `EveryCallEnds`, and what a probe may report (`ProbeIsHonest`); the inductive invariant `ClientInv` |
| `evals` | 2 fields, 2 labels, a dataset of 3 rows and one of 2, one of these with a gold label outside `LABELS`, limits 0, 1 and -2, threshold 0.34 | any sequence of runs, edits and deaths, an edit between the two reads of a run included: `CleanExitHoldsTheLine`, `RerunPasses`, `VerdictComparesOneDataset`, `RefusalsFollowAnOutage`, `PerfectTogether`; the inductive invariant `GateInv` |

Five runs show a disagreement between the code and what is written about it. Each
checks one property and TLC finds it violated:

| Run | What TLC shows |
|---|---|
| `two_reviewers` | an approve and a correct overlap; both read `triaged`, both commit; `approved -> corrected` is not a documented transition, and the gold label changes |
| `two_repliers` | a resolved draft is resolved again the other way, or its text is edited |
| `poisoned` | a ticket that raises every time is polled again at once and starves the tickets behind it: it is logged, but not skipped |
| `lost_rows` | the rollback after an unexpected exception also drops the row of a call that had succeeded before it |
| `blocked` | the worker waits for the repair call with SQLite's write lock in hand; an ingestion runs into the busy timeout, and the client is answered 500 |

Met while modelling, and shown by no run:

* A line of the dataset or of the fixtures that is no JSON raises an exception that
  `main` does not catch (`evals/run.py:79` catches `OSError` only), so the interpreter
  exits with 1, the code of a regression; `README.md:433` and `docs/rules.md:50` give 2
  for it. `RunDies` has this behaviour.
* `--limit N --update-baseline` writes a baseline of N rows under the hash of the whole
  dataset; later full runs are judged by it. No document speaks of the combination.
* With `EVAL_REGRESSION_THRESHOLD=0` an unchanged pipeline may fail: a rate of 2/3 is
  stored as 0.6667. `EvalAssumption` asks for a positive threshold for this reason.
* `load_dataset` does not check gold labels. A row whose gold label is outside `LABELS` is
  never right, so accuracy stays below 1, but macro-F1 has no term for that label
  (`field_metrics`) and is 1 if such a row fails and the others are right. Datasets of
  `EvalGate` may hold such labels (`GoldLabels`), and `PerfectTogether` has the condition
  that a field has none (`WellLabelled`) where it needs it.
* `/ready` may report `half_open` although the circuit has only just opened: `state`
  reads `_open_until` twice without a lock, and the circuit may trip in between
  (`docs/api-contracts.md:95`: "cooldown elapsed, next call is a trial"). The probe of
  `LlmClient` has this behaviour. `ProbeIsHonest` says what does hold of a report: closed and
  open were seen, and a half_open that was not seen is made only of a circuit that was
  closed at one moment of the probe and open at another.
* An edit of the dataset between `load_dataset` and `dataset_sha256` gives its old rows the
  new hash. A baseline written then passes the hash check of every later run although it
  was made from other rows (`docs/PRD.md:51` promises "an error rather than a silent bad
  comparison"). `VerdictComparesOneDataset` says that this is the only way there.
* An empty `PUT /rules` that overlaps another may be answered 200 and have deleted nothing
  that stays: no position of its own protects it. `RuleTable` has it change nothing then.
* The 200 of a `PUT /rules` may show the table of another request: `put_rules` reads it
  again after its commit, when another may have committed (`docs/api-contracts.md:347`:
  "reflecting the new set"). `AnswersAreCommitted` says what it may show at most.
* An answer about a ticket may say `received` and carry a triage, or a 201 say `triaged`
  (`docs/api-contracts.md:77` and `:122` describe the usual answers): the row is read
  before the triage, and `db.refresh` reads it after the commit. `DetailIsBacked` is the
  direction that holds.
* A list filtered by status may have fewer rows than its `total` if a ticket is decided
  between the two statements; `ListAgrees` therefore speaks of the other filters, and of
  this one while nothing moves.

Another disagreement is between documents: `docs/memory.md:38` lets tickets "pile up in
`received`" while the circuit is open; `docs/architecture.md:251-252` and the code
escalate them to `needs_human` (`circuit_open`).

### Bounds

* One ticket is enough for the review races, since a request touches one ticket; two are
  needed for the poll order, starvation and a breaker that is shared between tickets.
  Two labels and two queues let a correction change both, and two tables let the rules
  change between the read and the commit.
* `MaxStamp` bounds `created_at`. Two stamps give every order and the tie of two tickets.
* `Threshold = 2` is the smallest value at which one failure does not trip the circuit;
  failures are counted up to the threshold, since the code only compares with it.
* `MaxGlitches` bounds transient exceptions and failing commits and `MaxRestarts`
  shutdowns and crashes. One of each reaches every handler in every position; without a
  bound a service that fails for ever would owe nobody progress.
* `MaxNow`, `MaxCalls`, `MaxRetries` bound the clock and the log of `LlmClient`: enough
  to trip the circuit, fail the trial after the cooldown, and trip it again.
* `MaxRules = 2` lets one rule shadow another.
* In `evals` three rows let a circuit open (threshold 2) and refuse a row; the two answers
  are right in different fields, so one field can rise while another falls; 0.34 is
  just above the weight of one row of three, so that losing one row passes and two do
  not. A negative limit leaves no row of the short dataset, which has a gold label that
  nobody can say: there a macro-F1 of 1 with an accuracy of 1/2 occurs. `MCFlagsThatMatter` keeps flags
  apart that do not bear on each other: `--no-fail` only changes the exit code of a
  judged run, and whether a baseline's rows failed at the provider or in the fixtures
  only multiplies the files, so the provider's baselines have one row.
* In `api` one ticket is enough for the race on one `external_id` and for every torn read,
  since each is about the rows of one ticket; two clients race, and a third would only
  repeat one of them. `MCConstraint` leaves out what would only combine readers. A
  request past its insert writes nothing, so one at a time shows what any number may
  read (`MCOneReads`). Two inserts race under row locks, where every interleaving is
  possible; SQLite adds the wait for the worker's lock, for which one client is enough
  (`MCOneWaits`). A report reads the tables alone, which a crash leaves as a rollback
  does, so reports are explored before the restart. While one is under way one client
  inserts its ticket, and the report goes on as far as the state behind the insert
  (`MCReportsAmongInserts`): the ticket appears between the SELECTs, and the worker may
  take it. One report at a time shows what any number may. `blocked` has a second ticket:
  the one that the worker is busy with is not the one that is inserted.
* Three writers, interchangeable, let one `PUT /rules` wait for a second while a third
  commits.
* `race` is symmetric in its reviewers and in its repliers, and checks no liveness.

`TypeOK`, `IndInv` and the theorems do not depend on any of these numbers.

### Deadlock

Every run checks for deadlock: the worker of a live process can always poll, rest or be
stopped, in `LlmClient` the probe can always read, and an evaluation can always be
started.

### Fairness

`FairSpec` assumes weak fairness of `WorkerStep` (the operating system schedules the
thread as long as it lives; every wait in it is bounded by a timeout), of
`ProcessStops` (`Worker.stop` joins with a timeout, then closes the client and
returns), and of `ProcessStarts` (the service is started again). Nothing is assumed of
clients, reviewers, operators, of the provider - any answer or none ends a call, by the
client's timeouts - or of the end of a cooldown. In `LlmClient` the thread that makes a
call is scheduled. `EveryTicketIsDecided` exempts the tickets of `Poisoned`, whose
processing raises every time; the run `poisoned` shows that a ticket behind one waits
for ever.

## 4. The theorems

All proofs are checked by TLAPS from the named assumptions on the constants
(`RoutingAssumption`, `StoreAssumption`, `ThresholdAssumption`, `WorkerAssumption`,
`NoteAssumption`, `CircuitBreakerAssumption`, `LlmClientAssumption`,
`PayloadsAssumption`, `MaxRulesAssumption`, `EvalAssumption`): label sets are not empty, `None` and the
wildcard are no labels, tickets or rows, the threshold is positive, the bounds are
naturals, the migrations are not one of the writers, a dataset that loads has a row, a
validated answer has labels of `LABELS` (the gold labels of a dataset may be others) and
the regression threshold is positive. The sets of tickets, requests,
rules and labels are arbitrary, and so are the bounds. Two groups of theorems have a
hypothesis of their own, named below.

**Routing.** `FirstMatchDecides`: the queue is that of a matching rule with no matching
rule before it. `RoutingIsTotal`: every table routes every label to a known queue. Both
need that a set of positions has a least element (`LeastPosition`, from the
well-foundedness of `<` on the naturals). `LoopComputesFirstMatch`: for tables of every
length the loop of `resolve_queue` (`ScanRules`, a recursive function) returns that
queue. No induction over the table is used, which the prover could not instantiate: the
function that gives at `i` the first match from `i` on satisfies the equation of the
loop (`Turn`), and two functions that satisfy it are equal, since at the last position
where they differ they could not.

**The rule table.** `TableInvariance: Spec => []PutInv` of `RulesReplace`, for any
number of overlapping `PUT /rules` with tables of any length. The two conjuncts that
carry it: a transaction that has inserted a row has deleted all rows there are, and no
other open transaction has inserted one (`InsertsAlone`, from the unique positions);
and what a statement has seen or deleted is all of the committed table or none of it
(`AllOrNothing`). So every commit leaves the rows of one request, complete and in
order: `TableStaysWhole`. `ReplacementIsAtomic: Spec => ReplacesAtomically` is the
refinement of `RuleTable`: the DELETE's start, the commit, the answer and the failure of
a request are its steps, all other statements are hidden (`StatementsAreHidden`), and at
the commit the rows, in order, are the payload (`CommitReplaces`). `AnswersShowCommits`
adds what a client may conclude from a 200: `CommittedRules`, which makes it inductive,
says that the table has been one of a committed request ever since the first commit of a
table with rules. Counting needs that the rows of a
table are as many as its rules (`RowsCount`) and that reading them back by position
gives the table (`TableComesBack`). From this and the loop's theorem follow
`TicketsGoToTheFirstMatch`, `AppendingIsSafe` and `WideningIsSafe`.

**The service.** `Invariance: Spec => []IndInv`, with

    IndInv == TypeOK /\ LocalsSet /\ RequestsGrounded /\ VerdictExplainsStatus
              /\ WorkerOwnsItsTicket /\ DraftStageHasVerdict

None of the parts is inductive alone. That the worker's UPDATE meets a received ticket
(`WorkerOwnsItsTicket`) needs that no open request holds that ticket; that holds because
a request read a decided ticket when it started and decisions are never undone
(`RequestsGrounded`); that the requests' own commits keep the columns consistent
(`VerdictExplainsStatus`) needs what they read to be still true in the weaker sense of
`RequestsGrounded`: an approval has a triage row, a correction a decided ticket.
`LocalsSet` says which locals of the thread are set at which position. The proof has
one lemma per action (`PollTicketKeeps`, `CallKeeps`, `SaveTriageKeeps`,
`CorrectionKeeps`, ...); steps that leave the tables alone share `ThreadMoves`.

From it follow `TypesHold`, `VerdictsExplained`, `WorkerOwnership`,
`DraftsFollowVerdicts`, and two action properties, `DecisionsStand`
(`Spec => NeverGoesBack`) and `CorrectionsStay` (`Spec => FirstCorrectionStays`): for
any number of racing requests, the guards of the code keep a decision a decision and a
correction the correction, although they do not keep the documented transitions.

`QueuesFollow` (`Spec => []QueueFollowsLabel`): whatever `PUT /rules` and racing reviews
do between a load of the rules and a commit, a ticket lies where some table of the
operator puts its correction, or its triage if it has no correction. `QueuesResolved`
makes it inductive: the queue that the worker is about to save, and the one that a
review holds, came out of one table applied to the very label that is committed with it.

**The call log.** `LogsExplained: Spec => []AuditTrail`. Alone it is far from inductive:
a commit appends whatever is flushed in the open transaction. `PendingExplained` says
what that is at every position of the thread, and that the circuit is still closed
between an answer that did not parse and its repair: the answer was a success for the
breaker, which has one writer. With `DownIsStopped` (a process that is down has no
thread) it is inductive. `PendingIsExplained` states it on its own.

**The abstract service.** `PromiseKept: Spec => KeepsPromise`, that the service
implements `Lifecycle`, under the hypothesis `OneAtATime`: two reviewers, or two
repliers, are the same. It cannot be dropped, as the runs `two_reviewers` and
`two_repliers` show. The proof maps every step to a step of `Lifecycle` or to a stutter.
Where a request commits it needs that what it read is still so (`ReadsStayCurrent`:
`ReadsAreCurrent`), which holds because the worker touches neither decided tickets nor
drafts that exist. `DraftsFreeze` has the same hypothesis.

**The provider client.** `ClientInvariance: Spec => []ClientInv`. `StreakIsTail` ties
the field that counts failures to the log: the last `streak` outcomes that were reported
were failures, and the one before was not; between the row's flush and `record_*` the
log is one row ahead. `ProbeWitnesses` says that what a probe has read so far was true
at some moment since it began, and that a circuit which was closed under the probe and is
tripped before its last read was open in between. The invariant yields `OpenMeansSilent`, `LogDecides`,
`ProbesAreHonest` and `TrialsReopen`. `FieldsImplementBreaker: Spec =>
ImplementsBreaker` is the refinement: fields, clock and retry loop implement the
breaker that `TriageWorker` is built on, so the theorems above hold of the real one.

**The requests.** `ApiInvariance: ApiSpec => [](IndInv /\ ApiInv)`, for any number of
clients and both kinds of database. What a request has read goes stale, so the
invariant says only what stays true: rows are only added (`Grows`, proved action by
action of the service), and a ticket without triage that was given up never gets one.
With `KnowsItsTicket` (what was read still holds in this sense), `DetailProgress` (what
the SELECTs so far must have found) and `Logged` (a decision that followed a call has
its row) the invariant is inductive. It yields `OneCreation`, `ReplaysFindTickets` and
`DetailsBacked`. `ServiceKept: ApiSpec => KeepsService` is the refinement: the insert is
the atomic ingestion, the other statements of a request write nothing, and every other
action is one of `TicketTriage`; hence the theorems about `Spec` hold of `ApiSpec`.

**The reports.** `ServiceInvariance: ApiSpec => []ServiceInv`, under the hypothesis that
`Tickets` is finite, since counts of infinitely many rows mean nothing. `ReportInv`
compares what a report has gathered with the tables as they are now: the lines of a
ticket that stood still are those the tables give it, and the totals so far are at most
what would be counted now (`StatsLag`), since decided tickets stay decided and triages
are never deleted (`RowsMoveWithStatus`, `CountedSetsGrow`). That a later SELECT never
counts less than an earlier one of another table is where the other theorems come in:
a decided ticket lies in a queue by `QueuesFollow` and `RoutingIsTotal`
(`DecidedAreQueued`), and a triage has its ok call by `LogsExplained`
(`CallsCoverTriages`). It yields `ExportsComplete`, `StatsKeepUp` and `ListsAgree`.

**The evaluations.** `GateInvariance: EvalSpec => []GateInv`, for datasets, answers and
labels of any number and any sequence of runs, edits and deaths. `FileIsOfItsRun` is the
invariant of the baseline file: it is absent, cut short, or what `build_baseline` makes
of the results of the run that wrote it. `RunKnows` says what a run holds at each point
of `main`, and `VerdictStands` that the verdict and the exit code are those of all its
rows. `BreakerSeesTheRun` ties the breaker to the results: the failures that it counts
are rows behind each other with no answer between them (`Counted`), so a full count is an
outage (`CountTrips`). The arithmetic is proved apart: a rounded rate is off by at most
one unit (`RoundedIsNear`), and a comparison that did not fail, rid of its denominators,
is one of counts (`NotFallen`, `NotRisen`, `RatesCompared` for the empty run as well).
From `PassHoldsTheLine` follows `CleanExitsHoldTheLine`, and from the invariant
`VerdictsCompareOneDataset` and `RefusalsAreOfThisRun`.

`RerunsPass` and `PerfectionAgrees` need what the fold in `MacroF1` computes, a recursive
function on sets of labels. As for the loop of `resolve_queue`, no principle of induction
with a formula as its parameter is used: among the numbers of labels up to which no
function obeys the fold there would be a least one, and a function for one label less
can be extended (`FoldUpTo`, `FoldObeys`). The same argument shows that the sum of the F1
of `k` labels is a quotient of at most `k`, and `k` only if every label was said exactly
where it was right (`TotalIsASum`). So macro-F1 is a quotient (`MacroF1IsAQuotient`),
which its own rounding leaves within the threshold (`OwnBaselineHolds`). Where all gold
labels are known it is 1 exactly if the accuracy is (`PerfectMetricsAgree`); an accuracy
of 1 implies that they are (`RightRowsAreWellLabelled`), a macro-F1 of 1 does not.

**Only model-checked.** Every invariant that a passing run checks is a theorem. Liveness
under fairness (`EveryTicketIsDecided`, `EveryCallEnds`) is out of the prover's reach and
stays with TLC, and so do the properties that the code violates.

## 5. Not modelled

* Text: prompts, JSON parsing, code fences and field validation, messages, logging. That
  an answer validates or does not is the environment's choice.
* Tokens, cost and latency of the call rows; timestamps other than `created_at`.
* Authentication, error bodies, request context: no state between requests.
* `GET /rules`, `GET /reviews/pending` and `GET /tickets/{id}/reply`: one SELECT that
  changes nothing.
* Of the reports: the `since` filters (each compares another clock: `created_at` of
  tickets, of triages and of calls, of corrections, `updated_at` of approved tickets),
  paging, the order of the lines, tokens, cost and latency percentiles.
* Migrations as programs, the demo server and the benchmark.
* Of the evaluation: the report, the confusion list and the token totals, floats (rates
  are exact, so a delta that equals the threshold is decided exactly), two runs at the
  same time, and a baseline edited by hand.
* The database's locks, other than SQLite's write lock in `Api` and the row locks of
  `routing_rules` in `RulesReplace`. A commit is atomic, and a statement reads what is
  committed. That a busy timeout fails a review request too is `ReviewFails` and
  `ReplyFails`: a request may fail at any point, with nothing written.

## 6. Plan

Done, in this order: Routing; TicketStore, Breaker, TriageWorker; Reviews, ReplyDrafts;
TicketTriage and its properties; Lifecycle; CircuitBreaker, LlmClient; the proofs of the
service; EvalGate; Intake, Reports, Api and their proofs; RulesReplace, RuleTable; the proofs about
the verdicts, the refinement of `Lifecycle`, the client, the rule table, the reports and
the evaluations.

To come, the most important first:

1. Models: the `since` filters of the reports, over the clocks that they compare; two
   evaluation runs at the same time on one baseline file; with the proofs about them.
