------------------------------ MODULE EvalGate ------------------------------
(***************************************************************************)
(* The evaluation runner and its regression gate (evals/run.py): runs of   *)
(* main, one after another, over a dataset that people edit and a baseline *)
(* file that only --update-baseline writes.  Rates are exact quotients,    *)
(* <<numerator, denominator>>, in place of floats; a dataset is its own    *)
(* hash.  What a baseline file adds for readers (date, model, prompt       *)
(* version) is left out: no run compares it.                               *)
(***************************************************************************)
EXTENDS Breaker, Sequences, FiniteSetsExt

CONSTANTS
    Fields,               \* FIELDS
    Labels,               \* LABELS of a field; as no field sees another's, one set does
    GoldLabels,           \* what rows of a dataset have for labels; nobody checks them
    None,                 \* the prediction of a row that failed
    Datasets,             \* contents the dataset file may have
    Predictions,          \* validated answers of the provider or a fixture
    Limits,               \* values of --limit, 0 where it is not given
    RegressionThreshold   \* settings.eval_regression_threshold, in units of 1/Unit

Unit == 10000  \* round(x, 4)

ASSUME EvalAssumption ==
    /\ None \notin Labels \cup GoldLabels
    /\ Datasets \subseteq Seq([Fields -> GoldLabels]) \ {<<>>}
    /\ Predictions \subseteq [Fields -> Labels]
    /\ Limits \subseteq Int /\ 0 \in Limits
    /\ RegressionThreshold \in Nat \ {0}

VARIABLES
    dataset,   \* the dataset file
    baseline,  \* the baseline file
    pc,        \* where main is: "idle" (no process), "loading", "rows", "writing"
    run,       \* its arguments and what it has loaded
    results,   \* RunOutput.results so far
    verdict,   \* what the last run said of the gate
    exit       \* its exit code; NoExit while there is none

vars == <<dataset, baseline, pc, run, results, verdict, exit, breakerVars>>

NoExit == -1
NoFile == [kind |-> "absent"]
Broken == [kind |-> "broken"]  \* cut short: not JSON

Failures == {"parse_failed", "provider_error", "circuit_open"}
Failed(reason) == [pred |-> [f \in Fields |-> None], failure |-> reason]
Predicted(p)   == [pred |-> p, failure |-> "none"]
RowResults == {Predicted(p) : p \in Predictions} \cup {Failed(r) : r \in Failures}

(* main's arguments (live: no --fixtures) and the rows it loaded; the hash and the
   baseline follow. *)
Loaded(update, limit, nofail, live) ==
    [update |-> update, limit |-> limit, nofail |-> nofail, live |-> live,
     rows |-> dataset, sha |-> <<>>, base |-> NoFile]

NoRun == [Loaded(FALSE, 0, FALSE, FALSE) EXCEPT !.rows = <<>>]

(* rows[:limit] if limit else rows; a negative limit counts from the end. *)
Selected ==
    LET stop == IF run.limit > 0 THEN run.limit ELSE Len(run.rows) + run.limit
    IN  SubSeq(run.rows, 1, Min({stop, Len(run.rows)}))

EvalInit ==
    /\ dataset \in Datasets
    /\ baseline = NoFile
    /\ pc = "idle"
    /\ run = NoRun
    /\ results = <<>>
    /\ verdict = "none"
    /\ exit = NoExit
    /\ BreakerInit

----------------------------------------------------------------------------
(* Rates.  Positions stand for the pairs (gold, pred) of one field. *)

Rate(n, d) == IF d = 0 THEN <<0, 1>> ELSE <<n, d>>
Plus(p, q) == <<p[1] * q[2] + q[1] * p[2], p[2] * q[2]>>
Rounded(r) == (2 * Unit * r[1] + r[2]) \div (2 * r[2])

Gold(rows, done, f, label) == {i \in DOMAIN done : rows[i][f] = label}
Said(done, f, label)  == {i \in DOMAIN done : done[i].pred[f] = label}
Right(rows, done, f)  == {i \in DOMAIN done : done[i].pred[f] = rows[i][f]}
ParseFailures(done)   == {i \in DOMAIN done : done[i].failure = "parse_failed"}

(* Mutant: failed rows do not count. *)
AccuracyOfAnswered(rows, done, f) ==
    Rate(Cardinality(Right(rows, done, f)),
         Cardinality({i \in DOMAIN done : done[i].failure = "none"}))

Accuracy(rows, done, f) == Rate(Cardinality(Right(rows, done, f)), Len(done))

(* The harmonic mean of precision tp / (tp + fp) and recall tp / (tp + fn). *)
F1(rows, done, f, label) ==
    LET tp == Cardinality(Gold(rows, done, f, label) \cap Said(done, f, label))
    IN  Rate(2 * tp, Cardinality(Gold(rows, done, f, label)) + Cardinality(Said(done, f, label)))

(* The mean over the known labels that occur in the gold data. *)
Occurring(rows, done, f) == {l \in Labels : Gold(rows, done, f, l) # {}}

TotalF1(rows, done, f, labels) ==
    FoldSet(LAMBDA l, sum : Plus(F1(rows, done, f, l), sum), <<0, 1>>, labels)

MacroF1(rows, done, f) ==
    LET occurring == Occurring(rows, done, f)
        total == TotalF1(rows, done, f, occurring)
    IN  Rate(total[1], total[2] * Cardinality(occurring))

Metrics(rows, done) ==
    [f \in Fields |-> [accuracy |-> Accuracy(rows, done, f), macro_f1 |-> MacroF1(rows, done, f)]]

ParseFailureRate(done) == Rate(Cardinality(ParseFailures(done)), Len(done))

(* Mutant: the parse failures are not written, so that the comparison takes 0.0. *)
BaselineWithoutFailures(rows, done, hash) ==
    [kind |-> "file", sha |-> hash, pf |-> 0, of |-> done, on |-> rows,
     metrics |-> [f \in Fields |-> [m \in {"accuracy", "macro_f1"} |->
                                       Rounded(Metrics(rows, done)[f][m])]]]

(* of and on are history: the results that the file was made from, and their rows. *)
BuildBaseline(rows, done, hash) ==
    [kind |-> "file", sha |-> hash, pf |-> Rounded(ParseFailureRate(done)), of |-> done,
     on |-> rows,
     metrics |-> [f \in Fields |-> [m \in {"accuracy", "macro_f1"} |->
                                       Rounded(Metrics(rows, done)[f][m])]]]

(* current - base < -threshold *)
Fell(current, base)  == current[1] * Unit + RegressionThreshold * current[2] < base * current[2]
(* base - current < -threshold *)
Rose(current, base)  == base * current[2] + RegressionThreshold * current[2] < current[1] * Unit

(* Mutant: every delta is current - base. *)
RegressedByDrops(metrics, base, pfRate) ==
    \/ \E f \in Fields, m \in {"accuracy", "macro_f1"} : Fell(metrics[f][m], base.metrics[f][m])
    \/ Fell(pfRate, base.pf)

(* compare_baseline: any metric that fell, or more parse failures. *)
Regressed(metrics, base, pfRate) ==
    \/ \E f \in Fields, m \in {"accuracy", "macro_f1"} : Fell(metrics[f][m], base.metrics[f][m])
    \/ Rose(pfRate, base.pf)

----------------------------------------------------------------------------
(* The files: people edit the dataset and remove the baseline, while a run may be
   going on. *)

EditDataset ==
    /\ dataset' \in Datasets \ {dataset}
    /\ UNCHANGED <<baseline, pc, run, results, verdict, exit, breakerVars>>

RemoveBaseline ==
    /\ baseline # NoFile
    /\ pc # "writing"
    /\ baseline' = NoFile
    /\ UNCHANGED <<dataset, pc, run, results, verdict, exit, breakerVars>>

----------------------------------------------------------------------------
(* Mutants: only an unreadable baseline stops the run; the client, and with it
   the breaker, outlives a run. *)

AcceptsAnyHash(update) == baseline.kind # "broken"
SharedClient == UNCHANGED breakerVars

(* The baseline is absent or readable and, unless it is to be rewritten, made
   from this dataset. *)
Accepts(update) ==
    /\ baseline.kind # "broken"
    /\ baseline.kind = "file" /\ ~update => baseline.sha = dataset

(* LlmClient(settings) *)
NewClient ==
    /\ circuit' = "closed"
    /\ failures' = 0

(* load_dataset: a new process, which reads the dataset for its rows, ... *)
LoadDataset ==
    /\ pc = "idle"
    /\ \E update, nofail, live \in BOOLEAN, limit \in Limits :
          run' = Loaded(update, limit, nofail, live)
    /\ pc' = "loading"
    /\ results' = <<>>
    /\ verdict' = "none"
    /\ exit' = NoExit
    /\ UNCHANGED <<dataset, baseline, breakerVars>>

(* ... and once more for its hash.  An update loads the baseline only to print what
   changes. *)
StartRun ==
    /\ pc = "loading"
    /\ Accepts(run.update)
    /\ run' = [run EXCEPT !.sha = dataset, !.base = IF run.update THEN NoFile ELSE baseline]
    /\ pc' = "rows"
    /\ NewClient
    /\ UNCHANGED <<dataset, baseline, results, verdict, exit>>

(* EvalConfigError: not Accepts, an unreadable or empty dataset, no provider. *)
RefuseRun ==
    /\ pc \in {"idle", "loading"}
    /\ exit' = 2
    /\ pc' = "idle"
    /\ verdict' = "none"
    /\ run' = NoRun
    /\ results' = <<>>
    /\ UNCHANGED <<dataset, baseline, breakerVars>>

(* An exception that nobody catches - a line of the dataset or the fixtures that
   is no JSON, a row without one of the fields, an answer whose JSON is no object - ends the interpreter with
   status 1; a signal ends it with none. *)
RunDies ==
    /\ exit' \in {1, NoExit}
    /\ pc' = "idle"
    /\ verdict' = "none"
    /\ run' = NoRun
    /\ results' = <<>>
    /\ UNCHANGED <<dataset, baseline, breakerVars>>

----------------------------------------------------------------------------
(* The rows, one classify_ticket after another. *)

RowIsNext ==
    /\ pc = "rows"
    /\ Len(results) < Len(Selected)
    /\ UNCHANGED <<dataset, baseline, pc, run, verdict, exit>>

(* A fixture's client is new for each row and always answered. *)
ProviderAnswered == IF run.live THEN Allows /\ RecordSuccess ELSE UNCHANGED breakerVars

RowClassified ==
    /\ RowIsNext
    /\ \E p \in Predictions : results' = Append(results, Predicted(p))
    /\ ProviderAnswered

(* Both answers were invalid. *)
RowUnparsed ==
    /\ RowIsNext
    /\ results' = Append(results, Failed("parse_failed"))
    /\ ProviderAnswered

(* The first call failed, or it was answered, in vain, and the repair call failed. *)
RowProviderError ==
    /\ RowIsNext
    /\ run.live
    /\ Allows
    /\ results' = Append(results, Failed("provider_error"))
    /\ \/ RecordFailure
       \/ /\ failures' = 1
          /\ circuit' = IF Threshold = 1 THEN "open" ELSE "closed"

RowRefused ==
    /\ RowIsNext
    /\ run.live
    /\ ~Allows
    /\ results' = Append(results, Failed("circuit_open"))
    /\ UNCHANGED breakerVars

CooldownEnds ==
    /\ pc = "rows"
    /\ run.live
    /\ CooldownOver
    /\ UNCHANGED <<dataset, baseline, pc, run, results, verdict, exit>>

----------------------------------------------------------------------------
(* The end of main. *)

AllRowsDone ==
    /\ pc = "rows"
    /\ Len(results) = Len(Selected)

(* No baseline, or a partial run: the gate is skipped. *)
SkipGate ==
    /\ AllRowsDone
    /\ ~run.update
    /\ run.base = NoFile \/ run.limit # 0
    /\ verdict' = "skipped"
    /\ exit' = 0
    /\ pc' = "idle"
    /\ UNCHANGED <<dataset, baseline, run, results, breakerVars>>

(* Mutant: --no-fail-on-regression is read the wrong way round. *)
ExitCodeFlagInverted(said) == IF said = "FAIL" /\ run.nofail THEN 1 ELSE 0

ExitCode(said) == IF said = "FAIL" /\ ~run.nofail THEN 1 ELSE 0

Judge ==
    /\ AllRowsDone
    /\ ~run.update
    /\ run.base # NoFile /\ run.limit = 0
    /\ verdict' = IF Regressed(Metrics(run.rows, results), run.base, ParseFailureRate(results))
                  THEN "FAIL" ELSE "PASS"
    /\ exit' = ExitCode(verdict')
    /\ pc' = "idle"
    /\ UNCHANGED <<dataset, baseline, run, results, breakerVars>>

(* write_baseline opens the file for writing, which empties it, ... *)
OpenBaseline ==
    /\ AllRowsDone
    /\ run.update
    /\ baseline' = Broken
    /\ pc' = "writing"
    /\ UNCHANGED <<dataset, run, results, verdict, exit, breakerVars>>

(* ... and then writes it. *)
WriteBaseline ==
    /\ pc = "writing"
    /\ baseline' = BuildBaseline(run.rows, results, run.sha)
    /\ verdict' = "written"
    /\ exit' = 0
    /\ pc' = "idle"
    /\ UNCHANGED <<dataset, run, results, breakerVars>>

ClassifyRow == RowClassified \/ RowUnparsed \/ RowProviderError \/ RowRefused
EndRun == SkipGate \/ Judge \/ OpenBaseline \/ WriteBaseline

EvalNext ==
    \/ EditDataset \/ RemoveBaseline
    \/ LoadDataset \/ StartRun \/ RefuseRun \/ RunDies
    \/ ClassifyRow \/ CooldownEnds
    \/ EndRun

EvalSpec == EvalInit /\ [][EvalNext]_vars

----------------------------------------------------------------------------
(* Type correctness of the files and of the runner's state. *)
EvalTypeOK ==
    /\ BreakerTypeOK
    /\ dataset \in Datasets
    /\ baseline.kind \in {"absent", "broken", "file"}
    /\ pc \in {"idle", "loading", "rows", "writing"}
    /\ run.rows \in Datasets \cup {<<>>} /\ run.sha \in Datasets \cup {<<>>}
    /\ results \in Seq(RowResults)
    /\ Len(results) <= Len(run.rows)
    /\ verdict \in {"none", "skipped", "PASS", "FAIL", "written"}
    /\ exit \in {NoExit, 0, 1, 2}

(* a/b >= c/d - slack, for quotients of counts; slack in units of 1/Unit *)
AtLeast(a, b, c, d, slack) == a * d * Unit + slack * b * d >= c * b * Unit

(* However many runs, edits and deaths lie between: a run of the whole dataset
   that exits 0, unasked to (no --no-fail-on-regression), and found a baseline, is
   in every field as often right as the run that wrote this baseline, and has no more parse
   failures, up to the threshold and the rounding of the file (evals/run.py
   build_baseline, compare_baseline, main). *)
CleanExitHoldsTheLine ==
    (pc = "idle" /\ exit = 0 /\ ~run.update /\ ~run.nofail /\ run.limit = 0 /\ run.base # NoFile) =>
        LET then  == run.base.of
            now   == results
            slack == RegressionThreshold + 1
        IN  /\ \A f \in Fields :
                  AtLeast(Cardinality(Right(run.rows, now, f)), Len(now),
                          Cardinality(Right(run.base.on, then, f)), Len(then), slack)
            /\ AtLeast(Cardinality(ParseFailures(then)), Len(then),
                       Cardinality(ParseFailures(now)), Len(now), slack)

(* A pipeline that answers as it did when the baseline was written passes, in spite
   of the rounding between the two (docs/memory.md: "a fresh-run delta 0.00 by
   construction"). *)
RerunPasses ==
    (verdict \in {"PASS", "FAIL"} /\ results = run.base.of /\ run.rows = run.base.on) =>
        verdict = "PASS"

(* A verdict compares two runs of the same dataset, however it was edited before,
   between or during them; only an edit in the instant between load_dataset and
   dataset_sha256, in this run or the one that wrote the baseline, deceives the hash
   check of main. *)
VerdictComparesOneDataset ==
    (verdict \in {"PASS", "FAIL"} /\ run.base.on # run.rows) =>
        run.sha # run.rows \/ run.base.sha # run.base.on

Outage(done, first, last) ==
    \A k \in first..last : done[k].failure \in {"provider_error", "circuit_open"}

ProviderErrors(done, first, last) == {k \in first..last : done[k].failure = "provider_error"}

(* Row i is in an outage that began with a row of this run, long enough for the breaker. *)
Tripped(done, i) ==
    \E first \in 1..i :
        /\ Outage(done, first, i)
        /\ Cardinality(ProviderErrors(done, first, i)) >= Threshold

(* A row is refused by the open circuit only in an outage of this run: behind
   Threshold rows whose provider failed, with no answered row since the first
   of them (run_pipeline's client is its own). *)
RefusalsFollowAnOutage ==
    \A i \in DOMAIN results : results[i].failure = "circuit_open" => Tripped(results, i)

(* All gold labels of a field are labels that field_metrics knows. *)
WellLabelled(rows, f) == \A i \in DOMAIN rows : rows[i][f] \in Labels

(* Accuracy and macro-F1 are counted in different ways, failed rows included
   (field_metrics).  A perfect accuracy is always a perfect macro-F1.  The converse
   holds for a field whose gold labels are all known: macro-F1 has no term for a row
   of any other label, and load_dataset lets one pass. *)
PerfectTogether ==
    \A f \in Fields :
        LET rates   == Metrics(run.rows, results)[f]
            perfect == rates.accuracy[1] = rates.accuracy[2]
        IN  AllRowsDone /\ run.limit = 0 =>
                /\ perfect => rates.macro_f1[1] = rates.macro_f1[2]
                /\ WellLabelled(run.rows, f) /\ rates.macro_f1[1] = rates.macro_f1[2] => perfect

----------------------------------------------------------------------------
(* The inductive invariant. *)

(* The arguments, and what was loaded; FileIsOfItsRun says what the baseline is. *)
RunTypeOK ==
    run \in [update: BOOLEAN, limit: Limits, nofail: BOOLEAN, live: BOOLEAN,
             rows: Datasets \cup {<<>>}, sha: Datasets \cup {<<>>}, base: {run.base}]

(* A baseline file holds the metrics of the run that wrote it. *)
FileIsOfItsRun(b) ==
    b \notin {NoFile, Broken} =>
        /\ b.on \in Datasets /\ b.of \in Seq(RowResults) /\ b.sha \in Datasets
        /\ b = BuildBaseline(b.on, b.of, b.sha)

(* What a run has in hand at each point of main. *)
RunKnows ==
    /\ FileIsOfItsRun(baseline) /\ FileIsOfItsRun(run.base)
    /\ run.base # NoFile => run.base.kind = "file" /\ run.base.sha = run.sha
    /\ pc # "idle" => run.rows \in Datasets /\ verdict = "none" /\ exit = NoExit
    /\ pc \in {"rows", "writing"} => run.sha \in Datasets
    /\ pc = "writing" => run.update
    /\ pc = "loading" => results = <<>> /\ run.base = NoFile

(* A verdict is on all rows, against a baseline, and the exit code follows it. *)
VerdictStands ==
    /\ verdict \in {"PASS", "FAIL"} =>
          /\ run.base # NoFile /\ Len(results) = Len(run.rows)
          /\ verdict = IF Regressed(Metrics(run.rows, results), run.base,
                                    ParseFailureRate(results)) THEN "FAIL" ELSE "PASS"
    /\ (exit = 0 /\ ~run.update /\ ~run.nofail /\ run.limit = 0 /\ run.base # NoFile) =>
          verdict = "PASS"

(* The n failures that a breaker counted are behind each other in the results. *)
Counted(done, n) ==
    \E first \in 1 .. Len(done) + 1 :
        /\ Outage(done, first, Len(done))
        /\ Cardinality(ProviderErrors(done, first, Len(done))) >= n

BreakerSeesTheRun ==
    pc = "rows" =>
        /\ circuit # "closed" => failures = Threshold
        /\ ~run.live => failures = 0
        /\ Counted(results, failures)

GateInv ==
    /\ EvalTypeOK /\ RunTypeOK
    /\ RunKnows
    /\ VerdictStands
    /\ BreakerSeesTheRun
    /\ RefusalsFollowAnOutage
=============================================================================
