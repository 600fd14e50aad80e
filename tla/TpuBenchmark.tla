--------------------------- MODULE TpuBenchmark ----------------------------
(***************************************************************************)
(* Predictions compared with measurements of a TPU (lib/tpuBenchmark.ts):  *)
(* the panel prepares a package, has measurements uploaded and compared,   *)
(* or has the server run the benchmark (api/tpu/route.ts); the script      *)
(* scripts/tpu-simple.ts does the same in a directory.  Times and shapes   *)
(* are numbers, a shape being the number of its multiplications; an id or  *)
(* a time that is missing is 0.                                            *)
(***************************************************************************)
EXTENDS Integers, FiniteSets, FiniteSetsExt, Sequences, SequencesExt

CONSTANTS
  Packages,   \* what settings predict: sequences of [id, shape, tile, time]
  Uploads,    \* measurements.csv and tpu_samples.csv: [rows, samples], rows being
              \* [id, shape, median, mean] and samples [id, shape, time]
  RunTimes,   \* what the TPU may measure for the rows of a package
  Runners,    \* the first argument run_on_tpu.py may know
  MaxAsks     \* bound on the requests of the panel

\* A request has a row at least (SearchRequestSchema), and each of them is measured in some
\* time, which the parsers of the files ask to be positive.
ASSUME TpuAssumption ==
  /\ Packages \in Seq(Seq([id : Nat, shape : Nat, tile : Nat, time : Nat]) \ {<<>>}) \ {<<>>}
  /\ Uploads \subseteq [rows : Seq([id : Nat, shape : Nat, median : Nat, mean : Nat]),
                        samples : Seq([id : Nat, shape : Nat, time : Nat])]
  /\ RunTimes \subseteq Seq(Nat \ {0})
  /\ \A times \in RunTimes, p \in DOMAIN Packages : Len(Packages[p]) <= Len(times)
  /\ MaxAsks \in Nat

NoFiles == [rows |-> <<>>, samples |-> <<>>]
CallIds == {1, 2}
PackageIds == 0..Len(Packages)
PackageOf(p) == IF p = 0 THEN <<>> ELSE Packages[p]

-----------------------------------------------------------------------------
(* Joining measurements and predictions *)

\* rowKey (with the model and the operator in the id) and shapeKey
RowKey(r) == <<r.id, r.shape>>
\* The row a row is joined with: the last one of its key, the first one of its shape, or none.
JoinedWith(r, table) ==
  LET own == {i \in DOMAIN table : RowKey(table[i]) = RowKey(r)}
      alike == {i \in DOMAIN table : table[i].shape = r.shape}
  IN IF own # {} THEN Max(own) ELSE IF alike # {} THEN Min(alike) ELSE 0
\* The rows that are joined with one, in their order
Joinable(rows, table) == {i \in DOMAIN rows : JoinedWith(rows[i], table) # 0}
Rising(S) ==
  [n \in 1..Cardinality(S) |-> CHOOSE x \in S : Cardinality({y \in S : y < x}) = n - 1]

Measured(m) == IF m.median # 0 THEN m.median ELSE m.mean
\* parseTpuMeasurementCsv: one row without a time spoils the file.
Readable(file) == \A m \in ToSet(file.rows) : Measured(m) # 0

\* compareTpuMeasurements, in the order of the predictions
ComparedRow(pred, table) ==
  [id |-> pred.id, shape |-> pred.shape, tile |-> pred.tile, time |-> pred.time,
   measured |-> Measured(table[JoinedWith(pred, table)])]
Compared(preds, file) ==
  LET kept == Rising(Joinable(preds, file.rows))
  IN [n \in DOMAIN kept |-> ComparedRow(preds[kept[n]], file.rows)]

\* compareTpuSamples, in the order of the samples
ComparedSamples(preds, file) ==
  LET kept == Rising(Joinable(file.samples, preds))
  IN [n \in DOMAIN kept |-> [sample |-> file.samples[kept[n]],
                             pred |-> preds[JoinedWith(file.samples[kept[n]], preds)]]]

-----------------------------------------------------------------------------
(* summarizeTpuRecommendation, and buildRecommendationView of the panel *)

CandidateKey(rows, i) ==
  <<IF rows[i].id = 0 THEN -i ELSE rows[i].id, rows[i].shape, rows[i].tile>>
OneShape(rows) == Cardinality({r.shape : r \in ToSet(rows)}) = 1
\* Less time for one shape, more operations a time for several
Better(rows, i, j, field) ==
  IF OneShape(rows) THEN rows[i][field] < rows[j][field]
  ELSE rows[i].shape * rows[j][field] > rows[j].shape * rows[i][field]
Place(rows, i, field) ==
  1 + Cardinality({j \in DOMAIN rows :
        Better(rows, j, i, field) \/ (j < i /\ ~Better(rows, i, j, field))})
\* Rows of one key share the place of the last of them.
Rank(rows, i, field) ==
  Max({Place(rows, j, field) : j \in {j \in DOMAIN rows : CandidateKey(rows, j) = CandidateKey(rows, i)}})
BestBy(rows, field) ==
  LET first == {i \in DOMAIN rows : Rank(rows, i, field) = 1}
  IN IF first = {} THEN 1 ELSE Min(first)
Recommendation(rows) ==
  LET predicted == BestBy(rows, "time")
      best == BestBy(rows, "measured")
  IN [predicted |-> predicted, best |-> best,
      top1 |-> CandidateKey(rows, predicted) = CandidateKey(rows, best),
      top3 |-> Rank(rows, predicted, "measured") <= 3,
      regret |-> Better(rows, best, predicted, "measured")]

-----------------------------------------------------------------------------
VARIABLES
  settings,    \* of the workbench: the package they would make
  enabled,     \* whether the server may run the benchmark
  runner,      \* what the runner in the package understands
  panel,       \* what it shows: [predictions, runner, files, comparison]
  busy,        \* the spinner of the panel
  calls,       \* its requests in flight: [action, package, files, at, result]
  children,    \* the runners of the server: call -> none, runs, told, gone
  asks,        \* how many requests have been made
  overlapped,  \* history: one was made while another was in flight
  dir          \* of the script: [at, shapes, measured, comparison]

tpuvars == <<settings, enabled, runner, panel, busy, calls, children, asks, overlapped, dir>>
panelvars == <<settings, enabled, runner, panel, busy, calls, children, asks, overlapped>>

NoCall == [action |-> "none", package |-> 0, files |-> NoFiles, at |-> "idle", result |-> "none"]
NoComparison == [package |-> 0, files |-> NoFiles]

TpuInit ==
  /\ settings = 1 /\ enabled \in BOOLEAN /\ runner \in Runners
  /\ panel = [predictions |-> 0, runner |-> FALSE, files |-> NoFiles, comparison |-> NoComparison]
  /\ busy = FALSE /\ calls = [c \in CallIds |-> NoCall] /\ children = [c \in CallIds |-> "none"]
  /\ asks = 0 /\ overlapped = FALSE
  /\ dir = [at |-> "idle", shapes |-> 0, measured |-> NoFiles, comparison |-> NoComparison]

EditSettings(p) ==
  /\ asks < MaxAsks /\ settings' = p
  /\ UNCHANGED <<enabled, runner, panel, busy, calls, children, asks, overlapped, dir>>

\* readMeasurementFile and readSamplesFile, or their text pasted
UploadFiles(f) ==
  /\ asks < MaxAsks /\ panel' = [panel EXCEPT !.files = f]
  /\ UNCHANGED <<settings, enabled, runner, busy, calls, children, asks, overlapped, dir>>

\* preparePackage, compareMeasurements, runOnServer: only the last waits for the spinner.
Ask(c, action) ==
  /\ calls[c].at = "idle" /\ children[c] \in {"none", "gone"} /\ asks < MaxAsks
  /\ action = "compare" => panel.predictions # 0 /\ panel.files.rows # <<>>
  /\ action = "run-server" => ~busy /\ enabled
  /\ calls' = [calls EXCEPT ![c] =
       [action |-> action, files |-> IF action = "compare" THEN panel.files ELSE NoFiles,
        package |-> IF action = "compare" THEN panel.predictions ELSE settings,
        at |-> "asked", result |-> "none"]]
  /\ busy' = TRUE /\ asks' = asks + 1
  /\ overlapped' = (overlapped \/ \E d \in CallIds : calls[d].at # "idle")
  /\ UNCHANGED <<settings, enabled, runner, panel, children, dir>>

Answer(c, result, files) ==
  calls' = [calls EXCEPT ![c].at = "answered", ![c].result = result, ![c].files = files]

ServePrepare(c) ==
  /\ calls[c].at = "asked" /\ calls[c].action = "prepare"
  /\ Answer(c, "ok", NoFiles)
  /\ UNCHANGED <<settings, enabled, runner, panel, busy, children, asks, overlapped, dir>>

\* An unreadable file or no matching row is an error.
ServeCompare(c) ==
  /\ calls[c].at = "asked" /\ calls[c].action = "compare"
  /\ LET file == calls[c].files
     IN Answer(c, IF Readable(file) /\ Joinable(Packages[calls[c].package], file.rows) # {}
                  THEN "ok" ELSE "error", file)
  /\ UNCHANGED <<settings, enabled, runner, panel, busy, children, asks, overlapped, dir>>

\* runServer: the package is written and the runner started, with --shapes ...
StartRunner(c) ==
  /\ calls[c].at = "asked" /\ calls[c].action = "run-server"
  /\ calls' = [calls EXCEPT ![c].at = "running"] /\ children' = [children EXCEPT ![c] = "runs"]
  /\ UNCHANGED <<settings, enabled, runner, panel, busy, asks, overlapped, dir>>

MeasuredFile(p, times) ==
  [rows |-> [i \in DOMAIN Packages[p] |->
               [id |-> Packages[p][i].id, shape |-> Packages[p][i].shape,
                median |-> times[i], mean |-> times[i]]],
   samples |-> [i \in DOMAIN Packages[p] |->
               [id |-> Packages[p][i].id, shape |-> Packages[p][i].shape, time |-> times[i]]]]
\* ... and ends in time, well only if it knows that argument ...
RunnerCloses(c) ==
  /\ children[c] = "runs"
  /\ children' = [children EXCEPT ![c] = "gone"]
  /\ \/ /\ runner = "shapes"
        /\ \E times \in RunTimes : Answer(c, "ok", MeasuredFile(calls[c].package, times))
     \/ Answer(c, "error", NoFiles)
  /\ UNCHANGED <<settings, enabled, runner, panel, busy, asks, overlapped, dir>>
\* ... or is told to, which it may do at any time or never.
RunTimesOut(c) ==
  /\ calls[c].at = "running"
  /\ children' = [children EXCEPT ![c] = "told"]
  /\ Answer(c, "error", NoFiles)
  /\ UNCHANGED <<settings, enabled, runner, panel, busy, asks, overlapped, dir>>
RunnerObeys(c) ==
  /\ children[c] = "told" /\ children' = [children EXCEPT ![c] = "gone"]
  /\ UNCHANGED <<settings, enabled, runner, panel, busy, calls, asks, overlapped, dir>>

\* A new package clears the comparison panel; an error changes nothing.
Receive(c) ==
  /\ calls[c].at = "answered"
  /\ LET call == calls[c]
         compared == [package |-> call.package, files |-> call.files]
     IN panel' = CASE call.result = "error" -> panel
                   [] call.result = "ok" /\ call.action = "prepare" ->
                        [panel EXCEPT !.predictions = call.package, !.runner = TRUE,
                                      !.comparison = NoComparison]
                   [] call.result = "ok" /\ call.action = "compare" ->
                        [panel EXCEPT !.comparison = compared]
                   [] OTHER -> [panel EXCEPT !.predictions = call.package, !.files = call.files,
                                             !.comparison = compared]
  /\ calls' = [calls EXCEPT ![c] = NoCall] /\ busy' = FALSE
  /\ UNCHANGED <<settings, enabled, runner, children, asks, overlapped, dir>>

-----------------------------------------------------------------------------
(* The script: prepare always, run or not, and compare what there is. *)

SimplePrepare(p) ==
  /\ dir.at \in {"idle", "package", "compared", "failed"} /\ asks < MaxAsks /\ asks' = asks + 1
  /\ \E next \in {"run", "compare"} : dir' = [dir EXCEPT !.at = next, !.shapes = p]
  /\ UNCHANGED <<settings, enabled, runner, panel, busy, calls, children, overlapped>>
SimpleRun ==
  /\ dir.at = "run"
  /\ \/ /\ runner = "shapes"
        /\ \E times \in RunTimes :
             dir' = [dir EXCEPT !.at = "compare", !.measured = MeasuredFile(dir.shapes, times)]
     \/ dir' = [dir EXCEPT !.at = "failed"]
  /\ UNCHANGED panelvars
\* The measurements are a file named in the call, or those of the directory.
SimpleCompare ==
  /\ dir.at = "compare"
  /\ \E file \in {dir.measured} \cup Uploads :
       dir' = IF file.rows = <<>> THEN [dir EXCEPT !.at = "package"]
              ELSE IF ~Readable(file) \/ Joinable(Packages[dir.shapes], file.rows) = {}
              THEN [dir EXCEPT !.at = "failed"]
              ELSE [dir EXCEPT !.at = "compared",
                               !.comparison = [package |-> dir.shapes, files |-> file]]
  /\ UNCHANGED panelvars

TpuServer(c) == ServePrepare(c) \/ ServeCompare(c) \/ StartRunner(c) \/ RunTimesOut(c)
PanelNext ==
  \/ \E p \in DOMAIN Packages : EditSettings(p)
  \/ \E f \in Uploads : UploadFiles(f)
  \/ \E c \in CallIds :
       \/ \E action \in {"prepare", "compare", "run-server"} : Ask(c, action)
       \/ TpuServer(c) \/ RunnerCloses(c) \/ RunnerObeys(c) \/ Receive(c)
SimpleNext ==
  \/ \E p \in DOMAIN Packages : SimplePrepare(p)
  \/ SimpleRun \/ SimpleCompare
-----------------------------------------------------------------------------
(* Properties *)

\* The panel, the server and the directory keep the shape their code relies on.
TpuTypeOK ==
  /\ settings \in DOMAIN Packages /\ panel.predictions \in PackageIds /\ asks \in 0..MaxAsks
  /\ \A c \in CallIds :
       /\ calls[c].at \in {"idle", "asked", "running", "answered"}
       /\ children[c] \in {"none", "runs", "told", "gone"}
  /\ dir.at \in {"idle", "run", "compare", "package", "compared", "failed"}
  /\ dir.shapes \in PackageIds

Comparisons == {panel.comparison, dir.comparison} \ {NoComparison}

\* compareTpuMeasurements and compareTpuSamples: a comparison has every prediction whose
\* shape was measured, once and in order, and no other; each is compared with its own
\* measurement if there is one, and with one of its shape at least, and so is every sample.
JoinIsOwn ==
  \A cmp \in Comparisons :
    LET preds == Packages[cmp.package]
        rows == Compared(preds, cmp.files)
        samples == ComparedSamples(preds, cmp.files)
        compared == {i \in DOMAIN preds : \E m \in ToSet(cmp.files.rows) : m.shape = preds[i].shape}
    IN /\ rows # <<>>
       /\ Len(rows) = Cardinality(compared)
       /\ \A i \in compared :
            LET row == rows[Cardinality({j \in compared : j <= i})]
            IN <<row.id, row.shape, row.tile, row.time>>
               = <<preds[i].id, preds[i].shape, preds[i].tile, preds[i].time>>
       /\ \A r \in ToSet(rows) :
            LET own == {m \in ToSet(cmp.files.rows) : RowKey(m) = RowKey(r)}
            IN \E m \in IF own # {} THEN own
                        ELSE {m \in ToSet(cmp.files.rows) : m.shape = r.shape} :
                 r.measured = Measured(m)
       /\ \A s \in ToSet(samples) : /\ s.sample.shape = s.pred.shape
                                    /\ (\E p \in ToSet(preds) : RowKey(p) = RowKey(s.sample))
                                         => s.pred.id = s.sample.id

\* summarizeTpuRecommendation: where the candidates can be told apart, the measured ranks
\* are a ranking, nothing was measured better than the measured best, a hit means that
\* nothing is lost, nothing is lost only if nothing is better than the predicted best, and
\* predictions in proportion to the measurements always hit.
ToldApart(rows) ==
  \A i, j \in DOMAIN rows : CandidateKey(rows, i) = CandidateKey(rows, j) => i = j
RankingIsFair ==
  \A cmp \in Comparisons :
    LET rows == Compared(Packages[cmp.package], cmp.files)
        rec == Recommendation(rows)
    IN Len(rows) >= 2 /\ ToldApart(rows) =>
         /\ {Rank(rows, i, "measured") : i \in DOMAIN rows} = DOMAIN rows
         /\ \A i \in DOMAIN rows : ~Better(rows, i, rec.best, "measured")
         /\ rec.top1 => rec.top3 /\ ~rec.regret
         /\ ~rec.regret => \A i \in DOMAIN rows : ~Better(rows, i, rec.predicted, "measured")
         /\ (\A i \in DOMAIN rows : rows[i].measured = 2 * rows[i].time) => rec.top1

\* The comparison of a user who waits for each answer is of the predictions panel beside
\* it, and a run shows the measurements it made; the script compares with the shapes it
\* has written.
ComparisonIsOfShown ==
  /\ ~overlapped /\ panel.comparison # NoComparison =>
       panel.comparison.package = panel.predictions
  /\ dir.at = "compared" => dir.comparison.package = dir.shapes

\* A run is answered well only by a runner that ended by itself, one that is told to stop
\* was answered with an error, and for a user who waits every runner but the one whose
\* answer is awaited has been told to stop.
RunsAreAnswered ==
  /\ \A c \in CallIds :
       /\ calls[c].at = "running" <=> children[c] = "runs"
       /\ calls[c].action = "run-server" /\ calls[c].result = "ok" => children[c] = "gone"
       /\ children[c] = "told" /\ calls[c].at = "answered" => calls[c].result = "error"
  /\ ~overlapped => Cardinality({c \in CallIds : children[c] = "runs"}) <= 1

\* Once nothing more is asked everything has been answered, whatever the runners do.
AllAnswered == ~busy /\ \A c \in CallIds : calls[c].at = "idle"
=============================================================================
