----------------------------- MODULE SuiteData ------------------------------
(***************************************************************************)
(* The data the estimator suite is trained from on its way through files:  *)
(* rows written to CSV and read back by one of three readers, rows turned  *)
(* into samples under the many names a column may have, the templates of   *)
(* samples still to be measured, the scope of a sample, the readiness of a *)
(* data set, the predictions put into an artifact and the profile of the   *)
(* calibration route.  (src/src/lib/estimatorSuiteArtifacts.ts,            *)
(* estimatorSuiteDataset.ts, estimatorSuiteReadiness.ts, calibration.ts,   *)
(* tpuBenchmark.ts, and scripts/estimator-lab.ts)                          *)
(***************************************************************************)
EXTENDS Integers, Sequences, SequencesExt, FiniteSetsExt

CONSTANTS
  CellTexts,     \* what a cell may hold, as sequences of characters
  MaxPredicted,  \* samples of a suite whose predictions are written
  MinTrain,      \* samples a scope is trained from at least
  Recommended,   \* samples recommended for deployment
  ProfileCycles  \* cycles in a calibration file

VARIABLES
  dphase,   \* which of the questions below the behaviour is about
  cells,    \* the two cells of a row
  text,     \* the line they were written as, and what was read from it
  srow,     \* a row of a data set
  dset,     \* a data set as its readiness sees it
  profile   \* the rows of a calibration file

dtvars == <<dphase, cells, text, srow, dset, profile>>

Quote == "q"
Newline == "n"
Comma == ","
Space == " "

-----------------------------------------------------------------------------
(* Writing and reading a line. *)

Escaped(cell) ==
  IF \E ch \in Range(cell) : ch \in {Quote, Comma, Newline}
  THEN <<Quote>> \o FlattenSeq([i \in 1..Len(cell) |->
                                  IF cell[i] = Quote THEN <<Quote, Quote>> ELSE <<cell[i]>>])
                 \o <<Quote>>
  ELSE cell

WrittenLine == Escaped(cells[1]) \o <<Comma>> \o Escaped(cells[2])

\* The text of a file is split into lines before quotes are looked at, and blank
\* lines are dropped: what is read as the row is the first line that is left.
FirstLine(s) ==
  LET ends == {i \in 1..Len(s) : s[i] = Newline} \union {Len(s) + 1}
      starts == {1} \union {i + 1 : i \in ends}
      line(a) == SubSeq(s, a, Min({i \in ends : i >= a}) - 1)
      kept == {a \in starts : /\ a <= Len(s)
                              /\ \E ch \in Range(line(a)) : ch # Space}
  IN IF kept = {} THEN <<>> ELSE line(Min(kept))

\* A reader walks along the line with what it has read, whether it is inside quotes
\* and whether the next character was already used as the second of two quotes.
ReadFrom(line, anywhere) ==
  LET step(acc, i) ==
        IF acc.skip THEN [acc EXCEPT !.skip = FALSE]
        ELSE IF line[i] = Quote
             THEN IF (acc.quoted \/ anywhere) /\ i < Len(line) /\ line[i + 1] = Quote
                  THEN [acc EXCEPT !.cell = Append(@, Quote), !.skip = TRUE]
                  ELSE [acc EXCEPT !.quoted = ~@]
        ELSE IF line[i] = Comma /\ ~acc.quoted
             THEN [acc EXCEPT !.done = Append(@, acc.cell), !.cell = <<>>]
        ELSE [acc EXCEPT !.cell = Append(@, line[i])]
      read == FoldLeft(step, [done |-> <<>>, cell |-> <<>>, quoted |-> FALSE, skip |-> FALSE],
                       [i \in 1..Len(line) |-> i])
  IN Append(read.done, read.cell)

Trimmed(s) ==
  LET solid == {i \in 1..Len(s) : s[i] # Space}
  IN IF solid = {} THEN <<>> ELSE SubSeq(s, Min(solid), Max(solid))

\* The suite's reader, and that of the reports of a tool, take two quotes for one
\* only inside quotes ...
ReadStrictly(line) == ReadFrom(line, FALSE)

\* ... while those of the TPU tables and of calibrations do so anywhere, and trim.
ReadLoosely(line) ==
  LET read == ReadFrom(line, TRUE)
  IN [i \in 1..Len(read) |-> Trimmed(read[i])]

NotWritten == [line |-> <<>>, read |-> <<>>, by |-> "nobody"]

WriteRow ==
  /\ dphase = "cells" /\ text = NotWritten
  /\ text' = [NotWritten EXCEPT !.line = WrittenLine, !.by = "writer"]
  /\ UNCHANGED <<dphase, cells, srow, dset, profile>>

ReadRow(reader) ==
  /\ dphase = "cells" /\ text.by = "writer"
  /\ text' = [text EXCEPT !.by = reader,
       !.read = IF reader = "suite" THEN ReadStrictly(FirstLine(text.line))
                ELSE ReadLoosely(FirstLine(text.line))]
  /\ UNCHANGED <<dphase, cells, srow, dset, profile>>
-----------------------------------------------------------------------------
(* Rows and samples. *)

Blank == -1        \* an empty column
NotANumber == -2   \* a column that holds something else
Absent == -3       \* a column the file does not have

\* The first of the names of a column that holds a number; empty columns do not.
FirstNumber(values) ==
  LET found == SelectSeq(values, LAMBDA v : v >= 0) IN IF found = <<>> THEN NotANumber ELSE found[1]

\* The laboratory, and the readers of reports, take an empty column for a zero.
FirstNumberOrZero(values) ==
  FirstNumber([i \in 1..Len(values) |-> IF values[i] = Blank THEN 0 ELSE values[i]])

Names(row) == <<row.measuredCycles, row.scaleSimCycles>>

\* The scope is what the row says, else what its source says.
ScopeOf(row) ==
  CASE row.scope \in {"full-layer", "layer"} -> "full-layer"
    [] row.scope \in {"tile-policy", "tile"} -> "tile-policy"
    [] OTHER -> IF "tile" \in row.source THEN "tile-policy"
                ELSE IF "full" \in row.source THEN "full-layer" ELSE "mixed"

NoSample == [taken |-> FALSE, cycles |-> 0, scope |-> "mixed"]

\* Shape, tile and prediction are there in every row below.
SampleFromRow(row) ==
  LET cycles == FirstNumber(Names(row))
  IN IF cycles > 0 THEN [taken |-> TRUE, cycles |-> cycles, scope |-> ScopeOf(row)] ELSE NoSample

LabSampleFromRow(row) ==
  LET cycles == FirstNumberOrZero(Names(row))
  IN IF cycles > 0 THEN [taken |-> TRUE, cycles |-> cycles, scope |-> "mixed"] ELSE NoSample

\* The summary of a data set counts the rows whose first filled column is no number
\* of cycles.
CountedMissing(row) ==
  LET filled == SelectSeq(Names(row), LAMBDA v : v \notin {Blank, Absent})
  IN filled = <<>> \/ filled[1] <= 0

\* A template of a sample still to be measured.
TemplateRow == [measuredCycles |-> Blank, scaleSimCycles |-> Absent, scope |-> "", source |-> {}]

\* Rows of several files are written under all their columns: those a row did not
\* have become empty.
Filled(v) == IF v = Absent THEN Blank ELSE v
Rewritten(row) ==
  [row EXCEPT !.measuredCycles = Filled(@), !.scaleSimCycles = Filled(@)]

-----------------------------------------------------------------------------
(* The readiness of a data set. *)

\* Three gates count kinds of the samples' arrays, dataflows and workloads.
CoverageGate(kinds, enough, some, required) ==
  IF kinds >= enough THEN "pass" ELSE IF kinds >= some THEN "warn"
  ELSE IF required THEN "fail" ELSE "warn"

Improved(v) == 100 * v.mape < 98 * v.baseline
Robust(v) == v.p90 <= 35

\* The pipeline requires explicit scopes, several arrays and several dataflows.
Gates(d) ==
  [count |-> IF d.samples >= Recommended THEN "pass"
             ELSE IF d.samples >= MinTrain THEN "warn" ELSE "fail",
   contract |-> IF d.samples > 0 /\ "mixed" \notin d.scopes THEN "pass" ELSE "fail",
   homogeneity |-> IF Cardinality(d.scopes) <= 1 \/ d.of = "merged" THEN "pass" ELSE "fail",
   hardware |-> CoverageGate(d.arrays, 3, 2, TRUE),
   dataflow |-> CoverageGate(d.flows, 3, 2, TRUE),
   diversity |-> CoverageGate(d.workloads, 8, 3, TRUE),
   heldout |-> IF ~d.judged THEN "warn"
               ELSE IF ~Improved(d.by) THEN "fail" ELSE IF Robust(d.by) THEN "pass" ELSE "warn"]

GateScore(status) == CASE status = "pass" -> 100 [] status = "warn" -> 55 [] OTHER -> 0

GatesThat(d, status) == {g \in DOMAIN Gates(d) : Gates(d)[g] = status}
ReadinessScore(d) == MapThenSumSet(LAMBDA g : GateScore(Gates(d)[g]), DOMAIN Gates(d))

Level(d) ==
  IF GatesThat(d, "fail") # {} THEN "blocked"
  ELSE IF \/ Cardinality(GatesThat(d, "warn")) > 1
          \/ ReadinessScore(d) < 82 * Cardinality(DOMAIN Gates(d)) THEN "caution"
  ELSE "ready"

Actions(d) ==
  (IF "mixed" \in d.scopes THEN {"contract"} ELSE {})
    \union (IF d.samples < Recommended THEN {"count"} ELSE {})
    \union (IF d.arrays < 3 THEN {"hardware"} ELSE {})
    \union (IF d.flows < 3 THEN {"dataflow"} ELSE {})
    \union (IF d.workloads < 8 THEN {"diversity"} ELSE {})
    \union (IF d.judged /\ ~Robust(d.by) THEN {"heldout"} ELSE {})

NotJudged == [mape |-> 0, baseline |-> 0, p90 |-> 0]
Judgements == [mape : {10, 30}, baseline : {30}, p90 : {20, 50}]

EmptySet == [of |-> "merged", samples |-> 0, scopes |-> {}, arrays |-> 0, flows |-> 0,
             workloads |-> 0, judged |-> FALSE, by |-> NotJudged]

SampleCounts == {1, MinTrain - 1, MinTrain, Recommended}

\* The merged data set is never trained from; a scope's holds that scope alone and is
\* judged when it was large enough to be trained from.
DataSets ==
  {EmptySet} \union
  {d \in [of : {"merged", "full-layer"}, samples : SampleCounts,
          scopes : (SUBSET {"full-layer", "tile-policy", "mixed"}) \ {{}},
          arrays : {1, 2, 3}, flows : {1, 2, 3}, workloads : {1, 3, 8},
          judged : BOOLEAN, by : Judgements \union {NotJudged}] :
     /\ d.judged = (d.by # NotJudged)
     /\ d.judged => d.samples >= MinTrain
     /\ d.of = "merged" => ~d.judged
     /\ d.of # "merged" => d.scopes = {d.of}
     /\ Max({d.arrays, d.flows, d.workloads, Cardinality(d.scopes)}) <= d.samples}

-----------------------------------------------------------------------------
(* The predictions of an artifact, and the calibration profile. *)

\* At most the limit of the samples, evenly strided over all of them.
PredictedIndexes(n, limit) ==
  IF limit = 0 THEN <<>>
  ELSE IF n <= limit THEN [i \in 1..n |-> i]
  ELSE [i \in 1..limit |-> Min({n, ((i - 1) * n) \div limit + 1})]

\* Rows without two positive numbers of cycles are left out, and a weight that is
\* not positive counts as one.
HasCycles(row) == row.predicted > 0 /\ row.measured > 0
Weight(row) == IF row.weight > 0 THEN row.weight ELSE 1

FitProfile ==
  LET rows == SelectSeq(profile, HasCycles)
      sum(f(_)) == FoldLeft(LAMBDA total, row : total + f(row), 0, rows)
  IN IF rows = <<>> THEN [num |-> 1, den |-> 1]
     ELSE [num |-> sum(LAMBDA row : Weight(row) * row.measured),
           den |-> sum(LAMBDA row : Weight(row) * row.predicted)]

\* Cycles are scaled by the factor and rounded to at least one.
Calibrated(cycles, factor) ==
  Max({1, (2 * cycles * factor.num + factor.den) \div (2 * factor.den)})

ProfileRows == [predicted : ProfileCycles, measured : ProfileCycles, weight : {Blank, 3}]
-----------------------------------------------------------------------------
Values == {Absent, Blank, NotANumber, 0, 5}
Rows ==
  [measuredCycles : Values, scaleSimCycles : Values,
   scope : {"", "full-layer", "layer", "tile", "other"}, source : SUBSET {"full", "tile"}]

NoCells == <<<<>>, <<>>>>

SuiteDataInit ==
  /\ text = NotWritten
  /\ \/ /\ dphase = "cells" /\ cells \in CellTexts \X CellTexts
        /\ srow = TemplateRow /\ dset = EmptySet /\ profile = <<>>
     \/ /\ dphase = "row" /\ srow \in Rows
        /\ cells = NoCells /\ dset = EmptySet /\ profile = <<>>
     \/ /\ dphase = "ready" /\ dset \in DataSets
        /\ cells = NoCells /\ srow = TemplateRow /\ profile = <<>>
     \/ /\ dphase = "profile" /\ profile = <<>>
        /\ cells = NoCells /\ srow = TemplateRow /\ dset = EmptySet

\* A calibration file is read row by row.
ReadProfileRow(row) ==
  /\ dphase = "profile" /\ Len(profile) < 2
  /\ profile' = Append(profile, row)
  /\ UNCHANGED <<dphase, cells, text, srow, dset>>

SuiteDataNext ==
  \/ WriteRow
  \/ \E reader \in {"suite", "tables"} : ReadRow(reader)
  \/ \E row \in ProfileRows : ReadProfileRow(row)

SuiteDataSpec == SuiteDataInit /\ [][SuiteDataNext]_dtvars

-----------------------------------------------------------------------------
\* The state has the shape the code relies on.
SuiteDataTypeOK ==
  /\ dphase \in {"cells", "row", "ready", "profile"}
  /\ text.by \in {"nobody", "writer", "suite", "tables"}
  /\ Len(text.read) <= 2 \/ Newline \in Range(text.line)
  /\ srow \in Rows /\ dset \in DataSets /\ profile \in Seq(ProfileRows)

Plain(cell) == Newline \notin Range(cell)
OnlyQuotes(cell) == Trimmed(cell) # <<>> /\ Range(Trimmed(cell)) = {Quote}

(* What was written is read back: by the suite exactly, as long as no cell holds *)
(* a line break, which ends the row even inside quotes; by the readers that take *)
(* two quotes for one anywhere up to spaces at its ends, as long as no cell      *)
(* consists of quotes alone.                                                     *)
RowsSurvive ==
  Plain(cells[1]) /\ Plain(cells[2]) =>
    /\ text.by = "suite" => text.read = cells
    /\ text.by = "tables" /\ ~OnlyQuotes(cells[1]) /\ ~OnlyQuotes(cells[2]) =>
         text.read = <<Trimmed(cells[1]), Trimmed(cells[2])>>

(* A template does not count as a sample before it is measured; a row the         *)
(* laboratory takes is one the suite takes with the same cycles; writing a row    *)
(* again under more columns changes neither the suite's sample nor its scope; and *)
(* a row the summary counts as missing is no sample, unless it has the number     *)
(* under a later name than a text.                                                *)
SamplesAreMeasured ==
  /\ ~SampleFromRow(TemplateRow).taken /\ ~LabSampleFromRow(TemplateRow).taken
  /\ dphase = "row" =>
       /\ LabSampleFromRow(srow).taken =>
            SampleFromRow(srow).taken /\ SampleFromRow(srow).cycles = LabSampleFromRow(srow).cycles
       /\ SampleFromRow(Rewritten(srow)) = SampleFromRow(srow)
       /\ CountedMissing(srow) /\ NotANumber \notin Range(Names(srow)) => ~SampleFromRow(srow).taken
       /\ ~CountedMissing(srow) => SampleFromRow(srow).taken

\* The improvements of a data set in one respect.
Better(d) ==
  DataSets \intersect
    (   {[d EXCEPT !.samples = n] : n \in {x \in SampleCounts : x >= d.samples}}
     \union {[d EXCEPT !.scopes = @ \ {"mixed"}]}
     \union {[d EXCEPT !.arrays = n] : n \in d.arrays..3}
     \union {[d EXCEPT !.flows = n] : n \in d.flows..3}
     \union {[d EXCEPT !.workloads = n] : n \in d.workloads..8}
     \union {[d EXCEPT !.by = v] : v \in {w \in Judgements : w.mape <= d.by.mape /\ w.p90 <= d.by.p90}})

Rank(level) == CASE level = "blocked" -> 0 [] level = "caution" -> 1 [] OTHER -> 2

(* More samples, wider coverage, named scopes or a better validation never make a *)
(* data set less ready.  One that is ready may be trained from, has its scopes    *)
(* named and several arrays, dataflows and workloads; and one that is blocked is  *)
(* told what to do, unless what blocks it is that its model is no better than the *)
(* analytical estimate.                                                           *)
ReadinessIsFair ==
  dphase = "ready" =>
    /\ \A b \in Better(dset) :
         ReadinessScore(b) >= ReadinessScore(dset) /\ Rank(Level(b)) >= Rank(Level(dset))
    /\ Level(dset) = "ready" =>
         /\ dset.samples >= MinTrain /\ "mixed" \notin dset.scopes
         /\ Min({dset.arrays, dset.flows}) >= 2 /\ dset.workloads >= 3
         /\ dset.of = "merged" => Gates(dset).count = "pass"
    /\ Level(dset) = "blocked" /\ GatesThat(dset, "fail") # {"heldout"} => Actions(dset) # {}

(* The predictions written are of different samples in their order, as many as the *)
(* limit allows, and begin with the first.                                         *)
PredictionsAreSpread ==
  dphase = "profile" /\ profile = <<>> =>
    \A n \in 1..MaxPredicted, limit \in 0..MaxPredicted :
      LET written == PredictedIndexes(n, limit)
      IN /\ Len(written) = Min({n, limit})
         /\ \A i \in 1..(Len(written) - 1) : written[i] < written[i + 1]
         /\ written # <<>> => written[1] = 1 /\ written[Len(written)] <= n

(* The factor of a profile lies between the smallest and the largest ratio of its *)
(* rows, so that every calibrated number of cycles does; without rows nothing is  *)
(* changed.                                                                       *)
FactorIsBetween ==
  LET rows == SelectSeq(profile, HasCycles)
      factor == FitProfile
  IN /\ rows = <<>> => \A cycles \in 1..20 : Calibrated(cycles, factor) = cycles
     /\ rows # <<>> =>
          /\ \E row \in Range(rows) : factor.num * row.predicted >= row.measured * factor.den
          /\ \E row \in Range(rows) : factor.num * row.predicted <= row.measured * factor.den
          /\ \A c \in 1..20 : Calibrated(c, factor) <= Calibrated(c + 1, factor)
=============================================================================
