----------------------------- MODULE TrainSuite -----------------------------
(***************************************************************************)
(* lib/estimatorSuite.ts: trainEstimatorSuite.  For every kind of split it *)
(* trains models on a part of the samples and predicts the rest; then it   *)
(* trains the models that are kept on all samples, or on as many as allowed*)
(* and fits the weights of the stack and the calibration of the cycles to  *)
(* predictions.  What is modelled is which samples a model has seen and    *)
(* which rows each number was fitted to; the numbers themselves are not.   *)
(***************************************************************************)
EXTENDS Naturals, FiniteSets, FiniteSetsExt, TLC

CONSTANTS
  SuiteSamples,   \* bound: the samples there are
  workloadOf, arrayOf, flowOf,  \* their workload, array and dataflow
  regimeOf,       \* the regime a sample's resources and tile put it in
  unmeasured,     \* those without measured cycles
  sampleSize,     \* the size of a sample's shape
  MaxKinds,       \* bound: how many kinds of split are asked for
  MinClean,       \* samples a training needs (40)
  TrainRows, TestRows, \* samples a usable split has on either side (32, 8)
  maxSplitTrain, maxFinalTrain, \* options: more samples are drawn from
  AdaptiveRows, AdaptiveBucket, \* rows for adaptive weights and a bucket of them (48, 8)
  CalibrationRows, CalibrationBucket, \* the same for the calibration (12, 4)
  MaxWinners      \* bound: the buckets whose own weights win

ASSUME SuiteAssumption ==
  /\ IsFiniteSet(SuiteSamples) /\ unmeasured \subseteq SuiteSamples
  /\ TrainRows \in Nat \ {0} /\ TestRows \in Nat \ {0}
  /\ TrainRows + TestRows <= MinClean
  /\ maxSplitTrain \in Nat \ {0} /\ maxFinalTrain \in Nat \ {0}

Kinds == {"random", "workload", "array", "dataflow", "large-shape"}

VARIABLES
  asked,      \* the kinds of split that are still to be validated
  clean,      \* the samples with cycles
  folds,      \* the usable splits: [kind, train, test], train as drawn
  finalTrain, \* the samples of the kept models; {} before
  suite       \* the trained suite, or the word "none", "refused"

suvars == <<asked, clean, folds, finalTrain, suite>>

\* cleanSamples
Cleaned(rows) == rows \ unmeasured

SuiteInit ==
  /\ asked \in {ks \in SUBSET Kinds : Cardinality(ks) <= MaxKinds}
  /\ clean \in {Cleaned(rows) : rows \in SUBSET SuiteSamples}
  /\ folds = {} /\ finalTrain = {} /\ suite = [state |-> "none"]

SplitKey(kind, s) ==
  CASE kind = "workload" -> workloadOf[s]
    [] kind = "array" -> arrayOf[s]
    [] kind = "dataflow" -> flowOf[s]
    [] kind = "regime" -> regimeOf[s]
    [] kind = "dataflow-regime" -> <<flowOf[s], regimeOf[s]>>
    [] kind = "dataflow-array" -> <<flowOf[s], arrayOf[s]>>

KeysOf(kind, rows) == {SplitKey(kind, s) : s \in rows}

More(a, b) == IF a >= b THEN a ELSE b

\* The sets a shuffle may hold out: a fifth of the samples or of the workloads,
\* one array or one dataflow.
HeldOutKeys(kind, rows) ==
  LET keys == KeysOf(kind, rows)
      count == IF kind = "workload" THEN More(1, Cardinality(keys) \div 5) ELSE 1 IN
  {out \in SUBSET keys : Cardinality(out) = count}

\* Fault: rows are held out, not all the rows of a key.
TestSetsByRow(kind, rows) ==
  {out \in SUBSET rows : out # {} /\ Cardinality(out) <= TestRows}

\* The test rows of the splits by key.
TestSets(kind, rows) ==
  {{s \in rows : SplitKey(kind, s) \in out} : out \in HeldOutKeys(kind, rows)}

FewestKeys(kind) == IF kind = "workload" THEN 4 ELSE 3

\* makeSplit: the splits it may return.
Splits(kind, rows) ==
  {[kind |-> kind, train |-> rows \ out, test |-> out] :
    out \in
      CASE Cardinality(rows) < MinClean -> {}
        [] kind = "random" ->
             {t \in SUBSET rows :
                Cardinality(t) = More(TestRows, Cardinality(rows) \div 5)}
        [] kind = "large-shape" ->
             {t \in SUBSET rows :
                /\ Cardinality(t) = Cardinality(rows) - (Cardinality(rows) * 4) \div 5
                /\ \A s \in t, r \in rows \ t : sampleSize[r] <= sampleSize[s]}
        [] OTHER -> IF Cardinality(KeysOf(kind, rows)) < FewestKeys(kind) THEN {}
                    ELSE TestSets(kind, rows)}

\* splitIsUsable
Usable(split) ==
  Cardinality(split.train) >= TrainRows /\ Cardinality(split.test) >= TestRows

\* downsample: the sets a shuffle may leave.
Downsampled(rows, most) ==
  IF Cardinality(rows) <= most THEN {rows}
  ELSE {t \in SUBSET rows : Cardinality(t) = most}

Refuse ==
  /\ suite.state = "none" /\ Cardinality(clean) < MinClean
  /\ suite' = [state |-> "refused"]
  /\ UNCHANGED <<asked, clean, folds, finalTrain>>

\* One kind of split: skipped if there is none that is usable, else three models are
\* trained on what is drawn of its training rows and predict its test rows.
Validate(kind) ==
  /\ suite.state = "none" /\ Cardinality(clean) >= MinClean
  /\ kind \in asked /\ asked' = asked \ {kind}
  /\ \/ /\ \E split \in Splits(kind, clean) :
             /\ Usable(split)
             /\ \E t \in Downsampled(split.train, maxSplitTrain) :
                  folds' = folds \cup {[split EXCEPT !.train = t]}
     \/ /\ Splits(kind, clean) = {} \/ \E split \in Splits(kind, clean) : ~Usable(split)
        /\ UNCHANGED folds
  /\ UNCHANGED <<clean, finalTrain, suite>>

\* The kept models are trained once every kind is done.
TrainFinal ==
  /\ suite.state = "none" /\ Cardinality(clean) >= MinClean /\ asked = {}
  /\ finalTrain = {}
  /\ finalTrain' \in Downsampled(clean, maxFinalTrain)
  /\ UNCHANGED <<asked, clean, folds, suite>>

\* predictionRows: a sample's prediction by models that were trained on seen.
Row(s, kind, seen) == [of |-> s, by |-> kind, seen |-> seen]

\* Fault: the models predict their own training rows.
FoldRowsInSample(f) == {Row(s, f.kind, f.train) : s \in f.train}

FoldRows(f) == {Row(s, f.kind, f.train) : s \in f.test}

OutOfFold(fs) == UNION {FoldRows(f) : f \in fs}

\* The rows of the kept models: of what they were trained on, and of all samples.
FinalRows == {Row(s, "final", finalTrain) : s \in finalTrain}
KeptRows == {Row(s, "final", finalTrain) : s \in clean}

\* What the adaptive weights and the calibration are fitted to.
FittedTo(fs) == IF OutOfFold(fs) # {} THEN OutOfFold(fs) ELSE FinalRows

BucketKinds == {"dataflow", "array", "regime", "dataflow-regime", "dataflow-array"}

\* The groups of rows that are large enough for a bucket of their own.
Buckets(rows, fewest) ==
  {b \in {[kind |-> kind, key |-> SplitKey(kind, r.of)] : kind \in BucketKinds, r \in rows} :
     Cardinality({r \in rows : SplitKey(b.kind, r.of) = b.key}) >= fewest}

\* buildAdaptiveStackWeights: those buckets whose own weights win, none when
\* together they do not.
AdaptiveChoices(rows) ==
  IF Cardinality(rows) < AdaptiveRows THEN {{}}
  ELSE UNION {kSubset(k, Buckets(rows, AdaptiveBucket)) : k \in 0..MaxWinners}

\* buildCycleCalibration, without the trends and the nearest neighbours.
Calibration(rows) ==
  IF Cardinality(rows) < CalibrationRows THEN {} ELSE Buckets(rows, CalibrationBucket)

\* The rows behind the errors that are compared to recommend a model: those of the
\* direct network are always of the kept one, on all samples, and those of the stack
\* (blend.validation) of the rows its own weights and calibration were fitted to.
JudgedBy(fs) ==
  LET unseen == IF fs # {} THEN OutOfFold(fs) ELSE KeptRows IN
  [tree |-> unseen, neural |-> unseen, direct |-> KeptRows, ensemble |-> FittedTo(fs)]

\* The rows behind the three parts of the weights of the stack: the errors of the models
\* (0.35), the weights of the splits (0.45) and weights optimized once more for the kept
\* models on what they were trained on (0.2).
WeighedBy(fs) ==
  [scored |-> JudgedBy(fs).tree \cup JudgedBy(fs).neural \cup JudgedBy(fs).direct,
   averaged |-> OutOfFold(fs), optimized |-> FinalRows]

\* The weights, the buckets, what they and the suite's validation were measured on, and
\* the trainingDomain it was given.
Combine ==
  /\ suite.state = "none" /\ finalTrain # {}
  /\ \E adaptive \in AdaptiveChoices(FittedTo(folds)) :
       suite' = [state |-> "trained", rows |-> FittedTo(folds),
                 adaptive |-> adaptive, calibration |-> Calibration(FittedTo(folds)),
                 judged |-> JudgedBy(folds), weighed |-> WeighedBy(folds),
                 arrays |-> KeysOf("array", clean), flows |-> KeysOf("dataflow", clean)]
  /\ UNCHANGED <<asked, clean, folds, finalTrain>>

\* Fault: the most specific bucket there is.
SelectsBucketOfAny(buckets, s) ==
  {b \in buckets : \A c \in buckets : b.kind = "dataflow-array" \/ c.kind = b.kind}

\* selectAdaptiveStackWeights and selectCycleCalibrationLogBias: the bucket of the
\* most specific kind a sample has one of.
SelectsBucket(buckets, s) ==
  LET own == {b \in buckets : b.key = SplitKey(b.kind, s)}
      rank == [dataflow |-> 3, regime |-> 2, array |-> 1]
                @@ ("dataflow-array" :> 5) @@ ("dataflow-regime" :> 4) IN
  {b \in own : \A c \in own : rank[c.kind] <= rank[b.kind]}

\* predictEstimatorSuiteCycles and domainConfidenceForPrediction: the buckets a
\* sample is predicted with, and whether the analytical cycles are blended in for
\* its array or its dataflow.
Predicted(s) ==
  [with |-> SelectsBucket(suite.adaptive, s) \cup SelectsBucket(suite.calibration, s),
   guarded |-> arrayOf[s] \notin suite.arrays \/ flowOf[s] \notin suite.flows]

SuiteNext ==
  \/ Refuse
  \/ \E kind \in Kinds : Validate(kind)
  \/ TrainFinal
  \/ Combine

-----------------------------------------------------------------------------
(* Properties *)

\* Every split and fit of trainEstimatorSuite is made of clean samples.
SuiteTypeOK ==
  /\ asked \subseteq Kinds /\ clean \subseteq SuiteSamples
  /\ folds \subseteq [kind : Kinds, train : SUBSET clean, test : SUBSET clean]
  /\ finalTrain \subseteq clean
  /\ suite.state \in {"none", "refused", "trained"}

\* A split holds out what its label says: no workload, array or dataflow of an
\* unseen-holdout is on both sides, no test shape of the extrapolation split is
\* smaller than a shape trained on.
HoldoutIsUnseen ==
  \A f \in folds :
    /\ f.train \cap f.test = {}
    /\ f.kind \in {"workload", "array", "dataflow"} =>
         KeysOf(f.kind, f.train) \cap KeysOf(f.kind, f.test) = {}
    /\ f.kind = "large-shape" =>
         \A r \in f.train, s \in f.test : sampleSize[r] <= sampleSize[s]

\* "oof": the adaptive weights and the calibration are fitted to, the stack, the trees
\* and the residual networks are judged by, and the weights of the splits are of
\* predictions of models that had not seen the sample, unless no split was usable; then
\* the kept models give them all, and no split gives weights.  What a model had seen
\* enters a trained suite otherwise only in the error of the direct network and in the
\* weights optimized last.
FittedOutOfFold ==
  suite.state = "trained" =>
    LET judged == suite.judged  weighed == suite.weighed
        told == suite.rows \cup judged.ensemble \cup judged.tree \cup judged.neural IN
    /\ folds # {} => \A r \in told \cup weighed.averaged : r.of \notin r.seen
    /\ folds = {} =>
         /\ weighed.averaged = {}
         /\ \A r \in told : r.by = "final" /\ r.seen = finalTrain
    /\ \A r \in weighed.scored \cup weighed.averaged \cup weighed.optimized :
         r.of \in r.seen =>
           r \in judged.direct \cup weighed.optimized /\ r.of \in finalTrain

\* A bucket is used only for hardware the suite was trained with: a sample with an
\* array or a dataflow outside the training domain is predicted with the domain
\* guard and without a bucket of that array or dataflow.
UnknownIsGuarded ==
  suite.state = "trained" =>
    \A s \in SuiteSamples :
      /\ arrayOf[s] \notin suite.arrays =>
           Predicted(s).guarded
             /\ \A b \in Predicted(s).with : b.kind \notin {"array", "dataflow-array"}
      /\ flowOf[s] \notin suite.flows =>
           Predicted(s).guarded
             /\ \A b \in Predicted(s).with : b.kind \in {"array", "regime"}
=============================================================================
