--------------------------- MODULE ResidualForest ---------------------------
(***************************************************************************)
(* The models a suite is made of (lib/learnedEstimator.ts, neuralResidual- *)
(* Estimator.ts, directNeuralEstimator.ts and multiTargetEstimator.ts):    *)
(* which rows they are trained and judged on, how the regression trees     *)
(* grow and what they predict, and how two models are compared.  What a    *)
(* random generator draws is chosen freely, and so is what the weights of  *)
(* a network come to; logarithms of cycles are numbers of whole doublings. *)
(***************************************************************************)
EXTENDS Integers, Sequences, SequencesExt, FiniteSetsExt

CONSTANTS
  Trainings,      \* trainings of a forest: rows, minLeaf, maxDepth, trees
  FeatureRange,   \* the values of a feature
  Spread,         \* numbers of rows that are split, of trees and of epochs
  Fractions,      \* validation fractions asked for, in percent
  ErrorRows,      \* rows a comparison is made on: errors of the baseline, tree and network
  Targeted,       \* samples of a training of several targets
  TargetRows,     \* rows a target needs (40)
  LayerSamples    \* samples, whose features are taken

VARIABLES
  fphase,  \* the computation the behaviour is about; "idle" for none
  job,     \* what it is given
  got      \* what it has found so far

fvars == <<fphase, job, got>>

-----------------------------------------------------------------------------
(* Which rows a model is trained on. *)

validationFraction(asked) == Max({5, Min({50, asked})})
valN(n, asked) == Max({1, (n * validationFraction(asked)) \div 100})
testN(n, asked) == Max({8, (n * validationFraction(asked)) \div 100})

\* The rows a training refuses to do without.
FewestRows == [tree |-> 12, neural |-> 24, direct |-> 24, compare |-> 40]

\* The rows that are left to fit a model; 0 for a training that throws.
FittedRows(model, n, asked) == IF n < FewestRows[model] THEN 0 ELSE n - valN(n, asked)

\* A comparison sets its own test rows aside before both of its models are trained.
Compares(n, asked) ==
  /\ n >= FewestRows["compare"]
  /\ \A model \in {"tree", "neural"} : FittedRows(model, n - testN(n, asked), asked) > 0

\* shuffle and resetShuffledIndices: from the last place down, any place up to it.
Shuffle ==
  /\ fphase = "shuffle" /\ got.step = "shuffling" /\ got.at > 1
  /\ \E j \in 1..got.at :
       got' = [got EXCEPT !.order[got.at] = got.order[j], !.order[j] = got.order[got.at],
                          !.at = @ - 1]
  /\ UNCHANGED <<fphase, job>>

Divide ==
  /\ fphase = "shuffle" /\ got.step = "shuffling" /\ got.at = 1
  /\ LET v == valN(Len(got.order), job.fraction)
     IN got' = [step |-> "divided", validation |-> SubSeq(got.order, 1, v),
                  train |-> SubSeq(got.order, v + 1, Len(got.order))]
  /\ UNCHANGED <<fphase, job>>

\* The percentages a training reports: zero, each that is ten more than the last one
\* reported, the last tree or epoch, and the evaluation of the finished model.
Percent(t, total) == (100 * t) \div total
Told(pcts, t, total) ==
  IF Percent(t, total) = 100 \/ Percent(t, total) >= Last(pcts) + 10
  THEN Append(pcts, Percent(t, total)) ELSE pcts
Reports(total) ==
  <<0>> \o Tail(FoldLeft(LAMBDA pcts, t : Told(pcts, t, total), <<-1>>, [t \in 1..total |-> t])) \o <<100>>

-----------------------------------------------------------------------------
(* A forest: trees of rows drawn with replacement.  A node is known by the way *)
(* that leads to it, 0 to the left and 1 to the right.                         *)

\* The logarithms of 0.05 and 50.
LeastRatio == -4
MostRatio == 5
AsRatio(x) == Max({LeastRatio, Min({MostRatio, x})})
residualTarget(row) == AsRatio(row.measured - row.estimated)

median(values) == SortSeq(values, <)[Len(values) \div 2 + 1]

Ratios(rows) == [i \in DOMAIN rows |-> residualTarget(rows[i])]
GlobalRatio == median(Ratios(job.rows))

\* The rows of a node, in the order of the bootstrap.
InOrder(held) == SetToSortSeq(held, <)
Drawn(i) == job.rows[got.boot[i]]

\* Between a tenth and nine tenths of the values of a feature, the ends that a drawn
\* threshold lies between; the whole part of a threshold splits like the threshold.
ValuesOf(held, f) ==
  LET ids == InOrder(held)
  IN SortSeq([i \in DOMAIN ids |-> Drawn(ids[i]).x[f]], <)
TenthOf(column) == column[Len(column) \div 10 + 1]
NineTenthsOf(column) == column[(9 * Len(column)) \div 10 + 1]

Side(held, f, t) == {i \in held : Drawn(i).x[f] <= t}

\* The splits a try may find good; any of them may be the best of those tried, and
\* possibly none is tried.
GoodSplits(held) ==
  {ft \in (1..2) \X FeatureRange :
     LET column == ValuesOf(held, ft[1])
         left == Side(held, ft[1], ft[2])
     IN /\ TenthOf(column) <= ft[2] /\ ft[2] < NineTenthsOf(column)
        /\ Cardinality(left) >= job.minLeaf
        /\ Cardinality(held \ left) >= job.minLeaf}

Uniform(held) == \A i, j \in held : residualTarget(Drawn(i)) = residualTarget(Drawn(j))

MustStop(way, held) ==
  Len(way) >= job.maxDepth \/ Cardinality(held) < 2 * job.minLeaf \/ Uniform(held)

Prediction(held) ==
  LET ids == InOrder(held)
  IN median([i \in DOMAIN ids |-> residualTarget(Drawn(ids[i]))])

\* A node keeps its rows here so that one can tell where they went.
Node(held, split) == [held |-> held, split |-> split, prediction |-> Prediction(held)]
Leaf == <<>>

\* The rows of a tree: as many as it has, each any of them.
Bootstrap ==
  /\ fphase = "forest" /\ got.step = "next" /\ Len(got.trees) < job.count
  /\ \E b \in [DOMAIN job.rows -> DOMAIN job.rows] :
       got' = [step |-> "growing", trees |-> got.trees, boot |-> b, tree |-> <<>>,
                open |-> <<[way |-> <<>>, held |-> DOMAIN job.rows]>>]
  /\ UNCHANGED <<fphase, job>>

\* buildTree at one node; the nodes below are built left before right.
BuildNode ==
  /\ fphase = "forest" /\ got.step = "growing" /\ got.open # <<>>
  /\ LET n == Head(got.open)
         added(split) == got.tree @@ (n.way :> Node(n.held, split))
     IN \/ got' = [got EXCEPT !.tree = added(Leaf), !.open = Tail(@)]
        \/ /\ ~MustStop(n.way, n.held)
           /\ \E ft \in GoodSplits(n.held) :
                LET left == Side(n.held, ft[1], ft[2])
                IN got' = [got EXCEPT
                            !.tree = added(ft),
                            !.open = <<[way |-> Append(n.way, 0), held |-> left],
                                       [way |-> Append(n.way, 1), held |-> n.held \ left]>> \o Tail(@)]
  /\ UNCHANGED <<fphase, job>>

FinishTree ==
  /\ fphase = "forest" /\ got.step = "growing" /\ got.open = <<>>
  /\ got' = [step |-> "next", trees |-> Append(got.trees, got.tree)]
  /\ UNCHANGED <<fphase, job>>

\* predictTree: the way a sample takes.
Turns(tree, x) ==
  LET go(way, level) ==
        IF tree[way].split = Leaf THEN way
        ELSE Append(way, IF x[tree[way].split[1]] <= tree[way].split[2] THEN 0 ELSE 1)
  IN FoldLeft(go, <<>>, [level \in 1..job.maxDepth |-> level])
predictTree(tree, x) == tree[Turns(tree, x)].prediction

\* Half a unit up, like Math.round.
NearestTo(num, den) == (2 * num + den) \div (2 * den)

\* predictCycleFactor: 85 parts of the trees' mean and 15 of the median of all rows.
predictCycleFactor(trees, x) ==
  LET t == Len(trees)
      sum == IF t = 0 THEN GlobalRatio
             ELSE FoldLeft(LAMBDA s, tree : s + predictTree(tree, x), 0, trees)
      of == Max({1, t})
  IN AsRatio(NearestTo(17 * sum + 3 * of * GlobalRatio, 20 * of))

\* Cycles whose logarithm is known; half a cycle is rounded to one.
CyclesOf(log) == 2 ^ Max({0, log})
predictLearnedCycles(trees, x, estimated) == CyclesOf(estimated + predictCycleFactor(trees, x))

\* learnedEstimateTile
learnedEstimateTile(trees, x, estimated) ==
  LET cycles == predictLearnedCycles(trees, x, estimated)
  IN [rawCycles |-> CyclesOf(estimated), cycles |-> cycles,
      calibrationFactor |-> <<cycles, CyclesOf(estimated)>>]

-----------------------------------------------------------------------------
(* What a network predicts, whatever its weights have come to. *)

NeuralCycles(output, global, estimated) ==
  CyclesOf(estimated + AsRatio(NearestTo(9 * output + global, 10)))

\* The logarithms of 1 and 1e15; here of 1 and 2 to the 20th.
MostLog == 20
DirectCycles(output, global) ==
  CyclesOf(Max({0, Min({MostLog, NearestTo(23 * output + 2 * global, 25)})}))

-----------------------------------------------------------------------------
(* The comparison of two models. *)

AtPercentOf(sorted, p) == sorted[Min({Len(sorted), (Len(sorted) * p) \div 100 + 1})]
\* The mean error is kept as a sum.
Evaluated(baseline, errors) ==
  LET sorted == SortSeq(errors, <)
  IN [samples |-> Len(errors), baseline |-> FoldLeft(+, 0, baseline),
      learned |-> FoldLeft(+, 0, errors), p50 |-> AtPercentOf(sorted, 50),
      p90 |-> AtPercentOf(sorted, 90), p95 |-> AtPercentOf(sorted, 95)]

\* Four times the score and the samples.
ComparedScore(m) == 4 * m.learned + m.samples * m.p90

\* The percentiles of the baseline are all its mean.

compareResidualEstimators(rows) ==
  LET of(model) == Evaluated([i \in DOMAIN rows |-> rows[i].baseline],
                             [i \in DOMAIN rows |-> rows[i][model]])
      tree == of("tree")  neural == of("neural")
  IN [recommendation |-> IF ComparedScore(neural) + 2 * Len(rows) < ComparedScore(tree)
                         THEN "neural" ELSE "tree",
      baselineMetrics |-> [tree EXCEPT !.learned = tree.baseline, !.p50 = tree.baseline,
                                       !.p90 = tree.baseline, !.p95 = tree.baseline],
      treeMetrics |-> tree, neuralMetrics |-> neural]

-----------------------------------------------------------------------------
(* Memory traffic and utilization as targets of their own. *)

MetricTargets == {"sram", "dram", "utilization"}
Missing == -1

\* utilizationToPct, which takes what is at most one for a fraction; in halves.
utilizationToPct(halves) ==
  IF halves <= 0 THEN Missing ELSE IF halves <= 2 THEN 100 * halves ELSE halves

MeasuredOf(s, target) ==
  IF target = "utilization" THEN utilizationToPct(s.utilization) ELSE s[target]

\* A sample of a target is a sample whose cycles are what was measured of the target.
targetSamples(samples, target) ==
  LET measured == SelectSeq(samples, LAMBDA s : MeasuredOf(s, target) > 0)
  IN [i \in DOMAIN measured |->
        [measured[i] EXCEPT !.estimated = Max({1, @}), !.cycles = Max({1, MeasuredOf(measured[i], target)})]]

\* What the training of a network keeps of its samples.
CleanSamples(samples) == SelectSeq(samples, LAMBDA s : s.cycles > 0 /\ s.estimated > 0)

trainMultiTargetEstimator ==
  /\ fphase = "targets" /\ got.step = "given"
  /\ got' = [step |-> "trained",
              models |-> {[target |-> t, rows |-> CleanSamples(targetSamples(job, t))] :
                            t \in {u \in MetricTargets : Len(targetSamples(job, u)) >= TargetRows}}]
  /\ UNCHANGED <<fphase, job>>

\* predictMultiTargetMetrics, of whatever the networks come to; a utilization is kept
\* in percent.
predictMultiTargetMetrics ==
  /\ fphase = "targets" /\ got.step = "trained"
  /\ \E log \in 0..8 :
       got' = [step |-> "predicted", models |-> got.models,
                 says |-> {<<m.target, IF m.target = "utilization" THEN Min({100, CyclesOf(log)})
                                       ELSE CyclesOf(log)>> : m \in got.models}]
  /\ UNCHANGED <<fphase, job>>

-----------------------------------------------------------------------------
(* The features of a sample, without their logarithms. *)

Sides == {"m", "n", "k"}

effectiveTileForFeatures(s) == IF s.scope = "full-layer" THEN s.shape ELSE s.tile

UpTo(n, step) == ((n + step - 1) \div step) * step
VolumeOf(g) == g.m * g.n * g.k
learnedEstimatorFeatures(s) ==
  LET tile == effectiveTileForFeatures(s)
      padded == [a \in Sides |-> UpTo(s.shape[a], tile[a])]
  IN [shape |-> s.shape, tile |-> tile, array |-> <<s.rows, s.cols>>,
      memory |-> <<s.sram, s.bandwidth>>,
      rest |-> [a \in Sides |-> s.shape[a] % tile[a]],
      bytes |-> tile.m * tile.k + tile.k * tile.n + tile.m * tile.n,
      padding |-> VolumeOf(padded) - VolumeOf(s.shape),
      scope |-> s.scope]

\* sampleFromTile does not say what its cycles are of.
sampleFromTile(s) == [s EXCEPT !.scope = "mixed"]

-----------------------------------------------------------------------------
ResidualForestInit ==
  \/ fphase = "idle" /\ job = <<>> /\ got = [step |-> "given"]
  \/ /\ fphase = "shuffle"
     /\ job \in [n : 2..4, fraction : Fractions]
     /\ got = [step |-> "shuffling", order |-> [i \in 1..job.n |-> i], at |-> job.n]
  \/ fphase = "counts" /\ job \in [n : Spread, fraction : Fractions] /\ got = [step |-> "given"]
  \/ fphase = "forest" /\ job \in Trainings /\ got = [step |-> "next", trees |-> <<>>]
  \/ fphase = "compare" /\ job \in ErrorRows /\ got = [step |-> "given"]
  \/ fphase = "targets" /\ job \in Targeted /\ got = [step |-> "given"]
  \/ fphase = "sample" /\ job \in LayerSamples /\ got = [step |-> "given"]

ResidualForestNext ==
  \/ Shuffle \/ Divide
  \/ Bootstrap \/ BuildNode \/ FinishTree
  \/ trainMultiTargetEstimator \/ predictMultiTargetMetrics

ResidualForestSpec == ResidualForestInit /\ [][ResidualForestNext]_fvars

-----------------------------------------------------------------------------
\* The state has the shape the code relies on.
ResidualForestTypeOK ==
  /\ fphase \in {"idle", "shuffle", "counts", "forest", "compare", "targets", "sample"}
  /\ got.step \in {"given", "shuffling", "divided", "next", "growing", "trained", "predicted"}
  /\ got.step = "shuffling" => got.at \in 1..job.n

\* Shuffling loses no row: a model is judged on at least one row, none of which it was
\* fitted to, and fitted to at least one; a comparison of enough rows with at most the
\* default fraction never fails in one of its trainings; and the progress of a
\* training never goes back and ends with a hundred.
RowsAreDivided ==
  /\ got.step = "divided" =>
       /\ Range(got.train) \intersect Range(got.validation) = {}
       /\ Range(got.train) \union Range(got.validation) = 1..job.n
       /\ Len(got.train) + Len(got.validation) = job.n
       /\ got.train # <<>> /\ got.validation # <<>>
  /\ fphase = "counts" =>
       /\ job.n >= 40 /\ job.fraction <= 20 => Compares(job.n, job.fraction)
       /\ job.n > 0 =>
            LET r == Reports(job.n)
            IN /\ \A i, j \in DOMAIN r : i < j => r[i] <= r[j]
               /\ r[1] = 0 /\ Last(r) = 100 /\ Len(r) <= 13

Leaves(tree) == {w \in DOMAIN tree : tree[w].split = Leaf}

\* Every row a tree was grown from is led to the leaf that holds it and to no other,
\* no leaf of a split tree is smaller than asked for, and no way is longer.
RowsFindTheirLeaf ==
  got.step = "next" =>
    \A t \in DOMAIN got.trees :
      LET tree == got.trees[t]
      IN /\ FoldSet(LAMBDA w, s : s + Cardinality(tree[w].held), 0, Leaves(tree)) = Len(job.rows)
         /\ UNION {tree[w].held : w \in Leaves(tree)} = DOMAIN job.rows
         /\ \A w \in DOMAIN tree : Len(w) <= job.maxDepth
         /\ Len(job.rows) >= job.minLeaf =>
              \A w \in Leaves(tree) : Cardinality(tree[w].held) >= job.minLeaf

GrownRowsFindTheirLeaf ==
  got.step = "growing" /\ got.open = <<>> =>
    \A i \in DOMAIN got.boot : i \in got.tree[Turns(got.tree, Drawn(i).x)].held

\* Whatever a forest is asked of, its answer lies between what the least and the most
\* underestimated of its rows asks for; a forest of one measurement alone repeats it.
ForestStaysInRange ==
  got.step = "next" /\ Len(got.trees) = job.count =>
    \A x \in FeatureRange \X FeatureRange :
      LET ratios == Range(Ratios(job.rows))
          e == learnedEstimateTile(got.trees, x, 4)
      IN /\ CyclesOf(4 + Min(ratios)) <= e.cycles /\ e.cycles <= CyclesOf(4 + Max(ratios))
         /\ e.calibrationFactor[1] * e.rawCycles = e.cycles * e.calibrationFactor[2]

\* However far a network has gone astray, a prediction is within the bounds of a
\* correction, and a cycle at least.
NetworksAreBounded ==
  fphase = "counts" =>
    \A output \in {-job.n, job.n} :
      \A global \in {LeastRatio, 0, MostRatio} :
        /\ LET cycles == NeuralCycles(output, global, 6)
           IN CyclesOf(6 + LeastRatio) <= cycles /\ cycles <= CyclesOf(6 + MostRatio)
        /\ DirectCycles(output, global + 4) \in 1..CyclesOf(MostLog)

\* The network is recommended only if some row is predicted better by it, and the tree
\* only if the network is not better by more than a percent on every row; and errors
\* are ranked.
ComparisonIsFair ==
  fphase = "compare" =>
    LET c == compareResidualEstimators(job)
    IN /\ c.recommendation = "neural" => \E i \in DOMAIN job : job[i].neural < job[i].tree
       /\ c.recommendation = "tree" => \E i \in DOMAIN job : job[i].tree <= job[i].neural + 1
       /\ \A m \in {c.treeMetrics, c.neuralMetrics} :
            m.p50 <= m.p90 /\ m.p90 <= m.p95 /\ m.learned <= m.samples * m.p95
       /\ c.baselineMetrics.learned = c.neuralMetrics.baseline

\* A target has a model exactly if enough samples measured it, all of which the model
\* is trained on; nothing is said of another target, and no utilization above all.
TargetsAreMeasured ==
  fphase = "targets" /\ got.step # "given" =>
    /\ \A t \in MetricTargets :
         LET measured == {i \in DOMAIN job : MeasuredOf(job[i], t) > 0}
         IN Cardinality(measured) >= TargetRows <=>
              \E m \in got.models : m.target = t /\ Len(m.rows) = Cardinality(measured)
    /\ got.step = "predicted" =>
         /\ {p[1] : p \in got.says} = {m.target : m \in got.models}
         /\ \A p \in got.says : p[2] > 0 /\ (p[1] = "utilization" => p[2] <= 100)

\* What was measured of a whole layer teaches the same whatever tile was kept with it;
\* any other tile is told by its features; a sample is padded exactly where its tile
\* leaves a rest; and the sample of an estimate is told by its tile alone.
FeaturesTell ==
  fphase = "sample" =>
    LET f == learnedEstimatorFeatures(job)
    IN /\ f.padding >= 0 /\ (f.padding = 0 <=> \A a \in Sides : f.rest[a] = 0)
       /\ job.scope = "full-layer" => f.padding = 0
       /\ \A t \in {s.tile : s \in LayerSamples} :
            learnedEstimatorFeatures([job EXCEPT !.tile = t]) = f
              <=> t = job.tile \/ job.scope = "full-layer"
       /\ learnedEstimatorFeatures(sampleFromTile(job)).tile = job.tile
=============================================================================
