----------------------------- MODULE SuiteBlend -----------------------------
(***************************************************************************)
(* The arithmetic of lib/estimatorSuite.ts that TrainSuite leaves out: how *)
(* the predictions of the models are blended, how the weights of the blend *)
(* are chosen, averaged and mixed, what is taken of the analytical cycles  *)
(* where the suite knows little, and how the calibration fits its trends   *)
(* and asks its neighbours.  Logarithms of cycles are numbers of quarter   *)
(* doublings, a blend is rounded to one; weights are natural numbers, of   *)
(* which the code keeps the shares.                                        *)
(***************************************************************************)
EXTENDS Integers, Sequences, SequencesExt, FiniteSetsExt, TLC

CONSTANTS
  Stacks,      \* the rows weights are fitted to, as sequences of predictions
  Fallbacks,   \* the weights an optimisation starts from, and those of a split
  Ticks,       \* steps of the grid of weights (20)
  FewRows,     \* rows an optimisation needs (8)
  AnchorRows,  \* rows that free it of the analytical anchor (80)
  Residuals,   \* residuals a trend is fitted to
  Ridges,      \* what is added to the diagonal of its normal equations (2 to 4.5)
  NearestOf,   \* neighbours that are asked (8 to 24)
  FarAway,     \* average distance from which they are not heard (5.5)
  Geometries,  \* shapes with their tiles and hardware
  RowCounts    \* numbers of rows a calibration has

VARIABLES
  bphase,  \* the computation the behaviour is about; "idle" for none
  given,   \* what it is given
  done    \* what it has found so far

bvars == <<bphase, given, done>>

-----------------------------------------------------------------------------
(* Predictions and their errors. *)

Models == {"analytical", "tree", "neural", "direct"}
Corner(x) == [y \in Models |-> IF y = x THEN 1 ELSE 0]
NoLog == -1

\* Math.round(Math.exp(log)), for quarter doublings.
CyclesOfLog == <<1, 1, 1, 2, 2, 2, 3, 3, 4, 5, 6, 7, 8, 10, 11, 13, 16>>
expCycles(log) == CyclesOfLog[log + 1]

WholeOf(w) == MapThenSumSet(LAMBDA x : w[x], DOMAIN w)

\* normalizeWeights, which leaves out the direct network where there is none.
Counted(w, hasDirect) == IF hasDirect THEN w ELSE [w EXCEPT !.direct = 0]

\* Half a unit up, like Math.round.
Rounded(num, den) == (2 * num + den) \div (2 * den)

\* weightedLogPrediction: the weighted mean of the logarithms.
Blended(row, weights, hasDirect) ==
  LET w == Counted(weights, hasDirect /\ row.direct # NoLog)
  IN IF WholeOf(w) = 0 THEN 0
     ELSE Rounded(MapThenSumSet(LAMBDA x : w[x] * row[x], {x \in Models : w[x] > 0}), WholeOf(w))

HasDirect(rows) == \E i \in DOMAIN rows : rows[i].direct # NoLog

\* The errors relative to what was measured, in eighths; measured cycles divide eight.
ErrorOf(log, measured) ==
  LET off == expCycles(log) - expCycles(measured)
  IN (8 * (IF off < 0 THEN -off ELSE off)) \div expCycles(measured)

AtPercent(sorted, p) == sorted[Min({Len(sorted), (Len(sorted) * p) \div 100 + 1})]

LargestError == 120
Root(x) == Max({r \in 0..LargestError : r * r <= x})

\* metricsFromPredictions; the mean error is kept as the sum it is divided from, and
\* roots are rounded down.
MetricsOf(errors) ==
  LET sorted == SortSeq(errors, <)
      n == Len(errors)
  IN [n |-> n, sum |-> FoldLeft(+, 0, errors),
      rmse |-> Root(FoldLeft(LAMBDA s, e : s + e * e, 0, errors) \div n),
      p50 |-> AtPercent(sorted, 50), p90 |-> AtPercent(sorted, 90), p95 |-> AtPercent(sorted, 95)]

\* evaluateStackedRows, and the same of the rows' analytical cycles alone.
StackMetrics(rows, w) ==
  MetricsOf([i \in DOMAIN rows |->
               ErrorOf(Blended(rows[i], w, HasDirect(rows)), rows[i].measured)])
AnalyticalMetrics(rows) ==
  MetricsOf([i \in DOMAIN rows |-> ErrorOf(rows[i].analytical, rows[i].measured)])

\* The three scores, multiplied by the rows and by ten or four.
metricScore(m) == Max({1, 10 * m.sum + m.n * (3 * m.p90 + m.rmse)})
safeScore(m) == Max({1, 4 * m.sum + m.n * m.p90})
baselineScore(m) == Max({1, 4 * m.sum + m.n * m.rmse})

ScoreOf(rows, w) == metricScore(StackMetrics(rows, w))

-----------------------------------------------------------------------------
(* The weights of a stack. *)

\* The inverse squares of the scores, in percent of their sum and rounded up.
WeightsFromMetrics(rows) ==
  LET inverse(x, favour, score) == <<x, (1000000 * favour + score * score - 1) \div (score * score)>>
      inverses == {inverse("analytical", 1, baselineScore(AnalyticalMetrics(rows))),
                   inverse("tree", 10, safeScore(StackMetrics(rows, Corner("tree")))),
                   inverse("neural", 10, safeScore(StackMetrics(rows, Corner("neural")))),
                   inverse("direct", IF HasDirect(rows) THEN 12 ELSE 0,
                           safeScore(StackMetrics(rows, Corner("direct"))))}
      sum == MapThenSumSet(LAMBDA i : i[2], inverses)
  IN [x \in Models |-> (100 * (CHOOSE i \in inverses : i[1] = x)[2] + sum - 1) \div sum]

simplexGrid(hasDirect) ==
  {w \in [Models -> 0..Ticks] : WholeOf(w) = Ticks /\ (~hasDirect => w.direct = 0)}

\* Few rows keep a twentieth of the analytical cycles.
Anchored(w) ==
  [x \in Models |-> IF x = "analytical" THEN Max({20 * w[x], WholeOf(w), 1}) ELSE 20 * w[x]]

TriedWeights(rows, fallback) ==
  LET hasDirect == HasDirect(rows)
      all == {Counted(c, hasDirect) :
                c \in {fallback, WeightsFromMetrics(rows)} \union simplexGrid(hasDirect)}
  IN IF Len(rows) < AnchorRows THEN {Anchored(w) : w \in all} ELSE all

\* Fault: the best of the tried weights is taken, though the start was not tried as it is.
OptimizedAnyway(rows, fallback) ==
  IF Len(rows) < FewRows THEN {fallback}
  ELSE LET scored == {<<ScoreOf(rows, w), w>> : w \in TriedWeights(rows, fallback)}
       IN {x[2] : x \in {y \in scored : y[1] = Min({z[1] : z \in scored})}}

\* optimizeStackedWeights: which of several best ones comes first is left open.
Optimized(rows, fallback) ==
  IF Len(rows) < FewRows THEN {fallback}
  ELSE LET start == Counted(fallback, HasDirect(rows))
           scored == {<<ScoreOf(rows, w), w>> : w \in TriedWeights(rows, fallback)}
           least == Min({x[1] : x \in scored})
       IN IF least < ScoreOf(rows, start) THEN {x[2] : x \in {y \in scored : y[1] = least}}
          ELSE {start}

\* blendEstimatorSuiteWeights, with alpha in percent.
BlendWeights(g, l, alpha, hasDirect) ==
  LET a == Counted(g, hasDirect)  b == Counted(l, hasDirect)
  IN [x \in Models |-> (100 - alpha) * a[x] * Max({1, WholeOf(b)}) + alpha * b[x] * Max({1, WholeOf(a)})]

\* averageWeights; every sum of these weights divides twelve.
ShareOf(w, x) == IF WholeOf(w) = 0 THEN 0 ELSE (12 * w[x]) \div WholeOf(w)
AverageWeights(ws, hasDirect) ==
  IF ws = <<>> THEN [analytical |-> 10, tree |-> 45, neural |-> 30,
                     direct |-> IF hasDirect THEN 15 ELSE 0]
  ELSE [x \in Models |-> FoldLeft(LAMBDA s, w : s + ShareOf(Counted(w, hasDirect), x), 0, ws)]

\* The kept weights: 35 parts of those from the metrics, 45 of the averaged and 20 of
\* the optimised ones.
FinalWeights(metric, averaged, optimized) ==
  LET m == Max({1, WholeOf(metric)})  a == Max({1, WholeOf(averaged)})  o == Max({1, WholeOf(optimized)})
  IN [x \in Models |-> 35 * metric[x] * a * o + 45 * averaged[x] * m * o + 20 * optimized[x] * m * a]

\* recommendModel; the first of equal scores.
ScoresOf(rows, ensemble) ==
  <<<<"analytical", baselineScore(AnalyticalMetrics(rows))>>,
    <<"tree", safeScore(StackMetrics(rows, Corner("tree")))>>,
    <<"neural", safeScore(StackMetrics(rows, Corner("neural")))>>,
    <<"ensemble", safeScore(StackMetrics(rows, ensemble))>>>>
RecommendedModel(rows, ensemble) ==
  LET scores == ScoresOf(rows, ensemble)
      least == Min({scores[i][2] : i \in DOMAIN scores})
  IN scores[Min({i \in DOMAIN scores : scores[i][2] = least})][1]

Optimize ==
  /\ bphase = "stack" /\ done.step = "given"
  /\ \E w \in Optimized(given.rows, given.fallback) :
       done' = [step |-> "optimized", weights |-> w]
  /\ UNCHANGED <<bphase, given>>

\* buildAdaptiveStackWeights: a bucket whose own weights are better by half a percent
\* keeps a blend of them with the global ones.
Adapt(alpha) ==
  /\ bphase = "stack" /\ done.step = "optimized"
  /\ 1000 * ScoreOf(given.rows, done.weights) <= 995 * ScoreOf(given.rows, given.fallback)
  /\ done' = [step |-> "adapted", local |-> done.weights,
               weights |-> BlendWeights(given.fallback, done.weights, alpha, HasDirect(given.rows))]
  /\ UNCHANGED <<bphase, given>>

\* The end of trainEstimatorSuite, whose fallback are the averaged weights.
Mix ==
  /\ bphase = "stack" /\ done.step = "optimized"
  /\ LET w == FinalWeights(WeightsFromMetrics(given.rows), given.fallback, done.weights)
     IN done' = [step |-> "mixed", local |-> done.weights, weights |-> w,
                  recommended |-> RecommendedModel(given.rows, w)]
  /\ UNCHANGED <<bphase, given>>

-----------------------------------------------------------------------------
(* What is taken of the analytical cycles outside the training domain. *)

\* numericRange
RangeOf(values) == [min |-> Min(values), max |-> Max(values)]

\* Half of a key's loss of confidence comes with leaving its range, in percent.
Kept(range, value) ==
  LET span == Max({1, range.max - range.min})
      away == Max({range.min - value, value - range.max})
  IN IF away <= 0 THEN 100 ELSE 100 - Min({30, 10 + (20 * Min({away, span})) \div span})

\* domainConfidenceForPrediction, in percent: the numeric keys, the array, the dataflow.
Confidence(seen, value, knowsArray, knowsFlow) ==
  LET numeric == FoldLeft(LAMBDA c, i : (c * Kept(RangeOf(seen[i]), value[i])) \div 100, 100,
                          [i \in DOMAIN seen |-> i])
      array == IF knowsArray THEN numeric ELSE (82 * numeric) \div 100
      flow == IF knowsFlow THEN array ELSE (72 * array) \div 100
  IN Max({35, Min({flow, 100})})

\* predictEstimatorSuiteCycles: the calibrated cycles count with the confidence, the
\* analytical ones with seven tenths of what is missing to it.
Guarded(confidence, calibrated, analytical) ==
  Rounded(10 * confidence * calibrated + 7 * (100 - confidence) * analytical,
          10 * confidence + 7 * (100 - confidence))

ConfidenceOf(g) == Confidence(g.seen, g.value, g.knowsArray, g.knowsFlow)

Predict ==
  /\ bphase = "domain" /\ done.step = "given"
  /\ done' = [step |-> "predicted",
               log |-> Guarded(ConfidenceOf(given), given.calibrated, given.analytical)]
  /\ UNCHANGED <<bphase, given>>

-----------------------------------------------------------------------------
(* The trends of the calibration: fractions are pairs with a positive second. *)

Divisor(a, b) == Max({g \in 1..b : a % g = 0 /\ b % g = 0})
Lowest(a, b) == <<a \div Divisor(a, b), b \div Divisor(a, b)>>
Frac(a, b) == IF b < 0 THEN Lowest(-a, -b) ELSE Lowest(a, b)
Less(f, g) == f[1] * g[2] < g[1] * f[2]
Minus(f, g) == Frac(f[1] * g[2] - g[1] * f[2], f[2] * g[2])
Times(f, g) == Frac(f[1] * g[1], f[2] * g[2])
Quotient(f, g) == Frac(f[1] * g[2], f[2] * g[1])
Size(f) == IF f[1] < 0 THEN <<-f[1], f[2]>> ELSE f

Dot(u, v) == FoldLeft(LAMBDA s, i : s + u[i] * v[i], 0, [i \in DOMAIN u |-> i])
Column(x, j) == [r \in DOMAIN x |-> x[r][j]]

\* fitResourceTrend and fitTilingTrend: the normal equations of the normalised
\* features x and the residuals y, with a ridge, multiplied by the number of rows.
NormalEquations(x, y, ridge) ==
  [i \in 1..2 |-> [j \in 1..3 |->
     IF j = 3 THEN Frac(Dot(Column(x, i), y), 1)
     ELSE Frac(Dot(Column(x, i), Column(x, j)) + (IF i = j THEN ridge ELSE 0), 1)]]

SetUp ==
  /\ bphase = "trend" /\ done.step = "given"
  /\ done' = [step |-> "solving", col |-> 1,
               m |-> NormalEquations(given.x, given.y, given.ridge)]
  /\ UNCHANGED <<bphase, given>>

\* The first row from the diagonal on with the largest entry.
PivotOf(m, col) ==
  CHOOSE r \in col..2 :
    /\ \A q \in col..2 : ~Less(Size(m[r][col]), Size(m[q][col]))
    /\ \A q \in col..(r - 1) : Less(Size(m[q][col]), Size(m[r][col]))

Swapped(m, a, b) == [m EXCEPT ![a] = m[b], ![b] = m[a]]

\* solveLinearSystem, one column: the entries left of the column are done with.
Eliminated(m, col) ==
  LET s == Swapped(m, col, PivotOf(m, col))
      divided == [c \in 1..3 |-> IF c < col THEN s[col][c] ELSE Quotient(s[col][c], s[col][col])]
  IN [r \in 1..2 |-> [c \in 1..3 |->
        IF r = col THEN divided[c]
        ELSE IF c < col THEN s[r][c] ELSE Minus(s[r][c], Times(s[r][col], divided[c]))]]

Eliminate ==
  /\ bphase = "trend" /\ done.step = "solving"
  /\ LET pivot == done.m[PivotOf(done.m, done.col)][done.col]
     IN \/ /\ pivot[1] = 0
           /\ done' = [step |-> "unsolved"]
        \/ /\ pivot[1] # 0 /\ done.col = 1
           /\ done' = [done EXCEPT !.m = Eliminated(@, 1), !.col = 2]
        \/ /\ pivot[1] # 0 /\ done.col = 2
           /\ done' = [step |-> "solved",
                        coefficients |-> LET m == Eliminated(done.m, 2) IN <<m[1][3], m[2][3]>>]
  /\ UNCHANGED <<bphase, given>>

\* resourceTrendLogBias and tilingTrendLogBias, before they are clamped: quarters of the
\* product with the coefficients, times their denominators and four.
TrendBias(row, coefficients, quarters) ==
  LET a == coefficients[1]  b == coefficients[2]
  IN quarters * (row[1] * a[1] * b[2] + row[2] * b[1] * a[2])

\* The slope over the predicted cycles: covariance over variance of the first feature,
\* both times the square of the number of rows.
SumUp(v) == FoldLeft(+, 0, v)
RawSlope(v, y) ==
  LET n == Len(v)  variance == n * Dot(v, v) - SumUp(v) * SumUp(v)
  IN IF variance = 0 THEN <<0, 1>> ELSE Frac(n * Dot(v, y) - SumUp(v) * SumUp(y), variance)
ClampedTo(f, cap) == IF Less(cap, f) THEN cap ELSE IF Less(f, Minus(<<0, 1>>, cap)) THEN Minus(<<0, 1>>, cap) ELSE f

-----------------------------------------------------------------------------
(* The neighbours of a sample among the prototypes of the calibration. *)

\* buildLocalCalibration: how many rows become prototypes, and how many of them are asked.
MaxPrototypes(n) == IF n >= 1000 THEN 768 ELSE IF n >= 300 THEN 512 ELSE 256
CeilDiv(a, b) == (a + b - 1) \div b
Prototypes(n) ==
  LET stride == CeilDiv(n, MaxPrototypes(n)) IN Min({CeilDiv(n, stride), MaxPrototypes(n)})
IntRoot(x) == Max({r \in 0..30 : r * r <= x})
AskedOf(n) == Min({24, Max({8, IntRoot(Prototypes(n))})})
MinNeighbors == 6

Far(a, b) == IF a > b THEN a - b ELSE b - a

\* Sorted by their distance, and by their place in the list where it is the same.
NearestOnes(prototypes, at) ==
  LET before(i, j) == \/ Far(prototypes[i].at, at) < Far(prototypes[j].at, at)
                      \/ /\ Far(prototypes[i].at, at) = Far(prototypes[j].at, at)
                         /\ i < j
      order == SortSeq([i \in DOMAIN prototypes |-> i], before)
  IN [i \in 1..Min({NearestOf, Len(order)}) |-> prototypes[order[i]]]

\* The weight 1 / (0.05 + distance squared), times a hundred and rounded down.
NearWeight(d) == 2000 \div (1 + 20 * d * d)

\* localCalibrationLogBias and the end of selectCycleCalibrationLogBias: with the
\* confidence the neighbours deserve, in percent of their blend of 55 percent.
LocalBias(near, at) ==
  LET w == [i \in DOMAIN near |-> NearWeight(Far(near[i].at, at))]
  IN <<FoldLeft(LAMBDA s, i : s + w[i] * near[i].residual, 0, [i \in DOMAIN near |-> i]), SumUp(w)>>
LocalConfidence(near, at) ==
  LET far == SumUp([i \in DOMAIN near |-> Far(near[i].at, at)])
      limit == FarAway * Len(near)
  IN IF far >= limit THEN <<0, 1>> ELSE <<55 * (limit - far), 100 * limit>>
BiasOf(g) ==
  LET near == NearestOnes(g.prototypes, g.at)
      c == LocalConfidence(near, g.at)  bias == LocalBias(near, g.at)
  IN <<g.trend * c[2] * bias[2] + c[1] * (bias[1] - g.trend * bias[2]), c[2] * bias[2]>>

Ask ==
  /\ bphase = "local" /\ done.step = "given"
  /\ done' = [step |-> "asked", bias |-> BiasOf(given)]
  /\ UNCHANGED <<bphase, given>>

-----------------------------------------------------------------------------
(* The features of a sample and the regime its bucket is named after. *)

\* effectiveSuiteTile
EffectiveTile(g) == IF g.scope = "full-layer" THEN g.shape ELSE g.tile

TileBytes(g) == LET t == EffectiveTile(g) IN t.m * t.k + t.k * t.n + t.m * t.n
PaddedOps(g) ==
  LET t == EffectiveTile(g)
  IN CeilDiv(g.shape.m, t.m) * t.m * CeilDiv(g.shape.n, t.n) * t.n * CeilDiv(g.shape.k, t.k) * t.k
TrueOps(g) == g.shape.m * g.shape.n * g.shape.k
EdgeAxes(g) ==
  LET t == EffectiveTile(g) IN Cardinality({a \in {"m", "n", "k"} : g.shape[a] % t[a] # 0})

\* arrayTileFit, as a fraction.
Fit(g) ==
  LET t == EffectiveTile(g)
  IN <<Min({t.m, g.rows}) * Min({t.n, g.cols}), Max({t.m, g.rows}) * Max({t.n, g.cols})>>

\* localCalibrationFeature: what the neighbours compare; the coverage is kept as its
\* three fractions, and the sides of the tile are those of the row.
LocalFeatures(g) ==
  LET t == EffectiveTile(g)
  IN [sides |-> <<g.shape, g.tile, g.rows, g.cols, g.sram, g.bandwidth>>,
      workOps |-> TrueOps(g), tileOps |-> t.m * t.n * t.k,
      coverage |-> [a \in {"m", "n", "k"} |-> Lowest(t[a], g.shape[a])]]

\* keyOfRegime: the pressure beyond exp(0.12), the bandwidth of a unit of an array of
\* a gigahertz below exp(-2.6), the fit below 0.45 and the padding beyond 1.18.
Regime(g) ==
  CASE 1000 * TileBytes(g) > 1127 * g.sram -> "sram-spill"
    [] 10000 * g.bandwidth < 743 * g.rows * g.cols -> "dram-bound"
    [] 100 * Fit(g)[1] < 45 * Fit(g)[2] -> "array-mismatch"
    [] 100 * PaddedOps(g) > 118 * TrueOps(g) -> "edge-heavy"
    [] OTHER -> "compute-regular"

-----------------------------------------------------------------------------
Average ==
  /\ bphase = "folds" /\ done.step = "given"
  /\ done' = [step |-> "averaged", weights |-> AverageWeights(given.weights, given.hasDirect)]
  /\ UNCHANGED <<bphase, given>>

KeyValues == {0, 2, 5}
Seen == {{2}, {1, 3}}
Columns == {<<0, 0, 0>>} \union {v \in [1..3 -> -1..1] : Range(v) = -1..1}

\* The normalised features have the mean zero.
Trends ==
  [x : {[r \in 1..3 |-> <<a[r], b[r]>>] : a \in Columns, b \in Columns},
   y : [1..3 -> Residuals], ridge : Ridges]

SuiteBlendInit ==
  /\ done = [step |-> "given"]
  /\ \/ bphase = "idle" /\ given = [rows |-> 0]
     \/ bphase = "stack" /\ given \in [rows : Stacks, fallback : Fallbacks]
     \/ bphase = "folds" /\ given \in [weights : UNION {[1..n -> Fallbacks] : n \in 0..2},
                                       hasDirect : BOOLEAN]
     \/ bphase = "domain" /\ given \in [seen : [1..2 -> Seen], value : [1..2 -> KeyValues],
                                        knowsArray : BOOLEAN, knowsFlow : BOOLEAN,
                                        calibrated : {2, 9}, analytical : {4, 7}]
     \/ bphase = "trend" /\ given \in Trends
     \/ bphase = "local" /\ given \in [prototypes : [1..3 -> [at : {0, 1, 3}, residual : Residuals]],
                                       at : 0..3, trend : Residuals]
     \/ bphase = "features" /\ given \in Geometries
     \/ bphase = "counts" /\ given \in [rows : RowCounts]

SuiteBlendNext ==
  \/ Optimize
  \/ \E alpha \in {20, 47, 75} : Adapt(alpha)
  \/ Mix
  \/ Average
  \/ Predict
  \/ SetUp \/ Eliminate
  \/ Ask

SuiteBlendSpec == SuiteBlendInit /\ [][SuiteBlendNext]_bvars

-----------------------------------------------------------------------------
\* The state has the shape the code relies on.
SuiteBlendTypeOK ==
  /\ bphase \in {"idle", "stack", "folds", "domain", "trend", "local", "features", "counts"}
  /\ "weights" \in DOMAIN done => done.weights \in [Models -> Nat]
  /\ done.step \in {"given", "optimized", "adapted", "mixed", "averaged", "predicted",
                     "solving", "solved", "unsolved", "asked"}

LiesBetween(x, a, b) == Min({a, b}) <= x /\ x <= Max({a, b})

\* An optimisation never ends with a worse score than it started with nor, with many
\* rows, than a single model's; with few ones it keeps some of the analytical cycles
\* or its start; and a start that errs nowhere is kept.
WeightsWin ==
  done.step = "optimized" =>
    LET rows == given.rows  w == done.weights
    IN /\ ScoreOf(rows, w) <= ScoreOf(rows, given.fallback)
       /\ Len(rows) >= AnchorRows => \A x \in Models : ScoreOf(rows, w) <= ScoreOf(rows, Corner(x))
       /\ Len(rows) < AnchorRows =>
            \/ w \in {given.fallback, Counted(given.fallback, HasDirect(rows))}
            \/ 21 * w["analytical"] >= WholeOf(w)
       /\ StackMetrics(rows, given.fallback).sum = 0 =>
            w \in {given.fallback, Counted(given.fallback, HasDirect(rows))}

\* What is predicted with blended weights lies between what is predicted with the
\* weights they were blended from, with and without a direct prediction, and between
\* the models' own predictions as long as one of them counts.
BlendsLieBetween ==
  /\ bphase = "stack" /\ done.step \in {"adapted", "mixed"} =>
       \A i \in DOMAIN given.rows :
         LET row == given.rows[i]  direct == HasDirect(given.rows)
             log(w) == Blended(row, w, direct)
             parts == {log(given.fallback), log(done.local)}
                        \union (IF done.step = "mixed" THEN {log(WeightsFromMetrics(given.rows))} ELSE {})
         IN Min(parts) <= log(done.weights) /\ log(done.weights) <= Max(parts)
  /\ bphase = "folds" /\ done.step = "averaged" /\ given.weights # <<>> =>
       \A x \in Models :
         LET shares == {12 * ShareOf(Counted(given.weights[i], given.hasDirect), x) :
                          i \in DOMAIN given.weights}
         IN WholeOf(done.weights) > 0 =>
              /\ Min(shares) * WholeOf(done.weights) <= 144 * done.weights[x]
              /\ 144 * done.weights[x] <= Max(shares) * WholeOf(done.weights)

\* The errors of a stack are ordered by their percentiles, their mean is between zero
\* and the largest, and no learned model is recommended that another one beats on
\* every row, nor the analytical cycles where a learned model errs nowhere.
ErrorsAreRanked ==
  bphase = "stack" =>
    /\ LET m == StackMetrics(given.rows, given.fallback)
       IN /\ m.p50 <= m.p90 /\ m.p90 <= m.p95
          /\ m.sum <= m.n * m.p95 /\ m.rmse <= m.p95 /\ m.sum < m.n * (m.rmse + 1)
    /\ done.step = "mixed" =>
         LET rows == given.rows
             error(w, i) == ErrorOf(Blended(rows[i], w, HasDirect(rows)), rows[i].measured)
             weights == [tree |-> Corner("tree"), neural |-> Corner("neural"),
                         ensemble |-> done.weights]
         IN /\ done.recommended # "analytical" =>
              \A other \in DOMAIN weights :
                \E i \in DOMAIN rows :
                  error(weights[done.recommended], i) <= error(weights[other], i)
            /\ done.recommended = "analytical" /\ AnalyticalMetrics(rows).sum > 0 =>
                 \A x \in DOMAIN weights : StackMetrics(rows, weights[x]).sum > 0

\* A sample the suite knows in every respect is predicted by its models; another one
\* between them and the analytical cycles, with some confidence in either; and a
\* value farther outside never is trusted more.
UnknownIsTempered ==
  bphase = "domain" =>
    LET known == given.knowsArray /\ given.knowsFlow
                   /\ \A i \in 1..2 : RangeOf(given.seen[i]).min <= given.value[i]
                                        /\ given.value[i] <= RangeOf(given.seen[i]).max
    IN /\ done.step = "predicted" =>
            /\ LiesBetween(done.log, given.calibrated, given.analytical)
            /\ known => done.log = given.calibrated
       /\ ConfidenceOf(given) \in 35..100 /\ (ConfidenceOf(given) = 100 <=> known)
       /\ given.value[1] >= RangeOf(given.seen[1]).max =>
            ConfidenceOf([given EXCEPT !.value[1] = @ + 1]) <= ConfidenceOf(given)

\* The squares of what a fit with a share of a trend leaves of the residuals.
Left(y, fitted) == FoldLeft(LAMBDA s, r : s + (y[r] - fitted[r]) * (y[r] - fitted[r]), 0,
                            [r \in DOMAIN y |-> r])

\* The system of a trend always has its solution and it is found; before it is clamped
\* no blend of it leaves more than there was; and a slope over one feature does not
\* even when it is clamped.
TrendsHelp ==
  bphase = "trend" =>
    /\ done.step # "unsolved"
    /\ done.step = "solved" =>
         LET a == done.coefficients[1]  b == done.coefficients[2]
             d == a[2] * b[2]
             e == NormalEquations(given.x, given.y, given.ridge)
         IN /\ \A i \in 1..2 :
                 e[i][1][1] * a[1] * b[2] + e[i][2][1] * b[1] * a[2] = e[i][3][1] * d
            /\ \A quarter \in 1..3 :
                 Left([r \in 1..3 |-> 4 * d * given.y[r]], [r \in 1..3 |-> TrendBias(given.x[r], done.coefficients, quarter)])
                   <= Left([r \in 1..3 |-> 4 * d * given.y[r]], <<0, 0, 0>>)
    /\ done.step = "given" =>
         LET v == Column(given.x, 1)
             slope == ClampedTo(RawSlope(v, given.y), <<11, 50>>)
         IN \A quarter \in 1..4 :
              Left([r \in 1..3 |-> 4 * slope[2] * given.y[r]],
                   [r \in 1..3 |-> quarter * slope[1] * v[r]])
                <= Left([r \in 1..3 |-> 4 * slope[2] * given.y[r]], <<0, 0, 0>>)

\* The neighbours move the bias from the trend towards their own residuals and not
\* beyond; the closer all of them are the more they are heard, and far ones are not.
\* Where prototypes are kept at all they are at least half of what may be kept, and
\* as many are asked as confidence needs, so that only their distance weakens it.
NeighboursAgree ==
  /\ bphase = "local" /\ done.step = "asked" =>
       LET near == NearestOnes(given.prototypes, given.at)
           told == {near[i].residual : i \in DOMAIN near} \union {given.trend}
           others == Range(given.prototypes) \ Range(near)
       IN /\ ~Less(done.bias, <<Min(told), 1>>) /\ ~Less(<<Max(told), 1>>, done.bias)
          /\ \A i \in DOMAIN near, p \in others : Far(near[i].at, given.at) <= Far(p.at, given.at)
          /\ (\A i \in DOMAIN near : Far(near[i].at, given.at) >= FarAway) =>
               done.bias[1] = given.trend * done.bias[2]
          /\ ~Less(<<55, 100>>, LocalConfidence(near, given.at))
  /\ bphase = "counts" =>
       LET n == given.rows
       IN /\ 24 <= Prototypes(n) /\ Prototypes(n) <= Min({n, MaxPrototypes(n)})
          /\ 2 * Prototypes(n) >= Min({n, MaxPrototypes(n)})
          /\ MinNeighbors < AskedOf(n) /\ AskedOf(n) <= Prototypes(n)

\* A sample is padded exactly if its tile does not divide its shape; one of a whole
\* layer never is and has the features of its shape whatever its tile, but for the
\* sides of the tile that its neighbours are told by; more memory and bandwidth never bring a sample into the regime that lacks it; and a sample
\* without a bandwidth is bound by it unless its tile does not even fit.
RegimesTell ==
  bphase = "features" =>
    /\ PaddedOps(given) >= TrueOps(given)
    /\ PaddedOps(given) = TrueOps(given) <=> EdgeAxes(given) = 0
    /\ Regime(given) = "edge-heavy" => EdgeAxes(given) > 0 /\ given.scope # "full-layer"
    /\ given.scope = "full-layer" =>
         \A g \in Geometries : g.shape = given.shape /\ g.scope = given.scope =>
           /\ TileBytes(g) = TileBytes(given) /\ PaddedOps(g) = PaddedOps(given)
           /\ [LocalFeatures(g) EXCEPT !.sides = 0] = [LocalFeatures(given) EXCEPT !.sides = 0]
    /\ \A x \in 1..3 :
         /\ Regime([given EXCEPT !.sram = @ + x]) = "sram-spill" => Regime(given) = "sram-spill"
         /\ Regime([given EXCEPT !.bandwidth = @ + x]) = "dram-bound" => Regime(given) = "dram-bound"
    /\ given.bandwidth = 0 => Regime(given) \in {"sram-spill", "dram-bound"}
    /\ ~Less(<<1, 1>>, Fit(given))
=============================================================================
