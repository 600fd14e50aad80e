--------------------------- MODULE MCAlgorithms ----------------------------
(***************************************************************************)
(* The computations of a job and of the estimator suite share no state, so *)
(* that one run can check them all: part says which one this behaviour is  *)
(* about, and the others stay as they were initially.                      *)
(***************************************************************************)
EXTENDS TileSearch, SampleCollection, ScopePolicy, TrainSuite, SamplingPlan, ValidationRun,
        DesignSpace, TilingExperiment, Accelerator, ToolResults, SuiteData,
        SuiteBlend, ResidualForest

VARIABLE part

allVars == <<srvars, cmpvars, polvars, suvars, plvars, valvars, dsvars,
             xvars, acvars, tvars, dtvars, bvars, fvars, part>>

-----------------------------------------------------------------------------
(* The instances: seven samples of four workloads, arrays and sizes ...      *)
MCWorkloads == <<1, 2, 3, 4, 4, 1, 2>>
MCArrays == <<1, 1, 2, 2, 2, 3, 1>>
MCFlows == <<1, 2, 3, 1, 2, 2, 1>>
MCSizes == <<1, 2, 3, 4, 4, 1, 2>>
MCRegimes == <<1, 1, 2, 2, 2, 1, 1>>

(* ... a job about a shape and one about it, another one or both, on one array or on *)
(* two, with one run name or with their own ...                                *)
MCSetups ==
  {s \in [SampleJobIds -> Setups] :
     /\ s[1].shapes = <<"qkv">> /\ s[1].array = 1
     /\ \A j \in SampleJobIds : s[j].name = s[1].name}

(* ... estimates with one to three operators, which may be unlikely, padded, *)
(* spilling or under pressure, of which the plan looks at one ...            *)
Good == [conf |-> 90, spill |-> 0, padding |-> 0, pressure |-> 0]
Doubtful == [conf |-> 50, spill |-> 0, padding |-> 30, pressure |-> 0]
Padding == [conf |-> Unknown, spill |-> 0, padding |-> 50, pressure |-> 10]
Spilling == [conf |-> 90, spill |-> 90, padding |-> 0, pressure |-> 0]
Pressed == [conf |-> 20, spill |-> 10, padding |-> 20, pressure |-> 90]
Est(ops, samples, underused, warned) ==
  [ops |-> ops, suite |-> samples, underused |-> underused, warned |-> warned]
MCEstimates ==
  {Est(<<Good>>, 20, FALSE, 0), Est(<<Doubtful, Padding>>, 0, TRUE, 8),
   Est(<<Spilling, Pressed, Pressed>>, 20, FALSE, 0)}
MCDemo == Est(<<Good>>, 0, FALSE, 0)

(* ... and the runbook executed dry, in full, and with something forbidden.  *)
Opts(execute, external, readOnly, stop) ==
  [execute |-> execute, external |-> external, readOnly |-> readOnly, stop |-> stop]
MCOptions ==
  {Opts(FALSE, TRUE, TRUE, TRUE), Opts(TRUE, TRUE, TRUE, TRUE),
   Opts(TRUE, FALSE, TRUE, TRUE), Opts(TRUE, TRUE, FALSE, FALSE)}

(* ... and a sweep of an array of one by four and two shapes without a bandwidth, *)
(* whose small factors fall together when they are rounded and whose rows name  *)
(* requests that were not estimated.                                         *)
MCFactors == [a \in ToSet(AxisOrder) |->
  CASE a = "array" -> {50, 75, 100, 200} [] a = "dram" -> {100, 200}
    [] a = "shape-m" -> {50, 100} [] a = "shape-k" -> {100, 104} [] a = "shape-n" -> {75, 100, 200}
    [] a = "frequency" -> {100, 200} [] OTHER -> {50, 54, 100}]
MCBase == [a \in ToSet(AxisOrder) |->
  CASE a = "array" -> <<1, 4>> [] a = "dram" -> <<0>> [] a = "frequency" -> <<100>>
    [] a = "shape-m" -> <<1, 4>> [] a = "shape-n" -> <<2, 1>> [] a = "shape-k" -> <<1, 1>>
    [] OTHER -> <<25>>]

(* ... and an experiment with two small accelerators and two shapes, and an input that  *)
(* names sizes of its own ...                                                    *)
MCTargets == <<[rows |-> 2, cols |-> 2, sram |-> 8], [rows |-> 1, cols |-> 3, sram |-> 5]>>
MCGemms == <<TileOf(3, 2, 1), TileOf(2, 1, 3)>>
MCInputGrid == [m |-> {2}, n |-> {}, k |-> {2, 5}]
MCTiles == [m : 1..3, n : 1..3, k : 1..3]
MCTileScores == {[t \in MCTiles |-> Volume(t)], [t \in MCTiles |-> 9 - t.m - t.k]}
MCUnitCycles ==
  {[x \in 1..2 |-> [t \in MCTiles |-> Volume(t) + x]],
   [x \in 1..2 |-> [t \in MCTiles |-> 1 + ((t.m * x + 2 * t.n + 5 * t.k) % 4)]]}

(* ... and every small array, with layers on both sides of the refill bands.   *)
MCDesigns ==
  [flow : Flows, rows : {1, 3}, cols : {1, 2}, sram : {1, 4, 40}, bw : {0, 1, 5}]
MCLayers == [m : {1, 5}, n : {1, 4, 12, 21}, k : {1, 7}]

(* Operators whose names contain one another, with and without an underscore,    *)
(* and cells of letters, quotes, commas, spaces and line breaks.                 *)
MCOpNames == {<<"a">>, <<"a", "b">>, <<"b", "_">>, <<"_">>}
MCTexts ==
  {<<>>} \union [1..1 -> {"a", Quote, Newline, Comma, Space}]
         \union [1..2 -> {"a", Quote, Newline, Comma, Space}] \union [1..3 -> {Quote, Comma}]

(* Rows that the models predict too low and too high, with and without a direct  *)
(* prediction, tiles on both sides of every threshold of a regime, and numbers   *)
(* of rows around the steps of the prototypes.                                   *)
RowKinds ==
  <<[analytical |-> 4, tree |-> 8, neural |-> 10, direct |-> 7, measured |-> 8],
    [analytical |-> 14, tree |-> 11, neural |-> 12, direct |-> NoLog, measured |-> 12],
    [analytical |-> 9, tree |-> 6, neural |-> 3, direct |-> 5, measured |-> 4],
    [analytical |-> 2, tree |-> 16, neural |-> 8, direct |-> 8, measured |-> 8]>>
MCStacks == {<<RowKinds[a]>> : a \in 1..4}
  \union {<<RowKinds[a], RowKinds[b]>> : a \in 1..4, b \in 1..4}
  \union {<<RowKinds[ab[1]], RowKinds[ab[2]], RowKinds[ab[3]]>> :
            ab \in {x \in [1..3 -> 1..4] : x[1] <= x[2] /\ x[2] <= x[3]}}
Wt(a, t, n, d) == [analytical |-> a, tree |-> t, neural |-> n, direct |-> d]
MCFallbacks == {Wt(1, 1, 1, 1), Wt(0, 2, 1, 0), Wt(0, 0, 0, 2), Wt(0, 0, 1, 3)}
G(m, n, k) == [m |-> m, n |-> n, k |-> k]
MCGeometries ==
  [shape : {G(4, 3, 2), G(6, 2, 1)}, tile : {G(4, 3, 2), G(2, 2, 1), G(3, 2, 4), G(1, 1, 1)},
   scope : {"full-layer", "tile-policy"}, rows : {2, 4}, cols : {1, 3}, sram : {8, 21, 24}, bandwidth : {0, 1, 4}]
MCRowCounts == 40..60 \union 250..260 \union 295..305 \union 995..1030
MCResiduals == {-2, 1}

(* Forests of one or two trees over three or four rows, comparisons on up to     *)
(* three rows, and samples that measured some targets.                           *)
Taught(a, b, m) == [x |-> <<a, b>>, measured |-> m, estimated |-> 4]
MCTrainings ==
  [rows : {<<Taught(1, 1, 3), Taught(1, 2, 5), Taught(2, 2, 9)>>}, minLeaf : {1}, maxDepth : {1, 2},
   count : {0, 1}]
  \union [rows : {<<Taught(1, 3, 5), Taught(3, 1, 5), Taught(2, 2, 6)>>}, minLeaf : {1}, maxDepth : {2},
          count : {2}]
  \union [rows : {<<Taught(1, 1, 3), Taught(1, 2, 5), Taught(2, 2, 9), Taught(3, 1, 4)>>},
          minLeaf : {1, 2}, maxDepth : {2}, count : {1}]
Err(b, t, n) == [baseline |-> b, tree |-> t, neural |-> n]
Errs == {Err(9, 3, 3), Err(5, 4, 3), Err(5, 3, 5), Err(7, 5, 3), Err(2, 0, 40)}
MCErrorRows == UNION {[1..n -> Errs] : n \in 1..3}
Metric(s, d, u) == [sram |-> s, dram |-> d, utilization |-> u, estimated |-> 1, cycles |-> 5]
MCTargeted ==
  UNION {[1..n -> {Metric(0, 7, 1), Metric(3, 0, 150), Metric(Missing, 4, 0),
                   [Metric(2, 2, 2) EXCEPT !.estimated = 0]}] : n \in 1..3}
MCSpread == 0..130

-----------------------------------------------------------------------------
\* Only the part in question makes its initial choices.
Init ==
  /\ part \in {"search", "samples", "policy", "suite", "plan", "evidence", "design", "tiling",
              "array", "tools", "data", "blend", "forest"}
  /\ part # "search" => sizes = [s \in ShapeIds |-> 1]
  /\ part # "samples" => setup = CHOOSE s \in JobSetups : TRUE
  /\ part # "suite" => asked = {} /\ clean = {}
  /\ part # "plan" =>
       /\ axis = [a \in Axes |-> 1]
       /\ plan = [tiles |-> 1, topK |-> 1, maxSamples |-> 1, queueLimit |-> 1]
  /\ part # "evidence" => est = MCDemo
  /\ part # "design" => cycles = [r \in Swept |-> Min(CycleCounts)] /\ reach = Min(Reaches)
  /\ part # "tiling" =>
       opts = [score |-> CHOOSE f \in TileScores : TRUE, says |-> CHOOSE f \in UnitCycles : TRUE,
               oracle |-> FALSE, external |-> FALSE, imported |-> <<>>]
  /\ part # "array" => hw = (CHOOSE d \in Designs : TRUE) /\ layer = (CHOOSE s \in Layers : TRUE)
  /\ part # "tools" => tphase = "start"
  /\ part # "data" => dphase = "profile"
  /\ part # "blend" => bphase = "idle"
  /\ part # "forest" => fphase = "idle"
  /\ ResidualForestInit
  /\ part = "forest" => fphase # "idle"
  /\ SuiteBlendInit /\ ToolResultsInit /\ SuiteDataInit
  /\ part = "blend" => bphase # "idle"
  /\ DesignInit /\ ExperimentInit /\ AcceleratorInit
  /\ SearchInit /\ CollectionInit /\ PolicyInit /\ SuiteInit /\ PlanInit
  /\ IF part = "evidence" THEN ValidationInit
     ELSE /\ scale = [state |-> "none", err |-> Unknown, regret |-> Unknown]
          /\ iree = "none" /\ runtime = NoRuntime
          /\ gate = Gate(est, scale, iree, NoRuntime, TRUE) /\ runbook = <<>>
          /\ inputs = "own" /\ exec = NotStarted /\ rewrites = 0

Next ==
  \/ /\ part = "search" /\ SearchNext
     /\ UNCHANGED <<cmpvars, polvars, suvars, plvars, valvars, dsvars, xvars, acvars, tvars, dtvars,
                    bvars, fvars, part>>
  \/ /\ part = "samples" /\ CollectionNext
     /\ UNCHANGED <<srvars, polvars, suvars, plvars, valvars, dsvars, xvars, acvars, tvars, dtvars,
                    bvars, fvars, part>>
  \/ /\ part = "policy" /\ PolicyNext
     /\ UNCHANGED <<srvars, cmpvars, suvars, plvars, valvars, dsvars, xvars, acvars, tvars, dtvars,
                    bvars, fvars, part>>
  \/ /\ part = "suite" /\ SuiteNext
     /\ UNCHANGED <<srvars, cmpvars, polvars, plvars, valvars, dsvars, xvars, acvars, tvars, dtvars,
                    bvars, fvars, part>>
  \/ /\ part = "plan" /\ PlanNext
     /\ UNCHANGED <<srvars, cmpvars, polvars, suvars, valvars, dsvars, xvars, acvars, tvars, dtvars,
                    bvars, fvars, part>>
  \/ /\ part = "evidence" /\ ValidationNext
     /\ UNCHANGED <<srvars, cmpvars, polvars, suvars, plvars, dsvars, xvars, acvars, tvars, dtvars,
                    bvars, fvars, part>>
  \/ /\ part = "design" /\ DesignNext
     /\ UNCHANGED <<srvars, cmpvars, polvars, suvars, plvars, valvars, xvars, acvars, tvars, dtvars,
                    bvars, fvars, part>>
  \/ /\ part = "tiling" /\ ExperimentNext
     /\ UNCHANGED <<srvars, cmpvars, polvars, suvars, plvars, valvars, dsvars, acvars, tvars, dtvars,
                    bvars, fvars, part>>
  \/ /\ part = "array" /\ AcceleratorNext
     /\ UNCHANGED <<srvars, cmpvars, polvars, suvars, plvars, valvars, dsvars, xvars, tvars, dtvars,
                    bvars, fvars, part>>
  \/ /\ part = "tools" /\ ToolResultsNext
     /\ UNCHANGED <<srvars, cmpvars, polvars, suvars, plvars, valvars, dsvars, xvars, acvars, dtvars,
                    bvars, fvars, part>>
  \/ /\ part = "data" /\ SuiteDataNext
     /\ UNCHANGED <<srvars, cmpvars, polvars, suvars, plvars, valvars, dsvars, xvars, acvars, tvars,
                    bvars, fvars, part>>
  \/ /\ part = "blend" /\ SuiteBlendNext
     /\ UNCHANGED <<srvars, cmpvars, polvars, suvars, plvars, valvars, dsvars, xvars, acvars, tvars,
                    dtvars, fvars, part>>
  \/ /\ part = "forest" /\ ResidualForestNext
     /\ UNCHANGED <<srvars, cmpvars, polvars, suvars, plvars, valvars, dsvars, xvars, acvars, tvars,
                    dtvars, bvars, part>>

Spec == Init /\ [][Next]_allVars

-----------------------------------------------------------------------------
(* The properties of the parts, each about its own behaviours. *)

\* Every part keeps its state in the shape its code relies on.
AlgorithmsTypeOK ==
  /\ part = "search" => SearchTypeOK
  /\ part = "samples" => CollectionTypeOK
  /\ part = "policy" => PolicyTypeOK
  /\ part = "suite" => SuiteTypeOK
  /\ part = "plan" => PlanTypeOK
  /\ part = "evidence" => ValidationTypeOK
  /\ part = "design" => DesignTypeOK
  /\ part = "tiling" => TilingTypeOK
  /\ part = "array" => AcceleratorTypeOK
  /\ part = "tools" => ToolResultsTypeOK
  /\ part = "data" => SuiteDataTypeOK
  /\ part = "blend" => SuiteBlendTypeOK
  /\ part = "forest" => ResidualForestTypeOK

\* The cycles of a layer do its work and answer to its size, its memory and its
\* bandwidth, and the artifacts tell the truth about the ranked tiles.
ArraySound ==
  part = "array" => /\ WorkIsDone /\ LargerIsSlower /\ RoofsHold /\ TrafficCoversLayer
                    /\ AlternativesAreFair /\ HintsAgree

\* The search of a job finds what a search of all tiles would find: its heaps keep
\* the best at every moment, its best tile beats every other one, its Pareto front
\* is one, its heat map is a fair sample, and every name belongs to its own shape.
SearchSound ==
  part = "search" => HeapKeepsBest /\ BestIsBest /\ FrontIsFront /\ SampleIsFair /\ NamesAreOwn

\* The rows of a sweep are distinct and ranked by what is better, an axis has one
\* knee, and what is selected to be validated is diverse and expands to a full plan.
DesignSound ==
  part = "design" => /\ SweepIsDistinct /\ BetterIsRankedFirst /\ KneeIsOne
                     /\ SelectionIsDiverse /\ PlanReachesTarget

\* What a suite is trained from survives its files, its readiness is fair, its written
\* predictions are spread over the samples and a profile lies between its rows.
DataSound ==
  part = "data" => /\ RowsSurvive /\ SamplesAreMeasured /\ ReadinessIsFair
                   /\ PredictionsAreSpread /\ FactorIsBetween

\* The samples of a training are measurements of what their rows say, as far as no job
\* can be mistaken for another, every collected target is among them, once if one job is
\* about it, and a plan measures nothing twice and leaves no combination out that fits.
SamplesSound ==
  /\ part = "samples" => OwnMeasurement /\ CollectedOnce
  /\ part = "plan" => RowsAreDistinct /\ PlanIsFull

\* An import loses no target and keeps none twice, except beside another of its id, and
\* to collect again adds rows only for targets that several jobs are about.
CollectionStable == ImportLosesNone /\ CollectIsIdempotent

\* The weights chosen win, what is blended lies between its parts, errors are ranked,
\* unknown samples are tempered by the analytical cycles, and the trends, neighbours
\* and regimes of the calibration do what they are for.
BlendSound ==
  part = "blend" => /\ WeightsWin /\ BlendsLieBetween /\ ErrorsAreRanked /\ UnknownIsTempered
                    /\ TrendsHelp /\ NeighboursAgree /\ RegimesTell

\* The rows of a training are divided cleanly and reported on, every row finds its
\* leaf, answers stay in the range of what was measured, models are compared fairly,
\* and targets and features are of what was measured.
ForestSound ==
  part = "forest" => /\ RowsAreDivided /\ RowsFindTheirLeaf /\ GrownRowsFindTheirLeaf
                     /\ ForestStaysInRange /\ NetworksAreBounded /\ ComparisonIsFair
                     /\ TargetsAreMeasured /\ FeaturesTell

\* A trained suite is calibrated on what its models had not seen, and what they had
\* seen enters its errors and weights only where it must; it is guarded where it knows
\* nothing, corrects full-layer cycles only if it was trained on them alone or on all
\* samples at request, and an estimate tells its scope.
SuiteSound ==
  /\ part = "suite" => HoldoutIsUnseen /\ FittedOutOfFold /\ UnknownIsGuarded
  /\ part = "policy" => CyclesFromFullLayer /\ EstimateTellsScope

\* The units of a tile are its shape, a speedup compares what is alike, and the totals
\* are of all the rows.
TilingSound == part = "tiling" => UnitsAreShape /\ SpeedupsCompareAlike /\ TotalsAgree

\* The tiles tried fit their target and the one recommended is the best of them, the
\* oracle is the fastest, and what is saved is whole and says what was measured.
MeasuredSound ==
  part = "tiling" => /\ CandidatesFit /\ RowsAreMeasured /\ OracleIsFastest
                     /\ ResultsAreWhole /\ BenchIsKept

\* The layers of a tool's report find their operators, and all that is said and fed
\* back of them agrees.
ReportsSound == part = "tools" => LayersAreOwn /\ ReportsAgree /\ FeedbackIsMeasured

\* The numbers that are shown and learned from: the cycles of a layer, the rows of a
\* sweep, what is read from files, the arithmetic of a suite and the models it is
\* made of, the units and totals of an experiment, and the reports of a tool.
NumbersSound ==
  ArraySound /\ DesignSound /\ DataSound /\ BlendSound /\ ForestSound /\ TilingSound
    /\ ReportsSound

\* A tool's answer is what the last command that wrote has left, no candidate is left out,
\* and it has the time it was promised.
ToolsSound == part = "tools" => AnswerIsOwn /\ EveryCandidateTried /\ LimitsAreSane

\* The gate never punishes better evidence of a tool, the plan has a task for every gap
\* it can close, executing the runbook does what its options allow, the tools of a job
\* answer for themselves, and an experiment tells what it measured.
EvidenceSound ==
  /\ part = "evidence" => BetterEvidenceHelps /\ PlanCoversGaps /\ RunbookObeysOptions
  /\ ToolsSound /\ MeasuredSound
=============================================================================
