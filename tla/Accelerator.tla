---------------------------- MODULE Accelerator ----------------------------
(***************************************************************************)
(* What the analytical model says of a matmul on a systolic array: the     *)
(* cycles of the full layer (fullLayerEstimator.ts) and of a tile policy   *)
(* (estimator.ts), the traffic and the roofs, and what the artifacts       *)
(* derive from the ranked tiles (tilingStrategy.ts, compilerHints.ts,      *)
(* ireeBenchmarkPlan.ts, hardwareDesignPlan.ts).  Elements have one byte,  *)
(* the frequency is 1000 MHz, cycles with a fraction are in thousandths,   *)
(* and shares and penalties in hundredths.                                 *)
(***************************************************************************)
EXTENDS Integers, FiniteSets, FiniteSetsExt, Sequences, SequencesExt

CONSTANTS
  Designs,  \* [flow, rows, cols, sram (in KiB), bw (bytes a cycle, 0 = not set)]
  Layers,   \* [m, n, k]
  TileSizes,
  KiB       \* 1024 in the code

Flows == {"WS", "OS", "IS"}
Most(a, b) == IF a > b THEN a ELSE b
Least(a, b) == IF a < b THEN a ELSE b
Between(lo, x, hi) == Most(lo, Least(x, hi))
Folds(a, b) == (a + b - 1) \div b     \* ceilDiv
\* Bytes a cycle of the on-chip banks, and of the DRAM when it is not set.
Bank == 10
UnsetBandwidth == 128
OfmapBandwidth(hw) == IF hw.bw = 0 THEN UnsetBandwidth ELSE hw.bw

-----------------------------------------------------------------------------
(* The full layer *)

\* ArrayPasses over the array, and what one takes: fill, stream and drain.
ArrayPasses(hw, s) ==
  CASE hw.flow = "OS" -> Folds(s.m, hw.rows) * Folds(s.n, hw.cols)
    [] hw.flow = "IS" -> Folds(s.k, hw.rows) * Folds(s.m, hw.cols)
    [] OTHER -> Folds(s.k, hw.rows) * Folds(s.n, hw.cols)
PassCycles(hw, s) ==
  CASE hw.flow = "OS" -> s.k + hw.rows + hw.cols - 2
    [] hw.flow = "IS" -> s.n + 2 * hw.rows + hw.cols - 3
    [] OTHER -> s.m + 2 * hw.rows + hw.cols - 3
ComputeCycles(hw, s) == ArrayPasses(hw, s) * PassCycles(hw, s)

Ifmap(s) == s.m * s.k
Filter(s) == s.k * s.n
Ofmap(s) == s.m * s.n
WorkingSet(s) == Ifmap(s) + Filter(s) + Ofmap(s)

\* Streams that the passes do not hide, in thousandths of cycles
StreamStall(hw, s) ==
  IF hw.bw = 0 THEN 0
  ELSE Most(0, CASE hw.flow = "OS" -> (15 * WorkingSet(s)) \div hw.bw - 20 * ComputeCycles(hw, s)
                 [] hw.flow = "IS" -> (50 * Filter(s)) \div Bank + (20 * Ofmap(s)) \div hw.bw
                                      - 40 * ComputeCycles(hw, s)
                 [] OTHER -> (15 * Ifmap(s)) \div Bank + (10 * Filter(s)) \div Bank
                             + (5 * Ofmap(s)) \div hw.bw - 50 * ComputeCycles(hw, s))

ProjectionLike(hw, s) == Folds(s.k, hw.rows) <= 6 /\ Folds(s.n, hw.cols) \in 12..20
\* scalesimLikeBufferStall: refills of the buffers, a third of the memory each, when
\* an operand does not fit in its own
BufferOf(hw) == Most(1, hw.sram \div 3) * KiB
RefillStall(hw, s) ==
  LET spills == \E x \in {Ifmap(s), Filter(s), Ofmap(s)} : x > BufferOf(hw)
      tail == Most(0, s.m - hw.rows) * hw.rows
  IN CASE ~spills -> 0
       [] spills /\ hw.flow = "OS" -> 2950 * tail + 640000 * Most(0, Folds(s.k, hw.rows) - 6)
       [] spills /\ hw.flow = "IS" ->
            IF ProjectionLike(hw, s) THEN 45435 * tail ELSE 23300 * tail
       [] OTHER -> IF Filter(s) > BufferOf(hw) THEN 2280 * tail ELSE 0

\* estimateFullLayerCycles: computation and stalls, or the DRAM if that is slower
Slowest(hw, s) ==
  Most(1000 * ComputeCycles(hw, s) + StreamStall(hw, s) + RefillStall(hw, s),
       IF hw.bw = 0 THEN 0 ELSE (1000 * WorkingSet(s)) \div hw.bw)
FullLayer(hw, s) ==
  LET cycles == Most(1, (Slowest(hw, s) + 500) \div 1000)
  IN [cycles |-> cycles, compute |-> ComputeCycles(hw, s),
      stall |-> Most(0, cycles - ComputeCycles(hw, s)),
      util |-> Between(1, (100 * s.m * s.n * s.k) \div (hw.rows * hw.cols * ComputeCycles(hw, s)), 100)]

\* memoryTrafficFor: what is read and written on the chip and off it
Traffic(hw, s) ==
  LET kFolds == Folds(s.k, hw.rows)
      nFolds == Folds(s.n, hw.cols)
  IN CASE hw.flow = "WS" ->
            [sramRead |-> Ifmap(s) * nFolds + Filter(s), sramWrite |-> Ofmap(s) * kFolds,
             dramRead |-> Ifmap(s) + Filter(s), dramWrite |-> Ofmap(s) * kFolds]
       [] hw.flow = "OS" ->
            [sramRead |-> Ifmap(s) * nFolds + Filter(s) * Folds(s.m, hw.rows),
             sramWrite |-> Ofmap(s), dramRead |-> Ifmap(s) + Filter(s), dramWrite |-> Ofmap(s)]
       [] OTHER ->
            [sramRead |-> Ifmap(s) + Filter(s) * Folds(s.m, hw.cols),
             sramWrite |-> Ofmap(s) * kFolds,
             dramRead |-> Ifmap(s) + Filter(s), dramWrite |-> Ofmap(s) * kFolds]

-----------------------------------------------------------------------------
(* A tile policy *)

Repeats(s, t) == Folds(s.m, t.m) * Folds(s.n, t.n) * Folds(s.k, t.k)
TileCompute(hw, s, t) == Repeats(s, t) * ArrayPasses(hw, t) * PassCycles(hw, t)

\* Stalls of larger tiles, in thousandths, and the part that prefetching hides
TileStall(hw, s, t) ==
  LET streams(ifmap, filter, ofmap) ==
        (ifmap * Repeats(s, t) * Ifmap(t)) \div Bank + filter \div Bank
        + (ofmap * Repeats(s, t) * Ofmap(t)) \div OfmapBandwidth(hw)
      all == CASE hw.flow = "OS" \/ Filter(t) <= 2 * hw.rows * hw.cols -> 0
               [] hw.flow = "IS" -> streams(100, 1200 * Repeats(s, t) * Filter(t), 80)
               [] OTHER -> streams(80, 450 * Folds(s.n, t.n) * Folds(s.k, t.k) * Filter(t), 50)
  IN all - Least((12 * all) \div 100, 80 * TileCompute(hw, s, t))

Scratch(t) == Ifmap(t) + Filter(t) + Ofmap(t)
Memory(hw) == hw.sram * KiB
\* Pressure on the memory: 32 cycles for every whole memory above three quarters
Penalty(hw, t) ==
  IF 4 * Scratch(t) > 3 * Memory(hw)
  THEN Folds(8 * (4 * Scratch(t) - 3 * Memory(hw)), Memory(hw)) ELSE 0
TileCycles(hw, s, t) ==
  Most(1, Folds(1000 * TileCompute(hw, s, t) + TileStall(hw, s, t), 1000))
  + Penalty(hw, t) * Folds(s.m, t.m) * Folds(s.n, t.n)

PaddedMacs(s, t) ==
  Folds(s.m, t.m) * t.m * Folds(s.n, t.n) * t.n * Folds(s.k, t.k) * t.k
Macs(s) == s.m * s.n * s.k
\* What a pass uses of the array and of its time
PassUse(hw, t) ==
  LET rows == IF hw.flow = "OS" THEN t.m ELSE t.k
      cols == IF hw.flow = "IS" THEN t.m ELSE t.n
      depth == CASE hw.flow = "OS" -> t.k [] hw.flow = "IS" -> t.n [] OTHER -> t.m
  IN Between(2, (100 * Least(rows, hw.rows) * Least(cols, hw.cols) * depth)
               \div (hw.rows * hw.cols * PassCycles(hw, t)), 100)

\* What a memory exceeded by its size costs in the score (10^8 in the code: anything
\* above the cycles of the layers)
SpillCost == 10000
\* estimateTile, with the score of the objective "cycles" in millionths
Candidate(hw, s, t) ==
  LET over == Most(0, Scratch(t) - Memory(hw))
      util == (Least(t.m, hw.rows) * Least(t.n, hw.cols) * Macs(s) * PassUse(hw, t))
              \div (hw.rows * hw.cols * PaddedMacs(s, t))
      pad == (100 * PaddedMacs(s, t)) \div Macs(s) - 100
  IN [tile |-> t, cycles |-> TileCycles(hw, s, t), util |-> util, pad |-> pad,
      scratch |-> Scratch(t), over |-> over > 0,
      score |-> TileCycles(hw, s, t) + (SpillCost * over) \div Memory(hw)]

\* compareCandidates
Before(a, b) ==
  LET key(c) == <<c.score, c.cycles, -c.util, c.scratch, -Macs(c.tile),
                  -c.tile.m, -c.tile.n, -c.tile.k>>
  IN \E i \in 1..8 : key(a)[i] < key(b)[i] /\ \A j \in 1..(i - 1) : key(a)[j] = key(b)[j]
RankedCandidates(hw, s) ==
  LET all == {Candidate(hw, s, t) : t \in [m : TileSizes, n : TileSizes, k : TileSizes]}
  IN [i \in 1..Cardinality(all) |->
        CHOOSE c \in all : Cardinality({d \in all : Before(d, c)}) = i - 1]

\* toHardwareDesignBest: what is reported of the best tile is how the full layer uses
\* the array.
BestOf(hw, s, candidates) == [candidates[1] EXCEPT !.util = FullLayer(hw, s).util]

-----------------------------------------------------------------------------
(* What the artifacts say of the ranked tiles *)

\* The distance of a score from the best one, in hundredths
Behind(best, c) == (100 * (c.score - best.score)) \div Most(1, best.score)
Stability(candidates) ==
  LET margin == IF Len(candidates) = 1 THEN 100 ELSE Behind(candidates[1], candidates[2])
  IN CASE margin > 15 -> "stable" [] margin > 4 /\ margin <= 15 -> "competitive"
       [] OTHER -> "fragile"

\* Tiles to compare the best one with: as good, with another reduction, smaller or
\* better at using the array; the first four.
Worth(best, c) ==
  \/ Behind(best, c) < 30 \/ c.tile.k # best.tile.k
  \/ 4 * c.scratch < 3 * best.scratch \/ c.util > best.util + 5
Alternatives(best, candidates) ==
  LET worth == SelectSeq(Tail(candidates), LAMBDA c : Worth(best, c))
  IN SubSeq(worth, 1, Least(4, Len(worth)))

\* roundPowerOfTwoAtMost
PowerAtMost(v, most) == Max({p \in {1, 2, 4, 8, 16} : p <= Most(1, Least(v, most))})
\* vectorHintFor, of the compiler hints ...
VectorHint(hw, t) ==
  [m |-> PowerAtMost(Least(t.m, hw.rows), IF hw.flow = "IS" THEN 16 ELSE 8),
   n |-> PowerAtMost(Least(t.n, hw.cols), IF hw.flow = "IS" THEN 8 ELSE 16),
   k |-> PowerAtMost(t.k, 16)]
\* ... and their risk, by how far the two models of the cycles are apart
HintRisk(hw, s, c) ==
  LET full == FullLayer(hw, s).cycles
      apart == Most(full, c.cycles) \div Most(1, Least(full, c.cycles))
      idle == c.util < 45
      padded == c.pad > 35
  IN CASE (idle /\ padded) \/ c.over \/ apart > 200 -> "high"
       [] ~((idle /\ padded) \/ c.over \/ apart > 200) /\ (idle \/ padded \/ apart > 80) -> "medium"
       [] OTHER -> "low"
\* riskForCandidate, of the benchmark plan, for a full confidence
PlanRisk(c) ==
  CASE c.util < 40 \/ c.pad > 40 \/ c.over -> "high"
    [] ~(c.util < 40 \/ c.pad > 40 \/ c.over) /\ (c.util < 55 \/ c.pad > 25) -> "medium"
    [] OTHER -> "low"

\* buildIreeBenchmarkPlan: the variants of a layer to compare with the baseline
Variants(hw, s, best, candidates) ==
  LET half == [best.tile EXCEPT !.k = Most(1, (@ + 1) \div 2)]
      spatial == [m |-> Least(s.m, hw.rows), n |-> Least(s.n, hw.cols), k |-> best.tile.k]
      others == SelectSeq(candidates, LAMBDA c : c.tile.k # best.tile.k
                                             \/ 4 * c.scratch < 3 * best.scratch)
      row(name, tile, risk) == <<[name |-> name, tile |-> tile, risk |-> risk]>>
  IN row("selected", best.tile, PlanRisk(best))
     \o (IF half = best.tile THEN <<>>
         ELSE row("smaller-reduction", half, IF PlanRisk(best) = "high" THEN "medium" ELSE "low"))
     \o row("array-matched", spatial, "low")
     \o (IF others = <<>> THEN <<>> ELSE row("alternative", others[1].tile, PlanRisk(others[1])))

\* buildHardwareDesignPlan: what to try on an axis, and how urgent it is (to validate
\* the layer is, as the only one it is the bottleneck)
StallMatters(full) == full.stall > Most(1024, (8 * full.compute) \div 100)
DesignActions(hw, s, best) ==
  LET full == FullLayer(hw, s)
  IN {<<"array", IF best.util < 55 THEN "high" ELSE "medium">>,
      <<"sram", CASE best.scratch > Memory(hw) -> "high"
                  [] 100 * best.scratch < 35 * Memory(hw) -> "medium" [] OTHER -> "low">>,
      <<"bandwidth", IF StallMatters(full) THEN "high" ELSE "low">>,
      <<"dataflow", "low">>, <<"validation", "high">>}

-----------------------------------------------------------------------------
VARIABLES
  hw,       \* the design
  layer,    \* the shape
  byScore,   \* its candidates, the best one first
  report    \* what the artifacts say of them

acvars == <<hw, layer, byScore, report>>
NoReport == [alternatives |-> <<>>, variants |-> <<>>, actions |-> {}]

AcceleratorInit ==
  hw \in Designs /\ layer \in Layers /\ byScore = <<>> /\ report = NoReport

RankTiles ==
  /\ byScore = <<>>
  /\ byScore' = RankedCandidates(hw, layer)
  /\ UNCHANGED <<hw, layer, report>>

WriteReports ==
  /\ byScore # <<>> /\ report = NoReport
  /\ LET best == BestOf(hw, layer, byScore)
     IN report' = [alternatives |-> Alternatives(best, byScore),
                   variants |-> Variants(hw, layer, best, byScore),
                   actions |-> DesignActions(hw, layer, best)]
  /\ UNCHANGED <<hw, layer, byScore>>

AcceleratorNext == RankTiles \/ WriteReports

-----------------------------------------------------------------------------
(* Properties *)

\* The candidates and reports keep the shape the artifacts rely on.
AcceleratorTypeOK ==
  /\ hw \in Designs /\ hw.flow \in Flows /\ layer \in Layers
  /\ \A c \in ToSet(byScore) : c.cycles > 0 /\ c.util \in 0..100 /\ c.pad >= 0
  /\ \A v \in ToSet(report.variants) : v.risk \in {"low", "medium", "high"}

\* No processing element does more than one multiplication a cycle, neither in the
\* full layer nor in any tile policy, whose tiles cannot beat the full layer's passes;
\* the untiled policy takes as long as the full layer computes.
WorkIsDone ==
  /\ FullLayer(hw, layer).cycles * hw.rows * hw.cols >= Macs(layer)
  /\ report # NoReport => \A i \in DOMAIN byScore :
       LET t == byScore[i].tile
       IN /\ byScore[i].cycles * hw.rows * hw.cols >= PaddedMacs(layer, t)
          /\ TileCompute(hw, layer, t) >= ComputeCycles(hw, layer)
          /\ t = layer => TileCompute(hw, layer, t) = FullLayer(hw, layer).compute

\* A layer that is larger in any respect, a smaller memory or a slower DRAM never makes
\* the full layer faster, except where an input-stationary layer leaves the band of the
\* projections, whose refills cost nearly twice those of the layers on both sides of it.
LargerIsSlower ==
  byScore = <<>> =>
    /\ \A s \in Layers :
         (/\ s.m >= layer.m /\ s.n >= layer.n /\ s.k >= layer.k
          /\ hw.flow = "IS" /\ ProjectionLike(hw, layer) => ProjectionLike(hw, s))
         => FullLayer(hw, s).cycles >= FullLayer(hw, layer).cycles
    /\ \A d \in Designs :
         (/\ \A f \in {"flow", "rows", "cols"} : d[f] = hw[f]
          /\ d.sram <= hw.sram /\ d.bw # 0 /\ (d.bw <= hw.bw \/ hw.bw = 0))
         => FullLayer(d, layer).cycles >= FullLayer(hw, layer).cycles

\* computeRoofline: a layer reaches neither more than the array can do nor, but for
\* the rounding of its cycles, more than the bandwidth can feed.
RoofsHold ==
  LET cycles == FullLayer(hw, layer).cycles
  IN /\ 2 * Macs(layer) <= 2 * hw.rows * hw.cols * cycles
     /\ hw.bw # 0 => 2 * WorkingSet(layer) <= (2 * cycles + 1) * hw.bw

\* memoryTrafficFor: every operand comes from the DRAM once, the chip reads and writes
\* at least what crosses its border, and one pass of each kind needs nothing twice.
TrafficCoversLayer ==
  LET t == Traffic(hw, layer)
  IN /\ t.dramRead = Ifmap(layer) + Filter(layer) /\ t.dramWrite >= Ofmap(layer)
     /\ t.sramRead >= t.dramRead /\ t.sramWrite >= t.dramWrite
     /\ (layer.m <= Least(hw.rows, hw.cols) /\ layer.n <= hw.cols /\ layer.k <= hw.rows)
          => t.sramRead + t.sramWrite = WorkingSet(layer)

\* The reports tell the truth about the ranking: a stable best tile has no other one
\* near it, the alternatives are others, in the order of their scores, and every tile
\* that is nearly as good is among them unless four better ones are.
AlternativesAreFair ==
  report # NoReport =>
    LET best == BestOf(hw, layer, byScore)
        alts == report.alternatives
    IN /\ Stability(byScore) = "stable" =>
            \A i \in 2..Len(byScore) : Behind(best, byScore[i]) > 15
       /\ Len(alts) <= 4
       /\ \A i, j \in DOMAIN alts : /\ alts[i].tile # best.tile
                                    /\ i < j => /\ alts[i].tile # alts[j].tile
                                                /\ alts[i].score <= alts[j].score
       /\ \A c \in ToSet(Tail(byScore)) :
            Behind(best, c) < 30 => c \in ToSet(alts) \/ Len(alts) = 4
       /\ \A c \in ToSet(alts) : \/ Behind(best, c) < 30 \/ c.tile.k # best.tile.k
                                 \/ c.scratch < best.scratch \/ c.util > best.util

\* A hint never asks for vectors that the tile or the array has no room for, and the
\* artifacts that judge the best tile do not contradict each other: one that the
\* benchmark plan holds for safe is risky as a hint only because the two models of its
\* cycles disagree, it fits the memory, and the design plan does not ask for more of it.
HintsAgree ==
  report # NoReport =>
    LET best == BestOf(hw, layer, byScore)
        full == FullLayer(hw, layer).cycles
    IN /\ \A c \in ToSet(byScore) :
            LET v == VectorHint(hw, c.tile)
            IN /\ v.m <= Least(c.tile.m, hw.rows) /\ v.n <= Least(c.tile.n, hw.cols)
               /\ v.k <= c.tile.k
       /\ PlanRisk(best) = "low" =>
            /\ Most(full, best.cycles) <= 80 * Least(full, best.cycles)
                 => HintRisk(hw, layer, best) = "low"
            /\ <<"sram", "high">> \notin report.actions
            /\ <<"array", "high">> \notin report.actions
       /\ best.scratch > Memory(hw) =>
            \A v \in ToSet(report.variants) : v.tile = best.tile => v.risk # "low"
                                                 \/ v.name = "array-matched"
=============================================================================
