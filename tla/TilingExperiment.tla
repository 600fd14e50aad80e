------------------------- MODULE TilingExperiment --------------------------
(***************************************************************************)
(* scripts/tiling-experiment.ts and scripts/tpu_matmul_bench.py: a plan of *)
(* entries - every target, shape and strategy - is simulated entry by      *)
(* entry and benchmarked on a TPU.  The simulator is given the units a     *)
(* tile splits a shape into, one at a time, by the first of several        *)
(* commands that leaves a report; the oracle strategy measures its         *)
(* candidates and keeps the best.  What the estimator says of a tile       *)
(* (estimateTile) and what the simulator says of a unit are free.          *)
(***************************************************************************)
EXTENDS Integers, FiniteSets, FiniteSetsExt, Sequences, SequencesExt

CONSTANTS
  Targets,      \* the presets: [rows, cols, sram], in the order asked for
  Gemms,        \* the shapes: [m, n, k]
  GridValues,   \* the tile sizes tried on every target: 16, 32, ... in the code
  InputGrid,    \* those the input names beside, per axis: [m, n, k]
  TileScores,   \* what the estimator can say: functions from tiles to numbers
  UnitCycles,   \* what the simulator can say of a unit
  Commands,     \* how many commands may start the simulator
  OracleTopK,
  MaxElements,  \* a larger matmul is not benchmarked
  MaxFaults     \* bound on the runs and benchmarks that fail

TileOf(m, n, k) == [m |-> m, n |-> n, k |-> k]
\* The tiles that are not larger than a shape
TilesWithin(shape) == [m : 1..shape.m, n : 1..shape.n, k : 1..shape.k]

AtLeastOne == Nat \ {0}
ASSUME TilingAssumption ==
  /\ Targets \in Seq([rows : AtLeastOne, cols : AtLeastOne, sram : Nat])
  /\ Gemms \in Seq([m : AtLeastOne, n : AtLeastOne, k : AtLeastOne])
  /\ GridValues \subseteq Nat /\ InputGrid \in [{"m", "n", "k"} -> SUBSET Nat]
  /\ OracleTopK \in AtLeastOne
  /\ \A s \in DOMAIN Gemms : \A t \in TilesWithin(Gemms[s]) :
       /\ \A score \in TileScores : score[t] \in Int
       /\ \A says \in UnitCycles, x \in DOMAIN Targets : says[x][t] \in Nat

Volume(t) == t.m * t.n * t.k
SramOf(t) == t.m * t.k + t.k * t.n + t.m * t.n
UpDiv(a, b) == (a + b - 1) \div b
\* clampTile
Clamped(shape, t) ==
  [d \in {"m", "n", "k"} |-> Max({1, Min({t[d], shape[d]})})]
Distance(a, b) == Max({a - b, b - a})
\* The members of a set, the smallest key first.
ByKey(S, key(_)) ==
  LET less(x, y) == \E i \in DOMAIN key(x) :
        key(x)[i] < key(y)[i] /\ \A j \in 1..(i - 1) : key(x)[j] = key(y)[j]
  IN [i \in 1..Cardinality(S) |->
        CHOOSE x \in S : Cardinality({y \in S : less(y, x)}) = i - 1]

-----------------------------------------------------------------------------
(* The candidates of a target *)

\* divisorsAround: the six divisors nearest to the array, of two as near the larger
DivisorsAround(size, dim) ==
  LET near == ByKey({d \in 1..size : size % d = 0},
                LAMBDA d : <<Distance(d, dim), -d>>)
  IN ToSet(SubSeq(near, 1, Min({6, Len(near)})))

\* targetAwareCandidateValues and the hints of the input: the grid, its own sizes,
\* multiples of the array, the size itself
SizesTried(size, dim, own) ==
  LET within(v) == Max({1, Min({v, size})})
  IN {within(v) : v \in GridValues \cup own}
     \cup {within((dim * p + 50) \div 100) : p \in {25, 50, 100, 150, 200, 300, 400, 600, 800}}
     \cup {size} \cup DivisorsAround(size, dim)

\* makeTargetAwareCandidates, without its order, which ranking replaces
Fits(target, t) == SramOf(t) <= target.sram
CandidatesOf(target, shape) ==
  LET guards == {TileOf(target.rows * f, shape.n, target.rows) : f \in {1, 2, 4}}
        \cup {TileOf(shape.m, shape.n, target.rows),
              TileOf(target.rows, target.cols, shape.k)}
      grid == [m : SizesTried(shape.m, target.rows, InputGrid.m),
               n : SizesTried(shape.n, target.cols, InputGrid.n),
               k : SizesTried(shape.k, target.rows, InputGrid.k)]
  IN {t \in {Clamped(shape, g) : g \in guards \cup grid \cup {shape}} :
        Fits(target, t) \/ t = shape}

\* chooseShapeAwareBaselineTile
BaselineOf(target, shape) ==
  LET narrow == shape.n <= target.cols
  IN Clamped(shape, TileOf(IF shape.m <= target.rows THEN shape.m
                           ELSE target.rows * (IF narrow THEN 4 ELSE 1),
                           IF narrow THEN shape.n ELSE target.cols, target.rows))

\* rankCandidateByEstimator: what fits before what does not, then by score
RankedTiles(target, shape, score) ==
  ByKey(CandidatesOf(target, shape), LAMBDA t :
    <<IF Fits(target, t) THEN 0 ELSE 1, score[t], SramOf(t), -Volume(t),
      Distance(t.m, target.rows), Distance(t.n, target.cols), t.m, t.n>>)

-----------------------------------------------------------------------------
(* The units a tile splits a shape into *)

\* The parts of one axis: full ones, and one for what is left.
Parts(size, tile) ==
  (IF size \div tile > 0 THEN {[size |-> tile, count |-> size \div tile]} ELSE {})
  \cup (IF size % tile > 0 THEN {[size |-> size % tile, count |-> 1]} ELSE {})
\* splitIntoTileUnits, the most repeated one first
Units(shape, tile) ==
  LET all == {[m |-> a.size, n |-> b.size, k |-> c.size, repeats |-> a.count * b.count * c.count] :
                a \in Parts(shape.m, tile.m), b \in Parts(shape.n, tile.n),
                c \in Parts(shape.k, tile.k)}
  IN ByKey(all, LAMBDA u : <<-u.repeats, -Volume(u), u.m, u.n, u.k>>)

SumRepeats(shape, tile) == FoldLeft(LAMBDA s, u : s + u.repeats, 0, Units(shape, tile))

-----------------------------------------------------------------------------
(* The plan *)

Strategies == <<"no_tiling", "baseline_tiling", "recommended_tiling", "oracle_tiling">>

\* chooseTile; an imported result may name the recommended tile of a shape.
TileFor(target, shape, strategy, score, imported) ==
  CASE strategy = "no_tiling" -> shape
    [] strategy = "baseline_tiling" -> BaselineOf(target, shape)
    [] strategy = "recommended_tiling" /\ imported # <<>> -> Clamped(shape, imported[1])
    [] OTHER -> RankedTiles(target, shape, score)[1]

\* makePlan: target by target, shape by shape, strategy by strategy
Entry(target, shape, strategy, opts) ==
  LET tile == TileFor(Targets[target], Gemms[shape], strategy, opts.score, opts.imported)
      ranked == RankedTiles(Targets[target], Gemms[shape], opts.score)
  IN [target |-> target, shape |-> shape, strategy |-> strategy, tile |-> tile,
      estimated |-> opts.score[tile], repeats |-> SumRepeats(Gemms[shape], tile),
      tiles |-> IF strategy = "oracle_tiling"
                THEN SubSeq(ranked, 1, Min({OracleTopK, Len(ranked)})) ELSE <<tile>>]
Asked(opts) == IF opts.oracle THEN Strategies ELSE SubSeq(Strategies, 1, 3)
PlanOf(opts) ==
  FlattenSeq([t \in DOMAIN Targets |->
    FlattenSeq([s \in DOMAIN Gemms |->
      [i \in DOMAIN Asked(opts) |-> Entry(t, s, Asked(opts)[i], opts)]])])

VARIABLES
  opts,      \* the options, and what the estimator and the simulator say
  entries,   \* the entries
  xpc,       \* "plan", "entry", "unit", "dry", "done", "stopped"
  tried,     \* how many tiles of the entry have been measured
  unit,      \* the unit of the tile ...
  command,   \* ... and the command that is to run it
  cyclesSum, \* of the tile so far
  best,      \* the best tile of the entry: <<>> or <<[tile, cycles]>>
  results,   \* the rows of the results
  csv,       \* the rows in results.csv, and those of totals.csv
  bench,     \* of the TPU: its samples, rows, the rows on its disk, its totals
  faults     \* the runs and benchmarks that failed so far

xvars == <<opts, entries, xpc, tried, unit, command, cyclesSum, best, results, csv, bench,
           faults>>
tileState == <<tried, unit, command, cyclesSum, best>>

ExperimentInit ==
  /\ \E score \in TileScores, says \in UnitCycles, i, o, e \in BOOLEAN :
       opts = [score |-> score, says |-> says, oracle |-> o, external |-> e,
               imported |-> IF i THEN <<TileOf(2, 2, 1)>> ELSE <<>>]
  /\ entries = <<>> /\ xpc = "plan" /\ results = <<>>
  /\ tried = 0 /\ unit = 1 /\ command = 1 /\ cyclesSum = 0 /\ best = <<>>
  /\ csv = [rows |-> <<>>, totals |-> {}]
  /\ bench = [samples |-> <<>>, rows |-> <<>>, disk |-> <<>>, totals |-> {}, at |-> "off"]
  /\ faults = 0

\* The plan is saved; a dry run ends here.
MakePlan ==
  /\ xpc = "plan"
  /\ entries' = PlanOf(opts)
  /\ xpc' \in {"entry", "dry"}
  /\ UNCHANGED <<opts, tileState, results, csv, bench, faults>>

-----------------------------------------------------------------------------
(* The simulation *)

Current == entries[Len(results) + 1]
CurrentTile == Current.tiles[tried + 1]
CurrentUnits == Units(Gemms[Current.shape], CurrentTile)
TileStateStarts ==
  tried' = 0 /\ unit' = 1 /\ command' = 1 /\ cyclesSum' = 0 /\ best' = <<>>

StartEntry ==
  /\ xpc = "entry" /\ Len(results) < Len(entries)
  /\ xpc' = "unit"
  /\ UNCHANGED <<opts, entries, tileState, results, csv, bench, faults>>

UnitTotal(t, u) == u.repeats * opts.says[t][TileOf(u.m, u.n, u.k)]

\* runScaleSimUntilReport: a command leaves the report of the unit.
UnitReported ==
  /\ xpc = "unit" /\ unit <= Len(CurrentUnits)
  /\ cyclesSum' = cyclesSum + UnitTotal(Current.target, CurrentUnits[unit])
  /\ unit' = unit + 1 /\ command' = 1
  /\ UNCHANGED <<opts, entries, xpc, tried, best, results, csv, bench, faults>>

\* It fails or leaves none, and the next one is tried ...
CommandFails ==
  /\ xpc = "unit" /\ unit <= Len(CurrentUnits) /\ command < Commands
  /\ command' = command + 1
  /\ faults < MaxFaults /\ faults' = faults + 1
  /\ UNCHANGED <<opts, entries, xpc, tried, unit, cyclesSum, best, results, csv, bench>>

\* ... or none is left, and the entry has no result, whatever has been measured
\* of it.  Unless the option forbids it, the experiment goes on.
EntryFails ==
  /\ xpc = "unit" /\ unit <= Len(CurrentUnits) /\ command = Commands
  /\ faults < MaxFaults /\ faults' = faults + 1
  /\ results' = Append(results, [entry |-> Current, cycles |-> 0,
                           status |-> IF opts.external THEN "failed" ELSE "skipped"])
  /\ IF opts.external THEN xpc' = "stopped" /\ csv' = [csv EXCEPT !.rows = results']
     ELSE xpc' = "entry" /\ UNCHANGED csv
  /\ TileStateStarts
  /\ UNCHANGED <<opts, entries, bench>>

\* All units of a tile are measured: the next one, or the row of the entry.
TileMeasured ==
  /\ xpc = "unit" /\ unit > Len(CurrentUnits)
  /\ LET measured == [tile |-> CurrentTile, cycles |-> cyclesSum]
         kept == IF best = <<>> \/ measured.cycles < best[1].cycles THEN measured ELSE best[1]
     IN IF tried + 1 < Len(Current.tiles)
        THEN /\ best' = <<kept>> /\ tried' = tried + 1 /\ unit' = 1 /\ cyclesSum' = 0
             /\ UNCHANGED <<xpc, command, results>>
        ELSE /\ results' = Append(results, [entry |-> [Current EXCEPT
                             !.tile = kept.tile, !.estimated = opts.score[kept.tile],
                             !.repeats = SumRepeats(Gemms[Current.shape], kept.tile)],
                           cycles |-> kept.cycles, status |-> "ok"])
             /\ TileStateStarts /\ xpc' = "entry"
  /\ UNCHANGED <<opts, entries, csv, bench, faults>>

\* resultRowsToCsv: a row is compared with the untiled one of its target and shape.
UntiledOf(row) ==
  {r \in ToSet(results) : /\ r.entry.strategy = "no_tiling" /\ r.cycles > 0
                       /\ r.entry.target = row.entry.target /\ r.entry.shape = row.entry.shape}

\* totalsCsv: the cycles of a target and strategy, and how many entries are in them
TotalsOf(all, field) ==
  {LET group == SelectSeq(all, LAMBDA r : r.entry.target = t /\ r.entry.strategy = s)
   IN [target |-> t, strategy |-> s,
       sum |-> FoldLeft(LAMBDA a, r : a + r[field], 0, group),
       ok |-> Len(SelectSeq(group, LAMBDA r : r.status = "ok")), count |-> Len(group)]
   : t \in {r.entry.target : r \in ToSet(all)}, s \in {r.entry.strategy : r \in ToSet(all)}}

ExperimentEnds ==
  /\ xpc = "entry" /\ Len(results) = Len(entries)
  /\ csv' = [rows |-> results, totals |-> TotalsOf(results, "cycles")]
  /\ xpc' = "done"
  /\ UNCHANGED <<opts, entries, tileState, results, bench, faults>>

-----------------------------------------------------------------------------
(* The benchmark on a TPU, of the plan a dry run leaves *)

\* load_samples: of one target or strategy or of all, and the first few of them
BenchStarts ==
  /\ xpc = "dry" /\ bench.at = "off"
  /\ \E target \in {0} \cup DOMAIN Targets, strategy \in {""} \cup ToSet(Strategies),
        limit \in {0, 3} :
       LET chosen == SelectSeq(entries, LAMBDA e : /\ target \in {0, e.target}
                                                /\ strategy \in {"", e.strategy})
           samples == IF limit > 0 THEN SubSeq(chosen, 1, Min({limit, Len(chosen)})) ELSE chosen
       IN bench' = [bench EXCEPT !.samples = samples,
                                 !.at = IF samples = <<>> THEN "nothing" ELSE "measure"]
  /\ UNCHANGED <<opts, entries, xpc, tileState, results, csv, faults>>

\* benchmark_one: too large, measured, or failed, which ends nothing.
BenchSample ==
  /\ bench.at = "measure" /\ Len(bench.rows) < Len(bench.samples)
  /\ LET e == bench.samples[Len(bench.rows) + 1]
         shape == Gemms[e.shape]
         row(status, time) == [entry |-> e, status |-> status, time |-> time]
     IN \/ /\ SramOf(shape) > MaxElements
           /\ bench' = [bench EXCEPT !.rows = Append(@, row("skipped", 0)), !.at = "save"]
           /\ UNCHANGED faults
        \/ /\ SramOf(shape) <= MaxElements
           /\ bench' = [bench EXCEPT !.rows = Append(@, row("ok", opts.says[e.target][e.tile])),
                                     !.at = "save"]
           /\ UNCHANGED faults
        \/ /\ SramOf(shape) <= MaxElements
           /\ faults < MaxFaults /\ faults' = faults + 1
           /\ bench' = [bench EXCEPT !.rows = Append(@, row("failed", 0)), !.at = "save"]
  /\ UNCHANGED <<opts, entries, xpc, tileState, results, csv>>

\* Every row is saved before the next sample ...
BenchSave ==
  /\ bench.at = "save"
  /\ bench' = [bench EXCEPT !.disk = bench.rows, !.at = "measure"]
  /\ UNCHANGED <<opts, entries, xpc, tileState, results, csv, faults>>

\* ... so that the TPU may go away, and aggregate_totals comes last.
BenchDies ==
  /\ bench.at \in {"measure", "save"} /\ faults < MaxFaults /\ faults' = faults + 1
  /\ bench' = [bench EXCEPT !.at = "dead"]
  /\ UNCHANGED <<opts, entries, xpc, tileState, results, csv>>
BenchEnds ==
  /\ bench.at = "measure" /\ Len(bench.rows) = Len(bench.samples)
  /\ bench' = [bench EXCEPT !.at = "done",
       !.totals = {g \in TotalsOf(bench.rows, "time") : g.ok > 0}]
  /\ UNCHANGED <<opts, entries, xpc, tileState, results, csv, faults>>

ExperimentNext ==
  \/ MakePlan \/ StartEntry \/ UnitReported \/ CommandFails \/ EntryFails \/ TileMeasured
  \/ ExperimentEnds
  \/ BenchStarts \/ BenchSample \/ BenchSave \/ BenchDies \/ BenchEnds
-----------------------------------------------------------------------------
(* Properties *)

\* (the plan, once made, never changes)
JustPlanned == xpc = "dry" /\ bench.at = "off"
\* What the scripts keep has the shape their files rely on.
TilingTypeOK ==
  /\ xpc \in {"plan", "entry", "unit", "dry", "done", "stopped"}
  /\ Len(results) <= Len(entries) /\ command \in 1..Commands /\ cyclesSum \in Nat
  /\ JustPlanned => \A e \in ToSet(entries) : e.tile \in ToSet(e.tiles)
  /\ \A r \in ToSet(results) : r.status \in {"ok", "skipped", "failed"} /\ r.cycles \in Nat
  /\ bench.at \in {"off", "nothing", "measure", "save", "dead", "done"}

\* splitIntoTileUnits: the units are parts of the tile, and all their repetitions
\* together are the shape, no more and no less, as often as tiles cover it.
UnitsAreShape ==
  JustPlanned => \A e \in ToSet(entries) : \A t \in ToSet(e.tiles) :
    LET shape == Gemms[e.shape]
        units == Units(shape, t)
    IN /\ FoldLeft(LAMBDA a, u : a + u.repeats * Volume(u), 0, units) = Volume(shape)
       /\ SumRepeats(shape, t) = UpDiv(shape.m, t.m) * UpDiv(shape.n, t.n) * UpDiv(shape.k, t.k)
       /\ \A u \in ToSet(units) : u.m <= t.m /\ u.n <= t.n /\ u.k <= t.k

\* makeTargetAwareCandidates: only the untiled shape may exceed the memory of its
\* target, and never as the recommended tile when any tile fits; of those that fit,
\* the recommended one scores best, and is the first the oracle tries.
CandidatesFit ==
  JustPlanned => \A e \in ToSet(entries) :
    LET target == Targets[e.target]
        shape == Gemms[e.shape]
        chosen == e.strategy = "oracle_tiling"
                  \/ (e.strategy = "recommended_tiling" /\ opts.imported = <<>>)
    IN chosen =>
         /\ \A t \in ToSet(e.tiles) : Fits(target, t) \/ t = shape
         /\ (\E t \in CandidatesOf(target, shape) : Fits(target, t)) =>
              /\ Fits(target, e.tile)
              /\ \A t \in CandidatesOf(target, shape) :
                   Fits(target, t) => opts.score[e.tile] <= opts.score[t]
         /\ e.tile = e.tiles[1]

TimeOf(target, shape, tile) ==
  FoldLeft(LAMBDA a, u : a + UnitTotal(target, u), 0, Units(shape, tile))
\* Every row saved is of its entry, and tells the tile it is a measurement of: its size,
\* its estimate, its units and their cycles.
RowsAreMeasured ==
  \A i \in DOMAIN csv.rows :
    LET row == results[i]
        e == row.entry
    IN /\ e.target = entries[i].target /\ e.shape = entries[i].shape /\ e.strategy = entries[i].strategy
       /\ row.status = "ok" =>
            /\ e.tile \in ToSet(entries[i].tiles) /\ e.estimated = opts.score[e.tile]
            /\ e.repeats = SumRepeats(Gemms[e.shape], e.tile)
            /\ row.cycles = FoldLeft(LAMBDA a, u : a + u.repeats * opts.says[e.target][TileOf(u.m, u.n, u.k)],
                                     0, Units(Gemms[e.shape], e.tile))
       /\ row.status # "ok" => row.cycles = 0

\* The oracle is the fastest of the tiles it tried, so that a tile recommended for
\* the target, being one of them, is never measured to be faster.
OracleIsFastest ==
  \A i \in DOMAIN csv.rows :
    results[i].status = "ok" /\ results[i].entry.strategy = "oracle_tiling" =>
      /\ \A t \in ToSet(entries[i].tiles) :
           results[i].cycles <= TimeOf(entries[i].target, Gemms[entries[i].shape], t)
      /\ \A r \in ToSet(results) :
           (/\ opts.imported = <<>> /\ r.status = "ok"
            /\ r.entry.strategy = "recommended_tiling"
            /\ r.entry.target = entries[i].target /\ r.entry.shape = entries[i].shape)
           => results[i].cycles <= r.cycles

\* Nothing is saved before the experiment is over.  Then every entry has its row,
\* unless one failed that was required: it is the last one, and there are no totals.
ResultsAreWhole ==
  /\ xpc \in {"plan", "entry", "unit", "dry"} => csv = [rows |-> <<>>, totals |-> {}]
  /\ xpc \in {"done", "stopped"} => csv.rows = results
  /\ xpc = "done" => Len(results) = Len(entries) /\ \A r \in ToSet(results) : r.status # "failed"
  /\ xpc = "stopped" => /\ results[Len(results)].status = "failed" /\ csv.totals = {}
                        /\ \A i \in 1..(Len(results) - 1) : results[i].status = "ok"

\* The speedup of a row compares it with one row, of the untiled shape itself.
SpeedupsCompareAlike ==
  \A r \in ToSet(csv.rows) :
    /\ Cardinality(UntiledOf(r)) <= 1
    /\ \A base \in UntiledOf(r) :
         /\ base.entry.tile = Gemms[r.entry.shape]
         /\ base.cycles = TimeOf(r.entry.target, Gemms[r.entry.shape], Gemms[r.entry.shape])

\* Whenever the TPU goes away, every sample it finished but the last is on its disk,
\* those that failed too, each in the row of its sample.
BenchIsKept ==
  /\ Len(bench.disk) \in {Len(bench.rows), Len(bench.rows) - 1}
  /\ \A i \in DOMAIN bench.disk : bench.disk[i] = bench.rows[i]
  /\ \A i \in DOMAIN bench.rows : bench.rows[i].entry = bench.samples[i]
  /\ bench.at = "done" => Len(bench.disk) = Len(bench.samples)

SumOf(groups, field) == FoldSet(LAMBDA g, a : a + g[field], 0, groups)
\* The totals of an experiment are of all its entries and of all their cycles, and
\* those of a benchmark of nothing but what was measured.
TotalsAgree ==
  /\ xpc = "done" =>
       /\ SumOf(csv.totals, "count") = Len(entries)
       /\ SumOf(csv.totals, "sum") = FoldLeft(LAMBDA a, r : a + r.cycles, 0, results)
  /\ bench.at = "done" => \A g \in bench.totals : g.ok <= g.count /\ g.sum >= g.ok
=============================================================================
