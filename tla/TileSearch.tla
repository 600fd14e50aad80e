---------------------------- MODULE TileSearch ----------------------------
(***************************************************************************)
(* lib/estimator.ts: estimateAll searches the best tile of every shape of  *)
(* a request, or takes it over from an equal shape it has searched already.*)
(* The search prunes the tiles (lib/pruning.ts), with relaxed rules when   *)
(* the strict ones leave nothing, and streams the estimates of the rest    *)
(* through two heaps and a reservoir.                                      *)
(*                                                                         *)
(* A tile has a score, of which less is better, and two of the four costs  *)
(* of the Pareto comparison; which values they take is arbitrary.          *)
(***************************************************************************)
EXTENDS TopKHeap, FiniteSets

CONSTANTS
  TileCount,   \* the tiles of a request are 1..TileCount, in generation order
  maxKeep,     \* maxResultsPerOp
  poolKeep,    \* how many candidates compete for the Pareto front
  heatmapMax,  \* TILEFORGE_HEATMAP_MAX_POINTS
  ShapeCount   \* the shapes of a request are 1..ShapeCount

ASSUME TileAssumption ==
  /\ TileCount \in Nat \ {0} /\ ShapeCount \in Nat /\ heatmapMax \in Nat
  /\ maxKeep \in Nat \ {0} /\ poolKeep \in Nat /\ maxKeep <= poolKeep

TileIds == 1..TileCount
ShapeIds == 1..ShapeCount

VARIABLES
  sizes,     \* the size of each shape (1 is that of the first): equal shapes have one search
  shapeAt,   \* the shape estimateAll is at
  kept,      \* the tiles the pruning keeps; "no" before
  estimated, \* the tiles 1..estimated have been pruned or estimated
  value,     \* the estimates: a function of tiles to records
  top, paretoPool, heatmap,
  found      \* for each shape done, whose names its parts bear

srvars == <<sizes, shapeAt, kept, estimated, value, top, paretoPool, heatmap, found>>

SearchInit ==
  /\ sizes \in {z \in [ShapeIds -> 1..2] : z[1] = 1}
  /\ shapeAt = 1
  /\ kept = {0}
  /\ estimated = 0
  /\ value = <<>>
  /\ top = <<>> /\ paretoPool = <<>> /\ heatmap = <<>>
  /\ found = <<>>

\* An earlier shape of the size of shape s, if there is one.
Hits(s) == {e \in 1..s - 1 : sizes[e] = sizes[s]}

\* Fault: a result that was taken over keeps the names of its shape.
NamesOnHitKept(s, e) == [best |-> found[e].best, candidates |-> found[e].candidates,
                         pareto |-> found[e].pareto]

\* What a result that was taken over is named after: the Pareto front is not
\* renamed.
NamesOnHit(s, e) == [best |-> s, candidates |-> s, pareto |-> found[e].pareto]

TakeOver ==
  /\ shapeAt \in ShapeIds /\ kept = {0}
  /\ Hits(shapeAt) # {}
  /\ found' = Append(found, NamesOnHit(shapeAt, CHOOSE e \in Hits(shapeAt) : TRUE))
  /\ shapeAt' = shapeAt + 1
  /\ UNCHANGED <<sizes, kept, estimated, value, top, paretoPool, heatmap>>

\* Fault: the strict rules have the last word.
KeepsStrictly(strict) == strict

\* The tiles to estimate, given those the strict rules keep.
Keeps(strict) == IF strict = {} THEN TileIds ELSE strict

Prune ==
  /\ shapeAt \in ShapeIds /\ kept = {0}
  /\ Hits(shapeAt) = {}
  /\ \E strict \in SUBSET TileIds : kept' = Keeps(strict)
  /\ UNCHANGED <<sizes, shapeAt, estimated, value, top, paretoPool, heatmap, found>>

\* The values a tile may have. compareCandidates ends with the tile itself,
\* larger tiles first, so that no two tiles are equal.
Estimates(t) ==
  {[tile |-> t, rank |-> s * (TileCount + 1) - t, cycles |-> c, sram |-> m] :
     s \in 1..2, c \in 1..2, m \in 1..2}

\* One turn of the loop over the tiles.
EstimateTile ==
  /\ kept # {0} /\ estimated < TileCount
  /\ estimated' = estimated + 1
  /\ IF estimated + 1 \in kept
     THEN \E v \in Estimates(estimated + 1) :
            /\ value' = Append(value, v)
            /\ top' = PushTop(top, v, maxKeep)
            /\ paretoPool' = PushTop(paretoPool, v, poolKeep)
            /\ heatmap' \in PushSample(heatmap, Len(value), v.tile, heatmapMax)
     ELSE UNCHANGED <<value, top, paretoPool, heatmap>>
  /\ UNCHANGED <<sizes, shapeAt, kept, found>>

\* An estimate is as good in all and better in one.
Dominates(b, a) ==
  /\ b.cycles <= a.cycles /\ b.sram <= a.sram
  /\ b.cycles < a.cycles \/ b.sram < a.sram

\* Fault: a candidate survives when any other is not better than it.
MarkParetoSome(h) == {a \in Items(h) : \E b \in Items(h) : ~Dominates(b, a)}

\* The candidates of the pool no other one dominates.
MarkPareto(h) == {a \in Items(h) : ~\E b \in Items(h) : Dominates(b, a)}

\* toSorted()[0]
Best == CHOOSE a \in Items(top) : \A b \in Items(top) : ~Worse(a, b)

searched == kept # {0} /\ estimated = TileCount

\* The end of a search.  (Without any tile it would throw; the schema of a
\* request asks for one at least.)
FinishShape ==
  /\ searched /\ top # <<>>
  /\ found' = Append(found, [best |-> shapeAt, candidates |-> shapeAt, pareto |-> shapeAt])
  /\ shapeAt' = shapeAt + 1
  /\ kept' = {0} /\ estimated' = 0
  /\ value' = <<>> /\ top' = <<>> /\ paretoPool' = <<>> /\ heatmap' = <<>>
  /\ UNCHANGED sizes

SearchNext == TakeOver \/ Prune \/ EstimateTile \/ FinishShape

-----------------------------------------------------------------------------
(* Properties *)

\* The names of finished shapes are shapes, and the samples are tiles.
SearchTypeOK ==
  /\ Len(found) = shapeAt - 1
  /\ \A s \in DOMAIN found : \A part \in DOMAIN found[s] : found[s][part] \in ShapeIds
  /\ Items(heatmap) \subseteq kept
  /\ Len(top) <= maxKeep /\ Len(paretoPool) <= poolKeep

\* At every moment each heap holds the best k of all estimates so far, and a root
\* that is the worst of them (a TopK never sees the dropped ones again).
KeepsBest(h, k) ==
  /\ Len(h) = IF Len(value) < k THEN Len(value) ELSE k
  /\ \A a \in Items(h), b \in Items(value) \ Items(h) : Worse(b, a)
  /\ \A i \in DOMAIN h : ~Worse(h[i], h[1])
HeapKeepsBest == KeepsBest(top, maxKeep) /\ KeepsBest(paretoPool, poolKeep)

\* A search comes up with a tile, however strict the rules, and with one that
\* nothing it estimated is better than.
BestIsBest ==
  searched => /\ top # <<>>
              /\ \A v \in Items(value) : ~Worse(Best, v)

\* When every estimate had room in the pool, the Pareto front is that of all
\* the estimates; what it may not show for lack of room is never the best tile
\* of all, unless that one is dominated itself.
FrontIsFront ==
  searched =>
    /\ Len(value) <= poolKeep =>
         MarkPareto(paretoPool) =
           {a \in Items(value) : \A b \in Items(value) : ~Dominates(b, a)}
    /\ (\A b \in Items(value) : ~Dominates(b, Best)) => Best \in MarkPareto(paretoPool)

\* The heatmap shows each estimate at most once and as many as it has room for.
SampleIsFair ==
  /\ Len(heatmap) = IF Len(value) < heatmapMax THEN Len(value) ELSE heatmapMax
  /\ \A i, j \in DOMAIN heatmap : heatmap[i] = heatmap[j] => i = j

\* The best tile and the candidates of a shape bear its own names, whoever was
\* searched for them.
NamesAreOwn ==
  \A s \in DOMAIN found : found[s].best = s /\ found[s].candidates = s
=============================================================================
