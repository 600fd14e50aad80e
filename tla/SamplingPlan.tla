---------------------------- MODULE SamplingPlan ----------------------------
(***************************************************************************)
(* lib/estimatorSamplingPlan.ts: a plan picks combinations of array, SRAM, *)
(* shape and dataflow by a stride through all of them, takes the best tiles*)
(* of each, and is queued as one job per row.  Values are 1..n, in the     *)
(* order in which the parsed ranges give them.                             *)
(***************************************************************************)
EXTENDS Integers, Sequences, FiniteSets

CONSTANTS
  MaxAxis,       \* bound: values per axis
  MaxTiles,      \* bound: tile candidates
  MaxPlanRows    \* bound: maxSamples and queueLimit

ASSUME PlanAssumption ==
  MaxAxis \in Nat \ {0} /\ MaxTiles \in Nat \ {0} /\ MaxPlanRows \in Nat \ {0}

Axes == {"array", "sram", "shape", "flow"}

VARIABLES
  axis,        \* how many values each axis has
  plan,        \* [tiles, topK, maxSamples, queueLimit] of the request
  pick,        \* the loop of buildEstimatorSamplingPlan
  planRows,    \* its rows: [combo, tile]
  queued       \* the rows that became jobs, or {} before

plvars == <<axis, plan, pick, planRows, queued>>

\* A range that was given but has no positive value leaves its axis, or the tiles,
\* without values (parsePlanRange, parseArrayRange), and a request without shapes of
\* its own, of the bank or of ranges has no shapes; a dataflow there always is.
PlanInit ==
  /\ axis \in {f \in [Axes -> 0..MaxAxis] : f["flow"] > 0}
  /\ plan \in [tiles : 0..MaxTiles, topK : 1..2, maxSamples : 1..MaxPlanRows,
               queueLimit : {1, MaxPlanRows}]
  /\ pick = 0 /\ planRows = <<>> /\ queued = {}

Least2(a, b) == IF a <= b THEN a ELSE b
Most2(a, b) == IF a >= b THEN a ELSE b

totalCombos == axis["array"] * axis["sram"] * axis["shape"] * axis["flow"]

CommonDivisor(a, b) == \E d \in 2..a : a % d = 0 /\ b % d = 0

\* Fault: any stride will do.
CoprimeStrideNot(total) == IF total <= 2 THEN 1 ELSE Most2(1, (total * 61803) \div 100000)

\* coprimeStride: the largest odd number up to about 0.618 of the total that has no
\* divisor in common with it.
CoprimeStride(total) ==
  IF total <= 2 THEN 1
  ELSE LET golden == (total * 61803) \div 100000
           start == IF golden % 2 = 0 THEN golden + 1 ELSE golden
           odd == {s \in 1..Most2(1, start) : s % 2 = 1 /\ ~CommonDivisor(s, total)} IN
       CHOOSE s \in odd : \A t \in odd : t <= s

\* Fault: the budget of combinations is rounded down.
ComboBudgetDown == Least2(totalCombos, plan.maxSamples \div plan.topK)

ComboBudget ==
  Least2(totalCombos, (plan.maxSamples + plan.topK - 1) \div plan.topK)

\* The combination of the p-th pick: its digits are the dataflow, the shape, the SRAM
\* and the array.
Combo(p) ==
  LET c == (p * CoprimeStride(totalCombos)) % totalCombos
      perShape == axis["flow"]
      perSram == perShape * axis["shape"]
      perArray == perSram * axis["sram"] IN
  [flow |-> (c % axis["flow"]) + 1,
   shape |-> ((c \div perShape) % axis["shape"]) + 1,
   sram |-> ((c \div perSram) % axis["sram"]) + 1,
   array |-> ((c \div perArray) % axis["array"]) + 1]

\* Fault: the rows of a combination are added before the limit is looked at.
RowsOfPickAll(p) ==
  [t \in 1..Least2(plan.topK, plan.tiles) |-> [combo |-> Combo(p), tile |-> t]]

\* The best tiles of a pick (1 has the best score), as many as there is room for.
RowsOfPick(p) ==
  [t \in 1..Least2(Least2(plan.topK, plan.tiles), plan.maxSamples - Len(planRows)) |->
     [combo |-> Combo(p), tile |-> t]]

PickMore == pick < ComboBudget /\ Len(planRows) < plan.maxSamples

Pick ==
  /\ PickMore
  /\ planRows' = planRows \o RowsOfPick(pick)
  /\ pick' = pick + 1
  /\ UNCHANGED <<axis, plan, queued>>

\* plan-and-queue: a job for each of the first rows, in one go.
QueuePlan ==
  /\ ~PickMore /\ queued = {}
  /\ queued' = 1..Least2(plan.queueLimit, Len(planRows))
  /\ UNCHANGED <<axis, plan, pick, planRows>>

PlanNext == Pick \/ QueuePlan

-----------------------------------------------------------------------------
(* Properties *)

\* A plan keeps to its budget, queues only rows of its own, and is empty in the end
\* only if an axis or the tiles have no values (buildEstimatorSamplingPlan and the
\* route that queues its rows).
PlanTypeOK ==
  /\ pick \in Nat /\ Len(planRows) <= plan.maxSamples
  /\ queued \subseteq DOMAIN planRows
  /\ ~PickMore => (planRows = <<>> <=> totalCombos = 0 \/ plan.tiles = 0)

\* The stride visits no combination twice: no two rows of a plan are the same
\* measurement.
RowsAreDistinct ==
  \A i, j \in DOMAIN planRows : planRows[i] = planRows[j] => i = j

\* A finished plan has every row it is allowed to have, if there are tiles enough,
\* and covers every combination when they all fit and there is a tile.
PlanIsFull ==
  ~PickMore =>
    /\ plan.tiles >= plan.topK =>
         Len(planRows) = Least2(plan.maxSamples, totalCombos * plan.topK)
    /\ plan.tiles > 0 /\ totalCombos * plan.topK <= plan.maxSamples =>
         Cardinality({planRows[i].combo : i \in DOMAIN planRows}) = totalCombos
=============================================================================
