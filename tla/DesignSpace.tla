---------------------------- MODULE DesignSpace ----------------------------
(***************************************************************************)
(* The design-space sweep: every axis of a request is scaled by its        *)
(* factors, the estimates become rows, the rows are ranked, and the next   *)
(* ones to validate are selected, expanded to a plan and turned back into  *)
(* requests.  Factors, speedups, costs and confidences are in hundredths,  *)
(* recommendations in ten-thousandths; the exponent of a cost is rounded,  *)
(* and the share of the mean utilization in the scores is left out.        *)
(***************************************************************************)
EXTENDS Integers, FiniteSets, FiniteSetsExt, Sequences, SequencesExt

CONSTANTS
  SweepFactors,     \* the factors of every axis
  BaseRequest,      \* the sizes every axis scales: two of an array, one of every
                    \* shape, else one; that of dram is 0 when no bandwidth is set
  NeededSram,       \* what the estimate needs, in the unit of sram
  CycleCounts,      \* the estimates of a request range over these
  Reaches,          \* an active suite distrusts factors beyond its reach
  SeedLimit, PlanTarget, Radius

SweepAxes == DOMAIN SweepFactors
ShapeAxes == {"shape-m", "shape-n", "shape-k"}
AxisOrder == <<"array", "dram", "frequency", "shape-k", "shape-m", "shape-n", "sram">>
AxisIndex(a) == CHOOSE i \in DOMAIN AxisOrder : AxisOrder[i] = a
Over(x) == Max({0, x - 100})
\* The members of a set in the strict order before.
Ordered(S, before(_, _)) ==
  [i \in 1..Cardinality(S) |->
     CHOOSE x \in S : Cardinality({y \in S : before(y, x)}) = i - 1]
Within(lo, x, hi) == Max({lo, Min({x, hi})})

-----------------------------------------------------------------------------
(* Requests *)

\* Math.max(1, Math.round(size * f))
Resize(size, f) == Max({1, (size * f + 50) \div 100})

\* The request of a factor of an axis, in the sweep and again for a row of a plan
\* (requestForDesignSweepRow); bandwidth that is not set counts as 100.
ScaledRequest(a, f) ==
  [BaseRequest EXCEPT ![a] =
     [i \in DOMAIN @ |-> Resize(IF a = "dram" /\ @[i] = 0 THEN 100 ELSE @[i], f)]]

Swept == {BaseRequest} \cup
         UNION {{ScaledRequest(a, f) : f \in SweepFactors[a]} : a \in SweepAxes}

\* The nearest hundredth of the square root of n / d.
RootRatio(n, d) ==
  CHOOSE x \in 1..1000 : /\ (2 * x - 1) * (2 * x - 1) * d <= 40000 * n
                         /\ (2 * x + 1) * (2 * x + 1) * d > 40000 * n
\* Fault: the label's factor is kept.
NominalFactor(a, f) == f
\* workloadOps, and what a shape weighs in the factor of the shapes
WorkOf(r, i) == r["shape-m"][i] * r["shape-n"][i] * r["shape-k"][i]
SweptShapes == DOMAIN BaseRequest["shape-m"]
WorkloadOps(r) == MapThenSumSet(LAMBDA i : WorkOf(r, i), SweptShapes)
\* What the factor came to once the sizes were rounded.
EffectiveFactor(a, f) ==
  LET now == ScaledRequest(a, f)[a]
      old == BaseRequest[a]
      nearest(n, d) == (200 * n + d) \div (2 * d)
      weighed(sizes) == MapThenSumSet(LAMBDA i : sizes[i] * WorkOf(BaseRequest, i), SweptShapes)
  IN CASE a = "array" -> RootRatio(now[1] * now[2], old[1] * old[2])
       [] a = "dram" -> f
       [] a \in ShapeAxes -> nearest(weighed(now), weighed(old))
       [] OTHER -> nearest(now[1], old[1])

-----------------------------------------------------------------------------
(* Rows *)

AxisCost(a, x) ==
  CASE a = "array" -> (x * x) \div 100 [] a \in ShapeAxes -> 100 [] OTHER -> x

\* makeRow: speedups are relative to the estimate of the base request, except that
\* a row of factor 1 has speedup 1 whatever its estimate says.
MakeRow(a, f, cycles, reach) ==
  LET x == EffectiveFactor(a, f)
      request == ScaledRequest(a, f)
      ops == (100 * WorkloadOps(request)) \div WorkloadOps(BaseRequest)
      base == x = 100
      speedup == IF base THEN 100 ELSE (ops * cycles[BaseRequest]) \div cycles[request]
      cost == AxisCost(a, x)
      overflow == (100 * Max({0, NeededSram - request.sram[1]})) \div request.sram[1]
      score == CASE a = "sram" -> speedup + (22 * (100 - cost)) \div 100
                                  - (145 * overflow) \div 100
                 [] a = "dram" -> (10000 * speedup) \div (10000 + 28 * Over(cost))
                                  - overflow \div 4
                 [] OTHER -> (10000 * speedup) \div (10000 + 42 * Over(cost)) - overflow \div 4
  IN [axis |-> a, x |-> x, base |-> base, speedup |-> speedup, work |-> ops, cost |-> cost,
      tops |-> (ops * request.frequency[1]) \div cycles[request], score |-> Max({1, score}),
      overflow |-> overflow, conf |-> IF x > reach THEN 50 ELSE 100]

\* dedupeAxisRows: one row of every rounded factor.  Rows of one factor differ
\* only in their label here, as their estimates and their confidence are the same.
DedupedRows(cycles, reach) ==
  UNION {{MakeRow(a, f, cycles, reach) : f \in SweepFactors[a]} : a \in SweepAxes}

\* estimateDesignUncertaintyPct
Uncertainty(r) ==
  Within(5, 5 + (38 * (100 - r.conf)) \div 100 + Min({18, (14 * r.overflow) \div 100})
              + (IF r.conf < 80 THEN 8 ELSE 0)
              + Min({10, (2 * Over(r.cost) + 3 * Over(r.work)) \div 100}), 65)

\* metricMax: the best of an axis
AxisMax(field, r, rows) == Max({q[field] : q \in {p \in rows : p.axis = r.axis}} \cup {1})

\* The consensus of an axis, its return on investment and what is recommended.
Agreement(r, rows) ==
  Min({(100 * r[field]) \div AxisMax(field, r, rows) : field \in {"speedup", "tops", "score"}})
\* Fault: what is spared counts as an investment too.
ExpansionEitherWay(r) == 10000 + 35 * (IF r.cost < 100 THEN 100 - r.cost ELSE r.cost - 100)
Expansion(r) == 10000 + 35 * Over(r.cost) + 15 * Over(r.work)
Recommendation(r, rows) ==
  LET trust == 55 + (45 * r.conf) \div 100
      agreement == Agreement(r, rows)
  IN (trust * (68 * agreement + (32 * agreement * 100 * trust) \div Expansion(r))) \div 100
RiskAdjusted(r, rows) ==
  (Recommendation(r, rows) * (1000 - Within(40, (1000 * Uncertainty(r)) \div 140, 480))) \div 1000
RiskSpeedup(r) == (100 * r.speedup) \div (100 + Uncertainty(r))

\* The rows of an axis from the smallest factor to the largest, what every step
\* gained for its cost, and the point where that flattens.
AxisRows(a, rows) == Ordered({r \in rows : r.axis = a}, LAMBDA p, q : p.x < q.x)
Margin(s, i) ==
  LET spent == IF s[i].cost # s[i - 1].cost THEN s[i].cost - s[i - 1].cost
               ELSE s[i].work - s[i - 1].work
  IN IF spent > 0 THEN (100 * Max({0, s[i].speedup - s[i - 1].speedup})) \div spent ELSE 0
Effort(r) == IF r.cost # 100 THEN r.cost ELSE r.work
Elbow(s, i) ==
  LET effort == {Effort(s[k]) : k \in DOMAIN s}
      speeds == {s[k].speedup : k \in DOMAIN s}
  IN (1000 * (s[i].speedup - Min(speeds))) \div Max({1, Max(speeds) - Min(speeds)})
     - (1000 * (Effort(s[i]) - Min(effort))) \div Max({1, Max(effort) - Min(effort)})
KneeIndex(s) ==
  LET gains == {i \in 2..Len(s) : Margin(s, i) > 0}
      flat == {i \in 2..Len(s) : 100 * Margin(s, i) <= 35 * Margin(s, Min(gains))}
      elbows == {i \in 2..(Len(s) - 1) : Elbow(s, i) > 0}
      best == {i \in elbows : \A k \in elbows : Elbow(s, k) <= Elbow(s, i)}
  IN IF gains # {} /\ flat # {} THEN Min(flat)
     ELSE IF Len(s) >= 4 /\ elbows # {} THEN Min(best) ELSE 0
IsKnee(r, rows) == LET s == AxisRows(r.axis, rows) IN
  KneeIndex(s) # 0 /\ s[KneeIndex(s)] = r

\* attachRecommendationScores
Ranked(rows) ==
  {LET rec == Recommendation(r, rows)
       best == Max({Recommendation(q, rows) : q \in {p \in rows : p.axis = r.axis}} \cup {1})
       knee == IsKnee(r, rows)
   IN [row |-> r, rec |-> rec, riskRec |-> RiskAdjusted(r, rows), riskSpeed |-> RiskSpeedup(r),
       agreement |-> Agreement(r, rows), knee |-> knee, select |-> 0,
       priority |-> Within(0, (38 * Uncertainty(r)) \div 65 + (28 * rec) \div best
                              + (18 * (100 - r.conf)) \div 100 + Min({100, r.overflow}) \div 10
                              + (IF knee THEN 6 ELSE 0), 100)]
   : r \in rows}

DominatesRow(p, q) ==
  /\ p.speedup >= q.speedup /\ p.tops >= q.tops /\ p.score >= q.score /\ p.cost <= q.cost
  /\ p.speedup > q.speedup \/ p.tops > q.tops \/ p.score > q.score \/ p.cost < q.cost
ParetoRows(ranked) == {p \in ranked : ~\E q \in ranked : DominatesRow(q.row, p.row)}

-----------------------------------------------------------------------------
(* What to validate next *)

\* compareDesignRows, in the order of the rows where it decides nothing.
Precedes(p, q) ==
  LET key(r) == <<-r.rec, -r.riskRec, -r.agreement, -r.row.score, -r.row.speedup,
                  AxisIndex(r.row.axis), r.row.x>>
  IN \E i \in 1..7 : key(p)[i] < key(q)[i] /\ \A k \in 1..(i - 1) : key(p)[k] = key(q)[k]

\* validationSelectionScores: the rows with theirs, 0 for the base
Scored(ranked) ==
  LET others == {q \in ranked : ~q.row.base}
      bestRec == Max({q.riskRec : q \in others} \cup {1})
      bestSpeed == Max({q.riskSpeed : q \in others} \cup {1})
      pareto == ParetoRows(ranked)
      score(r) == 540 * r.priority + (20000 * r.riskRec) \div bestRec
                  + (8000 * r.riskSpeed) \div bestSpeed + (IF r \in pareto THEN 8000 ELSE 0)
                  + (IF r.knee THEN 6000 ELSE 0) + (IF r.row.conf < 80 THEN 4000 ELSE 0)
  IN {[r EXCEPT !.select = IF r.row.base THEN 0 ELSE score(r)] : r \in ranked}
Candidates(ranked) ==
  Ordered({r \in ranked : ~r.row.base}, LAMBDA p, q :
    p.select > q.select \/ (p.select = q.select /\ Precedes(p, q)))

\* |log(x / y)| < 0.08
NearDuplicate(r, selected) ==
  \E p \in selected : /\ p.row.axis = r.row.axis
                      /\ 1000 * Max({p.row.x, r.row.x}) < 1083 * Min({p.row.x, r.row.x})

-----------------------------------------------------------------------------
VARIABLES
  cycles,    \* [Swept -> CycleCounts], the estimates
  reach,     \* of the active suite
  ranked,    \* the rows with their recommendations
  dpc,       \* the step of the computation
  todo,      \* the candidates its pass has still to look at
  selected,  \* the rows to validate next, in order
  planned,   \* the plan they are expanded to
  step       \* the round of synthetic rows

dsvars == <<cycles, reach, ranked, dpc, todo, selected, planned, step>>

Passes == <<"axes", "apart", "any">>

DesignInit ==
  /\ cycles \in [Swept -> CycleCounts] /\ reach \in Reaches
  /\ ranked = {} /\ dpc = "sweep" /\ todo = <<>> /\ selected = <<>>
  /\ planned = <<>> /\ step = 1

\* buildDesignSpaceRows, and the order validationDesignRows looks at the rows in
RankRows ==
  /\ dpc = "sweep"
  /\ ranked' = Scored(Ranked(DedupedRows(cycles, reach)))
  /\ todo' = Candidates(ranked') /\ dpc' = "axes"
  /\ UNCHANGED <<cycles, reach, selected, planned, step>>

\* Fault: the second pass forgets the axes of the first.
EligibleWhenNew(r) == r \notin ToSet(selected)
\* One row of every axis, then rows that are apart, then any.
Eligible(r) ==
  CASE dpc = "axes" -> \A p \in ToSet(selected) : p.row.axis # r.row.axis
    [] dpc = "apart" -> r \notin ToSet(selected) /\ ~NearDuplicate(r, ToSet(selected))
    [] dpc = "any" -> r \notin ToSet(selected)

SelectNext ==
  /\ dpc \in ToSet(Passes) /\ todo # <<>> /\ Len(selected) < SeedLimit
  /\ selected' = IF Eligible(Head(todo)) THEN Append(selected, Head(todo)) ELSE selected
  /\ todo' = Tail(todo)
  /\ UNCHANGED <<cycles, reach, ranked, dpc, planned, step>>

PassEnds ==
  /\ dpc \in ToSet(Passes) /\ (todo = <<>> \/ Len(selected) >= SeedLimit)
  /\ IF dpc = "any" THEN dpc' = "seeds" /\ todo' = <<>>
     ELSE /\ dpc' = IF dpc = "axes" THEN "apart" ELSE "any"
          /\ todo' = Candidates(ranked)
  /\ UNCHANGED <<cycles, reach, ranked, selected, planned, step>>

\* push: a row of the plan, unless the plan is full or has its axis and factor.
Listed(plan, a, x) == \E i \in DOMAIN plan : plan[i].axis = a /\ plan[i].x = x
Push(plan, a, x, variant) ==
  IF Len(plan) >= PlanTarget \/ Listed(plan, a, x) THEN plan
  ELSE Append(plan, [axis |-> a, x |-> x, variant |-> variant])
PushAll(plan, rows, variant) ==
  FoldLeft(LAMBDA p, r : Push(p, r.row.axis, r.row.x, variant), plan, rows)

\* The rows of a seed's axis, the nearest ones first.
Nearest(seed) ==
  LET gap(r) == (1000 * Max({r.row.x, seed.row.x})) \div Min({r.row.x, seed.row.x})
      near == Ordered({r \in ranked : ~r.row.base /\ r.row.axis = seed.row.axis} \ {seed},
                LAMBDA p, q : gap(p) < gap(q) \/ (gap(p) = gap(q) /\ Precedes(p, q)))
  IN SubSeq(near, 1, Min({2 * Radius, Len(near)}))

\* expandedValidationPlanRows: the seeds and their neighbours, then all other rows ...
PlanSeeds ==
  /\ dpc = "seeds"
  /\ planned' = FoldLeft(LAMBDA p, s : PushAll(p, Nearest(s), "neighbor"),
                         PushAll(planned, selected, "seed"), selected)
  /\ dpc' = "rest"
  /\ UNCHANGED <<cycles, reach, ranked, todo, selected, step>>

PlanRest ==
  /\ dpc = "rest"
  /\ planned' = FoldLeft(LAMBDA p, r : Push(p, r.row.axis, r.row.x,
                                            IF Len(p) < SeedLimit THEN "seed" ELSE "neighbor"),
                         planned, Ordered({r \in ranked : ~r.row.base}, Precedes))
  /\ dpc' = "synthetic"
  /\ UNCHANGED <<cycles, reach, ranked, todo, selected, step>>

\* ... and, while the plan is short, the factors of the seeds moved by 8 % up
\* and down, a step further in every second round.
Moved(x, n) ==
  LET k == (n + 1) \div 2
  IN IF n % 2 = 0 THEN (x * 108 ^ k) \div 100 ^ k ELSE (x * 100 ^ k) \div 108 ^ k

PlanSynthetic ==
  /\ dpc = "synthetic" /\ Len(planned) < PlanTarget /\ selected # <<>>
  /\ planned' = FoldLeft(LAMBDA p, s : Push(p, s.row.axis, Moved(s.row.x, step), "synthetic"),
                         planned, selected)
  /\ step' = step + 1
  /\ UNCHANGED <<cycles, reach, ranked, dpc, todo, selected>>

PlanEnds ==
  /\ dpc = "synthetic" /\ (Len(planned) >= PlanTarget \/ selected = <<>>)
  /\ dpc' = "done"
  /\ UNCHANGED <<cycles, reach, ranked, todo, selected, planned, step>>

DesignNext ==
  RankRows \/ SelectNext \/ PassEnds \/ PlanSeeds \/ PlanRest \/ PlanSynthetic \/ PlanEnds

-----------------------------------------------------------------------------
(* Properties *)

\* The rows, the selection and the plan stay in the shape the panels rely on.
DesignTypeOK ==
  /\ cycles \in [Swept -> CycleCounts] /\ reach \in Reaches
  /\ dpc \in {"sweep", "seeds", "rest", "synthetic", "done"} \cup ToSet(Passes)
  /\ ToSet(todo) \cup ToSet(selected) \subseteq ranked
  /\ \A i \in DOMAIN planned : planned[i].axis \in SweepAxes /\ planned[i].x > 0
  /\ step \in Nat

\* dedupeAxisRows: rounding leaves one row of every request on an axis, the base
\* among them.  The factor of a row gives back the request it was estimated for where
\* the axis scales one size, or equal ones; else it is a mean of several ratios, and
\* the request may be another one, but never one that is larger in every size, or
\* smaller in every size, than the one the estimate was of.
SweepIsDistinct ==
  dpc = "done" => \A a \in SweepAxes :
    LET xs == {r.row.x : r \in {q \in ranked : q.row.axis = a}}
    IN /\ Cardinality({r \in ranked : r.row.axis = a})
            = Cardinality({ScaledRequest(a, f) : f \in SweepFactors[a]})
       /\ 100 \in xs
       /\ \A f \in SweepFactors[a] :
            LET swept == ScaledRequest(a, f)[a]
                asked == ScaledRequest(a, EffectiveFactor(a, f))[a]
            IN EffectiveFactor(a, f) \in xs /\ (\E i \in DOMAIN swept : asked[i] <= swept[i]) /\
               (\E i \in DOMAIN swept : asked[i] >= swept[i])

\* attachRecommendationScores: a row of an axis that is at least as good in every
\* respect, and as certain, is never recommended behind another one.
BetterIsRankedFirst ==
  dpc = "done" => \A p, q \in ranked :
    (/\ p.row.axis = q.row.axis
     /\ \A k \in {"speedup", "tops", "score", "conf"} : p.row[k] >= q.row[k]
     /\ \A k \in {"cost", "work", "overflow"} : p.row[k] <= q.row[k])
    => p.rec >= q.rec /\ p.riskRec >= q.riskRec

\* An axis has at most one knee, and never at its smallest factor.
KneeIsOne ==
  dpc = "done" => \A p, q \in ranked : p.knee /\ q.row.axis = p.row.axis =>
    /\ q.knee => q = p
    /\ \E r \in ranked : r.row.axis = p.row.axis /\ r.row.x < p.row.x

\* validationDesignRows: as many rows as asked for, none of them the base or listed
\* twice, from as many axes as there are, the best of each axis, and two close ones
\* only when everything left out is close to a selected one.
SelectionIsDiverse ==
  dpc \in {"seeds", "rest", "synthetic", "done"} =>
    LET rows == ToSet(selected)
        all == {r \in ranked : ~r.row.base}
        axes(s) == {r.row.axis : r \in s}
    IN /\ rows \subseteq all /\ Cardinality(rows) = Len(selected)
       /\ Len(selected) = Min({SeedLimit, Cardinality(all)})
       /\ Cardinality(axes(rows)) = Min({SeedLimit, Cardinality(axes(all))})
       /\ \A r \in rows : \E p \in rows : p.row.axis = r.row.axis /\
            \A q \in all : q.row.axis = p.row.axis =>
              p.select >= q.select
       /\ (\E r \in rows : NearDuplicate(r, rows \ {r}))
            => \A r \in all \ rows : NearDuplicate(r, rows)

\* expandedValidationPlanRows: the plan reaches its target, names no factor of an axis
\* twice (two factors may still round to one request), begins with the selection and
\* moves no factor while a row is left.
PlanReachesTarget ==
  dpc = "done" =>
    /\ selected # <<>> => Len(planned) = PlanTarget
    /\ \A i, k \in DOMAIN planned : i # k =>
         planned[i].axis # planned[k].axis \/ planned[i].x # planned[k].x
    /\ \A i \in DOMAIN planned : i <= Len(selected) =>
         planned[i].axis = selected[i].row.axis /\ planned[i].x = selected[i].row.x
    /\ (\E i \in DOMAIN planned : planned[i].variant = "synthetic") =>
         \A r \in ranked : r.row.base \/ Listed(planned, r.row.axis, r.row.x)
=============================================================================
