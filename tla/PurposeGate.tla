---------------------------- MODULE PurposeGate ----------------------------
(***************************************************************************)
(* What the evidence about one estimate allows a reader to decide: the     *)
(* confidence of the estimate, the register of risky operators, the        *)
(* purpose gate and the validation plan.  Scores are in hundredths, risks  *)
(* and priorities in ten-thousandths.  An operator keeps one issue of each *)
(* group the plan tells apart: its confidence and its spill are full-layer *)
(* issues, its padding and its pressure, on the scratchpad or of a long    *)
(* reduction, are tile issues.  Every operator has a shape of its own.     *)
(***************************************************************************)
EXTENDS Integers, FiniteSets, FiniteSetsExt, Sequences, SequencesExt

CONSTANT MaxRiskOps        \* operators of the register the plan looks at

ASSUME RiskOpsAssumption == MaxRiskOps \in Nat \ {0}

Areas == {"hardware-design", "tiling-strategy", "iree-options"}
Unknown == -1                      \* a number the evidence does not have
Verdicts == <<"blocked", "validate-first", "needs-benchmark", "ready">>
RankOf(verdict) == CHOOSE i \in DOMAIN Verdicts : Verdicts[i] = verdict

(* An estimate: of every operator how sure it is, in percent, how severe its *)
(* spill and its pressure are and how much of it is padding; how many samples *)
(* the suite was trained with, whether the array is underused, and what its  *)
(* warnings cost.                                                            *)
OperatorRisks ==
  [conf : Nat \cup {Unknown}, spill : 0..100, padding : Nat, pressure : 0..100]
IsEstimate(e) ==
  e \in [ops : Seq(OperatorRisks) \ {<<>>}, suite : Nat, underused : BOOLEAN, warned : Nat]

AtMost(x, y) == IF x < y THEN x ELSE y
AtLeast(x, y) == IF x < y THEN y ELSE x
Clamp(x) == AtLeast(0, AtMost(100, x))
Mean(f) == MapThenSumSet(LAMBDA o : f[o], DOMAIN f) \div Cardinality(DOMAIN f)

-----------------------------------------------------------------------------
(* The risk register: the severity of every issue of an operator.           *)
Severity(op) ==
  LET seen(s) == IF s > 5 THEN s ELSE 0
  IN [confidence |-> IF op.conf = Unknown THEN 0 ELSE seen(100 - op.conf),
      spill |-> seen(op.spill), pressure |-> seen(op.pressure),
      padding |-> IF op.padding > 18 THEN AtMost(100, (op.padding * 100) \div 65) ELSE 0]
(* The least of the four issues counts for nothing, as only three are averaged. *)
RiskScore(op) ==
  LET s == Severity(op)
      shown == {k \in DOMAIN s : s[k] > 0}
      top3 == s.confidence + s.spill + s.padding + s.pressure - Min({s[k] : k \in DOMAIN s})
  IN IF shown = {} THEN 0
     ELSE 65 * Max({s[k] : k \in shown}) + (35 * top3) \div AtMost(3, Cardinality(shown))
MaxRisk(ops) == Max({RiskScore(ops[o]) : o \in DOMAIN ops})
HighRisks(ops) == Cardinality({o \in DOMAIN ops : RiskScore(ops[o]) >= 6600})

(* assessConfidence, for samples the active suite was trained with.         *)
AssessConfidence(est, scale, iree) ==
  LET external == IF scale.state = "ok" \/ iree = "ok" THEN 12 ELSE -12
      ratio == CASE scale.err = Unknown -> 0 [] scale.err \in 0..15 -> 10
                 [] scale.err \in 16..35 -> 3 [] OTHER -> -12
      suite == IF est.suite >= 20 THEN 10 ELSE IF est.suite > 0 THEN 3 ELSE -8
      padded == IF Mean([o \in DOMAIN est.ops |-> est.ops[o].padding]) > 35 THEN -12 ELSE 0
      idle == IF est.underused THEN -10 ELSE 0
  IN Clamp(75 + external + ratio + suite + padded + idle - est.warned)

-----------------------------------------------------------------------------
(* evaluatePurposeGate, area by area.  risks = FALSE: no register is given. *)
HardwareScore(est, scale, iree, risks) ==
  LET known == {est.ops[o].conf : o \in DOMAIN est.ops} \ {Unknown}
      evidence == CASE scale.state = "ok" /\ scale.err # Unknown ->
                         IF scale.err <= 15 THEN 14 ELSE IF scale.err <= 35 THEN 2 ELSE -24
                    [] scale.state = "failed" -> -35
                    [] OTHER -> -16
      risky == IF risks /\ MaxRisk(est.ops) >= 6600
               THEN AtMost(18, 8 + 3 * HighRisks(est.ops)) ELSE 0
  IN Min({AssessConfidence(est, scale, iree)} \cup known) + evidence
       - (IF est.underused THEN 8 ELSE 0)
       - (IF Mean([o \in DOMAIN est.ops |-> est.ops[o].padding]) > 35 THEN 8 ELSE 0)
       - risky
Hardware(est, scale, iree, risks) ==
  LET score == HardwareScore(est, scale, iree, risks)
      measured == scale.state = "ok" /\ scale.err # Unknown
  IN IF scale.state = "failed" THEN "blocked"
     ELSE IF measured /\ scale.err <= 20 /\ score >= 72 /\ ~(risks /\ MaxRisk(est.ops) >= 7800)
          THEN "ready"
          ELSE IF score < 45 \/ (measured /\ scale.err > 35)
               THEN "validate-first" ELSE "needs-benchmark"

(* A fault: a comparison that was not made counts as one without regret.    *)
TilingOfAbsent(est, scale, iree) ==
  LET evidence == IF scale.regret <= 105 THEN 16 ELSE IF scale.regret <= 115 THEN 4 ELSE -22
      score == AssessConfidence(est, scale, iree) + evidence
  IN IF scale.regret <= 108 /\ score >= 68 THEN "ready"
     ELSE IF score < 44 \/ scale.regret > 120 THEN "validate-first" ELSE "needs-benchmark"
Tiling(est, scale, iree) ==
  LET padded == Cardinality({o \in DOMAIN est.ops : est.ops[o].padding > 35})
      evidence == CASE scale.regret = Unknown -> -14 [] scale.regret \in 0..105 -> 16
                    [] scale.regret \in 106..115 -> 4 [] OTHER -> -22
      score == AssessConfidence(est, scale, iree) + evidence - AtMost(16, 4 * padded)
  IN IF scale.regret # Unknown /\ scale.regret <= 108 /\ score >= 68 THEN "ready"
     ELSE IF score < 44 \/ scale.regret > 120 THEN "validate-first" ELSE "needs-benchmark"

Compiled == [none |-> "validate-first", failed |-> "blocked", ok |-> "needs-benchmark"]
Benchmarked(runtime, before) ==
  CASE runtime.status = "none" -> before
    [] runtime.status = "blocked" -> "blocked"
    [] runtime.status = "regression" -> "validate-first"
    [] runtime.status = "needs-more-runs" -> "needs-benchmark"
    [] OTHER -> IF runtime.correctness = "checked" THEN "ready" ELSE "needs-benchmark"
IreeOptions(iree, runtime, tiling) ==
  LET verdict == Benchmarked(runtime, Compiled[iree])
  IN IF tiling # "ready" /\ verdict = "ready" THEN "needs-benchmark" ELSE verdict

Gate(est, scale, iree, runtime, risks) ==
  LET tiling == Tiling(est, scale, iree)
  IN [a \in Areas |-> CASE a = "hardware-design" -> Hardware(est, scale, iree, risks)
                        [] a = "tiling-strategy" -> tiling
                        [] a = "iree-options" -> IreeOptions(iree, runtime, tiling)]

-----------------------------------------------------------------------------
(* buildValidationPlan: the tasks, sorted by priority and then by name.     *)
TaskNames == <<"fix-iree-compile", "review-feedback", "run-iree-runtime",
               "run-scalesim-full-layer", "run-scalesim-top-k",
               "scalesim-full-layer-op", "scalesim-top-k-op">>
Task(name, op, kind, score, blocks) ==
  [name |-> name, op |-> op, kind |-> kind, score |-> score, blocks |-> blocks]
TilePurposes == {"tiling-strategy", "iree-options"}

(* The register is sorted by risk, and the plan looks at its first operators. *)
Riskier(ops, p, o) ==
  \/ RiskScore(ops[p]) > RiskScore(ops[o])
  \/ RiskScore(ops[p]) = RiskScore(ops[o]) /\ p < o
Riskiest(ops) ==
  {o \in DOMAIN ops : Cardinality({p \in DOMAIN ops : Riskier(ops, p, o)}) < MaxRiskOps}

FullSeverity(op) == AtLeast(Severity(op).confidence, Severity(op).spill)
TileSeverity(op) == AtLeast(Severity(op).padding, Severity(op).pressure)
RiskTasks(ops) ==
  {Task("scalesim-full-layer-op", o, "scalesim-full-layer",
        AtLeast(RiskScore(ops[o]), 100 * FullSeverity(ops[o])), {"hardware-design"}) :
     o \in {o \in Riskiest(ops) : RiskScore(ops[o]) >= 6600 \/ FullSeverity(ops[o]) >= 28}}
  \cup
  {Task("scalesim-top-k-op", o, "scalesim-top-k",
        AtLeast(100 * TileSeverity(ops[o]), (85 * RiskScore(ops[o])) \div 100), TilePurposes) :
     o \in {o \in Riskiest(ops) : TileSeverity(ops[o]) >= 26 \/ Severity(ops[o]).padding >= 18}}

(* A fault: the plan takes any run of the simulator for a result.           *)
ScaleTasksIfNeverRun(gate, scale) ==
  IF scale.state # "none" \/ gate["hardware-design"] = "ready" THEN {}
  ELSE {Task("run-scalesim-full-layer", 0, "scalesim-full-layer", 7200, {"hardware-design"})}
ScaleTasks(gate, scale) ==
  IF scale.state = "ok" \/ gate["hardware-design"] = "ready" THEN {}
  ELSE IF scale.state = "failed"
       THEN {Task("run-scalesim-full-layer", 0, "environment-doctor", 9400, {"hardware-design"})}
       ELSE {Task("run-scalesim-full-layer", 0, "scalesim-full-layer", 7200, {"hardware-design"})}
TopKTasks(gate) ==
  IF gate["tiling-strategy"] = "ready" THEN {}
  ELSE {Task("run-scalesim-top-k", 0, "scalesim-top-k", 6100, TilePurposes)}
(* The plan is made before any runtime evidence.                             *)
IreeTasks(iree) ==
  CASE iree = "failed" -> {Task("fix-iree-compile", 0, "environment-doctor", 9600, {"iree-options"})}
    [] iree = "ok" -> {Task("run-iree-runtime", 0, "iree-runtime-benchmark", 6600, {"iree-options"})}
    [] OTHER -> {}
FeedbackTasks(gate, scale, others) ==
  IF (others = {} /\ scale.state = "ok") \/ gate["hardware-design"] = "ready"
  THEN {Task("review-feedback", 0, "estimator-suite-feedback", 2400, {})} ELSE {}

Comes(t, u) ==
  LET place(x) == CHOOSE i \in DOMAIN TaskNames : TaskNames[i] = x.name
  IN \/ t.score > u.score
     \/ t.score = u.score /\ place(t) < place(u)
     \/ t.score = u.score /\ place(t) = place(u) /\ t.op < u.op
MostUrgentFirst(tasks) ==
  [i \in 1..Cardinality(tasks) |->
     CHOOSE t \in tasks : Cardinality({u \in tasks : Comes(u, t)}) = i - 1]
ValidationPlan(est, gate, scale, iree) ==
  LET others == RiskTasks(est.ops) \cup ScaleTasks(gate, scale) \cup TopKTasks(gate)
                  \cup IreeTasks(iree)
  IN MostUrgentFirst(others \cup FeedbackTasks(gate, scale, others))
BlockedPurposes(plan) == UNION {plan[i].blocks : i \in DOMAIN plan}
=============================================================================
