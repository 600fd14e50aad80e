--------------------------- MODULE ValidationRun ---------------------------
(***************************************************************************)
(* The life of one job's evidence.  server/jobArtifactWriter.ts writes the *)
(* gate, the plan and the runbook (no code of this commit calls it: the    *)
(* model is of what its caller would get); scripts/benchmark-iree.ts       *)
(* refreshes the gate with runtime evidence, scripts/validation-execute.ts *)
(* runs the runbook's commands, and the gate may be written again in the   *)
(* middle of that.                                                         *)
(***************************************************************************)
EXTENDS PurposeGate, TLC

CONSTANTS
  JobEstimates,        \* what the job's estimate may look like
  DemoEstimate,     \* the estimate of the demo's artifacts
  Errors,           \* errors of a SCALE-Sim cycle ratio, in percent
  Regrets,          \* median regrets of the top-k comparison, in percent
  RunOptions,       \* the options validation-execute is called with
  MaxRewrites       \* bound: gates written with the tools' summaries

ASSUME EvidenceAssumption ==
  /\ \A e \in JobEstimates \cup {DemoEstimate} : IsEstimate(e)
  /\ Errors \subseteq Nat /\ Regrets \subseteq Nat
  /\ RunOptions \subseteq
       [execute : BOOLEAN, external : BOOLEAN, readOnly : BOOLEAN, stop : BOOLEAN]

VARIABLES
  est,              \* the job's estimate
  scale, iree, runtime,      \* the evidence in the job's directory
  gate,             \* purpose_gate.json
  runbook,          \* validation_runbook.json, the commands of the plan
  inputs,           \* whose result.json and topology.csv are there: "own" or "demo"
  exec,             \* the execution under way, or done
  rewrites          \* how often the gate was written

evidence == <<est, scale, iree, runtime>>
valvars == <<est, scale, iree, runtime, gate, runbook, inputs, exec, rewrites>>

ScaleEvidence ==
  {[state |-> s, err |-> Unknown, regret |-> Unknown] : s \in {"none", "failed"}}
    \cup [state : {"ok"}, err : Errors \cup {Unknown}, regret : Regrets \cup {Unknown}]
IreeEvidence == {"none", "failed", "ok"}
RuntimeEvidence ==
  [status : {"blocked"}, correctness : {"not-checked", "checked", "mismatch"}]
    \cup [status : {"regression", "needs-more-runs", "keep-baseline", "promote-candidate"},
          correctness : {"not-checked", "checked"}]
NoRuntime == [status |-> "none", correctness |-> "not-checked"]
NotStarted == [phase |-> "none", opts |-> [execute |-> FALSE, external |-> FALSE,
                 readOnly |-> TRUE, stop |-> TRUE],
               todo |-> <<>>, records |-> <<>>, stopped |-> FALSE, exitCode |-> 0]

(* defaultCommand: how safe the command of a kind of task is.               *)
Safety(kind) ==
  CASE kind = "environment-doctor" -> "read-only"
    [] kind = "estimator-suite-feedback" -> "manual-review"
    [] OTHER -> "external-run"
Record(task, status) == [task |-> task, status |-> status]

-----------------------------------------------------------------------------
(* writeArtifacts: the job's inputs, and a plan that knows no evidence.      *)
ValidationInit ==
  /\ est \in JobEstimates
  /\ scale = [state |-> "none", err |-> Unknown, regret |-> Unknown]
  /\ iree = "none" /\ runtime = NoRuntime
  /\ gate = Gate(est, scale, iree, NoRuntime, TRUE)
  /\ runbook = ValidationPlan(est, gate, scale, iree)
  /\ inputs = "own" /\ exec = NotStarted /\ rewrites = 0

(* writePurposeGateArtifacts, with the summaries of the external tools: of   *)
(* runtime evidence it knows nothing.                                        *)
WritePurposeGate ==
  /\ rewrites < MaxRewrites /\ rewrites' = rewrites + 1
  /\ scale' \in ScaleEvidence /\ iree' \in IreeEvidence
  /\ gate' = Gate(est, scale', iree', NoRuntime, TRUE)
  /\ runbook' = ValidationPlan(est, gate', scale', iree')
  /\ UNCHANGED <<est, runtime, inputs, exec>>

(* scripts/benchmark-iree.ts: a decision over the MLIR in the directory, and *)
(* the gate of the result.json there, without a risk register.  A baseline   *)
(* it compiled itself stands in for a missing compile summary; a blocked     *)
(* decision may come with or without one.                                    *)
Described == IF inputs = "own" THEN est ELSE DemoEstimate
Compiles(summary, decision) ==
  IF summary # "none" THEN {summary}
  ELSE IF decision.status = "blocked" THEN {"none", "ok"} ELSE {"ok"}
Benchmark ==
  /\ exec.phase # "running" /\ runtime = NoRuntime   \* bound: one benchmark, between executions
  /\ runtime' \in RuntimeEvidence
  /\ \E compiled \in Compiles(iree, runtime') :
       gate' = Gate(Described, scale, compiled, runtime', FALSE)
  /\ UNCHANGED <<est, scale, iree, runbook, inputs, exec, rewrites>>

(* scripts/validation-execute.ts reads the runbook once.                     *)
StartExecution ==
  /\ exec.phase = "none"                             \* bound: one execution
  /\ \E o \in RunOptions :
       exec' = [NotStarted EXCEPT !.phase = "running", !.opts = o, !.todo = runbook]
  /\ UNCHANGED <<evidence, gate, runbook, inputs, rewrites>>

(* executionPreflight: why a command is not run.                             *)
Preflight(task, o) ==
  IF Safety(task.kind) = "manual-review" THEN "skipped"
  ELSE IF \/ Safety(task.kind) = "external-run" /\ ~o.external
          \/ Safety(task.kind) = "read-only" /\ ~o.readOnly
       THEN "blocked"
       ELSE IF o.execute THEN "run" ELSE "planned"
(* A fault: only a failed command stops the execution. *)
StopsIfFailed(status) == exec.opts.stop /\ status = "failed"
Stops(status) == exec.opts.stop /\ status \in {"failed", "blocked"}
Note(status) ==
  exec' = [exec EXCEPT !.todo = Tail(@),
                       !.records = Append(@, Record(Head(exec.todo), status)),
                       !.stopped = @ \/ Stops(status)]

PassOver ==
  /\ exec.phase = "running" /\ exec.todo # <<>>
  /\ LET pre == Preflight(Head(exec.todo), exec.opts)
     IN \/ exec.stopped
             /\ exec' = [exec EXCEPT !.todo = Tail(@),
                           !.records = Append(@, Record(Head(exec.todo), "skipped"))]
        \/ ~exec.stopped /\ pre # "run" /\ Note(pre)
  /\ UNCHANGED <<evidence, gate, runbook, inputs, rewrites>>

(* A run command: run:scalesim makes the demo's artifacts before it starts   *)
(* the simulator, unless its setup fails first; there is no npm script       *)
(* benchmark:iree to run; the doctor changes nothing.                        *)
RunCommand ==
  /\ exec.phase = "running" /\ exec.todo # <<>> /\ ~exec.stopped
  /\ Preflight(Head(exec.todo), exec.opts) = "run"
  /\ \/ /\ Head(exec.todo).kind \in {"scalesim-full-layer", "scalesim-top-k"}
        /\ \/ inputs' = "demo" /\ \E status \in {"passed", "failed"} : Note(status)
           \/ inputs' = inputs /\ Note("failed")
     \/ /\ Head(exec.todo).kind = "iree-runtime-benchmark"
        /\ inputs' = inputs /\ Note("failed")
     \/ /\ Head(exec.todo).kind = "environment-doctor"
        /\ inputs' = inputs /\ \E status \in {"passed", "failed"} : Note(status)
  /\ UNCHANGED <<evidence, gate, runbook, rewrites>>

StatusesOf(records) == {records[i].status : i \in DOMAIN records}
ReportExecution ==
  /\ exec.phase = "running" /\ exec.todo = <<>>
  /\ exec' = [exec EXCEPT !.phase = "done",
                !.exitCode = IF exec.opts.execute
                                 /\ StatusesOf(exec.records) \cap {"failed", "blocked"} # {}
                             THEN 1 ELSE 0]
  /\ UNCHANGED <<evidence, gate, runbook, inputs, rewrites>>

ValidationNext ==
  \/ WritePurposeGate \/ Benchmark
  \/ StartExecution \/ PassOver \/ RunCommand \/ ReportExecution

ValidationSpec == ValidationInit /\ [][ValidationNext]_valvars

-----------------------------------------------------------------------------
\* The estimates, the evidence and the gate keep the shapes the scripts rely on, and
\* an execution ends with an exit code.
ValidationTypeOK ==
  /\ est \in JobEstimates /\ scale \in ScaleEvidence /\ iree \in IreeEvidence
  /\ runtime \in RuntimeEvidence \cup {NoRuntime}
  /\ gate \in [Areas -> {Verdicts[i] : i \in DOMAIN Verdicts}]
  /\ inputs \in {"own", "demo"}
  /\ exec.phase \in {"none", "running", "done"} /\ exec.opts \in RunOptions \cup {NotStarted.opts}
  /\ exec.exitCode \in {0, 1}

(* The runbook holds a task for every purpose the stages left undecided, but *)
(* for a hardware decision whose cycle ratio is known yet not good enough,   *)
(* and for IREE options that were never compiled once tiling is decided: for *)
(* those the plan has no task.  An operator of high risk has a task of its   *)
(* own, unless as many as the plan looks at are at least as risky and have   *)
(* one.  The most urgent tasks come first.                                   *)
TasksFor(o) == {k \in DOMAIN runbook : runbook[k].op = o /\ "hardware-design" \in runbook[k].blocks}
GapsArePlanned ==
  /\ gate["tiling-strategy"] # "ready" => "tiling-strategy" \in BlockedPurposes(runbook)
  /\ gate["iree-options"] # "ready" /\ (iree # "none" \/ gate["tiling-strategy"] # "ready") =>
       "iree-options" \in BlockedPurposes(runbook)
  /\ gate["hardware-design"] # "ready" /\ scale.state # "ok" =>
       "hardware-design" \in BlockedPurposes(runbook)
  /\ \A o \in DOMAIN est.ops : RiskScore(est.ops[o]) >= 6600 /\ TasksFor(o) = {} =>
       Cardinality({p \in DOMAIN est.ops : RiskScore(est.ops[p]) >= RiskScore(est.ops[o])
                                            /\ TasksFor(p) # {}}) >= MaxRiskOps
  /\ \A i, k \in DOMAIN runbook : i < k => runbook[i].score >= runbook[k].score
PlanCoversGaps == runtime = NoRuntime => GapsArePlanned

(* What an execution reports is what its options allow: a dry run runs       *)
(* nothing, an external command needs its permission, and after a failure    *)
(* that stops it every command left is reported as skipped.  A command is    *)
(* never reported twice.                                                     *)
Ran(record) == record.status \in {"passed", "failed"}
RunbookObeysOptions ==
  /\ \A i, k \in DOMAIN exec.records : i # k => exec.records[i].task # exec.records[k].task
  /\ \A i \in DOMAIN exec.records :
       /\ Ran(exec.records[i]) => exec.opts.execute /\ Safety(exec.records[i].task.kind) # "manual-review"
       /\ Ran(exec.records[i]) /\ Safety(exec.records[i].task.kind) = "external-run" =>
            exec.opts.external
       /\ exec.opts.stop => \A k \in 1..(i - 1) :
            exec.records[k].status \in {"failed", "blocked"} => exec.records[i].status = "skipped"
  /\ exec.exitCode = 0 /\ exec.phase = "done" /\ exec.opts.execute =>
       \A i \in DOMAIN exec.records : exec.records[i].status \in {"passed", "skipped"}

(* Better evidence never takes a verdict back: with the same estimate, a     *)
(* SCALE-Sim result and an IREE compile that are no worse, no area is judged *)
(* worse, whatever else the gate adds up.  A failed tool is worse than one   *)
(* that was not run.                                                         *)
NoWorse(old, new, bound) == new = old \/ new \in 0..(IF old = Unknown THEN bound ELSE old)
ToolOrder == [failed |-> 1, none |-> 2, ok |-> 3]
IreeNoWorse(i, j) == ToolOrder[i] <= ToolOrder[j]
ScaleNoWorse(s, t) ==
  /\ ToolOrder[s.state] <= ToolOrder[t.state]
  /\ NoWorse(s.err, t.err, 35) /\ NoWorse(s.regret, t.regret, 115)
BetterEvidenceHelps ==
  exec.phase = "none" =>
    LET now == Gate(est, scale, iree, NoRuntime, TRUE)
    IN \A t \in ScaleEvidence, j \in IreeEvidence :
         ScaleNoWorse(scale, t) /\ IreeNoWorse(iree, j) =>
           LET then == Gate(est, t, j, NoRuntime, TRUE)
           IN \A a \in Areas : RankOf(now[a]) <= RankOf(then[a])

(* Running the runbook leaves the job's own inputs in place.                 *)
InputsAreOwn == inputs = "own"
=============================================================================
