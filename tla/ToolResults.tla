---------------------------- MODULE ToolResults -----------------------------
(***************************************************************************)
(* What a job makes of its external tools: the commands a tool may be      *)
(* called by and the order they are tried in, how long each may take, what *)
(* is left in the output directory, how the layers of a SCALE-Sim report   *)
(* are given their metadata and found again by name, and what the reports, *)
(* the evidence ledger and the feedback for the estimator suite say of     *)
(* them.  (src/src/server/workerRunner.ts, externalToolCandidates.ts and   *)
(* pythonUtils.ts; the ledger and its feedback are those of                *)
(* validationEvidence.ts and validationFeedbackPolicy.ts, which are called *)
(* by the tests and by externalReport.ts, but by no route or worker)       *)
(*                                                                         *)
(* Three kinds of behaviour share the variables: a tool being run, whose   *)
(* answer may be parsed and compared; and the limits of the time it may    *)
(* take, which no other variable depends on.                               *)
(***************************************************************************)
EXTENDS Integers, Sequences, SequencesExt, FiniteSetsExt

CONSTANTS
  OpNames,        \* names of operators, as sequences of characters
  LayerCycles,    \* the cycles a row of COMPUTE_REPORT.csv may have
  MaxOps,         \* operators of a job
  TimeLimits      \* time limits in seconds; 0 is a variable that is not set

\* Whole seconds: a limit set below the shortest one, be it zero or negative, is raised
\* to it like any other.
ASSUME TimeLimitsAssumption == TimeLimits \subseteq Nat

VARIABLES
  tphase,    \* what the behaviour is doing
  call,      \* the tool, how it is configured and what its candidates did
  left,      \* the candidate whose output lies in the output directory
  work,      \* the operators of the job and what was predicted of them
  answer,    \* the summary of the tool: layers, top-k candidates, total
  limits     \* the environment's limits and the limit saved with the job

tvars == <<tphase, call, left, work, answer, limits>>

Nobody == 0            \* nothing lies in the output directory
EarlierRun == 99       \* an earlier attempt of the job left its output there
Half == 30             \* the shortest limit, in seconds
None == <<"?">>        \* no layer was found

-----------------------------------------------------------------------------
(* The commands a tool may be called by. *)

Distinct(s) == FoldLeft(LAMBDA out, x : IF Contains(out, x) THEN out ELSE Append(out, x), <<>>, s)

\* Outside Windows: TILEFORGE_PYTHON comes first.
Pythons(explicit) == Distinct(explicit \o <<"python3", "python", "py">>)

Called(pythons, what) == [i \in 1..Len(pythons) |-> <<pythons[i], what>>]

\* A configured command is the only one; otherwise the installed modules come
\* before the sources that are kept with the project.
CommandCandidates(tool, configured, explicit) ==
  IF configured THEN <<<<"configured", tool>>>>
  ELSE IF tool = "iree"
       THEN Distinct(<<<<"iree-compile", "iree">>>> \o Called(Pythons(explicit), "iree"))
       ELSE Distinct(Called(Pythons(explicit), "scalesim")
                       \o Called(Pythons(explicit), "scalesim/scale.py")
                       \o Called(Pythons(explicit), "scale.py"))

CallCandidates == CommandCandidates(call.tool, call.configured, call.explicit)

\* Commands that are not found are hidden from the history when they are python3's.
IsNoisyFailure(command, outcome) == outcome = "missing" /\ command[1] = "python3"

-----------------------------------------------------------------------------
(* Running the candidates. *)

\* A candidate may not exist, fail, fail after it began to write, end without
\* an error and without its output or with an empty one, or write its output.
Outcomes == {"missing", "fails", "partial", "silent", "empty", "writes"}

NotCalled == [tool |-> "none", configured |-> TRUE, explicit |-> <<>>, next |-> 1,
              shown |-> 0, hidden |-> 0, wrote |-> 0, ran |-> 0]
NoMeasure == [ok |-> FALSE, report |-> FALSE, layers |-> <<>>, topk |-> <<>>, vmfb |-> 0]

\* What lies there afterwards: candidates run in the same directory, which no
\* attempt empties.
After(outcome) ==
  CASE outcome \in {"partial", "writes"} -> call.next
    [] outcome = "empty" -> Nobody
    [] OTHER -> left

\* Kept for the properties: the last candidate that began to write its output.
Written(outcome) == IF outcome \in {"partial", "writes"} THEN call.next ELSE call.wrote

Failed(outcome) ==
  call' = [call EXCEPT !.next = @ + 1,
                       !.shown = @ + (IF IsNoisyFailure(CallCandidates[call.next], outcome) THEN 0 ELSE 1),
                       !.hidden = @ + (IF IsNoisyFailure(CallCandidates[call.next], outcome) THEN 1 ELSE 0),
                       !.wrote = Written(outcome)]

\* The first candidate that ends without an error is the tool's answer ...
TryScaleSim(outcome) ==
  /\ tphase = "trying" /\ call.tool = "scalesim" /\ call.next <= Len(CallCandidates)
  /\ left' = After(outcome)
  /\ IF outcome \in {"silent", "empty", "writes"}
     THEN /\ call' = [call EXCEPT !.ran = call.next, !.wrote = Written(outcome)]
          /\ IF left' = Nobody
             THEN tphase' = "failed" /\ UNCHANGED answer      \* no COMPUTE_REPORT.csv is found
             ELSE tphase' = "report" /\ answer' = [answer EXCEPT !.report = TRUE]
     ELSE Failed(outcome) /\ UNCHANGED <<tphase, answer>>
  /\ UNCHANGED <<work, limits>>

\* ... while a compiler that has left no module is one that failed.
TryIree(outcome) ==
  /\ tphase = "trying" /\ call.tool = "iree" /\ call.next <= Len(CallCandidates)
  /\ left' = After(outcome)
  /\ IF outcome \in {"silent", "empty", "writes"} /\ left' # Nobody
     THEN /\ call' = [call EXCEPT !.ran = call.next, !.wrote = Written(outcome)]
          /\ answer' = [answer EXCEPT !.ok = TRUE, !.vmfb = left']
          /\ tphase' = "compiled"
     ELSE Failed(outcome) /\ UNCHANGED <<tphase, answer>>
  /\ UNCHANGED <<work, limits>>

OutOfCandidates ==
  /\ tphase = "trying" /\ call.next > Len(CallCandidates)
  /\ tphase' = "failed"
  /\ UNCHANGED <<call, left, work, answer, limits>>

-----------------------------------------------------------------------------
(* The report of SCALE-Sim and the names of its layers. *)

\* Names are compared without what is not a letter or a digit.
Normalized(name) == SelectSeq(name, LAMBDA ch : ch # "_")

Includes(s, t) == \E i \in 0..(Len(s) - Len(t)) : SubSeq(s, i + 1, i + Len(t)) = t

\* The metadata of the i-th operator belongs to the i-th row; rows without cycles
\* are dropped afterwards.
ReportLayers(ops, rows) ==
  SelectSeq([i \in 1..Len(rows) |-> [name |-> ops[i].name, of |-> i, cycles |-> rows[i]]],
            LAMBDA layer : layer.cycles > 0)

NameMatches(layer, op) ==
  LET ours == Normalized(op.name)
      theirs == Normalized(layer.name)
  IN theirs \in {ours, <<"m">> \o ours} \/ Includes(theirs, ours) \/ Includes(ours, theirs)

\* The first layer whose name is that of the operator, contains it or is part of it.
MatchLayer(op, layers) ==
  LET found == {i \in 1..Len(layers) : NameMatches(layers[i], op)}
  IN IF found = {} THEN [name |-> None, of |-> 0, cycles |-> 0] ELSE layers[Min(found)]

Total(layers) == FoldLeft(LAMBDA sum, layer : sum + layer.cycles, 0, layers)

Ops(names) ==
  [i \in 1..Len(names) |-> [id |-> i, name |-> names[i], cycles |-> 10 * i]]
Workloads == {Ops(names) : names \in UNION {[1..n -> OpNames] : n \in 1..MaxOps}}

\* The run is over: what it tried no longer matters.
ForgetRun == call' = NotCalled /\ left' = Nobody

\* The report found in the output directory is read as it is.
ReadReport ==
  /\ tphase = "report"
  /\ tphase' = "rows"
  /\ ForgetRun /\ UNCHANGED <<work, answer, limits>>

\* The topology lists the operators in order, so the report does, and may end early.
ParseReport(ops, rows) ==
  /\ tphase = "rows" /\ Len(rows) <= Len(ops)
  /\ work' = ops
  /\ answer' = [answer EXCEPT !.layers = ReportLayers(ops, rows), !.ok = TRUE]
  /\ tphase' = "topk"
  /\ UNCHANGED <<call, left, limits>>

\* Only the best tiles are measured.
SkipFullLayer(ops) ==
  /\ tphase = "trying" /\ call.tool = "scalesim" /\ call.next = 1
  /\ work' = ops
  /\ answer' = [answer EXCEPT !.ok = TRUE]
  /\ tphase' = "topk"
  /\ ForgetRun /\ UNCHANGED limits

\* A candidate of an operator that has tiles is extrapolated to all of them.
TileCandidate(op, rank, tiles, cycles) ==
  [shape |-> op, rank |-> rank, tiles |-> tiles, cycles |-> cycles,
   extrapolated |-> IF tiles > 0 THEN cycles * tiles ELSE 0]

\* A job that may skip a failed full layer measures its best tiles all the same.
FallBackToTiles(ops, candidates) ==
  /\ tphase = "failed" /\ call.tool = "scalesim" /\ \A c \in Range(candidates) : c.shape <= Len(ops)
  /\ work' = ops
  /\ LET kept == SelectSeq(candidates, LAMBDA c : c.cycles > 0)
     IN answer' = [answer EXCEPT !.topk = kept, !.ok = kept # <<>>]
  /\ tphase' = "judged"
  /\ ForgetRun /\ UNCHANGED limits

MeasureTiles(candidates) ==
  /\ tphase = "topk" /\ \A c \in Range(candidates) : c.shape <= Len(work)
  /\ answer' = [answer EXCEPT !.topk = SelectSeq(candidates, LAMBDA c : c.cycles > 0)]
  /\ tphase' = "judged"
  /\ UNCHANGED <<call, left, work, limits>>

-----------------------------------------------------------------------------
(* What the reports say of it. *)

PredictedTotal == FoldLeft(LAMBDA sum, op : sum + op.cycles, 0, work)
Actual == Total(answer.layers)

\* The grade of a measured against a predicted number of cycles, in percent off.
Grade(actual, predicted) ==
  LET off(percent) == 100 * Max({actual - predicted, predicted - actual}) < percent * predicted
  IN IF actual = 0 THEN "pending" ELSE IF off(5) THEN "excellent"
     ELSE IF off(15) THEN "good" ELSE IF off(30) THEN "warning" ELSE "poor"

HasActual == answer.ok /\ Actual > 0
Verdict ==
  IF ~HasActual THEN "none"
  ELSE IF 100 * Actual > 115 * PredictedTotal THEN "larger"
  ELSE IF 100 * Actual < 85 * PredictedTotal THEN "smaller" ELSE "close"

\* The summary on top of report.md, and the report of the external tools.
QuickSaysApplied == answer.ok /\ answer.report /\ Actual > 0
ReportSaysApplied == answer.ok /\ answer.report

\* The samples of validation_report.csv.
ValidationSamples ==
  {i \in 1..Len(work) : answer.ok /\ MatchLayer(work[i], answer.layers).cycles > 0}

-----------------------------------------------------------------------------
(* The evidence ledger and what is fed back to the estimator suite. *)

FullLayerEvidence ==
  [i \in 1..Len(work) |->
     LET layer == IF answer.ok THEN MatchLayer(work[i], answer.layers)
                  ELSE [name |-> None, of |-> 0, cycles |-> 0]
     IN [op |-> i, scope |-> "full-layer", rank |-> 0, cycles |-> layer.cycles,
         reliability |-> IF layer.cycles > 0 THEN "design-target" ELSE "unmatched"]]

\* Top-k candidates are evidence whether or not the tool went well as a whole.
TilePolicyEvidence ==
  [i \in 1..Len(answer.topk) |->
     LET c == answer.topk[i]
     IN [op |-> c.shape, scope |-> "tile-policy", rank |-> c.rank,
         cycles |-> IF c.extrapolated > 0 THEN c.extrapolated ELSE c.cycles,
         reliability |-> "ranking-diagnostic"]]

Evidence == FullLayerEvidence \o TilePolicyEvidence
ReadyForFeedback == \E row \in Range(FullLayerEvidence) : row.reliability = "design-target"

Feedback(scope) ==
  SelectSeq(Evidence, LAMBDA row :
    /\ row.cycles > 0 /\ row.reliability # "unmatched"
    /\ \/ scope = "all"
       \/ scope = "full-layer" /\ row.scope = scope /\ row.reliability = "design-target"
       \/ scope = "tile-policy" /\ row.scope = scope /\ row.reliability = "ranking-diagnostic")

\* The policy that says which of the files to train from counts the rows again.
PolicyCounts ==
  LET rows(P(_)) == Len(SelectSeq(Evidence, P))
  IN [full |-> rows(LAMBDA row : /\ row.scope = "full-layer" /\ row.cycles > 0
                                 /\ row.reliability = "design-target"),
      tile |-> rows(LAMBDA row : /\ row.scope = "tile-policy" /\ row.cycles > 0
                                 /\ row.reliability = "ranking-diagnostic"),
      unmatched |-> rows(LAMBDA row : row.reliability = "unmatched" \/ row.cycles = 0)]

-----------------------------------------------------------------------------
(* How long a tool may take. *)

Unset == 0
OrElse(limit, fallback) == IF limit = Unset THEN fallback ELSE limit

EffectiveTimeout(l) == Max({Half, l.saved, OrElse(l.tool, OrElse(l.generic, 600))})
TopkTimeout(l) == Max({Half, OrElse(l.topk, Min({EffectiveTimeout(l), 1800}))})

-----------------------------------------------------------------------------
NoLimits == [generic |-> 0, tool |-> 0, topk |-> 0, saved |-> 0]

ToolResultsInit ==
  /\ left = Nobody /\ work = <<>> /\ answer = NoMeasure
  /\ \/ /\ tphase = "limits" /\ call = NotCalled
        /\ limits \in [generic : TimeLimits, tool : TimeLimits, topk : TimeLimits, saved : TimeLimits]
     \/ tphase = "start" /\ call = NotCalled /\ limits = NoLimits

\* An attempt of a job begins, possibly where an earlier one has left its output.
StartTool ==
  /\ tphase = "start"
  /\ \E tool \in {"scalesim", "iree"}, configured \in BOOLEAN, explicit \in {<<>>, <<"python3">>} :
       call' = [NotCalled EXCEPT !.tool = tool, !.configured = configured, !.explicit = explicit]
  /\ left' \in {Nobody, EarlierRun}
  /\ tphase' = "trying"
  /\ UNCHANGED <<work, answer, limits>>

TileCandidates ==
  {<<>>, <<TileCandidate(1, 1, 3, 4), TileCandidate(1, 2, 0, 5)>>,
   <<TileCandidate(1, 1, 2, 0), TileCandidate(2, 1, 2, 3)>>}

ToolResultsNext ==
  \/ StartTool
  \/ \E outcome \in Outcomes : TryScaleSim(outcome) \/ TryIree(outcome)
  \/ OutOfCandidates
  \/ ReadReport
  \/ \E ops \in Workloads : SkipFullLayer(ops)
  \/ \E ops \in Workloads, rows \in UNION {[1..n -> LayerCycles] : n \in 0..MaxOps} :
       ParseReport(ops, rows)
  \/ \E ops \in Workloads, candidates \in TileCandidates : FallBackToTiles(ops, candidates)
  \/ \E candidates \in TileCandidates : MeasureTiles(candidates)

ToolResultsSpec == ToolResultsInit /\ [][ToolResultsNext]_tvars

-----------------------------------------------------------------------------
\* The state has the shape the code relies on.
ToolResultsTypeOK ==
  /\ tphase \in {"start", "trying", "report", "rows", "topk", "judged", "compiled", "failed", "limits"}
  /\ call.next \in 1..10 /\ call.ran < 10 /\ left \in (0..9) \union {EarlierRun}
  /\ work \in Workloads \union {<<>>}
  /\ \A layer \in Range(answer.layers) : layer.of \in 1..Len(work) /\ layer.cycles > 0
  /\ \A l \in {limits[x] : x \in DOMAIN limits} : l \in TimeLimits \union {0}

(* A tool's answer is taken from what the last command that began to write has *)
(* left: that is the command the summary names wherever it wrote anything, and *)
(* never a later one.  A command that ends well without its output is credited  *)
(* with what a candidate before it left when it broke off, or, where none began, *)
(* with what an earlier attempt of the job left.                               *)
AnswerIsOwn ==
  tphase \in {"report", "compiled"} =>
    /\ left = (IF call.wrote = 0 THEN EarlierRun ELSE call.wrote)
    /\ call.wrote <= call.ran
    /\ tphase = "compiled" => answer.vmfb = left

(* A tool is given up only when a command ended without its output or every    *)
(* candidate failed, no candidate is there twice, and each failure is shown or *)
(* counted among the hidden ones.                                              *)
EveryCandidateTried ==
  /\ call.tool # "none" =>
       /\ \A i, j \in DOMAIN CallCandidates : CallCandidates[i] = CallCandidates[j] => i = j
       /\ call.shown + call.hidden = call.next - 1
  /\ tphase = "failed" => IF call.ran # 0 THEN call.tool = "scalesim" /\ left = Nobody
                         ELSE call.shown + call.hidden = Len(CallCandidates)

NamesApart ==
  \A i, j \in DOMAIN work :
    i # j => ~Includes(Normalized(work[i].name), Normalized(work[j].name))

(* As long as no operator's name is part of another's, each operator is given  *)
(* its own layer, those without a row none, so that the operators' cycles add  *)
(* up to the tool's total.                                                     *)
LayersAreOwn ==
  (tphase = "judged" /\ NamesApart) =>
    LET matched(i) == MatchLayer(work[i], answer.layers)
    IN /\ \A i \in DOMAIN work :
            matched(i).of = IF \E layer \in Range(answer.layers) : layer.of = i THEN i ELSE 0
       /\ Actual = FoldLeft(LAMBDA sum, i : sum + matched(i).cycles, 0, [i \in DOMAIN work |-> i])

(* The reports of one run do not contradict each other: what the summary calls *)
(* applied the full report does too, unless no layer had cycles; cycles that   *)
(* agree are graded so, and the validation report has a sample of exactly the  *)
(* operators the evidence calls design targets.                                *)
ReportsAgree ==
  tphase = "judged" =>
    /\ QuickSaysApplied = HasActual
    /\ ReportSaysApplied # QuickSaysApplied => answer.layers = <<>> /\ answer.report
    /\ Grade(Actual, PredictedTotal) \in {"excellent", "good"} => Verdict = "close"
    /\ Grade(Actual, PredictedTotal) = "poor" => Verdict \in {"larger", "smaller"}
    /\ ValidationSamples =
         {row.op : row \in {r \in Range(FullLayerEvidence) : r.reliability = "design-target"}}

(* What is fed back was measured, full layers and tiles are kept apart, none is *)
(* lost between them, a ledger that calls itself ready feeds something back, and *)
(* the policy's counts are those of the files it recommends.                    *)
FeedbackIsMeasured ==
  tphase = "judged" =>
    /\ Feedback("all") = Feedback("full-layer") \o Feedback("tile-policy")
    /\ ReadyForFeedback = (Feedback("full-layer") # <<>>)
    /\ \A row \in Range(Feedback("full-layer")) :
         \E layer \in Range(answer.layers) : layer.cycles = row.cycles
    /\ Len(Feedback("tile-policy")) = Len(answer.topk)
    /\ PolicyCounts = [full |-> Len(Feedback("full-layer")), tile |-> Len(Feedback("tile-policy")),
                       unmatched |-> Len(Evidence) - Len(Feedback("all"))]
    /\ \A i \in DOMAIN answer.topk :
         answer.topk[i].tiles > 0 =>
           Feedback("tile-policy")[i].cycles = answer.topk[i].tiles * answer.topk[i].cycles

(* A tool always has half a minute, what was saved with the job is honoured,   *)
(* and the best tiles have no more time than the full layer unless they are    *)
(* given a limit of their own.                                                 *)
LimitsAreSane ==
  tphase = "limits" =>
    /\ Min({EffectiveTimeout(limits), TopkTimeout(limits)}) >= Half
    /\ EffectiveTimeout(limits) >= limits.saved
    /\ limits.topk = Unset => TopkTimeout(limits) <= EffectiveTimeout(limits)
=============================================================================
