---------------------------- MODULE ScopePolicy ----------------------------
(***************************************************************************)
(* What a model was trained on and what it may correct.  A sample's target *)
(* is the full layer, the tile policy or, in old files, unnamed ("mixed"). *)
(* lib/estimatorSuiteTrainingPolicy selects the samples of a training,     *)
(* lib/estimatorSuite derives the scope of the model from the samples it   *)
(* was given, and lib/estimatorSuiteApply decides by that scope alone      *)
(* which cycles of an estimate the active model corrects.                  *)
(***************************************************************************)
EXTENDS Naturals, FiniteSets

CONSTANTS
  MaxSamples,  \* bound: the samples of a scope
  MinSamples   \* how many a training needs (40)

ASSUME ScopeAssumption == MaxSamples \in Nat /\ MinSamples \in Nat \ {0}

Scopes == {"full-layer", "tile-policy", "mixed"}

\* parseRequestedScope: whatever is not one of these is "auto".
Requested == {"auto", "full-layer", "tile-policy", "all"}

VARIABLES
  dataset,   \* the samples in the panel, per scope
  runs,      \* the models of the last training on disk
  activeRun  \* the set of the active model, or {}

polvars == <<dataset, runs, activeRun>>

NoSamples == [s \in Scopes |-> 0]

PolicyInit ==
  /\ dataset = NoSamples
  /\ runs = {} /\ activeRun = {}

Some(d, s) == d[s] > 0
Count(d) == d["full-layer"] + d["tile-policy"] + d["mixed"]
Only(d, s) == [t \in Scopes |-> IF t = s THEN d[t] ELSE 0]

\* Samples are measured, uploaded or taken out.
SamplesChange ==
  /\ \E s \in Scopes : \E c \in 0..MaxSamples :
       /\ c # dataset[s]
       /\ dataset' = [dataset EXCEPT ![s] = c]
  /\ UNCHANGED <<runs, activeRun>>

\* Fault: without enough full-layer samples auto takes what there is.
SelectsAutoAll(d) == IF d["full-layer"] >= MinSamples THEN Only(d, "full-layer") ELSE d

\* auto: full-layer samples if there are any, else those of the tile policy.
SelectsAuto(d) ==
  IF Some(d, "full-layer") THEN Only(d, "full-layer")
  ELSE IF Some(d, "tile-policy") THEN Only(d, "tile-policy")
  ELSE Only(d, "mixed")

\* A scope that was asked for; old rows stand in for it when there are no others.
SelectsScope(d, s) ==
  LET other == CHOOSE t \in {"full-layer", "tile-policy"} : t # s IN
  IF Some(d, s) THEN Only(d, s)
  ELSE IF Some(d, "mixed") /\ ~Some(d, other) THEN Only(d, "mixed")
  ELSE NoSamples

\* applyEstimatorSuiteTrainingPolicy
Selects(d, r) ==
  CASE r = "all" -> d
    [] r = "auto" -> SelectsAuto(d)
    [] OTHER -> SelectsScope(d, r)

\* effectiveScope of the policy file.
EffectiveScope(d, r) ==
  IF r = "all" THEN "all"
  ELSE LET chosen == {s \in Scopes : Some(Selects(d, r), s)} IN
       IF chosen = {} THEN IF r = "auto" THEN "full-layer" ELSE r
       ELSE CHOOSE s \in chosen : TRUE

\* primaryTargetScope: a scope most samples have, which of equals depends on their
\* order.
PrimaryScopes(d) ==
  {s \in Scopes : Some(d, s) /\ \A t \in Scopes : d[t] <= d[s]}

\* A training on the samples of the panel, as a job or in the request itself.
Train ==
  /\ \E r \in Requested : \E p \in PrimaryScopes(Selects(dataset, r)) :
       /\ Count(Selects(dataset, r)) >= MinSamples
       /\ runs' = {[of |-> Selects(dataset, r), asked |-> r,
                    policy |-> EffectiveScope(dataset, r), primary |-> p]}
  /\ UNCHANGED <<dataset, activeRun>>

\* buildScopedEstimatorPipeline: one model for each of the two scopes with enough
\* samples; there is no policy file, the directory names the scope.
TrainScoped ==
  /\ runs' =
       {[of |-> Only(dataset, s), asked |-> s, policy |-> s, primary |-> s] :
          s \in {t \in {"full-layer", "tile-policy"} : dataset[t] >= MinSamples}}
  /\ UNCHANGED <<dataset, activeRun>>

\* activateEstimatorSuiteModel, clearActiveEstimatorSuiteModel
ActivateRun ==
  /\ \E m \in runs : activeRun' = {m}
  /\ UNCHANGED <<dataset, runs>>
ClearActive ==
  /\ activeRun # {} /\ activeRun' = {}
  /\ UNCHANGED <<dataset, runs>>

\* Fault: full-layer cycles are corrected by every model.
CorrectsFullAlways(m) == TRUE

\* The models that correct full-layer cycles; the others adjust the tiles.
CorrectsFull(m) == m.primary = "full-layer"

\* applyEstimatorSuiteToSearchResponse: what an estimate is corrected with now, and
\* the scope its summary names.
estimate ==
  [tile |-> {m \in activeRun : ~CorrectsFull(m)},
   full |-> {m \in activeRun : CorrectsFull(m)},
   says |-> IF activeRun = {} THEN "mixed" ELSE (CHOOSE m \in activeRun : TRUE).primary]

PolicyNext ==
  \/ SamplesChange \/ Train \/ TrainScoped
  \/ ActivateRun \/ ClearActive

-----------------------------------------------------------------------------
(* Properties *)

\* Models were trained on enough samples, and an estimate has one correction.
PolicyTypeOK ==
  /\ dataset \in [Scopes -> 0..MaxSamples]
  /\ \A m \in runs : Count(m.of) >= MinSamples /\ m.primary \in Scopes
  /\ Cardinality(activeRun) <= 1
  /\ Cardinality(estimate.tile \cup estimate.full) <= 1

\* Full-layer cycles are corrected only by a model of full-layer samples, however the
\* samples changed before and after, except one for which all samples were asked for
\* ("all"): other samples may then be mixed in, though tile-policy rows should not be
\* (estimatorSuiteTrainingPolicy.ts:172) and a mixed model should correct none
\* (estimatorSuiteApply.ts:252), but never more of another scope than full-layer ones.
CyclesFromFullLayer ==
  \A m \in estimate.full :
    /\ m.asked # "all" => m.of = Only(m.of, "full-layer")
    /\ m.of["full-layer"] > 0 /\ \A s \in Scopes : m.of[s] <= m.of["full-layer"]

\* The tile ranking never depends on full-layer samples alone, an estimate never names
\* another scope for its model than one with the most samples, and unless all were asked
\* for it names the one of the policy file of the training.
EstimateTellsScope ==
  /\ \A m \in estimate.tile : m.of # Only(m.of, "full-layer")
  /\ \A m \in estimate.tile \cup estimate.full :
       /\ \A s \in Scopes : m.of[s] <= m.of[estimate.says]
       /\ m.asked # "all" => estimate.says = m.policy
=============================================================================
