--------------------------- MODULE SuiteTraining ---------------------------
(***************************************************************************)
(* One training job of the estimator suite from its submission to its end. *)
(* The route app/api/estimator-suite/route.ts creates the job, uploads its *)
(* data into the directory of the job and only then saves the record with  *)
(* the payload that names the data; a worker may claim the job before      *)
(* (runEstimatorSuiteTrainingJob of server/workerRunner.ts).               *)
(*                                                                         *)
(* Both sides save their own copy of the whole record.  The lock keeps     *)
(* other workers away, so there is one; a save is one step (AtomicFile).   *)
(***************************************************************************)
EXTENDS Naturals

CONSTANT TrainingAttempts  \* maxAttempts of the job

ASSUME TrainingAssumption == TrainingAttempts \in Nat \ {0}

VARIABLES
  enough,    \* the data hold at least 40 samples of the scope asked for
  datasetJob,\* the data are data sets (dataset-job), not one CSV (suite-job)
  wantsActive, \* the submission asks for the activation (activate is not false)
  rec,       \* job.json: status, payload, attempts, listed artifacts
  route,     \* where the request is
  data,      \* the uploaded file: "absent", "full" or "empty"
  train,     \* where the worker is with the job
  mem,       \* the copy of the record the worker goes by
  samples,   \* the worker has found enough samples
  local,     \* the artifacts in the directory of the job
  runDir,    \* the artifacts in the directory of the training run
  activated, \* the model of this run has been activated
  overtaken, \* the job was claimed before its payload was saved
  mishap     \* a step of the training has thrown

svars == <<enough, datasetJob, wantsActive, rec, route, data, train, mem, samples, local,
           runDir, activated, overtaken, mishap>>
given == <<enough, datasetJob, wantsActive>>
ghosts == <<overtaken, mishap>>

Record(s) == [status |-> s, payload |-> FALSE, attempts |-> 0, listed |-> {}]
NoRecord == Record("none")
Settled == rec.status \in {"succeeded", "failed"}

TrainingInit ==
  /\ enough \in BOOLEAN /\ datasetJob \in BOOLEAN /\ wantsActive \in BOOLEAN
  /\ rec = NoRecord /\ mem = NoRecord
  /\ route = "create" /\ train = "idle"
  /\ data = "absent" /\ samples = FALSE
  /\ local = {} /\ runDir = {}
  /\ activated = FALSE /\ overtaken = FALSE /\ mishap = FALSE

\* createJob: from here on a worker can see the job.
CreateTraining ==
  /\ route = "create"
  /\ rec' = Record("queued")
  /\ route' = "upload"
  /\ UNCHANGED <<given, data, train, mem, samples, local, runDir, activated, ghosts>>

Upload ==
  /\ route = "upload"
  /\ data' = "full"
  /\ route' = "resave"
  /\ UNCHANGED <<given, rec, train, mem, samples, local, runDir, activated, ghosts>>

\* The second saveJob writes the record of the creation, with the payload, over
\* whatever a worker has made of it.
SavePayload ==
  /\ route = "resave"
  /\ rec' = [Record("queued") EXCEPT
               !.payload = TRUE, !.listed = IF datasetJob THEN {} ELSE {"input"}]
  /\ route' = "answered"
  /\ UNCHANGED <<given, data, train, mem, samples, local, runDir, activated, ghosts>>

\* The worker saves its copy.
Save(m) == mem' = m /\ rec' = m

\* Claim and first save of the run, which counts the attempt.
ClaimTraining ==
  /\ train = "idle" /\ rec.status = "queued"
  /\ Save([rec EXCEPT !.status = "running", !.attempts = @ + 1])
  /\ train' = "dataset"
  /\ samples' = FALSE
  /\ overtaken' = (overtaken \/ ~rec.payload)
  /\ UNCHANGED <<given, route, data, local, runDir, activated, mishap>>

\* Fault: only data sent inside the payload are read, not the files it names.
HasDataInline == FALSE

\* What the payload names is read; without a payload there is nothing to read.
HasData == mem.payload /\ data = "full"

\* The data are read and written down again.  A job without payload is taken for
\* one with an inline CSV, and its empty text goes where the CSV is uploaded.
PrepareDataset ==
  /\ train = "dataset"
  /\ samples' = (HasData /\ enough)
  /\ LET art == IF mem.payload /\ datasetJob THEN {"dataset"} ELSE {"input"} IN
     /\ Save([mem EXCEPT !.listed = @ \cup art])
     /\ runDir' = runDir \cup art
     /\ local' = local \cup art
  /\ data' = IF ~mem.payload /\ ~datasetJob THEN "empty" ELSE data
  /\ train' = "policy"
  /\ UNCHANGED <<given, route, activated, ghosts>>

\* Fault: the end of an attempt is logged, not saved.
AttemptEndsSilently ==
  /\ train' = "idle"
  /\ UNCHANGED <<mem, rec>>

\* A step ends the attempt: another one while there are some left.
AttemptEnds ==
  /\ Save([mem EXCEPT !.status =
             IF mem.attempts < TrainingAttempts THEN "queued" ELSE "failed"])
  /\ train' = "idle"

\* The files of the training policy are written before the samples are counted.
ApplyPolicy ==
  /\ train = "policy"
  /\ local' = local \cup {"policy"} /\ runDir' = runDir \cup {"policy"}
  /\ Save([mem EXCEPT !.listed = @ \cup {"policy"}])
  /\ train' = "count"
  /\ UNCHANGED <<given, route, data, samples, activated, ghosts>>

TooFewSamples ==
  /\ train = "count" /\ ~samples
  /\ AttemptEnds
  /\ UNCHANGED <<given, route, data, samples, local, runDir, activated, ghosts>>

\* trainEstimatorSuite saves its progress all the time.
TrainSuite ==
  /\ train = "count" /\ samples
  /\ Save(mem)
  /\ train' = "write"
  /\ UNCHANGED <<given, route, data, samples, local, runDir, activated, ghosts>>

\* Fault: the model is left in the directory of the run.
ModelInJobNever == {}

\* The model files go to both directories.
ModelInJob == {"model"}

WriteModel ==
  /\ train = "write"
  /\ runDir' = runDir \cup {"model"} /\ local' = local \cup ModelInJob
  /\ mem' = [mem EXCEPT !.listed = @ \cup {"model"}]
  /\ train' = "activate"
  /\ UNCHANGED <<given, rec, route, data, samples, activated, ghosts>>

\* What the worker reads of activate: a record without payload says nothing of it, and
\* so does not say false.
AsksForActivation(m) == m.payload => wantsActive

\* activateEstimatorSuiteModel, unless told not to (ActiveModel has its steps).
ActivateTrained ==
  /\ train = "activate"
  /\ activated' = (activated \/ AsksForActivation(mem))
  /\ Save(mem)
  /\ train' = "finish"
  /\ UNCHANGED <<given, route, data, samples, local, runDir, ghosts>>

FinishTraining ==
  /\ train = "finish"
  /\ Save([mem EXCEPT !.status = "succeeded"])
  /\ train' = "idle"
  /\ UNCHANGED <<given, route, data, samples, local, runDir, activated, ghosts>>

\* Any step may throw: a write fails, the training does.
TrainingThrows ==
  /\ train # "idle"
  /\ mishap' = TRUE
  /\ AttemptEnds
  /\ UNCHANGED <<given, route, data, samples, local, runDir, activated, overtaken>>

SubmitStep == CreateTraining \/ Upload \/ SavePayload
TrainStep ==
  \/ ClaimTraining \/ PrepareDataset \/ ApplyPolicy \/ TooFewSamples \/ TrainSuite
  \/ WriteModel \/ ActivateTrained \/ FinishTraining

TrainingNext == SubmitStep \/ TrainStep \/ TrainingThrows

-----------------------------------------------------------------------------
(* Properties *)

Artifacts == {"input", "dataset", "policy", "model"}
Recs == [status : {"none", "queued", "running", "succeeded", "failed"},
         payload : BOOLEAN, attempts : 0..TrainingAttempts, listed : SUBSET Artifacts]

\* Every variable has the type its comment gives it.
TrainingTypeOK ==
  /\ {enough, datasetJob, wantsActive} \subseteq BOOLEAN
  /\ rec \in Recs /\ mem \in Recs
  /\ route \in {"create", "upload", "resave", "answered"}
  /\ data \in {"absent", "full", "empty"}
  /\ train \in {"idle", "dataset", "policy", "count", "write", "activate", "finish"}
  /\ {samples, activated, overtaken, mishap} \subseteq BOOLEAN
  /\ local \subseteq Artifacts /\ runDir \subseteq Artifacts

\* A submission that no worker has overtaken is trained if its data allow it and
\* nothing goes wrong, and fails if they do not.
SubmittedIsTrained ==
  Settled /\ ~overtaken /\ ~mishap =>
    (rec.status = "succeeded" <=> enough)

\* A job that has succeeded lists a model, that model lies in both directories
\* and is from data that were enough: also when the job was overtaken, or needed
\* several attempts.  The model is then active if and only if the submission asked
\* for it, and no attempt of one that did not ask activates anything, though a worker
\* that overtakes the submission reads a record without its answer.
SucceededHasModel ==
  /\ activated => wantsActive
  /\ rec.status = "succeeded" =>
       /\ "model" \in rec.listed \cap local \cap runDir
       /\ enough /\ (activated <=> wantsActive)

\* However the saves of the route and of the worker overwrite each other, the job
\* settles for good once it has been submitted.
SettledForGood == route = "answered" /\ Settled
TrainingSettles == <>[]SettledForGood
=============================================================================
