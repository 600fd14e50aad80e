----------------------------- MODULE JobStages -----------------------------
(***************************************************************************)
(* What the attempts at one job leave in its directory: the stages of      *)
(* runJobOnce (server/workerRunner.ts), their artifacts, the markers that  *)
(* let a retry reuse a stage, job.artifacts, and the integrity manifest    *)
(* that the last step verifies (server/artifactIntegrity.ts).              *)
(*                                                                         *)
(* JobQueue has the locks, checkpoints and saves of a run; here a run is   *)
(* alone with its directory and any step of it may throw.  Each write of a *)
(* file is a step.  The contents of a file are which attempt wrote it and  *)
(* which outcomes of the external tools it tells of.                       *)
(***************************************************************************)
EXTENDS Naturals, JobStatus

CONSTANTS
  MaxAttempts,   \* job.maxAttempts
  BigLogs        \* the logs that may exceed the size limit of the pruning

ASSUME StagesAssumption ==
  MaxAttempts \in Nat \ {0} /\ BigLogs \subseteq {"scale_log", "top3_log"}

VARIABLES
  kind,       \* job.kind (training jobs have stages of their own)
  mode,       \* job.request.scaleSim.measurementMode
  skip,       \* job.request.scaleSim.skipOnTimeout
  status,     \* job.status
  attempts,   \* job.attempts
  pc,         \* where the attempt is
  disk,       \* the contents of each file, Absent when there is none
  marked,     \* the stages with a marker file
  listed,     \* job.artifacts, without artifact_integrity.json
  warned,     \* job.warnings is not empty
  manifest,   \* artifact_integrity.json: the hashed contents, Absent when not in it
  topk,       \* what the top-k run of this attempt has given so far
  scale,      \* scaleSummary of this attempt
  iree        \* ireeSummary of this attempt

job == <<kind, mode, skip>>
files == <<disk, manifest>>
record == <<status, attempts, listed, warned>>
tools == <<topk, scale, iree>>
vars == <<job, record, pc, files, marked, tools>>

Kinds == {"estimate", "scalesim", "iree-compile", "full-pipeline"}
Modes == {"full-layer", "tile-policy", "both"}
UsesScale == kind \in {"scalesim", "full-pipeline"}
UsesIree == kind \in {"iree-compile", "full-pipeline"}

\* "result" stands for the estimator's files but the report; "external" for
\* the reports appendExternalReport writes beside it; a log for the log and the
\* COMPUTE_REPORT.csv of one run of a tool, of which only the log can be pruned;
\* "iree_summary" for that and the compiled module.
Files == {"result", "report", "external", "scale_log", "scale_summary",
          "top3_log", "top3_summary", "iree_summary"}
Base == {"result", "report"}

\* A tool ran, ran without its top-k part, was skipped, or failed.
Outcomes == {"none", "ok", "partial", "skipped", "failed"}
Content == [by : Nat, scale : Outcomes, iree : Outcomes]
Absent == [by |-> 0, scale |-> "none", iree |-> "none"]
Written(s, i) == [by |-> attempts, scale |-> s, iree |-> i]
Plain == Written("none", "none")

Put(f, c) == disk' = [disk EXCEPT ![f] = c]

\* A tool that ran to its end leaves its log, which the pruning of raw output
\* removes again when it is too big.
Log(f) == {Plain} \cup (IF f \in BigLogs THEN {Absent} ELSE {})

Pcs == {"queued", "estimate", "report", "result", "hash", "scale", "topk", "scale_end",
        "scale_fail", "fallback", "scale_mark", "iree", "iree_mark", "external",
        "final_report", "refresh", "verify", "catch", "over"}

-----------------------------------------------------------------------------
(* Begin, and the artifacts of the estimator *)

\* The job has been claimed: runJob counts the attempt.
Begin ==
  /\ pc = "queued"
  /\ status' = "running" /\ attempts' = attempts + 1
  /\ pc' = "estimate"
  /\ topk' = "none" /\ scale' = "none" /\ iree' = "none"
  /\ UNCHANGED <<job, files, marked, listed, warned>>

\* The estimate is computed, or its marker lets it be read or computed again:
\* the response is the same.
Estimate ==
  /\ pc = "estimate"
  /\ pc' = "report"
  /\ UNCHANGED <<job, record, files, marked, tools>>

\* writeArtifacts: the files in their order, the report before result.json ...
WriteReport ==
  /\ pc = "report"
  /\ Put("report", Plain)
  /\ pc' = "result"
  /\ UNCHANGED <<job, record, manifest, marked, tools>>

WriteResult ==
  /\ pc = "result"
  /\ Put("result", Plain)
  /\ pc' = "hash"
  /\ UNCHANGED <<job, record, manifest, marked, tools>>

\* The manifest of a set of files, each of which must be there.
Hashed(names) == [f \in Files |-> IF f \in names THEN disk[f] ELSE Absent]

\* ... and the manifest of just these files.
HashArtifacts ==
  /\ pc = "hash"
  /\ manifest' = Hashed(Base)
  /\ listed' = listed \cup Base
  /\ pc' = "scale"
  /\ UNCHANGED <<job, status, attempts, warned, disk, marked, tools>>

-----------------------------------------------------------------------------
(* SCALE-Sim: runScaleSimForJob, runScaleSimTopkForJob *)

\* Fault: the markers are never looked at.
DoneNever(s) == FALSE
\* hasStageMarker: the stage was finished by an earlier attempt.
Done(s) == s \in marked

\* A kind without SCALE-Sim passes the stage; a marked stage is reused, with
\* the summary its run has left.
ScaleReuse ==
  /\ pc = "scale"
  /\ UsesScale => Done("scale")
  /\ scale' = IF UsesScale THEN disk["scale_summary"].scale ELSE "none"
  /\ pc' = "iree"
  /\ UNCHANGED <<job, record, files, marked, topk, iree>>

\* The run over the full layers ends well or fails, with or without a log;
\* tile-policy has none.
ScaleRun ==
  /\ pc = "scale" /\ UsesScale /\ ~Done("scale")
  /\ \/ /\ mode = "tile-policy" /\ pc' = "topk"
        /\ UNCHANGED disk
     \/ /\ mode # "tile-policy"
        /\ \E log \in Log("scale_log") : Put("scale_log", log)
        /\ pc' = IF mode = "full-layer" THEN "scale_end" ELSE "topk"
     \/ /\ mode # "tile-policy"
        /\ (\E log \in Log("scale_log") : Put("scale_log", log)) \/ UNCHANGED disk
        /\ pc' = "scale_fail"
  /\ UNCHANGED <<job, record, manifest, marked, tools>>

\* The run over the top-k tiles leaves its files, or finds no candidates.
TopkRuns ==
  \/ /\ \E log \in Log("top3_log") :
          disk' = [disk EXCEPT !["top3_log"] = log, !["top3_summary"] = Plain]
     /\ listed' = listed \cup {"top3_log", "top3_summary"}
     /\ topk' = "ok"
  \/ topk' = "none" /\ UNCHANGED <<disk, listed>>

\* Or it fails, with or without a log.
TopkFails ==
  /\ (\E log \in Log("top3_log") : Put("top3_log", log)) \/ UNCHANGED disk
  /\ UNCHANGED listed

\* Its failure is a warning when the request says so, and fails the stage otherwise.
ScaleTopk ==
  /\ pc = "topk"
  /\ \/ TopkRuns /\ pc' = "scale_end" /\ UNCHANGED warned
     \/ skip /\ TopkFails /\ warned' = TRUE /\ topk' = "failed" /\ pc' = "scale_end"
     \/ ~skip /\ TopkFails /\ pc' = "scale_fail" /\ UNCHANGED <<warned, topk>>
  /\ UNCHANGED <<job, status, attempts, manifest, marked, scale, iree>>

\* Fault: the summary of the top-k part is listed, whether or not it had candidates.
ScaleListedTopk ==
  {"scale_summary"} \cup (IF mode = "tile-policy" THEN {} ELSE {"scale_log"})
    \cup (IF mode = "full-layer" THEN {} ELSE {"top3_summary"})
\* The names a successful stage adds: tile-policy has no log of a full run.
ScaleListed == {"scale_summary"} \cup (IF mode = "tile-policy" THEN {} ELSE {"scale_log"})

\* The summary of the stage; an exception after it is still one of the stage.
ScaleEnd ==
  /\ pc = "scale_end"
  /\ scale' = IF topk = "failed" THEN "partial" ELSE "ok"
  /\ Put("scale_summary", Written(scale', "none"))
  /\ listed' = listed \cup ScaleListed
  /\ pc' \in {"scale_mark", "scale_fail"}
  /\ UNCHANGED <<job, status, attempts, warned, manifest, marked, topk, iree>>

\* The catch of runScaleSimForJob tries the top-k part (again) when failures
\* are to be skipped.
ScaleFallback ==
  /\ pc = "scale_fail" /\ skip
  /\ pc' = "fallback"
  /\ \/ mode # "full-layer" /\ TopkRuns
     \/ mode # "full-layer" /\ TopkFails /\ topk' = "none"
     \/ mode = "full-layer" /\ topk' = "none" /\ UNCHANGED <<disk, listed>>
  /\ UNCHANGED <<job, status, attempts, warned, manifest, marked, scale, iree>>

\* The stage ends as skipped, with a warning ...
ScaleSkipped ==
  /\ pc = "fallback"
  /\ scale' = "skipped"
  /\ Put("scale_summary", Written("skipped", "none"))
  /\ listed' = listed \cup {"scale_summary"}
  /\ warned' = TRUE
  /\ pc' = "scale_mark"
  /\ UNCHANGED <<job, status, attempts, manifest, marked, topk, iree>>

\* Fault: the stage is marked although it failed.
MarkedAfterFailureToo(s) == marked \cup {s}
\* A failed stage gets no marker.
MarkedAfterFailure(s) == marked

\* ... or as failed, which ends the attempt.
ScaleFailed ==
  /\ pc = "scale_fail" /\ ~skip
  /\ Put("scale_summary", Written("failed", "none"))
  /\ listed' = listed \cup {"scale_summary"}
  /\ marked' = MarkedAfterFailure("scale")
  /\ pc' = "catch"
  /\ UNCHANGED <<job, status, attempts, warned, manifest, tools>>

ScaleMark ==
  /\ pc = "scale_mark"
  /\ marked' = marked \cup {"scale"}
  /\ pc' = "iree"
  /\ UNCHANGED <<job, record, files, tools>>

-----------------------------------------------------------------------------
(* IREE: runIreeForJob *)

IreeReuse ==
  /\ pc = "iree"
  /\ UsesIree => Done("iree")
  /\ iree' = IF UsesIree THEN disk["iree_summary"].iree ELSE "none"
  /\ pc' = "external"
  /\ UNCHANGED <<job, record, files, marked, topk, scale>>

\* A compiler candidate succeeds, or all of them fail.
IreeRun ==
  /\ pc = "iree" /\ UsesIree /\ ~Done("iree")
  /\ \/ /\ iree' = "ok" /\ Put("iree_summary", Written("none", "ok"))
        /\ pc' = "iree_mark"
     \/ /\ Put("iree_summary", Written("none", "failed"))
        /\ pc' = "catch"
        /\ UNCHANGED iree
  /\ listed' = listed \cup {"iree_summary"}
  /\ UNCHANGED <<job, status, attempts, warned, manifest, marked, topk, scale>>

IreeMark ==
  /\ pc = "iree_mark"
  /\ marked' = marked \cup {"iree"}
  /\ pc' = "external"
  /\ UNCHANGED <<job, record, files, tools>>

-----------------------------------------------------------------------------
(* The report, the manifest and the end *)

\* appendExternalReport: the external report, then the report with it inside.
WriteExternal ==
  /\ pc = "external"
  /\ Put("external", Written(scale, iree))
  /\ pc' = "final_report"
  /\ UNCHANGED <<job, record, manifest, marked, tools>>

WriteFinalReport ==
  /\ pc = "final_report"
  /\ Put("report", Written(scale, iree))
  /\ listed' = listed \cup {"external", "report"}
  /\ pc' = "refresh"
  /\ UNCHANGED <<job, status, attempts, warned, manifest, marked, tools>>

\* Fault: the manifest covers what writeArtifacts has written, as before.
ManifestNamesBase == Base
\* What refreshIntegrityManifest hashes: everything job.artifacts names.
ManifestNames == listed

\* A name without a file is an exception.
Refresh ==
  /\ pc = "refresh"
  /\ IF \A f \in ManifestNames : disk[f] # Absent
     THEN manifest' = Hashed(ManifestNames) /\ pc' = "verify"
     ELSE pc' = "catch" /\ UNCHANGED manifest
  /\ UNCHANGED <<job, record, disk, marked, tools>>

\* verifyRequiredArtifacts.
Verified ==
  /\ \A f \in Base : disk[f] # Absent
  /\ \A f \in Files : manifest[f] # Absent => manifest[f] = disk[f]

\* Fault: the name of the last stage is saved as the status.
EndedAsStage == IF Verified THEN "done" ELSE "failed"
\* The status the verified job ends with.
Ended ==
  CASE ~Verified -> "failed"
    [] Verified /\ warned -> "succeeded_with_warnings"
    [] OTHER -> "succeeded"

Verify ==
  /\ pc = "verify"
  /\ status' = Ended
  /\ pc' = "over"
  /\ UNCHANGED <<job, attempts, listed, warned, files, marked, tools>>

\* Any write or tool may throw; within the try of runScaleSimForJob it is a
\* failure of the stage.
Throw ==
  /\ pc \notin {"queued", "catch", "over"}
  /\ pc' = IF pc \in {"topk", "scale_end"} THEN "scale_fail" ELSE "catch"
  /\ UNCHANGED <<job, record, files, marked, tools>>

\* Fault: a retry starts without the warnings of the attempt before.
RetriedWithoutWarnings == FALSE
\* The warnings stay in the record.
Retried == warned

\* The catch of runJob: another attempt, on the same record and directory.
Catch ==
  /\ pc = "catch"
  /\ IF attempts < MaxAttempts
     THEN status' = "queued" /\ pc' = "queued" /\ warned' = Retried
     ELSE status' = "failed" /\ pc' = "over" /\ UNCHANGED warned
  /\ UNCHANGED <<job, attempts, listed, files, marked, tools>>

-----------------------------------------------------------------------------
(* Specification *)

Init ==
  /\ kind \in Kinds /\ mode \in Modes /\ skip \in BOOLEAN
  /\ status = "queued" /\ attempts = 0 /\ pc = "queued"
  /\ disk = [f \in Files |-> Absent]
  /\ manifest = [f \in Files |-> Absent]
  /\ marked = {} /\ listed = {} /\ warned = FALSE
  /\ topk = "none" /\ scale = "none" /\ iree = "none"

EstimatorStep == Begin \/ Estimate \/ WriteReport \/ WriteResult \/ HashArtifacts
ScaleStep ==
  \/ ScaleReuse \/ ScaleRun \/ ScaleTopk \/ ScaleEnd
  \/ ScaleFallback \/ ScaleSkipped \/ ScaleFailed \/ ScaleMark
IreeStep == IreeReuse \/ IreeRun \/ IreeMark
EndStep == WriteExternal \/ WriteFinalReport \/ Refresh \/ Verify \/ Throw \/ Catch

Next == EstimatorStep \/ ScaleStep \/ IreeStep \/ EndStep

Spec == Init /\ [][Next]_vars

-----------------------------------------------------------------------------
(* Properties *)

Succeeded == {"succeeded", "succeeded_with_warnings"}

\* Every variable has the type its comment gives it.
TypeOK ==
  /\ kind \in Kinds /\ mode \in Modes /\ skip \in BOOLEAN
  /\ status \in Statuses /\ attempts \in Nat /\ pc \in Pcs
  /\ disk \in [Files -> Content] /\ manifest \in [Files -> Content]
  /\ marked \subseteq {"scale", "iree"} /\ listed \subseteq Files /\ warned \in BOOLEAN
  /\ topk \in Outcomes /\ scale \in Outcomes /\ iree \in Outcomes

\* When the artifacts are verified, and for good once the job has succeeded,
\* the manifest certifies every artifact the job lists as it is on disk: no
\* path writes or lists one after the manifest was refreshed.
Certified ==
  pc = "verify" \/ status \in Succeeded =>
    \A f \in listed : disk[f] # Absent /\ manifest[f] = disk[f]

\* A job that has succeeded has done what its kind asks for, and its report
\* says of the tools what their summaries say, also when a retry has reused
\* the stages of an earlier attempt.
ReportIsTrue ==
  status \in Succeeded =>
    /\ \A f \in {"report", "external"} :
         disk[f].scale = disk["scale_summary"].scale /\ disk[f].iree = disk["iree_summary"].iree
    /\ UsesScale => disk["report"].scale \in {"ok", "partial", "skipped"}
    /\ UsesIree => disk["report"].iree = "ok"

\* A job that succeeds without a warning has no part that was skipped in any
\* of its attempts and reused.
SkippedIsWarned ==
  status = "succeeded" => disk["scale_summary"].scale \notin {"partial", "skipped"}

\* Whatever the record lists can be downloaded, and hashed by the next refresh, in every
\* attempt: only a log that was pruned for its size is listed without being there.
ListedIsOnDisk == \A f \in listed \ BigLogs : disk[f] # Absent

\* A stage that is done is never run again: its summary stays as it is.
DoneIsFinal ==
  [][/\ "scale" \in marked => disk'["scale_summary"] = disk["scale_summary"]
     /\ "iree" \in marked => disk'["iree_summary"] = disk["iree_summary"]
     /\ marked \subseteq marked']_<<disk, marked>>
=============================================================================
