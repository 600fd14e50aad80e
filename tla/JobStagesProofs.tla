-------------------------- MODULE JobStagesProofs --------------------------
(***************************************************************************)
(* The safety properties of JobStages, proved for any number of attempts.  *)
(* The invariant has one part per question: which steps may change a done  *)
(* stage, what the run knows of the tools at each step, which warnings     *)
(* cover a skipped part, and which files are there when they are listed.   *)
(***************************************************************************)
EXTENDS JobStages, TLAPS

-----------------------------------------------------------------------------
(* Files and types *)

\* What Put does to the files.
LEMMA PutFacts ==
  ASSUME NEW d \in [Files -> Content], disk = d, NEW f \in Files, NEW c \in Content, Put(f, c)
  PROVE  /\ disk' \in [Files -> Content]
         /\ disk'[f] = c
         /\ \A g \in Files \ {f} : disk'[g] = disk[g]
BY DEF Put

\* The contents that are written, and their parts.
LEMMA ContentFacts ==
  ASSUME TypeOK
  PROVE  /\ Absent \in Content /\ Plain \in Content
         /\ \A s, i \in Outcomes : Written(s, i) \in Content
         /\ \A f : Log(f) \subseteq Content
BY DEF TypeOK, Absent, Plain, Written, Content, Outcomes, Log

LEMMA StepTypes == TypeOK /\ [Next]_vars => TypeOK'
<1> SUFFICES ASSUME TypeOK, [Next]_vars
             PROVE  TypeOK'
  OBVIOUS
<1> USE ContentFacts DEF Outcomes, Pcs, Files, Base, Statuses
<1>1. CASE UNCHANGED vars
  BY <1>1 DEF TypeOK, vars, job, record, files, tools
<1>2. ASSUME EstimatorStep
      PROVE  TypeOK'
  <2>1. CASE Begin
    BY <2>1 DEF TypeOK, Begin, job, files
  <2>2. CASE Estimate
    BY <2>2 DEF TypeOK, Estimate, job, record, files, tools
  <2>3. CASE WriteReport
    BY <2>3 DEF TypeOK, WriteReport, Put, job, record, tools
  <2>4. CASE WriteResult
    BY <2>4 DEF TypeOK, WriteResult, Put, job, record, tools
  <2>5. CASE HashArtifacts
    BY <2>5 DEF TypeOK, HashArtifacts, Hashed, job, tools
  <2>6. QED
    BY <1>2, <2>1, <2>2, <2>3, <2>4, <2>5 DEF EstimatorStep
<1>3. ASSUME ScaleStep
      PROVE  TypeOK'
  <2>1. CASE ScaleReuse
    BY <2>1 DEF TypeOK, ScaleReuse, Content, job, record, files
  <2>2. CASE ScaleRun
    BY <2>2 DEF TypeOK, ScaleRun, Put, job, record, tools
  <2>3. ASSUME TopkRuns \/ TopkFails
        PROVE  disk' \in [Files -> Content] /\ listed' \subseteq Files
    <3>1. disk \in [Files -> Content] /\ listed \subseteq Files
      BY DEF TypeOK
    <3>2. CASE TopkRuns
      BY <3>1, <3>2 DEF TopkRuns
    <3>3. CASE TopkFails
      BY <3>1, <3>3 DEF TopkFails, Put
    <3>4. QED
      BY <2>3, <3>2, <3>3
  <2>4. CASE ScaleTopk
    <3>1. disk' \in [Files -> Content] /\ listed' \subseteq Files
      BY <2>3, <2>4 DEF ScaleTopk
    <3>2. topk' \in Outcomes /\ warned' \in BOOLEAN /\ pc' \in Pcs
      BY <2>4 DEF TypeOK, ScaleTopk, TopkRuns
    <3>3. QED
      BY <2>4, <3>1, <3>2 DEF TypeOK, ScaleTopk, job
  <2>5. CASE ScaleFallback
    BY <2>3, <2>5 DEF TypeOK, ScaleFallback, TopkRuns, job
  <2>6. CASE ScaleEnd
    BY <2>6 DEF TypeOK, ScaleEnd, ScaleListed, Put, job
  <2>7. CASE ScaleSkipped
    BY <2>7 DEF TypeOK, ScaleSkipped, Put, job
  <2>8. CASE ScaleFailed
    BY <2>8 DEF TypeOK, ScaleFailed, MarkedAfterFailure, Put, job, tools
  <2>9. CASE ScaleMark
    BY <2>9 DEF TypeOK, ScaleMark, job, record, files, tools
  <2>10. QED
    BY <1>3, <2>1, <2>2, <2>4, <2>5, <2>6, <2>7, <2>8, <2>9 DEF ScaleStep
<1>4. ASSUME IreeStep
      PROVE  TypeOK'
  <2>1. CASE IreeReuse
    BY <2>1 DEF TypeOK, IreeReuse, Content, job, record, files
  <2>2. CASE IreeRun
    BY <2>2 DEF TypeOK, IreeRun, Put, job
  <2>3. CASE IreeMark
    BY <2>3 DEF TypeOK, IreeMark, job, record, files, tools
  <2>4. QED
    BY <1>4, <2>1, <2>2, <2>3 DEF IreeStep
<1>5. ASSUME EndStep
      PROVE  TypeOK'
  <2>1. CASE WriteExternal
    BY <2>1 DEF TypeOK, WriteExternal, Put, job, record, tools
  <2>2. CASE WriteFinalReport
    BY <2>2 DEF TypeOK, WriteFinalReport, Put, job, tools
  <2>3. CASE Refresh
    BY <2>3 DEF TypeOK, Refresh, Hashed, job, record, tools
  <2>4. CASE Verify
    BY <2>4 DEF TypeOK, Verify, Ended, job, files, tools
  <2>5. CASE Throw
    BY <2>5 DEF TypeOK, Throw, job, record, files, tools
  <2>6. CASE Catch
    BY <2>6 DEF TypeOK, Catch, Retried, job, files, tools
  <2>7. QED
    BY <1>5, <2>1, <2>2, <2>3, <2>4, <2>5, <2>6 DEF EndStep
<1>6. QED
  BY <1>1, <1>2, <1>3, <1>4, <1>5 DEF Next

LEMMA InitTypes == Init => TypeOK
<1>1. Absent \in Content
  BY DEF Absent, Content, Outcomes
<1>2. SUFFICES ASSUME Init PROVE TypeOK
  OBVIOUS
<1>3. disk \in [Files -> Content] /\ manifest \in [Files -> Content]
  BY <1>1, <1>2 DEF Init
<1>4. status \in Statuses /\ attempts \in Nat /\ pc \in Pcs
  BY <1>2 DEF Init, Pcs, Statuses
<1>5. topk \in Outcomes /\ scale \in Outcomes /\ iree \in Outcomes
  BY <1>2 DEF Init, Outcomes
<1>6. QED
  BY <1>2, <1>3, <1>4, <1>5 DEF Init, TypeOK

\* Every variable keeps its type, for any number of attempts.
THEOREM TypeCorrect == Spec => []TypeOK
BY InitTypes, StepTypes, PTL DEF Spec

-----------------------------------------------------------------------------
(* The invariants *)

\* The steps at which the outcome of SCALE-Sim, of IREE, is known.
ScaleKnown == {"scale_mark", "iree", "iree_mark", "external", "final_report", "refresh", "verify"}
IreeKnown == {"iree_mark", "external", "final_report", "refresh", "verify"}
ScaleGood == {"ok", "partial", "skipped"}

\* What f tells of the tools is what their summaries tell.
Tells(f) ==
  /\ disk[f].scale = disk["scale_summary"].scale
  /\ disk[f].iree = disk["iree_summary"].iree

\* A job has succeeded only when its run is over.
OverInv == status \in Succeeded => pc = "over"

\* The steps that write a summary are out of reach once the stage is done.
DoneInv == "scale" \in marked => pc \notin {"topk", "scale_end", "scale_fail", "fallback"}

\* A known outcome is a good one and the one in the summary, and so is that of
\* a marked stage; a tool the kind does not ask for leaves no summary.
OutcomeInv ==
  /\ pc \in ScaleKnown => scale = disk["scale_summary"].scale
  /\ pc \in ScaleKnown /\ UsesScale => scale \in ScaleGood
  /\ "scale" \in marked => disk["scale_summary"].scale \in ScaleGood
  /\ ~UsesScale => /\ disk["scale_summary"].scale = "none"
                   /\ pc \notin {"topk", "scale_end", "scale_fail", "fallback", "scale_mark"}
  /\ pc \in IreeKnown => iree = disk["iree_summary"].iree
  /\ pc \in IreeKnown /\ UsesIree => iree = "ok"
  /\ "iree" \in marked => disk["iree_summary"].iree = "ok"
  /\ ~UsesIree => disk["iree_summary"].iree = "none" /\ pc # "iree_mark"

\* The reports are written with the known outcomes, in their order.
ReportInv ==
  /\ pc \in {"final_report", "refresh", "verify"} => Tells("external")
  /\ pc \in {"refresh", "verify"} => Tells("report")

\* Whatever was left out has left a warning.
WarnInv ==
  /\ topk = "failed" => warned
  /\ disk["scale_summary"].scale \in {"partial", "skipped"} => warned

\* Whatever is about to be listed is there.
ListInv ==
  /\ ListedIsOnDisk
  /\ pc # "queued" => attempts > 0
  /\ pc \in {"result", "hash"} => disk["report"] # Absent
  /\ pc = "hash" => disk["result"] # Absent
  /\ pc = "final_report" => disk["external"] # Absent
  /\ pc \in {"topk", "scale_end"} /\ mode # "tile-policy" /\ "scale_log" \notin BigLogs =>
       disk["scale_log"] # Absent

-----------------------------------------------------------------------------
(* Where the run is, and what is done *)

LEMMA OverStep == OverInv /\ [Next]_vars => OverInv'
BY DEF OverInv, Succeeded, Next, vars, EstimatorStep, ScaleStep, IreeStep, EndStep,
       Begin, Estimate, WriteReport, WriteResult, HashArtifacts, ScaleReuse, ScaleRun,
       ScaleTopk, ScaleEnd, ScaleFallback, ScaleSkipped, ScaleFailed, ScaleMark,
       IreeReuse, IreeRun, IreeMark, WriteExternal, WriteFinalReport, Refresh, Verify,
       Throw, Catch, record

LEMMA DoneStep == TypeOK /\ DoneInv /\ [Next]_vars => DoneInv'
BY DEF TypeOK, DoneInv, Next, vars, EstimatorStep, ScaleStep, IreeStep, EndStep,
       Begin, Estimate, WriteReport, WriteResult, HashArtifacts, Done, ScaleReuse, ScaleRun,
       ScaleTopk, ScaleEnd, ScaleFallback, ScaleSkipped, ScaleFailed, MarkedAfterFailure,
       ScaleMark, IreeReuse, IreeRun, IreeMark, WriteExternal, WriteFinalReport, Refresh,
       Verify, Throw, Catch, files

-----------------------------------------------------------------------------
(* Who writes what *)

\* Only the ends of the SCALE-Sim stage write its summary, only the IREE stage
\* writes its own.
LEMMA SummaryWriters ==
  ASSUME TypeOK, [Next]_vars
  PROVE  /\ ScaleEnd \/ ScaleSkipped \/ ScaleFailed
            \/ disk'["scale_summary"] = disk["scale_summary"]
         /\ IreeRun \/ disk'["iree_summary"] = disk["iree_summary"]
BY DEF TypeOK, Files, Next, vars, EstimatorStep, ScaleStep, IreeStep, EndStep,
       Begin, Estimate, WriteReport, WriteResult, HashArtifacts, Put, ScaleReuse, ScaleRun,
       ScaleTopk, TopkRuns, TopkFails, ScaleEnd, ScaleFallback, ScaleSkipped, ScaleFailed,
       ScaleMark, IreeReuse, IreeRun, IreeMark, WriteExternal, WriteFinalReport, Refresh,
       Verify, Throw, Catch, files

\* Only the first and the last report step write the reports.
LEMMA ReportWriters ==
  ASSUME TypeOK, [Next]_vars
  PROVE  /\ WriteReport \/ WriteFinalReport \/ disk'["report"] = disk["report"]
         /\ WriteExternal \/ disk'["external"] = disk["external"]
BY DEF TypeOK, Files, Next, vars, EstimatorStep, ScaleStep, IreeStep, EndStep,
       Begin, Estimate, WriteReport, WriteResult, HashArtifacts, Put, ScaleReuse, ScaleRun,
       ScaleTopk, TopkRuns, TopkFails, ScaleEnd, ScaleFallback, ScaleSkipped, ScaleFailed,
       ScaleMark, IreeReuse, IreeRun, IreeMark, WriteExternal, WriteFinalReport, Refresh,
       Verify, Throw, Catch, files

\* What they write.
LEMMA WrittenSummaries ==
  ASSUME TypeOK
  PROVE  /\ ScaleEnd => disk'["scale_summary"].scale = IF topk = "failed" THEN "partial" ELSE "ok"
         /\ ScaleSkipped => disk'["scale_summary"].scale = "skipped"
         /\ ScaleFailed => disk'["scale_summary"].scale = "failed"
         /\ IreeRun => disk'["iree_summary"].iree = IF pc' = "iree_mark" THEN "ok" ELSE "failed"
         /\ WriteExternal => disk'["external"].scale = scale /\ disk'["external"].iree = iree
         /\ WriteFinalReport => disk'["report"].scale = scale /\ disk'["report"].iree = iree
<1> USE DEF TypeOK, Files, Put, Written
<1>1. ScaleEnd => disk'["scale_summary"].scale = IF topk = "failed" THEN "partial" ELSE "ok"
  BY DEF ScaleEnd
<1>2. ScaleSkipped => disk'["scale_summary"].scale = "skipped"
  BY DEF ScaleSkipped
<1>3. ScaleFailed => disk'["scale_summary"].scale = "failed"
  BY DEF ScaleFailed
<1>4. IreeRun => disk'["iree_summary"].iree = IF pc' = "iree_mark" THEN "ok" ELSE "failed"
  BY DEF IreeRun
<1>5. WriteExternal => disk'["external"].scale = scale /\ disk'["external"].iree = iree
  BY DEF WriteExternal
<1>6. WriteFinalReport => disk'["report"].scale = scale /\ disk'["report"].iree = iree
  BY DEF WriteFinalReport
<1>7. QED
  BY <1>1, <1>2, <1>3, <1>4, <1>5, <1>6

-----------------------------------------------------------------------------
(* Outcomes, reports and warnings *)

LEMMA OutcomeStep == TypeOK /\ DoneInv /\ OutcomeInv /\ [Next]_vars => OutcomeInv'
<1> SUFFICES ASSUME TypeOK, DoneInv, OutcomeInv, [Next]_vars
             PROVE  OutcomeInv'
  OBVIOUS
<1>1. (UsesScale <=> UsesScale') /\ (UsesIree <=> UsesIree')
  BY DEF UsesScale, UsesIree, Next, vars, EstimatorStep, ScaleStep, IreeStep, EndStep,
         Begin, Estimate, WriteReport, WriteResult, HashArtifacts, ScaleReuse, ScaleRun,
         ScaleTopk, ScaleEnd, ScaleFallback, ScaleSkipped, ScaleFailed, ScaleMark,
         IreeReuse, IreeRun, IreeMark, WriteExternal, WriteFinalReport, Refresh, Verify,
         Throw, Catch, job
<1> USE <1>1, SummaryWriters, WrittenSummaries
    DEF DoneInv, OutcomeInv, ScaleKnown, IreeKnown, ScaleGood
<1>2. CASE UNCHANGED vars \/ EstimatorStep \/ EndStep
  BY <1>2, ZenonT(30) DEF vars, EstimatorStep, EndStep, Begin, Estimate, WriteReport, WriteResult,
              HashArtifacts, WriteExternal, WriteFinalReport, Refresh, Verify, Throw, Catch,
              ScaleEnd, ScaleSkipped, ScaleFailed, IreeRun, files, tools
<1>3. CASE ScaleStep
  <2>1. disk'["iree_summary"] = disk["iree_summary"]
    BY <1>3 DEF ScaleStep, ScaleReuse, ScaleRun, ScaleTopk, ScaleEnd, ScaleFallback,
                ScaleSkipped, ScaleFailed, ScaleMark, IreeRun
  <2>2. CASE ScaleReuse
    BY <2>1, <2>2 DEF ScaleReuse, Done, files
  <2>3. CASE ScaleRun \/ ScaleTopk \/ ScaleFallback \/ ScaleMark
    BY <2>1, <2>3 DEF ScaleRun, ScaleTopk, ScaleFallback, ScaleMark, ScaleEnd, ScaleSkipped,
                      ScaleFailed, files, tools
  <2>4. CASE ScaleEnd
    BY <2>1, <2>4 DEF ScaleEnd
  <2>5. CASE ScaleSkipped
    BY <2>1, <2>5 DEF ScaleSkipped
  <2>6. CASE ScaleFailed
    BY <2>1, <2>6 DEF ScaleFailed, MarkedAfterFailure, tools
  <2>7. QED
    BY <1>3, <2>2, <2>3, <2>4, <2>5, <2>6 DEF ScaleStep
<1>4. CASE IreeStep
  <2>1. disk'["scale_summary"] = disk["scale_summary"]
    BY <1>4 DEF IreeStep, IreeReuse, IreeRun, IreeMark, ScaleEnd, ScaleSkipped, ScaleFailed
  <2>2. CASE IreeReuse
    BY <2>1, <2>2 DEF IreeReuse, Done, files
  <2>3. CASE IreeRun
    BY <2>1, <2>3 DEF IreeRun, Done
  <2>4. CASE IreeMark
    BY <2>1, <2>4 DEF IreeMark, files, tools
  <2>5. QED
    BY <1>4, <2>2, <2>3, <2>4 DEF IreeStep
<1>5. QED
  BY <1>2, <1>3, <1>4 DEF Next

LEMMA ReportStep == TypeOK /\ OutcomeInv /\ ReportInv /\ [Next]_vars => ReportInv'
BY SummaryWriters, ReportWriters, WrittenSummaries
   DEF OutcomeInv, ReportInv, Tells, ScaleKnown, IreeKnown,
       Next, vars, EstimatorStep, ScaleStep, IreeStep, EndStep,
       Begin, Estimate, WriteReport, WriteResult, HashArtifacts, ScaleReuse, ScaleRun,
       ScaleTopk, ScaleEnd, ScaleFallback, ScaleSkipped, ScaleFailed, ScaleMark,
       IreeReuse, IreeRun, IreeMark, WriteExternal, WriteFinalReport, Refresh, Verify,
       Throw, Catch, files

LEMMA WarnStep == TypeOK /\ WarnInv /\ [Next]_vars => WarnInv'
BY SummaryWriters, WrittenSummaries
   DEF TypeOK, WarnInv, Next, vars, EstimatorStep, ScaleStep, IreeStep, EndStep,
       Begin, Estimate, WriteReport, WriteResult, HashArtifacts, ScaleReuse, ScaleRun,
       ScaleTopk, TopkRuns, ScaleEnd, ScaleFallback, ScaleSkipped, ScaleFailed, ScaleMark,
       IreeReuse, IreeRun, IreeMark, WriteExternal, WriteFinalReport, Refresh, Verify,
       Throw, Catch, Retried, record, files, tools

-----------------------------------------------------------------------------
(* The end of a run *)

\* A step that ends in success is the verification; after it nothing happens.
LEMMA SuccessStep ==
  ASSUME OverInv, [Next]_vars, status' \in Succeeded
  PROVE  Verify \/ UNCHANGED vars
BY DEF OverInv, Succeeded, Next, vars, EstimatorStep, ScaleStep, IreeStep, EndStep,
       Begin, Estimate, WriteReport, WriteResult, HashArtifacts, ScaleReuse, ScaleRun,
       ScaleTopk, ScaleEnd, ScaleFallback, ScaleSkipped, ScaleFailed, ScaleMark,
       IreeReuse, IreeRun, IreeMark, WriteExternal, WriteFinalReport, Refresh,
       Throw, Catch, record

LEMMA CertifiedStep == TypeOK /\ OverInv /\ Certified /\ [Next]_vars => Certified'
<1> SUFFICES ASSUME TypeOK, OverInv, Certified, [Next]_vars
             PROVE  Certified'
  OBVIOUS
<1>1. CASE UNCHANGED vars
  BY <1>1 DEF Certified, vars, record, files
<1>2. CASE Verify
  BY <1>2 DEF Verify, Certified, files
<1>3. CASE Refresh
  <2>1. CASE \A f \in ManifestNames : disk[f] # Absent
    BY <1>3, <2>1 DEF Refresh, TypeOK, Certified, Hashed, ManifestNames, record
  <2>2. CASE ~ \A f \in ManifestNames : disk[f] # Absent
    BY <1>3, <2>2 DEF Refresh, Certified, OverInv, record
  <2>3. QED
    BY <2>1, <2>2
<1>4. CASE Next /\ ~Verify /\ ~Refresh /\ ~UNCHANGED vars
  <2>1. pc' # "verify"
    BY <1>4 DEF Next, EstimatorStep, ScaleStep, IreeStep, EndStep,
       Begin, Estimate, WriteReport, WriteResult, HashArtifacts, ScaleReuse, ScaleRun,
       ScaleTopk, ScaleEnd, ScaleFallback, ScaleSkipped, ScaleFailed, ScaleMark,
       IreeReuse, IreeRun, IreeMark, WriteExternal, WriteFinalReport, Throw, Catch
  <2>2. QED
    BY <1>4, <2>1, SuccessStep DEF Certified
<1>5. QED
  BY <1>1, <1>2, <1>3, <1>4

LEMMA ReportIsTrueStep ==
  TypeOK /\ OverInv /\ OutcomeInv /\ ReportInv /\ ReportIsTrue /\ [Next]_vars => ReportIsTrue'
<1> SUFFICES ASSUME TypeOK, OverInv, OutcomeInv, ReportInv, ReportIsTrue, [Next]_vars,
                    status' \in Succeeded
             PROVE  ReportIsTrue'
  BY DEF ReportIsTrue
<1>1. CASE UNCHANGED vars
  BY <1>1 DEF ReportIsTrue, vars, job, record, files, UsesScale, UsesIree
<1>2. CASE Verify
  BY <1>2 DEF ReportIsTrue, OutcomeInv, ReportInv, Tells, ScaleKnown, IreeKnown, ScaleGood,
              Verify, job, files, UsesScale, UsesIree
<1>3. QED
  BY <1>1, <1>2, SuccessStep

LEMMA SkippedIsWarnedStep ==
  OverInv /\ WarnInv /\ SkippedIsWarned /\ [Next]_vars => SkippedIsWarned'
<1> SUFFICES ASSUME OverInv, WarnInv, SkippedIsWarned, [Next]_vars, status' = "succeeded"
             PROVE  SkippedIsWarned'
  BY DEF SkippedIsWarned
<1>1. CASE UNCHANGED vars
  BY <1>1 DEF SkippedIsWarned, vars, record, files
<1>2. CASE Verify
  BY <1>2 DEF SkippedIsWarned, WarnInv, Verify, Ended, files
<1>3. QED
  BY <1>1, <1>2, SuccessStep DEF Succeeded

-----------------------------------------------------------------------------
(* Listed files *)

\* Whatever a step writes is there afterwards, and no step removes a file, but for the
\* logs that may outgrow the pruning.
LEMMA FilesStay ==
  ASSUME TypeOK, [Next]_vars, pc # "queued" => attempts > 0
  PROVE  \A f \in Files \ BigLogs : disk[f] # Absent => disk'[f] # Absent
<1> USE DEF TypeOK, Put
<1>1. Begin \/ UNCHANGED disk \/ attempts > 0
  BY DEF Next, vars, EstimatorStep, ScaleStep, IreeStep, EndStep, Begin, Estimate,
       WriteReport, WriteResult, HashArtifacts, ScaleReuse, ScaleRun,
       ScaleTopk, ScaleEnd, ScaleFallback, ScaleSkipped, ScaleFailed, ScaleMark,
       IreeReuse, IreeRun, IreeMark, WriteExternal, WriteFinalReport, Refresh, Verify,
       Throw, Catch, files
<1>2. CASE UNCHANGED disk
  BY <1>2
<1>3. CASE Begin
  BY <1>3 DEF Begin, files
<1>4. CASE attempts > 0
  <2>1. \A s, i \in Outcomes : Written(s, i) # Absent
    BY <1>4 DEF Written, Absent
  <2>2. /\ \A f \in Files \ BigLogs : Log(f) = {Plain}
        /\ Plain # Absent /\ BigLogs \subseteq {"scale_log", "top3_log"}
    BY <2>1, StagesAssumption DEF Log, Plain, Outcomes
  <2>3. CASE EstimatorStep
    BY <2>2, <2>3 DEF EstimatorStep, Begin, Estimate, WriteReport, WriteResult, HashArtifacts, files
  <2>4. CASE ScaleReuse \/ ScaleRun \/ ScaleMark
    BY <2>2, <2>4 DEF ScaleReuse, ScaleRun, ScaleMark, files
  <2>5. CASE TopkRuns \/ TopkFails
    BY <2>2, <2>5 DEF TopkRuns, TopkFails
  <2>6. CASE ScaleTopk \/ ScaleFallback
    BY <2>5, <2>6 DEF ScaleTopk, ScaleFallback
  <2>7. CASE ScaleEnd \/ ScaleSkipped \/ ScaleFailed
    BY <2>1, <2>7 DEF ScaleEnd, ScaleSkipped, ScaleFailed, Outcomes
  <2>8. CASE IreeStep
    BY <2>1, <2>8 DEF IreeStep, IreeReuse, IreeRun, IreeMark, Outcomes, files
  <2>9. CASE EndStep
    BY <2>1, <2>9 DEF EndStep, WriteExternal, WriteFinalReport, Refresh, Verify, Throw, Catch, files
  <2>10. QED
    BY <1>2, <2>3, <2>4, <2>6, <2>7, <2>8, <2>9 DEF Next, ScaleStep, vars, files
<1>5. QED
  BY <1>1, <1>2, <1>3, <1>4

LEMMA ListStep == TypeOK /\ ListInv /\ [Next]_vars => ListInv'
<1> SUFFICES ASSUME TypeOK, ListInv, [Next]_vars
             PROVE  ListInv'
  OBVIOUS
<1> USE FilesStay DEF ListInv
<1>1. \A f \in Files \ BigLogs : disk[f] # Absent => disk'[f] # Absent
  OBVIOUS
<1>0. BigLogs \subseteq {"scale_log", "top3_log"}
  BY StagesAssumption
<1>2. pc' # "queued" => attempts' > 0
  BY DEF TypeOK, Next, vars, EstimatorStep, ScaleStep, IreeStep, EndStep, Begin, Estimate,
       WriteReport, WriteResult, HashArtifacts, ScaleReuse, ScaleRun,
       ScaleTopk, ScaleEnd, ScaleFallback, ScaleSkipped, ScaleFailed, ScaleMark,
       IreeReuse, IreeRun, IreeMark, WriteExternal, WriteFinalReport, Refresh, Verify,
       Throw, Catch, record
<1>3. pc # "queued" => \A s, i \in Outcomes : Written(s, i) # Absent
  BY DEF TypeOK, Written, Absent
<1>4. pc # "queued" => Plain # Absent /\ \A f \in Files \ BigLogs : Log(f) = {Plain}
  BY <1>3 DEF Plain, Log, Outcomes
<1>5. \/ listed' = listed
      \/ HashArtifacts \/ ScaleEnd \/ ScaleSkipped \/ ScaleFailed
      \/ IreeRun \/ WriteFinalReport
      \/ TopkRuns /\ pc # "queued"
  BY DEF Next, vars, EstimatorStep, ScaleStep, IreeStep, EndStep, Begin, Estimate,
       WriteReport, WriteResult, ScaleReuse, ScaleRun, ScaleTopk, TopkFails, ScaleFallback,
       ScaleMark, IreeReuse, IreeMark, WriteExternal, Refresh, Verify, Throw, Catch, record
<1>6. \A f \in (listed' \ listed) \ BigLogs : disk'[f] # Absent
  <2>1. CASE HashArtifacts
    BY <2>1 DEF HashArtifacts, Base, Files, TypeOK
  <2>2. CASE ScaleEnd
    BY <2>2, <1>3 DEF ScaleEnd, ScaleListed, Put, Outcomes, Files, TypeOK
  <2>3. CASE ScaleSkipped \/ ScaleFailed
    BY <2>3, <1>3 DEF ScaleSkipped, ScaleFailed, Put, Outcomes, Files, TypeOK
  <2>4. CASE IreeRun
    BY <2>4, <1>3 DEF IreeRun, Put, Outcomes, Files, TypeOK
  <2>5. CASE WriteFinalReport
    BY <2>5, <1>3 DEF WriteFinalReport, Put, Files, TypeOK
  <2>6. CASE TopkRuns /\ pc # "queued"
    BY <2>6, <1>4 DEF TopkRuns, Files, TypeOK
  <2>7. QED
    BY <1>5, <2>1, <2>2, <2>3, <2>4, <2>5, <2>6
<1>7. ListedIsOnDisk'
  BY <1>1, <1>6 DEF ListedIsOnDisk, TypeOK
<1>8. /\ pc' \in {"result", "hash"} => disk'["report"] # Absent
      /\ pc' = "hash" => disk'["result"] # Absent
      /\ pc' = "final_report" => disk'["external"] # Absent
      /\ pc' \in {"topk", "scale_end"} /\ mode' # "tile-policy" /\ "scale_log" \notin BigLogs =>
           disk'["scale_log"] # Absent
  <2>1. CASE WriteReport \/ WriteResult
    BY <2>1, <1>1, <1>4 DEF WriteReport, WriteResult, Put, TypeOK, Files
  <2>2. CASE ScaleRun
    BY <2>2, <1>1, <1>4 DEF ScaleRun, Put, TypeOK, Files, job
  <2>3. CASE ScaleTopk
    BY <2>3, <1>1 DEF ScaleTopk, job, Files
  <2>4. CASE WriteExternal
    BY <2>4, <1>1, <1>3 DEF WriteExternal, Put, TypeOK, Files
  <2>5. CASE UNCHANGED vars
    BY <2>5 DEF vars, job, files
  <2>6. CASE Next /\ ~(WriteReport \/ WriteResult \/ ScaleRun \/ ScaleTopk \/ WriteExternal)
    BY <2>6 DEF Next, EstimatorStep, ScaleStep, IreeStep, EndStep, Begin, Estimate,
       HashArtifacts, ScaleReuse, ScaleEnd, ScaleFallback, ScaleSkipped, ScaleFailed, ScaleMark,
       IreeReuse, IreeRun, IreeMark, WriteFinalReport, Refresh, Verify, Throw, Catch
  <2>7. QED
    BY <2>1, <2>2, <2>3, <2>4, <2>5, <2>6
<1>9. QED
  BY <1>2, <1>7, <1>8

-----------------------------------------------------------------------------
(* The theorems *)

LEMMA InitInvs ==
  Init => /\ OverInv /\ DoneInv /\ OutcomeInv /\ ReportInv /\ WarnInv /\ ListInv
          /\ Certified /\ ReportIsTrue /\ SkippedIsWarned
BY DEF Init, OverInv, DoneInv, OutcomeInv, ReportInv, WarnInv, ListInv, Certified,
       ReportIsTrue, SkippedIsWarned, ListedIsOnDisk, Succeeded, ScaleKnown, IreeKnown,
       Absent, Files

\* When the artifacts are verified, and for good once the job has succeeded,
\* the manifest certifies everything job.artifacts lists.
THEOREM CertifiedAlways == Spec => []Certified
BY InitTypes, StepTypes, InitInvs, OverStep, CertifiedStep, PTL DEF Spec

\* The report of a job that has succeeded tells what the summaries of its tools
\* tell, whatever was retried and reused.
THEOREM ReportIsTrueAlways == Spec => []ReportIsTrue
BY InitTypes, StepTypes, InitInvs, OverStep, DoneStep, OutcomeStep, ReportStep,
   ReportIsTrueStep, PTL DEF Spec

\* A success without warnings has no skipped part.
THEOREM SkippedIsWarnedAlways == Spec => []SkippedIsWarned
BY InitTypes, StepTypes, InitInvs, OverStep, WarnStep, SkippedIsWarnedStep, PTL DEF Spec

\* Whatever is listed is there in every attempt, but for the logs that may outgrow the
\* pruning.
THEOREM ListedIsOnDiskAlways == Spec => []ListedIsOnDisk
<1>1. ListInv => ListedIsOnDisk
  BY DEF ListInv
<1>2. QED
  BY <1>1, InitTypes, StepTypes, InitInvs, ListStep, PTL DEF Spec

\* A stage that is done is never run again.
THEOREM DoneIsFinalAlways == Spec => DoneIsFinal
<1>1. TypeOK /\ DoneInv /\ [Next]_vars =>
        [/\ "scale" \in marked => disk'["scale_summary"] = disk["scale_summary"]
         /\ "iree" \in marked => disk'["iree_summary"] = disk["iree_summary"]
         /\ marked \subseteq marked']_<<disk, marked>>
  <2> SUFFICES ASSUME TypeOK, DoneInv, [Next]_vars
               PROVE  /\ "scale" \in marked => disk'["scale_summary"] = disk["scale_summary"]
                      /\ "iree" \in marked => disk'["iree_summary"] = disk["iree_summary"]
                      /\ marked \subseteq marked'
    OBVIOUS
  <2>1. "scale" \in marked => disk'["scale_summary"] = disk["scale_summary"]
    BY SummaryWriters DEF DoneInv, ScaleEnd, ScaleSkipped, ScaleFailed
  <2>2. "iree" \in marked => disk'["iree_summary"] = disk["iree_summary"]
    BY SummaryWriters DEF IreeRun, Done
  <2>3. marked \subseteq marked'
    BY DEF Next, vars, EstimatorStep, ScaleStep, IreeStep, EndStep, Begin, Estimate,
       WriteReport, WriteResult, HashArtifacts, ScaleReuse, ScaleRun,
       ScaleTopk, ScaleEnd, ScaleFallback, ScaleSkipped, ScaleFailed, MarkedAfterFailure,
       ScaleMark, IreeReuse, IreeRun, IreeMark, WriteExternal, WriteFinalReport, Refresh,
       Verify, Throw, Catch, files
  <2>4. QED
    BY <2>1, <2>2, <2>3
<1>2. QED
  BY <1>1, InitTypes, StepTypes, InitInvs, DoneStep, PTL DEF Spec, DoneIsFinal
=============================================================================
