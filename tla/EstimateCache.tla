--------------------------- MODULE EstimateCache ---------------------------
(***************************************************************************)
(* The estimate cache of lib/cache.ts as the runs of several jobs with the *)
(* same request use it (runJobOnce of server/workerRunner.ts): look up,    *)
(* estimate on a miss, write result.json.tmp, rename it to result.json.    *)
(*                                                                         *)
(* The temporary name is the same for everybody: writers that overlap      *)
(* share one file, and the first rename takes it away from the others.     *)
(* Their answers are equal but for a timestamp of fixed length and the     *)
(* computePoolStats of estimateWithClusterPool, which tell whether threads *)
(* have computed them or, with the reason, the fallback: where those       *)
(* differ, data of two lengths go into one file.                           *)
(***************************************************************************)
EXTENDS Naturals, FiniteSets

CONSTANTS
  CacheJobs,     \* the jobs with one and the same request
  CacheAttempts  \* the attempts each of them has

ASSUME CacheAssumption == IsFiniteSet(CacheJobs) /\ CacheAttempts \in Nat \ {0}

VARIABLES
  tmpFile,   \* the file called result.json.tmp: the job and attempt that have
             \* created it, or Missing
  cacheFile, \* the file called result.json, likewise
  whole,     \* the files whose content is complete
  cpc,       \* where each job is
  fd,        \* the file each job has opened to write
  shot,      \* the attempt each job is in
  via,    \* how the estimate of each job has been computed
  into       \* whose data may be in a file since it was emptied: the answers, and
             \* "cut" where a writer has died before its end

cvars == <<tmpFile, cacheFile, whole, cpc, fd, shot, via, into>>

Missing == <<>>
CacheFiles == CacheJobs \X (1..CacheAttempts)

\* Two answers of different length
Answers == {"threads", "fallback"}

CacheInit ==
  /\ tmpFile = Missing /\ cacheFile = Missing
  /\ whole = {}
  /\ cpc = [j \in CacheJobs |-> "lookup"]
  /\ fd = [j \in CacheJobs |-> Missing]
  /\ shot = [j \in CacheJobs |-> 1]
  /\ via = [j \in CacheJobs |-> "threads"]
  /\ into = [f \in CacheFiles |-> {}]

At(j, pc) == cpc' = [cpc EXCEPT ![j] = pc]

\* readEstimateCache: the entry if JSON.parse takes it, which the run then uses.
Lookup(j) ==
  /\ cpc[j] = "lookup"
  /\ At(j, IF cacheFile \in whole THEN "done" ELSE "estimate")
  /\ UNCHANGED <<tmpFile, cacheFile, whole, fd, shot, via, into>>

\* Threads that fail are caught: the answer is computed without them.
Estimate(j) ==
  /\ cpc[j] = "estimate"
  /\ At(j, "open")
  /\ \E a \in Answers : via' = [via EXCEPT ![j] = a]
  /\ UNCHANGED <<tmpFile, cacheFile, whole, fd, shot, into>>

\* The jobs that are writing to a file
WritersOf(f) == {j \in CacheJobs : cpc[j] = "write" /\ fd[j] = f}

\* writeFile opens the temporary file and truncates it: the one another writer
\* has there, otherwise a new one.
OpenCacheTmp(j) ==
  /\ cpc[j] = "open"
  /\ LET f == IF tmpFile = Missing THEN <<j, shot[j]>> ELSE tmpFile IN
     /\ tmpFile' = f
     /\ fd' = [fd EXCEPT ![j] = f]
     /\ whole' = whole \ {f}
     /\ into' = [into EXCEPT ![f] = {via[i] : i \in WritersOf(f) \cup {j}}]
  /\ At(j, "write")
  /\ UNCHANGED <<cacheFile, shot, via>>

\* All that may be in a file are the same bytes at the same places.
Alike(f) == \A a, b \in into[f] : a = b

\* The last bytes go to the file that was opened, whatever it is called by now.  They
\* complete it where nobody else is at it and only equal data went in; otherwise
\* gaps and tails may be left, or not.
WriteCacheTmp(j) ==
  /\ cpc[j] = "write"
  /\ LET f == fd[j] IN
     \/ whole' = whole \cup {f}
     \/ whole' = whole \ {f} /\ (WritersOf(f) # {j} \/ ~Alike(f))
  /\ At(j, "rename")
  /\ UNCHANGED <<tmpFile, cacheFile, fd, shot, via, into>>

\* Fault: the write is not awaited.
MayRenameUnwritten(j) == cpc[j] \in {"write", "rename"}

\* rename follows the awaited writeFile.
MayRename(j) == cpc[j] = "rename"

RenameCacheTmp(j) ==
  /\ MayRename(j) /\ tmpFile # Missing
  /\ cacheFile' = tmpFile /\ tmpFile' = Missing
  /\ At(j, "done")
  /\ UNCHANGED <<whole, fd, shot, via, into>>

\* rename throws ENOENT out of writeEstimateCache and ends the attempt; runJob
\* makes another one while there are some left.
RenameMisses(j) ==
  /\ cpc[j] = "rename" /\ tmpFile = Missing
  /\ IF shot[j] < CacheAttempts
     THEN At(j, "lookup") /\ shot' = [shot EXCEPT ![j] = @ + 1]
     ELSE At(j, "failed") /\ UNCHANGED shot
  /\ UNCHANGED <<tmpFile, cacheFile, whole, fd, via, into>>

\* Fault: the writer, or whoever recovers its job, tidies up.
LeftBehindTidied == Missing

\* Nobody removes the temporary file of a run that has died.
LeftBehind == tmpFile

\* The process of a run dies.
CacheRunDies(j) ==
  /\ cpc[j] \in {"write", "rename"}
  /\ At(j, "died")
  /\ tmpFile' = LeftBehind
  /\ into' = [into EXCEPT ![fd[j]] = IF cpc[j] = "write" THEN @ \cup {"cut"} ELSE @]
  /\ UNCHANGED <<cacheFile, whole, fd, shot, via>>

CacheStep(j) ==
  \/ Lookup(j) \/ Estimate(j) \/ OpenCacheTmp(j) \/ WriteCacheTmp(j)
  \/ RenameCacheTmp(j) \/ RenameMisses(j) \/ CacheRunDies(j)

CacheNext == \E j \in CacheJobs : CacheStep(j)

-----------------------------------------------------------------------------
(* Properties *)

\* Every variable has the type its comment gives it.
CacheTypeOK ==
  /\ {tmpFile, cacheFile} \subseteq CacheFiles \cup {Missing}
  /\ whole \subseteq CacheFiles
  /\ cpc \in [CacheJobs -> {"lookup", "estimate", "open", "write", "rename",
                            "done", "failed", "died"}]
  /\ fd \in [CacheJobs -> CacheFiles \cup {Missing}]
  /\ shot \in [CacheJobs -> 1..CacheAttempts]
  /\ via \in [CacheJobs -> Answers]
  /\ into \in [CacheFiles -> SUBSET (Answers \cup {"cut"})]

\* Every attempt a job loses to the cache is paid for by another job that came
\* through: n jobs with one request need n attempts at most, and where one job
\* fails, with the single attempt of the default, another one has succeeded.
LossesArePaidFor ==
  \A j \in CacheJobs :
    LET won  == Cardinality({i \in CacheJobs \ {j} : cpc[i] = "done"})
        lost == IF cpc[j] = "failed" THEN shot[j] ELSE shot[j] - 1
    IN lost <= won

\* An entry is damaged, which costs those who look it up an estimate of their own,
\* only while somebody is still writing to it, or after writers that overlapped had
\* answers of different length or one of them died: the renames as such, in whatever
\* order, leave no unwritten file behind under the name of the entry.
EntryIsWhole ==
  cacheFile # Missing /\ cacheFile \notin whole =>
    WritersOf(cacheFile) # {} \/ ~Alike(cacheFile)
=============================================================================
