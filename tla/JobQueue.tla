------------------------------ MODULE JobQueue ------------------------------
(***************************************************************************)
(* The file-backed job queue of TileForge: worker processes that list,     *)
(* lock, claim, run, retry and recover jobs (scripts/worker.ts,            *)
(* server/jobStore.ts, server/workerRunner.ts) next to a web process that  *)
(* submits, cancels and deletes them.                                      *)
(*                                                                         *)
(* A job is one JSON file that every process reads and overwrites as a     *)
(* whole, plus one job.lock file created with O_EXCL ("wx").  A process    *)
(* that runs a job works on the record it holds in memory and writes it    *)
(* back; the only thing it reads again is the checkpoint of                *)
(* throwIfCancelled.  Each read and each write of a file is one step here; *)
(* consecutive reads are one step, and so are consecutive writes of one    *)
(* record (the last one decides what the others can see).                  *)
(*                                                                         *)
(* A worker is a process incarnation: a restarted worker is a new element  *)
(* of Workers, as it has a new pid.                                        *)
(***************************************************************************)
EXTENDS Integers, FiniteSets, JobStatus

CONSTANTS
  Workers,        \* worker process incarnations (distinct pids)
  Jobs,           \* job ids
  Training,       \* the jobs of kind "estimator-suite-train"
  MaxAttempts,    \* TILEFORGE_JOB_MAX_ATTEMPTS
  MaxParallel,    \* maxParallelJobs()
  Checkpoints,    \* throwIfCancelled calls of one run (three in the code)
  SingleWorker,   \* TRUE: a worker starts only when no other one is up
  Cancellable,    \* jobs the user may cancel
  Deletable,      \* jobs the user may delete
  Mortal,         \* the kinds of process that may crash: "worker", "child"
  MaxCrashes,     \* bound on the number of crashes
  SilentAge,      \* how old (0..2) a record may grow while its job is being run
  LocksAge,       \* TRUE: runs may take longer than the lock's age limit
  NoWorker        \* the lock of a job that has no lock file

ASSUME SetsAssumption ==
  /\ Training \subseteq Jobs
  /\ Cancellable \subseteq Jobs
  /\ Deletable \subseteq Jobs
  /\ NoWorker \notin Workers
  /\ Mortal \subseteq {"worker", "child"}
ASSUME BoundsAssumption ==
  /\ MaxAttempts \in Nat \ {0}
  /\ MaxParallel \in Nat \ {0}
  /\ Checkpoints \in Nat \ {0}
  /\ MaxCrashes \in Nat
  /\ SilentAge \in 0..2
  /\ SingleWorker \in BOOLEAN
  /\ LocksAge \in BOOLEAN

VARIABLES
  made,      \* the jobs createJob has created so far (ids are never reused)
  file,      \* job.json of each job, NoRec when there is none
  age,       \* time since updatedAt: 0 fresh, 1 over the dead-lock grace, 2 stale
  lock,      \* the worker whose pid is in job.lock, or NoWorker
  lockOld,   \* the lock file is older than max(timeout, 60 s)
  proc,      \* "new", "up" or "dead"
  sched,     \* the scheduler of each worker: claim loop and recovery
  run,       \* where the run of a job in a worker is ("none": not active)
  stage,     \* the stage of that run, a number below Checkpoints
  mem,       \* the record that run holds in memory
  web,       \* the cancel request of the web process: "idle", "read", "done"
  webRec,    \* the record a cancel request has read and will write back
  crashes,   \* crashes so far
  acked,     \* ghost: jobs whose cancel was answered with this run in progress
  robbed     \* ghost: jobs whose lock was removed by another process while held

store == <<file, age>>
locks == <<lock, lockOld>>
runs  == <<run, stage, mem>>
webs  == <<web, webRec>>
vars  == <<made, store, locks, proc, sched, runs, webs, crashes, acked, robbed>>

-----------------------------------------------------------------------------
(* Records *)

\* The fields of JobRecord the control flow depends on.
Rec == [status : Statuses \cup {"none"}, cancelRequested : BOOLEAN, attempts : Nat]
NoRec == [status |-> "none", cancelRequested |-> FALSE, attempts |-> 0]

\* Fault: createJob writes a status that JobStatus does not have.
NewJobPending == [status |-> "pending", cancelRequested |-> FALSE, attempts |-> 0]

\* createJob: the record of a new job.
NewJob == [status |-> "queued", cancelRequested |-> FALSE, attempts |-> 0]

\* saveJob: the whole record replaces job.json, and updatedAt is now.
Save(j, rec) ==
  /\ file' = [file EXCEPT ![j] = rec]
  /\ age' = [age EXCEPT ![j] = 0]

\* The scheduler of a worker that is doing nothing.
IdleSched == [pc |-> "idle", cands |-> {}, job |-> NoWorker, rec |-> NoRec]

SchedPcs == {"idle", "scan", "lock", "exists", "steal", "create", "resave",
             "claim", "release", "recover"}
RunPcs == {"none", "spawn", "start", "check", "cancelled", "work", "finish",
           "fail", "ended", "thrown", "reap", "reaped", "unlock"}

\* The part of a training run that lives in the child process.
ChildPcs == RunPcs \ {"none", "spawn", "reap", "reaped", "unlock"}
\* The part of a run in which the work of the job is done or its record written.
ExecPcs == {"start", "check", "cancelled", "work", "finish", "fail"}

-----------------------------------------------------------------------------
(* State predicates *)

\* The keys of the active map of a worker.
Active(w) == {j \in Jobs : run[w][j] # "none"}

\* The run of j claimed by w goes on in a child process, which survives w.
InChild(w, j) == j \in Training /\ run[w][j] \in ChildPcs
Alive(w, j) == proc[w] = "up" \/ InChild(w, j)

Executing(w, j) == run[w][j] \in ExecPcs /\ Alive(w, j)

\* w has created job.lock for j and has not yet handed the job to runJob.
Claiming(w, j) == sched[w].pc \in {"resave", "claim"} /\ sched[w].job = j

\* w relies on the lock of j.
Holds(w, j) == Claiming(w, j) \/ run[w][j] = "spawn" \/ Executing(w, j)

\* Fault: any pid in the lock counts as dead.
LockPresent(j) == lock[j] \in Workers

\* lockProcessIsDead: processIsAlive(pid of the lock) is false.
LockDead(j) == lock[j] \in Workers /\ proc[lock[j]] = "dead"

\* Fault: only the active maps of the live workers are counted.
RunningCountInMemory ==
  Cardinality({j \in Jobs : \E w \in Workers : proc[w] = "up" /\ run[w][j] # "none"})

\* runningJobCount, over the summaries of the job directories.
RunningCount == Cardinality({j \in Jobs : file[j].status = "running"})

\* No live process has j in its active map or runs it as a child.
Abandoned(j) == \A w \in Workers : run[w][j] # "none" => ~Alive(w, j)

\* Removing job.lock (rm force): whoever relied on it has been robbed.
RemoveLock(j) ==
  /\ lock' = [lock EXCEPT ![j] = NoWorker]
  /\ lockOld' = [lockOld EXCEPT ![j] = FALSE]
  /\ robbed' = IF \E w \in Workers : Holds(w, j) THEN robbed \cup {j} ELSE robbed

-----------------------------------------------------------------------------
(* Environment: time, processes and the web process *)

\* Time passes without a save of j: the record outlives the 30 s grace of a
\* dead lock (1) and then max(timeout, 60 s) + 30 s (2).  While somebody runs
\* the job it reaches SilentAge at most.
RecordAges(j) ==
  /\ file[j].status = "running" /\ age[j] < 2
  /\ Abandoned(j) \/ age[j] < SilentAge
  /\ age' = [age EXCEPT ![j] = @ + 1]
  /\ UNCHANGED <<made, file, locks, proc, sched, runs, webs, crashes, acked, robbed>>

\* The lock file outlives max(timeout, 60 s): nothing refreshes its mtime.  A
\* lock that nobody claims or runs the job with outlives any limit.
LockAges(j) ==
  /\ lock[j] # NoWorker /\ ~lockOld[j]
  /\ LocksAge \/ (Abandoned(j) /\ \A w \in Workers : ~Claiming(w, j))
  /\ lockOld' = [lockOld EXCEPT ![j] = TRUE]
  /\ UNCHANGED <<made, store, lock, proc, sched, runs, webs, crashes, acked, robbed>>

\* main(): a worker process starts with empty maps.
Start(w) ==
  /\ proc[w] = "new"
  /\ SingleWorker => \A v \in Workers : proc[v] # "up"
  /\ proc' = [proc EXCEPT ![w] = "up"]
  /\ UNCHANGED <<made, store, locks, sched, runs, webs, crashes, acked, robbed>>

\* The worker dies.  Its in-process runs die with it; a training child is a
\* process of its own and goes on.
Crash(w) ==
  /\ "worker" \in Mortal /\ proc[w] = "up" /\ crashes < MaxCrashes
  /\ crashes' = crashes + 1
  /\ proc' = [proc EXCEPT ![w] = "dead"]
  /\ sched' = [sched EXCEPT ![w] = IdleSched]
  /\ run' = [run EXCEPT ![w] =
               [j \in Jobs |-> IF InChild(w, j) THEN run[w][j] ELSE "none"]]
  /\ stage' = [stage EXCEPT ![w] =
                 [j \in Jobs |-> IF InChild(w, j) THEN stage[w][j] ELSE 0]]
  /\ mem' = [mem EXCEPT ![w] =
               [j \in Jobs |-> IF InChild(w, j) THEN mem[w][j] ELSE NoRec]]
  /\ UNCHANGED <<made, store, locks, webs, acked, robbed>>

\* A training child dies: its parent, if there is one, sees the exit.
CrashChild(w, j) ==
  /\ "child" \in Mortal /\ j \in Training /\ run[w][j] \in ChildPcs /\ crashes < MaxCrashes
  /\ crashes' = crashes + 1
  /\ run' = [run EXCEPT ![w][j] = IF proc[w] = "up" THEN "reap" ELSE "none"]
  /\ stage' = [stage EXCEPT ![w][j] = 0]
  /\ mem' = [mem EXCEPT ![w][j] = NoRec]
  /\ UNCHANGED <<made, store, locks, proc, sched, webs, acked, robbed>>

\* createJob.
Submit(j) ==
  /\ j \notin made
  /\ made' = made \cup {j}
  /\ Save(j, NewJob)
  /\ UNCHANGED <<locks, proc, sched, runs, webs, crashes, acked, robbed>>

\* requestCancel, first half: read the record.
CancelRead(j) ==
  /\ j \in Cancellable /\ web[j] = "idle" /\ file[j] # NoRec
  /\ web' = [web EXCEPT ![j] = "read"]
  /\ webRec' = [webRec EXCEPT ![j] = file[j]]
  /\ UNCHANGED <<made, store, locks, proc, sched, runs, crashes, acked, robbed>>

\* requestCancel, second half: set cancelRequested, make a queued job
\* cancelled, write the whole record back and answer the request.
CancelSave(j) ==
  /\ web[j] = "read"
  /\ Save(j, [webRec[j] EXCEPT !.cancelRequested = TRUE,
                               !.status = IF @ = "queued" THEN "cancelled" ELSE @])
  /\ web' = [web EXCEPT ![j] = "done"]
  /\ webRec' = [webRec EXCEPT ![j] = NoRec]
  /\ acked' = IF webRec[j].status \in Terminal THEN acked ELSE acked \cup {j}
  /\ UNCHANGED <<made, locks, proc, sched, runs, crashes, robbed>>

\* deleteJob: the directory goes with everything in it, the lock included.
Delete(j) ==
  /\ j \in Deletable /\ file[j] # NoRec
  /\ Save(j, NoRec)
  /\ RemoveLock(j)
  /\ UNCHANGED <<made, proc, sched, runs, webs, crashes, acked>>

-----------------------------------------------------------------------------
(* The scheduler of a worker: claimQueuedJob and recoverStaleRunningJobs *)

\* Fault: the lock is written with the flag "w".
CreateLockOver(w, j) ==
  /\ lock' = [lock EXCEPT ![j] = w]
  /\ lockOld' = [lockOld EXCEPT ![j] = FALSE]

\* Creating job.lock with the "wx" flag, when it does not exist.
CreateLock(w, j) ==
  /\ lock[j] = NoWorker
  /\ lock' = [lock EXCEPT ![j] = w]
  /\ lockOld' = [lockOld EXCEPT ![j] = FALSE]

Scan(w) == [sched[w] EXCEPT !.pc = "scan", !.job = NoWorker, !.rec = NoRec]

\* Fault: excludeKinds is not passed.
ClaimableOfAnyKind(w) ==
  {j \in Jobs : file[j].status = "queued" /\ j \notin Active(w)}

\* The candidates of claimQueuedJob: the queued jobs that are not active here,
\* without training jobs when something is active.
Claimable(w) ==
  {j \in Jobs : /\ file[j].status = "queued"
                /\ j \notin Active(w)
                /\ Active(w) # {} => j \notin Training}

\* startAvailableJobs and the head of claimQueuedJob: nothing while a training
\* job is active here, nothing at the parallel limits; otherwise list the
\* candidates.
ClaimList(w) ==
  /\ proc[w] = "up" /\ sched[w].pc = "idle"
  /\ Active(w) \cap Training = {}
  /\ Cardinality(Active(w)) < MaxParallel
  /\ RunningCount < MaxParallel
  /\ Claimable(w) # {}
  /\ sched' = [sched EXCEPT ![w].pc = "scan", ![w].cands = Claimable(w)]
  /\ UNCHANGED <<made, store, locks, proc, runs, webs, crashes, acked, robbed>>

\* The next candidate of the list: read it again and skip it when it is gone
\* or no longer queued.
ClaimRead(w, j) ==
  /\ proc[w] = "up" /\ sched[w].pc = "scan" /\ j \in sched[w].cands
  /\ \/ /\ file[j].status = "queued"
        /\ sched' = [sched EXCEPT ![w] = [pc |-> "lock", cands |-> @.cands \ {j},
                                          job |-> j, rec |-> file[j]]]
     \/ /\ file[j].status # "queued"
        /\ sched' = [sched EXCEPT ![w].cands = @ \ {j}]
  /\ UNCHANGED <<made, store, locks, proc, runs, webs, crashes, acked, robbed>>

\* No candidate is left: startAvailableJobs returns.
ClaimNone(w) ==
  /\ proc[w] = "up" /\ sched[w].pc = "scan" /\ sched[w].cands = {}
  /\ sched' = [sched EXCEPT ![w] = IdleSched]
  /\ UNCHANGED <<made, store, locks, proc, runs, webs, crashes, acked, robbed>>

\* acquireJobLock: the exclusive create succeeds, or fails with EEXIST.  It
\* also fails when the directory of the job is gone.
LockCreate(w, j) ==
  /\ proc[w] = "up" /\ sched[w].pc = "lock" /\ sched[w].job = j
  /\ \/ /\ file[j] # NoRec /\ CreateLock(w, j)
        /\ sched' = [sched EXCEPT ![w].pc = "claim"]
     \/ /\ lock[j] # NoWorker \/ file[j] = NoRec
        /\ sched' = [sched EXCEPT ![w].pc = "exists"]
        /\ UNCHANGED locks
  /\ UNCHANGED <<made, store, proc, runs, webs, crashes, acked, robbed>>

\* Fault: the age of the lock is not looked at.
StealableDead(j) == LockDead(j)

\* A dead owner or an old lock allows the steal.
Stealable(j) == LockDead(j) \/ lockOld[j]

\* acquireJobLock, after the failed create: stat and read the lock, and skip
\* the candidate when the lock cannot be stolen.
LockInspect(w, j) ==
  /\ proc[w] = "up" /\ sched[w].pc = "exists" /\ sched[w].job = j
  /\ sched' = [sched EXCEPT ![w] =
       IF Stealable(j) THEN [@ EXCEPT !.pc = "steal"] ELSE Scan(w)]
  /\ UNCHANGED <<made, store, locks, proc, runs, webs, crashes, acked, robbed>>

\* The steal removes whatever lock is there by now.
LockRemove(w, j) ==
  /\ proc[w] = "up" /\ sched[w].pc = "steal" /\ sched[w].job = j
  /\ RemoveLock(j)
  /\ sched' = [sched EXCEPT ![w].pc = "create"]
  /\ UNCHANGED <<made, store, proc, runs, webs, crashes, acked>>

\* ... and creates its own, if nobody else was faster.
LockRecreate(w, j) ==
  /\ proc[w] = "up" /\ sched[w].pc = "create" /\ sched[w].job = j
  /\ \/ /\ file[j] # NoRec /\ CreateLock(w, j)
        /\ sched' = [sched EXCEPT ![w].pc = "resave"]
     \/ /\ lock[j] # NoWorker \/ file[j] = NoRec
        /\ sched' = [sched EXCEPT ![w] = Scan(w)]
        /\ UNCHANGED locks
  /\ UNCHANGED <<made, store, proc, runs, webs, crashes, acked, robbed>>

\* addLog after a steal saves the record as it was read, still queued.
LockResave(w, j) ==
  /\ proc[w] = "up" /\ sched[w].pc = "resave" /\ sched[w].job = j
  /\ Save(j, sched[w].rec)
  /\ sched' = [sched EXCEPT ![w].pc = "claim"]
  /\ UNCHANGED <<made, locks, proc, runs, webs, crashes, acked, robbed>>

\* Fault: the claim does not change the status.
ClaimedStillQueued(rec) == rec

\* The record of a job that has been claimed.
Claimed(rec) == [rec EXCEPT !.status = "running"]

\* The end of claimQueuedJob and of the loop body of startAvailableJobs: save
\* the record that was read before the lock as running, put the job into the
\* active map and start it, in a child process when it is a training job.
ClaimSave(w, j) ==
  /\ proc[w] = "up" /\ sched[w].pc = "claim" /\ sched[w].job = j
  /\ Save(j, Claimed(sched[w].rec))
  /\ mem' = [mem EXCEPT ![w][j] = Claimed(sched[w].rec)]
  /\ run' = [run EXCEPT ![w][j] = IF j \in Training THEN "spawn" ELSE "start"]
  /\ sched' = [sched EXCEPT ![w] = IdleSched]
  /\ UNCHANGED <<made, locks, proc, stage, webs, crashes, acked, robbed>>

\* Fault: the age of the record is not looked at.
StaleLimitNone(j) == 0
\* Fault: only jobs with a dead lock are recovered.
StaleLimitDeadLock(j) == IF LockDead(j) THEN 1 ELSE 3

\* The age at which a running record is taken for abandoned.
StaleLimit(j) == IF LockDead(j) THEN 1 ELSE 2

\* recoverStaleRunningJobs: a record that says running and is too old, with the
\* shorter limit when the lock belongs to a dead process, is to be failed ...
RecoverRead(w, j) ==
  /\ proc[w] = "up" /\ sched[w].pc = "idle"
  /\ file[j].status = "running"
  /\ age[j] >= StaleLimit(j)
  /\ sched' = [sched EXCEPT ![w] = [pc |-> "release", cands |-> {}, job |-> j,
                                    rec |-> [file[j] EXCEPT !.status = "failed"]]]
  /\ UNCHANGED <<made, store, locks, proc, runs, webs, crashes, acked, robbed>>

\* ... its lock goes first ...
RecoverRelease(w, j) ==
  /\ proc[w] = "up" /\ sched[w].pc = "release" /\ sched[w].job = j
  /\ RemoveLock(j)
  /\ sched' = [sched EXCEPT ![w].pc = "recover"]
  /\ UNCHANGED <<made, store, proc, runs, webs, crashes, acked>>

\* ... and is then saved as failed.
RecoverSave(w, j) ==
  /\ proc[w] = "up" /\ sched[w].pc = "recover" /\ sched[w].job = j
  /\ Save(j, sched[w].rec)
  /\ sched' = [sched EXCEPT ![w] = IdleSched]
  /\ UNCHANGED <<made, locks, proc, runs, webs, crashes, acked, robbed>>

-----------------------------------------------------------------------------
(* The run of a claimed job: runJob and runJobOnce *)

\* The run moves on, with what it keeps in memory, or is over.
GoTo(w, j, pc) == run' = [run EXCEPT ![w][j] = pc]
Leave(w, j, pc) ==
  /\ GoTo(w, j, pc)
  /\ stage' = [stage EXCEPT ![w][j] = 0]
  /\ mem' = [mem EXCEPT ![w][j] = NoRec]
Keep(w, j, rec) == mem' = [mem EXCEPT ![w][j] = rec]

\* run-claimed-job.ts: the child reads the record again.  It may fail to start.
RunSpawn(w, j) ==
  /\ proc[w] = "up" /\ run[w][j] = "spawn"
  /\ \/ /\ file[j] # NoRec
        /\ Keep(w, j, file[j]) /\ GoTo(w, j, "start")
        /\ UNCHANGED stage
     \/ Leave(w, j, "reap")
  /\ UNCHANGED <<made, store, locks, proc, sched, webs, crashes, acked, robbed>>

\* runJob counts the attempt and saves; runJobOnce asserts the transition to
\* running and saves the progress.  A rejected transition is an exception.
RunBegin(w, j) ==
  /\ Alive(w, j) /\ run[w][j] = "start"
  /\ LET lawful == CanTransition(mem[w][j].status, "running")
         rec == [mem[w][j] EXCEPT !.attempts = @ + 1,
                                  !.status = IF lawful THEN "running" ELSE @]
     IN /\ Save(j, rec) /\ Keep(w, j, rec)
        /\ GoTo(w, j, IF lawful THEN "check" ELSE "fail")
  /\ stage' = [stage EXCEPT ![w][j] = 0]
  /\ UNCHANGED <<made, locks, proc, sched, webs, crashes, acked, robbed>>

\* throwIfCancelled reads the job: it is gone (an exception), cancelled, or
\* the next stage starts.
RunCheck(w, j) ==
  /\ Alive(w, j) /\ run[w][j] = "check"
  /\ GoTo(w, j, CASE file[j] = NoRec -> "fail"
                  [] file[j] # NoRec /\ (file[j].cancelRequested \/ file[j].status = "cancelled")
                       -> "cancelled"
                  [] OTHER -> "work")
  /\ UNCHANGED <<made, store, locks, proc, sched, stage, mem, webs, crashes, acked, robbed>>

\* throwIfCancelled saves the job as cancelled and throws.
RunCancelled(w, j) ==
  /\ Alive(w, j) /\ run[w][j] = "cancelled"
  /\ LET rec == [mem[w][j] EXCEPT !.status = "cancelled"]
     IN Save(j, rec) /\ Keep(w, j, rec)
  /\ GoTo(w, j, "fail")
  /\ UNCHANGED <<made, locks, proc, sched, stage, webs, crashes, acked, robbed>>

\* A stage of the job ends: its progress is saved and the next checkpoint, or
\* the end of the run, follows; or it throws.
RunWork(w, j) ==
  /\ Alive(w, j) /\ run[w][j] = "work"
  /\ \/ /\ Save(j, mem[w][j])
        /\ IF stage[w][j] + 1 < Checkpoints
           THEN GoTo(w, j, "check") /\ stage' = [stage EXCEPT ![w][j] = @ + 1]
           ELSE GoTo(w, j, "finish") /\ UNCHANGED stage
     \/ GoTo(w, j, "fail") /\ UNCHANGED <<store, stage>>
  /\ UNCHANGED <<made, locks, proc, sched, mem, webs, crashes, acked, robbed>>

\* The end of runJobOnce.  succeeded_with_warnings stands with succeeded; a
\* failed artifact check is a failed job without a retry.
RunFinish(w, j) ==
  /\ Alive(w, j) /\ run[w][j] = "finish"
  /\ \E status \in {"succeeded", "failed"} :
       LET rec == [mem[w][j] EXCEPT !.status = status]
       IN Save(j, rec) /\ Keep(w, j, rec)
  /\ GoTo(w, j, "ended")
  /\ UNCHANGED <<made, locks, proc, sched, stage, webs, crashes, acked, robbed>>

\* Fault: one attempt too many.
MayRetryOnceMore(rec) == rec.attempts <= MaxAttempts

\* Attempts are left.
MayRetry(rec) == rec.attempts < MaxAttempts

\* The catch of runJob: queue the job again while attempts are left, whatever
\* its status; otherwise it fails, unless the transition table objects (a
\* cancelled job), which leaves the handler with an exception.
RunFail(w, j) ==
  /\ Alive(w, j) /\ run[w][j] = "fail"
  /\ LET retry == MayRetry(mem[w][j])
         rec == [mem[w][j] EXCEPT !.status = IF retry THEN "queued" ELSE "failed"]
     IN IF retry \/ CanTransition(mem[w][j].status, "failed")
        THEN Save(j, rec) /\ Keep(w, j, rec) /\ GoTo(w, j, "ended")
        ELSE GoTo(w, j, "thrown") /\ UNCHANGED <<store, mem>>
  /\ UNCHANGED <<made, locks, proc, sched, stage, webs, crashes, acked, robbed>>

\* The finally of runJob removes the lock, whoever owns it by now, and the job
\* leaves the active map.  A child that ends with an exception is reaped.
RunRelease(w, j) ==
  /\ Alive(w, j) /\ run[w][j] \in {"ended", "thrown"}
  /\ RemoveLock(j)
  /\ Leave(w, j, IF run[w][j] = "thrown" /\ j \in Training /\ proc[w] = "up"
                 THEN "reap" ELSE "none")
  /\ UNCHANGED <<made, store, proc, sched, webs, crashes, acked>>

\* Fault: the job of the dead child is not recorded as failed.
ReapedUnchanged(rec) == rec

\* What the parent of a dead child writes.
Reaped(rec) == [rec EXCEPT !.status = "failed"]

\* runClaimedTrainingJobInChild after an exit code other than 0: read the job
\* again and leave it alone unless it still says running ...
ReapRead(w, j) ==
  /\ proc[w] = "up" /\ run[w][j] = "reap"
  /\ \/ /\ file[j].status = "running"
        /\ Keep(w, j, file[j]) /\ GoTo(w, j, "reaped")
        /\ UNCHANGED stage
     \/ /\ file[j].status # "running"
        /\ Leave(w, j, "none")
  /\ UNCHANGED <<made, store, locks, proc, sched, webs, crashes, acked, robbed>>

\* ... save it as failed ...
ReapSave(w, j) ==
  /\ proc[w] = "up" /\ run[w][j] = "reaped"
  /\ Save(j, Reaped(mem[w][j]))
  /\ GoTo(w, j, "unlock")
  /\ UNCHANGED <<made, locks, proc, sched, stage, mem, webs, crashes, acked, robbed>>

\* Fault: the lock of a failed training job stays.
ReapReleaseForgotten(w, j) ==
  /\ proc[w] = "up" /\ run[w][j] = "unlock"
  /\ Leave(w, j, "none")
  /\ UNCHANGED <<made, store, locks, proc, sched, webs, crashes, acked, robbed>>

\* ... and remove its lock.
ReapRelease(w, j) ==
  /\ proc[w] = "up" /\ run[w][j] = "unlock"
  /\ RemoveLock(j)
  /\ Leave(w, j, "none")
  /\ UNCHANGED <<made, store, proc, sched, webs, crashes, acked>>

-----------------------------------------------------------------------------
(* Specification *)

Init ==
  /\ made = {}
  /\ file = [j \in Jobs |-> NoRec]
  /\ age = [j \in Jobs |-> 0]
  /\ lock = [j \in Jobs |-> NoWorker]
  /\ lockOld = [j \in Jobs |-> FALSE]
  /\ proc = [w \in Workers |-> "new"]
  /\ sched = [w \in Workers |-> IdleSched]
  /\ run = [w \in Workers |-> [j \in Jobs |-> "none"]]
  /\ stage = [w \in Workers |-> [j \in Jobs |-> 0]]
  /\ mem = [w \in Workers |-> [j \in Jobs |-> NoRec]]
  /\ web = [j \in Jobs |-> "idle"]
  /\ webRec = [j \in Jobs |-> NoRec]
  /\ crashes = 0
  /\ acked = {}
  /\ robbed = {}

\* One step of the scheduler loop about job j.
SchedStep(w, j) ==
  \/ ClaimRead(w, j) \/ LockCreate(w, j) \/ LockInspect(w, j) \/ LockRemove(w, j)
  \/ LockRecreate(w, j) \/ LockResave(w, j) \/ ClaimSave(w, j)
  \/ RecoverRead(w, j) \/ RecoverRelease(w, j) \/ RecoverSave(w, j)

\* One step of the run of job j, or of its parent.
RunStep(w, j) ==
  \/ RunSpawn(w, j) \/ RunBegin(w, j) \/ RunCheck(w, j) \/ RunCancelled(w, j)
  \/ RunWork(w, j) \/ RunFinish(w, j) \/ RunFail(w, j) \/ RunRelease(w, j)
  \/ ReapRead(w, j) \/ ReapSave(w, j) \/ ReapRelease(w, j)

\* Steps of the outside world about job j.
WorldStep(j) ==
  \/ RecordAges(j) \/ LockAges(j) \/ Submit(j)
  \/ CancelRead(j) \/ CancelSave(j) \/ Delete(j)

Next ==
  \/ \E j \in Jobs : WorldStep(j)
  \/ \E w \in Workers :
       \/ Start(w) \/ Crash(w) \/ ClaimList(w) \/ ClaimNone(w)
       \/ \E j \in Jobs : CrashChild(w, j) \/ SchedStep(w, j) \/ RunStep(w, j)

Spec == Init /\ [][Next]_vars

\* Fairness: a live process goes on with what it has begun (the event loop and
\* the 2 s timer of worker.ts), a request that was read is answered, time
\* passes, and a dead worker is started again by whoever operates it.
Fairness ==
  /\ \A w \in Workers :
       /\ WF_vars(Start(w)) /\ WF_vars(ClaimList(w)) /\ WF_vars(ClaimNone(w))
       /\ \A j \in Jobs : WF_vars(SchedStep(w, j)) /\ WF_vars(RunStep(w, j))
  /\ \A j \in Jobs :
       WF_vars(RecordAges(j)) /\ WF_vars(LockAges(j)) /\ WF_vars(CancelSave(j))

FairSpec == Spec /\ Fairness

-----------------------------------------------------------------------------
(* Properties *)

\* Every variable has the type its comment gives it.
TypeOK ==
  /\ made \subseteq Jobs
  /\ file \in [Jobs -> Rec]
  /\ age \in [Jobs -> 0..2]
  /\ lock \in [Jobs -> Workers \cup {NoWorker}]
  /\ lockOld \in [Jobs -> BOOLEAN]
  /\ proc \in [Workers -> {"new", "up", "dead"}]
  /\ sched \in [Workers -> [pc : SchedPcs, cands : SUBSET Jobs,
                             job : Jobs \cup {NoWorker}, rec : Rec]]
  /\ run \in [Workers -> [Jobs -> RunPcs]]
  /\ stage \in [Workers -> [Jobs -> Nat]]
  /\ mem \in [Workers -> [Jobs -> Rec]]
  /\ web \in [Jobs -> {"idle", "read", "done"}]
  /\ webRec \in [Jobs -> Rec]
  /\ crashes \in 0..MaxCrashes
  /\ acked \subseteq Jobs
  /\ robbed \subseteq Jobs

\* The purpose of job.lock: no two processes execute one job at a time.
ExclusiveRun ==
  \A j \in Jobs : \A v, w \in Workers : Executing(v, j) /\ Executing(w, j) => v = w

\* Why: who relies on the lock of a job is the process the lock file names,
\* as long as no other process has removed that file.  So two executions of
\* one job are always preceded by the removal of a lock that was in use: a
\* steal by age, a steal that overlaps another one, a recovery, a deletion,
\* or the release of a run that had lost its own lock.
LockGuards ==
  \A j \in Jobs \ robbed : \A w \in Workers : Holds(w, j) => lock[j] = w

\* No process ever removes a lock another one relies on.
NeverRobbed == robbed = {}

\* The comment of startAvailableJobs in worker.ts, for the jobs of one worker
\* process: a training job is the only active one.
TrainingExclusive ==
  \A w \in Workers : Active(w) \cap Training # {} => Cardinality(Active(w)) = 1

\* The same comment for the whole system: a training process does not compete
\* with the run of any other job.
TrainingAlone ==
  \A v, w \in Workers : \A i \in Training, j \in Jobs :
    Executing(v, i) /\ Executing(w, j) => i = j

\* maxParallelJobs bounds the executions in the whole system, those that
\* outlived their worker included.
ParallelLimit ==
  Cardinality({x \in Workers \X Jobs : Executing(x[1], x[2])}) <= MaxParallel

\* A job that says running is in somebody's hands: a live run, a parent about
\* to reap its child, a recovery under way, or a dead owner's lock that lets
\* the recovery take it after the short grace.
RunningIsOwned ==
  \A j \in Jobs : file[j].status = "running" =>
    \/ LockDead(j)
    \/ \E w \in Workers : run[w][j] # "none" /\ Alive(w, j)
    \/ \E w \in Workers : sched[w].pc \in {"release", "recover"} /\ sched[w].job = j

\* A live worker that owns a lock file is claiming or running that job: no
\* error path leaves the lock behind.
LockNotLeaked ==
  \A j \in Jobs, w \in Workers :
    lock[j] = w /\ proc[w] = "up" => Claiming(w, j) \/ run[w][j] # "none"

\* assertTransition, for what is stored: job.json only ever moves along the
\* transition table, whichever process writes it.
LawfulTransitions ==
  [][\A j \in Jobs : file[j] # NoRec /\ file'[j] # NoRec =>
       CanTransition(file[j].status, file'[j].status)]_file

\* The attempts that job.json counts never go back and never exceed
\* TILEFORGE_JOB_MAX_ATTEMPTS: retries, crashes and recoveries included.
AttemptsCounted ==
  [][\A j \in Jobs : file[j].attempts <= file'[j].attempts
                    /\ file'[j].attempts <= MaxAttempts]_file

\* recoverStaleRunningJobs only declares dead what nobody runs.
RecoversOnlyAbandoned ==
  [][\A w \in Workers, j \in Jobs :
       sched[w].pc = "idle" /\ sched'[w].pc = "release" /\ sched'[w].job = j
         => Abandoned(j)]_sched

\* A run does not pass a checkpoint after a cancel request for its job has been
\* answered.
CancelStopsRun ==
  [][\A w \in Workers, j \in acked :
       run[w][j] = "check" => run'[w][j] # "work"]_run

\* A job that was cancelled is not put back into the queue.
CancelledNotRequeued ==
  [][\A j \in Jobs : file[j].status = "cancelled" => file'[j].status # "queued"]_file

\* A deleted job stays deleted.
DeletedStaysDeleted ==
  [][\A j \in made : file[j] = NoRec => file'[j] = NoRec]_file

\* Every submitted job settles: from some point on its record is terminal, or
\* the job has been deleted and no save brings its record back.
EverySettles ==
  \A j \in Jobs : j \in made ~> [](file[j].status \in Terminal \cup {"none"})

\* The job as JobLifecycle sees it: in the hands of the workers that were
\* handed it or execute it.
Status == [j \in Jobs |-> file[j].status]
Attempts == [j \in Jobs |-> file[j].attempts]
Holders(j) == {w \in Workers : run[w][j] = "spawn" \/ Executing(w, j)}
HeldBy == [j \in Jobs |-> Holders(j)]
Lifecycle == INSTANCE JobLifecycle WITH
  status <- Status, attempts <- Attempts, holders <- HeldBy

\* What all this is for: the queue implements JobLifecycle.  Where nobody
\* cancels or deletes, files, locks, steals, children and recoveries add
\* nothing that the abstract queue could not do.
Implements == Lifecycle!Spec
=============================================================================
