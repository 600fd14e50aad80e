---------------------------- MODULE SqliteQueue ----------------------------
(***************************************************************************)
(* The job queue on top of SqliteStore: what claims, retries, cancels and  *)
(* recoveries see when they go by the columns of the database.             *)
(*                                                                         *)
(* The life of a job is that of JobQueue; what JobQueue has in detail is   *)
(* coarser here: taking job.lock, stealing a dead owner's included, is one *)
(* step, a recovery looks and acts in one step, jobs are ordinary ones, and *)
(* a live run is never taken for dead.                                     *)
(***************************************************************************)
EXTENDS SqliteStore

CONSTANTS
  MaxAttempts,   \* TILEFORGE_JOB_MAX_ATTEMPTS
  MaxParallel,   \* maxParallelJobs()
  SingleWorker,  \* TRUE: a worker starts only when no other one is up
  Cancellable,   \* jobs the user may cancel
  MaxCrashes,    \* bound on the number of crashes
  TornSaves,     \* jobs in whose saves a crash may come between the two halves
  NoWorker       \* the lock of a job that has no lock file

ASSUME QueueAssumption ==
  /\ Cancellable \subseteq Jobs
  /\ NoWorker \notin Workers
  /\ MaxAttempts \in Nat \ {0}
  /\ MaxParallel \in Nat \ {0}
  /\ MaxCrashes \in Nat
  /\ SingleWorker \in BOOLEAN
  /\ TornSaves \subseteq Jobs

VARIABLES
  lock,     \* the worker whose pid is in job.lock, or NoWorker
  proc,     \* "new", "up" or "dead"
  sched,    \* the scheduler of each worker, with the candidates as they were read
  run,      \* where the run of a job in a worker is ("none": not active)
  mem,      \* the record that run holds in memory
  web,      \* the request about a job in the web process
  webRec,   \* the record a cancel request has read and will write back
  crashes   \* crashes so far

vars == <<store, lock, proc, sched, run, mem, web, webRec, crashes>>

\* Fault: createJob writes a status that JobStatus does not have.
NewJobPending == [status |-> "pending", cancelRequested |-> FALSE, attempts |-> 0]
NewJob == [status |-> "queued", cancelRequested |-> FALSE, attempts |-> 0]
NoCands == [j \in Jobs |-> NoRec]
IdleSched == [pc |-> "idle", cands |-> NoCands, job |-> NoWorker, rec |-> NoRec]

SchedPcs == {"idle", "scan", "resave", "claim", "claimed", "recover"}
Sched == [pc : SchedPcs, cands : [Jobs -> Rec], job : Jobs \cup {NoWorker}, rec : Rec]
RunPcs == {"none", "start", "check", "work", "fail", "ended"}

Active(w) == {j \in Jobs : run[w][j] # "none"}
LockDead(j) == lock[j] \in Workers /\ proc[lock[j]] = "dead"

-----------------------------------------------------------------------------
(* The web process, the processes and time *)

\* createJob.
Submit(j) ==
  /\ web[j] = "none"
  /\ Save(Web, j, NewJob)
  /\ web' = [web EXCEPT ![j] = "idle"]
  /\ UNCHANGED <<lock, proc, sched, run, mem, webRec, crashes>>

\* requestCancel reads the json column ...
CancelRead(j) ==
  /\ j \in Cancellable /\ web[j] = "idle" /\ Ready(Web, j)
  /\ web' = [web EXCEPT ![j] = "read"]
  /\ webRec' = [webRec EXCEPT ![j] = ReadJob(j)]
  /\ UNCHANGED <<store, lock, proc, sched, run, mem, crashes>>

\* ... and saves the record with the request in it.
CancelSave(j) ==
  /\ web[j] = "read"
  /\ Save(Web, j, [webRec[j] EXCEPT !.cancelRequested = TRUE,
                                    !.status = IF @ = "queued" THEN "cancelled" ELSE @])
  /\ web' = [web EXCEPT ![j] = "done"]
  /\ webRec' = [webRec EXCEPT ![j] = NoRec]
  /\ UNCHANGED <<lock, proc, sched, run, mem, crashes>>

\* saveJobSqlite, by whoever has replaced job.json.
MirrorSave(p, j) ==
  /\ Mirror(p, j)
  /\ UNCHANGED <<lock, proc, sched, run, mem, web, webRec, crashes>>

\* The 15 s since a full write are over.
TimePasses(p, j) ==
  /\ IntervalEnds(p, j)
  /\ UNCHANGED <<lock, proc, sched, run, mem, web, webRec, crashes>>

Start(w) ==
  /\ proc[w] = "new"
  /\ SingleWorker => \A v \in Workers : proc[v] # "up"
  /\ proc' = [proc EXCEPT ![w] = "up"]
  /\ UNCHANGED <<store, lock, sched, run, mem, web, webRec, crashes>>

\* The worker dies, possibly between the two halves of a save.
Crash(w) ==
  /\ proc[w] = "up" /\ crashes < MaxCrashes
  /\ \A j \in Jobs \ TornSaves : Ready(w, j)
  /\ crashes' = crashes + 1
  /\ proc' = [proc EXCEPT ![w] = "dead"]
  /\ sched' = [sched EXCEPT ![w] = IdleSched]
  /\ run' = [run EXCEPT ![w] = [j \in Jobs |-> "none"]]
  /\ mem' = [mem EXCEPT ![w] = [j \in Jobs |-> NoRec]]
  /\ Forget(w)
  /\ UNCHANGED <<lock, web, webRec>>

-----------------------------------------------------------------------------
(* The scheduler: claimQueuedJob and recoverStaleRunningJobs *)

\* startAvailableJobs and the head of claimQueuedJob: below the limits, take
\* the json of every queued row that is not active here.
ClaimList(w) ==
  /\ proc[w] = "up" /\ sched[w].pc = "idle"
  /\ Cardinality(Active(w)) < MaxParallel /\ RunningCount < MaxParallel
  /\ LET queued == QueuedRows \ Active(w)
     IN /\ queued # {}
        /\ sched' = [sched EXCEPT ![w].pc = "scan",
             ![w].cands = [j \in Jobs |-> IF j \in queued THEN row[j].json ELSE NoRec]]
  /\ UNCHANGED <<store, lock, proc, run, mem, web, webRec, crashes>>

\* The test of the claim loop, on the json that was listed.
Claimable(rec) == rec.status = "queued"

\* The next candidate of the list: skip it unless its json says queued and its
\* lock can be had.  Nothing is read again.
ClaimNext(w, j) ==
  /\ proc[w] = "up" /\ sched[w].pc = "scan" /\ sched[w].cands[j] # NoRec
  /\ LET rec == sched[w].cands[j]
         rest == [sched[w].cands EXCEPT ![j] = NoRec]
     IN IF Claimable(rec) /\ (lock[j] = NoWorker \/ LockDead(j))
        THEN /\ lock' = [lock EXCEPT ![j] = w]
             /\ sched' = [sched EXCEPT ![w] =
                  [pc |-> IF LockDead(j) THEN "resave" ELSE "claim",
                   cands |-> rest, job |-> j, rec |-> rec]]
        ELSE /\ sched' = [sched EXCEPT ![w].cands = rest]
             /\ UNCHANGED lock
  /\ UNCHANGED <<store, proc, run, mem, web, webRec, crashes>>

\* The list is exhausted.
ClaimNone(w) ==
  /\ proc[w] = "up" /\ sched[w].pc = "scan" /\ sched[w].cands = NoCands
  /\ sched' = [sched EXCEPT ![w] = IdleSched]
  /\ UNCHANGED <<store, lock, proc, run, mem, web, webRec, crashes>>

\* addLog after a steal saves the candidate as it is.
LockResave(w, j) ==
  /\ proc[w] = "up" /\ sched[w].pc = "resave" /\ sched[w].job = j
  /\ Save(w, j, sched[w].rec)
  /\ sched' = [sched EXCEPT ![w].pc = "claim"]
  /\ UNCHANGED <<lock, proc, run, mem, web, webRec, crashes>>

Claimed(rec) == [rec EXCEPT !.status = "running"]

\* The claimed record is saved as running ...
ClaimSave(w, j) ==
  /\ proc[w] = "up" /\ sched[w].pc = "claim" /\ sched[w].job = j
  /\ Save(w, j, Claimed(sched[w].rec))
  /\ sched' = [sched EXCEPT ![w].pc = "claimed"]
  /\ UNCHANGED <<lock, proc, run, mem, web, webRec, crashes>>

\* ... and once that is done the job becomes active and runs.
ClaimDone(w, j) ==
  /\ proc[w] = "up" /\ sched[w].pc = "claimed" /\ sched[w].job = j /\ Ready(w, j)
  /\ mem' = [mem EXCEPT ![w][j] = Claimed(sched[w].rec)]
  /\ run' = [run EXCEPT ![w][j] = "start"]
  /\ sched' = [sched EXCEPT ![w] = IdleSched]
  /\ UNCHANGED <<store, lock, proc, web, webRec, crashes>>

\* Fault: a dead owner's lock protects its job for ever.
AbandonedWithoutLock(j) == lock[j] = NoWorker

\* When a running record has become old enough, and a live run never does here:
\* after the grace of a dead lock, or after the long limit when there is no lock.
Abandoned(j) == lock[j] = NoWorker \/ LockDead(j)

\* recoverStaleRunningJobs: a job that is running by its summary file and by its
\* json column loses its lock and is saved as failed.
Recover(w, j) ==
  /\ proc[w] = "up" /\ sched[w].pc = "idle"
  /\ file[j].status = "running" /\ ReadJob(j).status = "running"
  /\ Abandoned(j)
  /\ lock' = [lock EXCEPT ![j] = NoWorker]
  /\ Save(w, j, [ReadJob(j) EXCEPT !.status = "failed"])
  /\ sched' = [sched EXCEPT ![w].pc = "recover", ![w].job = j]
  /\ UNCHANGED <<proc, run, mem, web, webRec, crashes>>

\* The save of the recovery is complete.
RecoverDone(w, j) ==
  /\ proc[w] = "up" /\ sched[w].pc = "recover" /\ sched[w].job = j /\ Ready(w, j)
  /\ sched' = [sched EXCEPT ![w] = IdleSched]
  /\ UNCHANGED <<store, lock, proc, run, mem, web, webRec, crashes>>

-----------------------------------------------------------------------------
(* The run of a claimed job: runJob and runJobOnce *)

Live(w, j, pc) == proc[w] = "up" /\ run[w][j] = pc /\ Ready(w, j)
GoTo(w, j, pc) == run' = [run EXCEPT ![w][j] = pc]
SaveAndKeep(w, j, rec) == Save(w, j, rec) /\ mem' = [mem EXCEPT ![w][j] = rec]

\* runJob counts the attempt; runJobOnce re-asserts running and saves.
RunBegin(w, j) ==
  /\ Live(w, j, "start")
  /\ SaveAndKeep(w, j, [mem[w][j] EXCEPT !.attempts = @ + 1])
  /\ GoTo(w, j, "check")
  /\ UNCHANGED <<lock, proc, sched, web, webRec, crashes>>

\* throwIfCancelled: cancelled by the json column, or on with the work.
RunCheck(w, j) ==
  /\ Live(w, j, "check")
  /\ IF ReadJob(j).cancelRequested \/ ReadJob(j).status = "cancelled"
     THEN /\ SaveAndKeep(w, j, [mem[w][j] EXCEPT !.status = "cancelled"])
          /\ GoTo(w, j, "fail")
     ELSE GoTo(w, j, "work") /\ UNCHANGED <<store, mem>>
  /\ UNCHANGED <<lock, proc, sched, web, webRec, crashes>>

\* A stage saves its progress; another checkpoint or more work follows.
RunWork(w, j) ==
  /\ Live(w, j, "work")
  /\ SaveAndKeep(w, j, mem[w][j])
  /\ \E pc \in {"check", "work"} : GoTo(w, j, pc)
  /\ UNCHANGED <<lock, proc, sched, web, webRec, crashes>>

\* The last stage ends, or a stage throws.
RunFinish(w, j) ==
  /\ Live(w, j, "work")
  /\ \/ /\ \E status \in {"succeeded", "failed"} :
             SaveAndKeep(w, j, [mem[w][j] EXCEPT !.status = status])
        /\ GoTo(w, j, "ended")
     \/ GoTo(w, j, "fail") /\ UNCHANGED <<store, mem>>
  /\ UNCHANGED <<lock, proc, sched, web, webRec, crashes>>

\* Fault: one attempt too many.
MayRetryOnceMore(rec) == rec.attempts <= MaxAttempts

\* Attempts are left.
MayRetry(rec) == rec.attempts < MaxAttempts

\* The catch of runJob: queue again while attempts are left; otherwise failed,
\* unless the transition table rejects that, which ends the run as it is.
RunFail(w, j) ==
  /\ Live(w, j, "fail")
  /\ LET rec == mem[w][j]
     IN CASE MayRetry(rec) -> SaveAndKeep(w, j, [rec EXCEPT !.status = "queued"])
          [] ~MayRetry(rec) /\ CanTransition(rec.status, "failed") ->
               SaveAndKeep(w, j, [rec EXCEPT !.status = "failed"])
          [] OTHER -> UNCHANGED <<store, mem>>
  /\ GoTo(w, j, "ended")
  /\ UNCHANGED <<lock, proc, sched, web, webRec, crashes>>

\* The finally of runJob: the lock goes and the job leaves the active map.
RunRelease(w, j) ==
  /\ Live(w, j, "ended")
  /\ lock' = [lock EXCEPT ![j] = NoWorker]
  /\ mem' = [mem EXCEPT ![w][j] = NoRec]
  /\ GoTo(w, j, "none")
  /\ UNCHANGED <<store, proc, sched, web, webRec, crashes>>

-----------------------------------------------------------------------------
(* Specification *)

Init ==
  /\ StoreInit
  /\ lock = [j \in Jobs |-> NoWorker]
  /\ proc = [w \in Workers |-> "new"]
  /\ sched = [w \in Workers |-> IdleSched]
  /\ run = [w \in Workers |-> [j \in Jobs |-> "none"]]
  /\ mem = [w \in Workers |-> [j \in Jobs |-> NoRec]]
  /\ web = [j \in Jobs |-> "none"]
  /\ webRec = [j \in Jobs |-> NoRec]
  /\ crashes = 0

SchedStep(w, j) ==
  \/ ClaimNext(w, j) \/ LockResave(w, j) \/ ClaimSave(w, j) \/ ClaimDone(w, j)
  \/ Recover(w, j) \/ RecoverDone(w, j)

\* The steps that bring a run to its end.
RunEnds(w, j) ==
  \/ RunBegin(w, j) \/ RunCheck(w, j) \/ RunFinish(w, j) \/ RunFail(w, j)
  \/ RunRelease(w, j)

Next ==
  \/ \E j \in Jobs :
       \/ Submit(j) \/ CancelRead(j) \/ CancelSave(j)
       \/ \E p \in Processes : MirrorSave(p, j) \/ TimePasses(p, j)
  \/ \E w \in Workers :
       \/ Start(w) \/ Crash(w) \/ ClaimList(w) \/ ClaimNone(w)
       \/ \E j \in Jobs : SchedStep(w, j) \/ RunEnds(w, j) \/ RunWork(w, j)

Spec == Init /\ [][Next]_vars

\* A live process goes on with what it has begun, stages end (they have
\* timeouts), a save is completed, a dead worker is started again.  A run may
\* alternate between stages and checkpoints, hence the strong fairness of its end.
Fairness ==
  /\ \A w \in Workers :
       /\ WF_vars(Start(w)) /\ WF_vars(ClaimList(w)) /\ WF_vars(ClaimNone(w))
       /\ \A j \in Jobs : WF_vars(SchedStep(w, j)) /\ WF_vars(RunEnds(w, j))
       /\ \A j \in Jobs : SF_vars(RunFinish(w, j))
  /\ \A j \in Jobs :
       WF_vars(CancelSave(j)) /\ \A p \in Processes : WF_vars(MirrorSave(p, j))

FairSpec == Spec /\ Fairness

-----------------------------------------------------------------------------
(* Properties *)

\* Every variable has the type its comment gives it.
TypeOK ==
  /\ StoreTypeOK
  /\ lock \in [Jobs -> Workers \cup {NoWorker}]
  /\ proc \in [Workers -> {"new", "up", "dead"}]
  /\ sched \in [Workers -> Sched]
  /\ run \in [Workers -> [Jobs -> RunPcs]]
  /\ mem \in [Workers -> [Jobs -> Rec]]
  /\ web \in [Jobs -> {"none", "idle", "read", "done"}]
  /\ webRec \in [Jobs -> Rec]
  /\ crashes \in 0..MaxCrashes

\* What the throttle of saveJobSqlite promises: a row whose column is terminal
\* has the terminal record itself in its json column, for all readers.
TerminalIsReadable ==
  \A j \in Jobs : row[j].status \in Terminal => row[j].json.status = row[j].status

\* The claim loop relies on it: a job queued by column and by json is known
\* from its newest record, so the attempt counter it is claimed with is the current
\* one; of jobs a user may cancel two processes write the record, and a torn save leaves
\* the older one.
QueuedIsNewest ==
  \A j \in Jobs \ (Cancellable \cup TornSaves) :
    row[j].status = "queued" /\ row[j].json.status = "queued" /\
    (\A p \in Processes : Ready(p, j)) => row[j].json = file[j]

\* The attempts counted in job.json never go back and stay in their bound, as long as
\* no cancel writes the record as well.
AttemptsCounted ==
  [][\A j \in Jobs \ Cancellable : file[j].attempts <= file'[j].attempts
                    /\ file'[j].attempts <= MaxAttempts]_file

\* A job that counts as running (its row takes a slot of the parallel limit)
\* but that nobody alive works on is one the recovery can see and fail.
RunningIsRecoverable ==
  \A j \in Jobs :
    row[j].status = "running" /\ (lock[j] = NoWorker \/ LockDead(j)) /\
    (\A p \in Processes : Ready(p, j))
      => file[j].status = "running" /\ ReadJob(j).status = "running"

\* Every submitted job settles: from some point on its row is terminal.
EverySettles ==
  \A j \in Jobs : web[j] # "none" ~> [](row[j].status \in Terminal)
=============================================================================
