--------------------------- MODULE JobQueueProofs ---------------------------
(***************************************************************************)
(* Proofs about JobQueue, for every number of workers and jobs, every mix  *)
(* of crashes, cancellations, deletions, recoveries and ages; then where   *)
(* none of these happens; and for one worker at a time, as scripts/worker  *)
(* is deployed: it may die at any step and be started again, any number of *)
(* times, its training children live on and die on their own, locks grow   *)
(* old, and jobs are stolen back, recovered and retried.  Every step of    *)
(* the queue is then a step of the life JobLifecycle promises a job, the   *)
(* executions stay within the parallel limit, and one crash leaves no      *)
(* running job that nobody would recover.                                  *)
(***************************************************************************)
EXTENDS JobQueue, FiniteSetTheorems, TLAPS

\* Every kind of step, by name.
LEMMA NextCases ==
  ASSUME Next, NEW P,
         \A j \in Jobs : WorldStep(j) => P,
         \A w \in Workers : Start(w) => P,
         \A w \in Workers : Crash(w) => P,
         \A w \in Workers : ClaimList(w) \/ ClaimNone(w) => P,
         \A w \in Workers, j \in Jobs : CrashChild(w, j) => P,
         \A w \in Workers, j \in Jobs : SchedStep(w, j) => P,
         \A w \in Workers, j \in Jobs : RunStep(w, j) => P
  PROVE  P
BY DEF Next

\* What the helpers do to well-typed variables.
LEMMA RecTypes ==
  /\ NoRec \in Rec /\ NewJob \in Rec
  /\ \A r \in Rec : /\ Claimed(r) \in Rec
                    /\ r.attempts \in Nat /\ r.cancelRequested \in BOOLEAN
                    /\ r.status \in Statuses \cup {"none"}
                    /\ \A s \in Statuses : [r EXCEPT !.status = s] \in Rec
BY DEF NoRec, NewJob, Rec, Statuses, Claimed

LEMMA SaveType ==
  ASSUME TypeOK, NEW j \in Jobs, NEW r \in Rec, Save(j, r)
  PROVE  file' \in [Jobs -> Rec] /\ age' \in [Jobs -> 0..2]
BY DEF TypeOK, Save

LEMMA RemoveLockType ==
  ASSUME TypeOK, NEW j \in Jobs, RemoveLock(j)
  PROVE  /\ lock' \in [Jobs -> Workers \cup {NoWorker}]
         /\ lockOld' \in [Jobs -> BOOLEAN]
         /\ robbed' \subseteq Jobs
BY DEF TypeOK, RemoveLock

LEMMA CreateLockType ==
  ASSUME TypeOK, NEW w \in Workers, NEW j \in Jobs, CreateLock(w, j)
  PROVE  /\ lock' \in [Jobs -> Workers \cup {NoWorker}]
         /\ lockOld' \in [Jobs -> BOOLEAN]
BY DEF TypeOK, CreateLock

\* Type correctness: the type invariant is inductive by itself.
LEMMA TypeOKWorld ==
  ASSUME TypeOK, NEW j \in Jobs, WorldStep(j)
  PROVE  TypeOK'
<1> USE BoundsAssumption, SetsAssumption DEF store, locks, runs, webs
<1>1. CASE RecordAges(j)
  <2>1. age[j] \in 0..2 /\ age[j] < 2 /\ age' = [age EXCEPT ![j] = age[j] + 1]
    BY <1>1 DEF TypeOK, RecordAges
  <2>2. age[j] + 1 \in 0..2
    BY <2>1
  <2>3. age' \in [Jobs -> 0..2]
    BY <2>1, <2>2 DEF TypeOK
  <2>4. QED
    BY <1>1, <2>3 DEF TypeOK, RecordAges
<1>2. CASE LockAges(j)
  BY <1>2 DEF TypeOK, LockAges
<1>3. CASE Submit(j)
  BY <1>3, SaveType, RecTypes DEF TypeOK, Submit
<1>4. CASE CancelRead(j)
  BY <1>4 DEF TypeOK, CancelRead
<1>5. CASE CancelSave(j)
  <2>1. webRec[j] \in Rec
    BY DEF TypeOK
  <2>2. [webRec[j] EXCEPT !.cancelRequested = TRUE,
                          !.status = IF @ = "queued" THEN "cancelled" ELSE @] \in Rec
    BY <2>1 DEF Rec, Statuses
  <2>3. QED
    BY <1>5, <2>2, SaveType, RecTypes DEF TypeOK, CancelSave
<1>6. CASE Delete(j)
  BY <1>6, SaveType, RemoveLockType, RecTypes DEF TypeOK, Delete
<1>7. QED
  BY <1>1, <1>2, <1>3, <1>4, <1>5, <1>6 DEF WorldStep

LEMMA TypeOKProc ==
  ASSUME TypeOK, NEW w \in Workers,
         Start(w) \/ Crash(w) \/ \E j \in Jobs : CrashChild(w, j)
  PROVE  TypeOK'
<1> USE BoundsAssumption DEF store, locks, runs, webs
<1>1. CASE Start(w)
  BY <1>1 DEF TypeOK, Start
<1>2. CASE Crash(w)
  <2>1. crashes' \in 0..MaxCrashes
    BY <1>2 DEF TypeOK, Crash
  <2>2. IdleSched \in [pc : SchedPcs, cands : SUBSET Jobs,
                      job : Jobs \cup {NoWorker}, rec : Rec]
    BY RecTypes DEF IdleSched, SchedPcs
  <2>3. run' \in [Workers -> [Jobs -> RunPcs]]
    BY <1>2 DEF TypeOK, Crash, RunPcs
  <2>4. stage' \in [Workers -> [Jobs -> Nat]] /\ mem' \in [Workers -> [Jobs -> Rec]]
    BY <1>2, RecTypes DEF TypeOK, Crash
  <2>5. QED
    BY <1>2, <2>1, <2>2, <2>3, <2>4 DEF TypeOK, Crash
<1>3. ASSUME NEW j \in Jobs, CrashChild(w, j) PROVE TypeOK'
  <2>1. crashes' \in 0..MaxCrashes
    BY <1>3 DEF TypeOK, CrashChild
  <2>2. run' \in [Workers -> [Jobs -> RunPcs]]
    BY <1>3 DEF TypeOK, CrashChild, RunPcs
  <2>3. stage' \in [Workers -> [Jobs -> Nat]] /\ mem' \in [Workers -> [Jobs -> Rec]]
    BY <1>3, RecTypes DEF TypeOK, CrashChild
  <2>4. QED
    BY <1>3, <2>1, <2>2, <2>3 DEF TypeOK, CrashChild
<1>4. QED
  BY <1>1, <1>2, <1>3

\* The scheduler record stays well typed whatever the claim loop does to it.
Sched == [pc : SchedPcs, cands : SUBSET Jobs, job : Jobs \cup {NoWorker}, rec : Rec]

LEMMA SchedRecord ==
  ASSUME NEW p \in SchedPcs, NEW c \in SUBSET Jobs, NEW k \in Jobs \cup {NoWorker},
         NEW r \in Rec
  PROVE  [pc |-> p, cands |-> c, job |-> k, rec |-> r] \in Sched
BY DEF Sched

LEMMA SchedTypes ==
  /\ IdleSched \in Sched
  /\ \A s \in Sched : /\ s.cands \subseteq Jobs /\ s.rec \in Rec
                       /\ \A pc \in SchedPcs : [s EXCEPT !.pc = pc] \in Sched
                       /\ \A c \in SUBSET Jobs : [s EXCEPT !.cands = c] \in Sched
                       /\ [s EXCEPT !.pc = "scan", !.job = NoWorker, !.rec = NoRec] \in Sched
BY RecTypes DEF IdleSched, SchedPcs, Sched

LEMMA TypeOKClaim ==
  ASSUME TypeOK, NEW w \in Workers, ClaimList(w) \/ ClaimNone(w)
  PROVE  TypeOK'
<1> USE DEF store, locks, runs, webs
<1> Claimable(w) \subseteq Jobs
  BY DEF Claimable
<1>1. CASE ClaimList(w)
  <2>1. [sched[w] EXCEPT !.pc = "scan", !.cands = Claimable(w)] \in Sched
    <3>1. sched[w] \in Sched /\ "scan" \in SchedPcs
      BY DEF TypeOK, Sched, SchedPcs
    <3>2. [sched[w] EXCEPT !.pc = "scan"] \in Sched
      BY <3>1, SchedTypes
    <3>3. QED
      BY <3>2 DEF Sched
  <2>2. sched' = [sched EXCEPT ![w] = [sched[w] EXCEPT !.pc = "scan", !.cands = Claimable(w)]]
    BY <1>1 DEF TypeOK, ClaimList
  <2>3. sched' \in [Workers -> Sched]
    BY <2>1, <2>2 DEF TypeOK, Sched
  <2>4. QED
    BY <1>1, <2>3 DEF TypeOK, ClaimList, Sched
<1>2. CASE ClaimNone(w)
  BY <1>2, SchedTypes DEF TypeOK, ClaimNone, Sched
<1>3. QED
  BY <1>1, <1>2

LEMMA TypeOKSched ==
  ASSUME TypeOK, NEW w \in Workers, NEW j \in Jobs, SchedStep(w, j)
  PROVE  TypeOK'
<1> USE BoundsAssumption DEF store, locks, runs, webs
<1>0. /\ sched \in [Workers -> Sched] /\ sched[w] \in Sched
      /\ file[j] \in Rec /\ sched[w].rec \in Rec /\ mem[w] \in [Jobs -> Rec]
      /\ \A pc \in SchedPcs : [sched[w] EXCEPT !.pc = pc] \in Sched
      /\ Scan(w) \in Sched /\ IdleSched \in Sched
  BY SchedTypes DEF TypeOK, Sched, Scan
<1>1. ASSUME NEW s \in Sched, sched' = [sched EXCEPT ![w] = s]
      PROVE  sched' \in [Workers -> [pc : SchedPcs, cands : SUBSET Jobs,
                                    job : Jobs \cup {NoWorker}, rec : Rec]]
  BY <1>0, <1>1 DEF Sched
<1>2. ASSUME NEW pc \in SchedPcs, sched' = [sched EXCEPT ![w].pc = pc]
      PROVE  sched' \in [Workers -> [pc : SchedPcs, cands : SUBSET Jobs,
                                    job : Jobs \cup {NoWorker}, rec : Rec]]
  BY <1>0, <1>1, <1>2 DEF Sched
<1>3. {"claim", "exists", "create", "resave", "steal", "recover"} \subseteq SchedPcs
  BY DEF SchedPcs
<1>a. CASE ClaimRead(w, j)
  <2>1. [pc |-> "lock", cands |-> sched[w].cands \ {j}, job |-> j, rec |-> file[j]] \in Sched
    <3>1. "lock" \in SchedPcs /\ sched[w].cands \ {j} \in SUBSET Jobs
      BY <1>0, SchedTypes DEF SchedPcs
    <3>2. QED
      BY <1>0, <3>1, SchedRecord
  <2>2. sched[w].cands \ {j} \in SUBSET Jobs
    BY <1>0, SchedTypes
  <2>3. ASSUME file[j].status = "queued" PROVE sched' \in [Workers -> Sched]
    BY <1>a, <1>0, <2>1, <2>3 DEF ClaimRead
  <2>4. ASSUME file[j].status # "queued" PROVE sched' \in [Workers -> Sched]
    <3>1. sched' = [sched EXCEPT ![w].cands = sched[w].cands \ {j}]
      BY <1>a, <2>4 DEF ClaimRead
    <3>2. QED
      BY <1>0, <2>2, <3>1 DEF Sched
  <2>5. sched' \in [Workers -> Sched]
    BY <2>3, <2>4
  <2>6. QED
    BY <1>a, <2>5 DEF TypeOK, ClaimRead, Sched
<1>b. CASE LockCreate(w, j)
  BY <1>b, <1>2, <1>3, CreateLockType DEF TypeOK, LockCreate
<1>c. CASE LockInspect(w, j)
  <2>1. sched' \in [Workers -> Sched]
    BY <1>c, <1>0, <1>3 DEF LockInspect
  <2>2. QED
    BY <1>c, <2>1 DEF TypeOK, LockInspect, Sched
<1>d. CASE LockRemove(w, j)
  BY <1>d, <1>2, <1>3, RemoveLockType DEF TypeOK, LockRemove
<1>e. CASE LockRecreate(w, j)
  BY <1>e, <1>0, <1>1, <1>2, <1>3, CreateLockType DEF TypeOK, LockRecreate
<1>f. CASE LockResave(w, j)
  BY <1>f, <1>0, <1>2, <1>3, SaveType DEF TypeOK, LockResave
<1>g. CASE ClaimSave(w, j)
  <2>1. Claimed(sched[w].rec) \in Rec
    BY <1>0, RecTypes
  <2>2. mem' \in [Workers -> [Jobs -> Rec]] /\ run' \in [Workers -> [Jobs -> RunPcs]]
    BY <1>g, <1>0, <2>1 DEF TypeOK, ClaimSave, RunPcs
  <2>3. QED
    BY <1>g, <1>0, <1>1, <2>1, <2>2, SaveType DEF TypeOK, ClaimSave
<1>h. CASE RecoverRead(w, j)
  <2>1. [pc |-> "release", cands |-> {}, job |-> j,
         rec |-> [file[j] EXCEPT !.status = "failed"]] \in Sched
    <3>1. "release" \in SchedPcs /\ {} \in SUBSET Jobs /\ "failed" \in Statuses
      BY DEF SchedPcs, Statuses
    <3>2. [file[j] EXCEPT !.status = "failed"] \in Rec
      BY <1>0, <3>1, RecTypes
    <3>3. QED
      BY <3>1, <3>2, SchedRecord
  <2>2. QED
    BY <1>h, <1>1, <2>1 DEF TypeOK, RecoverRead
<1>i. CASE RecoverRelease(w, j)
  BY <1>i, <1>2, <1>3, RemoveLockType DEF TypeOK, RecoverRelease
<1>j. CASE RecoverSave(w, j)
  BY <1>j, <1>0, <1>1, SaveType DEF TypeOK, RecoverSave
<1>k. QED
  BY <1>a, <1>b, <1>c, <1>d, <1>e, <1>f, <1>g, <1>h, <1>i, <1>j DEF SchedStep

LEMMA TypeOKRun ==
  ASSUME TypeOK, NEW w \in Workers, NEW j \in Jobs, RunStep(w, j)
  PROVE  TypeOK'
<1> USE BoundsAssumption DEF store, locks, runs, webs
<1>0. file[j] \in Rec /\ mem[w][j] \in Rec /\ stage[w][j] \in Nat
  BY DEF TypeOK
<1>1. ASSUME NEW pc \in RunPcs, GoTo(w, j, pc)
      PROVE  run' \in [Workers -> [Jobs -> RunPcs]]
  BY <1>1 DEF TypeOK, GoTo
<1>2. ASSUME NEW r \in Rec, Keep(w, j, r)
      PROVE  mem' \in [Workers -> [Jobs -> Rec]]
  BY <1>2 DEF TypeOK, Keep
<1>3. ASSUME NEW pc \in RunPcs, Leave(w, j, pc)
      PROVE  /\ run' \in [Workers -> [Jobs -> RunPcs]]
             /\ mem' \in [Workers -> [Jobs -> Rec]]
             /\ stage' \in [Workers -> [Jobs -> Nat]]
  BY <1>1, <1>3, RecTypes DEF TypeOK, Leave
<1>4. /\ {"start", "reap", "check", "fail", "cancelled", "work", "finish", "ended",
           "thrown", "none", "reaped", "unlock"} \subseteq RunPcs
      /\ {"running", "queued", "failed", "succeeded", "cancelled"} \subseteq Statuses
  BY DEF RunPcs, Statuses
<1>a. CASE RunSpawn(w, j)
  BY <1>a, <1>0, <1>1, <1>2, <1>3, <1>4 DEF TypeOK, RunSpawn
<1>b. CASE RunBegin(w, j)
  <2> DEFINE lawful == CanTransition(mem[w][j].status, "running")
             rec == [mem[w][j] EXCEPT !.attempts = @ + 1,
                                      !.status = IF lawful THEN "running" ELSE @]
  <2>1. rec \in Rec
    <3>1. (IF lawful THEN "running" ELSE mem[w][j].status) \in Statuses \cup {"none"}
      BY <1>0, <1>4, RecTypes
    <3>2. mem[w][j].attempts + 1 \in Nat
      BY <1>0, RecTypes
    <3> HIDE DEF lawful
    <3>3. QED
      BY <1>0, <3>1, <3>2 DEF Rec
  <2>2. Save(j, rec) /\ Keep(w, j, rec) /\ (GoTo(w, j, "check") \/ GoTo(w, j, "fail"))
    BY <1>b DEF RunBegin
  <2>3. stage' \in [Workers -> [Jobs -> Nat]]
    BY <1>b DEF TypeOK, RunBegin
  <2>4. QED
    BY <1>b, <1>1, <1>2, <1>4, <2>1, <2>2, <2>3, SaveType DEF TypeOK, RunBegin
<1>c. CASE RunCheck(w, j)
  <2>1. GoTo(w, j, "fail") \/ GoTo(w, j, "cancelled") \/ GoTo(w, j, "work")
    BY <1>c DEF RunCheck
  <2>2. QED
    BY <1>c, <1>1, <1>4, <2>1 DEF TypeOK, RunCheck
<1>d. CASE RunCancelled(w, j)
  <2>1. [mem[w][j] EXCEPT !.status = "cancelled"] \in Rec
    BY <1>0, <1>4, RecTypes
  <2>2. QED
    BY <1>d, <1>1, <1>2, <1>4, <2>1, SaveType DEF TypeOK, RunCancelled
<1>e. CASE RunWork(w, j)
  <2>1. file' \in [Jobs -> Rec] /\ age' \in [Jobs -> 0..2]
    BY <1>e, <1>0, SaveType DEF RunWork, TypeOK
  <2>2. run' \in [Workers -> [Jobs -> RunPcs]] /\ stage' \in [Workers -> [Jobs -> Nat]]
    <3>1. \/ GoTo(w, j, "check") /\ stage' = [stage EXCEPT ![w][j] = stage[w][j] + 1]
          \/ GoTo(w, j, "finish") /\ UNCHANGED stage
          \/ GoTo(w, j, "fail") /\ UNCHANGED stage
      BY <1>e DEF RunWork
    <3>2. stage[w][j] + 1 \in Nat
      BY <1>0
    <3>3. stage' \in [Workers -> [Jobs -> Nat]]
      <4>1. CASE stage' = [stage EXCEPT ![w][j] = stage[w][j] + 1]
        BY <3>2, <4>1 DEF TypeOK
      <4>2. CASE stage' = stage
        BY <4>2 DEF TypeOK
      <4>3. QED
        BY <3>1, <4>1, <4>2
    <3>4. QED
      BY <1>1, <1>4, <3>1, <3>3
  <2>3. QED
    BY <1>e, <2>1, <2>2 DEF TypeOK, RunWork
<1>f. CASE RunFinish(w, j)
  <2>1. PICK status \in {"succeeded", "failed"} :
          LET rec == [mem[w][j] EXCEPT !.status = status]
          IN Save(j, rec) /\ Keep(w, j, rec)
    BY <1>f DEF RunFinish
  <2>2. [mem[w][j] EXCEPT !.status = status] \in Rec
    BY <1>0, <1>4, RecTypes
  <2>3. QED
    BY <1>f, <1>1, <1>2, <1>4, <2>1, <2>2, SaveType DEF TypeOK, RunFinish
<1>g. CASE RunFail(w, j)
  <2> DEFINE rec == [mem[w][j] EXCEPT !.status =
                       IF MayRetry(mem[w][j]) THEN "queued" ELSE "failed"]
  <2>1. rec \in Rec
    BY <1>0, <1>4, RecTypes
  <2>2. \/ Save(j, rec) /\ Keep(w, j, rec) /\ GoTo(w, j, "ended")
        \/ GoTo(w, j, "thrown") /\ UNCHANGED <<store, mem>>
    BY <1>g DEF RunFail
  <2>3. QED
    BY <1>g, <1>1, <1>2, <1>4, <2>1, <2>2, SaveType DEF TypeOK, RunFail
<1>h. CASE RunRelease(w, j)
  <2>1. Leave(w, j, "reap") \/ Leave(w, j, "none")
    BY <1>h DEF RunRelease
  <2>2. QED
    BY <1>h, <1>3, <1>4, <2>1, RemoveLockType DEF TypeOK, RunRelease
<1>i. CASE ReapRead(w, j)
  BY <1>i, <1>0, <1>1, <1>2, <1>3, <1>4 DEF TypeOK, ReapRead
<1>j. CASE ReapSave(w, j)
  <2>1. Reaped(mem[w][j]) \in Rec
    BY <1>0, <1>4, RecTypes DEF Reaped
  <2>2. QED
    BY <1>j, <1>1, <1>4, <2>1, SaveType DEF TypeOK, ReapSave
<1>k. CASE ReapRelease(w, j)
  BY <1>k, <1>3, <1>4, RemoveLockType DEF TypeOK, ReapRelease
<1>l. QED
  BY <1>a, <1>b, <1>c, <1>d, <1>e, <1>f, <1>g, <1>h, <1>i, <1>j, <1>k DEF RunStep

LEMMA TypeOKInit == Init => TypeOK
<1> SUFFICES ASSUME Init PROVE TypeOK
  OBVIOUS
<1>1. sched \in [Workers -> Sched]
  BY SchedTypes DEF Init
<1>2. /\ run \in [Workers -> [Jobs -> RunPcs]]
      /\ stage \in [Workers -> [Jobs -> Nat]]
      /\ mem \in [Workers -> [Jobs -> Rec]]
  BY RecTypes DEF Init, RunPcs
<1>3. /\ file \in [Jobs -> Rec] /\ webRec \in [Jobs -> Rec]
      /\ age \in [Jobs -> 0..2] /\ crashes \in 0..MaxCrashes
  BY RecTypes, BoundsAssumption DEF Init
<1>4. QED
  BY <1>1, <1>2, <1>3 DEF Init, TypeOK, Sched

LEMMA TypeOKStep == TypeOK /\ [Next]_vars => TypeOK'
<1> SUFFICES ASSUME TypeOK, [Next]_vars PROVE TypeOK'
  OBVIOUS
<1>1. CASE UNCHANGED vars
  BY <1>1 DEF TypeOK, vars, store, locks, runs, webs
<1>2. CASE Next
  BY <1>2, NextCases, TypeOKWorld, TypeOKProc, TypeOKClaim, TypeOKSched, TypeOKRun
<1>3. QED
  BY <1>1, <1>2

\* TypeOK holds in every reachable state.
THEOREM TypeCorrect == Spec => []TypeOK
<1>1. Init => TypeOK
  BY TypeOKInit
<1>2. TypeOK /\ [Next]_vars => TypeOK'
  BY TypeOKStep
<1>3. QED
  BY <1>1, <1>2, PTL DEF Spec

-----------------------------------------------------------------------------
(* What job.lock guarantees, and what it does not: the inductive argument   *)
(* that a process relying on the lock of a job is the one the lock file     *)
(* names, unless that file was removed from under somebody.                 *)

\* A process that is not up has no scheduler at work, and the only runs it has
\* are training children, which outlive it.
ProcInv ==
  \A w \in Workers : proc[w] # "up" =>
    /\ sched[w].pc = "idle"
    /\ \A j \in Jobs : run[w][j] = "none" \/ InChild(w, j)

LockInv == TypeOK /\ ProcInv /\ LockGuards

-----------------------------------------------------------------------------
(* The argument for one step: nobody comes to rely on a lock without owning *)
(* it, and a lock changes only when nobody relies on it or robbed says so.  *)

LEMMA GuardedStep ==
  ASSUME TypeOK, LockGuards, robbed \subseteq robbed',
         \A i \in Jobs, v \in Workers : Holds(v, i)' => Holds(v, i) \/ lock'[i] = v,
         \A i \in Jobs : \/ lock'[i] = lock[i]
                         \/ i \in robbed'
                         \/ \A v \in Workers : ~Holds(v, i)
  PROVE  LockGuards'
BY DEF LockGuards

LEMMA RemoveLockEffect ==
  ASSUME TypeOK, NEW j \in Jobs, RemoveLock(j)
  PROVE  /\ robbed \subseteq robbed'
         /\ \A i \in Jobs : \/ lock'[i] = lock[i]
                            \/ i \in robbed'
                            \/ \A v \in Workers : ~Holds(v, i)
<1>1. robbed \subseteq robbed'
  BY DEF RemoveLock
<1>2. \A i \in Jobs : i # j => lock'[i] = lock[i]
  BY DEF RemoveLock, TypeOK
<1>3. j \in robbed' \/ \A v \in Workers : ~Holds(v, j)
  BY DEF RemoveLock
<1>4. QED
  BY <1>1, <1>2, <1>3

LEMMA CreateLockEffect ==
  ASSUME TypeOK, LockGuards, NEW w \in Workers, NEW j \in Jobs, CreateLock(w, j)
  PROVE  /\ lock'[j] = w
         /\ \A i \in Jobs : \/ lock'[i] = lock[i]
                            \/ i \in robbed
                            \/ \A v \in Workers : ~Holds(v, i)
<1>1. lock'[j] = w /\ \A i \in Jobs : i # j => lock'[i] = lock[i]
  BY DEF CreateLock, TypeOK
<1>2. lock[j] = NoWorker /\ NoWorker \notin Workers
  BY SetsAssumption DEF CreateLock
<1>3. j \in robbed \/ \A v \in Workers : ~Holds(v, j)
  BY <1>2 DEF LockGuards
<1>4. QED
  BY <1>1, <1>3

\* A scheduler step changes what w claims, and nothing about runs.
LEMMA SchedHolds ==
  ASSUME NEW w \in Workers, UNCHANGED <<proc, run>>,
         \A v \in Workers \ {w} : sched'[v] = sched[v],
         \A i \in Jobs : Claiming(w, i)' => Claiming(w, i) \/ lock'[i] = w
  PROVE  \A i \in Jobs, v \in Workers : Holds(v, i)' => Holds(v, i) \/ lock'[i] = v
BY DEF Holds, Claiming, Executing, Alive, InChild

\* A run step changes where one run is, and that run relied on the lock before
\* if it does afterwards.
LEMMA RunHolds ==
  ASSUME NEW w \in Workers, NEW j \in Jobs, UNCHANGED <<proc, sched>>,
         \A v \in Workers, i \in Jobs : v # w \/ i # j => run'[v][i] = run[v][i],
         Holds(w, j)' => Holds(w, j)
  PROVE  \A i \in Jobs, v \in Workers : Holds(v, i)' => Holds(v, i)
<1> SUFFICES ASSUME NEW i \in Jobs, NEW v \in Workers, Holds(v, i)' PROVE Holds(v, i)
  OBVIOUS
<1>1. CASE v # w \/ i # j
  BY <1>1 DEF Holds, Claiming, Executing, Alive, InChild
<1>2. CASE v = w /\ i = j
  BY <1>2
<1>3. QED
  BY <1>1, <1>2

-----------------------------------------------------------------------------
(* Steps of the world, of processes and of the claim loop as a whole *)

LEMMA LockInvWorld ==
  ASSUME LockInv, NEW j \in Jobs, WorldStep(j)
  PROVE  ProcInv' /\ LockGuards'
<1> USE DEF store, locks, runs, webs, LockInv
<1>1. UNCHANGED <<proc, sched, run>>
  BY DEF WorldStep, RecordAges, LockAges, Submit, CancelRead, CancelSave, Delete
<1>2. ProcInv'
  BY <1>1 DEF ProcInv, InChild
<1>3. \A i \in Jobs, v \in Workers : Holds(v, i)' => Holds(v, i)
  BY <1>1 DEF Holds, Claiming, Executing, Alive, InChild
<1>4. CASE Delete(j)
  <2>1. RemoveLock(j)
    BY <1>4 DEF Delete
  <2>2. QED
    BY <1>2, <1>3, <2>1, RemoveLockEffect, GuardedStep
<1>5. CASE ~Delete(j)
  <2>1. UNCHANGED <<lock, robbed>>
    BY <1>5 DEF WorldStep, RecordAges, LockAges, Submit, CancelRead, CancelSave
  <2>2. QED
    BY <1>2, <1>3, <2>1, GuardedStep
<1>6. QED
  BY <1>4, <1>5

LEMMA LockInvProc ==
  ASSUME LockInv, NEW w \in Workers,
         Start(w) \/ Crash(w) \/ \E j \in Jobs : CrashChild(w, j)
  PROVE  ProcInv' /\ LockGuards'
<1> USE DEF store, locks, runs, webs, LockInv
<1>1. UNCHANGED <<lock, robbed>>
  BY DEF Start, Crash, CrashChild
<1>2. ASSUME \A i \in Jobs, v \in Workers : Holds(v, i)' => Holds(v, i)
      PROVE  LockGuards'
  BY <1>1, <1>2, GuardedStep
<1>3. CASE Start(w)
  <2>1. UNCHANGED <<sched, run>> /\ proc[w] # "up" /\ proc' = [proc EXCEPT ![w] = "up"]
    BY <1>3 DEF Start
  <2>2. ProcInv'
    BY <2>1 DEF ProcInv, InChild, TypeOK
  <2>3. ASSUME NEW v \in Workers, NEW i \in Jobs PROVE Holds(v, i)' => Holds(v, i)
    <3>1. CASE v = w
      BY <2>1, <3>1 DEF ProcInv, Holds, Claiming, Executing, Alive, InChild, ExecPcs
    <3>2. CASE v # w
      BY <2>1, <3>2 DEF Holds, Claiming, Executing, Alive, InChild, TypeOK
    <3>3. QED
      BY <3>1, <3>2
  <2>4. QED
    BY <1>2, <2>2, <2>3
<1>4. CASE Crash(w)
  <2>1. /\ proc' = [proc EXCEPT ![w] = "dead"] /\ sched' = [sched EXCEPT ![w] = IdleSched]
        /\ run' = [run EXCEPT ![w] =
                     [j \in Jobs |-> IF InChild(w, j) THEN run[w][j] ELSE "none"]]
    BY <1>4 DEF Crash
  <2>2. sched'[w].pc = "idle" /\ proc'[w] = "dead"
    BY <2>1 DEF TypeOK, IdleSched
  <2>3. \A i \in Jobs : \/ InChild(w, i) /\ run'[w][i] = run[w][i]
                        \/ ~InChild(w, i) /\ run'[w][i] = "none"
    BY <2>1 DEF TypeOK
  <2>4. \A v \in Workers \ {w} : sched'[v] = sched[v] /\ run'[v] = run[v] /\ proc'[v] = proc[v]
    BY <2>1 DEF TypeOK
  <2>5. ProcInv'
    BY <2>2, <2>3, <2>4 DEF ProcInv, InChild
  <2>6. ASSUME NEW v \in Workers, NEW i \in Jobs PROVE Holds(v, i)' => Holds(v, i)
    <3>1. CASE v = w
      BY <2>2, <2>3, <3>1 DEF Holds, Claiming, Executing, Alive, InChild, ExecPcs
    <3>2. CASE v # w
      BY <2>4, <3>2 DEF Holds, Claiming, Executing, Alive, InChild
    <3>3. QED
      BY <3>1, <3>2
  <2>7. QED
    BY <1>2, <2>5, <2>6
<1>5. ASSUME NEW j \in Jobs, CrashChild(w, j) PROVE ProcInv' /\ LockGuards'
  <2>1. /\ UNCHANGED <<proc, sched>>
        /\ run'[w][j] = IF proc[w] = "up" THEN "reap" ELSE "none"
        /\ \A v \in Workers, i \in Jobs : v # w \/ i # j => run'[v][i] = run[v][i]
    BY <1>5 DEF CrashChild, TypeOK
  <2>2. ProcInv'
    BY <2>1 DEF ProcInv, InChild
  <2>3. ~Claiming(w, j) => ~Holds(w, j)'
    BY <2>1 DEF Holds, Claiming, Executing, ExecPcs
  <2>4. \A i \in Jobs, v \in Workers : Holds(v, i)' => Holds(v, i)
    <3>1. Holds(w, j)' => Holds(w, j)
      BY <2>3 DEF Holds
    <3>2. QED
      BY <2>1, <3>1, RunHolds
  <2>5. QED
    BY <1>2, <2>2, <2>4
<1>6. QED
  BY <1>3, <1>4, <1>5

LEMMA LockInvClaim ==
  ASSUME LockInv, NEW w \in Workers, ClaimList(w) \/ ClaimNone(w)
  PROVE  ProcInv' /\ LockGuards'
<1> USE DEF store, locks, runs, webs, LockInv
<1>1. /\ UNCHANGED <<proc, run, lock, robbed>> /\ proc[w] = "up"
      /\ \A v \in Workers \ {w} : sched'[v] = sched[v]
      /\ sched'[w].pc \in {"scan", "idle"}
  BY DEF ClaimList, ClaimNone, TypeOK, IdleSched
<1>2. ProcInv'
  BY <1>1 DEF ProcInv, InChild
<1>3. \A i \in Jobs, v \in Workers : Holds(v, i)' => Holds(v, i) \/ lock'[i] = v
  BY <1>1, SchedHolds DEF Claiming
<1>4. QED
  BY <1>1, <1>2, <1>3, GuardedStep

-----------------------------------------------------------------------------
(* Steps of the scheduler about one job *)

LEMMA LockInvSched ==
  ASSUME LockInv, NEW w \in Workers, NEW j \in Jobs, SchedStep(w, j)
  PROVE  ProcInv' /\ LockGuards'
<1> USE DEF store, locks, runs, webs, LockInv
<1>1. /\ UNCHANGED proc /\ proc[w] = "up"
      /\ \A v \in Workers \ {w} : sched'[v] = sched[v] /\ run'[v] = run[v]
  BY DEF SchedStep, ClaimRead, LockCreate, LockInspect, LockRemove, LockRecreate,
         LockResave, ClaimSave, RecoverRead, RecoverRelease, RecoverSave, TypeOK
<1>2. ProcInv'
  BY <1>1 DEF ProcInv, InChild
<1>a. CASE ClaimRead(w, j)
  <2>1. UNCHANGED <<run, lock, robbed>> /\ sched'[w].pc \in {"lock", "scan"}
    BY <1>a DEF ClaimRead, TypeOK
  <2>2. \A i \in Jobs, v \in Workers : Holds(v, i)' => Holds(v, i) \/ lock'[i] = v
    BY <1>1, <2>1, SchedHolds DEF Claiming
  <2>3. QED
    BY <1>2, <2>1, <2>2, GuardedStep
<1>b. CASE LockCreate(w, j)
  <2>1. CASE CreateLock(w, j)
    <3>1. UNCHANGED <<run, robbed>> /\ sched'[w].job = j
      BY <1>b DEF LockCreate, TypeOK
    <3>2. \A i \in Jobs, v \in Workers : Holds(v, i)' => Holds(v, i) \/ lock'[i] = v
      BY <1>1, <2>1, <3>1, CreateLockEffect, SchedHolds DEF Claiming
    <3>3. QED
      BY <1>2, <2>1, <3>1, <3>2, CreateLockEffect, GuardedStep
  <2>2. CASE ~CreateLock(w, j)
    <3>1. UNCHANGED <<run, lock, robbed>> /\ sched'[w].pc = "exists"
      BY <1>b, <2>2 DEF LockCreate, TypeOK
    <3>2. \A i \in Jobs, v \in Workers : Holds(v, i)' => Holds(v, i) \/ lock'[i] = v
      BY <1>1, <3>1, SchedHolds DEF Claiming
    <3>3. QED
      BY <1>2, <3>1, <3>2, GuardedStep
  <2>3. QED
    BY <2>1, <2>2
<1>c. CASE LockInspect(w, j)
  <2>1. UNCHANGED <<run, lock, robbed>> /\ sched'[w].pc \in {"steal", "scan"}
    BY <1>c DEF LockInspect, TypeOK, Scan
  <2>2. \A i \in Jobs, v \in Workers : Holds(v, i)' => Holds(v, i) \/ lock'[i] = v
    BY <1>1, <2>1, SchedHolds DEF Claiming
  <2>3. QED
    BY <1>2, <2>1, <2>2, GuardedStep
<1>d. CASE LockRemove(w, j)
  <2>1. UNCHANGED run /\ sched'[w].pc = "create" /\ RemoveLock(j)
    BY <1>d DEF LockRemove, TypeOK
  <2>2. \A i \in Jobs, v \in Workers : Holds(v, i)' => Holds(v, i) \/ lock'[i] = v
    BY <1>1, <2>1, SchedHolds DEF Claiming
  <2>3. QED
    BY <1>2, <2>1, <2>2, RemoveLockEffect, GuardedStep
<1>e. CASE LockRecreate(w, j)
  <2>0. Scan(w).pc = "scan" /\ sched \in [Workers -> Sched]
    BY DEF Scan, TypeOK, Sched
  <2>1. CASE CreateLock(w, j)
    <3>1. UNCHANGED <<run, robbed>> /\ (sched'[w].job = j \/ sched'[w].pc = "scan")
      <4>1. \/ sched' = [sched EXCEPT ![w].pc = "resave"] /\ sched[w].job = j
            \/ sched' = [sched EXCEPT ![w] = Scan(w)]
        BY <1>e DEF LockRecreate
      <4>2. QED
        BY <1>e, <2>0, <4>1 DEF LockRecreate, Sched
    <3>2. \A i \in Jobs, v \in Workers : Holds(v, i)' => Holds(v, i) \/ lock'[i] = v
      BY <1>1, <2>1, <3>1, CreateLockEffect, SchedHolds DEF Claiming
    <3>3. QED
      BY <1>2, <2>1, <3>1, <3>2, CreateLockEffect, GuardedStep
  <2>2. CASE ~CreateLock(w, j)
    <3>1. UNCHANGED <<run, lock, robbed>> /\ sched'[w].pc = "scan"
      BY <1>e, <2>0, <2>2 DEF LockRecreate
    <3>2. \A i \in Jobs, v \in Workers : Holds(v, i)' => Holds(v, i) \/ lock'[i] = v
      BY <1>1, <3>1, SchedHolds DEF Claiming
    <3>3. QED
      BY <1>2, <3>1, <3>2, GuardedStep
  <2>3. QED
    BY <2>1, <2>2
<1>f. CASE LockResave(w, j)
  <2>1. UNCHANGED <<run, lock, robbed>> /\ sched[w].pc = "resave" /\ sched'[w].job = sched[w].job
    BY <1>f DEF LockResave, TypeOK
  <2>2. \A i \in Jobs, v \in Workers : Holds(v, i)' => Holds(v, i) \/ lock'[i] = v
    BY <1>1, <2>1, SchedHolds DEF Claiming
  <2>3. QED
    BY <1>2, <2>1, <2>2, GuardedStep
<1>g. CASE ClaimSave(w, j)
  <2>1. /\ UNCHANGED <<lock, robbed>> /\ sched'[w].pc = "idle" /\ Claiming(w, j)
        /\ \A i \in Jobs : i # j => run'[w][i] = run[w][i]
    BY <1>g DEF ClaimSave, TypeOK, IdleSched, Claiming
  <2>2. ASSUME NEW v \in Workers, NEW i \in Jobs PROVE Holds(v, i)' => Holds(v, i)
    <3>1. CASE v = w /\ i = j
      BY <2>1, <3>1 DEF Holds
    <3>2. CASE v = w /\ i # j
      BY <1>1, <2>1, <3>2 DEF Holds, Claiming, Executing, Alive, InChild
    <3>3. CASE v # w
      BY <1>1, <3>3 DEF Holds, Claiming, Executing, Alive, InChild
    <3>4. QED
      BY <3>1, <3>2, <3>3
  <2>3. QED
    BY <1>2, <2>1, <2>2, GuardedStep
<1>h. CASE RecoverRead(w, j) \/ RecoverSave(w, j)
  <2>1. UNCHANGED <<run, lock, robbed>> /\ sched'[w].pc \in {"release", "idle"}
    BY <1>h DEF RecoverRead, RecoverSave, TypeOK, IdleSched
  <2>2. \A i \in Jobs, v \in Workers : Holds(v, i)' => Holds(v, i) \/ lock'[i] = v
    BY <1>1, <2>1, SchedHolds DEF Claiming
  <2>3. QED
    BY <1>2, <2>1, <2>2, GuardedStep
<1>i. CASE RecoverRelease(w, j)
  <2>1. UNCHANGED run /\ sched'[w].pc = "recover" /\ RemoveLock(j)
    BY <1>i DEF RecoverRelease, TypeOK
  <2>2. \A i \in Jobs, v \in Workers : Holds(v, i)' => Holds(v, i) \/ lock'[i] = v
    BY <1>1, <2>1, SchedHolds DEF Claiming
  <2>3. QED
    BY <1>2, <2>1, <2>2, RemoveLockEffect, GuardedStep
<1>j. QED
  BY <1>a, <1>b, <1>c, <1>d, <1>e, <1>f, <1>g, <1>h, <1>i DEF SchedStep

-----------------------------------------------------------------------------
(* Steps of a run *)

LEMMA LockInvRun ==
  ASSUME LockInv, NEW w \in Workers, NEW j \in Jobs, RunStep(w, j)
  PROVE  ProcInv' /\ LockGuards'
<1> USE DEF store, locks, runs, webs, LockInv
<1>1. /\ UNCHANGED <<proc, sched>>
      /\ \A v \in Workers, i \in Jobs : v # w \/ i # j => run'[v][i] = run[v][i]
  BY DEF RunStep, RunSpawn, RunBegin, RunCheck, RunCancelled, RunWork, RunFinish,
         RunFail, RunRelease, ReapRead, ReapSave, ReapRelease, GoTo, Leave, TypeOK
<1>2. /\ proc[w] # "up" => InChild(w, j)
      /\ run'[w][j] \in {"start", "check", "cancelled", "work", "finish", "fail"}
           => Holds(w, j)
      /\ run'[w][j] # "spawn"
      /\ proc[w] # "up" => run'[w][j] \in ChildPcs \cup {"none"}
  <2>1. CASE RunSpawn(w, j)
    BY <2>1 DEF RunSpawn, GoTo, Leave, TypeOK, Holds
  <2>2. CASE \/ RunBegin(w, j) \/ RunCheck(w, j) \/ RunCancelled(w, j)
             \/ RunWork(w, j) \/ RunFinish(w, j) \/ RunFail(w, j)
    <3>1. Alive(w, j) /\ run[w][j] \in ExecPcs
      BY <2>2 DEF RunBegin, RunCheck, RunCancelled, RunWork, RunFinish, RunFail, ExecPcs
    <3>2. Holds(w, j) /\ (proc[w] # "up" => InChild(w, j))
      BY <3>1 DEF Holds, Executing, Alive
    <3>3. run'[w][j] \in {"check", "fail", "cancelled", "work", "finish", "ended", "thrown"}
      BY <2>2 DEF RunBegin, RunCheck, RunCancelled, RunWork, RunFinish, RunFail, GoTo, TypeOK
    <3>4. QED
      BY <3>2, <3>3 DEF ChildPcs, RunPcs
  <2>3. CASE RunRelease(w, j)
    BY <2>3 DEF RunRelease, Leave, GoTo, TypeOK, Alive
  <2>4. CASE ReapRead(w, j) \/ ReapSave(w, j) \/ ReapRelease(w, j)
    BY <2>4 DEF ReapRead, ReapSave, ReapRelease, Leave, GoTo, TypeOK
  <2>5. QED
    BY <2>1, <2>2, <2>3, <2>4 DEF RunStep
<1>3. ProcInv'
  BY <1>1, <1>2 DEF ProcInv, InChild
<1>4. Holds(w, j)' => Holds(w, j)
  BY <1>1, <1>2 DEF Holds, Claiming, Executing, ExecPcs
<1>5. \A i \in Jobs, v \in Workers : Holds(v, i)' => Holds(v, i)
  BY <1>1, <1>4, RunHolds
<1>6. CASE RemoveLock(j)
  BY <1>3, <1>5, <1>6, RemoveLockEffect, GuardedStep
<1>7. CASE UNCHANGED <<lock, robbed>>
  BY <1>3, <1>5, <1>7, GuardedStep
<1>8. RemoveLock(j) \/ UNCHANGED <<lock, robbed>>
  BY DEF RunStep, RunSpawn, RunBegin, RunCheck, RunCancelled, RunWork, RunFinish,
         RunFail, RunRelease, ReapRead, ReapSave, ReapRelease
<1>9. QED
  BY <1>6, <1>7, <1>8

-----------------------------------------------------------------------------

LEMMA LockInvInductive == LockInv /\ [Next]_vars => LockInv'
<1> SUFFICES ASSUME LockInv, [Next]_vars PROVE LockInv'
  OBVIOUS
<1>1. CASE UNCHANGED vars
  <2>1. TypeOK'
    BY <1>1 DEF LockInv, TypeOK, vars, store, locks, runs, webs
  <2>2. QED
    BY <1>1, <2>1 DEF LockInv, ProcInv, LockGuards, InChild, Holds, Claiming, Executing,
                      Alive, vars, store, locks, runs, webs
<1>2. CASE Next
  <2>1. TypeOK'
    BY <1>2, NextCases, TypeOKWorld, TypeOKProc, TypeOKClaim, TypeOKSched, TypeOKRun
       DEF LockInv
  <2>2. ProcInv' /\ LockGuards'
    BY <1>2, NextCases, LockInvWorld, LockInvProc, LockInvClaim, LockInvSched, LockInvRun
  <2>3. QED
    BY <2>1, <2>2 DEF LockInv
<1>3. QED
  BY <1>1, <1>2

LEMMA LockInvAlways == Spec => []LockInv
<1>1. Init => ProcInv /\ LockGuards
  BY DEF Init, ProcInv, LockGuards, Holds, Claiming, Executing, ExecPcs, IdleSched
<1>2. QED
  BY <1>1, TypeCorrect, LockInvInductive, PTL DEF Spec, LockInv

\* Whoever claims or executes a job is named by its job.lock, as long as no
\* other process has removed that file while somebody relied on it
\* (acquireJobLock, releaseJobLock, recoverStaleRunningJobs, deleteJob).
THEOREM LockGuardsAlways == Spec => []LockGuards
<1>1. LockInv => LockGuards
  BY DEF LockInv
<1>2. QED
  BY <1>1, LockInvAlways, PTL

\* No double execution, except of a job that has been robbed of its lock.
ExclusiveUnlessRobbed ==
  \A j \in Jobs \ robbed : \A v, w \in Workers :
    Executing(v, j) /\ Executing(w, j) => v = w

\* Two workers never execute one job at a time unless its lock has been
\* removed from under one of them: the exclusive create of job.lock is enough
\* against every other interleaving of claims, crashes, retries and cancels.
THEOREM ExclusiveUnlessRobbedAlways == Spec => []ExclusiveUnlessRobbed
<1>1. LockInv => ExclusiveUnlessRobbed
  BY DEF LockInv, LockGuards, Holds, ExclusiveUnlessRobbed
<1>2. QED
  BY <1>1, LockInvAlways, PTL

\* If no lock is ever removed from under its holder, job.lock does what it is
\* for.
THEOREM NeverRobbedExclusive == Spec => [](NeverRobbed => ExclusiveRun)
<1>1. LockInv => (NeverRobbed => ExclusiveRun)
  BY DEF LockInv, LockGuards, Holds, NeverRobbed, ExclusiveRun
<1>2. QED
  BY <1>1, LockInvAlways, PTL

-----------------------------------------------------------------------------
(* A training job is the only active job of its worker process, whatever    *)
(* faults occur: the check is made when the candidates are listed, several  *)
(* steps before the claim, and what makes that enough is that only the      *)
(* scheduler itself adds to the active map.                                 *)

\* Where the scheduler is between listing the candidates and a claim.
LoopPcs == {"scan", "lock", "exists", "steal", "create", "resave", "claim"}

\* No other run is active beside a training job.
TrainsAlone ==
  \A w \in Workers : \A i \in Training, j \in Jobs :
    run[w][i] # "none" /\ run[w][j] # "none" => i = j

\* What the scheduler decided when it listed the candidates is still right.
Decided ==
  \A w \in Workers : sched[w].pc \in LoopPcs =>
    /\ \A i \in Training : run[w][i] = "none"
    /\ (\E j \in Jobs : run[w][j] # "none") =>
         /\ sched[w].cands \cap Training = {}
         /\ sched[w].pc # "scan" => sched[w].job \notin Training

TrainInv == TypeOK /\ TrainsAlone /\ Decided

\* Runs only end, and the scheduler does not begin a new list.
LEMMA TrainShrink ==
  ASSUME TrainInv,
         \A v \in Workers, i \in Jobs : run'[v][i] # "none" => run[v][i] # "none",
         \A v \in Workers : sched'[v] = sched[v] \/ sched'[v].pc \notin LoopPcs
  PROVE  TrainsAlone' /\ Decided'
<1>1. TrainsAlone'
  BY SetsAssumption DEF TrainInv, TrainsAlone
<1>2. Decided'
  <2> SUFFICES ASSUME NEW v \in Workers, sched'[v].pc \in LoopPcs
      PROVE  (/\ \A i \in Training : run[v][i] = "none"
              /\ (\E j \in Jobs : run[v][j] # "none") =>
                   /\ sched[v].cands \cap Training = {}
                   /\ sched[v].pc # "scan" => sched[v].job \notin Training)'
    BY DEF Decided
  <2>1. sched'[v] = sched[v]
    OBVIOUS
  <2>2. QED
    BY <2>1, SetsAssumption DEF TrainInv, Decided
<1>3. QED
  BY <1>1, <1>2

\* The scheduler of w goes on with its list.
LEMMA TrainSched ==
  ASSUME TrainInv, NEW w \in Workers, UNCHANGED run,
         \A v \in Workers \ {w} : sched'[v] = sched[v],
         sched[w].pc \in LoopPcs,
         sched'[w].cands \subseteq sched[w].cands,
         sched'[w].pc # "scan" => \/ sched'[w].job \in sched[w].cands
                                  \/ sched[w].pc # "scan" /\ sched'[w].job = sched[w].job
  PROVE  TrainsAlone' /\ Decided'
<1>1. TrainsAlone'
  BY DEF TrainInv, TrainsAlone
<1>2. Decided'
  <2> SUFFICES ASSUME NEW v \in Workers, sched'[v].pc \in LoopPcs
      PROVE  (/\ \A i \in Training : run[v][i] = "none"
              /\ (\E j \in Jobs : run[v][j] # "none") =>
                   /\ sched[v].cands \cap Training = {}
                   /\ sched[v].pc # "scan" => sched[v].job \notin Training)'
    BY DEF Decided
  <2>1. CASE v # w
    BY <2>1 DEF TrainInv, Decided
  <2>2. CASE v = w
    BY <2>2 DEF TrainInv, Decided
  <2>3. QED
    BY <2>1, <2>2
<1>3. QED
  BY <1>1, <1>2

LEMMA TrainStepSched ==
  ASSUME TrainInv, NEW w \in Workers, NEW j \in Jobs, SchedStep(w, j)
  PROVE  TrainsAlone' /\ Decided'
<1> USE DEF store, locks, runs, webs
<1>0. sched \in [Workers -> Sched] /\ sched[w] \in Sched /\ run \in [Workers -> [Jobs -> RunPcs]]
  BY DEF TrainInv, TypeOK, Sched
<1>a. CASE ClaimRead(w, j)
  <2>1. /\ UNCHANGED run /\ sched[w].pc = "scan" /\ j \in sched[w].cands
        /\ \A v \in Workers \ {w} : sched'[v] = sched[v]
    BY <1>0, <1>a DEF ClaimRead
  <2>2. \/ sched'[w].cands = sched[w].cands \ {j} /\ sched'[w].job = j
        \/ sched'[w].cands = sched[w].cands \ {j} /\ sched'[w].pc = "scan"
    BY <1>0, <1>a DEF ClaimRead, Sched
  <2>3. QED
    BY <2>1, <2>2, TrainSched DEF LoopPcs
<1>b. CASE LockCreate(w, j) \/ LockRemove(w, j) \/ LockResave(w, j)
  <2>1. /\ UNCHANGED run /\ sched[w].pc \in LoopPcs /\ sched[w].pc # "scan"
        /\ \A v \in Workers \ {w} : sched'[v] = sched[v]
        /\ sched'[w].cands = sched[w].cands /\ sched'[w].job = sched[w].job
    BY <1>0, <1>b DEF LockCreate, LockRemove, LockResave, Sched, LoopPcs
  <2>2. QED
    BY <2>1, TrainSched
<1>c. CASE LockInspect(w, j) \/ LockRecreate(w, j)
  <2>1. Scan(w).cands = sched[w].cands /\ Scan(w).pc = "scan"
    BY <1>0 DEF Scan, Sched
  <2>2. /\ UNCHANGED run /\ sched[w].pc \in LoopPcs /\ sched[w].pc # "scan"
        /\ \A v \in Workers \ {w} : sched'[v] = sched[v]
    BY <1>0, <1>c DEF LockInspect, LockRecreate, LoopPcs
  <2>3. \/ sched' = [sched EXCEPT ![w] = [sched[w] EXCEPT !.pc = "steal"]]
        \/ sched' = [sched EXCEPT ![w] = Scan(w)]
        \/ sched' = [sched EXCEPT ![w].pc = "resave"]
    BY <1>c DEF LockInspect, LockRecreate
  <2>4. /\ sched'[w].cands = sched[w].cands
        /\ sched'[w].pc = "scan" \/ sched'[w].job = sched[w].job
    BY <1>0, <2>1, <2>3 DEF Sched
  <2>5. QED
    BY <2>2, <2>4, TrainSched
<1>d. CASE ClaimSave(w, j)
  <2>1. /\ sched[w].pc = "claim" /\ sched[w].job = j /\ sched'[w].pc = "idle"
        /\ \A v \in Workers \ {w} : sched'[v] = sched[v]
        /\ \A v \in Workers, i \in Jobs : v # w \/ i # j => run'[v][i] = run[v][i]
    BY <1>0, <1>d DEF ClaimSave, IdleSched
  <2>2. /\ \A i \in Training : run[w][i] = "none"
        /\ (\E i \in Jobs : run[w][i] # "none") => j \notin Training
    BY <2>1 DEF TrainInv, Decided, LoopPcs
  <2>3. TrainsAlone'
    <3> SUFFICES ASSUME NEW v \in Workers, NEW i \in Training, NEW k \in Jobs,
                        run'[v][i] # "none", run'[v][k] # "none"
        PROVE  i = k
      BY DEF TrainsAlone
    <3>1. i \in Jobs
      BY SetsAssumption
    <3>2. CASE v # w
      BY <2>1, <3>1, <3>2 DEF TrainInv, TrainsAlone
    <3>3. CASE v = w
      BY <2>1, <2>2, <3>1, <3>3
    <3>4. QED
      BY <3>2, <3>3
  <2>4. Decided'
    <3> SUFFICES ASSUME NEW v \in Workers, sched'[v].pc \in LoopPcs
        PROVE  (/\ \A i \in Training : run[v][i] = "none"
                /\ (\E k \in Jobs : run[v][k] # "none") =>
                     /\ sched[v].cands \cap Training = {}
                     /\ sched[v].pc # "scan" => sched[v].job \notin Training)'
      BY DEF Decided
    <3>1. v # w
      BY <2>1 DEF LoopPcs
    <3>2. sched'[v] = sched[v] /\ \A i \in Jobs : run'[v][i] = run[v][i]
      BY <2>1, <3>1
    <3>3. QED
      BY <3>2, SetsAssumption DEF TrainInv, Decided
  <2>5. QED
    BY <2>3, <2>4
<1>e. CASE RecoverRead(w, j) \/ RecoverRelease(w, j) \/ RecoverSave(w, j)
  <2>1. /\ UNCHANGED run /\ sched'[w].pc \in {"release", "recover", "idle"}
        /\ \A v \in Workers \ {w} : sched'[v] = sched[v]
    BY <1>0, <1>e DEF RecoverRead, RecoverRelease, RecoverSave, IdleSched, Sched
  <2>2. QED
    BY <2>1, TrainShrink DEF LoopPcs
<1>f. QED
  BY <1>a, <1>b, <1>c, <1>d, <1>e DEF SchedStep

LEMMA TrainStepRest ==
  ASSUME TrainInv, NEW w \in Workers,
         \/ \E j \in Jobs : WorldStep(j) \/ CrashChild(w, j) \/ RunStep(w, j)
         \/ Start(w) \/ Crash(w) \/ ClaimNone(w)
  PROVE  TrainsAlone' /\ Decided'
<1> USE DEF store, locks, runs, webs
<1>0. sched \in [Workers -> Sched] /\ run \in [Workers -> [Jobs -> RunPcs]]
  BY DEF TrainInv, TypeOK, Sched
<1>1. CASE (\E j \in Jobs : WorldStep(j)) \/ Start(w)
  <2>1. UNCHANGED <<run, sched>>
    BY <1>1 DEF WorldStep, RecordAges, LockAges, Submit, CancelRead, CancelSave, Delete, Start
  <2>2. QED
    BY <2>1, TrainShrink
<1>2. CASE Crash(w) \/ ClaimNone(w)
  <2>1. /\ \A v \in Workers : sched'[v] = sched[v] \/ sched'[v].pc = "idle"
        /\ \A v \in Workers, i \in Jobs : run'[v][i] # "none" => run[v][i] # "none"
    BY <1>0, <1>2 DEF Crash, ClaimNone, IdleSched
  <2>2. QED
    BY <2>1, TrainShrink DEF LoopPcs
<1>3. ASSUME NEW j \in Jobs, CrashChild(w, j) \/ RunStep(w, j) PROVE TrainsAlone' /\ Decided'
  <2>1. run[w][j] # "none" /\ UNCHANGED sched
    BY <1>3 DEF CrashChild, ChildPcs, RunStep, RunSpawn, RunBegin, RunCheck, RunCancelled,
       RunWork, RunFinish, RunFail, RunRelease, ReapRead, ReapSave, ReapRelease
  <2>2. \A v \in Workers, i \in Jobs : v # w \/ i # j => run'[v][i] = run[v][i]
    <3>1. CASE CrashChild(w, j)
      BY <1>0, <3>1 DEF CrashChild
    <3>2. CASE RunStep(w, j)
      <4>1. \/ \E pc \in RunPcs : GoTo(w, j, pc)
            \/ \E pc \in RunPcs : Leave(w, j, pc)
        BY <3>2 DEF RunStep, RunSpawn, RunBegin, RunCheck, RunCancelled, RunWork,
           RunFinish, RunFail, RunRelease, ReapRead, ReapSave, ReapRelease, RunPcs
      <4>2. QED
        BY <1>0, <4>1 DEF GoTo, Leave
    <3>3. QED
      BY <1>3, <3>1, <3>2
  <2>3. \A v \in Workers, i \in Jobs : run'[v][i] # "none" => run[v][i] # "none"
    BY <2>1, <2>2
  <2>4. QED
    BY <2>1, <2>3, TrainShrink
<1>4. QED
  BY <1>1, <1>2, <1>3

\* The list of candidates is the only decision.
LEMMA TrainStepList ==
  ASSUME TrainInv, NEW w \in Workers, ClaimList(w)
  PROVE  TrainsAlone' /\ Decided'
<1> USE DEF store, locks, runs, webs
<1>1. /\ UNCHANGED run /\ Active(w) \cap Training = {}
      /\ sched'[w].pc = "scan" /\ sched'[w].cands = Claimable(w)
      /\ \A v \in Workers \ {w} : sched'[v] = sched[v]
  BY DEF ClaimList, TrainInv, TypeOK
<1>2. /\ \A i \in Training : run[w][i] = "none"
      /\ (\E j \in Jobs : run[w][j] # "none") => sched'[w].cands \cap Training = {}
  BY <1>1, SetsAssumption DEF Active, Claimable
<1>3. TrainsAlone'
  BY <1>1 DEF TrainInv, TrainsAlone
<1>4. Decided'
  BY <1>1, <1>2 DEF TrainInv, Decided
<1>5. QED
  BY <1>3, <1>4

LEMMA TrainInductive == TrainInv /\ [Next]_vars => TrainInv'
<1> SUFFICES ASSUME TrainInv, [Next]_vars PROVE TrainInv'
  OBVIOUS
<1>1. TypeOK'
  BY TypeOKStep DEF TrainInv
<1>2. CASE UNCHANGED vars
  BY <1>1, <1>2 DEF TrainInv, TrainsAlone, Decided, vars, runs
<1>3. CASE Next
  <2>1. \A j \in Jobs : WorldStep(j) => TrainsAlone' /\ Decided'
    <3> SUFFICES ASSUME NEW j \in Jobs, WorldStep(j) PROVE TrainsAlone' /\ Decided'
      OBVIOUS
    <3>1. UNCHANGED <<run, sched>>
      BY DEF WorldStep, RecordAges, LockAges, Submit, CancelRead, CancelSave, Delete,
             store, locks, runs, webs
    <3>2. QED
      BY <3>1, TrainShrink
  <2>2. QED
    BY <1>1, <1>3, <2>1, TrainStepSched, TrainStepRest, TrainStepList DEF Next, TrainInv
<1>4. QED
  BY <1>2, <1>3

\* A training job is the only active job of its worker process
\* (startAvailableJobs: hasActiveTrainingJob, excludeKinds), under every fault.
THEOREM TrainingExclusiveAlways == Spec => []TrainingExclusive
<1>1. Init => TrainInv
  <2> SUFFICES ASSUME Init PROVE TrainInv
    OBVIOUS
  <2>1. QED
    BY TypeOKInit, SetsAssumption DEF Init, TrainInv, TrainsAlone, Decided, IdleSched, LoopPcs
<1>2. TrainInv => TrainingExclusive
  <2> SUFFICES ASSUME TrainInv, NEW w \in Workers, NEW i \in Active(w) \cap Training
      PROVE  Cardinality(Active(w)) = 1
    BY DEF TrainingExclusive
  <2>1. Active(w) = {i}
    BY DEF TrainInv, TrainsAlone, Active
  <2>2. QED
    BY <2>1, FS_Singleton
<1>3. QED
  BY <1>1, <1>2, TrainInductive, PTL DEF Spec

-----------------------------------------------------------------------------
(* Without faults: with nothing but live workers, retries and failing        *)
(* training children, job.lock does its work, however many workers share the *)
(* workspace: no job is ever executed twice at a time, no lock is ever taken *)
(* from its owner, and a running job has a live worker.                      *)

\* No process dies, no user interferes, and no run is silent or long enough to
\* be taken for dead.
NoFaults ==
  /\ MaxCrashes = 0 /\ ~LocksAge /\ SilentAge < 2
  /\ Cancellable = {} /\ Deletable = {}

\* The whole time between the creation of a lock and its release.
Owns(w, j) == Claiming(w, j) \/ run[w][j] # "none"

\* The parts of a run during which job.json says running ...
UnderWayPcs == {"spawn", "start", "check", "work", "finish", "fail", "reap", "reaped"}
\* ... and those of them with a record in memory.
MemPcs == {"start", "check", "work", "finish", "fail"}

ProcsLive ==
  \A w \in Workers :
    /\ proc[w] # "dead"
    /\ proc[w] = "new" => sched[w].pc = "idle" /\ \A j \in Jobs : run[w][j] = "none"
NoSteals ==
  \A w \in Workers : sched[w].pc \notin {"steal", "create", "resave", "release", "recover"}
LocksFresh == \A j \in Jobs : ~lockOld[j]
Owned == \A w \in Workers, j \in Jobs : Owns(w, j) => lock[j] = w
Owner == \A j \in Jobs : lock[j] # NoWorker => Owns(lock[j], j)
OneRole == \A w \in Workers, j \in Jobs : Claiming(w, j) => run[w][j] = "none"
Recorded ==
  \A w \in Workers, j \in Jobs :
    /\ run[w][j] \in UnderWayPcs \cup {"none", "ended", "unlock"}
    /\ run[w][j] \in UnderWayPcs => file[j].status = "running"
    /\ run[w][j] \in {"ended", "unlock"} => file[j].status # "running"
    /\ run[w][j] \in MemPcs => mem[w][j].status = "running"
RunningHeld ==
  \A j \in Jobs : file[j].status = "running" =>
    age[j] < 2 /\ \E w \in Workers : run[w][j] # "none"
NoCancels ==
  /\ \A j \in Jobs : web[j] # "read" /\ ~file[j].cancelRequested
  /\ \A w \in Workers : ~sched[w].rec.cancelRequested
  /\ \A w \in Workers, j \in Jobs : ~mem[w][j].cancelRequested
MadeFirst ==
  \A j \in Jobs \ made :
    /\ file[j].status = "none"
    /\ \A w \in Workers : /\ run[w][j] = "none"
                          /\ sched[w].pc \in {"lock", "exists", "claim"} => sched[w].job # j

CalmInv ==
  /\ TypeOK /\ NeverRobbed /\ ProcsLive /\ NoSteals /\ LocksFresh /\ Owned /\ Owner
  /\ OneRole /\ Recorded /\ RunningHeld /\ NoCancels /\ MadeFirst

-----------------------------------------------------------------------------
(* Three shapes of steps *)

\* The scheduler of w moves without claiming anything before or after.
LEMMA CalmSched ==
  ASSUME CalmInv, TypeOK', NEW w \in Workers, proc[w] = "up",
         UNCHANGED <<made, file, age, lock, lockOld, proc, run, mem, web, robbed>>,
         \A v \in Workers \ {w} : sched'[v] = sched[v],
         sched[w].pc \notin {"resave", "claim"},
         sched'[w].pc \in {"idle", "scan", "lock", "exists"},
         ~sched'[w].rec.cancelRequested,
         sched'[w].pc \in {"lock", "exists"} => sched'[w].job \in made
  PROVE  CalmInv'
<1> USE DEF CalmInv
<1>1. \A v \in Workers, i \in Jobs : (Claiming(v, i)' <=> Claiming(v, i))
                                    /\ (Owns(v, i)' <=> Owns(v, i))
  BY DEF Claiming, Owns
<1>2. NeverRobbed' /\ LocksFresh' /\ RunningHeld' /\ Recorded'
  BY DEF NeverRobbed, LocksFresh, RunningHeld, Recorded
<1>3. Owned' /\ OneRole'
  BY <1>1 DEF Owned, OneRole
<1>4. Owner'
  <2> SUFFICES ASSUME NEW i \in Jobs, lock[i] # NoWorker PROVE Owns(lock[i], i)'
    BY DEF Owner
  <2>1. lock[i] \in Workers /\ Owns(lock[i], i)
    BY DEF Owner, TypeOK
  <2>2. QED
    BY <2>1 DEF Owns, Claiming
<1>5. ProcsLive' /\ NoSteals'
  BY DEF ProcsLive, NoSteals
<1>6. NoCancels'
  BY DEF NoCancels
<1>7. MadeFirst'
  BY DEF MadeFirst
<1>8. QED
  BY <1>2, <1>3, <1>4, <1>5, <1>6, <1>7

\* The run of j in w goes on.
LEMMA CalmRun ==
  ASSUME CalmInv, TypeOK', NEW w \in Workers, NEW j \in Jobs, run[w][j] # "none",
         UNCHANGED <<made, lock, lockOld, proc, sched, web, robbed>>,
         \A v \in Workers, i \in Jobs : v # w \/ i # j =>
            run'[v][i] = run[v][i] /\ mem'[v][i] = mem[v][i],
         \A i \in Jobs \ {j} : file'[i] = file[i] /\ age'[i] = age[i],
         run'[w][j] \in UnderWayPcs \cup {"ended", "unlock"},
         run'[w][j] \in UnderWayPcs => file'[j].status = "running" /\ age'[j] < 2,
         run'[w][j] \in {"ended", "unlock"} => file'[j].status # "running",
         run'[w][j] \in MemPcs => mem'[w][j].status = "running",
         ~file'[j].cancelRequested, ~mem'[w][j].cancelRequested
  PROVE  CalmInv'
<1> USE DEF CalmInv
<1>0. "none" \notin UnderWayPcs \cup {"ended", "unlock"}
  BY DEF UnderWayPcs
<1>1. \A v \in Workers, i \in Jobs : (Claiming(v, i)' <=> Claiming(v, i))
                                    /\ (Owns(v, i)' <=> Owns(v, i))
  BY <1>0 DEF Claiming, Owns
<1>2. lock[j] = w
  BY DEF Owned, Owns
<1>3. \A v \in Workers \ {w} : run[v][j] = "none" /\ run'[v][j] = "none"
  BY <1>2 DEF Owned, Owns
<1>4. NeverRobbed' /\ LocksFresh' /\ NoSteals'
  BY DEF NeverRobbed, LocksFresh, NoSteals
<1>5. Owned' /\ OneRole'
  BY <1>1 DEF Owned, OneRole
<1>6. Owner'
  <2> SUFFICES ASSUME NEW i \in Jobs, lock[i] # NoWorker PROVE Owns(lock[i], i)'
    BY DEF Owner
  <2>1. lock[i] \in Workers /\ Owns(lock[i], i)
    BY DEF Owner, TypeOK
  <2>2. CASE lock[i] = w /\ i = j
    BY <1>0, <2>2 DEF Owns
  <2>3. CASE ~(lock[i] = w /\ i = j)
    BY <2>1, <2>3 DEF Owns, Claiming
  <2>4. QED
    BY <2>2, <2>3
<1>7. ProcsLive'
  BY DEF ProcsLive
<1>8. Recorded'
  <2> SUFFICES ASSUME NEW v \in Workers, NEW i \in Jobs
      PROVE  (/\ run[v][i] \in UnderWayPcs \cup {"none", "ended", "unlock"}
              /\ run[v][i] \in UnderWayPcs => file[i].status = "running"
              /\ run[v][i] \in {"ended", "unlock"} => file[i].status # "running"
              /\ run[v][i] \in MemPcs => mem[v][i].status = "running")'
    BY DEF Recorded
  <2>1. CASE i # j
    BY <2>1 DEF Recorded
  <2>2. CASE i = j /\ v = w
    BY <2>2
  <2>3. CASE i = j /\ v # w
    BY <1>0, <1>3, <2>3 DEF MemPcs
  <2>4. QED
    BY <2>1, <2>2, <2>3
<1>9. RunningHeld'
  <2> SUFFICES ASSUME NEW i \in Jobs, file'[i].status = "running"
      PROVE  age'[i] < 2 /\ \E v \in Workers : run'[v][i] # "none"
    BY DEF RunningHeld
  <2>1. CASE i = j
    BY <1>0, <2>1
  <2>2. CASE i # j
    BY <2>2 DEF RunningHeld
  <2>3. QED
    BY <2>1, <2>2
<1>10. NoCancels'
  BY DEF NoCancels
<1>11. MadeFirst'
  BY DEF MadeFirst
<1>12. QED
  BY <1>4, <1>5, <1>6, <1>7, <1>8, <1>9, <1>10, <1>11

\* The run of j in w is over and its lock is removed.
LEMMA CalmRelease ==
  ASSUME CalmInv, TypeOK', NEW w \in Workers, NEW j \in Jobs,
         run[w][j] \in {"ended", "unlock"}, RemoveLock(j),
         UNCHANGED <<made, file, age, proc, sched, web>>,
         \A v \in Workers, i \in Jobs : v # w \/ i # j =>
            run'[v][i] = run[v][i] /\ mem'[v][i] = mem[v][i],
         run'[w][j] = "none", mem'[w][j] = NoRec
  PROVE  CalmInv'
<1> USE DEF CalmInv
<1>1. lock[j] = w /\ file[j].status # "running" /\ ~Claiming(w, j)
  BY DEF Owned, Owns, Recorded, OneRole
<1>2. \A v \in Workers \ {w} : run[v][j] = "none" /\ run'[v][j] = "none" /\ ~Claiming(v, j)
  BY <1>1 DEF Owned, Owns
<1>3. /\ lock'[j] = NoWorker /\ ~lockOld'[j]
      /\ \A i \in Jobs \ {j} : lock'[i] = lock[i] /\ lockOld'[i] = lockOld[i]
  BY DEF RemoveLock, TypeOK
<1>4. \A v \in Workers, i \in Jobs : Claiming(v, i)' <=> Claiming(v, i)
  BY DEF Claiming
<1>5. \A v \in Workers, i \in Jobs : Owns(v, i)' <=> Owns(v, i) /\ i # j
  BY <1>1, <1>2, <1>4 DEF Owns
<1>6. NeverRobbed'
  <2>1. \A v \in Workers : ~Holds(v, j)
    BY <1>1, <1>2 DEF Holds, Executing, ExecPcs
  <2>2. QED
    BY <2>1 DEF RemoveLock, NeverRobbed
<1>7. LocksFresh'
  BY <1>3 DEF LocksFresh
<1>8. Owned' /\ OneRole'
  BY <1>1, <1>2, <1>3, <1>4, <1>5 DEF Owned, OneRole
<1>9. Owner'
  <2> SUFFICES ASSUME NEW i \in Jobs, lock'[i] # NoWorker PROVE Owns(lock[i], i)'
    BY DEF Owner
  <2>1. i # j /\ lock'[i] = lock[i] /\ lock[i] \in Workers /\ Owns(lock[i], i)
    BY <1>3 DEF Owner, TypeOK
  <2>2. QED
    BY <2>1 DEF Owns, Claiming
<1>10. ProcsLive' /\ NoSteals'
  BY DEF ProcsLive, NoSteals
<1>11. Recorded'
  <2> SUFFICES ASSUME NEW v \in Workers, NEW i \in Jobs
      PROVE  (/\ run[v][i] \in UnderWayPcs \cup {"none", "ended", "unlock"}
              /\ run[v][i] \in UnderWayPcs => file[i].status = "running"
              /\ run[v][i] \in {"ended", "unlock"} => file[i].status # "running"
              /\ run[v][i] \in MemPcs => mem[v][i].status = "running")'
    BY DEF Recorded
  <2>1. CASE v # w \/ i # j
    BY <2>1 DEF Recorded
  <2>2. CASE v = w /\ i = j
    BY <2>2 DEF UnderWayPcs, MemPcs
  <2>3. QED
    BY <2>1, <2>2
<1>12. RunningHeld'
  BY <1>1 DEF RunningHeld
<1>13. NoCancels'
  BY DEF NoCancels, NoRec
<1>14. MadeFirst'
  BY DEF MadeFirst
<1>15. QED
  BY <1>6, <1>7, <1>8, <1>9, <1>10, <1>11, <1>12, <1>13, <1>14

-----------------------------------------------------------------------------
(* What cannot happen in a calm state *)

LEMMA NothingOld ==
  ASSUME NoFaults, CalmInv, NEW j \in Jobs
  PROVE  /\ ~LockAges(j) /\ ~CancelRead(j) /\ ~CancelSave(j) /\ ~Delete(j)
         /\ file[j].status = "running" => ~Abandoned(j)
         /\ ~Stealable(j)
         /\ \A w \in Workers : /\ ~Crash(w) /\ ~CrashChild(w, j)
                               /\ ~RecoverRead(w, j)
<1> USE DEF NoFaults, CalmInv
<1>1. \A w \in Workers : run[w][j] # "none" => proc[w] = "up"
  BY DEF ProcsLive, TypeOK
<1>2. ~LockDead(j) /\ ~lockOld[j]
  BY DEF LockDead, ProcsLive, LocksFresh
<1>3. file[j].status = "running" => ~Abandoned(j)
  BY <1>1 DEF RunningHeld, Abandoned, Alive
<1>4. ~LockAges(j)
  <2>1. lock[j] # NoWorker => ~Abandoned(j) \/ \E w \in Workers : Claiming(w, j)
    BY <1>1 DEF Owner, Owns, Abandoned, Alive, TypeOK
  <2>2. QED
    BY <2>1 DEF LockAges
<1>5. ~CancelRead(j) /\ ~CancelSave(j) /\ ~Delete(j)
  BY DEF CancelRead, CancelSave, Delete, NoCancels
<1>6. \A w \in Workers : ~Crash(w) /\ ~CrashChild(w, j)
  BY DEF Crash, CrashChild, TypeOK
<1>7. \A w \in Workers : ~RecoverRead(w, j)
  <2>1. file[j].status = "running" => age[j] < 2 /\ age[j] \in 0..2
    BY DEF RunningHeld, TypeOK
  <2>2. StaleLimit(j) = 2
    BY <1>2 DEF StaleLimit
  <2>3. QED
    BY <2>1, <2>2 DEF RecoverRead
<1>8. QED
  BY <1>2, <1>3, <1>4, <1>5, <1>6, <1>7 DEF Stealable

-----------------------------------------------------------------------------
(* Steps of the world and of processes *)

LEMMA CalmWorld ==
  ASSUME NoFaults, CalmInv, NEW j \in Jobs, WorldStep(j)
  PROVE  CalmInv'
<1> USE DEF store, locks, runs, webs
<1>1. TypeOK'
  BY TypeOKWorld DEF CalmInv
<1>2. CASE RecordAges(j)
  <2>1. /\ age[j] = 0 /\ age' = [age EXCEPT ![j] = 1]
        /\ UNCHANGED <<made, file, lock, lockOld, proc, sched, run, mem, web, robbed>>
    <3>1. age[j] < SilentAge /\ age[j] \in 0..2 /\ SilentAge \in 0..1
      BY <1>2, NothingOld, BoundsAssumption DEF RecordAges, CalmInv, TypeOK, NoFaults
    <3>2. age[j] = 0
      BY <3>1
    <3>3. age' = [age EXCEPT ![j] = age[j] + 1]
      BY <1>2 DEF RecordAges
    <3>4. age' = [age EXCEPT ![j] = 1]
      BY <3>2, <3>3
    <3>5. QED
      BY <1>2, <3>2, <3>4 DEF RecordAges
  <2>2. RunningHeld'
    BY <2>1 DEF RunningHeld, CalmInv, TypeOK
  <2>3. QED
    BY <1>1, <2>1, <2>2 DEF CalmInv, NeverRobbed, ProcsLive, NoSteals, LocksFresh, Owned,
       Owner, OneRole, Recorded, NoCancels, MadeFirst, Owns, Claiming
<1>3. CASE Submit(j)
  <2>1. /\ j \notin made /\ made' = made \cup {j}
        /\ file'[j] = NewJob /\ \A i \in Jobs \ {j} : file'[i] = file[i] /\ age'[i] = age[i]
        /\ UNCHANGED <<lock, lockOld, proc, sched, run, mem, web, robbed>>
    BY <1>3 DEF Submit, Save, CalmInv, TypeOK
  <2>2. NewJob.status = "queued" /\ ~NewJob.cancelRequested
    BY DEF NewJob
  <2>3. \A w \in Workers : run[w][j] = "none"
    BY <2>1 DEF CalmInv, MadeFirst
  <2>4. Recorded'
    BY <2>1, <2>3 DEF CalmInv, Recorded, UnderWayPcs, MemPcs
  <2>5. RunningHeld' /\ NoCancels' /\ MadeFirst'
    BY <2>1, <2>2 DEF CalmInv, RunningHeld, NoCancels, MadeFirst
  <2>6. QED
    BY <1>1, <2>1, <2>4, <2>5 DEF CalmInv, NeverRobbed, ProcsLive, NoSteals, LocksFresh,
       Owned, Owner, OneRole, Owns, Claiming
<1>4. QED
  BY <1>2, <1>3, NothingOld DEF WorldStep

LEMMA CalmStart ==
  ASSUME CalmInv, NEW w \in Workers, Start(w)
  PROVE  CalmInv'
<1>1. TypeOK'
  BY TypeOKProc DEF CalmInv
<1>2. /\ UNCHANGED <<made, file, age, lock, lockOld, sched, run, mem, web, robbed>>
      /\ proc' = [proc EXCEPT ![w] = "up"]
  BY DEF Start, store, locks, runs, webs
<1>3. ProcsLive'
  BY <1>2 DEF ProcsLive, CalmInv, TypeOK
<1>4. QED
  BY <1>1, <1>2, <1>3 DEF CalmInv, NeverRobbed, NoSteals, LocksFresh, Owned, Owner, OneRole,
     Recorded, RunningHeld, NoCancels, MadeFirst, Owns, Claiming

-----------------------------------------------------------------------------
(* Steps of the scheduler *)

LEMMA CalmClaim ==
  ASSUME CalmInv, NEW w \in Workers, ClaimList(w) \/ ClaimNone(w)
  PROVE  CalmInv'
<1> USE DEF store, locks, runs, webs
<1>1. TypeOK'
  BY TypeOKClaim DEF CalmInv
<1>2. /\ proc[w] = "up" /\ sched[w].pc \in {"idle", "scan"}
      /\ UNCHANGED <<made, file, age, lock, lockOld, proc, run, mem, web, robbed>>
      /\ \A v \in Workers \ {w} : sched'[v] = sched[v]
      /\ sched'[w].pc \in {"idle", "scan"}
      /\ sched'[w].rec = sched[w].rec \/ sched'[w].rec = NoRec
  BY DEF ClaimList, ClaimNone, CalmInv, TypeOK, IdleSched
<1>3. ~sched'[w].rec.cancelRequested
  BY <1>2 DEF CalmInv, NoCancels, NoRec
<1>4. QED
  BY <1>1, <1>2, <1>3, CalmSched

LEMMA CalmSchedStep ==
  ASSUME NoFaults, CalmInv, NEW w \in Workers, NEW j \in Jobs, SchedStep(w, j)
  PROVE  CalmInv'
<1> USE DEF store, locks, runs, webs
<1>1. TypeOK'
  BY TypeOKSched DEF CalmInv
<1>0. /\ sched \in [Workers -> Sched] /\ sched[w] \in Sched
      /\ sched[w].pc \notin {"steal", "create", "resave", "release", "recover"}
      /\ ~sched[w].rec.cancelRequested /\ ~file[j].cancelRequested
  BY DEF CalmInv, TypeOK, Sched, NoSteals, NoCancels
<1>a. CASE ClaimRead(w, j)
  <2>1. file[j].status = "queued" => j \in made
    BY DEF CalmInv, MadeFirst
  <2>2. /\ proc[w] = "up" /\ sched[w].pc = "scan"
        /\ UNCHANGED <<made, file, age, lock, lockOld, proc, run, mem, web, robbed>>
        /\ \A v \in Workers \ {w} : sched'[v] = sched[v]
    BY <1>a, <1>0 DEF ClaimRead
  <2>3. \/ sched'[w].pc = "lock" /\ sched'[w].job \in made /\ sched'[w].rec = file[j]
        \/ sched'[w].pc = "scan" /\ sched'[w].rec = sched[w].rec
    BY <1>a, <1>0, <2>1 DEF ClaimRead, Sched
  <2>4. QED
    BY <1>0, <1>1, <2>2, <2>3, CalmSched
<1>b. CASE LockCreate(w, j)
  <2>0. j \in made
    BY <1>b DEF LockCreate, CalmInv, MadeFirst
  <2>1. CASE CreateLock(w, j)
    <3>1. /\ sched'[w].pc = "claim" /\ sched'[w].job = j /\ sched'[w].rec = sched[w].rec
          /\ sched[w].pc = "lock" /\ proc[w] = "up" /\ lock[j] = NoWorker
          /\ UNCHANGED <<made, file, age, proc, run, mem, web, robbed>>
          /\ \A v \in Workers \ {w} : sched'[v] = sched[v]
      <4>1. lock[j] = NoWorker /\ lock' # lock
        BY <2>1, SetsAssumption DEF CreateLock, CalmInv, TypeOK
      <4>2. sched' = [sched EXCEPT ![w].pc = "claim"] /\ sched[w].pc = "lock" /\ sched[w].job = j
        BY <1>b, <4>1 DEF LockCreate
      <4>3. QED
        BY <1>b, <1>0, <4>1, <4>2 DEF LockCreate, Sched
    <3>2. /\ lock'[j] = w /\ ~lockOld'[j]
          /\ \A i \in Jobs \ {j} : lock'[i] = lock[i] /\ lockOld'[i] = lockOld[i]
      BY <2>1 DEF CreateLock, CalmInv, TypeOK
    <3>3. \A v \in Workers : ~Owns(v, j)
      BY <3>1, SetsAssumption DEF CalmInv, Owned
    <3>4. \A v \in Workers, i \in Jobs : i # j =>
            (Claiming(v, i)' <=> Claiming(v, i)) /\ (Owns(v, i)' <=> Owns(v, i))
      BY <3>1 DEF Claiming, Owns
    <3>5. Claiming(w, j)' /\ Owns(w, j)' /\ \A v \in Workers \ {w} : ~Owns(v, j)'
      BY <3>1, <3>3 DEF Claiming, Owns
    <3>6. Owned' /\ OneRole'
      <4>1. \A v \in Workers : run'[v][j] = "none"
        BY <3>1, <3>3 DEF Owns
      <4>2. QED
        BY <3>2, <3>4, <3>5, <4>1, <3>1 DEF CalmInv, Owned, OneRole
    <3>7. Owner'
      <4> SUFFICES ASSUME NEW i \in Jobs, lock'[i] # NoWorker PROVE Owns(lock[i], i)'
        BY DEF Owner
      <4>1. CASE i = j
        BY <3>2, <3>5, <4>1 DEF Owns, Claiming
      <4>2. CASE i # j
        <5>1. lock'[i] = lock[i] /\ lock[i] \in Workers /\ Owns(lock[i], i)
          BY <3>2, <4>2 DEF CalmInv, Owner, TypeOK
        <5>2. QED
          BY <3>1, <4>2, <5>1 DEF Owns, Claiming
      <4>3. QED
        BY <4>1, <4>2
    <3>8. LocksFresh' /\ ProcsLive' /\ NoSteals' /\ NeverRobbed'
      BY <3>1, <3>2 DEF CalmInv, LocksFresh, ProcsLive, NoSteals, NeverRobbed
    <3>9. NoCancels' /\ MadeFirst' /\ Recorded' /\ RunningHeld'
      BY <1>0, <2>0, <3>1 DEF CalmInv, NoCancels, MadeFirst, Recorded, RunningHeld
    <3>10. QED
      BY <1>1, <3>6, <3>7, <3>8, <3>9 DEF CalmInv
  <2>2. CASE ~CreateLock(w, j)
    <3>1. /\ sched'[w].pc = "exists" /\ sched'[w].job = j /\ sched'[w].rec = sched[w].rec
          /\ sched[w].pc = "lock" /\ proc[w] = "up"
          /\ UNCHANGED <<made, file, age, lock, lockOld, proc, run, mem, web, robbed>>
          /\ \A v \in Workers \ {w} : sched'[v] = sched[v]
      BY <1>b, <1>0, <2>2 DEF LockCreate, Sched
    <3>2. QED
      BY <1>0, <1>1, <2>0, <3>1, CalmSched
  <2>3. QED
    BY <2>1, <2>2
<1>c. CASE LockInspect(w, j)
  <2>1. Scan(w).pc = "scan" /\ Scan(w).rec = NoRec
    BY <1>0 DEF Scan, Sched
  <2>2. sched' = [sched EXCEPT ![w] = Scan(w)]
    BY <1>c, NothingOld DEF LockInspect
  <2>3. /\ sched'[w].pc = "scan" /\ ~sched'[w].rec.cancelRequested
        /\ \A v \in Workers \ {w} : sched'[v] = sched[v]
    BY <1>0, <2>1, <2>2 DEF NoRec
  <2>4. /\ sched[w].pc = "exists" /\ proc[w] = "up"
        /\ UNCHANGED <<made, file, age, lock, lockOld, proc, run, mem, web, robbed>>
    BY <1>c DEF LockInspect
  <2>5. QED
    BY <1>1, <2>3, <2>4, CalmSched
<1>g. CASE ClaimSave(w, j)
  <2> DEFINE rec == Claimed(sched[w].rec)
  <2>1. /\ proc[w] = "up" /\ sched[w].pc = "claim" /\ sched[w].job = j
        /\ UNCHANGED <<made, lock, lockOld, proc, web, robbed>>
        /\ file'[j] = rec /\ age'[j] = 0 /\ mem'[w][j] = rec
        /\ \A i \in Jobs \ {j} : file'[i] = file[i] /\ age'[i] = age[i]
        /\ run'[w][j] \in {"spawn", "start"}
        /\ \A v \in Workers, i \in Jobs : v # w \/ i # j =>
             run'[v][i] = run[v][i] /\ mem'[v][i] = mem[v][i]
        /\ sched'[w] = IdleSched /\ \A v \in Workers \ {w} : sched'[v] = sched[v]
    BY <1>g DEF ClaimSave, Save, CalmInv, TypeOK
  <2>2. rec.status = "running" /\ ~rec.cancelRequested
    BY <1>0 DEF Claimed, Sched, Rec
  <2> HIDE DEF rec
  <2>3. Claiming(w, j) /\ lock[j] = w /\ run[w][j] = "none"
    BY <2>1 DEF Claiming, CalmInv, Owned, Owns, OneRole
  <2>4. \A v \in Workers \ {w} : ~Owns(v, j)
    BY <2>3 DEF CalmInv, Owned
  <2>5. /\ \A v \in Workers, i \in Jobs : Owns(v, i)' <=> Owns(v, i)
        /\ \A i \in Jobs : ~Claiming(w, i)'
        /\ \A v \in Workers \ {w}, i \in Jobs : Claiming(v, i)' <=> Claiming(v, i)
    BY <2>1, <2>3 DEF Owns, Claiming, IdleSched
  <2>6. Owned' /\ OneRole'
    BY <2>1, <2>5 DEF CalmInv, Owned, OneRole
  <2>7. Owner'
    <3> SUFFICES ASSUME NEW i \in Jobs, lock[i] # NoWorker PROVE Owns(lock[i], i)'
      BY <2>1 DEF Owner
    <3>1. lock[i] \in Workers /\ Owns(lock[i], i)
      BY DEF CalmInv, Owner, TypeOK
    <3>2. CASE lock[i] = w
      <4>1. Owns(w, i)'
        BY <2>5, <3>1, <3>2
      <4>2. lock'[i] = w
        BY <2>1, <3>2
      <4>3. QED
        BY <4>1, <4>2 DEF Owns, Claiming
    <3>3. CASE lock[i] # w
      BY <2>1, <3>1, <3>3 DEF Owns, Claiming
    <3>4. QED
      BY <3>2, <3>3
  <2>8. LocksFresh' /\ ProcsLive' /\ NoSteals' /\ NeverRobbed'
    BY <2>1 DEF CalmInv, LocksFresh, ProcsLive, NoSteals, NeverRobbed, IdleSched
  <2>9. Recorded'
    <3> SUFFICES ASSUME NEW v \in Workers, NEW i \in Jobs
        PROVE  (/\ run[v][i] \in UnderWayPcs \cup {"none", "ended", "unlock"}
                /\ run[v][i] \in UnderWayPcs => file[i].status = "running"
                /\ run[v][i] \in {"ended", "unlock"} => file[i].status # "running"
                /\ run[v][i] \in MemPcs => mem[v][i].status = "running")'
      BY DEF Recorded
    <3>1. CASE i # j
      BY <2>1, <3>1 DEF CalmInv, Recorded
    <3>2. CASE i = j /\ v = w
      BY <2>1, <2>2, <3>2 DEF UnderWayPcs
    <3>3. CASE i = j /\ v # w
      BY <2>1, <2>4, <3>3 DEF Owns, UnderWayPcs, MemPcs
    <3>4. QED
      BY <3>1, <3>2, <3>3
  <2>10. RunningHeld'
    <3>1. run'[w][j] # "none"
      BY <2>1
    <3>2. QED
      BY <2>1, <3>1 DEF CalmInv, RunningHeld
  <2>11. NoCancels'
    BY <2>1, <2>2 DEF CalmInv, NoCancels, IdleSched, NoRec
  <2>12. MadeFirst'
    BY <2>1 DEF CalmInv, MadeFirst, IdleSched
  <2>13. QED
    BY <1>1, <2>6, <2>7, <2>8, <2>9, <2>10, <2>11, <2>12 DEF CalmInv
<1>h. CASE \/ LockRemove(w, j) \/ LockRecreate(w, j) \/ LockResave(w, j)
           \/ RecoverRead(w, j) \/ RecoverRelease(w, j) \/ RecoverSave(w, j)
  BY <1>0, <1>h, NothingOld DEF LockRemove, LockRecreate, LockResave, RecoverRelease, RecoverSave
<1>i. QED
  BY <1>a, <1>b, <1>c, <1>g, <1>h DEF SchedStep

-----------------------------------------------------------------------------
(* Steps of a run *)

LEMMA CalmRunStep ==
  ASSUME NoFaults, CalmInv, NEW w \in Workers, NEW j \in Jobs, RunStep(w, j)
  PROVE  CalmInv'
<1> USE DEF store, locks, runs, webs
<1>1. TypeOK'
  BY TypeOKRun DEF CalmInv
<1>2. /\ run \in [Workers -> [Jobs -> RunPcs]] /\ mem \in [Workers -> [Jobs -> Rec]]
      /\ file \in [Jobs -> Rec] /\ age \in [Jobs -> 0..2]
      /\ file[j] \in Rec /\ mem[w][j] \in Rec
      /\ ~file[j].cancelRequested /\ ~mem[w][j].cancelRequested
      /\ run[w][j] \in UnderWayPcs => file[j].status = "running" /\ age[j] < 2
      /\ run[w][j] \in MemPcs => mem[w][j].status = "running"
      /\ run[w][j] \notin {"cancelled", "thrown"}
  BY DEF CalmInv, TypeOK, NoCancels, Recorded, RunningHeld, UnderWayPcs
<1>3. /\ UNCHANGED <<made, proc, sched, web>>
      /\ \A v \in Workers, i \in Jobs : v # w \/ i # j =>
           run'[v][i] = run[v][i] /\ mem'[v][i] = mem[v][i]
      /\ \A i \in Jobs \ {j} : file'[i] = file[i] /\ age'[i] = age[i]
  BY <1>2 DEF RunStep, RunSpawn, RunBegin, RunCheck, RunCancelled, RunWork, RunFinish,
     RunFail, RunRelease, ReapRead, ReapSave, ReapRelease, GoTo, Keep, Leave, Save
\* A step that removes no lock, from what it does to the run, the record in
\* memory and the file of j.
<1>4. ASSUME run[w][j] # "none", UNCHANGED <<lock, lockOld, robbed>>,
             run'[w][j] \in UnderWayPcs \cup {"ended", "unlock"},
             run'[w][j] \in UnderWayPcs => file'[j].status = "running" /\ age'[j] < 2,
             run'[w][j] \in {"ended", "unlock"} => file'[j].status # "running",
             run'[w][j] \in MemPcs => mem'[w][j].status = "running",
             ~file'[j].cancelRequested, ~mem'[w][j].cancelRequested
      PROVE  CalmInv'
  BY <1>1, <1>3, <1>4, CalmRun
<1>5. ASSUME NEW s \in Statuses, NEW r \in Rec
      PROVE  /\ [r EXCEPT !.status = s].status = s
             /\ [r EXCEPT !.status = s].cancelRequested = r.cancelRequested
  BY DEF Rec
<1>6. ASSUME NEW r, Save(j, r) PROVE file'[j] = r /\ age'[j] = 0
  BY <1>2, <1>6 DEF Save
<1>7. ASSUME NEW r, Keep(w, j, r) PROVE mem'[w][j] = r
  BY <1>2, <1>7 DEF Keep
<1>8. ASSUME NEW pc, GoTo(w, j, pc) PROVE run'[w][j] = pc
  BY <1>2, <1>8 DEF GoTo
<1>9. ASSUME NEW pc, Leave(w, j, pc) PROVE run'[w][j] = pc /\ mem'[w][j] = NoRec
  BY <1>2, <1>9 DEF Leave, GoTo
<1>10. ~NoRec.cancelRequested /\ {"running", "queued", "failed", "succeeded"} \subseteq Statuses
  BY DEF NoRec, Statuses
<1>a. CASE RunSpawn(w, j)
  <2>1. run[w][j] = "spawn" /\ UNCHANGED <<file, age, lock, lockOld, robbed>>
    BY <1>a DEF RunSpawn
  <2>2. file[j].status = "running" /\ age[j] < 2
    BY <1>2, <2>1 DEF UnderWayPcs
  <2>3. CASE Keep(w, j, file[j]) /\ GoTo(w, j, "start")
    <3>1. mem'[w][j] = file[j] /\ run'[w][j] = "start"
      BY <1>7, <1>8, <2>3
    <3>2. QED
      BY <1>2, <1>4, <2>1, <2>2, <3>1 DEF UnderWayPcs, MemPcs
  <2>4. CASE Leave(w, j, "reap")
    <3>1. mem'[w][j] = NoRec /\ run'[w][j] = "reap"
      BY <1>9, <2>4
    <3>2. QED
      BY <1>2, <1>4, <1>10, <2>1, <2>2, <3>1 DEF UnderWayPcs, MemPcs
  <2>5. QED
    BY <1>a, <2>3, <2>4 DEF RunSpawn
<1>b. CASE RunBegin(w, j)
  <2> DEFINE lawful == CanTransition(mem[w][j].status, "running")
             rec == [mem[w][j] EXCEPT !.attempts = @ + 1,
                                      !.status = IF lawful THEN "running" ELSE @]
  <2>1. run[w][j] = "start" /\ UNCHANGED <<lock, lockOld, robbed>>
    BY <1>b DEF RunBegin
  <2>2. mem[w][j].status = "running"
    BY <1>2, <2>1 DEF MemPcs
  <2>3. lawful
    BY <2>2 DEF CanTransition
  <2>4. rec.status = "running" /\ ~rec.cancelRequested
    BY <1>2, <2>3 DEF Rec
  <2>5. Save(j, rec) /\ Keep(w, j, rec) /\ GoTo(w, j, "check")
    BY <1>b, <2>3 DEF RunBegin
  <2> HIDE DEF rec
  <2>6. file'[j] = rec /\ age'[j] = 0 /\ mem'[w][j] = rec /\ run'[w][j] = "check"
    BY <1>6, <1>7, <1>8, <2>5
  <2>7. QED
    BY <1>4, <2>1, <2>4, <2>6 DEF UnderWayPcs, MemPcs
<1>c. CASE RunCheck(w, j)
  <2>1. run[w][j] = "check" /\ UNCHANGED <<file, age, mem, lock, lockOld, robbed>>
    BY <1>c DEF RunCheck
  <2>2. file[j].status = "running" /\ age[j] < 2 /\ mem[w][j].status = "running"
    BY <1>2, <2>1 DEF UnderWayPcs, MemPcs
  <2>3. run'[w][j] = "work"
    <3>1. file[j] # NoRec
      BY <2>2 DEF NoRec
    <3>2. GoTo(w, j, "work")
      BY <1>c, <1>2, <2>2, <3>1 DEF RunCheck
    <3>3. QED
      BY <1>8, <3>2
  <2>4. QED
    BY <1>2, <1>4, <2>1, <2>2, <2>3 DEF UnderWayPcs, MemPcs
<1>d. CASE RunWork(w, j)
  <2>1. run[w][j] = "work" /\ UNCHANGED <<mem, lock, lockOld, robbed>>
    BY <1>d DEF RunWork
  <2>2. file[j].status = "running" /\ age[j] < 2 /\ mem[w][j].status = "running"
    BY <1>2, <2>1 DEF UnderWayPcs, MemPcs
  <2>3. \/ Save(j, mem[w][j]) /\ (GoTo(w, j, "check") \/ GoTo(w, j, "finish"))
        \/ GoTo(w, j, "fail") /\ UNCHANGED <<file, age>>
    BY <1>d DEF RunWork
  <2>4. /\ run'[w][j] \in {"check", "finish", "fail"}
        /\ file'[j].status = "running" /\ age'[j] < 2 /\ ~file'[j].cancelRequested
    <3>1. CASE Save(j, mem[w][j]) /\ (GoTo(w, j, "check") \/ GoTo(w, j, "finish"))
      BY <1>2, <1>6, <1>8, <2>2, <3>1
    <3>2. CASE GoTo(w, j, "fail") /\ UNCHANGED <<file, age>>
      BY <1>2, <1>8, <2>2, <3>2
    <3>3. QED
      BY <2>3, <3>1, <3>2
  <2>5. QED
    BY <1>2, <1>4, <2>1, <2>2, <2>4 DEF UnderWayPcs, MemPcs
<1>e. CASE RunFinish(w, j)
  <2>1. run[w][j] = "finish" /\ UNCHANGED <<lock, lockOld, robbed>> /\ GoTo(w, j, "ended")
    BY <1>e DEF RunFinish
  <2>2. PICK status \in {"succeeded", "failed"} :
          LET rec == [mem[w][j] EXCEPT !.status = status]
          IN Save(j, rec) /\ Keep(w, j, rec)
    BY <1>e DEF RunFinish
  <2> DEFINE rec == [mem[w][j] EXCEPT !.status = status]
  <2>3. rec.status # "running" /\ ~rec.cancelRequested
    BY <1>2, <1>5, <1>10
  <2> HIDE DEF rec
  <2>4. file'[j] = rec /\ mem'[w][j] = rec /\ run'[w][j] = "ended"
    BY <1>6, <1>7, <1>8, <2>1, <2>2 DEF rec
  <2>5. QED
    BY <1>4, <2>1, <2>3, <2>4 DEF UnderWayPcs, MemPcs
<1>f. CASE RunFail(w, j)
  <2> DEFINE rec == [mem[w][j] EXCEPT !.status =
                       IF MayRetry(mem[w][j]) THEN "queued" ELSE "failed"]
  <2>1. run[w][j] = "fail" /\ UNCHANGED <<lock, lockOld, robbed>>
    BY <1>f DEF RunFail
  <2>2. CanTransition(mem[w][j].status, "failed")
    BY <1>2, <2>1 DEF CanTransition, Terminal, MemPcs
  <2>3. Save(j, rec) /\ Keep(w, j, rec) /\ GoTo(w, j, "ended")
    BY <1>f, <2>2 DEF RunFail
  <2>4. rec.status # "running" /\ ~rec.cancelRequested
    BY <1>2, <1>5, <1>10
  <2> HIDE DEF rec
  <2>5. file'[j] = rec /\ mem'[w][j] = rec /\ run'[w][j] = "ended"
    BY <1>6, <1>7, <1>8, <2>3
  <2>6. QED
    BY <1>4, <2>1, <2>4, <2>5 DEF UnderWayPcs, MemPcs
<1>g. CASE RunRelease(w, j)
  <2>1. run[w][j] = "ended"
    BY <1>2, <1>g DEF RunRelease
  <2>2. RemoveLock(j) /\ Leave(w, j, "none") /\ UNCHANGED <<file, age>>
    BY <1>g, <2>1 DEF RunRelease
  <2>3. run'[w][j] = "none" /\ mem'[w][j] = NoRec
    BY <1>9, <2>2
  <2>4. QED
    BY <1>1, <1>3, <2>1, <2>2, <2>3, CalmRelease
<1>h. CASE ReapRead(w, j)
  <2>1. run[w][j] = "reap" /\ UNCHANGED <<file, age, lock, lockOld, robbed>>
    BY <1>h DEF ReapRead
  <2>2. file[j].status = "running" /\ age[j] < 2
    BY <1>2, <2>1 DEF UnderWayPcs
  <2>3. mem'[w][j] = file[j] /\ run'[w][j] = "reaped"
    BY <1>7, <1>8, <1>h, <2>2 DEF ReapRead
  <2>4. QED
    BY <1>2, <1>4, <2>1, <2>2, <2>3 DEF UnderWayPcs, MemPcs
<1>i. CASE ReapSave(w, j)
  <2> DEFINE rec == Reaped(mem[w][j])
  <2>1. /\ run[w][j] = "reaped" /\ UNCHANGED <<mem, lock, lockOld, robbed>>
        /\ Save(j, rec) /\ GoTo(w, j, "unlock")
    BY <1>i DEF ReapSave
  <2>2. rec.status # "running" /\ ~rec.cancelRequested
    BY <1>2, <1>5, <1>10 DEF Reaped
  <2> HIDE DEF rec
  <2>3. file'[j] = rec /\ run'[w][j] = "unlock"
    BY <1>6, <1>8, <2>1
  <2>4. QED
    BY <1>2, <1>4, <2>1, <2>2, <2>3 DEF UnderWayPcs, MemPcs
<1>j. CASE ReapRelease(w, j)
  <2>1. /\ run[w][j] = "unlock" /\ RemoveLock(j) /\ Leave(w, j, "none")
        /\ UNCHANGED <<file, age>>
    BY <1>j DEF ReapRelease
  <2>2. run'[w][j] = "none" /\ mem'[w][j] = NoRec
    BY <1>9, <2>1
  <2>3. QED
    BY <1>1, <1>3, <2>1, <2>2, CalmRelease
<1>k. CASE RunCancelled(w, j)
  BY <1>2, <1>k DEF RunCancelled
<1>l. QED
  BY <1>a, <1>b, <1>c, <1>d, <1>e, <1>f, <1>g, <1>h, <1>i, <1>j, <1>k DEF RunStep

-----------------------------------------------------------------------------

LEMMA CalmInductive == NoFaults /\ CalmInv /\ [Next]_vars => CalmInv'
<1> SUFFICES ASSUME NoFaults, CalmInv, [Next]_vars PROVE CalmInv'
  OBVIOUS
<1>1. CASE UNCHANGED vars
  <2>1. TypeOK'
    BY <1>1 DEF CalmInv, TypeOK, vars, store, locks, runs, webs
  <2>2. QED
    BY <1>1, <2>1 DEF CalmInv, NeverRobbed, ProcsLive, NoSteals, LocksFresh, Owned, Owner,
       OneRole, Recorded, RunningHeld, NoCancels, MadeFirst, Owns, Claiming,
       vars, store, locks, runs, webs
<1>2. CASE Next
  <2>1. \A w \in Workers : ~Crash(w)
    BY DEF Crash, NoFaults, CalmInv, TypeOK
  <2>2. \A w \in Workers, j \in Jobs : ~CrashChild(w, j)
    BY NothingOld
  <2>3. \A j \in Jobs : WorldStep(j) => CalmInv'
    BY CalmWorld
  <2>4. \A w \in Workers : Start(w) \/ ClaimList(w) \/ ClaimNone(w) => CalmInv'
    BY CalmStart, CalmClaim
  <2>5. \A w \in Workers, j \in Jobs : SchedStep(w, j) \/ RunStep(w, j) => CalmInv'
    BY CalmSchedStep, CalmRunStep
  <2>6. QED
    BY <1>2, <2>1, <2>2, <2>3, <2>4, <2>5 DEF Next
<1>3. QED
  BY <1>1, <1>2

LEMMA CalmAlways == ASSUME NoFaults PROVE Spec => []CalmInv
<1>1. Init => CalmInv
  <2> SUFFICES ASSUME Init PROVE CalmInv
    OBVIOUS
  <2>1. TypeOK
    BY TypeOKInit
  <2>2. QED
    BY <2>1 DEF Init, CalmInv, NeverRobbed, ProcsLive, NoSteals, LocksFresh, Owned, Owner,
       OneRole, Recorded, RunningHeld, NoCancels, MadeFirst, Owns, Claiming, IdleSched, NoRec,
       UnderWayPcs, MemPcs
<1>2. CalmInv /\ [Next]_vars => CalmInv'
  BY CalmInductive
<1>3. QED
  BY <1>1, <1>2, PTL DEF Spec

\* Without faults no lock is ever removed from under the process that relies on
\* it: acquireJobLock never steals, recoverStaleRunningJobs never recovers, and
\* every release is by the owner.
THEOREM FaultlessNeverRobbed == ASSUME NoFaults PROVE Spec => []NeverRobbed
<1>1. CalmInv => NeverRobbed
  BY DEF CalmInv
<1>2. QED
  BY <1>1, CalmAlways, PTL

\* Without faults no job is executed by two workers at a time, however many
\* workers share the workspace and however often jobs are retried.
THEOREM FaultlessExclusive == ASSUME NoFaults PROVE Spec => []ExclusiveRun
<1>1. CalmInv => ExclusiveRun
  BY DEF CalmInv, Owned, Owns, ExclusiveRun, Executing, ExecPcs
<1>2. QED
  BY <1>1, CalmAlways, PTL

\* Without faults no error path leaves a lock behind: a lock file belongs to a
\* live worker that is claiming or running the job.
THEOREM FaultlessLockNotLeaked == ASSUME NoFaults PROVE Spec => []LockNotLeaked
<1>1. CalmInv => LockNotLeaked
  BY SetsAssumption DEF CalmInv, Owner, Owns, LockNotLeaked
<1>2. QED
  BY <1>1, CalmAlways, PTL

\* Without faults a job that says running is being run by a live worker, or its
\* parent is about to record how the child ended.
THEOREM FaultlessRunningIsOwned == ASSUME NoFaults PROVE Spec => []RunningIsOwned
<1>1. CalmInv => RunningIsOwned
  <2> SUFFICES ASSUME CalmInv, NEW j \in Jobs, file[j].status = "running"
      PROVE  \E w \in Workers : run[w][j] # "none" /\ Alive(w, j)
    BY DEF RunningIsOwned
  <2>1. PICK w \in Workers : run[w][j] # "none"
    BY DEF CalmInv, RunningHeld
  <2>2. proc[w] = "up"
    BY <2>1 DEF CalmInv, TypeOK, ProcsLive
  <2>3. QED
    BY <2>1, <2>2 DEF Alive
<1>2. QED
  BY <1>1, CalmAlways, PTL

-----------------------------------------------------------------------------
(* One worker at a time *)

WorkersDie == "worker" \in Mortal /\ MaxCrashes > 0

\* One worker at a time, no user who cancels or deletes, and runs that save
\* more often than the limits of recoverStaleRunningJobs ask for: the grace of
\* a dead lock where workers may die, the whole limit where they do not.
OneAtATime ==
  /\ SingleWorker
  /\ SilentAge = 0 \/ (SilentAge = 1 /\ ~WorkersDie)
  /\ Cancellable = {} /\ Deletable = {}

\* The parts of a run that count as having the job in hand; the cancelled part
\* is not reached here.
HeldPcs == {"spawn", "start", "check", "work", "finish", "fail"}

\* The scheduler between the candidate it has read and the end of the claim.
ClaimPcs == {"lock", "exists", "steal", "create", "resave", "claim"}

\* The invariant, in parts.  One process at most is up, and the others have
\* nothing but the children that outlived them.
Alone ==
  /\ \A v, w \in Workers : proc[v] = "up" /\ proc[w] = "up" => v = w
  /\ \A w \in Workers :
       /\ proc[w] = "dead" => WorkersDie
       /\ proc[w] # "up" => /\ sched[w] = IdleSched
                            /\ \A j \in Jobs : run[w][j] # "none" =>
                                 proc[w] = "dead" /\ InChild(w, j)
\* Nobody cancels, no handler throws, and no file appears before createJob.
Calm ==
  /\ \A j \in Jobs :
       /\ web[j] = "idle" /\ ~file[j].cancelRequested
       /\ file[j].status \in {"none", "queued", "running", "succeeded", "failed"}
       /\ j \notin made => file[j] = NoRec
       /\ j \in made => file[j].status # "none"
  /\ \A w \in Workers, j \in Jobs : run[w][j] \notin {"cancelled", "thrown"}
\* Who has a job in hand holds in memory what the file says.
InStep ==
  \A w \in Workers, j \in Jobs : run[w][j] \in HeldPcs \cup {"reaped"} =>
    file[j].status = "running" /\ mem[w][j] = file[j]
\* A job is in one hand, and its worker knows; a child about to release a lock
\* may go on beside the next run.
Apart ==
  \A v, w \in Workers, j \in Jobs :
    /\ run[v][j] \in HeldPcs /\ run[w][j] # "none"
    /\ proc[w] = "up" \/ run[w][j] \in HeldPcs
    => v = w
\* What the claim loop has read is still so.
Listed ==
  \A w \in Workers :
    /\ \A j \in sched[w].cands : run[w][j] = "none"
    /\ \A j \in Jobs : sched[w].pc \in ClaimPcs /\ sched[w].job = j =>
         run[w][j] = "none" /\ sched[w].rec = file[j] /\ file[j].status = "queued"
\* ... and so is what the recovery has read.
Recovering ==
  \A w \in Workers, j \in Jobs :
    sched[w].pc \in {"release", "recover"} /\ sched[w].job = j =>
      /\ file[j].status = "running" /\ sched[w].rec = [file[j] EXCEPT !.status = "failed"]
      /\ \A v \in Workers : run[v][j] = "none"
\* The record of a job that is being run is never old enough for the recovery.
Fresh ==
  \A w \in Workers, j \in Jobs :
    run[w][j] # "none" /\ file[j].status = "running" => age[j] <= SilentAge
\* Every job that is to begin an attempt has one left.
Tries ==
  \A j \in Jobs :
    /\ file[j].attempts <= MaxAttempts
    /\ file[j].status = "queued" \/ (\E w \in Workers : run[w][j] \in {"spawn", "start"})
         => file[j].attempts < MaxAttempts

SoloInv ==
  TypeOK /\ Alone /\ Calm /\ InStep /\ Apart /\ Listed /\ Recovering /\ Fresh /\ Tries

-----------------------------------------------------------------------------
(* The state of JobLifecycle that a state of the queue stands for *)

\* A step that JobLifecycle can make too, or does not see.
Refines == Lifecycle!Next \/ UNCHANGED Lifecycle!vars

\* Whoever has anything of a job is alive.
LEMMA RunsAlive ==
  ASSUME SoloInv, NEW w \in Workers, NEW j \in Jobs, run[w][j] # "none"
  PROVE  Alive(w, j)
BY DEF SoloInv, Alone, Alive

LEMMA HoldersAre ==
  ASSUME SoloInv, NEW j \in Jobs
  PROVE  Holders(j) = {w \in Workers : run[w][j] \in HeldPcs}
<1>1. \A w \in Workers : run[w][j] \in HeldPcs => Alive(w, j)
  BY RunsAlive DEF HeldPcs
<1>2. \A w \in Workers : run[w][j] # "cancelled"
  BY DEF SoloInv, Calm
<1>3. QED
  BY <1>1, <1>2 DEF Holders, HeldPcs, Executing, ExecPcs

LEMMA HoldersAreNext ==
  ASSUME SoloInv', NEW j \in Jobs
  PROVE  Holders(j)' = {w \in Workers : run'[w][j] \in HeldPcs}
<1>1. \A w \in Workers : run'[w][j] \in HeldPcs => Alive(w, j)'
  BY DEF SoloInv, Alone, Alive, HeldPcs
<1>2. \A w \in Workers : run'[w][j] # "cancelled"
  BY DEF SoloInv, Calm
<1>3. QED
  BY <1>1, <1>2 DEF Holders, HeldPcs, Executing, ExecPcs

\* A job in one hand.
LEMMA OneHolder ==
  ASSUME SoloInv, NEW w \in Workers, NEW j \in Jobs, run[w][j] \in HeldPcs
  PROVE  /\ Holders(j) = {w}
         /\ \A v \in Workers : run[v][j] # "none" /\ proc[v] = "up" => v = w
         /\ \A v \in Workers : run[v][j] \in HeldPcs => v = w
<1>1. run[w][j] # "none"
  BY DEF HeldPcs
<1>2. \A v \in Workers : run[v][j] \in HeldPcs => v = w
  BY <1>1 DEF SoloInv, Apart
<1>3. QED
  BY <1>2, HoldersAre DEF SoloInv, Apart

\* Nobody else writes the file of a job that is in hand or being reaped.
LEMMA OneWriter ==
  ASSUME SoloInv, NEW w \in Workers, NEW j \in Jobs, run[w][j] \in HeldPcs \cup {"reaped"},
         NEW v \in Workers, v # w
  PROVE  /\ run[v][j] \notin HeldPcs \cup {"reaped"}
         /\ sched[v].pc \in ClaimPcs \cup {"release", "recover"} => sched[v].job # j
<1>1. file[j].status = "running" /\ run[w][j] # "none"
  BY DEF SoloInv, InStep, HeldPcs
<1>2. \A u \in Workers : run[u][j] = "reaped" => proc[u] = "up"
  BY DEF SoloInv, Alone, InChild, ChildPcs
<1>3. run[v][j] \notin HeldPcs \cup {"reaped"}
  <2>1. ASSUME run[v][j] \in HeldPcs PROVE FALSE
    BY <1>1, <1>2, <2>1 DEF SoloInv, Apart
  <2>2. ASSUME run[v][j] = "reaped" PROVE FALSE
    <3>1. proc[v] = "up"
      BY <1>2, <2>2
    <3>2. CASE run[w][j] \in HeldPcs
      BY <2>2, <3>1, <3>2 DEF SoloInv, Apart
    <3>3. CASE run[w][j] = "reaped"
      BY <1>2, <3>1, <3>3 DEF SoloInv, Alone
    <3>4. QED
      BY <3>2, <3>3
  <2>3. QED
    BY <2>1, <2>2
<1>4. sched[v].pc \in ClaimPcs => sched[v].job # j
  BY <1>1 DEF SoloInv, Listed
<1>5. sched[v].pc \in {"release", "recover"} => sched[v].job # j
  BY <1>1 DEF SoloInv, Recovering
<1>6. QED
  BY <1>3, <1>4, <1>5

\* The steps of JobLifecycle in terms of the state they are mapped from.
LEMMA AbstractSteps ==
  ASSUME NEW w \in Workers, NEW j \in Jobs
  PROVE  /\ (/\ Status[j] = "queued" /\ HeldBy[j] = {}
             /\ Status' = [Status EXCEPT ![j] = "running"]
             /\ Attempts' = Attempts
             /\ HeldBy' = [HeldBy EXCEPT ![j] = {w}]) => Refines
         /\ (/\ Status[j] = "running" /\ HeldBy[j] = {w} /\ Attempts[j] < MaxAttempts
             /\ Attempts' = [Attempts EXCEPT ![j] = Attempts[j] + 1]
             /\ Status' = Status /\ HeldBy' = HeldBy) => Refines
         /\ (/\ Status[j] = "running" /\ HeldBy[j] = {w} /\ Attempts[j] < MaxAttempts
             /\ Status' = [Status EXCEPT ![j] = "queued"]
             /\ Attempts' = Attempts
             /\ HeldBy' = [HeldBy EXCEPT ![j] = {}]) => Refines
         /\ (/\ Status[j] = "running" /\ HeldBy[j] = {w}
             /\ \E s \in {"succeeded", "failed"} : Status' = [Status EXCEPT ![j] = s]
             /\ Attempts' = Attempts
             /\ HeldBy' = [HeldBy EXCEPT ![j] = {}]) => Refines
         /\ (/\ Status' = Status /\ Attempts' = Attempts
             /\ HeldBy' = [i \in Jobs |-> IF i \in {j} THEN {} ELSE HeldBy[i]]) => Refines
         /\ (/\ Status[j] = "running" /\ HeldBy[j] = {}
             /\ Status' = [Status EXCEPT ![j] = "failed"]
             /\ Attempts' = Attempts /\ HeldBy' = HeldBy) => Refines
         /\ (Status' = Status /\ Attempts' = Attempts /\ HeldBy' = HeldBy) => Refines
<1>1. Lifecycle!Declare(j) => Refines
  BY DEF Refines, Lifecycle!Next
<1>2. (\/ Lifecycle!Take(w, j) \/ Lifecycle!Begin(w, j)
       \/ Lifecycle!GiveBack(w, j) \/ Lifecycle!Settle(w, j)) => Refines
  BY DEF Refines, Lifecycle!Next
<1>3. Lifecycle!Lose({j}) => Refines
  BY DEF Refines, Lifecycle!Next
<1>4. Status' = Status /\ Attempts' = Attempts /\ HeldBy' = HeldBy => Refines
  BY DEF Refines, Lifecycle!vars
<1>5. QED
  BY <1>1, <1>2, <1>3, <1>4 DEF Lifecycle!Take, Lifecycle!Begin,
     Lifecycle!GiveBack, Lifecycle!Settle, Lifecycle!Lose, Lifecycle!Declare

\* What leaves files and runs alone, JobLifecycle does not see.
LEMMA RefinesQuietly ==
  ASSUME SoloInv, SoloInv', UNCHANGED <<file, run>>
  PROVE  Refines
<1>1. \A j \in Jobs : Holders(j)' = Holders(j)
  <2> TAKE j \in Jobs
  <2>1. Holders(j)' = {w \in Workers : run'[w][j] \in HeldPcs}
    BY HoldersAreNext
  <2>2. QED
    BY <2>1, HoldersAre
<1>2. QED
  BY <1>1 DEF Refines, Lifecycle!vars, Status, Attempts, HeldBy

\* A step about the run of j in w changes what the file and the holders of j
\* are, and nothing else.
LEMMA MapsTo ==
  ASSUME SoloInv, SoloInv', NEW w \in Workers, NEW j \in Jobs,
         run[w][j] \in HeldPcs \/ run'[w][j] \in HeldPcs
           => \A v \in Workers \ {w} : run[v][j] \notin HeldPcs,
         \A v \in Workers, i \in Jobs : v # w \/ i # j => run'[v][i] = run[v][i],
         \A i \in Jobs \ {j} : file'[i] = file[i]
  PROVE  /\ Status' = [Status EXCEPT ![j] = file'[j].status]
         /\ Attempts' = [Attempts EXCEPT ![j] = file'[j].attempts]
         /\ run'[w][j] \in HeldPcs => HeldBy' = [HeldBy EXCEPT ![j] = {w}]
         /\ run[w][j] \in HeldPcs => HeldBy[j] = {w}
         /\ run[w][j] \in HeldPcs /\ run'[w][j] \notin HeldPcs
              => HeldBy' = [HeldBy EXCEPT ![j] = {}]
         /\ (run[w][j] \in HeldPcs <=> run'[w][j] \in HeldPcs) => HeldBy' = HeldBy
<1>1. Status' = [Status EXCEPT ![j] = file'[j].status]
      /\ Attempts' = [Attempts EXCEPT ![j] = file'[j].attempts]
  BY DEF Status, Attempts
<1>2. \A i \in Jobs : Holders(i)' = {v \in Workers : run'[v][i] \in HeldPcs}
  BY HoldersAreNext
<1>3. \A i \in Jobs : Holders(i) = {v \in Workers : run[v][i] \in HeldPcs}
  BY HoldersAre
<1>4. \A i \in Jobs \ {j} : Holders(i)' = Holders(i)
  <2> SUFFICES ASSUME NEW i \in Jobs \ {j} PROVE Holders(i)' = Holders(i)
    OBVIOUS
  <2>1. {v \in Workers : run'[v][i] \in HeldPcs} = {v \in Workers : run[v][i] \in HeldPcs}
    OBVIOUS
  <2>2. QED
    BY <1>2, <1>3, <2>1
<1>5. HeldBy' = [HeldBy EXCEPT ![j] = Holders(j)'] /\ HeldBy[j] = Holders(j)
  BY <1>4 DEF HeldBy
<1>6. run'[w][j] \in HeldPcs => Holders(j)' = {w}
  BY <1>2
<1>7. run[w][j] \in HeldPcs => Holders(j) = {w}
  BY <1>3
<1>8. run[w][j] \in HeldPcs /\ run'[w][j] \notin HeldPcs => Holders(j)' = {}
  BY <1>2
<1>9. (run[w][j] \in HeldPcs <=> run'[w][j] \in HeldPcs) => Holders(j)' = Holders(j)
  <2>1. (run[w][j] \in HeldPcs <=> run'[w][j] \in HeldPcs)
          => {v \in Workers : run'[v][j] \in HeldPcs} = {v \in Workers : run[v][j] \in HeldPcs}
    OBVIOUS
  <2>2. QED
    BY <1>2, <1>3, <2>1
<1>10. HeldBy = [HeldBy EXCEPT ![j] = Holders(j)]
  BY DEF HeldBy
<1>11. QED
  BY <1>1, <1>5, <1>6, <1>7, <1>8, <1>9, <1>10

-----------------------------------------------------------------------------
(* Three shapes of steps *)

\* Nothing moves but the scheduler of the worker that is up; a save of what the
\* file says already makes it younger.
LEMMA SoloSched ==
  ASSUME SoloInv, TypeOK', NEW w \in Workers, proc[w] = "up",
         UNCHANGED <<made, file, proc, run, mem, web>>,
         \A i \in Jobs : age'[i] = age[i] \/ age'[i] = 0,
         \A v \in Workers \ {w} : sched'[v] = sched[v],
         \A i \in sched'[w].cands : run[w][i] = "none",
         \A i \in Jobs : sched'[w].pc \in ClaimPcs /\ sched'[w].job = i =>
            run[w][i] = "none" /\ sched'[w].rec = file[i] /\ file[i].status = "queued",
         \A i \in Jobs : sched'[w].pc \in {"release", "recover"} /\ sched'[w].job = i =>
            /\ file[i].status = "running"
            /\ sched'[w].rec = [file[i] EXCEPT !.status = "failed"]
            /\ \A v \in Workers : run[v][i] = "none"
  PROVE  SoloInv' /\ Refines
<1> USE DEF SoloInv
<1>1. Alone'
  BY DEF Alone, InChild
<1>2. Calm' /\ InStep' /\ Apart' /\ Tries'
  BY DEF Calm, InStep, Apart, Tries
<1>3. Listed'
  BY DEF Listed
<1>4. Recovering'
  BY DEF Recovering
<1>5. Fresh'
  <2> SUFFICES ASSUME NEW v \in Workers, NEW i \in Jobs,
                      run[v][i] # "none", file[i].status = "running"
      PROVE  age'[i] <= SilentAge
    BY DEF Fresh
  <2>1. age[i] <= SilentAge /\ SilentAge \in 0..2
    BY BoundsAssumption DEF Fresh
  <2>2. QED
    BY <2>1
<1>6. SoloInv'
  BY <1>1, <1>2, <1>3, <1>4, <1>5
<1>7. QED
  BY <1>6, RefinesQuietly

\* The run of j in w, or its parent, moves on.
LEMMA SoloRun ==
  ASSUME SoloInv, TypeOK', NEW w \in Workers, NEW j \in Jobs,
         run[w][j] # "none", UNCHANGED <<made, proc, sched, web>>,
         \A v \in Workers, i \in Jobs : v # w \/ i # j =>
            run'[v][i] = run[v][i] /\ mem'[v][i] = mem[v][i],
         \A i \in Jobs \ {j} : file'[i] = file[i] /\ age'[i] = age[i],
         age'[j] = 0 \/ (file'[j] = file[j] /\ age'[j] = age[j]),
         file'[j] # file[j] => run[w][j] \in HeldPcs \cup {"reaped"},
         ~file'[j].cancelRequested,
         file'[j] = file[j] \/ file'[j].status \in {"queued", "running", "succeeded", "failed"},
         proc[w] # "up" => run'[w][j] \in ChildPcs \cup {"none"},
         run'[w][j] \notin {"cancelled", "thrown"},
         run'[w][j] \in HeldPcs => run[w][j] \in HeldPcs,
         run'[w][j] \in HeldPcs \cup {"reaped"} =>
            file'[j].status = "running" /\ mem'[w][j] = file'[j],
         file'[j].attempts <= MaxAttempts,
         file'[j].status = "queued" \/ run'[w][j] \in {"spawn", "start"}
            => file'[j].attempts < MaxAttempts
  PROVE  SoloInv'
<1> USE DEF SoloInv
<1>0. \A v \in Workers : run'[v][j] # "none" => run[v][j] # "none"
  OBVIOUS
<1>1. Alone'
  <2>1. proc[w] # "up" => j \in Training
    BY DEF Alone, InChild
  <2>2. QED
    BY <1>0, <2>1 DEF Alone, InChild
<1>2. Calm'
  <2>1. file'[j] # file[j] => j \in made
    BY DEF InStep, Calm, NoRec
  <2>2. QED
    BY <2>1 DEF Calm
<1>3. InStep'
  <2> SUFFICES ASSUME NEW v \in Workers, NEW i \in Jobs,
                      run'[v][i] \in HeldPcs \cup {"reaped"}
      PROVE  file'[i].status = "running" /\ mem'[v][i] = file'[i]
    BY DEF InStep
  <2>1. CASE v = w /\ i = j
    BY <2>1
  <2>2. CASE i # j
    BY <2>2 DEF InStep
  <2>3. CASE v # w /\ i = j
    <3>1. run[v][j] \in HeldPcs \cup {"reaped"}
      BY <2>3
    <3>2. file'[j] = file[j]
      BY <2>3, <3>1, OneWriter
    <3>3. QED
      BY <2>3, <3>1, <3>2 DEF InStep
  <2>4. QED
    BY <2>1, <2>2, <2>3
<1>4. Apart'
  BY DEF Apart, HeldPcs
<1>5. Listed'
  <2> SUFFICES ASSUME NEW v \in Workers
      PROVE  /\ \A i \in sched[v].cands : run'[v][i] = "none"
             /\ \A i \in Jobs : sched[v].pc \in ClaimPcs /\ sched[v].job = i =>
                  run'[v][i] = "none" /\ sched[v].rec = file'[i] /\ file'[i].status = "queued"
    BY DEF Listed
  <2>1. \A i \in sched[v].cands : run'[v][i] = "none"
    <3>1. sched[v].cands \subseteq Jobs
      BY DEF TypeOK
    <3>2. QED
      BY <3>1 DEF Listed
  <2>2. ASSUME NEW i \in Jobs, sched[v].pc \in ClaimPcs, sched[v].job = i
        PROVE  run'[v][i] = "none" /\ sched[v].rec = file'[i] /\ file'[i].status = "queued"
    <3>1. run[v][i] = "none" /\ sched[v].rec = file[i] /\ file[i].status = "queued"
      BY <2>2 DEF Listed
    <3>2. v # w \/ i # j
      BY <3>1
    <3>3. file'[i] = file[i]
      <4>1. CASE i = j
        BY <2>2, <3>1, <4>1 DEF InStep
      <4>2. QED
        BY <4>1
    <3>4. QED
      BY <3>1, <3>2, <3>3
  <2>3. QED
    BY <2>1, <2>2
<1>6. Recovering'
  <2> SUFFICES ASSUME NEW v \in Workers, NEW i \in Jobs,
                      sched[v].pc \in {"release", "recover"}, sched[v].job = i
      PROVE  /\ file'[i].status = "running"
             /\ sched[v].rec = [file'[i] EXCEPT !.status = "failed"]
             /\ \A u \in Workers : run'[u][i] = "none"
    BY DEF Recovering
  <2>1. /\ file[i].status = "running" /\ sched[v].rec = [file[i] EXCEPT !.status = "failed"]
        /\ \A u \in Workers : run[u][i] = "none"
    BY DEF Recovering
  <2>2. i # j
    BY <2>1
  <2>3. QED
    BY <2>1, <2>2
<1>7. Fresh'
  <2> SUFFICES ASSUME NEW v \in Workers, NEW i \in Jobs,
                      run'[v][i] # "none", file'[i].status = "running"
      PROVE  age'[i] <= SilentAge
    BY DEF Fresh
  <2>1. SilentAge \in 0..2 /\ run[v][i] # "none"
    BY BoundsAssumption
  <2>2. CASE i # j
    BY <2>1, <2>2 DEF Fresh
  <2>3. CASE i = j /\ file'[j] = file[j] /\ age'[j] = age[j]
    BY <2>1, <2>3 DEF Fresh
  <2>4. CASE i = j /\ age'[j] = 0
    BY <2>1, <2>4
  <2>5. QED
    BY <2>2, <2>3, <2>4
<1>8. Tries'
  <2> SUFFICES ASSUME NEW i \in Jobs
      PROVE  /\ file'[i].attempts <= MaxAttempts
             /\ file'[i].status = "queued" \/ (\E v \in Workers : run'[v][i] \in {"spawn", "start"})
                  => file'[i].attempts < MaxAttempts
    BY DEF Tries
  <2>1. CASE i # j
    BY <2>1 DEF Tries
  <2>2. CASE i = j
    <3>1. ASSUME NEW v \in Workers, run'[v][j] \in {"spawn", "start"}
          PROVE  file'[j].attempts < MaxAttempts
      <4>1. CASE v = w
        BY <3>1, <4>1
      <4>2. CASE v # w
        <5>1. run[v][j] \in HeldPcs /\ run[v][j] \in {"spawn", "start"}
          BY <3>1, <4>2 DEF HeldPcs
        <5>2. file'[j] = file[j]
          BY <4>2, <5>1, OneWriter
        <5>3. QED
          BY <5>1, <5>2 DEF Tries
      <4>3. QED
        BY <4>1, <4>2
    <3>2. QED
      BY <2>2, <3>1
  <2>3. QED
    BY <2>1, <2>2
<1>9. QED
  BY <1>1, <1>2, <1>3, <1>4, <1>5, <1>6, <1>7, <1>8

-----------------------------------------------------------------------------
(* The steps *)

LEMMA SoloWorld ==
  ASSUME OneAtATime, SoloInv, NEW j \in Jobs, WorldStep(j)
  PROVE  SoloInv' /\ Refines
<1> USE DEF store, locks, runs, webs
<1>0. TypeOK'
  BY TypeOKWorld DEF SoloInv
<1>1. CASE RecordAges(j)
  <2>1. /\ UNCHANGED <<made, file, proc, sched, run, mem, web>>
        /\ age' = [age EXCEPT ![j] = age[j] + 1] /\ age[j] \in 0..2
        /\ Abandoned(j) \/ age[j] < SilentAge
    BY <1>1 DEF RecordAges, SoloInv, TypeOK
  <2>2. Fresh'
    <3> SUFFICES ASSUME NEW w \in Workers, NEW i \in Jobs,
                        run[w][i] # "none", file[i].status = "running"
        PROVE  age'[i] <= SilentAge
      BY <2>1 DEF Fresh
    <3>1. age[i] <= SilentAge /\ SilentAge \in 0..2
      BY BoundsAssumption DEF SoloInv, Fresh
    <3>2. CASE i = j
      <4>1. Alive(w, i)
        BY RunsAlive
      <4>2. age[j] < SilentAge
        BY <2>1, <3>2, <4>1 DEF Abandoned
      <4>3. age'[j] = age[j] + 1
        BY <2>1 DEF SoloInv, TypeOK
      <4>4. QED
        BY <2>1, <3>1, <3>2, <4>2, <4>3
    <3>3. CASE i # j
      BY <2>1, <3>1, <3>3 DEF SoloInv, TypeOK
    <3>4. QED
      BY <3>2, <3>3
  <2>3. Alone' /\ Calm' /\ InStep' /\ Apart' /\ Listed' /\ Recovering' /\ Tries'
    BY <2>1 DEF SoloInv, Alone, InChild, Calm, InStep, Apart, Listed, Recovering, Tries
  <2>4. SoloInv'
    BY <1>0, <2>2, <2>3 DEF SoloInv
  <2>5. QED
    BY <2>1, <2>4, RefinesQuietly
<1>2. CASE LockAges(j)
  <2>1. UNCHANGED <<made, file, age, proc, sched, run, mem, web>>
    BY <1>2 DEF LockAges
  <2>2. SoloInv'
    BY <1>0, <2>1 DEF SoloInv, Alone, InChild, Calm, InStep, Apart, Listed, Recovering,
       Fresh, Tries
  <2>3. QED
    BY <2>1, <2>2, RefinesQuietly
<1>3. CASE Submit(j)
  <2>1. /\ j \notin made /\ made' = made \cup {j}
        /\ file'[j] = NewJob /\ age'[j] = 0
        /\ \A i \in Jobs \ {j} : file'[i] = file[i] /\ age'[i] = age[i]
        /\ UNCHANGED <<proc, sched, run, mem, web>>
    BY <1>3 DEF Submit, Save, SoloInv, TypeOK
  <2>2. file[j].status = "none" /\ file[j].attempts = 0
    BY <2>1 DEF SoloInv, Calm, NoRec
  <2>3. NewJob.status = "queued" /\ NewJob.attempts = 0 /\ ~NewJob.cancelRequested
    BY DEF NewJob
  <2>4. /\ \A w \in Workers : run[w][j] \notin HeldPcs \cup {"reaped"}
        /\ \A w \in Workers : sched[w].pc \in ClaimPcs \cup {"release", "recover"}
             => sched[w].job # j
    BY <2>2 DEF SoloInv, InStep, Listed, Recovering
  <2>5. Alone' /\ Calm' /\ Apart'
    BY <2>1, <2>3 DEF SoloInv, Alone, InChild, Calm, Apart
  <2>6. InStep' /\ Recovering'
    BY <2>1, <2>4 DEF SoloInv, InStep, Recovering
  <2>7. Listed'
    BY <2>1, <2>4 DEF SoloInv, Listed
  <2>8. Fresh' /\ Tries'
    BY <2>1, <2>3, BoundsAssumption DEF SoloInv, Fresh, Tries
  <2>9. SoloInv'
    BY <1>0, <2>5, <2>6, <2>7, <2>8 DEF SoloInv
  <2>10. UNCHANGED HeldBy
    <3>1. \A i \in Jobs : Holders(i)' = Holders(i)
      BY <2>1 DEF Holders, Executing, Alive, InChild
    <3>2. QED
      BY <3>1 DEF HeldBy
  <2>11. /\ Status[j] = "none" /\ Status' = [Status EXCEPT ![j] = "queued"]
         /\ Attempts' = Attempts
    BY <2>1, <2>2, <2>3 DEF Status, Attempts
  <2>12. Lifecycle!Submit(j)
    BY <2>10, <2>11 DEF Lifecycle!Submit
  <2>13. QED
    BY <2>9, <2>12 DEF Refines, Lifecycle!Next
<1>4. CASE CancelRead(j) \/ CancelSave(j) \/ Delete(j)
  BY <1>4 DEF OneAtATime, CancelRead, CancelSave, Delete, SoloInv, Calm
<1>5. QED
  BY <1>1, <1>2, <1>3, <1>4 DEF WorldStep

LEMMA SoloStart ==
  ASSUME OneAtATime, SoloInv, NEW w \in Workers, Start(w)
  PROVE  SoloInv' /\ Refines
<1>0. TypeOK'
  BY TypeOKProc DEF SoloInv
<1>1. /\ UNCHANGED <<made, file, age, sched, run, mem, web>>
      /\ proc' = [proc EXCEPT ![w] = "up"] /\ \A v \in Workers : proc[v] # "up"
      /\ proc[w] = "new"
  BY DEF Start, store, runs, webs, OneAtATime
<1>2. \A i \in Jobs : run[w][i] = "none"
  BY <1>1 DEF SoloInv, Alone
<1>3. Alone' /\ Apart'
  BY <1>1, <1>2 DEF SoloInv, TypeOK, Alone, InChild, Apart
<1>4. Calm' /\ InStep' /\ Listed' /\ Recovering' /\ Fresh' /\ Tries'
  BY <1>1 DEF SoloInv, Calm, InStep, Listed, Recovering, Fresh, Tries
<1>5. SoloInv'
  BY <1>0, <1>3, <1>4 DEF SoloInv
<1>6. QED
  BY <1>1, <1>5, RefinesQuietly

\* What a crash takes with it, JobLifecycle loses.
LEMMA SoloCrash ==
  ASSUME SoloInv, NEW w \in Workers, Crash(w)
  PROVE  SoloInv' /\ Refines
<1>0. TypeOK'
  BY TypeOKProc DEF SoloInv
<1>1. /\ UNCHANGED <<made, file, age, web>>
      /\ proc[w] = "up" /\ proc' = [proc EXCEPT ![w] = "dead"]
      /\ "worker" \in Mortal /\ crashes < MaxCrashes
      /\ sched' = [sched EXCEPT ![w] = IdleSched]
  BY DEF Crash, store, webs
<1>2. \A i \in Jobs :
        /\ run'[w][i] = IF InChild(w, i) THEN run[w][i] ELSE "none"
        /\ InChild(w, i) => mem'[w][i] = mem[w][i]
        /\ \A v \in Workers \ {w} : run'[v][i] = run[v][i] /\ mem'[v][i] = mem[v][i]
  BY DEF Crash, SoloInv, TypeOK
<1>3. WorkersDie
  BY <1>1, BoundsAssumption DEF SoloInv, TypeOK, WorkersDie
<1>4. /\ proc'[w] = "dead" /\ sched'[w] = IdleSched
      /\ \A v \in Workers \ {w} : proc'[v] = proc[v] /\ sched'[v] = sched[v]
  BY <1>1 DEF SoloInv, TypeOK
<1>5. Alone'
  <2>1. \A u, v \in Workers : proc'[u] = "up" /\ proc'[v] = "up" => u = v
    BY <1>4 DEF SoloInv, Alone
  <2>2. ASSUME NEW v \in Workers, proc'[v] # "up"
        PROVE  /\ sched'[v] = IdleSched
               /\ \A i \in Jobs : run'[v][i] # "none" => proc'[v] = "dead" /\ InChild(v, i)'
    <3>1. CASE v = w
      BY <1>2, <1>4, <3>1 DEF InChild
    <3>2. CASE v # w
      BY <1>2, <1>4, <2>2, <3>2 DEF SoloInv, Alone, InChild
    <3>3. QED
      BY <3>1, <3>2
  <2>3. QED
    BY <1>3, <2>1, <2>2 DEF Alone
<1>6. \A v \in Workers, i \in Jobs :
        run'[v][i] # "none" => run'[v][i] = run[v][i] /\ mem'[v][i] = mem[v][i]
  BY <1>2
<1>7. Calm' /\ Fresh' /\ Tries'
  BY <1>1, <1>6 DEF SoloInv, Calm, Fresh, Tries
<1>8. InStep'
  BY <1>1, <1>6 DEF SoloInv, InStep, HeldPcs
<1>9. Apart'
  BY <1>4, <1>6 DEF SoloInv, Apart, HeldPcs
<1>10. Listed' /\ Recovering'
  <2>1. \A v \in Workers : sched'[v] = sched[v] \/ sched'[v] = IdleSched
    BY <1>4
  <2>2. \A v \in Workers : sched[v].cands \subseteq Jobs
    BY DEF SoloInv, TypeOK
  <2>3. IdleSched.cands = {} /\ IdleSched.pc \notin ClaimPcs \cup {"release", "recover"}
    BY DEF IdleSched, ClaimPcs
  <2>4. \A v \in Workers, i \in Jobs : run[v][i] = "none" => run'[v][i] = "none"
    BY <1>6
  <2>5. QED
    BY <1>1, <2>1, <2>2, <2>3, <2>4 DEF SoloInv, Listed, Recovering
<1>11. SoloInv'
  BY <1>0, <1>5, <1>7, <1>8, <1>9, <1>10 DEF SoloInv
<1> DEFINE S == {i \in Jobs : run[w][i] \in HeldPcs /\ ~InChild(w, i)}
<1>12. HeldBy' = [i \in Jobs |-> IF i \in S THEN {} ELSE HeldBy[i]]
  <2>1. ASSUME NEW i \in Jobs
        PROVE  Holders(i)' = IF i \in S THEN {} ELSE Holders(i)
    <3>1. Holders(i)' = {v \in Workers : run'[v][i] \in HeldPcs}
      BY <1>11, HoldersAreNext
    <3>2. CASE i \in S
      <4>1. \A v \in Workers : run[v][i] \in HeldPcs => v = w
        BY <3>2, OneHolder
      <4>2. run'[w][i] = "none"
        BY <1>2, <3>2
      <4>3. \A v \in Workers : run'[v][i] \notin HeldPcs
        BY <1>2, <4>1, <4>2 DEF HeldPcs
      <4>4. QED
        BY <3>1, <3>2, <4>3
    <3>3. CASE i \notin S
      <4>1. \A v \in Workers : run'[v][i] \in HeldPcs <=> run[v][i] \in HeldPcs
        BY <1>2, <3>3 DEF HeldPcs
      <4>2. {v \in Workers : run'[v][i] \in HeldPcs} = {v \in Workers : run[v][i] \in HeldPcs}
        BY <4>1
      <4>3. QED
        BY <3>1, <3>3, <4>2, HoldersAre
    <3>4. QED
      BY <3>2, <3>3
  <2>2. QED
    BY <2>1 DEF HeldBy
<1>13. S \in SUBSET Jobs /\ Status' = Status /\ Attempts' = Attempts
  BY <1>1 DEF Status, Attempts
<1>14. Lifecycle!Lose(S)
  BY <1>12, <1>13 DEF Lifecycle!Lose
<1>15. QED
  BY <1>11, <1>13, <1>14 DEF Refines, Lifecycle!Next

\* What a step of a run that leaves the files alone stands for.
LEMMA RefinesLoss ==
  ASSUME SoloInv, SoloInv', NEW w \in Workers, NEW j \in Jobs, UNCHANGED file,
         \A v \in Workers, i \in Jobs : v # w \/ i # j => run'[v][i] = run[v][i],
         run'[w][j] \in HeldPcs => run[w][j] \in HeldPcs
  PROVE  Refines
<1>1. /\ Status' = Status /\ Attempts' = Attempts
      /\ run[w][j] \in HeldPcs /\ run'[w][j] \notin HeldPcs
           => HeldBy' = [HeldBy EXCEPT ![j] = {}]
      /\ (run[w][j] \in HeldPcs <=> run'[w][j] \in HeldPcs) => HeldBy' = HeldBy
  <2>1. run[w][j] \in HeldPcs \/ run'[w][j] \in HeldPcs
          => \A v \in Workers \ {w} : run[v][j] \notin HeldPcs
    BY OneHolder
  <2>2. /\ run[w][j] \in HeldPcs /\ run'[w][j] \notin HeldPcs
             => HeldBy' = [HeldBy EXCEPT ![j] = {}]
        /\ (run[w][j] \in HeldPcs <=> run'[w][j] \in HeldPcs) => HeldBy' = HeldBy
    BY <2>1, MapsTo
  <2>3. QED
    BY <2>2 DEF Status, Attempts
<1>2. [HeldBy EXCEPT ![j] = {}] = [i \in Jobs |-> IF i \in {j} THEN {} ELSE HeldBy[i]]
  BY DEF HeldBy
<1>3. QED
  BY <1>1, <1>2, AbstractSteps

LEMMA SoloCrashChild ==
  ASSUME SoloInv, NEW w \in Workers, NEW j \in Jobs, CrashChild(w, j)
  PROVE  SoloInv' /\ Refines
<1>0. TypeOK'
  BY TypeOKProc DEF SoloInv
<1>1. /\ UNCHANGED <<made, file, age, proc, sched, web>>
      /\ run[w][j] # "none" /\ run'[w][j] \in {"reap", "none"}
      /\ proc[w] # "up" => run'[w][j] = "none"
      /\ \A v \in Workers, i \in Jobs : v # w \/ i # j => run'[v][i] = run[v][i]
      /\ \A v \in Workers, i \in Jobs : v # w \/ i # j => mem'[v][i] = mem[v][i]
  BY DEF CrashChild, store, webs, SoloInv, TypeOK, ChildPcs
<1>2. SoloInv'
  BY <1>0, <1>1, SoloRun DEF SoloInv, Calm, Tries, HeldPcs
<1>3. QED
  BY <1>1, <1>2, RefinesLoss DEF HeldPcs

LEMMA SoloClaim ==
  ASSUME SoloInv, NEW w \in Workers, ClaimList(w) \/ ClaimNone(w)
  PROVE  SoloInv' /\ Refines
<1>0. TypeOK'
  BY TypeOKClaim DEF SoloInv
<1>1. /\ UNCHANGED <<made, file, age, proc, run, mem, web>> /\ proc[w] = "up"
      /\ \A v \in Workers \ {w} : sched'[v] = sched[v]
      /\ sched'[w].pc \in {"idle", "scan"}
      /\ sched'[w].cands \subseteq Claimable(w)
  BY DEF ClaimList, ClaimNone, SoloInv, TypeOK, IdleSched, store, runs, webs
<1>2. \A i \in Claimable(w) : run[w][i] = "none"
  BY DEF Claimable, Active
<1>3. QED
  BY <1>0, <1>1, <1>2, SoloSched DEF ClaimPcs

LEMMA SoloSchedStep ==
  ASSUME OneAtATime, SoloInv, NEW w \in Workers, NEW j \in Jobs, SchedStep(w, j)
  PROVE  SoloInv' /\ Refines
<1> USE DEF store, locks, runs, webs
<1>0. TypeOK'
  BY TypeOKSched DEF SoloInv
<1>1. /\ sched \in [Workers -> Sched] /\ sched[w] \in Sched
      /\ file \in [Jobs -> Rec] /\ age \in [Jobs -> 0..2]
      /\ \A i \in sched[w].cands : run[w][i] = "none"
      /\ \A i \in Jobs : sched[w].pc \in ClaimPcs /\ sched[w].job = i =>
           run[w][i] = "none" /\ sched[w].rec = file[i] /\ file[i].status = "queued"
      /\ \A i \in Jobs : sched[w].pc \in {"release", "recover"} /\ sched[w].job = i =>
           /\ file[i].status = "running" /\ sched[w].rec = [file[i] EXCEPT !.status = "failed"]
           /\ \A v \in Workers : run[v][i] = "none"
  <2>1. /\ sched \in [Workers -> Sched] /\ sched[w] \in Sched
        /\ file \in [Jobs -> Rec] /\ age \in [Jobs -> 0..2]
    BY DEF SoloInv, TypeOK, Sched
  <2>2. QED
    BY <2>1 DEF SoloInv, Listed, Recovering
<1>2. proc[w] = "up"
  BY DEF SchedStep, ClaimRead, LockCreate, LockInspect, LockRemove, LockRecreate,
     LockResave, ClaimSave, RecoverRead, RecoverRelease, RecoverSave
<1>3. \A v \in Workers \ {w} : sched[v] = IdleSched /\ proc[v] # "up"
  BY <1>2 DEF SoloInv, Alone
<1>4. /\ \A pc \in SchedPcs : [sched[w] EXCEPT !.pc = pc].pc = pc
      /\ \A pc \in SchedPcs : /\ [sched[w] EXCEPT !.pc = pc].cands = sched[w].cands
                              /\ [sched[w] EXCEPT !.pc = pc].job = sched[w].job
                              /\ [sched[w] EXCEPT !.pc = pc].rec = sched[w].rec
      /\ Scan(w).pc = "scan" /\ Scan(w).cands = sched[w].cands
  BY <1>1 DEF Sched, Scan
<1>5. /\ {"claim", "exists", "steal", "create", "resave"} \subseteq ClaimPcs
      /\ {"scan", "idle", "release", "recover"} \cap ClaimPcs = {} /\ "recover" \notin ClaimPcs
      /\ ClaimPcs \subseteq SchedPcs /\ "claim" \in SchedPcs /\ "recover" \in SchedPcs
  BY DEF ClaimPcs, SchedPcs
<1>a. CASE ClaimRead(w, j)
  <2>1. /\ UNCHANGED <<made, file, age, proc, run, mem, web>>
        /\ \A v \in Workers \ {w} : sched'[v] = sched[v]
        /\ j \in sched[w].cands /\ sched[w].pc = "scan"
    BY <1>a, <1>1 DEF ClaimRead
  <2>2. /\ sched'[w].cands \subseteq sched[w].cands
        /\ \/ /\ sched'[w].pc = "lock" /\ sched'[w].job = j
              /\ sched'[w].rec = file[j] /\ file[j].status = "queued"
           \/ sched'[w].pc = "scan"
    BY <1>a, <1>1 DEF ClaimRead, Sched
  <2>3. QED
    BY <1>0, <1>1, <1>2, <1>5, <2>1, <2>2, SoloSched
<1>b. CASE \/ LockCreate(w, j) \/ LockInspect(w, j) \/ LockRemove(w, j) \/ LockRecreate(w, j)
  <2>1. /\ UNCHANGED <<made, file, age, proc, run, mem, web>>
        /\ \A v \in Workers \ {w} : sched'[v] = sched[v]
        /\ sched[w].pc \in ClaimPcs /\ sched[w].job = j
    BY <1>b, <1>1 DEF LockCreate, LockInspect, LockRemove, LockRecreate, ClaimPcs
  <2>2. \/ \E pc \in ClaimPcs : sched'[w] = [sched[w] EXCEPT !.pc = pc]
        \/ sched'[w] = Scan(w)
    BY <1>b, <1>1, <1>5 DEF LockCreate, LockInspect, LockRemove, LockRecreate
  <2>3. /\ sched'[w].cands = sched[w].cands
        /\ sched'[w].pc \in ClaimPcs \cup {"scan"}
        /\ sched'[w].pc \in ClaimPcs => sched'[w].job = j /\ sched'[w].rec = sched[w].rec
    <3>1. ASSUME NEW pc \in ClaimPcs, sched'[w] = [sched[w] EXCEPT !.pc = pc]
          PROVE  /\ sched'[w].cands = sched[w].cands /\ sched'[w].pc = pc
                 /\ sched'[w].job = j /\ sched'[w].rec = sched[w].rec
      BY <1>4, <1>5, <2>1, <3>1
    <3>2. CASE sched'[w] = Scan(w)
      BY <1>4, <1>5, <3>2
    <3>3. QED
      BY <2>2, <3>1, <3>2
  <2>4. {"release", "recover"} \cap (ClaimPcs \cup {"scan"}) = {}
    BY DEF ClaimPcs
  <2>5. \A i \in Jobs : sched'[w].pc \in ClaimPcs /\ sched'[w].job = i =>
           run[w][i] = "none" /\ sched'[w].rec = file[i] /\ file[i].status = "queued"
    BY <1>1, <2>1, <2>3
  <2>6. QED
    BY <1>0, <1>1, <1>2, <2>1, <2>3, <2>4, <2>5, SoloSched
<1>c. CASE LockResave(w, j)
  <2>1. /\ sched[w].pc \in ClaimPcs /\ sched[w].job = j
        /\ sched' = [sched EXCEPT ![w].pc = "claim"]
    BY <1>c DEF LockResave, ClaimPcs
  <2>2. sched[w].rec = file[j] /\ Save(j, sched[w].rec)
    BY <1>1, <1>c, <2>1 DEF LockResave
  <2>3. UNCHANGED <<made, file, proc, run, mem, web>>
    BY <1>1, <1>c, <2>2 DEF LockResave, Save
  <2>4. \A i \in Jobs : age'[i] = age[i] \/ age'[i] = 0
    BY <1>1, <2>2 DEF Save
  <2>5. /\ \A v \in Workers \ {w} : sched'[v] = sched[v]
        /\ sched'[w] = [sched[w] EXCEPT !.pc = "claim"]
    BY <1>1, <2>1
  <2>6. /\ sched'[w].cands = sched[w].cands /\ sched'[w].pc = "claim"
        /\ sched'[w].job = j /\ sched'[w].rec = sched[w].rec
    BY <1>1, <2>1, <2>5 DEF Sched
  <2>7. \A i \in Jobs : sched'[w].pc \in ClaimPcs /\ sched'[w].job = i =>
           run[w][i] = "none" /\ sched'[w].rec = file[i] /\ file[i].status = "queued"
    BY <1>1, <2>1, <2>6
  <2>8. QED
    BY <1>0, <1>1, <1>2, <2>3, <2>4, <2>5, <2>6, <2>7, SoloSched, ZenonT(30)
<1>d. CASE ClaimSave(w, j)
  <2> DEFINE rec == Claimed(file[j])
  <2>1. /\ proc[w] = "up" /\ sched[w].pc \in ClaimPcs /\ sched[w].job = j
        /\ run[w][j] = "none" /\ sched[w].rec = file[j] /\ file[j].status = "queued"
    BY <1>1, <1>d DEF ClaimSave, ClaimPcs
  <2>2. /\ UNCHANGED <<made, proc, web>>
        /\ file'[j] = rec /\ mem'[w][j] = rec /\ age'[j] = 0
        /\ \A i \in Jobs \ {j} : file'[i] = file[i] /\ age'[i] = age[i]
        /\ run'[w][j] \in {"spawn", "start"}
        /\ \A v \in Workers, i \in Jobs : v # w \/ i # j =>
             run'[v][i] = run[v][i] /\ mem'[v][i] = mem[v][i]
        /\ sched'[w] = IdleSched /\ \A v \in Workers \ {w} : sched'[v] = sched[v]
    BY <1>d, <2>1 DEF ClaimSave, Save, SoloInv, TypeOK
  <2>3. /\ rec.status = "running" /\ rec.attempts = file[j].attempts
        /\ rec.cancelRequested = file[j].cancelRequested
    BY <1>1 DEF Claimed, Rec
  <2> HIDE DEF rec
  <2>4. \A v \in Workers : run[v][j] \notin HeldPcs \cup {"reaped"}
    BY <2>1 DEF SoloInv, InStep
  <2>5. \A v \in Workers : sched'[v] = IdleSched
    BY <1>3, <2>2
  <2>6. IdleSched.cands = {} /\ IdleSched.pc \notin ClaimPcs \cup {"release", "recover"}
    BY DEF IdleSched, ClaimPcs
  <2>7. /\ j \in made /\ file[j].attempts < MaxAttempts /\ file[j].attempts <= MaxAttempts
        /\ ~file[j].cancelRequested
    BY <2>1 DEF SoloInv, Tries, Calm, NoRec
  <2>8. run'[w][j] \in HeldPcs /\ run'[w][j] \notin {"cancelled", "thrown", "reaped"}
    BY <2>2 DEF HeldPcs
  <2>9. Alone'
    BY <2>1, <2>2, <2>5 DEF SoloInv, Alone, InChild
  <2>10. Calm'
    BY <2>2, <2>3, <2>7, <2>8 DEF SoloInv, Calm
  <2>11. InStep'
    <3> SUFFICES ASSUME NEW v \in Workers, NEW i \in Jobs,
                        run'[v][i] \in HeldPcs \cup {"reaped"}
        PROVE  file'[i].status = "running" /\ mem'[v][i] = file'[i]
      BY DEF InStep
    <3>1. CASE v = w /\ i = j
      BY <2>2, <2>3, <3>1
    <3>2. CASE ~(v = w /\ i = j)
      <4>1. run[v][i] \in HeldPcs \cup {"reaped"} /\ mem'[v][i] = mem[v][i]
        BY <2>2, <3>2
      <4>2. i # j
        BY <2>4, <4>1
      <4>3. QED
        BY <2>2, <4>1, <4>2 DEF SoloInv, InStep
    <3>3. QED
      BY <3>1, <3>2
  <2>12. Apart'
    <3> SUFFICES ASSUME NEW u \in Workers, NEW v \in Workers, NEW i \in Jobs,
                        run'[u][i] \in HeldPcs, run'[v][i] # "none",
                        proc'[v] = "up" \/ run'[v][i] \in HeldPcs
        PROVE  u = v
      BY DEF Apart
    <3>1. CASE i # j
      BY <2>2, <3>1 DEF SoloInv, Apart
    <3>2. CASE i = j
      <4>1. u = w
        BY <2>2, <2>4, <3>2
      <4>2. CASE proc'[v] = "up"
        BY <2>1, <2>2, <4>1, <4>2 DEF SoloInv, Alone
      <4>3. CASE run'[v][i] \in HeldPcs
        BY <2>2, <2>4, <3>2, <4>1, <4>3
      <4>4. QED
        BY <4>2, <4>3
    <3>3. QED
      BY <3>1, <3>2
  <2>13. Listed' /\ Recovering'
    BY <2>5, <2>6 DEF Listed, Recovering
  <2>14. Fresh'
    <3> SUFFICES ASSUME NEW v \in Workers, NEW i \in Jobs,
                        run'[v][i] # "none", file'[i].status = "running"
        PROVE  age'[i] <= SilentAge
      BY DEF Fresh
    <3>1. CASE i = j
      BY <2>2, <3>1, BoundsAssumption
    <3>2. CASE i # j
      BY <2>2, <3>2 DEF SoloInv, Fresh
    <3>3. QED
      BY <3>1, <3>2
  <2>15. Tries'
    <3> SUFFICES ASSUME NEW i \in Jobs
        PROVE  /\ file'[i].attempts <= MaxAttempts
               /\ file'[i].status = "queued"
                    \/ (\E v \in Workers : run'[v][i] \in {"spawn", "start"})
                    => file'[i].attempts < MaxAttempts
      BY DEF Tries
    <3>1. CASE i = j
      BY <2>2, <2>3, <2>7, <3>1
    <3>2. CASE i # j
      BY <2>2, <3>2 DEF SoloInv, Tries
    <3>3. QED
      BY <3>1, <3>2
  <2>16. SoloInv'
    BY <1>0, <2>9, <2>10, <2>11, <2>12, <2>13, <2>14, <2>15 DEF SoloInv
  <2>17. Refines
    <3>1. /\ Status' = [Status EXCEPT ![j] = file'[j].status]
          /\ Attempts' = [Attempts EXCEPT ![j] = file'[j].attempts]
          /\ HeldBy' = [HeldBy EXCEPT ![j] = {w}]
      BY <2>2, <2>4, <2>8, <2>16, MapsTo
    <3>2. HeldBy[j] = {}
      BY <2>4, HoldersAre DEF HeldBy
    <3>3. Status[j] = "queued" /\ Attempts' = Attempts
      BY <2>1, <2>2, <2>3, <3>1 DEF Status, Attempts
    <3>4. Status' = [Status EXCEPT ![j] = "running"]
      BY <2>2, <2>3, <3>1
    <3>5. QED
      BY <3>1, <3>2, <3>3, <3>4, AbstractSteps
  <2>18. QED
    BY <2>16, <2>17
<1>e. CASE RecoverRead(w, j)
  <2>1. /\ UNCHANGED <<made, file, age, proc, run, mem, web>>
        /\ \A v \in Workers \ {w} : sched'[v] = sched[v]
        /\ file[j].status = "running" /\ age[j] >= StaleLimit(j)
        /\ sched'[w] = [pc |-> "release", cands |-> {}, job |-> j,
                        rec |-> [file[j] EXCEPT !.status = "failed"]]
    BY <1>1, <1>e DEF RecoverRead
  <2>2. age[j] > SilentAge
    <3>1. WorkersDie \/ ~LockDead(j)
      BY DEF SoloInv, Alone, LockDead
    <3>2. QED
      BY <1>1, <2>1, <3>1, BoundsAssumption DEF StaleLimit, OneAtATime
  <2>3. \A v \in Workers : run[v][j] = "none"
    <3> SUFFICES ASSUME NEW v \in Workers, run[v][j] # "none" PROVE FALSE
      OBVIOUS
    <3>1. age[j] <= SilentAge
      BY <2>1 DEF SoloInv, Fresh
    <3>2. QED
      BY <1>1, <2>2, <3>1, BoundsAssumption
  <2>4. /\ sched'[w].cands = {} /\ sched'[w].pc \notin ClaimPcs /\ sched'[w].job = j
        /\ sched'[w].rec = [file[j] EXCEPT !.status = "failed"]
    BY <1>5, <2>1
  <2>5. QED
    BY <1>0, <1>2, <2>1, <2>3, <2>4, SoloSched
<1>f. CASE RecoverRelease(w, j)
  <2>1. /\ UNCHANGED <<made, file, age, proc, run, mem, web>>
        /\ \A v \in Workers \ {w} : sched'[v] = sched[v]
        /\ sched[w].pc = "release" /\ sched[w].job = j
        /\ sched'[w] = [sched[w] EXCEPT !.pc = "recover"]
    BY <1>1, <1>f DEF RecoverRelease
  <2>2. /\ sched'[w].cands = sched[w].cands /\ sched'[w].pc = "recover"
        /\ sched'[w].job = j /\ sched'[w].rec = sched[w].rec
    BY <1>4, <1>5, <2>1
  <2>3. /\ file[j].status = "running"
        /\ sched'[w].rec = [file[j] EXCEPT !.status = "failed"]
        /\ \A v \in Workers : run[v][j] = "none"
    BY <1>1, <2>1, <2>2
  <2>4. sched'[w].pc \notin ClaimPcs /\ \A i \in sched'[w].cands : run[w][i] = "none"
    BY <1>1, <1>5, <2>2
  <2>5. \A i \in Jobs : sched'[w].job = i =>
          /\ file[i].status = "running"
          /\ sched'[w].rec = [file[i] EXCEPT !.status = "failed"]
          /\ \A v \in Workers : run[v][i] = "none"
    BY <2>2, <2>3
  <2>6. QED
    BY <1>0, <1>2, <2>1, <2>4, <2>5, SoloSched
<1>g. CASE RecoverSave(w, j)
  <2> DEFINE rec == [file[j] EXCEPT !.status = "failed"]
  <2>1. /\ sched[w].pc = "recover" /\ sched[w].job = j /\ sched[w].rec = rec
        /\ file[j].status = "running" /\ \A v \in Workers : run[v][j] = "none"
    BY <1>1, <1>g DEF RecoverSave
  <2>2. /\ UNCHANGED <<made, proc, run, mem, web>>
        /\ file'[j] = rec /\ age'[j] = 0
        /\ \A i \in Jobs \ {j} : file'[i] = file[i] /\ age'[i] = age[i]
        /\ sched'[w] = IdleSched /\ \A v \in Workers \ {w} : sched'[v] = sched[v]
    BY <1>1, <1>g, <2>1 DEF RecoverSave, Save
  <2>3. /\ rec.status = "failed" /\ rec.attempts = file[j].attempts
        /\ rec.cancelRequested = file[j].cancelRequested
    BY <1>1 DEF Rec
  <2> HIDE DEF rec
  <2>4. \A v \in Workers : sched'[v] = IdleSched
    BY <1>3, <2>2
  <2>5. IdleSched.cands = {} /\ IdleSched.pc \notin ClaimPcs \cup {"release", "recover"}
    BY DEF IdleSched, ClaimPcs
  <2>6. j \in made /\ ~file[j].cancelRequested /\ file[j].attempts <= MaxAttempts
    BY <2>1 DEF SoloInv, Calm, Tries, NoRec
  <2>7. Alone' /\ Apart'
    BY <1>2, <2>2, <2>4 DEF SoloInv, Alone, InChild, Apart
  <2>8. Calm' /\ InStep'
    BY <2>1, <2>2, <2>3, <2>6 DEF SoloInv, Calm, InStep, HeldPcs
  <2>9. Listed' /\ Recovering'
    BY <2>4, <2>5 DEF Listed, Recovering
  <2>10. Fresh' /\ Tries'
    BY <2>1, <2>2, <2>3, <2>6 DEF SoloInv, Fresh, Tries
  <2>11. SoloInv'
    BY <1>0, <2>7, <2>8, <2>9, <2>10 DEF SoloInv
  <2>12. HeldBy[j] = {}
    BY <2>1, HoldersAre DEF HeldBy, HeldPcs
  <2>13. HeldBy' = HeldBy
    <3>1. \A i \in Jobs : Holders(i)' = Holders(i)
      BY <2>2 DEF Holders, Executing, Alive, InChild
    <3>2. QED
      BY <3>1 DEF HeldBy
  <2>14. /\ Status[j] = "running" /\ Status' = [Status EXCEPT ![j] = "failed"]
         /\ Attempts' = Attempts
    <3>1. \A i \in Jobs : file'[i].attempts = file[i].attempts
      BY <2>2, <2>3
    <3>2. \A i \in Jobs : file'[i].status = IF i = j THEN "failed" ELSE file[i].status
      BY <2>2, <2>3
    <3>3. QED
      BY <2>1, <3>1, <3>2 DEF Status, Attempts
  <2>15. QED
    BY <2>11, <2>12, <2>13, <2>14, AbstractSteps
<1>h. QED
  BY <1>a, <1>b, <1>c, <1>d, <1>e, <1>f, <1>g DEF SchedStep

LEMMA SoloRunStep ==
  ASSUME SoloInv, NEW w \in Workers, NEW j \in Jobs, RunStep(w, j)
  PROVE  SoloInv' /\ Refines
<1> USE DEF store, locks, runs, webs
<1>0. TypeOK'
  BY TypeOKRun DEF SoloInv
<1>1. /\ run \in [Workers -> [Jobs -> RunPcs]] /\ mem \in [Workers -> [Jobs -> Rec]]
      /\ file \in [Jobs -> Rec] /\ file[j] \in Rec /\ age \in [Jobs -> 0..2]
  BY DEF SoloInv, TypeOK
<1>2. run[w][j] # "none" /\ run[w][j] \notin {"cancelled", "thrown"}
  BY DEF SoloInv, Calm, RunStep, RunSpawn, RunBegin, RunCheck, RunCancelled,
     RunWork, RunFinish, RunFail, RunRelease, ReapRead, ReapSave, ReapRelease
<1>3. /\ run[w][j] \in HeldPcs \cup {"reaped"} =>
           file[j].status = "running" /\ mem[w][j] = file[j]
      /\ run[w][j] \in {"spawn", "start"} => file[j].attempts < MaxAttempts
      /\ file[j].status = "queued" => file[j].attempts < MaxAttempts
      /\ file[j].attempts <= MaxAttempts /\ ~file[j].cancelRequested
      /\ file[j].status \in {"none", "queued", "running", "succeeded", "failed"}
  BY DEF SoloInv, InStep, Tries, Calm
<1>4. /\ UNCHANGED <<made, proc, sched, web>>
      /\ \A v \in Workers, i \in Jobs : v # w \/ i # j => run'[v][i] = run[v][i]
      /\ \A v \in Workers, i \in Jobs : v # w \/ i # j => mem'[v][i] = mem[v][i]
      /\ \A i \in Jobs \ {j} : file'[i] = file[i] /\ age'[i] = age[i]
      /\ age'[j] = 0 \/ (file'[j] = file[j] /\ age'[j] = age[j])
  BY <1>1 DEF RunStep, RunSpawn, RunBegin, RunCheck, RunCancelled, RunWork, RunFinish,
     RunFail, RunRelease, ReapRead, ReapSave, ReapRelease, GoTo, Keep, Leave, Save
\* What is left to show of a step.
<1>5. ASSUME file'[j] # file[j] => run[w][j] \in HeldPcs \cup {"reaped"},
             file'[j].cancelRequested = file[j].cancelRequested,
             file'[j] = file[j] \/ file'[j].status \in {"queued", "running", "succeeded", "failed"},
             proc[w] # "up" => run'[w][j] \in ChildPcs \cup {"none"},
             run'[w][j] \notin {"cancelled", "thrown"},
             run'[w][j] \in HeldPcs => run[w][j] \in HeldPcs,
             run'[w][j] \in HeldPcs \cup {"reaped"} =>
                file'[j].status = "running" /\ mem'[w][j] = file'[j],
             file'[j].attempts <= MaxAttempts,
             file'[j].status = "queued" \/ run'[w][j] \in {"spawn", "start"}
                => file'[j].attempts < MaxAttempts
      PROVE  SoloInv'
  BY <1>0, <1>2, <1>3, <1>4, <1>5, SoloRun
<1>6. ASSUME SoloInv'
      PROVE  /\ Status' = [Status EXCEPT ![j] = file'[j].status]
             /\ Attempts' = [Attempts EXCEPT ![j] = file'[j].attempts]
             /\ Status[j] = file[j].status /\ Attempts[j] = file[j].attempts
             /\ file'[j].status = file[j].status => Status' = Status
             /\ file'[j].attempts = file[j].attempts => Attempts' = Attempts
             /\ run[w][j] \in HeldPcs => HeldBy[j] = {w}
             /\ run[w][j] \in HeldPcs /\ run'[w][j] \notin HeldPcs
                  => HeldBy' = [HeldBy EXCEPT ![j] = {}]
             /\ (run[w][j] \in HeldPcs <=> run'[w][j] \in HeldPcs) => HeldBy' = HeldBy
  <2>1. run'[w][j] \in HeldPcs => run[w][j] \in HeldPcs
    BY <1>1, <1>2 DEF RunStep, RunSpawn, RunBegin, RunCheck, RunCancelled, RunWork, RunFinish,
       RunFail, RunRelease, ReapRead, ReapSave, ReapRelease, GoTo, Leave, HeldPcs
  <2>2. run[w][j] \in HeldPcs \/ run'[w][j] \in HeldPcs
          => \A v \in Workers \ {w} : run[v][j] \notin HeldPcs
    BY <2>1, OneHolder
  <2>3. /\ Status' = [Status EXCEPT ![j] = file'[j].status]
        /\ Attempts' = [Attempts EXCEPT ![j] = file'[j].attempts]
        /\ run[w][j] \in HeldPcs => HeldBy[j] = {w}
        /\ run[w][j] \in HeldPcs /\ run'[w][j] \notin HeldPcs
             => HeldBy' = [HeldBy EXCEPT ![j] = {}]
        /\ (run[w][j] \in HeldPcs <=> run'[w][j] \in HeldPcs) => HeldBy' = HeldBy
    BY <1>4, <1>6, <2>2, MapsTo
  <2>4. Status[j] = file[j].status /\ Attempts[j] = file[j].attempts
    BY DEF Status, Attempts
  <2>5. /\ file'[j].status = file[j].status => Status' = Status
        /\ file'[j].attempts = file[j].attempts => Attempts' = Attempts
    BY <2>3 DEF Status, Attempts
  <2>6. QED
    BY <2>3, <2>4, <2>5
<1>7. /\ \A r : Save(j, r) => file'[j] = r
      /\ \A r : Keep(w, j, r) => mem'[w][j] = r
      /\ \A pc : GoTo(w, j, pc) => run'[w][j] = pc
      /\ \A pc : Leave(w, j, pc) => run'[w][j] = pc
  BY <1>1 DEF Save, Keep, GoTo, Leave
<1>8. \A s : /\ [file[j] EXCEPT !.status = s].status = s
             /\ [file[j] EXCEPT !.status = s].attempts = file[j].attempts
             /\ [file[j] EXCEPT !.status = s].cancelRequested = file[j].cancelRequested
  BY <1>1 DEF Rec
<1>9. /\ {"spawn", "start", "check", "work", "finish", "fail"} \subseteq HeldPcs
      /\ {"ended", "reap", "reaped", "unlock", "none"} \cap HeldPcs = {}
      /\ {"start", "check", "work", "finish", "fail", "ended"} \subseteq ChildPcs
  BY DEF HeldPcs, ChildPcs, RunPcs
<1>a. CASE RunSpawn(w, j)
  <2>1. run[w][j] = "spawn" /\ proc[w] = "up" /\ UNCHANGED file
    BY <1>a DEF RunSpawn
  <2>2. (run'[w][j] = "start" /\ mem'[w][j] = file[j]) \/ run'[w][j] = "reap"
    BY <1>7, <1>a DEF RunSpawn
  <2>3. SoloInv'
    BY <1>3, <1>5, <1>9, <2>1, <2>2
  <2>4. QED
    BY <1>4, <1>9, <2>1, <2>3, RefinesLoss
<1>b. CASE RunBegin(w, j)
  <2> DEFINE rec == [file[j] EXCEPT !.attempts = @ + 1, !.status = "running"]
  <2>1. /\ run[w][j] = "start" /\ mem[w][j] = file[j] /\ file[j].status = "running"
        /\ file[j].attempts < MaxAttempts
    BY <1>3, <1>9, <1>b DEF RunBegin
  <2>2. CanTransition(mem[w][j].status, "running")
    BY <2>1 DEF CanTransition
  <2>3. Save(j, rec) /\ Keep(w, j, rec) /\ GoTo(w, j, "check")
    BY <1>b, <2>1, <2>2 DEF RunBegin
  <2>4. /\ rec.status = "running" /\ rec.attempts = file[j].attempts + 1
        /\ rec.cancelRequested = file[j].cancelRequested
    BY <1>1 DEF Rec
  <2> HIDE DEF rec
  <2>5. file'[j] = rec /\ mem'[w][j] = rec /\ run'[w][j] = "check"
    BY <1>7, <2>3
  <2>6. rec.attempts <= MaxAttempts
    BY <1>1, <2>1, <2>4, BoundsAssumption DEF Rec
  <2>7. SoloInv'
    BY <1>5, <1>9, <2>1, <2>4, <2>5, <2>6
  <2>8. Refines
    BY <1>6, <1>9, <2>1, <2>4, <2>5, <2>7, AbstractSteps
  <2>9. QED
    BY <2>7, <2>8
<1>c. CASE RunCheck(w, j)
  <2>1. /\ run[w][j] = "check" /\ UNCHANGED <<file, mem>>
        /\ mem[w][j] = file[j] /\ file[j].status = "running"
    BY <1>3, <1>9, <1>c DEF RunCheck
  <2>2. run'[w][j] \in {"fail", "work"}
    <3>1. ~(file[j].cancelRequested \/ file[j].status = "cancelled")
      BY <1>3, <2>1
    <3>2. GoTo(w, j, "fail") \/ GoTo(w, j, "work")
      BY <1>c, <3>1 DEF RunCheck
    <3>3. QED
      BY <1>7, <3>2
  <2>3. SoloInv'
    BY <1>3, <1>5, <1>9, <2>1, <2>2
  <2>4. QED
    BY <1>4, <1>9, <2>1, <2>3, RefinesLoss
<1>d. CASE RunWork(w, j)
  <2>1. /\ run[w][j] = "work" /\ UNCHANGED mem
        /\ mem[w][j] = file[j] /\ file[j].status = "running"
    BY <1>3, <1>9, <1>d DEF RunWork
  <2>2. file'[j] = file[j]
    BY <1>7, <1>d, <2>1 DEF RunWork
  <2>3. run'[w][j] \in {"check", "finish", "fail"}
    BY <1>7, <1>d DEF RunWork
  <2>4. SoloInv'
    BY <1>3, <1>5, <1>9, <2>1, <2>2, <2>3
  <2>5. QED
    BY <1>6, <1>9, <2>1, <2>2, <2>3, <2>4, AbstractSteps
<1>e. CASE RunFinish(w, j)
  <2>1. run[w][j] = "finish" /\ mem[w][j] = file[j] /\ file[j].status = "running"
    BY <1>3, <1>9, <1>e DEF RunFinish
  <2>2. PICK s \in {"succeeded", "failed"} : Save(j, [file[j] EXCEPT !.status = s])
    BY <1>e, <2>1 DEF RunFinish
  <2>3. /\ file'[j].status = s /\ file'[j].attempts = file[j].attempts
        /\ file'[j].cancelRequested = file[j].cancelRequested
    <3>1. file'[j] = [file[j] EXCEPT !.status = s]
      BY <1>7, <2>2
    <3>2. QED
      BY <1>8, <3>1
  <2>4. run'[w][j] = "ended"
    BY <1>7, <1>e DEF RunFinish
  <2>5. SoloInv'
    BY <1>3, <1>5, <1>9, <2>1, <2>3, <2>4
  <2>6. \E t \in {"succeeded", "failed"} : Status' = [Status EXCEPT ![j] = t]
    BY <1>6, <2>3, <2>5
  <2>7. QED
    BY <1>6, <1>9, <2>1, <2>3, <2>4, <2>5, <2>6, AbstractSteps, ZenonT(30)
<1>f. CASE RunFail(w, j)
  <2> DEFINE outcome == IF MayRetry(file[j]) THEN "queued" ELSE "failed"
  <2>1. run[w][j] = "fail" /\ mem[w][j] = file[j] /\ file[j].status = "running"
    BY <1>3, <1>9, <1>f DEF RunFail
  <2>2. CanTransition(mem[w][j].status, "failed")
    BY <2>1 DEF CanTransition, Terminal
  <2>3. Save(j, [file[j] EXCEPT !.status = outcome]) /\ GoTo(w, j, "ended")
    BY <1>f, <2>1, <2>2 DEF RunFail
  <2>4. outcome = "failed" \/ (outcome = "queued" /\ file[j].attempts < MaxAttempts)
    BY DEF MayRetry
  <2> HIDE DEF outcome
  <2>5. /\ file'[j].status = outcome /\ file'[j].attempts = file[j].attempts
        /\ file'[j].cancelRequested = file[j].cancelRequested /\ run'[w][j] = "ended"
    <3>1. file'[j] = [file[j] EXCEPT !.status = outcome] /\ run'[w][j] = "ended"
      BY <1>7, <2>3
    <3>2. QED
      BY <1>8, <3>1
  <2>6. SoloInv'
    BY <1>3, <1>5, <1>9, <2>1, <2>4, <2>5
  <2>7. Status' = [Status EXCEPT ![j] = outcome]
    BY <1>6, <2>5, <2>6
  <2>8. QED
    BY <1>6, <1>9, <2>1, <2>4, <2>5, <2>6, <2>7, AbstractSteps, ZenonT(30)
<1>g. CASE RunRelease(w, j) \/ ReapRelease(w, j)
  <2>1. run[w][j] \in {"ended", "unlock"} /\ UNCHANGED file /\ run'[w][j] = "none"
    BY <1>2, <1>7, <1>g DEF RunRelease, ReapRelease
  <2>2. SoloInv'
    BY <1>3, <1>5, <1>9, <2>1
  <2>3. QED
    BY <1>4, <1>9, <2>1, <2>2, RefinesLoss
<1>h. CASE ReapRead(w, j)
  <2>1. run[w][j] = "reap" /\ proc[w] = "up" /\ UNCHANGED file
    BY <1>h DEF ReapRead
  <2>2. \/ file[j].status = "running" /\ mem'[w][j] = file[j] /\ run'[w][j] = "reaped"
        \/ run'[w][j] = "none"
    BY <1>7, <1>h DEF ReapRead
  <2>3. SoloInv'
    BY <1>3, <1>5, <1>9, <2>1, <2>2
  <2>4. QED
    BY <1>4, <1>9, <2>1, <2>2, <2>3, RefinesLoss
<1>i. CASE ReapSave(w, j)
  <2>1. /\ run[w][j] = "reaped" /\ mem[w][j] = file[j] /\ file[j].status = "running"
        /\ proc[w] = "up"
    BY <1>3, <1>i DEF ReapSave
  <2>2. Save(j, [file[j] EXCEPT !.status = "failed"]) /\ GoTo(w, j, "unlock")
    BY <1>i, <2>1 DEF ReapSave, Reaped
  <2>3. /\ file'[j].status = "failed" /\ file'[j].attempts = file[j].attempts
        /\ file'[j].cancelRequested = file[j].cancelRequested /\ run'[w][j] = "unlock"
    <3>1. file'[j] = [file[j] EXCEPT !.status = "failed"] /\ run'[w][j] = "unlock"
      BY <1>7, <2>2
    <3>2. QED
      BY <1>8, <3>1
  <2>4. SoloInv'
    BY <1>3, <1>5, <1>9, <2>1, <2>3
  <2>5. HeldBy[j] = {}
    <3>1. \A v \in Workers : run[v][j] \notin HeldPcs
      BY <1>9, <2>1, OneWriter
    <3>2. QED
      BY <3>1, HoldersAre DEF HeldBy
  <2>6. Status' = [Status EXCEPT ![j] = "failed"]
    BY <1>6, <2>3, <2>4
  <2>7. QED
    BY <1>6, <1>9, <2>1, <2>3, <2>4, <2>5, <2>6, AbstractSteps
<1>j. CASE RunCancelled(w, j)
  BY <1>2, <1>j DEF RunCancelled
<1>k. QED
  BY <1>a, <1>b, <1>c, <1>d, <1>e, <1>f, <1>g, <1>h, <1>i, <1>j DEF RunStep

LEMMA SoloInductive == OneAtATime /\ SoloInv /\ [Next]_vars => SoloInv' /\ Refines
<1> SUFFICES ASSUME OneAtATime, SoloInv, [Next]_vars PROVE SoloInv' /\ Refines
  OBVIOUS
<1>1. CASE UNCHANGED vars
  <2>1. UNCHANGED <<made, file, age, proc, sched, run, mem, web>> /\ TypeOK'
    BY <1>1, TypeOKStep DEF vars, store, runs, webs, SoloInv
  <2>2. SoloInv'
    BY <2>1 DEF SoloInv, Alone, InChild, Calm, InStep, Apart, Listed, Recovering, Fresh, Tries
  <2>3. QED
    BY <2>1, <2>2, RefinesQuietly
<1>2. CASE Next
  BY <1>2, NextCases, SoloWorld, SoloStart, SoloCrash, SoloClaim, SoloCrashChild,
     SoloSchedStep, SoloRunStep
<1>3. QED
  BY <1>1, <1>2

LEMMA SoloInitially == Init => SoloInv /\ Lifecycle!Init
<1> SUFFICES ASSUME Init PROVE SoloInv /\ Lifecycle!Init
  OBVIOUS
<1>1. SoloInv
  <2>1. TypeOK
    BY TypeOKInit
  <2>2. Alone /\ Calm /\ InStep /\ Apart /\ Fresh
    BY DEF Init, Alone, Calm, InStep, Apart, Fresh, NoRec, HeldPcs
  <2>3. Listed /\ Recovering /\ Tries
    BY BoundsAssumption DEF Init, Listed, Recovering, Tries, IdleSched, ClaimPcs, NoRec
  <2>4. QED
    BY <2>1, <2>2, <2>3 DEF SoloInv
<1>2. \A j \in Jobs : Holders(j) = {}
  BY DEF Init, Holders, Executing, ExecPcs
<1>3. Lifecycle!Init
  BY <1>2 DEF Lifecycle!Init, Status, Attempts, HeldBy, Init, NoRec
<1>4. QED
  BY <1>1, <1>3

LEMMA SoloAlways == ASSUME OneAtATime PROVE Spec => []SoloInv
<1>1. Init => SoloInv
  BY SoloInitially
<1>2. SoloInv /\ [Next]_vars => SoloInv'
  BY SoloInductive
<1>3. QED
  BY <1>1, <1>2, PTL DEF Spec

-----------------------------------------------------------------------------
(* What follows *)

\* With one worker at a time every behaviour of the queue is one of
\* JobLifecycle, for any number of jobs, training jobs among them, and any
\* number of crashes of the worker and of its children: a job is in one hand at
\* a time, is begun at most MaxAttempts times, and is settled once.
THEOREM SoloImplements == ASSUME OneAtATime PROVE Spec => Implements
<1>1. Init => SoloInv /\ Lifecycle!Init
  BY SoloInitially
<1>2. SoloInv /\ [Next]_vars => SoloInv' /\ [Lifecycle!Next]_(Lifecycle!vars)
  BY SoloInductive DEF Refines
<1>3. QED
  BY <1>1, <1>2, PTL DEF Spec, Implements, Lifecycle!Spec

\* No two processes execute one job at a time, although a child that outlives its
\* worker releases a lock that may be its successor's.
THEOREM SoloExclusive == ASSUME OneAtATime PROVE Spec => []ExclusiveRun
<1>1. SoloInv => ExclusiveRun
  <2> SUFFICES ASSUME SoloInv, NEW j \in Jobs, NEW v \in Workers, NEW w \in Workers,
                      Executing(v, j), Executing(w, j)
      PROVE  v = w
    BY DEF ExclusiveRun
  <2>1. run[v][j] \in HeldPcs /\ run[w][j] \in HeldPcs
    BY DEF SoloInv, Calm, Executing, ExecPcs, HeldPcs
  <2>2. QED
    BY <2>1, OneHolder
<1>2. QED
  BY <1>1, SoloAlways, PTL

\* What a step of JobLifecycle may do to a job.
LEMMA LifecycleSteps ==
  ASSUME SoloInv, Lifecycle!Next, NEW j \in Jobs
  PROVE  /\ \/ Status'[j] = Status[j]
            \/ Status[j] = "none" /\ Status'[j] = "queued"
            \/ Status[j] = "queued" /\ Status'[j] = "running"
            \/ Status[j] = "running" /\ Status'[j] \in {"queued", "succeeded", "failed"}
         /\ \/ Attempts'[j] = Attempts[j]
            \/ Attempts'[j] = Attempts[j] + 1
<1> DEFINE OK ==
      /\ \/ Status'[j] = Status[j]
         \/ Status[j] = "none" /\ Status'[j] = "queued"
         \/ Status[j] = "queued" /\ Status'[j] = "running"
         \/ Status[j] = "running" /\ Status'[j] \in {"queued", "succeeded", "failed"}
      /\ \/ Attempts'[j] = Attempts[j]
         \/ Attempts'[j] = Attempts[j] + 1
<1>0. j \in DOMAIN Status /\ j \in DOMAIN Attempts
  BY DEF Status, Attempts
<1>1. ASSUME NEW i \in Jobs, Lifecycle!Submit(i) \/ Lifecycle!Declare(i) PROVE OK
  BY <1>0, <1>1 DEF Lifecycle!Submit, Lifecycle!Declare, Status
<1>2. ASSUME NEW w \in Workers, NEW i \in Jobs, Lifecycle!Take(w, i) PROVE OK
  BY <1>0, <1>2 DEF Lifecycle!Take, Status
<1>3. ASSUME NEW w \in Workers, NEW i \in Jobs, Lifecycle!Begin(w, i) PROVE OK
  BY <1>0, <1>3 DEF Lifecycle!Begin, Attempts
<1>4. ASSUME NEW w \in Workers, NEW i \in Jobs, Lifecycle!GiveBack(w, i) PROVE OK
  BY <1>0, <1>4 DEF Lifecycle!GiveBack, Status
<1>5. ASSUME NEW w \in Workers, NEW i \in Jobs, Lifecycle!Settle(w, i) PROVE OK
  BY <1>0, <1>5 DEF Lifecycle!Settle, Status
<1>6. ASSUME NEW S \in SUBSET Jobs, Lifecycle!Lose(S) PROVE OK
  BY <1>6 DEF Lifecycle!Lose
<1>7. QED
  BY <1>1, <1>2, <1>3, <1>4, <1>5, <1>6 DEF Lifecycle!Next

\* job.json only moves along the table of stateMachine.ts, although every process
\* writes whole records back.
THEOREM SoloLawful == ASSUME OneAtATime PROVE Spec => LawfulTransitions
<1>1. ASSUME SoloInv, [Next]_vars, NEW j \in Jobs, file[j] # NoRec, file'[j] # NoRec
      PROVE  CanTransition(file[j].status, file'[j].status)
  <2>1. Status[j] = file[j].status /\ Status'[j] = file'[j].status
    BY DEF Status
  <2>2. file[j].status # "none"
    BY <1>1 DEF SoloInv, Calm
  <2>3. Refines /\ OneAtATime
    BY <1>1, SoloInductive
  <2>4. CASE Lifecycle!Next
    BY <1>1, <2>1, <2>2, <2>4, LifecycleSteps DEF CanTransition, Terminal
  <2>5. CASE UNCHANGED Lifecycle!vars
    BY <2>1, <2>5 DEF Lifecycle!vars, CanTransition
  <2>6. QED
    BY <2>3, <2>4, <2>5 DEF Refines
<1>2. SoloInv /\ [Next]_vars =>
        [\A j \in Jobs : file[j] # NoRec /\ file'[j] # NoRec =>
           CanTransition(file[j].status, file'[j].status)]_file
  BY <1>1
<1>3. QED
  BY <1>2, SoloAlways, PTL DEF Spec, LawfulTransitions

\* The attempts that job.json counts never go back and never exceed
\* TILEFORGE_JOB_MAX_ATTEMPTS.
THEOREM SoloAttempts == ASSUME OneAtATime PROVE Spec => AttemptsCounted
<1>1. ASSUME SoloInv, [Next]_vars, NEW j \in Jobs
      PROVE  file[j].attempts <= file'[j].attempts /\ file'[j].attempts <= MaxAttempts
  <2>1. Attempts[j] = file[j].attempts /\ Attempts'[j] = file'[j].attempts
    BY DEF Attempts
  <2>2. Refines /\ SoloInv'
    BY <1>1, SoloInductive
  <2>3. file'[j].attempts <= MaxAttempts
    BY <2>2 DEF SoloInv, Tries
  <2>4. file[j].attempts \in Nat
    BY <1>1 DEF SoloInv, TypeOK, Rec
  <2>5. CASE Lifecycle!Next
    BY <1>1, <2>1, <2>3, <2>4, <2>5, LifecycleSteps
  <2>6. CASE UNCHANGED Lifecycle!vars
    BY <2>1, <2>3, <2>4, <2>6 DEF Lifecycle!vars
  <2>7. QED
    BY <2>2, <2>5, <2>6 DEF Refines
<1>2. SoloInv /\ [Next]_vars =>
        [\A j \in Jobs : file[j].attempts <= file'[j].attempts
                        /\ file'[j].attempts <= MaxAttempts]_file
  BY <1>1
<1>3. QED
  BY <1>2, SoloAlways, PTL DEF Spec, AttemptsCounted

-----------------------------------------------------------------------------
(* The parallel limit: a worker lists its candidates when fewer jobs say     *)
(* running than may, and claims one of them before it lists again.           *)

Running == {j \in Jobs : file[j].status = "running"}

Room ==
  /\ RunningCount <= MaxParallel
  /\ \A w \in Workers : sched[w].pc \in LoopPcs => RunningCount < MaxParallel

LEMMA RunningFinite ==
  ASSUME IsFiniteSet(Jobs)
  PROVE  /\ RunningCount = Cardinality(Running)
         /\ IsFiniteSet(Running) /\ IsFiniteSet(Running)'
         /\ RunningCount \in Nat /\ RunningCount' \in Nat
         /\ Running' \subseteq Running => RunningCount' <= RunningCount
         /\ \A j \in Jobs : Running' \subseteq Running \cup {j}
              => RunningCount' <= RunningCount + 1
<1>1. RunningCount = Cardinality(Running) /\ RunningCount' = Cardinality(Running')
  BY DEF RunningCount, Running
<1>2. IsFiniteSet(Running) /\ IsFiniteSet(Running')
  BY FS_Subset DEF Running
<1>3. RunningCount \in Nat /\ RunningCount' \in Nat
  BY <1>1, <1>2, FS_CardinalityType
<1>4. Running' \subseteq Running => RunningCount' <= RunningCount
  BY <1>1, <1>2, FS_Subset
<1>5. ASSUME NEW j \in Jobs, Running' \subseteq Running \cup {j}
      PROVE  RunningCount' <= RunningCount + 1
  <2>1. /\ IsFiniteSet(Running \cup {j})
        /\ Cardinality(Running \cup {j}) <= RunningCount + 1
    <3>1. /\ IsFiniteSet(Running \cup {j})
          /\ \/ Cardinality(Running \cup {j}) = Cardinality(Running)
             \/ Cardinality(Running \cup {j}) = Cardinality(Running) + 1
      BY <1>2, FS_AddElement
    <3>2. QED
      BY <1>1, <1>3, <3>1
  <2>2. /\ Cardinality(Running') <= Cardinality(Running \cup {j})
        /\ Cardinality(Running \cup {j}) \in Nat
    BY <1>5, <2>1, FS_Subset, FS_CardinalityType
  <2>3. QED
    BY <1>1, <1>3, <2>1, <2>2
<1>6. QED
  BY <1>1, <1>2, <1>3, <1>4, <1>5

\* No job begins to run, and no new list is made.
LEMMA RoomKept ==
  ASSUME IsFiniteSet(Jobs), Room, Running' \subseteq Running,
         \A v \in Workers : sched'[v].pc \in LoopPcs => sched[v].pc \in LoopPcs
  PROVE  Room'
<1>1. RunningCount' <= RunningCount /\ RunningCount \in Nat /\ RunningCount' \in Nat
  BY RunningFinite
<1>2. QED
  BY <1>1, BoundsAssumption DEF Room

LEMMA RoomSched ==
  ASSUME IsFiniteSet(Jobs), SoloInv, Room, NEW w \in Workers, NEW j \in Jobs, SchedStep(w, j)
  PROVE  Room'
<1> USE DEF store
<1>0. /\ sched \in [Workers -> Sched] /\ sched[w] \in Sched /\ file \in [Jobs -> Rec]
      /\ IdleSched.pc \notin LoopPcs
  BY DEF SoloInv, TypeOK, Sched, IdleSched, LoopPcs
<1>1. CASE ClaimSave(w, j)
  <2>1. /\ sched[w].pc = "claim" /\ proc[w] = "up"
        /\ \A i \in Jobs \ {j} : file'[i] = file[i]
        /\ \A v \in Workers \ {w} : sched'[v] = sched[v]
        /\ sched'[w] = IdleSched
    BY <1>0, <1>1 DEF ClaimSave, Save
  <2>2. \A v \in Workers : sched'[v] = IdleSched
    BY <2>1 DEF SoloInv, Alone
  <2>3. Running' \subseteq Running \cup {j}
    BY <2>1 DEF Running
  <2>4. RunningCount < MaxParallel
    BY <2>1 DEF Room, LoopPcs
  <2>5. RunningCount' <= RunningCount + 1 /\ RunningCount \in Nat /\ RunningCount' \in Nat
    BY <2>3, RunningFinite
  <2>6. QED
    BY <1>0, <2>2, <2>4, <2>5, BoundsAssumption DEF Room
<1>2. CASE RecoverSave(w, j)
  <2>1. /\ \A i \in Jobs \ {j} : file'[i] = file[i]
        /\ file'[j] = sched[w].rec
        /\ sched' = [sched EXCEPT ![w] = IdleSched]
        /\ sched[w].rec = [file[j] EXCEPT !.status = "failed"]
    BY <1>0, <1>2 DEF RecoverSave, Save, SoloInv, Recovering
  <2>2. file'[j].status = "failed"
    BY <1>0, <2>1 DEF Rec
  <2>3. QED
    BY <1>0, <2>1, <2>2, RoomKept DEF Running
<1>3. CASE LockResave(w, j)
  <2>1. file' = file /\ sched' = [sched EXCEPT ![w].pc = "claim"] /\ sched[w].pc = "resave"
    BY <1>0, <1>3 DEF LockResave, Save, SoloInv, Listed, ClaimPcs
  <2>2. QED
    BY <1>0, <2>1, RoomKept DEF Running, LoopPcs
<1>4. CASE \/ ClaimRead(w, j) \/ LockCreate(w, j) \/ LockInspect(w, j) \/ LockRemove(w, j)
           \/ LockRecreate(w, j)
  <2>1. UNCHANGED file /\ sched[w].pc \in LoopPcs
        /\ \A v \in Workers \ {w} : sched'[v] = sched[v]
    BY <1>0, <1>4 DEF ClaimRead, LockCreate, LockInspect, LockRemove, LockRecreate, LoopPcs
  <2>2. QED
    BY <2>1, RoomKept DEF Running
<1>5. CASE RecoverRead(w, j) \/ RecoverRelease(w, j)
  <2>1. UNCHANGED file /\ sched'[w].pc \in {"release", "recover"}
        /\ \A v \in Workers \ {w} : sched'[v] = sched[v]
    BY <1>0, <1>5 DEF RecoverRead, RecoverRelease, Sched
  <2>2. QED
    BY <2>1, RoomKept DEF Running, LoopPcs
<1>6. QED
  BY <1>1, <1>2, <1>3, <1>4, <1>5 DEF SchedStep

LEMMA RoomRun ==
  ASSUME IsFiniteSet(Jobs), SoloInv, Room, NEW w \in Workers, NEW j \in Jobs, RunStep(w, j)
  PROVE  Room'
<1>1. /\ UNCHANGED sched
      /\ \A i \in Jobs \ {j} : file'[i] = file[i]
      /\ file'[j] = file[j] \/ run[w][j] \in HeldPcs \cup {"reaped", "cancelled"}
  BY DEF SoloInv, TypeOK, RunStep, RunSpawn, RunBegin, RunCheck, RunCancelled, RunWork,
     RunFinish, RunFail, RunRelease, ReapRead, ReapSave, ReapRelease, Save, store, HeldPcs
<1>2. file'[j] = file[j] \/ file[j].status = "running"
  BY <1>1 DEF SoloInv, InStep, Calm
<1>3. QED
  BY <1>1, <1>2, RoomKept DEF Running

LEMMA RoomInductive ==
  ASSUME IsFiniteSet(Jobs), OneAtATime, SoloInv, Room, [Next]_vars
  PROVE  Room'
<1> USE DEF store
<1>1. CASE UNCHANGED vars
  BY <1>1, RoomKept DEF vars, Running
<1>2. CASE Next
  <2>1. ASSUME NEW j \in Jobs, WorldStep(j) PROVE Room'
    <3>1. UNCHANGED <<file, sched>> \/ Submit(j)
      BY <2>1 DEF WorldStep, RecordAges, LockAges, CancelRead, CancelSave, Delete,
         OneAtATime, SoloInv, Calm
    <3>2. UNCHANGED sched /\ Running' \subseteq Running
      <4>1. CASE UNCHANGED <<file, sched>>
        BY <4>1 DEF Running
      <4>2. CASE Submit(j)
        <5>1. UNCHANGED sched /\ file' = [file EXCEPT ![j] = NewJob]
          BY <4>2 DEF Submit, Save
        <5>2. NewJob.status # "running" /\ file \in [Jobs -> Rec]
          BY DEF NewJob, SoloInv, TypeOK
        <5>3. QED
          BY <5>1, <5>2 DEF Running
      <4>3. QED
        BY <3>1, <4>1, <4>2
    <3>3. QED
      BY <3>2, RoomKept
  <2>2. ASSUME NEW w \in Workers, \/ Start(w) \/ Crash(w) \/ ClaimNone(w)
                                  \/ \E j \in Jobs : CrashChild(w, j)
        PROVE Room'
    <3>1. UNCHANGED file /\ \A v \in Workers : sched'[v] = sched[v] \/ sched'[v] = IdleSched
      BY <2>2 DEF Start, Crash, ClaimNone, CrashChild, SoloInv, TypeOK
    <3>2. QED
      BY <3>1, RoomKept DEF Running, IdleSched, LoopPcs
  <2>3. ASSUME NEW w \in Workers, ClaimList(w) PROVE Room'
    <3>1. UNCHANGED file /\ RunningCount < MaxParallel
      BY <2>3 DEF ClaimList
    <3>2. RunningCount' = RunningCount
      BY <3>1 DEF RunningCount
    <3>3. QED
      BY <3>1, <3>2 DEF Room
  <2>4. QED
    BY <1>2, <2>1, <2>2, <2>3, NextCases, RoomSched, RoomRun
<1>3. QED
  BY <1>1, <1>2

\* maxParallelJobs bounds the executions in the whole system, those that
\* outlived their worker included: every execution is of a job of its own, and
\* that job says running.
THEOREM SoloParallelLimit ==
  ASSUME OneAtATime, IsFiniteSet(Jobs) PROVE Spec => []ParallelLimit
<1>1. Init => Room
  <2> SUFFICES ASSUME Init PROVE Room
    OBVIOUS
  <2>1. Running = {} /\ \A w \in Workers : sched[w].pc \notin LoopPcs
    BY DEF Init, Running, NoRec, IdleSched, LoopPcs
  <2>2. RunningCount = 0
    BY <2>1, RunningFinite, FS_EmptySet
  <2>3. QED
    BY <2>1, <2>2, BoundsAssumption DEF Room
<1>2. SoloInv /\ Room /\ [Next]_vars => Room'
  BY RoomInductive
<1>3. SoloInv /\ Room => ParallelLimit
  <2> SUFFICES ASSUME SoloInv, Room PROVE ParallelLimit
    OBVIOUS
  <2> DEFINE X == {x \in Workers \X Jobs : Executing(x[1], x[2])}
             g == [x \in X |-> x[2]]
  <2>1. \A x \in X : x[1] \in Workers /\ x[2] \in Jobs /\ run[x[1]][x[2]] \in HeldPcs
    BY DEF SoloInv, Calm, Executing, ExecPcs, HeldPcs
  <2>2. g \in [X -> Running]
    BY <2>1 DEF SoloInv, InStep, Running
  <2>3. \A x, y \in X : x[2] = y[2] => x = y
    BY <2>1, OneHolder
  <2>4. g \in Injection(X, Running)
    BY <2>2, <2>3 DEF Injection, IsInjective
  <2>5. Cardinality(X) <= RunningCount /\ IsFiniteSet(X)
    BY <2>4, RunningFinite, FS_Injection
  <2>6. Cardinality(X) \in Nat /\ RunningCount \in Nat
    BY <2>5, RunningFinite, FS_CardinalityType
  <2>7. QED
    BY <2>5, <2>6, BoundsAssumption DEF Room, ParallelLimit
<1>4. QED
  BY <1>1, <1>2, <1>3, SoloAlways, PTL DEF Spec
-----------------------------------------------------------------------------
(* Who owns a running job when one process has died.  Until then every run    *)
(* has its lock; what the crash takes with it leaves a dead owner's lock that *)
(* nobody but the recovery removes.  A second crash, between the two halves   *)
(* of a recovery, would leave a running job without either.                   *)

\* A run that has not yet written how the job ended, or its parent.
BusyPcs == HeldPcs \cup {"reap", "reaped"}

Dead == \A w \in Workers : proc[w] = "dead" => crashes >= 1
LocksOwn ==
  crashes = 0 => \A w \in Workers, j \in Jobs :
                   Claiming(w, j) \/ run[w][j] \in BusyPcs => lock[j] = w
Handled(j) ==
  \/ \E w \in Workers : run[w][j] \in BusyPcs
  \/ crashes >= 1 /\ LockDead(j) /\ \A w \in Workers : run[w][j] = "none"
  \/ crashes >= 1 /\ \E w \in Workers : sched[w].pc \in {"release", "recover"}
                                        /\ sched[w].job = j
OwnedInv == Dead /\ LocksOwn /\ \A j \in Jobs : file[j].status = "running" => Handled(j)

\* Before the first crash everything is in the hands of the worker that is up.
LEMMA OnlyHand ==
  ASSUME SoloInv, Dead, NEW w \in Workers, NEW v \in Workers, NEW i \in Jobs
  PROVE  /\ crashes = 0 /\ proc[w] = "up" /\ run[v][i] # "none" => v = w
         /\ crashes = 0 /\ run[v][i] # "none" => proc[v] = "up"
         /\ proc[w] = "up" /\ sched[v].pc # "idle" => v = w
         /\ Claiming(v, i) => sched[v].pc # "idle" /\ run[v][i] = "none"
<1>1. crashes = 0 /\ run[v][i] # "none" => proc[v] = "up"
  BY DEF SoloInv, Alone, Dead
<1>2. sched[v].pc # "idle" => proc[v] = "up"
  BY DEF SoloInv, Alone, IdleSched
<1>3. Claiming(v, i) => sched[v].pc # "idle" /\ run[v][i] = "none"
  BY DEF Claiming, SoloInv, Listed, ClaimPcs
<1>4. proc[w] = "up" /\ proc[v] = "up" => v = w
  BY DEF SoloInv, Alone
<1>5. QED
  BY <1>1, <1>2, <1>3, <1>4

\* A step about j leaves the other jobs where they are.
LEMMA OwnedAt ==
  ASSUME OwnedInv, NEW j \in Jobs, UNCHANGED <<proc, crashes>>,
         \A i \in Jobs \ {j} :
           /\ lock'[i] = lock[i] /\ file'[i] = file[i]
           /\ \A v \in Workers :
                /\ run'[v][i] = run[v][i]
                /\ Claiming(v, i)' => Claiming(v, i)
                /\ sched[v].pc \in {"release", "recover"} /\ sched[v].job = i
                     => sched'[v] = sched[v],
         crashes = 0 => \A v \in Workers :
                          Claiming(v, j)' \/ run'[v][j] \in BusyPcs => lock'[j] = v,
         file'[j].status = "running" => Handled(j)'
  PROVE  OwnedInv'
<1>1. Dead'
  BY DEF OwnedInv, Dead
<1>2. LocksOwn'
  BY DEF OwnedInv, LocksOwn
<1>3. ASSUME NEW i \in Jobs, file'[i].status = "running" PROVE Handled(i)'
  <2>1. CASE i = j
    BY <1>3, <2>1
  <2>2. CASE i # j
    <3>1. Handled(i)
      BY <1>3, <2>2 DEF OwnedInv
    <3>2. LockDead(i) => LockDead(i)'
      BY <2>2 DEF LockDead
    <3>3. QED
      BY <2>2, <3>1, <3>2 DEF Handled
  <2>3. QED
    BY <2>1, <2>2
<1>4. QED
  BY <1>1, <1>2, <1>3 DEF OwnedInv

\* Nothing but the scheduler of one worker moves, and it neither claims nor
\* drops a recovery.
LEMMA OwnedQuietly ==
  ASSUME OwnedInv, UNCHANGED <<file, lock, run, crashes>>,
         \A v \in Workers : proc[v] = "dead" <=> proc'[v] = "dead",
         \A v \in Workers, i \in Jobs :
           /\ Claiming(v, i)' => Claiming(v, i)
           /\ sched[v].pc \in {"release", "recover"} /\ sched[v].job = i
                => sched'[v] = sched[v]
  PROVE  OwnedInv'
<1>1. Dead' /\ LocksOwn'
  BY DEF OwnedInv, Dead, LocksOwn
<1>2. ASSUME NEW i \in Jobs, Handled(i) PROVE Handled(i)'
  <2>1. LockDead(i) => LockDead(i)'
    BY DEF LockDead
  <2>2. QED
    BY <1>2, <2>1 DEF Handled
<1>3. QED
  BY <1>1, <1>2 DEF OwnedInv

LEMMA OwnedSched ==
  ASSUME SoloInv, SoloInv', OwnedInv, NEW w \in Workers, NEW j \in Jobs, SchedStep(w, j)
  PROVE  OwnedInv'
<1> USE DEF store, locks, runs
<1>0. /\ proc[w] = "up" /\ UNCHANGED <<proc, crashes>>
      /\ sched \in [Workers -> Sched] /\ lock \in [Jobs -> Workers \cup {NoWorker}]
      /\ file \in [Jobs -> Rec] /\ run \in [Workers -> [Jobs -> RunPcs]]
      /\ Dead
  BY DEF SchedStep, ClaimRead, LockCreate, LockInspect, LockRemove, LockRecreate, LockResave,
     ClaimSave, RecoverRead, RecoverRelease, RecoverSave, SoloInv, TypeOK, Sched, OwnedInv
<1>1. \A v \in Workers \ {w} : sched'[v] = sched[v] /\ \A i \in Jobs : run'[v][i] = run[v][i]
  BY <1>0 DEF SchedStep, ClaimRead, LockCreate, LockInspect, LockRemove, LockRecreate,
     LockResave, ClaimSave, RecoverRead, RecoverRelease, RecoverSave
<1>2. \A i \in Jobs \ {j} : lock'[i] = lock[i] /\ file'[i] = file[i] /\ run'[w][i] = run[w][i]
  BY <1>0 DEF SchedStep, ClaimRead, LockCreate, LockInspect, LockRemove, LockRecreate,
     LockResave, ClaimSave, RecoverRead, RecoverRelease, RecoverSave, Save, RemoveLock, CreateLock
<1>3. \A v \in Workers \ {w} : sched[v].pc = "idle" /\ sched'[v].pc = "idle"
  BY <1>0, <1>1, OnlyHand
<1>4. \A v \in Workers : crashes = 0 /\ run[v][j] # "none" => v = w
  BY <1>0, OnlyHand
<1>5. "none" \notin BusyPcs
  BY DEF BusyPcs, HeldPcs
<1>6. \A v \in Workers, i \in Jobs : Claiming(v, i)' => v = w /\ sched'[w].pc \in {"resave", "claim"} /\ sched'[w].job = i
  BY <1>3 DEF Claiming
<1>7. \A v \in Workers : sched[v].pc \in {"release", "recover"} => v = w
  BY <1>3
\* The claim loop, up to the claim.
<1>8. CASE ClaimRead(w, j) \/ LockInspect(w, j)
  <2>1. /\ UNCHANGED <<file, lock, run>> /\ sched[w].pc \in {"scan", "exists"}
        /\ sched'[w].pc \in {"scan", "lock", "steal"}
    <3>1. CASE ClaimRead(w, j)
      <4>1. \/ sched' = [sched EXCEPT ![w].cands = @ \ {j}]
            \/ sched' = [sched EXCEPT ![w] = [pc |-> "lock", cands |-> @.cands \ {j},
                                              job |-> j, rec |-> file[j]]]
        BY <3>1 DEF ClaimRead
      <4>2. sched[w].pc = "scan" /\ UNCHANGED <<file, lock, run>>
        BY <3>1 DEF ClaimRead
      <4>3. QED
        BY <1>0, <4>1, <4>2 DEF Sched
    <3>2. CASE LockInspect(w, j)
      <4>1. sched' = [sched EXCEPT ![w].pc = "steal"] \/ sched' = [sched EXCEPT ![w] = Scan(w)]
        BY <1>0, <3>2 DEF LockInspect
      <4>2. sched[w].pc = "exists" /\ UNCHANGED <<file, lock, run>>
        BY <3>2 DEF LockInspect
      <4>3. QED
        BY <1>0, <4>1, <4>2 DEF Sched, Scan
    <3>3. QED
      BY <1>8, <3>1, <3>2
  <2>2. QED
    BY <1>0, <1>6, <1>7, <2>1, OwnedQuietly
<1>9. CASE LockCreate(w, j) \/ LockRemove(w, j) \/ LockRecreate(w, j) \/ LockResave(w, j)
  <2>1. /\ UNCHANGED run /\ sched[w].pc \in ClaimPcs /\ sched[w].job = j
        /\ file' = file
    BY <1>0, <1>9 DEF LockCreate, LockRemove, LockRecreate, LockResave, ClaimPcs, Save,
       SoloInv, Listed
  <2>2. sched'[w].pc \in {"resave", "claim"} =>
          /\ lock'[j] = w \/ (Claiming(w, j) /\ lock' = lock)
          /\ sched'[w].job = j
    <3>1. CASE LockCreate(w, j)
      <4>1. \/ lock' = [lock EXCEPT ![j] = w] /\ sched' = [sched EXCEPT ![w].pc = "claim"]
            \/ sched' = [sched EXCEPT ![w].pc = "exists"]
        BY <3>1 DEF LockCreate, CreateLock
      <4>2. sched[w].job = j
        BY <3>1 DEF LockCreate
      <4>3. QED
        BY <1>0, <4>1, <4>2 DEF Sched
    <3>2. CASE LockRemove(w, j)
      BY <1>0, <3>2 DEF LockRemove, Sched
    <3>3. CASE LockRecreate(w, j)
      <4>1. \/ lock' = [lock EXCEPT ![j] = w] /\ sched' = [sched EXCEPT ![w].pc = "resave"]
            \/ sched' = [sched EXCEPT ![w] = Scan(w)]
        BY <3>3 DEF LockRecreate, CreateLock
      <4>2. sched[w].job = j
        BY <3>3 DEF LockRecreate
      <4>3. QED
        <5>1. CASE lock' = [lock EXCEPT ![j] = w] /\ sched' = [sched EXCEPT ![w].pc = "resave"]
          BY <1>0, <4>2, <5>1 DEF Sched
        <5>2. CASE sched' = [sched EXCEPT ![w] = Scan(w)]
          <6>1. Scan(w).pc = "scan"
            BY <1>0 DEF Scan, Sched
          <6>2. QED
            BY <1>0, <5>2, <6>1
        <5>3. QED
          BY <4>1, <5>1, <5>2
    <3>4. CASE LockResave(w, j)
      BY <1>0, <3>4 DEF LockResave, Sched, Claiming
    <3>5. QED
      BY <1>9, <3>1, <3>2, <3>3, <3>4
  <2>3. run[w][j] = "none" /\ file[j].status = "queued"
    BY <2>1 DEF SoloInv, Listed
  <2>4. crashes = 0 => \A v \in Workers :
          Claiming(v, j)' \/ run'[v][j] \in BusyPcs => lock'[j] = v
    <3> SUFFICES ASSUME crashes = 0, NEW v \in Workers, Claiming(v, j)' \/ run'[v][j] \in BusyPcs
        PROVE  lock'[j] = v
      OBVIOUS
    <3>1. run[v][j] \notin BusyPcs
      BY <1>4, <1>5, <2>3
    <3>2. v = w /\ sched'[w].pc \in {"resave", "claim"}
      BY <1>6, <2>1, <3>1
    <3>3. QED
      BY <2>2, <3>2 DEF OwnedInv, LocksOwn
  <2>5. \A i \in Jobs \ {j}, v \in Workers :
          /\ ~Claiming(v, i)'
          /\ ~(sched[v].pc \in {"release", "recover"} /\ sched[v].job = i)
    BY <1>6, <1>7, <2>1, <2>2 DEF ClaimPcs
  <2>6. QED
    BY <1>0, <1>2, <2>1, <2>3, <2>4, <2>5, OwnedAt
<1>10. CASE ClaimSave(w, j)
  <2>1. /\ Claiming(w, j) /\ sched[w].pc = "claim" /\ sched'[w] = IdleSched
        /\ UNCHANGED lock /\ run'[w][j] \in {"spawn", "start"}
    BY <1>0, <1>10 DEF ClaimSave, Claiming
  <2>2. run[w][j] = "none"
    BY <2>1, OnlyHand, <1>0
  <2>3. \A v \in Workers, i \in Jobs : ~Claiming(v, i)'
    BY <1>6, <2>1 DEF IdleSched
  <2>4. crashes = 0 => \A v \in Workers : run'[v][j] \in BusyPcs => lock'[j] = v
    BY <1>1, <1>4, <1>5, <2>1 DEF OwnedInv, LocksOwn
  <2>5. Handled(j)'
    BY <2>1 DEF Handled, BusyPcs, HeldPcs
  <2>6. QED
    BY <1>0, <1>1, <1>2, <1>7, <2>1, <2>3, <2>4, <2>5, OwnedAt
\* The recovery.
<1>11. CASE RecoverRead(w, j) \/ RecoverRelease(w, j)
  <2>1. /\ sched'[w].pc \in {"release", "recover"} /\ sched'[w].job = j /\ UNCHANGED <<file, run>>
        /\ sched[w].pc = "idle" \/ sched[w].job = j
    BY <1>0, <1>11 DEF RecoverRead, RecoverRelease, Sched
  <2>2. file'[j].status = "running" /\ \A v \in Workers : run'[v][j] = "none"
    BY <2>1, ZenonT(60) DEF SoloInv, Recovering
  <2>3. crashes >= 1 /\ crashes # 0
    <3>1. Handled(j)
      BY <2>1, <2>2 DEF OwnedInv
    <3>2. crashes >= 1
      BY <1>5, <2>1, <2>2, <3>1 DEF Handled
    <3>3. QED
      BY <3>2
  <2>4. Handled(j)'
    BY <1>0, <2>1, <2>3 DEF Handled
  <2>5. \A v \in Workers, i \in Jobs : ~Claiming(v, i)'
    BY <1>6, <2>1
  <2>6. \A i \in Jobs \ {j}, v \in Workers :
          ~(sched[v].pc \in {"release", "recover"} /\ sched[v].job = i)
    BY <1>7, <2>1
  <2>7. QED
    BY <1>0, <1>2, <2>1, <2>3, <2>4, <2>5, <2>6, OwnedAt
<1>12. CASE RecoverSave(w, j)
  <2>1. /\ sched'[w] = IdleSched /\ UNCHANGED <<lock, run>> /\ sched[w].job = j
        /\ file'[j] = sched[w].rec /\ sched[w].pc = "recover"
    BY <1>0, <1>12 DEF RecoverSave, Save
  <2>2. file'[j].status = "failed"
    <3>1. sched[w].rec = [file[j] EXCEPT !.status = "failed"]
      BY <2>1 DEF SoloInv, Recovering
    <3>2. QED
      BY <1>0, <2>1, <3>1 DEF Rec
  <2>3. \A v \in Workers, i \in Jobs : ~Claiming(v, i)'
    BY <1>6, <2>1 DEF IdleSched
  <2>4. crashes = 0 => \A v \in Workers : run'[v][j] \in BusyPcs => lock'[j] = v
    BY <2>1 DEF OwnedInv, LocksOwn
  <2>5. \A i \in Jobs \ {j}, v \in Workers :
          ~(sched[v].pc \in {"release", "recover"} /\ sched[v].job = i)
    BY <1>7, <2>1
  <2>6. QED
    BY <1>0, <1>2, <2>1, <2>2, <2>3, <2>4, <2>5, OwnedAt
<1>13. QED
  BY <1>8, <1>9, <1>10, <1>11, <1>12 DEF SchedStep

LEMMA OwnedRun ==
  ASSUME SoloInv, SoloInv', OwnedInv, NEW w \in Workers, NEW j \in Jobs, RunStep(w, j)
  PROVE  OwnedInv'
<1> USE DEF store, locks, Leave, GoTo, Keep
<1>0. /\ UNCHANGED <<proc, crashes, sched>> /\ run[w][j] # "none"
      /\ lock \in [Jobs -> Workers \cup {NoWorker}] /\ Dead
      /\ file \in [Jobs -> Rec] /\ run \in [Workers -> [Jobs -> RunPcs]]
      /\ mem \in [Workers -> [Jobs -> Rec]]
  BY DEF RunStep, RunSpawn, RunBegin, RunCheck, RunCancelled, RunWork, RunFinish, RunFail,
     RunRelease, ReapRead, ReapSave, ReapRelease, SoloInv, TypeOK, OwnedInv
<1>1. /\ \A v \in Workers, i \in Jobs : v # w \/ i # j => run'[v][i] = run[v][i]
      /\ \A i \in Jobs \ {j} : file'[i] = file[i] /\ lock'[i] = lock[i]
  BY <1>0 DEF RunStep, RunSpawn, RunBegin, RunCheck, RunCancelled, RunWork, RunFinish, RunFail,
     RunRelease, ReapRead, ReapSave, ReapRelease, Save, RemoveLock
<1>2. run[w][j] \notin {"cancelled", "thrown"} /\ run'[w][j] \notin {"cancelled", "thrown"}
  BY DEF SoloInv, Calm
<1>3. \A v \in Workers, i \in Jobs : Claiming(v, i)' <=> Claiming(v, i)
  BY <1>0 DEF Claiming
<1>4. CASE RunSpawn(w, j) \/ RunBegin(w, j) \/ RunCheck(w, j) \/ RunCancelled(w, j)
           \/ RunWork(w, j) \/ RunFinish(w, j) \/ RunFail(w, j) \/ ReapRead(w, j)
           \/ ReapSave(w, j)
  <2>1. UNCHANGED lock /\ run[w][j] \in BusyPcs
    BY <1>2, <1>4 DEF RunSpawn, RunBegin, RunCheck, RunCancelled, RunWork, RunFinish, RunFail,
       ReapRead, ReapSave, BusyPcs, HeldPcs
  <2>2. file'[j].status = "running" => run'[w][j] \in BusyPcs
    <3>1. CASE RunSpawn(w, j) \/ RunBegin(w, j) \/ RunCheck(w, j) \/ RunWork(w, j)
      BY <1>0, <1>2, <3>1 DEF RunSpawn, RunBegin, RunCheck, RunWork, BusyPcs, HeldPcs
    <3>2. CASE RunFinish(w, j)
      BY <1>0, <3>2 DEF RunFinish, Save, Rec
    <3>3. CASE RunFail(w, j)
      <4>1. run'[w][j] # "thrown"
        BY <1>2
      <4>2. \E s \in {"queued", "failed"} : file'[j] = [mem[w][j] EXCEPT !.status = s]
        BY <1>0, <3>3, <4>1 DEF RunFail, Save
      <4>3. QED
        BY <1>0, <4>2 DEF Rec
    <3>4. CASE ReapRead(w, j)
      BY <1>0, <3>4 DEF ReapRead, BusyPcs
    <3>5. CASE ReapSave(w, j)
      <4>1. file'[j] = [mem[w][j] EXCEPT !.status = "failed"]
        BY <1>0, <3>5 DEF ReapSave, Save, Reaped
      <4>2. QED
        BY <1>0, <4>1 DEF Rec
    <3>6. CASE RunCancelled(w, j)
      BY <1>2, <3>6 DEF RunCancelled
    <3>7. QED
      BY <1>4, <3>1, <3>2, <3>3, <3>4, <3>5, <3>6
  <2>3. crashes = 0 => \A v \in Workers :
          Claiming(v, j)' \/ run'[v][j] \in BusyPcs => lock'[j] = v
    BY <1>1, <1>3, <2>1 DEF OwnedInv, LocksOwn
  <2>4. QED
    BY <1>0, <1>1, <1>3, <2>1, <2>2, <2>3, OwnedAt DEF Handled
<1>5. CASE RunRelease(w, j) \/ ReapRelease(w, j)
  <2>1. UNCHANGED file /\ run[w][j] \notin BusyPcs /\ run'[w][j] = "none"
    BY <1>0, <1>2, <1>5 DEF RunRelease, ReapRelease, BusyPcs, HeldPcs
  <2>2. crashes = 0 => \A v \in Workers : ~Claiming(v, j)' /\ run'[v][j] \notin BusyPcs
    <3> SUFFICES ASSUME crashes = 0, NEW v \in Workers
        PROVE  ~Claiming(v, j) /\ run'[v][j] \notin BusyPcs
      BY <1>3
    <3>1. proc[w] = "up"
      BY <1>0, OnlyHand
    <3>2. ~Claiming(v, j)
      BY <1>0, <3>1, OnlyHand
    <3>3. v # w => run[v][j] = "none"
      BY <1>0, <3>1, OnlyHand
    <3>4. QED
      BY <1>1, <2>1, <3>2, <3>3 DEF BusyPcs, HeldPcs
  <2>3. file'[j].status = "running" => Handled(j)'
    <3> SUFFICES ASSUME file[j].status = "running" PROVE Handled(j)'
      BY <2>1
    <3>1. Handled(j)
      BY DEF OwnedInv
    <3>2. QED
      BY <1>0, <1>1, <2>1, <3>1 DEF Handled
  <2>4. QED
    BY <1>0, <1>1, <1>3, <2>2, <2>3, OwnedAt
<1>6. QED
  BY <1>4, <1>5 DEF RunStep

\* The one crash there is.
LEMMA OwnedCrash ==
  ASSUME MaxCrashes <= 1, SoloInv, SoloInv', OwnedInv, NEW w \in Workers, Crash(w)
  PROVE  OwnedInv'
<1> USE DEF store, locks
<1>0. /\ run \in [Workers -> [Jobs -> RunPcs]] /\ proc \in [Workers -> {"new", "up", "dead"}]
      /\ sched \in [Workers -> Sched] /\ Dead
  BY DEF SoloInv, TypeOK, Sched, OwnedInv
<1>1. /\ crashes = 0 /\ crashes' = 1 /\ proc[w] = "up" /\ UNCHANGED <<file, lock>>
      /\ proc'[w] = "dead"
  BY <1>0, BoundsAssumption DEF Crash, SoloInv, TypeOK
<1>2. \A v \in Workers, j \in Jobs :
        run'[v][j] = IF v = w /\ ~InChild(w, j) THEN "none" ELSE run[v][j]
  BY <1>0 DEF Crash
<1>3. Dead' /\ LocksOwn'
  BY <1>1 DEF Dead, LocksOwn
<1>4. ASSUME NEW j \in Jobs, file[j].status = "running" PROVE Handled(j)'
  <2>1. PICK v \in Workers : run[v][j] \in BusyPcs
    BY <1>1, <1>4 DEF OwnedInv, Handled
  <2>2. v = w /\ lock[j] = w
    BY <1>0, <1>1, <2>1, OnlyHand DEF OwnedInv, LocksOwn, BusyPcs, HeldPcs
  <2>3. \A u \in Workers \ {w} : run[u][j] = "none"
    BY <1>0, <1>1, OnlyHand
  <2>4. CASE InChild(w, j)
    BY <1>2, <2>1, <2>2, <2>4 DEF Handled
  <2>5. CASE ~InChild(w, j)
    <3>1. LockDead(j)'
      BY <1>1, <2>2 DEF LockDead
    <3>2. \A u \in Workers : run'[u][j] = "none"
      BY <1>2, <2>3, <2>5
    <3>3. QED
      BY <1>1, <3>1, <3>2 DEF Handled
  <2>6. QED
    BY <2>4, <2>5
<1>5. QED
  BY <1>1, <1>3, <1>4 DEF OwnedInv

LEMMA OwnedCrashChild ==
  ASSUME MaxCrashes <= 1, SoloInv, OwnedInv, NEW w \in Workers, NEW j \in Jobs,
         CrashChild(w, j)
  PROVE  OwnedInv'
<1> USE DEF store, locks
<1>0. /\ run \in [Workers -> [Jobs -> RunPcs]] /\ Dead
  BY DEF SoloInv, TypeOK, OwnedInv
<1>1. /\ crashes = 0 /\ crashes' = 1 /\ UNCHANGED <<file, lock, proc, sched>>
      /\ run[w][j] # "none"
  BY <1>0, BoundsAssumption DEF CrashChild, SoloInv, TypeOK, ChildPcs
<1>2. proc[w] = "up"
  BY <1>0, <1>1, OnlyHand
<1>3. \A v \in Workers, i \in Jobs :
        run'[v][i] = IF v = w /\ i = j THEN "reap" ELSE run[v][i]
  BY <1>0, <1>2 DEF CrashChild
<1>4. Dead' /\ LocksOwn'
  BY <1>1 DEF Dead, LocksOwn
<1>5. ASSUME NEW i \in Jobs, file[i].status = "running" PROVE Handled(i)'
  <2>1. PICK v \in Workers : run[v][i] \in BusyPcs
    BY <1>1, <1>5 DEF OwnedInv, Handled
  <2>2. run'[v][i] \in BusyPcs
    BY <1>3, <2>1 DEF BusyPcs
  <2>3. QED
    BY <2>2 DEF Handled
<1>6. QED
  BY <1>1, <1>4, <1>5 DEF OwnedInv

LEMMA OwnedInductive ==
  ASSUME OneAtATime, MaxCrashes <= 1, SoloInv, SoloInv', OwnedInv, [Next]_vars
  PROVE  OwnedInv'
<1> USE DEF store, locks, runs, webs
<1>1. CASE UNCHANGED vars
  BY <1>1, OwnedQuietly DEF vars, Claiming
<1>2. CASE Next
  <2>1. ASSUME NEW j \in Jobs, WorldStep(j) PROVE OwnedInv'
    <3>1. CASE RecordAges(j) \/ LockAges(j)
      BY <3>1, OwnedQuietly DEF RecordAges, LockAges, Claiming
    <3>2. CASE Submit(j)
      <4>1. /\ file' = [file EXCEPT ![j] = NewJob] /\ file \in [Jobs -> Rec]
            /\ UNCHANGED <<lock, proc, sched, run, crashes>>
        BY <3>2 DEF Submit, Save, SoloInv, TypeOK
      <4>2. file'[j].status # "running" /\ \A i \in Jobs \ {j} : file'[i] = file[i]
        BY <4>1 DEF NewJob
      <4>3. crashes = 0 => \A v \in Workers :
              Claiming(v, j)' \/ run'[v][j] \in BusyPcs => lock'[j] = v
        BY <4>1 DEF OwnedInv, LocksOwn, Claiming
      <4>4. QED
        BY <4>1, <4>2, <4>3, OwnedAt DEF Claiming
    <3>3. QED
      BY <2>1, <3>1, <3>2 DEF WorldStep, CancelRead, CancelSave, Delete, OneAtATime, SoloInv, Calm
  <2>2. ASSUME NEW w \in Workers, Start(w) \/ ClaimList(w) \/ ClaimNone(w) PROVE OwnedInv'
    <3>1. /\ UNCHANGED <<file, lock, run, crashes>>
          /\ \A v \in Workers : proc[v] = "dead" <=> proc'[v] = "dead"
      BY <2>2 DEF Start, ClaimList, ClaimNone, SoloInv, TypeOK
    <3>2. \A v \in Workers :
            \/ sched'[v] = sched[v]
            \/ sched[v].pc \in {"idle", "scan"} /\ sched'[v].pc \in {"idle", "scan"}
      <4>1. sched \in [Workers -> Sched]
        BY DEF SoloInv, TypeOK, Sched
      <4>2. CASE Start(w)
        <5>1. UNCHANGED sched
          BY <4>2 DEF Start
        <5>2. QED
          BY <5>1
      <4>3. CASE ClaimList(w)
        <5>1. /\ sched' = [sched EXCEPT ![w].pc = "scan", ![w].cands = Claimable(w)]
              /\ sched[w].pc = "idle"
          BY <4>3 DEF ClaimList
        <5>2. sched'[w].pc = "scan" /\ \A v \in Workers \ {w} : sched'[v] = sched[v]
          BY <4>1, <5>1 DEF Sched
        <5>3. QED
          BY <5>1, <5>2
      <4>4. CASE ClaimNone(w)
        <5>1. /\ sched' = [sched EXCEPT ![w] = IdleSched] /\ IdleSched.pc = "idle"
              /\ sched[w].pc = "scan"
          BY <4>4 DEF ClaimNone, IdleSched
        <5>2. QED
          BY <4>1, <5>1
      <4>5. QED
        BY <2>2, <4>2, <4>3, <4>4
    <3>3. QED
      BY <3>1, <3>2, OwnedQuietly DEF Claiming
  <2>3. QED
    BY <1>2, <2>1, <2>2, NextCases, OwnedSched, OwnedRun, OwnedCrash, OwnedCrashChild
<1>3. QED
  BY <1>1, <1>2

\* A job that says running is in somebody's hands, or its lock names a dead
\* owner and the recovery takes it after the short grace, when at most one
\* process dies.
THEOREM SoloRunningIsOwned ==
  ASSUME OneAtATime, MaxCrashes <= 1 PROVE Spec => []RunningIsOwned
<1>1. Init => OwnedInv
  <2> SUFFICES ASSUME Init PROVE OwnedInv
    OBVIOUS
  <2>1. Dead
    BY DEF Init, Dead
  <2>2. LocksOwn
    BY DEF Init, LocksOwn, Claiming, IdleSched, BusyPcs, HeldPcs
  <2>3. \A j \in Jobs : file[j].status # "running"
    BY DEF Init, NoRec
  <2>4. QED
    BY <2>1, <2>2, <2>3 DEF OwnedInv
<1>2. SoloInv /\ SoloInv' /\ OwnedInv /\ [Next]_vars => OwnedInv'
  BY OwnedInductive
<1>3. SoloInv /\ OwnedInv => RunningIsOwned
  <2> SUFFICES ASSUME SoloInv, OwnedInv, NEW j \in Jobs, file[j].status = "running", ~LockDead(j),
                      NEW w \in Workers, run[w][j] \in BusyPcs
      PROVE  run[w][j] # "none" /\ Alive(w, j)
    BY DEF RunningIsOwned, OwnedInv, Handled
  <2>1. run[w][j] # "none"
    BY DEF BusyPcs, HeldPcs
  <2>2. QED
    BY <2>1, RunsAlive
<1>4. QED
  BY <1>1, <1>2, <1>3, SoloAlways, PTL DEF Spec
=============================================================================
