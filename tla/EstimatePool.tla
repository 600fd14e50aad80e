--------------------------- MODULE EstimatePool ---------------------------
(***************************************************************************)
(* One estimate of a request: server/threadedEstimate.ts chooses between   *)
(* estimateAll and the cluster pool of server/computePool.ts, which hands  *)
(* the shapes to the worker threads of server/workerThreadPool.ts or, when *)
(* there are none or one of them fails, estimates them itself.             *)
(*                                                                         *)
(* Threads run on their own; what they have to say (a message, an error,   *)
(* their exit) reaches the pool as an event in a later step.               *)
(***************************************************************************)
EXTENDS Naturals, FiniteSets

CONSTANTS
  PoolTasks,   \* how many different shapes the request has
  PoolWorkers  \* the greatest TILEFORGE_COMPUTE_WORKERS, capped by the CPUs

ASSUME PoolAssumption == PoolTasks \in Nat /\ PoolWorkers \in Nat

Tasks == 1..PoolTasks

VARIABLES
  workers,   \* TILEFORGE_COMPUTE_WORKERS
  big,       \* the request has TILEFORGE_THREAD_THRESHOLD candidates or more
  threadless,\* TILEFORGE_DISABLE_WORKER_THREADS
  next,      \* the tasks 1..next have been given to a thread
  active,    \* the pool's own count of threads at work
  broken,    \* "failed" of the pool: it has been rejected
  results,   \* the tasks whose result the pool has
  thread,    \* the thread of each task
  answer     \* "none" yet, or the way the estimate was made

pvars == <<workers, big, threadless, next, active, broken, results, thread, answer>>
poolEnv == <<workers, big, threadless>>

\* What a thread has to tell: a result, a caught exception, an uncaught one
\* (its module cannot be loaded), or that it has been ended from outside.
Ends == {"ok", "bad", "error", "exit"}

PoolInit ==
  /\ workers \in 0..PoolWorkers
  /\ big \in BOOLEAN /\ threadless \in BOOLEAN
  /\ next = 0 /\ active = 0
  /\ broken = FALSE
  /\ results = {}
  /\ thread = [t \in Tasks |-> "none"]
  /\ answer = "none"

AtMost(a, b) == IF a < b THEN a ELSE b
workerCount == AtMost(workers, PoolTasks)

\* estimateMaybeThreaded: nothing asks for the pool.
EstimateAll ==
  /\ answer = "none"
  /\ workers = 0 /\ ~big
  /\ answer' = "all"
  /\ UNCHANGED <<poolEnv, next, active, broken, results, thread>>

shouldUseThreads == workers > 0 /\ big /\ PoolTasks > 1

\* The pool without threads: the main thread does every cluster.
EstimateClusters ==
  /\ answer = "none"
  /\ (workers > 0 \/ big) /\ ~shouldUseThreads
  /\ answer' = "single"
  /\ UNCHANGED <<poolEnv, next, active, broken, results, thread>>

\* One worker is no pool: the tasks are done here, still under the name of the
\* threads.
EstimateSynchronously ==
  /\ answer = "none"
  /\ shouldUseThreads /\ (workerCount <= 1 \/ threadless)
  /\ results' = Tasks
  /\ answer' = "threads"
  /\ UNCHANGED <<poolEnv, next, active, broken, thread>>

\* Fault: the pool is done when the last task has been handed out.
AllDoneWhenHandedOut(n, a) == n >= PoolTasks

\* The test of startNext for the end.
AllDone(n, a) == n >= PoolTasks /\ a = 0

\* startNext, called with a threads at work: done, or as many new threads as the
\* limit and the tasks allow.
StartNext(th, a) ==
  IF AllDone(next, a)
  THEN /\ answer' = "threads"
       /\ active' = a /\ thread' = th
       /\ UNCHANGED next
  ELSE LET k == AtMost(workerCount - a, PoolTasks - next) IN
       /\ next' = next + k
       /\ active' = a + k
       /\ thread' = [t \in Tasks |->
                       IF t \in next + 1 .. next + k THEN "running" ELSE th[t]]
       /\ UNCHANGED answer

StartPool ==
  /\ answer = "none" /\ next = 0
  /\ shouldUseThreads /\ workerCount > 1 /\ ~threadless
  /\ StartNext(thread, 0)
  /\ UNCHANGED <<poolEnv, broken, results>>

\* A thread comes to its end; nobody stops one that is not needed any more.
ThreadEnds(t) ==
  /\ thread[t] = "running"
  /\ \E e \in Ends : thread' = [thread EXCEPT ![t] = e]
  /\ UNCHANGED <<poolEnv, next, active, broken, results, answer>>

\* The rejection of the pool: estimateWithClusterPool catches it at once and
\* does all the clusters itself.  A second one has no effect.
Rejected ==
  /\ broken' = TRUE
  /\ answer' = IF answer = "none" THEN "fallback" ELSE answer

\* Fault: a message leaves the count of the threads as it was.
HeardFromNobody(a) == a

\* active--.
HeardFrom(a) == a - 1

\* "message": a result goes into the map and its thread is terminated, which
\* will make it exit with code 1; then the next task is started, unless the
\* pool has failed meanwhile.
MessageArrives(t) ==
  /\ thread[t] \in {"ok", "bad"}
  /\ LET th == [thread EXCEPT ![t] = "stopping"] IN
     IF thread[t] = "bad"
     THEN /\ Rejected
          /\ active' = HeardFrom(active) /\ thread' = th
          /\ UNCHANGED <<next, results>>
     ELSE /\ results' = results \cup {t}
          /\ IF broken
             THEN /\ active' = HeardFrom(active) /\ thread' = th
                  /\ UNCHANGED <<next, answer>>
             ELSE StartNext(th, HeardFrom(active))
          /\ UNCHANGED broken
  /\ UNCHANGED poolEnv

\* "error"
ErrorArrives(t) ==
  /\ thread[t] = "error"
  /\ thread' = [thread EXCEPT ![t] = "stopping"]
  /\ active' = HeardFrom(active)
  /\ Rejected
  /\ UNCHANGED <<poolEnv, next, results>>

\* Fault: an exit is only looked at for its code.
UnexpectedAtAnyTime(t) == TRUE

\* An exit with a code is bad news only of a task that has no result yet.
Unexpected(t) == ~broken /\ t \notin results

\* "exit", always with a code: of a terminated thread, or of one that was ended
\* before it could answer.
ExitArrives(t) ==
  /\ thread[t] \in {"stopping", "exit"}
  /\ thread' = [thread EXCEPT ![t] = "gone"]
  /\ IF Unexpected(t)
     THEN Rejected /\ active' = active - 1
     ELSE UNCHANGED <<broken, answer, active>>
  /\ UNCHANGED <<poolEnv, next, results>>

PoolMain ==
  \/ EstimateAll \/ EstimateClusters \/ EstimateSynchronously \/ StartPool
PoolEvent(t) == MessageArrives(t) \/ ErrorArrives(t) \/ ExitArrives(t)

PoolNext ==
  \/ PoolMain
  \/ \E t \in Tasks : ThreadEnds(t) \/ PoolEvent(t)

-----------------------------------------------------------------------------
(* Properties *)

\* Every variable has the type its comment gives it.
PoolTypeOK ==
  /\ workers \in 0..PoolWorkers /\ big \in BOOLEAN /\ threadless \in BOOLEAN
  /\ next \in 0..PoolTasks /\ active \in 0..PoolTasks
  /\ broken \in BOOLEAN
  /\ results \subseteq Tasks
  /\ thread \in [Tasks -> {"none", "running", "stopping", "gone"} \cup Ends]
  /\ answer \in {"none", "all", "single", "threads", "fallback"}

\* Until it fails, the pool knows how many threads owe it an answer, never has
\* more than it may, and lets none of them idle while tasks are left.
ActiveIsOutstanding ==
  next > 0 /\ ~broken =>
    /\ active = Cardinality({t \in Tasks : thread[t] \in {"running"} \cup Ends})
    /\ active <= workerCount
    /\ next < PoolTasks => active = workerCount

\* An answer of the pool has a result for every task (computePool.ts:90 reads the
\* map without looking), and only an answer of the pool says so.
CompleteAnswer ==
  /\ answer = "threads" => results = Tasks
  /\ answer = "fallback" => broken

\* Whatever its threads do, an estimate gets an answer.
HasAnswer == answer # "none"
EstimateEnds == <>HasAnswer
=============================================================================
