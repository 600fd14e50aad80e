---------------------------- MODULE JobListing ----------------------------
(***************************************************************************)
(* The list of jobs on its way from the store to the browser: summaries    *)
(* read by a single-flight scan and kept for two seconds, a page kept for  *)
(* ten (server/jobStore.ts), the answer of the route kept for two          *)
(* (app/api/jobs/route.ts), and requests of the browser that are answered  *)
(* in any order (app/page.tsx, whose own state is in Workbench).  With     *)
(* SQLite (primary) a page is one query and only the last cache is left.   *)
(*                                                                         *)
(* The browser submits, cancels and deletes; workers in other processes    *)
(* change the jobs without the caches of the web server hearing of it.     *)
(***************************************************************************)
EXTENDS Naturals, FiniteSets

CONSTANTS
  Listed,         \* the jobs
  maxQueuedJobs,  \* the quota
  MaxOps,         \* bound on the operations of the browser
  MaxPutBacks     \* bound on the jobs that are put back into the queue

ASSUME ListingAssumption ==
  IsFiniteSet(Listed) /\ maxQueuedJobs \in Nat /\ MaxOps \in Nat /\ MaxPutBacks \in Nat

VARIABLES
  primary,       \* better-sqlite3 is loaded
  disk,          \* what the store holds
  summaries,     \* jobSummariesCache, or NoList
  scan,          \* jobSummariesInflight: what it has read, or NoList
  page,          \* pagedFallbackCache, or NoList
  jobsGetCache,  \* the cache of the route, or NoList
  work,          \* a GET waits for the scan
  request,       \* of the poll and of the refresh after an operation: whether it
                 \* is "idle", "sent", "joined" or "answered", and the answer
  view,          \* what the browser shows
  op,            \* the operation in progress: kind, job, next step
  ops,           \* operations so far
  polls,         \* autoRefreshEnabled
  again,         \* the jobs that have been put back into the queue for another attempt
  owed           \* the last operation, if the store has it and the route has
                 \* answered it: <<>> or the job and whether it is to be seen

lvars == <<primary, disk, summaries, scan, page, jobsGetCache, work, request,
           view, op, ops, polls, again, owed>>
stored == <<disk, again>>
caches == <<summaries, scan, page, jobsGetCache, work>>
browser == <<request, view>>
operation == <<op, ops, polls, owed>>

NoList == <<>>
JobStates == {"none", "queued", "running", "done"}
Lists == [Listed -> JobStates]
Scans == [Listed -> JobStates \cup {"unread"}]
Requests == {"poll", "refresh"}
NoRequest == [at |-> "idle", list |-> NoList]
NoOp == [kind |-> "none", job |-> "none", at |-> "idle"]
Empty == [j \in Listed |-> "none"]

ListingInit ==
  /\ primary \in BOOLEAN
  /\ disk = Empty /\ view = Empty
  /\ summaries = NoList /\ scan = NoList /\ page = NoList
  /\ jobsGetCache = NoList /\ work = FALSE
  /\ request = [r \in Requests |-> NoRequest]
  /\ op = NoOp /\ ops = 0 /\ polls = TRUE /\ again = {} /\ owed = <<>>

\* A worker, in another process, changes a job: it starts it and ends it ...
WorkerChanges(j) ==
  /\ \/ disk[j] = "queued" /\ disk' = [disk EXCEPT ![j] = "running"]
     \/ disk[j] = "running" /\ disk' = [disk EXCEPT ![j] = "done"]
  /\ UNCHANGED <<primary, again, caches, browser, operation>>

\* ... or puts it into the queue again when its attempt has failed or its worker has
\* died (which counts as an operation where the store is read by scans: a bound).
PutBack(j) ==
  /\ disk[j] = "running" /\ Cardinality(again) < MaxPutBacks
  /\ ops' = IF primary THEN ops ELSE ops + 1
  /\ ops' <= MaxOps
  /\ disk' = [disk EXCEPT ![j] = "queued"]
  /\ again' = again \cup {j}
  /\ UNCHANGED <<primary, caches, browser, op, polls, owed>>

-----------------------------------------------------------------------------
(* Reading: the route and the store *)

Asks(r, at) == request' = [request EXCEPT ![r].at = at]
Answered(l, rs) ==
  [r \in Requests |-> IF r \in rs THEN [at |-> "answered", list |-> l] ELSE request[r]]
Joined == {r \in Requests : request[r].at = "joined"}

\* The poll, every 15 seconds, unless one is under way or the user has switched it off.
SendPoll ==
  /\ polls /\ request["poll"].at = "idle"
  /\ Asks("poll", "sent")
  /\ UNCHANGED <<primary, stored, caches, view, operation>>

\* The user switches it, which has the list refreshed at once (what several requests
\* under way do to each other is in Workbench).
SwitchPolling ==
  /\ ops < MaxOps
  /\ polls' = ~polls /\ ops' = ops + 1
  /\ IF request["poll"].at = "idle" THEN Asks("poll", "sent") ELSE UNCHANGED request
  /\ UNCHANGED <<primary, stored, caches, view, op, owed>>

\* GET: the kept answer of the route; the work in progress for the same query; or
\* new work, which is done at once from SQLite, the kept page or the kept
\* summaries, and otherwise waits for a scan, a new one or the one in flight.
GetJobs(r) ==
  /\ request[r].at = "sent"
  /\ LET known == IF primary THEN disk
                  ELSE IF page # NoList THEN page ELSE summaries IN
     \/ /\ jobsGetCache # NoList
        /\ request' = Answered(jobsGetCache, {r})
        /\ UNCHANGED <<caches>>
     \/ /\ jobsGetCache = NoList /\ ~work /\ known # NoList
        /\ request' = Answered(known, {r})
        /\ jobsGetCache' = known
        /\ page' = IF primary THEN page ELSE known
        /\ UNCHANGED <<summaries, scan, work>>
     \/ /\ jobsGetCache = NoList /\ (work \/ known = NoList)
        /\ Asks(r, "joined")
        /\ work' = TRUE
        /\ scan' = IF scan = NoList THEN [j \in Listed |-> "unread"] ELSE scan
        /\ UNCHANGED <<summaries, page, jobsGetCache>>
  /\ UNCHANGED <<primary, stored, view, operation>>

\* The scan reads one summary after the other.
ScanReads(j) ==
  /\ scan # NoList
  /\ scan[j] = "unread"
  /\ scan' = [scan EXCEPT ![j] = disk[j]]
  /\ UNCHANGED <<primary, stored, summaries, page, jobsGetCache, work, browser, operation>>

ScanDone == scan # NoList /\ \A j \in Listed : scan[j] # "unread"

\* Its end fills the caches and answers all that wait for it.
ScanEnds ==
  /\ ScanDone
  /\ op.at # "counting"
  /\ summaries' = scan /\ scan' = NoList
  /\ IF work
     THEN page' = scan /\ jobsGetCache' = scan /\ request' = Answered(scan, Joined)
     ELSE UNCHANGED <<page, jobsGetCache, request>>
  /\ work' = FALSE
  /\ UNCHANGED <<primary, stored, view, operation>>

\* Fault: the kept answer of the route does not age.
RouteKeepsNever == FALSE

\* The caches age: two seconds, ten, two.
RouteKeeps == jobsGetCache # NoList

ExpireSummaries ==
  /\ summaries # NoList
  /\ summaries' = NoList
  /\ UNCHANGED <<primary, stored, scan, page, jobsGetCache, work, browser, operation>>
ExpirePage ==
  /\ page # NoList
  /\ page' = NoList
  /\ UNCHANGED <<primary, stored, summaries, scan, jobsGetCache, work, browser, operation>>
ExpireRoute ==
  /\ RouteKeeps
  /\ jobsGetCache' = NoList
  /\ UNCHANGED <<primary, stored, summaries, scan, page, work, browser, operation>>

\* An answer reaches the browser, whatever it has got since it asked.
Arrive(r) ==
  /\ request[r].at = "answered"
  /\ view' = request[r].list
  /\ request' = [request EXCEPT ![r] = NoRequest]
  /\ owed' = IF r = "refresh" THEN <<>> ELSE owed
  /\ UNCHANGED <<primary, stored, caches, op, ops, polls>>

-----------------------------------------------------------------------------
(* Writing: the operations of the browser, one at a time *)

Queued(list) == Cardinality({j \in Listed : list[j] = "queued"})

\* Fault: one job more.
WithinQuotaInclusive(n) == n <= maxQueuedJobs

\* enforceJobQuota for one job.
WithinQuota(n) == n < maxQueuedJobs

\* The user submits, or selects a job in the list (one by one through
\* /api/jobs/[id], or any number through /api/jobs).
Operate ==
  /\ op = NoOp /\ ops < MaxOps /\ request["refresh"].at = "idle"
  /\ \E j \in Listed, kind \in {"post", "cancel", "delete", "cancel one", "delete one"} :
       /\ IF kind = "post" THEN disk[j] = "none"
          ELSE view[j] # "none" /\ disk[j] # "none"
       /\ op' = [kind |-> kind, job |-> j,
                 at |-> IF kind = "post" THEN "quota" ELSE "clear"]
  /\ ops' = ops + 1 /\ owed' = <<>>
  /\ UNCHANGED <<primary, stored, caches, browser, polls>>

\* createJob goes on, or throws JOB_QUOTA_EXCEEDED.
Checked(n) ==
  op' = IF WithinQuota(n) THEN [op EXCEPT !.at = "clear"] ELSE NoOp

\* The quota is counted in SQLite or in the summaries, for which it may have to
\* start, or join, a scan.
CheckQuota ==
  /\ op.at = "quota"
  /\ LET known == IF primary THEN disk ELSE summaries IN
     IF known # NoList
     THEN Checked(Queued(known)) /\ UNCHANGED scan
     ELSE /\ op' = [op EXCEPT !.at = "counting"]
          /\ scan' = IF scan = NoList THEN [j \in Listed |-> "unread"] ELSE scan
  /\ UNCHANGED <<primary, stored, summaries, page, jobsGetCache, work, browser, ops, polls, owed>>

\* The end of a scan that the quota waits for.
CountScan ==
  /\ ScanDone /\ op.at = "counting"
  /\ Checked(Queued(scan))
  /\ UNCHANGED <<primary, stored, caches, browser, ops, polls, owed>>

\* saveJob and deleteJob clear the caches of the store first ...
ClearStore ==
  /\ op.at = "clear"
  /\ summaries' = NoList /\ page' = NoList
  /\ op' = [op EXCEPT !.at = "write"]
  /\ UNCHANGED <<primary, stored, scan, jobsGetCache, work, browser, ops, polls, owed>>

\* ... and write then.  A cancel settles a queued job and only marks a running one.
WriteStore ==
  /\ op.at = "write"
  /\ LET j == op.job IN
     /\ disk' = [disk EXCEPT ![j] =
                   CASE op.kind = "post" -> "queued"
                     [] op.kind \in {"delete", "delete one"} -> "none"
                     [] OTHER -> IF @ = "queued" THEN "done" ELSE @]
     /\ again' = IF op.kind = "post" THEN again \ {j} ELSE again
  /\ op' = [op EXCEPT !.at = "answer"]
  /\ UNCHANGED <<primary, caches, browser, ops, polls, owed>>

\* Fault: the route drops its answer only when a job is created.
DropsAnswerOfPost(kind) == kind = "post"

\* POST, and PATCH and DELETE of /api/jobs, drop the answer the route keeps; the
\* routes of one job, in a module of their own, cannot.
DropsAnswer(kind) == kind \in {"post", "cancel", "delete"}

\* The answer makes the browser refresh its list.
AnswerOp ==
  /\ op.at = "answer"
  /\ jobsGetCache' = IF DropsAnswer(op.kind) THEN NoList ELSE jobsGetCache
  /\ Asks("refresh", "sent")
  /\ owed' = IF op.kind \in {"post", "delete"}
             THEN <<op.job, op.kind = "post">> ELSE <<>>
  /\ op' = NoOp
  /\ UNCHANGED <<primary, stored, summaries, scan, page, work, view, ops, polls>>

Reading ==
  \/ \E r \in Requests : GetJobs(r) \/ Arrive(r)
  \/ \E j \in Listed : ScanReads(j)
  \/ ScanEnds \/ CountScan
Expiry == ExpireSummaries \/ ExpirePage \/ ExpireRoute
Writing == CheckQuota \/ ClearStore \/ WriteStore \/ AnswerOp

ListingNext ==
  \/ SendPoll \/ SwitchPolling \/ Reading \/ Expiry \/ Writing \/ Operate
  \/ \E j \in Listed : WorkerChanges(j) \/ PutBack(j)

-----------------------------------------------------------------------------
(* Properties *)

\* Every variable has the type its comment gives it.
ListingTypeOK ==
  /\ primary \in BOOLEAN /\ work \in BOOLEAN
  /\ disk \in Lists /\ view \in Lists
  /\ {summaries, page, jobsGetCache} \subseteq Lists \cup {NoList}
  /\ scan \in Scans \cup {NoList}
  /\ request \in [Requests -> [at : {"idle", "sent", "joined", "answered"},
                               list : Lists \cup {NoList}]]
  /\ op.at \in {"idle", "quota", "counting", "clear", "write", "answer"}
  /\ ops \in 0..MaxOps /\ polls \in BOOLEAN /\ again \subseteq Listed

\* With SQLite the refresh that follows a submission, or a deletion of selected
\* jobs, shows its effect, whatever the route has kept and whoever polls.
ReadYourWrites ==
  primary /\ owed # <<>> /\ request["refresh"].at = "answered" =>
    (request["refresh"].list[owed[1]] # "none" <=> owed[2])

\* With SQLite one user cannot submit beyond the quota, although it is counted before
\* the job is written and workers go on meanwhile: no more jobs wait for their first
\* attempt than it allows.  Jobs put back for another attempt may wait beside them.
Submitted == {j \in Listed : disk[j] = "queued"} \ again
QuotaKept == primary => Cardinality(Submitted) <= maxQueuedJobs

\* Whatever caches, scans in flight and late answers have shown meanwhile, the
\* browser comes to show what the store holds, unless its polling is switched off.
ViewIsCurrent == polls => view = disk
ViewConverges == <>[]ViewIsCurrent
=============================================================================
