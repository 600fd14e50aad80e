---------------------------- MODULE SqliteStore ----------------------------
(***************************************************************************)
(* The job store when SQLite is the primary store, which is the default    *)
(* (server/jobStore.ts, server/sqliteStore.ts).  A save replaces job.json  *)
(* and the summary next to it, and then updates the row of the job in the  *)
(* database: its status column always, its json column only now and then,  *)
(* to keep progress updates cheap.  Readers get the json column; listings  *)
(* of what is queued and counts of what is running go by the status column.*)
(***************************************************************************)
EXTENDS Integers, FiniteSets, JobStatus

CONSTANTS
  Workers,       \* worker process incarnations (distinct pids)
  Web,           \* the web process
  Jobs,          \* job ids
  JsonInterval   \* TILEFORGE_SQLITE_FULL_JSON_WRITE_INTERVAL_MS; only 0 is special

ASSUME StoreAssumption == Web \notin Workers /\ JsonInterval \in Nat

Processes == Workers \cup {Web}

VARIABLES
  file,     \* job.json, and with it the status in job.summary.json
  row,      \* the row of each job: the status column and the json column
  pending,  \* per process and job: the record saved to job.json, not yet to the row
  recent    \* lastFullJsonWriteByJob: this process wrote the json column lately

store == <<file, row, pending, recent>>

\* The fields of JobRecord the control flow depends on.
Rec == [status : Statuses \cup {"none"}, cancelRequested : BOOLEAN, attempts : Nat]
NoRec == [status |-> "none", cancelRequested |-> FALSE, attempts |-> 0]
NoRow == [status |-> "none", json |-> NoRec]

StoreInit ==
  /\ file = [j \in Jobs |-> NoRec]
  /\ row = [j \in Jobs |-> NoRow]
  /\ pending = [p \in Processes |-> [j \in Jobs |-> NoRec]]
  /\ recent = [p \in Processes |-> [j \in Jobs |-> FALSE]]

\* No save of j by this process is under way (jobSaveQueues).
Ready(p, j) == pending[p][j] = NoRec

\* Fault: terminal records may be throttled as well.
MustWriteFullJsonByTime(p, j, rec) == ~recent[p][j]

\* Fault: one map of last writes for all processes.
MustWriteFullJsonShared(p, j, rec) ==
  rec.status \in Terminal \/ \A q \in Processes : ~recent[q][j]
\* Fault: the interval is not looked at, only the first and the last record are full.
MustWriteFullJsonOnce(p, j, rec) == rec.status \in Terminal \/ row[j] = NoRow

\* saveJobSqlite: the json column is written for a terminal record, and when
\* this process has not done so for the length of the interval.
MustWriteFullJson(p, j, rec) == rec.status \in Terminal \/ ~recent[p][j]

\* saveJob, first half: job.json and job.summary.json are replaced.
Save(p, j, rec) ==
  /\ Ready(p, j)
  /\ file' = [file EXCEPT ![j] = rec]
  /\ pending' = [pending EXCEPT ![p][j] = rec]
  /\ UNCHANGED <<row, recent>>

\* saveJob, second half: saveJobSqlite.
Mirror(p, j) ==
  /\ ~Ready(p, j)
  /\ LET rec == pending[p][j]
         full == MustWriteFullJson(p, j, rec)
     IN /\ row' = [row EXCEPT ![j] = [status |-> rec.status,
                                      json |-> IF full THEN rec ELSE @.json]]
        /\ recent' = [recent EXCEPT ![p][j] = IF full THEN JsonInterval > 0 ELSE @]
  /\ pending' = [pending EXCEPT ![p][j] = NoRec]
  /\ UNCHANGED file

\* The interval since the last full write of p for j is over.
IntervalEnds(p, j) ==
  /\ recent[p][j]
  /\ recent' = [recent EXCEPT ![p][j] = FALSE]
  /\ UNCHANGED <<file, row, pending>>

\* The process dies: what it knew and had not yet written to the row is gone.
Forget(p) ==
  /\ pending' = [pending EXCEPT ![p] = [j \in Jobs |-> NoRec]]
  /\ recent' = [recent EXCEPT ![p] = [j \in Jobs |-> FALSE]]
  /\ UNCHANGED <<file, row>>

\* readJob: the json column, and job.json when there is no row.
ReadJob(j) == IF row[j] # NoRow THEN row[j].json ELSE file[j]

\* countJobsSqlite("running") and selectQueuedJobsSqlite.
RunningCount == Cardinality({j \in Jobs : row[j].status = "running"})
QueuedRows == {j \in Jobs : row[j].status = "queued"}

\* Files and rows hold records of jobs, or nothing.
StoreTypeOK ==
  /\ file \in [Jobs -> Rec]
  /\ row \in [Jobs -> [status : Statuses \cup {"none"}, json : Rec]]
  /\ pending \in [Processes -> [Jobs -> Rec]]
  /\ recent \in [Processes -> [Jobs -> BOOLEAN]]
=============================================================================
