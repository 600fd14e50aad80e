---------------------------- MODULE StoreViews -----------------------------
(***************************************************************************)
(* The lists of the job store (server/jobStore.ts) and of its SQLite       *)
(* mirror (server/sqliteStore.ts): dashboards, walks by page or by cursor, *)
(* the names given to new jobs, the cleanup of old ones, the rows kept     *)
(* beside a job, and the migrations of two processes                       *)
(* (server/dbMigrations.ts). A job is a number, in the order of the        *)
(* directories; a save writes the file and the row (SqliteStore is about   *)
(* when it does not), and time counts the operations.                      *)
(***************************************************************************)
EXTENDS Integers, FiniteSets, FiniteSetsExt, Sequences, SequencesExt

CONSTANTS
  StoredJobs,    \* the statuses of the jobs there are initially: a set of sequences
  MaxStored,     \* bound on the jobs there ever are
  MaxStoreOps,   \* bound on the operations
  Limit,         \* jobs of a page
  QueuedFloor,   \* queued jobs a dashboard shows before any ended one (10 in the code)
  TerminalRoom,  \* ended jobs a dashboard keeps room for (20 in the code)
  MaxOpens,      \* bound on the times the database is opened
  NamesRead,     \* names a creation looks at (1000 in the code)
  CleanAge       \* age in operations after which an ended job is cleaned up

StoreIds == 1..MaxStored
Creators == {1, 2}
Processes == {1, 2}
Versions == {1, 2}
Ended == {"succeeded", "cancelled"}
StoredStatuses == {"queued", "running"} \cup Ended
Auxiliary == {"job_logs", "job_stage_status", "artifacts"}

ASSUME StoreAssumption ==
  /\ {MaxStored, MaxStoreOps, Limit, QueuedFloor, TerminalRoom, MaxOpens, NamesRead, CleanAge}
       \subseteq Nat
  /\ Limit # 0
  /\ \A status \in StoredJobs : status \in Seq(StoredStatuses) /\ Len(status) <= MaxStored

VARIABLES
  rows,      \* table jobs: a function from ids to [status, created, updated, finished, name]
  dirs,      \* the jobs that have a directory with job.json
  beside,    \* the auxiliary tables: set of <<table, id>>
  held,      \* jobs a worker holds in memory
  deleting,  \* jobs whose directory is removed and whose rows are not yet
  creating,  \* of the calls of createJobsBulk: [at, names left, careless, now]
  used,      \* how many ids were given out
  careless,  \* history: jobs named while another call ran, or with names out of sight
  excused,   \* history: jobs with a failed statement or a write after their deletion
  walk,      \* of a client: [how, filter, at, seen, wanted, gone, tied, ended]
  clean,     \* of the route: [at, todo, cutoff, keep]
  cleaned,   \* history: what the route has deleted
  now,
  opens,     \* of the processes that use the database: [at, applied, times]
  schema     \* of the database: [versions, columns, indexes, lock]

storeVars == <<rows, dirs, beside, held, deleting, creating, used, careless, excused, walk,
               clean, cleaned, now>>
schemaVars == <<opens, schema>>
svVars == <<storeVars, schemaVars>>

InTable == DOMAIN rows
Without(f, j) == [i \in DOMAIN f \ {j} |-> f[i]]
SavedRow(j, rec) == [i \in DOMAIN rows \cup {j} |-> IF i = j THEN rec ELSE rows[i]]
OfStatus(S) == {j \in InTable : rows[j].status \in S}
SortedBy(S, before(_, _)) ==
  [i \in 1..Cardinality(S) |->
     CHOOSE x \in S : Cardinality({y \in S : before(y, x)}) = i - 1]
UpdatedDesc(S) == SortedBy(S, LAMBDA i, j : \/ rows[i].updated > rows[j].updated
                                            \/ (rows[i].updated = rows[j].updated /\ i > j))
CreatedAsc(S) == SortedBy(S, LAMBDA i, j : \/ rows[i].created < rows[j].created
                                           \/ (rows[i].created = rows[j].created /\ i < j))
\* The table's order; files of one creation time come in the order they were read.
ByCreation(S) == Reverse(CreatedAsc(S))
ScanOrders(S) ==
  {s \in SetToSeqs(S) :
     \A a, b \in DOMAIN s : a < b => rows[s[a]].created >= rows[s[b]].created}

-----------------------------------------------------------------------------
(* Dashboards *)

FirstOf(s, n) == SubSeq(s, 1, Min({Len(s), Max({n, 0})}))
\* dashboardJobs keeps room for jobs that have ended ...
FileDashboard ==
  LET running == FirstOf(UpdatedDesc(OfStatus({"running"})), Limit)
      queued == CreatedAsc(OfStatus({"queued"}))
      terminal == UpdatedDesc(OfStatus(Ended))
      budget == Max({QueuedFloor, Limit - Len(running) - Min({TerminalRoom, Len(terminal)})})
      first == FirstOf(queued, budget)
  IN FirstOf(running \o first \o terminal \o SubSeq(queued, Len(first) + 1, Len(queued)), Limit)
\* ... and listDashboardJobsSqlite does not.
SqlDashboard ==
  FirstOf(FirstOf(UpdatedDesc(OfStatus({"running"})), Limit)
          \o FirstOf(CreatedAsc(OfStatus({"queued"})), Max({QueuedFloor, Limit}))
          \o FirstOf(UpdatedDesc(OfStatus(Ended)), Limit), Limit)

\* compactJobForList, of a record or of a summary
Compact(job) ==
  LET report == "report.md" \in job.artifacts \/ job.hasReport
  IN [artifacts |-> IF report THEN {"report.md"} ELSE {}, hasReport |-> report,
      count |-> Max({job.count, IF report THEN 1 ELSE 0}), logs |-> 0, logCount |-> job.logs]

-----------------------------------------------------------------------------
(* Names: uniqueJobNameFromSet, a number standing for the suffix *)

UniqueName(base, taken) ==
  <<base, CHOOSE n \in 0..MaxStored : /\ <<base, n>> \notin taken
                                      /\ \A m \in 0..(n - 1) : <<base, m>> \in taken>>
UniqueNames(bases, taken) ==
  LET names[n \in 0..Len(bases)] ==
        IF n = 0 THEN <<>>
        ELSE Append(names[n - 1], UniqueName(bases[n], taken \cup ToSet(names[n - 1])))
  IN names[Len(bases)]

NoCreation == [names |-> <<>>, careless |-> FALSE, now |-> 0]
NoWalk == [how |-> "none", filter |-> FALSE, at |-> 0, seen |-> {}, wanted |-> {},
           gone |-> FALSE, tied |-> FALSE, ended |-> FALSE]
NoCleaning == [todo |-> {}, cutoff |-> 0, keep |-> TRUE]

StoreViewsInit ==
  /\ \E status \in StoredJobs :
       /\ rows = [j \in DOMAIN status |->
                    [status |-> status[j], created |-> j, updated |-> j,
                     finished |-> IF status[j] \in Ended THEN j ELSE 0, name |-> <<"b", j>>]]
       /\ held = {j \in DOMAIN status : status[j] = "running"}
       /\ dirs = DOMAIN status /\ used = Len(status)
  /\ beside = {} /\ deleting = {} /\ creating = [c \in Creators |-> NoCreation]
  /\ careless = {} /\ excused = {} /\ walk = NoWalk /\ clean = NoCleaning /\ cleaned = {}
  /\ now = MaxStored
  /\ opens = [p \in Processes |-> [at |-> "closed", applied |-> {}, times |-> 0]]
  /\ schema = [versions |-> {}, columns |-> FALSE, indexes |-> FALSE, lock |-> 0]

StoreTick == now < MaxStored + MaxStoreOps /\ now' = now + 1

InView(table) ==
  {j \in DOMAIN table : walk.filter => table[j].status = "queued"}
Tied(table) == \E i, j \in DOMAIN table : i # j /\ table[i].created = table[j].created
\* A job that leaves the view of a walk is not wanted any more.
Seen(table) ==
  walk' = IF walk.how = "none" \/ walk.ended THEN walk
          ELSE [walk EXCEPT !.wanted = walk.wanted \cap InView(table),
                            !.gone = walk.gone \/ ~(InView(rows) \subseteq InView(table)),
                            !.tied = walk.tied \/ Tied(table)]

-----------------------------------------------------------------------------
(* Writes *)

\* createJob and createJobsBulk: the names are chosen ...
StartCreation(c, bases) ==
  /\ creating[c].names = <<>> /\ used + Len(bases) <= MaxStored /\ StoreTick
  /\ \A d \in Creators \ {c} : used + Len(creating[d].names) + Len(bases) <= MaxStored
  /\ LET newest == ToSet(FirstOf(ByCreation(InTable), NamesRead))
     IN creating' = [creating EXCEPT ![c] =
          [names |-> UniqueNames(bases, {rows[j].name : j \in newest}), now |-> now',
           careless |-> newest # InTable \/ \E d \in Creators : creating[d].names # <<>>]]
  /\ UNCHANGED <<rows, dirs, beside, held, deleting, used, careless, excused, walk, clean,
                 cleaned>>
\* ... and the jobs are saved one by one, created at the same time.
SaveNew(c) ==
  /\ creating[c].names # <<>>
  /\ LET j == used + 1
         call == creating[c]
         table == SavedRow(j, [status |-> "queued", created |-> call.now, updated |-> now,
                               finished |-> 0, name |-> call.names[1]])
     IN /\ rows' = table /\ dirs' = dirs \cup {j} /\ used' = j
        /\ careless' = IF call.careless THEN careless \cup {j} ELSE careless
        /\ creating' = [creating EXCEPT ![c].names = Tail(call.names)]
        /\ Seen(table)
  /\ UNCHANGED <<beside, held, deleting, excused, clean, cleaned, now>>

\* A job is saved whole, and for the first time as ended with finishedAt.
SaveJob(j, status) ==
  LET old == IF j \in InTable THEN rows[j]
             ELSE [status |-> "running", created |-> j, updated |-> j, finished |-> 0,
                   name |-> <<"b", j>>]
      end == IF status \in Ended /\ old.status \notin Ended THEN now' ELSE old.finished
      table == SavedRow(j, [old EXCEPT !.status = status, !.updated = now', !.finished = end])
  IN rows' = table /\ dirs' = dirs \cup {j} /\ Seen(table)
WrittenAfter(j) == IF j \in deleting \/ j \notin dirs THEN excused \cup {j} ELSE excused

Claim(j) ==
  /\ j \in InTable \cap dirs /\ j \notin deleting /\ rows[j].status = "queued" /\ StoreTick
  /\ held' = held \cup {j} /\ SaveJob(j, "running")
  /\ UNCHANGED <<beside, deleting, creating, used, careless, excused, clean, cleaned>>

\* updateProgress: stage, log, job; a busy database ends it before the job is saved.
UpdateProgress(j) ==
  /\ j \in held /\ StoreTick
  /\ excused' = WrittenAfter(j)
  /\ \/ /\ beside' = beside \cup {<<"job_stage_status", j>>, <<"job_logs", j>>}
        /\ SaveJob(j, "running")
     \/ /\ beside' \in {beside, beside \cup {<<"job_stage_status", j>>}}
        /\ UNCHANGED <<rows, dirs, walk>>
  /\ UNCHANGED <<held, deleting, creating, used, careless, clean, cleaned>>

\* updateJobStatus of a job that has ended, with its artifacts
UpdateJobStatus(j) ==
  /\ j \in held /\ StoreTick
  /\ beside' = beside \cup {<<"job_logs", j>>, <<"artifacts", j>>}
  /\ held' = held \ {j} /\ excused' = WrittenAfter(j) /\ SaveJob(j, "succeeded")
  /\ UNCHANGED <<deleting, creating, used, careless, clean, cleaned>>

\* requestCancel saves a job of any status, and settles a queued one.
RequestCancel(j) ==
  /\ j \in InTable \cap dirs /\ j \notin deleting /\ StoreTick
  /\ beside' = beside \cup {<<"job_logs", j>>}
  /\ SaveJob(j, IF rows[j].status = "queued" THEN "cancelled" ELSE rows[j].status)
  /\ UNCHANGED <<held, deleting, creating, used, careless, excused, clean, cleaned>>

RemoveDir(j) == dirs' = dirs \ {j} /\ deleting' = deleting \cup {j}
\* deleteJob: the directory goes first ...
DeleteJob(j) ==
  /\ j \in dirs /\ j \notin deleting /\ StoreTick /\ RemoveDir(j)
  /\ UNCHANGED <<rows, beside, held, creating, used, careless, excused, walk, clean, cleaned>>
\* ... and deleteJobSqlite goes on after each statement that fails.
DeleteRows(j) ==
  /\ j \in deleting /\ deleting' = deleting \ {j}
  /\ \E failed \in {{}, {"jobs"}, {"job_logs"}} :
       LET table == IF "jobs" \in failed THEN rows ELSE Without(rows, j)
       IN /\ beside' = {r \in beside : r[2] # j \/ r[1] \in failed}
          /\ rows' = table /\ Seen(table)
          /\ excused' = IF failed = {} THEN excused ELSE excused \cup {j}
  /\ UNCHANGED <<dirs, held, creating, used, careless, clean, cleaned, now>>

-----------------------------------------------------------------------------
(* Cleanup of old jobs *)

\* A job is as old as its end, or as its last save if it has not ended.
Age(row) == IF row.finished # 0 THEN row.finished ELSE row.updated

\* listJobs: the rows, and the files without a row
StartCleanup(keep) ==
  /\ clean.todo = {} /\ cleaned = {} /\ StoreTick
  /\ clean' = [todo |-> {[id |-> j, status |-> rows[j].status, at |-> Age(rows[j])] :
                           j \in InTable},
               cutoff |-> now - CleanAge, keep |-> keep]
  /\ UNCHANGED <<rows, dirs, beside, held, deleting, creating, used, careless, excused, walk,
                 cleaned>>
CleanNext ==
  \E job \in clean.todo :
    /\ clean' = [clean EXCEPT !.todo = @ \ {job}]
    /\ IF (clean.keep /\ job.status \notin Ended) \/ job.at >= clean.cutoff
       THEN UNCHANGED <<dirs, deleting, cleaned>>
       ELSE /\ RemoveDir(job.id)
            /\ cleaned' = cleaned \cup
                 {[id |-> job.id, keep |-> clean.keep, cutoff |-> clean.cutoff,
                   status |-> IF job.id \in InTable THEN rows[job.id].status ELSE "gone",
                   at |-> IF job.id \in InTable THEN rows[job.id].finished ELSE 0]}
    /\ UNCHANGED <<rows, beside, held, creating, used, careless, excused, walk, now>>

-----------------------------------------------------------------------------
(* Walks: listJobsPaged by page (from the table) and by cursor (from the files) *)

StartWalk(how, filter) ==
  /\ walk.how = "none"
  /\ walk' = [NoWalk EXCEPT !.how = how, !.filter = filter, !.tied = Tied(rows),
                !.wanted = {j \in InTable : filter => rows[j].status = "queued"}]
  /\ UNCHANGED <<rows, dirs, beside, held, deleting, creating, used, careless, excused,
                 clean, cleaned, now>>

Visit(page, next, last) ==
  walk' = [walk EXCEPT !.seen = @ \cup ToSet(page), !.at = next, !.ended = last]
NextPage ==
  /\ walk.how = "page" /\ ~walk.ended
  /\ LET all == ByCreation(InView(rows))
         start == walk.at * Limit
     IN Visit(SubSeq(all, start + 1, Min({start + Limit, Len(all)})), walk.at + 1,
              start + Limit >= Len(all))
  /\ UNCHANGED <<rows, dirs, beside, held, deleting, creating, used, careless, excused,
                 clean, cleaned, now>>
\* A cursor that is not found starts again.
NextCursor ==
  /\ walk.how = "cursor" /\ ~walk.ended
  /\ \E all \in ScanOrders(InView(rows)) :
       LET start == Max({0} \cup {i \in DOMAIN all : all[i] = walk.at})
           page == SubSeq(all, start + 1, Min({start + Limit, Len(all)}))
           more == start + Limit < Len(all)
       IN Visit(page, IF more THEN page[Len(page)] ELSE 0, ~more)
  /\ UNCHANGED <<rows, dirs, beside, held, deleting, creating, used, careless, excused,
                 clean, cleaned, now>>

StoreCreations(C) ==
  \E c \in C : SaveNew(c) \/ \E bases \in {<<"a">>, <<"a", "a">>} : StartCreation(c, bases)
StoreWork == \E j \in StoreIds : UpdateProgress(j) \/ UpdateJobStatus(j) \/ RequestCancel(j)
StoreRequests == \E j \in StoreIds : Claim(j) \/ DeleteJob(j) \/ DeleteRows(j)
StoreCleanup == \E keep \in BOOLEAN : StartCleanup(keep) \/ CleanNext
StoreWalks ==
  \/ \E how \in {"page", "cursor"}, filter \in BOOLEAN : StartWalk(how, filter)
  \/ NextPage \/ NextCursor

-----------------------------------------------------------------------------
(* Opening the database: getSqliteDb and runSqliteMigrations *)

Reaches(p, at) == opens' = [opens EXCEPT ![p].at = at]
\* The versions are read before the transaction; busy, the handle is kept all the same.
OpenDb(p) ==
  /\ opens[p].at = "closed" /\ opens[p].times < MaxOpens
  /\ opens' = [opens EXCEPT ![p] =
                [at |-> "read", applied |-> schema.versions, times |-> @.times + 1]]
  /\ UNCHANGED schema
DatabaseBusy(p) ==
  /\ opens[p].at \in {"read", "migrated", "altered"} /\ schema.lock \notin {0, p}
  /\ IF opens[p].at = "migrated" THEN Reaches(p, "altered") ELSE Reaches(p, "failed")
  /\ UNCHANGED schema
BeginMigration(p) ==
  /\ opens[p].at = "read"
  /\ \/ /\ opens[p].applied = Versions /\ Reaches(p, "migrated") /\ UNCHANGED schema
     \/ /\ opens[p].applied # Versions /\ schema.lock = 0
        /\ Reaches(p, "writing") /\ schema' = [schema EXCEPT !.lock = p]
\* A version that is there by now fails the transaction.
CommitMigration(p) ==
  /\ opens[p].at = "writing"
  /\ IF schema.versions \subseteq opens[p].applied
     THEN Reaches(p, "migrated") /\ schema' = [schema EXCEPT !.lock = 0, !.versions = Versions]
     ELSE Reaches(p, "failed") /\ schema' = [schema EXCEPT !.lock = 0]
AddColumns(p) ==
  /\ opens[p].at = "migrated" /\ schema.lock = 0
  /\ Reaches(p, "altered") /\ schema' = [schema EXCEPT !.columns = TRUE]
\* An index needs its column.
AddIndexes(p) ==
  /\ opens[p].at = "altered" /\ schema.lock = 0
  /\ IF schema.columns THEN Reaches(p, "done") /\ schema' = [schema EXCEPT !.indexes = TRUE]
     ELSE Reaches(p, "failed") /\ UNCHANGED schema
RestartProcess(p) ==
  /\ opens[p].at # "closed" /\ Reaches(p, "closed")
  /\ schema' = IF schema.lock = p THEN [schema EXCEPT !.lock = 0] ELSE schema

SchemaNext ==
  \E p \in Processes : \/ OpenDb(p) \/ DatabaseBusy(p)
                        \/ BeginMigration(p) \/ CommitMigration(p)
                        \/ AddColumns(p) \/ AddIndexes(p) \/ RestartProcess(p)

-----------------------------------------------------------------------------
(* Properties *)

\* Table, files and calls keep the shape the lists rely on.
StoreViewsTypeOK ==
  /\ InTable \cup dirs \cup held \cup deleting \subseteq StoreIds
  /\ \A j \in InTable : rows[j].status \in StoredStatuses
  /\ beside \subseteq Auxiliary \X StoreIds
  /\ used <= MaxStored /\ walk.seen \subseteq StoreIds

\* Both dashboards are full, without repetitions, show every running job that fits, the
\* oldest of the queued and the latest of the ended jobs, and all jobs where there is room;
\* the one made from files keeps jobs that have ended in sight however long the queue is.
DashboardsShow ==
  LET shows(d, S, order) ==
        S \cap ToSet(d) = ToSet(FirstOf(order, Cardinality(S \cap ToSet(d))))
      running == OfStatus({"running"})
      ended == OfStatus(Ended)
  IN /\ \A d \in {FileDashboard, SqlDashboard} :
          /\ IsInjective(d) /\ Len(d) = Min({Limit, Cardinality(InTable)})
          /\ ToSet(FirstOf(UpdatedDesc(running), Limit)) \subseteq ToSet(d)
          /\ shows(d, OfStatus({"queued"}), CreatedAsc(OfStatus({"queued"})))
          /\ shows(d, ended, UpdatedDesc(ended))
     /\ Cardinality(ended \cap ToSet(FileDashboard)) >=
          Min({TerminalRoom, Cardinality(ended),
               Max({0, Limit - Cardinality(running) - QueuedFloor})})

\* compactJobForList, which the lists apply to summaries it has made: the second time keeps
\* the report and the number of artifacts (but not the number of log lines).
CompactKeeps ==
  \A artifacts \in SUBSET {"report.md", "a"} :
    LET once == Compact([artifacts |-> artifacts, hasReport |-> FALSE, logs |-> 1,
                         count |-> Cardinality(artifacts)])
        twice == Compact(once)
    IN /\ twice.hasReport = ("report.md" \in artifacts)
       /\ twice.count = Cardinality(artifacts) /\ twice.artifacts = once.artifacts

\* A walk over the lists misses no job that was in it all the time: a walk by cursor, even
\* if its cursor was deleted, unless meanwhile there were jobs created at one time; a walk by
\* page unless a job has left the list meanwhile.
WalksMissNothing ==
  /\ walk.ended
  /\ \/ walk.how = "page" /\ ~walk.gone
     \/ walk.how = "cursor" /\ ~walk.tied
  => walk.wanted \subseteq walk.seen

\* Jobs share a name only if one was named while another call was creating jobs, or
\* with more jobs around than it looked at; jobs of one call never do.
NamesDiffer ==
  \A i, j \in InTable : i # j /\ rows[i].name = rows[j].name => {i, j} \cap careless # {}

\* The cleanup deletes no job that is queued or running at that moment, nor one that has
\* ended since the age it was given, though cancels go on, unless it is told not to spare
\* running jobs.  (A job that has ended earlier goes even if it was saved since.)
CleanupSpares ==
  \A c \in cleaned : c.keep => c.status \in Ended \cup {"gone"} /\ c.at < c.cutoff

\* Rows beside a job whose row and directory are gone are left by a statement that failed,
\* or by a worker that wrote after the deletion.
NoOrphans ==
  \A r \in beside : r[2] \in InTable \cup dirs \cup deleting \cup excused

\* Whatever the other process does meanwhile and wherever one is restarted, the versions
\* are applied all or none, columns and indexes only on top of them, and a process that
\* was not told of a failure finds everything it relies on; one that was finds no less
\* than the versions it has read.
SchemaSound ==
  /\ schema.versions \in {{}, Versions}
  /\ schema.indexes => schema.columns
  /\ schema.columns => schema.versions = Versions
  /\ \A p \in Processes :
       /\ opens[p].at = "done" => schema.indexes
       /\ opens[p].at # "closed" => opens[p].applied \subseteq schema.versions
       /\ opens[p].at = "writing" => schema.lock = p
=============================================================================
