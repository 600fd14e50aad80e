---------------------------- MODULE MCServices ----------------------------
(***************************************************************************)
(* The services around the queue share no state, so that one run can check *)
(* them all: part says which one this behaviour is about, and the others   *)
(* stay as they were initially.                                            *)
(***************************************************************************)
EXTENDS AtomicFile, EstimatePool, EstimateCache, ExternalTool, ActiveModel,
        SuiteTraining, JobListing, LiveStream, Workbench,
        TpuBenchmark, StoreViews

\* Two candidates of one shape; and three of two shapes, two of them with one id.
MCPackages ==
  LET Predicted(i, shape, tile, time) ==
        [id |-> i, shape |-> shape, tile |-> tile, time |-> time]
  IN <<<<Predicted(1, 4, 1, 2), Predicted(2, 4, 2, 3)>>,
       <<Predicted(1, 4, 1, 2), Predicted(3, 6, 1, 5), Predicted(3, 6, 1, 4)>>>>
\* Rows without an id, without a median, repeated, without a time, of another id.
MCUploads ==
  LET Row(i, shape, median, mean) ==
        [id |-> i, shape |-> shape, median |-> median, mean |-> mean]
      Sample(i, shape, time) == [id |-> i, shape |-> shape, time |-> time]
  IN {[rows |-> <<Row(0, 4, 4, 5), Row(1, 4, 0, 6), Row(1, 4, 6, 0)>>,
       samples |-> <<Sample(2, 4, 9), Sample(0, 6, 8)>>],
      [rows |-> <<Row(2, 4, 0, 0)>>, samples |-> <<>>],
      [rows |-> <<Row(9, 6, 7, 7)>>, samples |-> <<>>]}
MCRunTimes == {<<4, 6, 10>>, <<9, 3, 3>>}
\* Jobs that wait, run and have ended
MCStored ==
  LET queued == "queued"
      running == "running"
      ended == "succeeded"
  IN {<<queued, queued, queued>>, <<ended, queued, running>>, <<queued, ended>>}

VARIABLE part

allVars ==
  <<fvars, pvars, cvars, tvars, avars, svars, lvars, livars, wvars, tpuvars, svVars, part>>

\* Only the part in question makes its initial choices.
Init ==
  /\ part \in {"file", "pool", "cache", "tool", "active", "training", "listing", "live", "page",
              "tpu", "simple",
              "walks", "names", "cleanup", "schema"}
  /\ FileInit /\ PoolInit /\ CacheInit /\ ToolInit
  /\ ActiveInit /\ TrainingInit /\ ListingInit /\ LiveInit /\ WorkbenchInit
  /\ TpuInit /\ StoreViewsInit
  /\ part # "file" => ~fallback
  /\ part # "pool" => workers = 0 /\ ~big /\ ~threadless
  /\ part # "training" => ~enough /\ ~datasetJob /\ ~wantsActive
  /\ part # "listing" => ~primary
  /\ part # "page" => flow = CHOOSE m \in Modes : TRUE
  /\ part # "tpu" => ~enabled
  /\ part \notin {"tpu", "simple"} => runner = CHOOSE r \in Runners : TRUE
  /\ part \notin {"walks", "names", "cleanup"} => DOMAIN rows = {1, 2}

ButFile ==
  UNCHANGED <<pvars, cvars, tvars, avars, svars, lvars, livars, wvars, tpuvars, svVars, part>>
ButPool ==
  UNCHANGED <<fvars, cvars, tvars, avars, svars, lvars, livars, wvars, tpuvars, svVars, part>>
ButCache ==
  UNCHANGED <<fvars, pvars, tvars, avars, svars, lvars, livars, wvars, tpuvars, svVars, part>>
ButTool ==
  UNCHANGED <<fvars, pvars, cvars, avars, svars, lvars, livars, wvars, tpuvars, svVars, part>>
ButActive ==
  UNCHANGED <<fvars, pvars, cvars, tvars, svars, lvars, livars, wvars, tpuvars, svVars, part>>
ButTraining ==
  UNCHANGED <<fvars, pvars, cvars, tvars, avars, lvars, livars, wvars, tpuvars, svVars, part>>
ButListing ==
  UNCHANGED <<fvars, pvars, cvars, tvars, avars, svars, livars, wvars, tpuvars, svVars, part>>
ButLive ==
  UNCHANGED <<fvars, pvars, cvars, tvars, avars, svars, lvars, wvars, tpuvars, svVars, part>>
ButPage ==
  UNCHANGED <<fvars, pvars, cvars, tvars, avars, svars, lvars, livars, tpuvars, svVars, part>>
ButTpu ==
  UNCHANGED <<fvars, pvars, cvars, tvars, avars, svars, lvars, livars, wvars, svVars, part>>
ButStore ==
  UNCHANGED <<fvars, pvars, cvars, tvars, avars, svars, lvars, livars, wvars, tpuvars,
              schemaVars, part>>
ButSchema ==
  UNCHANGED <<fvars, pvars, cvars, tvars, avars, svars, lvars, livars, wvars, tpuvars,
              storeVars, part>>

Next ==
  \/ part = "file" /\ FileNext /\ ButFile
  \/ part = "pool" /\ PoolNext /\ ButPool
  \/ part = "cache" /\ CacheNext /\ ButCache
  \/ part = "tool" /\ ToolNext /\ ButTool
  \/ part = "active" /\ ActiveNext /\ ButActive
  \/ part = "training" /\ TrainingNext /\ ButTraining
  \/ part = "listing" /\ ListingNext /\ ButListing
  \/ part = "live" /\ LiveNext /\ ButLive
  \/ part = "page" /\ WorkbenchNext /\ ButPage
  \/ part = "tpu" /\ PanelNext /\ ButTpu
  \/ part = "simple" /\ SimpleNext /\ ButTpu
  \/ part = "walks" /\ (StoreWalks \/ StoreCreations({1}) \/ StoreRequests) /\ ButStore
  \/ part = "names" /\ StoreCreations(Creators) /\ ButStore
  \/ part = "cleanup" /\ (StoreCleanup \/ StoreWork \/ StoreRequests) /\ ButStore
  \/ part = "schema" /\ SchemaNext /\ ButSchema

\* Threads compute and end, the event loop delivers.
PoolFairness ==
  /\ WF_pvars(part = "pool" /\ PoolMain /\ ButPool)
  /\ WF_pvars(part = "pool" /\ ButPool /\ \E t \in Tasks : ThreadEnds(t))
  /\ WF_pvars(part = "pool" /\ ButPool /\ \E t \in Tasks : PoolEvent(t))

\* The runner and its timers; nothing is assumed of the tool.
ToolFairness == WF_tvars(part = "tool" /\ ToolRunner /\ ButTool)

\* The request is answered, the worker polls.
TrainingFairness ==
  /\ WF_svars(part = "training" /\ SubmitStep /\ ButTraining)
  /\ WF_svars(part = "training" /\ TrainStep /\ ButTraining)

\* The timer of the page polls, while it is on, the browser is answered, whichever
\* request is the next, and time passes; an operation of the user may take for ever.
ListingFairness ==
  /\ WF_lvars(part = "listing" /\ (SendPoll \/ Reading) /\ ButListing)
  /\ WF_lvars(part = "listing" /\ ExpireSummaries /\ ButListing)
  /\ WF_lvars(part = "listing" /\ ExpirePage /\ ButListing)
  /\ WF_lvars(part = "listing" /\ ExpireRoute /\ ButListing)

\* Every job settles some day (JobQueue), the server ticks, the network delivers.
LiveFairness ==
  /\ WF_livars(part = "live" /\ ButLive /\ \E j \in LiveJobs : LiveJobSettles(j))
  /\ WF_livars(part = "live" /\ ButLive /\ \E k \in StreamIds : LiveServer(k))
  /\ WF_livars(part = "live" /\ ButLive /\ \E k \in StreamIds : EventArrives(k))

\* The interval timer of the page, and a server that answers some of its requests.
PageFairness ==
  /\ WF_wvars(part = "page" /\ PollList /\ ButPage)
  /\ WF_wvars(part = "page" /\ ButPage /\ \E k \in SlotIds : AnswerList(k))
  /\ WF_wvars(part = "page" /\ ButPage /\ \E k \in SlotIds : ListArrives(k))

\* The requests of the TPU panel are served or time out; nothing is assumed of a runner.
TpuFairness ==
  \A c \in CallIds : /\ WF_tpuvars(part = "tpu" /\ TpuServer(c) /\ ButTpu)
                     /\ WF_tpuvars(part = "tpu" /\ Receive(c) /\ ButTpu)

Spec ==
  /\ Init /\ [][Next]_allVars
  /\ PoolFairness /\ ToolFairness
  /\ TrainingFairness /\ ListingFairness /\ LiveFairness /\ PageFairness
  /\ TpuFairness

-----------------------------------------------------------------------------
(* The properties of the parts, each about its own behaviours. *)

\* Every part keeps its state in the shape its code relies on.
ServicesTypeOK ==
  /\ part = "file" => FileTypeOK
  /\ part = "pool" => PoolTypeOK
  /\ part = "cache" => CacheTypeOK
  /\ part = "tool" => ToolTypeOK
  /\ part = "active" => ActiveTypeOK
  /\ part = "training" => TrainingTypeOK
  /\ part = "listing" => ListingTypeOK
  /\ part = "live" => LiveTypeOK
  /\ part = "page" => WorkbenchTypeOK
  /\ part \in {"tpu", "simple"} => TpuTypeOK
  /\ part \in {"walks", "names", "cleanup", "schema"} => StoreViewsTypeOK

\* An estimate of threads is complete and waits for what is outstanding; of the
\* tools of a job one runs at a time, and the report that is read is its own;
\* a run on the TPU is answered well only by a runner that ended by itself.
WorkersSound ==
  /\ part = "pool" => ActiveIsOutstanding /\ CompleteAnswer
  /\ part = "tool" => OneToolAtATime /\ ReportIsOwn
  /\ part = "tpu" => RunsAreAnswered

\* Files: what is left temporary or damaged is explained by a fault or an overlap, and
\* every attempt that was lost to the cache is paid for.
FilesSound ==
  /\ part = "file" => NoTmpLeft
  /\ part = "cache" => LossesArePaidFor /\ EntryIsWhole

\* Models: the metadata names the model beside it, the panel shows what it has activated,
\* a training gets the data it was submitted with, and one that succeeded has left its
\* model, active if that was asked for.
ModelsSound ==
  /\ part = "active" => MetaNamesModel /\ OwnIsShown
  /\ part = "training" => SubmittedIsTrained /\ SucceededHasModel

\* Views: a client sees its own writes, its submissions keep the quota, the job shown live
\* is the one watched, what is submitted is what is previewed, the poll is only
\* skipped while a request is under way, and measurements of the TPU are compared with the
\* predictions they are shown beside, each with its own.  The lists of the store show what
\* they have room for, walks over them miss nothing, names differ, the cleanup spares what
\* is live, and a deletion leaves nothing behind by itself;
\* whoever opens the database finds its tables.
ViewsSound ==
  /\ part = "listing" => ReadYourWrites /\ QuotaKept
  /\ part = "live" => ShownIsWatched
  /\ part = "page" => SingleIsPreviewed /\ BusyIsAsked
  /\ part \in {"tpu", "simple"} => JoinIsOwn /\ RankingIsFair /\ ComparisonIsOfShown
  /\ part = "walks" => WalksMissNothing
  /\ part = "names" => NamesDiffer /\ CompactKeeps
  /\ part = "cleanup" => DashboardsShow /\ CleanupSpares /\ NoOrphans
  /\ part = "schema" => SchemaSound

\* Work ends, and stays ended: an estimate is answered whatever its threads do, a job
\* gets past a tool whatever that does, a submitted training settles, and the requests
\* of the TPU panel are answered.
WorkEnds ==
  <>[](/\ part = "pool" => HasAnswer
       /\ part = "tool" => PastTool
       /\ part = "training" => SettledForGood
       /\ part = "tpu" => AllAnswered)

\* Views catch up: the list, while its polling is on, with the store and with the page
\* selected, and the live view and its streams come to an end.
ViewsCatchUp ==
  <>[](/\ part = "listing" => ViewIsCurrent
       /\ part = "live" => LiveIsOver
       /\ part = "page" => PageIsCurrent)
=============================================================================
