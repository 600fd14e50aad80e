--------------------------- MODULE ExternalTool ---------------------------
(***************************************************************************)
(* An external tool as the attempts of a job run it: runCommandCandidates  *)
(* of server/workerRunner.ts tries one command after the other, each as a  *)
(* process group of its own with a time limit (runExternalCommand of       *)
(* server/externalCommand.ts), and runScaleSimForJob takes the report that *)
(* lies in the output directory afterwards.  Nobody empties the directory. *)
(***************************************************************************)
EXTENDS Naturals

CONSTANTS
  ToolCommands,  \* how many commands are configured
  ToolAttempts   \* the attempts of the job

ASSUME ToolAssumption == ToolCommands \in Nat \ {0} /\ ToolAttempts \in Nat \ {0}

\* One run of one command in one attempt.
ToolRuns == (1..ToolAttempts) \X (1..ToolCommands)

VARIABLES
  toolRun,   \* the attempt and the command the runner is at
  tpc,       \* "start", "waiting", "closed", "search", "accepted" or "failed"
  group,     \* the process group of each run: "none", "working" (its leader is
             \* alive), "orphans" (only descendants are, they hold the pipes) or "dead"
  status,    \* how the leader ended: "none", "zero", "nonzero" or "signal"
  timer,     \* "off", "armed", "terminated" (SIGTERM sent) or "killed"
  timedOut,  \* killedByTimeout
  report,    \* the run whose report lies in the directory, or NoReport
  wrote      \* the runs that have written a report

tvars == <<toolRun, tpc, group, status, timer, timedOut, report, wrote>>

NoReport == <<>>
Alive(r) == group[r] \in {"working", "orphans"}

ToolInit ==
  /\ toolRun = <<1, 1>> /\ tpc = "start"
  /\ group = [r \in ToolRuns |-> "none"]
  /\ status = [r \in ToolRuns |-> "none"]
  /\ timer = "off" /\ timedOut = FALSE
  /\ report = NoReport /\ wrote = {}

\* The next command is tried; after the last one, or after a run that succeeded
\* without a report, the attempt fails and the job makes another one.
Onward(afterLast) ==
  LET a == toolRun[1]
      c == toolRun[2]
  IN \/ /\ ~afterLast /\ c < ToolCommands
        /\ toolRun' = <<a, c + 1>> /\ tpc' = "start"
     \/ /\ afterLast \/ c = ToolCommands
        /\ IF a < ToolAttempts
           THEN toolRun' = <<a + 1, 1>> /\ tpc' = "start"
           ELSE UNCHANGED toolRun /\ tpc' = "failed"

\* spawn, with the timer set; or the "error" of a command that does not exist.
StartTool ==
  /\ tpc = "start"
  /\ \/ /\ group' = [group EXCEPT ![toolRun] = "working"]
        /\ timer' = "armed" /\ timedOut' = FALSE
        /\ tpc' = "waiting"
        /\ UNCHANGED toolRun
     \/ /\ Onward(FALSE)
        /\ UNCHANGED <<group, timer, timedOut>>
  /\ UNCHANGED <<status, report, wrote>>

\* The tool writes its report (external program).
ToolWrites(r) ==
  /\ Alive(r)
  /\ report' = r /\ wrote' = wrote \cup {r}
  /\ UNCHANGED <<toolRun, tpc, group, status, timer, timedOut>>

\* The leader ends, by itself or by a signal from somewhere, perhaps with
\* descendants that go on.
ToolExits(r) ==
  /\ group[r] = "working"
  /\ \E s \in {"zero", "nonzero", "signal"} : status' = [status EXCEPT ![r] = s]
  /\ \E g \in {"orphans", "dead"} : group' = [group EXCEPT ![r] = g]
  /\ UNCHANGED <<toolRun, tpc, timer, timedOut, report, wrote>>

OrphansEnd(r) ==
  /\ group[r] = "orphans"
  /\ group' = [group EXCEPT ![r] = "dead"]
  /\ UNCHANGED <<toolRun, tpc, status, timer, timedOut, report, wrote>>

\* Fault: the timeout settles the promise without waiting for the processes.
AfterKillResolves == "closed"

\* killTree leaves the settling to "close".
AfterKill == "waiting"

\* The time is up: SIGTERM to the whole group, which may heed it or not.
KillTree ==
  /\ tpc = "waiting" /\ timer = "armed"
  /\ timer' = "terminated" /\ timedOut' = TRUE
  /\ tpc' = AfterKill
  /\ UNCHANGED <<toolRun, group, status, report, wrote>>

\* Fault: there is no second signal.
KillDueNever == FALSE

\* Two seconds after SIGTERM.
KillDue == timer = "terminated"

\* SIGKILL to the group, which nobody survives.
KillGroup ==
  /\ KillDue
  /\ timer' = "killed"
  /\ LET r == toolRun IN
     /\ group' = [group EXCEPT ![r] = "dead"]
     /\ status' = [status EXCEPT ![r] = IF group[r] = "working" THEN "signal" ELSE @]
  /\ UNCHANGED <<toolRun, tpc, timedOut, report, wrote>>

\* "close": the leader has ended and nobody holds the pipes any more.  A SIGKILL
\* that is still due finds no group any more.
ToolCloses ==
  /\ tpc = "waiting" /\ group[toolRun] = "dead"
  /\ tpc' = "closed" /\ timer' = "off"
  /\ UNCHANGED <<toolRun, group, status, timedOut, report, wrote>>

\* A run is good if its time was not up and its code is 0, as which the missing
\* code of a signal counts (code ?? 0).
ToolSucceeded(r) == ~timedOut /\ status[r] # "nonzero"

ToolReturns ==
  /\ tpc = "closed"
  /\ IF ToolSucceeded(toolRun)
     THEN tpc' = "search" /\ UNCHANGED toolRun
     ELSE Onward(FALSE)
  /\ UNCHANGED <<group, status, timer, timedOut, report, wrote>>

\* findFirstExistingFile in the output directory.
TakeReport ==
  /\ tpc = "search"
  /\ IF report # NoReport
     THEN tpc' = "accepted" /\ UNCHANGED toolRun
     ELSE Onward(TRUE)
  /\ UNCHANGED <<group, status, timer, timedOut, report, wrote>>

ToolRunner ==
  \/ StartTool \/ KillTree \/ KillGroup \/ ToolCloses \/ ToolReturns \/ TakeReport
ToolProcess(r) == ToolWrites(r) \/ ToolExits(r) \/ OrphansEnd(r)

ToolNext == ToolRunner \/ \E r \in ToolRuns : ToolProcess(r)

-----------------------------------------------------------------------------
(* Properties *)

\* Every variable has the type its comment gives it.
ToolTypeOK ==
  /\ toolRun \in ToolRuns
  /\ tpc \in {"start", "waiting", "closed", "search", "accepted", "failed"}
  /\ group \in [ToolRuns -> {"none", "working", "orphans", "dead"}]
  /\ status \in [ToolRuns -> {"none", "zero", "nonzero", "signal"}]
  /\ timer \in {"off", "armed", "terminated", "killed"}
  /\ timedOut \in BOOLEAN
  /\ report \in ToolRuns \cup {NoReport} /\ wrote \subseteq ToolRuns

\* No command is tried, and no attempt is made, while processes of an earlier one
\* are still alive: they all work in one directory and on the same CPUs.
OneToolAtATime ==
  \A r \in ToolRuns : Alive(r) => r = toolRun /\ tpc = "waiting"

\* The report that is read is the one the accepted run has written, if it has
\* written one: no latecomer of an earlier run replaces it, before or after.
ReportIsOwn ==
  tpc = "accepted" /\ toolRun \in wrote => report = toolRun

\* Whatever the tool does with its time and with SIGTERM, the job gets past it.
PastTool == tpc \in {"accepted", "failed"}
ToolEnds == <>PastTool
=============================================================================
