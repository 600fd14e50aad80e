----------------------------- MODULE JobStatus -----------------------------
(***************************************************************************)
(* The status vocabulary of a TileForge job (src/src/types/job.ts) and the *)
(* table of transitions that assertTransition enforces                     *)
(* (src/src/lib/stateMachine.ts).                                          *)
(***************************************************************************)

\* JobStatus, types/job.ts.  Nothing in the repository ever assigns
\* "skipped_external_tool"; it only appears in lists such as Terminal.
Statuses == {"queued", "running", "succeeded", "succeeded_with_warnings",
             "failed", "cancelled", "skipped_external_tool"}

\* isTerminalStatus.
Terminal == {"succeeded", "succeeded_with_warnings", "failed", "cancelled",
             "skipped_external_tool"}

\* canTransition: a status may be re-asserted, and otherwise the table decides.
CanTransition(from, to) ==
  \/ from = to
  \/ from = "queued"  /\ to \in {"running", "cancelled", "failed"}
  \/ from = "running" /\ to \in Terminal \cup {"queued"}
  \/ from \in {"failed", "skipped_external_tool"} /\ to = "queued"
=============================================================================
