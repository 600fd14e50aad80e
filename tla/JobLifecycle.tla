--------------------------- MODULE JobLifecycle ---------------------------
(***************************************************************************)
(* What the job queue promises, without files, locks, scans or processes:  *)
(* a submitted job waits, is in the hands of one worker at a time, makes   *)
(* a bounded number of attempts and settles once and for all.              *)
(*                                                                         *)
(* JobQueue implements it (JobQueue!Lifecycle); status is the transition   *)
(* table of src/lib/stateMachine.ts as far as nobody cancels or deletes.   *)
(***************************************************************************)
EXTENDS Integers

CONSTANTS Workers, Jobs, MaxAttempts

VARIABLES
  status,    \* "none", "queued", "running", "succeeded" or "failed"
  attempts,  \* how often the work of the job has been begun
  holders    \* the workers that have the job in their hands

vars == <<status, attempts, holders>>

Init ==
  /\ status = [j \in Jobs |-> "none"]
  /\ attempts = [j \in Jobs |-> 0]
  /\ holders = [j \in Jobs |-> {}]

Submit(j) ==
  /\ status[j] = "none"
  /\ status' = [status EXCEPT ![j] = "queued"]
  /\ UNCHANGED <<attempts, holders>>

\* A worker takes a waiting job that nobody else has.
Take(w, j) ==
  /\ status[j] = "queued" /\ holders[j] = {}
  /\ status' = [status EXCEPT ![j] = "running"]
  /\ holders' = [holders EXCEPT ![j] = {w}]
  /\ UNCHANGED attempts

\* The holder begins an attempt, while attempts are left.
Begin(w, j) ==
  /\ status[j] = "running" /\ holders[j] = {w}
  /\ attempts[j] < MaxAttempts
  /\ attempts' = [attempts EXCEPT ![j] = @ + 1]
  /\ UNCHANGED <<status, holders>>

\* The holder puts the job back while attempts are left ...
GiveBack(w, j) ==
  /\ status[j] = "running" /\ holders[j] = {w}
  /\ attempts[j] < MaxAttempts
  /\ status' = [status EXCEPT ![j] = "queued"]
  /\ holders' = [holders EXCEPT ![j] = {}]
  /\ UNCHANGED attempts

\* ... or settles it.
Settle(w, j) ==
  /\ status[j] = "running" /\ holders[j] = {w}
  /\ \E s \in {"succeeded", "failed"} : status' = [status EXCEPT ![j] = s]
  /\ holders' = [holders EXCEPT ![j] = {}]
  /\ UNCHANGED attempts

\* Processes die, and the jobs in their hands are in nobody's.
Lose(S) ==
  /\ holders' = [j \in Jobs |-> IF j \in S THEN {} ELSE holders[j]]
  /\ UNCHANGED <<status, attempts>>

\* A running job that nobody has is declared failed.
Declare(j) ==
  /\ status[j] = "running" /\ holders[j] = {}
  /\ status' = [status EXCEPT ![j] = "failed"]
  /\ UNCHANGED <<attempts, holders>>

Next ==
  \/ \E j \in Jobs : Submit(j) \/ Declare(j)
  \/ \E w \in Workers, j \in Jobs :
       Take(w, j) \/ Begin(w, j) \/ GiveBack(w, j) \/ Settle(w, j)
  \/ \E S \in SUBSET Jobs : Lose(S)

Spec == Init /\ [][Next]_vars
=============================================================================
