-------------------------- MODULE AtomicRegister --------------------------
(***************************************************************************)
(* What atomicWriteFile promises its callers: a file is a register whose   *)
(* value changes at one instant between the call of a write and its        *)
(* return, and a write that reports a failure has changed nothing.         *)
(*                                                                         *)
(* Where the direct fallback is allowed (Degraded) the promise is weaker,  *)
(* as the comment in src/server/atomic.ts says: a write that is under way  *)
(* may leave the register Torn, and one of several may be lost.            *)
(***************************************************************************)
CONSTANTS Writers, Old, Torn

VARIABLES
  Degraded,  \* the weaker promise holds
  value,     \* Old, the writer whose data the register holds, or Torn
  op         \* the write of each writer: "idle", "called", "applied", "ok",
             \* "failed" or "dead"

Init ==
  /\ Degraded \in BOOLEAN
  /\ value = Old
  /\ op = [w \in Writers |-> "idle"]

Step(w, from, to) == op[w] = from /\ op' = [op EXCEPT ![w] = to]

Call(w) == Step(w, "idle", "called") /\ UNCHANGED value

\* The instant at which the write takes effect.
Apply(w) ==
  /\ Step(w, "called", "applied")
  /\ value' \in IF Degraded THEN {w, value, Torn} ELSE {w}

Return(w) == Step(w, "applied", "ok") /\ UNCHANGED value

\* A failed write has no effect.
Fail(w) == Step(w, "called", "failed") /\ UNCHANGED value

Die(w) ==
  /\ op[w] \in {"called", "applied"}
  /\ op' = [op EXCEPT ![w] = "dead"]
  /\ UNCHANGED value

\* A degraded write under way spoils the register.
Spoil(w) ==
  /\ Degraded /\ op[w] = "called"
  /\ value' = Torn
  /\ UNCHANGED op

Next ==
  /\ UNCHANGED Degraded
  /\ \E w \in Writers :
       Call(w) \/ Apply(w) \/ Return(w) \/ Fail(w) \/ Die(w) \/ Spoil(w)

vars == <<Degraded, value, op>>
Spec == Init /\ [][Next]_vars
=============================================================================
