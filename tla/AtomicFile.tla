---------------------------- MODULE AtomicFile ----------------------------
(***************************************************************************)
(* atomicWriteFile of server/atomic.ts: several processes replace one file *)
(* (job.json, a summary, a manifest), each through a temporary file of its *)
(* own that is written, synced and renamed; a rename that fails for a      *)
(* while (Windows) is retried, and in the end the file is overwritten in   *)
(* place, unless that fallback is switched off.                            *)
(***************************************************************************)
EXTENDS Naturals, FiniteSets

CONSTANTS
  Writers,   \* the processes that write, each one its own data
  Old,       \* what the file held before
  Torn,      \* a part of somebody's data
  Retries    \* how often a rename, or a direct write, is tried again

ASSUME FileAssumption ==
  /\ Old \notin Writers /\ Torn \notin Writers /\ Old # Torn
  /\ Retries \in Nat

VARIABLES
  fallback,  \* TILEFORGE_DISABLE_ATOMIC_DIRECT_FALLBACK is not set
  dest,      \* what a reader of the file gets
  tmp,       \* the temporary file of each writer: "none", "part" or "whole"
  wpc,       \* where each write is
  tries,     \* failed tries of the step a write is at
  inPlace,   \* the writers that have the file itself, by its name, open
  stuck      \* (for the properties) the writers whose rm of it has failed

fvars == <<fallback, dest, tmp, wpc, tries, inPlace, stuck>>

FilePcs == {"idle", "write", "rename", "renamed", "direct", "fill",
            "clean", "scrap", "ok", "failed", "dead"}

FileInit ==
  /\ fallback \in BOOLEAN
  /\ dest = Old
  /\ tmp = [w \in Writers |-> "none"]
  /\ wpc = [w \in Writers |-> "idle"]
  /\ tries = [w \in Writers |-> 0]
  /\ inPlace = {}
  /\ stuck = {}

Go(w, pc) == wpc' = [wpc EXCEPT ![w] = pc]
Tmp(w, content) == tmp' = [tmp EXCEPT ![w] = content]

\* open(tmp, "w"): a name with the pid, the time and a random part.
OpenTmp(w) ==
  /\ wpc[w] = "idle"
  /\ Go(w, "write") /\ Tmp(w, "part")
  /\ UNCHANGED <<fallback, dest, tries, inPlace, stuck>>

\* Write and sync the temporary file.  An error here (a full disk) is thrown at
\* once, and the temporary file stays.
WriteTmp(w) ==
  /\ wpc[w] = "write"
  /\ \/ Go(w, "rename") /\ Tmp(w, "whole")
     \/ Go(w, "failed") /\ UNCHANGED tmp
  /\ UNCHANGED <<fallback, dest, tries, inPlace, stuck>>

\* The rename takes the name away from those who write in place.
RenameTmp(w) ==
  /\ wpc[w] = "rename"
  /\ dest' = w
  /\ Tmp(w, "none") /\ Go(w, "renamed")
  /\ inPlace' = {}
  /\ UNCHANGED <<fallback, tries, stuck>>

\* atomicWriteFile returns to its caller.
ReturnRenamed(w) ==
  /\ wpc[w] = "renamed"
  /\ Go(w, "ok")
  /\ UNCHANGED <<fallback, dest, tmp, tries, inPlace, stuck>>

\* Where retryFs goes after a failed try: another one while the error is one
\* that passes and tries are left, otherwise on.
Again(w, here, on) ==
  \/ /\ tries[w] < Retries
     /\ tries' = [tries EXCEPT ![w] = @ + 1]
     /\ Go(w, here)
  \/ /\ tries' = [tries EXCEPT ![w] = 0]
     /\ Go(w, on)

\* Fault: the fallback is taken whether it is allowed or not.
AfterRenameAlways == "direct"

\* What follows when the rename has failed for good.
AfterRename == IF fallback THEN "direct" ELSE "scrap"

RenameFails(w) ==
  /\ wpc[w] = "rename"
  /\ Again(w, "rename", AfterRename)
  /\ UNCHANGED <<fallback, dest, tmp, inPlace, stuck>>

\* writeFile on the file itself: it is truncated first ...
DirectOpen(w) ==
  /\ wpc[w] = "direct"
  /\ dest' = Torn
  /\ inPlace' = inPlace \cup {w}
  /\ Go(w, "fill")
  /\ UNCHANGED <<fallback, tmp, tries, stuck>>

\* ... and then filled.  Data that goes to a file another writer has renamed
\* over is lost; data written over the data of another one may leave a mix.
DirectFill(w) ==
  /\ wpc[w] = "fill"
  /\ dest' \in CASE w \notin inPlace -> {dest}
                 [] w \in inPlace /\ dest = Torn -> {w}
                 [] OTHER -> {w, Torn}
  /\ inPlace' = inPlace \ {w}
  /\ Go(w, "clean")
  /\ UNCHANGED <<fallback, tmp, tries, stuck>>

\* A failed direct write, at its opening or later, is tried again or given up.
DirectFails(w) ==
  /\ wpc[w] \in {"direct", "fill"}
  /\ inPlace' = inPlace \ {w}
  /\ Again(w, "direct", "scrap")
  /\ UNCHANGED <<fallback, dest, tmp, stuck>>

\* Fault: only the successful fallback removes the temporary file.
RemovedAfterSuccess(w) == IF wpc[w] = "clean" THEN "none" ELSE tmp[w]

\* rm(tmp, force): what is left of the temporary file.
Removed(w) == "none"

\* The temporary file is removed after a fallback and after a failure, but the
\* error of an rm that fails (a scanner has the file open) is swallowed: the file
\* stays and the write ends as it would have.
RemoveTmp(w) ==
  /\ wpc[w] \in {"clean", "scrap"}
  /\ \/ Tmp(w, Removed(w)) /\ UNCHANGED stuck
     \/ UNCHANGED tmp /\ stuck' = stuck \cup {w}
  /\ Go(w, IF wpc[w] = "clean" THEN "ok" ELSE "failed")
  /\ UNCHANGED <<fallback, dest, tries, inPlace>>

\* The process dies in the middle of a write.
WriterDies(w) ==
  /\ wpc[w] \notin {"idle", "ok", "failed", "dead"}
  /\ Go(w, "dead")
  /\ inPlace' = inPlace \ {w}
  /\ UNCHANGED <<fallback, dest, tmp, tries, stuck>>

FileStep(w) ==
  \/ OpenTmp(w) \/ WriteTmp(w) \/ RenameTmp(w) \/ ReturnRenamed(w)
  \/ RenameFails(w) \/ DirectOpen(w) \/ DirectFill(w) \/ DirectFails(w)
  \/ RemoveTmp(w) \/ WriterDies(w)

FileNext == \E w \in Writers : FileStep(w)
FileSpec == FileInit /\ [][FileNext]_fvars

-----------------------------------------------------------------------------
(* Properties *)

\* Every variable has the type its comment gives it.
FileTypeOK ==
  /\ fallback \in BOOLEAN
  /\ dest \in Writers \cup {Old, Torn}
  /\ tmp \in [Writers -> {"none", "part", "whole"}]
  /\ wpc \in [Writers -> FilePcs]
  /\ tries \in [Writers -> 0..Retries]
  /\ inPlace \subseteq Writers
  /\ stuck \subseteq Writers

\* Three things leave a temporary file behind, and nothing else does: a sync that
\* fails, a crash, and an rm that fails.  A write that reports success leaves one
\* only by the last, and so never where the fallback is off; a failed write leaves
\* a whole one only by it, too.
NoTmpLeft ==
  \A w \in Writers :
    /\ wpc[w] = "ok" /\ tmp[w] # "none" => w \in stuck /\ fallback
    /\ wpc[w] = "failed" /\ tmp[w] = "whole" => w \in stuck

\* atomicWriteFile implements a register with atomic writes, and without the
\* fallback the strict one: nobody reads a part of a file or the data of a write
\* that failed, and no successful write is lost.
Register == INSTANCE AtomicRegister WITH
  Degraded <- fallback,
  value <- dest,
  op <- [w \in Writers |->
           CASE wpc[w] \in {"write", "rename", "direct", "fill", "scrap"} -> "called"
             [] wpc[w] \in {"renamed", "clean"} -> "applied"
             [] OTHER -> wpc[w]]
AtomicWrites == Register!Spec
=============================================================================
