---------------------------- MODULE SqliteProofs ----------------------------
(***************************************************************************)
(* What holds of the job queue on SQLite for all values of its constants:  *)
(* types, the promise of the throttle for terminal records, and, when the  *)
(* throttle is off, that what is queued is claimed from its newest record  *)
(* and that the attempts are counted.                                      *)
(***************************************************************************)
EXTENDS SqliteQueue, TLAPS

-----------------------------------------------------------------------------
(* Type correctness *)

\* saveJob stores records.
LEMMA SaveType ==
  ASSUME TypeOK, NEW p \in Processes, NEW j \in Jobs, NEW rec \in Rec, Save(p, j, rec)
  PROVE  StoreTypeOK'
BY DEF TypeOK, StoreTypeOK, Save, Rec

\* What readers get is a record.
LEMMA ReadType ==
  ASSUME TypeOK, NEW j \in Jobs
  PROVE  ReadJob(j) \in Rec /\ file[j] \in Rec /\ row[j].json \in Rec
BY DEF TypeOK, StoreTypeOK, ReadJob

LEMMA NullTypes == NoRec \in Rec /\ NewJob \in Rec /\ NoCands \in [Jobs -> Rec]
BY DEF NoRec, NewJob, NoCands, Rec, Statuses

\* The updates of a record that the code makes.
LEMMA UpdateTypes ==
  ASSUME NEW rec \in Rec
  PROVE  /\ \A s \in {"running", "failed", "succeeded", "cancelled", "queued"} :
              [rec EXCEPT !.status = s] \in Rec
         /\ [rec EXCEPT !.cancelRequested = TRUE,
                        !.status = IF @ = "queued" THEN "cancelled" ELSE @] \in Rec
         /\ [rec EXCEPT !.attempts = @ + 1] \in Rec
         /\ Claimed(rec) \in Rec
<1>1. \A s \in {"running", "failed", "succeeded", "cancelled", "queued"} :
        [rec EXCEPT !.status = s] \in Rec
  BY DEF Rec, Statuses
<1>2. [rec EXCEPT !.cancelRequested = TRUE,
                  !.status = IF @ = "queued" THEN "cancelled" ELSE @] \in Rec
  <2>1. CASE rec.status = "queued"
    BY <2>1 DEF Rec, Statuses
  <2>2. CASE rec.status # "queued"
    BY <2>2 DEF Rec, Statuses
  <2>3. QED
    BY <2>1, <2>2
<1>3. [rec EXCEPT !.attempts = @ + 1] \in Rec
  BY DEF Rec
<1>4. QED
  BY <1>1, <1>2, <1>3 DEF Claimed

\* saveJobSqlite, time and a crash keep the types of the store.
LEMMA StoreStepTypes ==
  ASSUME TypeOK, NEW p \in Processes,
         \/ \E j \in Jobs : Mirror(p, j) \/ IntervalEnds(p, j)
         \/ Forget(p)
  PROVE  StoreTypeOK'
<1> USE StoreAssumption, NullTypes DEF TypeOK, StoreTypeOK
<1>1. ASSUME NEW j \in Jobs, Mirror(p, j)
      PROVE  StoreTypeOK'
  <2>1. pending[p][j] \in Rec
    OBVIOUS
  <2>2. pending[p][j].status \in Statuses \cup {"none"}
    BY <2>1 DEF Rec
  <2>3. row' \in [Jobs -> [status : Statuses \cup {"none"}, json : Rec]]
    BY <1>1, <2>1, <2>2 DEF Mirror
  <2>4. recent' \in [Processes -> [Jobs -> BOOLEAN]]
    <3>1. PICK full : recent' = [recent EXCEPT ![p][j] = IF full THEN JsonInterval > 0 ELSE @]
      BY <1>1 DEF Mirror
    <3>2. recent[p][j] \in BOOLEAN
      OBVIOUS
    <3>3. CASE full
      BY <3>1, <3>3
    <3>4. CASE ~full
      BY <3>1, <3>2, <3>4
    <3>5. QED
      BY <3>3, <3>4
  <2>5. QED
    BY <1>1, <2>3, <2>4 DEF Mirror
<1>2. ASSUME NEW j \in Jobs, IntervalEnds(p, j)
      PROVE  StoreTypeOK'
  BY <1>2 DEF IntervalEnds
<1>3. CASE Forget(p)
  BY <1>3 DEF Forget
<1>4. QED
  BY <1>1, <1>2, <1>3

LEMMA TypeOKInit == Init => TypeOK
BY NullTypes, QueueAssumption DEF Init, StoreInit, TypeOK, StoreTypeOK, NoRow, IdleSched, Sched, SchedPcs, RunPcs

LEMMA TypeOKWorld ==
  ASSUME TypeOK, NEW j \in Jobs,
         \/ Submit(j) \/ CancelRead(j) \/ CancelSave(j)
         \/ \E p \in Processes : MirrorSave(p, j) \/ TimePasses(p, j)
  PROVE  TypeOK'
<1>0. Web \in Processes
  BY DEF Processes
<1>1. CASE Submit(j)
  <2>1. StoreTypeOK'
    BY <1>0, <1>1, SaveType, NullTypes DEF Submit
  <2>2. QED
    BY <1>1, <2>1 DEF Submit, TypeOK
<1>2. CASE CancelRead(j)
  BY <1>2, ReadType DEF CancelRead, TypeOK, StoreTypeOK, store
<1>3. CASE CancelSave(j)
  <2>1. webRec[j] \in Rec
    BY DEF TypeOK
  <2>2. StoreTypeOK'
    BY <1>0, <1>3, <2>1, UpdateTypes, SaveType DEF CancelSave
  <2>3. QED
    BY <1>3, <2>2, NullTypes DEF CancelSave, TypeOK
<1>4. ASSUME NEW p \in Processes, MirrorSave(p, j) \/ TimePasses(p, j)
      PROVE  TypeOK'
  <2>1. StoreTypeOK'
    BY <1>4, StoreStepTypes DEF MirrorSave, TimePasses
  <2>2. QED
    BY <1>4, <2>1 DEF MirrorSave, TimePasses, TypeOK
<1>5. QED
  BY <1>1, <1>2, <1>3, <1>4

\* The updates of a scheduler that goes through its list.
LEMMA SchedType ==
  ASSUME TypeOK, NEW w \in Workers, NEW cands \in [Jobs -> Rec], NEW pc \in SchedPcs,
         NEW job \in Jobs \cup {NoWorker}, NEW rec \in Rec
  PROVE  /\ [sched EXCEPT ![w].pc = pc, ![w].cands = cands] \in [Workers -> Sched]
         /\ [sched EXCEPT ![w].cands = cands] \in [Workers -> Sched]
         /\ [sched EXCEPT ![w] = [pc |-> pc, cands |-> cands, job |-> job, rec |-> rec]]
              \in [Workers -> Sched]
<1>1. [pc |-> pc, cands |-> cands, job |-> job, rec |-> rec] \in Sched
  BY DEF Sched
<1>2. sched \in [Workers -> Sched] /\ sched[w] \in Sched
  BY DEF TypeOK
<1>3. [sched[w] EXCEPT !.cands = cands] \in Sched
  BY <1>2 DEF Sched
<1>4. [sched[w] EXCEPT !.pc = pc, !.cands = cands] \in Sched
  BY <1>2 DEF Sched
<1>5. QED
  BY <1>1, <1>2, <1>3, <1>4

LEMMA TypeOKWorker ==
  ASSUME TypeOK, NEW w \in Workers,
         Start(w) \/ Crash(w) \/ ClaimList(w) \/ ClaimNone(w)
  PROVE  TypeOK'
<1>0. w \in Processes
  BY DEF Processes
<1>a. IdleSched \in Sched
  BY NullTypes DEF IdleSched, Sched, SchedPcs
<1>1. CASE Start(w)
  BY <1>1 DEF Start, TypeOK, StoreTypeOK, store
<1>2. CASE Crash(w)
  <2>1. StoreTypeOK'
    BY <1>0, <1>2, StoreStepTypes DEF Crash
  <2>2. crashes' \in 0..MaxCrashes
    BY <1>2, QueueAssumption DEF Crash, TypeOK
  <2>3. QED
    BY <1>2, <1>a, <2>1, <2>2, NullTypes DEF Crash, TypeOK, RunPcs
<1>3. CASE ClaimList(w)
  <2>1. [i \in Jobs |-> IF i \in QueuedRows \ Active(w) THEN row[i].json ELSE NoRec]
          \in [Jobs -> Rec]
    BY ReadType, NullTypes
  <2>2. QED
    BY <1>3, <2>1, SchedType, NullTypes DEF ClaimList, TypeOK, StoreTypeOK, store, SchedPcs
<1>4. CASE ClaimNone(w)
  BY <1>4, <1>a DEF ClaimNone, TypeOK, StoreTypeOK, store
<1>5. QED
  BY <1>1, <1>2, <1>3, <1>4

LEMMA TypeOKSched ==
  ASSUME TypeOK, NEW w \in Workers, NEW j \in Jobs, SchedStep(w, j)
  PROVE  TypeOK'
<1>0. w \in Processes
  BY DEF Processes
<1>a. IdleSched \in Sched
  BY NullTypes DEF IdleSched, Sched, SchedPcs
<1>b. sched[w].rec \in Rec /\ sched[w].cands \in [Jobs -> Rec]
  BY DEF TypeOK, Sched
<1>1. CASE ClaimNext(w, j)
  <2> DEFINE rest == [sched[w].cands EXCEPT ![j] = NoRec]
  <2>1. rest \in [Jobs -> Rec] /\ sched[w].cands[j] \in Rec
    BY <1>b, NullTypes
  <2>2. sched' \in [Workers -> Sched]
    <3> HIDE DEF rest
    <3>1. CASE sched' = [sched EXCEPT ![w].cands = rest]
      BY <2>1, <3>1, SchedType DEF SchedPcs
    <3>2. CASE \E pc \in {"resave", "claim"} :
                 sched' = [sched EXCEPT ![w] = [pc |-> pc, cands |-> rest, job |-> j,
                                                rec |-> sched[w].cands[j]]]
      <4>1. PICK pc \in {"resave", "claim"} :
              sched' = [sched EXCEPT ![w] = [pc |-> pc, cands |-> rest, job |-> j,
                                             rec |-> sched[w].cands[j]]]
        BY <3>2
      <4>2. pc \in SchedPcs
        BY DEF SchedPcs
      <4>3. QED
        BY <2>1, <4>1, <4>2, SchedType
    <3>3. QED
      BY <1>1, <3>1, <3>2 DEF ClaimNext, rest
  <2>3. QED
    BY <1>1, <2>2 DEF ClaimNext, TypeOK, StoreTypeOK, store
<1>2. CASE LockResave(w, j)
  <2>1. StoreTypeOK'
    BY <1>0, <1>2, <1>b, SaveType DEF LockResave
  <2>2. QED
    BY <1>2, <2>1, ZenonT(30) DEF LockResave, TypeOK, Sched, SchedPcs
<1>3. CASE ClaimSave(w, j)
  <2>1. StoreTypeOK'
    BY <1>0, <1>3, <1>b, UpdateTypes, SaveType DEF ClaimSave
  <2>2. QED
    BY <1>3, <2>1, ZenonT(30) DEF ClaimSave, TypeOK, Sched, SchedPcs
<1>4. CASE ClaimDone(w, j)
  BY <1>4, <1>a, <1>b, UpdateTypes DEF ClaimDone, TypeOK, StoreTypeOK, store, RunPcs
<1>5. CASE Recover(w, j)
  <2>1. StoreTypeOK'
    BY <1>0, <1>5, ReadType, UpdateTypes, SaveType DEF Recover
  <2>2. QED
    BY <1>5, <2>1, ZenonT(60) DEF Recover, TypeOK, Sched, SchedPcs
<1>6. CASE RecoverDone(w, j)
  BY <1>6, <1>a DEF RecoverDone, TypeOK, StoreTypeOK, store
<1>7. QED
  BY <1>1, <1>2, <1>3, <1>4, <1>5, <1>6 DEF SchedStep

\* A run that saves the record it keeps.
LEMMA SaveAndKeepTypes ==
  ASSUME TypeOK, NEW w \in Workers, NEW j \in Jobs, NEW rec \in Rec, SaveAndKeep(w, j, rec)
  PROVE  StoreTypeOK' /\ mem' \in [Workers -> [Jobs -> Rec]]
BY SaveType DEF SaveAndKeep, TypeOK, Processes

LEMMA TypeOKRun ==
  ASSUME TypeOK, NEW w \in Workers, NEW j \in Jobs, RunEnds(w, j) \/ RunWork(w, j)
  PROVE  TypeOK'
<1>a. mem[w][j] \in Rec
  BY DEF TypeOK
<1>b. UNCHANGED <<store, mem>> => StoreTypeOK' /\ mem' \in [Workers -> [Jobs -> Rec]]
  BY DEF TypeOK, StoreTypeOK, store
<1>c. ASSUME NEW pc \in RunPcs, GoTo(w, j, pc)
      PROVE  run' \in [Workers -> [Jobs -> RunPcs]]
  BY <1>c DEF GoTo, TypeOK
<1>1. CASE RunBegin(w, j)
  <2>1. StoreTypeOK' /\ mem' \in [Workers -> [Jobs -> Rec]]
    BY <1>1, <1>a, UpdateTypes, SaveAndKeepTypes DEF RunBegin
  <2>2. QED
    BY <1>1, <1>c, <2>1 DEF RunBegin, TypeOK, RunPcs
<1>2. CASE RunCheck(w, j)
  <2>1. StoreTypeOK' /\ mem' \in [Workers -> [Jobs -> Rec]]
    BY <1>2, <1>a, <1>b, UpdateTypes, SaveAndKeepTypes DEF RunCheck
  <2>2. run' \in [Workers -> [Jobs -> RunPcs]]
    BY <1>2, <1>c DEF RunCheck, RunPcs
  <2>3. QED
    BY <1>2, <2>1, <2>2 DEF RunCheck, TypeOK
<1>3. CASE RunWork(w, j)
  <2>1. StoreTypeOK' /\ mem' \in [Workers -> [Jobs -> Rec]]
    BY <1>3, <1>a, SaveAndKeepTypes DEF RunWork
  <2>2. run' \in [Workers -> [Jobs -> RunPcs]]
    BY <1>3, <1>c DEF RunWork, RunPcs
  <2>3. QED
    BY <1>3, <2>1, <2>2 DEF RunWork, TypeOK
<1>4. CASE RunFinish(w, j)
  <2>1. StoreTypeOK' /\ mem' \in [Workers -> [Jobs -> Rec]]
    BY <1>4, <1>a, <1>b, UpdateTypes, SaveAndKeepTypes DEF RunFinish
  <2>2. run' \in [Workers -> [Jobs -> RunPcs]]
    BY <1>4, <1>c DEF RunFinish, RunPcs
  <2>3. QED
    BY <1>4, <2>1, <2>2 DEF RunFinish, TypeOK
<1>5. CASE RunFail(w, j)
  <2>1. StoreTypeOK' /\ mem' \in [Workers -> [Jobs -> Rec]]
    BY <1>5, <1>a, <1>b, UpdateTypes, SaveAndKeepTypes DEF RunFail
  <2>2. run' \in [Workers -> [Jobs -> RunPcs]]
    BY <1>5, <1>c DEF RunFail, RunPcs
  <2>3. QED
    BY <1>5, <2>1, <2>2 DEF RunFail, TypeOK
<1>6. CASE RunRelease(w, j)
  <2>1. run' \in [Workers -> [Jobs -> RunPcs]]
    BY <1>6, <1>c DEF RunRelease, RunPcs
  <2>2. QED
    BY <1>6, <2>1, NullTypes DEF RunRelease, TypeOK, StoreTypeOK, store
<1>7. QED
  BY <1>1, <1>2, <1>3, <1>4, <1>5, <1>6 DEF RunEnds

LEMMA TypeOKStep == TypeOK /\ [Next]_vars => TypeOK'
<1> SUFFICES ASSUME TypeOK, [Next]_vars PROVE TypeOK'
  OBVIOUS
<1>1. CASE UNCHANGED vars
  BY <1>1 DEF vars, store, TypeOK, StoreTypeOK
<1>2. CASE Next
  BY <1>2, TypeOKWorld, TypeOKWorker, TypeOKSched, TypeOKRun DEF Next
<1>3. QED
  BY <1>1, <1>2

\* Type correctness of the queue on SQLite, whatever crashes, cancels and
\* throttled writes there are.
THEOREM TypeCorrect == Spec => []TypeOK
BY TypeOKInit, TypeOKStep, PTL DEF Spec

-----------------------------------------------------------------------------
(* The throttle *)

\* The row and the throttle change in saveJobSqlite only, but for the clock and
\* a crash, which open the throttle.
LEMMA StoreStep ==
  ASSUME TypeOK, [Next]_vars
  PROVE  \/ UNCHANGED <<row, recent>>
         \/ row' = row /\ \E p \in Processes : Forget(p) \/ \E j \in Jobs : IntervalEnds(p, j)
         \/ \E p \in Processes, j \in Jobs : Mirror(p, j)
<1>1. CASE UNCHANGED vars
  BY <1>1 DEF vars, store
<1>2. ASSUME NEW j \in Jobs,
             \/ Submit(j) \/ CancelRead(j) \/ CancelSave(j)
             \/ \E p \in Processes : MirrorSave(p, j) \/ TimePasses(p, j)
      PROVE  \/ UNCHANGED <<row, recent>>
             \/ row' = row /\ \E p \in Processes : \E i \in Jobs : IntervalEnds(p, i)
             \/ \E p \in Processes, i \in Jobs : Mirror(p, i)
  BY <1>2 DEF Submit, CancelRead, CancelSave, MirrorSave, TimePasses, Save, store, IntervalEnds
<1>3. ASSUME NEW w \in Workers, Start(w) \/ Crash(w) \/ ClaimList(w) \/ ClaimNone(w)
      PROVE  \/ UNCHANGED <<row, recent>>
             \/ row' = row /\ \E p \in Processes : Forget(p)
  BY <1>3 DEF Start, Crash, ClaimList, ClaimNone, Forget, store, Processes
<1>4. ASSUME NEW w \in Workers, NEW j \in Jobs, SchedStep(w, j)
      PROVE  UNCHANGED <<row, recent>>
  BY <1>4 DEF SchedStep, ClaimNext, LockResave, ClaimSave, ClaimDone, Recover, RecoverDone,
              Save, store
<1>5. ASSUME NEW w \in Workers, NEW j \in Jobs, RunEnds(w, j) \/ RunWork(w, j)
      PROVE  UNCHANGED <<row, recent>>
  BY <1>5 DEF RunEnds, RunBegin, RunCheck, RunWork, RunFinish, RunFail, RunRelease,
              SaveAndKeep, Save, store
<1>6. QED
  BY <1>1, <1>2, <1>3, <1>4, <1>5 DEF Next

\* saveJobSqlite writes the whole of a terminal record.
LEMMA TerminalStep ==
  ASSUME TypeOK, TerminalIsReadable, [Next]_vars
  PROVE  TerminalIsReadable'
<1>1. CASE row' = row
  BY <1>1 DEF TerminalIsReadable
<1>2. ASSUME NEW p \in Processes, NEW j \in Jobs, Mirror(p, j)
      PROVE  TerminalIsReadable'
  <2> SUFFICES ASSUME NEW i \in Jobs, row'[i].status \in Terminal
               PROVE  row'[i].json.status = row'[i].status
    BY DEF TerminalIsReadable
  <2>1. CASE i = j
    BY <1>2, <2>1 DEF Mirror, MustWriteFullJson, TypeOK, StoreTypeOK
  <2>2. CASE i # j
    BY <1>2, <2>2 DEF Mirror, TerminalIsReadable, TypeOK, StoreTypeOK
  <2>3. QED
    BY <2>1, <2>2
<1>3. QED
  BY <1>1, <1>2, StoreStep

\* The promise of the throttle: a row that is terminal by its column is terminal
\* by its json, so that no reader misses the end of a job.
THEOREM TerminalIsReadableAlways == Spec => []TerminalIsReadable
<1>1. Init => TerminalIsReadable
  BY DEF Init, StoreInit, NoRow, TerminalIsReadable, Terminal
<1>2. TypeOK /\ TerminalIsReadable /\ [Next]_vars => TerminalIsReadable'
  BY TerminalStep
<1>3. QED
  BY <1>1, <1>2, TypeCorrect, PTL DEF Spec

\* With the interval set to 0 no process ever holds the json column back.
NothingThrottled == \A p \in Processes, j \in Jobs : ~recent[p][j]

LEMMA UnthrottledStep ==
  ASSUME JsonInterval = 0, TypeOK, NothingThrottled, [Next]_vars
  PROVE  NothingThrottled'
<1>1. CASE UNCHANGED <<row, recent>>
  BY <1>1 DEF NothingThrottled
<1>2. ASSUME NEW p \in Processes, Forget(p) \/ \E j \in Jobs : IntervalEnds(p, j)
      PROVE  NothingThrottled'
  <2>1. \A q \in Processes, i \in Jobs : recent'[q][i] = recent[q][i] \/ recent'[q][i] = FALSE
    <3>1. CASE Forget(p)
      BY <3>1 DEF Forget, TypeOK, StoreTypeOK
    <3>2. ASSUME NEW j \in Jobs, IntervalEnds(p, j)
          PROVE  \A q \in Processes, i \in Jobs :
                   recent'[q][i] = recent[q][i] \/ recent'[q][i] = FALSE
      BY <3>2 DEF IntervalEnds, TypeOK, StoreTypeOK
    <3>3. QED
      BY <1>2, <3>1, <3>2
  <2>2. QED
    BY <2>1 DEF NothingThrottled
<1>3. ASSUME NEW p \in Processes, NEW j \in Jobs, Mirror(p, j)
      PROVE  NothingThrottled'
  <2>1. \A q \in Processes, i \in Jobs : recent'[q][i] = recent[q][i] \/ recent'[q][i] = FALSE
    BY <1>3 DEF Mirror, TypeOK, StoreTypeOK, NothingThrottled
  <2>2. QED
    BY <2>1 DEF NothingThrottled
<1>4. QED
  BY <1>1, <1>2, <1>3, StoreStep

-----------------------------------------------------------------------------
(* One worker up at a time and the throttle off: what the rows say is what   *)
(* the files say whenever no save is under way, for the jobs that only the   *)
(* workers write and in whose saves no crash comes between the halves.       *)

Own == Jobs \ (Cancellable \cup TornSaves)

\* The scheduler of w has taken j, or is recovering it.
Doing(w, j) ==
  sched[w].pc \in {"resave", "claim", "claimed", "recover"} /\ sched[w].job = j
Busy(w, j) == run[w][j] # "none" \/ (Doing(w, j) /\ sched[w].pc # "resave")

OneUp ==
  /\ \A v, w \in Workers : proc[v] = "up" /\ proc[w] = "up" => v = w
  /\ \A w \in Workers :
       /\ proc[w] # "up" => /\ sched[w] = IdleSched
                            /\ \A j \in Jobs : run[w][j] = "none" /\ Ready(w, j)
       /\ sched[w].pc = "idle" => sched[w] = IdleSched
\* Nothing touches a job before its first save is complete.
Unseen(j) ==
  /\ row[j].status = "none" =>
       /\ file[j] \in {NoRec, NewJob}
       /\ \A w \in Workers :
            sched[w].cands[j] = NoRec /\ ~Doing(w, j) /\ run[w][j] = "none"
  /\ IF web[j] = "none" THEN row[j].status = "none" /\ file[j] = NoRec /\ Ready(Web, j)
                        ELSE web[j] = "idle" /\ file[j].status # "none"
  /\ ~Ready(Web, j) => row[j].status = "none"
\* One save at a time, of the newest record; then the row has it too.
Current(j) ==
  /\ \A p \in Processes : ~Ready(p, j) => pending[p][j] = file[j]
  /\ (\A p \in Processes : Ready(p, j)) => row[j] = [status |-> file[j].status, json |-> file[j]]
  /\ \A w \in Workers : ~Ready(w, j) => Busy(w, j)
\* What the scheduler of w has read of j is still so, and the lock is its own.
Listed(w, j) ==
  /\ sched[w].cands[j] # NoRec =>
       /\ sched[w].cands[j] = file[j] /\ file[j].status = "queued"
       /\ run[w][j] = "none" /\ ~Doing(w, j)
  /\ Doing(w, j) =>
       /\ run[w][j] = "none"
       /\ sched[w].pc # "recover" => lock[j] = w
       /\ sched[w].pc \in {"resave", "claim"} =>
            sched[w].rec = file[j] /\ file[j].status = "queued"
       /\ sched[w].pc = "claimed" => file[j] = Claimed(sched[w].rec)
InStep(w, j) ==
  run[w][j] # "none" =>
    /\ lock[j] = w
    /\ run[w][j] # "ended" => mem[w][j] = file[j] /\ file[j].status # "queued"
\* The attempts of j are bounded, and one is left for whoever is to begin it.
Tries(j) ==
  /\ file[j].attempts <= MaxAttempts
  /\ file[j].status = "queued" => file[j].attempts < MaxAttempts
  /\ \A w \in Workers :
       run[w][j] = "start" \/ (Doing(w, j) /\ sched[w].pc = "claimed")
         => file[j].attempts < MaxAttempts

PlainAt(j) ==
  /\ Unseen(j) /\ Current(j) /\ Tries(j)
  /\ \A w \in Workers : Listed(w, j) /\ InStep(w, j)
PlainInv == TypeOK /\ NothingThrottled /\ OneUp /\ \A j \in Own : PlainAt(j)

\* The other workers have nothing.
LEMMA Others ==
  ASSUME OneUp, NEW w \in Workers, proc[w] = "up", NEW v \in Workers \ {w}, NEW j \in Jobs
  PROVE  sched[v] = IdleSched /\ ~Doing(v, j) /\ run[v][j] = "none" /\ Ready(v, j)
         /\ ~Busy(v, j) /\ sched[v].cands[j] = NoRec
<1>1. sched[v] = IdleSched /\ run[v][j] = "none" /\ Ready(v, j)
  BY DEF OneUp
<1>2. IdleSched.pc = "idle" /\ IdleSched.cands[j] = NoRec
  BY DEF IdleSched, NoCands
<1>3. QED
  BY <1>1, <1>2 DEF Doing, Busy

\* A step about another job: the scheduler may leave that job or take it.
LEMMA PlainElse ==
  ASSUME NEW i \in Jobs, PlainAt(i),
         file'[i] = file[i], row'[i] = row[i], web'[i] = web[i], lock'[i] = lock[i],
         \A p \in Processes : pending'[p][i] = pending[p][i],
         \A w \in Workers :
           /\ run'[w][i] = run[w][i] /\ mem'[w][i] = mem[w][i]
           /\ \/ sched'[w] = sched[w]
              \/ /\ sched'[w].cands[i] \in {NoRec, sched[w].cands[i]}
                 /\ ~Doing(w, i) /\ ~Doing(w, i)'
  PROVE  PlainAt(i)'
<1>1. \A p \in Processes : Ready(p, i)' <=> Ready(p, i)
  BY DEF Ready
<1>2. \A w \in Workers : /\ Doing(w, i)' <=> Doing(w, i)
                         /\ Doing(w, i) => sched'[w] = sched[w]
                         /\ Busy(w, i)' <=> Busy(w, i)
                         /\ sched'[w].cands[i] \in {NoRec, sched[w].cands[i]}
  BY DEF Doing, Busy
<1>3. Web \in Processes /\ Workers \subseteq Processes
  BY DEF Processes
<1>4. Unseen(i)'
  BY <1>1, <1>2, <1>3 DEF PlainAt, Unseen
<1>5. Current(i)'
  BY <1>1, <1>2, <1>3 DEF PlainAt, Current
<1>6. Tries(i)'
  BY <1>2 DEF PlainAt, Tries
<1>7. \A w \in Workers : Listed(w, i)' /\ InStep(w, i)'
  BY <1>2 DEF PlainAt, Listed, InStep
<1>8. QED
  BY <1>4, <1>5, <1>6, <1>7 DEF PlainAt

\* A step about a job that has its row, by the one worker there is; it may
\* begin a save.
LEMMA PlainStep ==
  ASSUME OneUp, NEW w \in Workers, proc[w] = "up", NEW j \in Jobs, PlainAt(j),
         row[j].status # "none", row'[j] = row[j], web'[j] = web[j],
         \A p \in Processes \ {w} : pending'[p][j] = pending[p][j],
         \A v \in Workers \ {w} :
           sched'[v] = sched[v] /\ run'[v][j] = run[v][j] /\ mem'[v][j] = mem[v][j],
         \/ pending'[w][j] = pending[w][j] /\ file'[j] = file[j]
         \/ Ready(w, j) /\ pending'[w][j] = file'[j] /\ file'[j].status # "none",
         ~Ready(w, j)' => Busy(w, j)',
         Listed(w, j)', InStep(w, j)',
         file'[j].attempts <= MaxAttempts,
         file'[j].status = "queued" => file'[j].attempts < MaxAttempts,
         run'[w][j] = "start" \/ (Doing(w, j)' /\ sched'[w].pc = "claimed")
           => file'[j].attempts < MaxAttempts
  PROVE  PlainAt(j)'
<1>1. \A v \in Workers \ {w} :
        /\ sched'[v] = IdleSched /\ ~Doing(v, j)' /\ run'[v][j] = "none" /\ Ready(v, j)'
        /\ sched'[v].cands[j] = NoRec
  <2> TAKE v \in Workers \ {w}
  <2>1. sched[v] = IdleSched /\ ~Doing(v, j) /\ run[v][j] = "none" /\ Ready(v, j)
        /\ sched[v].cands[j] = NoRec
    BY Others
  <2>2. v \in Processes \ {w}
    BY DEF Processes
  <2>3. QED
    BY <2>1, <2>2 DEF Doing, Ready
<1>2. Web \in Processes /\ Workers \subseteq Processes /\ Web # w
      /\ Processes = Workers \cup {Web}
  BY StoreAssumption DEF Processes
<1>3. Ready(Web, j) /\ Ready(Web, j)' /\ web[j] = "idle"
  BY <1>2 DEF PlainAt, Unseen, Ready
<1>4. \/ Ready(w, j)' /\ Ready(w, j) /\ file'[j] = file[j]
      \/ ~Ready(w, j)' /\ pending'[w][j] = file'[j]
  BY <1>2 DEF PlainAt, Current, Ready, NoRec
<1>5. Unseen(j)'
  <2>1. file'[j].status # "none"
    BY <1>3 DEF PlainAt, Unseen
  <2>2. QED
    BY <1>3, <2>1 DEF Unseen
<1>6. Current(j)'
  <2>1. \A p \in Processes : ~Ready(p, j)' => p = w /\ pending'[p][j] = file'[j]
    BY <1>1, <1>2, <1>3, <1>4
  <2>2. \A v \in Workers : ~Ready(v, j)' => Busy(v, j)'
    BY <1>2, <2>1
  <2>3. ASSUME \A p \in Processes : Ready(p, j)'
        PROVE  row'[j] = [status |-> file'[j].status, json |-> file'[j]]
    <3>1. Ready(w, j) /\ file'[j] = file[j]
      BY <1>2, <1>4, <2>3
    <3>2. \A p \in Processes : Ready(p, j)
      <4>1. \A v \in Workers \ {w} : Ready(v, j)
        BY Others
      <4>2. QED
        BY <1>2, <1>3, <3>1, <4>1
    <3>3. QED
      BY <3>1, <3>2 DEF PlainAt, Current
  <2>4. QED
    BY <2>1, <2>2, <2>3 DEF Current
<1>7. \A v \in Workers : Listed(v, j)' /\ InStep(v, j)'
  BY <1>1 DEF Listed, InStep
<1>8. Tries(j)'
  BY <1>1 DEF Tries
<1>9. QED
  BY <1>5, <1>6, <1>7, <1>8 DEF PlainAt
-----------------------------------------------------------------------------
(* What the steps of a worker leave alone *)

\* A save, by its effect.
LEMMA SaveEffect ==
  ASSUME TypeOK, NEW p \in Processes, NEW j \in Jobs, NEW rec, Save(p, j, rec)
  PROVE  /\ file' = [file EXCEPT ![j] = rec] /\ file'[j] = rec
         /\ \A i \in Jobs \ {j} : file'[i] = file[i]
         /\ pending'[p][j] = rec /\ Ready(p, j)
         /\ \A q \in Processes, i \in Jobs : q # p \/ i # j => pending'[q][i] = pending[q][i]
         /\ UNCHANGED <<row, recent>>
BY DEF Save, TypeOK, StoreTypeOK

\* The parts of a step of w about j that touch nothing of other jobs.
Apart(w, j) ==
  /\ proc[w] = "up" /\ UNCHANGED <<proc, row, recent, web>>
  /\ \A i \in Jobs \ {j} : file'[i] = file[i] /\ lock'[i] = lock[i]
  /\ \A q \in Processes, i \in Jobs : q # w \/ i # j => pending'[q][i] = pending[q][i]
  /\ \A v \in Workers, i \in Jobs : v # w \/ i # j =>
       run'[v][i] = run[v][i] /\ mem'[v][i] = mem[v][i]
  /\ \A v \in Workers \ {w} : sched'[v] = sched[v]
  /\ \A i \in Jobs \ {j} :
       \/ sched'[w] = sched[w]
       \/ /\ sched'[w].cands[i] \in {NoRec, sched[w].cands[i]}
          /\ ~Doing(w, i) /\ ~Doing(w, i)'
  /\ sched'[w].pc = "idle" => sched'[w] = IdleSched

\* Either nothing of the store moves or a save of j begins.
Writes(w, j) == UNCHANGED store \/ \E rec : Save(w, j, rec)

LEMMA WritesApart ==
  ASSUME TypeOK, NEW w \in Workers, NEW j \in Jobs, Writes(w, j)
  PROVE  /\ \A i \in Jobs \ {j} : file'[i] = file[i]
         /\ \A q \in Processes, i \in Jobs : q # w \/ i # j => pending'[q][i] = pending[q][i]
         /\ UNCHANGED <<row, recent>>
<1>1. w \in Processes
  BY DEF Processes
<1>2. CASE UNCHANGED store
  BY <1>2 DEF store
<1>3. CASE \E rec : Save(w, j, rec)
  BY <1>1, <1>3, SaveEffect
<1>4. QED
  BY <1>2, <1>3 DEF Writes

LEMMA SchedApart ==
  ASSUME TypeOK, OneUp, NEW w \in Workers, NEW j \in Jobs, SchedStep(w, j)
  PROVE  Apart(w, j)
<1>1. Writes(w, j) /\ proc[w] = "up" /\ UNCHANGED <<proc, web>>
  BY DEF SchedStep, ClaimNext, LockResave, ClaimSave, ClaimDone, Recover, RecoverDone, Writes
<1>2. sched \in [Workers -> Sched] /\ lock \in [Jobs -> Workers \cup {NoWorker}]
      /\ run \in [Workers -> [Jobs -> RunPcs]] /\ mem \in [Workers -> [Jobs -> Rec]]
  BY DEF TypeOK
<1>3. \A i \in Jobs \ {j} : lock'[i] = lock[i]
  BY <1>2 DEF SchedStep, ClaimNext, LockResave, ClaimSave, ClaimDone, Recover, RecoverDone
<1>4. \A v \in Workers, i \in Jobs : v # w \/ i # j =>
        run'[v][i] = run[v][i] /\ mem'[v][i] = mem[v][i]
  BY <1>2 DEF SchedStep, ClaimNext, LockResave, ClaimSave, ClaimDone, Recover, RecoverDone
<1>5. \E s : sched' = [sched EXCEPT ![w] = s]
  <2>1. \A pc : [sched EXCEPT ![w].pc = pc] = [sched EXCEPT ![w] = [sched[w] EXCEPT !.pc = pc]]
    BY <1>2
  <2>2. CASE ClaimNext(w, j)
    <3>1. \E rest, s : sched' = [sched EXCEPT ![w].cands = rest] \/ sched' = [sched EXCEPT ![w] = s]
      BY <2>2 DEF ClaimNext
    <3>2. QED
      BY <1>2, <3>1
  <2>3. CASE LockResave(w, j) \/ ClaimSave(w, j)
    BY <2>1, <2>3 DEF LockResave, ClaimSave
  <2>4. CASE ClaimDone(w, j) \/ RecoverDone(w, j)
    BY <2>4 DEF ClaimDone, RecoverDone
  <2>5. CASE Recover(w, j)
    <3>1. sched' = [sched EXCEPT ![w].pc = "recover", ![w].job = j]
      BY <2>5 DEF Recover
    <3>2. sched' = [sched EXCEPT ![w] = [sched[w] EXCEPT !.pc = "recover", !.job = j]]
      BY <1>2, <3>1
    <3>3. QED
      BY <3>2
  <2>6. QED
    BY <2>2, <2>3, <2>4, <2>5 DEF SchedStep
<1>6. \A v \in Workers \ {w} : sched'[v] = sched[v]
  BY <1>2, <1>5
\* Where the scheduler goes.
<1>7. /\ \A i \in Jobs \ {j} : /\ sched'[w].cands[i] \in {NoRec, sched[w].cands[i]}
                               /\ ~Doing(w, i) /\ ~Doing(w, i)'
      /\ sched'[w].pc = "idle" => sched'[w] = IdleSched
  <2>0. sched[w] \in Sched /\ \A i \in Jobs : IdleSched.cands[i] = NoRec /\ IdleSched.pc = "idle"
    BY <1>2 DEF IdleSched, NoCands
  <2>1. CASE ClaimNext(w, j)
    <3> DEFINE rest == [sched[w].cands EXCEPT ![j] = NoRec]
    <3>1. /\ sched[w].pc = "scan"
          /\ \/ sched' = [sched EXCEPT ![w].cands = rest]
             \/ \E pc \in {"resave", "claim"} :
                  sched' = [sched EXCEPT ![w] = [pc |-> pc, cands |-> rest, job |-> j,
                                                 rec |-> sched[w].cands[j]]]
      BY <2>1 DEF ClaimNext
    <3>2. \A i \in Jobs \ {j} : rest[i] = sched[w].cands[i]
      BY <2>0 DEF Sched
    <3> HIDE DEF rest
    <3>3. CASE sched' = [sched EXCEPT ![w].cands = rest]
      <4>1. sched'[w].cands = rest /\ sched'[w].pc = "scan"
        BY <1>2, <3>1, <3>3 DEF Sched
      <4>2. QED
        BY <3>1, <3>2, <4>1 DEF Doing
    <3>4. ASSUME NEW pc \in {"resave", "claim"}, NEW rec,
                 sched' = [sched EXCEPT ![w] = [pc |-> pc, cands |-> rest, job |-> j, rec |-> rec]]
          PROVE  sched'[w].cands = rest /\ sched'[w].pc = pc /\ sched'[w].job = j
      BY <1>2, <3>4
    <3>5. QED
      BY <3>1, <3>2, <3>3, <3>4 DEF Doing
  <2>2. CASE LockResave(w, j) \/ ClaimSave(w, j)
    <3>1. PICK pc \in {"claim", "claimed"} : sched' = [sched EXCEPT ![w].pc = pc]
      BY <2>2 DEF LockResave, ClaimSave
    <3>2. /\ sched'[w].pc = pc /\ sched'[w].cands = sched[w].cands
          /\ sched'[w].job = sched[w].job
      BY <1>2, <2>0, <3>1 DEF Sched
    <3>3. sched[w].job = j
      BY <2>2 DEF LockResave, ClaimSave
    <3>4. QED
      BY <3>2, <3>3 DEF Doing
  <2>3. CASE ClaimDone(w, j) \/ RecoverDone(w, j)
    <3>1. sched'[w] = IdleSched /\ sched[w].job = j
      BY <1>2, <2>3 DEF ClaimDone, RecoverDone
    <3>2. QED
      BY <2>0, <3>1 DEF Doing
  <2>4. CASE Recover(w, j)
    <3>1. sched' = [sched EXCEPT ![w].pc = "recover", ![w].job = j] /\ sched[w].pc = "idle"
      BY <2>4 DEF Recover
    <3>2. sched'[w].pc = "recover" /\ sched'[w].job = j /\ sched'[w].cands = sched[w].cands
      BY <1>2, <2>0, <3>1 DEF Sched
    <3>3. QED
      BY <3>1, <3>2 DEF Doing
  <2>5. QED
    BY <2>1, <2>2, <2>3, <2>4 DEF SchedStep
<1>8. QED
  BY <1>1, <1>3, <1>4, <1>6, <1>7, WritesApart DEF Apart

LEMMA RunApart ==
  ASSUME TypeOK, OneUp, NEW w \in Workers, NEW j \in Jobs, RunEnds(w, j) \/ RunWork(w, j)
  PROVE  Apart(w, j) /\ UNCHANGED sched /\ run[w][j] # "none"
<1>1. /\ Writes(w, j) /\ proc[w] = "up" /\ UNCHANGED <<proc, web, sched>>
      /\ run[w][j] # "none"
  BY DEF RunEnds, RunBegin, RunCheck, RunWork, RunFinish, RunFail, RunRelease, SaveAndKeep,
     Live, Writes
<1>2. lock \in [Jobs -> Workers \cup {NoWorker}]
      /\ run \in [Workers -> [Jobs -> RunPcs]] /\ mem \in [Workers -> [Jobs -> Rec]]
  BY DEF TypeOK
<1>3. \A i \in Jobs \ {j} : lock'[i] = lock[i]
  BY <1>2 DEF RunEnds, RunBegin, RunCheck, RunWork, RunFinish, RunFail, RunRelease
<1>4. \A v \in Workers, i \in Jobs : v # w \/ i # j =>
        run'[v][i] = run[v][i] /\ mem'[v][i] = mem[v][i]
  BY <1>2 DEF RunEnds, RunBegin, RunCheck, RunWork, RunFinish, RunFail, RunRelease,
     SaveAndKeep, GoTo
<1>5. sched'[w].pc = "idle" => sched'[w] = IdleSched
  BY <1>1 DEF OneUp
<1>6. QED
  BY <1>1, <1>3, <1>4, <1>5, WritesApart DEF Apart

\* Such a step keeps the invariant when it keeps the part about j.
LEMMA PlainActor ==
  ASSUME TypeOK', NothingThrottled', OneUp, \A i \in Own : PlainAt(i),
         NEW w \in Workers, NEW j \in Jobs, Apart(w, j), j \in Own => PlainAt(j)'
  PROVE  PlainInv'
<1>1. OneUp'
  <2>1. w \in Processes /\ Workers \subseteq Processes
    BY DEF Processes
  <2>2. \A v \in Workers \ {w}, i \in Jobs : Ready(v, i)' <=> Ready(v, i)
    BY <2>1 DEF Apart, Ready
  <2>3. QED
    BY <2>2 DEF OneUp, Apart
<1>2. ASSUME NEW i \in Own PROVE PlainAt(i)'
  <2>1. CASE i = j
    BY <2>1
  <2>2. CASE i # j
    <3>1. i \in Jobs \ {j} /\ PlainAt(i)
      BY <2>2 DEF Own
    <3>2. \A v \in Workers :
            \/ sched'[v] = sched[v]
            \/ /\ sched'[v].cands[i] \in {NoRec, sched[v].cands[i]}
               /\ ~Doing(v, i) /\ ~Doing(v, i)'
      BY <3>1 DEF Apart
    <3>3. QED
      BY <3>1, <3>2, PlainElse DEF Apart
  <2>3. QED
    BY <2>1, <2>2
<1>3. QED
  BY <1>1, <1>2 DEF PlainInv
-----------------------------------------------------------------------------
(* The steps of the worker that is up *)

\* What PlainAt says of a job the worker has listed, taken or runs.
LEMMA Mine ==
  ASSUME TypeOK, OneUp, NEW j \in Own, PlainAt(j), NEW w \in Workers, proc[w] = "up",
         sched[w].cands[j] # NoRec \/ Doing(w, j) \/ run[w][j] # "none" \/ file[j].status = "running"
  PROVE  /\ row[j].status # "none" /\ row[j] # NoRow /\ file[j].status # "none"
         /\ Ready(w, j) => row[j].json = file[j] /\ ReadJob(j) = file[j]
         /\ w \in Processes /\ j \in Jobs /\ Web \notin Workers
<1>1. w \in Processes /\ j \in Jobs /\ Web \in Processes /\ Processes = Workers \cup {Web}
      /\ Web \notin Workers
  BY StoreAssumption DEF Processes, Own
<1>2. row[j].status # "none"
  BY DEF PlainAt, Unseen, NoRec, NewJob
<1>3. file[j].status # "none" /\ Ready(Web, j)
  BY <1>2 DEF PlainAt, Unseen
<1>4. ASSUME Ready(w, j) PROVE row[j].json = file[j]
  <2>1. \A v \in Workers \ {w} : Ready(v, j)
    BY <1>1, Others
  <2>2. \A p \in Processes : Ready(p, j)
    BY <1>1, <1>3, <1>4, <2>1
  <2>3. QED
    BY <2>2 DEF PlainAt, Current
<1>5. row[j] # NoRow
  BY <1>2 DEF NoRow
<1>6. QED
  BY <1>1, <1>2, <1>3, <1>4, <1>5 DEF ReadJob

LEMMA PlainSched ==
  ASSUME TypeOK, OneUp, NEW j \in Own, PlainAt(j), NEW w \in Workers, SchedStep(w, j)
  PROVE  PlainAt(j)' /\ file[j].attempts <= file'[j].attempts
<1>0. /\ j \in Jobs /\ w \in Processes /\ Web # w /\ Web \in Processes
      /\ sched \in [Workers -> Sched] /\ lock \in [Jobs -> Workers \cup {NoWorker}]
      /\ run \in [Workers -> [Jobs -> RunPcs]] /\ mem \in [Workers -> [Jobs -> Rec]]
      /\ file[j] \in Rec /\ sched[w] \in Sched /\ NoWorker \notin Workers
      /\ file[j].attempts \in Nat
  BY StoreAssumption, QueueAssumption DEF TypeOK, StoreTypeOK, Own, Processes, Rec
<1>1. Apart(w, j) /\ proc[w] = "up"
  BY <1>0, SchedApart DEF Apart
<1>2. /\ row'[j] = row[j] /\ web'[j] = web[j]
      /\ \A p \in Processes \ {w} : pending'[p][j] = pending[p][j]
      /\ \A v \in Workers \ {w} :
           sched'[v] = sched[v] /\ run'[v][j] = run[v][j] /\ mem'[v][j] = mem[v][j]
  BY <1>0, <1>1 DEF Apart
<1>3. /\ Listed(w, j) /\ InStep(w, j) /\ Tries(j) /\ Current(j)
      /\ ~Ready(w, j) => Busy(w, j)
  BY DEF PlainAt, Current
<1>4. CASE ClaimNext(w, j)
  <2> DEFINE rest == [sched[w].cands EXCEPT ![j] = NoRec]
  <2>1. /\ sched[w].pc = "scan" /\ sched[w].cands[j] # NoRec /\ UNCHANGED <<store, run, mem>>
        /\ \/ /\ sched' = [sched EXCEPT ![w].cands = rest] /\ UNCHANGED lock
           \/ /\ \E pc \in {"resave", "claim"} :
                   sched' = [sched EXCEPT ![w] = [pc |-> pc, cands |-> rest, job |-> j,
                                                  rec |-> sched[w].cands[j]]]
              /\ lock' = [lock EXCEPT ![j] = w]
    BY <1>4 DEF ClaimNext
  <2>2. rest[j] = NoRec
    BY <1>0 DEF Sched
  <2> HIDE DEF rest
  <2>3. /\ sched[w].cands[j] = file[j] /\ file[j].status = "queued"
        /\ run[w][j] = "none" /\ ~Doing(w, j) /\ Ready(w, j)
    BY <1>3, <2>1 DEF Listed, Busy
  <2>4. /\ UNCHANGED <<file, pending, run, mem>> /\ Ready(w, j)'
    BY <2>1, <2>3 DEF store, Ready
  <2>5. row[j].status # "none"
    BY <1>1, <2>1, Mine
  <2>6. Listed(w, j)' /\ sched'[w].pc # "claimed"
    <3>1. CASE sched' = [sched EXCEPT ![w].cands = rest]
      <4>1. sched'[w].cands = rest /\ sched'[w].pc = "scan"
        BY <1>0, <2>1, <3>1 DEF Sched
      <4>2. QED
        BY <2>2, <4>1 DEF Listed, Doing
    <3>2. ASSUME NEW pc \in {"resave", "claim"}, lock' = [lock EXCEPT ![j] = w],
                 sched' = [sched EXCEPT ![w] = [pc |-> pc, cands |-> rest, job |-> j,
                                                rec |-> sched[w].cands[j]]]
          PROVE  Listed(w, j)' /\ sched'[w].pc # "claimed"
      <4>1. /\ sched'[w].cands = rest /\ sched'[w].pc = pc /\ sched'[w].rec = file[j]
            /\ lock'[j] = w
        BY <1>0, <2>3, <3>2
      <4>2. QED
        BY <2>2, <2>3, <2>4, <4>1 DEF Listed, Doing
    <3>3. QED
      BY <2>1, <3>1, <3>2
  <2>7. InStep(w, j)' /\ run'[w][j] = "none"
    BY <2>3, <2>4 DEF InStep
  <2>8. QED
    BY <1>0, <1>1, <1>2, <1>3, <2>4, <2>5, <2>6, <2>7, PlainStep DEF Tries
<1>5. CASE LockResave(w, j)
  <2>1. /\ Doing(w, j) /\ sched[w].pc = "resave" /\ Save(w, j, sched[w].rec)
        /\ sched' = [sched EXCEPT ![w].pc = "claim"] /\ UNCHANGED <<lock, run, mem>>
    BY <1>5 DEF LockResave, Doing
  <2>2. /\ sched[w].rec = file[j] /\ file[j].status = "queued" /\ run[w][j] = "none"
        /\ lock[j] = w /\ sched[w].cands[j] = NoRec
    BY <1>3, <2>1 DEF Listed
  <2>3. /\ sched'[w].pc = "claim" /\ sched'[w].job = j /\ sched'[w].rec = sched[w].rec
        /\ sched'[w].cands = sched[w].cands
    BY <1>0, <2>1 DEF Sched, Doing
  <2>4. file'[j] = file[j] /\ pending'[w][j] = file'[j] /\ Ready(w, j)
    BY <1>0, <2>1, <2>2, SaveEffect
  <2>5. row[j].status # "none" /\ file[j].status # "none"
    BY <1>1, <2>1, Mine
  <2>6. Listed(w, j)' /\ InStep(w, j)' /\ Busy(w, j)'
    BY <2>1, <2>2, <2>3, <2>4 DEF Listed, InStep, Busy, Doing
  <2>7. QED
    BY <1>0, <1>1, <1>2, <1>3, <2>1, <2>2, <2>3, <2>4, <2>5, <2>6, PlainStep DEF Tries
<1>6. CASE ClaimSave(w, j)
  <2>1. /\ Doing(w, j) /\ sched[w].pc = "claim" /\ Save(w, j, Claimed(sched[w].rec))
        /\ sched' = [sched EXCEPT ![w].pc = "claimed"] /\ UNCHANGED <<lock, run, mem>>
    BY <1>6 DEF ClaimSave, Doing
  <2>2. /\ sched[w].rec = file[j] /\ file[j].status = "queued" /\ run[w][j] = "none"
        /\ lock[j] = w /\ sched[w].cands[j] = NoRec
    BY <1>3, <2>1 DEF Listed
  <2>3. /\ sched'[w].pc = "claimed" /\ sched'[w].job = j /\ sched'[w].rec = sched[w].rec
        /\ sched'[w].cands = sched[w].cands
    BY <1>0, <2>1 DEF Sched, Doing
  <2>4. file'[j] = Claimed(file[j]) /\ pending'[w][j] = file'[j] /\ Ready(w, j)
    BY <1>0, <2>1, <2>2, SaveEffect
  <2>5. file'[j].status = "running" /\ file'[j].attempts = file[j].attempts
    BY <1>0, <2>4 DEF Claimed, Rec
  <2>6. row[j].status # "none"
    BY <1>1, <2>1, Mine
  <2>7. Listed(w, j)' /\ InStep(w, j)' /\ Busy(w, j)'
    BY <2>1, <2>2, <2>3, <2>4 DEF Listed, InStep, Busy, Doing
  <2>8. PlainAt(j)'
    BY <1>0, <1>1, <1>2, <1>3, <2>1, <2>2, <2>3, <2>4, <2>5, <2>6, <2>7, PlainStep DEF Tries
  <2>9. QED
    BY <1>0, <2>5, <2>8
<1>7. CASE ClaimDone(w, j)
  <2>1. /\ Doing(w, j) /\ sched[w].pc = "claimed" /\ Ready(w, j)
        /\ mem' = [mem EXCEPT ![w][j] = Claimed(sched[w].rec)]
        /\ run' = [run EXCEPT ![w][j] = "start"]
        /\ sched' = [sched EXCEPT ![w] = IdleSched] /\ UNCHANGED <<store, lock>>
    BY <1>7 DEF ClaimDone, Doing
  <2>2. /\ run'[w][j] = "start" /\ mem'[w][j] = Claimed(sched[w].rec) /\ sched'[w] = IdleSched
        /\ IdleSched.pc = "idle" /\ IdleSched.cands[j] = NoRec
        /\ UNCHANGED <<file, pending, lock>> /\ Ready(w, j)'
    BY <1>0, <2>1 DEF IdleSched, NoCands, store, Ready
  <2>3. lock[j] = w /\ file[j] = Claimed(sched[w].rec) /\ file[j].attempts < MaxAttempts
    BY <1>3, <2>1 DEF Listed, Tries
  <2>4. file[j].status # "queued"
    BY <1>0, <2>3 DEF Claimed, Rec, Sched
  <2>5. row[j].status # "none"
    BY <1>1, <2>1, Mine
  <2>6. Listed(w, j)' /\ InStep(w, j)'
    BY <2>2, <2>3, <2>4 DEF Listed, InStep, Doing
  <2>7. QED
    BY <1>0, <1>1, <1>2, <1>3, <2>2, <2>3, <2>4, <2>5, <2>6, PlainStep DEF Tries
<1>8. CASE Recover(w, j)
  <2>1. /\ sched[w].pc = "idle" /\ file[j].status = "running" /\ Abandoned(j)
        /\ lock' = [lock EXCEPT ![j] = NoWorker]
        /\ Save(w, j, [ReadJob(j) EXCEPT !.status = "failed"])
        /\ sched' = [sched EXCEPT ![w].pc = "recover", ![w].job = j] /\ UNCHANGED <<run, mem>>
    BY <1>8 DEF Recover
  <2>2. sched[w] = IdleSched /\ sched[w].cands[j] = NoRec
    BY <1>0, <2>1 DEF OneUp, IdleSched, NoCands
  <2>3. /\ sched'[w].pc = "recover" /\ sched'[w].job = j
        /\ sched'[w].cands = sched[w].cands
    BY <1>0, <2>1 DEF Sched
  <2>4. row[j].status # "none" /\ Ready(w, j) /\ ReadJob(j) = file[j]
    <3>1. Ready(w, j)
      BY <1>0, <2>1, SaveEffect
    <3>2. QED
      BY <1>1, <2>1, <3>1, Mine
  <2>5. file'[j] = [file[j] EXCEPT !.status = "failed"] /\ pending'[w][j] = file'[j]
    BY <1>0, <2>1, <2>4, SaveEffect
  <2>6. file'[j].status = "failed" /\ file'[j].attempts = file[j].attempts
    BY <1>0, <2>5 DEF Rec
  <2>7. run[w][j] = "none"
    BY <1>0, <1>1, <1>3, <2>1 DEF InStep, Abandoned, LockDead
  <2>8. Listed(w, j)' /\ InStep(w, j)' /\ Busy(w, j)'
    BY <2>1, <2>2, <2>3, <2>7 DEF Listed, InStep, Busy, Doing
  <2>9. PlainAt(j)'
    BY <1>0, <1>1, <1>2, <1>3, <2>1, <2>3, <2>4, <2>5, <2>6, <2>7, <2>8, PlainStep DEF Tries
  <2>10. QED
    BY <1>0, <2>6, <2>9
<1>9. CASE RecoverDone(w, j)
  <2>1. /\ Doing(w, j) /\ sched[w].pc = "recover" /\ Ready(w, j)
        /\ sched' = [sched EXCEPT ![w] = IdleSched] /\ UNCHANGED <<store, lock, run, mem>>
    BY <1>9 DEF RecoverDone, Doing
  <2>2. /\ sched'[w] = IdleSched /\ IdleSched.pc = "idle" /\ IdleSched.cands[j] = NoRec
        /\ UNCHANGED <<file, pending, lock, run, mem>> /\ Ready(w, j)'
    BY <1>0, <2>1 DEF IdleSched, NoCands, store, Ready
  <2>3. run[w][j] = "none" /\ row[j].status # "none"
    BY <1>1, <1>3, <2>1, Mine DEF Listed
  <2>4. Listed(w, j)' /\ InStep(w, j)'
    BY <2>2, <2>3 DEF Listed, InStep, Doing
  <2>5. QED
    BY <1>0, <1>1, <1>2, <1>3, <2>2, <2>3, <2>4, PlainStep DEF Tries
<1>10. QED
  BY <1>4, <1>5, <1>6, <1>7, <1>8, <1>9 DEF SchedStep

LEMMA PlainRun ==
  ASSUME TypeOK, OneUp, NEW j \in Own, PlainAt(j), NEW w \in Workers,
         RunEnds(w, j) \/ RunWork(w, j)
  PROVE  PlainAt(j)' /\ file[j].attempts <= file'[j].attempts
<1>0. /\ j \in Jobs /\ w \in Processes /\ Web # w /\ Web \in Processes
      /\ lock \in [Jobs -> Workers \cup {NoWorker}]
      /\ run \in [Workers -> [Jobs -> RunPcs]] /\ mem \in [Workers -> [Jobs -> Rec]]
      /\ file[j] \in Rec /\ MaxAttempts \in Nat
  BY StoreAssumption, QueueAssumption DEF TypeOK, StoreTypeOK, Own, Processes
<1>1. Apart(w, j) /\ proc[w] = "up" /\ UNCHANGED sched /\ run[w][j] # "none"
  BY <1>0, RunApart DEF Apart
<1>2. /\ row'[j] = row[j] /\ web'[j] = web[j]
      /\ \A p \in Processes \ {w} : pending'[p][j] = pending[p][j]
      /\ \A v \in Workers \ {w} :
           sched'[v] = sched[v] /\ run'[v][j] = run[v][j] /\ mem'[v][j] = mem[v][j]
  BY <1>0, <1>1 DEF Apart
<1>3. /\ Listed(w, j) /\ InStep(w, j) /\ Tries(j)
  BY DEF PlainAt
<1>4. /\ row[j].status # "none" /\ file[j].status # "none" /\ lock[j] = w
      /\ run[w][j] # "ended" => mem[w][j] = file[j] /\ file[j].status # "queued"
      /\ Ready(w, j) => ReadJob(j) = file[j]
  BY <1>1, <1>3, Mine DEF InStep
<1>5. Listed(w, j)' /\ ~Doing(w, j)'
  BY <1>1, <1>3 DEF Listed, Doing
\* A step that leaves the record or saves it, with what it keeps in memory.
<1>6. ASSUME NEW pc \in RunPcs \ {"none", "start"}, run' = [run EXCEPT ![w][j] = pc],
             UNCHANGED lock,
             \/ UNCHANGED <<store, mem>>
             \/ \E rec : SaveAndKeep(w, j, rec) /\ rec.status # "none",
             pc # "ended" => mem'[w][j] = file'[j] /\ file'[j].status # "queued",
             file'[j].attempts <= MaxAttempts,
             file'[j].status = "queued" => file'[j].attempts < MaxAttempts
      PROVE  PlainAt(j)'
  <2>1. run'[w][j] = pc /\ pc # "none" /\ pc # "start"
    BY <1>0, <1>6
  <2>2. InStep(w, j)' /\ Busy(w, j)'
    BY <1>4, <1>6, <2>1 DEF InStep, Busy
  <2>3. \/ pending'[w][j] = pending[w][j] /\ file'[j] = file[j]
        \/ Ready(w, j) /\ pending'[w][j] = file'[j] /\ file'[j].status # "none"
    <3>1. CASE UNCHANGED <<store, mem>>
      BY <3>1 DEF store
    <3>2. ASSUME NEW rec, SaveAndKeep(w, j, rec), rec.status # "none"
          PROVE  Ready(w, j) /\ pending'[w][j] = file'[j] /\ file'[j].status # "none"
      BY <1>0, <3>2, SaveEffect DEF SaveAndKeep
    <3>3. QED
      BY <1>6, <3>1, <3>2
  <2>4. QED
    BY <1>0, <1>1, <1>2, <1>4, <1>5, <1>6, <2>1, <2>2, <2>3, PlainStep
\* What a save leaves in the file and in memory.
<1>7. ASSUME NEW rec, SaveAndKeep(w, j, rec)
      PROVE  file'[j] = rec /\ mem'[w][j] = rec
  BY <1>0, <1>7, SaveEffect DEF SaveAndKeep
<1>8. UNCHANGED <<store, mem>> => file'[j] = file[j] /\ mem'[w][j] = mem[w][j]
  BY DEF store
<1>9. file[j].attempts \in Nat /\ file[j].attempts <= MaxAttempts
  BY <1>0, <1>3 DEF Rec, Tries
<1>10. file[j].attempts <= file'[j].attempts
  <2>1. \/ file'[j] = file[j]
        \/ /\ mem[w][j] = file[j]
           /\ \/ file'[j] = [mem[w][j] EXCEPT !.attempts = @ + 1]
              \/ \E s : file'[j] = [mem[w][j] EXCEPT !.status = s]
              \/ file'[j] = mem[w][j]
    <3>1. run[w][j] # "ended" => mem[w][j] = file[j]
      BY <1>4
    <3>2. CASE RunBegin(w, j) \/ RunCheck(w, j) \/ RunWork(w, j)
      BY <1>7, <1>8, <3>1, <3>2 DEF RunBegin, RunCheck, RunWork, Live
    <3>3. CASE RunFinish(w, j) \/ RunFail(w, j)
      BY <1>7, <1>8, <3>1, <3>3 DEF RunFinish, RunFail, Live
    <3>4. CASE RunRelease(w, j)
      BY <3>4 DEF RunRelease, store
    <3>5. QED
      BY <3>2, <3>3, <3>4 DEF RunEnds
  <2>2. ASSUME file'[j] = [file[j] EXCEPT !.attempts = @ + 1]
        PROVE  file'[j].attempts = file[j].attempts + 1
    BY <1>0, <2>2 DEF Rec
  <2>3. ASSUME NEW s, file'[j] = [file[j] EXCEPT !.status = s]
        PROVE  file'[j].attempts = file[j].attempts
    BY <1>0, <2>3 DEF Rec
  <2>4. \/ file'[j] = file[j]
        \/ file'[j] = [file[j] EXCEPT !.attempts = @ + 1]
        \/ \E s : file'[j] = [file[j] EXCEPT !.status = s]
    BY <2>1
  <2>5. file'[j].attempts = file[j].attempts \/ file'[j].attempts = file[j].attempts + 1
    BY <1>0, <2>2, <2>3, <2>4 DEF Rec
  <2>6. QED
    BY <1>9, <2>5
<1> SUFFICES PlainAt(j)'
  BY <1>10
<1>11. CASE RunBegin(w, j)
  <2> DEFINE rec == [mem[w][j] EXCEPT !.attempts = @ + 1]
  <2>1. /\ run[w][j] = "start" /\ SaveAndKeep(w, j, rec) /\ UNCHANGED lock
        /\ run' = [run EXCEPT ![w][j] = "check"]
    BY <1>11 DEF RunBegin, Live, GoTo
  <2>2. rec.status = file[j].status /\ rec.attempts = file[j].attempts + 1
    BY <1>0, <1>4, <2>1 DEF Rec
  <2>3. file[j].attempts < MaxAttempts
    BY <1>3, <2>1 DEF Tries
  <2> HIDE DEF rec
  <2>4. file'[j] = rec /\ mem'[w][j] = rec
    BY <1>7, <2>1
  <2>5. rec.status # "none" /\ rec.status # "queued"
        /\ rec.attempts <= MaxAttempts
    BY <1>0, <1>4, <1>9, <2>1, <2>2, <2>3
  <2>6. "check" \in RunPcs \ {"none", "start"}
    BY DEF RunPcs
  <2>7. QED
    BY <1>6, <2>1, <2>4, <2>5, <2>6
<1>12. CASE RunCheck(w, j)
  <2> DEFINE rec == [mem[w][j] EXCEPT !.status = "cancelled"]
  <2>1. /\ run[w][j] = "check" /\ UNCHANGED lock
        /\ \/ SaveAndKeep(w, j, rec) /\ run' = [run EXCEPT ![w][j] = "fail"]
           \/ UNCHANGED <<store, mem>> /\ run' = [run EXCEPT ![w][j] = "work"]
    BY <1>12 DEF RunCheck, Live, GoTo
  <2>2. rec.status = "cancelled" /\ rec.attempts = file[j].attempts
    BY <1>0, <1>4, <2>1 DEF Rec
  <2> HIDE DEF rec
  <2>3. CASE SaveAndKeep(w, j, rec) /\ run' = [run EXCEPT ![w][j] = "fail"]
    BY <1>6, <1>7, <1>9, <2>1, <2>2, <2>3 DEF RunPcs
  <2>4. CASE UNCHANGED <<store, mem>> /\ run' = [run EXCEPT ![w][j] = "work"]
    BY <1>4, <1>6, <1>8, <1>9, <2>1, <2>4 DEF RunPcs
  <2>5. QED
    BY <2>1, <2>3, <2>4
<1>13. CASE RunWork(w, j)
  <2>1. PICK pc \in {"check", "work"} : run' = [run EXCEPT ![w][j] = pc]
    BY <1>13 DEF RunWork, GoTo
  <2>2. run[w][j] = "work" /\ SaveAndKeep(w, j, mem[w][j]) /\ UNCHANGED lock
    BY <1>13 DEF RunWork, Live
  <2>3. pc \in RunPcs \ {"none", "start"} /\ mem[w][j] = file[j] /\ file[j].status # "queued"
    BY <1>4, <2>2 DEF RunPcs
  <2>4. file'[j] = file[j] /\ mem'[w][j] = file[j]
    BY <1>7, <2>2, <2>3
  <2>5. QED
    BY <1>4, <1>6, <1>9, <2>1, <2>2, <2>3, <2>4
<1>14. CASE RunFinish(w, j)
  <2>1. run[w][j] = "work" /\ UNCHANGED lock
    BY <1>14 DEF RunFinish, Live
  <2>2. \/ /\ \E s \in {"succeeded", "failed"} :
                SaveAndKeep(w, j, [mem[w][j] EXCEPT !.status = s])
           /\ run' = [run EXCEPT ![w][j] = "ended"]
        \/ UNCHANGED <<store, mem>> /\ run' = [run EXCEPT ![w][j] = "fail"]
    BY <1>14 DEF RunFinish, GoTo
  <2>3. ASSUME NEW s \in {"succeeded", "failed"},
               SaveAndKeep(w, j, [mem[w][j] EXCEPT !.status = s]),
               run' = [run EXCEPT ![w][j] = "ended"]
        PROVE  PlainAt(j)'
    <3> DEFINE rec == [mem[w][j] EXCEPT !.status = s]
    <3>1. rec.status = s /\ rec.attempts = file[j].attempts /\ SaveAndKeep(w, j, rec)
      BY <1>0, <1>4, <2>1, <2>3 DEF Rec
    <3> HIDE DEF rec
    <3>2. QED
      BY <1>6, <1>7, <1>9, <2>1, <2>3, <3>1 DEF RunPcs
  <2>4. CASE UNCHANGED <<store, mem>> /\ run' = [run EXCEPT ![w][j] = "fail"]
    BY <1>4, <1>6, <1>8, <1>9, <2>1, <2>4 DEF RunPcs
  <2>5. QED
    BY <2>2, <2>3, <2>4
<1>15. CASE RunFail(w, j)
  <2>1. run[w][j] = "fail" /\ UNCHANGED lock /\ run' = [run EXCEPT ![w][j] = "ended"]
    BY <1>15 DEF RunFail, Live, GoTo
  <2>2. mem[w][j] = file[j]
    BY <1>4, <2>1
  <2>3. \/ MayRetry(file[j]) /\ SaveAndKeep(w, j, [file[j] EXCEPT !.status = "queued"])
        \/ SaveAndKeep(w, j, [file[j] EXCEPT !.status = "failed"])
        \/ UNCHANGED <<store, mem>>
    BY <1>15, <2>2 DEF RunFail
  <2>4. CASE MayRetry(file[j]) /\ SaveAndKeep(w, j, [file[j] EXCEPT !.status = "queued"])
    <3> DEFINE rec == [file[j] EXCEPT !.status = "queued"]
    <3>1. rec.status = "queued" /\ rec.attempts = file[j].attempts /\ SaveAndKeep(w, j, rec)
          /\ file[j].attempts < MaxAttempts
      BY <1>0, <2>4 DEF Rec, MayRetry
    <3> HIDE DEF rec
    <3>2. QED
      BY <1>6, <1>7, <1>9, <2>1, <3>1 DEF RunPcs
  <2>5. CASE SaveAndKeep(w, j, [file[j] EXCEPT !.status = "failed"])
    <3> DEFINE rec == [file[j] EXCEPT !.status = "failed"]
    <3>1. rec.status = "failed" /\ rec.attempts = file[j].attempts /\ SaveAndKeep(w, j, rec)
      BY <1>0, <2>5 DEF Rec
    <3> HIDE DEF rec
    <3>2. QED
      BY <1>6, <1>7, <1>9, <2>1, <3>1 DEF RunPcs
  <2>6. CASE UNCHANGED <<store, mem>>
    BY <1>4, <1>6, <1>8, <1>9, <2>1, <2>6 DEF RunPcs
  <2>7. QED
    BY <2>3, <2>4, <2>5, <2>6
<1>16. CASE RunRelease(w, j)
  <2>1. /\ Ready(w, j) /\ run' = [run EXCEPT ![w][j] = "none"] /\ UNCHANGED store
    BY <1>16 DEF RunRelease, Live, GoTo
  <2>2. run'[w][j] = "none" /\ UNCHANGED <<file, pending>> /\ Ready(w, j)'
    BY <1>0, <2>1 DEF store, Ready
  <2>3. InStep(w, j)'
    BY <2>2 DEF InStep
  <2>4. QED
    BY <1>0, <1>1, <1>2, <1>3, <1>4, <1>5, <1>9, <2>2, <2>3, PlainStep DEF Tries
<1>17. QED
  BY <1>11, <1>12, <1>13, <1>14, <1>15, <1>16 DEF RunEnds
-----------------------------------------------------------------------------
(* The other steps, and what follows *)

\* The web process, the second half of a save, and time.
LEMMA PlainWorld ==
  ASSUME SingleWorker, JsonInterval = 0, PlainInv, NEW j \in Jobs,
         \/ Submit(j) \/ CancelRead(j) \/ CancelSave(j)
         \/ \E p \in Processes : MirrorSave(p, j) \/ TimePasses(p, j),
         NEW i \in Own
  PROVE  PlainAt(i)' /\ file[i].attempts <= file'[i].attempts
<1>0. /\ i \in Jobs /\ i \notin Cancellable /\ PlainAt(i) /\ Web \in Processes
      /\ Web \notin Workers /\ Processes = Workers \cup {Web}
      /\ file \in [Jobs -> Rec] /\ file[i].attempts \in Nat /\ MaxAttempts \in Nat \ {0}
      /\ row \in [Jobs -> [status : Statuses \cup {"none"}, json : Rec]]
      /\ pending \in [Processes -> [Jobs -> Rec]] /\ web \in [Jobs -> {"none", "idle", "read", "done"}]
  BY StoreAssumption, QueueAssumption DEF PlainInv, TypeOK, StoreTypeOK, Own, Processes, Rec
<1>1. UNCHANGED <<lock, proc, sched, run, mem>>
  BY DEF Submit, CancelRead, CancelSave, MirrorSave, TimePasses
<1>2. /\ \A w \in Workers : Doing(w, i)' <=> Doing(w, i)
      /\ \A w \in Workers : Busy(w, i)' <=> Busy(w, i)
  BY <1>1 DEF Doing, Busy
\* A step that leaves i as it is.
<1>3. ASSUME file'[i] = file[i], row'[i] = row[i], web'[i] = web[i],
             \A p \in Processes : pending'[p][i] = pending[p][i]
      PROVE  PlainAt(i)' /\ file[i].attempts <= file'[i].attempts
  BY <1>0, <1>1, <1>3, PlainElse
<1>4. CASE Submit(j)
  <2>1. /\ Save(Web, j, NewJob) /\ web[j] = "none" /\ web' = [web EXCEPT ![j] = "idle"]
    BY <1>4 DEF Submit
  <2>2. /\ file' = [file EXCEPT ![j] = NewJob] /\ UNCHANGED row /\ pending'[Web][j] = NewJob
        /\ \A q \in Processes, k \in Jobs : q # Web \/ k # j => pending'[q][k] = pending[q][k]
    BY <1>0, <2>1, SaveEffect DEF PlainInv
  <2>3. CASE i # j
    BY <1>0, <1>3, <2>1, <2>2, <2>3
  <2>4. CASE i = j
    <3>1. /\ row[i].status = "none" /\ file[i] = NoRec
          /\ \A w \in Workers : /\ sched[w].cands[i] = NoRec /\ ~Doing(w, i)
                                /\ run[w][i] = "none" /\ Ready(w, i)
      BY <1>0, <2>1, <2>4 DEF PlainAt, Unseen, Current, Busy
    <3>2. file'[i] = NewJob /\ web'[i] = "idle" /\ row'[i] = row[i] /\ pending'[Web][i] = NewJob
          /\ ~Ready(Web, i)' /\ \A w \in Workers : Ready(w, i)'
      BY <1>0, <2>1, <2>2, <2>4, <3>1 DEF Ready, NewJob, NoRec
    <3>3. Unseen(i)' /\ Current(i)'
      BY <1>0, <1>1, <1>2, <3>1, <3>2 DEF Unseen, Current, NewJob
    <3>4. Tries(i)'
      BY <1>0, <1>1, <1>2, <3>1, <3>2 DEF Tries, NewJob
    <3>5. \A w \in Workers : Listed(w, i)' /\ InStep(w, i)'
      BY <1>1, <1>2, <3>1 DEF Listed, InStep
    <3>6. file[i].attempts <= file'[i].attempts
      BY <3>1, <3>2 DEF NoRec, NewJob
    <3>7. QED
      BY <3>3, <3>4, <3>5, <3>6 DEF PlainAt
  <2>5. QED
    BY <2>3, <2>4
<1>5. CASE CancelRead(j)
  BY <1>0, <1>3, <1>5 DEF CancelRead, store
<1>6. CASE CancelSave(j)
  <2>1. web[j] = "read" /\ web' = [web EXCEPT ![j] = "done"] /\ \E rec : Save(Web, j, rec)
    BY <1>6 DEF CancelSave
  <2>2. i # j
    BY <1>0, <2>1 DEF PlainAt, Unseen
  <2>3. QED
    BY <1>0, <1>3, <2>1, <2>2, SaveEffect DEF PlainInv
<1>7. ASSUME NEW p \in Processes, TimePasses(p, j)
      PROVE  PlainAt(i)' /\ file[i].attempts <= file'[i].attempts
  BY <1>3, <1>7 DEF TimePasses, IntervalEnds
<1>8. ASSUME NEW p \in Processes, MirrorSave(p, j)
      PROVE  PlainAt(i)' /\ file[i].attempts <= file'[i].attempts
  <2>1. /\ ~Ready(p, j) /\ UNCHANGED <<file, web>>
        /\ row' = [row EXCEPT ![j] = [status |-> pending[p][j].status, json |-> pending[p][j]]]
        /\ pending' = [pending EXCEPT ![p][j] = NoRec]
    BY <1>8 DEF MirrorSave, Mirror, MustWriteFullJson, PlainInv, NothingThrottled
  <2>2. CASE i # j
    BY <1>0, <1>3, <2>1, <2>2
  <2>3. CASE i = j
    <3>1. /\ file'[i] = file[i] /\ web'[i] = web[i] /\ pending[p][i] = file[i]
          /\ row'[i] = [status |-> file[i].status, json |-> file[i]]
          /\ pending'[p][i] = NoRec
          /\ \A q \in Processes \ {p} : pending'[q][i] = pending[q][i]
      BY <1>0, <2>1, <2>3 DEF PlainAt, Current
    <3>2. Ready(p, i)' /\ \A q \in Processes : ~Ready(q, i)' => ~Ready(q, i) /\ q # p
      BY <3>1 DEF Ready
    <3>3. web[i] = "idle" /\ file[i].status # "none" /\ row'[i].status # "none"
      <4>1. CASE p = Web
        BY <1>0, <2>1, <2>3, <3>1, <4>1 DEF PlainAt, Unseen
      <4>2. CASE p \in Workers
        <5>1. Busy(p, i)
          BY <1>0, <2>1, <2>3, <4>2 DEF PlainAt, Current
        <5>2. QED
          BY <1>0, <3>1, <4>2, <5>1 DEF PlainAt, Unseen, Busy
      <4>3. QED
        BY <1>0, <4>1, <4>2
    <3>4. ~Ready(Web, i)' => FALSE
      <4>1. CASE p = Web
        BY <3>2, <4>1
      <4>2. CASE p \in Workers
        <5>1. Busy(p, i)
          BY <1>0, <2>1, <2>3, <4>2 DEF PlainAt, Current
        <5>2. Ready(Web, i)
          BY <1>0, <4>2, <5>1 DEF PlainAt, Unseen, Busy
        <5>3. QED
          BY <1>0, <3>2, <5>2
      <4>3. QED
        BY <1>0, <4>1, <4>2
    <3>5. Unseen(i)'
      BY <3>1, <3>3, <3>4 DEF Unseen
    <3>6. Current(i)'
      <4>1. \A q \in Processes : ~Ready(q, i)' => pending'[q][i] = file'[i]
        BY <1>0, <3>1, <3>2 DEF PlainAt, Current
      <4>2. \A w \in Workers : ~Ready(w, i)' => Busy(w, i)'
        BY <1>0, <1>2, <3>2 DEF PlainAt, Current
      <4>3. QED
        BY <3>1, <4>1, <4>2 DEF Current
    <3>7. Tries(i)' /\ \A w \in Workers : Listed(w, i)' /\ InStep(w, i)'
      BY <1>0, <1>1, <1>2, <3>1 DEF PlainAt, Tries, Listed, InStep
    <3>8. QED
      BY <1>0, <3>1, <3>5, <3>6, <3>7 DEF PlainAt
  <2>4. QED
    BY <2>2, <2>3
<1>9. QED
  BY <1>4, <1>5, <1>6, <1>7, <1>8

LEMMA OneUpWorld ==
  ASSUME OneUp, TypeOK, NEW j \in Jobs,
         \/ Submit(j) \/ CancelRead(j) \/ CancelSave(j)
         \/ \E p \in Processes : MirrorSave(p, j) \/ TimePasses(p, j)
  PROVE  OneUp'
<1>1. UNCHANGED <<proc, sched, run>>
  BY DEF Submit, CancelRead, CancelSave, MirrorSave, TimePasses
<1>0. Web \in Processes /\ Web \notin Workers /\ Workers \subseteq Processes
      /\ pending \in [Processes -> [Jobs -> Rec]]
  BY StoreAssumption DEF Processes, TypeOK, StoreTypeOK
<1>2. \A w \in Workers, i \in Jobs : pending'[w][i] \in {pending[w][i], NoRec}
  <2>1. CASE Submit(j) \/ CancelRead(j) \/ CancelSave(j)
    BY <1>0, <2>1 DEF Submit, CancelRead, CancelSave, Save, store
  <2>2. ASSUME NEW p \in Processes, MirrorSave(p, j) \/ TimePasses(p, j)
        PROVE  \A w \in Workers, i \in Jobs : pending'[w][i] \in {pending[w][i], NoRec}
    BY <1>0, <2>2 DEF MirrorSave, TimePasses, Mirror, IntervalEnds
  <2>3. QED
    BY <2>1, <2>2
<1>3. QED
  BY <1>1, <1>2 DEF OneUp, Ready

\* Processes come and go, and the claim loop begins and ends.
LEMMA PlainProc ==
  ASSUME SingleWorker, PlainInv, TypeOK', NEW w \in Workers,
         Start(w) \/ Crash(w) \/ ClaimList(w) \/ ClaimNone(w)
  PROVE  OneUp' /\ \A i \in Own : PlainAt(i)' /\ file'[i] = file[i]
<1>0. /\ OneUp /\ \A i \in Own : i \in Jobs /\ i \notin TornSaves /\ PlainAt(i)
      /\ sched \in [Workers -> Sched] /\ proc \in [Workers -> {"new", "up", "dead"}]
      /\ run \in [Workers -> [Jobs -> RunPcs]] /\ mem \in [Workers -> [Jobs -> Rec]]
      /\ pending \in [Processes -> [Jobs -> Rec]] /\ w \in Processes
      /\ Processes = Workers \cup {Web} /\ Web \notin Workers
  BY StoreAssumption DEF PlainInv, TypeOK, StoreTypeOK, Own, Processes
<1>a. IdleSched.pc = "idle" /\ \A i \in Jobs : IdleSched.cands[i] = NoRec
  BY DEF IdleSched, NoCands
<1>1. CASE Start(w)
  <2>1. /\ UNCHANGED <<file, row, pending, lock, sched, run, mem, web>>
        /\ \A v \in Workers : proc'[v] = "up" => v = w
        /\ \A v \in Workers : proc'[v] # "up" => proc[v] # "up"
    BY <1>0, <1>1 DEF Start, store
  <2>2. OneUp'
    BY <1>0, <2>1 DEF OneUp, Ready
  <2>3. QED
    BY <1>0, <2>1, <2>2, PlainElse
<1>2. CASE Crash(w)
  <2>1. /\ proc[w] = "up" /\ \A i \in Own : Ready(w, i)
        /\ proc' = [proc EXCEPT ![w] = "dead"] /\ sched' = [sched EXCEPT ![w] = IdleSched]
        /\ run' = [run EXCEPT ![w] = [i \in Jobs |-> "none"]]
        /\ mem' = [mem EXCEPT ![w] = [i \in Jobs |-> NoRec]]
        /\ pending' = [pending EXCEPT ![w] = [i \in Jobs |-> NoRec]]
        /\ UNCHANGED <<file, row, lock, web>>
    BY <1>0, <1>2 DEF Crash, Forget
  <2>2. /\ proc'[w] = "dead" /\ sched'[w] = IdleSched
        /\ \A i \in Jobs : run'[w][i] = "none" /\ pending'[w][i] = NoRec
        /\ \A v \in Workers \ {w} : /\ proc'[v] = proc[v] /\ sched'[v] = sched[v]
                                    /\ run'[v] = run[v] /\ pending'[v] = pending[v]
                                    /\ mem'[v] = mem[v]
        /\ pending'[Web] = pending[Web]
    BY <1>0, <2>1
  <2>3. OneUp'
    <3>1. ASSUME NEW v \in Workers
          PROVE  /\ proc'[v] = "up" => v # w /\ proc[v] = "up"
                 /\ proc'[v] # "up" => sched'[v] = IdleSched
                 /\ proc'[v] # "up" => \A i \in Jobs : run'[v][i] = "none" /\ pending'[v][i] = NoRec
                 /\ sched'[v].pc = "idle" => sched'[v] = IdleSched
      <4>1. CASE v = w
        BY <2>2, <4>1
      <4>2. CASE v # w
        BY <1>0, <2>2, <4>2 DEF OneUp, Ready
      <4>3. QED
        BY <4>1, <4>2
    <3>2. QED
      BY <1>0, <3>1 DEF OneUp, Ready
  <2>4. ASSUME NEW i \in Own PROVE PlainAt(i)'
    <3>1. \A p \in Processes : pending'[p][i] = pending[p][i] /\ (Ready(p, i)' <=> Ready(p, i))
      BY <1>0, <2>1, <2>2 DEF Ready
    <3>2. \A v \in Workers : /\ sched'[v] = IdleSched /\ ~Doing(v, i)' /\ run'[v][i] = "none"
                             /\ Ready(v, i)
      BY <1>0, <1>a, <2>1, <2>2, Others DEF Doing
    <3>3. Unseen(i)' /\ Current(i)'
      <4>1. \A v \in Workers : sched'[v].cands[i] = NoRec
        BY <1>0, <1>a, <3>2
      <4>2. Unseen(i)'
        BY <1>0, <2>1, <3>1, <3>2, <4>1 DEF PlainAt, Unseen
      <4>3. Current(i)'
        BY <1>0, <2>1, <3>1, <3>2, ZenonT(60) DEF PlainAt, Current
      <4>4. QED
        BY <4>2, <4>3
    <3>4. Tries(i)' /\ \A v \in Workers : Listed(v, i)' /\ InStep(v, i)'
      BY <1>0, <1>a, <2>1, <3>2 DEF PlainAt, Tries, Listed, InStep
    <3>5. QED
      BY <3>3, <3>4 DEF PlainAt
  <2>5. QED
    BY <1>0, <2>1, <2>3, <2>4
<1>3. CASE ClaimList(w)
  <2> DEFINE listed == [i \in Jobs |-> IF i \in QueuedRows \ Active(w) THEN row[i].json ELSE NoRec]
  <2>1. /\ proc[w] = "up" /\ sched[w].pc = "idle"
        /\ sched' = [sched EXCEPT ![w].pc = "scan", ![w].cands = listed]
        /\ UNCHANGED <<file, row, pending, lock, run, mem, web, proc>>
    BY <1>3 DEF ClaimList, store
  <2>2. \A i \in Jobs : listed[i] # NoRec =>
          listed[i] = row[i].json /\ row[i].status = "queued" /\ run[w][i] = "none"
    BY DEF QueuedRows, Active
  <2> HIDE DEF listed
  <2>3. sched'[w].pc = "scan" /\ sched'[w].cands = listed
        /\ \A v \in Workers \ {w} : sched'[v] = sched[v]
    BY <1>0, <2>1 DEF Sched
  <2>4. OneUp'
    BY <1>0, <2>1, <2>3 DEF OneUp, Ready
  <2>5. ASSUME NEW i \in Own PROVE PlainAt(i)'
    <3>1. \A v \in Workers : (Doing(v, i)' <=> Doing(v, i)) /\ (Busy(v, i)' <=> Busy(v, i))
      BY <2>1, <2>3 DEF Doing, Busy
    <3>2. \A p \in Processes : Ready(p, i)' <=> Ready(p, i)
      BY <2>1 DEF Ready
    <3>3. ASSUME listed[i] # NoRec
          PROVE  /\ listed[i] = file[i] /\ file[i].status = "queued"
                 /\ run[w][i] = "none" /\ ~Doing(w, i) /\ row[i].status # "none"
      <4>1. row[i].status = "queued" /\ listed[i] = row[i].json /\ run[w][i] = "none"
        BY <1>0, <2>2, <3>3
      <4>2. ~Doing(w, i) /\ ~Busy(w, i)
        BY <2>1, <4>1 DEF Doing, Busy
      <4>3. Ready(w, i) /\ Ready(Web, i)
        BY <1>0, <4>1, <4>2 DEF PlainAt, Current, Unseen
      <4>4. \A v \in Workers \ {w} : Ready(v, i)
        BY <1>0, <2>1, Others
      <4>5. row[i] = [status |-> file[i].status, json |-> file[i]]
        BY <1>0, <4>3, <4>4 DEF PlainAt, Current
      <4>6. QED
        BY <4>1, <4>2, <4>5
    <3>4. Unseen(i)'
      BY <1>0, <2>1, <2>3, <3>1, <3>2, <3>3 DEF PlainAt, Unseen
    <3>5. Current(i)' /\ Tries(i)'
      <4>1. Current(i)'
        BY <1>0, <2>1, <3>1, <3>2 DEF PlainAt, Current
      <4>2. \A v \in Workers : sched'[v].pc = "claimed" => sched[v].pc = "claimed"
        BY <2>3
      <4>3. Tries(i)'
        BY <1>0, <2>1, <3>1, <4>2 DEF PlainAt, Tries
      <4>4. QED
        BY <4>1, <4>3
    <3>6. \A v \in Workers : Listed(v, i)' /\ InStep(v, i)'
      BY <1>0, <2>1, <2>3, <3>1, <3>3 DEF PlainAt, Listed, InStep, Doing
    <3>7. QED
      BY <3>4, <3>5, <3>6 DEF PlainAt
  <2>6. QED
    BY <1>0, <2>1, <2>4, <2>5
<1>4. CASE ClaimNone(w)
  <2>1. /\ sched[w].pc = "scan" /\ sched' = [sched EXCEPT ![w] = IdleSched]
        /\ UNCHANGED <<file, row, pending, lock, run, mem, web, proc>>
    BY <1>4 DEF ClaimNone, store
  <2>2. sched'[w] = IdleSched /\ \A v \in Workers \ {w} : sched'[v] = sched[v]
    BY <1>0, <2>1
  <2>3. OneUp'
    BY <1>0, <2>1, <2>2 DEF OneUp, Ready
  <2>4. \A v \in Workers, i \in Jobs :
          \/ sched'[v] = sched[v]
          \/ /\ sched'[v].cands[i] \in {NoRec, sched[v].cands[i]}
             /\ ~Doing(v, i) /\ ~Doing(v, i)'
    BY <1>a, <2>1, <2>2 DEF Doing
  <2>5. QED
    BY <1>0, <2>1, <2>3, <2>4, PlainElse
<1>5. QED
  BY <1>1, <1>2, <1>3, <1>4

LEMMA PlainInductive ==
  ASSUME SingleWorker, JsonInterval = 0, PlainInv, [Next]_vars
  PROVE  PlainInv' /\ \A i \in Own : file[i].attempts <= file'[i].attempts
<1>0. TypeOK' /\ NothingThrottled'
  BY TypeOKStep, UnthrottledStep DEF PlainInv
<1>a. \A i \in Own : i \in Jobs /\ file[i].attempts \in Nat
  BY DEF PlainInv, TypeOK, StoreTypeOK, Rec, Own
<1>1. CASE UNCHANGED vars
  <2>1. UNCHANGED <<file, row, pending, recent, lock, proc, sched, run, mem, web>>
    BY <1>1 DEF vars, store
  <2>2. OneUp'
    BY <2>1 DEF PlainInv, OneUp, Ready
  <2>3. \A i \in Own : PlainAt(i)'
    BY <1>a, <2>1, PlainElse DEF PlainInv
  <2>4. QED
    BY <1>0, <1>a, <2>1, <2>2, <2>3 DEF PlainInv
<1>2. ASSUME NEW j \in Jobs,
             \/ Submit(j) \/ CancelRead(j) \/ CancelSave(j)
             \/ \E p \in Processes : MirrorSave(p, j) \/ TimePasses(p, j)
      PROVE  PlainInv' /\ \A i \in Own : file[i].attempts <= file'[i].attempts
  <2>1. OneUp'
    BY <1>2, OneUpWorld DEF PlainInv
  <2>2. \A i \in Own : PlainAt(i)' /\ file[i].attempts <= file'[i].attempts
    BY <1>2, PlainWorld
  <2>3. QED
    BY <1>0, <2>1, <2>2 DEF PlainInv
<1>3. ASSUME NEW w \in Workers, Start(w) \/ Crash(w) \/ ClaimList(w) \/ ClaimNone(w)
      PROVE  PlainInv' /\ \A i \in Own : file[i].attempts <= file'[i].attempts
  <2>1. OneUp' /\ \A i \in Own : PlainAt(i)' /\ file'[i] = file[i]
    BY <1>0, <1>3, PlainProc
  <2>2. QED
    BY <1>0, <1>a, <2>1 DEF PlainInv
<1>4. ASSUME NEW w \in Workers, NEW j \in Jobs,
             SchedStep(w, j) \/ RunEnds(w, j) \/ RunWork(w, j)
      PROVE  PlainInv' /\ \A i \in Own : file[i].attempts <= file'[i].attempts
  <2>1. Apart(w, j)
    BY <1>4, SchedApart, RunApart DEF PlainInv
  <2>2. j \in Own => PlainAt(j)' /\ file[j].attempts <= file'[j].attempts
    BY <1>4, PlainSched, PlainRun DEF PlainInv
  <2>3. PlainInv'
    BY <1>0, <2>1, <2>2, PlainActor DEF PlainInv
  <2>4. \A i \in Own : i # j => file'[i] = file[i]
    BY <1>a, <2>1 DEF Apart
  <2>5. QED
    BY <1>a, <2>2, <2>3, <2>4
<1>5. QED
  BY <1>1, <1>2, <1>3, <1>4 DEF Next

LEMMA PlainInitially == Init => PlainInv
<1> SUFFICES ASSUME Init PROVE PlainInv
  OBVIOUS
<1>0. TypeOK /\ NothingThrottled
  BY TypeOKInit DEF Init, StoreInit, NothingThrottled
<1>1. /\ \A w \in Workers : /\ sched[w] = IdleSched /\ proc[w] = "new"
                            /\ \A j \in Jobs : run[w][j] = "none"
      /\ \A j \in Jobs : /\ file[j] = NoRec /\ row[j] = NoRow /\ web[j] = "none"
                         /\ \A p \in Processes : pending[p][j] = NoRec
  BY DEF Init, StoreInit
<1>2. /\ IdleSched.pc = "idle" /\ \A j \in Jobs : IdleSched.cands[j] = NoRec
      /\ Own \subseteq Jobs /\ Web \in Processes /\ Workers \subseteq Processes
  BY DEF IdleSched, NoCands, Own, Processes
<1>3. OneUp
  BY <1>1, <1>2 DEF OneUp, Ready
<1>4. ASSUME NEW j \in Own PROVE PlainAt(j)
  <2>1. \A w \in Workers : ~Doing(w, j)
    BY <1>1, <1>2 DEF Doing
  <2>2. Unseen(j) /\ Current(j)
    <3>1. /\ file[j] = NoRec /\ row[j] = NoRow /\ web[j] = "none"
          /\ \A p \in Processes : Ready(p, j)
      BY <1>1, <1>2 DEF Ready
    <3>2. \A w \in Workers : sched[w].cands[j] = NoRec /\ run[w][j] = "none"
      BY <1>1, <1>2
    <3>3. NoRow.status = "none" /\ NoRow = [status |-> NoRec.status, json |-> NoRec]
      BY DEF NoRow, NoRec
    <3>4. Unseen(j)
      BY <1>2, <2>1, <3>1, <3>2, <3>3 DEF Unseen
    <3>5. Current(j)
      BY <1>2, <3>1, <3>3 DEF Current
    <3>6. QED
      BY <3>4, <3>5
  <2>3. Tries(j)
    BY <1>1, <1>2, <2>1, QueueAssumption DEF Tries, NoRec
  <2>4. \A w \in Workers : Listed(w, j) /\ InStep(w, j)
    BY <1>1, <1>2, <2>1 DEF Listed, InStep
  <2>5. QED
    BY <2>2, <2>3, <2>4 DEF PlainAt
<1>5. QED
  BY <1>0, <1>3, <1>4 DEF PlainInv

LEMMA PlainAlways == ASSUME SingleWorker, JsonInterval = 0 PROVE Spec => []PlainInv
<1>1. PlainInv /\ [Next]_vars => PlainInv'
  BY PlainInductive
<1>2. QED
  BY <1>1, PlainInitially, PTL DEF Spec

\* With TILEFORGE_SQLITE_FULL_JSON_WRITE_INTERVAL_MS=0 and one worker at a time a
\* job queued by column and by json is known from its newest record, whatever
\* crashes there are: the default interval does not give this.
THEOREM UnthrottledQueuedIsNewest ==
  ASSUME SingleWorker, JsonInterval = 0 PROVE Spec => []QueuedIsNewest
<1>1. PlainInv => QueuedIsNewest
  <2> SUFFICES ASSUME PlainInv, NEW j \in Own, \A p \in Processes : Ready(p, j)
               PROVE  row[j].json = file[j]
    BY DEF QueuedIsNewest, Own
  <2>1. row[j] = [status |-> file[j].status, json |-> file[j]]
    BY DEF PlainInv, PlainAt, Current
  <2>2. QED
    BY <2>1
<1>2. QED
  BY <1>1, PlainAlways, PTL

\* ... and the attempts counted in job.json never go back nor exceed
\* TILEFORGE_JOB_MAX_ATTEMPTS.
THEOREM UnthrottledAttempts ==
  ASSUME SingleWorker, JsonInterval = 0, TornSaves \subseteq Cancellable
  PROVE  Spec => AttemptsCounted
<1>1. Jobs \ Cancellable = Own
  BY DEF Own
<1>2. ASSUME PlainInv, [Next]_vars
      PROVE  \A j \in Own : file[j].attempts <= file'[j].attempts
                             /\ file'[j].attempts <= MaxAttempts
  BY <1>2, PlainInductive DEF PlainInv, PlainAt, Tries
<1>3. PlainInv /\ [Next]_vars =>
        [\A j \in Jobs \ Cancellable : file[j].attempts <= file'[j].attempts
                                       /\ file'[j].attempts <= MaxAttempts]_file
  BY <1>1, <1>2
<1>4. QED
  BY <1>3, PlainAlways, PTL DEF Spec, AttemptsCounted
=============================================================================
