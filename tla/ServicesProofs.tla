-------------------------- MODULE ServicesProofs ----------------------------
(***************************************************************************)
(* The services around the queue, for any number of writers, tasks, jobs,  *)
(* tries, runs and requests.  Each part has an invariant of its own, which *)
(* holds initially, is kept by every step of the part (XStepInv) and says  *)
(* what the runs check (XInvSays); since the parts share no state, all of  *)
(* them hold in MCServices, whichever part a behaviour is about.           *)
(*                                                                         *)
(* atomicWriteFile is in addition shown to implement an atomic register:   *)
(* nobody is in the fallback unless it is allowed, and each step of a      *)
(* write finds the temporary file that the one before has left.            *)
(***************************************************************************)
EXTENDS MCServices, StoreViewsProofs

-----------------------------------------------------------------------------
(* Files that are replaced *)

FallbackAllowed == \A w \in Writers : wpc[w] \in {"direct", "fill", "clean"} => fallback

TmpFollows ==
  \A w \in Writers :
    /\ wpc[w] = "write" => tmp[w] = "part"
    /\ wpc[w] = "renamed" => tmp[w] = "none"
    /\ wpc[w] = "ok" => tmp[w] = "none" \/ (w \in stuck /\ fallback)
    /\ wpc[w] = "failed" => tmp[w] # "whole" \/ w \in stuck

FileInv == FileTypeOK /\ FallbackAllowed /\ TmpFollows

\* Where a step that is tried again may go.
LEMMA AgainFacts ==
  ASSUME FileTypeOK, NEW w \in Writers, NEW here \in FilePcs, NEW on \in FilePcs,
         Again(w, here, on)
  PROVE  /\ tries' \in [Writers -> 0..Retries]
         /\ \E pc \in {here, on} : wpc' = [wpc EXCEPT ![w] = pc]
BY FileAssumption DEF Again, Go, FileTypeOK

\* A failed rename leads to another one, to the fallback or to the end.
LEMMA RenameFailsFacts ==
  ASSUME FileTypeOK, NEW w \in Writers, RenameFails(w)
  PROVE  /\ wpc[w] = "rename" /\ UNCHANGED <<fallback, dest, tmp, inPlace, stuck>>
         /\ tries' \in [Writers -> 0..Retries]
         /\ \E pc \in {"rename", "direct", "scrap"} :
              /\ wpc' = [wpc EXCEPT ![w] = pc]
              /\ pc = "direct" => fallback
<1>1. AfterRename \in FilePcs /\ "rename" \in FilePcs
  BY DEF AfterRename, FilePcs
<1>2. Again(w, "rename", AfterRename)
  BY DEF RenameFails
<1>3. /\ tries' \in [Writers -> 0..Retries]
      /\ \E pc \in {"rename", AfterRename} : wpc' = [wpc EXCEPT ![w] = pc]
  BY <1>1, <1>2, AgainFacts
<1>4. QED
  BY <1>3 DEF RenameFails, AfterRename

\* A failed direct write leads to another one or to the end.
LEMMA DirectFailsFacts ==
  ASSUME FileTypeOK, NEW w \in Writers, DirectFails(w)
  PROVE  /\ wpc[w] \in {"direct", "fill"} /\ UNCHANGED <<fallback, dest, tmp, stuck>>
         /\ inPlace' = inPlace \ {w}
         /\ tries' \in [Writers -> 0..Retries]
         /\ \E pc \in {"direct", "scrap"} : wpc' = [wpc EXCEPT ![w] = pc]
<1>1. "direct" \in FilePcs /\ "scrap" \in FilePcs
  BY DEF FilePcs
<1>2. Again(w, "direct", "scrap")
  BY DEF DirectFails
<1>3. QED
  BY <1>1, <1>2, AgainFacts DEF DirectFails

LEMMA FileInitInv == FileInit => FileInv
BY FileAssumption DEF FileInit, FileInv, FileTypeOK, FallbackAllowed, TmpFollows, FilePcs

LEMMA FileStepInv == FileInv /\ [FileNext]_fvars => FileInv'
<1> SUFFICES ASSUME FileInv, [FileNext]_fvars
             PROVE  FileInv'
  OBVIOUS
<1> USE FileAssumption DEF FileInv, FileTypeOK, FallbackAllowed, TmpFollows, FilePcs, Go, Tmp
<1>1. CASE UNCHANGED fvars
  BY <1>1 DEF fvars
<1>2. ASSUME NEW w \in Writers, FileStep(w)
      PROVE  FileInv'
  <2>1. CASE OpenTmp(w)
    BY <2>1 DEF OpenTmp
  <2>2. CASE WriteTmp(w)
    BY <2>2 DEF WriteTmp
  <2>3. CASE RenameTmp(w)
    BY <2>3 DEF RenameTmp
  <2>4. CASE ReturnRenamed(w)
    BY <2>4 DEF ReturnRenamed
  <2>5. CASE RenameFails(w)
    BY <2>5, RenameFailsFacts
  <2>6. CASE DirectOpen(w)
    BY <2>6 DEF DirectOpen
  <2>7. CASE DirectFill(w)
    BY <2>7 DEF DirectFill
  <2>8. CASE DirectFails(w)
    BY <2>8, DirectFailsFacts
  <2>9. CASE RemoveTmp(w)
    BY <2>9 DEF RemoveTmp, Removed
  <2>10. CASE WriterDies(w)
    BY <2>10 DEF WriterDies
  <2>11. QED
    BY <1>2, <2>1, <2>2, <2>3, <2>4, <2>5, <2>6, <2>7, <2>8, <2>9, <2>10 DEF FileStep
<1>3. QED
  BY <1>1, <1>2 DEF FileNext

LEMMA FileInvHolds == FileSpec => []FileInv
BY FileInitInv, FileStepInv, PTL DEF FileSpec

\* A write that came to an end after the sync has left a temporary file only where
\* its removal was tried and failed, and a successful one only where the fallback is
\* allowed: for any number of writers, of tries, of failures and of deaths.
THEOREM TemporariesAreExplained == FileSpec => [](FileTypeOK /\ NoTmpLeft)
<1>1. FileInv => FileTypeOK /\ NoTmpLeft
  BY DEF FileInv, NoTmpLeft, TmpFollows
<1>2. QED
  BY <1>1, FileInvHolds, PTL

-----------------------------------------------------------------------------
(* The refinement *)

\* The operation of the register that a place in a write belongs to.
OpOf(pc) ==
  CASE pc \in {"write", "rename", "direct", "fill", "scrap"} -> "called"
    [] pc \in {"renamed", "clean"} -> "applied"
    [] OTHER -> pc
Ops == [w \in Writers |-> OpOf(wpc[w])]

RegisterStep(w, from, to) == Ops[w] = from /\ Ops' = [Ops EXCEPT ![w] = to]

\* A step of one writer is one of its operation, or none.
LEMMA OpsStep ==
  ASSUME FileTypeOK, NEW w \in Writers, NEW pc, wpc' = [wpc EXCEPT ![w] = pc]
  PROVE  RegisterStep(w, OpOf(wpc[w]), OpOf(pc))
BY DEF Ops, FileTypeOK, RegisterStep

LEMMA OpsKept ==
  ASSUME FileTypeOK, NEW w \in Writers, NEW pc, wpc' = [wpc EXCEPT ![w] = pc],
         OpOf(pc) = OpOf(wpc[w])
  PROVE  Ops' = Ops
BY DEF Ops, FileTypeOK

\* The steps of the register, in terms of the file.
RegisterActs(w) ==
  \/ RegisterStep(w, "idle", "called") /\ UNCHANGED dest
  \/ RegisterStep(w, "called", "applied") /\ dest' \in IF fallback THEN {w, dest, Torn} ELSE {w}
  \/ RegisterStep(w, "applied", "ok") /\ UNCHANGED dest
  \/ RegisterStep(w, "called", "failed") /\ UNCHANGED dest
  \/ \E from \in {"called", "applied"} : RegisterStep(w, from, "dead") /\ UNCHANGED dest
  \/ fallback /\ Ops[w] = "called" /\ dest' = Torn /\ UNCHANGED Ops

LEMMA RegisterInit == FileInit => Register!Init
BY DEF FileInit, Register!Init

LEMMA RegisterNext ==
  ASSUME UNCHANGED fallback, NEW w \in Writers, RegisterActs(w)
  PROVE  Register!Next
BY DEF RegisterActs, RegisterStep, Ops, OpOf, Register!Next, Register!Call, Register!Apply,
       Register!Return, Register!Fail, Register!Die, Register!Spoil, Register!Step

LEMMA RegisterStutters ==
  ASSUME UNCHANGED <<fallback, dest>>, Ops' = Ops
  PROVE  UNCHANGED Register!vars
BY DEF Ops, OpOf, Register!vars

LEMMA StepImplements ==
  ASSUME FileInv, NEW w \in Writers, FileStep(w)
  PROVE  \/ RegisterActs(w) /\ UNCHANGED fallback
         \/ UNCHANGED <<fallback, dest>> /\ Ops' = Ops
<1> USE DEF FileInv
<1>1. CASE OpenTmp(w)
  <2>1. RegisterStep(w, "idle", "called")
    BY <1>1, OpsStep DEF OpenTmp, Go, OpOf
  <2>2. QED
    BY <1>1, <2>1 DEF OpenTmp, RegisterActs
<1>2. CASE WriteTmp(w)
  <2>1. CASE Go(w, "rename")
    BY <1>2, <2>1, OpsKept DEF WriteTmp, Go, OpOf
  <2>2. CASE Go(w, "failed")
    <3>1. RegisterStep(w, "called", "failed")
      BY <1>2, <2>2, OpsStep DEF WriteTmp, Go, OpOf
    <3>2. QED
      BY <1>2, <2>2, <3>1 DEF WriteTmp, RegisterActs
  <2>3. QED
    BY <1>2, <2>1, <2>2 DEF WriteTmp
<1>3. CASE RenameTmp(w)
  <2>1. RegisterStep(w, "called", "applied")
    BY <1>3, OpsStep DEF RenameTmp, Go, OpOf
  <2>2. QED
    BY <1>3, <2>1 DEF RenameTmp, RegisterActs
<1>4. CASE ReturnRenamed(w)
  <2>1. RegisterStep(w, "applied", "ok")
    BY <1>4, OpsStep DEF ReturnRenamed, Go, OpOf
  <2>2. QED
    BY <1>4, <2>1 DEF ReturnRenamed, RegisterActs
<1>5. CASE RenameFails(w)
  <2>1. PICK pc \in {"rename", "direct", "scrap"} : wpc' = [wpc EXCEPT ![w] = pc]
    BY <1>5, RenameFailsFacts
  <2>2. wpc[w] = "rename" /\ UNCHANGED <<fallback, dest>>
    BY <1>5, RenameFailsFacts
  <2>3. OpOf(pc) = OpOf(wpc[w])
    BY <2>2 DEF OpOf
  <2>4. QED
    BY <2>1, <2>2, <2>3, OpsKept
<1>6. CASE DirectOpen(w)
  <2>1. fallback /\ wpc[w] = "direct" /\ dest' = Torn /\ UNCHANGED fallback
    BY <1>6 DEF DirectOpen, FallbackAllowed
  <2>2. Ops' = Ops
    BY <1>6, OpsKept DEF DirectOpen, Go, OpOf
  <2>3. Ops[w] = "called"
    BY <2>1 DEF Ops, OpOf
  <2>4. QED
    BY <2>1, <2>2, <2>3 DEF RegisterActs
<1>7. CASE DirectFill(w)
  <2>1. fallback /\ UNCHANGED fallback /\ dest' \in {w, dest, Torn}
    BY <1>7 DEF DirectFill, FallbackAllowed
  <2>2. RegisterStep(w, "called", "applied")
    BY <1>7, OpsStep DEF DirectFill, Go, OpOf
  <2>3. dest' \in IF fallback THEN {w, dest, Torn} ELSE {w}
    BY <2>1
  <2>4. QED
    BY <2>1, <2>2, <2>3 DEF RegisterActs, RegisterStep
<1>8. CASE DirectFails(w)
  <2>1. PICK pc \in {"direct", "scrap"} : wpc' = [wpc EXCEPT ![w] = pc]
    BY <1>8, DirectFailsFacts
  <2>2. wpc[w] \in {"direct", "fill"} /\ UNCHANGED <<fallback, dest>>
    BY <1>8, DirectFailsFacts
  <2>3. OpOf(pc) = OpOf(wpc[w])
    BY <2>2 DEF OpOf
  <2>4. QED
    BY <2>1, <2>2, <2>3, OpsKept
<1>9. CASE RemoveTmp(w)
  <2>1. CASE wpc[w] = "clean"
    <3>1. RegisterStep(w, "applied", "ok")
      BY <1>9, <2>1, OpsStep DEF RemoveTmp, Go, OpOf
    <3>2. QED
      BY <1>9, <2>1, <3>1 DEF RemoveTmp, RegisterActs
  <2>2. CASE wpc[w] = "scrap"
    <3>1. RegisterStep(w, "called", "failed")
      BY <1>9, <2>2, OpsStep DEF RemoveTmp, Go, OpOf
    <3>2. QED
      BY <1>9, <2>2, <3>1 DEF RemoveTmp, RegisterActs
  <2>3. QED
    BY <1>9, <2>1, <2>2 DEF RemoveTmp
<1>10. CASE WriterDies(w)
  <2>1. OpOf(wpc[w]) \in {"called", "applied"}
    BY <1>10 DEF WriterDies, OpOf, FileTypeOK, FilePcs
  <2>2. RegisterStep(w, OpOf(wpc[w]), "dead")
    BY <1>10, OpsStep DEF WriterDies, Go, OpOf
  <2>3. QED
    BY <1>10, <2>1, <2>2 DEF WriterDies, RegisterActs
<1>11. QED
  BY <1>1, <1>2, <1>3, <1>4, <1>5, <1>6, <1>7, <1>8, <1>9, <1>10 DEF FileStep

\* atomicWriteFile is an atomic register for any number of writers and of tries:
\* without the fallback nobody ever reads a part of a file or the data of a write
\* that failed.
THEOREM FileIsARegister == FileSpec => AtomicWrites
<1>1. FileInit => Register!Init
  BY RegisterInit
<1>2. FileInv /\ [FileNext]_fvars => [Register!Next]_Register!vars
  <2> SUFFICES ASSUME FileInv, [FileNext]_fvars
               PROVE  [Register!Next]_Register!vars
    OBVIOUS
  <2>1. CASE UNCHANGED fvars
    BY <2>1, RegisterStutters DEF fvars, Ops
  <2>2. ASSUME NEW w \in Writers, FileStep(w)
        PROVE  [Register!Next]_Register!vars
    BY <2>2, StepImplements, RegisterNext, RegisterStutters
  <2>3. QED
    BY <2>1, <2>2 DEF FileNext
<1>3. QED
  BY <1>1, <1>2, FileInvHolds, PTL DEF FileSpec, AtomicWrites, Register!Spec
-----------------------------------------------------------------------------
(* The estimate cache.  A job whose temporary file has been taken away by a  *)
(* rename has been beaten by the job that renamed it, so that the next       *)
(* attempt it loses is already paid for; and what the two names stand for is *)
(* whole unless a writer is at it, or different data went into it.           *)

\* The jobs other than j that have come through.
Through(j) == {i \in CacheJobs \ {j} : cpc[i] = "done"}

Paid ==
  \A j \in CacheJobs :
    /\ cpc[j] # "failed" => shot[j] - 1 <= Cardinality(Through(j))
    /\ cpc[j] = "failed" => shot[j] <= Cardinality(Through(j))
    /\ cpc[j] \in {"write", "rename"} /\ tmpFile = Missing =>
         shot[j] <= Cardinality(Through(j))

Halfway ==
  \A f \in {tmpFile, cacheFile} :
    f # Missing /\ f \notin whole => WritersOf(f) # {} \/ ~Alike(f)

\* The file that a writer has opened is there, and its data among those in the file.
Opened ==
  \A j \in CacheJobs :
    /\ cpc[j] \in {"write", "rename"} => fd[j] \in CacheFiles
    /\ cpc[j] = "write" => via[j] \in into[fd[j]]

CacheInv == CacheTypeOK /\ Paid /\ Halfway /\ Opened

\* No file is called nothing.
LEMMA MissingIsNoFile == Missing \notin CacheFiles
BY DEF Missing, CacheFiles

LEMMA ThroughIsFinite ==
  ASSUME NEW j \in CacheJobs
  PROVE  IsFiniteSet(Through(j)) /\ Cardinality(Through(j)) \in Nat
<1>1. Through(j) \subseteq CacheJobs
  BY DEF Through
<1>2. QED
  BY <1>1, CacheAssumption, FS_Subset, FS_CardinalityType

\* Nobody who has come through comes back.
LEMMA ThroughGrows ==
  ASSUME CacheTypeOK, NEW j \in CacheJobs, NEW i \in CacheJobs, NEW pc, cpc[i] # "done",
         cpc' = [cpc EXCEPT ![i] = pc]
  PROVE  /\ Cardinality(Through(j)) \in Nat /\ Cardinality(Through(j)') \in Nat
         /\ Cardinality(Through(j)) <= Cardinality(Through(j)')
<1>1. Through(j) \subseteq Through(j)' /\ Through(j)' \subseteq CacheJobs
  BY DEF Through, CacheTypeOK
<1>2. IsFiniteSet(Through(j)')
  BY <1>1, CacheAssumption, FS_Subset
<1>3. QED
  BY <1>1, <1>2, ThroughIsFinite, FS_Subset, FS_CardinalityType

\* Somebody else who comes through counts one more.
LEMMA ThroughCounts ==
  ASSUME CacheTypeOK, NEW j \in CacheJobs, NEW i \in CacheJobs, i # j, cpc[i] # "done",
         cpc' = [cpc EXCEPT ![i] = "done"]
  PROVE  Cardinality(Through(j)') = Cardinality(Through(j)) + 1
<1>1. Through(j)' = Through(j) \cup {i}
  BY DEF Through, CacheTypeOK
<1>2. i \notin Through(j)
  BY DEF Through
<1>3. QED
  BY <1>1, <1>2, ThroughIsFinite, FS_AddElement

LEMMA CacheInitInv == CacheInit => CacheInv
<1> SUFFICES ASSUME CacheInit PROVE CacheInv
  OBVIOUS
<1>1. CacheTypeOK /\ Halfway /\ Opened
  BY CacheAssumption DEF CacheInit, CacheTypeOK, Halfway, Opened, Answers
<1>2. Paid
  BY ThroughIsFinite, CacheAssumption DEF CacheInit, Paid
<1>3. QED
  BY <1>1, <1>2 DEF CacheInv

LEMMA CacheTypeStep ==
  ASSUME CacheTypeOK, Opened, NEW i \in CacheJobs, CacheStep(i)
  PROVE  CacheTypeOK'
<1> USE CacheAssumption DEF CacheTypeOK, At
<1>1. CASE Lookup(i)
  BY <1>1 DEF Lookup
<1>2. CASE Estimate(i)
  BY <1>2 DEF Estimate
<1>3. CASE OpenCacheTmp(i)
  <2>1. <<i, shot[i]>> \in CacheFiles
    BY DEF CacheFiles
  <2>2. PICK f \in CacheFiles :
          /\ cpc' = [cpc EXCEPT ![i] = "write"] /\ tmpFile' = f /\ fd' = [fd EXCEPT ![i] = f]
          /\ whole' = whole \ {f} /\ UNCHANGED <<cacheFile, shot, via>>
          /\ into' = [into EXCEPT ![f] = {via[j] : j \in WritersOf(f) \cup {i}}]
    BY <1>3, <2>1 DEF OpenCacheTmp
  <2>3. {via[j] : j \in WritersOf(f) \cup {i}} \subseteq Answers
    BY DEF WritersOf
  <2>4. into' \in [CacheFiles -> SUBSET (Answers \cup {"cut"})]
    BY <2>2, <2>3
  <2>5. QED
    BY <2>2, <2>4
<1>4. CASE WriteCacheTmp(i)
  BY <1>4 DEF WriteCacheTmp, Opened
<1>5. CASE RenameCacheTmp(i)
  BY <1>5 DEF RenameCacheTmp
<1>6. CASE RenameMisses(i)
  BY <1>6 DEF RenameMisses
<1>7. CASE CacheRunDies(i)
  BY <1>7 DEF CacheRunDies, LeftBehind
<1>8. QED
  BY <1>1, <1>2, <1>3, <1>4, <1>5, <1>6, <1>7 DEF CacheStep

LEMMA OpenedStep ==
  ASSUME CacheTypeOK, Opened, NEW i \in CacheJobs, CacheStep(i)
  PROVE  Opened'
<1> USE CacheAssumption DEF CacheTypeOK, At, Opened
<1>1. CASE OpenCacheTmp(i)
  <2>1. <<i, shot[i]>> \in CacheFiles
    BY DEF CacheFiles
  <2>2. PICK f \in CacheFiles :
          /\ cpc' = [cpc EXCEPT ![i] = "write"] /\ fd' = [fd EXCEPT ![i] = f]
          /\ UNCHANGED via
          /\ into' = [into EXCEPT ![f] = {via[j] : j \in WritersOf(f) \cup {i}}]
    BY <1>1, <2>1 DEF OpenCacheTmp
  <2>3. QED
    BY <2>2 DEF WritersOf
<1>2. CASE CacheRunDies(i)
  BY <1>2 DEF CacheRunDies
<1>3. CASE Estimate(i)
  BY <1>3 DEF Estimate
<1>4. CASE ~OpenCacheTmp(i) /\ ~CacheRunDies(i) /\ ~Estimate(i)
  BY <1>4 DEF CacheStep, Lookup, WriteCacheTmp, RenameCacheTmp, MayRename, RenameMisses
<1>5. QED
  BY <1>1, <1>2, <1>3, <1>4

LEMMA HalfwayStep ==
  ASSUME CacheTypeOK, Halfway, Opened, NEW i \in CacheJobs, CacheStep(i)
  PROVE  Halfway'
<1> USE CacheAssumption, MissingIsNoFile DEF CacheTypeOK, At, Halfway
<1> SUFFICES ASSUME NEW g \in {tmpFile', cacheFile'}, g # Missing, g \notin whole'
             PROVE  WritersOf(g)' # {} \/ ~Alike(g)'
  OBVIOUS
<1>1. CASE OpenCacheTmp(i)
  <2> DEFINE f == IF tmpFile = Missing THEN <<i, shot[i]>> ELSE tmpFile
  <2>1. /\ cpc[i] = "open" /\ cpc' = [cpc EXCEPT ![i] = "write"]
        /\ tmpFile' = f /\ cacheFile' = cacheFile
        /\ fd' = [fd EXCEPT ![i] = f] /\ whole' = whole \ {f}
        /\ \A h \in CacheFiles \ {f} : into'[h] = into[h]
    BY <1>1 DEF OpenCacheTmp
  <2> HIDE DEF f
  <2>2. CASE g = f
    BY <2>1, <2>2 DEF WritersOf
  <2>3. CASE g # f
    <3>1. g = cacheFile /\ g \notin whole /\ g \in CacheFiles
      BY <2>1, <2>3
    <3>2. into'[g] = into[g] /\ WritersOf(g) \subseteq WritersOf(g)'
      BY <2>1, <2>3, <3>1 DEF WritersOf
    <3>3. WritersOf(g) # {} \/ ~Alike(g)
      BY <3>1
    <3>4. QED
      BY <3>2, <3>3 DEF Alike
  <2>4. QED
    BY <2>2, <2>3
<1>2. CASE WriteCacheTmp(i)
  <2>1. /\ cpc[i] = "write" /\ cpc' = [cpc EXCEPT ![i] = "rename"]
        /\ UNCHANGED <<tmpFile, cacheFile, fd, into>>
    BY <1>2 DEF WriteCacheTmp
  <2>2. WritersOf(g)' = WritersOf(g) \ {i}
    BY <2>1 DEF WritersOf
  <2>3. CASE g = fd[i]
    <3>1. WritersOf(g) # {i} \/ ~Alike(g)
      BY <1>2, <2>3 DEF WriteCacheTmp
    <3>2. i \in WritersOf(g)
      BY <2>1, <2>3 DEF WritersOf
    <3>3. QED
      BY <2>1, <2>2, <3>1, <3>2 DEF Alike
  <2>4. CASE g # fd[i]
    <3>1. g \notin whole /\ i \notin WritersOf(g)
      BY <1>2, <2>4 DEF WriteCacheTmp, WritersOf
    <3>2. WritersOf(g) # {} \/ ~Alike(g)
      BY <2>1, <3>1
    <3>3. QED
      BY <2>1, <2>2, <3>1, <3>2 DEF Alike
  <2>5. QED
    BY <2>3, <2>4
<1>3. CASE CacheRunDies(i)
  <2>1. /\ cpc[i] \in {"write", "rename"} /\ cpc' = [cpc EXCEPT ![i] = "died"]
        /\ UNCHANGED <<tmpFile, cacheFile, fd, whole>>
        /\ into' = [into EXCEPT ![fd[i]] = IF cpc[i] = "write" THEN @ \cup {"cut"} ELSE @]
    BY <1>3 DEF CacheRunDies, LeftBehind
  <2>2. g \in CacheFiles /\ (WritersOf(g) # {} \/ ~Alike(g))
    BY <2>1
  <2>3. into[g] \subseteq into'[g]
    BY <2>1, <2>2
  <2>4. CASE cpc[i] = "write" /\ fd[i] = g
    <3>1. via[i] \in into'[g] /\ "cut" \in into'[g]
      BY <2>1, <2>2, <2>4 DEF Opened
    <3>2. via[i] # "cut"
      BY DEF Answers
    <3>3. QED
      BY <3>1, <3>2 DEF Alike
  <2>5. CASE ~(cpc[i] = "write" /\ fd[i] = g)
    <3>1. WritersOf(g) \subseteq WritersOf(g)'
      BY <2>1, <2>5 DEF WritersOf
    <3>2. QED
      BY <2>2, <2>3, <3>1 DEF Alike
  <2>6. QED
    BY <2>4, <2>5
<1>4. CASE Lookup(i) \/ Estimate(i) \/ RenameCacheTmp(i) \/ RenameMisses(i)
  <2>1. /\ {tmpFile', cacheFile'} \subseteq {tmpFile, cacheFile, Missing}
        /\ UNCHANGED <<whole, fd, into>>
        /\ cpc[i] # "write"
        /\ \E pc : cpc' = [cpc EXCEPT ![i] = pc] /\ pc # "write"
    BY <1>4 DEF Lookup, Estimate, RenameCacheTmp, MayRename, RenameMisses
  <2>2. WritersOf(g)' = WritersOf(g)
    BY <2>1 DEF WritersOf
  <2>3. WritersOf(g) # {} \/ ~Alike(g)
    BY <2>1
  <2>4. QED
    BY <2>1, <2>2, <2>3 DEF Alike
<1>5. QED
  BY <1>1, <1>2, <1>3, <1>4 DEF CacheStep

LEMMA PaidStep ==
  ASSUME CacheTypeOK, Paid, NEW i \in CacheJobs, CacheStep(i)
  PROVE  Paid'
<1> SUFFICES ASSUME NEW j \in CacheJobs
             PROVE  /\ cpc'[j] # "failed" => shot'[j] - 1 <= Cardinality(Through(j)')
                    /\ cpc'[j] = "failed" => shot'[j] <= Cardinality(Through(j)')
                    /\ cpc'[j] \in {"write", "rename"} /\ tmpFile' = Missing =>
                         shot'[j] <= Cardinality(Through(j)')
  BY DEF Paid
<1> DEFINE n == Cardinality(Through(j))
           m == Cardinality(Through(j)')
<1>1. PICK pc : cpc[i] # "done" /\ cpc' = [cpc EXCEPT ![i] = pc]
  BY DEF CacheStep, Lookup, Estimate, OpenCacheTmp, WriteCacheTmp, RenameCacheTmp, MayRename,
         RenameMisses, CacheRunDies, At
<1>2. n \in Nat /\ m \in Nat /\ n <= m
  BY <1>1, ThroughGrows
<1>3. /\ cpc[j] # "failed" => shot[j] - 1 <= n
      /\ cpc[j] = "failed" => shot[j] <= n
      /\ cpc[j] \in {"write", "rename"} /\ tmpFile = Missing => shot[j] <= n
  BY DEF Paid
<1>4. i # j /\ pc = "done" => m = n + 1
  BY <1>1, ThroughCounts
<1> HIDE DEF n, m
<1> SUFFICES /\ cpc'[j] # "failed" => shot'[j] - 1 <= m
             /\ cpc'[j] = "failed" => shot'[j] <= m
             /\ cpc'[j] \in {"write", "rename"} /\ tmpFile' = Missing => shot'[j] <= m
  BY DEF m
<1> USE <1>1, <1>2, <1>3, MissingIsNoFile DEF CacheTypeOK, At
<1>5. CASE Lookup(i)
  BY <1>5 DEF Lookup
<1>6. CASE Estimate(i)
  BY <1>6 DEF Estimate
<1>7. CASE OpenCacheTmp(i)
  <2>1. tmpFile' # Missing
    BY <1>7 DEF OpenCacheTmp, Missing
  <2>2. QED
    BY <1>7, <2>1 DEF OpenCacheTmp
<1>8. CASE WriteCacheTmp(i)
  BY <1>8 DEF WriteCacheTmp
<1>9. CASE RenameCacheTmp(i)
  <2>1. cpc' = [cpc EXCEPT ![i] = "done"] /\ pc = "done"
    BY <1>9 DEF RenameCacheTmp
  <2>2. QED
    BY <1>4, <1>9, <2>1 DEF RenameCacheTmp
<1>10. CASE RenameMisses(i)
  BY <1>10 DEF RenameMisses
<1>11. CASE CacheRunDies(i)
  BY <1>11 DEF CacheRunDies, LeftBehind
<1>12. QED
  BY <1>5, <1>6, <1>7, <1>8, <1>9, <1>10, <1>11 DEF CacheStep

LEMMA CacheStepInv == CacheInv /\ [CacheNext]_cvars => CacheInv'
<1> SUFFICES ASSUME CacheInv, [CacheNext]_cvars PROVE CacheInv'
  OBVIOUS
<1>1. CASE UNCHANGED cvars
  BY <1>1 DEF CacheInv, cvars, CacheTypeOK, Paid, Halfway, Opened, Through, WritersOf, Alike
<1>2. CASE CacheNext
  BY <1>2, CacheTypeStep, OpenedStep, HalfwayStep, PaidStep DEF CacheInv, CacheNext
<1>3. QED
  BY <1>1, <1>2

\* What is lost is paid for, and what is damaged has its writers.
LEMMA CacheInvSays == CacheInv => CacheTypeOK /\ LossesArePaidFor /\ EntryIsWhole
<1> SUFFICES ASSUME CacheInv PROVE LossesArePaidFor /\ EntryIsWhole
  BY DEF CacheInv
<1>1. LossesArePaidFor
  BY DEF CacheInv, Paid, Through, LossesArePaidFor
<1>2. EntryIsWhole
  BY DEF CacheInv, Halfway, EntryIsWhole
<1>3. QED
  BY <1>1, <1>2

-----------------------------------------------------------------------------
(* The external tool.  One process group is alive at most, the one that is   *)
(* waited for, and only runs up to this one have written a report, so that a *)
(* run that starts has not.                                                  *)

NotAfter(r, s) == r[1] < s[1] \/ (r[1] = s[1] /\ r[2] <= s[2])

WrittenBefore ==
  /\ \A r \in wrote : NotAfter(r, toolRun)
  /\ toolRun \in wrote => report = toolRun

ToolInv == ToolTypeOK /\ OneToolAtATime /\ WrittenBefore

LEMMA ToolInitInv == ToolInit => ToolInv
<1> SUFFICES ASSUME ToolInit PROVE ToolInv
  OBVIOUS
<1>1. <<1, 1>> \in ToolRuns
  BY ToolAssumption DEF ToolRuns
<1>2. QED
  BY <1>1 DEF ToolInit, ToolInv, ToolTypeOK, OneToolAtATime, WrittenBefore, Alive

\* Where the runner goes after a run: to one that has not been tried, or nowhere.
LEMMA OnwardFacts ==
  ASSUME ToolTypeOK, NEW afterLast \in BOOLEAN, Onward(afterLast)
  PROVE  /\ toolRun' \in ToolRuns /\ tpc' \in {"start", "failed"}
         /\ toolRun' # toolRun => NotAfter(toolRun, toolRun') /\ ~NotAfter(toolRun', toolRun)
         /\ \A r \in ToolRuns : NotAfter(r, toolRun) => NotAfter(r, toolRun')
<1> USE ToolAssumption
<1>1. PICK a \in 1..ToolAttempts, c \in 1..ToolCommands : toolRun = <<a, c>>
  BY DEF ToolTypeOK, ToolRuns
<1>2. /\ tpc' \in {"start", "failed"}
      /\ \/ toolRun' = toolRun
         \/ a < ToolAttempts /\ toolRun' = <<a + 1, 1>>
         \/ c < ToolCommands /\ toolRun' = <<a, c + 1>>
  BY <1>1 DEF Onward
<1>3. ASSUME NEW r \in ToolRuns
      PROVE  \E b \in 1..ToolAttempts, d \in 1..ToolCommands : r = <<b, d>>
  BY DEF ToolRuns
<1>4. CASE toolRun' = toolRun
  BY <1>2, <1>4 DEF ToolTypeOK
<1>5. CASE a < ToolAttempts /\ toolRun' = <<a + 1, 1>>
  BY <1>1, <1>2, <1>3, <1>5 DEF NotAfter, ToolRuns
<1>6. CASE c < ToolCommands /\ toolRun' = <<a, c + 1>>
  BY <1>1, <1>2, <1>3, <1>6 DEF NotAfter, ToolRuns
<1>7. QED
  BY <1>2, <1>4, <1>5, <1>6

\* A run that has been gone past leaves the reports as they are.
LEMMA OnwardKeeps ==
  ASSUME ToolInv, NEW afterLast \in BOOLEAN, Onward(afterLast), tpc # "waiting",
         UNCHANGED <<group, report, wrote, status>>, timer' \in {"off", "armed", "terminated", "killed"},
         timedOut' \in BOOLEAN
  PROVE  ToolInv'
<1>1. /\ toolRun' \in ToolRuns /\ tpc' \in {"start", "failed"}
      /\ toolRun' # toolRun => NotAfter(toolRun, toolRun') /\ ~NotAfter(toolRun', toolRun)
      /\ \A r \in ToolRuns : NotAfter(r, toolRun) => NotAfter(r, toolRun')
  BY OnwardFacts DEF ToolInv
<1>2. ToolTypeOK'
  BY <1>1 DEF ToolInv, ToolTypeOK
<1>3. OneToolAtATime'
  BY <1>1 DEF ToolInv, OneToolAtATime, Alive
<1>4. WrittenBefore'
  BY <1>1 DEF ToolInv, WrittenBefore, ToolTypeOK
<1>5. QED
  BY <1>2, <1>3, <1>4 DEF ToolInv

LEMMA ToolStepInv == ToolInv /\ [ToolNext]_tvars => ToolInv'
<1> SUFFICES ASSUME ToolInv, [ToolNext]_tvars PROVE ToolInv'
  OBVIOUS
<1> USE ToolAssumption DEF ToolInv
<1>1. CASE UNCHANGED tvars
  BY <1>1 DEF tvars, ToolTypeOK, OneToolAtATime, WrittenBefore, Alive
<1>2. CASE StartTool
  <2>1. CASE Onward(FALSE) /\ UNCHANGED <<group, timer, timedOut>>
    BY <1>2, <2>1, OnwardKeeps DEF StartTool, ToolTypeOK
  <2>2. CASE ~Onward(FALSE)
    BY <1>2, <2>2 DEF StartTool, ToolTypeOK, OneToolAtATime, WrittenBefore, Alive
  <2>3. CASE Onward(FALSE) /\ group' = [group EXCEPT ![toolRun] = "working"]
             /\ timer' = "armed" /\ timedOut' = FALSE /\ tpc' = "waiting" /\ UNCHANGED toolRun
    BY <1>2, <2>3 DEF StartTool, ToolTypeOK, OneToolAtATime, WrittenBefore, Alive
  <2>4. QED
    BY <1>2, <2>1, <2>2, <2>3 DEF StartTool
<1>3. CASE KillTree
  BY <1>3 DEF KillTree, AfterKill, ToolTypeOK, OneToolAtATime, WrittenBefore, Alive
<1>4. CASE KillGroup
  BY <1>4 DEF KillGroup, KillDue, ToolTypeOK, OneToolAtATime, WrittenBefore, Alive
<1>5. CASE ToolCloses
  BY <1>5 DEF ToolCloses, ToolTypeOK, OneToolAtATime, WrittenBefore, Alive
<1>6. CASE ToolReturns
  <2>1. CASE Onward(FALSE)
    BY <1>6, <2>1, OnwardKeeps DEF ToolReturns, ToolTypeOK
  <2>2. CASE ~Onward(FALSE)
    BY <1>6, <2>2 DEF ToolReturns, ToolTypeOK, OneToolAtATime, WrittenBefore, Alive
  <2>3. QED
    BY <2>1, <2>2
<1>7. CASE TakeReport
  <2>1. CASE Onward(TRUE)
    BY <1>7, <2>1, OnwardKeeps DEF TakeReport, ToolTypeOK
  <2>2. CASE ~Onward(TRUE)
    BY <1>7, <2>2 DEF TakeReport, ToolTypeOK, OneToolAtATime, WrittenBefore, Alive
  <2>3. QED
    BY <2>1, <2>2
<1>8. ASSUME NEW r \in ToolRuns, ToolProcess(r) PROVE ToolInv'
  <2>1. CASE ToolWrites(r)
    <3>1. r = toolRun /\ NotAfter(toolRun, toolRun)
      <4>1. r = toolRun
        BY <2>1 DEF ToolWrites, OneToolAtATime
      <4>2. QED
        BY <4>1 DEF NotAfter, ToolTypeOK, ToolRuns
    <3>2. QED
      BY <2>1, <3>1 DEF ToolWrites, ToolTypeOK, OneToolAtATime, WrittenBefore, Alive
  <2>2. CASE ToolExits(r)
    BY <2>2 DEF ToolExits, ToolTypeOK, OneToolAtATime, WrittenBefore, Alive
  <2>3. CASE OrphansEnd(r)
    BY <2>3 DEF OrphansEnd, ToolTypeOK, OneToolAtATime, WrittenBefore, Alive
  <2>4. QED
    BY <1>8, <2>1, <2>2, <2>3 DEF ToolProcess
<1>9. QED
  BY <1>1, <1>2, <1>3, <1>4, <1>5, <1>6, <1>7, <1>8 DEF ToolNext, ToolRunner

LEMMA ToolInvSays == ToolInv => ToolTypeOK /\ OneToolAtATime /\ ReportIsOwn
BY DEF ToolInv, WrittenBefore, ReportIsOwn

-----------------------------------------------------------------------------
(* The training of a suite.  What the worker goes by is what it has found:   *)
(* unless it has overtaken the request it has the payload, and then the data *)
(* are there, since only a worker without payload empties them.              *)

\* The request has not been overtaken: its data lie there when it names them.
DataAreThere ==
  /\ rec.payload \/ mem.payload => route = "answered"
  /\ ~overtaken /\ route \in {"resave", "answered"} => data = "full"
  /\ ~overtaken /\ train # "idle" => mem.payload

\* What the worker has come to know, and what it has left behind.
WorkerKnows ==
  /\ train # "idle" => mem.status = "running"
  /\ samples => enough
  /\ ~overtaken /\ train \in {"policy", "count"} => (samples <=> enough)
  /\ samples \/ train \in {"write", "activate", "finish"} => mem.payload
  /\ train \in {"write", "activate", "finish"} => enough
  /\ train \in {"activate", "finish"} => "model" \in mem.listed \cap local \cap runDir
  /\ train = "finish" => (activated <=> wantsActive)

\* An attempt that is made is one that is left.
AttemptsLeft == rec.status = "queued" => rec.attempts < TrainingAttempts

FailedForLack == rec.status = "failed" /\ ~overtaken /\ ~mishap => ~enough

TrainingInv ==
  TrainingTypeOK /\ DataAreThere /\ WorkerKnows /\ AttemptsLeft /\ FailedForLack
    /\ SucceededHasModel

LEMMA TrainingInitInv == TrainingInit => TrainingInv
<1> SUFFICES ASSUME TrainingInit PROVE TrainingInv
  OBVIOUS
<1> USE TrainingAssumption DEF TrainingInit, NoRecord, Record
<1>1. NoRecord \in Recs
  BY DEF Recs
<1>2. TrainingTypeOK
  BY <1>1 DEF TrainingTypeOK
<1>3. DataAreThere /\ WorkerKnows /\ AttemptsLeft /\ FailedForLack /\ SucceededHasModel
  BY DEF DataAreThere, WorkerKnows, AttemptsLeft, FailedForLack, SucceededHasModel
<1>4. QED
  BY <1>2, <1>3 DEF TrainingInv

\* What the end of an attempt leaves in the record.
LEMMA AttemptEndsFacts ==
  ASSUME mem \in Recs, AttemptEnds
  PROVE  /\ rec' = mem' /\ mem' \in Recs /\ train' = "idle"
         /\ mem'.status \in {"queued", "failed"} /\ mem'.payload = mem.payload
         /\ mem'.status = "queued" => mem'.attempts < TrainingAttempts
BY DEF AttemptEnds, Save, Recs

\* A save in the middle of an attempt changes what is listed, and nothing else.
LEMMA ListedFacts ==
  ASSUME NEW m \in Recs, NEW more \in SUBSET Artifacts, NEW n,
         n = [m EXCEPT !.listed = @ \cup more]
  PROVE  /\ n \in Recs
         /\ n.status = m.status /\ n.payload = m.payload /\ n.attempts = m.attempts
         /\ n.listed = m.listed \cup more
BY DEF Recs

LEMMA TrainingStepInv == TrainingInv /\ [TrainingNext]_svars => TrainingInv'
<1> SUFFICES ASSUME TrainingInv, [TrainingNext]_svars PROVE TrainingInv'
  OBVIOUS
<1> USE TrainingAssumption DEF TrainingInv, given, ghosts
<1>1. /\ mem \in Recs /\ rec \in Recs
      /\ {"input", "dataset", "policy", "model"} = Artifacts
  BY DEF TrainingTypeOK, Artifacts
<1>2. CASE UNCHANGED svars
  BY <1>2 DEF svars, TrainingTypeOK, DataAreThere, WorkerKnows, AttemptsLeft, FailedForLack,
              SucceededHasModel
<1>3. CASE CreateTraining
  <2>1. /\ rec' = [status |-> "queued", payload |-> FALSE, attempts |-> 0, listed |-> {}]
        /\ rec' \in Recs
    BY <1>3 DEF CreateTraining, Record, Recs
  <2>2. QED
    BY <1>3, <2>1 DEF CreateTraining, TrainingTypeOK, DataAreThere, WorkerKnows, AttemptsLeft,
                      FailedForLack, SucceededHasModel
<1>4. CASE Upload
  BY <1>4 DEF Upload, TrainingTypeOK, DataAreThere, WorkerKnows, AttemptsLeft,
              FailedForLack, SucceededHasModel
<1>5. CASE SavePayload
  <2>1. /\ rec' \in Recs /\ rec'.status = "queued" /\ rec'.payload = TRUE /\ rec'.attempts = 0
    <3> DEFINE input == IF datasetJob THEN {} ELSE {"input"}
    <3>1. rec' = [Record("queued") EXCEPT !.payload = TRUE, !.listed = input]
      BY <1>5 DEF SavePayload
    <3>2. Record("queued") =
            [status |-> "queued", payload |-> FALSE, attempts |-> 0, listed |-> {}]
      BY DEF Record
    <3>3. input \in SUBSET Artifacts
      BY <1>1
    <3> HIDE DEF input
    <3>4. rec' = [[status |-> "queued", payload |-> FALSE, attempts |-> 0, listed |-> {}]
                    EXCEPT !.payload = TRUE, !.listed = input]
      BY ONLY <3>1, <3>2
    <3>5. rec' = [status |-> "queued", payload |-> TRUE, attempts |-> 0, listed |-> input]
      BY <3>4
    <3>6. QED
      BY <3>3, <3>5 DEF Recs
  <2>2. QED
    BY <1>5, <2>1 DEF SavePayload, TrainingTypeOK, DataAreThere, WorkerKnows, AttemptsLeft,
                      FailedForLack, SucceededHasModel
<1>6. CASE ClaimTraining
  <2>1. /\ rec' = mem' /\ mem' \in Recs
        /\ mem'.status = "running" /\ mem'.payload = rec.payload
    <3>1. /\ rec' = mem' /\ rec.attempts < TrainingAttempts
          /\ mem' = [rec EXCEPT !.status = "running", !.attempts = @ + 1]
      BY <1>6 DEF ClaimTraining, Save, AttemptsLeft
    <3>2. rec.attempts + 1 \in 0..TrainingAttempts
      BY <1>1, <3>1 DEF Recs
    <3>3. QED
      BY <1>1, <3>1, <3>2 DEF Recs
  <2>2. QED
    BY <1>6, <2>1 DEF ClaimTraining, TrainingTypeOK, DataAreThere, WorkerKnows, AttemptsLeft,
                      FailedForLack, SucceededHasModel
<1>7. CASE PrepareDataset
  <2>1. PICK art \in SUBSET Artifacts :
          /\ rec' = mem' /\ mem' = [mem EXCEPT !.listed = @ \cup art]
          /\ runDir' = runDir \cup art /\ local' = local \cup art
    BY <1>1, <1>7 DEF PrepareDataset, Save
  <2>2. /\ mem' \in Recs
        /\ mem'.status = mem.status /\ mem'.payload = mem.payload
    BY <1>1, <2>1, ListedFacts
  <2>3. mem.status = "running"
    BY <1>7 DEF PrepareDataset, WorkerKnows
  <2>4. QED
    BY <1>7, <2>1, <2>2, <2>3 DEF PrepareDataset, HasData, TrainingTypeOK, DataAreThere,
       WorkerKnows, AttemptsLeft, FailedForLack, SucceededHasModel
<1>8. CASE ApplyPolicy
  <2>1. mem' \in Recs /\ mem'.status = "running" /\ mem'.payload = mem.payload
    <3>1. mem' = [mem EXCEPT !.listed = @ \cup {"policy"}] /\ mem.status = "running"
      BY <1>8 DEF ApplyPolicy, Save, WorkerKnows
    <3>2. QED
      BY <1>1, <3>1 DEF Recs, Artifacts
  <2>2. QED
    BY <1>1, <1>8, <2>1 DEF ApplyPolicy, Save, TrainingTypeOK, DataAreThere,
       WorkerKnows, AttemptsLeft, FailedForLack, SucceededHasModel
<1>9. CASE TooFewSamples
  <2>1. /\ rec' = mem' /\ mem' \in Recs /\ train' = "idle"
        /\ mem'.status \in {"queued", "failed"} /\ mem'.payload = mem.payload
        /\ mem'.status = "queued" => mem'.attempts < TrainingAttempts
    BY <1>1, <1>9, AttemptEndsFacts DEF TooFewSamples
  <2>2. QED
    BY <1>9, <2>1 DEF TooFewSamples, TrainingTypeOK, DataAreThere,
       WorkerKnows, AttemptsLeft, FailedForLack, SucceededHasModel
<1>10. CASE TrainSuite
  BY <1>1, <1>10 DEF TrainSuite, Save, TrainingTypeOK, DataAreThere, WorkerKnows, AttemptsLeft,
     FailedForLack, SucceededHasModel
<1>11. CASE WriteModel
  <2>1. /\ mem' \in Recs /\ mem'.status = "running" /\ mem'.payload = mem.payload
        /\ "model" \in mem'.listed
    <3>1. mem' = [mem EXCEPT !.listed = @ \cup {"model"}] /\ mem.status = "running"
      BY <1>11 DEF WriteModel, WorkerKnows
    <3>2. mem' \in Recs /\ mem'.status = mem.status /\ mem'.payload = mem.payload
          /\ mem'.listed = mem.listed \cup {"model"}
      BY <1>1, <3>1 DEF Recs, Artifacts
    <3>3. QED
      BY <3>1, <3>2
  <2>2. QED
    BY <1>1, <1>11, <2>1 DEF WriteModel, ModelInJob, TrainingTypeOK, DataAreThere,
       WorkerKnows, AttemptsLeft, FailedForLack, SucceededHasModel
<1>12. CASE ActivateTrained
  BY <1>1, <1>12 DEF ActivateTrained, AsksForActivation, Save, TrainingTypeOK, DataAreThere, WorkerKnows,
     AttemptsLeft, FailedForLack, SucceededHasModel
<1>13. CASE FinishTraining
  <2>1. /\ rec' = mem' /\ mem' \in Recs /\ mem'.status = "succeeded"
        /\ mem'.payload = mem.payload /\ mem'.listed = mem.listed
    BY <1>1, <1>13 DEF FinishTraining, Save, Recs
  <2>2. QED
    BY <1>13, <2>1 DEF FinishTraining, TrainingTypeOK, DataAreThere, WorkerKnows,
       AttemptsLeft, FailedForLack, SucceededHasModel
<1>14. CASE TrainingThrows
  <2>1. /\ rec' = mem' /\ mem' \in Recs /\ train' = "idle"
        /\ mem'.status \in {"queued", "failed"} /\ mem'.payload = mem.payload
        /\ mem'.status = "queued" => mem'.attempts < TrainingAttempts
    BY <1>1, <1>14, AttemptEndsFacts DEF TrainingThrows
  <2>2. QED
    BY <1>14, <2>1 DEF TrainingThrows, TrainingTypeOK, DataAreThere,
       WorkerKnows, AttemptsLeft, FailedForLack, SucceededHasModel
<1>15. QED
  BY <1>2, <1>3, <1>4, <1>5, <1>6, <1>7, <1>8, <1>9, <1>10, <1>11, <1>12, <1>13, <1>14
     DEF TrainingNext, SubmitStep, TrainStep

LEMMA TrainingInvSays == TrainingInv => TrainingTypeOK /\ SubmittedIsTrained /\ SucceededHasModel
BY DEF TrainingInv, FailedForLack, SubmittedIsTrained, SucceededHasModel, Settled

-----------------------------------------------------------------------------
(* The estimator pool.  Until it fails, the pool's count is the number of    *)
(* threads that have not been heard yet, whose results are missing; after it *)
(* has failed nobody else is started, and the count is only too large.       *)

Owing == {t \in Tasks : thread[t] \in {"running"} \cup Ends}

\* Threads are started in the order of the tasks, and only where they may be.
StartedInOrder ==
  /\ \A t \in Tasks : thread[t] = "none" <=> t > next
  /\ next > 0 => shouldUseThreads /\ workerCount > 1 /\ ~threadless
  /\ next = 0 => ~broken /\ active = 0
  /\ next = 0 /\ answer = "none" => results = {}

CountOfOwing ==
  /\ Cardinality(Owing) <= active
  /\ ~broken => /\ active = Cardinality(Owing) /\ active <= workerCount
                /\ next \in 1..PoolTasks - 1 => active = workerCount

\* Until the pool fails, who has been heard has delivered, and nobody else.
HeardDelivered ==
  next > 0 =>
    \A t \in Tasks : /\ t \in results => thread[t] \in {"stopping", "gone"}
                     /\ ~broken /\ thread[t] \in {"stopping", "gone"} => t \in results

PoolInv == PoolTypeOK /\ StartedInOrder /\ CountOfOwing /\ HeardDelivered /\ CompleteAnswer

LEMMA OwingIsFinite == IsFiniteSet(Owing) /\ Cardinality(Owing) \in Nat
<1>1. Owing \subseteq Tasks /\ IsFiniteSet(Tasks)
  BY PoolAssumption, FS_Interval DEF Owing, Tasks
<1>2. QED
  BY <1>1, FS_Subset, FS_CardinalityType

\* As many threads as there are shapes, and no more than are configured.
LEMMA WorkerCountFacts ==
  ASSUME PoolTypeOK
  PROVE  workerCount \in Nat /\ workerCount <= PoolTasks
BY PoolAssumption DEF PoolTypeOK, workerCount, AtMost

\* A thread that has been heard owes nothing any more.
LEMMA OwingDrops ==
  ASSUME PoolTypeOK, NEW t \in Owing, NEW e \in {"stopping", "gone"}, NEW th,
         th = [thread EXCEPT ![t] = e]
  PROVE  /\ th \in [Tasks -> {"none", "running", "stopping", "gone"} \cup Ends]
         /\ {u \in Tasks : th[u] \in {"running"} \cup Ends} = Owing \ {t}
         /\ IsFiniteSet(Owing \ {t}) /\ Cardinality(Owing \ {t}) = Cardinality(Owing) - 1
         /\ t \in Tasks
<1>1. {u \in Tasks : th[u] \in {"running"} \cup Ends} = Owing \ {t}
  BY DEF Owing, PoolTypeOK, Ends
<1>2. QED
  BY <1>1, OwingIsFinite, FS_RemoveElement DEF Owing, PoolTypeOK

LEMMA PoolInitInv == PoolInit => PoolInv
<1> SUFFICES ASSUME PoolInit PROVE PoolInv
  OBVIOUS
<1> USE PoolAssumption DEF PoolInit
<1>1. PoolTypeOK
  <2>1. /\ workers \in 0..PoolWorkers /\ next \in 0..PoolTasks /\ active \in 0..PoolTasks
        /\ results \subseteq Tasks
    OBVIOUS
  <2>2. /\ big \in BOOLEAN /\ threadless \in BOOLEAN /\ broken \in BOOLEAN
        /\ thread \in [Tasks -> {"none", "running", "stopping", "gone"} \cup Ends]
        /\ answer \in {"none", "all", "single", "threads", "fallback"}
    OBVIOUS
  <2>3. QED
    BY <2>1, <2>2 DEF PoolTypeOK
<1>2. Owing = {}
  BY DEF Owing, Ends
<1>3. Cardinality(Owing) = 0
  BY <1>2, FS_EmptySet
<1>4. StartedInOrder /\ HeardDelivered /\ CompleteAnswer
  BY DEF StartedInOrder, HeardDelivered, CompleteAnswer, Tasks
<1>5. CountOfOwing
  BY <1>1, <1>3, WorkerCountFacts DEF CountOfOwing
<1>6. QED
  BY <1>1, <1>4, <1>5 DEF PoolInv

\* The first threads are started: as many as there may be.
LEMMA StartPoolInv == PoolInv /\ StartPool => PoolInv'
<1> SUFFICES ASSUME PoolInv, StartPool PROVE PoolInv'
  OBVIOUS
<1> USE PoolAssumption, WorkerCountFacts DEF PoolInv, PoolTypeOK, Tasks
<1>1. /\ answer = "none" /\ next = 0 /\ ~broken /\ results = {}
      /\ shouldUseThreads /\ workerCount > 1 /\ ~threadless
      /\ \A t \in Tasks : thread[t] = "none"
  BY DEF StartPool, StartedInOrder
<1>2. AtMost(workerCount - 0, PoolTasks - next) = workerCount
  BY <1>1 DEF AtMost
<1>3. ~AllDone(next, 0)
  BY <1>1 DEF AllDone, shouldUseThreads
<1>4. /\ next' = workerCount /\ active' = workerCount /\ UNCHANGED answer
      /\ thread' = [t \in Tasks |-> IF t \in 1..workerCount THEN "running" ELSE thread[t]]
  BY <1>1, <1>2, <1>3 DEF StartPool, StartNext
<1>5. UNCHANGED <<workers, big, threadless, broken, results>>
      /\ shouldUseThreads' = shouldUseThreads /\ workerCount' = workerCount
  BY DEF StartPool, poolEnv, shouldUseThreads, workerCount
<1>6. Owing' = 1..workerCount
  BY <1>1, <1>4 DEF Owing, Ends
<1>7. Cardinality(Owing') = workerCount
  BY <1>6, FS_Interval
<1>8. PoolTypeOK'
  BY <1>1, <1>4, <1>5
<1>9. StartedInOrder' /\ HeardDelivered' /\ CompleteAnswer'
  BY <1>1, <1>4, <1>5 DEF StartedInOrder, HeardDelivered, CompleteAnswer
<1>10. CountOfOwing'
  BY <1>1, <1>4, <1>5, <1>7 DEF CountOfOwing
<1>11. QED
  BY <1>8, <1>9, <1>10

\* A result arrives while the pool is sound: another thread takes the place of the
\* one that has been heard, as long as there are tasks; with the last result the
\* pool has them all.
LEMMA ResultArrivesInv ==
  ASSUME PoolInv, NEW t \in Tasks, thread[t] = "ok", ~broken, MessageArrives(t)
  PROVE  PoolInv'
<1> DEFINE th == [thread EXCEPT ![t] = "stopping"]
<1> USE PoolAssumption, WorkerCountFacts DEF PoolInv, PoolTypeOK, Tasks
<1>1. /\ results' = results \cup {t} /\ UNCHANGED broken
      /\ StartNext(th, active - 1)
      /\ UNCHANGED <<workers, big, threadless>>
  BY DEF MessageArrives, HeardFrom, poolEnv
<1>2. shouldUseThreads' = shouldUseThreads /\ workerCount' = workerCount
  BY <1>1 DEF shouldUseThreads, workerCount
<1>3. t \in Owing /\ t <= next /\ next \in 1..PoolTasks
  BY DEF Owing, Ends, StartedInOrder
<1>4. /\ th \in [Tasks -> {"none", "running", "stopping", "gone"} \cup Ends]
      /\ {u \in Tasks : th[u] \in {"running"} \cup Ends} = Owing \ {t}
      /\ IsFiniteSet(Owing \ {t}) /\ Cardinality(Owing \ {t}) = Cardinality(Owing) - 1
  BY <1>3, OwingDrops
<1>5. /\ active = Cardinality(Owing) /\ active <= workerCount
      /\ next < PoolTasks => active = workerCount
      /\ active \in Nat /\ active - 1 \in Nat
  BY <1>3, <1>4, OwingIsFinite, FS_CardinalityType DEF CountOfOwing
<1>6. shouldUseThreads /\ workerCount > 1 /\ ~threadless
  BY <1>3 DEF StartedInOrder
<1>7. \A u \in Tasks : /\ u \in results' => th[u] \in {"stopping", "gone"}
                       /\ th[u] \in {"stopping", "gone"} => u \in results'
                       /\ th[u] = "none" <=> u > next
  BY <1>1, <1>3 DEF HeardDelivered, StartedInOrder
<1>8. answer # "fallback"
  BY DEF CompleteAnswer
<1>9. CASE AllDone(next, active - 1)
  <2>1. /\ next = PoolTasks /\ active = 1
        /\ answer' = "threads" /\ active' = 0 /\ thread' = th /\ UNCHANGED next
    BY <1>1, <1>3, <1>5, <1>9 DEF StartNext, AllDone
  <2>2. Owing' = Owing \ {t}
    BY <1>4, <2>1 DEF Owing
  <2>3. Owing \ {t} = {} /\ Cardinality(Owing') = 0
    BY <1>4, <1>5, <2>1, <2>2, FS_EmptySet
  <2>4. results' = Tasks
    <3>1. \A u \in Tasks : th[u] \notin {"running"} \cup Ends /\ th[u] # "none"
      BY <1>4, <1>7, <2>1, <2>3
    <3>2. \A u \in Tasks : th[u] \in {"stopping", "gone"}
      BY <1>4, <3>1
    <3>3. QED
      BY <1>1, <1>7, <3>2
  <2>5. PoolTypeOK'
    BY <1>1, <1>4, <2>1
  <2>6. StartedInOrder' /\ HeardDelivered' /\ CompleteAnswer'
    BY <1>1, <1>2, <1>3, <1>6, <1>7, <2>1, <2>4 DEF StartedInOrder, HeardDelivered, CompleteAnswer
  <2>7. CountOfOwing'
    BY <1>1, <1>2, <2>1, <2>3 DEF CountOfOwing
  <2>8. QED
    BY <2>5, <2>6, <2>7
<1>10. CASE ~AllDone(next, active - 1) /\ next < PoolTasks
  <2>1. AtMost(workerCount - (active - 1), PoolTasks - next) = 1
    BY <1>3, <1>5, <1>10 DEF AtMost
  <2>2. /\ next' = next + 1 /\ active' = active /\ UNCHANGED answer
        /\ thread' = [u \in Tasks |-> IF u = next + 1 THEN "running" ELSE th[u]]
    <3>1. /\ next' = next + 1 /\ active' = active - 1 + 1 /\ UNCHANGED answer
          /\ thread' = [u \in Tasks |-> IF u \in next + 1 .. next + 1 THEN "running" ELSE th[u]]
      BY <1>1, <1>10, <2>1 DEF StartNext
    <3>2. \A u \in Tasks : u \in next + 1 .. next + 1 <=> u = next + 1
      BY <1>3
    <3>3. QED
      BY <1>5, <3>1, <3>2
  <2>3. next + 1 \in Tasks /\ next + 1 # t /\ th[next + 1] = "none" /\ next + 1 \notin Owing
    BY <1>3, <1>7, <1>10 DEF Owing, Ends, StartedInOrder
  <2>4. Owing' = (Owing \ {t}) \cup {next + 1}
    <3>1. Owing' = {u \in Tasks : thread'[u] \in {"running"} \cup Ends}
      BY DEF Owing
    <3>2. QED
      BY <1>4, <2>2, <2>3, <3>1
  <2>5. Cardinality(Owing') = active
    <3>1. Cardinality(Owing') = Cardinality(Owing \ {t}) + 1
      BY <1>4, <2>3, <2>4, FS_AddElement
    <3>2. QED
      BY <1>4, <1>5, <3>1
  <2>6. PoolTypeOK'
    BY <1>1, <1>4, <1>10, <2>2
  <2>7. StartedInOrder' /\ HeardDelivered' /\ CompleteAnswer'
    BY <1>1, <1>2, <1>3, <1>6, <1>7, <1>8, <1>10, <2>2, <2>3
       DEF StartedInOrder, HeardDelivered, CompleteAnswer
  <2>8. CountOfOwing'
    BY <1>1, <1>2, <1>5, <1>10, <2>2, <2>5 DEF CountOfOwing
  <2>9. QED
    BY <2>6, <2>7, <2>8
<1>11. CASE ~AllDone(next, active - 1) /\ next = PoolTasks
  <2>1. AtMost(workerCount - (active - 1), PoolTasks - next) = 0
    BY <1>3, <1>5, <1>11 DEF AtMost
  <2>2. /\ next' = next /\ active' = active - 1 /\ UNCHANGED answer
        /\ thread' = th
    <3>1. /\ next' = next + 0 /\ active' = active - 1 + 0 /\ UNCHANGED answer
          /\ thread' = [u \in Tasks |-> IF u \in next + 1 .. next + 0 THEN "running" ELSE th[u]]
      BY <1>1, <1>11, <2>1 DEF StartNext
    <3>2. \A u \in Tasks : u \notin next + 1 .. next + 0
      BY <1>3
    <3>3. thread' = th
      BY <1>4, <3>1, <3>2
    <3>4. next + 0 = next /\ active - 1 + 0 = active - 1
      BY <1>3, <1>5
    <3>5. QED
      BY <3>1, <3>3, <3>4
  <2>3. Owing' = Owing \ {t} /\ Cardinality(Owing') = active - 1
    BY <1>4, <1>5, <2>2 DEF Owing
  <2>4. PoolTypeOK'
    BY <1>1, <1>4, <1>5, <2>2
  <2>5. StartedInOrder' /\ HeardDelivered' /\ CompleteAnswer'
    BY <1>1, <1>2, <1>3, <1>6, <1>7, <1>8, <2>2 DEF StartedInOrder, HeardDelivered, CompleteAnswer
  <2>6. CountOfOwing'
    BY <1>1, <1>2, <1>5, <1>11, <2>2, <2>3 DEF CountOfOwing
  <2>7. QED
    BY <2>4, <2>5, <2>6
<1>12. QED
  BY <1>3, <1>9, <1>10, <1>11

\* A thread that owes an answer is heard, and the pool is broken from now on.
LEMMA FailureInv ==
  ASSUME PoolInv, NEW t \in Owing, NEW e \in {"stopping", "gone"}, broken' = TRUE,
         thread' = [thread EXCEPT ![t] = e], active' = active - 1,
         answer' \in {answer, "fallback"},
         UNCHANGED <<workers, big, threadless, next>>,
         results' = results \/ (results' = results \cup {t} /\ e = "stopping")
  PROVE  PoolInv'
<1> USE PoolAssumption, WorkerCountFacts DEF PoolInv, PoolTypeOK, Tasks
<1>1. shouldUseThreads' = shouldUseThreads /\ workerCount' = workerCount
  BY DEF shouldUseThreads, workerCount
<1>2. /\ thread' \in [Tasks -> {"none", "running", "stopping", "gone"} \cup Ends]
      /\ Owing' = Owing \ {t}
      /\ IsFiniteSet(Owing') /\ Cardinality(Owing') = Cardinality(Owing) - 1
      /\ t \in Tasks
  <2>1. Owing' = {u \in Tasks : thread'[u] \in {"running"} \cup Ends}
    BY DEF Owing
  <2>2. /\ thread' \in [Tasks -> {"none", "running", "stopping", "gone"} \cup Ends]
        /\ {u \in Tasks : thread'[u] \in {"running"} \cup Ends} = Owing \ {t}
        /\ IsFiniteSet(Owing \ {t}) /\ Cardinality(Owing \ {t}) = Cardinality(Owing) - 1
        /\ t \in Tasks
    BY OwingDrops DEF PoolInv
  <2>3. QED
    BY <2>1, <2>2
<1>3. Cardinality(Owing') \in Nat /\ Cardinality(Owing) <= active
  BY <1>2, FS_CardinalityType DEF CountOfOwing
<1>4. next > 0 /\ thread[t] # "none"
  BY DEF Owing, Ends, StartedInOrder
<1>5. PoolTypeOK'
  <2>1. active' \in 0..PoolTasks
    BY <1>2, <1>3, OwingIsFinite
  <2>2. results' \subseteq Tasks /\ answer' \in {"none", "all", "single", "threads", "fallback"}
    BY <1>2
  <2>3. QED
    BY <1>2, <2>1, <2>2
<1>6. CountOfOwing'
  BY <1>2, <1>3, OwingIsFinite DEF CountOfOwing
<1>7. StartedInOrder'
  BY <1>1, <1>4 DEF StartedInOrder
<1>8. HeardDelivered' /\ CompleteAnswer'
  BY <1>2, <1>4 DEF HeardDelivered, CompleteAnswer, Owing
<1>9. QED
  BY <1>5, <1>6, <1>7, <1>8

LEMMA PoolStepInv == PoolInv /\ [PoolNext]_pvars => PoolInv'
<1> SUFFICES ASSUME PoolInv, [PoolNext]_pvars PROVE PoolInv'
  OBVIOUS
<1> DEFINE env == UNCHANGED <<workers, big, threadless>>
<1>1. env /\ UNCHANGED thread => /\ shouldUseThreads' = shouldUseThreads
                                /\ workerCount' = workerCount /\ Owing' = Owing
  BY DEF shouldUseThreads, workerCount, Owing
<1>2. CASE UNCHANGED pvars
  BY <1>1, <1>2 DEF pvars, PoolInv, PoolTypeOK, StartedInOrder, CountOfOwing, HeardDelivered,
                    CompleteAnswer
<1>3. CASE EstimateAll
  BY <1>1, <1>3 DEF EstimateAll, poolEnv, PoolInv, PoolTypeOK, StartedInOrder, CountOfOwing,
                    HeardDelivered, CompleteAnswer
<1>4. CASE EstimateClusters
  BY <1>1, <1>4 DEF EstimateClusters, poolEnv, PoolInv, PoolTypeOK, StartedInOrder,
                    CountOfOwing, HeardDelivered, CompleteAnswer
<1>5. CASE EstimateSynchronously
  <2>1. next \in Nat /\ ~(next > 0)
    BY <1>5, PoolAssumption, WorkerCountFacts
       DEF EstimateSynchronously, PoolInv, StartedInOrder, PoolTypeOK
  <2>2. QED
    BY <1>1, <1>5, <2>1 DEF EstimateSynchronously, poolEnv, PoolInv, PoolTypeOK, StartedInOrder,
                            CountOfOwing, HeardDelivered, CompleteAnswer
<1>6. CASE StartPool
  BY <1>6, StartPoolInv
<1>7. ASSUME NEW t \in Tasks, ThreadEnds(t) PROVE PoolInv'
  <2>1. PICK e \in Ends : thread' = [thread EXCEPT ![t] = e]
    BY <1>7 DEF ThreadEnds
  <2>2. thread[t] = "running" /\ UNCHANGED <<workers, big, threadless, next, active, broken,
                                            results, answer>>
    BY <1>7 DEF ThreadEnds, poolEnv
  <2>3. Owing' = Owing
    BY <2>1, <2>2 DEF Owing, PoolInv, PoolTypeOK
  <2>4. shouldUseThreads' = shouldUseThreads /\ workerCount' = workerCount
    BY <2>2 DEF shouldUseThreads, workerCount
  <2>5. PoolTypeOK'
    BY <2>1, <2>2 DEF PoolInv, PoolTypeOK
  <2>6. StartedInOrder'
    BY <2>1, <2>2, <2>4 DEF PoolInv, PoolTypeOK, StartedInOrder, Ends
  <2>7. CountOfOwing' /\ CompleteAnswer'
    BY <2>2, <2>3, <2>4 DEF PoolInv, CountOfOwing, CompleteAnswer
  <2>8. HeardDelivered'
    BY <2>1, <2>2 DEF PoolInv, PoolTypeOK, HeardDelivered, Ends
  <2>9. QED
    BY <2>5, <2>6, <2>7, <2>8 DEF PoolInv
<1>8. ASSUME NEW t \in Tasks, MessageArrives(t) PROVE PoolInv'
  <2>1. t \in Owing /\ thread[t] \in {"ok", "bad"}
    BY <1>8 DEF MessageArrives, Owing, Ends
  <2>2. CASE thread[t] = "ok" /\ ~broken
    BY <1>8, <2>2, ResultArrivesInv
  <2>3. CASE thread[t] = "bad" \/ broken
    <3>1. /\ broken' = TRUE /\ thread' = [thread EXCEPT ![t] = "stopping"]
          /\ active' = active - 1 /\ answer' \in {answer, "fallback"}
          /\ UNCHANGED <<workers, big, threadless, next>>
          /\ results' = results \/ results' = results \cup {t}
      BY <1>8, <2>1, <2>3 DEF MessageArrives, Rejected, HeardFrom, poolEnv, PoolInv, PoolTypeOK
    <3>2. QED
      BY <2>1, <3>1, FailureInv
  <2>4. QED
    BY <2>1, <2>2, <2>3
<1>9. ASSUME NEW t \in Tasks, ErrorArrives(t) PROVE PoolInv'
  <2>1. t \in Owing
    BY <1>9 DEF ErrorArrives, Owing, Ends
  <2>2. /\ broken' = TRUE /\ thread' = [thread EXCEPT ![t] = "stopping"]
        /\ active' = active - 1 /\ answer' \in {answer, "fallback"}
        /\ UNCHANGED <<workers, big, threadless, next, results>>
    BY <1>9 DEF ErrorArrives, Rejected, HeardFrom, poolEnv
  <2>3. QED
    BY <2>1, <2>2, FailureInv
<1>10. ASSUME NEW t \in Tasks, ExitArrives(t) PROVE PoolInv'
  <2>1. /\ thread[t] \in {"stopping", "exit"} /\ thread' = [thread EXCEPT ![t] = "gone"]
        /\ UNCHANGED <<workers, big, threadless, next, results>>
    BY <1>10 DEF ExitArrives, poolEnv
  <2>2. shouldUseThreads' = shouldUseThreads /\ workerCount' = workerCount
    BY <2>1 DEF shouldUseThreads, workerCount
  <2>3. next > 0
    BY <2>1 DEF PoolInv, StartedInOrder, PoolTypeOK, Tasks
  <2>4. CASE Unexpected(t)
    <3>1. t \in Owing
      BY <2>1, <2>3, <2>4 DEF Unexpected, Owing, Ends, PoolInv, HeardDelivered
    <3>2. /\ broken' = TRUE /\ active' = active - 1 /\ answer' \in {answer, "fallback"}
      BY <1>10, <2>4 DEF ExitArrives, Rejected
    <3>3. QED
      BY <2>1, <3>1, <3>2, FailureInv
  <2>5. CASE ~Unexpected(t)
    <3>1. UNCHANGED <<broken, answer, active>>
      BY <1>10, <2>5 DEF ExitArrives
    <3>2. thread[t] = "exit" => broken
      BY <2>1, <2>3, <2>5 DEF Unexpected, PoolInv, HeardDelivered
    <3>3. PoolTypeOK' /\ StartedInOrder' /\ CompleteAnswer'
      BY <2>1, <2>2, <3>1 DEF PoolInv, PoolTypeOK, StartedInOrder, CompleteAnswer
    <3>4. HeardDelivered'
      BY <2>1, <2>3, <2>5, <3>1, <3>2 DEF PoolInv, PoolTypeOK, HeardDelivered, Unexpected
    <3>5. CountOfOwing'
      <4>1. CASE thread[t] = "stopping"
        <5>1. Owing' = Owing
          BY <2>1, <4>1 DEF Owing, Ends, PoolInv, PoolTypeOK
        <5>2. QED
          BY <2>1, <2>2, <3>1, <5>1 DEF PoolInv, CountOfOwing
      <4>2. CASE thread[t] = "exit"
        <5>1. t \in Owing
          BY <4>2 DEF Owing, Ends
        <5>2. Owing' = Owing \ {t}
          <6>1. Owing' = {u \in Tasks : thread'[u] \in {"running"} \cup Ends}
            BY DEF Owing
          <6>2. QED
            BY <2>1, <5>1, <6>1, OwingDrops DEF PoolInv
        <5>3. Cardinality(Owing') = Cardinality(Owing) - 1 /\ active \in Nat
          <6>1. Cardinality(Owing \ {t}) = Cardinality(Owing) - 1
            BY <5>1, OwingIsFinite, FS_RemoveElement
          <6>2. active \in Nat
            BY PoolAssumption DEF PoolInv, PoolTypeOK
          <6>3. QED
            BY <5>2, <6>1, <6>2
        <5>4. Cardinality(Owing') <= active'
          BY <3>1, <5>3, OwingIsFinite DEF PoolInv, CountOfOwing
        <5>5. QED
          BY <3>1, <3>2, <4>2, <5>4 DEF CountOfOwing
      <4>3. QED
        BY <2>1, <4>1, <4>2
    <3>6. QED
      BY <3>3, <3>4, <3>5 DEF PoolInv
  <2>6. QED
    BY <2>4, <2>5
<1>11. QED
  BY <1>2, <1>3, <1>4, <1>5, <1>6, <1>7, <1>8, <1>9, <1>10 DEF PoolNext, PoolMain, PoolEvent

LEMMA PoolInvSays == PoolInv => PoolTypeOK /\ ActiveIsOutstanding /\ CompleteAnswer
<1> SUFFICES ASSUME PoolInv PROVE ActiveIsOutstanding
  BY DEF PoolInv
<1>1. next < PoolTasks /\ next > 0 => next \in 1..PoolTasks - 1
  BY PoolAssumption DEF PoolInv, PoolTypeOK
<1>2. QED
  BY <1>1 DEF PoolInv, CountOfOwing, ActiveIsOutstanding, Owing

-----------------------------------------------------------------------------
(* The active model.  A request that replaces the two files and has met      *)
(* nobody is alone with them, and with the model it copies, so that what it  *)
(* has written so far is there.                                              *)

Steps(kind) == IF kind = "train" THEN 1..2 ELSE 1..4

\* A request under way: what it is about, and how far it may be.
Request(q) ==
  /\ q.kind \in {"idle", "activate", "clear", "train", "done"}
  /\ q.run \in Runs \cup {"absent"}
  /\ q.kind \in {"activate", "train"} => q.run \in Runs
  /\ q.kind = "clear" => q.run = "absent"
  /\ Busy(q) => q.at \in Steps(q.kind)
  /\ q \in [kind : {"idle", "activate", "clear", "train", "done"},
            run : Runs \cup {"absent"}, at : 0..4]

\* Who has met nobody shares no file with anybody.
AloneUndisturbed ==
  \A p, o \in Posts :
    p # o /\ Busy(post[p]) /\ Busy(post[o]) /\ p \notin disturbed =>
      Touched(post[p]) \cap Touched(post[o]) = {}

\* How far an undisturbed activation or clearing has come.
Come(q) ==
  /\ q.kind = "activate" => /\ content[q.run] = q.run
                            /\ q.at = 2 => content["model"] = "torn"
                            /\ q.at \in {3, 4} => content["model"] = q.run
                            /\ q.at = 4 => content["meta"] = "torn"
  /\ q.kind = "clear" => /\ q.at = 2 => content["meta"] = "torn"
                         /\ q.at \in {3, 4} => content["meta"] = "cleared"
                         /\ q.at = 4 => content["model"] = "torn"

UndisturbedComes ==
  \A p \in Posts : Busy(post[p]) /\ p \notin disturbed => Come(post[p])

CopiesInv ==
  /\ FilesTyped
  /\ \A p \in Posts : Request(post[p])
  /\ AloneUndisturbed /\ UndisturbedComes /\ MetaNamesModel

\* What a request touches, by its kind.
LEMMA TouchedFacts ==
  ASSUME NEW q, Request(q)
  PROVE  /\ q.kind = "activate" => Touched(q) = {q.run, "model", "meta"}
         /\ q.kind = "clear" => Touched(q) = {"model", "meta"}
         /\ q.kind = "train" => Touched(q) = {q.run}
<1>1. /\ 1..Len(<<"model", "meta">>) = {1, 2} /\ 1..Len(<<"meta", "model">>) = {1, 2}
      /\ 1..Len(<<q.run>>) = {1}
  OBVIOUS
<1>2. CASE q.kind = "activate"
  <2>1. q.run # "absent" /\ Script(q.kind, q.run) = <<"model", "meta">>
    BY <1>2, ActiveAssumption DEF Request, Script
  <2>2. QED
    BY <1>1, <1>2, <2>1 DEF Touched
<1>3. CASE q.kind = "clear"
  <2>1. q.run = "absent" /\ Script(q.kind, q.run) = <<"meta", "model">>
    BY <1>3 DEF Request, Script
  <2>2. QED
    BY <1>1, <1>3, <2>1 DEF Touched
<1>4. CASE q.kind = "train"
  <2>1. q.run # "absent" /\ Script(q.kind, q.run) = <<q.run>>
    BY <1>4, ActiveAssumption DEF Request, Script
  <2>2. QED
    BY <1>1, <1>4, <2>1 DEF Touched
<1>5. QED
  BY <1>2, <1>3, <1>4

LEMMA CopiesInitInv == ActiveInit => CopiesInv
<1> SUFFICES ASSUME ActiveInit PROVE CopiesInv
  OBVIOUS
<1>1. FilesTyped
  BY DEF ActiveInit, FilesTyped, Idle
<1>2. \A p \in Posts : post[p] = [kind |-> "idle", run |-> "absent", at |-> 0]
  BY DEF ActiveInit, Idle
<1>3. \A p \in Posts : Request(post[p]) /\ ~Busy(post[p])
  BY <1>2 DEF Request, Busy
<1>4. content["model"] = "absent" /\ content["meta"] = "absent"
  BY DEF ActiveInit, Files
<1>5. QED
  BY <1>1, <1>3, <1>4 DEF CopiesInv, AloneUndisturbed, UndisturbedComes, MetaNamesModel

\* A request that goes on is about the same files.
LEMMA GoesOn ==
  ASSUME NEW q, Request(q), Busy(q), NEW n, n = [q EXCEPT !.at = q.at + 1],
         q.at + 1 \in Steps(q.kind)
  PROVE  /\ n.kind = q.kind /\ n.run = q.run /\ n.at = q.at + 1
         /\ Request(n) /\ Busy(n) /\ Touched(n) = Touched(q)
<1>1. n.kind = q.kind /\ n.run = q.run /\ n.at = q.at + 1
  BY DEF Request
<1>2. n \in [kind : {"idle", "activate", "clear", "train", "done"},
             run : Runs \cup {"absent"}, at : 0..4]
  BY DEF Request, Steps
<1>3. QED
  BY <1>1, <1>2 DEF Request, Busy, Touched

\* The file a request is at when it opens one.
LEMMA OpenShape ==
  ASSUME CopiesInv, NEW p \in Posts, OpenFile(p)
  PROVE  \E f \in Touched(post[p]) \cap Files :
           /\ content' = [content EXCEPT ![f] = "torn"]
           /\ post[p].at \in {1, 3} /\ post[p].at + 1 \in Steps(post[p].kind)
           /\ post[p].kind \in {"activate", "clear", "train"}
           /\ post[p].kind = "activate" => f = IF post[p].at = 1 THEN "model" ELSE "meta"
           /\ post[p].kind = "clear" => f = IF post[p].at = 1 THEN "meta" ELSE "model"
           /\ post[p].kind = "train" => f = post[p].run
<1> DEFINE q == post[p]
           s == Script(q.kind, q.run)
<1>1. /\ Request(q) /\ Busy(q) /\ q.at % 2 = 1
      /\ content' = [content EXCEPT ![s[(q.at + 1) \div 2]] = "torn"]
  BY DEF OpenFile, CopiesInv
<1>2. /\ q.kind \in {"activate", "clear", "train"}
      /\ q.at \in Steps(q.kind) /\ q.run \in Runs \cup {"absent"}
  BY <1>1 DEF Request, Busy
<1>3. /\ q.at \in {1, 3} /\ q.at + 1 \in Steps(q.kind) /\ (q.kind = "train" => q.at = 1)
      /\ (q.at + 1) \div 2 = IF q.at = 1 THEN 1 ELSE 2
  <2>1. q.at \in 1..4 /\ (q.kind = "train" => q.at \in 1..2)
    BY <1>2 DEF Steps
  <2>2. q.at \in {1, 2, 3, 4} /\ (q.kind = "train" => q.at \in {1, 2})
    BY <2>1
  <2>3. q.at # 2 /\ q.at # 4
    BY <1>1
  <2>4. QED
    BY <2>2, <2>3 DEF Steps
<1>4. CASE q.kind = "activate"
  <2>1. s = <<"model", "meta">> /\ Touched(q) = {q.run, "model", "meta"}
    BY <1>1, <1>4, TouchedFacts DEF Script
  <2>2. s[(q.at + 1) \div 2] = IF q.at = 1 THEN "model" ELSE "meta"
    BY <1>3, <2>1
  <2>3. QED
    BY <1>1, <1>3, <1>4, <2>1, <2>2 DEF Files
<1>5. CASE q.kind = "clear"
  <2>1. s = <<"meta", "model">> /\ Touched(q) = {"model", "meta"}
    BY <1>1, <1>5, TouchedFacts DEF Script
  <2>2. s[(q.at + 1) \div 2] = IF q.at = 1 THEN "meta" ELSE "model"
    BY <1>3, <2>1
  <2>3. QED
    BY <1>1, <1>3, <1>5, <2>1, <2>2 DEF Files
<1>6. CASE q.kind = "train"
  <2>1. s = <<q.run>> /\ Touched(q) = {q.run} /\ q.run \in Runs
    BY <1>1, <1>6, TouchedFacts DEF Script, Request
  <2>2. s[(q.at + 1) \div 2] = q.run
    BY <1>3, <1>6, <2>1
  <2>3. QED
    BY <1>1, <1>3, <1>6, <2>1, <2>2 DEF Files
<1>7. QED
  BY <1>2, <1>4, <1>5, <1>6

\* The file a request is at when it fills one, and what may be in it then.
LEMMA FillShape ==
  ASSUME CopiesInv, NEW p \in Posts, FillFile(p)
  PROVE  \E f \in Touched(post[p]) \cap Files, c \in Runs \cup {"absent", "torn", "cleared"} :
           /\ content' = [content EXCEPT ![f] = c]
           /\ post[p].at \in {2, 4} /\ post[p].at \in Steps(post[p].kind)
           /\ post[p].kind \in {"activate", "clear", "train"}
           /\ post[p].kind = "activate" =>
                /\ f = IF post[p].at = 2 THEN "model" ELSE "meta"
                /\ content[f] = "torn" =>
                     c = IF post[p].at = 2 THEN content[post[p].run] ELSE post[p].run
           /\ post[p].kind = "clear" =>
                /\ f = IF post[p].at = 2 THEN "meta" ELSE "model"
                /\ content[f] = "torn" => c = "cleared"
           /\ post[p].kind = "train" => f = post[p].run
           /\ LastStep(post[p]) = IF post[p].kind = "train" THEN 2 ELSE 4
<1> DEFINE q == post[p]
           s == Script(q.kind, q.run)
           f == s[q.at \div 2]
           v == Written(q.kind, q.run, f)
<1>1. Request(q) /\ Busy(q) /\ q.at % 2 = 0
  BY DEF FillFile, CopiesInv
<1>2. PICK c \in IF content[f] \in {"torn", v} THEN {v} ELSE {v, "torn"} :
        content' = [content EXCEPT ![f] = c]
  BY DEF FillFile
<1>3. /\ q.kind \in {"activate", "clear", "train"}
      /\ q.at \in Steps(q.kind) /\ q.run \in Runs \cup {"absent"}
  BY <1>1 DEF Request, Busy
<1>4. /\ q.at \in {2, 4} /\ (q.kind = "train" => q.at = 2)
      /\ q.at \div 2 = IF q.at = 2 THEN 1 ELSE 2
  <2>1. q.at \in 1..4 /\ (q.kind = "train" => q.at \in 1..2)
    BY <1>3 DEF Steps
  <2>2. q.at \in {1, 2, 3, 4} /\ (q.kind = "train" => q.at \in {1, 2})
    BY <2>1
  <2>3. q.at # 1 /\ q.at # 3
    BY <1>1
  <2>4. QED
    BY <2>2, <2>3
<1>5. c \in {v, "torn"} /\ (content[f] = "torn" => c = v)
  BY <1>2
<1>6. \A r \in Files : content[r] \in Runs \cup {"absent", "torn", "cleared"}
  BY DEF CopiesInv, FilesTyped
<1>7. CASE q.kind = "activate"
  <2>1. /\ s = <<"model", "meta">> /\ Touched(q) = {q.run, "model", "meta"} /\ q.run \in Runs
        /\ LastStep(q) = 4
    BY <1>1, <1>7, TouchedFacts DEF Script, Request, LastStep
  <2>2. f = IF q.at = 2 THEN "model" ELSE "meta"
    BY <1>4, <2>1
  <2>3. v = IF q.at = 2 THEN content[q.run] ELSE q.run
    BY <1>4, <1>7, <2>2 DEF Written
  <2>4. f \in Touched(q) \cap Files /\ v \in Runs \cup {"absent", "torn", "cleared"}
    BY <1>6, <2>1, <2>2, <2>3 DEF Files
  <2> HIDE DEF f, v, s
  <2>5. QED
    BY <1>2, <1>3, <1>4, <1>5, <1>7, <2>1, <2>2, <2>3, <2>4
<1>8. CASE q.kind = "clear"
  <2>1. /\ s = <<"meta", "model">> /\ Touched(q) = {"model", "meta"} /\ LastStep(q) = 4
    BY <1>1, <1>8, TouchedFacts DEF Script, LastStep
  <2>2. f = IF q.at = 2 THEN "meta" ELSE "model"
    BY <1>4, <2>1
  <2>3. v = "cleared" /\ f \in Touched(q) \cap Files
    BY <1>8, <2>1, <2>2 DEF Written, Files
  <2> HIDE DEF f, v, s
  <2>4. QED
    BY <1>2, <1>3, <1>4, <1>5, <1>8, <2>1, <2>2, <2>3
<1>9. CASE q.kind = "train"
  <2>1. /\ s = <<q.run>> /\ Touched(q) = {q.run} /\ q.run \in Runs /\ LastStep(q) = 2
    BY <1>1, <1>9, TouchedFacts DEF Script, Request, LastStep
  <2>2. f = q.run /\ v = q.run
    BY <1>4, <1>9, <2>1 DEF Written
  <2>3. f \in Touched(q) \cap Files
    BY <2>1, <2>2 DEF Files
  <2> HIDE DEF f, v, s
  <2>4. QED
    BY <1>2, <1>3, <1>4, <1>5, <1>9, <2>1, <2>2, <2>3
<1>10. QED
  BY <1>3, <1>7, <1>8, <1>9

\* A write of one request to one file: what the others that have met nobody have
\* come to stays.
LEMMA OthersKept ==
  ASSUME CopiesInv, NEW p \in Posts, Busy(post[p]), NEW f \in Touched(post[p]), NEW c,
         content' = [content EXCEPT ![f] = c],
         NEW o \in Posts, o # p, Busy(post[o]), o \notin disturbed, Come(post[o]),
         post'[o] = post[o]
  PROVE  Come(post[o])'
<1> DEFINE q == post[o]
<1>1. Request(q) /\ f \notin Touched(q)
  BY DEF CopiesInv, AloneUndisturbed
<1>2. \A g \in Touched(q) : content'[g] = content[g]
  BY <1>1 DEF CopiesInv, FilesTyped
<1>3. q.kind = "activate" => {q.run, "model", "meta"} \subseteq Touched(q)
  BY <1>1, TouchedFacts
<1>4. q.kind = "clear" => {"model", "meta"} \subseteq Touched(q)
  BY <1>1, TouchedFacts
<1>5. QED
  BY <1>2, <1>3, <1>4 DEF Come

LEMMA OpenInv == \A p \in Posts : CopiesInv /\ OpenFile(p) => CopiesInv'
<1> SUFFICES ASSUME NEW p \in Posts, CopiesInv, OpenFile(p) PROVE CopiesInv'
  OBVIOUS
<1> DEFINE q == post[p]
<1>1. /\ Request(q) /\ Busy(q) /\ q.at \in Nat
      /\ post' = [post EXCEPT ![p] = [q EXCEPT !.at = q.at + 1]]
      /\ UNCHANGED <<disturbed, sound>>
  <2>1. post' = [post EXCEPT ![p].at = @ + 1]
    BY DEF OpenFile
  <2>2. post' = [post EXCEPT ![p] = [q EXCEPT !.at = q.at + 1]]
    BY <2>1 DEF CopiesInv, FilesTyped
  <2>3. QED
    BY <2>2 DEF OpenFile, CopiesInv, Request
<1>2. PICK f \in Touched(q) \cap Files :
           /\ content' = [content EXCEPT ![f] = "torn"]
           /\ q.at \in {1, 3} /\ q.at + 1 \in Steps(q.kind)
           /\ q.kind \in {"activate", "clear", "train"}
           /\ q.kind = "activate" => f = IF q.at = 1 THEN "model" ELSE "meta"
           /\ q.kind = "clear" => f = IF q.at = 1 THEN "meta" ELSE "model"
           /\ q.kind = "train" => f = q.run
  BY OpenShape
<1>3. /\ post'[p].kind = q.kind /\ post'[p].run = q.run /\ post'[p].at = q.at + 1
      /\ Request(post'[p]) /\ Busy(post'[p]) /\ Touched(post'[p]) = Touched(q)
  <2>1. post'[p] = [q EXCEPT !.at = q.at + 1]
    BY <1>1 DEF CopiesInv, FilesTyped
  <2>2. QED
    BY <1>1, <1>2, <2>1, GoesOn
<1>4. \A o \in Posts : o # p => post'[o] = post[o]
  BY <1>1
<1>5. \A o \in Posts : Request(post'[o])
  BY <1>3, <1>4 DEF CopiesInv
<1>6. FilesTyped'
  BY <1>1, <1>2, <1>3 DEF CopiesInv, FilesTyped, Request
<1>7. AloneUndisturbed'
  BY <1>1, <1>3, <1>4 DEF CopiesInv, AloneUndisturbed
<1>8. UndisturbedComes'
  <2> SUFFICES ASSUME NEW o \in Posts, Busy(post'[o]), o \notin disturbed
               PROVE  Come(post[o])'
    BY <1>1 DEF UndisturbedComes
  <2>1. CASE o # p
    BY <1>1, <1>2, <1>4, <2>1, OthersKept DEF CopiesInv, UndisturbedComes
  <2>2. CASE o = p
    <3>1. Come(q) /\ (q.kind = "activate" => q.run \in Runs)
      BY <1>1, <2>2 DEF CopiesInv, UndisturbedComes, Request
    <3>2. q.run \in Runs => q.run # "model" /\ q.run # "meta" /\ q.run \in Files
      BY ActiveAssumption DEF Files
    <3>3. \A g \in Files : content'[g] = IF g = f THEN "torn" ELSE content[g]
      BY <1>2 DEF CopiesInv, FilesTyped
    <3>4. "model" \in Files /\ "meta" \in Files
      BY DEF Files
    <3>5. CASE q.kind = "activate"
      BY <1>2, <1>3, <2>2, <3>1, <3>2, <3>3, <3>4, <3>5 DEF Come
    <3>6. CASE q.kind = "clear"
      BY <1>2, <1>3, <2>2, <3>1, <3>2, <3>3, <3>4, <3>6 DEF Come
    <3>7. CASE q.kind = "train"
      BY <1>3, <2>2, <3>7 DEF Come
    <3>8. QED
      BY <1>2, <3>5, <3>6, <3>7
  <2>3. QED
    BY <2>1, <2>2
<1>9. MetaNamesModel'
  <2>1. CASE q.kind \in {"activate", "clear"}
    BY <1>3, <2>1 DEF MetaNamesModel, Replaces
  <2>2. CASE q.kind = "train"
    <3>1. f # "model" /\ f # "meta"
      BY <1>1, <1>2, <2>2, ActiveAssumption DEF Request
    <3>2. content'["model"] = content["model"] /\ content'["meta"] = content["meta"]
      BY <1>2, <3>1 DEF CopiesInv, FilesTyped, Files
    <3>3. (\A o \in Posts : Busy(post'[o]) => ~Replaces(post'[o])) =>
            \A o \in Posts : Busy(post[o]) => ~Replaces(post[o])
      BY <1>3, <1>4 DEF Replaces
    <3>4. QED
      BY <1>1, <3>2, <3>3 DEF CopiesInv, MetaNamesModel
  <2>3. QED
    BY <1>2, <2>1, <2>2
<1>10. QED
  BY <1>5, <1>6, <1>7, <1>8, <1>9 DEF CopiesInv

\* A request that has come to its end is about nothing any more.
LEMMA DoneFacts ==
  Request(Done) /\ ~Busy(Done) /\
  Done \in [kind : {"idle", "activate", "clear", "train", "done"},
            run : Runs \cup {"absent"}, at : 0..4]
<1>1. Done = [kind |-> "done", run |-> "absent", at |-> 0]
  BY DEF Done, Idle
<1>2. QED
  BY <1>1 DEF Request, Busy

LEMMA FillInv == \A p \in Posts : CopiesInv /\ FillFile(p) => CopiesInv'
<1> SUFFICES ASSUME NEW p \in Posts, CopiesInv, FillFile(p) PROVE CopiesInv'
  OBVIOUS
<1> DEFINE q == post[p]
<1>1. Request(q) /\ Busy(q) /\ q.at \in Nat
  BY DEF FillFile, CopiesInv, Request
<1>2. PICK f \in Touched(q) \cap Files, c \in Runs \cup {"absent", "torn", "cleared"} :
           /\ content' = [content EXCEPT ![f] = c]
           /\ q.at \in {2, 4} /\ q.at \in Steps(q.kind)
           /\ q.kind \in {"activate", "clear", "train"}
           /\ q.kind = "activate" =>
                /\ f = IF q.at = 2 THEN "model" ELSE "meta"
                /\ content[f] = "torn" => c = IF q.at = 2 THEN content[q.run] ELSE q.run
           /\ q.kind = "clear" =>
                /\ f = IF q.at = 2 THEN "meta" ELSE "model"
                /\ content[f] = "torn" => c = "cleared"
           /\ q.kind = "train" => f = q.run
           /\ LastStep(q) = IF q.kind = "train" THEN 2 ELSE 4
  BY FillShape
<1>3. q.run \in Runs => q.run # "model" /\ q.run # "meta" /\ q.run # "torn"
  BY ActiveAssumption
<1>4. \A g \in Files : content'[g] = IF g = f THEN c ELSE content[g]
  BY <1>2 DEF CopiesInv, FilesTyped
<1>5. "model" \in Files /\ "meta" \in Files /\ Runs \subseteq Files
  BY DEF Files
<1>6. content' \in [Files -> Runs \cup {"absent", "torn", "cleared"}]
  BY <1>2 DEF CopiesInv, FilesTyped
<1>7. CASE q.at # LastStep(q)
  <2>1. /\ UNCHANGED <<disturbed, sound>>
        /\ post' = [post EXCEPT ![p] = [q EXCEPT !.at = q.at + 1]]
    <3>1. post' = [post EXCEPT ![p].at = @ + 1] /\ UNCHANGED <<disturbed, sound>>
      BY <1>7 DEF FillFile
    <3>2. QED
      BY <3>1 DEF CopiesInv, FilesTyped
  <2>2. q.at = 2 /\ q.kind \in {"activate", "clear"} /\ q.at + 1 \in Steps(q.kind)
    BY <1>2, <1>7 DEF Steps
  <2>3. /\ post'[p].kind = q.kind /\ post'[p].run = q.run /\ post'[p].at = 3
        /\ Request(post'[p]) /\ Busy(post'[p]) /\ Touched(post'[p]) = Touched(q)
    <3>1. post'[p] = [q EXCEPT !.at = q.at + 1]
      BY <2>1 DEF CopiesInv, FilesTyped
    <3>2. QED
      BY <1>1, <2>2, <3>1, GoesOn
  <2>4. \A o \in Posts : o # p => post'[o] = post[o]
    BY <2>1
  <2>5. \A o \in Posts : Request(post'[o])
    BY <2>3, <2>4 DEF CopiesInv
  <2>6. FilesTyped'
    BY <1>1, <1>6, <2>1, <2>3 DEF CopiesInv, FilesTyped, Request
  <2>7. AloneUndisturbed'
    <3> SUFFICES ASSUME NEW o \in Posts, NEW u \in Posts, o # u, Busy(post'[o]), Busy(post'[u]),
                        o \notin disturbed
                 PROVE  Touched(post'[o]) \cap Touched(post'[u]) = {}
      BY <2>1 DEF AloneUndisturbed
    <3>1. \A x \in Posts : /\ Busy(post'[x]) => Busy(post[x])
                           /\ Touched(post'[x]) = Touched(post[x])
      BY <1>1, <2>3, <2>4
    <3>2. QED
      BY <3>1 DEF CopiesInv, AloneUndisturbed
  <2>8. UndisturbedComes'
    <3> SUFFICES ASSUME NEW o \in Posts, Busy(post'[o]), o \notin disturbed
                 PROVE  Come(post[o])'
      BY <2>1 DEF UndisturbedComes
    <3>1. CASE o # p
      BY <1>1, <1>2, <2>4, <3>1, OthersKept DEF CopiesInv, UndisturbedComes
    <3>2. CASE o = p
      <4>1. Come(q) /\ (q.kind = "activate" => q.run \in Runs)
        BY <1>1, <3>2 DEF CopiesInv, UndisturbedComes, Request
      <4>2. CASE q.kind = "activate"
        BY <1>2, <1>3, <1>4, <1>5, <2>2, <2>3, <3>2, <4>1, <4>2 DEF Come
      <4>3. CASE q.kind = "clear"
        BY <1>2, <1>4, <1>5, <2>2, <2>3, <3>2, <4>1, <4>3 DEF Come
      <4>4. QED
        BY <2>2, <4>2, <4>3
    <3>3. QED
      BY <3>1, <3>2
  <2>9. MetaNamesModel'
    BY <2>2, <2>3 DEF MetaNamesModel, Replaces
  <2>10. QED
    BY <2>5, <2>6, <2>7, <2>8, <2>9 DEF CopiesInv
<1>8. CASE q.at = LastStep(q)
  <2>1. /\ post' = [post EXCEPT ![p] = Done] /\ disturbed' = disturbed \ {p}
        /\ sound' = IF Replaces(q) THEN p \notin disturbed ELSE sound
    BY <1>8 DEF FillFile
  <2>2. /\ post'[p] = Done /\ \A o \in Posts : o # p => post'[o] = post[o]
    BY <2>1 DEF CopiesInv, FilesTyped
  <2>3. \A o \in Posts : Request(post'[o])
    BY <2>2, DoneFacts DEF CopiesInv
  <2>4. FilesTyped'
    <3>1. post' \in [Posts -> [kind : {"idle", "activate", "clear", "train", "done"},
                               run : Runs \cup {"absent"}, at : 0..4]]
      BY <2>1, DoneFacts DEF CopiesInv, FilesTyped
    <3>2. disturbed' \subseteq Posts /\ sound' \in BOOLEAN
      BY <2>1 DEF CopiesInv, FilesTyped
    <3>3. QED
      BY <1>1, <1>6, <3>1, <3>2 DEF CopiesInv, FilesTyped
  <2>5. AloneUndisturbed'
    BY <2>1, <2>2, DoneFacts DEF CopiesInv, AloneUndisturbed
  <2>6. UndisturbedComes'
    <3> SUFFICES ASSUME NEW o \in Posts, Busy(post'[o]), o \notin disturbed'
                 PROVE  Come(post[o])'
      BY DEF UndisturbedComes
    <3>1. o # p /\ post'[o] = post[o] /\ o \notin disturbed
      BY <2>1, <2>2, DoneFacts
    <3>2. QED
      BY <1>1, <1>2, <3>1, OthersKept DEF CopiesInv, UndisturbedComes
  <2>7. MetaNamesModel'
    <3>1. CASE q.kind = "train"
      <4>1. f # "model" /\ f # "meta"
        BY <1>1, <1>2, <1>3, <3>1 DEF Request
      <4>2. content'["model"] = content["model"] /\ content'["meta"] = content["meta"]
        BY <1>4, <1>5, <4>1
      <4>3. (\A o \in Posts : Busy(post'[o]) => ~Replaces(post'[o])) =>
              \A o \in Posts : Busy(post[o]) => ~Replaces(post[o])
        BY <2>2, <3>1 DEF Replaces
      <4>4. sound' = sound
        BY <2>1, <3>1 DEF Replaces
      <4>5. QED
        BY <4>2, <4>3, <4>4 DEF CopiesInv, MetaNamesModel
    <3>2. CASE q.kind \in {"activate", "clear"} /\ p \notin disturbed
      <4>1. Come(q) /\ q.at = 4 /\ (q.kind = "activate" => q.run \in Runs)
        BY <1>1, <1>2, <1>8, <3>2 DEF CopiesInv, UndisturbedComes, Request
      <4>2. content'["model"] = content'["meta"] /\ content'["model"] # "torn"
        BY <1>2, <1>3, <1>4, <1>5, <3>2, <4>1 DEF Come
      <4>3. QED
        BY <4>2 DEF MetaNamesModel
    <3>3. CASE q.kind \in {"activate", "clear"} /\ p \in disturbed
      <4>1. sound' = FALSE
        BY <2>1, <3>3 DEF Replaces
      <4>2. QED
        BY <4>1 DEF MetaNamesModel
    <3>4. QED
      BY <1>2, <3>1, <3>2, <3>3
  <2>8. QED
    BY <2>3, <2>4, <2>5, <2>6, <2>7 DEF CopiesInv
<1>9. QED
  BY <1>7, <1>8

LEMMA BreakOffInv == \A p \in Posts : CopiesInv /\ PostBreaksOff(p) => CopiesInv'
<1> SUFFICES ASSUME NEW p \in Posts, CopiesInv, PostBreaksOff(p) PROVE CopiesInv'
  OBVIOUS
<1>1. /\ post' = [post EXCEPT ![p] = Done] /\ disturbed' = disturbed \ {p}
      /\ sound' = (sound /\ ~Replaces(post[p]))
      /\ UNCHANGED <<content>>
  BY DEF PostBreaksOff
<1>2. post'[p] = Done /\ \A o \in Posts : o # p => post'[o] = post[o]
  BY <1>1 DEF CopiesInv, FilesTyped
<1>3. \A o \in Posts : Request(post'[o])
  BY <1>2, DoneFacts DEF CopiesInv
<1>4. FilesTyped'
  <2>1. post' \in [Posts -> [kind : {"idle", "activate", "clear", "train", "done"},
                             run : Runs \cup {"absent"}, at : 0..4]]
    BY <1>1, DoneFacts DEF CopiesInv, FilesTyped
  <2>2. disturbed' \subseteq Posts /\ sound' \in BOOLEAN
    BY <1>1 DEF CopiesInv, FilesTyped, Replaces
  <2>3. QED
    BY <1>1, <2>1, <2>2 DEF CopiesInv, FilesTyped
<1>5. AloneUndisturbed'
  BY <1>1, <1>2, DoneFacts DEF CopiesInv, AloneUndisturbed
<1>6. UndisturbedComes'
  BY <1>1, <1>2, DoneFacts DEF CopiesInv, UndisturbedComes, Come
<1>7. MetaNamesModel'
  <2>1. sound' => /\ sound /\ ~Replaces(post[p])
    BY <1>1
  <2>2. sound' /\ (\A o \in Posts : Busy(post'[o]) => ~Replaces(post'[o])) =>
          \A o \in Posts : Busy(post[o]) => ~Replaces(post[o])
    BY <1>2, <2>1
  <2>3. QED
    BY <1>1, <2>1, <2>2 DEF CopiesInv, MetaNamesModel
<1>8. QED
  BY <1>3, <1>4, <1>5, <1>6, <1>7 DEF CopiesInv

LEMMA BeginInv == \A p \in Posts : CopiesInv /\ Begin(p) => CopiesInv'
<1> SUFFICES ASSUME NEW p \in Posts, CopiesInv, Begin(p) PROVE CopiesInv'
  OBVIOUS
<1>1. PICK kind \in {"activate", "clear", "train"}, r \in Runs :
        LET q == [kind |-> kind, run |-> IF kind = "clear" THEN "absent" ELSE r, at |-> 1] IN
        /\ kind = "activate" => content[r] = r
        /\ post' = [post EXCEPT ![p] = q]
        /\ disturbed' = disturbed \cup Meets(q) \cup (IF Meets(q) = {} THEN {} ELSE {p})
  BY DEF Begin
<1> DEFINE q == [kind |-> kind, run |-> IF kind = "clear" THEN "absent" ELSE r, at |-> 1]
<1>2. /\ q.kind = kind /\ q.run = (IF kind = "clear" THEN "absent" ELSE r) /\ q.at = 1
      /\ q \in [kind : {"idle", "activate", "clear", "train", "done"},
                run : Runs \cup {"absent"}, at : 0..4]
  OBVIOUS
<1>3. /\ kind = "activate" => content[q.run] = q.run
      /\ post' = [post EXCEPT ![p] = q]
      /\ disturbed' = disturbed \cup Meets(q) \cup (IF Meets(q) = {} THEN {} ELSE {p})
  BY <1>1, <1>2
<1> HIDE DEF q
<1>4. post[p] = Idle
      /\ UNCHANGED <<content, sound>>
  BY DEF Begin
<1>5. ~Busy(post[p])
  BY <1>4 DEF Busy, Idle
<1>6. Request(q) /\ Busy(q)
  BY <1>2 DEF Request, Busy, Steps
<1>7. post'[p] = q /\ \A o \in Posts : o # p => post'[o] = post[o]
  BY <1>3 DEF CopiesInv, FilesTyped
<1>8. \A o \in Posts : Request(post'[o])
  BY <1>6, <1>7 DEF CopiesInv
<1>9. FilesTyped'
  <2>1. post' \in [Posts -> [kind : {"idle", "activate", "clear", "train", "done"},
                             run : Runs \cup {"absent"}, at : 0..4]]
    BY <1>2, <1>3 DEF CopiesInv, FilesTyped
  <2>2. disturbed' \subseteq Posts
    BY <1>3 DEF CopiesInv, FilesTyped, Meets
  <2>3. QED
    BY <1>4, <2>1, <2>2 DEF CopiesInv, FilesTyped
<1>10. AloneUndisturbed'
  <2> SUFFICES ASSUME NEW o \in Posts, NEW u \in Posts, o # u, Busy(post'[o]), Busy(post'[u]),
                      o \notin disturbed'
               PROVE  Touched(post'[o]) \cap Touched(post'[u]) = {}
    BY DEF AloneUndisturbed
  <2>1. CASE o = p
    <3>1. u # p /\ post'[u] = post[u] /\ u \notin Meets(q)
      BY <1>3, <1>7, <2>1
    <3>2. QED
      BY <1>7, <2>1, <3>1 DEF Meets
  <2>2. CASE u = p
    <3>1. o # p /\ post'[o] = post[o] /\ o \notin Meets(q)
      BY <1>3, <1>7, <2>2
    <3>2. QED
      BY <1>7, <2>2, <3>1 DEF Meets
  <2>3. CASE o # p /\ u # p
    BY <1>3, <1>7, <2>3 DEF CopiesInv, AloneUndisturbed
  <2>4. QED
    BY <2>1, <2>2, <2>3
<1>11. UndisturbedComes'
  <2> SUFFICES ASSUME NEW o \in Posts, Busy(post'[o]), o \notin disturbed'
               PROVE  Come(post[o])'
    BY DEF UndisturbedComes
  <2>1. CASE o = p
    BY <1>2, <1>3, <1>4, <1>7, <2>1 DEF Come
  <2>2. CASE o # p
    BY <1>3, <1>4, <1>7, <2>2 DEF CopiesInv, UndisturbedComes, Come
  <2>3. QED
    BY <2>1, <2>2
<1>12. MetaNamesModel'
  <2>1. (\A o \in Posts : Busy(post'[o]) => ~Replaces(post'[o])) =>
          \A o \in Posts : Busy(post[o]) => ~Replaces(post[o])
    BY <1>5, <1>7
  <2>2. QED
    BY <1>4, <2>1 DEF CopiesInv, MetaNamesModel
<1>13. QED
  BY <1>8, <1>9, <1>10, <1>11, <1>12 DEF CopiesInv

LEMMA CopiesStepInv == CopiesInv /\ [ActiveNext]_avars => CopiesInv'
<1> SUFFICES ASSUME CopiesInv, [ActiveNext]_avars PROVE CopiesInv'
  OBVIOUS
<1>1. ASSUME UNCHANGED filevars PROVE CopiesInv'
  BY <1>1 DEF filevars, CopiesInv, FilesTyped, AloneUndisturbed, UndisturbedComes, Come,
              MetaNamesModel
<1>2. CASE UNCHANGED avars \/ Expire
  BY <1>1, <1>2 DEF avars, filevars, Expire
<1>3. ASSUME NEW k \in GetIds, ActiveGet(k) PROVE CopiesInv'
  BY <1>1, <1>3 DEF ActiveGet, AskModels, ReadModel, GetArrives
<1>4. QED
  BY <1>2, <1>3, BeginInv, OpenInv, FillInv, BreakOffInv DEF ActiveNext, ActivePost

\* What the panel knows.  Between its own POST and its answer nobody but that one is at
\* work and nobody asks; then nobody is at work at all, and whatever is asked, answered
\* or kept says what the files say.
PostedAlone ==
  /\ ownPost \in Posts /\ Busy(post[ownPost])
  /\ post[ownPost].kind \in {"activate", "clear"}
  /\ \A o \in Posts : o # ownPost => ~Busy(post[o])
  /\ \A k \in GetIds : gets[k] = NoGet
  /\ getCache = NoAnswer

Quiet ==
  /\ \A o \in Posts : ~Busy(post[o])
  /\ getCache \in {NoAnswer, ActiveFiles}
  /\ \A k \in GetIds : /\ gets[k].at = "read" => gets[k].meta = Parsed("meta")
                       /\ gets[k].at = "answered" => gets[k].answer = ActiveFiles
  /\ panelAt = "idle" => PanelIsCurrent

PanelInv ==
  /\ ViewTyped
  /\ \A k \in GetIds : gets[k].at = "answered" => gets[k].answer \in PairsOfRuns
  /\ alone => IF panelAt = "posted" THEN PostedAlone ELSE Quiet

ActiveInv == CopiesInv /\ PanelInv

LEMMA ParsedFacts ==
  /\ Parsed("meta") \in Runs \cup {"absent"} /\ Parsed("model") \in Runs \cup {"absent"}
  /\ ActiveFiles \in PairsOfRuns
  /\ \A a \in PairsOfRuns : AsShown(a) \in PairsOfRuns
BY DEF Parsed, ActiveFiles, PairsOfRuns, AsShown, NoModel

LEMMA PanelInitInv == ActiveInit => PanelInv
<1> SUFFICES ASSUME ActiveInit PROVE PanelInv
  OBVIOUS
<1>1. NoModel \in PairsOfRuns
  BY DEF NoModel, PairsOfRuns
<1>2. NoGet \in [at : {"none", "read", "answered"}, by : {"own", "panel", "other"},
                 meta : Runs \cup {"absent"}, answer : {NoAnswer} \cup PairsOfRuns]
  BY DEF NoGet
<1>3. gets = [k \in GetIds |-> NoGet] /\ \A k \in GetIds : gets[k].at = "none"
  BY DEF ActiveInit, NoGet
<1>4. QED
  BY <1>1, <1>2, <1>3 DEF ActiveInit, PanelInv, ViewTyped

\* The panel does not look at the kind of a request that goes on.
LEMMA PanelOnFile ==
  ASSUME CopiesInv, PanelInv, NEW p \in Posts, Busy(post[p]),
         NEW q, post' = [post EXCEPT ![p] = q], Busy(q), q.kind = post[p].kind,
         UNCHANGED viewvars
  PROVE  PanelInv'
<1>1. post'[p] = q /\ \A o \in Posts : o # p => post'[o] = post[o]
  BY DEF CopiesInv, FilesTyped
<1>2. ViewTyped' /\ \A k \in GetIds : gets'[k].at = "answered" => gets'[k].answer \in PairsOfRuns
  BY DEF PanelInv, ViewTyped, viewvars
<1>3. CASE alone
  <2>1. panelAt = "posted" /\ PostedAlone /\ p = ownPost
    BY <1>3 DEF PanelInv, Quiet, PostedAlone
  <2>2. PostedAlone'
    BY <1>1, <2>1 DEF PostedAlone, viewvars
  <2>3. QED
    BY <1>2, <2>1, <2>2 DEF PanelInv, viewvars
<1>4. CASE ~alone
  BY <1>2, <1>4 DEF PanelInv, viewvars
<1>5. QED
  BY <1>3, <1>4

LEMMA PanelBegins == \A p \in Posts : CopiesInv /\ PanelInv /\ Begin(p) => PanelInv'
<1> SUFFICES ASSUME NEW p \in Posts, CopiesInv, PanelInv, Begin(p) PROVE PanelInv'
  OBVIOUS
<1>1. PICK kind \in {"activate", "clear", "train"}, r \in Runs :
        /\ post' = [post EXCEPT ![p] =
             [kind |-> kind, run |-> IF kind = "clear" THEN "absent" ELSE r, at |-> 1]]
        /\ BeginOwn(p, kind) \/ BeginOther
  BY DEF Begin
<1>2. /\ post'[p].kind = kind /\ Busy(post'[p])
      /\ \A o \in Posts : o # p => post'[o] = post[o]
  BY <1>1 DEF CopiesInv, FilesTyped, Busy
<1>3. CASE BeginOther
  BY <1>3 DEF BeginOther, Dropped, PanelInv, ViewTyped
<1>4. CASE BeginOwn(p, kind)
  <2>1. /\ kind # "train" /\ panelAt' = "posted" /\ ownPost' = p /\ getCache' = NoAnswer
        /\ UNCHANGED <<gets, shown>>
        /\ alone' = ((\A o \in Posts : ~Busy(post[o])) /\ \A k \in GetIds : gets[k] = NoGet)
    BY <1>4 DEF BeginOwn, Dropped
  <2>2. alone' => PostedAlone'
    BY <1>2, <2>1 DEF PostedAlone
  <2>3. ViewTyped'
    BY <2>1 DEF PanelInv, ViewTyped
  <2>4. QED
    BY <2>1, <2>2, <2>3 DEF PanelInv
<1>5. QED
  BY <1>1, <1>3, <1>4

\* The end of a request, when it has been answered well and when it has not.
LEMMA PanelAnswered ==
  ASSUME CopiesInv, PanelInv, NEW p \in Posts, Busy(post[p]), Request(post[p]),
         post' = [post EXCEPT ![p] = Done],
         OwnAnswered(p) \/ OwnFailed(p)
  PROVE  PanelInv'
<1>1. post'[p] = Done /\ ~Busy(post'[p]) /\ \A o \in Posts : o # p => post'[o] = post[o]
  BY DoneFacts DEF CopiesInv, FilesTyped
<1>2. UNCHANGED <<getCache, gets, ownPost>>
  BY DEF OwnAnswered, OwnFailed, viewvars
<1>3. CASE panelAt = "posted" /\ p = ownPost /\ OwnAnswered(p)
  <2>1. /\ panelAt' = "to ask" /\ UNCHANGED alone
        /\ shown' = IF post[p].kind = "activate" THEN <<post[p].run, post[p].run>> ELSE NoModel
    BY <1>3 DEF OwnAnswered
  <2>2. shown' \in PairsOfRuns
    BY <2>1 DEF Request, PairsOfRuns, NoModel
  <2>3. alone => Quiet'
    <3> SUFFICES ASSUME alone PROVE Quiet'
      OBVIOUS
    <3>1. PostedAlone
      BY <1>3 DEF PanelInv
    <3>2. \A k \in GetIds : gets'[k].at = "none"
      BY <1>2, <3>1 DEF PostedAlone, NoGet
    <3>3. QED
      BY <1>1, <1>2, <1>3, <2>1, <3>1, <3>2 DEF Quiet, PostedAlone
  <2>4. ViewTyped'
    BY <1>2, <2>1, <2>2 DEF PanelInv, ViewTyped
  <2>5. QED
    BY <1>2, <2>1, <2>3, <2>4 DEF PanelInv
<1>4. CASE panelAt = "posted" /\ p = ownPost /\ OwnFailed(p)
  BY <1>4 DEF OwnFailed, PanelInv, ViewTyped
<1>5. CASE ~(panelAt = "posted" /\ p = ownPost)
  <2>1. UNCHANGED viewvars /\ ~alone
    BY <1>5 DEF OwnAnswered, OwnFailed, PanelInv, PostedAlone, Quiet
  <2>2. QED
    BY <2>1 DEF viewvars, PanelInv, ViewTyped
<1>6. QED
  BY <1>3, <1>4, <1>5

LEMMA PanelPosts == \A p \in Posts : CopiesInv /\ PanelInv /\ ActivePost(p) => PanelInv'
<1> SUFFICES ASSUME NEW p \in Posts, CopiesInv, PanelInv, ActivePost(p) PROVE PanelInv'
  OBVIOUS
<1> DEFINE q == [post[p] EXCEPT !.at = post[p].at + 1]
<1>1. Request(post[p]) /\ (Busy(post[p]) => Busy(q)) /\ q.kind = post[p].kind
  BY DEF CopiesInv, Request, Busy
<1>2. ASSUME post' = [post EXCEPT ![p].at = @ + 1]
      PROVE  post' = [post EXCEPT ![p] = q]
  BY <1>2 DEF CopiesInv, FilesTyped
<1> HIDE DEF q
<1>3. CASE OpenFile(p)
  <2>1. post' = [post EXCEPT ![p].at = @ + 1] /\ Busy(post[p]) /\ UNCHANGED viewvars
    BY <1>3 DEF OpenFile, viewvars
  <2>2. QED
    BY <1>1, <1>2, <2>1, PanelOnFile
<1>4. CASE FillFile(p)
  <2>1. Busy(post[p])
    BY <1>4 DEF FillFile
  <2>2. \/ post' = [post EXCEPT ![p] = Done] /\ OwnAnswered(p)
        \/ post' = [post EXCEPT ![p].at = @ + 1] /\ UNCHANGED viewvars
    BY <1>4 DEF FillFile, viewvars
  <2>3. QED
    BY <1>1, <1>2, <2>1, <2>2, PanelOnFile, PanelAnswered
<1>5. CASE PostBreaksOff(p)
  <2>1. Busy(post[p]) /\ post' = [post EXCEPT ![p] = Done] /\ OwnFailed(p)
    BY <1>5 DEF PostBreaksOff
  <2>2. QED
    BY <1>1, <2>1, PanelAnswered
<1>6. QED
  BY <1>3, <1>4, <1>5, PanelBegins DEF ActivePost

LEMMA PanelGets == \A k \in GetIds : CopiesInv /\ PanelInv /\ ActiveGet(k) => PanelInv'
<1> SUFFICES ASSUME NEW k \in GetIds, CopiesInv, PanelInv, ActiveGet(k) PROVE PanelInv'
  OBVIOUS
<1> DEFINE Typed == [at : {"none", "read", "answered"}, by : {"own", "panel", "other"},
                     meta : Runs \cup {"absent"}, answer : {NoAnswer} \cup PairsOfRuns]
<1>1. gets \in [GetIds -> Typed] /\ NoGet \in Typed
  BY DEF PanelInv, ViewTyped, NoGet
<1>2. ASSUME NEW g \in Typed, gets' = [gets EXCEPT ![k] = g], UNCHANGED filevars,
             g.at = "answered" => g.answer \in PairsOfRuns,
             getCache' \in {NoAnswer} \cup PairsOfRuns,
             panelAt' \in {"idle", "posted", "to ask", "asked"}, UNCHANGED ownPost,
             alone' \in BOOLEAN, shown' \in PairsOfRuns,
             alone' => /\ alone /\ panelAt # "posted" /\ panelAt' # "posted"
                       /\ getCache' \in {NoAnswer, ActiveFiles}
                       /\ g.at = "read" => g.meta = Parsed("meta")
                       /\ g.at = "answered" => g.answer = ActiveFiles
                       /\ panelAt' = "idle" => shown' = AsShown(ActiveFiles)
      PROVE  PanelInv'
  <2>1. \A i \in GetIds : gets'[i] = IF i = k THEN g ELSE gets[i]
    BY <1>1, <1>2
  <2>2. ViewTyped'
    BY <1>1, <1>2 DEF PanelInv, ViewTyped
  <2>3. UNCHANGED <<content, post>> /\ ActiveFiles' = ActiveFiles /\ Parsed("meta")' = Parsed("meta")
    BY <1>2 DEF filevars, ActiveFiles, Parsed
  <2>4. alone' => Quiet'
    <3> SUFFICES ASSUME alone' PROVE Quiet'
      OBVIOUS
    <3>1. Quiet
      BY <1>2 DEF PanelInv
    <3>2. \A o \in Posts : ~Busy(post'[o])
      BY <2>3, <3>1 DEF Quiet
    <3>3. getCache' \in {NoAnswer, ActiveFiles'}
      BY <1>2, <2>3
    <3>4. ASSUME NEW i \in GetIds
          PROVE  /\ gets'[i].at = "read" => gets'[i].meta = Parsed("meta")'
                 /\ gets'[i].at = "answered" => gets'[i].answer = ActiveFiles'
      <4>1. CASE i = k
        BY <1>2, <2>1, <2>3, <4>1
      <4>2. CASE i # k
        BY <2>1, <2>3, <3>1, <4>2 DEF Quiet
      <4>3. QED
        BY <4>1, <4>2
    <3>5. panelAt' = "idle" => PanelIsCurrent'
      <4>1. shown' = AsShown(ActiveFiles) => PanelIsCurrent'
        BY <2>3 DEF PanelIsCurrent, AsShown
      <4>2. QED
        BY <1>2, <4>1
    <3>6. QED
      BY <3>2, <3>3, <3>4, <3>5 DEF Quiet
  <2>5. QED
    BY <1>2, <2>1, <2>2, <2>4 DEF PanelInv
<1>3. ASSUME NEW by \in {"own", "panel", "other"}, AskModels(k, by) PROVE PanelInv'
  <2> DEFINE g == IF getCache = NoAnswer
                  THEN [at |-> "read", by |-> by, meta |-> Parsed("meta"), answer |-> NoAnswer]
                  ELSE [at |-> "answered", by |-> by, meta |-> "absent", answer |-> getCache]
  <2>1. /\ gets' = [gets EXCEPT ![k] = g] /\ UNCHANGED <<filevars, getCache, ownPost, shown>>
        /\ panelAt' = (IF by = "own" THEN "asked" ELSE panelAt)
        /\ alone' = (alone /\ panelAt # "posted")
    BY <1>3 DEF AskModels
  <2>2. /\ g \in Typed /\ (g.at = "answered" => g.answer = getCache /\ getCache # NoAnswer)
        /\ g.at = "read" => g.meta = Parsed("meta")
    BY ParsedFacts DEF PanelInv, ViewTyped
  <2> HIDE DEF g, Typed
  <2>3. getCache \in {NoAnswer} \cup PairsOfRuns /\ shown \in PairsOfRuns /\ alone \in BOOLEAN
        /\ panelAt \in {"idle", "posted", "to ask", "asked"}
    BY DEF PanelInv, ViewTyped
  <2>4. alone' => Quiet
    BY <2>1 DEF PanelInv
  <2>5. QED
    BY <1>2, <2>1, <2>2, <2>3, <2>4 DEF Quiet, PanelIsCurrent
<1>4. CASE ReadModel(k)
  <2> DEFINE a == <<gets[k].meta, Parsed("model")>>
             g == IF gets[k].by = "other" THEN NoGet
                  ELSE [at |-> "answered", by |-> gets[k].by, meta |-> "absent", answer |-> a]
  <2>1. /\ gets[k].at = "read" /\ getCache' = a /\ gets' = [gets EXCEPT ![k] = g]
        /\ UNCHANGED <<filevars, panelAt, ownPost, alone, shown>>
    BY <1>4 DEF ReadModel
  <2>2. a \in PairsOfRuns /\ a # NoAnswer
    BY <1>1, ParsedFacts DEF PairsOfRuns, NoAnswer
  <2>3. /\ g \in Typed /\ g.at # "read" /\ (g.at = "answered" => g.answer = a)
    BY <1>1, <2>2 DEF NoGet
  <2>4. alone => panelAt # "posted" /\ Quiet
    BY <2>1 DEF PanelInv, PostedAlone, NoGet
  <2>5. alone => a = ActiveFiles
    BY <2>1, <2>4 DEF Quiet, ActiveFiles
  <2> HIDE DEF g, Typed, a
  <2>6. shown \in PairsOfRuns /\ alone \in BOOLEAN
        /\ panelAt \in {"idle", "posted", "to ask", "asked"}
    BY DEF PanelInv, ViewTyped
  <2>7. QED
    BY <1>2, <2>1, <2>2, <2>3, <2>4, <2>5, <2>6 DEF Quiet, PanelIsCurrent
<1>5. CASE GetArrives(k)
  <2>1. /\ gets[k].at = "answered" /\ gets' = [gets EXCEPT ![k] = NoGet]
        /\ shown' = AsShown(gets[k].answer)
        /\ panelAt' = (IF gets[k].by = "own" THEN "idle" ELSE panelAt)
        /\ UNCHANGED <<filevars, getCache, ownPost, alone>>
    BY <1>5 DEF GetArrives
  <2>2. gets[k].answer \in PairsOfRuns /\ NoGet.at = "none"
    BY <2>1 DEF PanelInv, NoGet
  <2>3. alone => panelAt # "posted" /\ Quiet
    BY <2>1 DEF PanelInv, PostedAlone, NoGet
  <2>4. shown' \in PairsOfRuns
    BY <2>1, <2>2, ParsedFacts
  <2> HIDE DEF Typed
  <2>5. getCache \in {NoAnswer} \cup PairsOfRuns /\ alone \in BOOLEAN
        /\ panelAt \in {"idle", "posted", "to ask", "asked"}
    BY DEF PanelInv, ViewTyped
  <2>6. QED
    BY <1>1, <1>2, <2>1, <2>2, <2>3, <2>4, <2>5 DEF Quiet
<1>6. QED
  BY <1>3, <1>4, <1>5 DEF ActiveGet

LEMMA ActiveInitInv == ActiveInit => ActiveInv
BY CopiesInitInv, PanelInitInv DEF ActiveInv

LEMMA ActiveStepInv == ActiveInv /\ [ActiveNext]_avars => ActiveInv'
<1> SUFFICES ASSUME ActiveInv, [ActiveNext]_avars PROVE PanelInv'
  BY CopiesStepInv DEF ActiveInv
<1>1. CASE UNCHANGED avars
  BY <1>1 DEF avars, ActiveInv, PanelInv, ViewTyped, PostedAlone, Quiet, PanelIsCurrent,
              ActiveFiles, Parsed
<1>2. CASE Expire
  BY <1>2 DEF Expire, filevars, ActiveInv, PanelInv, ViewTyped, PostedAlone, Quiet,
              PanelIsCurrent, ActiveFiles, Parsed
<1>3. QED
  BY <1>1, <1>2, PanelPosts, PanelGets DEF ActiveNext, ActiveInv

LEMMA ActiveInvSays == ActiveInv => ActiveTypeOK /\ MetaNamesModel /\ OwnIsShown
BY DEF ActiveInv, CopiesInv, PanelInv, ActiveTypeOK, OwnIsShown, Quiet

-----------------------------------------------------------------------------
(* The list of jobs.  With SQLite nothing is ever scanned, so that only the  *)
(* answer kept by the route can be old; and that one is dropped after the    *)
(* write and before the refresh.  From the check of the quota to the write   *)
(* of the job nobody else creates one.                                       *)

Kinds == {"post", "cancel", "delete", "cancel one", "delete one"}

ListingShape ==
  /\ op # NoOp => op.kind \in Kinds /\ op.job \in Listed
  /\ op \in [kind : Kinds \cup {"none"}, job : Listed \cup {"none"},
             at : {"idle", "quota", "counting", "clear", "write", "answer"}]
  /\ \A r \in Requests : request[r].at = "answered" => request[r].list \in Lists
  /\ owed = <<>> \/ owed \in Listed \X BOOLEAN

NothingScanned == primary /\ Listed # {} => scan = NoList /\ ~work /\ op.at # "counting"

\* What a list says of the job the last operation was about.
Shows(list) == list[owed[1]] # "none" <=> owed[2]

OwedShown ==
  primary /\ owed # <<>> =>
    /\ op = NoOp
    /\ Shows(disk)
    /\ jobsGetCache # NoList => Shows(jobsGetCache)
    /\ request["refresh"].at = "answered" => Shows(request["refresh"].list)

QuotaAhead ==
  primary =>
    /\ Cardinality(Submitted) <= maxQueuedJobs
    /\ op.kind = "post" /\ op.at \in {"clear", "write"} =>
         Cardinality(Submitted) < maxQueuedJobs

ListWritten ==
  op.at = "answer" /\ op.kind \in {"post", "delete"} =>
    (disk[op.job] # "none" <=> op.kind = "post")

ListingInv ==
  /\ ListingTypeOK /\ ListingShape /\ NothingScanned
  /\ OwedShown /\ QuotaAhead /\ ListWritten

\* Queued jobs can be counted, and a change of one job adds one to those in their first
\* attempt at most, and none unless it is put into the queue for the first time.
LEMMA SubmittedCount ==
  ASSUME disk \in Lists
  PROVE  /\ IsFiniteSet(Submitted) /\ Cardinality(Submitted) \in Nat
         /\ Cardinality(Submitted) <= Queued(disk) /\ Queued(disk) \in Nat
<1> DEFINE all == {j \in Listed : disk[j] = "queued"}
<1>1. IsFiniteSet(all) /\ Submitted \subseteq all
  BY ListingAssumption, FS_Subset DEF Submitted
<1>2. IsFiniteSet(Submitted) /\ Cardinality(Submitted) <= Cardinality(all)
  BY <1>1, FS_Subset
<1>3. QED
  BY <1>1, <1>2, FS_CardinalityType DEF Queued

LEMMA SubmittedAfter ==
  ASSUME disk \in Lists, NEW j \in Listed, NEW s \in JobStates,
         disk' = [disk EXCEPT ![j] = s], again \ {j} \subseteq again'
  PROVE  /\ Cardinality(Submitted') \in Nat
         /\ Cardinality(Submitted') <= Cardinality(Submitted) + 1
         /\ s # "queued" \/ j \in again' =>
              Cardinality(Submitted') <= Cardinality(Submitted)
<1>1. IsFiniteSet(Submitted) /\ Cardinality(Submitted) \in Nat
  BY SubmittedCount
<1>2. IsFiniteSet(Submitted \cup {j})
      /\ Cardinality(Submitted \cup {j}) <= Cardinality(Submitted) + 1
  <2> DEFINE S == Submitted
  <2>1. IsFiniteSet(S) /\ Cardinality(S) \in Nat
    BY <1>1
  <2> HIDE DEF S
  <2>2. /\ IsFiniteSet(S \cup {j})
        /\ Cardinality(S \cup {j}) = IF j \in S THEN Cardinality(S) ELSE Cardinality(S) + 1
    BY <2>1, FS_AddElement
  <2>3. IsFiniteSet(S \cup {j}) /\ Cardinality(S \cup {j}) <= Cardinality(S) + 1
    BY <2>1, <2>2
  <2>4. QED
    BY <2>3 DEF S
<1>3. /\ Submitted' \subseteq Submitted \cup {j}
      /\ s # "queued" \/ j \in again' => Submitted' \subseteq Submitted
  BY DEF Submitted, Lists
<1>4. /\ IsFiniteSet(Submitted') /\ Cardinality(Submitted') <= Cardinality(Submitted \cup {j})
      /\ s # "queued" \/ j \in again' => Cardinality(Submitted') <= Cardinality(Submitted)
  BY <1>1, <1>2, <1>3, FS_Subset
<1>5. Cardinality(Submitted') \in Nat /\ Cardinality(Submitted \cup {j}) \in Nat
  BY <1>2, <1>4, FS_CardinalityType
<1>6. QED
  BY <1>1, <1>2, <1>4, <1>5

LEMMA NoOpFacts ==
  /\ NoOp \in [kind : Kinds \cup {"none"}, job : Listed \cup {"none"},
               at : {"idle", "quota", "counting", "clear", "write", "answer"}]
  /\ NoOp.kind = "none" /\ NoOp.at = "idle"
BY DEF NoOp

LEMMA ListingInitInv == ListingInit => ListingInv
<1> SUFFICES ASSUME ListingInit PROVE ListingInv
  OBVIOUS
<1>1. Empty \in Lists /\ {j \in Listed : Empty[j] = "queued"} = {}
  BY DEF Empty, Lists, JobStates
<1>2. Cardinality(Submitted) = 0
  <2>1. Submitted = {}
    BY <1>1 DEF ListingInit, Submitted
  <2>2. QED
    BY <2>1, FS_EmptySet
<1>3. ListingTypeOK
  <2>1. /\ primary \in BOOLEAN /\ work \in BOOLEAN
        /\ disk \in Lists /\ view \in Lists
        /\ {summaries, page, jobsGetCache} \subseteq Lists \cup {NoList}
        /\ scan \in Scans \cup {NoList}
    BY <1>1 DEF ListingInit
  <2>2. request \in [Requests -> [at : {"idle", "sent", "joined", "answered"},
                                 list : Lists \cup {NoList}]]
    BY DEF ListingInit, NoRequest
  <2>3. op.at = "idle" /\ ops \in 0..MaxOps /\ polls \in BOOLEAN /\ again \subseteq Listed
    BY ListingAssumption DEF ListingInit, NoOp
  <2>4. QED
    BY <2>1, <2>2, <2>3 DEF ListingTypeOK
<1>4. ListingShape
  <2>1. op = NoOp /\ owed = <<>> /\ \A r \in Requests : request[r].at = "idle"
    BY DEF ListingInit, NoRequest
  <2>2. NoOp \in [kind : Kinds \cup {"none"}, job : Listed \cup {"none"},
                 at : {"idle", "quota", "counting", "clear", "write", "answer"}]
    BY DEF NoOp
  <2>3. QED
    BY <2>1, <2>2 DEF ListingShape
<1>41. NothingScanned /\ OwedShown /\ ListWritten
  BY DEF ListingInit, NothingScanned, OwedShown, ListWritten, NoOp
<1>5. QuotaAhead
  BY <1>2, ListingAssumption DEF ListingInit, QuotaAhead, NoOp
<1>6. QED
  BY <1>3, <1>4, <1>41, <1>5 DEF ListingInv

\* What changes of the requests leave as it is.
LEMMA RequestFacts ==
  ASSUME ListingTypeOK, ListingShape
  PROVE  /\ \A r \in Requests, at \in {"sent", "joined"} :
              Asks(r, at) =>
                /\ request' \in [Requests -> [at : {"idle", "sent", "joined", "answered"},
                                              list : Lists \cup {NoList}]]
                /\ request' = [request EXCEPT ![r].at = at] /\ request'[r].at = at
                /\ \A q \in Requests : request'[q].at = "answered" => request'[q] = request[q]
         /\ \A l \in Lists, rs \in SUBSET Requests :
              /\ Answered(l, rs) \in
                   [Requests -> [at : {"idle", "sent", "joined", "answered"},
                                 list : Lists \cup {NoList}]]
              /\ \A q \in Requests :
                   Answered(l, rs)[q] = IF q \in rs THEN [at |-> "answered", list |-> l]
                                        ELSE request[q]
<1>1. request \in [Requests -> [at : {"idle", "sent", "joined", "answered"},
                                list : Lists \cup {NoList}]]
  BY DEF ListingTypeOK
<1>2. ASSUME NEW r \in Requests, NEW at \in {"sent", "joined"}, Asks(r, at)
      PROVE  /\ request' \in [Requests -> [at : {"idle", "sent", "joined", "answered"},
                                           list : Lists \cup {NoList}]]
             /\ request' = [request EXCEPT ![r].at = at] /\ request'[r].at = at
             /\ \A q \in Requests : request'[q].at = "answered" => request'[q] = request[q]
  BY <1>1, <1>2 DEF Asks
<1>3. ASSUME NEW l \in Lists, NEW rs \in SUBSET Requests
      PROVE  /\ Answered(l, rs) \in
                  [Requests -> [at : {"idle", "sent", "joined", "answered"},
                                list : Lists \cup {NoList}]]
             /\ \A q \in Requests :
                  Answered(l, rs)[q] = IF q \in rs THEN [at |-> "answered", list |-> l]
                                       ELSE request[q]
  BY <1>1 DEF Answered
<1>4. QED
  BY <1>2, <1>3

\* A scan that is through is a list.
LEMMA ScanFacts ==
  ASSUME ListingTypeOK, ScanDone
  PROVE  scan \in Lists
BY DEF ListingTypeOK, ScanDone, Scans, Lists, JobStates

\* Steps of the browser and of the caches that leave store and operation alone keep
\* what depends on them only.
LEMMA QuotaStays ==
  ASSUME QuotaAhead, ListWritten, UNCHANGED <<primary, disk, again, op>>
  PROVE  QuotaAhead' /\ ListWritten'
BY DEF QuotaAhead, ListWritten, Submitted

\* What is the same of a worker's step and of one that puts a job back.
LEMMA WorkDoneInv ==
  ASSUME ListingInv, NEW j \in Listed, NEW s \in {"queued", "running", "done"},
         disk[j] \in {"queued", "running"}, disk' = [disk EXCEPT ![j] = s],
         s = "queued" => j \in again', again \subseteq again', again' \subseteq Listed,
         ops' \in 0..MaxOps,
         UNCHANGED <<primary, caches, browser, op, polls, owed>>
  PROVE  ListingInv'
<1> USE DEF ListingInv
<1>2. disk \in Lists /\ disk' \in Lists
  BY DEF ListingTypeOK, Lists, JobStates
<1>3. ListingTypeOK'
  BY <1>2 DEF ListingTypeOK, caches, browser
<1>4. ListingShape' /\ NothingScanned'
  BY DEF ListingShape, NothingScanned, caches, browser
<1>5. OwedShown'
  <2> SUFFICES ASSUME primary, owed # <<>>
               PROVE  Shows(disk)'
    BY DEF OwedShown, Shows, caches, browser
  <2>1. disk'[owed[1]] # "none" <=> disk[owed[1]] # "none"
    BY <1>2 DEF ListingShape, Lists
  <2>2. QED
    BY <2>1 DEF OwedShown, Shows
<1>6. QuotaAhead'
  <2>1. Cardinality(Submitted') <= Cardinality(Submitted)
        /\ Cardinality(Submitted') \in Nat
    BY <1>2, SubmittedAfter DEF JobStates
  <2>2. Cardinality(Submitted) \in Nat
    BY <1>2, SubmittedCount
  <2>4. QED
    BY <2>1, <2>2, ListingAssumption DEF QuotaAhead
<1>7. ListWritten'
  <2>1. \A i \in Listed : disk'[i] # "none" <=> disk[i] # "none"
    BY <1>2 DEF Lists
  <2>2. op.at = "answer" => op.job \in Listed
    BY NoOpFacts DEF ListingShape
  <2>3. QED
    BY <2>1, <2>2 DEF ListWritten
<1>8. QED
  BY <1>3, <1>4, <1>5, <1>6, <1>7

LEMMA WorkerChangesInv ==
  \A j \in Listed : ListingInv /\ (WorkerChanges(j) \/ PutBack(j)) => ListingInv'
<1> SUFFICES ASSUME NEW j \in Listed, ListingInv, WorkerChanges(j) \/ PutBack(j)
             PROVE  ListingInv'
  OBVIOUS
<1>1. ops \in 0..MaxOps /\ again \subseteq Listed
  BY DEF ListingInv, ListingTypeOK
<1>2. CASE WorkerChanges(j)
  <2>1. PICK s \in {"running", "done"} :
          disk' = [disk EXCEPT ![j] = s] /\ disk[j] \in {"queued", "running"}
    BY <1>2 DEF WorkerChanges
  <2>2. UNCHANGED <<primary, again, caches, browser, op, ops, polls, owed>>
    BY <1>2 DEF WorkerChanges, operation
  <2>3. QED
    BY <1>1, <2>1, <2>2, WorkDoneInv
<1>3. CASE PutBack(j)
  <2>1. /\ disk[j] = "running" /\ disk' = [disk EXCEPT ![j] = "queued"]
        /\ again' = again \cup {j} /\ ops' \in {ops, ops + 1} /\ ops' <= MaxOps
        /\ UNCHANGED <<primary, caches, browser, op, polls, owed>>
    BY <1>3 DEF PutBack
  <2>2. ops' \in 0..MaxOps
    BY <1>1, <2>1, ListingAssumption
  <2>3. QED
    BY <1>1, <2>1, <2>2, WorkDoneInv
<1>4. QED
  BY <1>2, <1>3

\* A list is asked for, and perhaps what the timer does is changed.
LEMMA SendPollInv == ListingInv /\ (SendPoll \/ SwitchPolling) => ListingInv'
<1> SUFFICES ASSUME ListingInv, SendPoll \/ SwitchPolling PROVE ListingInv'
  OBVIOUS
<1> USE DEF ListingInv
<1>1. /\ Asks("poll", "sent") \/ UNCHANGED request
      /\ UNCHANGED <<primary, disk, again, caches, view, op, owed>>
  BY DEF SendPoll, SwitchPolling, stored, operation
<1>2. /\ request' \in [Requests -> [at : {"idle", "sent", "joined", "answered"},
                                    list : Lists \cup {NoList}]]
      /\ \A q \in Requests : request'[q].at = "answered" => request'[q] = request[q]
  <2>1. CASE Asks("poll", "sent")
    BY <2>1, RequestFacts DEF Requests
  <2>2. CASE UNCHANGED request
    BY <2>2 DEF ListingTypeOK
  <2>3. QED
    BY <1>1, <2>1, <2>2
<1>3. ops' \in 0..MaxOps /\ polls' \in BOOLEAN
  <2>1. ops \in 0..MaxOps /\ polls \in BOOLEAN
    BY DEF ListingTypeOK
  <2>2. \/ UNCHANGED <<ops, polls>>
        \/ ops < MaxOps /\ ops' = ops + 1 /\ polls' = ~polls
    BY DEF SendPoll, SwitchPolling, operation
  <2>3. CASE UNCHANGED <<ops, polls>>
    BY <2>1, <2>3
  <2>4. CASE ops < MaxOps /\ ops' = ops + 1 /\ polls' = ~polls
    <3>1. ops' \in 0..MaxOps
      BY <2>1, <2>4, ListingAssumption
    <3>2. polls' \in BOOLEAN
      BY ZenonT(30), <2>4
    <3>3. QED
      BY <3>1, <3>2
  <2>5. QED
    BY <2>2, <2>3, <2>4
<1>4. ListingTypeOK'
  BY <1>1, <1>2, <1>3 DEF ListingTypeOK, caches
<1>5. ListingShape' /\ NothingScanned'
  BY <1>1, <1>2 DEF ListingShape, NothingScanned, caches
<1>6. OwedShown'
  BY <1>1, <1>2 DEF OwedShown, Shows, caches, Requests
<1>7. QED
  BY <1>1, <1>4, <1>5, <1>6, QuotaStays

LEMMA GetJobsInv == \A r \in Requests : ListingInv /\ GetJobs(r) => ListingInv'
<1> SUFFICES ASSUME NEW r \in Requests, ListingInv, GetJobs(r) PROVE ListingInv'
  OBVIOUS
<1> USE DEF ListingInv
<1> DEFINE known == IF primary THEN disk ELSE IF page # NoList THEN page ELSE summaries
<1>1. UNCHANGED <<primary, disk, again, view, operation>>
  BY DEF GetJobs, stored
<1>2. QuotaAhead' /\ ListWritten'
  BY <1>1, QuotaStays DEF operation
<1>3. ASSUME NEW l \in Lists, request' = Answered(l, {r}),
             primary => (l = disk \/ (jobsGetCache # NoList /\ l = jobsGetCache)),
             UNCHANGED <<summaries, scan, work>>,
             jobsGetCache' = l, page' \in Lists \cup {NoList}
      PROVE  ListingInv'
  <2>1. /\ request' \in [Requests -> [at : {"idle", "sent", "joined", "answered"},
                                      list : Lists \cup {NoList}]]
        /\ \A q \in Requests :
             request'[q] = IF q = r THEN [at |-> "answered", list |-> l] ELSE request[q]
    BY <1>3, RequestFacts
  <2>2. ListingTypeOK'
    BY <1>1, <1>3, <2>1 DEF ListingTypeOK, operation
  <2>31. \A q \in Requests : request'[q].at = "answered" => request'[q].list \in Lists
    <3> SUFFICES ASSUME NEW q \in Requests, request'[q].at = "answered"
                 PROVE  request'[q].list \in Lists
      OBVIOUS
    <3>1. CASE q = r
      BY <2>1, <3>1
    <3>2. CASE q # r
      BY <2>1, <3>2 DEF ListingShape
    <3>3. QED
      BY <3>1, <3>2
  <2>3. ListingShape' /\ NothingScanned'
    BY <1>1, <1>3, <2>31 DEF ListingShape, NothingScanned, operation
  <2>4. OwedShown'
    <3> SUFFICES ASSUME primary, owed # <<>>
                 PROVE  Shows(l) /\ (request'["refresh"].at = "answered" =>
                                       Shows(request'["refresh"].list))
      BY <1>1, <1>3 DEF OwedShown, Shows, operation
    <3>1. Shows(l)
      BY <1>3 DEF OwedShown
    <3>2. QED
      BY <2>1, <3>1 DEF OwedShown, Requests
  <2>5. QED
    BY <1>2, <2>2, <2>3, <2>4
<1>4. CASE jobsGetCache # NoList /\ request' = Answered(jobsGetCache, {r}) /\ UNCHANGED caches
  BY <1>3, <1>4 DEF caches, ListingTypeOK
<1>5. CASE /\ jobsGetCache = NoList /\ ~work /\ known # NoList
           /\ request' = Answered(known, {r}) /\ jobsGetCache' = known
           /\ page' = IF primary THEN page ELSE known
           /\ UNCHANGED <<summaries, scan, work>>
  <2>1. known \in Lists
    BY <1>5 DEF ListingTypeOK
  <2>2. page' \in Lists \cup {NoList} /\ (primary => known = disk)
    BY <1>5, <2>1 DEF ListingTypeOK
  <2>3. QED
    BY <1>3, <1>5, <2>1, <2>2
<1>6. CASE /\ jobsGetCache = NoList /\ (work \/ known = NoList)
           /\ Asks(r, "joined") /\ work' = TRUE
           /\ scan' = IF scan = NoList THEN [j \in Listed |-> "unread"] ELSE scan
           /\ UNCHANGED <<summaries, page, jobsGetCache>>
  <2>1. /\ request' \in [Requests -> [at : {"idle", "sent", "joined", "answered"},
                                      list : Lists \cup {NoList}]]
        /\ \A q \in Requests : request'[q].at = "answered" => request'[q] = request[q]
    BY <1>6, RequestFacts
  <2>2. scan' \in Scans \cup {NoList}
    BY <1>6 DEF Scans, ListingTypeOK
  <2>3. ListingTypeOK'
    BY <1>1, <1>6, <2>1, <2>2 DEF ListingTypeOK, operation
  <2>4. ListingShape'
    BY <1>1, <1>6, <2>1 DEF ListingShape, operation
  <2>5. ~(primary /\ Listed # {})
    <3> SUFFICES ASSUME primary, NEW j \in Listed PROVE FALSE
      OBVIOUS
    <3>1. disk # NoList
      BY DEF ListingTypeOK, Lists, NoList
    <3>2. QED
      BY <1>6, <3>1 DEF NothingScanned
  <2>6. NothingScanned'
    BY <1>1, <2>5 DEF NothingScanned
  <2>7. OwedShown'
    BY <1>1, <2>5 DEF OwedShown, ListingShape, operation
  <2>8. QED
    BY <1>2, <2>3, <2>4, <2>6, <2>7
<1>7. QED
  BY <1>4, <1>5, <1>6 DEF GetJobs

LEMMA ScanReadsInv == \A j \in Listed : ListingInv /\ ScanReads(j) => ListingInv'
<1> SUFFICES ASSUME NEW j \in Listed, ListingInv, ScanReads(j) PROVE ListingInv'
  OBVIOUS
<1> USE DEF ListingInv
<1>1. /\ scan # NoList /\ scan' = [scan EXCEPT ![j] = disk[j]]
      /\ UNCHANGED <<primary, disk, again, summaries, page, jobsGetCache, work, browser, operation>>
  BY DEF ScanReads, stored
<1>2. scan' \in Scans
  BY <1>1 DEF ListingTypeOK, Scans, Lists
<1>3. ListingTypeOK'
  BY <1>1, <1>2 DEF ListingTypeOK, browser, operation
<1>4. ListingShape' /\ NothingScanned' /\ OwedShown'
  BY <1>1 DEF ListingShape, NothingScanned, OwedShown, Shows, browser, operation
<1>5. QED
  BY <1>1, <1>3, <1>4, QuotaStays DEF operation

LEMMA ScanEndsInv == ListingInv /\ ScanEnds => ListingInv'
<1> SUFFICES ASSUME ListingInv, ScanEnds PROVE ListingInv'
  OBVIOUS
<1> USE DEF ListingInv
<1>1. /\ scan # NoList /\ scan' = NoList /\ summaries' = scan /\ work' = FALSE
      /\ UNCHANGED <<primary, disk, again, view, operation>>
  BY DEF ScanEnds, ScanDone, stored
<1>2. scan \in Lists
  BY ScanFacts DEF ScanEnds
<1>3. page' \in Lists \cup {NoList} /\ jobsGetCache' \in Lists \cup {NoList}
  BY <1>2 DEF ScanEnds, ListingTypeOK
<1>4. /\ request' \in [Requests -> [at : {"idle", "sent", "joined", "answered"},
                                    list : Lists \cup {NoList}]]
      /\ \A q \in Requests : request'[q].at = "answered" => request'[q].list \in Lists
  <2>1. CASE request' = Answered(scan, Joined)
    <3>1. Joined \in SUBSET Requests
      BY DEF Joined
    <3>2. \A q \in Requests :
            request'[q] = IF q \in Joined THEN [at |-> "answered", list |-> scan] ELSE request[q]
      BY <1>2, <2>1, <3>1, RequestFacts
    <3>3. ASSUME NEW q \in Requests, request'[q].at = "answered"
          PROVE  request'[q].list \in Lists
      <4>1. CASE q \in Joined
        BY <1>2, <3>2, <4>1
      <4>2. CASE q \notin Joined
        BY <3>2, <3>3, <4>2 DEF ListingShape
      <4>3. QED
        BY <4>1, <4>2
    <3>4. request' \in [Requests -> [at : {"idle", "sent", "joined", "answered"},
                                     list : Lists \cup {NoList}]]
      BY <1>2, <2>1, <3>1, RequestFacts
    <3>5. QED
      BY <3>3, <3>4
  <2>2. CASE UNCHANGED request
    BY <2>2 DEF ListingTypeOK, ListingShape
  <2>3. QED
    BY <2>1, <2>2 DEF ScanEnds
<1>5. ListingTypeOK'
  BY <1>1, <1>2, <1>3, <1>4 DEF ListingTypeOK, operation
<1>6. ListingShape' /\ NothingScanned'
  BY <1>1, <1>4 DEF ListingShape, NothingScanned, operation
<1>7. OwedShown'
  BY <1>1 DEF OwedShown, NothingScanned, ListingShape, operation
<1>8. QED
  BY <1>1, <1>5, <1>6, <1>7, QuotaStays DEF operation

LEMMA ExpiryInv == ListingInv /\ Expiry => ListingInv'
<1> SUFFICES ASSUME ListingInv, Expiry PROVE ListingInv'
  OBVIOUS
<1> USE DEF ListingInv
<1>1. /\ UNCHANGED <<primary, disk, again, scan, work, browser, operation>>
      /\ {summaries', page', jobsGetCache'} \subseteq Lists \cup {NoList}
      /\ jobsGetCache' \in {NoList, jobsGetCache}
  BY DEF Expiry, ExpireSummaries, ExpirePage, ExpireRoute, ListingTypeOK, stored
<1>2. ListingTypeOK'
  BY <1>1 DEF ListingTypeOK, browser, operation
<1>3. ListingShape' /\ NothingScanned' /\ OwedShown'
  BY <1>1 DEF ListingShape, NothingScanned, OwedShown, Shows, browser, operation
<1>4. QED
  BY <1>1, <1>2, <1>3, QuotaStays DEF operation

LEMMA ArriveInv == \A r \in Requests : ListingInv /\ Arrive(r) => ListingInv'
<1> SUFFICES ASSUME NEW r \in Requests, ListingInv, Arrive(r) PROVE ListingInv'
  OBVIOUS
<1> USE DEF ListingInv
<1>1. /\ request[r].at = "answered" /\ view' = request[r].list
      /\ request' = [request EXCEPT ![r] = NoRequest]
      /\ owed' \in {owed, <<>>}
      /\ UNCHANGED <<primary, disk, again, caches, op, ops, polls>>
  BY DEF Arrive, stored
<1>2. /\ request' \in [Requests -> [at : {"idle", "sent", "joined", "answered"},
                                    list : Lists \cup {NoList}]]
      /\ \A q \in Requests : request'[q].at = "answered" => request'[q] = request[q]
  <2>1. NoRequest \in [at : {"idle", "sent", "joined", "answered"}, list : Lists \cup {NoList}]
        /\ NoRequest.at = "idle"
    BY DEF NoRequest
  <2>2. QED
    BY <1>1, <2>1 DEF ListingTypeOK
<1>3. ListingTypeOK'
  BY <1>1, <1>2 DEF ListingTypeOK, ListingShape, caches
<1>4. ListingShape' /\ NothingScanned'
  BY <1>1, <1>2 DEF ListingShape, NothingScanned, caches
<1>5. OwedShown'
  BY <1>1, <1>2 DEF OwedShown, Shows, caches, Requests
<1>6. QED
  BY <1>1, <1>3, <1>4, <1>5, QuotaStays

LEMMA OperateInv == ListingInv /\ Operate => ListingInv'
<1> SUFFICES ASSUME ListingInv, Operate PROVE ListingInv'
  OBVIOUS
<1> USE DEF ListingInv
<1>1. PICK j \in Listed, kind \in Kinds :
        op' = [kind |-> kind, job |-> j, at |-> IF kind = "post" THEN "quota" ELSE "clear"]
  BY DEF Operate, Kinds
<1>2. /\ ops < MaxOps /\ ops' = ops + 1 /\ owed' = <<>>
      /\ UNCHANGED <<primary, disk, again, caches, browser, polls>>
  BY DEF Operate, stored
<1>3. ops' \in 0..MaxOps
  BY <1>2, ListingAssumption DEF ListingTypeOK
<1>4. ListingTypeOK'
  BY <1>1, <1>2, <1>3 DEF ListingTypeOK, caches, browser
<1>5. ListingShape'
  <2>1. op' \in [kind : Kinds \cup {"none"}, job : Listed \cup {"none"},
                 at : {"idle", "quota", "counting", "clear", "write", "answer"}]
    BY <1>1
  <2>2. op'.kind \in Kinds /\ op'.job \in Listed
    BY <1>1
  <2>3. QED
    BY <1>2, <2>1, <2>2 DEF ListingShape, browser
<1>6. NothingScanned' /\ OwedShown'
  BY <1>1, <1>2 DEF NothingScanned, OwedShown, caches
<1>7. QuotaAhead' /\ ListWritten'
  <2>1. ~(op'.kind = "post" /\ op'.at \in {"clear", "write"}) /\ op'.at # "answer"
    BY <1>1
  <2>2. QED
    BY <1>2, <2>1 DEF QuotaAhead, ListWritten, Submitted
<1>8. QED
  BY <1>4, <1>5, <1>6, <1>7

\* The quota lets a job pass only if there is room.
LEMMA CheckedFacts ==
  ASSUME ListingTypeOK, ListingShape, op # NoOp, op.at \in {"quota", "counting"},
         NEW n, Checked(n)
  PROVE  \/ op' = NoOp
         \/ op' = [op EXCEPT !.at = "clear"] /\ n < maxQueuedJobs
BY DEF Checked, WithinQuota

LEMMA OpFacts ==
  ASSUME ListingShape, op # NoOp,
         NEW at \in {"idle", "quota", "counting", "clear", "write", "answer"}
  PROVE  /\ [op EXCEPT !.at = at] \in [kind : Kinds, job : Listed,
               at : {"idle", "quota", "counting", "clear", "write", "answer"}]
         /\ [op EXCEPT !.at = at].at = at
         /\ [op EXCEPT !.at = at].kind = op.kind /\ [op EXCEPT !.at = at].job = op.job
<1>1. /\ op \in [kind : Kinds \cup {"none"}, job : Listed \cup {"none"},
                 at : {"idle", "quota", "counting", "clear", "write", "answer"}]
      /\ op.kind \in Kinds /\ op.job \in Listed
  BY DEF ListingShape
<1>2. QED
  BY <1>1

\* What the operation in progress does without touching lists, requests or debts.
LEMMA OpMoves ==
  ASSUME ListingInv, op # NoOp,
         UNCHANGED <<primary, disk, again, jobsGetCache, work, browser, ops, polls, owed>>,
         {summaries', page'} \subseteq Lists \cup {NoList},
         scan' \in Scans \cup {NoList},
         primary /\ Listed # {} => scan' = NoList,
         \/ op' = NoOp
         \/ \E at \in {"counting", "clear", "write"} :
              /\ op' = [op EXCEPT !.at = at]
              /\ at = "counting" => ~(primary /\ Listed # {})
              /\ primary /\ op.kind = "post" /\ at \in {"clear", "write"} =>
                   Cardinality(Submitted) < maxQueuedJobs
  PROVE  ListingInv'
<1> USE DEF ListingInv
<1>1. /\ op' \in [kind : Kinds \cup {"none"}, job : Listed \cup {"none"},
                  at : {"idle", "quota", "counting", "clear", "write", "answer"}]
      /\ op' # NoOp => op'.kind \in Kinds /\ op'.job \in Listed
      /\ op'.at \in {"idle", "counting", "clear", "write"}
  BY OpFacts, NoOpFacts
<1>2. op'.at = "counting" => ~(primary /\ Listed # {})
  BY OpFacts, NoOpFacts
<1>3. primary /\ op'.kind = "post" /\ op'.at \in {"clear", "write"} =>
        Cardinality(Submitted) < maxQueuedJobs
  BY OpFacts, NoOpFacts
<1>4. ListingTypeOK'
  BY <1>1 DEF ListingTypeOK, browser
<1>5. ListingShape'
  BY <1>1 DEF ListingShape, browser
<1>6. NothingScanned'
  BY <1>2 DEF NothingScanned
<1>7. OwedShown'
  BY DEF OwedShown
<1>8. QuotaAhead' /\ ListWritten'
  BY <1>1, <1>3 DEF QuotaAhead, ListWritten, Submitted
<1>9. QED
  BY <1>4, <1>5, <1>6, <1>7, <1>8

LEMMA CheckQuotaInv == ListingInv /\ CheckQuota => ListingInv'
<1> SUFFICES ASSUME ListingInv, CheckQuota PROVE ListingInv'
  OBVIOUS
<1> USE DEF ListingInv
<1> DEFINE known == IF primary THEN disk ELSE summaries
<1>1. /\ op.at = "quota" /\ op # NoOp
      /\ UNCHANGED <<primary, disk, again, summaries, page, jobsGetCache, work, browser, ops, polls, owed>>
  BY NoOpFacts DEF CheckQuota, stored
<1>2. {summaries', page'} \subseteq Lists \cup {NoList}
  BY <1>1 DEF ListingTypeOK
<1>3. CASE known # NoList /\ Checked(Queued(known)) /\ UNCHANGED scan
  <2>1. scan' \in Scans \cup {NoList} /\ (primary /\ Listed # {} => scan' = NoList)
    BY <1>3 DEF ListingTypeOK, NothingScanned
  <2>2. primary => Queued(known) = Queued(disk)
    OBVIOUS
  <2>3. \/ op' = NoOp
        \/ op' = [op EXCEPT !.at = "clear"] /\ Queued(known) < maxQueuedJobs
    BY <1>1, <1>3, CheckedFacts
  <2>4. primary /\ Queued(known) < maxQueuedJobs => Cardinality(Submitted) < maxQueuedJobs
    BY <2>2, SubmittedCount, ListingAssumption DEF ListingTypeOK
  <2>5. QED
    BY <1>1, <1>2, <2>1, <2>3, <2>4, OpMoves
<1>4. CASE /\ known = NoList /\ op' = [op EXCEPT !.at = "counting"]
           /\ scan' = IF scan = NoList THEN [j \in Listed |-> "unread"] ELSE scan
  <2>1. scan' \in Scans \cup {NoList}
    BY <1>4 DEF Scans, ListingTypeOK
  <2>2. ~(primary /\ Listed # {})
    BY <1>4 DEF ListingTypeOK, Lists, NoList
  <2>3. QED
    BY <1>1, <1>2, <1>4, <2>1, <2>2, OpMoves
<1>5. QED
  BY <1>3, <1>4 DEF CheckQuota

LEMMA CountScanInv == ListingInv /\ CountScan => ListingInv'
<1> SUFFICES ASSUME ListingInv, CountScan PROVE ListingInv'
  OBVIOUS
<1> USE DEF ListingInv
<1>1. /\ op.at = "counting" /\ op # NoOp /\ Checked(Queued(scan))
      /\ UNCHANGED <<primary, disk, again, caches, browser, ops, polls, owed>>
  BY NoOpFacts DEF CountScan, stored
<1>2. ~(primary /\ Listed # {})
  BY <1>1 DEF NothingScanned
<1>3. Listed # {}
  BY <1>1 DEF ListingShape
<1>4. \/ op' = NoOp
      \/ op' = [op EXCEPT !.at = "clear"] /\ Queued(scan) < maxQueuedJobs
  BY <1>1, CheckedFacts
<1>5. {summaries', page'} \subseteq Lists \cup {NoList} /\ scan' \in Scans \cup {NoList}
  BY <1>1 DEF ListingTypeOK, caches
<1>6. QED
  BY <1>1, <1>2, <1>3, <1>4, <1>5, OpMoves DEF caches

LEMMA ClearStoreInv == ListingInv /\ ClearStore => ListingInv'
<1> SUFFICES ASSUME ListingInv, ClearStore PROVE ListingInv'
  OBVIOUS
<1> USE DEF ListingInv
<1>1. /\ op.at = "clear" /\ op # NoOp /\ op' = [op EXCEPT !.at = "write"]
      /\ summaries' = NoList /\ page' = NoList
      /\ UNCHANGED <<primary, disk, again, scan, jobsGetCache, work, browser, ops, polls, owed>>
  BY NoOpFacts DEF ClearStore, stored
<1>2. scan' \in Scans \cup {NoList} /\ (primary /\ Listed # {} => scan' = NoList)
  BY <1>1 DEF ListingTypeOK, NothingScanned
<1>3. primary /\ op.kind = "post" => Cardinality(Submitted) < maxQueuedJobs
  BY <1>1 DEF QuotaAhead
<1>4. QED
  BY <1>1, <1>2, <1>3, OpMoves

LEMMA WriteStoreInv == ListingInv /\ WriteStore => ListingInv'
<1> SUFFICES ASSUME ListingInv, WriteStore PROVE ListingInv'
  OBVIOUS
<1> USE DEF ListingInv
<1>1. /\ op.at = "write" /\ op # NoOp /\ op' = [op EXCEPT !.at = "answer"]
      /\ UNCHANGED <<primary, caches, browser, ops, polls, owed>>
  BY NoOpFacts DEF WriteStore
<1>2. op.job \in Listed /\ op.kind \in Kinds /\ disk \in Lists
  BY <1>1 DEF ListingShape, ListingTypeOK
<1>3. PICK s \in JobStates : /\ disk' = [disk EXCEPT ![op.job] = s]
                             /\ s = "queued" => op.kind = "post"
                             /\ op.kind \in {"post", "delete"} =>
                                  (s # "none" <=> op.kind = "post")
  <2> DEFINE s == CASE op.kind = "post" -> "queued"
                    [] op.kind \in {"delete", "delete one"} -> "none"
                    [] OTHER -> IF disk[op.job] = "queued" THEN "done" ELSE disk[op.job]
  <2>1. disk' = [disk EXCEPT ![op.job] = s]
    BY DEF WriteStore
  <2>2. CASE op.kind = "post"
    BY <2>1, <2>2 DEF JobStates
  <2>3. CASE op.kind \in {"delete", "delete one"}
    <3>1. s = "none"
      BY <2>3
    <3>2. QED
      BY <2>1, <3>1 DEF JobStates
  <2>4. CASE op.kind \notin {"post", "delete", "delete one"}
    <3>1. s = IF disk[op.job] = "queued" THEN "done" ELSE disk[op.job]
      BY <2>4
    <3>2. s \in JobStates /\ s # "queued"
      BY <1>2, <3>1 DEF Lists, JobStates
    <3>3. QED
      BY <2>1, <3>2
  <2>5. QED
    BY <2>2, <2>3, <2>4
<1>4. /\ op' \in [kind : Kinds, job : Listed,
                  at : {"idle", "quota", "counting", "clear", "write", "answer"}]
      /\ op'.at = "answer"
  BY <1>1, OpFacts
<1>5. ListingTypeOK'
  <2>1. again' \subseteq Listed
    BY DEF WriteStore, ListingTypeOK
  <2>2. QED
    BY <1>1, <1>2, <1>3, <1>4, <2>1 DEF ListingTypeOK, Lists, caches, browser
<1>6. ListingShape' /\ NothingScanned'
  BY <1>1, <1>4 DEF ListingShape, NothingScanned, caches, browser
<1>7. OwedShown'
  BY <1>1 DEF OwedShown
<1>8. QuotaAhead'
  <2>1. primary => Cardinality(Submitted') <= maxQueuedJobs
    <3>1. again \ {op.job} \subseteq again'
      BY DEF WriteStore
    <3>2. /\ Cardinality(Submitted') <= Cardinality(Submitted) + 1
          /\ op.kind # "post" => Cardinality(Submitted') <= Cardinality(Submitted)
          /\ Cardinality(Submitted') \in Nat /\ Cardinality(Submitted) \in Nat
      BY <1>2, <1>3, <3>1, SubmittedAfter, SubmittedCount
    <3>3. primary => /\ Cardinality(Submitted) <= maxQueuedJobs
                     /\ op.kind = "post" => Cardinality(Submitted) < maxQueuedJobs
      BY <1>1 DEF QuotaAhead
    <3>4. QED
      BY <3>2, <3>3, ListingAssumption
  <2>2. QED
    BY <1>1, <1>4, <2>1 DEF QuotaAhead
<1>9. ListWritten'
  <2>1. op'.job = op.job /\ op'.kind = op.kind
    BY <1>1, OpFacts
  <2>2. QED
    BY <1>2, <1>3, <2>1 DEF ListWritten, Lists
<1>10. QED
  BY <1>5, <1>6, <1>7, <1>8, <1>9

LEMMA AnswerOpInv == ListingInv /\ AnswerOp => ListingInv'
<1> SUFFICES ASSUME ListingInv, AnswerOp PROVE ListingInv'
  OBVIOUS
<1> USE DEF ListingInv
<1>1. /\ op.at = "answer" /\ op # NoOp /\ op' = NoOp
      /\ Asks("refresh", "sent")
      /\ jobsGetCache' = IF DropsAnswer(op.kind) THEN NoList ELSE jobsGetCache
      /\ owed' = IF op.kind \in {"post", "delete"} THEN <<op.job, op.kind = "post">> ELSE <<>>
      /\ UNCHANGED <<primary, disk, again, summaries, scan, page, work, view, ops, polls>>
  BY NoOpFacts DEF AnswerOp, stored
<1>2. op.job \in Listed /\ op.kind \in Kinds
  BY <1>1 DEF ListingShape
<1>3. /\ request' \in [Requests -> [at : {"idle", "sent", "joined", "answered"},
                                    list : Lists \cup {NoList}]]
      /\ request'["refresh"].at = "sent"
      /\ \A q \in Requests : request'[q].at = "answered" => request'[q] = request[q]
  BY <1>1, RequestFacts DEF Requests
<1>4. jobsGetCache' \in {NoList, jobsGetCache} /\ owed' \in {<<>>} \cup Listed \X BOOLEAN
  BY <1>1, <1>2
<1>5. ListingTypeOK'
  BY <1>1, <1>3, <1>4, NoOpFacts DEF ListingTypeOK
<1>6. ListingShape' /\ NothingScanned'
  BY <1>1, <1>3, <1>4, NoOpFacts DEF ListingShape, NothingScanned
<1>7. OwedShown'
  <2> SUFFICES ASSUME owed' # <<>>
               PROVE  Shows(disk)' /\ jobsGetCache' = NoList
    BY <1>1, <1>3 DEF OwedShown
  <2>1. op.kind \in {"post", "delete"} /\ owed' = <<op.job, op.kind = "post">>
    BY <1>1
  <2>2. jobsGetCache' = NoList
    BY <1>1, <2>1 DEF DropsAnswer
  <2>3. disk[op.job] # "none" <=> op.kind = "post"
    BY <1>1, <2>1 DEF ListWritten
  <2>4. owed'[1] = op.job /\ (owed'[2] <=> op.kind = "post")
    BY <2>1
  <2>5. QED
    BY <1>1, <2>2, <2>3, <2>4 DEF Shows
<1>8. QuotaAhead' /\ ListWritten'
  BY <1>1, NoOpFacts DEF QuotaAhead, ListWritten, Submitted
<1>9. QED
  BY <1>5, <1>6, <1>7, <1>8

LEMMA ListingStepInv == ListingInv /\ [ListingNext]_lvars => ListingInv'
<1> SUFFICES ASSUME ListingInv, [ListingNext]_lvars PROVE ListingInv'
  OBVIOUS
<1>1. CASE UNCHANGED lvars
  BY <1>1 DEF lvars, ListingInv, ListingTypeOK, ListingShape, NothingScanned, OwedShown,
              QuotaAhead, ListWritten, Shows, Submitted
<1>2. CASE ListingNext
  BY <1>2, WorkerChangesInv, SendPollInv, GetJobsInv, ScanReadsInv, ScanEndsInv, ExpiryInv,
     ArriveInv, OperateInv, CheckQuotaInv, CountScanInv, ClearStoreInv, WriteStoreInv,
     AnswerOpInv DEF ListingNext, Reading, Writing
<1>3. QED
  BY <1>1, <1>2

LEMMA ListingInvSays == ListingInv => ListingTypeOK /\ ReadYourWrites /\ QuotaKept
BY DEF ListingInv, OwedShown, Shows, QuotaAhead, ReadYourWrites, QuotaKept

-----------------------------------------------------------------------------
(* The live view of a job.  Every stream but the current one has been closed *)
(* by the browser before another one is opened, and what is on its way in a  *)
(* stream is about the job of the stream.                                    *)

EventKinds == {"running", "error", "done"} \cup Terminal

EventsOfStream ==
  /\ events \in [StreamIds -> Seq(EventKinds \X LiveJobs)]
  /\ \A k \in StreamIds : /\ \A i \in DOMAIN events[k] : events[k][i][2] = of[k]
                          /\ of[k] = "none" => events[k] = <<>> /\ tick[k] = "none"

OthersClosed == \A k \in StreamIds : of[k] # "none" => k \in closed \/ k = current

LiveInv == LiveTypeOK /\ EventsOfStream /\ OthersClosed /\ ShownIsWatched

LEMMA LiveInitInv == LiveInit => LiveInv
<1> SUFFICES ASSUME LiveInit PROVE LiveInv
  OBVIOUS
<1>1. EventsOfStream /\ OthersClosed
  BY DEF LiveInit, EventsOfStream, OthersClosed
<1>2. LiveTypeOK
  <2>1. /\ live \in [LiveJobs -> {"running", "gone"} \cup Terminal]
        /\ of \in [StreamIds -> LiveJobs \cup {"none"}]
        /\ tick \in [StreamIds -> {"none", "read", "sleep", "closed", "thrown"}]
        /\ closed \subseteq StreamIds /\ connected \in BOOLEAN
        /\ watched \in LiveJobs \cup {"none"}
    BY DEF LiveInit
  <2>2. current \in 0..Streams
    BY LiveAssumption DEF LiveInit
  <2>3. \A k \in StreamIds : Len(events[k]) <= Backlog + 1
    <3>1. \A k \in StreamIds : Len(events[k]) = 0
      BY DEF LiveInit
    <3>2. QED
      BY <3>1, LiveAssumption
  <2>4. QED
    BY <2>1, <2>2, <2>3 DEF LiveTypeOK
<1>3. ShownIsWatched
  BY DEF LiveInit, ShownIsWatched
<1>4. QED
  BY <1>1, <1>2, <1>3 DEF LiveInv

LEMMA SendFacts ==
  ASSUME LiveInv, NEW k \in StreamIds, of[k] # "none",
         NEW es \in Seq(EventKinds \X LiveJobs), Send(k, es),
         \A i \in DOMAIN es : es[i][2] = of[k],
         Len(events[k]) < Backlog, Len(es) <= 2
  PROVE  /\ events' \in [StreamIds -> Seq(EventKinds \X LiveJobs)]
         /\ \A i \in StreamIds : Len(events'[i]) <= Backlog + 1
         /\ \A j \in StreamIds : \A i \in DOMAIN events'[j] : events'[j][i][2] = of[j]
         /\ \A j \in StreamIds \ {k} : events'[j] = events[j]
<1>1. /\ events \in [StreamIds -> Seq(EventKinds \X LiveJobs)]
      /\ \A i \in StreamIds : Len(events[i]) <= Backlog + 1
      /\ \A j \in StreamIds : \A i \in DOMAIN events[j] : events[j][i][2] = of[j]
  BY DEF LiveInv, LiveTypeOK, EventsOfStream
<1>2. events' = [events EXCEPT ![k] = events[k] \o es]
  BY DEF Send
<1>3. /\ events[k] \o es \in Seq(EventKinds \X LiveJobs)
      /\ Len(events[k] \o es) = Len(events[k]) + Len(es)
      /\ Len(events[k]) \in Nat /\ Len(es) \in Nat
  BY <1>1
<1>4. Len(events[k] \o es) <= Backlog + 1
  BY <1>3, LiveAssumption
<1>5. \A i \in DOMAIN (events[k] \o es) : (events[k] \o es)[i][2] = of[k]
  <2> SUFFICES ASSUME NEW i \in 1..(Len(events[k]) + Len(es))
               PROVE  (events[k] \o es)[i][2] = of[k]
    BY <1>1, <1>3
  <2>1. CASE i <= Len(events[k])
    BY <1>1, <1>3, <2>1
  <2>2. CASE i > Len(events[k])
    <3>1. (events[k] \o es)[i] = es[i - Len(events[k])] /\ i - Len(events[k]) \in DOMAIN es
      BY <1>1, <1>3, <2>2
    <3>2. QED
      BY <3>1
  <2>3. QED
    BY <1>3, <2>1, <2>2
<1>6. QED
  BY <1>1, <1>2, <1>3, <1>4, <1>5

LEMMA TickInv == \A k \in StreamIds : LiveInv /\ Tick(k) => LiveInv'
<1> SUFFICES ASSUME NEW k \in StreamIds, LiveInv, Tick(k) PROVE LiveInv'
  OBVIOUS
<1> USE DEF LiveInv
<1> DEFINE j == of[k]
           s == live[j]
<1>1. /\ tick[k] = "read" /\ (k \in closed \/ Len(events[k]) < Backlog)
      /\ UNCHANGED <<live, of, screen>>
  BY DEF Tick
<1>2. j # "none" /\ j \in LiveJobs
  BY <1>1 DEF EventsOfStream, LiveTypeOK
<1>3. s \in {"running", "gone"} \cup Terminal
  BY <1>2 DEF LiveTypeOK
<1>4. /\ tick' \in [StreamIds -> {"none", "read", "sleep", "closed", "thrown"}]
      /\ \A i \in StreamIds \ {k} : tick'[i] = tick[i]
  BY DEF Tick, LiveTypeOK
<1>5. \/ UNCHANGED events
      \/ /\ Len(events[k]) < Backlog
         /\ \/ Send(k, <<<<"error", j>>>>)
            \/ EndsStream(s) /\ Send(k, <<<<s, j>>, <<"done", j>>>>)
            \/ s # "gone" /\ ~EndsStream(s) /\ Send(k, <<<<s, j>>>>)
  BY <1>1 DEF Tick
<1> DEFINE EventsOK ==
             /\ events' \in [StreamIds -> Seq(EventKinds \X LiveJobs)]
             /\ \A i \in StreamIds : Len(events'[i]) <= Backlog + 1
             /\ \A n \in StreamIds : \A i \in DOMAIN events'[n] : events'[n][i][2] = of[n]
             /\ \A n \in StreamIds \ {k} : events'[n] = events[n]
<1>6. ASSUME NEW es \in Seq(EventKinds \X LiveJobs), Send(k, es),
             \A i \in DOMAIN es : es[i][2] = j,
             Len(events[k]) < Backlog, Len(es) <= 2
      PROVE  EventsOK
  BY <1>2, <1>6, SendFacts
<1>7. EventsOK
  <2>1. CASE UNCHANGED events
    BY <2>1 DEF LiveTypeOK, EventsOfStream
  <2>2. ASSUME NEW e \in EventKinds \X LiveJobs, e[2] = j, Len(events[k]) < Backlog,
               Send(k, <<e>>)
        PROVE  EventsOK
    <3>1. <<e>> \in Seq(EventKinds \X LiveJobs) /\ Len(<<e>>) <= 2
      OBVIOUS
    <3>2. \A i \in DOMAIN <<e>> : <<e>>[i][2] = j
      BY <2>2
    <3>3. QED
      BY <1>6, <2>2, <3>1, <3>2
  <2>3. CASE Len(events[k]) < Backlog /\ Send(k, <<<<"error", j>>>>)
    BY <1>2, <2>2, <2>3 DEF EventKinds
  <2>4. CASE Len(events[k]) < Backlog /\ s # "gone" /\ Send(k, <<<<s, j>>>>)
    BY <1>2, <1>3, <2>2, <2>4 DEF EventKinds
  <2>5. CASE /\ Len(events[k]) < Backlog /\ EndsStream(s)
             /\ Send(k, <<<<s, j>>, <<"done", j>>>>)
    <3> DEFINE es == <<<<s, j>>, <<"done", j>>>>
    <3>1. es \in Seq(EventKinds \X LiveJobs) /\ Len(es) <= 2
      BY <1>2, <2>5 DEF EventKinds, EndsStream
    <3>2. \A i \in DOMAIN es : es[i][2] = j
      OBVIOUS
    <3>3. QED
      BY <1>6, <2>5, <3>1, <3>2
  <2>6. QED
    BY <1>5, <2>1, <2>3, <2>4, <2>5
<1>8. LiveTypeOK'
  BY <1>1, <1>4, <1>7 DEF LiveTypeOK, screen
<1>9. EventsOfStream'
  BY <1>1, <1>2, <1>4, <1>7 DEF EventsOfStream
<1>10. OthersClosed' /\ ShownIsWatched'
  BY <1>1 DEF OthersClosed, ShownIsWatched, screen
<1>11. QED
  BY <1>8, <1>9, <1>10

LEMMA EventArrivesInv == \A k \in StreamIds : LiveInv /\ EventArrives(k) => LiveInv'
<1> SUFFICES ASSUME NEW k \in StreamIds, LiveInv, EventArrives(k) PROVE LiveInv'
  OBVIOUS
<1> USE DEF LiveInv
<1> DEFINE e == Head(events[k])
<1>1. /\ events[k] # <<>> /\ k \notin closed
      /\ events' = [events EXCEPT ![k] = Tail(events[k])]
      /\ UNCHANGED <<live, of, tick, watched>>
  BY DEF EventArrives
<1>2. /\ events[k] \in Seq(EventKinds \X LiveJobs) /\ Len(events[k]) <= Backlog + 1
      /\ \A i \in DOMAIN events[k] : events[k][i][2] = of[k]
  BY DEF EventsOfStream, LiveTypeOK
<1>3. /\ Tail(events[k]) \in Seq(EventKinds \X LiveJobs)
      /\ Len(Tail(events[k])) <= Backlog + 1
      /\ \A i \in DOMAIN Tail(events[k]) : Tail(events[k])[i][2] = of[k]
      /\ e[2] = of[k]
  <2>1. /\ Tail(events[k]) \in Seq(EventKinds \X LiveJobs)
        /\ Len(Tail(events[k])) = Len(events[k]) - 1
        /\ Len(events[k]) \in Nat /\ 1 \in DOMAIN events[k] /\ e = events[k][1]
        /\ \A i \in DOMAIN Tail(events[k]) :
             i + 1 \in DOMAIN events[k] /\ Tail(events[k])[i] = events[k][i + 1]
    BY <1>1, <1>2
  <2>2. QED
    BY <1>2, <2>1, LiveAssumption
<1>4. of[k] # "none" /\ k = current
  BY <1>1 DEF EventsOfStream, OthersClosed
<1>5. EventsOfStream'
  BY <1>1, <1>3 DEF EventsOfStream
<1>6. k # 0 /\ k \in 0..Streams
  BY LiveAssumption DEF StreamIds
<1>7. CASE /\ closed' = closed \cup {k} /\ connected' = FALSE
           /\ current' = IF current = k THEN 0 ELSE current
           /\ UNCHANGED liveJob
  <2>1. current' = 0
    BY <1>4, <1>7
  <2>2. LiveTypeOK'
    <3>1. 0 \in 0..Streams
      BY LiveAssumption
    <3>2. QED
      BY <1>1, <1>3, <1>7, <2>1, <3>1 DEF LiveTypeOK, EventsOfStream
  <2>3. OthersClosed'
    BY <1>1, <1>4, <1>7 DEF OthersClosed
  <2>4. ShownIsWatched'
    BY <1>1, <1>7, <2>1 DEF ShownIsWatched
  <2>5. QED
    BY <1>5, <2>2, <2>3, <2>4
<1>8. CASE liveJob' = <<e[2], e[1]>> /\ UNCHANGED <<closed, connected, current>>
  <2>1. LiveTypeOK'
    BY <1>1, <1>3, <1>8 DEF LiveTypeOK, EventsOfStream
  <2>2. OthersClosed'
    BY <1>1, <1>8 DEF OthersClosed
  <2>3. liveJob'[1] = watched
    BY <1>3, <1>4, <1>6, <1>8 DEF ShownIsWatched
  <2>4. ShownIsWatched'
    BY <1>1, <1>8, <2>3 DEF ShownIsWatched
  <2>5. QED
    BY <1>5, <2>1, <2>2, <2>4
<1>9. QED
  BY <1>7, <1>8 DEF EventArrives

LEMMA StartLiveJobInv ==
  \A k \in StreamIds, j \in LiveJobs : LiveInv /\ StartLiveJob(k, j) => LiveInv'
<1> SUFFICES ASSUME NEW k \in StreamIds, NEW j \in LiveJobs, LiveInv, StartLiveJob(k, j)
             PROVE  LiveInv'
  OBVIOUS
<1> USE DEF LiveInv
<1>1. /\ of[k] = "none"
      /\ of' = [of EXCEPT ![k] = j] /\ tick' = [tick EXCEPT ![k] = "read"]
      /\ closed' = closed \cup ({current} \ {0}) /\ current' = k /\ connected' = TRUE
      /\ watched' = j /\ liveJob' = Nothing /\ UNCHANGED <<live, events>>
  BY DEF StartLiveJob, Replaced
<1>2. k # 0 /\ k \in 0..Streams /\ current \in StreamIds \cup {0}
  BY LiveAssumption DEF StreamIds, LiveTypeOK
<1>3. of' \in [StreamIds -> LiveJobs \cup {"none"}] /\ of'[k] = j /\ j # "none"
      /\ \A i \in StreamIds \ {k} : of'[i] = of[i]
  BY <1>1, LiveAssumption DEF LiveTypeOK
<1>4. LiveTypeOK'
  BY <1>1, <1>2, <1>3 DEF LiveTypeOK
<1>5. events[k] = <<>>
  BY <1>1 DEF EventsOfStream
<1>6. EventsOfStream'
  <2>1. \A i \in DOMAIN events'[k] : events'[k][i][2] = of'[k]
    BY <1>1, <1>5
  <2>2. \A n \in StreamIds \ {k} : events'[n] = events[n] /\ tick'[n] = tick[n]
    BY <1>1 DEF LiveTypeOK
  <2>3. QED
    BY <1>1, <1>3, <2>1, <2>2 DEF EventsOfStream
<1>7. OthersClosed'
  <2>1. 0 \notin StreamIds
    BY LiveAssumption DEF StreamIds
  <2>2. QED
    BY <1>1, <1>3, <2>1 DEF OthersClosed
<1>8. ShownIsWatched'
  BY <1>1, <1>2, <1>3 DEF ShownIsWatched
<1>9. QED
  BY <1>4, <1>6, <1>7, <1>8

LEMMA LiveStepInv == LiveInv /\ [LiveNext]_livars => LiveInv'
<1> SUFFICES ASSUME LiveInv, [LiveNext]_livars PROVE LiveInv'
  OBVIOUS
<1>1. CASE UNCHANGED livars
  BY <1>1 DEF livars, LiveInv, LiveTypeOK, EventsOfStream, OthersClosed, ShownIsWatched
<1> USE DEF LiveInv
<1>2. ASSUME NEW j \in LiveJobs, LiveJobSettles(j)
      PROVE  LiveInv'
  <2>1. UNCHANGED <<of, tick, events, screen>>
        /\ live' \in [LiveJobs -> {"running", "gone"} \cup Terminal]
    BY <1>2, LiveAssumption DEF LiveJobSettles, LiveTypeOK
  <2>2. QED
    BY <2>1 DEF LiveTypeOK, EventsOfStream, OthersClosed, ShownIsWatched, screen
<1>3. CASE StopLiveJob
  <2>1. /\ current \in StreamIds /\ 0 \in 0..Streams
        /\ closed' = closed \cup {current} /\ current' = 0 /\ connected' = FALSE
        /\ UNCHANGED <<live, of, tick, events, watched, liveJob>>
    BY <1>3, LiveAssumption DEF StopLiveJob, LiveTypeOK, StreamIds
  <2>2. LiveTypeOK'
    BY <2>1 DEF LiveTypeOK
  <2>3. EventsOfStream' /\ OthersClosed' /\ ShownIsWatched'
    BY <2>1 DEF EventsOfStream, OthersClosed, ShownIsWatched
  <2>4. QED
    BY <2>2, <2>3
<1>4. CASE SelectPage
  <2>1. /\ {current} \ {0} \subseteq StreamIds /\ closed' = closed \cup ({current} \ {0})
        /\ UNCHANGED <<live, of, tick, events, current, connected, watched, liveJob>>
    BY <1>4, LiveAssumption DEF SelectPage, Replaced, LiveTypeOK, StreamIds
  <2>2. LiveTypeOK'
    BY <2>1 DEF LiveTypeOK
  <2>3. EventsOfStream' /\ OthersClosed' /\ ShownIsWatched'
    BY <2>1 DEF EventsOfStream, OthersClosed, ShownIsWatched
  <2>4. QED
    BY <2>2, <2>3
<1>5. ASSUME NEW k \in StreamIds, TickAgain(k)
      PROVE  LiveInv'
  <2>1. /\ tick' \in [StreamIds -> {"none", "read", "sleep", "closed", "thrown"}]
        /\ \A i \in StreamIds : tick[i] = "none" => tick'[i] = "none"
        /\ UNCHANGED <<live, of, events, screen>>
    BY <1>5 DEF TickAgain, LiveTypeOK
  <2>2. LiveTypeOK'
    BY <2>1 DEF LiveTypeOK, screen
  <2>3. EventsOfStream' /\ OthersClosed' /\ ShownIsWatched'
    BY <2>1 DEF EventsOfStream, OthersClosed, ShownIsWatched, screen
  <2>4. QED
    BY <2>2, <2>3
<1>6. QED
  BY <1>1, <1>2, <1>3, <1>4, <1>5, TickInv, EventArrivesInv, StartLiveJobInv
     DEF LiveNext, LiveServer

LEMMA LiveInvSays == LiveInv => LiveTypeOK /\ ShownIsWatched
BY DEF LiveInv

-----------------------------------------------------------------------------
(* The page.  The selected dataflows are never none and never repeated, and  *)
(* the first of them is that of the hardware, also in what a preset keeps.   *)

IsDesign(seq, first) ==
  /\ seq \in Seq(Modes) /\ seq # <<>> /\ first = seq[1]
  /\ \A i, j \in DOMAIN seq : seq[i] = seq[j] => i = j

DesignKept == IsDesign(modes, flow) /\ (saved # <<>> => IsDesign(saved[1], saved[2]))

RefreshRecords ==
  [at : {"idle", "sent", "answered"}, page : ListPages \cup {0}, jobs : SUBSET WbJobs]
Shown == [page : ListPages \cup {0}, jobs : SUBSET WbJobs]
Handlers == [todo : Seq(Modes), gone : SUBSET WbJobs, page : ListPages \cup {0}]

PageShape ==
  /\ jobs \subseteq WbJobs /\ selPage \in ListPages /\ auto \in BOOLEAN /\ inFlight \in BOOLEAN
  /\ refresh \in [SlotIds -> RefreshRecords]
  /\ listShown \in Shown /\ handler \in Handlers

WorkbenchInv == PageShape /\ DesignKept /\ BusyIsAsked

LEMMA SomeDesign == \A seq, first : IsDesign(seq, first) => first \in Modes
BY DEF IsDesign

LEMMA OneDesign == \A m \in Modes : IsDesign(<<m>>, m)
BY DEF IsDesign

\* The dataflows but m are a sequence of dataflows without repetitions and without m.
LEMMA DeselectedFacts ==
  ASSUME IsDesign(modes, flow), NEW m \in Modes
  PROVE  /\ Deselected(m) \in Seq(Modes)
         /\ \A i, j \in DOMAIN Deselected(m) :
              Deselected(m)[i] = Deselected(m)[j] => i = j
         /\ Deselected(m) = <<>> => \A i \in DOMAIN modes : modes[i] = m
<1> DEFINE kept == {i \in DOMAIN modes : modes[i] # m}
           R == {p \in kept \X kept : p[1] < p[2]}
           place(n) == CHOOSE i \in kept : Cardinality({k \in kept : k < i}) = n - 1
<1>1. kept \subseteq 1..Len(modes) /\ Len(modes) \in Nat
  BY DEF IsDesign
<1>2. IsFiniteSet(kept)
  BY <1>1, FS_Interval, FS_Subset
<1>3. IsStrictOrder(R, kept)
  BY <1>1 DEF IsStrictOrder
<1>4. \A i \in kept : Below(R, kept, i) = {k \in kept : k < i}
  BY DEF Below
<1>5. /\ Cardinality(kept) \in Nat
      /\ \A n \in 1..Cardinality(kept) : \E i \in kept : Cardinality({k \in kept : k < i}) = n - 1
  <2>1. /\ Cardinality(kept) \in Nat
        /\ \A n \in 1..Cardinality(kept) : \E i \in kept : Cardinality(Below(R, kept, i)) = n - 1
    <3> HIDE DEF kept, R
    <3> QED
      BY <1>2, <1>3, PlacesAreTaken
  <2>2. QED
    BY <1>4, <2>1
<1>6. \A n \in 1..Cardinality(kept) :
        place(n) \in kept /\ Cardinality({k \in kept : k < place(n)}) = n - 1
  <2> HIDE DEF kept
  <2> QED
    BY <1>5
<1>7. Deselected(m) = [n \in 1..Cardinality(kept) |-> modes[place(n)]]
  BY DEF Deselected
<1>8. \A n \in 1..Cardinality(kept) : place(n) \in DOMAIN modes /\ modes[place(n)] \in Modes
  <2>1. \A n \in 1..Cardinality(kept) : place(n) \in kept
    <3> HIDE DEF kept, place
    <3> QED
      BY <1>6
  <2>2. \A i \in kept : i \in DOMAIN modes /\ modes[i] \in Modes
    BY DEF IsDesign
  <2>3. QED
    <3> HIDE DEF kept, place
    <3> QED
      BY <2>1, <2>2
<1>9. Deselected(m) \in Seq(Modes)
  <2> HIDE DEF kept, place
  <2> QED
    BY <1>5, <1>7, <1>8
<1>10. \A i, j \in DOMAIN Deselected(m) : Deselected(m)[i] = Deselected(m)[j] => i = j
  <2> SUFFICES ASSUME NEW i \in 1..Cardinality(kept), NEW j \in 1..Cardinality(kept),
                      modes[place(i)] = modes[place(j)]
               PROVE  i = j
    BY <1>7
  <2>1. place(i) = place(j)
    <3> HIDE DEF place
    <3> QED
      BY <1>8 DEF IsDesign
  <2>2. i - 1 = j - 1
    <3> HIDE DEF kept, place
    <3> QED
      BY <1>6, <2>1
  <2>3. QED
    BY <1>5, <2>2
<1>11. ASSUME Deselected(m) = <<>>, NEW i \in DOMAIN modes, modes[i] # m
       PROVE  FALSE
  <2>1. Cardinality(kept) # 0
    BY <1>2, <1>11, FS_EmptySet
  <2>2. 1 \in DOMAIN Deselected(m)
    <3> HIDE DEF kept, place
    <3> QED
      BY <1>5, <1>7, <2>1
  <2>3. QED
    BY <1>11, <2>2
<1>12. QED
  BY <1>9, <1>10, <1>11

LEMMA ToggledFacts ==
  ASSUME IsDesign(modes, flow), NEW m \in Modes
  PROVE  IsDesign(Toggled(m), Toggled(m)[1])
<1>1. CASE modes = <<m>>
  BY <1>1, OneDesign DEF Toggled
<1>2. CASE modes # <<m>> /\ m \in ToSet(modes)
  <2>1. Toggled(m) = Deselected(m)
    BY <1>2 DEF Toggled, ToggledFreely
  <2>2. Deselected(m) # <<>>
    <3> SUFFICES ASSUME \A i \in DOMAIN modes : modes[i] = m PROVE FALSE
      BY DeselectedFacts
    <3>1. modes \in Seq(Modes) /\ Len(modes) \in Nat \ {0} /\ DOMAIN modes = 1..Len(modes)
      BY DEF IsDesign
    <3>2. Len(modes) = 1
      <4>1. Len(modes) > 1 => 1 \in DOMAIN modes /\ 2 \in DOMAIN modes
        BY <3>1
      <4>2. 1 \in DOMAIN modes /\ 2 \in DOMAIN modes => 1 = 2
        BY DEF IsDesign
      <4>3. QED
        BY <3>1, <4>1, <4>2
    <3>3. modes[1] = m
      BY <3>1, <3>2
    <3>4. modes = <<m>>
      BY <3>1, <3>2, <3>3
    <3>5. QED
      BY <1>2, <3>4
  <2>3. QED
    BY <2>1, <2>2, DeselectedFacts DEF IsDesign
<1>3. CASE modes # <<m>> /\ m \notin ToSet(modes)
  <2>1. Toggled(m) = Append(modes, m)
    BY <1>3 DEF Toggled, ToggledFreely
  <2>2. /\ modes \in Seq(Modes) /\ Len(modes) \in Nat
        /\ Append(modes, m) \in Seq(Modes) /\ Len(Append(modes, m)) = Len(modes) + 1
        /\ \A i \in DOMAIN modes : Append(modes, m)[i] = modes[i] /\ modes[i] # m
        /\ Append(modes, m)[Len(modes) + 1] = m
    BY <1>3 DEF IsDesign, ToSet
  <2>3. DOMAIN Append(modes, m) = DOMAIN modes \cup {Len(modes) + 1}
    BY <2>2
  <2>4. \A i, j \in DOMAIN Append(modes, m) :
          Append(modes, m)[i] = Append(modes, m)[j] => i = j
    BY <2>2, <2>3 DEF IsDesign
  <2>5. Append(modes, m) # <<>>
    BY <2>2
  <2>6. QED
    BY <2>1, <2>2, <2>4, <2>5 DEF IsDesign
<1>4. QED
  BY <1>1, <1>2, <1>3

\* The least of the free slots is free.
LEMMA FreeFacts ==
  ASSUME Free # {}
  PROVE  Min(Free) \in Free /\ Min(Free) \in SlotIds
<1>1. Free \in SUBSET Nat /\ Free \subseteq SlotIds
  BY WorkbenchAssumption DEF Free, SlotIds
<1>2. \E x \in Free : \A y \in Free : x <= y
  BY <1>1, LeastNumber
<1>3. Min(Free) \in Free
  BY <1>2 DEF Min
<1>4. QED
  BY <1>1, <1>3

LEMMA StartFacts ==
  ASSUME PageShape, NEW pg \in ListPages \cup {0}, StartRefresh(pg)
  PROVE  /\ refresh' \in [SlotIds -> RefreshRecords]
         /\ inFlight' = TRUE
         /\ \E k \in SlotIds : refresh'[k].at # "idle"
<1>1. /\ refresh \in [SlotIds -> RefreshRecords] /\ Min(Free) \in SlotIds
      /\ refresh' = [refresh EXCEPT ![Min(Free)] = [at |-> "sent", page |-> pg, jobs |-> {}]]
      /\ inFlight' = TRUE
  BY FreeFacts DEF StartRefresh, PageShape
<1>2. [at |-> "sent", page |-> pg, jobs |-> {}] \in RefreshRecords
  BY DEF RefreshRecords
<1>3. refresh'[Min(Free)].at = "sent"
  BY <1>1
<1>4. QED
  BY <1>1, <1>2, <1>3

LEMMA WorkbenchInitInv == WorkbenchInit => WorkbenchInv
<1> SUFFICES ASSUME WorkbenchInit PROVE WorkbenchInv
  OBVIOUS
<1>1. Min(ListPages) \in ListPages
  <2>1. \E x \in ListPages : \A y \in ListPages : x <= y
    BY WorkbenchAssumption, LeastNumber
  <2>2. QED
    BY <2>1 DEF Min
<1>2. NoRefresh \in RefreshRecords /\ [page |-> 0, jobs |-> {}] \in Shown
      /\ NoHandler \in Handlers
  BY DEF NoRefresh, RefreshRecords, Shown, NoHandler, Handlers
<1>3. PageShape
  BY <1>1, <1>2 DEF WorkbenchInit, PageShape
<1>4. DesignKept
  BY OneDesign DEF WorkbenchInit, DesignKept
<1>5. BusyIsAsked
  BY DEF WorkbenchInit, BusyIsAsked
<1>6. QED
  BY <1>3, <1>4, <1>5 DEF WorkbenchInv

LEMMA WorkbenchStepInv == WorkbenchInv /\ [WorkbenchNext]_wvars => WorkbenchInv'
<1> SUFFICES ASSUME WorkbenchInv, [WorkbenchNext]_wvars PROVE WorkbenchInv'
  OBVIOUS
<1> USE DEF WorkbenchInv
<1>1. CASE UNCHANGED wvars
  BY <1>1 DEF wvars, PageShape, DesignKept, BusyIsAsked
<1>2. CASE SelectList
  <2>1. PICK p \in ListPages : StartRefresh(p) /\ selPage' = p
    BY <1>2 DEF SelectList, PageShape
  <2>2. auto' \in BOOLEAN /\ UNCHANGED <<jobs, listShown, handler, design>>
    BY <1>2 DEF SelectList, PageShape
  <2>3. PageShape' /\ BusyIsAsked'
    BY <2>1, <2>2, StartFacts DEF PageShape, BusyIsAsked
  <2>4. QED
    BY <2>2, <2>3 DEF DesignKept, design
<1>3. CASE PollList
  <2>1. StartRefresh(selPage) /\ UNCHANGED <<jobs, selPage, auto, listShown, handler, design>>
    BY <1>3 DEF PollList
  <2>2. PageShape' /\ BusyIsAsked'
    BY <2>1, StartFacts DEF PageShape, BusyIsAsked
  <2>3. QED
    BY <2>1, <2>2 DEF DesignKept, design
<1>4. ASSUME NEW k \in SlotIds, AnswerList(k)
      PROVE  WorkbenchInv'
  <2>1. /\ refresh[k].at = "sent"
        /\ refresh' = [refresh EXCEPT ![k].at = "answered", ![k].jobs = jobs]
        /\ UNCHANGED <<jobs, selPage, auto, inFlight, listShown, handler, design>>
    BY <1>4 DEF AnswerList
  <2>2. refresh' = [refresh EXCEPT ![k] = [at |-> "answered", page |-> refresh[k].page,
                                           jobs |-> jobs]]
    <3>1. refresh \in [SlotIds -> RefreshRecords]
      BY DEF PageShape
    <3>2. [[refresh[k] EXCEPT !.at = "answered"] EXCEPT !.jobs = jobs]
          = [at |-> "answered", page |-> refresh[k].page, jobs |-> jobs]
      <4>1. [refresh[k] EXCEPT !.at = "answered"]
            = [at |-> "answered", page |-> refresh[k].page, jobs |-> refresh[k].jobs]
        BY <3>1 DEF RefreshRecords
      <4>2. [[at |-> "answered", page |-> refresh[k].page, jobs |-> refresh[k].jobs]
             EXCEPT !.jobs = jobs]
            = [at |-> "answered", page |-> refresh[k].page, jobs |-> jobs]
        OBVIOUS
      <4>3. QED
        BY <4>1, <4>2
    <3>3. QED
      BY <2>1, <3>1, <3>2
  <2>3. [at |-> "answered", page |-> refresh[k].page, jobs |-> jobs] \in RefreshRecords
    BY DEF PageShape, RefreshRecords
  <2>4. PageShape'
    BY <2>1, <2>2, <2>3 DEF PageShape
  <2>5. refresh'[k].at = "answered"
    BY <2>2 DEF PageShape
  <2>6. QED
    BY <2>1, <2>4, <2>5 DEF DesignKept, BusyIsAsked, design
<1>5. ASSUME NEW k \in SlotIds, ListArrives(k) \/ ListFails(k)
      PROVE  WorkbenchInv'
  <2>1. /\ refresh' = [refresh EXCEPT ![k] = NoRefresh] /\ inFlight' = FALSE
        /\ listShown' \in {listShown, [page |-> refresh[k].page, jobs |-> refresh[k].jobs]}
        /\ UNCHANGED <<jobs, selPage, auto, handler, design>>
    BY <1>5 DEF ListArrives, ListFails, BusyAfter
  <2>2. NoRefresh \in RefreshRecords
    BY DEF NoRefresh, RefreshRecords
  <2>3. listShown' \in Shown
    <3>1. refresh[k] \in RefreshRecords
      BY DEF PageShape
    <3>2. [page |-> refresh[k].page, jobs |-> refresh[k].jobs] \in Shown
      BY <3>1 DEF RefreshRecords, Shown
    <3>3. QED
      BY <2>1, <3>2 DEF PageShape
  <2>4. PageShape'
    BY <2>1, <2>2, <2>3 DEF PageShape
  <2>5. QED
    BY <2>1, <2>4 DEF DesignKept, BusyIsAsked, design
<1>6. CASE SubmitJobs
  <2>1. /\ UNCHANGED <<jobs, listed, design>>
        /\ \E todo \in {modes, <<flow>>} :
             handler' = [todo |-> todo, gone |-> {}, page |-> selPage]
    BY <1>6 DEF SubmitJobs
  <2>2. modes \in Seq(Modes) /\ <<flow>> \in Seq(Modes)
    BY SomeDesign DEF DesignKept, IsDesign
  <2>3. handler' \in Handlers
    <3>1. PICK todo \in Seq(Modes) : handler' = [todo |-> todo, gone |-> {}, page |-> selPage]
      BY <2>1, <2>2
    <3>2. selPage \in ListPages \cup {0}
      BY DEF PageShape
    <3>3. QED
      BY <3>1, <3>2 DEF Handlers
  <2>4. PageShape'
    BY <2>1, <2>3 DEF PageShape, listed
  <2>5. QED
    BY <2>1, <2>4 DEF DesignKept, BusyIsAsked, design, listed
<1>7. CASE PostMode
  <2>1. /\ handler.todo # <<>> /\ jobs' \subseteq WbJobs
        /\ UNCHANGED <<selPage, auto, listShown, design>>
        /\ \/ /\ handler' = [handler EXCEPT !.todo = Tail(handler.todo)]
              /\ UNCHANGED <<refresh, inFlight>>
           \/ handler' = NoHandler /\ StartRefresh(handler.page)
    BY <1>7 DEF PostMode, PageShape
  <2>2. handler \in Handlers /\ NoHandler \in Handlers /\ handler.page \in ListPages \cup {0}
    BY DEF PageShape, Handlers, NoHandler
  <2>3. CASE /\ handler' = [handler EXCEPT !.todo = Tail(handler.todo)]
             /\ UNCHANGED <<refresh, inFlight>>
    <3>1. Tail(handler.todo) \in Seq(Modes)
      BY <2>1, <2>2 DEF Handlers
    <3>2. handler' \in Handlers
      BY <2>2, <2>3, <3>1 DEF Handlers
    <3>3. PageShape'
      BY <2>1, <2>3, <3>2 DEF PageShape
    <3>4. QED
      BY <2>1, <2>3, <3>3 DEF DesignKept, BusyIsAsked, design
  <2>4. CASE handler' = NoHandler /\ StartRefresh(handler.page)
    <3>1. PageShape' /\ BusyIsAsked'
      BY <2>1, <2>2, <2>4, StartFacts DEF PageShape, BusyIsAsked
    <3>2. QED
      BY <2>1, <3>1 DEF DesignKept, design
  <2>5. QED
    BY <2>1, <2>3, <2>4
<1>8. CASE DeleteJobs
  <2>1. /\ UNCHANGED <<jobs, listed, design>>
        /\ \E gone \in SUBSET listShown.jobs :
             handler' = [todo |-> <<>>, gone |-> gone, page |-> selPage]
    BY <1>8 DEF DeleteJobs
  <2>2. handler' \in Handlers
    BY <2>1 DEF Handlers, PageShape, Shown
  <2>3. PageShape'
    BY <2>1, <2>2 DEF PageShape, listed
  <2>4. QED
    BY <2>1, <2>3 DEF DesignKept, BusyIsAsked, design, listed
<1>9. CASE Deleted
  <2>1. /\ jobs' \subseteq WbJobs /\ handler' = NoHandler /\ StartRefresh(handler.page)
        /\ UNCHANGED <<selPage, auto, listShown, design>>
    BY <1>9 DEF Deleted, PageShape
  <2>2. NoHandler \in Handlers /\ handler.page \in ListPages \cup {0}
    BY DEF PageShape, Handlers, NoHandler
  <2>3. PageShape' /\ BusyIsAsked'
    BY <2>1, <2>2, StartFacts DEF PageShape, BusyIsAsked
  <2>4. QED
    BY <2>1, <2>3 DEF DesignKept, design
<1>10. ASSUME UNCHANGED <<jobs, listed, handler>>, DesignKept'
       PROVE  WorkbenchInv'
  BY <1>10 DEF PageShape, BusyIsAsked, listed
<1>11. CASE ToggleMode
  <2>1. PICK m \in Modes : modes' = Toggled(m)
    BY <1>11 DEF ToggleMode
  <2>2. IsDesign(modes', modes'[1])
    BY <2>1, ToggledFacts DEF DesignKept
  <2>3. flow' = modes'[1] /\ UNCHANGED <<jobs, listed, handler, saved>>
    BY <1>11, <2>2 DEF ToggleMode, IsDesign
  <2>4. QED
    BY <1>10, <2>2, <2>3 DEF DesignKept
<1>12. CASE ApplyHardware
  BY <1>10, <1>12, OneDesign DEF ApplyHardware, DesignKept
<1>13. CASE SavePreset
  <2>1. /\ saved' = <<modes, flow>> /\ saved'[1] = modes /\ saved'[2] = flow
        /\ UNCHANGED <<jobs, listed, handler, modes, flow>>
    BY <1>13 DEF SavePreset
  <2>2. QED
    BY <1>10, <2>1 DEF DesignKept
<1>14. CASE ApplyPreset
  <2>1. /\ saved # <<>> /\ flow' = saved[2]
        /\ modes' = IF saved[1] # <<>> THEN saved[1] ELSE <<saved[2]>>
        /\ UNCHANGED <<jobs, listed, handler, saved>>
    BY <1>14 DEF ApplyPreset
  <2>2. modes' = saved[1]
    BY <2>1 DEF DesignKept, IsDesign
  <2>3. QED
    BY <1>10, <2>1, <2>2 DEF DesignKept
<1>15. QED
  BY <1>1, <1>2, <1>3, <1>4, <1>5, <1>6, <1>7, <1>8, <1>9, <1>11, <1>12, <1>13, <1>14
     DEF WorkbenchNext

\* A sequence without repetitions has as many elements as places.
LEMMA DistinctLength ==
  ASSUME NEW S, NEW seq \in Seq(S), \A i, j \in DOMAIN seq : seq[i] = seq[j] => i = j
  PROVE  Cardinality(ToSet(seq)) = Len(seq)
<1>1. Len(seq) \in Nat /\ DOMAIN seq = 1..Len(seq)
  OBVIOUS
<1>2. seq \in Bijection(1..Len(seq), ToSet(seq))
  BY <1>1 DEF ToSet, Bijection, Injection, Surjection, IsInjective
<1>3. IsFiniteSet(1..Len(seq)) /\ Cardinality(1..Len(seq)) = Len(seq)
  BY <1>1, FS_Interval
<1>4. QED
  BY <1>2, <1>3, FS_Bijection DEF ExistsBijection

LEMMA WorkbenchInvSays ==
  WorkbenchInv => WorkbenchTypeOK /\ SingleIsPreviewed /\ BusyIsAsked
<1> SUFFICES ASSUME WorkbenchInv PROVE WorkbenchTypeOK /\ SingleIsPreviewed
  BY DEF WorkbenchInv
<1>1. IsDesign(modes, flow)
  BY DEF WorkbenchInv, DesignKept
<1>2. SingleIsPreviewed
  BY <1>1, DistinctLength DEF IsDesign, SingleIsPreviewed
<1>3. ToSet(modes) \subseteq Modes /\ flow \in Modes
  BY <1>1, SomeDesign DEF IsDesign, ToSet
<1>4. WorkbenchTypeOK
  BY <1>3 DEF WorkbenchInv, PageShape, RefreshRecords, Shown, WorkbenchTypeOK
<1>5. QED
  BY <1>2, <1>4

-----------------------------------------------------------------------------
(* The join of two tables: the greatest and the least of a set of places,    *)
(* the places in their order, and what a comparison has in each of them.     *)

LEMMA ExtremesAreIn ==
  ASSUME NEW n \in Nat, NEW S \in SUBSET (1..n), S # {}
  PROVE  Max(S) \in S /\ Min(S) \in S
<1>1. \E x \in S : \A y \in S : x <= y
  BY LeastNumber
<1>2. \E x \in S : \A y \in S : x >= y
  <2> DEFINE D == {d \in 0..n : n - d \in S}
  <2>1. \A y \in S : y \in Int /\ n - y \in 0..n /\ n - (n - y) = y
    OBVIOUS
  <2>2. D \in SUBSET Nat /\ D # {}
    <3>1. PICK y \in S : TRUE
      OBVIOUS
    <3>2. n - y \in D
      BY <2>1
    <3>3. D # {}
      BY <3>2
    <3>4. D \in SUBSET Nat
      OBVIOUS
    <3>5. QED
      BY <3>3, <3>4
  <2>3. PICK d \in D : \A e \in D : d <= e
    <3> HIDE DEF D
    <3> QED
      BY <2>2, LeastNumber
  <2>4. ASSUME NEW y \in S PROVE n - d >= y
    <3>1. n - y \in D
      BY <2>1
    <3>2. d <= n - y /\ d \in Int /\ y \in Int
      BY <2>1, <2>3, <3>1
    <3>3. QED
      BY <3>2
  <2>5. QED
    BY <2>4
<1>3. QED
  BY <1>1, <1>2 DEF Max, Min

\* How many of S are at most x
PlaceIn(S, x) == Cardinality({y \in S : y <= x})
Smaller(S) == {ss \in S \X S : ss[1] < ss[2]}

LEMMA RisingFacts ==
  ASSUME NEW n \in Nat, NEW S \in SUBSET (1..n)
  PROVE  /\ Cardinality(S) \in Nat /\ Rising(S) \in Seq(S) /\ Len(Rising(S)) = Cardinality(S)
         /\ S # {} => Cardinality(S) # 0
         /\ \A x \in S : PlaceIn(S, x) \in DOMAIN Rising(S) /\ Rising(S)[PlaceIn(S, x)] = x
<1>1. IsFiniteSet(S)
  <2>1. IsFiniteSet(1..n)
    BY FS_Interval
  <2>2. QED
    BY <2>1, FS_Subset
<1>2. IsStrictOrder(Smaller(S), S)
  <2>1. \A x, y \in S : <<x, y>> \in Smaller(S) <=> x < y
    BY DEF Smaller
  <2>2. \A x \in S : x \in Int
    OBVIOUS
  <2> HIDE DEF Smaller
  <2>3. QED
    BY <2>1, <2>2 DEF IsStrictOrder
<1>3. ASSUME NEW x \in S PROVE Below(Smaller(S), S, x) = {y \in S : y < x}
  BY DEF Below, Smaller
<1>4. Rising(S) = Sorted(Smaller(S), S)
  <2>1. ASSUME NEW m \in 1..Cardinality(S)
        PROVE  (CHOOSE x \in S : Cardinality({y \in S : y < x}) = m - 1)
               = CHOOSE x \in S : Cardinality(Below(Smaller(S), S, x)) = m - 1
    BY <1>3
  <2> DEFINE f(m) == CHOOSE x \in S : Cardinality({y \in S : y < x}) = m - 1
             g(m) == CHOOSE x \in S : Cardinality(Below(Smaller(S), S, x)) = m - 1
  <2>2. /\ Rising(S) = [m \in 1..Cardinality(S) |-> f(m)]
        /\ Sorted(Smaller(S), S) = [m \in 1..Cardinality(S) |-> g(m)]
    BY DEF Rising, Sorted
  <2>3. \A m \in 1..Cardinality(S) : f(m) = g(m)
    BY <2>1
  <2> HIDE DEF f, g
  <2>4. QED
    BY <2>2, <2>3
<1>5. /\ Sorted(Smaller(S), S) \in Seq(S) /\ Len(Sorted(Smaller(S), S)) = Cardinality(S)
      /\ Cardinality(S) \in Nat
      /\ \A x \in S : /\ Cardinality(Below(Smaller(S), S, x)) \in 0..(Cardinality(S) - 1)
                      /\ Sorted(Smaller(S), S)[Cardinality(Below(Smaller(S), S, x)) + 1] = x
  BY <1>1, <1>2, SortedFacts
<1>6. ASSUME NEW x \in S
      PROVE  PlaceIn(S, x) \in DOMAIN Rising(S) /\ Rising(S)[PlaceIn(S, x)] = x
  <2> DEFINE L == {y \in S : y < x}
             M == {y \in S : y <= x}
  <2>1. IsFiniteSet(L) /\ x \notin L /\ M = L \cup {x}
    <3>1. \A y \in S : (y <= x <=> y < x \/ y = x)
      OBVIOUS
    <3>2. L \in SUBSET S
      OBVIOUS
    <3>3. x \notin L
      OBVIOUS
    <3>4. M = L \cup {x}
      <4>1. \A y : y \in M <=> y \in S /\ y <= x
        OBVIOUS
      <4>2. \A y : y \in L <=> y \in S /\ y < x
        OBVIOUS
      <4> HIDE DEF L, M
      <4>3. QED
        BY <3>1, <4>1, <4>2
    <3> HIDE DEF L, M
    <3>5. QED
      BY <1>1, <3>2, <3>3, <3>4, FS_Subset
  <2>2. Cardinality(M) = Cardinality(L) + 1
    <3> HIDE DEF L, M
    <3> QED
      BY <2>1, FS_AddElement
  <2>3. /\ Cardinality(L) \in 0..(Cardinality(S) - 1)
        /\ Sorted(Smaller(S), S)[Cardinality(L) + 1] = x
    BY <1>3, <1>5
  <2> HIDE DEF L, M
  <2>4. Cardinality(M) \in 1..Cardinality(S) /\ Sorted(Smaller(S), S)[Cardinality(M)] = x
    BY <1>5, <2>2, <2>3
  <2>5. DOMAIN Rising(S) = 1..Cardinality(S)
    BY DEF Rising
  <2>6. QED
    BY <1>4, <2>4, <2>5 DEF M, PlaceIn
<1>7. S # {} => Cardinality(S) # 0
  BY <1>1, FS_EmptySet
<1>8. QED
  BY <1>4, <1>5, <1>6, <1>7

\* A row is joined if there is one of its shape, and then with one of its key if there is one.
LEMMA JoinFacts ==
  ASSUME NEW r, NEW T, NEW table \in Seq(T)
  PROVE  LET j == JoinedWith(r, table)
         IN /\ j # 0 <=> \E i \in DOMAIN table : table[i].shape = r.shape
            /\ j # 0 => /\ j \in DOMAIN table /\ table[j].shape = r.shape
                        /\ (\E i \in DOMAIN table : RowKey(table[i]) = RowKey(r))
                              => RowKey(table[j]) = RowKey(r)
<1> DEFINE own == {i \in DOMAIN table : RowKey(table[i]) = RowKey(r)}
           alike == {i \in DOMAIN table : table[i].shape = r.shape}
           j == JoinedWith(r, table)
<1>1. j = IF own # {} THEN Max(own) ELSE IF alike # {} THEN Min(alike) ELSE 0
  BY DEF JoinedWith
<1>2. Len(table) \in Nat /\ DOMAIN table = 1..Len(table) /\ 0 \notin DOMAIN table
  OBVIOUS
<1>3. own \in SUBSET (1..Len(table)) /\ alike \in SUBSET (1..Len(table)) /\ own \in SUBSET alike
  BY <1>2 DEF RowKey
<1>4. (own # {} => Max(own) \in own) /\ (alike # {} => Min(alike) \in alike)
  <2> HIDE DEF own, alike
  <2> QED
    BY <1>2, <1>3, ExtremesAreIn
<1> HIDE DEF j
<1>5. CASE own # {}
  <2>1. j \in own
    BY <1>1, <1>4, <1>5
  <2>2. QED
    BY <1>2, <1>3, <1>5, <2>1 DEF j
<1>6. CASE own = {} /\ alike # {}
  <2>1. j \in alike
    BY <1>1, <1>4, <1>6
  <2>2. QED
    BY <1>2, <1>6, <2>1 DEF j
<1>7. CASE own = {} /\ alike = {}
  BY <1>1, <1>7 DEF j
<1>8. QED
  BY <1>5, <1>6, <1>7

Predictions == [id : Nat, shape : Nat, tile : Nat, time : Nat]
Measurements == [id : Nat, shape : Nat, median : Nat, mean : Nat]
Samples == [id : Nat, shape : Nat, time : Nat]
TypedFiles == [rows : Seq(Measurements), samples : Seq(Samples)]
ComparedRows == [id : Nat, shape : Nat, tile : Nat, time : Nat, measured : Nat]

Matched(lines, table) == {i \in DOMAIN lines : \E m \in ToSet(table) : m.shape = lines[i].shape}

\* The places that are joined, in their order
PlacesJoined(lines, table, kept) ==
  /\ kept \in SUBSET DOMAIN lines /\ Cardinality(kept) \in Nat
  /\ kept # {} => Cardinality(kept) # 0
  /\ Rising(kept) \in Seq(kept) /\ Len(Rising(kept)) = Cardinality(kept)
  /\ kept = Matched(lines, table)
  /\ \A i \in kept : /\ PlaceIn(kept, i) \in DOMAIN Rising(kept)
                     /\ Rising(kept)[PlaceIn(kept, i)] = i

LEMMA JoinableFacts ==
  ASSUME NEW S, NEW T, NEW lines \in Seq(S), NEW table \in Seq(T)
  PROVE  PlacesJoined(lines, table, Joinable(lines, table))
<1> DEFINE kept == Joinable(lines, table)
<1>1. kept \in SUBSET (1..Len(lines)) /\ Len(lines) \in Nat /\ DOMAIN lines = 1..Len(lines)
  BY DEF Joinable
<1>2. kept = Matched(lines, table)
  BY JoinFacts DEF Joinable, Matched, ToSet
<1> HIDE DEF kept
<1>3. /\ Cardinality(kept) \in Nat /\ Rising(kept) \in Seq(kept)
      /\ Len(Rising(kept)) = Cardinality(kept) /\ (kept # {} => Cardinality(kept) # 0)
      /\ \A i \in kept : /\ PlaceIn(kept, i) \in DOMAIN Rising(kept)
                         /\ Rising(kept)[PlaceIn(kept, i)] = i
  BY <1>1, RisingFacts
<1>4. QED
  BY <1>1, <1>2, <1>3 DEF kept, PlacesJoined

LEMMA MeasuredIsNumber == ASSUME NEW m \in Measurements PROVE Measured(m) \in Nat
BY DEF Measurements, Measured

ComparesKept(preds, table, kept, lines) ==
  /\ lines \in Seq(ComparedRows) /\ Len(lines) = Cardinality(kept)
  /\ \A n \in DOMAIN lines : \E i \in kept : lines[n] = ComparedRow(preds[i], table)
  /\ \A i \in kept : /\ PlaceIn(kept, i) \in DOMAIN lines
                     /\ lines[PlaceIn(kept, i)] = ComparedRow(preds[i], table)

LEMMA ComparedFacts ==
  ASSUME NEW preds \in Seq(Predictions), NEW file \in TypedFiles
  PROVE  ComparesKept(preds, file.rows, Joinable(preds, file.rows), Compared(preds, file))
<1> DEFINE table == file.rows
           kept == Joinable(preds, table)
           order == Rising(kept)
           lines == Compared(preds, file)
<1>1. table \in Seq(Measurements)
  BY DEF TypedFiles
<1>2. /\ kept \in SUBSET DOMAIN preds /\ Cardinality(kept) \in Nat
      /\ order \in Seq(kept) /\ Len(order) = Cardinality(kept)
      /\ \A i \in kept : /\ PlaceIn(kept, i) \in DOMAIN order /\ order[PlaceIn(kept, i)] = i
  <2>1. PlacesJoined(preds, table, kept)
    BY <1>1, JoinableFacts
  <2> HIDE DEF kept, table
  <2>2. QED
    BY <2>1 DEF PlacesJoined
<1>3. lines = [n \in DOMAIN order |-> ComparedRow(preds[order[n]], table)]
  BY DEF Compared
<1>4. ASSUME NEW i \in kept PROVE ComparedRow(preds[i], table) \in ComparedRows
  <2> DEFINE j == JoinedWith(preds[i], table)
  <2>1. i \in DOMAIN preds /\ j # 0
    BY <1>2 DEF Joinable
  <2>2. j \in DOMAIN table
    BY <1>1, <2>1, JoinFacts
  <2> HIDE DEF j
  <2>3. table[j] \in Measurements /\ preds[i] \in Predictions
    BY <1>1, <2>1, <2>2
  <2> HIDE DEF table
  <2>4. Measured(table[j]) \in Nat
    BY <2>3, MeasuredIsNumber
  <2>5. QED
    BY <2>3, <2>4 DEF ComparedRow, ComparedRows, Predictions, j
<1> HIDE DEF lines, order, kept
<1>5. DOMAIN order = 1..Cardinality(kept) /\ \A n \in DOMAIN order : order[n] \in kept
  BY <1>2
<1>6. lines \in [1..Cardinality(kept) -> ComparedRows]
  BY <1>3, <1>4, <1>5
<1>7. lines \in Seq(ComparedRows) /\ Len(lines) = Cardinality(kept)
  <2>1. PICK m \in Nat : m = Cardinality(kept)
    BY <1>2
  <2>2. lines \in [1..m -> ComparedRows]
    BY <1>6, <2>1
  <2>3. lines \in Seq(ComparedRows) /\ Len(lines) = m
    BY <2>2
  <2>4. QED
    BY <2>1, <2>3
<1>8. ASSUME NEW n \in DOMAIN lines
      PROVE  \E i \in kept : lines[n] = ComparedRow(preds[i], table)
  <2>1. order[n] \in kept /\ lines[n] = ComparedRow(preds[order[n]], table)
    BY <1>3, <1>5, <1>6
  <2>2. QED
    BY <2>1
<1>9. \A i \in kept : /\ PlaceIn(kept, i) \in DOMAIN lines
                      /\ lines[PlaceIn(kept, i)] = ComparedRow(preds[i], table)
  BY <1>2, <1>3
<1>10. QED
  BY <1>7, <1>8, <1>9 DEF ComparesKept, lines, kept

\* What JoinIsOwn says of the comparison of predictions with a file
JoinOf(preds, file) ==
  LET lines == Compared(preds, file)
      timed == ComparedSamples(preds, file)
      compared == Matched(preds, file.rows)
  IN /\ lines # <<>>
     /\ Len(lines) = Cardinality(compared)
     /\ \A i \in compared :
          LET row == lines[PlaceIn(compared, i)]
          IN <<row.id, row.shape, row.tile, row.time>>
             = <<preds[i].id, preds[i].shape, preds[i].tile, preds[i].time>>
     /\ \A r \in ToSet(lines) :
          LET own == {m \in ToSet(file.rows) : RowKey(m) = RowKey(r)}
          IN \E m \in IF own # {} THEN own
                      ELSE {m \in ToSet(file.rows) : m.shape = r.shape} :
               r.measured = Measured(m)
     /\ \A s \in ToSet(timed) : /\ s.sample.shape = s.pred.shape
                                /\ (\E p \in ToSet(preds) : RowKey(p) = RowKey(s.sample))
                                     => s.pred.id = s.sample.id

LEMMA SampleJoin ==
  ASSUME NEW preds \in Seq(Predictions), NEW file \in TypedFiles,
         NEW s \in ToSet(ComparedSamples(preds, file))
  PROVE  /\ s.sample.shape = s.pred.shape
         /\ (\E p \in ToSet(preds) : RowKey(p) = RowKey(s.sample)) => s.pred.id = s.sample.id
<1> DEFINE kept == Joinable(file.samples, preds)
           order == Rising(kept)
<1>1. file.samples \in Seq(Samples)
  BY DEF TypedFiles
<1>2. kept \in SUBSET DOMAIN file.samples /\ order \in Seq(kept)
  BY <1>1, JoinableFacts DEF PlacesJoined
<1>3. PICK n \in DOMAIN order :
        s = [sample |-> file.samples[order[n]],
             pred |-> preds[JoinedWith(file.samples[order[n]], preds)]]
  BY DEF ComparedSamples, ToSet
<1> DEFINE r == file.samples[order[n]]
           j == JoinedWith(r, preds)
<1>4. order[n] \in kept
  <2> HIDE DEF order, kept
  <2> QED
    BY <1>2, <1>3
<1>5. j # 0
  BY <1>4 DEF Joinable
<1>6. /\ j \in DOMAIN preds /\ preds[j].shape = r.shape
      /\ (\E i \in DOMAIN preds : RowKey(preds[i]) = RowKey(r)) => RowKey(preds[j]) = RowKey(r)
  BY <1>5, JoinFacts
<1>7. s.sample = r /\ s.pred = preds[j]
  BY <1>3
<1> HIDE DEF r, j
<1>8. QED
  BY <1>6, <1>7 DEF ToSet, RowKey

LEMMA JoinHolds ==
  ASSUME NEW preds \in Seq(Predictions), NEW file \in TypedFiles, Joinable(preds, file.rows) # {}
  PROVE  JoinOf(preds, file)
<1> DEFINE table == file.rows
           lines == Compared(preds, file)
           compared == Matched(preds, table)
<1>1. table \in Seq(Measurements)
  BY DEF TypedFiles
<1>2. compared = Joinable(preds, table) /\ (compared # {} => Cardinality(compared) # 0)
  <2>1. PlacesJoined(preds, table, Joinable(preds, table))
    BY <1>1, JoinableFacts
  <2> HIDE DEF compared, table
  <2>2. QED
    BY <2>1 DEF PlacesJoined, compared
<1>3. /\ lines \in Seq(ComparedRows) /\ Len(lines) = Cardinality(compared)
      /\ \A n \in DOMAIN lines : \E i \in compared : lines[n] = ComparedRow(preds[i], table)
      /\ \A i \in compared : /\ PlaceIn(compared, i) \in DOMAIN lines
                             /\ lines[PlaceIn(compared, i)] = ComparedRow(preds[i], table)
  <2>1. ComparesKept(preds, table, Joinable(preds, table), lines)
    BY ComparedFacts
  <2>2. ComparesKept(preds, table, compared, lines)
    BY <1>2, <2>1
  <2> HIDE DEF compared, lines, table
  <2>3. QED
    BY <2>2 DEF ComparesKept
<1>4. ASSUME NEW i \in compared
      PROVE  LET row == lines[PlaceIn(compared, i)]
             IN <<row.id, row.shape, row.tile, row.time>>
                = <<preds[i].id, preds[i].shape, preds[i].tile, preds[i].time>>
  <2> HIDE DEF compared, lines, table
  <2>1. lines[PlaceIn(compared, i)] = ComparedRow(preds[i], table)
    BY <1>3
  <2>2. \A row : row = ComparedRow(preds[i], table) =>
          <<row.id, row.shape, row.tile, row.time>>
            = <<preds[i].id, preds[i].shape, preds[i].tile, preds[i].time>>
    BY DEF ComparedRow
  <2>3. QED
    BY <2>1, <2>2
<1>5. ASSUME NEW r \in ToSet(lines)
      PROVE  LET own == {m \in ToSet(table) : RowKey(m) = RowKey(r)}
             IN \E m \in IF own # {} THEN own ELSE {m \in ToSet(table) : m.shape = r.shape} :
                  r.measured = Measured(m)
  <2>1. PICK i \in compared : r = ComparedRow(preds[i], table)
    BY <1>3 DEF ToSet
  <2> DEFINE j == JoinedWith(preds[i], table)
  <2>2. j # 0
    BY <1>2 DEF Joinable
  <2>3. /\ j \in DOMAIN table /\ table[j].shape = preds[i].shape
        /\ (\E k \in DOMAIN table : RowKey(table[k]) = RowKey(preds[i]))
              => RowKey(table[j]) = RowKey(preds[i])
    BY <1>1, <2>2, JoinFacts
  <2>4. r.measured = Measured(table[j]) /\ r.shape = preds[i].shape /\ r.id = preds[i].id
    BY <2>1 DEF ComparedRow
  <2> HIDE DEF j, compared, table
  <2>5. RowKey(r) = RowKey(preds[i]) /\ table[j] \in ToSet(table)
    BY <2>3, <2>4 DEF RowKey, ToSet
  <2>6. CASE \E m \in ToSet(table) : RowKey(m) = RowKey(r)
    <3>1. RowKey(table[j]) = RowKey(r)
      BY <2>3, <2>5, <2>6 DEF ToSet
    <3>2. QED
      BY <2>4, <2>5, <3>1
  <2>7. CASE ~ \E m \in ToSet(table) : RowKey(m) = RowKey(r)
    <3>1. {m \in ToSet(table) : RowKey(m) = RowKey(r)} = {}
      BY <2>7
    <3>2. QED
      BY <2>3, <2>4, <2>5, <3>1
  <2>8. QED
    BY <2>6, <2>7
<1>6. lines # <<>>
  BY <1>2, <1>3
<1>7. QED
  BY <1>3, <1>4, <1>5, <1>6, SampleJoin, SMTT(30) DEF JoinOf

-----------------------------------------------------------------------------
(* The ranking of a comparison.  Better is a strict weak order of the rows,  *)
(* because fractions with positive denominators are compared crosswise, and  *)
(* with the place in the list for ties it is a strict order, in which each   *)
(* row has a place of its own.                                               *)

LEMMA TimesKeepsOrder ==
  ASSUME NEW u \in Nat, NEW v \in Nat, NEW w \in Nat, u <= v
  PROVE  w * u <= w * v
OBVIOUS

LEMMA TimesCancels ==
  ASSUME NEW u \in Nat, NEW v \in Nat, NEW w \in Nat \ {0}, w * u <= w * v
  PROVE  u <= v
OBVIOUS

\* a/x, b/y and c/z, compared crosswise
LEMMA CrosswiseOrder ==
  ASSUME NEW a \in Nat, NEW b \in Nat, NEW c \in Nat,
         NEW x \in Nat, NEW y \in Nat \ {0}, NEW z \in Nat, b * x <= a * y, c * y <= b * z
  PROVE  c * x <= a * z
<1>1. b * x \in Nat /\ a * y \in Nat /\ c * y \in Nat /\ b * z \in Nat /\ c * x \in Nat /\ a * z \in Nat
  OBVIOUS
<1>2. x * (c * y) <= x * (b * z)
  BY <1>1, TimesKeepsOrder
<1>3. z * (b * x) <= z * (a * y)
  BY <1>1, TimesKeepsOrder
<1>4. x * (c * y) = y * (c * x) /\ x * (b * z) = z * (b * x) /\ z * (a * y) = y * (a * z)
  OBVIOUS
<1>5. y * (c * x) <= y * (a * z)
  <2>1. x * (c * y) \in Nat /\ x * (b * z) \in Nat /\ z * (a * y) \in Nat
    OBVIOUS
  <2>2. QED
    BY <1>2, <1>3, <1>4, <2>1
<1>6. QED
  BY <1>1, <1>5, TimesCancels

Positive(lines, field) ==
  \A i \in DOMAIN lines : lines[i].shape \in Nat /\ lines[i][field] \in Nat \ {0}

LEMMA BetterIsOrder ==
  ASSUME NEW lines, NEW field, Positive(lines, field)
  PROVE  /\ \A i, j \in DOMAIN lines : Better(lines, i, j, field) => ~Better(lines, j, i, field)
         /\ \A i, j, k \in DOMAIN lines :
              ~Better(lines, j, i, field) /\ ~Better(lines, k, j, field) => ~Better(lines, k, i, field)
<1> DEFINE s(i) == lines[i].shape
           t(i) == lines[i][field]
<1>1. \A i \in DOMAIN lines : s(i) \in Nat /\ t(i) \in Nat \ {0}
  BY DEF Positive
<1>2. CASE OneShape(lines)
  <2>1. \A i, j \in DOMAIN lines : Better(lines, i, j, field) <=> t(i) < t(j)
    BY <1>2 DEF Better
  <2> HIDE DEF s, t
  <2>2. QED
    BY <1>1, <2>1
<1>3. CASE ~OneShape(lines)
  <2>1. \A i, j \in DOMAIN lines : Better(lines, i, j, field) <=> s(i) * t(j) > s(j) * t(i)
    BY <1>3 DEF Better
  <2> HIDE DEF s, t
  <2>2. \A i, j \in DOMAIN lines : s(i) * t(j) \in Nat
    BY <1>1
  <2>3. \A i, j \in DOMAIN lines : Better(lines, i, j, field) => ~Better(lines, j, i, field)
    BY <2>1, <2>2
  <2>4. ASSUME NEW i \in DOMAIN lines, NEW j \in DOMAIN lines, NEW k \in DOMAIN lines,
               ~Better(lines, j, i, field), ~Better(lines, k, j, field)
        PROVE  ~Better(lines, k, i, field)
    <3>1. s(j) * t(i) <= s(i) * t(j) /\ s(k) * t(j) <= s(j) * t(k)
      BY <2>1, <2>2, <2>4
    <3>2. s(k) * t(i) <= s(i) * t(k)
      BY <1>1, <3>1, CrosswiseOrder
    <3>3. QED
      BY <2>1, <2>2, <3>2
  <2>5. QED
    BY <2>3, <2>4
<1>4. QED
  BY <1>2, <1>3

Before(lines, j, i, field) ==
  Better(lines, j, i, field) \/ (j < i /\ ~Better(lines, i, j, field))
Ranked(lines, field) ==
  {ss \in (DOMAIN lines) \X (DOMAIN lines) : Before(lines, ss[1], ss[2], field)}

LEMMA InRanked ==
  ASSUME NEW lines, NEW field, NEW j \in DOMAIN lines, NEW i \in DOMAIN lines
  PROVE  <<j, i>> \in Ranked(lines, field) <=> Before(lines, j, i, field)
BY DEF Ranked

LEMMA RankedIsOrder ==
  ASSUME NEW T, NEW lines \in Seq(T), NEW field, Positive(lines, field)
  PROVE  IsStrictOrder(Ranked(lines, field), DOMAIN lines)
<1> DEFINE B(i, j) == Better(lines, i, j, field)
           R == Ranked(lines, field)
<1>1. \A i \in DOMAIN lines : i \in Int
  OBVIOUS
<1>2. /\ \A i, j \in DOMAIN lines : B(i, j) => ~B(j, i)
      /\ \A i, j, k \in DOMAIN lines : ~B(j, i) /\ ~B(k, j) => ~B(k, i)
  BY BetterIsOrder
<1>3. ASSUME NEW j \in DOMAIN lines, NEW i \in DOMAIN lines
      PROVE  <<j, i>> \in R <=> B(j, i) \/ (j < i /\ ~B(i, j))
  BY InRanked DEF Before
<1> HIDE DEF B, R
<1>4. \A i \in DOMAIN lines : <<i, i>> \notin R
  BY <1>1, <1>2, <1>3
<1>5. \A i, j \in DOMAIN lines : i # j => <<i, j>> \in R \/ <<j, i>> \in R
  <2>1. \A i, j \in DOMAIN lines : i # j => i < j \/ j < i
    BY <1>1
  <2>2. QED
    BY <1>2, <1>3, <2>1
<1>6. ASSUME NEW i \in DOMAIN lines, NEW j \in DOMAIN lines, NEW k \in DOMAIN lines,
             <<i, j>> \in R, <<j, k>> \in R
      PROVE  <<i, k>> \in R
  <2>1. ~B(j, i) /\ ~B(k, j) /\ ~B(k, i)
    BY <1>2, <1>3, <1>6
  <2>2. CASE B(i, j) \/ B(j, k)
    <3>1. B(i, k)
      BY <1>2, <2>1, <2>2
    <3>2. QED
      BY <1>3, <3>1
  <2>3. CASE ~(B(i, j) \/ B(j, k))
    <3>1. i < j /\ j < k
      BY <1>3, <1>6, <2>3
    <3>2. i < k
      BY <1>1, <3>1
    <3>3. QED
      BY <1>3, <2>1, <3>2
  <2>4. QED
    BY <2>2, <2>3
<1>7. QED
  BY <1>4, <1>5, <1>6 DEF IsStrictOrder, R

\* What the places of lines that can be told apart are.
Places(lines, field) ==
  /\ {Rank(lines, i, field) : i \in DOMAIN lines} = DOMAIN lines
  /\ \A i, j \in DOMAIN lines : Rank(lines, i, field) = 1 => ~Better(lines, j, i, field)

LEMMA RankIsPlace ==
  ASSUME NEW T, NEW lines \in Seq(T), NEW field, ToldApart(lines), NEW i \in DOMAIN lines
  PROVE  Rank(lines, i, field) = Place(lines, i, field)
<1> DEFINE same == {j \in DOMAIN lines : CandidateKey(lines, j) = CandidateKey(lines, i)}
           P(j) == Place(lines, j, field)
<1>1. same = {i}
  BY DEF ToldApart
<1>2. {P(j) : j \in same} = {P(i)}
  BY <1>1
<1>3. P(i) \in Nat
  <2> DEFINE D == {j \in DOMAIN lines :
                     Better(lines, j, i, field) \/ (j < i /\ ~Better(lines, i, j, field))}
  <2>1. IsFiniteSet(1..Len(lines)) /\ DOMAIN lines = 1..Len(lines)
    BY FS_Interval
  <2>2. IsFiniteSet(D)
    BY <2>1, FS_Subset
  <2> HIDE DEF D
  <2>3. Cardinality(D) \in Nat
    BY <2>2, FS_CardinalityType
  <2>4. P(i) = 1 + Cardinality(D)
    BY DEF Place, D
  <2> HIDE DEF P
  <2>5. QED
    BY <2>3, <2>4
<1>4. Rank(lines, i, field) = Max({P(j) : j \in same})
  BY DEF Rank
<1> HIDE DEF P, same
<1>5. Max({P(i)}) = P(i)
  BY <1>3 DEF Max
<1>6. QED
  BY <1>2, <1>4, <1>5 DEF P

LEMMA PlacesFollow ==
  ASSUME NEW T, NEW lines \in Seq(T), NEW field, Positive(lines, field), ToldApart(lines)
  PROVE  Places(lines, field)
<1> DEFINE R == Ranked(lines, field)
           D == DOMAIN lines
           N == Cardinality(D)
           c(i) == Cardinality(Below(R, D, i))
<1>1. IsFiniteSet(D) /\ N = Len(lines) /\ D = 1..Len(lines) /\ Len(lines) \in Nat
  <2>1. Len(lines) \in Nat /\ D = 1..Len(lines)
    OBVIOUS
  <2>2. IsFiniteSet(1..Len(lines)) /\ Cardinality(1..Len(lines)) = Len(lines)
    BY <2>1, FS_Interval
  <2>3. QED
    BY <2>1, <2>2
<1>2. IsStrictOrder(R, D)
  BY RankedIsOrder
<1>3. /\ \A n \in 1..N : \E i \in D : c(i) = n - 1
      /\ \A i \in D : c(i) \in 0..(N - 1)
      /\ \A i, j \in D : <<i, j>> \in R => c(i) < c(j)
  <2> HIDE DEF D, R
  <2> QED
    BY <1>1, <1>2, PlacesAreTaken, SMTT(30)
<1>4. ASSUME NEW i \in D PROVE Rank(lines, i, field) = 1 + c(i)
  <2>1. Below(R, D, i) = {j \in D : Better(lines, j, i, field) \/ (j < i /\ ~Better(lines, i, j, field))}
    BY InRanked DEF Below, Before
  <2>2. Place(lines, i, field) = 1 + c(i)
    BY <2>1 DEF Place
  <2>3. QED
    BY <2>2, RankIsPlace
<1> HIDE DEF c
<1>5. \A i, j \in D : Better(lines, j, i, field) => <<j, i>> \in R
  BY InRanked DEF Before
<1> HIDE DEF R, N, D
<1>6. {Rank(lines, i, field) : i \in D} = D
  <2>1. ASSUME NEW i \in D PROVE Rank(lines, i, field) \in D
    <3>1. c(i) \in 0..(N - 1) /\ Rank(lines, i, field) = 1 + c(i)
      BY <1>3, <1>4
    <3>2. QED
      BY <1>1, <3>1
  <2>2. ASSUME NEW n \in D PROVE \E i \in D : Rank(lines, i, field) = n
    <3>1. PICK i \in D : c(i) = n - 1
      BY <1>1, <1>3
    <3>2. Rank(lines, i, field) = n
      BY <1>1, <1>4, <3>1
    <3>3. QED
      BY <3>2
  <2>3. QED
    BY <2>1, <2>2
<1>7. ASSUME NEW i \in D, NEW j \in D, Rank(lines, i, field) = 1 PROVE ~Better(lines, j, i, field)
  <2>1. c(i) = 0 /\ c(j) \in Nat
    <3>1. c(i) \in 0..(N - 1) /\ c(j) \in 0..(N - 1) /\ 1 = 1 + c(i)
      BY <1>3, <1>4, <1>7
    <3>2. QED
      BY <1>1, <3>1
  <2>2. ~(c(j) < c(i))
    BY <2>1
  <2>3. QED
    BY <1>3, <1>5, <2>2
<1>8. QED
  BY <1>6, <1>7 DEF Places, D

LEMMA BestIsIn ==
  ASSUME NEW T, NEW lines \in Seq(T), lines # <<>>, NEW field
  PROVE  /\ BestBy(lines, field) \in DOMAIN lines
         /\ (\E i \in DOMAIN lines : Rank(lines, i, field) = 1)
               => Rank(lines, BestBy(lines, field), field) = 1
<1> DEFINE first == {i \in DOMAIN lines : Rank(lines, i, field) = 1}
<1>1. Len(lines) \in Nat /\ DOMAIN lines = 1..Len(lines) /\ 1 \in DOMAIN lines
  OBVIOUS
<1>2. BestBy(lines, field) = IF first = {} THEN 1 ELSE Min(first)
  BY DEF BestBy
<1>3. first # {} => Min(first) \in first
  <2>1. first \in SUBSET (1..Len(lines))
    BY <1>1
  <2> HIDE DEF first
  <2>2. QED
    BY <1>1, <2>1, ExtremesAreIn
<1>4. QED
  BY <1>1, <1>2, <1>3

\* What RankingIsFair says of the lines of a comparison
FairOf(lines) ==
  LET verdict == Recommendation(lines)
  IN Len(lines) >= 2 /\ ToldApart(lines) =>
       /\ {Rank(lines, i, "measured") : i \in DOMAIN lines} = DOMAIN lines
       /\ \A i \in DOMAIN lines : ~Better(lines, i, verdict.best, "measured")
       /\ verdict.top1 => verdict.top3 /\ ~verdict.regret
       /\ ~verdict.regret => \A i \in DOMAIN lines : ~Better(lines, i, verdict.predicted, "measured")
       /\ (\A i \in DOMAIN lines : lines[i].measured = 2 * lines[i].time) => verdict.top1

\* In proportion means lines alike.
LEMMA ProportionRanksAlike ==
  ASSUME NEW lines \in Seq(ComparedRows),
         \A i \in DOMAIN lines : lines[i].measured = 2 * lines[i].time
  PROVE  BestBy(lines, "time") = BestBy(lines, "measured")
<1> DEFINE s(i) == lines[i].shape
           t(i) == lines[i].time
           m(i) == lines[i].measured
<1>1. ASSUME NEW i \in DOMAIN lines PROVE s(i) \in Nat /\ t(i) \in Nat /\ m(i) = 2 * t(i)
  <2>1. lines[i] \in ComparedRows
    OBVIOUS
  <2>2. QED
    BY <2>1 DEF ComparedRows
<1>2. ASSUME NEW i \in DOMAIN lines, NEW j \in DOMAIN lines
      PROVE  Better(lines, i, j, "time") = Better(lines, i, j, "measured")
  <2>1. Better(lines, i, j, "time")
        = IF OneShape(lines) THEN t(i) < t(j) ELSE s(i) * t(j) > s(j) * t(i)
    BY DEF Better
  <2>2. Better(lines, i, j, "measured")
        = IF OneShape(lines) THEN m(i) < m(j) ELSE s(i) * m(j) > s(j) * m(i)
    BY DEF Better
  <2> HIDE DEF s, t, m
  <2>3. (t(i) < t(j)) = (m(i) < m(j))
    BY <1>1
  <2>4. (s(i) * t(j) > s(j) * t(i)) = (s(i) * m(j) > s(j) * m(i))
    <3>1. s(i) * m(j) = 2 * (s(i) * t(j)) /\ s(j) * m(i) = 2 * (s(j) * t(i))
      BY <1>1
    <3>2. s(i) * t(j) \in Int /\ s(j) * t(i) \in Int
      BY <1>1
    <3>3. QED
      BY <3>1, <3>2
  <2>5. QED
    BY <2>1, <2>2, <2>3, <2>4
<1>3. ASSUME NEW i \in DOMAIN lines
      PROVE  Place(lines, i, "time") = Place(lines, i, "measured")
  <2>1. {j \in DOMAIN lines :
           Better(lines, j, i, "time") \/ (j < i /\ ~Better(lines, i, j, "time"))}
        = {j \in DOMAIN lines :
             Better(lines, j, i, "measured") \/ (j < i /\ ~Better(lines, i, j, "measured"))}
    BY <1>2
  <2>2. QED
    BY <2>1 DEF Place
<1>4. ASSUME NEW i \in DOMAIN lines
      PROVE  Rank(lines, i, "time") = Rank(lines, i, "measured")
  <2> DEFINE same == {j \in DOMAIN lines : CandidateKey(lines, j) = CandidateKey(lines, i)}
  <2>1. {Place(lines, j, "time") : j \in same} = {Place(lines, j, "measured") : j \in same}
    BY <1>3
  <2>2. QED
    BY <2>1 DEF Rank
<1>5. {i \in DOMAIN lines : Rank(lines, i, "time") = 1}
      = {i \in DOMAIN lines : Rank(lines, i, "measured") = 1}
  BY <1>4
<1>6. QED
  BY <1>5 DEF BestBy

LEMMA RankingHolds ==
  ASSUME NEW lines \in Seq(ComparedRows), \A i \in DOMAIN lines : lines[i].measured # 0
  PROVE  FairOf(lines)
<1> SUFFICES ASSUME Len(lines) >= 2, ToldApart(lines)
             PROVE  FairOf(lines)
  BY DEF FairOf
<1> DEFINE field == "measured"
           verdict == Recommendation(lines)
           best == BestBy(lines, field)
           predicted == BestBy(lines, "time")
<1>1. Positive(lines, field)
  <2>1. ASSUME NEW i \in DOMAIN lines
        PROVE  lines[i].shape \in Nat /\ lines[i].measured \in Nat \ {0}
    <3>1. lines[i] \in ComparedRows
      OBVIOUS
    <3>2. QED
      BY <3>1 DEF ComparedRows
  <2>2. QED
    BY <2>1 DEF Positive
<1>2. lines # <<>> /\ 1 \in DOMAIN lines
  OBVIOUS
<1>3. /\ {Rank(lines, i, field) : i \in DOMAIN lines} = DOMAIN lines
      /\ \A i, j \in DOMAIN lines : Rank(lines, i, field) = 1 => ~Better(lines, j, i, field)
  BY <1>1, PlacesFollow DEF Places
<1>4. predicted \in DOMAIN lines /\ best \in DOMAIN lines
  BY <1>2, BestIsIn
<1>5. Rank(lines, best, field) = 1
  <2>1. \E i \in DOMAIN lines : Rank(lines, i, field) = 1
    BY <1>2, <1>3
  <2>2. QED
    BY <1>2, <2>1, BestIsIn
<1>6. \A i \in DOMAIN lines : ~Better(lines, i, best, field)
  BY <1>3, <1>4, <1>5
<1>7. /\ verdict.predicted = predicted /\ verdict.best = best
      /\ verdict.top1 = (CandidateKey(lines, predicted) = CandidateKey(lines, best))
      /\ verdict.top3 = (Rank(lines, predicted, field) <= 3)
      /\ verdict.regret = Better(lines, best, predicted, field)
  BY DEF Recommendation
<1>8. verdict.top1 => predicted = best
  BY <1>4, <1>7 DEF ToldApart
<1> HIDE DEF verdict, best, predicted
<1>9. verdict.top1 => verdict.top3 /\ ~verdict.regret
  <2>1. ASSUME verdict.top1 PROVE verdict.top3
    <3>1. Rank(lines, predicted, field) = 1
      BY <1>5, <1>8, <2>1
    <3>2. Rank(lines, predicted, field) <= 3
      BY <3>1
    <3>3. QED
      BY <1>7, <3>2
  <2>2. ASSUME verdict.top1 PROVE ~verdict.regret
    BY <1>4, <1>6, <1>7, <1>8, <2>2
  <2>3. QED
    BY <2>1, <2>2
<1>10. ~verdict.regret => \A i \in DOMAIN lines : ~Better(lines, i, predicted, field)
  <2>1. \A i \in DOMAIN lines :
          ~Better(lines, best, predicted, field) /\ ~Better(lines, i, best, field)
            => ~Better(lines, i, predicted, field)
    BY <1>1, <1>4, BetterIsOrder
  <2>2. QED
    BY <1>6, <1>7, <2>1
<1>11. (\A i \in DOMAIN lines : lines[i].measured = 2 * lines[i].time) => verdict.top1
  <2>1. ASSUME \A i \in DOMAIN lines : lines[i].measured = 2 * lines[i].time
        PROVE  predicted = best
    BY <2>1, ProportionRanksAlike DEF predicted, best
  <2>2. QED
    BY <1>7, <2>1
<1>12. QED
  BY <1>3, <1>6, <1>7, <1>9, <1>10, <1>11 DEF FairOf, verdict

-----------------------------------------------------------------------------
(* The TPU panel.  A request that is running is the one of a runner that is  *)
(* at work, what a request compares are the predictions it was made beside,  *)
(* unless another one has been made meanwhile, and what is compared has rows *)
(* to compare and a time in each.                                            *)

AnyFiles ==
  Uploads \cup {NoFiles} \cup {MeasuredFile(p, times) : p \in DOMAIN Packages, times \in RunTimes}
Calls == [action : {"none", "prepare", "compare", "run-server"}, package : PackageIds,
          files : AnyFiles, at : {"idle", "asked", "running", "answered"},
          result : {"none", "ok", "error"}]
Compares == [package : PackageIds, files : AnyFiles]

PanelShape ==
  /\ settings \in DOMAIN Packages /\ asks \in 0..MaxAsks /\ overlapped \in BOOLEAN
  /\ panel \in [predictions : PackageIds, runner : BOOLEAN, files : AnyFiles,
                comparison : Compares]
  /\ calls \in [CallIds -> Calls]
  /\ children \in [CallIds -> {"none", "runs", "told", "gone"}]
DirShape ==
  dir \in [at : {"idle", "run", "compare", "package", "compared", "failed"},
           shapes : PackageIds, measured : AnyFiles, comparison : Compares]

\* Where a request is and where its runner is.
Attended(call, child) ==
  /\ call.at = "running" <=> child = "runs"
  /\ call.at = "asked" => child \in {"none", "gone"}
  /\ call.at \in {"idle", "asked", "running"} => call.result = "none"
  /\ call.at = "idle" => call.action = "none"
  /\ call.at = "running" => call.action = "run-server"
  /\ call.action = "run-server" /\ call.result = "ok" => child = "gone"
  /\ call.at = "answered" /\ child = "told" => call.result = "error"

OneInFlight ==
  ~overlapped => \A c, d \in CallIds : c # d => calls[c].at = "idle" \/ calls[d].at = "idle"

ComparesShown ==
  ~overlapped => \A c \in CallIds : calls[c].action = "compare" => calls[c].package = panel.predictions

\* A file that is compared with a package, and a request that may be answered with one
Fits(p, file) ==
  p \in DOMAIN Packages /\ Readable(file) /\ Joinable(Packages[p], file.rows) # {}
Vouched(call) ==
  /\ call.at # "idle" => call.action # "none"
  /\ call.action # "none" => call.package \in DOMAIN Packages
  /\ call.action \in {"compare", "run-server"} /\ call.result = "ok"
       => Fits(call.package, call.files)
  /\ call.at = "answered" => call.result # "none"
PanelFits ==
  panel.comparison # NoComparison => Fits(panel.comparison.package, panel.comparison.files)
DirFits ==
  /\ dir.comparison # NoComparison => Fits(dir.comparison.package, dir.comparison.files)
  /\ dir.at # "idle" => dir.shapes \in DOMAIN Packages

TpuInv ==
  /\ PanelShape /\ DirShape
  /\ \A c \in CallIds : Attended(calls[c], children[c]) /\ Vouched(calls[c])
  /\ OneInFlight /\ ComparesShown /\ ComparisonIsOfShown /\ PanelFits /\ DirFits

LEMMA PackageFacts ==
  DOMAIN Packages = 1..Len(Packages) /\ 1 \in DOMAIN Packages /\ DOMAIN Packages \subseteq PackageIds
    /\ 0 \in PackageIds /\ MaxAsks \in Nat
<1>1. Packages \in Seq(Seq(Predictions) \ {<<>>}) /\ Packages # <<>> /\ MaxAsks \in Nat
  BY TpuAssumption DEF Predictions
<1>2. QED
  BY <1>1 DEF PackageIds

RunIsFile(p, file) == file \in TypedFiles /\ Fits(p, file)

\* A run measures every row of its package.
LEMMA RunFile ==
  ASSUME NEW p \in DOMAIN Packages, NEW times \in RunTimes
  PROVE  RunIsFile(p, MeasuredFile(p, times))
<1> DEFINE preds == Packages[p]
           lines == [i \in DOMAIN preds |-> [id |-> preds[i].id, shape |-> preds[i].shape,
                                           median |-> times[i], mean |-> times[i]]]
           timed == [i \in DOMAIN preds |-> [id |-> preds[i].id, shape |-> preds[i].shape,
                                              time |-> times[i]]]
           file == MeasuredFile(p, times)
<1>1. preds \in Seq(Predictions) /\ preds # <<>>
  <2>1. Packages \in Seq(Seq(Predictions) \ {<<>>})
    BY TpuAssumption DEF Predictions
  <2>2. QED
    BY <2>1
<1>2. times \in Seq(Nat \ {0}) /\ Len(preds) <= Len(times)
  BY TpuAssumption
<1>3. file.rows = lines /\ file.samples = timed
  BY DEF MeasuredFile
<1>4. file = [rows |-> lines, samples |-> timed]
  BY DEF MeasuredFile
<1> HIDE DEF preds, file
<1>5. Len(preds) \in Nat /\ DOMAIN preds = 1..Len(preds) /\ 1 \in DOMAIN preds
  BY <1>1
<1>6. \A i \in DOMAIN preds : preds[i] \in Predictions /\ times[i] \in Nat \ {0}
  BY <1>1, <1>2, <1>5
<1>7. /\ lines \in [1..Len(preds) -> Measurements] /\ timed \in [1..Len(preds) -> Samples]
      /\ \A i \in DOMAIN preds : Measured(lines[i]) # 0 /\ lines[i].shape = preds[i].shape
  BY <1>5, <1>6 DEF Measurements, Samples, Predictions, Measured
<1> HIDE DEF lines, timed
<1>8. lines \in Seq(Measurements) /\ timed \in Seq(Samples) /\ DOMAIN lines = DOMAIN preds
  BY <1>5, <1>7
<1>9. file \in TypedFiles
  BY <1>4, <1>8 DEF TypedFiles
<1>10. Readable(file)
  BY <1>3, <1>7, <1>8 DEF Readable, ToSet
<1>11. 1 \in Joinable(preds, lines)
  <2>1. lines[1].shape = preds[1].shape /\ 1 \in DOMAIN lines
    BY <1>5, <1>7, <1>8
  <2>2. JoinedWith(preds[1], lines) # 0
    BY <1>8, <2>1, JoinFacts
  <2>3. QED
    BY <1>5, <2>2 DEF Joinable
<1>12. QED
  BY <1>3, <1>9, <1>10, <1>11 DEF RunIsFile, Fits, preds, file

LEMMA FilesAreTyped == AnyFiles \subseteq TypedFiles
<1>1. NoFiles \in TypedFiles
  BY DEF NoFiles, TypedFiles
<1>2. Uploads \subseteq TypedFiles
  BY TpuAssumption DEF TypedFiles, Measurements, Samples
<1>3. ASSUME NEW p \in DOMAIN Packages, NEW times \in RunTimes
      PROVE  MeasuredFile(p, times) \in TypedFiles
  BY <1>3, RunFile DEF RunIsFile
<1>4. QED
  BY <1>1, <1>2, <1>3 DEF AnyFiles

LEMMA TpuInitInv == TpuInit => TpuInv
<1> SUFFICES ASSUME TpuInit PROVE TpuInv
  OBVIOUS
<1> USE PackageFacts DEF TpuInit
<1>1. NoFiles \in AnyFiles
  BY DEF AnyFiles
<1>2. NoComparison \in Compares /\ NoCall \in Calls
  BY <1>1 DEF NoComparison, NoCall, Compares, Calls
<1>3. PanelShape
  <2>1. settings \in DOMAIN Packages /\ asks \in 0..MaxAsks /\ overlapped \in BOOLEAN
    <3>1. settings \in DOMAIN Packages /\ asks \in 0..MaxAsks
      OBVIOUS
    <3>2. overlapped = FALSE
      OBVIOUS
    <3>3. QED
      BY <3>1, <3>2
  <2>2. panel \in [predictions : PackageIds, runner : BOOLEAN, files : AnyFiles,
                   comparison : Compares]
    BY <1>1, <1>2
  <2>3. /\ calls \in [CallIds -> Calls]
        /\ children \in [CallIds -> {"none", "runs", "told", "gone"}]
    BY <1>2
  <2>4. QED
    BY <2>1, <2>2, <2>3 DEF PanelShape
<1>4. DirShape
  BY <1>1, <1>2 DEF DirShape
<1>5. \A c \in CallIds : Attended(calls[c], children[c]) /\ Vouched(calls[c])
  BY DEF Attended, Vouched, NoCall
<1>6. OneInFlight /\ ComparesShown
  BY DEF OneInFlight, ComparesShown, NoCall
<1>7. ComparisonIsOfShown /\ PanelFits /\ DirFits
  BY DEF ComparisonIsOfShown, PanelFits, DirFits
<1>8. QED
  BY <1>3, <1>4, <1>5, <1>6, <1>7 DEF TpuInv

\* A step of one request, with what it leaves alone.
RequestStep(c, call, child) ==
  /\ calls' = [calls EXCEPT ![c] = call]
  /\ children' = [children EXCEPT ![c] = child]
  /\ UNCHANGED <<settings, enabled, runner, dir>>

\* A step of one request that keeps to its part keeps the invariant, when it is the
\* only one in flight or has been noticed, and when it is not about the predictions.
LEMMA RequestKeeps ==
  ASSUME TpuInv, NEW c \in CallIds, NEW call \in Calls,
         NEW child \in {"none", "runs", "told", "gone"},
         RequestStep(c, call, child), Attended(call, child), Vouched(call), UNCHANGED panel,
         asks' \in 0..MaxAsks, overlapped' \in BOOLEAN, overlapped => overlapped',
         call.action = "compare" =>
           \/ (calls[c].action = "compare" /\ call.package = calls[c].package)
           \/ call.package = panel.predictions,
         \/ call.at = "idle" \/ calls[c].at # "idle" \/ overlapped'
         \/ \A d \in CallIds \ {c} : calls[d].at = "idle"
  PROVE  TpuInv'
<1>1. PanelShape' /\ DirShape'
  BY DEF TpuInv, PanelShape, DirShape, RequestStep
<1>2. /\ calls'[c] = call /\ children'[c] = child
      /\ \A d \in CallIds : d # c => calls'[d] = calls[d] /\ children'[d] = children[d]
  BY DEF TpuInv, PanelShape, RequestStep
<1>3. \A d \in CallIds : Attended(calls'[d], children'[d]) /\ Vouched(calls'[d])
  BY <1>2 DEF TpuInv
<1>4. OneInFlight'
  BY <1>2 DEF TpuInv, OneInFlight
<1>5. ComparesShown'
  BY <1>2 DEF TpuInv, ComparesShown
<1>6. ComparisonIsOfShown' /\ PanelFits' /\ DirFits'
  BY DEF TpuInv, ComparisonIsOfShown, PanelFits, DirFits, RequestStep
<1>7. QED
  BY <1>1, <1>3, <1>4, <1>5, <1>6 DEF TpuInv

\* What an answer makes of a request.
LEMMA AnswerFacts ==
  ASSUME TpuInv, NEW c \in CallIds, NEW result \in {"ok", "error"}, NEW files \in AnyFiles,
         Answer(c, result, files)
  PROVE  \E call \in Calls :
           /\ calls' = [calls EXCEPT ![c] = call]
           /\ call.at = "answered" /\ call.result = result /\ call.files = files
           /\ call.action = calls[c].action /\ call.package = calls[c].package
<1> DEFINE call == [calls[c] EXCEPT !.at = "answered", !.result = result, !.files = files]
<1>1. calls[c] \in Calls
  BY DEF TpuInv, PanelShape
<1>2. /\ call \in Calls /\ call.at = "answered" /\ call.result = result /\ call.files = files
      /\ call.action = calls[c].action /\ call.package = calls[c].package
  BY <1>1 DEF Calls
<1>3. calls' = [calls EXCEPT ![c] = call]
  BY DEF Answer, TpuInv, PanelShape
<1>4. QED
  BY <1>2, <1>3

LEMMA PanelStepInv == TpuInv /\ PanelNext => TpuInv'
<1> SUFFICES ASSUME TpuInv, PanelNext PROVE TpuInv'
  OBVIOUS
<1> USE PackageFacts
<1>1. ASSUME NEW p \in DOMAIN Packages, EditSettings(p) PROVE TpuInv'
  BY <1>1 DEF EditSettings, TpuInv, PanelShape, DirShape, OneInFlight, ComparesShown,
              ComparisonIsOfShown, PanelFits, DirFits
<1>2. ASSUME NEW f \in Uploads, UploadFiles(f) PROVE TpuInv'
  <2>1. panel' = [panel EXCEPT !.files = f] /\ f \in AnyFiles
    BY <1>2 DEF UploadFiles, AnyFiles
  <2>2. /\ panel' \in [predictions : PackageIds, runner : BOOLEAN, files : AnyFiles,
                       comparison : Compares]
        /\ panel'.predictions = panel.predictions /\ panel'.comparison = panel.comparison
    BY <2>1 DEF TpuInv, PanelShape
  <2>3. UNCHANGED <<settings, calls, children, asks, overlapped, dir>>
    BY <1>2 DEF UploadFiles
  <2>4. QED
    BY <2>2, <2>3 DEF TpuInv, PanelShape, DirShape, OneInFlight, ComparesShown,
                      ComparisonIsOfShown, PanelFits, DirFits
<1>3. ASSUME NEW c \in CallIds, NEW action \in {"prepare", "compare", "run-server"},
             Ask(c, action)
      PROVE  TpuInv'
  <2> DEFINE call ==
        [action |-> action, files |-> IF action = "compare" THEN panel.files ELSE NoFiles,
         package |-> IF action = "compare" THEN panel.predictions ELSE settings,
         at |-> "asked", result |-> "none"]
  <2>1. call \in Calls
    <3>1. NoFiles \in AnyFiles
      BY DEF AnyFiles
    <3>2. panel.files \in AnyFiles /\ panel.predictions \in PackageIds /\ settings \in PackageIds
      BY DEF TpuInv, PanelShape
    <3>3. QED
      BY <3>1, <3>2 DEF Calls
  <2>2. /\ call.action = action /\ call.at = "asked" /\ call.result = "none"
        /\ call.package = IF call.action = "compare" THEN panel.predictions ELSE settings
    OBVIOUS
  <2>3. /\ calls[c].at = "idle" /\ children[c] \in {"none", "gone"} /\ asks < MaxAsks
        /\ action = "compare" => panel.predictions # 0
        /\ calls' = [calls EXCEPT ![c] = call] /\ asks' = asks + 1
        /\ overlapped' = (overlapped \/ \E d \in CallIds : calls[d].at # "idle")
        /\ UNCHANGED <<settings, enabled, runner, panel, children, dir>>
    BY <1>3 DEF Ask
  <2> HIDE DEF call
  <2>4. children' = [children EXCEPT ![c] = children[c]]
    BY <2>3 DEF TpuInv, PanelShape
  <2>5. RequestStep(c, call, children[c]) /\ Attended(call, children[c]) /\ Vouched(call)
    <3>1. call.package \in DOMAIN Packages
      <4>1. panel.predictions \in PackageIds /\ settings \in DOMAIN Packages
        BY DEF TpuInv, PanelShape
      <4>2. QED
        BY <2>2, <2>3, <4>1 DEF PackageIds
    <3>2. QED
      BY <2>2, <2>3, <2>4, <3>1 DEF RequestStep, Attended, Vouched
  <2>6. asks' \in 0..MaxAsks
    BY <2>3 DEF TpuInv, PanelShape
  <2>7. overlapped' \in BOOLEAN /\ (overlapped => overlapped')
    BY <2>3 DEF TpuInv, PanelShape
  <2>8. overlapped' \/ \A d \in CallIds \ {c} : calls[d].at = "idle"
    BY <2>3
  <2>9. children[c] \in {"none", "runs", "told", "gone"}
    BY DEF TpuInv, PanelShape
  <2>10. QED
    BY <2>1, <2>2, <2>3, <2>5, <2>6, <2>7, <2>8, <2>9, RequestKeeps
<1>4. ASSUME NEW c \in CallIds, NEW child \in {"none", "runs", "told", "gone"},
             NEW result \in {"ok", "error"}, NEW files \in AnyFiles,
             Answer(c, result, files), children' = [children EXCEPT ![c] = child],
             child # "runs", child = "told" => result = "error",
             calls[c].action = "run-server" /\ result = "ok" => child = "gone",
             calls[c].action \in {"compare", "run-server"} /\ result = "ok"
               => Fits(calls[c].package, files),
             calls[c].at # "idle",
             UNCHANGED <<settings, enabled, runner, panel, asks, overlapped, dir>>
      PROVE  TpuInv'
  <2>1. PICK call \in Calls :
          /\ calls' = [calls EXCEPT ![c] = call]
          /\ call.at = "answered" /\ call.result = result /\ call.files = files
          /\ call.action = calls[c].action /\ call.package = calls[c].package
    BY <1>4, AnswerFacts
  <2>2. RequestStep(c, call, child) /\ Attended(call, child) /\ Vouched(call)
    <3>1. Vouched(calls[c])
      BY DEF TpuInv
    <3>2. QED
      BY <1>4, <2>1, <3>1 DEF RequestStep, Attended, Vouched
  <2>3. asks' \in 0..MaxAsks /\ overlapped' \in BOOLEAN /\ (overlapped => overlapped')
    BY <1>4 DEF TpuInv, PanelShape
  <2>4. QED
    BY <1>4, <2>1, <2>2, <2>3, RequestKeeps
<1>5. ASSUME NEW c \in CallIds
      PROVE  /\ Attended(calls[c], children[c]) /\ Vouched(calls[c]) /\ calls[c] \in Calls
             /\ children[c] \in {"none", "runs", "told", "gone"}
             /\ children = [children EXCEPT ![c] = children[c]]
             /\ NoFiles \in AnyFiles
  BY DEF TpuInv, PanelShape, AnyFiles
<1>6. ASSUME NEW c \in CallIds, ServePrepare(c) PROVE TpuInv'
  <2>1. /\ calls[c].at = "asked" /\ calls[c].action = "prepare" /\ Answer(c, "ok", NoFiles)
        /\ UNCHANGED <<settings, enabled, runner, panel, children, asks, overlapped, dir>>
    BY <1>6 DEF ServePrepare
  <2>2. children[c] \in {"none", "gone"}
    BY <1>5, <2>1 DEF Attended
  <2>3. QED
    BY <1>4, <1>5, <2>1, <2>2
<1>7. ASSUME NEW c \in CallIds, ServeCompare(c) PROVE TpuInv'
  <2>1. PICK result \in {"ok", "error"} :
          /\ Answer(c, result, calls[c].files)
          /\ result = "ok" => /\ Readable(calls[c].files)
                             /\ Joinable(Packages[calls[c].package], calls[c].files.rows) # {}
    BY <1>7 DEF ServeCompare
  <2>2. /\ calls[c].at = "asked" /\ calls[c].action = "compare"
        /\ UNCHANGED <<settings, enabled, runner, panel, children, asks, overlapped, dir>>
    BY <1>7 DEF ServeCompare
  <2>3. /\ children[c] \in {"none", "gone"} /\ calls[c].files \in AnyFiles
        /\ result = "ok" => Fits(calls[c].package, calls[c].files)
    BY <1>5, <2>1, <2>2 DEF Attended, Vouched, Calls, Fits
  <2>4. QED
    BY <1>4, <1>5, <2>1, <2>2, <2>3
<1>8. ASSUME NEW c \in CallIds, StartRunner(c) PROVE TpuInv'
  <2> DEFINE call == [calls[c] EXCEPT !.at = "running"]
  <2>1. /\ calls[c].at = "asked" /\ calls[c].action = "run-server"
        /\ calls' = [calls EXCEPT ![c] = call] /\ children' = [children EXCEPT ![c] = "runs"]
        /\ UNCHANGED <<settings, enabled, runner, panel, asks, overlapped, dir>>
    BY <1>8 DEF StartRunner, TpuInv, PanelShape
  <2>2. /\ call \in Calls /\ call.at = "running" /\ call.action = "run-server"
        /\ call.result = "none" /\ call.package = calls[c].package
    BY <1>5, <2>1 DEF Calls, Attended
  <2> HIDE DEF call
  <2>3. RequestStep(c, call, "runs") /\ Attended(call, "runs") /\ Vouched(call)
    BY <1>5, <2>1, <2>2 DEF RequestStep, Attended, Vouched
  <2>4. asks' \in 0..MaxAsks /\ overlapped' \in BOOLEAN /\ (overlapped => overlapped')
    BY <2>1 DEF TpuInv, PanelShape
  <2>5. QED
    BY <2>1, <2>2, <2>3, <2>4, RequestKeeps
<1>9. ASSUME NEW c \in CallIds, RunnerCloses(c) PROVE TpuInv'
  <2>1. /\ children[c] = "runs" /\ children' = [children EXCEPT ![c] = "gone"]
        /\ UNCHANGED <<settings, enabled, runner, panel, asks, overlapped, dir>>
    BY <1>9 DEF RunnerCloses
  <2>2. calls[c].at = "running" /\ calls[c].action = "run-server"
    BY <1>5, <2>1 DEF Attended
  <2>3. PICK result \in {"ok", "error"}, files \in AnyFiles :
          Answer(c, result, files) /\ (result = "ok" => Fits(calls[c].package, files))
    <3>1. CASE Answer(c, "error", NoFiles)
      BY <1>5, <3>1
    <3>2. CASE \E times \in RunTimes : Answer(c, "ok", MeasuredFile(calls[c].package, times))
      <4>1. PICK times \in RunTimes : Answer(c, "ok", MeasuredFile(calls[c].package, times))
        BY <3>2
      <4>2. calls[c].package \in DOMAIN Packages
        BY <1>5, <2>2 DEF Vouched
      <4>3. MeasuredFile(calls[c].package, times) \in AnyFiles
        BY <4>2 DEF AnyFiles
      <4>4. Fits(calls[c].package, MeasuredFile(calls[c].package, times))
        BY <4>2, RunFile DEF RunIsFile
      <4>5. QED
        BY <4>1, <4>3, <4>4
    <3>3. QED
      BY <1>9, <3>1, <3>2 DEF RunnerCloses
  <2>4. QED
    BY <1>4, <2>1, <2>2, <2>3
<1>10. ASSUME NEW c \in CallIds, RunTimesOut(c) PROVE TpuInv'
  <2>1. /\ calls[c].at = "running" /\ children' = [children EXCEPT ![c] = "told"]
        /\ Answer(c, "error", NoFiles)
        /\ UNCHANGED <<settings, enabled, runner, panel, asks, overlapped, dir>>
    BY <1>10 DEF RunTimesOut
  <2>2. QED
    BY <1>4, <1>5, <2>1
<1>11. ASSUME NEW c \in CallIds, RunnerObeys(c) PROVE TpuInv'
  <2>1. /\ children[c] = "told" /\ children' = [children EXCEPT ![c] = "gone"]
        /\ UNCHANGED <<settings, enabled, runner, panel, calls, asks, overlapped, dir>>
    BY <1>11 DEF RunnerObeys
  <2>2. calls' = [calls EXCEPT ![c] = calls[c]]
    BY <2>1 DEF TpuInv, PanelShape
  <2>3. RequestStep(c, calls[c], "gone") /\ Attended(calls[c], "gone")
    BY <1>5, <2>1, <2>2 DEF RequestStep, Attended
  <2>4. asks' \in 0..MaxAsks /\ overlapped' \in BOOLEAN /\ (overlapped => overlapped')
    BY <2>1 DEF TpuInv, PanelShape
  <2>5. QED
    BY <1>5, <2>1, <2>3, <2>4, RequestKeeps
<1>12. ASSUME NEW c \in CallIds, Receive(c) PROVE TpuInv'
  <2> DEFINE call == calls[c]
             compared == [package |-> call.package, files |-> call.files]
  <2>1. /\ calls[c].at = "answered" /\ calls' = [calls EXCEPT ![c] = NoCall]
        /\ UNCHANGED <<settings, enabled, runner, children, asks, overlapped, dir>>
    BY <1>12 DEF Receive
  <2>2. \/ panel' = panel
        \/ panel' = [panel EXCEPT !.predictions = call.package, !.runner = TRUE,
                                  !.comparison = NoComparison]
        \/ /\ panel' = [panel EXCEPT !.predictions = call.package, !.files = call.files,
                                     !.comparison = compared]
           /\ Fits(call.package, call.files)
        \/ /\ call.action = "compare" /\ panel' = [panel EXCEPT !.comparison = compared]
           /\ Fits(call.package, call.files)
    <3>1. CASE call.result = "error"
      BY <1>12, <3>1 DEF Receive
    <3>2. CASE call.result = "ok" /\ call.action = "prepare"
      BY <1>12, <3>2 DEF Receive
    <3>3. CASE call.result = "ok" /\ call.action = "compare"
      BY <1>5, <1>12, <3>3 DEF Receive, Vouched
    <3>4. CASE call.result # "error" /\ ~(call.result = "ok" /\ call.action \in {"prepare", "compare"})
      <4>1. call.result = "ok" /\ call.action = "run-server"
        BY <1>5, <2>1, <3>4 DEF Vouched, Calls
      <4>2. Fits(call.package, call.files)
        BY <1>5, <4>1 DEF Vouched
      <4>3. QED
        BY <1>12, <3>4, <4>2 DEF Receive
    <3>5. QED
      BY <3>1, <3>2, <3>3, <3>4
  <2>3. /\ call \in Calls /\ compared \in Compares /\ NoComparison \in Compares
        /\ compared.package = call.package /\ compared.files = call.files
    BY <1>5 DEF Calls, Compares, NoComparison
  <2>4. panel \in [predictions : PackageIds, runner : BOOLEAN, files : AnyFiles,
                   comparison : Compares]
    BY DEF TpuInv, PanelShape
  <2>5. /\ panel' \in [predictions : PackageIds, runner : BOOLEAN, files : AnyFiles,
                       comparison : Compares]
        /\ \/ panel'.comparison = NoComparison
           \/ /\ panel'.comparison = compared /\ Fits(call.package, call.files)
              /\ panel'.predictions = call.package \/ call.action = "compare"
           \/ panel'.comparison = panel.comparison
        /\ \/ panel'.predictions = panel.predictions
           \/ panel'.predictions = call.package /\ panel'.comparison \in {NoComparison, compared}
        /\ panel'.comparison = compared /\ call.action = "compare" =>
              panel'.predictions \in {panel.predictions, call.package}
    <3>1. call.package \in PackageIds /\ call.files \in AnyFiles
      BY <2>3 DEF Calls
    <3> HIDE DEF call, compared
    <3>2. QED
      BY <2>2, <2>3, <2>4, <3>1
  <2>6. /\ calls'[c] = NoCall /\ \A d \in CallIds : d # c => calls'[d] = calls[d]
    BY <2>1 DEF TpuInv, PanelShape
  <2>7. /\ NoCall \in Calls /\ NoCall.at = "idle" /\ NoCall.action = "none"
        /\ NoCall.result = "none"
    BY <1>5 DEF NoCall, Calls
  <2>8. PanelShape' /\ DirShape'
    BY <2>1, <2>5, <2>7 DEF TpuInv, PanelShape, DirShape
  <2>9. \A d \in CallIds : Attended(calls'[d], children'[d]) /\ Vouched(calls'[d])
    <3>1. Attended(NoCall, children[c]) /\ Vouched(NoCall)
      BY <1>5, <2>1, <2>7 DEF Attended, Vouched
    <3>2. QED
      BY <1>5, <2>1, <2>6, <3>1
  <2>10. OneInFlight'
    BY <2>1, <2>6, <2>7 DEF TpuInv, OneInFlight
  <2>11. ~overlapped => \A d \in CallIds : calls'[d].action # "compare"
    <3>1. ASSUME ~overlapped, NEW d \in CallIds, d # c PROVE calls[d].action = "none"
      BY <1>5, <2>1, <3>1 DEF TpuInv, OneInFlight, Attended
    <3>2. QED
      BY <2>6, <2>7, <3>1
  <2>12. ComparesShown'
    BY <2>1, <2>11 DEF ComparesShown
  <2>13. ComparisonIsOfShown'
    <3>1. ASSUME ~overlapped, panel'.comparison # NoComparison
          PROVE  panel'.comparison.package = panel'.predictions
      <4>1. call.action = "compare" => call.package = panel.predictions
        BY <3>1 DEF TpuInv, ComparesShown
      <4>2. panel.comparison # NoComparison => panel.comparison.package = panel.predictions
        BY <3>1 DEF TpuInv, ComparisonIsOfShown
      <4> HIDE DEF call, compared
      <4>3. QED
        BY <2>3, <2>5, <3>1, <4>1, <4>2
    <3>2. dir'.at = "compared" => dir'.comparison.package = dir'.shapes
      BY <2>1 DEF TpuInv, ComparisonIsOfShown
    <3>3. QED
      BY <2>1, <3>1, <3>2 DEF ComparisonIsOfShown
  <2>14. PanelFits' /\ DirFits'
    <3>1. DirFits'
      BY <2>1 DEF TpuInv, DirFits
    <3>2. PanelFits
      BY DEF TpuInv
    <3> HIDE DEF call, compared
    <3>3. PanelFits'
      BY <2>3, <2>5, <3>2 DEF PanelFits
    <3>4. QED
      BY <3>1, <3>3
  <2>15. QED
    BY <2>8, <2>9, <2>10, <2>12, <2>13, <2>14 DEF TpuInv
<1>13. QED
  BY <1>1, <1>2, <1>3, <1>6, <1>7, <1>8, <1>9, <1>10, <1>11, <1>12 DEF PanelNext, TpuServer

LEMMA SimpleStepInv == TpuInv /\ SimpleNext => TpuInv'
<1> SUFFICES ASSUME TpuInv, SimpleNext PROVE TpuInv'
  OBVIOUS
<1> USE PackageFacts
<1>1. ASSUME DirShape', dir'.at = "compared" => dir'.comparison.package = dir'.shapes,
             DirFits',
             asks' \in 0..MaxAsks,
             UNCHANGED <<settings, panel, calls, children, overlapped>>
      PROVE  TpuInv'
  BY <1>1 DEF TpuInv, PanelShape, OneInFlight, ComparesShown, ComparisonIsOfShown, PanelFits
<1>2. /\ dir \in [at : {"idle", "run", "compare", "package", "compared", "failed"},
                  shapes : PackageIds, measured : AnyFiles, comparison : Compares]
      /\ asks \in 0..MaxAsks
      /\ dir.comparison # NoComparison => Fits(dir.comparison.package, dir.comparison.files)
      /\ dir.at # "idle" => dir.shapes \in DOMAIN Packages
  BY DEF TpuInv, DirShape, DirFits, PanelShape
<1>3. ASSUME NEW p \in DOMAIN Packages, SimplePrepare(p) PROVE TpuInv'
  <2>1. PICK then \in {"run", "compare"} : dir' = [dir EXCEPT !.at = then, !.shapes = p]
    BY <1>3 DEF SimplePrepare
  <2>2. asks' \in 0..MaxAsks /\ UNCHANGED <<settings, panel, calls, children, overlapped>>
    BY <1>2, <1>3 DEF SimplePrepare
  <2>3. DirShape' /\ dir'.at # "compared" /\ DirFits'
    BY <1>2, <2>1 DEF DirShape, DirFits
  <2>4. QED
    BY <1>1, <2>2, <2>3
<1>4. CASE SimpleRun
  <2>1. UNCHANGED <<settings, panel, calls, children, overlapped, asks>>
    BY <1>4 DEF SimpleRun, panelvars
  <2>2. CASE dir' = [dir EXCEPT !.at = "failed"]
    <3>1. DirShape' /\ dir'.at # "compared" /\ DirFits'
      BY <1>2, <1>4, <2>2 DEF SimpleRun, DirShape, DirFits
    <3>2. QED
      BY <1>1, <1>2, <2>1, <3>1
  <2>3. CASE \E times \in RunTimes :
               dir' = [dir EXCEPT !.at = "compare", !.measured = MeasuredFile(dir.shapes, times)]
    <3>1. PICK times \in RunTimes :
            dir' = [dir EXCEPT !.at = "compare", !.measured = MeasuredFile(dir.shapes, times)]
      BY <2>3
    <3>2. MeasuredFile(dir.shapes, times) \in AnyFiles
      <4>1. dir.shapes \in DOMAIN Packages
        BY <1>2, <1>4 DEF SimpleRun
      <4>2. QED
        BY <4>1 DEF AnyFiles
    <3>3. DirShape' /\ dir'.at # "compared" /\ DirFits'
      BY <1>2, <1>4, <3>1, <3>2 DEF SimpleRun, DirShape, DirFits
    <3>4. QED
      BY <1>1, <1>2, <2>1, <3>3
  <2>4. QED
    BY <1>4, <2>2, <2>3 DEF SimpleRun
<1>5. CASE SimpleCompare
  <2>1. UNCHANGED <<settings, panel, calls, children, overlapped, asks>>
    BY <1>5 DEF SimpleCompare, panelvars
  <2>2. PICK file \in {dir.measured} \cup Uploads :
          \/ \E at \in {"package", "failed"} : dir' = [dir EXCEPT !.at = at]
          \/ /\ dir' = [dir EXCEPT !.at = "compared",
                                  !.comparison = [package |-> dir.shapes, files |-> file]]
             /\ Readable(file) /\ Joinable(Packages[dir.shapes], file.rows) # {}
    BY <1>5 DEF SimpleCompare
  <2>3. [package |-> dir.shapes, files |-> file] \in Compares
    BY <1>2 DEF Compares, AnyFiles
  <2>4. DirShape' /\ DirFits' /\ (dir'.at = "compared" => dir'.comparison.package = dir'.shapes)
    <3>1. CASE \E at \in {"package", "failed"} : dir' = [dir EXCEPT !.at = at]
      BY <1>2, <1>5, <3>1 DEF SimpleCompare, DirShape, DirFits
    <3>2. CASE /\ dir' = [dir EXCEPT !.at = "compared",
                                     !.comparison = [package |-> dir.shapes, files |-> file]]
               /\ Readable(file) /\ Joinable(Packages[dir.shapes], file.rows) # {}
      <4> DEFINE comparison == [package |-> dir.shapes, files |-> file]
      <4>1. /\ comparison \in Compares /\ comparison.package = dir.shapes
            /\ comparison.files = file
        BY <2>3
      <4>2. dir.shapes \in DOMAIN Packages
        BY <1>2, <1>5 DEF SimpleCompare
      <4>3. Fits(comparison.package, comparison.files)
        BY <3>2, <4>1, <4>2 DEF Fits
      <4> HIDE DEF comparison
      <4>4. dir' = [dir EXCEPT !.at = "compared", !.comparison = comparison]
        BY <3>2 DEF comparison
      <4>5. QED
        BY <1>2, <4>1, <4>2, <4>3, <4>4 DEF DirShape, DirFits
    <3>3. QED
      BY <2>2, <3>1, <3>2
  <2>5. QED
    BY <1>1, <1>2, <2>1, <2>4
<1>6. QED
  BY <1>3, <1>4, <1>5 DEF SimpleNext

LEMMA TpuStepInv == TpuInv /\ [PanelNext \/ SimpleNext]_tpuvars => TpuInv'
<1>1. TpuInv /\ UNCHANGED tpuvars => TpuInv'
  BY DEF tpuvars, TpuInv, PanelShape, DirShape, OneInFlight, ComparesShown, ComparisonIsOfShown,
         PanelFits, DirFits
<1>2. QED
  BY <1>1, PanelStepInv, SimpleStepInv

LEMMA TpuInvSays == TpuInv => TpuTypeOK /\ RunsAreAnswered /\ ComparisonIsOfShown
<1> SUFFICES ASSUME TpuInv PROVE TpuTypeOK /\ RunsAreAnswered
  BY DEF TpuInv
<1>1. TpuTypeOK
  BY DEF TpuInv, PanelShape, DirShape, Calls, TpuTypeOK
<1>2. ASSUME ~overlapped PROVE Cardinality({c \in CallIds : children[c] = "runs"}) <= 1
  <2> DEFINE R == {c \in CallIds : children[c] = "runs"}
  <2>1. ~(children[1] = "runs" /\ children[2] = "runs")
    BY <1>2 DEF TpuInv, Attended, OneInFlight, CallIds
  <2>2. R = {} \/ \E c \in CallIds : R = {c}
    BY <2>1 DEF CallIds
  <2>3. QED
    BY <2>2, FS_EmptySet, FS_Singleton
<1>3. ASSUME NEW c \in CallIds
      PROVE  /\ calls[c].at = "running" <=> children[c] = "runs"
             /\ calls[c].action = "run-server" /\ calls[c].result = "ok" => children[c] = "gone"
             /\ children[c] = "told" /\ calls[c].at = "answered" => calls[c].result = "error"
  BY DEF TpuInv, Attended
<1>4. QED
  BY <1>1, <1>2, <1>3 DEF RunsAreAnswered

LEMMA TpuJoinSays == TpuInv => JoinIsOwn /\ RankingIsFair
<1> SUFFICES ASSUME TpuInv PROVE JoinIsOwn /\ RankingIsFair
  OBVIOUS
<1>1. ASSUME NEW cmp \in Comparisons
      PROVE  /\ JoinOf(Packages[cmp.package], cmp.files)
             /\ FairOf(Compared(Packages[cmp.package], cmp.files))
  <2> DEFINE preds == Packages[cmp.package]
             file == cmp.files
             lines == Compared(preds, file)
  <2>1. /\ cmp \in Compares /\ cmp.package \in DOMAIN Packages
        /\ Readable(file) /\ Joinable(preds, file.rows) # {}
    BY DEF Comparisons, TpuInv, PanelFits, DirFits, Fits, PanelShape, DirShape
  <2>2. preds \in Seq(Predictions) /\ file \in TypedFiles
    <3>1. Packages \in Seq(Seq(Predictions) \ {<<>>})
      BY TpuAssumption DEF Predictions
    <3>2. cmp.files \in AnyFiles
      BY <2>1 DEF Compares
    <3>3. QED
      BY <2>1, <3>1, <3>2, FilesAreTyped
  <2> HIDE DEF preds, file
  <2>3. JoinOf(preds, file)
    BY <2>1, <2>2, JoinHolds
  <2>4. ComparesKept(preds, file.rows, Joinable(preds, file.rows), lines)
    BY <2>2, ComparedFacts
  <2>5. ASSUME NEW n \in DOMAIN lines PROVE lines[n].measured # 0
    <3>1. PICK i \in Joinable(preds, file.rows) : lines[n] = ComparedRow(preds[i], file.rows)
      BY <2>4 DEF ComparesKept
    <3> DEFINE j == JoinedWith(preds[i], file.rows)
    <3>2. j # 0
      BY DEF Joinable
    <3>3. j \in DOMAIN file.rows
      BY <2>2, <3>2, JoinFacts DEF TypedFiles
    <3>4. Measured(file.rows[j]) # 0
      BY <2>1, <3>3 DEF Readable, ToSet
    <3>5. lines[n].measured = Measured(file.rows[j])
      BY <3>1 DEF ComparedRow
    <3>6. QED
      BY <3>4, <3>5
  <2> HIDE DEF lines
  <2>6. FairOf(lines)
    BY <2>4, <2>5, RankingHolds DEF ComparesKept
  <2>7. QED
    BY <2>3, <2>6 DEF lines, preds, file
<1>2. JoinIsOwn
  BY <1>1 DEF JoinIsOwn, JoinOf, Matched, PlaceIn
<1>3. RankingIsFair
  BY <1>1 DEF RankingIsFair, FairOf
<1>4. QED
  BY <1>2, <1>3

-----------------------------------------------------------------------------
(* All parts together *)

\* A step is one of a part, or none for it.
LEMMA PartsStep ==
  ASSUME [Next]_allVars
  PROVE  /\ [FileNext]_fvars
         /\ [PoolNext]_pvars
         /\ [CacheNext]_cvars
         /\ [ToolNext]_tvars
         /\ [ActiveNext]_avars
         /\ [TrainingNext]_svars
         /\ [ListingNext]_lvars
         /\ [LiveNext]_livars
         /\ [WorkbenchNext]_wvars
         /\ [PanelNext \/ SimpleNext]_tpuvars
         /\ [StoreMove]_storeVars
         /\ part = "walks" => [WalkMove]_storeVars
         /\ [SchemaNext]_schemaVars
         /\ part' = part
<1>1. CASE UNCHANGED allVars
  BY <1>1 DEF allVars, svVars
<1>2. CASE Next
  BY <1>2 DEF Next, ButFile, ButPool, ButCache, ButTool, ButActive, ButTraining,
              ButListing, ButLive, ButPage, ButTpu, ButStore, ButSchema, svVars,
              StoreMove, WalkMove, StoreCreations, Creators
<1>3. QED
  BY <1>1, <1>2

ServicesInv ==
  /\ FileInv /\ PoolInv /\ CacheInv /\ ToolInv /\ ActiveInv /\ TrainingInv
  /\ ListingInv /\ LiveInv /\ WorkbenchInv /\ TpuInv
  /\ CleanupInv /\ NamesInv /\ SchemaInv
  /\ part = "walks" => WalksInv

LEMMA ServicesInitInv == Init => ServicesInv
BY FileInitInv, PoolInitInv, CacheInitInv, ToolInitInv, ActiveInitInv, TrainingInitInv,
   ListingInitInv, LiveInitInv, WorkbenchInitInv, TpuInitInv, StoreInitInv, SchemaInitInv
   DEF Init, ServicesInv

LEMMA ServicesStepInv == ServicesInv /\ [Next]_allVars => ServicesInv'
BY PartsStep, FileStepInv, PoolStepInv, CacheStepInv, ToolStepInv, ActiveStepInv,
   TrainingStepInv, ListingStepInv, LiveStepInv, WorkbenchStepInv, TpuStepInv, CleanupStep,
   NamesStep, WalksStep, SchemaStepInv
   DEF ServicesInv

LEMMA ServicesInvHolds == Spec => []ServicesInv
BY ServicesInitInv, ServicesStepInv, PTL DEF Spec

\* Every file is replaced as one that implements the register, beside the other services.
THEOREM FilesAreRegisters == Spec => AtomicWrites
<1>1. Init => FileInit
  BY DEF Init
<1>2. [Next]_allVars => [FileNext]_fvars
  BY PartsStep
<1>3. QED
  BY <1>1, <1>2, FileIsARegister, PTL DEF Spec, FileSpec

\* A temporary file that atomicWriteFile leaves is explained by a failed rm, a failed sync
\* or a crash, a damaged cache entry by writers that overlapped or died, and each attempt
\* that was lost to the cache is paid for by a job that is through.
THEOREM FilesAreSound == Spec => []FilesSound
<1>1. ServicesInv => FilesSound
  BY CacheInvSays DEF ServicesInv, FileInv, TmpFollows, NoTmpLeft, FilesSound
<1>2. QED
  BY <1>1, ServicesInvHolds, PTL

\* The pool's answer is complete, and it counts as active exactly the threads that owe it
\* something; of the tools of a job one runs at a time, and the report read is its own;
\* a benchmark that is answered well has been run to its end.
THEOREM WorkersAreSound == Spec => []WorkersSound
<1>1. ServicesInv => WorkersSound
  BY PoolInvSays, ToolInvSays, TpuInvSays DEF ServicesInv, WorkersSound
<1>2. QED
  BY <1>1, ServicesInvHolds, PTL

\* However many runs were activated at a time and failed half-way, after an undisturbed
\* activation the metadata names the model beside it and its panel shows it; and a training
\* uses the data it was submitted with and leaves a model if it succeeds, active if and
\* only if that was asked for.
THEOREM ModelsAreSound == Spec => []ModelsSound
<1>1. ServicesInv => ModelsSound
  BY ActiveInvSays, TrainingInvSays DEF ServicesInv, ModelsSound
<1>2. QED
  BY <1>1, ServicesInvHolds, PTL

\* Every part keeps its state in the shape its code relies on.
THEOREM PartsKeepShape == Spec => []ServicesTypeOK
<1>1. ServicesInv => ServicesTypeOK
  <2> SUFFICES ASSUME ServicesInv PROVE ServicesTypeOK
    OBVIOUS
  <2>1. FileTypeOK /\ PoolTypeOK /\ CacheTypeOK /\ ToolTypeOK /\ ActiveTypeOK /\ TrainingTypeOK
    BY PoolInvSays, CacheInvSays, ToolInvSays, ActiveInvSays, TrainingInvSays
       DEF ServicesInv, FileInv
  <2>2. ListingTypeOK /\ LiveTypeOK /\ WorkbenchTypeOK /\ TpuTypeOK
    BY ListingInvSays, LiveInvSays, WorkbenchInvSays, TpuInvSays DEF ServicesInv
  <2>3. StoreViewsTypeOK
    BY StoreShapeSays DEF ServicesInv, NamesInv
  <2>4. QED
    BY <2>1, <2>2, <2>3 DEF ServicesTypeOK
<1>2. QED
  BY <1>1, ServicesInvHolds, PTL

\* A client sees its own writes and submits within its quota, what is shown is watched, what is
\* submitted is what is previewed, measurements are compared with their own predictions and
\* ranked fairly, and the lists of the store show what they have room for: the walks miss
\* nothing, names differ, the cleanup spares what is live, and the tables are found.
THEOREM ViewsAreSound == Spec => []ViewsSound
<1>1. ServicesInv => ViewsSound
  <2> SUFFICES ASSUME ServicesInv PROVE ViewsSound
    OBVIOUS
  <2>1. ReadYourWrites /\ QuotaKept /\ ShownIsWatched /\ SingleIsPreviewed /\ BusyIsAsked
    BY ListingInvSays, LiveInvSays, WorkbenchInvSays DEF ServicesInv
  <2>2. JoinIsOwn /\ RankingIsFair /\ ComparisonIsOfShown
    BY TpuInvSays, TpuJoinSays DEF ServicesInv
  <2>3. part = "walks" => WalksMissNothing
    BY DEF ServicesInv, WalksInv
  <2>4. NamesDiffer /\ CompactKeeps
    BY CompactionKeeps DEF ServicesInv, NamesInv
  <2>5. DashboardsShow /\ CleanupSpares /\ NoOrphans
    BY DashboardsAreSound DEF ServicesInv, CleanupInv
  <2>6. SchemaSound
    BY DEF ServicesInv, SchemaInv
  <2>7. QED
    BY <2>1, <2>2, <2>3, <2>4, <2>5, <2>6 DEF ViewsSound
<1>2. QED
  BY <1>1, ServicesInvHolds, PTL
=============================================================================
