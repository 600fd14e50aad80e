---------------------------- MODULE ActiveModel ----------------------------
(***************************************************************************)
(* The active estimator suite: server/activeEstimatorSuite.ts keeps a copy *)
(* of one trained model and, in a second file, the name of the run it is   *)
(* from.  Requests and training jobs, in different processes, replace the  *)
(* two files without a lock and without atomicWriteFile, and the route     *)
(* app/api/estimator-suite/route.ts serves them through a cache.           *)
(*                                                                         *)
(* One panel (app/page.tsx) asks for them when it is mounted, when its user*)
(* wants to and when an activation or a clearing of its own has succeeded; *)
(* it does not poll.  Other pages ask and post at any time.                *)
(*                                                                         *)
(* A file that is written is empty or partial between its opening and its  *)
(* filling; a reader takes what does not parse for absent.                 *)
(***************************************************************************)
EXTENDS Naturals, Sequences, FiniteSets

CONSTANTS
  Runs,      \* the training runs, each with a model of its own
  MaxPosts,  \* bound on the requests, and activations and trainings of jobs
  MaxGets    \* bound on the GETs under way at a time

ASSUME ActiveAssumption ==
  MaxPosts \in Nat /\ MaxGets \in Nat /\ Runs \cap {"model", "meta", "absent", "torn", "cleared"} = {}

Posts == 1..MaxPosts

VARIABLES
  content,   \* of each file: a run, "absent", "torn" or "cleared"
  post,      \* what each request does: its kind, its run, its next step
  disturbed, \* the requests under way that have met another one at a file
  sound,     \* the last one to replace the active files was not disturbed
  getCache,  \* the answer the route keeps, or NoAnswer
  gets,      \* the GETs under way
  panelAt,   \* the panel: "idle", its own POST is "posted", it has "to ask", it has "asked"
  ownPost,   \* the last POST of the panel, or 0
  alone,     \* nobody has come between the panel's own POST and its answer
  shown      \* the model the panel shows

filevars == <<content, post, disturbed, sound>>
viewvars == <<getCache, gets, panelAt, ownPost, alone, shown>>
avars == <<content, post, disturbed, sound, getCache, gets, panelAt, ownPost, alone, shown>>

NoAnswer == <<>>
Files == {"model", "meta"} \cup Runs
Idle == [kind |-> "idle", run |-> "absent", at |-> 0]
Done == [Idle EXCEPT !.kind = "done"]
GetIds == 1..MaxGets
NoGet == [at |-> "none", by |-> "other", meta |-> "absent", answer |-> NoAnswer]
NoModel == <<"absent", "absent">>

ActiveInit ==
  /\ content = [f \in Files |-> "absent"]
  /\ post = [p \in Posts |-> Idle]
  /\ disturbed = {} /\ sound = TRUE
  /\ getCache = NoAnswer
  /\ gets = [k \in GetIds |-> NoGet]
  /\ panelAt = "idle" /\ ownPost = 0 /\ alone = FALSE
  /\ shown = NoModel

\* Fault: clearing forgets the model itself.
ScriptClearsMeta(kind, r) ==
  CASE kind = "activate" -> <<"model", "meta">>
    [] kind = "clear"    -> <<"meta">>
    [] kind = "train"    -> <<r>>
    [] OTHER             -> <<>>

\* The files a kind of request writes, in this order: activation copies the model
\* first and names it then, clearing does the opposite, training writes the model
\* of its run.
Script(kind, r) ==
  CASE kind = "activate" -> <<"model", "meta">>
    [] kind = "clear"    -> <<"meta", "model">>
    [] kind = "train"    -> <<r>>
    [] OTHER             -> <<>>

\* What goes into file f: of a model what lies in the directory of its run by then.
Written(kind, r, f) ==
  CASE kind = "activate" /\ f = "model" -> content[r]
    [] kind = "clear"                   -> "cleared"
    [] OTHER                            -> r

\* The files a request depends on, and whether two of them get into each other's way.
Touched(q) ==
  ({q.run} \ {"absent"}) \cup {Script(q.kind, q.run)[i] : i \in 1..Len(Script(q.kind, q.run))}
Busy(q) == q.kind \notin {"idle", "done"}
Meets(q) == {p \in Posts : Busy(post[p]) /\ Touched(post[p]) \cap Touched(q) # {}}
Replaces(q) == q.kind \in {"activate", "clear"}

\* The answer is kept for ten seconds.
Expires == getCache # NoAnswer

\* Fault: a request of the route leaves the cached answer.
DroppedNever == getCache

\* Every POST drops the cached answer first.
Dropped == NoAnswer

\* A request of the panel begins: its buttons wait for the one before.
BeginOwn(p, kind) ==
  /\ panelAt = "idle" /\ kind # "train"
  /\ panelAt' = "posted" /\ ownPost' = p
  /\ alone' = ((\A o \in Posts : ~Busy(post[o])) /\ \A k \in GetIds : gets[k] = NoGet)
  /\ getCache' = Dropped
  /\ UNCHANGED <<gets, shown>>

\* A request of another page begins, or a training job, which drops nothing: it is
\* another process.
BeginOther ==
  /\ getCache' \in {Dropped, getCache}
  /\ alone' = FALSE
  /\ UNCHANGED <<gets, panelAt, ownPost, shown>>

\* A request begins; an activation is refused unless the model of the run can be read.
Begin(p) ==
  /\ post[p] = Idle /\ \A i \in 1..p-1 : post[i] # Idle
  /\ \E kind \in {"activate", "clear", "train"}, r \in Runs :
       LET q == [kind |-> kind, run |-> IF kind = "clear" THEN "absent" ELSE r, at |-> 1] IN
       /\ kind = "activate" => content[r] = r
       /\ post' = [post EXCEPT ![p] = q]
       /\ disturbed' = disturbed \cup Meets(q) \cup (IF Meets(q) = {} THEN {} ELSE {p})
       /\ BeginOwn(p, kind) \/ BeginOther
  /\ UNCHANGED <<content, sound>>

\* The panel shows the model its own activation answers with, or none after a clearing,
\* and has to ask; after a failure it does not ask.
OwnAnswered(p) ==
  IF panelAt = "posted" /\ p = ownPost
  THEN /\ panelAt' = "to ask"
       /\ shown' = IF post[p].kind = "activate" THEN <<post[p].run, post[p].run>> ELSE NoModel
       /\ UNCHANGED <<getCache, gets, ownPost, alone>>
  ELSE UNCHANGED viewvars

OwnFailed(p) ==
  IF panelAt = "posted" /\ p = ownPost
  THEN /\ panelAt' = "idle" /\ alone' = FALSE
       /\ UNCHANGED <<getCache, gets, ownPost, shown>>
  ELSE UNCHANGED viewvars

\* Each file takes two steps: it is opened and truncated ...
OpenFile(p) ==
  LET q == post[p]
      s == Script(q.kind, q.run)
  IN /\ Busy(q) /\ q.at % 2 = 1
     /\ content' = [content EXCEPT ![s[(q.at + 1) \div 2]] = "torn"]
     /\ post' = [post EXCEPT ![p].at = @ + 1]
     /\ UNCHANGED <<disturbed, sound, viewvars>>

\* A request is done with its last file.
LastStep(q) == 2 * Len(Script(q.kind, q.run))

\* ... and filled; data written over the data of another writer may leave a mix.
FillFile(p) ==
  LET q == post[p]
      s == Script(q.kind, q.run)
      f == s[q.at \div 2]
      v == Written(q.kind, q.run, f)
  IN /\ Busy(q) /\ q.at % 2 = 0
     /\ \E c \in IF content[f] \in {"torn", v} THEN {v} ELSE {v, "torn"} :
          content' = [content EXCEPT ![f] = c]
     /\ IF q.at = LastStep(q)
        THEN /\ post' = [post EXCEPT ![p] = Done]
             /\ disturbed' = disturbed \ {p}
             /\ sound' = IF Replaces(q) THEN p \notin disturbed ELSE sound
             /\ OwnAnswered(p)
        ELSE post' = [post EXCEPT ![p].at = @ + 1] /\ UNCHANGED <<disturbed, sound, viewvars>>

\* The process dies, or a write fails: what has been done so far stays.
PostBreaksOff(p) ==
  /\ Busy(post[p])
  /\ post' = [post EXCEPT ![p] = Done]
  /\ disturbed' = disturbed \ {p}
  /\ sound' = (sound /\ ~Replaces(post[p]))
  /\ OwnFailed(p)
  /\ UNCHANGED content

\* What readJson makes of a file.
Parsed(f) == IF content[f] \in Runs THEN content[f] ELSE "absent"

\* What the panel makes of an answer: a model, if there is one with a name.
AsShown(a) == IF a[1] = "absent" \/ a[2] = "absent" THEN NoModel ELSE a

\* A GET: the cached answer, or the names first and the model itself later.  The panel
\* asks after its own POST ("own"), or when it is mounted or its user wants it ("panel");
\* what another page gets matters only while it is not yet in the cache.
AskModels(k, by) ==
  /\ gets[k] = NoGet /\ \A i \in 1..k-1 : gets[i] # NoGet
  /\ by = "own" => panelAt = "to ask"
  /\ by = "other" => getCache = NoAnswer
  /\ gets' = [gets EXCEPT ![k] =
        IF getCache = NoAnswer
        THEN [at |-> "read", by |-> by, meta |-> Parsed("meta"), answer |-> NoAnswer]
        ELSE [at |-> "answered", by |-> by, meta |-> "absent", answer |-> getCache]]
  /\ panelAt' = IF by = "own" THEN "asked" ELSE panelAt
  /\ alone' = (alone /\ panelAt # "posted")
  /\ UNCHANGED <<filevars, getCache, ownPost, shown>>

ReadModel(k) ==
  /\ gets[k].at = "read"
  /\ LET a == <<gets[k].meta, Parsed("model")>> IN
     /\ getCache' = a
     /\ gets' = [gets EXCEPT ![k] =
          IF @.by = "other" THEN NoGet
          ELSE [at |-> "answered", by |-> @.by, meta |-> "absent", answer |-> a]]
  /\ UNCHANGED <<filevars, panelAt, ownPost, alone, shown>>

\* Answers may come out of order.
GetArrives(k) ==
  /\ gets[k].at = "answered"
  /\ shown' = AsShown(gets[k].answer)
  /\ panelAt' = IF gets[k].by = "own" THEN "idle" ELSE panelAt
  /\ gets' = [gets EXCEPT ![k] = NoGet]
  /\ UNCHANGED <<filevars, getCache, ownPost, alone>>

Expire ==
  /\ Expires
  /\ getCache' = NoAnswer
  /\ UNCHANGED <<filevars, gets, panelAt, ownPost, alone, shown>>

ActiveGet(k) ==
  \/ \E by \in {"own", "panel", "other"} : AskModels(k, by)
  \/ ReadModel(k) \/ GetArrives(k)
ActivePost(p) == Begin(p) \/ OpenFile(p) \/ FillFile(p) \/ PostBreaksOff(p)

ActiveNext ==
  \/ \E k \in GetIds : ActiveGet(k)
  \/ Expire
  \/ \E p \in Posts : ActivePost(p)

-----------------------------------------------------------------------------
(* Properties *)

PairsOfRuns == (Runs \cup {"absent"}) \X (Runs \cup {"absent"})

FilesTyped ==
  /\ content \in [Files -> Runs \cup {"absent", "torn", "cleared"}]
  /\ post \in [Posts -> [kind : {"idle", "activate", "clear", "train", "done"},
                         run : Runs \cup {"absent"}, at : 0..4]]
  /\ disturbed \subseteq Posts /\ sound \in BOOLEAN

ViewTyped ==
  /\ getCache \in {NoAnswer} \cup PairsOfRuns
  /\ gets \in [GetIds -> [at : {"none", "read", "answered"}, by : {"own", "panel", "other"},
                          meta : Runs \cup {"absent"}, answer : {NoAnswer} \cup PairsOfRuns]]
  /\ panelAt \in {"idle", "posted", "to ask", "asked"}
  /\ ownPost \in Posts \cup {0} /\ alone \in BOOLEAN
  /\ shown \in PairsOfRuns

\* Every variable has the type its comment gives it.
ActiveTypeOK == FilesTyped /\ ViewTyped

\* Whatever happened before, one undisturbed activation or clearing makes the
\* two active files agree: the model is whole and the one the meta file names,
\* as long as nobody replaces them.
MetaNamesModel ==
  sound /\ (\A p \in Posts : Busy(post[p]) => ~Replaces(post[p]))
    => content["model"] = content["meta"] /\ content["model"] # "torn"

\* What the active files say, as the panel would show it
ActiveFiles == <<Parsed("meta"), Parsed("model")>>
PanelIsCurrent == shown = AsShown(ActiveFiles)

\* When the panel has activated or cleared a model and has got the answer to its GET
\* that follows, it shows what the active files say, though that GET may be answered
\* from a cache, as long as nobody else has posted since or asked while it posted.
\* (Whoever asks in the middle of an activation has the mixture cached, after the POST
\* has dropped the cached answer, and the panel then gets and keeps that one.)
OwnIsShown == alone /\ panelAt = "idle" => PanelIsCurrent
=============================================================================
