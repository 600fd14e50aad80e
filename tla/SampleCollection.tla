------------------------- MODULE SampleCollection -------------------------
(***************************************************************************)
(* How measurements become training samples (lib/estimatorSuiteJobSamples  *)
(* and lib/estimatorSuiteDataset): the panel sends the rows it has, the    *)
(* server adds or updates a row for every measured target of every shape   *)
(* of every job that is listed as succeeded, and an import of several      *)
(* files drops what it takes for duplicates.                               *)
(*                                                                         *)
(* A row is looked for by the id of its shape and its target scope, then   *)
(* by the name of its run.  A sampling plan makes ids that differ from     *)
(* hardware to hardware, but a sweep takes the shapes of one request to    *)
(* many arrays, and anyone may name a run like another one: nothing here   *)
(* keeps jobs from being mistaken for one another.                         *)
(***************************************************************************)
EXTENDS Naturals, Sequences, FiniteSets

CONSTANTS
  SampleJobs,   \* the jobs are 1..SampleJobs, in the order of the listing
  MaxMeasured,  \* bound: how often jobs are measured
  MaxFiles,     \* bound: how often rows are sent to the server
  JobSetups     \* bound: the requests of the jobs that are tried together

SampleJobIds == 1..SampleJobs
ShapeNames == {"qkv", "fc1"}
TargetScopes == {"full-layer", "tile-policy"}

\* The shapes of a request; its array, which stands for all that a row says besides
\* its id (hardware, sizes, tile); its run, which may be called like another one's.
JobShapes == {<<"qkv">>, <<"fc1">>, <<"qkv", "fc1">>}
Setups == [shapes : JobShapes, array : 1..2, name : {"run", "own"}]

ASSUME SampleAssumption ==
  /\ SampleJobs \in Nat /\ MaxMeasured \in Nat /\ MaxFiles \in Nat
  /\ JobSetups \subseteq [SampleJobIds -> Setups]

VARIABLES
  setup,     \* what each job is about: its shapes, its array, its name
  measured,  \* the targets of each job's summary, per shape, once it succeeded
  rows,      \* the rows in the panel
  saved,     \* a copy of them in a file
  files,     \* how often the server was asked
  measures,  \* how often a job was measured
  settled    \* rows are what a collection with the present jobs has returned

cmpvars == <<setup, measured, rows, saved, files, measures, settled>>

shapesOf(j) == {setup[j].shapes[p] : p \in DOMAIN setup[j].shapes}
runNameOf(j) == IF setup[j].name = "run" THEN <<"run", 0>> ELSE <<"own", j>>

CollectionInit ==
  /\ setup \in JobSetups
  /\ measured = [j \in SampleJobIds |-> {}]
  /\ rows = <<>> /\ saved = <<>>
  /\ files = 0 /\ measures = 0
  /\ settled = FALSE

\* The summary of a job: for each of the two targets the shapes it has layers of.
JobMeasured(j) ==
  /\ measures < MaxMeasured
  /\ measures' = measures + 1
  /\ \E targets \in SUBSET TargetScopes :
       \E layers \in [targets -> (SUBSET shapesOf(j)) \ {{}}] :
         measured' = [measured EXCEPT ![j] =
           {[scope |-> t, layers |-> layers[t], at |-> measures'] : t \in targets}]
  /\ settled' = FALSE
  /\ UNCHANGED <<setup, rows, saved, files>>

\* A deleted or failed job is not collected any more.
JobGone(j) ==
  /\ measured[j] # {}
  /\ measured' = [measured EXCEPT ![j] = {}]
  /\ settled' = FALSE
  /\ UNCHANGED <<setup, rows, saved, files, measures>>

\* pickMeasuredScaleTargets: a shape without a layer of its own gets one of another shape
\* of its job, of which only the source of a tile-policy row tells.
LayerOf(shape, m) == IF shape \in m.layers THEN shape ELSE CHOOSE s \in m.layers : TRUE
SourceOf(shape, m) ==
  IF m.scope = "tile-policy" /\ LayerOf(shape, m) # shape THEN "fallback" ELSE "measured"

ToRow(j, shape, m) ==
  [id |-> <<shape, m.scope>>, array |-> setup[j].array, source |-> SourceOf(shape, m),
   run |-> <<runNameOf(j), m.scope>>,
   of |-> [job |-> j, shape |-> shape, scope |-> m.scope, layer |-> LayerOf(shape, m),
           at |-> m.at]]

\* The elements of a sequence at some of its places, in order.
AtPlaces(seq, places) ==
  [i \in 1..Cardinality(places) |->
     seq[CHOOSE p \in places : Cardinality({q \in places : q < p}) = i - 1]]

\* All there is to collect: jobs in the order of the listing, of a job its shapes, and
\* of a shape the tile-policy target first.
ToCollect == UNION {{j} \X (DOMAIN setup[j].shapes) \X measured[j] : j \in SampleJobIds}
ComesBefore(x, y) ==
  \/ x[1] < y[1]
  \/ x[1] = y[1] /\ x[2] < y[2]
  \/ x[1] = y[1] /\ x[2] = y[2] /\ x[3].scope = "tile-policy" /\ y[3].scope = "full-layer"

\* collectEstimatorSamplesFromJobs
Collected ==
  [i \in 1..Cardinality(ToCollect) |->
     LET x == CHOOSE x \in ToCollect : Cardinality({y \in ToCollect : ComesBefore(y, x)}) = i - 1
     IN ToRow(x[1], setup[x[1]].shapes[x[2]], x[3])]

\* collectedRowKey, csvRowKey
KeyOf(r) == <<r.id, r.array>>

\* The last of the rows a predicate holds of.
LastOf(seq, P(_)) ==
  LET s == {i \in DOMAIN seq : P(seq[i])} IN
  IF s = {} THEN {} ELSE {seq[CHOOSE i \in s : \A k \in s : k <= i]}

\* Fault: rows are matched by their shape.
MatchesShape(r, new) == LastOf(new, LAMBDA c : c.id[1] = r.id[1])

\* The collected row that updates row r, if any: byId has the last row of an id
\* and of a run name; a row looks for its id first.
Matches(r, new) ==
  LET byId == LastOf(new, LAMBDA c : c.id = r.id) IN
  IF byId # {} THEN byId ELSE LastOf(new, LAMBDA c : c.run = r.run)

\* Fault: rows that have updated others are added as well.
AddedAlways(old, new) == new

\* The collected rows that have updated none: these are added.
Added(old, new) ==
  AtPlaces(new, {p \in DOMAIN new :
    ~\E i \in DOMAIN old : \E m \in Matches(old[i], new) : KeyOf(m) = KeyOf(new[p])})

Update(r, new) ==
  LET m == Matches(r, new) IN
  IF m = {} THEN r ELSE [r EXCEPT !.of = (CHOOSE c \in m : TRUE).of]

\* mergeCollectedSamplesIntoCsv; without rows the collected ones are taken as
\* they are.
Merge(old, new) ==
  IF old = <<>> THEN new
  ELSE [i \in DOMAIN old |-> Update(old[i], new)] \o Added(old, new)

\* "collect-jobs"
CollectJobs ==
  /\ files < MaxFiles
  /\ LET new == Collected IN rows' = Merge(rows, new)
  /\ files' = files + 1
  /\ settled' = TRUE
  /\ UNCHANGED <<setup, measured, saved, measures>>

\* The rows are downloaded.
SaveRows ==
  /\ rows # <<>> /\ saved # rows
  /\ saved' = rows
  /\ UNCHANGED <<setup, measured, rows, files, measures, settled>>

\* Fault: only the shape counts.
SignatureOfShape(r) == r.id[1]

\* rowSignature: every row has an id here; the array does not count.
Signature(r) == <<r.id, r.source>>

\* buildEstimatorDataset: the first row of each signature.
Deduped(seq) ==
  AtPlaces(seq, {p \in DOMAIN seq : ~\E k \in 1..p - 1 : Signature(seq[k]) = Signature(seq[p])})

\* "import-dataset" of the saved file and the rows of the panel, in either order.
Import ==
  /\ files < MaxFiles
  /\ saved # <<>>
  /\ \E both \in {saved \o rows, rows \o saved} : rows' = Deduped(both)
  /\ files' = files + 1
  /\ settled' = FALSE
  /\ UNCHANGED <<setup, measured, saved, measures>>

CollectionNext ==
  \/ \E j \in SampleJobIds : JobMeasured(j) \/ JobGone(j)
  \/ CollectJobs \/ SaveRows \/ Import

-----------------------------------------------------------------------------
(* Properties *)

\* Rows bear ids and measurements of jobs there are.
CollectionTypeOK ==
  /\ files \in 0..MaxFiles /\ measures \in 0..MaxMeasured
  /\ \A seq \in {rows, saved} : \A i \in DOMAIN seq :
       /\ seq[i].id \in ShapeNames \X TargetScopes /\ seq[i].array \in 1..2
       /\ seq[i].of.at \in 1..measures /\ seq[i].of.job \in SampleJobIds

\* No job is mistaken for that of the row: the jobs with its shape have its array, and
\* the jobs with its run name have its shape.
Unmistakable(r) ==
  \A j \in SampleJobIds :
    /\ r.id[1] \in shapesOf(j) => setup[j].array = r.array
    /\ r.run = <<runNameOf(j), r.id[2]>> => r.id[1] \in shapesOf(j)

\* Only one job is about the shape.
Sole(shape) == \A j, k \in SampleJobIds : shape \in shapesOf(j) \cap shapesOf(k) => j = k

\* Whatever was collected, deleted and imported in between, a row never has a measurement
\* of the other target, and one of another shape only from a run of its name that was not
\* about its shape; if no job can be mistaken for its own it has the measurement of its
\* shape on its array, and that of its own layer if its job has no other one.
OwnMeasurement ==
  \A i \in DOMAIN rows :
    LET r == rows[i]  k == r.of.job IN
    /\ r.of.scope = r.id[2]
    /\ \/ r.of.shape = r.id[1]
       \/ r.run = <<runNameOf(k), r.id[2]>> /\ r.id[1] \notin shapesOf(k)
    /\ Unmistakable(r) =>
         /\ r.of.shape = r.id[1] /\ setup[k].array = r.array
         /\ shapesOf(k) = {r.id[1]} => r.of.layer = r.id[1]

\* After a collection each collected target, on each array, has its measurement in some
\* row, no row of a collected id has an older one, and a target that only one job is
\* about has one row at most.
CollectedOnce ==
  settled =>
    LET new == Collected IN
    \A p \in DOMAIN new :
      LET same == {i \in DOMAIN rows : rows[i].id = new[p].id} IN
      /\ \E i \in DOMAIN rows, q \in DOMAIN new :
           KeyOf(new[q]) = KeyOf(new[p]) /\ rows[i].of = new[q].of
      /\ \A i \in same : \E q \in DOMAIN new : new[q].id = new[p].id /\ rows[i].of = new[q].of
      /\ Sole(new[p].id[1]) => \A i, k \in same : i = k

\* An import of two files returns rows of theirs, of each id and source exactly one: it
\* loses no target, except beside one of its id, and keeps none twice.
ImportLosesNone ==
  [][Import =>
       LET both == {rows[i] : i \in DOMAIN rows} \cup {saved[i] : i \in DOMAIN saved}
       IN /\ \A i \in DOMAIN rows' : rows'[i] \in both
          /\ \A r \in both : \E i \in DOMAIN rows' :
               rows'[i].id = r.id /\ rows'[i].source = r.source
          /\ \A i, k \in DOMAIN rows' :
               rows'[i].id = rows'[k].id /\ rows'[i].source = rows'[k].source => i = k]_cmpvars

\* The id is collected more than once: from several jobs.
Repeated(id) ==
  LET new == Collected IN
  \E p, q \in DOMAIN new : p # q /\ new[p].id = id /\ new[q].id = id

\* To collect again what has been collected changes and adds rows only of the ids that
\* several jobs bear: with these each collection may add the same rows once more.
CollectIsIdempotent ==
  [][CollectJobs /\ settled =>
       \A i \in DOMAIN rows' :
         (i \in DOMAIN rows => rows'[i] # rows[i]) => Repeated(rows'[i].id)]_cmpvars
=============================================================================
