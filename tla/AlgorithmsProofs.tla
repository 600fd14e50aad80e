-------------------------- MODULE AlgorithmsProofs --------------------------
(***************************************************************************)
(* The computations of a job and of the suite, for all sizes of their      *)
(* inputs.  What a model may correct: the invariant keeps, with every      *)
(* model on disk and with the active one, how its samples, its scope and   *)
(* its policy file belong together.  Where the samples come from: every    *)
(* row is of a measured target, and what was collected is settled.  What   *)
(* a suite was trained on: the invariant keeps the split of every fold and *)
(* the rows and buckets of the trained suite.  What a plan measures: the   *)
(* invariant gives every row of a plan by its place.  What a search finds: *)
(* the invariant keeps which tiles have been estimated and what of them    *)
(* each heap holds.  What a gate, a plan and a runbook say: the invariant  *)
(* ties the plan to the evidence and each record to its task and options.  *)
(* What a tool answers: the invariant counts the candidates that failed    *)
(* and says whose output may lie there while they are tried.               *)
(***************************************************************************)
EXTENDS MCAlgorithms, TilingProofs

Datasets == [Scopes -> Nat]

\* The samples of a model, its scope and its policy belong together.
Sound(m) ==
  /\ m.of \in Datasets /\ Count(m.of) >= MinSamples
  /\ m.primary \in Scopes /\ m.of[m.primary] > 0
  /\ \A s \in Scopes : m.of[s] <= m.of[m.primary]
  /\ m.asked # "all" => m.of = Only(m.of, m.primary) /\ m.policy = m.primary

DatasetOK == dataset \in [Scopes -> 0..MaxSamples]
RunsSound == \A m \in runs : Sound(m)
ActiveSound == activeRun = {} \/ \E m : activeRun = {m} /\ Sound(m)
PolicyInv == DatasetOK /\ RunsSound /\ ActiveSound

-----------------------------------------------------------------------------
(* The selection of samples *)

LEMMA OnlyFacts ==
  ASSUME NEW d \in Datasets, NEW s \in Scopes
  PROVE  /\ Only(d, s) \in Datasets
         /\ Only(Only(d, s), s) = Only(d, s)
         /\ Only(d, s)[s] = d[s]
         /\ \A t \in Scopes : t # s => Only(d, s)[t] = 0
         /\ Count(Only(d, s)) = d[s]
BY DEF Datasets, Only, Scopes, Count

\* Unless all samples are asked for, those of one scope are selected, or none.
LEMMA SelectsOneScope ==
  ASSUME NEW d \in Datasets, NEW r \in Requested, r # "all"
  PROVE  Selects(d, r) = NoSamples \/ \E s \in Scopes : Selects(d, r) = Only(d, s)
<1>1. CASE r = "auto"
  <2>1. Selects(d, r) = SelectsAuto(d)
    BY <1>1 DEF Selects
  <2>2. QED
    BY <2>1 DEF SelectsAuto, Scopes
<1>2. CASE r # "auto"
  <2>1. Selects(d, r) = SelectsScope(d, r) /\ r \in Scopes
    BY <1>2 DEF Selects, Requested, Scopes
  <2>2. QED
    BY <2>1 DEF SelectsScope, Scopes
<1>3. QED
  BY <1>1, <1>2

LEMMA AllFacts == ASSUME NEW d PROVE Selects(d, "all") = d
BY DEF Selects

\* The scope of a model is one it has most samples of.
LEMMA PrimaryFacts ==
  ASSUME NEW d, NEW p \in PrimaryScopes(d)
  PROVE  p \in Scopes /\ d[p] > 0 /\ \A s \in Scopes : d[s] <= d[p]
BY DEF PrimaryScopes, Some

\* The model of a training is sound, whatever was asked for.
LEMMA TrainedIsSound ==
  ASSUME NEW d \in Datasets, NEW r \in Requested, NEW p \in PrimaryScopes(Selects(d, r)),
         Count(Selects(d, r)) >= MinSamples
  PROVE  Sound([of |-> Selects(d, r), asked |-> r,
                policy |-> EffectiveScope(d, r), primary |-> p])
<1>1. /\ p \in Scopes /\ Selects(d, r)[p] > 0
      /\ \A s \in Scopes : Selects(d, r)[s] <= Selects(d, r)[p]
  BY PrimaryFacts
<1>2. CASE r = "all"
  BY <1>1, <1>2, AllFacts DEF Sound
<1>3. CASE r # "all"
  <2>1. Selects(d, r) # NoSamples
    BY <1>1 DEF NoSamples
  <2>2. PICK s \in Scopes : Selects(d, r) = Only(d, s)
    BY <1>3, <2>1, SelectsOneScope
  <2>3. p = s
    BY <1>1, <2>2, OnlyFacts
  <2>4. Selects(d, r) \in Datasets /\ Selects(d, r) = Only(Selects(d, r), p)
    BY <2>2, <2>3, OnlyFacts
  <2>5. {t \in Scopes : Some(Selects(d, r), t)} = {p}
    BY <1>1, <2>2, <2>3, OnlyFacts DEF Some
  <2>6. EffectiveScope(d, r) = p
    BY <1>3, <2>5 DEF EffectiveScope
  <2>7. QED
    BY <1>1, <1>3, <2>4, <2>6 DEF Sound
<1>4. QED
  BY <1>2, <1>3

\* The two models of a scoped training are.
LEMMA ScopedIsSound ==
  ASSUME NEW d \in Datasets, NEW s \in Scopes, d[s] >= MinSamples
  PROVE  Sound([of |-> Only(d, s), asked |-> s, policy |-> s, primary |-> s])
<1>1. d[s] > 0 /\ d[s] \in Nat
  BY ScopeAssumption DEF Datasets
<1>2. \A t \in Scopes : Only(d, s)[t] <= Only(d, s)[s]
  BY <1>1, OnlyFacts
<1>3. QED
  BY <1>1, <1>2, OnlyFacts DEF Sound

-----------------------------------------------------------------------------
(* The invariant *)

LEMMA PolicyInitInv == PolicyInit => PolicyInv
BY ScopeAssumption
   DEF PolicyInit, PolicyInv, DatasetOK, RunsSound, ActiveSound, NoSamples

LEMMA DatasetFacts == DatasetOK => dataset \in Datasets
BY ScopeAssumption DEF DatasetOK, Datasets

LEMMA PolicyStepInv == PolicyInv /\ [PolicyNext]_polvars => PolicyInv'
<1> SUFFICES ASSUME PolicyInv, [PolicyNext]_polvars
             PROVE  PolicyInv'
  OBVIOUS
<1>a. dataset \in Datasets
  BY DatasetFacts DEF PolicyInv
<1>1. CASE UNCHANGED polvars
  BY <1>1 DEF polvars, PolicyInv, DatasetOK, RunsSound, ActiveSound
<1>2. CASE SamplesChange
  BY <1>2 DEF SamplesChange, PolicyInv, DatasetOK, RunsSound, ActiveSound
<1>3. CASE Train
  <2>a. PICK r \in Requested :
          \E p \in PrimaryScopes(Selects(dataset, r)) :
            /\ Count(Selects(dataset, r)) >= MinSamples
            /\ runs' = {[of |-> Selects(dataset, r), asked |-> r,
                         policy |-> EffectiveScope(dataset, r), primary |-> p]}
    BY <1>3 DEF Train
  <2>1. PICK p \in PrimaryScopes(Selects(dataset, r)) :
          /\ Count(Selects(dataset, r)) >= MinSamples
          /\ runs' = {[of |-> Selects(dataset, r), asked |-> r,
                       policy |-> EffectiveScope(dataset, r), primary |-> p]}
    BY <2>a
  <2>2. RunsSound'
    BY <1>a, <2>1, TrainedIsSound DEF RunsSound
  <2>3. QED
    BY <1>3, <2>2 DEF Train, PolicyInv, DatasetOK, ActiveSound
<1>4. CASE TrainScoped
  <2>1. RunsSound'
    <3> SUFFICES ASSUME NEW m \in runs'
                 PROVE  Sound(m)
      BY DEF RunsSound
    <3>1. PICK s \in {t \in {"full-layer", "tile-policy"} : dataset[t] >= MinSamples} :
            m = [of |-> Only(dataset, s), asked |-> s, policy |-> s, primary |-> s]
      BY <1>4 DEF TrainScoped
    <3>2. s \in Scopes /\ dataset[s] >= MinSamples
      BY <3>1 DEF Scopes
    <3>3. QED
      BY <1>a, <3>1, <3>2, ScopedIsSound
  <2>2. QED
    BY <1>4, <2>1 DEF TrainScoped, PolicyInv, DatasetOK, ActiveSound
<1>5. CASE ActivateRun
  <2>1. PICK m \in runs : activeRun' = {m}
    BY <1>5 DEF ActivateRun
  <2>2. ActiveSound'
    BY <2>1 DEF ActiveSound, PolicyInv, RunsSound
  <2>3. QED
    BY <1>5, <2>2 DEF ActivateRun, PolicyInv, DatasetOK, RunsSound
<1>6. CASE ClearActive
  BY <1>6 DEF ClearActive, PolicyInv, DatasetOK, RunsSound, ActiveSound
<1>7. QED
  BY <1>1, <1>2, <1>3, <1>4, <1>5, <1>6 DEF PolicyNext

PolicySpec == PolicyInit /\ [][PolicyNext]_polvars

LEMMA PolicyInvHolds == PolicySpec => []PolicyInv
BY PolicyInitInv, PolicyStepInv, PTL DEF PolicySpec

-----------------------------------------------------------------------------
(* The theorems *)

\* Models are trained on enough samples of some scope, and an estimate is corrected
\* by one model at most.
THEOREM PolicyTypeCorrect == PolicySpec => []PolicyTypeOK
<1>1. PolicyInv => PolicyTypeOK
  <2> SUFFICES ASSUME PolicyInv
               PROVE  PolicyTypeOK
    OBVIOUS
  <2>1. Cardinality(activeRun) <= 1
    <3>1. CASE activeRun = {}
      BY <3>1, FS_EmptySet
    <3>2. CASE activeRun # {}
      <4>1. PICK m : activeRun = {m}
        BY <3>2 DEF PolicyInv, ActiveSound
      <4>2. Cardinality({m}) = 1
        BY FS_Singleton
      <4>3. QED
        BY <4>1, <4>2
    <3>3. QED
      BY <3>1, <3>2
  <2>2. estimate.tile \cup estimate.full = activeRun
    BY DEF estimate
  <2>3. QED
    BY <2>1, <2>2 DEF PolicyInv, PolicyTypeOK, DatasetOK, RunsSound, Sound
<1>2. QED
  BY <1>1, PolicyInvHolds, PTL

\* Whatever samples came and went, and whichever model was activated: full-layer cycles
\* are corrected only by a model with no more samples of another scope than full-layer
\* ones, and with none at all unless all samples were asked for.
THEOREM CyclesAreFullLayer == PolicySpec => []CyclesFromFullLayer
<1>1. PolicyInv => CyclesFromFullLayer
  <2> SUFFICES ASSUME PolicyInv, NEW m \in estimate.full
               PROVE  /\ m.asked # "all" => m.of = Only(m.of, "full-layer")
                      /\ m.of["full-layer"] > 0
                      /\ \A s \in Scopes : m.of[s] <= m.of["full-layer"]
    BY DEF CyclesFromFullLayer
  <2>1. m \in activeRun /\ m.primary = "full-layer"
    BY DEF estimate, CorrectsFull
  <2>2. Sound(m)
    BY <2>1 DEF PolicyInv, ActiveSound
  <2>3. QED
    BY <2>1, <2>2 DEF Sound
<1>2. QED
  BY <1>1, PolicyInvHolds, PTL

\* A model that adjusts the tiles has seen other samples than full-layer ones, and
\* an estimate names a scope with most of its samples, that of the policy file unless all
\* samples were asked for.
THEOREM ScopeIsTold == PolicySpec => []EstimateTellsScope
<1>1. PolicyInv => EstimateTellsScope
  <2> SUFFICES ASSUME PolicyInv
               PROVE  EstimateTellsScope
    OBVIOUS
  <2>1. ASSUME NEW m \in estimate.tile
        PROVE  m.of # Only(m.of, "full-layer")
    <3>1. m \in activeRun /\ m.primary # "full-layer"
      BY <2>1 DEF estimate, CorrectsFull
    <3>2. Sound(m)
      BY <3>1 DEF PolicyInv, ActiveSound
    <3>3. Only(m.of, "full-layer")[m.primary] = 0 /\ m.of[m.primary] > 0
      BY <3>1, <3>2, OnlyFacts DEF Sound, Scopes
    <3>4. QED
      BY <3>3
  <2>2. ASSUME NEW m \in estimate.tile \cup estimate.full
        PROVE  /\ \A s \in Scopes : m.of[s] <= m.of[estimate.says]
               /\ m.asked # "all" => estimate.says = m.policy
    <3>1. m \in activeRun
      BY <2>2 DEF estimate
    <3>2. activeRun = {m} /\ Sound(m)
      BY <3>1 DEF PolicyInv, ActiveSound
    <3>3. estimate.says = m.primary
      BY <3>2 DEF estimate
    <3>4. QED
      BY <2>2, <3>2, <3>3 DEF Sound
  <2>3. QED
    BY <2>1, <2>2 DEF EstimateTellsScope
<1>2. QED
  BY <1>1, PolicyInvHolds, PTL

-----------------------------------------------------------------------------
(* The elements of a sequence at some of its places *)

LEMMA AtPlacesFacts ==
  ASSUME NEW T, NEW seq \in Seq(T), NEW P \in SUBSET (DOMAIN seq)
  PROVE  /\ AtPlaces(seq, P) \in Seq(T)
         /\ P = {} => AtPlaces(seq, P) = <<>>
         /\ \A i \in DOMAIN AtPlaces(seq, P) : \E p \in P : AtPlaces(seq, P)[i] = seq[p]
         /\ \A p \in P : \E i \in DOMAIN AtPlaces(seq, P) : AtPlaces(seq, P)[i] = seq[p]
         /\ \A i, k \in DOMAIN AtPlaces(seq, P) : i # k =>
              \E p, q \in P : p # q /\ AtPlaces(seq, P)[i] = seq[p] /\ AtPlaces(seq, P)[k] = seq[q]
<1> DEFINE R == {x \in P \X P : x[1] < x[2]}
           N == Cardinality(P)
           s == Sorted(R, P)
           t == AtPlaces(seq, P)
<1>1. P \in SUBSET Nat /\ Len(seq) \in Nat /\ DOMAIN seq = 1..Len(seq)
  OBVIOUS
<1>2. IsFiniteSet(P)
  <2>1. IsFiniteSet(1..Len(seq))
    BY <1>1, FS_Interval
  <2>2. QED
    BY <1>1, <2>1, FS_Subset
<1>3. ASSUME NEW x \in P, NEW y \in P
      PROVE  <<x, y>> \in R <=> x < y
  OBVIOUS
<1> HIDE DEF R
<1>4. IsStrictOrder(R, P)
  <2> SUFFICES \A x, y, z \in P : /\ ~(x < x)
                                  /\ x < y /\ y < z => x < z
                                  /\ x # y => x < y \/ y < x
    BY <1>3 DEF IsStrictOrder
  <2>1. QED
    BY <1>1
<1>5. /\ N \in Nat /\ s \in Seq(P) /\ Len(s) = N
      /\ \A i \in 1..N : s[i] \in P
      /\ \A x \in P : Cardinality(Below(R, P, x)) + 1 \in 1..N /\ s[Cardinality(Below(R, P, x)) + 1] = x
      /\ \A i, k \in 1..N : i < k <=> <<s[i], s[k]>> \in R
  <2>1. /\ N \in Nat /\ s \in Seq(P) /\ Len(s) = N
        /\ \A i \in 1..N : s[i] \in P
        /\ \A x \in P : /\ Cardinality(Below(R, P, x)) \in 0..(N - 1)
                       /\ s[Cardinality(Below(R, P, x)) + 1] = x
        /\ \A i, k \in 1..N : i < k <=> <<s[i], s[k]>> \in R
    BY <1>2, <1>4, SortedFacts
  <2>2. \A n \in 0..(N - 1) : n + 1 \in 1..N
    BY <2>1
  <2>3. QED
    BY <2>1, <2>2
<1>6. \A x \in P : Below(R, P, x) = {q \in P : q < x}
  BY <1>3 DEF Below
<1>7. \A i \in 1..N : s[i] = CHOOSE p \in P : Cardinality({q \in P : q < p}) = i - 1
  <2> SUFFICES ASSUME NEW i \in 1..N
               PROVE  s[i] = CHOOSE p \in P : Cardinality({q \in P : q < p}) = i - 1
    OBVIOUS
  <2>1. s[i] = CHOOSE p \in P : Cardinality(Below(R, P, p)) = i - 1
    BY DEF Sorted
  <2>2. \A p \in P : Cardinality(Below(R, P, p)) = i - 1 <=> Cardinality({q \in P : q < p}) = i - 1
    BY <1>6
  <2>3. (CHOOSE p \in P : Cardinality(Below(R, P, p)) = i - 1)
          = CHOOSE p \in P : Cardinality({q \in P : q < p}) = i - 1
    BY <2>2
  <2>4. QED
    BY <2>1, <2>3
<1>8. t = [i \in 1..N |-> seq[s[i]]]
  <2> DEFINE chosen(i) == CHOOSE p \in P : Cardinality({q \in P : q < p}) = i - 1
  <2>1. t = [i \in 1..N |-> seq[chosen(i)]]
    BY DEF AtPlaces
  <2>2. \A i \in 1..N : s[i] = chosen(i)
    BY <1>7
  <2> HIDE DEF s, t, chosen
  <2>3. QED
    BY <2>1, <2>2
<1> HIDE DEF s, t, N
<1>9. t \in Seq(T) /\ DOMAIN t = 1..N
  <2>1. t \in [1..N -> T]
    BY <1>1, <1>5, <1>8
  <2>2. QED
    BY <1>5, <2>1
<1>10. P = {} => t = <<>>
  <2> SUFFICES ASSUME P = {}
               PROVE  t = <<>>
    OBVIOUS
  <2>1. N = 0
    BY FS_EmptySet DEF N
  <2>2. DOMAIN t = {}
    BY <1>9, <2>1
  <2>3. QED
    BY <1>9, <2>2
<1>11. \A i \in 1..N : s[i] \in P /\ t[i] = seq[s[i]]
  BY <1>5, <1>8
<1>12. ASSUME NEW p \in P
       PROVE  \E i \in 1..N : t[i] = seq[p]
  <2>1. PICK i \in 1..N : s[i] = p
    BY <1>5
  <2>2. QED
    BY <1>11, <2>1
<1>13. ASSUME NEW i \in 1..N, NEW k \in 1..N, i # k
       PROVE  s[i] # s[k]
  <2>1. i < k \/ k < i
    BY <1>5, <1>13
  <2>2. <<s[i], s[k]>> \in R \/ <<s[k], s[i]>> \in R
    BY <1>5, <2>1
  <2>3. s[i] < s[k] \/ s[k] < s[i]
    BY <1>3, <1>5, <2>2
  <2>4. s[i] \in Nat /\ s[k] \in Nat
    BY <1>1, <1>5
  <2>5. QED
    BY <2>3, <2>4
<1>14. QED
  BY <1>9, <1>10, <1>11, <1>12, <1>13 DEF t

-----------------------------------------------------------------------------
(* Rows of the panel and of a collection *)

SetupOK == setup \in [SampleJobIds -> Setups]
Runs == {runNameOf(j) : j \in SampleJobIds}

\* The rows there can be, with measurements 1..n, and those that a collection makes.
RowShapes(n) ==
  [id : ShapeNames \X TargetScopes, array : 1..2, source : {"measured", "fallback"},
   run : Runs \X TargetScopes,
   of : [job : SampleJobIds, shape : ShapeNames, scope : TargetScopes, layer : ShapeNames,
         at : 1..n]]
RowOK(r) ==
  /\ r.of.scope = r.id[2] /\ r.run[2] = r.id[2]
  /\ r.of.shape \in shapesOf(r.of.job) /\ r.of.layer \in shapesOf(r.of.job)
  /\ \/ r.of.shape = r.id[1]
     \/ r.run = <<runNameOf(r.of.job), r.id[2]>> /\ r.id[1] \notin shapesOf(r.of.job)
Samples(n) == {r \in RowShapes(n) : RowOK(r)}
Made(n) ==
  {r \in Samples(n) : /\ r.of.shape = r.id[1] /\ r.array = setup[r.of.job].array
                      /\ r.run = <<runNameOf(r.of.job), r.id[2]>>}

\* A collection has all the shapes of a job with a target, and each of them once.
Whole(new) ==
  /\ \A p \in DOMAIN new : \A s \in shapesOf(new[p].of.job) :
       \E q \in DOMAIN new : new[q].id = <<s, new[p].id[2]>>
  /\ \A p, q \in DOMAIN new :
       new[p].id = new[q].id /\ new[p].of.job = new[q].of.job => p = q
Collection(new, n) == new \in Seq(Made(n)) /\ Whole(new)

LEMMA SetupFacts ==
  ASSUME SetupOK, NEW j \in SampleJobIds
  PROVE  /\ shapesOf(j) \in SUBSET ShapeNames /\ setup[j].array \in 1..2
         /\ \A p \in DOMAIN setup[j].shapes : setup[j].shapes[p] \in shapesOf(j)
         /\ \A s \in shapesOf(j) : \E p \in DOMAIN setup[j].shapes : setup[j].shapes[p] = s
         /\ DOMAIN setup[j].shapes \in SUBSET (1..2)
         /\ \A p, q \in DOMAIN setup[j].shapes : setup[j].shapes[p] = setup[j].shapes[q] => p = q
<1>1. setup[j] \in Setups
  BY DEF SetupOK
<1>2. setup[j].shapes \in JobShapes /\ setup[j].array \in 1..2
  BY <1>1 DEF Setups
<1> DEFINE q == setup[j].shapes
<1>3. /\ DOMAIN q \in SUBSET (1..2) /\ \A p \in DOMAIN q : q[p] \in ShapeNames
      /\ \A p, r \in DOMAIN q : q[p] = q[r] => p = r
  BY <1>2 DEF JobShapes, ShapeNames
<1> HIDE DEF q
<1>4. shapesOf(j) = {q[p] : p \in DOMAIN q}
  BY DEF shapesOf, q
<1>5. QED
  BY <1>2, <1>3, <1>4 DEF q

\* More measurements, more rows.
LEMMA SamplesGrow ==
  ASSUME NEW n \in Nat, NEW k \in Nat, n <= k
  PROVE  Samples(n) \subseteq Samples(k)
<1>1. 1..n \subseteq 1..k
  OBVIOUS
<1>2. RowShapes(n) \subseteq RowShapes(k)
  BY <1>1 DEF RowShapes
<1>3. QED
  BY <1>2 DEF Samples

\* What a row says of its measurement
LEMMA RowFacts ==
  ASSUME NEW n, NEW r \in Samples(n)
  PROVE  /\ r.id \in ShapeNames \X TargetScopes /\ r.array \in 1..2
         /\ r.of.at \in 1..n /\ r.of.job \in SampleJobIds /\ RowOK(r)
  BY DEF Samples, RowShapes

\* The row that updates another one is the last one of its id, or else of its run.
LEMMA MatchFacts ==
  ASSUME NEW T, NEW r, NEW new \in Seq(T)
  PROVE  /\ \/ Matches(r, new) = {}
            \/ \E p \in DOMAIN new :
                 /\ Matches(r, new) = {new[p]}
                 /\ \/ new[p].id = r.id
                    \/ new[p].run = r.run /\ \A q \in DOMAIN new : new[q].id # r.id
         /\ (\E q \in DOMAIN new : new[q].id = r.id) =>
              \E p \in DOMAIN new : Matches(r, new) = {new[p]} /\ new[p].id = r.id
<1> DEFINE byId == {i \in DOMAIN new : new[i].id = r.id}
           byRun == {i \in DOMAIN new : new[i].run = r.run}
           last(s) == CHOOSE i \in s : \A k \in s : k <= i
<1>1. Len(new) \in Nat /\ DOMAIN new = 1..Len(new)
  OBVIOUS
<1>2. Matches(r, new) =
        IF (IF byId = {} THEN {} ELSE {new[last(byId)]}) # {}
        THEN (IF byId = {} THEN {} ELSE {new[last(byId)]})
        ELSE (IF byRun = {} THEN {} ELSE {new[last(byRun)]})
  BY DEF Matches, LastOf
<1>3. /\ byId \in SUBSET DOMAIN new /\ \A i \in byId : new[i].id = r.id
      /\ byRun \in SUBSET DOMAIN new /\ \A i \in byRun : new[i].run = r.run
      /\ \A q \in DOMAIN new : new[q].id = r.id => q \in byId
  OBVIOUS
<1> HIDE DEF byId, byRun
<1>4. ASSUME NEW s \in SUBSET DOMAIN new, s # {}
      PROVE  last(s) \in s
  <2>1. s \in SUBSET (0..Len(new))
    BY <1>1
  <2>2. \E i \in s : \A k \in s : k <= i
    BY <1>1, <1>4, <2>1, GreatestNumber
  <2>3. QED
    BY <2>2
<1> HIDE DEF last
<1>5. CASE byId = {}
  <2>1. CASE byRun = {}
    BY <1>2, <1>3, <1>5, <2>1
  <2>2. CASE byRun # {}
    <3>1. Matches(r, new) = {new[last(byRun)]}
      BY <1>2, <1>5, <2>2
    <3>2. last(byRun) \in byRun
      BY <1>3, <1>4, <2>2
    <3>3. QED
      BY <1>3, <1>5, <3>1, <3>2
  <2>3. QED
    BY <2>1, <2>2
<1>6. CASE byId # {}
  <2>1. Matches(r, new) = {new[last(byId)]}
    BY <1>2, <1>6
  <2>2. last(byId) \in byId
    BY <1>3, <1>4, <1>6
  <2>3. QED
    BY <1>3, <2>1, <2>2
<1>7. QED
  BY <1>5, <1>6

\* The match depends on the id and the run only.
LEMMA MatchesSame ==
  ASSUME NEW r, NEW s, NEW new, r.id = s.id, r.run = s.run
  PROVE  Matches(r, new) = Matches(s, new)
  BY DEF Matches, LastOf

\* A collected row whose id is collected once updates a row like itself only.
Twice(new, id) == \E p, q \in DOMAIN new : p # q /\ new[p].id = id /\ new[q].id = id

LEMMA SelfMatch ==
  ASSUME NEW n, NEW new \in Seq(Made(n)), NEW p \in DOMAIN new, ~Twice(new, new[p].id)
  PROVE  Matches(new[p], new) = {new[p]} /\ Update(new[p], new) = new[p]
<1>1. PICK q \in DOMAIN new : Matches(new[p], new) = {new[q]} /\ new[q].id = new[p].id
  BY MatchFacts
<1>2. q = p
  BY <1>1 DEF Twice
<1> DEFINE c == new[p]
<1>3. c \in Made(n)
  OBVIOUS
<1>4. c = [id |-> c.id, array |-> c.array, source |-> c.source, run |-> c.run, of |-> c.of]
  BY <1>3 DEF Made, Samples, RowShapes
<1> HIDE DEF c
<1>5. [c EXCEPT !.of = c.of] = c
  BY <1>4
<1>6. (CHOOSE m \in {c} : TRUE) = c
  OBVIOUS
<1>7. Matches(c, new) = {c}
  BY <1>1, <1>2 DEF c
<1>8. Update(c, new) = c
  BY <1>5, <1>6, <1>7 DEF Update
<1>9. QED
  BY <1>7, <1>8 DEF c

\* An update keeps all of a row but its measurement, and done again changes nothing.
LEMMA UpdateFacts ==
  ASSUME NEW n, NEW r \in Samples(n), NEW new, Collection(new, n)
  PROVE  LET u == Update(r, new) IN
         /\ u \in Samples(n) /\ u.id = r.id /\ u.run = r.run /\ u.source = r.source
         /\ \A m \in Matches(r, new) : u.of = m.of
         /\ Matches(u, new) = Matches(r, new) /\ Update(u, new) = u
<1> DEFINE u == Update(r, new)
<1>1. new \in Seq(Made(n)) /\ Whole(new)
  BY DEF Collection
<1>2. CASE Matches(r, new) = {}
  BY <1>2 DEF Update
<1>3. CASE Matches(r, new) # {}
  <2>1. PICK p \in DOMAIN new :
          /\ Matches(r, new) = {new[p]}
          /\ \/ new[p].id = r.id
             \/ new[p].run = r.run /\ \A q \in DOMAIN new : new[q].id # r.id
    BY <1>1, <1>3, MatchFacts
  <2> DEFINE c == new[p]
  <2>2. c \in Made(n) /\ (CHOOSE m \in {c} : TRUE) = c
    BY <1>1
  <2>3. u = [r EXCEPT !.of = c.of]
    BY <2>1, <2>2 DEF Update
  <2>4. \/ c.id = r.id
        \/ c.run = r.run /\ ~\E q \in DOMAIN new : new[q].id = r.id
    BY <2>1
  <2>5. \A s \in shapesOf(c.of.job) : \E q \in DOMAIN new : new[q].id = <<s, c.id[2]>>
    BY <1>1 DEF Whole
  <2>6. Matches(r, new) = {c}
    BY <2>1
  <2> HIDE DEF c, u
  <2>7. /\ c \in Samples(n) /\ c.of.shape = c.id[1] /\ c.run = <<runNameOf(c.of.job), c.id[2]>>
        /\ r \in RowShapes(n) /\ c \in RowShapes(n) /\ RowOK(r) /\ RowOK(c)
    BY <2>2 DEF Made, Samples
  <2>8. /\ r.id = <<r.id[1], r.id[2]>> /\ c.id = <<c.id[1], c.id[2]>>
        /\ r.run = <<r.run[1], r.run[2]>>
        /\ c.of \in [job : SampleJobIds, shape : ShapeNames, scope : TargetScopes,
                     layer : ShapeNames, at : 1..n]
        /\ r = [id |-> r.id, array |-> r.array, source |-> r.source, run |-> r.run, of |-> r.of]
    BY <2>7 DEF RowShapes
  <2>9. /\ u = [id |-> r.id, array |-> r.array, source |-> r.source, run |-> r.run, of |-> c.of]
        /\ u.id = r.id /\ u.run = r.run /\ u.source = r.source /\ u.of = c.of /\ u.array = r.array
    BY <2>3, <2>8
  <2>10. u \in RowShapes(n)
    BY <2>7, <2>8, <2>9 DEF RowShapes
  <2>11. c.id[2] = r.id[2]
    BY <2>4, <2>7, <2>8 DEF RowOK
  <2>12. RowOK(u)
    <3>1. CASE c.id = r.id
      BY <2>7, <2>9, <3>1 DEF RowOK
    <3>2. CASE c.run = r.run /\ ~\E q \in DOMAIN new : new[q].id = r.id
      <4>1. r.id[1] \notin shapesOf(c.of.job)
        BY <2>5, <2>8, <2>11, <3>2
      <4>2. QED
        BY <2>7, <2>9, <2>11, <3>2, <4>1 DEF RowOK
    <3>3. QED
      BY <2>4, <3>1, <3>2
  <2>13. u \in Samples(n)
    BY <2>10, <2>12 DEF Samples
  <2>14. Matches(u, new) = {c}
    BY <2>6, <2>9, MatchesSame
  <2>15. [u EXCEPT !.of = c.of] = u
    BY <2>9
  <2>16. Update(u, new) = u
    BY <2>2, <2>14, <2>15 DEF Update
  <2>17. QED
    BY <2>6, <2>9, <2>13, <2>14, <2>16 DEF u
<1>4. QED
  BY <1>2, <1>3

-----------------------------------------------------------------------------
(* A collection, a merge and an import *)

Measurements(j, n) ==
  [scope : TargetScopes, layers : (SUBSET shapesOf(j)) \ {{}}, at : 1..n]
MeasuredOK ==
  /\ measures \in Nat
  /\ \A j \in SampleJobIds : measured[j] \in SUBSET Measurements(j, measures)
  /\ DOMAIN measured = SampleJobIds /\ measured = [j \in SampleJobIds |-> measured[j]]
  /\ \A j \in SampleJobIds : \A x, y \in measured[j] : x.scope = y.scope => x = y

LEMMA ToCollectFacts ==
  ASSUME SetupOK, MeasuredOK
  PROVE  /\ \A x \in ToCollect : /\ x = <<x[1], x[2], x[3]>> /\ x[1] \in SampleJobIds
                                 /\ x[1] \in Nat /\ x[2] \in Nat
                                 /\ x[2] \in DOMAIN setup[x[1]].shapes
                                 /\ x[3] \in measured[x[1]]
                                 /\ x[3] \in Measurements(x[1], measures)
         /\ \A x, y \in ToCollect :
              x[1] = y[1] /\ x[2] = y[2] /\ x[3].scope = y[3].scope => x = y
         /\ \A x \in ToCollect : \A p \in DOMAIN setup[x[1]].shapes : <<x[1], p, x[3]>> \in ToCollect
         /\ IsFiniteSet(ToCollect)
<1>1. \A x \in ToCollect : /\ x = <<x[1], x[2], x[3]>> /\ x[1] \in SampleJobIds
                           /\ x[1] \in Nat /\ x[2] \in Nat /\ x[2] \in 1..2
                           /\ x[2] \in DOMAIN setup[x[1]].shapes
                           /\ x[3] \in measured[x[1]]
                           /\ x[3] \in Measurements(x[1], measures)
  <2> SUFFICES ASSUME NEW j \in SampleJobIds, NEW p \in DOMAIN setup[j].shapes, NEW m \in measured[j]
               PROVE  j \in Nat /\ p \in Nat /\ p \in 1..2 /\ m \in Measurements(j, measures)
    BY DEF ToCollect
  <2>1. j \in Nat
    BY DEF SampleJobIds
  <2>2. p \in 1..2
    BY SetupFacts
  <2>3. QED
    BY <2>1, <2>2 DEF MeasuredOK
<1>2. \A x, y \in ToCollect : x[1] = y[1] /\ x[2] = y[2] /\ x[3].scope = y[3].scope => x = y
  <2> SUFFICES ASSUME NEW x \in ToCollect, NEW y \in ToCollect,
                      x[1] = y[1], x[2] = y[2], x[3].scope = y[3].scope
               PROVE  x = y
    OBVIOUS
  <2>1. x[3] = y[3]
    BY <1>1 DEF MeasuredOK
  <2>2. QED
    BY <1>1, <2>1
<1>3. ASSUME NEW x \in ToCollect, NEW p \in DOMAIN setup[x[1]].shapes
      PROVE  <<x[1], p, x[3]>> \in ToCollect
  <2>1. <<x[1], p, x[3]>> \in {x[1]} \X (DOMAIN setup[x[1]].shapes) \X measured[x[1]]
    BY <1>1
  <2>2. QED
    BY <1>1, <2>1 DEF ToCollect
<1>4. IsFiniteSet(ToCollect)
  <2> DEFINE f == [x \in ToCollect |-> <<x[1], <<x[2], x[3].scope>>>>]
             S == SampleJobIds \X ((1..2) \X TargetScopes)
  <2>1. \A x \in ToCollect : x[3].scope \in TargetScopes
    BY <1>1 DEF Measurements
  <2>2. f \in Injection(ToCollect, S)
    BY <1>1, <1>2, <2>1 DEF Injection, IsInjective
  <2>3. IsFiniteSet(SampleJobIds) /\ IsFiniteSet(TargetScopes) /\ IsFiniteSet(1..2)
    <3>1. /\ IsFiniteSet(SampleJobIds)
          /\ IsFiniteSet(1..2)
      <4>1. 1 \in Int /\ 2 \in Int /\ SampleJobs \in Int
        BY SampleAssumption
      <4>2. \A a, b \in Int : IsFiniteSet(a..b)
        BY FS_Interval
      <4>3. QED
        BY <4>1, <4>2 DEF SampleJobIds
    <3>2. TargetScopes = {"full-layer"} \cup {"tile-policy"}
      BY DEF TargetScopes
    <3>3. IsFiniteSet({"full-layer"})
      BY FS_Singleton
    <3>4. IsFiniteSet({"full-layer"} \cup {"tile-policy"})
      BY <3>3, FS_AddElement
    <3>5. QED
      BY <3>1, <3>2, <3>4
  <2>4. IsFiniteSet(S)
    <3>1. IsFiniteSet((1..2) \X TargetScopes)
      BY <2>3, FS_Product
    <3>2. QED
      BY <2>3, <3>1, FS_Product
  <2> HIDE DEF f, S
  <2>5. QED
    BY <2>2, <2>4, FS_Injection
<1>5. QED
  BY <1>1, <1>2, <1>3, <1>4

\* The row of a shape of a job
LEMMA ToRowFacts ==
  ASSUME SetupOK, NEW n, NEW j \in SampleJobIds, NEW s \in shapesOf(j), NEW m \in Measurements(j, n)
  PROVE  /\ ToRow(j, s, m) \in Made(n)
         /\ ToRow(j, s, m).id = <<s, m.scope>> /\ ToRow(j, s, m).of.job = j
<1>1. /\ m.scope \in TargetScopes /\ m.layers \in SUBSET shapesOf(j) /\ m.layers # {}
      /\ m.at \in 1..n
  BY DEF Measurements
<1>2. LayerOf(s, m) \in shapesOf(j)
  BY <1>1 DEF LayerOf
<1>3. SourceOf(s, m) \in {"measured", "fallback"}
  BY DEF SourceOf
<1>4. shapesOf(j) \in SUBSET ShapeNames /\ setup[j].array \in 1..2 /\ runNameOf(j) \in Runs
  BY SetupFacts DEF Runs
<1> DEFINE lay == LayerOf(s, m)
           source == SourceOf(s, m)
           name == runNameOf(j)
           array == setup[j].array
           of == [job |-> j, shape |-> s, scope |-> m.scope, layer |-> lay, at |-> m.at]
           r == [id |-> <<s, m.scope>>, array |-> array, source |-> source,
                 run |-> <<name, m.scope>>, of |-> of]
<1>5. ToRow(j, s, m) = r
  BY DEF ToRow
<1> HIDE DEF lay, source, name, array
<1>6. r.of.job = j /\ r.id = <<s, m.scope>> /\ r.of.shape = s /\ r.of.layer = lay
      /\ r.of.scope = m.scope /\ r.run = <<name, m.scope>> /\ r.array = array
  OBVIOUS
<1>7. r \in RowShapes(n)
  <2>1. of \in [job : SampleJobIds, shape : ShapeNames, scope : TargetScopes, layer : ShapeNames,
                at : 1..n]
    BY <1>1, <1>2, <1>4 DEF lay
  <2>2. QED
    BY <1>1, <1>3, <1>4, <2>1 DEF RowShapes, source, name, array
<1>8. RowOK(r)
  BY <1>2, <1>6 DEF RowOK, lay
<1>9. r \in Made(n)
  BY <1>6, <1>7, <1>8 DEF Made, Samples, name, array
<1>10. QED
  BY <1>5, <1>6, <1>9

\* The rows of a collection are of what was measured, all and once.
LEMMA CollectedFacts ==
  ASSUME SetupOK, MeasuredOK
  PROVE  Collection(Collected, measures)
<1> DEFINE W == ToCollect
           R == {x \in W \X W : ComesBefore(x[1], x[2])}
           N == Cardinality(W)
           s == Sorted(R, W)
           chosen(i) == CHOOSE x \in W : Cardinality({y \in W : ComesBefore(y, x)}) = i - 1
           row(x) == ToRow(x[1], setup[x[1]].shapes[x[2]], x[3])
<1>1. /\ \A x \in W : /\ x = <<x[1], x[2], x[3]>> /\ x[1] \in SampleJobIds
                      /\ x[1] \in Nat /\ x[2] \in Nat
                      /\ x[2] \in DOMAIN setup[x[1]].shapes
                      /\ x[3] \in Measurements(x[1], measures)
      /\ \A x, y \in W : x[1] = y[1] /\ x[2] = y[2] /\ x[3].scope = y[3].scope => x = y
      /\ \A x \in W : \A p \in DOMAIN setup[x[1]].shapes : <<x[1], p, x[3]>> \in W
      /\ IsFiniteSet(W)
  BY ToCollectFacts
<1>2. ASSUME NEW x \in W, NEW y \in W
      PROVE  <<x, y>> \in R <=> ComesBefore(x, y)
  OBVIOUS
<1> HIDE DEF R, W
<1>3. IsStrictOrder(R, W)
  <2> SUFFICES \A x, y, z \in W : /\ ~ComesBefore(x, x)
                                  /\ ComesBefore(x, y) /\ ComesBefore(y, z) => ComesBefore(x, z)
                                  /\ x # y => ComesBefore(x, y) \/ ComesBefore(y, x)
    BY <1>2 DEF IsStrictOrder
  <2> SUFFICES ASSUME NEW x \in W, NEW y \in W, NEW z \in W
               PROVE  /\ ~ComesBefore(x, x)
                      /\ ComesBefore(x, y) /\ ComesBefore(y, z) => ComesBefore(x, z)
                      /\ x # y => ComesBefore(x, y) \/ ComesBefore(y, x)
    OBVIOUS
  <2>1. \A w \in W : w[1] \in Nat /\ w[2] \in Nat /\ w[3].scope \in {"full-layer", "tile-policy"}
    BY <1>1 DEF TargetScopes, Measurements
  <2>2. x # y => x[1] # y[1] \/ x[2] # y[2] \/ x[3].scope # y[3].scope
    BY <1>1
  <2>3. QED
    BY <2>1, <2>2 DEF ComesBefore
<1>4. /\ N \in Nat /\ Len(s) = N /\ s \in Seq(W)
      /\ \A i \in 1..N : s[i] \in W
      /\ \A x \in W : \E i \in 1..N : s[i] = x
      /\ \A i, k \in 1..N : i < k <=> <<s[i], s[k]>> \in R
  <2>1. /\ N \in Nat /\ Len(s) = N /\ s \in Seq(W)
        /\ \A i \in 1..N : s[i] \in W
        /\ \A x \in W : /\ Cardinality(Below(R, W, x)) \in 0..(N - 1)
                        /\ s[Cardinality(Below(R, W, x)) + 1] = x
        /\ \A i, k \in 1..N : i < k <=> <<s[i], s[k]>> \in R
    BY <1>1, <1>3, SortedFacts
  <2>2. ASSUME NEW x \in W
        PROVE  \E i \in 1..N : s[i] = x
    <3>1. Cardinality(Below(R, W, x)) + 1 \in 1..N
      BY <2>1
    <3>2. QED
      BY <2>1, <3>1
  <2>3. QED
    BY <2>1, <2>2
<1>5. \A i \in 1..N : s[i] = chosen(i)
  <2> SUFFICES ASSUME NEW i \in 1..N
               PROVE  s[i] = chosen(i)
    OBVIOUS
  <2>1. s[i] = CHOOSE x \in W : Cardinality(Below(R, W, x)) = i - 1
    BY DEF Sorted
  <2>2. \A x \in W : Below(R, W, x) = {y \in W : ComesBefore(y, x)}
    BY <1>2 DEF Below
  <2>3. (CHOOSE x \in W : Cardinality(Below(R, W, x)) = i - 1) = chosen(i)
    BY <2>2
  <2>4. QED
    BY <2>1, <2>3
<1>6. Collected = [i \in 1..N |-> row(chosen(i))]
  BY DEF Collected, W
<1> HIDE DEF s, chosen, N, row
<1>7. Collected = [i \in 1..N |-> row(s[i])]
  BY <1>5, <1>6
<1>8. ASSUME NEW x \in W
      PROVE  /\ row(x) \in Made(measures) /\ row(x).of.job = x[1]
             /\ row(x).id = <<setup[x[1]].shapes[x[2]], x[3].scope>>
  <2>1. setup[x[1]].shapes[x[2]] \in shapesOf(x[1])
    BY <1>1, SetupFacts
  <2>2. QED
    BY <1>1, <2>1, ToRowFacts DEF row
<1>9. Collected \in Seq(Made(measures)) /\ DOMAIN Collected = 1..N
  <2>1. Collected \in [1..N -> Made(measures)]
    BY <1>4, <1>7, <1>8
  <2>2. QED
    BY <1>4, <2>1
<1>10. \A i \in 1..N : /\ Collected[i].of.job = s[i][1] /\ s[i] \in W
                       /\ Collected[i].id = <<setup[s[i][1]].shapes[s[i][2]], s[i][3].scope>>
  BY <1>4, <1>7, <1>8
<1>11. ASSUME NEW p \in 1..N, NEW t \in shapesOf(Collected[p].of.job)
       PROVE  \E q \in 1..N : Collected[q].id = <<t, Collected[p].id[2]>>
  <2>1. s[p] \in W /\ Collected[p].of.job = s[p][1] /\ s[p][1] \in SampleJobIds
        /\ Collected[p].id[2] = s[p][3].scope
    BY <1>1, <1>10
  <2>2. PICK z \in DOMAIN setup[s[p][1]].shapes : setup[s[p][1]].shapes[z] = t
    BY <1>11, <2>1, SetupFacts
  <2>3. <<s[p][1], z, s[p][3]>> \in W
    BY <1>1, <2>1, <2>2
  <2>4. PICK q \in 1..N : s[q] = <<s[p][1], z, s[p][3]>>
    BY <1>4, <2>3
  <2>5. QED
    BY <1>10, <2>1, <2>2, <2>4
<1>12. ASSUME NEW i \in 1..N, NEW k \in 1..N, Collected[i].id = Collected[k].id,
              Collected[i].of.job = Collected[k].of.job, i # k
       PROVE  FALSE
  <2>1. s[i] \in W /\ s[k] \in W /\ s[i] # s[k]
    <3>1. i < k \/ k < i
      BY <1>4, <1>12
    <3>2. <<s[i], s[k]>> \in R \/ <<s[k], s[i]>> \in R
      BY <1>4, <3>1
    <3>3. QED
      BY <1>3, <1>4, <3>2 DEF IsStrictOrder
  <2>2. /\ s[i][1] = s[k][1] /\ s[i][3].scope = s[k][3].scope
        /\ setup[s[i][1]].shapes[s[i][2]] = setup[s[k][1]].shapes[s[k][2]]
    BY <1>10, <1>12
  <2>3. s[i][2] = s[k][2]
    BY <1>1, <2>1, <2>2, SetupFacts
  <2>4. QED
    BY <1>1, <2>1, <2>2, <2>3
<1>13. QED
  BY <1>9, <1>11, <1>12 DEF Collection, Whole

Joined(s, t) == s \o t

LEMMA JoinedFacts ==
  ASSUME NEW T, NEW s \in Seq(T), NEW t \in Seq(T)
  PROVE  /\ Joined(s, t) \in Seq(T) /\ Len(Joined(s, t)) = Len(s) + Len(t)
         /\ Len(s) \in Nat /\ DOMAIN s = 1..Len(s) /\ Len(t) \in Nat /\ DOMAIN t = 1..Len(t)
         /\ DOMAIN Joined(s, t) = 1..(Len(s) + Len(t))
         /\ \A i \in 1..(Len(s) + Len(t)) :
              Joined(s, t)[i] = IF i <= Len(s) THEN s[i] ELSE t[i - Len(s)]
         /\ \A i \in DOMAIN s : \E k \in DOMAIN Joined(s, t) : Joined(s, t)[k] = s[i]
         /\ \A i \in DOMAIN t : \E k \in DOMAIN Joined(s, t) : Joined(s, t)[k] = t[i]
<1> DEFINE j == Joined(s, t)
<1>1. /\ Len(s) \in Nat /\ Len(t) \in Nat /\ DOMAIN s = 1..Len(s) /\ DOMAIN t = 1..Len(t)
      /\ j \in Seq(T) /\ Len(j) = Len(s) + Len(t)
      /\ DOMAIN j = 1..(Len(s) + Len(t))
  BY DEF Joined
<1>2. \A i \in 1..(Len(s) + Len(t)) : j[i] = IF i <= Len(s) THEN s[i] ELSE t[i - Len(s)]
  BY DEF Joined
<1> HIDE DEF j
<1>3. ASSUME NEW i \in DOMAIN s
      PROVE  \E k \in DOMAIN j : j[k] = s[i]
  BY <1>1, <1>2
<1>4. ASSUME NEW i \in DOMAIN t
      PROVE  \E k \in DOMAIN j : j[k] = t[i]
  <2>1. /\ Len(s) + i \in 1..(Len(s) + Len(t)) /\ ~(Len(s) + i <= Len(s))
        /\ Len(s) + i - Len(s) = i
    BY <1>1
  <2>2. j[Len(s) + i] = t[i]
    BY <1>2, <2>1
  <2>3. QED
    BY <1>1, <2>1, <2>2
<1>5. QED
  BY <1>1, <1>2, <1>3, <1>4 DEF j

\* A merge updates the rows there are and adds the collected rows that have updated none.
Used(p, old, new) ==
  \E k \in DOMAIN old : \E m \in Matches(old[k], new) : KeyOf(m) = KeyOf(new[p])

LEMMA MergeFacts ==
  ASSUME NEW n, NEW old \in Seq(Samples(n)), old # <<>>, NEW new, Collection(new, n)
  PROVE  LET both == Merge(old, new) IN
         /\ both \in Seq(Samples(n))
         /\ \A i \in DOMAIN old : i \in DOMAIN both /\ both[i] = Update(old[i], new)
         /\ \A i \in DOMAIN both : i \notin DOMAIN old =>
              \E p \in DOMAIN new : both[i] = new[p] /\ ~Used(p, old, new)
         /\ \A i, k \in DOMAIN both : i # k /\ i \notin DOMAIN old /\ k \notin DOMAIN old =>
              \E p, q \in DOMAIN new : p # q /\ both[i] = new[p] /\ both[k] = new[q]
         /\ \A p \in DOMAIN new : ~Used(p, old, new) => \E i \in DOMAIN both : both[i] = new[p]
<1> DEFINE fresh == {p \in DOMAIN new : ~Used(p, old, new)}
           u == [i \in DOMAIN old |-> Update(old[i], new)]
           a == Added(old, new)
           both == Merge(old, new)
<1>1. /\ Len(old) \in Nat /\ DOMAIN old = 1..Len(old)
      /\ \A i \in DOMAIN old : old[i] \in Samples(n)
      /\ new \in Seq(Samples(n))
  <2>1. new \in Seq(Made(n)) /\ Made(n) \subseteq Samples(n)
    BY DEF Collection, Made
  <2>2. QED
    BY <2>1
<1>2. u \in Seq(Samples(n)) /\ Len(u) = Len(old)
  <2>1. \A i \in DOMAIN old : Update(old[i], new) \in Samples(n)
    BY <1>1, UpdateFacts
  <2>2. u \in [1..Len(old) -> Samples(n)]
    BY <1>1, <2>1
  <2>3. QED
    BY <1>1, <2>1, <2>2
<1>3. a = AtPlaces(new, fresh)
  BY DEF Added, Used
<1>4. fresh \in SUBSET DOMAIN new /\ \A p \in DOMAIN new : p \in fresh <=> ~Used(p, old, new)
  OBVIOUS
<1> HIDE DEF fresh
<1>5. /\ a \in Seq(Samples(n))
      /\ \A i \in DOMAIN a : \E p \in fresh : a[i] = new[p]
      /\ \A p \in fresh : \E i \in DOMAIN a : a[i] = new[p]
      /\ \A i, k \in DOMAIN a : i # k =>
           \E p, q \in fresh : p # q /\ a[i] = new[p] /\ a[k] = new[q]
  BY <1>1, <1>3, <1>4, AtPlacesFacts
<1>6. both = Joined(u, a) /\ \A i \in DOMAIN old : u[i] = Update(old[i], new)
  BY DEF Merge, Joined
<1> HIDE DEF a, u, both
<1>7. /\ both \in Seq(Samples(n)) /\ Len(a) \in Nat
      /\ DOMAIN both = 1..(Len(old) + Len(a)) /\ DOMAIN a = 1..Len(a)
      /\ \A i \in 1..(Len(old) + Len(a)) :
           both[i] = IF i <= Len(old) THEN u[i] ELSE a[i - Len(old)]
  <2>1. /\ u \in Seq(Samples(n)) /\ a \in Seq(Samples(n))
        /\ Len(u) = Len(old) /\ Len(old) \in Nat
    BY <1>1, <1>2, <1>5
  <2>2. ASSUME NEW T, u \in Seq(T), a \in Seq(T)
        PROVE  /\ Joined(u, a) \in Seq(T)
               /\ Len(u) \in Nat /\ DOMAIN u = 1..Len(u) /\ Len(a) \in Nat /\ DOMAIN a = 1..Len(a)
               /\ DOMAIN Joined(u, a) = 1..(Len(u) + Len(a))
               /\ \A i \in 1..(Len(u) + Len(a)) :
                    Joined(u, a)[i] = IF i <= Len(u) THEN u[i] ELSE a[i - Len(u)]
    BY <2>2, JoinedFacts
  <2>3. QED
    BY <1>6, <2>1, <2>2
<1>8. \A i \in DOMAIN old : i \in DOMAIN both /\ both[i] = Update(old[i], new)
  BY <1>1, <1>6, <1>7
<1>9. \A i \in DOMAIN both : i \notin DOMAIN old => i - Len(old) \in DOMAIN a /\ both[i] = a[i - Len(old)]
  BY <1>1, <1>7
<1>10. ASSUME NEW i \in DOMAIN both, i \notin DOMAIN old
       PROVE  \E p \in DOMAIN new : both[i] = new[p] /\ ~Used(p, old, new)
  BY <1>4, <1>5, <1>9, <1>10
<1>11. ASSUME NEW i \in DOMAIN both, NEW k \in DOMAIN both, i # k, i \notin DOMAIN old, k \notin DOMAIN old
       PROVE  \E p, q \in DOMAIN new : p # q /\ both[i] = new[p] /\ both[k] = new[q]
  <2>1. i - Len(old) # k - Len(old)
    BY <1>1, <1>7, <1>11
  <2>2. QED
    BY <1>4, <1>5, <1>9, <1>11, <2>1
<1>12. ASSUME NEW p \in DOMAIN new, ~Used(p, old, new)
       PROVE  \E i \in DOMAIN both : both[i] = new[p]
  <2>1. PICK i \in DOMAIN a : a[i] = new[p]
    BY <1>4, <1>5, <1>12
  <2>2. /\ Len(old) + i \in 1..(Len(old) + Len(a)) /\ ~(Len(old) + i <= Len(old))
        /\ Len(old) + i - Len(old) = i
    BY <1>1, <1>7
  <2>3. both[Len(old) + i] = a[i]
    BY <1>7, <2>2
  <2>4. QED
    BY <1>7, <2>1, <2>2, <2>3
<1>13. QED
  BY <1>7, <1>8, <1>10, <1>11, <1>12 DEF both

\* An import keeps one row of each id and source.
LEMMA DedupedFacts ==
  ASSUME NEW T, NEW seq \in Seq(T)
  PROVE  LET d == Deduped(seq) IN
         /\ d \in Seq(T)
         /\ \A i \in DOMAIN d : \E k \in DOMAIN seq : d[i] = seq[k]
         /\ \A i \in DOMAIN seq : \E k \in DOMAIN d : Signature(d[k]) = Signature(seq[i])
         /\ \A i, k \in DOMAIN d : i # k => Signature(d[i]) # Signature(d[k])
<1> DEFINE first == {p \in DOMAIN seq : ~\E k \in 1..p - 1 : Signature(seq[k]) = Signature(seq[p])}
           d == Deduped(seq)
<1>1. Len(seq) \in Nat /\ DOMAIN seq = 1..Len(seq)
  OBVIOUS
<1>2. first \in SUBSET DOMAIN seq /\ d = AtPlaces(seq, first)
  BY DEF Deduped
<1>3. ASSUME NEW i \in DOMAIN seq
      PROVE  \E p \in first : Signature(seq[p]) = Signature(seq[i])
  <2> DEFINE same == {p \in DOMAIN seq : Signature(seq[p]) = Signature(seq[i])}
  <2>1. same \in SUBSET Nat /\ same # {}
    BY <1>1
  <2> HIDE DEF same
  <2>2. PICK p \in same : \A q \in same : p <= q
    BY <2>1, LeastNumber
  <2>3. p \in DOMAIN seq /\ Signature(seq[p]) = Signature(seq[i])
    BY <2>2 DEF same
  <2>4. ASSUME NEW k \in 1..p - 1, Signature(seq[k]) = Signature(seq[p])
        PROVE  FALSE
    <3>1. k \in DOMAIN seq /\ k < p
      BY <1>1, <2>3
    <3>2. k \in same
      BY <2>3, <2>4, <3>1 DEF same
    <3>3. QED
      BY <1>1, <2>2, <2>3, <3>1, <3>2
  <2>5. QED
    BY <2>3, <2>4
<1>4. ASSUME NEW p \in first, NEW q \in first, p # q
      PROVE  Signature(seq[p]) # Signature(seq[q])
  <2>1. p \in 1..q - 1 \/ q \in 1..p - 1
    BY <1>1, <1>2, <1>4
  <2>2. QED
    BY <2>1
<1> HIDE DEF first
<1> HIDE DEF d
<1>5. /\ d \in Seq(T)
      /\ \A i \in DOMAIN d : \E p \in first : d[i] = seq[p]
      /\ \A p \in first : \E k \in DOMAIN d : d[k] = seq[p]
      /\ \A i, k \in DOMAIN d : i # k =>
           \E p, q \in first : p # q /\ d[i] = seq[p] /\ d[k] = seq[q]
  BY <1>2, AtPlacesFacts
<1>6. ASSUME NEW i \in DOMAIN seq
      PROVE  \E k \in DOMAIN d : Signature(d[k]) = Signature(seq[i])
  <2>1. PICK p \in first : Signature(seq[p]) = Signature(seq[i])
    BY <1>3
  <2>2. PICK k \in DOMAIN d : d[k] = seq[p]
    BY <1>5
  <2>3. QED
    BY <2>1, <2>2
<1>7. ASSUME NEW i \in DOMAIN d, NEW k \in DOMAIN d, i # k
      PROVE  Signature(d[i]) # Signature(d[k])
  <2>1. PICK p \in first, q \in first : p # q /\ d[i] = seq[p] /\ d[k] = seq[q]
    BY <1>5, <1>7
  <2>2. QED
    BY <1>4, <2>1
<1>8. \A i \in DOMAIN d : \E k \in DOMAIN seq : d[i] = seq[k]
  BY <1>2, <1>5
<1>9. QED
  BY <1>5, <1>6, <1>7, <1>8 DEF d

-----------------------------------------------------------------------------
(* The invariant of the samples *)

\* The rows of a shape that only one job is about: one of each target, and in the file
\* no other.
OneEach(seq) ==
  \A i, k \in DOMAIN seq : seq[i].id = seq[k].id /\ Sole(seq[i].id[1]) => i = k
FileAgrees(file, seq) ==
  /\ \A i \in DOMAIN file : \E k \in DOMAIN seq : seq[k].id = file[i].id
  /\ \A i \in DOMAIN file : \A k \in DOMAIN seq :
       file[i].id = seq[k].id /\ Sole(seq[k].id[1]) => file[i].source = seq[k].source

RowsOK ==
  /\ rows \in Seq(Samples(measures)) /\ saved \in Seq(Samples(measures))
  /\ OneEach(rows) /\ FileAgrees(saved, rows)

\* What a collection would return is in the rows.
SettledWith(seq, new) ==
  /\ \A p \in DOMAIN new : \E i \in DOMAIN seq, q \in DOMAIN new :
       KeyOf(new[q]) = KeyOf(new[p]) /\ seq[i].of = new[q].of
  /\ \A i \in DOMAIN seq : \A p \in DOMAIN new : new[p].id = seq[i].id =>
       \E q \in DOMAIN new : new[q].id = seq[i].id /\ seq[i].of = new[q].of
  /\ \A i \in DOMAIN seq : ~Twice(new, seq[i].id) => Update(seq[i], new) = seq[i]
  /\ \A p \in DOMAIN new : ~Twice(new, new[p].id) => Used(p, seq, new)
SettledOK == settled => SettledWith(rows, Collected)

CountsOK == files \in 0..MaxFiles /\ measures \in 0..MaxMeasured
CollectInv == SetupOK /\ MeasuredOK /\ RowsOK /\ SettledOK /\ CountsOK

LEMMA CollectInitInv == CollectionInit => CollectInv
<1> SUFFICES ASSUME CollectionInit
             PROVE  CollectInv
  OBVIOUS
<1>1. SetupOK /\ CountsOK
  BY SampleAssumption DEF CollectionInit, SetupOK, CountsOK
<1>2. MeasuredOK
  BY DEF CollectionInit, MeasuredOK
<1>3. RowsOK
  BY DEF CollectionInit, RowsOK, OneEach, FileAgrees
<1>4. SettledOK
  BY DEF CollectionInit, SettledOK
<1>5. QED
  BY <1>1, <1>2, <1>3, <1>4 DEF CollectInv

\* Only one row is collected of a target that only one job is about.
LEMMA SoleIsOnce ==
  ASSUME NEW n, NEW new, Collection(new, n), NEW p \in DOMAIN new, NEW q \in DOMAIN new,
         new[p].id = new[q].id, Sole(new[p].id[1])
  PROVE  p = q
<1>1. new \in Seq(Made(n)) /\ Whole(new)
  BY DEF Collection
<1>2. \A r \in Made(n) : r.of.job \in SampleJobIds /\ r.id[1] \in shapesOf(r.of.job)
  BY RowFacts DEF Made, RowOK
<1>3. new[p] \in Made(n) /\ new[q] \in Made(n)
  BY <1>1
<1>4. new[p].of.job = new[q].of.job
  BY <1>2, <1>3 DEF Sole
<1>5. QED
  BY <1>1, <1>4 DEF Whole

\* A row that has the id of a collected row which has updated none is not of a shape of
\* one job only.
LEMMA UsedIfSole ==
  ASSUME NEW n, NEW old, NEW new, Collection(new, n), NEW p \in DOMAIN new,
         NEW k \in DOMAIN old, old[k].id = new[p].id, ~Used(p, old, new)
  PROVE  ~Sole(new[p].id[1])
<1>1. new \in Seq(Made(n))
  BY DEF Collection
<1>2. PICK q \in DOMAIN new : Matches(old[k], new) = {new[q]} /\ new[q].id = old[k].id
  BY <1>1, MatchFacts
<1>3. KeyOf(new[q]) # KeyOf(new[p])
  BY <1>2 DEF Used
<1>4. QED
  BY <1>2, <1>3, SoleIsOnce

\* After a collection the rows have what was collected ...
LEMMA MergedIsSettled ==
  ASSUME NEW n, NEW old \in Seq(Samples(n)), NEW new, Collection(new, n)
  PROVE  Merge(old, new) \in Seq(Samples(n)) /\ SettledWith(Merge(old, new), new)
<1> DEFINE merged == Merge(old, new)
<1>1. /\ new \in Seq(Made(n)) /\ new \in Seq(Samples(n))
      /\ \A p \in DOMAIN new : ~Twice(new, new[p].id) =>
           Matches(new[p], new) = {new[p]} /\ Update(new[p], new) = new[p]
  <2>1. new \in Seq(Made(n)) /\ Made(n) \subseteq Samples(n)
    BY DEF Collection, Made
  <2>2. QED
    BY <2>1, SelfMatch
<1>2. CASE old = <<>>
  <2>1. merged = new
    BY <1>2 DEF Merge
  <2>2. SettledWith(new, new)
    BY <1>1 DEF SettledWith, Used
  <2>3. QED
    BY <1>1, <2>1, <2>2
<1>3. CASE old # <<>>
  <2>1. /\ merged \in Seq(Samples(n))
        /\ \A i \in DOMAIN old : i \in DOMAIN merged /\ merged[i] = Update(old[i], new)
        /\ \A i \in DOMAIN merged : i \notin DOMAIN old =>
             \E p \in DOMAIN new : merged[i] = new[p] /\ ~Used(p, old, new)
        /\ \A p \in DOMAIN new : ~Used(p, old, new) => \E i \in DOMAIN merged : merged[i] = new[p]
    BY <1>3, MergeFacts
  <2> HIDE DEF merged
  <2>2. \A i \in DOMAIN old :
          /\ i \in DOMAIN merged /\ merged[i].id = old[i].id
          /\ \A m \in Matches(old[i], new) : merged[i].of = m.of
          /\ Matches(merged[i], new) = Matches(old[i], new) /\ Update(merged[i], new) = merged[i]
    <3> SUFFICES ASSUME NEW i \in DOMAIN old
                 PROVE  /\ i \in DOMAIN merged /\ merged[i].id = old[i].id
                        /\ \A m \in Matches(old[i], new) : merged[i].of = m.of
                        /\ Matches(merged[i], new) = Matches(old[i], new)
                        /\ Update(merged[i], new) = merged[i]
      OBVIOUS
    <3>1. old[i] \in Samples(n) /\ merged[i] = Update(old[i], new) /\ i \in DOMAIN merged
      BY <2>1
    <3>2. QED
      BY <3>1, UpdateFacts
  <2>3. ASSUME NEW p \in DOMAIN new
        PROVE  /\ \E i \in DOMAIN merged, q \in DOMAIN new :
                    KeyOf(new[q]) = KeyOf(new[p]) /\ merged[i].of = new[q].of
               /\ ~Twice(new, new[p].id) => Used(p, merged, new)
    <3>1. CASE Used(p, old, new)
      <4>1. PICK k \in DOMAIN old : \E m \in Matches(old[k], new) : KeyOf(m) = KeyOf(new[p])
        BY <3>1 DEF Used
      <4>2. PICK q \in DOMAIN new : Matches(old[k], new) = {new[q]}
        BY <1>1, <4>1, MatchFacts
      <4>3. KeyOf(new[q]) = KeyOf(new[p]) /\ new[q] \in Matches(old[k], new)
        BY <4>1, <4>2
      <4>4. k \in DOMAIN merged /\ merged[k].of = new[q].of /\ new[q] \in Matches(merged[k], new)
        BY <2>2, <4>3
      <4>5. QED
        BY <4>3, <4>4 DEF Used
    <3>2. CASE ~Used(p, old, new)
      <4>1. PICK i \in DOMAIN merged : merged[i] = new[p]
        BY <2>1, <3>2
      <4>2. ~Twice(new, new[p].id) => new[p] \in Matches(merged[i], new)
        BY <1>1, <4>1
      <4>3. QED
        BY <4>1, <4>2 DEF Used
    <3>3. QED
      BY <3>1, <3>2
  <2>4. ASSUME NEW i \in DOMAIN merged
        PROVE  /\ \A p \in DOMAIN new : new[p].id = merged[i].id =>
                    \E q \in DOMAIN new : new[q].id = merged[i].id /\ merged[i].of = new[q].of
               /\ ~Twice(new, merged[i].id) => Update(merged[i], new) = merged[i]
    <3>1. CASE i \in DOMAIN old
      <4>1. ASSUME NEW p \in DOMAIN new, new[p].id = merged[i].id
            PROVE  \E q \in DOMAIN new : new[q].id = merged[i].id /\ merged[i].of = new[q].of
        <5>1. new[p].id = old[i].id
          BY <2>2, <3>1, <4>1
        <5>2. PICK q \in DOMAIN new : Matches(old[i], new) = {new[q]} /\ new[q].id = old[i].id
          BY <1>1, <5>1, MatchFacts
        <5>3. QED
          BY <2>2, <3>1, <5>2
      <4>2. QED
        BY <2>2, <3>1, <4>1
    <3>2. CASE i \notin DOMAIN old
      <4>1. PICK p \in DOMAIN new : merged[i] = new[p]
        BY <2>1, <3>2
      <4>2. QED
        BY <1>1, <4>1
    <3>3. QED
      BY <3>1, <3>2
  <2>5. SettledWith(merged, new)
    BY <2>3, <2>4 DEF SettledWith
  <2>6. QED
    BY <2>1, <2>5 DEF merged
<1>4. QED
  BY <1>2, <1>3

\* ... one row of each target of a shape that only one job is about ...
LEMMA MergedOneEach ==
  ASSUME NEW n, NEW old \in Seq(Samples(n)), NEW new, Collection(new, n), OneEach(old)
  PROVE  OneEach(Merge(old, new))
<1> DEFINE merged == Merge(old, new)
<1>1. CASE old = <<>>
  BY <1>1, SoleIsOnce DEF Merge, OneEach
<1>2. CASE old # <<>>
  <2>1. /\ \A i \in DOMAIN old : i \in DOMAIN merged /\ merged[i] = Update(old[i], new)
        /\ \A i \in DOMAIN merged : i \notin DOMAIN old =>
             \E p \in DOMAIN new : merged[i] = new[p] /\ ~Used(p, old, new)
        /\ \A i, k \in DOMAIN merged : i # k /\ i \notin DOMAIN old /\ k \notin DOMAIN old =>
             \E p, q \in DOMAIN new : p # q /\ merged[i] = new[p] /\ merged[k] = new[q]
    BY <1>2, MergeFacts
  <2> HIDE DEF merged
  <2>2. ASSUME NEW i \in DOMAIN old
        PROVE  merged[i].id = old[i].id
    <3>1. old[i] \in Samples(n)
      OBVIOUS
    <3>2. QED
      BY <2>1, <3>1, UpdateFacts
  <2>3. ASSUME NEW i \in DOMAIN old, NEW k \in DOMAIN merged, k \notin DOMAIN old,
               merged[i].id = merged[k].id
        PROVE  ~Sole(merged[i].id[1])
    <3>1. PICK p \in DOMAIN new : merged[k] = new[p] /\ ~Used(p, old, new)
      BY <2>1, <2>3
    <3>2. old[i].id = new[p].id
      BY <2>2, <2>3, <3>1
    <3>3. ~Sole(new[p].id[1])
      BY <3>1, <3>2, UsedIfSole
    <3>4. QED
      BY <2>3, <3>1, <3>3
  <2>4. ASSUME NEW i \in DOMAIN merged, NEW k \in DOMAIN merged, i # k,
               merged[i].id = merged[k].id, Sole(merged[i].id[1])
        PROVE  FALSE
    <3>1. CASE i \in DOMAIN old /\ k \in DOMAIN old
      BY <2>2, <2>4, <3>1 DEF OneEach
    <3>2. CASE i \in DOMAIN old /\ k \notin DOMAIN old
      BY <2>3, <2>4, <3>2
    <3>3. CASE i \notin DOMAIN old /\ k \in DOMAIN old
      BY <2>3, <2>4, <3>3
    <3>4. CASE i \notin DOMAIN old /\ k \notin DOMAIN old
      <4>1. PICK p \in DOMAIN new, q \in DOMAIN new :
              p # q /\ merged[i] = new[p] /\ merged[k] = new[q]
        BY <2>1, <2>4, <3>4
      <4>2. QED
        BY <2>4, <4>1, SoleIsOnce
    <3>5. QED
      BY <3>1, <3>2, <3>3, <3>4
  <2>5. QED
    BY <2>4 DEF OneEach, merged
<1>3. QED
  BY <1>1, <1>2

\* ... and still those of the file.
LEMMA MergedFileAgrees ==
  ASSUME NEW n, NEW old \in Seq(Samples(n)), NEW new, Collection(new, n), OneEach(old),
         NEW file, FileAgrees(file, old)
  PROVE  FileAgrees(file, Merge(old, new))
<1> DEFINE merged == Merge(old, new)
<1>1. CASE old = <<>>
  <2>1. DOMAIN old = {}
    BY <1>1
  <2>2. DOMAIN file = {}
    BY <2>1 DEF FileAgrees
  <2>3. QED
    BY <2>2 DEF FileAgrees
<1>2. CASE old # <<>>
  <2>1. \A i \in DOMAIN old : i \in DOMAIN merged /\ merged[i] = Update(old[i], new)
    BY <1>2, MergeFacts
  <2>2. OneEach(merged)
    BY MergedOneEach
  <2> HIDE DEF merged
  <2>3. ASSUME NEW i \in DOMAIN old
        PROVE  i \in DOMAIN merged /\ merged[i].id = old[i].id /\ merged[i].source = old[i].source
    <3>1. old[i] \in Samples(n)
      OBVIOUS
    <3>2. QED
      BY <2>1, <3>1, UpdateFacts
  <2>4. ASSUME NEW f \in DOMAIN file
        PROVE  \E k \in DOMAIN merged : merged[k].id = file[f].id
    BY <2>3 DEF FileAgrees
  <2>5. ASSUME NEW f \in DOMAIN file, NEW k \in DOMAIN merged,
               file[f].id = merged[k].id, Sole(merged[k].id[1])
        PROVE  file[f].source = merged[k].source
    <3>1. PICK i \in DOMAIN old : old[i].id = file[f].id
      BY DEF FileAgrees
    <3>2. i = k
      BY <2>2, <2>3, <2>5, <3>1 DEF OneEach
    <3>3. QED
      BY <2>3, <2>5, <3>1, <3>2 DEF FileAgrees
  <2>6. QED
    BY <2>4, <2>5 DEF FileAgrees, merged
<1>3. QED
  BY <1>1, <1>2

\* The rows of an import are of both files, and one of each id and source.
OfBoth(d, s, t) ==
  /\ \A i \in DOMAIN d : \/ \E k \in DOMAIN s : d[i] = s[k]
                         \/ \E k \in DOMAIN t : d[i] = t[k]
  /\ \A k \in DOMAIN s : \E i \in DOMAIN d : Signature(d[i]) = Signature(s[k])
  /\ \A k \in DOMAIN t : \E i \in DOMAIN d : Signature(d[i]) = Signature(t[k])
  /\ \A i, k \in DOMAIN d : i # k => Signature(d[i]) # Signature(d[k])

LEMMA ImportFacts ==
  ASSUME NEW T, NEW s \in Seq(T), NEW t \in Seq(T), NEW both \in {Joined(s, t), Joined(t, s)}
  PROVE  Deduped(both) \in Seq(T) /\ OfBoth(Deduped(both), s, t)
<1> DEFINE d == Deduped(both)
<1>1. ASSUME NEW x \in Seq(T), NEW y \in Seq(T)
      PROVE  /\ Joined(x, y) \in Seq(T)
             /\ \A i \in DOMAIN Joined(x, y) : \/ \E k \in DOMAIN x : Joined(x, y)[i] = x[k]
                                               \/ \E k \in DOMAIN y : Joined(x, y)[i] = y[k]
             /\ \A i \in DOMAIN x : \E k \in DOMAIN Joined(x, y) : Joined(x, y)[k] = x[i]
             /\ \A i \in DOMAIN y : \E k \in DOMAIN Joined(x, y) : Joined(x, y)[k] = y[i]
  <2>1. /\ Joined(x, y) \in Seq(T)
        /\ Len(x) \in Nat /\ DOMAIN x = 1..Len(x) /\ Len(y) \in Nat /\ DOMAIN y = 1..Len(y)
        /\ DOMAIN Joined(x, y) = 1..(Len(x) + Len(y))
        /\ \A i \in 1..(Len(x) + Len(y)) :
             Joined(x, y)[i] = IF i <= Len(x) THEN x[i] ELSE y[i - Len(x)]
        /\ \A i \in DOMAIN x : \E k \in DOMAIN Joined(x, y) : Joined(x, y)[k] = x[i]
        /\ \A i \in DOMAIN y : \E k \in DOMAIN Joined(x, y) : Joined(x, y)[k] = y[i]
    <3>1. /\ Joined(x, y) \in Seq(T)
          /\ Len(x) \in Nat /\ DOMAIN x = 1..Len(x) /\ Len(y) \in Nat /\ DOMAIN y = 1..Len(y)
          /\ DOMAIN Joined(x, y) = 1..(Len(x) + Len(y))
      BY JoinedFacts
    <3>2. \A i \in 1..(Len(x) + Len(y)) :
            Joined(x, y)[i] = IF i <= Len(x) THEN x[i] ELSE y[i - Len(x)]
      BY JoinedFacts
    <3>3. \A i \in DOMAIN x : \E k \in DOMAIN Joined(x, y) : Joined(x, y)[k] = x[i]
      BY JoinedFacts
    <3>4. \A i \in DOMAIN y : \E k \in DOMAIN Joined(x, y) : Joined(x, y)[k] = y[i]
      BY JoinedFacts
    <3>5. QED
      BY <3>1, <3>2, <3>3, <3>4
  <2>2. ASSUME NEW i \in DOMAIN Joined(x, y)
        PROVE  \/ \E k \in DOMAIN x : Joined(x, y)[i] = x[k]
               \/ \E k \in DOMAIN y : Joined(x, y)[i] = y[k]
    <3>1. CASE i <= Len(x)
      BY <2>1, <3>1
    <3>2. CASE ~(i <= Len(x))
      <4>1. i - Len(x) \in DOMAIN y
        BY <2>1, <3>2
      <4>2. QED
        BY <2>1, <3>2, <4>1
    <3>3. QED
      BY <3>1, <3>2
  <2>3. QED
    BY <2>1, <2>2
<1>2. /\ both \in Seq(T)
      /\ \A i \in DOMAIN both : \/ \E k \in DOMAIN s : both[i] = s[k]
                                \/ \E k \in DOMAIN t : both[i] = t[k]
      /\ \A i \in DOMAIN s : \E k \in DOMAIN both : both[k] = s[i]
      /\ \A i \in DOMAIN t : \E k \in DOMAIN both : both[k] = t[i]
  <2>1. CASE both = Joined(s, t)
    BY <1>1, <2>1
  <2>2. CASE both = Joined(t, s)
    BY <1>1, <2>2
  <2>3. QED
    BY <2>1, <2>2
<1>3. /\ d \in Seq(T)
      /\ \A i \in DOMAIN d : \E k \in DOMAIN both : d[i] = both[k]
      /\ \A i \in DOMAIN both : \E k \in DOMAIN d : Signature(d[k]) = Signature(both[i])
      /\ \A i, k \in DOMAIN d : i # k => Signature(d[i]) # Signature(d[k])
  BY <1>2, DedupedFacts
<1> HIDE DEF d
<1>4. ASSUME NEW i \in DOMAIN d
      PROVE  (\E k \in DOMAIN s : d[i] = s[k]) \/ (\E k \in DOMAIN t : d[i] = t[k])
  <2>1. PICK k \in DOMAIN both : d[i] = both[k]
    BY <1>3
  <2>2. QED
    BY <1>2, <2>1
<1>5. ASSUME NEW k \in DOMAIN s
      PROVE  \E i \in DOMAIN d : Signature(d[i]) = Signature(s[k])
  <2>1. PICK z \in DOMAIN both : both[z] = s[k]
    BY <1>2
  <2>2. QED
    BY <1>3, <2>1
<1>6. ASSUME NEW k \in DOMAIN t
      PROVE  \E i \in DOMAIN d : Signature(d[i]) = Signature(t[k])
  <2>1. PICK z \in DOMAIN both : both[z] = t[k]
    BY <1>2
  <2>2. QED
    BY <1>3, <2>1
<1>7. QED
  BY <1>3, <1>4, <1>5, <1>6 DEF d, OfBoth

\* An import leaves one row of each target of a shape that only one job is about.
LEMMA ImportedOneEach ==
  ASSUME NEW T, NEW old \in Seq(T), NEW file \in Seq(T), OneEach(old), FileAgrees(file, old),
         NEW both \in {Joined(file, old), Joined(old, file)}
  PROVE  OneEach(Deduped(both)) /\ FileAgrees(file, Deduped(both))
<1> DEFINE d == Deduped(both)
<1>1. /\ \A i \in DOMAIN d : \/ \E k \in DOMAIN file : d[i] = file[k]
                             \/ \E k \in DOMAIN old : d[i] = old[k]
      /\ \A k \in DOMAIN file : \E i \in DOMAIN d : Signature(d[i]) = Signature(file[k])
      /\ \A i, k \in DOMAIN d : i # k => Signature(d[i]) # Signature(d[k])
  <2>1. OfBoth(d, file, old)
    BY ImportFacts
  <2>2. QED
    BY <2>1 DEF OfBoth
<1> HIDE DEF d
<1>2. ASSUME NEW i \in DOMAIN d, Sole(d[i].id[1])
      PROVE  \E k \in DOMAIN old : old[k].id = d[i].id /\ old[k].source = d[i].source
  <2>1. CASE \E k \in DOMAIN old : d[i] = old[k]
    BY <2>1
  <2>2. CASE \E k \in DOMAIN file : d[i] = file[k]
    BY <1>2, <2>2 DEF FileAgrees
  <2>3. QED
    BY <1>1, <2>1, <2>2
<1>3. ASSUME NEW i \in DOMAIN d, NEW k \in DOMAIN d, d[i].id = d[k].id, Sole(d[i].id[1])
      PROVE  i = k
  <2>1. PICK x \in DOMAIN old : old[x].id = d[i].id /\ old[x].source = d[i].source
    BY <1>2, <1>3
  <2>2. PICK y \in DOMAIN old : old[y].id = d[k].id /\ old[y].source = d[k].source
    BY <1>2, <1>3
  <2>3. x = y
    BY <1>3, <2>1, <2>2 DEF OneEach
  <2>4. QED
    BY <1>1, <1>3, <2>1, <2>2, <2>3 DEF Signature
<1>4. ASSUME NEW f \in DOMAIN file
      PROVE  \E k \in DOMAIN d : d[k].id = file[f].id
  BY <1>1 DEF Signature
<1>5. ASSUME NEW f \in DOMAIN file, NEW k \in DOMAIN d, file[f].id = d[k].id, Sole(d[k].id[1])
      PROVE  file[f].source = d[k].source
  <2>1. PICK x \in DOMAIN old : old[x].id = d[k].id /\ old[x].source = d[k].source
    BY <1>2, <1>5
  <2>2. QED
    BY <1>5, <2>1 DEF FileAgrees
<1>6. QED
  BY <1>3, <1>4, <1>5 DEF OneEach, FileAgrees, d

\* The rows of a state are of its jobs, which stay the same.
LEMMA SamplesSame ==
  ASSUME setup' = setup
  PROVE  /\ SetupOK => SetupOK'
         /\ \A s : Sole(s)' = Sole(s)
         /\ Samples(measures)' = Samples(measures')
         /\ \A j : Measurements(j, measures)' = Measurements(j, measures')
         /\ measured' = measured => Collected' = Collected
<1>1. SetupOK => SetupOK'
  BY DEF SetupOK
<1>2. \A s : Sole(s)' = Sole(s)
  BY DEF Sole, shapesOf
<1>3. Samples(measures)' = Samples(measures')
  BY DEF Samples, RowShapes, RowOK, Runs, runNameOf, shapesOf
<1>4. measured' = measured => Collected' = Collected
  BY DEF Collected, ToCollect, ComesBefore, ToRow, SourceOf, LayerOf, runNameOf
<1>5. \A j : Measurements(j, measures)' = Measurements(j, measures')
  BY DEF Measurements, shapesOf
<1>6. QED
  BY <1>1, <1>2, <1>3, <1>4, <1>5

LEMMA CollectStepInv == CollectInv /\ [CollectionNext]_cmpvars => CollectInv'
<1> SUFFICES ASSUME CollectInv, [CollectionNext]_cmpvars
             PROVE  CollectInv'
  OBVIOUS
<1> USE DEF CollectInv
<1>a. SetupOK /\ MeasuredOK /\ RowsOK /\ SettledOK /\ CountsOK
  OBVIOUS
<1>b. setup' = setup
  BY DEF CollectionNext, JobMeasured, JobGone, CollectJobs, SaveRows, Import, cmpvars
<1>c. /\ SetupOK' /\ Samples(measures)' = Samples(measures') /\ \A s : Sole(s)' = Sole(s)
      /\ \A j : Measurements(j, measures)' = Measurements(j, measures')
      /\ measured' = measured => Collected' = Collected
  BY <1>a, <1>b, SamplesSame
<1>d. /\ measures \in Nat /\ rows \in Seq(Samples(measures)) /\ saved \in Seq(Samples(measures))
      /\ OneEach(rows) /\ FileAgrees(saved, rows)
  BY <1>a DEF RowsOK, MeasuredOK
<1>e. ASSUME OneEach(rows'), FileAgrees(saved', rows'),
             rows' \in Seq(Samples(measures')), saved' \in Seq(Samples(measures'))
      PROVE  RowsOK'
  <2>1. OneEach(rows)'
    BY <1>c, <1>e DEF OneEach
  <2>2. FileAgrees(saved, rows)'
    BY <1>c, <1>e DEF FileAgrees
  <2>3. QED
    BY <1>c, <1>e, <2>1, <2>2 DEF RowsOK
<1>f. ASSUME measured' = measured, measures' = measures
      PROVE  MeasuredOK'
  BY <1>a, <1>c, <1>f DEF MeasuredOK
\* Steps that leave the rows alone ...
<1>1. ASSUME rows' = rows, saved' \in {saved, rows}, measured' = measured, measures' = measures,
             settled' \in {settled, FALSE}, files' = files
      PROVE  CollectInv'
  <2>1. FileAgrees(rows, rows)
    BY <1>d DEF FileAgrees, OneEach
  <2>2. RowsOK'
    BY <1>1, <1>d, <1>e, <2>1
  <2>3. Collected' = Collected
    BY <1>1, <1>c
  <2>4. SettledOK'
    BY <1>1, <1>a, <2>3 DEF SettledOK
  <2>5. QED
    BY <1>1, <1>a, <1>c, <1>f, <2>2, <2>4 DEF CountsOK
\* ... and steps that change what is measured.
<1>2. ASSUME rows' = rows, saved' = saved, settled' = FALSE, files' = files, MeasuredOK',
             measures' \in 0..MaxMeasured, measures <= measures'
      PROVE  CollectInv'
  <2>1. measures' \in Nat
    BY <1>2
  <2>2. Samples(measures) \subseteq Samples(measures')
    BY <1>2, <1>d, <2>1, SamplesGrow
  <2>3. rows \in Seq(Samples(measures')) /\ saved \in Seq(Samples(measures'))
    BY <1>d, <2>2
  <2>4. RowsOK'
    BY <1>2, <1>d, <1>e, <2>3
  <2>5. QED
    BY <1>2, <1>a, <1>c, <2>4 DEF CountsOK, SettledOK
<1>3. ASSUME NEW j \in SampleJobIds, JobMeasured(j)
      PROVE  CollectInv'
  <2>1. /\ measures < MaxMeasured /\ measures' = measures + 1 /\ settled' = FALSE
        /\ rows' = rows /\ saved' = saved /\ files' = files
    BY <1>3 DEF JobMeasured
  <2>2. PICK targets \in SUBSET TargetScopes :
          \E layers \in [targets -> (SUBSET shapesOf(j)) \ {{}}] :
            measured' = [measured EXCEPT ![j] =
              {[scope |-> t, layers |-> layers[t], at |-> measures'] : t \in targets}]
    BY <1>3 DEF JobMeasured
  <2>3. PICK layers \in [targets -> (SUBSET shapesOf(j)) \ {{}}] :
          measured' = [measured EXCEPT ![j] =
            {[scope |-> t, layers |-> layers[t], at |-> measures'] : t \in targets}]
    BY <2>2
  <2>4. measures' \in Nat /\ measures' \in 0..MaxMeasured /\ measures <= measures'
    BY <1>a, <1>d, <2>1, SampleAssumption DEF CountsOK
  <2> DEFINE these == {[scope |-> t, layers |-> layers[t], at |-> measures'] : t \in targets}
  <2>5. /\ these \in SUBSET Measurements(j, measures')
        /\ \A x, y \in these : x.scope = y.scope => x = y
    <3>1. measures' \in 1..measures'
      BY <1>d, <2>1
    <3>2. QED
      BY <3>1 DEF Measurements
  <2>6. /\ measured = [i \in SampleJobIds |-> measured[i]] /\ DOMAIN measured = SampleJobIds
        /\ \A i \in SampleJobIds : measured[i] \in SUBSET Measurements(i, measures)
        /\ \A i \in SampleJobIds : \A x, y \in measured[i] : x.scope = y.scope => x = y
    BY <1>a DEF MeasuredOK
  <2>7. \A i : Measurements(i, measures) \subseteq Measurements(i, measures')
    <3>1. 1..measures \subseteq 1..measures'
      BY <1>d, <2>1
    <3>2. QED
      BY <3>1 DEF Measurements
  <2> HIDE DEF these
  <2>8. /\ measured' = [measured EXCEPT ![j] = these]
        /\ DOMAIN measured' = SampleJobIds /\ measured' = [i \in SampleJobIds |-> measured'[i]]
        /\ measured'[j] = these
        /\ \A i \in SampleJobIds \ {j} : measured'[i] = measured[i]
    BY <2>3, <2>6 DEF these
  <2>9. \A i \in SampleJobIds : /\ measured'[i] \in SUBSET Measurements(i, measures')
                                /\ \A x, y \in measured'[i] : x.scope = y.scope => x = y
    BY <2>5, <2>6, <2>7, <2>8
  <2>10. MeasuredOK'
    BY <1>c, <2>4, <2>8, <2>9 DEF MeasuredOK
  <2>11. QED
    BY <1>2, <2>1, <2>4, <2>10
<1>4. ASSUME NEW j \in SampleJobIds, JobGone(j)
      PROVE  CollectInv'
  <2>1. /\ measures' = measures /\ settled' = FALSE
        /\ rows' = rows /\ saved' = saved /\ files' = files
        /\ measured' = [measured EXCEPT ![j] = {}]
    BY <1>4 DEF JobGone
  <2>2. MeasuredOK'
    BY <1>a, <1>c, <2>1 DEF MeasuredOK
  <2>3. measures' \in 0..MaxMeasured /\ measures <= measures'
    BY <1>a, <1>d, <2>1 DEF CountsOK
  <2>4. QED
    BY <1>2, <2>1, <2>2, <2>3
<1>5. CASE CollectJobs
  <2>1. /\ rows' = Merge(rows, Collected) /\ files' \in 0..MaxFiles /\ settled' = TRUE
        /\ measured' = measured /\ saved' = saved /\ measures' = measures
    BY <1>5, <1>a, SampleAssumption DEF CollectJobs, CountsOK
  <2>2. Collection(Collected, measures)
    BY <1>a, CollectedFacts
  <2>3. /\ rows' \in Seq(Samples(measures)) /\ SettledWith(rows', Collected)
        /\ OneEach(rows') /\ FileAgrees(saved, rows')
    BY <1>d, <2>1, <2>2, MergedIsSettled, MergedOneEach, MergedFileAgrees
  <2>4. Collected' = Collected
    BY <1>c, <2>1
  <2>5. RowsOK'
    BY <1>d, <1>e, <2>1, <2>3
  <2>6. SettledOK'
    BY <2>3, <2>4 DEF SettledOK
  <2>7. QED
    BY <1>a, <1>c, <1>f, <2>1, <2>5, <2>6 DEF CountsOK
<1>6. CASE SaveRows
  BY <1>1, <1>6 DEF SaveRows
<1>7. CASE Import
  <2>1. /\ files' \in 0..MaxFiles /\ settled' = FALSE
        /\ measured' = measured /\ saved' = saved /\ measures' = measures
    BY <1>7, <1>a, SampleAssumption DEF Import, CountsOK
  <2>2. PICK both \in {Joined(saved, rows), Joined(rows, saved)} : rows' = Deduped(both)
    BY <1>7 DEF Import, Joined
  <2>3. rows' \in Seq(Samples(measures))
    BY <1>d, <2>2, ImportFacts
  <2>4. OneEach(rows') /\ FileAgrees(saved, rows')
    BY <1>d, <2>2, ImportedOneEach
  <2>5. RowsOK'
    BY <1>d, <1>e, <2>1, <2>3, <2>4
  <2>6. QED
    BY <1>a, <1>c, <1>f, <2>1, <2>5 DEF CountsOK, SettledOK
<1>8. CASE UNCHANGED cmpvars
  BY <1>1, <1>8 DEF cmpvars
<1>9. QED
  BY <1>3, <1>4, <1>5, <1>6, <1>7, <1>8 DEF CollectionNext

LEMMA SamplesInvSays ==
  ASSUME CollectInv
  PROVE  CollectionTypeOK /\ OwnMeasurement /\ CollectedOnce
<1>1. \A r \in Samples(measures) :
        /\ r.id \in ShapeNames \X TargetScopes /\ r.array \in 1..2
        /\ r.of.at \in 1..measures /\ r.of.job \in SampleJobIds /\ RowOK(r)
  BY RowFacts
<1>2. /\ rows \in Seq(Samples(measures)) /\ saved \in Seq(Samples(measures)) /\ OneEach(rows)
      /\ \A i \in DOMAIN rows : rows[i] \in Samples(measures)
      /\ \A i \in DOMAIN saved : saved[i] \in Samples(measures)
  BY DEF CollectInv, RowsOK
<1>3. CollectionTypeOK
  BY <1>1, <1>2 DEF CollectInv, CountsOK, CollectionTypeOK
<1>4. OwnMeasurement
  <2> SUFFICES ASSUME NEW i \in DOMAIN rows
               PROVE  LET r == rows[i]  k == r.of.job IN
                      /\ r.of.scope = r.id[2]
                      /\ \/ r.of.shape = r.id[1]
                         \/ r.run = <<runNameOf(k), r.id[2]>> /\ r.id[1] \notin shapesOf(k)
                      /\ Unmistakable(r) =>
                           /\ r.of.shape = r.id[1] /\ setup[k].array = r.array
                           /\ shapesOf(k) = {r.id[1]} => r.of.layer = r.id[1]
    BY DEF OwnMeasurement
  <2> DEFINE r == rows[i]
  <2>1. r.of.job \in SampleJobIds /\ RowOK(r)
    BY <1>1, <1>2
  <2> HIDE DEF r
  <2>2. /\ r.of.scope = r.id[2]
        /\ r.of.shape \in shapesOf(r.of.job) /\ r.of.layer \in shapesOf(r.of.job)
        /\ \/ r.of.shape = r.id[1]
           \/ r.run = <<runNameOf(r.of.job), r.id[2]>> /\ r.id[1] \notin shapesOf(r.of.job)
    BY <2>1 DEF RowOK
  <2>3. ASSUME Unmistakable(r)
        PROVE  /\ r.of.shape = r.id[1] /\ setup[r.of.job].array = r.array
               /\ shapesOf(r.of.job) = {r.id[1]} => r.of.layer = r.id[1]
    <3>1. /\ r.id[1] \in shapesOf(r.of.job) => setup[r.of.job].array = r.array
          /\ r.run = <<runNameOf(r.of.job), r.id[2]>> => r.id[1] \in shapesOf(r.of.job)
      BY <2>1, <2>3 DEF Unmistakable
    <3>2. QED
      BY <2>2, <3>1
  <2>4. QED
    BY <2>2, <2>3 DEF r
<1>5. CollectedOnce
  <2> DEFINE new == Collected
  <2>1. ASSUME settled
        PROVE  SettledWith(rows, new)
    BY <2>1 DEF CollectInv, SettledOK
  <2>2. ASSUME settled, NEW p \in DOMAIN new
        PROVE  LET same == {i \in DOMAIN rows : rows[i].id = new[p].id} IN
               /\ \E i \in DOMAIN rows, q \in DOMAIN new :
                    KeyOf(new[q]) = KeyOf(new[p]) /\ rows[i].of = new[q].of
               /\ \A i \in same :
                    \E q \in DOMAIN new : new[q].id = new[p].id /\ rows[i].of = new[q].of
               /\ Sole(new[p].id[1]) => \A i, k \in same : i = k
    <3> HIDE DEF new
    <3>1. \A i \in DOMAIN rows : rows[i].id = new[p].id =>
            \E q \in DOMAIN new : new[q].id = new[p].id /\ rows[i].of = new[q].of
      BY <2>1, <2>2 DEF SettledWith
    <3>2. \E i \in DOMAIN rows, q \in DOMAIN new :
            KeyOf(new[q]) = KeyOf(new[p]) /\ rows[i].of = new[q].of
      BY <2>1, <2>2 DEF SettledWith
    <3>3. ASSUME NEW i \in DOMAIN rows, NEW k \in DOMAIN rows,
                 rows[i].id = new[p].id, rows[k].id = new[p].id, Sole(new[p].id[1])
          PROVE  i = k
      BY <1>2, <3>3 DEF OneEach
    <3>4. QED
      BY <3>1, <3>2, <3>3
  <2>3. QED
    BY <2>2 DEF CollectedOnce
<1>6. QED
  BY <1>3, <1>4, <1>5

\* An import keeps a row of each id and source of both files.
LEMMA ImportKeepsAll ==
  ASSUME CollectInv, Import
  PROVE  LET both == {rows[i] : i \in DOMAIN rows} \cup {saved[i] : i \in DOMAIN saved}
         IN /\ \A i \in DOMAIN rows' : rows'[i] \in both
            /\ \A r \in both : \E i \in DOMAIN rows' :
                 rows'[i].id = r.id /\ rows'[i].source = r.source
            /\ \A i, k \in DOMAIN rows' :
                 rows'[i].id = rows'[k].id /\ rows'[i].source = rows'[k].source => i = k
<1>1. rows \in Seq(Samples(measures)) /\ saved \in Seq(Samples(measures))
  BY DEF CollectInv, RowsOK
<1>2. PICK both \in {Joined(saved, rows), Joined(rows, saved)} : rows' = Deduped(both)
  BY DEF Import, Joined
<1>3. OfBoth(rows', saved, rows)
  BY <1>1, <1>2, ImportFacts
<1>4. /\ \A i \in DOMAIN rows' : \/ \E k \in DOMAIN saved : rows'[i] = saved[k]
                                 \/ \E k \in DOMAIN rows : rows'[i] = rows[k]
      /\ \A k \in DOMAIN saved : \E i \in DOMAIN rows' : Signature(rows'[i]) = Signature(saved[k])
      /\ \A k \in DOMAIN rows : \E i \in DOMAIN rows' : Signature(rows'[i]) = Signature(rows[k])
      /\ \A i, k \in DOMAIN rows' : i # k => Signature(rows'[i]) # Signature(rows'[k])
  BY <1>3 DEF OfBoth
<1>5. QED
  BY <1>4 DEF Signature

\* What has been collected is collected again without a change, but for what is
\* collected more than once.
LEMMA CollectedAgain ==
  ASSUME CollectInv, CollectJobs, settled, NEW i \in DOMAIN rows',
         i \in DOMAIN rows => rows'[i] # rows[i]
  PROVE  Repeated(rows'[i].id)
<1> DEFINE new == Collected
<1>1. rows' = Merge(rows, new)
  BY DEF CollectJobs
<1>2. /\ rows \in Seq(Samples(measures)) /\ Collection(new, measures) /\ SettledWith(rows, new)
  BY CollectedFacts DEF CollectInv, RowsOK, SettledOK
<1>3. \A id : Repeated(id) <=> Twice(new, id)
  BY DEF Repeated, Twice
<1> HIDE DEF new
<1>4. CASE rows = <<>>
  <2>1. DOMAIN rows = {} /\ rows' = new
    BY <1>1, <1>4 DEF Merge
  <2>2. DOMAIN new = {}
    BY <1>2, <2>1 DEF SettledWith
  <2>3. QED
    BY <2>1, <2>2
<1>5. CASE rows # <<>>
  <2>1. /\ \A k \in DOMAIN rows : rows'[k] = Update(rows[k], new)
        /\ \A k \in DOMAIN rows' : k \notin DOMAIN rows =>
             \E p \in DOMAIN new : rows'[k] = new[p] /\ ~Used(p, rows, new)
    BY <1>1, <1>2, <1>5, MergeFacts
  <2>2. CASE i \in DOMAIN rows
    <3>1. rows[i] \in Samples(measures) /\ rows'[i] = Update(rows[i], new)
      BY <1>2, <2>1, <2>2
    <3>2. rows'[i].id = rows[i].id
      BY <1>2, <3>1, UpdateFacts
    <3>3. Twice(new, rows[i].id)
      BY <1>2, <2>2, <3>1 DEF SettledWith
    <3>4. QED
      BY <1>3, <3>2, <3>3
  <2>3. CASE i \notin DOMAIN rows
    <3>1. PICK p \in DOMAIN new : rows'[i] = new[p] /\ ~Used(p, rows, new)
      BY <2>1, <2>3
    <3>2. Twice(new, new[p].id)
      BY <1>2, <3>1 DEF SettledWith
    <3>3. QED
      BY <1>3, <3>1, <3>2
  <2>4. QED
    BY <2>2, <2>3
<1>6. QED
  BY <1>4, <1>5

-----------------------------------------------------------------------------
(* What a trained suite has seen *)

HeldOut(f) ==
  /\ f = [kind |-> f.kind, train |-> f.train, test |-> f.test]
  /\ f.kind \in Kinds /\ f.train \subseteq clean /\ f.test \subseteq clean /\ f.test # {}
  /\ f.train \cap f.test = {}
  /\ f.kind \in {"workload", "array", "dataflow"} =>
       KeysOf(f.kind, f.train) \cap KeysOf(f.kind, f.test) = {}
  /\ f.kind = "large-shape" =>
       \A r \in f.train, s \in f.test : sampleSize[r] <= sampleSize[s]

\* A split divides the rows, and holds out what its kind says.
LEMMA SplitFacts ==
  ASSUME NEW kind \in Kinds, NEW split \in Splits(kind, clean), Usable(split),
         NEW t \in Downsampled(split.train, maxSplitTrain)
  PROVE  HeldOut([split EXCEPT !.train = t])
<1> DEFINE outs ==
      CASE Cardinality(clean) < MinClean -> {}
        [] kind = "random" ->
             {x \in SUBSET clean : Cardinality(x) = More(TestRows, Cardinality(clean) \div 5)}
        [] kind = "large-shape" ->
             {x \in SUBSET clean :
                /\ Cardinality(x) = Cardinality(clean) - (Cardinality(clean) * 4) \div 5
                /\ \A s \in x, r \in clean \ x : sampleSize[r] <= sampleSize[s]}
        [] OTHER -> IF Cardinality(KeysOf(kind, clean)) < FewestKeys(kind) THEN {}
                    ELSE TestSets(kind, clean)
<1>1. PICK out \in outs : split = [kind |-> kind, train |-> clean \ out, test |-> out]
  BY DEF Splits
<1>2. /\ kind = "large-shape" =>
           out \subseteq clean /\ \A s \in out, r \in clean \ out : sampleSize[r] <= sampleSize[s]
      /\ kind \in {"workload", "array", "dataflow"} => out \in TestSets(kind, clean)
      /\ kind = "random" => out \subseteq clean
  BY DEF outs
<1> HIDE DEF outs
<1>3. kind \in {"workload", "array", "dataflow"} =>
        /\ out \subseteq clean
        /\ KeysOf(kind, clean \ out) \cap KeysOf(kind, out) = {}
  <2> SUFFICES ASSUME kind \in {"workload", "array", "dataflow"}
               PROVE  /\ out \subseteq clean
                      /\ KeysOf(kind, clean \ out) \cap KeysOf(kind, out) = {}
    OBVIOUS
  <2>1. PICK keys : out = {s \in clean : SplitKey(kind, s) \in keys}
    BY <1>2 DEF TestSets
  <2>2. QED
    BY <2>1 DEF KeysOf
<1>4. out \subseteq clean
  BY <1>2, <1>3 DEF Kinds
<1>5. t \subseteq clean \ out
  BY <1>1 DEF Downsampled
<1>6. out # {}
  <2>1. Cardinality(out) >= TestRows
    BY <1>1 DEF Usable
  <2>2. QED
    BY <2>1, SuiteAssumption, FS_EmptySet
<1>7. [split EXCEPT !.train = t] = [kind |-> kind, train |-> t, test |-> out]
  BY <1>1
<1>8. kind \in {"workload", "array", "dataflow"} => KeysOf(kind, t) \cap KeysOf(kind, out) = {}
  BY <1>3, <1>5 DEF KeysOf
<1>9. kind = "large-shape" => \A r \in t, s \in out : sampleSize[r] <= sampleSize[s]
  BY <1>2, <1>5
<1>10. QED
  BY <1>4, <1>5, <1>6, <1>7, <1>8, <1>9 DEF HeldOut

\* The buckets of some rows are of what those rows are of.
BucketsOf(rs, bs) ==
  \A b \in bs : \E r \in rs : b.kind \in BucketKinds /\ b.key = SplitKey(b.kind, r.of)

LEMMA BucketFacts ==
  ASSUME NEW rs, NEW few
  PROVE  BucketsOf(rs, Buckets(rs, few))
BY DEF BucketsOf, Buckets

FoldsOK ==
  /\ asked \subseteq Kinds /\ clean \subseteq SuiteSamples /\ finalTrain \subseteq clean
  /\ \A f \in folds : HeldOut(f)
SuiteOK ==
  /\ suite.state \in {"none", "refused", "trained"}
  /\ suite.state = "trained" =>
       /\ suite.rows = FittedTo(folds)
       /\ BucketsOf(suite.rows, suite.adaptive) /\ BucketsOf(suite.rows, suite.calibration)
       /\ suite.judged = JudgedBy(folds) /\ suite.weighed = WeighedBy(folds)
       /\ suite.arrays = KeysOf("array", clean) /\ suite.flows = KeysOf("dataflow", clean)
SuiteInv == FoldsOK /\ SuiteOK

\* Without new folds and kept models the rows stay as they are.
LEMMA RowsStay ==
  ASSUME clean' = clean, folds' = folds, finalTrain' = finalTrain
  PROVE  /\ FittedTo(folds)' = FittedTo(folds)
         /\ JudgedBy(folds)' = JudgedBy(folds) /\ WeighedBy(folds)' = WeighedBy(folds)
<1>1. OutOfFold(folds)' = OutOfFold(folds)
  BY DEF OutOfFold, FoldRows, Row
<1>2. FinalRows' = FinalRows /\ KeptRows' = KeptRows
  BY DEF FinalRows, KeptRows, Row
<1>3. FittedTo(folds)' = FittedTo(folds)
  BY <1>1, <1>2 DEF FittedTo
<1>4. JudgedBy(folds)' = JudgedBy(folds)
  BY <1>1, <1>2, <1>3 DEF JudgedBy
<1>5. WeighedBy(folds)' = WeighedBy(folds)
  BY <1>1, <1>2, <1>4 DEF WeighedBy
<1>6. QED
  BY <1>3, <1>4, <1>5

LEMMA SuiteInitInv == SuiteInit => SuiteInv
BY DEF SuiteInit, SuiteInv, FoldsOK, SuiteOK, Cleaned

LEMMA SuiteStepInv == SuiteInv /\ [SuiteNext]_suvars => SuiteInv'
<1> SUFFICES ASSUME SuiteInv, [SuiteNext]_suvars
             PROVE  SuiteInv'
  OBVIOUS
<1>a. FoldsOK /\ SuiteOK
  BY DEF SuiteInv
<1>b. ASSUME clean' = clean, NEW f
      PROVE  HeldOut(f)' <=> HeldOut(f)
  BY <1>b DEF HeldOut
<1>1. CASE Refuse
  <2>1. FoldsOK'
    BY <1>1, <1>a, <1>b DEF Refuse, FoldsOK
  <2>2. SuiteOK'
    BY <1>1 DEF Refuse, SuiteOK
  <2>3. QED
    BY <2>1, <2>2 DEF SuiteInv
<1>2. ASSUME NEW kind \in Kinds, Validate(kind)
      PROVE  SuiteInv'
  <2>1. /\ asked' \subseteq asked /\ clean' = clean /\ finalTrain' = finalTrain /\ suite' = suite
        /\ suite.state = "none"
    BY <1>2 DEF Validate
  <2>2. \A f \in folds' : HeldOut(f)
    <3>1. CASE folds' = folds
      BY <1>a, <3>1 DEF FoldsOK
    <3>2. CASE folds' # folds
      <4>1. PICK split \in Splits(kind, clean) :
              /\ Usable(split)
              /\ \E t \in Downsampled(split.train, maxSplitTrain) :
                   folds' = folds \cup {[split EXCEPT !.train = t]}
        BY <1>2, <3>2 DEF Validate
      <4>2. PICK t \in Downsampled(split.train, maxSplitTrain) :
              folds' = folds \cup {[split EXCEPT !.train = t]}
        BY <4>1
      <4>3. HeldOut([split EXCEPT !.train = t])
        BY <4>1, <4>2, SplitFacts
      <4>4. QED
        BY <1>a, <4>2, <4>3 DEF FoldsOK
    <3>3. QED
      BY <3>1, <3>2
  <2>3. FoldsOK'
    BY <1>a, <1>b, <2>1, <2>2 DEF FoldsOK
  <2>4. SuiteOK'
    BY <2>1 DEF SuiteOK
  <2>5. QED
    BY <2>3, <2>4 DEF SuiteInv
<1>3. CASE TrainFinal
  <2>1. /\ finalTrain' \subseteq clean /\ asked' = asked /\ clean' = clean /\ folds' = folds
        /\ suite' = suite /\ suite.state = "none"
    BY <1>3 DEF TrainFinal, Downsampled
  <2>2. FoldsOK'
    BY <1>a, <1>b, <2>1 DEF FoldsOK
  <2>3. SuiteOK'
    BY <2>1 DEF SuiteOK
  <2>4. QED
    BY <2>2, <2>3 DEF SuiteInv
<1>4. CASE Combine
  <2>1. asked' = asked /\ clean' = clean /\ folds' = folds /\ finalTrain' = finalTrain
    BY <1>4 DEF Combine
  <2>2. PICK adaptive \in AdaptiveChoices(FittedTo(folds)) :
          suite' = [state |-> "trained", rows |-> FittedTo(folds),
                    adaptive |-> adaptive, calibration |-> Calibration(FittedTo(folds)),
                    judged |-> JudgedBy(folds), weighed |-> WeighedBy(folds),
                    arrays |-> KeysOf("array", clean), flows |-> KeysOf("dataflow", clean)]
    BY <1>4 DEF Combine
  <2>3. FittedTo(folds)' = FittedTo(folds)
    BY <2>1, RowsStay
  <2>4. BucketsOf(FittedTo(folds), adaptive)
    <3>1. adaptive \subseteq Buckets(FittedTo(folds), AdaptiveBucket)
      BY DEF AdaptiveChoices, kSubset
    <3>2. QED
      BY <3>1, BucketFacts DEF BucketsOf
  <2>5. BucketsOf(FittedTo(folds), Calibration(FittedTo(folds)))
    <3>1. Calibration(FittedTo(folds)) \subseteq Buckets(FittedTo(folds), CalibrationBucket)
      BY DEF Calibration
    <3>2. QED
      BY <3>1, BucketFacts DEF BucketsOf
  <2>6. SuiteOK'
    <3>1. KeysOf("array", clean)' = KeysOf("array", clean) /\ KeysOf("dataflow", clean)' = KeysOf("dataflow", clean)
      BY <2>1 DEF KeysOf
    <3>0. JudgedBy(folds)' = JudgedBy(folds) /\ WeighedBy(folds)' = WeighedBy(folds)
      BY <2>1, RowsStay
    <3>2. /\ suite'.state = "trained" /\ suite'.rows = FittedTo(folds)' /\ suite'.adaptive = adaptive
          /\ suite'.calibration = Calibration(FittedTo(folds))
          /\ suite'.judged = JudgedBy(folds)' /\ suite'.weighed = WeighedBy(folds)'
          /\ suite'.arrays = KeysOf("array", clean)' /\ suite'.flows = KeysOf("dataflow", clean)'
      BY <2>2, <2>3, <3>0, <3>1
    <3>3. QED
      BY <2>3, <2>4, <2>5, <3>2 DEF SuiteOK, BucketsOf
  <2>7. FoldsOK'
    BY <1>a, <1>b, <2>1 DEF FoldsOK
  <2>8. QED
    BY <2>6, <2>7 DEF SuiteInv
<1>5. CASE UNCHANGED suvars
  <2>1. /\ asked' = asked /\ clean' = clean /\ folds' = folds /\ finalTrain' = finalTrain
        /\ suite' = suite
    BY <1>5 DEF suvars
  <2>2. FoldsOK'
    BY <1>a, <1>b, <2>1 DEF FoldsOK
  <2>3. SuiteOK'
    <3>1. FittedTo(folds)' = FittedTo(folds)
      BY <2>1, RowsStay
    <3>2. KeysOf("array", clean)' = KeysOf("array", clean) /\ KeysOf("dataflow", clean)' = KeysOf("dataflow", clean)
      BY <2>1 DEF KeysOf
    <3>3. JudgedBy(folds)' = JudgedBy(folds) /\ WeighedBy(folds)' = WeighedBy(folds)
      BY <2>1, RowsStay
    <3>4. QED
      BY <1>a, <2>1, <3>1, <3>2, <3>3 DEF SuiteOK, BucketsOf
  <2>4. QED
    BY <2>2, <2>3 DEF SuiteInv
<1>6. QED
  BY <1>1, <1>2, <1>3, <1>4, <1>5 DEF SuiteNext

\* The rows a trained suite was fitted to are of clean samples, and the models of a fold
\* had not seen theirs.
LEMMA FittedFacts ==
  ASSUME FoldsOK
  PROVE  /\ \A r \in FittedTo(folds) : r.of \in clean
         /\ \A r \in OutOfFold(folds) : r.of \notin r.seen
         /\ \A r \in KeptRows \cup FinalRows : r.by = "final" /\ r.seen = finalTrain
         /\ folds # {} => FittedTo(folds) = OutOfFold(folds)
         /\ folds = {} => FittedTo(folds) = FinalRows /\ OutOfFold(folds) = {}
<1>1. \A r \in OutOfFold(folds) : r.of \in clean /\ r.of \notin r.seen
  BY DEF FoldsOK, HeldOut, OutOfFold, FoldRows, Row
<1>2. folds # {} => OutOfFold(folds) # {}
  <2> SUFFICES ASSUME NEW f \in folds
               PROVE  OutOfFold(folds) # {}
    OBVIOUS
  <2>1. PICK s : s \in f.test
    BY DEF FoldsOK, HeldOut
  <2>2. Row(s, f.kind, f.train) \in FoldRows(f)
    BY <2>1 DEF FoldRows
  <2>3. QED
    BY <2>2 DEF OutOfFold
<1>3. folds = {} => OutOfFold(folds) = {}
  BY DEF OutOfFold
<1>4. FittedTo(folds) = IF OutOfFold(folds) # {} THEN OutOfFold(folds) ELSE FinalRows
  BY DEF FittedTo
<1>5. \A r \in FinalRows : r.of \in clean
  BY DEF FinalRows, Row, FoldsOK
<1>6. \A r \in KeptRows \cup FinalRows : r.by = "final" /\ r.seen = finalTrain
  BY DEF KeptRows, FinalRows, Row
<1>7. QED
  BY <1>1, <1>2, <1>3, <1>4, <1>5, <1>6

\* What the numbers of a trained suite come from.
LEMMA TrainedIsFitted ==
  ASSUME FoldsOK, SuiteOK
  PROVE  FittedOutOfFold
<1> SUFFICES ASSUME suite.state = "trained"
             PROVE  FittedOutOfFold
  BY DEF FittedOutOfFold
<1> DEFINE out == OutOfFold(folds)
           judged == suite.judged
           weighed == suite.weighed
           told == suite.rows \cup judged.ensemble \cup judged.tree \cup judged.neural
<1>1. /\ suite.rows = FittedTo(folds) /\ judged.ensemble = FittedTo(folds)
      /\ judged.direct = KeptRows
      /\ judged.tree = (IF folds # {} THEN out ELSE KeptRows) /\ judged.neural = judged.tree
  BY DEF SuiteOK, JudgedBy
<1>2. /\ weighed.scored = judged.tree \cup judged.neural \cup judged.direct
      /\ weighed.averaged = out /\ weighed.optimized = FinalRows
  BY DEF SuiteOK, WeighedBy
<1>3. /\ \A r \in out : r.of \notin r.seen
      /\ \A r \in KeptRows \cup FinalRows : r.by = "final" /\ r.seen = finalTrain
      /\ folds # {} => FittedTo(folds) = out
      /\ folds = {} => FittedTo(folds) = FinalRows /\ out = {}
  BY FittedFacts
<1> HIDE DEF out, judged, weighed
<1>4. folds # {} => \A r \in told \cup weighed.averaged : r.of \notin r.seen
  BY <1>1, <1>2, <1>3
<1>5. folds = {} =>
        /\ weighed.averaged = {}
        /\ \A r \in told : r.by = "final" /\ r.seen = finalTrain
  BY <1>1, <1>2, <1>3
<1>6. ASSUME NEW r \in weighed.scored \cup weighed.averaged \cup weighed.optimized, r.of \in r.seen
      PROVE  r \in judged.direct \cup weighed.optimized /\ r.of \in finalTrain
  <2>1. r \notin out
    BY <1>3, <1>6
  <2>2. r \in KeptRows \cup FinalRows
    BY <1>1, <1>2, <1>6, <2>1
  <2>3. QED
    BY <1>1, <1>2, <1>3, <1>6, <2>2
<1>7. QED
  BY <1>4, <1>5, <1>6 DEF FittedOutOfFold, judged, weighed

LEMMA SuiteInvSays ==
  ASSUME SuiteInv
  PROVE  SuiteTypeOK /\ HoldoutIsUnseen /\ FittedOutOfFold /\ UnknownIsGuarded
<1>1. FoldsOK /\ SuiteOK
  BY DEF SuiteInv
<1>2. SuiteTypeOK
  <2>1. \A f \in folds : f \in [kind : Kinds, train : SUBSET clean, test : SUBSET clean]
    BY <1>1 DEF FoldsOK, HeldOut
  <2>2. QED
    BY <1>1, <2>1 DEF SuiteTypeOK, FoldsOK, SuiteOK
<1>3. HoldoutIsUnseen
  BY <1>1 DEF FoldsOK, HeldOut, HoldoutIsUnseen
<1>4. FittedOutOfFold
  BY <1>1, TrainedIsFitted
<1>5. UnknownIsGuarded
  <2> SUFFICES ASSUME suite.state = "trained", NEW s \in SuiteSamples
               PROVE  /\ arrayOf[s] \notin suite.arrays =>
                           Predicted(s).guarded
                             /\ \A b \in Predicted(s).with : b.kind \notin {"array", "dataflow-array"}
                      /\ flowOf[s] \notin suite.flows =>
                           Predicted(s).guarded
                             /\ \A b \in Predicted(s).with : b.kind \in {"array", "regime"}
    BY DEF UnknownIsGuarded
  <2>1. Predicted(s).guarded <=> arrayOf[s] \notin suite.arrays \/ flowOf[s] \notin suite.flows
    BY DEF Predicted
  <2>2. /\ suite.rows = FittedTo(folds)
        /\ BucketsOf(suite.rows, suite.adaptive) /\ BucketsOf(suite.rows, suite.calibration)
        /\ suite.arrays = KeysOf("array", clean) /\ suite.flows = KeysOf("dataflow", clean)
    BY <1>1 DEF SuiteOK
  <2>3. \A c \in clean : arrayOf[c] \in suite.arrays /\ flowOf[c] \in suite.flows
    BY <2>2 DEF KeysOf, SplitKey
  <2>4. ASSUME NEW b \in Predicted(s).with
        PROVE  /\ arrayOf[s] \notin suite.arrays => b.kind \notin {"array", "dataflow-array"}
               /\ flowOf[s] \notin suite.flows => b.kind \in {"array", "regime"}
    <3>1. b \in suite.adaptive \cup suite.calibration /\ b.key = SplitKey(b.kind, s)
      BY DEF Predicted, SelectsBucket
    <3>2. PICK r \in suite.rows : b.kind \in BucketKinds /\ b.key = SplitKey(b.kind, r.of)
      BY <2>2, <3>1 DEF BucketsOf
    <3>3. r.of \in clean
      BY <1>1, <2>2, FittedFacts
    <3>4. SplitKey(b.kind, s) = SplitKey(b.kind, r.of)
      BY <3>1, <3>2
    <3>5. b.kind = "array" => arrayOf[s] = arrayOf[r.of]
      BY <3>4 DEF SplitKey
    <3>6. b.kind = "dataflow" => flowOf[s] = flowOf[r.of]
      BY <3>4 DEF SplitKey
    <3>7. b.kind = "dataflow-array" => flowOf[s] = flowOf[r.of] /\ arrayOf[s] = arrayOf[r.of]
      BY <3>4 DEF SplitKey
    <3>8. b.kind = "dataflow-regime" => flowOf[s] = flowOf[r.of]
      BY <3>4 DEF SplitKey
    <3>9. QED
      BY <2>3, <3>2, <3>3, <3>5, <3>6, <3>7, <3>8 DEF BucketKinds
  <2>5. QED
    BY <2>1, <2>4
<1>6. QED
  BY <1>2, <1>3, <1>4, <1>5

-----------------------------------------------------------------------------
(* Division *)

LEMMA Product ==
  ASSUME NEW a \in Nat, NEW b \in Nat
  PROVE  a * b \in Nat /\ (a > 0 /\ b > 0 => a * b > 0 /\ a <= a * b /\ b <= a * b)
<1>1. a * b \in Nat
  OBVIOUS
<1>2. ASSUME a > 0, b > 0
      PROVE  a * b > 0 /\ a <= a * b /\ b <= a * b
  <2>1. a * b = a * (b - 1) + a /\ a * b = (a - 1) * b + b
    OBVIOUS
  <2>2. a * (b - 1) \in Nat /\ (a - 1) * b \in Nat
    BY <1>2
  <2>3. QED
    BY <1>2, <2>1, <2>2
<1>3. QED
  BY <1>1, <1>2

LEMMA Division ==
  ASSUME NEW c \in Nat, NEW m \in Nat, m > 0
  PROVE  /\ c \div m \in Nat /\ c % m \in 0..(m - 1)
         /\ c = m * (c \div m) + (c % m)
<1>1. c \div m \in Int /\ c % m \in 0..(m - 1)
  OBVIOUS
<1>2. c = m * (c \div m) + (c % m)
  BY SMTT(30)
<1>3. c \div m \in Nat
  BY SMTT(30)
<1>4. QED
  BY <1>1, <1>2, <1>3

\* A quotient and a rest are those of the division.
LEMMA QuotientIsOne ==
  ASSUME NEW c \in Nat, NEW m \in Nat, m > 0, NEW b \in Nat, NEW w \in 0..(m - 1),
         c = m * b + w
  PROVE  c \div m = b /\ c % m = w
<1> DEFINE e == c \div m
<1>1. e \in Nat /\ c % m \in 0..(m - 1) /\ c = m * e + (c % m)
  BY Division
<1> HIDE DEF e
<1>2. ASSUME NEW x \in Nat, NEW y \in Nat, x < y
      PROVE  m * x + m <= m * y
  <2>1. m * y = m * x + m * (y - x)
    OBVIOUS
  <2>2. y - x \in Nat /\ y - x > 0
    BY <1>2
  <2>3. m <= m * (y - x)
    BY <2>2, Product
  <2>4. m * x \in Nat /\ m * (y - x) \in Nat
    BY <2>2
  <2>5. QED
    BY <2>1, <2>3, <2>4
<1>3. m * e \in Nat /\ m * b \in Nat
  BY <1>1
<1>4. ~(e < b)
  <2> SUFFICES ASSUME e < b
               PROVE  FALSE
    OBVIOUS
  <2>1. m * e + m <= m * b
    BY <1>1, <1>2
  <2>2. QED
    BY <1>1, <1>3, <2>1
<1>5. ~(b < e)
  <2> SUFFICES ASSUME b < e
               PROVE  FALSE
    OBVIOUS
  <2>1. m * b + m <= m * e
    BY <1>1, <1>2
  <2>2. QED
    BY <1>1, <1>3, <2>1
<1>6. e = b
  BY <1>1, <1>4, <1>5
<1>7. QED
  BY <1>1, <1>3, <1>6 DEF e

\* To divide by a product is to divide twice.
LEMMA DividedTwice ==
  ASSUME NEW c \in Nat, NEW f \in Nat, f > 0, NEW s \in Nat, s > 0
  PROVE  c \div (f * s) = (c \div f) \div s
<1> DEFINE a == c \div f
           r == c % f
           b == a \div s
           t == a % s
<1>1. a \in Nat /\ r \in 0..(f - 1) /\ c = f * a + r
  BY Division
<1> HIDE DEF a, r
<1>2. b \in Nat /\ t \in 0..(s - 1) /\ a = s * b + t
  BY <1>1, Division
<1> HIDE DEF b, t
<1>3. c = (f * s) * b + (f * t + r)
  <2>1. f * (s * b + t) = (f * s) * b + f * t
    BY <1>2
  <2>2. QED
    BY <1>1, <1>2, <2>1
<1>4. f * t + r \in 0..(f * s - 1)
  <2>1. f * s = f * t + f * (s - t - 1) + f
    BY <1>2
  <2>2. f * t \in Nat /\ f * (s - t - 1) \in Nat
    BY <1>2
  <2>3. QED
    BY <1>1, <2>1, <2>2
<1>5. f * s \in Nat /\ f * s > 0
  BY Product
<1>6. c \div (f * s) = b
  BY <1>2, <1>3, <1>4, <1>5, QuotientIsOne
<1>7. QED
  BY <1>6 DEF b, a

\* Numbers below a product of four that agree in their four digits are equal.
LEMMA DigitsTell ==
  ASSUME NEW f \in Nat, f > 0, NEW s \in Nat, s > 0, NEW r \in Nat, r > 0, NEW a \in Nat, a > 0,
         NEW c \in Nat, NEW d \in Nat, c < a * r * s * f, d < a * r * s * f,
         c % f = d % f, (c \div f) % s = (d \div f) % s,
         (c \div (f * s)) % r = (d \div (f * s)) % r,
         (c \div (f * s * r)) % a = (d \div (f * s * r)) % a
  PROVE  c = d
<1> DEFINE c1 == c \div f
           c2 == c1 \div s
           c3 == c2 \div r
           d1 == d \div f
           d2 == d1 \div s
           d3 == d2 \div r
<1>1. /\ c1 \in Nat /\ c = f * c1 + (c % f) /\ d1 \in Nat /\ d = f * d1 + (d % f)
      /\ c % f \in Nat
  BY Division
<1>2. c1 \in Nat /\ d1 \in Nat
  BY <1>1
<1>3. c \div (f * s) = c2 /\ d \div (f * s) = d2
  BY DividedTwice, ZenonT(60)
<1>4. f * s \in Nat /\ f * s > 0
  BY Product
<1>5. c \div (f * s * r) = c3 /\ d \div (f * s * r) = d3
  BY <1>3, <1>4, DividedTwice
<1> HIDE DEF c1, d1
<1>6. c2 \in Nat /\ c1 = s * c2 + (c1 % s) /\ d2 \in Nat /\ d1 = s * d2 + (d1 % s)
  BY <1>2, Division
<1> HIDE DEF c2, d2
<1>7. c3 \in Nat /\ c2 = r * c3 + (c2 % r) /\ d3 \in Nat /\ d2 = r * d3 + (d2 % r)
  BY <1>6, Division
<1> HIDE DEF c3, d3
<1>8. ASSUME NEW x \in Nat, NEW z \in Nat, z < a * r * s * f, x = z \div (f * s * r)
      PROVE  x < a
  <2> DEFINE m == f * s * r
  <2>1. m \in Nat /\ m > 0
    BY <1>4, Product
  <2>2. a * r * s * f = m * a
    OBVIOUS
  <2> HIDE DEF m
  <2>3. z = m * x + (z % m) /\ z % m \in Nat
    BY <1>8, <2>1, Division DEF m
  <2>4. m * x < m * a
    BY <1>8, <2>1, <2>2, <2>3
  <2>5. CASE x >= a
    <3>1. m * x = m * a + m * (x - a)
      BY <2>1
    <3>2. m * (x - a) \in Nat
      BY <2>1, <2>5
    <3>3. m * a \in Nat
      BY <2>1
    <3>4. QED
      BY <2>4, <3>1, <3>2, <3>3
  <2>6. QED
    BY <2>5
<1>9. c3 < a /\ d3 < a
  BY <1>5, <1>7, <1>8
<1>10. c3 % a = c3 /\ d3 % a = d3
  BY <1>7, <1>9
<1>11. c3 = d3
  BY <1>5, <1>10
<1>12. c2 % r = d2 % r
  BY <1>3
<1>13. c2 = d2
  BY <1>7, <1>11, <1>12
<1>14. c1 % s = d1 % s
  BY DEF c1, d1
<1>15. c1 = d1
  BY <1>6, <1>13, <1>14
<1>16. QED
  BY <1>1, <1>15

LEMMA RestIsZero ==
  ASSUME NEW x \in Nat, NEW m \in Nat, m > 0
  PROVE  x % m = 0 <=> \E q \in Nat : x = m * q
<1>1. ASSUME x % m = 0
      PROVE  \E q \in Nat : x = m * q
  <2>1. x \div m \in Nat /\ x = m * (x \div m) + (x % m)
    BY Division
  <2>2. m * (x \div m) \in Nat
    BY <2>1
  <2>3. x = m * (x \div m)
    BY <1>1, <2>1, <2>2
  <2>4. QED
    BY <2>1, <2>3
<1>2. ASSUME NEW q \in Nat, x = m * q
      PROVE  x % m = 0
  <2>1. x = m * q + 0 /\ 0 \in 0..(m - 1)
    BY <1>2
  <2>2. QED
    BY <2>1, QuotientIsOne
<1>3. QED
  BY <1>1, <1>2

-----------------------------------------------------------------------------
(* The stride *)

LEMMA StrideFacts ==
  ASSUME NEW n \in Nat, n > 0
  PROVE  CoprimeStride(n) \in Nat \ {0} /\ ~CommonDivisor(CoprimeStride(n), n)
<1>1. CASE n <= 2
  BY <1>1 DEF CoprimeStride, CommonDivisor
<1>2. CASE n > 2
  <2> DEFINE golden == (n * 61803) \div 100000
             start == IF golden % 2 = 0 THEN golden + 1 ELSE golden
             odd == {s \in 1..Most2(1, start) : s % 2 = 1 /\ ~CommonDivisor(s, n)}
  <2>1. CoprimeStride(n) = CHOOSE s \in odd : \A t \in odd : t <= s
    BY <1>2 DEF CoprimeStride
  <2>2. n * 61803 \in Nat /\ 100000 \in Nat
    OBVIOUS
  <2>3. golden \in Nat
    BY <2>2, Division
  <2> HIDE DEF golden
  <2>4. start \in Nat
    BY <2>3
  <2> HIDE DEF start
  <2>5. Most2(1, start) \in Nat /\ 1 \in 1..Most2(1, start)
    BY <2>4 DEF Most2
  <2>6. 1 \in odd
    BY <2>5 DEF CommonDivisor
  <2>7. odd \subseteq 1..Most2(1, start)
    OBVIOUS
  <2>8. \E s \in odd : \A t \in odd : t <= s
    <3> HIDE DEF odd
    <3>1. odd \in SUBSET (0..Most2(1, start)) /\ odd # {}
      BY <2>5, <2>6, <2>7
    <3>2. QED
      BY <2>5, <3>1, GreatestNumber
  <2>9. CoprimeStride(n) \in odd
    BY <2>1, <2>8
  <2>10. QED
    BY <2>5, <2>9
<1>3. QED
  BY <1>1, <1>2

\* Numbers without a divisor in common: no fewer than n strides come back.
LEMMA StrideComesBack ==
  ASSUME NEW n \in Nat, n > 0, NEW s \in Nat, s > 0, ~CommonDivisor(s, n),
         NEW k \in 1..n, (k * s) % n = 0
  PROVE  k = n
<1> DEFINE back == {d \in 1..n : (d * s) % n = 0}
<1>1. back \subseteq Nat /\ k \in back
  OBVIOUS
<1>2. PICK d \in back : \A e \in back : d <= e
  <2> HIDE DEF back
  <2>1. QED
    BY <1>1, LeastNumber
<1>3. d \in Nat /\ d > 0 /\ d <= n /\ (d * s) % n = 0
  BY <1>2
<1>4. PICK h \in Nat : d * s = n * h
  <2>1. d * s \in Nat
    BY <1>3
  <2>2. QED
    BY <1>3, <2>1, RestIsZero
<1> DEFINE g == n \div d
           r == n % d
<1>5. g \in Nat /\ r \in 0..(d - 1) /\ n = d * g + r
  BY <1>3, Division
<1> HIDE DEF g, r
<1>6. r = 0
  <2> SUFFICES ASSUME r # 0
               PROVE  FALSE
    OBVIOUS
  <2>1. n * s = (d * s) * g + r * s
    BY <1>3, <1>5
  <2>2. (d * s) * g = n * (h * g)
    BY <1>3, <1>4, <1>5
  <2>3. r * s = n * (s - h * g)
    <3>1. n * (s - h * g) = n * s - n * (h * g)
      BY <1>4, <1>5
    <3>2. r * s \in Int /\ n * s \in Int /\ n * (h * g) \in Int
      BY <1>4, <1>5
    <3>3. QED
      BY <2>1, <2>2, <3>1, <3>2
  <2>4. r \in Nat /\ r * s \in Nat /\ r * s > 0
    BY <1>5, Product
  <2>5. s - h * g \in Nat
    <3> DEFINE w == s - h * g
    <3>1. w \in Int
      BY <1>4, <1>5
    <3>2. r * s = n * w
      BY <2>3
    <3> HIDE DEF w
    <3>3. ASSUME w < 0
          PROVE  FALSE
      <4>1. -w \in Nat /\ -w > 0
        BY <3>1, <3>3
      <4>2. n * (-w) > 0
        BY <4>1, Product
      <4>3. n * w = -(n * (-w)) /\ n * (-w) \in Int
        BY <3>1
      <4>4. QED
        BY <2>4, <3>2, <4>2, <4>3
    <3>4. w \in Nat
      BY <3>1, <3>3
    <3>5. QED
      BY <3>4 DEF w
  <2>6. (r * s) % n = 0
    BY <2>3, <2>4, <2>5, RestIsZero
  <2>7. r \in back
    BY <1>3, <1>5, <2>4, <2>6
  <2>8. QED
    BY <1>2, <1>3, <1>5, <2>7
<1>7. n = d * g
  <2>1. d * g \in Nat
    BY <1>3, <1>5
  <2>2. QED
    BY <1>5, <1>6, <2>1
<1>8. s = g * h
  <2>1. d * s = d * (g * h)
    <3>1. (d * g) * h = d * (g * h)
      BY <1>3, <1>4, <1>5
    <3>2. QED
      BY <1>4, <1>7, <3>1
  <2>2. g * h \in Nat
    BY <1>4, <1>5
  <2>3. d * s = d * s + 0 /\ d * s = d * (g * h) + 0 /\ 0 \in 0..(d - 1) /\ d * s \in Nat
    BY <1>3, <2>1
  <2>4. (d * s) \div d = s
    BY <1>3, <2>3, QuotientIsOne
  <2>5. (d * s) \div d = g * h
    BY <1>3, <2>2, <2>3, QuotientIsOne
  <2>6. QED
    BY <2>4, <2>5
<1>9. g > 0
  <2>1. g = 0 => d * g = 0
    BY <1>3
  <2>2. QED
    BY <1>5, <1>7, <2>1
<1>10. h > 0
  <2>1. h = 0 => g * h = 0
    BY <1>5
  <2>2. QED
    BY <1>4, <1>8, <2>1
<1>11. g <= s
  BY <1>4, <1>5, <1>8, <1>9, <1>10, Product
<1>12. ~(g > 1)
  <2> SUFFICES ASSUME g > 1
               PROVE  FALSE
    OBVIOUS
  <2>1. g \in 2..s
    BY <1>5, <1>11
  <2>2. s % g = 0
    BY <1>4, <1>5, <1>8, <1>9, RestIsZero
  <2>3. n = g * d
    BY <1>3, <1>5, <1>7
  <2>4. n % g = 0
    BY <1>3, <1>5, <1>9, <2>3, RestIsZero
  <2>5. QED
    BY <2>1, <2>2, <2>4 DEF CommonDivisor
<1>13. g = 1
  BY <1>5, <1>9, <1>12
<1>14. d = n
  BY <1>3, <1>7, <1>13
<1>15. QED
  BY <1>1, <1>2, <1>3, <1>14

-----------------------------------------------------------------------------
(* Combinations *)

\* Every axis has a value.
AxesOK == axis \in [Axes -> 0..MaxAxis] /\ totalCombos > 0

LEMMA FactorsArePositive ==
  ASSUME NEW a \in Nat, NEW b \in Nat, a * b > 0
  PROVE  a > 0 /\ b > 0
<1>1. a = 0 => a * b = 0
  OBVIOUS
<1>2. b = 0 => a * b = 0
  OBVIOUS
<1>3. QED
  BY <1>1, <1>2

LEMMA TotalFacts ==
  ASSUME AxesOK
  PROVE  /\ totalCombos \in Nat /\ totalCombos > 0
         /\ \A a \in Axes : axis[a] \in Nat /\ axis[a] > 0
<1>a. \A a \in Axes : axis[a] \in Nat
  BY PlanAssumption DEF AxesOK
<1>2. "array" \in Axes /\ "sram" \in Axes /\ "shape" \in Axes /\ "flow" \in Axes
  BY DEF Axes
<1>b. ASSUME NEW a \in Nat, NEW r \in Nat, NEW s \in Nat, NEW f \in Nat, a * r * s * f > 0
      PROVE  a > 0 /\ r > 0 /\ s > 0 /\ f > 0
  <2>1. a * r \in Nat /\ a * r * s \in Nat
    OBVIOUS
  <2>2. f > 0 /\ a * r * s > 0
    BY <1>b, <2>1, FactorsArePositive
  <2>3. s > 0 /\ a * r > 0
    BY <2>1, <2>2, FactorsArePositive
  <2>4. QED
    BY <2>2, <2>3, FactorsArePositive
<1>1. \A a \in Axes : axis[a] \in Nat /\ axis[a] > 0
  <2>1. axis["array"] * axis["sram"] * axis["shape"] * axis["flow"] > 0
    BY DEF AxesOK, totalCombos
  <2>2. axis["array"] > 0 /\ axis["sram"] > 0 /\ axis["shape"] > 0 /\ axis["flow"] > 0
    BY <1>a, <1>2, <1>b, <2>1
  <2>3. QED
    BY <1>a, <2>2 DEF Axes
<1>3. ASSUME NEW a \in Nat, a > 0, NEW r \in Nat, r > 0, NEW s \in Nat, s > 0, NEW f \in Nat, f > 0
      PROVE  a * r * s * f \in Nat /\ a * r * s * f > 0
  <2>1. a * r \in Nat /\ a * r > 0
    BY <1>3, Product
  <2>2. a * r * s \in Nat /\ a * r * s > 0
    BY <1>3, <2>1, Product
  <2>3. QED
    BY <1>3, <2>2, Product
<1>4. QED
  BY <1>1, <1>2, <1>3 DEF totalCombos

Stepped(p) == (p * CoprimeStride(totalCombos)) % totalCombos

LEMMA SteppedIsOne ==
  ASSUME AxesOK, NEW p \in Nat, NEW q \in Nat, p < q, q < totalCombos
  PROVE  Stepped(p) # Stepped(q)
<1> DEFINE n == totalCombos
           s == CoprimeStride(n)
           a == (p * s) \div n
           b == (q * s) \div n
           w == (p * s) % n
<1>1. n \in Nat /\ n > 0
  BY TotalFacts
<1>2. s \in Nat /\ s > 0 /\ ~CommonDivisor(s, n)
  BY <1>1, StrideFacts
<1>a. Stepped(p) = (p * s) % n /\ Stepped(q) = (q * s) % n
  BY DEF Stepped
<1> HIDE DEF n, s
<1> SUFFICES ASSUME Stepped(p) = Stepped(q)
             PROVE  FALSE
  OBVIOUS
<1>3. p * s \in Nat /\ q * s \in Nat
  BY <1>2
<1>4. a \in Nat /\ w \in 0..(n - 1) /\ p * s = n * a + w
  BY <1>1, <1>3, Division
<1>5. b \in Nat /\ q * s = n * b + ((q * s) % n)
  BY <1>1, <1>3, Division
<1>6. q * s = n * b + w
  BY <1>5, <1>a
<1> HIDE DEF a, b, w
<1>7. (q - p) * s = n * (b - a)
  <2>1. (q - p) * s = q * s - p * s
    BY <1>2
  <2>2. n * (b - a) = n * b - n * a
    BY <1>1, <1>4, <1>5
  <2>3. n * a \in Nat /\ n * b \in Nat
    BY <1>1, <1>4, <1>5
  <2>4. QED
    BY <1>4, <1>6, <2>1, <2>2, <2>3
<1>8. q - p \in Nat /\ q - p \in 1..n /\ q - p < n
  BY <1>1 DEF n
<1>9. (q - p) * s \in Nat /\ (q - p) * s > 0
  BY <1>2, <1>8, Product
<1>10. b - a \in Nat
  <2>1. CASE b < a
    <3>1. a - b \in Nat /\ a - b > 0
      BY <1>4, <1>5, <2>1
    <3>2. n * (a - b) > 0
      BY <1>1, <3>1, Product
    <3>3. n * (b - a) = -(n * (a - b)) /\ n * (a - b) \in Int
      BY <1>1, <1>4, <1>5
    <3>4. QED
      BY <1>7, <1>9, <3>2, <3>3
  <2>2. QED
    BY <1>4, <1>5, <2>1
<1>11. ((q - p) * s) % n = 0
  BY <1>1, <1>7, <1>9, <1>10, RestIsZero
<1>12. q - p = n
  BY <1>1, <1>2, <1>8, <1>11, StrideComesBack
<1>13. QED
  BY <1>8, <1>12

LEMMA SteppedIsBelow ==
  ASSUME AxesOK, NEW p \in Nat
  PROVE  Stepped(p) \in Nat /\ Stepped(p) < totalCombos
<1>1. totalCombos \in Nat /\ totalCombos > 0
  BY TotalFacts
<1>2. CoprimeStride(totalCombos) \in Nat
  BY <1>1, StrideFacts
<1>3. p * CoprimeStride(totalCombos) \in Nat
  BY <1>2
<1>4. Stepped(p) \in 0..(totalCombos - 1)
  BY <1>1, <1>3, Division DEF Stepped
<1>5. QED
  BY <1>1, <1>4

LEMMA DigitsAreNumbers ==
  ASSUME NEW f \in Nat, f > 0, NEW s \in Nat, s > 0, NEW r \in Nat, r > 0, NEW a \in Nat, a > 0,
         NEW z \in Nat
  PROVE  /\ z % f \in Int /\ (z \div f) % s \in Int
         /\ (z \div (f * s)) % r \in Int /\ (z \div (f * s * r)) % a \in Int
<1>1. f * s \in Nat /\ f * s > 0
  BY Product
<1>2. f * s * r \in Nat /\ f * s * r > 0
  BY <1>1, Product
<1>3. z \div f \in Nat /\ z \div (f * s) \in Nat /\ z \div (f * s * r) \in Nat
  BY <1>1, <1>2, Division
<1>4. QED
  BY <1>1, <1>2, <1>3, Division

\* Picks below the number of combinations are of different combinations.
LEMMA CombosDiffer ==
  ASSUME AxesOK, NEW p \in Nat, NEW q \in Nat, p < totalCombos, q < totalCombos,
         Combo(p) = Combo(q)
  PROVE  p = q
<1> DEFINE f == axis["flow"]
           s == axis["shape"]
           r == axis["sram"]
           a == axis["array"]
           c == Stepped(p)
           d == Stepped(q)
<1>1. /\ f \in Nat /\ f > 0 /\ s \in Nat /\ s > 0 /\ r \in Nat /\ r > 0 /\ a \in Nat /\ a > 0
      /\ totalCombos = a * r * s * f
  BY TotalFacts DEF Axes, totalCombos
<1>2. /\ c \in Nat /\ d \in Nat /\ c < a * r * s * f /\ d < a * r * s * f
  BY <1>1, SteppedIsBelow
<1>3. /\ (c % f) + 1 = (d % f) + 1
      /\ ((c \div f) % s) + 1 = ((d \div f) % s) + 1
      /\ ((c \div (f * s)) % r) + 1 = ((d \div (f * s)) % r) + 1
      /\ ((c \div (f * s * r)) % a) + 1 = ((d \div (f * s * r)) % a) + 1
  <2>1. /\ Combo(p).flow = (c % f) + 1
        /\ Combo(p).shape = ((c \div f) % s) + 1
        /\ Combo(p).sram = ((c \div (f * s)) % r) + 1
        /\ Combo(p).array = ((c \div (f * s * r)) % a) + 1
    BY DEF Combo, Stepped
  <2>2. /\ Combo(q).flow = (d % f) + 1
        /\ Combo(q).shape = ((d \div f) % s) + 1
        /\ Combo(q).sram = ((d \div (f * s)) % r) + 1
        /\ Combo(q).array = ((d \div (f * s * r)) % a) + 1
    BY DEF Combo, Stepped
  <2>3. QED
    BY <2>1, <2>2
<1>4. \A z \in Nat : /\ z % f \in Int /\ (z \div f) % s \in Int
                     /\ (z \div (f * s)) % r \in Int /\ (z \div (f * s * r)) % a \in Int
  BY <1>1, DigitsAreNumbers
<1>5. /\ c % f = d % f
      /\ (c \div f) % s = (d \div f) % s
      /\ (c \div (f * s)) % r = (d \div (f * s)) % r
      /\ (c \div (f * s * r)) % a = (d \div (f * s * r)) % a
  <2> HIDE DEF f, s, r, a, c, d
  <2>1. \A x, y \in Int : x + 1 = y + 1 => x = y
    OBVIOUS
  <2>2. QED
    BY <1>2, <1>3, <1>4, <2>1
<1> HIDE DEF f, s, r, a, c, d
<1>6. c = d
  BY <1>1, <1>2, <1>5, DigitsTell
<1>7. QED
  BY <1>6, SteppedIsOne DEF c, d

-----------------------------------------------------------------------------
(* The rows of a plan *)

\* A request with tiles to choose from.
RequestOK ==
  plan \in [tiles : 0..MaxTiles, topK : 1..2, maxSamples : 1..MaxPlanRows,
            queueLimit : {1, MaxPlanRows}]
PlansOK == RequestOK /\ plan.tiles > 0

\* How many tiles a combination gives, and the row at a place.
TilesOfCombo == Least2(plan.topK, plan.tiles)
RowAt(i) ==
  [combo |-> Combo((i - 1) \div TilesOfCombo), tile |-> ((i - 1) % TilesOfCombo) + 1]
PlanRowsOK ==
  /\ pick \in Nat /\ pick <= ComboBudget
  /\ DOMAIN planRows = 1..Len(planRows)
  /\ Len(planRows) = Least2(pick * TilesOfCombo, plan.maxSamples)
  /\ \A i \in DOMAIN planRows : planRows[i] = RowAt(i)
  /\ queued \subseteq DOMAIN planRows
FilledInv == AxesOK /\ PlansOK /\ planRows \in Seq([combo : [Axes -> Int], tile : Int]) /\ PlanRowsOK

\* An axis, or the tiles, without values: nothing is ever planned.
BarrenInv ==
  /\ ~(AxesOK /\ PlansOK)
  /\ axis \in [Axes -> 0..MaxAxis] /\ RequestOK
  /\ pick \in Nat /\ planRows = <<>> /\ queued = {}
PlanInv == FilledInv \/ BarrenInv

LEMMA BudgetFacts ==
  ASSUME AxesOK, PlansOK
  PROVE  /\ TilesOfCombo \in {1, 2} /\ TilesOfCombo <= plan.topK /\ plan.topK \in {1, 2}
         /\ plan.tiles >= plan.topK => TilesOfCombo = plan.topK
         /\ plan.maxSamples \in Nat /\ plan.maxSamples > 0
         /\ plan.queueLimit \in Nat
         /\ ComboBudget \in Nat /\ ComboBudget > 0 /\ ComboBudget <= totalCombos
         /\ ComboBudget < totalCombos => ComboBudget * plan.topK >= plan.maxSamples
<1>1. /\ plan.tiles \in Nat /\ plan.tiles > 0 /\ plan.topK \in {1, 2}
      /\ plan.maxSamples \in Nat /\ plan.maxSamples > 0 /\ plan.queueLimit \in Nat
  BY PlanAssumption DEF PlansOK, RequestOK
<1>2. totalCombos \in Nat /\ totalCombos > 0
  BY TotalFacts
<1>3. /\ TilesOfCombo \in {1, 2} /\ TilesOfCombo <= plan.topK
      /\ plan.tiles >= plan.topK => TilesOfCombo = plan.topK
  BY <1>1 DEF TilesOfCombo, Least2
<1>4. ASSUME NEW k \in {1, 2}, NEW m \in Nat, m > 0
      PROVE  (m + k - 1) \div k \in Nat /\ (m + k - 1) \div k > 0
               /\ ((m + k - 1) \div k) * k >= m
  <2>1. CASE k = 1
    BY <1>4, <2>1
  <2>2. CASE k = 2
    BY <1>4, <2>2
  <2>3. QED
    BY <2>1, <2>2
<1>5. ASSUME NEW e \in Nat, ComboBudget = Least2(totalCombos, e), e > 0, e * plan.topK >= plan.maxSamples
      PROVE  /\ ComboBudget \in Nat /\ ComboBudget > 0 /\ ComboBudget <= totalCombos
             /\ ComboBudget < totalCombos => ComboBudget * plan.topK >= plan.maxSamples
  BY <1>2, <1>5 DEF Least2
<1>6. QED
  BY <1>1, <1>3, <1>4, <1>5 DEF ComboBudget

LEMMA RowsOfAPlan == FilledInv => Len(planRows) \in Nat /\ DOMAIN planRows = 1..Len(planRows)
BY DEF FilledInv

LEMMA PlanInitInv == PlanInit => PlanInv
<1> SUFFICES ASSUME PlanInit
             PROVE  PlanInv
  OBVIOUS
<1>1. axis \in [Axes -> 0..MaxAxis] /\ RequestOK /\ pick = 0 /\ planRows = <<>> /\ queued = {}
  BY DEF PlanInit, RequestOK
<1>2. CASE AxesOK /\ PlansOK
  <2>1. Least2(0 * TilesOfCombo, plan.maxSamples) = 0
    BY <1>2, BudgetFacts DEF Least2
  <2>2. 0 <= ComboBudget
    BY <1>2, BudgetFacts
  <2>3. PlanRowsOK
    BY <1>1, <2>1, <2>2 DEF PlanRowsOK
  <2>4. QED
    BY <1>1, <1>2, <2>3 DEF PlanInv, FilledInv
<1>3. CASE ~(AxesOK /\ PlansOK)
  BY <1>1, <1>3 DEF PlanInv, BarrenInv
<1>4. QED
  BY <1>2, <1>3

LEMMA ComboShape ==
  ASSUME AxesOK, NEW p \in Nat
  PROVE  Combo(p) \in [Axes -> Int]
<1> DEFINE c == Stepped(p)
           f == axis["flow"]
           s == axis["shape"]
           r == axis["sram"]
           a == axis["array"]
<1>1. c \in Nat /\ f \in Nat /\ f > 0 /\ s \in Nat /\ s > 0 /\ r \in Nat /\ r > 0 /\ a \in Nat /\ a > 0
  BY SteppedIsBelow, TotalFacts DEF Axes
<1>2. Combo(p) = [flow |-> (c % f) + 1, shape |-> ((c \div f) % s) + 1,
                  sram |-> ((c \div (f * s)) % r) + 1, array |-> ((c \div (f * s * r)) % a) + 1]
  BY DEF Combo, Stepped
<1>3. /\ c % f \in Int /\ (c \div f) % s \in Int
      /\ (c \div (f * s)) % r \in Int /\ (c \div (f * s * r)) % a \in Int
  <2> HIDE DEF c, f, s, r, a
  <2>1. QED
    BY <1>1, DigitsAreNumbers
<1>4. ASSUME NEW w \in Int, NEW x \in Int, NEW y \in Int, NEW z \in Int
      PROVE  [flow |-> w + 1, shape |-> x + 1, sram |-> y + 1, array |-> z + 1] \in [Axes -> Int]
  BY DEF Axes
<1> HIDE DEF c, f, s, r, a
<1>5. QED
  BY <1>2, <1>3, <1>4

LEMMA PickFacts ==
  ASSUME FilledInv, Pick
  PROVE  FilledInv'
<1>1. AxesOK /\ PlansOK /\ PlanRowsOK
  BY DEF FilledInv
<1>2. AxesOK' /\ PlansOK'
  BY <1>1 DEF AxesOK, PlansOK, RequestOK, totalCombos, Pick
<1> DEFINE k == TilesOfCombo
           m == plan.maxSamples
           n == Len(planRows)
           more == RowsOfPick(pick)
           g == Least2(k, m - n)
<1>3. TilesOfCombo' = k /\ ComboBudget' = ComboBudget /\ plan.maxSamples' = m
  BY DEF Pick, TilesOfCombo, ComboBudget, totalCombos
<1>4. k \in {1, 2} /\ m \in Nat /\ m > 0 /\ ComboBudget \in Nat
  BY <1>1, BudgetFacts
<1>5. pick \in Nat /\ pick < ComboBudget /\ n < m /\ n = Least2(pick * k, m) /\ n \in Nat
  BY RowsOfAPlan, <1>1 DEF Pick, PickMore, PlanRowsOK
<1>6. n = pick * k
  BY <1>4, <1>5 DEF Least2
<1>7. g \in Nat /\ g > 0 /\ g <= k /\ n + g = Least2((pick + 1) * k, m)
  BY <1>4, <1>5, <1>6 DEF Least2
<1>8. more = [t \in 1..g |-> [combo |-> Combo(pick), tile |-> t]]
  BY DEF RowsOfPick, TilesOfCombo
<1>9. more \in Seq([combo : [Axes -> Int], tile : Int]) /\ Len(more) = g
  <2> HIDE DEF g
  <2>1. Combo(pick) \in [Axes -> Int]
    BY <1>1, <1>5, ComboShape
  <2>2. QED
    BY <1>7, <1>8, <2>1
<1>10. planRows' = planRows \o more /\ pick' = pick + 1 /\ queued' = queued
  BY DEF Pick
<1>11. planRows \in Seq([combo : [Axes -> Int], tile : Int])
  BY DEF FilledInv
<1>12. \A i \in Nat : RowAt(i)' = RowAt(i)
  BY <1>3 DEF RowAt, Combo, totalCombos, Pick
<1> HIDE DEF more, g, n
<1>13. /\ planRows' \in Seq([combo : [Axes -> Int], tile : Int])
       /\ Len(planRows') = n + g
       /\ \A i \in 1..n : planRows'[i] = planRows[i]
       /\ \A i \in (n + 1)..(n + g) : planRows'[i] = more[i - n]
  <2>1. ASSUME NEW R, NEW s \in Seq(R), NEW t \in Seq(R)
        PROVE  /\ s \o t \in Seq(R) /\ Len(s \o t) = Len(s) + Len(t)
               /\ \A i \in 1..Len(s) : (s \o t)[i] = s[i]
               /\ \A i \in (Len(s) + 1)..(Len(s) + Len(t)) : (s \o t)[i] = t[i - Len(s)]
    OBVIOUS
  <2> DEFINE R == [combo : [Axes -> Int], tile : Int]
             s == planRows
  <2>2. s \in Seq(R) /\ more \in Seq(R)
    BY <1>9, <1>11
  <2>3. planRows' = s \o more /\ Len(s) = n /\ Len(more) = g
    BY <1>9, <1>10 DEF n
  <2> HIDE DEF R, s
  <2>4. /\ s \o more \in Seq(R) /\ Len(s \o more) = n + g
        /\ \A i \in 1..n : (s \o more)[i] = s[i]
        /\ \A i \in (n + 1)..(n + g) : (s \o more)[i] = more[i - n]
    BY <2>1, <2>2, <2>3
  <2>5. QED
    BY <2>3, <2>4 DEF R, s
<1>14. ASSUME NEW i \in (n + 1)..(n + g)
       PROVE  planRows'[i] = RowAt(i)
  <2>1. i - n \in 1..g
    BY <1>5, <1>7
  <2>2. planRows'[i] = [combo |-> Combo(pick), tile |-> i - n]
    BY <1>8, <1>13, <2>1
  <2>3. (i - 1) \div k = pick /\ (i - 1) % k = i - n - 1
    <3>1. CASE k = 1
      BY <1>5, <1>6, <1>7, <2>1, <3>1
    <3>2. CASE k = 2
      BY <1>5, <1>6, <1>7, <2>1, <3>2
    <3>3. QED
      BY <1>4, <3>1, <3>2
  <2>4. RowAt(i) = [combo |-> Combo(pick), tile |-> (i - n - 1) + 1]
    BY <2>3 DEF RowAt
  <2>5. (i - n - 1) + 1 = i - n
    BY <1>5
  <2>6. QED
    BY <2>2, <2>4, <2>5
<1>15. DOMAIN planRows' = 1..(n + g)
  BY <1>13
<1>16. \A i \in 1..n : planRows[i] = RowAt(i)
  BY <1>1 DEF PlanRowsOK, n
<1>17. queued \subseteq 1..n
  BY <1>1 DEF PlanRowsOK, n
<1>18. PlanRowsOK'
  <2>1. pick' \in Nat /\ pick' <= ComboBudget'
    BY <1>3, <1>4, <1>5, <1>10
  <2>2. DOMAIN planRows' = 1..Len(planRows')
    BY <1>13, <1>15
  <2>3. Len(planRows') = Least2(pick' * TilesOfCombo', plan.maxSamples')
    BY <1>3, <1>7, <1>10, <1>13
  <2>4. ASSUME NEW i \in DOMAIN planRows'
        PROVE  planRows'[i] = RowAt(i)'
    <3>1. i \in 1..n \/ i \in (n + 1)..(n + g)
      BY <1>5, <1>7, <1>15, <2>4
    <3>2. i \in Nat
      BY <1>5, <1>7, <1>15, <2>4
    <3>3. QED
      BY <1>12, <1>13, <1>14, <1>16, <3>1, <3>2
  <2>5. queued' \subseteq DOMAIN planRows'
    BY <1>5, <1>7, <1>10, <1>15, <1>17
  <2>6. QED
    BY <2>1, <2>2, <2>3, <2>4, <2>5 DEF PlanRowsOK
<1>19. QED
  BY <1>2, <1>13, <1>18 DEF FilledInv

LEMMA FilledStepInv == FilledInv /\ [PlanNext]_plvars => FilledInv'
<1> SUFFICES ASSUME FilledInv, [PlanNext]_plvars
             PROVE  FilledInv'
  OBVIOUS
<1>1. CASE Pick
  BY <1>1, PickFacts
<1>2. ASSUME UNCHANGED <<axis, plan, pick, planRows>>, queued' \subseteq DOMAIN planRows
      PROVE  FilledInv'
  <2>1. AxesOK' /\ PlansOK' /\ planRows' \in Seq([combo : [Axes -> Int], tile : Int])
    BY <1>2 DEF AxesOK, PlansOK, RequestOK, totalCombos, FilledInv
  <2>2. TilesOfCombo' = TilesOfCombo /\ ComboBudget' = ComboBudget
    BY <1>2 DEF TilesOfCombo, ComboBudget, totalCombos
  <2>3. ASSUME NEW i
        PROVE  RowAt(i)' = RowAt(i)
    BY <1>2, <2>2 DEF RowAt, Combo, totalCombos
  <2>4. PlanRowsOK'
    BY <1>2, <2>2, <2>3 DEF PlanRowsOK, FilledInv
  <2>5. QED
    BY <2>1, <2>4 DEF FilledInv
<1>3. CASE QueuePlan
  <2>1. Len(planRows) \in Nat /\ DOMAIN planRows = 1..Len(planRows) /\ plan.queueLimit \in Nat
    BY RowsOfAPlan, BudgetFacts DEF FilledInv
  <2>2. queued' \subseteq DOMAIN planRows
    BY <1>3, <2>1 DEF QueuePlan, Least2
  <2>3. QED
    BY <1>2, <1>3, <2>2 DEF QueuePlan
<1>4. CASE UNCHANGED plvars
  <2>1. queued' \subseteq DOMAIN planRows
    BY <1>4 DEF plvars, FilledInv, PlanRowsOK
  <2>2. QED
    BY <1>2, <1>4, <2>1 DEF plvars
<1>5. QED
  BY <1>1, <1>3, <1>4 DEF PlanNext

\* Without a value on some axis no step is taken, and without a tile a pick adds no row.
LEMMA BarrenStepInv == BarrenInv /\ [PlanNext]_plvars => BarrenInv'
<1> SUFFICES ASSUME BarrenInv, [PlanNext]_plvars
             PROVE  BarrenInv'
  OBVIOUS
<1>1. /\ ~(AxesOK /\ PlansOK) /\ axis \in [Axes -> 0..MaxAxis] /\ RequestOK
      /\ pick \in Nat /\ planRows = <<>> /\ queued = {}
  BY DEF BarrenInv
<1>2. ASSUME UNCHANGED <<axis, plan>>, pick' \in Nat, planRows' = <<>>, queued' = {}
      PROVE  BarrenInv'
  <2>1. totalCombos' = totalCombos
    BY <1>2 DEF totalCombos
  <2>2. AxesOK' <=> AxesOK
    BY <1>2, <2>1 DEF AxesOK
  <2>3. RequestOK' /\ (PlansOK' <=> PlansOK)
    BY <1>1, <1>2 DEF PlansOK, RequestOK
  <2>4. QED
    BY <1>1, <1>2, <2>2, <2>3 DEF BarrenInv
<1>3. CASE Pick
  <2>1. totalCombos \in Nat
    <3>1. \A a \in Axes : axis[a] \in Nat
      BY <1>1, PlanAssumption
    <3>2. "array" \in Axes /\ "sram" \in Axes /\ "shape" \in Axes /\ "flow" \in Axes
      BY DEF Axes
    <3>3. ASSUME NEW a \in Nat, NEW r \in Nat, NEW s \in Nat, NEW f \in Nat
          PROVE  a * r * s * f \in Nat
      OBVIOUS
    <3>4. QED
      BY <3>1, <3>2, <3>3 DEF totalCombos
  <2>2. /\ plan.tiles \in Nat /\ plan.topK \in {1, 2}
        /\ plan.maxSamples \in Nat /\ plan.maxSamples > 0
    BY <1>1, PlanAssumption DEF RequestOK
  <2>3. totalCombos > 0
    <3>1. ASSUME NEW e \in Int, pick < Least2(totalCombos, e)
          PROVE  totalCombos > 0
      BY <1>1, <2>1, <3>1 DEF Least2
    <3>2. (plan.maxSamples + plan.topK - 1) \div plan.topK \in Int
      BY <2>2
    <3>3. QED
      BY <1>3, <3>1, <3>2 DEF Pick, PickMore, ComboBudget
  <2>4. plan.tiles = 0
    BY <1>1, <2>2, <2>3 DEF AxesOK, PlansOK
  <2>5. Least2(Least2(plan.topK, plan.tiles), plan.maxSamples - Len(planRows)) = 0
    BY <1>1, <2>2, <2>4 DEF Least2
  <2>6. RowsOfPick(pick) = <<>>
    BY <2>5 DEF RowsOfPick
  <2>7. planRows' = <<>>
    BY <1>1, <1>3, <2>6 DEF Pick
  <2>8. QED
    BY <1>1, <1>2, <1>3, <2>7 DEF Pick
<1>4. CASE QueuePlan
  <2>1. plan.queueLimit \in Nat
    BY <1>1, PlanAssumption DEF RequestOK
  <2>2. Least2(plan.queueLimit, Len(planRows)) = 0
    BY <1>1, <2>1 DEF Least2
  <2>3. queued' = {}
    BY <1>4, <2>2 DEF QueuePlan
  <2>4. QED
    BY <1>1, <1>2, <1>4, <2>3 DEF QueuePlan
<1>5. CASE UNCHANGED plvars
  BY <1>1, <1>2, <1>5 DEF plvars
<1>6. QED
  BY <1>3, <1>4, <1>5 DEF PlanNext

LEMMA PlanStepInv == PlanInv /\ [PlanNext]_plvars => PlanInv'
BY FilledStepInv, BarrenStepInv DEF PlanInv

-----------------------------------------------------------------------------
(* What the invariant says of a plan *)

LEMMA BarrenSays ==
  ASSUME BarrenInv
  PROVE  PlanTypeOK /\ RowsAreDistinct /\ PlanIsFull
<1>1. /\ ~(AxesOK /\ PlansOK) /\ axis \in [Axes -> 0..MaxAxis] /\ RequestOK
      /\ pick \in Nat /\ planRows = <<>> /\ queued = {}
  BY DEF BarrenInv
<1>2. /\ plan.tiles \in Nat /\ plan.topK \in {1, 2}
      /\ plan.maxSamples \in Nat /\ plan.maxSamples > 0
  BY <1>1, PlanAssumption DEF RequestOK
<1>3. totalCombos \in Nat
  <2>1. \A a \in Axes : axis[a] \in Nat
    BY <1>1, PlanAssumption
  <2>2. "array" \in Axes /\ "sram" \in Axes /\ "shape" \in Axes /\ "flow" \in Axes
    BY DEF Axes
  <2>3. ASSUME NEW a \in Nat, NEW r \in Nat, NEW s \in Nat, NEW f \in Nat
        PROVE  a * r * s * f \in Nat
    OBVIOUS
  <2>4. QED
    BY <2>1, <2>2, <2>3 DEF totalCombos
<1>4. totalCombos = 0 \/ plan.tiles = 0
  BY <1>1, <1>2, <1>3 DEF AxesOK, PlansOK
<1>5. PlanTypeOK
  BY <1>1, <1>2, <1>4 DEF PlanTypeOK
<1>6. RowsAreDistinct
  BY <1>1 DEF RowsAreDistinct
<1>7. ASSUME plan.tiles >= plan.topK
      PROVE  Len(planRows) = Least2(plan.maxSamples, totalCombos * plan.topK)
  <2>1. totalCombos = 0
    BY <1>2, <1>4, <1>7
  <2>2. totalCombos * plan.topK = 0
    BY <1>2, <2>1
  <2>3. Least2(plan.maxSamples, 0) = 0
    BY <1>2 DEF Least2
  <2>4. QED
    BY <1>1, <2>2, <2>3
<1>8. ASSUME plan.tiles > 0
      PROVE  Cardinality({planRows[i].combo : i \in DOMAIN planRows}) = totalCombos
  <2>1. totalCombos = 0
    BY <1>2, <1>4, <1>8
  <2>2. {planRows[i].combo : i \in DOMAIN planRows} = {}
    BY <1>1
  <2>3. QED
    BY <2>1, <2>2, FS_EmptySet
<1>9. QED
  BY <1>5, <1>6, <1>7, <1>8 DEF PlanIsFull

LEMMA FilledSays ==
  ASSUME FilledInv
  PROVE  PlanTypeOK /\ RowsAreDistinct /\ PlanIsFull
<1> DEFINE k == TilesOfCombo
           m == plan.maxSamples
           n == Len(planRows)
           b == ComboBudget
           c == totalCombos
           u == plan.topK
<1>1. AxesOK /\ PlansOK /\ PlanRowsOK
  BY DEF FilledInv
<1>2. /\ k \in {1, 2} /\ k <= u /\ u \in {1, 2} /\ (plan.tiles >= u => k = u)
      /\ m \in Nat /\ m > 0 /\ b \in Nat /\ b > 0 /\ b <= c
      /\ (b < c => b * u >= m)
  BY <1>1, BudgetFacts
<1>3. c \in Nat /\ c > 0
  BY <1>1, TotalFacts
<1>4. /\ pick \in Nat /\ pick <= b /\ DOMAIN planRows = 1..n /\ n = Least2(pick * k, m)
      /\ queued \subseteq 1..n /\ \A i \in 1..n : planRows[i] = RowAt(i)
  BY <1>1 DEF PlanRowsOK
<1>5. ~PickMore => pick >= b \/ n >= m
  BY <1>2, <1>4 DEF PickMore, Least2
<1>6. planRows # <<>> <=> n # 0
  BY DEF FilledInv
<1> HIDE DEF k, m, n, b, c, u
<1>7. n \in Nat /\ n <= m
  BY <1>2, <1>4 DEF Least2
<1>8. ~PickMore => n # 0
  BY <1>2, <1>4, <1>5 DEF Least2
<1>9. PlanTypeOK
  <2>1. c # 0 /\ plan.tiles # 0
    BY <1>1, <1>3 DEF PlansOK
  <2>2. QED
    BY <1>4, <1>6, <1>7, <1>8, <2>1 DEF PlanTypeOK, m, n, c
<1>10. ASSUME NEW i \in 1..n
       PROVE  /\ (i - 1) \div k \in Nat /\ (i - 1) \div k < c
              /\ i - 1 = k * ((i - 1) \div k) + ((i - 1) % k)
              /\ (i - 1) % k \in Int
  <2>1. i <= pick * k
    BY <1>2, <1>4, <1>7 DEF Least2
  <2>2. CASE k = 1
    BY <1>2, <1>3, <1>4, <2>1, <2>2
  <2>3. CASE k = 2
    BY <1>2, <1>3, <1>4, <2>1, <2>3
  <2>4. QED
    BY <1>2, <2>2, <2>3
<1>11. RowsAreDistinct
  <2> SUFFICES ASSUME NEW i \in 1..n, NEW j \in 1..n, planRows[i] = planRows[j]
               PROVE  i = j
    BY <1>4 DEF RowsAreDistinct
  <2> DEFINE p == (i - 1) \div k
             q == (j - 1) \div k
             x == (i - 1) % k
             y == (j - 1) % k
  <2>1. RowAt(i) = [combo |-> Combo(p), tile |-> x + 1] /\ RowAt(j) = [combo |-> Combo(q), tile |-> y + 1]
    BY DEF RowAt, k
  <2>2. /\ p \in Nat /\ p < c /\ i - 1 = k * p + x /\ x \in Int
        /\ q \in Nat /\ q < c /\ j - 1 = k * q + y /\ y \in Int
    BY <1>10
  <2> HIDE DEF p, q, x, y
  <2>3. Combo(p) = Combo(q) /\ x + 1 = y + 1
    BY <1>4, <2>1
  <2>4. p = q
    BY <1>1, <2>2, <2>3, CombosDiffer DEF c
  <2>5. x = y
    BY <2>2, <2>3
  <2>6. i - 1 = j - 1
    BY <2>2, <2>4, <2>5
  <2>7. QED
    BY <2>6
<1>12. PlanIsFull
  <2> SUFFICES ASSUME ~PickMore
               PROVE  /\ plan.tiles >= u => n = Least2(m, c * u)
                      /\ c * u <= m =>
                           Cardinality({planRows[i].combo : i \in DOMAIN planRows}) = c
    BY DEF PlanIsFull, u, n, m, c
  <2>1. ASSUME k = u
        PROVE  n = Least2(m, c * u)
    <3>1. CASE u = 1
      BY <1>2, <1>3, <1>4, <1>5, <2>1, <3>1 DEF Least2
    <3>2. CASE u = 2
      BY <1>2, <1>3, <1>4, <1>5, <2>1, <3>2 DEF Least2
    <3>3. QED
      BY <1>2, <3>1, <3>2
  <2>2. ASSUME c * u <= m
        PROVE  Cardinality({planRows[i].combo : i \in DOMAIN planRows}) = c
    <3>1. b = c
      BY <1>2, <1>3, <2>2
    <3>2. pick = c
      BY <1>2, <1>3, <1>4, <1>5, <2>2, <3>1 DEF Least2
    <3>3. n = c * k
      BY <1>2, <1>3, <1>4, <2>2, <3>2 DEF Least2
    <3> DEFINE S == 1..c
               com == [p \in S |-> Combo(p - 1)]
    <3>4. {planRows[i].combo : i \in DOMAIN planRows} = {com[p] : p \in S}
      <4>1. ASSUME NEW i \in 1..n
            PROVE  planRows[i].combo \in {com[p] : p \in S}
        <5> DEFINE q == (i - 1) \div k
        <5>1. q \in Nat /\ q < c
          BY <1>10
        <5>2. planRows[i].combo = Combo(q)
          BY <1>4 DEF RowAt, k
        <5> HIDE DEF q
        <5>3. q + 1 \in S /\ (q + 1) - 1 = q
          BY <1>3, <5>1
        <5>4. com[q + 1] = Combo(q)
          BY <5>3
        <5>5. QED
          BY <5>2, <5>3, <5>4
      <4>2. ASSUME NEW p \in S
            PROVE  \E i \in 1..n : planRows[i].combo = com[p]
        <5> DEFINE j == (p - 1) * k + 1
        <5>1. j \in 1..n /\ (j - 1) \div k = p - 1
          <6>1. CASE k = 1
            BY <1>3, <3>3, <6>1
          <6>2. CASE k = 2
            BY <1>3, <3>3, <6>2
          <6>3. QED
            BY <1>2, <6>1, <6>2
        <5> HIDE DEF j
        <5>2. planRows[j].combo = Combo(p - 1)
          BY <1>4, <5>1 DEF RowAt, k
        <5>3. QED
          BY <5>1, <5>2
      <4>3. QED
        BY <1>4, <4>1, <4>2
    <3>5. ASSUME NEW p \in S, NEW q \in S, com[p] = com[q]
          PROVE  p = q
      <4>1. p - 1 \in Nat /\ q - 1 \in Nat /\ p - 1 < c /\ q - 1 < c
        BY <1>3
      <4>2. Combo(p - 1) = Combo(q - 1)
        BY <3>5
      <4>3. p - 1 = q - 1
        BY <1>1, <4>1, <4>2, CombosDiffer DEF c
      <4>4. QED
        BY <1>3, <4>3
    <3>6. IsFiniteSet(S) /\ Cardinality(S) = c
      BY <1>3, FS_Interval
    <3> HIDE DEF S
    <3>7. com \in [S -> {com[p] : p \in S}]
      OBVIOUS
    <3>8. com \in Bijection(S, {com[p] : p \in S})
      <4> HIDE DEF com
      <4>1. com \in Injection(S, {com[p] : p \in S})
        <5>1. \A p, q \in S : com[p] = com[q] => p = q
          BY <3>5
        <5>2. QED
          BY <3>7, <5>1 DEF Injection, IsInjective
      <4>2. com \in Surjection(S, {com[p] : p \in S})
        BY <3>7 DEF Surjection
      <4>3. QED
        BY <4>1, <4>2 DEF Bijection
    <3>9. Cardinality({com[p] : p \in S}) = Cardinality(S)
      <4> HIDE DEF com
      <4>1. ExistsBijection(S, {com[p] : p \in S})
        BY <3>8 DEF ExistsBijection
      <4>2. QED
        BY <3>6, <4>1, FS_Bijection
    <3>10. QED
      BY <3>4, <3>6, <3>9
  <2>3. QED
    BY <1>2, <2>1, <2>2
<1>13. QED
  BY <1>9, <1>11, <1>12

LEMMA PlanInvSays ==
  ASSUME PlanInv
  PROVE  PlanTypeOK /\ RowsAreDistinct /\ PlanIsFull
BY FilledSays, BarrenSays DEF PlanInv

-----------------------------------------------------------------------------
(* The search of the tiles: the heaps hold the best of the estimates, which *)
(* are of the tiles that were kept and come first                           *)

Estimated == UNION {Estimates(t) : t \in TileIds}
TilesOf(V) == {v.tile : v \in Items(V)}
Finished == [best : ShapeIds, candidates : ShapeIds, pareto : ShapeIds]

FoundInv ==
  /\ shapeAt \in 1..(ShapeCount + 1)
  /\ found \in Seq(Finished) /\ Len(found) = shapeAt - 1 /\ NamesAreOwn
KeptInv ==
  /\ estimated \in 0..TileCount
  /\ kept = {0} => estimated = 0 /\ value = <<>>
  /\ kept # {0} => /\ kept \subseteq TileIds /\ kept # {} /\ shapeAt \in ShapeIds
                   /\ TilesOf(value) = {t \in kept : t <= estimated}
ValueInv ==
  /\ value \in Seq(Estimated)
  /\ \A a, b \in Items(value) : a.tile = b.tile => a = b
HeatInv ==
  /\ heatmap \in Seq(TileIds) /\ SampleIsFair /\ Items(heatmap) \subseteq TilesOf(value)
SearchInv ==
  /\ FoundInv /\ KeptInv /\ ValueInv /\ HeatInv
  /\ Holds(Estimated, value, top, maxKeep) /\ Holds(Estimated, value, paretoPool, poolKeep)

\* Two estimates of one rank are of one tile.
LEMMA EstimatesAreRanked ==
  /\ HasRanks(Estimated)
  /\ \A a \in Estimated : a.tile \in TileIds /\ a.rank \in Nat
  /\ \A a, b \in Estimated : a.rank = b.rank => a.tile = b.tile
<1>1. ASSUME NEW a \in Estimated
      PROVE  \E s \in 1..2, t \in TileIds : a.tile = t /\ a.rank = s * (TileCount + 1) - t
  BY DEF Estimated, Estimates
<1>2. TileCount \in Nat
  BY TileAssumption
<1>3. ASSUME NEW a \in Estimated
      PROVE  /\ a.tile \in TileIds /\ a.rank \in Nat
             /\ \/ a.rank = TileCount + 1 - a.tile
                \/ a.rank = 2 * (TileCount + 1) - a.tile
  <2>1. PICK s \in 1..2, t \in TileIds : a.tile = t /\ a.rank = s * (TileCount + 1) - t
    BY <1>1
  <2>2. t \in 1..TileCount
    BY DEF TileIds
  <2>3. CASE s = 1
    BY <1>2, <2>1, <2>2, <2>3
  <2>4. CASE s = 2
    BY <1>2, <2>1, <2>2, <2>4
  <2>5. QED
    BY <2>3, <2>4
<1>4. ASSUME NEW a \in Estimated, NEW b \in Estimated, a.rank = b.rank
      PROVE  a.tile = b.tile
  <2>1. a.tile \in 1..TileCount /\ b.tile \in 1..TileCount
    BY <1>3 DEF TileIds
  <2>2. /\ a.rank = TileCount + 1 - a.tile \/ a.rank = 2 * (TileCount + 1) - a.tile
        /\ b.rank = TileCount + 1 - b.tile \/ b.rank = 2 * (TileCount + 1) - b.tile
    BY <1>3
  <2>3. QED
    BY <1>2, <1>4, <2>1, <2>2
<1>5. QED
  BY <1>3, <1>4 DEF HasRanks

LEMMA NothingEstimated ==
  /\ Items(<<>>) = {} /\ TilesOf(<<>>) = {} /\ Len(<<>>) = 0
BY DEF Items, TilesOf

LEMMA SearchStarts == SearchInit => SearchInv
<1> SUFFICES ASSUME SearchInit PROVE SearchInv
  OBVIOUS
<1>1. maxKeep \in Nat /\ poolKeep \in Nat /\ heatmapMax \in Nat /\ TileCount \in Nat /\ ShapeCount \in Nat
  BY TileAssumption
<1>2. FoundInv
  BY <1>1 DEF SearchInit, FoundInv, NamesAreOwn
<1>3. KeptInv
  BY <1>1 DEF SearchInit, KeptInv
<1>4. ValueInv
  BY NothingEstimated DEF SearchInit, ValueInv
<1>5. HeatInv
  BY <1>1, NothingEstimated DEF SearchInit, HeatInv, SampleIsFair
<1>6. Holds(Estimated, value, top, maxKeep) /\ Holds(Estimated, value, paretoPool, poolKeep)
  BY <1>1, NothingHolds DEF SearchInit
<1>7. QED
  BY <1>2, <1>3, <1>4, <1>5, <1>6 DEF SearchInv

\* The shape a search is at gets its names.
LEMMA ShapeIsFound ==
  ASSUME FoundInv, shapeAt \in ShapeIds, shapeAt' = shapeAt + 1, NEW p \in ShapeIds,
         found' = Append(found, [best |-> shapeAt, candidates |-> shapeAt, pareto |-> p])
  PROVE  FoundInv'
<1> DEFINE r == [best |-> shapeAt, candidates |-> shapeAt, pareto |-> p]
<1>1. /\ found \in Seq(Finished) /\ Len(found) = shapeAt - 1 /\ shapeAt \in 1..ShapeCount
      /\ ShapeCount \in Nat /\ \A s \in 1..Len(found) : found[s].best = s /\ found[s].candidates = s
  BY TileAssumption DEF FoundInv, NamesAreOwn, ShapeIds
<1>2. r \in Finished /\ r.best = shapeAt /\ r.candidates = shapeAt
  BY DEF Finished
<1>3. found' = Append(found, r)
  OBVIOUS
<1> HIDE DEF r
<1>4. /\ found' \in Seq(Finished) /\ Len(found') = Len(found) + 1 /\ DOMAIN found' = 1..Len(found) + 1
      /\ found'[Len(found) + 1] = r /\ \A s \in 1..Len(found) : found'[s] = found[s]
  BY <1>1, <1>2, <1>3
<1>5. ASSUME NEW s \in 1..Len(found) + 1
      PROVE  found'[s].best = s /\ found'[s].candidates = s
  <2>1. CASE s \in 1..Len(found)
    BY <1>1, <1>4, <2>1
  <2>2. CASE s = Len(found) + 1
    BY <1>1, <1>2, <1>4, <2>2
  <2>3. QED
    BY <1>1, <2>1, <2>2
<1>6. QED
  BY <1>1, <1>4, <1>5 DEF FoundInv, NamesAreOwn

LEMMA SearchSteps ==
  ASSUME SearchInv, [SearchNext]_srvars
  PROVE  SearchInv'
<1>1. FoundInv /\ KeptInv /\ ValueInv /\ HeatInv
  BY DEF SearchInv
<1>2. Holds(Estimated, value, top, maxKeep) /\ Holds(Estimated, value, paretoPool, poolKeep)
  BY DEF SearchInv
<1>3. maxKeep \in Nat /\ poolKeep \in Nat /\ heatmapMax \in Nat /\ TileCount \in Nat /\ ShapeCount \in Nat
  BY TileAssumption
<1>4. CASE TakeOver
  <2> DEFINE e == CHOOSE e \in Hits(shapeAt) : TRUE
  <2>1. /\ shapeAt \in ShapeIds /\ Hits(shapeAt) # {} /\ shapeAt' = shapeAt + 1
        /\ found' = Append(found, NamesOnHit(shapeAt, e))
    BY <1>4 DEF TakeOver
  <2>2. UNCHANGED <<sizes, kept, estimated, value, top, paretoPool, heatmap>>
    BY <1>4 DEF TakeOver
  <2>3. e \in Hits(shapeAt)
    BY <2>1
  <2> HIDE DEF e
  <2>4. found[e].pareto \in ShapeIds
    <3>1. e \in 1..Len(found)
      BY <1>1, <2>3 DEF Hits, FoundInv
    <3>2. found[e] \in Finished
      BY <1>1, <3>1 DEF FoundInv
    <3>3. QED
      BY <3>2 DEF Finished
  <2>5. FoundInv'
    <3> DEFINE p == found[e].pareto
    <3>1. /\ FoundInv /\ shapeAt \in ShapeIds /\ shapeAt' = shapeAt + 1 /\ p \in ShapeIds
          /\ found' = Append(found, [best |-> shapeAt, candidates |-> shapeAt, pareto |-> p])
      BY <1>1, <2>1, <2>4 DEF NamesOnHit
    <3> HIDE DEF p
    <3>2. QED
      BY <3>1, ShapeIsFound
  <2>6. kept = {0}
    BY <1>4 DEF TakeOver
  <2>7. KeptInv'
    BY <1>1, <2>2, <2>6 DEF KeptInv
  <2>8. ValueInv' /\ HeatInv'
    BY <1>1, <2>2 DEF ValueInv, HeatInv, SampleIsFair
  <2>9. /\ Holds(Estimated, value', top', maxKeep)
        /\ Holds(Estimated, value', paretoPool', poolKeep)
    BY <1>2, <2>2
  <2>10. QED
    BY <2>5, <2>7, <2>8, <2>9 DEF SearchInv
<1>5. CASE Prune
  <2>1. PICK strict \in SUBSET TileIds : kept' = Keeps(strict)
    BY <1>5 DEF Prune
  <2>2. /\ shapeAt \in ShapeIds /\ kept = {0}
        /\ UNCHANGED <<sizes, shapeAt, estimated, value, top, paretoPool, heatmap, found>>
    BY <1>5 DEF Prune
  <2>3. kept' \subseteq TileIds /\ kept' # {}
    <3>1. 1 \in TileIds
      BY TileAssumption DEF TileIds
    <3>2. QED
      BY <2>1, <3>1 DEF Keeps
  <2>4. value = <<>> /\ estimated = 0
    BY <1>1, <2>2 DEF KeptInv
  <2>5. {t \in kept' : t <= estimated} = {}
    <3>1. \A t \in kept' : t \in Nat /\ ~(t <= 0)
      BY <2>3 DEF TileIds
    <3>2. QED
      BY <2>4, <3>1
  <2>6. KeptInv'
    BY <1>1, <2>2, <2>3, <2>4, <2>5, NothingEstimated DEF KeptInv
  <2>7. FoundInv' /\ ValueInv' /\ HeatInv'
    BY <1>1, <2>2 DEF FoundInv, ValueInv, HeatInv, SampleIsFair, NamesAreOwn
  <2>8. /\ Holds(Estimated, value', top', maxKeep)
        /\ Holds(Estimated, value', paretoPool', poolKeep)
    BY <1>2, <2>2
  <2>9. QED
    BY <2>6, <2>7, <2>8 DEF SearchInv
<1>6. CASE EstimateTile
  <2> DEFINE t == estimated + 1
  <2>1. /\ kept # {0} /\ estimated < TileCount /\ estimated' = t
        /\ UNCHANGED <<sizes, shapeAt, kept, found>>
    BY <1>6 DEF EstimateTile
  <2>2. /\ estimated \in Nat /\ kept \subseteq TileIds /\ kept # {} /\ shapeAt \in ShapeIds
        /\ TilesOf(value) = {u \in kept : u <= estimated}
    BY <1>1, <2>1 DEF KeptInv
  <2>3. t \in TileIds /\ t \in 0..TileCount /\ ~(t <= estimated)
    BY <1>3, <2>1, <2>2 DEF TileIds
  <2>4. \A u \in kept : u \in Nat
    BY <2>2 DEF TileIds
  <2>5. FoundInv'
    BY <1>1, <2>1 DEF FoundInv, NamesAreOwn
  <2>6. CASE t \notin kept
    <3>1. UNCHANGED <<value, top, paretoPool, heatmap>>
      BY <1>6, <2>6 DEF EstimateTile
    <3>2. {u \in kept : u <= estimated} = {u \in kept : u <= t}
      BY <2>2, <2>4, <2>6
    <3>3. TilesOf(value') = {u \in kept' : u <= estimated'}
      BY <2>1, <2>2, <3>1, <3>2
    <3>4. KeptInv'
      BY <2>1, <2>2, <2>3, <3>3 DEF KeptInv
    <3>5. ValueInv' /\ HeatInv'
      BY <1>1, <3>1 DEF ValueInv, HeatInv, SampleIsFair
    <3>6. /\ Holds(Estimated, value', top', maxKeep)
          /\ Holds(Estimated, value', paretoPool', poolKeep)
      BY <1>2, <3>1
    <3>7. QED
      BY <2>5, <3>4, <3>5, <3>6 DEF SearchInv
  <2>7. CASE t \in kept
    <3>1. PICK v \in Estimates(t) :
            /\ value' = Append(value, v)
            /\ top' = PushTop(top, v, maxKeep)
            /\ paretoPool' = PushTop(paretoPool, v, poolKeep)
            /\ heatmap' \in PushSample(heatmap, Len(value), v.tile, heatmapMax)
      BY <1>6, <2>7 DEF EstimateTile
    <3>2. v.tile = t /\ v \in Estimated
      BY <2>3 DEF Estimates, Estimated
    <3> HIDE DEF t
    <3>3. value \in Seq(Estimated) /\ Len(value) \in Nat /\ \A a, b \in Items(value) : a.tile = b.tile => a = b
      BY <1>1 DEF ValueInv
    <3>4. Items(value') = Items(value) \union {v} /\ Items(value) \subseteq Estimated
      BY <3>1, <3>3, ItemFacts
    <3>5. TilesOf(value') = TilesOf(value) \union {t}
      BY <3>2, <3>4 DEF TilesOf
    <3>6. t \notin TilesOf(value)
      BY <2>2, <2>3
    <3>7. \A y \in Items(value) : y.tile # t
      BY <3>6 DEF TilesOf
    <3>8. TilesOf(value') = {u \in kept' : u <= estimated'}
      <4>1. {u \in kept : u <= t} = {u \in kept : u <= estimated} \union {t}
        BY <2>2, <2>4, <2>7 DEF t
      <4>2. QED
        BY <2>1, <2>2, <3>5, <4>1
    <3>9. kept' # {0} /\ KeptInv'
      BY <2>1, <2>2, <2>3, <3>8 DEF KeptInv
    <3>10. ValueInv'
      <4>1. value' \in Seq(Estimated)
        BY <3>1, <3>2, <3>3
      <4>2. \A a, b \in Items(value') : a.tile = b.tile => a = b
        BY <3>2, <3>3, <3>4, <3>7
      <4>3. QED
        BY <4>1, <4>2 DEF ValueInv
    <3>11. Strict(value) /\ \A y \in Items(value) : y.rank # v.rank
      <4>1. \A a, b \in Estimated : a.rank = b.rank => a.tile = b.tile
        BY EstimatesAreRanked
      <4>2. \A y \in Items(value) : y.rank # v.rank
        BY <3>2, <3>4, <3>7, <4>1
      <4>3. Strict(value)
        BY <3>3, <3>4, <4>1 DEF Strict
      <4>4. QED
        BY <4>2, <4>3
    <3>12. HasRanks(Estimated)
      BY EstimatesAreRanked
    <3>13. Holds(Estimated, value', top', maxKeep)
      BY <1>2, <1>3, <3>1, <3>2, <3>3, <3>11, <3>12, PushHolds
    <3>14. Holds(Estimated, value', paretoPool', poolKeep)
      BY <1>2, <1>3, <3>1, <3>2, <3>3, <3>11, <3>12, PushHolds
    <3>15. HeatInv'
      <4>1. /\ heatmap \in Seq(TileIds) /\ NoTwice(heatmap) /\ Items(heatmap) \subseteq TilesOf(value)
            /\ Len(heatmap) = IF Len(value) < heatmapMax THEN Len(value) ELSE heatmapMax
        BY <1>1 DEF HeatInv, SampleIsFair, NoTwice
      <4>2. t \notin Items(heatmap)
        BY <3>6, <4>1
      <4>3. heatmap' \in PushSample(heatmap, Len(value), t, heatmapMax)
        BY <3>1, <3>2
      <4>4. /\ heatmap' \in Seq(TileIds) /\ NoTwice(heatmap')
            /\ Items(heatmap') \subseteq Items(heatmap) \union {t}
            /\ Len(heatmap') = IF Len(value) + 1 < heatmapMax THEN Len(value) + 1 ELSE heatmapMax
        BY <1>3, <2>3, <3>3, <4>1, <4>2, <4>3, PushSampleFacts
      <4>5. Len(value') = Len(value) + 1
        BY <3>1, <3>3
      <4>6. Items(heatmap') \subseteq TilesOf(value')
        BY <3>5, <4>1, <4>4
      <4>7. SampleIsFair'
        BY <4>4, <4>5 DEF SampleIsFair, NoTwice
      <4>8. QED
        BY <4>4, <4>6, <4>7 DEF HeatInv
    <3>16. QED
      BY <2>5, <3>9, <3>10, <3>13, <3>14, <3>15 DEF SearchInv
  <2>8. QED
    BY <2>6, <2>7
<1>7. CASE FinishShape
  <2>1. /\ kept # {0} /\ shapeAt' = shapeAt + 1
        /\ found' = Append(found, [best |-> shapeAt, candidates |-> shapeAt, pareto |-> shapeAt])
        /\ kept' = {0} /\ estimated' = 0
        /\ value' = <<>> /\ top' = <<>> /\ paretoPool' = <<>> /\ heatmap' = <<>>
    BY <1>7 DEF FinishShape, searched
  <2>2. shapeAt \in ShapeIds
    BY <1>1, <2>1 DEF KeptInv
  <2>3. FoundInv'
    <3>1. /\ FoundInv /\ shapeAt \in ShapeIds /\ shapeAt' = shapeAt + 1
          /\ found' = Append(found, [best |-> shapeAt, candidates |-> shapeAt, pareto |-> shapeAt])
      BY <1>1, <2>1, <2>2
    <3>2. QED
      BY <3>1, ShapeIsFound
  <2>4. KeptInv'
    BY <1>3, <2>1 DEF KeptInv
  <2>5. ValueInv'
    BY <2>1, NothingEstimated DEF ValueInv
  <2>6. HeatInv'
    BY <1>3, <2>1, NothingEstimated DEF HeatInv, SampleIsFair
  <2>7. /\ Holds(Estimated, value', top', maxKeep)
        /\ Holds(Estimated, value', paretoPool', poolKeep)
    BY <1>3, <2>1, NothingHolds
  <2>8. QED
    BY <2>3, <2>4, <2>5, <2>6, <2>7 DEF SearchInv
<1>8. CASE UNCHANGED srvars
  <2>1. FoundInv' /\ KeptInv' /\ ValueInv' /\ HeatInv'
    BY <1>1, <1>8 DEF FoundInv, KeptInv, ValueInv, HeatInv, SampleIsFair, NamesAreOwn, srvars
  <2>2. /\ Holds(Estimated, value', top', maxKeep)
        /\ Holds(Estimated, value', paretoPool', poolKeep)
    BY <1>2, <1>8 DEF srvars
  <2>3. QED
    BY <2>1, <2>2 DEF SearchInv
<1>9. QED
  BY <1>4, <1>5, <1>6, <1>7, <1>8 DEF SearchNext

\* One of the items of a heap that is not empty is not worse than any other.
LEMMA BestIsThere ==
  ASSUME Items(top) # {}, \A a \in Items(top) : a.rank \in Nat
  PROVE  Best \in Items(top) /\ \A b \in Items(top) : ~Worse(Best, b)
<1> DEFINE ranks == {a.rank : a \in Items(top)}
<1>1. ranks # {} /\ ranks \in SUBSET Nat
  OBVIOUS
<1>2. PICK r \in ranks : \A q \in ranks : r <= q
  <2> HIDE DEF ranks
  <2>1. QED
    BY <1>1, LeastNumber
<1>3. PICK a \in Items(top) : a.rank = r
  BY <1>2
<1>4. \A b \in Items(top) : a.rank <= b.rank
  BY <1>2, <1>3
<1>5. ASSUME NEW b \in Items(top) PROVE ~Worse(a, b)
  <2>1. a.rank <= b.rank /\ a.rank \in Nat /\ b.rank \in Nat
    BY <1>4
  <2>2. QED
    BY <2>1 DEF Worse
<1>6. QED
  BY <1>3, <1>5 DEF Best

LEMMA HeapsAreSound ==
  ASSUME NEW h, NEW k \in Nat, value \in Seq(Estimated), Holds(Estimated, value, h, k)
  PROVE  KeepsBest(h, k) /\ Len(h) <= k
<1>1. /\ h \in Seq(Estimated) /\ IsHeap(h)
      /\ Len(h) = IF Len(value) < k THEN Len(value) ELSE k
      /\ \A a \in Items(h), b \in Items(value) : b \in Items(h) \/ Worse(b, a)
  BY DEF Holds
<1>2. \A i \in 1..Len(h) : ~Worse(h[i], h[1])
  BY <1>1, EstimatesAreRanked, RootIsWorst
<1>3. DOMAIN h = 1..Len(h)
  BY <1>1
<1>4. \A a \in Items(h), b \in Items(value) \ Items(h) : Worse(b, a)
  BY <1>1
<1>5. KeepsBest(h, k)
  BY <1>1, <1>2, <1>3, <1>4 DEF KeepsBest
<1>6. Len(h) <= k
  BY <1>1
<1>7. QED
  BY <1>5, <1>6

LEMMA SearchIsTyped == ASSUME SearchInv PROVE SearchTypeOK
<1>1. FoundInv /\ KeptInv /\ ValueInv /\ HeatInv
  BY DEF SearchInv
<1>2. Len(top) <= maxKeep /\ Len(paretoPool) <= poolKeep
  BY <1>1, HeapsAreSound, TileAssumption DEF SearchInv, ValueInv
<1>3. \A s \in DOMAIN found : \A p \in DOMAIN found[s] : found[s][p] \in ShapeIds
  <2>1. ASSUME NEW s \in DOMAIN found, NEW p \in DOMAIN found[s]
        PROVE  found[s][p] \in ShapeIds
    <3>1. found[s] \in Finished
      BY <1>1 DEF FoundInv
    <3>2. DOMAIN found[s] = {"best", "candidates", "pareto"}
      BY <3>1 DEF Finished
    <3>3. p = "best" \/ p = "candidates" \/ p = "pareto"
      BY <3>2
    <3>4. QED
      BY <3>1, <3>3 DEF Finished
  <2>2. QED
    BY <2>1
<1>4. Items(heatmap) \subseteq kept
  <2>1. Items(heatmap) \subseteq TilesOf(value)
    BY <1>1 DEF HeatInv
  <2>2. TilesOf(value) \subseteq kept
    BY <1>1, NothingEstimated DEF KeptInv
  <2>3. QED
    BY <2>1, <2>2
<1>5. QED
  BY <1>1, <1>2, <1>3, <1>4 DEF SearchTypeOK, FoundInv

\* What a search has found when it is through.
LEMMA SearchIsSound ==
  ASSUME SearchInv
  PROVE  HeapKeepsBest /\ BestIsBest /\ FrontIsFront /\ SampleIsFair /\ NamesAreOwn
<1>1. FoundInv /\ KeptInv /\ ValueInv /\ HeatInv
  BY DEF SearchInv
<1>2. maxKeep \in Nat /\ maxKeep # 0 /\ poolKeep \in Nat /\ maxKeep <= poolKeep /\ TileCount \in Nat
  BY TileAssumption
<1>3. value \in Seq(Estimated) /\ Len(value) \in Nat
  BY <1>1 DEF ValueInv
<1>4. Holds(Estimated, value, top, maxKeep) /\ Holds(Estimated, value, paretoPool, poolKeep)
  BY DEF SearchInv
<1>5. HeapKeepsBest
  BY <1>2, <1>3, <1>4, HeapsAreSound DEF HeapKeepsBest
<1>6. /\ top \in Seq(Estimated) /\ Items(top) \subseteq Items(value)
      /\ Len(top) = IF Len(value) < maxKeep THEN Len(value) ELSE maxKeep
      /\ \A a \in Items(top), b \in Items(value) : b \in Items(top) \/ Worse(b, a)
  BY <1>4 DEF Holds
<1>7. /\ paretoPool \in Seq(Estimated) /\ Items(paretoPool) \subseteq Items(value)
      /\ Len(paretoPool) = IF Len(value) < poolKeep THEN Len(value) ELSE poolKeep
      /\ Len(value) <= poolKeep => Items(paretoPool) = Items(value)
      /\ \A a \in Items(paretoPool), b \in Items(value) : b \in Items(paretoPool) \/ Worse(b, a)
  BY <1>4 DEF Holds
<1>8. \A v \in Items(value) : v.rank \in Nat
  BY <1>3, EstimatesAreRanked, ItemFacts
<1>9. ASSUME searched
      PROVE  /\ top # <<>> /\ Best \in Items(top)
             /\ \A v \in Items(value) : ~Worse(Best, v)
  <2>1. TilesOf(value) = kept /\ kept # {}
    <3>1. /\ kept # {} /\ kept \subseteq 1..TileCount /\ estimated = TileCount
          /\ TilesOf(value) = {t \in kept : t <= estimated}
      BY <1>1, <1>9 DEF KeptInv, searched, TileIds
    <3>2. \A t \in kept : t <= estimated
      BY <1>2, <3>1
    <3>3. QED
      BY <3>1, <3>2
  <2>2. Len(value) # 0
    <3>1. PICK v \in Items(value) : TRUE
      BY <2>1 DEF TilesOf
    <3>2. \E i \in 1..Len(value) : value[i] = v
      BY <1>3, ItemFacts
    <3>3. QED
      BY <3>2
  <2>3. 1 \in 1..Len(top) /\ top # <<>>
    BY <1>2, <1>3, <1>6, <2>2
  <2>4. Items(top) # {}
    BY <1>6, <2>3, ItemFacts
  <2>5. Best \in Items(top) /\ \A b \in Items(top) : ~Worse(Best, b)
    BY <1>6, <1>8, <2>4, BestIsThere
  <2>6. ASSUME NEW v \in Items(value) PROVE ~Worse(Best, v)
    <3>1. v.rank \in Nat /\ Best.rank \in Nat
      BY <1>6, <1>8, <2>5
    <3>2. CASE v \in Items(top)
      BY <2>5, <3>2
    <3>3. CASE Worse(v, Best)
      BY <3>1, <3>3 DEF Worse
    <3>4. QED
      BY <1>6, <2>5, <3>2, <3>3
  <2>7. QED
    BY <2>3, <2>5, <2>6
<1>10. BestIsBest
  BY <1>9 DEF BestIsBest
<1>11. ASSUME Len(value) <= poolKeep
       PROVE  MarkPareto(paretoPool) = {a \in Items(value) : \A b \in Items(value) : ~Dominates(b, a)}
  BY <1>7, <1>11 DEF MarkPareto
<1>12. ASSUME searched, \A b \in Items(value) : ~Dominates(b, Best)
       PROVE  Best \in MarkPareto(paretoPool)
  <2>1. Best \in Items(value) /\ Best \in Items(top) /\ \A v \in Items(value) : ~Worse(Best, v)
    BY <1>6, <1>9, <1>12
  <2>2. Best \in Items(paretoPool)
    <3>1. CASE Len(value) <= poolKeep
      BY <1>7, <2>1, <3>1
    <3>2. CASE ~(Len(value) <= poolKeep)
      <4>1. 1 \in 1..Len(paretoPool)
        BY <1>2, <1>3, <1>7, <3>2
      <4>2. paretoPool[1] \in Items(paretoPool) /\ paretoPool[1] \in Items(value)
        BY <1>7, <4>1, ItemFacts
      <4>3. QED
        BY <1>7, <2>1, <4>2
    <3>3. QED
      BY <3>1, <3>2
  <2>3. QED
    BY <1>7, <1>12, <2>2 DEF MarkPareto
<1>13. FrontIsFront
  BY <1>11, <1>12 DEF FrontIsFront
<1>14. QED
  BY <1>1, <1>5, <1>10, <1>13 DEF HeatInv, FoundInv

-----------------------------------------------------------------------------
(* The gate *)

LEMMA ScaleShape ==
  ASSUME NEW s \in ScaleEvidence
  PROVE  /\ s.state \in {"none", "failed", "ok"}
         /\ s.err \in Nat \cup {Unknown} /\ s.regret \in Nat \cup {Unknown}
         /\ s.state # "ok" => s.err = Unknown /\ s.regret = Unknown
<1>1. Errors \subseteq Nat /\ Regrets \subseteq Nat
  BY EvidenceAssumption
<1>2. CASE s \in {[state |-> x, err |-> Unknown, regret |-> Unknown] : x \in {"none", "failed"}}
  BY <1>2
<1>3. CASE s \in [state : {"ok"}, err : Errors \cup {Unknown}, regret : Regrets \cup {Unknown}]
  BY <1>1, <1>3
<1>4. QED
  BY <1>2, <1>3 DEF ScaleEvidence

LEMMA ScaleGrows ==
  ASSUME NEW s \in ScaleEvidence, NEW t \in ScaleEvidence, ScaleNoWorse(s, t)
  PROVE  /\ s.state = "ok" => t.state = "ok"
         /\ t.state = "failed" => s.state = "failed"
         /\ t.err = s.err \/ t.err \in 0..(IF s.err = Unknown THEN 35 ELSE s.err)
         /\ t.regret = s.regret \/ t.regret \in 0..(IF s.regret = Unknown THEN 115 ELSE s.regret)
<1>1. ToolOrder["failed"] = 1 /\ ToolOrder["none"] = 2 /\ ToolOrder["ok"] = 3
  BY DEF ToolOrder
<1>2. ToolOrder[s.state] <= ToolOrder[t.state]
  BY DEF ScaleNoWorse
<1>3. s.state \in {"none", "failed", "ok"} /\ t.state \in {"none", "failed", "ok"}
  BY ScaleShape
<1>4. /\ s.state = "ok" => t.state = "ok"
      /\ t.state = "failed" => s.state = "failed"
  BY <1>1, <1>2, <1>3
<1>5. QED
  BY <1>4 DEF ScaleNoWorse, NoWorse

LEMMA RankFacts ==
  /\ RankOf("blocked") = 1 /\ RankOf("validate-first") = 2
  /\ RankOf("needs-benchmark") = 3 /\ RankOf("ready") = 4
<1>1. /\ DOMAIN Verdicts = 1..4
      /\ Verdicts[1] = "blocked" /\ Verdicts[2] = "validate-first"
      /\ Verdicts[3] = "needs-benchmark" /\ Verdicts[4] = "ready"
  BY DEF Verdicts
<1>2. ASSUME NEW k \in 1..4
      PROVE  RankOf(Verdicts[k]) = k
  <2>1. \A i, j \in 1..4 : Verdicts[i] = Verdicts[j] => i = j
    BY <1>1
  <2>2. (CHOOSE i \in 1..4 : Verdicts[i] = Verdicts[k]) = k
    BY <2>1
  <2>3. QED
    BY <1>1, <2>2 DEF RankOf
<1>3. QED
  BY <1>1, <1>2

LEMMA CompileGrows ==
  ASSUME NEW i \in IreeEvidence, NEW j \in IreeEvidence, IreeNoWorse(i, j)
  PROVE  /\ i = "ok" => j = "ok"
         /\ RankOf(Compiled[i]) <= RankOf(Compiled[j])
         /\ Compiled[i] # "ready" /\ Compiled[j] # "ready"
<1>1. ToolOrder["failed"] = 1 /\ ToolOrder["none"] = 2 /\ ToolOrder["ok"] = 3
  BY DEF ToolOrder
<1>2. /\ Compiled["failed"] = "blocked" /\ Compiled["none"] = "validate-first"
      /\ Compiled["ok"] = "needs-benchmark"
  BY DEF Compiled
<1>3. i \in {"none", "failed", "ok"} /\ j \in {"none", "failed", "ok"}
  BY DEF IreeEvidence
<1>4. ToolOrder[i] <= ToolOrder[j]
  BY DEF IreeNoWorse
<1>5. QED
  BY <1>1, <1>2, <1>3, <1>4, RankFacts

\* The better the evidence, the more confidence.
LEMMA ConfidenceGrows ==
  ASSUME NEW e, IsEstimate(e), NEW i \in IreeEvidence, NEW j \in IreeEvidence,
         IreeNoWorse(i, j), NEW s \in ScaleEvidence, NEW t \in ScaleEvidence, ScaleNoWorse(s, t)
  PROVE  /\ AssessConfidence(e, s, i) \in 0..100 /\ AssessConfidence(e, t, j) \in 0..100
         /\ AssessConfidence(e, s, i) <= AssessConfidence(e, t, j)
<1> DEFINE external(x, y) == IF x.state = "ok" \/ y = "ok" THEN 12 ELSE -12
           ratio(x) == CASE x.err = Unknown -> 0 [] x.err \in 0..15 -> 10
                         [] x.err \in 16..35 -> 3 [] OTHER -> -12
           bonus == IF e.suite >= 20 THEN 10 ELSE IF e.suite > 0 THEN 3 ELSE -8
           padded == IF Mean([o \in DOMAIN e.ops |-> e.ops[o].padding]) > 35 THEN -12 ELSE 0
           idle == IF e.underused THEN -10 ELSE 0
           sum(x, y) == 75 + external(x, y) + ratio(x) + bonus + padded + idle - e.warned
<1>1. \A x, y : AssessConfidence(e, x, y) = Clamp(sum(x, y))
  BY DEF AssessConfidence
<1>2. bonus \in Int /\ padded \in Int /\ idle \in Int /\ e.warned \in Int
  <2> HIDE DEF padded
  <2>1. padded \in Int
    BY DEF padded
  <2>2. e.warned \in Int
    BY DEF IsEstimate
  <2>3. QED
    BY <2>1, <2>2
<1>3. /\ external(s, i) \in Int /\ external(t, j) \in Int /\ external(s, i) <= external(t, j)
  BY ScaleGrows, CompileGrows
<1>4. \A x \in {s, t} : x.err \in Nat \cup {Unknown}
  BY ScaleShape
<1>5. t.err = s.err \/ t.err \in 0..(IF s.err = Unknown THEN 35 ELSE s.err)
  BY ScaleGrows
<1>6. \A x \in {s, t} : /\ x.err = Unknown => ratio(x) = 0
                        /\ x.err # Unknown /\ x.err <= 15 => ratio(x) = 10
                        /\ x.err # Unknown /\ x.err > 15 /\ x.err <= 35 => ratio(x) = 3
                        /\ x.err # Unknown /\ x.err > 35 => ratio(x) = -12
  BY <1>4 DEF Unknown
<1>7. ratio(s) \in Int /\ ratio(t) \in Int /\ ratio(s) <= ratio(t)
  <2> HIDE DEF ratio
  <2> QED
    BY <1>4, <1>5, <1>6 DEF Unknown
<1> HIDE DEF external, ratio, bonus, padded, idle
<1>8. sum(s, i) \in Int /\ sum(t, j) \in Int /\ sum(s, i) <= sum(t, j)
  BY <1>2, <1>3, <1>7
<1> HIDE DEF sum
<1>9. QED
  BY <1>1, <1>8 DEF Clamp, AtLeast, AtMost

LEMMA LeastOfMore ==
  ASSUME NEW a \in Nat, NEW b \in Nat, a <= b, NEW K \in SUBSET Nat
  PROVE  Min({a} \cup K) \in Nat /\ Min({b} \cup K) \in Nat /\ Min({a} \cup K) <= Min({b} \cup K)
<1>1. ASSUME NEW c \in Nat
      PROVE  Min({c} \cup K) \in {c} \cup K /\ \A y \in {c} \cup K : Min({c} \cup K) <= y
  <2>1. {c} \cup K \in SUBSET Nat /\ {c} \cup K # {}
    OBVIOUS
  <2>2. \E x \in {c} \cup K : \A y \in {c} \cup K : x <= y
    BY <2>1, LeastNumber
  <2>3. QED
    BY <2>2 DEF Min
<1> DEFINE p == Min({a} \cup K)
           q == Min({b} \cup K)
<1>2. p \in {a} \cup K /\ (\A y \in {a} \cup K : p <= y) /\ q \in {b} \cup K
  BY <1>1
<1> HIDE DEF p, q
<1>3. p \in Nat /\ q \in Nat /\ p <= q
  BY <1>2
<1>4. QED
  BY <1>3 DEF p, q

\* The operators of an estimate can be counted.
LEMMA OperatorsFinite ==
  ASSUME NEW e, IsEstimate(e)
  PROVE  /\ e.ops \in Seq(OperatorRisks) /\ Len(e.ops) \in Nat \ {0} /\ DOMAIN e.ops = 1..Len(e.ops)
         /\ IsFiniteSet(DOMAIN e.ops)
         /\ \A S \in SUBSET (DOMAIN e.ops) : IsFiniteSet(S) /\ Cardinality(S) \in Nat
<1>1. e.ops \in Seq(OperatorRisks) /\ e.ops # <<>>
  BY DEF IsEstimate
<1>2. Len(e.ops) \in Nat \ {0} /\ DOMAIN e.ops = 1..Len(e.ops)
  BY <1>1
<1>3. IsFiniteSet(DOMAIN e.ops)
  BY <1>2, FS_Interval
<1>4. \A S \in SUBSET (DOMAIN e.ops) : IsFiniteSet(S)
  BY <1>3, FS_Subset
<1>5. \A S \in SUBSET (DOMAIN e.ops) : Cardinality(S) \in Nat
  BY <1>4, FS_CardinalityType
<1>6. QED
  BY <1>1, <1>2, <1>3, <1>4, <1>5

LEMMA HardwareScoreGrows ==
  ASSUME NEW e, IsEstimate(e), NEW i \in IreeEvidence, NEW j \in IreeEvidence,
         IreeNoWorse(i, j), NEW s \in ScaleEvidence, NEW t \in ScaleEvidence, ScaleNoWorse(s, t)
  PROVE  /\ HardwareScore(e, s, i, TRUE) \in Int /\ HardwareScore(e, t, j, TRUE) \in Int
         /\ HardwareScore(e, s, i, TRUE) <= HardwareScore(e, t, j, TRUE)
<1> DEFINE known == {e.ops[o].conf : o \in DOMAIN e.ops} \ {Unknown}
           worth(x) == CASE x.state = "ok" /\ x.err # Unknown ->
                                 IF x.err <= 15 THEN 14 ELSE IF x.err <= 35 THEN 2 ELSE -24
                            [] x.state = "failed" -> -35
                            [] OTHER -> -16
           risky == IF TRUE /\ MaxRisk(e.ops) >= 6600
                    THEN AtMost(18, 8 + 3 * HighRisks(e.ops)) ELSE 0
           idle == IF e.underused THEN 8 ELSE 0
           padded == IF Mean([o \in DOMAIN e.ops |-> e.ops[o].padding]) > 35 THEN 8 ELSE 0
           trust(x, y) == Min({AssessConfidence(e, x, y)} \cup known)
<1>2. known \in SUBSET Nat
  <2>1. \A o \in DOMAIN e.ops : e.ops[o].conf \in Nat \cup {Unknown}
    <3> SUFFICES ASSUME NEW o \in DOMAIN e.ops
                 PROVE  e.ops[o].conf \in Nat \cup {Unknown}
      OBVIOUS
    <3>1. e.ops \in Seq(OperatorRisks)
      BY OperatorsFinite
    <3>2. e.ops[o] \in OperatorRisks
      BY <3>1
    <3>3. QED
      BY <3>2 DEF OperatorRisks
  <2>2. QED
    BY <2>1
<1>3. trust(s, i) \in Nat /\ trust(t, j) \in Nat /\ trust(s, i) <= trust(t, j)
  <2> HIDE DEF known
  <2>1. AssessConfidence(e, s, i) \in Nat /\ AssessConfidence(e, t, j) \in Nat
        /\ AssessConfidence(e, s, i) <= AssessConfidence(e, t, j)
    BY ConfidenceGrows
  <2>2. QED
    BY <1>2, <2>1, LeastOfMore
<1>4. worth(s) \in Int /\ worth(t) \in Int /\ worth(s) <= worth(t)
  <2>1. /\ s.state \in {"none", "failed", "ok"} /\ t.state \in {"none", "failed", "ok"}
        /\ s.err \in Nat \cup {Unknown} /\ t.err \in Nat \cup {Unknown}
        /\ s.state # "ok" => s.err = Unknown
    BY ScaleShape
  <2>2. \A x \in {s, t} :
          /\ x.state = "ok" /\ x.err # Unknown /\ x.err <= 15 => worth(x) = 14
          /\ x.state = "ok" /\ x.err # Unknown /\ x.err > 15 /\ x.err <= 35 => worth(x) = 2
          /\ x.state = "ok" /\ x.err # Unknown /\ x.err > 35 => worth(x) = -24
          /\ x.state = "failed" => worth(x) = -35
          /\ x.state = "none" \/ (x.state = "ok" /\ x.err = Unknown) => worth(x) = -16
    BY <2>1 DEF Unknown
  <2> HIDE DEF worth
  <2>3. /\ s.state = "ok" => t.state = "ok"
        /\ t.state = "failed" => s.state = "failed"
        /\ t.err = s.err \/ t.err \in 0..(IF s.err = Unknown THEN 35 ELSE s.err)
    BY ScaleGrows
  <2>4. QED
    BY <2>1, <2>2, <2>3 DEF Unknown
<1>5. risky \in Int /\ idle \in Int /\ padded \in Int
  <2>1. HighRisks(e.ops) \in Nat
    BY OperatorsFinite DEF HighRisks
  <2>2. AtMost(18, 8 + 3 * HighRisks(e.ops)) \in Int
    BY <2>1 DEF AtMost
  <2>3. risky \in Int
    BY <2>2
  <2>4. padded \in Int
    OBVIOUS
  <2>5. QED
    BY <2>3, <2>4
<1>6. /\ HardwareScore(e, s, i, TRUE) = trust(s, i) + worth(s) - idle - padded - risky
      /\ HardwareScore(e, t, j, TRUE) = trust(t, j) + worth(t) - idle - padded - risky
  BY DEF HardwareScore
<1> HIDE DEF known, trust, worth, risky, idle, padded
<1>7. /\ trust(s, i) + worth(s) - idle - padded - risky \in Int
      /\ trust(t, j) + worth(t) - idle - padded - risky \in Int
      /\ trust(s, i) + worth(s) - idle - padded - risky <= trust(t, j) + worth(t) - idle - padded - risky
  BY <1>3, <1>4, <1>5
<1>8. QED
  BY <1>6, <1>7

\* The better the evidence, the better the verdict on the hardware ...
LEMMA HardwareGrows ==
  ASSUME NEW e, IsEstimate(e), NEW i \in IreeEvidence, NEW j \in IreeEvidence,
         IreeNoWorse(i, j), NEW s \in ScaleEvidence, NEW t \in ScaleEvidence, ScaleNoWorse(s, t)
  PROVE  RankOf(Hardware(e, s, i, TRUE)) <= RankOf(Hardware(e, t, j, TRUE))
<1> DEFINE score(x, y) == HardwareScore(e, x, y, TRUE)
           hasError(x) == x.state = "ok" /\ x.err # Unknown
           risky == TRUE /\ MaxRisk(e.ops) >= 7800
           ready(x, y) == hasError(x) /\ x.err <= 20 /\ score(x, y) >= 72 /\ ~risky
           first(x, y) == score(x, y) < 45 \/ (hasError(x) /\ x.err > 35)
<1>1. \A x, y : Hardware(e, x, y, TRUE) =
               IF x.state = "failed" THEN "blocked" ELSE IF ready(x, y) THEN "ready"
               ELSE IF first(x, y) THEN "validate-first" ELSE "needs-benchmark"
  BY DEF Hardware
<1>2. score(s, i) \in Int /\ score(t, j) \in Int /\ score(s, i) <= score(t, j)
  BY HardwareScoreGrows
<1>3. /\ s.state \in {"none", "failed", "ok"} /\ t.state \in {"none", "failed", "ok"}
      /\ s.err \in Nat \cup {Unknown} /\ t.err \in Nat \cup {Unknown}
      /\ s.state # "ok" => s.err = Unknown
  BY ScaleShape
<1>4. /\ s.state = "ok" => t.state = "ok"
      /\ t.state = "failed" => s.state = "failed"
      /\ t.err = s.err \/ t.err \in 0..(IF s.err = Unknown THEN 35 ELSE s.err)
  BY ScaleGrows
<1> HIDE DEF score, risky
<1>5. ready(s, i) => ready(t, j)
  BY <1>2, <1>3, <1>4 DEF Unknown
<1>6. first(t, j) /\ s.state # "failed" => first(s, i)
  BY <1>2, <1>3, <1>4 DEF Unknown
<1> DEFINE verdict(x, y) == IF x.state = "failed" THEN "blocked" ELSE IF ready(x, y) THEN "ready"
                         ELSE IF first(x, y) THEN "validate-first" ELSE "needs-benchmark"
<1>7. Hardware(e, s, i, TRUE) = verdict(s, i) /\ Hardware(e, t, j, TRUE) = verdict(t, j)
  BY <1>1
<1> HIDE DEF ready, first
<1>8. RankOf(verdict(s, i)) <= RankOf(verdict(t, j))
  BY <1>4, <1>5, <1>6, RankFacts
<1>9. QED
  BY <1>7, <1>8

\* ... and the verdict on the tiling, and the one on the options of the compiler.
LEMMA TilingGrows ==
  ASSUME NEW e, IsEstimate(e), NEW i \in IreeEvidence, NEW j \in IreeEvidence,
         IreeNoWorse(i, j), NEW s \in ScaleEvidence, NEW t \in ScaleEvidence, ScaleNoWorse(s, t)
  PROVE  /\ RankOf(Tiling(e, s, i)) <= RankOf(Tiling(e, t, j))
         /\ Tiling(e, s, i) = "ready" => Tiling(e, t, j) = "ready"
<1> DEFINE padded == Cardinality({o \in DOMAIN e.ops : e.ops[o].padding > 35})
           worth(x) == CASE x.regret = Unknown -> -14 [] x.regret \in 0..105 -> 16
                            [] x.regret \in 106..115 -> 4 [] OTHER -> -22
           score(x, y) == AssessConfidence(e, x, y) + worth(x) - AtMost(16, 4 * padded)
           ready(x, y) == x.regret # Unknown /\ x.regret <= 108 /\ score(x, y) >= 68
           first(x, y) == score(x, y) < 44 \/ x.regret > 120
<1>1. \A x, y : Tiling(e, x, y) = IF ready(x, y) THEN "ready"
               ELSE IF first(x, y) THEN "validate-first" ELSE "needs-benchmark"
  BY DEF Tiling
<1>2. s.regret \in Nat \cup {Unknown} /\ t.regret \in Nat \cup {Unknown}
  BY ScaleShape
<1>3. t.regret = s.regret \/ t.regret \in 0..(IF s.regret = Unknown THEN 115 ELSE s.regret)
  BY ScaleGrows
<1>4. worth(s) \in Int /\ worth(t) \in Int /\ worth(s) <= worth(t)
  BY <1>2, <1>3 DEF Unknown
<1>5. AtMost(16, 4 * padded) \in Int
  <2>1. padded \in Nat
    BY OperatorsFinite
  <2>2. QED
    BY <2>1 DEF AtMost
<1>6. /\ AssessConfidence(e, s, i) \in Int /\ AssessConfidence(e, t, j) \in Int
      /\ AssessConfidence(e, s, i) <= AssessConfidence(e, t, j)
  BY ConfidenceGrows
<1> HIDE DEF worth, padded
<1>7. score(s, i) \in Int /\ score(t, j) \in Int /\ score(s, i) <= score(t, j)
  BY <1>4, <1>5, <1>6
<1> HIDE DEF score
<1>8. (ready(s, i) => ready(t, j)) /\ (first(t, j) => first(s, i))
  BY <1>2, <1>3, <1>7 DEF Unknown
<1> HIDE DEF ready, first
<1>9. QED
  BY <1>1, <1>8, RankFacts

LEMMA OptionsGrow ==
  ASSUME NEW i \in IreeEvidence, NEW j \in IreeEvidence, IreeNoWorse(i, j),
         NEW old, NEW new, old = "ready" => new = "ready"
  PROVE  RankOf(IreeOptions(i, NoRuntime, old)) <= RankOf(IreeOptions(j, NoRuntime, new))
<1>1. \A x : Benchmarked(NoRuntime, x) = x
  BY DEF Benchmarked, NoRuntime
<1>2. /\ Compiled[i] # "ready" /\ Compiled[j] # "ready"
      /\ RankOf(Compiled[i]) <= RankOf(Compiled[j])
  BY CompileGrows
<1>3. /\ IreeOptions(i, NoRuntime, old) = Compiled[i]
      /\ IreeOptions(j, NoRuntime, new) = Compiled[j]
  BY <1>1, <1>2 DEF IreeOptions
<1>4. QED
  BY <1>2, <1>3

\* The gate of a better result judges no area worse.
LEMMA GateGrows ==
  ASSUME NEW e, IsEstimate(e), NEW i \in IreeEvidence, NEW j \in IreeEvidence,
         IreeNoWorse(i, j), NEW s \in ScaleEvidence, NEW t \in ScaleEvidence,
         ScaleNoWorse(s, t), NEW a \in Areas
  PROVE  RankOf(Gate(e, s, i, NoRuntime, TRUE)[a]) <= RankOf(Gate(e, t, j, NoRuntime, TRUE)[a])
<1>1. \A x, y :
        /\ Gate(e, x, y, NoRuntime, TRUE)["hardware-design"] = Hardware(e, x, y, TRUE)
        /\ Gate(e, x, y, NoRuntime, TRUE)["tiling-strategy"] = Tiling(e, x, y)
        /\ Gate(e, x, y, NoRuntime, TRUE)["iree-options"]
             = IreeOptions(y, NoRuntime, Tiling(e, x, y))
  BY DEF Gate, Areas
<1>2. RankOf(Hardware(e, s, i, TRUE)) <= RankOf(Hardware(e, t, j, TRUE))
  BY HardwareGrows
<1>3. /\ RankOf(Tiling(e, s, i)) <= RankOf(Tiling(e, t, j))
      /\ Tiling(e, s, i) = "ready" => Tiling(e, t, j) = "ready"
  BY TilingGrows
<1>4. RankOf(IreeOptions(i, NoRuntime, Tiling(e, s, i)))
        <= RankOf(IreeOptions(j, NoRuntime, Tiling(e, t, j)))
  BY <1>3, OptionsGrow
<1>5. CASE a = "hardware-design"
  BY <1>1, <1>2, <1>5
<1>6. CASE a = "tiling-strategy"
  BY <1>1, <1>3, <1>6
<1>7. CASE a = "iree-options"
  BY <1>1, <1>4, <1>7
<1>8. QED
  BY <1>5, <1>6, <1>7 DEF Areas

-----------------------------------------------------------------------------
(* The plan *)

NamesInUse == {TaskNames[i] : i \in 1..7}
TaskKinds == {"scalesim-full-layer", "scalesim-top-k", "environment-doctor", "iree-runtime-benchmark",
          "estimator-suite-feedback"}
PurposeSets == SUBSET Areas
Tasks == [name : NamesInUse, op : Nat, kind : TaskKinds, score : Int,
          blocks : PurposeSets]
PlaceOf(t) == CHOOSE i \in DOMAIN TaskNames : TaskNames[i] = t.name
OthersOf(e, g, s, i) == RiskTasks(e.ops) \cup ScaleTasks(g, s) \cup TopKTasks(g) \cup IreeTasks(i)
PlannedOf(e, g, s, i) == OthersOf(e, g, s, i) \cup FeedbackTasks(g, s, OthersOf(e, g, s, i))

\* A sequence in which nothing is there twice.
NothingTwice(s) == \A i, j \in DOMAIN s : s[i] = s[j] => i = j

LEMMA PlaceFacts ==
  ASSUME NEW t \in Tasks, NEW u \in Tasks
  PROVE  /\ PlaceOf(t) \in 1..7
         /\ PlaceOf(t) = PlaceOf(u) => t.name = u.name
         /\ Comes(t, u) <=> \/ t.score > u.score
                            \/ t.score = u.score /\ PlaceOf(t) < PlaceOf(u)
                            \/ t.score = u.score /\ PlaceOf(t) = PlaceOf(u) /\ t.op < u.op
<1>1. DOMAIN TaskNames = 1..7
  BY DEF TaskNames
<1>2. ASSUME NEW x \in Tasks
      PROVE  PlaceOf(x) \in 1..7 /\ TaskNames[PlaceOf(x)] = x.name
  <2>1. \E k \in 1..7 : TaskNames[k] = x.name
    BY DEF Tasks, NamesInUse
  <2>2. QED
    BY <1>1, <2>1 DEF PlaceOf
<1>3. PlaceOf(t) = PlaceOf(u) => t.name = u.name
  BY <1>2
<1>4. Comes(t, u) <=> \/ t.score > u.score
                      \/ t.score = u.score /\ PlaceOf(t) < PlaceOf(u)
                      \/ t.score = u.score /\ PlaceOf(t) = PlaceOf(u) /\ t.op < u.op
  BY DEF Comes, PlaceOf
<1>5. QED
  BY <1>2, <1>3, <1>4

LEMMA SeverityFacts ==
  ASSUME NEW o \in OperatorRisks
  PROVE  /\ DOMAIN Severity(o) = {"confidence", "spill", "pressure", "padding"}
         /\ Severity(o).confidence \in Nat /\ Severity(o).spill \in Nat
         /\ Severity(o).pressure \in Nat /\ Severity(o).padding \in Nat
<1> DEFINE seen(x) == IF x > 5 THEN x ELSE 0
           c == IF o.conf = Unknown THEN 0 ELSE seen(100 - o.conf)
           p == IF o.padding > 18 THEN AtMost(100, (o.padding * 100) \div 65) ELSE 0
<1>1. Severity(o) = [confidence |-> c, spill |-> seen(o.spill), pressure |-> seen(o.pressure),
                     padding |-> p]
  BY DEF Severity
<1>2. /\ o.conf \in Nat \cup {Unknown} /\ o.spill \in Nat /\ o.pressure \in Nat
      /\ o.padding \in Nat
  BY DEF OperatorRisks
<1>3. c \in Nat /\ seen(o.spill) \in Nat /\ seen(o.pressure) \in Nat
  BY <1>2 DEF Unknown
<1>4. p \in Nat
  <2>1. o.padding * 100 \in Nat
    BY <1>2
  <2>2. (o.padding * 100) \div 65 \in Nat
    BY <2>1
  <2>3. QED
    BY <2>2 DEF AtMost
<1> HIDE DEF c, p, seen
<1>5. QED
  BY <1>1, <1>3, <1>4

LEMMA RiskScoreIsNumber ==
  ASSUME NEW o \in OperatorRisks
  PROVE  RiskScore(o) \in Nat
<1> DEFINE s == Severity(o)
           shown == {k \in DOMAIN s : s[k] > 0}
           sum == s.confidence + s.spill + s.padding + s.pressure
           each == {s[k] : k \in DOMAIN s}
           all == {s[k] : k \in shown}
           top3 == s.confidence + s.spill + s.padding + s.pressure - Min(each)
<1>1. /\ DOMAIN s = {"confidence", "spill", "pressure", "padding"}
      /\ s.confidence \in Nat /\ s.spill \in Nat /\ s.pressure \in Nat /\ s.padding \in Nat
  BY SeverityFacts
<1>2. RiskScore(o) = IF shown = {} THEN 0
                     ELSE 65 * Max(all) + (35 * top3) \div AtMost(3, Cardinality(shown))
  BY DEF RiskScore
<1> HIDE DEF s
<1>3. sum \in Nat /\ \A k \in DOMAIN s : s[k] \in 0..sum
  BY <1>1
<1>4. top3 \in Nat
  <2>1. each \in SUBSET (0..sum) /\ each # {}
    BY <1>1, <1>3
  <2>2. each \in SUBSET Nat
    BY <1>3, <2>1
  <2>3. PICK x \in each : \A y \in each : x <= y
    BY <2>1, <2>2, LeastNumber
  <2>4. Min(each) \in each
    <3> HIDE DEF each
    <3> QED
      BY <2>3 DEF Min
  <2>5. Min(each) \in 0..sum /\ sum \in Nat
    BY <1>3, <2>1, <2>4
  <2> HIDE DEF each
  <2>6. QED
    BY <1>1, <2>5
<1>5. ASSUME shown # {}
      PROVE  Max(all) \in Nat
  <2>1. all \in SUBSET (0..sum) /\ all # {}
    BY <1>3, <1>5
  <2>2. \E x \in all : \A y \in all : y <= x
    BY <1>3, <2>1, GreatestNumber
  <2>3. PICK x \in all : \A y \in all : y <= x
    BY <2>2
  <2>4. \A y \in all : x >= y
    BY <1>3, <2>1, <2>3
  <2>5. Max(all) \in all
    <3> HIDE DEF all
    <3> QED
      BY <2>4 DEF Max
  <2>6. QED
    BY <1>3, <2>1, <2>5
<1>6. ASSUME shown # {}
      PROVE  AtMost(3, Cardinality(shown)) \in Nat \ {0}
  <2>1. IsFiniteSet(DOMAIN s)
    <3>1. IsFiniteSet({"confidence"})
      BY FS_Singleton
    <3>2. IsFiniteSet({"confidence"} \cup {"spill"})
      BY <3>1, FS_AddElement
    <3>3. IsFiniteSet(({"confidence"} \cup {"spill"}) \cup {"pressure"})
      BY <3>2, FS_AddElement
    <3>4. IsFiniteSet((({"confidence"} \cup {"spill"}) \cup {"pressure"}) \cup {"padding"})
      BY <3>3, FS_AddElement
    <3>5. (({"confidence"} \cup {"spill"}) \cup {"pressure"}) \cup {"padding"} = DOMAIN s
      BY <1>1
    <3>6. QED
      BY <3>4, <3>5
  <2>2. shown \in SUBSET (DOMAIN s)
    OBVIOUS
  <2>3. IsFiniteSet(shown)
    BY <2>1, <2>2, FS_Subset
  <2>4. Cardinality(shown) \in Nat \ {0}
    BY <1>6, <2>3, FS_CardinalityType, FS_EmptySet
  <2>5. QED
    BY <2>4 DEF AtMost
<1> HIDE DEF shown, all, top3
<1>7. ASSUME shown # {}
      PROVE  RiskScore(o) \in Nat
  <2>1. PICK n \in Nat \ {0} : n = AtMost(3, Cardinality(shown))
    BY <1>6, <1>7
  <2>2. (35 * top3) \in Nat
    BY <1>4
  <2>3. (35 * top3) \div n \in Nat
    BY <2>2
  <2>4. Max(all) \in Nat
    BY <1>5, <1>7
  <2>5. QED
    BY <1>2, <1>7, <2>1, <2>3, <2>4
<1>8. QED
  BY <1>2, <1>7

LEMMA NamesOfTasks ==
  /\ "fix-iree-compile" \in NamesInUse
  /\ "review-feedback" \in NamesInUse
  /\ "run-iree-runtime" \in NamesInUse
  /\ "run-scalesim-full-layer" \in NamesInUse
  /\ "run-scalesim-top-k" \in NamesInUse
  /\ "scalesim-full-layer-op" \in NamesInUse
  /\ "scalesim-top-k-op" \in NamesInUse
<1>1. /\ TaskNames[1] = "fix-iree-compile" /\ TaskNames[2] = "review-feedback"
      /\ TaskNames[3] = "run-iree-runtime" /\ TaskNames[4] = "run-scalesim-full-layer"
      /\ TaskNames[5] = "run-scalesim-top-k" /\ TaskNames[6] = "scalesim-full-layer-op"
      /\ TaskNames[7] = "scalesim-top-k-op"
  BY DEF TaskNames
<1>2. \A k \in 1..7 : TaskNames[k] \in NamesInUse
  BY DEF NamesInUse
<1>3. QED
  BY <1>1, <1>2

LEMMA BlocksOfTasks ==
  /\ {"hardware-design"} \in PurposeSets /\ TilePurposes \in PurposeSets
  /\ {"iree-options"} \in PurposeSets /\ {} \in PurposeSets
BY DEF Areas, TilePurposes, PurposeSets

\* The tasks of the risky operators: one of each kind for an operator.
LEMMA RiskTaskFacts ==
  ASSUME NEW e, IsEstimate(e)
  PROVE  /\ RiskTasks(e.ops) \in SUBSET Tasks /\ IsFiniteSet(RiskTasks(e.ops))
         /\ \A t \in RiskTasks(e.ops) :
              t.op # 0 /\ t.name \in {"scalesim-full-layer-op", "scalesim-top-k-op"}
         /\ \A t, u \in RiskTasks(e.ops) : t.name = u.name /\ t.op = u.op => t = u
<1> DEFINE ops == e.ops
           full(o) == Task("scalesim-full-layer-op", o, "scalesim-full-layer",
                           AtLeast(RiskScore(ops[o]), 100 * FullSeverity(ops[o])), {"hardware-design"})
           tiled(o) == Task("scalesim-top-k-op", o, "scalesim-top-k",
                          AtLeast(100 * TileSeverity(ops[o]), (85 * RiskScore(ops[o])) \div 100),
                          TilePurposes)
           D == {o \in Riskiest(ops) : RiskScore(ops[o]) >= 6600 \/ FullSeverity(ops[o]) >= 28}
           E == {o \in Riskiest(ops) : TileSeverity(ops[o]) >= 26 \/ Severity(ops[o]).padding >= 18}
           FT == {full(o) : o \in D}
           TT == {tiled(o) : o \in E}
<1>1. RiskTasks(e.ops) = FT \cup TT
  BY DEF RiskTasks
<1>2. /\ DOMAIN ops \subseteq Nat \ {0} /\ IsFiniteSet(D) /\ IsFiniteSet(E)
      /\ D \subseteq DOMAIN ops /\ E \subseteq DOMAIN ops
      /\ \A o \in DOMAIN ops : ops[o] \in OperatorRisks
  <2>1. ops \in Seq(OperatorRisks) /\ DOMAIN ops = 1..Len(ops) /\ Len(ops) \in Nat
    BY OperatorsFinite
  <2>2. Riskiest(ops) \in SUBSET (DOMAIN ops)
    BY DEF Riskiest
  <2>3. D \in SUBSET (DOMAIN ops) /\ E \in SUBSET (DOMAIN ops)
    BY <2>2
  <2>4. IsFiniteSet(D) /\ IsFiniteSet(E)
    BY <2>3, OperatorsFinite
  <2>5. QED
    BY <2>1, <2>3, <2>4
<1>4. ASSUME NEW o \in DOMAIN ops
      PROVE  full(o) \in Tasks /\ tiled(o) \in Tasks
  <2>1. /\ RiskScore(ops[o]) \in Nat
        /\ Severity(ops[o]).confidence \in Nat /\ Severity(ops[o]).spill \in Nat
        /\ Severity(ops[o]).pressure \in Nat /\ Severity(ops[o]).padding \in Nat
    BY <1>2, RiskScoreIsNumber, SeverityFacts
  <2>2. FullSeverity(ops[o]) \in Nat /\ TileSeverity(ops[o]) \in Nat
    BY <2>1 DEF FullSeverity, TileSeverity, AtLeast
  <2>3. AtLeast(RiskScore(ops[o]), 100 * FullSeverity(ops[o])) \in Int
    BY <2>1, <2>2 DEF AtLeast
  <2>4. PICK n \in Nat : n = RiskScore(ops[o])
    BY <2>1
  <2>5. (85 * n) \div 100 \in Int
    OBVIOUS
  <2>6. AtLeast(100 * TileSeverity(ops[o]), (85 * RiskScore(ops[o])) \div 100) \in Int
    BY <2>2, <2>4, <2>5 DEF AtLeast
  <2>7. o \in Nat
    BY <1>2
  <2>8. full(o) \in Tasks
    BY <2>3, <2>7, NamesOfTasks, BlocksOfTasks DEF Task, Tasks, TaskKinds
  <2>9. tiled(o) \in Tasks
    BY <2>6, <2>7, NamesOfTasks, BlocksOfTasks DEF Task, Tasks, TaskKinds
  <2>10. QED
    BY <2>8, <2>9
<1>5. /\ \A o : full(o).name = "scalesim-full-layer-op" /\ full(o).op = o
      /\ \A o : tiled(o).name = "scalesim-top-k-op" /\ tiled(o).op = o
  BY DEF Task
<1>6. IsFiniteSet(FT) /\ IsFiniteSet(TT)
  <2> DEFINE f == [o \in D |-> full(o)]
             g == [o \in E |-> tiled(o)]
  <2>1. f \in [D -> Tasks] /\ g \in [E -> Tasks]
    BY <1>2, <1>4
  <2>2. FT = {f[o] : o \in D} /\ TT = {g[o] : o \in E}
    <3> HIDE DEF D, E, full, tiled
    <3>1. QED
      OBVIOUS
  <2> HIDE DEF D, E, f, g, FT, TT
  <2>3. IsFiniteSet({f[o] : o \in D})
    <3>1. IsFiniteSet(D) /\ f \in [D -> Tasks]
      BY <1>2, <2>1
    <3>2. QED
      BY <3>1, ImageCount
  <2>4. IsFiniteSet({g[o] : o \in E})
    <3>1. IsFiniteSet(E) /\ g \in [E -> Tasks]
      BY <1>2, <2>1
    <3>2. QED
      BY <3>1, ImageCount
  <2>5. QED
    BY <2>2, <2>3, <2>4
<1> HIDE DEF full, tiled
<1>7. /\ \A t \in FT : \E o \in DOMAIN ops : t = full(o)
      /\ \A t \in TT : \E o \in DOMAIN ops : t = tiled(o)
  BY <1>2
<1> HIDE DEF FT, TT
<1>8. IsFiniteSet(FT \cup TT)
  BY <1>6, FS_Union
<1>9. FT \cup TT \in SUBSET Tasks
  BY <1>4, <1>7
<1>10. \A t \in FT \cup TT :
         t.op # 0 /\ t.name \in {"scalesim-full-layer-op", "scalesim-top-k-op"}
  BY <1>2, <1>5, <1>7
<1>11. ASSUME NEW t \in FT \cup TT, NEW u \in FT \cup TT, t.name = u.name, t.op = u.op
       PROVE  t = u
  <2>1. PICK o \in DOMAIN ops : t = full(o) \/ t = tiled(o)
    BY <1>7
  <2>2. PICK p \in DOMAIN ops : u = full(p) \/ u = tiled(p)
    BY <1>7
  <2>3. "scalesim-full-layer-op" # "scalesim-top-k-op"
    OBVIOUS
  <2>4. QED
    BY <1>5, <1>11, <2>1, <2>2, <2>3
<1>12. QED
  BY <1>1, <1>8, <1>9, <1>10, <1>11

\* The tasks of a plan are finitely many, and told apart by their names and operators.
LEMMA PlannedFacts ==
  ASSUME NEW e, IsEstimate(e), NEW g, NEW s, NEW i
  PROVE  /\ PlannedOf(e, g, s, i) \in SUBSET Tasks /\ IsFiniteSet(PlannedOf(e, g, s, i))
         /\ \A t, u \in PlannedOf(e, g, s, i) : t.name = u.name /\ t.op = u.op => t = u
<1> DEFINE R == RiskTasks(e.ops)
           A == ScaleTasks(g, s)
           B == TopKTasks(g)
           C == IreeTasks(i)
           F == FeedbackTasks(g, s, OthersOf(e, g, s, i))
           S == PlannedOf(e, g, s, i)
<1>1. S = R \cup A \cup B \cup C \cup F
  BY DEF PlannedOf, OthersOf
<1>6. A = {} \/ \E t \in Tasks : A = {t} /\ t.name = "run-scalesim-full-layer" /\ t.op = 0
  <2>1. Task("run-scalesim-full-layer", 0, "environment-doctor", 9400, {"hardware-design"}) \in Tasks
    BY NamesOfTasks, BlocksOfTasks DEF Task, Tasks, TaskKinds
  <2>2. Task("run-scalesim-full-layer", 0, "scalesim-full-layer", 7200, {"hardware-design"}) \in Tasks
    BY NamesOfTasks, BlocksOfTasks DEF Task, Tasks, TaskKinds
  <2>3. QED
    BY <2>1, <2>2, SMTT(30) DEF ScaleTasks, Task
<1>7. B = {} \/ \E t \in Tasks : B = {t} /\ t.name = "run-scalesim-top-k" /\ t.op = 0
  <2>1. Task("run-scalesim-top-k", 0, "scalesim-top-k", 6100, TilePurposes) \in Tasks
    BY NamesOfTasks, BlocksOfTasks DEF Task, Tasks, TaskKinds
  <2>2. QED
    BY <2>1 DEF TopKTasks, Task
<1>8. \/ C = {}
      \/ \E t \in Tasks : /\ C = {t} /\ t.op = 0
                          /\ t.name = "fix-iree-compile" \/ t.name = "run-iree-runtime"
  <2>1. Task("fix-iree-compile", 0, "environment-doctor", 9600, {"iree-options"}) \in Tasks
    BY NamesOfTasks, BlocksOfTasks DEF Task, Tasks, TaskKinds
  <2>2. Task("run-iree-runtime", 0, "iree-runtime-benchmark", 6600, {"iree-options"}) \in Tasks
    BY NamesOfTasks, BlocksOfTasks DEF Task, Tasks, TaskKinds
  <2>3. QED
    BY <2>1, <2>2 DEF IreeTasks, Task
<1>9. F = {} \/ \E t \in Tasks : F = {t} /\ t.name = "review-feedback" /\ t.op = 0
  <2>1. Task("review-feedback", 0, "estimator-suite-feedback", 2400, {}) \in Tasks
    BY NamesOfTasks, BlocksOfTasks DEF Task, Tasks, TaskKinds
  <2>2. QED
    BY <2>1 DEF FeedbackTasks, Task
<1>10. /\ R \in SUBSET Tasks /\ IsFiniteSet(R)
       /\ \A t \in R : t.op # 0
       /\ \A t, u \in R : t.name = u.name /\ t.op = u.op => t = u
  BY RiskTaskFacts
<1> HIDE DEF R, A, B, C, F, S
<1>11. S \in SUBSET Tasks
  BY <1>1, <1>6, <1>7, <1>8, <1>9, <1>10
<1>12. IsFiniteSet(S)
  <2>1. IsFiniteSet(A) /\ IsFiniteSet(B) /\ IsFiniteSet(C) /\ IsFiniteSet(F)
    <3>1. \A x : IsFiniteSet({x})
      BY FS_Singleton
    <3>2. IsFiniteSet({})
      BY FS_EmptySet
    <3>3. QED
      BY <1>6, <1>7, <1>8, <1>9, <3>1, <3>2
  <2>2. IsFiniteSet(R \cup A)
    BY <1>10, <2>1, FS_Union
  <2>3. IsFiniteSet(R \cup A \cup B)
    BY <2>1, <2>2, FS_Union
  <2>4. IsFiniteSet(R \cup A \cup B \cup C)
    BY <2>1, <2>3, FS_Union
  <2>5. QED
    BY <1>1, <2>1, <2>4, FS_Union
<1>13. ASSUME NEW t \in S, NEW u \in S, t.name = u.name, t.op = u.op
       PROVE  t = u
  BY <1>1, <1>6, <1>7, <1>8, <1>9, <1>10, <1>13
<1>14. QED
  BY <1>11, <1>12, <1>13 DEF S

\* The plan holds the planned tasks, the most urgent ones first.
LEMMA PlanFacts ==
  ASSUME NEW e, IsEstimate(e), NEW g, NEW s, NEW i
  PROVE  /\ ValidationPlan(e, g, s, i) \in Seq(Tasks)
         /\ \A t \in PlannedOf(e, g, s, i) :
              \E k \in DOMAIN ValidationPlan(e, g, s, i) : ValidationPlan(e, g, s, i)[k] = t
         /\ \A j, k \in DOMAIN ValidationPlan(e, g, s, i) :
              j < k => ValidationPlan(e, g, s, i)[j].score >= ValidationPlan(e, g, s, i)[k].score
         /\ NothingTwice(ValidationPlan(e, g, s, i))
<1> DEFINE S == PlannedOf(e, g, s, i)
           R == {x \in S \X S : Comes(x[1], x[2])}
           N == Cardinality(S)
           p == ValidationPlan(e, g, s, i)
<1>1. /\ S \in SUBSET Tasks /\ IsFiniteSet(S)
      /\ \A t, u \in S : t.name = u.name /\ t.op = u.op => t = u
  BY PlannedFacts
<1> HIDE DEF S
<1>2. ASSUME NEW x \in S, NEW y \in S
      PROVE  /\ <<x, y>> \in R <=> Comes(x, y)
             /\ x.score \in Int /\ y.score \in Int /\ x.op \in Nat /\ y.op \in Nat
             /\ PlaceOf(x) \in 1..7 /\ PlaceOf(y) \in 1..7
             /\ PlaceOf(x) = PlaceOf(y) /\ x.op = y.op => x = y
             /\ Comes(x, y) <=> \/ x.score > y.score
                                \/ x.score = y.score /\ PlaceOf(x) < PlaceOf(y)
                                \/ x.score = y.score /\ PlaceOf(x) = PlaceOf(y) /\ x.op < y.op
  <2>1. x \in Tasks /\ y \in Tasks
    BY <1>1
  <2>2. <<x, y>> \in R <=> Comes(x, y)
    OBVIOUS
  <2>3. x.score \in Int /\ y.score \in Int /\ x.op \in Nat /\ y.op \in Nat
    BY <2>1 DEF Tasks
  <2>4. PlaceOf(x) \in 1..7 /\ PlaceOf(y) \in 1..7 /\ (PlaceOf(x) = PlaceOf(y) => x.name = y.name)
    BY <2>1, PlaceFacts
  <2>5. Comes(x, y) <=> \/ x.score > y.score
                        \/ x.score = y.score /\ PlaceOf(x) < PlaceOf(y)
                        \/ x.score = y.score /\ PlaceOf(x) = PlaceOf(y) /\ x.op < y.op
    BY <2>1, PlaceFacts
  <2>6. PlaceOf(x) = PlaceOf(y) /\ x.op = y.op => x = y
    BY <1>1, <2>4
  <2>7. QED
    BY <2>2, <2>3, <2>4, <2>5, <2>6
<1> HIDE DEF R
<1>3. IsStrictOrder(R, S)
  <2>1. \A x \in S : <<x, x>> \notin R
    BY <1>2
  <2>2. ASSUME NEW x \in S, NEW y \in S, NEW z \in S, <<x, y>> \in R, <<y, z>> \in R
        PROVE  <<x, z>> \in R
    BY <1>2, <2>2
  <2>3. ASSUME NEW x \in S, NEW y \in S, x # y
        PROVE  <<x, y>> \in R \/ <<y, x>> \in R
    BY <1>2, <2>3
  <2>4. QED
    BY <2>1, <2>2, <2>3 DEF IsStrictOrder
<1>4. p = Sorted(R, S)
  <2>1. p = MostUrgentFirst(S)
    BY DEF ValidationPlan, PlannedOf, OthersOf, S
  <2>2. \A x \in S : Below(R, S, x) = {u \in S : Comes(u, x)}
    BY <1>2 DEF Below
  <2>3. \A k \in 1..N : (CHOOSE t \in S : Cardinality({u \in S : Comes(u, t)}) = k - 1)
                          = CHOOSE t \in S : Cardinality(Below(R, S, t)) = k - 1
    BY <2>2
  <2>4. QED
    BY <2>1, <2>3 DEF MostUrgentFirst, Sorted
<1>5. /\ Sorted(R, S) \in Seq(S) /\ Len(Sorted(R, S)) = N /\ N \in Nat
      /\ \A x \in S : /\ Cardinality(Below(R, S, x)) \in 0..(N - 1)
                      /\ Sorted(R, S)[Cardinality(Below(R, S, x)) + 1] = x
      /\ \A j, k \in 1..N : j < k <=> <<Sorted(R, S)[j], Sorted(R, S)[k]>> \in R
  BY <1>1, <1>3, SortedFacts
<1> HIDE DEF N, p
<1>6. p \in Seq(S) /\ DOMAIN p = 1..N
  BY <1>4, <1>5
<1>7. p \in Seq(Tasks)
  BY <1>1, <1>6
<1>8. ASSUME NEW t \in S
      PROVE  \E k \in DOMAIN p : p[k] = t
  <2>1. Cardinality(Below(R, S, t)) + 1 \in 1..N
    BY <1>5
  <2>2. QED
    BY <1>4, <1>5, <1>6, <2>1
<1>9. ASSUME NEW j \in DOMAIN p, NEW k \in DOMAIN p, j < k
      PROVE  p[j].score >= p[k].score
  <2>1. p[j] \in S /\ p[k] \in S
    <3>1. p \in Seq(S)
      BY <1>6
    <3>2. DOMAIN p = 1..Len(p)
      BY <3>1, LenProperties
    <3>3. QED
      BY <3>1, <3>2, ElementOfSeq
  <2>2. <<p[j], p[k]>> \in R
    BY <1>4, <1>5, <1>6, <1>9
  <2>3. QED
    BY <1>2, <2>1, <2>2
<1>10. ASSUME NEW j \in DOMAIN p, NEW k \in DOMAIN p, j < k
       PROVE  p[j] # p[k]
  <2>1. <<p[j], p[k]>> \in R
    BY <1>4, <1>5, <1>6, <1>10
  <2>2. p[j] \in S
    BY <1>6, <1>10, LenProperties, ElementOfSeq
  <2>3. <<p[j], p[j]>> \notin R
    BY <1>3, <2>2 DEF IsStrictOrder
  <2>4. QED
    BY <2>1, <2>3
<1>11. NothingTwice(p)
  <2>1. \A j, k \in DOMAIN p : j = k \/ j < k \/ k < j
    BY <1>5, <1>6
  <2>2. QED
    BY <1>10, <2>1 DEF NothingTwice
<1>12. QED
  BY <1>7, <1>8, <1>9, <1>11 DEF p, S

\* Ahead of an operator the plan does not look at are as many as it looks at.
LEMMA RiskiestCount ==
  ASSUME NEW e, IsEstimate(e), NEW o \in DOMAIN e.ops, o \notin Riskiest(e.ops)
  PROVE  Cardinality({p \in Riskiest(e.ops) : Riskier(e.ops, p, o)}) >= MaxRiskOps
<1> DEFINE S == DOMAIN e.ops
           R == {x \in S \X S : Riskier(e.ops, x[1], x[2])}
           s == Sorted(R, S)
           place(x) == Cardinality(Below(R, S, x))
           K == {p \in Riskiest(e.ops) : Riskier(e.ops, p, o)}
           L == {p \in S : place(p) < MaxRiskOps}
<1>1. /\ IsFiniteSet(S) /\ S \in SUBSET Nat
      /\ \A p \in S : RiskScore(e.ops[p]) \in Nat
  <2>1. e.ops \in Seq(OperatorRisks) /\ S = 1..Len(e.ops) /\ Len(e.ops) \in Nat /\ IsFiniteSet(S)
    BY OperatorsFinite
  <2>2. \A p \in S : e.ops[p] \in OperatorRisks
    BY <2>1
  <2>3. QED
    BY <2>1, <2>2, RiskScoreIsNumber
<1>2. \A x, y \in S : <<x, y>> \in R <=> Riskier(e.ops, x, y)
  OBVIOUS
<1> HIDE DEF R
<1>3. IsStrictOrder(R, S)
  <2> HIDE DEF S
  <2> DEFINE risk(x) == RiskScore(e.ops[x])
  <2>1. \A x, y \in S : <<x, y>> \in R <=> risk(x) > risk(y) \/ (risk(x) = risk(y) /\ x < y)
    BY <1>2 DEF Riskier
  <2>2. \A x \in S : risk(x) \in Nat /\ x \in Nat
    BY <1>1
  <2> HIDE DEF risk
  <2>3. QED
    BY <2>1, <2>2 DEF IsStrictOrder
<1>4. /\ s \in Seq(S) /\ Len(s) = Cardinality(S) /\ Cardinality(S) \in Nat
      /\ \A k \in 1..Cardinality(S) : s[k] \in S /\ place(s[k]) = k - 1
      /\ \A x \in S : place(x) \in 0..(Cardinality(S) - 1) /\ s[place(x) + 1] = x
      /\ \A j, k \in 1..Cardinality(S) : j < k <=> <<s[j], s[k]>> \in R
  <2> HIDE DEF S
  <2> QED
    BY <1>1, <1>3, SortedFacts
<1>5. \A x \in S : Below(R, S, x) = {p \in S : Riskier(e.ops, p, x)}
  BY <1>2 DEF Below
<1>6. MaxRiskOps \in Nat \ {0} /\ place(o) >= MaxRiskOps /\ Riskiest(e.ops) = L
  <2>1. MaxRiskOps \in Nat \ {0}
    BY RiskOpsAssumption
  <2>2. Riskiest(e.ops) = L
    BY <1>5 DEF Riskiest
  <2>3. place(o) \in Nat
    BY <1>4
  <2> HIDE DEF place
  <2>4. QED
    BY <2>1, <2>2, <2>3
<1> HIDE DEF s, place, K, L, S
<1>7. ASSUME NEW k \in 1..MaxRiskOps
      PROVE  s[k] \in K /\ place(s[k]) = k - 1
  <2>1. place(o) \in 0..(Cardinality(S) - 1) /\ s[place(o) + 1] = o
    BY <1>4 DEF S
  <2>2. k \in 1..Cardinality(S) /\ place(o) + 1 \in 1..Cardinality(S) /\ k < place(o) + 1
    BY <1>4, <1>6, <2>1
  <2>3. s[k] \in S /\ place(s[k]) = k - 1 /\ <<s[k], o>> \in R
    BY <1>4, <2>1, <2>2
  <2>4. s[k] \in L
    BY <1>6, <2>3 DEF L
  <2>5. Riskier(e.ops, s[k], o)
    BY <1>2, <2>3 DEF S
  <2>6. QED
    BY <1>6, <2>3, <2>4, <2>5 DEF K
<1>8. IsFiniteSet(K) /\ K \in SUBSET S
  <2>1. K \in SUBSET S
    BY <1>6 DEF K, L
  <2>2. QED
    BY <1>1, <2>1, FS_Subset
<1> DEFINE f == [x \in K |-> place(x) + 1]
           I == {f[x] : x \in K}
<1>9. f \in [K -> Nat]
  BY <1>4, <1>8
<1>10. 1..MaxRiskOps \subseteq I
  <2> SUFFICES ASSUME NEW k \in 1..MaxRiskOps
               PROVE  k \in I
    OBVIOUS
  <2>1. s[k] \in K /\ f[s[k]] = k
    BY <1>7
  <2>2. QED
    BY <2>1
<1> HIDE DEF f
<1>11. IsFiniteSet(I) /\ Cardinality(I) <= Cardinality(K)
  BY <1>8, <1>9, ImageCount
<1> HIDE DEF I
<1>12. Cardinality(1..MaxRiskOps) = MaxRiskOps
  BY <1>6, FS_Interval
<1>13. MaxRiskOps <= Cardinality(I)
  <2>1. 1..MaxRiskOps \in SUBSET I
    BY <1>10
  <2>2. Cardinality(1..MaxRiskOps) <= Cardinality(I)
    BY <1>11, <2>1, FS_Subset
  <2>3. QED
    BY <1>12, <2>2
<1>14. Cardinality(I) \in Nat /\ Cardinality(K) \in Nat
  BY <1>8, <1>11, FS_CardinalityType
<1>15. QED
  BY <1>6, <1>11, <1>13, <1>14 DEF K

\* Whatever is left undecided, the plan has a task for it, if there is a kind of task.
LEMMA PlanCovers ==
  ASSUME NEW e, IsEstimate(e), NEW g, NEW s, NEW i \in IreeEvidence
  PROVE  /\ g["tiling-strategy"] # "ready" =>
              "tiling-strategy" \in BlockedPurposes(ValidationPlan(e, g, s, i))
         /\ g["iree-options"] # "ready" /\ (i # "none" \/ g["tiling-strategy"] # "ready") =>
              "iree-options" \in BlockedPurposes(ValidationPlan(e, g, s, i))
         /\ g["hardware-design"] # "ready" /\ s.state # "ok" =>
              "hardware-design" \in BlockedPurposes(ValidationPlan(e, g, s, i))
         /\ \A o \in Riskiest(e.ops) : RiskScore(e.ops[o]) >= 6600 =>
              \E k \in DOMAIN ValidationPlan(e, g, s, i) :
                /\ ValidationPlan(e, g, s, i)[k].op = o
                /\ "hardware-design" \in ValidationPlan(e, g, s, i)[k].blocks
<1> DEFINE p == ValidationPlan(e, g, s, i)
           S == PlannedOf(e, g, s, i)
<1>1. \A t \in S : \E k \in DOMAIN p : p[k] = t
  BY PlanFacts
<1> HIDE DEF p
<1>2. \A t \in S : t.blocks \subseteq BlockedPurposes(p)
  BY <1>1 DEF BlockedPurposes
<1>3. /\ TopKTasks(g) \subseteq S /\ ScaleTasks(g, s) \subseteq S /\ IreeTasks(i) \subseteq S
  BY DEF PlannedOf, OthersOf
<1> HIDE DEF S
<1>4. ASSUME g["tiling-strategy"] # "ready"
      PROVE  "tiling-strategy" \in BlockedPurposes(p) /\ "iree-options" \in BlockedPurposes(p)
  <2> DEFINE u == Task("run-scalesim-top-k", 0, "scalesim-top-k", 6100, TilePurposes)
  <2>1. u \in TopKTasks(g) /\ u.blocks = TilePurposes
    BY <1>4 DEF TopKTasks, Task
  <2> HIDE DEF u
  <2>2. QED
    BY <1>2, <1>3, <2>1 DEF TilePurposes
<1>5. ASSUME i # "none"
      PROVE  "iree-options" \in BlockedPurposes(p)
  <2> DEFINE u == IF i = "failed"
                  THEN Task("fix-iree-compile", 0, "environment-doctor", 9600, {"iree-options"})
                  ELSE Task("run-iree-runtime", 0, "iree-runtime-benchmark", 6600, {"iree-options"})
  <2>1. u \in IreeTasks(i)
    BY <1>5 DEF IreeTasks, IreeEvidence
  <2>2. u.blocks = {"iree-options"}
    BY DEF Task
  <2> HIDE DEF u
  <2>3. QED
    BY <1>2, <1>3, <2>1, <2>2
<1>6. ASSUME g["hardware-design"] # "ready", s.state # "ok"
      PROVE  "hardware-design" \in BlockedPurposes(p)
  <2> DEFINE u == IF s.state = "failed"
         THEN Task("run-scalesim-full-layer", 0, "environment-doctor", 9400, {"hardware-design"})
         ELSE Task("run-scalesim-full-layer", 0, "scalesim-full-layer", 7200, {"hardware-design"})
  <2>1. u \in ScaleTasks(g, s)
    BY <1>6 DEF ScaleTasks
  <2>2. u.blocks = {"hardware-design"}
    BY DEF Task
  <2> HIDE DEF u
  <2>3. QED
    BY <1>2, <1>3, <2>1, <2>2
<1>7. ASSUME NEW o \in Riskiest(e.ops), RiskScore(e.ops[o]) >= 6600
      PROVE  \E k \in DOMAIN p : p[k].op = o /\ "hardware-design" \in p[k].blocks
  <2> DEFINE score == AtLeast(RiskScore(e.ops[o]), 100 * FullSeverity(e.ops[o]))
             u == Task("scalesim-full-layer-op", o, "scalesim-full-layer", score, {"hardware-design"})
  <2>1. u \in RiskTasks(e.ops)
    BY <1>7 DEF RiskTasks
  <2>2. u.op = o /\ "hardware-design" \in u.blocks
    BY DEF Task
  <2> HIDE DEF u
  <2>3. u \in S
    BY <2>1 DEF S, PlannedOf, OthersOf
  <2>4. QED
    BY <1>1, <2>2, <2>3
<1>8. QED
  BY <1>4, <1>5, <1>6, <1>7 DEF p

-----------------------------------------------------------------------------
(* The life of the evidence *)

RunStatuses == {"planned", "skipped", "blocked", "passed", "failed"}
Faulty == {"failed", "blocked"}
RunRecords == [task : Tasks, status : RunStatuses]
AllowedOptions == RunOptions \cup {NotStarted.opts}
TaskLists == Seq(Tasks)
RecordLists == Seq(RunRecords)
Executions ==
  [phase : {"none", "running", "done"}, opts : AllowedOptions, todo : TaskLists,
   records : RecordLists, stopped : BOOLEAN, exitCode : {0, 1}]

\* A record is of what the options allow: a dry run plans, and what runs may run.
Permitted(r, o) ==
  /\ Ran(r) => o.execute /\ Safety(r.task.kind) # "manual-review"
  /\ Ran(r) /\ Safety(r.task.kind) = "external-run" => o.external
  /\ r.status = "planned" => ~o.execute
\* No task is recorded twice, nor is one that is still to do.
NoneTwice(x) ==
  /\ NothingTwice(x.todo)
  /\ \A i, k \in DOMAIN x.records : i # k => x.records[i].task # x.records[k].task
  /\ \A i \in DOMAIN x.records, k \in DOMAIN x.todo : x.records[i].task # x.todo[k]
RecordsObey(x) ==
  /\ NoneTwice(x)
  /\ \A i \in DOMAIN x.records : Permitted(x.records[i], x.opts)
  /\ x.opts.stop => \A i \in DOMAIN x.records : x.records[i].status \in Faulty => x.stopped
  /\ x.opts.stop => \A i \in DOMAIN x.records : \A k \in 1..(i - 1) :
       x.records[k].status \in Faulty => x.records[i].status = "skipped"
  /\ x.phase = "done" /\ x.opts.execute /\ x.exitCode = 0 =>
       \A i \in DOMAIN x.records : x.records[i].status \notin Faulty

VerdictSet == {Verdicts[i] : i \in DOMAIN Verdicts}
ValidationInv ==
  /\ est \in JobEstimates /\ scale \in ScaleEvidence /\ iree \in IreeEvidence
  /\ runtime \in RuntimeEvidence \cup {NoRuntime}
  /\ gate \in [Areas -> VerdictSet]
  /\ runbook \in Seq(Tasks) /\ NothingTwice(runbook)
  /\ runtime = NoRuntime => runbook = ValidationPlan(est, gate, scale, iree)
  /\ inputs \in {"own", "demo"}
  /\ exec \in Executions /\ RecordsObey(exec)

LEMMA OptionsShape ==
  ASSUME NEW o \in AllowedOptions
  PROVE  o \in [execute : BOOLEAN, external : BOOLEAN, readOnly : BOOLEAN, stop : BOOLEAN]
<1>1. NotStarted.opts = [execute |-> FALSE, external |-> FALSE, readOnly |-> TRUE, stop |-> TRUE]
  BY DEF NotStarted
<1>2. QED
  <2>1. CASE o \in RunOptions
    BY <2>1, EvidenceAssumption
  <2>2. CASE o = NotStarted.opts
    BY <1>1, <2>2
  <2>3. QED
    BY <2>1, <2>2 DEF AllowedOptions

LEMMA GateShape ==
  ASSUME NEW e, NEW s, NEW i \in IreeEvidence, NEW r \in RuntimeEvidence \cup {NoRuntime}, NEW risks
  PROVE  Gate(e, s, i, r, risks) \in [Areas -> VerdictSet]
<1>1. /\ DOMAIN Verdicts = 1..4
      /\ Verdicts[1] = "blocked" /\ Verdicts[2] = "validate-first"
      /\ Verdicts[3] = "needs-benchmark" /\ Verdicts[4] = "ready"
  BY DEF Verdicts
<1>2. "blocked" \in VerdictSet /\ "validate-first" \in VerdictSet
      /\ "needs-benchmark" \in VerdictSet /\ "ready" \in VerdictSet
  BY <1>1 DEF VerdictSet
<1>3. Hardware(e, s, i, risks) \in VerdictSet
  BY <1>2 DEF Hardware
<1>4. Tiling(e, s, i) \in VerdictSet
  BY <1>2 DEF Tiling
<1>5. Compiled[i] \in VerdictSet
  BY <1>2 DEF Compiled, IreeEvidence
<1>6. Benchmarked(r, Compiled[i]) \in VerdictSet
  BY <1>2, <1>5 DEF Benchmarked
<1>7. IreeOptions(i, r, Tiling(e, s, i)) \in VerdictSet
  BY <1>2, <1>6 DEF IreeOptions
<1>8. QED
  BY <1>3, <1>4, <1>7 DEF Gate, Areas

LEMMA ValidationStarts == ValidationInit => ValidationInv
<1> SUFFICES ASSUME ValidationInit
             PROVE  ValidationInv
  OBVIOUS
<1>1. /\ est \in JobEstimates /\ iree = "none" /\ runtime = NoRuntime /\ inputs = "own"
      /\ scale = [state |-> "none", err |-> Unknown, regret |-> Unknown] /\ exec = NotStarted
      /\ gate = Gate(est, scale, iree, NoRuntime, TRUE)
      /\ runbook = ValidationPlan(est, gate, scale, iree)
  BY DEF ValidationInit
<1>2. scale \in ScaleEvidence /\ iree \in IreeEvidence
  BY <1>1 DEF ScaleEvidence, IreeEvidence
<1>3. gate \in [Areas -> VerdictSet]
  BY <1>1, <1>2, GateShape
<1>4. runbook \in Seq(Tasks) /\ NothingTwice(runbook)
  BY <1>1, PlanFacts, EvidenceAssumption
<1>5. exec \in Executions
  <2>1. <<>> \in TaskLists /\ <<>> \in RecordLists
    BY DEF TaskLists, RecordLists
  <2> DEFINE o == [execute |-> FALSE, external |-> FALSE, readOnly |-> TRUE, stop |-> TRUE]
  <2>2. NotStarted = [phase |-> "none", opts |-> o, todo |-> <<>>, records |-> <<>>,
                      stopped |-> FALSE, exitCode |-> 0]
    BY DEF NotStarted
  <2> HIDE DEF o
  <2>3. o \in AllowedOptions
    BY <2>2 DEF AllowedOptions
  <2>4. QED
    BY <1>1, <2>1, <2>2, <2>3 DEF Executions
<1>6. RecordsObey(exec)
  BY <1>1 DEF RecordsObey, NoneTwice, NothingTwice, NotStarted
<1>7. QED
  BY <1>1, <1>2, <1>3, <1>4, <1>5, <1>6 DEF ValidationInv

LEMMA ExecutionShape ==
  ASSUME NEW x \in Executions
  PROVE  /\ x.phase \in {"none", "running", "done"} /\ x.opts \in AllowedOptions
         /\ x.todo \in TaskLists /\ x.records \in RecordLists
         /\ x.stopped \in BOOLEAN /\ x.exitCode \in {0, 1}
         /\ x = [phase |-> x.phase, opts |-> x.opts, todo |-> x.todo, records |-> x.records,
                 stopped |-> x.stopped, exitCode |-> x.exitCode]
BY DEF Executions

\* The first task is recorded: it is then neither to do nor recorded twice.
LEMMA TaskTaken ==
  ASSUME NEW x, x.todo \in Seq(Tasks), x.records \in Seq(RunRecords), x.todo # <<>>, NoneTwice(x),
         NEW r \in RunRecords, r.task = Head(x.todo),
         NEW y, y.todo = Tail(x.todo), y.records = Append(x.records, r)
  PROVE  NoneTwice(y)
<1> DEFINE n == Len(x.records)
           m == Len(x.todo)
<1>1. /\ n \in Nat /\ DOMAIN x.records = 1..n /\ DOMAIN y.records = 1..(n + 1)
      /\ \A i \in 1..n : y.records[i] = x.records[i]
      /\ y.records[n + 1] = r
  OBVIOUS
<1>2. /\ m \in Nat \ {0} /\ DOMAIN x.todo = 1..m /\ DOMAIN y.todo = 1..(m - 1)
      /\ \A k \in 1..(m - 1) : y.todo[k] = x.todo[k + 1]
      /\ r.task = x.todo[1]
  OBVIOUS
<1> HIDE DEF n, m
<1>3. \A i, k \in 1..m : x.todo[i] = x.todo[k] => i = k
  BY <1>2 DEF NoneTwice, NothingTwice
<1>4. NothingTwice(y.todo)
  BY <1>2, <1>3 DEF NothingTwice
<1>5. \A i \in 1..n : \A k \in 1..m : x.records[i].task # x.todo[k]
  BY <1>1, <1>2 DEF NoneTwice
<1>6. \A i \in 1..(n + 1) : i \in 1..n \/ i = n + 1
  BY <1>1
<1>7. \A k \in 1..(m - 1) : k + 1 \in 1..m /\ k + 1 # 1
  BY <1>2
<1>8. \A i, k \in 1..n : i # k => x.records[i].task # x.records[k].task
  BY <1>1 DEF NoneTwice
<1>9. \A i \in 1..n : x.records[i].task # r.task
  BY <1>2, <1>5
<1>10. \A i, k \in DOMAIN y.records : i # k => y.records[i].task # y.records[k].task
  BY <1>1, <1>6, <1>8, <1>9
<1>11. \A i \in DOMAIN y.records, k \in DOMAIN y.todo : y.records[i].task # y.todo[k]
  <2> SUFFICES ASSUME NEW i \in 1..(n + 1), NEW k \in 1..(m - 1)
               PROVE  y.records[i].task # y.todo[k]
    BY <1>1, <1>2
  <2>1. y.todo[k] = x.todo[k + 1] /\ k + 1 \in 1..m /\ k + 1 # 1
    BY <1>2, <1>7
  <2>2. CASE i \in 1..n
    BY <1>1, <1>5, <2>1, <2>2
  <2>3. CASE i = n + 1
    BY <1>1, <1>2, <1>3, <2>1, <2>3
  <2>4. QED
    BY <1>6, <2>2, <2>3
<1>12. QED
  BY <1>4, <1>10, <1>11 DEF NoneTwice

\* A command is done with: its record is permitted, and follows the failures before it.
LEMMA RecordAdded ==
  ASSUME NEW x \in Executions, RecordsObey(x), x.phase = "running",
         NEW r \in RunRecords, NEW remaining \in TaskLists, NEW b \in BOOLEAN,
         NEW y, y \in Executions,
         Permitted(r, x.opts),
         x.stopped => b /\ r.status = "skipped",
         x.opts.stop /\ r.status \in Faulty => b,
         y.phase = x.phase, y.opts = x.opts, y.stopped = b, y.records = Append(x.records, r),
         x.todo # <<>>, r.task = Head(x.todo), y.todo = Tail(x.todo)
  PROVE  RecordsObey(y)
<1> DEFINE n == Len(x.records)
<1>1. x.records \in Seq(RunRecords) /\ x.todo \in Seq(Tasks)
  BY ExecutionShape DEF RecordLists, TaskLists
<1>2. NoneTwice(y)
  <2>1. NoneTwice(x)
    BY DEF RecordsObey
  <2>2. QED
    BY <1>1, <2>1, TaskTaken
<1>6. /\ n \in Nat /\ DOMAIN x.records = 1..n /\ DOMAIN Append(x.records, r) = 1..(n + 1)
      /\ \A i \in 1..n : Append(x.records, r)[i] = x.records[i]
      /\ Append(x.records, r)[n + 1] = r
  BY <1>1
<1>8. y.phase = "running" /\ y.opts = x.opts /\ y.records = Append(x.records, r)
  OBVIOUS
<1> HIDE DEF n
<1>9. /\ DOMAIN y.records = 1..(n + 1) /\ y.records[n + 1] = r
      /\ \A i \in 1..n : y.records[i] = x.records[i]
  BY <1>6, <1>8
<1>10. \A i \in 1..(n + 1) : i \in 1..n \/ i = n + 1
  BY <1>6
<1>11. \A i \in DOMAIN y.records : Permitted(y.records[i], y.opts)
  BY <1>6, <1>8, <1>9, <1>10 DEF RecordsObey
<1>12. ASSUME x.opts.stop, NEW i \in DOMAIN y.records, y.records[i].status \in Faulty
       PROVE  b
  <2>1. CASE i \in 1..n
    BY <1>6, <1>9, <1>12, <2>1 DEF RecordsObey
  <2>2. CASE i = n + 1
    BY <1>9, <1>12, <2>2
  <2>3. QED
    BY <1>9, <1>10, <2>1, <2>2
<1>13. ASSUME x.opts.stop, NEW i \in DOMAIN y.records, NEW k \in 1..(i - 1),
              y.records[k].status \in Faulty
       PROVE  y.records[i].status = "skipped"
  <2>1. i \in 1..(n + 1) /\ k \in 1..n
    BY <1>6, <1>9
  <2>2. x.records[k].status \in Faulty
    BY <1>9, <1>13, <2>1
  <2>3. CASE i \in 1..n
    BY <1>6, <1>9, <1>13, <2>2, <2>3 DEF RecordsObey
  <2>4. CASE i = n + 1
    <3>1. x.stopped
      BY <1>6, <1>13, <2>1, <2>2 DEF RecordsObey
    <3>2. QED
      BY <1>9, <2>4, <3>1
  <2>5. QED
    BY <1>10, <2>1, <2>3, <2>4
<1>14. QED
  BY <1>2, <1>8, <1>11, <1>12, <1>13 DEF RecordsObey

\* A command is recorded: its task is taken from the list.
LEMMA NoteKeeps ==
  ASSUME ValidationInv, exec.phase = "running", exec.todo # <<>>,
         NEW status \in RunStatuses, NEW b \in BOOLEAN,
         Permitted(Record(Head(exec.todo), status), exec.opts),
         exec.stopped => b /\ status = "skipped",
         exec.opts.stop /\ status \in Faulty => b,
         exec' = [exec EXCEPT !.todo = Tail(@),
                              !.records = Append(@, Record(Head(exec.todo), status)), !.stopped = b]
  PROVE  exec' \in Executions /\ RecordsObey(exec')
<1> DEFINE r == Record(Head(exec.todo), status)
           rest == Tail(exec.todo)
           more == Append(exec.records, r)
<1>1. exec \in Executions /\ RecordsObey(exec)
  BY DEF ValidationInv
<1>2. /\ exec.phase \in {"none", "running", "done"} /\ exec.opts \in AllowedOptions
      /\ exec.todo \in TaskLists /\ exec.records \in RecordLists
      /\ exec.stopped \in BOOLEAN /\ exec.exitCode \in {0, 1}
      /\ exec = [phase |-> exec.phase, opts |-> exec.opts, todo |-> exec.todo,
                 records |-> exec.records, stopped |-> exec.stopped, exitCode |-> exec.exitCode]
  BY <1>1, ExecutionShape
<1>3. Head(exec.todo) \in Tasks /\ rest \in TaskLists
  BY <1>2 DEF TaskLists
<1>4. r \in RunRecords /\ r.status = status /\ r.task = Head(exec.todo)
  BY <1>3 DEF Record, RunRecords
<1>5. more \in RecordLists
  BY <1>2, <1>4 DEF RecordLists
<1>6. /\ exec'.phase = exec.phase /\ exec'.opts = exec.opts /\ exec'.todo = rest
      /\ exec'.records = more /\ exec'.stopped = b /\ exec'.exitCode = exec.exitCode
      /\ exec' = [phase |-> exec.phase, opts |-> exec.opts, todo |-> rest, records |-> more,
                  stopped |-> b, exitCode |-> exec.exitCode]
  BY <1>2
<1> HIDE DEF rest, more, r
<1>7. exec' \in Executions
  BY <1>2, <1>3, <1>5, <1>6 DEF Executions
<1>8. exec'.records = Append(exec.records, r)
  BY <1>6 DEF more
<1>9. Permitted(r, exec.opts) /\ exec'.todo = Tail(exec.todo)
  BY <1>6 DEF r, rest
<1>10. QED
  BY <1>1, <1>3, <1>4, <1>6, <1>7, <1>8, <1>9, RecordAdded

LEMMA PassOverKeeps ==
  ASSUME ValidationInv, PassOver
  PROVE  exec' \in Executions /\ RecordsObey(exec')
<1> DEFINE task == Head(exec.todo)
           pre == Preflight(task, exec.opts)
<1>1. exec \in Executions /\ exec.phase = "running" /\ exec.todo # <<>>
  BY DEF ValidationInv, PassOver
<1>2. exec.opts \in [execute : BOOLEAN, external : BOOLEAN, readOnly : BOOLEAN, stop : BOOLEAN]
      /\ exec.stopped \in BOOLEAN
  BY <1>1, ExecutionShape, OptionsShape
<1>3. \A status : Record(task, status).status = status /\ Record(task, status).task = task
  BY DEF Record
<1>4. CASE /\ exec.stopped
           /\ exec' = [exec EXCEPT !.todo = Tail(@), !.records = Append(@, Record(task, "skipped"))]
  <2>1. Permitted(Record(task, "skipped"), exec.opts)
    BY <1>3 DEF Permitted, Ran
  <2>2. exec = [phase |-> exec.phase, opts |-> exec.opts, todo |-> exec.todo,
                records |-> exec.records, stopped |-> exec.stopped, exitCode |-> exec.exitCode]
    BY <1>1, ExecutionShape
  <2>3. exec' = [exec EXCEPT !.todo = Tail(@), !.records = Append(@, Record(task, "skipped")),
                             !.stopped = TRUE]
    <3>1. exec.stopped = TRUE
      BY <1>2, <1>4
    <3>2. QED
      BY <1>4, <2>2, <3>1
  <2>4. "skipped" \in RunStatuses /\ "skipped" \notin Faulty
    BY DEF RunStatuses, Faulty
  <2>5. QED
    BY <1>1, <2>1, <2>3, <2>4, NoteKeeps
<1>5. CASE ~exec.stopped /\ pre # "run" /\ Note(pre)
  <2>1. pre \in {"skipped", "blocked", "planned"} /\ (pre = "planned" => ~exec.opts.execute)
    BY <1>5 DEF Preflight
  <2>2. Permitted(Record(task, pre), exec.opts)
    <3> HIDE DEF pre
    <3> QED
      BY <1>3, <2>1 DEF Permitted, Ran
  <2>3. Stops(pre) \in BOOLEAN /\ (exec.opts.stop /\ pre \in Faulty => Stops(pre))
    BY <1>2 DEF Stops, Faulty
  <2>4. exec' = [exec EXCEPT !.todo = Tail(@), !.records = Append(@, Record(task, pre)),
                             !.stopped = (exec.stopped \/ Stops(pre))]
    BY <1>5 DEF Note
  <2>5. pre \in RunStatuses
    BY <2>1 DEF RunStatuses
  <2> HIDE DEF pre
  <2>6. (exec.stopped \/ Stops(pre)) \in BOOLEAN
    OBVIOUS
  <2>7. QED
    BY <1>1, <1>5, <2>2, <2>3, <2>4, <2>5, <2>6, NoteKeeps
<1>6. QED
  BY <1>4, <1>5 DEF PassOver

\* Only what may run is run, and a failure that stops the execution is remembered.
LEMMA RunCommandKeeps ==
  ASSUME ValidationInv, RunCommand
  PROVE  exec' \in Executions /\ RecordsObey(exec') /\ inputs' \in {"own", "demo"}
<1> DEFINE task == Head(exec.todo)
<1>1. exec \in Executions /\ exec.phase = "running" /\ exec.todo # <<>> /\ ~exec.stopped
      /\ Preflight(task, exec.opts) = "run" /\ inputs \in {"own", "demo"}
  BY DEF ValidationInv, RunCommand
<1>2. exec.opts \in [execute : BOOLEAN, external : BOOLEAN, readOnly : BOOLEAN, stop : BOOLEAN]
  BY <1>1, ExecutionShape, OptionsShape
<1>3. PICK status \in {"passed", "failed"} : Note(status)
  BY DEF RunCommand
<1>4. inputs' \in {"own", "demo"}
  BY <1>1 DEF RunCommand
<1>5. Safety(task.kind) # "manual-review" /\ exec.opts.execute
      /\ (Safety(task.kind) = "external-run" => exec.opts.external)
  BY <1>1 DEF Preflight
<1>6. Record(task, status).status = status /\ Record(task, status).task = task
  BY DEF Record
<1>7. Permitted(Record(task, status), exec.opts)
  BY <1>3, <1>5, <1>6 DEF Permitted
<1>8. exec' = [exec EXCEPT !.todo = Tail(@), !.records = Append(@, Record(task, status)),
                           !.stopped = (exec.stopped \/ Stops(status))]
  BY <1>3 DEF Note
<1>9. /\ status \in RunStatuses /\ (exec.stopped \/ Stops(status)) \in BOOLEAN
      /\ exec.opts.stop /\ status \in Faulty => (exec.stopped \/ Stops(status))
  BY <1>3 DEF RunStatuses, Stops, Faulty
<1>10. exec' \in Executions /\ RecordsObey(exec')
  BY <1>1, <1>7, <1>8, <1>9, NoteKeeps
<1>11. QED
  BY <1>4, <1>10

LEMMA StartExecutionKeeps ==
  ASSUME ValidationInv, StartExecution
  PROVE  exec' \in Executions /\ RecordsObey(exec')
<1>1. PICK o \in RunOptions :
        exec' = [NotStarted EXCEPT !.phase = "running", !.opts = o, !.todo = runbook]
  BY DEF StartExecution
<1>2. exec' = [phase |-> "running", opts |-> o, todo |-> runbook, records |-> <<>>,
               stopped |-> FALSE, exitCode |-> 0]
  BY <1>1 DEF NotStarted
<1>3. runbook \in TaskLists /\ <<>> \in RecordLists /\ o \in AllowedOptions
  BY DEF ValidationInv, TaskLists, RecordLists, AllowedOptions
<1>4. exec' \in Executions
  BY <1>2, <1>3 DEF Executions
<1>5. exec'.records = <<>> /\ exec'.phase = "running" /\ exec'.todo = runbook
  BY <1>2
<1>6. DOMAIN exec'.records = {}
  BY <1>5
<1>7. NoneTwice(exec')
  BY <1>5, <1>6 DEF NoneTwice, ValidationInv
<1>8. QED
  BY <1>4, <1>5, <1>6, <1>7 DEF RecordsObey

LEMMA ReportExecutionKeeps ==
  ASSUME ValidationInv, ReportExecution
  PROVE  exec' \in Executions /\ RecordsObey(exec')
<1> DEFINE bad == /\ exec.opts.execute
                  /\ StatusesOf(exec.records) \cap {"failed", "blocked"} # {}
           code == IF bad THEN 1 ELSE 0
<1>1. exec \in Executions /\ RecordsObey(exec) /\ exec.phase = "running"
  BY DEF ValidationInv, ReportExecution
<1>2. /\ exec.opts \in AllowedOptions /\ exec.todo \in TaskLists /\ exec.records \in RecordLists
      /\ exec.stopped \in BOOLEAN
      /\ exec = [phase |-> exec.phase, opts |-> exec.opts, todo |-> exec.todo,
                 records |-> exec.records, stopped |-> exec.stopped, exitCode |-> exec.exitCode]
  BY <1>1, ExecutionShape
<1>3. exec' = [exec EXCEPT !.phase = "done", !.exitCode = code]
  BY DEF ReportExecution
<1>4. code \in {0, 1}
  OBVIOUS
<1>5. code = 0 => ~bad
  OBVIOUS
<1> HIDE DEF code
<1>6. exec' = [phase |-> "done", opts |-> exec.opts, todo |-> exec.todo,
               records |-> exec.records, stopped |-> exec.stopped, exitCode |-> code]
  BY <1>2, <1>3
<1>7. exec' \in Executions
  BY <1>2, <1>4, <1>6 DEF Executions
<1>8. /\ exec'.opts = exec.opts /\ exec'.records = exec.records
      /\ exec'.exitCode = code /\ exec'.stopped = exec.stopped /\ exec'.todo = exec.todo
  BY <1>6
<1>9. ASSUME exec.opts.execute, code = 0, NEW k \in DOMAIN exec.records
      PROVE  exec.records[k].status \notin Faulty
  <2>1. exec.records[k].status \in StatusesOf(exec.records)
    BY DEF StatusesOf
  <2>2. StatusesOf(exec.records) \cap {"failed", "blocked"} = {}
    BY <1>5, <1>9
  <2>3. QED
    BY <2>1, <2>2 DEF Faulty
<1>10. RecordsObey(exec')
  BY <1>1, <1>8, <1>9 DEF RecordsObey, NoneTwice
<1>11. QED
  BY <1>7, <1>10

LEMMA ValidationSteps ==
  ASSUME ValidationInv, [ValidationNext]_valvars
  PROVE  ValidationInv'
<1>1. ASSUME WritePurposeGate
      PROVE  ValidationInv'
  <2>1. /\ est' = est /\ runtime' = runtime /\ inputs' = inputs /\ exec' = exec
        /\ scale' \in ScaleEvidence /\ iree' \in IreeEvidence
        /\ gate' = Gate(est, scale', iree', NoRuntime, TRUE)
        /\ runbook' = ValidationPlan(est, gate', scale', iree')
    BY <1>1 DEF WritePurposeGate
  <2>2. gate' \in [Areas -> VerdictSet]
    BY <2>1, GateShape
  <2>3. IsEstimate(est)
    BY EvidenceAssumption DEF ValidationInv
  <2>4. runbook' \in Seq(Tasks) /\ NothingTwice(runbook')
    BY <2>1, <2>3, PlanFacts
  <2>5. QED
    BY <2>1, <2>2, <2>4 DEF ValidationInv
<1>2. ASSUME Benchmark
      PROVE  ValidationInv'
  <2>1. /\ runtime' \in RuntimeEvidence
        /\ est' = est /\ scale' = scale /\ iree' = iree /\ runbook' = runbook /\ inputs' = inputs
        /\ exec' = exec
    BY <1>2 DEF Benchmark
  <2>2. PICK compiled \in Compiles(iree, runtime') :
          gate' = Gate(Described, scale, compiled, runtime', FALSE)
    BY <1>2 DEF Benchmark
  <2>3. compiled \in IreeEvidence
    BY DEF Compiles, IreeEvidence, ValidationInv
  <2>4. gate' \in [Areas -> VerdictSet]
    BY <2>1, <2>2, <2>3, GateShape
  <2>5. runtime' # NoRuntime
    BY <2>1 DEF RuntimeEvidence, NoRuntime
  <2>6. QED
    BY <2>1, <2>4, <2>5 DEF ValidationInv
<1>3. ASSUME exec' \in Executions, RecordsObey(exec'), inputs' \in {"own", "demo"},
             UNCHANGED <<est, scale, iree, runtime, gate, runbook>>
      PROVE  ValidationInv'
  BY <1>3 DEF ValidationInv
<1>4. CASE StartExecution
  BY <1>3, <1>4, StartExecutionKeeps DEF StartExecution, evidence, ValidationInv
<1>5. CASE PassOver
  BY <1>3, <1>5, PassOverKeeps DEF PassOver, evidence, ValidationInv
<1>6. CASE RunCommand
  BY <1>3, <1>6, RunCommandKeeps DEF RunCommand, evidence
<1>7. CASE ReportExecution
  BY <1>3, <1>7, ReportExecutionKeeps DEF ReportExecution, evidence, ValidationInv
<1>8. CASE UNCHANGED valvars
  BY <1>8 DEF valvars, ValidationInv
<1>9. QED
  BY <1>1, <1>2, <1>4, <1>5, <1>6, <1>7, <1>8 DEF ValidationNext

\* What the invariant says: the gate, the plan and the runbook keep their promises.
LEMMA ValidationIsSound ==
  ASSUME ValidationInv
  PROVE  ValidationTypeOK /\ BetterEvidenceHelps /\ PlanCoversGaps /\ RunbookObeysOptions
<1>1. IsEstimate(est) /\ scale \in ScaleEvidence /\ iree \in IreeEvidence
  BY EvidenceAssumption DEF ValidationInv
<1>2. exec \in Executions /\ RecordsObey(exec)
  BY DEF ValidationInv
<1>3. ValidationTypeOK
  <2>1. /\ exec.phase \in {"none", "running", "done"} /\ exec.opts \in AllowedOptions
        /\ exec.exitCode \in {0, 1}
    BY <1>2, ExecutionShape
  <2>2. gate \in [Areas -> {Verdicts[i] : i \in DOMAIN Verdicts}]
    BY DEF ValidationInv, VerdictSet
  <2>3. QED
    BY <2>1, <2>2 DEF ValidationTypeOK, ValidationInv, AllowedOptions
<1>4. BetterEvidenceHelps
  BY <1>1, GateGrows DEF BetterEvidenceHelps
<1>5. PlanCoversGaps
  <2> SUFFICES ASSUME runtime = NoRuntime
               PROVE  GapsArePlanned
    BY DEF PlanCoversGaps
  <2>1. runbook = ValidationPlan(est, gate, scale, iree)
    BY DEF ValidationInv
  <2>2. \A j, k \in DOMAIN runbook : j < k => runbook[j].score >= runbook[k].score
    BY <1>1, <2>1, PlanFacts
  <2>3. ASSUME NEW o \in DOMAIN est.ops, RiskScore(est.ops[o]) >= 6600, TasksFor(o) = {}
        PROVE  Cardinality({p \in DOMAIN est.ops : RiskScore(est.ops[p]) >= RiskScore(est.ops[o])
                                                    /\ TasksFor(p) # {}}) >= MaxRiskOps
    <3> DEFINE K == {p \in Riskiest(est.ops) : Riskier(est.ops, p, o)}
               W == {p \in DOMAIN est.ops : RiskScore(est.ops[p]) >= RiskScore(est.ops[o])
                                             /\ TasksFor(p) # {}}
    <3>1. \A p \in Riskiest(est.ops) : RiskScore(est.ops[p]) >= 6600 => TasksFor(p) # {}
      BY <1>1, <2>1, PlanCovers DEF TasksFor
    <3>2. o \notin Riskiest(est.ops)
      BY <2>3, <3>1
    <3>3. Cardinality(K) >= MaxRiskOps
      BY <1>1, <3>2, RiskiestCount
    <3>4. \A p \in DOMAIN est.ops : RiskScore(est.ops[p]) \in Nat
      <4>1. est.ops \in Seq(OperatorRisks)
        BY <1>1, OperatorsFinite
      <4>2. \A p \in DOMAIN est.ops : est.ops[p] \in OperatorRisks
        BY <4>1
      <4>3. QED
        BY <4>2, RiskScoreIsNumber
    <3>5. K \subseteq W
      <4> SUFFICES ASSUME NEW p \in K
                   PROVE  p \in W
        OBVIOUS
      <4>1. p \in Riskiest(est.ops) /\ p \in DOMAIN est.ops /\ Riskier(est.ops, p, o)
        BY DEF Riskiest
      <4>2. RiskScore(est.ops[p]) >= RiskScore(est.ops[o])
        BY <3>4, <4>1 DEF Riskier
      <4>3. RiskScore(est.ops[p]) >= 6600
        BY <2>3, <3>4, <4>1, <4>2
      <4>4. QED
        BY <3>1, <4>1, <4>2, <4>3
    <3>6. W \in SUBSET (DOMAIN est.ops) /\ IsFiniteSet(W)
      BY <1>1, OperatorsFinite
    <3> HIDE DEF K, W
    <3>7. /\ Cardinality(K) <= Cardinality(W)
          /\ Cardinality(K) \in Nat /\ Cardinality(W) \in Nat
      BY <3>5, <3>6, FS_Subset, FS_CardinalityType
    <3>8. QED
      BY <3>3, <3>7, RiskOpsAssumption DEF W
  <2>4. QED
    BY <1>1, <2>1, <2>2, <2>3, PlanCovers DEF GapsArePlanned
<1>6. RunbookObeysOptions
  <2>1. exec.records \in RecordLists
    BY <1>2, ExecutionShape
  <2>2. \A i \in DOMAIN exec.records : exec.records[i].status \in RunStatuses
    <3>1. exec.records \in Seq(RunRecords)
      BY <2>1 DEF RecordLists
    <3>2. \A i \in DOMAIN exec.records : exec.records[i] \in RunRecords
      BY <3>1, LenProperties, ElementOfSeq
    <3>3. QED
      BY <3>2 DEF RunRecords
  <2>3. ASSUME NEW i \in DOMAIN exec.records
        PROVE  Permitted(exec.records[i], exec.opts)
    BY <1>2 DEF RecordsObey
  <2>4. ASSUME exec.opts.stop, NEW i \in DOMAIN exec.records, NEW k \in 1..(i - 1),
               exec.records[k].status \in {"failed", "blocked"}
        PROVE  exec.records[i].status = "skipped"
    BY <1>2, <2>4 DEF RecordsObey, Faulty
  <2>5. ASSUME exec.exitCode = 0, exec.phase = "done", exec.opts.execute,
               NEW i \in DOMAIN exec.records
        PROVE  exec.records[i].status \in {"passed", "skipped"}
    <3>1. exec.records[i].status \notin Faulty
      BY <1>2, <2>5 DEF RecordsObey
    <3>2. exec.records[i].status # "planned"
      BY <2>3, <2>5 DEF Permitted
    <3>3. QED
      BY <2>2, <3>1, <3>2 DEF RunStatuses, Faulty
  <2>6. \A i, k \in DOMAIN exec.records : i # k => exec.records[i].task # exec.records[k].task
    BY <1>2 DEF RecordsObey, NoneTwice
  <2>7. QED
    BY <2>3, <2>4, <2>5, <2>6 DEF RunbookObeysOptions, Permitted
<1>7. QED
  BY <1>3, <1>4, <1>5, <1>6

-----------------------------------------------------------------------------
(* The commands of a tool *)

LEMMA AppendKeepsApart ==
  ASSUME NEW T, NEW s \in Seq(T), NEW x \in T, NothingTwice(s), ~Contains(s, x)
  PROVE  Append(s, x) \in Seq(T) /\ NothingTwice(Append(s, x))
<1> DEFINE t == Append(s, x)
<1>1. /\ t \in Seq(T) /\ Len(t) = Len(s) + 1 /\ t[Len(s) + 1] = x
      /\ \A i \in 1..Len(s) : t[i] = s[i]
      /\ DOMAIN t = 1..(Len(s) + 1) /\ DOMAIN s = 1..Len(s) /\ Len(s) \in Nat
  OBVIOUS
<1> HIDE DEF t
<1>2. ASSUME NEW i \in DOMAIN t, NEW j \in DOMAIN t, t[i] = t[j]
      PROVE  i = j
  <2>1. i \in 1..Len(s) \/ i = Len(s) + 1
    BY <1>1
  <2>2. j \in 1..Len(s) \/ j = Len(s) + 1
    BY <1>1
  <2>3. \A k \in 1..Len(s) : s[k] # x
    BY DEF Contains
  <2>4. QED
    BY <1>1, <1>2, <2>1, <2>2, <2>3 DEF NothingTwice
<1>3. QED
  BY <1>1, <1>2 DEF NothingTwice, t

\* One more element is taken unless it is there already.
TakeOnce(T) == [p \in Seq(T) \X T |-> IF Contains(p[1], p[2]) THEN p[1] ELSE Append(p[1], p[2])]

LEMMA TakeOnceIs ==
  ASSUME NEW T
  PROVE  /\ TakeOnce(T) \in [Seq(T) \X T -> Seq(T)]
         /\ \A u \in Seq(T), v \in T :
              TakeOnce(T)[<<u, v>>] = IF Contains(u, v) THEN u ELSE Append(u, v)
<1>1. \A p \in Seq(T) \X T : (IF Contains(p[1], p[2]) THEN p[1] ELSE Append(p[1], p[2])) \in Seq(T)
  OBVIOUS
<1>2. QED
  BY <1>1 DEF TakeOnce

\* The function the module's fold chooses.
OnceEquation(it, s) ==
  it = [S \in SUBSET DOMAIN s |->
          IF S = {} THEN <<>>
          ELSE LET i == Max(S)
               IN  IF Contains(it[S \ {i}], s[i]) THEN it[S \ {i}] ELSE Append(it[S \ {i}], s[i])]

LEMMA DistinctFolds ==
  ASSUME NEW s
  PROVE  Distinct(s) = (CHOOSE it : OnceEquation(it, s))[DOMAIN s]
BY DEF Distinct, FoldLeft, MapThenFoldSet, OnceEquation

LEMMA DistinctIsApart ==
  ASSUME NEW T, NEW s \in Seq(T)
  PROVE  Distinct(s) \in Seq(T) /\ NothingTwice(Distinct(s))
<1> DEFINE L == Len(s)
           F == TakeOnce(T)
           it == CHOOSE g : OnceEquation(g, s)
<1>1. L \in Nat /\ DOMAIN s = 1..L /\ \A i \in 1..L : s[i] \in T
  OBVIOUS
<1>2. <<>> \in Seq(T) /\ F \in [Seq(T) \X T -> Seq(T)]
  <2>1. <<>> \in Seq(T)
    OBVIOUS
  <2>2. TakeOnce(T) \in [Seq(T) \X T -> Seq(T)]
    BY TakeOnceIs
  <2>3. QED
    BY <2>1, <2>2
<1> HIDE DEF F
<1>3. PICK h \in [SUBSET (1..L) -> Seq(T)] : FoldsTo(h, F, <<>>, s, L)
  <2>1. L \in 0..L
    BY <1>1
  <2>2. QED
    BY <1>2, <2>1, FoldsExist
<1>4. OnceEquation(h, s)
  <2>1. h = [S \in SUBSET (1..L) |->
               IF S = {} THEN <<>> ELSE F[<<h[S \ {Max(S)}], s[Max(S)]>>]]
    BY <1>3 DEF FoldsTo
  <2>2. ASSUME NEW S \in SUBSET (1..L), S # {}
        PROVE  F[<<h[S \ {Max(S)}], s[Max(S)]>>] =
                 IF Contains(h[S \ {Max(S)}], s[Max(S)]) THEN h[S \ {Max(S)}]
                 ELSE Append(h[S \ {Max(S)}], s[Max(S)])
    <3>1. Max(S) \in 1..L
      BY <1>1, <2>2, MaxPlace
    <3>2. h[S \ {Max(S)}] \in Seq(T) /\ s[Max(S)] \in T
      BY <1>1, <1>3, <3>1
    <3>3. QED
      BY <3>2, TakeOnceIs DEF F
  <2>3. h = [S \in SUBSET (1..L) |->
               IF S = {} THEN <<>>
               ELSE IF Contains(h[S \ {Max(S)}], s[Max(S)]) THEN h[S \ {Max(S)}]
                    ELSE Append(h[S \ {Max(S)}], s[Max(S)])]
    BY <2>1, <2>2
  <2>4. QED
    BY <1>1, <2>3 DEF OnceEquation
<1>5. OnceEquation(it, s)
  BY <1>4
<1> HIDE DEF it
<1> DEFINE g == [i \in 0..L |-> it[1..i]]
           Bad == {i \in 0..L : ~(g[i] \in Seq(T) /\ NothingTwice(g[i]))}
<1>6. g[0] = <<>>
  <2>1. 1..0 = {}
    OBVIOUS
  <2>2. {} \in SUBSET DOMAIN s /\ 0 \in 0..L
    BY <1>1
  <2>3. it[{}] = <<>>
    BY <1>5, <2>2 DEF OnceEquation
  <2>4. QED
    BY <2>1, <2>2, <2>3
<1>7. ASSUME NEW i \in 1..L
      PROVE  g[i] = IF Contains(g[i - 1], s[i]) THEN g[i - 1] ELSE Append(g[i - 1], s[i])
  <2>1. i \in Nat /\ 1 <= i /\ i <= L /\ L \in Nat
    BY <1>1
  <2> HIDE DEF L
  <2>2. i \in 1..i /\ i \in 0..L /\ i - 1 \in 0..L /\ (1..i) \in SUBSET (1..L)
    BY <2>1
  <2>3. Max(1..i) = i
    BY <2>1, <2>2, MaxPlace
  <2>4. (1..i) \ {i} = 1..(i - 1)
    BY <2>1
  <2>5. (1..i) # {} /\ (1..i) \in SUBSET DOMAIN s
    BY <1>1, <2>2
  <2> DEFINE S == 1..i
  <2>6. it[S] = IF Contains(it[S \ {Max(S)}], s[Max(S)]) THEN it[S \ {Max(S)}]
                ELSE Append(it[S \ {Max(S)}], s[Max(S)])
    <3>1. S # {} /\ S \in SUBSET DOMAIN s
      BY <2>5
    <3> HIDE DEF S
    <3>2. QED
      BY <1>5, <3>1 DEF OnceEquation
  <2>7. it[1..i] = IF Contains(it[1..(i - 1)], s[i]) THEN it[1..(i - 1)]
                   ELSE Append(it[1..(i - 1)], s[i])
    BY <2>3, <2>4, <2>6
  <2>8. QED
    BY <2>2, <2>7
<1> DEFINE R == g[L]
<1>8. Distinct(s) = g[L]
  <2>1. L \in 0..L
    BY <1>1
  <2>2. Distinct(s) = it[1..L]
    BY <1>1, DistinctFolds DEF it
  <2>3. QED
    BY <2>1, <2>2
<1> HIDE DEF g
<1>9. Bad = {}
  <2> SUFFICES ASSUME Bad # {}
               PROVE  FALSE
    OBVIOUS
  <2>1. Bad \in SUBSET Nat
    BY <1>1
  <2>2. PICK n \in Bad : \A m \in Bad : n <= m
    BY <2>1, LeastNumber
  <2>3. NothingTwice(<<>>) /\ <<>> \in Seq(T)
    BY DEF NothingTwice
  <2>4. n \in 0..L /\ n # 0
    BY <1>6, <2>2, <2>3
  <2>5. n \in 1..L /\ n - 1 \in 0..L /\ ~(n <= n - 1)
    BY <1>1, <2>4
  <2>6. g[n - 1] \in Seq(T) /\ NothingTwice(g[n - 1]) /\ s[n] \in T
    BY <1>1, <2>2, <2>5
  <2>7. g[n] = IF Contains(g[n - 1], s[n]) THEN g[n - 1] ELSE Append(g[n - 1], s[n])
    BY <1>7, <2>5
  <2>8. g[n] \in Seq(T) /\ NothingTwice(g[n])
    BY <2>6, <2>7, AppendKeepsApart
  <2>9. QED
    BY <2>2, <2>8
<1>10. QED
  <2>1. L \in 0..L
    BY <1>1
  <2>2. QED
    BY <1>8, <1>9, <2>1

\* The interpreters and what is called with them.
Interpreters == {"python3", "python", "py"}
ToolCommands == (Interpreters \union {"iree-compile", "configured"})
              \X {"iree", "scalesim", "scalesim/scale.py", "scale.py"}
Explicits == {<<>>, <<"python3">>}

LEMMA CalledAre ==
  ASSUME NEW pythons \in Seq(Interpreters),
         NEW what \in {"iree", "scalesim", "scalesim/scale.py", "scale.py"}
  PROVE  Called(pythons, what) \in Seq(ToolCommands)
<1>1. \A i \in 1..Len(pythons) : pythons[i] \in Interpreters
  OBVIOUS
<1>2. \A i \in 1..Len(pythons) : <<pythons[i], what>> \in ToolCommands
  BY <1>1 DEF ToolCommands
<1>3. Len(pythons) \in Nat
  OBVIOUS
<1> HIDE DEF ToolCommands
<1>4. QED
  BY <1>2, <1>3 DEF Called

LEMMA CandidatesAreApart ==
  ASSUME NEW tool \in {"iree", "scalesim"}, NEW configured \in BOOLEAN, NEW explicit \in Explicits
  PROVE  /\ CommandCandidates(tool, configured, explicit) \in Seq(ToolCommands)
         /\ NothingTwice(CommandCandidates(tool, configured, explicit))
<1>1. Pythons(explicit) \in Seq(Interpreters)
  <2>1. explicit \o <<"python3", "python", "py">> \in Seq(Interpreters)
    <3>1. explicit \in Seq(Interpreters)
      <4>1. <<>> \in Seq(Interpreters)
        OBVIOUS
      <4>2. <<"python3">> \in Seq(Interpreters)
        BY DEF Interpreters
      <4>3. QED
        BY <4>1, <4>2 DEF Explicits
    <3>2. <<"python3", "python", "py">> \in Seq(Interpreters)
      BY DEF Interpreters
    <3> HIDE DEF Interpreters
    <3>3. QED
      BY <3>1, <3>2
  <2>2. QED
    BY <2>1, DistinctIsApart DEF Pythons
<1>2. CASE configured
  <2>1. <<"configured", tool>> \in ToolCommands
    BY DEF ToolCommands
  <2>2. CommandCandidates(tool, configured, explicit) = <<<<"configured", tool>>>>
    BY <1>2 DEF CommandCandidates
  <2>3. QED
    BY <2>1, <2>2 DEF NothingTwice
<1>3. CASE ~configured /\ tool = "iree"
  <2>1. <<"iree-compile", "iree">> \in ToolCommands
    BY DEF ToolCommands
  <2>2. <<<<"iree-compile", "iree">>>> \in Seq(ToolCommands)
    BY <2>1
  <2>3. Called(Pythons(explicit), "iree") \in Seq(ToolCommands)
    BY <1>1, CalledAre
  <2> DEFINE s == <<<<"iree-compile", "iree">>>> \o Called(Pythons(explicit), "iree")
  <2>4. s \in Seq(ToolCommands)
    BY <2>2, <2>3
  <2>5. CommandCandidates(tool, configured, explicit) = Distinct(s)
    BY <1>3 DEF CommandCandidates
  <2> HIDE DEF s
  <2>6. QED
    BY <2>4, <2>5, DistinctIsApart
<1>4. CASE ~configured /\ tool = "scalesim"
  <2> DEFINE a == Called(Pythons(explicit), "scalesim")
             b == Called(Pythons(explicit), "scalesim/scale.py")
             c == Called(Pythons(explicit), "scale.py")
             s == a \o b \o c
  <2>1. a \in Seq(ToolCommands) /\ b \in Seq(ToolCommands) /\ c \in Seq(ToolCommands)
    BY <1>1, CalledAre
  <2>2. CommandCandidates(tool, configured, explicit) = Distinct(s)
    BY <1>4 DEF CommandCandidates
  <2>3. s \in Seq(ToolCommands)
    <3> HIDE DEF a, b, c
    <3>1. QED
      BY <2>1
  <2> HIDE DEF s
  <2>4. QED
    BY <2>2, <2>3, DistinctIsApart
<1>5. QED
  BY <1>2, <1>3, <1>4

-----------------------------------------------------------------------------
(* The limits of a tool's time *)

LEMMA GreatestOfThree ==
  ASSUME NEW a \in Nat, NEW b \in Nat, NEW c \in Nat
  PROVE  LET m == Max({a, b, c})
         IN  m \in {a, b, c} /\ a <= m /\ b <= m /\ c <= m
<1>1. {a, b, c} \in SUBSET (0..(a + b + c)) /\ {a, b, c} # {} /\ a + b + c \in Nat
  OBVIOUS
<1>2. QED
  BY <1>1, GreatestOfSome

LEMMA LimitsHold ==
  ASSUME NEW l \in [generic : TimeLimits, tool : TimeLimits, topk : TimeLimits, saved : TimeLimits]
  PROVE  /\ Min({EffectiveTimeout(l), TopkTimeout(l)}) >= Half
         /\ EffectiveTimeout(l) >= l.saved
         /\ l.topk = Unset => TopkTimeout(l) <= EffectiveTimeout(l)
<1> DEFINE e == EffectiveTimeout(l)
           o == OrElse(l.tool, OrElse(l.generic, 600))
           k == OrElse(l.topk, Min({EffectiveTimeout(l), 1800}))
           t == TopkTimeout(l)
<1>1. l.generic \in Nat /\ l.tool \in Nat /\ l.topk \in Nat /\ l.saved \in Nat
  BY TimeLimitsAssumption
<1>2. o \in Nat
  BY <1>1 DEF OrElse
<1>3. e \in Nat /\ 30 <= e /\ l.saved <= e
  <2>1. e = Max({30, l.saved, o})
    BY DEF EffectiveTimeout, Half
  <2> HIDE DEF o, e
  <2>2. QED
    BY <1>1, <1>2, <2>1, GreatestOfThree
<1> HIDE DEF o
<1>4. Min({e, 1800}) \in Nat /\ Min({e, 1800}) <= e
  <2> HIDE DEF e
  <2>1. QED
    BY <1>3, LeastOfTwo
<1>5. k \in Nat /\ (l.topk = Unset => k <= e)
  BY <1>1, <1>4 DEF OrElse
<1>6. t \in Nat /\ 30 <= t /\ (t = 30 \/ t = k)
  <2>1. t = Max({30, k}) /\ {30, k} = {30, k, k}
    BY DEF TopkTimeout, Half
  <2>2. t = Max({30, k, k})
    BY <2>1
  <2> HIDE DEF t, k
  <2>3. QED
    BY <1>5, <2>2, GreatestOfThree
<1> HIDE DEF e, t, k
<1>7. Min({e, t}) >= 30
  BY <1>3, <1>6, LeastOfTwo
<1>8. l.topk = Unset => t <= e
  BY <1>3, <1>5, <1>6
<1>9. QED
  BY <1>3, <1>7, <1>8 DEF e, t, Half

-----------------------------------------------------------------------------
(* A tool being run *)

CallKnown ==
  call \in [tool : {"none", "iree", "scalesim"}, configured : BOOLEAN, explicit : Explicits,
            next : Nat, shown : Nat, hidden : Nat, wrote : Nat, ran : Nat]

\* While candidates are tried, what lies in the directory is the last writer's, an earlier
\* attempt's if none began to write, and each of those tried is counted.
LastWriter == IF call.wrote = 0 THEN EarlierRun ELSE call.wrote
TryingKnown ==
  tphase = "trying" =>
    /\ call.tool # "none" /\ call.ran = 0
    /\ left \in {Nobody, LastWriter} /\ call.wrote < call.next
TriedKnown ==
  call.tool # "none" =>
    /\ call.next >= 1 /\ call.shown + call.hidden = call.next - 1
    /\ call.next <= Len(CallCandidates) + 1

\* Why a tool was given up.
GivenUpKnown ==
  tphase = "failed" =>
    IF call.ran # 0 THEN call.tool = "scalesim" /\ left = Nobody
    ELSE call.tool # "none" /\ call.next > Len(CallCandidates)

LimitsKnown ==
  tphase = "limits" =>
    limits \in [generic : TimeLimits, tool : TimeLimits, topk : TimeLimits, saved : TimeLimits]

ToolsInv ==
  /\ CallKnown /\ TryingKnown /\ TriedKnown /\ GivenUpKnown /\ AnswerIsOwn
  /\ LimitsKnown /\ "vmfb" \in DOMAIN answer

LEMMA NobodyIsCalled ==
  /\ NotCalled \in [tool : {"none", "iree", "scalesim"}, configured : BOOLEAN,
                    explicit : Explicits, next : Nat, shown : Nat, hidden : Nat,
                    wrote : Nat, ran : Nat]
  /\ NotCalled.tool = "none"
BY DEF NotCalled, Explicits

LEMMA ToolsStart == ToolResultsInit => ToolsInv
<1> SUFFICES ASSUME ToolResultsInit
             PROVE  ToolsInv
  OBVIOUS
<1>1. call = NotCalled /\ tphase \in {"start", "limits"}
  BY DEF ToolResultsInit
<1>2. CallKnown /\ TriedKnown
  BY <1>1, NobodyIsCalled DEF CallKnown, TriedKnown
<1>3. TryingKnown /\ GivenUpKnown /\ AnswerIsOwn
  BY <1>1 DEF TryingKnown, GivenUpKnown, AnswerIsOwn
<1>4. LimitsKnown
  BY DEF ToolResultsInit, LimitsKnown
<1>5. "vmfb" \in DOMAIN answer
  BY DEF ToolResultsInit, NoMeasure
<1>6. QED
  BY <1>2, <1>3, <1>4, <1>5 DEF ToolsInv

LEMMA CandidatesCount ==
  ASSUME CallKnown, call.tool # "none"
  PROVE  /\ Len(CallCandidates) \in Nat /\ NothingTwice(CallCandidates)
<1>1. call.tool \in {"iree", "scalesim"} /\ call.configured \in BOOLEAN /\ call.explicit \in Explicits
  BY DEF CallKnown
<1>2. CallCandidates \in Seq(ToolCommands) /\ NothingTwice(CallCandidates)
  BY <1>1, CandidatesAreApart DEF CallCandidates
<1>3. QED
  BY <1>2

\* A candidate that fails is counted, and nothing else changes.
LEMMA FailureIsCounted ==
  ASSUME CallKnown, NEW outcome, Failed(outcome)
  PROVE  /\ call'.tool = call.tool /\ call'.configured = call.configured
         /\ call'.explicit = call.explicit /\ call'.ran = call.ran
         /\ call'.next = call.next + 1
         /\ call'.shown + call'.hidden = call.shown + call.hidden + 1
         /\ call'.wrote = Written(outcome)
         /\ CallKnown' /\ CallCandidates' = CallCandidates
<1> DEFINE noisy == IsNoisyFailure(CallCandidates[call.next], outcome)
           shown == call.shown + (IF noisy THEN 0 ELSE 1)
           hidden == call.hidden + (IF noisy THEN 1 ELSE 0)
           next == call.next + 1
           wrote == Written(outcome)
<1>1. call' = [call EXCEPT !.next = next, !.shown = shown, !.hidden = hidden, !.wrote = wrote]
  BY DEF Failed
<1>2. shown \in Nat /\ hidden \in Nat /\ shown + hidden = call.shown + call.hidden + 1 /\ next \in Nat
  BY DEF CallKnown
<1>3. wrote \in Nat
  BY DEF CallKnown, Written
<1> HIDE DEF shown, hidden, next, wrote
<1>4. /\ call'.tool = call.tool /\ call'.configured = call.configured
      /\ call'.explicit = call.explicit /\ call'.ran = call.ran
      /\ call'.next = next /\ call'.shown = shown /\ call'.hidden = hidden
      /\ CallKnown'
  BY <1>1, <1>2, <1>3 DEF CallKnown
<1>5. call'.wrote = wrote
  BY <1>1 DEF CallKnown
<1>6. CallCandidates' = CallCandidates
  BY <1>4 DEF CallCandidates
<1>7. QED
  BY <1>2, <1>4, <1>5, <1>6 DEF next, wrote

LEMMA FailureGoesOn ==
  ASSUME ToolsInv, NEW outcome \in Outcomes, Failed(outcome), tphase = "trying",
         call.next <= Len(CallCandidates), left' = After(outcome),
         outcome \in {"missing", "fails", "partial"} \/ left' = Nobody,
         tphase' = tphase, answer' = answer
  PROVE  ToolsInv'
<1>1. CallKnown /\ call.tool # "none" /\ call.ran = 0
  BY DEF ToolsInv, TryingKnown
<1>2. CallKnown' /\ call'.tool = call.tool /\ call'.ran = 0 /\ tphase' = "trying"
  BY <1>1, FailureIsCounted
<1>3. left' \in {Nobody, LastWriter'} /\ call'.wrote < call'.next
  <2>1. call'.wrote = Written(outcome) /\ call'.next = call.next + 1
    BY <1>1, FailureIsCounted
  <2>2. left \in {Nobody, LastWriter} /\ call.wrote < call.next
    BY DEF ToolsInv, TryingKnown
  <2>3. call.wrote \in Nat /\ call.next \in Nat
    BY <1>1 DEF CallKnown
  <2>4. CASE outcome \in {"partial", "writes"}
    <3>1. call'.wrote = call.next /\ left' = call.next
      BY <2>1, <2>4 DEF Written, After
    <3>2. call.next # 0
      BY <2>2, <2>3
    <3>3. QED
      BY <2>1, <2>3, <3>1, <3>2 DEF LastWriter
  <2>5. CASE outcome \notin {"partial", "writes"}
    <3>1. call'.wrote = call.wrote /\ left' \in {Nobody, left}
      BY <2>1, <2>5 DEF Written, After
    <3>2. LastWriter' = LastWriter
      BY <3>1 DEF LastWriter
    <3>3. QED
      BY <2>1, <2>2, <2>3, <3>1, <3>2
  <2>6. QED
    BY <2>4, <2>5
<1>4. TryingKnown'
  BY <1>1, <1>2, <1>3 DEF TryingKnown
<1>5. TriedKnown'
  <2>1. /\ call.next >= 1 /\ call.shown + call.hidden = call.next - 1
        /\ call.next \in Nat /\ call.shown \in Nat /\ call.hidden \in Nat
    BY <1>1 DEF ToolsInv, TriedKnown, CallKnown
  <2>2. /\ call'.next = call.next + 1 /\ CallCandidates' = CallCandidates
        /\ call'.shown + call'.hidden = call.shown + call.hidden + 1
    BY <1>1, FailureIsCounted
  <2>3. Len(CallCandidates) \in Nat
    BY <1>1, CandidatesCount
  <2> DEFINE n == Len(CallCandidates)
             m == Len(CallCandidates')
  <2>4. n \in Nat /\ m = n /\ call.next <= n
    BY <2>2, <2>3
  <2> HIDE DEF n, m
  <2>5. call'.next >= 1 /\ call'.shown + call'.hidden = call'.next - 1 /\ call'.next <= m + 1
    BY <2>1, <2>2, <2>4
  <2>6. QED
    BY <2>5 DEF TriedKnown, m
<1>6. GivenUpKnown' /\ AnswerIsOwn' /\ LimitsKnown'
  BY <1>2 DEF GivenUpKnown, AnswerIsOwn, LimitsKnown
<1>7. ("vmfb" \in DOMAIN answer)'
  BY DEF ToolsInv
<1>8. QED
  BY <1>2, <1>4, <1>5, <1>6, <1>7 DEF ToolsInv

\* A command that ends well and leaves something has left it itself, or ended silently
\* where the last writer's output lay.
LEMMA AnswerTaken ==
  ASSUME CallKnown, left \in {Nobody, LastWriter}, call.wrote < call.next,
         NEW outcome \in {"silent", "empty", "writes"}, left' = After(outcome), left' # Nobody,
         call'.wrote = Written(outcome), call'.ran = call.next
  PROVE  left' = LastWriter' /\ call'.wrote <= call'.ran
<1>1. call.wrote \in Nat /\ call.next \in Nat /\ call.next # 0
  BY DEF CallKnown
<1>2. CASE outcome = "writes"
  <2>1. left' = call.next /\ call'.wrote = call.next
    BY <1>2 DEF After, Written
  <2>2. QED
    BY <1>1, <2>1 DEF LastWriter
<1>3. CASE outcome = "silent"
  <2>1. left' = left /\ call'.wrote = call.wrote
    BY <1>3 DEF After, Written
  <2>2. LastWriter' = LastWriter
    BY <2>1 DEF LastWriter
  <2>3. QED
    BY <1>1, <2>1, <2>2
<1>4. outcome # "empty"
  BY DEF After
<1>5. QED
  BY <1>2, <1>3, <1>4

LEMMA ScaleSimSteps ==
  ASSUME ToolsInv, NEW outcome \in Outcomes, TryScaleSim(outcome)
  PROVE  ToolsInv'
<1>1. /\ tphase = "trying" /\ call.tool = "scalesim" /\ call.next <= Len(CallCandidates)
      /\ left' = After(outcome) /\ limits' = limits
  BY DEF TryScaleSim
<1>2. CallKnown /\ call.ran = 0 /\ left \in {Nobody, LastWriter} /\ call.wrote < call.next
  BY <1>1 DEF ToolsInv, TryingKnown
<1>3. CASE outcome \in {"silent", "empty", "writes"}
  <2>1. /\ call' = [call EXCEPT !.ran = call.next, !.wrote = Written(outcome)]
        /\ IF left' = Nobody THEN tphase' = "failed" /\ answer' = answer
           ELSE tphase' = "report" /\ answer' = [answer EXCEPT !.report = TRUE]
    BY <1>3 DEF TryScaleSim
  <2>2. /\ CallKnown' /\ call'.tool = "scalesim" /\ call'.ran = call.next /\ call'.next = call.next
        /\ call'.shown = call.shown /\ call'.hidden = call.hidden
        /\ call'.configured = call.configured /\ call'.explicit = call.explicit
    BY <1>1, <1>2, <2>1 DEF CallKnown, Written
  <2>3. call'.wrote = Written(outcome)
    BY <1>2, <2>1 DEF CallKnown
  <2>4. CallCandidates' = CallCandidates
    BY <1>1, <2>2 DEF CallCandidates
  <2>5. TriedKnown'
    BY <1>1, <2>2, <2>4 DEF ToolsInv, TriedKnown
  <2>6. TryingKnown' /\ LimitsKnown'
    BY <2>1 DEF TryingKnown, LimitsKnown
  <2>7. GivenUpKnown'
    <3>1. call.next >= 1 /\ call.next \in Nat
      BY <1>1, <1>2 DEF ToolsInv, TriedKnown, CallKnown
    <3>2. call'.ran # 0
      BY <2>2, <3>1
    <3>3. tphase' = "failed" => left' = Nobody
      BY <2>1
    <3>4. QED
      BY <2>2, <3>2, <3>3 DEF GivenUpKnown
  <2>8. AnswerIsOwn'
    <3>1. tphase' \in {"report", "failed"} /\ (tphase' = "report" => left' # Nobody)
      BY <2>1
    <3>2. left' # Nobody => left' = LastWriter' /\ call'.wrote <= call'.ran
      BY <1>1, <1>2, <1>3, <2>2, <2>3, AnswerTaken
    <3>3. QED
      BY <3>1, <3>2 DEF AnswerIsOwn, LastWriter
  <2>9. ("vmfb" \in DOMAIN answer)'
    BY <2>1 DEF ToolsInv
  <2>10. QED
    BY <2>2, <2>5, <2>6, <2>7, <2>8, <2>9 DEF ToolsInv
<1>4. CASE outcome \notin {"silent", "empty", "writes"}
  <2>1. Failed(outcome) /\ tphase' = tphase /\ answer' = answer
    BY <1>4 DEF TryScaleSim
  <2>2. outcome \in {"missing", "fails", "partial"}
    BY <1>4 DEF Outcomes
  <2>3. QED
    BY <1>1, <2>1, <2>2, FailureGoesOn
<1>5. QED
  BY <1>3, <1>4

LEMMA IreeSteps ==
  ASSUME ToolsInv, NEW outcome \in Outcomes, TryIree(outcome)
  PROVE  ToolsInv'
<1>1. /\ tphase = "trying" /\ call.tool = "iree" /\ call.next <= Len(CallCandidates)
      /\ left' = After(outcome) /\ limits' = limits
  BY DEF TryIree
<1>2. CallKnown /\ call.ran = 0 /\ left \in {Nobody, LastWriter} /\ call.wrote < call.next
  BY <1>1 DEF ToolsInv, TryingKnown
<1>3. CASE outcome \in {"silent", "empty", "writes"} /\ left' # Nobody
  <2>1. /\ call' = [call EXCEPT !.ran = call.next, !.wrote = Written(outcome)] /\ tphase' = "compiled"
        /\ answer' = [answer EXCEPT !.ok = TRUE, !.vmfb = left']
    BY <1>3 DEF TryIree
  <2>2. /\ CallKnown' /\ call'.tool = "iree" /\ call'.ran = call.next /\ call'.next = call.next
        /\ call'.shown = call.shown /\ call'.hidden = call.hidden
        /\ call'.configured = call.configured /\ call'.explicit = call.explicit
    BY <1>1, <1>2, <2>1 DEF CallKnown, Written
  <2>3. call'.wrote = Written(outcome)
    BY <1>2, <2>1 DEF CallKnown
  <2>4. CallCandidates' = CallCandidates
    BY <1>1, <2>2 DEF CallCandidates
  <2>5. TriedKnown'
    BY <1>1, <2>2, <2>4 DEF ToolsInv, TriedKnown
  <2>6. TryingKnown' /\ LimitsKnown' /\ GivenUpKnown'
    BY <2>1 DEF TryingKnown, LimitsKnown, GivenUpKnown
  <2>7. answer'.vmfb = left' /\ "vmfb" \in DOMAIN answer'
    BY <2>1 DEF ToolsInv
  <2>8. AnswerIsOwn'
    <3>1. left' = LastWriter' /\ call'.wrote <= call'.ran
      BY <1>1, <1>2, <1>3, <2>2, <2>3, AnswerTaken
    <3>2. QED
      BY <2>1, <2>7, <3>1 DEF AnswerIsOwn, LastWriter
  <2>9. QED
    BY <2>2, <2>5, <2>6, <2>7, <2>8 DEF ToolsInv
<1>4. CASE ~(outcome \in {"silent", "empty", "writes"} /\ left' # Nobody)
  <2>1. Failed(outcome) /\ tphase' = tphase /\ answer' = answer
    BY <1>4 DEF TryIree
  <2>2. outcome \in {"missing", "fails", "partial"} \/ left' = Nobody
    BY <1>4 DEF Outcomes
  <2>3. QED
    BY <1>1, <2>1, <2>2, FailureGoesOn
<1>5. QED
  BY <1>3, <1>4

LEMMA StartSteps ==
  ASSUME StartTool
  PROVE  /\ CallKnown' /\ TryingKnown' /\ TriedKnown' /\ GivenUpKnown' /\ AnswerIsOwn'
         /\ LimitsKnown'
<1>1. tphase' = "trying" /\ left' \in {Nobody, EarlierRun}
  BY DEF StartTool
<1>2. PICK tool \in {"scalesim", "iree"}, configured \in BOOLEAN, explicit \in Explicits :
        call' = [NotCalled EXCEPT !.tool = tool, !.configured = configured, !.explicit = explicit]
  BY DEF StartTool, Explicits
<1>3. call' = [tool |-> tool, configured |-> configured, explicit |-> explicit, next |-> 1,
               shown |-> 0, hidden |-> 0, wrote |-> 0, ran |-> 0]
  BY <1>2 DEF NotCalled
<1>4. CallKnown' /\ call'.tool # "none" /\ call'.ran = 0 /\ call'.next = 1
        /\ call'.shown = 0 /\ call'.hidden = 0
  BY <1>3 DEF CallKnown
<1>5. (Len(CallCandidates) \in Nat)'
  <2>1. /\ call'.tool \in {"iree", "scalesim"} /\ call'.configured \in BOOLEAN
        /\ call'.explicit \in Explicits
    BY <1>3
  <2>2. CommandCandidates(call'.tool, call'.configured, call'.explicit) \in Seq(ToolCommands)
    BY <2>1, CandidatesAreApart
  <2>3. Len(CommandCandidates(call'.tool, call'.configured, call'.explicit)) \in Nat
    BY <2>2
  <2>4. QED
    BY <2>3 DEF CallCandidates
<1>6. TriedKnown'
  BY <1>4, <1>5 DEF TriedKnown
<1>7. TryingKnown'
  BY <1>1, <1>3, <1>4 DEF TryingKnown, LastWriter
<1>8. GivenUpKnown' /\ AnswerIsOwn' /\ LimitsKnown'
  BY <1>1 DEF GivenUpKnown, AnswerIsOwn, LimitsKnown
<1>9. QED
  BY <1>4, <1>6, <1>7, <1>8

\* Steps after the run is over, or that leave the run as it was.
LEMMA ForgottenIsFine ==
  ASSUME call' = NotCalled, tphase' \in {"rows", "topk", "judged"}
  PROVE  /\ CallKnown' /\ TryingKnown' /\ TriedKnown' /\ GivenUpKnown' /\ AnswerIsOwn'
         /\ LimitsKnown'
BY NobodyIsCalled DEF CallKnown, TryingKnown, TriedKnown, GivenUpKnown, AnswerIsOwn, LimitsKnown

LEMMA KeptIsFine ==
  ASSUME ToolsInv, call' = call, tphase' \in {"rows", "topk", "judged"}
  PROVE  /\ CallKnown' /\ TryingKnown' /\ TriedKnown' /\ GivenUpKnown' /\ AnswerIsOwn'
         /\ LimitsKnown'
BY DEF ToolsInv, CallKnown, TryingKnown, TriedKnown, GivenUpKnown, AnswerIsOwn, LimitsKnown,
       CallCandidates

LEMMA ToolsSteps ==
  ASSUME ToolsInv, [ToolResultsNext]_tvars
  PROVE  ToolsInv'
<1>1. CASE StartTool
  <2>1. ("vmfb" \in DOMAIN answer)'
    BY <1>1 DEF StartTool, ToolsInv
  <2>2. QED
    BY <1>1, <2>1, StartSteps DEF ToolsInv
<1>2. CASE \E outcome \in Outcomes : TryScaleSim(outcome) \/ TryIree(outcome)
  BY <1>2, ScaleSimSteps, IreeSteps
<1>3. CASE OutOfCandidates
  <2>1. /\ tphase = "trying" /\ call.next > Len(CallCandidates) /\ tphase' = "failed"
        /\ call' = call /\ left' = left /\ answer' = answer /\ limits' = limits
    BY <1>3 DEF OutOfCandidates
  <2>2. call.tool # "none" /\ call.ran = 0
    BY <2>1 DEF ToolsInv, TryingKnown
  <2>3. CallCandidates' = CallCandidates
    BY <2>1 DEF CallCandidates
  <2>4. GivenUpKnown'
    BY <2>1, <2>2, <2>3 DEF GivenUpKnown
  <2>5. CallKnown' /\ TriedKnown'
    BY <2>1, <2>3 DEF ToolsInv, CallKnown, TriedKnown
  <2>6. TryingKnown' /\ AnswerIsOwn' /\ LimitsKnown'
    BY <2>1 DEF TryingKnown, AnswerIsOwn, LimitsKnown
  <2>7. QED
    BY <2>1, <2>4, <2>5, <2>6 DEF ToolsInv
<1>4. CASE ReadReport
  <2>1. call' = NotCalled /\ tphase' = "rows" /\ answer' = answer
    BY <1>4 DEF ReadReport, ForgetRun
  <2>2. QED
    BY <2>1, ForgottenIsFine DEF ToolsInv
<1>5. CASE \E ops \in Workloads : SkipFullLayer(ops)
  <2>1. call' = NotCalled /\ tphase' = "topk" /\ answer' = [answer EXCEPT !.ok = TRUE]
    BY <1>5 DEF SkipFullLayer, ForgetRun
  <2>2. ("vmfb" \in DOMAIN answer)'
    BY <2>1 DEF ToolsInv
  <2>3. QED
    BY <2>1, <2>2, ForgottenIsFine DEF ToolsInv
<1>6. CASE \E ops \in Workloads, counted \in UNION {[1..n -> LayerCycles] : n \in 0..MaxOps} :
             ParseReport(ops, counted)
  <2>1. PICK ops, counted : ParseReport(ops, counted)
    BY <1>6
  <2>2. /\ call' = call /\ tphase' = "topk"
        /\ answer' = [answer EXCEPT !.layers = ReportLayers(ops, counted), !.ok = TRUE]
    BY <2>1 DEF ParseReport
  <2>3. ("vmfb" \in DOMAIN answer)'
    BY <2>2 DEF ToolsInv
  <2>4. QED
    BY <2>2, <2>3, KeptIsFine DEF ToolsInv
<1>7. CASE \E ops \in Workloads, candidates \in TileCandidates : FallBackToTiles(ops, candidates)
  <2>1. PICK ops, candidates : FallBackToTiles(ops, candidates)
    BY <1>7
  <2> DEFINE chosen == SelectSeq(candidates, LAMBDA c : c.cycles > 0)
             good == chosen # <<>>
  <2>2. /\ call' = NotCalled /\ tphase' = "judged"
        /\ answer' = [answer EXCEPT !.topk = chosen, !.ok = good]
    BY <2>1 DEF FallBackToTiles, ForgetRun
  <2> HIDE DEF chosen, good
  <2>3. ("vmfb" \in DOMAIN answer)'
    BY <2>2 DEF ToolsInv
  <2>4. QED
    BY <2>2, <2>3, ForgottenIsFine DEF ToolsInv
<1>8. CASE \E candidates \in TileCandidates : MeasureTiles(candidates)
  <2>1. PICK candidates : MeasureTiles(candidates)
    BY <1>8
  <2> DEFINE chosen == SelectSeq(candidates, LAMBDA c : c.cycles > 0)
  <2>2. call' = call /\ tphase' = "judged" /\ answer' = [answer EXCEPT !.topk = chosen]
    BY <2>1 DEF MeasureTiles
  <2> HIDE DEF chosen
  <2>3. ("vmfb" \in DOMAIN answer)'
    BY <2>2 DEF ToolsInv
  <2>4. QED
    BY <2>2, <2>3, KeptIsFine DEF ToolsInv
<1>9. CASE UNCHANGED tvars
  <2>1. call' = call /\ tphase' = tphase /\ left' = left /\ answer' = answer /\ limits' = limits
    BY <1>9 DEF tvars
  <2>2. CallKnown' /\ TryingKnown' /\ TriedKnown' /\ GivenUpKnown' /\ LimitsKnown'
    BY <2>1 DEF ToolsInv, CallKnown, TryingKnown, TriedKnown, GivenUpKnown, LimitsKnown,
               CallCandidates, LastWriter
  <2>3. AnswerIsOwn'
    BY <2>1 DEF ToolsInv, AnswerIsOwn
  <2>4. QED
    BY <2>1, <2>2, <2>3 DEF ToolsInv
<1>10. QED
  BY <1>1, <1>2, <1>3, <1>4, <1>5, <1>6, <1>7, <1>8, <1>9 DEF ToolResultsNext

\* What a tool's state says of its answer, its candidates and its limits.
LEMMA ToolsAreSound ==
  ASSUME ToolsInv
  PROVE  AnswerIsOwn /\ EveryCandidateTried /\ LimitsAreSane
<1>1. CallKnown /\ TriedKnown /\ GivenUpKnown /\ AnswerIsOwn /\ LimitsKnown
  BY DEF ToolsInv
<1>2. ASSUME call.tool # "none"
      PROVE  /\ \A i, j \in DOMAIN CallCandidates : CallCandidates[i] = CallCandidates[j] => i = j
             /\ call.shown + call.hidden = call.next - 1
  <2>1. NothingTwice(CallCandidates)
    BY <1>1, <1>2, CandidatesCount
  <2>2. call.shown + call.hidden = call.next - 1
    BY <1>1, <1>2 DEF TriedKnown
  <2>3. QED
    BY <2>1, <2>2 DEF NothingTwice
<1>3. ASSUME tphase = "failed", call.ran = 0
      PROVE  call.shown + call.hidden = Len(CallCandidates)
  <2>1. call.tool # "none" /\ call.next > Len(CallCandidates)
    BY <1>1, <1>3 DEF GivenUpKnown
  <2>2. /\ call.shown + call.hidden = call.next - 1 /\ call.next <= Len(CallCandidates) + 1
        /\ call.next \in Nat /\ call.shown \in Nat /\ call.hidden \in Nat
    BY <1>1, <2>1 DEF TriedKnown, CallKnown
  <2>3. Len(CallCandidates) \in Nat
    BY <1>1, <2>1, CandidatesCount
  <2> DEFINE n == Len(CallCandidates)
  <2>4. n \in Nat /\ call.next > n /\ call.next <= n + 1
    BY <2>1, <2>2, <2>3
  <2> HIDE DEF n
  <2>5. call.shown + call.hidden = n
    BY <2>2, <2>4
  <2>6. QED
    BY <2>5 DEF n
<1>4. EveryCandidateTried
  BY <1>1, <1>2, <1>3 DEF EveryCandidateTried, GivenUpKnown
<1>5. LimitsAreSane
  BY <1>1, LimitsHold DEF LimitsAreSane, LimitsKnown
<1>6. QED
  BY <1>1, <1>4, <1>5

-----------------------------------------------------------------------------
(* The parts of the computations *)

\* Each part takes its own steps or none.
LEMMA PartsStep ==
  ASSUME [Next]_allVars
  PROVE  /\ [CollectionNext]_cmpvars /\ [PolicyNext]_polvars /\ [SuiteNext]_suvars
         /\ [PlanNext]_plvars /\ [SearchNext]_srvars /\ [ToolResultsNext]_tvars
         /\ [ExperimentNext]_xvars
         /\ part' = part /\ (part = "evidence" => [ValidationNext]_valvars)
BY DEF Next, allVars

LEMMA PartsInit ==
  Init => /\ CollectionInit /\ PolicyInit /\ SuiteInit /\ PlanInit /\ SearchInit
          /\ ToolResultsInit /\ ExperimentInit /\ (part = "evidence" => ValidationInit)
BY DEF Init

LEMMA CollectInvHolds == Spec => []CollectInv
BY PartsInit, PartsStep, CollectInitInv, CollectStepInv, PTL DEF Spec

\* However often jobs are measured, deleted, collected, saved and imported, whatever their
\* requests have in common: a row that no other job can be mistaken for has a measurement
\* of its own shape, target and array, no row one of another target, and after a
\* collection what was collected is in the rows (estimatorSuiteJobSamples.ts:389).
THEOREM SamplesAreOwn == Spec => [](CollectionTypeOK /\ OwnMeasurement /\ CollectedOnce)
BY CollectInvHolds, SamplesInvSays, PTL

\* An import of any files returns rows of theirs, one of each id and source, and a
\* collection of what has been collected changes and adds only rows of ids that several
\* jobs bear.
THEOREM CollectionKeeps == Spec => CollectionStable
<1>1. CollectInv /\ [Next]_allVars =>
        [Import =>
           LET both == {rows[i] : i \in DOMAIN rows} \cup {saved[i] : i \in DOMAIN saved}
           IN /\ \A i \in DOMAIN rows' : rows'[i] \in both
              /\ \A r \in both : \E i \in DOMAIN rows' :
                   rows'[i].id = r.id /\ rows'[i].source = r.source
              /\ \A i, k \in DOMAIN rows' :
                   rows'[i].id = rows'[k].id /\ rows'[i].source = rows'[k].source => i = k]_cmpvars
  BY ImportKeepsAll
<1>2. CollectInv /\ [Next]_allVars =>
        [CollectJobs /\ settled =>
           \A i \in DOMAIN rows' :
             (i \in DOMAIN rows => rows'[i] # rows[i]) => Repeated(rows'[i].id)]_cmpvars
  BY CollectedAgain
<1>3. Spec => ImportLosesNone
  BY <1>1, CollectInvHolds, PTL DEF Spec, ImportLosesNone
<1>4. Spec => CollectIsIdempotent
  BY <1>2, CollectInvHolds, PTL DEF Spec, CollectIsIdempotent
<1>5. QED
  BY <1>3, <1>4 DEF CollectionStable

\* Whatever samples are collected and whatever splits are tried: a split holds out
\* workloads, arrays, dataflows or sizes its models have not seen, what a trained suite
\* is weighted and calibrated on was predicted by models that had not seen it, and an
\* unknown array or dataflow is guarded (estimatorSuiteTraining.ts, estimatorSuite.ts).
THEOREM SuitesAreHonest ==
  Spec => [](SuiteTypeOK /\ HoldoutIsUnseen /\ FittedOutOfFold /\ UnknownIsGuarded)
<1>1. Spec => []SuiteInv
  BY PartsInit, PartsStep, SuiteInitInv, SuiteStepInv, PTL DEF Spec
<1>2. QED
  BY <1>1, SuiteInvSays, PTL

\* Whatever the axes, the tiles and the limits of a request: the stride of a sampling
\* plan has no divisor in common with the number of combinations, so that it visits none
\* twice and all of them when they fit, and a plan is never short (coprimeStride and
\* buildEstimatorSamplingPlan).
THEOREM PlansAreFull == Spec => [](PlanTypeOK /\ RowsAreDistinct /\ PlanIsFull)
<1>1. Spec => []PlanInv
  BY PartsInit, PartsStep, PlanInitInv, PlanStepInv, PTL DEF Spec
<1>2. QED
  BY <1>1, PlanInvSays, PTL

\* The samples a suite is trained from are measurements of what their rows say, as far as
\* no job can be mistaken for another, and those of a plan are all different and as many as
\* it may have.
THEOREM SamplesAreSound == Spec => []SamplesSound
<1>1. OwnMeasurement /\ CollectedOnce /\ RowsAreDistinct /\ PlanIsFull => SamplesSound
  BY DEF SamplesSound
<1>2. QED
  BY <1>1, SamplesAreOwn, PlansAreFull, PTL

\* A trained suite uses what its models have seen only where it must, guards what is
\* unknown, and corrects full-layer cycles only if it was trained on them alone or asked to
\* take all samples.
THEOREM SuitesAreSound == Spec => []SuiteSound
<1>1. HoldoutIsUnseen /\ FittedOutOfFold /\ UnknownIsGuarded /\ CyclesFromFullLayer
        /\ EstimateTellsScope => SuiteSound
  BY DEF SuiteSound
<1>2. Spec => PolicySpec
  BY PartsInit, PartsStep, PTL DEF Spec, PolicySpec
<1>3. QED
  BY <1>1, <1>2, SuitesAreHonest, CyclesAreFullLayer, ScopeIsTold, PTL

\* Whatever the tiles, their scores and the sizes of the heaps: at every moment of a
\* search each heap holds the best of the estimates so far and its root is the worst of
\* them, and each heap stays within its limit (TopK of lib/topk.ts).
THEOREM HeapsHoldTheBest == Spec => [](SearchTypeOK /\ HeapKeepsBest)
<1>1. Spec => []SearchInv
  BY PartsInit, PartsStep, SearchStarts, SearchSteps, PTL DEF Spec
<1>2. QED
  BY <1>1, SearchIsTyped, SearchIsSound, PTL

\* A search finds the tile that none of its estimates is better than, its Pareto front
\* is that of all of them as long as they had room, its heat map shows each at most
\* once, and a shape bears its own name whoever was searched for it (estimateAll).
THEOREM SearchesAreSound == Spec => []SearchSound
<1>1. Spec => []SearchInv
  BY PartsInit, PartsStep, SearchStarts, SearchSteps, PTL DEF Spec
<1>2. SearchInv => SearchSound
  BY SearchIsSound DEF SearchSound
<1>3. QED
  BY <1>1, <1>2, PTL

LEMMA EvidenceInvHolds == Spec => [](part = "evidence" => ValidationInv)
<1>1. Init => (part = "evidence" => ValidationInv)
  BY PartsInit, ValidationStarts
<1>2. ASSUME part = "evidence" => ValidationInv, [Next]_allVars
      PROVE  (part = "evidence" => ValidationInv)'
  BY <1>2, PartsStep, ValidationSteps
<1>3. QED
  BY <1>1, <1>2, PTL DEF Spec

\* Whatever was estimated and measured: a SCALE-Sim result and a compile that are no worse
\* lower no verdict, the plan has a task for every gap it can close, most urgent first, and
\* for every operator of high risk it looks at (purposeGate.ts, validationPlan.ts), and
\* executing its runbook runs nothing the options forbid, reports no command twice, goes on
\* after no failure it was to stop at and ends with an error if something it was to execute
\* was blocked or failed (scripts/validation-execute.ts).
THEOREM GatesAreSound ==
  Spec => [](part = "evidence" => /\ ValidationTypeOK /\ BetterEvidenceHelps
                                  /\ PlanCoversGaps /\ RunbookObeysOptions)
<1>1. ASSUME part = "evidence" => ValidationInv
      PROVE  part = "evidence" => /\ ValidationTypeOK /\ BetterEvidenceHelps
                                  /\ PlanCoversGaps /\ RunbookObeysOptions
  BY <1>1, ValidationIsSound
<1>2. QED
  BY <1>1, EvidenceInvHolds, PTL

\* However often candidates are missing, fail or break off: each is tried at most once and
\* counted, a tool is given up only when all failed or one ended without output, what is
\* taken for a tool's answer is what the last command that began to write has left, the
\* one it is credited to or one before it, and every limit of its time is kept
\* (runCommandCandidates and runScaleSimForJob of workerRunner.ts).
THEOREM ToolsAnswerForThemselves ==
  Spec => [](AnswerIsOwn /\ EveryCandidateTried /\ LimitsAreSane)
<1>1. Spec => []ToolsInv
  BY PartsInit, PartsStep, ToolsStart, ToolsSteps, PTL DEF Spec
<1>2. QED
  BY <1>1, ToolsAreSound, PTL

\* Whatever the targets, the shapes and what estimator and simulator say of their tiles,
\* and whatever runs fail: a tile fits its target if any does, a row tells what was
\* measured of its own tile, the oracle's is the fastest of those it tried, no entry is
\* left out unless a required one failed (scripts/tiling-experiment.ts), and a TPU that
\* goes away loses at most the last sample (scripts/tpu_matmul_bench.py).
THEOREM MeasurementsAreTrue ==
  Spec => [](CandidatesFit /\ RowsAreMeasured /\ OracleIsFastest /\ ResultsAreWhole
               /\ BenchIsKept)
<1>1. Init => MeasureInv /\ BenchInv
  BY PartsInit, ExperimentStarts
<1>2. ASSUME MeasureInv /\ BenchInv, [Next]_allVars
      PROVE  MeasureInv' /\ BenchInv'
  BY <1>2, PartsStep, MeasureSteps, BenchSteps
<1>3. QED
  BY <1>1, <1>2, MeasuresAreSound, PTL DEF Spec

\* The gate, the plan, the runbook, the tools of a job and an experiment tell the truth
\* together.
THEOREM EvidenceIsSound == Spec => []EvidenceSound
<1>1. ASSUME part = "evidence" => /\ ValidationTypeOK /\ BetterEvidenceHelps
                                  /\ PlanCoversGaps /\ RunbookObeysOptions,
             AnswerIsOwn /\ EveryCandidateTried /\ LimitsAreSane,
             CandidatesFit /\ RowsAreMeasured /\ OracleIsFastest /\ ResultsAreWhole
               /\ BenchIsKept
      PROVE  EvidenceSound
  BY <1>1 DEF EvidenceSound, ToolsSound, MeasuredSound
<1>2. QED
  BY <1>1, GatesAreSound, ToolsAnswerForThemselves, MeasurementsAreTrue, PTL
=============================================================================
