------------------------- MODULE StoreViewsProofs --------------------------
(***************************************************************************)
(* The lists of the job store, for any number of jobs, operations and      *)
(* opens of the database, any size of a page and any initial statuses.     *)
(*                                                                         *)
(* The lists are sorted sets: OrderProofs says where an element of a       *)
(* finite set comes.  What a recursive function computes (the names        *)
(* of new jobs) is shown by the least argument for which it would not, so  *)
(* that no induction theorem is needed.  Three invariants of the same      *)
(* steps follow, for the cleanup, the names and the walks, over the shape  *)
(* they share (StoreShape), one of the migrations, and what the dashboards *)
(* show of any table: they are pieces put together, and each group is      *)
(* counted from its beginning.                                             *)
(***************************************************************************)
EXTENDS StoreViews, OrderProofs

-----------------------------------------------------------------------------
(* Names of new jobs                                                         *)

Bases == {"a"}
JobNames == Bases \X (0..MaxStored)

\* Where there is room, a name that is not taken is found, and is the first such.
LEMMA UniqueNameFacts ==
  ASSUME NEW base, NEW taken, IsFiniteSet(taken), Cardinality(taken) <= MaxStored
  PROVE  \E n \in 0..MaxStored : /\ UniqueName(base, taken) = <<base, n>>
                                 /\ <<base, n>> \notin taken
<1> DEFINE free == {n \in 0..MaxStored : <<base, n>> \notin taken}
           first(n) == /\ <<base, n>> \notin taken
                       /\ \A m \in 0..(n - 1) : <<base, m>> \in taken
<1>1. MaxStored \in Nat
  BY StoreAssumption
<1>2. free # {}
  <2> SUFFICES ASSUME \A n \in 0..MaxStored : <<base, n>> \in taken
               PROVE  FALSE
    OBVIOUS
  <2> DEFINE f == [n \in 0..MaxStored |-> <<base, n>>]
  <2>1. f \in Injection(0..MaxStored, taken)
    BY DEF Injection, IsInjective
  <2>2. Cardinality(0..MaxStored) <= Cardinality(taken)
    <3> HIDE DEF f
    <3> QED
      BY <2>1, FS_Injection
  <2>3. Cardinality(0..MaxStored) = MaxStored + 1
    BY <1>1, FS_Interval
  <2>4. Cardinality(taken) \in Nat
    BY FS_CardinalityType
  <2>5. QED
    BY <1>1, <2>2, <2>3, <2>4
<1>3. free \in SUBSET Nat
  BY <1>1
<1>4. PICK n \in free : \A m \in free : n <= m
  <2> HIDE DEF free
  <2> QED
    BY <1>2, <1>3, LeastNumber
<1>5. n \in 0..MaxStored /\ first(n)
  BY <1>1, <1>4
<1>6. PICK m \in 0..MaxStored : m = (CHOOSE i \in 0..MaxStored : first(i)) /\ first(m)
  <2> HIDE DEF first
  <2> QED
    BY <1>5
<1>7. UniqueName(base, taken) = <<base, m>>
  BY <1>6 DEF UniqueName
<1>8. QED
  BY <1>6, <1>7

\* The names of one call are as many as the jobs, differ from one another and from those
\* that were taken.
LEMMA UniqueNamesFacts ==
  ASSUME NEW bases \in Seq(Bases), NEW taken, IsFiniteSet(taken),
         Cardinality(taken) + Len(bases) <= MaxStored + 1
  PROVE  /\ UniqueNames(bases, taken) \in Seq(JobNames)
         /\ Len(UniqueNames(bases, taken)) = Len(bases)
         /\ IsInjective(UniqueNames(bases, taken))
         /\ ToSet(UniqueNames(bases, taken)) \cap taken = {}
<1> DEFINE L == Len(bases)
           next(s, n) == Append(s, UniqueName(bases[n], taken \cup ToSet(s)))
           Good(s, n) == /\ s \in Seq(JobNames) /\ Len(s) = n
                         /\ IsInjective(s) /\ ToSet(s) \cap taken = {}
           Run(g, n) == /\ g \in [0..n -> Seq(JobNames)]
                        /\ g[0] = <<>>
                        /\ \A k \in 1..n : g[k] = next(g[k - 1], k)
                        /\ \A k \in 0..n : Good(g[k], k)
<1>1. L \in Nat /\ MaxStored \in Nat /\ Cardinality(taken) \in Nat
  BY StoreAssumption, FS_CardinalityType
<1>2. Good(<<>>, 0)
  BY DEF IsInjective, ToSet
<1>3. ASSUME NEW n \in 1..L, NEW s, Good(s, n - 1)
      PROVE  Good(next(s, n), n)
  <2>1. s \in Seq(JobNames) /\ Len(s) = n - 1 /\ DOMAIN s = 1..(n - 1)
    BY <1>3
  <2>2. IsFiniteSet(ToSet(s)) /\ Cardinality(ToSet(s)) <= n - 1
    <3> DEFINE D == 1..(n - 1)
    <3>1. IsFiniteSet(D) /\ Cardinality(D) = n - 1
      <4>1. n - 1 \in Nat
        BY <1>1
      <4>2. QED
        BY <4>1, FS_Interval
    <3>2. s \in [D -> JobNames] /\ ToSet(s) = {s[x] : x \in D}
      BY <2>1 DEF ToSet
    <3> HIDE DEF D
    <3>3. IsFiniteSet({s[x] : x \in D}) /\ Cardinality({s[x] : x \in D}) <= Cardinality(D)
      BY <3>1, <3>2, ImageCount
    <3>4. QED
      BY <3>1, <3>2, <3>3
  <2> DEFINE known == taken \cup ToSet(s)
  <2>3. IsFiniteSet(known) /\ Cardinality(known) <= MaxStored
    <3>1. /\ IsFiniteSet(known)
          /\ Cardinality(known) = Cardinality(taken) + Cardinality(ToSet(s))
                                   - Cardinality(taken \cap ToSet(s))
      BY <2>2, FS_Union
    <3>2. Cardinality(ToSet(s)) \in Nat /\ Cardinality(taken \cap ToSet(s)) \in Nat
      BY <2>2, FS_Intersection, FS_CardinalityType
    <3>3. QED
      BY <1>1, <2>2, <3>1, <3>2
  <2>4. PICK m \in 0..MaxStored : /\ UniqueName(bases[n], known) = <<bases[n], m>>
                                  /\ <<bases[n], m>> \notin known
    <3> HIDE DEF known
    <3> QED
      BY <2>3, UniqueNameFacts
  <2>5. <<bases[n], m>> \in JobNames
    BY <1>1 DEF JobNames
  <2> DEFINE x == <<bases[n], m>>
  <2>6. next(s, n) = Append(s, x)
    BY <2>4
  <2>7. x \in JobNames /\ x \notin taken /\ x \notin ToSet(s)
    BY <2>4, <2>5
  <2>8. Good(Append(s, x), n)
    <3> HIDE DEF x
    <3>1. /\ Append(s, x) \in Seq(JobNames) /\ Len(Append(s, x)) = n
          /\ DOMAIN Append(s, x) = 1..n
          /\ \A i \in 1..(n - 1) : Append(s, x)[i] = s[i]
          /\ Append(s, x)[n] = x
      BY <2>1, <2>7
    <3>2. \A i \in 1..(n - 1) : s[i] # x /\ s[i] \notin taken
      BY <1>3, <2>1, <2>7 DEF ToSet
    <3>3. IsInjective(Append(s, x))
      <4> SUFFICES ASSUME NEW i \in 1..n, NEW j \in 1..n, Append(s, x)[i] = Append(s, x)[j]
                   PROVE  i = j
        BY <3>1 DEF IsInjective
      <4>1. CASE i = n \/ j = n
        BY <3>1, <3>2, <4>1
      <4>2. CASE i # n /\ j # n
        <5>1. i \in 1..(n - 1) /\ j \in 1..(n - 1)
          BY <4>2
        <5>2. s[i] = s[j]
          BY <3>1, <5>1
        <5>3. QED
          BY <1>3, <2>1, <5>1, <5>2 DEF IsInjective
      <4>3. QED
        BY <4>1, <4>2
    <3>4. ToSet(Append(s, x)) \cap taken = {}
      <4>1. \A i \in 1..n : Append(s, x)[i] \notin taken
        BY <2>7, <3>1, <3>2
      <4>2. QED
        BY <3>1, <4>1 DEF ToSet
    <3>5. QED
      BY <3>1, <3>3, <3>4
  <2>9. QED
    BY <2>6, <2>8
<1> HIDE DEF next, Good
<1>4. \A n \in 0..L : \E g : Run(g, n)
  <2> DEFINE bad == {n \in 0..L : ~\E g : Run(g, n)}
  <2> SUFFICES bad = {}
    OBVIOUS
  <2> SUFFICES ASSUME bad # {} PROVE FALSE
    OBVIOUS
  <2>1. bad \in SUBSET Nat
    BY <1>1
  <2>2. PICK n \in bad : \A k \in bad : n <= k
    <3> HIDE DEF bad
    <3> QED
      BY <2>1, LeastNumber
  <2>3. n # 0
    <3>1. Run([k \in 0..0 |-> <<>>], 0)
      BY <1>2 DEF Good
    <3>2. QED
      BY <2>2, <3>1
  <2>4. n \in 1..L /\ n - 1 \in 0..L /\ n - 1 \notin bad
    <3>1. n \in 0..L
      BY <2>2
    <3>2. n - 1 \notin bad
      <4> HIDE DEF bad
      <4> QED
        BY <1>1, <2>2, <3>1
    <3>3. n \in 1..L /\ n - 1 \in 0..L
      <4> HIDE DEF bad, L
      <4> QED
        BY <1>1, <2>3, <3>1
    <3>4. QED
      BY <3>2, <3>3
  <2>5. PICK g : Run(g, n - 1)
    BY <2>4
  <2> DEFINE h == [k \in 0..n |-> IF k = n THEN next(g[n - 1], n) ELSE g[k]]
  <2>6. /\ \A k \in 0..(n - 1) : h[k] = g[k]
        /\ h[n] = next(g[n - 1], n) /\ n - 1 \in 0..(n - 1)
    BY <2>4
  <2>7. Good(h[n], n)
    BY <1>3, <2>4, <2>5, <2>6
  <2>8. \A k \in 0..n : Good(h[k], k)
    <3>1. \A k \in 0..n : k = n \/ k \in 0..(n - 1)
      BY <2>4
    <3>2. QED
      BY <2>5, <2>6, <2>7, <3>1
  <2>9. h \in [0..n -> Seq(JobNames)]
    <3>1. \A k \in 0..n : h[k] \in Seq(JobNames)
      BY <2>8 DEF Good
    <3>2. QED
      BY <3>1
  <2>10. h[0] = <<>>
    BY <2>4, <2>5, <2>6
  <2>11. ASSUME NEW k \in 1..n
         PROVE  h[k] = next(h[k - 1], k)
    <3>1. CASE k = n
      BY <2>4, <2>6, <3>1
    <3>2. CASE k # n
      <4>1. k \in 1..(n - 1) /\ k \in 0..(n - 1) /\ k - 1 \in 0..(n - 1)
        BY <2>4, <3>2
      <4>2. QED
        BY <2>5, <2>6, <4>1
    <3>3. QED
      BY <3>1, <3>2
  <2>12. Run(h, n)
    <3> HIDE DEF h
    <3> QED
      BY <2>8, <2>9, <2>10, <2>11
  <2>13. QED
    BY <2>2, <2>12
<1>5. PICK g : Run(g, L)
  <2>1. L \in 0..L
    BY <1>1
  <2> HIDE DEF Run, L
  <2>2. QED
    BY <1>4, <2>1
<1> DEFINE body(f) == [n \in 0..L |-> IF n = 0 THEN <<>> ELSE next(f[n - 1], n)]
           names == CHOOSE f : f = body(f)
<1>6. g = body(g)
  <2>1. \A n \in 0..L : g[n] = body(g)[n]
    <3> SUFFICES ASSUME NEW n \in 0..L PROVE g[n] = body(g)[n]
      OBVIOUS
    <3>1. CASE n = 0
      BY <1>5, <3>1
    <3>2. CASE n # 0
      <4>1. n \in 1..L
        BY <1>1, <3>2
      <4>2. QED
        BY <1>5, <3>2, <4>1
    <3>3. QED
      BY <3>1, <3>2
  <2>2. QED
    BY <1>5, <2>1
<1>7. names = body(names)
  <2> HIDE DEF body
  <2> QED
    BY <1>6
<1>8. UniqueNames(bases, taken) = names[L]
  BY DEF UniqueNames, next
<1>9. \A n \in 0..L : names[n] = g[n]
  <2> DEFINE bad == {n \in 0..L : names[n] # g[n]}
  <2> SUFFICES ASSUME bad # {} PROVE FALSE
    OBVIOUS
  <2>1. bad \in SUBSET Nat
    BY <1>1
  <2>2. PICK n \in bad : \A k \in bad : n <= k
    <3> HIDE DEF bad
    <3> QED
      BY <2>1, LeastNumber
  <2>3. n # 0
    <3>1. names[0] = <<>>
      <4> HIDE DEF names
      <4> QED
        BY <1>1, <1>7
    <3>2. QED
      BY <1>5, <2>2, <3>1
  <2>4. n \in 1..L /\ n - 1 \in 0..L /\ n - 1 \notin bad
    <3> HIDE DEF names
    <3> QED
      BY <1>1, <2>2, <2>3
  <2>5. names[n] = next(names[n - 1], n)
    <3> HIDE DEF names
    <3> QED
      BY <1>1, <1>7, <2>3, <2>4
  <2>6. names[n] = g[n]
    <3> HIDE DEF names
    <3> QED
      BY <1>5, <2>4, <2>5
  <2>7. QED
    BY <2>2, <2>6
<1>10. Good(names[L], L)
  <2> HIDE DEF names
  <2> QED
    BY <1>1, <1>5, <1>9
<1>11. QED
  BY <1>8, <1>10 DEF Good

-----------------------------------------------------------------------------
(* The lists of the store.  A row keeps the time its job was created at, so  *)
(* that a walk never sees two jobs change places.                            *)

\* [status, created, updated, finished, name]
IsRow(r) ==
  /\ r = [status |-> r.status, created |-> r.created, updated |-> r.updated,
          finished |-> r.finished, name |-> r.name]
  /\ r.status \in StoredStatuses /\ r.created \in Nat /\ r.updated \in Nat
  /\ r.finished \in Nat /\ (r.status \in Ended => r.finished # 0)

\* The table holds rows of ids that were given out.
RowsOK ==
  /\ used \in 0..MaxStored /\ InTable \subseteq 1..used
  /\ rows = [j \in InTable |-> rows[j]] /\ \A j \in InTable : IsRow(rows[j])

Older == {p \in InTable \X InTable : \/ rows[p[1]].created < rows[p[2]].created
                                     \/ /\ rows[p[1]].created = rows[p[2]].created
                                        /\ p[1] < p[2]}
Newer == {p \in InTable \X InTable : <<p[2], p[1]>> \in Older}

LEMMA TableFacts ==
  ASSUME RowsOK
  PROVE  /\ \A j \in InTable : j \in Nat /\ rows[j].created \in Nat /\ rows[j].updated \in Nat
         /\ \A S \in SUBSET InTable : IsFiniteSet(S)
<1>1. MaxStored \in Nat
  BY StoreAssumption
<1>2. used \in Nat
  BY <1>1 DEF RowsOK
<1>3. IsFiniteSet(1..used)
  BY <1>2, FS_Interval
<1>4. \A S \in SUBSET InTable : IsFiniteSet(S)
  <2>1. \A S \in SUBSET InTable : S \in SUBSET (1..used)
    BY DEF RowsOK
  <2>2. QED
    BY <1>3, <2>1, FS_Subset
<1>5. QED
  BY <1>2, <1>4 DEF RowsOK, IsRow

LEMMA CreationOrder ==
  ASSUME RowsOK, NEW S \in SUBSET InTable
  PROVE  /\ IsStrictOrder(Older, S) /\ CreatedAsc(S) = Sorted(Older, S)
         /\ IsStrictOrder(Newer, S) /\ ByCreation(S) = Sorted(Newer, S)
<1>1. \A x, y \in InTable :
        <<x, y>> \in Older <=> \/ rows[x].created < rows[y].created
                               \/ rows[x].created = rows[y].created /\ x < y
  BY DEF Older
<1>2. IsStrictOrder(Older, S)
  <2>1. \A x \in S : <<x, x>> \notin Older
    BY <1>1, TableFacts
  <2>2. \A x, y, z \in S : <<x, y>> \in Older /\ <<y, z>> \in Older => <<x, z>> \in Older
    BY <1>1, TableFacts
  <2>3. \A x, y \in S : x # y => <<x, y>> \in Older \/ <<y, x>> \in Older
    BY <1>1, TableFacts
  <2>4. QED
    BY <2>1, <2>2, <2>3 DEF IsStrictOrder
<1>3. \A x \in S : Below(Older, S, x) =
                   {y \in S : \/ rows[y].created < rows[x].created
                              \/ (rows[y].created = rows[x].created /\ y < x)}
  BY <1>1 DEF Below
<1>4. CreatedAsc(S) = Sorted(Older, S)
  <2> DEFINE older(x) == {y \in S : \/ rows[y].created < rows[x].created
                                    \/ (rows[y].created = rows[x].created /\ y < x)}
  <2>1. CreatedAsc(S) = [i \in 1..Cardinality(S) |->
                           CHOOSE x \in S : Cardinality(older(x)) = i - 1]
    BY DEF CreatedAsc, SortedBy
  <2>2. \A x \in S : older(x) = Below(Older, S, x)
    BY <1>3
  <2> HIDE DEF older
  <2>3. \A i \in 1..Cardinality(S) :
          (CHOOSE x \in S : Cardinality(older(x)) = i - 1)
            = (CHOOSE x \in S : Cardinality(Below(Older, S, x)) = i - 1)
    BY <2>2
  <2>4. QED
    BY <2>1, <2>3 DEF Sorted
<1>5. \A x, y \in S : <<x, y>> \in Newer <=> <<y, x>> \in Older
  BY DEF Newer
<1>6. QED
  BY <1>2, <1>4, <1>5, TableFacts, SortedReversed DEF ByCreation

-----------------------------------------------------------------------------
(* The store: the shape of its state                                        *)

\* Every step of a part that is about the lists
StoreMove ==
  StoreWalks \/ StoreCreations(Creators) \/ StoreWork \/ StoreRequests \/ StoreCleanup

\* [names, careless, now]
IsCall(c) ==
  /\ c = [names |-> c.names, careless |-> c.careless, now |-> c.now]
  /\ c.names \in Seq(JobNames) /\ c.careless \in BOOLEAN /\ c.now \in Nat
\* There is room for all the jobs that calls have names for.
CallsOK ==
  /\ creating = [c \in Creators |-> creating[c]] /\ \A c \in Creators : IsCall(creating[c])
  /\ used + Len(creating[1].names) + Len(creating[2].names) <= MaxStored

\* [how, filter, at, seen, wanted, gone, tied, ended], about the ids up to n
IsWalk(w, n) ==
  /\ w = [how |-> w.how, filter |-> w.filter, at |-> w.at, seen |-> w.seen,
          wanted |-> w.wanted, gone |-> w.gone, tied |-> w.tied, ended |-> w.ended]
  /\ w.how \in {"none", "page", "cursor"} /\ {w.filter, w.gone, w.tied, w.ended} \subseteq BOOLEAN
  /\ w.at \in Nat /\ w.seen \in SUBSET (1..n) /\ w.wanted \in SUBSET (1..n)
\* [todo, cutoff, keep]
IsCleaning(c, n) ==
  /\ c = [todo |-> c.todo, cutoff |-> c.cutoff, keep |-> c.keep]
  /\ c.todo \in SUBSET [id : 1..n, status : StoredStatuses, at : Nat]
  /\ c.cutoff \in Int /\ c.keep \in BOOLEAN
FilesOK ==
  /\ dirs \in SUBSET (1..used) /\ held \in SUBSET (1..used) /\ deleting \in SUBSET (1..used)
  /\ beside \in SUBSET (Auxiliary \X (1..used)) /\ now \in Nat
StoreShape ==
  RowsOK /\ FilesOK /\ CallsOK /\ IsWalk(walk, used) /\ IsCleaning(clean, used)

\* A row that is written
LEMMA SavedRowFacts ==
  ASSUME RowsOK, used' \in {used, used + 1}, used' <= MaxStored,
         NEW j \in 1..used', NEW rec, IsRow(rec), rows' = SavedRow(j, rec)
  PROVE  /\ RowsOK' /\ InTable' = InTable \cup {j} /\ rows'[j] = rec
         /\ \A i \in InTable \ {j} : rows'[i] = rows[i]
<1>1. MaxStored \in Nat
  BY StoreAssumption
<1>2. used \in Nat /\ used' \in 0..MaxStored /\ 1..used \subseteq 1..used'
  BY <1>1 DEF RowsOK
<1>3. /\ InTable' = InTable \cup {j} /\ rows'[j] = rec
      /\ \A i \in InTable \ {j} : rows'[i] = rows[i]
      /\ rows' = [i \in InTable' |-> rows'[i]]
  BY DEF SavedRow, InTable
<1>4. \A i \in InTable' : IsRow(rows'[i])
  BY <1>3 DEF RowsOK
<1>5. InTable' \subseteq 1..used'
  BY <1>2, <1>3 DEF RowsOK
<1>6. RowsOK'
  <2>1. \A i \in InTable' : IsRow(rows[i])'
    BY <1>4 DEF IsRow
  <2>2. QED
    BY <1>2, <1>3, <1>5, <2>1 DEF RowsOK
<1>7. QED
  BY <1>3, <1>6

\* A job that is saved again
LEMMA SaveJobFacts ==
  ASSUME RowsOK, NEW j \in 1..used, used' = used, now' \in Nat \ {0},
         NEW status \in StoredStatuses, SaveJob(j, status)
  PROVE  /\ RowsOK' /\ InTable' = InTable \cup {j} /\ dirs' = dirs \cup {j} /\ Seen(rows')
         /\ \A i \in InTable \ {j} : rows'[i] = rows[i]
         /\ rows'[j].status = status /\ rows'[j].updated = now'
         /\ j \in InTable => /\ rows'[j].created = rows[j].created
                             /\ rows'[j].name = rows[j].name
                             /\ rows[j].status \in Ended => rows'[j].finished = rows[j].finished
         /\ j \notin InTable => rows'[j].created = j /\ rows'[j].name = <<"b", j>>
<1> DEFINE old == IF j \in InTable THEN rows[j]
                  ELSE [status |-> "running", created |-> j, updated |-> j, finished |-> 0,
                        name |-> <<"b", j>>]
           end == IF status \in Ended /\ old.status \notin Ended THEN now' ELSE old.finished
           rec == [old EXCEPT !.status = status, !.updated = now', !.finished = end]
<1>1. used \in Nat /\ used <= MaxStored /\ j \in Nat
  BY StoreAssumption DEF RowsOK
<1>2. IsRow(old)
  BY <1>1 DEF RowsOK, IsRow, StoredStatuses, Ended
<1>21. rows' = SavedRow(j, rec) /\ dirs' = dirs \cup {j} /\ Seen(rows')
  BY DEF SaveJob
<1>22. j \in InTable => old = rows[j]
  OBVIOUS
<1>23. j \notin InTable => old.created = j /\ old.name = <<"b", j>>
  OBVIOUS
<1> HIDE DEF old
<1>24. end \in Nat /\ (status \in Ended => end # 0)
       /\ (old.status \in Ended => end = old.finished)
  BY <1>2 DEF IsRow
<1> HIDE DEF end
<1>3. rec = [status |-> status, created |-> old.created, updated |-> now', finished |-> end,
             name |-> old.name]
  <2>1. old = [status |-> old.status, created |-> old.created, updated |-> old.updated,
               finished |-> old.finished, name |-> old.name]
    BY <1>2 DEF IsRow
  <2>2. PICK q : q = [old EXCEPT !.status = status, !.updated = now', !.finished = end]
    OBVIOUS
  <2>3. q = [status |-> status, created |-> old.created, updated |-> now', finished |-> end,
             name |-> old.name]
    BY <2>1, <2>2
  <2>4. QED
    BY <2>2, <2>3
<1>4. IsRow(rec)
  BY <1>2, <1>24, <1>3 DEF IsRow
<1> HIDE DEF rec
<1>6. /\ RowsOK' /\ InTable' = InTable \cup {j} /\ rows'[j] = rec
      /\ \A i \in InTable \ {j} : rows'[i] = rows[i]
  BY <1>1, <1>4, <1>21, SavedRowFacts
<1>7. /\ rec.status = status /\ rec.updated = now' /\ rec.created = old.created
      /\ rec.name = old.name /\ rec.finished = end
  BY <1>3
<1>8. QED
  BY <1>21, <1>22, <1>23, <1>24, <1>6, <1>7

\* A walk watches what is written.
LEMMA SeenFacts ==
  ASSUME IsWalk(walk, used), used \in Nat, used' \in {used, used + 1}, NEW table, Seen(table)
  PROVE  /\ IsWalk(walk', used') /\ walk'.how = walk.how /\ walk'.filter = walk.filter
         /\ walk'.at = walk.at /\ walk'.seen = walk.seen /\ walk'.ended = walk.ended
         /\ walk.how = "none" \/ walk.ended => walk' = walk
         /\ ~(walk.how = "none" \/ walk.ended) =>
              /\ walk'.wanted = walk.wanted \cap InView(table)
              /\ walk'.gone = (walk.gone \/ ~(InView(rows) \subseteq InView(table)))
              /\ walk'.tied = (walk.tied \/ Tied(table))
<1>1. 1..used \subseteq 1..used'
  OBVIOUS
<1>2. CASE walk.how = "none" \/ walk.ended
  BY <1>1, <1>2 DEF Seen, IsWalk
<1>3. CASE ~(walk.how = "none" \/ walk.ended)
  <2> DEFINE wanted == walk.wanted \cap InView(table)
             gone == walk.gone \/ ~(InView(rows) \subseteq InView(table))
             tied == walk.tied \/ Tied(table)
  <2>1. walk' = [walk EXCEPT !.wanted = wanted, !.gone = gone, !.tied = tied]
    BY <1>3 DEF Seen
  <2>2. gone \in BOOLEAN /\ tied \in BOOLEAN /\ wanted \subseteq walk.wanted
    OBVIOUS
  <2> HIDE DEF wanted, gone, tied
  <2>3. walk' = [how |-> walk.how, filter |-> walk.filter, at |-> walk.at, seen |-> walk.seen,
                 wanted |-> wanted, gone |-> gone, tied |-> tied, ended |-> walk.ended]
    BY <2>1 DEF IsWalk
  <2>4. IsWalk(walk', used')
    BY <1>1, <2>2, <2>3 DEF IsWalk
  <2>5. QED
    BY <1>3, <2>3, <2>4 DEF wanted, gone, tied
<1>4. QED
  BY <1>2, <1>3

\* The order of the lists takes jobs of the table only.
LEMMA ViewFacts ==
  ASSUME RowsOK
  PROVE  /\ InView(rows) \in SUBSET InTable
         /\ \A S \in SUBSET InTable : /\ ByCreation(S) \in Seq(S)
                                      /\ Len(ByCreation(S)) = Cardinality(S)
                                      /\ Cardinality(S) \in Nat
<1>1. InView(rows) \in SUBSET InTable
  BY DEF InView, InTable
<1>2. ASSUME NEW S \in SUBSET InTable
      PROVE  /\ ByCreation(S) \in Seq(S) /\ Len(ByCreation(S)) = Cardinality(S)
             /\ Cardinality(S) \in Nat
  <2>1. IsFiniteSet(S) /\ IsStrictOrder(Newer, S) /\ ByCreation(S) = Sorted(Newer, S)
    BY TableFacts, CreationOrder
  <2>2. QED
    BY <2>1, SortedFacts
<1>3. QED
  BY <1>1, <1>2

LEMMA MinFacts ==
  ASSUME NEW a \in Nat, NEW b \in Nat
  PROVE  Min({a, b}) = (IF a <= b THEN a ELSE b)
BY DEF Min
LEMMA MaxFacts ==
  ASSUME NEW a \in Int, NEW b \in Int
  PROVE  Max({a, b}) = (IF a >= b THEN a ELSE b)
BY DEF Max

\* A page is a part of the list.
LEMMA PageFacts ==
  ASSUME NEW S, NEW all \in Seq(S), NEW start \in Nat
  PROVE  LET end == Min({start + Limit, Len(all)})
         IN /\ end \in Nat /\ end = (IF start + Limit <= Len(all) THEN start + Limit ELSE Len(all))
            /\ SubSeq(all, start + 1, end) \in Seq(S)
            /\ ToSet(SubSeq(all, start + 1, end)) \subseteq S
<1> DEFINE end == Min({start + Limit, Len(all)})
<1>1. Limit \in Nat /\ Len(all) \in Nat /\ start + Limit \in Nat
  BY StoreAssumption
<1>2. end = IF start + Limit <= Len(all) THEN start + Limit ELSE Len(all)
  BY <1>1, MinFacts
<1>3. end \in Nat /\ end <= Len(all)
  BY <1>1, <1>2
<1> HIDE DEF end
<1>4. SubSeq(all, start + 1, end) \in Seq(S) /\ ToSet(SubSeq(all, start + 1, end)) \subseteq S
  BY <1>3, SubSeqElements
<1>5. QED
  BY <1>2, <1>3, <1>4 DEF end

\* A walk by page goes on.
LEMMA NextPageFacts ==
  ASSUME RowsOK, walk.at \in Nat
  PROVE  LET all == ByCreation(InView(rows))
             start == walk.at * Limit
             end == Min({start + Limit, Len(all)})
         IN /\ start \in Nat /\ end \in Nat
            /\ end = (IF start + Limit <= Len(all) THEN start + Limit ELSE Len(all))
            /\ all \in Seq(InView(rows)) /\ Len(all) = Cardinality(InView(rows))
            /\ Cardinality(InView(rows)) \in Nat
            /\ ToSet(SubSeq(all, start + 1, end)) \subseteq InView(rows)
<1>1. Limit \in Nat
  BY StoreAssumption
<1>2. walk.at * Limit \in Nat
  BY <1>1
<1>3. /\ ByCreation(InView(rows)) \in Seq(InView(rows))
      /\ Len(ByCreation(InView(rows))) = Cardinality(InView(rows))
      /\ Cardinality(InView(rows)) \in Nat
  BY ViewFacts
<1>4. QED
  BY <1>2, <1>3, PageFacts

CursorPlace(all, c) == Max({0} \cup {i \in DOMAIN all : all[i] = c})

\* The place of a cursor: of the element it names, or before all of them.
LEMMA CursorFacts ==
  ASSUME NEW S, IsFiniteSet(S), NEW all \in SetToSeqs(S), NEW c
  PROVE  LET start == CursorPlace(all, c)
         IN /\ all \in Seq(S) /\ Len(all) = Cardinality(S) /\ Cardinality(S) \in Nat
            /\ start \in 0..Len(all)
            /\ start = 0 => \A i \in 1..Len(all) : all[i] # c
            /\ start # 0 => all[start] = c
            /\ \A x \in S : \E i \in 1..Len(all) : all[i] = x
<1> DEFINE N == Cardinality(S)
           D == 1..N
           places == {i \in DOMAIN all : all[i] = c}
<1>1. N \in Nat /\ all \in [D -> S] /\ \A i, j \in D : i # j => all[i] # all[j]
  BY FS_CardinalityType DEF SetToSeqs
<1>2. all \in Seq(S) /\ Len(all) = N /\ DOMAIN all = D
  <2> HIDE DEF N
  <2> QED
    BY <1>1
<1>3. \A x \in S : \E i \in D : all[i] = x
  <2>1. IsFiniteSet(D) /\ Cardinality(D) = N
    BY <1>1, FS_Interval
  <2>2. all \in Injection(D, S)
    BY <1>1 DEF Injection, IsInjective
  <2> HIDE DEF D
  <2>3. all \in Surjection(D, S)
    BY <2>1, <2>2, FS_Injection
  <2>4. QED
    BY <2>3 DEF Surjection
<1>4. CASE places = {}
  <2>1. {0} \cup places = {0}
    BY <1>4
  <2>2. Max({0} \cup places) = 0
    BY <2>1 DEF Max
  <2>3. \A i \in 1..N : all[i] # c
    BY <1>2, <1>4
  <2>4. QED
    BY <1>1, <1>2, <1>3, <2>2, <2>3 DEF CursorPlace
<1>5. CASE places # {}
  <2>1. PICK i \in D : all[i] = c
    BY <1>2, <1>5
  <2>2. places = {i}
    BY <1>1, <1>2, <2>1
  <2>3. {0} \cup places = {0, i}
    BY <2>2
  <2>4. i \in Nat /\ i # 0 /\ i <= N
    BY <1>1, <2>1
  <2>5. Max({0} \cup places) = i
    BY <2>3, <2>4, MaxFacts
  <2>6. QED
    BY <1>1, <1>2, <1>3, <2>1, <2>4, <2>5 DEF CursorPlace
<1>6. QED
  BY <1>4, <1>5 DEF CursorPlace

-----------------------------------------------------------------------------
(* The steps that write a job keep the shape of the store.                   *)

\* A call takes names for as many jobs as there is room for.
LEMMA StartCreationShape ==
  ASSUME StoreShape, NEW c \in Creators, NEW bases \in Seq(Bases), StartCreation(c, bases)
  PROVE  /\ StoreShape'
         /\ \E newest \in SUBSET InTable : \E names :
              /\ names = UniqueNames(bases, {rows[j].name : j \in newest})
              /\ names \in Seq(JobNames) /\ Len(names) = Len(bases) /\ IsInjective(names)
              /\ ToSet(names) \cap {rows[j].name : j \in newest} = {}
              /\ creating' = [creating EXCEPT ![c] =
                   [names |-> names, now |-> now',
                    careless |-> newest # InTable \/ \E d \in Creators : creating[d].names # <<>>]]
<1> DEFINE newest == ToSet(FirstOf(ByCreation(InTable), NamesRead))
           taken == {rows[j].name : j \in newest}
           names == UniqueNames(bases, taken)
           call == [names |-> names, now |-> now',
                    careless |-> newest # InTable \/ \E d \in Creators : creating[d].names # <<>>]
<1>1. /\ creating' = [creating EXCEPT ![c] = call] /\ now' = now + 1
      /\ used + Len(bases) <= MaxStored
      /\ \A d \in Creators \ {c} : used + Len(creating[d].names) + Len(bases) <= MaxStored
      /\ UNCHANGED <<rows, dirs, beside, held, deleting, used, walk, clean>>
  BY DEF StartCreation, StoreTick
<1>2. used \in Nat /\ MaxStored \in Nat /\ NamesRead \in Nat /\ now \in Nat /\ Len(bases) \in Nat
  BY StoreAssumption DEF StoreShape, RowsOK, FilesOK
<1>3. newest \in SUBSET InTable
  <2> DEFINE all == ByCreation(InTable)
             end == Min({Len(all), Max({NamesRead, 0})})
  <2>1. all \in Seq(InTable) /\ Len(all) \in Nat
    BY ViewFacts DEF StoreShape
  <2>2. end \in Nat /\ end <= Len(all)
    BY <1>2, <2>1, MinFacts, MaxFacts
  <2>3. FirstOf(all, NamesRead) = SubSeq(all, 1, end)
    BY DEF FirstOf
  <2> HIDE DEF all, end
  <2>4. ToSet(SubSeq(all, 1, end)) \subseteq InTable
    BY <2>1, <2>2, SubSeqElements
  <2>5. QED
    BY <2>3, <2>4 DEF all
<1> HIDE DEF newest
<1>4. IsFiniteSet(taken) /\ Cardinality(taken) \in Nat /\ Cardinality(taken) <= used
  <2> DEFINE name == [j \in newest |-> rows[j].name]
  <2> DEFINE ids == 1..used
  <2>1. IsFiniteSet(ids) /\ Cardinality(ids) = used
    BY <1>2, FS_Interval, SMTT(30)
  <2>2. IsFiniteSet(newest) /\ Cardinality(newest) <= used
    <3>1. newest \in SUBSET ids
      BY <1>3 DEF StoreShape, RowsOK
    <3> HIDE DEF ids
    <3>2. QED
      BY <2>1, <3>1, FS_Subset
  <2>3. name \in [newest -> taken] /\ taken = {name[j] : j \in newest}
    OBVIOUS
  <2> HIDE DEF name, taken
  <2>4. IsFiniteSet(taken) /\ Cardinality(taken) <= Cardinality(newest)
    <3>1. /\ IsFiniteSet({name[j] : j \in newest})
          /\ Cardinality({name[j] : j \in newest}) <= Cardinality(newest)
      BY <2>2, <2>3, ImageCount
    <3>2. QED
      BY <2>3, <3>1
  <2>5. Cardinality(taken) \in Nat /\ Cardinality(newest) \in Nat
    BY <2>2, <2>4, FS_CardinalityType
  <2>6. QED
    BY <1>2, <2>2, <2>4, <2>5
<1> HIDE DEF taken
<1>5. /\ names \in Seq(JobNames) /\ Len(names) = Len(bases) /\ IsInjective(names)
      /\ ToSet(names) \cap taken = {}
  BY <1>1, <1>2, <1>4, UniqueNamesFacts
<1> HIDE DEF names
<1>6. IsCall(call) /\ call.names = names
  BY <1>1, <1>2, <1>5 DEF IsCall
<1> HIDE DEF call
<1>7. CallsOK'
  <2>1. creating = [d \in Creators |-> creating[d]] /\ \A d \in Creators : IsCall(creating[d])
    BY DEF StoreShape, CallsOK
  <2>2. /\ creating' = [d \in Creators |-> creating'[d]]
        /\ \A d \in Creators : creating'[d] = IF d = c THEN call ELSE creating[d]
    BY <1>1, <2>1
  <2>3. \A d \in Creators : IsCall(creating'[d])
    BY <1>6, <2>1, <2>2
  <2>4. \A d \in Creators : IsCall(creating[d])'
    BY <2>3 DEF IsCall
  <2>5. used + Len(creating'[1].names) + Len(creating'[2].names) <= MaxStored
    <3>1. Len(creating[1].names) \in Nat /\ Len(creating[2].names) \in Nat
      BY <2>1 DEF IsCall, Creators
    <3>2. Len(call.names) = Len(bases)
      BY <1>5, <1>6
    <3>3. CASE c = 1
      <4>1. creating'[1] = call /\ creating'[2] = creating[2] /\ 2 \in Creators \ {c}
        BY <2>2, <3>3 DEF Creators
      <4>2. used + Len(creating[2].names) + Len(bases) <= MaxStored
        BY <1>1, <4>1
      <4>3. used + Len(bases) + Len(creating[2].names) <= MaxStored
        <5>1. PICK n \in Nat : n = Len(creating[2].names)
          BY <3>1
        <5>2. used + n + Len(bases) = used + Len(bases) + n
          BY <1>2
        <5>3. QED
          BY <4>2, <5>1, <5>2
      <4>4. QED
        BY <3>2, <4>1, <4>3
    <3>4. CASE c = 2
      <4>1. creating'[2] = call /\ creating'[1] = creating[1] /\ 1 \in Creators \ {c}
        BY <2>2, <3>4 DEF Creators
      <4>2. used + Len(creating[1].names) + Len(bases) <= MaxStored
        BY <1>1, <4>1
      <4>3. QED
        BY <3>2, <4>1, <4>2
    <3>5. QED
      BY <3>3, <3>4 DEF Creators
  <2>6. QED
    BY <1>1, <2>2, <2>4, <2>5 DEF CallsOK
<1>8. RowsOK' /\ FilesOK' /\ IsWalk(walk, used)' /\ IsCleaning(clean, used)'
  BY <1>1, <1>2 DEF StoreShape, RowsOK, IsRow, InTable, FilesOK, IsWalk, IsCleaning
<1>9. StoreShape'
  BY <1>7, <1>8 DEF StoreShape
<1>10. QED
  BY <1>1, <1>3, <1>5, <1>9 DEF call, names, taken

\* A saved job takes the next id and the first of the names.
LEMMA SaveNewShape ==
  ASSUME StoreShape, NEW c \in Creators, SaveNew(c)
  PROVE  /\ StoreShape' /\ used' = used + 1 /\ used + 1 \in Nat /\ used + 1 \notin InTable
         /\ InTable' = InTable \cup {used + 1} /\ Seen(rows')
         /\ \A i \in InTable : rows'[i] = rows[i]
         /\ rows'[used + 1].name = creating[c].names[1]
         /\ creating[c].names # <<>>
         /\ creating' = [creating EXCEPT ![c].names = Tail(creating[c].names)]
<1> DEFINE j == used + 1
           call == creating[c]
           rec == [status |-> "queued", created |-> call.now, updated |-> now,
                   finished |-> 0, name |-> call.names[1]]
<1>1. /\ call.names # <<>> /\ rows' = SavedRow(j, rec) /\ used' = j /\ dirs' = dirs \cup {j}
      /\ creating' = [creating EXCEPT ![c].names = Tail(call.names)] /\ Seen(rows')
      /\ UNCHANGED <<beside, held, deleting, clean, now>>
  BY DEF SaveNew
<1>2. used \in Nat /\ MaxStored \in Nat /\ now \in Nat /\ InTable \subseteq 1..used
  BY StoreAssumption DEF StoreShape, RowsOK, FilesOK
<1>3. creating = [d \in Creators |-> creating[d]] /\ \A d \in Creators : IsCall(creating[d])
  BY DEF StoreShape, CallsOK
<1>4. /\ \A d \in Creators : creating[d].names \in Seq(JobNames) /\ Len(creating[d].names) \in Nat
      /\ Len(call.names) >= 1
      /\ Tail(call.names) \in Seq(JobNames) /\ Len(Tail(call.names)) = Len(call.names) - 1
  BY <1>1, <1>3 DEF IsCall
<1>5. used + Len(creating[1].names) + Len(creating[2].names) <= MaxStored
  BY DEF StoreShape, CallsOK
<1>6. used' <= MaxStored
  <2>1. Len(creating[1].names) \in Nat /\ Len(creating[2].names) \in Nat
    BY <1>4 DEF Creators
  <2>2. Len(creating[1].names) >= 1 \/ Len(creating[2].names) >= 1
    BY <1>4 DEF Creators
  <2>3. PICK m \in Nat, n \in Nat : m = Len(creating[1].names) /\ n = Len(creating[2].names)
    BY <2>1
  <2>4. used + m + n <= MaxStored /\ (m >= 1 \/ n >= 1)
    BY <1>5, <2>2, <2>3
  <2>5. QED
    BY <1>1, <1>2, <2>4
<1>7. IsRow(rec)
  BY <1>2, <1>3 DEF IsRow, IsCall, StoredStatuses, Ended
<1> HIDE DEF rec
<1>8. /\ RowsOK' /\ InTable' = InTable \cup {j} /\ rows'[j] = rec
      /\ \A i \in InTable \ {j} : rows'[i] = rows[i]
  <2>1. j \in 1..used' /\ used' \in {used, used + 1}
    BY <1>1, <1>2
  <2>2. QED
    BY <1>1, <1>6, <1>7, <2>1, SavedRowFacts DEF StoreShape
<1>9. FilesOK'
  <2>1. 1..used \subseteq 1..used' /\ j \in 1..used'
    BY <1>1, <1>2
  <2>2. QED
    BY <1>1, <1>2, <2>1 DEF StoreShape, FilesOK
<1>10. IsWalk(walk, used)'
  BY <1>1, <1>2, SeenFacts DEF StoreShape, IsWalk
<1>11. IsCleaning(clean, used)'
  <2>1. 1..used \subseteq 1..used'
    BY <1>1, <1>2
  <2>2. QED
    BY <1>1, <2>1 DEF StoreShape, IsCleaning
<1>12. CallsOK'
  <2>1. /\ creating' = [d \in Creators |-> creating'[d]]
        /\ \A d \in Creators \ {c} : creating'[d] = creating[d]
        /\ creating'[c] = [call EXCEPT !.names = Tail(call.names)]
    BY <1>1, <1>3
  <2>2. /\ IsCall(creating'[c]) /\ creating'[c].names = Tail(call.names)
    <3>1. call = [names |-> call.names, careless |-> call.careless, now |-> call.now]
          /\ call.careless \in BOOLEAN /\ call.now \in Nat
      BY <1>3 DEF IsCall
    <3>2. creating'[c] = [names |-> Tail(call.names), careless |-> call.careless, now |-> call.now]
      BY <2>1, <3>1
    <3>3. QED
      BY <1>4, <3>1, <3>2 DEF IsCall
  <2>3. \A d \in Creators : IsCall(creating'[d])
    BY <1>3, <2>1, <2>2
  <2>4. \A d \in Creators : IsCall(creating[d])'
    BY <2>3 DEF IsCall
  <2>5. used' + Len(creating'[1].names) + Len(creating'[2].names) <= MaxStored
    <3>1. PICK m \in Nat, n \in Nat : m = Len(creating[1].names) /\ n = Len(creating[2].names)
      BY <1>4 DEF Creators
    <3>2. Len(creating'[c].names) = Len(creating[c].names) - 1
      BY <1>4, <2>2
    <3>3. CASE c = 1
      <4>1. creating'[2] = creating[2]
        BY <2>1, <3>3 DEF Creators
      <4>2. Len(creating'[1].names) = m - 1 /\ Len(creating'[2].names) = n
        BY <3>1, <3>2, <3>3, <4>1
      <4>3. used' = used + 1 /\ used + m + n <= MaxStored
        BY <1>1, <1>5, <3>1
      <4>4. QED
        BY <1>2, <4>2, <4>3
    <3>4. CASE c = 2
      <4>1. creating'[1] = creating[1]
        BY <2>1, <3>4 DEF Creators
      <4>2. Len(creating'[1].names) = m /\ Len(creating'[2].names) = n - 1
        BY <3>1, <3>2, <3>4, <4>1
      <4>3. used' = used + 1 /\ used + m + n <= MaxStored
        BY <1>1, <1>5, <3>1
      <4>4. QED
        BY <1>2, <4>2, <4>3
    <3>5. QED
      BY <3>3, <3>4 DEF Creators
  <2>6. QED
    BY <2>1, <2>4, <2>5 DEF CallsOK
<1>13. StoreShape'
  BY <1>8, <1>9, <1>10, <1>11, <1>12 DEF StoreShape
<1>14. j \notin InTable
  BY <1>2
<1>15. QED
  BY <1>1, <1>2, <1>8, <1>13, <1>14 DEF rec

\* The calls stay as they are when the jobs do.
LEMMA CallsKept ==
  ASSUME CallsOK, used' = used, creating' = creating
  PROVE  CallsOK'
BY DEF CallsOK, IsCall

\* A worker or a client saves a job there is.
LEMMA SaveJobShape ==
  ASSUME StoreShape, NEW j \in 1..used, NEW status \in StoredStatuses, SaveJob(j, status),
         now' = now + 1, UNCHANGED <<creating, used, deleting, clean>>,
         held' \in SUBSET (1..used), beside' \in SUBSET (Auxiliary \X (1..used))
  PROVE  StoreShape'
<1>1. now \in Nat /\ now' \in Nat \ {0} /\ used \in Nat
  BY StoreAssumption DEF StoreShape, FilesOK, RowsOK
<1>2. RowsOK' /\ dirs' = dirs \cup {j} /\ Seen(rows')
  BY <1>1, SaveJobFacts DEF StoreShape
<1>3. IsWalk(walk, used)'
  BY <1>1, <1>2, SeenFacts DEF StoreShape, IsWalk
<1>4. FilesOK' /\ CallsOK' /\ IsCleaning(clean, used)'
  BY <1>1, <1>2, CallsKept DEF StoreShape, FilesOK, IsCleaning
<1>5. QED
  BY <1>2, <1>3, <1>4 DEF StoreShape

-----------------------------------------------------------------------------
(* All steps keep the shape of the store.                                    *)

\* A job in memory is a running one as long as it has a row.
HeldRun == \A j \in held \cap InTable : rows[j].status = "running"
\* The cleanup's list is not outdated by what the workers do: a job it lists as ended is
\* held by nobody, and its row stays as it is listed until it is deleted.
TodoEnded ==
  \A job \in clean.todo :
    job.status \in Ended =>
      /\ job.id \notin held
      /\ job.id \in InTable => /\ rows[job.id].status \in Ended
                               /\ rows[job.id].finished = job.at

CleanupInv == StoreShape /\ HeldRun /\ TodoEnded /\ CleanupSpares /\ NoOrphans

\* The rest of the store's state, in steps that only read the lists.
LEMMA ShapeKept ==
  ASSUME StoreShape,
         UNCHANGED <<rows, beside, held, creating, used>>,
         dirs' \in SUBSET (1..used), deleting' \in SUBSET (1..used), now' \in Nat,
         IsWalk(walk', used), IsCleaning(clean', used)
  PROVE  StoreShape'
<1>1. RowsOK' /\ FilesOK'
  BY DEF StoreShape, RowsOK, IsRow, InTable, FilesOK
<1>2. CallsOK'
  BY CallsKept DEF StoreShape
<1>3. QED
  BY <1>1, <1>2 DEF StoreShape

\* A claim, a request to cancel and what a worker saves
LEMMA ClaimShape ==
  ASSUME StoreShape, NEW j \in StoreIds, Claim(j)
  PROVE  j \in 1..used /\ StoreShape'
<1>1. j \in 1..used /\ "running" \in StoredStatuses
  BY DEF Claim, StoreShape, RowsOK, StoredStatuses
<1>2. QED
  BY <1>1, SaveJobShape DEF Claim, StoreTick, StoreShape, FilesOK
LEMMA CancelShape ==
  ASSUME StoreShape, NEW j \in StoreIds, RequestCancel(j)
  PROVE  j \in 1..used /\ StoreShape'
<1> DEFINE status == IF rows[j].status = "queued" THEN "cancelled" ELSE rows[j].status
<1>1. j \in 1..used /\ status \in StoredStatuses
  BY DEF RequestCancel, StoreShape, RowsOK, IsRow, StoredStatuses, Ended
<1>2. <<"job_logs", j>> \in Auxiliary \X (1..used)
  BY <1>1 DEF Auxiliary
<1>3. beside' \in SUBSET (Auxiliary \X (1..used))
  BY <1>2 DEF RequestCancel, StoreShape, FilesOK
<1>4. QED
  BY <1>1, <1>3, SaveJobShape DEF RequestCancel, StoreTick, StoreShape, FilesOK
LEMMA FinishShape ==
  ASSUME StoreShape, NEW j \in StoreIds, UpdateJobStatus(j)
  PROVE  j \in 1..used /\ StoreShape'
<1>1. j \in 1..used /\ "succeeded" \in StoredStatuses
  BY DEF UpdateJobStatus, StoreShape, FilesOK, StoredStatuses, Ended
<1>2. {<<"job_logs", j>>, <<"artifacts", j>>} \subseteq Auxiliary \X (1..used)
  BY <1>1 DEF Auxiliary
<1>3. beside' \in SUBSET (Auxiliary \X (1..used))
  BY <1>2 DEF UpdateJobStatus, StoreShape, FilesOK
<1>4. QED
  BY <1>1, <1>3, SaveJobShape DEF UpdateJobStatus, StoreTick, StoreShape, FilesOK
LEMMA ProgressShape ==
  ASSUME StoreShape, NEW j \in StoreIds, UpdateProgress(j)
  PROVE  j \in 1..used /\ StoreShape'
<1>1. j \in 1..used /\ "running" \in StoredStatuses
  BY DEF UpdateProgress, StoreShape, FilesOK, StoredStatuses
<1>2. {<<"job_stage_status", j>>, <<"job_logs", j>>} \subseteq Auxiliary \X (1..used)
  BY <1>1 DEF Auxiliary
<1>3. CASE SaveJob(j, "running") /\ beside' = beside \cup {<<"job_stage_status", j>>, <<"job_logs", j>>}
  <2>1. beside' \in SUBSET (Auxiliary \X (1..used))
    BY <1>2, <1>3 DEF StoreShape, FilesOK
  <2>2. QED
    BY <1>1, <1>3, <2>1, SaveJobShape DEF UpdateProgress, StoreTick, StoreShape, FilesOK
<1>4. CASE /\ beside' \in {beside, beside \cup {<<"job_stage_status", j>>}}
           /\ UNCHANGED <<rows, dirs, walk>>
  <2>1. beside' \in SUBSET (Auxiliary \X (1..used))
    BY <1>2, <1>4 DEF StoreShape, FilesOK
  <2>2. /\ now' = now + 1 /\ UNCHANGED <<held, deleting, creating, used, clean>>
    BY DEF UpdateProgress, StoreTick
  <2>3. RowsOK' /\ FilesOK'
    BY <1>4, <2>1, <2>2 DEF StoreShape, RowsOK, IsRow, InTable, FilesOK
  <2>4. CallsOK'
    BY <2>2, CallsKept DEF StoreShape
  <2>5. IsWalk(walk, used)' /\ IsCleaning(clean, used)'
    BY <1>4, <2>2 DEF StoreShape, IsWalk, IsCleaning
  <2>6. QED
    BY <1>1, <2>3, <2>4, <2>5 DEF StoreShape
<1>5. QED
  BY <1>1, <1>3, <1>4 DEF UpdateProgress

\* A deletion, and what the cleanup deletes
LEMMA DeleteShape ==
  ASSUME StoreShape, NEW j \in StoreIds, DeleteJob(j)
  PROVE  j \in 1..used /\ StoreShape'
<1>1. j \in 1..used /\ now \in Nat /\ dirs \in SUBSET (1..used) /\ deleting \in SUBSET (1..used)
  BY DEF DeleteJob, StoreShape, FilesOK
<1>2. IsWalk(walk', used) /\ IsCleaning(clean', used)
  BY DEF DeleteJob, StoreShape
<1>3. QED
  BY <1>1, <1>2, ShapeKept DEF DeleteJob, RemoveDir, StoreTick
LEMMA DeleteRowsShape ==
  ASSUME StoreShape, NEW j \in StoreIds, DeleteRows(j)
  PROVE  /\ StoreShape' /\ InTable \ {j} \subseteq InTable' /\ InTable' \subseteq InTable
         /\ \A i \in InTable' : rows'[i] = rows[i]
         /\ Seen(rows')
<1>1. PICK failed \in {{}, {"jobs"}, {"job_logs"}} :
        /\ beside' = {r \in beside : r[2] # j \/ r[1] \in failed}
        /\ rows' = IF "jobs" \in failed THEN rows ELSE Without(rows, j)
        /\ Seen(rows')
  BY DEF DeleteRows
<1>2. UNCHANGED <<dirs, held, creating, used, clean, now>> /\ deleting' = deleting \ {j}
  BY DEF DeleteRows
<1>3. used \in Nat
  BY StoreAssumption DEF StoreShape, RowsOK
<1>4. /\ InTable \ {j} \subseteq InTable' /\ InTable' \subseteq InTable
      /\ \A i \in InTable' : rows'[i] = rows[i]
      /\ rows' = [i \in InTable' |-> rows'[i]]
  <2>1. rows = [i \in InTable |-> rows[i]]
    BY DEF StoreShape, RowsOK
  <2>2. CASE rows' = rows
    BY <2>1, <2>2 DEF InTable
  <2>3. CASE rows' = Without(rows, j)
    BY <2>3 DEF InTable, Without
  <2>4. QED
    BY <1>1, <2>2, <2>3
<1>5. RowsOK'
  BY <1>2, <1>4 DEF StoreShape, RowsOK, IsRow
<1>6. IsWalk(walk, used)'
  BY <1>1, <1>2, <1>3, SeenFacts DEF StoreShape, IsWalk
<1>7. FilesOK' /\ CallsOK' /\ IsCleaning(clean, used)'
  BY <1>1, <1>2, CallsKept DEF StoreShape, FilesOK, IsCleaning
<1>8. QED
  BY <1>1, <1>4, <1>5, <1>6, <1>7 DEF StoreShape
LEMMA StartCleanupShape ==
  ASSUME StoreShape, NEW keep \in BOOLEAN, StartCleanup(keep)
  PROVE  StoreShape'
<1> DEFINE todo == {[id |-> j, status |-> rows[j].status, at |-> Age(rows[j])] : j \in InTable}
<1>1. /\ clean' = [todo |-> todo, cutoff |-> now - CleanAge, keep |-> keep] /\ now' = now + 1
      /\ UNCHANGED <<rows, dirs, beside, held, deleting, creating, used, walk>>
  BY DEF StartCleanup, StoreTick
<1>2. now \in Nat /\ now - CleanAge \in Int
  BY StoreAssumption DEF StoreShape, FilesOK
<1>3. todo \in SUBSET [id : 1..used, status : StoredStatuses, at : Nat]
  BY DEF StoreShape, RowsOK, IsRow, Age
<1> HIDE DEF todo
<1>4. IsCleaning(clean', used) /\ IsWalk(walk', used)
  BY <1>1, <1>2, <1>3 DEF IsCleaning, StoreShape
<1>5. QED
  BY <1>1, <1>2, <1>4, ShapeKept DEF StoreShape, FilesOK
LEMMA CleanNextFacts ==
  ASSUME StoreShape, CleanNext
  PROVE  /\ StoreShape'
         /\ \E job \in clean.todo :
              /\ job.id \in 1..used /\ job.at \in Nat
              /\ clean'.todo = clean.todo \ {job} /\ clean'.keep = clean.keep
              /\ clean'.cutoff = clean.cutoff
              /\ \/ UNCHANGED <<dirs, deleting, cleaned>>
                 \/ /\ ~((clean.keep /\ job.status \notin Ended) \/ job.at >= clean.cutoff)
                    /\ RemoveDir(job.id)
                    /\ cleaned' = cleaned \cup
                         {[id |-> job.id, keep |-> clean.keep, cutoff |-> clean.cutoff,
                           status |-> IF job.id \in InTable THEN rows[job.id].status ELSE "gone",
                           at |-> IF job.id \in InTable THEN rows[job.id].finished ELSE 0]}
              /\ UNCHANGED <<rows, beside, held, creating, used, excused, walk, now>>
<1>1. PICK job \in clean.todo :
        /\ clean' = [clean EXCEPT !.todo = @ \ {job}]
        /\ \/ UNCHANGED <<dirs, deleting, cleaned>>
           \/ /\ ~((clean.keep /\ job.status \notin Ended) \/ job.at >= clean.cutoff)
              /\ RemoveDir(job.id)
              /\ cleaned' = cleaned \cup
                   {[id |-> job.id, keep |-> clean.keep, cutoff |-> clean.cutoff,
                     status |-> IF job.id \in InTable THEN rows[job.id].status ELSE "gone",
                     at |-> IF job.id \in InTable THEN rows[job.id].finished ELSE 0]}
        /\ UNCHANGED <<rows, beside, held, creating, used, excused, walk, now>>
  BY DEF CleanNext
<1>2. job.id \in 1..used /\ job.at \in Nat
  BY DEF StoreShape, IsCleaning
<1>3. clean = [todo |-> clean.todo, cutoff |-> clean.cutoff, keep |-> clean.keep]
  BY DEF StoreShape, IsCleaning
<1>4. clean' = [todo |-> clean.todo \ {job}, cutoff |-> clean.cutoff, keep |-> clean.keep]
  BY <1>1, <1>3
<1>5. IsCleaning(clean', used) /\ IsWalk(walk', used)
  BY <1>1, <1>4 DEF StoreShape, IsCleaning
<1>6. dirs' \in SUBSET (1..used) /\ deleting' \in SUBSET (1..used) /\ now' \in Nat
  BY <1>1, <1>2 DEF StoreShape, FilesOK, RemoveDir
<1>7. StoreShape'
  BY <1>1, <1>5, <1>6, ShapeKept
<1>8. QED
  BY <1>1, <1>2, <1>4, <1>7

LEMMA StartWalkShape ==
  ASSUME StoreShape, NEW how \in {"page", "cursor"}, NEW filter \in BOOLEAN,
         StartWalk(how, filter)
  PROVE  /\ StoreShape'
         /\ walk' = [how |-> how, filter |-> filter, at |-> 0, seen |-> {},
                     wanted |-> {j \in InTable : filter => rows[j].status = "queued"},
                     gone |-> FALSE, tied |-> Tied(rows), ended |-> FALSE]
<1> DEFINE wanted == {j \in InTable : filter => rows[j].status = "queued"}
           tied == Tied(rows)
<1>1. /\ walk' = [NoWalk EXCEPT !.how = how, !.filter = filter, !.tied = tied, !.wanted = wanted]
      /\ UNCHANGED <<rows, dirs, beside, held, deleting, creating, used, clean, now>>
  BY DEF StartWalk
<1>2. tied \in BOOLEAN /\ wanted \in SUBSET (1..used)
  BY DEF Tied, StoreShape, RowsOK
<1> HIDE DEF wanted, tied
<1>3. walk' = [how |-> how, filter |-> filter, at |-> 0, seen |-> {}, wanted |-> wanted,
               gone |-> FALSE, tied |-> tied, ended |-> FALSE]
  BY <1>1 DEF NoWalk
<1>4. IsWalk(walk', used) /\ IsCleaning(clean', used)
  <2>1. {filter, FALSE, tied} \subseteq BOOLEAN
    BY <1>2
  <2>2. IsWalk(walk', used)
    BY <1>2, <1>3, <2>1 DEF IsWalk
  <2>3. QED
    BY <1>1, <2>2 DEF StoreShape
<1>5. StoreShape'
  BY <1>1, <1>4, ShapeKept DEF StoreShape, FilesOK
<1>6. QED
  BY <1>3, <1>5 DEF wanted, tied

LEMMA VisitFacts ==
  ASSUME StoreShape, NEW page, ToSet(page) \subseteq InTable, NEW next \in Nat,
         NEW last \in BOOLEAN, Visit(page, next, last),
         UNCHANGED <<rows, dirs, beside, held, deleting, creating, used, clean, now>>
  PROVE  /\ StoreShape'
         /\ walk' = [how |-> walk.how, filter |-> walk.filter, at |-> next,
                     seen |-> walk.seen \cup ToSet(page), wanted |-> walk.wanted,
                     gone |-> walk.gone, tied |-> walk.tied, ended |-> last]
<1> DEFINE seen == walk.seen \cup ToSet(page)
<1>1. walk' = [walk EXCEPT !.seen = seen, !.at = next, !.ended = last]
  BY DEF Visit
<1>2. seen \in SUBSET (1..used)
  BY DEF StoreShape, RowsOK, IsWalk
<1> HIDE DEF seen
<1>3. walk' = [how |-> walk.how, filter |-> walk.filter, at |-> next, seen |-> seen,
               wanted |-> walk.wanted, gone |-> walk.gone, tied |-> walk.tied, ended |-> last]
  BY <1>1 DEF StoreShape, IsWalk
<1>4. IsWalk(walk', used) /\ IsCleaning(clean', used)
  BY <1>2, <1>3 DEF StoreShape, IsWalk
<1>5. StoreShape'
  BY <1>4, ShapeKept DEF StoreShape, FilesOK
<1>6. QED
  BY <1>3, <1>5 DEF seen

\* The next page of a walk, from where it is
NextPageStep ==
  LET all == ByCreation(InView(rows))
      start == walk.at * Limit
  IN walk' = [how |-> walk.how, filter |-> walk.filter, at |-> walk.at + 1,
              seen |-> walk.seen \cup ToSet(SubSeq(all, start + 1, Min({start + Limit, Len(all)}))),
              wanted |-> walk.wanted, gone |-> walk.gone, tied |-> walk.tied,
              ended |-> start + Limit >= Len(all)]
LEMMA NextPageShape ==
  ASSUME StoreShape, NextPage
  PROVE  StoreShape' /\ NextPageStep
<1> DEFINE all == ByCreation(InView(rows))
           start == walk.at * Limit
           page == SubSeq(all, start + 1, Min({start + Limit, Len(all)}))
           last == start + Limit >= Len(all)
<1>1. RowsOK /\ walk.at \in Nat /\ InView(rows) \in SUBSET InTable
  BY ViewFacts DEF StoreShape, IsWalk
<1>2. ToSet(page) \subseteq InTable
  BY <1>1, NextPageFacts
<1>3. walk.at + 1 \in Nat /\ last \in BOOLEAN
  BY <1>1
<1>4. /\ Visit(page, walk.at + 1, last)
      /\ UNCHANGED <<rows, dirs, beside, held, deleting, creating, used, clean, now>>
  BY DEF NextPage
<1>5. /\ StoreShape'
      /\ walk' = [how |-> walk.how, filter |-> walk.filter, at |-> walk.at + 1,
                  seen |-> walk.seen \cup ToSet(page), wanted |-> walk.wanted,
                  gone |-> walk.gone, tied |-> walk.tied, ended |-> last]
  <2> HIDE DEF page, last
  <2> QED
    BY <1>2, <1>3, <1>4, VisitFacts
<1>6. QED
  BY <1>5 DEF NextPageStep

\* The same for a cursor
NextCursorStep ==
  \E all \in ScanOrders(InView(rows)) :
    LET start == CursorPlace(all, walk.at)
        page == SubSeq(all, start + 1, Min({start + Limit, Len(all)}))
        more == start + Limit < Len(all)
    IN walk' = [how |-> walk.how, filter |-> walk.filter,
                at |-> IF more THEN page[Len(page)] ELSE 0,
                seen |-> walk.seen \cup ToSet(page),
                wanted |-> walk.wanted, gone |-> walk.gone, tied |-> walk.tied,
                ended |-> ~more]
LEMMA NextCursorShape ==
  ASSUME StoreShape, NextCursor
  PROVE  StoreShape' /\ NextCursorStep
<1> DEFINE S == InView(rows)
<1>1. RowsOK /\ S \in SUBSET InTable /\ IsFiniteSet(S)
  BY ViewFacts, TableFacts DEF StoreShape
<1> DEFINE start(all) == CursorPlace(all, walk.at)
           page(all) == SubSeq(all, start(all) + 1, Min({start(all) + Limit, Len(all)}))
           more(all) == start(all) + Limit < Len(all)
           at(all) == IF more(all) THEN page(all)[Len(page(all))] ELSE 0
<1>2. PICK all \in ScanOrders(S) : Visit(page(all), at(all), ~more(all))
  BY DEF NextCursor, CursorPlace
<1>3. UNCHANGED <<rows, dirs, beside, held, deleting, creating, used, clean, now>>
  BY DEF NextCursor
<1>4. /\ all \in Seq(S) /\ Len(all) = Cardinality(S) /\ Cardinality(S) \in Nat
      /\ start(all) \in 0..Len(all)
  <2>1. all \in SetToSeqs(S)
    BY DEF ScanOrders
  <2> HIDE DEF S
  <2>2. QED
    BY <1>1, <2>1, CursorFacts
<1> HIDE DEF S
<1>5. /\ page(all) \in Seq(S) /\ ToSet(page(all)) \subseteq S
      /\ more(all) => Len(page(all)) = Limit
  <2> DEFINE st == start(all)
             end == Min({st + Limit, Len(all)})
  <2>1. st \in Nat /\ Limit \in Nat /\ Len(all) \in Nat
    BY <1>4, StoreAssumption
  <2> HIDE DEF st
  <2>2. /\ end \in Nat /\ end = (IF st + Limit <= Len(all) THEN st + Limit ELSE Len(all))
        /\ SubSeq(all, st + 1, end) \in Seq(S) /\ ToSet(SubSeq(all, st + 1, end)) \subseteq S
    BY <1>4, <2>1, PageFacts
  <2> HIDE DEF end
  <2>3. st + Limit < Len(all) => Len(SubSeq(all, st + 1, end)) = Limit
    BY <1>4, <2>1, <2>2
  <2>4. QED
    BY <2>2, <2>3 DEF st, end
<1> HIDE DEF start
<1>6. at(all) \in Nat
  <2> HIDE DEF page
  <2>1. CASE more(all)
    <3>1. Limit \in Nat /\ Limit # 0
      BY StoreAssumption
    <3>2. page(all)[Len(page(all))] \in S
      BY <1>5, <2>1, <3>1
    <3>3. InTable \subseteq Nat
      BY <1>1, TableFacts
    <3>4. QED
      BY <1>1, <2>1, <3>2, <3>3
  <2>2. CASE ~more(all)
    BY <2>2
  <2>3. QED
    BY <2>1, <2>2
<1>7. ToSet(page(all)) \subseteq InTable
  BY <1>1, <1>5
<1>8. /\ StoreShape'
      /\ walk' = [how |-> walk.how, filter |-> walk.filter, at |-> at(all),
                  seen |-> walk.seen \cup ToSet(page(all)), wanted |-> walk.wanted,
                  gone |-> walk.gone, tied |-> walk.tied, ended |-> ~more(all)]
  <2>1. (~more(all)) \in BOOLEAN
    OBVIOUS
  <2> HIDE DEF page, at, more
  <2>2. QED
    BY <1>2, <1>3, <1>6, <1>7, <2>1, VisitFacts
<1>9. QED
  BY <1>8 DEF NextCursorStep, start, S

LEMMA StoreShapeKept ==
  ASSUME StoreShape, [StoreMove]_storeVars
  PROVE  StoreShape'
<1>1. CASE UNCHANGED storeVars
  BY <1>1 DEF storeVars, StoreShape, RowsOK, IsRow, InTable, FilesOK, CallsOK, IsCall, IsWalk,
              IsCleaning
<1>2. CASE StoreCreations(Creators)
  <2>1. <<"a">> \in Seq(Bases) /\ <<"a", "a">> \in Seq(Bases)
    BY DEF Bases
  <2>2. QED
    BY <1>2, <2>1, StartCreationShape, SaveNewShape DEF StoreCreations
<1>3. CASE StoreWork \/ StoreRequests
  BY <1>3, ProgressShape, FinishShape, CancelShape, ClaimShape, DeleteShape, DeleteRowsShape
     DEF StoreWork, StoreRequests
<1>4. CASE StoreCleanup
  BY <1>4, StartCleanupShape, CleanNextFacts DEF StoreCleanup
<1>5. CASE StoreWalks
  BY <1>5, StartWalkShape, NextPageShape, NextCursorShape DEF StoreWalks
<1>6. QED
  BY <1>1, <1>2, <1>3, <1>4, <1>5 DEF StoreMove

-----------------------------------------------------------------------------
(* Cleanup and deletion                                                      *)

LEMMA CleanupStep ==
  ASSUME CleanupInv, [StoreMove]_storeVars
  PROVE  CleanupInv'
<1>1. StoreShape /\ StoreShape' /\ HeldRun /\ TodoEnded /\ CleanupSpares /\ NoOrphans
  BY StoreShapeKept DEF CleanupInv
<1>2. /\ used \in Nat /\ now \in Nat /\ RowsOK /\ InTable \in SUBSET (1..used)
      /\ held \in SUBSET (1..used)
  BY <1>1, StoreAssumption DEF StoreShape, RowsOK, FilesOK
<1>3. CASE UNCHANGED <<rows, dirs, beside, held, deleting, excused, clean, cleaned>>
  BY <1>1, <1>3 DEF CleanupInv, HeldRun, TodoEnded, CleanupSpares, NoOrphans, InTable
<1>4. ASSUME NEW j \in StoreIds, Claim(j)
      PROVE  CleanupInv'
  <2>1. /\ j \in InTable /\ rows[j].status = "queued" /\ now' = now + 1 /\ SaveJob(j, "running")
        /\ held' = held \cup {j}
        /\ UNCHANGED <<beside, deleting, used, excused, clean, cleaned>>
    BY <1>4 DEF Claim, StoreTick
  <2>2. /\ InTable' = InTable \cup {j} /\ dirs' = dirs \cup {j}
        /\ \A i \in InTable \ {j} : rows'[i] = rows[i]
        /\ rows'[j].status = "running"
    <3>1. j \in 1..used /\ "running" \in StoredStatuses
      BY <1>2, <2>1 DEF StoredStatuses
    <3>2. QED
      BY <1>2, <2>1, <3>1, SaveJobFacts
  <2>3. HeldRun'
    BY <1>1, <2>1, <2>2 DEF HeldRun
  <2>4. TodoEnded'
    BY <1>1, <2>1, <2>2 DEF TodoEnded, Ended
  <2>5. CleanupSpares' /\ NoOrphans'
    BY <1>1, <2>1, <2>2 DEF CleanupSpares, NoOrphans
  <2>6. QED
    BY <1>1, <2>3, <2>4, <2>5 DEF CleanupInv
<1>5. ASSUME NEW j \in StoreIds, UpdateProgress(j)
      PROVE  CleanupInv'
  <2>1. /\ j \in held /\ now' = now + 1 /\ excused' = WrittenAfter(j)
        /\ UNCHANGED <<held, deleting, used, clean, cleaned>>
    BY <1>5 DEF UpdateProgress, StoreTick
  <2>2. \A job \in clean.todo : job.status \in Ended => job.id # j
    BY <1>1, <2>1 DEF TodoEnded
  <2>3. CASE /\ beside' = beside \cup {<<"job_stage_status", j>>, <<"job_logs", j>>}
             /\ SaveJob(j, "running")
    <3>1. /\ InTable' = InTable \cup {j} /\ dirs' = dirs \cup {j}
          /\ \A i \in InTable \ {j} : rows'[i] = rows[i]
          /\ rows'[j].status = "running"
      <4>1. j \in 1..used /\ "running" \in StoredStatuses
        BY <1>2, <2>1 DEF StoredStatuses
      <4>2. QED
        BY <1>2, <2>1, <2>3, <4>1, SaveJobFacts
    <3>2. HeldRun'
      BY <1>1, <2>1, <3>1 DEF HeldRun
    <3>3. TodoEnded'
      BY <1>1, <2>1, <2>2, <3>1 DEF TodoEnded
    <3>4. CleanupSpares' /\ NoOrphans'
      BY <1>1, <2>1, <2>3, <3>1 DEF CleanupSpares, NoOrphans, WrittenAfter
    <3>5. QED
      BY <1>1, <3>2, <3>3, <3>4 DEF CleanupInv
  <2>4. CASE /\ beside' \in {beside, beside \cup {<<"job_stage_status", j>>}}
             /\ UNCHANGED <<rows, dirs, walk>>
    <3>1. HeldRun' /\ TodoEnded' /\ CleanupSpares'
      BY <1>1, <2>1, <2>4 DEF HeldRun, TodoEnded, CleanupSpares, InTable
    <3>2. NoOrphans'
      BY <1>1, <2>1, <2>4 DEF NoOrphans, WrittenAfter, InTable
    <3>3. QED
      BY <1>1, <3>1, <3>2 DEF CleanupInv
  <2>5. QED
    BY <1>5, <2>3, <2>4 DEF UpdateProgress
<1>6. ASSUME NEW j \in StoreIds, UpdateJobStatus(j)
      PROVE  CleanupInv'
  <2>1. /\ j \in held /\ now' = now + 1 /\ excused' = WrittenAfter(j) /\ held' = held \ {j}
        /\ beside' = beside \cup {<<"job_logs", j>>, <<"artifacts", j>>}
        /\ SaveJob(j, "succeeded")
        /\ UNCHANGED <<deleting, used, clean, cleaned>>
    BY <1>6 DEF UpdateJobStatus, StoreTick
  <2>2. \A job \in clean.todo : job.status \in Ended => job.id # j
    BY <1>1, <2>1 DEF TodoEnded
  <2>3. /\ InTable' = InTable \cup {j} /\ dirs' = dirs \cup {j}
        /\ \A i \in InTable \ {j} : rows'[i] = rows[i]
    <3>1. j \in 1..used /\ "succeeded" \in StoredStatuses
      BY <1>2, <2>1 DEF StoredStatuses, Ended
    <3>2. QED
      BY <1>2, <2>1, <3>1, SaveJobFacts
  <2>4. HeldRun'
    BY <1>1, <2>1, <2>3 DEF HeldRun
  <2>5. TodoEnded'
    BY <1>1, <2>1, <2>2, <2>3 DEF TodoEnded
  <2>6. CleanupSpares' /\ NoOrphans'
    BY <1>1, <2>1, <2>3 DEF CleanupSpares, NoOrphans, WrittenAfter
  <2>7. QED
    BY <1>1, <2>4, <2>5, <2>6 DEF CleanupInv
<1>7. ASSUME NEW j \in StoreIds, RequestCancel(j)
      PROVE  CleanupInv'
  <2> DEFINE status == IF rows[j].status = "queued" THEN "cancelled" ELSE rows[j].status
  <2>1. /\ j \in InTable /\ now' = now + 1
        /\ beside' = beside \cup {<<"job_logs", j>>}
        /\ SaveJob(j, status)
        /\ UNCHANGED <<held, deleting, used, excused, clean, cleaned>>
    BY <1>7 DEF RequestCancel, StoreTick
  <2>2. rows[j].status \in StoredStatuses
    BY <1>2, <2>1 DEF RowsOK, IsRow
  <2>3. /\ status \in StoredStatuses /\ (rows[j].status = "running" => status = "running")
        /\ rows[j].status \in Ended => status \in Ended
    BY <2>2 DEF StoredStatuses, Ended
  <2>4. j \in held => rows[j].status = "running"
    BY <1>1, <2>1 DEF HeldRun
  <2> HIDE DEF status
  <2>5. /\ InTable' = InTable \cup {j} /\ dirs' = dirs \cup {j}
        /\ \A i \in InTable \ {j} : rows'[i] = rows[i]
        /\ rows'[j].status = status
        /\ rows[j].status \in Ended => rows'[j].finished = rows[j].finished
    <3>1. j \in 1..used /\ now' \in Nat \ {0}
      BY <1>2, <2>1
    <3>2. QED
      BY <1>2, <2>1, <2>3, <3>1, SaveJobFacts
  <2>6. HeldRun'
    BY <1>1, <2>1, <2>3, <2>4, <2>5 DEF HeldRun
  <2>7. TodoEnded'
    BY <1>1, <2>1, <2>3, <2>5 DEF TodoEnded
  <2>8. CleanupSpares' /\ NoOrphans'
    BY <1>1, <2>1, <2>5 DEF CleanupSpares, NoOrphans
  <2>9. QED
    BY <1>1, <2>6, <2>7, <2>8 DEF CleanupInv
<1>8. ASSUME NEW j \in StoreIds, DeleteJob(j)
      PROVE  CleanupInv'
  BY <1>1, <1>8 DEF DeleteJob, RemoveDir, CleanupInv, HeldRun, TodoEnded, CleanupSpares,
                    NoOrphans, InTable
<1>9. ASSUME NEW j \in StoreIds, DeleteRows(j)
      PROVE  CleanupInv'
  <2>1. /\ InTable \ {j} \subseteq InTable' /\ InTable' \subseteq InTable
        /\ \A i \in InTable' : rows'[i] = rows[i]
    BY <1>1, <1>9, DeleteRowsShape
  <2>2. /\ deleting' = deleting \ {j} /\ UNCHANGED <<dirs, held, clean, cleaned>>
        /\ \A r \in beside' : r \in beside /\ (r[2] # j \/ j \in excused')
        /\ excused \subseteq excused'
    BY <1>9 DEF DeleteRows
  <2>3. HeldRun' /\ TodoEnded' /\ CleanupSpares'
    BY <1>1, <2>1, <2>2 DEF HeldRun, TodoEnded, CleanupSpares
  <2>4. NoOrphans'
    BY <1>1, <2>1, <2>2 DEF NoOrphans
  <2>5. QED
    BY <1>1, <2>3, <2>4 DEF CleanupInv
<1>10. ASSUME NEW c \in Creators, SaveNew(c)
       PROVE  CleanupInv'
  <2>1. /\ InTable' = InTable \cup {used + 1} /\ \A i \in InTable : rows'[i] = rows[i]
    BY <1>1, <1>10, SaveNewShape
  <2>2. /\ dirs' = dirs \cup {used + 1}
        /\ UNCHANGED <<beside, held, deleting, excused, clean, cleaned>>
    BY <1>10 DEF SaveNew
  <2>3. used + 1 \notin 1..used
    BY <1>2
  <2>4. \A job \in clean.todo : job.id \in 1..used
    BY <1>1 DEF StoreShape, IsCleaning
  <2>5. HeldRun' /\ TodoEnded' /\ CleanupSpares'
    BY <1>1, <1>2, <2>1, <2>2, <2>3, <2>4 DEF HeldRun, TodoEnded, CleanupSpares
  <2>6. NoOrphans'
    BY <1>1, <2>1, <2>2 DEF NoOrphans
  <2>7. QED
    BY <1>1, <2>5, <2>6 DEF CleanupInv
<1>11. ASSUME NEW keep \in BOOLEAN, StartCleanup(keep)
       PROVE  CleanupInv'
  <2> DEFINE todo == {[id |-> j, status |-> rows[j].status, at |-> Age(rows[j])] : j \in InTable}
  <2>1. /\ clean'.todo = todo
        /\ UNCHANGED <<rows, dirs, beside, held, deleting, excused, cleaned>>
    BY <1>11 DEF StartCleanup
  <2>2. \A job \in todo : /\ job.id \in InTable /\ rows[job.id].status = job.status
                          /\ job.status \in Ended => rows[job.id].finished = job.at
    BY <1>2 DEF RowsOK, IsRow, Age
  <2> HIDE DEF todo
  <2>3. \A job \in todo : job.status \in Ended => job.id \notin held
    BY <1>1, <2>2 DEF HeldRun, Ended
  <2>4. TodoEnded'
    BY <2>1, <2>2, <2>3 DEF TodoEnded, InTable
  <2>5. HeldRun' /\ CleanupSpares' /\ NoOrphans'
    BY <1>1, <2>1 DEF HeldRun, CleanupSpares, NoOrphans, InTable
  <2>6. QED
    BY <1>1, <2>4, <2>5 DEF CleanupInv
<1>12. CASE CleanNext
  <2>1. PICK job \in clean.todo :
          /\ job.id \in 1..used /\ job.at \in Nat
          /\ clean'.todo = clean.todo \ {job}
          /\ UNCHANGED <<rows, beside, held, excused>>
          /\ \/ UNCHANGED <<dirs, deleting, cleaned>>
             \/ /\ ~((clean.keep /\ job.status \notin Ended) \/ job.at >= clean.cutoff)
                /\ RemoveDir(job.id)
                /\ cleaned' = cleaned \cup
                     {[id |-> job.id, keep |-> clean.keep, cutoff |-> clean.cutoff,
                       status |-> IF job.id \in InTable THEN rows[job.id].status ELSE "gone",
                       at |-> IF job.id \in InTable THEN rows[job.id].finished ELSE 0]}
    BY <1>1, <1>12, CleanNextFacts
  <2>2. HeldRun' /\ TodoEnded'
    BY <1>1, <2>1 DEF HeldRun, TodoEnded, InTable
  <2>3. NoOrphans'
    BY <1>1, <2>1 DEF NoOrphans, InTable, RemoveDir
  <2>4. CleanupSpares'
    <3>1. CASE cleaned' = cleaned
      BY <1>1, <3>1 DEF CleanupSpares
    <3>2. CASE cleaned' # cleaned
      <4> DEFINE status == IF job.id \in InTable THEN rows[job.id].status ELSE "gone"
                 at == IF job.id \in InTable THEN rows[job.id].finished ELSE 0
                 c == [id |-> job.id, keep |-> clean.keep, cutoff |-> clean.cutoff,
                       status |-> status, at |-> at]
      <4>1. /\ clean.keep => job.status \in Ended
            /\ ~(job.at >= clean.cutoff) /\ clean.cutoff \in Int
            /\ cleaned' = cleaned \cup {c}
        BY <1>1, <2>1, <3>2 DEF StoreShape, IsCleaning
      <4>2. job.status \in Ended => status \in Ended \cup {"gone"} /\ at \in {job.at, 0}
        BY <1>1 DEF TodoEnded
      <4>3. job.at < clean.cutoff /\ 0 < clean.cutoff
        BY <2>1, <4>1
      <4> HIDE DEF status, at
      <4>4. c.keep => c.status \in Ended \cup {"gone"} /\ c.at < c.cutoff
        BY <4>1, <4>2, <4>3
      <4> HIDE DEF c
      <4>5. QED
        BY <1>1, <4>1, <4>4 DEF CleanupSpares
    <3>3. QED
      BY <3>1, <3>2
  <2>5. QED
    BY <1>1, <2>2, <2>3, <2>4 DEF CleanupInv
<1>13. CASE UNCHANGED storeVars
  BY <1>3, <1>13 DEF storeVars
<1>14. CASE StoreCreations(Creators)
  <2>1. \A c \in Creators : \A bases : StartCreation(c, bases) =>
          UNCHANGED <<rows, dirs, beside, held, deleting, excused, clean, cleaned>>
    BY DEF StartCreation
  <2>2. QED
    BY <1>3, <1>10, <1>14, <2>1 DEF StoreCreations
<1>15. CASE StoreWork \/ StoreRequests
  BY <1>4, <1>5, <1>6, <1>7, <1>8, <1>9, <1>15 DEF StoreWork, StoreRequests
<1>16. CASE StoreCleanup
  BY <1>11, <1>12, <1>16 DEF StoreCleanup
<1>17. CASE StoreWalks
  <2>1. UNCHANGED <<rows, dirs, beside, held, deleting, excused, clean, cleaned>>
    BY <1>17 DEF StoreWalks, StartWalk, NextPage, NextCursor
  <2>2. QED
    BY <1>3, <2>1
<1>18. QED
  BY <1>13, <1>14, <1>15, <1>16, <1>17 DEF StoreMove

-----------------------------------------------------------------------------
(* Names                                                                     *)

\* A row is of a call or of a job from before.
RowNames == \A j \in InTable : rows[j].name = <<"b", j>> \/ rows[j].name \in JobNames
\* The names a call has left are different from one another, and a call that is not careless
\* still has none that a job of a careful call has by now ...
CallNames ==
  \A c \in Creators :
    /\ IsInjective(creating[c].names)
    /\ ~creating[c].careless =>
         \A k \in DOMAIN creating[c].names :
           \A j \in InTable \ careless : rows[j].name # creating[c].names[k]
\* ... since of two calls at a time one is careless.
CallsTakeTurns ==
  (\A c \in Creators : creating[c].names # <<>>) => \E c \in Creators : creating[c].careless

NamesInv == StoreShape /\ RowNames /\ CallNames /\ CallsTakeTurns /\ NamesDiffer

\* Jobs that are only saved again or deleted
LEMMA NamesKept ==
  ASSUME NamesInv, StoreShape', UNCHANGED <<creating, careless>>,
         \A i \in InTable' : \/ i \in InTable /\ rows'[i].name = rows[i].name
                             \/ rows'[i].name = <<"b", i>>
  PROVE  NamesInv'
<1>1. RowNames'
  BY DEF NamesInv, RowNames, JobNames
<1>2. \A name \in JobNames : \A i : name # <<"b", i>>
  BY DEF JobNames, Bases
<1>3. \A c \in Creators : creating[c].names \in Seq(JobNames)
  BY DEF NamesInv, StoreShape, CallsOK, IsCall
<1>4. CallNames'
  <2> SUFFICES ASSUME NEW c \in Creators, ~creating[c].careless,
                      NEW k \in DOMAIN creating[c].names, NEW j \in InTable' \ careless
               PROVE  rows'[j].name # creating[c].names[k]
    BY DEF CallNames, NamesInv
  <2>1. creating[c].names[k] \in JobNames
    BY <1>3
  <2>2. CASE rows'[j].name = <<"b", j>>
    BY <1>2, <2>1, <2>2
  <2>3. CASE j \in InTable /\ rows'[j].name = rows[j].name
    BY <2>3 DEF NamesInv, CallNames
  <2>4. QED
    BY <2>2, <2>3
<1>5. NamesDiffer'
  <2> SUFFICES ASSUME NEW i \in InTable', NEW j \in InTable', i # j,
                      rows'[i].name = rows'[j].name
               PROVE  {i, j} \cap careless # {}
    BY DEF NamesDiffer
  <2>1. \A x, y : <<"b", x>> = <<"b", y>> => x = y
    OBVIOUS
  <2>2. \A x \in InTable : rows[x].name = <<"b", x>> \/ rows[x].name \in JobNames
    BY DEF NamesInv, RowNames
  <2>3. i \in InTable /\ rows'[i].name = rows[i].name
    <3>1. CASE rows'[i].name = <<"b", i>> /\ rows'[j].name # <<"b", j>>
      <4>1. rows[j].name = <<"b", i>> /\ j \in InTable
        BY <3>1
      <4>2. QED
        BY <1>2, <2>1, <2>2, <3>1, <4>1
    <3>2. QED
      BY <2>1, <3>1
  <2>4. j \in InTable /\ rows'[j].name = rows[j].name
    <3>1. CASE rows'[j].name = <<"b", j>>
      <4>1. rows[i].name = <<"b", j>>
        BY <2>3, <3>1
      <4>2. QED
        BY <1>2, <2>1, <2>2, <2>3, <4>1
    <3>2. QED
      BY <3>1
  <2>5. QED
    BY <2>3, <2>4 DEF NamesInv, NamesDiffer
<1>6. CallsTakeTurns'
  BY DEF NamesInv, CallsTakeTurns
<1>7. QED
  BY <1>1, <1>4, <1>5, <1>6 DEF NamesInv

LEMMA SaveNewNames ==
  ASSUME NamesInv, NEW c \in Creators, SaveNew(c)
  PROVE  NamesInv'
<1> DEFINE j == used + 1
           left == creating[c].names
<1>1. /\ StoreShape' /\ j \notin InTable /\ InTable' = InTable \cup {j}
      /\ \A i \in InTable : rows'[i] = rows[i]
      /\ rows'[j].name = left[1] /\ left # <<>>
      /\ creating' = [creating EXCEPT ![c].names = Tail(left)]
  BY SaveNewShape DEF NamesInv
<1>2. careless' = IF creating[c].careless THEN careless \cup {j} ELSE careless
  BY DEF SaveNew
<1>3. /\ creating = [d \in Creators |-> creating[d]]
      /\ \A d \in Creators : /\ IsCall(creating[d]) /\ creating[d].names \in Seq(JobNames)
                             /\ creating[d].careless \in BOOLEAN
  BY DEF NamesInv, StoreShape, CallsOK, IsCall
<1>4. /\ \A d \in Creators \ {c} : creating'[d] = creating[d]
      /\ creating'[c].names = Tail(left) /\ creating'[c].careless = creating[c].careless
  <2>1. /\ \A d \in Creators \ {c} : creating'[d] = creating[d]
        /\ creating'[c] = [creating[c] EXCEPT !.names = Tail(left)]
    BY <1>1, <1>3
  <2>2. creating[c] = [names |-> left, careless |-> creating[c].careless, now |-> creating[c].now]
    BY <1>3 DEF IsCall
  <2>3. creating'[c] = [names |-> Tail(left), careless |-> creating[c].careless,
                        now |-> creating[c].now]
    BY <2>1, <2>2
  <2>4. QED
    BY <2>1, <2>3
<1>5. /\ left \in Seq(JobNames) /\ 1 \in DOMAIN left /\ left[1] \in JobNames
      /\ DOMAIN Tail(left) = 1..(Len(left) - 1) /\ Len(left) \in Nat
      /\ \A k \in DOMAIN Tail(left) :
           k + 1 \in DOMAIN left /\ k + 1 # 1 /\ Tail(left)[k] = left[k + 1]
  BY <1>1, <1>3
<1> HIDE DEF j
<1>6. IsInjective(Tail(left)) /\ \A k \in DOMAIN Tail(left) : Tail(left)[k] # left[1]
  <2>1. \A a, b \in DOMAIN left : left[a] = left[b] => a = b
    BY DEF NamesInv, CallNames, IsInjective
  <2>2. ASSUME NEW k \in DOMAIN Tail(left), NEW m \in DOMAIN Tail(left),
               Tail(left)[k] = Tail(left)[m]
        PROVE  k = m
    <3>1. k + 1 = m + 1
      BY <1>5, <2>1, <2>2
    <3>2. k \in Int /\ m \in Int
      BY <1>5
    <3>3. QED
      BY <3>1, <3>2
  <2>3. \A k \in DOMAIN Tail(left) : Tail(left)[k] # left[1]
    BY <1>5, <2>1
  <2>4. QED
    BY <2>2, <2>3 DEF IsInjective
<1>7. RowNames'
  BY <1>1, <1>5 DEF NamesInv, RowNames, JobNames
<1>8. CallsTakeTurns'
  <2>1. \A d \in Creators : creating'[d].names # <<>> => creating[d].names # <<>>
    BY <1>1, <1>4
  <2>2. \A d \in Creators : creating'[d].careless = creating[d].careless
    BY <1>4
  <2>3. QED
    BY <2>1, <2>2 DEF NamesInv, CallsTakeTurns
<1>9. \A i \in InTable : rows[i].name = left[1] => {i, j} \cap careless' # {}
  <2>1. CASE creating[c].careless
    BY <1>2, <2>1
  <2>2. CASE ~creating[c].careless
    BY <1>2, <1>5, <2>2 DEF NamesInv, CallNames
  <2>3. QED
    BY <2>1, <2>2
<1>10. NamesDiffer'
  <2> SUFFICES ASSUME NEW a \in InTable', NEW b \in InTable', a # b,
                      rows'[a].name = rows'[b].name
               PROVE  {a, b} \cap careless' # {}
    BY DEF NamesDiffer
  <2>1. careless \subseteq careless'
    BY <1>2
  <2>2. CASE a = j
    BY <1>1, <1>9, <2>2
  <2>3. CASE b = j
    BY <1>1, <1>9, <2>3
  <2>4. CASE a # j /\ b # j
    BY <1>1, <2>1, <2>4 DEF NamesInv, NamesDiffer
  <2>5. QED
    BY <2>2, <2>3, <2>4
<1>11. CallNames'
  <2>1. \A d \in Creators : IsInjective(creating'[d].names)
    BY <1>4, <1>6 DEF NamesInv, CallNames
  <2>2. ASSUME NEW d \in Creators, ~creating'[d].careless,
               NEW k \in DOMAIN creating'[d].names, NEW i \in InTable' \ careless'
        PROVE  rows'[i].name # creating'[d].names[k]
    <3>1. ~creating[d].careless /\ careless \subseteq careless'
      BY <1>2, <1>4, <2>2
    <3>2. CASE d = c
      <4>1. k + 1 \in DOMAIN left /\ creating'[d].names[k] = left[k + 1] /\ left[k + 1] # left[1]
        BY <1>4, <1>5, <1>6, <3>2
      <4>2. CASE i = j
        BY <1>1, <4>1, <4>2
      <4>3. CASE i # j
        BY <1>1, <3>1, <3>2, <4>1, <4>3 DEF NamesInv, CallNames
      <4>4. QED
        BY <4>2, <4>3
    <3>3. CASE d # c
      <4>1. creating'[d] = creating[d] /\ creating[d].names # <<>>
        <5>1. creating'[d] = creating[d] /\ creating[d].names \in Seq(JobNames)
          BY <1>3, <1>4, <3>3
        <5>2. QED
          BY <2>2, <5>1
      <4>2. CASE i = j
        <5>1. creating[c].careless
          BY <1>1, <3>1, <3>3, <4>1 DEF NamesInv, CallsTakeTurns, Creators
        <5>2. j \in careless'
          BY <1>2, <5>1
        <5>3. QED
          BY <4>2, <5>2
      <4>3. CASE i # j
        <5>1. /\ i \in InTable \ careless /\ k \in DOMAIN creating[d].names
              /\ rows'[i].name = rows[i].name
          BY <1>1, <2>2, <3>1, <4>1, <4>3
        <5>2. QED
          BY <3>1, <4>1, <5>1 DEF NamesInv, CallNames
      <4>4. QED
        BY <4>2, <4>3
    <3>4. QED
      BY <3>2, <3>3
  <2>3. QED
    BY <2>1, <2>2 DEF CallNames
<1>12. QED
  BY <1>1, <1>7, <1>8, <1>10, <1>11 DEF NamesInv

LEMMA StartCreationNames ==
  ASSUME NamesInv, NEW c \in Creators, NEW bases \in Seq(Bases), StartCreation(c, bases)
  PROVE  NamesInv'
<1> DEFINE Named(newest, names) ==
             /\ IsInjective(names)
             /\ ToSet(names) \cap {rows[j].name : j \in newest} = {}
             /\ creating' = [creating EXCEPT ![c] =
                  [names |-> names, now |-> now',
                   careless |-> newest # InTable \/ \E d \in Creators : creating[d].names # <<>>]]
<1>1. PICK newest \in SUBSET InTable : \E names : Named(newest, names)
  BY StartCreationShape, ZenonT(60) DEF NamesInv
<1>2. PICK names : Named(newest, names)
  BY <1>1
<1>3. StoreShape'
  BY StartCreationShape DEF NamesInv
<1>4. StoreShape' /\ Named(newest, names)
  BY <1>2, <1>3
<1>5. UNCHANGED <<rows, careless>>
  BY DEF StartCreation
<1>6. creating = [d \in Creators |-> creating[d]]
  BY DEF NamesInv, StoreShape, CallsOK
<1>7. /\ \A d \in Creators \ {c} : creating'[d] = creating[d]
      /\ creating'[c].names = names
      /\ ~creating'[c].careless =>
           newest = InTable /\ \A d \in Creators : creating[d].names = <<>>
  BY <1>4, <1>6
<1>8. RowNames' /\ NamesDiffer'
  BY <1>5 DEF NamesInv, RowNames, NamesDiffer, InTable
<1>9. CallsTakeTurns'
  <2>1. PICK d \in Creators : d # c
    BY DEF Creators
  <2>2. creating'[d] = creating[d]
    BY <1>7, <2>1
  <2>3. QED
    BY <1>7, <2>1, <2>2 DEF CallsTakeTurns
<1>10. CallNames'
  <2>1. \A d \in Creators : IsInjective(creating'[d].names)
    BY <1>4, <1>7 DEF NamesInv, CallNames
  <2>2. ASSUME ~creating'[c].careless, NEW k \in DOMAIN names, NEW i \in InTable
        PROVE  rows[i].name # names[k]
    BY <1>4, <1>7, <2>2 DEF ToSet
  <2>3. \A d \in Creators \ {c} : ~creating'[d].careless =>
          \A k \in DOMAIN creating'[d].names :
            \A j \in InTable \ careless : rows[j].name # creating'[d].names[k]
    BY <1>7 DEF NamesInv, CallNames
  <2>4. QED
    BY <1>5, <1>7, <2>1, <2>2, <2>3 DEF CallNames, InTable
<1>11. QED
  BY <1>4, <1>8, <1>9, <1>10 DEF NamesInv

LEMMA NamesStep ==
  ASSUME NamesInv, [StoreMove]_storeVars
  PROVE  NamesInv'
<1>1. StoreShape /\ StoreShape' /\ RowsOK /\ used \in Nat /\ now \in Nat
  <2>1. StoreShape
    BY DEF NamesInv
  <2>2. StoreShape'
    BY <2>1, StoreShapeKept
  <2>3. RowsOK /\ FilesOK
    BY <2>1 DEF StoreShape
  <2>4. now \in Nat
    BY <2>3 DEF FilesOK
  <2>5. used \in Nat
    <3>1. used \in 0..MaxStored
      BY <2>3 DEF RowsOK
    <3>2. QED
      BY <3>1, StoreAssumption
  <2>6. QED
    BY <2>1, <2>2, <2>3, <2>4, <2>5
<1>2. CASE UNCHANGED <<rows, creating, careless>>
  BY <1>1, <1>2, NamesKept DEF InTable
<1>3. CASE StoreCreations(Creators)
  <2>1. <<"a">> \in Seq(Bases) /\ <<"a", "a">> \in Seq(Bases)
    BY DEF Bases
  <2>2. QED
    BY <1>3, <2>1, StartCreationNames, SaveNewNames DEF StoreCreations
<1>4. ASSUME NEW j \in 1..used, NEW status \in StoredStatuses, SaveJob(j, status),
             now' = now + 1, UNCHANGED <<used, creating, careless>>
      PROVE  NamesInv'
  <2>1. /\ InTable' = InTable \cup {j} /\ \A i \in InTable \ {j} : rows'[i] = rows[i]
        /\ j \in InTable => rows'[j].name = rows[j].name
        /\ j \notin InTable => rows'[j].name = <<"b", j>>
    BY <1>1, <1>4, SaveJobFacts
  <2>2. \A i \in InTable' : \/ i \in InTable /\ rows'[i].name = rows[i].name
                            \/ rows'[i].name = <<"b", i>>
    BY <2>1
  <2>3. QED
    BY <1>1, <1>4, <2>2, NamesKept
<1>5. {"running", "succeeded", "cancelled"} \subseteq StoredStatuses
  BY DEF StoredStatuses, Ended
<1>6. CASE StoreWork
  <2>1. PICK j \in StoreIds : UpdateProgress(j) \/ UpdateJobStatus(j) \/ RequestCancel(j)
    BY <1>6 DEF StoreWork
  <2>2. j \in 1..used
    BY <1>1, <2>1, ProgressShape, FinishShape, CancelShape
  <2>3. CASE UpdateProgress(j)
    BY <1>2, <1>4, <1>5, <2>2, <2>3 DEF UpdateProgress, StoreTick
  <2>4. CASE UpdateJobStatus(j)
    BY <1>4, <1>5, <2>2, <2>4 DEF UpdateJobStatus, StoreTick
  <2>5. CASE RequestCancel(j)
    <3>1. (IF rows[j].status = "queued" THEN "cancelled" ELSE rows[j].status) \in StoredStatuses
      BY <1>1, <1>5, <2>2, <2>5 DEF RequestCancel, RowsOK, IsRow
    <3>2. QED
      BY <1>4, <2>2, <2>5, <3>1 DEF RequestCancel, StoreTick
  <2>6. QED
    BY <2>1, <2>3, <2>4, <2>5
<1>7. CASE StoreRequests
  <2>1. PICK j \in StoreIds : Claim(j) \/ DeleteJob(j) \/ DeleteRows(j)
    BY <1>7 DEF StoreRequests
  <2>2. CASE Claim(j)
    <3>1. j \in 1..used
      BY <1>1, <2>2, ClaimShape
    <3>2. QED
      BY <1>4, <1>5, <2>2, <3>1 DEF Claim, StoreTick
  <2>3. CASE DeleteJob(j)
    BY <1>2, <2>3 DEF DeleteJob
  <2>4. CASE DeleteRows(j)
    <3>1. InTable' \subseteq InTable /\ \A i \in InTable' : rows'[i] = rows[i]
      BY <1>1, <2>4, DeleteRowsShape
    <3>2. UNCHANGED <<creating, careless>>
      BY <2>4 DEF DeleteRows
    <3>3. QED
      BY <1>1, <3>1, <3>2, NamesKept
  <2>5. QED
    BY <2>1, <2>2, <2>3, <2>4
<1>8. CASE StoreCleanup \/ StoreWalks \/ UNCHANGED storeVars
  <2>1. UNCHANGED <<rows, creating, careless>>
    BY <1>8 DEF StoreCleanup, StoreWalks, StartCleanup, CleanNext, StartWalk, NextPage,
                NextCursor, storeVars
  <2>2. QED
    BY <1>2, <2>1
<1>9. QED
  BY <1>3, <1>6, <1>7, <1>8 DEF StoreMove

-----------------------------------------------------------------------------
(* Walks                                                                     *)

\* A walk by page has seen what it wanted of the pages behind it, ...
PageSeen ==
  \A x \in walk.wanted :
    Cardinality(Below(Newer, InView(rows), x)) < walk.at * Limit => x \in walk.seen
\* ... and one by cursor what was not created before the job its cursor names.
CursorSeen ==
  \A x \in walk.wanted : rows[x].created >= rows[walk.at].created => x \in walk.seen
WalkGoes ==
  walk.how # "none" /\ ~walk.ended =>
    /\ walk.wanted \subseteq InView(rows)
    /\ ~walk.tied => ~Tied(rows)
    /\ walk.how = "page" /\ ~walk.gone => PageSeen
    /\ walk.how = "cursor" => walk.at <= used
    /\ walk.how = "cursor" /\ ~walk.tied /\ walk.at \in InTable => CursorSeen

WalksInv == StoreShape /\ WalkGoes /\ WalksMissNothing

\* The steps of the part about walks: nobody holds a job there and saves it again.
WalkMove == StoreWalks \/ StoreCreations({1}) \/ StoreRequests

\* A walk does not lose what is added, and knows of what is removed or tied.
LEMMA WalkWatches ==
  ASSUME WalksInv, StoreShape', used' \in {used, used + 1}, Seen(rows'),
         InTable' \subseteq InTable \cup {used + 1},
         \A i \in InTable \cap InTable' : rows'[i].created = rows[i].created
  PROVE  WalksInv'
<1>1. StoreShape /\ RowsOK /\ RowsOK' /\ used \in Nat /\ WalkGoes
  BY StoreAssumption DEF WalksInv, StoreShape, RowsOK
<1>2. /\ IsWalk(walk', used') /\ walk'.how = walk.how /\ walk'.filter = walk.filter
      /\ walk'.at = walk.at /\ walk'.seen = walk.seen /\ walk'.ended = walk.ended
      /\ walk.how = "none" \/ walk.ended => walk' = walk
      /\ ~(walk.how = "none" \/ walk.ended) =>
           /\ walk'.wanted = walk.wanted \cap InView(rows')
           /\ walk'.gone = (walk.gone \/ ~(InView(rows) \subseteq InView(rows')))
           /\ walk'.tied = (walk.tied \/ Tied(rows'))
  BY <1>1, SeenFacts DEF StoreShape
<1>3. CASE walk.how = "none" \/ walk.ended
  <2>1. walk' = walk /\ WalkGoes'
    BY <1>2, <1>3 DEF WalkGoes
  <2>2. QED
    BY <2>1 DEF WalksInv, WalksMissNothing
<1>4. CASE ~(walk.how = "none" \/ walk.ended)
  <2> DEFINE V == InView(rows)
             W == InView(rows)'
  <2>1. /\ walk'.wanted \subseteq W /\ walk'.wanted \subseteq walk.wanted
        /\ ~walk'.tied => ~walk.tied /\ ~Tied(rows)'
        /\ ~walk'.gone => ~walk.gone /\ V \subseteq W
        /\ W = InView(rows') /\ W \subseteq InTable' /\ V \subseteq InTable
    BY <1>2, <1>4 DEF InView, InTable, Tied
  <2>2. walk.wanted \subseteq V
    BY <1>1, <1>4 DEF WalkGoes
  <2>3. ASSUME walk.how = "page", ~walk'.gone
        PROVE  PageSeen'
    <3> SUFFICES ASSUME NEW x \in walk'.wanted,
                        Cardinality(Below(Newer', W, x)) < walk'.at * Limit
                 PROVE  x \in walk'.seen
      BY DEF PageSeen, Below
    <3>1. x \in walk.wanted /\ x \in V /\ V \subseteq W /\ PageSeen
      BY <1>1, <1>4, <2>1, <2>2, <2>3 DEF WalkGoes
    <3>2. Below(Newer, V, x) \in SUBSET Below(Newer', W, x)
      <4> SUFFICES ASSUME NEW y \in V, <<y, x>> \in Newer
                   PROVE  <<y, x>> \in Newer'
        BY <3>1 DEF Below
      <4>1. {x, y} \subseteq InTable \cap InTable'
        BY <2>1, <3>1
      <4>2. rows'[x].created = rows[x].created /\ rows'[y].created = rows[y].created
        BY <4>1
      <4>3. QED
        BY <4>1, <4>2 DEF Newer, Older
    <3>3. IsFiniteSet(Below(Newer', W, x))
      <4>1. \A S \in SUBSET (1..used') : IsFiniteSet(S)
        <5>1. used' \in Nat
          BY <1>1
        <5>2. IsFiniteSet(1..used')
          BY <5>1, FS_Interval
        <5>3. QED
          BY <5>2, FS_Subset
      <4>2. Below(Newer', W, x) \in SUBSET (1..used')
        BY <1>1, <2>1 DEF Below, RowsOK
      <4>3. QED
        BY <4>1, <4>2
    <3>4. /\ IsFiniteSet(Below(Newer, V, x))
          /\ Cardinality(Below(Newer, V, x)) <= Cardinality(Below(Newer', W, x))
      BY <3>2, <3>3, FS_Subset
    <3>5. {Cardinality(Below(Newer, V, x)), Cardinality(Below(Newer', W, x))} \subseteq Nat
      BY <3>3, <3>4, FS_CardinalityType
    <3>6. PICK n \in Nat : n = walk.at * Limit
      BY StoreAssumption DEF WalksInv, StoreShape, IsWalk
    <3>7. Cardinality(Below(Newer, V, x)) < n
      BY <1>2, <3>4, <3>5, <3>6
    <3>8. QED
      BY <1>2, <3>1, <3>6, <3>7 DEF PageSeen
  <2>4. ASSUME walk.how = "cursor", ~walk'.tied, walk'.at \in InTable'
        PROVE  CursorSeen'
    <3>1. walk.at \in InTable /\ walk.at \in InTable'
      <4>1. walk.at <= used /\ walk.at \in Nat
        BY <1>1, <1>4, <2>4 DEF WalkGoes, StoreShape, IsWalk
      <4>2. walk.at # used + 1
        BY <1>1, <4>1
      <4>3. QED
        BY <1>2, <2>4, <4>2
    <3>2. CursorSeen
      BY <1>1, <1>4, <2>1, <2>4, <3>1 DEF WalkGoes
    <3>3. \A x \in walk'.wanted : /\ x \in walk.wanted /\ rows'[x].created = rows[x].created
                                  /\ rows'[walk.at].created = rows[walk.at].created
      BY <2>1, <2>2, <3>1
    <3>4. QED
      BY <1>2, <3>2, <3>3 DEF CursorSeen
  <2>5. walk.how = "cursor" => walk'.at <= used'
    BY <1>1, <1>2, <1>4 DEF WalkGoes, StoreShape, IsWalk
  <2>6. WalkGoes'
    BY <1>2, <1>4, <2>1, <2>3, <2>4, <2>5 DEF WalkGoes
  <2>7. WalksMissNothing'
    BY <1>2, <1>4 DEF WalksMissNothing
  <2>8. QED
    BY <2>6, <2>7 DEF WalksInv
<1>5. QED
  BY <1>3, <1>4

\* A walk begins with nothing behind it.
LEMMA StartWalkGoes ==
  ASSUME WalksInv, NEW how \in {"page", "cursor"}, NEW filter \in BOOLEAN, StartWalk(how, filter)
  PROVE  WalksInv'
<1>1. /\ StoreShape'
      /\ walk'.how = how /\ walk'.filter = filter /\ walk'.at = 0 /\ ~walk'.ended
      /\ walk'.wanted = {j \in InTable : filter => rows[j].status = "queued"}
      /\ walk'.tied = Tied(rows)
  BY StartWalkShape DEF WalksInv
<1>2. rows' = rows /\ used' = used /\ used \in Nat /\ RowsOK
  BY StoreAssumption DEF StartWalk, WalksInv, StoreShape, RowsOK
<1>3. walk'.wanted \subseteq InView(rows)' /\ (~walk'.tied => ~Tied(rows)')
  BY <1>1, <1>2 DEF InView, InTable, Tied
<1>4. PageSeen'
  <2> SUFFICES ASSUME NEW x \in walk'.wanted,
                      Cardinality(Below(Newer', InView(rows)', x)) < walk'.at * Limit
               PROVE  FALSE
    BY DEF PageSeen, Below
  <2>1. walk'.at * Limit = 0
    BY <1>1, StoreAssumption
  <2>2. Below(Newer', InView(rows)', x) \in SUBSET InTable
    BY <1>2 DEF Below, InView, InTable
  <2>3. Cardinality(Below(Newer', InView(rows)', x)) \in Nat
    BY <1>2, <2>2, TableFacts, FS_CardinalityType
  <2>4. QED
    BY <2>1, <2>3
<1>5. ~(walk'.at \in InTable') /\ walk'.at <= used'
  <2>1. InTable' \subseteq Nat \ {0}
    BY <1>2 DEF RowsOK, InTable
  <2>2. QED
    BY <1>1, <1>2, <2>1
<1>6. WalkGoes' /\ WalksMissNothing'
  BY <1>1, <1>3, <1>4, <1>5 DEF WalkGoes, WalksMissNothing
<1>7. QED
  BY <1>1, <1>6 DEF WalksInv

\* A page more: what it wanted of the next Limit jobs of the list is on it.
LEMMA NextPageGoes ==
  ASSUME WalksInv, NextPage
  PROVE  WalksInv'
<1> DEFINE V == InView(rows)
           N == Cardinality(V)
           all == ByCreation(V)
           start == walk.at * Limit
           end == Min({start + Limit, Len(all)})
           page == SubSeq(all, start + 1, end)
           place(x) == Cardinality(Below(Newer, V, x))
<1>1. StoreShape' /\ NextPageStep /\ RowsOK /\ StoreShape /\ walk.at \in Nat
  BY NextPageShape DEF WalksInv, StoreShape, IsWalk
<1>2. /\ walk'.how = walk.how /\ walk'.filter = walk.filter /\ walk'.at = walk.at + 1
      /\ walk'.seen = walk.seen \cup ToSet(page) /\ walk'.wanted = walk.wanted
      /\ walk'.gone = walk.gone /\ walk'.tied = walk.tied
      /\ walk'.ended = (start + Limit >= Len(all))
  BY <1>1 DEF NextPageStep
<1>3. rows' = rows /\ used' = used /\ walk.how = "page" /\ ~walk.ended
  BY DEF NextPage
<1>4. WalkGoes /\ walk.wanted \subseteq V /\ (~walk.tied => ~Tied(rows)) /\ (~walk.gone => PageSeen)
  BY <1>3 DEF WalksInv, WalkGoes
<1>5. /\ V \in SUBSET InTable /\ IsFiniteSet(V) /\ IsStrictOrder(Newer, V)
      /\ all = Sorted(Newer, V)
  BY <1>1, ViewFacts, TableFacts, CreationOrder
<1>6. /\ start \in Nat /\ end \in Nat /\ N \in Nat /\ Len(all) = N /\ Limit \in Nat
      /\ end = (IF start + Limit <= N THEN start + Limit ELSE N)
      /\ (walk.at + 1) * Limit = start + Limit
  <2>1. Limit \in Nat
    BY StoreAssumption
  <2>2. (walk.at + 1) * Limit = walk.at * Limit + Limit
    BY <1>1, <2>1
  <2>3. QED
    BY <1>1, <2>1, <2>2, NextPageFacts
<1>7. \A x \in V : place(x) \in Nat /\ place(x) < N
  BY <1>5, <1>6, SortedFacts
<1>8. \A x \in V : start <= place(x) /\ place(x) < end => x \in ToSet(page)
  <2>1. end <= N
    BY <1>6
  <2> HIDE DEF V, start, end
  <2>2. \A x \in V : /\ start <= Cardinality(Below(Newer, V, x))
                     /\ Cardinality(Below(Newer, V, x)) < end
                     /\ end <= Cardinality(V)
                     => x \in ToSet(SubSeq(Sorted(Newer, V), start + 1, end))
    BY <1>5, <1>6, FirstSorted
  <2>3. QED
    BY <1>5, <2>1, <2>2
<1> HIDE DEF start, end, page, place, all
<1>9. ASSUME ~walk.gone, NEW x \in walk.wanted, place(x) < start + Limit
      PROVE  x \in walk'.seen
  <2>1. x \in V /\ place(x) \in Nat /\ place(x) < N
    BY <1>4, <1>7
  <2>2. CASE place(x) < start
    BY <1>2, <1>4, <1>9, <2>2 DEF PageSeen, place, start
  <2>3. CASE ~(place(x) < start)
    <3>1. start <= place(x) /\ place(x) < end
      BY <1>6, <1>9, <2>1, <2>3
    <3>2. QED
      BY <1>2, <1>8, <2>1, <3>1
  <2>4. QED
    BY <2>2, <2>3
<1>10. InView(rows)' = V /\ Newer' = Newer
  BY <1>2, <1>3 DEF InView, Newer, Older, InTable
<1>11. ~walk'.gone => PageSeen'
  <2>1. \A x : Below(Newer', InView(rows)', x) = Below(Newer, V, x)
    BY <1>10
  <2>2. walk'.at * Limit = start + Limit
    BY <1>2, <1>6
  <2> SUFFICES ASSUME ~walk'.gone, NEW x \in walk'.wanted,
                      Cardinality(Below(Newer', InView(rows)', x)) < walk'.at * Limit
               PROVE  x \in walk'.seen
    BY DEF PageSeen, Below
  <2>3. place(x) < start + Limit
    BY <2>1, <2>2 DEF place
  <2>4. QED
    BY <1>2, <1>9, <2>3
<1>12. WalkGoes'
  <2>1. ~Tied(rows)' = ~Tied(rows) /\ walk'.how # "cursor"
    BY <1>2, <1>3 DEF Tied
  <2>2. QED
    BY <1>2, <1>4, <1>10, <1>11, <2>1 DEF WalkGoes
<1>13. WalksMissNothing'
  <2> SUFFICES ASSUME walk'.ended, ~walk'.gone, NEW x \in walk'.wanted
               PROVE  x \in walk'.seen
    BY <1>2, <1>3 DEF WalksMissNothing
  <2>1. start + Limit >= N /\ ~walk.gone /\ x \in walk.wanted /\ x \in V
    BY <1>2, <1>4, <1>6
  <2>2. place(x) < start + Limit
    BY <1>6, <1>7, <2>1
  <2>3. QED
    BY <1>9, <2>1, <2>2
<1>14. QED
  BY <1>1, <1>12, <1>13 DEF WalksInv

\* What comes after the cursor was created before; what comes up to it was not.
LEMMA NextCursorGoes ==
  ASSUME WalksInv, NextCursor
  PROVE  WalksInv'
<1> DEFINE V == InView(rows)
           start(all) == CursorPlace(all, walk.at)
           end(all) == Min({start(all) + Limit, Len(all)})
           page(all) == SubSeq(all, start(all) + 1, end(all))
           more(all) == start(all) + Limit < Len(all)
<1>1. StoreShape' /\ NextCursorStep /\ RowsOK /\ StoreShape /\ walk.at \in Nat
  BY NextCursorShape DEF WalksInv, StoreShape, IsWalk
<1>2. PICK all \in ScanOrders(V) :
        walk' = [how |-> walk.how, filter |-> walk.filter,
                 at |-> IF more(all) THEN page(all)[Len(page(all))] ELSE 0,
                 seen |-> walk.seen \cup ToSet(page(all)),
                 wanted |-> walk.wanted, gone |-> walk.gone, tied |-> walk.tied,
                 ended |-> ~more(all)]
  BY <1>1 DEF NextCursorStep
<1>3. /\ walk'.how = walk.how /\ walk'.filter = walk.filter
      /\ walk'.at = (IF more(all) THEN page(all)[Len(page(all))] ELSE 0)
      /\ walk'.seen = walk.seen \cup ToSet(page(all)) /\ walk'.wanted = walk.wanted
      /\ walk'.gone = walk.gone /\ walk'.tied = walk.tied
      /\ walk'.ended = ~more(all)
  BY <1>2
<1>4. rows' = rows /\ used' = used /\ walk.how = "cursor" /\ ~walk.ended
  BY DEF NextCursor
<1>5. /\ WalkGoes /\ walk.wanted \subseteq V /\ (~walk.tied => ~Tied(rows))
      /\ ~walk.tied /\ walk.at \in InTable => CursorSeen
  BY <1>4 DEF WalksInv, WalkGoes
<1>6. V \in SUBSET InTable /\ IsFiniteSet(V)
  BY <1>1, ViewFacts, TableFacts
<1> DEFINE b == start(all)
           e == end(all)
           N == Len(all)
<1>7. /\ all \in Seq(V) /\ N \in Nat /\ b \in 0..N
      /\ b # 0 => all[b] = walk.at
      /\ \A x \in V : \E i \in 1..N : all[i] = x
      /\ \A i, j \in 1..N : i # j => all[i] # all[j]
      /\ \A i, j \in 1..N : i < j => rows[all[i]].created >= rows[all[j]].created
  <2>1. all \in SetToSeqs(V)
    BY DEF ScanOrders
  <2>2. /\ all \in Seq(V) /\ N = Cardinality(V) /\ Cardinality(V) \in Nat
        /\ b \in 0..N
        /\ b # 0 => all[b] = walk.at
        /\ \A x \in V : \E i \in 1..N : all[i] = x
    <3> HIDE DEF V
    <3> QED
      BY <1>6, <2>1, CursorFacts
  <2>3. \A i, j \in 1..N : i # j => all[i] # all[j]
    BY <2>1, <2>2 DEF SetToSeqs
  <2>4. \A i, j \in 1..N : i < j => rows[all[i]].created >= rows[all[j]].created
    BY <2>2 DEF ScanOrders
  <2>5. QED
    BY <2>2, <2>3, <2>4
<1>8. Limit \in Nat /\ Limit >= 1 /\ b \in Nat
  BY <1>7, StoreAssumption
<1>9. /\ e \in Nat /\ e = (IF b + Limit <= N THEN b + Limit ELSE N)
      /\ page(all) = SubSeq(all, b + 1, e)
  <2> HIDE DEF start, V
  <2> QED
    BY <1>7, <1>8, PageFacts
<1> DEFINE p == page(all)
<1>10. /\ Len(p) = e - b /\ \A k \in 1..(e - b) : p[k] = all[b + k]
      /\ ToSet(p) = {p[k] : k \in 1..(e - b)}
  <2>1. e <= N /\ b <= e /\ all \in Seq(V) /\ b \in Nat /\ e \in Nat
    BY <1>7, <1>8, <1>9
  <2> HIDE DEF start, end, V, b, e
  <2>2. /\ Len(SubSeq(all, b + 1, e)) = e - b /\ DOMAIN SubSeq(all, b + 1, e) = 1..(e - b)
        /\ \A k \in 1..(e - b) : SubSeq(all, b + 1, e)[k] = all[b + k]
    BY <2>1, SubSeqPlaces
  <2>3. QED
    BY <1>9, <2>2 DEF ToSet
<1>11. /\ walk'.seen = walk.seen \cup ToSet(p)
       /\ walk'.ended => ~(b + Limit < N)
       /\ ~walk'.ended => b + Limit < N
       /\ b + Limit < N => walk'.at = p[Len(p)]
  BY <1>3
<1>12. /\ N \in Nat /\ b \in Nat /\ b <= N /\ e \in Nat /\ b <= e /\ e <= N
       /\ b + Limit <= N => e = b + Limit
       /\ b + Limit > N => e = N
  BY <1>7, <1>8, <1>9
<1>13. \A i \in 1..N : all[i] \in V
  BY <1>7
<1> HIDE DEF start, end, page, b, e, p, N
<1>14. \A i \in 1..e : i > b => all[i] \in ToSet(p)
  <2> SUFFICES ASSUME NEW i \in 1..e, i > b
               PROVE  all[i] \in ToSet(p)
    OBVIOUS
  <2>1. PICK k \in 1..(e - b) : b + k = i
    <3>1. i - b \in 1..(e - b) /\ b + (i - b) = i
      BY <1>8, <1>9
    <3>2. QED
      BY <3>1
  <2>2. QED
    BY <1>10, <2>1
<1>15. \A x \in V : x \in Nat /\ rows[x].created \in Nat
  BY <1>1, <1>6, TableFacts
<1>16. ASSUME ~walk.tied, NEW x \in walk.wanted, NEW i \in 1..e, all[i] = x
       PROVE  x \in walk'.seen
  <2>1. CASE i > b
    BY <1>14, <1>16, <1>11, <2>1
  <2>2. CASE ~(i > b)
    <3>1. b # 0 /\ i <= b /\ i \in 1..N /\ b \in 1..N
      BY <1>12, <2>2
    <3>2. all[b] = walk.at /\ walk.at \in V
      BY <1>7, <1>13, <3>1
    <3>3. rows[x].created >= rows[walk.at].created
      <4>1. CASE i = b
        BY <1>15, <1>16, <3>2, <4>1
      <4>2. CASE i # b
        <5>1. i < b
          BY <3>1, <4>2
        <5>2. QED
          BY <1>7, <1>16, <3>1, <3>2, <5>1
      <4>3. QED
        BY <4>1, <4>2
    <3>4. x \in walk.seen
      BY <1>5, <1>6, <1>16, <3>2, <3>3 DEF CursorSeen
    <3>5. QED
      BY <1>11, <3>4
  <2>3. QED
    BY <2>1, <2>2
<1>17. ASSUME ~walk.tied, walk'.ended, NEW x \in walk.wanted
       PROVE  x \in walk'.seen
  <2>1. e = N
    BY <1>8, <1>11, <1>17, <1>12
  <2>2. PICK i \in 1..N : all[i] = x
    BY <1>5, <1>7
  <2>3. QED
    BY <1>16, <1>17, <2>1, <2>2
<1>18. ASSUME ~walk'.ended
       PROVE  walk'.at = all[e] /\ e \in 1..N /\ e = b + Limit
  <2>1. b + Limit < N
    BY <1>18, <1>11
  <2>2. e = b + Limit /\ e \in 1..N /\ e - b = Limit
    BY <1>8, <1>12, <2>1
  <2>3. p[Limit] = all[b + Limit] /\ Len(p) = Limit
    BY <1>8, <1>10, <2>2
  <2>4. QED
    BY <1>11, <2>1, <2>2, <2>3
<1>19. ASSUME ~walk.tied, ~walk'.ended, NEW x \in walk.wanted, rows[x].created >= rows[walk'.at].created
       PROVE  x \in walk'.seen
  <2>1. walk'.at = all[e] /\ e \in 1..N
    BY <1>18, <1>19
  <2>2. PICK i \in 1..N : all[i] = x
    BY <1>5, <1>7
  <2>3. i <= e
    <3> SUFFICES ASSUME e < i
                 PROVE  FALSE
      BY <2>1
    <3>1. rows[all[e]].created >= rows[x].created /\ all[e] # x
      BY <1>7, <2>1, <2>2
    <3>2. all[e] \in InTable /\ x \in InTable
      BY <1>5, <1>6, <1>13, <2>1
    <3>3. {rows[all[e]].created, rows[x].created} \subseteq Nat
      BY <1>1, <3>2, TableFacts
    <3>4. rows[all[e]].created = rows[x].created
      BY <1>19, <2>1, <3>1, <3>3
    <3>5. QED
      BY <1>5, <1>19, <3>1, <3>2, <3>4 DEF Tied, InTable
  <2>4. i \in 1..e
    BY <2>1, <2>3
  <2>5. QED
    BY <1>16, <1>19, <2>2, <2>4
<1>20. InView(rows)' = V
  BY <1>3, <1>4 DEF InView
<1>21. ASSUME ~walk'.ended
       PROVE  /\ walk'.at <= used'
              /\ ~walk'.tied => CursorSeen'
  <2>1. walk'.at \in V
    BY <1>18, <1>21, <1>13
  <2>2. walk'.at <= used'
    BY <1>1, <1>4, <1>6, <2>1 DEF RowsOK
  <2>3. ~walk'.tied => CursorSeen'
    BY <1>3, <1>4, <1>19, <1>21 DEF CursorSeen
  <2>4. QED
    BY <2>2, <2>3
<1>22. WalkGoes'
  <2>1. Tied(rows)' = Tied(rows)
    BY <1>4 DEF Tied
  <2>2. QED
    BY <1>3, <1>4, <1>5, <1>20, <1>21, <2>1 DEF WalkGoes
<1>23. WalksMissNothing'
  BY <1>3, <1>4, <1>17 DEF WalksMissNothing
<1>24. QED
  BY <1>1, <1>22, <1>23 DEF WalksInv

LEMMA WalksStep ==
  ASSUME WalksInv, [WalkMove]_storeVars
  PROVE  WalksInv'
<1>1. StoreShape /\ RowsOK /\ used \in Nat /\ now \in Nat
  BY StoreAssumption DEF WalksInv, StoreShape, RowsOK, FilesOK
<1>2. StoreShape'
  <2>1. [StoreMove]_storeVars
    BY DEF WalkMove, StoreMove, StoreCreations, Creators
  <2>2. QED
    BY <1>1, <2>1, StoreShapeKept
<1>3. CASE UNCHANGED <<rows, used, walk>>
  BY <1>2, <1>3 DEF WalksInv, WalkGoes, WalksMissNothing, PageSeen, CursorSeen, InView, Tied,
                    Newer, Older, InTable, Below
<1>4. CASE StoreWalks
  BY <1>4, StartWalkGoes, NextPageGoes, NextCursorGoes DEF StoreWalks
<1>5. CASE StoreCreations({1})
  <2>1. ASSUME SaveNew(1)
        PROVE  WalksInv'
    <3>1. /\ used' = used + 1 /\ InTable' = InTable \cup {used + 1} /\ Seen(rows')
          /\ \A i \in InTable : rows'[i] = rows[i]
      BY <1>1, <2>1, SaveNewShape DEF Creators
    <3>2. QED
      BY <1>2, <3>1, WalkWatches
  <2>2. \A bases : StartCreation(1, bases) => UNCHANGED <<rows, used, walk>>
    BY DEF StartCreation
  <2>3. QED
    BY <1>3, <1>5, <2>1, <2>2 DEF StoreCreations
<1>6. CASE StoreRequests
  <2>1. PICK j \in StoreIds : Claim(j) \/ DeleteJob(j) \/ DeleteRows(j)
    BY <1>6 DEF StoreRequests
  <2>2. CASE Claim(j)
    <3>1. /\ j \in InTable /\ SaveJob(j, "running") /\ used' = used /\ now' = now + 1
      BY <2>2 DEF Claim, StoreTick
    <3>2. j \in 1..used /\ "running" \in StoredStatuses /\ now' \in Nat
      BY <1>1, <3>1 DEF RowsOK, StoredStatuses
    <3>3. /\ InTable' = InTable \cup {j} /\ Seen(rows')
          /\ \A i \in InTable \ {j} : rows'[i] = rows[i]
          /\ rows'[j].created = rows[j].created
      BY <1>1, <3>1, <3>2, SaveJobFacts
    <3>4. QED
      BY <1>2, <3>1, <3>3, WalkWatches
  <2>3. CASE DeleteJob(j)
    BY <1>3, <2>3 DEF DeleteJob
  <2>4. CASE DeleteRows(j)
    <3>1. /\ InTable' \subseteq InTable /\ Seen(rows')
          /\ \A i \in InTable' : rows'[i] = rows[i]
      BY <1>1, <2>4, DeleteRowsShape
    <3>2. used' = used
      BY <2>4 DEF DeleteRows
    <3>3. QED
      BY <1>2, <3>1, <3>2, WalkWatches
  <2>5. QED
    BY <2>1, <2>2, <2>3, <2>4
<1>7. QED
  BY <1>3, <1>4, <1>5, <1>6 DEF WalkMove, storeVars

-----------------------------------------------------------------------------
(* What the store keeps                                                      *)

LEMMA StoreInitInv == StoreViewsInit => CleanupInv /\ NamesInv /\ WalksInv
<1> SUFFICES ASSUME StoreViewsInit
             PROVE  CleanupInv /\ NamesInv /\ WalksInv
  OBVIOUS
<1>1. PICK status \in StoredJobs :
        /\ rows = [j \in DOMAIN status |->
                     [status |-> status[j], created |-> j, updated |-> j,
                      finished |-> IF status[j] \in Ended THEN j ELSE 0, name |-> <<"b", j>>]]
        /\ held = {j \in DOMAIN status : status[j] = "running"}
        /\ dirs = DOMAIN status /\ used = Len(status)
  BY DEF StoreViewsInit
<1>2. /\ beside = {} /\ deleting = {} /\ creating = [c \in Creators |-> NoCreation]
      /\ careless = {} /\ excused = {} /\ walk = NoWalk /\ clean = NoCleaning /\ cleaned = {}
      /\ now = MaxStored
  BY DEF StoreViewsInit
<1>3. /\ status \in Seq(StoredStatuses) /\ Len(status) \in 0..MaxStored /\ MaxStored \in Nat
      /\ DOMAIN status = 1..used /\ used \in 0..MaxStored
      /\ \A j \in 1..used : status[j] \in StoredStatuses
  BY <1>1, StoreAssumption
<1>4. /\ InTable = 1..used
      /\ \A j \in InTable :
           rows[j] = [status |-> status[j], created |-> j, updated |-> j,
                      finished |-> IF status[j] \in Ended THEN j ELSE 0, name |-> <<"b", j>>]
  BY <1>1, <1>3 DEF InTable
<1>5. RowsOK
  <2>1. ASSUME NEW j \in InTable
        PROVE  IsRow(rows[j])
    <3> DEFINE end == IF status[j] \in Ended THEN j ELSE 0
    <3>1. /\ j \in Nat \ {0} /\ status[j] \in StoredStatuses /\ end \in Nat
          /\ status[j] \in Ended => end # 0
      BY <1>3, <1>4
    <3>2. rows[j] = [status |-> status[j], created |-> j, updated |-> j,
                     finished |-> end, name |-> <<"b", j>>]
      BY <1>4
    <3> HIDE DEF end
    <3>3. QED
      BY <3>1, <3>2 DEF IsRow
  <2>2. QED
    BY <1>1, <1>3, <1>4, <2>1 DEF RowsOK
<1>6. FilesOK
  BY <1>1, <1>2, <1>3 DEF FilesOK
<1>7. CallsOK
  <2>1. /\ creating = [c \in Creators |-> creating[c]]
        /\ \A c \in Creators : creating[c] = NoCreation
    BY <1>2
  <2>2. IsCall(NoCreation) /\ Len(NoCreation.names) = 0
    BY DEF IsCall, NoCreation
  <2>3. creating[1] = NoCreation /\ creating[2] = NoCreation
    BY <2>1 DEF Creators
  <2>4. used + Len(creating[1].names) + Len(creating[2].names) <= MaxStored
    BY <1>3, <2>2, <2>3
  <2>5. \A c \in Creators : IsCall(creating[c])
    BY <2>1, <2>2
  <2>6. QED
    BY <2>1, <2>4, <2>5 DEF CallsOK
<1>8. IsWalk(walk, used) /\ IsCleaning(clean, used)
  BY <1>2 DEF IsWalk, IsCleaning, NoWalk, NoCleaning
<1>9. StoreShape
  BY <1>5, <1>6, <1>7, <1>8 DEF StoreShape
<1>10. CleanupInv
  BY <1>1, <1>2, <1>4, <1>9
     DEF CleanupInv, HeldRun, TodoEnded, CleanupSpares, NoOrphans, NoCleaning
<1>11. \A j \in InTable : rows[j].name = <<"b", j>>
  <2> SUFFICES ASSUME NEW j \in InTable
               PROVE  rows[j].name = <<"b", j>>
    OBVIOUS
  <2>1. PICK name : name = <<"b", j>>
    OBVIOUS
  <2>2. rows[j] = [status |-> status[j], created |-> j, updated |-> j,
                   finished |-> IF status[j] \in Ended THEN j ELSE 0, name |-> name]
    BY <1>4, <2>1
  <2>3. QED
    BY <2>1, <2>2
<1>12. NamesInv
  <2>1. RowNames /\ CallsTakeTurns
    <3>1. creating[1].names = <<>> /\ 1 \in Creators
      BY <1>2 DEF NoCreation, Creators
    <3>2. QED
      BY <1>11, <3>1 DEF RowNames, CallsTakeTurns
  <2>2. CallNames
    BY <1>2 DEF CallNames, NoCreation, IsInjective
  <2>3. NamesDiffer
    <3>1. \A i, j : <<"b", i>> = <<"b", j>> => i = j
      OBVIOUS
    <3>2. QED
      BY <1>11, <3>1 DEF NamesDiffer
  <2>4. QED
    BY <1>9, <2>1, <2>2, <2>3 DEF NamesInv
<1>13. WalksInv
  BY <1>2, <1>9 DEF WalksInv, WalkGoes, WalksMissNothing, NoWalk
<1>14. QED
  BY <1>10, <1>12, <1>13

LEMMA StoreShapeSays == StoreShape => StoreViewsTypeOK
<1> SUFFICES ASSUME StoreShape
             PROVE  StoreViewsTypeOK
  OBVIOUS
<1>1. MaxStored \in Nat /\ used \in Nat /\ used <= MaxStored
  BY StoreAssumption DEF StoreShape, RowsOK
<1>2. 1..used \subseteq StoreIds
  BY <1>1 DEF StoreIds
<1>3. InTable \cup dirs \cup held \cup deleting \subseteq StoreIds
  BY <1>2 DEF StoreShape, RowsOK, FilesOK
<1>4. \A j \in InTable : rows[j].status \in StoredStatuses
  BY DEF StoreShape, RowsOK, IsRow
<1>5. beside \subseteq Auxiliary \X StoreIds /\ walk.seen \subseteq StoreIds
  BY <1>2 DEF StoreShape, FilesOK, IsWalk
<1>6. QED
  BY <1>1, <1>3, <1>4, <1>5 DEF StoreViewsTypeOK

\* compactJobForList counts a report there is at least once.
LEMMA CompactFacts ==
  ASSUME NEW job, job.count \in Nat, job.hasReport \in BOOLEAN
  PROVE  /\ "report.md" \in job.artifacts \/ job.hasReport =>
              /\ Compact(job).hasReport = TRUE
              /\ Compact(job).artifacts = {"report.md"}
              /\ Compact(job).count = IF job.count = 0 THEN 1 ELSE job.count
         /\ ~("report.md" \in job.artifacts \/ job.hasReport) =>
              /\ Compact(job).hasReport = FALSE
              /\ Compact(job).artifacts = {}
              /\ Compact(job).count = job.count
<1> DEFINE report == "report.md" \in job.artifacts \/ job.hasReport
           list == IF report THEN {"report.md"} ELSE {}
           n == Max({job.count, IF report THEN 1 ELSE 0})
<1>1. Compact(job) = [artifacts |-> list, hasReport |-> report, count |-> n, logs |-> 0,
                      logCount |-> job.logs]
  BY DEF Compact
<1>2. report => n = IF job.count = 0 THEN 1 ELSE job.count
  <2>1. report => n = Max({job.count, 1})
    BY Zenon
  <2>2. Max({job.count, 1}) = IF job.count = 0 THEN 1 ELSE job.count
    BY MaxFacts
  <2> HIDE DEF n, report
  <2>3. QED
    BY <2>1, <2>2
<1>3. ~report => n = job.count
  <2>1. ~report => n = Max({job.count, 0})
    BY Zenon
  <2>2. Max({job.count, 0}) = job.count
    BY MaxFacts
  <2> HIDE DEF n, report
  <2>3. QED
    BY <2>1, <2>2
<1>4. report => list = {"report.md"}
  BY Zenon
<1>5. ~report => list = {}
  BY Zenon
<1> HIDE DEF list, n
<1>6. /\ Compact(job).artifacts = list /\ Compact(job).count = n
      /\ Compact(job).hasReport = report
  BY <1>1
<1>7. QED
  BY <1>2, <1>3, <1>4, <1>5, <1>6

\* A list made of what a list was made of loses nothing but the number of log lines.
LEMMA CompactionKeeps == CompactKeeps
<1> SUFFICES ASSUME NEW artifacts \in SUBSET {"report.md", "a"}, NEW once, NEW twice,
                    once = Compact([artifacts |-> artifacts, hasReport |-> FALSE, logs |-> 1,
                                    count |-> Cardinality(artifacts)]),
                    twice = Compact(once)
             PROVE  /\ twice.hasReport = ("report.md" \in artifacts)
                    /\ twice.count = Cardinality(artifacts)
                    /\ twice.artifacts = once.artifacts
  BY DEF CompactKeeps
<1> DEFINE n == Cardinality(artifacts)
           report == "report.md" \in artifacts
           job == [artifacts |-> artifacts, hasReport |-> FALSE, logs |-> 1, count |-> n]
<1>1. n \in Nat /\ (report => n # 0)
  <2>1. IsFiniteSet({"report.md"} \cup {"a"})
    BY FS_Singleton, FS_Union
  <2>2. artifacts \in SUBSET ({"report.md"} \cup {"a"})
    OBVIOUS
  <2>3. IsFiniteSet(artifacts)
    BY <2>1, <2>2, FS_Subset
  <2>4. n \in Nat
    BY <2>3, FS_CardinalityType
  <2>5. n = 0 <=> artifacts = {}
    BY <2>3, FS_EmptySet
  <2>6. QED
    BY <2>4, <2>5
<1> HIDE DEF n
<1>2. job.artifacts = artifacts /\ job.hasReport = FALSE /\ job.count = n
  OBVIOUS
<1>3. once = Compact(job)
  BY DEF n
<1> HIDE DEF job
<1>4. /\ once.count = n
      /\ report => once.artifacts = {"report.md"} /\ once.hasReport = TRUE
      /\ ~report => once.artifacts = {} /\ once.hasReport = FALSE
  <2>1. job.count \in Nat /\ job.hasReport \in BOOLEAN
    BY <1>1, <1>2
  <2>2. CASE report
    BY <1>1, <1>2, <1>3, <2>1, <2>2, CompactFacts
  <2>3. CASE ~report
    BY <1>1, <1>2, <1>3, <2>1, <2>3, CompactFacts
  <2>4. QED
    BY <2>2, <2>3
<1>5. once.hasReport \in BOOLEAN /\ once.count \in Nat
  BY <1>1, <1>4
<1>6. /\ twice.hasReport = report /\ twice.count = n /\ twice.artifacts = once.artifacts
  <2>1. CASE report
    BY <1>1, <1>4, <1>5, <2>1, CompactFacts
  <2>2. CASE ~report
    <3>1. once.artifacts = {} /\ once.hasReport = FALSE /\ once.count = n
      BY <1>4, <2>2
    <3>2. ~("report.md" \in once.artifacts \/ once.hasReport)
      BY <3>1
    <3>3. /\ Compact(once).artifacts = {} /\ Compact(once).hasReport = FALSE
          /\ Compact(once).count = once.count
      BY <1>5, <3>2, CompactFacts
    <3>4. twice.hasReport = FALSE /\ report = FALSE
      BY <2>2, <3>3
    <3>5. QED
      BY <3>1, <3>3, <3>4
  <2>3. QED
    BY <2>1, <2>2
<1>7. QED
  BY <1>6 DEF n

-----------------------------------------------------------------------------
(* Opening the database                                                      *)

\* The lock of the database is held by a process that writes, and columns are only added
\* by one that knows the versions to be there.
OpenPlaces == {"closed", "read", "writing", "migrated", "altered", "done", "failed"}
IsOpening(o) ==
  o = [at |-> o.at, applied |-> o.applied, times |-> o.times] /\ o.at \in OpenPlaces
SchemaShape ==
  /\ opens = [p \in Processes |-> opens[p]] /\ \A p \in Processes : IsOpening(opens[p])
  /\ schema = [versions |-> schema.versions, columns |-> schema.columns,
               indexes |-> schema.indexes, lock |-> schema.lock]
LockIsHeld == \A p \in Processes : schema.lock = p => opens[p].at = "writing"
MigratedIsThere ==
  \A p \in Processes : opens[p].at \in {"migrated", "altered", "done"} => schema.versions = Versions
SchemaInv == SchemaShape /\ LockIsHeld /\ MigratedIsThere /\ SchemaSound

LEMMA SchemaInitInv == StoreViewsInit => SchemaInv
BY DEF StoreViewsInit, SchemaInv, SchemaShape, IsOpening, OpenPlaces, LockIsHeld,
       MigratedIsThere, SchemaSound, Processes, Versions

\* What a step of a process p, of which o is known afterwards, has to leave of the schema s
Leaves(p, o, s) ==
  /\ o.at # "closed" => o.applied \subseteq s.versions
  /\ o.at \in {"migrated", "altered", "done"} => s.versions = Versions
  /\ o.at = "writing" <=> s.lock = p
  /\ s.lock # schema.lock => {s.lock, schema.lock} \subseteq {0, p}
  /\ s.versions \in {schema.versions, Versions}
LeavesTables(o, s) ==
  /\ o.at = "done" => s.indexes
  /\ schema.indexes => s.indexes
  /\ s.indexes => s.columns
  /\ s.columns => s.versions = Versions
LEMMA SchemaMove ==
  ASSUME SchemaInv, NEW p \in Processes, NEW o, IsOpening(o), opens' = [opens EXCEPT ![p] = o],
         NEW s, schema' = s,
         s = [versions |-> s.versions, columns |-> s.columns, indexes |-> s.indexes, lock |-> s.lock],
         Leaves(p, o, s), LeavesTables(o, s)
  PROVE  SchemaInv'
<1>1. /\ opens' = [q \in Processes |-> opens'[q]]
      /\ \A q \in Processes : opens'[q] = IF q = p THEN o ELSE opens[q]
  BY DEF SchemaInv, SchemaShape
<1>2. SchemaShape'
  <2>1. \A q \in Processes : IsOpening(opens'[q])
    BY <1>1 DEF SchemaInv, SchemaShape
  <2>2. QED
    BY <1>1, <2>1 DEF SchemaShape, IsOpening
<1>3. schema.versions \subseteq s.versions
  BY DEF SchemaInv, SchemaSound, Leaves
<1>4. 0 \notin Processes
  BY DEF Processes
<1>5. LockIsHeld'
  BY <1>1, <1>4 DEF SchemaInv, LockIsHeld, Leaves
<1>6. MigratedIsThere'
  BY <1>1 DEF SchemaInv, MigratedIsThere, Leaves
<1>7. \A q \in Processes : opens'[q].at = "writing" => schema'.lock = q
  BY <1>1, <1>4 DEF SchemaInv, SchemaSound, Leaves
<1>8. \A q \in Processes : opens'[q].at = "done" => schema'.indexes
  BY <1>1 DEF SchemaInv, SchemaSound, LeavesTables
<1>9. \A q \in Processes : opens'[q].at # "closed" => opens'[q].applied \subseteq schema'.versions
  BY <1>1, <1>3 DEF SchemaInv, SchemaSound, Leaves
<1>10. /\ schema'.versions \in {{}, Versions}
       /\ schema'.indexes => schema'.columns
       /\ schema'.columns => schema'.versions = Versions
  BY DEF SchemaInv, SchemaSound, Leaves, LeavesTables
<1>11. QED
  BY <1>2, <1>5, <1>6, <1>7, <1>8, <1>9, <1>10 DEF SchemaInv, SchemaSound

\* A process that gets somewhere is there with what it has read.
LEMMA ReachesFacts ==
  ASSUME SchemaShape, NEW p \in Processes, NEW at \in OpenPlaces, Reaches(p, at)
  PROVE  \E o : /\ opens' = [opens EXCEPT ![p] = o] /\ IsOpening(o)
                /\ o.at = at /\ o.applied = opens[p].applied
<1>1. opens[p] = [at |-> opens[p].at, applied |-> opens[p].applied, times |-> opens[p].times]
  BY DEF SchemaShape, IsOpening
<1>2. opens' = [opens EXCEPT ![p] = [opens[p] EXCEPT !.at = at]]
  BY DEF Reaches
<1>3. PICK o : o = [opens[p] EXCEPT !.at = at]
  OBVIOUS
<1>4. o = [at |-> at, applied |-> opens[p].applied, times |-> opens[p].times]
  BY <1>1, <1>3
<1>5. QED
  BY <1>2, <1>3, <1>4 DEF IsOpening

\* A step that leaves the schema alone
LEMMA ReachesOnly ==
  ASSUME SchemaInv, NEW p \in Processes, NEW at \in OpenPlaces \ {"writing"}, Reaches(p, at),
         UNCHANGED schema, schema.lock # p, opens[p].at # "closed",
         at \in {"migrated", "altered", "done"} => schema.versions = Versions, at # "done"
  PROVE  SchemaInv'
<1>1. PICK o : /\ opens' = [opens EXCEPT ![p] = o] /\ IsOpening(o)
               /\ o.at = at /\ o.applied = opens[p].applied
  BY ReachesFacts DEF SchemaInv
<1>2. o.applied \subseteq schema.versions
  BY <1>1 DEF SchemaInv, SchemaSound
<1>3. /\ schema.indexes => schema.columns
      /\ schema.columns => schema.versions = Versions
      /\ schema = [versions |-> schema.versions, columns |-> schema.columns,
                   indexes |-> schema.indexes, lock |-> schema.lock]
  BY DEF SchemaInv, SchemaSound, SchemaShape
<1>4. Leaves(p, o, schema) /\ LeavesTables(o, schema)
  <2>1. Leaves(p, o, schema)
    BY <1>1, <1>2 DEF Leaves, SchemaInv, LockIsHeld
  <2>2. LeavesTables(o, schema)
    BY <1>1, <1>3 DEF LeavesTables
  <2>3. QED
    BY <2>1, <2>2
<1>5. QED
  BY <1>1, <1>3, <1>4, SchemaMove

LEMMA SchemaStepInv ==
  ASSUME SchemaInv, [SchemaNext]_schemaVars
  PROVE  SchemaInv'
<1>1. CASE UNCHANGED schemaVars
  BY <1>1 DEF schemaVars, SchemaInv, SchemaShape, IsOpening, LockIsHeld, MigratedIsThere, SchemaSound
<1>2. /\ schema = [versions |-> schema.versions, columns |-> schema.columns,
                   indexes |-> schema.indexes, lock |-> schema.lock]
      /\ \A p \in Processes : /\ opens[p] = [at |-> opens[p].at, applied |-> opens[p].applied,
                                             times |-> opens[p].times]
                              /\ opens[p].at \in OpenPlaces
      /\ \A p \in Processes : schema.lock = p <=> opens[p].at = "writing"
      /\ \A p \in Processes : opens[p].at # "closed" => opens[p].applied \subseteq schema.versions
      /\ \A p \in Processes :
           opens[p].at \in {"migrated", "altered", "done"} => schema.versions = Versions
      /\ schema.versions \in {{}, Versions}
      /\ schema.indexes => schema.columns
      /\ schema.columns => schema.versions = Versions
  BY DEF SchemaInv, SchemaShape, IsOpening, LockIsHeld, MigratedIsThere, SchemaSound
<1>3. 0 \notin Processes
  BY DEF Processes
<1>4. ASSUME NEW p \in Processes, OpenDb(p)
      PROVE  SchemaInv'
  <2>1. PICK o : /\ opens' = [opens EXCEPT ![p] = o]
                 /\ o = [at |-> "read", applied |-> schema.versions, times |-> opens[p].times + 1]
    BY <1>4 DEF OpenDb
  <2>2. /\ IsOpening(o) /\ o.at = "read" /\ o.applied = schema.versions
        /\ schema' = schema /\ schema.lock # p
    BY <1>2, <1>4, <2>1 DEF IsOpening, OpenPlaces, OpenDb
  <2>3. Leaves(p, o, schema) /\ LeavesTables(o, schema)
    BY <1>2, <2>2 DEF Leaves, LeavesTables
  <2>4. QED
    BY <1>2, <2>1, <2>2, <2>3, SchemaMove
<1>5. ASSUME NEW p \in Processes, DatabaseBusy(p)
      PROVE  SchemaInv'
  BY <1>2, <1>5, ReachesOnly DEF DatabaseBusy, OpenPlaces
<1>6. ASSUME NEW p \in Processes, BeginMigration(p)
      PROVE  SchemaInv'
  <2>1. CASE opens[p].applied = Versions /\ Reaches(p, "migrated") /\ UNCHANGED schema
    BY <1>2, <1>6, <2>1, ReachesOnly DEF BeginMigration, OpenPlaces
  <2>2. CASE schema.lock = 0 /\ Reaches(p, "writing") /\ schema' = [schema EXCEPT !.lock = p]
    <3>1. PICK o : /\ opens' = [opens EXCEPT ![p] = o] /\ IsOpening(o)
                   /\ o.at = "writing" /\ o.applied = opens[p].applied
      BY <2>2, ReachesFacts DEF SchemaInv, OpenPlaces
    <3>2. PICK s : s = [versions |-> schema.versions, columns |-> schema.columns,
                        indexes |-> schema.indexes, lock |-> p] /\ schema' = s
      BY <1>2, <2>2
    <3>3. o.applied \subseteq s.versions
      BY <1>2, <1>6, <3>1, <3>2 DEF BeginMigration
    <3>4. Leaves(p, o, s)
      BY <1>2, <2>2, <3>1, <3>2, <3>3 DEF Leaves
    <3>5. LeavesTables(o, s)
      BY <1>2, <3>1, <3>2 DEF LeavesTables
    <3>6. QED
      BY <3>1, <3>2, <3>4, <3>5, SchemaMove
  <2>3. QED
    BY <1>6, <2>1, <2>2 DEF BeginMigration
<1>7. ASSUME NEW p \in Processes, CommitMigration(p)
      PROVE  SchemaInv'
  <2>1. opens[p].at = "writing" /\ schema.lock = p /\ p # 0
    BY <1>2, <1>3, <1>7 DEF CommitMigration
  <2>2. CASE Reaches(p, "migrated") /\ schema' = [schema EXCEPT !.lock = 0, !.versions = Versions]
    <3>1. PICK o : /\ opens' = [opens EXCEPT ![p] = o] /\ IsOpening(o)
                   /\ o.at = "migrated" /\ o.applied = opens[p].applied
      BY <2>2, ReachesFacts DEF SchemaInv, OpenPlaces
    <3>2. PICK s : s = [versions |-> Versions, columns |-> schema.columns,
                        indexes |-> schema.indexes, lock |-> 0] /\ schema' = s
      <4>1. schema = [versions |-> schema.versions, columns |-> schema.columns,
                      indexes |-> schema.indexes, lock |-> schema.lock]
        BY <1>2
      <4>2. PICK s : s = [schema EXCEPT !.lock = 0, !.versions = Versions] /\ schema' = s
        BY <2>2
      <4>3. s = [versions |-> Versions, columns |-> schema.columns,
                 indexes |-> schema.indexes, lock |-> 0]
        BY <4>1, <4>2
      <4>4. QED
        BY <4>2, <4>3
    <3>3. o.applied \subseteq s.versions
      BY <1>2, <2>1, <3>1, <3>2
    <3>4. Leaves(p, o, s)
      BY <1>2, <2>1, <3>1, <3>2, <3>3 DEF Leaves
    <3>5. LeavesTables(o, s)
      BY <1>2, <3>1, <3>2 DEF LeavesTables
    <3>6. QED
      BY <3>1, <3>2, <3>4, <3>5, SchemaMove
  <2>3. CASE Reaches(p, "failed") /\ schema' = [schema EXCEPT !.lock = 0]
    <3>1. PICK o : /\ opens' = [opens EXCEPT ![p] = o] /\ IsOpening(o)
                   /\ o.at = "failed" /\ o.applied = opens[p].applied
      BY <2>3, ReachesFacts DEF SchemaInv, OpenPlaces
    <3>2. PICK s : s = [versions |-> schema.versions, columns |-> schema.columns,
                        indexes |-> schema.indexes, lock |-> 0] /\ schema' = s
      BY <1>2, <2>3
    <3>3. o.applied \subseteq s.versions
      BY <1>2, <2>1, <3>1, <3>2
    <3>4. Leaves(p, o, s)
      BY <1>2, <2>1, <3>1, <3>2, <3>3 DEF Leaves
    <3>5. LeavesTables(o, s)
      BY <1>2, <3>1, <3>2 DEF LeavesTables
    <3>6. QED
      BY <3>1, <3>2, <3>4, <3>5, SchemaMove
  <2>4. QED
    BY <1>7, <2>2, <2>3 DEF CommitMigration
<1>8. ASSUME NEW p \in Processes, AddColumns(p)
      PROVE  SchemaInv'
  <2>1. /\ opens[p].at = "migrated" /\ schema.lock = 0 /\ p # 0 /\ Reaches(p, "altered")
        /\ schema' = [schema EXCEPT !.columns = TRUE]
    BY <1>3, <1>8 DEF AddColumns
  <2>2. PICK o : /\ opens' = [opens EXCEPT ![p] = o] /\ IsOpening(o)
                 /\ o.at = "altered" /\ o.applied = opens[p].applied
    BY <2>1, ReachesFacts DEF SchemaInv, OpenPlaces
  <2>3. PICK s : s = [versions |-> schema.versions, columns |-> TRUE,
                      indexes |-> schema.indexes, lock |-> 0] /\ schema' = s
    BY <1>2, <2>1
  <2>4. o.applied \subseteq s.versions /\ s.versions = Versions
    BY <1>2, <2>1, <2>2, <2>3
  <2>5. Leaves(p, o, s)
    BY <1>2, <2>1, <2>2, <2>3, <2>4 DEF Leaves
  <2>6. LeavesTables(o, s)
    BY <1>2, <2>2, <2>3, <2>4 DEF LeavesTables
  <2>7. QED
    BY <2>2, <2>3, <2>5, <2>6, SchemaMove
<1>9. ASSUME NEW p \in Processes, AddIndexes(p)
      PROVE  SchemaInv'
  <2>1. opens[p].at = "altered" /\ schema.lock = 0 /\ p # 0
    BY <1>3, <1>9 DEF AddIndexes
  <2>2. CASE schema.columns /\ Reaches(p, "done") /\ schema' = [schema EXCEPT !.indexes = TRUE]
    <3>1. PICK o : /\ opens' = [opens EXCEPT ![p] = o] /\ IsOpening(o)
                   /\ o.at = "done" /\ o.applied = opens[p].applied
      BY <2>2, ReachesFacts DEF SchemaInv, OpenPlaces
    <3>2. PICK s : s = [versions |-> schema.versions, columns |-> schema.columns,
                        indexes |-> TRUE, lock |-> 0] /\ schema' = s
      BY <1>2, <2>1, <2>2
    <3>3. o.applied \subseteq s.versions
      BY <1>2, <2>1, <3>1, <3>2
    <3>4. Leaves(p, o, s)
      BY <1>2, <2>1, <3>1, <3>2, <3>3 DEF Leaves
    <3>5. LeavesTables(o, s)
      BY <1>2, <2>2, <3>1, <3>2 DEF LeavesTables
    <3>6. QED
      BY <3>1, <3>2, <3>4, <3>5, SchemaMove
  <2>3. CASE Reaches(p, "failed") /\ UNCHANGED schema
    BY <1>2, <2>1, <2>3, ReachesOnly DEF OpenPlaces
  <2>4. QED
    BY <1>9, <2>2, <2>3 DEF AddIndexes
<1>10. ASSUME NEW p \in Processes, RestartProcess(p)
       PROVE  SchemaInv'
  <2>1. PICK o : /\ opens' = [opens EXCEPT ![p] = o] /\ IsOpening(o)
                 /\ o.at = "closed" /\ o.applied = opens[p].applied
    BY <1>10, ReachesFacts DEF SchemaInv, OpenPlaces, RestartProcess
  <2>2. PICK s : /\ s = [versions |-> schema.versions, columns |-> schema.columns,
                         indexes |-> schema.indexes,
                         lock |-> IF schema.lock = p THEN 0 ELSE schema.lock]
                 /\ schema' = s
    BY <1>2, <1>10 DEF RestartProcess
  <2>3. p # 0
    BY <1>3
  <2>4. Leaves(p, o, s)
    BY <1>2, <2>1, <2>2, <2>3 DEF Leaves
  <2>5. LeavesTables(o, s)
    BY <1>2, <2>1, <2>2 DEF LeavesTables
  <2>6. QED
    BY <2>1, <2>2, <2>4, <2>5, SchemaMove
<1>11. QED
  BY <1>1, <1>4, <1>5, <1>6, <1>7, <1>8, <1>9, <1>10 DEF SchemaNext

-----------------------------------------------------------------------------
(* Dashboards.  What is shown of the jobs of one kind are the first of them  *)
(* in their order: the parts of a dashboard are counted from its beginning.  *)

\* s has the elements of S, each once.
SeqOver(s, S) ==
  /\ s \in Seq(S) /\ IsFiniteSet(S) /\ Len(s) = Cardinality(S) /\ Cardinality(S) \in Nat
  /\ \A x \in S : \E i \in 1..Len(s) : s[i] = x
  /\ \A i, j \in 1..Len(s) : s[i] = s[j] => i = j

LEMMA SortedLists ==
  ASSUME NEW S, IsFiniteSet(S), NEW R, IsStrictOrder(R, S)
  PROVE  SeqOver(Sorted(R, S), S)
<1> DEFINE s == Sorted(R, S)
           place(x) == Cardinality(Below(R, S, x))
           N == Cardinality(S)
<1>1. /\ s \in Seq(S) /\ Len(s) = N /\ N \in Nat
      /\ \A i \in 1..N : s[i] \in S /\ place(s[i]) = i - 1
      /\ \A x \in S : place(x) \in 0..(N - 1) /\ s[place(x) + 1] = x
  BY SortedFacts
<1> HIDE DEF s, place, N
<1>2. \A x \in S : \E i \in 1..N : s[i] = x
  <2> SUFFICES ASSUME NEW x \in S
               PROVE  \E i \in 1..N : s[i] = x
    OBVIOUS
  <2>1. place(x) + 1 \in 1..N /\ s[place(x) + 1] = x
    BY <1>1
  <2>2. QED
    BY <2>1
<1>3. \A i, j \in 1..N : s[i] = s[j] => i = j
  <2> SUFFICES ASSUME NEW i \in 1..N, NEW j \in 1..N, s[i] = s[j]
               PROVE  i = j
    OBVIOUS
  <2>1. i - 1 = j - 1
    BY <1>1
  <2>2. QED
    BY <1>1, <2>1
<1>4. QED
  BY <1>1, <1>2, <1>3 DEF SeqOver, s, N

Later == {p \in InTable \X InTable : \/ rows[p[1]].updated > rows[p[2]].updated
                                     \/ /\ rows[p[1]].updated = rows[p[2]].updated
                                        /\ p[1] > p[2]}

LEMMA UpdateOrder ==
  ASSUME RowsOK, NEW S \in SUBSET InTable
  PROVE  IsStrictOrder(Later, S) /\ UpdatedDesc(S) = Sorted(Later, S)
<1>1. \A x, y \in InTable :
        <<x, y>> \in Later <=> \/ rows[x].updated > rows[y].updated
                               \/ rows[x].updated = rows[y].updated /\ x > y
  BY DEF Later
<1>2. IsStrictOrder(Later, S)
  <2>1. \A x \in S : <<x, x>> \notin Later
    BY <1>1, TableFacts
  <2>2. \A x, y, z \in S : <<x, y>> \in Later /\ <<y, z>> \in Later => <<x, z>> \in Later
    BY <1>1, TableFacts
  <2>3. \A x, y \in S : x # y => <<x, y>> \in Later \/ <<y, x>> \in Later
    BY <1>1, TableFacts
  <2>4. QED
    BY <2>1, <2>2, <2>3 DEF IsStrictOrder
<1>3. \A x \in S : Below(Later, S, x) =
                   {y \in S : \/ rows[y].updated > rows[x].updated
                              \/ (rows[y].updated = rows[x].updated /\ y > x)}
  BY <1>1 DEF Below
<1>4. UpdatedDesc(S) = Sorted(Later, S)
  <2> DEFINE later(x) == {y \in S : \/ rows[y].updated > rows[x].updated
                                    \/ (rows[y].updated = rows[x].updated /\ y > x)}
  <2>1. UpdatedDesc(S) = [i \in 1..Cardinality(S) |->
                            CHOOSE x \in S : Cardinality(later(x)) = i - 1]
    BY DEF UpdatedDesc, SortedBy
  <2>2. \A x \in S : later(x) = Below(Later, S, x)
    BY <1>3
  <2> HIDE DEF later
  <2>3. \A i \in 1..Cardinality(S) :
          (CHOOSE x \in S : Cardinality(later(x)) = i - 1)
            = (CHOOSE x \in S : Cardinality(Below(Later, S, x)) = i - 1)
    BY <2>2
  <2>4. QED
    BY <2>1, <2>3 DEF Sorted
<1>5. QED
  BY <1>2, <1>4

LEMMA OrdersList ==
  ASSUME RowsOK, NEW S \in SUBSET InTable
  PROVE  SeqOver(UpdatedDesc(S), S) /\ SeqOver(CreatedAsc(S), S)
BY TableFacts, UpdateOrder, CreationOrder, SortedLists

\* How many of l elements are among the first n
Cut(n, l) == IF n < 0 THEN 0 ELSE IF n <= l THEN n ELSE l
Firsts(s, m) == {s[k] : k \in 1..m}

LEMMA FirstOfFacts ==
  ASSUME NEW S, NEW s \in Seq(S), NEW n \in Int
  PROVE  /\ FirstOf(s, n) \in Seq(S) /\ Len(FirstOf(s, n)) = Cut(n, Len(s))
         /\ Cut(n, Len(s)) \in Nat
         /\ \A k \in 1..Cut(n, Len(s)) : FirstOf(s, n)[k] = s[k]
         /\ ToSet(FirstOf(s, n)) = Firsts(s, Cut(n, Len(s)))
<1> DEFINE m == Cut(n, Len(s))
<1>1. Len(s) \in Nat /\ m \in Nat /\ m <= Len(s)
  BY DEF Cut
<1>2. PICK p \in Nat : p = Max({n, 0}) /\ p = IF n < 0 THEN 0 ELSE n
  BY MaxFacts
<1>3. Min({Len(s), p}) = m
  <2>1. PICK l \in Nat : l = Len(s)
    BY <1>1
  <2>2. Min({l, p}) = IF l <= p THEN l ELSE p
    BY MinFacts
  <2>3. QED
    BY <1>2, <2>1, <2>2 DEF Cut
<1>4. FirstOf(s, n) = SubSeq(s, 1, m)
  BY <1>2, <1>3 DEF FirstOf
<1> HIDE DEF m
<1>5. SubSeq(s, 1, m) = SubSeq(s, 0 + 1, m) /\ m - 0 = m /\ \A k \in 1..m : 0 + k = k
  BY <1>1
<1>6. /\ Len(FirstOf(s, n)) = m /\ DOMAIN FirstOf(s, n) = 1..m
      /\ \A k \in 1..m : FirstOf(s, n)[k] = s[k]
  BY <1>1, <1>4, <1>5, SubSeqPlaces
<1>7. FirstOf(s, n) \in Seq(S)
  BY <1>1, <1>4, SubSeqElements
<1>8. ToSet(FirstOf(s, n)) = Firsts(s, m)
  BY <1>6 DEF ToSet, Firsts
<1>9. QED
  BY <1>1, <1>6, <1>7, <1>8 DEF m

\* X is the first m elements of a list.
Begins(s, m, X) == m \in 0..Len(s) /\ X = Firsts(s, m)

LEMMA ShownFirst ==
  ASSUME NEW S, NEW s, SeqOver(s, S), NEW m, NEW X, Begins(s, m, X)
  PROVE  Cardinality(X) = m /\ X = ToSet(FirstOf(s, Cardinality(X)))
<1> DEFINE f == [k \in 1..m |-> s[k]]
<1>1. s \in Seq(S) /\ Len(s) \in Nat /\ \A i, j \in 1..Len(s) : s[i] = s[j] => i = j
  BY DEF SeqOver
<1>2. m \in Nat /\ m <= Len(s) /\ 1..m \subseteq 1..Len(s) /\ X = Firsts(s, m)
  BY <1>1 DEF Begins
<1>3. IsFiniteSet(1..m) /\ Cardinality(1..m) = m
  BY <1>2, FS_Interval
<1>4. f \in Surjection(1..m, X) /\ f \in Injection(1..m, X)
  BY <1>1, <1>2 DEF Surjection, Injection, IsInjective, Firsts
<1> HIDE DEF f
<1>5. Cardinality(X) = m
  BY <1>3, <1>4, FS_Surjection
<1>6. ToSet(FirstOf(s, m)) = Firsts(s, m)
  <2>1. Cut(m, Len(s)) = m
    BY <1>1, <1>2 DEF Cut
  <2>2. QED
    BY <1>1, <1>2, <2>1, FirstOfFacts
<1>7. QED
  BY <1>2, <1>5, <1>6

\* w has the first m elements of s; the n of t come after m others; w goes on with s after b.
Takes(w, s, m) == \A k \in 1..m : w[k] = s[k]
Follows(w, t, m, n) == \A k \in 1..n : w[m + k] = t[k]
Continues(w, s, b, n) == \A k \in 1..n : w[k] = s[b + k]

\* w starts with the first a running, b queued and c ended jobs; z more queued ones follow.
Parted(w, rs, qs, es, a, b, c, z) ==
  /\ Len(w) = a + b + c + z
  /\ \A k \in 1..a : w[k] = rs[k]
  /\ \A k \in 1..b : w[a + k] = qs[k]
  /\ \A k \in 1..c : w[a + b + k] = es[k]
  /\ \A k \in 1..z : w[a + b + c + k] = qs[b + k]

\* An element of such a sequence, by the part it is in
LEMMA PartedPlace ==
  ASSUME NEW a \in Nat, NEW b \in Nat, NEW c \in Nat, NEW z \in Nat,
         NEW i \in 1..(a + b + c + z)
  PROVE  \/ i \in 1..a
         \/ \E k \in 1..b : i = a + k
         \/ \E k \in 1..c : i = a + b + k
         \/ \E k \in 1..z : i = a + b + c + k
<1>1. CASE i <= a
  BY <1>1
<1>2. CASE a < i /\ i <= a + b
  <2>1. i - a \in 1..b /\ i = a + (i - a)
    BY <1>2
  <2>2. QED
    BY <2>1
<1>3. CASE a + b < i /\ i <= a + b + c
  <2>1. i - a - b \in 1..c /\ i = a + b + (i - a - b)
    BY <1>3
  <2>2. QED
    BY <2>1
<1>4. CASE a + b + c < i
  <2>1. i - a - b - c \in 1..z /\ i = a + b + c + (i - a - b - c)
    BY <1>4
  <2>2. QED
    BY <2>1
<1>5. QED
  BY <1>1, <1>2, <1>3, <1>4

\* w is so made of lists of R, Q and E, and begins with all that R has or that fits.
Dashed(R, Q, E, rs, qs, es, a, b, c, z, w, L) ==
  /\ SeqOver(rs, R) /\ SeqOver(qs, Q) /\ SeqOver(es, E)
  /\ R \cap Q = {} /\ R \cap E = {} /\ Q \cap E = {}
  /\ a \in Nat /\ b \in Nat /\ c \in Nat /\ z \in Nat /\ L \in Nat
  /\ a = Cut(L, Len(rs)) /\ b + z <= Len(qs) /\ c <= Len(es)
  /\ w \in Seq(R \cup Q \cup E) /\ Parted(w, rs, qs, es, a, b, c, z)

\* How many of Q and of E are among the first L
QueuedShown(a, b, c, z, L) ==
  IF L <= a + b THEN L - a
  ELSE IF L <= a + b + c THEN b
  ELSE IF L <= a + b + c + z THEN L - a - c ELSE b + z
EndedShown(a, b, c, L) == IF L <= a + b THEN 0 ELSE IF L <= a + b + c THEN L - a - b ELSE c

LEMMA PartedShows ==
  ASSUME NEW R, NEW Q, NEW E, NEW rs, NEW qs, NEW es, NEW a, NEW b, NEW c, NEW z, NEW w, NEW L,
         Dashed(R, Q, E, rs, qs, es, a, b, c, z, w, L),
         NEW mq, mq = QueuedShown(a, b, c, z, L), NEW me, me = EndedShown(a, b, c, L)
  PROVE  /\ IsInjective(FirstOf(w, L)) /\ Len(FirstOf(w, L)) = Cut(L, a + b + c + z)
         /\ R \cap ToSet(FirstOf(w, L)) = Firsts(rs, a)
         /\ mq \in 0..Len(qs) /\ Q \cap ToSet(FirstOf(w, L)) = Firsts(qs, mq)
         /\ me \in 0..Len(es) /\ E \cap ToSet(FirstOf(w, L)) = Firsts(es, me)
<1> DEFINE d == FirstOf(w, L)
           n == Cut(L, a + b + c + z)
<1>1. /\ a \in Nat /\ b \in Nat /\ c \in Nat /\ z \in Nat /\ L \in Nat
      /\ n \in Nat /\ Len(rs) \in Nat /\ Len(qs) \in Nat /\ Len(es) \in Nat
      /\ a <= L /\ a <= Len(rs) /\ b + z <= Len(qs) /\ c <= Len(es)
      /\ n = IF L <= a + b + c + z THEN L ELSE a + b + c + z
  <2>0. a \in Nat /\ b \in Nat /\ c \in Nat /\ z \in Nat /\ L \in Nat
    BY DEF Dashed
  <2>1. PICK lr \in Nat : lr = Len(rs) /\ a = Cut(L, lr)
    BY DEF SeqOver, Dashed
  <2>2. a <= lr /\ a <= L /\ n \in Nat /\ n = IF L <= a + b + c + z THEN L ELSE a + b + c + z
    BY <2>0, <2>1 DEF Cut
  <2>3. Len(qs) \in Nat /\ Len(es) \in Nat /\ b + z <= Len(qs) /\ c <= Len(es)
    BY DEF SeqOver, Dashed
  <2>4. QED
    BY <2>0, <2>1, <2>2, <2>3
<1>2. /\ w \in Seq(R \cup Q \cup E) /\ Len(w) = a + b + c + z
      /\ \A k \in 1..a : w[k] = rs[k]
      /\ \A k \in 1..b : w[a + k] = qs[k]
      /\ \A k \in 1..c : w[a + b + k] = es[k]
      /\ \A k \in 1..z : w[a + b + c + k] = qs[b + k]
  BY DEF Dashed, Parted
<1>3. /\ R \cap Q = {} /\ R \cap E = {} /\ Q \cap E = {}
      /\ \A k \in 1..Len(rs) : rs[k] \in R
      /\ \A k \in 1..Len(qs) : qs[k] \in Q
      /\ \A k \in 1..Len(es) : es[k] \in E
  <2>1. rs \in Seq(R) /\ qs \in Seq(Q) /\ es \in Seq(E)
    BY DEF SeqOver, Dashed
  <2>2. QED
    BY <2>1 DEF Dashed
<1>4. d \in Seq(R \cup Q \cup E) /\ Len(d) = n /\ ToSet(d) = Firsts(w, n)
      /\ \A k \in 1..n : d[k] = w[k]
  <2>1. n = Cut(L, Len(w)) /\ L \in Int
    BY <1>1, <1>2
  <2>2. w \in Seq(R \cup Q \cup E)
    BY <1>2
  <2> HIDE DEF n
  <2>3. QED
    BY <2>1, <2>2, FirstOfFacts
<1>5. /\ mq = IF L <= a + b THEN L - a
              ELSE IF L <= a + b + c THEN b
              ELSE IF L <= a + b + c + z THEN L - a - c ELSE b + z
      /\ me = IF L <= a + b THEN 0 ELSE IF L <= a + b + c THEN L - a - b ELSE c
  BY DEF QueuedShown, EndedShown
<1>6. /\ \A k \in 1..a : w[k] \in R
      /\ \A k \in 1..b : w[a + k] \in Q
      /\ \A k \in 1..c : w[a + b + k] \in E
      /\ \A k \in 1..z : w[a + b + c + k] \in Q
  <2>1. /\ 1..a \subseteq 1..Len(rs) /\ 1..b \subseteq 1..Len(qs) /\ 1..c \subseteq 1..Len(es)
        /\ \A k \in 1..z : b + k \in 1..Len(qs)
    BY <1>1
  <2>2. \A k \in 1..a : w[k] \in R
    BY <1>2, <1>3, <2>1
  <2>3. \A k \in 1..b : w[a + k] \in Q
    BY <1>2, <1>3, <2>1
  <2>4. \A k \in 1..c : w[a + b + k] \in E
    BY <1>2, <1>3, <2>1
  <2>5. \A k \in 1..z : w[a + b + c + k] \in Q
    BY <1>2, <1>3, <2>1
  <2>6. QED
    BY <2>2, <2>3, <2>4, <2>5
<1>7. \A i \in 1..(a + b + c + z) :
        \/ i \in 1..a
        \/ \E k \in 1..b : i = a + k
        \/ \E k \in 1..c : i = a + b + k
        \/ \E k \in 1..z : i = a + b + c + k
  BY <1>1, PartedPlace
<1> HIDE DEF d, n
<1>8. \A i, j \in 1..(a + b + c + z) : w[i] = w[j] => i = j
  <2> SUFFICES ASSUME NEW i \in 1..(a + b + c + z), NEW j \in 1..(a + b + c + z), w[i] = w[j]
               PROVE  i = j
    OBVIOUS
  <2>1. /\ \A k, l \in 1..Len(rs) : rs[k] = rs[l] => k = l
        /\ \A k, l \in 1..Len(qs) : qs[k] = qs[l] => k = l
        /\ \A k, l \in 1..Len(es) : es[k] = es[l] => k = l
    BY DEF SeqOver, Dashed
  <2>2. CASE i \in 1..a
    <3>1. j \in 1..a
      BY <1>6, <1>7, <1>3, <2>2
    <3>2. QED
      BY <1>1, <1>2, <2>1, <2>2, <3>1, SMTT(30)
  <2>3. CASE \E k \in 1..c : i = a + b + k
    <3>1. PICK k \in 1..c : i = a + b + k
      BY <2>3
    <3>2. PICK l \in 1..c : j = a + b + l
      BY <1>6, <1>7, <1>3, <3>1
    <3>3. es[k] = es[l] /\ k \in 1..Len(es) /\ l \in 1..Len(es)
      <4>1. k \in 1..Len(es) /\ l \in 1..Len(es)
        BY <1>1
      <4>2. es[k] = es[l]
        BY <1>2, <3>1, <3>2
      <4>3. QED
        BY <4>1, <4>2
    <3>4. QED
      BY <2>1, <3>1, <3>2, <3>3
  <2>4. CASE (\E k \in 1..b : i = a + k) \/ (\E k \in 1..z : i = a + b + c + k)
    <3>1. (\E k \in 1..b : j = a + k) \/ (\E k \in 1..z : j = a + b + c + k)
      BY <1>6, <1>7, <1>3, <2>4
    <3>2. PICK k \in 1..(b + z) : w[i] = qs[k] /\ i = IF k <= b THEN a + k ELSE a + c + k
      <4>1. CASE \E k \in 1..b : i = a + k
        <5>1. PICK k \in 1..b : i = a + k
          BY <4>1
        <5>2. k \in 1..(b + z) /\ k <= b
          BY <1>1, <5>1
        <5>3. w[i] = qs[k]
          BY <1>2, <5>1
        <5>4. QED
          BY <5>1, <5>2, <5>3
      <4>2. CASE \E k \in 1..z : i = a + b + c + k
        <5>1. PICK k \in 1..z : i = a + b + c + k
          BY <4>2
        <5>2. b + k \in 1..(b + z) /\ i = a + c + (b + k) /\ ~(b + k <= b)
          BY <1>1, <5>1
        <5>3. w[i] = qs[b + k]
          BY <1>2, <5>1
        <5>4. QED
          BY <5>2, <5>3
      <4>3. QED
        BY <2>4, <4>1, <4>2
    <3>3. PICK l \in 1..(b + z) : w[j] = qs[l] /\ j = IF l <= b THEN a + l ELSE a + c + l
      <4>1. CASE \E l \in 1..b : j = a + l
        <5>1. PICK l \in 1..b : j = a + l
          BY <4>1
        <5>2. l \in 1..(b + z) /\ l <= b
          BY <1>1, <5>1
        <5>3. w[j] = qs[l]
          BY <1>2, <5>1
        <5>4. QED
          BY <5>1, <5>2, <5>3
      <4>2. CASE \E l \in 1..z : j = a + b + c + l
        <5>1. PICK l \in 1..z : j = a + b + c + l
          BY <4>2
        <5>2. b + l \in 1..(b + z) /\ j = a + c + (b + l) /\ ~(b + l <= b)
          BY <1>1, <5>1
        <5>3. w[j] = qs[b + l]
          BY <1>2, <5>1
        <5>4. QED
          BY <5>2, <5>3
      <4>3. QED
        BY <3>1, <4>1, <4>2
    <3>4. k \in 1..Len(qs) /\ l \in 1..Len(qs)
      BY <1>1
    <3>5. k = l
      BY <2>1, <3>2, <3>3, <3>4
    <3>6. QED
      BY <3>2, <3>3, <3>5
  <2>5. QED
    BY <1>7, <2>2, <2>3, <2>4
<1>9. IsInjective(d)
  <2>1. DOMAIN d = 1..n
    BY <1>4
  <2>2. \A i \in 1..n : i \in 1..(a + b + c + z)
    BY <1>1
  <2>3. QED
    BY <1>4, <1>8, <2>1, <2>2 DEF IsInjective
<1>10. R \cap ToSet(d) = Firsts(rs, a)
  <2>1. ASSUME NEW x \in R \cap ToSet(d)
        PROVE  x \in Firsts(rs, a)
    <3>1. PICK i \in 1..n : x = w[i]
      BY <1>4 DEF Firsts
    <3>2. i \in 1..(a + b + c + z)
      BY <1>1, <1>5
    <3>3. i \in 1..a
      BY <1>6, <1>7, <1>3, <3>1, <3>2
    <3>4. QED
      BY <1>2, <3>1, <3>3 DEF Firsts
  <2>2. ASSUME NEW k \in 1..a
        PROVE  rs[k] \in R \cap ToSet(d)
    <3>1. k \in 1..n /\ k \in 1..Len(rs)
      BY <1>1, <1>5
    <3>2. QED
      BY <1>3, <1>1, <1>2, <1>4, <3>1 DEF Firsts
  <2>3. QED
    BY <2>1, <2>2 DEF Firsts
<1>11. me \in 0..Len(es) /\ E \cap ToSet(d) = Firsts(es, me)
  <2>1. ASSUME NEW x \in E \cap ToSet(d)
        PROVE  x \in Firsts(es, me)
    <3>1. PICK i \in 1..n : x = w[i]
      BY <1>4 DEF Firsts
    <3>2. i \in 1..(a + b + c + z)
      BY <1>1, <1>5
    <3>3. PICK k \in 1..c : i = a + b + k
      BY <1>6, <1>7, <1>3, <3>1, <3>2
    <3>4. k \in Nat /\ 1 <= k /\ k <= c /\ a + b + k <= n
      BY <1>1, <1>5, <3>3
    <3>5. k <= me
      BY <1>1, <1>5, <3>4
    <3>6. k \in 1..me /\ k \in 1..c
      BY <3>4, <3>5
    <3>7. x = es[k]
      BY <1>2, <3>1, <3>3 DEF Firsts
    <3>8. QED
      BY <3>6, <3>7 DEF Firsts
  <2>2. ASSUME NEW k \in 1..me
        PROVE  es[k] \in E \cap ToSet(d)
    <3>1. k \in 1..c /\ a + b + k \in 1..n /\ k \in 1..Len(es)
      BY <1>1, <1>5
    <3>2. QED
      BY <1>3, <1>1, <1>2, <1>4, <3>1 DEF Firsts
  <2>3. me \in 0..Len(es)
    BY <1>1, <1>5
  <2>4. E \cap ToSet(d) = Firsts(es, me)
    BY <2>1, <2>2 DEF Firsts
  <2>5. QED
    BY <2>3, <2>4
<1>12. mq \in 0..Len(qs) /\ Q \cap ToSet(d) = Firsts(qs, mq)
  <2>1. ASSUME NEW x \in Q \cap ToSet(d)
        PROVE  x \in Firsts(qs, mq)
    <3>1. PICK i \in 1..n : x = w[i]
      BY <1>4 DEF Firsts
    <3>2. i \in 1..(a + b + c + z)
      BY <1>1, <1>5
    <3>3. (\E k \in 1..b : i = a + k) \/ (\E k \in 1..z : i = a + b + c + k)
      BY <1>6, <1>7, <1>3, <3>1, <3>2
    <3>4. CASE \E k \in 1..b : i = a + k
      <4>1. PICK k \in 1..b : i = a + k
        BY <3>4
      <4>2. k \in 1..mq
        BY <1>1, <1>5, <4>1
      <4>3. QED
        BY <1>2, <3>1, <4>1, <4>2 DEF Firsts
    <3>5. CASE \E k \in 1..z : i = a + b + c + k
      <4>1. PICK k \in 1..z : i = a + b + c + k
        BY <3>5
      <4>2. b + k \in 1..mq
        BY <1>1, <1>5, <4>1
      <4>3. QED
        BY <1>2, <3>1, <4>1, <4>2 DEF Firsts
    <3>6. QED
      BY <3>3, <3>4, <3>5
  <2>2. ASSUME NEW k \in 1..mq
        PROVE  qs[k] \in Q \cap ToSet(d)
    <3>1. k \in 1..Len(qs)
      BY <1>1, <1>5
    <3>2. CASE k <= b
      <4>1. k \in 1..b /\ a + k \in 1..n
        BY <1>1, <1>5, <3>2
      <4>2. QED
        BY <1>3, <1>1, <1>2, <1>4, <3>1, <4>1 DEF Firsts
    <3>3. CASE k > b
      <4>1. k - b \in 1..z /\ a + b + c + (k - b) \in 1..n /\ b + (k - b) = k
        BY <1>1, <1>5, <3>3
      <4>2. w[a + b + c + (k - b)] = qs[k]
        BY <1>2, <4>1
      <4>3. QED
        BY <1>3, <1>1, <1>4, <3>1, <4>1, <4>2 DEF Firsts
    <3>4. QED
      BY <1>1, <3>2, <3>3
  <2>3. mq \in 0..Len(qs)
    BY <1>1, <1>5
  <2>4. Q \cap ToSet(d) = Firsts(qs, mq)
    BY <2>1, <2>2 DEF Firsts
  <2>5. QED
    BY <2>3, <2>4
<1>13. QED
  BY <1>4, <1>9, <1>10, <1>11, <1>12 DEF d, n

\* A sequence of m elements of S
Piece(s, S, m) == s \in Seq(S) /\ m \in Nat /\ Len(s) = m

Chained(s, t) == s \o t

LEMMA ConcatPieces ==
  ASSUME NEW S, NEW s, NEW t, NEW m, NEW n, Piece(s, S, m), Piece(t, S, n)
  PROVE  /\ Piece(Chained(s, t), S, m + n)
         /\ Takes(Chained(s, t), s, m) /\ Follows(Chained(s, t), t, m, n)
<1>1. s \in Seq(S) /\ t \in Seq(S) /\ m \in Nat /\ n \in Nat /\ Len(s) = m /\ Len(t) = n
  BY DEF Piece
<1>2. s \o t \in Seq(S)
  BY <1>1
<1>3. Len(s \o t) = m + n
  BY <1>1
<1>4. \A k \in 1..m : (s \o t)[k] = s[k]
  BY <1>1
<1>5. \A k \in 1..n : (s \o t)[m + k] = t[k]
  BY <1>1
<1>6. QED
  BY <1>1, <1>2, <1>3, <1>4, <1>5 DEF Piece, Chained, Takes, Follows

LEMMA ConcatParted ==
  ASSUME NEW S, NEW rs, NEW qs, NEW es, NEW a, NEW b, NEW c, NEW z,
         NEW w1, NEW w2, NEW w3, NEW w4,
         Piece(w1, S, a), Piece(w2, S, b), Piece(w3, S, c), Piece(w4, S, z),
         Takes(w1, rs, a), Takes(w2, qs, b), Takes(w3, es, c), Continues(w4, qs, b, z)
  PROVE  /\ w1 \o w2 \o w3 \o w4 \in Seq(S)
         /\ Parted(w1 \o w2 \o w3 \o w4, rs, qs, es, a, b, c, z)
<1> DEFINE u == Chained(w1, w2)
           v == Chained(u, w3)
           w == Chained(v, w4)
<1>1. a \in Nat /\ b \in Nat /\ c \in Nat /\ z \in Nat
  BY DEF Piece
<1>2. Piece(u, S, a + b) /\ Takes(u, w1, a) /\ Follows(u, w2, a, b)
  BY ConcatPieces
<1> HIDE DEF u
<1>3. Piece(v, S, a + b + c) /\ Takes(v, u, a + b) /\ Follows(v, w3, a + b, c)
  BY <1>2, ConcatPieces
<1> HIDE DEF v
<1>4. Piece(w, S, a + b + c + z) /\ Takes(w, v, a + b + c) /\ Follows(w, w4, a + b + c, z)
  BY <1>3, ConcatPieces
<1> HIDE DEF w
<1>5. \A k \in 1..a : w[k] = rs[k]
  <2> SUFFICES ASSUME NEW k \in 1..a PROVE w[k] = rs[k]
    OBVIOUS
  <2>1. k \in 1..(a + b) /\ k \in 1..(a + b + c)
    BY <1>1
  <2>2. w[k] = v[k] /\ v[k] = u[k] /\ u[k] = w1[k] /\ w1[k] = rs[k]
    BY <1>2, <1>3, <1>4, <2>1 DEF Takes
  <2>3. QED
    BY <2>2
<1>6. \A k \in 1..b : w[a + k] = qs[k]
  <2> SUFFICES ASSUME NEW k \in 1..b PROVE w[a + k] = qs[k]
    OBVIOUS
  <2>1. a + k \in 1..(a + b) /\ a + k \in 1..(a + b + c)
    BY <1>1
  <2>2. w[a + k] = v[a + k] /\ v[a + k] = u[a + k]
    BY <1>3, <1>4, <2>1 DEF Takes
  <2>3. u[a + k] = w2[k] /\ w2[k] = qs[k]
    BY <1>2 DEF Takes, Follows
  <2>4. QED
    BY <2>2, <2>3
<1>7. \A k \in 1..c : w[a + b + k] = es[k]
  <2> SUFFICES ASSUME NEW k \in 1..c PROVE w[a + b + k] = es[k]
    OBVIOUS
  <2>1. a + b + k \in 1..(a + b + c)
    BY <1>1
  <2>2. w[a + b + k] = v[a + b + k]
    BY <1>4, <2>1 DEF Takes
  <2>3. v[a + b + k] = w3[k] /\ w3[k] = es[k]
    BY <1>3 DEF Takes, Follows
  <2>4. QED
    BY <2>2, <2>3
<1>8. \A k \in 1..z : w[a + b + c + k] = qs[b + k]
  BY <1>4 DEF Follows, Continues
<1>9. Parted(w, rs, qs, es, a, b, c, z) /\ w \in Seq(S)
  BY <1>4, <1>5, <1>6, <1>7, <1>8 DEF Parted, Piece
<1>10. QED
  BY <1>9 DEF w, v, u, Chained

LEMMA FirstPiece ==
  ASSUME NEW S, NEW s \in Seq(S), NEW n \in Int
  PROVE  Piece(FirstOf(s, n), S, Cut(n, Len(s))) /\ Takes(FirstOf(s, n), s, Cut(n, Len(s)))
BY FirstOfFacts DEF Piece, Takes

\* What is left after the first b
Rest(s, b) == SubSeq(s, b + 1, Len(s))
LEMMA RestPiece ==
  ASSUME NEW S, NEW s \in Seq(S), NEW b, b \in Nat, b <= Len(s)
  PROVE  Piece(Rest(s, b), S, Len(s) - b) /\ Continues(Rest(s, b), s, b, Len(s) - b)
<1>1. /\ Len(SubSeq(s, b + 1, Len(s))) = Len(s) - b
      /\ \A k \in 1..(Len(s) - b) : SubSeq(s, b + 1, Len(s))[k] = s[b + k]
  BY SubSeqPlaces
<1>2. SubSeq(s, b + 1, Len(s)) \in Seq(S) /\ Len(s) - b \in Nat
  BY SubSeqElements
<1>3. QED
  BY <1>1, <1>2 DEF Piece, Rest, Continues

\* What a dashboard of the parts w has to show, where L is its size and N that of the table
Presents(d, L, rs, qs, es, R, Q, E, N) ==
  /\ IsInjective(d) /\ Len(d) = (IF L <= N THEN L ELSE N)
  /\ ToSet(FirstOf(rs, L)) \subseteq ToSet(d)
  /\ Q \cap ToSet(d) = ToSet(FirstOf(qs, Cardinality(Q \cap ToSet(d))))
  /\ E \cap ToSet(d) = ToSet(FirstOf(es, Cardinality(E \cap ToSet(d))))

LEMMA PartedPresents ==
  ASSUME NEW R, NEW Q, NEW E, NEW rs, NEW qs, NEW es, NEW w,
         NEW a, NEW b, NEW c, NEW z, NEW L, NEW N,
         Dashed(R, Q, E, rs, qs, es, a, b, c, z, w, L),
         N = Len(rs) + Len(qs) + Len(es), L <= a + b + c + z \/ a + b + c + z = N
  PROVE  /\ Presents(FirstOf(w, L), L, rs, qs, es, R, Q, E, N)
         /\ Cardinality(E \cap ToSet(FirstOf(w, L))) = EndedShown(a, b, c, L)
<1> DEFINE d == FirstOf(w, L)
<1>1. PICK mq, me : mq = QueuedShown(a, b, c, z, L) /\ me = EndedShown(a, b, c, L)
  OBVIOUS
<1>2. /\ IsInjective(d) /\ Len(d) = Cut(L, a + b + c + z)
      /\ R \cap ToSet(d) = Firsts(rs, a)
      /\ mq \in 0..Len(qs) /\ Q \cap ToSet(d) = Firsts(qs, mq)
      /\ me \in 0..Len(es) /\ E \cap ToSet(d) = Firsts(es, me)
  BY <1>1, PartedShows
<1> HIDE DEF d
<1>3. Cut(L, a + b + c + z) = IF L <= N THEN L ELSE N
  <2>1. PICK lr \in Nat, lq \in Nat, le \in Nat :
          lr = Len(rs) /\ lq = Len(qs) /\ le = Len(es) /\ a = Cut(L, lr)
    BY DEF Dashed, SeqOver
  <2>2. /\ a \in Nat /\ b \in Nat /\ c \in Nat /\ z \in Nat /\ L \in Nat
        /\ a <= lr /\ b + z <= lq /\ c <= le
    BY <2>1 DEF Dashed, Cut
  <2>3. QED
    BY <2>1, <2>2 DEF Cut
<1>4. ToSet(FirstOf(rs, L)) = Firsts(rs, a)
  <2>1. rs \in Seq(R) /\ a = Cut(L, Len(rs)) /\ L \in Int
    BY DEF SeqOver, Dashed
  <2>2. QED
    BY <2>1, FirstOfFacts
<1>5. SeqOver(qs, Q) /\ SeqOver(es, E)
  BY DEF Dashed
<1>6. Begins(qs, mq, Q \cap ToSet(d)) /\ Begins(es, me, E \cap ToSet(d))
  BY <1>2 DEF Begins
<1>7. Q \cap ToSet(d) = ToSet(FirstOf(qs, Cardinality(Q \cap ToSet(d))))
  BY <1>5, <1>6, ShownFirst
<1>8. /\ E \cap ToSet(d) = ToSet(FirstOf(es, Cardinality(E \cap ToSet(d))))
      /\ Cardinality(E \cap ToSet(d)) = me
  BY <1>5, <1>6, ShownFirst
<1>9. QED
  BY <1>1, <1>2, <1>3, <1>4, <1>7, <1>8 DEF Presents, d

LEMMA MinOfThree ==
  ASSUME NEW x \in Nat, NEW y \in Nat, NEW z \in Nat
  PROVE  Min({x, y, z}) \in Nat /\ Min({x, y, z}) <= x /\ Min({x, y, z}) <= y
         /\ Min({x, y, z}) <= z
<1>1. \E m \in {x, y, z} : \A n \in {x, y, z} : m <= n
  BY LeastNumber
<1>2. Min({x, y, z}) \in {x, y, z} /\ \A n \in {x, y, z} : Min({x, y, z}) <= n
  BY <1>1 DEF Min
<1>3. QED
  BY <1>2

LEMMA DashboardsAreSound == StoreShape => DashboardsShow
<1> SUFFICES ASSUME StoreShape PROVE DashboardsShow
  OBVIOUS
<1> DEFINE R == OfStatus({"running"})
           Q == OfStatus({"queued"})
           E == OfStatus(Ended)
           rs == UpdatedDesc(R)
           qs == CreatedAsc(Q)
           es == UpdatedDesc(E)
<1>1. RowsOK /\ Limit \in Nat /\ QueuedFloor \in Nat /\ TerminalRoom \in Nat
  BY StoreAssumption DEF StoreShape
<1>2. /\ R \in SUBSET InTable /\ Q \in SUBSET InTable /\ E \in SUBSET InTable
      /\ R \cap Q = {} /\ R \cap E = {} /\ Q \cap E = {} /\ InTable = R \cup Q \cup E
  BY <1>1 DEF RowsOK, IsRow, OfStatus, StoredStatuses, Ended
<1>3. SeqOver(rs, R) /\ SeqOver(qs, Q) /\ SeqOver(es, E)
  BY <1>1, <1>2, OrdersList
<1>4. PICK nr \in Nat, nq \in Nat, ne \in Nat :
        /\ Len(rs) = nr /\ Len(qs) = nq /\ Len(es) = ne
        /\ Cardinality(R) = nr /\ Cardinality(Q) = nq /\ Cardinality(E) = ne
  BY <1>3 DEF SeqOver
<1>5. Cardinality(InTable) = nr + nq + ne
  <2>1. IsFiniteSet(R) /\ IsFiniteSet(Q) /\ IsFiniteSet(E) /\ IsFiniteSet(R \cup Q)
    BY <1>3, FS_Union DEF SeqOver
  <2>2. Cardinality(R \cup Q) = nr + nq
    <3>1. Cardinality(R \cap Q) = 0
      BY <1>2, FS_EmptySet
    <3>2. QED
      BY <1>4, <2>1, <3>1, FS_Union
  <2>3. PICK RQ : RQ = R \cup Q
    OBVIOUS
  <2>4. RQ \cap E = {} /\ InTable = RQ \cup E
    BY <1>2, <2>3
  <2>5. Cardinality(RQ \cap E) = 0
    BY <2>4, FS_EmptySet
  <2>6. IsFiniteSet(RQ) /\ Cardinality(RQ) = nr + nq
    BY <2>1, <2>2, <2>3
  <2>7. Cardinality(RQ \cup E) = Cardinality(RQ) + Cardinality(E) - Cardinality(RQ \cap E)
    BY <2>1, <2>6, FS_Union
  <2>8. QED
    BY <1>4, <2>4, <2>5, <2>6, <2>7
<1>6. nr + nq + ne = Len(rs) + Len(qs) + Len(es) /\ nr + nq + ne \in Nat
  BY <1>4
<1>7. rs \in Seq(InTable) /\ qs \in Seq(InTable) /\ es \in Seq(InTable)
  <2>1. rs \in Seq(R) /\ qs \in Seq(Q) /\ es \in Seq(E)
    BY <1>3 DEF SeqOver
  <2>2. \A S \in SUBSET InTable : Seq(S) \subseteq Seq(InTable)
    OBVIOUS
  <2>3. QED
    BY <1>2, <2>1, <2>2
<1> DEFINE r1 == FirstOf(rs, Limit)
           a == Cut(Limit, Len(rs))
<1> HIDE DEF R, Q, E, rs, qs, es
<1>8. a \in Nat /\ a = (IF Limit <= nr THEN Limit ELSE nr)
  BY <1>1, <1>4 DEF Cut
<1>9. Piece(r1, InTable, a) /\ Takes(r1, rs, a)
  BY <1>1, <1>7, FirstPiece
<1>10. Piece(es, InTable, ne) /\ Takes(es, es, ne)
  BY <1>4, <1>7 DEF Piece, Takes
<1> HIDE DEF r1, a
<1>11. /\ Presents(FileDashboard, Limit, rs, qs, es, R, Q, E, nr + nq + ne)
       /\ Cardinality(E \cap ToSet(FileDashboard)) >=
            Min({TerminalRoom, ne, Max({0, Limit - nr - QueuedFloor})})
  <2> DEFINE budget == Max({QueuedFloor, Limit - Len(r1) - Min({TerminalRoom, Len(es)})})
             q1 == FirstOf(qs, budget)
             q2 == SubSeq(qs, Len(q1) + 1, Len(qs))
             w == r1 \o q1 \o es \o q2
             b == Cut(budget, Len(qs))
             z == Len(qs) - b
  <2>1. FileDashboard = FirstOf(w, Limit)
    BY DEF FileDashboard, R, Q, E, rs, qs, es, r1
  <2>2. PICK room \in Nat : /\ room = Min({TerminalRoom, Len(es)})
                            /\ room = IF TerminalRoom <= ne THEN TerminalRoom ELSE ne
    BY <1>1, <1>4, MinFacts
  <2>3. /\ budget = IF QueuedFloor >= Limit - a - room THEN QueuedFloor ELSE Limit - a - room
        /\ budget \in Nat
    <3>1. QueuedFloor \in Int /\ Limit - a - room \in Int
      BY <1>1, <1>8
    <3>2. Max({QueuedFloor, Limit - a - room})
            = IF QueuedFloor >= Limit - a - room THEN QueuedFloor ELSE Limit - a - room
      BY <3>1, MaxFacts
    <3>3. Len(r1) = a
      BY <1>9 DEF Piece
    <3>4. QED
      BY <1>1, <2>2, <3>1, <3>2, <3>3
  <2> HIDE DEF budget
  <2>4. b \in Nat /\ b = (IF budget <= nq THEN budget ELSE nq) /\ b <= Len(qs)
    BY <1>4, <2>3 DEF Cut
  <2>5. Piece(q1, InTable, b) /\ Takes(q1, qs, b)
    BY <1>7, <2>3, FirstPiece
  <2> HIDE DEF q1, b
  <2>6. Piece(q2, InTable, z) /\ Continues(q2, qs, b, z)
    <3>1. q2 = Rest(qs, b)
      BY <2>5 DEF Rest, Piece
    <3>2. QED
      BY <1>7, <2>4, <3>1, RestPiece
  <2>7. z \in Nat /\ z = nq - b
    BY <1>4, <2>4, <2>6 DEF Piece
  <2> HIDE DEF q2, z
  <2>8. w \in Seq(InTable) /\ Parted(w, rs, qs, es, a, b, ne, z)
    BY <1>9, <1>10, <2>5, <2>6, ConcatParted
  <2> HIDE DEF w
  <2>9. w \in Seq(R \cup Q \cup E)
    BY <1>2, <2>8 DEF R, Q, E
  <2>10. Limit <= a + b + ne + z \/ a + b + ne + z = nr + nq + ne
    BY <1>1, <1>8, <2>4, <2>7
  <2>11. /\ Presents(FileDashboard, Limit, rs, qs, es, R, Q, E, nr + nq + ne)
         /\ Cardinality(E \cap ToSet(FileDashboard)) = EndedShown(a, b, ne, Limit)
    <3>1. R \cap Q = {} /\ R \cap E = {} /\ Q \cap E = {}
      BY <1>2 DEF R, Q, E
    <3>2. b + z <= Len(qs) /\ ne <= Len(es) /\ a = Cut(Limit, Len(rs))
      BY <1>4, <2>4, <2>7 DEF a
    <3>3. Dashed(R, Q, E, rs, qs, es, a, b, ne, z, w, Limit)
      BY <1>1, <1>3, <1>8, <2>4, <2>7, <2>8, <2>9, <3>1, <3>2 DEF Dashed
    <3>4. QED
      BY <1>1, <1>6, <2>1, <2>10, <3>3, PartedPresents
  <2>12. PICK more \in Nat : /\ more = Max({0, Limit - nr - QueuedFloor})
                             /\ more = IF 0 >= Limit - nr - QueuedFloor THEN 0
                                       ELSE Limit - nr - QueuedFloor
    <3>1. Limit - nr - QueuedFloor \in Int
      BY <1>1
    <3>2. QED
      BY <3>1, MaxFacts
  <2>13. PICK least \in Nat : /\ least = Min({TerminalRoom, ne, more})
                              /\ least <= TerminalRoom /\ least <= ne /\ least <= more
    BY <1>1, MinOfThree
  <2>14. PICK e \in Nat : /\ e = Cardinality(E \cap ToSet(FileDashboard))
                          /\ e = IF Limit <= a + b THEN 0
                                 ELSE IF Limit <= a + b + ne THEN Limit - a - b ELSE ne
    BY <1>1, <1>8, <2>4, <2>11 DEF EndedShown
  <2>15. e >= least
    <3>1. a <= Limit /\ a <= nr /\ room <= TerminalRoom /\ room <= ne
      BY <1>1, <1>8, <2>2
    <3>2. least <= room /\ least <= ne
      BY <2>2, <2>13
    <3>3. CASE budget = QueuedFloor
      <4>1. b <= QueuedFloor
        BY <2>4, <3>3
      <4>2. Limit - a - b >= Limit - nr - QueuedFloor
        BY <1>1, <1>8, <2>4, <3>1, <4>1
      <4>3. CASE Limit - nr - QueuedFloor <= 0
        BY <1>1, <2>12, <2>13, <4>3
      <4>4. CASE Limit - nr - QueuedFloor > 0
        <5>1. more = Limit - nr - QueuedFloor
          BY <1>1, <2>12, <4>4
        <5>2. Limit - a - b >= least
          BY <1>1, <1>8, <2>4, <2>13, <4>2, <5>1
        <5>3. QED
          BY <1>1, <1>8, <2>4, <2>14, <3>2, <5>2
      <4>5. QED
        BY <1>1, <4>3, <4>4
    <3>4. CASE budget = Limit - a - room
      <4>1. b <= Limit - a - room
        BY <1>1, <1>8, <2>2, <2>4, <3>4
      <4>2. Limit - a - b >= least
        BY <1>1, <1>8, <2>4, <3>2, <4>1
      <4>3. QED
        BY <1>1, <1>8, <2>4, <2>14, <3>2, <4>2
    <3>5. QED
      BY <2>3, <3>3, <3>4
  <2>16. QED
    BY <2>11, <2>12, <2>13, <2>14, <2>15
<1>12. Presents(SqlDashboard, Limit, rs, qs, es, R, Q, E, nr + nq + ne)
  <2> DEFINE room == Max({QueuedFloor, Limit})
             q1 == FirstOf(qs, room)
             e1 == FirstOf(es, Limit)
             w == r1 \o q1 \o e1
             b == Cut(room, Len(qs))
             c == Cut(Limit, Len(es))
  <2>1. SqlDashboard = FirstOf(w, Limit)
    BY DEF SqlDashboard, R, Q, E, rs, qs, es, r1
  <2>2. room \in Nat /\ room = (IF QueuedFloor >= Limit THEN QueuedFloor ELSE Limit)
    BY <1>1, MaxFacts
  <2> HIDE DEF room
  <2>3. b \in Nat /\ b = (IF room <= nq THEN room ELSE nq)
    BY <1>1, <1>4, <2>2 DEF Cut
  <2>4. c \in Nat /\ c = (IF Limit <= ne THEN Limit ELSE ne)
    BY <1>1, <1>4 DEF Cut
  <2>5. Piece(q1, InTable, b) /\ Takes(q1, qs, b)
    BY <1>7, <2>2, FirstPiece
  <2>6. Piece(e1, InTable, c) /\ Takes(e1, es, c)
    BY <1>1, <1>7, FirstPiece
  <2> HIDE DEF q1, e1, b, c
  <2>7. w \in Seq(InTable) /\ Parted(w, rs, qs, es, a, b, c, 0)
    <3>1. Piece(<<>>, InTable, 0) /\ Continues(<<>>, qs, b, 0)
      BY DEF Piece, Continues
    <3>2. /\ r1 \o q1 \o e1 \o <<>> \in Seq(InTable)
          /\ Parted(r1 \o q1 \o e1 \o <<>>, rs, qs, es, a, b, c, 0)
      BY <1>9, <2>5, <2>6, <3>1, ConcatParted
    <3>3. w \in Seq(InTable)
      BY <1>9, <2>5, <2>6, ConcatPieces DEF Piece, Chained
    <3>4. w \o <<>> = w
      BY <3>3
    <3>5. QED
      BY <3>2, <3>3, <3>4
  <2> HIDE DEF w
  <2>8. w \in Seq(R \cup Q \cup E)
    BY <1>2, <2>7 DEF R, Q, E
  <2>9. Limit <= a + b + c + 0 \/ a + b + c + 0 = nr + nq + ne
    BY <1>1, <1>8, <2>2, <2>3, <2>4
  <2>10. R \cap Q = {} /\ R \cap E = {} /\ Q \cap E = {}
    BY <1>2 DEF R, Q, E
  <2>11. b + 0 <= Len(qs) /\ c <= Len(es) /\ a = Cut(Limit, Len(rs)) /\ 0 \in Nat
    BY <1>1, <1>4, <2>2, <2>3, <2>4 DEF a
  <2>12. Dashed(R, Q, E, rs, qs, es, a, b, c, 0, w, Limit)
    BY <1>1, <1>3, <1>8, <2>3, <2>4, <2>7, <2>8, <2>10, <2>11 DEF Dashed
  <2>13. QED
    BY <1>1, <1>6, <2>1, <2>9, <2>12, PartedPresents
<1>13. Min({Limit, Cardinality(InTable)})
         = IF Limit <= nr + nq + ne THEN Limit ELSE nr + nq + ne
  BY <1>1, <1>5, MinFacts
<1>14. ASSUME NEW d, Presents(d, Limit, rs, qs, es, R, Q, E, nr + nq + ne)
       PROVE  /\ IsInjective(d) /\ Len(d) = Min({Limit, Cardinality(InTable)})
              /\ ToSet(FirstOf(UpdatedDesc(R), Limit)) \subseteq ToSet(d)
              /\ Q \cap ToSet(d) = ToSet(FirstOf(CreatedAsc(Q), Cardinality(Q \cap ToSet(d))))
              /\ E \cap ToSet(d) = ToSet(FirstOf(UpdatedDesc(E), Cardinality(E \cap ToSet(d))))
  BY <1>13, <1>14 DEF Presents, rs, qs, es
<1>15. Cardinality(E \cap ToSet(FileDashboard)) >=
         Min({TerminalRoom, Cardinality(E), Max({0, Limit - Cardinality(R) - QueuedFloor})})
  BY <1>4, <1>11
<1>16. QED
  BY <1>11, <1>12, <1>14, <1>15 DEF DashboardsShow, R, Q, E
=============================================================================
