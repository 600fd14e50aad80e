---------------------------- MODULE OrderProofs -----------------------------
(***************************************************************************)
(* What the other proofs say of the numbers and orders the modules count   *)
(* with: a set of numbers has a least element, and the elements of a       *)
(* finite set that is ordered have places, which a sequence of them        *)
(* follows.  And what they say of the heap and the reservoir of            *)
(* lib/topk.ts: an item that rises or sinks leaves a heap of the same      *)
(* items behind, so that a heap holds the best of all it was offered.  A   *)
(* fold over a sequence has a function that satisfies its equation, a sum  *)
(* over one is its running sum, and the elements of a finite set that have *)
(* keys of numbers of their own stand in the order of these keys.          *)
(***************************************************************************)
EXTENDS TopKHeap, SequencesExt, FiniteSetTheorems, WellFoundedInduction, SequenceTheorems, TLAPS

\* Among numbers there is a least.
LEMMA LeastNumber ==
  ASSUME NEW S \in SUBSET Nat, S # {}
  PROVE  \E x \in S : \A y \in S : x <= y
<1> DEFINE R == {ss \in Nat \X Nat : ss[1] < ss[2]}
<1>1. IsWellFoundedOn(R, Nat)
  BY NatLessThanWellFounded DEF OpToRel
<1>2. PICK x \in S : \A y \in S : <<y, x>> \notin R
  <2> HIDE DEF R
  <2> QED
    BY <1>1, WFMin
<1>3. ASSUME NEW y \in S
      PROVE  x <= y
  <2>1. <<y, x>> \in Nat \X Nat /\ <<y, x>>[1] = y /\ <<y, x>>[2] = x
    OBVIOUS
  <2>2. ~(y < x)
    BY <1>2, <2>1
  <2>3. QED
    BY <2>2
<1>4. QED
  BY <1>3

\* Of numbers that are bounded there is a greatest.
LEMMA GreatestNumber ==
  ASSUME NEW n \in Nat, NEW S \in SUBSET (0..n), S # {}
  PROVE  \E x \in S : \A y \in S : y <= x
<1> DEFINE D == {d \in 0..n : n - d \in S}
<1>1. D \in SUBSET Nat
  OBVIOUS
<1>2. D # {}
  <2>1. PICK x \in S : TRUE
    OBVIOUS
  <2>2. n - x \in 0..n /\ n - (n - x) = x
    OBVIOUS
  <2>3. QED
    BY <2>1, <2>2
<1>3. PICK d \in D : \A e \in D : d <= e
  <2> HIDE DEF D
  <2>1. QED
    BY <1>1, <1>2, LeastNumber
<1>4. ASSUME NEW y \in S
      PROVE  y <= n - d
  <2>1. n - y \in 0..n /\ n - (n - y) = y
    OBVIOUS
  <2>2. n - y \in D
    BY <2>1
  <2>3. d <= n - y
    BY <1>3, <2>2
  <2>4. QED
    BY <2>3
<1>5. QED
  BY <1>4

LEMMA GreatestOfSome ==
  ASSUME NEW n \in Nat, NEW S \in SUBSET (0..n), S # {}
  PROVE  Max(S) \in S /\ \A x \in S : x <= Max(S)
<1>1. PICK x \in S : \A y \in S : y <= x
  BY GreatestNumber
<1>2. \A y \in S : x >= y
  BY <1>1
<1>3. Max(S) \in S /\ \A y \in S : Max(S) >= y
  BY <1>2 DEF Max
<1>4. QED
  BY <1>3

LEMMA LeastOfTwo ==
  ASSUME NEW a \in Nat, NEW b \in Nat
  PROVE  LET m == Min({a, b})
         IN  m \in {a, b} /\ m <= a /\ m <= b
<1>1. {a, b} \in SUBSET Nat /\ {a, b} # {}
  OBVIOUS
<1>2. PICK x \in {a, b} : \A y \in {a, b} : x <= y
  BY <1>1, LeastNumber
<1>3. Min({a, b}) \in {a, b} /\ \A y \in {a, b} : Min({a, b}) <= y
  BY <1>2 DEF Min
<1>4. QED
  BY <1>3

IsStrictOrder(R, S) ==
  /\ \A x \in S : <<x, x>> \notin R
  /\ \A x, y, z \in S : <<x, y>> \in R /\ <<y, z>> \in R => <<x, z>> \in R
  /\ \A x, y \in S : x # y => <<x, y>> \in R \/ <<y, x>> \in R

\* The elements of S that R puts before x.
Below(R, S, x) == {y \in S : <<y, x>> \in R}

\* Counting what is before it gives each element of a finite set a place of its own,
\* and every place is taken.
LEMMA PlacesAreTaken ==
  ASSUME NEW S, IsFiniteSet(S), NEW R, IsStrictOrder(R, S)
  PROVE  /\ Cardinality(S) \in Nat
         /\ \A n \in 1..Cardinality(S) : \E x \in S : Cardinality(Below(R, S, x)) = n - 1
         /\ \A x, y \in S : Cardinality(Below(R, S, x)) = Cardinality(Below(R, S, y)) => x = y
         /\ \A x \in S : Cardinality(Below(R, S, x)) \in 0..(Cardinality(S) - 1)
         /\ \A x, y \in S :
              <<x, y>> \in R => Cardinality(Below(R, S, x)) < Cardinality(Below(R, S, y))
<1> DEFINE N == Cardinality(S)
           place == [x \in S |-> Cardinality(Below(R, S, x))]
<1>1. N \in Nat
  BY FS_CardinalityType
<1>2. ASSUME NEW x \in S
      PROVE  /\ IsFiniteSet(Below(R, S, x)) /\ Cardinality(Below(R, S, x)) \in 0..(N - 1)
  <2>1. Below(R, S, x) \in SUBSET (S \ {x})
    BY DEF Below, IsStrictOrder
  <2>2. IsFiniteSet(S \ {x}) /\ Cardinality(S \ {x}) = N - 1
    BY FS_RemoveElement
  <2>3. IsFiniteSet(Below(R, S, x)) /\ Cardinality(Below(R, S, x)) <= N - 1
    BY <2>1, <2>2, FS_Subset
  <2>4. Cardinality(Below(R, S, x)) \in Nat
    BY <2>3, FS_CardinalityType
  <2>5. QED
    BY <1>1, <2>3, <2>4
<1>3. ASSUME NEW x \in S, NEW y \in S, <<x, y>> \in R
      PROVE  Cardinality(Below(R, S, x)) < Cardinality(Below(R, S, y))
  <2>1. Below(R, S, x) \in SUBSET Below(R, S, y)
    BY <1>3 DEF Below, IsStrictOrder
  <2>2. x \in Below(R, S, y) /\ x \notin Below(R, S, x)
    BY <1>3 DEF Below, IsStrictOrder
  <2>3. /\ Cardinality(Below(R, S, x)) <= Cardinality(Below(R, S, y))
        /\ Cardinality(Below(R, S, x)) # Cardinality(Below(R, S, y))
    BY <1>2, <2>1, <2>2, FS_Subset
  <2>4. {Cardinality(Below(R, S, x)), Cardinality(Below(R, S, y))} \subseteq Int
    BY <1>1, <1>2
  <2>5. QED
    BY <2>3, <2>4
<1>4. \A x, y \in S : Cardinality(Below(R, S, x)) = Cardinality(Below(R, S, y)) => x = y
  <2> SUFFICES ASSUME NEW x \in S, NEW y \in S, x # y
               PROVE  Cardinality(Below(R, S, x)) # Cardinality(Below(R, S, y))
    OBVIOUS
  <2>1. <<x, y>> \in R \/ <<y, x>> \in R
    BY DEF IsStrictOrder
  <2>2. {Cardinality(Below(R, S, x)), Cardinality(Below(R, S, y))} \subseteq Int
    BY <1>1, <1>2
  <2>3. QED
    BY <1>3, <2>1, <2>2
<1>5. place \in Injection(S, 0..(N - 1))
  BY <1>2, <1>4 DEF Injection, IsInjective
<1>6. IsFiniteSet(0..(N - 1)) /\ Cardinality(0..(N - 1)) = N
  BY <1>1, FS_Interval, SMTT(30)
<1>7. place \in Surjection(S, 0..(N - 1))
  <2> HIDE DEF place
  <2> QED
    BY <1>5, <1>6, FS_Injection
<1>8. ASSUME NEW n \in 1..N
      PROVE  \E x \in S : Cardinality(Below(R, S, x)) = n - 1
  <2>1. n - 1 \in 0..(N - 1)
    BY <1>1
  <2>2. PICK x \in S : place[x] = n - 1
    BY <1>7, <2>1 DEF Surjection
  <2>3. QED
    BY <2>2
<1>9. QED
  BY <1>1, <1>2, <1>3, <1>4, <1>8

\* A finite set in its order
Sorted(R, S) ==
  [i \in 1..Cardinality(S) |-> CHOOSE x \in S : Cardinality(Below(R, S, x)) = i - 1]

LEMMA SortedFacts ==
  ASSUME NEW S, IsFiniteSet(S), NEW R, IsStrictOrder(R, S)
  PROVE  /\ Sorted(R, S) \in Seq(S) /\ Len(Sorted(R, S)) = Cardinality(S)
         /\ Cardinality(S) \in Nat
         /\ \A i \in 1..Cardinality(S) : /\ Sorted(R, S)[i] \in S
                                         /\ Cardinality(Below(R, S, Sorted(R, S)[i])) = i - 1
         /\ \A x \in S : /\ Cardinality(Below(R, S, x)) \in 0..(Cardinality(S) - 1)
                         /\ Sorted(R, S)[Cardinality(Below(R, S, x)) + 1] = x
         /\ \A i, j \in 1..Cardinality(S) :
              i < j <=> <<Sorted(R, S)[i], Sorted(R, S)[j]>> \in R
<1> DEFINE N == Cardinality(S)
           place(x) == Cardinality(Below(R, S, x))
           s == Sorted(R, S)
<1>1. /\ N \in Nat
      /\ \A n \in 1..N : \E x \in S : place(x) = n - 1
      /\ \A x, y \in S : place(x) = place(y) => x = y
      /\ \A x \in S : place(x) \in 0..(N - 1)
      /\ \A x, y \in S : <<x, y>> \in R => place(x) < place(y)
  BY PlacesAreTaken
<1>2. \A i \in 1..N : s[i] = CHOOSE x \in S : place(x) = i - 1
  BY DEF Sorted
<1> HIDE DEF place
<1>3. \A i \in 1..N : s[i] \in S /\ place(s[i]) = i - 1
  BY <1>1, <1>2
<1>4. s \in Seq(S) /\ Len(s) = N
  <2>1. s \in [1..N -> S]
    BY <1>3 DEF Sorted
  <2> HIDE DEF s
  <2>2. QED
    BY <1>1, <2>1
<1>5. ASSUME NEW x \in S
      PROVE  place(x) \in 0..(N - 1) /\ s[place(x) + 1] = x
  <2>1. PICK i \in 1..N : i = place(x) + 1 /\ i - 1 = place(x)
    BY <1>1
  <2>2. s[i] \in S /\ place(s[i]) = place(x)
    BY <1>3, <2>1
  <2>3. s[i] = x
    BY <1>1, <2>2
  <2>4. QED
    BY <1>1, <2>1, <2>3
<1>6. ASSUME NEW i \in 1..N, NEW j \in 1..N
      PROVE  i < j <=> <<s[i], s[j]>> \in R
  <2>1. s[i] \in S /\ s[j] \in S /\ place(s[i]) = i - 1 /\ place(s[j]) = j - 1
    BY <1>3
  <2>2. CASE i < j
    <3>1. s[i] # s[j] /\ <<s[j], s[i]>> \notin R
      BY <1>1, <2>1, <2>2
    <3>2. QED
      BY <2>1, <2>2, <3>1 DEF IsStrictOrder
  <2>3. CASE ~(i < j)
    BY <1>1, <2>1, <2>3
  <2>4. QED
    BY <2>2, <2>3
<1>7. QED
  BY <1>1, <1>3, <1>4, <1>5, <1>6 DEF place

\* The first n elements are those that have less than n before them.
LEMMA FirstSorted ==
  ASSUME NEW S, IsFiniteSet(S), NEW R, IsStrictOrder(R, S), NEW n \in Nat, NEW i \in Nat
  PROVE  \A x \in S : /\ i <= Cardinality(Below(R, S, x))
                       /\ Cardinality(Below(R, S, x)) < n
                       /\ n <= Cardinality(S)
                       => x \in ToSet(SubSeq(Sorted(R, S), i + 1, n))
<1> SUFFICES ASSUME NEW x \in S, i <= Cardinality(Below(R, S, x)),
                    Cardinality(Below(R, S, x)) < n, n <= Cardinality(S)
             PROVE  x \in ToSet(SubSeq(Sorted(R, S), i + 1, n))
  OBVIOUS
<1> DEFINE p == Cardinality(Below(R, S, x))
           s == Sorted(R, S)
<1>1. /\ s \in Seq(S) /\ Len(s) = Cardinality(S) /\ Cardinality(S) \in Nat
      /\ p \in 0..(Cardinality(S) - 1) /\ s[p + 1] = x
  BY SortedFacts
<1> HIDE DEF p, s
<1>2. p \in Nat /\ i <= p /\ p < n
  BY <1>1 DEF p
<1>3. /\ SubSeq(s, i + 1, n) = [k \in 1..(n - i) |-> s[k + i]]
      /\ p + 1 - i \in 1..(n - i) /\ p + 1 - i + i = p + 1
  <2>1. SubSeq(s, i + 1, n) = [k \in 1..(n - (i + 1) + 1) |-> s[k + (i + 1) - 1]]
    BY <1>1
  <2>2. n - (i + 1) + 1 = n - i /\ \A k \in 1..(n - i) : k + (i + 1) - 1 = k + i
    OBVIOUS
  <2>3. QED
    BY <1>2, <2>1, <2>2
<1>4. SubSeq(s, i + 1, n)[p + 1 - i] = x /\ p + 1 - i \in DOMAIN SubSeq(s, i + 1, n)
  BY <1>1, <1>3
<1>5. QED
  BY <1>4 DEF ToSet, s

LEMMA SubSeqPlaces ==
  ASSUME NEW S, NEW s \in Seq(S), NEW m \in Nat, NEW n \in Nat, m <= n, n <= Len(s)
  PROVE  /\ Len(SubSeq(s, m + 1, n)) = n - m
         /\ DOMAIN SubSeq(s, m + 1, n) = 1..(n - m)
         /\ \A k \in 1..(n - m) : SubSeq(s, m + 1, n)[k] = s[m + k]
<1>1. SubSeq(s, m + 1, n) = [k \in 1..(n - (m + 1) + 1) |-> s[k + (m + 1) - 1]]
  OBVIOUS
<1>2. n - (m + 1) + 1 = n - m /\ \A k \in 1..(n - m) : k + (m + 1) - 1 = m + k
  OBVIOUS
<1>3. SubSeq(s, m + 1, n) = [k \in 1..(n - m) |-> s[m + k]] /\ n - m \in Nat
  BY <1>1, <1>2
<1>4. QED
  BY <1>3

LEMMA SubSeqElements ==
  ASSUME NEW S, NEW s \in Seq(S), NEW m \in Int, NEW n \in Int, 1 <= m, n <= Len(s)
  PROVE  SubSeq(s, m, n) \in Seq(S) /\ ToSet(SubSeq(s, m, n)) \subseteq S
<1>1. SubSeq(s, m, n) \in Seq(S)
  BY SubSeqProperties
<1>2. QED
  BY <1>1 DEF ToSet

\* The other way round, the last comes first.
LEMMA SortedReversed ==
  ASSUME NEW S, IsFiniteSet(S), NEW R, IsStrictOrder(R, S), NEW Q,
         \A x, y \in S : <<x, y>> \in Q <=> <<y, x>> \in R
  PROVE  IsStrictOrder(Q, S) /\ Reverse(Sorted(R, S)) = Sorted(Q, S)
<1> DEFINE N == Cardinality(S)
           s == Sorted(R, S)
           t == Sorted(Q, S)
<1>1. IsStrictOrder(Q, S)
  BY DEF IsStrictOrder
<1>2. /\ s \in Seq(S) /\ Len(s) = N /\ N \in Nat
      /\ \A i \in 1..N : s[i] \in S /\ Cardinality(Below(R, S, s[i])) = i - 1
  BY SortedFacts
<1>3. /\ t \in Seq(S) /\ Len(t) = N
      /\ \A x \in S : t[Cardinality(Below(Q, S, x)) + 1] = x
  BY <1>1, SortedFacts
<1> HIDE DEF s, t
<1>4. ASSUME NEW i \in 1..N
      PROVE  t[i] = s[N - i + 1]
  <2>1. PICK j \in 1..N : j = N - i + 1 /\ N - 1 - (j - 1) = i - 1
    BY <1>2
  <2>2. PICK x \in S : x = s[j]
    BY <1>2
  <2>3. Below(Q, S, x) = (S \ {x}) \ Below(R, S, x)
    BY DEF Below, IsStrictOrder
  <2>4. (S \ {x}) \cap Below(R, S, x) = Below(R, S, x)
    BY DEF Below, IsStrictOrder
  <2>5. IsFiniteSet(S \ {x}) /\ Cardinality(S \ {x}) = N - 1
    BY FS_RemoveElement
  <2>6. Cardinality(Below(Q, S, x)) = N - 1 - Cardinality(Below(R, S, x))
    BY <2>3, <2>4, <2>5, FS_Difference
  <2>7. Cardinality(Below(Q, S, x)) = i - 1
    BY <1>2, <2>1, <2>2, <2>6
  <2>8. t[i - 1 + 1] = x
    BY <1>3, <2>7
  <2>9. QED
    BY <1>2, <2>1, <2>2, <2>8
<1>5. Reverse(s) = [i \in 1..N |-> s[N - i + 1]]
  BY <1>2 DEF Reverse
<1>6. t = [i \in 1..N |-> t[i]]
  BY <1>2, <1>3
<1>7. QED
  BY <1>1, <1>4, <1>5, <1>6 DEF s, t

\* The elements of a finite set, seen through a function, are no more than there were.
LEMMA ImageCount ==
  ASSUME NEW S, IsFiniteSet(S), NEW T, NEW f \in [S -> T]
  PROVE  /\ IsFiniteSet({f[x] : x \in S})
         /\ Cardinality({f[x] : x \in S}) <= Cardinality(S)
<1>1. f \in Surjection(S, {f[x] : x \in S})
  BY DEF Surjection
<1>2. QED
  BY <1>1, FS_Surjection

-----------------------------------------------------------------------------
(* The heap of the best *)

HasRanks(T) == \A x \in T : x.rank \in Int
NoTwice(h) == \A i, j \in DOMAIN h : h[i] = h[j] => i = j

\* No item is worse than its parent.
IsHeap(h) == \A j \in 2..Len(h) : ~Worse(h[j], h[j \div 2])

\* Two heaps of the same items.
Shuffled(g, h) ==
  Len(g) = Len(h) /\ Items(g) = Items(h) /\ (NoTwice(h) => NoTwice(g))

LEMMA ExchangeFacts ==
  ASSUME NEW T, NEW h \in Seq(T), NEW i \in 1..Len(h), NEW j \in 1..Len(h)
  PROVE  /\ Exchange(h, i, j) \in Seq(T)
         /\ Exchange(h, i, j)[i] = h[j] /\ Exchange(h, i, j)[j] = h[i]
         /\ \A k \in 1..Len(h) : k # i /\ k # j => Exchange(h, i, j)[k] = h[k]
         /\ Shuffled(Exchange(h, i, j), h)
<1> DEFINE g == Exchange(h, i, j)
<1>1. g \in Seq(T) /\ Len(g) = Len(h)
  BY DEF Exchange
<1>2. g[i] = h[j] /\ g[j] = h[i] /\ \A k \in 1..Len(h) : k # i /\ k # j => g[k] = h[k]
  BY DEF Exchange
<1>3. DOMAIN g = 1..Len(h) /\ DOMAIN h = 1..Len(h)
  BY <1>1
<1> HIDE DEF g
<1>4. Items(g) = Items(h)
  <2>1. ASSUME NEW k \in 1..Len(h)
        PROVE  /\ \E m \in 1..Len(h) : h[m] = g[k]
               /\ \E m \in 1..Len(h) : g[m] = h[k]
    BY <1>2
  <2>2. ASSUME NEW x \in Items(g) PROVE x \in Items(h)
    <3>1. PICK k \in 1..Len(h) : x = g[k]
      BY <1>3 DEF Items
    <3>2. PICK m \in 1..Len(h) : h[m] = g[k]
      BY <2>1
    <3>3. QED
      BY <1>3, <3>1, <3>2 DEF Items
  <2>3. ASSUME NEW x \in Items(h) PROVE x \in Items(g)
    <3>1. PICK k \in 1..Len(h) : x = h[k]
      BY <1>3 DEF Items
    <3>2. PICK m \in 1..Len(h) : g[m] = h[k]
      BY <2>1
    <3>3. QED
      BY <1>3, <3>1, <3>2 DEF Items
  <2>4. QED
    BY <2>2, <2>3
<1>5. NoTwice(h) => NoTwice(g)
  BY <1>2, <1>3 DEF NoTwice
<1>6. QED
  BY <1>1, <1>2, <1>4, <1>5 DEF Shuffled, g

LEMMA ShuffledTwice ==
  ASSUME NEW f, NEW g, NEW h, Shuffled(f, g), Shuffled(g, h)
  PROVE  Shuffled(f, h)
BY DEF Shuffled

LEMMA ShuffledItself == ASSUME NEW h PROVE Shuffled(h, h)
BY DEF Shuffled

LEMMA Halves ==
  ASSUME NEW j \in Nat, j >= 1
  PROVE  /\ j \div 2 \in Nat /\ j \div 2 < j /\ (j >= 2 => j \div 2 >= 1)
         /\ (2 * j) \div 2 = j /\ (2 * j + 1) \div 2 = j
         /\ \A k \in Nat : k \div 2 = j => k = 2 * j \/ k = 2 * j + 1
OBVIOUS

\* No item of a heap is worse than its root.
LEMMA RootIsWorst ==
  ASSUME NEW T, HasRanks(T), NEW h \in Seq(T), IsHeap(h), NEW i \in 1..Len(h)
  PROVE  ~Worse(h[i], h[1])
<1> DEFINE bad == {k \in 1..Len(h) : Worse(h[k], h[1])}
<1> SUFFICES ASSUME bad # {}
             PROVE  FALSE
  OBVIOUS
<1>1. bad \in SUBSET Nat
  OBVIOUS
<1>2. PICK k \in bad : \A m \in bad : k <= m
  <2> HIDE DEF bad
  <2>1. QED
    BY <1>1, LeastNumber
<1>3. k \in 1..Len(h) /\ Worse(h[k], h[1])
  BY <1>2
<1>4. \A m \in 1..Len(h) : h[m].rank \in Int
  BY DEF HasRanks
<1>5. k >= 2
  BY <1>3, <1>4 DEF Worse
<1>6. k \div 2 \in 1..Len(h) /\ k \div 2 < k
  BY <1>3, <1>5, Halves
<1>7. ~Worse(h[k], h[k \div 2])
  BY <1>3, <1>5 DEF IsHeap
<1>8. 1 \in 1..Len(h)
  BY <1>3
<1>9. Worse(h[k \div 2], h[1])
  <2>1. h[k].rank \in Int /\ h[k \div 2].rank \in Int /\ h[1].rank \in Int
    BY <1>3, <1>4, <1>6, <1>8
  <2>2. QED
    BY <1>3, <1>7, <2>1 DEF Worse
<1>10. QED
  BY <1>2, <1>3, <1>6, <1>9

-----------------------------------------------------------------------------
(* An item that rises *)

\* A walk of L steps, each of which gets nearer to the end unless it stays where it
\* is, stays where it is at the end.
Nearing(S, F, M, start, L) ==
  /\ F \in [S -> S] /\ M \in [S -> Nat] /\ start \in S /\ L \in Nat /\ M[start] <= L
  /\ \A s \in S : F[s] = s \/ M[F[s]] < M[s]
Settling(S, F, start, L) ==
  /\ \E g \in [0..L -> S] : g[0] = start /\ \A n \in 1..L : g[n] = F[g[n - 1]]
  /\ \A g : g[0] = start /\ (\A n \in 1..L : g[n - 1] \in S => g[n] = F[g[n - 1]])
              => g[L] \in S /\ F[g[L]] = g[L]

LEMMA WalksSettle ==
  ASSUME NEW S, NEW F, NEW M, NEW start, NEW L, Nearing(S, F, M, start, L)
  PROVE  Settling(S, F, start, L)
<1> USE DEF Nearing
<1> DEFINE Walk(m, g) == g \in [0..m -> S] /\ g[0] = start /\ \A n \in 1..m : g[n] = F[g[n - 1]]
<1>1. \A m \in Nat : \E g : Walk(m, g)
  <2> DEFINE bad == {m \in Nat : ~\E g : Walk(m, g)}
  <2> SUFFICES ASSUME bad # {}
               PROVE  FALSE
    OBVIOUS
  <2>1. bad \in SUBSET Nat
    OBVIOUS
  <2>2. PICK m \in bad : \A k \in bad : m <= k
    <3> HIDE DEF bad
    <3>1. QED
      BY <2>1, LeastNumber
  <2>3. m \in Nat /\ ~\E g : Walk(m, g)
    BY <2>2
  <2>4. m # 0
    <3>1. Walk(0, [n \in 0..0 |-> start])
      OBVIOUS
    <3>2. QED
      BY <2>3, <3>1
  <2>5. PICK g : Walk(m - 1, g)
    <3>1. m - 1 \in Nat /\ m - 1 < m
      BY <2>3, <2>4
    <3>2. m - 1 \notin bad
      <4> HIDE DEF bad
      <4>1. QED
        BY <2>2, <2>3, <3>1
    <3>3. QED
      BY <3>1, <3>2
  <2> DEFINE f == [n \in 0..m |-> IF n = m THEN F[g[m - 1]] ELSE g[n]]
  <2>6. m - 1 \in 0..(m - 1) /\ \A n \in 0..m : n # m => n \in 0..(m - 1)
    BY <2>3, <2>4
  <2>7. f \in [0..m -> S] /\ f[0] = start
    BY <2>4, <2>5, <2>6
  <2>8. ASSUME NEW n \in 1..m
        PROVE  f[n] = F[f[n - 1]]
    <3>1. n - 1 \in 0..m /\ n - 1 # m /\ n \in 0..m /\ (n # m => n \in 1..(m - 1))
      BY <2>3
    <3>2. f[n - 1] = g[n - 1]
      BY <3>1
    <3>3. CASE n = m
      BY <3>1, <3>2, <3>3
    <3>4. CASE n # m
      <4>1. f[n] = g[n] /\ g[n] = F[g[n - 1]]
        BY <2>5, <3>1, <3>4
      <4>2. QED
        BY <3>2, <4>1
    <3>5. QED
      BY <3>3, <3>4
  <2>9. QED
    <3>1. Walk(m, f)
      <4> HIDE DEF f
      <4>1. QED
        BY <2>7, <2>8
    <3>2. QED
      BY <2>3, <3>1
<1>2. ASSUME NEW g, g[0] = start, \A n \in 1..L : g[n - 1] \in S => g[n] = F[g[n - 1]]
      PROVE  g[L] \in S /\ F[g[L]] = g[L]
  <2> DEFINE Nearer(n) == g[n] \in S /\ (F[g[n]] = g[n] \/ M[g[n]] + n <= L)
             bad == {n \in 0..L : ~Nearer(n)}
  <2>1. Nearer(0)
    BY <1>2
  <2>2. ASSUME NEW n \in 1..L, Nearer(n - 1)
        PROVE  Nearer(n)
    <3> DEFINE s == g[n - 1]
    <3>1. s \in S /\ g[n] = F[s] /\ (F[s] = s \/ M[s] + (n - 1) <= L)
      BY <1>2, <2>2
    <3> HIDE DEF s
    <3>2. F[s] \in S /\ M[s] \in Nat /\ M[F[s]] \in Nat /\ (F[s] = s \/ M[F[s]] < M[s])
      BY <3>1
    <3>3. CASE F[s] = s
      BY <3>1, <3>3
    <3>4. CASE F[s] # s
      <4>1. M[F[s]] + n <= L
        BY <3>1, <3>2, <3>4
      <4>2. QED
        BY <3>1, <3>2, <4>1
    <3>5. QED
      BY <3>3, <3>4
  <2>3. Nearer(L)
    <3> SUFFICES ASSUME bad # {}
                 PROVE  FALSE
      OBVIOUS
    <3> HIDE DEF Nearer
    <3>1. bad \in SUBSET Nat
      OBVIOUS
    <3>2. PICK n \in bad : \A k \in bad : n <= k
      <4> HIDE DEF bad
      <4>1. QED
        BY <3>1, LeastNumber
    <3>3. n \in 1..L /\ n - 1 \in 0..L /\ ~(n <= n - 1) /\ ~Nearer(n)
      BY <2>1, <3>2
    <3>4. Nearer(n - 1)
      BY <3>2, <3>3
    <3>5. QED
      BY <2>2, <3>3, <3>4
  <2>4. M[g[L]] \in Nat /\ M[F[g[L]]] \in Nat
    BY <2>3
  <2>5. QED
    BY <2>3, <2>4
<1>3. QED
  BY <1>1, <1>2 DEF Settling


\* What holds of an item on its way up.
UpInv(T, L, s) ==
  /\ s.heap \in Seq(T) /\ Len(s.heap) = L /\ s.at \in 1..L
  /\ \A j \in 2..L : j # s.at => ~Worse(s.heap[j], s.heap[j \div 2])
  /\ s.at # 1 => \A j \in 2..L : j \div 2 = s.at => ~Worse(s.heap[j], s.heap[s.at \div 2])
UpDone(s) == s.at = 1 \/ ~Worse(s.heap[s.at], s.heap[s.at \div 2])

LEMMA GoUpFacts ==
  ASSUME NEW T, HasRanks(T), NEW L \in Nat, NEW s, s \in [heap : Seq(T), at : 1..L], UpInv(T, L, s)
  PROVE  /\ UpInv(T, L, GoUp(s)) /\ Shuffled(GoUp(s).heap, s.heap)
         /\ GoUp(s) \in [heap : Seq(T), at : 1..L]
         /\ UpDone(s) => GoUp(s) = s
         /\ ~UpDone(s) => GoUp(s).at < s.at
<1>1. CASE UpDone(s)
  <2>1. GoUp(s) = s
    BY <1>1 DEF UpDone, GoUp
  <2>2. QED
    BY <1>1, <2>1, ShuffledItself
<1>2. CASE ~UpDone(s)
  <2> DEFINE h == s.heap
             a == s.at
             p == a \div 2
             g == Exchange(h, a, p)
  <2>1. h \in Seq(T) /\ Len(h) = L /\ a \in 1..L /\ a # 1 /\ Worse(h[a], h[p])
    BY <1>2 DEF UpDone, UpInv
  <2>2. GoUp(s) = [heap |-> g, at |-> p]
    BY <1>2 DEF GoUp, UpDone
  <2>3. p \in 1..L /\ p < a /\ a >= 2 /\ p # a
    BY <2>1, Halves
  <2>4. /\ g \in Seq(T) /\ Shuffled(g, h) /\ g[a] = h[p] /\ g[p] = h[a]
        /\ \A k \in 1..L : k # a /\ k # p => g[k] = h[k]
    <3>1. g = Exchange(h, a, p)
      OBVIOUS
    <3> HIDE DEF g, p, a, h
    <3>2. a \in 1..Len(h) /\ p \in 1..Len(h)
      BY <2>1, <2>3
    <3>3. /\ Exchange(h, a, p) \in Seq(T)
          /\ Exchange(h, a, p)[a] = h[p] /\ Exchange(h, a, p)[p] = h[a]
          /\ \A k \in 1..Len(h) : k # a /\ k # p => Exchange(h, a, p)[k] = h[k]
          /\ Shuffled(Exchange(h, a, p), h)
      BY <2>1, <3>2, ExchangeFacts
    <3>4. QED
      BY <2>1, <3>1, <3>3
  <2>5. Len(g) = L
    BY <2>1, <2>4 DEF Shuffled
  <2>6. \A k \in 1..L : h[k].rank \in Int
    BY <2>1 DEF HasRanks
  <2>7. \A j \in 2..L : j # a => ~Worse(h[j], h[j \div 2])
    BY DEF UpInv
  <2>8. \A j \in 2..L : j \div 2 = a => ~Worse(h[j], h[p])
    BY <2>1 DEF UpInv
  <2>9. \A j \in 2..L : j \in 1..L /\ j \div 2 \in 1..L /\ j \div 2 < j
    BY Halves
  <2>10. h[a].rank \in Int /\ h[p].rank \in Int /\ h[a].rank > h[p].rank
    BY <2>1, <2>3, <2>6 DEF Worse
  <2> HIDE DEF g, p, a, h
  <2>11. ASSUME NEW j \in 2..L, j # p
         PROVE  ~Worse(g[j], g[j \div 2])
    <3>1. j \in 1..L /\ j \div 2 \in 1..L /\ j \div 2 < j /\ h[j].rank \in Int /\ h[j \div 2].rank \in Int
      BY <2>6, <2>9
    <3>2. CASE j = a
      BY <2>4, <2>10, <3>2 DEF Worse, p
    <3>3. CASE j # a /\ j \div 2 = a
      BY <2>4, <2>8, <2>11, <3>1, <3>3
    <3>4. CASE j # a /\ j \div 2 = p
      <4>1. g[j] = h[j] /\ g[j \div 2] = h[a]
        BY <2>4, <2>11, <3>1, <3>4
      <4>2. ~Worse(h[j], h[p])
        BY <2>7, <3>4
      <4>3. QED
        BY <2>10, <3>1, <4>1, <4>2 DEF Worse
    <3>5. CASE j # a /\ j \div 2 # a /\ j \div 2 # p
      BY <2>4, <2>7, <2>11, <3>1, <3>5
    <3>6. QED
      BY <3>2, <3>3, <3>4, <3>5
  <2>12. ASSUME p # 1, NEW j \in 2..L, j \div 2 = p
         PROVE  ~Worse(g[j], g[p \div 2])
    <3>1. j \in 1..L /\ h[j].rank \in Int /\ j # p
      BY <2>3, <2>6, <2>9, <2>12
    <3>2. p \in 2..L /\ p \div 2 \in 1..L /\ p \div 2 < p /\ p \div 2 # p /\ p \div 2 # a
      BY <2>3, <2>12, Halves
    <3>3. g[p \div 2] = h[p \div 2] /\ h[p \div 2].rank \in Int
      BY <2>4, <2>6, <3>2
    <3>4. ~Worse(h[p], h[p \div 2])
      BY <2>3, <2>7, <3>2
    <3>5. CASE j = a
      BY <2>4, <3>3, <3>4, <3>5
    <3>6. CASE j # a
      <4>1. g[j] = h[j] /\ ~Worse(h[j], h[p])
        BY <2>4, <2>7, <2>12, <3>1, <3>6
      <4>2. QED
        BY <2>10, <3>1, <3>3, <3>4, <4>1 DEF Worse
    <3>7. QED
      BY <3>5, <3>6
  <2>13. UpInv(T, L, [heap |-> g, at |-> p])
    BY <2>3, <2>4, <2>5, <2>11, <2>12 DEF UpInv
  <2>14. QED
    BY <1>2, <2>2, <2>3, <2>4, <2>13 DEF h, a
<1>3. QED
  BY <1>1, <1>2

LEMMA BubbleUpFacts ==
  ASSUME NEW T, HasRanks(T), NEW h \in Seq(T), NEW i \in 1..Len(h),
         UpInv(T, Len(h), [heap |-> h, at |-> i])
  PROVE  BubbleUp(h, i) \in Seq(T) /\ IsHeap(BubbleUp(h, i)) /\ Shuffled(BubbleUp(h, i), h)
<1> DEFINE L == Len(h)
           start == [heap |-> h, at |-> i]
           S == {s \in [heap : Seq(T), at : 1..L] : UpInv(T, L, s) /\ Shuffled(s.heap, h)}
           F == [s \in S |-> GoUp(s)]
           M == [s \in S |-> s.at]
           body(g) == [n \in 0..L |-> IF n = 0 THEN start ELSE GoUp(g[n - 1])]
           gone == CHOOSE g : g = body(g)
<1>1. L \in Nat
  OBVIOUS
<1>2. start \in S /\ M[start] <= L
  BY ShuffledItself
<1>3. ASSUME NEW s \in S
      PROVE  /\ GoUp(s) \in S
             /\ GoUp(s) = s \/ GoUp(s).at < s.at
             /\ UpDone(s) \/ GoUp(s) # s
  <2>1. UpInv(T, L, s) /\ Shuffled(s.heap, h) /\ s \in [heap : Seq(T), at : 1..L]
    OBVIOUS
  <2> HIDE DEF S, L
  <2>2. /\ UpInv(T, L, GoUp(s)) /\ Shuffled(GoUp(s).heap, s.heap)
        /\ GoUp(s) \in [heap : Seq(T), at : 1..L]
        /\ UpDone(s) => GoUp(s) = s
        /\ ~UpDone(s) => GoUp(s).at < s.at
    BY <1>1, <2>1, GoUpFacts
  <2>3. Shuffled(GoUp(s).heap, h)
    BY <2>1, <2>2, ShuffledTwice
  <2>4. s.at \in 1..L /\ GoUp(s).at \in 1..L
    BY <2>1, <2>2
  <2>5. UpDone(s) \/ GoUp(s) # s
    BY <1>1, <2>2, <2>4
  <2>6. QED
    BY <2>2, <2>3, <2>5 DEF S
<1>4. F \in [S -> S] /\ M \in [S -> Nat]
  <2>1. \A s \in S : GoUp(s) \in S
    BY <1>3
  <2>2. \A s \in S : s.at \in Nat
    OBVIOUS
  <2> HIDE DEF S
  <2>3. QED
    BY <2>1, <2>2
<1>5. ASSUME NEW s \in S
      PROVE  F[s] = s \/ M[F[s]] < M[s]
  <2>1. GoUp(s) \in S /\ (GoUp(s) = s \/ GoUp(s).at < s.at)
    BY <1>3
  <2>2. s.at \in 1..L /\ GoUp(s).at \in 1..L
    BY <2>1
  <2> HIDE DEF S
  <2>3. QED
    BY <1>1, <2>1, <2>2
<1>6. \A s \in S : F[s] = GoUp(s)
  OBVIOUS
<1> HIDE DEF S, F, M
<1>7. Settling(S, F, start, L)
  <2>1. Nearing(S, F, M, start, L)
    BY <1>1, <1>2, <1>4, <1>5 DEF Nearing
  <2>2. QED
    BY <2>1, WalksSettle
<1>8. gone = body(gone)
  <2>1. PICK g \in [0..L -> S] : g[0] = start /\ \A n \in 1..L : g[n] = F[g[n - 1]]
    BY <1>7 DEF Settling
  <2>2. \A n \in 0..L : n # 0 => n \in 1..L /\ n - 1 \in 0..L
    BY <1>1
  <2>3. ASSUME NEW n \in 0..L
        PROVE  g[n] = IF n = 0 THEN start ELSE GoUp(g[n - 1])
    BY <1>6, <2>1, <2>2
  <2>4. g = body(g)
    BY <2>1, <2>3
  <2> HIDE DEF body
  <2>5. QED
    BY <2>4
<1>9. BubbleUp(h, i) = gone[L].heap
  BY DEF BubbleUp
<1> HIDE DEF gone
<1>10. gone[0] = start /\ \A n \in 1..L : gone[n] = GoUp(gone[n - 1])
  <2> HIDE DEF start
  <2>1. body(gone)[0] = start /\ \A n \in 1..L : body(gone)[n] = GoUp(gone[n - 1])
    BY <1>1
  <2>2. QED
    BY <1>8, <2>1
<1>11. gone[L] \in S /\ F[gone[L]] = gone[L]
  BY <1>6, <1>7, <1>10 DEF Settling
<1>12. UpDone(gone[L])
  BY <1>3, <1>6, <1>11
<1>13. UpInv(T, L, gone[L]) /\ Shuffled(gone[L].heap, h) /\ gone[L].heap \in Seq(T)
  BY <1>11 DEF S
<1>14. IsHeap(gone[L].heap)
  BY <1>12, <1>13 DEF UpInv, UpDone, IsHeap
<1>15. QED
  BY <1>9, <1>13, <1>14

-----------------------------------------------------------------------------
(* An item that sinks *)

\* What holds of an item on its way down.
DownInv(T, L, s) ==
  /\ s.heap \in Seq(T) /\ Len(s.heap) = L /\ s.at \in 1..L
  /\ \A j \in 2..L : j \div 2 # s.at => ~Worse(s.heap[j], s.heap[j \div 2])
  /\ s.at # 1 => \A j \in 2..L : j \div 2 = s.at => ~Worse(s.heap[j], s.heap[s.at \div 2])
DownDone(s) == \A j \in 2..Len(s.heap) : j \div 2 = s.at => ~Worse(s.heap[j], s.heap[s.at])

\* The place found is that of the item or of one of its children, and no child is
\* worse than what is there.
LEMMA WorstHereFacts ==
  ASSUME NEW T, HasRanks(T), NEW h \in Seq(T), NEW i \in 1..Len(h)
  PROVE  /\ WorstHere(h, i) \in 1..Len(h)
         /\ WorstHere(h, i) = i \/ (WorstHere(h, i) \div 2 = i /\ Worse(h[WorstHere(h, i)], h[i]))
         /\ \A j \in 2..Len(h) : j \div 2 = i => ~Worse(h[j], h[WorstHere(h, i)])
<1> DEFINE l == 2 * i
           w == IF l <= Len(h) /\ Worse(h[l], h[i]) THEN l ELSE i
           v == IF l + 1 <= Len(h) /\ Worse(h[l + 1], h[w]) THEN l + 1 ELSE w
<1>1. \A k \in 1..Len(h) : h[k].rank \in Int
  BY DEF HasRanks
<1>2. l \in Nat /\ l > i /\ l \div 2 = i /\ (l + 1) \div 2 = i /\ l >= 2
  BY Halves
<1>3. \A j \in 2..Len(h) : j \div 2 = i => j = l \/ j = l + 1
  BY Halves
<1>4. WorstHere(h, i) = v
  BY DEF WorstHere
<1>5. l <= Len(h) => l \in 1..Len(h)
  BY <1>2
<1>6. l + 1 <= Len(h) => l \in 1..Len(h) /\ l + 1 \in 1..Len(h)
  BY <1>2
<1> HIDE DEF l
<1>7. /\ w \in 1..Len(h) /\ (w = i \/ (w = l /\ Worse(h[w], h[i])))
      /\ l <= Len(h) => ~Worse(h[l], h[w])
      /\ ~Worse(h[i], h[w])
  BY <1>1, <1>5 DEF Worse
<1> HIDE DEF w
<1>8. /\ v \in 1..Len(h) /\ (v = w \/ (v = l + 1 /\ Worse(h[v], h[w])))
      /\ l + 1 <= Len(h) => ~Worse(h[l + 1], h[v])
      /\ ~Worse(h[w], h[v])
  BY <1>1, <1>6, <1>7 DEF Worse
<1> HIDE DEF v
<1>9. v = i \/ (v \div 2 = i /\ Worse(h[v], h[i]))
  <2>1. CASE v = w
    BY <1>2, <1>7, <2>1
  <2>2. CASE v # w
    <3>1. v = l + 1 /\ Worse(h[v], h[w]) /\ ~Worse(h[i], h[w])
      BY <1>7, <1>8, <2>2
    <3>2. h[v].rank \in Int /\ h[w].rank \in Int /\ h[i].rank \in Int
      BY <1>1, <1>7, <1>8
    <3>3. Worse(h[v], h[i])
      BY <3>1, <3>2 DEF Worse
    <3>4. QED
      BY <1>2, <3>1, <3>3
  <2>3. QED
    BY <2>1, <2>2
<1>10. l <= Len(h) => ~Worse(h[l], h[v])
  BY <1>1, <1>5, <1>7, <1>8 DEF Worse
<1>11. ASSUME NEW j \in 2..Len(h), j \div 2 = i
       PROVE  ~Worse(h[j], h[v])
  BY <1>3, <1>8, <1>10, <1>11
<1>12. QED
  BY <1>4, <1>8, <1>9, <1>11

LEMMA GoDownFacts ==
  ASSUME NEW T, HasRanks(T), NEW L \in Nat, NEW s, s \in [heap : Seq(T), at : 1..L], DownInv(T, L, s)
  PROVE  /\ DownInv(T, L, GoDown(s)) /\ Shuffled(GoDown(s).heap, s.heap)
         /\ GoDown(s) \in [heap : Seq(T), at : 1..L]
         /\ DownDone(s) => GoDown(s) = s
         /\ ~DownDone(s) => GoDown(s).at > s.at
<1> DEFINE h == s.heap
           a == s.at
           w == WorstHere(h, a)
           g == Exchange(h, a, w)
<1>1. h \in Seq(T) /\ Len(h) = L /\ a \in 1..L
  BY DEF DownInv
<1>2. /\ \A j \in 2..L : j \div 2 # a => ~Worse(h[j], h[j \div 2])
      /\ a # 1 => \A j \in 2..L : j \div 2 = a => ~Worse(h[j], h[a \div 2])
  BY DEF DownInv
<1>3. DownDone(s) <=> \A j \in 2..L : j \div 2 = a => ~Worse(h[j], h[a])
  BY <1>1 DEF DownDone
<1>4. GoDown(s) = IF w = a THEN s ELSE [heap |-> g, at |-> w]
  BY DEF GoDown
<1>5. w = WorstHere(h, a) /\ g = Exchange(h, a, w)
  OBVIOUS
<1>6. s.heap = h /\ s.at = a
  OBVIOUS
<1> HIDE DEF g, w, a, h
<1>7. /\ w \in 1..L /\ (w = a \/ (w \div 2 = a /\ Worse(h[w], h[a])))
      /\ \A j \in 2..L : j \div 2 = a => ~Worse(h[j], h[w])
  <2>1. a \in 1..Len(h)
    BY <1>1
  <2>2. /\ WorstHere(h, a) \in 1..Len(h)
        /\ WorstHere(h, a) = a \/ (WorstHere(h, a) \div 2 = a /\ Worse(h[WorstHere(h, a)], h[a]))
        /\ \A j \in 2..Len(h) : j \div 2 = a => ~Worse(h[j], h[WorstHere(h, a)])
    BY <1>1, <2>1, WorstHereFacts
  <2>3. QED
    BY <1>1, <1>5, <2>2
<1>8. CASE w = a
  <2>1. DownDone(s) /\ GoDown(s) = s
    BY <1>3, <1>4, <1>7, <1>8
  <2>2. QED
    BY <2>1, ShuffledItself
<1>9. CASE w # a
  <2>1. w \div 2 = a /\ Worse(h[w], h[a]) /\ GoDown(s) = [heap |-> g, at |-> w]
    BY <1>4, <1>7, <1>9
  <2>2. w \in 2..L /\ w > a
    <3>1. w \in Nat /\ w >= 1 /\ w \div 2 < w
      BY <1>7, Halves
    <3>2. QED
      BY <1>1, <1>7, <2>1, <3>1
  <2>3. ~DownDone(s)
    BY <1>3, <2>1, <2>2
  <2>4. /\ g \in Seq(T) /\ Shuffled(g, h) /\ g[a] = h[w] /\ g[w] = h[a]
        /\ \A k \in 1..L : k # a /\ k # w => g[k] = h[k]
    <3>1. a \in 1..Len(h) /\ w \in 1..Len(h)
      BY <1>1, <1>7
    <3>2. /\ Exchange(h, a, w) \in Seq(T)
          /\ Exchange(h, a, w)[a] = h[w] /\ Exchange(h, a, w)[w] = h[a]
          /\ \A k \in 1..Len(h) : k # a /\ k # w => Exchange(h, a, w)[k] = h[k]
          /\ Shuffled(Exchange(h, a, w), h)
      BY <1>1, <3>1, ExchangeFacts
    <3>3. QED
      BY <1>1, <1>5, <3>2
  <2>5. Len(g) = L
    BY <1>1, <2>4 DEF Shuffled
  <2>6. \A j \in 2..L : j \in 1..L /\ j \div 2 \in 1..L /\ j \div 2 < j
    BY Halves
  <2>7. h[a].rank \in Int /\ h[w].rank \in Int /\ h[w].rank > h[a].rank
    BY <1>1, <1>7, <2>1 DEF Worse, HasRanks
  <2>8. ASSUME NEW j \in 2..L, j \div 2 # w
        PROVE  ~Worse(g[j], g[j \div 2])
    <3>1. j \in 1..L /\ j \div 2 \in 1..L /\ j \div 2 < j
      BY <2>6
    <3>2. CASE j = w
      BY <2>1, <2>4, <2>7, <3>2, SMTT(30) DEF Worse
    <3>3. CASE j # w /\ j \div 2 = a
      <4>1. j # a
        BY <3>1, <3>3
      <4>2. g[j] = h[j] /\ g[j \div 2] = h[w]
        BY <2>4, <3>1, <3>3, <4>1
      <4>3. QED
        BY <1>7, <3>3, <4>2
    <3>4. CASE j = a
      <4>1. j \div 2 # a /\ a # 1
        BY <3>1, <3>4
      <4>2. g[j] = h[w] /\ g[j \div 2] = h[a \div 2]
        BY <2>4, <2>8, <3>1, <3>4, <4>1
      <4>3. ~Worse(h[w], h[a \div 2])
        BY <1>2, <2>1, <2>2, <4>1
      <4>4. QED
        BY <4>2, <4>3
    <3>5. CASE j # w /\ j # a /\ j \div 2 # a
      BY <1>2, <2>4, <2>8, <3>1, <3>5
    <3>6. QED
      BY <3>2, <3>3, <3>4, <3>5
  <2>9. ASSUME NEW j \in 2..L, j \div 2 = w
        PROVE  ~Worse(g[j], g[w \div 2])
    <3>1. j \in 1..L /\ j > w /\ w # a
      BY <2>2, <2>6, <2>9
    <3>2. j # w /\ j # a
      BY <1>1, <1>7, <2>2, <3>1
    <3>3. g[j] = h[j] /\ g[w \div 2] = h[w] /\ h[j \div 2] = h[w]
      BY <2>1, <2>4, <2>9, <3>1, <3>2
    <3>4. ~Worse(h[j], h[j \div 2])
      BY <1>2, <1>9, <2>9
    <3>5. QED
      BY <3>3, <3>4
  <2>10. DownInv(T, L, [heap |-> g, at |-> w])
    BY <1>7, <2>4, <2>5, <2>8, <2>9 DEF DownInv
  <2>11. QED
    BY <1>6, <1>7, <2>1, <2>2, <2>3, <2>4, <2>10
<1>10. QED
  BY <1>8, <1>9

LEMMA SinkDownFacts ==
  ASSUME NEW T, HasRanks(T), NEW h \in Seq(T), NEW i \in 1..Len(h),
         DownInv(T, Len(h), [heap |-> h, at |-> i])
  PROVE  SinkDown(h, i) \in Seq(T) /\ IsHeap(SinkDown(h, i)) /\ Shuffled(SinkDown(h, i), h)
<1> DEFINE L == Len(h)
           start == [heap |-> h, at |-> i]
           S == {s \in [heap : Seq(T), at : 1..L] : DownInv(T, L, s) /\ Shuffled(s.heap, h)}
           F == [s \in S |-> GoDown(s)]
           M == [s \in S |-> L - s.at]
           body(g) == [n \in 0..L |-> IF n = 0 THEN start ELSE GoDown(g[n - 1])]
           gone == CHOOSE g : g = body(g)
<1>1. L \in Nat
  OBVIOUS
<1>2. start \in S /\ M[start] <= L
  BY ShuffledItself
<1>3. ASSUME NEW s \in S
      PROVE  /\ GoDown(s) \in S
             /\ GoDown(s) = s \/ GoDown(s).at > s.at
             /\ DownDone(s) \/ GoDown(s) # s
  <2>1. DownInv(T, L, s) /\ Shuffled(s.heap, h) /\ s \in [heap : Seq(T), at : 1..L]
    OBVIOUS
  <2> HIDE DEF S, L
  <2>2. /\ DownInv(T, L, GoDown(s)) /\ Shuffled(GoDown(s).heap, s.heap)
        /\ GoDown(s) \in [heap : Seq(T), at : 1..L]
        /\ DownDone(s) => GoDown(s) = s
        /\ ~DownDone(s) => GoDown(s).at > s.at
    BY <1>1, <2>1, GoDownFacts
  <2>3. Shuffled(GoDown(s).heap, h)
    BY <2>1, <2>2, ShuffledTwice
  <2>4. s.at \in 1..L /\ GoDown(s).at \in 1..L
    BY <2>1, <2>2
  <2>5. DownDone(s) \/ GoDown(s) # s
    BY <1>1, <2>2, <2>4
  <2>6. QED
    BY <2>2, <2>3, <2>5 DEF S
<1>4. F \in [S -> S] /\ M \in [S -> Nat]
  <2>1. \A s \in S : GoDown(s) \in S
    BY <1>3
  <2>2. \A s \in S : L - s.at \in Nat
    OBVIOUS
  <2> HIDE DEF S
  <2>3. QED
    BY <2>1, <2>2
<1>5. ASSUME NEW s \in S
      PROVE  F[s] = s \/ M[F[s]] < M[s]
  <2>1. GoDown(s) \in S /\ (GoDown(s) = s \/ GoDown(s).at > s.at)
    BY <1>3
  <2>2. s.at \in 1..L /\ GoDown(s).at \in 1..L
    BY <2>1
  <2> HIDE DEF S
  <2>3. QED
    BY <1>1, <2>1, <2>2
<1>6. \A s \in S : F[s] = GoDown(s)
  OBVIOUS
<1> HIDE DEF S, F, M
<1>7. Settling(S, F, start, L)
  <2>1. Nearing(S, F, M, start, L)
    BY <1>1, <1>2, <1>4, <1>5 DEF Nearing
  <2>2. QED
    BY <2>1, WalksSettle
<1>8. gone = body(gone)
  <2>1. PICK g \in [0..L -> S] : g[0] = start /\ \A n \in 1..L : g[n] = F[g[n - 1]]
    BY <1>7 DEF Settling
  <2>2. \A n \in 0..L : n # 0 => n \in 1..L /\ n - 1 \in 0..L
    BY <1>1
  <2>3. ASSUME NEW n \in 0..L
        PROVE  g[n] = IF n = 0 THEN start ELSE GoDown(g[n - 1])
    BY <1>6, <2>1, <2>2
  <2>4. g = body(g)
    BY <2>1, <2>3
  <2> HIDE DEF body
  <2>5. QED
    BY <2>4
<1>9. SinkDown(h, i) = gone[L].heap
  BY DEF SinkDown
<1> HIDE DEF gone
<1>10. gone[0] = start /\ \A n \in 1..L : gone[n] = GoDown(gone[n - 1])
  <2> HIDE DEF start
  <2>1. body(gone)[0] = start /\ \A n \in 1..L : body(gone)[n] = GoDown(gone[n - 1])
    BY <1>1
  <2>2. QED
    BY <1>8, <2>1
<1>11. gone[L] \in S /\ F[gone[L]] = gone[L]
  BY <1>6, <1>7, <1>10 DEF Settling
<1>12. DownDone(gone[L])
  BY <1>3, <1>6, <1>11
<1>13. DownInv(T, L, gone[L]) /\ Shuffled(gone[L].heap, h) /\ gone[L].heap \in Seq(T)
  BY <1>11 DEF S
<1>14. IsHeap(gone[L].heap)
  BY <1>12, <1>13 DEF DownInv, DownDone, IsHeap
<1>15. QED
  BY <1>9, <1>13, <1>14

-----------------------------------------------------------------------------
(* A heap of the best *)

LEMMA ItemFacts ==
  ASSUME NEW T, NEW h \in Seq(T)
  PROVE  /\ Items(h) \subseteq T
         /\ \A i \in 1..Len(h) : h[i] \in Items(h)
         /\ \A x \in Items(h) : \E i \in 1..Len(h) : h[i] = x
         /\ \A x : Items(Append(h, x)) = Items(h) \union {x}
<1>1. \A i \in 1..Len(h) : h[i] \in Items(h) /\ h[i] \in T
  BY DEF Items
<1>2. \A x \in Items(h) : \E i \in 1..Len(h) : h[i] = x
  BY DEF Items
<1>3. ASSUME NEW x
      PROVE  Items(Append(h, x)) = Items(h) \union {x}
  <2> DEFINE g == Append(h, x)
  <2>1. /\ DOMAIN g = 1..Len(h) + 1 /\ g[Len(h) + 1] = x
        /\ \A i \in 1..Len(h) : g[i] = h[i]
    OBVIOUS
  <2> HIDE DEF g
  <2>2. ASSUME NEW y \in Items(g) PROVE y \in Items(h) \union {x}
    <3>1. PICK i \in 1..Len(h) + 1 : y = g[i]
      BY <2>1 DEF Items
    <3>2. i = Len(h) + 1 \/ i \in 1..Len(h)
      OBVIOUS
    <3>3. QED
      BY <1>1, <2>1, <3>1, <3>2
  <2>3. ASSUME NEW y \in Items(h) PROVE y \in Items(g)
    <3>1. PICK i \in 1..Len(h) : h[i] = y
      BY <1>2
    <3>2. i \in 1..Len(h) + 1 /\ g[i] = y
      BY <2>1, <3>1
    <3>3. QED
      BY <2>1, <3>2 DEF Items
  <2>4. x \in Items(g)
    <3>1. Len(h) + 1 \in 1..Len(h) + 1
      OBVIOUS
    <3>2. QED
      BY <2>1, <3>1 DEF Items
  <2>5. QED
    BY <2>2, <2>3, <2>4 DEF g
<1>4. QED
  BY <1>1, <1>2, <1>3

\* What a heap has lost and gained when an item was offered.
LEMMA PushTopFacts ==
  ASSUME NEW T, HasRanks(T), NEW h \in Seq(T), IsHeap(h), NoTwice(h),
         NEW k \in Nat, Len(h) <= k, NEW x \in T, x \notin Items(h)
  PROVE  /\ PushTop(h, x, k) \in Seq(T) /\ IsHeap(PushTop(h, x, k)) /\ NoTwice(PushTop(h, x, k))
         /\ Len(h) < k => /\ Len(PushTop(h, x, k)) = Len(h) + 1
                          /\ Items(PushTop(h, x, k)) = Items(h) \union {x}
         /\ Len(h) = k /\ k # 0 /\ Worse(h[1], x) =>
              /\ Len(PushTop(h, x, k)) = Len(h)
              /\ Items(PushTop(h, x, k)) = (Items(h) \ {h[1]}) \union {x}
         /\ Len(h) = k /\ (k = 0 \/ ~Worse(h[1], x)) => PushTop(h, x, k) = h
<1>1. CASE Len(h) < k
  <2> DEFINE g == Append(h, x)
             L == Len(h) + 1
  <2>1. g \in Seq(T) /\ Len(g) = L /\ L \in 1..Len(g) /\ g[L] = x /\ \A i \in 1..Len(h) : g[i] = h[i]
    OBVIOUS
  <2>2. Items(g) = Items(h) \union {x}
    BY ItemFacts
  <2>3. PushTop(h, x, k) = BubbleUp(g, L)
    BY <1>1 DEF PushTop
  <2>4. \A j \in 2..L : /\ j \div 2 \in 1..Len(h) /\ j \div 2 # L
                        /\ j # L => j \in 2..Len(h)
    BY Halves
  <2>5. DOMAIN g = 1..L /\ \A i \in 1..L : i # L => i \in 1..Len(h)
    BY <2>1
  <2> HIDE DEF g, L
  <2>6. ASSUME NEW j \in 2..L, j # L
        PROVE  ~Worse(g[j], g[j \div 2])
    <3>1. j \in 2..Len(h) /\ j \in 1..Len(h) /\ j \div 2 \in 1..Len(h)
      BY <2>4, <2>6
    <3>2. g[j] = h[j] /\ g[j \div 2] = h[j \div 2]
      BY <2>1, <3>1
    <3>3. QED
      BY <3>1, <3>2 DEF IsHeap
  <2>7. UpInv(T, Len(g), [heap |-> g, at |-> L])
    BY <2>1, <2>4, <2>6 DEF UpInv
  <2>8. BubbleUp(g, L) \in Seq(T) /\ IsHeap(BubbleUp(g, L)) /\ Shuffled(BubbleUp(g, L), g)
    BY <2>1, <2>7, BubbleUpFacts
  <2>9. NoTwice(g)
    <3>1. \A i \in 1..Len(h) : h[i] # x
      BY ItemFacts
    <3>2. ASSUME NEW i \in 1..L, NEW j \in 1..L, g[i] = g[j]
          PROVE  i = j
      <4>1. CASE i # L /\ j # L
        <5>1. i \in 1..Len(h) /\ j \in 1..Len(h) /\ h[i] = h[j]
          BY <2>1, <2>5, <3>2, <4>1
        <5>2. QED
          BY <5>1 DEF NoTwice
      <4>2. CASE i = L \/ j = L
        BY <2>1, <2>5, <3>1, <3>2, <4>2
      <4>3. QED
        BY <4>1, <4>2
    <3>3. QED
      BY <2>5, <3>2 DEF NoTwice
  <2>10. Len(BubbleUp(g, L)) = L /\ Items(BubbleUp(g, L)) = Items(h) \union {x} /\ NoTwice(BubbleUp(g, L))
    BY <2>1, <2>2, <2>8, <2>9 DEF Shuffled
  <2>11. L = Len(h) + 1
    BY DEF L
  <2>12. QED
    BY <1>1, <2>3, <2>8, <2>10, <2>11
<1>2. CASE Len(h) = k /\ k # 0 /\ Worse(h[1], x)
  <2> DEFINE g == [h EXCEPT ![1] = x]
  <2>1. 1 \in 1..Len(h)
    BY <1>2
  <2>2. /\ g \in Seq(T) /\ Len(g) = Len(h) /\ DOMAIN g = 1..Len(h) /\ g[1] = x
        /\ \A i \in 1..Len(h) : i # 1 => g[i] = h[i]
    BY <2>1
  <2>3. PushTop(h, x, k) = SinkDown(g, 1)
    BY <1>2 DEF PushTop
  <2> HIDE DEF g
  <2>4. ASSUME NEW j \in 2..Len(h), j \div 2 # 1
        PROVE  ~Worse(g[j], g[j \div 2])
    <3>1. j \in 1..Len(h) /\ j # 1 /\ j \div 2 \in 1..Len(h)
      BY Halves
    <3>2. g[j] = h[j] /\ g[j \div 2] = h[j \div 2]
      BY <2>2, <2>4, <3>1
    <3>3. QED
      BY <3>2 DEF IsHeap
  <2>5. DownInv(T, Len(g), [heap |-> g, at |-> 1])
    BY <2>1, <2>2, <2>4 DEF DownInv
  <2>6. SinkDown(g, 1) \in Seq(T) /\ IsHeap(SinkDown(g, 1)) /\ Shuffled(SinkDown(g, 1), g)
    BY <2>1, <2>2, <2>5, SinkDownFacts
  <2>7. \A i \in 1..Len(h) : h[i] # x
    BY ItemFacts
  <2>8. \A i, j \in 1..Len(h) : h[i] = h[j] => i = j
    BY DEF NoTwice
  <2>9. NoTwice(g)
    <3>1. ASSUME NEW i \in 1..Len(h), NEW j \in 1..Len(h), g[i] = g[j]
          PROVE  i = j
      BY <2>2, <2>7, <2>8, <3>1
    <3>2. QED
      BY <2>2, <3>1 DEF NoTwice
  <2>10. Items(g) = (Items(h) \ {h[1]}) \union {x}
    <3>1. ASSUME NEW y \in Items(g) PROVE y \in (Items(h) \ {h[1]}) \union {x}
      <4>1. PICK i \in 1..Len(h) : y = g[i]
        BY <2>2 DEF Items
      <4>2. CASE i = 1
        BY <2>2, <4>1, <4>2
      <4>3. CASE i # 1
        <5>1. y = h[i] /\ h[i] # h[1] /\ h[i] \in Items(h)
          BY <2>1, <2>2, <2>8, <4>1, <4>3, ItemFacts
        <5>2. QED
          BY <5>1
      <4>4. QED
        BY <4>2, <4>3
    <3>2. ASSUME NEW y \in Items(h), y # h[1] PROVE y \in Items(g)
      <4>1. PICK i \in 1..Len(h) : h[i] = y
        BY ItemFacts
      <4>2. i \in DOMAIN g /\ y = g[i]
        BY <2>2, <3>2, <4>1
      <4>3. QED
        BY <4>2 DEF Items
    <3>3. x \in Items(g)
      BY <2>1, <2>2 DEF Items
    <3>4. QED
      BY <3>1, <3>2, <3>3
  <2>11. /\ Len(SinkDown(g, 1)) = Len(h) /\ NoTwice(SinkDown(g, 1))
         /\ Items(SinkDown(g, 1)) = (Items(h) \ {h[1]}) \union {x}
    BY <2>2, <2>6, <2>9, <2>10 DEF Shuffled
  <2>12. QED
    BY <1>2, <2>3, <2>6, <2>11
<1>3. CASE Len(h) = k /\ (k = 0 \/ ~Worse(h[1], x))
  BY <1>3 DEF PushTop
<1>4. QED
  BY <1>1, <1>2, <1>3

\* The heap h holds the best k of the estimates V, its root the worst of them.
Holds(T, V, h, k) ==
  /\ h \in Seq(T) /\ IsHeap(h) /\ NoTwice(h) /\ Items(h) \subseteq Items(V)
  /\ Len(h) = IF Len(V) < k THEN Len(V) ELSE k
  /\ Len(V) <= k => Items(h) = Items(V)
  /\ \A a \in Items(h), b \in Items(V) : b \in Items(h) \/ Worse(b, a)

\* No two of the estimates have one rank.
Strict(V) == \A a, b \in Items(V) : a.rank = b.rank => a = b

LEMMA PushHolds ==
  ASSUME NEW T, HasRanks(T), NEW V \in Seq(T), Strict(V), NEW k \in Nat, NEW h, Holds(T, V, h, k),
         NEW x \in T, \A y \in Items(V) : y.rank # x.rank
  PROVE  Holds(T, Append(V, x), PushTop(h, x, k), k)
<1> DEFINE W == Append(V, x)
           g == PushTop(h, x, k)
<1>1. /\ h \in Seq(T) /\ IsHeap(h) /\ NoTwice(h) /\ Items(h) \subseteq Items(V)
      /\ Len(h) = IF Len(V) < k THEN Len(V) ELSE k
      /\ Len(V) <= k => Items(h) = Items(V)
      /\ \A a \in Items(h), b \in Items(V) : b \in Items(h) \/ Worse(b, a)
  BY DEF Holds
<1>2. Len(W) = Len(V) + 1 /\ Len(V) \in Nat /\ Items(W) = Items(V) \union {x} /\ W \in Seq(T)
  BY ItemFacts
<1>3. x \notin Items(h) /\ Len(h) <= k
  BY <1>1, <1>2
<1>4. /\ g \in Seq(T) /\ IsHeap(g) /\ NoTwice(g)
      /\ Len(h) < k => Len(g) = Len(h) + 1 /\ Items(g) = Items(h) \union {x}
      /\ Len(h) = k /\ k # 0 /\ Worse(h[1], x) =>
           Len(g) = Len(h) /\ Items(g) = (Items(h) \ {h[1]}) \union {x}
      /\ Len(h) = k /\ (k = 0 \/ ~Worse(h[1], x)) => g = h
  BY <1>1, <1>3, PushTopFacts
<1>5. \A y \in Items(V) : y \in T /\ y.rank \in Int
  BY ItemFacts DEF HasRanks
<1>6. x.rank \in Int
  BY DEF HasRanks
<1> HIDE DEF W, g
<1>7. CASE Len(h) < k
  <2>1. Len(V) < k /\ Len(h) = Len(V) /\ Items(h) = Items(V)
    BY <1>1, <1>2, <1>7
  <2>2. Len(g) = Len(W) /\ Items(g) = Items(W) /\ Len(W) <= k
    BY <1>2, <1>4, <1>7, <2>1
  <2>3. QED
    BY <1>2, <1>4, <2>2 DEF Holds, W, g
<1>8. CASE Len(h) = k /\ k # 0 /\ Worse(h[1], x)
  <2>1. Len(V) >= k /\ Len(W) > k
    BY <1>1, <1>2, <1>8
  <2>2. Len(g) = k /\ Items(g) = (Items(h) \ {h[1]}) \union {x}
    BY <1>4, <1>8
  <2>3. h[1] \in Items(h) /\ h[1] \in Items(V) /\ h[1].rank \in Int
    <3>1. 1 \in 1..Len(h)
      BY <1>8
    <3>2. QED
      BY <1>1, <1>5, <3>1, ItemFacts
  <2>4. ASSUME NEW a \in Items(h), a # h[1] PROVE Worse(h[1], a)
    <3>1. PICK i \in 1..Len(h) : h[i] = a
      BY <1>1, ItemFacts
    <3>2. ~Worse(a, h[1])
      BY <1>1, <3>1, RootIsWorst
    <3>3. a.rank # h[1].rank /\ a.rank \in Int
      BY <1>1, <1>5, <2>3, <2>4 DEF Strict
    <3>4. QED
      BY <2>3, <3>2, <3>3 DEF Worse
  <2>5. ASSUME NEW a \in Items(g), NEW b \in Items(W), b \notin Items(g)
        PROVE  Worse(b, a)
    <3>1. b # x /\ b \in Items(V) /\ (b = h[1] \/ b \notin Items(h))
      BY <1>2, <2>2, <2>5
    <3>2. a = x \/ (a \in Items(h) /\ a # h[1])
      BY <2>2
    <3>3. CASE b = h[1]
      BY <1>8, <2>4, <3>2, <3>3
    <3>4. CASE b \notin Items(h)
      <4>1. Worse(b, h[1])
        BY <1>1, <2>3, <3>1, <3>4
      <4>2. CASE a = x
        BY <1>5, <1>6, <1>8, <2>3, <3>1, <4>1, <4>2 DEF Worse
      <4>3. CASE a # x
        BY <1>1, <3>1, <3>2, <3>4, <4>3
      <4>4. QED
        BY <4>2, <4>3
    <3>5. QED
      BY <3>1, <3>3, <3>4
  <2>6. Items(g) \subseteq Items(W)
    BY <1>1, <1>2, <2>2
  <2>7. ~(Len(W) < k) /\ ~(Len(W) <= k)
    BY <1>2, <2>1
  <2>8. Holds(T, W, g, k)
    BY <1>4, <2>2, <2>5, <2>6, <2>7 DEF Holds
  <2>9. QED
    BY <2>8 DEF W, g
<1>9. CASE Len(h) = k /\ (k = 0 \/ ~Worse(h[1], x))
  <2>1. Len(V) >= k /\ Len(W) > k /\ g = h
    BY <1>1, <1>2, <1>4, <1>9
  <2>2. ~(Len(W) < k) /\ ~(Len(W) <= k) /\ Len(g) = k
    BY <1>2, <1>9, <2>1
  <2>3. ASSUME NEW a \in Items(h) PROVE Worse(x, a)
    <3>1. PICK i \in 1..Len(h) : h[i] = a
      BY <1>1, ItemFacts
    <3>2. k # 0 /\ 1 \in 1..Len(h)
      BY <1>9, <3>1
    <3>3. ~Worse(a, h[1]) /\ ~Worse(h[1], x)
      BY <1>1, <1>9, <3>1, <3>2, RootIsWorst
    <3>4. h[1] \in Items(V) /\ a \in Items(V)
      BY <1>1, <3>2, ItemFacts
    <3>5. a.rank \in Int /\ h[1].rank \in Int /\ h[1].rank # x.rank
      BY <1>5, <3>4
    <3>6. QED
      BY <1>6, <3>3, <3>5 DEF Worse
  <2>4. ASSUME NEW a \in Items(g), NEW b \in Items(W)
        PROVE  b \in Items(g) \/ Worse(b, a)
    BY <1>1, <1>2, <2>1, <2>3
  <2>5. Items(g) \subseteq Items(W)
    BY <1>1, <1>2, <2>1
  <2>6. Holds(T, W, g, k)
    BY <1>4, <2>2, <2>4, <2>5 DEF Holds
  <2>7. QED
    BY <2>6 DEF W, g
<1>10. QED
  BY <1>1, <1>3, <1>7, <1>8, <1>9

LEMMA NothingHolds == ASSUME NEW T, NEW k \in Nat PROVE Holds(T, <<>>, <<>>, k)
BY DEF Holds, IsHeap, NoTwice, Items

-----------------------------------------------------------------------------
(* A reservoir *)

\* A reservoir stays one when an item it has not seen is offered.
LEMMA PushSampleFacts ==
  ASSUME NEW T, NEW s \in Seq(T), NoTwice(s), NEW seen \in Nat, NEW max \in Nat,
         Len(s) = IF seen < max THEN seen ELSE max, NEW x \in T, x \notin Items(s),
         NEW r \in PushSample(s, seen, x, max)
  PROVE  /\ r \in Seq(T) /\ NoTwice(r) /\ Items(r) \subseteq Items(s) \union {x}
         /\ Len(r) = IF seen + 1 < max THEN seen + 1 ELSE max
<1>1. CASE r = s /\ Len(s) = max
  BY <1>1
<1>2. CASE Len(s) < max /\ r = Append(s, x)
  <2>1. Items(r) = Items(s) \union {x}
    BY <1>2, ItemFacts
  <2>2. Len(r) = Len(s) + 1 /\ r \in Seq(T) /\ DOMAIN r = 1..Len(s) + 1
    BY <1>2
  <2>3. \A i \in 1..Len(s) : r[i] = s[i] /\ s[i] # x
    BY <1>2, ItemFacts
  <2>4. r[Len(s) + 1] = x
    BY <1>2
  <2>5. \A i, j \in 1..Len(s) : s[i] = s[j] => i = j
    BY DEF NoTwice
  <2>6. ASSUME NEW i \in 1..Len(s) + 1, NEW j \in 1..Len(s) + 1, r[i] = r[j]
        PROVE  i = j
    <3>1. (i = Len(s) + 1 \/ i \in 1..Len(s)) /\ (j = Len(s) + 1 \/ j \in 1..Len(s))
      OBVIOUS
    <3>2. QED
      BY <2>3, <2>4, <2>5, <2>6, <3>1
  <2>7. QED
    BY <1>2, <2>1, <2>2, <2>6 DEF NoTwice
<1>3. ASSUME Len(s) = max, NEW j \in 1..Len(s), r = [s EXCEPT ![j] = x]
      PROVE  r \in Seq(T) /\ NoTwice(r) /\ Items(r) \subseteq Items(s) \union {x} /\ Len(r) = max
  <2>1. r \in Seq(T) /\ Len(r) = max /\ DOMAIN r = 1..Len(s)
    BY <1>3
  <2>2. r[j] = x /\ \A i \in 1..Len(s) : i # j => r[i] = s[i]
    BY <1>3
  <2>3. \A i \in 1..Len(s) : s[i] \in Items(s) /\ s[i] # x
    BY ItemFacts
  <2>4. \A i, k \in 1..Len(s) : s[i] = s[k] => i = k
    BY DEF NoTwice
  <2>5. \A i, k \in 1..Len(s) : r[i] = r[k] => i = k
    BY <2>2, <2>3, <2>4
  <2>6. \A i \in 1..Len(s) : r[i] \in Items(s) \union {x}
    BY <2>2, <2>3
  <2>7. Items(r) \subseteq Items(s) \union {x}
    <3>1. ASSUME NEW y \in Items(r) PROVE y \in Items(s) \union {x}
      <4>1. PICK i \in 1..Len(s) : y = r[i]
        BY <2>1 DEF Items
      <4>2. QED
        BY <2>6, <4>1
    <3>2. QED
      BY <3>1
  <2>8. QED
    BY <2>1, <2>5, <2>7 DEF NoTwice
<1>4. \/ r = s /\ Len(s) = max
      \/ Len(s) < max /\ r = Append(s, x)
      \/ Len(s) = max /\ \E j \in 1..Len(s) : r = [s EXCEPT ![j] = x]
  <2>1. CASE max = 0
    BY <2>1 DEF PushSample
  <2>2. CASE max # 0 /\ Len(s) < max
    BY <2>2 DEF PushSample
  <2>3. CASE max # 0 /\ Len(s) = max
    <3>1. PICK j \in 0..seen + 1 : r = IF j < max THEN [s EXCEPT ![j + 1] = x] ELSE s
      BY <2>3 DEF PushSample
    <3>2. j < max => j + 1 \in 1..Len(s)
      BY <2>3
    <3>3. QED
      BY <2>3, <3>1, <3>2
  <2>4. QED
    BY <2>1, <2>2, <2>3
<1>5. Len(s) = max => ~(seen < max) /\ ~(seen + 1 < max)
  OBVIOUS
<1>6. QED
  BY <1>1, <1>2, <1>3, <1>4, <1>5

-----------------------------------------------------------------------------
(* Folds over sequences *)

\* The function a fold over sets of places is defined by.
FoldsTo(it, F, base, s, n) ==
  it = [T \in SUBSET (1..n) |-> IF T = {} THEN base ELSE F[<<it[T \ {Max(T)}], s[Max(T)]>>]]

LEMMA MaxPlace ==
  ASSUME NEW n \in Nat, NEW T \in SUBSET (1..n), T # {}
  PROVE  Max(T) \in T /\ (\A x \in T : x <= Max(T)) /\ (n \in T => Max(T) = n)
<1>1. T \in SUBSET (0..n)
  OBVIOUS
<1>2. PICK x \in T : \A y \in T : y <= x
  BY <1>1, GreatestNumber
<1>3. \A y \in T : x >= y
  BY <1>1, <1>2
<1>4. Max(T) \in T /\ \A y \in T : Max(T) >= y
  BY <1>3 DEF Max
<1>5. \A y \in T : y <= Max(T)
  BY <1>1, <1>4
<1>6. n \in T => Max(T) = n
  <2> DEFINE m == Max(T)
  <2>0. \A z \in T : z \in Nat /\ z <= n
    OBVIOUS
  <2>1. m \in Nat /\ m <= n
    BY <1>4, <2>0
  <2>2. n \in T => n <= m
    BY <1>5
  <2> HIDE DEF m
  <2>3. n \in T => m = n
    BY <2>1, <2>2
  <2>4. QED
    BY <2>3 DEF m
<1>7. QED
  BY <1>4, <1>5, <1>6

LEMMA FoldsExist ==
  ASSUME NEW A, NEW B, NEW F \in [A \X B -> A], NEW base \in A, NEW s \in Seq(B)
  PROVE  \A n \in 0..Len(s) : \E it \in [SUBSET (1..n) -> A] : FoldsTo(it, F, base, s, n)
<1> DEFINE L == Len(s)
           Good(n) == \E it \in [SUBSET (1..n) -> A] : FoldsTo(it, F, base, s, n)
           Bad == {n \in 0..L : ~Good(n)}
<1>1. L \in Nat /\ \A i \in 1..L : s[i] \in B
  OBVIOUS
<1>2. ASSUME Bad # {}
      PROVE  FALSE
  <2>1. Bad \in SUBSET Nat
    BY <1>1
  <2>2. PICK n \in Bad : \A m \in Bad : n <= m
    BY <1>2, <2>1, LeastNumber
  <2>3. n # 0
    <3> DEFINE it == [T \in SUBSET (1..0) |-> base]
    <3>1. 1..0 = {} /\ SUBSET {} = {{}}
      OBVIOUS
    <3>2. it \in [SUBSET (1..0) -> A]
      OBVIOUS
    <3>3. FoldsTo(it, F, base, s, 0)
      BY <3>1 DEF FoldsTo
    <3>4. Good(0)
      BY <3>2, <3>3
    <3>5. QED
      BY <2>2, <3>4
  <2>4. n - 1 \in 0..L /\ n \in 1..L /\ n - 1 \notin Bad
    <3>1. n \in 0..L
      OBVIOUS
    <3>2. n - 1 \in 0..L /\ n \in 1..L /\ ~(n <= n - 1)
      BY <1>1, <2>3, <3>1
    <3>3. QED
      BY <2>2, <3>2
  <2>5. PICK h \in [SUBSET (1..(n - 1)) -> A] : FoldsTo(h, F, base, s, n - 1)
    BY <2>4
  <2> DEFINE it == [T \in SUBSET (1..n) |-> IF n \in T THEN F[<<h[T \ {n}], s[n]>>] ELSE h[T]]
  <2>6. \A T \in SUBSET (1..n) : /\ T \ {n} \in SUBSET (1..(n - 1))
                                 /\ n \notin T => T \in SUBSET (1..(n - 1))
    BY <2>4
  <2>7. it \in [SUBSET (1..n) -> A]
    <3>1. \A T \in SUBSET (1..n) : n \in T => F[<<h[T \ {n}], s[n]>>] \in A
      BY <1>1, <2>4, <2>5, <2>6
    <3>2. \A T \in SUBSET (1..n) : n \notin T => h[T] \in A
      BY <2>5, <2>6
    <3>3. QED
      BY <3>1, <3>2
  <2>8. ASSUME NEW T \in SUBSET (1..n)
        PROVE  it[T] = IF T = {} THEN base ELSE F[<<it[T \ {Max(T)}], s[Max(T)]>>]
    <3>1. CASE T = {}
      <4>1. T \in SUBSET (1..(n - 1)) /\ n \notin T
        BY <3>1
      <4>2. h[T] = base
        BY <2>5, <3>1, <4>1 DEF FoldsTo
      <4>3. QED
        BY <3>1, <4>1, <4>2
    <3>2. CASE n \in T
      <4>1. Max(T) = n
        BY <2>4, <3>2, MaxPlace
      <4>2. T \ {n} \in SUBSET (1..n) /\ n \notin T \ {n} /\ T # {}
        BY <3>2
      <4>3. it[T \ {n}] = h[T \ {n}]
        BY <4>2
      <4>4. it[T] = F[<<h[T \ {n}], s[n]>>]
        BY <3>2
      <4>5. QED
        BY <4>1, <4>2, <4>3, <4>4
    <3>3. CASE n \notin T /\ T # {}
      <4>1. T \in SUBSET (1..(n - 1)) /\ T \ {Max(T)} \in SUBSET (1..n) /\ n \notin T \ {Max(T)}
        BY <2>6, <3>3
      <4>2. it[T] = h[T] /\ it[T \ {Max(T)}] = h[T \ {Max(T)}]
        BY <3>3, <4>1
      <4>3. h[T] = F[<<h[T \ {Max(T)}], s[Max(T)]>>]
        BY <2>5, <3>3, <4>1 DEF FoldsTo
      <4>4. QED
        BY <3>3, <4>2, <4>3
    <3>4. QED
      BY <3>1, <3>2, <3>3
  <2> HIDE DEF it
  <2>9. FoldsTo(it, F, base, s, n)
    BY <2>7, <2>8 DEF FoldsTo
  <2>10. Good(n)
    BY <2>7, <2>9
  <2>11. QED
    BY <2>2, <2>10
<1>3. QED
  BY <1>2

-----------------------------------------------------------------------------
(* Sums over sequences *)

SumEquation(it, W, s) ==
  it = [T \in SUBSET DOMAIN s |-> IF T = {} THEN 0 ELSE it[T \ {Max(T)}] + W[s[Max(T)]]]

LEMMA SumsExist ==
  ASSUME NEW B, NEW W \in [B -> Nat], NEW s \in Seq(B)
  PROVE  \E it : SumEquation(it, W, s)
<1> DEFINE L == Len(s)
           F == [p \in Nat \X B |-> p[1] + W[p[2]]]
<1>1. L \in Nat /\ DOMAIN s = 1..L /\ \A i \in 1..L : s[i] \in B
  OBVIOUS
<1>2. F \in [Nat \X B -> Nat] /\ \A a \in Nat, u \in B : F[<<a, u>>] = a + W[u]
  OBVIOUS
<1> HIDE DEF F
<1>3. PICK h \in [SUBSET (1..L) -> Nat] : FoldsTo(h, F, 0, s, L)
  <2>1. L \in 0..L
    BY <1>1
  <2>2. QED
    BY <1>2, <2>1, FoldsExist
<1>4. h = [T \in SUBSET (1..L) |-> IF T = {} THEN 0 ELSE F[<<h[T \ {Max(T)}], s[Max(T)]>>]]
  BY <1>3 DEF FoldsTo
<1>5. ASSUME NEW T \in SUBSET (1..L), T # {}
      PROVE  F[<<h[T \ {Max(T)}], s[Max(T)]>>] = h[T \ {Max(T)}] + W[s[Max(T)]]
  <2>1. Max(T) \in 1..L
    BY <1>1, <1>5, MaxPlace
  <2>2. h[T \ {Max(T)}] \in Nat /\ s[Max(T)] \in B
    BY <1>1, <1>3, <2>1
  <2>3. QED
    BY <1>2, <2>2
<1>6. h = [T \in SUBSET (1..L) |-> IF T = {} THEN 0 ELSE h[T \ {Max(T)}] + W[s[Max(T)]]]
  BY <1>4, <1>5
<1>7. QED
  BY <1>1, <1>6 DEF SumEquation

\* The sum over one place more is that of the places before and what it adds.
LEMMA SumsRun ==
  ASSUME NEW B, NEW W \in [B -> Nat], NEW s \in Seq(B), NEW it, SumEquation(it, W, s)
  PROVE  /\ it[1..0] = 0
         /\ \A i \in 1..Len(s) : it[1..i] = it[1..(i - 1)] + W[s[i]]
         /\ \A i \in 0..Len(s) : it[1..i] \in Nat
<1> DEFINE L == Len(s)
           g == [i \in 0..L |-> it[1..i]]
           Bad == {i \in 0..L : g[i] \notin Nat}
<1>1. L \in Nat /\ DOMAIN s = 1..L /\ \A i \in 1..L : s[i] \in B
  OBVIOUS
<1>2. it[1..0] = 0
  <2>1. 1..0 = {} /\ {} \in SUBSET DOMAIN s
    BY <1>1
  <2>2. it[{}] = 0
    BY <2>1 DEF SumEquation
  <2>3. QED
    BY <2>1, <2>2
<1>3. ASSUME NEW i \in 1..L
      PROVE  it[1..i] = it[1..(i - 1)] + W[s[i]]
  <2>1. i \in Nat /\ 1 <= i /\ i <= L /\ L \in Nat
    BY <1>1
  <2> HIDE DEF L
  <2>2. i \in 1..i /\ (1..i) \in SUBSET (1..L)
    BY <2>1
  <2>3. Max(1..i) = i
    BY <2>1, <2>2, MaxPlace
  <2>4. (1..i) \ {i} = 1..(i - 1)
    BY <2>1
  <2> DEFINE T == 1..i
  <2>5. T # {} /\ T \in SUBSET DOMAIN s
    BY <1>1, <2>2 DEF L
  <2>6. it[T] = it[T \ {Max(T)}] + W[s[Max(T)]]
    <3> HIDE DEF T
    <3>1. QED
      BY <2>5 DEF SumEquation
  <2>7. QED
    BY <2>3, <2>4, <2>6
<1>4. g[0] = 0 /\ \A i \in 1..L : g[i] = g[i - 1] + W[s[i]]
  <2>1. 0 \in 0..L /\ \A i \in 1..L : i \in 0..L /\ i - 1 \in 0..L
    BY <1>1
  <2>2. QED
    BY <1>2, <1>3, <2>1
<1>5. \A i \in 0..L : g[i] = it[1..i]
  OBVIOUS
<1> HIDE DEF g
<1>6. ASSUME Bad # {}
      PROVE  FALSE
  <2>1. PICK n \in Bad : \A m \in Bad : n <= m
    <3>1. Bad \in SUBSET Nat
      BY <1>1
    <3>2. QED
      BY <1>6, <3>1, LeastNumber
  <2>2. n \in 0..L /\ n # 0
    BY <1>4, <2>1
  <2>3. n \in 1..L /\ n - 1 \in 0..L /\ ~(n <= n - 1)
    BY <1>1, <2>2
  <2>4. g[n - 1] \in Nat /\ W[s[n]] \in Nat
    BY <1>1, <2>1, <2>3
  <2>5. g[n] \in Nat
    BY <1>4, <2>3, <2>4
  <2>6. QED
    BY <2>1, <2>5
<1>7. QED
  BY <1>2, <1>3, <1>5, <1>6

-----------------------------------------------------------------------------
(* Flattened sequences *)

\* A sequence of sequences of some elements is flattened to one of them.
FlatEquation(it, s) ==
  it = [i \in 1..Len(s) |-> IF i = 1 THEN s[i] ELSE it[i - 1] \o s[i]]

LEMMA FlattenFolds ==
  ASSUME NEW s
  PROVE  FlattenSeq(s) = IF Len(s) = 0 THEN s ELSE (CHOOSE it : FlatEquation(it, s))[Len(s)]
BY DEF FlattenSeq, FlatEquation

LEMMA FlattenFacts ==
  ASSUME NEW T, NEW s \in Seq(Seq(T))
  PROVE  FlattenSeq(s) \in Seq(T)
<1> DEFINE L == Len(s)
           F == [p \in Seq(T) \X Seq(T) |-> p[1] \o p[2]]
           it == CHOOSE f : FlatEquation(f, s)
<1>1. L \in Nat /\ \A i \in 1..L : s[i] \in Seq(T)
  OBVIOUS
<1>2. <<>> \in Seq(T) /\ F \in [Seq(T) \X Seq(T) -> Seq(T)]
  OBVIOUS
<1>3. \A a, b \in Seq(T) : F[<<a, b>>] = a \o b
  OBVIOUS
<1>13. \A a, b \in Seq(T) : a \o b \in Seq(T)
  OBVIOUS
<1> HIDE DEF F
<1>4. PICK h \in [SUBSET (1..L) -> Seq(T)] : FoldsTo(h, F, <<>>, s, L)
  <2>1. L \in 0..L
    BY <1>1
  <2>2. QED
    BY <1>2, <2>1, FoldsExist
<1> DEFINE e == [i \in 1..L |-> h[1..i]]
<1>5. ASSUME NEW i \in 1..L
      PROVE  h[1..i] = h[1..(i - 1)] \o s[i]
  <2>1. i \in Nat /\ 1 <= i /\ i <= L /\ L \in Nat
    BY <1>1
  <2> HIDE DEF L
  <2>2. i \in 1..i /\ (1..i) \in SUBSET (1..L)
    BY <2>1
  <2>8. (1..(i - 1)) \in SUBSET (1..L)
    BY <2>1
  <2>3. Max(1..i) = i
    BY <2>1, <2>2, MaxPlace
  <2>4. (1..i) \ {i} = 1..(i - 1)
    BY <2>1
  <2> DEFINE S == 1..i
  <2>5. h[S] = F[<<h[S \ {Max(S)}], s[Max(S)]>>]
    <3>1. S # {} /\ S \in SUBSET (1..L)
      BY <2>2
    <3> HIDE DEF S
    <3>2. QED
      BY <1>4, <3>1 DEF FoldsTo
  <2>6. h[1..(i - 1)] \in Seq(T) /\ s[i] \in Seq(T)
    BY <1>1, <1>4, <2>8
  <2>7. QED
    BY <1>3, <2>3, <2>4, <2>5, <2>6
<1>6. h[1..0] = <<>>
  <2>1. 1..0 = {} /\ {} \in SUBSET (1..L)
    OBVIOUS
  <2>2. h[{}] = <<>>
    BY <1>4, <2>1 DEF FoldsTo
  <2>3. QED
    BY <2>1, <2>2
<1>7. FlatEquation(e, s)
  <2>1. ASSUME NEW i \in 1..L
        PROVE  e[i] = IF i = 1 THEN s[i] ELSE e[i - 1] \o s[i]
    <3>1. CASE i = 1
      <4>1. s[1] \in Seq(T)
        BY <1>1, <3>1
      <4>2. <<>> \o s[1] = s[1]
        BY <4>1
      <4>5. h[1..i] = h[1..(i - 1)] \o s[i]
        BY <1>5
      <4>3. h[1..1] = h[1..(1 - 1)] \o s[1] /\ 1 - 1 = 0
        BY <3>1, <4>5
      <4>4. h[1..1] = h[1..0] \o s[1]
        BY <4>3
      <4>6. QED
        BY <1>6, <3>1, <4>2, <4>4
    <3>2. CASE i # 1
      <4>1. i - 1 \in 1..L
        BY <1>1, <3>2
      <4>2. QED
        BY <1>5, <3>2, <4>1
    <3>3. QED
      BY <3>1, <3>2
  <2>2. e = [i \in 1..L |-> e[i]]
    OBVIOUS
  <2> HIDE DEF e
  <2>3. QED
    BY <2>1, <2>2 DEF FlatEquation
<1>8. FlatEquation(it, s)
  BY <1>7
<1> HIDE DEF it, e
<1> DEFINE Bad == {i \in 1..L : it[i] \notin Seq(T)}
<1>9. ASSUME Bad # {}
      PROVE  FALSE
  <2>1. PICK n \in Bad : \A m \in Bad : n <= m
    <3>1. Bad \in SUBSET Nat
      BY <1>1
    <3>2. QED
      BY <1>9, <3>1, LeastNumber
  <2>2. n \in 1..L /\ it[n] = IF n = 1 THEN s[n] ELSE it[n - 1] \o s[n]
    BY <1>8, <2>1 DEF FlatEquation
  <2>3. n # 1 => n - 1 \in 1..L /\ ~(n <= n - 1)
    BY <1>1, <2>2
  <2>4. n # 1 => it[n - 1] \in Seq(T)
    BY <2>1, <2>3
  <2>5. it[n] \in Seq(T)
    BY <1>1, <1>13, <2>2, <2>4
  <2>6. QED
    BY <2>1, <2>5
<1>10. CASE L = 0
  <2>1. s = <<>> /\ <<>> \in Seq(T)
    BY <1>10
  <2>2. QED
    BY <1>10, <2>1, FlattenFolds
<1>11. CASE L # 0
  <2>1. L \in 1..L
    BY <1>1, <1>11
  <2>2. it[L] \in Seq(T)
    BY <1>9, <2>1
  <2>3. QED
    BY <1>11, <2>2, FlattenFolds DEF it
<1>12. QED
  BY <1>10, <1>11

-----------------------------------------------------------------------------
(* Orders by keys *)

\* The first numbers that differ decide.
Lex(a, b) == \E i \in DOMAIN a : a[i] < b[i] /\ \A j \in 1..(i - 1) : a[j] = b[j]

ByKeys(S, key) == {p \in S \X S : Lex(key[p[1]], key[p[2]])}

LEMMA LexFacts ==
  ASSUME NEW n \in Nat, NEW a \in [1..n -> Int], NEW b \in [1..n -> Int], NEW c \in [1..n -> Int]
  PROVE  /\ ~Lex(a, a)
         /\ Lex(a, b) /\ Lex(b, c) => Lex(a, c)
         /\ a # b => Lex(a, b) \/ Lex(b, a)
<1>0. DOMAIN a = 1..n /\ DOMAIN b = 1..n /\ \A i \in 1..n : a[i] \in Int /\ b[i] \in Int /\ c[i] \in Int
  OBVIOUS
<1>1. ~Lex(a, a)
  BY <1>0 DEF Lex
<1>2. ASSUME Lex(a, b), Lex(b, c)
      PROVE  Lex(a, c)
  <2>1. PICK i \in 1..n : a[i] < b[i] /\ \A j \in 1..(i - 1) : a[j] = b[j]
    BY <1>0, <1>2 DEF Lex
  <2>2. PICK k \in 1..n : b[k] < c[k] /\ \A j \in 1..(k - 1) : b[j] = c[j]
    BY <1>0, <1>2 DEF Lex
  <2>3. CASE i < k
    <3>1. i \in 1..(k - 1) /\ \A j \in 1..(i - 1) : j \in 1..(k - 1)
      BY <2>3
    <3>2. a[i] < c[i] /\ \A j \in 1..(i - 1) : a[j] = c[j]
      BY <2>1, <2>2, <3>1
    <3>3. QED
      BY <1>0, <3>2 DEF Lex
  <2>4. CASE k < i
    <3>1. k \in 1..(i - 1) /\ \A j \in 1..(k - 1) : j \in 1..(i - 1)
      BY <2>4
    <3>2. a[k] < c[k] /\ \A j \in 1..(k - 1) : a[j] = c[j]
      BY <2>1, <2>2, <3>1
    <3>3. QED
      BY <1>0, <3>2 DEF Lex
  <2>5. CASE i = k
    <3>1. a[i] < c[i]
      BY <1>0, <2>1, <2>2, <2>5
    <3>2. \A j \in 1..(i - 1) : a[j] = c[j]
      BY <2>1, <2>2, <2>5
    <3>3. QED
      BY <1>0, <3>1, <3>2 DEF Lex
  <2>6. QED
    BY <2>3, <2>4, <2>5
<1>3. ASSUME a # b
      PROVE  Lex(a, b) \/ Lex(b, a)
  <2> DEFINE D == {i \in 1..n : a[i] # b[i]}
  <2>0. ASSUME D = {}
        PROVE  FALSE
    <3>1. \A i \in 1..n : a[i] = b[i]
      BY <2>0
    <3>2. QED
      BY <1>3, <3>1
  <2>1. D # {} /\ D \in SUBSET Nat
    BY <2>0
  <2>2. PICK i \in D : \A j \in D : i <= j
    BY <2>1, LeastNumber
  <2>3. i \in 1..n /\ a[i] # b[i] /\ \A j \in 1..(i - 1) : j \in 1..n /\ ~(i <= j)
    BY <2>2
  <2>4. \A j \in 1..(i - 1) : a[j] = b[j]
    BY <2>2, <2>3
  <2>5. a[i] < b[i] \/ b[i] < a[i]
    BY <1>0, <2>3
  <2>6. QED
    BY <1>0, <2>3, <2>4, <2>5 DEF Lex
<1>4. QED
  BY <1>1, <1>2, <1>3

LEMMA KeysOrder ==
  ASSUME NEW S, NEW n \in Nat, NEW key \in [S -> [1..n -> Int]],
         \A x, y \in S : key[x] = key[y] => x = y
  PROVE  IsStrictOrder(ByKeys(S, key), S)
<1>1. \A x, y \in S : <<x, y>> \in ByKeys(S, key) <=> Lex(key[x], key[y])
  BY DEF ByKeys
<1>2. \A x \in S : key[x] \in [1..n -> Int]
  OBVIOUS
<1>3. \A x \in S : <<x, x>> \notin ByKeys(S, key)
  BY <1>1, <1>2, LexFacts
<1>4. \A x, y, z \in S : Lex(key[x], key[y]) /\ Lex(key[y], key[z]) => Lex(key[x], key[z])
  BY <1>2, LexFacts
<1>5. \A x, y \in S : x # y => Lex(key[x], key[y]) \/ Lex(key[y], key[x])
  BY <1>2, LexFacts
<1>6. QED
  BY <1>1, <1>3, <1>4, <1>5 DEF IsStrictOrder

LEMMA OnePlaceEach ==
  ASSUME NEW S, NEW n \in Nat, NEW s \in [1..n -> S]
  PROVE  s \in Seq(S) /\ Len(s) = n
OBVIOUS

\* Every element has a key of its own, of so many numbers, and each place of a sequence
\* is that of the element with as many before it.
HasKeys(S, key, n) ==
  /\ key \in [S -> [1..n -> Int]]
  /\ \A x, y \in S : key[x] = key[y] => x = y
KeyAt(S, key, x, i) == Cardinality(Below(ByKeys(S, key), S, x)) = i - 1
InPlaces(S, key, s) ==
  /\ s = [i \in 1..Cardinality(S) |-> s[i]]
  /\ \A i \in 1..Cardinality(S) :
       (\E x \in S : KeyAt(S, key, x, i)) => s[i] \in S /\ KeyAt(S, key, s[i], i)

\* What is sorted by its keys is all there, each before what has a greater key.
LEMMA SortedByKeys ==
  ASSUME NEW S, IsFiniteSet(S), NEW n \in Nat, NEW key, HasKeys(S, key, n),
         NEW s, InPlaces(S, key, s)
  PROVE  /\ Cardinality(S) \in Nat /\ s \in Seq(S) /\ Len(s) = Cardinality(S)
         /\ \A x \in S : \E i \in 1..Len(s) : s[i] = x
         /\ \A x \in S : x # s[1] => Lex(key[s[1]], key[x])
<1> DEFINE R == ByKeys(S, key)
           N == Cardinality(S)
           place(x) == Cardinality(Below(R, S, x))
<1>1. IsStrictOrder(R, S)
  BY KeysOrder DEF HasKeys
<1>0. \A i \in 1..N : (\E x \in S : place(x) = i - 1) => s[i] \in S /\ place(s[i]) = i - 1
  BY DEF InPlaces, KeyAt
<1> HIDE DEF R
<1>2. /\ N \in Nat
      /\ \A i \in 1..N : \E x \in S : place(x) = i - 1
      /\ \A x, y \in S : place(x) = place(y) => x = y
      /\ \A x \in S : place(x) \in 0..(N - 1)
      /\ \A x, y \in S : <<x, y>> \in R => place(x) < place(y)
  BY <1>1, PlacesAreTaken
<1>3. \A i \in 1..N : s[i] \in S /\ place(s[i]) = i - 1
  BY <1>0, <1>2 DEF R
<1>8. s = [i \in 1..N |-> s[i]]
  BY DEF InPlaces
<1> HIDE DEF place, N
<1>4. s \in Seq(S) /\ Len(s) = N
  <2>1. s \in [1..N -> S]
    BY <1>3, <1>8
  <2>2. N \in Nat
    BY <1>2
  <2>3. QED
    BY <2>1, <2>2, OnePlaceEach
<1>5. ASSUME NEW x \in S
      PROVE  \E i \in 1..N : s[i] = x
  <2> DEFINE p == place(x)
  <2>0. N \in Nat /\ p \in 0..(N - 1)
    BY <1>2
  <2> HIDE DEF p
  <2>1. p + 1 \in 1..N /\ (p + 1) - 1 = p
    BY <2>0
  <2>2. s[p + 1] \in S /\ place(s[p + 1]) = p
    BY <1>3, <2>1
  <2>3. s[p + 1] = x
    BY <1>2, <2>2 DEF p
  <2>4. QED
    BY <2>1, <2>3
<1>6. ASSUME NEW x \in S, x # s[1]
      PROVE  Lex(key[s[1]], key[x])
  <2>1. 1 \in 1..N
    BY <1>2, <1>6
  <2>2. s[1] \in S /\ place(s[1]) = 0
    <3>1. s[1] \in S /\ place(s[1]) = 1 - 1
      BY <1>3, <2>1
    <3>2. QED
      BY <3>1
  <2>3. <<x, s[1]>> \notin R
    BY <1>2, <2>2
  <2>4. <<s[1], x>> \in R
    BY <1>1, <1>6, <2>2, <2>3 DEF IsStrictOrder
  <2>5. QED
    BY <2>4 DEF R, ByKeys
<1>7. QED
  BY <1>2, <1>4, <1>5, <1>6 DEF N
=============================================================================
