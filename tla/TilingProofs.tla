---------------------------- MODULE TilingProofs ----------------------------
(***************************************************************************)
(* What an experiment measures, whatever its targets, shapes and scores.   *)
(* The order of the candidates gives the tile that scores best the first   *)
(* place, and the running sum of the units is the time of a tile.  The     *)
(* invariant of the simulation says what has been measured of the tile at  *)
(* hand, that the best so far is the best of those before it, and that     *)
(* every row is true of its entry; the invariant of the benchmark, that    *)
(* all rows but the last are on disk.                                      *)
(***************************************************************************)
EXTENDS TilingExperiment, OrderProofs

(* The tiles of an experiment *)

Shapes == [m : AtLeastOne, n : AtLeastOne, k : AtLeastOne]
Sizes == [m : Nat, n : Nat, k : Nat]
Accelerators == [rows : AtLeastOne, cols : AtLeastOne, sram : Nat]

LEMMA BetweenOneAnd ==
  ASSUME NEW size \in AtLeastOne, NEW v \in Nat
  PROVE  LET w == Max({1, Min({v, size})}) IN w \in 1..size /\ (v = size => w = size)
<1> DEFINE l == Min({v, size})
           w == Max({1, l})
<1>1. size \in Nat /\ 1 <= size
  BY DEF AtLeastOne
<1>2. l \in Nat /\ l <= size /\ l \in {v, size}
  BY <1>1, LeastOfTwo
<1> HIDE DEF l
<1>3. {1, l} \in SUBSET (0..(1 + l)) /\ {1, l} # {} /\ 1 + l \in Nat
  BY <1>2
<1>4. w \in {1, l} /\ \A x \in {1, l} : x <= w
  BY <1>3, GreatestOfSome
<1> HIDE DEF w
<1>5. w \in 1..size /\ (v = size => w = size)
  BY <1>1, <1>2, <1>4
<1>6. QED
  BY <1>5 DEF w, l

LEMMA ClampedIsWithin ==
  ASSUME NEW shape \in Shapes, NEW t \in Sizes
  PROVE  /\ Clamped(shape, t) \in TilesWithin(shape)
         /\ Clamped(shape, shape) = shape
<1>1. \A d \in {"m", "n", "k"} : shape[d] \in AtLeastOne /\ t[d] \in Nat
  BY DEF Shapes, Sizes
<1>2. \A d \in {"m", "n", "k"} : Clamped(shape, t)[d] \in 1..shape[d]
  BY <1>1, BetweenOneAnd DEF Clamped
<1>3. \A d \in {"m", "n", "k"} : shape[d] \in Nat
  BY <1>1 DEF AtLeastOne
<1>4. \A d \in {"m", "n", "k"} : Clamped(shape, shape)[d] = shape[d]
  BY <1>1, <1>3, BetweenOneAnd DEF Clamped
<1>5. Clamped(shape, t) = [m |-> Clamped(shape, t).m, n |-> Clamped(shape, t).n,
                           k |-> Clamped(shape, t).k]
  BY DEF Clamped
<1>6. Clamped(shape, shape) = [m |-> Clamped(shape, shape).m, n |-> Clamped(shape, shape).n,
                               k |-> Clamped(shape, shape).k]
  BY DEF Clamped
<1>7. shape = [m |-> shape.m, n |-> shape.n, k |-> shape.k]
  BY DEF Shapes
<1>8. QED
  BY <1>2, <1>4, <1>5, <1>6, <1>7 DEF TilesWithin

LEMMA TilesAreFinite ==
  ASSUME NEW shape \in Shapes
  PROVE  IsFiniteSet(TilesWithin(shape))
<1> DEFINE P == ((1..shape.m) \X (1..shape.n)) \X (1..shape.k)
           f == [p \in P |-> [m |-> p[1][1], n |-> p[1][2], k |-> p[2]]]
<1>1. shape.m \in Nat /\ shape.n \in Nat /\ shape.k \in Nat
  BY DEF Shapes, AtLeastOne
<1>2. IsFiniteSet(1..shape.m) /\ IsFiniteSet(1..shape.n) /\ IsFiniteSet(1..shape.k)
  <2>1. \A n \in Nat : IsFiniteSet(1..n)
    BY FS_Interval
  <2>2. QED
    BY <1>1, <2>1
<1>3. IsFiniteSet(P)
  BY <1>2, FS_Product
<1>4. f \in [P -> TilesWithin(shape)]
  BY DEF TilesWithin
<1>5. \A t \in TilesWithin(shape) : \E p \in P : f[p] = t
  <2>1. ASSUME NEW t \in TilesWithin(shape)
        PROVE  <<<<t.m, t.n>>, t.k>> \in P /\ f[<<<<t.m, t.n>>, t.k>>] = t
    BY DEF TilesWithin
  <2>2. QED
    BY <2>1
<1> HIDE DEF P, f
<1>6. f \in Surjection(P, TilesWithin(shape))
  BY <1>4, <1>5 DEF Surjection
<1>7. QED
  BY <1>3, <1>6, FS_Surjection

LEMMA WithinIsSize ==
  ASSUME NEW shape \in Shapes
  PROVE  /\ TilesWithin(shape) \subseteq Shapes /\ Shapes \subseteq Sizes
         /\ shape \in TilesWithin(shape)
BY DEF TilesWithin, Shapes, Sizes, AtLeastOne

-----------------------------------------------------------------------------
(* The sizes tried *)

DivisorKey(dim, d) == <<Distance(d, dim), -d>>
DivisorBefore(dim, x, y) ==
  \E i \in DOMAIN DivisorKey(dim, x) :
    DivisorKey(dim, x)[i] < DivisorKey(dim, y)[i]
    /\ \A j \in 1..(i - 1) : DivisorKey(dim, x)[j] = DivisorKey(dim, y)[j]
Divisors(size) == {d \in 1..size : size % d = 0}
DivisorAt(size, dim, i) ==
  CHOOSE x \in Divisors(size) :
    Cardinality({y \in Divisors(size) : DivisorBefore(dim, y, x)}) = i - 1
DivisorsInOrder(size, dim) == [i \in 1..Cardinality(Divisors(size)) |-> DivisorAt(size, dim, i)]

LEMMA DivisorsAre ==
  ASSUME NEW size, NEW dim
  PROVE  DivisorsAround(size, dim) =
           ToSet(SubSeq(DivisorsInOrder(size, dim), 1, Min({6, Len(DivisorsInOrder(size, dim))})))
BY DEF DivisorsAround, ByKey, DivisorsInOrder, DivisorAt, DivisorBefore, DivisorKey, Divisors

LEMMA DistanceIsNumber ==
  ASSUME NEW a \in Nat, NEW b \in Nat
  PROVE  Distance(a, b) \in Int
<1>1. a - b \in Nat \/ b - a \in Nat
  OBVIOUS
<1> DEFINE S == {a - b, b - a}
<1>2. \E x \in S : \A y \in S : x >= y
  OBVIOUS
<1>3. Max(S) \in S
  <2> HIDE DEF S
  <2>1. QED
    BY <1>2 DEF Max
<1>4. QED
  BY <1>3 DEF Distance

LEMMA DivisorsAreSizes ==
  ASSUME NEW size \in AtLeastOne, NEW dim \in AtLeastOne
  PROVE  DivisorsAround(size, dim) \subseteq Nat
<1> DEFINE S == Divisors(size)
           key == [d \in S |-> DivisorKey(dim, d)]
           s == DivisorsInOrder(size, dim)
<1>1. size \in Nat /\ dim \in Nat /\ S \subseteq 1..size
  BY DEF AtLeastOne, Divisors
<1>2. IsFiniteSet(S)
  BY <1>1, FS_Interval, FS_Subset
<1>3. \A d \in S : d \in Nat /\ Distance(d, dim) \in Int
  BY <1>1, DistanceIsNumber
<1>4. \A d \in S : DivisorKey(dim, d) \in [1..2 -> Int] /\ DivisorKey(dim, d)[2] = -d
  BY <1>3 DEF DivisorKey
<1>5. HasKeys(S, key, 2)
  BY <1>3, <1>4 DEF HasKeys
<1>6. \A x \in S : key[x] = DivisorKey(dim, x)
  OBVIOUS
<1>7. \A x, y \in S : DivisorBefore(dim, y, x) <=> <<y, x>> \in ByKeys(S, key)
  BY <1>6 DEF DivisorBefore, ByKeys, Lex
<1> HIDE DEF key
<1>8. \A x \in S : {y \in S : DivisorBefore(dim, y, x)} = Below(ByKeys(S, key), S, x)
  BY <1>7 DEF Below
<1>9. ASSUME NEW i \in 1..Cardinality(S), \E x \in S : KeyAt(S, key, x, i)
      PROVE  s[i] \in S /\ KeyAt(S, key, s[i], i)
  <2>1. \E x \in S : Cardinality({y \in S : DivisorBefore(dim, y, x)}) = i - 1
    BY <1>8, <1>9 DEF KeyAt
  <2>2. s[i] = DivisorAt(size, dim, i)
    BY DEF DivisorsInOrder
  <2>3. DivisorAt(size, dim, i) = CHOOSE x \in S : Cardinality({y \in S : DivisorBefore(dim, y, x)}) = i - 1
    BY DEF DivisorAt
  <2> HIDE DEF S, s
  <2>4. s[i] \in S /\ Cardinality({y \in S : DivisorBefore(dim, y, s[i])}) = i - 1
    BY <2>1, <2>2, <2>3
  <2>5. QED
    BY <1>8, <2>4 DEF KeyAt
<1>10. s = [i \in 1..Cardinality(S) |-> s[i]]
  BY DEF DivisorsInOrder
<1> HIDE DEF S, s
<1>11. s \in Seq(S) /\ Len(s) = Cardinality(S) /\ Cardinality(S) \in Nat
  <2>1. InPlaces(S, key, s)
    BY <1>9, <1>10 DEF InPlaces
  <2>2. QED
    BY <1>2, <1>5, <2>1, SortedByKeys
<1> DEFINE n == Min({6, Len(s)})
<1>12. n \in Nat /\ n <= Len(s)
  BY <1>11, LeastOfTwo
<1> HIDE DEF n
<1>13. ToSet(SubSeq(s, 1, n)) \subseteq S
  BY <1>11, <1>12, SubSeqElements
<1>14. DivisorsAround(size, dim) = ToSet(SubSeq(s, 1, n))
  BY DivisorsAre DEF s, n
<1>15. S \subseteq Nat
  BY <1>1
<1>16. QED
  BY <1>13, <1>14, <1>15

-----------------------------------------------------------------------------
(* The candidates and their ranking *)

LEMMA SizesTriedAre ==
  ASSUME NEW size \in AtLeastOne, NEW dim \in AtLeastOne, NEW own \in SUBSET Nat
  PROVE  SizesTried(size, dim, own) \subseteq Nat
<1> DEFINE within(v) == Max({1, Min({v, size})})
           shares == {25, 50, 100, 150, 200, 300, 400, 600, 800}
<1>1. size \in Nat /\ dim \in Nat
  BY DEF AtLeastOne
<1>2. ASSUME NEW v \in Nat
      PROVE  within(v) \in Nat
  <2>1. within(v) \in 1..size
    BY BetweenOneAnd
  <2> HIDE DEF within
  <2>2. QED
    BY <1>1, <2>1
<1>3. ASSUME NEW p \in shares
      PROVE  (dim * p + 50) \div 100 \in Nat
  <2>1. p \in Nat
    OBVIOUS
  <2>2. dim * p \in Nat
    BY <1>1, <2>1
  <2> DEFINE q == dim * p
  <2> HIDE DEF q
  <2>3. q \in Nat => (q + 50) \div 100 \in Nat
    OBVIOUS
  <2>4. QED
    BY <2>2, <2>3 DEF q
<1>4. DivisorsAround(size, dim) \subseteq Nat
  BY DivisorsAreSizes
<1>5. GridValues \cup own \subseteq Nat
  BY TilingAssumption
<1>6. SizesTried(size, dim, own) =
        {within(v) : v \in GridValues \cup own} \cup {within((dim * p + 50) \div 100) : p \in shares}
          \cup {size} \cup DivisorsAround(size, dim)
  BY DEF SizesTried
<1> HIDE DEF within, shares
<1>7. QED
  BY <1>1, <1>2, <1>3, <1>4, <1>5, <1>6

LEMMA CandidatesAreWithin ==
  ASSUME NEW target \in Accelerators, NEW shape \in Shapes
  PROVE  /\ CandidatesOf(target, shape) \subseteq TilesWithin(shape)
         /\ shape \in CandidatesOf(target, shape)
         /\ \A t \in CandidatesOf(target, shape) : Fits(target, t) \/ t = shape
<1> DEFINE guards == {TileOf(target.rows * f, shape.n, target.rows) : f \in {1, 2, 4}}
             \cup {TileOf(shape.m, shape.n, target.rows),
                   TileOf(target.rows, target.cols, shape.k)}
           grid == [m : SizesTried(shape.m, target.rows, InputGrid.m),
                    n : SizesTried(shape.n, target.cols, InputGrid.n),
                    k : SizesTried(shape.k, target.rows, InputGrid.k)]
<1>1. /\ shape.m \in AtLeastOne /\ shape.n \in AtLeastOne /\ shape.k \in AtLeastOne
      /\ target.rows \in AtLeastOne /\ target.cols \in AtLeastOne
  BY DEF Shapes, Accelerators
<1>2. /\ shape.m \in Nat /\ shape.n \in Nat /\ shape.k \in Nat
      /\ target.rows \in Nat /\ target.cols \in Nat
  BY <1>1 DEF AtLeastOne
<1>3. guards \subseteq Sizes
  <2>1. \A f \in {1, 2, 4} : target.rows * f \in Nat
    BY <1>2
  <2>2. QED
    BY <1>2, <2>1 DEF TileOf, Sizes
<1>4. grid \subseteq Sizes
  <2>0. InputGrid.m \in SUBSET Nat /\ InputGrid.n \in SUBSET Nat /\ InputGrid.k \in SUBSET Nat
    BY TilingAssumption
  <2>1. /\ SizesTried(shape.m, target.rows, InputGrid.m) \subseteq Nat
        /\ SizesTried(shape.n, target.cols, InputGrid.n) \subseteq Nat
        /\ SizesTried(shape.k, target.rows, InputGrid.k) \subseteq Nat
    BY <1>1, <2>0, SizesTriedAre
  <2>2. QED
    BY <2>1 DEF Sizes
<1>5. shape \in Sizes
  BY <1>2 DEF Shapes, Sizes
<1>6. CandidatesOf(target, shape) = {t \in {Clamped(shape, g) : g \in guards \cup grid \cup {shape}} :
                                       Fits(target, t) \/ t = shape}
  BY DEF CandidatesOf
<1> HIDE DEF guards, grid
<1>7. \A g \in guards \cup grid \cup {shape} : Clamped(shape, g) \in TilesWithin(shape)
  BY <1>3, <1>4, <1>5, ClampedIsWithin
<1>8. Clamped(shape, shape) = shape
  BY <1>5, ClampedIsWithin
<1>9. QED
  BY <1>6, <1>7, <1>8

RankKey(target, score, t) ==
  <<IF Fits(target, t) THEN 0 ELSE 1, score[t], SramOf(t), -Volume(t),
    Distance(t.m, target.rows), Distance(t.n, target.cols), t.m, t.n>>
RankBefore(target, score, x, y) ==
  \E i \in DOMAIN RankKey(target, score, x) :
    RankKey(target, score, x)[i] < RankKey(target, score, y)[i]
    /\ \A j \in 1..(i - 1) : RankKey(target, score, x)[j] = RankKey(target, score, y)[j]
RankAt(target, shape, score, i) ==
  CHOOSE x \in CandidatesOf(target, shape) :
    Cardinality({y \in CandidatesOf(target, shape) : RankBefore(target, score, y, x)}) = i - 1

LEMMA RanksAre ==
  ASSUME NEW target, NEW shape, NEW score
  PROVE  RankedTiles(target, shape, score) =
           [i \in 1..Cardinality(CandidatesOf(target, shape)) |-> RankAt(target, shape, score, i)]
BY DEF RankedTiles, ByKey, RankAt, RankBefore, RankKey

LEMMA SameFactor ==
  ASSUME NEW a \in Nat, a > 0, NEW b \in Nat, NEW c \in Nat, a * b = a * c
  PROVE  b = c
<1>1. CASE b < c
  <2>1. PICK d \in Nat : c = b + d /\ d > 0
    <3>1. c - b \in Nat /\ c = b + (c - b) /\ c - b > 0
      BY <1>1
    <3>2. QED
      BY <3>1
  <2>2. a * c = a * b + a * d /\ a * d > 0
    BY <2>1
  <2>3. a * b \in Nat /\ a * d \in Nat
    BY <2>1
  <2>4. QED
    BY <2>2, <2>3
<1>2. CASE c < b
  <2>1. PICK d \in Nat : b = c + d /\ d > 0
    <3>1. b - c \in Nat /\ b = c + (b - c) /\ b - c > 0
      BY <1>2
    <3>2. QED
      BY <3>1
  <2>2. a * b = a * c + a * d /\ a * d > 0
    BY <2>1
  <2>3. a * c \in Nat /\ a * d \in Nat
    BY <2>1
  <2>4. QED
    BY <2>2, <2>3
<1>3. QED
  BY <1>1, <1>2

LEMMA NumbersOfTile ==
  ASSUME NEW t \in Shapes
  PROVE  /\ SramOf(t) \in Nat /\ Volume(t) \in Nat
         /\ \A u \in Shapes : t.m = u.m /\ t.n = u.n /\ Volume(t) = Volume(u) => t = u
<1>1. t.m \in Nat /\ t.n \in Nat /\ t.k \in Nat /\ t.m > 0 /\ t.n > 0
  BY DEF Shapes, AtLeastOne
<1>2. t.m * t.n \in Nat /\ t.m * t.k \in Nat /\ t.k * t.n \in Nat /\ t.m * t.n > 0
  BY <1>1
<1>3. SramOf(t) \in Nat
  BY <1>2 DEF SramOf
<1>4. (t.m * t.n) * t.k \in Nat
  BY <1>1, <1>2
<1>5. ASSUME NEW u \in Shapes, t.m = u.m, t.n = u.n, Volume(t) = Volume(u)
      PROVE  t = u
  <2>1. u.k \in Nat
    BY DEF Shapes, AtLeastOne
  <2>2. (t.m * t.n) * t.k = (t.m * t.n) * u.k
    BY <1>5 DEF Volume
  <2>3. t.k = u.k
    BY <1>1, <1>2, <2>1, <2>2, SameFactor
  <2>4. QED
    BY <1>5, <2>3 DEF Shapes
<1>6. QED
  BY <1>3, <1>4, <1>5 DEF Volume

\* What the estimator can say of the tiles within a shape
Scores(shape) == {score \in TileScores : \A t \in TilesWithin(shape) : score[t] \in Int}

LEMMA RankKeysAreNumbers ==
  ASSUME NEW target \in Accelerators, NEW shape \in Shapes, NEW score \in Scores(shape),
         NEW t \in TilesWithin(shape)
  PROVE  RankKey(target, score, t) \in [1..8 -> Int]
<1>1. t \in Shapes /\ t.m \in Nat /\ t.n \in Nat
  BY WithinIsSize DEF Shapes, AtLeastOne
<1>2. target.rows \in Nat /\ target.cols \in Nat
  BY DEF Accelerators, AtLeastOne
<1>3. Distance(t.m, target.rows) \in Int /\ Distance(t.n, target.cols) \in Int
  BY <1>1, <1>2, DistanceIsNumber
<1>4. SramOf(t) \in Int /\ -Volume(t) \in Int /\ score[t] \in Int
  BY <1>1, NumbersOfTile DEF Scores
<1> DEFINE fit == IF Fits(target, t) THEN 0 ELSE 1
<1>5. fit \in Int
  OBVIOUS
<1> HIDE DEF fit
<1>6. <<fit, score[t], SramOf(t), -Volume(t), Distance(t.m, target.rows),
        Distance(t.n, target.cols), t.m, t.n>> \in [1..8 -> Int]
  BY <1>1, <1>3, <1>4, <1>5
<1>7. QED
  BY <1>6 DEF RankKey, fit

LEMMA RankedFacts ==
  ASSUME NEW target \in Accelerators, NEW shape \in Shapes, NEW score \in Scores(shape)
  PROVE  /\ RankedTiles(target, shape, score) \in Seq(CandidatesOf(target, shape))
         /\ Len(RankedTiles(target, shape, score)) >= 1
         /\ \A t \in CandidatesOf(target, shape) :
              Fits(target, t) => /\ Fits(target, RankedTiles(target, shape, score)[1])
                                 /\ score[RankedTiles(target, shape, score)[1]] <= score[t]
<1> DEFINE S == CandidatesOf(target, shape)
           key == [t \in S |-> RankKey(target, score, t)]
           s == RankedTiles(target, shape, score)
<1>1. S \subseteq TilesWithin(shape) /\ shape \in S
  BY CandidatesAreWithin
<1>2. IsFiniteSet(S)
  BY <1>1, TilesAreFinite, FS_Subset
<1>3. \A t \in S : RankKey(target, score, t) \in [1..8 -> Int]
  BY <1>1, RankKeysAreNumbers
<1>4. \A x, y \in S : RankKey(target, score, x) = RankKey(target, score, y) => x = y
  <2> SUFFICES ASSUME NEW x \in S, NEW y \in S, RankKey(target, score, x) = RankKey(target, score, y)
               PROVE  x = y
    OBVIOUS
  <2>1. x \in Shapes /\ y \in Shapes
    BY <1>1, WithinIsSize
  <2>2. x.m = y.m /\ x.n = y.n /\ -Volume(x) = -Volume(y)
    BY DEF RankKey
  <2>3. Volume(x) \in Nat /\ Volume(y) \in Nat
    BY <2>1, NumbersOfTile
  <2>4. Volume(x) = Volume(y)
    BY <2>2, <2>3
  <2>5. QED
    BY <2>1, <2>2, <2>4, NumbersOfTile
<1>5. HasKeys(S, key, 8)
  BY <1>3, <1>4 DEF HasKeys
<1>6. \A x \in S : key[x] = RankKey(target, score, x)
  OBVIOUS
<1>7. \A x, y \in S : RankBefore(target, score, y, x) <=> <<y, x>> \in ByKeys(S, key)
  BY <1>6 DEF RankBefore, ByKeys, Lex
<1> HIDE DEF key
<1>8. \A x \in S : {y \in S : RankBefore(target, score, y, x)} = Below(ByKeys(S, key), S, x)
  BY <1>7 DEF Below
<1>9. ASSUME NEW i \in 1..Cardinality(S), \E x \in S : KeyAt(S, key, x, i)
      PROVE  s[i] \in S /\ KeyAt(S, key, s[i], i)
  <2>1. \E x \in S : Cardinality({y \in S : RankBefore(target, score, y, x)}) = i - 1
    BY <1>8, <1>9 DEF KeyAt
  <2>2. s[i] = RankAt(target, shape, score, i)
    BY RanksAre
  <2>3. RankAt(target, shape, score, i) =
          CHOOSE x \in S : Cardinality({y \in S : RankBefore(target, score, y, x)}) = i - 1
    BY DEF RankAt
  <2> HIDE DEF S, s
  <2>4. s[i] \in S /\ Cardinality({y \in S : RankBefore(target, score, y, s[i])}) = i - 1
    BY <2>1, <2>2, <2>3
  <2>5. QED
    BY <1>8, <2>4 DEF KeyAt
<1>10. s = [i \in 1..Cardinality(S) |-> s[i]]
  BY RanksAre
<1> HIDE DEF S, s
<1>11. /\ s \in Seq(S) /\ Len(s) = Cardinality(S) /\ Cardinality(S) \in Nat
       /\ \A x \in S : \E i \in 1..Len(s) : s[i] = x
       /\ \A x \in S : x # s[1] => Lex(key[s[1]], key[x])
  <2>1. InPlaces(S, key, s)
    BY <1>9, <1>10 DEF InPlaces
  <2>2. QED
    BY <1>2, <1>5, <2>1, SortedByKeys
<1>12. Len(s) >= 1 /\ s[1] \in S
  <2>1. PICK i \in 1..Len(s) : s[i] = shape
    BY <1>1, <1>11
  <2>2. Len(s) \in Nat /\ 1 \in 1..Len(s)
    BY <1>11, <2>1
  <2>3. QED
    BY <1>11, <2>2
<1>13. ASSUME NEW t \in S, Fits(target, t)
       PROVE  Fits(target, s[1]) /\ score[s[1]] <= score[t]
  <2>1. score[t] \in Int /\ score[s[1]] \in Int
    BY <1>1, <1>12 DEF Scores
  <2>2. CASE t = s[1]
    BY <1>13, <2>1, <2>2
  <2>3. CASE t # s[1]
    <3> DEFINE a == RankKey(target, score, s[1])
               b == RankKey(target, score, t)
    <3>1. Lex(a, b)
      BY <1>6, <1>11, <1>12, <2>3
    <3>2. a[1] = (IF Fits(target, s[1]) THEN 0 ELSE 1) /\ b[1] = 0 /\ a[2] = score[s[1]] /\ b[2] = score[t]
      BY <1>13 DEF RankKey
    <3>3. a \in [1..8 -> Int]
      BY <1>3, <1>12
    <3> HIDE DEF a, b
    <3>4. PICK i \in 1..8 : a[i] < b[i] /\ \A j \in 1..(i - 1) : a[j] = b[j]
      BY <3>1, <3>3 DEF Lex
    <3>5. CASE i = 1
      BY <3>2, <3>4, <3>5
    <3>6. CASE i = 2
      <4>1. 1 \in 1..(i - 1)
        BY <3>6
      <4>2. a[1] = b[1]
        BY <3>4, <4>1
      <4>3. QED
        BY <2>1, <3>2, <3>4, <3>6, <4>2
    <3>7. CASE i > 2
      <4>1. 1 \in 1..(i - 1) /\ 2 \in 1..(i - 1)
        BY <3>7
      <4>2. a[1] = b[1] /\ a[2] = b[2]
        BY <3>4, <4>1
      <4>3. QED
        BY <2>1, <3>2, <4>2
    <3>8. QED
      BY <3>5, <3>6, <3>7
  <2>4. QED
    BY <2>2, <2>3
<1>14. QED
  BY <1>11, <1>12, <1>13 DEF S, s

LEMMA BaselineIsWithin ==
  ASSUME NEW target \in Accelerators, NEW shape \in Shapes
  PROVE  BaselineOf(target, shape) \in TilesWithin(shape)
<1> DEFINE narrow == shape.n <= target.cols
           m == IF shape.m <= target.rows THEN shape.m ELSE target.rows * (IF narrow THEN 4 ELSE 1)
           n == IF narrow THEN shape.n ELSE target.cols
<1>1. /\ shape.m \in Nat /\ shape.n \in Nat /\ shape.k \in Nat
      /\ target.rows \in Nat /\ target.cols \in Nat
  BY DEF Shapes, Accelerators, AtLeastOne
<1>2. m \in Nat /\ n \in Nat
  BY <1>1
<1>3. BaselineOf(target, shape) = Clamped(shape, TileOf(m, n, target.rows))
  BY DEF BaselineOf
<1> HIDE DEF m, n
<1>4. TileOf(m, n, target.rows) \in Sizes
  BY <1>1, <1>2 DEF TileOf, Sizes
<1>5. QED
  BY <1>3, <1>4, ClampedIsWithin

-----------------------------------------------------------------------------
(* The units of a tile and their time *)

UnitsWithin(shape) == [m : 1..shape.m, n : 1..shape.n, k : 1..shape.k, repeats : Nat]

LEMMA PartsAre ==
  ASSUME NEW size \in AtLeastOne, NEW tile \in 1..size
  PROVE  Parts(size, tile) \subseteq [size : 1..size, count : Nat] /\ IsFiniteSet(Parts(size, tile))
<1>1. size \in Nat /\ tile \in Nat /\ tile >= 1 /\ tile <= size
  BY DEF AtLeastOne
<1>2. size \div tile \in Nat /\ size % tile \in Nat /\ size % tile <= size
  BY <1>1
<1> DEFINE q == size \div tile
           r == size % tile
           A == IF q > 0 THEN {[size |-> tile, count |-> q]} ELSE {}
           B == IF r > 0 THEN {[size |-> r, count |-> 1]} ELSE {}
<1>3. Parts(size, tile) = A \cup B
  BY DEF Parts
<1>4. q \in Nat /\ r \in Nat /\ r <= size
  BY <1>2
<1> HIDE DEF q, r
<1>5. r > 0 => r \in 1..size
  BY <1>1, <1>4
<1>6. A \subseteq [size : 1..size, count : Nat] /\ B \subseteq [size : 1..size, count : Nat]
  BY <1>1, <1>4, <1>5
<1>7. IsFiniteSet(A) /\ IsFiniteSet(B)
  BY FS_EmptySet, FS_Singleton
<1> HIDE DEF A, B
<1>8. IsFiniteSet(A \cup B)
  BY <1>7, FS_Union
<1>9. QED
  BY <1>3, <1>6, <1>8

UnitsOf(shape, tile) ==
  {[m |-> a.size, n |-> b.size, k |-> c.size, repeats |-> a.count * b.count * c.count] :
     a \in Parts(shape.m, tile.m), b \in Parts(shape.n, tile.n), c \in Parts(shape.k, tile.k)}
UnitKey(u) == <<-u.repeats, -Volume(u), u.m, u.n, u.k>>
UnitBefore(x, y) ==
  \E i \in DOMAIN UnitKey(x) :
    UnitKey(x)[i] < UnitKey(y)[i] /\ \A j \in 1..(i - 1) : UnitKey(x)[j] = UnitKey(y)[j]
UnitAt(shape, tile, i) ==
  CHOOSE x \in UnitsOf(shape, tile) :
    Cardinality({y \in UnitsOf(shape, tile) : UnitBefore(y, x)}) = i - 1

LEMMA UnitsAre ==
  ASSUME NEW shape, NEW tile
  PROVE  Units(shape, tile) =
           [i \in 1..Cardinality(UnitsOf(shape, tile)) |-> UnitAt(shape, tile, i)]
BY DEF Units, ByKey, UnitAt, UnitBefore, UnitKey, UnitsOf

LEMMA UnitsOfFacts ==
  ASSUME NEW shape \in Shapes, NEW tile \in TilesWithin(shape)
  PROVE  UnitsOf(shape, tile) \subseteq UnitsWithin(shape) /\ IsFiniteSet(UnitsOf(shape, tile))
<1> DEFINE A == Parts(shape.m, tile.m)
           B == Parts(shape.n, tile.n)
           C == Parts(shape.k, tile.k)
           P == (A \X B) \X C
           f == [p \in P |-> [m |-> p[1][1].size, n |-> p[1][2].size, k |-> p[2].size,
                              repeats |-> p[1][1].count * p[1][2].count * p[2].count]]
<1>1. /\ shape.m \in AtLeastOne /\ shape.n \in AtLeastOne /\ shape.k \in AtLeastOne
      /\ tile.m \in 1..shape.m /\ tile.n \in 1..shape.n /\ tile.k \in 1..shape.k
  BY DEF Shapes, TilesWithin
<1>2. /\ A \subseteq [size : 1..shape.m, count : Nat] /\ IsFiniteSet(A)
      /\ B \subseteq [size : 1..shape.n, count : Nat] /\ IsFiniteSet(B)
      /\ C \subseteq [size : 1..shape.k, count : Nat] /\ IsFiniteSet(C)
  BY <1>1, PartsAre
<1>3. UnitsOf(shape, tile) =
        {[m |-> a.size, n |-> b.size, k |-> c.size, repeats |-> a.count * b.count * c.count] :
           a \in A, b \in B, c \in C}
  BY DEF UnitsOf
<1> HIDE DEF A, B, C
<1>4. \A a \in A, b \in B, c \in C : a.count * b.count * c.count \in Nat
  <2> SUFFICES ASSUME NEW a \in A, NEW b \in B, NEW c \in C
               PROVE  a.count * b.count * c.count \in Nat
    OBVIOUS
  <2>1. a.count \in Nat /\ b.count \in Nat /\ c.count \in Nat
    BY <1>2
  <2>2. \A x, y, z \in Nat : x * y * z \in Nat
    OBVIOUS
  <2>3. QED
    BY <2>1, <2>2
<1>5. UnitsOf(shape, tile) \subseteq UnitsWithin(shape)
  <2> SUFFICES ASSUME NEW a \in A, NEW b \in B, NEW c \in C
               PROVE  [m |-> a.size, n |-> b.size, k |-> c.size,
                       repeats |-> a.count * b.count * c.count] \in UnitsWithin(shape)
    BY <1>3
  <2>1. a.size \in 1..shape.m /\ b.size \in 1..shape.n /\ c.size \in 1..shape.k
    BY <1>2
  <2>2. a.count * b.count * c.count \in Nat
    BY <1>4
  <2>3. QED
    BY <2>1, <2>2 DEF UnitsWithin
<1>6. IsFiniteSet(P)
  BY <1>2, FS_Product
<1>7. f \in [P -> {f[p] : p \in P}] /\ \A u \in {f[p] : p \in P} : \E p \in P : f[p] = u
  OBVIOUS
<1>8. \A a \in A, b \in B, c \in C :
        /\ <<<<a, b>>, c>> \in P
        /\ f[<<<<a, b>>, c>>] = [m |-> a.size, n |-> b.size, k |-> c.size,
                                 repeats |-> a.count * b.count * c.count]
  OBVIOUS
<1> HIDE DEF f, P
<1>9. f \in Surjection(P, {f[p] : p \in P})
  BY <1>7 DEF Surjection
<1>10. IsFiniteSet({f[p] : p \in P})
  BY <1>6, <1>9, FS_Surjection
<1>11. UnitsOf(shape, tile) \subseteq {f[p] : p \in P}
  <2> SUFFICES ASSUME NEW a \in A, NEW b \in B, NEW c \in C
               PROVE  [m |-> a.size, n |-> b.size, k |-> c.size,
                       repeats |-> a.count * b.count * c.count] \in {f[p] : p \in P}
    BY <1>3
  <2>1. QED
    BY <1>8
<1>12. QED
  BY <1>5, <1>10, <1>11, FS_Subset

LEMMA UnitsFacts ==
  ASSUME NEW shape \in Shapes, NEW tile \in TilesWithin(shape)
  PROVE  Units(shape, tile) \in Seq(UnitsWithin(shape))
<1> DEFINE S == UnitsOf(shape, tile)
           key == [u \in S |-> UnitKey(u)]
           s == Units(shape, tile)
<1>1. S \subseteq UnitsWithin(shape) /\ IsFiniteSet(S)
  BY UnitsOfFacts
<1>2. \A u \in S : u.repeats \in Nat /\ u.m \in Nat /\ u.n \in Nat /\ u.k \in Nat
  BY <1>1 DEF UnitsWithin
<1>3. \A u \in S : UnitKey(u) \in [1..5 -> Int]
  <2> SUFFICES ASSUME NEW u \in S
               PROVE  UnitKey(u) \in [1..5 -> Int]
    OBVIOUS
  <2>1. u.m * u.n * u.k \in Nat
    <3>1. \A x, y, z \in Nat : x * y * z \in Nat
      OBVIOUS
    <3>2. QED
      BY <1>2, <3>1
  <2>2. Volume(u) \in Nat
    BY <2>1 DEF Volume
  <2>3. -Volume(u) \in Int /\ -u.repeats \in Int
    BY <1>2, <2>2
  <2>4. QED
    BY <1>2, <2>3 DEF UnitKey
<1>4. \A x, y \in S : UnitKey(x) = UnitKey(y) => x = y
  <2> SUFFICES ASSUME NEW x \in S, NEW y \in S, UnitKey(x) = UnitKey(y)
               PROVE  x = y
    OBVIOUS
  <2>1. x.m = y.m /\ x.n = y.n /\ x.k = y.k /\ -x.repeats = -y.repeats
    BY DEF UnitKey
  <2>2. x.repeats = y.repeats
    BY <1>2, <2>1
  <2>3. QED
    BY <1>1, <2>1, <2>2 DEF UnitsWithin
<1>5. HasKeys(S, key, 5)
  BY <1>3, <1>4 DEF HasKeys
<1>6. \A x \in S : key[x] = UnitKey(x)
  OBVIOUS
<1>7. \A x, y \in S : UnitBefore(y, x) <=> <<y, x>> \in ByKeys(S, key)
  BY <1>6 DEF UnitBefore, ByKeys, Lex
<1> HIDE DEF key
<1>8. \A x \in S : {y \in S : UnitBefore(y, x)} = Below(ByKeys(S, key), S, x)
  BY <1>7 DEF Below
<1>9. ASSUME NEW i \in 1..Cardinality(S), \E x \in S : KeyAt(S, key, x, i)
      PROVE  s[i] \in S /\ KeyAt(S, key, s[i], i)
  <2>1. \E x \in S : Cardinality({y \in S : UnitBefore(y, x)}) = i - 1
    BY <1>8, <1>9 DEF KeyAt
  <2>2. s[i] = UnitAt(shape, tile, i)
    BY UnitsAre
  <2>3. UnitAt(shape, tile, i) = CHOOSE x \in S : Cardinality({y \in S : UnitBefore(y, x)}) = i - 1
    BY DEF UnitAt
  <2> HIDE DEF S, s
  <2>4. s[i] \in S /\ Cardinality({y \in S : UnitBefore(y, s[i])}) = i - 1
    BY <2>1, <2>2, <2>3
  <2>5. QED
    BY <1>8, <2>4 DEF KeyAt
<1>10. s = [i \in 1..Cardinality(S) |-> s[i]]
  BY UnitsAre
<1> HIDE DEF S, s
<1>11. s \in Seq(S)
  <2>1. InPlaces(S, key, s)
    BY <1>9, <1>10 DEF InPlaces
  <2>2. QED
    BY <1>1, <1>5, <2>1, SortedByKeys
<1>12. s \in Seq(UnitsWithin(shape))
  BY <1>1, <1>11
<1>13. QED
  BY <1>12 DEF s

\* What a unit takes, and units one after the other
UnitTime(says, target, u) == u.repeats * says[target][TileOf(u.m, u.n, u.k)]
TimeEquation(it, says, target, s) ==
  it = [T \in SUBSET DOMAIN s |->
          IF T = {} THEN 0
          ELSE LET i == Max(T) IN it[T \ {i}] + UnitTime(says, target, s[i])]
Timer(says, target, s) == CHOOSE it : TimeEquation(it, says, target, s)
TimeUpTo(says, target, s, i) == Timer(says, target, s)[1..i]
TimeOfAll(says, target, s) == Timer(says, target, s)[DOMAIN s]

LEMMA TimeOfFolds ==
  ASSUME NEW target, NEW shape, NEW tile
  PROVE  TimeOf(target, shape, tile) = TimeOfAll(opts.says, target, Units(shape, tile))
BY DEF TimeOf, UnitTotal, UnitTime, FoldLeft, MapThenFoldSet, Timer, TimeEquation, TimeOfAll

LEMMA RowTimeFolds ==
  ASSUME NEW target, NEW shape, NEW tile
  PROVE  FoldLeft(LAMBDA a, u : a + u.repeats * opts.says[target][TileOf(u.m, u.n, u.k)],
                  0, Units(shape, tile))
           = TimeOfAll(opts.says, target, Units(shape, tile))
BY DEF UnitTime, FoldLeft, MapThenFoldSet, Timer, TimeEquation, TimeOfAll

\* What the simulator can say of the units of a shape
Clocks(target, shape) == {says \in UnitCycles : \A t \in TilesWithin(shape) : says[target][t] \in Nat}

LEMMA TimesRun ==
  ASSUME NEW target, NEW shape \in Shapes, NEW tile \in TilesWithin(shape),
         NEW says \in Clocks(target, shape)
  PROVE  LET s == Units(shape, tile)
         IN  /\ TimeUpTo(says, target, s, 0) = 0
             /\ \A i \in 1..Len(s) : TimeUpTo(says, target, s, i) =
                  TimeUpTo(says, target, s, i - 1) + UnitTime(says, target, s[i])
             /\ TimeOfAll(says, target, s) = TimeUpTo(says, target, s, Len(s))
             /\ TimeOfAll(says, target, s) \in Nat
<1> DEFINE s == Units(shape, tile)
           B == UnitsWithin(shape)
           W == [u \in B |-> UnitTime(says, target, u)]
           it == Timer(says, target, s)
<1>1. s \in Seq(B)
  BY UnitsFacts
<1>2. W \in [B -> Nat]
  <2> SUFFICES ASSUME NEW u \in B
               PROVE  UnitTime(says, target, u) \in Nat
    OBVIOUS
  <2>1. TileOf(u.m, u.n, u.k) \in TilesWithin(shape) /\ u.repeats \in Nat
    BY DEF UnitsWithin, TilesWithin, TileOf
  <2>2. says[target][TileOf(u.m, u.n, u.k)] \in Nat
    BY <2>1 DEF Clocks
  <2>3. QED
    BY <2>1, <2>2 DEF UnitTime
<1>3. \A u \in B : W[u] = UnitTime(says, target, u)
  OBVIOUS
<1> HIDE DEF s, W, B
<1>4. Len(s) \in Nat /\ DOMAIN s = 1..Len(s) /\ \A i \in 1..Len(s) : s[i] \in B
  BY <1>1
<1>5. \A T \in SUBSET DOMAIN s : T # {} => s[Max(T)] \in B
  <2> SUFFICES ASSUME NEW T \in SUBSET (1..Len(s)), T # {}
               PROVE  s[Max(T)] \in B
    BY <1>4
  <2>1. Max(T) \in 1..Len(s)
    BY <1>4, MaxPlace
  <2>2. QED
    BY <1>4, <2>1
<1>6. \A T \in SUBSET DOMAIN s : T # {} => W[s[Max(T)]] = UnitTime(says, target, s[Max(T)])
  BY <1>3, <1>5
<1>7. PICK h : SumEquation(h, W, s)
  BY <1>1, <1>2, SumsExist
<1>8. TimeEquation(h, says, target, s)
  BY <1>6, <1>7 DEF SumEquation, TimeEquation
<1>9. TimeEquation(it, says, target, s)
  BY <1>8 DEF Timer
<1> HIDE DEF it
<1>10. SumEquation(it, W, s)
  BY <1>6, <1>9 DEF SumEquation, TimeEquation
<1>11. /\ it[1..0] = 0
       /\ \A i \in 1..Len(s) : it[1..i] = it[1..(i - 1)] + W[s[i]]
       /\ \A i \in 0..Len(s) : it[1..i] \in Nat
  BY <1>1, <1>2, <1>10, SumsRun
<1>12. Len(s) \in 0..Len(s)
  BY <1>4
<1>13. /\ it[1..0] = 0
       /\ \A i \in 1..Len(s) : it[1..i] = it[1..(i - 1)] + UnitTime(says, target, s[i])
       /\ it[DOMAIN s] = it[1..Len(s)] /\ it[DOMAIN s] \in Nat
  BY <1>3, <1>4, <1>11, <1>12
<1>14. QED
  BY <1>13 DEF s, it, TimeUpTo, TimeOfAll

-----------------------------------------------------------------------------
(* The plan of an experiment *)

ExperimentOptions ==
  [score : TileScores, says : UnitCycles, oracle : BOOLEAN, external : BOOLEAN,
   imported : {<<>>, <<TileOf(2, 2, 1)>>}]
EntriesOf(o) ==
  {Entry(x[1], x[2], x[3], o) : x \in (DOMAIN Targets) \X (DOMAIN Gemms) \X ToSet(Strategies)}

LEMMA InstancesAre ==
  /\ \A x \in DOMAIN Targets : Targets[x] \in Accelerators
  /\ \A s \in DOMAIN Gemms : Gemms[s] \in Shapes
  /\ \A s \in DOMAIN Gemms, score \in TileScores : score \in Scores(Gemms[s])
  /\ \A x \in DOMAIN Targets, s \in DOMAIN Gemms, says \in UnitCycles : says \in Clocks(x, Gemms[s])
<1>1. Targets \in Seq(Accelerators) /\ Gemms \in Seq(Shapes)
  BY TilingAssumption DEF Accelerators, Shapes
<1>2. /\ \A x \in DOMAIN Targets : Targets[x] \in Accelerators
      /\ \A s \in DOMAIN Gemms : Gemms[s] \in Shapes
  BY <1>1
<1>3. \A s \in DOMAIN Gemms : \A t \in TilesWithin(Gemms[s]) :
        /\ \A score \in TileScores : score[t] \in Int
        /\ \A says \in UnitCycles, x \in DOMAIN Targets : says[x][t] \in Nat
  BY TilingAssumption
<1>4. \A s \in DOMAIN Gemms, score \in TileScores : score \in Scores(Gemms[s])
  BY <1>3 DEF Scores
<1>5. \A x \in DOMAIN Targets, s \in DOMAIN Gemms, says \in UnitCycles : says \in Clocks(x, Gemms[s])
  BY <1>3 DEF Clocks
<1>6. QED
  BY <1>2, <1>4, <1>5

\* The tile an entry is made with is one of those it is to measure, all of them lie
\* within its shape, and those of an oracle start with the recommended one.
LEMMA EntryFacts ==
  ASSUME NEW o \in ExperimentOptions, NEW x \in DOMAIN Targets, NEW g \in DOMAIN Gemms,
         NEW st \in ToSet(Strategies)
  PROVE  LET e == Entry(x, g, st, o)
             sorted == RankedTiles(Targets[x], Gemms[g], o.score)
         IN  /\ e.target = x /\ e.shape = g /\ e.strategy = st
             /\ DOMAIN e = {"target", "shape", "strategy", "tile", "estimated", "repeats", "tiles"}
             /\ e.tiles \in Seq(TilesWithin(Gemms[g])) /\ Len(e.tiles) >= 1
             /\ st = "oracle_tiling" =>
                  /\ e.tiles[1] = sorted[1] /\ e.tile = sorted[1]
                  /\ \A i \in 1..Len(e.tiles) : e.tiles[i] \in CandidatesOf(Targets[x], Gemms[g])
             /\ st = "recommended_tiling" /\ o.imported = <<>> =>
                  e.tile = sorted[1] /\ e.tiles = <<sorted[1]>>
<1> DEFINE target == Targets[x]
           shape == Gemms[g]
           order == RankedTiles(target, shape, o.score)
           tile == TileFor(target, shape, st, o.score, o.imported)
           made == Entry(x, g, st, o)
           n == Min({OracleTopK, Len(order)})
           tiles == IF st = "oracle_tiling" THEN SubSeq(order, 1, n) ELSE <<tile>>
<1>1. target \in Accelerators /\ shape \in Shapes /\ o.score \in Scores(shape)
  BY InstancesAre DEF ExperimentOptions
<1>2. made = [target |-> x, shape |-> g, strategy |-> st, tile |-> tile,
           estimated |-> o.score[tile], repeats |-> SumRepeats(shape, tile), tiles |-> tiles]
  BY DEF Entry
<1>3. order \in Seq(CandidatesOf(target, shape)) /\ Len(order) >= 1
  BY <1>1, RankedFacts
<1>4. CandidatesOf(target, shape) \subseteq TilesWithin(shape)
  BY <1>1, CandidatesAreWithin
<1>5. tile = CASE st = "no_tiling" -> shape
               [] st = "baseline_tiling" -> BaselineOf(target, shape)
               [] st = "recommended_tiling" /\ o.imported # <<>> -> Clamped(shape, o.imported[1])
               [] OTHER -> order[1]
  BY DEF TileFor
<1>6. o.imported = <<>> \/ o.imported = <<TileOf(2, 2, 1)>>
  BY DEF ExperimentOptions
<1>7. st \in {"no_tiling", "baseline_tiling", "recommended_tiling", "oracle_tiling"}
  BY DEF ToSet, Strategies
<1> HIDE DEF made, tile, order, target, shape
<1>8. Len(order) \in Nat /\ order[1] \in CandidatesOf(target, shape)
  BY <1>3
<1>9. tile \in TilesWithin(shape)
  <2>1. shape \in TilesWithin(shape) /\ BaselineOf(target, shape) \in TilesWithin(shape)
    BY <1>1, WithinIsSize, BaselineIsWithin
  <2>2. ASSUME o.imported # <<>>
        PROVE  Clamped(shape, o.imported[1]) \in TilesWithin(shape)
    <3>1. o.imported[1] = TileOf(2, 2, 1)
      BY <1>6, <2>2
    <3>2. TileOf(2, 2, 1) \in Sizes
      BY DEF TileOf, Sizes
    <3>3. QED
      BY <1>1, <3>1, <3>2, ClampedIsWithin
  <2>3. QED
    BY <1>4, <1>5, <1>7, <1>8, <2>1, <2>2
<1>10. st = "oracle_tiling" \/ (st = "recommended_tiling" /\ o.imported = <<>>) => tile = order[1]
  BY <1>5
<1>11. n \in Nat /\ 1 <= n /\ n <= Len(order)
  <2>1. OracleTopK \in Nat /\ OracleTopK >= 1
    BY TilingAssumption DEF AtLeastOne
  <2>2. n \in {OracleTopK, Len(order)} /\ n <= Len(order)
    BY <1>8, <2>1, LeastOfTwo
  <2> HIDE DEF n
  <2>3. QED
    BY <1>3, <1>8, <2>1, <2>2
<1> HIDE DEF n
<1>12. ASSUME st = "oracle_tiling"
       PROVE  /\ tiles \in Seq(CandidatesOf(target, shape)) /\ Len(tiles) >= 1
              /\ tiles[1] = order[1]
  <2>1. tiles = SubSeq(order, 1, n)
    BY <1>12
  <2>2. SubSeq(order, 1, n) \in Seq(CandidatesOf(target, shape))
    BY <1>3, <1>11, SubSeqElements
  <2>3. Len(SubSeq(order, 0 + 1, n)) = n - 0 /\ SubSeq(order, 0 + 1, n)[1] = order[0 + 1]
    BY <1>3, <1>11, SubSeqPlaces
  <2>4. QED
    BY <1>11, <2>1, <2>2, <2>3
<1>13. ASSUME st # "oracle_tiling"
       PROVE  tiles = <<tile>>
  BY <1>13
<1> HIDE DEF tiles
<1>14. tiles \in Seq(TilesWithin(shape)) /\ Len(tiles) >= 1
  <2>1. <<tile>> \in Seq(TilesWithin(shape)) /\ Len(<<tile>>) = 1
    BY <1>9
  <2>2. CASE st = "oracle_tiling"
    BY <1>4, <1>12, <2>2
  <2>3. CASE st # "oracle_tiling"
    <3> DEFINE one == <<tile>>
    <3>1. tiles = one
      BY <1>13, <2>3
    <3>2. one \in Seq(TilesWithin(shape)) /\ Len(one) >= 1
      BY <2>1
    <3> HIDE DEF one
    <3>3. QED
      BY <3>1, <3>2
  <2>4. QED
    BY <2>2, <2>3
<1>15. st = "oracle_tiling" => \A i \in 1..Len(tiles) : tiles[i] \in CandidatesOf(target, shape)
  BY <1>12
<1>16. /\ made.target = x /\ made.shape = g /\ made.strategy = st /\ made.tile = tile /\ made.tiles = tiles
       /\ DOMAIN made = {"target", "shape", "strategy", "tile", "estimated", "repeats", "tiles"}
  BY <1>2
<1>17. QED
  BY <1>10, <1>12, <1>13, <1>14, <1>15, <1>16 DEF made, order, target, shape

LEMMA PlanIsOfEntries ==
  ASSUME NEW o \in ExperimentOptions
  PROVE  PlanOf(o) \in Seq(EntriesOf(o))
<1> DEFINE E == EntriesOf(o)
           row(x, g) == [i \in DOMAIN Asked(o) |-> Entry(x, g, Asked(o)[i], o)]
           block(x) == FlattenSeq([g \in DOMAIN Gemms |-> row(x, g)])
<1>1. Asked(o) \in Seq(ToSet(Strategies))
  <2>1. Strategies \in Seq({"no_tiling", "baseline_tiling", "recommended_tiling", "oracle_tiling"})
        /\ Len(Strategies) = 4
        /\ ToSet(Strategies) = {"no_tiling", "baseline_tiling", "recommended_tiling", "oracle_tiling"}
    BY DEF Strategies, ToSet
  <2> HIDE DEF Strategies
  <2>2. SubSeq(Strategies, 1, 3) \in Seq(ToSet(Strategies))
    BY <2>1, SubSeqElements
  <2>3. QED
    BY <2>1, <2>2 DEF Asked
<1>2. ASSUME NEW x \in DOMAIN Targets, NEW g \in DOMAIN Gemms
      PROVE  row(x, g) \in Seq(E)
  <2>1. Len(Asked(o)) \in Nat /\ DOMAIN Asked(o) = 1..Len(Asked(o))
        /\ \A i \in 1..Len(Asked(o)) : Asked(o)[i] \in ToSet(Strategies)
    BY <1>1
  <2>2. \A st \in ToSet(Strategies) : Entry(x, g, st, o) \in E
    <3> SUFFICES ASSUME NEW st \in ToSet(Strategies)
                 PROVE  Entry(x, g, st, o) \in E
      OBVIOUS
    <3>1. <<x, g, st>> \in (DOMAIN Targets) \X (DOMAIN Gemms) \X ToSet(Strategies)
      OBVIOUS
    <3>2. QED
      BY <3>1 DEF EntriesOf
  <2> DEFINE n == Len(Asked(o))
  <2> HIDE DEF E
  <2>3. row(x, g) \in [1..n -> E]
    BY <2>1, <2>2
  <2> HIDE DEF n, row
  <2>4. QED
    BY <2>1, <2>3, OnePlaceEach DEF n
<1> HIDE DEF row, E
<1>3. ASSUME NEW x \in DOMAIN Targets
      PROVE  block(x) \in Seq(E)
  <2>1. Len(Gemms) \in Nat /\ DOMAIN Gemms = 1..Len(Gemms)
    BY TilingAssumption
  <2> DEFINE n == Len(Gemms)
             b == [g \in DOMAIN Gemms |-> row(x, g)]
  <2>2. b \in [1..n -> Seq(E)]
    BY <1>2, <2>1
  <2> HIDE DEF n, b
  <2>3. b \in Seq(Seq(E))
    BY <2>1, <2>2, OnePlaceEach DEF n
  <2>4. FlattenSeq(b) \in Seq(E)
    BY <2>3, FlattenFacts
  <2>5. QED
    BY <2>4 DEF b
<1>4. PlanOf(o) = FlattenSeq([x \in DOMAIN Targets |-> block(x)])
  BY DEF PlanOf, row
<1> HIDE DEF block
<1> DEFINE n == Len(Targets)
           b == [x \in DOMAIN Targets |-> block(x)]
<1>5. n \in Nat /\ DOMAIN Targets = 1..n
  BY TilingAssumption
<1>6. b \in [1..n -> Seq(E)]
  <2> HIDE DEF n
  <2>1. QED
    BY <1>3, <1>5
<1> HIDE DEF n, b
<1>7. b \in Seq(Seq(E))
  BY <1>5, <1>6, OnePlaceEach
<1>8. FlattenSeq(b) \in Seq(E)
  BY <1>7, FlattenFacts
<1>9. QED
  BY <1>4, <1>8 DEF b, E

-----------------------------------------------------------------------------
(* What is known while an experiment measures *)

WholeTime(o, e, t) == TimeOfAll(o.says, e.target, Units(Gemms[e.shape], t))
\* Of the first n tiles of an entry, the best and what it took
BestAmong(b, e, o, n) ==
  \E j \in 1..n :
    /\ b = [tile |-> e.tiles[j], cycles |-> WholeTime(o, e, e.tiles[j])]
    /\ \A i \in 1..n : WholeTime(o, e, e.tiles[j]) <= WholeTime(o, e, e.tiles[i])
BestSoFar(b, e, o, n) == IF n = 0 THEN b = <<>> ELSE b = <<b[1]>> /\ BestAmong(b[1], e, o, n)
Progress(e, o, n, u, sum) ==
  /\ n \in Nat /\ n < Len(e.tiles)
  /\ LET s == Units(Gemms[e.shape], e.tiles[n + 1])
     IN  u \in 1..(Len(s) + 1) /\ sum = TimeUpTo(o.says, e.target, s, u - 1)
RowTrue(r, e, o) ==
  /\ r.entry.target = e.target /\ r.entry.shape = e.shape /\ r.entry.strategy = e.strategy
  /\ \/ /\ r.status = "ok"
        /\ BestAmong([tile |-> r.entry.tile, cycles |-> r.cycles], e, o, Len(e.tiles))
        /\ r.entry.estimated = o.score[r.entry.tile]
        /\ r.entry.repeats = SumRepeats(Gemms[e.shape], r.entry.tile)
     \/ r.cycles = 0 /\ r.status = IF o.external THEN "failed" ELSE "skipped"
RowsKnown(res, es, o) ==
  /\ \E R : res \in Seq(R)
  /\ Len(res) <= Len(es)
  /\ \A i \in 1..Len(res) : RowTrue(res[i], es[i], o)
NoneFailed(res, n) == \A i \in 1..n : res[i].status # "failed"

Phases == {"plan", "entry", "unit", "dry", "done", "stopped"}
NotSaved == csv = [rows |-> <<>>, totals |-> {}]
PhaseKnown ==
  /\ xpc \in Phases
  /\ xpc = "plan" => results = <<>>
  /\ xpc # "plan" => entries \in Seq(EntriesOf(opts))
  /\ xpc \in {"plan", "entry", "unit", "dry"} => NotSaved
  /\ xpc \in {"done", "stopped"} => csv.rows = results
  /\ xpc = "done" => Len(results) = Len(entries)
  /\ xpc = "stopped" => /\ Len(results) > 0 /\ results[Len(results)].status = "failed"
                        /\ NoneFailed(results, Len(results) - 1) /\ csv.totals = {}
  /\ xpc # "stopped" => NoneFailed(results, Len(results))
TileKnown ==
  IF xpc = "unit"
  THEN /\ Len(results) < Len(entries)
       /\ Progress(Current, opts, tried, unit, cyclesSum)
       /\ BestSoFar(best, Current, opts, tried)
  ELSE tried = 0 /\ unit = 1 /\ cyclesSum = 0 /\ best = <<>>
MeasureInv ==
  opts \in ExperimentOptions /\ RowsKnown(results, entries, opts) /\ PhaseKnown /\ TileKnown

BenchInv ==
  /\ DOMAIN bench = {"samples", "rows", "disk", "totals", "at"}
  /\ \E R : bench.rows \in Seq(R) /\ bench.disk \in Seq(R)
  /\ \A i \in 1..Len(bench.rows) : bench.rows[i].entry = bench.samples[i]
  /\ bench.at = "off" => bench.rows = <<>> /\ bench.disk = <<>>
  /\ bench.at \in {"measure", "done"} => bench.disk = bench.rows
  /\ bench.at = "save" => Len(bench.disk) = Len(bench.rows) - 1
  /\ bench.at = "done" => Len(bench.rows) = Len(bench.samples)
  /\ Len(bench.disk) \in {Len(bench.rows), Len(bench.rows) - 1}
  /\ \A i \in 1..Len(bench.disk) : bench.disk[i] = bench.rows[i]

LEMMA EntryKnown ==
  ASSUME NEW o \in ExperimentOptions, NEW e \in EntriesOf(o)
  PROVE  /\ e.target \in DOMAIN Targets /\ e.shape \in DOMAIN Gemms
         /\ DOMAIN e = {"target", "shape", "strategy", "tile", "estimated", "repeats", "tiles"}
         /\ e.tiles \in Seq(TilesWithin(Gemms[e.shape])) /\ Len(e.tiles) >= 1
         /\ e.strategy \in ToSet(Strategies) /\ e = Entry(e.target, e.shape, e.strategy, o)
<1>1. PICK x \in DOMAIN Targets, g \in DOMAIN Gemms, st \in ToSet(Strategies) : e = Entry(x, g, st, o)
  BY DEF EntriesOf
<1>2. QED
  BY <1>1, EntryFacts

LEMMA TilesTakeTime ==
  ASSUME NEW o \in ExperimentOptions, NEW e \in EntriesOf(o), NEW t \in TilesWithin(Gemms[e.shape])
  PROVE  LET s == Units(Gemms[e.shape], t)
         IN  /\ Len(s) \in Nat
             /\ TimeUpTo(o.says, e.target, s, 0) = 0
             /\ \A i \in 1..Len(s) : /\ s[i] \in UnitsWithin(Gemms[e.shape])
                                     /\ TimeUpTo(o.says, e.target, s, i) =
                                          TimeUpTo(o.says, e.target, s, i - 1)
                                            + UnitTime(o.says, e.target, s[i])
             /\ WholeTime(o, e, t) = TimeUpTo(o.says, e.target, s, Len(s))
             /\ WholeTime(o, e, t) \in Nat
<1>1. e.target \in DOMAIN Targets /\ e.shape \in DOMAIN Gemms
  BY EntryKnown
<1>2. Gemms[e.shape] \in Shapes /\ o.says \in Clocks(e.target, Gemms[e.shape])
  BY <1>1, InstancesAre DEF ExperimentOptions
<1>3. Units(Gemms[e.shape], t) \in Seq(UnitsWithin(Gemms[e.shape]))
  BY <1>2, UnitsFacts
<1>4. QED
  BY <1>2, <1>3, TimesRun DEF WholeTime

\* The better of the best so far and the next one is the best of all of them.
LEMMA BetterIsBest ==
  ASSUME NEW o \in ExperimentOptions, NEW e \in EntriesOf(o), NEW n \in Nat, n < Len(e.tiles),
         NEW b, BestSoFar(b, e, o, n)
  PROVE  LET next == [tile |-> e.tiles[n + 1], cycles |-> WholeTime(o, e, e.tiles[n + 1])]
         IN  BestAmong(IF b = <<>> \/ next.cycles < b[1].cycles THEN next ELSE b[1], e, o, n + 1)
<1> DEFINE T(i) == WholeTime(o, e, e.tiles[i])
           next == [tile |-> e.tiles[n + 1], cycles |-> T(n + 1)]
<1>1. \A i \in 1..(n + 1) : T(i) \in Nat
  <2> SUFFICES ASSUME NEW i \in 1..(n + 1)
               PROVE  T(i) \in Nat
    OBVIOUS
  <2>1. i \in 1..Len(e.tiles) /\ e.tiles \in Seq(TilesWithin(Gemms[e.shape]))
    BY EntryKnown
  <2>2. e.tiles[i] \in TilesWithin(Gemms[e.shape])
    BY <2>1
  <2>3. QED
    BY <2>2, TilesTakeTime
<1>2. next.cycles = T(n + 1)
  OBVIOUS
<1> HIDE DEF T
<1>3. BestAmong(next, e, o, n + 1) <=>
        \E j \in 1..(n + 1) : /\ next = [tile |-> e.tiles[j], cycles |-> T(j)]
                              /\ \A i \in 1..(n + 1) : T(j) <= T(i)
  BY DEF BestAmong, T
<1>4. CASE n = 0
  <2>1. b = <<>> /\ n + 1 \in 1..(n + 1) /\ \A i \in 1..(n + 1) : i = n + 1
    BY <1>4 DEF BestSoFar
  <2>4. T(n + 1) <= T(n + 1)
    BY <1>1, <2>1
  <2>5. \A i \in 1..(n + 1) : T(n + 1) <= T(i)
    BY <2>1, <2>4
  <2>2. BestAmong(next, e, o, n + 1)
    BY <1>3, <2>1, <2>5
  <2>3. QED
    BY <2>1, <2>2 DEF T
<1>5. CASE n # 0
  <2>1. b = <<b[1]>> /\ BestAmong(b[1], e, o, n)
    BY <1>5 DEF BestSoFar
  <2>2. b # <<>>
    <3>1. \A x : <<x>> # <<>>
      OBVIOUS
    <3>2. QED
      BY <2>1, <3>1
  <2>3. PICK j \in 1..n : /\ b[1] = [tile |-> e.tiles[j], cycles |-> T(j)]
                          /\ \A i \in 1..n : T(j) <= T(i)
    BY <2>1 DEF BestAmong, T
  <2>4. j \in 1..(n + 1) /\ n + 1 \in 1..(n + 1) /\ \A i \in 1..(n + 1) : i \in 1..n \/ i = n + 1
    OBVIOUS
  <2>5. b[1].cycles = T(j)
    BY <2>3
  <2>6. CASE T(n + 1) < T(j)
    <3>1. \A i \in 1..(n + 1) : T(n + 1) <= T(i)
      BY <1>1, <2>3, <2>4, <2>6
    <3>2. BestAmong(next, e, o, n + 1)
      BY <1>3, <2>4, <3>1
    <3>3. QED
      BY <1>2, <2>5, <2>6, <3>2 DEF T
  <2>7. CASE ~(T(n + 1) < T(j))
    <3>1. \A i \in 1..(n + 1) : T(j) <= T(i)
      BY <1>1, <2>3, <2>4, <2>7, SMTT(30)
    <3>2. BestAmong(b[1], e, o, n + 1)
      BY <2>3, <2>4, <3>1 DEF BestAmong, T
    <3>3. QED
      BY <1>2, <2>2, <2>5, <2>7, <3>2 DEF T
  <2>8. QED
    BY <2>6, <2>7
<1>6. QED
  BY <1>4, <1>5

LEMMA RowsGrow ==
  ASSUME NEW res, NEW E, NEW es \in Seq(E), NEW o, RowsKnown(res, es, o), Len(res) < Len(es),
         NEW r, RowTrue(r, es[Len(res) + 1], o)
  PROVE  /\ RowsKnown(Append(res, r), es, o)
         /\ Len(Append(res, r)) = Len(res) + 1 /\ Append(res, r)[Len(res) + 1] = r
         /\ \A i \in 1..Len(res) : Append(res, r)[i] = res[i]
         /\ Len(res) \in Nat
<1>1. PICK R : res \in Seq(R)
  BY DEF RowsKnown
<1> DEFINE Q == R \cup {r}
           new == Append(res, r)
           n == Len(res)
<1>2. res \in Seq(Q) /\ r \in Q
  BY <1>1
<1> HIDE DEF Q
<1>3. /\ new \in Seq(Q) /\ Len(new) = n + 1 /\ new[n + 1] = r /\ n \in Nat
      /\ \A i \in 1..n : new[i] = res[i]
  BY <1>2
<1> HIDE DEF new, n
<1>4. \A i \in 1..n : RowTrue(res[i], es[i], o)
  BY DEF RowsKnown, n
<1>5. \A i \in 1..(n + 1) : i \in 1..n \/ i = n + 1
  BY <1>3
<1>6. \A i \in 1..Len(new) : RowTrue(new[i], es[i], o)
  <2>1. RowTrue(r, es[n + 1], o)
    BY DEF n
  <2>2. QED
    BY <1>3, <1>4, <1>5, <2>1
<1>7. Len(new) <= Len(es)
  <2>1. n < Len(es) /\ Len(es) \in Int
    BY DEF n
  <2>2. QED
    BY <1>3, <2>1
<1>8. QED
  BY <1>3, <1>6, <1>7 DEF RowsKnown, new, n

LEMMA ExperimentStarts == ExperimentInit => MeasureInv /\ BenchInv
<1> SUFFICES ASSUME ExperimentInit
             PROVE  MeasureInv /\ BenchInv
  OBVIOUS
<1>1. opts \in ExperimentOptions
  BY DEF ExperimentInit, ExperimentOptions
<1>2. /\ results = <<>> /\ xpc = "plan" /\ entries = <<>>
      /\ tried = 0 /\ unit = 1 /\ cyclesSum = 0 /\ best = <<>>
      /\ csv = [rows |-> <<>>, totals |-> {}]
      /\ bench = [samples |-> <<>>, rows |-> <<>>, disk |-> <<>>, totals |-> {}, at |-> "off"]
  BY DEF ExperimentInit
<1>3. Len(<<>>) = 0 /\ <<>> \in Seq({})
  OBVIOUS
<1>4. RowsKnown(results, entries, opts)
  BY <1>2, <1>3 DEF RowsKnown
<1>5. PhaseKnown
  BY <1>2, <1>3 DEF PhaseKnown, Phases, NotSaved, NoneFailed
<1>6. TileKnown
  BY <1>2 DEF TileKnown
<1>7. BenchInv
  BY <1>2, <1>3 DEF BenchInv
<1>8. QED
  BY <1>1, <1>4, <1>5, <1>6, <1>7 DEF MeasureInv

LEMMA BenchSteps == BenchInv /\ [ExperimentNext]_xvars => BenchInv'
<1> SUFFICES ASSUME BenchInv, [ExperimentNext]_xvars
             PROVE  BenchInv'
  OBVIOUS
<1>a. PICK R : bench.rows \in Seq(R) /\ bench.disk \in Seq(R)
  BY DEF BenchInv
<1>1. CASE UNCHANGED bench
  BY <1>1 DEF BenchInv
<1>2. CASE BenchStarts
  <2>1. bench.at = "off" /\ bench.rows = <<>> /\ bench.disk = <<>>
    BY <1>2 DEF BenchStarts, BenchInv
  <2>2. PICK samples : bench' = [bench EXCEPT !.samples = samples,
                                   !.at = IF samples = <<>> THEN "nothing" ELSE "measure"]
    BY <1>2 DEF BenchStarts
  <2>3. /\ bench'.rows = <<>> /\ bench'.disk = <<>> /\ bench'.at \in {"nothing", "measure"}
        /\ DOMAIN bench' = {"samples", "rows", "disk", "totals", "at"}
    BY <2>1, <2>2 DEF BenchInv
  <2>4. Len(<<>>) = 0 /\ <<>> \in Seq({})
    OBVIOUS
  <2>5. QED
    BY <2>3, <2>4 DEF BenchInv
<1>3. CASE BenchSample
  <2>1. bench.at = "measure" /\ bench.disk = bench.rows
    BY <1>3 DEF BenchSample, BenchInv
  <2>2. PICK r : /\ bench' = [bench EXCEPT !.rows = Append(@, r), !.at = "save"]
                 /\ r.entry = bench.samples[Len(bench.rows) + 1]
    <3> DEFINE e == bench.samples[Len(bench.rows) + 1]
               row(status, time) == [entry |-> e, status |-> status, time |-> time]
               appended(r) == bench' = [bench EXCEPT !.rows = Append(@, r), !.at = "save"]
    <3>1. \/ appended(row("skipped", 0))
          \/ appended(row("ok", opts.says[e.target][e.tile]))
          \/ appended(row("failed", 0))
      BY <1>3 DEF BenchSample
    <3>2. \A status, time : row(status, time).entry = e
      OBVIOUS
    <3> HIDE DEF row, appended, e
    <3>3. \E r : appended(r) /\ r.entry = e
      BY <3>1, <3>2
    <3>4. QED
      BY <3>3 DEF appended, e
  <2> DEFINE Q == R \cup {r}
             old == bench.rows
             new == Append(old, r)
  <2>3. /\ bench'.rows = new /\ bench'.disk = old /\ bench'.at = "save"
        /\ bench'.samples = bench.samples
        /\ DOMAIN bench' = {"samples", "rows", "disk", "totals", "at"}
    BY <2>1, <2>2 DEF BenchInv
  <2>4. old \in Seq(Q) /\ r \in Q
    BY <1>a
  <2> HIDE DEF Q
  <2>5. /\ new \in Seq(Q) /\ Len(old) \in Nat /\ Len(new) = Len(old) + 1
        /\ new[Len(old) + 1] = r /\ \A i \in 1..Len(old) : new[i] = old[i]
    BY <2>4
  <2>6. \A i \in 1..Len(old) : old[i].entry = bench.samples[i]
    BY DEF BenchInv
  <2>7. r.entry = bench.samples[Len(old) + 1]
    BY <2>2
  <2> HIDE DEF new, old
  <2>8. \A i \in 1..Len(new) : new[i].entry = bench.samples[i]
    <3>1. \A i \in 1..Len(new) : i \in 1..Len(old) \/ i = Len(old) + 1
      BY <2>5
    <3>2. QED
      BY <2>5, <2>6, <2>7, <3>1
  <2>9. Len(old) = Len(new) - 1 /\ \A i \in 1..Len(old) : old[i] = new[i]
    BY <2>5
  <2>10. QED
    BY <2>3, <2>4, <2>5, <2>8, <2>9 DEF BenchInv
<1>4. CASE BenchSave
  <2>1. bench' = [bench EXCEPT !.disk = bench.rows, !.at = "measure"]
    BY <1>4 DEF BenchSave
  <2>2. /\ bench'.rows = bench.rows /\ bench'.disk = bench.rows /\ bench'.at = "measure"
        /\ bench'.samples = bench.samples
        /\ DOMAIN bench' = {"samples", "rows", "disk", "totals", "at"}
    BY <2>1 DEF BenchInv
  <2>3. QED
    BY <1>a, <2>2 DEF BenchInv
<1>5. CASE BenchDies
  <2>1. bench' = [bench EXCEPT !.at = "dead"]
    BY <1>5 DEF BenchDies
  <2>2. /\ bench'.rows = bench.rows /\ bench'.disk = bench.disk /\ bench'.at = "dead"
        /\ bench'.samples = bench.samples
        /\ DOMAIN bench' = {"samples", "rows", "disk", "totals", "at"}
    BY <2>1 DEF BenchInv
  <2>3. QED
    BY <1>a, <2>2 DEF BenchInv
<1>6. CASE BenchEnds
  <2>1. bench.at = "measure" /\ Len(bench.rows) = Len(bench.samples)
    BY <1>6 DEF BenchEnds
  <2> DEFINE totals == {g \in TotalsOf(bench.rows, "time") : g.ok > 0}
  <2>2. bench' = [bench EXCEPT !.at = "done", !.totals = totals]
    BY <1>6 DEF BenchEnds
  <2> HIDE DEF totals
  <2>3. /\ bench'.rows = bench.rows /\ bench'.disk = bench.disk /\ bench'.at = "done"
        /\ bench'.samples = bench.samples
        /\ DOMAIN bench' = {"samples", "rows", "disk", "totals", "at"}
    BY <2>2 DEF BenchInv
  <2>4. QED
    BY <1>a, <2>1, <2>3 DEF BenchInv
<1>7. QED
  BY <1>1, <1>2, <1>3, <1>4, <1>5, <1>6
     DEF ExperimentNext, MakePlan, StartEntry, UnitReported, CommandFails, EntryFails,
         TileMeasured, ExperimentEnds, xvars

\* A row that is appended while the experiment measures
LEMMA NoneFailedGrows ==
  ASSUME NEW res, NEW new, NEW n \in Nat, NoneFailed(res, n),
         \A i \in 1..n : new[i] = res[i], new[n + 1].status # "failed"
  PROVE  NoneFailed(new, n + 1)
<1>1. \A i \in 1..(n + 1) : i \in 1..n \/ i = n + 1
  OBVIOUS
<1>2. QED
  BY <1>1 DEF NoneFailed

LEMMA MeasureSteps == MeasureInv /\ [ExperimentNext]_xvars => MeasureInv'
<1> SUFFICES ASSUME MeasureInv, [ExperimentNext]_xvars
             PROVE  MeasureInv'
  OBVIOUS
<1>a. /\ opts \in ExperimentOptions /\ RowsKnown(results, entries, opts) /\ PhaseKnown /\ TileKnown
  BY DEF MeasureInv
<1>1. CASE UNCHANGED <<opts, entries, xpc, tileState, results, csv>>
  BY <1>1, <1>a DEF tileState, MeasureInv, PhaseKnown, NotSaved, TileKnown, Current
<1>2. CASE MakePlan
  <2>1. /\ xpc = "plan" /\ entries' = PlanOf(opts) /\ xpc' \in {"entry", "dry"} /\ opts' = opts
        /\ tried' = tried /\ unit' = unit /\ cyclesSum' = cyclesSum /\ best' = best
        /\ results' = results /\ csv' = csv
    BY <1>2 DEF MakePlan, tileState
  <2>2. PlanOf(opts) \in Seq(EntriesOf(opts))
    BY <1>a, PlanIsOfEntries
  <2>3. results = <<>> /\ NotSaved
    BY <1>a, <2>1 DEF PhaseKnown
  <2>4. Len(<<>>) = 0 /\ <<>> \in Seq({})
    OBVIOUS
  <2> DEFINE es == PlanOf(opts)
  <2>5. Len(es) \in Nat
    BY <2>2
  <2>6. RowsKnown(results', entries', opts')
    <3> HIDE DEF es
    <3>1. RowsKnown(<<>>, es, opts)
      BY <2>4, <2>5 DEF RowsKnown
    <3>2. QED
      BY <2>1, <2>3, <3>1 DEF es
  <2>7. NoneFailed(<<>>, Len(<<>>))
    BY <2>4 DEF NoneFailed
  <2>8. PhaseKnown'
    BY <2>1, <2>2, <2>3, <2>7 DEF PhaseKnown, Phases, NotSaved
  <2>9. TileKnown'
    BY <1>a, <2>1 DEF TileKnown
  <2>10. QED
    BY <1>a, <2>1, <2>6, <2>8, <2>9 DEF MeasureInv
<1>3. CASE StartEntry
  <2>1. /\ xpc = "entry" /\ Len(results) < Len(entries) /\ xpc' = "unit"
        /\ opts' = opts /\ entries' = entries /\ results' = results /\ csv' = csv
        /\ tried' = tried /\ unit' = unit /\ cyclesSum' = cyclesSum /\ best' = best
    BY <1>3 DEF StartEntry, tileState
  <2>2. entries \in Seq(EntriesOf(opts)) /\ tried = 0 /\ unit = 1 /\ cyclesSum = 0 /\ best = <<>>
    BY <1>a, <2>1 DEF PhaseKnown, TileKnown
  <2> DEFINE e == Current
             s == Units(Gemms[e.shape], e.tiles[1])
  <2>3. e \in EntriesOf(opts)
    <3>1. Len(results) \in Nat
      BY <1>a DEF RowsKnown
    <3>2. QED
      BY <2>1, <2>2, <3>1 DEF Current
  <2>4. Len(e.tiles) >= 1 /\ Len(e.tiles) \in Nat /\ e.tiles[1] \in TilesWithin(Gemms[e.shape])
    BY <1>a, <2>3, EntryKnown
  <2>5. Len(s) \in Nat /\ TimeUpTo(opts.says, e.target, s, 0) = 0
    BY <1>a, <2>3, <2>4, TilesTakeTime
  <2>6. Progress(e, opts, 0, 1, 0)
    <3>1. 0 + 1 = 1 /\ 1 - 1 = 0 /\ 0 \in Nat /\ 0 < Len(e.tiles)
      BY <2>4
    <3>2. 1 \in 1..(Len(s) + 1)
      BY <2>5
    <3>3. QED
      BY <2>5, <3>1, <3>2 DEF Progress
  <2>7. TileKnown'
    <3>1. BestSoFar(<<>>, e, opts, 0)
      BY DEF BestSoFar
    <3>2. Current' = e
      BY <2>1 DEF Current
    <3> HIDE DEF e
    <3>3. QED
      BY <2>1, <2>2, <2>6, <3>1, <3>2 DEF TileKnown
  <2>8. PhaseKnown'
    BY <1>a, <2>1 DEF PhaseKnown, Phases, NotSaved
  <2>9. QED
    BY <1>a, <2>1, <2>7, <2>8 DEF MeasureInv
<1>b. ASSUME xpc = "unit"
      PROVE  /\ entries \in Seq(EntriesOf(opts)) /\ Current \in EntriesOf(opts)
             /\ Len(results) < Len(entries) /\ Len(results) \in Nat
             /\ tried \in Nat /\ tried < Len(Current.tiles) /\ Len(Current.tiles) \in Nat
             /\ CurrentTile \in TilesWithin(Gemms[Current.shape])
             /\ Progress(Current, opts, tried, unit, cyclesSum)
             /\ BestSoFar(best, Current, opts, tried) /\ NotSaved
             /\ NoneFailed(results, Len(results))
  <2>1. /\ entries \in Seq(EntriesOf(opts)) /\ Len(results) < Len(entries)
        /\ Progress(Current, opts, tried, unit, cyclesSum)
        /\ BestSoFar(best, Current, opts, tried) /\ NotSaved
        /\ NoneFailed(results, Len(results))
    BY <1>a, <1>b DEF PhaseKnown, TileKnown
  <2>2. Len(results) \in Nat
    BY <1>a DEF RowsKnown
  <2>3. Current \in EntriesOf(opts)
    BY <2>1, <2>2 DEF Current
  <2>4. tried \in Nat /\ tried < Len(Current.tiles)
    BY <2>1 DEF Progress
  <2>5. Current.tiles \in Seq(TilesWithin(Gemms[Current.shape]))
    BY <1>a, <2>3, EntryKnown
  <2>6. Len(Current.tiles) \in Nat /\ CurrentTile \in TilesWithin(Gemms[Current.shape])
    BY <2>4, <2>5 DEF CurrentTile
  <2>7. QED
    BY <2>1, <2>2, <2>3, <2>4, <2>6
<1>4. CASE UnitReported
  <2>1. /\ xpc = "unit" /\ unit <= Len(CurrentUnits) /\ unit' = unit + 1
        /\ cyclesSum' = cyclesSum + UnitTotal(Current.target, CurrentUnits[unit])
        /\ opts' = opts /\ entries' = entries /\ xpc' = xpc /\ tried' = tried /\ best' = best
        /\ results' = results /\ csv' = csv
    BY <1>4 DEF UnitReported
  <2> DEFINE e == Current
             s == CurrentUnits
             upTo(i) == TimeUpTo(opts.says, e.target, s, i)
  <2>2. s = Units(Gemms[e.shape], e.tiles[tried + 1]) /\ CurrentTile = e.tiles[tried + 1]
    BY DEF CurrentUnits, CurrentTile
  <2>3. unit \in 1..(Len(s) + 1) /\ cyclesSum = upTo(unit - 1)
    BY <1>b, <2>1, <2>2 DEF Progress
  <2>4. /\ Len(s) \in Nat
        /\ \A i \in 1..Len(s) : upTo(i) = upTo(i - 1) + UnitTime(opts.says, e.target, s[i])
    BY <1>a, <1>b, <2>1, <2>2, TilesTakeTime
  <2>5. UnitTotal(e.target, s[unit]) = UnitTime(opts.says, e.target, s[unit])
    BY DEF UnitTotal, UnitTime
  <2>6. unit \in 1..Len(s) /\ unit + 1 \in 1..(Len(s) + 1) /\ (unit + 1) - 1 = unit
    BY <2>1, <2>3, <2>4
  <2>7. cyclesSum' = upTo((unit + 1) - 1)
    BY <2>1, <2>3, <2>4, <2>5, <2>6
  <2>8. Progress(e, opts, tried, unit', cyclesSum')
    BY <1>b, <2>1, <2>2, <2>6, <2>7 DEF Progress
  <2>9. TileKnown'
    <3>1. Current' = e
      BY <2>1 DEF Current
    <3> HIDE DEF e
    <3>2. QED
      BY <1>b, <2>1, <2>8, <3>1 DEF TileKnown, e
  <2>10. PhaseKnown'
    BY <1>a, <2>1 DEF PhaseKnown, NotSaved
  <2>11. QED
    BY <1>a, <2>1, <2>9, <2>10 DEF MeasureInv
<1>5. CASE CommandFails
  <2>1. UNCHANGED <<opts, entries, xpc, tried, unit, cyclesSum, best, results, csv>>
    BY <1>5 DEF CommandFails
  <2>2. QED
    BY <1>a, <2>1 DEF MeasureInv, PhaseKnown, NotSaved, TileKnown, Current
<1>6. CASE EntryFails
  <2> DEFINE e == Current
             r == [entry |-> e, cycles |-> 0, status |-> IF opts.external THEN "failed" ELSE "skipped"]
             new == Append(results, r)
             n == Len(results)
  <2>1. /\ xpc = "unit" /\ results' = new /\ opts' = opts /\ entries' = entries
        /\ tried' = 0 /\ unit' = 1 /\ cyclesSum' = 0 /\ best' = <<>>
        /\ IF opts.external THEN xpc' = "stopped" /\ csv' = [csv EXCEPT !.rows = new]
           ELSE xpc' = "entry" /\ csv' = csv
    BY <1>6 DEF EntryFails, TileStateStarts
  <2>2. RowTrue(r, entries[n + 1], opts)
    BY DEF RowTrue, Current
  <2>3. /\ RowsKnown(new, entries, opts) /\ Len(new) = n + 1 /\ new[n + 1] = r
        /\ \A i \in 1..n : new[i] = results[i]
        /\ n \in Nat
    BY <1>a, <1>b, <2>1, <2>2, RowsGrow
  <2>4. NoneFailed(results, n) /\ NotSaved
    BY <1>b, <2>1
  <2>5. NoneFailed(new, n)
    BY <2>3, <2>4 DEF NoneFailed
  <2>6. TileKnown'
    BY <2>1 DEF TileKnown
  <2>7. r.status = IF opts.external THEN "failed" ELSE "skipped"
    OBVIOUS
  <2>8. CASE opts.external
    <3>1. xpc' = "stopped" /\ csv' = [rows |-> new, totals |-> {}]
      BY <2>1, <2>4, <2>8 DEF NotSaved
    <3>2. r.status = "failed"
      BY <2>7, <2>8
    <3> HIDE DEF new, r, n
    <3>3. Len(new) > 0 /\ new[Len(new)].status = "failed" /\ NoneFailed(new, Len(new) - 1)
      <4>1. Len(new) - 1 = n /\ Len(new) > 0
        BY <2>3
      <4>2. QED
        BY <2>3, <2>5, <3>2, <4>1
    <3>4. entries' \in Seq(EntriesOf(opts'))
      BY <1>b, <2>1
    <3>5. PhaseKnown'
      BY <2>1, <3>1, <3>3, <3>4 DEF PhaseKnown, Phases
    <3>6. QED
      BY <1>a, <2>1, <2>3, <2>6, <3>5 DEF MeasureInv
  <2>9. CASE ~opts.external
    <3>1. xpc' = "entry" /\ csv' = csv
      BY <2>1, <2>9
    <3>2. r.status # "failed"
      BY <2>7, <2>9
    <3> HIDE DEF new, r, n
    <3>3. NoneFailed(new, Len(new))
      BY <2>3, <2>4, <3>2, NoneFailedGrows
    <3>4. entries' \in Seq(EntriesOf(opts'))
      BY <1>b, <2>1
    <3>5. PhaseKnown'
      BY <2>1, <2>4, <3>1, <3>3, <3>4 DEF PhaseKnown, Phases, NotSaved
    <3>6. QED
      BY <1>a, <2>1, <2>3, <2>6, <3>5 DEF MeasureInv
  <2>10. QED
    BY <2>8, <2>9
<1>7. CASE TileMeasured
  <2> DEFINE e == Current
             next == [tile |-> CurrentTile, cycles |-> cyclesSum]
             keep == IF best = <<>> \/ next.cycles < best[1].cycles THEN next ELSE best[1]
  <2>1. /\ xpc = "unit" /\ unit > Len(CurrentUnits)
        /\ opts' = opts /\ entries' = entries /\ csv' = csv
    BY <1>7 DEF TileMeasured
  <2>2. /\ e.tiles[tried + 1] = CurrentTile
        /\ CurrentUnits = Units(Gemms[e.shape], CurrentTile)
    BY DEF CurrentTile, CurrentUnits
  <2>3. cyclesSum = WholeTime(opts, e, CurrentTile)
    <3>1. unit \in 1..(Len(CurrentUnits) + 1)
          /\ cyclesSum = TimeUpTo(opts.says, e.target, CurrentUnits, unit - 1)
      BY <1>b, <2>1, <2>2 DEF Progress
    <3>2. Len(CurrentUnits) \in Nat
          /\ WholeTime(opts, e, CurrentTile) = TimeUpTo(opts.says, e.target, CurrentUnits, Len(CurrentUnits))
      BY <1>a, <1>b, <2>1, <2>2, TilesTakeTime
    <3>3. unit - 1 = Len(CurrentUnits)
      BY <2>1, <3>1, <3>2
    <3>4. QED
      BY <3>1, <3>2, <3>3
  <2>4. BestAmong(keep, e, opts, tried + 1)
    BY <1>a, <1>b, <2>1, <2>2, <2>3, BetterIsBest
  <2>5. CASE tried + 1 < Len(e.tiles)
    <3>1. /\ best' = <<keep>> /\ tried' = tried + 1 /\ unit' = 1 /\ cyclesSum' = 0
          /\ xpc' = xpc /\ results' = results
      BY <1>7, <2>5 DEF TileMeasured
    <3> DEFINE m == tried + 1
               s == Units(Gemms[e.shape], e.tiles[m + 1])
    <3>2. m \in Nat /\ m + 1 \in 1..Len(e.tiles) /\ m # 0
      BY <1>b, <2>1, <2>5
    <3>3. e.tiles[m + 1] \in TilesWithin(Gemms[e.shape])
      BY <1>a, <1>b, <2>1, <3>2, EntryKnown
    <3>4. Len(s) \in Nat /\ TimeUpTo(opts.says, e.target, s, 0) = 0
      BY <1>a, <1>b, <2>1, <3>3, TilesTakeTime
    <3>5. Progress(e, opts, m, 1, 0)
      <4>1. 1 - 1 = 0 /\ 1 \in 1..(Len(s) + 1) /\ m < Len(e.tiles)
        BY <2>5, <3>4
      <4>2. QED
        BY <3>2, <3>4, <4>1 DEF Progress
    <3>6. BestSoFar(<<keep>>, e, opts, m)
      <4> HIDE DEF keep
      <4>1. <<keep>>[1] = keep
        OBVIOUS
      <4>2. QED
        BY <2>4, <3>2, <4>1 DEF BestSoFar
    <3>7. Current' = e
      BY <2>1, <3>1 DEF Current
    <3>8. TileKnown'
      <4> HIDE DEF e, keep
      <4>1. QED
        BY <1>b, <2>1, <3>1, <3>5, <3>6, <3>7 DEF TileKnown
    <3>9. PhaseKnown'
      BY <1>a, <2>1, <3>1 DEF PhaseKnown, NotSaved
    <3>10. QED
      BY <1>a, <2>1, <3>1, <3>8, <3>9 DEF MeasureInv
  <2>6. CASE ~(tried + 1 < Len(e.tiles))
    <3> DEFINE r == [entry |-> [e EXCEPT !.tile = keep.tile, !.estimated = opts.score[keep.tile],
                                  !.repeats = SumRepeats(Gemms[e.shape], keep.tile)],
                     cycles |-> keep.cycles, status |-> "ok"]
               new == Append(results, r)
               n == Len(results)
    <3>1. /\ results' = new /\ xpc' = "entry"
          /\ tried' = 0 /\ unit' = 1 /\ cyclesSum' = 0 /\ best' = <<>>
      BY <1>7, <2>6 DEF TileMeasured, TileStateStarts
    <3>2. tried + 1 = Len(e.tiles)
      BY <1>b, <2>1, <2>6
    <3>3. /\ r.entry.target = e.target /\ r.entry.shape = e.shape /\ r.entry.strategy = e.strategy
          /\ r.entry.tile = keep.tile /\ r.entry.estimated = opts.score[keep.tile]
          /\ r.entry.repeats = SumRepeats(Gemms[e.shape], keep.tile)
          /\ r.cycles = keep.cycles /\ r.status = "ok"
      <4>1. DOMAIN e = {"target", "shape", "strategy", "tile", "estimated", "repeats", "tiles"}
        BY <1>a, <1>b, <2>1, EntryKnown
      <4> HIDE DEF e, keep
      <4>2. QED
        BY <4>1
    <3>4. keep = [tile |-> keep.tile, cycles |-> keep.cycles]
      <4> HIDE DEF keep
      <4>1. QED
        BY <2>4 DEF BestAmong
    <3> HIDE DEF keep, r
    <3>5. RowTrue(r, e, opts)
      BY <2>4, <3>2, <3>3, <3>4 DEF RowTrue
    <3>6. e = entries[n + 1]
      BY DEF Current
    <3>7. /\ RowsKnown(new, entries, opts) /\ Len(new) = n + 1 /\ new[n + 1] = r
          /\ \A i \in 1..n : new[i] = results[i]
          /\ n \in Nat
      BY <1>a, <1>b, <2>1, <3>5, <3>6, RowsGrow
    <3>8. NoneFailed(results, n) /\ NotSaved
      BY <1>b, <2>1
    <3> HIDE DEF new, n
    <3>9. NoneFailed(new, Len(new))
      BY <3>3, <3>7, <3>8, NoneFailedGrows
    <3>10. entries' \in Seq(EntriesOf(opts'))
      BY <1>b, <2>1
    <3>11. PhaseKnown'
      BY <2>1, <3>1, <3>8, <3>9, <3>10 DEF PhaseKnown, Phases, NotSaved
    <3>12. TileKnown'
      BY <3>1 DEF TileKnown
    <3>13. QED
      BY <1>a, <2>1, <3>1, <3>7, <3>11, <3>12 DEF MeasureInv
  <2>7. QED
    BY <2>5, <2>6
<1>8. CASE ExperimentEnds
  <2> DEFINE totals == TotalsOf(results, "cycles")
  <2>1. /\ xpc = "entry" /\ Len(results) = Len(entries) /\ xpc' = "done"
        /\ csv' = [rows |-> results, totals |-> totals]
        /\ opts' = opts /\ entries' = entries /\ results' = results
        /\ tried' = tried /\ unit' = unit /\ cyclesSum' = cyclesSum /\ best' = best
    BY <1>8 DEF ExperimentEnds, tileState
  <2> HIDE DEF totals
  <2>2. csv'.rows = results
    BY <2>1
  <2>3. PhaseKnown'
    BY <1>a, <2>1, <2>2 DEF PhaseKnown, Phases
  <2>4. TileKnown'
    BY <1>a, <2>1 DEF TileKnown
  <2>5. QED
    BY <1>a, <2>1, <2>3, <2>4 DEF MeasureInv
<1>9. CASE BenchStarts \/ BenchSample \/ BenchSave \/ BenchDies \/ BenchEnds \/ UNCHANGED xvars
  <2>1. UNCHANGED <<opts, entries, xpc, tileState, results, csv>>
    <3>1. CASE BenchStarts
      BY <3>1 DEF BenchStarts
    <3>2. CASE BenchSample
      BY <3>2 DEF BenchSample
    <3>3. CASE BenchSave
      BY <3>3 DEF BenchSave
    <3>4. CASE BenchDies
      BY <3>4 DEF BenchDies
    <3>5. CASE BenchEnds
      BY <3>5 DEF BenchEnds
    <3>6. CASE UNCHANGED xvars
      BY <3>6 DEF xvars, tileState
    <3>7. QED
      BY <1>9, <3>1, <3>2, <3>3, <3>4, <3>5, <3>6
  <2>2. QED
    BY <1>1, <2>1
<1>10. QED
  BY <1>2, <1>3, <1>4, <1>5, <1>6, <1>7, <1>8, <1>9 DEF ExperimentNext

\* What a row says of its tile, when it has one
LEMMA RowIsBest ==
  ASSUME NEW r, NEW e, NEW o, RowTrue(r, e, o), r.status = "ok"
  PROVE  /\ r.entry.estimated = o.score[r.entry.tile]
         /\ r.entry.repeats = SumRepeats(Gemms[e.shape], r.entry.tile)
         /\ \E j \in 1..Len(e.tiles) :
              /\ r.entry.tile = e.tiles[j] /\ r.cycles = WholeTime(o, e, e.tiles[j])
              /\ \A i \in 1..Len(e.tiles) : r.cycles <= WholeTime(o, e, e.tiles[i])
<1>1. /\ BestAmong([tile |-> r.entry.tile, cycles |-> r.cycles], e, o, Len(e.tiles))
      /\ r.entry.estimated = o.score[r.entry.tile]
      /\ r.entry.repeats = SumRepeats(Gemms[e.shape], r.entry.tile)
  BY DEF RowTrue
<1>2. PICK j \in 1..Len(e.tiles) :
        /\ [tile |-> r.entry.tile, cycles |-> r.cycles]
             = [tile |-> e.tiles[j], cycles |-> WholeTime(o, e, e.tiles[j])]
        /\ \A i \in 1..Len(e.tiles) : WholeTime(o, e, e.tiles[j]) <= WholeTime(o, e, e.tiles[i])
  BY <1>1 DEF BestAmong
<1>3. r.entry.tile = e.tiles[j] /\ r.cycles = WholeTime(o, e, e.tiles[j])
  BY <1>2
<1>4. QED
  BY <1>1, <1>2, <1>3

\* The rows saved are those of the first entries.
LEMMA SavedAreOfEntries ==
  ASSUME MeasureInv, NEW i \in DOMAIN csv.rows
  PROVE  /\ opts \in ExperimentOptions /\ results[i] \in ToSet(results)
         /\ \A r \in ToSet(results) : \E j \in 1..Len(results) : r = results[j]
         /\ \A j \in 1..Len(results) : /\ entries[j] \in EntriesOf(opts)
                                       /\ RowTrue(results[j], entries[j], opts)
         /\ i \in 1..Len(results) /\ csv.rows = results
<1>1. opts \in ExperimentOptions /\ RowsKnown(results, entries, opts) /\ PhaseKnown
  BY DEF MeasureInv
<1>2. PICK R : results \in Seq(R)
  BY <1>1 DEF RowsKnown
<1>3. csv.rows = results /\ xpc # "plan"
  <2>1. DOMAIN (<<>>) = {}
    OBVIOUS
  <2>2. csv.rows # <<>>
    BY <2>1
  <2>3. ~NotSaved
    BY <2>2 DEF NotSaved
  <2>4. QED
    BY <1>1, <2>3 DEF PhaseKnown, Phases
<1>4. entries \in Seq(EntriesOf(opts)) /\ Len(results) <= Len(entries)
  BY <1>1, <1>3 DEF PhaseKnown, RowsKnown
<1>5. /\ i \in 1..Len(results) /\ results[i] \in ToSet(results)
      /\ \A r \in ToSet(results) : \E j \in 1..Len(results) : r = results[j]
  BY <1>2, <1>3 DEF ToSet
<1>6. \A j \in 1..Len(results) : entries[j] \in EntriesOf(opts)
  <2>1. \A j \in 1..Len(results) : j \in 1..Len(entries)
    BY <1>2, <1>4
  <2>2. QED
    BY <1>4, <2>1
<1>7. QED
  BY <1>1, <1>3, <1>5, <1>6 DEF RowsKnown

LEMMA MeasuresAreSound ==
  MeasureInv /\ BenchInv =>
    CandidatesFit /\ RowsAreMeasured /\ OracleIsFastest /\ ResultsAreWhole /\ BenchIsKept
<1> SUFFICES ASSUME MeasureInv, BenchInv
             PROVE  CandidatesFit /\ RowsAreMeasured /\ OracleIsFastest /\ ResultsAreWhole
                      /\ BenchIsKept
  OBVIOUS
<1>1. opts \in ExperimentOptions /\ RowsKnown(results, entries, opts) /\ PhaseKnown
  BY DEF MeasureInv
<1>2. CandidatesFit
  <2> SUFFICES ASSUME JustPlanned, NEW e \in ToSet(entries),
                      \/ e.strategy = "oracle_tiling"
                      \/ e.strategy = "recommended_tiling" /\ opts.imported = <<>>
               PROVE  /\ \A t \in ToSet(e.tiles) : Fits(Targets[e.target], t) \/ t = Gemms[e.shape]
                      /\ (\E t \in CandidatesOf(Targets[e.target], Gemms[e.shape]) :
                            Fits(Targets[e.target], t)) =>
                           /\ Fits(Targets[e.target], e.tile)
                           /\ \A t \in CandidatesOf(Targets[e.target], Gemms[e.shape]) :
                                Fits(Targets[e.target], t) => opts.score[e.tile] <= opts.score[t]
                      /\ e.tile = e.tiles[1]
    BY DEF CandidatesFit
  <2> DEFINE target == Targets[e.target]
             shape == Gemms[e.shape]
             sorted == RankedTiles(target, shape, opts.score)
  <2>1. xpc = "dry" /\ entries \in Seq(EntriesOf(opts))
    BY <1>1 DEF JustPlanned, PhaseKnown
  <2>2. e \in EntriesOf(opts)
    BY <2>1 DEF ToSet
  <2>3. /\ e.target \in DOMAIN Targets /\ e.shape \in DOMAIN Gemms
        /\ e.strategy \in ToSet(Strategies) /\ e = Entry(e.target, e.shape, e.strategy, opts)
        /\ e.tiles \in Seq(TilesWithin(shape)) /\ Len(e.tiles) >= 1
    BY <1>1, <2>2, EntryKnown
  <2>4. target \in Accelerators /\ shape \in Shapes /\ opts.score \in Scores(shape)
    BY <1>1, <2>3, InstancesAre DEF ExperimentOptions
  <2>5. /\ e.strategy = "oracle_tiling" =>
             /\ e.tiles[1] = sorted[1] /\ e.tile = sorted[1]
             /\ \A i \in 1..Len(e.tiles) : e.tiles[i] \in CandidatesOf(target, shape)
        /\ e.strategy = "recommended_tiling" /\ opts.imported = <<>> =>
             e.tile = sorted[1] /\ e.tiles = <<sorted[1]>>
    BY <1>1, <2>3, EntryFacts
  <2>6. /\ sorted \in Seq(CandidatesOf(target, shape)) /\ Len(sorted) >= 1
        /\ \A t \in CandidatesOf(target, shape) :
             Fits(target, t) => Fits(target, sorted[1]) /\ opts.score[sorted[1]] <= opts.score[t]
    BY <2>4, RankedFacts
  <2>7. \A t \in CandidatesOf(target, shape) : Fits(target, t) \/ t = shape
    BY <2>4, CandidatesAreWithin
  <2> HIDE DEF sorted, target, shape
  <2>8. sorted[1] \in CandidatesOf(target, shape)
    BY <2>6
  <2>9. e.tile = sorted[1] /\ e.tile = e.tiles[1]
    <3>1. <<sorted[1]>>[1] = sorted[1]
      OBVIOUS
    <3>2. QED
      BY <2>5, <3>1
  <2>10. \A t \in ToSet(e.tiles) : t \in CandidatesOf(target, shape)
    <3>1. CASE e.strategy = "oracle_tiling"
      BY <2>3, <2>5, <3>1 DEF ToSet
    <3>2. CASE e.strategy = "recommended_tiling" /\ opts.imported = <<>>
      <4>1. ToSet(<<sorted[1]>>) = {sorted[1]}
        BY DEF ToSet
      <4>2. QED
        BY <2>5, <2>8, <3>2, <4>1
    <3>3. QED
      BY <3>1, <3>2
  <2>11. QED
    BY <2>6, <2>7, <2>9, <2>10 DEF target, shape
<1>3. RowsAreMeasured
  <2> SUFFICES ASSUME NEW i \in DOMAIN csv.rows
               PROVE  LET r == results[i]
                          e == r.entry
                      IN /\ e.target = entries[i].target /\ e.shape = entries[i].shape
                         /\ e.strategy = entries[i].strategy
                         /\ r.status = "ok" =>
                              /\ e.tile \in ToSet(entries[i].tiles)
                              /\ e.estimated = opts.score[e.tile]
                              /\ e.repeats = SumRepeats(Gemms[e.shape], e.tile)
                              /\ r.cycles = FoldLeft(LAMBDA a, u : a + u.repeats
                                                * opts.says[e.target][TileOf(u.m, u.n, u.k)],
                                              0, Units(Gemms[e.shape], e.tile))
                         /\ r.status # "ok" => r.cycles = 0
    BY DEF RowsAreMeasured
  <2> DEFINE r == results[i]
             f == entries[i]
  <2>1. opts \in ExperimentOptions /\ f \in EntriesOf(opts) /\ RowTrue(r, f, opts)
    BY SavedAreOfEntries
  <2>2. /\ r.entry.target = f.target /\ r.entry.shape = f.shape /\ r.entry.strategy = f.strategy
        /\ r.status # "ok" => r.cycles = 0
    BY <2>1 DEF RowTrue
  <2> HIDE DEF r, f
  <2>3. ASSUME r.status = "ok"
        PROVE  /\ r.entry.tile \in ToSet(f.tiles) /\ r.entry.estimated = opts.score[r.entry.tile]
               /\ r.entry.repeats = SumRepeats(Gemms[r.entry.shape], r.entry.tile)
               /\ r.cycles = TimeOfAll(opts.says, r.entry.target,
                                       Units(Gemms[r.entry.shape], r.entry.tile))
    <3>1. /\ r.entry.estimated = opts.score[r.entry.tile]
          /\ r.entry.repeats = SumRepeats(Gemms[f.shape], r.entry.tile)
      BY <2>1, <2>3, RowIsBest
    <3>2. PICK j \in 1..Len(f.tiles) :
            r.entry.tile = f.tiles[j] /\ r.cycles = WholeTime(opts, f, f.tiles[j])
      BY <2>1, <2>3, RowIsBest
    <3>3. f.tiles[j] \in ToSet(f.tiles)
      <4>1. f.tiles \in Seq(TilesWithin(Gemms[f.shape]))
        BY <2>1, EntryKnown
      <4>2. QED
        BY <4>1 DEF ToSet
    <3>4. QED
      BY <2>2, <3>1, <3>2, <3>3 DEF WholeTime
  <2>4. FoldLeft(LAMBDA a, u : a + u.repeats * opts.says[r.entry.target][TileOf(u.m, u.n, u.k)],
                 0, Units(Gemms[r.entry.shape], r.entry.tile))
          = TimeOfAll(opts.says, r.entry.target, Units(Gemms[r.entry.shape], r.entry.tile))
    BY RowTimeFolds
  <2>5. QED
    BY <2>2, <2>3, <2>4 DEF r, f
<1>4. OracleIsFastest
  <2> SUFFICES ASSUME NEW i \in DOMAIN csv.rows, results[i].status = "ok",
                      results[i].entry.strategy = "oracle_tiling"
               PROVE  /\ \A t \in ToSet(entries[i].tiles) :
                           results[i].cycles <= TimeOf(entries[i].target, Gemms[entries[i].shape], t)
                      /\ \A r \in ToSet(results) :
                           (/\ opts.imported = <<>> /\ r.status = "ok"
                            /\ r.entry.strategy = "recommended_tiling"
                            /\ r.entry.target = entries[i].target
                            /\ r.entry.shape = entries[i].shape)
                           => results[i].cycles <= r.cycles
    BY DEF OracleIsFastest
  <2> DEFINE f == entries[i]
             best1 == results[i].cycles
  <2>1. opts \in ExperimentOptions /\ f \in EntriesOf(opts) /\ RowTrue(results[i], f, opts)
    BY SavedAreOfEntries
  <2>2. /\ f.tiles \in Seq(TilesWithin(Gemms[f.shape])) /\ Len(f.tiles) >= 1
        /\ f.target \in DOMAIN Targets /\ f.shape \in DOMAIN Gemms
        /\ f.strategy \in ToSet(Strategies) /\ f = Entry(f.target, f.shape, f.strategy, opts)
    BY <2>1, EntryKnown
  <2>3. f.strategy = "oracle_tiling"
    BY <2>1 DEF RowTrue
  <2>4. \A j \in 1..Len(f.tiles) : best1 <= WholeTime(opts, f, f.tiles[j])
    BY <2>1, RowIsBest
  <2>5. \A t \in ToSet(f.tiles) : best1 <= TimeOf(f.target, Gemms[f.shape], t)
    <3> SUFFICES ASSUME NEW t \in ToSet(f.tiles)
                 PROVE  best1 <= TimeOf(f.target, Gemms[f.shape], t)
      OBVIOUS
    <3>1. PICK j \in 1..Len(f.tiles) : t = f.tiles[j]
      BY <2>2 DEF ToSet
    <3>2. TimeOf(f.target, Gemms[f.shape], t) = WholeTime(opts, f, t)
      BY TimeOfFolds DEF WholeTime
    <3>3. QED
      BY <2>4, <3>1, <3>2
  <2>6. ASSUME NEW r \in ToSet(results), opts.imported = <<>>, r.status = "ok",
               r.entry.strategy = "recommended_tiling",
               r.entry.target = f.target, r.entry.shape = f.shape
        PROVE  best1 <= r.cycles
    <3>1. PICK j \in 1..Len(results) : r = results[j]
      BY SavedAreOfEntries
    <3> DEFINE g == entries[j]
               sorted == RankedTiles(Targets[f.target], Gemms[f.shape], opts.score)
    <3>2. g \in EntriesOf(opts) /\ RowTrue(r, g, opts)
      BY <3>1, SavedAreOfEntries
    <3>3. g.strategy = "recommended_tiling" /\ g.target = f.target /\ g.shape = f.shape
      BY <2>6, <3>2 DEF RowTrue
    <3>4. /\ g.strategy \in ToSet(Strategies) /\ g = Entry(g.target, g.shape, g.strategy, opts)
      BY <2>1, <3>2, EntryKnown
    <3> HIDE DEF g, f
    <3>5. g.tiles = <<sorted[1]>>
      BY <2>1, <2>2, <2>6, <3>3, <3>4, EntryFacts
    <3>6. f.tiles[1] = sorted[1]
      BY <2>1, <2>2, <2>3, EntryFacts
    <3>7. PICK k \in 1..Len(g.tiles) : r.cycles = WholeTime(opts, g, g.tiles[k])
      BY <2>6, <3>2, RowIsBest
    <3> HIDE DEF sorted
    <3>8. g.tiles[k] = f.tiles[1] /\ 1 \in 1..Len(f.tiles)
      <4>1. Len(<<sorted[1]>>) = 1 /\ <<sorted[1]>>[1] = sorted[1]
        OBVIOUS
      <4>2. k = 1
        BY <3>5, <3>7, <4>1
      <4>3. QED
        BY <2>2, <3>5, <3>6, <4>1, <4>2
    <3>9. WholeTime(opts, g, g.tiles[k]) = WholeTime(opts, f, f.tiles[1])
      BY <3>3, <3>8 DEF WholeTime
    <3>10. QED
      BY <2>4, <3>7, <3>8, <3>9
  <2>7. QED
    BY <2>5, <2>6
<1>5. ResultsAreWhole
  <2>1. /\ xpc \in {"plan", "entry", "unit", "dry"} => csv = [rows |-> <<>>, totals |-> {}]
        /\ xpc \in {"done", "stopped"} => csv.rows = results
    BY <1>1 DEF PhaseKnown, NotSaved
  <2>2. ASSUME xpc = "done"
        PROVE  Len(results) = Len(entries) /\ \A r \in ToSet(results) : r.status # "failed"
    <3>1. Len(results) = Len(entries) /\ NoneFailed(results, Len(results))
      BY <1>1, <2>2 DEF PhaseKnown
    <3>2. PICK R : results \in Seq(R)
      BY <1>1 DEF RowsKnown
    <3>3. QED
      BY <3>1, <3>2 DEF NoneFailed, ToSet
  <2>3. ASSUME xpc = "stopped"
        PROVE  /\ results[Len(results)].status = "failed" /\ csv.totals = {}
               /\ \A i \in 1..(Len(results) - 1) : results[i].status = "ok"
    <3> DEFINE n == Len(results)
    <3>1. /\ n > 0 /\ results[n].status = "failed" /\ NoneFailed(results, n - 1)
          /\ csv.totals = {}
      BY <1>1, <2>3 DEF PhaseKnown
    <3>2. n \in Nat /\ \A i \in 1..n : RowTrue(results[i], entries[i], opts)
      BY <1>1 DEF RowsKnown
    <3> HIDE DEF n
    <3>3. opts.external
      <4>1. n \in 1..n
        BY <3>1, <3>2
      <4>2. RowTrue(results[n], entries[n], opts)
        BY <3>2, <4>1
      <4>3. QED
        BY <3>1, <4>2 DEF RowTrue
    <3>4. \A i \in 1..(n - 1) : results[i].status = "ok"
      <4> SUFFICES ASSUME NEW i \in 1..(n - 1)
                   PROVE  results[i].status = "ok"
        OBVIOUS
      <4>1. i \in 1..n
        BY <3>2
      <4>2. RowTrue(results[i], entries[i], opts)
        BY <3>2, <4>1
      <4>3. results[i].status # "failed"
        BY <3>1 DEF NoneFailed
      <4>4. QED
        BY <3>3, <4>2, <4>3 DEF RowTrue
    <3>5. QED
      BY <3>1, <3>4 DEF n
  <2>4. QED
    BY <2>1, <2>2, <2>3 DEF ResultsAreWhole
<1>6. BenchIsKept
  <2>1. PICK R : bench.rows \in Seq(R) /\ bench.disk \in Seq(R)
    BY DEF BenchInv
  <2>2. /\ Len(bench.disk) \in {Len(bench.rows), Len(bench.rows) - 1}
        /\ \A i \in 1..Len(bench.disk) : bench.disk[i] = bench.rows[i]
        /\ \A i \in 1..Len(bench.rows) : bench.rows[i].entry = bench.samples[i]
        /\ bench.at = "done" => Len(bench.disk) = Len(bench.samples)
    BY DEF BenchInv
  <2>3. DOMAIN bench.disk = 1..Len(bench.disk) /\ DOMAIN bench.rows = 1..Len(bench.rows)
    BY <2>1
  <2>4. QED
    BY <2>2, <2>3 DEF BenchIsKept
<1>7. QED
  BY <1>2, <1>3, <1>4, <1>5, <1>6
=============================================================================
