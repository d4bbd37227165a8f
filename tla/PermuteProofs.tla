---------------------------- MODULE PermuteProofs ----------------------------
(***************************************************************************)
(* Theorems of Permute, for every value of its constants.                  *)
(***************************************************************************)
EXTENDS Permute, BlobTrackerProofs

-----------------------------------------------------------------------------
(* Numbers of the vector and errors.                                       *)

\* The vector has finitely many positions, and -1 is none of them.
LEMMA PrevShape ==
  ASSUME TypeOK
  PROVE  /\ IsFiniteSet(Prev) /\ PrevSize \in Nat
         /\ Prev \subseteq Nat \ {0} /\ New \notin Prev
BY FS_CardinalityType DEF TypeOK, PrevSize, New

\* A frame has as many contours as its last index.
LEMMA FrameShape ==
  ASSUME NEW c \in Contours
  PROVE  CurSize(c) \in Nat /\ DOMAIN c = 1 .. CurSize(c)
BY ContoursShape, TrackerAssumption

\* Errors are natural numbers.
LEMMA ErrorIsNat ==
  ASSUME TypeOK, NEW c \in Contours, NEW i \in DOMAIN c, NEW j \in Prev
  PROVE  Error(c, i, j) \in Nat
<1>1. c[i] \in Places /\ blobs[j].centroid \in Places
  BY ContoursShape DEF TypeOK, TrackedBlob
<1> QED BY <1>1, DistAssumption DEF Error, DistAssumption

\* numcheck is at most the size of the vector, and zero only without previous blobs.
LEMMA NumCheckShape ==
  ASSUME TypeOK, NEW c \in Contours
  PROVE  /\ NumCheck(c) \in 0 .. PrevSize
         /\ PrevSize > 0 => NumCheck(c) > 0
         /\ ExtraIDs(c) \in Nat
BY PrevShape, FrameShape DEF NumCheck, ExtraIDs

-----------------------------------------------------------------------------
(* Lists of all the previous blobs.                                        *)

\* The list s has every previous blob once.
Listed(s) ==
  /\ s \in [1 .. PrevSize -> Prev]
  /\ \A a, b \in 1 .. PrevSize : s[a] = s[b] => a = b

\* What has no blob twice has every blob.
LEMMA ListedAll ==
  ASSUME TypeOK, NEW s, Listed(s), NEW j \in Prev
  PROVE  \E k \in 1 .. PrevSize : s[k] = j
<1>1. PrevSize \in Nat /\ IsFiniteSet(Prev) /\ Cardinality(Prev) = PrevSize
  BY PrevShape DEF PrevSize
<1>2. Cardinality(1 .. PrevSize) = PrevSize
  BY <1>1, FS_Interval
<1>3. s \in Injection(1 .. PrevSize, Prev)
  BY DEF Listed, Injection, IsInjective
<1>4. s \in Surjection(1 .. PrevSize, Prev)
  BY <1>1, <1>2, <1>3, FS_Injection
<1> QED BY <1>4 DEF Surjection

\* How many numbers of the vector are below j.
Rank(j) == Cardinality({m \in Prev : m < j})

\* closest starts as the numbers of the vector, in order.
LEMMA InOrderListed ==
  ASSUME TypeOK
  PROVE  /\ Listed(InOrder)
         /\ \A a, b \in 1 .. PrevSize : a < b => InOrder[a] < InOrder[b]
<1> DEFINE P == PrevSize
<1>1. P \in Nat /\ IsFiniteSet(Prev) /\ Cardinality(Prev) = P /\ Prev \subseteq Nat
  BY PrevShape DEF PrevSize
<1>2. ASSUME NEW j \in Prev PROVE Rank(j) \in 0 .. P - 1
  <2>1. {m \in Prev : m < j} \in SUBSET Prev /\ j \notin {m \in Prev : m < j}
    BY <1>1
  <2>2. Rank(j) \in Nat /\ Rank(j) < P
    BY <1>1, <2>1, SmallerPart DEF Rank
  <2> QED BY <1>1, <2>2
<1>3. ASSUME NEW j \in Prev, NEW k \in Prev, j < k PROVE Rank(j) < Rank(k)
  <2> DEFINE S == {m \in Prev : m < k}
             T == {m \in Prev : m < j}
  <2>1. T \in SUBSET S /\ j \in S /\ j \notin T
    <3>1. \A m \in Prev : m \in Int
      BY <1>1
    <3>2. \A m \in Prev : m < j => m < k
      BY <1>3, <3>1
    <3> QED BY <1>3, <3>1, <3>2
  <2>2. IsFiniteSet(S)
    BY <1>1, FS_Subset
  <2> HIDE DEF S, T
  <2>3. Cardinality(T) < Cardinality(S)
    BY <2>1, <2>2, SmallerPart
  <2> QED BY <2>3 DEF S, T, Rank
<1> DEFINE f == [j \in Prev |-> Rank(j)]
<1>4. f \in Injection(Prev, 0 .. P - 1)
  <2>1. f \in [Prev -> 0 .. P - 1]
    BY <1>2
  <2>2. ASSUME NEW j \in Prev, NEW k \in Prev, f[j] = f[k] PROVE j = k
    <3>1. Rank(j) = Rank(k) /\ Rank(j) \in Int
      BY <1>2, <2>2
    <3>2. j \in Nat /\ k \in Nat
      BY <1>1
    <3> QED BY <1>3, <3>1, <3>2
  <2> QED BY <2>1, <2>2 DEF Injection, IsInjective
<1>5. Cardinality(0 .. P - 1) = P /\ IsFiniteSet(0 .. P - 1)
  BY <1>1, FS_Interval
<1>6. f \in Surjection(Prev, 0 .. P - 1)
  BY <1>1, <1>4, <1>5, FS_Injection
<1>7. ASSUME NEW k \in 1 .. P
      PROVE  InOrder[k] \in Prev /\ Rank(InOrder[k]) = k - 1
  <2>1. k - 1 \in 0 .. P - 1
    BY <1>1
  <2>2. PICK j \in Prev : f[j] = k - 1
    BY <1>6, <2>1 DEF Surjection
  <2>3. Cardinality({m \in Prev : m < j}) = k - 1
    BY <2>2 DEF Rank
  <2>4. InOrder[k] = CHOOSE i \in Prev : Cardinality({m \in Prev : m < i}) = k - 1
    BY DEF InOrder
  <2> QED BY <2>3, <2>4 DEF Rank
<1>8. InOrder \in [1 .. P -> Prev]
  BY <1>7 DEF InOrder
<1>9. ASSUME NEW a \in 1 .. P, NEW b \in 1 .. P, a < b
      PROVE  InOrder[a] < InOrder[b]
  <2>1. InOrder[a] \in Nat /\ InOrder[b] \in Nat
    BY <1>1, <1>7
  <2>2. CASE InOrder[a] = InOrder[b]
    <3>1. a - 1 = b - 1
      BY <1>7, <2>2
    <3> QED BY <1>1, <1>9, <3>1
  <2>3. CASE InOrder[b] < InOrder[a]
    <3>1. b - 1 < a - 1
      BY <1>3, <1>7, <2>3
    <3> QED BY <1>1, <1>9, <3>1
  <2> QED BY <2>1, <2>2, <2>3
<1>10. ASSUME NEW a \in 1 .. P, NEW b \in 1 .. P, InOrder[a] = InOrder[b]
       PROVE  a = b
  <2>1. a - 1 = b - 1
    BY <1>7, <1>10
  <2> QED BY <1>1, <2>1
<1> QED BY <1>8, <1>9, <1>10 DEF Listed

-----------------------------------------------------------------------------
(* The bubble sort.                                                        *)

\* The list s keeps blobs of one error in the order of the vector.
Stable(c, i, s) ==
  \A a, b \in 1 .. PrevSize :
    a < b /\ Error(c, i, s[a]) = Error(c, i, s[b]) => s[a] < s[b]

\* From position m on the list s is sorted, and nothing before is greater.
SortedFrom(c, i, s, m) ==
  \A a, b \in 1 .. PrevSize :
    a < b /\ b >= m => Error(c, i, s[a]) <= Error(c, i, s[b])

\* Entry k has the greatest error of the entries up to k.
GreatestAt(c, i, s, k) ==
  \A a \in 1 .. PrevSize :
    a < k /\ k <= PrevSize => Error(c, i, s[a]) <= Error(c, i, s[k])

\* The list s is sorted: each blob before the ones it is closer than.
Sorted(c, i, s) ==
  \A a, b \in 1 .. PrevSize : a < b => Closer(c, i, s[a], s[b])

\* What an iteration of the inner loop makes of the list.
Compared(c, i, s, k) ==
  IF Error(c, i, s[k + 1]) < Error(c, i, s[k]) THEN Swapped(s, k) ELSE s

\* An iteration keeps the list complete, stable and sorted from m on, and takes
\* the greatest error one entry further.
LEMMA CompareSorts ==
  ASSUME TypeOK, NEW c \in Contours, NEW i \in DOMAIN c, NEW s, Listed(s),
         NEW m \in Nat, NEW k \in 1 .. PrevSize, k + 1 < m, k + 1 <= PrevSize,
         Stable(c, i, s), SortedFrom(c, i, s, m), GreatestAt(c, i, s, k),
         NEW t, t = Compared(c, i, s, k)
  PROVE  /\ Listed(t) /\ Stable(c, i, t)
         /\ SortedFrom(c, i, t, m) /\ GreatestAt(c, i, t, k + 1)
<1> DEFINE P == PrevSize
           E(j) == Error(c, i, j)
<1>1. /\ P \in Nat
      /\ \A j \in Prev : j \in Nat /\ E(j) \in Nat
      /\ s \in [1 .. P -> Prev]
      /\ k \in 1 .. P /\ k + 1 \in 1 .. P
  BY PrevShape, ErrorIsNat DEF Listed
<1>2. \A a \in 1 .. P : s[a] \in Nat /\ E(s[a]) \in Nat
  BY <1>1
<1> HIDE DEF E
<1>3. CASE E(s[k + 1]) < E(s[k])
  <2>1. t = [s EXCEPT ![k] = s[k + 1], ![k + 1] = s[k]]
    BY <1>3 DEF Compared, Swapped, E
  <2>2. /\ t \in [1 .. P -> Prev]
        /\ t[k] = s[k + 1] /\ t[k + 1] = s[k]
        /\ \A a \in 1 .. P : a # k /\ a # k + 1 => t[a] = s[a]
    BY <1>1, <2>1
  <2>3. Listed(t)
    <3> SUFFICES ASSUME NEW a \in 1 .. P, NEW b \in 1 .. P, t[a] = t[b]
                 PROVE  a = b
      BY <2>2 DEF Listed
    <3>1. \A x, y \in 1 .. P : s[x] = s[y] => x = y
      BY DEF Listed
    <3> QED BY <1>1, <2>2, <3>1
  <2>4. ASSUME NEW a \in 1 .. P, NEW b \in 1 .. P, a < b, E(t[a]) = E(t[b])
        PROVE  t[a] < t[b]
    <3>1. \A x, y \in 1 .. P : x < y /\ E(s[x]) = E(s[y]) => s[x] < s[y]
      BY DEF Stable, E
    <3>2. ~(a = k /\ b = k + 1)
      BY <1>2, <1>3, <2>2, <2>4
    <3> DEFINE From(x) == IF x = k THEN k + 1 ELSE IF x = k + 1 THEN k ELSE x
    <3>3. ASSUME NEW x \in 1 .. P
          PROVE  From(x) \in 1 .. P /\ t[x] = s[From(x)]
      BY <1>1, <2>2
    <3>4. From(a) < From(b)
      BY <1>1, <2>4, <3>2
    <3> HIDE DEF From
    <3>5. E(s[From(a)]) = E(s[From(b)])
      BY <2>4, <3>3
    <3>6. s[From(a)] < s[From(b)]
      BY <3>1, <3>3, <3>4, <3>5
    <3> QED BY <3>3, <3>6
  <2>5. ASSUME NEW a \in 1 .. P, NEW b \in 1 .. P, a < b, b >= m
        PROVE  E(t[a]) <= E(t[b])
    <3>1. \A x, y \in 1 .. P : x < y /\ y >= m => E(s[x]) <= E(s[y])
      BY DEF SortedFrom, E
    <3>2. t[b] = s[b] /\ k < b /\ k + 1 < b
      BY <1>1, <2>2, <2>5
    <3> QED BY <1>1, <2>2, <2>5, <3>1, <3>2
  <2>6. ASSUME NEW a \in 1 .. P, a < k + 1
        PROVE  E(t[a]) <= E(t[k + 1])
    <3>1. \A x \in 1 .. P : x < k => E(s[x]) <= E(s[k])
      BY <1>1 DEF GreatestAt, E
    <3>2. CASE a = k
      BY <1>1, <1>2, <1>3, <2>2, <3>2
    <3>3. CASE a # k
      BY <1>1, <2>2, <2>6, <3>1, <3>3
    <3> QED BY <3>2, <3>3
  <2> QED BY <2>3, <2>4, <2>5, <2>6 DEF Stable, SortedFrom, GreatestAt, E
<1>4. CASE ~(E(s[k + 1]) < E(s[k]))
  <2>1. t = s
    BY <1>4 DEF Compared, E
  <2>2. ASSUME NEW a \in 1 .. P, a < k + 1
        PROVE  E(s[a]) <= E(s[k + 1])
    <3>1. \A x \in 1 .. P : x < k => E(s[x]) <= E(s[k])
      BY <1>1 DEF GreatestAt, E
    <3>2. E(s[k]) <= E(s[k + 1])
      BY <1>1, <1>2, <1>4
    <3>3. a = k \/ a < k
      BY <1>1, <2>2
    <3>4. E(s[a]) <= E(s[k])
      BY <1>1, <1>2, <3>1, <3>3
    <3> QED BY <1>1, <1>2, <3>2, <3>4
  <2> QED BY <2>1, <2>2 DEF GreatestAt, E
<1> QED BY <1>3, <1>4

\* The list is sorted once it is stable and sorted from its first entry on.
LEMMA StableSorted ==
  ASSUME TypeOK, NEW c \in Contours, NEW i \in DOMAIN c, NEW s, Listed(s),
         Stable(c, i, s), NEW m \in Int, m <= 2, SortedFrom(c, i, s, m)
  PROVE  Sorted(c, i, s)
<1> SUFFICES ASSUME NEW a \in 1 .. PrevSize, NEW b \in 1 .. PrevSize, a < b
             PROVE  Closer(c, i, s[a], s[b])
  BY DEF Sorted
<1>1. PrevSize \in Nat /\ b >= m
  BY PrevShape
<1>2. Error(c, i, s[a]) <= Error(c, i, s[b])
  BY <1>1 DEF SortedFrom
<1>3. s[a] \in Prev /\ s[b] \in Prev
  BY DEF Listed
<1>4. Error(c, i, s[a]) \in Nat /\ Error(c, i, s[b]) \in Nat
  BY <1>3, ErrorIsNat
<1>5. CASE Error(c, i, s[a]) = Error(c, i, s[b])
  BY <1>5 DEF Stable, Closer
<1>6. CASE Error(c, i, s[a]) # Error(c, i, s[b])
  BY <1>2, <1>4, <1>6 DEF Closer
<1> QED BY <1>5, <1>6

-----------------------------------------------------------------------------
(* What a call of permute tries.                                           *)

\* The k-th entry permute may try: the listed blobs, then a new id.
Option(s, k) == IF k <= PrevSize THEN s[k] ELSE New

\* Entry o comes before the a-th.
Tried(s, a, o) == \E k \in 1 .. PrevSize + 1 : k < a /\ Option(s, k) = o

\* Every entry is one of the options, and one only.
LEMMA OptionShape ==
  ASSUME TypeOK, NEW s, Listed(s)
  PROVE  /\ \A k \in 1 .. PrevSize : Option(s, k) = s[k] /\ s[k] \in Prev /\ s[k] # New
         /\ Option(s, PrevSize + 1) = New
         /\ \A k, m \in 1 .. PrevSize + 1 : Option(s, k) = Option(s, m) => k = m
         /\ \A o \in Prev \cup {New} : \E k \in 1 .. PrevSize + 1 : Option(s, k) = o
<1>1. PrevSize \in Nat /\ New \notin Prev
  BY PrevShape
<1>2. \A k \in 1 .. PrevSize : Option(s, k) = s[k] /\ s[k] \in Prev
  BY <1>1 DEF Option, Listed
<1>3. Option(s, PrevSize + 1) = New
  BY <1>1 DEF Option
<1>4. ASSUME NEW k \in 1 .. PrevSize + 1, NEW m \in 1 .. PrevSize + 1,
             Option(s, k) = Option(s, m)
      PROVE  k = m
  <2>1. CASE k \in 1 .. PrevSize /\ m \in 1 .. PrevSize
    BY <1>2, <1>4, <2>1 DEF Listed
  <2>2. CASE k \notin 1 .. PrevSize \/ m \notin 1 .. PrevSize
    BY <1>1, <1>2, <1>3, <1>4, <2>2
  <2> QED BY <2>1, <2>2
<1>5. ASSUME NEW o \in Prev \cup {New}
      PROVE  \E k \in 1 .. PrevSize + 1 : Option(s, k) = o
  <2>1. CASE o = New
    BY <1>1, <1>3, <2>1
  <2>2. CASE o \in Prev
    <3>1. PICK k \in 1 .. PrevSize : s[k] = o
      BY <2>2, ListedAll
    <3> QED BY <1>1, <1>2, <3>1
  <2> QED BY <2>1, <2>2
<1> QED BY <1>1, <1>2, <1>3, <1>4, <1>5

\* What has been tried before the first, the next and the last option.
LEMMA TriedSteps ==
  ASSUME TypeOK, NEW s, Listed(s), NEW o \in Prev \cup {New}
  PROVE  /\ ~Tried(s, 1, o)
         /\ Tried(s, PrevSize + 2, o)
         /\ \A a \in 1 .. PrevSize + 1 :
              Tried(s, a + 1, o) <=> Tried(s, a, o) \/ o = Option(s, a)
         /\ \A a \in 1 .. PrevSize + 1 : ~Tried(s, a, Option(s, a))
<1>1. PrevSize \in Nat
  BY PrevShape
<1>2. ~Tried(s, 1, o)
  BY <1>1 DEF Tried
<1>3. Tried(s, PrevSize + 2, o)
  BY <1>1, OptionShape DEF Tried
<1>4. ASSUME NEW a \in 1 .. PrevSize + 1
      PROVE  /\ Tried(s, a + 1, o) <=> Tried(s, a, o) \/ o = Option(s, a)
             /\ ~Tried(s, a, Option(s, a))
  <2>1. \A k \in 1 .. PrevSize + 1 : k < a + 1 <=> k < a \/ k = a
    BY <1>1
  <2>2. Tried(s, a + 1, o) <=> Tried(s, a, o) \/ o = Option(s, a)
    BY <2>1 DEF Tried
  <2>3. ~Tried(s, a, Option(s, a))
    BY <1>1, OptionShape DEF Tried
  <2> QED BY <2>2, <2>3
<1> QED BY <1>2, <1>3, <1>4

\* A list that is sorted has blob j before blob k when j is closer.
LEMMA CloserIsEarlier ==
  ASSUME TypeOK, NEW c \in Contours, NEW i \in DOMAIN c, NEW s, Listed(s), Sorted(c, i, s),
         NEW a \in 1 .. PrevSize, NEW b \in 1 .. PrevSize
  PROVE  Closer(c, i, s[a], s[b]) <=> a < b
<1>1. PrevSize \in Nat /\ s[a] \in Nat /\ s[b] \in Nat /\ s[a] \in Prev /\ s[b] \in Prev
  BY PrevShape DEF Listed
<1>2. Error(c, i, s[a]) \in Nat /\ Error(c, i, s[b]) \in Nat
  BY <1>1, ErrorIsNat
<1>3. a < b => Closer(c, i, s[a], s[b])
  BY DEF Sorted
<1>4. b < a => Closer(c, i, s[b], s[a])
  BY DEF Sorted
<1>5. ~(Closer(c, i, s[a], s[b]) /\ Closer(c, i, s[b], s[a]))
  BY <1>1, <1>2 DEF Closer
<1>6. a = b => ~Closer(c, i, s[a], s[b])
  BY <1>1, <1>2 DEF Closer
<1> QED BY <1>1, <1>3, <1>4, <1>5, <1>6

\* An option is tried before another when Before says so.
LEMMA TriedIsBefore ==
  ASSUME TypeOK, NEW c \in Contours, NEW i \in DOMAIN c, NEW s, Listed(s), Sorted(c, i, s),
         NEW a \in 1 .. PrevSize + 1, NEW o \in Prev \cup {New}
  PROVE  Tried(s, a, o) <=>
           o # New /\ (Option(s, a) = New \/ Closer(c, i, o, Option(s, a)))
<1>1. PrevSize \in Nat
  BY PrevShape
<1>2. PICK k \in 1 .. PrevSize + 1 : Option(s, k) = o
  BY OptionShape
<1>3. Tried(s, a, o) <=> k < a
  BY <1>2, OptionShape DEF Tried
<1>4. CASE k = PrevSize + 1
  BY <1>1, <1>2, <1>3, <1>4, OptionShape
<1>5. CASE k \in 1 .. PrevSize /\ a = PrevSize + 1
  BY <1>1, <1>2, <1>3, <1>5, OptionShape
<1>6. CASE k \in 1 .. PrevSize /\ a \in 1 .. PrevSize
  <2>1. o = s[k] /\ o # New /\ Option(s, a) = s[a] /\ s[a] # New
    BY <1>2, <1>6, OptionShape
  <2>2. Closer(c, i, s[k], s[a]) <=> k < a
    BY <1>6, CloserIsEarlier
  <2> QED BY <1>3, <2>1, <2>2
<1> QED BY <1>1, <1>4, <1>5, <1>6

-----------------------------------------------------------------------------
(* What permute reaches.                                                   *)

\* The rows r and q have the same entries up to m.
AgreeTo(r, q, m) == \A k \in 1 .. m : r[k] = q[k]

\* What may stand at entry i depends on the entries before it only, and so does
\* whether an entry is reached, on those and itself.
LEMMA ReachesLocally ==
  ASSUME NEW c, NEW i \in Nat \ {0}, NEW r, NEW q, AgreeTo(r, q, i - 1)
  PROVE  /\ \A j : CheckValid(r, i, j) <=> CheckValid(q, i, j)
         /\ Candidates(c, r, i) = Candidates(c, q, i)
         /\ CheckValidNew(c, r, i) <=> CheckValidNew(c, q, i)
         /\ r[i] = q[i] => (Reaches(c, r, i) <=> Reaches(c, q, i))
<1>1. \A k \in 1 .. i - 1 : r[k] = q[k]
  BY DEF AgreeTo
<1>2. \A j : CheckValid(r, i, j) <=> CheckValid(q, i, j)
  BY <1>1 DEF CheckValid
<1>3. Candidates(c, r, i) = Candidates(c, q, i)
  BY <1>2 DEF Candidates
<1>4. {k \in 1 .. i - 1 : r[k] = New} = {k \in 1 .. i - 1 : q[k] = New}
  BY <1>1
<1>5. CheckValidNew(c, r, i) <=> CheckValidNew(c, q, i)
  BY <1>4 DEF CheckValidNew
<1> QED BY <1>2, <1>3, <1>5 DEF Reaches

\* The candidates of contour i that come before the a-th option.
Checked(c, s, r, i, a) == {j \in Candidates(c, r, i) : Tried(s, a, j)}

\* How many there are goes up by one at a candidate, and only there.
LEMMA CheckedCount ==
  ASSUME TypeOK, NEW c \in Contours, NEW i \in DOMAIN c, NEW s, Listed(s), NEW r
  PROVE  /\ \A a : /\ IsFiniteSet(Checked(c, s, r, i, a))
                   /\ Cardinality(Checked(c, s, r, i, a)) \in Nat
         /\ Cardinality(Checked(c, s, r, i, 1)) = 0
         /\ \A a \in 1 .. PrevSize :
              Cardinality(Checked(c, s, r, i, a + 1)) =
                IF s[a] \in Candidates(c, r, i)
                THEN Cardinality(Checked(c, s, r, i, a)) + 1
                ELSE Cardinality(Checked(c, s, r, i, a))
<1> DEFINE C(a) == Checked(c, s, r, i, a)
<1>1. PrevSize \in Nat /\ Candidates(c, r, i) \subseteq Prev
  BY PrevShape DEF Candidates
<1>2. ASSUME NEW a
      PROVE  IsFiniteSet(C(a)) /\ Cardinality(C(a)) \in Nat
  <2>1. C(a) \in SUBSET Prev
    BY <1>1 DEF Checked
  <2>2. IsFiniteSet(C(a))
    BY <2>1, PrevShape, FS_Subset
  <2> QED BY <2>2, FS_CardinalityType
<1>3. Cardinality(C(1)) = 0
  <2>1. C(1) = {}
    BY <1>1, TriedSteps DEF Checked
  <2> QED BY <2>1, FS_EmptySet
<1>4. ASSUME NEW a \in 1 .. PrevSize
      PROVE  Cardinality(C(a + 1)) =
               IF s[a] \in Candidates(c, r, i)
               THEN Cardinality(C(a)) + 1 ELSE Cardinality(C(a))
  <2>1. s[a] \in Prev /\ Option(s, a) = s[a] /\ a \in 1 .. PrevSize + 1
    BY <1>1, OptionShape
  <2>2. \A j \in Prev : Tried(s, a + 1, j) <=> Tried(s, a, j) \/ j = s[a]
    BY <2>1, TriedSteps
  <2>3. ~Tried(s, a, s[a])
    BY <2>1, TriedSteps
  <2>4. CASE s[a] \in Candidates(c, r, i)
    <3>1. C(a + 1) = C(a) \cup {s[a]} /\ s[a] \notin C(a)
      BY <1>1, <2>2, <2>3, <2>4 DEF Checked
    <3> HIDE DEF C
    <3>2. Cardinality(C(a + 1)) = Cardinality(C(a)) + 1
      BY <1>2, <3>1, FS_AddElement
    <3> QED BY <2>4, <3>2
  <2>5. CASE s[a] \notin Candidates(c, r, i)
    <3>1. C(a + 1) = C(a)
      BY <1>1, <2>2, <2>5 DEF Checked
    <3> QED BY <2>5, <3>1
  <2> QED BY <2>4, <2>5
<1> QED BY <1>2, <1>3, <1>4

\* Once a blob is too far, no blob that has not been tried is near enough.
LEMMA NoneBeyondFar ==
  ASSUME TypeOK, NEW c \in Contours, NEW i \in DOMAIN c, NEW s, Listed(s), Sorted(c, i, s),
         NEW a \in 1 .. PrevSize, Error(c, i, s[a]) > RejectDistanceThreshold,
         NEW j \in Prev, Error(c, i, j) <= RejectDistanceThreshold
  PROVE  Tried(s, a, j)
<1>1. PrevSize \in Nat /\ RejectDistanceThreshold \in Nat
  BY PrevShape, TrackerAssumption
<1>2. PICK k \in 1 .. PrevSize : s[k] = j
  BY ListedAll
<1>3. s[a] \in Prev
  BY DEF Listed
<1>4. Error(c, i, s[a]) \in Nat /\ Error(c, i, j) \in Nat
  BY <1>3, ErrorIsNat
<1>5. ~(a < k)
  BY <1>1, <1>2, <1>4 DEF Sorted, Closer
<1>6. a # k
  BY <1>1, <1>2, <1>4
<1>7. k < a /\ Option(s, k) = j /\ k \in 1 .. PrevSize + 1
  BY <1>1, <1>2, <1>5, <1>6 DEF Option
<1> QED BY <1>7 DEF Tried

\* Once numcheck blobs have been checked, no other is reached.
LEMMA NoneBeyondNumCheck ==
  ASSUME TypeOK, NEW c \in Contours, NEW i \in DOMAIN c, NEW s, Listed(s), Sorted(c, i, s),
         NEW r, NEW a \in 1 .. PrevSize + 1,
         Cardinality(Checked(c, s, r, i, a)) >= NumCheck(c),
         Reaches(c, r, i), r[i] # New
  PROVE  Tried(s, a, r[i])
<1> SUFFICES ASSUME ~Tried(s, a, r[i]) PROVE FALSE
  OBVIOUS
<1> DEFINE Nearer == {j \in Candidates(c, r, i) : Closer(c, i, j, r[i])}
<1>1. r[i] \in Candidates(c, r, i) /\ Cardinality(Nearer) < NumCheck(c)
  BY DEF Reaches
<1>2. PrevSize \in Nat /\ r[i] \in Prev /\ Candidates(c, r, i) \in SUBSET Prev
  BY <1>1, PrevShape DEF Candidates
<1>3. PICK b \in 1 .. PrevSize : s[b] = r[i]
  BY <1>2, ListedAll
<1>4. b \in 1 .. PrevSize + 1 /\ Option(s, b) = r[i] /\ a <= b
  BY <1>2, <1>3 DEF Tried, Option
<1>5. ASSUME NEW j \in Checked(c, s, r, i, a) PROVE j \in Nearer
  <2>1. j \in Candidates(c, r, i) /\ Tried(s, a, j) /\ j \in Prev
    BY <1>2 DEF Checked
  <2>2. PICK k \in 1 .. PrevSize + 1 : k < a /\ Option(s, k) = j
    BY <2>1 DEF Tried
  <2>3. k < b /\ k \in 1 .. PrevSize
    BY <1>2, <1>4, <2>2
  <2>4. s[k] = j
    BY <2>2, <2>3 DEF Option
  <2>5. Closer(c, i, j, r[i])
    BY <1>3, <2>3, <2>4 DEF Sorted
  <2> QED BY <2>1, <2>5
<1>6. IsFiniteSet(Nearer)
  BY <1>2, PrevShape, FS_Subset
<1>7. Checked(c, s, r, i, a) \in SUBSET Nearer
  BY <1>5
<1> HIDE DEF Nearer
<1>8. Cardinality(Checked(c, s, r, i, a)) <= Cardinality(Nearer) /\ Cardinality(Nearer) \in Nat
  BY <1>6, <1>7, FS_Subset, FS_CardinalityType
<1>9. Cardinality(Checked(c, s, r, i, a)) \in Nat /\ NumCheck(c) \in Nat
  BY CheckedCount, NumCheckShape, PrevShape
<1> QED BY <1>1, <1>8, <1>9

\* A candidate is reached before numcheck blobs have been checked.
LEMMA CandidateReached ==
  ASSUME TypeOK, NEW c \in Contours, NEW i \in DOMAIN c, NEW s, Listed(s), Sorted(c, i, s),
         NEW r, NEW a \in 1 .. PrevSize, r[i] = s[a], s[a] \in Candidates(c, r, i),
         Cardinality(Checked(c, s, r, i, a)) < NumCheck(c)
  PROVE  Reaches(c, r, i)
<1>1. PrevSize \in Nat /\ New \notin Prev /\ Candidates(c, r, i) \in SUBSET Prev
  BY PrevShape DEF Candidates
<1>2. a \in 1 .. PrevSize + 1 /\ Option(s, a) = s[a] /\ s[a] # New
  BY <1>1, OptionShape
<1>3. ASSUME NEW j \in Candidates(c, r, i)
      PROVE  Tried(s, a, j) <=> Closer(c, i, j, s[a])
  BY <1>1, <1>2, TriedIsBefore
<1>4. Checked(c, s, r, i, a) = {j \in Candidates(c, r, i) : Closer(c, i, j, r[i])}
  BY <1>3 DEF Checked
<1> QED BY <1>2, <1>4 DEF Reaches

-----------------------------------------------------------------------------
(* The recursion.                                                          *)
(*                                                                         *)
(* In the middle of permute, the rows that have been pushed are the rows   *)
(* of Matrix that come before the row that is being built: at some entry   *)
(* up to the deepest call they have an option that this call has tried,    *)
(* and before it the entries of the row.                                   *)

\* Row q has an option that permute(i) has tried, after the entries of r.
DoneAt(s, a, r, q, i) == AgreeTo(q, r, i - 1) /\ Tried(s, a, q[i])

\* Row q has been dealt with, where the calls go down to entry d.
DoneRow(c, cl, r, at, d, q) ==
  d = 0 \/ \E i \in DOMAIN c : i <= d /\ DoneAt(cl[i], at[i], r, q, i)

\* Every list is sorted.
AllSorted(c, cl) == \A i \in DOMAIN c : Listed(cl[i]) /\ Sorted(c, i, cl[i])

\* The calls above the deepest one have put the option they are at into the
\* row, and it is reached.
Passed(c, cl, r, at, d) ==
  \A i \in DOMAIN c :
    i < d => at[i] <= PrevSize + 1 /\ r[i] = Option(cl[i], at[i]) /\ Reaches(c, r, i)

\* A call that is in its loop has counted the candidates it has tried, and may
\* check another one.
Counted(c, cl, r, at, n, d) ==
  \A i \in DOMAIN c :
    i <= d /\ at[i] <= PrevSize =>
      n[i] = Cardinality(Checked(c, cl[i], r, i, at[i])) /\ n[i] < NumCheck(c)

\* The variables of permute have their types.
Frames(c, r, at, n) ==
  /\ r \in [DOMAIN c -> Prev \cup {New}]
  /\ at \in [DOMAIN c -> 1 .. PrevSize + 2]
  /\ n \in [DOMAIN c -> Nat]

Building(c, cl, r, at, n, d, M) ==
  /\ AllSorted(c, cl) /\ Passed(c, cl, r, at, d) /\ Counted(c, cl, r, at, n, d)
  /\ M = {q \in Matrix(c) : DoneRow(c, cl, r, at, d, q)}

\* Every entry of a row of Matrix is an option that is reached.
LEMMA MatrixEntry ==
  ASSUME NEW c, NEW q \in Matrix(c), NEW i \in DOMAIN c
  PROVE  q[i] \in Prev \cup {New} /\ Reaches(c, q, i)
BY DEF Matrix

\* The next try after the a-th: whatever it skips is not reached.
LEMMA TryPasses ==
  ASSUME TypeOK, NEW c \in Contours, NEW i \in DOMAIN c, NEW s, Listed(s), Sorted(c, i, s),
         NEW a \in 1 .. PrevSize, NEW r,
         NEW n, n = Cardinality(Checked(c, s, r, i, a)), n < NumCheck(c),
         NEW m, m = IF s[a] \in Candidates(c, r, i) THEN n + 1 ELSE n,
         NEW b, b = IF m >= NumCheck(c) THEN PrevSize + 1 ELSE a + 1
  PROVE  /\ b \in 1 .. PrevSize + 1
         /\ b <= PrevSize => m = Cardinality(Checked(c, s, r, i, b)) /\ m < NumCheck(c)
         /\ Reaches(c, r, i) /\ r[i] \in Prev \cup {New} =>
              (Tried(s, b, r[i]) <=> Tried(s, a, r[i]) \/ r[i] = s[a])
<1>1. PrevSize \in Nat /\ NumCheck(c) \in Nat /\ n \in Nat /\ m \in Nat
  BY PrevShape, NumCheckShape, CheckedCount
<1>2. m = Cardinality(Checked(c, s, r, i, a + 1))
  BY CheckedCount
<1>3. b \in 1 .. PrevSize + 1
  BY <1>1
<1>4. b <= PrevSize => b = a + 1 /\ m < NumCheck(c)
  BY <1>1
<1>5. a \in 1 .. PrevSize + 1 /\ a + 1 \in 1 .. PrevSize + 1 /\ Option(s, a) = s[a]
  BY <1>1, OptionShape
<1>6. ASSUME Reaches(c, r, i), r[i] \in Prev \cup {New}
      PROVE  Tried(s, b, r[i]) <=> Tried(s, a, r[i]) \/ r[i] = s[a]
  <2>1. Tried(s, a + 1, r[i]) <=> Tried(s, a, r[i]) \/ r[i] = s[a]
    BY <1>5, <1>6, TriedSteps
  <2>2. CASE b = a + 1
    BY <2>1, <2>2
  <2>3. CASE b # a + 1
    <3>1. m >= NumCheck(c) /\ b = PrevSize + 1
      BY <2>3
    <3>2. CASE r[i] = New
      <4>1. ~Tried(s, b, r[i]) /\ ~Tried(s, a, r[i])
        BY <1>3, <1>5, <1>6, <3>2, TriedIsBefore
      <4>2. r[i] # s[a]
        BY <3>2, OptionShape
      <4> QED BY <4>1, <4>2
    <3>3. CASE r[i] # New
      <4>1. Tried(s, a + 1, r[i])
        BY <1>2, <1>5, <1>6, <3>1, <3>3, NoneBeyondNumCheck
      <4>2. Option(s, b) = New
        BY <3>1, OptionShape
      <4>3. Tried(s, b, r[i])
        BY <1>3, <1>6, <3>3, <4>2, TriedIsBefore
      <4> QED BY <2>1, <4>1, <4>3
    <3> QED BY <3>2, <3>3
  <2> QED BY <2>2, <2>3
<1> QED BY <1>2, <1>3, <1>4, <1>6

\* A change of entry d and of the later ones leaves what the calls above permute(d)
\* have done as it was.
LEMMA EarlierCalls ==
  ASSUME NEW c \in Contours, NEW d \in Nat, NEW r, NEW r2,
         \A k \in DOMAIN c : k < d => r2[k] = r[k]
  PROVE  /\ \A i \in DOMAIN c : i <= d => AgreeTo(r2, r, i - 1)
         /\ \A q, s, a : \A i \in DOMAIN c : i <= d =>
              (DoneAt(s, a, r2, q, i) <=> DoneAt(s, a, r, q, i))
<1>1. DOMAIN c = 1 .. CurSize(c) /\ CurSize(c) \in Nat
  BY FrameShape
<1>2. ASSUME NEW i \in DOMAIN c, i <= d PROVE AgreeTo(r2, r, i - 1)
  BY <1>1, <1>2 DEF AgreeTo
<1>3. ASSUME NEW i \in DOMAIN c, i <= d, NEW q, NEW s, NEW a
      PROVE  DoneAt(s, a, r2, q, i) <=> DoneAt(s, a, r, q, i)
  BY <1>2, <1>3 DEF DoneAt, AgreeTo
<1> QED BY <1>2, <1>3

\* A step of permute(d) that calls nothing: the loop goes on, or ends, without
\* skipping an option that is reached.
LEMMA MoveOn ==
  ASSUME TypeOK, NEW c \in Contours, NEW cl, NEW r, NEW at, NEW n, NEW d \in DOMAIN c, NEW M,
         Building(c, cl, r, at, n, d, M),
         NEW r2, \A k \in DOMAIN c : k # d => r2[k] = r[k],
         NEW b, NEW at2, \A i \in DOMAIN c : at2[i] = IF i = d THEN b ELSE at[i],
         \A q \in Matrix(c) : AgreeTo(q, r, d - 1) =>
           (Tried(cl[d], b, q[d]) <=> Tried(cl[d], at[d], q[d])),
         b <= PrevSize =>
           n[d] = Cardinality(Checked(c, cl[d], r, d, b)) /\ n[d] < NumCheck(c)
  PROVE  Building(c, cl, r2, at2, n, d, M)
<1>1. DOMAIN c = 1 .. CurSize(c) /\ CurSize(c) \in Nat /\ d \in Nat
  BY FrameShape
<1>2. at2[d] = b /\ \A i \in DOMAIN c : i # d => at2[i] = at[i]
  OBVIOUS
<1>3. /\ \A i \in DOMAIN c : i <= d => AgreeTo(r2, r, i - 1)
      /\ \A q, s, a : \A i \in DOMAIN c : i <= d =>
           (DoneAt(s, a, r2, q, i) <=> DoneAt(s, a, r, q, i))
  <2>1. \A k \in DOMAIN c : k < d => r2[k] = r[k]
    BY <1>1
  <2> QED BY <1>1, <2>1, EarlierCalls
<1>4. Passed(c, cl, r2, at2, d)
  <2> SUFFICES ASSUME NEW i \in DOMAIN c, i < d
               PROVE  at2[i] <= PrevSize + 1 /\ r2[i] = Option(cl[i], at2[i]) /\ Reaches(c, r2, i)
    BY DEF Passed
  <2>1. at[i] <= PrevSize + 1 /\ r[i] = Option(cl[i], at[i]) /\ Reaches(c, r, i)
    BY DEF Building, Passed
  <2>2. at2[i] = at[i] /\ r2[i] = r[i]
    BY <1>1, <1>2
  <2>3. AgreeTo(r2, r, i - 1) /\ i \in Nat \ {0}
    BY <1>1, <1>3
  <2>4. Reaches(c, r2, i)
    BY <2>1, <2>2, <2>3, ReachesLocally
  <2> QED BY <2>1, <2>2, <2>4
<1>5. Counted(c, cl, r2, at2, n, d)
  <2> SUFFICES ASSUME NEW i \in DOMAIN c, i <= d, at2[i] <= PrevSize
               PROVE  n[i] = Cardinality(Checked(c, cl[i], r2, i, at2[i])) /\ n[i] < NumCheck(c)
    BY DEF Counted
  <2>1. AgreeTo(r2, r, i - 1) /\ i \in Nat \ {0}
    BY <1>1, <1>3
  <2>2. Checked(c, cl[i], r2, i, at2[i]) = Checked(c, cl[i], r, i, at2[i])
    BY <2>1, ReachesLocally DEF Checked
  <2>3. CASE i = d
    BY <1>2, <2>2, <2>3
  <2>4. CASE i # d
    BY <1>2, <2>2, <2>4 DEF Building, Counted
  <2> QED BY <2>3, <2>4
<1>6. ASSUME NEW q \in Matrix(c)
      PROVE  DoneRow(c, cl, r2, at2, d, q) <=> DoneRow(c, cl, r, at, d, q)
  <2>1. ASSUME NEW i \in DOMAIN c, i <= d
        PROVE  DoneAt(cl[i], at2[i], r2, q, i) <=> DoneAt(cl[i], at[i], r, q, i)
    <3>1. DoneAt(cl[i], at2[i], r2, q, i) <=> DoneAt(cl[i], at2[i], r, q, i)
      BY <1>3, <2>1
    <3>2. CASE i # d
      BY <1>2, <3>1, <3>2
    <3>3. CASE i = d
      BY <1>2, <3>1, <3>3 DEF DoneAt
    <3> QED BY <3>2, <3>3
  <2> QED BY <1>1, <2>1 DEF DoneRow
<1>7. M = {q \in Matrix(c) : DoneRow(c, cl, r2, at2, d, q)}
  BY <1>6 DEF Building
<1> QED BY <1>4, <1>5, <1>7 DEF Building

\* For the contours of c, g is f with x at entry e.
Changed(c, f, e, x, g) == \A i \in DOMAIN c : g[i] = IF i = e THEN x ELSE f[i]

\* Entry e is the one after d.
Follows(d, e) == e = d + 1

\* permute(d) puts an option into the row and calls permute(d + 1): no row is
\* finished by that.
LEMMA CallStep ==
  ASSUME TypeOK, NEW c \in Contours, NEW cl, NEW r, NEW at, NEW n, NEW d \in DOMAIN c, NEW M,
         NEW e, Follows(d, e),
         Building(c, cl, r, at, n, d, M),
         at[d] <= PrevSize + 1,
         NEW r2, Changed(c, r, d, Option(cl[d], at[d]), r2), Reaches(c, r2, d),
         NEW at2, Changed(c, at, e, 1, at2), NEW n2, Changed(c, n, e, 0, n2)
  PROVE  Building(c, cl, r2, at2, n2, e, M)
<1>1. DOMAIN c = 1 .. CurSize(c) /\ CurSize(c) \in Nat /\ d \in Nat /\ e = d + 1
  BY FrameShape DEF Follows
<1>2. /\ \A i \in DOMAIN c : i # e => at2[i] = at[i] /\ n2[i] = n[i]
      /\ e \in DOMAIN c => at2[e] = 1 /\ n2[e] = 0
      /\ r2[d] = Option(cl[d], at[d]) /\ \A k \in DOMAIN c : k # d => r2[k] = r[k]
  BY DEF Changed
<1>3. /\ \A i \in DOMAIN c : i <= d => AgreeTo(r2, r, i - 1)
      /\ \A q, s, a : \A i \in DOMAIN c : i <= d =>
           (DoneAt(s, a, r2, q, i) <=> DoneAt(s, a, r, q, i))
  <2>1. \A k \in DOMAIN c : k < d => r2[k] = r[k]
    BY <1>1, <1>2
  <2> QED BY <1>1, <2>1, EarlierCalls
<1>4. Passed(c, cl, r2, at2, e)
  <2> SUFFICES ASSUME NEW i \in DOMAIN c, i < e
               PROVE  at2[i] <= PrevSize + 1 /\ r2[i] = Option(cl[i], at2[i]) /\ Reaches(c, r2, i)
    BY DEF Passed
  <2>1. at2[i] = at[i]
    BY <1>1, <1>2
  <2>2. CASE i = d
    BY <1>2, <2>1, <2>2
  <2>3. CASE i # d
    <3>1. i < d
      BY <1>1, <2>3
    <3>2. at[i] <= PrevSize + 1 /\ r[i] = Option(cl[i], at[i]) /\ Reaches(c, r, i)
      BY <3>1 DEF Building, Passed
    <3>3. AgreeTo(r2, r, i - 1) /\ i \in Nat \ {0}
      BY <1>1, <1>3, <3>1
    <3>4. r2[i] = r[i]
      BY <1>2, <2>3
    <3>5. Reaches(c, r2, i)
      BY <3>2, <3>3, <3>4, ReachesLocally
    <3> QED BY <2>1, <3>2, <3>4, <3>5
  <2> QED BY <2>2, <2>3
<1>5. Counted(c, cl, r2, at2, n2, e)
  <2> SUFFICES ASSUME NEW i \in DOMAIN c, i <= e, at2[i] <= PrevSize
               PROVE  n2[i] = Cardinality(Checked(c, cl[i], r2, i, at2[i])) /\ n2[i] < NumCheck(c)
    BY DEF Counted
  <2>1. CASE i = e
    <3>1. at2[i] = 1 /\ n2[i] = 0
      BY <1>2, <2>1
    <3>2. Listed(cl[i])
      BY DEF Building, AllSorted
    <3>3. Cardinality(Checked(c, cl[i], r2, i, 1)) = 0
      BY <3>2, CheckedCount
    <3>4. NumCheck(c) > 0
      BY <3>1, PrevShape, NumCheckShape
    <3> QED BY <3>1, <3>3, <3>4
  <2>2. CASE i # e
    <3>1. i <= d /\ i \in Nat \ {0} /\ at2[i] = at[i] /\ n2[i] = n[i]
      BY <1>1, <1>2, <2>2
    <3>2. Checked(c, cl[i], r2, i, at2[i]) = Checked(c, cl[i], r, i, at[i])
      BY <1>3, <3>1, ReachesLocally DEF Checked
    <3> QED BY <3>1, <3>2 DEF Building, Counted
  <2> QED BY <2>1, <2>2
<1>6. ASSUME NEW q \in Matrix(c)
      PROVE  DoneRow(c, cl, r2, at2, e, q) <=> DoneRow(c, cl, r, at, d, q)
  <2>1. ASSUME NEW i \in DOMAIN c, i <= d
        PROVE  DoneAt(cl[i], at2[i], r2, q, i) <=> DoneAt(cl[i], at[i], r, q, i)
    <3>1. at2[i] = at[i]
      BY <1>1, <1>2, <2>1
    <3> QED BY <1>3, <2>1, <3>1
  <2>2. e \in DOMAIN c => ~DoneAt(cl[e], at2[e], r2, q, e)
    <3> SUFFICES ASSUME e \in DOMAIN c PROVE ~Tried(cl[e], 1, q[e])
      BY <1>2 DEF DoneAt
    <3>1. Listed(cl[e]) /\ q[e] \in Prev \cup {New}
      BY MatrixEntry DEF Building, AllSorted
    <3> QED BY <3>1, TriedSteps
  <2>3. \A i \in DOMAIN c : i <= e <=> i <= d \/ i = e
    BY <1>1
  <2>4. d # 0 /\ e # 0
    BY <1>1
  <2> QED BY <2>1, <2>2, <2>3, <2>4 DEF DoneRow
<1>7. M = {q \in Matrix(c) : DoneRow(c, cl, r2, at2, e, q)}
  BY <1>6 DEF Building
<1> QED BY <1>4, <1>5, <1>7 DEF Building

\* What permute(e) has tried when its call of permute(e + 1) has returned: its
\* option too, and nothing that is reached has been skipped.
LEMMA CallerTries ==
  ASSUME TypeOK, NEW c \in Contours, NEW cl, NEW r, NEW at, NEW n, NEW e \in DOMAIN c, NEW M,
         NEW d, Follows(e, d), Building(c, cl, r, at, n, d, M), at[e] \in 1 .. PrevSize + 2,
         NEW b, b = IF at[e] > PrevSize THEN PrevSize + 2
                    ELSE IF n[e] + 1 >= NumCheck(c) THEN PrevSize + 1 ELSE at[e] + 1
  PROVE  /\ b <= PrevSize => /\ at[e] <= PrevSize
                             /\ n[e] + 1 = Cardinality(Checked(c, cl[e], r, e, b))
                             /\ n[e] + 1 < NumCheck(c)
         /\ \A q \in Matrix(c) : AgreeTo(q, r, e - 1) =>
              (Tried(cl[e], b, q[e]) <=> Tried(cl[e], at[e], q[e]) \/ q[e] = r[e])
<1> DEFINE s == cl[e]
           a == at[e]
<1>1. PrevSize \in Nat /\ e < d /\ e <= d /\ e \in Nat \ {0}
  BY PrevShape, FrameShape DEF Follows
<1>2. /\ Listed(s) /\ Sorted(c, e, s)
      /\ a <= PrevSize + 1 /\ r[e] = Option(s, a) /\ Reaches(c, r, e)
      /\ a <= PrevSize => n[e] = Cardinality(Checked(c, s, r, e, a)) /\ n[e] < NumCheck(c)
  BY <1>1 DEF Building, AllSorted, Passed, Counted
<1>3. a \in 1 .. PrevSize + 1
  BY <1>1, <1>2
<1>4. CASE a <= PrevSize
  <2>1. a \in 1 .. PrevSize /\ r[e] = s[a] /\ r[e] # New
    BY <1>1, <1>2, <1>3, <1>4, OptionShape
  <2>2. s[a] \in Candidates(c, r, e)
    BY <1>2, <2>1 DEF Reaches
  <2>3. b = IF n[e] + 1 >= NumCheck(c) THEN PrevSize + 1 ELSE a + 1
    BY <1>1, <1>3, <1>4
  <2> HIDE DEF s, a
  <2>4. b <= PrevSize => /\ n[e] + 1 = Cardinality(Checked(c, s, r, e, b))
                         /\ n[e] + 1 < NumCheck(c)
    BY <1>2, <1>4, <2>1, <2>2, <2>3, TryPasses
  <2>5. ASSUME NEW q \in Matrix(c), AgreeTo(q, r, e - 1)
        PROVE  Tried(s, b, q[e]) <=> Tried(s, a, q[e]) \/ q[e] = r[e]
    <3>1. Candidates(c, q, e) = Candidates(c, r, e)
      BY <1>1, <2>5, ReachesLocally
    <3>2. Checked(c, s, q, e, a) = Checked(c, s, r, e, a)
      BY <3>1 DEF Checked
    <3>3. Reaches(c, q, e) /\ q[e] \in Prev \cup {New}
      BY MatrixEntry
    <3>4. n[e] = Cardinality(Checked(c, s, q, e, a)) /\ s[a] \in Candidates(c, q, e)
      BY <1>2, <1>4, <2>2, <3>1, <3>2
    <3>5. Tried(s, b, q[e]) <=> Tried(s, a, q[e]) \/ q[e] = s[a]
      BY <1>2, <1>4, <2>1, <2>3, <3>3, <3>4, TryPasses
    <3> QED BY <2>1, <3>5
  <2> QED BY <1>4, <2>4, <2>5 DEF s, a
<1>5. CASE ~(a <= PrevSize)
  <2>1. a = PrevSize + 1 /\ b = a + 1
    BY <1>1, <1>3, <1>5
  <2>2. ASSUME NEW q \in Matrix(c)
        PROVE  Tried(s, b, q[e]) <=> Tried(s, a, q[e]) \/ q[e] = r[e]
    <3>1. q[e] \in Prev \cup {New}
      BY MatrixEntry
    <3> QED BY <1>2, <1>3, <2>1, <3>1, TriedSteps
  <2> QED BY <1>1, <2>1, <2>2
<1> QED BY <1>4, <1>5

\* What the locals of the calls are when permute has returned to entry e.
Returned(c, at, n, e, at2, n2) ==
  \A i \in DOMAIN c :
    /\ n2[i] = IF i = e /\ at[i] <= PrevSize THEN n[i] + 1 ELSE n[i]
    /\ at2[i] = IF i # e THEN at[i]
               ELSE IF at[i] > PrevSize THEN PrevSize + 2
               ELSE IF n[i] + 1 >= NumCheck(c) THEN PrevSize + 1 ELSE at[i] + 1

\* permute(e + 1) returns: all rows that agree with the row up to e are pushed.
LEMMA ReturnStep ==
  ASSUME TypeOK, NEW c \in Contours, NEW cl, NEW r, NEW at, NEW n, NEW e \in Nat, NEW M,
         e <= CurSize(c), NEW d, Follows(e, d), Building(c, cl, r, at, n, d, M),
         \A i \in DOMAIN c : at[i] \in 1 .. PrevSize + 2,
         NEW M2 \in SUBSET Matrix(c),
         \A q \in Matrix(c) : q \in M2 <=> q \in M \/ AgreeTo(q, r, e),
         NEW at2, NEW n2, Returned(c, at, n, e, at2, n2)
  PROVE  Building(c, cl, r, at2, n2, e, M2)
<1>1. DOMAIN c = 1 .. CurSize(c) /\ CurSize(c) \in Nat /\ PrevSize \in Nat /\ d = e + 1
  BY FrameShape, PrevShape DEF Follows
<1>2. \A i \in DOMAIN c : i # e => at2[i] = at[i] /\ n2[i] = n[i]
  BY DEF Returned
<1>3. e \in DOMAIN c =>
        /\ at2[e] <= PrevSize => /\ n2[e] = Cardinality(Checked(c, cl[e], r, e, at2[e]))
                                 /\ n2[e] < NumCheck(c)
        /\ \A q \in Matrix(c) : AgreeTo(q, r, e - 1) =>
             (Tried(cl[e], at2[e], q[e]) <=> Tried(cl[e], at[e], q[e]) \/ q[e] = r[e])
  <2> SUFFICES ASSUME e \in DOMAIN c
               PROVE  /\ at2[e] <= PrevSize =>
                           /\ n2[e] = Cardinality(Checked(c, cl[e], r, e, at2[e]))
                           /\ n2[e] < NumCheck(c)
                      /\ \A q \in Matrix(c) : AgreeTo(q, r, e - 1) =>
                           (Tried(cl[e], at2[e], q[e]) <=> Tried(cl[e], at[e], q[e]) \/ q[e] = r[e])
    OBVIOUS
  <2>1. at2[e] = IF at[e] > PrevSize THEN PrevSize + 2
                 ELSE IF n[e] + 1 >= NumCheck(c) THEN PrevSize + 1 ELSE at[e] + 1
    BY DEF Returned
  <2>2. /\ at2[e] <= PrevSize => /\ at[e] <= PrevSize
                                 /\ n[e] + 1 = Cardinality(Checked(c, cl[e], r, e, at2[e]))
                                 /\ n[e] + 1 < NumCheck(c)
        /\ \A q \in Matrix(c) : AgreeTo(q, r, e - 1) =>
             (Tried(cl[e], at2[e], q[e]) <=> Tried(cl[e], at[e], q[e]) \/ q[e] = r[e])
    BY <2>1, CallerTries
  <2>3. at[e] <= PrevSize => n2[e] = n[e] + 1
    BY DEF Returned
  <2> QED BY <2>2, <2>3
<1>4. Passed(c, cl, r, at2, e)
  <2> SUFFICES ASSUME NEW i \in DOMAIN c, i < e
               PROVE  at2[i] <= PrevSize + 1 /\ r[i] = Option(cl[i], at2[i]) /\ Reaches(c, r, i)
    BY DEF Passed
  <2>1. at2[i] = at[i] /\ i < d
    BY <1>1, <1>2
  <2> QED BY <2>1 DEF Building, Passed
<1>5. Counted(c, cl, r, at2, n2, e)
  <2> SUFFICES ASSUME NEW i \in DOMAIN c, i <= e, at2[i] <= PrevSize
               PROVE  n2[i] = Cardinality(Checked(c, cl[i], r, i, at2[i])) /\ n2[i] < NumCheck(c)
    BY DEF Counted
  <2>1. CASE i = e
    BY <1>3, <2>1
  <2>2. CASE i # e
    <3>1. at2[i] = at[i] /\ n2[i] = n[i] /\ i <= d
      BY <1>1, <1>2, <2>2
    <3> QED BY <3>1 DEF Building, Counted
  <2> QED BY <2>1, <2>2
<1>6. ASSUME NEW q \in Matrix(c)
      PROVE  q \in M2 <=> DoneRow(c, cl, r, at2, e, q)
  <2>1. CASE e = 0
    BY <2>1 DEF DoneRow, AgreeTo
  <2>2. CASE e # 0
    <3>1. e \in DOMAIN c
      BY <1>1, <2>2
    <3>2. q \in M <=> DoneRow(c, cl, r, at, d, q)
      BY DEF Building
    <3>3. AgreeTo(q, r, e) <=> AgreeTo(q, r, e - 1) /\ q[e] = r[e]
      BY <1>1, <3>1 DEF AgreeTo
    <3>4. DoneAt(cl[e], at2[e], r, q, e) <=>
            DoneAt(cl[e], at[e], r, q, e) \/ AgreeTo(q, r, e)
      BY <1>3, <3>1, <3>3 DEF DoneAt
    <3>5. \A i \in DOMAIN c : i # e =>
            (DoneAt(cl[i], at2[i], r, q, i) <=> DoneAt(cl[i], at[i], r, q, i))
      BY <1>2
    <3>6. DoneAt(cl[d], at[d], r, q, d) => AgreeTo(q, r, e)
      BY <1>1 DEF DoneAt
    <3>7. \A i \in DOMAIN c : i <= d <=> i <= e \/ i = d
      BY <1>1
    <3>8. d # 0 /\ \A i \in DOMAIN c : i <= e => i # d
      BY <1>1
    <3> HIDE DEF DoneAt, AgreeTo
    <3>9. DoneRow(c, cl, r, at, d, q) <=>
            \E i \in DOMAIN c : i <= d /\ DoneAt(cl[i], at[i], r, q, i)
      BY <3>8 DEF DoneRow
    <3>10. DoneRow(c, cl, r, at2, e, q) <=>
            \E i \in DOMAIN c : i <= e /\ DoneAt(cl[i], at2[i], r, q, i)
      BY <2>2 DEF DoneRow
    <3>11. ASSUME q \in M2 PROVE DoneRow(c, cl, r, at2, e, q)
      <4>1. CASE AgreeTo(q, r, e)
        BY <1>1, <3>1, <3>4, <3>10, <4>1
      <4>2. CASE ~AgreeTo(q, r, e)
        <5>1. PICK i \in DOMAIN c : i <= d /\ DoneAt(cl[i], at[i], r, q, i)
          BY <3>2, <3>9, <3>11, <4>2
        <5>2. i <= e
          BY <3>6, <3>7, <4>2, <5>1
        <5> QED BY <3>4, <3>5, <3>10, <5>1, <5>2
      <4> QED BY <4>1, <4>2
    <3>12. ASSUME DoneRow(c, cl, r, at2, e, q) PROVE q \in M2
      <4>1. PICK i \in DOMAIN c : i <= e /\ DoneAt(cl[i], at2[i], r, q, i)
        BY <3>10, <3>12
      <4>2. AgreeTo(q, r, e) \/ DoneAt(cl[i], at[i], r, q, i)
        BY <3>4, <3>5, <4>1
      <4> QED BY <3>2, <3>7, <3>9, <4>1, <4>2
    <3> QED BY <3>11, <3>12
  <2> QED BY <2>1, <2>2
<1>7. M2 = {q \in Matrix(c) : DoneRow(c, cl, r, at2, e, q)}
  BY <1>6
<1> QED BY <1>4, <1>5, <1>7 DEF Building

-----------------------------------------------------------------------------
(* The order of the rows.                                                  *)

\* No row comes before a row that comes before it.
LEMMA BeforeAsymmetric ==
  ASSUME TypeOK, NEW c \in Contours,
         NEW q \in [DOMAIN c -> Prev \cup {New}], NEW r \in [DOMAIN c -> Prev \cup {New}],
         Before(c, q, r), Before(c, r, q)
  PROVE  FALSE
<1>1. PICK i \in DOMAIN c : /\ \A k \in 1 .. i - 1 : q[k] = r[k]
                            /\ q[i] # New
                            /\ r[i] = New \/ Closer(c, i, q[i], r[i])
  BY DEF Before
<1>2. PICK m \in DOMAIN c : /\ \A k \in 1 .. m - 1 : r[k] = q[k]
                            /\ r[m] # New
                            /\ q[m] = New \/ Closer(c, m, r[m], q[m])
  BY DEF Before
<1>3. DOMAIN c = 1 .. CurSize(c) /\ CurSize(c) \in Nat
  BY FrameShape
<1>4. \A l \in DOMAIN c, j, k \in Prev : Closer(c, l, j, k) => ~Closer(c, l, k, j)
  <2> SUFFICES ASSUME NEW l \in DOMAIN c, NEW j \in Prev, NEW k \in Prev,
                      Closer(c, l, j, k), Closer(c, l, k, j)
               PROVE  FALSE
    OBVIOUS
  <2>1. Error(c, l, j) \in Nat /\ Error(c, l, k) \in Nat /\ j \in Nat /\ k \in Nat
    BY ErrorIsNat, PrevShape
  <2> QED BY <2>1 DEF Closer
<1>5. q[i] # r[i]
  BY <1>1, <1>4
<1>6. q[m] # r[m]
  BY <1>2, <1>4
<1>7. i = m
  <2>1. ~(i < m)
    BY <1>2, <1>3, <1>5
  <2>2. ~(m < i)
    BY <1>1, <1>3, <1>6
  <2> QED BY <1>3, <2>1, <2>2
<1>8. q[i] \in Prev /\ r[i] \in Prev
  BY <1>1, <1>2, <1>7
<1> QED BY <1>1, <1>2, <1>4, <1>7, <1>8

\* When a row is complete, it is a row of Matrix, and all the rows that have
\* been pushed come before it.
LEMMA CompleteRow ==
  ASSUME TypeOK, NEW c \in Contours, NEW cl, NEW r, NEW at, NEW n, NEW M,
         Frames(c, r, at, n), Building(c, cl, r, at, n, CurSize(c) + 1, M)
  PROVE  /\ r \in Matrix(c)
         /\ \A q \in M : q \in Matrix(c) /\ Before(c, q, r)
         /\ \A q \in Matrix(c) : AgreeTo(q, r, CurSize(c)) <=> q = r
<1>1. DOMAIN c = 1 .. CurSize(c) /\ CurSize(c) \in Nat /\ PrevSize \in Nat
  BY FrameShape, PrevShape
<1>2. \A i \in DOMAIN c : i < CurSize(c) + 1
  BY <1>1
<1>3. \A i \in DOMAIN c : /\ at[i] <= PrevSize + 1 /\ r[i] = Option(cl[i], at[i])
                          /\ Reaches(c, r, i)
  BY <1>2 DEF Building, Passed
<1>4. r \in Matrix(c)
  BY <1>3 DEF Matrix, Frames
<1>5. ASSUME NEW q \in M PROVE q \in Matrix(c) /\ Before(c, q, r)
  <2>1. q \in Matrix(c) /\ DoneRow(c, cl, r, at, CurSize(c) + 1, q)
    BY DEF Building
  <2>2. PICK i \in DOMAIN c : DoneAt(cl[i], at[i], r, q, i)
    BY <1>1, <2>1 DEF DoneRow
  <2>3. q[i] \in Prev \cup {New} /\ at[i] \in 1 .. PrevSize + 1
    BY <1>1, <1>3, <2>1, MatrixEntry DEF Frames
  <2>4. Listed(cl[i]) /\ Sorted(c, i, cl[i])
    BY DEF Building, AllSorted
  <2>5. Tried(cl[i], at[i], q[i]) /\ AgreeTo(q, r, i - 1)
    BY <2>2 DEF DoneAt
  <2>6. q[i] # New /\ (r[i] = New \/ Closer(c, i, q[i], r[i]))
    BY <1>3, <2>3, <2>4, <2>5, TriedIsBefore
  <2> QED BY <2>1, <2>5, <2>6 DEF Before, AgreeTo
<1>6. ASSUME NEW q \in Matrix(c) PROVE AgreeTo(q, r, CurSize(c)) <=> q = r
  BY <1>1 DEF AgreeTo, Matrix, Frames
<1> QED BY <1>4, <1>5, <1>6

-----------------------------------------------------------------------------
(* The row with the lowest error.                                          *)

\* Each row of the list comes before the later ones.
InBefore(c, rows) ==
  \A a, b \in DOMAIN rows : a < b => Before(c, rows[a], rows[b])

\* Of the first m rows the b-th is the first with the lowest error.
BestUpTo(c, rows, b, m) ==
  \A a \in DOMAIN rows : a < m =>
    /\ TotalError(c, rows[b]) <= TotalError(c, rows[a])
    /\ a < b => TotalError(c, rows[b]) < TotalError(c, rows[a])

\* Of all rows of Matrix that is the one and only row of BestOf.
LEMMA FirstIsBest ==
  ASSUME TypeOK, NEW c \in Contours, NEW len \in Nat, NEW rows, DOMAIN rows = 1 .. len,
         \A q : q \in Matrix(c) <=> \E a \in DOMAIN rows : q = rows[a],
         InBefore(c, rows), NEW b \in DOMAIN rows, BestUpTo(c, rows, b, len + 1)
  PROVE  BestOf(c, Matrix(c)) = {rows[b]}
<1> DEFINE Totals == {TotalError(c, row) : row \in Matrix(c)}
           Cheapest == {row \in Matrix(c) : TotalError(c, row) = Min(Totals)}
<1>1. \A a \in DOMAIN rows : /\ rows[a] \in Matrix(c) /\ a < len + 1 /\ a \in Nat
                             /\ rows[a] \in [DOMAIN c -> Prev \cup {New}]
                             /\ TotalError(c, rows[a]) \in Nat
  <2> SUFFICES ASSUME NEW a \in DOMAIN rows
               PROVE  /\ rows[a] \in Matrix(c) /\ a < len + 1 /\ a \in Nat
                      /\ rows[a] \in [DOMAIN c -> Prev \cup {New}]
                      /\ TotalError(c, rows[a]) \in Nat
    OBVIOUS
  <2>1. rows[a] \in Matrix(c) /\ a < len + 1 /\ a \in Nat
    OBVIOUS
  <2>2. rows[a] \in [DOMAIN c -> Prev \cup {New}]
    BY <2>1 DEF Matrix
  <2>3. TotalError(c, rows[a]) \in Nat
    BY <2>2, TotalZero
  <2> QED BY <2>1, <2>2, <2>3
<1>2. \A a \in DOMAIN rows : /\ TotalError(c, rows[b]) <= TotalError(c, rows[a])
                             /\ a < b => TotalError(c, rows[b]) < TotalError(c, rows[a])
  BY <1>1 DEF BestUpTo
<1>3. TotalError(c, rows[b]) \in Totals
  BY <1>1
<1>4. ASSUME NEW m \in Totals PROVE m \in Nat /\ TotalError(c, rows[b]) <= m
  <2>1. PICK row \in Matrix(c) : m = TotalError(c, row)
    OBVIOUS
  <2>2. PICK a \in DOMAIN rows : row = rows[a]
    BY <2>1
  <2>3. m = TotalError(c, rows[a])
    BY <2>1, <2>2
  <2> HIDE DEF Totals
  <2> QED BY <1>1, <1>2, <2>3
<1> HIDE DEF Totals
<1>5. Min(Totals) \in Totals /\ \A m \in Totals : Min(Totals) <= m
  BY <1>3, <1>4 DEF Min
<1>6. Min(Totals) = TotalError(c, rows[b])
  BY <1>3, <1>4, <1>5
<1>7. \A row : row \in Cheapest <=>
        \E a \in DOMAIN rows : row = rows[a] /\ TotalError(c, rows[a]) = TotalError(c, rows[b])
  BY <1>6
<1>8. rows[b] \in Cheapest
  BY <1>7
<1>9. ASSUME NEW row \in Cheapest PROVE row = rows[b] \/ Before(c, rows[b], row)
  <2>1. PICK a \in DOMAIN rows : row = rows[a] /\ TotalError(c, rows[a]) = TotalError(c, rows[b])
    BY <1>7
  <2>2. ~(a < b)
    BY <1>1, <1>2, <2>1
  <2>3. a = b \/ b < a
    BY <1>1, <2>2
  <2> QED BY <2>1, <2>3 DEF InBefore
<1>10. ASSUME NEW row \in Cheapest PROVE ~Before(c, row, rows[b])
  <2>1. row \in [DOMAIN c -> Prev \cup {New}]
    BY <1>1, <1>7
  <2>2. CASE row = rows[b]
    BY <1>1, <2>2, BeforeAsymmetric
  <2>3. CASE Before(c, rows[b], row)
    BY <1>1, <2>1, <2>3, BeforeAsymmetric
  <2> QED BY <1>9, <2>2, <2>3
<1>11. BestOf(c, Matrix(c)) = {row \in Cheapest : \A other \in Cheapest : ~Before(c, other, row)}
  BY DEF BestOf, Totals
<1> HIDE DEF Cheapest
<1> QED BY <1>8, <1>9, <1>10, <1>11

-----------------------------------------------------------------------------
(* The inductive invariant.                                                *)

\* The sort of contour i is at pass j and entry k: the contours before i are
\* sorted, and of i the entries that j - 1 passes have moved to the end.
SortState(c, cl, i, j, k) ==
  /\ j <= PrevSize + 1 /\ (j <= PrevSize => k <= PrevSize - j + 1)
  /\ \A m \in DOMAIN c :
       /\ Listed(cl[m]) /\ Stable(c, m, cl[m])
       /\ m < i => Sorted(c, m, cl[m])
       /\ m = i => /\ SortedFrom(c, m, cl[m], PrevSize - j + 2)
                   /\ GreatestAt(c, m, cl[m], k)

SortInv ==
  pc = "sort" =>
    /\ start = 0 /\ matrix = << >> /\ best = 0
    /\ \A m \in DOMAIN contours : tried[m] = 1 /\ numchecked[m] = 0
    /\ SortState(contours, closest, loopI, loopJ, loopK)

\* Without a contour nothing is called and nothing is pushed.
RecursionState(c, cl, r, at, n, d, M) ==
  IF c = << >> THEN d = 0 /\ M = {} ELSE Building(c, cl, r, at, n, d, M)

RecursionInv ==
  pc = "permute" =>
    best = 0 /\ RecursionState(contours, closest, ids, tried, numchecked, start, Pushed)

OrderInv == pc # "idle" => InBefore(contours, matrix)

\* All rows have been pushed, and the first m - 1 of them compared.
BestState(c, rows, M, b, m) ==
  /\ M = IF c = << >> THEN {} ELSE Matrix(c)
  /\ m <= Len(rows) + 1 /\ b < m /\ (m > 1 => b > 0)
  /\ BestUpTo(c, rows, b, m)

BestInv == pc = "best" => BestState(contours, matrix, Pushed, best, loopJ)

CallInv == PermuteTypeOK /\ SortInv /\ RecursionInv /\ OrderInv /\ BestInv

\* The predicates above are about the vector and their arguments only.
LEMMA SameVector ==
  ASSUME blobs' = blobs
  PROVE  /\ Prev' = Prev /\ PrevSize' = PrevSize
         /\ \A c, i, j : Error(c, i, j)' = Error(c, i, j)
         /\ \A c, i, j, k : Closer(c, i, j, k)' <=> Closer(c, i, j, k)
         /\ \A c : NumCheck(c)' = NumCheck(c) /\ ExtraIDs(c)' = ExtraIDs(c)
         /\ \A c : Matrix(c)' = Matrix(c)
         /\ \A c, r, i : /\ Reaches(c, r, i)' <=> Reaches(c, r, i)
                         /\ Candidates(c, r, i)' = Candidates(c, r, i)
         /\ \A c, r : TotalError(c, r)' = TotalError(c, r)
         /\ \A c, q, r : Before(c, q, r)' <=> Before(c, q, r)
<1>1. Prev' = Prev /\ PrevSize' = PrevSize
  BY DEF Prev, PrevSize
<1>2. \A c, i, j : Error(c, i, j)' = Error(c, i, j)
  BY DEF Error
<1>3. \A c, i, j, k : Closer(c, i, j, k)' <=> Closer(c, i, j, k)
  BY <1>2 DEF Closer
<1>4. \A c : NumCheck(c)' = NumCheck(c) /\ ExtraIDs(c)' = ExtraIDs(c)
  BY <1>1 DEF NumCheck, ExtraIDs, CurSize
<1>5. \A c, r, i : Candidates(c, r, i)' = Candidates(c, r, i)
  BY <1>1, <1>2 DEF Candidates, CheckValid
<1>6. \A c, r, i : CheckValidNew(c, r, i)' <=> CheckValidNew(c, r, i)
  BY <1>4 DEF CheckValidNew
<1>7. \A c, r, i : Reaches(c, r, i)' <=> Reaches(c, r, i)
  BY <1>3, <1>4, <1>5, <1>6 DEF Reaches
<1>8. \A c : Matrix(c)' = Matrix(c)
  BY <1>1, <1>7 DEF Matrix
<1>9. \A c, r : TotalError(c, r)' = TotalError(c, r)
  BY DEF TotalError, Error, MapThenSumSet, MapThenFoldSet
<1>10. \A c, q, r : Before(c, q, r)' <=> Before(c, q, r)
  BY <1>3 DEF Before
<1> QED BY <1>1, <1>2, <1>3, <1>4, <1>5, <1>7, <1>8, <1>9, <1>10

LEMMA SameState ==
  ASSUME blobs' = blobs, NEW c, NEW cl, NEW i, NEW j, NEW k, NEW r, NEW at, NEW n, NEW d,
         NEW M, NEW rows, NEW b
  PROVE  /\ SortState(c, cl, i, j, k)' <=> SortState(c, cl, i, j, k)
         /\ RecursionState(c, cl, r, at, n, d, M)' <=> RecursionState(c, cl, r, at, n, d, M)
         /\ InBefore(c, rows)' <=> InBefore(c, rows)
         /\ BestState(c, rows, M, b, i)' <=> BestState(c, rows, M, b, i)
<1>1. \A s : Listed(s)' <=> Listed(s)
  BY SameVector DEF Listed
<1>2. \A m, s : /\ Stable(c, m, s)' <=> Stable(c, m, s)
                /\ Sorted(c, m, s)' <=> Sorted(c, m, s)
                /\ \A a : /\ SortedFrom(c, m, s, a)' <=> SortedFrom(c, m, s, a)
                          /\ GreatestAt(c, m, s, a)' <=> GreatestAt(c, m, s, a)
  BY SameVector DEF Stable, Sorted, SortedFrom, GreatestAt
<1>3. SortState(c, cl, i, j, k)' <=> SortState(c, cl, i, j, k)
  BY <1>1, <1>2, SameVector DEF SortState
<1>4. \A s, a, o : /\ Option(s, a)' = Option(s, a)
                   /\ Tried(s, a, o)' <=> Tried(s, a, o)
  BY SameVector DEF Option, Tried
<1>5. AllSorted(c, cl)' <=> AllSorted(c, cl)
  BY <1>1, <1>2 DEF AllSorted
<1>6. Passed(c, cl, r, at, d)' <=> Passed(c, cl, r, at, d)
  BY <1>4, SameVector DEF Passed
<1>7. \A s, q, m, a : Checked(c, s, q, m, a)' = Checked(c, s, q, m, a)
  BY <1>4, SameVector DEF Checked
<1>8. Counted(c, cl, r, at, n, d)' <=> Counted(c, cl, r, at, n, d)
  BY <1>7, SameVector DEF Counted
<1>9. \A q : DoneRow(c, cl, r, at, d, q)' <=> DoneRow(c, cl, r, at, d, q)
  BY <1>4 DEF DoneRow, DoneAt
<1>10. Building(c, cl, r, at, n, d, M)' <=> Building(c, cl, r, at, n, d, M)
  BY <1>5, <1>6, <1>8, <1>9, SameVector DEF Building
<1>11. RecursionState(c, cl, r, at, n, d, M)' <=> RecursionState(c, cl, r, at, n, d, M)
  BY <1>10 DEF RecursionState
<1>12. InBefore(c, rows)' <=> InBefore(c, rows)
  BY SameVector DEF InBefore
<1>13. BestUpTo(c, rows, b, i)' <=> BestUpTo(c, rows, b, i)
  BY SameVector DEF BestUpTo
<1>14. BestState(c, rows, M, b, i)' <=> BestState(c, rows, M, b, i)
  BY <1>13, SameVector DEF BestState
<1> QED BY <1>3, <1>11, <1>12, <1>14

\* A step that leaves the vector alone keeps the invariant when it keeps the
\* parts of it that are about the phase it is in.
LEMMA SamePhase ==
  ASSUME TypeOK, blobs' = blobs,
         pc' = "sort" => /\ start' = 0 /\ matrix' = << >> /\ best' = 0
                         /\ \A m \in DOMAIN contours' : tried'[m] = 1 /\ numchecked'[m] = 0
                         /\ SortState(contours', closest', loopI', loopJ', loopK'),
         pc' = "permute" => /\ best' = 0
                            /\ RecursionState(contours', closest', ids', tried', numchecked',
                                              start', Pushed'),
         pc' # "idle" => InBefore(contours', matrix'),
         pc' = "best" => BestState(contours', matrix', Pushed', best', loopJ')
  PROVE  SortInv' /\ RecursionInv' /\ OrderInv' /\ BestInv'
<1>1. SortInv'
  BY SameState DEF SortInv
<1>2. RecursionInv'
  BY SameState DEF RecursionInv
<1>3. OrderInv'
  BY SameState DEF OrderInv
<1>4. BestInv'
  BY SameState DEF BestInv
<1> QED BY <1>1, <1>2, <1>3, <1>4

\* No call has begun.
LEMMA InitCallInv == PermuteInit => CallInv
<1> SUFFICES ASSUME PermuteInit PROVE CallInv
  OBVIOUS
<1>1. contours \in Contours
  <2>1. << >> \in [1 .. 0 -> Places]
    OBVIOUS
  <2>2. 0 \in 0 .. MaxBlobs
    BY TrackerAssumption
  <2> QED BY <2>1, <2>2 DEF PermuteInit, Contours
<1>2. CurSize(contours) \in Nat
  BY <1>1, FrameShape
<1>3. PermuteTypeOK
  BY <1>1, <1>2 DEF PermuteInit, PermuteTypeOK
<1> QED BY <1>3 DEF PermuteInit, CallInv, SortInv, RecursionInv, OrderInv, BestInv

\* A call begins with unsorted lists and nothing tried.
LEMMA BeginCallInv ==
  ASSUME TypeOK, CallInv, NEW c \in Contours, Begin(c)
  PROVE  CallInv'
<1> DEFINE cl == [i \in DOMAIN c |-> InOrder]
<1>1. /\ contours' = c /\ pc' = "sort" /\ closest' = cl
      /\ loopI' = 1 /\ loopJ' = 1 /\ loopK' = 1
      /\ start' = 0 /\ matrix' = << >> /\ best' = 0
      /\ ids' = [i \in DOMAIN c |-> New]
      /\ tried' = [i \in DOMAIN c |-> 1] /\ numchecked' = [i \in DOMAIN c |-> 0]
      /\ blobs' = blobs
  BY DEF Begin, trackerVars
<1>2. /\ PrevSize \in Nat /\ Prev' = Prev /\ PrevSize' = PrevSize
      /\ CurSize(c) \in Nat /\ DOMAIN c = 1 .. CurSize(c)
  BY <1>1, PrevShape, FrameShape, SameVector
<1>3. /\ Listed(InOrder)
      /\ \A a, b \in 1 .. PrevSize : a < b => InOrder[a] < InOrder[b]
  BY InOrderListed
<1>4. PermuteTypeOK'
  <2>1. cl \in [DOMAIN c -> [1 .. PrevSize -> Prev]]
    BY <1>3 DEF Listed
  <2> HIDE DEF cl
  <2>2. CurSize(contours)' = CurSize(c)
    BY <1>1 DEF CurSize
  <2> QED BY <1>1, <1>2, <2>1, <2>2 DEF PermuteTypeOK
<1>5. SortState(c, cl, 1, 1, 1)
  <2>1. ASSUME NEW m \in DOMAIN c
        PROVE  /\ Listed(cl[m]) /\ Stable(c, m, cl[m])
               /\ ~(m < 1)
               /\ SortedFrom(c, m, cl[m], PrevSize - 1 + 2) /\ GreatestAt(c, m, cl[m], 1)
    <3>1. cl[m] = InOrder
      OBVIOUS
    <3>2. Stable(c, m, InOrder)
      BY <1>3 DEF Stable
    <3>3. \A b \in 1 .. PrevSize : ~(b >= PrevSize - 1 + 2) /\ ~(b < 1)
      BY <1>2
    <3>4. SortedFrom(c, m, InOrder, PrevSize - 1 + 2) /\ GreatestAt(c, m, InOrder, 1)
      BY <3>3 DEF SortedFrom, GreatestAt
    <3> QED BY <1>2, <1>3, <3>1, <3>2, <3>4
  <2> HIDE DEF cl
  <2>2. 1 <= PrevSize + 1 /\ (1 <= PrevSize => 1 <= PrevSize - 1 + 1)
    BY <1>2
  <2> QED BY <2>1, <2>2 DEF SortState
<1> HIDE DEF cl
<1>6. InBefore(c, << >>)
  BY DEF InBefore
<1>7. SortInv' /\ RecursionInv' /\ OrderInv' /\ BestInv'
  BY <1>1, <1>5, <1>6, SamePhase
<1> QED BY <1>4, <1>7 DEF CallInv

\* What the invariant says of the sort.
LEMMA SortFacts ==
  ASSUME TypeOK, CallInv, pc = "sort"
  PROVE  /\ contours \in Contours /\ DOMAIN contours = 1 .. CurSize(contours)
         /\ CurSize(contours) \in Nat /\ PrevSize \in Nat
         /\ loopI \in 1 .. CurSize(contours) + 1 /\ loopJ \in Nat \ {0} /\ loopK \in Nat \ {0}
         /\ closest \in [DOMAIN contours -> [1 .. PrevSize -> Prev]]
         /\ start = 0 /\ matrix = << >> /\ best = 0
         /\ \A m \in DOMAIN contours : tried[m] = 1 /\ numchecked[m] = 0
         /\ SortState(contours, closest, loopI, loopJ, loopK)
         /\ InBefore(contours, matrix)
<1>1. contours \in Contours
  BY DEF CallInv, PermuteTypeOK
<1>2. /\ DOMAIN contours = 1 .. CurSize(contours)
      /\ CurSize(contours) \in Nat /\ PrevSize \in Nat
  BY <1>1, FrameShape, PrevShape
<1> QED BY <1>1, <1>2 DEF CallInv, PermuteTypeOK, SortInv, OrderInv

\* A step of the sort: only the lists and the loop counters change.
LEMMA SortStep ==
  ASSUME TypeOK, CallInv, pc = "sort", blobs' = blobs,
         UNCHANGED <<contours, pc, ids, start, tried, numchecked, matrix, best>>,
         closest' \in [DOMAIN contours -> [1 .. PrevSize -> Prev]],
         loopI' \in 1 .. CurSize(contours) + 1, loopJ' \in Nat \ {0}, loopK' \in Nat \ {0},
         SortState(contours, closest', loopI', loopJ', loopK')
  PROVE  CallInv'
<1>1. /\ contours' = contours /\ pc' = pc /\ ids' = ids /\ start' = start /\ tried' = tried
      /\ numchecked' = numchecked /\ matrix' = matrix /\ best' = best
      /\ Prev' = Prev /\ PrevSize' = PrevSize /\ CurSize(contours)' = CurSize(contours)
  BY SameVector DEF CurSize
<1>2. PermuteTypeOK'
  BY <1>1 DEF CallInv, PermuteTypeOK
<1>3. SortInv' /\ RecursionInv' /\ OrderInv' /\ BestInv'
  BY <1>1, SortFacts, SamePhase
<1> QED BY <1>2, <1>3 DEF CallInv

LEMMA CompareCallInv ==
  ASSUME TypeOK, CallInv, Compare
  PROVE  CallInv'
<1> DEFINE c == contours
           i == loopI
           s == closest[i]
           m == PrevSize - loopJ + 2
           t == Compared(c, i, s, loopK)
<1>1. /\ pc = "sort" /\ i \in DOMAIN c /\ loopJ <= PrevSize /\ loopK <= PrevSize - loopJ
      /\ loopK' = loopK + 1 /\ loopI' = loopI /\ loopJ' = loopJ /\ blobs' = blobs
      /\ UNCHANGED <<contours, pc, ids, start, tried, numchecked, matrix, best>>
  BY DEF Compare, Sorting, trackerVars
<1>2. /\ c \in Contours /\ PrevSize \in Nat /\ loopI \in 1 .. CurSize(c) + 1
      /\ loopJ \in Nat \ {0} /\ loopK \in Nat \ {0} /\ CurSize(c) \in Nat
      /\ DOMAIN c = 1 .. CurSize(c)
      /\ closest \in [DOMAIN c -> [1 .. PrevSize -> Prev]]
      /\ SortState(c, closest, loopI, loopJ, loopK)
  BY <1>1, SortFacts
<1>3. closest' = [closest EXCEPT ![i] = t]
  <2>1. CASE Error(c, i, s[loopK + 1]) < Error(c, i, s[loopK])
    BY <2>1 DEF Compare, Compared
  <2>2. CASE ~(Error(c, i, s[loopK + 1]) < Error(c, i, s[loopK]))
    BY <1>1, <1>2, <2>2 DEF Compare, Compared
  <2> QED BY <2>1, <2>2
<1>4. /\ m \in Nat /\ loopK \in 1 .. PrevSize /\ loopK + 1 < m /\ loopK + 1 <= PrevSize
  BY <1>1, <1>2
<1>5. Listed(s) /\ Stable(c, i, s) /\ SortedFrom(c, i, s, m) /\ GreatestAt(c, i, s, loopK)
  BY <1>1, <1>2 DEF SortState
<1> HIDE DEF c, i, s, m, t
<1>6. /\ Listed(t) /\ Stable(c, i, t)
      /\ SortedFrom(c, i, t, m) /\ GreatestAt(c, i, t, loopK + 1)
  <2>1. i \in DOMAIN c /\ c \in Contours
    BY <1>1, <1>2
  <2> QED BY <1>4, <1>5, <2>1, CompareSorts DEF t
<1>7. /\ closest' \in [DOMAIN c -> [1 .. PrevSize -> Prev]]
      /\ closest'[i] = t /\ \A k \in DOMAIN c : k # i => closest'[k] = closest[k]
  BY <1>1, <1>2, <1>3, <1>6 DEF Listed
<1>8. SortState(c, closest', loopI, loopJ, loopK + 1)
  <2>1. loopJ <= PrevSize + 1 /\ (loopJ <= PrevSize => loopK + 1 <= PrevSize - loopJ + 1)
    BY <1>1, <1>2
  <2>2. ASSUME NEW k \in DOMAIN c, k # i
        PROVE  /\ Listed(closest'[k]) /\ Stable(c, k, closest'[k])
               /\ k < loopI => Sorted(c, k, closest'[k])
    BY <1>2, <1>7, <2>2 DEF SortState
  <2>3. ~(i < loopI)
    BY <1>2 DEF i
  <2> QED BY <1>6, <1>7, <2>1, <2>2, <2>3 DEF SortState, i, m
<1> QED BY <1>1, <1>2, <1>7, <1>8, SortStep DEF c

LEMMA NextPassCallInv ==
  ASSUME TypeOK, CallInv, NextPass
  PROVE  CallInv'
<1> DEFINE c == contours
           i == loopI
           s == closest[i]
           k == loopK
<1>1. /\ pc = "sort" /\ i \in DOMAIN c /\ loopJ <= PrevSize /\ loopK > PrevSize - loopJ
      /\ loopJ' = loopJ + 1 /\ loopK' = 1 /\ loopI' = loopI /\ closest' = closest
      /\ blobs' = blobs
      /\ UNCHANGED <<contours, pc, ids, start, tried, numchecked, matrix, best>>
  BY DEF NextPass, Sorting, trackerVars
<1>2. /\ c \in Contours /\ PrevSize \in Nat /\ loopI \in 1 .. CurSize(c) + 1
      /\ loopJ \in Nat \ {0} /\ loopK \in Nat \ {0} /\ CurSize(c) \in Nat
      /\ closest \in [DOMAIN c -> [1 .. PrevSize -> Prev]]
      /\ SortState(c, closest, loopI, loopJ, loopK)
  BY <1>1, SortFacts
<1>3. k = PrevSize - loopJ + 1 /\ k \in 1 .. PrevSize
  BY <1>1, <1>2 DEF SortState
<1>4. SortedFrom(c, i, s, k + 1) /\ GreatestAt(c, i, s, k) /\ Listed(s)
  <2>1. PrevSize - loopJ + 2 = k + 1
    BY <1>2, <1>3
  <2> QED BY <1>1, <1>2, <2>1 DEF SortState
<1> HIDE DEF c, i, s, k
<1>5. SortedFrom(c, i, s, k) /\ GreatestAt(c, i, s, 1)
  <2>1. ASSUME NEW a \in 1 .. PrevSize, NEW b \in 1 .. PrevSize, a < b, b >= k
        PROVE  Error(c, i, s[a]) <= Error(c, i, s[b])
    <3>1. CASE b = k
      BY <1>2, <1>3, <1>4, <2>1, <3>1 DEF GreatestAt
    <3>2. CASE b # k
      BY <1>2, <1>3, <1>4, <2>1, <3>2 DEF SortedFrom
    <3> QED BY <3>1, <3>2
  <2>2. \A a \in 1 .. PrevSize : ~(a < 1)
    BY <1>2
  <2> QED BY <2>1, <2>2 DEF SortedFrom, GreatestAt
<1>6. SortState(c, closest, loopI, loopJ + 1, 1)
  <2>1. PrevSize - (loopJ + 1) + 2 = k
    BY <1>2, <1>3
  <2>2. /\ loopJ + 1 <= PrevSize + 1
        /\ loopJ + 1 <= PrevSize => 1 <= PrevSize - (loopJ + 1) + 1
    BY <1>1, <1>2
  <2> QED BY <1>2, <1>5, <2>1, <2>2 DEF SortState, i, s
<1> QED BY <1>1, <1>2, <1>6, SortStep DEF c

LEMMA NextContourCallInv ==
  ASSUME TypeOK, CallInv, NextContour
  PROVE  CallInv'
<1> DEFINE c == contours
           i == loopI
           s == closest[i]
<1>1. /\ pc = "sort" /\ i \in DOMAIN c /\ loopJ > PrevSize
      /\ loopJ' = 1 /\ loopK' = 1 /\ loopI' = loopI + 1 /\ closest' = closest
      /\ blobs' = blobs
      /\ UNCHANGED <<contours, pc, ids, start, tried, numchecked, matrix, best>>
  BY DEF NextContour, Sorting, trackerVars
<1>2. /\ c \in Contours /\ PrevSize \in Nat /\ loopI \in 1 .. CurSize(c) + 1
      /\ loopJ \in Nat \ {0} /\ loopK \in Nat \ {0} /\ CurSize(c) \in Nat
      /\ DOMAIN c = 1 .. CurSize(c)
      /\ closest \in [DOMAIN c -> [1 .. PrevSize -> Prev]]
      /\ SortState(c, closest, loopI, loopJ, loopK)
  BY <1>1, SortFacts
<1>3. PrevSize - loopJ + 2 = 1
  BY <1>1, <1>2 DEF SortState
<1>4. Listed(s) /\ Stable(c, i, s) /\ SortedFrom(c, i, s, 1)
  BY <1>1, <1>2, <1>3 DEF SortState
<1> HIDE DEF c, i, s
<1>5. Sorted(c, i, s)
  <2>1. 1 \in Int /\ 1 <= 2 /\ i \in DOMAIN c /\ c \in Contours
    BY <1>1, <1>2
  <2> QED BY <1>4, <2>1, StableSorted
<1>6. SortState(c, closest, loopI + 1, 1, 1)
  <2>1. \A m \in DOMAIN c : m < loopI + 1 => m < loopI \/ m = i
    BY <1>2 DEF i
  <2>2. \A b \in 1 .. PrevSize : ~(b >= PrevSize - 1 + 2) /\ ~(b < 1)
    BY <1>2
  <2>3. \A m \in DOMAIN c : /\ SortedFrom(c, m, closest[m], PrevSize - 1 + 2)
                            /\ GreatestAt(c, m, closest[m], 1)
    BY <2>2 DEF SortedFrom, GreatestAt
  <2>4. 1 <= PrevSize + 1 /\ (1 <= PrevSize => 1 <= PrevSize - 1 + 1)
    BY <1>2
  <2>5. \A m \in DOMAIN c : /\ Listed(closest[m]) /\ Stable(c, m, closest[m])
                            /\ m < loopI => Sorted(c, m, closest[m])
    BY <1>2 DEF SortState
  <2> QED BY <1>5, <2>1, <2>3, <2>4, <2>5 DEF SortState, s
<1>7. loopI + 1 \in 1 .. CurSize(c) + 1
  BY <1>1, <1>2 DEF i
<1> QED BY <1>1, <1>2, <1>6, <1>7, SortStep DEF c

\* Only the empty frame has no contour.
LEMMA EmptyFrame ==
  ASSUME NEW c \in Contours
  PROVE  CurSize(c) = 0 <=> c = << >>
<1>1. DOMAIN c = 1 .. CurSize(c) /\ CurSize(c) \in Nat
  BY FrameShape
<1>2. PICK m \in 0 .. MaxBlobs : c \in [1 .. m -> Places]
  BY DEF Contours
<1>3. CASE CurSize(c) = 0
  <2>1. DOMAIN c = {}
    BY <1>1, <1>3
  <2>2. c = << >>
    BY <1>2, <2>1
  <2> QED BY <1>3, <2>2
<1>4. CASE c = << >>
  BY <1>1, <1>4
<1> QED BY <1>3, <1>4

\* permute is called with sorted lists, and has tried nothing.
LEMMA CallPermuteCallInv ==
  ASSUME TypeOK, CallInv, CallPermute
  PROVE  CallInv'
<1> DEFINE c == contours
<1>1. /\ pc = "sort" /\ pc' = "permute" /\ loopI \notin DOMAIN c
      /\ start' = IF CurSize(c) > 0 THEN 1 ELSE 0
      /\ blobs' = blobs
      /\ contours' = contours /\ loopI' = loopI /\ loopJ' = loopJ /\ loopK' = loopK
      /\ closest' = closest /\ ids' = ids /\ tried' = tried /\ numchecked' = numchecked
      /\ matrix' = matrix /\ best' = best
  BY DEF CallPermute, trackerVars
<1>2. /\ c \in Contours /\ DOMAIN c = 1 .. CurSize(c)
      /\ CurSize(c) \in Nat /\ PrevSize \in Nat
      /\ loopI \in 1 .. CurSize(c) + 1
      /\ closest \in [DOMAIN c -> [1 .. PrevSize -> Prev]]
      /\ start = 0 /\ matrix = << >> /\ best = 0
      /\ \A m \in DOMAIN c : tried[m] = 1 /\ numchecked[m] = 0
      /\ SortState(c, closest, loopI, loopJ, loopK)
      /\ InBefore(c, matrix)
  BY <1>1, SortFacts
<1>3. PermuteTypeOK'
  <2>1. Prev' = Prev /\ PrevSize' = PrevSize /\ CurSize(contours)' = CurSize(contours)
    BY <1>1, SameVector DEF CurSize
  <2>2. start' \in 0 .. CurSize(contours) + 1
    BY <1>1, <1>2
  <2> QED BY <1>1, <2>1, <2>2 DEF CallInv, PermuteTypeOK
<1>4. Pushed' = {}
  BY <1>1, <1>2 DEF Pushed
<1> HIDE DEF c
<1>5. AllSorted(c, closest)
  <2>1. \A m \in DOMAIN c : m < loopI
    BY <1>1, <1>2
  <2> QED BY <1>2, <2>1 DEF AllSorted, SortState
<1>6. RecursionState(c, closest, ids, tried, numchecked, start', {})
  <2>1. CASE c = << >>
    <3>1. start' = 0
      BY <1>1, <1>2, <2>1, EmptyFrame DEF c
    <3> QED BY <2>1, <3>1 DEF RecursionState
  <2>2. CASE c # << >>
    <3>1. CurSize(c) > 0 /\ start' = 1
      BY <1>1, <1>2, <2>2, EmptyFrame DEF c
    <3>2. Passed(c, closest, ids, tried, 1)
      BY <1>2 DEF Passed
    <3>3. Counted(c, closest, ids, tried, numchecked, 1)
      <4> SUFFICES ASSUME NEW i \in DOMAIN c, tried[i] <= PrevSize
                   PROVE  /\ numchecked[i] = Cardinality(Checked(c, closest[i], ids, i, tried[i]))
                          /\ numchecked[i] < NumCheck(c)
        BY DEF Counted
      <4>1. tried[i] = 1 /\ numchecked[i] = 0
        BY <1>2
      <4>2. Listed(closest[i]) /\ c \in Contours
        BY <1>2, <1>5 DEF AllSorted
      <4>3. Cardinality(Checked(c, closest[i], ids, i, 1)) = 0
        BY <4>2, CheckedCount
      <4>4. PrevSize > 0
        BY <1>2, <4>1
      <4>5. NumCheck(c) > 0
        BY <1>2, <4>4, NumCheckShape
      <4> QED BY <4>1, <4>3, <4>5
    <3>4. ASSUME NEW q \in Matrix(c)
          PROVE  ~DoneRow(c, closest, ids, tried, 1, q)
      <4>1. ASSUME NEW i \in DOMAIN c
            PROVE  ~Tried(closest[i], tried[i], q[i])
        <5>1. Listed(closest[i]) /\ q[i] \in Prev \cup {New} /\ tried[i] = 1
          BY <1>2, <1>5, MatrixEntry DEF AllSorted
        <5> QED BY <5>1, TriedSteps
      <4> QED BY <4>1 DEF DoneRow, DoneAt
    <3>5. {} = {q \in Matrix(c) : DoneRow(c, closest, ids, tried, 1, q)}
      BY <3>4
    <3>6. Building(c, closest, ids, tried, numchecked, 1, {})
      BY <1>5, <3>2, <3>3, <3>5 DEF Building
    <3> QED BY <2>2, <3>1, <3>6 DEF RecursionState
  <2> QED BY <2>1, <2>2
<1>7. SortInv' /\ RecursionInv' /\ OrderInv' /\ BestInv'
  BY <1>1, <1>2, <1>4, <1>6, SamePhase DEF c
<1> QED BY <1>3, <1>7 DEF CallInv

-----------------------------------------------------------------------------
(* Steps of permute.                                                       *)

\* What the invariant says of the recursion when a call of permute is active.
LEMMA PermuteFacts ==
  ASSUME TypeOK, CallInv, pc = "permute"
  PROVE  /\ contours \in Contours /\ DOMAIN contours = 1 .. CurSize(contours)
         /\ CurSize(contours) \in Nat /\ PrevSize \in Nat
         /\ start \in 0 .. CurSize(contours) + 1 /\ best = 0
         /\ Frames(contours, ids, tried, numchecked)
         /\ matrix \in Seq([DOMAIN contours -> Prev \cup {New}])
         /\ InBefore(contours, matrix)
         /\ contours = << >> => start = 0 /\ Pushed = {}
         /\ contours # << >> => Building(contours, closest, ids, tried, numchecked, start, Pushed)
<1>1. contours \in Contours
  BY DEF CallInv, PermuteTypeOK
<1>2. /\ DOMAIN contours = 1 .. CurSize(contours)
      /\ CurSize(contours) \in Nat /\ PrevSize \in Nat
  BY <1>1, FrameShape, PrevShape
<1>3. Frames(contours, ids, tried, numchecked)
  BY DEF CallInv, PermuteTypeOK, Frames
<1>4. RecursionState(contours, closest, ids, tried, numchecked, start, Pushed)
  BY DEF CallInv, RecursionInv
<1> QED BY <1>1, <1>2, <1>3, <1>4 DEF CallInv, PermuteTypeOK, RecursionInv, OrderInv, RecursionState

\* A step of permute keeps the invariant when what it makes of the row and of
\* the calls fits the rows that are pushed then.
LEMMA PermuteStep ==
  ASSUME TypeOK, CallInv, pc = "permute", blobs' = blobs, contours # << >>,
         UNCHANGED <<contours, pc, loopI, loopJ, loopK, closest, best>>,
         start' \in 0 .. CurSize(contours) + 1,
         Frames(contours, ids', tried', numchecked'),
         matrix' \in Seq([DOMAIN contours -> Prev \cup {New}]),
         InBefore(contours, matrix'),
         Building(contours, closest, ids', tried', numchecked', start', Pushed')
  PROVE  CallInv'
<1>1. /\ contours' = contours /\ pc' = pc /\ loopI' = loopI /\ loopJ' = loopJ
      /\ loopK' = loopK /\ closest' = closest /\ best' = best
      /\ Prev' = Prev /\ PrevSize' = PrevSize /\ CurSize(contours)' = CurSize(contours)
  BY SameVector DEF CurSize
<1>2. best = 0 /\ Len(matrix') \in Nat
  BY PermuteFacts
<1>3. PermuteTypeOK'
  <2>1. /\ ids' \in [DOMAIN contours -> Prev \cup {New}]
        /\ tried' \in [DOMAIN contours -> 1 .. PrevSize + 2]
        /\ numchecked' \in [DOMAIN contours -> Nat]
    BY DEF Frames
  <2> QED BY <1>1, <1>2, <2>1 DEF CallInv, PermuteTypeOK
<1>4. RecursionState(contours, closest, ids', tried', numchecked', start', Pushed')
  BY DEF RecursionState
<1>5. SortInv' /\ RecursionInv' /\ OrderInv' /\ BestInv'
  BY <1>1, <1>2, <1>4, SamePhase
<1> QED BY <1>3, <1>5 DEF CallInv

\* A step of permute that pushes nothing.
LEMMA QuietStep ==
  ASSUME TypeOK, CallInv, pc = "permute", blobs' = blobs, contours # << >>,
         UNCHANGED <<contours, pc, loopI, loopJ, loopK, closest, best, matrix>>,
         start' \in 0 .. CurSize(contours) + 1,
         Frames(contours, ids', tried', numchecked'),
         Building(contours, closest, ids', tried', numchecked', start', Pushed)
  PROVE  CallInv'
<1>1. Pushed' = Pushed /\ matrix' = matrix
  BY DEF Pushed
<1>2. /\ matrix' \in Seq([DOMAIN contours -> Prev \cup {New}])
      /\ InBefore(contours, matrix')
  BY <1>1, PermuteFacts
<1> QED BY <1>1, <1>2, PermuteStep

\* What is known where permute(start) is at one of its tries.
LEMMA TryFacts ==
  ASSUME TypeOK, CallInv, Permuting
  PROVE  /\ pc = "permute" /\ contours \in Contours /\ contours # << >>
         /\ start \in DOMAIN contours /\ start \in Nat \ {0} /\ start + 1 \in 0 .. CurSize(contours) + 1
         /\ start \in 0 .. CurSize(contours) + 1
         /\ PrevSize \in Nat /\ New \notin Prev
         /\ Frames(contours, ids, tried, numchecked)
         /\ Building(contours, closest, ids, tried, numchecked, start, Pushed)
         /\ Listed(closest[start]) /\ Sorted(contours, start, closest[start])
         /\ tried[start] \in 1 .. PrevSize + 2
         /\ tried[start] <= PrevSize =>
              /\ numchecked[start] = Cardinality(Checked(contours, closest[start], ids, start, tried[start]))
              /\ numchecked[start] < NumCheck(contours)
<1>1. pc = "permute" /\ start \in DOMAIN contours
  BY DEF Permuting
<1>2. /\ contours \in Contours /\ DOMAIN contours = 1 .. CurSize(contours)
      /\ CurSize(contours) \in Nat /\ PrevSize \in Nat
      /\ Frames(contours, ids, tried, numchecked)
      /\ contours = << >> => start = 0
      /\ contours # << >> => Building(contours, closest, ids, tried, numchecked, start, Pushed)
  BY <1>1, PermuteFacts
<1>3. start \in Nat \ {0} /\ start + 1 \in 0 .. CurSize(contours) + 1 /\ start <= start
      /\ start \in 0 .. CurSize(contours) + 1
  BY <1>1, <1>2
<1>4. Building(contours, closest, ids, tried, numchecked, start, Pushed) /\ contours # << >>
  BY <1>2, <1>3
<1>5. tried[start] \in 1 .. PrevSize + 2
  BY <1>1, <1>2 DEF Frames
<1> QED BY <1>1, <1>2, <1>3, <1>4, <1>5, PrevShape DEF Building, AllSorted, Counted

LEMMA TooFarCallInv ==
  ASSUME TypeOK, CallInv, TooFar
  PROVE  CallInv'
<1> DEFINE c == contours
           d == start
           s == closest[d]
           a == tried[d]
           b == PrevSize + 1
<1>1. /\ Permuting /\ a <= PrevSize
      /\ Error(c, d, s[a]) > RejectDistanceThreshold
      /\ tried' = [tried EXCEPT ![d] = b]
      /\ start' = start /\ ids' = ids /\ numchecked' = numchecked /\ blobs' = blobs
      /\ UNCHANGED <<contours, pc, loopI, loopJ, loopK, closest, best, matrix>>
  BY DEF TooFar, trackerVars
<1>2. /\ pc = "permute" /\ c \in Contours /\ c # << >>
      /\ d \in DOMAIN c /\ d \in Nat \ {0} /\ d \in 0 .. CurSize(c) + 1
      /\ PrevSize \in Nat /\ New \notin Prev
      /\ Frames(c, ids, tried, numchecked)
      /\ Building(c, closest, ids, tried, numchecked, d, Pushed)
      /\ Listed(s) /\ Sorted(c, d, s) /\ a \in 1 .. PrevSize + 2
  BY <1>1, TryFacts
<1>3. /\ tried' \in [DOMAIN c -> 1 .. PrevSize + 2]
      /\ \A i \in DOMAIN c : tried'[i] = IF i = d THEN b ELSE tried[i]
  BY <1>1, <1>2 DEF Frames
<1>4. ASSUME NEW q \in Matrix(c)
      PROVE  Tried(s, b, q[d]) <=> Tried(s, a, q[d])
  <2>1. q[d] \in Prev \cup {New} /\ Reaches(c, q, d)
    BY <1>2, MatrixEntry
  <2>2. a \in 1 .. PrevSize /\ a \in 1 .. PrevSize + 1 /\ b \in 1 .. PrevSize + 1
    BY <1>1, <1>2
  <2>3. Option(s, b) = New
    BY <1>2, OptionShape
  <2> HIDE DEF c, d, s, a, b
  <2>4. CASE q[d] = New
    BY <1>2, <2>1, <2>2, <2>4, TriedIsBefore
  <2>5. CASE q[d] # New
    <3>1. q[d] \in Prev /\ Error(c, d, q[d]) <= RejectDistanceThreshold
      BY <2>1, <2>5 DEF Reaches, Candidates
    <3>2. Tried(s, a, q[d])
      BY <1>1, <1>2, <2>2, <3>1, NoneBeyondFar
    <3>3. Tried(s, b, q[d])
      BY <1>2, <2>1, <2>2, <2>3, <2>5, TriedIsBefore
    <3> QED BY <3>2, <3>3
  <2> QED BY <2>4, <2>5
<1>5. ~(b <= PrevSize)
  BY <1>2
<1>6. Frames(c, ids', tried', numchecked')
  BY <1>1, <1>2, <1>3 DEF Frames
<1> HIDE DEF c, d, b
<1>7. Building(c, closest, ids, tried', numchecked, d, Pushed)
  BY <1>2, <1>3, <1>4, <1>5, MoveOn
<1> QED BY <1>1, <1>2, <1>6, <1>7, QuietStep DEF c, d

\* What permute(start + 1) makes of the locals.
LEMMA CallFrames ==
  ASSUME TypeOK, NEW c \in Contours, Frames(c, ids, tried, numchecked),
         NEW d, d = start, Call
  PROVE  /\ start' = d + 1
         /\ tried' \in [DOMAIN c -> 1 .. PrevSize + 2] /\ numchecked' \in [DOMAIN c -> Nat]
         /\ \A i \in DOMAIN c : tried'[i] = IF i = d + 1 THEN 1 ELSE tried[i]
         /\ \A i \in DOMAIN c : numchecked'[i] = IF i = d + 1 THEN 0 ELSE numchecked[i]
<1>1. PrevSize \in Nat
  BY PrevShape
<1>2. DOMAIN tried = DOMAIN c
  BY DEF Frames
<1> QED BY <1>1, <1>2 DEF Call, Frames

\* A row agrees with itself changed at entry d, up to there.
LEMMA RowWith ==
  ASSUME TypeOK, NEW c \in Contours, NEW r \in [DOMAIN c -> Prev \cup {New}],
         NEW d \in DOMAIN c, NEW o \in Prev \cup {New}, NEW r2, r2 = [r EXCEPT ![d] = o]
  PROVE  /\ r2 \in [DOMAIN c -> Prev \cup {New}]
         /\ r2[d] = o /\ \A k \in DOMAIN c : k # d => r2[k] = r[k]
         /\ AgreeTo(r2, r, d - 1)
<1>1. DOMAIN c = 1 .. CurSize(c) /\ CurSize(c) \in Nat
  BY FrameShape
<1>2. /\ r2 \in [DOMAIN c -> Prev \cup {New}]
      /\ r2[d] = o /\ \A k \in DOMAIN c : k # d => r2[k] = r[k]
  OBVIOUS
<1>3. AgreeTo(r2, r, d - 1)
  BY <1>1, <1>2 DEF AgreeTo
<1> QED BY <1>2, <1>3

\* permute takes a previous blob that no entry before has taken, and goes on to
\* the next entry.
LEMMA TakeBlobCallInv ==
  ASSUME TypeOK, CallInv, Permuting, tried[start] <= PrevSize,
         NEW j, j = closest[start][tried[start]],
         Error(contours, start, j) <= RejectDistanceThreshold,
         ids' = [ids EXCEPT ![start] = j], CheckValid(ids, start, j), Call,
         UNCHANGED <<trackerVars, contours, pc, loopI, loopJ, loopK, closest, matrix, best>>
  PROVE  CallInv'
<1> DEFINE c == contours
           d == start
           s == closest[d]
           a == tried[d]
<1>1. /\ blobs' = blobs
      /\ UNCHANGED <<contours, pc, loopI, loopJ, loopK, closest, best, matrix>>
  BY DEF trackerVars
<1>2. /\ pc = "permute" /\ c \in Contours /\ c # << >>
      /\ d \in DOMAIN c /\ d \in Nat \ {0} /\ d + 1 \in 0 .. CurSize(c) + 1
      /\ PrevSize \in Nat /\ New \notin Prev
      /\ Frames(c, ids, tried, numchecked)
      /\ Building(c, closest, ids, tried, numchecked, d, Pushed)
      /\ Listed(s) /\ Sorted(c, d, s) /\ a \in 1 .. PrevSize + 2
      /\ numchecked[d] = Cardinality(Checked(c, s, ids, d, a))
      /\ numchecked[d] < NumCheck(c)
  BY TryFacts
<1>3. a \in 1 .. PrevSize /\ a <= PrevSize + 1 /\ j = s[a] /\ j \in Prev /\ Option(s, a) = j
  BY <1>2, OptionShape
<1>4. /\ start' = d + 1
      /\ tried' \in [DOMAIN c -> 1 .. PrevSize + 2] /\ numchecked' \in [DOMAIN c -> Nat]
      /\ \A i \in DOMAIN c : tried'[i] = IF i = d + 1 THEN 1 ELSE tried[i]
      /\ \A i \in DOMAIN c : numchecked'[i] = IF i = d + 1 THEN 0 ELSE numchecked[i]
  BY <1>2, CallFrames
<1>5. /\ ids' \in [DOMAIN c -> Prev \cup {New}]
      /\ ids'[d] = j /\ \A k \in DOMAIN c : k # d => ids'[k] = ids[k]
      /\ AgreeTo(ids', ids, d - 1)
  BY <1>2, <1>3, RowWith DEF Frames
<1>6. j \in Candidates(c, ids, d)
  BY <1>3 DEF Candidates
<1> HIDE DEF c, d, s, a
<1>7. Reaches(c, ids', d)
  <2> HIDE DEF AgreeTo
  <2>0. d \in Nat \ {0} /\ AgreeTo(ids', ids, d - 1)
    BY <1>2, <1>5
  <2>1. Candidates(c, ids', d) = Candidates(c, ids, d)
    BY <2>0, ReachesLocally
  <2>2. Checked(c, s, ids', d, a) = Checked(c, s, ids, d, a)
    BY <2>1 DEF Checked
  <2>3. s[a] \in Candidates(c, ids', d) /\ ids'[d] = s[a]
    BY <1>3, <1>5, <1>6, <2>1
  <2>4. Cardinality(Checked(c, s, ids', d, a)) < NumCheck(c)
    BY <1>2, <2>2
  <2> QED BY <1>2, <1>3, <2>3, <2>4, CandidateReached
<1>8. Building(c, closest, ids', tried', numchecked', d + 1, Pushed)
  <2>1. ids'[d] = Option(closest[d], tried[d]) /\ tried[d] <= PrevSize + 1
    BY <1>3, <1>5 DEF s, a
  <2>2. Changed(c, ids, d, Option(closest[d], tried[d]), ids')
    BY <1>5, <2>1 DEF Changed
  <2>3. /\ c \in Contours /\ d \in DOMAIN c
        /\ Building(c, closest, ids, tried, numchecked, d, Pushed)
    BY <1>2
  <2> DEFINE e == d + 1
  <2>4. /\ Follows(d, e)
        /\ Changed(c, tried, e, 1, tried') /\ Changed(c, numchecked, e, 0, numchecked')
    BY <1>4 DEF Follows, Changed
  <2> HIDE DEF e
  <2>5. Building(c, closest, ids', tried', numchecked', e, Pushed)
    BY <1>7, <2>1, <2>2, <2>3, <2>4, CallStep
  <2> QED BY <2>5 DEF e
<1>9. Frames(c, ids', tried', numchecked')
  BY <1>4, <1>5 DEF Frames
<1> QED BY <1>1, <1>2, <1>4, <1>8, <1>9, QuietStep DEF c, d

\* permute goes on to the next previous blob.
LEMMA SkipBlobCallInv ==
  ASSUME TypeOK, CallInv, Permuting, tried[start] <= PrevSize,
         NEW j, j = closest[start][tried[start]],
         Error(contours, start, j) <= RejectDistanceThreshold,
         ids' = [ids EXCEPT ![start] = j], ~CheckValid(ids, start, j),
         tried' = [tried EXCEPT ![start] = NextTry(tried[start], numchecked[start])],
         UNCHANGED <<start, numchecked>>,
         UNCHANGED <<trackerVars, contours, pc, loopI, loopJ, loopK, closest, matrix, best>>
  PROVE  CallInv'
<1> DEFINE c == contours
           d == start
           s == closest[d]
           a == tried[d]
           n == numchecked[d]
           b == IF n >= NumCheck(c) THEN PrevSize + 1 ELSE a + 1
<1>1. /\ blobs' = blobs /\ start' = start /\ numchecked' = numchecked
      /\ UNCHANGED <<contours, pc, loopI, loopJ, loopK, closest, best, matrix>>
      /\ tried' = [tried EXCEPT ![d] = b]
  BY DEF trackerVars, NextTry
<1>2. /\ pc = "permute" /\ c \in Contours /\ c # << >>
      /\ d \in DOMAIN c /\ d \in Nat \ {0} /\ d \in 0 .. CurSize(c) + 1
      /\ PrevSize \in Nat /\ New \notin Prev
      /\ Frames(c, ids, tried, numchecked)
      /\ Building(c, closest, ids, tried, numchecked, d, Pushed)
      /\ Listed(s) /\ Sorted(c, d, s) /\ a \in 1 .. PrevSize + 2
      /\ n = Cardinality(Checked(c, s, ids, d, a)) /\ n < NumCheck(c)
  BY TryFacts
<1>3. a \in 1 .. PrevSize /\ j = s[a] /\ j \in Prev /\ j # New
  BY <1>2, OptionShape
<1>4. /\ ids' \in [DOMAIN c -> Prev \cup {New}]
      /\ \A k \in DOMAIN c : k # d => ids'[k] = ids[k]
  BY <1>2, <1>3, RowWith DEF Frames
<1>5. s[a] \notin Candidates(c, ids, d)
  BY <1>3 DEF Candidates
<1> HIDE DEF c, d, s, a, n
<1>6. n = IF s[a] \in Candidates(c, ids, d) THEN n + 1 ELSE n
  BY <1>5
<1> HIDE DEF b
<1>7. /\ b \in 1 .. PrevSize + 1
      /\ b <= PrevSize => n = Cardinality(Checked(c, s, ids, d, b)) /\ n < NumCheck(c)
  BY <1>2, <1>3, <1>6, TryPasses DEF b
<1>8. ASSUME NEW q \in Matrix(c), AgreeTo(q, ids, d - 1)
      PROVE  Tried(s, b, q[d]) <=> Tried(s, a, q[d])
  <2>1. q[d] \in Prev \cup {New} /\ Reaches(c, q, d)
    BY <1>2, MatrixEntry
  <2>0. d \in Nat \ {0} /\ AgreeTo(q, ids, d - 1)
    BY <1>2, <1>8
  <2>2. Candidates(c, q, d) = Candidates(c, ids, d)
    BY <2>0, ReachesLocally
  <2>3. Checked(c, s, q, d, a) = Checked(c, s, ids, d, a)
    BY <2>2 DEF Checked
  <2>4. n = Cardinality(Checked(c, s, q, d, a)) /\ n = IF s[a] \in Candidates(c, q, d) THEN n + 1 ELSE n
    BY <1>2, <1>5, <2>2, <2>3
  <2>5. Tried(s, b, q[d]) <=> Tried(s, a, q[d]) \/ q[d] = s[a]
    BY <1>2, <1>3, <2>1, <2>4, TryPasses DEF b
  <2>6. q[d] # s[a]
    BY <1>3, <1>5, <2>1, <2>2 DEF Reaches
  <2> QED BY <2>5, <2>6
<1>9. /\ tried' \in [DOMAIN c -> 1 .. PrevSize + 2]
      /\ \A i \in DOMAIN c : tried'[i] = IF i = d THEN b ELSE tried[i]
  <2>1. tried \in [DOMAIN c -> 1 .. PrevSize + 2] /\ b \in 1 .. PrevSize + 2
    BY <1>2, <1>7 DEF Frames
  <2> QED BY <1>1, <1>2, <2>1
<1>10. Frames(c, ids', tried', numchecked')
  BY <1>1, <1>2, <1>4, <1>9 DEF Frames
<1>11. Building(c, closest, ids', tried', numchecked, d, Pushed)
  <2>1. b <= PrevSize =>
          /\ numchecked[d] = Cardinality(Checked(c, closest[d], ids, d, b))
          /\ numchecked[d] < NumCheck(c)
    BY <1>7 DEF n, s
  <2>2. \A q \in Matrix(c) : AgreeTo(q, ids, d - 1) =>
          (Tried(closest[d], b, q[d]) <=> Tried(closest[d], tried[d], q[d]))
    BY <1>8 DEF s, a
  <2> QED BY <1>2, <1>4, <1>9, <2>1, <2>2, MoveOn
<1> QED BY <1>1, <1>2, <1>10, <1>11, QuietStep DEF c, d

LEMMA TryBlobCallInv ==
  ASSUME TypeOK, CallInv, TryBlob
  PROVE  CallInv'
<1>1. Permuting /\ tried[start] <= PrevSize
  BY DEF TryBlob
<1> DEFINE j == closest[start][tried[start]]
<1>2. /\ Error(contours, start, j) <= RejectDistanceThreshold
      /\ ids' = [ids EXCEPT ![start] = j]
      /\ UNCHANGED <<trackerVars, contours, pc, loopI, loopJ, loopK, closest, matrix, best>>
  BY DEF TryBlob
<1>3. CASE CheckValid(ids, start, j) /\ Call
  BY <1>1, <1>2, <1>3, TakeBlobCallInv
<1>4. CASE /\ ~CheckValid(ids, start, j)
           /\ tried' = [tried EXCEPT ![start] = NextTry(tried[start], numchecked[start])]
           /\ UNCHANGED <<start, numchecked>>
  BY <1>1, <1>2, <1>4, SkipBlobCallInv
<1> QED BY <1>3, <1>4 DEF TryBlob

\* permute gives the contour a new id, and goes on to the next entry.
LEMMA TakeNewCallInv ==
  ASSUME TypeOK, CallInv, Permuting, tried[start] = PrevSize + 1,
         ids' = [ids EXCEPT ![start] = New], CheckValidNew(contours, ids, start), Call,
         UNCHANGED <<trackerVars, contours, pc, loopI, loopJ, loopK, closest, matrix, best>>
  PROVE  CallInv'
<1> DEFINE c == contours
           d == start
<1>1. /\ blobs' = blobs
      /\ UNCHANGED <<contours, pc, loopI, loopJ, loopK, closest, best, matrix>>
  BY DEF trackerVars
<1>2. /\ pc = "permute" /\ c \in Contours /\ c # << >>
      /\ d \in DOMAIN c /\ d \in Nat \ {0} /\ d + 1 \in 0 .. CurSize(c) + 1
      /\ PrevSize \in Nat
      /\ Frames(c, ids, tried, numchecked)
      /\ Building(c, closest, ids, tried, numchecked, d, Pushed)
      /\ Listed(closest[d])
  BY TryFacts
<1>3. tried[d] <= PrevSize + 1 /\ Option(closest[d], tried[d]) = New
  BY <1>2, OptionShape
<1>4. /\ start' = d + 1
      /\ tried' \in [DOMAIN c -> 1 .. PrevSize + 2] /\ numchecked' \in [DOMAIN c -> Nat]
      /\ \A i \in DOMAIN c : tried'[i] = IF i = d + 1 THEN 1 ELSE tried[i]
      /\ \A i \in DOMAIN c : numchecked'[i] = IF i = d + 1 THEN 0 ELSE numchecked[i]
  BY <1>2, CallFrames
<1>5. /\ ids' \in [DOMAIN c -> Prev \cup {New}]
      /\ ids'[d] = New /\ \A k \in DOMAIN c : k # d => ids'[k] = ids[k]
      /\ AgreeTo(ids', ids, d - 1)
  BY <1>2, RowWith DEF Frames
<1> HIDE DEF c, d
<1>6. Reaches(c, ids', d)
  <2>1. CheckValidNew(c, ids', d) <=> CheckValidNew(c, ids, d)
    BY <1>2, <1>5, ReachesLocally
  <2> QED BY <1>5, <2>1 DEF Reaches, c, d
<1>7. Building(c, closest, ids', tried', numchecked', d + 1, Pushed)
  <2>1. ids'[d] = Option(closest[d], tried[d])
    BY <1>3, <1>5
  <2>2. Changed(c, ids, d, Option(closest[d], tried[d]), ids')
    BY <1>5, <2>1 DEF Changed
  <2>3. /\ c \in Contours /\ d \in DOMAIN c /\ tried[d] <= PrevSize + 1
        /\ Building(c, closest, ids, tried, numchecked, d, Pushed)
    BY <1>2, <1>3
  <2> DEFINE e == d + 1
  <2>4. /\ Follows(d, e)
        /\ Changed(c, tried, e, 1, tried') /\ Changed(c, numchecked, e, 0, numchecked')
    BY <1>4 DEF Follows, Changed
  <2> HIDE DEF e
  <2>5. Building(c, closest, ids', tried', numchecked', e, Pushed)
    BY <1>6, <2>1, <2>2, <2>3, <2>4, CallStep
  <2> QED BY <2>5 DEF e
<1>8. Frames(c, ids', tried', numchecked')
  BY <1>4, <1>5 DEF Frames
<1> QED BY <1>1, <1>2, <1>4, <1>7, <1>8, QuietStep DEF c, d

\* No new id is left: permute has nothing left to try.
LEMMA SkipNewCallInv ==
  ASSUME TypeOK, CallInv, Permuting, tried[start] = PrevSize + 1,
         ids' = IF ExtraIDs(contours) > 0 THEN [ids EXCEPT ![start] = New] ELSE ids,
         ~(ExtraIDs(contours) > 0 /\ CheckValidNew(contours, ids, start)),
         tried' = [tried EXCEPT ![start] = PrevSize + 2],
         UNCHANGED <<start, numchecked>>,
         UNCHANGED <<trackerVars, contours, pc, loopI, loopJ, loopK, closest, matrix, best>>
  PROVE  CallInv'
<1> DEFINE c == contours
           d == start
           s == closest[d]
           a == tried[d]
           b == PrevSize + 2
<1>1. /\ blobs' = blobs /\ start' = start /\ numchecked' = numchecked
      /\ UNCHANGED <<contours, pc, loopI, loopJ, loopK, closest, best, matrix>>
  BY DEF trackerVars
<1>2. /\ pc = "permute" /\ c \in Contours /\ c # << >>
      /\ d \in DOMAIN c /\ d \in Nat \ {0} /\ d \in 0 .. CurSize(c) + 1
      /\ PrevSize \in Nat
      /\ Frames(c, ids, tried, numchecked)
      /\ Building(c, closest, ids, tried, numchecked, d, Pushed)
      /\ Listed(s) /\ Sorted(c, d, s)
  BY TryFacts
<1>3. a \in 1 .. PrevSize + 1 /\ Option(s, a) = New
  BY <1>2, OptionShape
<1>4. /\ ids' \in [DOMAIN c -> Prev \cup {New}]
      /\ \A k \in DOMAIN c : k # d => ids'[k] = ids[k]
  <2>1. CASE ExtraIDs(c) > 0
    <3>1. ids' = [ids EXCEPT ![d] = New] /\ New \in Prev \cup {New}
      BY <2>1
    <3> QED BY <1>2, <3>1, RowWith DEF Frames
  <2>2. CASE ~(ExtraIDs(c) > 0)
    BY <1>2, <2>2 DEF Frames
  <2> QED BY <2>1, <2>2
<1>5. ~(ExtraIDs(c) > 0 /\ CheckValidNew(c, ids, d))
  OBVIOUS
<1>6. /\ tried' \in [DOMAIN c -> 1 .. PrevSize + 2]
      /\ \A i \in DOMAIN c : tried'[i] = IF i = d THEN b ELSE tried[i]
  BY <1>2 DEF Frames
<1>7. Frames(c, ids', tried', numchecked')
  BY <1>1, <1>2, <1>4, <1>6 DEF Frames
<1> HIDE DEF c, d, s, a
<1>8. ASSUME NEW q \in Matrix(c), AgreeTo(q, ids, d - 1)
      PROVE  Tried(s, b, q[d]) <=> Tried(s, a, q[d])
  <2>1. q[d] \in Prev \cup {New} /\ Reaches(c, q, d)
    BY <1>2, MatrixEntry
  <2>2. q[d] # New
    <3> SUFFICES ASSUME q[d] = New PROVE FALSE
      OBVIOUS
    <3>1. CheckValidNew(c, q, d)
      BY <2>1 DEF Reaches
    <3>2. CheckValidNew(c, ids, d)
      BY <1>2, <1>8, <3>1, ReachesLocally
    <3> DEFINE News == {k \in 1 .. d - 1 : q[k] = New}
    <3>3. Cardinality(News) \in Nat
      <4>1. 1 \in Int /\ d - 1 \in Int
        BY <1>2
      <4>2. IsFiniteSet(1 .. d - 1)
        BY <4>1, FS_Interval
      <4>3. News \in SUBSET (1 .. d - 1)
        OBVIOUS
      <4> QED BY <4>2, <4>3, FS_Subset, FS_CardinalityType
    <3>4. Cardinality(News) + 1 <= ExtraIDs(c) /\ ExtraIDs(c) \in Nat
      BY <1>2, <3>1, NumCheckShape DEF CheckValidNew
    <3> HIDE DEF News
    <3> QED BY <1>5, <3>2, <3>3, <3>4
  <2>3. Tried(s, b, q[d])
    BY <1>2, <2>1, TriedSteps
  <2>4. Tried(s, a, q[d])
    BY <1>2, <1>3, <2>1, <2>2, TriedIsBefore
  <2> QED BY <2>3, <2>4
<1>9. Building(c, closest, ids', tried', numchecked, d, Pushed)
  <2>1. ~(b <= PrevSize)
    BY <1>2
  <2> HIDE DEF b
  <2>2. \A q \in Matrix(c) : AgreeTo(q, ids, d - 1) =>
          (Tried(closest[d], b, q[d]) <=> Tried(closest[d], tried[d], q[d]))
    BY <1>8 DEF s, a
  <2> QED BY <1>2, <1>4, <1>6, <2>1, <2>2, MoveOn
<1> QED BY <1>1, <1>2, <1>7, <1>9, QuietStep DEF c, d

LEMMA TryNewCallInv ==
  ASSUME TypeOK, CallInv, TryNew
  PROVE  CallInv'
<1>1. /\ Permuting /\ tried[start] = PrevSize + 1
      /\ ids' = IF ExtraIDs(contours) > 0 THEN [ids EXCEPT ![start] = New] ELSE ids
      /\ UNCHANGED <<trackerVars, contours, pc, loopI, loopJ, loopK, closest, matrix, best>>
  BY DEF TryNew
<1> DEFINE valid == ExtraIDs(contours) > 0 /\ CheckValidNew(contours, ids, start)
<1>2. CASE valid /\ Call
  BY <1>1, <1>2, TakeNewCallInv
<1>3. CASE /\ ~valid
           /\ tried' = [tried EXCEPT ![start] = PrevSize + 2]
           /\ UNCHANGED <<start, numchecked>>
  BY <1>1, <1>3, SkipNewCallInv
<1> QED BY <1>2, <1>3 DEF TryNew

\* What the return of permute(d) makes of the locals.
LEMMA ReturnFrames ==
  ASSUME TypeOK, NEW c, c = contours, c \in Contours, Frames(c, ids, tried, numchecked),
         start \in 1 .. CurSize(c) + 1, NEW e \in Int, Follows(e, start), Return
  PROVE  /\ e \in Nat /\ e <= CurSize(c)
         /\ start' = e /\ e \in 0 .. CurSize(c) + 1
         /\ tried' \in [DOMAIN c -> 1 .. PrevSize + 2] /\ numchecked' \in [DOMAIN c -> Nat]
         /\ Returned(c, tried, numchecked, e, tried', numchecked')
<1>1. /\ DOMAIN c = 1 .. CurSize(c) /\ CurSize(c) \in Nat /\ PrevSize \in Nat
      /\ DOMAIN tried = DOMAIN c
      /\ \A i \in DOMAIN c : tried[i] \in 1 .. PrevSize + 2 /\ numchecked[i] \in Nat
  BY FrameShape, PrevShape DEF Frames
<1>3. e = start - 1 /\ e \in Nat /\ e <= CurSize(c) /\ e \in 0 .. CurSize(c) + 1
  BY <1>1 DEF Follows
<1>4. start' = e
  BY <1>3 DEF Return
<1> DEFINE inLoop == e > 0 /\ tried[e] <= PrevSize
<1>5. /\ numchecked' = [i \in DOMAIN tried |->
                          IF i = e /\ inLoop THEN numchecked[i] + 1 ELSE numchecked[i]]
      /\ tried' = [i \in DOMAIN tried |->
                     IF i # e THEN tried[i]
                     ELSE IF inLoop THEN NextTry(tried[i], numchecked[i] + 1)
                     ELSE PrevSize + 2]
  BY <1>3 DEF Return
<1>6. ASSUME NEW i \in DOMAIN c
      PROVE  /\ numchecked'[i] = IF i = e /\ tried[i] <= PrevSize
                                 THEN numchecked[i] + 1 ELSE numchecked[i]
             /\ tried'[i] = IF i # e THEN tried[i]
                            ELSE IF tried[i] > PrevSize THEN PrevSize + 2
                            ELSE IF numchecked[i] + 1 >= NumCheck(c)
                                 THEN PrevSize + 1 ELSE tried[i] + 1
             /\ numchecked'[i] \in Nat /\ tried'[i] \in 1 .. PrevSize + 2
  <2>1. i = e => (inLoop <=> tried[i] <= PrevSize) /\ (tried[i] > PrevSize <=> ~(tried[i] <= PrevSize))
    BY <1>1
  <2> HIDE DEF inLoop
  <2>2. i \in DOMAIN tried
    BY <1>1
  <2>3. /\ numchecked'[i] = IF i = e /\ inLoop THEN numchecked[i] + 1 ELSE numchecked[i]
        /\ tried'[i] = IF i # e THEN tried[i]
                       ELSE IF inLoop THEN NextTry(tried[i], numchecked[i] + 1)
                       ELSE PrevSize + 2
    BY <1>5, <2>2
  <2>4. NextTry(tried[i], numchecked[i] + 1) =
          IF numchecked[i] + 1 >= NumCheck(c) THEN PrevSize + 1 ELSE tried[i] + 1
    BY DEF NextTry
  <2> QED BY <1>1, <2>1, <2>3, <2>4
<1>7. DOMAIN tried' = DOMAIN c /\ DOMAIN numchecked' = DOMAIN c
  BY <1>1, <1>5
<1>8. tried' \in [DOMAIN c -> 1 .. PrevSize + 2] /\ numchecked' \in [DOMAIN c -> Nat]
  BY <1>1, <1>5, <1>6
<1> QED BY <1>3, <1>4, <1>6, <1>8 DEF Returned

\* permute has put a row together: it pushes it.
LEMMA PushCallInv ==
  ASSUME TypeOK, CallInv, Push
  PROVE  CallInv'
<1> DEFINE c == contours
           e == CurSize(c)
           M2 == Pushed \cup {ids}
<1>1. /\ pc = "permute" /\ start = e + 1 /\ matrix' = Append(matrix, ids)
      /\ Return /\ blobs' = blobs /\ ids' = ids
      /\ UNCHANGED <<contours, pc, loopI, loopJ, loopK, closest, best>>
  BY DEF Push, trackerVars
<1>2. /\ c \in Contours /\ DOMAIN c = 1 .. e /\ e \in Nat /\ PrevSize \in Nat
      /\ Frames(c, ids, tried, numchecked)
      /\ matrix \in Seq([DOMAIN c -> Prev \cup {New}])
      /\ InBefore(c, matrix)
      /\ c = << >> => start = 0
      /\ c # << >> => Building(c, closest, ids, tried, numchecked, start, Pushed)
  BY <1>1, PermuteFacts
<1>3. /\ c # << >> /\ Building(c, closest, ids, tried, numchecked, start, Pushed)
      /\ Follows(e, start) /\ start \in 1 .. e + 1 /\ e \in Int
  BY <1>1, <1>2 DEF Follows
<1> HIDE DEF c, M2
<1>4. /\ e \in Nat /\ e <= CurSize(c)
      /\ start' = e /\ e \in 0 .. CurSize(c) + 1
      /\ tried' \in [DOMAIN c -> 1 .. PrevSize + 2] /\ numchecked' \in [DOMAIN c -> Nat]
      /\ Returned(c, tried, numchecked, e, tried', numchecked')
  BY <1>1, <1>2, <1>3, ReturnFrames DEF c
<1>5. /\ ids \in Matrix(c)
      /\ \A q \in Pushed : q \in Matrix(c) /\ Before(c, q, ids)
      /\ \A q \in Matrix(c) : AgreeTo(q, ids, CurSize(c)) <=> q = ids
  <2>1. Building(c, closest, ids, tried, numchecked, CurSize(c) + 1, Pushed)
    BY <1>1, <1>3
  <2> QED BY <1>2, <2>1, CompleteRow
<1>6. /\ matrix' \in Seq([DOMAIN c -> Prev \cup {New}]) /\ Len(matrix') = Len(matrix) + 1
      /\ Len(matrix) \in Nat /\ DOMAIN matrix = 1 .. Len(matrix)
      /\ DOMAIN matrix' = 1 .. Len(matrix) + 1
      /\ matrix'[Len(matrix) + 1] = ids
      /\ \A a \in DOMAIN matrix : matrix'[a] = matrix[a]
  <2>1. ids \in [DOMAIN c -> Prev \cup {New}]
    BY <1>2 DEF Frames
  <2> QED BY <1>1, <1>2, <2>1
<1>7. Pushed' = M2
  BY <1>6 DEF Pushed, M2
<1>8. InBefore(c, matrix')
  <2> SUFFICES ASSUME NEW a \in DOMAIN matrix', NEW b \in DOMAIN matrix', a < b
               PROVE  Before(c, matrix'[a], matrix'[b])
    BY DEF InBefore
  <2>1. a \in DOMAIN matrix /\ matrix'[a] = matrix[a] /\ matrix[a] \in Pushed
    BY <1>6 DEF Pushed
  <2>2. CASE b \in DOMAIN matrix
    BY <1>2, <1>6, <2>1, <2>2 DEF InBefore
  <2>3. CASE b \notin DOMAIN matrix
    <3>1. matrix'[b] = ids
      BY <1>6, <2>3
    <3> QED BY <1>5, <2>1, <3>1
  <2> QED BY <2>2, <2>3
<1>9. Building(c, closest, ids, tried', numchecked', e, M2)
  <2>1. M2 \in SUBSET Matrix(c) /\ \A q \in Matrix(c) : q \in M2 <=> q \in Pushed \/ AgreeTo(q, ids, e)
    BY <1>5 DEF M2
  <2>2. \A i \in DOMAIN c : tried[i] \in 1 .. PrevSize + 2
    BY <1>2 DEF Frames
  <2> HIDE DEF e
  <2>3. e \in Nat /\ e <= CurSize(c) /\ Follows(e, start) /\ c \in Contours
    BY <1>2, <1>3, <1>4
  <2> QED BY <1>3, <1>4, <2>1, <2>2, <2>3, ReturnStep
<1>10. Frames(c, ids', tried', numchecked')
  BY <1>1, <1>2, <1>4 DEF Frames
<1> QED BY <1>1, <1>3, <1>4, <1>6, <1>7, <1>8, <1>9, <1>10, PermuteStep DEF c

\* permute has tried everything: its caller goes on.
LEMMA NothingLeftCallInv ==
  ASSUME TypeOK, CallInv, NothingLeft
  PROVE  CallInv'
<1> DEFINE c == contours
           d == start
           e == d - 1
<1>1. /\ Permuting /\ tried[d] = PrevSize + 2 /\ Return /\ ids' = ids /\ blobs' = blobs
      /\ UNCHANGED <<contours, pc, loopI, loopJ, loopK, closest, best, matrix>>
  BY DEF NothingLeft, trackerVars
<1>2. /\ pc = "permute" /\ c \in Contours /\ c # << >>
      /\ d \in DOMAIN c /\ d \in Nat \ {0} /\ PrevSize \in Nat
      /\ Frames(c, ids, tried, numchecked)
      /\ Building(c, closest, ids, tried, numchecked, d, Pushed)
      /\ Listed(closest[d])
  BY <1>1, TryFacts
<1>3. Follows(e, d) /\ e \in Int /\ d \in 1 .. CurSize(c) + 1
  BY <1>2, FrameShape DEF Follows
<1> HIDE DEF c, e
<1>4. /\ e \in Nat /\ e <= CurSize(c)
      /\ start' = e /\ e \in 0 .. CurSize(c) + 1
      /\ tried' \in [DOMAIN c -> 1 .. PrevSize + 2] /\ numchecked' \in [DOMAIN c -> Nat]
      /\ Returned(c, tried, numchecked, e, tried', numchecked')
  BY <1>1, <1>2, <1>3, ReturnFrames DEF c
<1>5. ASSUME NEW q \in Matrix(c), AgreeTo(q, ids, e)
      PROVE  q \in Pushed
  <2>1. q[d] \in Prev \cup {New}
    BY <1>2, MatrixEntry
  <2>2. Tried(closest[d], tried[d], q[d])
    BY <1>1, <1>2, <2>1, TriedSteps
  <2>3. DoneAt(closest[d], tried[d], ids, q, d)
    BY <1>5, <2>2 DEF DoneAt, e
  <2>4. d <= d
    BY <1>2
  <2>5. DoneRow(c, closest, ids, tried, d, q)
    BY <1>2, <2>3, <2>4 DEF DoneRow
  <2> QED BY <1>2, <2>5 DEF Building
<1>6. Building(c, closest, ids, tried', numchecked', e, Pushed)
  <2>1. Pushed \in SUBSET Matrix(c)
    BY <1>2 DEF Building
  <2>2. \A q \in Matrix(c) : q \in Pushed <=> q \in Pushed \/ AgreeTo(q, ids, e)
    BY <1>5
  <2>3. \A i \in DOMAIN c : tried[i] \in 1 .. PrevSize + 2
    BY <1>2 DEF Frames
  <2> HIDE DEF d
  <2> QED BY <1>2, <1>3, <1>4, <2>1, <2>2, <2>3, ReturnStep
<1>7. Frames(c, ids', tried', numchecked')
  BY <1>1, <1>2, <1>4 DEF Frames
<1> QED BY <1>1, <1>2, <1>4, <1>6, <1>7, QuietStep DEF c

-----------------------------------------------------------------------------
(* The row with the lowest error.                                          *)

\* What the invariant says of the best-error loop.
LEMMA BestFacts ==
  ASSUME TypeOK, CallInv, pc = "best"
  PROVE  /\ contours \in Contours
         /\ loopJ \in Nat \ {0} /\ best \in 0 .. Len(matrix) /\ Len(matrix) \in Nat
         /\ matrix \in Seq([DOMAIN contours -> Prev \cup {New}])
         /\ DOMAIN matrix = 1 .. Len(matrix)
         /\ InBefore(contours, matrix)
         /\ BestState(contours, matrix, Pushed, best, loopJ)
         /\ \A a \in DOMAIN matrix : /\ matrix[a] \in [DOMAIN contours -> Prev \cup {New}]
                                     /\ TotalError(contours, matrix[a]) \in Nat
<1>1. /\ contours \in Contours
      /\ loopJ \in Nat \ {0} /\ best \in 0 .. Len(matrix)
      /\ matrix \in Seq([DOMAIN contours -> Prev \cup {New}])
      /\ InBefore(contours, matrix)
      /\ BestState(contours, matrix, Pushed, best, loopJ)
  BY DEF CallInv, PermuteTypeOK, OrderInv, BestInv
<1>2. /\ Len(matrix) \in Nat /\ DOMAIN matrix = 1 .. Len(matrix)
      /\ \A a \in DOMAIN matrix : matrix[a] \in [DOMAIN contours -> Prev \cup {New}]
  BY <1>1
<1>3. ASSUME NEW a \in DOMAIN matrix PROVE TotalError(contours, matrix[a]) \in Nat
  <2>1. matrix[a] \in [DOMAIN contours -> Prev \cup {New}]
    BY <1>2
  <2> QED BY <1>1, <2>1, TotalZero
<1> QED BY <1>1, <1>2, <1>3

\* permute has returned from its first call: it has pushed all rows.
LEMMA PermutedCallInv ==
  ASSUME TypeOK, CallInv, Permuted
  PROVE  CallInv'
<1> DEFINE c == contours
<1>1. /\ pc = "permute" /\ start = 0 /\ pc' = "best" /\ loopJ' = 1 /\ blobs' = blobs
      /\ contours' = contours /\ loopI' = loopI /\ loopK' = loopK /\ closest' = closest
      /\ ids' = ids /\ start' = start /\ tried' = tried /\ numchecked' = numchecked
      /\ matrix' = matrix /\ best' = best
  BY DEF Permuted, trackerVars
<1>2. /\ c \in Contours /\ best = 0
      /\ matrix \in Seq([DOMAIN c -> Prev \cup {New}])
      /\ InBefore(c, matrix)
      /\ c = << >> => Pushed = {}
      /\ c # << >> => Building(c, closest, ids, tried, numchecked, start, Pushed)
  BY <1>1, PermuteFacts
<1>3. PermuteTypeOK'
  <2>1. Prev' = Prev /\ PrevSize' = PrevSize /\ CurSize(contours)' = CurSize(contours)
    BY <1>1, SameVector DEF CurSize
  <2> QED BY <1>1, <2>1 DEF CallInv, PermuteTypeOK
<1>4. Pushed' = Pushed
  BY <1>1 DEF Pushed
<1> HIDE DEF c
<1>5. BestState(c, matrix, Pushed, 0, 1)
  <2>1. Pushed = IF c = << >> THEN {} ELSE Matrix(c)
    <3>1. CASE c = << >>
      BY <1>2, <3>1
    <3>2. CASE c # << >>
      <4>1. \A q : DoneRow(c, closest, ids, tried, start, q)
        BY <1>1 DEF DoneRow
      <4>2. Pushed = Matrix(c)
        BY <1>2, <3>2, <4>1 DEF Building
      <4> QED BY <3>2, <4>2
    <3> QED BY <3>1, <3>2
  <2>2. Len(matrix) \in Nat /\ DOMAIN matrix = 1 .. Len(matrix)
    BY <1>2
  <2>3. BestUpTo(c, matrix, 0, 1)
    BY <2>2 DEF BestUpTo
  <2> QED BY <2>1, <2>2, <2>3 DEF BestState
<1>6. SortInv' /\ RecursionInv' /\ OrderInv' /\ BestInv'
  BY <1>1, <1>2, <1>4, <1>5, SamePhase DEF c
<1> QED BY <1>3, <1>6 DEF CallInv

\* The next row replaces the best one so far if its error is lower.
LEMMA CompareErrorCallInv ==
  ASSUME TypeOK, CallInv, CompareError
  PROVE  CallInv'
<1> DEFINE c == contours
           T(a) == TotalError(c, matrix[a])
<1>1. /\ pc = "best" /\ loopJ <= Len(matrix) /\ loopJ' = loopJ + 1 /\ blobs' = blobs
      /\ best' = IF best = 0 \/ T(loopJ) < T(best) THEN loopJ ELSE best
      /\ contours' = contours /\ loopI' = loopI /\ loopK' = loopK /\ closest' = closest
      /\ ids' = ids /\ start' = start /\ tried' = tried /\ numchecked' = numchecked
      /\ matrix' = matrix /\ pc' = pc
  BY DEF CompareError, Better, trackerVars
<1>2. /\ c \in Contours
      /\ loopJ \in Nat \ {0} /\ best \in 0 .. Len(matrix) /\ Len(matrix) \in Nat
      /\ DOMAIN matrix = 1 .. Len(matrix)
      /\ InBefore(c, matrix)
      /\ BestState(c, matrix, Pushed, best, loopJ)
      /\ \A a \in DOMAIN matrix : T(a) \in Nat
  BY <1>1, BestFacts
<1>3. best' \in 1 .. loopJ /\ best' \in 0 .. Len(matrix)
  BY <1>1, <1>2 DEF BestState
<1>4. PermuteTypeOK'
  <2>1. Prev' = Prev /\ PrevSize' = PrevSize /\ CurSize(contours)' = CurSize(contours)
    BY <1>1, SameVector DEF CurSize
  <2>2. loopJ' \in Nat \ {0}
    BY <1>1, <1>2
  <2> QED BY <1>1, <1>3, <2>1, <2>2 DEF CallInv, PermuteTypeOK
<1>5. Pushed' = Pushed
  BY <1>1 DEF Pushed
<1>6. BestUpTo(c, matrix, best', loopJ + 1)
  <2>1. \A a \in DOMAIN matrix : a < loopJ =>
          T(best) <= T(a) /\ (a < best => T(best) < T(a))
    BY <1>2 DEF BestState, BestUpTo
  <2>2. loopJ \in DOMAIN matrix /\ (best # 0 => best \in DOMAIN matrix) /\ best < loopJ
        /\ (loopJ > 1 => best > 0)
    BY <1>1, <1>2 DEF BestState
  <2> HIDE DEF T
  <2>3. ASSUME NEW a \in DOMAIN matrix, a < loopJ + 1
        PROVE  T(best') <= T(a) /\ (a < best' => T(best') < T(a))
    <3>1. T(a) \in Nat /\ T(loopJ) \in Nat /\ a \in 1 .. Len(matrix)
      BY <1>2, <2>2
    <3>2. CASE best = 0
      <4>1. loopJ = 1 /\ best' = loopJ /\ a = loopJ
        BY <1>1, <1>2, <2>2, <2>3, <3>1, <3>2
      <4> QED BY <3>1, <4>1
    <3>3. CASE best # 0
      <4>1. T(best) \in Nat
        BY <1>2, <2>2, <3>3
      <4>2. CASE T(loopJ) < T(best)
        <5>1. best' = loopJ
          BY <1>1, <4>2
        <5>2. CASE a = loopJ
          BY <1>2, <3>1, <5>1, <5>2
        <5>3. CASE a # loopJ
          <6>1. a < loopJ
            BY <1>2, <2>3, <3>1, <5>3
          <6>2. T(best) <= T(a)
            BY <2>1, <6>1
          <6>3. T(loopJ) < T(a)
            BY <3>1, <4>1, <4>2, <6>2
          <6> QED BY <3>1, <5>1, <6>3
        <5> QED BY <5>2, <5>3
      <4>3. CASE ~(T(loopJ) < T(best))
        <5>1. best' = best
          BY <1>1, <3>3, <4>3
        <5>2. CASE a = loopJ
          BY <1>2, <2>2, <3>1, <4>1, <4>3, <5>1, <5>2
        <5>3. CASE a # loopJ
          <6>1. a < loopJ
            BY <1>2, <2>3, <3>1, <5>3
          <6> QED BY <2>1, <5>1, <6>1
        <5> QED BY <5>2, <5>3
      <4> QED BY <4>2, <4>3
    <3> QED BY <3>2, <3>3
  <2> QED BY <2>3 DEF BestUpTo, T
<1> HIDE DEF c, T
<1>7. BestState(c, matrix, Pushed, best', loopJ + 1)
  BY <1>1, <1>2, <1>3, <1>6 DEF BestState
<1>8. SortInv' /\ RecursionInv' /\ OrderInv' /\ BestInv'
  BY <1>1, <1>2, <1>5, <1>7, SamePhase DEF c
<1> QED BY <1>4, <1>8 DEF CallInv

\* Where all rows have been compared, the row taken is the one of Matches.
LEMMA DecidedIsMatches ==
  ASSUME TypeOK, CallInv, Decided
  PROVE  Matches(contours) = {Chosen}
<1> DEFINE c == contours
<1>1. /\ pc = "best" /\ loopJ > Len(matrix)
      /\ c \in Contours
      /\ loopJ \in Nat \ {0} /\ best \in 0 .. Len(matrix) /\ Len(matrix) \in Nat
      /\ DOMAIN matrix = 1 .. Len(matrix)
      /\ InBefore(c, matrix)
      /\ BestState(c, matrix, Pushed, best, loopJ)
  BY BestFacts DEF Decided
<1>2. /\ Pushed = IF c = << >> THEN {} ELSE Matrix(c)
      /\ loopJ = Len(matrix) + 1 /\ best < loopJ /\ (loopJ > 1 => best > 0)
      /\ BestUpTo(c, matrix, best, loopJ)
  BY <1>1 DEF BestState
<1>3. CASE c = << >>
  <2>1. Len(matrix) = 0
    <3>1. DOMAIN matrix = {}
      BY <1>2, <1>3 DEF Pushed
    <3> QED BY <1>1, <3>1
  <2>2. Chosen = << >>
    BY <1>1, <1>3, <2>1 DEF Chosen
  <2>3. [DOMAIN c -> Prev \cup {New}] = {<< >>}
    <3>1. DOMAIN c = 1 .. 0 /\ << >> \in [1 .. 0 -> Prev \cup {New}]
      BY <1>3
    <3>2. ASSUME NEW f \in [1 .. 0 -> Prev \cup {New}] PROVE f = << >>
      <4>1. DOMAIN f = {}
        OBVIOUS
      <4> QED BY <4>1
    <3> QED BY <3>1, <3>2
  <2>4. Matrix(c) = {<< >>}
    BY <1>3, <2>3 DEF Matrix
  <2>5. TotalError(c, << >>) \in Nat
    BY <1>1, <2>3, TotalZero
  <2> DEFINE T == TotalError(c, << >>)
             Cheapest == {row \in {<< >>} : TotalError(c, row) = Min({T})}
  <2>6. Min({T}) = T
    BY <2>5 DEF Min
  <2>7. Cheapest = {<< >>}
    BY <2>6
  <2>8. ~Before(c, << >>, << >>)
    BY <1>3 DEF Before
  <2>9. BestOf(c, {<< >>}) = {row \in Cheapest : \A other \in Cheapest : ~Before(c, other, row)}
    <3>1. {TotalError(c, row) : row \in {<< >>}} = {T}
      OBVIOUS
    <3> QED BY <3>1 DEF BestOf
  <2>10. BestOf(c, {<< >>}) = {<< >>}
    BY <2>7, <2>8, <2>9
  <2> QED BY <2>2, <2>4, <2>10 DEF Matches
<1>4. CASE c # << >> /\ Matrix(c) = {}
  <2>1. Len(matrix) = 0
    <3>1. DOMAIN matrix = {}
      BY <1>2, <1>4 DEF Pushed
    <3> QED BY <1>1, <3>1
  <2>2. Chosen = [i \in DOMAIN c |-> New]
    BY <1>1, <2>1 DEF Chosen
  <2> QED BY <1>4, <2>2 DEF Matches
<1>5. CASE c # << >> /\ Matrix(c) # {}
  <2>1. \A q : q \in Matrix(c) <=> \E a \in DOMAIN matrix : q = matrix[a]
    BY <1>2, <1>5 DEF Pushed
  <2>2. DOMAIN matrix # {}
    BY <1>5, <2>1
  <2>3. best \in DOMAIN matrix /\ best # 0
    BY <1>1, <1>2, <2>2
  <2>4. BestUpTo(c, matrix, best, Len(matrix) + 1)
    BY <1>2
  <2> HIDE DEF c
  <2>5. BestOf(c, Matrix(c)) = {matrix[best]}
    BY <1>1, <2>1, <2>3, <2>4, FirstIsBest
  <2> QED BY <1>5, <2>3, <2>5 DEF Matches, Chosen, c
<1> QED BY <1>3, <1>4, <1>5

\* The end of a call is a step of BlobTracker.
LEMMA FinishIsTrackBlobs ==
  ASSUME TypeOK, CallInv, Finish
  PROVE  /\ pc = "best" /\ pc' = "idle" /\ contours \in Contours
         /\ TrackBlobs(contours)
         /\ TypeOK' /\ CallInv'
<1>1. /\ pc = "best" /\ loopJ > Len(matrix) /\ pc' = "idle"
      /\ blobs' = NextBlobs(contours, Chosen)
      /\ events' = FiredEvents(contours, Chosen)
      /\ currentID' = IdAfter(Cardinality(NewIn(Chosen)))
      /\ contours' = contours /\ loopI' = loopI /\ loopJ' = loopJ /\ loopK' = loopK
      /\ closest' = closest
      /\ ids' = ids /\ start' = start /\ tried' = tried /\ numchecked' = numchecked
      /\ matrix' = matrix /\ best' = best
  BY DEF Finish
<1>2. Matches(contours) = {Chosen}
  BY <1>1, DecidedIsMatches DEF Decided
<1>3. Chosen \in Matches(contours)
  BY <1>2
<1>4. TrackBlobs(contours)
  BY <1>1, <1>3 DEF TrackBlobs
<1>5. contours \in Contours
  BY <1>1, BestFacts
<1>6. TypeOK'
  BY <1>4, <1>5, TrackBlobsTypeOK
<1>7. PermuteTypeOK'
  <2>1. CurSize(contours)' = CurSize(contours)
    BY <1>1 DEF CurSize
  <2> QED BY <1>1, <2>1 DEF CallInv, PermuteTypeOK
<1>8. SortInv' /\ RecursionInv' /\ OrderInv' /\ BestInv'
  BY <1>1 DEF SortInv, RecursionInv, OrderInv, BestInv
<1> QED BY <1>1, <1>4, <1>5, <1>6, <1>7, <1>8 DEF CallInv

-----------------------------------------------------------------------------
(* Every step keeps the invariant.                                         *)

\* The steps of a call before its end change nothing the listener can see.
LEMMA QuietUntilFinish ==
  ASSUME [PermuteNext]_permuteVars
  PROVE  UNCHANGED trackerVars \/ Finish
BY DEF PermuteNext, Begin, Continue, Compare, NextPass, NextContour, CallPermute, Push, TooFar,
       TryBlob, TryNew, NothingLeft, Permuted, CompareError, permuteVars

LEMMA PermuteNextCallInv ==
  ASSUME TypeOK, CallInv, [PermuteNext]_permuteVars
  PROVE  TypeOK' /\ CallInv'
<1>1. TypeOK'
  <2>1. CASE UNCHANGED trackerVars
    BY <2>1, StutterTypeOK
  <2>2. CASE Finish
    BY <2>2, FinishIsTrackBlobs
  <2> QED BY <2>1, <2>2, QuietUntilFinish
<1>2. CASE \E c \in Contours : Begin(c)
  BY <1>1, <1>2, BeginCallInv
<1>3. CASE Compare
  BY <1>1, <1>3, CompareCallInv
<1>4. CASE NextPass
  BY <1>1, <1>4, NextPassCallInv
<1>5. CASE NextContour
  BY <1>1, <1>5, NextContourCallInv
<1>6. CASE CallPermute
  BY <1>1, <1>6, CallPermuteCallInv
<1>7. CASE Push
  BY <1>1, <1>7, PushCallInv
<1>8. CASE TooFar
  BY <1>1, <1>8, TooFarCallInv
<1>9. CASE TryBlob
  BY <1>1, <1>9, TryBlobCallInv
<1>10. CASE TryNew
  BY <1>1, <1>10, TryNewCallInv
<1>11. CASE NothingLeft
  BY <1>1, <1>11, NothingLeftCallInv
<1>12. CASE Permuted
  BY <1>1, <1>12, PermutedCallInv
<1>13. CASE CompareError
  BY <1>1, <1>13, CompareErrorCallInv
<1>14. CASE Finish
  BY <1>1, <1>14, FinishIsTrackBlobs
<1>15. CASE UNCHANGED permuteVars
  <2>1. /\ blobs' = blobs /\ contours' = contours /\ pc' = pc /\ loopI' = loopI
        /\ loopJ' = loopJ /\ loopK' = loopK /\ closest' = closest /\ ids' = ids
        /\ start' = start /\ tried' = tried /\ numchecked' = numchecked
        /\ matrix' = matrix /\ best' = best
    BY <1>15 DEF permuteVars, trackerVars, callVars
  <2>2. PermuteTypeOK'
    <3>1. Prev' = Prev /\ PrevSize' = PrevSize /\ CurSize(contours)' = CurSize(contours)
      BY <2>1, SameVector DEF CurSize
    <3> QED BY <2>1, <3>1 DEF CallInv, PermuteTypeOK
  <2>3. Pushed' = Pushed
    BY <2>1 DEF Pushed
  <2>4. SortInv' /\ RecursionInv' /\ OrderInv' /\ BestInv'
    BY <2>1, <2>3, SamePhase DEF CallInv, SortInv, RecursionInv, OrderInv, BestInv
  <2> QED BY <1>1, <2>2, <2>4 DEF CallInv
<1> QED BY <1>2, <1>3, <1>4, <1>5, <1>6, <1>7, <1>8, <1>9, <1>10, <1>11, <1>12, <1>13,
           <1>14, <1>15 DEF PermuteNext, Continue

LEMMA CallInvCorrect == PermuteSpec => [](TypeOK /\ CallInv)
<1>1. PermuteInit => TypeOK /\ CallInv
  BY InitTypeOK, InitCallInv DEF PermuteInit
<1>2. TypeOK /\ CallInv /\ [PermuteNext]_permuteVars => (TypeOK /\ CallInv)'
  BY PermuteNextCallInv
<1> QED BY <1>1, <1>2, PTL DEF PermuteSpec

-----------------------------------------------------------------------------
(* Theorems.                                                               *)

\* However many contours the camera sees and blobs the tracker remembers, no
\* index of the sort, of permute or of the best-error loop leaves its array.
THEOREM PermuteTypeCorrect == PermuteSpec => []PermuteTypeOK
<1>1. TypeOK /\ CallInv => PermuteTypeOK
  BY DEF CallInv
<1> QED BY <1>1, CallInvCorrect, PTL

\* The recursion of permute, with its early end at the first blob that is too
\* far and its count of tries, pushes exactly the rows that BlobTracker
\* describes, each once, in the order of Before.
THEOREM PermuteIsMatrixCorrect == PermuteSpec => []PermuteIsMatrix
<1>1. ASSUME TypeOK, CallInv PROVE PermuteIsMatrix
  <2> SUFFICES ASSUME Decided PROVE PermuteIsMatrix
    BY DEF PermuteIsMatrix
  <2>1. pc = "best"
    BY DEF Decided
  <2>2. /\ contours \in Contours
        /\ InBefore(contours, matrix)
        /\ BestState(contours, matrix, Pushed, best, loopJ)
        /\ \A a \in DOMAIN matrix : matrix[a] \in [DOMAIN contours -> Prev \cup {New}]
    BY <1>1, <2>1, BestFacts
  <2>3. ASSUME NEW a \in DOMAIN matrix, NEW b \in DOMAIN matrix, a < b
        PROVE  /\ Before(contours, matrix[a], matrix[b])
               /\ ~Before(contours, matrix[b], matrix[a])
    <3>1. Before(contours, matrix[a], matrix[b])
      BY <2>2, <2>3 DEF InBefore
    <3>2. /\ matrix[a] \in [DOMAIN contours -> Prev \cup {New}]
          /\ matrix[b] \in [DOMAIN contours -> Prev \cup {New}]
      BY <2>2
    <3> QED BY <1>1, <2>2, <3>1, <3>2, BeforeAsymmetric
  <2> QED BY <2>2, <2>3 DEF PermuteIsMatrix, BestState
<1> QED BY <1>1, CallInvCorrect, PTL

\* The loop over the rows ends with the one row that BlobTracker matches by:
\* of the rows with the lowest total error the one permute pushed first.
THEOREM BestIsMatchesCorrect == PermuteSpec => []BestIsMatches
<1>1. TypeOK /\ CallInv => BestIsMatches
  BY DecidedIsMatches DEF BestIsMatches
<1> QED BY <1>1, CallInvCorrect, PTL

\* A row that continues no blob twice has a new id for each contour beyond the
\* number of blobs at least.
LEMMA NewAtLeastExtra ==
  ASSUME TypeOK, NEW c \in Contours, NEW row \in [DOMAIN c -> Prev \cup {New}],
         \A i, k \in DOMAIN c : row[i] = row[k] /\ row[i] # New => i = k
  PROVE  Cardinality(NewIn(row)) \in Nat /\ Cardinality(NewIn(row)) >= ExtraIDs(c)
<1> DEFINE D == DOMAIN c
           N == NewIn(row)
           On == D \ N
<1>1. N = {i \in D : row[i] = New}
  BY DEF NewIn
<1>2. /\ IsFiniteSet(D) /\ IsFiniteSet(Prev) /\ CurSize(c) = Cardinality(D)
      /\ PrevSize = Cardinality(Prev)
  BY ContoursShape DEF TypeOK, CurSize, PrevSize
<1> HIDE DEF N
<1>3. /\ IsFiniteSet(N) /\ N \subseteq D /\ IsFiniteSet(On)
      /\ Cardinality(N) \in Nat /\ Cardinality(On) \in Nat
      /\ Cardinality(D) \in Nat /\ Cardinality(Prev) \in Nat
  BY <1>1, <1>2, FS_Subset, FS_CardinalityType
<1>4. Cardinality(On) = Cardinality(D) - Cardinality(N)
  <2>1. D \cap N = N
    BY <1>3
  <2>2. Cardinality(On) = Cardinality(D) - Cardinality(D \cap N)
    BY <1>2, FS_Difference
  <2> QED BY <2>1, <2>2
<1>5. Cardinality(On) <= Cardinality(Prev)
  <2> DEFINE f == [i \in On |-> row[i]]
  <2>1. f \in [On -> Prev]
    BY <1>1
  <2>2. \A a, b \in On : f[a] = f[b] => a = b
    BY <1>1
  <2>3. f \in Injection(On, Prev)
    BY <2>1, <2>2 DEF Injection, IsInjective
  <2> QED BY <1>2, <2>3, FS_Injection
<1>6. Cardinality(N) >= ExtraIDs(c)
  BY <1>2, <1>3, <1>4, <1>5 DEF ExtraIDs
<1> QED BY <1>3, <1>6 DEF N

\* Whatever numcheck and the distance threshold cut off, a row that is pushed
\* gives as many new ids as there are more contours than blobs, no more and no
\* fewer, and continues no blob twice.
THEOREM RowsAreFullCorrect == PermuteSpec => []RowsAreFull
<1>1. ASSUME TypeOK, CallInv PROVE RowsAreFull
  <2> SUFFICES ASSUME Decided, NEW row \in Pushed
               PROVE  /\ Cardinality(NewIn(row)) = ExtraIDs(contours)
                      /\ \A i, k \in DOMAIN row : row[i] = row[k] /\ row[i] # New => i = k
    BY DEF RowsAreFull
  <2>1. contours \in Contours /\ BestState(contours, matrix, Pushed, best, loopJ)
    BY <1>1, BestFacts DEF Decided
  <2>2. row \in Matrix(contours)
    BY <2>1 DEF BestState
  <2>3. /\ row \in [DOMAIN contours -> Prev \cup {New}]
        /\ \A i \in DOMAIN contours : Reaches(contours, row, i)
    BY <2>2 DEF Matrix
  <2>4. DOMAIN contours = 1 .. CurSize(contours) /\ CurSize(contours) \in Nat
    BY <2>1, FrameShape
  <2>5. ASSUME NEW i \in DOMAIN contours, NEW k \in DOMAIN contours,
               row[i] = row[k], row[i] # New, k < i
        PROVE  FALSE
    <3>1. CheckValid(row, i, row[i])
      BY <2>3, <2>5 DEF Reaches, Candidates
    <3>2. k \in 1 .. i - 1
      BY <2>4, <2>5
    <3> QED BY <2>5, <3>1, <3>2 DEF CheckValid
  <2>6. \A i, k \in DOMAIN contours : row[i] = row[k] /\ row[i] # New => i = k
    <3> SUFFICES ASSUME NEW i \in DOMAIN contours, NEW k \in DOMAIN contours,
                        row[i] = row[k], row[i] # New
                 PROVE  ~(i < k) /\ ~(k < i)
      BY <2>4
    <3> QED BY <2>5
  <2>7. Cardinality(NewIn(row)) <= ExtraIDs(contours)
    BY <1>1, <2>1, <2>2, NewWithinExtra
  <2>8. Cardinality(NewIn(row)) \in Nat /\ Cardinality(NewIn(row)) >= ExtraIDs(contours)
    BY <1>1, <2>1, <2>3, <2>6, NewAtLeastExtra
  <2>9. ExtraIDs(contours) \in Nat
    BY <1>1, <2>1, NumCheckShape
  <2>10. Cardinality(NewIn(row)) = ExtraIDs(contours)
    BY <2>7, <2>8, <2>9
  <2> QED BY <2>3, <2>6, <2>10
<1> QED BY <1>1, CallInvCorrect, PTL

\* Of all the steps of a call only its end changes what the listener hears and
\* what is remembered, and it does so by the row BlobTracker matches by.
THEOREM CallsAreTrackBlobs == PermuteSpec => CallIsTrackBlobs
<1>1. TypeOK /\ CallInv /\ [PermuteNext]_permuteVars
        => [pc = "best" /\ pc' = "idle" /\ TrackBlobs(contours)]_trackerVars
  BY QuietUntilFinish, FinishIsTrackBlobs
<1> QED BY <1>1, CallInvCorrect, PTL DEF PermuteSpec, CallIsTrackBlobs

\* The code's way to match implements BlobTracker: whatever is proved of Spec
\* holds of the calls made step by step.
THEOREM PermuteImplementsTracker == PermuteSpec => Spec
<1>1. PermuteInit => Init
  BY DEF PermuteInit
<1>2. TypeOK /\ CallInv /\ [PermuteNext]_permuteVars => [Next]_trackerVars
  BY QuietUntilFinish, FinishIsTrackBlobs DEF Next
<1> QED BY <1>1, <1>2, CallInvCorrect, PTL DEF PermuteSpec, Spec

=============================================================================
