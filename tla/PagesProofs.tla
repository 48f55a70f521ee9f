---------------------------- MODULE PagesProofs -----------------------------
(***************************************************************************)
(* Proofs about Pages: what a cursor's pages hold, put together, whatever  *)
(* is written between them, for every table, key and size of page.         *)
(***************************************************************************)
EXTENDS Pages, FiniteSetTheorems, SequenceTheorems, WellFoundedInduction, TLAPS

(***************************************************************************)
(* Keys.  A row, a key, and a bound are compared column by column, each    *)
(* upwards or downwards: d says which.                                     *)
(***************************************************************************)
Ahead(d, a, b) == \* a comes first
    \E n \in DOMAIN d :
       /\ \A i \in 1 .. n - 1 : a[i] = b[i]
       /\ IF d[n] THEN a[n] < b[n] ELSE a[n] > b[n]

Same(k, a, b) == \A i \in 1 .. k : a[i] = b[i]

LEMMA LeastElement ==
    ASSUME NEW T \in SUBSET Nat, T # {}
    PROVE  \E k \in T : \A j \in T : k <= j
<1> DEFINE R == OpToRel(<, Nat)
<1>1. IsWellFoundedOn(R, Nat)
  BY NatLessThanWellFounded
<1>2. \A x, y \in Nat : <<x, y>> \in R <=> x < y
  BY DEF OpToRel
<1> HIDE DEF R
<1>3. PICK k \in T : \A j \in T : ~ (<<j, k>> \in R)
  BY <1>1, WFMin
<1>4. ASSUME NEW j \in T PROVE k <= j
  <2>1. j \in Nat /\ k \in Nat /\ <<j, k>> \notin R
    BY <1>3
  <2> QED BY <1>2, <2>1
<1> QED BY <1>4

\* A lexicographic order is a strict one, and total on what it can tell apart.
LEMMA AheadIsStrict ==
    ASSUME NEW k \in Nat, NEW d \in [1 .. k -> BOOLEAN],
           NEW a, NEW b, NEW c, 
           \A i \in 1 .. k : a[i] \in Nat /\ b[i] \in Nat /\ c[i] \in Nat
    PROVE  /\ Ahead(d, a, b) => ~Same(k, a, b) /\ ~Ahead(d, b, a)
           /\ Ahead(d, a, b) /\ Ahead(d, b, c) => Ahead(d, a, c)
           /\ Ahead(d, a, b) /\ Same(k, b, c) => Ahead(d, a, c)
           /\ Same(k, a, b) /\ Ahead(d, b, c) => Ahead(d, a, c)
<1>1. ASSUME Ahead(d, a, b) PROVE ~Same(k, a, b) /\ ~Ahead(d, b, a)
  <2>1. PICK n \in 1 .. k : /\ \A i \in 1 .. n - 1 : a[i] = b[i]
                            /\ IF d[n] THEN a[n] < b[n] ELSE a[n] > b[n]
    BY <1>1 DEF Ahead
  <2>2. a[n] # b[n] /\ a[n] \in Nat /\ b[n] \in Nat /\ d[n] \in BOOLEAN
    BY <2>1
  <2>3. ASSUME NEW m \in 1 .. k, \A i \in 1 .. m - 1 : b[i] = a[i],
               IF d[m] THEN b[m] < a[m] ELSE b[m] > a[m]
        PROVE  FALSE
    <3>1. b[m] # a[m] /\ a[m] \in Nat /\ b[m] \in Nat
      BY <2>3
    <3>2. ~(m < n) /\ ~(n < m)
      BY <2>1, <2>2, <2>3, <3>1
    <3>3. m = n
      BY <3>2
    <3> QED BY <2>1, <2>2, <2>3, <3>3
  <2> QED BY <2>2, <2>3 DEF Ahead, Same
<1>2. ASSUME Ahead(d, a, b), Ahead(d, b, c) PROVE Ahead(d, a, c)
  <2>1. PICK n \in 1 .. k : /\ \A i \in 1 .. n - 1 : a[i] = b[i]
                            /\ IF d[n] THEN a[n] < b[n] ELSE a[n] > b[n]
    BY <1>2 DEF Ahead
  <2>2. PICK m \in 1 .. k : /\ \A i \in 1 .. m - 1 : b[i] = c[i]
                            /\ IF d[m] THEN b[m] < c[m] ELSE b[m] > c[m]
    BY <1>2 DEF Ahead
  <2>3. CASE n < m
    <3>1. \A i \in 1 .. n - 1 : a[i] = c[i]
      BY <2>1, <2>2, <2>3
    <3>2. IF d[n] THEN a[n] < c[n] ELSE a[n] > c[n]
      BY <2>1, <2>2, <2>3
    <3> QED BY <3>1, <3>2 DEF Ahead
  <2>4. CASE m < n
    <3>1. \A i \in 1 .. m - 1 : a[i] = c[i]
      BY <2>1, <2>2, <2>4
    <3>2. IF d[m] THEN a[m] < c[m] ELSE a[m] > c[m]
      BY <2>1, <2>2, <2>4
    <3> QED BY <3>1, <3>2 DEF Ahead
  <2>5. CASE m = n
    <3>1. \A i \in 1 .. n - 1 : a[i] = c[i]
      BY <2>1, <2>2, <2>5
    <3>2. a[n] \in Nat /\ b[n] \in Nat /\ c[n] \in Nat
      OBVIOUS
    <3>3. IF d[n] THEN a[n] < c[n] ELSE a[n] > c[n]
      BY <2>1, <2>2, <2>5, <3>2
    <3> QED BY <3>1, <3>3 DEF Ahead
  <2> QED BY <2>3, <2>4, <2>5
<1>3. ASSUME Ahead(d, a, b), Same(k, b, c) PROVE Ahead(d, a, c)
  BY <1>3 DEF Ahead, Same
<1>4. ASSUME Same(k, a, b), Ahead(d, b, c) PROVE Ahead(d, a, c)
  BY <1>4 DEF Ahead, Same
<1> QED BY <1>1, <1>2, <1>3, <1>4

LEMMA AheadIsTotal ==
    ASSUME NEW k \in Nat, NEW d \in [1 .. k -> BOOLEAN], NEW a, NEW b,
           \A i \in 1 .. k : a[i] \in Nat /\ b[i] \in Nat
    PROVE  Same(k, a, b) \/ Ahead(d, a, b) \/ Ahead(d, b, a)
<1> SUFFICES ASSUME ~Same(k, a, b) PROVE Ahead(d, a, b) \/ Ahead(d, b, a)
  OBVIOUS
<1> DEFINE T == {i \in 1 .. k : a[i] # b[i]}
<1>1. T \in SUBSET Nat /\ T # {}
  BY DEF Same
<1>2. PICK n \in T : \A j \in T : n <= j
  BY <1>1, LeastElement
<1>3. n \in 1 .. k /\ a[n] # b[n] /\ \A i \in 1 .. n - 1 : a[i] = b[i]
  BY <1>2
<1>4. d[n] \in BOOLEAN /\ (a[n] < b[n] \/ a[n] > b[n])
  BY <1>3
<1>5. CASE IF d[n] THEN a[n] < b[n] ELSE a[n] > b[n]
  BY <1>3, <1>5 DEF Ahead
<1>6. CASE IF d[n] THEN b[n] < a[n] ELSE b[n] > a[n]
  BY <1>3, <1>6 DEF Ahead
<1> QED BY <1>3, <1>4, <1>5, <1>6

\* Looking from the other end.
LEMMA AheadReversed ==
    ASSUME NEW k \in Nat, NEW d \in [1 .. k -> BOOLEAN], NEW e \in [1 .. k -> BOOLEAN],
           \A i \in 1 .. k : e[i] = ~d[i], NEW a, NEW b,
           \A i \in 1 .. k : a[i] \in Nat /\ b[i] \in Nat
    PROVE  Ahead(d, a, b) <=> Ahead(e, b, a)
<1>1. ASSUME Ahead(d, a, b) PROVE Ahead(e, b, a)
  BY <1>1 DEF Ahead
<1>2. ASSUME Ahead(e, b, a) PROVE Ahead(d, a, b)
  BY <1>2 DEF Ahead
<1> QED BY <1>1, <1>2

(***************************************************************************)
(* Rows in order.  The key decides, then what is left of the row.          *)
(***************************************************************************)
Keyed(by, up) == [n \in 1 .. by |-> up]
Whole(by, up, tieUp) == [n \in 1 .. Arity |-> IF n <= by THEN up ELSE tieUp]

Orders == {"asc", "desc"}

LEMMA RowsNumbered ==
    /\ Arity \in Nat \ {0}
    /\ \A r \in Rows : /\ r \in Seq(Nat) /\ Len(r) = Arity /\ DOMAIN r = 1 .. Arity
                       /\ \A i \in 1 .. Arity : r[i] \in Nat
<1>1. \A r \in Rows : r \in Seq(Nat) /\ Len(r) \in Nat \ {0} /\ DOMAIN r = 1 .. Len(r)
  BY PagesAssumption
<1>2. (CHOOSE r \in Rows : TRUE) \in Rows
  BY PagesAssumption
<1>3. Arity \in Nat \ {0} /\ \A r \in Rows : Len(r) = Arity
  BY <1>1, <1>2, PagesAssumption DEF Arity
<1>4. ASSUME NEW r \in Rows, NEW i \in 1 .. Arity PROVE r[i] \in Nat
  <2>1. r \in Seq(Nat) /\ i \in 1 .. Len(r)
    BY <1>1, <1>3
  <2> QED BY <2>1
<1> QED BY <1>1, <1>3, <1>4

LEMMA SameRows ==
    ASSUME NEW a \in Rows, NEW b \in Rows, Same(Arity, a, b)
    PROVE  a = b
<1>1. a \in Seq(Nat) /\ b \in Seq(Nat) /\ Len(a) = Arity /\ Len(b) = Arity
  BY RowsNumbered
<1>2. \A i \in 1 .. Len(a) : a[i] = b[i]
  BY <1>1 DEF Same
<1> QED BY <1>1, <1>2

LEMMA PrecedesIsAhead ==
    ASSUME NEW by \in 1 .. Arity, NEW order \in Orders, NEW tie \in Orders,
           NEW a \in Rows, NEW b \in Rows
    PROVE  Precedes(by, order, tie, a, b) <=> Ahead(Whole(by, order = "asc", tie = "asc"), a, b)
<1>1. DOMAIN a = 1 .. Arity /\ DOMAIN Whole(by, order = "asc", tie = "asc") = 1 .. Arity
  BY RowsNumbered DEF Whole
<1>2. ASSUME NEW n \in 1 .. Arity
      PROVE  Compare(IF (IF n <= by THEN order ELSE tie) = "asc" THEN "lt" ELSE "gt", a[n], b[n])
             <=> IF Whole(by, order = "asc", tie = "asc")[n] THEN a[n] < b[n] ELSE a[n] > b[n]
  <2>1. Whole(by, order = "asc", tie = "asc")[n] = IF n <= by THEN order = "asc" ELSE tie = "asc"
    BY DEF Whole
  <2>2. CASE n <= by
    BY <2>1, <2>2 DEF Compare, Orders
  <2>3. CASE ~(n <= by)
    BY <2>1, <2>3 DEF Compare, Orders
  <2> QED BY <2>2, <2>3
<1> QED BY <1>1, <1>2 DEF Precedes, Ahead

LEMMA PrecedesIsTotal ==
    ASSUME NEW by \in 1 .. Arity, NEW order \in Orders, NEW tie \in Orders,
           NEW a \in Rows, NEW b \in Rows
    PROVE  /\ ~Precedes(by, order, tie, a, a)
           /\ Precedes(by, order, tie, a, b) => ~Precedes(by, order, tie, b, a)
           /\ a # b => Precedes(by, order, tie, a, b) \/ Precedes(by, order, tie, b, a)
           /\ \A c \in Rows : Precedes(by, order, tie, a, b) /\ Precedes(by, order, tie, b, c)
                                 => Precedes(by, order, tie, a, c)
<1> DEFINE d == Whole(by, order = "asc", tie = "asc")
<1>0. Arity \in Nat /\ \A r \in Rows : \A i \in 1 .. Arity : r[i] \in Nat
  BY RowsNumbered
<1>1. d \in [1 .. Arity -> BOOLEAN]
  BY DEF Whole
<1>2. \A p, q \in Rows : Precedes(by, order, tie, p, q) <=> Ahead(d, p, q)
  BY PrecedesIsAhead
<1> HIDE DEF d
<1>3. \A p \in Rows : ~Ahead(d, p, p)
  BY <1>0, <1>1, AheadIsStrict
<1>4. Ahead(d, a, b) => ~Ahead(d, b, a)
  BY <1>0, <1>1, AheadIsStrict
<1>5. a # b => Ahead(d, a, b) \/ Ahead(d, b, a)
  BY <1>0, <1>1, AheadIsTotal, SameRows
<1>6. ASSUME NEW c \in Rows, Ahead(d, a, b), Ahead(d, b, c) PROVE Ahead(d, a, c)
  BY <1>0, <1>1, <1>6, AheadIsStrict
<1> QED BY <1>2, <1>3, <1>4, <1>5, <1>6

LEMMA KeyDecides ==
    ASSUME NEW by \in 1 .. Arity, NEW order \in Orders, NEW tie \in Orders,
           NEW a \in Rows, NEW b \in Rows
    PROVE  /\ Ahead(Keyed(by, order = "asc"), a, b) => Precedes(by, order, tie, a, b)
           /\ Precedes(by, order, tie, a, b)
                 => Same(by, a, b) \/ Ahead(Keyed(by, order = "asc"), a, b)
<1> DEFINE d == Whole(by, order = "asc", tie = "asc")
           e == Keyed(by, order = "asc")
<1>0. /\ DOMAIN d = 1 .. Arity /\ DOMAIN e = 1 .. by /\ Arity \in Nat
      /\ \A n \in 1 .. by : n \in 1 .. Arity /\ d[n] = e[n]
  BY RowsNumbered DEF Whole, Keyed
<1>1. Precedes(by, order, tie, a, b) <=> Ahead(d, a, b)
  BY PrecedesIsAhead
<1> HIDE DEF d, e
<1>2. ASSUME Ahead(e, a, b) PROVE Ahead(d, a, b)
  BY <1>0, <1>2 DEF Ahead
<1>3. ASSUME Ahead(d, a, b), ~Same(by, a, b) PROVE Ahead(e, a, b)
  <2>1. PICK n \in 1 .. Arity : /\ \A i \in 1 .. n - 1 : a[i] = b[i]
                                /\ IF d[n] THEN a[n] < b[n] ELSE a[n] > b[n]
    BY <1>0, <1>3 DEF Ahead
  <2>2. n <= by
    BY <1>3, <2>1 DEF Same
  <2> QED BY <1>0, <2>1, <2>2 DEF Ahead
<1>4. e = Keyed(by, order = "asc")
  BY DEF e
<1> QED BY <1>1, <1>2, <1>3, <1>4

\* How many rows of a table come before a row.
Rank(S, by, order, tie, r) == Cardinality({q \in S : Precedes(by, order, tie, q, r)})

LEMMA RankBounds ==
    ASSUME NEW by \in 1 .. Arity, NEW order \in Orders, NEW tie \in Orders,
           NEW S \in SUBSET Rows, NEW r \in S
    PROVE  /\ Rank(S, by, order, tie, r) \in 0 .. Cardinality(S) - 1
           /\ Rank(S, by, order, tie, r) \in Nat
           /\ IsFiniteSet({q \in S : Precedes(by, order, tie, q, r)})
           /\ Cardinality(S) \in Nat /\ IsFiniteSet(S)
<1> DEFINE B == {q \in S : Precedes(by, order, tie, q, r)}
<1>1. IsFiniteSet(S) /\ Cardinality(S) \in Nat
  BY PagesAssumption, FS_Subset, FS_CardinalityType
<1>2. r \in S /\ r \notin B /\ B \in SUBSET S
  BY PrecedesIsTotal
<1>3. Rank(S, by, order, tie, r) = Cardinality(B)
  BY DEF Rank
<1>4. IsFiniteSet(B) = IsFiniteSet({q \in S : Precedes(by, order, tie, q, r)})
  OBVIOUS
<1> HIDE DEF B
<1>5. IsFiniteSet(B) /\ Cardinality(B) <= Cardinality(S) /\ Cardinality(B) # Cardinality(S)
  BY <1>1, <1>2, FS_Subset
<1>6. Cardinality(B) \in Nat
  BY <1>5, FS_CardinalityType
<1> QED BY <1>1, <1>3, <1>4, <1>5, <1>6

LEMMA RankGrows ==
    ASSUME NEW by \in 1 .. Arity, NEW order \in Orders, NEW tie \in Orders,
           NEW S \in SUBSET Rows, NEW p \in S, NEW r \in S
    PROVE  /\ Precedes(by, order, tie, p, r)
                <=> Rank(S, by, order, tie, p) < Rank(S, by, order, tie, r)
           /\ Rank(S, by, order, tie, p) = Rank(S, by, order, tie, r) => p = r
<1> DEFINE rank(x) == Rank(S, by, order, tie, x)
<1>0. \A x \in S : rank(x) \in Nat
  BY RankBounds
<1>1. ASSUME NEW x \in S, NEW y \in S, Precedes(by, order, tie, x, y) PROVE rank(x) < rank(y)
  <2> DEFINE B == {q \in S : Precedes(by, order, tie, q, x)}
             C == {q \in S : Precedes(by, order, tie, q, y)}
  <2>1. B \in SUBSET C
    BY <1>1, PrecedesIsTotal
  <2>2. x \in C /\ x \notin B
    BY <1>1, PrecedesIsTotal
  <2>3. IsFiniteSet(C) /\ rank(x) = Cardinality(B) /\ rank(y) = Cardinality(C)
    BY RankBounds DEF Rank
  <2> HIDE DEF B, C
  <2>4. rank(x) <= rank(y) /\ rank(x) # rank(y)
    BY <2>1, <2>2, <2>3, FS_Subset
  <2>5. rank(x) \in Nat /\ rank(y) \in Nat
    BY <1>0
  <2> HIDE DEF rank
  <2> QED BY <2>4, <2>5
<1>2. p # r => Precedes(by, order, tie, p, r) \/ Precedes(by, order, tie, r, p)
  BY PrecedesIsTotal
<1>3. Precedes(by, order, tie, p, r) => rank(p) < rank(r)
  BY <1>1
<1>4. Precedes(by, order, tie, r, p) => rank(r) < rank(p)
  BY <1>1
<1> HIDE DEF rank
<1>5. rank(p) < rank(r) => p # r
  BY <1>0
<1>6. /\ Precedes(by, order, tie, p, r) <=> rank(p) < rank(r)
      /\ rank(p) = rank(r) => p = r
  BY <1>0, <1>2, <1>3, <1>4, <1>5
<1> QED BY <1>6 DEF rank

\* InOrder lists the rows, each where its rank says.
LEMMA InOrderLists ==
    ASSUME NEW by \in 1 .. Arity, NEW order \in Orders, NEW tie \in Orders,
           NEW S \in SUBSET Rows
    PROVE  /\ Cardinality(S) \in Nat
           /\ InOrder(S, by, order, tie) \in [1 .. Cardinality(S) -> S]
           /\ \A i \in 1 .. Cardinality(S) :
                 Rank(S, by, order, tie, InOrder(S, by, order, tie)[i]) = i - 1
           /\ \A r \in S : /\ Rank(S, by, order, tie, r) + 1 \in 1 .. Cardinality(S)
                           /\ InOrder(S, by, order, tie)[Rank(S, by, order, tie, r) + 1] = r
<1> DEFINE n == Cardinality(S)
           rank == [x \in S |-> Rank(S, by, order, tie, x) + 1]
<1>0. IsFiniteSet(S) /\ n \in Nat
  BY PagesAssumption, FS_Subset, FS_CardinalityType
<1>1. rank \in Injection(S, 1 .. n)
  <2>1. ASSUME NEW x \in S PROVE Rank(S, by, order, tie, x) + 1 \in 1 .. n
    <3>1. Rank(S, by, order, tie, x) \in 0 .. n - 1
      BY RankBounds
    <3> QED BY <1>0, <3>1
  <2>2. ASSUME NEW x \in S, NEW y \in S, rank[x] = rank[y] PROVE x = y
    <3>1. Rank(S, by, order, tie, x) \in Nat /\ Rank(S, by, order, tie, y) \in Nat
      BY RankBounds
    <3>2. Rank(S, by, order, tie, x) = Rank(S, by, order, tie, y)
      BY <2>2, <3>1
    <3> QED BY <3>2, RankGrows
  <2>3. rank \in [S -> 1 .. n]
    BY <2>1
  <2> HIDE DEF rank
  <2> QED BY <2>2, <2>3 DEF Injection, IsInjective
<1>2. rank \in Surjection(S, 1 .. n)
  <2>1. IsFiniteSet(1 .. n) /\ Cardinality(1 .. n) = n
    BY <1>0, FS_Interval
  <2> HIDE DEF rank
  <2> QED BY <1>1, <2>1, FS_Injection
<1>3. \A i \in 1 .. n : \E r \in S : Rank(S, by, order, tie, r) = i - 1
  <2>1. ASSUME NEW i \in 1 .. n PROVE \E r \in S : Rank(S, by, order, tie, r) = i - 1
    <3>1. PICK r \in S : rank[r] = i
      BY <1>2 DEF Surjection
    <3>2. Rank(S, by, order, tie, r) \in Nat
      BY RankBounds
    <3>3. Rank(S, by, order, tie, r) + 1 = i
      BY <3>1
    <3> QED BY <3>2, <3>3
  <2> QED BY <2>1
<1>4. InOrder(S, by, order, tie) =
        [i \in 1 .. n |-> CHOOSE r \in S : Rank(S, by, order, tie, r) = i - 1]
  BY DEF InOrder, Rank
<1>5. ASSUME NEW i \in 1 .. n
      PROVE  /\ InOrder(S, by, order, tie)[i] \in S
             /\ Rank(S, by, order, tie, InOrder(S, by, order, tie)[i]) = i - 1
  BY <1>3, <1>4
<1>6. InOrder(S, by, order, tie) \in [1 .. n -> S]
  BY <1>3, <1>4
<1>7. ASSUME NEW r \in S
      PROVE  /\ Rank(S, by, order, tie, r) + 1 \in 1 .. n
             /\ InOrder(S, by, order, tie)[Rank(S, by, order, tie, r) + 1] = r
  <2>1. Rank(S, by, order, tie, r) \in 0 .. n - 1
    BY RankBounds
  <2>2. Rank(S, by, order, tie, r) + 1 \in 1 .. n /\ Rank(S, by, order, tie, r) \in Nat
    BY <1>0, <2>1
  <2>3. PICK q \in S : /\ q = InOrder(S, by, order, tie)[Rank(S, by, order, tie, r) + 1]
                       /\ Rank(S, by, order, tie, q) = Rank(S, by, order, tie, r) + 1 - 1
    BY <1>5, <2>2
  <2>4. Rank(S, by, order, tie, q) = Rank(S, by, order, tie, r)
    BY <2>2, <2>3
  <2> QED BY <2>2, <2>3, <2>4, RankGrows
<1> QED BY <1>0, <1>5, <1>6, <1>7

LEMMA InOrderSorted ==
    ASSUME NEW by \in 1 .. Arity, NEW order \in Orders, NEW tie \in Orders,
           NEW S \in SUBSET Rows,
           NEW i \in 1 .. Cardinality(S), NEW j \in 1 .. Cardinality(S), i < j
    PROVE  /\ Precedes(by, order, tie, InOrder(S, by, order, tie)[i],
                                       InOrder(S, by, order, tie)[j])
           /\ InOrder(S, by, order, tie)[i] # InOrder(S, by, order, tie)[j]
<1> DEFINE o == InOrder(S, by, order, tie)
<1>1. /\ Cardinality(S) \in Nat /\ o[i] \in S /\ o[j] \in S
      /\ Rank(S, by, order, tie, o[i]) = i - 1 /\ Rank(S, by, order, tie, o[j]) = j - 1
  <2>1. o \in [1 .. Cardinality(S) -> S] /\ Cardinality(S) \in Nat
    BY InOrderLists
  <2>2. Rank(S, by, order, tie, o[i]) = i - 1 /\ Rank(S, by, order, tie, o[j]) = j - 1
    BY InOrderLists
  <2> HIDE DEF o
  <2> QED BY <2>1, <2>2
<1>2. i - 1 < j - 1 /\ i - 1 # j - 1
  BY <1>1
<1> HIDE DEF o
<1>3. Precedes(by, order, tie, o[i], o[j]) /\ o[i] # o[j]
  BY <1>1, <1>2, RankGrows
<1> QED BY <1>3 DEF o

(***************************************************************************)
(* Pages of rows, and the settings a page is asked for with.               *)
(***************************************************************************)
LEMMA PageHolds ==
    ASSUME NEW by \in 1 .. Arity, NEW order \in Orders, NEW tie \in Orders,
           NEW S \in SUBSET Rows, NEW n \in Nat \ {0}, NEW page,
           page = Prefix(InOrder(S, by, order, tie), n)
    PROVE  /\ page \in Seq(S) /\ Len(page) <= n
           /\ \A i, j \in 1 .. Len(page) :
                 i < j => page[i] # page[j] /\ Precedes(by, order, tie, page[i], page[j])
           /\ \A r \in S : \/ \E i \in 1 .. Len(page) : page[i] = r
                           \/ /\ Len(page) = n
                              /\ Precedes(by, order, tie, page[n], r)
<1> DEFINE o == InOrder(S, by, order, tie)
           m == Cardinality(S)
           len == IF n < m THEN n ELSE m
<1>1. m \in Nat /\ o \in [1 .. m -> S]
  BY InOrderLists
<1>2. \A i, j \in 1 .. m : i < j => o[i] # o[j] /\ Precedes(by, order, tie, o[i], o[j])
  BY InOrderSorted
<1>3. \A r \in S : \E i \in 1 .. m : o[i] = r
  BY InOrderLists
<1> HIDE DEF o, m
<1>4. o \in Seq(S) /\ Len(o) = m
  BY <1>1, SeqDef
<1>5. len \in 0 .. m /\ len <= n
  BY <1>1
<1>6. page \in Seq(S) /\ Len(page) = len /\ \A i \in 1 .. len : page[i] = o[i]
  <2>1. CASE n >= m
    <3>1. page = o
      BY <1>4, <2>1 DEF Prefix, o
    <3>2. len = m
      BY <1>1, <2>1
    <3> QED BY <1>4, <3>1, <3>2
  <2>2. CASE ~(n >= m)
    <3>1. page = SubSeq(o, 1, n)
      BY <1>4, <2>2 DEF Prefix, o, NoLimit
    <3>2. n < m /\ len = n /\ n \in 1 .. m
      BY <1>1, <2>2
    <3> QED BY <1>4, <3>1, <3>2, SubSeqProperties
  <2> QED BY <2>1, <2>2
<1>7. ASSUME NEW i \in 1 .. len, NEW j \in 1 .. len, i < j
      PROVE  page[i] # page[j] /\ Precedes(by, order, tie, page[i], page[j])
  <2>1. i \in 1 .. m /\ j \in 1 .. m
    BY <1>1
  <2> QED BY <1>2, <1>6, <1>7, <2>1
<1>8. ASSUME NEW r \in S, ~\E i \in 1 .. len : page[i] = r
      PROVE  len = n /\ Precedes(by, order, tie, page[n], r)
  <2>1. PICK i \in 1 .. m : o[i] = r
    BY <1>3
  <2>2. ~(i \in 1 .. len)
    BY <1>6, <1>8, <2>1
  <2>3. len = n /\ n < i /\ n \in 1 .. m
    BY <1>1, <2>2
  <2>4. n \in 1 .. len /\ Precedes(by, order, tie, o[n], o[i])
    BY <1>2, <2>3
  <2> QED BY <1>6, <2>1, <2>3, <2>4
<1> HIDE DEF len
<1> QED BY <1>5, <1>6, <1>7, <1>8

LEMMA BackwardsLists ==
    ASSUME NEW S, NEW s \in Seq(S)
    PROVE  /\ Backwards(s) \in Seq(S) /\ Len(Backwards(s)) = Len(s)
           /\ \A i \in 1 .. Len(s) : /\ Len(s) + 1 - i \in 1 .. Len(s)
                                     /\ Backwards(s)[i] = s[Len(s) + 1 - i]
<1>1. Len(s) \in Nat /\ DOMAIN s = 1 .. Len(s)
  OBVIOUS
<1>2. \A i \in 1 .. Len(s) : Len(s) + 1 - i \in 1 .. Len(s)
  BY <1>1
<1>3. Backwards(s) = [i \in 1 .. Len(s) |-> s[Len(s) + 1 - i]]
  BY <1>1 DEF Backwards
<1>4. Backwards(s) \in [1 .. Len(s) -> S]
  BY <1>2, <1>3
<1>5. Backwards(s) \in Seq(S) /\ Len(Backwards(s)) = Len(s)
  BY <1>1, <1>4, SeqDef
<1> QED BY <1>2, <1>3, <1>5

Conditions == [op : {"gt", "lt"}, values : Seq(Nat)]

CursorForms ==
    [by : 1 .. Arity, where : SUBSET Conditions, order : Orders, limit : Sizes \cup {NoLimit},
     first : Nat, last : Nat, before : Seq(Nat), after : Seq(Nat),
     asc : BOOLEAN, reversed : BOOLEAN]

LEMMA BeforeSets ==
    ASSUME NEW c \in CursorForms, NEW v \in Seq(Nat)
    PROVE  /\ Before(c, v) \in CursorForms
           /\ Before(c, v).by = c.by
           /\ Before(c, v).where = c.where
           /\ Before(c, v).order = c.order
           /\ Before(c, v).limit = c.limit
           /\ Before(c, v).first = c.first
           /\ Before(c, v).last = c.last
           /\ Before(c, v).before = v
           /\ Before(c, v).after = c.after
           /\ Before(c, v).asc = c.asc
           /\ Before(c, v).reversed = c.reversed
BY DEF Before, CursorForms

LEMMA AfterSets ==
    ASSUME NEW c \in CursorForms, NEW v \in Seq(Nat)
    PROVE  /\ After(c, v) \in CursorForms
           /\ After(c, v).by = c.by
           /\ After(c, v).where = c.where
           /\ After(c, v).order = c.order
           /\ After(c, v).limit = c.limit
           /\ After(c, v).first = c.first
           /\ After(c, v).last = c.last
           /\ After(c, v).before = c.before
           /\ After(c, v).after = v
           /\ After(c, v).asc = c.asc
           /\ After(c, v).reversed = c.reversed
BY DEF After, CursorForms

LEMMA SortedSets ==
    ASSUME NEW c \in CursorForms, NEW up \in BOOLEAN
    PROVE  /\ Sorted(c, up) \in CursorForms
           /\ Sorted(c, up).by = c.by
           /\ Sorted(c, up).where = c.where
           /\ Sorted(c, up).order = c.order
           /\ Sorted(c, up).limit = c.limit
           /\ Sorted(c, up).first = c.first
           /\ Sorted(c, up).last = c.last
           /\ Sorted(c, up).before = c.before
           /\ Sorted(c, up).after = c.after
           /\ Sorted(c, up).asc = up
           /\ Sorted(c, up).reversed = c.reversed
BY DEF Sorted, CursorForms

LEMMA FirstSets ==
    ASSUME NEW c \in CursorForms, NEW n \in Sizes
    PROVE  /\ First(c, n) \in CursorForms
           /\ First(c, n).by = c.by
           /\ First(c, n).where = c.where
           /\ First(c, n).order = c.order
           /\ First(c, n).limit = c.limit
           /\ First(c, n).first = n
           /\ First(c, n).last = NoLimit
           /\ First(c, n).before = c.before
           /\ First(c, n).after = c.after
           /\ First(c, n).asc = c.asc
           /\ First(c, n).reversed = c.reversed
<1>1. n \in Nat /\ NoLimit \in Nat
  BY PagesAssumption DEF NoLimit
<1> QED BY <1>1 DEF First, CursorForms

LEMMA LastSets ==
    ASSUME NEW c \in CursorForms, NEW n \in Sizes
    PROVE  /\ Last(c, n) \in CursorForms
           /\ Last(c, n).by = c.by
           /\ Last(c, n).where = c.where
           /\ Last(c, n).order = c.order
           /\ Last(c, n).limit = c.limit
           /\ Last(c, n).first = NoLimit
           /\ Last(c, n).last = n
           /\ Last(c, n).before = c.before
           /\ Last(c, n).after = c.after
           /\ Last(c, n).asc = c.asc
           /\ Last(c, n).reversed = c.reversed
<1>1. n \in Nat /\ NoLimit \in Nat
  BY PagesAssumption DEF NoLimit
<1> QED BY <1>1 DEF Last, CursorForms

LEMMA LimitSets ==
    ASSUME NEW c \in CursorForms, c.first \in Sizes \cup {NoLimit}, c.last \in Sizes \cup {NoLimit}
    PROVE  /\ ApplyLimit(c) \in CursorForms
           /\ ApplyLimit(c).by = c.by
           /\ ApplyLimit(c).where = c.where
           /\ ApplyLimit(c).order = c.order
           /\ ApplyLimit(c).limit = (IF c.first # NoLimit THEN c.first
                                   ELSE IF c.last # NoLimit THEN c.last ELSE c.limit)
           /\ ApplyLimit(c).first = c.first
           /\ ApplyLimit(c).last = c.last
           /\ ApplyLimit(c).before = c.before
           /\ ApplyLimit(c).after = c.after
           /\ ApplyLimit(c).asc = c.asc
           /\ ApplyLimit(c).reversed = c.reversed
BY DEF ApplyLimit, CursorForms

LEMMA OrderBySets ==
    ASSUME NEW c \in CursorForms
    PROVE  /\ ApplyOrderBy(c) \in CursorForms
           /\ ApplyOrderBy(c).by = c.by
           /\ ApplyOrderBy(c).where = c.where
           /\ ApplyOrderBy(c).order = (IF c.asc = (c.last = NoLimit) THEN "asc" ELSE "desc")
           /\ ApplyOrderBy(c).limit = c.limit
           /\ ApplyOrderBy(c).first = c.first
           /\ ApplyOrderBy(c).last = c.last
           /\ ApplyOrderBy(c).before = c.before
           /\ ApplyOrderBy(c).after = c.after
           /\ ApplyOrderBy(c).asc = c.asc
           /\ ApplyOrderBy(c).reversed = (c.last # NoLimit)
<1> DEFINE e == IF c.asc = (c.last = NoLimit) THEN "asc" ELSE "desc"
           b == c.last # NoLimit
<1>1. e \in Orders /\ b \in BOOLEAN
  BY DEF Orders
<1>2. ApplyOrderBy(c) = [c EXCEPT !.reversed = b, !.order = e]
  BY DEF ApplyOrderBy
<1> HIDE DEF e, b
<1>3. /\ ApplyOrderBy(c) \in CursorForms
      /\ ApplyOrderBy(c).order = e /\ ApplyOrderBy(c).reversed = b
  BY <1>1, <1>2 DEF CursorForms
<1>4. /\ ApplyOrderBy(c).by = c.by /\ ApplyOrderBy(c).where = c.where
      /\ ApplyOrderBy(c).limit = c.limit /\ ApplyOrderBy(c).first = c.first
      /\ ApplyOrderBy(c).last = c.last /\ ApplyOrderBy(c).before = c.before
      /\ ApplyOrderBy(c).after = c.after /\ ApplyOrderBy(c).asc = c.asc
  BY <1>2 DEF CursorForms
<1> QED BY <1>3, <1>4 DEF e, b

LEMMA FiltersSets ==
    ASSUME NEW c \in CursorForms
    PROVE  /\ ApplyFilters(c) \in CursorForms
           /\ ApplyFilters(c).by = c.by
           /\ ApplyFilters(c).where = c.where \cup Bound(c, c.after, c.asc) \cup Bound(c, c.before, ~c.asc)
           /\ ApplyFilters(c).order = c.order
           /\ ApplyFilters(c).limit = c.limit
           /\ ApplyFilters(c).first = c.first
           /\ ApplyFilters(c).last = c.last
           /\ ApplyFilters(c).before = c.before
           /\ ApplyFilters(c).after = c.after
           /\ ApplyFilters(c).asc = c.asc
           /\ ApplyFilters(c).reversed = c.reversed
<1> DEFINE w == c.where \cup Bound(c, c.after, c.asc) \cup Bound(c, c.before, ~c.asc)
<1>1. w \in SUBSET Conditions
  <2>1. c.where \in SUBSET Conditions /\ c.after \in Seq(Nat) /\ c.before \in Seq(Nat)
    BY DEF CursorForms
  <2>2. \A v \in Seq(Nat) : \A up : Bound(c, v, up) \subseteq Conditions
    BY DEF Bound, Conditions
  <2> QED BY <2>1, <2>2
<1>2. ApplyFilters(c) = [c EXCEPT !.where = w]
  BY DEF ApplyFilters
<1> HIDE DEF w
<1>3. ApplyFilters(c) \in CursorForms /\ ApplyFilters(c).where = w
  BY <1>1, <1>2 DEF CursorForms
<1>4. /\ ApplyFilters(c).by = c.by /\ ApplyFilters(c).order = c.order
      /\ ApplyFilters(c).limit = c.limit /\ ApplyFilters(c).first = c.first
      /\ ApplyFilters(c).last = c.last /\ ApplyFilters(c).before = c.before
      /\ ApplyFilters(c).after = c.after /\ ApplyFilters(c).asc = c.asc
      /\ ApplyFilters(c).reversed = c.reversed
  BY <1>2 DEF CursorForms
<1> QED BY <1>3, <1>4 DEF w

(***************************************************************************)
(* The walk.  A cursor walks up its keys or down them, whichever way the   *)
(* program reads; seen from its beginning what it has is Walked.           *)
(***************************************************************************)
Up == way.asc = (way.side = "after")
Walked == IF way.side = "after" THEN got ELSE Backwards(got)

Inside(r) == way.upTo = NoValues \/ Ahead(Keyed(way.by, Up), r, way.upTo)
Beyond(r) == \* r is still to come
    \/ got = <<>>
    \/ Ahead(Keyed(way.by, Up), Walked[Len(Walked)], r)
ToCome == {r \in table : Inside(r) /\ Beyond(r)}

From(up, r) == [op |-> IF up THEN "gt" ELSE "lt", values |-> Key(r, way.by)]
UpToBound == IF way.upTo = NoValues THEN {} ELSE {From(~Up, way.upTo)}

LEMMA KeyIs ==
    ASSUME NEW k \in 1 .. Arity, NEW r \in Rows
    PROVE  /\ Key(r, k) \in Seq(Nat) /\ DOMAIN Key(r, k) = 1 .. k /\ Key(r, k) # NoValues
           /\ \A i \in 1 .. k : Key(r, k)[i] = r[i] /\ r[i] \in Nat
           /\ k \in Nat \ {0}
<1>1. r \in Seq(Nat) /\ Len(r) = Arity /\ k \in Nat /\ Arity \in Nat /\ 1 <= k /\ k <= Arity
  BY RowsNumbered
<1>2. Key(r, k) \in Seq(Nat) /\ Len(Key(r, k)) = k /\ \A i \in 1 .. k : Key(r, k)[i] = r[i]
  BY <1>1, SubSeqProperties DEF Key
<1>3. \A i \in 1 .. k : r[i] \in Nat
  BY <1>1, RowsNumbered
<1> QED BY <1>1, <1>2, <1>3 DEF NoValues

LEMMA SameKeys ==
    ASSUME NEW k \in 1 .. Arity, NEW r \in Rows, NEW q \in Rows
    PROVE  Key(r, k) = Key(q, k) <=> Same(k, r, q)
<1>1. /\ Key(r, k) \in Seq(Nat) /\ DOMAIN Key(r, k) = 1 .. k
      /\ Key(q, k) \in Seq(Nat) /\ DOMAIN Key(q, k) = 1 .. k
      /\ \A i \in 1 .. k : Key(r, k)[i] = r[i] /\ Key(q, k)[i] = q[i]
  BY KeyIs
<1>2. k \in Nat
  BY KeyIs
<1>3. ASSUME Same(k, r, q) PROVE Key(r, k) = Key(q, k)
  <2>1. Len(Key(r, k)) = k /\ Len(Key(q, k)) = k
    BY <1>1, <1>2, LenProperties
  <2>2. \A i \in 1 .. Len(Key(r, k)) : Key(r, k)[i] = Key(q, k)[i]
    BY <1>1, <1>3, <2>1 DEF Same
  <2> QED BY <1>1, <2>1, <2>2, SeqEqual
<1>4. ASSUME Key(r, k) = Key(q, k) PROVE Same(k, r, q)
  BY <1>1, <1>4 DEF Same
<1> QED BY <1>3, <1>4

\* A condition of the cursor holds of the rows past the key it was made of.
LEMMA MeetsIsAhead ==
    ASSUME NEW k \in 1 .. Arity, way.by = k, NEW r \in Rows, NEW q \in Rows, NEW up \in BOOLEAN
    PROVE  Meets(q, From(up, r)) <=> Ahead(Keyed(k, up), r, q)
<1> DEFINE c == From(up, r)
<1>1. c.op = (IF up THEN "gt" ELSE "lt") /\ c.values = Key(r, k)
  BY DEF From
<1>2. DOMAIN c.values = 1 .. k /\ \A i \in 1 .. k : c.values[i] = r[i]
  BY <1>1, KeyIs
<1>3. \A i \in 1 .. k : r[i] \in Nat /\ q[i] \in Nat
  BY KeyIs
<1> HIDE DEF c
<1>4. \A n \in 1 .. k : \A i \in 1 .. n - 1 : i \in 1 .. k
  BY KeyIs
<1>5. ASSUME NEW n \in 1 .. k
      PROVE  /\ Keyed(k, up)[n] = up
             /\ Compare(c.op, q[n], c.values[n]) <=> IF up THEN r[n] < q[n] ELSE r[n] > q[n]
  <2>1. c.values[n] = r[n] /\ r[n] \in Nat /\ q[n] \in Nat
    BY <1>2, <1>3
  <2> QED BY <1>1, <2>1 DEF Compare, Keyed
<1>6. DOMAIN Keyed(k, up) = 1 .. k
  BY DEF Keyed
<1>7. Meets(q, c) <=> Ahead(Keyed(k, up), r, q)
  <2>1. Meets(q, c) <=> \E n \in 1 .. k : /\ \A i \in 1 .. n - 1 : q[i] = r[i]
                                          /\ IF up THEN r[n] < q[n] ELSE r[n] > q[n]
    BY <1>2, <1>4, <1>5 DEF Meets
  <2>2. Ahead(Keyed(k, up), r, q)
          <=> \E n \in 1 .. k : /\ \A i \in 1 .. n - 1 : r[i] = q[i]
                                /\ IF up THEN r[n] < q[n] ELSE r[n] > q[n]
    BY <1>5, <1>6 DEF Ahead
  <2> QED BY <2>1, <2>2
<1> QED BY <1>7 DEF c

LEMMA KeyedFlips ==
    ASSUME NEW k \in 1 .. Arity, NEW r \in Rows, NEW q \in Rows, NEW up \in BOOLEAN
    PROVE  Ahead(Keyed(k, up), r, q) <=> Ahead(Keyed(k, ~up), q, r)
<1>1. \A i \in 1 .. k : r[i] \in Nat /\ q[i] \in Nat
  BY KeyIs
<1>2. /\ Keyed(k, up) \in [1 .. k -> BOOLEAN] /\ Keyed(k, ~up) \in [1 .. k -> BOOLEAN]
      /\ \A i \in 1 .. k : Keyed(k, ~up)[i] = ~Keyed(k, up)[i]
  BY DEF Keyed
<1>3. k \in Nat
  BY KeyIs
<1> QED BY <1>1, <1>2, <1>3, AheadReversed

\* The order the program asked for.
LEMMA ComesFirstIsAhead ==
    ASSUME NEW k \in 1 .. Arity, way.by = k, NEW a \in Rows, NEW b \in Rows, way.asc \in BOOLEAN,
           Key(a, k) # Key(b, k)
    PROVE  ComesFirst(a, b) <=> Ahead(Keyed(k, way.asc), a, b)
<1> DEFINE T == {i \in 1 .. k : a[i] # b[i]}
<1>1. T \in SUBSET Nat /\ T # {}
  <2>1. ~Same(k, a, b) /\ k \in Nat
    BY SameKeys, KeyIs
  <2> QED BY <2>1 DEF Same
<1>2. PICK n \in T : \A j \in T : n <= j
  BY <1>1, LeastElement
<1>3. /\ n \in 1 .. k /\ a[n] # b[n] /\ \A j \in 1 .. n - 1 : a[j] = b[j]
      /\ k \in Nat
  BY <1>2, KeyIs
<1>4. \A m \in 1 .. k : a[m] # b[m] /\ (\A j \in 1 .. m - 1 : a[j] = b[j]) => m = n
  BY <1>3
<1>5. n = CHOOSE i \in 1 .. way.by : a[i] # b[i] /\ \A j \in 1 .. i - 1 : a[j] = b[j]
  BY <1>3, <1>4
<1>6. ComesFirst(a, b) <=> IF way.asc THEN a[n] < b[n] ELSE a[n] > b[n]
  BY <1>5 DEF ComesFirst
<1>7. DOMAIN Keyed(k, way.asc) = 1 .. k /\ \A m \in 1 .. k : Keyed(k, way.asc)[m] = way.asc
  BY DEF Keyed
<1>8. \A m \in 1 .. k : a[m] \in Nat /\ b[m] \in Nat
  BY KeyIs
<1>9. ASSUME Ahead(Keyed(k, way.asc), a, b)
      PROVE  IF way.asc THEN a[n] < b[n] ELSE a[n] > b[n]
  <2>1. PICK m \in 1 .. k : /\ \A j \in 1 .. m - 1 : a[j] = b[j]
                            /\ IF way.asc THEN a[m] < b[m] ELSE a[m] > b[m]
    BY <1>7, <1>9 DEF Ahead
  <2>2. a[m] # b[m]
    BY <1>8, <2>1
  <2>3. m = n
    BY <1>4, <2>1, <2>2
  <2> QED BY <2>1, <2>3
<1>10. ASSUME IF way.asc THEN a[n] < b[n] ELSE a[n] > b[n]
       PROVE  Ahead(Keyed(k, way.asc), a, b)
  BY <1>3, <1>7, <1>10 DEF Ahead
<1> QED BY <1>6, <1>9, <1>10

LEMMA WithinIsInside ==
    ASSUME way \in CursorWays, NEW r \in Rows
    PROVE  Within(r) <=> Inside(r)
<1>1. /\ way.by \in 1 .. Arity /\ way.asc \in BOOLEAN /\ way.side \in {"after", "before"}
      /\ way.upTo = NoValues \/ way.upTo \in Rows
  BY PagesAssumption DEF CursorWays
<1> SUFFICES ASSUME way.upTo # NoValues PROVE Within(r) <=> Inside(r)
  BY DEF Within, Inside
<1> DEFINE k == way.by
           u == way.upTo
<1>2. u \in Rows /\ k \in 1 .. Arity
  BY <1>1
<1>3. \A i \in 1 .. k : r[i] \in Nat /\ u[i] \in Nat
  BY <1>2, KeyIs
<1>4. k \in Nat /\ \A up \in BOOLEAN : Keyed(k, up) \in [1 .. k -> BOOLEAN]
  BY <1>2, KeyIs DEF Keyed
<1>5. \A up \in BOOLEAN : Ahead(Keyed(k, up), r, u) => Key(r, k) # Key(u, k)
  <2>1. ASSUME NEW up \in BOOLEAN, Ahead(Keyed(k, up), r, u) PROVE ~Same(k, r, u)
    <3> DEFINE d == Keyed(k, up)
    <3>1. d \in [1 .. k -> BOOLEAN] /\ Ahead(d, r, u) /\ k \in Nat
      BY <1>4, <2>1
    <3> HIDE DEF d, k, u
    <3> QED BY <1>3, <3>1, AheadIsStrict
  <2> QED BY <1>2, <2>1, SameKeys
<1>6. CASE way.side = "after"
  <2>1. Up = way.asc
    BY <1>1, <1>6 DEF Up
  <2>2. Key(r, k) # Key(u, k) => (ComesFirst(r, u) <=> Ahead(Keyed(k, way.asc), r, u))
    BY <1>1, <1>2, ComesFirstIsAhead
  <2> QED BY <1>1, <1>5, <1>6, <2>1, <2>2 DEF Within, Inside
<1>7. CASE way.side = "before"
  <2>1. Up = ~way.asc
    BY <1>1, <1>7 DEF Up
  <2>2. Key(r, k) # Key(u, k) => (ComesFirst(u, r) <=> Ahead(Keyed(k, way.asc), u, r))
    BY <1>1, <1>2, ComesFirstIsAhead
  <2>3. Ahead(Keyed(k, way.asc), u, r) <=> Ahead(Keyed(k, ~way.asc), r, u)
    BY <1>1, <1>2, KeyedFlips
  <2>4. (~way.asc) \in BOOLEAN
    OBVIOUS
  <2>5. Ahead(Keyed(k, ~way.asc), r, u) => Key(r, k) # Key(u, k)
    BY <1>5, <2>4
  <2>6. Within(r) <=> Key(r, k) # Key(u, k) /\ ComesFirst(u, r)
    BY <1>7 DEF Within
  <2>7. Inside(r) <=> Ahead(Keyed(k, ~way.asc), r, u)
    BY <2>1 DEF Inside
  <2> QED BY <2>2, <2>3, <2>5, <2>6, <2>7
<1> QED BY <1>1, <1>6, <1>7

Newest == Walked[Len(Walked)]
ToNewest == IF got = <<>> THEN {} ELSE {From(Up, Newest)}
Start == Sorted(IF way.kept THEN cursor ELSE NewCursor(way.by), way.asc)

LEMMA NewCursorSets ==
    ASSUME NEW k \in 1 .. Arity
    PROVE  /\ NewCursor(k) \in CursorForms /\ NewCursor(k).by = k /\ NewCursor(k).where = {}
           /\ NewCursor(k).limit = NoLimit
BY DEF NewCursor, CursorForms, Orders, NoLimit, NoValues

LEMMA NewestIs ==
    ASSUME way \in CursorWays, got \in Seq(Rows)
    PROVE  /\ Walked \in Seq(Rows) /\ Len(Walked) = Len(got)
           /\ got # <<>> => /\ Newest \in Rows
                            /\ Newest = IF way.side = "after" THEN got[Len(got)] ELSE got[1]
<1>1. way.side \in {"after", "before"}
  BY DEF CursorWays
<1>2. Len(got) \in Nat /\ (got # <<>> => Len(got) # 0)
  BY EmptySeq
<1>3. CASE way.side = "after"
  BY <1>2, <1>3 DEF Walked, Newest
<1>4. CASE way.side = "before"
  <2>1. Walked = Backwards(got)
    BY <1>4 DEF Walked
  <2>2. /\ Walked \in Seq(Rows) /\ Len(Walked) = Len(got)
        /\ \A i \in 1 .. Len(got) : Walked[i] = got[Len(got) + 1 - i]
    BY <2>1, BackwardsLists
  <2>3. ASSUME got # <<>> PROVE Newest \in Rows /\ Newest = got[1]
    <3>1. Len(got) \in 1 .. Len(got) /\ Len(got) + 1 - Len(got) = 1
      BY <1>2, <2>3
    <3>2. Walked[Len(got)] = got[1]
      BY <2>2, <3>1
    <3>3. Newest = got[1]
      BY <2>2, <3>2 DEF Newest
    <3>4. got[1] \in Rows
      BY <1>2, <2>3
    <3> QED BY <3>3, <3>4
  <2> QED BY <1>4, <2>2, <2>3
<1> QED BY <1>1, <1>3, <1>4

LEMMA StartSets ==
    ASSUME way \in CursorWays, cursor \in CursorForms, cursor.by = way.by
    PROVE  /\ Start \in CursorForms /\ Start.by = way.by /\ Start.asc = way.asc
           /\ Start.where = IF way.kept THEN cursor.where ELSE {}
<1> DEFINE c == IF way.kept THEN cursor ELSE NewCursor(way.by)
<1>1. way.by \in 1 .. Arity /\ way.asc \in BOOLEAN /\ way.kept \in BOOLEAN
  BY DEF CursorWays
<1>2. /\ c \in CursorForms /\ c.by = way.by
      /\ c.where = IF way.kept THEN cursor.where ELSE {}
  BY <1>1, NewCursorSets
<1>3. Start = Sorted(c, way.asc)
  BY DEF Start
<1> HIDE DEF c
<1> QED BY <1>1, <1>2, <1>3, SortedSets

\* What the cursor asks the server for its next page.
LEMMA Settings ==
    ASSUME way \in CursorWays, cursor \in CursorForms, cursor.by = way.by, got \in Seq(Rows),
           NEW n \in Sizes, NEW c, c = Applied(Prepared(n))
    PROVE  /\ c \in CursorForms /\ c.by = way.by /\ c.limit = n
           /\ c.order = IF Up THEN "asc" ELSE "desc"
           /\ c.reversed = (way.side = "before")
           /\ c.where = Start.where \cup UpToBound \cup ToNewest
<1> DEFINE bound == IF way.upTo = NoValues THEN NoValues ELSE Key(way.upTo, way.by)
           next == IF got = <<>> THEN NoValues ELSE Key(Newest, way.by)
<1>0. /\ way.by \in 1 .. Arity /\ way.asc \in BOOLEAN /\ way.side \in {"after", "before"}
      /\ way.upTo = NoValues \/ way.upTo \in Rows
  BY PagesAssumption DEF CursorWays
<1>1. bound \in Seq(Nat) /\ next \in Seq(Nat)
  <2>1. NoValues \in Seq(Nat)
    BY DEF NoValues
  <2> QED BY <1>0, <2>1, KeyIs, NewestIs
<1>2. /\ way.upTo = NoValues => bound = NoValues
      /\ way.upTo # NoValues => bound # NoValues /\ bound = Key(way.upTo, way.by)
      /\ got = <<>> => next = NoValues
      /\ got # <<>> => next # NoValues /\ next = Key(Newest, way.by)
  BY <1>0, KeyIs, NewestIs
<1>3. n \in Nat /\ n # NoLimit
  BY PagesAssumption DEF NoLimit
<1>4. CASE way.side = "after"
  <2> DEFINE c2 == Before(Start, bound)
             c3 == After(c2, next)
             c4 == First(c3, n)
             c5 == ApplyLimit(c4)
             c6 == ApplyOrderBy(c5)
  <2>1. Prepared(n) = c4
    <3>1. next = IF got = <<>> THEN NoValues ELSE Key(got[Len(got)], way.by)
      BY <1>4, NewestIs
    <3> QED BY <1>4, <3>1 DEF Prepared, Start
  <2>2. c = ApplyFilters(c6)
    BY <2>1 DEF Applied
  <2> HIDE DEF bound, next
  <2>3. c2 \in CursorForms /\ c2.by = way.by /\ c2.where = Start.where /\ c2.asc = way.asc
        /\ c2.before = bound
    BY <1>1, StartSets, BeforeSets
  <2> HIDE DEF c2
  <2>4. c3 \in CursorForms /\ c3.by = way.by /\ c3.where = Start.where /\ c3.asc = way.asc
        /\ c3.before = bound /\ c3.after = next
    BY <1>1, <2>3, AfterSets
  <2> HIDE DEF c3
  <2>5. c4 \in CursorForms /\ c4.by = way.by /\ c4.where = Start.where /\ c4.asc = way.asc
        /\ c4.before = bound /\ c4.after = next /\ c4.first = n /\ c4.last = NoLimit
    BY <2>4, FirstSets
  <2> HIDE DEF c4
  <2>6. c5 \in CursorForms /\ c5.by = way.by /\ c5.where = Start.where /\ c5.asc = way.asc
        /\ c5.before = bound /\ c5.after = next /\ c5.limit = n /\ c5.last = NoLimit
    BY <1>3, <2>5, LimitSets
  <2> HIDE DEF c5
  <2>7. c6 \in CursorForms /\ c6.by = way.by /\ c6.where = Start.where /\ c6.asc = way.asc
        /\ c6.before = bound /\ c6.after = next /\ c6.limit = n /\ c6.reversed = FALSE
        /\ c6.order = IF way.asc THEN "asc" ELSE "desc"
    BY <1>0, <2>6, OrderBySets
  <2> HIDE DEF c6
  <2>8. c \in CursorForms /\ c.by = way.by /\ c.limit = n /\ c.reversed = FALSE
        /\ c.order = (IF way.asc THEN "asc" ELSE "desc")
        /\ c.where = Start.where \cup Bound(c6, next, way.asc) \cup Bound(c6, bound, ~way.asc)
    BY <2>2, <2>7, FiltersSets
  <2>9. Up = way.asc /\ (~way.asc) \in BOOLEAN
    BY <1>0, <1>4 DEF Up
  <2>10. Bound(c6, next, way.asc) = ToNewest /\ Bound(c6, bound, ~way.asc) = UpToBound
    BY <1>2, <2>9 DEF ToNewest, UpToBound, Bound, From
  <2> QED BY <1>4, <2>8, <2>9, <2>10
<1>5. CASE way.side = "before"
  <2> DEFINE c2 == After(Start, bound)
             c3 == Before(c2, next)
             c4 == Last(c3, n)
             c5 == ApplyLimit(c4)
             c6 == ApplyOrderBy(c5)
  <2>1. Prepared(n) = c4
    <3>1. next = IF got = <<>> THEN NoValues ELSE Key(got[1], way.by)
      BY <1>5, NewestIs
    <3> QED BY <1>5, <3>1 DEF Prepared, Start
  <2>2. c = ApplyFilters(c6)
    BY <2>1 DEF Applied
  <2> HIDE DEF bound, next
  <2>3. c2 \in CursorForms /\ c2.by = way.by /\ c2.where = Start.where /\ c2.asc = way.asc
        /\ c2.after = bound
    BY <1>1, StartSets, AfterSets
  <2> HIDE DEF c2
  <2>4. c3 \in CursorForms /\ c3.by = way.by /\ c3.where = Start.where /\ c3.asc = way.asc
        /\ c3.before = next /\ c3.after = bound
    BY <1>1, <2>3, BeforeSets
  <2> HIDE DEF c3
  <2>5. c4 \in CursorForms /\ c4.by = way.by /\ c4.where = Start.where /\ c4.asc = way.asc
        /\ c4.before = next /\ c4.after = bound /\ c4.first = NoLimit /\ c4.last = n
    BY <2>4, LastSets
  <2> HIDE DEF c4
  <2>6. c5 \in CursorForms /\ c5.by = way.by /\ c5.where = Start.where /\ c5.asc = way.asc
        /\ c5.before = next /\ c5.after = bound /\ c5.limit = n /\ c5.last = n
    BY <1>3, <2>5, LimitSets
  <2> HIDE DEF c5
  <2>7. c6 \in CursorForms /\ c6.by = way.by /\ c6.where = Start.where /\ c6.asc = way.asc
        /\ c6.before = next /\ c6.after = bound /\ c6.limit = n /\ c6.reversed = TRUE
        /\ c6.order = IF ~way.asc THEN "asc" ELSE "desc"
    BY <1>0, <1>3, <2>6, OrderBySets
  <2> HIDE DEF c6
  <2>8. c \in CursorForms /\ c.by = way.by /\ c.limit = n /\ c.reversed = TRUE
        /\ c.order = (IF ~way.asc THEN "asc" ELSE "desc")
        /\ c.where = Start.where \cup Bound(c6, bound, way.asc) \cup Bound(c6, next, ~way.asc)
    BY <2>2, <2>7, FiltersSets
  <2>9. Up = ~way.asc /\ (~way.asc) \in BOOLEAN
    BY <1>0, <1>5 DEF Up
  <2>10. Bound(c6, next, ~way.asc) = ToNewest /\ Bound(c6, bound, way.asc) = UpToBound
    BY <1>0, <1>2, <2>9 DEF ToNewest, UpToBound, Bound, From
  <2> QED BY <1>5, <2>8, <2>9, <2>10
<1> QED BY <1>0, <1>4, <1>5

(***************************************************************************)
(* What holds of a walk between its pages: what is in the cursor's WHERE   *)
(* are keys it has passed, so the next page holds what is past the last.   *)
(***************************************************************************)
TypeInv ==
    /\ table \subseteq Rows /\ stayed \subseteq table /\ done \in BOOLEAN
    /\ inserts \in Nat /\ deletes \in Nat /\ inserts + deletes <= MaxWrites
    /\ got \in Seq(Rows)
    /\ way \in CursorWays \cup PageWays
    /\ cursor \in CursorForms /\ (ByCursor => cursor.by = way.by)
    /\ pages \in [page : Nat, page_size : Sizes]

WhereInv ==
    ByCursor => \A cond \in cursor.where :
                    cond \in UpToBound \/ \E i \in 1 .. Len(Walked) : cond = From(Up, Walked[i])

SortedInv ==
    ByCursor => \A i, j \in 1 .. Len(Walked) :
                    i < j => /\ Walked[i] # Walked[j]
                             /\ \/ Same(way.by, Walked[i], Walked[j])
                                \/ Ahead(Keyed(way.by, Up), Walked[i], Walked[j])

InsideInv == ByCursor => \A i \in 1 .. Len(Walked) : Inside(Walked[i])

\* A row that stayed is in what the program has, up to its key, or to come.
LeftInv ==
    ByCursor => \A r \in stayed :
                    Inside(r) => \/ \E i \in 1 .. Len(Walked) : Same(way.by, Walked[i], r)
                                 \/ ~done /\ Beyond(r)

CursorInv == TypeInv /\ WhereInv /\ SortedInv /\ InsideInv /\ LeftInv

LEMMA WaysApart ==
    /\ \A w \in CursorWays : /\ "by" \in DOMAIN w /\ w.by \in 1 .. Arity /\ w.asc \in BOOLEAN
                             /\ w.side \in {"after", "before"} /\ w.kept \in BOOLEAN
                             /\ w.upTo = NoValues \/ w.upTo \in Rows
    /\ \A w \in PageWays : "by" \notin DOMAIN w /\ w.from \in 0 .. 1
BY PagesAssumption DEF CursorWays, PageWays

LEMMA WaysOfCursor ==
    ASSUME TypeInv, ByCursor
    PROVE  way \in CursorWays
BY WaysApart DEF TypeInv, ByCursor

LEMMA KeyedOrders ==
    ASSUME NEW k \in 1 .. Arity, NEW up \in BOOLEAN, NEW a \in Rows, NEW b \in Rows, NEW c \in Rows
    PROVE  /\ Ahead(Keyed(k, up), a, b) => ~Same(k, a, b)
           /\ (Same(k, a, b) \/ Ahead(Keyed(k, up), a, b)) /\ Ahead(Keyed(k, up), b, c)
                 => Ahead(Keyed(k, up), a, c)
<1> DEFINE d == Keyed(k, up)
<1>1. d \in [1 .. k -> BOOLEAN] /\ k \in Nat
  BY KeyIs DEF Keyed
<1>2. \A i \in 1 .. k : a[i] \in Nat /\ b[i] \in Nat /\ c[i] \in Nat
  BY KeyIs
<1> HIDE DEF d
<1>3. /\ Ahead(d, a, b) => ~Same(k, a, b)
      /\ Ahead(d, a, b) /\ Ahead(d, b, c) => Ahead(d, a, c)
      /\ Same(k, a, b) /\ Ahead(d, b, c) => Ahead(d, a, c)
  BY <1>1, <1>2, AheadIsStrict
<1> QED BY <1>3 DEF d

\* The newest row is the furthest.
LEMMA NewestIsFurthest ==
    ASSUME CursorInv, ByCursor, NEW i \in 1 .. Len(Walked), NEW r \in Rows, Beyond(r)
    PROVE  Ahead(Keyed(way.by, Up), Walked[i], r) /\ got # <<>>
<1>1. way \in CursorWays /\ got \in Seq(Rows)
  BY WaysOfCursor DEF CursorInv, TypeInv
<1>2. /\ Walked \in Seq(Rows) /\ Len(Walked) = Len(got) /\ Len(got) \in Nat
      /\ way.by \in 1 .. Arity /\ Up \in BOOLEAN
  BY <1>1, NewestIs, WaysApart DEF Up
<1>3. got # <<>>
  BY <1>2
<1>4. Ahead(Keyed(way.by, Up), Walked[Len(Walked)], r)
  BY <1>3 DEF Beyond
<1>5. CASE i = Len(Walked)
  BY <1>3, <1>4, <1>5
<1>6. CASE i # Len(Walked)
  <2>1. i < Len(Walked) /\ Len(Walked) \in 1 .. Len(Walked)
    BY <1>2, <1>6
  <2>2. \/ Same(way.by, Walked[i], Walked[Len(Walked)])
        \/ Ahead(Keyed(way.by, Up), Walked[i], Walked[Len(Walked)])
    BY <2>1 DEF CursorInv, SortedInv
  <2>3. Walked[i] \in Rows /\ Walked[Len(Walked)] \in Rows
    BY <1>2, <2>1
  <2> QED BY <1>2, <1>3, <1>4, <2>2, <2>3, KeyedOrders
<1> QED BY <1>5, <1>6

LEMMA Selected ==
    ASSUME CursorInv, ByCursor, NEW r \in Rows
    PROVE  (\A cond \in Start.where \cup UpToBound \cup ToNewest : Meets(r, cond))
              <=> Inside(r) /\ Beyond(r)
<1>1. way \in CursorWays /\ got \in Seq(Rows) /\ cursor \in CursorForms /\ cursor.by = way.by
  BY WaysOfCursor DEF CursorInv, TypeInv
<1>2. /\ way.by \in 1 .. Arity /\ Up \in BOOLEAN /\ (~Up) \in BOOLEAN
      /\ way.upTo = NoValues \/ way.upTo \in Rows
  BY <1>1, WaysApart DEF Up
<1>3. Walked \in Seq(Rows) /\ Len(Walked) = Len(got) /\ (got # <<>> => Newest \in Rows)
  BY <1>1, NewestIs
<1>4. (\A cond \in UpToBound : Meets(r, cond)) <=> Inside(r)
  <2>1. CASE way.upTo = NoValues
    BY <2>1 DEF UpToBound, Inside
  <2>2. CASE way.upTo # NoValues
    <3>1. Meets(r, From(~Up, way.upTo)) <=> Ahead(Keyed(way.by, ~Up), way.upTo, r)
      BY <1>2, <2>2, MeetsIsAhead
    <3>2. Ahead(Keyed(way.by, Up), r, way.upTo) <=> Ahead(Keyed(way.by, ~Up), way.upTo, r)
      BY <1>2, <2>2, KeyedFlips
    <3> QED BY <2>2, <3>1, <3>2 DEF UpToBound, Inside
  <2> QED BY <2>1, <2>2
<1>5. (\A cond \in ToNewest : Meets(r, cond)) <=> Beyond(r)
  <2>1. CASE got = <<>>
    BY <2>1 DEF ToNewest, Beyond
  <2>2. CASE got # <<>>
    <3>1. Meets(r, From(Up, Newest)) <=> Ahead(Keyed(way.by, Up), Newest, r)
      BY <1>2, <1>3, <2>2, MeetsIsAhead
    <3> QED BY <2>2, <3>1 DEF ToNewest, Beyond, Newest
  <2> QED BY <2>1, <2>2
<1>6. ASSUME Inside(r), Beyond(r), NEW cond \in Start.where PROVE Meets(r, cond)
  <2>1. cond \in cursor.where
    BY <1>1, <1>6, StartSets
  <2>2. CASE cond \in UpToBound
    BY <1>4, <1>6, <2>2
  <2>3. ASSUME NEW i \in 1 .. Len(Walked), cond = From(Up, Walked[i]) PROVE Meets(r, cond)
    <3>1. Walked[i] \in Rows
      BY <1>3
    <3>2. Ahead(Keyed(way.by, Up), Walked[i], r)
      BY <1>6, NewestIsFurthest
    <3> QED BY <1>2, <2>3, <3>1, <3>2, MeetsIsAhead
  <2> QED BY <2>1, <2>2, <2>3 DEF CursorInv, WhereInv
<1> QED BY <1>4, <1>5, <1>6

Served(n, tie) ==
    Prefix(InOrder(ToCome, way.by, IF Up THEN "asc" ELSE "desc", tie), n)

LEMMA ServedHolds ==
    ASSUME CursorInv, ByCursor, NEW n \in Sizes, NEW tie \in Orders, NEW page,
           page = Served(n, tie)
    PROVE  /\ page \in Seq(ToCome) /\ page \in Seq(Rows) /\ Len(page) <= n
           /\ \A i, j \in 1 .. Len(page) :
                 i < j => /\ page[i] # page[j]
                          /\ \/ Same(way.by, page[i], page[j])
                             \/ Ahead(Keyed(way.by, Up), page[i], page[j])
           /\ \A r \in ToCome : \/ \E i \in 1 .. Len(page) : page[i] = r
                                \/ /\ Len(page) = n
                                   /\ \/ Same(way.by, page[n], r)
                                      \/ Ahead(Keyed(way.by, Up), page[n], r)
<1> DEFINE order == IF Up THEN "asc" ELSE "desc"
<1>1. /\ ToCome \in SUBSET Rows /\ n \in Nat \ {0} /\ way.by \in 1 .. Arity
      /\ Up \in BOOLEAN /\ order \in Orders /\ (order = "asc") = Up
  BY PagesAssumption, WaysOfCursor, WaysApart DEF CursorInv, TypeInv, ToCome, Up, Orders
<1>2. page = Prefix(InOrder(ToCome, way.by, order, tie), n)
  BY DEF Served
<1> HIDE DEF order
<1>3. /\ page \in Seq(ToCome) /\ Len(page) <= n
      /\ \A i, j \in 1 .. Len(page) :
            i < j => page[i] # page[j] /\ Precedes(way.by, order, tie, page[i], page[j])
      /\ \A r \in ToCome : \/ \E i \in 1 .. Len(page) : page[i] = r
                           \/ /\ Len(page) = n
                              /\ Precedes(way.by, order, tie, page[n], r)
  BY <1>1, <1>2, PageHolds
<1>4. ASSUME NEW a \in ToCome, NEW b \in ToCome, Precedes(way.by, order, tie, a, b)
      PROVE  Same(way.by, a, b) \/ Ahead(Keyed(way.by, Up), a, b)
  <2>1. Same(way.by, a, b) \/ Ahead(Keyed(way.by, order = "asc"), a, b)
    BY <1>1, <1>4, KeyDecides
  <2> QED BY <1>1, <2>1
<1>5. \A i \in 1 .. Len(page) : page[i] \in ToCome
  BY <1>3
<1>6. page \in Seq(Rows)
  BY <1>1, <1>3
<1>7. ASSUME NEW r \in ToCome, ~\E i \in 1 .. Len(page) : page[i] = r
      PROVE  /\ Len(page) = n
             /\ Same(way.by, page[n], r) \/ Ahead(Keyed(way.by, Up), page[n], r)
  <2>1. Len(page) = n /\ Precedes(way.by, order, tie, page[n], r)
    BY <1>3, <1>7
  <2>2. n \in 1 .. Len(page)
    BY <1>1, <2>1
  <2> QED BY <1>4, <1>5, <2>1, <2>2
<1>8. ASSUME NEW i \in 1 .. Len(page), NEW j \in 1 .. Len(page), i < j
      PROVE  /\ page[i] # page[j]
             /\ Same(way.by, page[i], page[j]) \/ Ahead(Keyed(way.by, Up), page[i], page[j])
  BY <1>3, <1>4, <1>5, <1>8
<1> QED BY <1>3, <1>6, <1>7, <1>8

LEMMA Fetched ==
    ASSUME CursorInv, ByCursor, NEW n \in Sizes, NEW tie \in Orders
    PROVE  Result(Applied(Prepared(n)), table, tie)
             = IF way.side = "before" THEN Backwards(Served(n, tie)) ELSE Served(n, tie)
<1>1. way \in CursorWays /\ got \in Seq(Rows) /\ cursor \in CursorForms /\ cursor.by = way.by
  BY WaysOfCursor DEF CursorInv, TypeInv
<1>2. PICK c : c = Applied(Prepared(n))
  OBVIOUS
<1>3. /\ c.by = way.by /\ c.limit = n /\ c.order = IF Up THEN "asc" ELSE "desc"
      /\ c.reversed = (way.side = "before")
      /\ c.where = Start.where \cup UpToBound \cup ToNewest
  BY <1>1, <1>2, Settings
<1>4. {r \in table : \A cond \in c.where : Meets(r, cond)} = ToCome
  <2>1. table \subseteq Rows
    BY DEF CursorInv, TypeInv
  <2> QED BY <1>3, <2>1, Selected DEF ToCome
<1>5. Prefix(InOrder(ToCome, c.by, c.order, tie), c.limit) = Served(n, tie)
  BY <1>3 DEF Served
<1> QED BY <1>2, <1>3, <1>4, <1>5 DEF Result

\* A page of the cursor lengthens the walk at its end.
LEMMA JoinedBackwards ==
    ASSUME NEW S, NEW s \in Seq(S), NEW t \in Seq(S)
    PROVE  Backwards(Backwards(s) \o t) = Backwards(t) \o s
<1> DEFINE l == Backwards(Backwards(s) \o t)
           r == Backwards(t) \o s
           n == Len(s) + Len(t)
<1>1. /\ Len(s) \in Nat /\ Len(t) \in Nat
      /\ Backwards(s) \in Seq(S) /\ Len(Backwards(s)) = Len(s)
      /\ Backwards(t) \in Seq(S) /\ Len(Backwards(t)) = Len(t)
  BY BackwardsLists
<1>2. /\ Backwards(s) \o t \in Seq(S) /\ Len(Backwards(s) \o t) = n
      /\ r \in Seq(S) /\ Len(r) = n
  BY <1>1
<1>3. /\ l \in Seq(S) /\ Len(l) = n
      /\ \A i \in 1 .. n : /\ n + 1 - i \in 1 .. n
                           /\ l[i] = (Backwards(s) \o t)[n + 1 - i]
  <2> DEFINE u == Backwards(s) \o t
  <2>1. u \in Seq(S) /\ Len(u) = n /\ l = Backwards(u)
    BY <1>2
  <2> HIDE DEF u, l, n
  <2>2. /\ l \in Seq(S) /\ Len(l) = n
        /\ \A i \in 1 .. n : n + 1 - i \in 1 .. n /\ l[i] = u[n + 1 - i]
    BY <2>1, BackwardsLists
  <2> QED BY <2>2 DEF u
<1>4. ASSUME NEW i \in 1 .. n PROVE l[i] = r[i]
  <2>1. CASE i <= Len(t)
    <3>1. i \in 1 .. Len(t) /\ Len(t) + 1 - i \in 1 .. Len(t) /\ n + 1 - i > Len(s)
          /\ n + 1 - i - Len(s) = Len(t) + 1 - i
      BY <1>1, <2>1
    <3>2. r[i] = Backwards(t)[i]
      BY <1>1, <3>1
    <3>3. (Backwards(s) \o t)[n + 1 - i] = t[Len(t) + 1 - i]
      BY <1>1, <1>3, <3>1, ConcatProperties
    <3>4. Backwards(t)[i] = t[Len(t) + 1 - i]
      BY <3>1, BackwardsLists
    <3> QED BY <1>3, <3>2, <3>3, <3>4
  <2>2. CASE i > Len(t)
    <3>1. /\ n + 1 - i \in 1 .. Len(s) /\ i - Len(t) \in 1 .. Len(s)
          /\ Len(s) + 1 - (n + 1 - i) = i - Len(t)
      BY <1>1, <2>2
    <3>2. r[i] = s[i - Len(t)]
      BY <1>1, <2>2, <3>1, ConcatProperties
    <3>3. (Backwards(s) \o t)[n + 1 - i] = Backwards(s)[n + 1 - i]
      BY <1>1, <1>3, <3>1, ConcatProperties
    <3>4. Backwards(s)[n + 1 - i] = s[Len(s) + 1 - (n + 1 - i)]
      BY <3>1, BackwardsLists
    <3> QED BY <1>3, <3>1, <3>2, <3>3, <3>4
  <2> QED BY <1>1, <2>1, <2>2
<1> HIDE DEF l, r
<1>5. l = r
  BY <1>2, <1>3, <1>4, SeqEqual
<1> QED BY <1>5 DEF l, r

LEMMA WalkStep ==
    ASSUME CursorInv, NEW n \in Sizes, NEW tie \in Orders, FetchByCursor(n, tie)
    PROVE  /\ Walked' = Walked \o Served(n, tie)
           /\ got' \in Seq(Rows) /\ done' = (Len(Served(n, tie)) < n)
           /\ cursor' = IF way.kept THEN Applied(Prepared(n)) ELSE cursor
           /\ Up' = Up
<1> DEFINE page == Served(n, tie)
<1>0. ByCursor /\ way \in CursorWays /\ way.side \in {"after", "before"} /\ way' = way
      /\ got \in Seq(Rows)
  BY WaysOfCursor, WaysApart DEF FetchByCursor, CursorInv, TypeInv
<1>1. page \in Seq(Rows)
  BY <1>0, ServedHolds
<1>2. Result(Applied(Prepared(n)), table, tie)
        = IF way.side = "before" THEN Backwards(page) ELSE page
  BY <1>0, Fetched
<1>3. Len(Backwards(page)) = Len(page) /\ Backwards(page) \in Seq(Rows)
  BY <1>1, BackwardsLists
<1> HIDE DEF page
<1>4. /\ cursor' = IF way.kept THEN Applied(Prepared(n)) ELSE cursor
      /\ got' = IF way.side = "after" THEN got \o page ELSE Backwards(page) \o got
      /\ done' = (Len(page) < n)
  <2>1. CASE way.side = "after"
    BY <1>2, <2>1 DEF FetchByCursor
  <2>2. CASE way.side = "before"
    BY <1>2, <1>3, <2>2 DEF FetchByCursor
  <2> QED BY <1>0, <2>1, <2>2
<1>5. Walked' = Walked \o page
  <2>1. CASE way.side = "after"
    BY <1>0, <1>4, <2>1 DEF Walked
  <2>2. CASE way.side = "before"
    <3>1. Walked' = Backwards(Backwards(page) \o got) /\ Walked = Backwards(got)
      BY <1>0, <1>4, <2>2 DEF Walked
    <3> QED BY <1>0, <1>1, <3>1, JoinedBackwards
  <2> QED BY <1>0, <2>1, <2>2
<1>6. got' \in Seq(Rows)
  BY <1>0, <1>1, <1>3, <1>4
<1>7. Up' = Up
  BY <1>0 DEF Up
<1> QED BY <1>4, <1>5, <1>6, <1>7 DEF page

LEMMA FetchKeepsWhere ==
    ASSUME CursorInv, NEW n \in Sizes, NEW tie \in Orders, FetchByCursor(n, tie)
    PROVE  WhereInv' /\ cursor' \in CursorForms /\ cursor'.by = way.by
<1>0. ByCursor /\ way \in CursorWays /\ got \in Seq(Rows) /\ cursor \in CursorForms
      /\ cursor.by = way.by /\ way' = way /\ way.kept \in BOOLEAN
  BY WaysOfCursor, WaysApart DEF FetchByCursor, CursorInv, TypeInv
<1>1. /\ Walked' = Walked \o Served(n, tie) /\ Up' = Up
      /\ cursor' = IF way.kept THEN Applied(Prepared(n)) ELSE cursor
  BY WalkStep
<1>2. PICK c : c = Applied(Prepared(n))
  OBVIOUS
<1>3. c \in CursorForms /\ c.by = way.by /\ c.where = Start.where \cup UpToBound \cup ToNewest
  BY <1>0, <1>2, Settings
<1>4. /\ Walked \in Seq(Rows) /\ Served(n, tie) \in Seq(Rows) /\ Len(Walked) = Len(got)
      /\ Len(got) \in Nat /\ (got # <<>> => Len(Walked) \in 1 .. Len(Walked))
  BY <1>0, NewestIs, ServedHolds, EmptySeq
<1>5. /\ Len(Walked) <= Len(Walked') /\ Len(Walked') \in Nat
      /\ \A i \in 1 .. Len(Walked) : i \in 1 .. Len(Walked') /\ Walked'[i] = Walked[i]
  BY <1>1, <1>4
<1>6. \A cond \in Start.where \cup cursor.where :
        cond \in UpToBound \/ \E i \in 1 .. Len(Walked) : cond = From(Up, Walked[i])
  <2>1. Start.where \subseteq cursor.where
    BY <1>0, StartSets
  <2> QED BY <1>0, <2>1 DEF CursorInv, WhereInv
<1>7. \A cond \in ToNewest : \E i \in 1 .. Len(Walked) : cond = From(Up, Walked[i])
  BY <1>4 DEF ToNewest, Newest
<1>8. ASSUME NEW cond \in cursor'.where
      PROVE  cond \in UpToBound \/ \E i \in 1 .. Len(Walked) : cond = From(Up, Walked[i])
  BY <1>0, <1>1, <1>2, <1>3, <1>6, <1>7
<1>9. UpToBound' = UpToBound /\ \A r : From(Up, r)' = From(Up, r)
  BY <1>0, <1>1 DEF UpToBound, From
<1>10. WhereInv'
  <2> SUFFICES ASSUME NEW cond \in cursor'.where
               PROVE  \/ cond \in UpToBound'
                      \/ \E i \in 1 .. Len(Walked') : cond = From(Up, Walked[i])'
    BY DEF WhereInv
  <2>1. CASE cond \in UpToBound
    BY <1>9, <2>1
  <2>2. ASSUME NEW i \in 1 .. Len(Walked), cond = From(Up, Walked[i])
        PROVE  i \in 1 .. Len(Walked') /\ cond = From(Up, Walked[i])'
    BY <1>0, <1>1, <1>5, <2>2 DEF From
  <2> QED BY <1>8, <2>1, <2>2
<1> QED BY <1>0, <1>1, <1>2, <1>3, <1>10

LEMMA FetchKeepsOrder ==
    ASSUME CursorInv, NEW n \in Sizes, NEW tie \in Orders, FetchByCursor(n, tie)
    PROVE  SortedInv' /\ InsideInv'
<1> DEFINE page == Served(n, tie)
           by == way.by
           m == Len(Walked)
<1>0. ByCursor /\ way \in CursorWays /\ got \in Seq(Rows) /\ way' = way
      /\ by \in 1 .. Arity /\ Up \in BOOLEAN /\ table \subseteq Rows
  BY WaysOfCursor, WaysApart DEF FetchByCursor, CursorInv, TypeInv, Up
<1>1. Walked' = Walked \o page /\ Up' = Up
  BY WalkStep
<1>2. Walked \in Seq(Rows) /\ m \in Nat
  BY <1>0, NewestIs
<1>3. /\ page \in Seq(ToCome) /\ page \in Seq(Rows) /\ Len(page) \in Nat
      /\ \A i \in 1 .. Len(page) : page[i] \in ToCome
      /\ \A i, j \in 1 .. Len(page) :
            i < j => /\ page[i] # page[j]
                     /\ Same(by, page[i], page[j]) \/ Ahead(Keyed(by, Up), page[i], page[j])
  BY <1>0, ServedHolds
<1>4. \A r \in ToCome : r \in Rows /\ Inside(r) /\ Beyond(r)
  BY <1>0 DEF ToCome
<1> DEFINE joined == Walked \o page
<1> HIDE DEF page
<1>5. /\ Len(joined) = m + Len(page)
      /\ \A i \in 1 .. m : joined[i] = Walked[i]
      /\ \A i \in 1 .. Len(joined) : i > m => i - m \in 1 .. Len(page) /\ joined[i] = page[i - m]
  BY <1>2, <1>3, ConcatProperties
<1> HIDE DEF joined
<1>6. ASSUME NEW i \in 1 .. Len(joined), NEW j \in 1 .. Len(joined), i < j
      PROVE  /\ joined[i] # joined[j]
             /\ Same(by, joined[i], joined[j]) \/ Ahead(Keyed(by, Up), joined[i], joined[j])
  <2>1. CASE j <= m
    <3>1. i \in 1 .. m /\ j \in 1 .. m
      BY <1>2, <1>6, <2>1
    <3> QED BY <1>0, <1>5, <1>6, <3>1 DEF CursorInv, SortedInv
  <2>2. CASE i <= m /\ j > m
    <3>1. i \in 1 .. m /\ joined[i] = Walked[i] /\ Walked[i] \in Rows
      BY <1>2, <1>5, <2>2
    <3>2. joined[j] \in Rows /\ Beyond(joined[j])
      BY <1>3, <1>4, <1>5, <2>2
    <3>3. Ahead(Keyed(by, Up), Walked[i], joined[j])
      BY <1>0, <3>1, <3>2, NewestIsFurthest
    <3>4. ~Same(by, Walked[i], joined[j])
      BY <1>0, <3>1, <3>2, <3>3, KeyedOrders
    <3> QED BY <3>1, <3>3, <3>4 DEF Same
  <2>3. CASE i > m
    <3>1. /\ i - m \in 1 .. Len(page) /\ j - m \in 1 .. Len(page) /\ i - m < j - m
          /\ joined[i] = page[i - m] /\ joined[j] = page[j - m]
      BY <1>2, <1>3, <1>5, <1>6, <2>3
    <3> QED BY <1>3, <3>1
  <2> QED BY <1>2, <1>5, <1>6, <2>1, <2>2, <2>3
<1>7. ASSUME NEW i \in 1 .. Len(joined) PROVE Inside(joined[i])
  <2>1. CASE i <= m
    BY <1>0, <1>2, <1>5, <2>1 DEF CursorInv, InsideInv
  <2>2. CASE i > m
    BY <1>3, <1>4, <1>5, <2>2
  <2> QED BY <1>2, <1>5, <2>1, <2>2
<1>8. Walked' = joined
  BY <1>1 DEF joined
<1>9. SortedInv'
  BY <1>0, <1>1, <1>6, <1>8 DEF SortedInv
<1>10. InsideInv'
  BY <1>0, <1>1, <1>7, <1>8 DEF InsideInv, Inside
<1> QED BY <1>9, <1>10

LEMMA FetchKeepsLeft ==
    ASSUME CursorInv, NEW n \in Sizes, NEW tie \in Orders, FetchByCursor(n, tie)
    PROVE  LeftInv'
<1> DEFINE page == Served(n, tie)
           by == way.by
           m == Len(Walked)
<1>0. ByCursor /\ way \in CursorWays /\ got \in Seq(Rows) /\ way' = way
      /\ by \in 1 .. Arity /\ Up \in BOOLEAN /\ table \subseteq Rows /\ stayed \subseteq table
      /\ stayed' = stayed /\ n \in Nat \ {0}
  BY PagesAssumption, WaysOfCursor, WaysApart DEF FetchByCursor, CursorInv, TypeInv, Up
<1>1. Walked' = Walked \o page /\ Up' = Up /\ done' = (Len(page) < n) /\ got' \in Seq(Rows)
  BY WalkStep
<1>2. Walked \in Seq(Rows) /\ m \in Nat /\ Len(Walked) = Len(got)
  BY <1>0, NewestIs
<1>3. /\ page \in Seq(Rows) /\ Len(page) \in Nat
      /\ \A r \in ToCome : \/ \E i \in 1 .. Len(page) : page[i] = r
                           \/ /\ Len(page) = n
                              /\ Same(by, page[n], r) \/ Ahead(Keyed(by, Up), page[n], r)
  BY <1>0, ServedHolds
<1> HIDE DEF page
<1>4. /\ Len(Walked') = m + Len(page)
      /\ \A i \in 1 .. m : i \in 1 .. Len(Walked') /\ Walked'[i] = Walked[i]
      /\ \A i \in 1 .. Len(page) : m + i \in 1 .. Len(Walked') /\ Walked'[m + i] = page[i]
  <2> DEFINE joined == Walked \o page
  <2>1. /\ Len(joined) = m + Len(page)
        /\ \A i \in 1 .. m : joined[i] = Walked[i]
        /\ \A i \in 1 .. Len(joined) : i > m => joined[i] = page[i - m]
    BY <1>2, <1>3, ConcatProperties
  <2> HIDE DEF joined, m
  <2>2. \A i \in 1 .. m : i \in 1 .. Len(joined)
    BY <1>2, <1>3, <2>1
  <2>3. ASSUME NEW i \in 1 .. Len(page)
        PROVE  m + i \in 1 .. Len(joined) /\ joined[m + i] = page[i]
    <3>1. m + i \in 1 .. Len(joined) /\ m + i > m /\ m + i - m = i
      BY <1>2, <1>3, <2>1
    <3>2. \A k \in 1 .. Len(joined) : k > m => joined[k] = page[k - m]
      BY <2>1
    <3>3. PICK k \in 1 .. Len(joined) : k = m + i
      BY <3>1
    <3>4. k > m /\ k - m = i
      BY <1>2, <3>3
    <3>5. joined[k] = page[i]
      BY <3>2, <3>4
    <3> QED BY <3>1, <3>3, <3>5
  <2>4. Walked' = joined
    BY <1>1 DEF joined
  <2> QED BY <2>1, <2>2, <2>3, <2>4
<1> SUFFICES ASSUME NEW r \in stayed, Inside(r)
             PROVE  \/ \E i \in 1 .. Len(Walked') : Same(by, Walked'[i], r)
                    \/ /\ ~done'
                       /\ Ahead(Keyed(by, Up), Walked'[Len(Walked')], r)
  <2>1. \A r : Inside(r)' <=> Inside(r)
    BY <1>0, <1>1 DEF Inside
  <2>2. \A r : Ahead(Keyed(by, Up), Walked'[Len(Walked')], r) => Beyond(r)'
    BY <1>0, <1>1 DEF Beyond
  <2> QED BY <1>0, <2>1, <2>2 DEF LeftInv
<1>5. r \in ToCome \/ \E i \in 1 .. m : Same(by, Walked[i], r)
  BY <1>0 DEF CursorInv, LeftInv, ToCome
<1>6. ASSUME NEW i \in 1 .. m, Same(by, Walked[i], r)
      PROVE  i \in 1 .. Len(Walked') /\ Same(by, Walked'[i], r)
  BY <1>4, <1>6 DEF Same
<1>7. ASSUME NEW i \in 1 .. Len(page), page[i] = r
      PROVE  m + i \in 1 .. Len(Walked') /\ Same(by, Walked'[m + i], r)
  BY <1>4, <1>7 DEF Same
<1>8. ASSUME Len(page) = n, Same(by, page[n], r)
      PROVE  m + n \in 1 .. Len(Walked') /\ Same(by, Walked'[m + n], r)
  BY <1>0, <1>4, <1>8 DEF Same
<1>9. ASSUME Len(page) = n, Ahead(Keyed(by, Up), page[n], r)
      PROVE  ~done' /\ Ahead(Keyed(by, Up), Walked'[Len(Walked')], r)
  <2>1. n \in 1 .. Len(page) /\ Len(Walked') = m + n /\ ~(Len(page) < n)
    BY <1>0, <1>4, <1>9
  <2>2. Walked'[Len(Walked')] = page[n]
    BY <1>4, <2>1
  <2>3. ~done'
    BY <1>1, <2>1
  <2> QED BY <1>9, <2>2, <2>3
<1> QED BY <1>3, <1>5, <1>6, <1>7, <1>8, <1>9

LEMMA PageOfTable ==
    ASSUME TypeInv
    PROVE  FetchPage(pages, table) \in Seq(Rows)
<1> DEFINE o == InOrder(table, 1, "asc", "asc")
           n == Cardinality(table)
           off == pages.page_size * pages.page
           upto == pages.page_size * (pages.page + 1)
           top == IF upto < Len(o) THEN upto ELSE Len(o)
<1>1. 1 \in 1 .. Arity /\ "asc" \in Orders /\ table \in SUBSET Rows
  BY RowsNumbered DEF Orders, TypeInv
<1>2. n \in Nat /\ o \in [1 .. n -> table]
  BY <1>1, InOrderLists
<1>3. /\ pages.page_size \in Nat /\ pages.page \in Nat /\ pages.page + 1 \in Nat
      /\ off \in Nat /\ upto \in Nat
  <2>1. pages.page_size \in Nat /\ pages.page \in Nat
    BY PagesAssumption DEF TypeInv
  <2>2. pages.page + 1 \in Nat
    BY <2>1
  <2>3. \A a, b \in Nat : a * b \in Nat
    OBVIOUS
  <2> QED BY <2>1, <2>2, <2>3
<1>4. FetchPage(pages, table) = SubSeq(o, off + 1, top)
  BY DEF FetchPage
<1> HIDE DEF o, n, off, upto
<1>5. o \in Seq(Rows) /\ Len(o) = n
  BY <1>1, <1>2, SeqDef
<1>6. top \in Nat /\ top <= Len(o)
  BY <1>2, <1>3, <1>5
<1> HIDE DEF top
<1>7. SubSeq(o, off + 1, top) \in Seq(Rows)
  <2>1. \A i \in off + 1 .. top : i \in 1 .. Len(o)
    BY <1>2, <1>3, <1>5, <1>6
  <2> QED BY <1>3, <1>5, <1>6, <2>1, SubSeqProperties
<1> QED BY <1>4, <1>7

LEMMA TypeStep ==
    ASSUME CursorInv, [Next]_vars
    PROVE  TypeInv'
<1>0. TypeInv
  BY DEF CursorInv
<1>1. ASSUME NEW r \in Rows, Insert(r) PROVE TypeInv'
  BY <1>0, <1>1, PagesAssumption DEF TypeInv, Insert, ByCursor
<1>2. ASSUME NEW r \in Rows, Delete(r) PROVE TypeInv'
  BY <1>0, <1>2, PagesAssumption DEF TypeInv, Delete, ByCursor
<1>3. ASSUME NEW n \in Sizes, NEW tie \in {"asc", "desc"}, FetchByCursor(n, tie) PROVE TypeInv'
  <2>1. tie \in Orders
    BY DEF Orders
  <2>2. got' \in Seq(Rows) /\ cursor' \in CursorForms /\ cursor'.by = way.by
    BY <1>3, <2>1, WalkStep, FetchKeepsWhere
  <2>3. done' = (Len(Served(n, tie)) < n)
    BY <1>3, <2>1, WalkStep
  <2>4. done' \in BOOLEAN
    BY <2>3
  <2> QED BY <1>0, <1>3, <2>2, <2>4 DEF TypeInv, FetchByCursor, ByCursor
<1>4. ASSUME FetchAndNext PROVE TypeInv'
  <2>1. PICK page : page = FetchPage(pages, table)
    OBVIOUS
  <2>2. got' = got \o page /\ done' = (page = <<>>)
    BY <1>4, <2>1 DEF FetchAndNext
  <2>3. got' \in Seq(Rows) /\ done' \in BOOLEAN
    BY <1>0, <2>1, <2>2, PageOfTable DEF TypeInv
  <2>4. pages' \in [page : Nat, page_size : Sizes]
    <3>1. pages' = [pages EXCEPT !.page = @ + 1] /\ pages \in [page : Nat, page_size : Sizes]
      BY <1>0, <1>4 DEF TypeInv, FetchAndNext, NextPage
    <3> QED BY <3>1
  <2> QED BY <1>0, <1>4, <2>3, <2>4 DEF TypeInv, FetchAndNext, ByCursor
<1>5. ASSUME UNCHANGED vars PROVE TypeInv'
  BY <1>0, <1>5 DEF TypeInv, vars, ByCursor
<1> QED BY <1>1, <1>2, <1>3, <1>4, <1>5 DEF Next, Read

\* A write of another connection leaves the walk alone.
LEMMA WritesKeepWalk ==
    ASSUME CursorInv, stayed' \subseteq stayed, UNCHANGED <<way, cursor, got, done>>
    PROVE  WhereInv' /\ SortedInv' /\ InsideInv' /\ LeftInv'
<1>1. Walked' = Walked /\ Up' = Up /\ UpToBound' = UpToBound /\ (ByCursor' <=> ByCursor)
  BY DEF Walked, Up, UpToBound, ByCursor, From
<1>2. \A r : (Inside(r)' <=> Inside(r)) /\ (Beyond(r)' <=> Beyond(r))
  BY <1>1 DEF Inside, Beyond
<1>3. WhereInv'
  BY <1>1 DEF CursorInv, WhereInv, From
<1>4. SortedInv'
  BY <1>1 DEF CursorInv, SortedInv
<1>5. InsideInv'
  BY <1>1, <1>2 DEF CursorInv, InsideInv
<1>6. LeftInv'
  BY <1>1, <1>2 DEF CursorInv, LeftInv
<1> QED BY <1>3, <1>4, <1>5, <1>6

LEMMA WalkKept ==
    ASSUME CursorInv, [Next]_vars
    PROVE  CursorInv'
<1>1. TypeInv'
  BY TypeStep
<1>2. ASSUME NEW r \in Rows, Insert(r) \/ Delete(r)
      PROVE  WhereInv' /\ SortedInv' /\ InsideInv' /\ LeftInv'
  BY <1>2, WritesKeepWalk DEF Insert, Delete
<1>3. ASSUME NEW n \in Sizes, NEW tie \in {"asc", "desc"}, FetchByCursor(n, tie)
      PROVE  WhereInv' /\ SortedInv' /\ InsideInv' /\ LeftInv'
  <2>1. tie \in Orders
    BY DEF Orders
  <2> QED BY <1>3, <2>1, FetchKeepsWhere, FetchKeepsOrder, FetchKeepsLeft
<1>4. ASSUME FetchAndNext PROVE WhereInv' /\ SortedInv' /\ InsideInv' /\ LeftInv'
  <2>1. ~ByCursor'
    BY <1>4 DEF FetchAndNext, ByCursor
  <2> QED BY <2>1 DEF WhereInv, SortedInv, InsideInv, LeftInv
<1>5. ASSUME UNCHANGED vars PROVE WhereInv' /\ SortedInv' /\ InsideInv' /\ LeftInv'
  BY <1>5, WritesKeepWalk DEF vars
<1> QED BY <1>1, <1>2, <1>3, <1>4, <1>5 DEF Next, Read, CursorInv

LEMMA WalkAtFirst ==
    ASSUME Init
    PROVE  CursorInv
<1>1. PICK w \in CursorWays \cup PageWays, n \in Sizes, t \in SUBSET Rows : Reads(w, n, t)
  <2>1. (CHOOSE n \in Sizes : TRUE) \in Sizes
    BY PagesAssumption
  <2> QED BY <2>1 DEF Init
<1>2. /\ way = w /\ table = t /\ stayed = t /\ got = <<>> /\ done = FALSE
      /\ inserts = 0 /\ deletes = 0
      /\ cursor = NewCursor(IF ByCursor THEN w.by ELSE 1)
      /\ pages = SetPage(Paginate(n), IF ByCursor THEN 0 ELSE w.from)
  BY <1>1 DEF Reads
<1>3. cursor \in CursorForms /\ cursor.where = {} /\ (ByCursor => cursor.by = way.by)
  <2>1. ByCursor => w.by \in 1 .. Arity
    BY <1>2, WaysApart DEF ByCursor
  <2>2. 1 \in 1 .. Arity
    BY RowsNumbered
  <2> QED BY <1>2, <2>1, <2>2, NewCursorSets
<1>4. pages \in [page : Nat, page_size : Sizes]
  <2>1. (IF ByCursor THEN 0 ELSE w.from) \in Nat
    BY <1>1, <1>2, WaysApart DEF ByCursor
  <2> QED BY <1>2, <2>1 DEF SetPage, Paginate
<1>5. TypeInv
  <2>1. table \subseteq Rows /\ stayed \subseteq table /\ done \in BOOLEAN
    BY <1>2
  <2>4. got \in Seq(Rows)
    <3>1. <<>> \in Seq(Rows)
      OBVIOUS
    <3> QED BY <1>2, <3>1
  <2>2. inserts \in Nat /\ deletes \in Nat /\ inserts + deletes <= MaxWrites
    BY <1>2, PagesAssumption
  <2>3. way \in CursorWays \cup PageWays
    BY <1>2
  <2> QED BY <1>3, <1>4, <2>1, <2>2, <2>3, <2>4 DEF TypeInv
<1>6. Len(Walked) = 0 \/ ~ByCursor
  <2>1. ByCursor => way \in CursorWays
    BY <1>5, WaysOfCursor
  <2>2. Len(got) = 0 /\ got \in Seq(Rows)
    BY <1>2
  <2> QED BY <2>1, <2>2, NewestIs
<1>7. WhereInv /\ SortedInv /\ InsideInv
  BY <1>3, <1>6 DEF WhereInv, SortedInv, InsideInv
<1>8. LeftInv
  BY <1>2 DEF LeftInv, Beyond
<1> QED BY <1>5, <1>7, <1>8 DEF CursorInv

LEMMA WalkAlways == Spec => []CursorInv
<1>1. Init => CursorInv
  BY WalkAtFirst
<1>2. CursorInv /\ [Next]_vars => CursorInv'
  BY WalkKept
<1> QED BY <1>1, <1>2, PTL DEF Spec

\* The program's rows, cursors and paginators are what they should be.
THEOREM TypeCorrect == Spec => []TypeOK
<1>1. CursorInv => TypeOK
  <2> SUFFICES ASSUME CursorInv PROVE TypeOK
    OBVIOUS
  <2>1. TypeInv
    BY DEF CursorInv
  <2>2. cursor.by \in 1 .. Arity /\ cursor.limit \in Sizes \cup {NoLimit}
    BY <2>1 DEF TypeInv, CursorForms
  <2>3. Range(got) \subseteq Rows
    BY <2>1 DEF TypeInv, Range
  <2>4. inserts + deletes \in 0 .. MaxWrites
    BY <2>1, PagesAssumption DEF TypeInv
  <2> QED BY <2>1, <2>2, <2>3, <2>4 DEF TypeInv, TypeOK
<1> QED BY <1>1, WalkAlways, PTL

\* The row of the walk that is the i-th the program has.
LEMMA WalkedAt ==
    ASSUME TypeInv, ByCursor, NEW i \in 1 .. Len(got)
    PROVE  /\ Len(Walked) = Len(got) /\ Len(got) \in Nat /\ DOMAIN got = 1 .. Len(got)
           /\ way.side = "after" => got[i] = Walked[i]
           /\ way.side = "before" => /\ Len(got) + 1 - i \in 1 .. Len(got)
                                     /\ got[i] = Walked[Len(got) + 1 - i]
<1>1. way \in CursorWays /\ got \in Seq(Rows)
  BY WaysOfCursor DEF TypeInv
<1>2. Len(Walked) = Len(got) /\ Len(got) \in Nat /\ DOMAIN got = 1 .. Len(got)
  BY <1>1, NewestIs
<1>3. way.side = "after" => got[i] = Walked[i]
  BY DEF Walked
<1>4. ASSUME way.side = "before"
      PROVE  Len(got) + 1 - i \in 1 .. Len(got) /\ got[i] = Walked[Len(got) + 1 - i]
  <2>1. Walked = Backwards(got)
    BY <1>4 DEF Walked
  <2>2. PICK j \in 1 .. Len(got) : j = Len(got) + 1 - i
    BY <1>2
  <2>3. Walked[j] = got[Len(got) + 1 - j]
    BY <1>1, <2>1, BackwardsLists
  <2>4. Len(got) + 1 - j = i
    BY <1>2, <2>2
  <2> QED BY <2>2, <2>3, <2>4
<1> QED BY <1>2, <1>3, <1>4

\* The pages of a cursor put together are in order, hold no row twice and none
\* outside the bound.
THEOREM AlwaysInOrder == Spec => []CursorInOrder
<1>1. CursorInv => CursorInOrder
  <2> SUFFICES ASSUME CursorInv, ByCursor
               PROVE  /\ \A i, j \in 1 .. Len(got) :
                           i < j => /\ got[i] # got[j]
                                    /\ Key(got[i], way.by) # Key(got[j], way.by)
                                         => ComesFirst(got[i], got[j])
                      /\ \A i \in 1 .. Len(got) : Within(got[i])
    <3>1. CursorInv => DOMAIN got = 1 .. Len(got) /\ Len(got) \in Nat
      BY DEF CursorInv, TypeInv
    <3> QED BY <3>1 DEF CursorInOrder
  <2>0. TypeInv /\ way \in CursorWays
    BY WaysOfCursor DEF CursorInv
  <2>1. /\ way.by \in 1 .. Arity /\ way.asc \in BOOLEAN /\ way.side \in {"after", "before"}
        /\ got \in Seq(Rows) /\ Len(got) \in Nat
    BY <2>0, WaysApart DEF TypeInv
  <2>2. \A i \in 1 .. Len(got) : got[i] \in Rows
    BY <2>1
  <2>3. ASSUME NEW i \in 1 .. Len(got), NEW j \in 1 .. Len(got), i < j
        PROVE  /\ got[i] # got[j]
               /\ Same(way.by, got[i], got[j]) \/ Ahead(Keyed(way.by, way.asc), got[i], got[j])
    <3>1. CASE way.side = "after"
      <4>1. Up = way.asc /\ got[i] = Walked[i] /\ got[j] = Walked[j] /\ Len(Walked) = Len(got)
        BY <2>0, <2>1, <3>1, WalkedAt DEF Up
      <4> QED BY <2>3, <4>1 DEF CursorInv, SortedInv
    <3>2. CASE way.side = "before"
      <4>0. Len(got) + 1 - j \in 1 .. Len(got) /\ Len(got) + 1 - i \in 1 .. Len(got)
        BY <2>1
      <4>1. PICK k \in 1 .. Len(got), l \in 1 .. Len(got) :
              k = Len(got) + 1 - j /\ l = Len(got) + 1 - i
        BY <4>0
      <4>2. k < l
        BY <2>1, <2>3, <4>1
      <4>3. (Up <=> ~way.asc) /\ got[i] = Walked[l] /\ got[j] = Walked[k]
            /\ Len(Walked) = Len(got)
        BY <2>0, <2>1, <3>2, <4>1, WalkedAt DEF Up
      <4>4. /\ got[j] # got[i]
            /\ Same(way.by, got[j], got[i]) \/ Ahead(Keyed(way.by, Up), got[j], got[i])
        BY <4>2, <4>3 DEF CursorInv, SortedInv
      <4>5. Keyed(way.by, Up) = Keyed(way.by, ~way.asc)
        BY <4>3 DEF Keyed
      <4>6. Ahead(Keyed(way.by, way.asc), got[i], got[j])
              <=> Ahead(Keyed(way.by, ~way.asc), got[j], got[i])
        BY <2>1, <2>2, KeyedFlips
      <4> QED BY <4>4, <4>5, <4>6 DEF Same
    <3> QED BY <2>1, <3>1, <3>2
  <2>4. ASSUME NEW i \in 1 .. Len(got), NEW j \in 1 .. Len(got), i < j,
               Key(got[i], way.by) # Key(got[j], way.by)
        PROVE  ComesFirst(got[i], got[j])
    <3>1. ~Same(way.by, got[i], got[j])
      BY <2>1, <2>2, <2>4, SameKeys
    <3>2. Ahead(Keyed(way.by, way.asc), got[i], got[j])
      BY <2>3, <2>4, <3>1
    <3> QED BY <2>1, <2>2, <2>4, <3>2, ComesFirstIsAhead
  <2>5. ASSUME NEW i \in 1 .. Len(got) PROVE Within(got[i])
    <3>1. \E k \in 1 .. Len(Walked) : got[i] = Walked[k]
      BY <2>0, <2>1, WalkedAt
    <3> QED BY <2>0, <2>2, <3>1, WithinIsInside DEF CursorInv, InsideInv
  <2> QED BY <2>3, <2>4, <2>5
<1> QED BY <1>1, WalkAlways, PTL

\* A walk that is done has every row that stayed, up to rows of the same key.
THEOREM AlwaysComplete == Spec => []CursorComplete
<1>1. CursorInv => CursorComplete
  <2> SUFFICES ASSUME CursorInv, ByCursor, done, NEW r \in stayed, Within(r)
               PROVE  \E i \in DOMAIN got : /\ Key(got[i], way.by) = Key(r, way.by)
                                            /\ way.by = Arity => got[i] = r
    BY DEF CursorComplete
  <2>0. TypeInv /\ way \in CursorWays
    BY WaysOfCursor DEF CursorInv
  <2>1. /\ way.by \in 1 .. Arity /\ way.side \in {"after", "before"}
        /\ got \in Seq(Rows) /\ Len(got) \in Nat /\ DOMAIN got = 1 .. Len(got) /\ r \in Rows
        /\ Len(Walked) = Len(got)
    BY <2>0, WaysApart, NewestIs DEF TypeInv
  <2>2. PICK k \in 1 .. Len(got) : Same(way.by, Walked[k], r)
    BY <2>0, <2>1, WithinIsInside DEF CursorInv, LeftInv
  <2>3. PICK i \in 1 .. Len(got) : got[i] = Walked[k]
    <3>1. CASE way.side = "after"
      <4>1. got[k] = Walked[k]
        BY <2>0, <3>1, WalkedAt
      <4> QED BY <2>1, <4>1
    <3>2. CASE way.side = "before"
      <4>1. Len(got) + 1 - k \in 1 .. Len(got) /\ Len(got) + 1 - (Len(got) + 1 - k) = k
        <5>1. k \in 1 .. Len(got) /\ Len(got) \in Nat
          BY <2>1
        <5> QED BY <5>1
      <4>2. got[Len(got) + 1 - k] = Walked[Len(got) + 1 - (Len(got) + 1 - k)]
        BY <2>0, <3>2, <4>1, WalkedAt
      <4>3. got[Len(got) + 1 - k] = Walked[k]
        BY <4>1, <4>2
      <4> QED BY <4>1, <4>3
    <3> QED BY <2>1, <3>1, <3>2
  <2>4. got[i] \in Rows /\ Same(way.by, got[i], r)
    BY <2>1, <2>2, <2>3
  <2>5. Key(got[i], way.by) = Key(r, way.by) /\ (way.by = Arity => got[i] = r)
    BY <2>1, <2>4, SameKeys, SameRows
  <2> QED BY <2>1, <2>5
<1> QED BY <1>1, WalkAlways, PTL

(***************************************************************************)
(* A paginator's pages: a row is on the page its rank in the table says,   *)
(* and a write of another row shifts it by at most one.                    *)
(***************************************************************************)
Place(S, r) == Rank(S, 1, "asc", "asc", r)

\* Rows that stayed and will not be read; rows read that will be read again.
Missing(S, stay, R, off) == {r \in stay \ R : Place(S, r) < off}
Repeats(S, R, off) == {r \in S \cap R : Place(S, r) >= off}

LEMMA PlaceOrders ==
    ASSUME NEW S \in SUBSET Rows
    PROVE  /\ \A r \in S : Place(S, r) \in Nat /\ Place(S, r) < Cardinality(S)
           /\ \A p, r \in S : /\ Precedes(1, "asc", "asc", p, r) <=> Place(S, p) < Place(S, r)
                              /\ Place(S, p) = Place(S, r) => p = r
           /\ Cardinality(S) \in Nat /\ IsFiniteSet(S)
<1>1. 1 \in 1 .. Arity /\ "asc" \in Orders
  BY RowsNumbered DEF Orders
<1>2. Cardinality(S) \in Nat /\ IsFiniteSet(S)
  BY PagesAssumption, FS_Subset, FS_CardinalityType
<1>3. ASSUME NEW r \in S PROVE Place(S, r) \in Nat /\ Place(S, r) < Cardinality(S)
  <2>1. Place(S, r) \in 0 .. Cardinality(S) - 1
    BY <1>1, RankBounds DEF Place
  <2> QED BY <1>2, <2>1
<1>4. \A p, r \in S : /\ Precedes(1, "asc", "asc", p, r) <=> Place(S, p) < Place(S, r)
                      /\ Place(S, p) = Place(S, r) => p = r
  BY <1>1, RankGrows DEF Place
<1> QED BY <1>2, <1>3, <1>4

\* A row more shifts those behind it.
LEMMA PlaceAfterInsert ==
    ASSUME NEW S \in SUBSET Rows, NEW r \in Rows \ S, NEW q \in S
    PROVE  Place(S \cup {r}, q) = IF Precedes(1, "asc", "asc", r, q) THEN Place(S, q) + 1
                                  ELSE Place(S, q)
<1> DEFINE B == {p \in S : Precedes(1, "asc", "asc", p, q)}
           C == {p \in S \cup {r} : Precedes(1, "asc", "asc", p, q)}
<1>1. IsFiniteSet(B) /\ r \notin B
  <2>1. B \in SUBSET S /\ IsFiniteSet(S)
    BY PlaceOrders
  <2> QED BY <2>1, FS_Subset
<1>2. Place(S, q) = Cardinality(B) /\ Place(S \cup {r}, q) = Cardinality(C)
  BY DEF Place, Rank
<1>3. CASE Precedes(1, "asc", "asc", r, q)
  <2>1. C = B \cup {r}
    BY <1>3
  <2> HIDE DEF B, C
  <2> QED BY <1>1, <1>2, <1>3, <2>1, FS_AddElement
<1>4. CASE ~Precedes(1, "asc", "asc", r, q)
  <2>1. C = B
    BY <1>4
  <2> QED BY <1>2, <1>4, <2>1
<1> QED BY <1>3, <1>4

\* A row that goes shifts them back.
LEMMA PlaceAfterDelete ==
    ASSUME NEW S \in SUBSET Rows, NEW d \in S, NEW q \in S \ {d}
    PROVE  Place(S, q) = IF Precedes(1, "asc", "asc", d, q) THEN Place(S \ {d}, q) + 1
                         ELSE Place(S \ {d}, q)
<1> DEFINE U == S \ {d}
<1>1. U \in SUBSET Rows /\ d \in Rows \ U /\ q \in U /\ U \cup {d} = S
  OBVIOUS
<1> HIDE DEF U
<1>2. Place(U \cup {d}, q) = IF Precedes(1, "asc", "asc", d, q) THEN Place(U, q) + 1
                             ELSE Place(U, q)
  BY <1>1, PlaceAfterInsert
<1> QED BY <1>1, <1>2 DEF U

LEMMA OneMore ==
    ASSUME NEW S, IsFiniteSet(S), NEW x, NEW T \in SUBSET (S \cup {x})
    PROVE  Cardinality(T) <= Cardinality(S) + 1 /\ IsFiniteSet(T)
<1>1. IsFiniteSet(S \cup {x}) /\ Cardinality(S) \in Nat
  BY FS_AddElement, FS_CardinalityType
<1>2. Cardinality(S \cup {x}) <= Cardinality(S) + 1 /\ Cardinality(S \cup {x}) \in Nat
  BY <1>1, FS_AddElement, FS_CardinalityType
<1>3. IsFiniteSet(T) /\ Cardinality(T) <= Cardinality(S \cup {x}) /\ Cardinality(T) \in Nat
  BY <1>1, FS_Subset, FS_CardinalityType
<1> QED BY <1>1, <1>2, <1>3

LEMMA BothFinite ==
    ASSUME NEW S \in SUBSET Rows, NEW stay \in SUBSET Rows, NEW R, NEW off
    PROVE  /\ IsFiniteSet(Missing(S, stay, R, off)) /\ Cardinality(Missing(S, stay, R, off)) \in Nat
           /\ IsFiniteSet(Repeats(S, R, off)) /\ Cardinality(Repeats(S, R, off)) \in Nat
<1>1. Missing(S, stay, R, off) \in SUBSET Rows /\ Repeats(S, R, off) \in SUBSET Rows
  BY DEF Missing, Repeats
<1> QED BY <1>1, PagesAssumption, FS_Subset, FS_CardinalityType

LEMMA FewPlaces ==
    ASSUME NEW S \in SUBSET Rows, NEW stay \in SUBSET S, NEW off \in Nat
    PROVE  Cardinality(Missing(S, stay, {}, off)) <= off
<1> DEFINE M == Missing(S, stay, {}, off)
           place == [r \in M |-> Place(S, r) + 1]
<1>1. M \in SUBSET S /\ \A r \in M : Place(S, r) < off
  BY DEF Missing
<1> HIDE DEF M
<1>2. \A r \in M : Place(S, r) \in Nat
  BY <1>1, PlaceOrders
<1>3. place \in [M -> 1 .. off]
  BY <1>1, <1>2
<1>4. ASSUME NEW p \in M, NEW r \in M, place[p] = place[r] PROVE p = r
  <2>1. Place(S, p) = Place(S, r)
    BY <1>2, <1>4
  <2> QED BY <1>1, <2>1, PlaceOrders
<1>5. place \in Injection(M, 1 .. off)
  BY <1>3, <1>4 DEF Injection, IsInjective
<1>6. IsFiniteSet(1 .. off) /\ Cardinality(1 .. off) = off
  BY FS_Interval
<1> HIDE DEF place
<1>7. Cardinality(M) <= off
  BY <1>5, <1>6, FS_Injection
<1> QED BY <1>7 DEF M

LEMMA InsertShifts ==
    ASSUME NEW S \in SUBSET Rows, NEW r \in Rows \ S, NEW stay \in SUBSET S, NEW R,
           NEW off \in Nat
    PROVE  /\ Cardinality(Missing(S \cup {r}, stay, R, off)) <= Cardinality(Missing(S, stay, R, off))
           /\ Cardinality(Repeats(S \cup {r}, R, off)) <= Cardinality(Repeats(S, R, off)) + 1
<1> DEFINE U == S \cup {r}
<1>1. U \in SUBSET Rows /\ r \in U /\ stay \in SUBSET Rows
  OBVIOUS
<1>2. \A q \in S : /\ Place(S, q) \in Nat /\ Place(U, q) \in Nat
                   /\ Place(U, q) = IF Precedes(1, "asc", "asc", r, q) THEN Place(S, q) + 1
                                    ELSE Place(S, q)
  <2>1. \A q \in S : Place(S, q) \in Nat
    BY PlaceOrders
  <2>2. \A q \in U : Place(U, q) \in Nat
    BY <1>1, PlaceOrders
  <2> QED BY <2>1, <2>2, PlaceAfterInsert
<1>3. Place(U, r) \in Nat
  BY <1>1, PlaceOrders
<1>4. Missing(U, stay, R, off) \in SUBSET Missing(S, stay, R, off)
  <2> SUFFICES ASSUME NEW q \in Missing(U, stay, R, off) PROVE q \in Missing(S, stay, R, off)
    OBVIOUS
  <2>1. q \in stay \ R /\ Place(U, q) < off /\ q \in S
    BY DEF Missing
  <2>2. Place(S, q) <= Place(U, q) /\ Place(S, q) \in Nat /\ Place(U, q) \in Nat
    BY <1>2, <2>1
  <2>3. Place(S, q) < off
    BY <2>1, <2>2
  <2> QED BY <2>1, <2>3 DEF Missing
<1>5. \E x : Repeats(U, R, off) \in SUBSET (Repeats(S, R, off) \cup {x})
  <2>1. CASE off <= Place(U, r)
    <3>1. ASSUME NEW q \in Repeats(U, R, off), q # r PROVE q \in Repeats(S, R, off)
      <4>1. q \in S /\ q \in R /\ Place(U, q) >= off
        BY <3>1 DEF Repeats
      <4>2. Precedes(1, "asc", "asc", r, q) <=> Place(U, r) < Place(U, q)
        BY <1>1, <4>1, PlaceOrders
      <4>3. Place(S, q) >= off
        BY <1>2, <1>3, <2>1, <4>1, <4>2
      <4> QED BY <4>1, <4>3 DEF Repeats
    <3> QED BY <3>1
  <2>2. CASE ~(off <= Place(U, r))
    <3>1. ASSUME NEW q \in Repeats(U, R, off), q \notin Repeats(S, R, off)
          PROVE  q \in U /\ Place(U, q) = off
      <4>1. q \in U /\ q \in R /\ Place(U, q) >= off /\ q # r
        BY <1>3, <2>2, <3>1 DEF Repeats
      <4>2. q \in S
        BY <4>1
      <4>3. ~(Place(S, q) >= off)
        BY <3>1, <4>1, <4>2 DEF Repeats
      <4> QED BY <1>2, <4>1, <4>2, <4>3
    <3>2. \A p, q \in U : Place(U, p) = off /\ Place(U, q) = off => p = q
      BY <1>1, PlaceOrders
    <3>3. CASE \E x \in U : Place(U, x) = off
      <4>1. PICK x \in U : Place(U, x) = off
        BY <3>3
      <4> QED BY <3>1, <3>2, <4>1
    <3>4. CASE ~\E x \in U : Place(U, x) = off
      BY <3>1, <3>4
    <3> QED BY <3>3, <3>4
  <2> QED BY <2>1, <2>2
<1> HIDE DEF U
<1>6. Cardinality(Missing(U, stay, R, off)) <= Cardinality(Missing(S, stay, R, off))
  BY <1>1, <1>4, BothFinite, FS_Subset
<1>7. Cardinality(Repeats(U, R, off)) <= Cardinality(Repeats(S, R, off)) + 1
  BY <1>1, <1>5, BothFinite, OneMore
<1> QED BY <1>6, <1>7 DEF U

LEMMA DeleteShifts ==
    ASSUME NEW S \in SUBSET Rows, NEW d \in S, NEW stay \in SUBSET S, NEW R, NEW off \in Nat
    PROVE  /\ Cardinality(Missing(S \ {d}, stay \ {d}, R, off))
                <= Cardinality(Missing(S, stay, R, off)) + 1
           /\ Cardinality(Repeats(S \ {d}, R, off)) <= Cardinality(Repeats(S, R, off))
<1> DEFINE U == S \ {d}
<1>1. U \in SUBSET Rows /\ stay \in SUBSET Rows /\ U \in SUBSET S
  OBVIOUS
<1>2. \A q \in U : /\ Place(S, q) \in Nat /\ Place(U, q) \in Nat
                   /\ Place(S, q) = IF Precedes(1, "asc", "asc", d, q) THEN Place(U, q) + 1
                                    ELSE Place(U, q)
  <2>1. \A q \in S : Place(S, q) \in Nat
    BY PlaceOrders
  <2>2. \A q \in U : Place(U, q) \in Nat
    BY <1>1, PlaceOrders
  <2> QED BY <2>1, <2>2, PlaceAfterDelete
<1>3. \E x : Missing(U, stay \ {d}, R, off) \in SUBSET (Missing(S, stay, R, off) \cup {x})
  <2>1. ASSUME NEW q \in Missing(U, stay \ {d}, R, off), q \notin Missing(S, stay, R, off)
        PROVE  q \in S /\ Place(S, q) = off
    <3>1. q \in stay \ R /\ q \in U /\ Place(U, q) < off
      BY <2>1 DEF Missing
    <3>2. ~(Place(S, q) < off)
      BY <2>1, <3>1 DEF Missing
    <3> QED BY <1>2, <3>1, <3>2
  <2>2. \A p, q \in S : Place(S, p) = off /\ Place(S, q) = off => p = q
    BY PlaceOrders
  <2>3. CASE \E x \in S : Place(S, x) = off
    <3>1. PICK x \in S : Place(S, x) = off
      BY <2>3
    <3> QED BY <2>1, <2>2, <3>1
  <2>4. CASE ~\E x \in S : Place(S, x) = off
    BY <2>1, <2>4
  <2> QED BY <2>3, <2>4
<1>4. Repeats(U, R, off) \in SUBSET Repeats(S, R, off)
  <2> SUFFICES ASSUME NEW q \in Repeats(U, R, off) PROVE q \in Repeats(S, R, off)
    OBVIOUS
  <2>1. q \in U /\ q \in S /\ q \in R /\ Place(U, q) >= off
    BY DEF Repeats
  <2>2. Place(S, q) >= off
    BY <1>2, <2>1
  <2> QED BY <2>1, <2>2 DEF Repeats
<1> HIDE DEF U
<1>5. Cardinality(Missing(U, stay \ {d}, R, off)) <= Cardinality(Missing(S, stay, R, off)) + 1
  BY <1>1, <1>3, BothFinite, OneMore
<1>6. Cardinality(Repeats(U, R, off)) <= Cardinality(Repeats(S, R, off))
  BY <1>1, <1>4, BothFinite, FS_Subset
<1> QED BY <1>5, <1>6 DEF U

(***************************************************************************)
(* A page is a window on the table in order.                               *)
(***************************************************************************)
LEMMA Products ==
    /\ \A a, b \in Nat : a * b \in Nat
    /\ \A a, b \in Nat : a * (b + 1) = a * b + a
    /\ \A a \in Nat : a * 0 = 0
OBVIOUS

LEMMA ProductsGrow ==
    ASSUME NEW s \in Nat \ {0}, NEW a \in Nat, NEW b \in Nat
    PROVE  /\ a <= b => s * a <= s * b
           /\ a < b => s * a + s <= s * b
<1>1. ASSUME a <= b PROVE s * a <= s * b
  <2>1. PICK e \in Nat : b = a + e
    BY <1>1
  <2>2. s * b = s * a + s * e /\ s * e \in Nat /\ s * a \in Nat
    BY <2>1
  <2> QED BY <2>2
<1>2. ASSUME a < b PROVE s * a + s <= s * b
  <2>1. PICK e \in Nat : b = a + 1 + e
    BY <1>2
  <2>2. s * b = s * a + s + s * e /\ s * e \in Nat /\ s * a \in Nat
    BY <2>1
  <2> QED BY <2>2
<1> QED BY <1>1, <1>2

WindowTop(n, off, size) == IF off + size < n THEN off + size ELSE n
WindowLen(n, off, size) == IF n <= off THEN 0 ELSE IF size < n - off THEN size ELSE n - off
Window(S, off, size) ==
    SubSeq(InOrder(S, 1, "asc", "asc"), off + 1, WindowTop(Cardinality(S), off, size))

LEMMA WindowLength ==
    ASSUME NEW n \in Nat, NEW off \in Nat, NEW size \in Nat \ {0}
    PROVE  /\ WindowTop(n, off, size) \in Nat /\ WindowTop(n, off, size) <= n
           /\ WindowLen(n, off, size) \in Nat /\ WindowLen(n, off, size) <= size
           /\ off < WindowTop(n, off, size)
                 => WindowLen(n, off, size) = WindowTop(n, off, size) - off
           /\ ~(off < WindowTop(n, off, size)) => WindowLen(n, off, size) = 0 /\ n <= off
           /\ \A k \in Nat : off <= k /\ k < off + size /\ k < n
                                => k + 1 - off \in 1 .. WindowLen(n, off, size)
<1>1. CASE n <= off
  <2>1. WindowTop(n, off, size) = n /\ WindowLen(n, off, size) = 0
    BY <1>1 DEF WindowTop, WindowLen
  <2> QED BY <1>1, <2>1
<1>2. CASE off < n /\ size < n - off
  <2>1. WindowTop(n, off, size) = off + size /\ WindowLen(n, off, size) = size
    BY <1>2 DEF WindowTop, WindowLen
  <2> QED BY <1>2, <2>1
<1>3. CASE off < n /\ ~(size < n - off)
  <2>1. WindowTop(n, off, size) = n /\ WindowLen(n, off, size) = n - off
    BY <1>3 DEF WindowTop, WindowLen
  <2> QED BY <1>3, <2>1
<1> QED BY <1>1, <1>2, <1>3

LEMMA WindowHolds ==
    ASSUME NEW S \in SUBSET Rows, NEW off \in Nat, NEW size \in Nat \ {0}
    PROVE  LET o == InOrder(S, 1, "asc", "asc")
               n == Cardinality(S)
               len == WindowLen(n, off, size)
               page == Window(S, off, size) IN
           /\ n \in Nat /\ o \in Seq(S) /\ Len(o) = n
           /\ page \in Seq(S) /\ Len(page) = len /\ len \in Nat
           /\ \A i \in 1 .. len : off + i \in 1 .. n /\ page[i] = o[off + i]
           /\ page = <<>> <=> n <= off
           /\ \A r : r \in Range(page)
                        <=> r \in S /\ off <= Place(S, r) /\ Place(S, r) < off + size
           /\ IsFiniteSet(Range(page)) /\ Cardinality(Range(page)) = Len(page)
<1> DEFINE o == InOrder(S, 1, "asc", "asc")
           n == Cardinality(S)
           top == WindowTop(n, off, size)
           len == WindowLen(n, off, size)
           page == Window(S, off, size)
<1>0. 1 \in 1 .. Arity /\ "asc" \in Orders
  BY RowsNumbered DEF Orders
<1>1. size \in Nat \ {0} /\ off \in Nat
  OBVIOUS
<1>2. /\ n \in Nat /\ o \in [1 .. n -> S]
      /\ \A i \in 1 .. n : Place(S, o[i]) = i - 1
      /\ \A r \in S : Place(S, r) + 1 \in 1 .. n /\ o[Place(S, r) + 1] = r
  BY <1>0, InOrderLists DEF Place
<1>4. page = SubSeq(o, off + 1, top)
  BY DEF Window
<1> HIDE DEF o, n
<1>3. o \in Seq(S) /\ Len(o) = n
  BY <1>2, SeqDef
<1>5. /\ top \in Nat /\ top <= n /\ len \in Nat /\ len <= size
      /\ off < top => len = top - off
      /\ ~(off < top) => len = 0 /\ n <= off
      /\ \A k \in Nat : off <= k /\ k < off + size /\ k < n => k + 1 - off \in 1 .. len
  BY <1>2, WindowLength
<1> HIDE DEF top, len, page
<1>6. page \in Seq(S) /\ Len(page) = len /\ \A i \in 1 .. len : page[i] = o[off + i]
  <2>1. CASE off < top
    <3>1. PICK m \in Nat : m = off + 1
      BY <1>1
    <3>2. m \in Int /\ top \in Int /\ \A i \in m .. top : o[i] \in S
      <4>1. \A i \in m .. top : i \in 1 .. n
        BY <1>1, <1>2, <1>5, <3>1
      <4> QED BY <1>2, <1>5, <3>1, <4>1
    <3>3. /\ page \in Seq(S) /\ Len(page) = top - m + 1
          /\ \A i \in 1 .. top - m + 1 : page[i] = o[m + i - 1]
      <4>1. m <= top
        BY <1>1, <1>5, <2>1, <3>1
      <4> QED BY <1>4, <3>1, <3>2, <4>1, SubSeqProperties
    <3>4. top - m + 1 = len
      BY <1>1, <1>5, <2>1, <3>1
    <3>5. \A i \in 1 .. len : m + i - 1 = off + i
      BY <1>1, <1>5, <3>1
    <3> QED BY <3>3, <3>4, <3>5
  <2>2. CASE ~(off < top)
    <3>1. page = <<>>
      BY <1>1, <1>4, <1>5, <2>2, SubSeqEmpty
    <3> QED BY <1>5, <2>2, <3>1
  <2> QED BY <2>1, <2>2
<1>7. ASSUME NEW i \in 1 .. len
      PROVE  off + i \in 1 .. n /\ off <= off + i - 1 /\ off + i - 1 < off + size
  <2>1. off < top /\ len = top - off /\ i \in Nat /\ 1 <= i /\ i <= len
    BY <1>1, <1>5
  <2>2. off + i <= top /\ off + i >= 1
    BY <1>1, <1>5, <2>1
  <2>3. off + i \in 1 .. n
    BY <1>1, <1>2, <1>5, <2>1, <2>2
  <2>4. off <= off + i - 1 /\ off + i - 1 < off + size
    BY <1>1, <1>5, <2>1
  <2> QED BY <2>3, <2>4
<1>8. page = <<>> <=> n <= off
  <2>1. page = <<>> <=> len = 0
    BY <1>6, EmptySeq
  <2>2. ASSUME len = 0 PROVE n <= off
    <3>1. ~(off < top)
      BY <1>1, <1>5, <2>2
    <3> QED BY <1>5, <3>1
  <2>3. ASSUME n <= off PROVE len = 0
    <3>1. ~(off < top)
      BY <1>1, <1>2, <1>5, <2>3
    <3> QED BY <1>5, <3>1
  <2> QED BY <2>1, <2>2, <2>3
<1>9. DOMAIN page = 1 .. len
  BY <1>6
<1>10. ASSUME NEW i \in 1 .. len
       PROVE  page[i] \in S /\ Place(S, page[i]) = off + i - 1
  <2>1. PICK k \in 1 .. n : k = off + i
    BY <1>7
  <2>2. page[i] = o[k] /\ o[k] \in S /\ Place(S, o[k]) = k - 1
    BY <1>2, <1>6, <2>1
  <2> QED BY <2>1, <2>2
<1>11. ASSUME NEW r \in S, off <= Place(S, r), Place(S, r) < off + size
       PROVE  \E i \in 1 .. len : page[i] = r
  <2>1. Place(S, r) \in Nat /\ Place(S, r) + 1 \in 1 .. n /\ o[Place(S, r) + 1] = r
    BY <1>2, PlaceOrders
  <2>2. PICK i \in 1 .. len : off + i = Place(S, r) + 1
    <3>1. Place(S, r) < n
      BY <1>2, <2>1
    <3>2. Place(S, r) + 1 - off \in 1 .. len
      BY <1>5, <1>11, <2>1, <3>1
    <3>3. off + (Place(S, r) + 1 - off) = Place(S, r) + 1
      BY <1>1, <2>1
    <3> QED BY <3>2, <3>3
  <2> QED BY <1>6, <2>1, <2>2
<1>12. ASSUME NEW i \in 1 .. len
       PROVE  off <= Place(S, page[i]) /\ Place(S, page[i]) < off + size
  BY <1>7, <1>10
<1>13. \A r : r \in Range(page)
                 <=> r \in S /\ off <= Place(S, r) /\ Place(S, r) < off + size
  <2>1. \A r \in Range(page) : r \in S /\ off <= Place(S, r) /\ Place(S, r) < off + size
    BY <1>9, <1>10, <1>12 DEF Range
  <2>2. ASSUME NEW r \in S, off <= Place(S, r), Place(S, r) < off + size PROVE r \in Range(page)
    BY <1>9, <1>11, <2>2 DEF Range
  <2> QED BY <2>1, <2>2
<1>14. IsFiniteSet(Range(page)) /\ Cardinality(Range(page)) = len
  <2>1. page \in [1 .. len -> Range(page)]
    BY <1>6, <1>9 DEF Range
  <2>2. ASSUME NEW i \in 1 .. len, NEW j \in 1 .. len, page[i] = page[j] PROVE i = j
    <3>1. off + i - 1 = off + j - 1
      BY <1>10, <2>2
    <3> QED BY <1>1, <3>1
  <2>3. page \in Bijection(1 .. len, Range(page))
    BY <1>9, <2>1, <2>2 DEF Bijection, Injection, Surjection, IsInjective, Range
  <2>4. IsFiniteSet(1 .. len) /\ Cardinality(1 .. len) = len
    <3>1. len \in Int /\ 1 \in Int /\ (1 > len => len = 0)
      BY <1>5
    <3>2. /\ IsFiniteSet(1 .. len)
          /\ Cardinality(1 .. len) = IF 1 > len THEN 0 ELSE len - 1 + 1
      BY <3>1, FS_Interval
    <3> QED BY <1>5, <3>1, <3>2
  <2>5. ExistsBijection(1 .. len, Range(page))
    BY <2>3 DEF ExistsBijection
  <2> QED BY <2>4, <2>5, FS_Bijection
<1>15. \A i \in 1 .. len : off + i \in 1 .. n /\ page[i] = o[off + i]
  BY <1>6, <1>7
<1> QED BY <1>2, <1>3, <1>5, <1>6, <1>8, <1>13, <1>14, <1>15 DEF o, n, len, page

LEMMA PageIs ==
    ASSUME NEW S \in SUBSET Rows, NEW p \in [page : Nat, page_size : Sizes],
           NEW size, size = p.page_size, NEW off, off = size * p.page
    PROVE  /\ size \in Nat \ {0} /\ off \in Nat /\ size * (p.page + 1) = off + size
           /\ FetchPage(p, S) = Window(S, off, size)
<1>1. size \in Nat \ {0} /\ p.page \in Nat
  BY PagesAssumption
<1>2. off \in Nat /\ size * (p.page + 1) = off + size
  BY <1>1, Products
<1> DEFINE o == InOrder(S, 1, "asc", "asc")
           n == Cardinality(S)
<1>3. n \in Nat /\ o \in [1 .. n -> S]
  <2>1. 1 \in 1 .. Arity /\ "asc" \in Orders
    BY RowsNumbered DEF Orders
  <2> QED BY <2>1, InOrderLists
<1>4. Len(o) = n
  BY <1>3, SeqDef
<1> QED BY <1>1, <1>2, <1>4 DEF FetchPage, Window, WindowTop

\* As many pages as num_pages said, and no more, begin before the end.
LEMMA PagesReach ==
    ASSUME NEW p \in [page : Nat, page_size : Sizes], NEW n \in Nat, NEW k \in Nat
    PROVE  /\ PagesNumber(p, n) \in Nat
           /\ n <= p.page_size * k <=> PagesNumber(p, n) <= k
<1> DEFINE s == p.page_size
           q == n \div s
           m == n % s
<1>1. s \in Nat \ {0}
  BY PagesAssumption
<1>2. q \in Nat /\ m \in Nat /\ m < s /\ n = s * q + m
  BY <1>1
<1>3. PagesNumber(p, n) = q + (IF m > 0 THEN 1 ELSE 0)
  BY DEF PagesNumber
<1> HIDE DEF q, m, s
<1>4. /\ q <= k => s * q <= s * k
      /\ k < q => s * k + s <= s * q
      /\ q < k => s * q + s <= s * k
  BY <1>1, <1>2, ProductsGrow
<1>5. s * q \in Nat /\ s * k \in Nat
  BY <1>1, <1>2, Products
<1>6. PagesNumber(p, n) \in Nat
  BY <1>2, <1>3
<1>7. CASE k < q
  BY <1>1, <1>2, <1>3, <1>4, <1>5, <1>7 DEF s
<1>8. CASE q < k
  BY <1>1, <1>2, <1>3, <1>4, <1>5, <1>8 DEF s
<1>9. CASE q = k
  BY <1>1, <1>2, <1>3, <1>5, <1>9 DEF s
<1> QED BY <1>2, <1>6, <1>7, <1>8, <1>9
(***************************************************************************)
(* A page read takes its rows from those that would be missed, and uses up *)
(* those that would be repeated.                                           *)
(***************************************************************************)
LEMMA ReadShifts ==
    ASSUME NEW S \in SUBSET Rows, NEW stay \in SUBSET S, NEW off \in Nat, NEW size \in Nat \ {0},
           NEW R \in SUBSET Rows
    PROVE  LET P == Range(Window(S, off, size)) IN
           /\ Cardinality(Missing(S, stay, R \cup P, off + size))
                <= Cardinality(Missing(S, stay, R, off))
           /\ Len(Window(S, off, size)) + Cardinality(Repeats(S, R \cup P, off + size))
                  + Cardinality(R)
                <= Cardinality(Repeats(S, R, off)) + Cardinality(R \cup P)
<1> DEFINE P == Range(Window(S, off, size))
<1>1. /\ \A r : r \in P <=> r \in S /\ off <= Place(S, r) /\ Place(S, r) < off + size
      /\ IsFiniteSet(P) /\ Cardinality(P) = Len(Window(S, off, size))
  BY WindowHolds
<1> HIDE DEF P
<1>2. \A r \in S : Place(S, r) \in Nat
  BY PlaceOrders
<1>3. Missing(S, stay, R \cup P, off + size) \in SUBSET Missing(S, stay, R, off)
  <2> SUFFICES ASSUME NEW r \in Missing(S, stay, R \cup P, off + size)
               PROVE  r \in Missing(S, stay, R, off)
    OBVIOUS
  <2>1. r \in S /\ r \in stay \ R /\ r \notin P /\ Place(S, r) < off + size
    BY DEF Missing
  <2>2. ~(off <= Place(S, r))
    BY <1>1, <2>1
  <2>3. Place(S, r) < off
    BY <1>2, <2>1, <2>2
  <2> QED BY <2>1, <2>3 DEF Missing
<1> DEFINE D == Repeats(S, R, off)
           E == Repeats(S, R \cup P, off + size)
           X == R \cap P
<1>4. X \in SUBSET D
  BY <1>1, <1>2 DEF Repeats
<1>5. E \in SUBSET (D \ X)
  <2> SUFFICES ASSUME NEW r \in E PROVE r \in D /\ r \notin P
    OBVIOUS
  <2>1. r \in S /\ r \in R \cup P /\ Place(S, r) >= off + size /\ Place(S, r) \in Nat
    BY <1>2 DEF Repeats
  <2>2. r \notin P /\ Place(S, r) >= off
    BY <1>1, <2>1
  <2> QED BY <2>1, <2>2 DEF Repeats
<1>6. stay \in SUBSET Rows
  OBVIOUS
<1>7. Cardinality(Missing(S, stay, R \cup P, off + size)) <= Cardinality(Missing(S, stay, R, off))
  BY <1>3, <1>6, BothFinite, FS_Subset
<1>8. /\ IsFiniteSet(D) /\ Cardinality(D) \in Nat /\ IsFiniteSet(E) /\ Cardinality(E) \in Nat
  BY <1>6, BothFinite
<1> HIDE DEF D, E
<1>9. IsFiniteSet(R) /\ Cardinality(R) \in Nat /\ Cardinality(P) \in Nat
  BY <1>1, PagesAssumption, FS_Subset, FS_CardinalityType
<1>10. Cardinality(R \cup P) = Cardinality(R) + Cardinality(P) - Cardinality(X)
  BY <1>1, <1>9, FS_Union
<1>11. D \cap X = X
  BY <1>4
<1> HIDE DEF X
<1>12. IsFiniteSet(D \ X) /\ Cardinality(D \ X) = Cardinality(D) - Cardinality(X)
  BY <1>8, <1>11, FS_Difference
<1>13. Cardinality(X) \in Nat /\ Cardinality(E) <= Cardinality(D \ X)
  BY <1>4, <1>5, <1>8, <1>12, FS_Subset, FS_CardinalityType
<1>14. Cardinality(P) + Cardinality(E) + Cardinality(R) <= Cardinality(D) + Cardinality(R \cup P)
  BY <1>8, <1>9, <1>10, <1>12, <1>13
<1> QED BY <1>1, <1>7, <1>14 DEF D, E, P

UpTo(n, off) == IF off < n THEN off ELSE n

LEMMA WindowsJoin ==
    ASSUME NEW S \in SUBSET Rows, NEW off \in Nat, NEW size \in Nat \ {0}, NEW from \in 0 .. off
    PROVE  SubSeq(InOrder(S, 1, "asc", "asc"), from + 1, UpTo(Cardinality(S), off))
             \o Window(S, off, size)
           = SubSeq(InOrder(S, 1, "asc", "asc"), from + 1, UpTo(Cardinality(S), off + size))
<1> DEFINE o == InOrder(S, 1, "asc", "asc")
           n == Cardinality(S)
           page == Window(S, off, size)
           l == SubSeq(o, from + 1, UpTo(n, off))
           r == SubSeq(o, from + 1, UpTo(n, off + size))
           top == UpTo(n, off + size)
<1>1. /\ n \in Nat /\ o \in Seq(S) /\ Len(o) = n /\ page \in Seq(S)
      /\ page = <<>> <=> n <= off
      /\ page = SubSeq(o, off + 1, top)
  BY WindowHolds DEF Window, WindowTop, UpTo
<1> HIDE DEF o, n, page
<1>2. \A a, b \in Nat : b <= n =>
        /\ SubSeq(o, a + 1, b) \in Seq(S)
        /\ Len(SubSeq(o, a + 1, b)) = IF a < b THEN b - a ELSE 0
        /\ \A i \in 1 .. b - a : SubSeq(o, a + 1, b)[i] = o[a + i]
  <2> SUFFICES ASSUME NEW a \in Nat, NEW b \in Nat, b <= n
               PROVE  /\ SubSeq(o, a + 1, b) \in Seq(S)
                      /\ Len(SubSeq(o, a + 1, b)) = IF a < b THEN b - a ELSE 0
                      /\ \A i \in 1 .. b - a : SubSeq(o, a + 1, b)[i] = o[a + i]
    OBVIOUS
  <2>1. \A i \in a + 1 .. b : o[i] \in S
    <3>1. \A i \in a + 1 .. b : i \in 1 .. Len(o)
      BY <1>1
    <3> QED BY <1>1, <3>1
  <2>2. PICK m \in Int : m = a + 1
    OBVIOUS
  <2>3. /\ SubSeq(o, m, b) \in Seq(S)
        /\ Len(SubSeq(o, m, b)) = IF m <= b THEN b - m + 1 ELSE 0
        /\ \A i \in 1 .. b - m + 1 : SubSeq(o, m, b)[i] = o[m + i - 1]
    BY <2>1, <2>2, SubSeqProperties
  <2>4. (m <= b <=> a < b) /\ b - m + 1 = b - a
    BY <2>2
  <2>5. \A i \in 1 .. b - a : m + i - 1 = a + i
    BY <2>2
  <2> QED BY <2>2, <2>3, <2>4, <2>5
<1>3. CASE n <= off
  <2>1. page = <<>> /\ UpTo(n, off) = n /\ UpTo(n, off + size) = n
    BY <1>1, <1>3 DEF UpTo
  <2>2. l \in Seq(S) /\ l = r
    BY <1>1, <1>2, <2>1
  <2> HIDE DEF l, r
  <2>3. l \o page = r
    BY <2>1, <2>2
  <2> QED BY <2>3 DEF l, r, o, n, page
<1>4. CASE off < n
  <2>1. UpTo(n, off) = off /\ top \in Nat /\ top <= n /\ off < top /\ from <= off /\ from \in Nat
    BY <1>1, <1>4 DEF UpTo
  <2>2. /\ l \in Seq(S) /\ Len(l) = off - from /\ \A i \in 1 .. off - from : l[i] = o[from + i]
    BY <1>1, <1>2, <1>4, <2>1
  <2>3. /\ r \in Seq(S) /\ Len(r) = top - from /\ \A i \in 1 .. top - from : r[i] = o[from + i]
    BY <1>2, <2>1
  <2>4. /\ page \in Seq(S) /\ Len(page) = top - off
        /\ \A i \in 1 .. top - off : page[i] = o[off + i]
    BY <1>1, <1>2, <2>1
  <2> HIDE DEF l, r, top
  <2>5. l \o page \in Seq(S) /\ Len(l \o page) = top - from
    <3>1. l \o page \in Seq(S) /\ Len(l \o page) = Len(l) + Len(page)
      BY <2>2, <2>4, ConcatProperties
    <3>2. off - from + (top - off) = top - from
      BY <2>1
    <3> QED BY <2>2, <2>4, <3>1, <3>2
  <2>6. ASSUME NEW i \in 1 .. Len(l \o page) PROVE (l \o page)[i] = r[i]
    <3>0. i \in 1 .. top - from /\ r[i] = o[from + i]
      BY <2>1, <2>3, <2>5
    <3>1. CASE i <= Len(l)
      <4>1. i \in 1 .. off - from
        BY <2>1, <2>2, <3>1
      <4>2. (l \o page)[i] = l[i]
        BY <2>2, <2>4, <3>1, ConcatProperties
      <4> QED BY <2>2, <3>0, <4>1, <4>2
    <3>2. CASE i > Len(l)
      <4>1. PICK k \in 1 .. top - off : k = i - Len(l) /\ off + k = from + i
        <5>1. i - Len(l) \in 1 .. top - off /\ off + (i - Len(l)) = from + i
          BY <2>1, <2>2, <3>0, <3>2
        <5> QED BY <5>1
      <4>2. (l \o page)[i] = page[i - Len(l)]
        <5>1. Len(l \o page) = Len(l) + Len(page)
          BY <2>2, <2>4, ConcatProperties
        <5>2. i \in 1 .. Len(l) + Len(page)
          BY <5>1
        <5>3. \A j \in 1 .. Len(l) + Len(page) :
                (l \o page)[j] = IF j <= Len(l) THEN l[j] ELSE page[j - Len(l)]
          BY <2>2, <2>4, ConcatProperties
        <5>4. ~(i <= Len(l))
          BY <2>1, <2>2, <3>0, <3>2
        <5> QED BY <5>2, <5>3, <5>4
      <4> QED BY <2>4, <3>0, <4>1, <4>2
    <3> QED BY <2>2, <3>1, <3>2
  <2>7. l \o page = r
    BY <2>3, <2>5, <2>6, SeqEqual
  <2> QED BY <2>7 DEF l, r, o, n, page
<1>5. n <= off \/ off < n
  BY <1>1
<1> QED BY <1>3, <1>4, <1>5

(***************************************************************************)
(* What holds of a paginator between its pages.                            *)
(***************************************************************************)
Off == pages.page_size * pages.page
Skipped == pages.page_size * way.from

MissedInv ==
    ~ByCursor => /\ way.from <= pages.page
                 /\ Cardinality(Missing(table, stayed, Range(got), Off)) <= deletes + Skipped

RepeatedInv ==
    ~ByCursor => Len(got) + Cardinality(Repeats(table, Range(got), Off))
                    <= inserts + Cardinality(Range(got))

EndInv == ~ByCursor /\ done => Cardinality(table) <= Off

\* Nothing was written: the pages are those of one table.
QuietInv ==
    ~ByCursor /\ inserts + deletes = 0 =>
        /\ got = SubSeq(InOrder(table, 1, "asc", "asc"), Skipped + 1, UpTo(Cardinality(table), Off))
        /\ total = PagesNumber(pages, Cardinality(table))
        /\ IF done THEN pages.page = (IF total < way.from THEN way.from ELSE total) + 1
           ELSE pages.page = way.from \/ pages.page <= total

PaginatorInv == TypeInv /\ MissedInv /\ RepeatedInv /\ EndInv /\ QuietInv

LEMMA OffsNumbered ==
    ASSUME TypeInv, ~ByCursor
    PROVE  /\ Off \in Nat /\ Skipped \in Nat /\ way.from \in Nat /\ pages.page \in Nat
           /\ pages.page_size \in Nat \ {0} /\ pages.page_size \in Sizes
           /\ way.from <= pages.page => Skipped <= Off
           /\ FetchPage(pages, table) = Window(table, Off, pages.page_size)
           /\ pages.page_size * (pages.page + 1) = Off + pages.page_size
<1>1. /\ pages \in [page : Nat, page_size : Sizes] /\ way.from \in Nat
      /\ table \in SUBSET Rows
  BY WaysApart DEF TypeInv, ByCursor
<1>2. pages.page \in Nat /\ pages.page_size \in Nat \ {0} /\ pages.page_size \in Sizes
  BY <1>1, PagesAssumption
<1>3. /\ Off \in Nat
      /\ FetchPage(pages, table) = Window(table, Off, pages.page_size)
      /\ pages.page_size * (pages.page + 1) = Off + pages.page_size
  BY <1>1, PageIs DEF Off
<1>4. Skipped \in Nat /\ (way.from <= pages.page => Skipped <= Off)
  BY <1>1, <1>2, Products, ProductsGrow DEF Skipped, Off
<1> QED BY <1>1, <1>2, <1>3, <1>4

LEMMA RangeOfRows ==
    ASSUME NEW s \in Seq(Rows)
    PROVE  /\ Range(s) \in SUBSET Rows /\ IsFiniteSet(Range(s)) /\ Cardinality(Range(s)) \in Nat
           /\ Len(s) \in Nat
           /\ \A t \in Seq(Rows) : Range(s \o t) = Range(s) \cup Range(t) /\ Len(s \o t) = Len(s) + Len(t)
<1>1. Range(s) \in SUBSET Rows
  BY DEF Range
<1>2. IsFiniteSet(Range(s)) /\ Cardinality(Range(s)) \in Nat
  BY <1>1, PagesAssumption, FS_Subset, FS_CardinalityType
<1>3. ASSUME NEW t \in Seq(Rows)
      PROVE  Range(s \o t) = Range(s) \cup Range(t) /\ Len(s \o t) = Len(s) + Len(t)
  <2>1. /\ s \o t \in Seq(Rows) /\ Len(s \o t) = Len(s) + Len(t)
        /\ \A i \in 1 .. Len(s) + Len(t) :
              (s \o t)[i] = IF i <= Len(s) THEN s[i] ELSE t[i - Len(s)]
    BY ConcatProperties
  <2>2. /\ DOMAIN s = 1 .. Len(s) /\ DOMAIN t = 1 .. Len(t) /\ Len(s) \in Nat /\ Len(t) \in Nat
        /\ DOMAIN (s \o t) = 1 .. Len(s) + Len(t)
    BY <2>1
  <2>3. ASSUME NEW i \in 1 .. Len(s) PROVE s[i] \in Range(s \o t)
    <3>1. i \in 1 .. Len(s) + Len(t) /\ (s \o t)[i] = s[i]
      BY <2>1, <2>2
    <3> QED BY <2>2, <3>1 DEF Range
  <2>4. ASSUME NEW i \in 1 .. Len(t) PROVE t[i] \in Range(s \o t)
    <3>1. PICK k \in 1 .. Len(s) + Len(t) : k = Len(s) + i
      BY <2>2
    <3>2. ~(k <= Len(s)) /\ k - Len(s) = i
      BY <2>2, <3>1
    <3>3. (s \o t)[k] = t[i]
      BY <2>1, <3>2
    <3> QED BY <2>2, <3>3 DEF Range
  <2>5. ASSUME NEW i \in 1 .. Len(s) + Len(t) PROVE (s \o t)[i] \in Range(s) \cup Range(t)
    <3>1. i <= Len(s) => i \in 1 .. Len(s)
      BY <2>2
    <3>2. ~(i <= Len(s)) => i - Len(s) \in 1 .. Len(t)
      BY <2>2
    <3> QED BY <2>1, <2>2, <3>1, <3>2 DEF Range
  <2>6. Range(s) \subseteq Range(s \o t) /\ Range(t) \subseteq Range(s \o t)
    BY <2>2, <2>3, <2>4 DEF Range
  <2>7. Range(s \o t) \subseteq Range(s) \cup Range(t)
    BY <2>2, <2>5 DEF Range
  <2> QED BY <2>1, <2>6, <2>7
<1> QED BY <1>1, <1>2, <1>3

LEMMA InsertKept ==
    ASSUME PaginatorInv, NEW r \in Rows, Insert(r)
    PROVE  MissedInv' /\ RepeatedInv' /\ EndInv' /\ QuietInv'
<1> SUFFICES ASSUME ~ByCursor PROVE MissedInv' /\ RepeatedInv' /\ EndInv' /\ QuietInv'
  BY DEF Insert, ByCursor, MissedInv, RepeatedInv, EndInv, QuietInv
<1>1. /\ table' = table \cup {r} /\ inserts' = inserts + 1 /\ deletes' = deletes
      /\ way' = way /\ pages' = pages /\ got' = got /\ stayed' = stayed /\ ~done' /\ r \notin table
      /\ Off' = Off /\ Skipped' = Skipped /\ (ByCursor' <=> ByCursor)
  BY DEF Insert, Off, Skipped, ByCursor
<1>2. /\ table \in SUBSET Rows /\ stayed \in SUBSET table /\ Off \in Nat /\ Skipped \in Nat
      /\ inserts \in Nat /\ deletes \in Nat /\ got \in Seq(Rows) /\ r \in Rows \ table
  BY <1>1, OffsNumbered DEF PaginatorInv, TypeInv
<1> DEFINE R == Range(got)
           m == Cardinality(Missing(table, stayed, R, Off))
           n == Cardinality(Missing(table \cup {r}, stayed, R, Off))
           d == Cardinality(Repeats(table, R, Off))
           e == Cardinality(Repeats(table \cup {r}, R, Off))
<1>3. n <= m /\ e <= d + 1
  BY <1>2, InsertShifts
<1>4. m \in Nat /\ n \in Nat /\ d \in Nat /\ e \in Nat /\ Cardinality(R) \in Nat /\ Len(got) \in Nat
  BY <1>2, BothFinite, RangeOfRows
<1>5. way.from <= pages.page /\ m <= deletes + Skipped
  BY DEF PaginatorInv, MissedInv
<1>6. Len(got) + d <= inserts + Cardinality(R)
  BY DEF PaginatorInv, RepeatedInv
<1>7. MissedInv' <=> way.from <= pages.page /\ n <= deletes + Skipped
  BY <1>1 DEF MissedInv
<1>8. RepeatedInv' <=> Len(got) + e <= inserts + 1 + Cardinality(R)
  BY <1>1 DEF RepeatedInv
<1> HIDE DEF m, n, d, e, R
<1>9. MissedInv'
  BY <1>2, <1>3, <1>4, <1>5, <1>7
<1>10. RepeatedInv'
  BY <1>2, <1>3, <1>4, <1>6, <1>8
<1>11. EndInv'
  BY <1>1 DEF EndInv
<1>12. QuietInv'
  <2>1. inserts' + deletes' # 0
    BY <1>1, <1>2
  <2> QED BY <2>1 DEF QuietInv
<1> QED BY <1>9, <1>10, <1>11, <1>12

LEMMA DeleteKept ==
    ASSUME PaginatorInv, NEW r \in Rows, Delete(r)
    PROVE  MissedInv' /\ RepeatedInv' /\ EndInv' /\ QuietInv'
<1> SUFFICES ASSUME ~ByCursor PROVE MissedInv' /\ RepeatedInv' /\ EndInv' /\ QuietInv'
  BY DEF Delete, ByCursor, MissedInv, RepeatedInv, EndInv, QuietInv
<1>1. /\ table' = table \ {r} /\ inserts' = inserts /\ deletes' = deletes + 1
      /\ way' = way /\ pages' = pages /\ got' = got /\ stayed' = stayed \ {r} /\ ~done' /\ r \in table
      /\ Off' = Off /\ Skipped' = Skipped /\ (ByCursor' <=> ByCursor)
  BY DEF Delete, Off, Skipped, ByCursor
<1>2. /\ table \in SUBSET Rows /\ stayed \in SUBSET table /\ Off \in Nat /\ Skipped \in Nat
      /\ inserts \in Nat /\ deletes \in Nat /\ got \in Seq(Rows)
      /\ table \ {r} \in SUBSET Rows /\ stayed \ {r} \in SUBSET Rows
  BY OffsNumbered DEF PaginatorInv, TypeInv
<1> DEFINE R == Range(got)
           m == Cardinality(Missing(table, stayed, R, Off))
           n == Cardinality(Missing(table \ {r}, stayed \ {r}, R, Off))
           d == Cardinality(Repeats(table, R, Off))
           e == Cardinality(Repeats(table \ {r}, R, Off))
<1>3. n <= m + 1 /\ e <= d
  BY <1>1, <1>2, DeleteShifts
<1>4. m \in Nat /\ n \in Nat /\ d \in Nat /\ e \in Nat /\ Cardinality(R) \in Nat /\ Len(got) \in Nat
  BY <1>2, BothFinite, RangeOfRows
<1>5. way.from <= pages.page /\ m <= deletes + Skipped
  BY DEF PaginatorInv, MissedInv
<1>6. Len(got) + d <= inserts + Cardinality(R)
  BY DEF PaginatorInv, RepeatedInv
<1>7. MissedInv' <=> way.from <= pages.page /\ n <= deletes + 1 + Skipped
  BY <1>1 DEF MissedInv
<1>8. RepeatedInv' <=> Len(got) + e <= inserts + Cardinality(R)
  BY <1>1 DEF RepeatedInv
<1> HIDE DEF m, n, d, e, R
<1>9. MissedInv'
  BY <1>2, <1>3, <1>4, <1>5, <1>7
<1>10. RepeatedInv'
  BY <1>2, <1>3, <1>4, <1>6, <1>8
<1>11. EndInv'
  BY <1>1 DEF EndInv
<1>12. QuietInv'
  <2>1. inserts' + deletes' # 0
    BY <1>1, <1>2
  <2> QED BY <2>1 DEF QuietInv
<1> QED BY <1>9, <1>10, <1>11, <1>12

\* The rows of a table between two offsets, as a paginator collects them.
Stretch(S, from, to) ==
    SubSeq(InOrder(S, 1, "asc", "asc"), from + 1, UpTo(Cardinality(S), to))

LEMMA StretchJoin ==
    ASSUME NEW S \in SUBSET Rows, NEW off \in Nat, NEW size \in Nat \ {0}, NEW from \in 0 .. off
    PROVE  Stretch(S, from, off) \o Window(S, off, size) = Stretch(S, from, off + size)
<1>1. /\ Stretch(S, from, off)
           = SubSeq(InOrder(S, 1, "asc", "asc"), from + 1, UpTo(Cardinality(S), off))
      /\ Stretch(S, from, off + size)
           = SubSeq(InOrder(S, 1, "asc", "asc"), from + 1, UpTo(Cardinality(S), off + size))
  BY ZenonT(10) DEF Stretch
<1>2. SubSeq(InOrder(S, 1, "asc", "asc"), from + 1, UpTo(Cardinality(S), off))
        \o Window(S, off, size)
      = SubSeq(InOrder(S, 1, "asc", "asc"), from + 1, UpTo(Cardinality(S), off + size))
  BY WindowsJoin, ZenonT(10)
<1> QED BY <1>1, <1>2, ZenonT(10)

LEMMA FetchKept ==
    ASSUME PaginatorInv, FetchAndNext
    PROVE  MissedInv' /\ RepeatedInv' /\ EndInv' /\ QuietInv'
<1> DEFINE size == pages.page_size
           page == Window(table, Off, size)
           R == Range(got)
           P == Range(page)
           n == Cardinality(table)
<1>1. /\ ~ByCursor /\ (ByCursor' <=> ByCursor) /\ ~done /\ got' = got \o FetchPage(pages, table)
      /\ (done' <=> FetchPage(pages, table) = <<>>)
      /\ table' = table /\ way' = way /\ stayed' = stayed /\ inserts' = inserts
      /\ deletes' = deletes /\ total' = total
      /\ pages' = [pages EXCEPT !.page = pages.page + 1]
  BY DEF FetchAndNext, ByCursor, NextPage
<1>2. /\ table \in SUBSET Rows /\ stayed \in SUBSET table /\ got \in Seq(Rows)
      /\ inserts \in Nat /\ deletes \in Nat /\ pages \in [page : Nat, page_size : Sizes]
  BY DEF PaginatorInv, TypeInv
<1>3. /\ Off \in Nat /\ Skipped \in Nat /\ way.from \in Nat /\ pages.page \in Nat
      /\ size \in Nat \ {0} /\ (way.from <= pages.page => Skipped <= Off)
      /\ FetchPage(pages, table) = page /\ size * (pages.page + 1) = Off + size
  BY <1>1, OffsNumbered DEF PaginatorInv
<1>4. /\ pages'.page = pages.page + 1 /\ pages'.page_size = size
      /\ Off' = Off + size /\ Skipped' = Skipped
      /\ \A k : PagesNumber(pages, k)' = PagesNumber(pages, k)
  <2>1. pages'.page = pages.page + 1 /\ pages'.page_size = size
    BY <1>1, <1>2
  <2> QED BY <1>1, <1>3, <2>1 DEF Off, Skipped, PagesNumber
<1>5. /\ page \in Seq(Rows) /\ (page = <<>> <=> n <= Off) /\ n \in Nat
  <2>1. Off \in Nat /\ size \in Nat \ {0}
    BY <1>3
  <2>2. page \in Seq(table) /\ (page = <<>> <=> n <= Off) /\ n \in Nat
    BY <1>2, <2>1, WindowHolds
  <2> HIDE DEF page
  <2> QED BY <1>2, <2>2
<1>6. got' = got \o page /\ (done' <=> page = <<>>)
  BY <1>1, <1>3
<1>7. R \in SUBSET Rows /\ Range(got') = R \cup P /\ Len(got') = Len(got) + Len(page)
  BY <1>2, <1>5, <1>6, RangeOfRows
<1> DEFINE m1 == Cardinality(Missing(table, stayed, R, Off))
           m2 == Cardinality(Missing(table, stayed, R \cup P, Off + size))
           d1 == Cardinality(Repeats(table, R, Off))
           d2 == Cardinality(Repeats(table, R \cup P, Off + size))
           c1 == Cardinality(R)
           c2 == Cardinality(R \cup P)
<1>8. m2 <= m1 /\ Len(page) + d2 + c1 <= d1 + c2
  BY <1>2, <1>3, <1>7, ReadShifts
<1>9. m1 \in Nat /\ m2 \in Nat /\ d1 \in Nat /\ d2 \in Nat
  BY <1>2, BothFinite
<1>10. c1 \in Nat /\ c2 \in Nat /\ Len(got) \in Nat /\ Len(page) \in Nat
  <2>1. P \in SUBSET Rows
    BY <1>5, RangeOfRows
  <2>2. IsFiniteSet(R \cup P)
    BY <1>7, <2>1, PagesAssumption, FS_Subset
  <2> QED BY <1>2, <1>5, <2>2, RangeOfRows, FS_CardinalityType
<1>11. way.from <= pages.page /\ m1 <= deletes + Skipped
  BY <1>1 DEF PaginatorInv, MissedInv
<1>12. Len(got) + d1 <= inserts + c1
  BY <1>1 DEF PaginatorInv, RepeatedInv
<1>13. MissedInv' <=> way.from <= pages.page + 1 /\ m2 <= deletes + Skipped
  BY <1>1, <1>4, <1>7 DEF MissedInv
<1>14. RepeatedInv' <=> Len(got) + Len(page) + d2 <= inserts + c2
  BY <1>1, <1>4, <1>7 DEF RepeatedInv
<1> HIDE DEF m1, m2, d1, d2, c1, c2
<1>15. MissedInv'
  BY <1>2, <1>3, <1>8, <1>9, <1>11, <1>13
<1>16. RepeatedInv'
  BY <1>2, <1>8, <1>9, <1>10, <1>12, <1>14
<1>17. EndInv'
  <2>1. done' => n <= Off
    BY <1>5, <1>6
  <2>2. done' => n <= Off + size
    BY <1>3, <1>5, <2>1
  <2> QED BY <1>1, <1>4, <2>2 DEF EndInv
<1>18. QuietInv'
  <2> SUFFICES ASSUME inserts + deletes = 0
               PROVE  /\ got' = SubSeq(InOrder(table, 1, "asc", "asc"), Skipped + 1,
                                       UpTo(n, Off + size))
                      /\ total = PagesNumber(pages, n)
                      /\ IF done' THEN pages.page + 1
                                         = (IF total < way.from THEN way.from ELSE total) + 1
                         ELSE pages.page + 1 = way.from \/ pages.page + 1 <= total
    BY <1>1, <1>4 DEF QuietInv
  <2>1. /\ got = SubSeq(InOrder(table, 1, "asc", "asc"), Skipped + 1, UpTo(n, Off))
        /\ total = PagesNumber(pages, n)
        /\ pages.page = way.from \/ pages.page <= total
    BY <1>1 DEF PaginatorInv, QuietInv
  <2>2. Skipped \in 0 .. Off
    BY <1>3, <1>11
  <2>3. got' = SubSeq(InOrder(table, 1, "asc", "asc"), Skipped + 1, UpTo(n, Off + size))
    <3>1. Off \in Nat /\ size \in Nat \ {0}
      BY <1>3
    <3>2. got = Stretch(table, Skipped, Off)
      BY <2>1 DEF Stretch
    <3> HIDE DEF size, n
    <3>3. got' = got \o Window(table, Off, size)
      BY <1>6, Zenon
    <3>4. Stretch(table, Skipped, Off) \o Window(table, Off, size)
            = Stretch(table, Skipped, Off + size)
      <4>1. /\ table \in SUBSET Rows /\ Off \in Nat /\ size \in Nat \ {0} /\ Skipped \in 0 .. Off
        BY <1>2, <2>2, <3>1
      <4> QED BY <4>1, StretchJoin, Zenon
    <3>5. got' = Stretch(table, Skipped, Off + size)
      BY <3>2, <3>3, <3>4
    <3> QED BY <3>5 DEF Stretch, n
  <2>4. total \in Nat /\ (n <= Off <=> total <= pages.page)
    BY <1>2, <1>3, <1>5, <2>1, PagesReach DEF Off
  <2> HIDE DEF n, page
  <2>5. CASE page = <<>>
    <3>1. pages.page = IF total < way.from THEN way.from ELSE total
      BY <1>3, <1>5, <1>11, <2>1, <2>4, <2>5
    <3> QED BY <1>6, <2>1, <2>3, <2>5, <3>1
  <2>6. CASE page # <<>>
    <3>1. pages.page + 1 <= total
      BY <1>3, <1>5, <2>4, <2>6
    <3> QED BY <1>6, <2>1, <2>3, <2>6, <3>1
  <2> QED BY <2>5, <2>6
<1> QED BY <1>15, <1>16, <1>17, <1>18

LEMMA PaginatorAtFirst ==
    ASSUME Init
    PROVE  PaginatorInv
<1>1. PICK w \in CursorWays \cup PageWays, n \in Sizes, t \in SUBSET Rows : Reads(w, n, t)
  <2>1. (CHOOSE n \in Sizes : TRUE) \in Sizes
    BY PagesAssumption
  <2> QED BY <2>1 DEF Init
<1>2. TypeInv
  BY WalkAtFirst DEF CursorInv
<1> SUFFICES ASSUME ~ByCursor PROVE PaginatorInv
  BY <1>2 DEF PaginatorInv, MissedInv, RepeatedInv, EndInv, QuietInv
<1>3. /\ way = w /\ table = t /\ stayed = t /\ got = <<>> /\ done = FALSE
      /\ inserts = 0 /\ deletes = 0
      /\ pages = SetPage(Paginate(n), w.from) /\ total = PagesNumber(pages, NumItems(t))
  BY <1>1 DEF Reads
<1>4. pages.page = way.from /\ pages.page_size = n /\ Off = Skipped
  BY <1>3 DEF SetPage, Paginate, Off, Skipped
<1>5. Off \in Nat /\ Skipped \in Nat /\ way.from \in Nat /\ table \in SUBSET Rows
  BY <1>2, OffsNumbered DEF TypeInv
<1>6. Range(got) = {} /\ Len(got) = 0
  BY <1>3 DEF Range
<1>7. MissedInv
  <2>1. Cardinality(Missing(table, stayed, {}, Off)) <= Off
    BY <1>3, <1>5, FewPlaces
  <2>2. Off = deletes + Skipped
    BY <1>3, <1>4, <1>5
  <2>3. Cardinality(Missing(table, stayed, Range(got), Off)) <= deletes + Skipped
    BY <1>6, <2>1, <2>2
  <2>4. way.from <= pages.page
    BY <1>4, <1>5
  <2> QED BY <2>3, <2>4 DEF MissedInv
<1>8. RepeatedInv
  <2>1. Repeats(table, Range(got), Off) = {}
    BY <1>6 DEF Repeats
  <2>2. Cardinality(Repeats(table, Range(got), Off)) = 0 /\ Cardinality(Range(got)) = 0
    BY <1>6, <2>1, FS_EmptySet
  <2>3. inserts = 0 /\ Len(got) = 0
    BY <1>3, <1>6
  <2> HIDE DEF Repeats
  <2> QED BY <2>2, <2>3 DEF RepeatedInv
<1>9. EndInv
  BY <1>3 DEF EndInv
<1>10. QuietInv
  <2>1. Cardinality(table) \in Nat
    BY <1>5, PlaceOrders
  <2>2. UpTo(Cardinality(table), Off) < Skipped + 1 /\ UpTo(Cardinality(table), Off) \in Int
    BY <1>4, <1>5, <2>1 DEF UpTo
  <2>3. SubSeq(InOrder(table, 1, "asc", "asc"), Skipped + 1, UpTo(Cardinality(table), Off)) = <<>>
    BY <1>5, <2>2, SubSeqEmpty
  <2> QED BY <1>3, <1>4, <2>3 DEF QuietInv, NumItems
<1> QED BY <1>2, <1>7, <1>8, <1>9, <1>10 DEF PaginatorInv

\* A paginator misses a row for each delete at most, and repeats one for each
\* insert; undisturbed it reads the table in order, in as many pages as said.
THEOREM AlwaysShifts == Spec => []PaginatorShifts
<1>1. Init => CursorInv /\ PaginatorInv
  BY WalkAtFirst, PaginatorAtFirst
<1>2. CursorInv /\ PaginatorInv /\ [Next]_vars => (CursorInv /\ PaginatorInv)'
  <2> SUFFICES ASSUME CursorInv, PaginatorInv, [Next]_vars PROVE CursorInv' /\ PaginatorInv'
    OBVIOUS
  <2>1. CursorInv' /\ TypeInv'
    BY WalkKept, TypeStep
  <2>2. ASSUME NEW r \in Rows, Insert(r) \/ Delete(r)
        PROVE  MissedInv' /\ RepeatedInv' /\ EndInv' /\ QuietInv'
    BY <2>2, InsertKept, DeleteKept
  <2>3. ASSUME NEW n \in Sizes, NEW tie \in {"asc", "desc"}, FetchByCursor(n, tie)
        PROVE  MissedInv' /\ RepeatedInv' /\ EndInv' /\ QuietInv'
    <3>1. ByCursor'
      BY <2>3 DEF FetchByCursor, ByCursor
    <3> QED BY <3>1 DEF MissedInv, RepeatedInv, EndInv, QuietInv
  <2>4. ASSUME UNCHANGED vars PROVE MissedInv' /\ RepeatedInv' /\ EndInv' /\ QuietInv'
    <3>1. Off' = Off /\ Skipped' = Skipped /\ (ByCursor' <=> ByCursor)
      BY <2>4 DEF vars, Off, Skipped, ByCursor
    <3> QED BY <2>4, <3>1 DEF vars, PaginatorInv, MissedInv, RepeatedInv, EndInv, QuietInv
  <2> QED BY <2>1, <2>2, <2>3, <2>4, FetchKept DEF Next, Read, PaginatorInv
<1>3. PaginatorInv => PaginatorShifts
  <2> SUFFICES ASSUME PaginatorInv, ~ByCursor, done
               PROVE  /\ Cardinality(stayed \ Range(got)) <= deletes + Skipped
                      /\ Len(got) - Cardinality(Range(got)) <= inserts
                      /\ inserts + deletes = 0 =>
                            /\ got = SubSeq(InOrder(table, 1, "asc", "asc"), Skipped + 1,
                                            Cardinality(table))
                            /\ pages.page = (IF total < way.from THEN way.from ELSE total) + 1
    BY DEF PaginatorShifts, Skipped
  <2>1. /\ Off \in Nat /\ table \in SUBSET Rows /\ stayed \in SUBSET table /\ got \in Seq(Rows)
        /\ inserts \in Nat /\ stayed \in SUBSET Rows
    BY OffsNumbered DEF PaginatorInv, TypeInv
  <2>2. Cardinality(table) <= Off /\ Cardinality(table) \in Nat
    BY <2>1, PlaceOrders DEF PaginatorInv, EndInv
  <2>3. stayed \ Range(got) = Missing(table, stayed, Range(got), Off)
    <3>1. ASSUME NEW r \in stayed PROVE Place(table, r) < Off
      <4>1. r \in table
        BY <2>1
      <4>2. Place(table, r) \in Nat /\ Place(table, r) < Cardinality(table)
        BY <2>1, <4>1, PlaceOrders
      <4> QED BY <2>1, <2>2, <4>2
    <3> QED BY <3>1 DEF Missing
  <2>4. Cardinality(stayed \ Range(got)) <= deletes + Skipped
    BY <2>3 DEF PaginatorInv, MissedInv
  <2>5. Len(got) - Cardinality(Range(got)) <= inserts
    <3> DEFINE d == Cardinality(Repeats(table, Range(got), Off))
               c == Cardinality(Range(got))
    <3>1. Len(got) + d <= inserts + c
      BY DEF PaginatorInv, RepeatedInv
    <3>2. d \in Nat /\ c \in Nat /\ Len(got) \in Nat
      BY <2>1, BothFinite, RangeOfRows
    <3> HIDE DEF d, c
    <3>3. Len(got) - c <= inserts
      BY <2>1, <3>1, <3>2
    <3> QED BY <3>3 DEF c
  <2>6. UpTo(Cardinality(table), Off) = Cardinality(table)
    BY <2>1, <2>2 DEF UpTo
  <2> QED BY <2>4, <2>5, <2>6 DEF PaginatorInv, QuietInv
<1> QED BY <1>1, <1>2, <1>3, PTL DEF Spec
=============================================================================
