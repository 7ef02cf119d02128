---------------------------- MODULE PassageProof ----------------------------
(***************************************************************************)
(* Proofs about Row and Passage, for texts of any length and any number of *)
(* files.                                                                  *)
(***************************************************************************)
EXTENDS Passage, FormProof

-----------------------------------------------------------------------------
(* The ends of columns, counted *)

\* The ends up to a position
EndsTo(s, p) == {q \in Ends(s) : q <= p}

LEMMA EndsFinite ==
  ASSUME NEW s \in Seq(Byte)
  PROVE  /\ Ends(s) \in SUBSET (Nat \ {0}) /\ \A p \in Ends(s) : p <= Len(s)
         /\ IsFiniteSet(Ends(s)) /\ Cardinality(Ends(s)) \in Nat
         /\ \A p : /\ EndsTo(s, p) \subseteq Ends(s)
                   /\ IsFiniteSet(EndsTo(s, p)) /\ Cardinality(EndsTo(s, p)) \in Nat
<1>1. Len(s) \in Nat /\ 1 \in Int
  OBVIOUS
<1>2. Ends(s) \in SUBSET (1..Len(s))
  BY DEF Ends
<1>3. IsFiniteSet(1..Len(s))
  BY ONLY <1>1, FS_Interval
<1>4. IsFiniteSet(Ends(s))
  BY ONLY <1>2, <1>3, FS_Subset
<1>5. \A p : EndsTo(s, p) \in SUBSET Ends(s)
  BY DEF EndsTo
<1>6. \A p : IsFiniteSet(EndsTo(s, p))
  BY ONLY <1>4, <1>5, FS_Subset
<1>7. Ends(s) \in SUBSET (Nat \ {0}) /\ \A p \in Ends(s) : p <= Len(s)
  BY ONLY <1>1, <1>2
<1> QED BY ONLY <1>4, <1>5, <1>6, <1>7, FS_CardinalityType

\* An end is that of the column of which it has the number.
LEMMA EndIs ==
  ASSUME NEW s \in Seq(Byte), NEW c \in Nat \ {0}, NEW p \in Ends(s),
         Cardinality(EndsTo(s, p)) = c
  PROVE  EndOfColumn(s, c) = p
<1>1. \A x \in Ends(s) : x \in Nat
  BY EndsFinite
<1>2. ASSUME NEW x \in Ends(s), NEW y \in Ends(s), x < y
      PROVE  Cardinality(EndsTo(s, x)) # Cardinality(EndsTo(s, y))
  <2>1. EndsTo(s, x) \in SUBSET EndsTo(s, y) /\ y \in EndsTo(s, y) /\ y \notin EndsTo(s, x)
    BY <1>1, <1>2 DEF EndsTo
  <2>2. IsFiniteSet(EndsTo(s, y))
    BY EndsFinite
  <2>3. EndsTo(s, x) # EndsTo(s, y)
    BY ONLY <2>1
  <2> QED BY ONLY <2>1, <2>2, <2>3, FS_Subset
<1>3. \A x \in Ends(s) : Cardinality(EndsTo(s, x)) = c => x = p
  <2> SUFFICES ASSUME NEW x \in Ends(s), Cardinality(EndsTo(s, x)) = c, x # p PROVE FALSE
    OBVIOUS
  <2>1. x < p \/ p < x
    BY <1>1
  <2> QED BY <1>2, <2>1
<1>4. EndOfColumn(s, c) = CHOOSE x \in Ends(s) : Cardinality(EndsTo(s, x)) = c
  BY DEF EndOfColumn, EndsTo
<1> QED BY <1>3, <1>4

\* The first end, and the one behind another
LEMMA FirstEnd ==
  ASSUME NEW s \in Seq(Byte), NEW p \in Ends(s), \A q \in 1..(p - 1) : q \notin Ends(s)
  PROVE  Cardinality(EndsTo(s, p)) = 1
<1>1. \A q \in Ends(s) : q \in Nat \ {0}
  BY EndsFinite
<1>2. EndsTo(s, p) = {p}
  BY <1>1 DEF EndsTo
<1> QED BY <1>2, FS_Singleton

LEMMA NextEnd ==
  ASSUME NEW s \in Seq(Byte), NEW p \in Ends(s), NEW q \in Ends(s), p < q,
         \A x \in (p + 1)..(q - 1) : x \notin Ends(s)
  PROVE  Cardinality(EndsTo(s, q)) = Cardinality(EndsTo(s, p)) + 1
<1>1. \A x \in Ends(s) : x \in Nat \ {0}
  BY EndsFinite
<1>2. EndsTo(s, q) = EndsTo(s, p) \cup {q} /\ q \notin EndsTo(s, p)
  BY <1>1 DEF EndsTo
<1>3. IsFiniteSet(EndsTo(s, p))
  BY EndsFinite
<1> QED BY ONLY <1>2, <1>3, FS_AddElement

\* Every column that is there has an end, and behind it the one before.
LEMMA EndThere ==
  ASSUME NEW s \in Seq(Byte), NEW c \in Nat, Cardinality(Ends(s)) > c,
         NEW a \in Nat, \/ c = 0 /\ a = 0
                        \/ a \in Ends(s) /\ Cardinality(EndsTo(s, a)) = c
  PROVE  \E p \in Ends(s) : a < p /\ Cardinality(EndsTo(s, p)) = c + 1
<1> DEFINE S == {q \in Ends(s) : q > a}
<1>1. /\ \A x \in Ends(s) : x \in Nat \ {0}
      /\ IsFiniteSet(Ends(s)) /\ Cardinality(Ends(s)) \in Nat
  BY EndsFinite
<1>2. S # {}
  <2> SUFFICES ASSUME S = {} PROVE FALSE
    OBVIOUS
  <2>1. EndsTo(s, a) = Ends(s)
    BY <1>1 DEF EndsTo
  <2>2. CASE c = 0 /\ a = 0
    <3>1. Ends(s) = {}
      BY <1>1, <2>2
    <3>2. Cardinality(Ends(s)) = 0
      BY ONLY <3>1, FS_EmptySet
    <3> QED BY <2>2, <3>2
  <2>3. CASE a \in Ends(s) /\ Cardinality(EndsTo(s, a)) = c
    <3>1. Cardinality(Ends(s)) = c
      BY ONLY <2>1, <2>3
    <3> QED BY <3>1
  <2> QED BY <2>2, <2>3
<1>3. S \in SUBSET Nat
  BY <1>1
<1>4. PICK p \in S : \A k \in S : p <= k
  <2> HIDE DEF S
  <2> QED BY ONLY <1>2, <1>3, NatMin
<1>5. p \in Ends(s) /\ a < p /\ p \in Nat \ {0} /\ \A x \in Ends(s) : x > a => p <= x
  BY <1>1, <1>4
<1> HIDE DEF S
<1>6. CASE c = 0 /\ a = 0
  <2>1. \A q \in 1..(p - 1) : q \notin Ends(s)
    BY <1>5, <1>6
  <2>2. Cardinality(EndsTo(s, p)) = 1
    BY ONLY s \in Seq(Byte), <1>5, <2>1, FirstEnd
  <2> QED BY <1>5, <1>6, <2>2
<1>7. CASE a \in Ends(s) /\ Cardinality(EndsTo(s, a)) = c
  <2>1. \A x \in (a + 1)..(p - 1) : x \notin Ends(s)
    BY <1>5, <1>7
  <2>2. Cardinality(EndsTo(s, p)) = Cardinality(EndsTo(s, a)) + 1
    BY ONLY s \in Seq(Byte), <1>5, <1>7, <2>1, NextEnd
  <2> QED BY <1>5, <1>7, <2>2
<1> QED BY <1>6, <1>7

\* The end of a column that is there is one of the ends.
LEMMA EndsThere ==
  ASSUME NEW s \in Seq(Byte)
  PROVE  /\ HasColumn(s, 1) => EndOfColumn(s, 1) \in Ends(s)
         /\ HasColumn(s, 2) => EndOfColumn(s, 1) \in Ends(s) /\ EndOfColumn(s, 2) \in Ends(s)
         /\ HasColumn(s, 3) => EndOfColumn(s, 2) \in Ends(s) /\ EndOfColumn(s, 3) \in Ends(s)
         /\ HasColumn(s, 4) => EndOfColumn(s, 3) \in Ends(s) /\ EndOfColumn(s, 4) \in Ends(s)
         /\ HasColumn(s, 5) => EndOfColumn(s, 4) \in Ends(s) /\ EndOfColumn(s, 5) \in Ends(s)
<1> DEFINE N == Cardinality(Ends(s))
           Reached(c) == \E p \in Ends(s) : Cardinality(EndsTo(s, p)) = c
<1>1. N \in Nat /\ \A x \in Ends(s) : x \in Nat
  BY EndsFinite
<1> HIDE DEF N
<1>2. N > 0 => Reached(0 + 1)
  <2>1. 0 \in Nat
    OBVIOUS
  <2>2. N > 0 => \E p \in Ends(s) : 0 < p /\ Cardinality(EndsTo(s, p)) = 0 + 1
    BY ONLY s \in Seq(Byte), <2>1, EndThere DEF N
  <2> QED BY ONLY <2>2
<1>3. ASSUME NEW c \in Nat PROVE N > c /\ Reached(c) => Reached(c + 1)
  <2> SUFFICES ASSUME N > c, NEW a \in Ends(s), Cardinality(EndsTo(s, a)) = c
               PROVE  Reached(c + 1)
    OBVIOUS
  <2>1. a \in Nat
    BY ONLY <1>1
  <2>2. \E p \in Ends(s) : a < p /\ Cardinality(EndsTo(s, p)) = c + 1
    BY ONLY s \in Seq(Byte), c \in Nat, a \in Ends(s), N > c, Cardinality(EndsTo(s, a)) = c,
            <2>1, EndThere DEF N
  <2> QED BY ONLY <2>2
<1>4. ASSUME NEW c \in Nat \ {0}, Reached(c) PROVE EndOfColumn(s, c) \in Ends(s)
  BY ONLY s \in Seq(Byte), <1>4, EndIs
<1> HIDE DEF Reached
<1>5. 1 \in Nat \ {0} /\ 2 \in Nat \ {0} /\ 3 \in Nat \ {0} /\ 4 \in Nat \ {0} /\ 5 \in Nat \ {0}
  OBVIOUS
<1>6. N >= 1 => Reached(1)
  BY <1>1, <1>2
<1>7. N >= 2 => Reached(1) /\ Reached(2)
  <2>1. N > 1 /\ Reached(1) => Reached(1 + 1)
    BY <1>3
  <2> QED BY <1>1, <1>6, <2>1
<1>8. N >= 3 => Reached(2) /\ Reached(3)
  <2>1. N > 2 /\ Reached(2) => Reached(2 + 1)
    BY <1>3
  <2> QED BY <1>1, <1>7, <2>1
<1>9. N >= 4 => Reached(3) /\ Reached(4)
  <2>1. N > 3 /\ Reached(3) => Reached(3 + 1)
    BY <1>3
  <2> QED BY <1>1, <1>8, <2>1
<1>10. N >= 5 => Reached(4) /\ Reached(5)
  <2>1. N > 4 /\ Reached(4) => Reached(4 + 1)
    BY <1>3
  <2> QED BY <1>1, <1>9, <2>1
<1>11. /\ HasColumn(s, 1) <=> N >= 1
       /\ HasColumn(s, 2) <=> N >= 2
       /\ HasColumn(s, 3) <=> N >= 3
       /\ HasColumn(s, 4) <=> N >= 4
       /\ HasColumn(s, 5) <=> N >= 5
  BY ONLY DEF HasColumn, N
<1> QED BY ONLY <1>4, <1>5, <1>6, <1>7, <1>8, <1>9, <1>10, <1>11

\* Five positions that end columns, with no end between them, are the ends of
\* the first five.
LEMMA TheseEnds ==
  ASSUME NEW s \in Seq(Byte),
         NEW p1 \in Ends(s), NEW p2 \in Ends(s), NEW p3 \in Ends(s), NEW p4 \in Ends(s),
         NEW p5 \in Ends(s), p1 < p2, p2 < p3, p3 < p4, p4 < p5,
         \A q \in 1..p5 : q \in Ends(s) => q \in {p1, p2, p3, p4, p5}
  PROVE  /\ HasColumn(s, 1) /\ HasColumn(s, 2) /\ HasColumn(s, 3) /\ HasColumn(s, 4)
         /\ HasColumn(s, 5)
         /\ EndOfColumn(s, 1) = p1 /\ EndOfColumn(s, 2) = p2 /\ EndOfColumn(s, 3) = p3
         /\ EndOfColumn(s, 4) = p4 /\ EndOfColumn(s, 5) = p5
<1>1. /\ \A x \in Ends(s) : x \in Nat \ {0}
      /\ IsFiniteSet(Ends(s)) /\ Cardinality(Ends(s)) \in Nat
      /\ EndsTo(s, p5) \in SUBSET Ends(s)
  BY EndsFinite
<1>0. p1 \in Nat \ {0} /\ p2 \in Nat \ {0} /\ p3 \in Nat \ {0} /\ p4 \in Nat \ {0} /\ p5 \in Nat \ {0}
  BY <1>1
<1>2. Cardinality(EndsTo(s, p1)) = 1
  <2>1. \A q \in 1..(p1 - 1) : q \in 1..p5 /\ q \notin {p1, p2, p3, p4, p5}
    BY <1>0
  <2> QED BY <2>1, FirstEnd
<1>3. Cardinality(EndsTo(s, p2)) = 2
  <2>1. \A q \in (p1 + 1)..(p2 - 1) : q \in 1..p5 /\ q \notin {p1, p2, p3, p4, p5}
    BY <1>0
  <2>2. Cardinality(EndsTo(s, p2)) = Cardinality(EndsTo(s, p1)) + 1
    BY <2>1, NextEnd
  <2> QED BY <1>2, <2>2
<1>4. Cardinality(EndsTo(s, p3)) = 3
  <2>1. \A q \in (p2 + 1)..(p3 - 1) : q \in 1..p5 /\ q \notin {p1, p2, p3, p4, p5}
    BY <1>0
  <2>2. Cardinality(EndsTo(s, p3)) = Cardinality(EndsTo(s, p2)) + 1
    BY <2>1, NextEnd
  <2> QED BY <1>3, <2>2
<1>5. Cardinality(EndsTo(s, p4)) = 4
  <2>1. \A q \in (p3 + 1)..(p4 - 1) : q \in 1..p5 /\ q \notin {p1, p2, p3, p4, p5}
    BY <1>0
  <2>2. Cardinality(EndsTo(s, p4)) = Cardinality(EndsTo(s, p3)) + 1
    BY <2>1, NextEnd
  <2> QED BY <1>4, <2>2
<1>6. Cardinality(EndsTo(s, p5)) = 5
  <2>1. \A q \in (p4 + 1)..(p5 - 1) : q \in 1..p5 /\ q \notin {p1, p2, p3, p4, p5}
    BY <1>0
  <2>2. Cardinality(EndsTo(s, p5)) = Cardinality(EndsTo(s, p4)) + 1
    BY <2>1, NextEnd
  <2> QED BY <1>5, <2>2
<1>7. Cardinality(Ends(s)) >= 5
  <2>1. Cardinality(EndsTo(s, p5)) <= Cardinality(Ends(s))
    BY ONLY <1>1, FS_Subset
  <2> QED BY <1>1, <1>6, <2>1
<1>8. 1 \in Nat \ {0} /\ 2 \in Nat \ {0} /\ 3 \in Nat \ {0} /\ 4 \in Nat \ {0} /\ 5 \in Nat \ {0}
  OBVIOUS
<1>9. /\ EndOfColumn(s, 1) = p1 /\ EndOfColumn(s, 2) = p2 /\ EndOfColumn(s, 3) = p3
      /\ EndOfColumn(s, 4) = p4 /\ EndOfColumn(s, 5) = p5
  BY <1>2, <1>3, <1>4, <1>5, <1>6, <1>8, EndIs
<1>10. /\ HasColumn(s, 1) /\ HasColumn(s, 2) /\ HasColumn(s, 3) /\ HasColumn(s, 4)
       /\ HasColumn(s, 5)
  BY <1>1, <1>7 DEF HasColumn
<1> QED BY <1>9, <1>10

-----------------------------------------------------------------------------
(* The value of a row *)

\* A column more
LEMMA Joined ==
  ASSUME NEW s \in Seq(Byte), NEW t \in Seq(Byte)
  PROVE  LET u == s \o <<Bar>> \o t
         IN  /\ u \in Seq(Byte) /\ Len(u) = Len(s) + 1 + Len(t)
             /\ u[Len(s) + 1] = Bar
             /\ \A i \in 1..Len(s) : u[i] = s[i]
             /\ \A i \in 1..Len(t) : u[Len(s) + 1 + i] = t[i]
<1> DEFINE B == <<Bar>>
           v == s \o B
           u == v \o t
<1>1. B \in Seq(Byte) /\ Len(B) = 1 /\ B[1] = Bar
  BY ByteAssumption, OneByte
<1> HIDE DEF B
<1>2. Len(s) \in Nat /\ Len(t) \in Nat
  OBVIOUS
<1>3. /\ v \in Seq(Byte) /\ Len(v) = Len(s) + Len(B)
      /\ \A i \in 1..(Len(s) + Len(B)) : v[i] = IF i <= Len(s) THEN s[i] ELSE B[i - Len(s)]
  BY ONLY s \in Seq(Byte), <1>1, ConcatProperties
<1>4. /\ Len(v) = Len(s) + 1 /\ v[Len(s) + 1] = Bar
      /\ \A i \in 1..Len(s) : v[i] = s[i]
  <2>1. Len(s) + 1 \in 1..(Len(s) + Len(B)) /\ ~ Len(s) + 1 <= Len(s) /\ Len(s) + 1 - Len(s) = 1
    BY ONLY <1>1, <1>2
  <2>2. \A i \in 1..Len(s) : i \in 1..(Len(s) + Len(B)) /\ i <= Len(s)
    BY ONLY <1>1, <1>2
  <2> HIDE DEF v
  <2>3. v[Len(s) + 1] = B[1]
    BY ONLY <1>3, <2>1
  <2> QED BY ONLY <1>1, <1>3, <2>2, <2>3
<1> HIDE DEF v, u
<1>5. /\ u \in Seq(Byte) /\ Len(u) = Len(v) + Len(t)
      /\ \A i \in 1..(Len(v) + Len(t)) : u[i] = IF i <= Len(v) THEN v[i] ELSE t[i - Len(v)]
  <2>1. v \in Seq(Byte)
    BY ONLY <1>3
  <2> QED BY ONLY t \in Seq(Byte), <2>1, ConcatProperties DEF u
<1>6. Len(u) = Len(s) + 1 + Len(t)
  BY ONLY <1>2, <1>4, <1>5
<1>7. u[Len(s) + 1] = Bar
  <2>1. Len(s) + 1 \in 1..(Len(v) + Len(t)) /\ Len(s) + 1 <= Len(v)
    BY ONLY <1>2, <1>4
  <2> QED BY ONLY <1>4, <1>5, <2>1
<1>8. \A i \in 1..Len(s) : u[i] = s[i]
  <2>1. \A i \in 1..Len(s) : i \in 1..(Len(v) + Len(t)) /\ i <= Len(v)
    BY ONLY <1>2, <1>4
  <2> QED BY ONLY <1>4, <1>5, <2>1
<1>9. \A i \in 1..Len(t) : u[Len(s) + 1 + i] = t[i]
  <2>1. \A i \in 1..Len(t) : /\ Len(s) + 1 + i \in 1..(Len(v) + Len(t))
                             /\ ~ Len(s) + 1 + i <= Len(v)
                             /\ Len(s) + 1 + i - Len(v) = i
    BY ONLY <1>2, <1>4
  <2> QED BY ONLY <1>5, <2>1
<1> QED BY ONLY <1>5, <1>6, <1>7, <1>8, <1>9 DEF u, v, B

\* What stands behind the last dot of a name is a piece of the name.
LEMMA SuffixType ==
  ASSUME NEW n \in Seq(Byte)
  PROVE  file_suffix_get(n) \in Seq(Byte)
<1> DEFINE dots == {i \in DOMAIN n : n[i] = Dot}
           m == Max(dots)
           u == SubSeq(n, m + 1, Len(n))
<1>1. NoSuffix \in Seq(Byte)
  BY NullAssumption, OneByte DEF NoSuffix
<1>2. ASSUME dots # {} PROVE u \in Seq(Byte)
  <2>1. DOMAIN n = 1..Len(n) /\ Len(n) \in Nat
    OBVIOUS
  <2> DEFINE back == {Len(n) - i : i \in dots}
  <2>2. back \in SUBSET Nat /\ back # {}
    BY <1>2, <2>1
  <2>3. PICK k \in back : \A l \in back : k <= l
    <3> HIDE DEF back
    <3> QED BY ONLY <2>2, NatMin
  <2>4. PICK i \in dots : k = Len(n) - i
    BY <2>3
  <2>5. \A j \in dots : Len(n) - i <= Len(n) - j
    BY <2>3, <2>4
  <2>6. \A j \in dots : i >= j
    BY <2>1, <2>5
  <2>7. m \in dots
    BY <2>6 DEF Max
  <2>8. m \in Nat
    BY <2>1, <2>7
  <2> HIDE DEF m, dots
  <2>9. \A j \in (m + 1)..Len(n) : n[j] \in Byte
    BY <2>1, <2>8
  <2>10. m + 1 \in Int /\ Len(n) \in Int
    BY <2>1, <2>8
  <2> QED BY ONLY <2>9, <2>10, SubSeqProperties
<1>3. file_suffix_get(n) = IF dots = {} \/ u = << >> THEN NoSuffix ELSE u
  BY DEF file_suffix_get
<1> QED BY ONLY <1>1, <1>2, <1>3

\* The columns of a value: the bars behind the first five, and what is between.
ShapeOf(V, I, U, N, T, S, X, b1, b2, b3, b4, b5) ==
  /\ b1 \in Nat /\ b2 \in Nat /\ b3 \in Nat /\ b4 \in Nat /\ b5 \in Nat
  /\ b1 = Len(I) + 1 /\ b2 = b1 + Len(U) + 1 /\ b3 = b2 + Len(N) + 1
  /\ b4 = b3 + Len(T) + 1 /\ b5 = b4 + Len(S) + 1
  /\ V \in Seq(Byte) /\ Len(V) = b5 + Len(X)
  /\ V[b1] = Bar /\ V[b2] = Bar /\ V[b3] = Bar /\ V[b4] = Bar /\ V[b5] = Bar
  /\ \A i \in 1..Len(I) : V[i] = I[i]
  /\ \A i \in 1..Len(U) : V[b1 + i] = U[i]
  /\ \A i \in 1..Len(N) : V[b2 + i] = N[i]
  /\ \A i \in 1..Len(T) : V[b3 + i] = T[i]
  /\ \A i \in 1..Len(S) : V[b4 + i] = S[i]

LEMMA FiveColumns ==
  ASSUME NEW I \in Seq(Byte), NEW U \in Seq(Byte), NEW N \in Seq(Byte),
         NEW T \in Seq(Byte), NEW S \in Seq(Byte), NEW X \in Seq(Byte)
  PROVE  \E b1, b2, b3, b4, b5 :
           ShapeOf(I \o <<Bar>> \o U \o <<Bar>> \o N \o <<Bar>> \o T
                     \o <<Bar>> \o S \o <<Bar>> \o X, I, U, N, T, S, X, b1, b2, b3, b4, b5)
<1> DEFINE V2 == I \o <<Bar>> \o U
           V3 == V2 \o <<Bar>> \o N
           V4 == V3 \o <<Bar>> \o T
           V5 == V4 \o <<Bar>> \o S
           V6 == V5 \o <<Bar>> \o X
           b1 == Len(I) + 1
           b2 == b1 + Len(U) + 1
           b3 == b2 + Len(N) + 1
           b4 == b3 + Len(T) + 1
           b5 == b4 + Len(S) + 1
<1>0. /\ Len(I) \in Nat /\ Len(U) \in Nat /\ Len(N) \in Nat /\ Len(T) \in Nat
      /\ Len(S) \in Nat /\ Len(X) \in Nat
  OBVIOUS
<1>1. b1 \in Nat /\ b2 \in Nat /\ b3 \in Nat /\ b4 \in Nat /\ b5 \in Nat
  BY ONLY <1>0
<1>2. /\ V2 \in Seq(Byte) /\ Len(V2) = b2 - 1
      /\ V2[b1] = Bar
      /\ \A i \in 1..Len(I) : V2[i] = I[i]
      /\ \A i \in 1..Len(U) : V2[b1 + i] = U[i]
  <2>1. /\ V2 \in Seq(Byte) /\ Len(V2) = Len(I) + 1 + Len(U)
        /\ V2[Len(I) + 1] = Bar
        /\ \A i \in 1..Len(I) : V2[i] = I[i]
        /\ \A i \in 1..Len(U) : V2[Len(I) + 1 + i] = U[i]
    BY ONLY I \in Seq(Byte), U \in Seq(Byte), Joined
  <2>2. Len(I) + 1 + Len(U) = b2 - 1
    BY ONLY <1>0
  <2> QED BY ONLY <2>1, <2>2
<1>3. /\ V3 \in Seq(Byte) /\ Len(V3) = b3 - 1
      /\ V3[b2] = Bar
      /\ \A i \in 1..(b2 - 1) : V3[i] = V2[i]
      /\ \A i \in 1..Len(N) : V3[b2 + i] = N[i]
  <2> HIDE DEF V2, b2
  <2>1. /\ V3 \in Seq(Byte) /\ Len(V3) = Len(V2) + 1 + Len(N)
        /\ V3[Len(V2) + 1] = Bar
        /\ \A i \in 1..Len(V2) : V3[i] = V2[i]
        /\ \A i \in 1..Len(N) : V3[Len(V2) + 1 + i] = N[i]
    BY ONLY <1>2, N \in Seq(Byte), Joined
  <2>2. Len(V2) + 1 = b2 /\ Len(V2) + 1 + Len(N) = b3 - 1
    BY ONLY <1>0, <1>1, <1>2
  <2> HIDE DEF V3
  <2> QED BY ONLY <1>2, <2>1, <2>2
<1>4. /\ V4 \in Seq(Byte) /\ Len(V4) = b4 - 1
      /\ V4[b3] = Bar
      /\ \A i \in 1..(b3 - 1) : V4[i] = V3[i]
      /\ \A i \in 1..Len(T) : V4[b3 + i] = T[i]
  <2> HIDE DEF V3, b3
  <2>1. /\ V4 \in Seq(Byte) /\ Len(V4) = Len(V3) + 1 + Len(T)
        /\ V4[Len(V3) + 1] = Bar
        /\ \A i \in 1..Len(V3) : V4[i] = V3[i]
        /\ \A i \in 1..Len(T) : V4[Len(V3) + 1 + i] = T[i]
    BY ONLY <1>3, T \in Seq(Byte), Joined
  <2>2. Len(V3) + 1 = b3 /\ Len(V3) + 1 + Len(T) = b4 - 1
    BY ONLY <1>0, <1>1, <1>3
  <2> HIDE DEF V4
  <2> QED BY ONLY <1>3, <2>1, <2>2
<1>5. /\ V5 \in Seq(Byte) /\ Len(V5) = b5 - 1
      /\ V5[b4] = Bar
      /\ \A i \in 1..(b4 - 1) : V5[i] = V4[i]
      /\ \A i \in 1..Len(S) : V5[b4 + i] = S[i]
  <2> HIDE DEF V4, b4
  <2>1. /\ V5 \in Seq(Byte) /\ Len(V5) = Len(V4) + 1 + Len(S)
        /\ V5[Len(V4) + 1] = Bar
        /\ \A i \in 1..Len(V4) : V5[i] = V4[i]
        /\ \A i \in 1..Len(S) : V5[Len(V4) + 1 + i] = S[i]
    BY ONLY <1>4, S \in Seq(Byte), Joined
  <2>2. Len(V4) + 1 = b4 /\ Len(V4) + 1 + Len(S) = b5 - 1
    BY ONLY <1>0, <1>1, <1>4
  <2> HIDE DEF V5
  <2> QED BY ONLY <1>4, <2>1, <2>2
<1>6. /\ V6 \in Seq(Byte) /\ Len(V6) = b5 + Len(X)
      /\ V6[b5] = Bar
      /\ \A i \in 1..(b5 - 1) : V6[i] = V5[i]
  <2> HIDE DEF V5, b5
  <2>1. /\ V6 \in Seq(Byte) /\ Len(V6) = Len(V5) + 1 + Len(X)
        /\ V6[Len(V5) + 1] = Bar
        /\ \A i \in 1..Len(V5) : V6[i] = V5[i]
    BY ONLY <1>5, X \in Seq(Byte), Joined
  <2>2. Len(V5) + 1 = b5 /\ Len(V5) + 1 + Len(X) = b5 + Len(X)
    BY ONLY <1>0, <1>1, <1>5
  <2> HIDE DEF V6
  <2> QED BY ONLY <1>5, <2>1, <2>2
<1>7. /\ b1 \in 1..(b2 - 1) /\ b2 \in 1..(b3 - 1) /\ b3 \in 1..(b4 - 1) /\ b4 \in 1..(b5 - 1)
      /\ \A i \in 1..Len(I) : i \in 1..(b2 - 1)
      /\ \A i \in 1..Len(U) : b1 + i \in 1..(b2 - 1)
      /\ \A i \in 1..Len(N) : b2 + i \in 1..(b3 - 1)
      /\ \A i \in 1..Len(T) : b3 + i \in 1..(b4 - 1)
      /\ \A i \in 1..Len(S) : b4 + i \in 1..(b5 - 1)
  BY ONLY <1>0
<1>8. /\ \A i \in 1..(b4 - 1) : i \in 1..(b5 - 1)
      /\ \A i \in 1..(b3 - 1) : i \in 1..(b4 - 1)
      /\ \A i \in 1..(b2 - 1) : i \in 1..(b3 - 1)
  BY ONLY <1>0
<1> HIDE DEF V2, V3, V4, V5, V6, b1, b2, b3, b4, b5
<1>9. \A i \in 1..(b4 - 1) : V6[i] = V4[i]
  BY ONLY <1>5, <1>6, <1>8
<1>10. \A i \in 1..(b3 - 1) : V6[i] = V3[i]
  BY ONLY <1>4, <1>8, <1>9
<1>11. \A i \in 1..(b2 - 1) : V6[i] = V2[i]
  BY ONLY <1>3, <1>8, <1>10
<1>12. V6[b1] = Bar /\ V6[b2] = Bar /\ V6[b3] = Bar /\ V6[b4] = Bar /\ V6[b5] = Bar
  BY ONLY <1>2, <1>3, <1>4, <1>5, <1>6, <1>7, <1>9, <1>10, <1>11
<1>13. /\ \A i \in 1..Len(I) : V6[i] = I[i]
       /\ \A i \in 1..Len(U) : V6[b1 + i] = U[i]
  BY ONLY <1>2, <1>7, <1>11
<1>14. /\ \A i \in 1..Len(N) : V6[b2 + i] = N[i]
       /\ \A i \in 1..Len(T) : V6[b3 + i] = T[i]
  BY ONLY <1>3, <1>4, <1>7, <1>9, <1>10
<1>15. \A i \in 1..Len(S) : V6[b4 + i] = S[i]
  BY ONLY <1>5, <1>6, <1>7
<1>16. ShapeOf(V6, I, U, N, T, S, X, b1, b2, b3, b4, b5)
  <2>1. /\ b1 = Len(I) + 1 /\ b2 = b1 + Len(U) + 1 /\ b3 = b2 + Len(N) + 1
        /\ b4 = b3 + Len(T) + 1 /\ b5 = b4 + Len(S) + 1
    BY ONLY DEF b1, b2, b3, b4, b5
  <2> QED BY ONLY <1>1, <1>6, <1>12, <1>13, <1>14, <1>15, <2>1 DEF ShapeOf
<1> QED BY ONLY <1>16 DEF V6, V5, V4, V3, V2

\* A column behind position b: no backslash in front of the bar behind it, no
\* end inside, and its text.
LEMMA ColumnEnd ==
  ASSUME NEW V \in Seq(Byte), NEW b \in Nat, NEW N \in Seq(Byte),
         (b # 0 /\ V[b] = Bar) \/ N # << >>,
         \A i \in 1..Len(N) : V[b + i] = N[i],
         N = << >> \/ N[Len(N)] # Backslash
  PROVE  V[b + Len(N) + 1 - 1] # Backslash
<1>1. Len(N) \in Nat /\ (N = << >> <=> Len(N) = 0)
  OBVIOUS
<1>2. CASE N = << >>
  <2>1. b + Len(N) + 1 - 1 = b /\ V[b] = Bar
    BY <1>1, <1>2
  <2>2. Bar # Backslash
    BY DEF Bar, Backslash
  <2> QED BY <2>1, <2>2
<1>3. CASE N # << >>
  <2>1. b + Len(N) + 1 - 1 = b + Len(N) /\ Len(N) \in 1..Len(N)
    BY <1>1, <1>3
  <2> QED BY <1>3, <2>1
<1> QED BY <1>2, <1>3

NoEndIn(N) == \A i \in 1..Len(N) : N[i] # LF /\ (N[i] = Bar => i > 1 /\ N[i - 1] = Backslash)

LEMMA ColumnInside ==
  ASSUME NEW V \in Seq(Byte), NEW b \in Nat, NEW N \in Seq(Byte), NoEndIn(N),
         \A i \in 1..Len(N) : V[b + i] = N[i]
  PROVE  \A q \in (b + 1)..(b + Len(N)) :
           V[q] # LF /\ (V[q] = Bar => q > 1 /\ V[q - 1] = Backslash)
<1> SUFFICES ASSUME NEW q \in (b + 1)..(b + Len(N))
             PROVE  V[q] # LF /\ (V[q] = Bar => q > 1 /\ V[q - 1] = Backslash)
  OBVIOUS
<1> DEFINE i == q - b
<1>1. Len(N) \in Nat
  OBVIOUS
<1>2. /\ i \in 1..Len(N) /\ b + i = q
      /\ i > 1 => q > 1 /\ i - 1 \in 1..Len(N) /\ b + (i - 1) = q - 1
  BY <1>1
<1> HIDE DEF i
<1>3. V[q] = N[i] /\ (i > 1 => V[q - 1] = N[i - 1])
  BY <1>2
<1> QED BY <1>2, <1>3 DEF NoEndIn

LEMMA ColumnText ==
  ASSUME NEW V \in Seq(Byte), NEW b \in Nat, NEW N \in Seq(Byte), b + Len(N) <= Len(V),
         \A i \in 1..Len(N) : V[b + i] = N[i]
  PROVE  SubSeq(V, b + 1, b + Len(N) + 1 - 1) = N
<1>1. Len(N) \in Nat /\ DOMAIN N = 1..Len(N)
  OBVIOUS
<1>2. /\ b + 1 \in Nat \ {0} /\ b + 1 + Len(N) - 1 <= Len(V)
      /\ b + 1 + Len(N) - 1 = b + Len(N) + 1 - 1
      /\ \A i \in 1..Len(N) : b + 1 + i - 1 = b + i
  BY <1>1
<1>3. At(V, b + 1, N)
  BY <1>1, <1>2 DEF At
<1>4. SubSeq(V, b + 1, b + 1 + Len(N) - 1) = N
  BY <1>2, <1>3, AtCut
<1> QED BY <1>2, <1>4

LEMMA CleanIs ==
  ASSUME NEW N \in Seq(Byte), Clean(N)
  PROVE  NoEndIn(N) /\ (N = << >> \/ N[Len(N)] # Backslash)
<1>1. DOMAIN N = 1..Len(N) /\ Len(N) \in Nat
  OBVIOUS
<1>2. N # << >> => Len(N) \in 1..Len(N)
  BY <1>1
<1> QED BY <1>1, <1>2 DEF Clean, NoEndIn

LEMMA PlainIs ==
  ASSUME NEW N \in Seq(Byte), Plain(N)
  PROVE  NoEndIn(N) /\ (N = << >> \/ N[Len(N)] # Backslash)
<1>1. DOMAIN N = 1..Len(N) /\ Len(N) \in Nat
  OBVIOUS
<1> QED BY <1>1 DEF Plain, NoEndIn

\* The bars of a value, and what is between them
LEMMA RowShape ==
  ASSUME NEW id \in Ids, NEW n \in Seq(Byte)
  PROVE  \E b1, b2, b3, b4, b5 :
           ShapeOf(RowText(id, n), IdText[id], UrlText[id], n, TimeText[id], User,
                   file_suffix_get(n), b1, b2, b3, b4, b5)
<1> DEFINE I == IdText[id]
           U == UrlText[id]
           T == TimeText[id]
           X == file_suffix_get(n)
<1>1. /\ I \in Seq(Byte) /\ U \in Seq(Byte) /\ T \in Seq(Byte) /\ User \in Seq(Byte)
  BY FieldAssumption
<1>2. X \in Seq(Byte)
  BY SuffixType
<1> DEFINE W == I \o <<Bar>> \o U \o <<Bar>> \o n \o <<Bar>> \o T \o <<Bar>> \o User \o <<Bar>> \o X
<1>3. RowText(id, n) = W
  BY DEF RowText
<1> HIDE DEF I, U, T, X
<1>4. \E b1, b2, b3, b4, b5 :
           ShapeOf(W, I, U, n, T, User, X, b1, b2, b3, b4, b5)
  BY ONLY n \in Seq(Byte), <1>1, <1>2, FiveColumns
<1> HIDE DEF W
<1>5. \E b1, b2, b3, b4, b5 :
           ShapeOf(RowText(id, n), I, U, n, T, User, X, b1, b2, b3, b4, b5)
  BY ONLY <1>3, <1>4
<1> QED BY <1>5 DEF I, U, T, X

\* The facts about the columns of a value
LEMMA RowFields ==
  ASSUME NEW id \in Ids
  PROVE  /\ IdText[id] \in Seq(Byte) /\ UrlText[id] \in Seq(Byte)
         /\ TimeText[id] \in Seq(Byte) /\ User \in Seq(Byte)
         /\ IdText[id] # << >>
         /\ Clean(IdText[id]) /\ Clean(UrlText[id]) /\ Clean(TimeText[id]) /\ Clean(User)
BY FieldAssumption

\* No bar behind a column is escaped, if the name does not end with a backslash.
LEMMA BarsStand ==
  ASSUME NEW I \in Seq(Byte), NEW U \in Seq(Byte), NEW N \in Seq(Byte),
         NEW T \in Seq(Byte), NEW S \in Seq(Byte), NEW X, NEW V,
         NEW b1, NEW b2, NEW b3, NEW b4, NEW b5,
         ShapeOf(V, I, U, N, T, S, X, b1, b2, b3, b4, b5),
         I # << >>, Clean(I), Clean(U), Clean(T), Clean(S),
         N = << >> \/ N[Len(N)] # Backslash
  PROVE  /\ V[b1 - 1] # Backslash /\ V[b2 - 1] # Backslash /\ V[b3 - 1] # Backslash
         /\ V[b4 - 1] # Backslash /\ V[b5 - 1] # Backslash
<1>1. /\ V \in Seq(Byte)
      /\ V[b1] = Bar /\ V[b2] = Bar /\ V[b3] = Bar /\ V[b4] = Bar
      /\ \A i \in 1..Len(I) : V[i] = I[i]
      /\ \A i \in 1..Len(U) : V[b1 + i] = U[i]
      /\ \A i \in 1..Len(N) : V[b2 + i] = N[i]
      /\ \A i \in 1..Len(T) : V[b3 + i] = T[i]
      /\ \A i \in 1..Len(S) : V[b4 + i] = S[i]
  BY ONLY ShapeOf(V, I, U, N, T, S, X, b1, b2, b3, b4, b5) DEF ShapeOf
<1>2. /\ I[Len(I)] # Backslash
      /\ U = << >> \/ U[Len(U)] # Backslash
      /\ T = << >> \/ T[Len(T)] # Backslash
      /\ S = << >> \/ S[Len(S)] # Backslash
  BY CleanIs
<1>3. /\ Len(I) \in Nat /\ Len(U) \in Nat /\ Len(N) \in Nat /\ Len(T) \in Nat /\ Len(S) \in Nat
      /\ Len(I) > 0
  OBVIOUS
<1>0. b1 \in Nat /\ b2 \in Nat /\ b3 \in Nat /\ b4 \in Nat /\ b5 \in Nat
  BY ONLY ShapeOf(V, I, U, N, T, S, X, b1, b2, b3, b4, b5) DEF ShapeOf
<1>10. /\ b1 = Len(I) + 1 /\ b2 = b1 + Len(U) + 1 /\ b3 = b2 + Len(N) + 1
       /\ b4 = b3 + Len(T) + 1 /\ b5 = b4 + Len(S) + 1
  BY ONLY ShapeOf(V, I, U, N, T, S, X, b1, b2, b3, b4, b5) DEF ShapeOf
<1>4. b1 # 0 /\ b2 # 0 /\ b3 # 0 /\ b4 # 0
  BY <1>0, <1>10, <1>3
<1>5. V[b1 - 1] # Backslash
  <2>1. b1 - 1 = Len(I) /\ Len(I) \in 1..Len(I)
    BY <1>0, <1>10, <1>3
  <2> QED BY ONLY <1>1, <1>2, <2>1
<1>6. V[b2 - 1] # Backslash
  <2>1. V[b1 + Len(U) + 1 - 1] # Backslash
    BY ONLY U \in Seq(Byte), <1>0, <1>1, <1>2, <1>4, ColumnEnd
  <2> QED BY ONLY <1>10, <2>1
<1>7. V[b3 - 1] # Backslash
  <2>1. V[b2 + Len(N) + 1 - 1] # Backslash
    BY ONLY N \in Seq(Byte), N = << >> \/ N[Len(N)] # Backslash, <1>0, <1>1, <1>4, ColumnEnd
  <2> QED BY ONLY <1>10, <2>1
<1>8. V[b4 - 1] # Backslash
  <2>1. V[b3 + Len(T) + 1 - 1] # Backslash
    BY ONLY T \in Seq(Byte), <1>0, <1>1, <1>2, <1>4, ColumnEnd
  <2> QED BY ONLY <1>10, <2>1
<1>9. V[b5 - 1] # Backslash
  <2>1. V[b4 + Len(S) + 1 - 1] # Backslash
    BY ONLY S \in Seq(Byte), <1>0, <1>1, <1>2, <1>4, ColumnEnd
  <2> QED BY ONLY <1>10, <2>1
<1> QED BY <1>5, <1>6, <1>7, <1>8, <1>9

\* An end is a bar that is not escaped, with no line end before it.
LEMMA IsEnd ==
  ASSUME NEW V \in Seq(Byte), NEW p \in 1..Len(V), V[p] = Bar, V[p - 1] # Backslash,
         \A q \in 1..(p - 1) : V[q] # LF
  PROVE  p \in Ends(V)
BY DEF Ends

\* The reader finds five columns in a row without line ends unless the name
\* ends with a backslash.
LEMMA FiveFound ==
  ASSUME NEW id \in Ids, NEW n \in Seq(Byte), n = << >> \/ n[Len(n)] # Backslash,
         \A p \in 1..Len(RowText(id, n)) : RowText(id, n)[p] # LF
  PROVE  HasColumn(RowText(id, n), 5)
<1> DEFINE I == IdText[id]
           U == UrlText[id]
           T == TimeText[id]
           X == file_suffix_get(n)
           V == RowText(id, n)
<1>1. /\ I \in Seq(Byte) /\ U \in Seq(Byte) /\ T \in Seq(Byte) /\ User \in Seq(Byte)
      /\ I # << >> /\ Clean(I) /\ Clean(U) /\ Clean(T) /\ Clean(User)
  BY ONLY id \in Ids, RowFields
<1>2. X \in Seq(Byte)
  BY ONLY n \in Seq(Byte), SuffixType
<1>3. PICK b1, b2, b3, b4, b5 :
           ShapeOf(V, I, U, n, T, User, X, b1, b2, b3, b4, b5)
  BY ONLY id \in Ids, n \in Seq(Byte), RowShape
<1>4. \A p \in 1..Len(V) : V[p] # LF
  OBVIOUS
<1> HIDE DEF I, U, T, X, V
<1>5. /\ V[b1 - 1] # Backslash /\ V[b2 - 1] # Backslash /\ V[b3 - 1] # Backslash
      /\ V[b4 - 1] # Backslash /\ V[b5 - 1] # Backslash
  BY ONLY n \in Seq(Byte), n = << >> \/ n[Len(n)] # Backslash, <1>1, <1>3, BarsStand
<1>6. /\ V \in Seq(Byte) /\ Len(V) = b5 + Len(X)
      /\ V[b1] = Bar /\ V[b2] = Bar /\ V[b3] = Bar /\ V[b4] = Bar /\ V[b5] = Bar
      /\ b1 \in Nat /\ b2 \in Nat /\ b3 \in Nat /\ b4 \in Nat /\ b5 \in Nat
      /\ b1 = Len(I) + 1 /\ b2 = b1 + Len(U) + 1 /\ b3 = b2 + Len(n) + 1
      /\ b4 = b3 + Len(T) + 1 /\ b5 = b4 + Len(User) + 1
  BY ONLY <1>3 DEF ShapeOf
<1>7. /\ Len(I) \in Nat /\ Len(U) \in Nat /\ Len(n) \in Nat /\ Len(T) \in Nat
      /\ Len(User) \in Nat /\ Len(X) \in Nat
  BY ONLY n \in Seq(Byte), <1>1, <1>2
<1>8. /\ b1 \in 1..Len(V) /\ b2 \in 1..Len(V) /\ b3 \in 1..Len(V) /\ b4 \in 1..Len(V)
      /\ b5 \in 1..Len(V)
      /\ b1 < b2 /\ b2 < b3 /\ b3 < b4 /\ b4 < b5
  BY ONLY <1>6, <1>7, SMTT(30)
<1>9. \A p \in 1..Len(V) : \A q \in 1..(p - 1) : V[q] # LF
  BY ONLY <1>4, <1>6
<1>10. b1 \in Ends(V) /\ b2 \in Ends(V) /\ b3 \in Ends(V) /\ b4 \in Ends(V) /\ b5 \in Ends(V)
  BY ONLY <1>5, <1>6, <1>8, <1>9, IsEnd
<1> DEFINE S1 == {b1}
           S2 == S1 \cup {b2}
           S3 == S2 \cup {b3}
           S4 == S3 \cup {b4}
           S5 == S4 \cup {b5}
<1>11. Cardinality(S5) = 5 /\ S5 \in SUBSET Ends(V)
  <2>1. b2 \notin S1 /\ b3 \notin S2 /\ b4 \notin S3 /\ b5 \notin S4 /\ S5 \in SUBSET Ends(V)
    BY <1>8, <1>10
  <2>2. IsFiniteSet(S1) /\ Cardinality(S1) = 1
    BY ONLY FS_Singleton
  <2> HIDE DEF S1
  <2>3. IsFiniteSet(S2) /\ Cardinality(S2) = 1 + 1
    BY ONLY <2>1, <2>2, FS_AddElement
  <2> HIDE DEF S2
  <2>4. IsFiniteSet(S3) /\ Cardinality(S3) = 1 + 1 + 1
    BY ONLY <2>1, <2>3, FS_AddElement
  <2> HIDE DEF S3
  <2>5. IsFiniteSet(S4) /\ Cardinality(S4) = 1 + 1 + 1 + 1
    BY ONLY <2>1, <2>4, FS_AddElement
  <2> HIDE DEF S4
  <2>6. Cardinality(S5) = 1 + 1 + 1 + 1 + 1
    BY ONLY <2>1, <2>5, FS_AddElement
  <2> HIDE DEF S5
  <2> QED BY ONLY <2>1, <2>6
<1> HIDE DEF S5
<1>12. Cardinality(Ends(V)) >= 5
  <2>1. IsFiniteSet(Ends(V)) /\ Cardinality(Ends(V)) \in Nat
    BY ONLY <1>6, EndsFinite
  <2>2. Cardinality(S5) <= Cardinality(Ends(V))
    BY ONLY <1>11, <2>1, FS_Subset
  <2> QED BY ONLY <1>11, <2>1, <2>2
<1> QED BY ONLY <1>12 DEF HasColumn, V

-----------------------------------------------------------------------------
(* What the reader takes out of a row *)

\* Every column is a text.
LEMMA ColumnType ==
  ASSUME NEW s \in Seq(Byte), NEW old \in Seq(Byte)
  PROVE  /\ get_value_by_col(s, 2, old) \in Seq(Byte)
         /\ get_value_by_col(s, 3, old) \in Seq(Byte)
         /\ get_value_by_col(s, 4, old) \in Seq(Byte)
         /\ get_value_by_col(s, 5, old) \in Seq(Byte)
<1>1. \A x \in Ends(s) : x \in Nat /\ x <= Len(s)
  BY EndsFinite
<1>2. ASSUME NEW x \in Ends(s), NEW y \in Ends(s) PROVE SubSeq(s, x + 1, y - 1) \in Seq(Byte)
  <2>1. x + 1 \in Int /\ y - 1 \in Int /\ \A i \in (x + 1)..(y - 1) : i \in 1..Len(s)
    BY <1>1
  <2>2. \A i \in (x + 1)..(y - 1) : s[i] \in Byte
    BY <2>1
  <2> QED BY ONLY <2>1, <2>2, SubSeqProperties
<1>3. 2 - 1 = 1 /\ 3 - 1 = 2 /\ 4 - 1 = 3 /\ 5 - 1 = 4
  OBVIOUS
<1>4. get_value_by_col(s, 2, old) \in Seq(Byte)
  BY ONLY old \in Seq(Byte), s \in Seq(Byte), <1>2, <1>3, EndsThere DEF get_value_by_col
<1>5. get_value_by_col(s, 3, old) \in Seq(Byte)
  BY ONLY old \in Seq(Byte), s \in Seq(Byte), <1>2, <1>3, EndsThere DEF get_value_by_col
<1>6. get_value_by_col(s, 4, old) \in Seq(Byte)
  BY ONLY old \in Seq(Byte), s \in Seq(Byte), <1>2, <1>3, EndsThere DEF get_value_by_col
<1>7. get_value_by_col(s, 5, old) \in Seq(Byte)
  BY ONLY old \in Seq(Byte), s \in Seq(Byte), <1>2, <1>3, EndsThere DEF get_value_by_col
<1> QED BY <1>4, <1>5, <1>6, <1>7

\* The first column of a row is its id, or nothing if the byte in front of the
\* row is a backslash.
LEMMA FirstIsId ==
  ASSUME NEW id \in Ids, NEW n \in Seq(Byte), NEW before
  PROVE  FirstColumn(RowText(id, n), before) =
           IF before = Backslash THEN << >> ELSE IdText[id]
<1> DEFINE I == IdText[id]
           U == UrlText[id]
           T == TimeText[id]
           X == file_suffix_get(n)
           V == RowText(id, n)
           stop == {p \in 1..Len(V) :
                      V[p] = Bar \/ (IF p = 1 THEN before ELSE V[p - 1]) = Backslash}
<1>1. I \in Seq(Byte) /\ Clean(I) /\ Len(I) \in Nat /\ DOMAIN I = 1..Len(I)
  BY RowFields
<1>2. PICK b1, b2, b3, b4, b5 :
           ShapeOf(V, I, U, n, T, User, X, b1, b2, b3, b4, b5)
  BY ONLY id \in Ids, n \in Seq(Byte), RowShape
<1>3. X \in Seq(Byte) /\ U \in Seq(Byte) /\ T \in Seq(Byte) /\ User \in Seq(Byte)
  BY SuffixType, RowFields
<1> HIDE DEF I, U, T, X, V
<1>4. /\ V \in Seq(Byte) /\ Len(V) = b5 + Len(X) /\ V[b1] = Bar
      /\ b1 = Len(I) + 1 /\ b2 = b1 + Len(U) + 1 /\ b3 = b2 + Len(n) + 1
      /\ b4 = b3 + Len(T) + 1 /\ b5 = b4 + Len(User) + 1
      /\ \A i \in 1..Len(I) : V[i] = I[i]
  BY ONLY <1>2 DEF ShapeOf
<1>5. b1 \in 1..Len(V) /\ b1 \in Nat \ {0} /\ Len(V) \in Nat
  <2>1. Len(U) \in Nat /\ Len(n) \in Nat /\ Len(T) \in Nat /\ Len(User) \in Nat /\ Len(X) \in Nat
    BY ONLY <1>3, n \in Seq(Byte)
  <2> QED BY ONLY <1>1, <1>4, <2>1, SMTT(30)
<1>6. \A i \in 1..Len(I) : V[i] # Bar /\ V[i] # Backslash
  BY ONLY <1>1, <1>4 DEF Clean
<1>7. stop \in SUBSET Nat /\ b1 \in stop
  BY <1>4, <1>5
<1>8. FirstColumn(V, before) = SubSeq(V, 1, Min(stop) - 1)
  BY DEF FirstColumn
<1>9. CASE before = Backslash
  <2>1. 1 \in stop /\ \A p \in stop : 1 <= p
    BY <1>5, <1>9
  <2> HIDE DEF stop
  <2>2. Min(stop) = 1
    BY ONLY <1>7, <2>1, MinIs
  <2>3. SubSeq(V, 1, 1 - 1) = << >>
    OBVIOUS
  <2> QED BY <1>8, <1>9, <2>2, <2>3 DEF V
<1>10. CASE before # Backslash
  <2>1. ASSUME NEW p \in stop, p < b1 PROVE FALSE
    <3>1. p \in 1..Len(I) /\ (p # 1 => p - 1 \in 1..Len(I))
      BY <1>1, <1>4, <2>1
    <3> QED BY <1>6, <1>10, <3>1
  <2>2. \A p \in stop : b1 <= p
    BY <1>5, <2>1
  <2> HIDE DEF stop
  <2>3. Min(stop) = b1
    BY ONLY <1>7, <2>2, MinIs
  <2>4. SubSeq(V, 1, b1 - 1) = I
    <3>1. 0 \in Nat /\ 0 + Len(I) <= Len(V) /\ \A i \in 1..Len(I) : 0 + i = i
      BY ONLY <1>1, <1>4, <1>5
    <3>2. \A i \in 1..Len(I) : V[0 + i] = I[i]
      BY ONLY <1>4, <3>1
    <3>3. SubSeq(V, 0 + 1, 0 + Len(I) + 1 - 1) = I
      BY ONLY <1>1, <1>4, <3>1, <3>2, ColumnText
    <3>4. 0 + 1 = 1 /\ 0 + Len(I) + 1 - 1 = b1 - 1
      BY ONLY <1>1, <1>4
    <3> QED BY ONLY <3>3, <3>4
  <2> QED BY <1>8, <1>10, <2>3, <2>4 DEF V, I
<1> QED BY <1>9, <1>10

\* A row with a plain name has its five columns where they were written.
LEMMA PlainColumns ==
  ASSUME NEW id \in Ids, NEW n \in Seq(Byte), Plain(n), NEW old
  PROVE  /\ get_value_by_col(RowText(id, n), 2, old) = UrlText[id]
         /\ get_value_by_col(RowText(id, n), 3, old) = n
         /\ get_value_by_col(RowText(id, n), 4, old) = TimeText[id]
         /\ get_value_by_col(RowText(id, n), 5, old) = User
<1> DEFINE I == IdText[id]
           U == UrlText[id]
           T == TimeText[id]
           X == file_suffix_get(n)
           V == RowText(id, n)
<1>1. /\ I \in Seq(Byte) /\ U \in Seq(Byte) /\ T \in Seq(Byte) /\ User \in Seq(Byte)
      /\ I # << >> /\ Clean(I) /\ Clean(U) /\ Clean(T) /\ Clean(User)
  BY ONLY id \in Ids, RowFields
<1>2. X \in Seq(Byte)
  BY ONLY n \in Seq(Byte), SuffixType
<1>3. PICK b1, b2, b3, b4, b5 :
           ShapeOf(V, I, U, n, T, User, X, b1, b2, b3, b4, b5)
  BY ONLY id \in Ids, n \in Seq(Byte), RowShape
<1> HIDE DEF I, U, T, X, V
<1>4. NoEndIn(n) /\ (n = << >> \/ n[Len(n)] # Backslash)
  BY ONLY n \in Seq(Byte), Plain(n), PlainIs
<1>5. /\ V[b1 - 1] # Backslash /\ V[b2 - 1] # Backslash /\ V[b3 - 1] # Backslash
      /\ V[b4 - 1] # Backslash /\ V[b5 - 1] # Backslash
  BY ONLY n \in Seq(Byte), <1>4, <1>1, <1>3, BarsStand
<1>6. /\ V \in Seq(Byte) /\ Len(V) = b5 + Len(X)
      /\ V[b1] = Bar /\ V[b2] = Bar /\ V[b3] = Bar /\ V[b4] = Bar /\ V[b5] = Bar
      /\ \A i \in 1..Len(I) : V[i] = I[i]
      /\ \A i \in 1..Len(U) : V[b1 + i] = U[i]
      /\ \A i \in 1..Len(n) : V[b2 + i] = n[i]
      /\ \A i \in 1..Len(T) : V[b3 + i] = T[i]
      /\ \A i \in 1..Len(User) : V[b4 + i] = User[i]
  BY ONLY <1>3 DEF ShapeOf
<1>7. b1 \in Nat /\ b2 \in Nat /\ b3 \in Nat /\ b4 \in Nat /\ b5 \in Nat
  BY ONLY <1>3 DEF ShapeOf
<1>8. /\ b1 = Len(I) + 1 /\ b2 = b1 + Len(U) + 1 /\ b3 = b2 + Len(n) + 1
      /\ b4 = b3 + Len(T) + 1 /\ b5 = b4 + Len(User) + 1
  BY ONLY <1>3 DEF ShapeOf
<1>9. /\ Len(I) \in Nat /\ Len(U) \in Nat /\ Len(n) \in Nat /\ Len(T) \in Nat
      /\ Len(User) \in Nat /\ Len(X) \in Nat
  BY ONLY n \in Seq(Byte), <1>1, <1>2
<1>10. /\ b1 \in 1..Len(V) /\ b2 \in 1..Len(V) /\ b3 \in 1..Len(V) /\ b4 \in 1..Len(V)
       /\ b5 \in 1..Len(V)
       /\ b1 < b2 /\ b2 < b3 /\ b3 < b4 /\ b4 < b5
  <2>1. Len(V) = b5 + Len(X)
    BY ONLY <1>6
  <2>2. 1 <= b1 /\ b1 < b2 /\ b2 < b3 /\ b3 < b4 /\ b4 < b5
    BY ONLY <1>7, <1>8, <1>9
  <2>3. b5 <= Len(V) /\ Len(V) \in Nat
    BY ONLY <1>7, <1>9, <2>1
  <2> QED BY ONLY <1>7, <2>2, <2>3
<1> DEFINE Inside(q) == V[q] # LF /\ (V[q] = Bar => q > 1 /\ V[q - 1] = Backslash)
<1>11. /\ \A q \in (0 + 1)..(0 + Len(I)) : Inside(q)
       /\ \A q \in (b1 + 1)..(b1 + Len(U)) : Inside(q)
       /\ \A q \in (b2 + 1)..(b2 + Len(n)) : Inside(q)
       /\ \A q \in (b3 + 1)..(b3 + Len(T)) : Inside(q)
       /\ \A q \in (b4 + 1)..(b4 + Len(User)) : Inside(q)
  <2>1. NoEndIn(I) /\ NoEndIn(U) /\ NoEndIn(T) /\ NoEndIn(User)
    BY ONLY <1>1, CleanIs
  <2>2. \A q \in (0 + 1)..(0 + Len(I)) : Inside(q)
    <3>1. 0 \in Nat /\ \A i \in 1..Len(I) : 0 + i = i
      BY ONLY <1>9
    <3>2. \A i \in 1..Len(I) : V[0 + i] = I[i]
      BY ONLY <1>6, <3>1
    <3> QED BY ONLY <1>1, <1>6, <2>1, <3>1, <3>2, ColumnInside
  <2>3. \A q \in (b1 + 1)..(b1 + Len(U)) : Inside(q)
    <3>1. V \in Seq(Byte) /\ \A i \in 1..Len(U) : V[b1 + i] = U[i]
      BY ONLY <1>6
    <3>2. b1 \in Nat /\ NoEndIn(U) /\ U \in Seq(Byte)
      BY ONLY <1>1, <1>7, <2>1
    <3> QED BY ONLY <3>1, <3>2, ColumnInside
  <2>4. \A q \in (b2 + 1)..(b2 + Len(n)) : Inside(q)
    <3>1. V \in Seq(Byte) /\ \A i \in 1..Len(n) : V[b2 + i] = n[i]
      BY ONLY <1>6
    <3>2. b2 \in Nat /\ NoEndIn(n) /\ n \in Seq(Byte)
      BY ONLY n \in Seq(Byte), <1>7, <1>4
    <3> QED BY ONLY <3>1, <3>2, ColumnInside
  <2>5. \A q \in (b3 + 1)..(b3 + Len(T)) : Inside(q)
    <3>1. V \in Seq(Byte) /\ \A i \in 1..Len(T) : V[b3 + i] = T[i]
      BY ONLY <1>6
    <3>2. b3 \in Nat /\ NoEndIn(T) /\ T \in Seq(Byte)
      BY ONLY <1>1, <1>7, <2>1
    <3> QED BY ONLY <3>1, <3>2, ColumnInside
  <2>6. \A q \in (b4 + 1)..(b4 + Len(User)) : Inside(q)
    <3>1. V \in Seq(Byte) /\ \A i \in 1..Len(User) : V[b4 + i] = User[i]
      BY ONLY <1>6
    <3>2. b4 \in Nat /\ NoEndIn(User) /\ User \in Seq(Byte)
      BY ONLY <1>1, <1>7, <2>1
    <3> QED BY ONLY <3>1, <3>2, ColumnInside
  <2> QED BY ONLY <2>2, <2>3, <2>4, <2>5, <2>6
<1> HIDE DEF Inside
<1>12. \A q \in 1..b5 : q \in {b1, b2, b3, b4, b5} \/ Inside(q)
  <2>1. /\ \A q \in 1..(b1 - 1) : Inside(q)
        /\ \A q \in (b1 + 1)..(b2 - 1) : Inside(q)
        /\ \A q \in (b2 + 1)..(b3 - 1) : Inside(q)
        /\ \A q \in (b3 + 1)..(b4 - 1) : Inside(q)
        /\ \A q \in (b4 + 1)..(b5 - 1) : Inside(q)
    <3>1. /\ 0 + 1 = 1 /\ 0 + Len(I) = b1 - 1 /\ b1 + Len(U) = b2 - 1 /\ b2 + Len(n) = b3 - 1
          /\ b3 + Len(T) = b4 - 1 /\ b4 + Len(User) = b5 - 1
      BY ONLY <1>7, <1>8, <1>9
    <3> QED BY ONLY <1>11, <3>1
  <2>2. \A q \in 1..b5 :
          \/ q \in {b1, b2, b3, b4, b5}
          \/ q \in 1..(b1 - 1) \/ q \in (b1 + 1)..(b2 - 1) \/ q \in (b2 + 1)..(b3 - 1)
          \/ q \in (b3 + 1)..(b4 - 1) \/ q \in (b4 + 1)..(b5 - 1)
    BY ONLY <1>7
  <2> QED BY ONLY <2>1, <2>2
<1>13. \A q \in 1..b5 : V[q] # LF
  <2>1. Bar # LF
    BY DEF Bar, LF
  <2> QED BY ONLY <1>6, <1>12, <2>1 DEF Inside
<1>14. b1 \in Ends(V) /\ b2 \in Ends(V) /\ b3 \in Ends(V) /\ b4 \in Ends(V) /\ b5 \in Ends(V)
  <2>1. /\ \A q \in 1..(b1 - 1) : V[q] # LF
        /\ \A q \in 1..(b2 - 1) : V[q] # LF
        /\ \A q \in 1..(b3 - 1) : V[q] # LF
        /\ \A q \in 1..(b4 - 1) : V[q] # LF
        /\ \A q \in 1..(b5 - 1) : V[q] # LF
    <3>1. /\ \A q \in 1..(b1 - 1) : q \in 1..b5
          /\ \A q \in 1..(b2 - 1) : q \in 1..b5
          /\ \A q \in 1..(b3 - 1) : q \in 1..b5
          /\ \A q \in 1..(b4 - 1) : q \in 1..b5
          /\ \A q \in 1..(b5 - 1) : q \in 1..b5
      BY ONLY <1>7, <1>10
    <3> QED BY ONLY <1>13, <3>1
  <2> QED BY ONLY <1>5, <1>6, <1>10, <2>1, IsEnd
<1>15. \A q \in 1..b5 : q \in Ends(V) => q \in {b1, b2, b3, b4, b5}
  <2>1. \A q \in Ends(V) : V[q] = LF \/ (V[q] = Bar /\ ~ (q > 1 /\ V[q - 1] = Backslash))
    BY ONLY DEF Ends
  <2> QED BY ONLY <1>12, <1>13, <2>1 DEF Inside
<1>16. /\ HasColumn(V, 1) /\ HasColumn(V, 2) /\ HasColumn(V, 3) /\ HasColumn(V, 4)
       /\ HasColumn(V, 5)
       /\ EndOfColumn(V, 1) = b1 /\ EndOfColumn(V, 2) = b2 /\ EndOfColumn(V, 3) = b3
       /\ EndOfColumn(V, 4) = b4 /\ EndOfColumn(V, 5) = b5
  BY ONLY <1>6, <1>10, <1>14, <1>15, TheseEnds
<1>17. 2 - 1 = 1 /\ 3 - 1 = 2 /\ 4 - 1 = 3 /\ 5 - 1 = 4
  OBVIOUS
<1>18. /\ get_value_by_col(V, 2, old) = SubSeq(V, b1 + 1, b2 - 1)
       /\ get_value_by_col(V, 3, old) = SubSeq(V, b2 + 1, b3 - 1)
       /\ get_value_by_col(V, 4, old) = SubSeq(V, b3 + 1, b4 - 1)
       /\ get_value_by_col(V, 5, old) = SubSeq(V, b4 + 1, b5 - 1)
  BY ONLY <1>16, <1>17 DEF get_value_by_col
<1>19. /\ b1 + Len(U) <= Len(V) /\ b2 + Len(n) <= Len(V) /\ b3 + Len(T) <= Len(V)
       /\ b4 + Len(User) <= Len(V)
  <2>1. /\ b1 + Len(U) < b2 /\ b2 + Len(n) < b3 /\ b3 + Len(T) < b4 /\ b4 + Len(User) < b5
    BY ONLY <1>7, <1>8, <1>9
  <2>2. b2 <= Len(V) /\ b3 <= Len(V) /\ b4 <= Len(V) /\ b5 <= Len(V) /\ Len(V) \in Nat
    BY ONLY <1>7, <1>10
  <2> QED BY ONLY <1>7, <1>9, <2>1, <2>2
<1>20. SubSeq(V, b1 + 1, b2 - 1) = U
  <2>1. SubSeq(V, b1 + 1, b1 + Len(U) + 1 - 1) = U
    BY ONLY <1>1, <1>6, <1>7, <1>19, ColumnText
  <2> QED BY ONLY <1>8, <2>1
<1>21. SubSeq(V, b2 + 1, b3 - 1) = n
  <2>1. SubSeq(V, b2 + 1, b2 + Len(n) + 1 - 1) = n
    BY ONLY n \in Seq(Byte), <1>6, <1>7, <1>19, ColumnText
  <2> QED BY ONLY <1>8, <2>1
<1>22. SubSeq(V, b3 + 1, b4 - 1) = T
  <2>1. SubSeq(V, b3 + 1, b3 + Len(T) + 1 - 1) = T
    BY ONLY <1>1, <1>6, <1>7, <1>19, ColumnText
  <2> QED BY ONLY <1>8, <2>1
<1>23. SubSeq(V, b4 + 1, b5 - 1) = User
  <2>1. SubSeq(V, b4 + 1, b4 + Len(User) + 1 - 1) = User
    BY ONLY <1>1, <1>6, <1>7, <1>19, ColumnText
  <2> QED BY ONLY <1>8, <2>1
<1> QED BY ONLY <1>18, <1>20, <1>21, <1>22, <1>23 DEF U, T, V

-----------------------------------------------------------------------------
(* The invariant of the rows, for any names *)

Shown == [columns : Columns, picture : Seq(Byte)]

ValuesAreRows ==
  /\ \A k \in DOMAIN list : list[k].value = RowText(list[k].id, list[k].name)
  /\ \A k \in DOMAIN rows : rows[k].value = RowText(rows[k].id, rows[k].name)

PageWithin == Len(page) <= Len(rows) /\ (rpc = "undefined" => Len(page) < Len(rows))

RowInv ==
  /\ list \in Seq(Entry) /\ rows \in Seq(Entry)
  /\ rpc \in {"idle", "rows", "undefined"}
  /\ buffer \in Columns /\ page \in Seq(Shown)
  /\ ValuesAreRows /\ PageWithin
  /\ PlainRowsTrue /\ RunsAwayOnBackslash

\* What PlainRowsTrue says of the k-th row r and what is shown for it, p
RowShown(k, r, p) ==
  Plain(r.name) =>
    /\ \E id \in {IdText[r.id]} \cup (IF k = 1 THEN {} ELSE {<< >>}) :
         p.columns = [Fields(r.id, r.name) EXCEPT !.id = id]
    /\ p.picture = file_suffix_get(r.name)

LEMMA PlainRows ==
  /\ PlainRowsTrue <=> \A k \in DOMAIN page : RowShown(k, rows[k], page[k])
  /\ PlainRowsTrue' <=> \A k \in DOMAIN page' : RowShown(k, rows'[k], page'[k])
<1>1. PlainRowsTrue <=> \A k \in DOMAIN page : RowShown(k, rows[k], page[k])
  BY DEF PlainRowsTrue, RowShown
<1>2. PlainRowsTrue' <=> \A k \in DOMAIN page' : RowShown(k, rows'[k], page'[k])
  BY DEF PlainRowsTrue, RowShown
<1> QED BY ONLY <1>1, <1>2

\* LPUSH: a new first element.
LEMMA Pushed ==
  ASSUME NEW S, NEW e \in S, NEW s \in Seq(S), NEW t, t = <<e>> \o s
  PROVE  /\ t \in Seq(S) /\ DOMAIN t = 1..(Len(s) + 1) /\ 1 \in DOMAIN t /\ t[1] = e
         /\ \A j \in DOMAIN s : j + 1 \in DOMAIN t /\ t[j + 1] = s[j]
         /\ \A k \in DOMAIN t : k # 1 => k - 1 \in DOMAIN s /\ t[k] = s[k - 1]
<1> DEFINE E == <<e>>
<1>1. E \in Seq(S) /\ Len(E) = 1 /\ E[1] = e
  OBVIOUS
<1>2. Len(s) \in Nat /\ DOMAIN s = 1..Len(s) /\ t = E \o s
  OBVIOUS
<1> HIDE DEF E
<1>3. /\ t \in Seq(S) /\ Len(t) = Len(E) + Len(s)
      /\ \A k \in 1..(Len(E) + Len(s)) :
           t[k] = IF k <= Len(E) THEN E[k] ELSE s[k - Len(E)]
  BY ONLY <1>1, <1>2, s \in Seq(S), ConcatProperties
<1>4. DOMAIN t = 1..(Len(s) + 1)
  <2>1. DOMAIN t = 1..Len(t)
    BY ONLY <1>3
  <2>2. Len(t) = Len(s) + 1
    BY ONLY <1>1, <1>2, <1>3
  <2> QED BY ONLY <2>1, <2>2
<1>5. 1 \in DOMAIN t /\ t[1] = e
  <2>1. 1 \in DOMAIN t /\ 1 \in 1..(Len(E) + Len(s)) /\ 1 <= Len(E)
    BY ONLY <1>1, <1>2, <1>4
  <2> QED BY ONLY <1>1, <1>3, <2>1
<1>6. ASSUME NEW j \in DOMAIN s
      PROVE  j + 1 \in DOMAIN t /\ t[j + 1] = s[j]
  <2>1. /\ j + 1 \in DOMAIN t /\ j + 1 \in 1..(Len(E) + Len(s))
        /\ ~ (j + 1 <= Len(E)) /\ j + 1 - Len(E) = j
    BY ONLY <1>1, <1>2, <1>4, j \in DOMAIN s
  <2> QED BY ONLY <1>3, <2>1
<1>7. ASSUME NEW k \in DOMAIN t, k # 1
      PROVE  k - 1 \in DOMAIN s /\ t[k] = s[k - 1]
  <2>1. /\ k - 1 \in DOMAIN s /\ k \in 1..(Len(E) + Len(s))
        /\ ~ (k <= Len(E)) /\ k - Len(E) = k - 1
    BY ONLY <1>1, <1>2, <1>4, <1>7, k \in DOMAIN t
  <2> QED BY ONLY <1>3, <2>1
<1> QED BY ONLY <1>3, <1>4, <1>5, <1>6, <1>7

LEMMA RowInitInv == RowInit => RowInv
<1> SUFFICES ASSUME RowInit PROVE RowInv
  OBVIOUS
<1>1. list = << >> /\ rows = << >> /\ page = << >> /\ rpc = "idle" /\ buffer = NoColumns
  BY DEF RowInit
<1>2. /\ list \in Seq(Entry) /\ rows \in Seq(Entry) /\ page \in Seq(Shown)
      /\ DOMAIN list = {} /\ DOMAIN rows = {} /\ DOMAIN page = {}
      /\ Len(page) <= Len(rows)
  BY <1>1
<1>3. buffer \in Columns
  BY <1>1 DEF NoColumns, Columns
<1>4. ValuesAreRows
  BY <1>2 DEF ValuesAreRows
<1>5. PageWithin
  BY <1>1, <1>2 DEF PageWithin
<1>6. PlainRowsTrue
  BY <1>2 DEF PlainRowsTrue
<1>7. RunsAwayOnBackslash
  BY <1>1 DEF RunsAwayOnBackslash
<1> QED BY <1>1, <1>2, <1>3, <1>4, <1>5, <1>6, <1>7 DEF RowInv

\* What is listed is a row of its file.
LEMMA StoreKeeps ==
  ASSUME RowInv, NEW name \in Seq(Byte), Store(name)
  PROVE  RowInv'
<1>1. PICK id \in Ids : list' = <<[id |-> id, name |-> name, value |-> RowText(id, name)]>> \o list
  BY DEF Store
<1>2. rpc' = rpc /\ rows' = rows /\ buffer' = buffer /\ page' = page
  BY DEF Store
<1> DEFINE e == [id |-> id, name |-> name, value |-> RowText(id, name)]
<1>3. RowText(id, name) \in Seq(Byte)
  <2>1. PICK b1, b2, b3, b4, b5 :
          ShapeOf(RowText(id, name), IdText[id], UrlText[id], name, TimeText[id], User,
                  file_suffix_get(name), b1, b2, b3, b4, b5)
    BY ONLY id \in Ids, name \in Seq(Byte), RowShape
  <2> QED BY ONLY <2>1 DEF ShapeOf
<1>4. e \in Entry /\ e.value = RowText(e.id, e.name)
  BY <1>3 DEF Entry
<1>5. list' = <<e>> \o list
  BY <1>1
<1> HIDE DEF e
<1>6. list \in Seq(Entry)
  BY DEF RowInv
<1>7. /\ list' \in Seq(Entry) /\ list'[1] = e
      /\ \A k \in DOMAIN list' : k # 1 => k - 1 \in DOMAIN list /\ list'[k] = list[k - 1]
  BY ONLY <1>4, <1>5, <1>6, Pushed
<1>8. \A k \in DOMAIN list' : list'[k] = e \/ \E j \in DOMAIN list : list'[k] = list[j]
  BY ONLY <1>7
<1>9. ValuesAreRows'
  BY <1>2, <1>4, <1>8 DEF RowInv, ValuesAreRows
<1>10. PlainRowsTrue'
  BY <1>2, PlainRows DEF RowInv
<1>11. PageWithin' /\ RunsAwayOnBackslash'
  BY <1>2 DEF RowInv, PageWithin, RunsAwayOnBackslash, Row
<1> QED BY <1>2, <1>7, <1>9, <1>10, <1>11 DEF RowInv

\* The rows are those of the list.
LEMMA ReadListKeeps ==
  ASSUME RowInv, ReadList
  PROVE  RowInv'
<1>1. /\ rows' = list /\ list' = list /\ buffer' = NoColumns /\ page' = << >> /\ rpc' = "rows"
  BY DEF ReadList
<1>2. page' \in Seq(Shown) /\ DOMAIN page' = {} /\ Len(page') = 0 /\ Len(list) \in Nat
  BY <1>1 DEF RowInv
<1>3. buffer' \in Columns
  BY <1>1 DEF NoColumns, Columns
<1>4. ValuesAreRows' /\ PageWithin' /\ PlainRowsTrue' /\ RunsAwayOnBackslash'
  BY <1>1, <1>2 DEF RowInv, ValuesAreRows, PageWithin, PlainRowsTrue, RunsAwayOnBackslash
<1> QED BY <1>1, <1>2, <1>3, <1>4 DEF RowInv

\* A row is taken apart.
LEMMA AddRowKeeps ==
  ASSUME RowInv, AddRow
  PROVE  RowInv'
<1> DEFINE k == Len(page) + 1
           r == rows[k]
           P == [columns |-> buffer', picture |-> get_file_suffix(buffer'.name)]
<1>1. /\ rpc = "rows" /\ Len(page) < Len(rows) /\ page' = Append(page, P)
      /\ list' = list /\ rpc' = rpc /\ rows' = rows
  BY DEF AddRow
<1>2. PICK before \in Before(k) :
        buffer' = [id   |-> FirstColumn(r.value, before),
                   url  |-> get_value_by_col(r.value, 2, buffer.url),
                   name |-> get_value_by_col(r.value, 3, buffer.name),
                   time |-> get_value_by_col(r.value, 4, buffer.time),
                   user |-> get_value_by_col(r.value, 5, buffer.user)]
  BY DEF AddRow, Row
<1>3. /\ Len(page) \in Nat /\ Len(rows) \in Nat /\ DOMAIN page = 1..Len(page)
      /\ k \in DOMAIN rows /\ k \in Nat \ {0}
  BY <1>1 DEF RowInv
<1>4. r \in Entry /\ r.value = RowText(r.id, r.name)
  BY <1>3 DEF RowInv, ValuesAreRows
<1>5. r.id \in Ids /\ r.name \in Seq(Byte) /\ r.value \in Seq(Byte)
  BY <1>4 DEF Entry
<1> HIDE DEF k, r
<1>6. /\ buffer.url \in Seq(Byte) /\ buffer.name \in Seq(Byte) /\ buffer.time \in Seq(Byte)
      /\ buffer.user \in Seq(Byte)
  BY DEF RowInv, Columns
<1>7. FirstColumn(r.value, before) = IF before = Backslash THEN << >> ELSE IdText[r.id]
  BY ONLY <1>4, <1>5, FirstIsId
<1>8. buffer' \in Columns
  <2>1. FirstColumn(r.value, before) \in Seq(Byte)
    <3>1. IdText[r.id] \in Seq(Byte) /\ << >> \in Seq(Byte)
      BY <1>5, RowFields
    <3> QED BY ONLY <1>7, <3>1
  <2>2. /\ get_value_by_col(r.value, 2, buffer.url) \in Seq(Byte)
        /\ get_value_by_col(r.value, 3, buffer.name) \in Seq(Byte)
        /\ get_value_by_col(r.value, 4, buffer.time) \in Seq(Byte)
        /\ get_value_by_col(r.value, 5, buffer.user) \in Seq(Byte)
    BY ONLY <1>5, <1>6, ColumnType
  <2> QED BY ONLY <1>2, <2>1, <2>2 DEF Columns
<1>9. P \in Shown
  <2>1. get_file_suffix(buffer'.name) \in Seq(Byte)
    BY <1>8, SuffixType DEF get_file_suffix, Columns
  <2> QED BY <1>8, <2>1 DEF Shown
<1>10. /\ page' \in Seq(Shown) /\ Len(page') = k /\ page'[k] = P
       /\ \A j \in 1..Len(page) : page'[j] = page[j]
  <2>1. page \in Seq(Shown)
    BY DEF RowInv
  <2> HIDE DEF P
  <2> QED BY ONLY <1>1, <1>9, <2>1, AppendProperties DEF k
<1>11. RowShown(k, r, P)
  <2> SUFFICES ASSUME Plain(r.name)
               PROVE  /\ \E id \in {IdText[r.id]} \cup (IF k = 1 THEN {} ELSE {<< >>}) :
                           P.columns = [Fields(r.id, r.name) EXCEPT !.id = id]
                      /\ P.picture = file_suffix_get(r.name)
    BY DEF RowShown
  <2>1. /\ get_value_by_col(r.value, 2, buffer.url) = UrlText[r.id]
        /\ get_value_by_col(r.value, 3, buffer.name) = r.name
        /\ get_value_by_col(r.value, 4, buffer.time) = TimeText[r.id]
        /\ get_value_by_col(r.value, 5, buffer.user) = User
    BY ONLY Plain(r.name), <1>4, <1>5, PlainColumns
  <2> DEFINE i == FirstColumn(r.value, before)
  <2>2. i \in {IdText[r.id]} \cup (IF k = 1 THEN {} ELSE {<< >>})
    <3>1. k = 1 => before # Backslash
      BY DEF Before, NUL, Backslash
    <3> QED BY ONLY <1>7, <3>1
  <2> HIDE DEF i
  <2>3. buffer' = [id |-> i, url |-> UrlText[r.id], name |-> r.name,
                   time |-> TimeText[r.id], user |-> User]
    BY ONLY <1>2, <2>1 DEF i
  <2>4. buffer' = [Fields(r.id, r.name) EXCEPT !.id = i]
    BY ONLY <2>3 DEF Fields
  <2>5. P.columns = buffer' /\ P.picture = file_suffix_get(buffer'.name)
    BY DEF get_file_suffix
  <2>6. buffer'.name = r.name
    BY ONLY <2>3
  <2> QED BY ONLY <2>2, <2>4, <2>5, <2>6
<1>12. PlainRowsTrue'
  <2>1. \A j \in DOMAIN page : RowShown(j, rows[j], page[j])
    BY PlainRows DEF RowInv
  <2>2. ASSUME NEW j \in DOMAIN page'
        PROVE  RowShown(j, rows'[j], page'[j])
    <3>1. DOMAIN page' = 1..k
      BY ONLY <1>10
    <3>2. j \in 1..Len(page) \/ j = k
      BY ONLY <1>3, <3>1, j \in DOMAIN page' DEF k
    <3>3. CASE j \in 1..Len(page)
      BY ONLY <1>1, <1>3, <1>10, <2>1, <3>3
    <3>4. CASE j = k
      <4>1. rows'[j] = r /\ page'[j] = P
        BY ONLY <1>1, <1>10, <3>4 DEF r
      <4> QED BY ONLY <1>11, <3>4, <4>1
    <3> QED BY ONLY <3>2, <3>3, <3>4
  <2> QED BY ONLY <2>2, PlainRows
<1>13. ValuesAreRows' /\ RunsAwayOnBackslash'
  BY <1>1 DEF RowInv, ValuesAreRows, RunsAwayOnBackslash
<1>14. PageWithin'
  BY <1>1, <1>3, <1>10 DEF PageWithin, k
<1> QED BY <1>1, <1>8, <1>10, <1>12, <1>13, <1>14 DEF RowInv

\* The reader runs away from a row, or sends the page.
LEMMA EndKeeps ==
  ASSUME RowInv, RunAway \/ Send \/ UNCHANGED rowVars
  PROVE  RowInv'
<1>1. /\ list' = list /\ rows' = rows /\ buffer' = buffer /\ page' = page
      /\ rpc' = rpc \/ rpc' = "idle" \/ RunAway
  BY DEF RunAway, Send, rowVars
<1>2. RunAway => rpc' = "undefined" /\ Len(page) < Len(rows) /\ Leaves(rows[Len(page) + 1].value, 5)
  BY DEF RunAway, Row
<1>3. rpc' \in {"idle", "rows", "undefined"}
  BY <1>1, <1>2 DEF RowInv
<1>4. ValuesAreRows' /\ PlainRowsTrue'
  BY <1>1, PlainRows DEF RowInv, ValuesAreRows
<1>5. PageWithin'
  BY <1>1, <1>2 DEF RowInv, PageWithin
<1>6. RunsAwayOnBackslash'
  <2>1. CASE RunAway
    <3> DEFINE r == rows[Len(page) + 1]
    <3>1. r \in Entry /\ r.value = RowText(r.id, r.name)
      <4>1. Len(page) + 1 \in DOMAIN rows
        BY <1>2, <2>1 DEF RowInv
      <4> QED BY <4>1 DEF RowInv, ValuesAreRows
    <3>2. ~ HasColumn(r.value, 5) /\ \A p \in 1..Len(r.value) : r.value[p] # LF
      BY <1>2, <2>1 DEF Leaves
    <3>3. Row' = r
      BY <1>1 DEF Row
    <3> HIDE DEF r
    <3>4. r.id \in Ids /\ r.name \in Seq(Byte)
      BY <3>1 DEF Entry
    <3>5. ~ (r.name = << >> \/ r.name[Len(r.name)] # Backslash)
      BY ONLY <3>1, <3>2, <3>4, FiveFound
    <3> QED BY ONLY <3>3, <3>5 DEF RunsAwayOnBackslash
  <2>2. CASE ~ RunAway
    BY <1>1, <2>2 DEF RowInv, RunsAwayOnBackslash, Row
  <2> QED BY <2>1, <2>2
<1> QED BY <1>1, <1>3, <1>4, <1>5, <1>6 DEF RowInv

LEMMA ReaderKeeps ==
  ASSUME RowInv, Reader \/ UNCHANGED rowVars
  PROVE  RowInv'
BY ReadListKeeps, AddRowKeeps, EndKeeps DEF Reader

-----------------------------------------------------------------------------
(* The rows by themselves *)

LEMMA RowAlways == RowSpec => []RowInv
<1>1. RowInv /\ [RowNext]_rowVars => RowInv'
  <2> SUFFICES ASSUME RowInv, [RowNext]_rowVars PROVE RowInv'
    OBVIOUS
  <2>1. \A n \in FileNames : n \in Seq(Byte)
    BY FileNamesAssumption
  <2>2. ASSUME NEW n \in FileNames, Store(n) PROVE RowInv'
    BY <2>1, <2>2, StoreKeeps
  <2>3. (Reader \/ UNCHANGED rowVars) => RowInv'
    BY ReaderKeeps
  <2> QED BY <2>2, <2>3 DEF RowNext
<1> QED BY <1>1, RowInitInv, PTL DEF RowSpec

LEMMA RowTypes == RowInv => RowTypeOK
BY DEF RowInv, RowTypeOK, Shown

\* Rows, columns and pages keep their types: what get_value_by_col copies out
\* of a row are bytes of it, or what was in the buffer before.
THEOREM RowTypeCorrect == RowSpec => []RowTypeOK
BY RowAlways, RowTypes, PTL

-----------------------------------------------------------------------------
(* The whole passage *)

\* Every step of the service is one of the upload worker, or none for it.
LEMMA PassageIsForm == Next => [FormNext]_formVars
BY DEF Next, Publish, Uploader, FormNext, formVars

\* The service with its list takes forms apart as the worker alone does.
THEOREM ImplementsForm == Spec => FormSpec
<1>1. Init => FormInit
  BY DEF Init
<1>2. [Next]_passageVars => [FormNext]_formVars
  BY PassageIsForm DEF passageVars, formVars
<1> QED BY <1>1, <1>2, PTL DEF Spec, FormSpec

\* A file that is listed, or was when the rows were read, has the name that the
\* browser sent with the request it was listed for.
SentKnown ==
  /\ sent \in [Ids -> Request]
  /\ \A k \in DOMAIN list :
       Regular(sent[list[k].id]) => list[k].name = sent[list[k].id].name
  /\ \A k \in DOMAIN rows : \E j \in DOMAIN list : rows[k] = list[j]

PassageInv == FormInv /\ RowInv /\ SentKnown

LEMMA PublishKeeps ==
  ASSUME PassageInv, Publish
  PROVE  SentKnown'
<1>1. PICK id \in Ids :
        /\ \A i \in DOMAIN list : list[i].id # id
        /\ list' = <<[id |-> id, name |-> saved.name, value |-> RowText(id, saved.name)]>> \o list
  BY DEF Publish, Store
<1>2. rows' = rows /\ sent' = [sent EXCEPT ![list'[1].id] = req] /\ fpc = "saved"
  BY DEF Publish, Store, Finish
<1> DEFINE e == [id |-> id, name |-> saved.name, value |-> RowText(id, saved.name)]
<1>3. e.id = id /\ e.name = saved.name
  OBVIOUS
<1> HIDE DEF e
<1>4. list' = <<e>> \o list
  BY <1>1 DEF e
<1>5. list \in Seq(Entry) /\ list \in Seq({e} \cup Entry) /\ e \in {e} \cup Entry
  BY DEF PassageInv, RowInv
<1>6. /\ 1 \in DOMAIN list' /\ list'[1] = e
      /\ \A k \in DOMAIN list' : k # 1 => k - 1 \in DOMAIN list /\ list'[k] = list[k - 1]
      /\ \A j \in DOMAIN list : j + 1 \in DOMAIN list' /\ list'[j + 1] = list[j]
  BY ONLY <1>4, <1>5, Pushed
<1>7. sent' = [sent EXCEPT ![id] = req] /\ req \in Request /\ sent \in [Ids -> Request]
  BY <1>2, <1>3, <1>6 DEF PassageInv, FormInv, FormTypeOK, SentKnown
<1>8. sent'[id] = req /\ \A i \in Ids : i # id => sent'[i] = sent[i]
  BY ONLY <1>7, id \in Ids
<1>9. Regular(req) => saved.name = req.name
  BY <1>2 DEF PassageInv, FormInv, FileTaken
<1>10. \A j \in DOMAIN list : list[j].id \in Ids
  <2>1. \A r \in Entry : r.id \in Ids
    BY DEF Entry
  <2>2. \A j \in DOMAIN list : list[j] \in Entry
    BY ONLY <1>5
  <2> QED BY ONLY <2>1, <2>2
<1>11. ASSUME NEW k \in DOMAIN list', Regular(sent'[list'[k].id])
       PROVE  list'[k].name = sent'[list'[k].id].name
  <2>1. CASE k = 1
    BY ONLY <1>3, <1>6, <1>8, <1>9, <1>11, <2>1
  <2>2. CASE k # 1
    <3>1. k - 1 \in DOMAIN list /\ list'[k] = list[k - 1]
      BY ONLY <1>6, <2>2, k \in DOMAIN list'
    <3>2. sent'[list'[k].id] = sent[list[k - 1].id]
      BY ONLY <1>1, <1>8, <1>10, <3>1
    <3> QED BY <1>11, <3>1, <3>2 DEF PassageInv, SentKnown
  <2> QED BY <2>1, <2>2
<1>12. \A k \in DOMAIN rows : \E j \in DOMAIN list' : rows[k] = list'[j]
  BY <1>6 DEF PassageInv, SentKnown
<1>13. sent' \in [Ids -> Request]
  BY ONLY <1>7
<1> QED BY <1>2, <1>11, <1>12, <1>13 DEF SentKnown

LEMMA PassageStep == PassageInv /\ [Next]_passageVars => PassageInv'
<1> SUFFICES ASSUME PassageInv, [Next]_passageVars PROVE PassageInv'
  OBVIOUS
<1>1. FormInv'
  <2>1. [FormNext]_formVars
    BY PassageIsForm DEF passageVars, formVars
  <2> QED BY <2>1, FormStep DEF PassageInv
<1>2. CASE Publish
  <2>1. saved.name \in Seq(Byte)
    BY DEF PassageInv, FormInv, FormTypeOK
  <2>2. RowInv'
    BY <1>2, <2>1, StoreKeeps DEF Publish, PassageInv
  <2> QED BY <1>1, <1>2, <2>2, PublishKeeps DEF PassageInv
<1>3. CASE Uploader \/ UNCHANGED passageVars
  <2>1. UNCHANGED <<rowVars, sent>>
    BY <1>3 DEF Uploader, passageVars
  <2>2. RowInv'
    BY <2>1, ReaderKeeps DEF PassageInv
  <2>3. SentKnown'
    BY <2>1 DEF PassageInv, SentKnown, rowVars
  <2> QED BY <1>1, <2>2, <2>3 DEF PassageInv
<1>4. CASE Reader /\ UNCHANGED <<formVars, sent>>
  <2>1. RowInv'
    BY <1>4, ReaderKeeps DEF PassageInv
  <2>2. sent' = sent /\ list' = list /\ (rows' = rows \/ rows' = list)
    BY <1>4 DEF Reader, ReadList, AddRow, RunAway, Send
  <2>3. SentKnown'
    BY <2>2 DEF PassageInv, SentKnown
  <2> QED BY <1>1, <2>1, <2>3 DEF PassageInv
<1> QED BY <1>2, <1>3, <1>4 DEF Next

LEMMA PassageAlways == Spec => []PassageInv
<1>1. Init => PassageInv
  <2> SUFFICES ASSUME Init PROVE PassageInv
    OBVIOUS
  <2>1. FormInv /\ RowInv
    BY FormInitInv, RowInitInv DEF Init
  <2>2. DOMAIN list = {} /\ DOMAIN rows = {}
    BY DEF Init, RowInit
  <2>3. sent \in [Ids -> Request]
    <3>1. NoRequest \in Request
      BY DEF NoRequest, Request
    <3> QED BY <3>1 DEF Init
  <2> QED BY <2>1, <2>2, <2>3 DEF PassageInv, SentKnown
<1> QED BY <1>1, PassageStep, PTL DEF Spec

\* The buffers of both workers keep their sizes and hold bytes, whatever is
\* sent, listed and read.
THEOREM TypeCorrect == Spec => []TypeOK
<1>1. PassageInv => TypeOK
  BY RowTypes DEF PassageInv, FormInv, TypeOK
<1> QED BY <1>1, PassageAlways, PTL

\* A row with a plain name comes back as file_msg_store_to_redis listed it,
\* whatever the rows around it are.
THEOREM PlainRowsComeBack == Spec => []PlainRowsTrue
<1>1. PassageInv => PlainRowsTrue
  BY DEF PassageInv, RowInv
<1> QED BY <1>1, PassageAlways, PTL

\* get_value_by_col runs off a row only if the name ends with a backslash.
THEOREM OnlyBackslashRunsAway == Spec => []RunsAwayOnBackslash
<1>1. PassageInv => RunsAwayOnBackslash
  BY DEF PassageInv, RowInv
<1> QED BY <1>1, PassageAlways, PTL

\* From one end to the other: what a browser sent under a plain name is shown
\* with that name, at its address and with the picture of its type, after any
\* number of other uploads and pages.
THEOREM EveryFileShownAsSent == Spec => []ShownAsSent
<1>1. PassageInv => ShownAsSent
  <2> SUFFICES ASSUME PassageInv, NEW k \in DOMAIN page,
                      Regular(sent[rows[k].id]), Plain(sent[rows[k].id].name)
               PROVE  /\ page[k].columns.name = sent[rows[k].id].name
                      /\ page[k].columns.url = UrlText[rows[k].id]
                      /\ page[k].picture = file_suffix_get(sent[rows[k].id].name)
    BY DEF ShownAsSent
  <2>1. k \in DOMAIN rows
    BY DEF PassageInv, RowInv, PageWithin
  <2>2. rows[k].name = sent[rows[k].id].name
    BY <2>1 DEF PassageInv, SentKnown
  <2>3. /\ \E id : page[k].columns = [Fields(rows[k].id, rows[k].name) EXCEPT !.id = id]
        /\ page[k].picture = file_suffix_get(rows[k].name)
    BY <2>2 DEF PassageInv, RowInv, PlainRowsTrue
  <2>4. page[k].columns.name = rows[k].name /\ page[k].columns.url = UrlText[rows[k].id]
    BY <2>3 DEF Fields
  <2> QED BY <2>2, <2>3, <2>4
<1> QED BY <1>1, PassageAlways, PTL
=============================================================================
