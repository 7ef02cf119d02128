---------------------------- MODULE ListingProof ----------------------------
(***************************************************************************)
(* Proofs about Listing, for every list, every query text, machine         *)
(* integers of any width and any behaviour of the writers.                 *)
(***************************************************************************)
EXTENDS Listing, SequenceTheorems, TLAPS

-----------------------------------------------------------------------------
(* What the query gives *)

\* Numbers wrap around and stay ints.
LEMMA WrapInts ==
  ASSUME NEW n \in Int
  PROVE  Wrap(n) \in Ints /\ (n \in Ints => Wrap(n) = n)
<1> DEFINE m == 2 * (IntMax + 1)
           k == n + IntMax + 1
<1>1. IntMax \in Nat
  BY IntAssumption
<1>2. m \in Nat \ {0} /\ k \in Int /\ m = IntMax + IntMax + 2
  BY <1>1
<1>3. (k % m) \in 0..(m - 1)
  <2> HIDE DEF m, k
  <2> QED BY <1>2
<1>4. Wrap(n) = IF n \in Ints THEN n ELSE (k % m) - IntMax - 1
  BY DEF Wrap
<1> HIDE DEF m, k
<1>5. (k % m) - IntMax - 1 \in Ints
  BY <1>1, <1>2, <1>3 DEF Ints
<1> QED BY <1>4, <1>5

LEMMA IntsAreInt == Ints \subseteq Int /\ 0 \in Ints
BY IntAssumption DEF Ints

\* atoi gives ints.
LEMMA AtoiInts == \A v : Atoi(v) \in Ints
BY NumeralAssumption, IntsAreInt DEF Atoi

\* What a query asks for with the fields that it has
Honoured(q, from, count) ==
  Plain(q) =>
    \A first, last \in DOMAIN q : IsField(q, first, last) =>
      /\ q[first] = "fromId" => from = Atoi(SubSeq(q, first + 2, last))
      /\ q[first] = "count" => count = Atoi(SubSeq(q, first + 2, last))

\* The search for a key finds the field of that name, and its value ends where
\* the field does.
LEMMA FieldFound ==
  ASSUME NEW q \in Seq(Tokens), Plain(q), NEW first \in Nat, NEW last \in Nat, IsField(q, first, last),
         q[first] \in {"fromId", "count"}
  PROVE  /\ KeyAt(q, q[first]) # 0
         /\ ValueOf(q, q[first]) = SubSeq(q, first + 2, last)
<1> DEFINE key == q[first]
<1>1. /\ DOMAIN q = 1..Len(q) /\ Len(q) \in Nat
      /\ first \in 1..Len(q) /\ last \in first..Len(q)
      /\ last < Len(q) => q[last + 1] = Ampersand
      /\ \A i \in first..last : q[i] # Ampersand
  BY DEF IsField
<1>2. /\ first < Len(q) /\ q[first + 1] = Equals
      /\ \A j \in DOMAIN q : q[j] = key => j = first
      /\ \A j \in DOMAIN q : q[j] # Hash
  <2>1. first \in DOMAIN q /\ q[first] \in {"cmd", "fromId", "count"}
    BY <1>1
  <2>2. /\ q[first] \in {"cmd", "fromId", "count"} =>
             /\ first < Len(q) /\ q[first + 1] = Equals
             /\ \A j \in DOMAIN q : q[j] = q[first] => j = first
    BY ONLY <2>1, Plain(q) DEF Plain
  <2>3. \A j \in DOMAIN q : q[j] # Hash
    BY ONLY Plain(q), Zenon DEF Plain
  <2> QED BY ONLY <2>1, <2>2, <2>3
<1> HIDE DEF key
<1>3. KeyAt(q, key) = first
  <2> DEFINE Is(i) == q[i] = key /\ \A j \in 1..(i - 1) : q[j] # key
  <2>1. first \in DOMAIN q /\ Is(first)
    <3>1. \A j \in 1..(first - 1) : j \in DOMAIN q /\ j # first
      BY ONLY <1>1
    <3> QED BY <1>1, <1>2, <3>1 DEF key
  <2>2. \A i \in DOMAIN q : Is(i) => i = first
    BY <1>2
  <2>3. (CHOOSE i \in DOMAIN q : Is(i)) = first
    <3> HIDE DEF Is
    <3> QED BY ONLY <2>1, <2>2
  <2>4. \E i \in DOMAIN q : q[i] = key
    BY ONLY <2>1
  <2> QED BY ONLY <2>3, <2>4 DEF KeyAt
<1>4. last >= first + 1
  <2>1. CASE last < first + 1
    <3>1. last = first /\ last < Len(q)
      BY ONLY <1>1, <1>2, <2>1, first \in Nat, last \in Nat
    <3>2. q[first + 1] = Ampersand
      BY ONLY <1>1, <3>1
    <3>3. Ampersand # Equals
      BY ONLY DEF Ampersand, Equals
    <3> QED BY ONLY <1>2, <3>2, <3>3
  <2> QED BY ONLY <2>1, first \in Nat, last \in Nat
<1>5. ValueEnd(q, first + 2) = last + 1
  <2> DEFINE End(e) == /\ e \in DOMAIN q => q[e] \in {Ampersand, Hash}
                       /\ \A j \in (first + 2)..(e - 1) : q[j] \notin {Ampersand, Hash}
  <2>1. last + 1 \in (first + 2)..(Len(q) + 1) /\ End(last + 1)
    BY <1>1, <1>2, <1>4
  <2>2. ASSUME NEW e \in (first + 2)..(Len(q) + 1), End(e)
        PROVE  e = last + 1
    <3>1. CASE e < last + 1
      BY <1>1, <1>2, <2>2, <3>1
    <3>2. CASE e > last + 1
      <4>1. last + 1 \in (first + 2)..(e - 1) /\ last < Len(q)
        BY <1>1, <1>4, <3>2
      <4> QED BY <1>1, <2>2, <4>1
    <3> QED BY <1>1, <3>1, <3>2
  <2>3. (CHOOSE e \in (first + 2)..(Len(q) + 1) : End(e)) = last + 1
    <3> HIDE DEF End
    <3> QED BY ONLY <2>1, <2>2
  <2> QED BY ONLY <2>3 DEF ValueEnd
<1>6. last + 1 - 1 = last /\ first # 0
  BY <1>1
<1>7. ValueOf(q, key) = SubSeq(q, first + 2, last)
  BY <1>3, <1>5, <1>6 DEF ValueOf, ValueAt
<1> QED BY <1>3, <1>6, <1>7 DEF key

\* A query that is accepted gets its own parameters.
LEMMA NumbersHonoured ==
  ASSUME NEW q \in Queries, NEW f, NEW c
  PROVE  Honoured(q, NumberGet(q, "fromId", f), NumberGet(q, "count", c))
<1>1. q \in Seq(Tokens)
  BY QueriesAssumption
<1>2. ASSUME Plain(q), NEW first \in DOMAIN q, NEW last \in DOMAIN q, IsField(q, first, last),
             q[first] \in {"fromId", "count"}, NEW n
      PROVE  NumberGet(q, q[first], n) = Atoi(SubSeq(q, first + 2, last))
  <2>0. first \in Nat /\ last \in Nat
    BY <1>1
  <2>1. /\ KeyAt(q, q[first]) # 0
        /\ ValueOf(q, q[first]) = SubSeq(q, first + 2, last)
    BY <1>1, <1>2, <2>0, FieldFound
  <2> QED BY ONLY <2>1 DEF NumberGet
<1> QED BY <1>2 DEF Honoured

-----------------------------------------------------------------------------
(* What LRANGE and the copying loop return *)

\* The last index is an int; it is the one that the sum says, if that is one.
LEMMA EndIdIs ==
  ASSUME NEW a \in Ints, NEW c \in Ints
  PROVE  /\ EndId(a, c) \in Ints
         /\ a + c - 1 \in Ints => EndId(a, c) = a + c - 1
<1>1. a \in Int /\ c \in Int
  BY IntsAreInt
<1>2. a + c - 1 \in Int
  BY <1>1
<1> QED BY <1>2, WrapInts DEF EndId

\* LRANGE returns a gapless piece of the list that starts at First(a, n).
LEMMA LRangeSlice ==
  ASSUME NEW S, NEW s \in Seq(S), NEW a \in Int, NEW b \in Int
  PROVE  /\ LRange(s, a, b) \in Seq(S)
         /\ Len(LRange(s, a, b)) =
              IF First(a, Len(s)) <= Last(b, Len(s))
              THEN Last(b, Len(s)) - First(a, Len(s)) + 1 ELSE 0
         /\ \A j \in 1..Len(LRange(s, a, b)) :
              /\ First(a, Len(s)) + j \in 1..Len(s)
              /\ LRange(s, a, b)[j] = s[First(a, Len(s)) + j]
<1> DEFINE m == First(a, Len(s)) + 1
           n == Last(b, Len(s)) + 1
<1>1. Len(s) \in Nat
  OBVIOUS
<1>2. m \in Int /\ m >= 1 /\ n \in Int /\ n <= Len(s)
  BY <1>1 DEF First, Last
<1> HIDE DEF m, n
<1>3. \A i \in m..n : s[i] \in S
  BY <1>1, <1>2
<1>4. /\ SubSeq(s, m, n) \in Seq(S)
      /\ Len(SubSeq(s, m, n)) = IF m <= n THEN n - m + 1 ELSE 0
      /\ \A i \in 1..n - m + 1 : SubSeq(s, m, n)[i] = s[m + i - 1]
  BY <1>2, <1>3, SubSeqProperties
<1>5. First(a, Len(s)) = m - 1 /\ Last(b, Len(s)) = n - 1
  BY <1>1 DEF m, n, First, Last
<1>6. LRange(s, a, b) = SubSeq(s, m, n)
  BY DEF LRange, m, n
<1> QED BY <1>1, <1>2, <1>4, <1>5, <1>6

\* The loop copies a prefix.
LEMMA CopiedPrefix ==
  ASSUME NEW S, NEW e \in Seq(S), NEW k \in 0..Len(e)
  PROVE  /\ Copied(e, k) \in Seq(S)
         /\ Len(Copied(e, k)) = k
         /\ \A j \in 1..k : Copied(e, k)[j] = e[j]
<1>1. \A i \in 1..k : e[i] \in S
  OBVIOUS
<1> QED BY <1>1, SubSeqProperties DEF Copied

\* What rop_range_list copies is a piece of the list.  It fits into `count`
\* rows, whatever the list and wherever the page starts, if the last index does
\* not wrap around, unless the page starts at the front and endId is negative:
\* where endId is no bound, LRANGE is one.
LEMMA CopiedFits ==
  ASSUME NEW S, NEW s \in Seq(S), NEW a \in Ints, NEW c \in Ints
  PROVE  /\ RangeRows(s, a, EndId(a, c)) \in Seq(S)
         /\ \A j \in 1..Len(RangeRows(s, a, EndId(a, c))) :
              /\ First(a, Len(s)) + j \in 1..Len(s)
              /\ RangeRows(s, a, EndId(a, c))[j] = s[First(a, Len(s)) + j]
         /\ a + c - 1 \in Ints /\ c >= 1 => Len(RangeRows(s, a, EndId(a, c))) <= c
         /\ a + c - 1 \in Ints /\ c < 1 =>
              Len(RangeRows(s, a, EndId(a, c))) = 0 \/ (a >= 0 /\ a + c <= 0)
<1> DEFINE b == EndId(a, c)
           e == LRange(s, a, b)
           k == MaxCount(Len(e), b)
           r == Copied(e, k)
           fits == a + c - 1 \in Ints
<1>1. a \in Int /\ c \in Int /\ b \in Int /\ (fits => b = a + c - 1)
  BY EndIdIs, IntsAreInt
<1> HIDE DEF fits
<1>2. /\ e \in Seq(S)
      /\ Len(e) = IF First(a, Len(s)) <= Last(b, Len(s))
                  THEN Last(b, Len(s)) - First(a, Len(s)) + 1 ELSE 0
      /\ \A j \in 1..Len(e) : /\ First(a, Len(s)) + j \in 1..Len(s)
                              /\ e[j] = s[First(a, Len(s)) + j]
  <2> HIDE DEF b
  <2>1. e = LRange(s, a, b)
    OBVIOUS
  <2> HIDE DEF e
  <2> QED BY ONLY s \in Seq(S), <1>1, <2>1, LRangeSlice
<1> HIDE DEF b, e
<1>3. Len(e) \in Nat /\ Len(s) \in Nat
  BY <1>2
<1>4. k \in 0..Len(e)
  BY <1>1, <1>3 DEF MaxCount
<1>5. ASSUME fits
      PROVE  (c >= 1 => k <= c) /\ (c < 1 => k = 0 \/ (a >= 0 /\ b < 0))
  <2> DEFINE f == First(a, Len(s))
             l == Last(b, Len(s))
  <2>1. /\ f \in Int /\ f >= 0 /\ f >= a /\ (a < 0 => f >= a + Len(s))
        /\ l \in Int /\ (b < 0 => l = b + Len(s)) /\ (b >= 0 => l <= b)
    BY <1>1, <1>3 DEF First, Last
  <2>2. Len(e) = IF f <= l THEN l - f + 1 ELSE 0
    BY <1>2
  <2> HIDE DEF f, l
  <2>0. b = a + c - 1
    BY <1>1, <1>5
  <2>3. c >= 1 /\ (b < 0 \/ a >= 0) => Len(e) <= c
    BY <1>1, <1>3, <2>0, <2>1, <2>2
  <2>4. b >= 0 => k <= b
    BY <1>1, <1>3 DEF MaxCount
  <2>5. c < 1 /\ ~ (a >= 0 /\ b < 0) => Len(e) = 0
    <3>1. CASE a >= 0 /\ b >= 0
      BY <1>1, <1>3, <2>0, <2>1, <2>2, <3>1
    <3>2. CASE a < 0
      BY <1>1, <1>3, <2>0, <2>1, <2>2, <3>2
    <3> QED BY <1>1, <3>1, <3>2
  <2> QED BY <1>1, <1>3, <1>4, <2>0, <2>3, <2>4, <2>5
<1> HIDE DEF k
<1>6. r \in Seq(S) /\ Len(r) = k /\ \A j \in 1..k : r[j] = e[j]
  BY <1>2, <1>4, CopiedPrefix
<1> HIDE DEF r
<1>7. /\ r \in Seq(S)
      /\ \A j \in 1..Len(r) : /\ First(a, Len(s)) + j \in 1..Len(s)
                              /\ r[j] = s[First(a, Len(s)) + j]
      /\ fits /\ c >= 1 => Len(r) <= c
      /\ fits /\ c < 1 => Len(r) = 0 \/ (a >= 0 /\ a + c <= 0)
  <2>1. Len(r) = k /\ \A j \in 1..k : j \in 1..Len(e)
    BY ONLY <1>3, <1>4, <1>6
  <2>2. \A j \in 1..Len(r) : /\ First(a, Len(s)) + j \in 1..Len(s)
                              /\ r[j] = s[First(a, Len(s)) + j]
    BY ONLY <1>2, <1>6, <2>1
  <2>3. fits /\ a >= 0 /\ b < 0 => a + c <= 0
    BY ONLY <1>1
  <2> QED BY ONLY <1>5, <1>6, <2>1, <2>2, <2>3
<1>8. RangeRows(s, a, b) = r
  BY DEF e, k, r, RangeRows
<1>9. b = EndId(a, c)
  BY DEF b
<1> QED BY ONLY <1>7, <1>8, <1>9 DEF fits

-----------------------------------------------------------------------------
(* The inductive invariant *)

\* ids are the entries of l from `from` on, counted in the n oldest of l.
Piece(ids, from, n, l) ==
  /\ n <= Len(l)
  /\ \A j \in 1..Len(ids) : /\ Len(l) - n + First(from, n) + j \in 1..Len(l)
                            /\ ids[j] = l[Len(l) - n + First(from, n) + j]

IdsOf(p) == [j \in 1..Len(p) |-> p[j].id]

\* The connection is open exactly where the worker uses it.
ConnInv ==
  /\ pc \in {"accept", "connect"} => conns = 0
  /\ pc \in {"range", "rows"} => conns = 1

\* The rows are a piece of the list, and the page is made of the first rows.
PageInv ==
  pc = "rows" =>
    /\ Piece(rows, fromBuf, lenSeen, entries)
    /\ Len(page) <= Len(rows)
    /\ \A j \in 1..Len(page) : page[j].id = rows[j]

AnswerInv ==
  /\ Piece(IdsOf(answer.page), answer.from, answer.len, entries)
  /\ Honoured(answer.query, answer.from, answer.count)

\* The buffers hold the parameters that the query has.
QueryInv ==
  pc \in {"connect", "range", "rows"} => Honoured(query, fromBuf, countBuf)

ListingInv == TypeOK /\ ConnInv /\ QueryInv /\ PageInv /\ AnswerInv

\* The initial state satisfies the invariant.
LEMMA ListingInit == Init => ListingInv
<1> SUFFICES ASSUME Init PROVE ListingInv
  OBVIOUS
<1>1. << >> \in Seq(Ids) /\ << >> \in Seq(Row) /\ Len(<< >>) = 0
  BY EmptySeq
<1>2. answer = NoAnswer /\ answer.page = << >> /\ answer.len = 0
  BY DEF Init, NoAnswer
<1>3. answer \in [query : Queries \cup {NoQuery}, from : Ints, count : Ints,
                  len : Nat, page : Seq(Row)]
  BY <1>1, IntsAreInt DEF Init, NoAnswer
<1>4. TypeOK
  BY <1>1, <1>3, IntsAreInt DEF Init, TypeOK
<1>5. ConnInv /\ QueryInv /\ PageInv
  BY DEF Init, ConnInv, QueryInv, PageInv
<1>6. AnswerInv
  <2>1. Honoured(answer.query, answer.from, answer.count)
    BY <1>2 DEF Honoured, NoAnswer, NoQuery
  <2> QED BY <1>1, <1>2, <2>1 DEF Init, AnswerInv, Piece, IdsOf
<1> QED BY <1>4, <1>5, <1>6 DEF ListingInv

\* The writers only add entries in front and weights that were missing.
LEMMA WritersGrow ==
  ASSUME TypeOK, Writers
  PROVE  /\ entries' = entries \/ \E id \in Ids : entries' = <<id>> \o entries
         /\ entries' \in Seq(Ids)
         /\ weight' \in [Ids -> {0, 1}]
         /\ \A id \in Ids : weight[id] = 1 => weight'[id] = 1
<1>1. PICK id \in Ids : FS!Publish(id) \/ FS!Weigh(id)
  BY DEF Writers
<1>2. entries \in Seq(Ids) /\ weight \in [Ids -> {0, 1}]
  BY DEF TypeOK
<1>3. CASE FS!Publish(id)
  <2>1. entries' = <<id>> \o entries /\ weight' = weight
    BY <1>3 DEF FS!Publish
  <2>2. <<id>> \o entries \in Seq(Ids)
    BY <1>2
  <2> QED BY <1>2, <2>1, <2>2
<1>4. CASE FS!Weigh(id)
  <2>1. entries' = entries /\ weight' = [weight EXCEPT ![id] = 1]
    BY <1>4 DEF FS!Weigh
  <2> QED BY <1>2, <2>1
<1> QED BY <1>1, <1>3, <1>4

\* A piece of the list is still one when an entry is added in front.
LEMMA PieceKept ==
  ASSUME NEW l \in Seq(Ids), NEW id \in Ids, NEW n \in Nat, NEW from \in Int,
         NEW ids \in Seq(Ids), Piece(ids, from, n, l)
  PROVE  Piece(ids, from, n, <<id>> \o l)
<1> DEFINE k == <<id>> \o l
<1>1. /\ k \in Seq(Ids) /\ Len(k) = Len(l) + 1
      /\ \A i \in 1..Len(l) : k[i + 1] = l[i]
  <2>1. <<id>> \in Seq(Ids) /\ Len(<<id>>) = 1
    OBVIOUS
  <2>2. /\ k \in Seq(Ids) /\ Len(k) = 1 + Len(l)
        /\ \A i \in 1..1 + Len(l) : k[i] = IF i <= 1 THEN <<id>>[i] ELSE l[i - 1]
    BY <2>1, ConcatProperties
  <2>3. Len(l) \in Nat
    OBVIOUS
  <2> HIDE DEF k
  <2>4. ASSUME NEW i \in 1..Len(l) PROVE k[i + 1] = l[i]
    BY <2>2, <2>3
  <2> QED BY <2>2, <2>3, <2>4
<1> HIDE DEF k
<1>2. Len(l) \in Nat /\ First(from, n) \in Int
  BY DEF First
<1>3. n <= Len(k)
  BY <1>1, <1>2 DEF Piece
<1>4. ASSUME NEW j \in 1..Len(ids)
      PROVE  /\ Len(k) - n + First(from, n) + j \in 1..Len(k)
             /\ ids[j] = k[Len(k) - n + First(from, n) + j]
  <2> DEFINE i == Len(l) - n + First(from, n) + j
  <2>1. i \in 1..Len(l) /\ ids[j] = l[i]
    BY DEF Piece
  <2>2. Len(k) - n + First(from, n) + j = i + 1
    BY <1>1, <1>2
  <2> HIDE DEF i
  <2>3. k[i + 1] = l[i] /\ i + 1 \in 1..Len(k)
    BY <1>1, <1>2, <2>1
  <2> QED BY <2>1, <2>2, <2>3
<1>5. Piece(ids, from, n, k)
  BY <1>3, <1>4 DEF Piece
<1> QED BY <1>5 DEF k

\* The ids of a page are ids.
LEMMA IdsOfType ==
  ASSUME NEW p \in Seq(Row)
  PROVE  /\ IdsOf(p) \in Seq(Ids) /\ Len(IdsOf(p)) = Len(p)
         /\ \A j \in 1..Len(p) : IdsOf(p)[j] = p[j].id /\ p[j].id \in Ids
<1>1. Len(p) \in Nat
  OBVIOUS
<1>2. ASSUME NEW j \in 1..Len(p) PROVE p[j].id \in Ids
  <2>1. p[j] \in Row
    BY ElementOfSeq
  <2> QED BY <2>1 DEF Row
<1>3. [j \in 1..Len(p) |-> p[j].id] \in Seq(Ids)
  BY <1>1, <1>2
<1> QED BY <1>1, <1>2, <1>3 DEF IdsOf

\* Every step of the writers keeps the invariant.
LEMMA WritersKeep ==
  ASSUME ListingInv, Writers
  PROVE  ListingInv'
<1> USE DEF ListingInv
<1>1. /\ entries' = entries \/ \E id \in Ids : entries' = <<id>> \o entries
      /\ entries' \in Seq(Ids)
      /\ weight' \in [Ids -> {0, 1}]
      /\ \A id \in Ids : weight[id] = 1 => weight'[id] = 1
  BY WritersGrow
<1>2. /\ UNCHANGED <<pc, query, cmdBuf, fromBuf, countBuf>>
      /\ UNCHANGED <<conns, rows, page, lenSeen, answer>>
  BY DEF Writers, params, work
<1>3. TypeOK'
  BY <1>1, <1>2 DEF TypeOK
<1>4. ASSUME NEW ids \in Seq(Ids), NEW from \in Int, NEW n \in Nat,
             Piece(ids, from, n, entries)
      PROVE  Piece(ids, from, n, entries')
  <2>1. entries \in Seq(Ids)
    BY DEF TypeOK
  <2> QED BY <1>1, <1>4, <2>1, PieceKept
<1>6. PageInv'
  <2> SUFFICES ASSUME pc' = "rows"
               PROVE  /\ Piece(rows, fromBuf, lenSeen, entries')
                      /\ Len(page) <= Len(rows)
                      /\ \A j \in 1..Len(page) : page[j].id = rows[j]
    BY <1>2 DEF PageInv
  <2>1. rows \in Seq(Ids) /\ fromBuf \in Int /\ lenSeen \in Nat /\ page \in Seq(Row)
    BY IntsAreInt DEF TypeOK
  <2> QED BY <1>2, <1>4, <2>1 DEF PageInv
<1>7. AnswerInv'
  <2>1. answer.page \in Seq(Row) /\ answer.from \in Int /\ answer.len \in Nat
    BY IntsAreInt DEF TypeOK
  <2>2. IdsOf(answer.page) \in Seq(Ids)
    BY <2>1, IdsOfType
  <2>3. Piece(IdsOf(answer.page), answer.from, answer.len, entries')
    BY <1>4, <2>1, <2>2 DEF AnswerInv
  <2> QED BY <1>2, <2>3 DEF AnswerInv
<1> QED BY <1>2, <1>3, <1>6, <1>7 DEF ConnInv, QueryInv

\* A query that arrives leaves ints in the buffers, and its own parameters.
LEMMA AcceptTypes ==
  ASSUME TypeOK, NEW q \in Queries, Accept(q)
  PROVE  /\ fromBuf' \in Ints /\ countBuf' \in Ints /\ cmdBuf' \in Commands \cup {<< >>}
         /\ pc' = "connect" => query' = q /\ Honoured(q, fromBuf', countBuf')
<1>1. \A key, n : n \in Ints => NumberGet(q, key, n) \in Ints
  BY AtoiInts DEF NumberGet
<1>2. cmdBuf' \in Commands \cup {<< >>}
  <2>1. CASE KeyAt(q, "cmd") = 0
    BY <2>1 DEF Accept, ValueGet, TypeOK
  <2>2. CASE KeyAt(q, "cmd") # 0
    <3>1. KeyAt(q, "cmd") \in DOMAIN q
      BY <2>2 DEF KeyAt
    <3>2. KeyAt(q, "cmd") # Len(q)
      BY <2>2 DEF Accept, Unsafe
    <3>3. KeyAt(q, "cmd") \in 1..(Len(q) - 1)
      BY <3>1, <3>2, QueriesAssumption
    <3> QED BY <2>2, <3>3 DEF Accept, ValueGet, Commands
  <2> QED BY <2>1, <2>2
<1>3. CASE cmdBuf' = <<"newFile">>
  <2>1. /\ fromBuf' = NumberGet(q, "fromId", fromBuf) /\ query' = q
        /\ countBuf' = NumberGet(q, "count", countBuf)
    BY <1>3 DEF Accept
  <2> QED BY <1>1, <1>2, <2>1, NumbersHonoured DEF TypeOK
<1>4. CASE cmdBuf' # <<"newFile">>
  BY <1>2, <1>4 DEF Accept, TypeOK
<1> QED BY <1>3, <1>4

\* Every step of the worker, and every query, keeps the invariant.
LEMMA WorkerKeeps ==
  ASSUME ListingInv, Serve \/ \E q \in Queries : Request(q)
  PROVE  ListingInv'
<1> USE DEF ListingInv
<1>0. /\ entries \in Seq(Ids) /\ fromBuf \in Int /\ countBuf \in Int
      /\ rows \in Seq(Ids) /\ page \in Seq(Row) /\ lenSeen \in Nat
      /\ Len(rows) \in Nat /\ Len(page) \in Nat /\ Len(entries) \in Nat
      /\ conns \in {0, 1} /\ weight \in [Ids -> {0, 1}]
      /\ fromBuf \in Ints /\ countBuf \in Ints
  BY IntsAreInt DEF TypeOK
<1>1. ASSUME NEW q \in Queries, Accept(q) PROVE ListingInv'
  <2>1. /\ fromBuf' \in Ints /\ countBuf' \in Ints /\ cmdBuf' \in Commands \cup {<< >>}
        /\ pc' = "connect" => query' = q /\ Honoured(q, fromBuf', countBuf')
    BY <1>1, AcceptTypes
  <2>2. /\ pc = "accept" /\ pc' \in {"accept", "connect"}
        /\ UNCHANGED <<entries, weight, conns, rows, page, lenSeen, answer>>
        /\ query' \in {q, query}
    BY <1>1 DEF Accept, Goto, store, work
  <2>3. TypeOK'
    BY <2>1, <2>2 DEF TypeOK
  <2>4. ConnInv' /\ PageInv' /\ AnswerInv'
    BY <2>2 DEF ConnInv, PageInv, AnswerInv
  <2>5. QueryInv'
    BY <2>1, <2>2 DEF QueryInv
  <2> QED BY <2>3, <2>4, <2>5
<1>2. ASSUME Connect \/ RangeError \/ Cut \/ \E q \in Queries : AcceptUndefined(q)
      PROVE  ListingInv'
  <2>0. << >> \in Seq(Ids) /\ << >> \in Seq(Row)
    BY EmptySeq
  <2>1. /\ UNCHANGED <<entries, weight, cmdBuf, fromBuf, countBuf, answer>>
        /\ pc' \in {"accept", "range", "crashed", "undefined"}
        /\ query' \in {query, NoQuery}
        /\ pc' = "range" => pc = "connect" /\ query' = query
    BY <1>2 DEF Connect, RangeError, Cut, AcceptUndefined, Forget, PrintNull, Goto,
                store, params, work
  <2>2. /\ pc' = "accept" => conns' = 0
        /\ pc' = "range" => conns' = 1
        /\ conns' \in {0, 1}
    BY <1>0, <1>2 DEF Connect, RangeError, Cut, AcceptUndefined, PrintNull, Goto, ConnInv, work
  <2>3. TypeOK'
    <3>1. rows' \in Seq(Ids) /\ page' \in Seq(Row) /\ lenSeen' \in Nat
      <4>1. CASE Cut
        BY <2>0, <4>1 DEF Cut, Forget
      <4>2. CASE ~ Cut
        <5>1. UNCHANGED <<rows, page, lenSeen>>
          BY <1>2, <4>2 DEF Connect, RangeError, AcceptUndefined, work
        <5> QED BY <1>0, <5>1
      <4> QED BY <4>1, <4>2
    <3>2. query' \in Queries \cup {NoQuery}
      BY <2>1 DEF TypeOK
    <3>3. pc' \in {"accept", "undefined", "connect", "range", "rows", "crashed"}
      BY ONLY <2>1
    <3> QED BY <2>1, <2>2, <3>1, <3>2, <3>3 DEF TypeOK
  <2>4. ConnInv' /\ QueryInv' /\ PageInv' /\ AnswerInv'
    BY <2>1, <2>2 DEF ConnInv, QueryInv, PageInv, AnswerInv
  <2> QED BY <2>3, <2>4
<1>3. ASSUME RangeList PROVE ListingInv'
  <2> DEFINE r == RangeRows(entries, fromBuf, EndId(fromBuf, countBuf))
  <2>1. /\ pc = "range" /\ pc' \in {"rows", "crashed"} /\ rows' = r /\ page' = << >>
        /\ lenSeen' = Len(entries)
        /\ UNCHANGED <<entries, weight, query, cmdBuf, fromBuf, countBuf, conns, answer>>
    BY <1>3 DEF RangeList, Goto, store, params
  <2>2. /\ r \in Seq(Ids)
        /\ \A j \in 1..Len(r) :
             /\ First(fromBuf, Len(entries)) + j \in 1..Len(entries)
             /\ r[j] = entries[First(fromBuf, Len(entries)) + j]
    <3>1. entries \in Seq(Ids) /\ fromBuf \in Ints /\ countBuf \in Ints
      BY <1>0
    <3> QED BY <3>1, CopiedFits
  <2> HIDE DEF r
  <2>3. << >> \in Seq(Row) /\ Len(<< >>) = 0
    BY EmptySeq
  <2>4. TypeOK'
    BY <1>0, <2>1, <2>2, <2>3 DEF TypeOK
  <2>5. First(fromBuf, Len(entries)) \in Int
    BY <1>0 DEF First
  <2>6. Piece(r, fromBuf, Len(entries), entries)
    BY <1>0, <2>2, <2>5 DEF Piece
  <2>7. Len(r) \in Nat
    BY <2>2
  <2>8. PageInv'
    BY <2>1, <2>3, <2>6, <2>7 DEF PageInv
  <2>9. ConnInv' /\ QueryInv' /\ AnswerInv'
    BY <2>1 DEF ConnInv, QueryInv, AnswerInv
  <2> QED BY <2>4, <2>8, <2>9
<1>4. ASSUME AddRow PROVE ListingInv'
  <2> DEFINE id == rows[Len(page) + 1]
  <2>1. PICK score \in {weight[id]} \cup (IF "redis" \in Faults THEN {0} ELSE {}) :
          page' = Append(page, [id |-> id, pv |-> PageView(score)])
    BY <1>4 DEF AddRow
  <2>2. /\ pc = "rows" /\ Len(page) < Len(rows)
        /\ UNCHANGED <<entries, weight, pc, query, cmdBuf, fromBuf, countBuf>>
        /\ UNCHANGED <<conns, rows, lenSeen, answer>>
    BY <1>4 DEF AddRow, store, params
  <2>3. id \in Ids
    BY <1>0, <2>2
  <2> HIDE DEF id
  <2> DEFINE row == [id |-> id, pv |-> PageView(score)]
  <2>4. row \in Row /\ row.id = id
    BY <1>0, <2>1, <2>3 DEF PageView, Row
  <2> HIDE DEF row
  <2>5. /\ page' \in Seq(Row) /\ Len(page') = Len(page) + 1
        /\ \A j \in 1..Len(page) : page'[j] = page[j]
        /\ page'[Len(page) + 1] = row
    BY <1>0, <2>1, <2>4, AppendProperties DEF row
  <2>6. TypeOK'
    BY <2>2, <2>5 DEF TypeOK
  <2>7. ASSUME NEW j \in 1..Len(page')
        PROVE  page'[j].id = rows[j]
    <3>1. CASE j \in 1..Len(page)
      BY <2>2, <2>5, <3>1 DEF PageInv
    <3>2. CASE j = Len(page) + 1
      BY <2>4, <2>5, <3>2 DEF id
    <3> QED BY <1>0, <2>5, <3>1, <3>2
  <2>8. PageInv'
    BY <1>0, <2>2, <2>5, <2>7 DEF PageInv
  <2>9. ConnInv' /\ QueryInv' /\ AnswerInv'
    BY <1>4, <2>2 DEF AddRow, ConnInv, QueryInv, AnswerInv
  <2> QED BY <2>6, <2>8, <2>9
<1>5. ASSUME Answer PROVE ListingInv'
  <2>1. /\ pc = "rows" /\ pc' = "accept" /\ Len(page) = Len(rows)
        /\ conns' = conns - 1
        /\ UNCHANGED <<entries, weight, cmdBuf, fromBuf, countBuf>>
        /\ query' = NoQuery /\ rows' = << >> /\ page' = << >> /\ lenSeen' = 0
    BY <1>5 DEF Answer, Forget, Goto, store, params
  <2>2. answer' = [query |-> query, from |-> fromBuf, count |-> countBuf,
                   len |-> lenSeen, page |-> page]
    BY <1>5 DEF Answer
  <2>3. /\ answer'.page = page /\ answer'.from = fromBuf /\ answer'.len = lenSeen
        /\ answer'.query = query /\ answer'.count = countBuf
        /\ answer' \in [query : Queries \cup {NoQuery}, from : Ints, count : Ints,
                        len : Nat, page : Seq(Row)]
    BY <1>0, <2>2 DEF TypeOK
  <2>4. conns' = 0
    BY <2>1 DEF ConnInv
  <2>5. TypeOK'
    <3>1. << >> \in Seq(Ids) /\ << >> \in Seq(Row)
      OBVIOUS
    <3> QED BY <2>1, <2>3, <2>4, <3>1 DEF TypeOK
  <2>6. /\ Len(IdsOf(page)) = Len(rows)
        /\ \A j \in 1..Len(rows) : IdsOf(page)[j] = rows[j]
    BY <1>0, <2>1, IdsOfType DEF PageInv
  <2>7. Piece(IdsOf(page), fromBuf, lenSeen, entries)
    BY <2>1, <2>6 DEF PageInv, Piece
  <2>10. Honoured(query, fromBuf, countBuf)
    BY <2>1 DEF QueryInv
  <2>8. AnswerInv'
    BY <2>1, <2>3, <2>7, <2>10 DEF AnswerInv
  <2>9. ConnInv' /\ QueryInv' /\ PageInv'
    BY <2>1, <2>4 DEF ConnInv, QueryInv, PageInv
  <2> QED BY <2>5, <2>8, <2>9
<1> QED BY <1>1, <1>2, <1>3, <1>4, <1>5 DEF Serve, Request

\* The invariant holds in every reachable state.
LEMMA ListingInvariant == Spec => []ListingInv
<1>1. ASSUME ListingInv, [Next]_lvars PROVE ListingInv'
  <2>1. CASE UNCHANGED lvars
    <3>1. /\ UNCHANGED <<entries, weight, pc, query, cmdBuf, fromBuf, countBuf>>
          /\ UNCHANGED <<conns, rows, page, lenSeen, answer>>
      BY <2>1 DEF lvars, store, params, work
    <3>2. TypeOK'
      BY <1>1, <3>1 DEF ListingInv, TypeOK
    <3>3. ConnInv' /\ QueryInv' /\ PageInv' /\ AnswerInv'
      BY <1>1, <3>1 DEF ListingInv, ConnInv, QueryInv, PageInv, AnswerInv
    <3> QED BY <3>2, <3>3 DEF ListingInv
  <2>2. CASE Writers
    BY <1>1, <2>2, WritersKeep
  <2>3. CASE Serve \/ \E q \in Queries : Request(q)
    BY <1>1, <2>3, WorkerKeeps
  <2> QED BY <1>1, <2>1, <2>2, <2>3 DEF Next
<1> QED BY <1>1, ListingInit, PTL DEF Spec

-----------------------------------------------------------------------------
(* The theorems *)

\* The variables of the listing worker keep their types.
THEOREM TypeCorrect == Spec => []TypeOK
<1>1. ListingInv => TypeOK
  BY DEF ListingInv
<1> QED BY <1>1, ListingInvariant, PTL

\* Every answer of file_list_to_json_print is a gapless piece of
\* FILE_INFO_LIST in list order, however many entries are pushed meanwhile.
THEOREM PagesAreSlices == Spec => []AnswerIsSlice
<1>1. ASSUME ListingInv PROVE AnswerIsSlice
  <2>1. answer.page \in Seq(Row) /\ entries \in Seq(Ids)
    BY <1>1 DEF ListingInv, TypeOK
  <2>2. /\ DOMAIN answer.page = 1..Len(answer.page)
        /\ DOMAIN entries = 1..Len(entries)
    BY <2>1
  <2>3. /\ Len(IdsOf(answer.page)) = Len(answer.page)
        /\ \A j \in 1..Len(answer.page) : IdsOf(answer.page)[j] = answer.page[j].id
    BY <2>1, IdsOfType
  <2>4. Piece(IdsOf(answer.page), answer.from, answer.len, entries)
    BY <1>1 DEF ListingInv, AnswerInv
  <2> QED BY <2>2, <2>3, <2>4 DEF AnswerIsSlice, Piece
<1> QED BY <1>1, ListingInvariant, PTL

\* Every way out of file_list_to_json_print closes the Redis connection.
THEOREM ConnectionsClosed == Spec => []NoOpenConnection
<1>1. ListingInv => NoOpenConnection
  BY DEF ListingInv, ConnInv, NoOpenConnection
<1> QED BY <1>1, ListingInvariant, PTL

\* Whatever older queries left in the buffers, an answer is made from the
\* fields that its query has: for every query text in which the three keys
\* stand only where fields of these names begin.
THEOREM ParametersFound == Spec => []OwnParameters
<1>1. ListingInv => OwnParameters
  BY DEF ListingInv, AnswerInv, Honoured, OwnParameters
<1> QED BY <1>1, ListingInvariant, PTL

LEMMA Monotone ==
  ASSUME NEW m \in Int, NEW n \in Int, m <= n, NEW k \in Nat
  PROVE  m * k <= n * k
<1>1. (n - m) * k >= 0 /\ (n - m) * k = n * k - m * k
  OBVIOUS
<1> QED BY <1>1

\* The rows that rop_range_list copies fit into what malloc was asked for, for
\* every list and all fromId and count whose last index and size in bytes are
\* ints, except where a page from the front has a negative endId: the bound
\* endId suffices together with LRANGE.
THEOREM PagesFit == Spec => []RowsFit
<1>1. Init => RowsFit
  BY DEF Init, RowsFit
<1>2. ASSUME ListingInv, RowsFit, [Next]_lvars PROVE RowsFit'
  <2>0. entries \in Seq(Ids) /\ fromBuf \in Ints /\ countBuf \in Ints
    BY <1>2 DEF ListingInv, TypeOK
  <2>1. ASSUME NEW q \in Queries, Request(q) PROVE RowsFit'
    <3>1. pc' \in {"accept", "connect", "undefined"}
      BY <2>1 DEF Request, Accept, AcceptUndefined, Goto
    <3> QED BY <3>1 DEF RowsFit
  <2>2. ASSUME Connect \/ RangeError \/ Cut \/ Answer PROVE RowsFit'
    <3>1. pc' \in {"accept", "range", "crashed"}
      BY <2>2 DEF Connect, RangeError, Cut, Answer, PrintNull, Goto
    <3> QED BY <3>1 DEF RowsFit
  <2>3. ASSUME RangeList PROVE RowsFit'
    <3> DEFINE r == RangeRows(entries, fromBuf, EndId(fromBuf, countBuf))
    <3>1. UNCHANGED <<fromBuf, countBuf>> /\ rows' = r
      BY <2>3 DEF RangeList, params
    <3>2. r \in Seq(Ids)
      BY <2>0, CopiedFits, Zenon
    <3>3. /\ fromBuf + countBuf - 1 \in Ints /\ countBuf >= 1 => Len(r) <= countBuf
          /\ fromBuf + countBuf - 1 \in Ints /\ countBuf < 1 =>
               Len(r) = 0 \/ (fromBuf >= 0 /\ fromBuf + countBuf <= 0)
      BY <2>0, CopiedFits, Zenon
    <3> HIDE DEF r
    <3>4. Len(r) \in Nat /\ countBuf \in Int /\ RowSize \in Nat
      BY <2>0, <3>2, IntsAreInt, IntAssumption
    <3>5. ASSUME NoWrap(fromBuf, countBuf)
          PROVE  ~ Overflows(r) \/ (fromBuf >= 0 /\ fromBuf + countBuf <= 0)
      <4>1. fromBuf + countBuf - 1 \in Ints /\ Bytes(countBuf) = countBuf * RowSize
        BY <3>4, <3>5, WrapInts DEF NoWrap, Bytes
      <4>2. CASE countBuf >= 1
        <5>1. Len(r) * RowSize <= countBuf * RowSize
          BY <3>3, <3>4, <4>1, <4>2, Monotone
        <5>2. Len(r) * RowSize \in Int /\ countBuf * RowSize \in Int
          BY <3>4
        <5> QED BY <4>1, <5>1, <5>2 DEF Overflows
      <4>3. CASE countBuf < 1
        BY <3>3, <3>4, <4>1, <4>3 DEF Overflows
      <4> QED BY <3>4, <4>2, <4>3
    <3> QED BY <3>1, <3>5 DEF RowsFit, Overflows, NoWrap
  <2>4. ASSUME AddRow \/ Writers \/ UNCHANGED lvars PROVE RowsFit'
    <3>1. UNCHANGED <<pc, fromBuf, countBuf, rows>>
      BY <2>4 DEF AddRow, Writers, lvars, store, params, work
    <3> QED BY <1>2, <3>1 DEF RowsFit, Overflows, NoWrap
  <2> QED BY <1>2, <2>1, <2>2, <2>3, <2>4 DEF Next, Serve
<1> QED BY <1>1, <1>2, ListingInvariant, PTL DEF Spec

\* The rows of a page that starts at a, of c, in a list of n
Full(a, c, n) == IF a + c <= n THEN c ELSE IF a <= n THEN n - a ELSE 0

\* rop_range_list copies all of a page that does not start at 0: then endId,
\* an index, is a bound for the number of rows.
LEMMA PageLength ==
  ASSUME NEW S, NEW s \in Seq(S), NEW a \in Ints, a > 0, NEW c \in Ints, c >= 0,
         a + c - 1 \in Ints
  PROVE  Len(RangeRows(s, a, EndId(a, c))) = Full(a, c, Len(s))
<1> DEFINE b == EndId(a, c)
           e == LRange(s, a, b)
           k == MaxCount(Len(e), b)
<1>1. a \in Int /\ c \in Int /\ b \in Int /\ b = a + c - 1 /\ b >= 0
  <2>1. a \in Int /\ c \in Int /\ b = a + c - 1
    BY EndIdIs, IntsAreInt
  <2> HIDE DEF b
  <2> QED BY <2>1
<1>2. /\ e \in Seq(S)
      /\ Len(e) = IF First(a, Len(s)) <= Last(b, Len(s))
                  THEN Last(b, Len(s)) - First(a, Len(s)) + 1 ELSE 0
  <2> HIDE DEF b
  <2> QED BY <1>1, LRangeSlice
<1>3. Len(s) \in Nat
  OBVIOUS
<1> HIDE DEF b, e
<1>4. Len(e) = Full(a, c, Len(s))
  <2>1. First(a, Len(s)) = a /\ Last(b, Len(s)) = IF b >= Len(s) THEN Len(s) - 1 ELSE b
    BY <1>1, <1>3 DEF First, Last
  <2> DEFINE n == Len(s)
             l == Len(e)
  <2>2. n \in Nat /\ l = (IF b >= n THEN IF a <= n - 1 THEN n - 1 - a + 1 ELSE 0
                         ELSE IF a <= b THEN b - a + 1 ELSE 0)
    BY <1>2, <1>3, <2>1
  <2> HIDE DEF n, l
  <2>3. l = Full(a, c, n)
    BY <1>1, <2>2 DEF Full
  <2> QED BY <2>3 DEF n, l
<1>5. Len(e) <= b /\ Len(e) \in Nat
  BY <1>1, <1>2, <1>3, <1>4 DEF Full
<1>6. k = Len(e) /\ k \in 0..Len(e)
  BY <1>1, <1>5 DEF MaxCount
<1> HIDE DEF k
<1>7. Len(Copied(e, k)) = Len(e)
  BY <1>2, <1>6, CopiedPrefix
<1> QED BY <1>4, <1>7 DEF b, e, k, RangeRows

\* Every page that does not start at 0 and whose last index is an int is full,
\* or ends where the list ended when LRANGE ran, whatever is pushed meanwhile.
THEOREM LaterPagesAreFull == Spec => []LaterPagesFull
<1> DEFINE RowsFull ==
             pc = "rows" /\ fromBuf > 0 /\ countBuf >= 0
             /\ fromBuf + countBuf - 1 \in Ints =>
               Len(rows) = Full(fromBuf, countBuf, lenSeen)
           FullInv == RowsFull /\ LaterPagesFull
<1>1. Init => FullInv
  BY DEF Init, NoAnswer, LaterPagesFull
<1>2. ASSUME ListingInv, FullInv, [Next]_lvars PROVE FullInv'
  <2>0. entries \in Seq(Ids) /\ fromBuf \in Ints /\ countBuf \in Ints
    BY <1>2 DEF ListingInv, TypeOK
  <2>1. CASE Answer
    <3>1. /\ pc = "rows" /\ pc' = "accept" /\ Len(page) = Len(rows)
          /\ answer'.from = fromBuf /\ answer'.count = countBuf
          /\ answer'.len = lenSeen /\ answer'.page = page
      BY <2>1 DEF Answer, Goto
    <3> QED BY <1>2, <3>1 DEF Full, LaterPagesFull
  <2>2. CASE RangeList
    <3>1. /\ rows' = RangeRows(entries, fromBuf, EndId(fromBuf, countBuf))
          /\ lenSeen' = Len(entries)
          /\ UNCHANGED <<fromBuf, countBuf, answer>>
      BY <2>2 DEF RangeList, params
    <3>2. fromBuf > 0 /\ countBuf >= 0 /\ fromBuf + countBuf - 1 \in Ints =>
            Len(RangeRows(entries, fromBuf, EndId(fromBuf, countBuf)))
              = Full(fromBuf, countBuf, Len(entries))
      BY <2>0, PageLength
    <3> QED BY <1>2, <3>1, <3>2 DEF LaterPagesFull
  <2>3. CASE Connect \/ RangeError \/ Cut \/ \E q \in Queries : Request(q)
    <3>1. answer' = answer /\ pc' # "rows"
      BY <2>3 DEF Connect, RangeError, Cut, PrintNull, Request, Accept, AcceptUndefined, Goto
    <3> QED BY <1>2, <3>1 DEF LaterPagesFull
  <2>4. CASE AddRow \/ Writers \/ UNCHANGED lvars
    <3>1. UNCHANGED <<pc, fromBuf, countBuf, rows, lenSeen, answer>>
      BY <2>4 DEF AddRow, Writers, lvars, store, params, work
    <3> QED BY <1>2, <3>1 DEF LaterPagesFull
  <2> QED BY <1>2, <2>1, <2>2, <2>3, <2>4 DEF Next, Serve
<1>3. FullInv => LaterPagesFull
  OBVIOUS
<1> QED BY <1>1, <1>2, <1>3, ListingInvariant, PTL DEF Spec

\* Two pages a and b of the list l, of which b was read later, when the list
\* was no shorter, and starts no further on than a reached
Pages(l, a, b, from, m, next, n) ==
  /\ l \in Seq(Ids) /\ a \in Seq(Ids) /\ b \in Seq(Ids)
  /\ from \in Nat /\ m \in Nat /\ next \in Nat /\ n \in Nat
  /\ Piece(a, from, m, l) /\ Piece(b, next, n, l)
  /\ a # << >> /\ b # << >> /\ next <= from + Len(a) /\ m <= n

\* Where in the list their rows stand
LEMMA PagesMeet ==
  ASSUME NEW l, NEW a, NEW b, NEW from, NEW m, NEW next, NEW n,
         Pages(l, a, b, from, m, next, n)
  PROVE  \E i, j \in 1..Len(l) : l[i] = b[1] /\ l[j] = a[Len(a)] /\ i <= j + 1
<1>0. /\ l \in Seq(Ids) /\ a \in Seq(Ids) /\ b \in Seq(Ids)
      /\ from \in Nat /\ m \in Nat /\ next \in Nat /\ n \in Nat
      /\ Piece(a, from, m, l) /\ Piece(b, next, n, l)
      /\ a # << >> /\ b # << >> /\ next <= from + Len(a) /\ m <= n
  BY DEF Pages
<1> DEFINE j == Len(l) - m + from + Len(a)
           i == Len(l) - n + next + 1
<1>1. Len(l) \in Nat /\ Len(a) \in Nat \ {0} /\ Len(b) \in Nat \ {0}
  BY <1>0
<1>2. First(from, m) = from /\ First(next, n) = next
  BY <1>0 DEF First
<1>3. Len(a) \in 1..Len(a) /\ 1 \in 1..Len(b)
  BY <1>1
<1>4. j \in 1..Len(l) /\ l[j] = a[Len(a)]
  BY <1>0, <1>2, <1>3 DEF Piece
<1>5. i \in 1..Len(l) /\ l[i] = b[1]
  BY <1>0, <1>2, <1>3 DEF Piece
<1>6. i <= j + 1
  BY <1>0, <1>1
<1> HIDE DEF i, j
<1> QED BY <1>4, <1>5, <1>6

\* The list does not get shorter while a page is read.
GrowInv ==
  /\ answer.len <= Len(entries)
  /\ pc = "rows" => answer.len <= lenSeen

LEMMA GrowStep == ListingInv /\ GrowInv /\ [Next]_lvars => GrowInv'
<1> SUFFICES ASSUME ListingInv, GrowInv, [Next]_lvars PROVE GrowInv'
  OBVIOUS
<1>0. answer.len \in Nat /\ lenSeen \in Nat /\ entries \in Seq(Ids) /\ Len(entries) \in Nat
  BY DEF ListingInv, TypeOK
<1>1. CASE Answer
  <2>1. pc = "rows" /\ pc' = "accept" /\ answer'.len = lenSeen /\ entries' = entries
    BY <1>1 DEF Answer, Goto, store
  <2>2. lenSeen <= Len(entries)
    BY <2>1 DEF ListingInv, PageInv, Piece
  <2> QED BY <2>1, <2>2 DEF GrowInv
<1>2. CASE RangeList
  <2>1. lenSeen' = Len(entries) /\ UNCHANGED <<entries, answer>>
    BY <1>2 DEF RangeList, store
  <2> QED BY <2>1 DEF GrowInv
<1>3. CASE Connect \/ RangeError \/ Cut \/ \E q \in Queries : Request(q)
  <2>1. UNCHANGED <<entries, answer>> /\ pc' # "rows"
    BY <1>3 DEF Connect, RangeError, Cut, PrintNull, Request, Accept, AcceptUndefined, Goto, store
  <2> QED BY <2>1 DEF GrowInv
<1>4. CASE AddRow \/ UNCHANGED lvars
  <2>1. UNCHANGED <<entries, pc, lenSeen, answer>>
    BY <1>4 DEF AddRow, lvars, store, work
  <2> QED BY <2>1 DEF GrowInv
<1>5. CASE Writers
  <2>1. UNCHANGED <<pc, lenSeen, answer>>
    BY <1>5 DEF Writers, work
  <2>2. entries' = entries \/ \E id \in Ids : entries' = <<id>> \o entries
    BY <1>5, WritersGrow DEF ListingInv
  <2>3. Len(entries') \in Nat /\ Len(entries) <= Len(entries')
    <3>1. ASSUME NEW id \in Ids
          PROVE  Len(<<id>> \o entries) = 1 + Len(entries)
      BY <1>0
    <3>2. CASE \E id \in Ids : entries' = <<id>> \o entries
      <4>1. PICK id \in Ids : entries' = <<id>> \o entries
        BY ONLY <3>2
      <4>2. Len(entries') = 1 + Len(entries)
        BY ONLY <3>1, <4>1
      <4> QED BY ONLY <1>0, <4>2
    <3>3. CASE entries' = entries
      <4>1. Len(entries') = Len(entries)
        BY ONLY <3>3
      <4> QED BY ONLY <1>0, <4>1
    <3> QED BY ONLY <2>2, <3>2, <3>3, Zenon
  <2> QED BY <1>0, <2>1, <2>3 DEF GrowInv
<1> QED BY <1>1, <1>2, <1>3, <1>4, <1>5 DEF Next, Serve

\* A client that pages on may see a file twice, when others were pushed in
\* between, but it never misses one: for every list, all integers and any
\* behaviour of the writers.
THEOREM PagesJoin == Spec => NothingSkipped
<1> DEFINE Joint ==
             LET last == answer.page[Len(answer.page)].id
                 next == answer'.page[1].id
             IN  /\ answer' # answer
                 /\ answer.page # << >> /\ answer'.page # << >>
                 /\ answer.from >= 0
                 /\ answer'.from \in 0..(answer.from + Len(answer.page))
                 => \E i, j \in DOMAIN entries' :
                      entries'[i] = next /\ entries'[j] = last /\ i <= j + 1
<1>1. Init => GrowInv
  BY DEF Init, NoAnswer, GrowInv
<1>2. ListingInv /\ ListingInv' /\ GrowInv /\ [Next]_lvars => [Joint]_lvars
  <2> SUFFICES ASSUME ListingInv, ListingInv', GrowInv, [Next]_lvars, answer' # answer,
                      answer.page # << >>, answer'.page # << >>, answer.from >= 0,
                      answer'.from \in 0..(answer.from + Len(answer.page))
               PROVE  \E i, j \in DOMAIN entries' :
                        /\ entries'[i] = answer'.page[1].id
                        /\ entries'[j] = answer.page[Len(answer.page)].id
                        /\ i <= j + 1
    OBVIOUS
  <2>1. Answer
    BY DEF Next, Serve, Request, Accept, AcceptUndefined, Connect, RangeList, RangeError, AddRow, Cut, Writers,
           lvars, work
  <2>2. pc = "rows" /\ answer'.len = lenSeen /\ entries' = entries
    BY <2>1 DEF Answer, store
  <2>3. /\ entries \in Seq(Ids) /\ DOMAIN entries = 1..Len(entries)
        /\ answer.page \in Seq(Row) /\ answer'.page \in Seq(Row)
        /\ answer.from \in Int /\ answer'.from \in Int
        /\ answer.len \in Nat /\ answer'.len \in Nat
    <3>1. /\ answer.from \in Ints /\ answer.len \in Nat /\ answer.page \in Seq(Row)
          /\ entries \in Seq(Ids)
      BY DEF ListingInv, TypeOK
    <3>2. answer'.from \in Ints /\ answer'.len \in Nat /\ answer'.page \in Seq(Row)
      BY DEF ListingInv, TypeOK
    <3>3. answer.from \in Int /\ answer'.from \in Int
      BY ONLY <3>1, <3>2, IntsAreInt
    <3> QED BY ONLY <3>1, <3>2, <3>3
  <2> DEFINE a == IdsOf(answer.page)
             b == IdsOf(answer'.page)
  <2>4. /\ a \in Seq(Ids) /\ Len(a) = Len(answer.page)
        /\ b \in Seq(Ids) /\ Len(b) = Len(answer'.page)
        /\ \A j \in 1..Len(answer.page) : a[j] = answer.page[j].id
        /\ \A j \in 1..Len(answer'.page) : b[j] = answer'.page[j].id
    BY <2>3, IdsOfType
  <2>5. /\ Piece(a, answer.from, answer.len, entries)
        /\ Piece(b, answer'.from, answer'.len, entries)
    BY <2>2 DEF ListingInv, AnswerInv
  <2> HIDE DEF a, b
  <2>6. Len(answer.page) \in Nat \ {0} /\ Len(answer'.page) \in Nat \ {0}
    BY <2>3
  <2>7. a # << >> /\ b # << >>
    BY <2>4, <2>6
  <2>8. answer.from \in Nat /\ answer'.from \in Nat /\ answer'.from <= answer.from + Len(a)
    BY <2>3, <2>4, <2>6
  <2>9. answer.len <= answer'.len
    BY <2>2 DEF GrowInv
  <2>10. \E i, j \in 1..Len(entries) :
           entries[i] = b[1] /\ entries[j] = a[Len(a)] /\ i <= j + 1
    <3>1. entries \in Seq(Ids) /\ a \in Seq(Ids) /\ b \in Seq(Ids)
      BY ONLY <2>3, <2>4
    <3>2. answer.len \in Nat /\ answer'.len \in Nat
      BY ONLY <2>3
    <3>3. Pages(entries, a, b, answer.from, answer.len, answer'.from, answer'.len)
      BY ONLY <2>5, <2>7, <2>8, <2>9, <3>1, <3>2 DEF Pages
    <3> QED BY ONLY <3>3, PagesMeet
  <2>11. b[1] = answer'.page[1].id /\ a[Len(a)] = answer.page[Len(answer.page)].id
    BY ONLY <2>4, <2>6
  <2> QED BY ONLY <2>2, <2>3, <2>10, <2>11
<1> QED BY <1>1, <1>2, GrowStep, ListingInvariant, PTL DEF Spec, NothingSkipped
=============================================================================
