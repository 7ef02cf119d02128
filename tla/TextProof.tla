----------------------------- MODULE TextProof -----------------------------
(***************************************************************************)
(* Facts about the searches of Text, for buffers of any length.            *)
(***************************************************************************)
EXTENDS Text, FiniteSetTheorems, WellFoundedInduction, SequenceTheorems, TLAPS

-----------------------------------------------------------------------------
(* The first position of a set *)

\* A set of naturals has a least element: the intervals from 0 to its elements
\* are well-founded under strict inclusion.
LEMMA NatMin ==
  ASSUME NEW S \in SUBSET Nat, S # {}
  PROVE  \E m \in S : \A k \in S : m <= k
<1> DEFINE T == {0..m : m \in S}
<1>1. \A m \in S : 0..m \in FiniteSubsetsOf(Nat)
  <2> TAKE m \in S
  <2>1. IsFiniteSet(0..m)
    BY FS_Interval
  <2>2. 0..m \in SUBSET Nat
    OBVIOUS
  <2> QED BY <2>1, <2>2 DEF FiniteSubsetsOf
<1>2. T # {}
  OBVIOUS
<1>3. \E x \in T : \A y \in T : ~ (<<y, x>> \in StrictSubsetOrdering(Nat))
  <2>1. T \subseteq FiniteSubsetsOf(Nat)
    BY <1>1
  <2> HIDE DEF T
  <2> QED BY <2>1, <1>2, WFMin, FS_StrictSubsetOrderingWellFounded
<1>4. PICK m \in S : \A k \in S : ~ (<<0..k, 0..m>> \in StrictSubsetOrdering(Nat))
  BY <1>3
<1>5. \A k \in S : m <= k
  <2> SUFFICES ASSUME NEW k \in S, k < m PROVE FALSE
    OBVIOUS
  <2>1. 0..k \subseteq 0..m /\ m \in 0..m /\ m \notin 0..k
    OBVIOUS
  <2>2. 0..k \in SUBSET Nat /\ 0..m \in SUBSET Nat
    OBVIOUS
  <2>3. <<0..k, 0..m>> \in (SUBSET Nat) \X (SUBSET Nat)
    BY <2>2
  <2>4. 0..k # 0..m
    BY <2>1
  <2>5. <<0..k, 0..m>> \in StrictSubsetOrdering(Nat)
    BY ONLY <2>1, <2>3, <2>4, Zenon DEF StrictSubsetOrdering
  <2> QED BY <2>5, <1>4
<1> QED BY <1>5

\* Min, for a set of which the least element is known
LEMMA MinIs ==
  ASSUME NEW S \in SUBSET Nat, NEW m \in S, \A k \in S : m <= k
  PROVE  Min(S) = m
<1>1. \A x \in S : (\A y \in S : x <= y) => x = m
  OBVIOUS
<1> QED BY <1>1 DEF Min

\* Min, for any other
LEMMA MinIn ==
  ASSUME NEW S \in SUBSET Nat, S # {}
  PROVE  Min(S) \in S /\ \A k \in S : Min(S) <= k
BY NatMin DEF Min

\* First finds the least position, and finds one when there is one.
LEMMA FirstIs ==
  ASSUME NEW S \in SUBSET Nat, NEW m \in S, \A k \in S : m <= k
  PROVE  First(S) = m
BY MinIs DEF First

LEMMA FirstSays ==
  ASSUME NEW S \in SUBSET (Nat \ {0})
  PROVE  /\ First(S) \in Nat
         /\ First(S) = 0 <=> S = {}
         /\ S # {} => First(S) \in S /\ \A k \in S : First(S) <= k
<1>1. CASE S = {}
  BY <1>1 DEF First
<1>2. CASE S # {}
  BY <1>2, MinIn DEF First
<1> QED BY <1>1, <1>2

-----------------------------------------------------------------------------
(* Short sequences *)

LEMMA OneByte ==
  ASSUME NEW a \in Byte
  PROVE  /\ <<a>> \in Seq(Byte) /\ Len(<<a>>) = 1 /\ << a >> # << >>
         /\ \A s : \A p \in Int : At(s, p, <<a>>) <=> p <= Len(s) /\ s[p] = a
<1>1. <<a>> \in Seq(Byte) /\ Len(<<a>>) = 1 /\ DOMAIN <<a>> = {1} /\ <<a>>[1] = a
  OBVIOUS
<1>2. ASSUME NEW s, NEW p \in Int PROVE At(s, p, <<a>>) <=> p <= Len(s) /\ s[p] = a
  <2>1. p + 1 - 1 = p
    OBVIOUS
  <2> QED BY <1>1, <2>1 DEF At
<1> QED BY <1>1, <1>2

LEMMA TwoBytes ==
  ASSUME NEW a \in Byte, NEW b \in Byte
  PROVE  /\ <<a, b>> \in Seq(Byte) /\ Len(<<a, b>>) = 2 /\ << a, b >> # << >>
         /\ \A s : \A p \in Int :
              At(s, p, <<a, b>>) <=> p + 1 <= Len(s) /\ s[p] = a /\ s[p + 1] = b
<1> DEFINE t == <<a, b>>
<1>1. t \in Seq(Byte) /\ Len(t) = 2 /\ DOMAIN t = {1, 2} /\ t[1] = a /\ t[2] = b
  OBVIOUS
<1>2. ASSUME NEW s, NEW p \in Int
      PROVE  At(s, p, t) <=> p + 1 <= Len(s) /\ s[p] = a /\ s[p + 1] = b
  <2>1. p + 1 - 1 = p /\ p + 2 - 1 = p + 1
    OBVIOUS
  <2> HIDE DEF t
  <2> QED BY <1>1, <2>1 DEF At
<1> QED BY <1>1, <1>2

LEMMA ThreeBytes ==
  ASSUME NEW a \in Byte, NEW b \in Byte, NEW c \in Byte
  PROVE  /\ <<a, b, c>> \in Seq(Byte) /\ Len(<<a, b, c>>) = 3
         /\ \A s : \A p \in Int :
              At(s, p, <<a, b, c>>) <=>
                p + 2 <= Len(s) /\ s[p] = a /\ s[p + 1] = b /\ s[p + 2] = c
<1> DEFINE t == <<a, b, c>>
<1>1. /\ t \in Seq(Byte) /\ Len(t) = 3 /\ DOMAIN t = {1, 2, 3}
      /\ t[1] = a /\ t[2] = b /\ t[3] = c
  OBVIOUS
<1>2. ASSUME NEW s, NEW p \in Int
      PROVE  At(s, p, t) <=> p + 2 <= Len(s) /\ s[p] = a /\ s[p + 1] = b /\ s[p + 2] = c
  <2>1. p + 1 - 1 = p /\ p + 2 - 1 = p + 1 /\ p + 3 - 1 = p + 2 /\ p + 3 - 1 = p + 2
    OBVIOUS
  <2> HIDE DEF t
  <2> QED BY <1>1, <2>1 DEF At
<1> QED BY <1>1, <1>2

\* The end of a header of Windows
LEMMA TwoLines ==
  /\ CRLF \in Seq(Byte) /\ CRLF # << >> /\ Len(CRLF) = 2
  /\ CRLF \o CRLF \in Seq(Byte) /\ CRLF \o CRLF # << >> /\ Len(CRLF \o CRLF) = 4
  /\ \A s : \A p \in Int :
       /\ At(s, p, CRLF) <=> p + 1 <= Len(s) /\ s[p] = CR /\ s[p + 1] = LF
       /\ At(s, p, CRLF \o CRLF) <=>
            /\ p + 3 <= Len(s)
            /\ s[p] = CR /\ s[p + 1] = LF /\ s[p + 2] = CR /\ s[p + 3] = LF
<1> DEFINE t == CRLF \o CRLF
<1>1. /\ CRLF \in Seq(Byte) /\ CRLF # << >> /\ Len(CRLF) = 2
      /\ CRLF[1] = CR /\ CRLF[2] = LF
  BY ByteAssumption, TwoBytes DEF CRLF
<1>2. /\ t \in Seq(Byte) /\ Len(t) = 4 /\ DOMAIN t = {1, 2, 3, 4}
      /\ t[1] = CR /\ t[2] = LF /\ t[3] = CR /\ t[4] = LF
  <2>1. /\ t \in Seq(Byte) /\ Len(t) = Len(CRLF) + Len(CRLF)
        /\ \A i \in 1..(Len(CRLF) + Len(CRLF)) :
             t[i] = IF i <= Len(CRLF) THEN CRLF[i] ELSE CRLF[i - Len(CRLF)]
    <3> HIDE DEF t
    <3>1. CRLF \in Seq(Byte)
      BY <1>1
    <3> QED BY ONLY <3>1, ConcatProperties DEF t
  <2> HIDE DEF t
  <2>2. Len(t) = 4 /\ DOMAIN t = {1, 2, 3, 4}
    BY ONLY <1>1, <2>1
  <2>3. \A i \in 1..4 : t[i] = IF i <= 2 THEN CRLF[i] ELSE CRLF[i - 2]
    BY ONLY <1>1, <2>1
  <2>4. t[1] = CRLF[1] /\ t[2] = CRLF[2] /\ t[3] = CRLF[1] /\ t[4] = CRLF[2]
    <3>1. 3 - 2 = 1 /\ 4 - 2 = 2
      OBVIOUS
    <3> QED BY ONLY <2>3, <3>1
  <2> QED BY ONLY <1>1, <2>1, <2>2, <2>4
<1>3. ASSUME NEW s, NEW p \in Int
      PROVE  /\ At(s, p, CRLF) <=> p + 1 <= Len(s) /\ s[p] = CR /\ s[p + 1] = LF
             /\ At(s, p, t) <=>
                  /\ p + 3 <= Len(s)
                  /\ s[p] = CR /\ s[p + 1] = LF /\ s[p + 2] = CR /\ s[p + 3] = LF
  <2>1. At(s, p, CRLF) <=> p + 1 <= Len(s) /\ s[p] = CR /\ s[p + 1] = LF
    BY ByteAssumption, TwoBytes DEF CRLF
  <2>2. p + 1 - 1 = p /\ p + 2 - 1 = p + 1 /\ p + 3 - 1 = p + 2 /\ p + 4 - 1 = p + 3
    OBVIOUS
  <2> HIDE DEF t
  <2>3. At(s, p, t) <=> /\ p + 3 <= Len(s)
                        /\ s[p] = CR /\ s[p + 1] = LF /\ s[p + 2] = CR /\ s[p + 3] = LF
    BY <1>2, <2>2 DEF At
  <2> QED BY <2>1, <2>3
<1>4. t # << >>
  BY <1>2
<1> QED BY <1>1, <1>2, <1>3, <1>4

-----------------------------------------------------------------------------
(* What stands at a position *)

LEMMA AtLeft ==
  ASSUME NEW s \in Seq(Byte), NEW t \in Seq(Byte), NEW u \in Seq(Byte),
         NEW p \in Nat \ {0}, At(s, p, u)
  PROVE  At(s \o t, p, u)
<1>1. /\ Len(s) \in Nat /\ Len(t) \in Nat /\ Len(u) \in Nat
      /\ DOMAIN u = 1..Len(u)
      /\ Len(s \o t) = Len(s) + Len(t)
  OBVIOUS
<1>2. \A i \in 1..Len(s) : (s \o t)[i] = s[i]
  OBVIOUS
<1>3. p + Len(u) - 1 <= Len(s) /\ \A i \in DOMAIN u : s[p + i - 1] = u[i]
  BY DEF At
<1>4. \A i \in DOMAIN u : p + i - 1 \in 1..Len(s)
  BY <1>1, <1>3
<1> QED BY <1>1, <1>2, <1>3, <1>4 DEF At

LEMMA AtRight ==
  ASSUME NEW s \in Seq(Byte), NEW t \in Seq(Byte)
  PROVE  At(s \o t, Len(s) + 1, t)
<1>1. /\ Len(s) \in Nat /\ Len(t) \in Nat
      /\ DOMAIN t = 1..Len(t)
      /\ Len(s \o t) = Len(s) + Len(t)
  OBVIOUS
<1>2. \A i \in 1..Len(t) : (s \o t)[Len(s) + i] = t[i]
  OBVIOUS
<1>3. \A i \in DOMAIN t : (Len(s) + 1) + i - 1 = Len(s) + i
  BY <1>1
<1> QED BY <1>1, <1>2, <1>3 DEF At

\* What stands in a piece stands in the whole.
LEMMA AtWithin ==
  ASSUME NEW s \in Seq(Byte), NEW t \in Seq(Byte), NEW u \in Seq(Byte),
         NEW p \in Nat \ {0}, NEW q \in Nat \ {0}, At(s, p, t), At(t, q, u)
  PROVE  At(s, p + q - 1, u)
<1>1. /\ Len(s) \in Nat /\ Len(t) \in Nat /\ Len(u) \in Nat
      /\ DOMAIN t = 1..Len(t) /\ DOMAIN u = 1..Len(u)
  OBVIOUS
<1>2. p + Len(t) - 1 <= Len(s) /\ q + Len(u) - 1 <= Len(t)
  BY DEF At
<1>3. ASSUME NEW i \in DOMAIN u PROVE s[p + q - 1 + i - 1] = u[i]
  <2>1. q + i - 1 \in DOMAIN t
    BY <1>1, <1>2
  <2>2. t[q + i - 1] = u[i]
    BY DEF At
  <2>3. s[p + (q + i - 1) - 1] = t[q + i - 1]
    BY <2>1 DEF At
  <2>4. p + (q + i - 1) - 1 = p + q - 1 + i - 1
    BY <1>1
  <2> QED BY <2>2, <2>3, <2>4
<1> QED BY <1>1, <1>2, <1>3 DEF At

\* A whole stands at its beginning, and a piece taken from where t stands is t.
LEMMA AtSelf ==
  ASSUME NEW s \in Seq(Byte)
  PROVE  At(s, 1, s)
BY DEF At

LEMMA AtCut ==
  ASSUME NEW s \in Seq(Byte), NEW t \in Seq(Byte), NEW p \in Nat \ {0}, At(s, p, t)
  PROVE  SubSeq(s, p, p + Len(t) - 1) = t
<1> DEFINE b == p + Len(t) - 1
           u == SubSeq(s, p, b)
<1>1. /\ Len(s) \in Nat /\ Len(t) \in Nat /\ DOMAIN t = 1..Len(t)
      /\ b \in Int /\ b <= Len(s)
  BY DEF At
<1>2. \A i \in p..b : s[i] \in Byte
  BY <1>1
<1>3. /\ u \in Seq(Byte)
      /\ Len(u) = IF p <= b THEN b - p + 1 ELSE 0
      /\ \A i \in 1..(b - p + 1) : u[i] = s[p + i - 1]
  <2> HIDE DEF b
  <2> QED BY <1>1, <1>2, SubSeqProperties
<1>4. Len(u) = Len(t) /\ b - p + 1 = Len(t)
  BY <1>1, <1>3
<1>5. \A i \in 1..Len(u) : u[i] = t[i]
  <2>1. \A i \in 1..Len(t) : s[p + i - 1] = t[i]
    BY <1>1 DEF At
  <2> HIDE DEF u, b
  <2> QED BY <1>3, <1>4, <2>1
<1> HIDE DEF u, b
<1>6. u = t
  BY <1>3, <1>4, <1>5, SeqEqual
<1> QED BY <1>6 DEF u, b

-----------------------------------------------------------------------------
(* C strings *)

\* Where a C string ends
LEMMA EndSays ==
  ASSUME NEW s \in Seq(Byte), NEW p \in Nat \ {0}
  PROVE  /\ EndOf(s, p) \in Nat
         /\ EndOf(s, p) <= Len(s) + 1
         /\ p <= Len(s) => EndOf(s, p) >= p
         /\ \A i \in p..(EndOf(s, p) - 1) : i <= Len(s) /\ s[i] # NUL
         /\ EndOf(s, p) <= Len(s) => s[EndOf(s, p)] = NUL
<1> DEFINE S == {q \in p..Len(s) : s[q] = NUL} \cup {Len(s) + 1}
<1>1. Len(s) \in Nat
  OBVIOUS
<1>2. S \in SUBSET Nat /\ S # {}
  BY <1>1
<1>3. Min(S) \in S /\ \A k \in S : Min(S) <= k
  <2> HIDE DEF S
  <2> QED BY <1>2, MinIn
<1>4. EndOf(s, p) = Min(S)
  BY DEF EndOf
<1>5. Len(s) + 1 \in S
  OBVIOUS
<1>6. \A i \in p..(Min(S) - 1) : i <= Len(s) /\ s[i] # NUL
  BY <1>1, <1>3, <1>5
<1> QED BY <1>1, <1>3, <1>4, <1>5, <1>6

\* Two C strings of which one is the rest of the other
LEMMA EndSame ==
  ASSUME NEW s \in Seq(Byte), NEW p \in Nat \ {0}, NEW q \in Nat,
         p <= q, q <= Len(s), \A i \in p..q : s[i] # NUL
  PROVE  EndOf(s, q) = EndOf(s, p)
<1> DEFINE e == EndOf(s, p)
           f == EndOf(s, q)
<1>1. /\ e \in Nat /\ e <= Len(s) + 1 /\ e >= p
      /\ \A i \in p..(e - 1) : s[i] # NUL
      /\ e <= Len(s) => s[e] = NUL
  BY EndSays
<1>2. /\ f \in Nat /\ f <= Len(s) + 1 /\ f >= q
      /\ \A i \in q..(f - 1) : s[i] # NUL
      /\ f <= Len(s) => s[f] = NUL
  BY EndSays
<1> HIDE DEF e, f
<1>3. e > q
  BY <1>1
<1>4. ~ e < f /\ ~ f < e
  BY <1>1, <1>2, <1>3
<1>5. e = f
  BY <1>1, <1>2, <1>4
<1> QED BY <1>5 DEF e, f

\* A C string that ends at a known place
LEMMA CStringIs ==
  ASSUME NEW s \in Seq(Byte), NEW n \in Nat, n < Len(s), s[n + 1] = NUL,
         \A i \in 1..n : s[i] # NUL
  PROVE  CString(s, 1) = SubSeq(s, 1, n)
<1> DEFINE e == EndOf(s, 1)
<1>1. /\ e \in Nat /\ e <= Len(s) + 1 /\ e >= 1
      /\ \A i \in 1..(e - 1) : s[i] # NUL
      /\ e <= Len(s) => s[e] = NUL
  BY EndSays
<1> HIDE DEF e
<1>2. e = n + 1
  BY <1>1
<1> QED BY <1>2 DEF CString, e

LEMMA CStringType ==
  ASSUME NEW s \in Seq(Byte)
  PROVE  CString(s, 1) \in Seq(Byte)
<1>1. \A i \in 1..(EndOf(s, 1) - 1) : s[i] \in Byte
  BY EndSays
<1>2. EndOf(s, 1) - 1 \in Int
  BY EndSays
<1> QED BY <1>1, <1>2, SubSeqProperties DEF CString

-----------------------------------------------------------------------------
(* The searches *)

\* strstr, when the first occurrence is known
LEMMA StrstrIs ==
  ASSUME NEW s \in Seq(Byte), NEW p \in Nat \ {0}, NEW t \in Seq(Byte), t # << >>,
         NEW q \in Nat, p <= q, At(s, q, t),
         \A i \in p..(q + Len(t) - 1) : s[i] # NUL,
         \A j \in p..(q - 1) : ~ At(s, j, t)
  PROVE  strstr(s, p, t) = q
<1> DEFINE S == {j \in p..(EndOf(s, p) - Len(t)) : At(s, j, t)}
<1>1. Len(t) \in Nat /\ Len(t) > 0 /\ Len(s) \in Nat
  OBVIOUS
<1>2. q + Len(t) - 1 <= Len(s)
  BY DEF At
<1>3. EndOf(s, p) > q + Len(t) - 1 /\ EndOf(s, p) \in Nat
  <2> DEFINE e == EndOf(s, p)
  <2>1. p <= Len(s)
    BY <1>1, <1>2
  <2>2. /\ e \in Nat /\ e >= p
        /\ e <= Len(s) => s[e] = NUL
    BY <2>1, EndSays
  <2> HIDE DEF e
  <2>3. e > q + Len(t) - 1
    BY <1>1, <1>2, <2>2
  <2> QED BY <2>2, <2>3 DEF e
<1>4. q \in S /\ S \in SUBSET Nat
  BY <1>1, <1>3
<1>5. \A j \in S : q <= j
  BY <1>1, <1>3
<1>6. First(S) = q
  <2> HIDE DEF S
  <2> QED BY <1>4, <1>5, FirstIs
<1> QED BY <1>6 DEF strstr

\* strstr, in general
LEMMA StrstrSays ==
  ASSUME NEW s \in Seq(Byte), NEW p \in Nat \ {0}, NEW t \in Seq(Byte), t # << >>
  PROVE  /\ strstr(s, p, t) \in Nat
         /\ strstr(s, p, t) # 0 =>
              /\ strstr(s, p, t) >= p /\ At(s, strstr(s, p, t), t)
              /\ strstr(s, p, t) + Len(t) - 1 < EndOf(s, p)
              /\ strstr(s, p, t) + Len(t) - 1 <= Len(s)
         /\ strstr(s, p, t) = 0 =>
              \A j \in p..(EndOf(s, p) - Len(t)) : ~ At(s, j, t)
<1> DEFINE S == {j \in p..(EndOf(s, p) - Len(t)) : At(s, j, t)}
<1>1. Len(t) \in Nat /\ Len(t) > 0 /\ EndOf(s, p) \in Nat /\ EndOf(s, p) <= Len(s) + 1
  BY EndSays
<1>2. S \in SUBSET (Nat \ {0})
  BY <1>1
<1>3. /\ First(S) \in Nat
      /\ First(S) = 0 <=> S = {}
      /\ S # {} => First(S) \in S
  <2> HIDE DEF S
  <2> QED BY <1>2, FirstSays
<1>4. strstr(s, p, t) = First(S)
  BY DEF strstr
<1> QED BY <1>1, <1>3, <1>4

\* What strstr finds stands nowhere before.
LEMMA StrstrFirst ==
  ASSUME NEW s \in Seq(Byte), NEW p \in Nat \ {0}, NEW t \in Seq(Byte), t # << >>,
         strstr(s, p, t) # 0
  PROVE  \A j \in p..(strstr(s, p, t) - 1) : ~ At(s, j, t)
<1> DEFINE S == {j \in p..(EndOf(s, p) - Len(t)) : At(s, j, t)}
<1>1. Len(t) \in Nat /\ EndOf(s, p) \in Nat
  BY EndSays
<1>2. S \in SUBSET (Nat \ {0})
  BY <1>1
<1>3. strstr(s, p, t) = First(S)
  BY DEF strstr
<1>4. First(S) \in S /\ \A j \in S : First(S) <= j
  <2> HIDE DEF S
  <2> QED BY <1>2, <1>3, FirstSays
<1>5. First(S) \in Nat /\ First(S) <= EndOf(s, p) - Len(t)
  BY <1>1, <1>4
<1>6. ASSUME NEW j \in p..(First(S) - 1), At(s, j, t) PROVE FALSE
  <2>1. j \in S
    BY <1>1, <1>5, <1>6
  <2> HIDE DEF S
  <2> QED BY <1>4, <1>5, <2>1
<1> QED BY <1>3, <1>6

\* memstr, when the first occurrence is known
LEMMA MemstrIs ==
  ASSUME NEW s \in Seq(Byte), NEW p \in Nat \ {0}, NEW len \in Int,
         NEW t \in Seq(Byte), t # << >>, NEW q \in Nat, p <= q, At(s, q, t),
         q + Len(t) <= p + len, \A j \in p..(q - 1) : ~ At(s, j, t)
  PROVE  memstr(s, p, len, t) = q
<1> DEFINE S == {j \in p..(p + len - Len(t)) : At(s, j, t)}
<1>1. Len(t) \in Nat /\ Len(t) > 0
  OBVIOUS
<1>2. q \in S /\ S \in SUBSET Nat
  BY <1>1
<1>3. \A j \in S : q <= j
  BY <1>1
<1>4. First(S) = q
  <2> HIDE DEF S
  <2> QED BY <1>2, <1>3, FirstIs
<1> QED BY <1>4 DEF memstr

\* memstr, in general: what it finds lies in the len bytes.
LEMMA MemstrSays ==
  ASSUME NEW s \in Seq(Byte), NEW p \in Nat \ {0}, NEW len \in Int, NEW t \in Seq(Byte)
  PROVE  /\ memstr(s, p, len, t) \in Nat
         /\ memstr(s, p, len, t) # 0 =>
              /\ t # << >>
              /\ memstr(s, p, len, t) >= p /\ At(s, memstr(s, p, len, t), t)
              /\ memstr(s, p, len, t) + Len(t) <= p + len
<1> DEFINE S == {j \in p..(p + len - Len(t)) : At(s, j, t)}
<1>1. Len(t) \in Nat
  OBVIOUS
<1>2. S \in SUBSET (Nat \ {0})
  BY <1>1
<1>3. /\ First(S) \in Nat
      /\ First(S) = 0 <=> S = {}
      /\ S # {} => First(S) \in S
  <2> HIDE DEF S
  <2> QED BY <1>2, FirstSays
<1>4. memstr(s, p, len, t) = IF t = << >> THEN 0 ELSE First(S)
  BY DEF memstr
<1> QED BY <1>1, <1>3, <1>4
=============================================================================
