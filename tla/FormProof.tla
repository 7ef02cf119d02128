----------------------------- MODULE FormProof -----------------------------
(***************************************************************************)
(* Proofs about Form, for buffers of any size and requests with names and  *)
(* contents of any length.                                                 *)
(***************************************************************************)
EXTENDS Form, TextProof

-----------------------------------------------------------------------------
(* The bytes of a request *)

LEMMA RequestType ==
  ASSUME NEW r \in Request
  PROVE  /\ r.eol \in Seq(Byte) /\ r.name \in Seq(Byte) /\ r.data \in Seq(Byte)
         /\ Len(r.eol) \in {1, 2} /\ Len(r.name) \in Nat /\ Len(r.data) \in Nat
         /\ r.eol = CRLF => Len(r.eol) = 2
         /\ r.eol # CRLF => r.eol = <<LF>> /\ Len(r.eol) = 1
<1> DEFINE L == <<LF>>
<1>1. (r.eol = CRLF \/ r.eol = L) /\ r.name \in Seq(Byte) /\ r.data \in Seq(Byte)
  BY DEF Request
<1>2. CRLF \in Seq(Byte) /\ L \in Seq(Byte) /\ Len(CRLF) = 2 /\ Len(L) = 1
  BY ByteAssumption, OneByte, TwoBytes DEF CRLF
<1> HIDE DEF L
<1>3. Len(r.name) \in Nat /\ Len(r.data) \in Nat
  BY <1>1
<1>4. CASE r.eol = CRLF
  BY <1>1, <1>2, <1>3, <1>4
<1>5. CASE r.eol = L /\ r.eol # CRLF
  BY <1>1, <1>2, <1>3, <1>5 DEF L
<1> QED BY <1>1, <1>4, <1>5

\* A piece more at the end: what stood before stands there still.
LEMMA Grown ==
  ASSUME NEW s \in Seq(Byte), NEW t \in Seq(Byte)
  PROVE  /\ s \o t \in Seq(Byte)
         /\ Len(s \o t) = Len(s) + Len(t)
         /\ At(s \o t, Len(s) + 1, t)
         /\ \A u \in Seq(Byte) : \A p \in Nat \ {0} : At(s, p, u) => At(s \o t, p, u)
BY AtLeft, AtRight

\* What is between the boundary lines of a file's form
LEMMA PartShape ==
  ASSUME NEW r \in Request
  PROVE  LET e == Len(r.eol)  n == Len(r.name)  d == Len(r.data)  F == FilePart(r)
         IN  /\ F \in Seq(Byte)
             /\ Len(F) = 4 + n + e + e + d + e
             /\ At(F, 1, <<"text", FileNameKey, Quote>>)
             /\ At(F, 4, r.name)
             /\ At(F, 4 + n, <<Quote>>)
             /\ At(F, 5 + n, r.eol)
             /\ At(F, 5 + n + e, r.eol)
             /\ At(F, 5 + n + e + e, r.data)
             /\ At(F, 5 + n + e + e + d, r.eol)
<1> DEFINE e == Len(r.eol)
           n == Len(r.name)
           d == Len(r.data)
           P1 == <<"text", FileNameKey, Quote>>
           P2 == P1 \o r.name
           P3 == P2 \o <<Quote>>
           P4 == P3 \o r.eol
           P5 == P4 \o r.eol
           P6 == P5 \o r.data
           P7 == P6 \o r.eol
           Fixed == {P1, r.name, <<Quote>>, r.eol, r.data}
           Keeps(s, t) == \A u \in Fixed : \A p \in Nat \ {0} : At(s, p, u) => At(t, p, u)
<1>1. /\ r.eol \in Seq(Byte) /\ r.name \in Seq(Byte) /\ r.data \in Seq(Byte)
      /\ e \in Nat /\ n \in Nat /\ d \in Nat
      /\ Len(r.eol) = e /\ Len(r.name) = n /\ Len(r.data) = d
  BY RequestType
<1> HIDE DEF e, n, d
<1>2. P1 \in Seq(Byte) /\ Len(P1) = 3 /\ <<Quote>> \in Seq(Byte) /\ Len(<<Quote>>) = 1
  BY ByteAssumption, TokenAssumption, OneByte, ThreeBytes
<1>3. \A u \in Fixed : u \in Seq(Byte)
  BY <1>1, <1>2
<1>4. At(P1, 1, P1)
  BY <1>2, AtSelf
<1>5. P2 \in Seq(Byte) /\ Len(P2) = 3 + n /\ At(P2, 4, r.name) /\ Keeps(P1, P2)
  <2> HIDE DEF P1, Fixed
  <2>1. /\ P2 \in Seq(Byte) /\ Len(P2) = Len(P1) + Len(r.name)
        /\ At(P2, Len(P1) + 1, r.name) /\ Keeps(P1, P2)
    BY <1>1, <1>2, <1>3, Grown
  <2>2. Len(P1) + 1 = 4 /\ Len(P1) + Len(r.name) = 3 + n
    BY <1>1, <1>2
  <2> HIDE DEF Keeps
  <2> QED BY <2>1, <2>2
<1>6. P3 \in Seq(Byte) /\ Len(P3) = 4 + n /\ At(P3, 4 + n, <<Quote>>) /\ Keeps(P2, P3)
  <2> HIDE DEF P2, Fixed
  <2>1. /\ P3 \in Seq(Byte) /\ Len(P3) = Len(P2) + Len(<<Quote>>)
        /\ At(P3, Len(P2) + 1, <<Quote>>) /\ Keeps(P2, P3)
    BY <1>2, <1>3, <1>5, Grown
  <2>2. Len(P2) + 1 = 4 + n /\ Len(P2) + Len(<<Quote>>) = 4 + n
    BY <1>1, <1>2, <1>5
  <2> HIDE DEF Keeps
  <2> QED BY <2>1, <2>2
<1>7. P4 \in Seq(Byte) /\ Len(P4) = 4 + n + e /\ At(P4, 5 + n, r.eol) /\ Keeps(P3, P4)
  <2> HIDE DEF P3, Fixed
  <2>1. /\ P4 \in Seq(Byte) /\ Len(P4) = Len(P3) + Len(r.eol)
        /\ At(P4, Len(P3) + 1, r.eol) /\ Keeps(P3, P4)
    BY <1>1, <1>3, <1>6, Grown
  <2>2. Len(P3) + 1 = 5 + n /\ Len(P3) + Len(r.eol) = 4 + n + e
    BY <1>1, <1>6
  <2> HIDE DEF Keeps
  <2> QED BY <2>1, <2>2
<1>8. P5 \in Seq(Byte) /\ Len(P5) = 4 + n + e + e /\ At(P5, 5 + n + e, r.eol) /\ Keeps(P4, P5)
  <2> HIDE DEF P4, Fixed
  <2>1. /\ P5 \in Seq(Byte) /\ Len(P5) = Len(P4) + Len(r.eol)
        /\ At(P5, Len(P4) + 1, r.eol) /\ Keeps(P4, P5)
    BY <1>1, <1>3, <1>7, Grown
  <2>2. Len(P4) + 1 = 5 + n + e /\ Len(P4) + Len(r.eol) = 4 + n + e + e
    BY <1>1, <1>7
  <2> HIDE DEF Keeps
  <2> QED BY <2>1, <2>2
<1>9. /\ P6 \in Seq(Byte) /\ Len(P6) = 4 + n + e + e + d
      /\ At(P6, 5 + n + e + e, r.data) /\ Keeps(P5, P6)
  <2> HIDE DEF P5, Fixed
  <2>1. /\ P6 \in Seq(Byte) /\ Len(P6) = Len(P5) + Len(r.data)
        /\ At(P6, Len(P5) + 1, r.data) /\ Keeps(P5, P6)
    BY <1>1, <1>3, <1>8, Grown
  <2>2. Len(P5) + 1 = 5 + n + e + e /\ Len(P5) + Len(r.data) = 4 + n + e + e + d
    BY <1>1, <1>8
  <2> HIDE DEF Keeps
  <2> QED BY <2>1, <2>2
<1>10. /\ P7 \in Seq(Byte) /\ Len(P7) = 4 + n + e + e + d + e
       /\ At(P7, 5 + n + e + e + d, r.eol) /\ Keeps(P6, P7)
  <2> HIDE DEF P6, Fixed
  <2>1. /\ P7 \in Seq(Byte) /\ Len(P7) = Len(P6) + Len(r.eol)
        /\ At(P7, Len(P6) + 1, r.eol) /\ Keeps(P6, P7)
    BY <1>1, <1>3, <1>9, Grown
  <2>2. Len(P6) + 1 = 5 + n + e + e + d /\ Len(P6) + Len(r.eol) = 4 + n + e + e + d + e
    BY <1>1, <1>9
  <2> HIDE DEF Keeps
  <2> QED BY <2>1, <2>2
<1>11. FilePart(r) = P7
  BY DEF FilePart
<1>12. P1 \in Fixed /\ r.name \in Fixed /\ <<Quote>> \in Fixed /\ r.eol \in Fixed /\ r.data \in Fixed
  OBVIOUS
<1> DEFINE Q == <<Quote>>
<1>13. Q \in Fixed /\ At(P3, 4 + n, Q)
  BY <1>6
<1> HIDE DEF P2, P3, P4, P5, P6, P7, Fixed, Q
<1>14. /\ 1 \in Nat \ {0} /\ 4 \in Nat \ {0} /\ 4 + n \in Nat \ {0} /\ 5 + n \in Nat \ {0}
       /\ 5 + n + e \in Nat \ {0} /\ 5 + n + e + e \in Nat \ {0}
  BY <1>1
<1>15. At(P7, 4, r.name) /\ At(P7, 4 + n, Q) /\ At(P7, 5 + n, r.eol)
       /\ At(P7, 5 + n + e, r.eol) /\ At(P7, 5 + n + e + e, r.data)
  BY ONLY <1>5, <1>6, <1>7, <1>8, <1>9, <1>10, <1>12, <1>13, <1>14
<1>16. At(P7, 1, P1)
  <2> HIDE DEF P1
  <2> QED BY ONLY <1>4, <1>5, <1>6, <1>7, <1>8, <1>9, <1>10, <1>12, <1>14
<1> QED BY <1>10, <1>11, <1>15, <1>16 DEF e, n, d, Q

\* The whole body of such a form
LEMMA BodyShape ==
  ASSUME NEW r \in Request, r.kind = "file"
  PROVE  LET e == Len(r.eol)  n == Len(r.name)  d == Len(r.data)  B == Body(r)
         IN  /\ B \in Seq(Byte)
             /\ Len(B) = 7 + e + n + e + e + d + e + e
             /\ At(B, 1, <<Boundary>>)
             /\ At(B, 2, r.eol)
             /\ At(B, 2 + e, FilePart(r))
             /\ At(B, 6 + e + n + e + e + d + e, Closing)
<1> DEFINE e == Len(r.eol)
           n == Len(r.name)
           d == Len(r.data)
           F == FilePart(r)
           B0 == <<Boundary>>
           B1 == B0 \o r.eol
           B2 == B1 \o F
           B3 == B2 \o Closing
           B4 == B3 \o r.eol
<1>1. /\ r.eol \in Seq(Byte) /\ e \in Nat /\ n \in Nat /\ d \in Nat /\ Len(r.eol) = e
      /\ F \in Seq(Byte) /\ Len(F) = 4 + n + e + e + d + e
  <2>1. r.eol \in Seq(Byte) /\ r.name \in Seq(Byte) /\ r.data \in Seq(Byte)
    BY RequestType
  <2>2. F \in Seq(Byte) /\ Len(F) = 4 + n + e + e + d + e
    BY PartShape
  <2> HIDE DEF F
  <2> QED BY <2>1, <2>2
<1> DEFINE Pos == Nat \ {0}
<1>2. Body(r) = B4
  BY DEF Body
<1> HIDE DEF e, n, d, F
<1>0. 1 \in Pos /\ 2 \in Pos /\ 2 + e \in Pos /\ 6 + e + n + e + e + d + e \in Pos
  <2>1. e \in Nat /\ n \in Nat /\ d \in Nat
    BY <1>1
  <2> QED BY ONLY <2>1
<1> HIDE DEF Pos
<1>9. \A s, t \in Seq(Byte) :
        /\ s \o t \in Seq(Byte) /\ Len(s \o t) = Len(s) + Len(t)
        /\ At(s \o t, Len(s) + 1, t)
        /\ \A u \in Seq(Byte) : \A p \in Pos : At(s, p, u) => At(s \o t, p, u)
  BY Grown DEF Pos
<1>3. /\ B0 \in Seq(Byte) /\ Len(B0) = 1 /\ At(B0, 1, B0)
      /\ Closing \in Seq(Byte) /\ Len(Closing) = 2
  BY TokenAssumption, OneByte, TwoBytes, AtSelf DEF Closing
<1> HIDE DEF B0
<1>4. B1 \in Seq(Byte) /\ Len(B1) = 1 + e /\ At(B1, 1, B0) /\ At(B1, 2, r.eol)
  <2>1. /\ B1 \in Seq(Byte) /\ Len(B1) = Len(B0) + Len(r.eol)
        /\ At(B1, 1, B0) /\ At(B1, Len(B0) + 1, r.eol)
    BY <1>0, <1>1, <1>3, <1>9
  <2>2. Len(B0) + 1 = 2 /\ Len(B0) + Len(r.eol) = 1 + e
    BY <1>1, <1>3
  <2> QED BY <2>1, <2>2
<1> HIDE DEF B1
<1>5. /\ B2 \in Seq(Byte) /\ Len(B2) = 5 + e + n + e + e + d + e
      /\ At(B2, 1, B0) /\ At(B2, 2, r.eol) /\ At(B2, 2 + e, F)
  <2>1. /\ B2 \in Seq(Byte) /\ Len(B2) = Len(B1) + Len(F)
        /\ At(B2, 1, B0) /\ At(B2, 2, r.eol) /\ At(B2, Len(B1) + 1, F)
    BY <1>0, <1>1, <1>3, <1>4, <1>9
  <2>2. Len(B1) + 1 = 2 + e /\ Len(B1) + Len(F) = 5 + e + n + e + e + d + e
    BY <1>1, <1>4
  <2> QED BY <2>1, <2>2
<1> HIDE DEF B2
<1>6. /\ B3 \in Seq(Byte) /\ Len(B3) = 7 + e + n + e + e + d + e
      /\ At(B3, 1, B0) /\ At(B3, 2, r.eol) /\ At(B3, 2 + e, F)
      /\ At(B3, 6 + e + n + e + e + d + e, Closing)
  <2>2. /\ B3 \in Seq(Byte) /\ Len(B3) = Len(B2) + Len(Closing)
        /\ At(B3, 1, B0) /\ At(B3, 2, r.eol) /\ At(B3, 2 + e, F)
        /\ At(B3, Len(B2) + 1, Closing)
    BY <1>0, <1>1, <1>3, <1>5, <1>9
  <2>3. /\ Len(B2) + 1 = 6 + e + n + e + e + d + e
        /\ Len(B2) + Len(Closing) = 7 + e + n + e + e + d + e
    BY <1>1, <1>3, <1>5
  <2> QED BY <2>2, <2>3
<1> HIDE DEF B3
<1>7. /\ B4 \in Seq(Byte) /\ Len(B4) = 7 + e + n + e + e + d + e + e
      /\ At(B4, 1, B0) /\ At(B4, 2, r.eol) /\ At(B4, 2 + e, F)
      /\ At(B4, 6 + e + n + e + e + d + e, Closing)
  <2>2. /\ B4 \in Seq(Byte) /\ Len(B4) = Len(B3) + Len(r.eol)
        /\ At(B4, 1, B0) /\ At(B4, 2, r.eol) /\ At(B4, 2 + e, F)
        /\ At(B4, 6 + e + n + e + e + d + e, Closing)
    BY <1>0, <1>1, <1>3, <1>6, <1>9
  <2>3. Len(B3) + Len(r.eol) = 7 + e + n + e + e + d + e + e
    BY <1>1, <1>6
  <2> QED BY <2>2, <2>3
<1> QED BY <1>2, <1>7 DEF e, n, d, F, B0

\* Every body is a sequence of bytes.
LEMMA BodyType ==
  ASSUME NEW r \in Request
  PROVE  Body(r) \in Seq(Byte)
<1> DEFINE B == <<Boundary>>
           T == <<"text">>
<1>1. /\ r.eol \in Seq(Byte) /\ r.data \in Seq(Byte) /\ FilePart(r) \in Seq(Byte)
      /\ B \in Seq(Byte) /\ T \in Seq(Byte) /\ Closing \in Seq(Byte)
  BY RequestType, PartShape, TokenAssumption, OneByte, TwoBytes DEF Closing
<1> HIDE DEF B, T
<1>2. FieldPart(r) \in Seq(Byte)
  BY <1>1 DEF FieldPart, T
<1>3. r.kind = "file" => Body(r) \in Seq(Byte)
  BY BodyShape
<1>4. r.kind = "field" => Body(r) \in Seq(Byte)
  <2>1. B \o r.eol \o FieldPart(r) \o Closing \o r.eol \in Seq(Byte)
    BY <1>1, <1>2
  <2> QED BY <2>1 DEF Body, B
<1>5. r.kind = "fieldAndFile" => Body(r) \in Seq(Byte)
  <2>1. B \o r.eol \o FieldPart(r) \o B \o r.eol \o FilePart(r) \o Closing \o r.eol \in Seq(Byte)
    BY <1>1, <1>2
  <2> QED BY <2>1 DEF Body, B
<1>6. r.kind \notin {"file", "field", "fieldAndFile"} => Body(r) \in Seq(Byte)
  BY <1>1 DEF Body
<1> QED BY <1>3, <1>4, <1>5, <1>6

\* A file's form in the buffer, whatever is behind it: where its pieces stand
LEMMA BufferShape ==
  ASSUME NEW r \in Request, r.kind = "file", NEW s \in Seq(Byte), At(s, 1, Body(r))
  PROVE  LET e == Len(r.eol)  n == Len(r.name)  d == Len(r.data)
         IN  /\ Len(Body(r)) <= Len(s)
             /\ At(s, 1, <<Boundary>>)
             /\ At(s, 2, r.eol)
             /\ At(s, 2 + e, <<"text", FileNameKey, Quote>>)
             /\ At(s, 5 + e, r.name)
             /\ At(s, 5 + e + n, <<Quote>>)
             /\ At(s, 6 + e + n, r.eol)
             /\ At(s, 6 + e + n + e, r.eol)
             /\ At(s, 6 + e + n + e + e, r.data)
             /\ At(s, 6 + e + n + e + e + d, r.eol)
             /\ At(s, 6 + e + n + e + e + d + e, Closing)
<1> DEFINE e == Len(r.eol)
           n == Len(r.name)
           d == Len(r.data)
           B == Body(r)
           F == FilePart(r)
           B0 == <<Boundary>>
           P1 == <<"text", FileNameKey, Quote>>
           Q == <<Quote>>
<1>1. /\ r.eol \in Seq(Byte) /\ r.name \in Seq(Byte) /\ r.data \in Seq(Byte)
      /\ e \in Nat /\ n \in Nat /\ d \in Nat
      /\ B0 \in Seq(Byte) /\ P1 \in Seq(Byte) /\ Q \in Seq(Byte) /\ Closing \in Seq(Byte)
  BY RequestType, ByteAssumption, TokenAssumption, OneByte, TwoBytes, ThreeBytes DEF Closing
<1>2. /\ B \in Seq(Byte)
      /\ At(B, 1, B0) /\ At(B, 2, r.eol) /\ At(B, 2 + e, F)
      /\ At(B, 6 + e + n + e + e + d + e, Closing)
  BY BodyShape
<1>3. /\ F \in Seq(Byte)
      /\ At(F, 1, P1) /\ At(F, 4, r.name) /\ At(F, 4 + n, Q) /\ At(F, 5 + n, r.eol)
      /\ At(F, 5 + n + e, r.eol) /\ At(F, 5 + n + e + e, r.data)
      /\ At(F, 5 + n + e + e + d, r.eol)
  BY PartShape
<1>4. At(s, 1, B)
  OBVIOUS
<1> HIDE DEF e, n, d, B, F, B0, P1, Q
<1>5. ASSUME NEW u \in Seq(Byte), NEW q \in Nat \ {0}, At(B, q, u) PROVE At(s, q, u)
  <2>1. At(s, 1 + q - 1, u)
    BY <1>2, <1>4, <1>5, AtWithin
  <2> QED BY <2>1
<1>6. At(s, 1, B0) /\ At(s, 2, r.eol) /\ At(s, 2 + e, F)
      /\ At(s, 6 + e + n + e + e + d + e, Closing)
  <2>1. 2 + e \in Nat \ {0} /\ 6 + e + n + e + e + d + e \in Nat \ {0}
    BY <1>1
  <2> QED BY <1>1, <1>2, <1>3, <1>5, <2>1, SMTT(30)
<1>7. ASSUME NEW u \in Seq(Byte), NEW q \in Nat \ {0}, At(F, q, u) PROVE At(s, 1 + e + q, u)
  <2>1. 2 + e \in Nat \ {0} /\ 2 + e + q - 1 = 1 + e + q
    BY <1>1
  <2>2. At(s, 2 + e + q - 1, u)
    BY <1>3, <1>6, <1>7, <2>1, AtWithin
  <2> QED BY <2>1, <2>2
<1>8. /\ 4 + n \in Nat \ {0} /\ 5 + n \in Nat \ {0} /\ 5 + n + e \in Nat \ {0}
      /\ 5 + n + e + e \in Nat \ {0} /\ 5 + n + e + e + d \in Nat \ {0}
  BY <1>1
<1>9. /\ At(s, 1 + e + 1, P1) /\ At(s, 1 + e + 4, r.name) /\ At(s, 1 + e + (4 + n), Q)
      /\ At(s, 1 + e + (5 + n), r.eol) /\ At(s, 1 + e + (5 + n + e), r.eol)
      /\ At(s, 1 + e + (5 + n + e + e), r.data) /\ At(s, 1 + e + (5 + n + e + e + d), r.eol)
  <2>1. /\ 1 \in Nat \ {0} /\ 4 \in Nat \ {0}
    OBVIOUS
  <2> QED BY ONLY <1>1, <1>3, <1>7, <1>8, <2>1
<1>10. /\ 1 + e + 1 = 2 + e /\ 1 + e + 4 = 5 + e /\ 1 + e + (4 + n) = 5 + e + n
       /\ 1 + e + (5 + n) = 6 + e + n /\ 1 + e + (5 + n + e) = 6 + e + n + e
       /\ 1 + e + (5 + n + e + e) = 6 + e + n + e + e
       /\ 1 + e + (5 + n + e + e + d) = 6 + e + n + e + e + d
  BY <1>1
<1>11. Len(B) <= Len(s)
  <2>1. 1 + Len(B) - 1 <= Len(s) /\ Len(B) \in Nat
    BY <1>2, <1>4 DEF At
  <2> QED BY <2>1
<1>12. /\ At(s, 2 + e, P1) /\ At(s, 5 + e, r.name) /\ At(s, 5 + e + n, Q)
       /\ At(s, 6 + e + n, r.eol) /\ At(s, 6 + e + n + e, r.eol)
       /\ At(s, 6 + e + n + e + e, r.data) /\ At(s, 6 + e + n + e + e + d, r.eol)
  BY <1>9, <1>10
<1> QED BY <1>6, <1>11, <1>12 DEF e, n, d, B, B0, P1, Q

-----------------------------------------------------------------------------
(* What fiel_source_get finds *)

\* The name is found by its key and its quotes.
LEMMA NameFound ==
  ASSUME NEW s \in Seq(Byte), NEW k \in Nat \ {0}, NEW name \in Seq(Byte),
         k + 2 + Len(name) <= Len(s),
         \A i \in 1..(k - 1) : s[i] # FileNameKey /\ s[i] # NUL,
         s[k] = FileNameKey, s[k + 1] = Quote, At(s, k + 2, name),
         \A i \in DOMAIN name : name[i] # Quote,
         s[k + 2 + Len(name)] = Quote
  PROVE  /\ KeyAt(s) = k
         /\ strchr(s, KeyAt(s) + 1, Quote) = k + 1
         /\ NameEnd(s) = k + 2 + Len(name)
         /\ NameIn(s) = name
<1> DEFINE n == Len(name)
           K == <<FileNameKey>>
           Q == <<Quote>>
<1>1. n \in Nat /\ DOMAIN name = 1..n /\ Len(s) \in Nat
  OBVIOUS
<1>2. /\ K \in Seq(Byte) /\ K # << >> /\ Len(K) = 1
      /\ \A p \in Int : At(s, p, K) <=> p <= Len(s) /\ s[p] = FileNameKey
  BY TokenAssumption, OneByte
<1>3. /\ Q \in Seq(Byte) /\ Q # << >> /\ Len(Q) = 1
      /\ \A p \in Int : At(s, p, Q) <=> p <= Len(s) /\ s[p] = Quote
  BY ByteAssumption, OneByte
<1>4. FileNameKey # NUL /\ Quote # NUL
  BY DEF FileNameKey, NUL, Quote
<1>5. KeyAt(s) = k
  <2>1. At(s, k, K)
    BY <1>1, <1>2, SMTT(30)
  <2>2. \A i \in 1..(k + Len(K) - 1) : s[i] # NUL
    BY <1>2, <1>4
  <2>3. \A j \in 1..(k - 1) : ~ At(s, j, K)
    BY <1>2
  <2>4. 1 \in Nat \ {0} /\ 1 <= k
    OBVIOUS
  <2> HIDE DEF K
  <2>5. strstr(s, 1, K) = k
    BY <1>2, <2>1, <2>2, <2>3, <2>4, StrstrIs
  <2> QED BY <2>5 DEF KeyAt, K
<1>6. strchr(s, k + 1, Quote) = k + 1
  <2> DEFINE m == k + 1
  <2>1. m \in Nat \ {0} /\ m \in Nat /\ m <= m /\ m <= Len(s) /\ s[m] = Quote
    BY <1>1
  <2> HIDE DEF m
  <2>2. At(s, m, Q)
    BY <1>3, <2>1
  <2>3. \A i \in m..(m + Len(Q) - 1) : s[i] # NUL
    BY <1>3, <1>4, <2>1
  <2>4. \A j \in m..(m - 1) : ~ At(s, j, Q)
    BY <2>1
  <2> HIDE DEF Q
  <2>5. strstr(s, m, Q) = m
    BY <1>3, <2>1, <2>2, <2>3, <2>4, StrstrIs
  <2> QED BY <2>5 DEF strchr, Q, m
<1>7. NameAt(s) = k + 2
  BY <1>5, <1>6 DEF NameAt
<1>8. NameEnd(s) = k + 2 + n
  <2> DEFINE S == {q \in (k + 2)..Len(s) : s[q] = Quote}
  <2>1. S \in SUBSET Nat /\ k + 2 + n \in S
    BY <1>1
  <2>2. \A i \in 1..n : s[k + 2 + i - 1] # Quote
    BY <1>1 DEF At
  <2>3. ASSUME NEW q \in S, q < k + 2 + n PROVE FALSE
    <3>1. q - (k + 1) \in 1..n /\ k + 2 + (q - (k + 1)) - 1 = q
      BY <1>1, <2>3
    <3> QED BY <2>2, <3>1
  <2>4. \A q \in S : k + 2 + n <= q
    BY <1>1, <2>3
  <2>5. First(S) = k + 2 + n
    <3> HIDE DEF S
    <3> QED BY <2>1, <2>4, FirstIs
  <2> QED BY <1>7, <2>5 DEF NameEnd
<1>9. NameIn(s) = name
  <2>1. SubSeq(s, k + 2, k + 2 + n - 1) = name
    BY AtCut
  <2> QED BY <1>7, <1>8, <2>1 DEF NameIn
<1> QED BY <1>5, <1>6, <1>8, <1>9

\* The bytes of a regular form whose lines end with CR LF
LEMMA BytesCRLF ==
  ASSUME NEW r \in Request, Regular(r), r.eol = CRLF, NEW s \in Seq(Byte), At(s, 1, Body(r))
  PROVE  LET n == Len(r.name)  d == Len(r.data)
         IN  /\ n \in Nat /\ d \in Nat
             /\ Len(Body(r)) = 17 + n + d /\ 17 + n + d <= Len(s)
             /\ s[1] = Boundary /\ s[2] = CR /\ s[3] = LF
             /\ s[4] = "text" /\ s[5] = FileNameKey /\ s[6] = Quote
             /\ At(s, 7, r.name)
             /\ s[7 + n] = Quote
             /\ s[8 + n] = CR /\ s[9 + n] = LF /\ s[10 + n] = CR /\ s[11 + n] = LF
             /\ At(s, 12 + n, r.data)
             /\ s[12 + n + d] = CR /\ s[13 + n + d] = LF /\ s[14 + n + d] = Boundary
<1> DEFINE n == Len(r.name)
           d == Len(r.data)
           P1 == <<"text", FileNameKey, Quote>>
<1>1. n \in Nat /\ d \in Nat /\ Len(r.eol) = 2 /\ r.kind = "file"
  BY RequestType DEF Regular
<1>2. Len(Body(r)) = 7 + 2 + n + 2 + 2 + d + 2 + 2
  BY <1>1, BodyShape
<1>3. /\ Len(Body(r)) <= Len(s)
      /\ At(s, 1, <<Boundary>>)
      /\ At(s, 2, r.eol)
      /\ At(s, 2 + 2, P1)
      /\ At(s, 5 + 2, r.name)
      /\ At(s, 5 + 2 + n, <<Quote>>)
      /\ At(s, 6 + 2 + n, r.eol)
      /\ At(s, 6 + 2 + n + 2, r.eol)
      /\ At(s, 6 + 2 + n + 2 + 2, r.data)
      /\ At(s, 6 + 2 + n + 2 + 2 + d, r.eol)
      /\ At(s, 6 + 2 + n + 2 + 2 + d + 2, Closing)
  BY <1>1, BufferShape
<1> HIDE DEF n, d, P1
<1>4. s[1] = Boundary /\ s[7 + n] = Quote
  <2>1. \A p \in Int : At(s, p, <<Boundary>>) => s[p] = Boundary
    BY TokenAssumption, OneByte
  <2>2. \A p \in Int : At(s, p, <<Quote>>) => s[p] = Quote
    BY ByteAssumption, OneByte
  <2>3. 5 + 2 + n = 7 + n /\ 7 + n \in Int /\ 1 \in Int
    BY <1>1
  <2> QED BY <1>3, <2>1, <2>2, <2>3
<1>5. \A p \in Int : At(s, p, r.eol) => s[p] = CR /\ s[p + 1] = LF
  BY ByteAssumption, TwoBytes DEF CRLF
<1>6. s[2] = CR /\ s[3] = LF
  <2>1. 2 \in Int /\ 2 + 1 = 3
    OBVIOUS
  <2> QED BY <1>3, <1>5, <2>1
<1>7. s[8 + n] = CR /\ s[9 + n] = LF
  <2>1. 8 + n \in Int /\ 6 + 2 + n = 8 + n /\ 8 + n + 1 = 9 + n
    BY <1>1
  <2> QED BY <1>3, <1>5, <2>1
<1>8. s[10 + n] = CR /\ s[11 + n] = LF
  <2>1. 10 + n \in Int /\ 6 + 2 + n + 2 = 10 + n /\ 10 + n + 1 = 11 + n
    BY <1>1
  <2> QED BY <1>3, <1>5, <2>1
<1>9. s[4] = "text" /\ s[5] = FileNameKey /\ s[6] = Quote
  <2>1. \A p \in Int : At(s, p, P1) => s[p] = "text" /\ s[p + 1] = FileNameKey /\ s[p + 2] = Quote
    BY ByteAssumption, TokenAssumption, ThreeBytes DEF P1
  <2>2. 4 \in Int /\ 2 + 2 = 4 /\ 4 + 1 = 5 /\ 4 + 2 = 6
    OBVIOUS
  <2> QED BY <1>3, <2>1, <2>2
<1>10. s[14 + n + d] = Boundary
  <2>1. \A p \in Int : At(s, p, Closing) => s[p] = Boundary
    BY TokenAssumption, TwoBytes DEF Closing
  <2>2. 14 + n + d \in Int /\ 6 + 2 + n + 2 + 2 + d + 2 = 14 + n + d
    BY <1>1
  <2> QED BY <1>3, <2>1, <2>2
<1>11. At(s, 7, r.name) /\ At(s, 12 + n, r.data)
  <2>1. 5 + 2 = 7 /\ 6 + 2 + n + 2 + 2 = 12 + n
    BY <1>1
  <2> QED BY <1>3, <2>1
<1>12. Len(Body(r)) = 17 + n + d
  BY <1>1, <1>2
<1>13. s[12 + n + d] = CR /\ s[13 + n + d] = LF
  <2>1. 12 + n + d \in Int /\ 6 + 2 + n + 2 + 2 + d = 12 + n + d /\ 12 + n + d + 1 = 13 + n + d
    BY <1>1
  <2> QED BY <1>3, <1>5, <2>1
<1> QED BY <1>1, <1>3, <1>4, <1>6, <1>7, <1>8, <1>9, <1>10, <1>11, <1>12, <1>13 DEF n, d

\* The bytes of one whose lines end with LF
LEMMA BytesLF ==
  ASSUME NEW r \in Request, Regular(r), r.eol # CRLF, NEW s \in Seq(Byte), At(s, 1, Body(r))
  PROVE  LET n == Len(r.name)  d == Len(r.data)
         IN  /\ n \in Nat /\ d \in Nat
             /\ Len(Body(r)) = 12 + n + d /\ 12 + n + d <= Len(s)
             /\ s[1] = Boundary /\ s[2] = LF
             /\ s[3] = "text" /\ s[4] = FileNameKey /\ s[5] = Quote
             /\ At(s, 6, r.name)
             /\ s[6 + n] = Quote
             /\ s[7 + n] = LF /\ s[8 + n] = LF
             /\ At(s, 9 + n, r.data)
             /\ s[9 + n + d] = LF
             /\ s[10 + n + d] = Boundary /\ s[11 + n + d] = "--"
<1> DEFINE n == Len(r.name)
           d == Len(r.data)
           P1 == <<"text", FileNameKey, Quote>>
           L == <<LF>>
<1>1. n \in Nat /\ d \in Nat /\ r.eol = L /\ Len(r.eol) = 1 /\ r.kind = "file"
  BY RequestType DEF Regular
<1>2. Len(Body(r)) = 7 + 1 + n + 1 + 1 + d + 1 + 1
  BY <1>1, BodyShape
<1>3. /\ Len(Body(r)) <= Len(s)
      /\ At(s, 1, <<Boundary>>)
      /\ At(s, 2, r.eol)
      /\ At(s, 2 + 1, P1)
      /\ At(s, 5 + 1, r.name)
      /\ At(s, 5 + 1 + n, <<Quote>>)
      /\ At(s, 6 + 1 + n, r.eol)
      /\ At(s, 6 + 1 + n + 1, r.eol)
      /\ At(s, 6 + 1 + n + 1 + 1, r.data)
      /\ At(s, 6 + 1 + n + 1 + 1 + d, r.eol)
      /\ At(s, 6 + 1 + n + 1 + 1 + d + 1, Closing)
  BY <1>1, BufferShape
<1> HIDE DEF n, d, P1
<1>4. s[1] = Boundary /\ s[6 + n] = Quote
  <2>1. \A p \in Int : At(s, p, <<Boundary>>) => s[p] = Boundary
    BY TokenAssumption, OneByte
  <2>2. \A p \in Int : At(s, p, <<Quote>>) => s[p] = Quote
    BY ByteAssumption, OneByte
  <2>3. 5 + 1 + n = 6 + n /\ 6 + n \in Int /\ 1 \in Int
    BY <1>1
  <2> QED BY <1>3, <2>1, <2>2, <2>3
<1>5. \A p \in Int : At(s, p, r.eol) => s[p] = LF
  <2>1. \A p \in Int : At(s, p, L) => s[p] = LF
    BY ByteAssumption, OneByte
  <2> HIDE DEF L
  <2> QED BY <1>1, <2>1
<1>6. s[2] = LF /\ s[7 + n] = LF /\ s[8 + n] = LF /\ s[9 + n + d] = LF
  <2>1. /\ 2 \in Int /\ 7 + n \in Int /\ 8 + n \in Int /\ 9 + n + d \in Int
        /\ 6 + 1 + n = 7 + n /\ 6 + 1 + n + 1 = 8 + n /\ 6 + 1 + n + 1 + 1 + d = 9 + n + d
    BY <1>1
  <2> QED BY <1>3, <1>5, <2>1
<1>7. s[3] = "text" /\ s[4] = FileNameKey /\ s[5] = Quote
  <2>1. \A p \in Int : At(s, p, P1) => s[p] = "text" /\ s[p + 1] = FileNameKey /\ s[p + 2] = Quote
    BY ByteAssumption, TokenAssumption, ThreeBytes DEF P1
  <2>2. 3 \in Int /\ 2 + 1 = 3 /\ 3 + 1 = 4 /\ 3 + 2 = 5
    OBVIOUS
  <2> QED BY <1>3, <2>1, <2>2
<1>8. s[10 + n + d] = Boundary /\ s[11 + n + d] = "--"
  <2>1. \A p \in Int : At(s, p, Closing) => s[p] = Boundary /\ s[p + 1] = "--"
    BY TokenAssumption, TwoBytes DEF Closing
  <2>2. /\ 10 + n + d \in Int /\ 6 + 1 + n + 1 + 1 + d + 1 = 10 + n + d
        /\ 10 + n + d + 1 = 11 + n + d
    BY <1>1
  <2> QED BY <1>3, <2>1, <2>2
<1>9. At(s, 6, r.name) /\ At(s, 9 + n, r.data)
  <2>1. 5 + 1 = 6 /\ 6 + 1 + n + 1 + 1 = 9 + n
    BY <1>1
  <2> QED BY <1>3, <2>1
<1>10. Len(Body(r)) = 12 + n + d
  BY <1>1, <1>2
<1> QED BY <1>1, <1>3, <1>4, <1>6, <1>7, <1>8, <1>9, <1>10 DEF n, d

\* What a regular name is free of
LEMMA RegularName ==
  ASSUME NEW r \in Request, Regular(r), NEW s \in Seq(Byte), NEW p \in Nat \ {0},
         At(s, p, r.name)
  PROVE  /\ \A j \in p..(p + Len(r.name) - 1) : s[j] \notin {Quote, NUL, CR, LF}
         /\ \A i \in DOMAIN r.name : r.name[i] \notin {Quote, NUL, CR, LF}
<1>1. Len(r.name) \in Nat /\ DOMAIN r.name = 1..Len(r.name)
  BY RequestType
<1>2. \A i \in DOMAIN r.name : r.name[i] \notin {Quote, NUL, CR, LF}
  BY DEF Regular
<1>3. ASSUME NEW j \in p..(p + Len(r.name) - 1) PROVE s[j] \notin {Quote, NUL, CR, LF}
  <2>1. j - p + 1 \in DOMAIN r.name /\ p + (j - p + 1) - 1 = j
    BY <1>1
  <2>2. s[p + (j - p + 1) - 1] = r.name[j - p + 1]
    BY <2>1 DEF At
  <2> QED BY <1>2, <2>1, <2>2
<1> QED BY <1>2, <1>3

\* ... and regular contents
LEMMA RegularData ==
  ASSUME NEW r \in Request, Regular(r), NEW s \in Seq(Byte), NEW p \in Nat \ {0},
         At(s, p, r.data)
  PROVE  \A j \in p..(p + Len(r.data) - 1) : s[j] # Boundary
<1>1. Len(r.data) \in Nat /\ DOMAIN r.data = 1..Len(r.data)
  BY RequestType
<1>2. ASSUME NEW j \in p..(p + Len(r.data) - 1) PROVE s[j] # Boundary
  <2>1. j - p + 1 \in DOMAIN r.data /\ p + (j - p + 1) - 1 = j
    BY <1>1
  <2>2. s[p + (j - p + 1) - 1] = r.data[j - p + 1]
    BY <2>1 DEF At
  <2> QED BY <2>1, <2>2 DEF Regular
<1> QED BY <1>2

\* The bytes that the searches tell apart
LEMMA Distinct ==
  /\ Boundary # CR /\ Boundary # LF /\ Boundary # NUL /\ Boundary # FileNameKey
  /\ FileNameKey # CR /\ FileNameKey # LF /\ FileNameKey # NUL /\ "text" # FileNameKey
  /\ "text" # CR /\ "text" # LF /\ "text" # NUL /\ "text" # Boundary
  /\ Quote # CR /\ Quote # LF /\ Quote # NUL /\ Quote # Boundary
  /\ CR # NUL /\ LF # NUL /\ CR # LF /\ "--" # LF /\ "--" # Boundary
BY DEF Boundary, FileNameKey, CR, LF, NUL, Quote

\* The first line of a form is its boundary.
LEMMA BoundaryLine ==
  ASSUME NEW s \in Seq(Byte), Len(s) >= 1, s[1] = Boundary, LineEnd(s) = 2
  PROVE  /\ boundary(s) = <<Boundary>> /\ <<Boundary>> \in Seq(Byte)
         /\ Len(<<Boundary>>) = 1 /\ << Boundary >> # << >>
         /\ \A p \in Int : At(s, p, <<Boundary>>) <=> p <= Len(s) /\ s[p] = Boundary
<1> DEFINE B0 == <<Boundary>>
<1>1. /\ B0 \in Seq(Byte) /\ Len(B0) = 1 /\ B0 # << >>
      /\ \A p \in Int : At(s, p, B0) <=> p <= Len(s) /\ s[p] = Boundary
  BY TokenAssumption, OneByte
<1> HIDE DEF B0
<1>2. At(s, 1, B0) /\ 1 \in Nat \ {0}
  BY <1>1
<1>3. SubSeq(s, 1, 1 + Len(B0) - 1) = B0
  BY <1>1, <1>2, AtCut
<1>4. SubSeq(s, 1, 2 - 1) = B0
  <2>1. 1 + Len(B0) - 1 = 2 - 1
    BY <1>1
  <2> QED BY <1>3, <2>1
<1>5. boundary(s) = B0
  BY <1>4 DEF boundary
<1> QED BY <1>1, <1>5 DEF B0

\* The header of a form whose lines end with CR LF
LEMMA HeaderCRLF ==
  ASSUME NEW s \in Seq(Byte), NEW n \in Nat, 11 + n <= Len(s),
         s[1] = Boundary, s[2] = CR, s[3] = LF,
         s[4] = "text", s[5] = FileNameKey, s[6] = Quote,
         \A j \in 7..(6 + n) : s[j] # NUL /\ s[j] # CR,
         s[7 + n] = Quote,
         s[8 + n] = CR, s[9 + n] = LF, s[10 + n] = CR, s[11 + n] = LF
  PROVE  /\ LineEnd(s) = 2 /\ ~ IsLinux(s)
         /\ HeaderEnd(s) = 8 + n /\ ContentAt(s) = 12 + n
<1> DEFINE T == CRLF \o CRLF
<1>1. Len(s) \in Nat
  OBVIOUS
<1>2. \A i \in 1..(11 + n) :
        \/ i = 1 \/ i = 2 \/ i = 3 \/ i = 4 \/ i = 5 \/ i = 6 \/ i \in 7..(6 + n)
        \/ i = 7 + n \/ i = 8 + n \/ i = 9 + n \/ i = 10 + n \/ i = 11 + n
  OBVIOUS
<1>3. \A i \in 1..(11 + n) : s[i] # NUL
  BY <1>2, Distinct
<1>4. \A i \in 3..(7 + n) : s[i] # CR
  <2>1. \A i \in 3..(7 + n) : \/ i = 3 \/ i = 4 \/ i = 5 \/ i = 6 \/ i \in 7..(6 + n)
                              \/ i = 7 + n
    OBVIOUS
  <2> QED BY <2>1, Distinct
<1>5. /\ CRLF \in Seq(Byte) /\ CRLF # << >> /\ Len(CRLF) = 2
      /\ T \in Seq(Byte) /\ T # << >> /\ Len(T) = 4
      /\ \A p \in Int : At(s, p, CRLF) <=> p + 1 <= Len(s) /\ s[p] = CR /\ s[p + 1] = LF
      /\ \A p \in Int :
           At(s, p, T) <=> /\ p + 3 <= Len(s)
                           /\ s[p] = CR /\ s[p + 1] = LF /\ s[p + 2] = CR /\ s[p + 3] = LF
  BY TwoLines
<1> HIDE DEF T
<1>6. strstr(s, 1, CRLF) = 2
  <2>1. At(s, 2, CRLF)
    <3>1. 2 \in Int /\ 2 + 1 = 3 /\ 3 <= Len(s)
      BY <1>1
    <3> QED BY <1>5, <3>1
  <2>2. \A i \in 1..(2 + Len(CRLF) - 1) : s[i] # NUL
    <3>1. \A i \in 1..(2 + Len(CRLF) - 1) : i \in 1..(11 + n)
      BY <1>5
    <3> QED BY <1>3, <3>1
  <2>3. \A j \in 1..(2 - 1) : ~ At(s, j, CRLF)
    <3>1. 1 \in Int /\ \A j \in 1..(2 - 1) : j = 1
      OBVIOUS
    <3> QED BY <1>5, <3>1, Distinct
  <2>4. 1 \in Nat \ {0} /\ 2 \in Nat /\ 1 <= 2
    OBVIOUS
  <2> QED BY ONLY s \in Seq(Byte), <1>5, <2>1, <2>2, <2>3, <2>4, StrstrIs
<1>7. LineEnd(s) = 2
  BY ONLY <1>6 DEF LineEnd
<1>8. strstr(s, 2, T) = 8 + n
  <2> DEFINE q == 8 + n
  <2>1. q \in Nat /\ 2 <= q /\ 2 \in Nat \ {0}
    OBVIOUS
  <2>2. At(s, q, T)
    <3>1. q \in Int /\ q + 1 = 9 + n /\ q + 2 = 10 + n /\ q + 3 = 11 + n
      OBVIOUS
    <3> HIDE DEF q
    <3> QED BY <1>5, <3>1 DEF q
  <2>3. \A i \in 2..(q + Len(T) - 1) : s[i] # NUL
    <3>1. \A i \in 2..(q + Len(T) - 1) : i \in 1..(11 + n)
      BY <1>5
    <3> QED BY <1>3, <3>1
  <2>4. ASSUME NEW j \in 2..(q - 1) PROVE ~ At(s, j, T)
    <3>1. j \in Int /\ (j = 2 \/ j \in 3..(7 + n)) /\ 2 + 2 = 4
      OBVIOUS
    <3>2. CASE j = 2
      BY <1>5, <3>1, <3>2, Distinct
    <3>3. CASE j \in 3..(7 + n)
      BY <1>4, <1>5, <3>1, <3>3
    <3> QED BY <3>1, <3>2, <3>3
  <2> HIDE DEF q
  <2>5. \A j \in 2..(q - 1) : ~ At(s, j, T)
    BY <2>4
  <2>6. strstr(s, 2, T) = q
    BY ONLY s \in Seq(Byte), <1>5, <2>1, <2>2, <2>3, <2>5, StrstrIs
  <2> QED BY <2>6 DEF q
<1>9. strstr(s, LineEnd(s), CRLF \o CRLF) = 8 + n
  BY ONLY <1>7, <1>8 DEF T
<1>10. 8 + n # 0 /\ 8 + n + 4 = 12 + n
  OBVIOUS
<1>11. ~ IsLinux(s)
  BY ONLY <1>9, <1>10 DEF IsLinux
<1>12. HeaderEnd(s) = 8 + n
  BY ONLY <1>9, <1>11 DEF HeaderEnd
<1>13. ContentAt(s) = 12 + n
  BY ONLY <1>10, <1>11, <1>12 DEF ContentAt
<1> QED BY <1>7, <1>11, <1>12, <1>13

\* The content of a form is found by its boundary, whatever its bytes are.
LEMMA ContentFound ==
  ASSUME NEW s \in Seq(Byte), NEW len \in Nat, NEW a \in Nat \ {0}, NEW q \in Nat,
         a <= q, q <= len, len <= Len(s), s[1] = Boundary, LineEnd(s) = 2, ContentAt(s) = a,
         \A j \in a..(q - 1) : s[j] # Boundary, s[q] = Boundary
  PROVE  ContentEnd(s, len) = q
<1> DEFINE B0 == <<Boundary>>
           l == len - (a - 1)
<1>1. /\ boundary(s) = B0 /\ B0 \in Seq(Byte) /\ Len(B0) = 1 /\ B0 # << >>
      /\ \A p \in Int : At(s, p, B0) <=> p <= Len(s) /\ s[p] = Boundary
  <2>1. Len(s) >= 1
    OBVIOUS
  <2> QED BY <2>1, BoundaryLine
<1> HIDE DEF B0
<1>2. l \in Int /\ q + Len(B0) <= a + l /\ q <= Len(s)
  BY <1>1
<1>3. At(s, q, B0) /\ \A j \in a..(q - 1) : ~ At(s, j, B0)
  BY <1>1, <1>2
<1> HIDE DEF l
<1>4. memstr(s, a, l, B0) = q
  BY <1>1, <1>2, <1>3, MemstrIs
<1> QED BY <1>1, <1>4 DEF ContentEnd, l

\* A regular form of CR LF is found whole, whatever the buffer holds behind it.
LEMMA ParseCRLF ==
  ASSUME NEW r \in Request, Regular(r), r.eol = CRLF, NEW s \in Seq(Byte), At(s, 1, Body(r))
  PROVE  /\ KeyAt(s) # 0 /\ strchr(s, KeyAt(s) + 1, Quote) # 0 /\ NameEnd(s) # 0
         /\ NameIn(s) = r.name
         /\ LineEnd(s) # 0 /\ Len(boundary(s)) = 1
         /\ HeaderEnd(s) # 0
         /\ ContentEnd(s, Len(Body(r))) # 0
         /\ Written(s, Len(Body(r))) = r.data
         /\ ~ ContentLength(s, Len(Body(r))) < 0
<1> DEFINE n == Len(r.name)
           d == Len(r.data)
           len == Len(Body(r))
<1>1. n \in Nat /\ d \in Nat /\ len = 17 + n + d /\ 17 + n + d <= Len(s)
  BY BytesCRLF
<1>2. /\ s[1] = Boundary /\ s[2] = CR /\ s[3] = LF
      /\ s[4] = "text" /\ s[5] = FileNameKey /\ s[6] = Quote /\ s[7 + n] = Quote
      /\ s[8 + n] = CR /\ s[9 + n] = LF /\ s[10 + n] = CR /\ s[11 + n] = LF
  BY BytesCRLF
<1>3. /\ At(s, 7, r.name) /\ At(s, 12 + n, r.data)
      /\ s[12 + n + d] = CR /\ s[13 + n + d] = LF /\ s[14 + n + d] = Boundary
  BY BytesCRLF
<1>4. r.name \in Seq(Byte) /\ r.data \in Seq(Byte) /\ n = Len(r.name) /\ d = Len(r.data)
  BY RequestType
<1> HIDE DEF n, d, len
<1>5. /\ \A j \in 7..(6 + n) : s[j] \notin {Quote, NUL, CR, LF}
      /\ \A i \in DOMAIN r.name : r.name[i] # Quote
  <2>1. 7 \in Nat \ {0} /\ 7 + n - 1 = 6 + n
    BY <1>1
  <2> QED BY <1>3, <1>4, <2>1, RegularName
<1>6. KeyAt(s) = 5 /\ strchr(s, KeyAt(s) + 1, Quote) = 5 + 1 /\ NameEnd(s) = 5 + 2 + n
      /\ NameIn(s) = r.name
  <2>1. \A i \in 1..(5 - 1) : i = 1 \/ i = 2 \/ i = 3 \/ i = 4
    OBVIOUS
  <2>2. \A i \in 1..(5 - 1) : s[i] # FileNameKey /\ s[i] # NUL
    BY <1>2, <2>1, Distinct
  <2>3. /\ 5 \in Nat \ {0} /\ 5 + 2 = 7 /\ 5 + 1 = 6 /\ 5 + 2 + n <= Len(s)
    BY <1>1
  <2>4. At(s, 5 + 2, r.name) /\ s[5] = FileNameKey /\ s[5 + 1] = Quote /\ s[5 + 2 + n] = Quote
    BY ONLY <1>2, <1>3, <2>3
  <2> QED BY ONLY s \in Seq(Byte), <1>4, <1>5, <2>2, <2>3, <2>4, NameFound
<1>7. LineEnd(s) = 2 /\ ~ IsLinux(s) /\ HeaderEnd(s) = 8 + n /\ ContentAt(s) = 12 + n
  <2>1. \A j \in 7..(6 + n) : s[j] # NUL /\ s[j] # CR
    BY ONLY <1>5
  <2>2. 11 + n <= Len(s)
    BY <1>1
  <2> QED BY ONLY s \in Seq(Byte), <1>1, <1>2, <2>1, <2>2, HeaderCRLF
<1>8. Len(boundary(s)) = 1
  <2>1. Len(s) >= 1
    BY <1>1
  <2> QED BY ONLY s \in Seq(Byte), <1>2, <1>7, <2>1, BoundaryLine
<1>9. ContentEnd(s, len) = 14 + n + d
  <2> DEFINE a == 12 + n
             q == 14 + n + d
  <2>1. /\ a \in Nat \ {0} /\ q \in Nat /\ len \in Nat /\ a <= q /\ q <= len /\ len <= Len(s)
        /\ \A j \in a..(q - 1) : j \in a..(a + d - 1) \/ j = 12 + n + d \/ j = 13 + n + d
    BY <1>1
  <2> HIDE DEF a, q
  <2>2. \A j \in a..(a + d - 1) : s[j] # Boundary
    BY <1>3, <1>4, <2>1, RegularData DEF a
  <2>3. \A j \in a..(q - 1) : s[j] # Boundary
    BY <1>3, <2>1, <2>2, Distinct
  <2>4. s[q] = Boundary /\ ContentAt(s) = a
    BY ONLY <1>3, <1>7 DEF a, q
  <2>5. ContentEnd(s, len) = q
    BY ONLY s \in Seq(Byte), <1>2, <1>7, <2>1, <2>3, <2>4, ContentFound
  <2> QED BY <2>5 DEF q
<1>10. ContentLength(s, len) = d
  <2>1. ContentLength(s, len) = (14 + n + d) - (12 + n) - 2
    BY ONLY <1>7, <1>9, Zenon DEF ContentLength
  <2>2. (14 + n + d) - (12 + n) - 2 = d
    BY <1>1
  <2> QED BY <2>1, <2>2
<1>11. Written(s, len) = r.data
  <2>1. 12 + n \in Nat \ {0}
    BY <1>1
  <2>2. SubSeq(s, 12 + n, 12 + n + d - 1) = r.data
    BY ONLY s \in Seq(Byte), <1>3, <1>4, <2>1, AtCut
  <2> QED BY ONLY <1>7, <1>10, <2>2 DEF Written
<1>12. 5 # 0 /\ 5 + 1 # 0 /\ 5 + 2 + n # 0 /\ 2 # 0 /\ 8 + n # 0 /\ 14 + n + d # 0
  BY <1>1
<1>13. /\ KeyAt(s) # 0 /\ strchr(s, KeyAt(s) + 1, Quote) # 0 /\ NameEnd(s) # 0
       /\ LineEnd(s) # 0 /\ HeaderEnd(s) # 0 /\ ContentEnd(s, len) # 0
  BY ONLY <1>6, <1>7, <1>9, <1>12
<1>14. ~ ContentLength(s, len) < 0
  BY ONLY <1>1, <1>10
<1> QED BY ONLY <1>6, <1>8, <1>11, <1>13, <1>14 DEF len

\* The header of a form whose lines end with LF, if no line end of Windows is
\* anywhere in the C string
LEMMA HeaderLF ==
  ASSUME NEW s \in Seq(Byte), NEW n \in Nat, 8 + n <= Len(s),
         strstr(s, 1, CRLF) = 0,
         s[1] = Boundary, s[2] = LF,
         s[3] = "text", s[4] = FileNameKey, s[5] = Quote,
         \A j \in 6..(5 + n) : s[j] # NUL /\ s[j] # LF,
         s[6 + n] = Quote, s[7 + n] = LF, s[8 + n] = LF
  PROVE  /\ LineEnd(s) = 2 /\ IsLinux(s)
         /\ HeaderEnd(s) = 7 + n /\ ContentAt(s) = 9 + n
<1> DEFINE T == CRLF \o CRLF
           L == <<LF>>
           M == <<LF, LF>>
<1>1. Len(s) \in Nat
  OBVIOUS
<1>2. \A i \in 1..(8 + n) :
        \/ i = 1 \/ i = 2 \/ i = 3 \/ i = 4 \/ i = 5 \/ i \in 6..(5 + n)
        \/ i = 6 + n \/ i = 7 + n \/ i = 8 + n
  OBVIOUS
<1>3. \A i \in 1..(8 + n) : s[i] # NUL
  BY <1>2, Distinct
<1>4. \A i \in 3..(6 + n) : s[i] # LF
  <2>1. \A i \in 3..(6 + n) : i = 3 \/ i = 4 \/ i = 5 \/ i \in 6..(5 + n) \/ i = 6 + n
    OBVIOUS
  <2> QED BY <2>1, Distinct
<1>5. /\ CRLF \in Seq(Byte) /\ CRLF # << >> /\ Len(CRLF) = 2
      /\ T \in Seq(Byte) /\ T # << >> /\ Len(T) = 4
      /\ \A p \in Int : At(s, p, CRLF) <=> p + 1 <= Len(s) /\ s[p] = CR /\ s[p + 1] = LF
      /\ \A p \in Int :
           At(s, p, T) <=> /\ p + 3 <= Len(s)
                           /\ s[p] = CR /\ s[p + 1] = LF /\ s[p + 2] = CR /\ s[p + 3] = LF
  BY TwoLines
<1>6. /\ L \in Seq(Byte) /\ L # << >> /\ Len(L) = 1
      /\ \A p \in Int : At(s, p, L) <=> p <= Len(s) /\ s[p] = LF
  BY ByteAssumption, OneByte
<1>7. /\ M \in Seq(Byte) /\ M # << >> /\ Len(M) = 2
      /\ \A p \in Int : At(s, p, M) <=> p + 1 <= Len(s) /\ s[p] = LF /\ s[p + 1] = LF
  BY ByteAssumption, TwoBytes
<1> HIDE DEF T, L, M
<1>8. LineEnd(s) = 2
  <2>1. At(s, 2, L)
    <3>1. 2 \in Int /\ 2 <= Len(s)
      BY <1>1
    <3> QED BY <1>6, <3>1
  <2>2. \A i \in 1..(2 + Len(L) - 1) : s[i] # NUL
    <3>1. \A i \in 1..(2 + Len(L) - 1) : i \in 1..(8 + n)
      BY <1>6
    <3> QED BY <1>3, <3>1
  <2>3. \A j \in 1..(2 - 1) : ~ At(s, j, L)
    <3>1. 1 \in Int /\ \A j \in 1..(2 - 1) : j = 1
      OBVIOUS
    <3> QED BY <1>6, <3>1, Distinct
  <2>4. 1 \in Nat \ {0} /\ 2 \in Nat /\ 1 <= 2
    OBVIOUS
  <2>5. strstr(s, 1, L) = 2
    BY ONLY s \in Seq(Byte), <1>6, <2>1, <2>2, <2>3, <2>4, StrstrIs
  <2> QED BY <2>5 DEF LineEnd, L
<1>9. strstr(s, 2, T) = 0
  <2> DEFINE j == strstr(s, 2, T)
  <2>1. 1 \in Nat \ {0} /\ 2 \in Nat \ {0} /\ 2 \in Nat /\ 1 <= 2 /\ 2 <= Len(s)
    BY <1>1
  <2>2. \A i \in 1..2 : s[i] # NUL
    BY <1>3
  <2>3. EndOf(s, 2) = EndOf(s, 1)
    BY ONLY s \in Seq(Byte), <2>1, <2>2, EndSame
  <2>4. EndOf(s, 1) \in Nat
    BY ONLY s \in Seq(Byte), <2>1, EndSays
  <2>5. /\ j \in Nat
        /\ j # 0 => j >= 2 /\ At(s, j, T) /\ j + Len(T) - 1 < EndOf(s, 2)
    BY ONLY s \in Seq(Byte), <1>5, <2>1, StrstrSays
  <2>6. \A i \in 1..(EndOf(s, 1) - Len(CRLF)) : ~ At(s, i, CRLF)
    BY ONLY s \in Seq(Byte), strstr(s, 1, CRLF) = 0, <1>5, <2>1, StrstrSays
  <2> HIDE DEF j
  <2>7. ASSUME j # 0 PROVE FALSE
    <3>1. j \in Int /\ j >= 1 /\ j + 3 < EndOf(s, 1)
      BY <1>5, <2>3, <2>4, <2>5, <2>7
    <3>2. j \in 1..(EndOf(s, 1) - Len(CRLF))
      BY <1>5, <2>4, <3>1
    <3>3. j + 1 <= Len(s) /\ s[j] = CR /\ s[j + 1] = LF
      BY <1>1, <1>5, <2>5, <2>7, <3>1
    <3>4. At(s, j, CRLF)
      BY <1>5, <3>1, <3>3
    <3> QED BY <2>6, <3>2, <3>4
  <2> QED BY <2>7 DEF j
<1>10. IsLinux(s)
  BY ONLY <1>8, <1>9 DEF IsLinux, T
<1>11. strstr(s, 2, M) = 7 + n
  <2> DEFINE q == 7 + n
  <2>1. q \in Nat /\ 2 <= q /\ 2 \in Nat \ {0}
    OBVIOUS
  <2>2. At(s, q, M)
    <3>1. q \in Int /\ q + 1 = 8 + n
      OBVIOUS
    <3> HIDE DEF q
    <3> QED BY <1>7, <3>1 DEF q
  <2>3. \A i \in 2..(q + Len(M) - 1) : s[i] # NUL
    <3>1. \A i \in 2..(q + Len(M) - 1) : i \in 1..(8 + n)
      BY <1>7
    <3> QED BY <1>3, <3>1
  <2>4. ASSUME NEW j \in 2..(q - 1) PROVE ~ At(s, j, M)
    <3>1. j \in Int /\ (j = 2 \/ j \in 3..(6 + n)) /\ 2 + 1 = 3
      OBVIOUS
    <3>2. CASE j = 2
      BY <1>7, <3>1, <3>2, Distinct
    <3>3. CASE j \in 3..(6 + n)
      BY <1>4, <1>7, <3>1, <3>3
    <3> QED BY <3>1, <3>2, <3>3
  <2> HIDE DEF q
  <2>5. \A j \in 2..(q - 1) : ~ At(s, j, M)
    BY <2>4
  <2>6. strstr(s, 2, M) = q
    BY ONLY s \in Seq(Byte), <1>7, <2>1, <2>2, <2>3, <2>5, StrstrIs
  <2> QED BY <2>6 DEF q
<1>12. HeaderEnd(s) = 7 + n
  BY ONLY <1>8, <1>10, <1>11 DEF HeaderEnd, M
<1>13. 7 + n + 2 = 9 + n
  OBVIOUS
<1>14. ContentAt(s) = 9 + n
  BY ONLY <1>10, <1>12, <1>13 DEF ContentAt
<1> QED BY <1>8, <1>10, <1>12, <1>14

\* If there is one, the first line runs into the content, is no boundary, and
\* does not come again in the body.
LEMMA NoEndLF ==
  ASSUME NEW s \in Seq(Byte), NEW n \in Nat, NEW d \in Nat, 12 + n + d <= Len(s),
         strstr(s, 1, CRLF) # 0,
         s[1] = Boundary, s[2] = LF,
         s[3] = "text", s[4] = FileNameKey, s[5] = Quote,
         \A j \in 6..(5 + n) : s[j] # CR,
         s[6 + n] = Quote, s[7 + n] = LF, s[8 + n] = LF,
         \A j \in (9 + n)..(8 + n + d) : s[j] # Boundary,
         s[9 + n + d] = LF, s[10 + n + d] = Boundary, s[11 + n + d] = "--"
  PROVE  HeaderEnd(s) # 0 => ContentEnd(s, 12 + n + d) = 0
<1> DEFINE p == strstr(s, 1, CRLF)
           T == CRLF \o CRLF
           M == <<LF, LF>>
           len == 12 + n + d
           b == boundary(s)
           a == ContentAt(s)
<1>1. Len(s) \in Nat /\ 1 \in Nat \ {0} /\ len \in Nat
  OBVIOUS
<1>2. CRLF \in Seq(Byte) /\ CRLF # << >> /\ Len(CRLF) = 2
      /\ T \in Seq(Byte) /\ T # << >>
      /\ \A q \in Int : At(s, q, CRLF) <=> q + 1 <= Len(s) /\ s[q] = CR /\ s[q + 1] = LF
  BY TwoLines
<1>3. M \in Seq(Byte) /\ M # << >>
  BY ByteAssumption, TwoBytes
<1> HIDE DEF T, M
<1>4. p \in Nat /\ p >= 1 /\ At(s, p, CRLF) /\ p + Len(CRLF) - 1 <= Len(s)
  BY ONLY s \in Seq(Byte), strstr(s, 1, CRLF) # 0, <1>1, <1>2, StrstrSays
<1>5. LineEnd(s) = p
  BY ONLY strstr(s, 1, CRLF) # 0 DEF LineEnd
<1> HIDE DEF p, len
<1>6. p >= 9 + n /\ p <= Len(s)
  <2>1. s[p] = CR
    BY <1>2, <1>4
  <2>2. p >= 9 + n \/ p = 1 \/ p = 2 \/ p = 3 \/ p = 4 \/ p = 5 \/ p \in 6..(5 + n)
        \/ p = 6 + n \/ p = 7 + n \/ p = 8 + n
    BY <1>4
  <2>3. p >= 9 + n
    BY <2>1, <2>2, Distinct
  <2> QED BY <1>1, <1>2, <1>4, <2>3
<1>7. /\ b \in Seq(Byte) /\ Len(b) = p - 1 /\ b[1] = Boundary /\ b[2] = LF
  <2>1. b = SubSeq(s, 1, p - 1)
    BY ONLY <1>5 DEF boundary
  <2>2. \A i \in 1..(p - 1) : s[i] \in Byte
    <3>1. \A i \in 1..(p - 1) : i \in 1..Len(s)
      BY ONLY <1>1, <1>4, <1>6
    <3>2. \A i \in 1..Len(s) : s[i] \in Byte
      BY ONLY s \in Seq(Byte)
    <3> QED BY ONLY <3>1, <3>2
  <2>3. /\ SubSeq(s, 1, p - 1) \in Seq(Byte)
        /\ Len(SubSeq(s, 1, p - 1)) = IF 1 <= p - 1 THEN p - 1 - 1 + 1 ELSE 0
        /\ \A i \in 1..(p - 1 - 1 + 1) : SubSeq(s, 1, p - 1)[i] = s[1 + i - 1]
    <3>1. p - 1 \in Int /\ 1 \in Int
      BY <1>4
    <3> QED BY ONLY <2>2, <3>1, SubSeqProperties
  <2>4. 1 \in 1..(p - 1 - 1 + 1) /\ 2 \in 1..(p - 1 - 1 + 1) /\ 1 + 1 - 1 = 1 /\ 1 + 2 - 1 = 2
    BY <1>4, <1>6
  <2>5. Len(SubSeq(s, 1, p - 1)) = p - 1
    BY <1>4, <1>6, <2>3
  <2>6. SubSeq(s, 1, p - 1)[1] = s[1] /\ SubSeq(s, 1, p - 1)[2] = s[2]
    BY ONLY <2>3, <2>4
  <2> HIDE DEF b
  <2> QED BY <2>1, <2>3, <2>5, <2>6
<1> HIDE DEF b
<1>8. ASSUME HeaderEnd(s) # 0 PROVE ContentEnd(s, len) = 0
  <2>1. HeaderEnd(s) \in Nat /\ HeaderEnd(s) >= p
    <3>1. p \in Nat \ {0}
      BY <1>4, <1>6
    <3>2. /\ strstr(s, p, T) \in Nat
          /\ strstr(s, p, T) # 0 => strstr(s, p, T) >= p
      BY ONLY s \in Seq(Byte), <1>2, <3>1, StrstrSays
    <3>3. /\ strstr(s, p, M) \in Nat
          /\ strstr(s, p, M) # 0 => strstr(s, p, M) >= p
      BY ONLY s \in Seq(Byte), <1>3, <3>1, StrstrSays
    <3>4. HeaderEnd(s) = strstr(s, p, T) \/ HeaderEnd(s) = strstr(s, p, M)
      BY ONLY <1>5 DEF HeaderEnd, T, M
    <3> QED BY ONLY <1>8, <3>2, <3>3, <3>4
  <2>2. a \in Nat \ {0} /\ a >= 9 + n
    <3>1. a = HeaderEnd(s) + 2 \/ a = HeaderEnd(s) + 4
      BY DEF ContentAt
    <3> HIDE DEF a
    <3> DEFINE h == HeaderEnd(s)
    <3>2. h \in Nat /\ h >= p /\ (a = h + 2 \/ a = h + 4)
      BY <2>1, <3>1
    <3> HIDE DEF h
    <3> QED BY ONLY n \in Nat, <1>4, <1>6, <3>2
  <2> HIDE DEF a
  <2> DEFINE l == len - (a - 1)
             m == memstr(s, a, l, b)
  <2>3. l \in Int
    BY <1>1, <2>2
  <2> HIDE DEF l
  <2>4. /\ m \in Nat
        /\ m # 0 => m >= a /\ At(s, m, b) /\ m + Len(b) <= a + l
    BY ONLY s \in Seq(Byte), <1>7, <2>2, <2>3, MemstrSays
  <2> HIDE DEF m
  <2>5. ASSUME m # 0 PROVE FALSE
    <3>1. m >= 9 + n /\ m + 1 <= 12 + n + d /\ m \in Nat
      BY <1>1, <1>4, <1>6, <1>7, <2>2, <2>4, <2>5 DEF l, len
    <3>2. s[m] = Boundary /\ s[m + 1] = LF
      <4>1. \A i \in DOMAIN b : s[m + i - 1] = b[i]
        BY ONLY <2>4, <2>5 DEF At
      <4>2. 1 \in DOMAIN b /\ 2 \in DOMAIN b /\ m + 1 - 1 = m /\ m + 2 - 1 = m + 1
        BY <1>4, <1>6, <1>7, <3>1
      <4> QED BY ONLY <1>7, <4>1, <4>2
    <3>3. \/ m \in (9 + n)..(8 + n + d) \/ m = 9 + n + d \/ m = 10 + n + d
          \/ m = 11 + n + d
      BY <3>1
    <3>4. m = 10 + n + d
      BY <3>2, <3>3, Distinct
    <3>5. m + 1 = 11 + n + d
      BY <3>4
    <3>6. s[11 + n + d] = LF
      BY ONLY <3>2, <3>5
    <3> QED BY <3>6, Distinct
  <2> QED BY <2>5 DEF ContentEnd, m, l, a, b
<1> QED BY <1>8 DEF len

\* A regular form of LF: the name is found, and the content if any is.
LEMMA ParseLF ==
  ASSUME NEW r \in Request, Regular(r), r.eol # CRLF, NEW s \in Seq(Byte), At(s, 1, Body(r))
  PROVE  /\ NameIn(s) = r.name
         /\ HeaderEnd(s) # 0 /\ ContentEnd(s, Len(Body(r))) # 0 =>
              /\ Written(s, Len(Body(r))) = r.data
              /\ ~ ContentLength(s, Len(Body(r))) < 0
<1> DEFINE n == Len(r.name)
           d == Len(r.data)
           len == Len(Body(r))
<1>1. n \in Nat /\ d \in Nat /\ len = 12 + n + d /\ 12 + n + d <= Len(s)
  BY BytesLF
<1>2. /\ s[1] = Boundary /\ s[2] = LF
      /\ s[3] = "text" /\ s[4] = FileNameKey /\ s[5] = Quote /\ s[6 + n] = Quote
      /\ s[7 + n] = LF /\ s[8 + n] = LF
  BY BytesLF
<1>3. /\ At(s, 6, r.name) /\ At(s, 9 + n, r.data)
      /\ s[9 + n + d] = LF /\ s[10 + n + d] = Boundary /\ s[11 + n + d] = "--"
  BY BytesLF
<1>4. r.name \in Seq(Byte) /\ r.data \in Seq(Byte) /\ n = Len(r.name) /\ d = Len(r.data)
  BY RequestType
<1> HIDE DEF n, d, len
<1>5. /\ \A j \in 6..(5 + n) : s[j] \notin {Quote, NUL, CR, LF}
      /\ \A i \in DOMAIN r.name : r.name[i] # Quote
  <2>1. 6 \in Nat \ {0} /\ 6 + n - 1 = 5 + n
    BY <1>1
  <2> QED BY <1>3, <1>4, <2>1, RegularName
<1>6. \A j \in (9 + n)..(8 + n + d) : s[j] # Boundary
  <2> DEFINE a == 9 + n
  <2>1. a \in Nat \ {0} /\ a + d - 1 = 8 + n + d
    BY <1>1
  <2> HIDE DEF a
  <2>2. \A j \in a..(a + d - 1) : s[j] # Boundary
    BY <1>3, <1>4, <2>1, RegularData DEF a
  <2> QED BY ONLY <2>1, <2>2 DEF a
<1>7. NameIn(s) = r.name
  <2>1. \A i \in 1..(4 - 1) : i = 1 \/ i = 2 \/ i = 3
    OBVIOUS
  <2>2. \A i \in 1..(4 - 1) : s[i] # FileNameKey /\ s[i] # NUL
    BY <1>2, <2>1, Distinct
  <2>3. /\ 4 \in Nat \ {0} /\ 4 + 2 = 6 /\ 4 + 1 = 5 /\ 4 + 2 + n <= Len(s)
    BY <1>1
  <2>4. At(s, 4 + 2, r.name) /\ s[4] = FileNameKey /\ s[4 + 1] = Quote /\ s[4 + 2 + n] = Quote
    BY ONLY <1>2, <1>3, <2>3
  <2> QED BY ONLY s \in Seq(Byte), <1>4, <1>5, <2>2, <2>3, <2>4, NameFound
<1>8. CASE strstr(s, 1, CRLF) # 0
  <2>1. \A j \in 6..(5 + n) : s[j] # CR
    BY ONLY <1>5
  <2>2. HeaderEnd(s) # 0 => ContentEnd(s, 12 + n + d) = 0
    BY ONLY s \in Seq(Byte), <1>1, <1>2, <1>3, <1>6, <1>8, <2>1, NoEndLF
  <2>3. HeaderEnd(s) # 0 => ContentEnd(s, len) = 0
    BY ONLY <1>1, <2>2
  <2> QED BY ONLY <1>7, <2>3 DEF len
<1>9. CASE strstr(s, 1, CRLF) = 0
  <2>1. \A j \in 6..(5 + n) : s[j] # NUL /\ s[j] # LF
    BY ONLY <1>5
  <2>2. 8 + n <= Len(s)
    BY <1>1
  <2>3. LineEnd(s) = 2 /\ IsLinux(s) /\ HeaderEnd(s) = 7 + n /\ ContentAt(s) = 9 + n
    BY ONLY s \in Seq(Byte), <1>1, <1>2, <1>9, <2>1, <2>2, HeaderLF
  <2> DEFINE a == 9 + n
             q == 10 + n + d
  <2>4. /\ a \in Nat \ {0} /\ q \in Nat /\ len \in Nat /\ a <= q /\ q <= len /\ len <= Len(s)
        /\ \A j \in a..(q - 1) : j \in (9 + n)..(8 + n + d) \/ j = 9 + n + d
        /\ q - a - 1 = d
    BY <1>1
  <2> HIDE DEF a, q
  <2>5. \A j \in a..(q - 1) : s[j] # Boundary
    BY <1>3, <1>6, <2>4, Distinct
  <2>6. s[q] = Boundary /\ ContentAt(s) = a
    BY ONLY <1>3, <2>3 DEF a, q
  <2>7. ContentEnd(s, len) = q
    BY ONLY s \in Seq(Byte), <1>2, <2>3, <2>4, <2>5, <2>6, ContentFound
  <2>8. ContentLength(s, len) = d
    <3>1. ContentLength(s, len) = q - a - 1
      BY ONLY <2>3, <2>6, <2>7, Zenon DEF ContentLength
    <3> QED BY ONLY <2>4, <3>1
  <2>9. SubSeq(s, a, a + d - 1) = r.data
    <3>1. At(s, a, r.data)
      BY ONLY <1>3 DEF a
    <3> QED BY ONLY s \in Seq(Byte), <1>4, <2>4, <3>1, AtCut
  <2>10. Written(s, len) = r.data
    BY ONLY <2>6, <2>8, <2>9 DEF Written
  <2>11. ~ ContentLength(s, len) < 0
    BY ONLY <1>1, <2>8
  <2> QED BY ONLY <1>7, <2>10, <2>11 DEF len
<1> QED BY <1>8, <1>9

-----------------------------------------------------------------------------
(* What is taken, of any body *)

\* A buffer is a sequence of bytes.
LEMMA BufferIsSeq ==
  ASSUME NEW k \in Nat, NEW s \in [1..k -> Byte]
  PROVE  s \in Seq(Byte) /\ Len(s) = k
OBVIOUS

\* A name lies in the buffer.
LEMMA NameInType ==
  ASSUME NEW s \in Seq(Byte), KeyAt(s) # 0
  PROVE  NameIn(s) \in Seq(Byte)
<1> DEFINE K == <<FileNameKey>>
           Q == <<Quote>>
           k == KeyAt(s)
           a == NameAt(s)
           e == NameEnd(s)
           S == {q \in a..Len(s) : s[q] = Quote}
<1>1. K \in Seq(Byte) /\ K # << >> /\ Q \in Seq(Byte) /\ Q # << >> /\ Len(s) \in Nat
  BY ByteAssumption, TokenAssumption, OneByte
<1>2. k \in Nat /\ k # 0
  <2>1. strstr(s, 1, K) \in Nat
    <3>1. 1 \in Nat \ {0}
      OBVIOUS
    <3> HIDE DEF K
    <3> QED BY ONLY s \in Seq(Byte), <1>1, <3>1, StrstrSays
  <2> QED BY <2>1 DEF KeyAt
<1>3. a \in Nat \ {0}
  <2>1. k + 1 \in Nat \ {0}
    BY <1>2
  <2> HIDE DEF Q, k
  <2>2. strstr(s, k + 1, Q) \in Nat
    BY ONLY s \in Seq(Byte), <1>1, <2>1, StrstrSays
  <2> QED BY <2>2 DEF NameAt, strchr, Q, k
<1> HIDE DEF K, Q, k, a
<1>4. e \in Nat /\ e <= Len(s) + 1
  <2>1. S \in SUBSET (Nat \ {0})
    BY <1>1, <1>3
  <2>2. First(S) \in Nat /\ (First(S) = 0 <=> S = {}) /\ (S # {} => First(S) \in S)
    <3> HIDE DEF S
    <3> QED BY ONLY <2>1, FirstSays
  <2>3. First(S) <= Len(s) + 1
    BY <1>1, <1>3, <2>2
  <2> QED BY <2>2, <2>3 DEF NameEnd, a
<1> HIDE DEF e
<1>5. \A i \in a..(e - 1) : s[i] \in Byte
  <2>1. \A i \in a..(e - 1) : i \in 1..Len(s)
    BY ONLY <1>1, <1>3, <1>4
  <2> QED BY <2>1
<1>6. a \in Int /\ e - 1 \in Int
  BY ONLY <1>3, <1>4
<1>7. SubSeq(s, a, e - 1) \in Seq(Byte)
  BY ONLY <1>5, <1>6, SubSeqProperties
<1> QED BY <1>7 DEF NameIn, a, e

\* file_name stays a buffer of its size.
LEMMA NamedType ==
  ASSUME NEW old \in [1..NameSize -> Byte], NEW name \in Seq(Byte)
  PROVE  Named(old, name) \in [1..NameSize -> Byte]
<1>1. NUL \in Byte
  BY ByteAssumption
<1> QED BY <1>1 DEF Named

\* A name that it has room for is in it, if it was clear.
LEMMA NamedClear ==
  ASSUME NEW old \in [1..NameSize -> Byte], \A i \in 1..NameSize : old[i] = NUL,
         NEW name \in Seq(Byte), Len(name) + 2 <= NameSize,
         \A i \in DOMAIN name : name[i] # NUL
  PROVE  CString(Named(old, name), 1) = name
<1> DEFINE s == Named(old, name)
           n == Len(name)
<1>1. n \in Nat /\ DOMAIN name = 1..n /\ NameSize \in Nat
  BY SizeAssumption
<1>2. s \in Seq(Byte) /\ Len(s) = NameSize
  <2>1. s \in [1..NameSize -> Byte]
    BY NamedType
  <2> HIDE DEF s
  <2> QED BY ONLY <1>1, <2>1, BufferIsSeq
<1>3. /\ \A i \in 1..n : s[i] = name[i]
      /\ s[n + 1] = NUL
  BY <1>1 DEF Named
<1> HIDE DEF s
<1>4. CString(s, 1) = SubSeq(s, 1, n)
  <2>1. n < Len(s) /\ \A i \in 1..n : s[i] # NUL
    BY <1>1, <1>2, <1>3
  <2> QED BY ONLY <1>1, <1>2, <1>3, <2>1, CStringIs
<1>5. SubSeq(s, 1, n) = name
  <2>1. At(s, 1, name)
    BY <1>1, <1>2, <1>3 DEF At
  <2>2. 1 + n - 1 = n /\ 1 \in Nat \ {0}
    BY <1>1
  <2>3. SubSeq(s, 1, 1 + n - 1) = name
    BY ONLY name \in Seq(Byte), <1>2, <2>1, <2>2, AtCut
  <2> QED BY <2>2, <2>3
<1> QED BY <1>4, <1>5 DEF s

\* The content lies in the body, whatever the buffer holds behind it.
LEMMA ContentWithin ==
  ASSUME NEW s \in Seq(Byte), NEW B \in Seq(Byte), At(s, 1, B),
         LineEnd(s) # 0, HeaderEnd(s) # 0, ContentEnd(s, Len(B)) # 0
  PROVE  /\ Written(s, Len(B)) \in Seq(Byte)
         /\ \E p \in 1..Len(B) : At(B, p, Written(s, Len(B)))
<1> DEFINE len == Len(B)
           T == CRLF \o CRLF
           M == <<LF, LF>>
           L == <<LF>>
           h == HeaderEnd(s)
           p == LineEnd(s)
           a == ContentAt(s)
           b == boundary(s)
           m == ContentEnd(s, len)
           c == ContentLength(s, len)
           u == Written(s, len)
<1>1. /\ T \in Seq(Byte) /\ T # << >> /\ M \in Seq(Byte) /\ M # << >>
      /\ L \in Seq(Byte) /\ L # << >> /\ CRLF \in Seq(Byte) /\ CRLF # << >>
  <2>1. L \in Seq(Byte) /\ L # << >> /\ M \in Seq(Byte) /\ M # << >>
    BY ByteAssumption, OneByte, TwoBytes
  <2> HIDE DEF L, M
  <2> QED BY <2>1, TwoLines
<1>2. len \in Nat /\ len <= Len(s) /\ \A i \in 1..len : s[i] = B[i] /\ s[i] \in Byte
  <2>1. len \in Nat /\ DOMAIN B = 1..len
    OBVIOUS
  <2>2. 1 + len - 1 <= Len(s) /\ \A i \in DOMAIN B : s[1 + i - 1] = B[i]
    BY DEF At
  <2>3. \A i \in 1..len : 1 + i - 1 = i
    OBVIOUS
  <2> QED BY <2>1, <2>2, <2>3
<1> HIDE DEF len, T, M, L
<1>3. p \in Nat \ {0} /\ p <= Len(s)
  <2>1. 1 \in Nat \ {0}
    OBVIOUS
  <2>2. /\ strstr(s, 1, CRLF) \in Nat /\ strstr(s, 1, L) \in Nat
        /\ strstr(s, 1, CRLF) # 0 => strstr(s, 1, CRLF) + Len(CRLF) - 1 <= Len(s)
        /\ strstr(s, 1, L) # 0 => strstr(s, 1, L) + Len(L) - 1 <= Len(s)
    BY ONLY s \in Seq(Byte), <1>1, <2>1, StrstrSays
  <2>3. Len(CRLF) = 2 /\ Len(L) = 1
    BY TwoLines, ByteAssumption, OneByte DEF L
  <2>4. p = strstr(s, 1, CRLF) \/ p = strstr(s, 1, L)
    BY ONLY DEF LineEnd, L
  <2> HIDE DEF p
  <2>5. p # 0
    BY DEF p
  <2> QED BY ONLY <2>2, <2>3, <2>4, <2>5, s \in Seq(Byte)
<1>4. h \in Nat \ {0}
  <2>1. strstr(s, p, T) \in Nat /\ strstr(s, p, M) \in Nat
    <3> HIDE DEF p
    <3> QED BY ONLY s \in Seq(Byte), <1>1, <1>3, StrstrSays
  <2>2. h = strstr(s, p, T) \/ h = strstr(s, p, M)
    BY ONLY DEF HeaderEnd, T, M
  <2>3. h # 0
    OBVIOUS
  <2> QED BY ONLY <2>1, <2>2, <2>3
<1>5. a \in Nat \ {0}
  <2>1. a = h + 2 \/ a = h + 4
    BY ONLY DEF ContentAt
  <2> QED BY ONLY <1>4, <2>1
<1>6. b \in Seq(Byte)
  <2>1. \A i \in 1..(p - 1) : s[i] \in Byte
    <3>1. \A i \in 1..(p - 1) : i \in 1..Len(s)
      BY ONLY <1>3, s \in Seq(Byte)
    <3> QED BY ONLY <3>1, s \in Seq(Byte)
  <2>2. p - 1 \in Int /\ 1 \in Int
    BY ONLY <1>3
  <2>3. SubSeq(s, 1, p - 1) \in Seq(Byte)
    BY ONLY <2>1, <2>2, SubSeqProperties
  <2> QED BY <2>3 DEF boundary
<1> HIDE DEF a, b
<1>7. m \in Nat /\ m >= a /\ m <= len
  <2> DEFINE l == len - (a - 1)
             k == memstr(s, a, l, b)
  <2>1. l \in Int
    BY ONLY <1>2, <1>5
  <2> HIDE DEF l
  <2>2. /\ k \in Nat
        /\ k # 0 => b # << >> /\ k >= a /\ k + Len(b) <= a + l
    BY ONLY s \in Seq(Byte), <1>5, <1>6, <2>1, MemstrSays
  <2>3. b # << >> => Len(b) \in Nat /\ Len(b) >= 1
    BY ONLY <1>6
  <2>4. m = k
    BY ONLY DEF ContentEnd, l, a, b
  <2>5. m # 0
    BY DEF len
  <2> HIDE DEF k, m
  <2> QED BY ONLY <1>2, <1>5, <2>2, <2>3, <2>4, <2>5 DEF l
<1> HIDE DEF m
<1>8. c \in Int /\ a + c - 1 <= len
  <2>1. c = m - a - 1 \/ c = m - a - 2
    BY ONLY Zenon DEF ContentLength, m, a
  <2> HIDE DEF c
  <2> QED BY ONLY <1>2, <1>5, <1>7, <2>1
<1> DEFINE z == a + c - 1
<1>9. u = SubSeq(s, a, z)
  BY ONLY DEF Written, a, c, z
<1> HIDE DEF c, u
<1>10. z \in Int /\ a \in Int /\ \A i \in a..z : s[i] \in Byte
  <2>1. z \in Int /\ a \in Int /\ \A i \in a..z : i \in 1..len
    BY ONLY <1>2, <1>5, <1>8
  <2> QED BY ONLY <1>2, <2>1
<1>11. /\ SubSeq(s, a, z) \in Seq(Byte)
       /\ Len(SubSeq(s, a, z)) = IF a <= z THEN z - a + 1 ELSE 0
       /\ \A i \in 1..(z - a + 1) : SubSeq(s, a, z)[i] = s[a + i - 1]
  <2> HIDE DEF z
  <2> QED BY ONLY <1>10, SubSeqProperties
<1>12. /\ u \in Seq(Byte) /\ DOMAIN u = 1..Len(u) /\ Len(u) \in Nat
       /\ Len(u) = IF a <= z THEN z - a + 1 ELSE 0
       /\ \A i \in 1..(z - a + 1) : u[i] = s[a + i - 1]
  BY ONLY <1>9, <1>11
<1>13. a \in 1..len
  BY ONLY <1>2, <1>5, <1>7
<1>14. a + Len(u) - 1 <= len
  BY ONLY <1>2, <1>5, <1>8, <1>12, <1>13
<1>15. \A i \in DOMAIN u : B[a + i - 1] = u[i]
  <2>1. \A i \in 1..Len(u) : i \in 1..(z - a + 1) /\ a + i - 1 \in 1..len
    BY ONLY <1>2, <1>5, <1>8, <1>12, <1>14
  <2> QED BY ONLY <1>2, <1>12, <2>1
<1>16. At(B, a, u)
  BY ONLY <1>14, <1>15 DEF At, len
<1> QED BY ONLY <1>12, <1>13, <1>16 DEF u, len

-----------------------------------------------------------------------------
(* The invariant *)

\* The body being served stands at the beginning of the buffer.
Held ==
  fpc \in {"parse", "saved"} => Len(Body(req)) < Size /\ At(text, 1, Body(req))

\* The name buffer is clear when a name is copied into it.
NameClear ==
  fpc \in {"accept", "parse"} => \A i \in 1..NameSize : fileName[i] = NUL

FormInv == FormTypeOK /\ Held /\ NameClear /\ OwnBytes /\ FileTaken /\ FileAccepted

LEMMA FormInitInv == FormInit => FormInv
<1> SUFFICES ASSUME FormInit PROVE FormInv
  OBVIOUS
<1>1. NUL \in Byte /\ << >> \in Seq(Byte)
  BY ByteAssumption
<1>2. FormTypeOK
  <2>1. NoRequest \in Request
    BY <1>1 DEF NoRequest, Request
  <2> QED BY <1>1, <2>1 DEF FormInit, FormTypeOK
<1>3. Held /\ NameClear /\ OwnBytes
  BY DEF FormInit, Held, NameClear, OwnBytes
<1>4. FileTaken /\ FileAccepted
  BY DEF FormInit, FileTaken, FileAccepted
<1> QED BY <1>2, <1>3, <1>4 DEF FormInv

\* A body that is read stands at the beginning of the buffer, and the rest of
\* it is that of the bodies before.
LEMMA AcceptKeeps ==
  ASSUME FormInv, NEW r \in Requests, Accept(r)
  PROVE  FormInv'
<1> DEFINE B == Body(r)
           s == [i \in 1..Size |-> IF i <= Len(B) THEN B[i] ELSE text[i]]
<1>1. r \in Request
  BY RequestsAssumption
<1>2. B \in Seq(Byte) /\ Len(B) \in Nat /\ DOMAIN B = 1..Len(B) /\ \A i \in 1..Len(B) : B[i] \in Byte
  <2>1. B \in Seq(Byte)
    BY <1>1, BodyType
  <2> HIDE DEF B
  <2> QED BY ONLY <2>1
<1>3. /\ fpc = "accept" /\ req' = r /\ fileName' = fileName /\ saved' = saved
      /\ names' = IF r.kind \in {"file", "fieldAndFile"} THEN names \cup {r.name} ELSE names
      /\ \/ Len(B) >= Size /\ fpc' = "undefined" /\ text' = text
         \/ ~ Len(B) >= Size /\ fpc' \in {"short", "parse"} /\ text' = s
  BY DEF Accept
<1> HIDE DEF B
<1>4. Size \in Nat
  BY SizeAssumption
<1>5. s \in [1..Size -> Byte]
  BY <1>2 DEF FormInv, FormTypeOK
<1>6. ~ Len(B) >= Size => Len(B) < Size /\ At(s, 1, B)
  <2> SUFFICES ASSUME ~ Len(B) >= Size PROVE Len(B) < Size /\ At(s, 1, B)
    OBVIOUS
  <2>1. Len(B) < Size /\ \A i \in 1..Len(B) : i \in 1..Size /\ i <= Len(B) /\ 1 + i - 1 = i
    BY ONLY <1>2, <1>4, ~ Len(B) >= Size
  <2>2. Len(s) = Size
    <3> HIDE DEF s
    <3> QED BY ONLY <1>4, <1>5, BufferIsSeq
  <2>3. \A i \in 1..Len(B) : s[i] = B[i]
    BY ONLY <2>1
  <2>4. 1 + Len(B) - 1 <= Len(s)
    BY ONLY <1>2, <1>4, <2>1, <2>2
  <2> HIDE DEF s
  <2> QED BY ONLY <1>2, <2>1, <2>3, <2>4 DEF At
<1> HIDE DEF s
<1>7. FormTypeOK'
  <2>1. r.name \in Seq(Byte)
    BY <1>1, RequestType
  <2>2. names' \subseteq Seq(Byte)
    BY <1>3, <2>1 DEF FormInv, FormTypeOK
  <2> QED BY <1>1, <1>3, <1>5, <2>2 DEF FormInv, FormTypeOK
<1>8. Held'
  BY <1>3, <1>6 DEF Held, B
<1>9. NameClear'
  BY <1>3 DEF FormInv, NameClear
<1>10. OwnBytes' /\ FileTaken'
  BY <1>3 DEF OwnBytes, FileTaken
<1>11. FileAccepted'
  <2>1. Len(B) < Size => fpc' \in {"short", "parse"}
    BY <1>2, <1>3, <1>4
  <2> QED BY <1>3, <2>1 DEF FileAccepted, B
<1> QED BY <1>7, <1>8, <1>9, <1>10, <1>11 DEF FormInv

\* A regular form that fits is found by all searches, and its name is the one
\* that open gets.
LEMMA RegularComplete ==
  ASSUME FormInv, fpc = "parse", Regular(req), req.eol = CRLF
  PROVE  /\ ~ NameUndefined /\ ~ BoundaryUndefined
         /\ Complete(text, Len(Body(req))) /\ LocalName(text) = req.name
<1>1. /\ req \in Request /\ text \in Seq(Byte) /\ At(text, 1, Body(req))
      /\ req.name \in Seq(Byte) /\ fileName \in [1..NameSize -> Byte]
      /\ \A i \in 1..NameSize : fileName[i] = NUL
  <2>1. req \in Request /\ text \in [1..Size -> Byte] /\ Size \in Nat
    BY SizeAssumption DEF FormInv, FormTypeOK
  <2> QED BY <2>1, BufferIsSeq, RequestType DEF FormInv, FormTypeOK, Held, NameClear
<1>2. /\ KeyAt(text) # 0 /\ strchr(text, KeyAt(text) + 1, Quote) # 0 /\ NameEnd(text) # 0
      /\ NameIn(text) = req.name
      /\ LineEnd(text) # 0 /\ Len(boundary(text)) = 1
      /\ HeaderEnd(text) # 0
      /\ ContentEnd(text, Len(Body(req))) # 0
  BY <1>1, ParseCRLF
<1>3. /\ Len(req.name) + 2 <= NameSize
      /\ \A i \in DOMAIN req.name : req.name[i] # NUL
  BY DEF Regular
<1>4. ~ NameUndefined
  <2>1. ~ Len(req.name) + 2 > NameSize
    <3>1. Len(req.name) \in Nat /\ NameSize \in Nat
      BY <1>1, SizeAssumption
    <3> QED BY ONLY <1>3, <3>1
  <2> QED BY ONLY <1>2, <2>1 DEF NameUndefined
<1>5. ~ BoundaryUndefined
  <2>1. ~ 1 >= BoundarySize
    BY SizeAssumption
  <2> QED BY ONLY <1>2, <2>1 DEF BoundaryUndefined
<1>6. LocalName(text) = req.name
  <2>1. CString(Named(fileName, req.name), 1) = req.name
    BY ONLY <1>1, <1>3, NamedClear
  <2> QED BY ONLY <1>2, <2>1 DEF LocalName
<1> QED BY ONLY <1>2, <1>4, <1>5, <1>6 DEF Complete

\* What is saved is the file of a regular form, and otherwise bytes of the body.
LEMMA SaveKeeps ==
  ASSUME FormInv, Save
  PROVE  FormInv'
<1> DEFINE len == Len(Body(req))
<1>0. PICK old \in Leftovers \cup {<< >>} :
        saved' = [name |-> LocalName(text), content |-> Content(text, len, old)]
  BY DEF Save
<1>1. /\ fpc = "parse" /\ ~ NameUndefined /\ Complete(text, len)
      /\ fileName' = Named(fileName, NameIn(text))
      /\ saved' = [name |-> LocalName(text), content |-> Content(text, len, old)]
      /\ fpc' = "saved" /\ req' = req /\ text' = text /\ names' = names
  BY <1>0 DEF Save
<1>2. /\ req \in Request /\ text \in Seq(Byte) /\ Body(req) \in Seq(Byte)
      /\ At(text, 1, Body(req)) /\ len < Size
      /\ fileName \in [1..NameSize -> Byte] /\ NameSize \in Nat
  <2>1. req \in Request /\ text \in [1..Size -> Byte] /\ Size \in Nat /\ NameSize \in Nat
    BY SizeAssumption DEF FormInv, FormTypeOK
  <2> QED BY <1>1, <2>1, BufferIsSeq, BodyType DEF FormInv, FormTypeOK, Held
<1>3. /\ KeyAt(text) # 0 /\ LineEnd(text) # 0 /\ HeaderEnd(text) # 0
      /\ ContentEnd(text, len) # 0
  BY ONLY <1>1 DEF Complete
<1>4. NameIn(text) \in Seq(Byte)
  BY ONLY <1>2, <1>3, NameInType
<1>5. Named(fileName, NameIn(text)) \in [1..NameSize -> Byte]
  BY ONLY <1>2, <1>4, NamedType
<1>6. LocalName(text) \in Seq(Byte)
  <2>1. Named(fileName, NameIn(text)) \in Seq(Byte)
    BY ONLY <1>2, <1>5, BufferIsSeq
  <2> QED BY ONLY <2>1, CStringType DEF LocalName
<1>7. /\ Written(text, len) \in Seq(Byte)
      /\ \E p \in 1..len : At(Body(req), p, Written(text, len))
  BY ONLY <1>2, <1>3, ContentWithin
<1>13. Content(text, len, old) \in Seq(Byte)
  <2>1. old \in Seq(Byte)
    <3>1. old \in Leftovers \/ old = << >>
      OBVIOUS
    <3>2. << >> \in Seq(Byte)
      OBVIOUS
    <3> QED BY ONLY <3>1, <3>2, LeftoversAssumption
  <2> QED BY ONLY <1>7, <2>1 DEF Content
<1>14. \/ \E p \in 1..len : At(Body(req), p, Content(text, len, old))
       \/ ContentLength(text, len) < 0 /\ Content(text, len, old) \in Leftovers
  <2>1. CASE ~ ContentLength(text, len) < 0
    BY ONLY <1>7, <2>1 DEF Content
  <2>2. CASE ContentLength(text, len) < 0 /\ old \in Leftovers
    BY ONLY <2>2 DEF Content
  <2>3. CASE ContentLength(text, len) < 0 /\ old = << >>
    <3>1. PICK p \in 1..len : At(Body(req), p, Written(text, len))
      BY <1>7
    <3>2. At(Body(req), p, << >>)
      <4>1. p + 0 - 1 <= Len(Body(req)) /\ Len(<< >>) = 0 /\ DOMAIN << >> = {}
        BY <1>2
      <4> QED BY ONLY <4>1 DEF At
    <3>3. Content(text, len, old) = << >>
      BY ONLY <2>3 DEF Content
    <3> QED BY <3>2, <3>3
  <2> QED BY <2>1, <2>2, <2>3
<1>8. FormTypeOK'
  BY <1>1, <1>5, <1>6, <1>13 DEF FormInv, FormTypeOK
<1>9. Held' /\ NameClear'
  BY <1>1, <1>2 DEF Held, NameClear
<1>10. OwnBytes'
  <2>1. ContentLength(text, len)' = ContentLength(text, len)
    BY ONLY <1>1 DEF ContentLength, ContentEnd, ContentAt, HeaderEnd, IsLinux, LineEnd, boundary
  <2>2. saved'.content = Content(text, len, old) /\ Body(req)' = Body(req)
    BY ONLY <1>1
  <2> QED BY <1>14, <2>1, <2>2 DEF OwnBytes
<1>11. FileTaken'
  <2> SUFFICES ASSUME Regular(req)
               PROVE  LocalName(text) = req.name /\ Content(text, len, old) = req.data
    BY <1>1 DEF FileTaken, Regular
  <2>1. /\ NameIn(text) = req.name /\ Written(text, len) = req.data
        /\ ~ ContentLength(text, len) < 0
    <3>1. CASE req.eol = CRLF
      BY ONLY <1>2, <3>1, Regular(req), ParseCRLF
    <3>2. CASE req.eol # CRLF
      BY ONLY <1>2, <1>3, <3>2, Regular(req), ParseLF
    <3> QED BY <3>1, <3>2
  <2>2. /\ req.name \in Seq(Byte) /\ Len(req.name) + 2 <= NameSize
        /\ \A i \in DOMAIN req.name : req.name[i] # NUL
    BY <1>2, RequestType DEF Regular
  <2>3. \A i \in 1..NameSize : fileName[i] = NUL
    BY <1>1 DEF FormInv, NameClear
  <2>4. CString(Named(fileName, req.name), 1) = req.name
    BY ONLY <1>2, <2>2, <2>3, NamedClear
  <2> QED BY ONLY <2>1, <2>4 DEF LocalName, Content
<1>12. FileAccepted'
  BY <1>1 DEF FileAccepted
<1> QED BY <1>8, <1>9, <1>10, <1>11, <1>12 DEF FormInv

\* A regular form is not refused.
LEMMA RefuseKeeps ==
  ASSUME FormInv, ParseUndefined \/ Reject
  PROVE  FormInv'
<1>1. /\ fpc = "parse" /\ fpc' \in {"undefined", "rejected"}
      /\ req' = req /\ text' = text /\ fileName' = fileName /\ saved' = saved /\ names' = names
  BY DEF ParseUndefined, Reject
<1>2. ~ (Regular(req) /\ req.eol = CRLF /\ ~ MayNotOpen(req.name))
  BY <1>1, RegularComplete DEF ParseUndefined, Reject
<1>3. FormTypeOK'
  BY <1>1 DEF FormInv, FormTypeOK
<1>4. Held' /\ NameClear' /\ OwnBytes' /\ FileTaken'
  BY <1>1 DEF Held, NameClear, OwnBytes, FileTaken
<1>5. FileAccepted'
  BY <1>1, <1>2 DEF FileAccepted, Regular
<1> QED BY <1>3, <1>4, <1>5 DEF FormInv

\* The buffers are cleared.
LEMMA FinishKeeps ==
  ASSUME FormInv, Finish
  PROVE  FormInv'
<1>1. /\ fileName' = ClearedName(fileName) /\ text' = ClearedText(text)
      /\ fpc = "saved" /\ fpc' = "accept"
      /\ req' = req /\ saved' = saved /\ names' = names
  BY DEF Finish
<1>2. FormTypeOK'
  <2>1. NUL \in Byte
    BY ByteAssumption
  <2>2. ClearedName(fileName) \in [1..NameSize -> Byte] /\ ClearedText(text) \in [1..Size -> Byte]
    BY <2>1 DEF FormInv, FormTypeOK, ClearedName, ClearedText
  <2> QED BY <1>1, <2>2 DEF FormInv, FormTypeOK
<1>3. NameClear'
  BY <1>1 DEF NameClear, ClearedName
<1>4. Held' /\ OwnBytes' /\ FileTaken' /\ FileAccepted'
  BY <1>1 DEF Held, OwnBytes, FileTaken, FileAccepted
<1> QED BY <1>2, <1>3, <1>4 DEF FormInv

LEMMA FailKeeps ==
  ASSUME FormInv, Fail \/ UNCHANGED formVars
  PROVE  FormInv'
<1>1. /\ fpc' = fpc \/ fpc' = "failed"
      /\ req' = req /\ text' = text /\ fileName' = fileName /\ saved' = saved /\ names' = names
  BY DEF Fail, formVars
<1>2. FormTypeOK'
  BY <1>1 DEF FormInv, FormTypeOK
<1>3. Held' /\ NameClear' /\ OwnBytes'
  BY <1>1 DEF FormInv, Held, NameClear, OwnBytes
<1>4. FileTaken' /\ FileAccepted'
  BY <1>1 DEF FormInv, FileTaken, FileAccepted, Regular
<1> QED BY <1>2, <1>3, <1>4 DEF FormInv

\* Every step of the worker keeps the invariant.
LEMMA FormStep == FormInv /\ [FormNext]_formVars => FormInv'
<1> SUFFICES ASSUME FormInv, [FormNext]_formVars PROVE FormInv'
  OBVIOUS
<1>1. ASSUME NEW r \in Requests, Accept(r) PROVE FormInv'
  BY <1>1, AcceptKeeps
<1>2. CASE ParseUndefined \/ Reject
  BY <1>2, RefuseKeeps
<1>3. CASE Save
  BY <1>3, SaveKeeps
<1>4. CASE Finish
  BY <1>4, FinishKeeps
<1>5. CASE Fail \/ UNCHANGED formVars
  BY <1>5, FailKeeps
<1> QED BY <1>1, <1>2, <1>3, <1>4, <1>5 DEF FormNext

\* The invariant holds of every run of the worker.
LEMMA FormAlways == FormSpec => []FormInv
BY FormInitInv, FormStep, PTL DEF FormSpec

\* Every variable keeps its type: the name and the text stay buffers of their
\* sizes, whatever body the code of fiel_source_get takes apart.
THEOREM FormTypeCorrect == FormSpec => []FormTypeOK
<1>1. FormInv => FormTypeOK
  BY DEF FormInv
<1> QED BY <1>1, FormAlways, PTL

\* What fiel_source_get writes to the local file are bytes of the body being
\* served, for any body, any sizes and anything left in text_source.
THEOREM BytesAreOwn == FormSpec => []OwnBytes
<1>1. FormInv => OwnBytes
  BY DEF FormInv
<1> QED BY <1>1, FormAlways, PTL

\* The file of a browser's form is taken under its name and with its bytes,
\* for names and contents of any length, with either kind of line end.
THEOREM FilesTaken == FormSpec => []FileTaken
<1>1. FormInv => FileTaken
  BY DEF FormInv
<1> QED BY <1>1, FormAlways, PTL

\* Such a form with line ends CR LF that fits the buffer is never refused and
\* never takes the worker into undefined behaviour.
THEOREM FilesAccepted == FormSpec => []FileAccepted
<1>1. FormInv => FileAccepted
  BY DEF FormInv
<1> QED BY <1>1, FormAlways, PTL

-----------------------------------------------------------------------------
(* The name of a form with a field, which is looked for in older bodies *)

NoKey == Byte \ {FileNameKey}
NoKeyNoNul == Byte \ {FileNameKey, NUL}

\* The text b holds one filename=, with the name n between quotes behind it
\* and no zero byte in front of it.
KeyedAt(b, k, n) ==
  /\ k + 2 + Len(n) <= Len(b)
  /\ \A i \in 1..(k - 1) : b[i] \notin {FileNameKey, NUL}
  /\ b[k] = FileNameKey /\ b[k + 1] = Quote /\ b[k + 2 + Len(n)] = Quote
  /\ \A j \in 1..Len(n) : b[k + 1 + j] = n[j]
  /\ \A i \in 1..Len(b) : b[i] = FileNameKey => i = k
Keyed(b, n) == \E k \in Nat \ {0} : KeyedAt(b, k, n)

\* The bytes of two texts, one behind the other
LEMMA Concatenated ==
  ASSUME NEW S, NEW s \in Seq(S), NEW t \in Seq(S)
  PROVE  /\ s \o t \in Seq(S) /\ Len(s \o t) = Len(s) + Len(t)
         /\ Len(s) \in Nat /\ Len(t) \in Nat
         /\ \A i \in 1..Len(s) : (s \o t)[i] = s[i]
         /\ \A i \in 1..Len(t) : (s \o t)[Len(s) + i] = t[i]
OBVIOUS

\* A piece without a key may be put behind it ...
LEMMA KeyedThen ==
  ASSUME NEW b \in Seq(Byte), NEW n \in Seq(Byte), Keyed(b, n), NEW z \in Seq(NoKey)
  PROVE  b \o z \in Seq(Byte) /\ Keyed(b \o z, n)
<1> DEFINE c == b \o z
<1>1. PICK k \in Nat \ {0} : KeyedAt(b, k, n)
  BY DEF Keyed
<1>2. z \in Seq(Byte) /\ \A i \in 1..Len(z) : z[i] # FileNameKey
  BY DEF NoKey
<1>3. /\ c \in Seq(Byte) /\ Len(c) = Len(b) + Len(z)
      /\ Len(b) \in Nat /\ Len(z) \in Nat /\ Len(n) \in Nat
      /\ \A i \in 1..Len(b) : c[i] = b[i]
      /\ \A i \in 1..Len(z) : c[Len(b) + i] = z[i]
  BY <1>2, Concatenated
<1> HIDE DEF c
<1>a. /\ k + 2 + Len(n) <= Len(b)
      /\ \A i \in 1..Len(b) : b[i] = FileNameKey => i = k
  BY ONLY <1>1 DEF KeyedAt
<1>4. k + 2 + Len(n) <= Len(c)
  BY ONLY <1>3, <1>a, k \in Nat
<1>5. \A i \in 1..(k + 2 + Len(n)) : c[i] = b[i]
  <2>1. \A i \in 1..(k + 2 + Len(n)) : i \in 1..Len(b)
    BY ONLY <1>3, <1>a, k \in Nat
  <2> QED BY ONLY <1>3, <2>1
<1>6. ASSUME NEW i \in 1..Len(c), c[i] = FileNameKey PROVE i = k
  <2>1. CASE i <= Len(b)
    <3>1. i \in 1..Len(b)
      BY ONLY <1>3, <2>1, i \in 1..Len(c)
    <3> QED BY ONLY <1>3, <1>6, <1>a, <3>1
  <2>2. CASE i > Len(b)
    <3>1. i - Len(b) \in 1..Len(z) /\ Len(b) + (i - Len(b)) = i
      BY <1>3, <2>2
    <3> QED BY <1>2, <1>3, <1>6, <3>1
  <2> QED BY <1>3, <2>1, <2>2
<1>7. /\ \A i \in 1..(k - 1) : i \in 1..(k + 2 + Len(n))
      /\ k \in 1..(k + 2 + Len(n)) /\ k + 1 \in 1..(k + 2 + Len(n))
      /\ k + 2 + Len(n) \in 1..(k + 2 + Len(n))
      /\ \A j \in 1..Len(n) : k + 1 + j \in 1..(k + 2 + Len(n))
  BY <1>3
<1>8. KeyedAt(c, k, n)
  BY <1>1, <1>4, <1>5, <1>6, <1>7 DEF KeyedAt
<1> QED BY <1>3, <1>8 DEF c, Keyed

\* ... and one without a key or a zero byte in front of it.
LEMMA KeyedAfter ==
  ASSUME NEW b \in Seq(Byte), NEW n \in Seq(Byte), Keyed(b, n), NEW a \in Seq(NoKeyNoNul)
  PROVE  a \o b \in Seq(Byte) /\ Keyed(a \o b, n)
<1> DEFINE c == a \o b
           l == Len(a)
<1>1. PICK k \in Nat \ {0} : KeyedAt(b, k, n)
  BY DEF Keyed
<1>2. a \in Seq(Byte) /\ \A i \in 1..Len(a) : a[i] \notin {FileNameKey, NUL}
  BY DEF NoKeyNoNul
<1>3. /\ c \in Seq(Byte) /\ Len(c) = l + Len(b)
      /\ Len(b) \in Nat /\ l \in Nat /\ Len(n) \in Nat
      /\ \A i \in 1..l : c[i] = a[i]
      /\ \A i \in 1..Len(b) : c[l + i] = b[i]
  BY <1>2, Concatenated
<1>4. \A i \in 1..l : c[i] \notin {FileNameKey, NUL}
  BY <1>2, <1>3
<1> HIDE DEF c, l
<1>a. /\ k + 2 + Len(n) <= Len(b)
      /\ \A i \in 1..(k - 1) : b[i] \notin {FileNameKey, NUL}
      /\ \A i \in 1..Len(b) : b[i] = FileNameKey => i = k
      /\ b[k] = FileNameKey /\ b[k + 1] = Quote /\ b[k + 2 + Len(n)] = Quote
      /\ \A j \in 1..Len(n) : b[k + 1 + j] = n[j]
  BY ONLY <1>1 DEF KeyedAt
<1>5. l + k + 2 + Len(n) <= Len(c) /\ l + k \in Nat \ {0}
  BY ONLY <1>3, <1>a, k \in Nat \ {0}
<1>6. \A i \in 1..(k + 2 + Len(n)) : c[l + i] = b[i]
  <2>1. \A i \in 1..(k + 2 + Len(n)) : i \in 1..Len(b)
    BY ONLY <1>3, <1>a, k \in Nat
  <2> QED BY ONLY <1>3, <2>1
<1>7. ASSUME NEW i \in 1..(l + k - 1) PROVE c[i] \notin {FileNameKey, NUL}
  <2>1. CASE i > l
    <3>1. i - l \in 1..(k - 1) /\ i - l \in 1..(k + 2 + Len(n)) /\ l + (i - l) = i
      BY <1>3, <2>1
    <3> QED BY ONLY <1>6, <1>a, <3>1
  <2> QED BY <1>3, <1>4, <2>1
<1>8. ASSUME NEW i \in 1..Len(c), c[i] = FileNameKey PROVE i = l + k
  <2>1. i > l
    BY <1>3, <1>4, <1>8
  <2>2. i - l \in 1..Len(b) /\ l + (i - l) = i
    BY <1>3, <2>1
  <2>3. i - l = k
    <3>1. b[i - l] = FileNameKey
      BY ONLY <1>3, <1>8, <2>2
    <3> QED BY ONLY <1>a, <2>2, <3>1
  <2> QED BY <1>3, <2>3
<1>9. /\ k \in 1..(k + 2 + Len(n)) /\ k + 1 \in 1..(k + 2 + Len(n))
      /\ k + 2 + Len(n) \in 1..(k + 2 + Len(n))
      /\ l + (k + 1) = l + k + 1 /\ l + (k + 2 + Len(n)) = l + k + 2 + Len(n)
      /\ \A j \in 1..Len(n) : k + 1 + j \in 1..(k + 2 + Len(n)) /\ l + (k + 1 + j) = l + k + 1 + j
  BY <1>3
<1>10. KeyedAt(c, l + k, n)
  <2>1. c[l + k] = FileNameKey /\ c[l + k + 1] = Quote /\ c[l + k + 2 + Len(n)] = Quote
    BY ONLY <1>6, <1>9, <1>a
  <2>2. \A j \in 1..Len(n) : c[l + k + 1 + j] = n[j]
    BY ONLY <1>6, <1>9, <1>a
  <2>3. ASSUME NEW m, m = l + k PROVE KeyedAt(c, m, n)
    <3>1. m + 2 + Len(n) <= Len(c)
      BY ONLY <1>5, <2>3
    <3>2. \A i \in 1..(m - 1) : c[i] \notin {FileNameKey, NUL}
      BY ONLY <1>3, <1>7, <2>3, k \in Nat
    <3>3. \A i \in 1..Len(c) : c[i] = FileNameKey => i = m
      BY ONLY <1>8, <2>3
    <3>4. c[m] = FileNameKey /\ c[m + 1] = Quote /\ c[m + 2 + Len(n)] = Quote
      BY ONLY <2>1, <2>3
    <3>5. \A j \in 1..Len(n) : c[m + 1 + j] = n[j]
      BY ONLY <2>2, <2>3
    <3> QED BY ONLY <3>1, <3>2, <3>3, <3>4, <3>5 DEF KeyedAt
  <2> QED BY <2>3
<1> QED BY <1>3, <1>5, <1>10 DEF c, Keyed

\* The pieces of a body that are neither a name nor a content
LEMMA PlainPieces ==
  ASSUME NEW r \in Request
  PROVE  /\ <<Boundary>> \in Seq(NoKeyNoNul) /\ <<"text">> \in Seq(NoKeyNoNul)
         /\ r.eol \in Seq(NoKeyNoNul) /\ Closing \in Seq(NoKeyNoNul)
         /\ FieldPart(r) \in Seq(NoKeyNoNul)
<1>1. {Boundary, "text", "--", CR, LF, Quote} \subseteq NoKeyNoNul
  BY ByteAssumption, TokenAssumption
     DEF NoKeyNoNul, Boundary, FileNameKey, CR, LF, NUL, Quote
<1> DEFINE T == <<"text">>
           B == <<Boundary>>
<1>2. T \in Seq(NoKeyNoNul) /\ B \in Seq(NoKeyNoNul) /\ Closing \in Seq(NoKeyNoNul)
  BY <1>1 DEF Closing
<1>3. r.eol \in Seq(NoKeyNoNul)
  <2> DEFINE L == <<LF>>
  <2>1. CRLF \in Seq(NoKeyNoNul) /\ L \in Seq(NoKeyNoNul)
    BY <1>1 DEF CRLF
  <2> HIDE DEF L
  <2>2. r.eol = CRLF \/ r.eol = L
    BY DEF Request, L
  <2> QED BY ONLY <2>1, <2>2
<1>4. FieldPart(r) \in Seq(NoKeyNoNul)
  <2> HIDE DEF T
  <2>1. T \o r.eol \o r.eol \o T \o r.eol \in Seq(NoKeyNoNul)
    BY <1>2, <1>3
  <2> QED BY <2>1 DEF FieldPart, T
<1> QED BY <1>2, <1>3, <1>4

\* A form with a field alone holds no filename=.
LEMMA FieldBody ==
  ASSUME NEW r \in Request, r.kind = "field"
  PROVE  Body(r) \in Seq(NoKeyNoNul) /\ Len(Body(r)) >= 1
<1> DEFINE B == <<Boundary>>
           F == FieldPart(r)
           c == B \o r.eol \o F \o Closing \o r.eol
<1>1. Body(r) = c
  BY DEF Body
<1>2. /\ B \in Seq(NoKeyNoNul) /\ r.eol \in Seq(NoKeyNoNul) /\ Closing \in Seq(NoKeyNoNul)
      /\ F \in Seq(NoKeyNoNul) /\ Len(B) = 1
  BY PlainPieces
<1> HIDE DEF B, F
<1> DEFINE b1 == B \o r.eol
           b2 == b1 \o F
           b3 == b2 \o Closing
<1>3. b1 \in Seq(NoKeyNoNul) /\ Len(b1) >= 1 /\ Len(b1) \in Nat
  BY ONLY <1>2, Concatenated
<1> HIDE DEF b1
<1>4. b2 \in Seq(NoKeyNoNul) /\ Len(b2) >= 1 /\ Len(b2) \in Nat
  BY ONLY <1>2, <1>3, Concatenated
<1> HIDE DEF b2
<1>5. b3 \in Seq(NoKeyNoNul) /\ Len(b3) >= 1 /\ Len(b3) \in Nat
  BY ONLY <1>2, <1>4, Concatenated
<1> HIDE DEF b3
<1>6. b3 \o r.eol \in Seq(NoKeyNoNul) /\ Len(b3 \o r.eol) >= 1
  BY ONLY <1>2, <1>5, Concatenated
<1> QED BY <1>1, <1>6 DEF b1, b2, b3

\* A form with a file holds one, and the file's name behind it.
LEMMA FileBody ==
  ASSUME NEW r \in Request, r.kind \in {"file", "fieldAndFile"},
         \A i \in DOMAIN r.name : r.name[i] # FileNameKey,
         \A i \in DOMAIN r.data : r.data[i] # FileNameKey
  PROVE  Keyed(Body(r), r.name)
<1> DEFINE P1 == <<"text", FileNameKey, Quote>>
           Q == <<Quote>>
           B == <<Boundary>>
           n == r.name
<1>1. n \in Seq(Byte) /\ Len(n) \in Nat /\ DOMAIN n = 1..Len(n)
  BY RequestType
<1>2. /\ B \in Seq(NoKeyNoNul) /\ r.eol \in Seq(NoKeyNoNul) /\ Closing \in Seq(NoKeyNoNul)
      /\ FieldPart(r) \in Seq(NoKeyNoNul)
  BY PlainPieces
<1>3. \A s \in Seq(NoKeyNoNul) : s \in Seq(NoKey)
  BY DEF NoKey, NoKeyNoNul
<1>4. r.eol \in Seq(NoKey) /\ Closing \in Seq(NoKey)
  BY <1>2, <1>3
<1>5. r.data \in Seq(NoKey)
  <2>1. r.data \in Seq(Byte)
    BY RequestType
  <2>2. \A i \in 1..Len(r.data) : r.data[i] \in NoKey
    BY <2>1 DEF NoKey
  <2> QED BY <2>1, <2>2
<1>6. /\ P1 \in Seq(Byte) /\ Len(P1) = 3 /\ P1[1] = "text" /\ P1[2] = FileNameKey /\ P1[3] = Quote
      /\ Q \in Seq(Byte) /\ Len(Q) = 1 /\ Q[1] = Quote
  BY ByteAssumption, TokenAssumption
<1> HIDE DEF P1, Q, B, n
<1> DEFINE c == P1 \o n \o Q
<1>7. /\ c \in Seq(Byte) /\ Len(c) = 4 + Len(n)
      /\ c[1] = "text" /\ c[2] = FileNameKey /\ c[3] = Quote /\ c[4 + Len(n)] = Quote
      /\ \A j \in 1..Len(n) : c[3 + j] = n[j]
  <2> DEFINE d == P1 \o n
  <2>1. /\ d \in Seq(Byte) /\ Len(d) = 3 + Len(n) /\ \A i \in 1..3 : d[i] = P1[i]
        /\ \A j \in 1..Len(n) : d[3 + j] = n[j]
    <3>1. P1 \in Seq(Byte) /\ n \in Seq(Byte)
      BY ONLY <1>1, <1>6
    <3> HIDE DEF d
    <3>2. /\ P1 \o n \in Seq(Byte) /\ Len(P1 \o n) = Len(P1) + Len(n)
          /\ \A i \in 1..Len(P1) : (P1 \o n)[i] = P1[i]
          /\ \A i \in 1..Len(n) : (P1 \o n)[Len(P1) + i] = n[i]
      BY ONLY <3>1, Concatenated
    <3>3. Len(P1) = 3 /\ d = P1 \o n
      BY <1>6 DEF d
    <3> QED BY ONLY <3>2, <3>3
  <2> HIDE DEF d
  <2>2. /\ d \o Q \in Seq(Byte) /\ Len(d \o Q) = 4 + Len(n)
        /\ \A i \in 1..(3 + Len(n)) : (d \o Q)[i] = d[i]
        /\ (d \o Q)[4 + Len(n)] = Q[1]
    <3>1. /\ d \o Q \in Seq(Byte) /\ Len(d \o Q) = Len(d) + Len(Q)
          /\ \A i \in 1..Len(d) : (d \o Q)[i] = d[i]
          /\ \A i \in 1..Len(Q) : (d \o Q)[Len(d) + i] = Q[i]
      <4>1. d \in Seq(Byte) /\ Q \in Seq(Byte)
        BY ONLY <1>6, <2>1
      <4> QED BY ONLY <4>1, Concatenated
    <3>2. Len(d) + Len(Q) = 4 + Len(n) /\ 1 \in 1..Len(Q) /\ Len(d) + 1 = 4 + Len(n)
      BY ONLY <1>1, <1>6, <2>1
    <3> QED BY ONLY <2>1, <3>1, <3>2
  <2>3. 1 \in 1..3 /\ 2 \in 1..3 /\ 3 \in 1..3 /\ \A i \in 1..3 : i \in 1..(3 + Len(n))
    BY <1>1
  <2>4. \A j \in 1..Len(n) : 3 + j \in 1..(3 + Len(n))
    BY <1>1
  <2>5. c = d \o Q
    BY DEF d
  <2> HIDE DEF c
  <2> QED BY <1>6, <2>1, <2>2, <2>3, <2>4, <2>5
<1>8. Keyed(c, n)
  <2> HIDE DEF c
  <2>1. "text" \notin {FileNameKey, NUL} /\ Quote # FileNameKey
    BY DEF FileNameKey, NUL, Quote
  <2>2. ASSUME NEW i \in 1..Len(c), c[i] = FileNameKey PROVE i = 2
    <3>1. CASE i \in 4..(3 + Len(n))
      <4>1. i - 3 \in 1..Len(n) /\ 3 + (i - 3) = i
        BY <1>1, <3>1
      <4>2. n[i - 3] # FileNameKey
        BY <1>1, <4>1 DEF n
      <4> QED BY <1>7, <2>2, <4>1, <4>2
    <3>2. CASE i \notin 4..(3 + Len(n))
      <4>1. i = 1 \/ i = 2 \/ i = 3 \/ i = 4 + Len(n)
        BY <1>1, <1>7, <3>2
      <4> QED BY <1>7, <2>1, <2>2, <4>1
    <3> QED BY <3>1, <3>2
  <2>3. KeyedAt(c, 2, n)
    <3>1. \A i \in 1..(2 - 1) : i = 1
      OBVIOUS
    <3>2. /\ 2 + 2 + Len(n) = 4 + Len(n) /\ 2 + 1 = 3
          /\ \A j \in 1..Len(n) : 2 + 1 + j = 3 + j
      BY <1>1
    <3>3. 2 + 2 + Len(n) <= Len(c)
      BY <1>1, <1>7
    <3> QED BY <1>7, <2>1, <2>2, <3>1, <3>2, <3>3 DEF KeyedAt
  <2> QED BY <2>3 DEF Keyed
<1> HIDE DEF c
<1> DEFINE F == c \o r.eol \o r.eol \o r.data \o r.eol
<1>9. F \in Seq(Byte) /\ Keyed(F, n)
  <2>1. c \o r.eol \in Seq(Byte) /\ Keyed(c \o r.eol, n)
    BY ONLY <1>1, <1>4, <1>7, <1>8, KeyedThen
  <2>2. c \o r.eol \o r.eol \in Seq(Byte) /\ Keyed(c \o r.eol \o r.eol, n)
    BY ONLY <1>1, <1>4, <2>1, KeyedThen
  <2>3. c \o r.eol \o r.eol \o r.data \in Seq(Byte) /\ Keyed(c \o r.eol \o r.eol \o r.data, n)
    BY ONLY <1>1, <1>5, <2>2, KeyedThen
  <2> QED BY ONLY <1>1, <1>4, <2>3, KeyedThen
<1>10. FilePart(r) = F
  BY DEF FilePart, c, P1, Q, n
<1> HIDE DEF F
<1>11. ASSUME NEW a \in Seq(NoKeyNoNul)
       PROVE  Keyed(a \o F \o Closing \o r.eol, n)
  <2>1. a \o F \in Seq(Byte) /\ Keyed(a \o F, n)
    BY ONLY <1>1, <1>9, a \in Seq(NoKeyNoNul), KeyedAfter
  <2>2. a \o F \o Closing \in Seq(Byte) /\ Keyed(a \o F \o Closing, n)
    BY ONLY <1>1, <1>4, <2>1, KeyedThen
  <2> QED BY ONLY <1>1, <1>4, <2>2, KeyedThen
<1>12. CASE r.kind = "file"
  <2>1. B \o r.eol \in Seq(NoKeyNoNul)
    BY <1>2
  <2>2. Body(r) = B \o r.eol \o F \o Closing \o r.eol
    BY <1>10, <1>12 DEF Body, B
  <2> QED BY <1>11, <2>1, <2>2 DEF n
<1>13. CASE r.kind = "fieldAndFile"
  <2>1. B \o r.eol \o FieldPart(r) \o B \o r.eol \in Seq(NoKeyNoNul)
    BY <1>2
  <2>2. Body(r) = B \o r.eol \o FieldPart(r) \o B \o r.eol \o F \o Closing \o r.eol
    BY <1>10, <1>13 DEF Body, B
  <2> QED BY <1>11, <2>1, <2>2 DEF n
<1> QED BY <1>12, <1>13

\* The name n, between quotes, behind the filename= at position i
LeftAt(s, i, n) ==
  /\ i + 2 + Len(n) <= Len(s)
  /\ s[i + 1] = Quote /\ s[i + 2 + Len(n)] = Quote
  /\ \A j \in 1..Len(n) : s[i + 1 + j] = n[j]

\* A filename= that a form with a field leaves uncovered is that of an older
\* file, and all of its name stands behind it.
NamesLeft ==
  fpc # "short" =>
    \A f \in Requests : f.kind = "field" =>
      \A i \in 1..Size : i > Len(Body(f)) /\ text[i] = FileNameKey =>
        \E n \in names : LeftAt(text, i, n)

\* The history has the name of the request being served, and only names that
\* end at their quote.
NamesHeld ==
  /\ \A n \in names : \A j \in DOMAIN n : n[j] \notin {Quote, NUL}
  /\ fpc \in {"parse", "saved"} =>
       /\ req \in Requests /\ req.kind # "short"
       /\ req.kind \in {"file", "fieldAndFile"} => req.name \in names

SentInv == NamesLeft /\ NamesHeld /\ NameWasSent

\* What stands at the beginning of the buffer, byte by byte
LEMMA Front ==
  ASSUME NEW s \in Seq(Byte), NEW b \in Seq(Byte), At(s, 1, b)
  PROVE  Len(b) \in Nat /\ Len(b) <= Len(s) /\ \A i \in 1..Len(b) : s[i] = b[i]
<1>1. Len(b) \in Nat /\ DOMAIN b = 1..Len(b)
  OBVIOUS
<1>2. 1 + Len(b) - 1 <= Len(s) /\ \A i \in DOMAIN b : s[1 + i - 1] = b[i]
  BY ONLY At(s, 1, b) DEF At
<1>3. \A i \in 1..Len(b) : 1 + i - 1 = i
  OBVIOUS
<1> QED BY ONLY <1>1, <1>2, <1>3

\* The first filename= and the name behind it are what NameIn finds.
LEMMA LeftFound ==
  ASSUME NEW s \in Seq(Byte), NEW k \in Nat \ {0}, NEW n \in Seq(Byte),
         s[k] = FileNameKey, LeftAt(s, k, n),
         \A i \in 1..(k - 1) : s[i] # FileNameKey /\ s[i] # NUL,
         \A j \in DOMAIN n : n[j] # Quote
  PROVE  NameIn(s) = n
<1>1. /\ k + 2 + Len(n) <= Len(s) /\ s[k + 1] = Quote /\ s[k + 2 + Len(n)] = Quote
      /\ \A j \in 1..Len(n) : s[k + 1 + j] = n[j]
      /\ Len(n) \in Nat /\ DOMAIN n = 1..Len(n) /\ Len(s) \in Nat
  BY DEF LeftAt
<1>2. At(s, k + 2, n)
  <2>1. k + 2 + Len(n) - 1 <= Len(s)
    BY ONLY <1>1, k \in Nat
  <2>2. \A j \in DOMAIN n : s[k + 2 + j - 1] = n[j]
    <3>1. \A j \in 1..Len(n) : k + 2 + j - 1 = k + 1 + j
      OBVIOUS
    <3> QED BY ONLY <1>1, <3>1
  <2> QED BY ONLY <2>1, <2>2 DEF At
<1> QED BY <1>1, <1>2, NameFound

\* The bodies of requests, and where they hold filename=
LEMMA BodyKeys ==
  ASSUME ProperNames, NEW r \in Requests, r.kind # "short",
         NEW i \in 1..Len(Body(r)), Body(r)[i] = FileNameKey
  PROVE  \/ /\ r.kind \in {"file", "fieldAndFile"}
            /\ LeftAt(Body(r), i, r.name)
            /\ \A j \in 1..(i - 1) : Body(r)[j] \notin {FileNameKey, NUL}
         \/ /\ r.kind = "other"
            /\ \A f \in Requests : f.kind = "field" => i <= Len(Body(f))
<1>1. r \in Request /\ r.kind \in {"file", "field", "fieldAndFile", "other"}
  BY RequestsAssumption DEF Request
<1>2. CASE r.kind \in {"file", "fieldAndFile"}
  <2>1. /\ \A j \in DOMAIN r.name : r.name[j] # FileNameKey
        /\ \A j \in DOMAIN r.data : r.data[j] # FileNameKey
    BY <1>2 DEF ProperNames
  <2>2. Keyed(Body(r), r.name)
    BY <1>1, <1>2, <2>1, FileBody
  <2>3. PICK k \in Nat \ {0} : KeyedAt(Body(r), k, r.name)
    BY ONLY <2>2 DEF Keyed
  <2>4. k = i
    BY ONLY <2>3, i \in 1..Len(Body(r)), Body(r)[i] = FileNameKey DEF KeyedAt
  <2>5. KeyedAt(Body(r), i, r.name)
    BY ONLY <2>3, <2>4
  <2> QED BY ONLY <1>2, <2>5 DEF KeyedAt, LeftAt
<1>3. CASE r.kind = "field"
  <2>1. Body(r) \in Seq(NoKeyNoNul)
    BY <1>1, <1>3, FieldBody
  <2>2. Body(r)[i] \in NoKeyNoNul
    BY ONLY <2>1, i \in 1..Len(Body(r))
  <2> QED BY <2>2 DEF NoKeyNoNul
<1>4. CASE r.kind = "other"
  <2>1. Body(r) = r.data
    BY <1>4 DEF Body
  <2>2. i \in DOMAIN r.data
    BY <1>1, <2>1, RequestType
  <2>3. ASSUME NEW f \in Requests, f.kind = "field" PROVE i <= Len(Body(f))
    <3>1. ~ i > Len(Body(f))
      BY <1>4, <2>1, <2>2, <2>3 DEF ProperNames
    <3>2. Body(f) \in Seq(Byte)
      BY RequestsAssumption, BodyType
    <3>3. Len(Body(f)) \in Nat
      BY ONLY <3>2
    <3> QED BY <3>1, <3>3
  <2> QED BY <1>4, <2>3
<1> QED BY <1>1, <1>2, <1>3, <1>4

\* A new body covers the front of the buffer; a name behind it is whole, and
\* one in it is that of its own file.
LEMMA AcceptLeaves ==
  ASSUME ProperNames, FormInv, FormInv', SentInv, NEW r \in Requests, Accept(r)
  PROVE  SentInv'
<1> DEFINE B == Body(r)
<1>1. r \in Request /\ B \in Seq(Byte) /\ Len(B) \in Nat /\ r.name \in Seq(Byte)
  <2>1. B \in Seq(Byte)
    BY RequestsAssumption, BodyType
  <2> HIDE DEF B
  <2>2. Len(B) \in Nat
    BY ONLY <2>1
  <2> QED BY <2>1, <2>2, RequestsAssumption, RequestType
<1>2. /\ req' = r
      /\ names' = IF r.kind \in {"file", "fieldAndFile"} THEN names \cup {r.name} ELSE names
      /\ \/ Len(B) >= Size /\ fpc' = "undefined" /\ text' = text
         \/ /\ ~ Len(B) >= Size
            /\ fpc' = IF r.kind = "short" THEN "short" ELSE "parse"
            /\ text' = [i \in 1..Size |-> IF i <= Len(B) THEN B[i] ELSE text[i]]
      /\ fpc = "accept"
  BY DEF Accept
<1>3. Size \in Nat /\ text \in Seq(Byte) /\ text' \in Seq(Byte)
      /\ Len(text) = Size /\ Len(text') = Size
  <2>1. Size \in Nat /\ text \in [1..Size -> Byte] /\ text' \in [1..Size -> Byte]
    BY SizeAssumption DEF FormInv, FormTypeOK
  <2> QED BY ONLY <2>1, BufferIsSeq
<1>4. names \subseteq names' /\ names \subseteq Seq(Byte)
  BY <1>2 DEF FormInv, FormTypeOK
<1> HIDE DEF B
<1>5. NamesLeft'
  <2> SUFFICES ASSUME fpc' # "short", NEW f \in Requests, f.kind = "field",
                      NEW i \in 1..Size, i > Len(Body(f)), text'[i] = FileNameKey
               PROVE  \E n \in names' : LeftAt(text', i, n)
    BY DEF NamesLeft
  <2>1. text[i] = FileNameKey => \E n \in names : LeftAt(text, i, n)
    BY <1>2 DEF SentInv, NamesLeft
  <2>2. CASE text' = text
    BY ONLY <1>4, <2>1, <2>2, text'[i] = FileNameKey
  <2>3. CASE /\ ~ Len(B) >= Size /\ r.kind # "short"
             /\ text' = [j \in 1..Size |-> IF j <= Len(B) THEN B[j] ELSE text[j]]
    <3>1. CASE i <= Len(B)
      <4>1. i \in 1..Len(B) /\ B[i] = FileNameKey
        BY <1>1, <2>3, <3>1
      <4>2. Len(Body(f)) \in Nat
        <5>1. Body(f) \in Seq(Byte)
          BY RequestsAssumption, BodyType
        <5> QED BY ONLY <5>1
      <4>3. r.kind \in {"file", "fieldAndFile"} /\ LeftAt(B, i, r.name)
        BY <2>3, <4>1, <4>2, BodyKeys DEF B
      <4>4. \A j \in 1..Len(B) : text'[j] = B[j]
        BY <1>1, <1>3, <2>3
      <4>5. /\ i + 2 + Len(r.name) <= Len(B) /\ B[i + 1] = Quote
            /\ B[i + 2 + Len(r.name)] = Quote
            /\ \A j \in 1..Len(r.name) : B[i + 1 + j] = r.name[j]
        BY ONLY <4>3 DEF LeftAt
      <4>6. Len(r.name) \in Nat /\ i \in Nat \ {0}
        BY ONLY <1>1, i \in 1..Size
      <4>7. /\ i + 1 \in 1..Len(B) /\ i + 2 + Len(r.name) \in 1..Len(B)
            /\ \A j \in 1..Len(r.name) : i + 1 + j \in 1..Len(B)
        <5>1. ASSUME NEW m \in Nat, m = Len(r.name), NEW l \in Nat, l = Len(B)
              PROVE  /\ i + 1 \in 1..l /\ i + 2 + m \in 1..l
                     /\ \A j \in 1..m : i + 1 + j \in 1..l
          <6>1. i + 2 + m <= l
            BY ONLY <4>5, <5>1
          <6> QED BY ONLY <4>6, <6>1, m \in Nat, l \in Nat
        <5> QED BY ONLY <1>1, <4>6, <5>1
      <4>8. i + 2 + Len(r.name) <= Len(text')
        <5>1. Len(B) <= Len(text') /\ Len(text') \in Nat
          BY ONLY <1>1, <1>3, <2>3
        <5>2. ASSUME NEW m \in Nat, m = Len(r.name), NEW l \in Nat, l = Len(B),
                     NEW t \in Nat, t = Len(text')
              PROVE  i + 2 + m <= t
          <6>1. i + 2 + m <= l /\ l <= t
            BY ONLY <4>5, <5>1, <5>2
          <6> QED BY ONLY <4>6, <6>1, m \in Nat, l \in Nat, t \in Nat
        <5> QED BY ONLY <1>1, <4>6, <5>1, <5>2
      <4>9. LeftAt(text', i, r.name)
        BY ONLY <4>4, <4>5, <4>7, <4>8 DEF LeftAt
      <4>10. r.name \in names'
        BY ONLY <1>2, <4>3
      <4> QED BY ONLY <4>9, <4>10
    <3>2. CASE i > Len(B)
      <4>1. \A j \in i..Size : text'[j] = text[j]
        BY <1>1, <1>3, <2>3, <3>2
      <4>2. text[i] = FileNameKey
        BY <1>3, <4>1
      <4>3. PICK n \in names : LeftAt(text, i, n)
        BY ONLY <2>1, <4>2
      <4>4. /\ i + 2 + Len(n) <= Len(text) /\ text[i + 1] = Quote /\ text[i + 2 + Len(n)] = Quote
            /\ \A j \in 1..Len(n) : text[i + 1 + j] = n[j]
        BY ONLY <4>3 DEF LeftAt
      <4>5. Len(n) \in Nat /\ i \in Nat \ {0}
        BY ONLY <1>4, n \in names, i \in 1..Size
      <4>6. /\ i + 1 \in i..Size /\ i + 2 + Len(n) \in i..Size
            /\ \A j \in 1..Len(n) : i + 1 + j \in i..Size
        BY ONLY <1>3, <4>4, <4>5
      <4>7. LeftAt(text', i, n)
        BY ONLY <1>3, <4>1, <4>4, <4>6 DEF LeftAt
      <4> QED BY ONLY <1>4, <4>7, n \in names
    <3> QED BY ONLY <1>1, <3>1, <3>2, i \in 1..Size
  <2> QED BY ONLY <1>2, <2>2, <2>3, fpc' # "short"
<1>6. NamesHeld'
  <2>1. r.kind \in {"file", "fieldAndFile"} =>
          \A j \in DOMAIN r.name : r.name[j] \notin {Quote, NUL}
    BY DEF ProperNames
  <2>2. \A n \in names' : \A j \in DOMAIN n : n[j] \notin {Quote, NUL}
    BY <1>2, <2>1 DEF SentInv, NamesHeld
  <2> QED BY <1>2, <2>2 DEF NamesHeld
<1>7. NameWasSent'
  BY <1>2 DEF NameWasSent
<1> QED BY <1>5, <1>6, <1>7 DEF SentInv

\* The name that is copied stands in the history, in this body or in what an
\* older one left.
LEMMA NameIsSent ==
  ASSUME ProperNames, FormInv, SentInv, fpc = "parse", req.kind # "other",
         KeyAt(text) # 0
  PROVE  /\ NameIn(text) \in names /\ NameIn(text) \in Seq(Byte)
         /\ \A j \in DOMAIN NameIn(text) : NameIn(text)[j] \notin {Quote, NUL}
<1> DEFINE K == <<FileNameKey>>
           k == KeyAt(text)
           B == Body(req)
<1>1. /\ req \in Requests /\ req \in Request /\ Size \in Nat
      /\ text \in Seq(Byte) /\ Len(text) = Size /\ B \in Seq(Byte) /\ At(text, 1, B)
      /\ names \subseteq Seq(Byte)
      /\ \A n \in names : \A j \in DOMAIN n : n[j] \notin {Quote, NUL}
  <2>1. text \in [1..Size -> Byte] /\ Size \in Nat /\ req \in Request /\ names \subseteq Seq(Byte)
    BY SizeAssumption DEF FormInv, FormTypeOK
  <2>2. text \in Seq(Byte) /\ Len(text) = Size
    BY ONLY <2>1, BufferIsSeq
  <2> QED BY <2>1, <2>2, BodyType DEF FormInv, Held, SentInv, NamesHeld
<1>2. /\ Len(B) \in Nat /\ Len(B) <= Size /\ \A i \in 1..Len(B) : text[i] = B[i]
  <2> HIDE DEF B
  <2> QED BY ONLY <1>1, Front
<1>3. /\ K \in Seq(Byte) /\ K # << >> /\ Len(K) = 1
      /\ \A p \in Int : At(text, p, K) <=> p <= Len(text) /\ text[p] = FileNameKey
  BY TokenAssumption, OneByte
<1>4. k = strstr(text, 1, K)
  BY DEF KeyAt
<1> HIDE DEF K, k, B
<1>5. /\ k \in Nat \ {0} /\ k <= Size /\ text[k] = FileNameKey
      /\ k + Len(K) - 1 < EndOf(text, 1)
  <2>1. 1 \in Nat \ {0} /\ k # 0
    BY DEF k
  <2>2. k \in Nat /\ k >= 1 /\ At(text, k, K) /\ k + Len(K) - 1 < EndOf(text, 1)
    BY ONLY <1>1, <1>3, <1>4, <2>1, StrstrSays
  <2> QED BY ONLY <1>1, <1>3, <2>2
<1>6. \A i \in 1..(k - 1) : text[i] # FileNameKey /\ text[i] # NUL
  <2>1. 1 \in Nat \ {0} /\ strstr(text, 1, K) # 0
    BY ONLY <1>4, <1>5
  <2>2. \A i \in 1..(k - 1) : ~ At(text, i, K)
    BY ONLY <1>1, <1>3, <1>4, <2>1, StrstrFirst
  <2>3. EndOf(text, 1) \in Nat /\ \A i \in 1..(EndOf(text, 1) - 1) : text[i] # NUL
    BY ONLY <1>1, <2>1, EndSays
  <2>4. \A i \in 1..(k - 1) : i \in 1..(EndOf(text, 1) - 1) /\ i <= Len(text) /\ i \in Int
    BY ONLY <1>1, <1>3, <1>5, <2>3
  <2> QED BY ONLY <1>3, <2>2, <2>3, <2>4
<1>7. \E n \in names : LeftAt(text, k, n)
  <2>1. /\ req.kind \in {"file", "field", "fieldAndFile"}
        /\ req.kind \in {"file", "fieldAndFile"} => req.name \in names
    <3>1. req.kind \in {"file", "field", "fieldAndFile", "other", "short"}
      BY <1>1 DEF Request
    <3> QED BY <3>1 DEF SentInv, NamesHeld
  <2>2. CASE k <= Len(B)
    <3>1. k \in 1..Len(B) /\ B[k] = FileNameKey
      BY ONLY <1>2, <1>5, <2>2
    <3>2. req.name \in names /\ LeftAt(B, k, req.name)
      BY <1>1, <2>1, <3>1, BodyKeys DEF B
    <3>3. /\ k + 2 + Len(req.name) <= Len(B) /\ B[k + 1] = Quote
          /\ B[k + 2 + Len(req.name)] = Quote
          /\ \A j \in 1..Len(req.name) : B[k + 1 + j] = req.name[j]
      BY ONLY <3>2 DEF LeftAt
    <3>4. ASSUME NEW m \in Nat, m = Len(req.name), NEW l \in Nat, l = Len(B)
          PROVE  /\ k + 1 \in 1..l /\ k + 2 + m \in 1..l
                 /\ \A j \in 1..m : k + 1 + j \in 1..l
                 /\ k + 2 + m <= Len(text)
      <4>1. k + 2 + m <= l /\ l <= Len(text)
        BY ONLY <1>1, <1>2, <3>3, <3>4
      <4> QED BY ONLY <1>1, <1>5, <4>1, m \in Nat, l \in Nat
    <3>5. Len(req.name) \in Nat
      BY ONLY <1>1, <3>2
    <3>6. /\ k + 1 \in 1..Len(B) /\ k + 2 + Len(req.name) \in 1..Len(B)
          /\ \A j \in 1..Len(req.name) : k + 1 + j \in 1..Len(B)
          /\ k + 2 + Len(req.name) <= Len(text)
      BY ONLY <1>2, <3>4, <3>5
    <3>7. LeftAt(text, k, req.name)
      BY ONLY <1>2, <3>3, <3>6 DEF LeftAt
    <3> QED BY ONLY <3>2, <3>7
  <2>3. CASE k > Len(B) /\ req.kind = "field"
    <3>1. k \in 1..Size
      BY ONLY <1>1, <1>5
    <3> QED BY <1>1, <1>5, <2>3, <3>1 DEF SentInv, NamesLeft, B
  <2>4. CASE k > Len(B) /\ req.kind \in {"file", "fieldAndFile"}
    <3>1. /\ \A j \in DOMAIN req.name : req.name[j] # FileNameKey
          /\ \A j \in DOMAIN req.data : req.data[j] # FileNameKey
      BY <1>1, <2>4 DEF ProperNames
    <3>2. Keyed(B, req.name) /\ req.name \in Seq(Byte)
      BY <1>1, <2>4, <3>1, FileBody, RequestType DEF B
    <3>3. PICK q \in Nat \ {0} : KeyedAt(B, q, req.name)
      BY ONLY <3>2 DEF Keyed
    <3>4. q + 2 + Len(req.name) <= Len(B) /\ B[q] = FileNameKey
      BY ONLY <3>3 DEF KeyedAt
    <3>5. Len(req.name) \in Nat
      BY ONLY <3>2
    <3>6. q \in 1..Len(B) /\ q \in 1..(k - 1)
      <4>1. ASSUME NEW m \in Nat, m = Len(req.name), NEW l \in Nat, l = Len(B)
            PROVE  q \in 1..l /\ q \in 1..(k - 1)
        <5>1. q + 2 + m <= l /\ k > l
          BY ONLY <2>4, <3>4, <4>1
        <5> QED BY ONLY <1>5, <5>1, m \in Nat, l \in Nat, q \in Nat \ {0}
      <4> QED BY ONLY <1>2, <3>5, <4>1
    <3> QED BY ONLY <1>2, <1>6, <3>4, <3>6
  <2> QED BY <1>2, <1>5, <2>1, <2>2, <2>3, <2>4
<1>8. PICK n \in names : LeftAt(text, k, n)
  BY ONLY <1>7
<1>9. n \in Seq(Byte) /\ \A j \in DOMAIN n : n[j] \notin {Quote, NUL}
  BY ONLY <1>1, n \in names
<1>10. NameIn(text) = n
  BY ONLY <1>1, <1>5, <1>6, <1>8, <1>9, LeftFound
<1> QED BY <1>9, <1>10

\* The name of the local file is the one that was found, whole.
LEMMA SaveNames ==
  ASSUME ProperNames, FormInv, SentInv, Save
  PROVE  SentInv'
<1>1. /\ fpc = "parse" /\ ~ NameUndefined /\ Complete(text, Len(Body(req)))
      /\ saved'.name = LocalName(text)
      /\ fpc' = "saved" /\ req' = req /\ text' = text /\ names' = names
  BY DEF Save
<1>2. NamesLeft' /\ NamesHeld'
  BY <1>1 DEF SentInv, NamesLeft, NamesHeld
<1>3. NameWasSent'
  <2> SUFFICES ASSUME req.kind # "other" PROVE LocalName(text) \in names
    BY <1>1 DEF NameWasSent
  <2>1. KeyAt(text) # 0
    BY <1>1 DEF Complete
  <2>2. /\ NameIn(text) \in names /\ NameIn(text) \in Seq(Byte)
        /\ \A j \in DOMAIN NameIn(text) : NameIn(text)[j] \notin {Quote, NUL}
    BY <1>1, <2>1, NameIsSent
  <2>3. Len(NameIn(text)) + 2 <= NameSize
    <3>1. Len(NameIn(text)) \in Nat /\ NameSize \in Nat
      BY <2>2, SizeAssumption
    <3> QED BY <1>1, <2>1, <3>1 DEF NameUndefined
  <2>4. /\ fileName \in [1..NameSize -> Byte]
        /\ \A i \in 1..NameSize : fileName[i] = NUL
    BY <1>1 DEF FormInv, FormTypeOK, NameClear
  <2>5. LocalName(text) = NameIn(text)
    BY ONLY <2>2, <2>3, <2>4, NamedClear DEF LocalName
  <2> QED BY <2>2, <2>5
<1> QED BY <1>2, <1>3 DEF SentInv

\* Only the first byte of the buffer is cleared, and that is not one that a
\* form with a field leaves uncovered.
LEMMA FinishLeaves ==
  ASSUME FormInv, SentInv, Finish
  PROVE  SentInv'
<1>1. /\ text' = [text EXCEPT ![1] = NUL] /\ fpc = "saved" /\ fpc' = "accept"
      /\ names' = names
  BY DEF Finish, ClearedText
<1>2. /\ text \in [1..Size -> Byte] /\ Size \in Nat /\ names \subseteq Seq(Byte)
      /\ Len(text) = Size /\ Len(text') = Size
  <2>1. text \in [1..Size -> Byte] /\ Size \in Nat /\ names \subseteq Seq(Byte)
    BY SizeAssumption DEF FormInv, FormTypeOK
  <2>2. text' \in [1..Size -> Byte]
    <3>1. NUL \in Byte
      BY ByteAssumption
    <3> QED BY <1>1, <2>1, <3>1
  <2> QED BY ONLY <2>1, <2>2, BufferIsSeq
<1>3. \A i \in 2..Size : text'[i] = text[i]
  BY <1>1, <1>2
<1>4. NamesLeft'
  <2> SUFFICES ASSUME NEW f \in Requests, f.kind = "field",
                      NEW i \in 1..Size, i > Len(Body(f)), text'[i] = FileNameKey
               PROVE  \E n \in names : LeftAt(text', i, n)
    BY <1>1 DEF NamesLeft
  <2>1. i \in 2..Size
    <3>1. Len(Body(f)) >= 1 /\ Len(Body(f)) \in Nat
      <4>1. Body(f) \in Seq(NoKeyNoNul) /\ Len(Body(f)) >= 1
        BY RequestsAssumption, FieldBody
      <4> QED BY ONLY <4>1
    <3> QED BY ONLY <3>1, <1>2, i \in 1..Size, i > Len(Body(f))
  <2>2. PICK n \in names : LeftAt(text, i, n)
    BY <1>1, <1>3, <2>1 DEF SentInv, NamesLeft
  <2>3. /\ i + 2 + Len(n) <= Size /\ text[i + 1] = Quote /\ text[i + 2 + Len(n)] = Quote
        /\ \A j \in 1..Len(n) : text[i + 1 + j] = n[j]
    BY ONLY <1>2, <2>2 DEF LeftAt
  <2>4. Len(n) \in Nat
    BY ONLY <1>2, n \in names
  <2>5. /\ i + 1 \in 2..Size /\ i + 2 + Len(n) \in 2..Size
        /\ \A j \in 1..Len(n) : i + 1 + j \in 2..Size
    <3>1. ASSUME NEW m \in Nat, m = Len(n)
          PROVE  /\ i + 1 \in 2..Size /\ i + 2 + m \in 2..Size
                 /\ \A j \in 1..m : i + 1 + j \in 2..Size
      <4>1. i + 2 + m <= Size
        BY ONLY <2>3, <3>1
      <4> QED BY ONLY <1>2, <2>1, <4>1, m \in Nat
    <3> QED BY ONLY <2>4, <3>1
  <2>6. LeftAt(text', i, n)
    BY ONLY <1>2, <1>3, <2>3, <2>5 DEF LeftAt
  <2> QED BY <2>6
<1>5. NamesHeld' /\ NameWasSent'
  BY <1>1 DEF SentInv, NamesHeld, NameWasSent
<1> QED BY <1>4, <1>5 DEF SentInv

\* The other steps leave the buffer and the history alone.
LEMMA OthersLeave ==
  ASSUME SentInv, ParseUndefined \/ Reject \/ Fail \/ UNCHANGED formVars
  PROVE  SentInv'
<1>1. /\ req' = req /\ text' = text /\ saved' = saved /\ names' = names
      /\ \/ fpc' = fpc
         \/ fpc # "short" /\ fpc' \in {"undefined", "rejected", "failed"}
  BY DEF ParseUndefined, Reject, Fail, formVars
<1> QED BY <1>1 DEF SentInv, NamesLeft, NamesHeld, NameWasSent

LEMMA SentInit == FormInit => SentInv
<1> SUFFICES ASSUME FormInit PROVE SentInv
  OBVIOUS
<1>1. NUL # FileNameKey
  BY DEF NUL, FileNameKey
<1> QED BY <1>1 DEF FormInit, SentInv, NamesLeft, NamesHeld, NameWasSent

LEMMA SentStep ==
  ASSUME ProperNames
  PROVE  FormInv /\ FormInv' /\ SentInv /\ [FormNext]_formVars => SentInv'
<1> SUFFICES ASSUME FormInv, FormInv', SentInv, [FormNext]_formVars PROVE SentInv'
  OBVIOUS
<1>1. ASSUME NEW r \in Requests, Accept(r) PROVE SentInv'
  BY <1>1, AcceptLeaves
<1>2. CASE Save
  BY <1>2, SaveNames
<1>3. CASE Finish
  BY <1>3, FinishLeaves
<1>4. CASE ParseUndefined \/ Reject \/ Fail \/ UNCHANGED formVars
  BY <1>4, OthersLeave
<1> QED BY <1>1, <1>2, <1>3, <1>4 DEF FormNext

\* A file of a form is stored and listed under a name that a client sent, for
\* any requests with proper names, in any order: the buffers of main are only
\* cleared in part, but no rest of an older name is ever mixed with a newer one.
THEOREM NamesWereSent ==
  ASSUME ProperNames
  PROVE  FormSpec => []NameWasSent
<1>1. FormSpec => []FormInv
  BY FormAlways
<1>2. FormInv /\ FormInv' /\ SentInv /\ [FormNext]_formVars => SentInv'
  BY SentStep
<1>3. SentInv => NameWasSent
  BY DEF SentInv
<1> QED BY <1>1, <1>2, <1>3, SentInit, PTL DEF FormSpec

=============================================================================
