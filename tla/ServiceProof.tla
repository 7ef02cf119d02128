---------------------------- MODULE ServiceProof ----------------------------
(***************************************************************************)
(* Proofs about Service: a listing worker among upload workers behaves as  *)
(* Listing says, so that what ListingProof shows of any writers and what   *)
(* UploadProof shows of the workers hold together, and say what one client *)
(* is shown of the files of others.                                        *)
(***************************************************************************)
EXTENDS Service, UploadProof

LP == INSTANCE ListingProof WITH pc <- lpc, entries <- IdList, weight <- score

-----------------------------------------------------------------------------
(* The two halves *)

\* Listing and what its proofs are about are the same.
LEMMA SameListing ==
  /\ L!Init <=> LP!Init
  /\ \A q : L!Request(q) <=> LP!Request(q)
  /\ L!Serve <=> LP!Serve
  /\ L!Writers <=> LP!Writers
  /\ L!lvars = LP!lvars /\ (UNCHANGED L!lvars <=> UNCHANGED LP!lvars)
  /\ L!AnswerIsSlice <=> LP!AnswerIsSlice
<1>1. L!Init <=> LP!Init
  BY DEF L!Init, LP!Init, L!NoQuery, LP!NoQuery, L!NoAnswer, LP!NoAnswer
<1>2. \A q : L!Request(q) <=> LP!Request(q)
  <2>1. \A q, key : L!KeyAt(q, key) = LP!KeyAt(q, key)
    BY DEF L!KeyAt, LP!KeyAt
  <2>2. \A q, key : L!ValueOf(q, key) = LP!ValueOf(q, key)
    BY <2>1 DEF L!ValueOf, LP!ValueOf, L!ValueAt, LP!ValueAt, L!ValueEnd, LP!ValueEnd,
                L!Ampersand, LP!Ampersand, L!Hash, LP!Hash
  <2>3. \A q, key : L!Unsafe(q, key) <=> LP!Unsafe(q, key)
    BY <2>1, <2>2 DEF L!Unsafe, LP!Unsafe
  <2>4. \A q, key, b : /\ L!ValueGet(q, key, b) = LP!ValueGet(q, key, b)
                        /\ L!NumberGet(q, key, b) = LP!NumberGet(q, key, b)
    BY <2>1, <2>2 DEF L!ValueGet, LP!ValueGet, L!NumberGet, LP!NumberGet, L!Atoi, LP!Atoi
  <2>5. \A q : L!Accept(q) <=> LP!Accept(q)
    BY <2>3, <2>4 DEF L!Accept, LP!Accept, L!Goto, LP!Goto, L!store, LP!store,
                      L!work, LP!work
  <2>6. \A q : L!AcceptUndefined(q) <=> LP!AcceptUndefined(q)
    BY <2>3, <2>4 DEF L!AcceptUndefined, LP!AcceptUndefined, L!Goto, LP!Goto,
                      L!store, LP!store, L!params, LP!params, L!work, LP!work
  <2> QED BY <2>5, <2>6 DEF L!Request, LP!Request
<1>3. L!Serve <=> LP!Serve
  <2>1. L!Connect <=> LP!Connect
    BY DEF L!Connect, LP!Connect, L!PrintNull, LP!PrintNull, L!Goto, LP!Goto, L!NoQuery,
           LP!NoQuery, L!store, LP!store, L!params, LP!params
  <2>2. L!RangeList <=> LP!RangeList
    <3>1. \A s, a, b : L!RangeRows(s, a, b) = LP!RangeRows(s, a, b)
      BY DEF L!RangeRows, LP!RangeRows, L!Copied, LP!Copied, L!MaxCount, LP!MaxCount,
             L!LRange, LP!LRange, L!First, LP!First, L!Last, LP!Last
    <3>2. L!EndId(fromBuf, countBuf) = LP!EndId(fromBuf, countBuf)
      BY DEF L!EndId, LP!EndId, L!Wrap, LP!Wrap, L!Ints, LP!Ints
    <3>3. L!Bytes(countBuf) = LP!Bytes(countBuf)
      BY DEF L!Bytes, LP!Bytes, L!Wrap, LP!Wrap, L!Ints, LP!Ints
    <3> QED
      BY <3>1, <3>2, <3>3 DEF L!RangeList, LP!RangeList, L!Overflows, LP!Overflows,
             L!NoArray, LP!NoArray, L!Goto, LP!Goto, L!store, LP!store, L!params, LP!params
  <2>3. L!RangeError <=> LP!RangeError
    BY DEF L!RangeError, LP!RangeError, L!PrintNull, LP!PrintNull, L!Goto, LP!Goto, L!NoQuery,
           LP!NoQuery, L!store, LP!store, L!params, LP!params
  <2>4. L!AddRow <=> LP!AddRow
    BY DEF L!AddRow, LP!AddRow, L!PageView, LP!PageView, L!store, LP!store, L!params, LP!params
  <2>5. L!Answer <=> LP!Answer
    BY DEF L!Answer, LP!Answer, L!Forget, LP!Forget, L!NoQuery, LP!NoQuery, L!Goto, LP!Goto,
           L!store, LP!store, L!params, LP!params
  <2>6. L!Cut <=> LP!Cut
    BY DEF L!Cut, LP!Cut, L!Forget, LP!Forget, L!NoQuery, LP!NoQuery, L!Goto, LP!Goto,
           L!store, LP!store, L!params, LP!params
  <2> QED BY <2>1, <2>2, <2>3, <2>4, <2>5, <2>6 DEF L!Serve, LP!Serve
<1>5. L!Writers <=> LP!Writers
  BY DEF L!Writers, LP!Writers, L!FS!Publish, LP!FS!Publish, L!FS!Weigh, LP!FS!Weigh,
         L!FS!Listed, LP!FS!Listed, L!params, LP!params, L!work, LP!work
<1>6. L!lvars = LP!lvars /\ (UNCHANGED L!lvars <=> UNCHANGED LP!lvars)
  BY DEF L!lvars, LP!lvars, L!store, LP!store, L!params, LP!params, L!work, LP!work
<1>7. L!AnswerIsSlice <=> LP!AnswerIsSlice
  BY DEF L!AnswerIsSlice, LP!AnswerIsSlice, L!First, LP!First
<1> QED BY <1>1, <1>2, <1>3, <1>5, <1>6, <1>7

\* What the upload workers do to Redis is what Listing expects of its writers.
LEMMA UploadingWrites ==
  ASSUME TypeInv, EntryInv, [Next]_vars, UNCHANGED reader
  PROVE  L!Writers \/ UNCHANGED L!lvars
<1>1. FS!Next \/ UNCHANGED FS!fsvars
  BY FileStoreStep
<1>2. UNCHANGED <<lpc, query, L!params, L!work, answer>>
  BY DEF reader, L!params, L!work
<1>3. CASE UNCHANGED <<IdList, score>>
  BY <1>2, <1>3 DEF L!lvars, L!store
<1>4. ASSUME NEW id \in Ids, FS!Publish(id) PROVE L!Writers
  <2>1. IdList' = <<id>> \o IdList /\ score' = score
    BY <1>4 DEF FS!Publish, IdList
  <2>2. ~ L!FS!Listed(id)
    BY <1>4 DEF FS!Publish, FS!Listed, L!FS!Listed, IdList
  <2>3. [i \in Ids |-> 1][id] # 0 /\ UNCHANGED [i \in Ids |-> 1]
    OBVIOUS
  <2>4. L!FS!Publish(id)
    BY <2>1, <2>2, <2>3 DEF L!FS!Publish
  <2> QED BY <1>2, <2>4 DEF L!Writers
<1>5. ASSUME NEW id \in Ids, FS!Weigh(id) PROVE L!Writers
  <2>1. L!FS!Weigh(id)
    BY <1>5 DEF FS!Weigh, L!FS!Weigh, IdList
  <2> QED BY <1>2, <2>1 DEF L!Writers
<1>6. ASSUME NEW id \in Ids, FS!Store(id) PROVE UNCHANGED <<IdList, score>>
  BY <1>6 DEF FS!Store, IdList
<1>7. UNCHANGED FS!fsvars => UNCHANGED <<IdList, score>>
  BY DEF FS!fsvars, IdList
<1> QED BY <1>1, <1>3, <1>4, <1>5, <1>6, <1>7 DEF FS!Next

\* Every step of the service is one of Listing, or of the workers alone.
LEMMA ServiceStep ==
  TypeInv /\ EntryInv /\ [ServiceNext]_serviceVars => [LP!Next]_(LP!lvars) /\ [Next]_vars
<1> SUFFICES ASSUME TypeInv, EntryInv, [ServiceNext]_serviceVars
             PROVE  (LP!Next \/ UNCHANGED LP!lvars) /\ [Next]_vars
  OBVIOUS
<1>1. CASE Uploading
  <2>1. L!Writers \/ UNCHANGED L!lvars
    BY <1>1, UploadingWrites DEF Uploading
  <2>2. LP!Writers \/ UNCHANGED LP!lvars
    BY ONLY <2>1, SameListing
  <2> QED BY <1>1, <2>2 DEF Uploading, LP!Next
<1>2. CASE Reading
  BY <1>2, SameListing DEF Reading, LP!Next
<1>3. CASE UNCHANGED serviceVars
  <2>1. UNCHANGED <<IdList, score>> /\ UNCHANGED vars
    BY <1>3 DEF serviceVars, vars, redis, IdList
  <2>2. UNCHANGED L!lvars
    BY <1>3, <2>1 DEF serviceVars, reader, L!lvars, L!store, L!params, L!work
  <2> QED BY <2>1, <2>2, SameListing
<1> QED BY <1>1, <1>2, <1>3 DEF ServiceNext

LEMMA ServiceInits == ServiceInit => Init /\ LP!Init
BY SameListing DEF ServiceInit

\* The workers of the service are those of Upload: the listing worker does
\* nothing to them, so that what is proved of Upload!Spec holds here.
THEOREM ImplementsUpload == ServiceSpec => Spec
<1>1. [ServiceNext]_serviceVars => [Next]_vars
  <2> SUFFICES ASSUME [ServiceNext]_serviceVars PROVE [Next]_vars
    OBVIOUS
  <2> QED BY DEF ServiceNext, Uploading, Reading, serviceVars
<1> QED BY <1>1, ServiceInits, PTL DEF ServiceSpec, Spec

LEMMA ServiceTypes == ServiceSpec => [](TypeInv /\ EntryInv)
<1>1. Spec => [](TypeInv /\ EntryInv)
  BY TypeInit, TypeStep, EntryInit, EntryStep, PTL DEF Spec
<1> QED BY <1>1, ImplementsUpload, PTL

LEMMA ServiceLists == ServiceSpec => LP!Spec
BY ServiceInits, ServiceStep, ServiceTypes, PTL DEF ServiceSpec, LP!Spec

\* The listing worker among real upload workers, crashes and lost answers
\* included, is one of Listing: what is proved there of any writers that keep
\* to FileStore holds of these, for any number of workers.
THEOREM ImplementsListing == ServiceSpec => ListingSpec
<1>1. L!Init <=> LP!Init
  BY SameListing
<1>2. [LP!Next]_(LP!lvars) => [L!Next]_(L!lvars)
  <2>1. LP!Next => L!Next
    BY SameListing DEF LP!Next, L!Next
  <2>2. UNCHANGED LP!lvars => UNCHANGED L!lvars
    BY SameListing
  <2> QED BY ONLY <2>1, <2>2
<1> QED BY <1>1, <1>2, ServiceLists, PTL DEF LP!Spec, L!Spec, ListingSpec

\* What ListingProof shows of the pages and of the worker's state
LEMMA ServicePages == ServiceSpec => [](LP!ListingInv /\ L!AnswerIsSlice)
<1>1. LP!Spec => []LP!ListingInv
  BY IntAssumption, QueriesAssumption, NumeralAssumption, LP!ListingInvariant DEF LP!Ints
<1>2. LP!Spec => []LP!AnswerIsSlice
  BY IntAssumption, QueriesAssumption, NumeralAssumption, LP!PagesAreSlices DEF LP!Ints
<1>3. LP!AnswerIsSlice => L!AnswerIsSlice
  BY SameListing
<1> QED BY <1>1, <1>2, <1>3, ServiceLists, PTL

-----------------------------------------------------------------------------
(* What a client is shown *)

\* The list of ids stands for the list.
LEMMA IdListIs ==
  ASSUME TypeInv
  PROVE  /\ Len(IdList) = Len(list) /\ Len(list) \in Nat
         /\ DOMAIN IdList = DOMAIN list /\ DOMAIN list = 1..Len(list)
         /\ \A i \in DOMAIN list : IdList[i] = list[i].id
<1>1. list \in Seq(Record)
  BY DEF TypeInv, TypeOK
<1>2. Len(list) \in Nat /\ DOMAIN list = 1..Len(list)
  BY ONLY <1>1
<1>3. IdList = [i \in 1..Len(list) |-> list[i].id]
  BY <1>2 DEF IdList
<1>4. Len(IdList) = Len(list) /\ DOMAIN IdList = 1..Len(list)
  BY ONLY <1>2, <1>3
<1> QED BY ONLY <1>2, <1>3, <1>4

\* Where the rows of the last answer stand in the list
Shown(j) == Len(list) - answer.len + L!First(answer.from, answer.len) + j

LEMMA ShownAt ==
  ASSUME TypeInv, LP!ListingInv, L!AnswerIsSlice
  PROVE  \A j \in DOMAIN answer.page :
           /\ j \in Nat /\ Shown(j) \in DOMAIN list
           /\ list[Shown(j)].id = answer.page[j].id
<1>1. answer.page \in Seq(LP!Row)
  BY DEF LP!ListingInv, LP!TypeOK
<1>2. DOMAIN answer.page = 1..Len(answer.page) /\ Len(answer.page) \in Nat
  BY ONLY <1>1
<1>3. ASSUME NEW j \in DOMAIN answer.page
      PROVE  Shown(j) \in DOMAIN list /\ list[Shown(j)].id = answer.page[j].id
  <2>1. Shown(j) = Len(IdList) - answer.len + L!First(answer.from, answer.len) + j
    BY IdListIs DEF Shown
  <2>2. Shown(j) \in DOMAIN IdList /\ answer.page[j].id = IdList[Shown(j)]
    BY ONLY <2>1, L!AnswerIsSlice, j \in DOMAIN answer.page DEF L!AnswerIsSlice
  <2> QED BY ONLY <2>2, TypeInv, IdListIs
<1> QED BY ONLY <1>2, <1>3

\* What one client is shown of the file of another is there: stored, at the
\* address of its row, under the name that was given and with the bytes that
\* were sent, for any number of workers that have names of their own, on a disk
\* that takes what is written, with tools, Redis and workers failing anywhere.
THEOREM FilesShownIntact ==
  ASSUME DisjointNames, "disk" \notin Faults
  PROVE  ServiceSpec => []ShownIntact
<1>1. ASSUME TypeInv, EntryInv, LP!ListingInv, L!AnswerIsSlice, Integrity, NameIntact
      PROVE  ShownIntact
  <2> SUFFICES ASSUME NEW j \in DOMAIN answer.page
               PROVE  \E i \in DOMAIN list :
                        /\ list[i].id = answer.page[j].id
                        /\ list[i].url = <<list[i].id>>
                        /\ list[i].req.kind = "file" => list[i].name = list[i].req.name
                        /\ stored[list[i].id] = list[i].req.data
    BY DEF ShownIntact
  <2>1. Shown(j) \in DOMAIN list /\ list[Shown(j)].id = answer.page[j].id
    BY <1>1, ShownAt
  <2>2. list[Shown(j)].url = <<list[Shown(j)].id>>
    BY <1>1, <2>1 DEF EntryInv, NoDanglingEntry
  <2>3. list[Shown(j)].req.kind = "file" => list[Shown(j)].name = list[Shown(j)].req.name
    BY <1>1, <2>1 DEF NameIntact
  <2>4. stored[list[Shown(j)].id] = list[Shown(j)].req.data
    BY <1>1, <2>1 DEF Integrity
  <2> QED BY ONLY <2>1, <2>2, <2>3, <2>4
<1>2. Spec => []Integrity
  BY ListedIntact
<1> QED BY <1>1, <1>2, NamesIntact, ImplementsUpload, ServiceTypes, ServicePages, PTL

\* Where Redis answers, a page is behind the weights only for files whose
\* upload is not over, or never will be.
THEOREM OnlyInFlightLate ==
  ASSUME "redis" \notin Faults
  PROVE  ServiceSpec => LateInFlight
<1> DEFINE Late ==
             lpc = "rows" /\ Len(page') > Len(page) /\ page'[Len(page')].pv = -2 =>
               \E i \in DOMAIN list :
                 /\ list[i].id = page'[Len(page')].id
                 /\ pc[list[i].by] \in Halted \cup {"zincr"}
<1>1. ASSUME TypeInv, LP!ListingInv, DefaultWeight, [ServiceNext]_serviceVars
      PROVE  [Late]_serviceVars
  <2> SUFFICES ASSUME lpc = "rows", Len(page') > Len(page), page'[Len(page')].pv = -2
               PROVE  \E i \in DOMAIN list :
                        /\ list[i].id = page'[Len(page')].id
                        /\ pc[list[i].by] \in Halted \cup {"zincr"}
    OBVIOUS
  <2>1. page \in Seq(LP!Row) /\ Len(page) \in Nat
    <3>1. page \in Seq(LP!Row)
      BY <1>1 DEF LP!ListingInv, LP!TypeOK
    <3> QED BY <3>1
  <2>2. page' # page
    BY ONLY <2>1, Len(page') > Len(page)
  <2>3. L!AddRow
    <3>1. Reading
      BY <1>1, <2>2 DEF ServiceNext, Uploading, serviceVars, reader
    <3>2. ~ L!Answer
      <4>1. ASSUME L!Answer PROVE FALSE
        <5>1. page' = << >>
          BY <4>1 DEF L!Answer, L!Forget
        <5>2. Len(page') = 0
          BY ONLY <5>1
        <5> QED BY ONLY <2>1, <5>2, Len(page') > Len(page)
      <4> QED BY <4>1
    <3> QED BY <2>2, <3>1, <3>2
            DEF Reading, L!Request, L!Accept, L!AcceptUndefined, L!Serve, L!Connect, L!RangeList, L!RangeError, L!Cut,
                L!work
  <2> DEFINE id == rows[Len(page) + 1]
  <2>4. /\ page' = Append(page, [id |-> id, pv |-> L!PageView(score[id])])
        /\ Len(page) < Len(rows)
    BY <2>3 DEF L!AddRow
  <2>5. /\ rows \in Seq(Ids) /\ Len(page) + 1 \in 1..Len(rows)
        /\ id \in Ids
    <3>1. rows \in Seq(Ids)
      BY <1>1 DEF LP!ListingInv, LP!TypeOK
    <3> QED BY <2>1, <2>4, <3>1
  <2>6. \E i \in DOMAIN list : list[i].id = id
    <3>1. LP!Piece(rows, fromBuf, lenSeen, IdList)
      BY <1>1, lpc = "rows" DEF LP!ListingInv, LP!PageInv
    <3>2. \E i \in 1..Len(IdList) : IdList[i] = id
      BY ONLY <2>5, <3>1 DEF LP!Piece
    <3> QED BY <1>1, <3>2, IdListIs
  <2> HIDE DEF id
  <2>7. page'[Len(page')] = [id |-> id, pv |-> L!PageView(score[id])]
    BY <2>1, <2>4
  <2>8. score[id] = 0
    <3>1. score[id] \in Nat
      BY <1>1, <2>5 DEF TypeInv, TypeOK
    <3>2. L!PageView(score[id]) = -2
      BY <2>7
    <3> QED BY <3>1, <3>2 DEF L!PageView
  <2> QED BY <1>1, <2>6, <2>7, <2>8 DEF DefaultWeight
<1>2. Spec => []DefaultWeight
  BY WeightsAreOne
<1> QED BY <1>1, <1>2, ImplementsUpload, ServiceTypes, ServicePages, PTL
        DEF ServiceSpec, LateInFlight
=============================================================================
