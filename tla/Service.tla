------------------------------ MODULE Service ------------------------------
(***************************************************************************)
(* The service as a whole: the upload workers (Upload) and a listing       *)
(* worker (Listing) over one Redis server.  The list that LRANGE reads is  *)
(* the one that the workers push to, and a view count is the weight that   *)
(* they have given, in whatever order their commands arrive.               *)
(*                                                                         *)
(* The listing worker has an instance of Listing to itself; the processes  *)
(* share nothing but the list and the weights.                             *)
(***************************************************************************)
EXTENDS Integers, Upload

CONSTANTS
  Tokens,   \* what query strings are made of
  Queries,  \* the query strings that arrive
  Numeral,  \* what atoi makes of a numeral
  BufSize,  \* sizes of the listing worker's buffers, in tokens
  IntMax,   \* INT_MAX
  RowSize   \* VALUES_ID_SIZE

ASSUME IntAssumption == IntMax \in Nat \ {0} /\ RowSize \in Nat \ {0}
ASSUME QueriesAssumption == Queries \subseteq Seq(Tokens)
ASSUME NumeralAssumption == Numeral \in [DOMAIN Numeral -> -IntMax - 1 .. IntMax]

VARIABLES
  lpc,      \* where the listing worker is
  query, cmdBuf, fromBuf, countBuf, conns, rows, page, lenSeen, answer

reader == <<lpc, query, cmdBuf, fromBuf, countBuf, conns, rows, page, lenSeen, answer>>
serviceVars == <<vars, reader>>

\* FILE_INFO_LIST as its readers take it apart: the ids of its rows.  What
\* else is in a row is module Passage.
IdList == [i \in DOMAIN list |-> list[i].id]

L == INSTANCE Listing WITH pc <- lpc, entries <- IdList, weight <- score

ServiceInit == Init /\ L!Init

\* A step of an upload worker or of one of its tools
Uploading == Next /\ UNCHANGED reader

\* A step of the listing worker: it changes nothing in Redis.
Reading == UNCHANGED vars /\ ((\E q \in Queries : L!Request(q)) \/ L!Serve)

ServiceNext == Uploading \/ Reading

ServiceSpec == ServiceInit /\ [][ServiceNext]_serviceVars
-----------------------------------------------------------------------------
(* Properties *)

\* The listing worker among real upload workers, with everything that can
\* happen to them, behaves as Listing says, where the writers are FileStore.
ListingSpec == L!Spec

\* From one client to the other: a row that was shown is that of a file which
\* is still stored and listed, at its own address, under the name that its
\* client gave and with exactly the bytes that its client sent.
ShownIntact ==
  \A j \in DOMAIN answer.page : \E i \in DOMAIN list :
    /\ list[i].id = answer.page[j].id
    /\ list[i].url = <<list[i].id>>
    /\ list[i].req.kind = "file" => list[i].name = list[i].req.name
    /\ stored[list[i].id] = list[i].req.data

\* Where Redis answers, a row gets the view count -2 only while the worker that
\* listed the file is between its LPUSH and its ZINCRBY, or if it ended there:
\* whoever reads the page later is shown the true count.  (A ZSCORE answered by
\* an error gives -2 to any row.)
LateInFlight ==
  [][lpc = "rows" /\ Len(page') > Len(page) /\ page'[Len(page')].pv = -2 =>
       \E i \in DOMAIN list :
         /\ list[i].id = page'[Len(page')].id
         /\ pc[list[i].by] \in Halted \cup {"zincr"}]_serviceVars
=============================================================================
