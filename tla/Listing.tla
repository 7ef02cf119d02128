------------------------------ MODULE Listing ------------------------------
(***************************************************************************)
(* The `data` FastCGI worker (src/src/data.c, data_op.c): it answers       *)
(* cmd=newFile&fromId=..&count=.. with one page of FILE_INFO_LIST as JSON, *)
(* reading the page with one LRANGE and the weight of each row with one    *)
(* ZSCORE, while upload workers keep writing.                              *)
(*                                                                         *)
(* A query is a text, taken apart as the code does; a text is a sequence   *)
(* of tokens.  Numbers are machine integers.                               *)
(*                                                                         *)
(* The writers are FileStore, which the upload workers implement           *)
(* (UploadProof!Implements); their objects play no part here.              *)
(***************************************************************************)
EXTENDS Integers, Sequences

CONSTANTS
  Ids,     \* file ids
  Tokens,  \* what query strings are made of
  Queries, \* the query strings that arrive
  Numeral, \* what atoi makes of a token, if that is a numeral
  BufSize, \* key -> size of query_cmd_cmd, _fromId, _count, in tokens
  IntMax,  \* INT_MAX
  RowSize, \* VALUES_ID_SIZE
  Faults   \* what may fail: "redis"

Ints == -IntMax - 1 .. IntMax

ASSUME IntAssumption == IntMax \in Nat \ {0} /\ RowSize \in Nat \ {0}
ASSUME QueriesAssumption == Queries \subseteq Seq(Tokens)
ASSUME NumeralAssumption == Numeral \in [DOMAIN Numeral -> Ints]

VARIABLES
  entries,  \* FILE_INFO_LIST: ids, newest first
  weight,   \* FILE_HOT_ZSET, 0 for "no member"
  pc,       \* where the worker is
  query,    \* QUERY_STRING of the request that is served
  cmdBuf,   \* query_cmd_cmd
  fromBuf,  \* atoi(query_cmd_fromId)
  countBuf, \* atoi(query_cmd_count)
  conns,    \* Redis connections open
  rows,     \* file_list_values: the ids of the rows copied
  page,     \* the JSON array so far
  lenSeen,  \* history: length of the list when LRANGE ran
  answer    \* the last answer, with what it was made from

store == <<entries, weight>>
params == <<cmdBuf, fromBuf, countBuf>>
work == <<conns, rows, page, lenSeen>>
lvars == <<store, pc, query, params, work, answer>>

FS == INSTANCE FileStore WITH
        Objects <- {1}, Absent <- 0, objects <- [id \in Ids |-> 1]

\* What separates fields, ends a query, and separates a field's name and value
Ampersand == "&"
Hash == "#"
Equals == "="

\* No query string at all is one without parameters.
NoQuery == << >>

Row == [id : Ids, pv : Int]
NoAnswer == [query |-> NoQuery, from |-> 0, count |-> 0, len |-> 0, page |-> << >>]

Goto(l) == pc' = l

-----------------------------------------------------------------------------
(* The query: query_string_value_get and atoi *)

\* strstr: the first place of a key in the query, be it a field's name, the end
\* of a longer one ("dis", "count") or a value; 0 if there is none
KeyAt(q, key) ==
  IF \E i \in DOMAIN q : q[i] = key
  THEN CHOOSE i \in DOMAIN q : q[i] = key /\ \A j \in 1..(i - 1) : q[j] # key
  ELSE 0

\* The value starts behind the byte that follows the key, whatever that is.
ValueAt(q, key) == KeyAt(q, key) + 2

\* It ends in front of the next & or #, or with the query.
ValueEnd(q, from) ==
  CHOOSE e \in from..(Len(q) + 1) :
    /\ e \in DOMAIN q => q[e] \in {Ampersand, Hash}
    /\ \A j \in from..(e - 1) : q[j] \notin {Ampersand, Hash}

ValueOf(q, key) == SubSeq(q, ValueAt(q, key), ValueEnd(q, ValueAt(q, key)) - 1)

\* The value is read behind the query's end, or written behind its buffer's.
Unsafe(q, key) ==
  /\ KeyAt(q, key) # 0
  /\ KeyAt(q, key) # Len(q) => Len(ValueOf(q, key)) >= BufSize[key]

\* A key that is not found leaves the buffer alone.
ValueGet(q, key, buf) == IF KeyAt(q, key) = 0 THEN buf ELSE ValueOf(q, key)

\* A numeral is one token; what does not start with one is 0.
Atoi(value) ==
  IF value # << >> /\ value[1] \in DOMAIN Numeral THEN Numeral[value[1]] ELSE 0

\* Mutant: an empty value leaves the buffer alone, too.
MutantNumberGet(q, key, number) ==
  IF KeyAt(q, key) = 0 \/ ValueOf(q, key) = << >> THEN number ELSE Atoi(ValueOf(q, key))

\* The same for a buffer that atoi reads
NumberGet(q, key, number) ==
  IF KeyAt(q, key) = 0 THEN number ELSE Atoi(ValueOf(q, key))
-----------------------------------------------------------------------------
(* The page *)

\* An int sum or product as the processor leaves it
Wrap(n) ==
  IF n \in Ints THEN n ELSE ((n + IntMax + 1) % (2 * (IntMax + 1))) - IntMax - 1

\* Mutant: the last index taken for a length.
MutantEndId(from, count) == Wrap(from + count)
EndId(from, count) == Wrap(from + count - 1)

\* The argument of malloc for file_list_values
Bytes(count) == Wrap(count * RowSize)

\* LRANGE key a b, as the server defines it: negative indices count from the
\* end, and what is out of range is cut off.
First(a, n) == IF a >= 0 THEN a ELSE IF a + n >= 0 THEN a + n ELSE 0
Last(b, n) == IF b < 0 THEN b + n ELSE IF b >= n THEN n - 1 ELSE b
LRange(s, a, b) == SubSeq(s, First(a, Len(s)) + 1, Last(b, Len(s)) + 1)

\* The loop that copies k elements into file_list_values (and a mutant that
\* starts at the second)
MutantCopied(elements, k) == SubSeq(elements, 2, k)
Copied(elements, k) == SubSeq(elements, 1, k)

\* Mutant: the bound taken for an exclusive one.
MutantMaxCount(elements, count) ==
  IF count >= 1 /\ elements > count - 1 THEN count - 1 ELSE elements

\* max_count of rop_range_list: the number of elements, but at most its
\* argument `count`, which the caller set to endId.  The comparison is
\* unsigned, so a negative argument is no bound.
MaxCount(elements, count) ==
  IF count >= 0 /\ elements > count THEN count ELSE elements

\* rop_range_list: the rows it copies
RangeRows(list, fromPos, count) ==
  LET elements == LRange(list, fromPos, count)
  IN  Copied(elements, MaxCount(Len(elements), count))

\* rop_zset_get_score: -1 when the member has no score; the page shows it
\* less one.
PageView(score) == (IF score = 0 THEN -1 ELSE score) - 1
-----------------------------------------------------------------------------

Init ==
  /\ entries = << >> /\ weight = [id \in Ids |-> 0]
  /\ pc = "accept"
  /\ query = NoQuery
  /\ cmdBuf = << >> /\ fromBuf = 0 /\ countBuf = 0
  /\ conns = 0 /\ rows = << >> /\ page = << >> /\ lenSeen = 0
  /\ answer = NoAnswer

\* FCGI_Accept and the parameters of the query.  fromId and count are looked
\* for only under the command newFile, which may be the one of an earlier query.
Accept(q) ==
  /\ pc = "accept"
  /\ ~ Unsafe(q, "cmd")
  /\ cmdBuf' = ValueGet(q, "cmd", cmdBuf)
  /\ IF cmdBuf' = <<"newFile">>
     THEN /\ ~ Unsafe(q, "fromId") /\ ~ Unsafe(q, "count")
          /\ query' = q
          /\ fromBuf' = NumberGet(q, "fromId", fromBuf)
          /\ countBuf' = NumberGet(q, "count", countBuf)
          /\ Goto("connect")
     ELSE UNCHANGED <<query, fromBuf, countBuf, pc>>
  /\ UNCHANGED <<store, work, answer>>

\* A value is taken from behind the query or does not fit: what happens then
\* is undefined, and the model of the worker ends.
AcceptUndefined(q) ==
  /\ pc = "accept"
  /\ \/ Unsafe(q, "cmd")
     \/ /\ ValueGet(q, "cmd", cmdBuf) = <<"newFile">>
        /\ Unsafe(q, "fromId") \/ Unsafe(q, "count")
  /\ Goto("undefined")
  /\ UNCHANGED <<store, query, params, work, answer>>

\* A NULL result goes to printf("%s"), which prints something or crashes.
PrintNull ==
  /\ query' = NoQuery
  /\ \E l \in {"accept", "crashed"} : Goto(l)

\* rop_connectdb_nopwd: a connection, or a NULL result.
Connect ==
  /\ pc = "connect"
  /\ \/ conns' = conns + 1 /\ query' = query /\ Goto("range")
     \/ "redis" \in Faults /\ conns' = conns /\ PrintNull
  /\ UNCHANGED <<store, params, rows, page, lenSeen, answer>>

\* malloc has no room for a negative number of bytes, which is a huge size_t.
NoArray == Bytes(countBuf) < 0

\* The rows rs do not fit into what was allocated.
Overflows(rs) == Len(rs) > 0 /\ Len(rs) * RowSize > Bytes(countBuf)

\* rop_range_list copies the rows.  Where they do not fit, the worker may die
\* or get away with it; where there is no array, the first row kills it.
RangeList ==
  /\ pc = "range"
  /\ rows' = RangeRows(entries, fromBuf, EndId(fromBuf, countBuf))
  /\ lenSeen' = Len(entries)
  /\ page' = << >>
  /\ \/ (NoArray => rows' = << >>) /\ Goto("rows")
     \/ Overflows(rows') /\ Goto("crashed")
  /\ UNCHANGED <<store, query, params, conns, answer>>

\* Mutant: the error path does not disconnect.
MutantRangeError ==
  /\ pc = "range"
  /\ "redis" \in Faults
  /\ PrintNull
  /\ UNCHANGED <<store, params, conns, rows, page, lenSeen, answer>>

\* LRANGE is answered by an error: disconnect, and a NULL result.
RangeError ==
  /\ pc = "range"
  /\ "redis" \in Faults
  /\ conns' = conns - 1
  /\ PrintNull
  /\ UNCHANGED <<store, params, rows, page, lenSeen, answer>>

\* Mutant: the row is put in front of the array.
MutantAddRow ==
  /\ pc = "rows"
  /\ Len(page) < Len(rows)
  /\ LET id == rows[Len(page) + 1]
     IN  page' = <<[id |-> id, pv |-> PageView(weight[id])]>> \o page
  /\ UNCHANGED <<store, pc, query, params, conns, rows, lenSeen, answer>>

\* One turn of the loop over the rows: the columns of the row and its ZSCORE.
AddRow ==
  /\ pc = "rows"
  /\ Len(page) < Len(rows)
  /\ LET id == rows[Len(page) + 1]
     IN  \E score \in {weight[id]} \cup (IF "redis" \in Faults THEN {0} ELSE {}) :
           page' = Append(page, [id |-> id, pv |-> PageView(score)])
  /\ UNCHANGED <<store, pc, query, params, conns, rows, lenSeen, answer>>

\* The locals of file_list_to_json_print end with it.
Forget == query' = NoQuery /\ rows' = << >> /\ page' = << >> /\ lenSeen' = 0

\* Mutants: the connection is not closed; the loop runs one turn too far.
MutantAnswer ==
  /\ pc = "rows"
  /\ Len(page) = Len(rows)
  /\ answer' = [query |-> query, from |-> fromBuf, count |-> countBuf,
                len |-> lenSeen, page |-> page]
  /\ Forget
  /\ Goto("accept")
  /\ UNCHANGED <<store, params, conns>>
MutantAnswerLate ==
  /\ Len(page) > Len(rows)
  /\ MutantAnswer

\* The array is printed, the connection closed, the answer sent.
Answer ==
  /\ pc = "rows"
  /\ Len(page) = Len(rows)
  /\ answer' = [query |-> query, from |-> fromBuf, count |-> countBuf,
                len |-> lenSeen, page |-> page]
  /\ conns' = conns - 1
  /\ Forget
  /\ Goto("accept")
  /\ UNCHANGED <<store, params>>

\* The connection breaks: redisCommand returns NULL, which is dereferenced.
Cut ==
  /\ "redis" \in Faults
  /\ pc = "range" \/ (pc = "rows" /\ Len(page) < Len(rows))
  /\ Forget
  /\ Goto("crashed")
  /\ UNCHANGED <<store, params, conns, answer>>

\* The upload workers list and weigh files.
Writers ==
  /\ \E id \in Ids : FS!Publish(id) \/ FS!Weigh(id)
  /\ UNCHANGED <<pc, query, params, work, answer>>

Request(q) == Accept(q) \/ AcceptUndefined(q)

Serve == Connect \/ RangeList \/ RangeError \/ AddRow \/ Answer \/ Cut

Next == (\E q \in Queries : Request(q)) \/ Serve \/ Writers

Spec == Init /\ [][Next]_lvars

\* The worker runs while it has a request; neither clients nor writers need
\* do anything.
FairSpec == Spec /\ WF_lvars(Serve)

-----------------------------------------------------------------------------
(* Properties *)

\* The values of cmd that arrive
Commands == {ValueOf(q, "cmd") : q \in {r \in Queries : KeyAt(r, "cmd") \in 1..(Len(r) - 1)}}

TypeOK ==
  /\ entries \in Seq(Ids)
  /\ weight \in [Ids -> {0, 1}]
  /\ pc \in {"accept", "undefined", "connect", "range", "rows", "crashed"}
  /\ query \in Queries \cup {NoQuery}
  /\ cmdBuf \in Commands \cup {<< >>}
  /\ fromBuf \in Ints
  /\ countBuf \in Ints
  /\ conns \in {0, 1}
  /\ rows \in Seq(Ids)
  /\ page \in Seq(Row)
  /\ lenSeen \in Nat
  /\ answer \in [query : Queries \cup {NoQuery}, from : Ints, count : Ints,
                 len : Nat, page : Seq(Row)]

\* The last index and the size in bytes of a page are ints.
NoWrap(from, count) == from + count - 1 \in Ints /\ count * RowSize \in Ints

\* Where neither wraps, rop_range_list never copies more rows than
\* file_list_values has room for, although its bound is endId and not count,
\* but for one case: from the front, a count of 0 or less that makes endId
\* negative, which LRANGE counts from the end and the unsigned bound takes for
\* a large one.
RowsFit ==
  pc = "rows" /\ NoWrap(fromBuf, countBuf) =>
    ~ Overflows(rows) \/ (fromBuf >= 0 /\ fromBuf + countBuf <= 0)

\* An answer is a gapless piece of the list, in list order, starting at fromId
\* of the list as LRANGE saw it (from its end if that is negative): entries
\* that were listed since are only in front of it.
AnswerIsSlice ==
  \A j \in DOMAIN answer.page :
    LET i == Len(entries) - answer.len + First(answer.from, answer.len) + j
    IN  i \in DOMAIN entries /\ answer.page[j].id = entries[i]

\* A client that pages on misses nothing: if a page is asked for that starts no
\* further on than the last one reached, its first row is at most one behind
\* the last row of that one, whatever was listed in between.
NothingSkipped ==
  [][LET last == answer.page[Len(answer.page)].id
         next == answer'.page[1].id
     IN  /\ answer' # answer
         /\ answer.page # << >> /\ answer'.page # << >>
         /\ answer.from >= 0
         /\ answer'.from \in 0..(answer.from + Len(answer.page))
         => \E i, j \in DOMAIN entries' :
              entries'[i] = next /\ entries'[j] = last /\ i <= j + 1]_lvars

\* A page that does not start at 0 is full, or ends where the list ended, if
\* its last index is an int.
LaterPagesFull ==
  /\ answer.from > 0 /\ answer.count >= 0
  /\ answer.from + answer.count - 1 \in Ints
  =>
    Len(answer.page) =
      IF answer.from + answer.count <= answer.len THEN answer.count
      ELSE IF answer.from <= answer.len THEN answer.len - answer.from ELSE 0

\* Every way out of file_list_to_json_print closes its connection.
NoOpenConnection == pc = "accept" => conns = 0

\* A request that is accepted is answered, or the worker is gone.
Answered == pc = "connect" ~> pc \in {"accept", "crashed"}

\* What redis_keys.h says of reading the list, LRANGE key 0 max-1: the first
\* page has max entries.
FirstPageFull ==
  answer.from = 0 =>
    Len(answer.page) = IF answer.count <= answer.len THEN answer.count ELSE answer.len

\* The fields of a query stand between its &s; `first` and `last` are one's
\* first and last tokens.
IsField(q, first, last) ==
  /\ first \in DOMAIN q /\ last \in first..Len(q)
  /\ first > 1 => q[first - 1] = Ampersand
  /\ last < Len(q) => q[last + 1] = Ampersand
  /\ \A i \in first..last : q[i] # Ampersand

\* A query in which nothing but the names of three fields reads like them
Plain(q) ==
  \A i \in DOMAIN q :
    /\ q[i] # Hash
    /\ q[i] \in {"cmd", "fromId", "count"} =>
         /\ i > 1 => q[i - 1] = Ampersand
         /\ i < Len(q) /\ q[i + 1] = Equals
         /\ \A j \in DOMAIN q : q[j] = q[i] => j = i

\* A field of a plain query gives the answer its number, an empty one 0: it is
\* found wherever it stands, its value ends where it ends, and nothing that an
\* older query left in the buffer shows.
OwnParameters ==
  LET q == answer.query
  IN  Plain(q) =>
        \A first, last \in DOMAIN q : IsField(q, first, last) =>
          /\ q[first] = "fromId" => answer.from = Atoi(SubSeq(q, first + 2, last))
          /\ q[first] = "count" => answer.count = Atoi(SubSeq(q, first + 2, last))
=============================================================================
