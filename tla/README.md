# A TLA+ model of the file sharing service

The program is a small web service in C. A front end (nginx with FastCGI) passes
uploads to `echo` workers and listing requests to `data` workers. Uploaded files
go to a FastDFS storage, and a Redis server keeps the list of files and their
weights. This directory holds TLA+ specifications of that program, TLC
configurations, and proofs for TLAPS. Paths such as `echo_op.c:206` are relative
to `src/src/`.

## 1. Inventory of the system

| component | source | state | operations |
|---|---|---|---|
| upload worker | `echo.c`, `echo_op.c` | buffers of `main` (`text_source`, `file_name`, `file_id_fdfs`, `file_url_fdfs`), open descriptors, a child and its pipe | `main` loop, `fiel_source_get`, `recv_file_upload`, `file_url_make`, `file_msg_store_to_redis` |
| listing worker | `data.c`, `data_op.c` | buffers of `main` (`query_cmd_*`), a Redis connection per request | `main` loop, `query_string_value_get`, `file_list_to_json_print` |
| Redis access layer | `redis_op.c`, `redis_op.h`, `redis_keys.h` | a hiredis connection: commands queued, replies read | connect, select, flush, hashes, lists, sorted sets, batches, disconnect |
| log writer | `make_log.c` | the tree `./logs/<module>/<year>/<month>`, one mutex per process | `dumpmsg_to_file`, `make_path`, `out_put_file` |
| string utilities | `util_cgi.c`, parts of `echo_op.c` | none, but they read around their arguments | `memstr`, `get_file_suffix`, `get_value_by_col`; not called: `trim_space`, `query_parse_key_value`, `str_replace`, `cgi_init` |
| key manager log | `keymnglog.c` | none that outlives a call | one formatted line appended to a dated file; nobody calls it |
| cJSON | `cJSON.c` | trees on the heap | vendored library |
| test programs | `demo.c`, `test_main.c`, `echo_sunyan.c` | none | not part of the service |
| FastDFS and its tools | configuration only | objects by id | `fdfs_upload_file`, `fdfs_file_info`, run as child processes |
| Redis server | configuration only | `FILE_INFO_LIST`, `FILE_HOT_ZSET` | LPUSH, LRANGE, ZINCRBY, ZSCORE |

How they interact:

* Upload workers share one working directory. Each saves its upload there under
  the client's file name (`echo_op.c:206`), forks `fdfs_upload_file` on it, reads
  the file id from a pipe, forks `fdfs_file_info` for the address, sends
  LPUSH and ZINCRBY, and unlinks the file.
* Listing workers only read Redis: one LRANGE per page and one ZSCORE per row,
  while upload workers go on writing.
* Every process calls the log writer, in the same directory.
* Workers are independent processes. There are no threads, locks, retries or
  transactions, and nothing in the repository restarts a worker that died.

What is hard here: two workers in one directory in any order; a worker that dies
between two of the four stores it writes to (disk, FastDFS, list, sorted set); the
tool that stores an object and loses its answer; results nobody looks at
(`ftruncate`, `write`, `rop_list_push`, `rop_zset_increment`, the second `pipe`);
buffers that outlive a request and are only partly cleared; a descriptor leaked by
each request; a list that moves under the page being read; directories tested
first and made afterwards. `PROJECT.json` lists these under `hazards`, each at its
line with the properties that watch it.

What makes each component correct:

* **Upload worker**: an entry of the list names an object that is stored, with that
  object's address and the name and content its client sent; no object is listed
  twice; a stored object is listed or its worker died or failed; the weight is 1;
  nothing is left in the working directory; each request ends.
* **Listing worker**: a query is answered with its own parameters; a page is a
  gapless piece of the list and fits into its array; a client that pages on misses
  nothing; connections are closed; each request is answered.
* **Log writer**: the directories of a line are there when it is written; a race
  costs a line at most once per directory.
* **Redis layer**: one reply is read for each command sent; a result says what
  happened; no reply or context is lost or freed twice.
* **String utilities, with the parser of uploads and the rows of the list**: what a
  browser sends as a file is saved under its name with its bytes, whatever older
  bodies left in the buffer and older uploads in the directory; what is saved comes from the request being served; a row
  is read back with the columns it was written with; no search leaves its text.

## 2. Modules

| module | what it is |
|---|---|
| `FileStore` | abstract: what the service promises its stores |
| `Upload` | the upload workers, their tools, directory, and stores |
| `MCUpload` + `Upload*.cfg` | instances of `Upload` |
| `UploadProof` | theorems about `Upload` |
| `Listing` | a listing worker, with `FileStore` as its writers |
| `MCListing` + `Listing*.cfg` | instances of `Listing` |
| `ListingProof` | theorems about `Listing` |
| `Text` | bytes, C strings, `strstr`, `strchr`, `memstr` |
| `Form` | the body of a request and `fiel_source_get`, byte by byte |
| `Row` | the rows of `FILE_INFO_LIST`, written and read |
| `Passage` | `Form` and `Row` composed: from a browser's form to the list that is shown |
| `MCPassage` + `Passage.cfg`, `Form*.cfg`, `RowColumns.cfg` | instances of `Passage` |
| `TextProof`, `FormProof`, `PassageProof` | theorems about these |
| `Service` | `Upload` and `Listing` composed: a listing worker among upload workers |
| `MCService` + `Service.cfg` | an instance of `Service` |
| `ServiceProof` | theorems about `Service` |
| `MakeLog` | processes that log in one directory |
| `MCMakeLog` + `MakeLog*.cfg` | instances of `MakeLog` |
| `MakeLogProof` | theorems about `MakeLog` |
| `RedisOp` | a program that calls the Redis layer |
| `MCRedisOp` + `RedisOp.cfg` | instances of `RedisOp` |
| `RedisOpProof` | theorems about `RedisOp` |

`Upload` implements `FileStore` (run `upload_faults`, theorem `Implements`), and
`Listing` takes its writers from `FileStore`: what is shown of a listing worker
holds against anything upload workers can do to the list and the weights. `Service`
puts the two side by side, and implements both (theorems `ImplementsUpload`,
`ImplementsListing`), so what holds of each half holds of the whole.
`Passage` implements `Form` (theorem `ImplementsForm`). The two halves look at
different things: `Upload` and `Listing` at processes, failures and stores, with
names and contents as values; `Form`, `Row` and `Passage` at the bytes that one
upload worker and one listing worker pass to each other, with no process between
two steps.

### Upload

One action per system call or command that another process can observe; what a
worker does in its own memory between two of them is part of the action before.

| action | code | note |
|---|---|---|
| `Accept` | `echo.c:63-92` | a request arrives and its body is read; a body shorter than CONTENT_LENGTH ends the worker |
| `SourceFails`, `OpenLocal` | `echo_op.c:115-211` | `strstr` looks up to the first NUL, so `residue` holds the names an older, longer body left behind |
| `Truncate`, `Write` | `echo_op.c:213-228` | no O_TRUNC or O_EXCL, no result looked at; `fdLive` says whether the descriptor still refers to the file of that name |
| `PipeFails`, `Spawn` | `echo_op.c:244-265` | the read end of the pipe is never closed: `leaked` |
| `ToolUploads`, `ToolFails`, `ToolLosesAnswer` | external | the tool reads the file as it is at that moment, even if the worker is dead |
| `WaitChild` | `echo_op.c:264-275` | `wait`, then `read` |
| `UrlMade`, `UrlCrashes` | `echo_op.c:284-341` | an empty id has no address, and the result of `strstr` is used |
| `Connect`, `Lpush`, `Zincr`, `RedisCut` | `echo_op.c:345-414`, `redis_op.c` | an error reply is ignored; a broken connection gives a NULL reply that is dereferenced |
| `Finish` | `echo.c:114-126` | unlink and the memsets |
| `Kill` | external | SIGKILL anywhere |

Contents are sequences of blocks (a zero block is what `ftruncate` adds), names
and ids are model values, a URL is the sequence of ids whose address was appended
to it. Record fields `req` and `by` of a list entry are history for the
properties. A request is one of four kinds: a file, a form without a file name, a
malformed body, a short body. `Faults` says what may fail. `residue` is an
over-approximation: a name may be found behind a shorter body or not, and when is
what `Form` says. The content of a form is what the parser takes for it, the text of
the first part; that this is not always the file is a matter of `Form` too.

### Listing

`Accept` is the FastCGI loop and `query_string_value_get`. A query is a text of
tokens: the names of the fields, their values, `=`, `&` and `#`. `KeyAt` is the strstr
that finds a key anywhere, be it in a value or at the end of a longer name (`dis`,
`count`); `ValueAt` skips the byte behind it, whatever that is, and `ValueEnd` stops at
`&`, `#` or the end. A key that ends the query, or a value that does not fit its buffer
(`Unsafe`), leads to `AcceptUndefined`, where the model of the worker ends. The buffers
are `cmdBuf`, and the numbers `fromBuf`, `countBuf` that atoi makes of the other two;
they outlive the request, and a key that is not found leaves them alone.

`Connect`, `RangeList`, `RangeError`, `AddRow` and `Answer` are the steps of
`file_list_to_json_print`; `RangeRows` is `rop_range_list` with LRANGE as the server
defines it, negative indices included. `EndId` (`data_op.c:98`) and `Bytes`, the argument
of malloc (`data_op.c:112`), are ints of `-IntMax - 1 .. IntMax` and wrap around (`Wrap`).
Rows that need more than `Bytes` (`Overflows`) may end the worker or not; a negative
`Bytes` is no array at all (`NoArray`), and the first row copied ends the worker. `Cut` is
a connection that breaks. A row is its id and its view count; where ZSCORE is answered by
an error that is -2, the count of a file without a weight. `answer` and `lenSeen` are
history.

### Service

`Uploading` is a step of `Upload`, `Reading` a step of `Listing` as the instance `L`,
in which the list is the ids of the rows that the workers pushed (`IdList`) and the
weights are those they gave. The listing worker has its own variables; it changes
nothing that an upload worker reads. Faults are those of `Upload`; with `"redis"`
among them the connections of the listing worker may break too. Its properties go
from one client to the other: what was sent, and what is shown.

### Text, Form, Row and Passage

A byte is a token of the constant set `Byte`. What the code looks for has a token of
its own (CR, LF, NUL, quote, bar, backslash, dot, slash); what it never looks into is one
token: a boundary line, the word `filename=`, a URL. A buffer is a sequence, a
position an index, and 0 a NULL result. The searches are defined by what they
find, `strstr` up to the first NUL, `memstr` in a number of bytes.

| definition | code | note |
|---|---|---|
| `Body` | external | what a browser sends for a file, a field, or both; other bodies are any bytes |
| `Accept` | `echo.c:63-92` | the body overwrites the front of `text`, and the rest of an older body stays; one that fills the buffer is undefined |
| `NameIn`, `Named`, `NameUndefined` | `echo_op.c:146-164` | the second quote is looked for past any NUL; the terminator is written one byte too far |
| `LineEnd`, `boundary`, `BoundaryUndefined` | `echo_op.c:167-181` | the first line, whatever it is |
| `HeaderEnd`, `ContentAt`, `ContentEnd`, `Content` | `echo_op.c:183-219` | the first empty line of the body; for a negative length ftruncate and write fail, and the local file keeps what it held |
| `MayOpen`, `MayNotOpen` | `echo_op.c:206-211` | a name that open takes or refuses; a refusal ends the worker |
| `Reject`, `Save`, `Fail`, `Finish` | `echo_op.c:115-229`, `echo.c:93-126` | `Finish` has the memsets, of which one clears `sizeof(char *)` bytes |
| `RowText`, `file_suffix_get` | `echo_op.c:30-100`, `368-404` | nothing is escaped |
| `get_value_by_col`, `FirstColumn`, `Leaves` | `util_cgi.c:207-263` | a missing column leaves the old value, or the loop leaves the row |
| `ReadList`, `AddRow`, `RunAway`, `Send` | `data_op.c:112-203` | one turn of the loop is one action; the buffers are cleared once per page |
| `Publish` | `echo.c:113-126` | `Finish` and `Store` in one step |

`Unopenable` are the names, besides the empty one, that no file can have: those of
directories, such as `.`, `..` and the `logs` that `make_log.c` makes in the same
directory. Behind a slash either may happen, as a directory of that name is there or
not. `Leftovers` is what a local file of that name may hold when open finds one, left
by a worker that died or by one that serves the same name; `Upload` has how it gets
there.

Where the program's behaviour is undefined (a search or a copy that leaves its
buffer) the worker goes to `"undefined"` and stays there; the properties say who
cannot get there. The byte in front of a row, which `get_value_by_col` reads for
column 1, is chosen from NUL and backslash for every row but the first. The first
bytes of `text`, as many as a pointer has, are one token in the model: a boundary is
longer than that. `names` and `sent` are history.

### MakeLog

`Call` chooses one of the module names that the process logs under (`ModulesOf`): its own
(`echo.c`), that of `redis_op.h:17`, that of `data_op.c`. `Access`, `Mkdir`, `MkdirExists`
are the system calls of `make_path` in its else-if chain, `Write` is `out_put_file`, `Tick`
is midnight. A directory is the sequence of its names below `./logs`; `made` records who
made it. An idle process has no path; `NoPath` stands for that.

### RedisOp

One program, at most one connection, one operation after the other. The connection
is hiredis': commands are appended, flushed when the first reply is wanted, and
answered in order, so its queues are the counters `read <= executed <= written <=
appended`, and an error stays in the context (`err`) and stops all later writes.
That part, the server and the network are external. From `redis_op.c` come the
phases of an operation (`AppendCommand`, `AppendFails`, `Read`, `GetFails`, `End`),
the four ways to connect, and what each operation makes of a reply (`Result`,
`Fatal`). A single command is a batch of one; that is what `redisCommand` does.
A reply is its kind and a number, 0 or 1. `NullOnly`, `Inspecting` and `Batches`
sort the operations by how they meet a NULL reply: an operation that looks into it
ends the process, the others return -1 if `freeReplyObject` bears NULL (that depends
on the version of hiredis), and a batch that fails after its first turn frees a reply
twice, so it may return or end. `done` and `last` are history.
`rop_zset_increment` compares the answer of ZINCRBY with "OK" and so returns -1 after
every success (`Result`), against the comment at `redis_op.c:926`; its one caller does not look.
`Upload` and `Listing` have their own, shorter actions for the four operations
they call, since there a process shares the server with others and what matters is
the data.

## 3. Runs

| run | question | result |
|---|---|---|
| `upload_faults` | two workers that get the same name, every kind of request, every fault | the list never names a missing object or one twice, names are intact, a waiting worker leaves no file in the directory, and `FileStore` is implemented |
| `upload_private` | two fair workers with names of their own, killed anywhere, two lengths of content | listed objects hold what was sent, nothing stored is lost track of, descriptors bound a worker's life, each request ends, a file is listed while descriptors and storage last |
| `upload_shared_name` | as `upload_private`, same name | **violated** `Integrity`: an entry whose object is another client's content |
| `listing` | one listing worker, growing list, queries that are whole, cut off, misplaced or too long, sizes that wrap, Redis faults | pages are gapless; where no size wraps they fit but for a count of 0 from the front; plain queries get their own parameters; connections are closed and requests answered; a client that pages on by the rows it got misses none |
| `listing_first_page` | pages from 0 | **violated** `FirstPageFull`: one row is missing, `endId` is taken for a count |
| `service` | two upload workers whose tools fail and that are killed anywhere, one listing worker | a page shows each file with its address, name and bytes; a weight is late only while, or because, its worker did not get to ZINCRBY |
| `make_log` | two processes, each logging under two names, two months | a lost line is covered by a directory made by another process, once; mkdir never lacks a parent |
| `redis_op` | any operations and batches on a connection that may break | replies stay with their commands, a rejected batch is never sent, checked results are true, one leak only, operations end |
| `passage` | any sequence of good, odd and cut-off requests, two of them listed and read back, over a directory that may hold a file or a directory of that name | a browser's file is taken whole, not refused, from its own request and under its name; rows with plain names come back; only a name that ends with a backslash takes the reader off its row; what was sent is shown |
| `form_stale_name` | a form with a field after one with a file | **violated** `NameIsUploaded`: it is saved under the older file's name |
| `form_field_first` | a form with a field before its file | **violated** `ContentIsFile`: the field is saved under the file's name |
| `row_columns` | names with bars and line ends | **violated** `ColumnsAreFields`: a part of the name is shown |

The violations are findings; `PROJECT.json` quotes the comments they contradict.

**Bounds.** `upload_faults` and `upload_private` have two workers: every property
of `Upload` relates at most two workers (one that disturbs and one that suffers),
since they share only the directory and the stores. `Ids` (two or three)
is how much FastDFS holds; it bounds the run and also makes a full storage happen.
`FdLimit` is 3 or 4, so a worker serves one or two uploads and then meets the limit;
two uploads are needed for anything left over from an earlier request. Contents of
one and two blocks are enough for a truncation that matters, a hole and an overlap.
Three entries with the positions and counts of `MCListing` let a page be empty, partial,
full, at either end and inside the list, while the list grows. With `IntMax` 15 and
`RowSize` 4 the counts 8 and 15 make the size in bytes 0 and negative, as 4194304 and
others do for the real widths, and the last index of 15 rows from 2 on wraps. The other
queries lack a command or a count, have an empty or an over-long one, end in a key,
or have `count` behind `dis`; buffers are of two or three tokens. Requests and queries
are unbounded in number everywhere; nothing is cut by a state constraint.
In `service` two workers and three ids give a list that grows under a page and before
the next one, and pages of two rows from the front and from behind it. `IntMax` is 31
there: no size wraps. Each worker has a name of its own there, since
`ShownIntact` needs that; Redis does not fail, since `LateInFlight` needs that.
`MakeLog` has two processes of one program with two names each: they race for `./logs`,
for the directory of a name, and, on the second day, for the year and the month below each.
`RedisOp` has three commands per connection and batches of up to two: a batch that
fails half way leaves one command, and another operation can follow it. Two contexts
let one leak while another connection works.
`Passage` has `Size` 40, `NameSize` 8 and `BoundarySize` 16 tokens: each form of
`MCPassage` fits with room behind it, so that older bodies show through, and there is
one request that fills the buffer. `logs` is a directory there, `x/x.y` a name that may open or
not, and a local file is empty, new, or holds `y`. The requests have contents that look like the end
of a header or hold a zero byte, names with every byte the reader knows, both line
ends, and bodies that end too early, at once, or without a quote. Requests follow
one another without a bound; two ids bound the list, which is enough for a row after
another.

**Symmetry** is used only in runs without liveness: ids and workers of
`upload_faults`, the ids of `service`, the processes of `make_log`.

**Deadlock** is not checked in the `Upload`, `Listing`, `Service` and `Passage` runs: workers that
died are not restarted, so the system really may stop; nor in `RedisOp`, where a program that
has used its commands and contexts, or died, is at its end. It is checked in
`MakeLog`.

**Fairness.** `Upload!FairSpec`: weak fairness of each worker's own steps (a
runnable process is scheduled, and each blocking call of it has an answer) and of
each tool (`client.conf` gives it `connect_timeout=30` and `network_timeout=60`, so
it ends one way or the other). Clients and `Kill` have no fairness.
`Listing!FairSpec`: weak fairness of the worker's steps while it has a request;
neither queries nor writers are fair. `RedisOp!FairSpec`: weak fairness of the
program inside an operation, and of the server: no connection of this code has a
timeout for replies, so a silent server would block it for ever.

## 4. Proofs

The theorems hold for every value of the constants under the assumptions named in
the modules: `NamesAssumption`, `ContentsAssumption`, `KindsAssumption`,
`IdsAssumption`, `FdAssumption` (at least two descriptors) in `Upload`;
`IntAssumption` (the width of an int and of a row are positive), `QueriesAssumption`,
`NumeralAssumption` (atoi gives an int) in `Listing`, and the same in `Service`;
`ModuleAssumption`, `FiniteAssumption` (a process has finitely many module names),
`DayAssumption`, `NobodyAssumption` in `MakeLog`; `BoundAssumption` in `RedisOp`;
`ByteAssumption` in `Text`; `SizeAssumption` (every buffer has at least a byte or
two), `TokenAssumption`, `RequestsAssumption`, `LeftoversAssumption` in `Form`; `FieldAssumption` (what FastDFS
and the clock say of a file has no bar, backslash or line end, and an id is not
empty), `NullAssumption`, `FileNamesAssumption` in `Row`.

**UploadProof.** `TypeInv` adds to `TypeOK` that a live descriptor's file is there
and that the states after parsing have a name, without which `write` does not
type. `EntryInv` is the inductive invariant behind `EntriesResolve`,
`EntriesUnique` and `Implements`. It says of every id who *holds* it: the
pipe, the id buffer of the worker between `wait` and LPUSH, the list. No two of
these hold one id (`Exclusive`), a held id is stored, URL and id buffers agree
(`Held`), and an id has a weight only when its worker is past ZINCRBY
(`Weighed`). A lost answer or a dead worker only drops a holder, which is why
crashes need no case of their own. `Implements` maps the tool's step to `Store`,
LPUSH to `Publish`, ZINCRBY to `Weigh`, everything else to a stutter.
`FdReserved`, `NamesIntact`, `NothingLeftOver` and `LifeBounded` have small invariants of
their own; the last counts the entries of a worker against its descriptors.

`ListedIntact`, in the same module, proves `Integrity` from two further
assumptions, `DisjointNames` (no name arrives at two workers) and that the disk
takes what is written. Run `upload_shared_name` shows that the first is needed; the
second is needed because a short write is not noticed. The invariant follows the
content from the request through truncation and write to the object, and says that
a worker's file is touched by no other. `NothingLost` (no faults of the tool or of
Redis) follows an id from the pipe to the list, and `WeightsAreOne` (none of Redis) the
weight; both take any kills.

**ListingProof.** `CopiedFits` is the arithmetic of `rop_range_list`: where `endId`
is negative and so no bound, LRANGE returns at most `count` rows, and where it is
not, `endId` itself is small enough or LRANGE is. `PagesFit` follows for all queries
whose last index and size in bytes are ints, with the one case that `RowsFit` names;
`LaterPagesAreFull` uses the same arithmetic, for a last index that is an int. Where one of
them wraps, nothing is claimed of either: 4194304 rows allocate no byte, and the page from 2
on with 2147483647 rows is empty. `PagesAreSlices` holds there, too: it rests on
`PieceKept`: an entry added in front moves
a piece of the list and does not break it. `PagesJoin` is about two answers: the
last row of the older one stands where `AnswerIsSlice` puts it in the list as it is now,
the first of the newer one where its own length puts it, and the second is no further
back because the list has only grown in between (`GrowInv`). The page is counted in
rows received: a client that adds `count` instead loses the row that run
`listing_first_page` shows to be missing. `ParametersFound` finds a field of a plain query
where strstr finds its key, since nothing else in the query reads like it, and its value
where the code stops, since the field ends at `&` or with the query; the invariant carries
that from `Accept` to the answer. `ConnectionsClosed` and `TypeCorrect` come from the same
invariant `ListingInv`.

**MakeLogProof.** `LossesBounded` counts without a history of races. While a
process makes directories, those it is still to make (`Rest`) were missing when it
looked, so an earlier loss is covered by directories outside `Rest`; a directory it
then finds made by another is a fresh cover for the line it may lose. That
children are missing when a directory is missing is `Closed`. The bound counts the
directories of all the names a process logs under, of which there are finitely many.

**RedisOpProof.** `InStep` is not inductive: it says nothing of an operation that is
still appending, and nothing of a connection in error. `Tidy` adds both: while
commands are appended nothing of them is written, and rejected commands exist only
on a connection in error, which is why they stay unwritten (`RejectedStayHome`).
`Owned` says who holds the context inside an operation, which gives `OneLeak`.
`CheckedInv` follows one command and its reply to `SuccessMeansDone`.

**TextProof** has what the searches return: the first position at which a text stands,
0 only if there is none before the terminator, and that a string laid out in pieces
is found where its pieces were put.

**FormProof.** `FormInv` is `FormTypeOK`, the two facts that carry over from one request
to the next (`Held`: while a request is parsed its body is the front of `text`;
`NameClear`: `file_name` is zero between requests) and the three properties. That is
why `FilesTaken` needs no assumption about older bodies: every search that matters for
a regular file ends inside its own body, and the lemmas compute where, in the layout
that `Body` gives it, for CR LF and for LF. `FilesAccepted` is the same computation
for the guards, for a name that open takes: one without a slash that is not in `Unopenable`.
`BytesAreOwn` is for any body: `memstr` ends inside the body, so what
lies between it and the empty line before it does, or the length is negative and the
local file keeps one of `Leftovers`.

`NamesWereSent` proves `NameWasSent`, which is about a form without a file: its name
is looked for in what older bodies left in `text`. Nothing is mixed there, because a
body overwrites the buffer from its front: it covers an older `filename=` or leaves it
and all of the name behind it. `SentInv` says so of the next request too. It joins to
`NameWasSent` the two parts `NamesLeft` (a `filename=` that some field form would leave
uncovered is followed by a name that was sent, in quotes) and `NamesHeld` (the history
has the name of the request being parsed, and its names end at their quote); the run
`passage` was used to check it before it was proved. The layout of each kind of body (`FieldBody`,
`FileBody`) says where its only `filename=` is. The premise `ProperNames` says what
names are to be told apart: a name has no quote, zero byte or `filename=` in it, a
content has no `filename=`, and a body that is no form has it only where a field form
overwrites it. Without the last, such a body could leave a name that no client gave as one.
The requests of `MCPassage` satisfy it, which TLC evaluates.

**PassageProof.** `RowShape` gives the positions of the five bars in `RowText`, whatever
the texts are; for a plain name these are exactly the first five `Ends`, which is what
`PlainColumns` says and `PlainRowsComeBack` needs. For any name, plain or not, five ends
are found unless the name ends with a backslash (`FiveFound`). `RowInv` adds that the
values in the list are rows. `PassageInv` joins `FormInv`, `RowInv` and `SentKnown`,
which says that a listed file has the name of the request in `sent`;
`EveryFileShownAsSent` follows, and `TypeCorrect` for both workers together.

**ServiceProof.** The theorems of `ListingProof` are taken over by an instance `LP` of
that module, with the list and the weights of the workers in place of its own.
`ServiceStep` is the step of the refinement: a step of a worker is one of the
writers of `Listing` (LPUSH its `Publish`, ZINCRBY its `Weigh`) or leaves list and weights
alone, as the storing of an object does. It needs the invariants of both halves, since
only `EntryInv` says that the id that is pushed is not in the list yet and that one that
is weighed is. With `ImplementsUpload` and
`ImplementsListing` the invariants of each half hold of the whole, and the other
theorems join them: `FilesShownIntact` from `PagesAreSlices`, `EntriesResolve`, `NamesIntact` and
`ListedIntact`, with the two assumptions of the last; `OnlyInFlightLate` from
`WeightsAreOne`, which needs that Redis does not fail.

**Only model-checked**: liveness (`Progress`, `Served`, `Answered`, `Returns`), since the
prover does not treat fairness. Every other property of a passing run is proved.
Proved and not model-checked are two invariants of `Upload` (`FdReserve`, `DefaultWeight`;
what readers see of the last is `LateInFlight`), and the refinements `ImplementsUpload`,
`ImplementsListing` and `ImplementsForm` of the compositions, whose steps are those of
their parts.

## 5. Not modelled, and why

* What lies outside a buffer, and the heap: leaked replies, cJSON trees, what a wild
  pointer reads or a copy overwrites. Where the code leaves a buffer the model ends
  (`"undefined"`, or a crash); a NULL dereference ends the process.
* The sizes of the column buffers of the listing worker (`data_op.c:134`) and of its
  answer (`data_op.c:192`), and so the truncation of `get_value_by_col` at `max_len`,
  which is larger than any of them. The JSON text.
* Of the text of a query: a number is one token, which atoi knows or takes for 0, and keys
  are found as tokens. Its characters, and so numerals out of the range of an int, are left
  out. A request without QUERY_STRING is one with an empty query; the code passes
  a NULL that `query_string_value_get` refuses.
* A signed overflow is taken as the wrap-around of the processor, and a malloc of a size that
  is not negative as one that succeeds.
* In `Form`, other failures of open (permissions, a full disk); a full file table is in
  `Upload`, where it ends the worker in the same way.
* An upload that a client repeats: nothing in the code knows it for the same, so it gets an
  id and an entry of its own. No property says that a file is shown once.
* Of `util_cgi.c`: `trim_space`, `query_parse_key_value`, `str_replace` and `cgi_init`,
  which nothing in the workers calls, and `with_quote`, which is always 0. `memstr` is
  there twice, with the same code; the upload worker uses the one of `echo_op.c`.
* Of `redis_op.c`: the texts of commands and replies, and the logging.
* `keymnglog.c` (no caller), cJSON (vendored), the test programs and
  `echo_sunyan.c` (not built).
* Bodies in which CONTENT_LENGTH is smaller than what is sent: the rest is then
  the business of the FastCGI library.
* A snapshot of Redis from which entries are missing after a restart.

## 6. Plan

1. `Upload`, `Listing`, `MakeLog`, `RedisOp` with their proofs: done.
2. The bytes: `Text`, `Form`, `Row`, and `Passage` that composes them, with their
   proofs: done. Their findings replace the four kinds of request of `Upload` where the
   question is what is parsed.
3. `Upload` and `Listing` over one Redis: `Service` with its proofs; `NameWasSent` and
   `NothingSkipped` proved: done.
4. Query texts and machine integers in `Listing`, names that open refuses and local files
   that are there in `Form`, several module names per process in `MakeLog`: done.
5. Left: Redis that restarts from a snapshot, with the workers' commands in flight; the
   sizes of the column buffers of the listing worker.
