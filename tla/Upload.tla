------------------------------- MODULE Upload -------------------------------
(***************************************************************************)
(* The `echo` FastCGI workers (src/src/echo.c, echo_op.c): each takes one  *)
(* HTTP upload at a time, saves the file in the working directory that all *)
(* workers share, pushes it to FastDFS through a forked fdfs_upload_file,  *)
(* asks fdfs_file_info for its address, records it in Redis, and removes   *)
(* the local copy.  Any failure ends the worker, and nothing in the        *)
(* repository starts it again.                                             *)
(*                                                                         *)
(* One action is one system call or command that others can observe; the   *)
(* memory of a worker between two of them is its own.                      *)
(***************************************************************************)
EXTENDS Naturals, Sequences, FiniteSets

CONSTANTS
  Workers,  \* the worker processes
  Names,    \* file names that clients send and that open takes (module Form)
  NamesOf,  \* NamesOf[w]: the names that arrive at worker w
  Blocks,   \* the blocks that file contents are made of
  Contents, \* the contents that clients send
  Kinds,    \* the kinds of request that arrive, see Requests
  Ids,      \* file ids that FastDFS has left to give
  FdLimit,  \* descriptors a worker may open beside those of its start
  Faults,   \* what may fail: "disk" full, "files" (the system's file table
            \* full), "tool" (FastDFS and its tools), "redis", "kill"
  NoName,   \* the empty file_name buffer
  DirtyName,\* a name with a byte of an older, longer name behind it
  NoId,     \* the empty file_id_fdfs buffer
  Absent,   \* no such file, no such object
  Hole      \* a zero block, what ftruncate extends a file with

FileNames == Names \cup {DirtyName}
Bytes == Blocks \cup {Hole}

ASSUME NamesAssumption ==
  /\ NamesOf \in [Workers -> SUBSET Names]
  /\ NoName \notin FileNames
  /\ DirtyName \notin Names
ASSUME ContentsAssumption ==
  /\ Contents \subseteq Seq(Blocks)
  /\ Absent \notin Seq(Bytes)
ASSUME KindsAssumption == Kinds \subseteq {"file", "nameless", "malformed", "short"}
ASSUME IdsAssumption == NoId \notin Ids
ASSUME FdAssumption == FdLimit \in Nat /\ FdLimit >= 2

VARIABLES
  pc,       \* where the worker is in the loop of main
  req,      \* the request it serves
  residue,  \* names that may still stand in text_source behind a shorter body
  fileName, \* file_name
  fileId,   \* file_id_fdfs
  fileUrl,  \* file_url_fdfs: the ids whose address was appended to it
  leaked,   \* read ends of pipes never closed
  fdLive,   \* the open descriptor still refers to the file of that name
  child,    \* the forked fdfs_upload_file: "none", "running", "done"
  pipe,     \* the id the child printed
  local,    \* the shared working directory: name -> content
  stored,   \* FastDFS: id -> content
  list,     \* Redis FILE_INFO_LIST, newest first
  score     \* Redis FILE_HOT_ZSET, 0 for "no member"

buffers == <<residue, fileName, fileId, fileUrl>>
disk == <<fdLive, local>>
tool == <<child, pipe>>
redis == <<list, score>>
vars == <<pc, req, buffers, leaked, disk, tool, stored, redis>>

Request ==
  {r \in [kind : {"file", "nameless", "malformed", "short"},
          name : Names \cup {NoName}, data : Seq(Blocks)] :
     r.kind = "file" <=> r.name # NoName}

\* What a client can send to worker w: a file; a form without a filename=
\* field; a body that is no multipart form (or none at all, or a file under
\* a name that open refuses, which ends the worker just the same); fewer bytes
\* than CONTENT_LENGTH announces.
Requests(w) ==
  {r \in [kind : Kinds, name : NamesOf[w] \cup {NoName},
          data : Contents \cup {<< >>}] :
     /\ r.kind = "file" <=> r.name # NoName
     /\ r.data \in IF r.kind \in {"file", "nameless"} THEN Contents ELSE {<< >>}}

\* A FILE_INFO_LIST entry.  `req` and `by` are history: the request it was
\* made for, and the worker that made it.
Record == [id : Ids \cup {NoId}, url : Seq(Ids), name : FileNames \cup {NoName},
           req : Request, by : Workers]

Halted == {"exited", "crashed", "killed"}

Goto(w, l) == pc' = [pc EXCEPT ![w] = l]

-----------------------------------------------------------------------------
(* Operators on names and contents *)

\* The name is copied without its terminator and file_name[++i] is cleared:
\* the byte right behind the name keeps the value it had.
CopiedName(old, new) == IF old = NoName THEN new ELSE DirtyName

\* ftruncate(fd, n)
Resize(c, n) == [i \in 1..n |-> IF i <= Len(c) THEN c[i] ELSE Hole]

\* Mutant: one block too few, as if the CRLF were subtracted twice.
MutantOverlay(new, old) ==
  [i \in 1..Len(old) |-> IF i < Len(new) THEN new[i] ELSE old[i]]

\* write(fd, new) at offset 0 of a file that holds old
Overlay(new, old) ==
  [i \in 1..(IF Len(new) < Len(old) THEN Len(old) ELSE Len(new)) |->
     IF i <= Len(new) THEN new[i] ELSE old[i]]

\* What open(O_CREAT|O_WRONLY) finds under a name: no O_TRUNC, no O_EXCL.
Opened(c) == IF c = Absent THEN << >> ELSE c

\* Mutants: a memset, the unlink, the close of the write end forgotten; RPUSH
\* for LPUSH; a weight that does not arrive.
MutantClearedName(n) == n
MutantClearedUrl(u) == u
MutantUnlinked(c) == c
MutantLeftOpen(n) == n + 2
MutantPushed(e, l) == Append(l, e)
MutantIncremented(s) == s

\* memset(file_name), memset(file_url_fdfs), unlink(file_name)
ClearedName(n) == NoName
ClearedUrl(u) == << >>
Unlinked(c) == Absent

\* Descriptors left open by recv_file_upload: the read end of its pipe.
LeftOpen(n) == n + 1

\* LPUSH and ZINCRBY, as the server executes them
Pushed(e, l) == <<e>> \o l
Incremented(s) == s + 1

-----------------------------------------------------------------------------
(* main and fiel_source_get *)

Init ==
  /\ pc = [w \in Workers |-> "accept"]
  /\ req = [w \in Workers |-> [kind |-> "short", name |-> NoName, data |-> << >>]]
  /\ residue = [w \in Workers |-> {}]
  /\ fileName = [w \in Workers |-> NoName]
  /\ fileId = [w \in Workers |-> NoId]
  /\ fileUrl = [w \in Workers |-> << >>]
  /\ leaked = [w \in Workers |-> 0]
  /\ fdLive = [w \in Workers |-> FALSE]
  /\ child = [w \in Workers |-> "none"]
  /\ pipe = [w \in Workers |-> NoId]
  /\ local = [n \in FileNames |-> Absent]
  /\ stored = [id \in Ids |-> Absent]
  /\ list = << >>
  /\ score = [id \in Ids |-> 0]

\* FCGI_Accept and the getchar loop over the body.
Accept(w) ==
  /\ pc[w] = "accept"
  /\ \E r \in Requests(w) :
       /\ req' = [req EXCEPT ![w] = r]
       /\ Goto(w, IF r.kind = "short" THEN "exited" ELSE "parse")
  /\ UNCHANGED <<buffers, leaked, disk, tool, stored, redis>>

\* strstr runs to the first NUL of text_source, not to the end of the body:
\* a body without filename= may show the one of an earlier, longer body.
\* Which one it shows is module Form; here it may be any.
FoundNames(w) ==
  CASE req[w].kind = "file" -> {req[w].name}
    [] req[w].kind = "nameless" -> residue[w]
    [] OTHER -> {}

\* No filename=, boundary or header end: -1, or a NULL dereference when
\* no quote follows filename=.  A full file table or disk: open fails.
SourceFails(w) ==
  /\ pc[w] = "parse"
  /\ \/ req[w].kind # "file"
     \/ leaked[w] + 1 > FdLimit
     \/ {"disk", "files"} \cap Faults # {}
  /\ \E l \in {"exited", "crashed"} :
       /\ l = "crashed" => req[w].kind = "malformed"
       /\ Goto(w, l)
  /\ UNCHANGED <<req, buffers, leaked, disk, tool, stored, redis>>

\* The name is parsed and the local file opened.
OpenLocal(w) ==
  /\ pc[w] = "parse"
  /\ leaked[w] + 1 <= FdLimit
  /\ \E n \in FoundNames(w) :
       LET f == CopiedName(fileName[w], n) IN
       /\ fileName' = [fileName EXCEPT ![w] = f]
       /\ residue' = [residue EXCEPT ![w] = @ \cup {n}]
       /\ local' = [local EXCEPT ![f] = Opened(@)]
  /\ fdLive' = [fdLive EXCEPT ![w] = TRUE]
  /\ Goto(w, "truncate")
  /\ UNCHANGED <<req, fileId, fileUrl, leaked, tool, stored, redis>>

\* ftruncate; its result is not looked at.
Truncate(w) ==
  /\ pc[w] = "truncate"
  /\ \E done \in {TRUE} \cup (IF "disk" \in Faults THEN {FALSE} ELSE {}) :
       local' = IF done /\ fdLive[w]
                THEN [local EXCEPT ![fileName[w]] = Resize(@, Len(req[w].data))]
                ELSE local
  /\ Goto(w, "write")
  /\ UNCHANGED <<req, buffers, leaked, fdLive, tool, stored, redis>>

\* write and close; a full disk takes a prefix, and nobody looks.
Write(w) ==
  /\ pc[w] = "write"
  /\ \E k \in (IF "disk" \in Faults THEN 0 ELSE Len(req[w].data))..Len(req[w].data) :
       local' = IF fdLive[w]
                THEN [local EXCEPT ![fileName[w]] =
                        Overlay(SubSeq(req[w].data, 1, k), @)]
                ELSE local
  /\ fdLive' = [fdLive EXCEPT ![w] = FALSE]
  /\ Goto(w, "spawn")
  /\ UNCHANGED <<req, buffers, leaked, tool, stored, redis>>

-----------------------------------------------------------------------------
(* recv_file_upload *)

\* pipe() fails: the only checked failure of recv_file_upload.
PipeFails(w) ==
  /\ pc[w] = "spawn"
  /\ leaked[w] + 2 > FdLimit \/ "files" \in Faults
  /\ Goto(w, "exited")
  /\ UNCHANGED <<req, buffers, leaked, disk, tool, stored, redis>>

\* pipe and fork.  The parent closes the write end at once and never closes
\* the read end.  A fork or exec that fails leaves the pipe empty: the copy
\* of the worker that execlp returns in ends in file_url_make.
Spawn(w) ==
  /\ pc[w] = "spawn"
  /\ leaked[w] + 2 <= FdLimit
  /\ leaked' = [leaked EXCEPT ![w] = LeftOpen(@)]
  /\ \E c \in {"running"} \cup (IF "tool" \in Faults THEN {"done"} ELSE {}) :
       child' = [child EXCEPT ![w] = c]
  /\ pipe' = [pipe EXCEPT ![w] = NoId]
  /\ Goto(w, "wait")
  /\ UNCHANGED <<req, buffers, disk, stored, redis>>

\* fdfs_upload_file stores the file's present content under a fresh id and
\* prints the id.  It does so even when the worker is dead.
ToolUploads(w) ==
  /\ child[w] = "running"
  /\ local[fileName[w]] # Absent
  /\ \E id \in {i \in Ids : stored[i] = Absent} :
       /\ stored' = [stored EXCEPT ![id] = local[fileName[w]]]
       /\ pipe' = [pipe EXCEPT ![w] = id]
  /\ child' = [child EXCEPT ![w] = "done"]
  /\ UNCHANGED <<pc, req, buffers, leaked, disk, redis>>

\* The file is gone, the storage is full or unreachable: nothing is printed.
ToolFails(w) ==
  /\ child[w] = "running"
  /\ \/ local[fileName[w]] = Absent
     \/ \A id \in Ids : stored[id] # Absent
     \/ "tool" \in Faults
  /\ child' = [child EXCEPT ![w] = "done"]
  /\ UNCHANGED <<pc, req, buffers, leaked, disk, pipe, stored, redis>>

\* The storage took the object, but its answer is lost: nothing is printed.
ToolLosesAnswer(w) ==
  /\ child[w] = "running"
  /\ "tool" \in Faults
  /\ local[fileName[w]] # Absent
  /\ \E id \in {i \in Ids : stored[i] = Absent} :
       stored' = [stored EXCEPT ![id] = local[fileName[w]]]
  /\ child' = [child EXCEPT ![w] = "done"]
  /\ UNCHANGED <<pc, req, buffers, leaked, disk, pipe, redis>>

\* Mutants: the pipe is read without waiting for the child.
MutantWaitChild(w) ==
  /\ pc[w] = "wait"
  /\ fileId' = [fileId EXCEPT ![w] = pipe[w]]
  /\ child' = [child EXCEPT ![w] = IF @ = "done" THEN "none" ELSE @]
  /\ Goto(w, "url")
  /\ UNCHANGED <<req, residue, fileName, fileUrl, leaked, disk, pipe, stored, redis>>

\* Mutant: read while the write end is still open: an empty pipe blocks.
MutantWaitChildOpen(w) ==
  /\ pipe[w] # NoId
  /\ MutantWaitChild(w)

\* wait(NULL), then read of what is left in the pipe.
WaitChild(w) ==
  /\ pc[w] = "wait"
  /\ child[w] = "done"
  /\ fileId' = [fileId EXCEPT ![w] = pipe[w]]
  /\ child' = [child EXCEPT ![w] = "none"]
  /\ Goto(w, "url")
  /\ UNCHANGED <<req, residue, fileName, fileUrl, leaked, disk, pipe, stored, redis>>

-----------------------------------------------------------------------------
(* file_url_make *)

\* Mutants: an empty id accepted; one descriptor counted for two.
MutantUrlMade(w) ==
  /\ pc[w] = "url"
  /\ fileUrl' = [fileUrl EXCEPT ![w] = Append(@, fileId[w])]
  /\ Goto(w, "connect")
  /\ UNCHANGED <<req, residue, fileName, fileId, leaked, disk, tool, stored, redis>>
MutantUrlMadeFds(w) ==
  /\ pc[w] = "url"
  /\ leaked[w] + 1 <= FdLimit
  /\ fileId[w] # NoId
  /\ fileUrl' = [fileUrl EXCEPT ![w] = Append(@, fileId[w])]
  /\ Goto(w, "connect")
  /\ UNCHANGED <<req, residue, fileName, fileId, leaked, disk, tool, stored, redis>>

\* fdfs_file_info knows the id: its address is appended to file_url_fdfs.
UrlMade(w) ==
  /\ pc[w] = "url"
  /\ leaked[w] + 2 <= FdLimit
  /\ fileId[w] # NoId
  /\ fileUrl' = [fileUrl EXCEPT ![w] = Append(@, fileId[w])]
  /\ Goto(w, "connect")
  /\ UNCHANGED <<req, residue, fileName, fileId, leaked, disk, tool, stored, redis>>

\* An empty id, an unchecked pipe() that failed, or a failing tool: there is
\* no "source ip address: " to find and the result of strstr is used.
UrlCrashes(w) ==
  /\ pc[w] = "url"
  /\ \/ leaked[w] + 2 > FdLimit
     \/ fileId[w] = NoId
     \/ {"tool", "files"} \cap Faults # {}
  /\ Goto(w, "crashed")
  /\ UNCHANGED <<req, buffers, leaked, disk, tool, stored, redis>>

-----------------------------------------------------------------------------
(* file_msg_store_to_redis and the end of the loop of main *)

\* rop_connectdb_nopwd
Connect(w) ==
  /\ pc[w] = "connect"
  /\ \E l \in {"lpush"} \cup (IF {"redis", "files"} \cap Faults # {}
                        THEN {"exited"} ELSE {}) :
       Goto(w, l)
  /\ UNCHANGED <<req, buffers, leaked, disk, tool, stored, redis>>

Entry(w) == [id |-> fileId[w], url |-> fileUrl[w], name |-> fileName[w],
             req |-> req[w], by |-> w]

\* A command whose reply arrives, whatever it says: both results of
\* rop_list_push and rop_zset_increment are ignored.
Replied(done) == done \/ "redis" \in Faults

\* Mutant: an LPUSH answered by an error is sent again, and one that was
\* executed may be taken for such.
MutantLpush(w) ==
  /\ pc[w] = "lpush"
  /\ list' = Pushed(Entry(w), list)
  /\ \E l \in {"lpush", "zincr"} : Goto(w, l)
  /\ Len(list) < Cardinality(Ids)
  /\ UNCHANGED <<req, buffers, leaked, disk, tool, stored, score>>

\* LPUSH FILE_INFO_LIST: executed, or answered by an error.
Lpush(w) ==
  /\ pc[w] = "lpush"
  /\ \E done \in BOOLEAN :
       /\ Replied(done)
       /\ list' = IF done THEN Pushed(Entry(w), list) ELSE list
  /\ Goto(w, "zincr")
  /\ UNCHANGED <<req, buffers, leaked, disk, tool, stored, score>>

\* ZINCRBY FILE_HOT_ZSET 1 id: executed, or answered by an error.
Zincr(w) ==
  /\ pc[w] = "zincr"
  /\ \E done \in BOOLEAN :
       /\ Replied(done)
       /\ score' = IF done THEN [score EXCEPT ![fileId[w]] = Incremented(@)] ELSE score
  /\ Goto(w, "finish")
  /\ UNCHANGED <<req, buffers, leaked, disk, tool, stored, list>>

\* The connection breaks before or after the server ran the command:
\* redisCommand returns NULL and the reply is dereferenced.
RedisCut(w) ==
  /\ pc[w] \in {"lpush", "zincr"}
  /\ "redis" \in Faults
  /\ \E done \in BOOLEAN :
       /\ list' = IF done /\ pc[w] = "lpush" THEN Pushed(Entry(w), list) ELSE list
       /\ score' = IF done /\ pc[w] = "zincr"
                   THEN [score EXCEPT ![fileId[w]] = Incremented(@)] ELSE score
  /\ Goto(w, "crashed")
  /\ UNCHANGED <<req, buffers, leaked, disk, tool, stored>>

\* rop_disconnect, unlink, and the memsets.  The last of them clears
\* sizeof(char *) bytes of text_source, so the residue stays.
Finish(w) ==
  /\ pc[w] = "finish"
  /\ local' = [local EXCEPT ![fileName[w]] = Unlinked(@)]
  /\ fdLive' = [v \in Workers |-> fdLive[v] /\ fileName[v] # fileName[w]]
  /\ fileName' = [fileName EXCEPT ![w] = ClearedName(@)]
  /\ fileId' = [fileId EXCEPT ![w] = NoId]
  /\ fileUrl' = [fileUrl EXCEPT ![w] = ClearedUrl(@)]
  /\ Goto(w, "accept")
  /\ UNCHANGED <<req, residue, leaked, tool, stored, redis>>

\* The process is killed, anywhere; its child lives on.
Kill(w) ==
  /\ "kill" \in Faults
  /\ pc[w] \notin Halted
  /\ Goto(w, "killed")
  /\ UNCHANGED <<req, buffers, leaked, disk, tool, stored, redis>>

-----------------------------------------------------------------------------
\* The steps of a worker that serves a request.
Serve(w) ==
  \/ SourceFails(w) \/ OpenLocal(w) \/ Truncate(w) \/ Write(w)
  \/ PipeFails(w) \/ Spawn(w) \/ WaitChild(w)
  \/ UrlMade(w) \/ UrlCrashes(w)
  \/ Connect(w) \/ Lpush(w) \/ Zincr(w) \/ RedisCut(w) \/ Finish(w)

Tool(w) == ToolUploads(w) \/ ToolFails(w) \/ ToolLosesAnswer(w)

Next == \E w \in Workers : Accept(w) \/ Serve(w) \/ Tool(w) \/ Kill(w)

Spec == Init /\ [][Next]_vars

\* A runnable worker runs, and the tools end (client.conf gives them a
\* network timeout).  Clients need not send anything.
FairSpec ==
  Spec /\ \A w \in Workers : WF_vars(Serve(w)) /\ WF_vars(Tool(w))
-----------------------------------------------------------------------------
(* Properties *)

TypeOK ==
  /\ pc \in [Workers -> {"accept", "parse", "truncate", "write", "spawn", "wait",
                         "url", "connect", "lpush", "zincr", "finish"} \cup Halted]
  /\ req \in [Workers -> Request]
  /\ residue \in [Workers -> SUBSET Names]
  /\ fileName \in [Workers -> FileNames \cup {NoName}]
  /\ fileId \in [Workers -> Ids \cup {NoId}]
  /\ fileUrl \in [Workers -> Seq(Ids)]
  /\ leaked \in [Workers -> Nat]
  /\ fdLive \in [Workers -> BOOLEAN]
  /\ child \in [Workers -> {"none", "running", "done"}]
  /\ pipe \in [Workers -> Ids \cup {NoId}]
  /\ local \in [FileNames -> Seq(Bytes) \cup {Absent}]
  /\ stored \in [Ids -> Seq(Bytes) \cup {Absent}]
  /\ list \in Seq(Record)
  /\ score \in [Ids -> Nat]

\* Every entry of FILE_INFO_LIST names an object that FastDFS holds, and its
\* URL is the address of that object and of no other: file_msg_store_to_redis
\* never runs on the id or URL of a failed upload or of an earlier request.
NoDanglingEntry ==
  \A i \in DOMAIN list :
    /\ list[i].id \in Ids
    /\ stored[list[i].id] # Absent
    /\ list[i].url = <<list[i].id>>

\* No object is listed twice, whatever fails and whoever dies between LPUSH
\* and the end of the request.
OneEntryPerObject ==
  \A i, j \in DOMAIN list : list[i].id = list[j].id => i = j

\* The name listed for an uploaded file is the one the client gave, with no
\* byte of an older request's name behind it (file_name[++i] = '\0').
NameIntact ==
  \A i \in DOMAIN list :
    list[i].req.kind = "file" => list[i].name = list[i].req.name

\* The object an entry names holds exactly what its client sent.
Integrity ==
  \A i \in DOMAIN list : stored[list[i].id] = list[i].req.data

\* A file in the working directory belongs to a request being served or to a
\* worker that died: a worker that waits in FCGI_Accept has left none.
NoLocalLeftover ==
  \A n \in FileNames : local[n] # Absent =>
    \E w \in Workers : fileName[w] = n /\ pc[w] # "accept"

\* recv_file_upload leaks one descriptor per request, so a worker lists at
\* most FdLimit - 2 files in its life.
BoundedLife ==
  \A w \in Workers :
    Cardinality({i \in DOMAIN list : list[i].by = w}) + 2 <= FdLimit

\* The checked pipe() of recv_file_upload is never the one that meets the
\* descriptor limit: the unchecked one of file_url_make meets it first, and
\* the worker crashes with its object stored and not listed.
FdReserve ==
  \A w \in Workers :
    pc[w] \in {"accept", "parse", "truncate", "write", "spawn"} =>
      leaked[w] + 2 <= FdLimit

\* Where neither FastDFS nor Redis misbehaves, an object that is not listed
\* is still in the hands of a worker, or of one that died with it.
Accounted ==
  \A id \in Ids : stored[id] # Absent =>
    \/ \E i \in DOMAIN list : list[i].id = id
    \/ \E w \in Workers :
         \/ fileId[w] = id
         \/ pipe[w] = id /\ (pc[w] = "wait" \/ pc[w] \in Halted)

\* A worker that has taken a request comes back to FCGI_Accept or ends: it
\* never waits for ever for its child or for a pipe.
Progress ==
  \A w \in Workers : pc[w] = "parse" ~> pc[w] \in Halted \cup {"accept"}

\* Where nothing fails, a worker with descriptors left lists the file it
\* accepted and serves on, unless it is killed or FastDFS is full, and
\* whatever becomes of the other workers.  `leaked` counts its
\* uploads, so it also numbers them.
Served ==
  \A w \in Workers : \A k \in 0..FdLimit :
    (pc[w] = "parse" /\ req[w].kind = "file" /\ leaked[w] = k /\ k + 3 <= FdLimit)
      ~> \/ /\ pc[w] = "accept"
            /\ leaked[w] = k + 1
            /\ Cardinality({i \in DOMAIN list : list[i].by = w}) = k + 1
         \/ pc[w] = "killed"
         \/ \A id \in Ids : stored[id] # Absent

\* What echo_op.c says of file_msg_store_to_redis: a file goes into
\* FILE_HOT_ZSET with the weight 1.  Looked at when its request is over.
DefaultWeight ==
  \A i \in DOMAIN list :
    score[list[i].id] = 1 \/ pc[list[i].by] \in Halted \cup {"zincr"}

\* The detailed system implements the abstract one.
FS == INSTANCE FileStore WITH
        Objects <- Seq(Bytes), objects <- stored, weight <- score,
        entries <- [i \in DOMAIN list |-> list[i].id]

\* Nothing the workers do, in any order and with any of them dying anywhere,
\* overwrites an object, lists one early, twice or anywhere but at the head,
\* or gives one more than the weight 1.
FileStoreSpec == FS!Spec

=============================================================================
