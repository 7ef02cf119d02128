------------------------------ MODULE RedisOp ------------------------------
(***************************************************************************)
(* The Redis access layer (src/src/redis_op.c): a program that holds at    *)
(* most one connection and calls its operations one after the other.       *)
(*                                                                         *)
(* The connection is the one of hiredis: commands are appended to a        *)
(* buffer, written when the first reply is wanted, executed by the server  *)
(* in order, and answered in order.  Commands of a connection are numbered *)
(* from 1, so its queues are four counters:                                *)
(*                                                                         *)
(*     read <= executed <= written <= appended                             *)
(*                                                                         *)
(* An error sets `err` of the context for good: nothing is written any     *)
(* more and every redisGetReply fails.                                     *)
(***************************************************************************)
EXTENDS Integers

CONSTANTS
  MaxCmds,     \* bound: commands of one connection
  MaxBatch,    \* bound: commands of one batch
  MaxContexts, \* bound: contexts allocated, leaked ones included
  Faults       \* what may fail: "server" (error replies), "append" (a command
               \* that cannot be formatted, no memory), "link"

\* AUTH is a command.
ASSUME BoundAssumption == MaxCmds \in Nat \ {0} /\ MaxBatch \in Nat /\ MaxContexts \in Nat

VARIABLES
  pc,       \* "idle", "append", "commit", "dead"
  op,       \* the operation that runs
  base,     \* commands appended before it
  count,    \* commands it appends (val_num, cmd_num)
  ret,      \* retn
  done,     \* history: no reply of the operation was an error
  last,     \* history: what the last call returned, until the next one
  held,     \* the caller has a handle
  contexts, \* contexts allocated and not freed
  authLost, \* history: contexts whose AUTH was not answered
  err,      \* conn->err
  link,     \* "up" or "cut"
  arrived,  \* replies that had arrived when the link was cut
  appended, written, executed, read,
  cmd,      \* the operation that each pending command belongs to
  reply,    \* its reply, once executed
  rejected  \* history: commands of batches that could not be appended whole

call == <<pc, op, base, count, ret, done, last>>
handle == <<held, contexts, authLost>>
counters == <<appended, written, executed, read>>
conn == <<err, link, arrived, counters, cmd, reply, rejected>>
vars == <<call, handle, conn>>

\* Operations by how they look at the reply
NullOnly == {"select", "flush", "command", "hincrby", "auth"}
Inspecting == {"exists", "del", "expireat", "keys", "hmset", "lpush", "llen",
               "ltrim", "lrange", "zincrby", "zscore", "get"}
Batches == {"append", "hset_append", "lpush_append", "zincrby_append"}
Connects == {"nopwd", "timeout", "pwd", "unix"}
Ops == NullOnly \cup Inspecting \cup Batches

None == [kind |-> "none", val |-> 0]
Reply == [kind : {"none", "status", "integer", "string", "array", "nil", "error"},
          val : {0, 1}]
NoResult == [op |-> "none", ret |-> 0, done |-> TRUE]

Serials == 1..MaxCmds

-----------------------------------------------------------------------------
(* Replies and what the operations make of them *)

\* The kinds of reply that the server gives to a command it executes
KindsOf(o) ==
  CASE o \in {"select", "flush", "auth", "hmset", "ltrim"} -> {"status"}
    [] o \in {"exists", "del", "expireat", "lpush", "llen", "hincrby",
              "hset_append", "lpush_append"} -> {"integer"}
    [] o \in {"keys", "lrange"} -> {"array"}
    [] o \in {"zincrby", "zincrby_append"} -> {"string"}
    [] o \in {"zscore", "get"} -> {"string", "nil"}
    [] OTHER -> {"status", "integer", "string", "array", "nil"}

\* A number is only in an integer or a string.
Replies(o) ==
  {r \in Reply : /\ r.kind \in KindsOf(o) \cup (IF "server" \in Faults THEN {"error"} ELSE {})
                 /\ r.val = 1 => r.kind \in {"integer", "string"}}

KeyResult(o, r) ==
  IF o = "exists"
  THEN IF r.kind = "integer" THEN r.val ELSE -1
  ELSE IF r.kind = "integer" /\ r.val = 1 THEN 0 ELSE -1

ListResult(o, r) ==
  CASE o = "lpush" -> IF r.kind = "integer" THEN 0 ELSE -1
    [] o = "llen" -> IF r.kind = "integer" THEN r.val ELSE -1
    [] o = "ltrim" -> IF r.kind = "status" THEN 0 ELSE -1
    [] o = "lrange" -> IF r.kind = "array" THEN 0 ELSE -1

\* The reply has the string "OK", which only a status can have.
SaysOK(r) == IF r.kind = "status" THEN 0 ELSE -1

Score(r) == IF r.kind = "string" THEN r.val ELSE -1

\* Mutant: the type of the reply is not looked at.
MutantResult(o, r) == IF o \in {"exists", "llen", "zscore"} THEN r.val ELSE 0
\* retn, or what the operation returns instead.  GET takes any string, that of
\* an error too, and batches free their replies unseen.
Result(o, r) ==
  CASE o \in {"exists", "del", "expireat"} -> KeyResult(o, r)
    [] o \in {"lpush", "llen", "ltrim", "lrange"} -> ListResult(o, r)
    [] o \in {"hmset", "zincrby"} -> SaysOK(r)
    [] o = "zscore" -> Score(r)
    [] OTHER -> 0

\* GET copies reply->str, which a nil reply does not have.
Fatal(o, r) == o = "get" /\ r.kind = "nil"

\* Mutant: the commit loop asks for one reply more.
MutantPending == read <= base + count
\* The commit loop: one reply for each command of the operation
Pending == read < base + count

\* The locals of the operation are gone.
NoCall == /\ op' = "select" /\ base' = 0 /\ count' = 0 /\ ret' = 0 /\ done' = TRUE

Return(r, whole) ==
  /\ pc' = "idle"
  /\ NoCall
  /\ last' = [op |-> op, ret |-> r, done |-> whole]

-----------------------------------------------------------------------------
(* Connecting *)

Init ==
  /\ pc = "idle" /\ op = "select" /\ base = 0 /\ count = 0 /\ ret = 0
  /\ done = TRUE /\ last = NoResult
  /\ held = FALSE /\ contexts = 0 /\ authLost = 0
  /\ err = FALSE /\ link = "up" /\ arrived = 0
  /\ appended = 0 /\ written = 0 /\ executed = 0 /\ read = 0
  /\ cmd = [s \in Serials |-> "select"] /\ reply = [s \in Serials |-> None]
  /\ rejected = {}

\* Mutant: the context of a connection that failed is not freed.
MutantFreed(n) == n
\* Mutant: it is freed twice.
MutantFreedTwice(n) == n - 2
\* redisFree
Freed(n) == n - 1

\* redisConnect gives no context, or one with an error, which is freed.
ConnectFails(how) ==
  /\ pc = "idle" /\ ~ held
  /\ "link" \in Faults
  /\ contexts < MaxContexts
  /\ \E allocated \in BOOLEAN :
       contexts' = IF allocated THEN Freed(contexts + 1) ELSE contexts
  /\ last' = [op |-> how, ret |-> -1, done |-> FALSE]
  /\ UNCHANGED <<pc, op, base, count, ret, done, held, authLost, conn>>

\* A new context.  With a password, AUTH is sent before it is returned.
Connect(how) ==
  /\ pc = "idle" /\ ~ held
  /\ contexts < MaxContexts
  /\ contexts' = contexts + 1
  /\ err' = FALSE /\ link' = "up" /\ arrived' = 0
  /\ written' = 0 /\ executed' = 0 /\ read' = 0
  /\ reply' = [s \in Serials |-> None] /\ rejected' = {}
  /\ base' = 0 /\ ret' = 0 /\ done' = TRUE
  /\ cmd' = [s \in Serials |-> "select"] /\ appended' = 0
  /\ IF how \in {"pwd", "unix"}
     THEN /\ op' = "auth" /\ count' = 1 /\ pc' = "append"
          /\ last' = NoResult /\ UNCHANGED held
     ELSE /\ op' = "select" /\ count' = 0 /\ held' = TRUE
          /\ last' = [op |-> how, ret |-> 0, done |-> TRUE]
          /\ UNCHANGED pc
  /\ UNCHANGED authLost

\* rop_disconnect
Disconnect ==
  /\ pc = "idle" /\ held
  /\ held' = FALSE
  /\ contexts' = Freed(contexts)
  /\ UNCHANGED <<call, authLost, conn>>
-----------------------------------------------------------------------------
(* Operations *)

\* Operations that return before they use the connection: no memory for the
\* text of HMSET, no buffer for the value of GET
Refuse(o) ==
  /\ pc = "idle" /\ held
  /\ "append" \in Faults
  /\ last' = [op |-> o, ret |-> -1, done |-> FALSE]
  /\ UNCHANGED <<pc, op, base, count, ret, done, handle, conn>>

\* An operation is called: one command, or a batch of n.
Begin(o, n) ==
  /\ pc = "idle" /\ held
  /\ o \in Batches \/ n = 1
  /\ appended + n <= MaxCmds
  /\ op' = o /\ base' = appended /\ count' = n
  /\ ret' = 0 /\ done' = TRUE /\ last' = NoResult
  /\ pc' = "append"
  /\ UNCHANGED <<handle, conn>>

\* redisAppendCommand, alone or as the first half of redisCommand
AppendCommand ==
  /\ pc = "append"
  /\ IF appended < base + count
     THEN /\ cmd' = [cmd EXCEPT ![appended + 1] = op]
          /\ appended' = appended + 1
          /\ UNCHANGED pc
     ELSE /\ pc' = "commit"
          /\ UNCHANGED <<cmd, appended>>
  /\ UNCHANGED <<op, base, count, ret, done, last, handle>>
  /\ UNCHANGED <<err, link, arrived, written, executed, read, reply, rejected>>

\* It fails: a batch returns at once, with its commands so far still in the
\* buffer; redisCommand returns NULL.
AppendFails ==
  /\ pc = "append"
  /\ "append" \in Faults
  /\ appended < base + count
  /\ err' = TRUE
  /\ IF op \in Batches
     THEN /\ rejected' = rejected \cup (base + 1)..appended
          /\ Return(-1, FALSE)
     ELSE /\ pc' = "commit"
          /\ UNCHANGED <<op, base, count, ret, done, last, rejected>>
  /\ UNCHANGED handle
  /\ UNCHANGED <<link, arrived, counters, cmd, reply>>

\* Mutant: what failed before is not remembered.
MutantMayWrite == link = "up"
\* redisBufferWrite gives up when the context has seen an error.
MayWrite == ~ err /\ link = "up"

\* redisGetReply writes all that is in the buffer.
Flush ==
  /\ pc = "commit" /\ Pending
  /\ written < appended
  /\ MayWrite
  /\ written' = appended
  /\ UNCHANGED <<call, handle, err, link, arrived, appended, executed, read>>
  /\ UNCHANGED <<cmd, reply, rejected>>

Here(s) == s <= (IF link = "up" THEN executed ELSE arrived)

\* Mutant: a batch ends at the first error.
MutantLeft(r) == IF r.kind = "error" THEN read + 1 - base ELSE count
\* Replies the operation reads: as many as it appended commands
Left(r) == count

\* The next reply is there; it is looked at and freed.  Its queue entry is
\* cleared.
Read ==
  /\ pc = "commit" /\ Pending
  /\ ~ err
  /\ written = appended
  /\ Here(read + 1)
  /\ LET r == reply[read + 1] IN
     /\ ret' = Result(op, r)
     /\ done' = (done /\ r.kind # "error")
     /\ count' = Left(r)
     /\ pc' = IF Fatal(op, r) THEN "dead" ELSE "commit"
  /\ read' = read + 1
  /\ reply' = [reply EXCEPT ![read + 1] = None]
  /\ cmd' = [cmd EXCEPT ![read + 1] = "select"]
  /\ UNCHANGED <<op, base, last, handle, err, link, arrived, appended, written>>
  /\ UNCHANGED <<executed, rejected>>

\* redisGetReply fails.  Operations that look at the reply dereference NULL;
\* batches free the reply of their last turn again, which may do anything; the others and AUTH free
\* NULL, which old versions of hiredis do not bear.  AUTH drops its context.
GetFails ==
  /\ pc = "commit" /\ Pending
  /\ err \/ (link = "cut" /\ (written < appended \/ ~ Here(read + 1)))
  /\ err' = TRUE
  /\ \/ /\ op \notin Inspecting
        /\ Return(-1, FALSE)
        /\ authLost' = IF op = "auth" THEN authLost + 1 ELSE authLost
     \/ /\ op # "auth"
        /\ pc' = "dead"
        /\ UNCHANGED <<op, base, count, ret, done, last, authLost>>
  /\ UNCHANGED <<held, contexts>>
  /\ UNCHANGED <<link, arrived, counters, cmd, reply, rejected>>

\* The operation returns; after AUTH, whatever it said, the handle is returned.
End ==
  /\ pc = "commit" /\ ~ Pending
  /\ Return(ret, done)
  /\ held' = TRUE
  /\ UNCHANGED <<contexts, authLost, conn>>

-----------------------------------------------------------------------------
(* The server and the network *)

\* The server executes the next command that it has received, also after the
\* client has lost the connection.
Execute ==
  /\ executed < written
  /\ IF link = "up"
     THEN \E r \in Replies(cmd[executed + 1]) : reply' = [reply EXCEPT ![executed + 1] = r]
     ELSE UNCHANGED reply
  /\ executed' = executed + 1
  /\ UNCHANGED <<call, handle, err, link, arrived, appended, written, read, cmd, rejected>>

Cut ==
  /\ "link" \in Faults
  /\ link = "up"
  /\ link' = "cut"
  /\ \E a \in read..executed :
       /\ arrived' = a
       /\ reply' = [s \in Serials |-> IF s <= a THEN reply[s] ELSE None]
  /\ UNCHANGED <<call, handle, err, counters, cmd, rejected>>

Client == AppendCommand \/ AppendFails \/ Flush \/ Read \/ GetFails \/ End

Next ==
  \/ \E how \in Connects : Connect(how) \/ ConnectFails(how)
  \/ \E o \in Ops \ {"auth"}, n \in 0..MaxBatch : Begin(o, n)
  \/ \E o \in {"hmset", "get"} : Refuse(o)
  \/ Client \/ Disconnect \/ Execute \/ Cut

Spec == Init /\ [][Next]_vars

\* A program that has called an operation runs, and the server answers: no
\* connection has a timeout for its replies.
FairSpec == Spec /\ WF_vars(Client) /\ WF_vars(Execute)

-----------------------------------------------------------------------------
(* Properties *)

\* The types; the four counters in their order; results are -1 or what the
\* reply holds.
TypeOK ==
  /\ pc \in {"idle", "append", "commit", "dead"}
  /\ op \in Ops
  /\ base \in 0..MaxCmds /\ count \in 0..MaxCmds
  /\ ret \in {-1, 0, 1}
  /\ done \in BOOLEAN
  /\ last \in [op : Ops \cup Connects \cup {"none"}, ret : {-1, 0, 1}, done : BOOLEAN]
  /\ held \in BOOLEAN /\ contexts \in 0..MaxContexts /\ authLost \in Nat
  /\ err \in BOOLEAN /\ link \in {"up", "cut"} /\ arrived \in 0..MaxCmds
  /\ appended \in 0..MaxCmds /\ written \in 0..appended
  /\ executed \in 0..written /\ read \in 0..executed
  /\ cmd \in [Serials -> Ops] /\ reply \in [Serials -> Reply]
  /\ rejected \subseteq Serials

\* On a connection without an error, no reply is left over between two
\* operations, and within one all that is pending is its own: no operation
\* takes the answer to another's command for its own.
InStep ==
  ~ err =>
    /\ pc = "idle" => read = appended
    /\ pc = "commit" => /\ appended = base + count
                        /\ base <= read
                        /\ \A s \in read + 1..appended : cmd[s] = op

\* Nothing of a batch that could not be appended whole ever reaches the
\* server, whatever is called on the connection afterwards.
RejectedWhole == \A s \in rejected : s > written

\* Operations that look at the type of the reply, and do not take an error
\* for an answer
Checked == {"exists", "del", "expireat", "lpush", "llen", "ltrim", "lrange",
            "hmset", "zscore"}

\* If one of these does not return -1, the server has done what it was asked.
SuccessIsTrue ==
  last.op \in Checked /\ last.ret # -1 => last.done

\* A context is held by the caller, or is one of a connection whose AUTH went
\* unanswered: no other path of the four connecting functions leaks one.
NoOtherLeak ==
  pc = "idle" => contexts = authLost + (IF held THEN 1 ELSE 0)

\* Every operation comes to an end, if only that of the process.
Returns == pc = "append" ~> pc \in {"idle", "dead"}
=============================================================================
