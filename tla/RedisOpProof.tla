---------------------------- MODULE RedisOpProof ----------------------------
(***************************************************************************)
(* What RedisOp promises, for every number of commands, batch length and   *)
(* set of faults.                                                          *)
(*                                                                         *)
(* An operation starts with a clean connection or with one in error.  In   *)
(* the first case all that is pending is its own; in the second nothing    *)
(* is written any more.  Tidy says so for the two halves of an operation.  *)
(***************************************************************************)
EXTENDS RedisOp, TLAPS

Within == pc \in {"append", "commit"}

\* While commands are appended, nothing of the operation has been written,
\* and on a connection without an error nothing older is pending.
Appending ==
  pc = "append" =>
    /\ base <= appended /\ appended <= base + count
    /\ written <= base
    /\ ~ err => /\ read = base
                /\ \A s \in base + 1..appended : cmd[s] = op

Tidy ==
  /\ Within => base + count <= MaxCmds
  /\ Appending
  /\ rejected # {} => err
  /\ link = "cut" => arrived <= executed

\* Who owns the context that is not lost
Owned ==
  /\ Within => contexts = authLost + 1 /\ (held <=> op # "auth")
  /\ NoOtherLeak

Inv == TypeOK /\ Tidy /\ InStep /\ RejectedWhole /\ Owned

-----------------------------------------------------------------------------
\* Whatever the reply, what an operation returns is -1, 0 or 1.
LEMMA ResultType ==
  ASSUME NEW o, NEW r \in Reply
  PROVE  Result(o, r) \in {-1, 0, 1}
BY DEF Result, KeyResult, ListResult, SaysOK, Score, Reply

\* The server only gives replies of the type.
LEMMA ReplyType ==
  ASSUME NEW o, NEW r \in Replies(o)
  PROVE  r \in Reply
BY DEF Replies

LEMMA InitInv == Init => Inv
<1> SUFFICES ASSUME Init PROVE Inv
  OBVIOUS
<1>1. TypeOK
  <2>1. "select" \in Ops
    BY DEF Ops, NullOnly
  <2>2. cmd \in [Serials -> Ops] /\ reply \in [Serials -> Reply]
    BY <2>1 DEF Init, None, Reply
  <2>3. last \in [op : Ops \cup Connects \cup {"none"}, ret : {-1, 0, 1}, done : BOOLEAN]
    BY DEF Init, NoResult
  <2>4. held \in BOOLEAN /\ err \in BOOLEAN /\ done \in BOOLEAN
    BY DEF Init
  <2>5. /\ pc \in {"idle", "append", "commit", "dead"} /\ link \in {"up", "cut"}
        /\ rejected \subseteq Serials /\ authLost \in Nat /\ ret \in {-1, 0, 1}
    BY DEF Init
  <2>6. /\ base \in 0..MaxCmds /\ count \in 0..MaxCmds /\ contexts \in 0..MaxContexts
        /\ arrived \in 0..MaxCmds /\ appended \in 0..MaxCmds /\ written \in 0..appended
        /\ executed \in 0..written /\ read \in 0..executed
    BY BoundAssumption DEF Init
  <2> QED
    BY <2>1, <2>2, <2>3, <2>4, <2>5, <2>6 DEF Init, TypeOK
<1>2. Tidy /\ InStep /\ RejectedWhole
  BY DEF Init, Tidy, Within, Appending, InStep, RejectedWhole
<1>3. Owned
  BY DEF Init, Owned, Within, NoOtherLeak
<1> QED
  BY <1>1, <1>2, <1>3 DEF Inv

-----------------------------------------------------------------------------
\* Each step keeps the types.
LEMMA TypeStep == Inv /\ [Next]_vars => TypeOK'
<1> SUFFICES ASSUME TypeOK, Tidy, Owned, [Next]_vars PROVE TypeOK'
  BY DEF Inv
<1> USE BoundAssumption DEF TypeOK, Serials
<1> DEFINE Kinds == Ops \cup Connects \cup {"none"}
<1>a. /\ \A o \in Kinds, x \in {-1, 0, 1}, d \in BOOLEAN :
           [op |-> o, ret |-> x, done |-> d] \in [op : Kinds, ret : {-1, 0, 1}, done : BOOLEAN]
      /\ NoResult \in [op : Kinds, ret : {-1, 0, 1}, done : BOOLEAN]
  BY DEF NoResult
<1>b. None \in Reply
  BY DEF None, Reply
<1>c. {"select", "auth", "hmset", "get"} \subseteq Ops /\ Batches \subseteq Ops
  BY DEF Ops, NullOnly, Inspecting, Batches
<1>1. ASSUME NEW how \in Connects, Connect(how) PROVE TypeOK'
  <2>1. CASE how \in {"pwd", "unix"}
    <3>1. last' \in [op : Kinds, ret : {-1, 0, 1}, done : BOOLEAN]
      BY <1>1, <2>1, <1>a DEF Connect
    <3>2. cmd' \in [Serials -> Ops] /\ reply' \in [Serials -> Reply]
      BY <1>1, <1>b, <1>c DEF Connect
    <3>3. /\ op' = "auth" /\ count' = 1 /\ pc' = "append" /\ held' = held
          /\ contexts' = contexts + 1 /\ contexts < MaxContexts /\ authLost' = authLost
      BY <1>1, <2>1 DEF Connect
    <3>4. /\ base' = 0 /\ ret' = 0 /\ done' = TRUE /\ rejected' = {}
          /\ err' = FALSE /\ link' = "up" /\ arrived' = 0
          /\ appended' = 0 /\ written' = 0 /\ executed' = 0 /\ read' = 0
      BY <1>1 DEF Connect
    <3>5. /\ base' \in 0..MaxCmds /\ count' \in 0..MaxCmds /\ ret' \in {-1, 0, 1}
          /\ contexts' \in 0..MaxContexts /\ arrived' \in 0..MaxCmds
          /\ appended' \in 0..MaxCmds /\ written' \in 0..appended'
          /\ executed' \in 0..written' /\ read' \in 0..executed'
      BY <3>1, <3>3, <3>4
    <3>6. /\ pc' \in {"idle", "append", "commit", "dead"} /\ op' \in Ops
          /\ link' \in {"up", "cut"} /\ authLost' \in Nat /\ rejected' \subseteq Serials
      BY <3>1, <3>3, <3>4, <1>c
    <3>7. held' \in BOOLEAN /\ err' \in BOOLEAN /\ done' \in BOOLEAN
      BY <3>1, <3>3, <3>4
    <3> QED
      BY <3>1, <3>2, <3>3, <3>5, <3>6, <3>7
  <2>2. CASE how \notin {"pwd", "unix"}
    <3>1. /\ pc' = pc /\ op' = "select" /\ count' = 0 /\ held' = TRUE
          /\ last' = [op |-> how, ret |-> 0, done |-> TRUE]
      BY <1>1, <2>2 DEF Connect
    <3>2. last' \in [op : Kinds, ret : {-1, 0, 1}, done : BOOLEAN]
      BY <3>1, <1>a
    <3>3. cmd' \in [Serials -> Ops] /\ reply' \in [Serials -> Reply]
      BY <1>1, <1>b, <1>c DEF Connect
    <3>4. /\ base' = 0 /\ ret' = 0 /\ done' = TRUE /\ rejected' = {}
          /\ err' = FALSE /\ link' = "up" /\ arrived' = 0
          /\ appended' = 0 /\ written' = 0 /\ executed' = 0 /\ read' = 0
          /\ contexts' = contexts + 1 /\ contexts < MaxContexts /\ authLost' = authLost
      BY <1>1 DEF Connect
    <3>5. /\ base' \in 0..MaxCmds /\ count' \in 0..MaxCmds /\ ret' \in {-1, 0, 1}
          /\ contexts' \in 0..MaxContexts /\ arrived' \in 0..MaxCmds
          /\ appended' \in 0..MaxCmds /\ written' \in 0..appended'
          /\ executed' \in 0..written' /\ read' \in 0..executed'
      BY <3>1, <3>3, <3>4
    <3>6. /\ pc' \in {"idle", "append", "commit", "dead"} /\ op' \in Ops
          /\ link' \in {"up", "cut"} /\ authLost' \in Nat /\ rejected' \subseteq Serials
      BY <3>1, <3>3, <3>4, <1>c
    <3>7. held' \in BOOLEAN /\ err' \in BOOLEAN /\ done' \in BOOLEAN
      BY <3>1, <3>3, <3>4
    <3> QED
      BY <3>1, <3>2, <3>3, <3>5, <3>6, <3>7
  <2> QED
    BY <2>1, <2>2
<1>2. ASSUME NEW how \in Connects, ConnectFails(how) PROVE TypeOK'
  BY <1>2, <1>a DEF ConnectFails, Freed, conn, counters
<1>3. ASSUME NEW o \in Ops, NEW n \in 0..MaxBatch, Begin(o, n) PROVE TypeOK'
  BY <1>3, <1>a DEF Begin, handle, conn, counters
<1>4. ASSUME NEW o \in {"hmset", "get"}, Refuse(o) PROVE TypeOK'
  BY <1>4, <1>a, <1>c DEF Refuse, handle, conn, counters
<1>5. CASE AppendCommand
  BY <1>5 DEF AppendCommand, handle, Tidy, Within
<1>6. CASE AppendFails
  <2>1. CASE op \in Batches
    <3>1. (base + 1)..appended \subseteq Serials
      BY <1>6 DEF AppendFails, Tidy, Appending
    <3> QED
      <4>1. rejected' \subseteq Serials
        BY <1>6, <2>1, <3>1 DEF AppendFails
      <4>2. /\ Return(-1, FALSE) /\ err' = TRUE
            /\ UNCHANGED <<handle, link, arrived, counters, cmd, reply>>
        BY <1>6, <2>1 DEF AppendFails
      <4>3. last' \in [op : Kinds, ret : {-1, 0, 1}, done : BOOLEAN]
        BY <4>2, <1>a DEF Return
      <4> QED
        BY <4>1, <4>2, <4>3, <1>c DEF Return, NoCall, handle, counters
  <2>2. CASE op \notin Batches
    BY <1>6, <2>2 DEF AppendFails, handle, counters
  <2> QED
    BY <2>1, <2>2
<1>7. CASE Flush
  BY <1>7 DEF Flush, call, handle
<1>8. CASE Read
  <2>1. read + 1 \in Serials /\ read + 1 <= executed
    BY <1>8 DEF Read, Here, Tidy
  <2>2. reply[read + 1] \in Reply
    BY <2>1
  <2> QED
    BY <1>8, <2>1, <2>2, <1>b, <1>c, ResultType DEF Read, Left, handle
<1>9. CASE GetFails
  <2>1. CASE Return(-1, FALSE)
    BY <1>9, <2>1, <1>a, <1>c DEF GetFails, Return, NoCall, counters
  <2>2. CASE UNCHANGED <<op, base, count, ret, done, last, authLost>>
    BY <1>9, <2>2 DEF GetFails, Return, counters
  <2> QED
    BY <1>9, <2>1, <2>2 DEF GetFails
<1>10. CASE End
  BY <1>10, <1>a, <1>c DEF End, Return, NoCall, conn, counters
<1>11. CASE Disconnect
  <2>1. contexts = authLost + 1
    BY <1>11 DEF Disconnect, Owned, NoOtherLeak
  <2> QED
    <3>1. /\ held' = FALSE /\ contexts' = authLost
          /\ UNCHANGED <<call, authLost, conn>>
      BY <1>11, <2>1 DEF Disconnect, Freed
    <3>2. contexts' \in 0..MaxContexts
      BY <3>1, <2>1
    <3>3. held' \in BOOLEAN
      BY <3>1
    <3> QED
      BY <3>1, <3>2, <3>3 DEF call, conn, counters
<1>12. CASE Execute
  BY <1>12, ReplyType DEF Execute, call, handle
<1>13. CASE Cut
  BY <1>13, <1>b DEF Cut, call, handle, counters
<1>14. CASE UNCHANGED vars
  BY <1>14 DEF vars, call, handle, conn, counters
<1> QED
  BY <1>1, <1>2, <1>3, <1>4, <1>5, <1>6, <1>7, <1>8, <1>9, <1>10, <1>11, <1>12,
     <1>13, <1>14 DEF Next, Client
-----------------------------------------------------------------------------
\* Each step keeps the counters of an operation in order.
LEMMA TidyStep == Inv /\ [Next]_vars => Tidy'
<1> SUFFICES ASSUME TypeOK, Tidy, InStep, [Next]_vars PROVE Tidy'
  BY DEF Inv
<1> USE BoundAssumption DEF TypeOK, Tidy, Within, Appending
<1>1. ASSUME NEW how \in Connects, Connect(how) PROVE Tidy'
  BY <1>1 DEF Connect
<1>2. ASSUME NEW how \in Connects, ConnectFails(how) PROVE Tidy'
  BY <1>2 DEF ConnectFails, conn, counters
<1>3. ASSUME NEW o \in Ops, NEW n \in 0..MaxBatch, Begin(o, n) PROVE Tidy'
  BY <1>3 DEF Begin, handle, conn, counters, InStep
<1>4. ASSUME NEW o \in {"hmset", "get"}, Refuse(o) PROVE Tidy'
  BY <1>4 DEF Refuse, conn, counters
<1>5. CASE AppendCommand
  <2>1. CASE appended < base + count
    <3>1. appended + 1 \in Serials
      BY <1>5, <2>1 DEF AppendCommand, Serials
    <3>2. /\ pc = "append" /\ pc' = "append" /\ appended' = appended + 1
          /\ cmd' = [cmd EXCEPT ![appended + 1] = op]
          /\ UNCHANGED <<op, base, count, err, link, arrived, written, executed, read, rejected>>
      BY <1>5, <2>1 DEF AppendCommand
    <3>3. ASSUME ~ err, NEW s \in base + 1..appended' PROVE cmd'[s] = op
      <4>1. CASE s = appended + 1
        BY <3>1, <3>2, <4>1
      <4>2. CASE s \in base + 1..appended
        BY <3>1, <3>2, <3>3, <4>2
      <4> QED
        BY <3>2, <4>1, <4>2
    <3> QED
      BY <2>1, <3>2, <3>3
  <2>2. CASE ~ (appended < base + count)
    BY <1>5, <2>2 DEF AppendCommand
  <2> QED
    BY <2>1, <2>2
<1>6. CASE AppendFails
  <2>1. CASE op \in Batches
    BY <1>6, <2>1 DEF AppendFails, Return, NoCall, counters
  <2>2. CASE op \notin Batches
    BY <1>6, <2>2 DEF AppendFails, counters
  <2> QED
    BY <2>1, <2>2
<1>7. CASE Flush
  BY <1>7 DEF Flush, call
<1>8. CASE Read
  BY <1>8 DEF Read, Left
<1>9. CASE GetFails
  BY <1>9 DEF GetFails, Return, NoCall, counters
<1>10. CASE End
  BY <1>10 DEF End, Return, NoCall, conn, counters
<1>11. CASE Disconnect
  BY <1>11 DEF Disconnect, call, conn, counters
<1>12. CASE Execute
  BY <1>12 DEF Execute, call
<1>13. CASE Cut
  BY <1>13 DEF Cut, call, counters
<1>14. CASE UNCHANGED vars
  BY <1>14 DEF vars, call, conn, counters
<1> QED
  BY <1>1, <1>2, <1>3, <1>4, <1>5, <1>6, <1>7, <1>8, <1>9, <1>10, <1>11, <1>12,
     <1>13, <1>14 DEF Next, Client

\* Each step keeps the connection in step and rejected commands unwritten.
LEMMA InStepStep == Inv /\ [Next]_vars => InStep' /\ RejectedWhole'
<1> SUFFICES ASSUME TypeOK, Tidy, InStep, RejectedWhole, [Next]_vars
             PROVE  InStep' /\ RejectedWhole'
  BY DEF Inv
<1> USE BoundAssumption DEF TypeOK, InStep, RejectedWhole
<1>1. ASSUME NEW how \in Connects, Connect(how) PROVE InStep' /\ RejectedWhole'
  BY <1>1 DEF Connect
<1>2. ASSUME NEW how \in Connects, ConnectFails(how) PROVE InStep' /\ RejectedWhole'
  BY <1>2 DEF ConnectFails, conn, counters
<1>3. ASSUME NEW o \in Ops, NEW n \in 0..MaxBatch, Begin(o, n)
      PROVE  InStep' /\ RejectedWhole'
  BY <1>3 DEF Begin, conn, counters
<1>4. ASSUME NEW o \in {"hmset", "get"}, Refuse(o) PROVE InStep' /\ RejectedWhole'
  BY <1>4 DEF Refuse, conn, counters
<1>5. CASE AppendCommand
  <2>1. CASE appended < base + count
    BY <1>5, <2>1 DEF AppendCommand
  <2>2. CASE ~ (appended < base + count)
    BY <1>5, <2>2 DEF AppendCommand, Tidy, Appending
  <2> QED
    BY <2>1, <2>2
<1>6. CASE AppendFails
  <2>1. CASE op \in Batches
    <3>1. \A s \in rejected' : s > written
      BY <1>6, <2>1 DEF AppendFails, Tidy, Appending
    <3> QED
      BY <1>6, <2>1, <3>1 DEF AppendFails, counters
  <2>2. CASE op \notin Batches
    BY <1>6, <2>2 DEF AppendFails, counters
  <2> QED
    BY <2>1, <2>2
<1>7. CASE Flush
  BY <1>7 DEF Flush, MayWrite, call, Tidy
<1>8. CASE Read
  <2>1. \A s \in read' + 1..appended' : cmd'[s] = cmd[s]
    BY <1>8 DEF Read, Serials
  <2>2. /\ base' = base /\ count' = count /\ op' = op /\ appended' = appended
        /\ written' = written /\ rejected' = rejected /\ read' = read + 1 /\ ~ err
        /\ pc' \in {"commit", "dead"} /\ pc = "commit" /\ err' = err
    BY <1>8 DEF Read, Left
  <2>3. \A s \in read' + 1..appended' : s \in read + 1..appended
    BY <2>2
  <2> QED
    BY <2>1, <2>2, <2>3
<1>9. CASE GetFails
  BY <1>9 DEF GetFails, counters
<1>10. CASE End
  BY <1>10 DEF End, Return, conn, counters, Pending
<1>11. CASE Disconnect
  BY <1>11 DEF Disconnect, call, conn, counters
<1>12. CASE Execute
  BY <1>12 DEF Execute, call
<1>13. CASE Cut
  BY <1>13 DEF Cut, call, counters
<1>14. CASE UNCHANGED vars
  BY <1>14 DEF vars, call, conn, counters
<1> QED
  BY <1>1, <1>2, <1>3, <1>4, <1>5, <1>6, <1>7, <1>8, <1>9, <1>10, <1>11, <1>12,
     <1>13, <1>14 DEF Next, Client
-----------------------------------------------------------------------------
\* Each step keeps track of the context.
LEMMA OwnedStep == Inv /\ [Next]_vars => Owned'
<1> SUFFICES ASSUME TypeOK, Owned, [Next]_vars PROVE Owned'
  BY DEF Inv
<1> USE DEF Owned, Within, NoOtherLeak
<1>n. contexts \in Nat /\ authLost \in Nat
  BY BoundAssumption DEF TypeOK
<1>o. "auth" \notin Batches /\ "select" # "auth"
  BY DEF Batches
<1>1. ASSUME NEW how \in Connects, Connect(how) PROVE Owned'
  <2>1. contexts = authLost
    BY <1>1, <1>n DEF Connect
  <2> QED
    BY <1>1, <1>n, <2>1 DEF Connect
<1>2. ASSUME NEW how \in Connects, ConnectFails(how) PROVE Owned'
  BY <1>2, <1>n DEF ConnectFails, Freed
<1>3. ASSUME NEW o \in Ops \ {"auth"}, NEW n \in 0..MaxBatch, Begin(o, n) PROVE Owned'
  BY <1>3, <1>n DEF Begin, handle
<1>4. ASSUME NEW o \in {"hmset", "get"}, Refuse(o) PROVE Owned'
  BY <1>4 DEF Refuse, handle
<1>5. CASE AppendCommand
  BY <1>5 DEF AppendCommand, handle
<1>6. CASE AppendFails
  <2>1. CASE op \in Batches
    BY <1>6, <2>1, <1>o DEF AppendFails, Return, handle
  <2>2. CASE op \notin Batches
    BY <1>6, <2>2 DEF AppendFails, handle
  <2> QED
    BY <2>1, <2>2
<1>7. CASE Flush
  BY <1>7 DEF Flush, call, handle
<1>8. CASE Read
  BY <1>8 DEF Read, handle
<1>9. CASE GetFails
  <2>1. CASE pc' = "dead"
    BY <1>9, <2>1 DEF GetFails
  <2>2. CASE op = "auth" /\ pc' # "dead"
    <3>1. /\ pc = "commit" /\ authLost' = authLost + 1 /\ contexts' = contexts
          /\ held' = held /\ pc' = "idle"
      BY <1>9, <2>2 DEF GetFails, Return
    <3>2. ~ held /\ contexts = authLost + 1
      BY <2>2, <3>1
    <3> QED
      BY <3>1, <3>2
  <2>3. CASE op # "auth" /\ pc' # "dead"
    <3>1. /\ pc = "commit" /\ authLost' = authLost /\ contexts' = contexts
          /\ held' = held /\ pc' = "idle"
      BY <1>9, <2>3 DEF GetFails, Return
    <3>2. held /\ contexts = authLost + 1
      BY <2>3, <3>1
    <3> QED
      BY <3>1, <3>2
  <2> QED
    BY <2>1, <2>2, <2>3
<1>10. CASE End
  BY <1>10 DEF End, Return
<1>11. CASE Disconnect
  <2>1. contexts = authLost + 1
    BY <1>11 DEF Disconnect
  <2> QED
    BY <1>11, <1>n, <2>1 DEF Disconnect, Freed, call
<1>12. CASE Execute
  BY <1>12 DEF Execute, call, handle
<1>13. CASE Cut
  BY <1>13 DEF Cut, call, handle
<1>14. CASE UNCHANGED vars
  BY <1>14 DEF vars, call, handle
<1> QED
  BY <1>1, <1>2, <1>3, <1>4, <1>5, <1>6, <1>7, <1>8, <1>9, <1>10, <1>11, <1>12,
     <1>13, <1>14 DEF Next, Client

-----------------------------------------------------------------------------
\* The invariant holds in every state, whatever fails.
LEMMA Invariance == Spec => []Inv
<1>1. Inv /\ [Next]_vars => Inv'
  BY TypeStep, TidyStep, InStepStep, OwnedStep DEF Inv
<1> QED
  BY InitInv, <1>1, PTL DEF Spec

\* The variables have their types, the four counters of the pipeline their
\* order, and results are -1, 0 or 1 for the values 0 and 1.
THEOREM TypeCorrect == Spec => []TypeOK
BY Invariance, PTL DEF Inv

\* No operation takes the answer to another's command for its own: every
\* path of redis_op.c that leaves commands without their replies leaves the
\* connection in error.
THEOREM StaysInStep == Spec => []InStep
BY Invariance, PTL DEF Inv

\* The commands of a batch that was given up never reach the server.
THEOREM RejectedStayHome == Spec => []RejectedWhole
BY Invariance, PTL DEF Inv

\* Only a connection whose AUTH went unanswered leaks its context.
THEOREM OneLeak == Spec => []NoOtherLeak
BY Invariance, PTL DEF Inv, Owned

-----------------------------------------------------------------------------
\* The checked operations send one command; until its reply is read nothing
\* is wrong, and then only -1 may hide an error.
CheckedInv ==
  /\ pc = "append" /\ op \in Checked => count = 1 /\ done
  /\ pc = "commit" /\ op \in Checked =>
       /\ count = 1
       /\ read = base /\ ~ err => done
       /\ ret # -1 => done
  /\ SuccessIsTrue

\* The checked operations answer -1 to an error.
LEMMA ErrorIsFailure ==
  ASSUME NEW o \in Checked, NEW r, r.kind = "error"
  PROVE  Result(o, r) = -1
BY DEF Result, KeyResult, ListResult, SaysOK, Score, Checked

LEMMA CheckedStep == Inv /\ CheckedInv /\ [Next]_vars => CheckedInv'
<1> SUFFICES ASSUME TypeOK, Tidy, InStep, CheckedInv, [Next]_vars PROVE CheckedInv'
  BY DEF Inv
<1> USE DEF CheckedInv, SuccessIsTrue
<1>n. /\ base \in Nat /\ count \in Nat /\ read \in Nat /\ done \in BOOLEAN
      /\ ret \in {-1, 0, 1}
  BY BoundAssumption DEF TypeOK
<1>o. /\ \A x \in Batches \cup Connects \cup {"auth", "select", "none"} : x \notin Checked
  BY DEF Batches, Connects, Checked
<1>r. NoResult.op \notin Checked
  BY DEF NoResult, Checked
<1>1. ASSUME NEW how \in Connects, Connect(how) PROVE CheckedInv'
  <2>1. op' \notin Checked
    BY <1>1, <1>o DEF Connect
  <2>2. last'.op \notin Checked
    BY <1>1, <1>o, <1>r DEF Connect
  <2> QED
    BY <2>1, <2>2
<1>2. ASSUME NEW how \in Connects, ConnectFails(how) PROVE CheckedInv'
  <2>1. last'.op \notin Checked
    BY <1>2, <1>o DEF ConnectFails
  <2>2. pc' = "idle"
    BY <1>2 DEF ConnectFails
  <2> QED
    BY <2>1, <2>2
<1>3. ASSUME NEW o \in Ops, NEW n \in 0..MaxBatch, Begin(o, n) PROVE CheckedInv'
  BY <1>3, <1>o, <1>r DEF Begin
<1>4. ASSUME NEW o \in {"hmset", "get"}, Refuse(o) PROVE CheckedInv'
  BY <1>4 DEF Refuse
<1>5. CASE AppendCommand
  BY <1>5 DEF AppendCommand
<1>6. CASE AppendFails
  <2>1. CASE op \in Batches
    BY <1>6, <2>1, <1>o DEF AppendFails, Return
  <2>2. CASE op \notin Batches
    BY <1>6, <2>2 DEF AppendFails, counters
  <2> QED
    BY <2>1, <2>2
<1>7. CASE Flush
  BY <1>7 DEF Flush, call
<1>8. CASE Read
  <2> DEFINE r == reply[read + 1]
  <2>1. /\ pc = "commit" /\ ~ err /\ pc' \in {"commit", "dead"} /\ op' = op /\ base' = base
        /\ count' = count /\ last' = last /\ read' = read + 1 /\ ret' = Result(op, r)
        /\ done' = (done /\ r.kind # "error") /\ err' = err
    BY <1>8 DEF Read, Left
  <2>2. ASSUME op \in Checked PROVE read = base /\ done
    BY <1>8, <2>1, <2>2, <1>n DEF Pending, InStep, Read
  <2>3. ASSUME op \in Checked, r.kind = "error" PROVE ret' = -1
    BY <2>1, <2>3, ErrorIsFailure
  <2>4. op \in Checked => read' # base'
    BY <2>1, <2>2, <1>n
  <2>5. ASSUME op \in Checked, ret' # -1 PROVE done'
    <3>1. done /\ r.kind # "error"
      BY <2>2, <2>3, <2>5
    <3> QED
      BY <2>1, <3>1, Zenon
  <2> QED
    BY <2>1, <2>4, <2>5
<1>9. CASE GetFails
  BY <1>9 DEF GetFails, Return
<1>10. CASE End
  BY <1>10 DEF End, Return
<1>11. CASE Disconnect
  BY <1>11 DEF Disconnect, call
<1>12. CASE Execute
  BY <1>12 DEF Execute, call
<1>13. CASE Cut
  BY <1>13 DEF Cut, call, counters
<1>14. CASE UNCHANGED vars
  BY <1>14 DEF vars, call, conn, counters
<1> QED
  BY <1>1, <1>2, <1>3, <1>4, <1>5, <1>6, <1>7, <1>8, <1>9, <1>10, <1>11, <1>12,
     <1>13, <1>14 DEF Next, Client

\* A checked operation that does not return -1 has been carried out.
THEOREM SuccessMeansDone == Spec => []SuccessIsTrue
<1>1. Init => CheckedInv
  BY DEF Init, CheckedInv, SuccessIsTrue, NoResult, Checked
<1> QED
  BY <1>1, CheckedStep, Invariance, PTL DEF Spec, CheckedInv
=============================================================================
