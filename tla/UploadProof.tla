---------------------------- MODULE UploadProof ----------------------------
(***************************************************************************)
(* Proofs about Upload, for every set of workers, names, contents, ids and *)
(* faults and every descriptor limit.                                      *)
(***************************************************************************)
EXTENDS Upload, FiniteSetTheorems, TLAPS

-----------------------------------------------------------------------------
(* Facts about contents *)

\* ftruncate yields a file of the wanted length.
LEMMA ResizeType ==
  ASSUME NEW c \in Seq(Bytes), NEW n \in Nat
  PROVE  Resize(c, n) \in Seq(Bytes) /\ Len(Resize(c, n)) = n
BY DEF Resize, Bytes

\* write over a file of content bytes leaves content bytes.
LEMMA OverlayType ==
  ASSUME NEW d \in Seq(Blocks), NEW k \in 0..Len(d), NEW c \in Seq(Bytes)
  PROVE  Overlay(SubSeq(d, 1, k), c) \in Seq(Bytes)
<1> DEFINE e == SubSeq(d, 1, k)
<1>1. e \in Seq(Blocks) /\ Len(e) = k
  OBVIOUS
<1>2. Overlay(e, c) \in Seq(Bytes)
  <2> HIDE DEF e
  <2> QED BY <1>1 DEF Overlay, Bytes
<1> QED BY <1>2

\* A whole body written over a file of its own length leaves just the body.
LEMMA OverlayExact ==
  ASSUME NEW d \in Seq(Blocks), NEW c \in Seq(Bytes), Len(c) = Len(d)
  PROVE  Overlay(SubSeq(d, 1, Len(d)), c) = d
<1>1. SubSeq(d, 1, Len(d)) = d
  OBVIOUS
<1>2. Overlay(d, c) = d
  BY DEF Overlay
<1> QED BY <1>1, <1>2

-----------------------------------------------------------------------------
(* Type correctness *)

\* A request that arrives is well formed.
LEMMA RequestsType ==
  ASSUME NEW w \in Workers, NEW r \in Requests(w)
  PROVE  r \in Request /\ r.name \in NamesOf[w] \cup {NoName}
<1>1. r \in [kind : Kinds, name : NamesOf[w] \cup {NoName}, data : Contents \cup {<< >>}]
  BY DEF Requests
<1>6. r.kind = "file" <=> r.name # NoName
  BY DEF Requests
<1>2. << >> \in Seq(Blocks)
  OBVIOUS
<1>3. Contents \cup {<< >>} \subseteq Seq(Blocks)
  BY <1>2, ContentsAssumption
<1>4. NamesOf[w] \subseteq Names
  BY NamesAssumption
<1>5. r \in [kind : {"file", "nameless", "malformed", "short"},
              name : Names \cup {NoName}, data : Seq(Blocks)]
  BY <1>1, <1>3, <1>4, KindsAssumption
<1>7. r \in Request
  BY <1>5, <1>6 DEF Request
<1> QED BY <1>1, <1>7

\* Types alone are not inductive: a write types only while the descriptor
\* refers to a file that is there.
Named(w) ==
  /\ fdLive[w] => fileName[w] \in FileNames /\ local[fileName[w]] # Absent
  /\ pc[w] \in {"truncate", "write", "spawn", "wait", "url", "connect", "lpush",
                "zincr", "finish"} \/ child[w] = "running" => fileName[w] \in FileNames
  /\ pc[w] \notin {"wait"} \cup Halted => child[w] = "none"

TypeInv == TypeOK /\ \A w \in Workers : Named(w)

\* The initial state is typed.
LEMMA TypeInit == Init => TypeInv
<1> SUFFICES ASSUME Init PROVE TypeInv
  OBVIOUS
<1>1. << >> \in Seq(Blocks) /\ << >> \in Seq(Ids) /\ << >> \in Seq(Record)
  OBVIOUS
<1>2. TypeOK
  BY <1>1 DEF Init, TypeOK, Request, Halted
<1>3. \A w \in Workers : Named(w)
  BY DEF Init, Named, Halted
<1> QED BY <1>2, <1>3 DEF TypeInv

\* What a worker pushes to FILE_INFO_LIST is an entry, and the list stays one.
LEMMA PushedType ==
  ASSUME TypeOK, NEW w \in Workers, fileName[w] \in FileNames
  PROVE  Pushed(Entry(w), list) \in Seq(Record)
<1>1. Entry(w) \in Record
  BY DEF TypeOK, Entry, Record
<1>2. <<Entry(w)>> \in Seq(Record)
  BY <1>1
<1> QED BY <1>2 DEF Pushed, TypeOK

USE DEF LeftOpen, Incremented, Unlinked, ClearedName, ClearedUrl, Goto

\* ZINCRBY keeps scores natural numbers.
LEMMA ScoreType ==
  ASSUME score \in [Ids -> Nat], NEW id
  PROVE  [score EXCEPT ![id] = Incremented(@)] \in [Ids -> Nat]
<1>1. CASE id \in Ids
  BY <1>1
<1>2. CASE id \notin Ids
  BY <1>2
<1> QED BY <1>1, <1>2

\* Every step keeps the types.
LEMMA TypeStep == TypeInv /\ [Next]_vars => TypeInv'
<1> SUFFICES ASSUME TypeInv, [Next]_vars PROVE TypeInv'
  OBVIOUS
<1> USE DEF TypeInv, Halted
<1>0. CASE UNCHANGED vars
  BY <1>0 DEF vars, buffers, disk, tool, redis, TypeOK, Named, Entry
<1>1. ASSUME NEW w \in Workers, Accept(w) PROVE TypeInv'
  <2>1. PICK r \in Requests(w) :
          /\ req' = [req EXCEPT ![w] = r]
          /\ Goto(w, IF r.kind = "short" THEN "exited" ELSE "parse")
    BY <1>1 DEF Accept
  <2>2. r \in Request
    BY RequestsType
  <2> QED BY <1>1, <2>1, <2>2 DEF Accept, buffers, disk, tool, redis, TypeOK, Named
<1>2. ASSUME NEW w \in Workers, SourceFails(w) PROVE TypeInv'
  BY <1>2 DEF SourceFails, buffers, disk, tool, redis, TypeOK, Named
<1>3. ASSUME NEW w \in Workers, OpenLocal(w) PROVE TypeInv'
  <2>1. PICK n \in FoundNames(w) :
          LET f == CopiedName(fileName[w], n) IN
          /\ fileName' = [fileName EXCEPT ![w] = f]
          /\ residue' = [residue EXCEPT ![w] = @ \cup {n}]
          /\ local' = [local EXCEPT ![f] = Opened(@)]
    BY <1>3 DEF OpenLocal
  <2>2. n \in Names
    BY <2>1 DEF FoundNames, TypeOK, Request
  <2>3. CopiedName(fileName[w], n) \in FileNames
    BY <2>2 DEF CopiedName, FileNames
  <2>4. \A f \in FileNames : Opened(local[f]) \in Seq(Bytes)
    <3>1. << >> \in Seq(Bytes)
      OBVIOUS
    <3> QED BY <3>1 DEF Opened, TypeOK
  <2>5. Absent \notin Seq(Bytes)
    BY ContentsAssumption
  <2>6. \A f \in FileNames : local[f] # Absent => local'[f] # Absent
    BY <2>1, <2>3, <2>4, <2>5 DEF TypeOK
  <2>7. local'[fileName'[w]] # Absent
    BY <2>1, <2>3, <2>4, <2>5 DEF TypeOK
  <2>8. TypeOK'
    BY <1>3, <2>1, <2>2, <2>3, <2>4 DEF OpenLocal, tool, redis, TypeOK
  <2>9. ASSUME NEW v \in Workers PROVE Named(v)'
    BY <1>3, <2>1, <2>3, <2>6, <2>7, <2>9 DEF OpenLocal, tool, redis, TypeOK, Named
  <2> QED BY <2>8, <2>9
<1>4. ASSUME NEW w \in Workers, Truncate(w) PROVE TypeInv'
  <2>1. Len(req[w].data) \in Nat
    BY DEF TypeOK, Request
  <2>2. fdLive[w] => /\ fileName[w] \in FileNames
                     /\ Resize(local[fileName[w]], Len(req[w].data)) \in Seq(Bytes)
    BY <2>1, ResizeType DEF TypeOK, Named
  <2>3. \/ local' = local
        \/ fdLive[w] /\ local' = [local EXCEPT ![fileName[w]] = Resize(@, Len(req[w].data))]
    BY <1>4 DEF Truncate
  <2>4. TypeOK'
    BY <1>4, <2>2, <2>3 DEF Truncate, buffers, tool, redis, TypeOK
  <2>5. \A f \in FileNames : local[f] # Absent => local'[f] # Absent
    BY <2>2, <2>3, ContentsAssumption DEF TypeOK
  <2> QED BY <1>4, <2>4, <2>5 DEF Truncate, buffers, tool, redis, Named, TypeOK
<1>5. ASSUME NEW w \in Workers, Write(w) PROVE TypeInv'
  <2>1. req[w].data \in Seq(Blocks)
    BY DEF TypeOK, Request
  <2>2. PICK k \in 0..Len(req[w].data) :
          local' = IF fdLive[w]
                   THEN [local EXCEPT ![fileName[w]] =
                           Overlay(SubSeq(req[w].data, 1, k), @)]
                   ELSE local
    BY <1>5, <2>1 DEF Write
  <2>3. fdLive[w] => /\ fileName[w] \in FileNames
                     /\ Overlay(SubSeq(req[w].data, 1, k), local[fileName[w]]) \in Seq(Bytes)
    BY <2>1, OverlayType DEF TypeOK, Named
  <2>4. TypeOK'
    BY <1>5, <2>2, <2>3 DEF Write, buffers, tool, redis, TypeOK
  <2>5. \A f \in FileNames : local[f] # Absent => local'[f] # Absent
    BY <2>2, <2>3, ContentsAssumption DEF TypeOK
  <2> QED BY <1>5, <2>4, <2>5 DEF Write, buffers, tool, redis, Named, TypeOK
<1>6. ASSUME NEW w \in Workers, PipeFails(w) PROVE TypeInv'
  BY <1>6 DEF PipeFails, buffers, disk, tool, redis, TypeOK, Named
<1>7. ASSUME NEW w \in Workers, Spawn(w) PROVE TypeInv'
  BY <1>7 DEF Spawn, buffers, disk, redis, TypeOK, Named
<1>8. ASSUME NEW w \in Workers, ToolUploads(w) PROVE TypeInv'
  BY <1>8 DEF ToolUploads, buffers, disk, redis, TypeOK, Named
<1>9. ASSUME NEW w \in Workers, ToolFails(w) PROVE TypeInv'
  BY <1>9 DEF ToolFails, buffers, disk, redis, TypeOK, Named
<1>10. ASSUME NEW w \in Workers, ToolLosesAnswer(w) PROVE TypeInv'
  BY <1>10 DEF ToolLosesAnswer, buffers, disk, redis, TypeOK, Named
<1>11. ASSUME NEW w \in Workers, WaitChild(w) PROVE TypeInv'
  BY <1>11 DEF WaitChild, disk, redis, TypeOK, Named
<1>12. ASSUME NEW w \in Workers, UrlMade(w) PROVE TypeInv'
  <2>1. Append(fileUrl[w], fileId[w]) \in Seq(Ids)
    BY <1>12 DEF UrlMade, TypeOK
  <2> QED BY <1>12, <2>1 DEF UrlMade, disk, tool, redis, TypeOK, Named
<1>13. ASSUME NEW w \in Workers, UrlCrashes(w) PROVE TypeInv'
  BY <1>13 DEF UrlCrashes, buffers, disk, tool, redis, TypeOK, Named
<1>14. ASSUME NEW w \in Workers, Connect(w) PROVE TypeInv'
  BY <1>14 DEF Connect, buffers, disk, tool, redis, TypeOK, Named
<1>15. ASSUME NEW w \in Workers, Lpush(w) PROVE TypeInv'
  <2>1. Pushed(Entry(w), list) \in Seq(Record)
    BY <1>15, PushedType DEF Lpush, Named
  <2> QED BY <1>15, <2>1 DEF Lpush, buffers, disk, tool, TypeOK, Named
<1>16. ASSUME NEW w \in Workers, Zincr(w) PROVE TypeInv'
  <2>1. score' \in [Ids -> Nat]
    BY <1>16, ScoreType DEF Zincr, TypeOK
  <2> QED BY <1>16, <2>1 DEF Zincr, buffers, disk, tool, TypeOK, Named
<1>17. ASSUME NEW w \in Workers, RedisCut(w) PROVE TypeInv'
  <2>1. Pushed(Entry(w), list) \in Seq(Record)
    BY <1>17, PushedType DEF RedisCut, Named
  <2>2. score' \in [Ids -> Nat]
    BY <1>17, ScoreType DEF RedisCut, TypeOK
  <2>3. list' \in Seq(Record)
    BY <1>17, <2>1 DEF RedisCut, TypeOK
  <2> QED BY <1>17, <2>2, <2>3 DEF RedisCut, buffers, disk, tool, TypeOK, Named
<1>18. ASSUME NEW w \in Workers, Finish(w) PROVE TypeInv'
  <2>1. TypeOK'
    <3>1. << >> \in Seq(Ids)
      OBVIOUS
    <3> QED BY <1>18, <3>1 DEF Finish, tool, redis, TypeOK
  <2>2. ASSUME NEW v \in Workers PROVE Named(v)'
    BY <1>18, <2>2 DEF Finish, tool, redis, TypeOK, Named
  <2> QED BY <2>1, <2>2
<1>19. ASSUME NEW w \in Workers, Kill(w) PROVE TypeInv'
  BY <1>19 DEF Kill, buffers, disk, tool, redis, TypeOK, Named
<1> QED
  BY <1>0, <1>1, <1>2, <1>3, <1>4, <1>5, <1>6, <1>7, <1>8, <1>9, <1>10, <1>11, <1>12,
     <1>13, <1>14, <1>15, <1>16, <1>17, <1>18, <1>19 DEF Next, Serve, Tool

\* Whatever the workers, their tools and the faults do, the state keeps its
\* types; in particular no content is made from a file that is not there.
THEOREM TypeCorrect == Spec => []TypeOK
<1>1. TypeInv => TypeOK
  BY DEF TypeInv
<1> QED BY <1>1, TypeInit, TypeStep, PTL DEF Spec

-----------------------------------------------------------------------------
(* The list and the weights *)

\* The object that worker w is still to list, or still to weigh.
ToList(w, id) ==
  \/ pc[w] = "wait" /\ child[w] = "done" /\ pipe[w] = id
  \/ pc[w] \in {"url", "connect", "lpush"} /\ fileId[w] = id
ToWeigh(w, id) ==
  \/ ToList(w, id)
  \/ pc[w] = "zincr" /\ fileId[w] = id

\* The ids a worker holds are ids of stored objects, and its URL is empty
\* until it is the address of its id.
Held(w) ==
  /\ child[w] = "running" => pipe[w] = NoId
  /\ pipe[w] \in Ids => stored[pipe[w]] # Absent
  /\ fileId[w] \in Ids => stored[fileId[w]] # Absent
  /\ pc[w] \in {"accept", "parse", "truncate", "write", "spawn", "wait", "url"} =>
       fileUrl[w] = << >>
  /\ pc[w] \in {"connect", "lpush", "zincr", "finish"} =>
       fileId[w] \in Ids /\ fileUrl[w] = <<fileId[w]>>

Weighed == \A id \in Ids : stored[id] = Absent => score[id] = 0

\* An object that is still to be listed (weighed) is not, and no two workers
\* are to list (weigh) the same one.
Exclusive ==
  /\ \A w \in Workers, id \in Ids :
       ToList(w, id) => \A i \in DOMAIN list : list[i].id # id
  /\ \A w \in Workers, id \in Ids : ToWeigh(w, id) => score[id] = 0
  /\ \A v, w \in Workers, id \in Ids : ToWeigh(v, id) /\ ToWeigh(w, id) => v = w

EntryInv ==
  /\ \A w \in Workers : Held(w)
  /\ Weighed
  /\ Exclusive
  /\ NoDanglingEntry
  /\ OneEntryPerObject

\* The initial state lists and holds nothing.
LEMMA EntryInit == Init => EntryInv
BY IdsAssumption
   DEF Init, EntryInv, Held, Weighed, Exclusive, ToList, ToWeigh, NoDanglingEntry,
       OneEntryPerObject

\* A step that only moves a worker, without reaching a pc where it holds more
\* than before, keeps the invariant.
LEMMA EntryMove ==
  ASSUME TypeOK, EntryInv, NEW w \in Workers, NEW l,
         pc' = [pc EXCEPT ![w] = l],
         \/ l \in Halted
         \/ l \in {"parse", "truncate", "write", "spawn", "wait"} /\ fileUrl[w] = << >>
              /\ (l = "wait" => child'[w] # "done" \/ pipe'[w] = NoId)
         \/ pc[w] = "connect" /\ l = "lpush"
         \/ pc[w] = "lpush" /\ l = "zincr"
         \/ pc[w] = "zincr" /\ l = "finish",
         \/ UNCHANGED <<child, pipe>>
         \/ \E c : /\ child' = [child EXCEPT ![w] = c]
                  /\ pipe' = [pipe EXCEPT ![w] = NoId]
                  /\ l = "wait",
         UNCHANGED <<fileId, fileUrl, stored, list, score>>
  PROVE  EntryInv'
<1> USE IdsAssumption DEF EntryInv, TypeOK, Halted
<1>1. ASSUME NEW v \in Workers PROVE Held(v)'
  BY <1>1 DEF Held
<1>2. Weighed' /\ NoDanglingEntry' /\ OneEntryPerObject'
  BY DEF Weighed, NoDanglingEntry, OneEntryPerObject
<1>3. ASSUME NEW v \in Workers, NEW id \in Ids
      PROVE  (ToList(v, id)' => ToList(v, id)) /\ (ToWeigh(v, id)' => ToWeigh(v, id))
  BY <1>3 DEF ToList, ToWeigh
<1>4. Exclusive'
  BY <1>3 DEF Exclusive
<1> QED BY <1>1, <1>2, <1>4

\* A worker in "lpush" lists its object: one more entry, for an object that
\* is stored, unlisted and in nobody else's hands.
LEMMA EntryPush ==
  ASSUME TypeInv, EntryInv, NEW w \in Workers, pc[w] = "lpush",
         NEW l \in {"zincr", "crashed"}, pc' = [pc EXCEPT ![w] = l],
         list' = Pushed(Entry(w), list),
         UNCHANGED <<child, pipe, fileId, fileUrl, stored, score>>
  PROVE  EntryInv'
<1> USE IdsAssumption DEF EntryInv
<1>0. TypeOK
  BY DEF TypeInv
<1>1. /\ DOMAIN list' = 1..(Len(list) + 1)
      /\ list'[1] = Entry(w)
      /\ \A i \in 2..(Len(list) + 1) : list'[i] = list[i - 1]
      /\ DOMAIN list = 1..Len(list)
  <2>1. fileName[w] \in FileNames
    BY DEF TypeInv, Named
  <2>2. Entry(w) \in Record
    BY <1>0, <2>1 DEF TypeOK, Entry, Record
  <2>3. list \in Seq(Record)
    BY <1>0 DEF TypeOK
  <2> DEFINE e == Entry(w)
  <2>4. e \in Record
    BY <2>2
  <2>5. list' = Pushed(e, list)
    OBVIOUS
  <2> HIDE DEF e
  <2>6. /\ DOMAIN list' = 1..(Len(list) + 1)
        /\ list'[1] = e
        /\ \A i \in 2..(Len(list) + 1) : list'[i] = list[i - 1]
        /\ DOMAIN list = 1..Len(list)
    BY <2>3, <2>4, <2>5 DEF Pushed
  <2> QED BY <2>6 DEF e
<1>2. /\ fileId[w] \in Ids
      /\ stored[fileId[w]] # Absent
      /\ fileUrl[w] = <<fileId[w]>>
      /\ Entry(w).id = fileId[w]
      /\ Entry(w).url = fileUrl[w]
  BY DEF Held, Entry
<1>3. ToList(w, fileId[w]) /\ ToWeigh(w, fileId[w])
  BY DEF ToList, ToWeigh
<1>4. \A i \in DOMAIN list : list[i].id # fileId[w]
  BY <1>2, <1>3 DEF Exclusive
<1>5. \A i \in 1..Len(list) : list[i].id \in Ids /\ list[i].id # fileId[w]
  BY <1>1, <1>4 DEF NoDanglingEntry
<1>6. Len(list) \in Nat
  BY <1>0 DEF TypeOK
<1>7. NoDanglingEntry'
  <2>1. ASSUME NEW i \in DOMAIN list'
        PROVE  /\ list'[i].id \in Ids
               /\ stored'[list'[i].id] # Absent
               /\ list'[i].url = <<list'[i].id>>
    <3>1. CASE i = 1
      BY <1>1, <1>2, <3>1
    <3>2. CASE i # 1
      <4>1. i \in 2..(Len(list) + 1) /\ i - 1 \in DOMAIN list
        BY <1>1, <1>6, <2>1, <3>2
      <4> QED BY <1>1, <4>1 DEF NoDanglingEntry
    <3> QED BY <3>1, <3>2
  <2> QED BY <2>1 DEF NoDanglingEntry
<1>8. OneEntryPerObject'
  <2>1. ASSUME NEW i \in DOMAIN list', NEW j \in DOMAIN list', list'[i].id = list'[j].id
        PROVE  i = j
    <3>1. \A k \in DOMAIN list' :
            \/ k = 1 /\ list'[k].id = fileId[w]
            \/ k - 1 \in DOMAIN list /\ list'[k] = list[k - 1] /\ list'[k].id # fileId[w]
      BY <1>1, <1>2, <1>5, <1>6
    <3>2. i \in Nat /\ j \in Nat
      BY <1>1, <1>6
    <3>3. CASE i = 1 \/ j = 1
      BY <1>1, <1>6, <2>1, <3>1, <3>3
    <3>4. CASE i # 1 /\ j # 1
      <4>1. i - 1 \in DOMAIN list /\ j - 1 \in DOMAIN list
            /\ list[i - 1].id = list[j - 1].id
        BY <2>1, <3>1, <3>4
      <4>2. i - 1 = j - 1
        BY <4>1 DEF OneEntryPerObject
      <4> QED BY <3>2, <4>2
    <3> QED BY <3>3, <3>4
  <2> QED BY <2>1 DEF OneEntryPerObject
<1>9. ASSUME NEW v \in Workers PROVE Held(v)'
  BY <1>0, <1>9 DEF Held, TypeOK
<1>10. ASSUME NEW v \in Workers, NEW id \in Ids
       PROVE  /\ ToList(v, id)' => ToList(v, id) /\ v # w
              /\ ToWeigh(v, id)' => ToWeigh(v, id)
  BY <1>0, <1>10 DEF ToList, ToWeigh, TypeOK
<1>11. ASSUME NEW v \in Workers, NEW id \in Ids, ToList(v, id)',
              NEW i \in DOMAIN list'
       PROVE  list'[i].id # id
  <2>1. ToList(v, id) /\ v # w /\ ToWeigh(v, id)
    BY <1>10, <1>11 DEF ToWeigh
  <2>2. id # fileId[w]
    BY <1>2, <1>3, <2>1 DEF Exclusive
  <2>3. \A j \in 1..Len(list) : list[j].id # id
    BY <1>1, <2>1 DEF Exclusive
  <2> QED BY <1>1, <1>2, <1>6, <1>11, <2>2, <2>3
<1>12. Exclusive'
  BY <1>10, <1>11 DEF Exclusive
<1>13. Weighed'
  BY DEF Weighed
<1> QED BY <1>7, <1>8, <1>9, <1>12, <1>13

\* A worker in "zincr" weighs its object, which nobody did or will.
LEMMA EntryWeigh ==
  ASSUME TypeInv, EntryInv, NEW w \in Workers, pc[w] = "zincr",
         NEW l \in {"finish", "crashed"}, pc' = [pc EXCEPT ![w] = l],
         score' = [score EXCEPT ![fileId[w]] = Incremented(@)],
         UNCHANGED <<child, pipe, fileId, fileUrl, stored, list>>
  PROVE  EntryInv'
<1> USE IdsAssumption DEF EntryInv, TypeInv, TypeOK
<1>1. fileId[w] \in Ids /\ stored[fileId[w]] # Absent /\ ToWeigh(w, fileId[w])
  BY DEF Held, ToWeigh
<1>2. ASSUME NEW v \in Workers PROVE Held(v)'
  BY <1>2 DEF Held
<1>3. Weighed' /\ NoDanglingEntry' /\ OneEntryPerObject'
  BY <1>1 DEF Weighed, NoDanglingEntry, OneEntryPerObject
<1>4. ASSUME NEW v \in Workers, NEW id \in Ids
      PROVE  /\ ToList(v, id)' => ToList(v, id)
             /\ ToWeigh(v, id)' => ToWeigh(v, id) /\ v # w
  BY <1>4 DEF ToList, ToWeigh
<1>5. ASSUME NEW v \in Workers, NEW id \in Ids, ToWeigh(v, id)' PROVE score'[id] = 0
  BY <1>1, <1>4, <1>5 DEF Exclusive
<1>6. Exclusive'
  BY <1>4, <1>5 DEF Exclusive
<1> QED BY <1>2, <1>3, <1>6

\* Every step keeps the invariant of the list.
LEMMA EntryStep == TypeInv /\ EntryInv /\ [Next]_vars => EntryInv'
<1> SUFFICES ASSUME TypeInv, EntryInv, [Next]_vars PROVE EntryInv'
  OBVIOUS
<1> TypeOK
  BY DEF TypeInv
<1> USE IdsAssumption
<1>0. CASE UNCHANGED vars
  BY <1>0 DEF vars, buffers, disk, tool, redis, EntryInv, Held, Weighed, Exclusive,
              ToList, ToWeigh, NoDanglingEntry, OneEntryPerObject
<1>1. ASSUME NEW w \in Workers, Accept(w) PROVE EntryInv'
  <2>1. \E l \in {"parse", "exited"} : pc' = [pc EXCEPT ![w] = l]
    BY <1>1 DEF Accept
  <2> QED BY <1>1, <2>1, EntryMove
          DEF Accept, buffers, tool, redis, EntryInv, Held, Halted
<1>2. ASSUME NEW w \in Workers, SourceFails(w) PROVE EntryInv'
  <2>1. PICK l \in {"exited", "crashed"} : Goto(w, l)
    BY <1>2 DEF SourceFails
  <2> QED BY <1>2, <2>1, EntryMove
          DEF SourceFails, buffers, tool, redis, EntryInv, Held, Halted
<1>3. ASSUME NEW w \in Workers, OpenLocal(w) PROVE EntryInv'
  BY <1>3, EntryMove DEF OpenLocal, tool, redis, EntryInv, Held
<1>4. ASSUME NEW w \in Workers, Truncate(w) PROVE EntryInv'
  BY <1>4, EntryMove DEF Truncate, buffers, tool, redis, EntryInv, Held
<1>5. ASSUME NEW w \in Workers, Write(w) PROVE EntryInv'
  BY <1>5, EntryMove DEF Write, buffers, tool, redis, EntryInv, Held
<1>6. ASSUME NEW w \in Workers, PipeFails(w) PROVE EntryInv'
  BY <1>6, EntryMove DEF PipeFails, buffers, tool, redis, Halted
<1>7. ASSUME NEW w \in Workers, Spawn(w) PROVE EntryInv'
  BY <1>7, EntryMove DEF Spawn, buffers, redis, TypeOK, EntryInv, Held
<1>8. ASSUME NEW w \in Workers, ToolUploads(w) PROVE EntryInv'
  <2>1. PICK id \in Ids :
          /\ stored[id] = Absent
          /\ stored' = [stored EXCEPT ![id] = local[fileName[w]]]
          /\ pipe' = [pipe EXCEPT ![w] = id]
    BY <1>8 DEF ToolUploads
  <2> USE DEF ToolUploads, buffers, redis, EntryInv, TypeOK
  <2>2. \A i \in Ids : stored[i] # Absent => stored'[i] # Absent
    BY <1>8, <2>1
  <2>3. stored'[id] # Absent
    BY <1>8, <2>1
  <2>4. ASSUME NEW v \in Workers PROVE Held(v)'
    BY <1>8, <2>1, <2>2, <2>3, <2>4 DEF Held
  <2>5. Weighed' /\ NoDanglingEntry' /\ OneEntryPerObject'
    BY <1>8, <2>2 DEF Weighed, NoDanglingEntry, OneEntryPerObject
  <2>6. ASSUME NEW v \in Workers, NEW i \in Ids
        PROVE  /\ ToList(v, i)' => ToList(v, i) \/ (v = w /\ i = id)
               /\ ToWeigh(v, i)' => ToWeigh(v, i) \/ (v = w /\ i = id)
    BY <1>8, <2>1, <2>6 DEF ToList, ToWeigh
  <2>7. \A i \in DOMAIN list : list[i].id # id
    BY <2>1 DEF NoDanglingEntry
  <2>8. \A v \in Workers : ~ ToWeigh(v, id)
    BY <2>1 DEF ToWeigh, ToList, Held
  <2>9. score[id] = 0
    BY <2>1 DEF Weighed
  <2>10. Exclusive'
    <3>1. \A v \in Workers, i \in Ids :
            ToList(v, i)' => \A j \in DOMAIN list' : list'[j].id # i
      BY <1>8, <2>6, <2>7 DEF Exclusive
    <3>2. \A v \in Workers, i \in Ids : ToWeigh(v, i)' => score'[i] = 0
      BY <1>8, <2>6, <2>9 DEF Exclusive
    <3>3. ASSUME NEW u \in Workers, NEW v \in Workers, NEW i \in Ids,
                 ToWeigh(u, i)', ToWeigh(v, i)'
          PROVE  u = v
      <4>1. CASE i = id
        BY <2>6, <2>8, <3>3, <4>1
      <4>2. CASE i # id
        BY <2>6, <3>3, <4>2 DEF Exclusive
      <4> QED BY <4>1, <4>2
    <3> QED BY <3>1, <3>2, <3>3 DEF Exclusive
  <2> QED BY <2>4, <2>5, <2>10
<1>9. ASSUME NEW w \in Workers, ToolFails(w) PROVE EntryInv'
  <2> USE DEF ToolFails, buffers, redis, EntryInv, TypeOK
  <2>1. ASSUME NEW v \in Workers PROVE Held(v)'
    <3>1. CASE v = w
      BY <1>9, <3>1 DEF Held
    <3>2. CASE v # w
      BY <1>9, <2>1, <3>2 DEF Held
    <3> QED BY <3>1, <3>2
  <2>2. Weighed' /\ NoDanglingEntry' /\ OneEntryPerObject'
    BY <1>9 DEF Weighed, NoDanglingEntry, OneEntryPerObject
  <2>3. ASSUME NEW v \in Workers, NEW id \in Ids
        PROVE  (ToList(v, id)' => ToList(v, id)) /\ (ToWeigh(v, id)' => ToWeigh(v, id))
    BY <1>9, <2>3 DEF ToList, ToWeigh, Held
  <2>4. Exclusive'
    BY <1>9, <2>3 DEF Exclusive
  <2> QED BY <2>1, <2>2, <2>4
<1>10. ASSUME NEW w \in Workers, ToolLosesAnswer(w) PROVE EntryInv'
  <2> USE DEF ToolLosesAnswer, buffers, redis, EntryInv, TypeOK
  <2>1. \A i \in Ids : stored[i] # Absent => stored'[i] # Absent
    BY <1>10
  <2>2. ASSUME NEW v \in Workers PROVE Held(v)'
    BY <1>10, <2>1, <2>2 DEF Held
  <2>3. Weighed' /\ NoDanglingEntry' /\ OneEntryPerObject'
    BY <1>10, <2>1 DEF Weighed, NoDanglingEntry, OneEntryPerObject
  <2>4. ASSUME NEW v \in Workers, NEW id \in Ids
        PROVE  (ToList(v, id)' => ToList(v, id)) /\ (ToWeigh(v, id)' => ToWeigh(v, id))
    BY <1>10, <2>4 DEF ToList, ToWeigh, Held
  <2>5. Exclusive'
    BY <1>10, <2>4 DEF Exclusive
  <2> QED BY <2>2, <2>3, <2>5
<1>11. ASSUME NEW w \in Workers, WaitChild(w) PROVE EntryInv'
  <2> USE DEF WaitChild, redis, EntryInv, TypeOK
  <2>1. ASSUME NEW v \in Workers PROVE Held(v)'
    BY <1>11, <2>1 DEF Held
  <2>2. Weighed' /\ NoDanglingEntry' /\ OneEntryPerObject'
    BY <1>11 DEF Weighed, NoDanglingEntry, OneEntryPerObject
  <2>3. ASSUME NEW v \in Workers, NEW id \in Ids
        PROVE  (ToList(v, id)' => ToList(v, id)) /\ (ToWeigh(v, id)' => ToWeigh(v, id))
    <3>0. pc[w] = "wait" /\ child[w] = "done" /\ pc'[w] = "url" /\ fileId'[w] = pipe[w]
      BY <1>11
    <3>1. CASE v = w
      BY <3>0, <3>1 DEF ToList, ToWeigh
    <3>2. CASE v # w
      BY <1>11, <2>3, <3>2 DEF ToList, ToWeigh
    <3> QED BY <3>1, <3>2
  <2>4. Exclusive'
    BY <1>11, <2>3 DEF Exclusive
  <2> QED BY <2>1, <2>2, <2>4
<1>12. ASSUME NEW w \in Workers, UrlMade(w) PROVE EntryInv'
  <2> USE DEF UrlMade, tool, redis, EntryInv, TypeOK
  <2>1. ASSUME NEW v \in Workers PROVE Held(v)'
    <3>1. Append(<< >>, fileId[w]) = <<fileId[w]>>
      OBVIOUS
    <3>2. CASE v = w
      BY <1>12, <3>1, <3>2 DEF Held
    <3>3. CASE v # w
      BY <1>12, <2>1, <3>3 DEF Held
    <3> QED BY <3>2, <3>3
  <2>2. Weighed' /\ NoDanglingEntry' /\ OneEntryPerObject'
    BY <1>12 DEF Weighed, NoDanglingEntry, OneEntryPerObject
  <2>3. ASSUME NEW v \in Workers, NEW id \in Ids
        PROVE  (ToList(v, id)' => ToList(v, id)) /\ (ToWeigh(v, id)' => ToWeigh(v, id))
    BY <1>12, <2>3 DEF ToList, ToWeigh
  <2>4. Exclusive'
    BY <1>12, <2>3 DEF Exclusive
  <2> QED BY <2>1, <2>2, <2>4
<1>13. ASSUME NEW w \in Workers, UrlCrashes(w) PROVE EntryInv'
  BY <1>13, EntryMove DEF UrlCrashes, buffers, tool, redis, Halted
<1>14. ASSUME NEW w \in Workers, Connect(w) PROVE EntryInv'
  BY <1>14, EntryMove DEF Connect, buffers, tool, redis, Halted
<1>15. ASSUME NEW w \in Workers, Lpush(w) PROVE EntryInv'
  <2>1. CASE list' = list
    BY <1>15, <2>1, EntryMove DEF Lpush, buffers, tool
  <2>2. CASE list' = Pushed(Entry(w), list)
    BY <1>15, <2>2, EntryPush DEF Lpush, buffers, tool
  <2> QED BY <1>15, <2>1, <2>2 DEF Lpush
<1>16. ASSUME NEW w \in Workers, Zincr(w) PROVE EntryInv'
  <2>1. CASE score' = score
    BY <1>16, <2>1, EntryMove DEF Zincr, buffers, tool
  <2>2. CASE score' = [score EXCEPT ![fileId[w]] = Incremented(@)]
    BY <1>16, <2>2, EntryWeigh DEF Zincr, buffers, tool
  <2> QED BY <1>16, <2>1, <2>2 DEF Zincr
<1>17. ASSUME NEW w \in Workers, RedisCut(w) PROVE EntryInv'
  <2>1. CASE list' = list /\ score' = score
    BY <1>17, <2>1, EntryMove DEF RedisCut, buffers, tool, Halted
  <2>2. CASE pc[w] = "lpush" /\ list' = Pushed(Entry(w), list) /\ score' = score
    BY <1>17, <2>2, EntryPush DEF RedisCut, buffers, tool
  <2>3. CASE pc[w] = "zincr" /\ score' = [score EXCEPT ![fileId[w]] = Incremented(@)]
                            /\ list' = list
    BY <1>17, <2>3, EntryWeigh DEF RedisCut, buffers, tool
  <2> QED BY <1>17, <2>1, <2>2, <2>3 DEF RedisCut
<1>18. ASSUME NEW w \in Workers, Finish(w) PROVE EntryInv'
  <2> USE DEF Finish, tool, redis, EntryInv, TypeOK
  <2>1. ASSUME NEW v \in Workers PROVE Held(v)'
    BY <1>18, <2>1 DEF Held
  <2>2. Weighed' /\ NoDanglingEntry' /\ OneEntryPerObject'
    BY <1>18 DEF Weighed, NoDanglingEntry, OneEntryPerObject
  <2>3. ASSUME NEW v \in Workers, NEW id \in Ids
        PROVE  (ToList(v, id)' => ToList(v, id)) /\ (ToWeigh(v, id)' => ToWeigh(v, id))
    BY <1>18, <2>3 DEF ToList, ToWeigh
  <2>4. Exclusive'
    BY <1>18, <2>3 DEF Exclusive
  <2> QED BY <2>1, <2>2, <2>4
<1>19. ASSUME NEW w \in Workers, Kill(w) PROVE EntryInv'
  BY <1>19, EntryMove DEF Kill, buffers, tool, redis, Halted
<1> QED
  BY <1>0, <1>1, <1>2, <1>3, <1>4, <1>5, <1>6, <1>7, <1>8, <1>9, <1>10, <1>11, <1>12,
     <1>13, <1>14, <1>15, <1>16, <1>17, <1>18, <1>19 DEF Next, Serve, Tool

\* For any number of workers and any faults: an entry of FILE_INFO_LIST names
\* a stored object and carries exactly its address.
THEOREM EntriesResolve == Spec => []NoDanglingEntry
<1>1. EntryInv => NoDanglingEntry
  BY DEF EntryInv
<1> QED BY <1>1, TypeInit, TypeStep, EntryInit, EntryStep, PTL DEF Spec

\* For any number of workers and any faults: no object has two entries.
THEOREM EntriesUnique == Spec => []OneEntryPerObject
<1>1. EntryInv => OneEntryPerObject
  BY DEF EntryInv
<1> QED BY <1>1, TypeInit, TypeStep, EntryInit, EntryStep, PTL DEF Spec

-----------------------------------------------------------------------------
(* Refinement *)

entriesBar == [i \in DOMAIN list |-> list[i].id]

\* LPUSH of an entry is Publish of its id.
LEMMA PublishStep ==
  ASSUME TypeInv, EntryInv, NEW w \in Workers, pc[w] = "lpush",
         list' = Pushed(Entry(w), list), UNCHANGED <<stored, score>>
  PROVE  FS!Next
<1>0. TypeOK
  BY DEF TypeInv
<1>1. fileId[w] \in Ids /\ stored[fileId[w]] # Absent
  BY DEF EntryInv, Held
<1>2. ToList(w, fileId[w])
  BY DEF ToList
<1>3. \A i \in DOMAIN list : list[i].id # fileId[w]
  BY <1>1, <1>2 DEF EntryInv, Exclusive
<1>4. \A id \in Ids : id = fileId[w] => ~ FS!Listed(id)
  BY <1>3 DEF FS!Listed
<1>5. list \in Seq(Record) /\ Entry(w) \in Record /\ Entry(w).id = fileId[w]
  BY <1>0 DEF TypeInv, Named, TypeOK, Entry, Record
<1>6. entriesBar \in Seq(Ids) /\ Len(entriesBar) = Len(list)
  <2>1. DOMAIN list = 1..Len(list) /\ Len(list) \in Nat
    BY <1>5
  <2>2. \A i \in 1..Len(list) : list[i].id \in Ids
    BY <2>1 DEF EntryInv, NoDanglingEntry
  <2> QED BY <2>1, <2>2 DEF entriesBar
<1>7. entriesBar' = <<fileId[w]>> \o entriesBar
  BY <1>1, <1>5, <1>6 DEF entriesBar, Pushed
<1>8. PICK id \in Ids : id = fileId[w]
  BY <1>1
<1>9. FS!Publish(id)
  BY <1>1, <1>4, <1>7, <1>8 DEF FS!Publish, entriesBar
<1> QED BY <1>9 DEF FS!Next

\* ZINCRBY is Weigh.
LEMMA WeighStep ==
  ASSUME TypeInv, EntryInv, NEW w \in Workers, pc[w] = "zincr",
         score' = [score EXCEPT ![fileId[w]] = Incremented(@)], UNCHANGED <<stored, list>>
  PROVE  FS!Next
<1>1. fileId[w] \in Ids /\ stored[fileId[w]] # Absent
  BY DEF EntryInv, Held
<1>2. ToWeigh(w, fileId[w])
  BY DEF ToWeigh
<1>3. score[fileId[w]] = 0
  BY <1>1, <1>2 DEF EntryInv, Exclusive
<1>4. score' = [score EXCEPT ![fileId[w]] = 1]
  BY <1>3 DEF TypeInv, TypeOK
<1>5. FS!Weigh(fileId[w])
  BY <1>1, <1>3, <1>4 DEF FS!Weigh
<1> QED BY <1>1, <1>5 DEF FS!Next

\* A tool that stores an object does Store.
LEMMA StoreStep ==
  ASSUME TypeInv, NEW w \in Workers, child[w] = "running",
         local[fileName[w]] # Absent, NEW id \in Ids, stored[id] = Absent,
         stored' = [stored EXCEPT ![id] = local[fileName[w]]], UNCHANGED <<list, score>>
  PROVE  FS!Next
<1>1. stored'[id] \in Seq(Bytes) /\ stored' = [stored EXCEPT ![id] = stored'[id]]
  BY DEF TypeInv, TypeOK, Named
<1>2. FS!Store(id)
  BY <1>1 DEF FS!Store
<1> QED BY <1>2 DEF FS!Next

\* Every step of the workers is a step of FileStore or leaves its state alone.
LEMMA FileStoreStep ==
  TypeInv /\ EntryInv /\ [Next]_vars => [FS!Next]_(FS!fsvars)
<1> SUFFICES ASSUME TypeInv, EntryInv, [Next]_vars
             PROVE  FS!Next \/ UNCHANGED <<stored, list, score>>
  BY DEF FS!fsvars
<1>1. CASE UNCHANGED vars
  BY <1>1 DEF vars, redis
<1>2. ASSUME NEW w \in Workers, Tool(w)
      PROVE  FS!Next \/ UNCHANGED <<stored, list, score>>
  <2>1. CASE ToolUploads(w)
    BY <2>1, StoreStep DEF ToolUploads, redis
  <2>2. CASE ToolFails(w)
    BY <2>2 DEF ToolFails, redis
  <2>3. CASE ToolLosesAnswer(w)
    BY <2>3, StoreStep DEF ToolLosesAnswer, redis
  <2> QED BY <1>2, <2>1, <2>2, <2>3 DEF Tool
<1>3. ASSUME NEW w \in Workers, Lpush(w) \/ Zincr(w) \/ RedisCut(w)
      PROVE  FS!Next \/ UNCHANGED <<stored, list, score>>
  <2>1. CASE Lpush(w)
    BY <2>1, PublishStep DEF Lpush
  <2>2. CASE Zincr(w)
    BY <2>2, WeighStep DEF Zincr
  <2>3. CASE RedisCut(w)
    BY <2>3, PublishStep, WeighStep DEF RedisCut
  <2> QED BY <1>3, <2>1, <2>2, <2>3
<1>4. ASSUME NEW w \in Workers,
             \/ Accept(w) \/ SourceFails(w) \/ OpenLocal(w) \/ Truncate(w) \/ Write(w)
             \/ PipeFails(w) \/ Spawn(w) \/ WaitChild(w) \/ UrlMade(w) \/ UrlCrashes(w)
             \/ Connect(w) \/ Finish(w) \/ Kill(w)
      PROVE  UNCHANGED <<stored, list, score>>
  BY <1>4 DEF Accept, SourceFails, OpenLocal, Truncate, Write, PipeFails, Spawn,
              WaitChild, UrlMade, UrlCrashes, Connect, Finish, Kill, redis
<1> QED BY <1>1, <1>2, <1>3, <1>4 DEF Next, Serve

\* The worker processes, with every interleaving, crash and lost answer,
\* implement FileStore: objects are written once, listed once after they are
\* stored and only at the head, and weighed once.
THEOREM Implements == Spec => FileStoreSpec
<1>1. Init => FS!Init
  BY DEF Init, FS!Init
<1> QED
  BY <1>1, TypeInit, TypeStep, EntryInit, EntryStep, FileStoreStep, PTL
  DEF Spec, FileStoreSpec, FS!Spec

-----------------------------------------------------------------------------
(* Descriptors *)

FdInv ==
  \A w \in Workers :
    pc[w] \notin {"wait", "url"} \cup Halted => leaked[w] + 2 <= FdLimit

\* However many files it has served, a worker that reaches recv_file_upload
\* has descriptors for its pipe: its check never meets the limit, the
\* unchecked pipe() of file_url_make does.
THEOREM FdReserved == Spec => []FdReserve
<1>1. Init => FdInv
  BY FdAssumption DEF Init, FdInv
<1>2. TypeInv /\ FdInv /\ [Next]_vars => FdInv'
  <2> SUFFICES ASSUME TypeInv, FdInv, [Next]_vars PROVE FdInv'
    OBVIOUS
  <2> USE FdAssumption DEF FdInv, TypeInv, TypeOK, Halted
  <2>1. CASE UNCHANGED vars
    BY <2>1 DEF vars
  <2>2. ASSUME NEW w \in Workers, Spawn(w) PROVE FdInv'
    BY <2>2 DEF Spawn
  <2>3. ASSUME NEW w \in Workers, UrlMade(w) PROVE FdInv'
    BY <2>3 DEF UrlMade
  <2>4. ASSUME NEW w \in Workers, Tool(w) PROVE FdInv'
    BY <2>4 DEF Tool, ToolUploads, ToolFails, ToolLosesAnswer
  <2>5. ASSUME NEW w \in Workers, Accept(w) \/ SourceFails(w) \/ OpenLocal(w)
                                  \/ Truncate(w) \/ Write(w) \/ PipeFails(w)
        PROVE FdInv'
    BY <2>5 DEF Accept, SourceFails, OpenLocal, Truncate, Write, PipeFails
  <2>6. ASSUME NEW w \in Workers, WaitChild(w) \/ UrlCrashes(w) \/ Kill(w) PROVE FdInv'
    BY <2>6 DEF WaitChild, UrlCrashes, Kill
  <2>7. ASSUME NEW w \in Workers, Connect(w) \/ Lpush(w) \/ Zincr(w) \/ RedisCut(w)
                                  \/ Finish(w)
        PROVE FdInv'
    BY <2>7 DEF Connect, Lpush, Zincr, RedisCut, Finish
  <2> QED BY <2>1, <2>2, <2>3, <2>4, <2>5, <2>6, <2>7 DEF Next, Serve
<1>3. FdInv => FdReserve
  BY DEF FdInv, FdReserve, Halted
<1> QED BY <1>1, <1>2, <1>3, TypeInit, TypeStep, PTL DEF Spec

-----------------------------------------------------------------------------
(* Names *)

\* file_name is empty when a name is copied into it, and afterwards it is the
\* name that the request gave.
Naming(w) ==
  /\ pc[w] \in {"accept", "parse"} => fileName[w] = NoName
  /\ pc[w] \in {"truncate", "write", "spawn", "wait", "url", "connect", "lpush",
                "zincr", "finish"} /\ req[w].kind = "file" => fileName[w] = req[w].name

NameInv == (\A w \in Workers : Naming(w)) /\ NameIntact

\* An entry pushed under the name of its request keeps NameIntact.
LEMMA PushedName ==
  ASSUME TypeInv, NameIntact, NEW w \in Workers, Naming(w), pc[w] = "lpush",
         list' = Pushed(Entry(w), list)
  PROVE  NameIntact'
<1>1. list \in Seq(Record) /\ Len(list) \in Nat
  BY DEF TypeInv, TypeOK
<1>2. Entry(w).req = req[w] /\ Entry(w).name = fileName[w]
  BY DEF Entry
<1>3. ASSUME NEW i \in DOMAIN list', list'[i].req.kind = "file"
      PROVE  list'[i].name = list'[i].req.name
  <2> DEFINE e == Entry(w)
  <2>0. list' = Pushed(e, list)
    OBVIOUS
  <2> HIDE DEF e
  <2>1. \/ list'[i] = e
        \/ i - 1 \in DOMAIN list /\ list'[i] = list[i - 1]
    BY <1>1, <1>3, <2>0 DEF Pushed
  <2>2. CASE list'[i] = e
    BY <1>2, <1>3, <2>2 DEF Naming, e
  <2>3. CASE i - 1 \in DOMAIN list /\ list'[i] = list[i - 1]
    BY <1>3, <2>3 DEF NameIntact
  <2> QED BY <2>1, <2>2, <2>3
<1> QED BY <1>3 DEF NameIntact

\* Every step keeps the names.
LEMMA NameStep == TypeInv /\ NameInv /\ [Next]_vars => NameInv'
<1> SUFFICES ASSUME TypeInv, NameInv, [Next]_vars PROVE NameInv'
  OBVIOUS
<1> USE DEF NameInv, TypeInv, TypeOK, Naming, Halted
<1>1. CASE UNCHANGED vars
  BY <1>1 DEF vars, buffers, redis, NameIntact
<1>2. ASSUME NEW w \in Workers, OpenLocal(w) PROVE NameInv'
  BY <1>2 DEF OpenLocal, FoundNames, CopiedName, redis, NameIntact
<1>3. ASSUME NEW w \in Workers, Accept(w) PROVE NameInv'
  BY <1>3 DEF Accept, buffers, redis, NameIntact
<1>4. ASSUME NEW w \in Workers, Tool(w) PROVE NameInv'
  BY <1>4 DEF Tool, ToolUploads, ToolFails, ToolLosesAnswer, buffers, redis, NameIntact
<1>5. ASSUME NEW w \in Workers, SourceFails(w) \/ Truncate(w) \/ Write(w)
                                \/ PipeFails(w) \/ Spawn(w) \/ Kill(w)
      PROVE NameInv'
  <2>1. CASE SourceFails(w) \/ PipeFails(w) \/ Kill(w)
    BY <2>1 DEF SourceFails, PipeFails, Kill, buffers, redis, NameIntact
  <2>2. CASE Truncate(w)
    BY <2>2 DEF Truncate, buffers, redis, NameIntact
  <2>3. CASE Write(w)
    BY <2>3 DEF Write, buffers, redis, NameIntact
  <2>4. CASE Spawn(w)
    BY <2>4 DEF Spawn, buffers, redis, NameIntact
  <2> QED BY <1>5, <2>1, <2>2, <2>3, <2>4
<1>6. ASSUME NEW w \in Workers, WaitChild(w) \/ UrlMade(w) \/ UrlCrashes(w) \/ Connect(w)
      PROVE NameInv'
  BY <1>6 DEF WaitChild, UrlMade, UrlCrashes, Connect, buffers, redis, NameIntact
<1>7. ASSUME NEW w \in Workers, Lpush(w) \/ Zincr(w) \/ RedisCut(w) PROVE NameInv'
  <2>1. ASSUME NEW v \in Workers PROVE Naming(v)'
    BY <1>7, <2>1 DEF Lpush, Zincr, RedisCut, buffers
  <2>2. list' = list \/ (pc[w] = "lpush" /\ list' = Pushed(Entry(w), list))
    BY <1>7 DEF Lpush, Zincr, RedisCut
  <2>3. NameIntact'
    BY <2>2, PushedName DEF NameIntact
  <2> QED BY <2>1, <2>3
<1>8. ASSUME NEW w \in Workers, Finish(w) PROVE NameInv'
  BY <1>8 DEF Finish, redis, NameIntact
<1> QED BY <1>1, <1>2, <1>3, <1>4, <1>5, <1>6, <1>7, <1>8 DEF Next, Serve

\* For any number of workers and any faults, an uploaded file is listed under
\* the name its client gave: file_name[++i] = '\0' leaves no older byte,
\* because main clears file_name before the next request.
THEOREM NamesIntact == Spec => []NameIntact
<1>1. Init => NameInv
  BY DEF Init, NameInv, Naming, NameIntact
<1>2. NameInv => NameIntact
  BY DEF NameInv
<1> QED BY <1>1, <1>2, NameStep, TypeInit, TypeStep, PTL DEF Spec

-----------------------------------------------------------------------------
(* The working directory *)

\* The step of a worker that is serving touches at most the file it has named,
\* and leaves it waiting in FCGI_Accept only in Finish.
LEMMA LeftoverStep ==
  ASSUME TypeInv, NameInv, NoLocalLeftover, [Next]_vars
  PROVE  NoLocalLeftover'
<1> USE DEF TypeInv, TypeOK, NameInv, Naming, NoLocalLeftover, Halted
<1>1. CASE UNCHANGED vars
  BY <1>1 DEF vars, buffers, disk
<1>2. ASSUME NEW w \in Workers, Accept(w) PROVE NoLocalLeftover'
  <2>1. UNCHANGED <<fileName, local>>
    BY <1>2 DEF Accept, buffers, disk
  <2>2. PICK l \in {"parse", "exited"} : pc' = [pc EXCEPT ![w] = l]
    BY <1>2 DEF Accept
  <2> QED BY <2>1, <2>2
<1>3. ASSUME NEW w \in Workers, OpenLocal(w) PROVE NoLocalLeftover'
  <2>1. PICK f : /\ fileName' = [fileName EXCEPT ![w] = f]
                 /\ local' = [local EXCEPT ![f] = Opened(@)]
    BY <1>3 DEF OpenLocal
  <2>2. fileName[w] = NoName /\ pc' = [pc EXCEPT ![w] = "truncate"]
    BY <1>3 DEF OpenLocal
  <2> QED BY <2>1, <2>2, NamesAssumption DEF FileNames
<1>4. ASSUME NEW w \in Workers, Truncate(w) \/ Write(w) PROVE NoLocalLeftover'
  <2>1. fileName' = fileName /\ \E c : local' = [local EXCEPT ![fileName[w]] = c]
    <3>1. CASE local' = local
      <4>1. local' = [local EXCEPT ![fileName[w]] = local[fileName[w]]]
        BY <3>1
      <4> QED BY <1>4, <4>1 DEF Truncate, Write, buffers
    <3>2. CASE local' # local
      BY <1>4, <3>2 DEF Truncate, Write, buffers
    <3> QED BY <3>1, <3>2
  <2>2. \E l \in {"write", "spawn"} : pc' = [pc EXCEPT ![w] = l]
    BY <1>4 DEF Truncate, Write
  <2> QED BY <2>1, <2>2
<1>5. ASSUME NEW w \in Workers, SourceFails(w) \/ PipeFails(w) \/ Spawn(w) \/ Kill(w)
      PROVE NoLocalLeftover'
  <2>1. UNCHANGED <<fileName, local>>
    BY <1>5 DEF SourceFails, PipeFails, Spawn, Kill, buffers, disk
  <2>2. \E l \in Halted \cup {"wait"} : pc' = [pc EXCEPT ![w] = l]
    BY <1>5 DEF SourceFails, PipeFails, Spawn, Kill
  <2> QED BY <2>1, <2>2
<1>6. ASSUME NEW w \in Workers, WaitChild(w) \/ UrlMade(w) \/ UrlCrashes(w) \/ Connect(w)
                                \/ Lpush(w) \/ Zincr(w) \/ RedisCut(w)
      PROVE NoLocalLeftover'
  <2>1. UNCHANGED <<fileName, local>>
    BY <1>6 DEF WaitChild, UrlMade, UrlCrashes, Connect, Lpush, Zincr, RedisCut, buffers, disk
  <2>2. \E l \in Halted \cup {"url", "connect", "lpush", "zincr", "finish"} :
          pc' = [pc EXCEPT ![w] = l]
    BY <1>6 DEF WaitChild, UrlMade, UrlCrashes, Connect, Lpush, Zincr, RedisCut
  <2> QED BY <2>1, <2>2
<1>7. ASSUME NEW w \in Workers, Tool(w) PROVE NoLocalLeftover'
  BY <1>7 DEF Tool, ToolUploads, ToolFails, ToolLosesAnswer, buffers, disk
<1>8. ASSUME NEW w \in Workers, Finish(w) PROVE NoLocalLeftover'
  BY <1>8 DEF Finish
<1> QED BY <1>1, <1>2, <1>3, <1>4, <1>5, <1>6, <1>7, <1>8 DEF Next, Serve

\* Whatever fails, a file in the working directory belongs to a worker that
\* is serving or has ended: one that waits for a request has left none.
THEOREM NothingLeftOver == Spec => []NoLocalLeftover
<1>1. Init => NameInv
  BY DEF Init, NameInv, Naming, NameIntact
<1>2. Init => NoLocalLeftover
  BY DEF Init, NoLocalLeftover
<1> QED BY <1>1, <1>2, NameStep, LeftoverStep, TypeInit, TypeStep, PTL DEF Spec

-----------------------------------------------------------------------------
(* The life of a worker *)

\* The entries that worker w made in the list l
By(w, l) == {i \in 1..Len(l) : l[i].by = w}

\* LPUSH of an entry of worker v gives v one more entry and the others none.
LEMMA PushedBy ==
  ASSUME NEW l, NEW n \in Nat, l \in [1..n -> Record], NEW e \in Record, NEW w
  PROVE  LET k == <<e>> \o l
         IN  /\ IsFiniteSet(By(w, l))
             /\ Cardinality(By(w, k)) = Cardinality(By(w, l)) + (IF e.by = w THEN 1 ELSE 0)
<1> DEFINE k == <<e>> \o l
           S == By(w, l)
           T == {i \in 2..(n + 1) : l[i - 1].by = w}
           f == [i \in S |-> i + 1]
<1>1. l \in Seq(Record) /\ Len(l) = n
  OBVIOUS
<1>2. /\ Len(k) = n + 1
      /\ k[1] = e
      /\ \A i \in 2..(n + 1) : k[i] = l[i - 1]
  BY <1>1
<1>3. IsFiniteSet(S)
  <2>1. S \subseteq 1..n /\ IsFiniteSet(1..n)
    BY <1>1, FS_Interval DEF By
  <2> QED BY <2>1, FS_Subset
<1>4. IsFiniteSet(T) /\ Cardinality(T) = Cardinality(S)
  <2>1. f \in Bijection(S, T)
    <3>1. f \in [S -> T] /\ \A i, j \in S : f[i] = f[j] => i = j
      BY <1>1 DEF By
    <3>2. ASSUME NEW t \in T PROVE \E i \in S : f[i] = t
      <4>1. t - 1 \in S /\ f[t - 1] = t
        BY <1>1, <3>2 DEF By
      <4> QED BY <4>1
    <3> QED BY <3>1, <3>2 DEF Bijection, Injection, Surjection, IsInjective
  <2>2. ExistsBijection(S, T)
    BY <2>1 DEF ExistsBijection
  <2> QED BY <1>3, <2>2, FS_Bijection
<1>5. 1 \notin T
  OBVIOUS
<1>6. By(w, k) = IF e.by = w THEN T \cup {1} ELSE T
  <2> HIDE DEF k
  <2>1. By(w, k) = {i \in 1..(n + 1) : k[i].by = w}
    BY <1>2 DEF By
  <2>2. \A i \in 1..(n + 1) : k[i].by = w <=> i \in T \/ (i = 1 /\ e.by = w)
    BY <1>2
  <2> QED BY <2>1, <2>2
<1> HIDE DEF k, T
<1>7. Cardinality(By(w, k)) = Cardinality(S) + (IF e.by = w THEN 1 ELSE 0)
  <2>1. Cardinality(S) \in Nat
    BY <1>3, FS_CardinalityType
  <2> HIDE DEF S, f
  <2>2. Cardinality(T \cup {1}) = Cardinality(T) + 1
    BY <1>4, <1>5, FS_AddElement
  <2>3. CASE e.by = w
    BY <1>4, <1>6, <2>2, <2>3
  <2>4. CASE e.by # w
    BY <1>4, <1>6, <2>1, <2>4
  <2> QED BY <2>3, <2>4
<1> QED BY <1>3, <1>7 DEF k

\* An entry was paid for with a descriptor, and a worker on its way to LPUSH
\* has paid for the next one and has room for two more.
Paid(w, n) ==
  /\ n <= leaked[w]
  /\ n + 2 <= FdLimit
  /\ pc[w] \in {"wait", "url", "connect", "lpush"} => n + 1 <= leaked[w]
  /\ pc[w] \in {"connect", "lpush"} => leaked[w] + 2 <= FdLimit

LifeInv == \A w \in Workers : Paid(w, Cardinality(By(w, list)))

\* A step that lists nothing keeps LifeInv.
LEMMA LifeMove ==
  ASSUME TypeInv, LifeInv, [Next]_vars, list' = list
  PROVE  LifeInv'
<1> USE DEF TypeInv, TypeOK, Paid, LifeInv, Halted
<1> DEFINE n(w) == Cardinality(By(w, list))
<1>1. \A w \in Workers : n(w) \in Nat
  <2>1. ASSUME NEW w \in Workers PROVE IsFiniteSet(By(w, list))
    <3>1. By(w, list) \subseteq 1..Len(list) /\ IsFiniteSet(1..Len(list))
      BY FS_Interval DEF By
    <3> QED BY <3>1, FS_Subset
  <2> QED BY <2>1, FS_CardinalityType
<1>2. \A w \in Workers : n(w)' = n(w)
  BY DEF By
<1>3. SUFFICES \A w \in Workers : Paid(w, n(w))'
  OBVIOUS
<1>4. \A w \in Workers : Paid(w, n(w))
  OBVIOUS
<1> HIDE DEF n, LifeInv
<1>5. CASE UNCHANGED vars
  BY <1>2, <1>4, <1>5 DEF vars
<1>6. ASSUME NEW w \in Workers, Spawn(w) PROVE \A v \in Workers : Paid(v, n(v))'
  BY <1>1, <1>2, <1>4, <1>6 DEF Spawn
<1>7. ASSUME NEW w \in Workers, UrlMade(w) \/ WaitChild(w) \/ UrlCrashes(w) \/ Connect(w)
      PROVE \A v \in Workers : Paid(v, n(v))'
  BY <1>1, <1>2, <1>4, <1>7 DEF UrlMade, WaitChild, UrlCrashes, Connect
<1>8. ASSUME NEW w \in Workers, Accept(w) \/ SourceFails(w) \/ OpenLocal(w) \/ Truncate(w)
                                \/ Write(w) \/ PipeFails(w) \/ Kill(w)
      PROVE \A v \in Workers : Paid(v, n(v))'
  BY <1>1, <1>2, <1>4, <1>8
     DEF Accept, SourceFails, OpenLocal, Truncate, Write, PipeFails, Kill
<1>9. ASSUME NEW w \in Workers, Lpush(w) \/ Zincr(w) \/ RedisCut(w) \/ Finish(w)
      PROVE \A v \in Workers : Paid(v, n(v))'
  BY <1>1, <1>2, <1>4, <1>9 DEF Lpush, Zincr, RedisCut, Finish
<1>10. ASSUME NEW w \in Workers, Tool(w) PROVE \A v \in Workers : Paid(v, n(v))'
  BY <1>2, <1>4, <1>10 DEF Tool, ToolUploads, ToolFails, ToolLosesAnswer
<1> QED BY <1>5, <1>6, <1>7, <1>8, <1>9, <1>10 DEF Next, Serve

\* LPUSH keeps it too.
LEMMA LifePush ==
  ASSUME TypeInv, LifeInv, NEW w \in Workers, Lpush(w) \/ RedisCut(w),
         pc[w] = "lpush", list' = Pushed(Entry(w), list)
  PROVE  LifeInv'
<1> DEFINE n(v) == Cardinality(By(v, list))
<1>1. Entry(w) \in Record /\ Entry(w).by = w
  BY DEF TypeInv, TypeOK, Named, Entry, Record
<1>2. ASSUME NEW v \in Workers
      PROVE  n(v) \in Nat /\ n(v)' = n(v) + (IF v = w THEN 1 ELSE 0)
  <2> DEFINE e == Entry(w)
             l == list
  <2>1. e \in Record /\ e.by = w /\ list' = <<e>> \o l
    BY <1>1 DEF Pushed
  <2>2. l \in Seq(Record) /\ Len(l) \in Nat /\ l \in [1..Len(l) -> Record]
    BY DEF TypeInv, TypeOK
  <2> HIDE DEF e, l
  <2>3. IsFiniteSet(By(v, l))
        /\ Cardinality(By(v, <<e>> \o l)) = Cardinality(By(v, l)) + (IF e.by = v THEN 1 ELSE 0)
    BY <2>1, <2>2, PushedBy
  <2>4. By(v, list)' = By(v, <<e>> \o l)
    BY <2>1 DEF By
  <2>5. Cardinality(By(v, l)) \in Nat
    BY <2>3, FS_CardinalityType
  <2> QED BY <2>1, <2>3, <2>4, <2>5 DEF l
<1>3. \A v \in Workers : Paid(v, n(v))
  BY DEF LifeInv
<1>4. SUFFICES \A v \in Workers : Paid(v, n(v))'
  BY DEF LifeInv
<1>5. leaked' = leaked /\ \E l \in {"zincr", "crashed"} : pc' = [pc EXCEPT ![w] = l]
  BY DEF Lpush, RedisCut
<1>6. ASSUME NEW v \in Workers PROVE Paid(v, n(v))'
  <2>1. /\ leaked'[v] = leaked[v] /\ leaked[v] \in Nat
        /\ IF v = w THEN pc'[v] \in {"zincr", "crashed"} ELSE pc'[v] = pc[v]
    BY <1>5 DEF TypeInv, TypeOK
  <2>2. n(v) \in Nat /\ n(v)' = n(v) + (IF v = w THEN 1 ELSE 0) /\ Paid(v, n(v))
    BY <1>2, <1>3
  <2> HIDE DEF n
  <2>3. CASE v = w
    BY <2>1, <2>2, <2>3, FdAssumption DEF Paid
  <2>4. CASE v # w
    BY <2>1, <2>2, <2>4 DEF Paid
  <2> QED BY <2>3, <2>4
<1> QED BY <1>6

\* A worker lists at most FdLimit - 2 files in its life, for any limit, any
\* number of workers and any faults: each request costs it a descriptor.
THEOREM LifeBounded == Spec => []BoundedLife
<1>1. Init => LifeInv
  <2> SUFFICES ASSUME Init, NEW w \in Workers PROVE Paid(w, Cardinality(By(w, list)))
    BY DEF LifeInv
  <2>1. By(w, list) = {}
    BY DEF Init, By
  <2>2. Cardinality(By(w, list)) = 0
    BY <2>1, FS_EmptySet
  <2>3. pc[w] = "accept" /\ leaked[w] = 0
    BY DEF Init
  <2> QED BY <2>2, <2>3, FdAssumption DEF Paid
<1>2. TypeInv /\ LifeInv /\ [Next]_vars => LifeInv'
  <2> SUFFICES ASSUME TypeInv, LifeInv, [Next]_vars PROVE LifeInv'
    OBVIOUS
  <2>1. CASE list' = list
    BY <2>1, LifeMove
  <2>2. CASE list' # list
    <3>1. PICK w \in Workers : Lpush(w) \/ RedisCut(w)
      BY <2>2 DEF Next, Serve, Tool, vars, redis, Accept, SourceFails, OpenLocal, Truncate,
             Write, PipeFails, Spawn, ToolUploads, ToolFails, ToolLosesAnswer, WaitChild,
             UrlMade, UrlCrashes, Connect, Zincr, Finish, Kill
    <3>2. pc[w] = "lpush" /\ list' = Pushed(Entry(w), list)
      BY <2>2, <3>1 DEF Lpush, RedisCut
    <3> QED BY <3>1, <3>2, LifePush
  <2> QED BY <2>1, <2>2
<1>3. TypeInv /\ LifeInv => BoundedLife
  <2>1. TypeInv => DOMAIN list = 1..Len(list)
    BY DEF TypeInv, TypeOK
  <2>2. TypeInv => \A w \in Workers : {i \in DOMAIN list : list[i].by = w} = By(w, list)
    BY <2>1 DEF By
  <2> QED BY <2>2 DEF LifeInv, Paid, BoundedLife
<1> QED BY <1>1, <1>2, <1>3, TypeInit, TypeStep, PTL DEF Spec

-----------------------------------------------------------------------------
(* What the workers achieve when a part of the world behaves: the listed     *)
(* objects are whole if no two workers serve the same file name and the disk *)
(* takes what is written (UploadShared.cfg shows that the first proviso is   *)
(* needed: the workers share one working directory); no object is lost track *)
(* of and every weight is 1 if FastDFS and Redis answer.                     *)

DisjointNames ==
  \A v, w \in Workers : v # w => NamesOf[v] \cap NamesOf[w] = {}

\* A worker touches only its own names.
OwnNames(w) ==
  /\ req[w].name \in NamesOf[w] \cup {NoName}
  /\ residue[w] \subseteq NamesOf[w]
  /\ fileName[w] \in NamesOf[w] \cup {NoName}

\* Where the content of the request is, step by step.
Carried(w) ==
  /\ pc[w] \in {"truncate", "write"} => fdLive[w]
  /\ pc[w] = "write" => Len(local[fileName[w]]) = Len(req[w].data)
  /\ pc[w] = "spawn" \/ child[w] = "running" => local[fileName[w]] = req[w].data
  /\ child[w] = "done" /\ pipe[w] \in Ids => stored[pipe[w]] = req[w].data
  /\ /\ pc[w] \in {"url", "connect", "lpush", "zincr", "finish"}
     /\ fileId[w] \in Ids
     => stored[fileId[w]] = req[w].data

ContentInv == (\A w \in Workers : OwnNames(w) /\ Carried(w)) /\ Integrity

BaseInv == TypeInv /\ EntryInv /\ NameInv

\* A step of worker w in the working directory is invisible to the others.
LEMMA OtherFiles ==
  ASSUME DisjointNames, ContentInv, TypeInv, NEW w \in Workers, NEW v \in Workers, v # w,
         NEW f \in NamesOf[w], NEW c, local' = [local EXCEPT ![f] = c],
         fileName[v] \in FileNames
  PROVE  local'[fileName[v]] = local[fileName[v]]
<1>1. fileName[v] \in NamesOf[v]
  BY NamesAssumption DEF ContentInv, OwnNames
<1>2. fileName[v] # f
  BY <1>1 DEF DisjointNames
<1> QED BY <1>2 DEF TypeInv, TypeOK

\* A new object takes an id that nobody holds and no entry has.
LEMMA StoredKept ==
  ASSUME BaseInv, ContentInv, NEW id \in Ids, stored[id] = Absent, NEW c,
         stored' = [stored EXCEPT ![id] = c], UNCHANGED list
  PROVE  /\ \A v \in Workers : pipe[v] \in Ids => stored'[pipe[v]] = stored[pipe[v]]
         /\ \A v \in Workers : fileId[v] \in Ids => stored'[fileId[v]] = stored[fileId[v]]
         /\ Integrity'
<1>1. \A i \in Ids : i # id => stored'[i] = stored[i]
  BY DEF BaseInv, TypeInv, TypeOK
<1>2. \A v \in Workers : pipe[v] # id /\ fileId[v] # id
  BY DEF BaseInv, EntryInv, Held
<1>3. \A i \in DOMAIN list : list[i].id \in Ids /\ list[i].id # id
  BY DEF BaseInv, EntryInv, NoDanglingEntry
<1>4. Integrity'
  BY <1>1, <1>3 DEF ContentInv, Integrity
<1> QED BY <1>1, <1>2, <1>4

\* The object listed for a request holds what that request carried.
LEMMA PushedContent ==
  ASSUME BaseInv, ContentInv, NEW w \in Workers, pc[w] = "lpush",
         list' = Pushed(Entry(w), list), UNCHANGED stored
  PROVE  Integrity'
<1>1. list \in Seq(Record) /\ Len(list) \in Nat
  BY DEF BaseInv, TypeInv, TypeOK
<1>2. Entry(w).req = req[w] /\ Entry(w).id = fileId[w]
  BY DEF Entry
<1>3. stored[fileId[w]] = req[w].data
  BY DEF BaseInv, EntryInv, Held, ContentInv, Carried
<1>4. ASSUME NEW i \in DOMAIN list' PROVE stored'[list'[i].id] = list'[i].req.data
  <2> DEFINE e == Entry(w)
  <2>0. list' = Pushed(e, list)
    OBVIOUS
  <2> HIDE DEF e
  <2>1. \/ list'[i] = e
        \/ i - 1 \in DOMAIN list /\ list'[i] = list[i - 1]
    BY <1>1, <1>4, <2>0 DEF Pushed
  <2>2. CASE list'[i] = e
    BY <1>2, <1>3, <2>2 DEF e
  <2>3. CASE i - 1 \in DOMAIN list /\ list'[i] = list[i - 1]
    BY <2>3 DEF ContentInv, Integrity
  <2> QED BY <2>1, <2>2, <2>3
<1> QED BY <1>4 DEF Integrity

\* Every step keeps the contents where they belong.
LEMMA ContentStep ==
  ASSUME DisjointNames, "disk" \notin Faults, BaseInv, ContentInv, [Next]_vars
  PROVE  ContentInv'
<1> TypeInv /\ TypeOK
  BY DEF BaseInv, TypeInv
<1>a. \A w \in Workers : OwnNames(w) /\ Carried(w) /\ Named(w) /\ Naming(w) /\ Held(w)
  BY DEF ContentInv, BaseInv, TypeInv, NameInv, EntryInv
<1>b. Integrity
  BY DEF ContentInv
<1> USE DEF TypeOK, Halted
<1>0. CASE UNCHANGED vars
  BY <1>0 DEF vars, buffers, disk, tool, redis, ContentInv, OwnNames, Carried, Integrity
<1>1. ASSUME NEW w \in Workers, Accept(w) PROVE ContentInv'
  <2>1. PICK r \in Requests(w) : req' = [req EXCEPT ![w] = r]
    BY <1>1 DEF Accept
  <2>2. r.name \in NamesOf[w] \cup {NoName}
    BY RequestsType
  <2>3. ASSUME NEW v \in Workers PROVE OwnNames(v)' /\ Carried(v)'
    <3>1. UNCHANGED <<residue, fileName, fileId, fdLive, local, child, pipe, stored>>
          /\ pc[w] = "accept" /\ \E l \in {"exited", "parse"} : pc' = [pc EXCEPT ![w] = l]
      BY <1>1 DEF Accept, buffers, disk, tool
    <3>2. CASE v = w
      BY <1>a, <2>1, <2>2, <3>1, <3>2 DEF OwnNames, Carried, Named
    <3>3. CASE v # w
      BY <1>a, <2>1, <2>3, <3>1, <3>3 DEF OwnNames, Carried
    <3> QED BY <3>2, <3>3
  <2>4. Integrity'
    <3>1. UNCHANGED <<list, stored>>
      BY <1>1 DEF Accept, redis
    <3> QED BY <1>b, <3>1 DEF Integrity
  <2> QED BY <2>3, <2>4 DEF ContentInv
<1>2. ASSUME NEW w \in Workers,
             SourceFails(w) \/ PipeFails(w) \/ UrlCrashes(w) \/ Connect(w) \/ Kill(w)
      PROVE ContentInv'
  <2>1. ASSUME NEW v \in Workers PROVE OwnNames(v)' /\ Carried(v)'
    <3>1. UNCHANGED <<req, residue, fileName, fileId, fdLive, local, child, pipe, stored>>
      BY <1>2 DEF SourceFails, PipeFails, UrlCrashes, Connect, Kill, buffers, disk, tool
    <3>2. \/ \E l \in Halted : pc' = [pc EXCEPT ![w] = l]
          \/ pc[w] = "connect" /\ pc' = [pc EXCEPT ![w] = "lpush"]
      BY <1>2 DEF SourceFails, PipeFails, UrlCrashes, Connect, Kill
    <3> QED BY <1>a, <2>1, <3>1, <3>2 DEF OwnNames, Carried
  <2>2. Integrity'
    BY <1>2, <1>b DEF SourceFails, PipeFails, UrlCrashes, Connect, Kill, redis, Integrity
  <2> QED BY <2>1, <2>2 DEF ContentInv
<1>3. ASSUME NEW w \in Workers, OpenLocal(w) PROVE ContentInv'
  <2>1. PICK n \in FoundNames(w) :
          /\ fileName' = [fileName EXCEPT ![w] = n]
          /\ residue' = [residue EXCEPT ![w] = @ \cup {n}]
          /\ local' = [local EXCEPT ![n] = Opened(@)]
    BY <1>3, <1>a DEF OpenLocal, CopiedName, Naming
  <2>2. n \in NamesOf[w]
    BY <2>1, <1>a DEF FoundNames, OwnNames, Request
  <2>3. ASSUME NEW v \in Workers PROVE OwnNames(v)'
    BY <1>3, <1>a, <2>1, <2>2, <2>3 DEF OpenLocal, OwnNames
  <2>4. Carried(w)'
    BY <1>3, <1>a, <2>1 DEF OpenLocal, tool, Carried, Named
  <2>5. ASSUME NEW v \in Workers, v # w PROVE Carried(v)'
    <3>1. fileName[v] \in FileNames => local'[fileName[v]] = local[fileName[v]]
      BY <2>1, <2>2, <2>5, OtherFiles
    <3> QED BY <1>3, <1>a, <2>1, <2>5, <3>1 DEF OpenLocal, tool, Carried, Named
  <2>6. Integrity'
    BY <1>3, <1>b DEF OpenLocal, redis, Integrity
  <2> QED BY <2>3, <2>4, <2>5, <2>6 DEF ContentInv
<1>4. ASSUME NEW w \in Workers, Truncate(w) PROVE ContentInv'
  <2>1. /\ fileName[w] \in NamesOf[w]
        /\ fileName[w] \in FileNames
        /\ local[fileName[w]] \in Seq(Bytes)
        /\ Len(req[w].data) \in Nat
    BY <1>4, <1>a, NamesAssumption DEF Truncate, OwnNames, Named, Carried, Request
  <2>2. local' = [local EXCEPT ![fileName[w]] = Resize(@, Len(req[w].data))]
    BY <1>4, <1>a DEF Truncate, Carried
  <2>3. Len(local'[fileName[w]]) = Len(req[w].data)
    BY <2>1, <2>2, ResizeType
  <2>4. Carried(w)'
    BY <1>4, <1>a, <2>3 DEF Truncate, buffers, tool, Carried, Named
  <2>5. ASSUME NEW v \in Workers, v # w PROVE Carried(v)'
    <3>1. fileName[v] \in FileNames => local'[fileName[v]] = local[fileName[v]]
      BY <2>1, <2>2, <2>5, OtherFiles
    <3> QED BY <1>4, <1>a, <2>5, <3>1 DEF Truncate, buffers, tool, Carried, Named
  <2>6. Integrity' /\ \A v \in Workers : OwnNames(v)'
    BY <1>4, <1>a, <1>b DEF Truncate, buffers, redis, Integrity, OwnNames
  <2> QED BY <2>4, <2>5, <2>6 DEF ContentInv
<1>5. ASSUME NEW w \in Workers, Write(w) PROVE ContentInv'
  <2>1. /\ fileName[w] \in NamesOf[w]
        /\ fileName[w] \in FileNames
        /\ local[fileName[w]] \in Seq(Bytes)
        /\ req[w].data \in Seq(Blocks)
        /\ Len(local[fileName[w]]) = Len(req[w].data)
    BY <1>5, <1>a, NamesAssumption DEF Write, OwnNames, Named, Carried, Request
  <2>2. local' = [local EXCEPT ![fileName[w]] =
                    Overlay(SubSeq(req[w].data, 1, Len(req[w].data)), @)]
    <3>1. fdLive[w]
      BY <1>5, <1>a DEF Write, Carried
    <3>2. Len(req[w].data) \in Nat
      BY <2>1
    <3>3. \A k \in Len(req[w].data)..Len(req[w].data) : k = Len(req[w].data)
      BY <3>2
    <3> QED BY <1>5, <3>1, <3>3 DEF Write
  <2>3. local'[fileName[w]] = req[w].data
    BY <2>1, <2>2, OverlayExact
  <2>4. Carried(w)'
    BY <1>5, <1>a, <2>3 DEF Write, buffers, tool, Carried, Named
  <2>5. ASSUME NEW v \in Workers, v # w PROVE Carried(v)'
    <3>1. fileName[v] \in FileNames => local'[fileName[v]] = local[fileName[v]]
      BY <2>1, <2>2, <2>5, OtherFiles
    <3> QED BY <1>5, <1>a, <2>5, <3>1 DEF Write, buffers, tool, Carried, Named
  <2>6. Integrity' /\ \A v \in Workers : OwnNames(v)'
    BY <1>5, <1>a, <1>b DEF Write, buffers, redis, Integrity, OwnNames
  <2> QED BY <2>4, <2>5, <2>6 DEF ContentInv
<1>6. ASSUME NEW w \in Workers, Spawn(w) PROVE ContentInv'
  <2>1. ASSUME NEW v \in Workers PROVE Carried(v)'
    BY <1>6, <1>a, <2>1, IdsAssumption DEF Spawn, buffers, disk, Carried
  <2>2. Integrity' /\ \A v \in Workers : OwnNames(v)'
    BY <1>6, <1>a, <1>b DEF Spawn, buffers, redis, Integrity, OwnNames
  <2> QED BY <2>1, <2>2 DEF ContentInv
<1>7. ASSUME NEW w \in Workers, ToolUploads(w) PROVE ContentInv'
  <2>1. PICK id \in Ids :
          /\ stored[id] = Absent
          /\ stored' = [stored EXCEPT ![id] = local[fileName[w]]]
          /\ pipe' = [pipe EXCEPT ![w] = id]
    BY <1>7 DEF ToolUploads
  <2>2. UNCHANGED <<pc, req, buffers, disk, redis>>
        /\ child[w] = "running" /\ child' = [child EXCEPT ![w] = "done"]
    BY <1>7 DEF ToolUploads
  <2>3. /\ \A v \in Workers : pipe[v] \in Ids => stored'[pipe[v]] = stored[pipe[v]]
        /\ \A v \in Workers : fileId[v] \in Ids => stored'[fileId[v]] = stored[fileId[v]]
        /\ Integrity'
    BY <2>1, <2>2, StoredKept DEF redis
  <2>4. ASSUME NEW v \in Workers PROVE Carried(v)'
    BY <1>a, <2>1, <2>2, <2>3, <2>4 DEF buffers, disk, Carried
  <2>5. \A v \in Workers : OwnNames(v)'
    BY <1>a, <2>2 DEF buffers, OwnNames
  <2> QED BY <2>3, <2>4, <2>5 DEF ContentInv
<1>8. ASSUME NEW w \in Workers, ToolFails(w) PROVE ContentInv'
  <2>1. ASSUME NEW v \in Workers PROVE Carried(v)'
    BY <1>8, <1>a, <2>1, IdsAssumption DEF ToolFails, buffers, disk, Carried, Held
  <2>2. Integrity' /\ \A v \in Workers : OwnNames(v)'
    BY <1>8, <1>a, <1>b DEF ToolFails, buffers, redis, Integrity, OwnNames
  <2> QED BY <2>1, <2>2 DEF ContentInv
<1>9. ASSUME NEW w \in Workers, ToolLosesAnswer(w) PROVE ContentInv'
  <2>1. PICK id \in Ids :
          /\ stored[id] = Absent
          /\ stored' = [stored EXCEPT ![id] = local[fileName[w]]]
    BY <1>9 DEF ToolLosesAnswer
  <2>2. UNCHANGED <<pc, req, buffers, disk, redis, pipe>>
        /\ child[w] = "running" /\ child' = [child EXCEPT ![w] = "done"]
    BY <1>9 DEF ToolLosesAnswer
  <2>3. /\ \A v \in Workers : pipe[v] \in Ids => stored'[pipe[v]] = stored[pipe[v]]
        /\ \A v \in Workers : fileId[v] \in Ids => stored'[fileId[v]] = stored[fileId[v]]
        /\ Integrity'
    BY <2>1, <2>2, StoredKept DEF redis
  <2>4. ASSUME NEW v \in Workers PROVE Carried(v)'
    BY <1>a, <2>1, <2>2, <2>3, <2>4, IdsAssumption DEF buffers, disk, Carried, Held
  <2>5. \A v \in Workers : OwnNames(v)'
    BY <1>a, <2>2 DEF buffers, OwnNames
  <2> QED BY <2>3, <2>4, <2>5 DEF ContentInv
<1>10. ASSUME NEW w \in Workers, WaitChild(w) \/ UrlMade(w) PROVE ContentInv'
  <2>1. ASSUME NEW v \in Workers PROVE Carried(v)'
    <3>1. CASE WaitChild(w) /\ v = w
      <4>1. /\ UNCHANGED <<req, stored>>
            /\ child[w] = "done" /\ child'[w] = "none"
            /\ pc'[w] = "url" /\ fileId'[w] = pipe[w]
        BY <3>1 DEF WaitChild
      <4> QED BY <1>a, <3>1, <4>1 DEF Carried
    <3>2. CASE WaitChild(w) /\ v # w
      BY <1>a, <2>1, <3>2 DEF WaitChild, disk, Carried
    <3>3. CASE UrlMade(w)
      BY <1>a, <2>1, <3>3 DEF UrlMade, disk, tool, Carried
    <3> QED BY <1>10, <3>1, <3>2, <3>3
  <2>2. Integrity' /\ \A v \in Workers : OwnNames(v)'
    BY <1>10, <1>a, <1>b DEF WaitChild, UrlMade, redis, Integrity, OwnNames
  <2> QED BY <2>1, <2>2 DEF ContentInv
<1>11. ASSUME NEW w \in Workers, Lpush(w) \/ Zincr(w) \/ RedisCut(w) PROVE ContentInv'
  <2>1. ASSUME NEW v \in Workers PROVE OwnNames(v)' /\ Carried(v)'
    BY <1>11, <1>a, <2>1 DEF Lpush, Zincr, RedisCut, buffers, disk, tool, OwnNames, Carried
  <2>2. /\ UNCHANGED stored
        /\ list' = list \/ (pc[w] = "lpush" /\ list' = Pushed(Entry(w), list))
    BY <1>11 DEF Lpush, Zincr, RedisCut
  <2>3. Integrity'
    BY <1>b, <2>2, PushedContent DEF Integrity
  <2> QED BY <2>1, <2>3 DEF ContentInv
<1>12. ASSUME NEW w \in Workers, Finish(w) PROVE ContentInv'
  <2>1. /\ fileName[w] \in NamesOf[w]
        /\ fileName[w] \in FileNames
        /\ child[w] = "none"
    BY <1>12, <1>a, NamesAssumption DEF Finish, OwnNames, Named
  <2>2. Carried(w)'
    BY <1>12, <2>1 DEF Finish, tool, Carried
  <2>3. ASSUME NEW v \in Workers, v # w PROVE Carried(v)'
    <3>1. fileName[v] \in FileNames => local'[fileName[v]] = local[fileName[v]]
      BY <1>12, <2>1, <2>3, OtherFiles DEF Finish
    <3>2. fileName[v] # fileName[w]
      BY <1>a, <2>1, <2>3, NamesAssumption DEF OwnNames, DisjointNames
    <3>3. /\ fdLive'[v] = fdLive[v]
          /\ pc'[v] = pc[v] /\ fileName'[v] = fileName[v] /\ fileId'[v] = fileId[v]
      BY <1>12, <2>3, <3>2 DEF Finish
    <3>4. UNCHANGED <<req, child, pipe, stored>>
      BY <1>12 DEF Finish, tool
    <3> QED BY <1>a, <3>1, <3>3, <3>4 DEF Carried, Named
  <2>4. Integrity' /\ \A v \in Workers : OwnNames(v)'
    BY <1>12, <1>a, <1>b DEF Finish, redis, Integrity, OwnNames
  <2> QED BY <2>2, <2>3, <2>4 DEF ContentInv
<1> QED BY <1>0, <1>1, <1>2, <1>3, <1>4, <1>5, <1>6, <1>7, <1>8, <1>9, <1>10, <1>11, <1>12
        DEF Next, Serve, Tool

\* Where no two workers serve the same name and the disk takes what is
\* written, every listed object holds exactly what its client sent, for any
\* number of workers, with tools, Redis and workers failing anywhere.
THEOREM ListedIntact ==
  ASSUME DisjointNames, "disk" \notin Faults
  PROVE  Spec => []Integrity
<1>1. Init => ContentInv
  BY IdsAssumption DEF Init, ContentInv, OwnNames, Carried, Integrity
<1>2. Init => NameInv
  BY DEF Init, NameInv, Naming, NameIntact
<1>3. ContentInv /\ BaseInv /\ [Next]_vars => ContentInv'
  BY ContentStep
<1>4. ContentInv => Integrity
  BY DEF ContentInv
<1>5. BaseInv <=> TypeInv /\ EntryInv /\ NameInv
  BY DEF BaseInv
<1> QED BY <1>1, <1>2, <1>3, <1>4, <1>5, TypeInit, TypeStep, EntryInit, EntryStep, NameStep,
           PTL DEF Spec

-----------------------------------------------------------------------------
(* Objects and weights *)

\* A worker has an id only while it serves with it, and has listed it when it
\* weighs it.
Tracked(w) ==
  /\ pc[w] \in {"accept", "parse", "truncate", "write", "spawn", "wait"} => fileId[w] = NoId
  /\ pc[w] \in {"zincr", "finish"} => \E i \in DOMAIN list : list[i].id = fileId[w]

TrackInv == (\A w \in Workers : Tracked(w)) /\ Accounted

\* The two ways in which an object is accounted for
Listed(id) == \E i \in DOMAIN list : list[i].id = id
InHand(w, id) ==
  \/ fileId[w] = id
  \/ pipe[w] = id /\ (pc[w] = "wait" \/ pc[w] \in Halted)

\* Objects stay accounted for if none leaves a hand unlisted, and a new one
\* is in a hand.
LEMMA TrackMove ==
  ASSUME TrackInv, \A v \in Workers : Tracked(v)',
         \A id \in Ids : Listed(id) => Listed(id)',
         \A v \in Workers, id \in Ids : InHand(v, id) => InHand(v, id)' \/ Listed(id)',
         \A id \in Ids : stored'[id] # Absent =>
           stored[id] # Absent \/ \E v \in Workers : InHand(v, id)'
  PROVE  TrackInv'
<1>1. \A id \in Ids : stored[id] # Absent => Listed(id) \/ \E w \in Workers : InHand(w, id)
  BY DEF TrackInv, Accounted, Listed, InHand
<1>2. \A id \in Ids : stored'[id] # Absent => Listed(id)' \/ \E w \in Workers : InHand(w, id)'
  BY <1>1
<1>3. Accounted'
  BY <1>2 DEF Accounted, Listed, InHand
<1> QED BY <1>3 DEF TrackInv

\* LPUSH keeps the entries that are there and adds the worker's.
LEMMA PushedKeeps ==
  ASSUME TypeInv, NEW w \in Workers, pc[w] = "lpush", list' = Pushed(Entry(w), list)
  PROVE  /\ DOMAIN list' = 1..(Len(list) + 1) /\ DOMAIN list = 1..Len(list)
         /\ Len(list) \in Nat
         /\ list'[1] = Entry(w)
         /\ \A i \in DOMAIN list : i + 1 \in DOMAIN list' /\ list'[i + 1] = list[i]
         /\ \A i \in DOMAIN list' :
              i = 1 \/ (i - 1 \in DOMAIN list /\ list'[i] = list[i - 1])
<1>1. Entry(w) \in Record
  BY DEF TypeInv, TypeOK, Named, Entry, Record
<1>2. list \in Seq(Record)
  BY DEF TypeInv, TypeOK
<1> DEFINE e == Entry(w)
<1>3. e \in Record /\ list' = <<e>> \o list
  BY <1>1 DEF Pushed
<1> HIDE DEF e
<1>4. /\ DOMAIN list' = 1..(Len(list) + 1) /\ DOMAIN list = 1..Len(list)
      /\ Len(list) \in Nat
      /\ list'[1] = e
      /\ \A i \in 1..Len(list) : list'[i + 1] = list[i]
      /\ \A i \in 2..(Len(list) + 1) : list'[i] = list[i - 1]
  BY <1>2, <1>3
<1> QED BY <1>4 DEF e

\* Every step keeps track of the stored objects.
LEMMA TrackStep ==
  ASSUME Faults \cap {"tool", "redis"} = {}, TypeInv, EntryInv, TrackInv,
         [Next]_vars
  PROVE  TrackInv'
<1> USE IdsAssumption DEF TypeInv, TypeOK, Halted
<1>c. \A w \in Workers : Tracked(w) /\ Named(w) /\ Held(w)
  BY DEF TrackInv, EntryInv
<1>1. CASE UNCHANGED vars
  BY <1>1, <1>c, TrackMove DEF vars, buffers, tool, redis, Tracked, Listed, InHand
<1>2. ASSUME NEW w \in Workers, \/ Accept(w) \/ SourceFails(w) \/ OpenLocal(w) \/ Truncate(w)
                                \/ Write(w) \/ PipeFails(w) \/ Spawn(w)
      PROVE TrackInv'
  <2>1. /\ UNCHANGED <<fileId, stored, list>>
        /\ \E l \in {"parse", "truncate", "write", "spawn", "wait", "exited", "crashed"} :
             pc' = [pc EXCEPT ![w] = l]
        /\ pc[w] \in {"accept", "parse", "truncate", "write", "spawn"}
        /\ \A v \in Workers : v # w => pipe'[v] = pipe[v]
    BY <1>2 DEF Accept, SourceFails, OpenLocal, Truncate, Write, PipeFails, Spawn, buffers,
                tool, redis
  <2>2. \A v \in Workers : Tracked(v)'
    BY <1>c, <2>1 DEF Tracked
  <2>3. \A v \in Workers, id \in Ids : InHand(v, id) => InHand(v, id)'
    BY <1>c, <2>1 DEF Tracked, InHand
  <2>4. \A id \in Ids : Listed(id)' <=> Listed(id)
    BY <2>1 DEF Listed
  <2> QED BY <2>1, <2>2, <2>3, <2>4, TrackMove
<1>3. ASSUME NEW w \in Workers, Kill(w) \/ UrlCrashes(w) \/ Connect(w) \/ UrlMade(w)
      PROVE TrackInv'
  <2>1. /\ UNCHANGED <<fileId, pipe, stored, list>>
        /\ \/ \E l \in Halted : pc' = [pc EXCEPT ![w] = l]
           \/ \E l \in {"connect", "lpush"} :
                pc' = [pc EXCEPT ![w] = l] /\ pc[w] \in {"url", "connect"}
    BY <1>3 DEF Kill, UrlCrashes, Connect, UrlMade, buffers, tool, redis
  <2>2. \A v \in Workers : Tracked(v)'
    BY <1>c, <2>1 DEF Tracked
  <2>3. \A v \in Workers, id \in Ids : InHand(v, id) => InHand(v, id)'
    BY <1>c, <2>1 DEF InHand
  <2>4. \A id \in Ids : Listed(id)' <=> Listed(id)
    BY <2>1 DEF Listed
  <2> QED BY <2>1, <2>2, <2>3, <2>4, TrackMove
<1>4. ASSUME NEW w \in Workers, Tool(w) PROVE TrackInv'
  <2>1. UNCHANGED <<pc, fileId, list>> /\ pc[w] \in {"wait"} \cup Halted
    BY <1>4, <1>c DEF Tool, ToolUploads, ToolFails, ToolLosesAnswer, buffers, redis, Named
  <2>2. \A v \in Workers : Tracked(v)'
    BY <1>c, <2>1 DEF Tracked
  <2>3. \A id \in Ids : Listed(id)' <=> Listed(id)
    BY <2>1 DEF Listed
  <2>4. CASE ToolFails(w)
    BY <2>1, <2>2, <2>3, <2>4, TrackMove DEF ToolFails, InHand
  <2>5. CASE ToolUploads(w)
    <3>1. pipe[w] = NoId
      BY <2>5, <1>c DEF ToolUploads, Held
    <3>2. PICK id \in Ids : /\ stored' = [stored EXCEPT ![id] = local[fileName[w]]]
                            /\ pipe' = [pipe EXCEPT ![w] = id]
      BY <2>5 DEF ToolUploads
    <3>3. InHand(w, id)' /\ \A i \in Ids : stored'[i] # Absent => stored[i] # Absent \/ i = id
      BY <2>1, <3>2 DEF InHand
    <3>4. \A v \in Workers, i \in Ids : InHand(v, i) => InHand(v, i)'
      BY <2>1, <3>1, <3>2 DEF InHand
    <3> QED BY <2>2, <2>3, <3>3, <3>4, TrackMove
  <2> QED BY <1>4, <2>4, <2>5 DEF Tool, ToolLosesAnswer
<1>5. ASSUME NEW w \in Workers, WaitChild(w) PROVE TrackInv'
  <2>1. /\ fileId' = [fileId EXCEPT ![w] = pipe[w]]
        /\ pc' = [pc EXCEPT ![w] = "url"] /\ pc[w] = "wait"
        /\ UNCHANGED <<pipe, stored, list>>
    BY <1>5 DEF WaitChild, redis
  <2>2. \A v \in Workers : Tracked(v)'
    BY <1>c, <2>1 DEF Tracked
  <2>3. \A v \in Workers, id \in Ids : InHand(v, id) => InHand(v, id)'
    BY <1>c, <2>1 DEF Tracked, InHand
  <2>4. \A id \in Ids : Listed(id)' <=> Listed(id)
    BY <2>1 DEF Listed
  <2> QED BY <2>1, <2>2, <2>3, <2>4, TrackMove
<1>6. ASSUME NEW w \in Workers, Lpush(w) PROVE TrackInv'
  <2>1. /\ list' = Pushed(Entry(w), list)
        /\ pc' = [pc EXCEPT ![w] = "zincr"] /\ pc[w] = "lpush"
        /\ UNCHANGED <<fileId, pipe, stored>>
    BY <1>6 DEF Lpush, Replied, buffers, tool
  <2>3. (\A i \in Ids : i = fileId[w] => Listed(i)') /\ \A i \in Ids : Listed(i) => Listed(i)'
    <3>1. /\ 1 \in DOMAIN list' /\ list'[1].id = fileId[w]
          /\ \A i \in DOMAIN list : i + 1 \in DOMAIN list' /\ list'[i + 1] = list[i]
      <4>1. Entry(w).id = fileId[w]
        BY DEF Entry
      <4> QED BY <2>1, <4>1, PushedKeeps
    <3>2. ASSUME NEW id \in Ids, id = fileId[w] PROVE Listed(id)'
      BY <2>1, <3>1, <3>2 DEF Listed
    <3>3. ASSUME NEW id \in Ids, Listed(id) PROVE Listed(id)'
      BY <3>1, <3>3 DEF Listed
    <3> QED BY <3>2, <3>3
  <2>4. ASSUME NEW v \in Workers PROVE Tracked(v)'
    <3>1. CASE v = w
      <4>1. fileId[w] \in Ids /\ fileId'[v] = fileId[w] /\ pc'[v] = "zincr"
        BY <1>c, <2>1, <3>1 DEF Held
      <4>2. \E i \in DOMAIN list' : list'[i].id = fileId[w]
        BY <2>3, <4>1 DEF Listed
      <4> QED BY <4>1, <4>2 DEF Tracked
    <3>2. CASE v # w
      <4>1. pc'[v] = pc[v] /\ fileId'[v] = fileId[v]
        BY <2>1, <3>2
      <4>2. CASE pc[v] \in {"zincr", "finish"}
        <5>1. fileId[v] \in Ids /\ Listed(fileId[v])
          BY <1>c, <4>2 DEF Held, Tracked, Listed
        <5>2. \E i \in DOMAIN list' : list'[i].id = fileId[v]
          BY <2>3, <5>1 DEF Listed
        <5> QED BY <4>1, <4>2, <5>2 DEF Tracked
      <4>3. CASE pc[v] \notin {"zincr", "finish"}
        BY <1>c, <4>1, <4>3 DEF Tracked
      <4> QED BY <4>2, <4>3
    <3> QED BY <3>1, <3>2
  <2>5. \A v \in Workers, id \in Ids : InHand(v, id) => InHand(v, id)'
    BY <2>1 DEF InHand
  <2> QED BY <2>1, <2>3, <2>4, <2>5, TrackMove
<1>7. ASSUME NEW w \in Workers, Zincr(w) PROVE TrackInv'
  <2>1. /\ pc' = [pc EXCEPT ![w] = "finish"] /\ pc[w] = "zincr"
        /\ UNCHANGED <<fileId, pipe, stored, list>>
    BY <1>7 DEF Zincr, buffers, tool
  <2>2. \A v \in Workers : Tracked(v)'
    BY <1>c, <2>1 DEF Tracked
  <2>3. \A v \in Workers, id \in Ids : InHand(v, id) => InHand(v, id)'
    BY <2>1 DEF InHand
  <2>4. \A id \in Ids : Listed(id)' <=> Listed(id)
    BY <2>1 DEF Listed
  <2> QED BY <2>1, <2>2, <2>3, <2>4, TrackMove
<1>8. ASSUME NEW w \in Workers, Finish(w) PROVE TrackInv'
  <2>1. /\ pc' = [pc EXCEPT ![w] = "accept"] /\ pc[w] = "finish"
        /\ fileId' = [fileId EXCEPT ![w] = NoId]
        /\ UNCHANGED <<pipe, stored, list>>
    BY <1>8 DEF Finish, tool, redis
  <2>2. \A v \in Workers : Tracked(v)'
    BY <1>c, <2>1 DEF Tracked
  <2>3. Listed(fileId[w]) /\ \A id \in Ids : Listed(id)' <=> Listed(id)
    BY <1>c, <2>1 DEF Tracked, Listed
  <2>4. \A v \in Workers, id \in Ids : InHand(v, id) => InHand(v, id)' \/ id = fileId[w]
    BY <2>1 DEF InHand
  <2>5. fileId[w] \in Ids
    BY <1>c, <2>1 DEF Held
  <2> QED BY <2>1, <2>2, <2>3, <2>4, <2>5, TrackMove
<1>9. ASSUME NEW w \in Workers, RedisCut(w) PROVE FALSE
  BY <1>9 DEF RedisCut
<1> QED BY <1>1, <1>2, <1>3, <1>4, <1>5, <1>6, <1>7, <1>8, <1>9 DEF Next, Serve

\* Where FastDFS and Redis answer, every stored object is listed or in the
\* hands of a worker, for any number of workers, any full disk or file table,
\* and workers killed anywhere.
THEOREM NothingLost ==
  ASSUME Faults \cap {"tool", "redis"} = {}
  PROVE  Spec => []Accounted
<1>1. Init => TrackInv
  BY DEF Init, TrackInv, Tracked, Accounted
<1>2. TypeInv /\ EntryInv /\ TrackInv /\ [Next]_vars => TrackInv'
  BY TrackStep
<1>3. TrackInv => Accounted
  BY DEF TrackInv
<1> QED BY <1>1, <1>2, <1>3, TypeInit, TypeStep, EntryInit, EntryStep, PTL DEF Spec

\* An entry without its weight is the one its worker is about to weigh, or
\* the worker has ended.
Due(e) ==
  \/ score[e.id] = 1
  \/ pc[e.by] \in Halted
  \/ pc[e.by] = "zincr" /\ fileId[e.by] = e.id

WeightInv == \A i \in DOMAIN list : Due(list[i])

\* Entries are made by workers.
LEMMA MadeByWorkers ==
  ASSUME TypeInv, NEW i \in DOMAIN list
  PROVE  list[i].by \in Workers
<1>1. list[i] \in Record
  BY DEF TypeInv, TypeOK
<1> QED BY <1>1 DEF Record

\* A step that neither lists nor weighs, and takes no worker out of "zincr"
\* alive, keeps the weights.
LEMMA WeightMove ==
  ASSUME TypeInv, WeightInv, UNCHANGED <<list, score>>,
         \A v \in Workers :
           /\ pc[v] \in Halted => pc'[v] \in Halted
           /\ pc[v] = "zincr" =>
                pc'[v] \in Halted \/ (pc'[v] = "zincr" /\ fileId'[v] = fileId[v])
  PROVE  WeightInv'
<1>1. ASSUME NEW i \in DOMAIN list PROVE Due(list[i])'
  <2>1. list[i].by \in Workers /\ Due(list[i]) /\ list'[i] = list[i]
    BY MadeByWorkers DEF WeightInv
  <2> QED BY <2>1 DEF Due
<1> QED BY <1>1 DEF WeightInv

\* Every step keeps the weights.
LEMMA WeightStep ==
  ASSUME "redis" \notin Faults, TypeInv, EntryInv, WeightInv, [Next]_vars
  PROVE  WeightInv'
<1> USE DEF Halted
<1>a. pc \in [Workers -> {"accept", "parse", "truncate", "write", "spawn", "wait", "url",
                          "connect", "lpush", "zincr", "finish"} \cup Halted]
  BY DEF TypeInv, TypeOK
<1>1. CASE UNCHANGED vars
  BY <1>1, WeightMove DEF vars, buffers, redis
<1>2. ASSUME NEW w \in Workers, \/ Accept(w) \/ SourceFails(w) \/ OpenLocal(w) \/ Truncate(w)
                                \/ Write(w) \/ PipeFails(w) \/ Spawn(w)
      PROVE WeightInv'
  <2>1. /\ UNCHANGED <<fileId, list, score>>
        /\ \E l : pc' = [pc EXCEPT ![w] = l]
        /\ pc[w] \in {"accept", "parse", "truncate", "write", "spawn"}
    BY <1>2 DEF Accept, SourceFails, OpenLocal, Truncate, Write, PipeFails, Spawn, buffers,
                redis
  <2> QED BY <1>a, <2>1, WeightMove
<1>3. ASSUME NEW w \in Workers, \/ WaitChild(w) \/ UrlMade(w) \/ UrlCrashes(w) \/ Connect(w)
                                \/ Finish(w)
      PROVE WeightInv'
  <2>1. /\ UNCHANGED <<list, score>>
        /\ \A v \in Workers : v # w => fileId'[v] = fileId[v]
        /\ \E l : pc' = [pc EXCEPT ![w] = l]
        /\ pc[w] \in {"wait", "url", "connect", "finish"}
    <3>1. CASE WaitChild(w)
      BY <3>1 DEF WaitChild, redis, TypeInv, TypeOK
    <3>2. CASE UrlMade(w) \/ UrlCrashes(w) \/ Connect(w)
      BY <3>2 DEF UrlMade, UrlCrashes, Connect, buffers, redis
    <3>3. CASE Finish(w)
      BY <3>3 DEF Finish, redis, TypeInv, TypeOK
    <3> QED BY <1>3, <3>1, <3>2, <3>3
  <2> QED BY <1>a, <2>1, WeightMove
<1>4. ASSUME NEW w \in Workers, Kill(w) PROVE WeightInv'
  BY <1>a, <1>4, WeightMove DEF Kill, buffers, redis
<1>5. ASSUME NEW w \in Workers, Tool(w) PROVE WeightInv'
  BY <1>5, WeightMove DEF Tool, ToolUploads, ToolFails, ToolLosesAnswer, buffers, redis
<1>6. ASSUME NEW w \in Workers, Lpush(w) PROVE WeightInv'
  <2>1. /\ list' = Pushed(Entry(w), list)
        /\ pc' = [pc EXCEPT ![w] = "zincr"] /\ pc[w] = "lpush"
        /\ UNCHANGED <<fileId, score>>
    BY <1>6 DEF Lpush, Replied, buffers
  <2>2. ASSUME NEW i \in DOMAIN list' PROVE Due(list[i])'
    <3>1. CASE i = 1
      <4>1. list'[i] = Entry(w)
        BY <2>1, <3>1, PushedKeeps
      <4>2. Entry(w).by = w /\ Entry(w).id = fileId[w]
        BY DEF Entry
      <4> QED BY <1>a, <2>1, <4>1, <4>2 DEF Due
    <3>2. CASE i # 1
      <4>1. i - 1 \in DOMAIN list /\ list'[i] = list[i - 1]
        BY <2>1, <2>2, <3>2, PushedKeeps
      <4>2. list[i - 1].by \in Workers
        BY <4>1, MadeByWorkers
      <4>3. Due(list[i - 1])
        BY <4>1 DEF WeightInv
      <4> QED BY <1>a, <2>1, <4>1, <4>2, <4>3 DEF Due
    <3> QED BY <3>1, <3>2
  <2> QED BY <2>2 DEF WeightInv
<1>7. ASSUME NEW w \in Workers, Zincr(w) PROVE WeightInv'
  <2>1. /\ score' = [score EXCEPT ![fileId[w]] = Incremented(@)]
        /\ pc' = [pc EXCEPT ![w] = "finish"] /\ pc[w] = "zincr"
        /\ UNCHANGED <<fileId, list>>
    BY <1>7 DEF Zincr, Replied, buffers
  <2>2. fileId[w] \in Ids /\ score[fileId[w]] = 0
    BY <2>1 DEF EntryInv, Held, Exclusive, ToWeigh
  <2>3. score'[fileId[w]] = 1 /\ \A id \in Ids : id # fileId[w] => score'[id] = score[id]
    BY <2>1, <2>2 DEF TypeInv, TypeOK
  <2>4. ASSUME NEW i \in DOMAIN list PROVE Due(list[i])'
    <3>1. list[i].by \in Workers /\ list[i].id \in Ids
      BY MadeByWorkers DEF EntryInv, NoDanglingEntry
    <3>2. Due(list[i])
      BY DEF WeightInv
    <3> QED BY <1>a, <2>1, <2>3, <3>1, <3>2 DEF Due
  <2> QED BY <2>1, <2>4 DEF WeightInv
<1>8. ASSUME NEW w \in Workers, RedisCut(w) PROVE FALSE
  BY <1>8 DEF RedisCut
<1> QED BY <1>1, <1>2, <1>3, <1>4, <1>5, <1>6, <1>7, <1>8 DEF Next, Serve

\* Where Redis answers, a file whose worker is done with it has the weight 1
\* in FILE_HOT_ZSET, for any number of workers and whatever FastDFS does.
THEOREM WeightsAreOne ==
  ASSUME "redis" \notin Faults
  PROVE  Spec => []DefaultWeight
<1>1. Init => WeightInv
  BY DEF Init, WeightInv
<1>2. TypeInv /\ EntryInv /\ WeightInv /\ [Next]_vars => WeightInv'
  BY WeightStep
<1>3. WeightInv => DefaultWeight
  BY DEF WeightInv, Due, DefaultWeight
<1> QED BY <1>1, <1>2, <1>3, TypeInit, TypeStep, EntryInit, EntryStep, PTL DEF Spec
=============================================================================
