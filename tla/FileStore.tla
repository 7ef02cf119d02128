----------------------------- MODULE FileStore -----------------------------
(***************************************************************************)
(* What the upload service promises its two external stores, whatever the  *)
(* worker processes do and whenever they die:                              *)
(*                                                                         *)
(*   - FastDFS receives each object once and never changes it afterwards;  *)
(*   - an entry appears in FILE_INFO_LIST only for an object that FastDFS  *)
(*     already holds, at most once per object, and only at the head;       *)
(*   - FILE_HOT_ZSET gives an object the weight 1, at most once.           *)
(*                                                                         *)
(* Upload implements this specification (Upload!FileStoreSpec).            *)
(***************************************************************************)
EXTENDS Naturals, Sequences

CONSTANTS
  Ids,      \* FastDFS file ids
  Objects,  \* what an object can contain
  Absent    \* "no object under this id"

VARIABLES
  objects,  \* FastDFS: id -> content
  entries,  \* FILE_INFO_LIST: the ids of its entries, newest first
  weight    \* FILE_HOT_ZSET: id -> score, 0 for "no member"

fsvars == <<objects, entries, weight>>

Listed(id) == \E i \in DOMAIN entries : entries[i] = id

Init ==
  /\ objects = [id \in Ids |-> Absent]
  /\ entries = << >>
  /\ weight = [id \in Ids |-> 0]

\* An object enters FastDFS under an id nobody holds.
Store(id) ==
  /\ objects[id] = Absent
  /\ objects'[id] \in Objects
  /\ objects' = [objects EXCEPT ![id] = objects'[id]]
  /\ UNCHANGED <<entries, weight>>

\* A stored object that is not listed yet becomes the newest entry.
Publish(id) ==
  /\ objects[id] # Absent
  /\ ~ Listed(id)
  /\ entries' = <<id>> \o entries
  /\ UNCHANGED <<objects, weight>>

\* A stored object receives its weight.
Weigh(id) ==
  /\ objects[id] # Absent
  /\ weight[id] = 0
  /\ weight' = [weight EXCEPT ![id] = 1]
  /\ UNCHANGED <<objects, entries>>

Next == \E id \in Ids : Store(id) \/ Publish(id) \/ Weigh(id)

Spec == Init /\ [][Next]_fsvars
=============================================================================
