----------------------------- MODULE MCService -----------------------------
(***************************************************************************)
(* Instances of Service for TLC.                                           *)
(***************************************************************************)
EXTENDS Service, TLC

CONSTANTS w1, w2, n1, n2, a, i1, i2, i3

\* Every worker has names of its own.
PrivateNames == [w \in Workers |-> IF w = w1 THEN {n1} ELSE Names \ {n1}]

OneBlock == {<<a>>}

\* Two pages, one row of which is on both
Numbers == "0" :> 0 @@ "1" :> 1 @@ "2" :> 2
Page(from) == <<"cmd", "=", "newFile", "&", "fromId", "=", from, "&", "count", "=", "2">>
TwoPages == {Page("0"), Page("1")}
PageTokens == DOMAIN Numbers \cup {"cmd", "fromId", "count", "=", "&", "newFile"}
Sizes == [cmd |-> 2, fromId |-> 2, count |-> 2]

\* FastDFS gives the ids in any order.
Symmetric == Permutations(Ids)
=============================================================================
