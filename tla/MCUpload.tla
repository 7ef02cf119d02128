------------------------------ MODULE MCUpload ------------------------------
(***************************************************************************)
(* Instances of Upload for TLC.                                            *)
(***************************************************************************)
EXTENDS Upload, TLC

CONSTANTS w1, w2, n1, n2, a, b, i1, i2, i3

\* Every name arrives at every worker.
SharedNames == [w \in Workers |-> Names]

\* Worker w1 serves n1 only, w2 the others: what a front end that gives every
\* worker its own names would do.
PrivateNames == [w \in Workers |-> IF w = w1 THEN {n1} ELSE Names \ {n1}]

OneBlock == {<<a>>}
TwoLengths == {<<a>>, <<b, b>>}

SymmetricIds == Permutations(Ids)
Symmetric == SymmetricIds \cup Permutations(Workers)
=============================================================================
