----------------------------- MODULE MCMakeLog -----------------------------
(***************************************************************************)
(* Instances of MakeLog for TLC.                                           *)
(***************************************************************************)
EXTENDS MakeLog, TLC

CONSTANTS p1, p2, echo, database

\* Two workers of one program: it logs under its own name and, with redis_op.c,
\* under another.
TwoNames == [p \in Procs |-> {echo, database}]

Symmetric == Permutations(Procs)

\* A year ends.
SomeYears == <<2018, 2019>>
SomeMonths == <<12, 1>>
=============================================================================
