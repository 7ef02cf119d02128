----------------------------- MODULE MCRedisOp -----------------------------
(***************************************************************************)
(* Instances of RedisOp for TLC.                                           *)
(***************************************************************************)
EXTENDS RedisOp
=============================================================================
