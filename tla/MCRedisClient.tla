----------------------------- MODULE MCRedisClient -----------------------------
(***************************************************************************)
(* RedisClient with three calls and four connections: the first call may   *)
(* fail twice, the second meet what the first left, the third meet what    *)
(* the second cured.                                                       *)
(***************************************************************************)
EXTENDS RedisClient
===============================================================================
