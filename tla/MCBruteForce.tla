------------------------------ MODULE MCBruteForce ------------------------------
(***************************************************************************)
(* BruteForce with one address: the guard treats addresses independently.  *)
(* Three strikes make a ban, so that a banned entry can be weakened and    *)
(* struck again without a new ban, six failures reach the second tier of   *)
(* escalatedDuration, and a second is two ticks, so that truncating a      *)
(* timestamp shows.                                                        *)
(***************************************************************************)
EXTENDS BruteForce
===============================================================================
