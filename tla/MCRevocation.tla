------------------------------ MODULE MCRevocation ------------------------------
(***************************************************************************)
(* Revocation with one subject and two goroutines that check tokens of it. *)
(* Entries of different subjects never meet; the goroutines are alike, so  *)
(* their names are symmetric.                                              *)
(***************************************************************************)
EXTENDS Revocation, TLC

Symmetry == Permutations(Checks)
===============================================================================
