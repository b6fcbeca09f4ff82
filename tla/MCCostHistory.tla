--------------------------- MODULE MCCostHistory ---------------------------
(***************************************************************************)
(* CostHistory on two days, one model and two cycles.                      *)
(***************************************************************************)
EXTENDS CostHistory
=============================================================================
