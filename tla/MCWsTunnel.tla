------------------------------- MODULE MCWsTunnel -------------------------------
(***************************************************************************)
(* WsTunnel with two sessions, three goroutines that append at once and a  *)
(* ring that overflows.                                                    *)
(***************************************************************************)
EXTENDS WsTunnel
===============================================================================
