---------------------------- MODULE MCUsageCollector ----------------------------
(***************************************************************************)
(* UsageCollector over two connections of one tick each, a channel of one  *)
(* frame, two days and costs that reach both thresholds.                   *)
(***************************************************************************)
EXTENDS UsageCollector
===============================================================================
