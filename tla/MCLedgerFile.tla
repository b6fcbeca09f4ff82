------------------------------ MODULE MCLedgerFile ------------------------------
(***************************************************************************)
(* LedgerFile with files of two lines and texts enough for three files.    *)
(* Every write takes two hashes, one for its line and one for the line it  *)
(* may merge with.                                                         *)
(***************************************************************************)
EXTENDS LedgerFile
===============================================================================
