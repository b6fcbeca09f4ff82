----------------------------- MODULE MCWizardAccess -----------------------------
(***************************************************************************)
(* WizardAccess with two requests at a time, alike.                        *)
(***************************************************************************)
EXTENDS WizardAccess, TLC

Symmetry == Permutations(Requests)
===============================================================================
