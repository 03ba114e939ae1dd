---------------------------- MODULE Scenarios ----------------------------
(***************************************************************************)
(* A run of several components is a choice of scenarios: one component is  *)
(* in its states, and the variables of the others are None.                *)
(***************************************************************************)
CONSTANT None
VARIABLE scenario
===========================================================================
