---------------------------- MODULE MCResidency ----------------------------
(***************************************************************************)
(* Instances of Residency for TLC.                                         *)
(***************************************************************************)
EXTENDS Residency, TLC

Symmetry ==
  Permutations(Unit) \cup Permutations(Condo) \cup Permutations(Invitation)
=============================================================================
