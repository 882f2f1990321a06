-------------------------- MODULE MCInvitationTxn --------------------------
(***************************************************************************)
(* InvitationTxn for TLC: its constants are sets of model values, and no   *)
(* symmetry is used, as the run has a liveness property.                   *)
(***************************************************************************)
EXTENDS InvitationTxn, TLC
=============================================================================
