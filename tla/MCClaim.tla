------------------------------- MODULE MCClaim -------------------------------
(***************************************************************************)
(* Small instances of Claim.                                               *)
(***************************************************************************)
EXTENDS Claim, TLC

MCSymmetry == Permutations(Node)
=============================================================================
