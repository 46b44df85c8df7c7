-------------------------- MODULE MCCapsNegotiation --------------------------
(***************************************************************************)
(* TLC's instance of CapsNegotiation: the subflows' pads are alike.        *)
(***************************************************************************)
EXTENDS CapsNegotiation, TLC

SubflowSymmetry == Permutations(Subflows)
=============================================================================
