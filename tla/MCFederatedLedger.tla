------------------------- MODULE MCFederatedLedger -------------------------
(***************************************************************************)
(* Instances of FederatedLedger for TLC.                                   *)
(***************************************************************************)
EXTENDS FederatedLedger, TLC

Symmetry == Permutations(Options) \cup Permutations(Workers)
=============================================================================
