-------------------------- MODULE MCChallengeStore --------------------------
(***************************************************************************)
(* Instances of ChallengeStore for TLC.                                    *)
(***************************************************************************)
EXTENDS ChallengeStore, TLC

Symmetry == Permutations(Voters) \cup Permutations(Workers) \cup Permutations(Nonces)
=============================================================================
