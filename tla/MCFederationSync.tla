-------------------------- MODULE MCFederationSync --------------------------
(***************************************************************************)
(* Instances of FederationSync for TLC: for each key two announces of one  *)
(* version and one of a lower version, and a payload that names no entry.  *)
(***************************************************************************)
EXTENDS FederationSync, TLC

CONSTANTS k1, k2, w1, w2

MCPayloads ==
  {[key |-> k, data |-> "a", version |-> 1] : k \in Keys}
    \cup {[key |-> k, data |-> d, version |-> 2] : k \in Keys, d \in {"b", "c"}}
    \cup {[key |-> None, data |-> "a", version |-> 1]}

KeyAndWorkerSymmetry == Permutations(Keys) \cup Permutations(Workers)
=============================================================================
