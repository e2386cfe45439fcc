----------------------------- MODULE MCBallotBox -----------------------------
(***************************************************************************)
(* Instances of BallotBox for TLC: a poll created with the options "yes"   *)
(* and "no", one write-in text, and a few signed vote events.              *)
(***************************************************************************)
EXTENDS BallotBox, TLC

CONSTANTS v1, v2,  \* voters
          w1, w2   \* worker processes

MCOptions == <<"yes", "no">>
MCWriteIns == {"maybe"}

WorkerSymmetry == Permutations(Workers)

NoEvents == {}

(* Two events signed one after the other, one for an option id that this    *)
(* node does not have, and one signed far ahead of the clock.               *)
MeshEvents ==
  {[id |-> "e1", voter |-> v1, option |-> 1, at |-> 1],
   [id |-> "e2", voter |-> v1, option |-> 2, at |-> 2],
   [id |-> "e3", voter |-> v1, option |-> 9, at |-> 1],
   [id |-> "e4", voter |-> v1, option |-> 1, at |-> 3]}
=============================================================================
