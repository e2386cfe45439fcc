----------------------------- MODULE MCNostrMesh -----------------------------
(* Instances of NostrMesh for TLC. *)
EXTENDS NostrMesh

(* A client's event that names no poll and raises after its option, a       *)
(* peer's event for poll 1, and one that raises before the first statement. *)
MCPeerEvents ==
  {[id |-> 101, d |-> None, tombstone |-> FALSE, active |-> TRUE, options |-> {"x"},
    fault |-> "option"],
   [id |-> 102, d |-> 1, tombstone |-> FALSE, active |-> TRUE, options |-> {"x"},
    fault |-> "none"],
   [id |-> 103, d |-> None, tombstone |-> FALSE, active |-> TRUE, options |-> {},
    fault |-> "content"]}
=============================================================================
