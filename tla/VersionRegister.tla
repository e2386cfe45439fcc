--------------------------- MODULE VersionRegister ---------------------------
(***************************************************************************)
(* What federation promises of announced data: one register per key that   *)
(* takes a value only together with a higher version than the one it       *)
(* holds, and that forgets everything when its node is removed.            *)
(***************************************************************************)
EXTENDS Naturals

CONSTANTS Keys, Data, Versions, None

VARIABLE register  \* the value and the version held for a key, or None

vars == <<register>>

Init == register = [k \in Keys |-> None]

Newer(k, v) == register[k] = None \/ v > register[k].version

Take(k, d, v) ==
  /\ Newer(k, v)
  /\ register' = [register EXCEPT ![k] = [data |-> d, version |-> v]]

Forget == register' = [k \in Keys |-> None]

Next ==
  \/ \E k \in Keys, d \in Data, v \in Versions : Take(k, d, v)
  \/ Forget

Spec == Init /\ [][Next]_vars
=============================================================================
