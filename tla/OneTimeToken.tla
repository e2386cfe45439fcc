----------------------------- MODULE OneTimeToken -----------------------------
(***************************************************************************)
(* What the holder of a challenge and the poll may rely on: a nonce is     *)
(* handed out once, checked against one presentation at most, and, once it *)
(* has been accepted, rejected, replaced, dropped or lost, dead for good.  *)
(***************************************************************************)
EXTENDS Naturals

CONSTANT Nonces

VARIABLES
  token,  \* the fate of each nonce
  trials  \* how many presentations were checked against it

Fates == {"unused", "out", "accepted", "lost"}

Out == {n \in Nonces : token[n] = "out"}

Becomes(S, fate) == [n \in Nonces |-> IF n \in S THEN fate ELSE token[n]]

TokenInit ==
  /\ token = [n \in Nonces |-> "unused"]
  /\ trials = [n \in Nonces |-> 0]

(* Handing out a nonce may cost others their place. *)
HandOut ==
  /\ \E n \in Nonces, L \in SUBSET Out :
       /\ token[n] = "unused"
       /\ token' = [Becomes(L, "lost") EXCEPT ![n] = "out"]
  /\ UNCHANGED trials

TakeBack ==
  \E n \in Out, fate \in {"accepted", "lost"} :
    /\ token' = Becomes({n}, fate)
    /\ trials' = [trials EXCEPT ![n] = @ + 1]

Lose ==
  /\ \E L \in SUBSET Out : token' = Becomes(L, "lost")
  /\ UNCHANGED trials

TokenNext == HandOut \/ TakeBack \/ Lose

TokenSpec == TokenInit /\ [][TokenNext]_<<token, trials>>
=============================================================================
