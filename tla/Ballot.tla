-------------------------------- MODULE Ballot --------------------------------
(***************************************************************************)
(* What a poll promises its voters, without rows, ids, flags or statements: *)
(* every voter has one counted choice; a request asks for one choice of    *)
(* one voter; it takes effect in a single step, at most once, for exactly  *)
(* what was asked, or has no effect at all.  A signed event, which may be  *)
(* delivered many times, takes effect at most once over all deliveries.    *)
(***************************************************************************)
CONSTANTS
  Voters, Workers, Texts, EventIds,
  OncePerVoter,  \* a counted choice is final
  None

VARIABLES
  counted,  \* each voter's counted choice
  effected, \* the events that have taken effect
  asked     \* what the request in each worker asks for

Choices == Texts \cup {None}
Request == [voter : Voters, text : Choices, event : EventIds \cup {None}]

BallotInit ==
  /\ counted = [v \in Voters |-> None]
  /\ effected = {}
  /\ asked = [w \in Workers |-> None]

(* A request for an option that does not exist asks for None. *)
Ask(w) ==
  /\ asked[w] = None
  /\ \E r \in Request : asked' = [asked EXCEPT ![w] = r]
  /\ UNCHANGED <<counted, effected>>

Count(w) ==
  /\ asked[w] # None
  /\ asked[w].text # None
  /\ asked[w].event \notin effected
  /\ OncePerVoter => counted[asked[w].voter] = None
  /\ effected' = effected \cup ({asked[w].event} \ {None})
  /\ counted' = [counted EXCEPT ![asked[w].voter] = asked[w].text]
  /\ asked' = [asked EXCEPT ![w] = None]

TurnAway(w) ==
  /\ asked[w] # None
  /\ asked' = [asked EXCEPT ![w] = None]
  /\ UNCHANGED <<counted, effected>>

BallotNext == \E w \in Workers : Ask(w) \/ Count(w) \/ TurnAway(w)

BallotSpec == BallotInit /\ [][BallotNext]_<<counted, effected, asked>>
=============================================================================
