------------------------------- MODULE Identity -------------------------------
(***************************************************************************)
(* Trust scores, the row of one user and the logins of one session, side   *)
(* by side.  They share no state, so that what holds of each holds of all  *)
(* three; `moving' says which of them take part in a behaviour.            *)
(***************************************************************************)
EXTENDS Integers, Sequences, FiniteSets

CONSTANTS
  Moving,                          \* the sets of parts that may move
  Workers,
  Issuers, Endorsers, Metrics, Ids, Nobody,   \* see IssuerTrust
  Subjects, NoSubject, InitialWallets,        \* see UserAccounts
  Attempts,                                   \* see Login
  ScoreRequests, UserRequests, LoginRequests, \* bounds on requests
  None

VARIABLES
  moving,  \* the parts that move
  metrics, endorsements, score_job, answer, score_requests,
  user, sovereign, user_step, user_job, user_requests,
  rows, cookie, codes, login_step, login_job, hook, results, disturbed, login_requests

T == INSTANCE IssuerTrust WITH
       MaxRequests <- ScoreRequests, job <- score_job, requests <- score_requests
A == INSTANCE UserAccounts WITH
       MaxRequests <- UserRequests, step <- user_step, job <- user_job,
       requests <- user_requests
L == INSTANCE Login WITH
       MaxRequests <- LoginRequests, step <- login_step, job <- login_job,
       requests <- login_requests

ASSUME PartsAssumption == T!Assumptions /\ A!Assumptions /\ L!Assumptions

trust   == <<metrics, endorsements, score_job, answer, score_requests>>
account == <<user, sovereign, user_step, user_job, user_requests>>
login   == <<rows, cookie, codes, login_step, login_job, hook, results, disturbed,
             login_requests>>
vars    == <<moving, trust, account, login>>

(* Parts that do not move begin in one state.                               *)
Init ==
  /\ moving \in Moving
  /\ T!Init /\ A!Init /\ L!Init
  /\ "account" \notin moving => ~sovereign /\ ~user.is_staff /\ user.vcs = <<>>
  /\ "login" \notin moving => ~hook /\ cookie = None

Next ==
  /\ UNCHANGED moving
  /\ \/ "trust" \in moving /\ T!Next /\ UNCHANGED <<account, login>>
     \/ "account" \in moving /\ A!Next /\ UNCHANGED <<trust, login>>
     \/ "login" \in moving /\ L!Next /\ UNCHANGED <<trust, account>>

Spec == Init /\ [][Next]_vars

------------------------------------------------------------------------------
(* Types, and what each handler has established: see the three modules.     *)
IInv == T!IInv /\ A!IInv /\ L!IInv

(* No consistent issuer is called highly trusted: see IssuerTrust.          *)
HighOutOfReach == T!HighOutOfReach

(* Credentials leave the wallet for a reason: see UserAccounts.             *)
NothingLostAlone == A!NothingLostAlone

(* A login never takes is_staff away: see UserAccounts.                     *)
ElevationStays == A!ElevationStays

(* A login that nothing came in between is not refused: see Login.          *)
UndisturbedSucceeds == L!UndisturbedSucceeds
=============================================================================
