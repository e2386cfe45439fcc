---------------------------- MODULE ChallengeStore ----------------------------
(***************************************************************************)
(* The nonces of the presentation handshake: IssueCredentialChallengeView  *)
(* hands one out, the credential gate of CastVoteAPIView consumes it.      *)
(*                                                                         *)
(* settings.py configures no CACHES, so django.core.cache.cache is a       *)
(* LocMemCache: a dictionary in the memory of ONE worker process, with a   *)
(* time to live per entry and a maximum of entries.  The processes serve   *)
(* one request at a time and share nothing; a client cannot choose which   *)
(* one answers.  consume_challenge gets and deletes in two cache calls, and *)
(* the presentation is verified after both.                                *)
(*                                                                         *)
(* A definition whose name ends in _bug is a mutant of the definition that *)
(* follows it, which nothing else uses.                                    *)
(***************************************************************************)
EXTENDS Integers, FiniteSets

CONSTANTS
  Voters,      \* DIDs, as written in the requests
  Workers,     \* gunicorn worker processes
  Nonces,      \* values secrets.token_hex can return; never one twice
  TTL,         \* _CHALLENGE_TTL
  MaxEntries,  \* LocMemCache's MAX_ENTRIES
  MaxTime,     \* bound: the clock
  None

VARIABLES
  cache,   \* per process and voter, the entry stored under vp_challenge:<did>
  step,    \* what each process does next
  job,     \* the local variables of the request it serves
  born,    \* history: when each nonce was issued
  tried,   \* history: per nonce, how many presentations were checked against
           \* it, whether one was accepted, and when it was fetched last
  clock

vars == <<cache, step, job, born, tried, clock>>

Entry == [nonce : Nonces, expires : Nat]
Job   == [voter : Voters, answer : Nonces, challenge : Nonces, fetched : Nat]
Trial == [times : Nat, accepted : BOOLEAN, fetched : Nat]
Steps == {"idle", "delete", "verify"}

ASSUME ChallengeAssumption ==
  /\ {TTL, MaxEntries, MaxTime} \subseteq Nat
  /\ None \notin Nat /\ None \notin Entry

Held(w) == {v \in Voters : cache[w][v] # None}
Issued  == {n \in Nonces : born[n] # None}

Init ==
  /\ cache = [w \in Workers |-> [v \in Voters |-> None]]
  /\ step = [w \in Workers |-> "idle"]
  /\ job = [w \in Workers |-> None]
  /\ born = [n \in Nonces |-> None]
  /\ tried = [n \in Nonces |-> [times |-> 0, accepted |-> FALSE, fetched |-> 0]]
  /\ clock = 0

Finish(w) ==
  /\ step' = [step EXCEPT ![w] = "idle"]
  /\ job' = [job EXCEPT ![w] = None]

(* LocMemCache.set first drops a third of a full cache.  Which third depends *)
(* on the order of use; here it is any.                                     *)
Evicted(w) ==
  IF Cardinality(Held(w)) < MaxEntries THEN {{}}
  ELSE {E \in SUBSET Held(w) : Cardinality(E) = Cardinality(Held(w)) \div 3}

(* issue_challenge: the new entry replaces the one of the same voter.       *)
IssueChallenge(w, v) ==
  /\ step[w] = "idle"
  /\ \E n \in Nonces \ Issued, E \in Evicted(w) :
       /\ cache' = [cache EXCEPT ![w] =
                     [u \in Voters |->
                       IF u = v THEN [nonce |-> n, expires |-> clock + TTL]
                       ELSE IF u \in E THEN None ELSE cache[w][u]]]
       /\ born' = [born EXCEPT ![n] = clock]
  /\ UNCHANGED <<step, job, tried, clock>>

(* The entry is found whether it has expired or not. *)
FetchExpired_bug(w, v) ==
  /\ step[w] = "idle"
  /\ cache[w][v] # None
  /\ \E n \in Issued :
       job' = [job EXCEPT ![w] = [voter |-> v, answer |-> n,
                                  challenge |-> cache[w][v].nonce,
                                  fetched |-> clock]]
  /\ step' = [step EXCEPT ![w] = "delete"]
  /\ UNCHANGED <<cache, born, tried, clock>>

(* consume_challenge, the get.  The presentation carries one of the nonces   *)
(* handed out so far.  A request that finds nothing changes nothing.        *)
Fetch(w, v) ==
  /\ step[w] = "idle"
  /\ cache[w][v] # None
  /\ clock < cache[w][v].expires
  /\ \E n \in Issued :
       job' = [job EXCEPT ![w] = [voter |-> v, answer |-> n,
                                  challenge |-> cache[w][v].nonce,
                                  fetched |-> clock]]
  /\ step' = [step EXCEPT ![w] = "delete"]
  /\ UNCHANGED <<cache, born, tried, clock>>

(* The get that finds an expired entry drops it, and the request is refused. *)
Expire(w, v) ==
  /\ step[w] = "idle"
  /\ cache[w][v] # None
  /\ cache[w][v].expires <= clock
  /\ cache' = [cache EXCEPT ![w][v] = None]
  /\ UNCHANGED <<step, job, born, tried, clock>>

(* The delete is left to the expiry. *)
Delete_bug(w) ==
  /\ step[w] = "delete"
  /\ step' = [step EXCEPT ![w] = "verify"]
  /\ UNCHANGED <<cache, job, born, tried, clock>>

(* consume_challenge, the delete *)
Delete(w) ==
  /\ step[w] = "delete"
  /\ cache' = [cache EXCEPT ![w][job[w].voter] = None]
  /\ step' = [step EXCEPT ![w] = "verify"]
  /\ UNCHANGED <<job, born, tried, clock>>

(* verify_credential_presentation compares the nonce in the presentation's   *)
(* proof with the challenge and checks the rest of the presentation.        *)
Answer(w, accepted) ==
  /\ step[w] = "verify"
  /\ tried' = [tried EXCEPT ![job[w].challenge] =
                 [times |-> @.times + 1, accepted |-> @.accepted \/ accepted,
                  fetched |-> job[w].fetched]]
  /\ Finish(w)
  /\ UNCHANGED <<born, clock>>

AcceptPresentation(w) ==
  /\ Answer(w, TRUE)
  /\ job[w].answer = job[w].challenge
  /\ UNCHANGED cache

(* The nonce of a rejected presentation is put back for another attempt. *)
RejectPresentation_bug(w) ==
  /\ Answer(w, FALSE)
  /\ cache' = [cache EXCEPT ![w][job[w].voter] =
                 [nonce |-> job[w].challenge, expires |-> clock + TTL]]

(* A mismatch, or any other fault: the nonce is gone all the same. *)
RejectPresentation(w) ==
  /\ Answer(w, FALSE)
  /\ UNCHANGED cache

(* The process is killed and replaced: its memory is lost. *)
Restart(w) ==
  /\ cache' = [cache EXCEPT ![w] = [v \in Voters |-> None]]
  /\ Finish(w)
  /\ UNCHANGED <<born, tried, clock>>

Tick ==
  /\ clock < MaxTime
  /\ clock' = clock + 1
  /\ UNCHANGED <<cache, step, job, born, tried>>

Next ==
  \/ \E w \in Workers :
       \/ \E v \in Voters : IssueChallenge(w, v) \/ Fetch(w, v) \/ Expire(w, v)
       \/ Delete(w) \/ AcceptPresentation(w) \/ RejectPresentation(w)
       \/ Restart(w)
  \/ Tick

Spec == Init /\ [][Next]_vars
------------------------------------------------------------------------------
Cached(n)  == \E w \in Workers : \E v \in Held(w) : cache[w][v].nonce = n
InHands(n) == \E w \in Workers : step[w] # "idle" /\ job[w].challenge = n

(* The abstract token: a nonce is out as long as a process can still check   *)
(* a presentation against it.                                               *)
token == [n \in Nonces |->
           IF born[n] = None THEN "unused"
           ELSE IF tried[n].accepted THEN "accepted"
           ELSE IF Cached(n) \/ InHands(n) THEN "out"
           ELSE "lost"]
trials == [n \in Nonces |-> tried[n].times]

T == INSTANCE OneTimeToken

(* Types of the caches, the handlers' local variables and the history. *)
TypeOK ==
  /\ cache \in [Workers -> [Voters -> Entry \cup {None}]]
  /\ step \in [Workers -> Steps]
  /\ job \in [Workers -> Job \cup {None}]
  /\ \A w \in Workers : step[w] # "idle" => job[w] \in Job
  /\ born \in [Nonces -> Nat \cup {None}]
  /\ tried \in [Nonces -> Trial]
  /\ clock \in Nat

(* Whatever process answers which request, and although the get and the     *)
(* delete are two calls, no nonce is compared with two presentations.       *)
AnsweredOnce == \A n \in Nonces : tried[n].times <= 1

(* A nonce is accepted only if it was fetched before it expired, however     *)
(* long the verification takes.                                             *)
AcceptedInTime ==
  \A n \in Nonces :
    tried[n].accepted => /\ n \in Issued
                         /\ born[n] <= tried[n].fetched
                         /\ tried[n].fetched < born[n] + TTL

(* The caches implement the one-time token: a nonce that was rejected,       *)
(* replaced, evicted or lost with its process is never accepted later.      *)
RefinesToken == T!TokenSpec
------------------------------------------------------------------------------
(* The inductive invariant: a nonce that can still be accepted is in one     *)
(* place, with the expiry it was issued with, and has not been accepted.    *)
EntryOK(w, v) ==
  LET e == cache[w][v] IN
    /\ e.nonce \in Issued
    /\ e.expires = born[e.nonce] + TTL
    /\ tried[e.nonce].times = 0

InOneEntry ==
  \A w, u \in Workers : \A v \in Held(w), x \in Held(u) :
    cache[w][v].nonce = cache[u][x].nonce => w = u /\ v = x

(* Between the get and the delete the entry is still there, untouched.      *)
JobOK(w) ==
  LET j == job[w] IN
    /\ j.challenge \in Issued
    /\ tried[j.challenge].times = 0
    /\ born[j.challenge] <= j.fetched
    /\ j.fetched < born[j.challenge] + TTL
    /\ step[w] = "delete" => /\ j.voter \in Held(w)
                             /\ cache[w][j.voter].nonce = j.challenge
    /\ step[w] = "verify" => ~Cached(j.challenge)

InOneJob ==
  \A w, u \in Workers :
    /\ step[w] # "idle" /\ step[u] # "idle"
    /\ job[w].challenge = job[u].challenge
    => w = u

TriedOnlyIssued == \A n \in Nonces : tried[n].times > 0 => n \in Issued

AcceptedWasTried == \A n \in Nonces : tried[n].accepted => tried[n].times > 0

Past == \A n \in Issued : born[n] <= clock

IInv ==
  /\ TypeOK
  /\ \A w \in Workers : \A v \in Held(w) : EntryOK(w, v)
  /\ InOneEntry
  /\ \A w \in Workers : step[w] # "idle" => JobOK(w)
  /\ InOneJob
  /\ Past
  /\ TriedOnlyIssued
  /\ AcceptedWasTried
  /\ AnsweredOnce
  /\ AcceptedInTime
=============================================================================
