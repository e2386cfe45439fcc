------------------------- MODULE ChallengeStoreProofs -------------------------
(***************************************************************************)
(* Theorems about ChallengeStore, for any number of voters, processes and  *)
(* nonces and any time to live and size of the caches.                     *)
(***************************************************************************)
EXTENDS ChallengeStore, TLAPS

(* A step after which every entry of every process was there before.        *)
Shrinks ==
  \A x \in Workers : \A u \in Held(x)' :
    u \in Held(x) /\ cache'[x][u] = cache[x][u]

OthersKeep(w) ==
  \A x \in Workers \ {w} :
    /\ cache'[x] = cache[x] /\ Held(x)' = Held(x)
    /\ step'[x] = step[x] /\ job'[x] = job[x]

(* Steps of a handler. *)
LEMMA IdleIsNotBusy == /\ "idle" \in Steps /\ "delete" \in Steps /\ "verify" \in Steps
                       /\ "idle" # "delete" /\ "idle" # "verify" /\ "delete" # "verify"
BY DEF Steps

(* Nothing that can still be accepted moves when entries disappear and      *)
(* process w, if it goes on at all, goes on with the same challenge.        *)
LEMMA ShrinkStep ==
  ASSUME IInv, NEW w \in Workers, TypeOK', Shrinks, OthersKeep(w),
         UNCHANGED <<born, tried, clock>>,
         \/ step'[w] = "idle"
         \/ /\ step[w] = "delete" /\ step'[w] = "verify" /\ job'[w] = job[w]
            /\ job[w].voter \notin Held(w)'
  PROVE  IInv'
<1>1. ASSUME NEW x \in Workers, NEW v \in Held(x)' PROVE EntryOK(x, v)'
  BY <1>1 DEF IInv, Shrinks, EntryOK, Issued
<1>2. InOneEntry'
  BY DEF IInv, InOneEntry, Shrinks
<1>3. ASSUME NEW n, Cached(n)' PROVE Cached(n)
  BY <1>3 DEF Cached, Shrinks
<1>4. ASSUME NEW x \in Workers, step'[x] # "idle" PROVE JobOK(x)'
  <2>1. CASE x # w
    BY <1>3, <1>4, <2>1 DEF IInv, JobOK, OthersKeep, Issued
  <2>2. CASE x = w
    <3>1. step[w] = "delete" /\ job'[w] = job[w] /\ step'[w] = "verify"
      BY <1>4, <2>2
    <3>2. JobOK(w) /\ job[w].voter \in Held(w)
          /\ cache[w][job[w].voter].nonce = job[w].challenge
      BY <3>1 DEF IInv, JobOK
    <3>3. ~Cached(job[w].challenge)'
      <4> SUFFICES ASSUME NEW y \in Workers, NEW u \in Held(y)',
                          cache'[y][u].nonce = job[w].challenge
                   PROVE  FALSE
        BY <3>1 DEF Cached
      <4>1. u \in Held(y) /\ cache[y][u].nonce = job[w].challenge
        BY DEF Shrinks
      <4>2. y = w /\ u = job[w].voter
        BY <3>2, <4>1 DEF IInv, InOneEntry
      <4> QED
        BY <1>4, <2>2, <3>1, <4>2
    <3> QED
      BY <2>2, <3>1, <3>2, <3>3 DEF JobOK, Issued
  <2> QED
    BY <2>1, <2>2
<1>5. InOneJob'
  BY DEF IInv, InOneJob, OthersKeep
<1> QED
  BY <1>1, <1>2, <1>4, <1>5
     DEF IInv, Past, TriedOnlyIssued, AcceptedWasTried, Issued,
         AnsweredOnce, AcceptedInTime

(* The nonce is deleted. *)
LEMMA DeleteStep ==
  ASSUME IInv, NEW w \in Workers, Delete(w)
  PROVE  IInv'
<1>1. /\ job[w] \in Job /\ step[w] = "delete" /\ job[w].voter \in Voters
      /\ UNCHANGED <<job, born, tried, clock>> /\ step'[w] = "verify"
  BY DEF IInv, TypeOK, Delete, Job
<1>2. TypeOK'
  BY <1>1, IdleIsNotBusy DEF IInv, TypeOK, Delete
<1>3. OthersKeep(w)
  BY <1>1 DEF OthersKeep, Delete, IInv, TypeOK, Held
<1>4. /\ cache'[w][job[w].voter] = None
      /\ \A u \in Voters \ {job[w].voter} : cache'[w][u] = cache[w][u]
  BY <1>1 DEF Delete, IInv, TypeOK
<1>5. Shrinks
  BY <1>3, <1>4 DEF Shrinks, Held, OthersKeep
<1>6. job[w].voter \notin Held(w)'
  BY <1>4 DEF Held
<1> QED
  BY <1>1, <1>2, <1>3, <1>5, <1>6, ShrinkStep

(* A worker starts again. *)
LEMMA RestartStep ==
  ASSUME IInv, NEW w \in Workers, Restart(w)
  PROVE  IInv'
<1>1. UNCHANGED <<born, tried, clock>> /\ step'[w] = "idle"
  BY DEF IInv, TypeOK, Restart, Finish
<1>2. TypeOK'
  BY IdleIsNotBusy DEF IInv, TypeOK, Restart, Finish
<1>3. OthersKeep(w)
  BY DEF OthersKeep, Restart, Finish, IInv, TypeOK, Held
<1>4. Held(w)' = {}
  BY DEF Restart, IInv, TypeOK, Held
<1>5. Shrinks
  BY <1>3, <1>4 DEF Shrinks, OthersKeep
<1> QED
  BY <1>1, <1>2, <1>3, <1>5, ShrinkStep

(* An entry of the cache expires. *)
LEMMA ExpireStep ==
  ASSUME IInv, NEW w \in Workers, NEW v \in Voters, Expire(w, v)
  PROVE  IInv'
<1>1. /\ UNCHANGED <<step, job, born, tried, clock>> /\ step[w] = "idle"
      /\ cache'[w][v] = None
      /\ \A u \in Voters \ {v} : cache'[w][u] = cache[w][u]
  BY DEF IInv, TypeOK, Expire
<1>2. TypeOK'
  BY <1>1 DEF IInv, TypeOK, Expire
<1>3. OthersKeep(w)
  BY <1>1 DEF OthersKeep, Expire, IInv, TypeOK, Held
<1>4. Shrinks
  BY <1>1, <1>3 DEF Shrinks, Held, OthersKeep
<1> QED
  BY <1>1, <1>2, <1>3, <1>4, ShrinkStep

(* A nonce is fetched from the one entry it is in, by a process that had no *)
(* request.                                                                 *)
LEMMA FetchStep ==
  ASSUME IInv, NEW w \in Workers, NEW v \in Voters, Fetch(w, v)
  PROVE  IInv'
<1>1. PICK n \in Issued :
        job' = [job EXCEPT ![w] = [voter |-> v, answer |-> n,
                                   challenge |-> cache[w][v].nonce,
                                   fetched |-> clock]]
  BY DEF Fetch
<1> DEFINE c == cache[w][v].nonce
           j == [voter |-> v, answer |-> n, challenge |-> c, fetched |-> clock]
<1>2. /\ v \in Held(w) /\ step[w] = "idle" /\ clock < cache[w][v].expires
      /\ UNCHANGED <<cache, born, tried, clock>>
      /\ cache[w][v] \in Entry /\ EntryOK(w, v)
  BY DEF Fetch, Held, IInv, TypeOK
<1>3. /\ c \in Issued /\ tried[c].times = 0 /\ born[c] <= clock
      /\ clock < born[c] + TTL
  BY <1>2 DEF EntryOK, IInv, Past
<1>4. j \in Job
  BY <1>1, <1>2, <1>3 DEF Job, Issued, IInv, TypeOK
<1>5. /\ job'[w] = j /\ step'[w] = "delete" /\ j.voter = v /\ j.challenge = c
      /\ j.fetched = clock
  BY <1>1 DEF Fetch, IInv, TypeOK
<1> HIDE DEF j
<1>6. TypeOK'
  BY <1>1, <1>2, <1>4, <1>5, IdleIsNotBusy DEF IInv, TypeOK, Fetch
<1>7. \A x \in Workers \ {w} : step'[x] = step[x] /\ job'[x] = job[x]
  BY <1>1 DEF Fetch, IInv, TypeOK
<1>8. JobOK(w)'
  BY <1>2, <1>3, <1>5 DEF JobOK, Held, Issued
<1>9. ASSUME NEW x \in Workers \ {w}, step[x] # "idle" PROVE job[x].challenge # c
  <2>1. JobOK(x) /\ step[x] \in {"delete", "verify"}
    BY <1>9 DEF IInv, TypeOK, Steps
  <2>2. CASE step[x] = "delete"
    BY <1>2, <1>9, <2>1, <2>2 DEF JobOK, IInv, InOneEntry
  <2>3. CASE step[x] = "verify"
    BY <1>2, <2>1, <2>3 DEF JobOK, Cached
  <2> QED
    BY <2>1, <2>2, <2>3
<1> HIDE DEF c
<1>10. InOneJob'
  BY <1>5, <1>7, <1>9 DEF InOneJob, IInv
<1>11. \A x \in Workers \ {w} : step'[x] # "idle" => JobOK(x)'
  BY <1>2, <1>7 DEF IInv, JobOK, Held, Issued, Cached
<1> QED
  BY <1>2, <1>6, <1>8, <1>10, <1>11
     DEF IInv, EntryOK, InOneEntry, Past, TriedOnlyIssued, AcceptedWasTried, AnsweredOnce,
         AcceptedInTime, Held, Issued

(* Whatever the verdict, the nonce is in no cache and in no other job when   *)
(* a presentation is compared with it.                                      *)
LEMMA AnswerStep ==
  ASSUME IInv, NEW w \in Workers, NEW b \in BOOLEAN, Answer(w, b), UNCHANGED cache
  PROVE  IInv'
<1> DEFINE c == job[w].challenge
           t == [times |-> tried[c].times + 1,
                 accepted |-> tried[c].accepted \/ b,
                 fetched |-> job[w].fetched]
<1>1. /\ step[w] = "verify" /\ job[w] \in Job /\ JobOK(w)
      /\ UNCHANGED <<cache, born, clock>> /\ step'[w] = "idle"
  BY DEF Answer, Finish, IInv, TypeOK
<1>2. /\ c \in Nonces /\ c \in Issued /\ tried[c].times = 0 /\ ~Cached(c)
      /\ born[c] <= job[w].fetched /\ job[w].fetched < born[c] + TTL
      /\ tried[c] \in Trial /\ job[w].fetched \in Nat
  BY <1>1 DEF JobOK, Job, Issued, IInv, TypeOK
<1>3. (tried[c].accepted \/ b) \in BOOLEAN
  BY <1>2, Zenon DEF Trial
<1>4. t \in Trial /\ t.times = 1 /\ t.fetched = job[w].fetched
  BY <1>2, <1>3 DEF Trial
<1>5. tried' = [tried EXCEPT ![c] = t]
  BY DEF Answer
<1> HIDE DEF t
<1>6. /\ tried'[c] = t /\ \A n \in Nonces \ {c} : tried'[n] = tried[n]
      /\ tried' \in [Nonces -> Trial]
  BY <1>2, <1>4, <1>5 DEF IInv, TypeOK
<1>7. /\ \A x \in Workers \ {w} : step'[x] = step[x] /\ job'[x] = job[x]
      /\ step' \in [Workers -> Steps] /\ job' \in [Workers -> Job \cup {None}]
  BY IdleIsNotBusy DEF Answer, Finish, IInv, TypeOK
<1>8. TypeOK'
  BY <1>1, <1>6, <1>7 DEF IInv, TypeOK
<1>9. ASSUME NEW x \in Workers, NEW v \in Held(x)' PROVE EntryOK(x, v)'
  <2>1. v \in Held(x) /\ EntryOK(x, v) /\ cache[x][v].nonce # c
    BY <1>1, <1>2 DEF IInv, Held, Cached
  <2> QED
    BY <1>1, <1>6, <2>1 DEF EntryOK, Issued
<1>10. ASSUME NEW x \in Workers, step'[x] # "idle" PROVE JobOK(x)'
  <2>1. x # w /\ JobOK(x) /\ job[x].challenge # c
    BY <1>1, <1>7, <1>10 DEF IInv, InOneJob
  <2> QED
    BY <1>1, <1>6, <1>7, <2>1 DEF JobOK, Issued, Held, Cached
<1>11. InOneJob'
  BY <1>1, <1>7 DEF IInv, InOneJob
<1>12. AnsweredOnce'
  BY <1>4, <1>6 DEF IInv, AnsweredOnce
<1>14. TriedOnlyIssued' /\ AcceptedWasTried'
  BY <1>1, <1>2, <1>4, <1>6 DEF IInv, TriedOnlyIssued, AcceptedWasTried, Issued
<1>13. AcceptedInTime'
  BY <1>1, <1>2, <1>4, <1>6 DEF IInv, AcceptedInTime, Issued
<1> QED
  BY <1>1, <1>8, <1>9, <1>10, <1>11, <1>12, <1>13, <1>14
     DEF IInv, InOneEntry, Past, Held, Issued

(* The new nonce was in no place before, and the entries that stay, stay    *)
(* where they are.                                                          *)
LEMMA IssueStep ==
  ASSUME IInv, NEW w \in Workers, NEW v \in Voters, IssueChallenge(w, v)
  PROVE  IInv'
<1>1. PICK n \in Nonces \ Issued, E \in Evicted(w) :
        /\ cache' = [cache EXCEPT ![w] =
                      [u \in Voters |->
                        IF u = v THEN [nonce |-> n, expires |-> clock + TTL]
                        ELSE IF u \in E THEN None ELSE cache[w][u]]]
        /\ born' = [born EXCEPT ![n] = clock]
  BY DEF IssueChallenge
<1> DEFINE e == [nonce |-> n, expires |-> clock + TTL]
<1>2. /\ step[w] = "idle" /\ UNCHANGED <<step, job, tried, clock>>
      /\ clock \in Nat /\ TTL \in Nat /\ n \in Nonces /\ born[n] = None
  BY ChallengeAssumption DEF IssueChallenge, IInv, TypeOK, Issued
<1>3. e \in Entry /\ e.nonce = n /\ e.expires = clock + TTL
  BY <1>2 DEF Entry
<1> HIDE DEF e
<1>4. /\ cache'[w][v] = e
      /\ \A u \in Voters \ {v} : cache'[w][u] \in {None, cache[w][u]}
      /\ \A x \in Workers \ {w} : cache'[x] = cache[x]
      /\ cache' \in [Workers -> [Voters -> Entry \cup {None}]]
  BY <1>1, <1>3 DEF IInv, TypeOK, e
<1>5. /\ born'[n] = clock /\ \A m \in Nonces \ {n} : born'[m] = born[m]
      /\ born' \in [Nonces -> Nat \cup {None}]
  BY <1>1, <1>2 DEF IInv, TypeOK
<1>6. Issued' = Issued \cup {n} /\ n \notin Issued
  BY <1>2, <1>5, ChallengeAssumption DEF Issued
<1>7. ASSUME NEW x \in Workers, NEW u \in Held(x)'
      PROVE  \/ x = w /\ u = v /\ cache'[x][u] = e
             \/ /\ ~(x = w /\ u = v)
                /\ u \in Held(x) /\ cache'[x][u] = cache[x][u]
  BY <1>4, <1>7 DEF Held
<1>8. TypeOK'
  BY <1>2, <1>4, <1>5 DEF IInv, TypeOK
<1>9. ASSUME NEW x \in Workers, NEW u \in Held(x) PROVE cache[x][u].nonce \in Issued
  BY <1>9 DEF IInv, EntryOK
<1>10. tried[n].times = 0
  <2>1. tried[n] \in Trial
    BY <1>2 DEF IInv, TypeOK
  <2> QED
    BY <1>6, <2>1 DEF IInv, TriedOnlyIssued, Trial
<1>11. ASSUME NEW x \in Workers, NEW u \in Held(x)' PROVE EntryOK(x, u)'
  BY <1>2, <1>3, <1>5, <1>6, <1>7, <1>10, <1>11 DEF IInv, EntryOK, Issued
<1>12. InOneEntry'
  BY <1>3, <1>6, <1>7, <1>9 DEF IInv, InOneEntry
<1>13. ASSUME NEW x \in Workers, step'[x] # "idle" PROVE JobOK(x)'
  <2>1. x # w /\ JobOK(x) /\ job'[x] = job[x] /\ step'[x] = step[x]
        /\ Held(x)' = Held(x) /\ cache'[x] = cache[x]
    BY <1>2, <1>4, <1>13 DEF IInv, Held
  <2>2. job[x].challenge \in Issued /\ job[x].challenge # n
    BY <1>6, <2>1 DEF JobOK
  <2>3. Cached(job[x].challenge)' => Cached(job[x].challenge)
    BY <1>3, <1>7, <2>1, <2>2 DEF Cached
  <2> QED
    BY <1>2, <1>5, <1>6, <2>1, <2>2, <2>3 DEF JobOK, Issued
<1>14. InOneJob'
  BY <1>2 DEF IInv, InOneJob
<1>15. /\ Past' /\ AnsweredOnce' /\ AcceptedInTime'
       /\ TriedOnlyIssued' /\ AcceptedWasTried'
  BY <1>2, <1>5, <1>6
     DEF IInv, Past, AnsweredOnce, AcceptedInTime, TriedOnlyIssued, AcceptedWasTried, Issued
<1> QED
  BY <1>8, <1>11, <1>12, <1>13, <1>14, <1>15 DEF IInv

(* Every step keeps the invariant. *)
LEMMA InvStep == IInv /\ [Next]_vars => IInv'
<1> SUFFICES ASSUME IInv, [Next]_vars PROVE IInv'
  OBVIOUS
<1>1. ASSUME NEW w \in Workers, AcceptPresentation(w) \/ RejectPresentation(w)
      PROVE  IInv'
  BY <1>1, AnswerStep DEF AcceptPresentation, RejectPresentation
<1>2. CASE Tick \/ UNCHANGED vars
  <2>1. /\ UNCHANGED <<cache, step, job, born, tried>>
        /\ clock' \in Nat /\ clock <= clock'
    BY <1>2 DEF Tick, vars, IInv, TypeOK
  <2>2. TypeOK'
    BY <2>1 DEF IInv, TypeOK
  <2>3. Past'
    BY <2>1 DEF IInv, Past, Issued, TypeOK
  <2> QED
    BY <2>1, <2>2, <2>3 DEF IInv, EntryOK, InOneEntry, JobOK, InOneJob,
       AnsweredOnce, AcceptedInTime, TriedOnlyIssued, AcceptedWasTried, Held, Issued, Cached
<1> QED
  BY <1>1, <1>2, IssueStep, FetchStep, DeleteStep, ExpireStep, RestartStep DEF Next

(* The invariant holds at the start. *)
LEMMA InitInv == Init => IInv
<1> SUFFICES ASSUME Init PROVE IInv
  OBVIOUS
<1>1. TypeOK
  BY DEF Init, TypeOK, Steps, Trial
<1>2. Issued = {} /\ \A w \in Workers : Held(w) = {}
  BY DEF Init, Issued, Held
<1> QED
  BY <1>1, <1>2 DEF Init, IInv, InOneEntry, InOneJob, Past, AnsweredOnce,
     AcceptedInTime, TriedOnlyIssued, AcceptedWasTried

(* The invariant holds always. *)
LEMMA Invariant == Spec => []IInv
BY InitInv, InvStep, PTL DEF Spec

(* No nonce is ever compared with two presentations, whatever process        *)
(* answers which request.                                                   *)
THEOREM AnsweredOnceHolds == Spec => []AnsweredOnce
<1>1. IInv => AnsweredOnce
  BY DEF IInv
<1> QED
  BY <1>1, Invariant, PTL

(* Every accepted presentation answered a nonce fetched before its expiry.  *)
THEOREM AcceptedInTimeHolds == Spec => []AcceptedInTime
<1>1. IInv => AcceptedInTime
  BY DEF IInv
<1> QED
  BY <1>1, Invariant, PTL

Live(n) == Cached(n) \/ InHands(n)

(* The state of a one-time token, now and after a step. *)
LEMMA TokenIs ==
  /\ token = [n \in Nonces |->
               IF born[n] = None THEN "unused"
               ELSE IF tried[n].accepted THEN "accepted"
               ELSE IF Live(n) THEN "out" ELSE "lost"]
  /\ token' = [n \in Nonces |->
               IF born'[n] = None THEN "unused"
               ELSE IF tried'[n].accepted THEN "accepted"
               ELSE IF Live(n)' THEN "out" ELSE "lost"]
  /\ trials = [n \in Nonces |-> tried[n].times]
  /\ trials' = [n \in Nonces |-> tried'[n].times]
BY DEF token, trials, Live

(* A step that issues and answers nothing can only cost nonces their place. *)
LEMMA OnlyLoses ==
  ASSUME UNCHANGED <<born, tried>>, \A n \in Nonces : Live(n)' => Live(n)
  PROVE  T!TokenNext
<1> DEFINE L == {n \in T!Out : ~Live(n)'}
<1>1. L \in SUBSET T!Out
  OBVIOUS
<1>2. token' = T!Becomes(L, "lost")
  BY TokenIs DEF T!Becomes, T!Out
<1>3. UNCHANGED trials
  BY TokenIs
<1> QED
  BY <1>1, <1>2, <1>3 DEF T!TokenNext, T!Lose

(* The get and the delete leave every nonce where a process can accept it.  *)
LEMMA ConsumeMaps ==
  ASSUME IInv, NEW w \in Workers, (\E v \in Voters : Fetch(w, v)) \/ Delete(w)
  PROVE  T!TokenNext
<1>1. CASE \E v \in Voters : Fetch(w, v)
  <2>1. PICK v \in Voters : Fetch(w, v)
    BY <1>1
  <2>2. /\ step' = [step EXCEPT ![w] = "delete"]
        /\ \A x \in Workers \ {w} : job'[x] = job[x] /\ step'[x] = step[x]
        /\ job'[w].challenge = cache[w][v].nonce /\ v \in Held(w)
        /\ UNCHANGED <<cache, born, tried>>
    BY <2>1 DEF Fetch, IInv, TypeOK, Held
  <2>3. ASSUME NEW n \in Nonces, Live(n)' PROVE Live(n)
    BY <2>2, <2>3 DEF Live, Cached, InHands, Held
  <2> QED
    BY <2>2, <2>3, OnlyLoses
<1>2. CASE Delete(w)
  <2>1. /\ UNCHANGED <<born, tried, job>> /\ step[w] = "delete"
        /\ \A x \in Workers : step'[x] # "idle" => step[x] # "idle"
        /\ \A x \in Workers, u \in Voters :
              cache'[x][u] = None \/ cache'[x][u] = cache[x][u]
    BY <1>2 DEF Delete, IInv, TypeOK, Job
  <2>2. ASSUME NEW n \in Nonces, Live(n)' PROVE Live(n)
    BY <2>1, <2>2 DEF Live, Cached, InHands, Held
  <2> QED
    BY <2>1, <2>2, OnlyLoses
<1> QED
  BY <1>1, <1>2

(* An entry found expired is dropped with its nonce. *)
LEMMA ExpireMaps ==
  ASSUME IInv, NEW w \in Workers, NEW v \in Voters, Expire(w, v)
  PROVE  T!TokenNext
<1>1. /\ UNCHANGED <<born, tried, step, job>>
      /\ \A x \in Workers, u \in Voters :
            cache'[x][u] = None \/ cache'[x][u] = cache[x][u]
  BY DEF Expire, IInv, TypeOK
<1>2. ASSUME NEW n \in Nonces, Live(n)' PROVE Live(n)
  BY <1>1, <1>2 DEF Live, Cached, InHands, Held
<1> QED
  BY <1>1, <1>2, OnlyLoses

(* A killed process takes its nonces with it. *)
LEMMA RestartMaps ==
  ASSUME IInv, NEW w \in Workers, Restart(w)
  PROVE  T!TokenNext
<1>1. /\ UNCHANGED <<born, tried>>
      /\ \A x \in Workers : step'[x] # "idle" => step[x] # "idle" /\ job'[x] = job[x]
      /\ \A x \in Workers, u \in Voters :
            cache'[x][u] = None \/ cache'[x][u] = cache[x][u]
  BY DEF Restart, Finish, IInv, TypeOK
<1>2. ASSUME NEW n \in Nonces, Live(n)' PROVE Live(n)
  BY <1>1, <1>2 DEF Live, Cached, InHands, Held
<1> QED
  BY <1>1, <1>2, OnlyLoses

(* A comparison takes its nonce back for good. *)
LEMMA AnswerMaps ==
  ASSUME IInv, NEW w \in Workers, NEW b \in BOOLEAN, Answer(w, b), UNCHANGED cache
  PROVE  T!TokenNext
<1> DEFINE fate == IF b THEN "accepted" ELSE "lost"
<1>1. /\ step[w] = "verify" /\ job[w] \in Job /\ JobOK(w)
      /\ UNCHANGED <<cache, born>> /\ step'[w] = "idle"
      /\ \A x \in Workers \ {w} : step'[x] = step[x] /\ job'[x] = job[x]
  BY DEF Answer, Finish, IInv, TypeOK
<1>2. PICK c \in Nonces : c = job[w].challenge
  BY <1>1 DEF Job
<1>3. /\ born[c] # None /\ tried[c].times = 0 /\ ~Cached(c)
      /\ InHands(c) /\ tried[c] \in Trial
  BY <1>1, <1>2 DEF JobOK, Issued, IInv, TypeOK, InHands
<1>4. tried[c].accepted = FALSE
  BY <1>3 DEF IInv, AcceptedWasTried, Trial
<1>5. /\ tried'[c].times = tried[c].times + 1 /\ tried'[c].accepted = b
      /\ \A n \in Nonces \ {c} : tried'[n] = tried[n]
  BY <1>2, <1>4 DEF Answer, IInv, TypeOK
<1>6. ~Live(c)'
  <2>1. ~Cached(c)'
    BY <1>1, <1>3 DEF Cached, Held
  <2>2. ~InHands(c)'
    BY <1>1, <1>2 DEF InHands, IInv, InOneJob
  <2> QED
    BY <2>1, <2>2 DEF Live
<1>7. ASSUME NEW n \in Nonces \ {c} PROVE Live(n)' <=> Live(n)
  BY <1>1, <1>2 DEF Live, Cached, Held, InHands
<1>8. c \in T!Out
  BY <1>3, <1>4, TokenIs DEF T!Out, Live
<1>9. token' = T!Becomes({c}, fate)
  BY <1>1, <1>3, <1>5, <1>6, <1>7, TokenIs DEF T!Becomes
<1>10. trials' = [trials EXCEPT ![c] = @ + 1]
  BY <1>5, TokenIs
<1>11. fate \in {"accepted", "lost"}
  OBVIOUS
<1> HIDE DEF fate
<1> QED
  BY <1>8, <1>9, <1>10, <1>11 DEF T!TokenNext, T!TakeBack

(* A nonce is handed out; the entry it replaces and the evicted ones die.   *)
LEMMA IssueMaps ==
  ASSUME IInv, NEW w \in Workers, NEW v \in Voters, IssueChallenge(w, v)
  PROVE  T!TokenNext
<1>1. PICK n \in Nonces \ Issued, E \in Evicted(w) :
        /\ cache' = [cache EXCEPT ![w] =
                      [u \in Voters |->
                        IF u = v THEN [nonce |-> n, expires |-> clock + TTL]
                        ELSE IF u \in E THEN None ELSE cache[w][u]]]
        /\ born' = [born EXCEPT ![n] = clock]
  BY DEF IssueChallenge
<1> DEFINE e == [nonce |-> n, expires |-> clock + TTL]
           L == {m \in T!Out : ~Live(m)'}
<1>2. /\ UNCHANGED <<step, job, tried>> /\ clock \in Nat /\ TTL \in Nat
      /\ n \in Nonces /\ born[n] = None /\ tried[n] \in Trial
  BY ChallengeAssumption DEF IssueChallenge, IInv, TypeOK, Issued
<1>3. e \in Entry /\ e.nonce = n /\ e # None
  BY <1>2, ChallengeAssumption DEF Entry
<1> HIDE DEF e
<1>4. /\ cache'[w][v] = e
      /\ \A x \in Workers, u \in Voters :
            (x = w /\ u = v) \/ cache'[x][u] = None \/ cache'[x][u] = cache[x][u]
  BY <1>1, <1>3 DEF IInv, TypeOK, e
<1>5. /\ born'[n] # None /\ \A m \in Nonces \ {n} : born'[m] = born[m]
  BY <1>1, <1>2, ChallengeAssumption DEF IInv, TypeOK
<1>6. ~tried[n].accepted
  BY <1>2 DEF IInv, AcceptedWasTried, TriedOnlyIssued, Issued, Trial
<1>7. Live(n)'
  BY <1>3, <1>4 DEF Live, Cached, Held
<1>8. ASSUME NEW m \in Nonces \ {n}, Live(m)' PROVE Live(m)
  BY <1>2, <1>3, <1>4, <1>8 DEF Live, Cached, InHands, Held
<1>9. L \in SUBSET T!Out /\ token[n] = "unused" /\ n \notin L
  BY <1>2, TokenIs DEF T!Out
<1>10. token' = [T!Becomes(L, "lost") EXCEPT ![n] = "out"]
  BY <1>2, <1>5, <1>6, <1>7, <1>8, TokenIs DEF T!Becomes, T!Out
<1>11. UNCHANGED trials
  BY <1>2, TokenIs
<1> HIDE DEF L
<1> QED
  BY <1>2, <1>9, <1>10, <1>11 DEF T!TokenNext, T!HandOut

(* The caches of all the processes together implement the one-time token.   *)
THEOREM RefinesTokenHolds == Spec => RefinesToken
<1>1. Init => T!TokenInit
  BY DEF Init, T!TokenInit, token, trials
<1>2. ASSUME IInv, [Next]_vars PROVE [T!TokenNext]_<<token, trials>>
  <2>1. CASE Tick \/ UNCHANGED vars
    <3>1. UNCHANGED <<cache, step, job, born, tried>>
      BY <2>1 DEF Tick, vars
    <3> QED
      BY <3>1, TokenIs DEF Live, Cached, InHands, Held
  <2>2. ASSUME NEW w \in Workers, AcceptPresentation(w) \/ RejectPresentation(w)
        PROVE  T!TokenNext
    BY <1>2, <2>2, AnswerMaps DEF AcceptPresentation, RejectPresentation
  <2> QED
    BY <1>2, <2>1, <2>2, IssueMaps, ConsumeMaps, ExpireMaps, RestartMaps DEF Next
<1> QED
  BY <1>1, <1>2, Invariant, PTL DEF Spec, RefinesToken, T!TokenSpec
=============================================================================
