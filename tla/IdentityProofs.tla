---------------------------- MODULE IdentityProofs ----------------------------
(***************************************************************************)
(* Theorems about the three parts of Identity: trust scores, the row of a  *)
(* user, the logins of a session, for any values of their constants.       *)
(***************************************************************************)
EXTENDS Identity, SumTheorems, SequenceTheorems, TLAPS

(* Products of natural numbers.                                             *)
LEMMA ProductNat == \A a, b \in Nat : a * b \in Nat
BY SMT

(* Products grow with their factors. *)
LEMMA ProductMonotone ==
  ASSUME NEW a \in Nat, NEW b \in Nat, NEW c \in Nat, a <= b
  PROVE  a * c <= b * c
BY SMT

(* The same for a factor that may be negative. *)
LEMMA FactorMonotone ==
  ASSUME NEW a \in Int, NEW b \in Int, NEW c \in Nat, a <= b
  PROVE  a * c <= b * c
BY SMT

(* No number of endorsements lifts metrics with at most as many successes   *)
(* as attempts to the threshold for "high": success rate, endorsements and  *)
(* breadth give at most 3000, 2000 and 1500 points of the 7000.             *)
LEMMA HighNotReached ==
  ASSUME NEW m \in T!Metric, NEW n \in Nat, m.successful <= m.attempted,
         NEW floor \in {T!Floor.high, T!Floor.very_high}
  PROVE  ~T!Reaches(m, n, floor)
<1> DEFINE D == T!Attempted(m)
           S == T!Successes(m)
           K == D * (n + 5)
           P == T!Least(100 * m.violations, 1000)
           B == 15 * m.breadth - P
<1>1. D \in Nat /\ S \in Nat /\ S <= D /\ D >= 1
  BY DEF T!Attempted, T!Successes, T!Metric
<1>2. P \in Nat /\ B \in Int /\ B <= 1500
  BY DEF T!Least, T!Metric
<1> HIDE DEF D, S, P, B
<1>3. K \in Nat /\ K >= 1
  <2>1. 1 * (n + 5) <= D * (n + 5)
    BY <1>1, ProductMonotone
  <2> QED
    BY <1>1, <2>1, ProductNat
<1>4. S * (n + 5) \in Nat /\ S * (n + 5) <= K
  BY <1>1, ProductMonotone, ProductNat
<1>5. n * D \in Nat /\ n * D <= K
  <2>1. n * D <= (n + 5) * D
    BY <1>1, ProductMonotone
  <2>2. (n + 5) * D = D * (n + 5) /\ n * D \in Nat
    BY <1>1, ProductNat
  <2> QED
    BY <2>1, <2>2
<1> HIDE DEF K
<1>6. B * K \in Int /\ B * K <= 1500 * K
  BY <1>2, <1>3, FactorMonotone
<1>7. floor \in Nat /\ floor >= 7000 /\ 7000 * K <= floor * K /\ floor * K \in Nat
  BY <1>3, ProductMonotone, ProductNat DEF T!Floor
<1>8. 3000 * S * (n + 5) = 3000 * (S * (n + 5)) /\ 2000 * n * D = 2000 * (n * D)
  BY <1>1
<1>9. ~(3000 * (S * (n + 5)) + 2000 * (n * D) + B * K >= floor * K)
  BY <1>3, <1>4, <1>5, <1>6, <1>7
<1> QED
  BY <1>7, <1>8, <1>9 DEF T!Reaches, D, S, K, P, B

(* The levels between "low" and "medium" are what is left.                  *)
LEMMA LevelsBelowHigh ==
  ASSUME NEW m \in T!Metric, NEW n \in Nat, m.successful <= m.attempted
  PROVE  T!get_trust_level(m, n) \in {"low", "medium"}
BY HighNotReached DEF T!get_trust_level, T!Floor

(* A level is one of the thresholds. *)
LEMMA LevelTyped ==
  ASSUME NEW m, NEW n
  PROVE  T!get_trust_level(m, n) \in T!Thresholds
BY DEF T!get_trust_level, T!Thresholds

(* The invariant holds at the start. *)
LEMMA ScoreInit ==
  ASSUME T!Assumptions, T!Init
  PROVE  T!IInv
BY DEF T!Assumptions, T!Init, T!IInv, T!TypeOK, T!HighOutOfReach

(* Steps of a handler that reads a row, and of those that write rows.       *)
LEMMA ScoreBegin ==
  ASSUME T!Assumptions, T!IInv, NEW w \in Workers, NEW j \in T!Job, T!Begin(w, j)
  PROVE  T!IInv'
BY DEF T!IInv, T!TypeOK, T!HighOutOfReach, T!Begin, T!Count, T!Assumptions

(* A request begins with typed locals. *)
LEMMA ScoreBeginTyped ==
  ASSUME T!Assumptions, T!TypeOK, NEW w \in Workers,
         T!BeginPatch(w) \/ T!BeginToggle(w) \/ T!BeginScore(w)
  PROVE  \E j \in T!Job : T!Begin(w, j)
<1>1. CASE T!BeginPatch(w)
  <2> PICK k \in Ids, d \in Endorsers :
        /\ endorsements[k] # None
        /\ T!Begin(w, [kind |-> "patch", id |-> k,
                     row |-> [endorsements[k] EXCEPT !.endorser = d]])
    BY <1>1 DEF T!BeginPatch
  <2>1. endorsements[k] \in T!Endorsement
    BY DEF T!TypeOK
  <2>2. [endorsements[k] EXCEPT !.endorser = d] \in T!Endorsement
    BY <2>1 DEF T!Endorsement
  <2> QED
    BY <2>2 DEF T!Job
<1>2. CASE T!BeginToggle(w)
  <2> PICK k \in Ids :
        /\ endorsements[k] # None
        /\ T!Begin(w, [kind |-> "toggle", id |-> k,
                     row |-> [endorsements[k] EXCEPT !.active = ~@]])
    BY <1>2 DEF T!BeginToggle
  <2>1. endorsements[k] \in T!Endorsement
    BY DEF T!TypeOK
  <2>2. [endorsements[k] EXCEPT !.active = ~@] \in T!Endorsement
    BY <2>1 DEF T!Endorsement
  <2> QED
    BY <2>2 DEF T!Job
<1>3. CASE T!BeginScore(w)
  <2> PICK i \in Issuers, asked \in T!Thresholds :
        /\ metrics[i] # None
        /\ T!Begin(w, [kind |-> "score", metric |-> metrics[i], issuer |-> i,
                     asked |-> asked])
    BY <1>3 DEF T!BeginScore
  <2>1. metrics[i] \in T!Metric
    BY DEF T!TypeOK
  <2> QED
    BY <2>1 DEF T!Job
<1> QED
  BY <1>1, <1>2, <1>3

(* The metrics are written. *)
LEMMA MetricsStep ==
  ASSUME T!Assumptions, T!IInv, NEW i \in Issuers, T!WriteMetrics(i)
  PROVE  T!IInv'
BY DEF T!IInv, T!TypeOK, T!HighOutOfReach, T!WriteMetrics, T!Count, T!Assumptions

(* An endorsement is created. *)
LEMMA CreateStep ==
  ASSUME T!Assumptions, T!IInv, NEW k \in Ids, NEW i \in Issuers, T!CreateEndorsement(k, i)
  PROVE  T!IInv'
<1>1. PICK e \in T!Endorsement : endorsements' = [endorsements EXCEPT ![k] = e]
  BY DEF T!CreateEndorsement, T!Endorsement
<1>2. endorsements' \in [Ids -> T!Endorsement \cup {None}]
  BY <1>1 DEF T!IInv, T!TypeOK
<1>3. T!Count /\ UNCHANGED <<metrics, score_job, answer>>
  BY DEF T!CreateEndorsement
<1> QED
  BY <1>2, <1>3 DEF T!IInv, T!TypeOK, T!HighOutOfReach, T!Count, T!Assumptions

(* An endorsement is deleted. *)
LEMMA RemoveStep ==
  ASSUME T!Assumptions, T!IInv, NEW k \in Ids, T!DeleteEndorsement(k)
  PROVE  T!IInv'
BY DEF T!IInv, T!TypeOK, T!HighOutOfReach, T!DeleteEndorsement, T!Count, T!Assumptions

(* A PATCH or a toggle is written. *)
LEMMA EndorsementStep ==
  ASSUME T!Assumptions, T!IInv, NEW w \in Workers, T!WritePatch(w) \/ T!WriteToggle(w)
  PROVE  T!IInv'
<1>1. score_job[w] \in T!Job /\ score_job[w].kind \in {"patch", "toggle"}
  BY DEF T!IInv, T!TypeOK, T!WritePatch, T!WriteToggle
<1>2. score_job[w].id \in Ids /\ score_job[w].row \in T!Endorsement
  BY <1>1 DEF T!Job
<1>3. endorsements' \in [Ids -> T!Endorsement \cup {None}]
  <2>1. CASE T!WritePatch(w)
    BY <1>2, <2>1 DEF T!IInv, T!TypeOK, T!WritePatch
  <2>2. CASE T!WriteToggle(w)
    <3>1. score_job[w].row.active \in BOOLEAN
      BY <1>2 DEF T!Endorsement
    <3>2. CASE endorsements[score_job[w].id] = None
      BY <2>2, <3>2 DEF T!IInv, T!TypeOK, T!WriteToggle
    <3>3. CASE endorsements[score_job[w].id] # None
      <4>1. endorsements[score_job[w].id] \in T!Endorsement
        BY <1>2, <3>3 DEF T!IInv, T!TypeOK
      <4>2. [endorsements[score_job[w].id] EXCEPT !.active = score_job[w].row.active] \in T!Endorsement
        BY <3>1, <4>1 DEF T!Endorsement
      <4> QED
        BY <1>2, <2>2, <3>3, <4>2 DEF T!IInv, T!TypeOK, T!WriteToggle
    <3> QED
      BY <3>2, <3>3
  <2> QED
    BY <2>1, <2>2
<1> QED
  BY <1>3 DEF T!IInv, T!TypeOK, T!HighOutOfReach, T!WritePatch, T!WriteToggle, T!Finish

(* FiniteSets as IssuerTrust sees it. *)
LEMMA SameFiniteSets ==
  \A S : T!Cardinality(S) = Cardinality(S) /\ (T!IsFiniteSet(S) <=> IsFiniteSet(S))
BY DEF T!Cardinality, Cardinality, T!IsFiniteSet, IsFiniteSet

(* The answer is computed from the metrics that were read and from the      *)
(* number of endorsements now, whatever it is.                              *)
LEMMA AnswerStep ==
  ASSUME T!Assumptions, T!IInv, NEW w \in Workers, T!Score(w)
  PROVE  T!IInv'
<1> DEFINE j == score_job[w]
           n == Cardinality(T!Endorsing(j.issuer))
           a == [metric |-> j.metric, asked |-> j.asked,
                 level |-> IF j.metric.dated THEN "error"
                           ELSE T!get_trust_level(j.metric, n),
                 meets |-> ~j.metric.dated /\ T!Reaches(j.metric, n, T!Floor[j.asked])]
<1>1. j \in T!Job /\ j.kind = "score"
  BY DEF T!IInv, T!TypeOK, T!Score
<1>2. j.metric \in T!Metric /\ j.asked \in T!Thresholds
  BY <1>1 DEF T!Job
<1>3. n \in Nat
  <2>1. T!Endorsing(j.issuer) \subseteq Ids
    BY DEF T!Endorsing
  <2> QED
    BY <2>1, SameFiniteSets, FS_Subset, FS_CardinalityType DEF T!Assumptions
<1>4. answer' = [answer EXCEPT ![w] = a]
  BY SameFiniteSets DEF T!Score
<1> HIDE DEF n
<1>5. a \in T!Answer
  BY <1>2, LevelTyped DEF T!Answer
<1>6. a.metric.successful <= a.metric.attempted =>
        /\ a.level \notin {"high", "very_high"}
        /\ a.asked \in {"high", "very_high"} => ~a.meets
  <2> SUFFICES ASSUME j.metric.successful <= j.metric.attempted
               PROVE  /\ a.level \notin {"high", "very_high"}
                      /\ a.asked \in {"high", "very_high"} => ~a.meets
    OBVIOUS
  <2>1. a.level \notin {"high", "very_high"}
    BY <1>2, <1>3, LevelsBelowHigh
  <2>2. a.asked \in {"high", "very_high"} => T!Floor[j.asked] \in {T!Floor.high, T!Floor.very_high}
    BY DEF T!Floor
  <2> QED
    BY <1>2, <1>3, <2>1, <2>2, HighNotReached
<1> HIDE DEF a
<1>7. T!TypeOK'
  BY <1>4, <1>5 DEF T!IInv, T!TypeOK, T!Score, T!Finish
<1>8. T!HighOutOfReach'
  BY <1>4, <1>6 DEF T!IInv, T!TypeOK, T!HighOutOfReach
<1> QED
  BY <1>7, <1>8 DEF T!IInv

(* Every step keeps the invariant. *)
LEMMA ScoreStep ==
  ASSUME T!Assumptions, T!IInv, [T!Next]_(T!vars)
  PROVE  T!IInv'
<1>1. CASE UNCHANGED T!vars
  BY <1>1 DEF T!IInv, T!TypeOK, T!HighOutOfReach, T!vars
<1>2. ASSUME NEW w \in Workers, T!Handle(w) PROVE T!IInv'
  BY <1>2, ScoreBeginTyped, ScoreBegin, EndorsementStep, AnswerStep DEF T!Handle, T!IInv
<1> QED
  BY <1>1, <1>2, MetricsStep, CreateStep, RemoveStep DEF T!Next

------------------------------------------------------------------------------
(* The row of a user.                                                       *)

(* Every non-empty set of natural numbers has a least element. *)
LEMMA FirstIndex ==
  ASSUME NEW S, IsFiniteSet(S), S \subseteq Nat, S # {}
  PROVE  A!First(S) \in S
<1> DEFINE N == {0 - k : k \in S}
<1> DEFINE f == [k \in S |-> 0 - k]
<1>0. f \in Surjection(S, N)
  BY DEF Surjection
<1>1. N \subseteq Int /\ N # {}
  <2>1. \A k \in S : 0 - k \in Int
    OBVIOUS
  <2>2. PICK k \in S : TRUE
    OBVIOUS
  <2> QED
    BY <2>1, <2>2
<1> HIDE DEF f
<1>2. PICK m \in N : \A k \in N : k <= m
  <2> HIDE DEF N
  <2>1. IsFiniteSet(N)
    BY <1>0, FS_Surjection
  <2> QED
    BY <1>1, <2>1, GreatestExists
<1>3. PICK i \in S : m = 0 - i
  OBVIOUS
<1>4. ASSUME NEW k \in S PROVE i <= k
  <2>1. 0 - k \in N
    OBVIOUS
  <2>2. 0 - k <= 0 - i
    BY <1>2, <1>3, <2>1
  <2> QED
    BY <2>2
<1> QED
  BY <1>4 DEF A!First

(* What is in a wallet is numbered from one. *)
LEMMA WalletIndices ==
  ASSUME NEW vcs \in A!Wallet
  PROVE  /\ DOMAIN vcs = 1..Len(vcs) /\ Len(vcs) \in Nat
         /\ \A i \in DOMAIN vcs : vcs[i] \in A!Entry
         /\ \A S \in SUBSET DOMAIN vcs : S # {} => A!First(S) \in S
<1>1. /\ DOMAIN vcs = 1..Len(vcs) /\ Len(vcs) \in Nat
      /\ \A i \in DOMAIN vcs : vcs[i] \in A!Entry
  BY DEF A!Wallet
<1>2. IsFiniteSet(DOMAIN vcs)
  BY <1>1, FS_Interval
<1> QED
  BY <1>1, <1>2, FS_Subset, FirstIndex

(* ensure_vcs_migrated changes the format of entries and nothing else. *)
LEMMA MigratedKeeps ==
  ASSUME NEW vcs \in A!Wallet
  PROVE  /\ A!Migrated(vcs) \in A!Wallet
         /\ \A i \in DOMAIN vcs : /\ i \in DOMAIN A!Migrated(vcs)
                                  /\ A!Migrated(vcs)[i].vc = vcs[i].vc
<1> DEFINE f == [i \in DOMAIN vcs |-> [vcs[i] EXCEPT !.wrapped = TRUE]]
<1>0. ASSUME NEW r \in A!Entry
      PROVE  /\ [r EXCEPT !.wrapped = TRUE] \in A!Entry
             /\ [r EXCEPT !.wrapped = TRUE].vc = r.vc
  BY DEF A!Entry
<1>1. \A i \in DOMAIN vcs : /\ [vcs[i] EXCEPT !.wrapped = TRUE] \in A!Entry
                            /\ [vcs[i] EXCEPT !.wrapped = TRUE].vc = vcs[i].vc
  BY <1>0, WalletIndices
<1>2. f \in [1..Len(vcs) -> A!Entry] /\ Len(vcs) \in Nat
  BY <1>1, WalletIndices
<1>3. f \in Seq(A!Entry)
  BY <1>2
<1> QED
  BY <1>1, <1>2, <1>3 DEF A!Migrated, A!Wallet

(* add_vc replaces an entry of the same subject that does not authenticate,  *)
(* or none at all.                                                          *)
LEMMA AddedKeeps ==
  ASSUME A!Assumptions, NEW vcs \in A!Wallet, NEW e \in A!Entry
  PROVE  /\ A!Added(vcs, e) \in A!Wallet
         /\ \A i \in DOMAIN vcs :
              \/ i \in DOMAIN A!Added(vcs, e) /\ A!Added(vcs, e)[i] = vcs[i]
              \/ ~vcs[i].auth /\ vcs[i].subject = e.subject
<1> DEFINE same == A!About(vcs, e.subject)
<1>1. same \subseteq DOMAIN vcs
  BY DEF A!About
<1>2. CASE e.subject # NoSubject /\ same # {} /\ ~vcs[A!First(same)].auth
  <2>1. PICK n \in same : n = A!First(same)
    BY <1>1, <1>2, WalletIndices
  <2>2. A!Added(vcs, e) = [vcs EXCEPT ![n] = e]
    BY <1>2, <2>1 DEF A!Added
  <2>3. vcs \in Seq(A!Entry) /\ n \in 1..Len(vcs)
    BY <1>1, <2>1, WalletIndices DEF A!Wallet
  <2>4. /\ [vcs EXCEPT ![n] = e] \in Seq(A!Entry)
        /\ DOMAIN [vcs EXCEPT ![n] = e] = DOMAIN vcs
        /\ \A i \in DOMAIN vcs : i # n => [vcs EXCEPT ![n] = e][i] = vcs[i]
    BY <2>3
  <2>5. ~vcs[n].auth /\ vcs[n].subject = e.subject
    BY <1>2, <2>1 DEF A!About
  <2> QED
    BY <2>2, <2>4, <2>5 DEF A!Wallet
<1>3. CASE ~(e.subject # NoSubject /\ same # {} /\ ~vcs[A!First(same)].auth)
  <2>1. A!Added(vcs, e) = Append(vcs, e)
    BY <1>3 DEF A!Added
  <2>2. vcs \in Seq(A!Entry)
    BY DEF A!Wallet
  <2>3. /\ Append(vcs, e) \in Seq(A!Entry)
        /\ \A i \in DOMAIN vcs : i \in DOMAIN Append(vcs, e) /\ Append(vcs, e)[i] = vcs[i]
    BY <2>2
  <2> QED
    BY <2>1, <2>3 DEF A!Wallet
<1> QED
  BY <1>2, <1>3

(* Removing one entry keeps the others. *)
LEMMA RemovedKeeps ==
  ASSUME NEW vcs \in A!Wallet, NEW n \in DOMAIN vcs
  PROVE  /\ A!RemoveAt(vcs, n) \in A!Wallet
         /\ \A i \in DOMAIN vcs : i # n =>
              \E k \in DOMAIN A!RemoveAt(vcs, n) : A!RemoveAt(vcs, n)[k] = vcs[i]
<1> DEFINE a == SubSeq(vcs, 1, n - 1)
           b == SubSeq(vcs, n + 1, Len(vcs))
<1>1. /\ vcs \in Seq(A!Entry) /\ Len(vcs) \in Nat /\ n \in 1..Len(vcs)
      /\ DOMAIN vcs = 1..Len(vcs)
  BY WalletIndices DEF A!Wallet
<1>2. /\ a \in Seq(A!Entry) /\ Len(a) = n - 1
      /\ \A i \in 1..(n - 1) : a[i] = vcs[i]
  BY <1>1, SubSeqProperties
<1>3. /\ b \in Seq(A!Entry) /\ Len(b) = Len(vcs) - n
      /\ \A i \in 1..(Len(vcs) - n) : b[i] = vcs[n + i]
  <2>1. n + 1 \in 1..(Len(vcs) + 1) /\ Len(vcs) \in 0..Len(vcs)
        /\ Len(vcs) - (n + 1) + 1 = Len(vcs) - n
    BY <1>1
  <2> QED
    BY <1>1, <2>1, SubSeqProperties
<1>4. A!RemoveAt(vcs, n) = a \o b
  BY DEF A!RemoveAt
<1> HIDE DEF a, b
<1>5. /\ a \o b \in Seq(A!Entry) /\ Len(a \o b) = Len(vcs) - 1
      /\ DOMAIN (a \o b) = 1..(Len(vcs) - 1)
      /\ \A k \in 1..(Len(vcs) - 1) :
           (a \o b)[k] = IF k <= n - 1 THEN a[k] ELSE b[k - (n - 1)]
  <2>1. /\ a \o b \in Seq(A!Entry) /\ Len(a \o b) = Len(a) + Len(b)
        /\ \A k \in 1 .. Len(a) + Len(b) :
             (a \o b)[k] = IF k <= Len(a) THEN a[k] ELSE b[k - Len(a)]
    BY <1>2, <1>3, ConcatProperties
  <2>2. Len(a) + Len(b) = Len(vcs) - 1 /\ Len(a) = n - 1
    BY <1>1, <1>2, <1>3
  <2>3. DOMAIN (a \o b) = 1..Len(a \o b)
    BY <2>1
  <2> QED
    BY <2>1, <2>2, <2>3
<1>6. ASSUME NEW i \in DOMAIN vcs, i # n
      PROVE  \E k \in DOMAIN (a \o b) : (a \o b)[k] = vcs[i]
  <2>1. CASE i < n
    <3>1. i \in 1..(Len(vcs) - 1) /\ i <= n - 1 /\ i \in 1..(n - 1)
      BY <1>1, <2>1
    <3> QED
      BY <1>2, <1>5, <3>1
  <2>2. CASE i > n
    <3>1. /\ i - 1 \in 1..(Len(vcs) - 1) /\ ~(i - 1 <= n - 1)
          /\ i - n \in 1..(Len(vcs) - n) /\ (i - 1) - (n - 1) = i - n
          /\ n + (i - n) = i
      BY <1>1, <2>2
    <3>2. (a \o b)[i - 1] = b[i - n] /\ b[i - n] = vcs[i]
      BY <1>3, <1>5, <3>1
    <3> QED
      BY <1>5, <3>1, <3>2
  <2> QED
    BY <1>1, <1>6, <2>1, <2>2
<1> QED
  BY <1>4, <1>5, <1>6 DEF A!Wallet

(* A request begins with locals that are in order. *)
LEMMA AccountBegin ==
  ASSUME A!Assumptions, A!IInv, NEW w \in Workers,
         NEW s \in A!Steps \ {"idle"}, NEW j \in A!Request, A!JobOK(s, j),
         A!Begin(w, s, j)
  PROVE  A!IInv' /\ user' = user
<1>1. /\ user_step' = [user_step EXCEPT ![w] = s]
      /\ user_job' = [user_job EXCEPT ![w] = j]
      /\ UNCHANGED <<user, sovereign>> /\ user_requests' = user_requests + 1
  BY DEF A!Begin
<1>2. A!TypeOK'
  BY <1>1 DEF A!IInv, A!TypeOK
<1>3. \A u \in Workers : A!JobOK(user_step'[u], user_job'[u])
  BY <1>1 DEF A!IInv, A!TypeOK
<1> QED
  BY <1>1, <1>2, <1>3 DEF A!IInv

(* It writes a row and ends. *)
LEMMA AccountStore ==
  ASSUME A!IInv, NEW w \in Workers, NEW row \in A!User, A!Store(w, row)
  PROVE  A!IInv' /\ user' = row /\ user_step'[w] = "idle"
<1>1. /\ user_step' = [user_step EXCEPT ![w] = "idle"]
      /\ user_job' = [user_job EXCEPT ![w] = None]
      /\ user' = row /\ UNCHANGED <<sovereign, user_requests>>
  BY DEF A!Store
<1>2. A!TypeOK'
  BY <1>1 DEF A!IInv, A!TypeOK, A!Steps
<1>3. \A u \in Workers : A!JobOK(user_step'[u], user_job'[u])
  <2>1. A!JobOK("idle", None)
    BY DEF A!JobOK
  <2> QED
    BY <1>1, <2>1 DEF A!IInv, A!TypeOK
<1> QED
  BY <1>1, <1>2, <1>3 DEF A!IInv, A!TypeOK

(* The five ways a request begins. *)
LEMMA AccountBeginCases ==
  ASSUME A!Assumptions, A!IInv, NEW w \in Workers,
         \/ A!BeginView(w) \/ A!BeginAdd(w) \/ A!BeginDelete(w)
         \/ A!BeginAdmin(w) \/ A!BeginLogin(w)
  PROVE  \E s \in A!Steps \ {"idle"}, j \in A!Request :
           A!JobOK(s, j) /\ A!Begin(w, s, j)
<1>1. user \in A!User /\ user_requests \in Nat
  BY DEF A!IInv, A!TypeOK
<1>2. CASE A!BeginView(w)
  <2> DEFINE j == A!Asked("view", user, None, None)
  <2>1. j \in A!Request /\ A!JobOK("migrate", j)
    BY <1>1 DEF A!Asked, A!Request, A!JobOK
  <2> QED
    BY <1>2, <2>1 DEF A!BeginView, A!Steps
<1>3. CASE A!BeginAdd(w)
  <2> PICK x \in Subjects \cup {NoSubject}, auth \in BOOLEAN :
        A!Begin(w, IF A!Old(user.vcs) THEN "migrate" ELSE "add",
          A!Asked("add", user,
                [vc |-> user_requests + 1, subject |-> x, auth |-> auth, wrapped |-> TRUE],
                None))
    BY <1>3 DEF A!BeginAdd
  <2> DEFINE e == [vc |-> user_requests + 1, subject |-> x, auth |-> auth, wrapped |-> TRUE]
             j == A!Asked("add", user, e, None)
  <2>1. e \in A!Entry
    BY <1>1 DEF A!Entry
  <2> HIDE DEF e
  <2>2. /\ j \in A!Request
        /\ A!JobOK("migrate", j) /\ A!JobOK("add", j)
    BY <1>1, <2>1 DEF A!Asked, A!Request, A!JobOK
  <2>3. CASE A!Old(user.vcs)
    <3>1. A!Begin(w, "migrate", j)
      BY <2>3 DEF e
    <3> QED
      BY <2>2, <3>1 DEF A!Steps
  <2>4. CASE ~A!Old(user.vcs)
    <3>1. A!Begin(w, "add", j)
      BY <2>4 DEF e
    <3> QED
      BY <2>2, <3>1 DEF A!Steps
  <2> QED
    BY <2>3, <2>4
<1>4. CASE A!BeginDelete(w)
  <2> PICK x \in Subjects : /\ A!Deletable(user.vcs, x) # {}
                           /\ A!Begin(w, "delete", A!Asked("delete", user, None, x))
    BY <1>4 DEF A!BeginDelete
  <2> DEFINE j == A!Asked("delete", user, None, x)
  <2>1. j \in A!Request /\ A!JobOK("delete", j)
    BY <1>1 DEF A!Asked, A!Request, A!JobOK
  <2> QED
    BY <2>1 DEF A!Steps
<1>5. CASE A!BeginAdmin(w)
  <2> PICK staff \in BOOLEAN :
        A!Begin(w, "save", A!Asked("admin", [user EXCEPT !.is_staff = staff], None, None))
    BY <1>5 DEF A!BeginAdmin
  <2> DEFINE row == [user EXCEPT !.is_staff = staff]
             j == A!Asked("admin", row, None, None)
  <2>1. row \in A!User /\ row.vcs = user.vcs
    BY <1>1 DEF A!User
  <2> HIDE DEF row
  <2>2. j \in A!Request /\ A!JobOK("save", j)
    BY <1>1, <2>1 DEF A!Asked, A!Request, A!JobOK
  <2> QED
    BY <2>2 DEF A!Steps, row
<1>6. CASE A!BeginLogin(w)
  <2> DEFINE row == [user EXCEPT !.is_staff = TRUE]
             j == A!Asked("login", row, None, None)
  <2>1. row \in A!User /\ row.is_staff
    BY <1>1 DEF A!User
  <2>2. A!Begin(w, "elevate", j)
    BY <1>6 DEF A!BeginLogin
  <2> HIDE DEF row
  <2>3. j \in A!Request /\ A!JobOK("elevate", j)
    BY <1>1, <2>1 DEF A!Asked, A!Request, A!JobOK
  <2> QED
    BY <2>2, <2>3 DEF A!Steps
<1> QED
  BY <1>2, <1>3, <1>4, <1>5, <1>6

(* What the statement of w does to the row when it ends or goes on: what it *)
(* drops it may drop, and it takes is_staff away only if it may.            *)
Wrote(w) ==
  /\ A!IInv'
  /\ user_step[w] # "idle" /\ user_step'[w] # user_step[w]
  /\ \A i \in DOMAIN user.vcs :
       user.vcs[i].vc \notin A!Held(user') => A!MayDrop(w, user.vcs[i])
  /\ user.is_staff /\ ~user'.is_staff =>
       /\ user_step[w] # "elevate"
       /\ user_job[w].kind = "admin" \/ ~user_job[w].read.is_staff

(* The form of a request in the hands of a worker. *)
LEMMA AccountTypes ==
  ASSUME A!IInv, NEW w \in Workers, user_step[w] # "idle"
  PROVE  /\ user_job[w] \in A!Request /\ A!JobOK(user_step[w], user_job[w])
         /\ user_job[w].read \in A!User /\ user_job[w].user \in A!User
         /\ user \in A!User
         /\ user_job[w].read.vcs \in A!Wallet
         /\ user_job[w].read.is_staff \in BOOLEAN
BY DEF A!IInv, A!TypeOK, A!Request, A!User

(* What is kept in place, or anywhere, is still held. *)
LEMMA KeptIsHeld ==
  ASSUME NEW row, NEW x, \E k \in DOMAIN row.vcs : row.vcs[k].vc = x
  PROVE  x \in A!Held(row)
BY DEF A!Held

(* A statement that ends a request with a row that keeps what the request    *)
(* has read, or drops what it may, and the flag it has read, or the form's.  *)
LEMMA AccountWrites ==
  ASSUME A!IInv, NEW w \in Workers, NEW row \in A!User, A!IInv',
         user_step[w] # "idle", user_step'[w] # user_step[w], user' = row,
         user_step[w] # "elevate",
         \A i \in DOMAIN user_job[w].read.vcs :
           \/ \E k \in DOMAIN row.vcs : row.vcs[k].vc = user_job[w].read.vcs[i].vc
           \/ A!MayDrop(w, user_job[w].read.vcs[i]),
         user_job[w].kind = "admin" \/ row.is_staff = user_job[w].read.is_staff
  PROVE  Wrote(w)
<1>1. ASSUME NEW i \in DOMAIN user.vcs, user.vcs[i].vc \notin A!Held(row)
      PROVE  A!MayDrop(w, user.vcs[i])
  <2>1. CASE user_job[w].read # user
    BY <2>1 DEF A!MayDrop, A!Stale
  <2>2. CASE user_job[w].read = user
    BY <1>1, <2>2, KeptIsHeld
  <2> QED
    BY <2>1, <2>2
<1> QED
  BY <1>1 DEF Wrote

(* A migration: of a page view, which ends, or of an import, which goes on.  *)
LEMMA MigrateStep ==
  ASSUME A!Assumptions, A!IInv, NEW w \in Workers, A!Migrate(w)
  PROVE  Wrote(w)
<1> DEFINE j   == user_job[w]
           row == [j.user EXCEPT !.vcs = A!Migrated(@)]
<1>1. /\ user_step[w] = "migrate" /\ j \in A!Request /\ j.user = j.read
      /\ j.user \in A!User /\ j.kind \in {"view", "add"}
      /\ j.kind = "add" => j.entry \in A!Entry
      /\ A!IInv /\ j.user.vcs \in A!Wallet
  BY AccountTypes DEF A!Migrate, A!JobOK
<1>2. /\ row \in A!User /\ row.vcs = A!Migrated(j.user.vcs)
      /\ row.is_staff = j.read.is_staff
  BY <1>1, MigratedKeeps DEF A!User
<1>3. user' = row
  BY DEF A!Migrate
<1>6. \A i \in DOMAIN j.read.vcs :
        \E n \in DOMAIN row.vcs : row.vcs[n].vc = j.read.vcs[i].vc
  BY <1>1, <1>2, MigratedKeeps
<1>4. CASE j.kind = "view"
  <2>1. A!Store(w, row)
    BY <1>3, <1>4 DEF A!Migrate, A!Store
  <2>2. A!IInv' /\ user_step'[w] = "idle"
    BY <1>2, <2>1, AccountStore
  <2> HIDE DEF row
  <2> QED
    BY <1>1, <1>2, <1>3, <1>6, <2>2, AccountWrites
<1>5. CASE j.kind = "add"
  <2> DEFINE k == [j EXCEPT !.user = row, !.read = row]
  <2>1. /\ k \in A!Request /\ k.user = row /\ k.read = row
        /\ k.kind = "add" /\ k.entry = j.entry
    BY <1>1, <1>2, <1>5 DEF A!Request
  <2>2. /\ user_step' = [user_step EXCEPT ![w] = "add"]
        /\ user_job' = [user_job EXCEPT ![w] = k]
        /\ UNCHANGED <<sovereign, user_requests>>
    BY <1>5 DEF A!Migrate
  <2>3. A!JobOK("add", k)
    BY <1>1, <1>5, <2>1 DEF A!JobOK
  <2> HIDE DEF k, row
  <2>4. A!IInv'
    BY <1>2, <1>3, <2>1, <2>2, <2>3 DEF A!IInv, A!TypeOK, A!Steps
  <2>5. user_step'[w] = "add"
    BY <2>2 DEF A!IInv, A!TypeOK
  <2> QED
    BY <1>1, <1>2, <1>3, <1>6, <2>4, <2>5, AccountWrites
<1> QED
  BY <1>1, <1>4, <1>5

(* add_vc saves the wallet. *)
LEMMA AddStep ==
  ASSUME A!Assumptions, A!IInv, NEW w \in Workers, A!AddVC(w)
  PROVE  Wrote(w)
<1> DEFINE j   == user_job[w]
           row == [j.user EXCEPT !.vcs = A!Added(@, j.entry)]
<1>1. /\ user_step[w] = "add" /\ j.user = j.read /\ j.user \in A!User
      /\ j.kind = "add" /\ j.entry \in A!Entry /\ j.user.vcs \in A!Wallet
  BY AccountTypes DEF A!AddVC, A!JobOK
<1>2. /\ row \in A!User /\ row.vcs = A!Added(j.user.vcs, j.entry)
      /\ row.is_staff = j.read.is_staff
  BY <1>1, AddedKeeps DEF A!User
<1>3. A!Store(w, row)
  BY DEF A!AddVC
<1> HIDE DEF row
<1>4. A!IInv' /\ user' = row /\ user_step'[w] = "idle"
  BY <1>2, <1>3, AccountStore
<1>5. ASSUME NEW i \in DOMAIN j.read.vcs
      PROVE  \/ \E k \in DOMAIN row.vcs : row.vcs[k].vc = j.read.vcs[i].vc
             \/ A!MayDrop(w, j.read.vcs[i])
  BY <1>1, <1>2, AddedKeeps DEF A!MayDrop
<1> QED
  BY <1>1, <1>2, <1>4, <1>5, AccountWrites

(* DeleteCredentialView saves the wallet without one entry of the subject. *)
LEMMA DeleteStep ==
  ASSUME A!Assumptions, A!IInv, NEW w \in Workers, A!DeleteVC(w)
  PROVE  Wrote(w)
<1> DEFINE j   == user_job[w]
           S   == A!Deletable(j.user.vcs, j.subject)
           n   == A!First(S)
           row == [j.user EXCEPT !.vcs = A!RemoveAt(@, n)]
<1>1. /\ user_step[w] = "delete" /\ j.user = j.read /\ j.user \in A!User
      /\ j.kind = "delete" /\ S # {} /\ j.user.vcs \in A!Wallet
  <2>1. user_step[w] = "delete"
    BY DEF A!DeleteVC
  <2>2. j.user \in A!User /\ A!JobOK("delete", j)
    BY <2>1, AccountTypes
  <2>3. j.user.vcs \in A!Wallet
    BY <2>2 DEF A!User
  <2>4. j.user = j.read /\ j.kind = "delete" /\ S # {}
    BY <2>2, Zenon DEF A!JobOK
  <2> QED
    BY <2>1, <2>2, <2>3, <2>4
<1>2. /\ n \in DOMAIN j.user.vcs /\ j.user.vcs[n].subject = j.subject
  <2>1. S \in SUBSET DOMAIN j.user.vcs
    BY DEF A!Deletable, A!About
  <2> HIDE DEF S
  <2>2. n \in S
    BY <1>1, <2>1, WalletIndices, Zenon
  <2> USE DEF S
  <2> QED
    BY <2>2, Zenon DEF A!Deletable, A!About
<1>3. A!Store(w, row)
  BY DEF A!DeleteVC
<1> HIDE DEF n
<1>4. /\ row \in A!User /\ row.vcs = A!RemoveAt(j.user.vcs, n)
      /\ row.is_staff = j.read.is_staff
  BY <1>1, <1>2, RemovedKeeps DEF A!User
<1> HIDE DEF row
<1>5. A!IInv' /\ user' = row /\ user_step'[w] = "idle"
  BY <1>3, <1>4, AccountStore
<1>6. ASSUME NEW i \in DOMAIN j.read.vcs
      PROVE  \/ \E k \in DOMAIN row.vcs : row.vcs[k].vc = j.read.vcs[i].vc
             \/ A!MayDrop(w, j.read.vcs[i])
  <2>1. CASE i = n
    BY <1>1, <1>2, <2>1 DEF A!MayDrop
  <2>2. CASE i # n
    <3>1. PICK k \in DOMAIN row.vcs : row.vcs[k] = j.read.vcs[i]
      BY <1>1, <1>2, <1>4, <2>2, RemovedKeeps
    <3> QED
      BY <3>1
  <2> QED
    BY <2>1, <2>2
<1> QED
  BY <1>1, <1>4, <1>5, <1>6, AccountWrites

(* The form of the admin saves every column. *)
LEMMA FormStep ==
  ASSUME A!Assumptions, A!IInv, NEW w \in Workers, A!SaveForm(w)
  PROVE  Wrote(w)
<1>1. /\ user_step[w] = "save" /\ user_job[w].user \in A!User
      /\ user_job[w].kind = "admin" /\ user_job[w].user.vcs = user_job[w].read.vcs
  BY AccountTypes DEF A!SaveForm, A!JobOK
<1>2. A!IInv' /\ user' = user_job[w].user /\ user_step'[w] = "idle"
  BY <1>1, AccountStore DEF A!SaveForm
<1> QED
  BY <1>1, <1>2, AccountWrites

(* A login writes is_staff alone; a request that is killed writes nothing.  *)
LEMMA ElevateStep ==
  ASSUME A!Assumptions, A!IInv, NEW w \in Workers, A!Elevate(w) \/ A!Crash(w)
  PROVE  Wrote(w)
<1> DEFINE row == [user EXCEPT !.is_staff = user_job[w].user.is_staff]
<1>1. user_step[w] # "idle" /\ user \in A!User
  BY AccountTypes DEF A!Elevate, A!Crash, A!IInv, A!TypeOK
<1>2. \A x \in A!User : x.vcs = user.vcs =>
        \A i \in DOMAIN user.vcs : user.vcs[i].vc \in A!Held(x)
  BY KeptIsHeld
<1>3. CASE A!Crash(w)
  <2>1. A!IInv' /\ user' = user /\ user_step'[w] = "idle"
    BY <1>1, <1>3, AccountStore DEF A!Crash
  <2> QED
    BY <1>1, <1>2, <2>1 DEF Wrote
<1>4. CASE A!Elevate(w)
  <2>1. user_step[w] = "elevate" /\ A!Store(w, row)
    BY <1>4 DEF A!Elevate
  <2>2. user_job[w].user.is_staff /\ user_job[w].user.is_staff \in BOOLEAN
    BY <1>1, <2>1, AccountTypes DEF A!JobOK, A!User
  <2>3. row \in A!User /\ row.vcs = user.vcs /\ row.is_staff
    BY <1>1, <2>2 DEF A!User
  <2> HIDE DEF row
  <2>4. A!IInv' /\ user' = row /\ user_step'[w] = "idle"
    BY <2>1, <2>3, AccountStore
  <2> QED
    BY <1>1, <1>2, <2>1, <2>3, <2>4 DEF Wrote
<1> QED
  BY <1>3, <1>4

(* A step begins a request and leaves the row alone, or is a statement. *)
LEMMA AccountCases ==
  ASSUME A!Assumptions, A!IInv, A!Next
  PROVE  \/ A!IInv' /\ user' = user
         \/ \E w \in Workers : Wrote(w)
<1> PICK w \in Workers : A!Handle(w)
  BY DEF A!Next
<1>1. CASE \/ A!BeginView(w) \/ A!BeginAdd(w) \/ A!BeginDelete(w)
          \/ A!BeginAdmin(w) \/ A!BeginLogin(w)
  BY <1>1, AccountBeginCases, AccountBegin
<1>2. CASE \/ A!Migrate(w) \/ A!AddVC(w) \/ A!DeleteVC(w) \/ A!SaveForm(w)
          \/ A!Elevate(w) \/ A!Crash(w)
  BY <1>2, MigrateStep, AddStep, DeleteStep, FormStep, ElevateStep
<1> QED
  BY <1>1, <1>2 DEF A!Handle

(* Every step keeps the invariant. *)
LEMMA AccountStep ==
  ASSUME A!Assumptions, A!IInv, [A!Next]_(A!vars)
  PROVE  A!IInv'
<1>1. CASE UNCHANGED A!vars
  BY <1>1 DEF A!IInv, A!TypeOK, A!vars
<1> QED
  BY <1>1, AccountCases DEF Wrote

(* It holds at the start. *)
LEMMA AccountInit ==
  ASSUME A!Assumptions, A!Init
  PROVE  A!IInv
BY DEF A!Assumptions, A!Init, A!IInv, A!TypeOK, A!JobOK, A!User, A!Steps

------------------------------------------------------------------------------
(* The logins of a session.                                                 *)

(* Only worker w moves. *)
OnlyMoves(w) ==
  \A u \in Workers \ {w} :
    login_step'[u] = login_step[u] /\ login_job'[u] = login_job[u]

(* The attempt of w, if any, has come further. *)
Furthers(w) ==
  LET j == login_job[w] IN
  \/ codes' = codes
  \/ j.kind = "begin" /\ codes' = [codes EXCEPT ![j.attempt] = "sent"]
  \/ j.kind = "callback" /\ codes' = [codes EXCEPT ![j.attempt] = "used"]

(* Rows that hold sessions under their keys, which know attempts that have   *)
(* begun.                                                                  *)
RowsFit(r) ==
  /\ r \in [L!Keys -> L!Session]
  /\ \A k \in L!Keys : /\ r[k] = L!Empty \/ r[k].key = k
                       /\ r[k].oidc_states \subseteq L!Begun

(* Results only become more.                                                *)
ResultsGrow ==
  /\ results' \in [Attempts -> SUBSET L!Results]
  /\ \A a \in Attempts : results[a] \subseteq results'[a]

(* Keys are numbers. *)
LEMMA NoneIsNoKey == ASSUME L!Assumptions PROVE None \notin L!Keys
BY DEF L!Assumptions, L!Keys

(* A session without anything. *)
LEMMA EmptySession ==
  /\ L!Empty \in L!Session /\ L!Empty.oidc_states = {} /\ L!Empty.key = None
  /\ \A k \in L!Keys \cup {None} : [L!Empty EXCEPT !.key = k] \in L!Session
BY DEF L!Empty, L!Session

(* The session of the browser, which a request loads. *)
LEMMA CurrentTyped ==
  ASSUME L!Orderly
  PROVE  /\ L!Current \in L!Session /\ L!Loaded \in L!Session
         /\ L!Current.oidc_states \subseteq L!Begun
         /\ L!Loaded.oidc_states = L!Current.oidc_states
         /\ L!Loaded.pkce_code_verifier = L!Current.pkce_code_verifier
         /\ L!Current.key = cookie
         /\ \/ L!Loaded = L!Current /\ L!Current.key # None
            \/ L!Loaded = L!Empty /\ L!Current = [L!Empty EXCEPT !.key = cookie]
<1>1. /\ rows \in [L!Keys -> L!Session] /\ cookie \in L!Keys \cup {None}
      /\ \A k \in L!Keys : /\ rows[k] = L!Empty \/ rows[k].key = k
                           /\ rows[k].oidc_states \subseteq L!Begun
  BY DEF L!Orderly, L!TypeOK
<1>2. CASE cookie = None \/ rows[cookie] = L!Empty
  <2>1. L!Loaded = L!Empty
    BY <1>2 DEF L!Loaded
  <2>2. L!Current = [L!Empty EXCEPT !.key = cookie]
    BY <2>1 DEF L!Current
  <2> QED
    BY <1>1, <2>1, <2>2 DEF L!Empty, L!Session
<1>3. CASE cookie # None /\ rows[cookie] # L!Empty
  <2>1. L!Loaded = rows[cookie] /\ L!Loaded.key = cookie
    BY <1>1, <1>3 DEF L!Loaded
  <2>2. L!Loaded \in L!Session /\ L!Loaded.oidc_states \subseteq L!Begun
    BY <1>1, <1>3, <2>1
  <2>3. L!Current = L!Loaded
    BY <2>1, <2>2 DEF L!Current, L!Session
  <2> QED
    BY <1>3, <2>1, <2>2, <2>3
<1> QED
  BY <1>2, <1>3

(* A session is stored under its key. *)
LEMMA SessionStored ==
  ASSUME L!Orderly, NEW s \in L!Session, s.key \in L!Keys, s.key # None,
         s.oidc_states \subseteq L!Begun, rows' = [rows EXCEPT ![s.key] = s],
         cookie' \in {cookie, s.key}
  PROVE  /\ RowsFit(rows') /\ cookie' \in L!Keys \cup {None}
         /\ cookie' = s.key => L!Current' = s
         /\ cookie' # s.key => L!Current' = L!Current
<1>1. /\ rows \in [L!Keys -> L!Session] /\ cookie \in L!Keys \cup {None}
      /\ \A k \in L!Keys : /\ rows[k] = L!Empty \/ rows[k].key = k
                           /\ rows[k].oidc_states \subseteq L!Begun
  BY DEF L!Orderly, L!TypeOK
<1>2. RowsFit(rows') /\ cookie' \in L!Keys \cup {None}
  BY <1>1 DEF RowsFit
<1>3. CASE cookie' = s.key
  <2>1. L!Loaded' = s
    BY <1>1, <1>3 DEF L!Loaded
  <2>2. L!Current' = s
    BY <1>3, <2>1 DEF L!Current, L!Session
  <2> QED
    BY <1>2, <1>3, <2>2
<1>4. CASE cookie' # s.key
  <2>1. cookie' = cookie /\ L!Loaded' = L!Loaded
    BY <1>1, <1>4 DEF L!Loaded
  <2> QED
    BY <1>2, <1>4, <2>1 DEF L!Current
<1> QED
  BY <1>2, <1>3, <1>4

(* The row of a session is deleted. *)
LEMMA SessionDeleted ==
  ASSUME L!Orderly, NEW k, rows' = [rows EXCEPT ![k] = L!Empty], cookie' = cookie
  PROVE  /\ RowsFit(rows')
         /\ L!Current' = L!Current \/ L!Current'.oidc_states = {}
<1>1. /\ rows \in [L!Keys -> L!Session] /\ cookie \in L!Keys \cup {None}
      /\ \A i \in L!Keys : /\ rows[i] = L!Empty \/ rows[i].key = i
                           /\ rows[i].oidc_states \subseteq L!Begun
  BY DEF L!Orderly, L!TypeOK
<1>2. RowsFit(rows')
  BY <1>1, EmptySession DEF RowsFit
<1>3. CASE cookie # None /\ cookie = k
  <2>1. L!Loaded' = L!Empty
    BY <1>1, <1>3 DEF L!Loaded
  <2> QED
    BY <1>2, <2>1 DEF L!Current, L!Empty
<1>4. CASE cookie = None \/ cookie # k
  <2>1. L!Loaded' = L!Loaded
    BY <1>1, <1>4 DEF L!Loaded
  <2> QED
    BY <1>2, <2>1 DEF L!Current
<1> QED
  BY <1>3, <1>4

(* The form of a request in the hands of a worker. *)
LEMMA LoginTypes ==
  ASSUME L!Orderly, NEW w \in Workers, login_step[w] # "idle"
  PROVE  /\ login_job[w] \in L!Request /\ L!JobOK(w)
         /\ login_job[w].kind \in {"begin", "callback", "logout", "browse"}
         /\ login_job[w].read \in L!Session /\ login_job[w].session \in L!Session
         /\ login_job[w].kind \in {"begin", "callback"} =>
              /\ login_job[w].attempt \in Attempts
              /\ codes[login_job[w].attempt] # "none"
         /\ login_job[w].kind \in {"logout", "browse"} => login_job[w].attempt = None
BY DEF L!Orderly, L!TypeOK, L!Request, L!JobOK

(* What a statement of w leaves of the other requests. *)
LEMMA OthersKeep ==
  ASSUME L!Orderly, NEW w \in Workers, login_step[w] # "idle",
         OnlyMoves(w), Furthers(w), ResultsGrow,
         login_step'[w] = "idle" \/ login_job'[w].attempt = login_job[w].attempt
  PROVE  /\ L!Begun' = L!Begun
         /\ \A u \in Workers \ {w} : L!JobOK(u)'
         /\ codes' \in [Attempts -> {"none", "begun", "sent", "issued", "used"}]
<1> DEFINE j == login_job[w]
<1>1. /\ codes \in [Attempts -> {"none", "begun", "sent", "issued", "used"}]
      /\ L!JobOK(w) /\ (j.kind \in {"begin", "callback"} => j.attempt \in Attempts)
  BY LoginTypes DEF L!Orderly, L!TypeOK
<1>2. /\ codes' \in [Attempts -> {"none", "begun", "sent", "issued", "used"}]
      /\ \A a \in Attempts : a # j.attempt => codes'[a] = codes[a]
      /\ \A a \in Attempts : (codes'[a] = "none") <=> (codes[a] = "none")
      /\ \A a \in Attempts : codes[a] \in {"issued", "used"} =>
                              codes'[a] \in {"issued", "used"}
  <2>1. CASE codes' = codes
    BY <1>1, <2>1
  <2>2. CASE j.kind = "begin" /\ codes' = [codes EXCEPT ![j.attempt] = "sent"]
    BY <1>1, <2>2, LoginTypes DEF L!JobOK
  <2>3. CASE j.kind = "callback" /\ codes' = [codes EXCEPT ![j.attempt] = "used"]
    BY <1>1, <2>3, LoginTypes DEF L!JobOK
  <2> QED
    BY <2>1, <2>2, <2>3 DEF Furthers
<1>3. L!Begun' = L!Begun
  BY <1>2 DEF L!Begun
<1>4. ASSUME NEW u \in Workers \ {w} PROVE L!JobOK(u)'
  <2>1. L!JobOK(u) /\ login_step'[u] = login_step[u] /\ login_job'[u] = login_job[u]
    BY DEF L!Orderly, OnlyMoves
  <2>2. CASE login_step[u] = "idle"
    BY <2>1, <2>2 DEF L!JobOK
  <2>3. CASE login_step[u] # "idle" /\ login_job[u].kind = "begin"
    <3>1. /\ login_job[u].attempt # j.attempt
          /\ codes'[login_job[u].attempt] = "begun"
      BY <1>2, <2>1, <2>3 DEF L!JobOK
    <3>2. ASSUME NEW v \in Workers \ {u}, login_step'[v] # "idle"
          PROVE  login_job'[v].attempt # login_job'[u].attempt
      <4>1. CASE v = w
        BY <2>1, <3>1, <3>2, <4>1
      <4>2. CASE v # w
        BY <2>1, <2>3, <3>2, <4>2 DEF OnlyMoves, L!JobOK
      <4> QED
        BY <4>1, <4>2
    <3> QED
      BY <1>3, <2>1, <2>3, <3>1, <3>2 DEF L!JobOK
  <2>4. CASE login_step[u] # "idle" /\ login_job[u].kind # "begin"
    BY <1>2, <1>3, <2>1, <2>4 DEF L!JobOK, L!AsRead, ResultsGrow
  <2> QED
    BY <2>2, <2>3, <2>4
<1> QED
  BY <1>2, <1>3, <1>4

(* A request that ends. *)
LEMMA LoginEnds ==
  ASSUME L!Orderly, NEW w \in Workers, login_step[w] # "idle", L!Finish(w),
         Furthers(w), RowsFit(rows'), cookie' \in L!Keys \cup {None}, ResultsGrow,
         \A a \in Attempts : results'[a] = results[a] \/ codes[a] \in {"issued", "used"},
         disturbed' \subseteq Attempts, UNCHANGED <<hook, login_requests>>
  PROVE  L!Orderly' /\ OnlyMoves(w) /\ login_step'[w] = "idle"
<1>1. /\ login_step' = [login_step EXCEPT ![w] = "idle"]
      /\ login_job' = [login_job EXCEPT ![w] = None]
  BY DEF L!Finish
<1>2. OnlyMoves(w) /\ login_step'[w] = "idle" /\ login_job'[w] = None
  BY <1>1 DEF OnlyMoves, L!Orderly, L!TypeOK
<1>3. /\ L!Begun' = L!Begun
      /\ \A u \in Workers \ {w} : L!JobOK(u)'
      /\ codes' \in [Attempts -> {"none", "begun", "sent", "issued", "used"}]
  BY <1>2, OthersKeep
<1>4. L!TypeOK'
  BY <1>1, <1>2, <1>3 DEF L!Orderly, L!TypeOK, L!Steps, RowsFit, ResultsGrow
<1>5. L!JobOK(w)'
  BY <1>2 DEF L!JobOK
<1>6. \A a \in Attempts : codes'[a] \in {"none", "begun", "sent"} => results'[a] = {}
  <2>1. \A a \in Attempts : codes[a] \in {"issued", "used"} =>
                            codes'[a] \in {"issued", "used"}
    BY LoginTypes DEF Furthers, L!JobOK, L!Orderly, L!TypeOK
  <2>2. \A a \in Attempts : codes'[a] \in {"none", "begun", "sent"} =>
                            codes[a] \in {"none", "begun", "sent"}
    BY <2>1 DEF L!Orderly, L!TypeOK
  <2> QED
    BY <2>2 DEF L!Orderly
<1> QED
  BY <1>2, <1>3, <1>4, <1>5, <1>6 DEF L!Orderly, RowsFit

(* A request goes on with a later statement x about the same attempt, as k. *)
GoesOn(w, x, k) ==
  /\ login_step[w] # "idle" /\ x \in L!Steps \ {"idle"} /\ k \in L!Request
  /\ login_step' = [login_step EXCEPT ![w] = x]
  /\ login_job' = [login_job EXCEPT ![w] = k]
  /\ k.attempt = login_job[w].attempt /\ k.kind = login_job[w].kind
  /\ \/ /\ k.kind = "begin" /\ x = "respond" /\ codes' = codes
        /\ k.session.pkce_code_verifier = login_job[w].session.pkce_code_verifier
        /\ k.session.oidc_states = login_job[w].session.oidc_states
     \/ /\ k.kind = "callback" /\ x \in {"exchange", "respond"}
        /\ x = "respond" => results'[k.attempt] # {}
        /\ x = "exchange" => k.session.key \in L!Keys
     \/ k.kind = "logout" /\ x = "respond" /\ codes' = codes
  /\ k.read.oidc_states \cup k.session.oidc_states \subseteq L!Begun
  /\ Furthers(w)
  /\ RowsFit(rows') /\ cookie' \in L!Keys \cup {None} /\ ResultsGrow
  /\ \A a \in Attempts : results'[a] = results[a] \/ codes[a] \in {"issued", "used"}
  /\ disturbed' \subseteq Attempts
  /\ UNCHANGED <<hook, login_requests>>

(* Then all is in order.                                                    *)
LEMMA LoginGoesOn ==
  ASSUME L!Orderly, NEW w \in Workers, NEW x, NEW k, GoesOn(w, x, k)
  PROVE  L!Orderly' /\ OnlyMoves(w) /\ login_step'[w] = x /\ login_job'[w] = k
<1> USE DEF GoesOn
<1>2. OnlyMoves(w) /\ login_step'[w] = x /\ login_job'[w] = k
  BY DEF OnlyMoves, L!Orderly, L!TypeOK
<1>3. /\ L!Begun' = L!Begun
      /\ \A u \in Workers \ {w} : L!JobOK(u)'
      /\ codes' \in [Attempts -> {"none", "begun", "sent", "issued", "used"}]
  BY <1>2, OthersKeep
<1>4. L!TypeOK'
  BY <1>2, <1>3 DEF L!Orderly, L!TypeOK, RowsFit, ResultsGrow
<1>6. /\ \A a \in Attempts : codes[a] \in {"issued", "used"} =>
                              codes'[a] \in {"issued", "used"}
      /\ \A a \in Attempts : codes'[a] \in {"none", "begun", "sent"} => results'[a] = {}
  <2>1. \A a \in Attempts : codes[a] \in {"issued", "used"} =>
                            codes'[a] \in {"issued", "used"}
    BY LoginTypes DEF Furthers, L!JobOK, L!Orderly, L!TypeOK
  <2>2. \A a \in Attempts : codes'[a] \in {"none", "begun", "sent"} =>
                            codes[a] \in {"none", "begun", "sent"}
    BY <2>1 DEF L!Orderly, L!TypeOK
  <2> QED
    BY <2>1, <2>2 DEF L!Orderly
<1>7. L!JobOK(w)'
  <2>1. L!JobOK(w)
    BY LoginTypes
  <2>2. CASE k.kind = "begin"
    <3>1. ASSUME NEW u \in Workers \ {w}, login_step'[u] # "idle"
          PROVE  login_job'[u].attempt # k.attempt
      BY <1>2, <2>1, <2>2, <3>1 DEF L!JobOK, OnlyMoves
    <3> QED
      BY <1>2, <1>3, <2>1, <2>2, <3>1 DEF L!JobOK
  <2>3. CASE k.kind = "callback"
    BY <1>2, <1>3, <1>6, <2>1, <2>3 DEF L!JobOK
  <2>4. CASE k.kind = "logout"
    BY <1>2, <1>3, <2>1, <2>4 DEF L!JobOK
  <2> QED
    BY <2>2, <2>3, <2>4
<1> QED
  BY <1>2, <1>3, <1>4, <1>6, <1>7 DEF L!Orderly, RowsFit

(* Disturbance and results only grow. *)
LEMMA UndecidedBefore ==
  ASSUME NEW a \in Attempts, L!Undecided(a)', L!Begun' = L!Begun,
         disturbed \subseteq disturbed', results[a] \subseteq results'[a]
  PROVE  L!Undecided(a)
BY DEF L!Undecided

(* A statement about another attempt, or about none. *)
LEMMA OtherAttempt ==
  ASSUME L!Orderly, NEW w \in Workers, login_step[w] # "idle", OnlyMoves(w),
         NEW a \in Attempts, L!UndecidedOK(a), login_job[w].attempt # a,
         codes'[a] = codes[a], results'[a] = results[a],
         \/ L!Current' = L!Current
         \/ a \notin L!Current.oidc_states /\ a \notin L!Current'.oidc_states,
         \/ login_step'[w] = "idle"
         \/ /\ login_job'[w].attempt = login_job[w].attempt
            /\ a \notin login_job'[w].read.oidc_states
                     \cup login_job'[w].session.oidc_states
  PROVE  L!UndecidedOK(a)'
<1>1. ASSUME NEW u \in Workers, login_step'[u] # "idle", login_job'[u].attempt = a
      PROVE  login_step'[u] = login_step[u] /\ login_job'[u] = login_job[u]
  BY <1>1 DEF OnlyMoves
<1>2. L!Exchanging(a)' = L!Exchanging(a)
  BY <1>1 DEF L!Exchanging, OnlyMoves
<1>3. ASSUME NEW u \in Workers, login_step'[u] # "idle",
             login_job'[u].kind # "browse", login_job'[u].attempt # a
      PROVE  a \notin login_job'[u].read.oidc_states \cup login_job'[u].session.oidc_states
  BY <1>3 DEF OnlyMoves, L!UndecidedOK
<1>4. a \in L!Current'.oidc_states => L!Current'.pkce_code_verifier = a
  BY DEF L!UndecidedOK
<1>5. \A u \in L!Exchanging(a)' : login_job'[u].code_verifier = a
  BY <1>1, <1>2 DEF L!UndecidedOK, L!Exchanging
<1>6. \A u \in Workers : login_step'[u] = "respond" /\ login_job'[u].attempt = a
                           /\ login_job'[u].kind = "callback"
                           => a \notin login_job'[u].session.oidc_states
  BY <1>1 DEF L!UndecidedOK
<1>7. L!Waits(a) => L!Waits(a)'
  BY <1>1 DEF L!Waits
<1> QED
  BY <1>2, <1>3, <1>4, <1>5, <1>6, <1>7 DEF L!UndecidedOK

(* A statement of the request that begins the attempt. *)
LEMMA OwnBegin ==
  ASSUME L!Orderly, NEW w \in Workers, login_step[w] # "idle", OnlyMoves(w),
         NEW a \in Attempts, L!UndecidedOK(a), login_job[w].attempt = a,
         login_job[w].kind = "begin",
         \/ login_step'[w] = "idle"
         \/ /\ login_step'[w] = "respond" /\ login_job'[w].attempt = a
            /\ login_job'[w].kind = "begin",
         a \in L!Current'.oidc_states => L!Current'.pkce_code_verifier = a,
         \/ codes'[a] = "begun"
         \/ /\ codes'[a] = "sent" /\ login_step'[w] = "idle"
            /\ a \in L!Current'.oidc_states /\ "refused" \notin results'[a]
  PROVE  L!UndecidedOK(a)'
<1>1. ASSUME NEW u \in Workers, login_step'[u] # "idle", login_job'[u].attempt = a
      PROVE  u = w
  BY <1>1, LoginTypes DEF OnlyMoves, L!JobOK
<1>2. L!Exchanging(a)' = {}
  BY <1>1 DEF L!Exchanging
<1>3. ASSUME NEW u \in Workers, login_step'[u] # "idle",
             login_job'[u].kind # "browse", login_job'[u].attempt # a
      PROVE  a \notin login_job'[u].read.oidc_states \cup login_job'[u].session.oidc_states
  BY <1>3 DEF OnlyMoves, L!UndecidedOK
<1>4. \A u \in Workers : login_step'[u] = "respond" /\ login_job'[u].attempt = a
                           /\ login_job'[u].kind = "callback"
                           => a \notin login_job'[u].session.oidc_states
  BY <1>1
<1>5. codes'[a] = "sent" => L!Waits(a)'
  BY <1>1 DEF L!Waits
<1> QED
  BY <1>2, <1>3, <1>4, <1>5 DEF L!UndecidedOK

(* A refused callback answers: another callback of its undecided attempt is  *)
(* at the provider.                                                         *)
LEMMA OwnAnswered ==
  ASSUME L!Orderly, NEW w \in Workers, login_step[w] = "respond", OnlyMoves(w),
         NEW a \in Attempts, login_job[w].attempt = a, login_job[w].kind = "callback",
         L!Undecided(a), L!UndecidedOK(a), login_step'[w] = "idle",
         UNCHANGED <<codes, results>>,
         L!Current' = L!Current \/ a \notin L!Current'.oidc_states
  PROVE  L!UndecidedOK(a)'
<1>1. "refused" \in results[a] /\ codes[a] \in {"issued", "used"}
  <2>1. results[a] # {} /\ results[a] \subseteq L!Results /\ codes[a] \in {"issued", "used"}
    BY DEF L!Orderly, L!TypeOK, L!JobOK
  <2> QED
    BY <2>1 DEF L!Undecided, L!Results
<1>2. L!Exchanging(a) # {}
  BY <1>1 DEF L!UndecidedOK, L!Waits
<1>3. L!Exchanging(a)' = L!Exchanging(a)
  BY DEF L!Exchanging, OnlyMoves
<1>4. ASSUME NEW u \in Workers, login_step'[u] # "idle"
      PROVE  login_step'[u] = login_step[u] /\ login_job'[u] = login_job[u]
  BY <1>4 DEF OnlyMoves
<1>5. \A u \in L!Exchanging(a)' : login_job'[u].code_verifier = a
  BY <1>3, <1>4 DEF L!UndecidedOK, L!Exchanging
<1>6. a \in L!Current'.oidc_states => L!Current'.pkce_code_verifier = a
  BY DEF L!UndecidedOK
<1> QED
  BY <1>2, <1>3, <1>4, <1>5, <1>6 DEF L!UndecidedOK

(* What a request has in hand when it runs a statement.                     *)
LEMMA StatementFacts ==
  ASSUME L!Assumptions, L!IInv, NEW w \in Workers, login_step[w] # "idle"
  PROVE  LET j == login_job[w] IN
         /\ L!Orderly /\ hook \in BOOLEAN /\ None \notin L!Keys
         /\ rows \in [L!Keys -> L!Session] /\ cookie \in L!Keys \cup {None}
         /\ RowsFit(rows)
         /\ j \in L!Request /\ j.read \in L!Session /\ j.session \in L!Session
         /\ j.number \in L!Keys /\ j.session.key \in L!Keys \cup {None}
         /\ j.read.oidc_states \cup j.session.oidc_states \subseteq L!Begun
         /\ j.kind \in {"begin", "callback", "logout", "browse"}
         /\ codes \in [Attempts -> {"none", "begun", "sent", "issued", "used"}]
         /\ results \in [Attempts -> SUBSET L!Results]
         /\ disturbed \subseteq Attempts /\ L!Begun \subseteq Attempts
         /\ login_step[w] \in {"state", "exchange"} => j.kind = "callback"
         /\ j.kind = "callback" =>
              j.attempt \in Attempts /\ codes[j.attempt] \in {"issued", "used"}
<1>1. login_job[w] \in L!Request /\ L!Orderly /\ L!TypeOK /\ L!JobOK(w)
  BY LoginTypes DEF L!IInv, L!Orderly
<1>2. RowsFit(rows)
  BY <1>1 DEF L!Orderly, L!TypeOK, RowsFit
<1>3. None \notin L!Keys
  BY NoneIsNoKey
<1>4. L!Begun \subseteq Attempts
  BY DEF L!Begun
<1> QED
  BY <1>1, <1>2, <1>3, <1>4 DEF L!TypeOK, L!JobOK, L!Request, L!Session

(* The request is over, or goes on with its own attempt and with sessions    *)
(* that know no other than it has known.                                   *)
Continues(w) ==
  \/ login_step'[w] = "idle"
  \/ /\ login_job'[w].attempt = login_job[w].attempt
     /\ login_job[w].kind # "browse"
     /\ login_job'[w].read.oidc_states \cup login_job'[w].session.oidc_states
          \subseteq login_job[w].read.oidc_states \cup login_job[w].session.oidc_states

(* The browser's session is as it was, or comes from what the request has in *)
(* hand; a plain read brings back what it has read.                        *)
Seen(w) ==
  LET j == login_job[w] IN
  \/ L!Current' = L!Current
  \/ /\ L!Note(w)
     /\ L!Current'.oidc_states \subseteq j.read.oidc_states \cup j.session.oidc_states
     /\ j.kind = "browse" /\ L!Current = j.read =>
          \/ L!Current' = L!Current
          \/ L!Current.oidc_states = {} /\ L!Current'.oidc_states = {}

(* Its own attempt, if still undecided, is as it should be.                 *)
OwnKept(w) ==
  \A a \in Attempts :
    login_job[w].attempt = a /\ L!Undecided(a) /\ L!Undecided(a)' /\ L!UndecidedOK(a)
      => L!UndecidedOK(a)'

(* Then so are all others.                                                  *)
LEMMA LoginStatement ==
  ASSUME L!Assumptions, L!IInv, NEW w \in Workers, login_step[w] # "idle",
         L!Orderly', OnlyMoves(w), Furthers(w), Continues(w), Seen(w), OwnKept(w),
         disturbed' = disturbed \/ L!Note(w), ResultsGrow,
         \A a \in Attempts : results'[a] # results[a] => login_job[w].attempt = a
  PROVE  L!IInv'
<1> DEFINE j == login_job[w]
<1>1. L!Begun' = L!Begun /\ disturbed \subseteq disturbed'
  <2>1. login_step'[w] = "idle" \/ login_job'[w].attempt = login_job[w].attempt
    BY DEF Continues
  <2> QED
    BY <2>1, StatementFacts, OthersKeep DEF L!Note
<1>2. ASSUME NEW a \in Attempts, L!Undecided(a)' PROVE L!UndecidedOK(a)'
  <2>1. L!Undecided(a) /\ L!UndecidedOK(a)
    BY <1>1, <1>2, UndecidedBefore DEF L!IInv, ResultsGrow
  <2>2. CASE j.attempt = a
    BY <1>2, <2>1, <2>2 DEF OwnKept
  <2>3. CASE j.attempt # a
    <3>1. j.kind # "browse" => a \notin j.read.oidc_states \cup j.session.oidc_states
      BY <2>1, <2>3 DEF L!UndecidedOK
    <3>2. \/ L!Current' = L!Current
          \/ a \notin L!Current.oidc_states /\ a \notin L!Current'.oidc_states
      <4>1. L!Note(w) => L!Current = j.read
        BY <1>1, <1>2 DEF L!Undecided, L!Note
      <4> QED
        BY <3>1, <4>1 DEF Seen
    <3>3. codes'[a] = codes[a]
      BY <2>3, StatementFacts DEF Furthers
    <3>4. results'[a] = results[a]
      BY <2>3
    <3>5. \/ login_step'[w] = "idle"
          \/ /\ login_job'[w].attempt = login_job[w].attempt
             /\ a \notin login_job'[w].read.oidc_states
                      \cup login_job'[w].session.oidc_states
      BY <3>1 DEF Continues
    <3> QED
      BY <2>1, <2>3, <3>2, <3>3, <3>4, <3>5, OtherAttempt, StatementFacts
  <2> QED
    BY <2>2, <2>3
<1> QED
  BY <1>2 DEF L!IInv

(* A request that ends and stores nothing. *)
LEMMA EndsWithoutSaving ==
  ASSUME L!Assumptions, L!IInv, NEW w \in Workers, login_step[w] # "idle", L!Finish(w),
         UNCHANGED <<rows, cookie, codes, disturbed, hook, login_requests>>, ResultsGrow,
         \A a \in Attempts : results'[a] # results[a] =>
           login_job[w].kind = "callback" /\ login_job[w].attempt = a,
         login_job[w].kind = "callback" => OwnKept(w)
  PROVE  L!IInv'
<1> DEFINE j == login_job[w]
<1>1. /\ \A a \in Attempts : results'[a] = results[a] \/ codes[a] \in {"issued", "used"}
      /\ RowsFit(rows') /\ cookie' \in L!Keys \cup {None} /\ disturbed' \subseteq Attempts
      /\ Furthers(w) /\ L!Orderly
  BY StatementFacts DEF Furthers
<1>2. L!Orderly' /\ OnlyMoves(w) /\ login_step'[w] = "idle"
  BY <1>1, LoginEnds
<1>3. L!Current' = L!Current
  BY DEF L!Current, L!Loaded
<1>4. OwnKept(w)
  <2>1. CASE j.kind = "begin"
    <3>1. ASSUME NEW a \in Attempts, j.attempt = a, L!UndecidedOK(a) PROVE L!UndecidedOK(a)'
      <4>1. codes'[a] = "begun"
        BY <2>1, <3>1, LoginTypes, StatementFacts DEF L!JobOK
      <4>2. a \in L!Current'.oidc_states => L!Current'.pkce_code_verifier = a
        BY <1>3, <3>1 DEF L!UndecidedOK
      <4> QED
        BY <1>1, <1>2, <2>1, <3>1, <4>1, <4>2, OwnBegin
    <3> QED
      BY <3>1 DEF OwnKept
  <2>2. CASE j.kind \in {"logout", "browse"}
    <3>1. j.attempt = None
      BY <1>1, <2>2, LoginTypes
    <3> QED
      BY <3>1 DEF OwnKept, L!Assumptions
  <2> QED
    BY <2>1, <2>2, StatementFacts
<1> QED
  BY <1>1, <1>2, <1>3, <1>4, LoginStatement DEF Continues, Seen

(* A request that goes on with statement x, as k.                           *)
LEMMA LoginContinues ==
  ASSUME L!Assumptions, L!IInv, NEW w \in Workers, NEW x, NEW k, GoesOn(w, x, k),
         k.kind # "browse",
         k.read.oidc_states \cup k.session.oidc_states
           \subseteq login_job[w].read.oidc_states \cup login_job[w].session.oidc_states,
         Seen(w), disturbed' = disturbed \/ L!Note(w),
         \A a \in Attempts : results'[a] # results[a] => login_job[w].attempt = a,
         OnlyMoves(w) /\ login_step'[w] = x /\ login_job'[w] = k => OwnKept(w)
  PROVE  L!IInv'
<1>1. L!Orderly' /\ OnlyMoves(w) /\ login_step'[w] = x /\ login_job'[w] = k
  BY LoginGoesOn DEF L!IInv
<1>2. /\ login_step[w] # "idle" /\ Furthers(w) /\ ResultsGrow
      /\ k.attempt = login_job[w].attempt /\ k.kind = login_job[w].kind
  BY DEF GoesOn
<1>3. Continues(w)
  BY <1>1, <1>2 DEF Continues
<1> QED
  BY <1>1, <1>2, <1>3, LoginStatement

(* Rows change but to sessions that know only S. *)
LEMMA CurrentFrom ==
  ASSUME L!Orderly, cookie' = cookie, RowsFit(rows'), NEW S,
         \A k \in L!Keys : rows'[k] = rows[k] \/ rows'[k].oidc_states \subseteq S
  PROVE  L!Current' = L!Current \/ L!Current'.oidc_states \subseteq S
<1>1. CASE cookie = None
  <2>1. L!Loaded' = L!Loaded
    BY <1>1 DEF L!Loaded
  <2> QED
    BY <2>1 DEF L!Current
<1>2. CASE cookie # None
  <2>1. cookie \in L!Keys /\ L!Loaded = rows[cookie] /\ L!Loaded' = rows'[cookie]
    BY <1>2 DEF L!Loaded, L!Orderly, L!TypeOK
  <2>2. CASE rows'[cookie] = rows[cookie]
    BY <2>1, <2>2 DEF L!Current
  <2>3. CASE rows'[cookie].oidc_states \subseteq S
    <3>1. L!Current'.oidc_states = L!Loaded'.oidc_states
      BY <2>1 DEF L!Current, RowsFit, L!Session
    <3> QED
      BY <2>1, <2>3, <3>1
  <2> QED
    BY <2>1, <2>2, <2>3
<1> QED
  BY <1>1, <1>2

(* A crash of a worker. *)
LEMMA CrashStep ==
  ASSUME L!Assumptions, L!IInv, NEW w \in Workers, L!Crash(w)
  PROVE  L!IInv'
<1>1. /\ login_step[w] # "idle" /\ L!Finish(w)
      /\ UNCHANGED <<rows, cookie, codes, hook, disturbed, login_requests>>
  BY DEF L!Crash
<1>2. CASE login_job[w].kind = "callback"
  <2>1. PICK a \in Attempts : /\ login_job[w].attempt = a
                              /\ results' = [results EXCEPT ![a] = @ \cup {"killed"}]
    BY <1>1, <1>2, StatementFacts DEF L!Crash, L!Ended
  <2>2. OwnKept(w)
    BY <1>1, <2>1, StatementFacts DEF L!Undecided, OwnKept
  <2>3. ResultsGrow /\ \A b \in Attempts : results'[b] = results[b] \/ b = a
    BY <1>1, <2>1, StatementFacts DEF ResultsGrow, L!Results
  <2> QED
    BY <1>1, <1>2, <2>1, <2>2, <2>3, EndsWithoutSaving
<1>3. CASE login_job[w].kind # "callback"
  <2>1. results' = results /\ ResultsGrow
    BY <1>1, <1>3, StatementFacts DEF L!Crash, ResultsGrow
  <2> QED
    BY <1>1, <1>3, <2>1, EndsWithoutSaving
<1> QED
  BY <1>2, <1>3

(* save() of the begin view. *)
LEMMA SaveBeginStep ==
  ASSUME L!Assumptions, L!IInv, NEW w \in Workers, L!SaveBegin(w)
  PROVE  L!IInv'
<1> DEFINE j == login_job[w]
           s == L!Keyed(w, j.session)
           r == IF j.session.key = None THEN j.read ELSE s
           k == [j EXCEPT !.read = r, !.session = s]
<1>1. /\ login_step[w] = "save" /\ L!Orderly /\ j.kind = "begin" /\ j.attempt \in Attempts
      /\ UNCHANGED <<cookie, codes, hook, results, login_requests>> /\ Furthers(w)
      /\ j.session.pkce_code_verifier = j.attempt /\ codes[j.attempt] = "begun"
      /\ ResultsGrow
  BY LoginTypes, StatementFacts DEF L!SaveBegin, L!JobOK, Furthers, ResultsGrow
<1>2. CASE L!Saves(w)
  <2>1. /\ rows' = [rows EXCEPT ![s.key] = s] /\ L!Note(w)
        /\ login_step' = [login_step EXCEPT ![w] = "respond"]
        /\ login_job' = [login_job EXCEPT ![w] = k]
    BY <1>2 DEF L!SaveBegin, L!Save
  <2>2. /\ s \in L!Session /\ s.key \in L!Keys /\ s.key # None
        /\ s.oidc_states = j.session.oidc_states
        /\ s.pkce_code_verifier = j.session.pkce_code_verifier
    <3>1. CASE j.session.key = None
      BY <1>1, <3>1, StatementFacts DEF L!Keyed, L!Session
    <3>2. CASE j.session.key # None
      BY <1>1, <3>2, StatementFacts DEF L!Keyed, L!Session
    <3> QED
      BY <3>1, <3>2
  <2> HIDE DEF s
  <2>3. /\ k \in L!Request /\ k.session = s /\ k.attempt = j.attempt /\ k.kind = j.kind
        /\ k.read.oidc_states \subseteq j.read.oidc_states \cup j.session.oidc_states
    <3>1. r \in L!Session
          /\ r.oidc_states \subseteq j.read.oidc_states \cup j.session.oidc_states
      BY <1>1, <2>2, StatementFacts
    <3> HIDE DEF r
    <3> QED
      BY <1>1, <2>2, <3>1, StatementFacts DEF L!Request
  <2> HIDE DEF k
  <2>4. /\ RowsFit(rows') /\ cookie' \in L!Keys \cup {None}
        /\ L!Current' = s \/ L!Current' = L!Current
    BY <1>1, <2>1, <2>2, SessionStored, StatementFacts
  <2>5. GoesOn(w, "respond", k)
    <3>1. disturbed' \subseteq Attempts
      BY <1>1, <2>1, StatementFacts DEF L!Note
    <3>2. k.read.oidc_states \cup k.session.oidc_states \subseteq L!Begun
      BY <1>1, <2>2, <2>3, StatementFacts
    <3> QED
      BY <1>1, <2>1, <2>2, <2>3, <2>4, <3>1, <3>2 DEF GoesOn, L!Steps
  <2>6. Seen(w)
    BY <1>1, <2>1, <2>2, <2>4 DEF Seen
  <2>7. ASSUME OnlyMoves(w), login_step'[w] = "respond", login_job'[w] = k PROVE OwnKept(w)
    <3>1. ASSUME NEW a \in Attempts, j.attempt = a, L!UndecidedOK(a) PROVE L!UndecidedOK(a)'
      <4>1. a \in L!Current'.oidc_states => L!Current'.pkce_code_verifier = a
        BY <1>1, <2>2, <2>4, <3>1 DEF L!UndecidedOK
      <4> QED
        BY <1>1, <2>3, <2>7, <3>1, <4>1, OwnBegin
    <3> QED
      BY <3>1 DEF OwnKept
  <2> QED
    BY <1>1, <2>1, <2>2, <2>3, <2>5, <2>6, <2>7, LoginContinues
<1>3. CASE ~L!Saves(w)
  <2>1. L!Finish(w) /\ UNCHANGED <<rows, disturbed>>
    BY <1>3 DEF L!SaveBegin
  <2> QED
    BY <1>1, <2>1, EndsWithoutSaving
<1> QED
  BY <1>2, <1>3

(* A callback that has not taken the state of its undecided attempt is       *)
(* refused only when another has taken it.                                  *)
LEMMA RefusedForState ==
  ASSUME L!Assumptions, L!IInv, NEW w \in Workers, login_step[w] = "state",
         NEW a \in Attempts, login_job[w].attempt = a, L!UndecidedOK(a),
         a \notin login_job[w].session.oidc_states \/ ~L!Saves(w),
         OnlyMoves(w), UNCHANGED <<rows, cookie, codes>>,
         \/ login_step'[w] = "idle"
         \/ /\ login_step'[w] = "respond" /\ login_job'[w] = login_job[w]
            /\ a \notin login_job[w].session.oidc_states
  PROVE  L!UndecidedOK(a)'
<1> DEFINE j == login_job[w]
<1>1. j.kind = "callback" /\ codes[a] \in {"issued", "used"} /\ L!Orderly
  BY StatementFacts
<1>2. L!Current' = L!Current
  BY DEF L!Current, L!Loaded
<1>3. ~L!Waits(a)
  <2>1. SUFFICES ASSUME L!Waits(a) PROVE FALSE
    OBVIOUS
  <2>2. j.session = L!Current /\ a \in j.session.oidc_states /\ ~L!Saves(w)
    BY <2>1 DEF L!Waits
  <2>3. L!Loaded # L!Empty /\ cookie # None /\ j.session.key = cookie
    BY <1>1, <2>2, CurrentTyped, EmptySession DEF L!Loaded
  <2> QED
    BY <2>2, <2>3 DEF L!Saves, L!Loaded
<1>4. L!Exchanging(a)' = L!Exchanging(a) /\ L!Exchanging(a) # {}
  <2>1. \A u \in Workers : (login_step'[u] = "exchange") <=> (login_step[u] = "exchange")
    BY DEF OnlyMoves
  <2>2. \A u \in Workers : login_step[u] = "exchange" => login_job'[u] = login_job[u]
    BY DEF OnlyMoves
  <2> QED
    BY <1>1, <1>3, <2>1, <2>2 DEF L!Exchanging, L!UndecidedOK
<1>5. \A u \in L!Exchanging(a)' : login_job'[u].code_verifier = a
  BY <1>4 DEF OnlyMoves, L!UndecidedOK, L!Exchanging
<1>6. ASSUME NEW u \in Workers, login_step'[u] # "idle"
      PROVE  login_job'[u] = login_job[u] /\ login_step[u] # "idle"
  BY <1>6 DEF OnlyMoves
<1>7. ASSUME NEW u \in Workers, login_step'[u] = "respond", login_job'[u].attempt = a,
             login_job'[u].kind = "callback"
      PROVE  a \notin login_job'[u].session.oidc_states
  BY <1>7 DEF OnlyMoves, L!UndecidedOK
<1> QED
  BY <1>2, <1>4, <1>5, <1>6, <1>7 DEF L!UndecidedOK

(* The library refuses the state. *)
LEMMA MissStateStep ==
  ASSUME L!Assumptions, L!IInv, NEW w \in Workers, L!MissState(w)
  PROVE  L!IInv'
<1> DEFINE j == login_job[w]
<1>1. PICK a \in Attempts : j.attempt = a /\ codes[a] \in {"issued", "used"}
  BY StatementFacts DEF L!MissState
<1>2. /\ login_step[w] = "state" /\ a \notin j.session.oidc_states
      /\ j.kind = "callback" /\ j \in L!Request
      /\ results' = [results EXCEPT ![a] = @ \cup {"refused"}]
      /\ login_step' = [login_step EXCEPT ![w] = "respond"]
      /\ login_job' = [login_job EXCEPT ![w] = j]
      /\ UNCHANGED <<rows, cookie, codes, hook, disturbed, login_requests>>
  BY <1>1, StatementFacts DEF L!MissState, L!Ended, L!Orderly, L!TypeOK
<1>3. L!Current' = L!Current /\ Furthers(w)
  BY <1>2 DEF L!Current, L!Loaded, Furthers
<1>4. /\ ResultsGrow /\ results'[a] # {}
      /\ \A b \in Attempts : results'[b] # results[b] => b = a
  BY <1>2, StatementFacts DEF ResultsGrow, L!Results
<1>5. GoesOn(w, "respond", j)
  BY <1>1, <1>2, <1>3, <1>4, StatementFacts DEF GoesOn, L!Steps
<1>6. ASSUME OnlyMoves(w), login_step'[w] = "respond", login_job'[w] = j PROVE OwnKept(w)
  BY <1>1, <1>2, <1>6, RefusedForState DEF OwnKept
<1> QED
  BY <1>1, <1>2, <1>3, <1>4, <1>5, <1>6, LoginContinues DEF Seen

(* The state is taken out of the session. *)
LEMMA TakeStateStep ==
  ASSUME L!Assumptions, L!IInv, NEW w \in Workers, L!TakeState(w)
  PROVE  L!IInv'
<1> DEFINE j == login_job[w]
<1>1. PICK a \in Attempts : j.attempt = a /\ codes[a] \in {"issued", "used"}
  BY StatementFacts DEF L!TakeState
<1>2. /\ login_step[w] = "state" /\ a \in j.session.oidc_states
      /\ j.kind = "callback" /\ j \in L!Request /\ L!Orderly
      /\ UNCHANGED <<cookie, codes, hook, login_requests>> /\ Furthers(w)
  BY <1>1, StatementFacts DEF L!TakeState, Furthers
<1>3. CASE ~L!Saves(w)
  <2>1. /\ L!Finish(w) /\ UNCHANGED <<rows, disturbed>>
        /\ results' = [results EXCEPT ![a] = @ \cup {"refused"}]
    BY <1>1, <1>3 DEF L!TakeState, L!Ended
  <2>2. ResultsGrow /\ \A b \in Attempts : results'[b] # results[b] => b = a
    BY <1>2, <2>1, StatementFacts DEF ResultsGrow, L!Results
  <2>3. OwnKept(w)
    <3>1. OnlyMoves(w) /\ login_step'[w] = "idle"
      BY <1>2, <2>1 DEF OnlyMoves, L!Finish, L!Orderly, L!TypeOK
    <3> QED
      BY <1>1, <1>2, <1>3, <2>1, <3>1, RefusedForState DEF OwnKept
  <2> QED
    BY <1>1, <1>2, <2>1, <2>2, <2>3, EndsWithoutSaving
<1>4. CASE L!Saves(w)
  <2> DEFINE local == [j.session EXCEPT !.oidc_states = @ \ {a}]
             verifier == IF hook THEN local.pkce_code_verifier ELSE a
             k == [j EXCEPT !.read = local, !.session = L!Popped(local),
                            !.code_verifier = verifier]
  <2>1. /\ rows' = [rows EXCEPT ![local.key] = local] /\ L!Note(w)
        /\ login_step' = [login_step EXCEPT ![w] = "exchange"]
        /\ login_job' = [login_job EXCEPT ![w] = k]
        /\ results' = results
    BY <1>1, <1>2, <1>4 DEF L!TakeState, L!Save
  <2>2. j.session = j.read /\ j.session.key \in L!Keys /\ j.session.key # None
    <3>1. L!AsRead(j) /\ j.session # L!Empty
      BY <1>2, EmptySession DEF L!Orderly, L!JobOK
    <3> QED
      BY <1>2, <3>1, StatementFacts DEF L!AsRead
  <2>3. /\ local \in L!Session /\ local.key = j.session.key
        /\ local.oidc_states = j.session.oidc_states \ {a}
        /\ local.pkce_code_verifier = j.session.pkce_code_verifier
    BY <1>2, StatementFacts DEF L!Session
  <2> HIDE DEF local
  <2>4. /\ L!Popped(local) \in L!Session /\ L!Popped(local).key = local.key
        /\ L!Popped(local).oidc_states = local.oidc_states
        /\ verifier \in Attempts \cup {None}
    BY <2>3, StatementFacts DEF L!Session, L!Popped
  <2>5. verifier = a \/ verifier = j.session.pkce_code_verifier
    BY <2>3
  <2> HIDE DEF verifier
  <2>6. /\ k \in L!Request /\ k.attempt = a /\ k.kind = "callback"
        /\ k.read.oidc_states = j.session.oidc_states \ {a}
        /\ k.session.oidc_states = j.session.oidc_states \ {a}
        /\ k.session.key \in L!Keys /\ k.code_verifier = verifier
    BY <1>1, <1>2, <2>2, <2>3, <2>4 DEF L!Request
  <2> HIDE DEF k
  <2>7. /\ RowsFit(rows') /\ cookie' \in L!Keys \cup {None}
        /\ cookie = local.key => L!Current' = local
        /\ cookie # local.key => L!Current' = L!Current
    <3>1. local.oidc_states \subseteq L!Begun
      BY <1>2, <2>3, StatementFacts
    <3> QED
      BY <1>2, <2>1, <2>2, <2>3, <3>1, SessionStored
  <2>8. GoesOn(w, "exchange", k)
    <3>1. disturbed' \subseteq Attempts /\ ResultsGrow
      BY <1>2, <2>1, StatementFacts DEF L!Note, ResultsGrow
    <3>2. k.read.oidc_states \cup k.session.oidc_states \subseteq L!Begun
      BY <1>2, <2>6, StatementFacts
    <3> QED
      BY <1>1, <1>2, <2>1, <2>6, <2>7, <3>1, <3>2 DEF GoesOn, L!Steps
  <2>9. Seen(w)
    BY <1>2, <2>1, <2>3, <2>7 DEF Seen
  <2>10. ASSUME OnlyMoves(w), login_step'[w] = "exchange", login_job'[w] = k,
                L!Undecided(a), L!Undecided(a)', L!UndecidedOK(a)
         PROVE  L!UndecidedOK(a)'
    <3>1. L!Current = j.session
      BY <2>1, <2>2, <2>10 DEF L!Undecided, L!Note
    <3>2. L!Current' = local /\ a \notin L!Current'.oidc_states
      BY <1>2, <2>3, <2>7, <3>1, CurrentTyped
    <3>3. verifier = a
      BY <1>2, <2>5, <2>10, <3>1 DEF L!UndecidedOK
    <3>4. w \in L!Exchanging(a)'
      BY <2>6, <2>10 DEF L!Exchanging
    <3>5. \A u \in L!Exchanging(a)' : login_job'[u].code_verifier = a
      BY <2>6, <2>10, <3>3 DEF L!Exchanging, OnlyMoves, L!UndecidedOK
    <3>6. ASSUME NEW u \in Workers, login_step'[u] # "idle",
                 login_job'[u].kind # "browse", login_job'[u].attempt # a
          PROVE  a \notin login_job'[u].read.oidc_states
                        \cup login_job'[u].session.oidc_states
      BY <2>6, <2>10, <3>6 DEF OnlyMoves, L!UndecidedOK
    <3>7. \A u \in Workers : login_step'[u] = "respond" /\ login_job'[u].attempt = a
                             /\ login_job'[u].kind = "callback"
                             => a \notin login_job'[u].session.oidc_states
      BY <2>10 DEF OnlyMoves, L!UndecidedOK
    <3> QED
      BY <1>2, <2>10, <3>2, <3>4, <3>5, <3>6, <3>7 DEF L!UndecidedOK
  <2>11. OnlyMoves(w) /\ login_step'[w] = "exchange" /\ login_job'[w] = k => OwnKept(w)
    BY <1>1, <2>10 DEF OwnKept
  <2> QED
    BY <1>1, <2>1, <2>6, <2>8, <2>9, <2>11, LoginContinues
<1> QED
  BY <1>3, <1>4

(* A callback that ends at the provider, with statement x and as k: its own  *)
(* attempt is decided, or was not undecided in order.                       *)
LEMMA ExchangeEnds ==
  ASSUME L!Assumptions, L!IInv, NEW w \in Workers, login_step[w] = "exchange",
         NEW a \in Attempts, login_job[w].attempt = a, NEW result \in L!Results,
         results' = [results EXCEPT ![a] = @ \cup {result}],
         result \in {"ok", "failed", "killed"} \/ ~L!UndecidedOK(a),
         codes' \in {codes, [codes EXCEPT ![a] = "used"]}, RowsFit(rows'),
         NEW k \in L!Request, k.attempt = a, k.kind = "callback",
         k.read.oidc_states \cup k.session.oidc_states
           \subseteq login_job[w].read.oidc_states \cup login_job[w].session.oidc_states,
         login_step' = [login_step EXCEPT ![w] = "respond"],
         login_job' = [login_job EXCEPT ![w] = k],
         Seen(w), disturbed' = disturbed \/ L!Note(w),
         UNCHANGED <<cookie, hook, login_requests>>
  PROVE  L!IInv'
<1> DEFINE j == login_job[w]
<1>1. j.kind = "callback" /\ codes[a] \in {"issued", "used"} /\ Furthers(w)
  BY StatementFacts DEF Furthers
<1>2. /\ ResultsGrow /\ results'[a] # {} /\ result \in results'[a]
      /\ \A b \in Attempts : results'[b] # results[b] => b = a
  <2>1. results \in [Attempts -> SUBSET L!Results]
    BY StatementFacts
  <2> QED
    BY <2>1 DEF ResultsGrow
<1>3. disturbed' \subseteq Attempts /\ cookie' \in L!Keys \cup {None}
  BY <1>1, StatementFacts DEF L!Note
<1>4. GoesOn(w, "respond", k)
  <2>1. k.read.oidc_states \cup k.session.oidc_states \subseteq L!Begun
    BY <1>1, StatementFacts
  <2>2. \A b \in Attempts : results'[b] = results[b] \/ codes[b] \in {"issued", "used"}
    BY <1>1, <1>2
  <2> QED
    BY <1>1, <1>2, <1>3, <2>1, <2>2 DEF GoesOn, L!Steps
<1>5. OwnKept(w)
  BY <1>2 DEF OwnKept, L!Undecided
<1> QED
  BY <1>1, <1>2, <1>4, <1>5, LoginContinues

(* The login, which its own attempt does not outlive undecided. *)
LEMMA LogInStep ==
  ASSUME L!Assumptions, L!IInv, NEW w \in Workers, L!LogIn(w)
  PROVE  L!IInv'
<1> DEFINE j == login_job[w]
           moved == [j.session EXCEPT !.key = j.number, !.user = TRUE]
           gone == [L!Empty EXCEPT !.key = j.session.key]
           deleted == [rows EXCEPT ![j.session.key] = L!Empty]
           fresh == [L!Empty EXCEPT !.user = TRUE]
<1>1. PICK a \in Attempts : j.attempt = a /\ codes[a] \in {"issued", "used"}
  BY StatementFacts DEF L!LogIn
<1>2. /\ login_step[w] = "exchange" /\ j.kind = "callback" /\ j \in L!Request
      /\ codes' = [codes EXCEPT ![a] = "used"] /\ L!Orderly
      /\ results' = [results EXCEPT ![a] = @ \cup {"ok"}] /\ "ok" \in L!Results
      /\ login_step' = [login_step EXCEPT ![w] = "respond"]
      /\ UNCHANGED <<cookie, hook, login_requests>>
  BY <1>1, StatementFacts DEF L!LogIn, L!Ended, L!Results
<1>3. /\ j.session.key \in L!Keys /\ j.number \in L!Keys
      /\ RowsFit(rows) /\ j.session.oidc_states \subseteq L!Begun
  BY <1>2, StatementFacts DEF L!Orderly, L!JobOK
<1>4. /\ moved \in L!Session /\ moved.key = j.number
      /\ moved.oidc_states = j.session.oidc_states
      /\ gone \in L!Session /\ gone.oidc_states = {}
      /\ fresh \in L!Session /\ fresh.oidc_states = {}
  BY <1>2, <1>3, StatementFacts DEF L!Session, L!Empty
<1>5. RowsFit(deleted) /\ \A i \in L!Keys : deleted[i] = rows[i] \/ deleted[i] = L!Empty
  BY <1>3, EmptySession DEF RowsFit
<1> HIDE DEF moved, gone, deleted, fresh
<1>6. ASSUME NEW s \in {moved, fresh}, RowsFit(rows'),
             login_job' = [login_job EXCEPT ![w] = [j EXCEPT !.read = gone, !.session = s]],
             L!Note(w), L!Current' = L!Current \/ L!Current'.oidc_states \subseteq s.oidc_states
      PROVE  L!IInv'
  <2> DEFINE k == [j EXCEPT !.read = gone, !.session = s]
  <2>1. s \in L!Session /\ s.oidc_states \subseteq j.session.oidc_states
    BY <1>4
  <2>2. /\ k \in L!Request /\ k.attempt = a /\ k.kind = "callback"
        /\ k.read = gone /\ k.session = s
    BY <1>1, <1>2, <1>4, <2>1 DEF L!Request
  <2> HIDE DEF k
  <2>3. Seen(w)
    BY <1>2, <1>6, <2>1 DEF Seen
  <2>4. k.read.oidc_states \cup k.session.oidc_states
          \subseteq j.read.oidc_states \cup j.session.oidc_states
    BY <1>4, <2>1, <2>2
  <2>5. login_job' = [login_job EXCEPT ![w] = k]
    BY <1>6 DEF k
  <2> QED
    BY <1>1, <1>2, <1>6, <2>2, <2>3, <2>4, <2>5, ExchangeEnds
<1>7. CASE rows' = [deleted EXCEPT ![j.number] = moved] /\ L!Deleted(w, moved)
  <2>1. RowsFit(rows')
    BY <1>3, <1>4, <1>5, <1>7 DEF RowsFit
  <2>2. \A i \in L!Keys : rows'[i] = rows[i] \/ rows'[i].oidc_states \subseteq moved.oidc_states
    BY <1>3, <1>5, <1>7, EmptySession DEF RowsFit
  <2> QED
    BY <1>2, <1>6, <1>7, <2>1, <2>2, CurrentFrom DEF L!Deleted, gone
<1>8. CASE UNCHANGED <<rows, login_job, disturbed>>
  <2>1. login_job' = [login_job EXCEPT ![w] = j] /\ L!Current' = L!Current
    BY <1>2, <1>8 DEF L!Orderly, L!TypeOK, L!Current, L!Loaded
  <2> QED
    BY <1>1, <1>2, <1>3, <1>8, <2>1, ExchangeEnds DEF Seen
<1>9. CASE rows' = deleted /\ L!Deleted(w, fresh)
  <2>1. \A i \in L!Keys : rows'[i] = rows[i] \/ rows'[i].oidc_states \subseteq fresh.oidc_states
    BY <1>4, <1>5, <1>9, EmptySession
  <2> QED
    BY <1>2, <1>5, <1>6, <1>9, <2>1, CurrentFrom DEF L!Deleted, gone
<1> QED
  BY <1>7, <1>8, <1>9 DEF L!LogIn, moved, deleted, fresh

(* The callback ends at the provider for another reason; an undecided        *)
(* attempt has its verifier, and its code has not been used.                *)
LEMMA FailStep ==
  ASSUME L!Assumptions, L!IInv, NEW w \in Workers, L!Fail(w) \/ L!TokenError(w)
  PROVE  L!IInv'
<1>1. PICK a \in Attempts :
        login_job[w].attempt = a /\ codes[a] \in {"issued", "used"}
  BY StatementFacts DEF L!Fail, L!TokenError
<1>2. PICK result \in {"failed", "refused"} :
        /\ L!Ended(result, a)
        /\ result = "failed" \/ L!TokenError(w)
  BY <1>1 DEF L!Fail, L!TokenError
<1>3. /\ login_step[w] = "exchange" /\ login_job[w].kind = "callback"
      /\ login_job[w] \in L!Request /\ result \in L!Results
      /\ codes' \in {codes, [codes EXCEPT ![a] = "used"]}
      /\ results' = [results EXCEPT ![a] = @ \cup {result}]
      /\ login_step' = [login_step EXCEPT ![w] = "respond"]
      /\ login_job' = [login_job EXCEPT ![w] = login_job[w]]
      /\ UNCHANGED <<rows, cookie, hook, disturbed, login_requests>>
  BY <1>1, <1>2, StatementFacts
     DEF L!Fail, L!TokenError, L!Ended, L!Orderly, L!TypeOK, L!Results
<1>4. RowsFit(rows') /\ L!Current' = L!Current
  BY <1>3, StatementFacts DEF L!Current, L!Loaded
<1>5. result \in {"ok", "failed", "killed"} \/ ~L!UndecidedOK(a)
  <2>1. w \in L!Exchanging(a)
    BY <1>1, <1>3 DEF L!Exchanging
  <2> QED
    BY <1>1, <1>2, <2>1 DEF L!UndecidedOK, L!TokenError
<1> QED
  BY <1>1, <1>3, <1>4, <1>5, ExchangeEnds DEF Seen

(* A logout deletes the session. *)
LEMMA FlushStep ==
  ASSUME L!Assumptions, L!IInv, NEW w \in Workers, L!Flush(w)
  PROVE  L!IInv'
<1> DEFINE j == login_job[w]
           gone == [L!Empty EXCEPT !.key = j.session.key]
           k == [j EXCEPT !.read = gone, !.session = L!Empty]
<1>1. /\ login_step[w] = "flush" /\ rows' = [rows EXCEPT ![j.session.key] = L!Empty]
      /\ L!Note(w) /\ login_job' = [login_job EXCEPT ![w] = k]
      /\ login_step' = [login_step EXCEPT ![w] = "respond"]
      /\ UNCHANGED <<cookie, codes, hook, results, login_requests>>
  BY DEF L!Flush, L!Deleted
<1>2. j.kind = "logout" /\ j.attempt = None /\ L!Orderly /\ j \in L!Request
  BY <1>1, StatementFacts DEF L!Orderly, L!JobOK
<1>3. gone \in L!Session /\ gone.oidc_states = {}
  BY <1>1, StatementFacts DEF L!Session, L!Empty
<1> HIDE DEF gone
<1>4. /\ k \in L!Request /\ k.kind = "logout" /\ k.attempt = None
      /\ k.read.oidc_states = {} /\ k.session.oidc_states = {}
  BY <1>2, <1>3, EmptySession DEF L!Request
<1> HIDE DEF k
<1>5. RowsFit(rows') /\ (L!Current' = L!Current \/ L!Current'.oidc_states = {})
  BY <1>1, <1>2, SessionDeleted
<1>6. GoesOn(w, "respond", k)
  <2>1. disturbed' \subseteq Attempts /\ cookie' \in L!Keys \cup {None}
    BY <1>1, StatementFacts DEF L!Note
  <2>2. ResultsGrow
    BY <1>1, StatementFacts DEF ResultsGrow
  <2>3. Furthers(w)
    BY <1>1 DEF Furthers
  <2> QED
    BY <1>1, <1>2, <1>4, <1>5, <2>1, <2>2, <2>3 DEF GoesOn, L!Steps
<1>7. Seen(w)
  BY <1>1, <1>2, <1>5 DEF Seen
<1>8. OwnKept(w)
  BY <1>2 DEF OwnKept, L!Assumptions
<1> QED
  BY <1>1, <1>4, <1>6, <1>7, <1>8, LoginContinues

(* The end of a request, which stores its copy of the session.              *)
LEMMA RespondStep ==
  ASSUME L!Assumptions, L!IInv, NEW w \in Workers, L!Respond(w)
  PROVE  L!IInv'
<1> DEFINE j == login_job[w]
           s == L!Keyed(w, j.session)
<1>1. /\ login_step[w] = "respond" /\ L!Finish(w) /\ L!Orderly /\ L!JobOK(w)
      /\ UNCHANGED <<hook, results, login_requests>> /\ ResultsGrow
  BY StatementFacts DEF L!Respond, ResultsGrow, L!Orderly
<1>2. CASE j.session # L!Empty /\ L!Saves(w)
  <2>1. /\ rows' = [rows EXCEPT ![s.key] = s] /\ L!Note(w) /\ cookie' = s.key
        /\ codes' = IF j.kind = "begin" THEN [codes EXCEPT ![j.attempt] = "sent"]
                    ELSE codes
    BY <1>2 DEF L!Respond, L!Save
  <2>2. /\ s \in L!Session /\ s.key \in L!Keys /\ s.key # None
        /\ s.oidc_states = j.session.oidc_states
        /\ s.pkce_code_verifier = j.session.pkce_code_verifier
        /\ j.session.key # None => s = j.session
    <3>1. CASE j.session.key = None
      BY <1>1, <3>1, StatementFacts DEF L!Keyed, L!Session
    <3>2. CASE j.session.key # None
      BY <1>1, <3>2, StatementFacts DEF L!Keyed, L!Session
    <3> QED
      BY <3>1, <3>2
  <2> HIDE DEF s
  <2>3. RowsFit(rows') /\ cookie' \in L!Keys \cup {None} /\ L!Current' = s
    <3>1. s.oidc_states \subseteq L!Begun
      BY <1>1, <2>2, StatementFacts
    <3> QED
      BY <1>1, <2>1, <2>2, <3>1, SessionStored
  <2>4. Furthers(w) /\ disturbed' \subseteq Attempts
    BY <1>1, <2>1, StatementFacts DEF Furthers, L!Note
  <2>5. L!Orderly' /\ OnlyMoves(w) /\ login_step'[w] = "idle"
    BY <1>1, <2>3, <2>4, LoginEnds
  <2>6. Seen(w)
    <3>1. j.kind = "browse" => j.session = j.read /\ s = j.session
      BY <1>1, <1>2, <2>2 DEF L!JobOK, L!AsRead
    <3> QED
      BY <2>1, <2>2, <2>3, <3>1 DEF Seen
  <2>7. ASSUME NEW a \in Attempts, j.attempt = a, L!Undecided(a), L!UndecidedOK(a)
        PROVE  L!UndecidedOK(a)'
    <3>1. CASE j.kind = "begin"
      <4>1. codes[a] = "begun" /\ a \in j.session.oidc_states
            /\ j.session.pkce_code_verifier = a
        BY <1>1, <2>7, <3>1 DEF L!JobOK
      <4>2. codes'[a] = "sent" /\ "refused" \notin results'[a]
        <5>1. codes'[a] = "sent"
          BY <1>1, <2>1, <2>7, <3>1, StatementFacts
        <5>2. results[a] = {}
          BY <1>1, <4>1 DEF L!Orderly
        <5> QED
          BY <1>1, <5>1, <5>2
      <4> QED
        BY <1>1, <2>2, <2>3, <2>5, <2>7, <3>1, <4>1, <4>2, OwnBegin
    <3>2. CASE j.kind = "callback"
      <4>1. codes' = codes /\ a \notin L!Current'.oidc_states
        BY <1>1, <2>1, <2>2, <2>3, <2>7, <3>2 DEF L!UndecidedOK
      <4> QED
        BY <1>1, <2>5, <2>7, <3>2, <4>1, OwnAnswered
    <3>3. CASE j.kind \in {"logout", "browse"}
      BY <1>1, <2>7, <3>3, LoginTypes DEF L!Assumptions
    <3> QED
      BY <1>1, <3>1, <3>2, <3>3, StatementFacts
  <2>8. OwnKept(w)
    BY <2>7 DEF OwnKept
  <2> QED
    BY <1>1, <2>1, <2>4, <2>5, <2>6, <2>8, LoginStatement DEF Continues
<1>3. CASE ~(j.session # L!Empty /\ L!Saves(w))
  <2>1. UNCHANGED <<rows, codes>> /\ Furthers(w)
    BY <1>3 DEF L!Respond, Furthers
  <2>2. \/ UNCHANGED <<cookie, disturbed>>
        \/ j.session = L!Empty /\ cookie' = None /\ L!Note(w)
    BY <1>3 DEF L!Respond
  <2>3. CASE UNCHANGED <<cookie, disturbed>>
    <3>1. ASSUME j.kind = "callback" PROVE OwnKept(w)
      <4>1. OnlyMoves(w) /\ login_step'[w] = "idle" /\ L!Current' = L!Current
        BY <1>1, <2>1, <2>3
           DEF OnlyMoves, L!Finish, L!Orderly, L!TypeOK, L!Current, L!Loaded
      <4> QED
        BY <1>1, <2>1, <3>1, <4>1, OwnAnswered DEF OwnKept
    <3> QED
      BY <1>1, <2>1, <2>3, <3>1, EndsWithoutSaving
  <2>4. CASE j.session = L!Empty /\ cookie' = None /\ L!Note(w)
    <3>1. L!Current'.oidc_states = {}
      BY <2>4 DEF L!Current, L!Loaded, L!Empty
    <3>2. RowsFit(rows') /\ cookie' \in L!Keys \cup {None} /\ disturbed' \subseteq Attempts
      BY <1>1, <2>1, <2>4, StatementFacts DEF L!Note
    <3>3. L!Orderly' /\ OnlyMoves(w) /\ login_step'[w] = "idle"
      BY <1>1, <2>1, <3>2, LoginEnds
    <3>4. Seen(w)
      <4>1. j.kind = "browse" => j.read.oidc_states = {}
        BY <1>1, <2>4, EmptySession DEF L!JobOK, L!AsRead, L!Empty
      <4> QED
        BY <2>4, <3>1, <4>1 DEF Seen
    <3>5. OwnKept(w)
      <4>1. j.kind # "begin"
        BY <1>1, <2>4, EmptySession DEF L!JobOK
      <4>2. CASE j.kind = "callback"
        BY <1>1, <2>1, <3>1, <3>3, <4>2, OwnAnswered DEF OwnKept
      <4>3. CASE j.kind \in {"logout", "browse"}
        BY <1>1, <4>3, LoginTypes DEF OwnKept, L!Assumptions
      <4> QED
        BY <1>1, <4>1, <4>2, <4>3, StatementFacts
    <3> QED
      BY <1>1, <2>1, <2>4, <3>3, <3>4, <3>5, LoginStatement DEF Continues
  <2> QED
    BY <2>2, <2>3, <2>4
<1> QED
  BY <1>2, <1>3

(* The user agrees at the provider. *)
LEMMA IssueStep ==
  ASSUME L!Assumptions, L!IInv, NEW a \in Attempts, L!Issue(a)
  PROVE  L!IInv'
<1>1. /\ codes[a] = "sent" /\ codes' = [codes EXCEPT ![a] = "issued"]
      /\ UNCHANGED <<rows, cookie, login_step, login_job, hook, results, disturbed,
                     login_requests>>
      /\ L!Orderly
  BY DEF L!Issue, L!IInv
<1>2. /\ codes' \in [Attempts -> {"none", "begun", "sent", "issued", "used"}]
      /\ codes'[a] = "issued" /\ \A b \in Attempts \ {a} : codes'[b] = codes[b]
  BY <1>1 DEF L!Orderly, L!TypeOK
<1>3. L!Begun' = L!Begun
  BY <1>1, <1>2 DEF L!Begun
<1>4. ASSUME NEW w \in Workers PROVE L!JobOK(w)'
  <2>1. L!JobOK(w)
    BY <1>1 DEF L!Orderly
  <2> QED
    BY <1>1, <1>2, <1>3, <2>1 DEF L!JobOK
<1>5. L!TypeOK'
  BY <1>1, <1>2 DEF L!Orderly, L!TypeOK
<1>6. L!Orderly'
  BY <1>1, <1>2, <1>3, <1>4, <1>5 DEF L!Orderly
<1>7. ASSUME NEW b \in Attempts, L!Undecided(b)' PROVE L!UndecidedOK(b)'
  <2>1. L!UndecidedOK(b)
    BY <1>1, <1>3, <1>7, UndecidedBefore DEF L!IInv
  <2>0. L!Current' = L!Current
    BY <1>1 DEF L!Current, L!Loaded
  <2>2. L!Exchanging(b)' = L!Exchanging(b) /\ (L!Waits(b) => L!Waits(b)')
    BY <1>1, <2>0 DEF L!Exchanging, L!Waits
  <2>3. codes'[b] # "used" /\ (codes[b] = "begun" => codes'[b] = "begun")
    BY <1>1, <1>2, <2>1 DEF L!UndecidedOK
  <2> QED
    BY <1>1, <2>0, <2>1, <2>2, <2>3 DEF L!UndecidedOK
<1> QED
  BY <1>6, <1>7 DEF L!IInv

------------------------------------------------------------------------------
(* No other worker is at the beginning of the attempt. *)
NotBeginning(w, a) ==
  \A u \in Workers \ {w} :
    login_step[u] # "idle" /\ login_job[u].kind = "begin" => login_job[u].attempt # a

(* Nothing happens to the codes but that a begins. *)
MayBegin(a) ==
  codes' = codes \/ (codes[a] = "none" /\ codes' = [codes EXCEPT ![a] = "begun"])

(* What is there before a request. *)
LEMMA Receiving ==
  ASSUME L!Assumptions, L!IInv
  PROVE  /\ L!Orderly /\ None \notin Attempts
         /\ L!Current \in L!Session /\ L!Loaded \in L!Session
         /\ L!Current.oidc_states \subseteq L!Begun
         /\ L!Loaded.oidc_states = L!Current.oidc_states
         /\ \/ L!Loaded = L!Current /\ L!Current.key # None
            \/ L!Loaded = L!Empty /\ L!Current = [L!Empty EXCEPT !.key = cookie]
         /\ codes \in [Attempts -> {"none", "begun", "sent", "issued", "used"}]
<1>1. L!Orderly
  BY DEF L!IInv
<1> QED
  BY <1>1, CurrentTyped DEF L!Orderly, L!TypeOK, L!Assumptions

(* A worker that takes a request: what the others hold is as it was.        *)
LEMMA ReceiveKeeps ==
  ASSUME L!Assumptions, L!IInv, NEW w \in Workers,
         NEW kind \in {"begin", "callback", "logout", "browse"},
         NEW a \in Attempts \cup {None}, NEW s \in L!Steps \ {"idle"}, NEW local \in L!Session,
         L!Receive(w, kind, a, s, local), NotBeginning(w, a), MayBegin(a),
         kind \in {"begin", "callback"} <=> a \in Attempts
  PROVE  /\ L!TypeOK' /\ OnlyMoves(w)
         /\ login_step[w] = "idle" /\ login_step'[w] = s
         /\ login_job'[w].kind = kind /\ login_job'[w].attempt = a
         /\ login_job'[w].read = L!Current /\ login_job'[w].session = local
         /\ L!Begun \subseteq L!Begun' /\ L!Begun' \subseteq L!Begun \cup {a}
         /\ L!Current' = L!Current /\ RowsFit(rows)'
         /\ UNCHANGED <<rows, cookie, hook, results>>
         /\ \A b \in Attempts : codes'[b] \in {"none", "begun", "sent"} => results'[b] = {}
         /\ \A u \in Workers \ {w} : L!JobOK(u)'
         /\ disturbed' = disturbed \cup (IF kind = "browse" THEN {} ELSE L!Begun \ {a})
<1> DEFINE k == [kind |-> kind, number |-> login_requests + 1, attempt |-> a,
                 read |-> L!Current, session |-> local, code_verifier |-> None]
<1>1. /\ login_step[w] = "idle" /\ login_requests' = login_requests + 1
      /\ login_requests < LoginRequests
      /\ login_step' = [login_step EXCEPT ![w] = s]
      /\ login_job' = [login_job EXCEPT ![w] = k]
      /\ UNCHANGED <<rows, cookie, hook, results>>
      /\ disturbed' = disturbed \cup (IF kind = "browse" THEN {} ELSE L!Begun \ {a})
  BY DEF L!Receive
<1>2. L!Orderly /\ L!TypeOK
  BY DEF L!IInv, L!Orderly
<1>3. login_requests + 1 \in L!Keys
  BY <1>1, <1>2 DEF L!TypeOK, L!Keys, L!Assumptions
<1>4. k \in L!Request
  BY <1>3, Receiving DEF L!Request
<1>5. /\ codes' \in [Attempts -> {"none", "begun", "sent", "issued", "used"}]
      /\ \A b \in Attempts : codes[b] # "none" => codes'[b] = codes[b]
      /\ \A b \in Attempts : codes'[b] # codes[b] => b = a
      /\ \A b \in Attempts : codes'[b] \in {"none", "begun", "sent"} =>
                              codes[b] \in {"none", "begun", "sent"}
  BY <1>2 DEF L!TypeOK, MayBegin, L!Assumptions
<1>6. L!Begun \subseteq L!Begun' /\ L!Begun' \subseteq L!Begun \cup {a}
      /\ L!Begun \subseteq Attempts
  BY <1>5 DEF L!Begun
<1> HIDE DEF k
<1>7. login_step'[w] = s /\ login_job'[w] = k /\ OnlyMoves(w)
  BY <1>1, <1>2 DEF L!TypeOK, OnlyMoves
<1>8. L!TypeOK'
  BY <1>1, <1>2, <1>3, <1>4, <1>5, <1>6, <1>7 DEF L!TypeOK, OnlyMoves
<1>9. \A b \in Attempts : codes'[b] \in {"none", "begun", "sent"} => results'[b] = {}
  BY <1>1, <1>2, <1>5 DEF L!Orderly
<1>10. L!Current' = L!Current /\ RowsFit(rows)'
  <2>1. RowsFit(rows)
    BY <1>2 DEF L!Orderly, L!TypeOK, RowsFit
  <2> QED
    BY <1>1, <1>6, <2>1 DEF L!Current, L!Loaded, RowsFit
<1>11. ASSUME NEW u \in Workers \ {w} PROVE L!JobOK(u)'
  <2>1. L!JobOK(u) /\ login_step'[u] = login_step[u] /\ login_job'[u] = login_job[u]
    BY <1>2, <1>7 DEF L!Orderly, OnlyMoves
  <2>2. CASE login_step[u] = "idle"
    BY <2>1, <2>2 DEF L!JobOK
  <2>3. CASE login_step[u] # "idle" /\ login_job[u].kind = "begin"
    <3>1. \A v \in Workers \ {u} :
            login_step'[v] # "idle" => login_job'[v].attempt # login_job[u].attempt
      <4>1. login_job'[w].attempt # login_job[u].attempt
        BY <1>7, <2>3 DEF k, NotBeginning
      <4> QED
        BY <1>7, <2>1, <2>3, <4>1 DEF OnlyMoves, L!JobOK
    <3> QED
      BY <1>5, <1>6, <2>1, <2>3, <3>1 DEF L!JobOK
  <2>4. CASE login_step[u] # "idle" /\ login_job[u].kind # "begin"
    BY <1>1, <1>5, <1>6, <2>1, <2>4 DEF L!JobOK, L!AsRead
  <2> QED
    BY <2>2, <2>3, <2>4
<1> QED
  BY <1>1, <1>6, <1>7, <1>8, <1>9, <1>10, <1>11 DEF k

(* A login begins: every other attempt is disturbed, and no copy of the     *)
(* session knows the new one.                                               *)
LEMMA BeginStep ==
  ASSUME L!Assumptions, L!IInv, NEW w \in Workers, L!Begin(w)
  PROVE  L!IInv'
<1>1. PICK a \in Attempts : /\ codes[a] = "none"
                            /\ L!Receive(w, "begin", a, "save", L!Prepared(a))
                            /\ codes' = [codes EXCEPT ![a] = "begun"]
  BY DEF L!Begin
<1>2. /\ L!Prepared(a) \in L!Session
      /\ L!Prepared(a).oidc_states = L!Current.oidc_states \cup {a}
      /\ L!Prepared(a).pkce_code_verifier = a
  BY Receiving DEF L!Prepared, L!Session
<1>3. codes'[a] = "begun" /\ L!Begun' = L!Begun \cup {a} /\ a \notin L!Begun
  BY <1>1, Receiving DEF L!Begun
<1>4. \A u \in Workers : login_step[u] # "idle" =>
        /\ login_job[u].attempt # a
        /\ a \notin login_job[u].read.oidc_states \cup login_job[u].session.oidc_states
  BY <1>1, <1>3, Receiving DEF L!Orderly, L!JobOK, L!TypeOK, L!Request
<1>5. PICK local \in L!Session :
        /\ L!Receive(w, "begin", a, "save", local)
        /\ local.oidc_states = L!Current.oidc_states \cup {a}
        /\ local.pkce_code_verifier = a
  BY <1>1, <1>2
<1>6. /\ L!TypeOK' /\ OnlyMoves(w)
      /\ login_step[w] = "idle" /\ login_step'[w] = "save"
      /\ login_job'[w].kind = "begin" /\ login_job'[w].attempt = a
      /\ login_job'[w].read = L!Current /\ login_job'[w].session = local
      /\ L!Current' = L!Current /\ RowsFit(rows)'
      /\ \A b \in Attempts : codes'[b] \in {"none", "begun", "sent"} => results'[b] = {}
      /\ \A u \in Workers \ {w} : L!JobOK(u)'
      /\ disturbed' = disturbed \cup (L!Begun \ {a})
  <2>1. /\ L!Receive(w, "begin", a, "save", local) /\ NotBeginning(w, a) /\ MayBegin(a)
    BY <1>1, <1>4, <1>5 DEF NotBeginning, MayBegin
  <2>2. "save" \in L!Steps \ {"idle"}
    BY DEF L!Steps
  <2> HIDE <1>1, <1>2, <1>3, <1>4, <1>5
  <2> QED
    BY <2>1, <2>2, ReceiveKeeps
<1>7. ASSUME NEW u \in Workers \ {w}, login_step'[u] # "idle"
      PROVE  login_job'[u].attempt # a
  BY <1>4, <1>6, <1>7 DEF OnlyMoves
<1>8. L!JobOK(w)'
  BY <1>3, <1>5, <1>6, <1>7, Receiving DEF L!JobOK
<1>9. L!Orderly'
  BY <1>6, <1>8 DEF L!Orderly, RowsFit
<1>10. ASSUME NEW b \in Attempts, L!Undecided(b)' PROVE L!UndecidedOK(b)'
  <2>1. b = a
    BY <1>3, <1>6, <1>10 DEF L!Undecided
  <2>2. L!Exchanging(a)' = {}
    BY <1>6, <1>7 DEF L!Exchanging
  <2>3. ASSUME NEW u \in Workers, login_step'[u] # "idle", login_job'[u].attempt # a
        PROVE  a \notin login_job'[u].read.oidc_states
                      \cup login_job'[u].session.oidc_states
    BY <1>4, <1>6, <2>3 DEF OnlyMoves
  <2>4. \A u \in Workers : ~(login_step'[u] = "respond" /\ login_job'[u].attempt = a)
    BY <1>6, <1>7
  <2>5. a \notin L!Current'.oidc_states
    BY <1>3, <1>6, Receiving
  <2> QED
    BY <1>3, <2>1, <2>2, <2>3, <2>4, <2>5 DEF L!UndecidedOK
<1> QED
  BY <1>9, <1>10 DEF L!IInv

(* A request that begins nothing: the attempt it is about, if undecided, is  *)
(* as it was.                                                               *)
LEMMA ReceivedKept ==
  ASSUME L!Assumptions, NEW w \in Workers, OnlyMoves(w), NEW a \in Attempts,
         L!UndecidedOK(a), UNCHANGED <<codes, results>>, L!Current' = L!Current,
         login_step[w] = "idle", login_step'[w] # "exchange",
         \/ login_job'[w].kind = "browse"
         \/ login_job'[w].kind = "callback" /\ login_job'[w].attempt = a,
         login_job'[w].attempt = a =>
           login_step'[w] = "state" /\ (a \in L!Current.oidc_states => login_job'[w].session = L!Current)
  PROVE  L!UndecidedOK(a)'
<1>1. ASSUME NEW u \in Workers, u # w
      PROVE  login_step'[u] = login_step[u] /\ login_job'[u] = login_job[u]
  BY <1>1 DEF OnlyMoves
<1>2. L!Exchanging(a)' = L!Exchanging(a)
  BY <1>1 DEF L!Exchanging
<1>3. \A u \in L!Exchanging(a)' : login_job'[u].code_verifier = a
  BY <1>1, <1>2 DEF L!UndecidedOK, L!Exchanging
<1>4. L!Waits(a) => L!Waits(a)'
  BY <1>1 DEF L!Waits
<1>5. ASSUME NEW u \in Workers, login_step'[u] # "idle",
             login_job'[u].kind # "browse", login_job'[u].attempt # a
      PROVE  a \notin login_job'[u].read.oidc_states \cup login_job'[u].session.oidc_states
  BY <1>1, <1>5 DEF L!UndecidedOK
<1>6. \A u \in Workers : login_step'[u] = "respond" /\ login_job'[u].attempt = a
                           /\ login_job'[u].kind = "callback"
                           => a \notin login_job'[u].session.oidc_states
  BY <1>1 DEF L!UndecidedOK
<1>7. a \in L!Current'.oidc_states => L!Current'.pkce_code_verifier = a
  BY DEF L!UndecidedOK
<1> QED
  BY <1>2, <1>3, <1>4, <1>5, <1>6, <1>7 DEF L!UndecidedOK

(* The browser comes back: every other attempt is disturbed.                *)
LEMMA CallbackStep ==
  ASSUME L!Assumptions, L!IInv, NEW w \in Workers, L!Callback(w)
  PROVE  L!IInv'
<1>1. PICK a \in Attempts : /\ codes[a] \in {"issued", "used"}
                            /\ L!Receive(w, "callback", a, "state", L!Loaded)
                            /\ codes' = codes
  BY DEF L!Callback
<1>2. PICK local \in L!Session : /\ local = L!Loaded
                                 /\ L!Receive(w, "callback", a, "state", local)
  BY <1>1, Receiving
<1>3. L!Begun' = L!Begun
  BY <1>1 DEF L!Begun
<1>4. NotBeginning(w, a) /\ MayBegin(a)
  BY <1>1, Receiving DEF L!Orderly, L!JobOK, NotBeginning, MayBegin
<1>5. /\ L!TypeOK' /\ OnlyMoves(w)
      /\ login_step[w] = "idle" /\ login_step'[w] = "state"
      /\ login_job'[w].kind = "callback" /\ login_job'[w].attempt = a
      /\ login_job'[w].read = L!Current /\ login_job'[w].session = local
      /\ L!Current' = L!Current /\ RowsFit(rows)'
      /\ UNCHANGED <<rows, cookie, hook, results>>
      /\ \A b \in Attempts : codes'[b] \in {"none", "begun", "sent"} => results'[b] = {}
      /\ \A u \in Workers \ {w} : L!JobOK(u)'
      /\ disturbed' = disturbed \cup (L!Begun \ {a})
  <2>1. "state" \in L!Steps \ {"idle"}
    BY DEF L!Steps
  <2> HIDE <1>1, <1>3
  <2> QED
    BY <1>2, <1>4, <2>1, ReceiveKeeps
<1>6. L!JobOK(w)'
  <2>1. L!AsRead(login_job'[w])
    BY <1>2, <1>5, Receiving, EmptySession DEF L!AsRead
  <2>2. L!AsRead(login_job[w])'
    BY <2>1 DEF L!AsRead
  <2> QED
    BY <1>1, <1>2, <1>3, <1>5, <2>2, Receiving DEF L!JobOK
<1>7. L!Orderly'
  BY <1>5, <1>6 DEF L!Orderly, RowsFit
<1>8. ASSUME NEW b \in Attempts, L!Undecided(b)' PROVE L!UndecidedOK(b)'
  <2>1. b = a
    BY <1>3, <1>5, <1>8 DEF L!Undecided
  <2>2. L!UndecidedOK(a)
    BY <1>3, <1>5, <1>8, <2>1, UndecidedBefore DEF L!IInv
  <2>3. a \in L!Current.oidc_states => local = L!Current
    BY <1>2, Receiving, EmptySession
  <2> QED
    BY <1>1, <1>5, <2>1, <2>2, <2>3, ReceivedKept
<1> QED
  BY <1>7, <1>8 DEF L!IInv

(* A request that is not about a login keeps a session as it was read.      *)
LEMMA PlainStep ==
  ASSUME L!Assumptions, L!IInv, NEW w \in Workers, NEW kind \in {"logout", "browse"},
         NEW s \in {"flush", "respond"}, kind = "browse" => s = "respond",
         L!Receive(w, kind, None, s, L!Loaded), codes' = codes
  PROVE  L!IInv'
<1>1. PICK local \in L!Session : /\ local = L!Loaded
                                 /\ L!Receive(w, kind, None, s, local)
  BY Receiving
<1>2. L!Begun' = L!Begun
  BY DEF L!Begun
<1>3. NotBeginning(w, None) /\ MayBegin(None)
  BY Receiving DEF L!Orderly, L!JobOK, NotBeginning, MayBegin
<1>4. /\ L!TypeOK' /\ OnlyMoves(w)
      /\ login_step[w] = "idle" /\ login_step'[w] = s
      /\ login_job'[w].kind = kind /\ login_job'[w].attempt = None
      /\ login_job'[w].read = L!Current /\ login_job'[w].session = local
      /\ L!Current' = L!Current /\ RowsFit(rows)'
      /\ UNCHANGED <<rows, cookie, hook, results>>
      /\ \A b \in Attempts : codes'[b] \in {"none", "begun", "sent"} => results'[b] = {}
      /\ \A u \in Workers \ {w} : L!JobOK(u)'
      /\ disturbed' = disturbed \cup (IF kind = "browse" THEN {} ELSE L!Begun \ {None})
  <2>1. s \in L!Steps \ {"idle"}
    BY DEF L!Steps
  <2>2. kind \in {"begin", "callback"} <=> None \in Attempts
    BY Receiving
  <2> HIDE <1>2
  <2> QED
    BY <1>1, <1>3, <2>1, <2>2, ReceiveKeeps
<1>5. L!JobOK(w)'
  <2>1. L!AsRead(login_job[w])'
    BY <1>1, <1>4, Receiving, EmptySession DEF L!AsRead
  <2> QED
    BY <1>1, <1>2, <1>4, <2>1, Receiving DEF L!JobOK
<1>6. L!Orderly'
  BY <1>4, <1>5 DEF L!Orderly, RowsFit
<1>7. ASSUME NEW a \in Attempts, L!Undecided(a)' PROVE L!UndecidedOK(a)'
  <2>1. L!UndecidedOK(a)
    BY <1>2, <1>4, <1>7, UndecidedBefore DEF L!IInv
  <2>2. kind = "browse"
    BY <1>2, <1>4, <1>7, Receiving DEF L!Undecided
  <2> QED
    BY <1>4, <2>1, <2>2, ReceivedKept, Receiving
<1> QED
  BY <1>6, <1>7 DEF L!IInv

(* Other requests and logouts. *)
LEMMA BrowseStep ==
  ASSUME L!Assumptions, L!IInv, NEW w \in Workers, L!Browse(w) \/ L!Logout(w)
  PROVE  L!IInv'
BY PlainStep DEF L!Browse, L!Logout

(* Nothing has begun. *)
LEMMA LoginInit == ASSUME L!Assumptions, L!Init PROVE L!IInv
<1>1. L!TypeOK /\ RowsFit(rows)
  <2>1. 0 \in L!Keys /\ L!Empty \in L!Session
    BY EmptySession DEF L!Keys, L!Assumptions
  <2>2. [L!Empty EXCEPT !.key = 0, !.user = TRUE] \in L!Session
        /\ [L!Empty EXCEPT !.key = 0, !.user = TRUE].key = 0
        /\ [L!Empty EXCEPT !.key = 0, !.user = TRUE].oidc_states = {}
    BY <2>1 DEF L!Session, L!Empty
  <2>3. RowsFit(rows) /\ cookie \in L!Keys \cup {None}
    BY <2>1, <2>2, EmptySession DEF L!Init, RowsFit
  <2> QED
    BY <2>1, <2>3 DEF L!Init, L!TypeOK, L!Steps, RowsFit
<1>2. \A w \in Workers : L!JobOK(w)
  BY DEF L!Init, L!JobOK
<1>3. L!Begun = {} /\ \A a \in Attempts : ~L!Undecided(a)
  BY DEF L!Init, L!Begun, L!Undecided
<1> QED
  BY <1>1, <1>2, <1>3 DEF L!Init, L!Orderly, L!IInv, RowsFit

(* Every step of the logins keeps the invariant. *)
LEMMA LoginStep ==
  ASSUME L!Assumptions, L!IInv, L!Next PROVE L!IInv'
<1>1. ASSUME NEW w \in Workers, L!Handle(w) PROVE L!IInv'
  BY <1>1, BeginStep, SaveBeginStep, CallbackStep, MissStateStep, TakeStateStep, LogInStep,
     FailStep, FlushStep, BrowseStep, RespondStep, CrashStep
     DEF L!Handle
<1> QED
  BY <1>1, IssueStep DEF L!Next

------------------------------------------------------------------------------
(* The three parts together.                                                *)

(* A step of one part leaves the others alone. *)
LEMMA PartSteps ==
  ASSUME [Next]_vars
  PROVE  [T!Next]_(T!vars) /\ [A!Next]_(A!vars) /\ [L!Next]_(L!vars)
<1>1. CASE UNCHANGED vars
  BY <1>1 DEF vars, trust, account, login, T!vars, A!vars, L!vars
<1>2. CASE T!Next /\ UNCHANGED <<account, login>>
  BY <1>2 DEF account, login, A!vars, L!vars
<1>3. CASE A!Next /\ UNCHANGED <<trust, login>>
  BY <1>3 DEF trust, login, T!vars, L!vars
<1>4. CASE L!Next /\ UNCHANGED <<trust, account>>
  BY <1>4 DEF trust, account, T!vars, A!vars
<1> QED
  BY <1>1, <1>2, <1>3, <1>4 DEF Next

(* Every step keeps all three invariants. *)
LEMMA IdentityStep == ASSUME IInv, [Next]_vars PROVE IInv'
<1>1. [T!Next]_(T!vars) /\ [A!Next]_(A!vars) /\ [L!Next]_(L!vars)
  BY PartSteps
<1>2. T!IInv'
  BY <1>1, PartsAssumption, ScoreStep DEF IInv
<1>3. A!IInv'
  BY <1>1, PartsAssumption, AccountStep DEF IInv
<1>4. CASE L!Next
  BY <1>2, <1>3, <1>4, PartsAssumption, LoginStep DEF IInv
<1>5. CASE UNCHANGED L!vars
  BY <1>2, <1>3, <1>5 DEF IInv, L!vars, L!IInv, L!Orderly, L!TypeOK, L!JobOK, L!Begun, L!Undecided,
     L!UndecidedOK, L!Exchanging, L!Waits, L!Current, L!Loaded, L!AsRead
<1> QED
  BY <1>1, <1>4, <1>5

(* Metrics, answers, wallet rows and login requests keep their types, and   *)
(* every request holds between its statements what it has established.      *)
THEOREM Invariant == Spec => []IInv
<1>1. Init => IInv
  BY PartsAssumption, ScoreInit, AccountInit, LoginInit DEF Init, IInv
<1> QED
  BY <1>1, IdentityStep, PTL DEF Spec

(* No answer calls an issuer with consistent metrics highly trusted,        *)
(* whatever clients write and endorse, in whatever order.                   *)
THEOREM HighOutOfReachHolds == Spec => []HighOutOfReach
<1>1. IInv => HighOutOfReach
  BY DEF IInv, HighOutOfReach, T!IInv
<1> QED
  BY <1>1, Invariant, PTL

(* A login that no other login and no logout came in between, and no write  *)
(* of a session that had changed meanwhile, is not refused for its state,   *)
(* its code or its verifier by the first callback that gets an answer.      *)
THEOREM UndisturbedSucceedsHolds == Spec => []UndisturbedSucceeds
<1>1. ASSUME IInv PROVE UndisturbedSucceeds
  <2>1. SUFFICES ASSUME NEW a \in Attempts \ disturbed, "refused" \in results[a],
                        results[a] \cap {"ok", "failed", "killed"} = {}
                 PROVE  L!Exchanging(a) # {}
    BY DEF UndisturbedSucceeds, L!UndisturbedSucceeds, L!Exchanging
  <2>2. L!Orderly /\ codes[a] \in {"issued", "used"}
    BY <1>1, <2>1 DEF IInv, L!IInv, L!Orderly, L!TypeOK
  <2>3. L!UndecidedOK(a)
    BY <1>1, <2>1, <2>2 DEF IInv, L!IInv, L!Undecided, L!Begun
  <2> QED
    BY <2>1, <2>2, <2>3 DEF L!UndecidedOK, L!Waits
<1> QED
  BY <1>1, Invariant, PTL

(* A credential leaves the wallet only by a deletion, with a later copy of  *)
(* itself, or with a write of a row that has changed since it was read.     *)
THEOREM NothingLostAloneHolds == Spec => NothingLostAlone
<1> DEFINE Kept == \A i \in DOMAIN user.vcs :
                     user.vcs[i].vc \notin A!Held(user') =>
                       \E w \in Workers : /\ user_step[w] # "idle" /\ user_step'[w] # user_step[w]
                                          /\ A!MayDrop(w, user.vcs[i])
<1>1. IInv /\ [Next]_vars => [Kept]_(A!vars)
  <2> SUFFICES ASSUME IInv, [Next]_vars PROVE [Kept]_(A!vars)
    OBVIOUS
  <2>1. [A!Next]_(A!vars)
    BY PartSteps
  <2>2. CASE UNCHANGED A!vars
    BY <2>2
  <2>3. CASE A!Next
    <3>1. CASE user' = user
      BY <3>1, KeptIsHeld
    <3>2. CASE \E w \in Workers : Wrote(w)
      BY <3>2 DEF Wrote
    <3> QED
      BY <2>3, <3>1, <3>2, AccountCases, PartsAssumption DEF IInv
  <2> QED
    BY <2>1, <2>2, <2>3
<1> QED
  BY <1>1, Invariant, PTL DEF Spec, NothingLostAlone, A!NothingLostAlone

(* is_staff falls only by the form of the administrator or with a row that  *)
(* was read before it rose; never by a login.                               *)
THEOREM ElevationStaysHolds == Spec => ElevationStays
<1> DEFINE Stays == user.is_staff /\ ~user'.is_staff =>
                      \E w \in Workers :
                        /\ user_step[w] \notin {"idle", "elevate"} /\ user_step'[w] # user_step[w]
                        /\ user_job[w].kind = "admin" \/ ~user_job[w].read.is_staff
<1>1. IInv /\ [Next]_vars => [Stays]_(A!vars)
  <2> SUFFICES ASSUME IInv, [Next]_vars PROVE [Stays]_(A!vars)
    OBVIOUS
  <2>1. [A!Next]_(A!vars)
    BY PartSteps
  <2>2. CASE A!Next
    <3>1. CASE \E w \in Workers : Wrote(w)
      BY <3>1 DEF Wrote
    <3> QED
      BY <2>2, <3>1, AccountCases, PartsAssumption DEF IInv
  <2> QED
    BY <2>1, <2>2
<1> QED
  BY <1>1, Invariant, PTL DEF Spec, ElevationStays, A!ElevationStays
=============================================================================
