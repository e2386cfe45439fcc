----------------------------- MODULE IssuerTrust -----------------------------
(***************************************************************************)
(* The trust score of the issuers in ONE scope: the metrics and the        *)
(* endorsements that the API lets clients write, and the two endpoints     *)
(* that answer how far an issuer is trusted.  They read the metrics first  *)
(* and the endorsements in a second query; PATCH and toggle read a row and *)
(* write it back.  Requests of several workers interleave between queries. *)
(*                                                                         *)
(* The score is the code's, times 10000 and without its division, so that  *)
(* it is exact; the logarithm of the number of holders is a percentage     *)
(* that is stored in place of that number.                                 *)
(***************************************************************************)
EXTENDS Integers, FiniteSets

CONSTANTS
  Issuers, Workers,
  Endorsers,    \* DIDs of endorsers
  Metrics,      \* metrics that clients write
  Ids,          \* bound on the primary keys of endorsements
  MaxRequests,  \* bound on requests
  Nobody,       \* the empty endorser_did of an endorsement that was posted
  None

(* `dated' is whether first_issuance is set.                                *)
Metric == [attempted : Nat, successful : Nat, breadth : 0..100,
           violations : Nat, dated : BOOLEAN]

(* What the constants have to satisfy.                                      *)
Assumptions ==
  /\ Metrics \subseteq Metric /\ None \notin Metric
  /\ IsFiniteSet(Ids)
  /\ MaxRequests \in Nat

Endorsement == [endorser : Endorsers \cup {Nobody}, issuer : Issuers,
                positive : BOOLEAN, active : BOOLEAN]

Thresholds == {"low", "medium", "high", "very_high"}

Job ==      [kind : {"score"}, metric : Metric, issuer : Issuers, asked : Thresholds]
       \cup [kind : {"patch", "toggle"}, id : Ids, row : Endorsement]

(* An answer, with what it was computed from (history).                     *)
Answer == [metric : Metric, level : Thresholds \cup {"error"}, meets : BOOLEAN,
           asked : Thresholds]

VARIABLES
  metrics,      \* the IssuerMetrics row of each issuer
  endorsements, \* the IssuerEndorsement rows
  job,          \* what the handler in each worker has read
  answer,       \* the last answer of each worker
  requests

vars == <<metrics, endorsements, job, answer, requests>>

TypeOK ==
  /\ metrics \in [Issuers -> Metric \cup {None}]
  /\ endorsements \in [Ids -> Endorsement \cup {None}]
  /\ job \in [Workers -> Job \cup {None}]
  /\ answer \in [Workers -> Answer \cup {None}]
  /\ requests \in Nat

Init ==
  /\ metrics = [i \in Issuers |-> None]
  /\ endorsements = [k \in Ids |-> None]
  /\ job = [w \in Workers |-> None]
  /\ answer = [w \in Workers |-> None]
  /\ requests = 0

------------------------------------------------------------------------------
Floor == [low |-> 0, medium |-> 4000, high |-> 7000, very_high |-> 9000]

Least(a, b) == IF a <= b THEN a ELSE b

Attempted(m) == IF m.attempted = 0 THEN 1 ELSE m.attempted
(* A percentage where a fraction is expected *)
Successes_bug(m) == IF m.attempted = 0 THEN 100 ELSE 100 * m.successful
Successes(m) == IF m.attempted = 0 THEN 1 ELSE m.successful

(* calculate_score(m) >= floor / 10000 with n endorsements: success rate,   *)
(* n / (n + 5), breadth, less a penalty that is capped; clamped to 0..1.    *)
(* The score of an issuer's age is 0: see Score.                            *)
Reaches(m, n, floor) ==
  \/ floor <= 0
  \/ 3000 * Successes(m) * (n + 5) + 2000 * n * Attempted(m)
       + (15 * m.breadth - Least(100 * m.violations, 1000)) * (Attempted(m) * (n + 5))
     >= floor * (Attempted(m) * (n + 5))

get_trust_level(m, n) ==
  IF Reaches(m, n, Floor.very_high) THEN "very_high"
  ELSE IF Reaches(m, n, Floor.high) THEN "high"
  ELSE IF Reaches(m, n, Floor.medium) THEN "medium"
  ELSE "low"

Endorsing(i) ==
  {k \in Ids : /\ endorsements[k] # None
               /\ endorsements[k].issuer = i
               /\ endorsements[k].positive /\ endorsements[k].active}

------------------------------------------------------------------------------
Count == requests < MaxRequests /\ requests' = requests + 1

Begin(w, j) ==
  /\ job[w] = None
  /\ Count
  /\ job' = [job EXCEPT ![w] = j]
  /\ answer' = [answer EXCEPT ![w] = None]
  /\ UNCHANGED <<metrics, endorsements>>

Finish(w) == job' = [job EXCEPT ![w] = None]

(* Any client writes any numbers: success is not compared with attempts.    *)
WriteMetrics(i) ==
  /\ Count
  /\ \E m \in Metrics \cup {None} : metrics' = [metrics EXCEPT ![i] = m]
  /\ UNCHANGED <<endorsements, job, answer>>

(* unique_together; a row does not conflict with itself.                    *)
Free(k, e) ==
  \A other \in Ids \ {k} :
    endorsements[other] # None =>
      <<endorsements[other].endorser, endorsements[other].issuer>>
        # <<e.endorser, e.issuer>>

(* The serializer for POST has no endorser_did.                             *)
CreateEndorsement(k, i) ==
  /\ Count
  /\ endorsements[k] = None
  /\ \E positive \in BOOLEAN :
       LET e == [endorser |-> Nobody, issuer |-> i, positive |-> positive,
                 active |-> TRUE] IN
       /\ Free(k, e)
       /\ endorsements' = [endorsements EXCEPT ![k] = e]
  /\ UNCHANGED <<metrics, job, answer>>

DeleteEndorsement(k) ==
  /\ Count
  /\ endorsements[k] # None
  /\ endorsements' = [endorsements EXCEPT ![k] = None]
  /\ UNCHANGED <<metrics, job, answer>>

(* get_object; the request may name the endorser.                           *)
BeginPatch(w) ==
  \E k \in Ids, d \in Endorsers :
    /\ endorsements[k] # None
    /\ Begin(w, [kind |-> "patch", id |-> k,
                 row |-> [endorsements[k] EXCEPT !.endorser = d]])

BeginToggle(w) ==
  \E k \in Ids :
    /\ endorsements[k] # None
    /\ Begin(w, [kind |-> "toggle", id |-> k,
                 row |-> [endorsements[k] EXCEPT !.active = ~@]])

(* save() of every column: a row deleted in between is inserted again.      *)
WritePatch(w) ==
  LET j == job[w] IN
  /\ j # None /\ j.kind = "patch"
  /\ endorsements' = IF Free(j.id, j.row)
                     THEN [endorsements EXCEPT ![j.id] = j.row] ELSE endorsements
  /\ Finish(w)
  /\ UNCHANGED <<metrics, answer, requests>>

(* save(update_fields=["is_active"]) fails if the row is gone.              *)
WriteToggle(w) ==
  LET j == job[w] IN
  /\ j # None /\ j.kind = "toggle"
  /\ endorsements' = IF endorsements[j.id] = None THEN endorsements
                     ELSE [endorsements EXCEPT ![j.id].active = j.row.active]
  /\ Finish(w)
  /\ UNCHANGED <<metrics, answer, requests>>

(* The first query.  An issuer without metrics is answered at once.         *)
BeginScore(w) ==
  \E i \in Issuers, asked \in Thresholds :
    /\ metrics[i] # None
    /\ Begin(w, [kind |-> "score", metric |-> metrics[i], issuer |-> i, asked |-> asked])

(* The rest of calculate_score.  The date of the first issuance has a time  *)
(* zone and utcnow() has none: their difference raises TypeError.           *)
Score(w) ==
  LET j == job[w]
      n == Cardinality(Endorsing(j.issuer)) IN
  /\ j # None /\ j.kind = "score"
  /\ answer' = [answer EXCEPT ![w] =
       [metric |-> j.metric, asked |-> j.asked,
        level |-> IF j.metric.dated THEN "error" ELSE get_trust_level(j.metric, n),
        meets |-> ~j.metric.dated /\ Reaches(j.metric, n, Floor[j.asked])]]
  /\ Finish(w)
  /\ UNCHANGED <<metrics, endorsements, requests>>

Handle(w) ==
  \/ BeginPatch(w) \/ WritePatch(w) \/ BeginToggle(w) \/ WriteToggle(w)
  \/ BeginScore(w) \/ Score(w)

Next ==
  \/ \E w \in Workers : Handle(w)
  \/ \E i \in Issuers : WriteMetrics(i)
  \/ \E k \in Ids : DeleteEndorsement(k) \/ \E i \in Issuers : CreateEndorsement(k, i)

Spec == Init /\ [][Next]_vars

------------------------------------------------------------------------------
(* Whoever endorses an issuer, however often and in whatever order, and     *)
(* however many holders it has: no answer calls it trusted "high" or        *)
(* "very_high", or says that it meets such a threshold, unless its metrics  *)
(* count more successful verifications than attempts.                       *)
HighOutOfReach ==
  \A w \in Workers :
    answer[w] # None /\ answer[w].metric.successful <= answer[w].metric.attempted =>
      /\ answer[w].level \notin {"high", "very_high"}
      /\ answer[w].asked \in {"high", "very_high"} => ~answer[w].meets

(* The inductive invariant: both at once.                                   *)
IInv == TypeOK /\ HighOutOfReach
=============================================================================
