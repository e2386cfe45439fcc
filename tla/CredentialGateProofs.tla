------------------------- MODULE CredentialGateProofs -------------------------
(***************************************************************************)
(* Theorems about CredentialGate, for any voters, issuers, scopes, workers *)
(* and credentials, and for every kind of poll.                            *)
(***************************************************************************)
EXTENDS CredentialGate, TLAPS

(* Objections are reasons to refuse. *)
LEMMA ObjectionsTyped ==
  ASSUME NEW w \in Workers
  PROVE  Objections(w)' \subseteq Reasons
BY DEF Objections, Reasons, HeadlessReasons

(* Fewer reasons are no more refusals. *)
LEMMA FewerRefusals ==
  ASSUME NEW A, NEW B \in SUBSET A, Refused(A) = {}
  PROVE  Refused(B) = {}
BY DEF Refused

(* What the history variable says after a step: something that still speaks *)
(* against the request, and has spoken against it before.                   *)
LEMMA Watching ==
  ASSUME Watch
  PROVE  /\ against' \in [Workers -> SUBSET Reasons]
         /\ \A w \in Workers : /\ against'[w] \subseteq Objections(w)'
                               /\ step[w] # "idle" => against'[w] \subseteq against[w]
<1>1. ASSUME NEW w \in Workers
      PROVE  against'[w] = IF step[w] = "idle" THEN Objections(w)'
                           ELSE against[w] \cap Objections(w)'
  BY DEF Watch
<1>2. ASSUME NEW w \in Workers
      PROVE  /\ against'[w] \subseteq Objections(w)'
             /\ against'[w] \in SUBSET Reasons
             /\ step[w] # "idle" => against'[w] \subseteq against[w]
  <2> HIDE DEF Objections
  <2>1. Objections(w)' \subseteq Reasons
    BY ObjectionsTyped
  <2> QED
    BY <1>1, <2>1
<1>3. against' = [w \in Workers |-> against'[w]]
  BY DEF Watch
<1> QED
  BY <1>2, <1>3

(* A worker that does not move keeps what it knows about its request.       *)
LEMMA Unmoved ==
  ASSUME IInv, Watch, UNCHANGED poll, NEW w \in Workers,
         step'[w] = step[w], job'[w] = job[w]
  PROVE  JobOK(w)'
<1>1. /\ against'[w] \subseteq Objections(w)'
      /\ step[w] # "idle" => against'[w] \subseteq against[w]
  BY Watching
<1>2. JobOK(w)
  BY DEF IInv
<1>3. Cleared(w)' = Cleared(w)
  BY DEF Cleared
<1>4. step[w] = "idle" => Cleared(w) = {}
  BY DEF Cleared
<1>5. against'[w] \cap Cleared(w)' = {}
  BY <1>1, <1>2, <1>3, <1>4 DEF JobOK
<1>6. step[w] # "idle" /\ Refused(against[w]) = {} => Refused(against'[w]) = {}
  BY <1>1, FewerRefusals
<1> QED
  BY <1>1, <1>2, <1>5, <1>6 DEF JobOK, HeadlessSteps

(* A worker that ended has nothing to answer for. *)
LEMMA IdleJob ==
  ASSUME Watch, NEW w \in Workers, step'[w] = "idle"
  PROVE  JobOK(w)'
<1>1. against'[w] \subseteq Objections(w)'
  BY Watching
<1>2. Cleared(w)' = {}
  BY DEF Cleared
<1> QED
  BY <1>1, <1>2 DEF JobOK, HeadlessSteps

(* A worker goes on and the others stay. *)
LEMMA GotoTyped ==
  ASSUME TypeOK, NEW w \in Workers, NEW s \in Steps, step[w] # "idle", Goto(w, s)
  PROVE  /\ step' \in [Workers -> Steps]
         /\ job' \in [Workers -> Job \cup {None}]
         /\ \A x \in Workers : step'[x] # "idle" => job'[x] \in Job
         /\ step'[w] = s /\ (s # "idle" => job'[w] = job[w])
         /\ \A x \in Workers \ {w} : step'[x] = step[x] /\ job'[x] = job[x]
<1>1. step' = [step EXCEPT ![w] = s]
  BY DEF Goto
<1>2. CASE s = "idle"
  BY <1>1, <1>2 DEF TypeOK, Goto
<1>3. CASE s # "idle"
  BY <1>1, <1>3 DEF TypeOK, Goto
<1> QED
  BY <1>2, <1>3

(* A statement of w that reads, and knows afterwards what JobOK asks for.   *)
LEMMA ReadStep ==
  ASSUME IInv, Watch, NEW w \in Workers, NEW s \in Steps, step[w] # "idle",
         Read(w, s), s # "idle" => JobOK(w)'
  PROVE  IInv'
<1>1. Goto(w, s) /\ UNCHANGED <<poll, clock, tables, votes, requests, changes>>
  BY DEF Read
<1>2. TypeOK'
  BY <1>1, GotoTyped, Watching DEF IInv, TypeOK, tables
<1>3. \A x \in Workers : JobOK(x)'
  BY <1>1, GotoTyped, Unmoved, IdleJob DEF IInv
<1>4. NothingStoodAgainst' /\ Referenced'
  BY <1>1 DEF IInv, NothingStoodAgainst, Referenced, tables
<1> QED
  BY <1>2, <1>3, <1>4 DEF IInv

(* A check of the headless handler that has been passed: what it clears does *)
(* not speak against the request now.                                       *)
LEMMA Passed ==
  ASSUME IInv, Watch, NEW w \in Workers, NEW s \in HeadlessSteps \cup {"insert"},
         step[w] \in HeadlessSteps, Read(w, s),
         Objections(w)' \cap Cleared(w)' \subseteq Cleared(w),
         s = "insert" => Refused(against'[w]) = {}
  PROVE  JobOK(w)'
<1>1. /\ step'[w] = s /\ job'[w] = job[w] /\ poll' = poll
      /\ s # "idle" /\ step[w] # "idle" /\ s # "issued" /\ step[w] \in Steps
  BY GotoTyped DEF Read, HeadlessSteps, Steps, IInv
<1>2. against'[w] \subseteq Objections(w)' /\ against'[w] \subseteq against[w]
  BY <1>1, Watching
<1>3. against[w] \cap Cleared(w) = {} /\ job[w].kind = "headless" /\ poll.type
  BY DEF IInv, JobOK
<1>4. against'[w] \cap Cleared(w)' = {}
  BY <1>2, <1>3
<1> QED
  BY <1>1, <1>2, <1>3, <1>4 DEF JobOK, HeadlessSteps

(* What speaks against a headless request after a statement that reads.     *)
LEMMA HeadlessObjections ==
  ASSUME IInv, NEW w \in Workers, NEW s \in Steps \ {"idle"},
         step[w] \in HeadlessSteps, Read(w, s)
  PROVE  LET c == job[w].credential IN
         /\ <<"expired", None>> \in Objections(w)' => ~Fresh(c)
         /\ <<"unauthorised", None>> \in Objections(w)' =>
              type # "none" /\ ~Authorised(c.issuer)
         /\ <<"unlisted", None>> \in Objections(w)' => ~Listed(c.issuer)
         /\ <<"revoked", None>> \in Objections(w)' => <<c.issuer, c.subject>> \in revoked
         /\ <<"wallet", None>> \notin Objections(w)'
<1>1. /\ step'[w] = s /\ job'[w] = job[w] /\ UNCHANGED <<poll, clock, tables>>
      /\ step[w] # "idle"
  BY GotoTyped DEF Read, HeadlessSteps, Steps, IInv
<1>2. job[w].kind = "headless" /\ poll.type
  BY DEF IInv, JobOK
<1> QED
  BY <1>1, <1>2 DEF Objections, Fresh, Authorised, Listed, tables

(* The checks of the headless gate that pass. *)
LEMMA HeadlessChecks ==
  ASSUME IInv, Watch, NEW w \in Workers,
         \/ CheckFresh(w) \/ LookUpType(w) \/ CheckAuthorised(w)
         \/ CheckListed(w) \/ CheckRevoked(w)
  PROVE  IInv'
<1> DEFINE c == job[w].credential
<1>1. CASE CheckFresh(w)
  <2>1. PICK s \in {"type", "idle"} : Read(w, s) /\ (s = "type" => Fresh(c))
    BY <1>1 DEF CheckFresh
  <2>2. step[w] = "fresh"
    BY <1>1 DEF CheckFresh
  <2>3. CASE s = "type"
    <3>1. <<"expired", None>> \notin Objections(w)' /\ step'[w] = "type"
      BY <2>1, <2>2, <2>3, HeadlessObjections, GotoTyped DEF HeadlessSteps, Steps, Read, IInv
    <3>2. JobOK(w)'
      BY <2>1, <2>2, <2>3, <3>1, Passed DEF HeadlessSteps, Cleared
    <3> QED
      BY <2>1, <2>2, <2>3, <3>2, ReadStep DEF Steps
  <2> QED
    BY <2>1, <2>2, <2>3, ReadStep DEF Steps
<1>2. CASE LookUpType(w)
  <2>1. PICK s \in {"authorised", "listed", "idle"} :
            Read(w, s) /\ (s = "listed" => type = "none")
    BY <1>2 DEF LookUpType
  <2>2. step[w] = "type"
    BY <1>2 DEF LookUpType
  <2>3. CASE s # "idle"
    <3>1. step'[w] = s /\ (s = "listed" => <<"unauthorised", None>> \notin Objections(w)')
      BY <2>1, <2>2, <2>3, HeadlessObjections, GotoTyped DEF HeadlessSteps, Steps, Read, IInv
    <3>2. JobOK(w)'
      BY <2>1, <2>2, <2>3, <3>1, Passed DEF HeadlessSteps, Cleared
    <3> QED
      BY <2>1, <2>2, <2>3, <3>2, ReadStep DEF Steps
  <2> QED
    BY <2>1, <2>2, <2>3, ReadStep DEF Steps
<1>3. CASE CheckAuthorised(w)
  <2>1. PICK s \in {"listed", "idle"} : Read(w, s) /\ (s = "listed" => Authorised(c.issuer))
    BY <1>3 DEF CheckAuthorised
  <2>2. step[w] = "authorised"
    BY <1>3 DEF CheckAuthorised
  <2>3. CASE s = "listed"
    <3>1. <<"unauthorised", None>> \notin Objections(w)' /\ step'[w] = "listed"
      BY <2>1, <2>2, <2>3, HeadlessObjections, GotoTyped DEF HeadlessSteps, Steps, Read, IInv
    <3>2. JobOK(w)'
      BY <2>1, <2>2, <2>3, <3>1, Passed DEF HeadlessSteps, Cleared
    <3> QED
      BY <2>1, <2>2, <2>3, <3>2, ReadStep DEF Steps
  <2> QED
    BY <2>1, <2>2, <2>3, ReadStep DEF Steps
<1>4. CASE CheckListed(w)
  <2>1. PICK s \in {"revoked", "idle"} : Read(w, s) /\ (s = "revoked" => Listed(c.issuer))
    BY <1>4 DEF CheckListed
  <2>2. step[w] = "listed"
    BY <1>4 DEF CheckListed
  <2>3. CASE s = "revoked"
    <3>1. <<"unlisted", None>> \notin Objections(w)' /\ step'[w] = "revoked"
      BY <2>1, <2>2, <2>3, HeadlessObjections, GotoTyped DEF HeadlessSteps, Steps, Read, IInv
    <3>2. JobOK(w)'
      BY <2>1, <2>2, <2>3, <3>1, Passed DEF HeadlessSteps, Cleared
    <3> QED
      BY <2>1, <2>2, <2>3, <3>2, ReadStep DEF Steps
  <2> QED
    BY <2>1, <2>2, <2>3, ReadStep DEF Steps
<1>5. CASE CheckRevoked(w)
  <2>1. PICK s \in {"insert", "idle"} :
            Read(w, s) /\ (s = "insert" => <<c.issuer, c.subject>> \notin revoked)
    BY <1>5 DEF CheckRevoked
  <2>2. step[w] = "revoked"
    BY <1>5 DEF CheckRevoked
  <2>3. CASE s = "insert"
    <3>1. /\ <<"revoked", None>> \notin Objections(w)'
          /\ <<"wallet", None>> \notin Objections(w)'
          /\ step'[w] = "insert"
      BY <2>1, <2>2, <2>3, HeadlessObjections, GotoTyped DEF HeadlessSteps, Steps, Read, IInv
    <3>2. Refused(against'[w]) = {}
      <4>1. against'[w] \subseteq Objections(w)' /\ against'[w] \subseteq against[w]
        BY <2>2, Watching
      <4>2. against[w] \cap ({"expired", "unauthorised", "unlisted"} \X {None}) = {}
        BY <2>2 DEF IInv, JobOK, Cleared
      <4>3. /\ \A f \in HeadlessReasons : <<f, None>> \notin against'[w]
            /\ <<"wallet", None>> \notin against'[w]
        BY <3>1, <4>1, <4>2 DEF HeadlessReasons
      <4> QED
        BY <4>3 DEF Refused
    <3>3. Cleared(w)' = {}
      BY <3>1 DEF Cleared
    <3>4. JobOK(w)'
      BY <2>1, <2>2, <2>3, <3>2, <3>3, Passed DEF HeadlessSteps
    <3> QED
      BY <2>1, <2>2, <2>3, <3>4, ReadStep DEF Steps
  <2> QED
    BY <2>1, <2>2, <2>3, ReadStep DEF Steps
<1> QED
  BY <1>1, <1>2, <1>3, <1>4, <1>5

(* The DIDs that are read are the voter's now; those are no objection.      *)
LEMMA DidsRead ==
  ASSUME IInv, Watch, NEW w \in Workers, ReadDids(w)
  PROVE  IInv'
<1> DEFINE j == job[w]
<1>1. /\ step[w] = "dids" /\ TypeOK
      /\ job' = [job EXCEPT ![w].dids = Holders(j.voter)]
      /\ step' = [step EXCEPT ![w] = "issued"]
      /\ UNCHANGED <<poll, clock, tables, votes, requests, changes>>
  BY DEF ReadDids, IInv
<1>2. /\ j \in Job /\ j.kind = "session"
      /\ j.wallet => <<"wallet", None>> \notin against[w]
  BY <1>1 DEF IInv, JobOK, TypeOK
<1>3. j \in [kind : {"session"}, voter : Voters, wallet : BOOLEAN, dids : SUBSET Dids]
  BY <1>2 DEF Job
<1>4. Holders(j.voter) \subseteq Dids
  BY <1>3, DidAssumption DEF Holders
<1>5. /\ job'[w] = [j EXCEPT !.dids = Holders(j.voter)] /\ step'[w] = "issued"
      /\ \A x \in Workers \ {w} : step'[x] = step[x] /\ job'[x] = job[x]
  BY <1>1 DEF TypeOK
<1>6. /\ job'[w] \in Job /\ job'[w].kind = "session" /\ job'[w].voter = j.voter
      /\ job'[w].wallet = j.wallet /\ job'[w].dids = Holders(j.voter)
  BY <1>3, <1>4, <1>5 DEF Job
<1>7. TypeOK'
  <2>1. /\ step' \in [Workers -> Steps] /\ job' \in [Workers -> Job \cup {None}]
        /\ \A x \in Workers : step'[x] # "idle" => job'[x] \in Job
    BY <1>1, <1>5, <1>6 DEF TypeOK, Steps
  <2>2. against' \in [Workers -> SUBSET Reasons]
    BY Watching
  <2> QED
    BY <1>1, <2>1, <2>2 DEF TypeOK, tables
<1>8. JobOK(w)'
  <2>1. against'[w] \subseteq Objections(w)' /\ against'[w] \subseteq against[w]
    BY <1>1, Watching
  <2>2. Objections(w)' \cap ({"foreign"} \X Holders(j.voter)) = {}
    <3>1. primary' = primary /\ poll' = poll
      BY <1>1 DEF tables
    <3>2. ASSUME NEW d \in Holders(j.voter)
          PROVE  <<"foreign", d>> \notin Objections(w)'
      BY <1>5, <1>6, <3>1, <3>2 DEF Objections, Holders
    <3> HIDE DEF Objections
    <3> QED
      BY <3>2
  <2>3. Cleared(w)' = {"foreign"} \X Holders(j.voter)
    BY <1>5, <1>6 DEF Cleared
  <2>4. against'[w] \cap Cleared(w)' = {}
    BY <2>1, <2>2, <2>3
  <2> QED
    BY <1>2, <1>5, <1>6, <2>1, <2>4 DEF JobOK, HeadlessSteps
<1>9. \A x \in Workers : JobOK(x)'
  BY <1>1, <1>5, <1>8, Unmoved
<1>10. NothingStoodAgainst' /\ Referenced'
  BY <1>1 DEF IInv, NothingStoodAgainst, Referenced, tables
<1> QED
  BY <1>7, <1>9, <1>10 DEF IInv

(* The wallet, or an issuance to a DID that was read, answers the objection *)
(* that there is no credential.                                            *)
LEMMA SessionCheck ==
  ASSUME IInv, Watch, NEW w \in Workers, FindIssuance(w)
  PROVE  IInv'
<1> DEFINE j == job[w]
<1>1. PICK s \in {"insert", "idle"} :
          Read(w, s) /\ (s = "insert" => j.wallet \/ \E d \in j.dids : IssuedTo(d))
  BY DEF FindIssuance
<1>2. /\ step[w] = "issued" /\ j.kind = "session" /\ j \in Job
      /\ j.wallet => <<"wallet", None>> \notin against[w]
      /\ against[w] \cap ({"foreign"} \X j.dids) = {}
  BY DEF FindIssuance, IInv, JobOK, TypeOK, Cleared
<1>3. j.dids \subseteq Dids
  BY <1>2 DEF Job
<1>4. CASE s = "insert"
  <2>1. step'[w] = "insert" /\ job'[w] = j /\ UNCHANGED <<poll, clock, tables>>
    BY <1>1, <1>2, <1>4, GotoTyped DEF Steps, Read, IInv
  <2>2. against'[w] \subseteq Objections(w)' /\ against'[w] \subseteq against[w]
    BY <1>2, Watching
  <2>3. \A f \in HeadlessReasons : <<f, None>> \notin Objections(w)'
    BY <1>2, <2>1 DEF Objections, HeadlessReasons
  <2>4. ASSUME NEW d \in j.dids, IssuedTo(d)
        PROVE  <<"foreign", d>> \notin against'[w] /\ <<"unissued", d>> \notin against'[w]
    <3>1. IssuedTo(d)'
      BY <2>1, <2>4 DEF IssuedTo, Matches, tables
    <3>2. <<"unissued", d>> \notin Objections(w)'
      BY <1>2, <2>1, <3>1 DEF Objections
    <3>3. <<"foreign", d>> \notin against[w]
      BY <1>2
    <3> HIDE DEF Objections
    <3> QED
      BY <2>2, <3>2, <3>3
  <2>5. ~(/\ <<"wallet", None>> \in against'[w]
          /\ \A d \in Dids : \/ <<"foreign", d>> \in against'[w]
                             \/ <<"unissued", d>> \in against'[w])
    BY <1>1, <1>2, <1>3, <1>4, <2>2, <2>4
  <2>6. Refused(against'[w]) = {}
    BY <2>2, <2>3, <2>5 DEF Refused
  <2>7. Cleared(w)' = {}
    BY <2>1 DEF Cleared
  <2>8. JobOK(w)'
    BY <1>2, <2>1, <2>2, <2>6, <2>7 DEF JobOK, HeadlessSteps
  <2> QED
    BY <1>1, <1>2, <1>4, <2>8, ReadStep DEF Steps
<1> QED
  BY <1>1, <1>2, <1>4, ReadStep DEF Steps

(* A request begins. *)
LEMMA BeginStep ==
  ASSUME IInv, Watch, NEW w \in Workers, NEW j \in Job, NEW s \in Steps \ {"idle"},
         Begin(w, j, s), JobOK(w)'
  PROVE  IInv'
<1>1. /\ step[w] = "idle" /\ requests' = requests + 1
      /\ step' = [step EXCEPT ![w] = s] /\ job' = [job EXCEPT ![w] = j]
      /\ UNCHANGED <<poll, clock, tables, votes, changes>>
  BY DEF Begin
<1>2. TypeOK'
  <2>1. TypeOK
    BY DEF IInv
  <2>2. /\ step' \in [Workers -> Steps] /\ job' \in [Workers -> Job \cup {None}]
        /\ \A x \in Workers : step'[x] # "idle" => job'[x] \in Job
    BY <1>1, <2>1 DEF TypeOK
  <2>3. against' \in [Workers -> SUBSET Reasons]
    BY Watching
  <2>4. {requests', changes'} \subseteq Nat
    BY <1>1, <2>1 DEF TypeOK
  <2> QED
    BY <1>1, <2>1, <2>2, <2>3, <2>4 DEF TypeOK, tables
<1>3. \A x \in Workers \ {w} : step'[x] = step[x] /\ job'[x] = job[x]
  BY <1>1 DEF IInv, TypeOK
<1>4. \A x \in Workers : JobOK(x)'
  BY <1>1, <1>3, Unmoved
<1>5. NothingStoodAgainst' /\ Referenced'
  BY <1>1 DEF IInv, NothingStoodAgainst, Referenced, tables
<1> QED
  BY <1>2, <1>4, <1>5 DEF IInv

(* A request that begins with a step after which nothing is asked, or with  *)
(* one that clears nothing.                                                *)
LEMMA BeginJob ==
  ASSUME IInv, Watch, NEW w \in Workers, NEW j \in Job, NEW s \in Steps \ {"idle"},
         Begin(w, j, s),
         s \in HeadlessSteps => s = "fresh" /\ j.kind = "headless" /\ poll.type,
         s = "dids" => j.kind = "session" /\ (j.wallet => j.voter \in wallets),
         s # "issued",
         s = "insert" => \/ j.kind = "headless" /\ ~poll.type
                         \/ j.kind = "session" /\ ~Asks,
         s \in {"lookup", "scope", "reactivate", "create"} => j.kind \in {"issue", "store"},
         s = "write" => j.kind \in {"patch", "authorise"}
  PROVE  IInv'
<1>1. /\ step[w] = "idle" /\ step'[w] = s /\ job'[w] = j
      /\ UNCHANGED <<poll, clock, tables>>
  BY DEF Begin, IInv, TypeOK
<1>2. against'[w] \subseteq Objections(w)'
  BY Watching
<1>3. s = "insert" => Objections(w)' = {}
  BY <1>1 DEF Objections, Asks
<1>4. s = "dids" /\ j.wallet => <<"wallet", None>> \notin Objections(w)'
  BY <1>1 DEF Objections, tables
<1>5. Cleared(w)' = {}
  BY <1>1 DEF Cleared, HeadlessSteps
<1>6. s = "insert" => Refused(against'[w]) = {}
  BY <1>2, <1>3 DEF Refused
<1>7. JobOK(w)'
  BY <1>1, <1>2, <1>4, <1>5, <1>6 DEF JobOK
<1> QED
  BY <1>7, BeginStep

(* ... of each kind. *)
LEMMA Begins ==
  ASSUME IInv, Watch, NEW w \in Workers,
         \/ BeginHeadless(w) \/ BeginSession(w) \/ BeginIssue(w)
         \/ BeginPatch(w) \/ BeginAuthorise(w)
  PROVE  IInv'
<1>1. CASE BeginHeadless(w)
  <2>1. PICK c \in Credentials : Begin(w, [kind |-> "headless", credential |-> c],
                                       IF poll.type THEN "fresh" ELSE "insert")
    BY <1>1 DEF BeginHeadless
  <2> DEFINE j == [kind |-> "headless", credential |-> c]
             s == IF poll.type THEN "fresh" ELSE "insert"
  <2>2. j \in Job /\ s \in Steps \ {"idle"}
    BY DEF Job, Steps
  <2> QED
    BY <2>1, <2>2, BeginJob DEF HeadlessSteps
<1>2. CASE BeginSession(w)
  <2>1. PICK v \in Voters :
            Begin(w, [kind |-> "session", voter |-> v, wallet |-> v \in wallets,
                      dids |-> {}],
                  IF Asks THEN "dids" ELSE "insert")
    BY <1>2 DEF BeginSession
  <2> DEFINE j == [kind |-> "session", voter |-> v, wallet |-> v \in wallets,
                   dids |-> {}]
             s == IF Asks THEN "dids" ELSE "insert"
  <2>2. j \in Job /\ s \in Steps \ {"idle"}
    BY DEF Job, Steps
  <2> QED
    BY <2>1, <2>2, BeginJob DEF HeadlessSteps
<1>3. CASE BeginIssue(w)
  <2>1. PICK k \in Keys : Begin(w, [kind |-> "issue", key |-> k], "scope")
    BY <1>3 DEF BeginIssue
  <2>2. [kind |-> "issue", key |-> k] \in Job
    BY DEF Job
  <2> QED
    BY <2>1, <2>2, BeginJob DEF HeadlessSteps, Steps
<1>4. CASE BeginPatch(w)
  <2>1. PICK k \in Keys, to \in {"active", "inactive"} :
            /\ issuances[k] # "none"
            /\ Begin(w, [kind |-> "patch", key |-> k, read |-> issuances[k], to |-> to],
                     "write")
    BY <1>4 DEF BeginPatch
  <2>2. [kind |-> "patch", key |-> k, read |-> issuances[k], to |-> to] \in Job
    <3>1. issuances[k] \in Switch
      BY DEF IInv, TypeOK
    <3> QED
      BY <3>1 DEF Job, Switch
  <2> QED
    BY <2>1, <2>2, BeginJob DEF HeadlessSteps, Steps
<1>5. CASE BeginAuthorise(w)
  <2>1. PICK i \in Issuers, to \in {"active", "inactive"} :
            Begin(w, [kind |-> "authorise", issuer |-> i, to |-> to], "write")
    BY <1>5 DEF BeginAuthorise
  <2>2. [kind |-> "authorise", issuer |-> i, to |-> to] \in Job
    BY DEF Job, Switch
  <2> QED
    BY <2>1, <2>2, BeginJob DEF HeadlessSteps, Steps
<1> QED
  BY <1>1, <1>2, <1>3, <1>4, <1>5

TablesTyped ==
  /\ clock \in Nat
  /\ type \in Switch
  /\ authorised \in [Issuers -> Switch]
  /\ whitelist \subseteq Issuers
  /\ revoked \subseteq Issuers \X Voters
  /\ scopes \in [Scopes -> Switch]
  /\ issuances \in [Keys -> Switch]
  /\ primary \in [Dids -> Voters \cup {None}]
  /\ wallets \subseteq Voters

(* A statement of w that writes, where the job is not one that asks to vote *)
(* or ends here.                                                            *)
LEMMA WriteStep ==
  ASSUME IInv, Watch, NEW w \in Workers, step[w] # "idle",
         NEW s \in {"idle", "scope", "reactivate", "create"}, Goto(w, s),
         s # "idle" => job[w].kind \in {"issue", "store"},
         UNCHANGED <<poll, clock, requests, changes>>,
         votes' \subseteq [voter : Voters, against : SUBSET Refusals],
         TablesTyped', NothingStoodAgainst', Referenced'
  PROVE  IInv'
<1>1. TypeOK /\ s \in Steps
  BY DEF IInv, Steps
<1>2. /\ step' \in [Workers -> Steps] /\ job' \in [Workers -> Job \cup {None}]
      /\ \A x \in Workers : step'[x] # "idle" => job'[x] \in Job
      /\ step'[w] = s /\ (s # "idle" => job'[w] = job[w])
      /\ \A x \in Workers \ {w} : step'[x] = step[x] /\ job'[x] = job[x]
  BY <1>1, GotoTyped
<1>3. TypeOK'
  BY <1>1, <1>2, Watching DEF TypeOK, TablesTyped
<1>4. s # "idle" => JobOK(w)'
  <2>1. against'[w] \subseteq Objections(w)'
    BY Watching
  <2>2. s # "idle" => Cleared(w)' = {}
    BY <1>2 DEF Cleared
  <2> QED
    BY <1>2, <2>1, <2>2 DEF JobOK, HeadlessSteps
<1>5. \A x \in Workers : JobOK(x)'
  BY <1>2, <1>4, Unmoved, IdleJob
<1> QED
  BY <1>3, <1>5 DEF IInv

(* No refusal has stood all the time against a ballot that is inserted.     *)
LEMMA VoteInserted ==
  ASSUME IInv, Watch, NEW w \in Workers, InsertVote(w)
  PROVE  IInv'
<1>1. step[w] = "insert" /\ TypeOK
  BY DEF InsertVote, IInv
<1>2. /\ job[w] \in Job /\ job[w].kind \in {"headless", "session"}
      /\ Refused(against[w]) = {}
  BY <1>1 DEF IInv, JobOK, TypeOK
<1>3. VoterOf(job[w]) \in Voters
  BY <1>2, CredentialAssumption DEF Job, VoterOf, Attestation
<1>4. /\ votes' = votes \cup {[voter |-> VoterOf(job[w]), against |-> Refused(against[w])]}
      /\ Goto(w, "idle") /\ UNCHANGED <<poll, clock, tables, requests, changes>>
  BY DEF InsertVote
<1>5. votes' \subseteq [voter : Voters, against : SUBSET Refusals] /\ NothingStoodAgainst'
  BY <1>1, <1>2, <1>3, <1>4 DEF IInv, TypeOK, NothingStoodAgainst
<1>6. TablesTyped' /\ Referenced'
  BY <1>1, <1>4 DEF IInv, TypeOK, TablesTyped, Referenced, tables
<1> QED
  BY <1>1, <1>4, <1>5, <1>6, WriteStep

(* A key that a job is about. *)
LEMMA KeyTyped ==
  ASSUME TypeOK, NEW w \in Workers, step[w] # "idle",
         job[w].kind \in {"issue", "store", "patch"}
  PROVE  job[w].key \in Keys /\ job[w].key[2] \in Scopes
<1>1. job[w].key \in Keys
  BY DEF TypeOK, Job
<1> QED
  BY <1>1 DEF Keys

(* The statements of an issuance. *)
LEMMA Issued ==
  ASSUME IInv, Watch, NEW w \in Workers,
         \/ FindType(w) \/ GetScope(w) \/ ReactivateScope(w) \/ CreateIssuance(w)
  PROVE  IInv'
<1>1. /\ step[w] \in {"lookup", "scope", "reactivate", "create"} /\ TypeOK /\ Referenced
      /\ job[w].kind \in {"issue", "store"} /\ NothingStoodAgainst
  BY DEF FindType, GetScope, ReactivateScope, CreateIssuance, IInv, JobOK
<1>2. job[w].key \in Keys /\ job[w].key[2] \in Scopes
  BY <1>1, KeyTyped
<1> DEFINE k == job[w].key
<1>3. CASE FindType(w)
  <2>1. PICK s \in {"idle", "scope"} : Read(w, s)
    BY <1>3 DEF FindType
  <2>2. Goto(w, s) /\ UNCHANGED <<poll, clock, tables, votes, requests, changes>>
    BY <2>1 DEF Read
  <2>3. TablesTyped' /\ Referenced' /\ NothingStoodAgainst'
        /\ votes' \subseteq [voter : Voters, against : SUBSET Refusals]
    BY <1>1, <2>2 DEF TypeOK, TablesTyped, Referenced, NothingStoodAgainst, tables
  <2> QED
    BY <1>1, <2>2, <2>3, WriteStep
<1>4. CASE GetScope(w)
  <2>1. PICK s \in {"reactivate", "create"} : Goto(w, s)
    BY <1>4 DEF GetScope
  <2>2. /\ scopes' = [scopes EXCEPT ![k[2]] = IF @ = "none" THEN "active" ELSE @]
        /\ UNCHANGED <<poll, clock, type, authorised, whitelist, revoked, issuances,
                       primary, wallets, votes, requests, changes>>
    BY <1>4 DEF GetScope
  <2>3. TablesTyped'
    BY <1>1, <1>2, <2>2 DEF TypeOK, TablesTyped, Switch
  <2>4. Referenced' /\ NothingStoodAgainst'
        /\ votes' \subseteq [voter : Voters, against : SUBSET Refusals]
    BY <1>1, <1>2, <2>2 DEF TypeOK, Referenced, NothingStoodAgainst, Keys
  <2> QED
    BY <1>1, <2>1, <2>2, <2>3, <2>4, WriteStep
<1>5. CASE ReactivateScope(w)
  <2>1. Goto(w, "create")
    BY <1>5 DEF ReactivateScope
  <2>2. /\ scopes' = [scopes EXCEPT ![k[2]] = "active"]
        /\ UNCHANGED <<poll, clock, type, authorised, whitelist, revoked, issuances,
                       primary, wallets, votes, requests, changes>>
    BY <1>5 DEF ReactivateScope
  <2>3. TablesTyped'
    BY <1>1, <1>2, <2>2 DEF TypeOK, TablesTyped, Switch
  <2>4. Referenced' /\ NothingStoodAgainst'
        /\ votes' \subseteq [voter : Voters, against : SUBSET Refusals]
    BY <1>1, <1>2, <2>2 DEF TypeOK, Referenced, NothingStoodAgainst, Keys
  <2> QED
    BY <1>1, <2>1, <2>2, <2>3, <2>4, WriteStep
<1>6. CASE CreateIssuance(w)
  <2>1. Goto(w, "idle")
    BY <1>6 DEF CreateIssuance
  <2>2. /\ issuances' = IF issuances[k] = "none" /\ type # "none" /\ scopes[k[2]] # "none"
                        THEN [issuances EXCEPT ![k] = "active"] ELSE issuances
        /\ UNCHANGED <<poll, clock, type, authorised, whitelist, revoked, scopes,
                       primary, wallets, votes, requests, changes>>
    BY <1>6 DEF CreateIssuance
  <2>3. TablesTyped'
    BY <1>1, <1>2, <2>2 DEF TypeOK, TablesTyped, Switch
  <2>4. Referenced' /\ NothingStoodAgainst'
        /\ votes' \subseteq [voter : Voters, against : SUBSET Refusals]
    BY <1>1, <1>2, <2>2 DEF TypeOK, Referenced, NothingStoodAgainst
  <2> QED
    BY <1>1, <2>1, <2>2, <2>3, <2>4, WriteStep
<1> QED
  BY <1>3, <1>4, <1>5, <1>6

(* The write of a PATCH. *)
LEMMA Patched ==
  ASSUME IInv, Watch, NEW w \in Workers, WriteIssuance(w) \/ WriteAuthorisation(w)
  PROVE  IInv'
<1>1. /\ step[w] = "write" /\ TypeOK /\ Referenced /\ NothingStoodAgainst
  BY DEF WriteIssuance, WriteAuthorisation, IInv
<1> DEFINE j == job[w]
<1>2. CASE WriteIssuance(w)
  <2>1. j.kind = "patch" /\ Goto(w, "idle")
    BY <1>2 DEF WriteIssuance
  <2>2. /\ issuances' = IF type # "none" /\ scopes[j.key[2]] # "none"
                        THEN [issuances EXCEPT ![j.key] = j.to] ELSE issuances
        /\ UNCHANGED <<poll, clock, type, authorised, whitelist, revoked, scopes,
                       primary, wallets, votes, requests, changes>>
    BY <1>2 DEF WriteIssuance
  <2>3. j.key \in Keys /\ j.to \in Switch
    BY <1>1, <2>1, KeyTyped DEF TypeOK, Job
  <2>4. TablesTyped'
    BY <1>1, <2>2, <2>3 DEF TypeOK, TablesTyped
  <2>5. Referenced' /\ NothingStoodAgainst'
        /\ votes' \subseteq [voter : Voters, against : SUBSET Refusals]
    BY <1>1, <2>2, <2>3 DEF TypeOK, Referenced, NothingStoodAgainst
  <2> QED
    BY <1>1, <2>1, <2>2, <2>4, <2>5, WriteStep
<1>3. CASE WriteAuthorisation(w)
  <2>1. j.kind = "authorise" /\ Goto(w, "idle")
    BY <1>3 DEF WriteAuthorisation
  <2>2. /\ authorised' = IF type # "none" /\ scopes[IssuedIn[j.issuer]] # "none"
                         THEN [authorised EXCEPT ![j.issuer] = j.to] ELSE authorised
        /\ UNCHANGED <<poll, clock, type, whitelist, revoked, scopes, issuances,
                       primary, wallets, votes, requests, changes>>
    BY <1>3 DEF WriteAuthorisation
  <2>3. j.to \in Switch
    BY <1>1, <2>1 DEF TypeOK, Job
  <2>4. TablesTyped'
    BY <1>1, <2>2, <2>3 DEF TypeOK, TablesTyped
  <2>5. Referenced' /\ NothingStoodAgainst'
        /\ votes' \subseteq [voter : Voters, against : SUBSET Refusals]
    BY <1>1, <2>2 DEF TypeOK, Referenced, NothingStoodAgainst
  <2> QED
    BY <1>1, <2>1, <2>2, <2>4, <2>5, WriteStep
<1> QED
  BY <1>2, <1>3

(* A presentation is stored. *)
LEMMA Stored ==
  ASSUME IInv, Watch, NEW w \in Workers, BeginStore(w)
  PROVE  IInv'
<1>1. TypeOK /\ Referenced /\ NothingStoodAgainst
  BY DEF IInv
<1>2. PICK k \in Voters \X Scopes :
        /\ step[w] = "idle" /\ requests' = requests + 1
        /\ job' = [job EXCEPT ![w] = [kind |-> "store", key |-> k]]
        /\ wallets' = wallets \cup {k[1]}
        /\ step' = [step EXCEPT ![w] = "lookup"]
        /\ UNCHANGED <<poll, clock, type, authorised, whitelist, revoked, scopes,
                       issuances, primary, votes, changes>>
  BY DEF BeginStore
<1>3. [kind |-> "store", key |-> k] \in Job /\ k[1] \in Voters
  BY DidAssumption DEF Job, Keys
<1>4. TypeOK'
  <2>1. /\ step' \in [Workers -> Steps] /\ job' \in [Workers -> Job \cup {None}]
        /\ \A x \in Workers : step'[x] # "idle" => job'[x] \in Job
    BY <1>1, <1>2, <1>3 DEF TypeOK, Steps
  <2>2. against' \in [Workers -> SUBSET Reasons]
    BY Watching
  <2>3. {requests', changes'} \subseteq Nat
    BY <1>1, <1>2 DEF TypeOK
  <2> QED
    BY <1>1, <1>2, <1>3, <2>1, <2>2, <2>3 DEF TypeOK
<1>5. /\ step'[w] = "lookup" /\ job'[w] = [kind |-> "store", key |-> k]
      /\ \A x \in Workers \ {w} : step'[x] = step[x] /\ job'[x] = job[x]
  BY <1>1, <1>2 DEF TypeOK
<1>6. JobOK(w)'
  <2>1. against'[w] \subseteq Objections(w)' /\ Cleared(w)' = {}
    BY <1>5, Watching DEF Cleared
  <2> QED
    BY <1>5, <2>1 DEF JobOK, HeadlessSteps
<1>7. \A x \in Workers : JobOK(x)'
  BY <1>2, <1>5, <1>6, Unmoved
<1>8. NothingStoodAgainst' /\ Referenced'
  BY <1>1, <1>2 DEF NothingStoodAgainst, Referenced
<1> QED
  BY <1>4, <1>7, <1>8 DEF IInv

(* Every step of a worker. *)
LEMMA Handled ==
  ASSUME IInv, Watch, NEW w \in Workers, Handle(w)
  PROVE  IInv'
<1>1. CASE Crash(w)
  BY <1>1, ReadStep DEF Crash, Leave, Steps
<1> QED
  BY <1>1, HeadlessChecks, DidsRead, SessionCheck, VoteInserted, Begins, Stored, Issued, Patched
     DEF Handle

(* A change of the tables between the statements of the workers keeps the   *)
(* invariant if it keeps the foreign keys.                                  *)
LEMMA TableStep ==
  ASSUME IInv, Watch, Change, TablesTyped', Referenced'
  PROVE  IInv'
<1>1. TypeOK /\ UNCHANGED <<poll, step, job, votes, requests>> /\ changes' = changes + 1
  BY DEF IInv, Change
<1>2. TypeOK'
  BY <1>1, Watching DEF TypeOK, TablesTyped
<1>3. \A x \in Workers : JobOK(x)'
  BY <1>1, Unmoved
<1>4. NothingStoodAgainst'
  BY <1>1 DEF IInv, NothingStoodAgainst
<1> QED
  BY <1>2, <1>3, <1>4 DEF IInv

(* Nobody deletes a type or a scope that an issuance refers to.             *)
LEMMA Administered ==
  ASSUME IInv, Watch, Administer
  PROVE  IInv'
<1>1. TypeOK /\ Referenced
  BY DEF IInv
<1>2. ASSUME NEW i \in Issuers, AddAuthorisation(i) \/ DeleteAuthorisation(i) \/ SetWhitelist(i)
      PROVE  IInv'
  <2>1. CASE AddAuthorisation(i)
    <3>1. Change /\ TablesTyped' /\ Referenced'
      BY <1>1, <2>1 DEF AddAuthorisation, TypeOK, TablesTyped, Referenced, Switch
    <3> QED
      BY <3>1, TableStep
  <2>2. CASE DeleteAuthorisation(i)
    <3>1. Change /\ TablesTyped' /\ Referenced'
      BY <1>1, <2>2 DEF DeleteAuthorisation, TypeOK, TablesTyped, Referenced, Switch
    <3> QED
      BY <3>1, TableStep
  <2>3. CASE SetWhitelist(i)
    <3>1. Change /\ TablesTyped' /\ Referenced'
      BY <1>1, <2>3 DEF SetWhitelist, TypeOK, TablesTyped, Referenced
    <3> QED
      BY <3>1, TableStep
  <2> QED
    BY <1>2, <2>1, <2>2, <2>3
<1>3. ASSUME NEW k \in Keys, DeleteIssuance(k)
      PROVE  IInv'
  <2>1. Change /\ TablesTyped' /\ Referenced'
    BY <1>1, <1>3 DEF DeleteIssuance, TypeOK, TablesTyped, Referenced, Switch
  <2> QED
    BY <2>1, TableStep
<1>4. ASSUME NEW to \in Switch, SetType(to)
      PROVE  IInv'
  <2>1. /\ Change /\ type' = to /\ (to = "none" => ~TypeInUse)
        /\ UNCHANGED <<clock, authorised, whitelist, revoked, scopes, issuances, primary, wallets>>
    BY <1>4 DEF SetType
  <2>2. TablesTyped'
    BY <1>1, <2>1 DEF TypeOK, TablesTyped
  <2>3. Referenced'
    BY <1>1, <2>1 DEF Referenced, TypeInUse
  <2> QED
    BY <2>1, <2>2, <2>3, TableStep
<1>5. ASSUME NEW s \in Scopes, NEW to \in Switch, SetScope(s, to)
      PROVE  IInv'
  <2>1. /\ Change /\ (to = "none" => ~ScopeInUse(s))
        /\ scopes' = [scopes EXCEPT ![s] = to]
        /\ UNCHANGED <<clock, type, authorised, whitelist, revoked, issuances, primary, wallets>>
    BY <1>5 DEF SetScope
  <2>2. TablesTyped'
    BY <1>1, <2>1 DEF TypeOK, TablesTyped
  <2>3. ASSUME NEW k \in Keys, issuances'[k] # "none"
        PROVE  type' # "none" /\ scopes'[k[2]] # "none"
    <3>1. /\ issuances[k] # "none" /\ type # "none" /\ scopes[k[2]] # "none"
          /\ k[1] \in Dids /\ k[2] \in Scopes /\ k = <<k[1], k[2]>>
      BY <1>1, <2>1, <2>3 DEF Referenced, Keys
    <3>2. CASE k[2] = s
      <4>1. issuances[k[1], s] # "none"
        BY <3>1, <3>2
      <4>2. to # "none"
        BY <2>1, <3>1, <4>1 DEF ScopeInUse
      <4> QED
        BY <1>1, <2>1, <3>1, <3>2, <4>2 DEF TypeOK
    <3>3. CASE k[2] # s
      BY <1>1, <2>1, <3>1, <3>3 DEF TypeOK
    <3> QED
      BY <3>2, <3>3
  <2>4. Referenced'
    BY <2>3 DEF Referenced
  <2> QED
    BY <2>1, <2>2, <2>4, TableStep
<1>6. ASSUME NEW i \in Issuers, NEW v \in Voters, Revoke(i, v)
      PROVE  IInv'
  <2>1. Change /\ TablesTyped' /\ Referenced'
    BY <1>1, <1>6 DEF Revoke, TypeOK, TablesTyped, Referenced
  <2> QED
    BY <2>1, TableStep
<1>7. ASSUME NEW v \in Voters, EmptyWallet(v)
      PROVE  IInv'
  <2>1. Change /\ TablesTyped' /\ Referenced'
    BY <1>1, <1>7 DEF EmptyWallet, TypeOK, TablesTyped, Referenced
  <2> QED
    BY <2>1, TableStep
<1>8. ASSUME NEW d \in Dids, NEW v \in Voters \cup {None}, SetPrimary(d, v)
      PROVE  IInv'
  <2>1. Change /\ TablesTyped' /\ Referenced'
    BY <1>1, <1>8 DEF SetPrimary, TypeOK, TablesTyped, Referenced
  <2> QED
    BY <2>1, TableStep
<1>9. ASSUME Tick
      PROVE  IInv'
  <2>1. Change /\ TablesTyped' /\ Referenced'
    BY <1>1, <1>9 DEF Tick, TypeOK, TablesTyped, Referenced, tables
  <2> QED
    BY <2>1, TableStep
<1> QED
  BY <1>2, <1>3, <1>4, <1>5, <1>6, <1>7, <1>8, <1>9 DEF Administer

(* The invariant holds at the start. *)
LEMMA InitInv == Init => IInv
<1> SUFFICES ASSUME Init
             PROVE  IInv
  OBVIOUS
<1>1. TypeOK
  BY BoundAssumption, DidAssumption DEF Init, TypeOK, Switch, Steps
<1>2. ASSUME NEW w \in Workers
      PROVE  JobOK(w)
  <2>1. step[w] = "idle" /\ against[w] = {}
    BY DEF Init
  <2> QED
    BY <2>1 DEF JobOK, HeadlessSteps
<1>3. NothingStoodAgainst
  BY DEF Init, NothingStoodAgainst
<1>4. Referenced
  <2>1. ASSUME NEW k \in Keys
        PROVE  type # "none" /\ scopes[k[2]] # "none"
    <3>1. k[2] \in Scopes
      BY DEF Keys
    <3> QED
      BY <3>1 DEF Init
  <2> QED
    BY <2>1 DEF Referenced
<1> QED
  BY <1>1, <1>2, <1>3, <1>4 DEF IInv

(* Every step keeps the invariant. *)
LEMMA InvStep == IInv /\ [Next]_vars => IInv'
<1> SUFFICES ASSUME IInv, [Next]_vars
             PROVE  IInv'
  OBVIOUS
<1>1. CASE Next
  BY <1>1, Handled, Administered DEF Next
<1>2. CASE UNCHANGED vars
  <2>1. UNCHANGED <<poll, clock, type, authorised, whitelist, revoked, scopes, issuances,
                    primary, wallets, step, job, votes, against, requests, changes>>
    BY <1>2 DEF vars, tables
  <2>2. TypeOK' /\ NothingStoodAgainst' /\ Referenced'
    BY <2>1 DEF IInv, TypeOK, NothingStoodAgainst, Referenced
  <2>3. ASSUME NEW w \in Workers
        PROVE  JobOK(w)'
    <3>1. Objections(w)' = Objections(w) /\ Cleared(w)' = Cleared(w)
      BY <2>1 DEF Objections, Cleared, Holders, IssuedTo, Matches, Asks, Fresh, Authorised, Listed
    <3>2. JobOK(w)
      BY DEF IInv
    <3> QED
      BY <2>1, <3>1, <3>2 DEF JobOK
  <2> QED
    BY <2>2, <2>3 DEF IInv
<1> QED
  BY <1>1, <1>2

------------------------------------------------------------------------------
(* The inductive invariant of the gate: each check that a request has       *)
(* passed has taken its reason out of what speaks against it, and no        *)
(* issuance refers to a type or a scope that is gone.                       *)
THEOREM Invariant == Spec => []IInv
<1> QED
  BY InitInv, InvStep, PTL DEF Spec

(* Nobody is let in against whom the same reason spoke all through the      *)
(* request, however the checks of the handlers (CastVoteAPIView.post,       *)
(* verify_attestation, cast_vote) interleave with the changes of the tables.*)
THEOREM NothingStoodAgainstHolds == Spec => []NothingStoodAgainst
<1>1. IInv => NothingStoodAgainst
  BY DEF IInv
<1> QED
  BY <1>1, Invariant, PTL

(* A revoked issuance becomes active again only by a PATCH: CreateIssuance  *)
(* of either handler leaves an existing row alone, whatever its status.     *)
THEOREM RevivedOnlyByPatchHolds == Spec => RevivedOnlyByPatch
<1> DEFINE Revival == \A k \in Keys :
       issuances[k] = "inactive" /\ issuances'[k] = "active" =>
         \E w \in Workers : /\ step[w] = "write"
                            /\ job[w].kind = "patch" /\ job[w].key = k
<1>1. IInv /\ [Next]_vars => [Revival]_vars
  <2> SUFFICES ASSUME IInv, Next, NEW k \in Keys,
                      issuances[k] = "inactive", issuances'[k] = "active"
               PROVE  \E w \in Workers : /\ step[w] = "write"
                                         /\ job[w].kind = "patch" /\ job[w].key = k
    OBVIOUS
  <2>1. issuances \in [Keys -> Switch] /\ issuances' # issuances
    BY DEF IInv, TypeOK
  <2>2. ASSUME NEW w \in Workers, Handle(w)
        PROVE  WriteIssuance(w)
    BY <2>1, <2>2 DEF Handle, BeginHeadless, CheckFresh, LookUpType, CheckAuthorised,
       CheckListed, CheckRevoked, BeginSession, ReadDids, FindIssuance, InsertVote, BeginIssue,
       BeginStore, FindType, GetScope, ReactivateScope, CreateIssuance, BeginPatch,
       BeginAuthorise, WriteAuthorisation, Crash, Leave, Read, Begin, tables
  <2>3. ~Administer
    BY <2>1 DEF Administer, AddAuthorisation, DeleteAuthorisation, SetWhitelist,
       DeleteIssuance, SetType, SetScope, Revoke, SetPrimary, EmptyWallet, Tick, tables
  <2>4. PICK w \in Workers : WriteIssuance(w)
    BY <2>2, <2>3 DEF Next
  <2> QED
    BY <2>1, <2>4 DEF WriteIssuance
<1> QED
  BY <1>1, Invariant, PTL DEF Spec, RevivedOnlyByPatch

(* For every poll whose scope type is that of its scope, whatever DIDs are   *)
(* whose and whatever is issued to them: the session handler finds an       *)
(* issuance exactly if the eligibility endpoint says yes of one of the      *)
(* voter's DIDs.                                                           *)
THEOREM EligibilityPredictsAlways == Spec => []EligibilityPredicts
<1>1. TypeOK => EligibilityPredicts
  <2> SUFFICES ASSUME TypeOK, poll.type, poll.scope # None,
                      poll.scope_type = ScopeTypeOf[poll.scope], NEW v \in Voters
               PROVE  Qualifies(v) <=> \E d \in Holders(v) : Eligible(d)
    BY DEF EligibilityPredicts
  <2>1. poll.scope \in Scopes
    BY DEF TypeOK, Requirement
  <2>2. poll.scope_type # None
    BY <2>1, ScopeAssumption
  <2>3. \A s \in Scopes : Matches(s) <=> poll.scope = s
    BY <2>1, <2>2 DEF Matches
  <2> QED
    <3>1. ASSUME NEW d
          PROVE  Eligible(d) <=> IssuedTo(d)
      BY <2>2, <2>3 DEF Eligible, IssuedTo
    <3> QED
      BY <3>1 DEF Qualifies
<1>2. IInv => EligibilityPredicts
  BY <1>1 DEF IInv
<1> QED
  BY <1>2, Invariant, PTL
=============================================================================
