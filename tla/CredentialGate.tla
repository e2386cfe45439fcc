---------------------------- MODULE CredentialGate ----------------------------
(***************************************************************************)
(* Who may vote on ONE poll that asks for a credential, while credentials, *)
(* authorisations, whitelists and revocations change:                      *)
(*                                                                         *)
(*   headless  CastVoteAPIView.post checks the attestation it is given     *)
(*             against the clock and four tables, one query at a time      *)
(*   session   cast_vote reads the user's primary DIDs and looks for an    *)
(*             issuance of one of them or of the username, or for a        *)
(*             credential in the user's wallet                             *)
(*   issue     IssueCredentialAPIView.post                                 *)
(*   store     StoreSignedCredentialView.post: wallet, then issuance       *)
(*   patch     PATCH of an issuance, authorise: PATCH of an authorisation; *)
(*             both read a row and write back every column of it           *)
(*                                                                         *)
(* Everything runs in autocommit, so the requests of several workers       *)
(* interleave between any two statements.  Signatures, structure, type,    *)
(* subject and fidelity of an attestation depend on no table: one that     *)
(* fails in them is not `valid'.  Challenges are in ChallengeStore, the    *)
(* ballots themselves in BallotBox.                                        *)
(***************************************************************************)
EXTENDS Integers, FiniteSets

CONSTANTS
  Voters, Issuers, Workers,
  Dids,          \* holders of credentials; a voter's username is one
  Scopes, ScopeTypes,
  ScopeTypeOf,   \* the type of each scope
  IssuedIn,      \* the scope an issuer's authorisation is for
  Mandatory,     \* settings.MANDATORY_ISSUER_DIDS
  Credentials,   \* attestations that voters hold
  InitiallyAuthorised, \* issuers with an authorisation at the start
  InitiallyIssued,     \* holders and scopes with an issuance at the start
  InitiallyPrimary,    \* whose primary DID each one is at the start
  MaxRequests,   \* bound on requests that take several statements
  MaxChanges,    \* bound on ticks and on the other changes of the tables
  None           \* no requirement

Attestation == [issuer : Issuers, subject : Voters, expires : Nat, valid : BOOLEAN]

ASSUME ScopeAssumption ==
  /\ ScopeTypeOf \in [Scopes -> ScopeTypes]
  /\ IssuedIn \in [Issuers -> Scopes]
  /\ None \notin Scopes \cup ScopeTypes \cup Voters
ASSUME IssuerAssumption == Mandatory \cup InitiallyAuthorised \subseteq Issuers
ASSUME CredentialAssumption ==
  Credentials \subseteq Attestation /\ InitiallyIssued \subseteq Dids \X Scopes
ASSUME DidAssumption ==
  Voters \subseteq Dids /\ InitiallyPrimary \in [Dids -> Voters \cup {None}]
ASSUME BoundAssumption == {MaxRequests, MaxChanges} \subseteq Nat

(* A switch is the is_active or status column of a row that may not exist.  *)
Switch == {"none", "active", "inactive"}

(* What a poll asks for; `type' says whether it names the credential type,  *)
(* of which there is one.  CreatePollView takes any combination.            *)
Requirement == [scope_type : ScopeTypes \cup {None}, scope : Scopes \cup {None},
                type : BOOLEAN]

Keys == Dids \X Scopes

Job ==      [kind : {"headless"}, credential : Credentials]
       \cup [kind : {"session"}, voter : Voters, wallet : BOOLEAN, dids : SUBSET Dids]
       \cup [kind : {"issue", "store"}, key : Keys]
       \cup [kind : {"patch"}, key : Keys, read : Switch, to : Switch \ {"none"}]
       \cup [kind : {"authorise"}, issuer : Issuers, to : Switch \ {"none"}]

Steps == {"idle", "fresh", "type", "authorised", "listed", "revoked", "dids", "issued",
          "insert", "lookup", "scope", "reactivate", "create", "write"}

(* What may speak against a request.  No credential is a compound of facts  *)
(* about the wallet and about each DID: that it is not one of the voter's,  *)
(* and that no fitting credential is issued to it.                         *)
HeadlessReasons == {"expired", "unauthorised", "unlisted", "revoked"}
Reasons == ((HeadlessReasons \cup {"wallet"}) \X {None})
           \cup ({"foreign", "unissued"} \X Dids)
Refusals == HeadlessReasons \cup {"no credential"}

VARIABLES
  poll,        \* the requirement of the poll
  clock,
  type,        \* the CredentialType
  authorised,  \* IssuerAuthorization, by issuer
  whitelist,   \* TrustedIssuer rows of the poll
  revoked,     \* RevocationAttestation rows: issuer and subject
  scopes,      \* Scope rows
  issuances,   \* CredentialIssuance, by holder and scope; inactive = revoked
  primary,     \* DID rows with is_primary: the user
  wallets,     \* users with a credential of the type in User.vcs
  step, job,   \* the next statement of each worker, and its locals
  votes,       \* the ballots that were let in
  against,     \* history: see Watch
  requests, changes

tables == <<type, authorised, whitelist, revoked, scopes, issuances, primary, wallets>>
vars == <<poll, clock, tables, step, job, votes, against, requests, changes>>

TypeOK ==
  /\ poll \in Requirement
  /\ clock \in Nat
  /\ type \in Switch
  /\ authorised \in [Issuers -> Switch]
  /\ whitelist \subseteq Issuers
  /\ revoked \subseteq Issuers \X Voters
  /\ scopes \in [Scopes -> Switch]
  /\ issuances \in [Keys -> Switch]
  /\ primary \in [Dids -> Voters \cup {None}]
  /\ wallets \subseteq Voters
  /\ step \in [Workers -> Steps]
  /\ job \in [Workers -> Job \cup {None}]
  /\ \A w \in Workers : step[w] # "idle" => job[w] \in Job
  /\ votes \subseteq [voter : Voters, against : SUBSET Refusals]
  /\ against \in [Workers -> SUBSET Reasons]
  /\ {requests, changes} \subseteq Nat

Init ==
  /\ poll \in Requirement
  /\ clock = 0
  /\ type = "active"
  /\ authorised = [i \in Issuers |-> IF i \in InitiallyAuthorised
                                    THEN "active" ELSE "none"]
  /\ whitelist = {}
  /\ revoked = {}
  /\ scopes = [s \in Scopes |-> "active"]
  /\ issuances = [k \in Keys |-> IF k \in InitiallyIssued THEN "active" ELSE "none"]
  /\ primary = InitiallyPrimary
  /\ wallets = {}
  /\ step = [w \in Workers |-> "idle"]
  /\ job = [w \in Workers |-> None]
  /\ votes = {}
  /\ against = [w \in Workers |-> {}]
  /\ requests = 0 /\ changes = 0

------------------------------------------------------------------------------
Goto(w, s) ==
  /\ step' = [step EXCEPT ![w] = s]
  /\ job' = IF s = "idle" THEN [job EXCEPT ![w] = None] ELSE job

Begin(w, j, s) ==
  /\ step[w] = "idle"
  /\ requests < MaxRequests
  /\ requests' = requests + 1
  /\ job' = [job EXCEPT ![w] = j]
  /\ step' = [step EXCEPT ![w] = s]
  /\ UNCHANGED <<poll, clock, tables, votes, changes>>

(* One query of a handler that changes no table *)
Read(w, s) ==
  /\ Goto(w, s)
  /\ UNCHANGED <<poll, clock, tables, votes, requests, changes>>

(* The handler answers, or an exception ends it, or the worker is killed:   *)
(* what is written stays written.                                          *)
Leave(w) == Read(w, "idle")

------------------------------------------------------------------------------
(* The headless handler.  Without a type in the requirement it asks for     *)
(* nothing, whatever scope the poll names.                                 *)
BeginHeadless(w) ==
  \E c \in Credentials :
    Begin(w, [kind |-> "headless", credential |-> c],
          IF poll.type THEN "fresh" ELSE "insert")

Fresh(c) == clock <= c.expires

(* verify_attestation: expirationDate, which must not lie in the past.      *)
CheckFresh(w) ==
  /\ step[w] = "fresh"
  /\ Read(w, IF Fresh(job[w].credential) THEN "type" ELSE "idle")

(* _is_issuer_trusted: without a row for the type every issuer is trusted   *)
LookUpType(w) ==
  /\ step[w] = "type"
  /\ Read(w, IF type # "none" THEN "authorised"
             ELSE IF job[w].credential.valid THEN "listed" ELSE "idle")

Authorised(i) == authorised[i] = "active"

(* The signature and the fidelity are checked after the issuer.             *)
CheckAuthorised(w) ==
  LET c == job[w].credential IN
  /\ step[w] = "authorised"
  /\ Read(w, IF Authorised(c.issuer) /\ c.valid THEN "listed" ELSE "idle")

Listed(i) == i \in Mandatory \/ whitelist = {} \/ i \in whitelist

(* The revocation check moved into the branch for ordinary issuers *)
CheckListed_bug(w) ==
  LET i == job[w].credential.issuer IN
  /\ step[w] = "listed"
  /\ Read(w, IF i \in Mandatory THEN "insert"
             ELSE IF Listed(i) THEN "revoked" ELSE "idle")

(* An empty whitelist admits every issuer.                                  *)
CheckListed(w) ==
  /\ step[w] = "listed"
  /\ Read(w, IF Listed(job[w].credential.issuer) THEN "revoked" ELSE "idle")

(* verify_revocation *)
CheckRevoked(w) ==
  LET c == job[w].credential IN
  /\ step[w] = "revoked"
  /\ Read(w, IF <<c.issuer, c.subject>> \in revoked THEN "idle" ELSE "insert")

------------------------------------------------------------------------------
(* The session handler.  The wallet is a column of the user, which is read  *)
(* with the session; the DIDs and the issuances are two more queries.       *)
Asks == poll.scope_type # None \/ poll.scope # None \/ poll.type

BeginSession(w) ==
  \E v \in Voters :
    Begin(w, [kind |-> "session", voter |-> v, wallet |-> v \in wallets, dids |-> {}],
          IF Asks THEN "dids" ELSE "insert")

(* The username is the DID from OIDC. *)
Holders(v) == {v} \cup {d \in Dids : primary[d] = v}

ReadDids(w) ==
  /\ step[w] = "dids"
  /\ job' = [job EXCEPT ![w].dids = Holders(job[w].voter)]
  /\ step' = [step EXCEPT ![w] = "issued"]
  /\ UNCHANGED <<poll, clock, tables, votes, requests, changes>>

(* The filter without the comparison of the scope itself *)
Matches_bug(s) == poll.scope_type \in {None, ScopeTypeOf[s]}

Matches(s) ==
  /\ poll.scope_type \in {None, ScopeTypeOf[s]}
  /\ poll.scope \in {None, s}

(* The expiry of an issuance is not looked at.                              *)
IssuedTo(d) == \E s \in Scopes : issuances[d, s] = "active" /\ Matches(s)

Qualifies(v) == \E d \in Holders(v) : IssuedTo(d)

FindIssuance(w) ==
  LET j == job[w] IN
  /\ step[w] = "issued"
  /\ Read(w, IF j.wallet \/ \E d \in j.dids : IssuedTo(d) THEN "insert" ELSE "idle")

(* The refusals that what speaks against a request amounts to *)
Refused(reasons) ==
  {f \in HeadlessReasons : <<f, None>> \in reasons}
  \cup {f \in {"no credential"} :
          /\ <<"wallet", None>> \in reasons
          /\ \A d \in Dids : <<"foreign", d>> \in reasons \/ <<"unissued", d>> \in reasons}

VoterOf(j) == IF j.kind = "headless" THEN j.credential.subject ELSE j.voter

InsertVote(w) ==
  /\ step[w] = "insert"
  /\ votes' = votes \cup {[voter |-> VoterOf(job[w]), against |-> Refused(against[w])]}
  /\ Goto(w, "idle")
  /\ UNCHANGED <<poll, clock, tables, requests, changes>>

(* CheckVotingEligibilityAPIView, about the one DID it is asked about: the  *)
(* scope is compared with NULL if the poll names none, and no issuance has  *)
(* a NULL scope.                                                           *)
Eligible(d) ==
  poll.scope_type # None /\ poll.type =>
    \E s \in Scopes : issuances[d, s] = "active" /\ poll.scope = s

------------------------------------------------------------------------------
(* The request is refused unless the type is active.                        *)
BeginIssue(w) ==
  \E k \in Keys :
    /\ type = "active"
    /\ Begin(w, [kind |-> "issue", key |-> k], "scope")

(* user.add_vc; the holder is the username. *)
BeginStore(w) ==
  \E k \in Voters \X Scopes :
    /\ step[w] = "idle"
    /\ requests < MaxRequests
    /\ requests' = requests + 1
    /\ job' = [job EXCEPT ![w] = [kind |-> "store", key |-> k]]
    /\ wallets' = wallets \cup {k[1]}
    /\ step' = [step EXCEPT ![w] = "lookup"]
    /\ UNCHANGED <<poll, clock, type, authorised, whitelist, revoked, scopes,
                   issuances, primary, votes, changes>>

(* The credential stays in the wallet if its type is not known here.        *)
FindType(w) ==
  /\ step[w] = "lookup"
  /\ Read(w, IF type = "none" THEN "idle" ELSE "scope")

(* Scope.objects.get_or_create *)
GetScope(w) ==
  LET s == job[w].key[2] IN
  /\ step[w] = "scope"
  /\ scopes' = [scopes EXCEPT ![s] = IF @ = "none" THEN "active" ELSE @]
  /\ Goto(w, IF job[w].kind = "issue" /\ scopes[s] = "inactive"
             THEN "reactivate" ELSE "create")
  /\ UNCHANGED <<poll, clock, type, authorised, whitelist, revoked, issuances,
                 primary, wallets, votes, requests, changes>>

(* scope.save() of the row as it was read: a deleted one comes back.        *)
ReactivateScope(w) ==
  /\ step[w] = "reactivate"
  /\ scopes' = [scopes EXCEPT ![job[w].key[2]] = "active"]
  /\ Goto(w, "create")
  /\ UNCHANGED <<poll, clock, type, authorised, whitelist, revoked, issuances,
                 primary, wallets, votes, requests, changes>>

(* A failed insert answered with an update *)
CreateIssuance_bug(w) ==
  LET k == job[w].key IN
  /\ step[w] = "create"
  /\ issuances' = [issuances EXCEPT ![k] = "active"]
  /\ Goto(w, "idle")
  /\ UNCHANGED <<poll, clock, type, authorised, whitelist, revoked, scopes,
                 primary, wallets, votes, requests, changes>>

(* CredentialIssuance.objects.create fails if the holder has one already,   *)
(* revoked or not, or if its type or scope is gone; the scope and the       *)
(* wallet stay as they are now.                                            *)
CreateIssuance(w) ==
  LET k == job[w].key IN
  /\ step[w] = "create"
  /\ issuances' = IF issuances[k] = "none" /\ type # "none" /\ scopes[k[2]] # "none"
                  THEN [issuances EXCEPT ![k] = "active"] ELSE issuances
  /\ Goto(w, "idle")
  /\ UNCHANGED <<poll, clock, type, authorised, whitelist, revoked, scopes,
                 primary, wallets, votes, requests, changes>>

------------------------------------------------------------------------------
(* CredentialIssuanceViewSet.partial_update: get_object, then save() of all *)
(* columns; `to' is the status the request asks for, or the one it has read *)
(* if the request is about another column.                                 *)
BeginPatch(w) ==
  \E k \in Keys, to \in {"active", "inactive"} :
    /\ issuances[k] # "none"
    /\ Begin(w, [kind |-> "patch", key |-> k, read |-> issuances[k], to |-> to],
             "write")

(* A row that was deleted in between is inserted again.                     *)
WriteIssuance(w) ==
  LET j == job[w] IN
  /\ step[w] = "write" /\ j.kind = "patch"
  /\ issuances' = IF type # "none" /\ scopes[j.key[2]] # "none"
                  THEN [issuances EXCEPT ![j.key] = j.to] ELSE issuances
  /\ Goto(w, "idle")
  /\ UNCHANGED <<poll, clock, type, authorised, whitelist, revoked, scopes,
                 primary, wallets, votes, requests, changes>>

(* IssuerAuthorizationViewSet.partial_update *)
BeginAuthorise(w) ==
  \E i \in Issuers, to \in {"active", "inactive"} :
    /\ authorised[i] # "none"
    /\ Begin(w, [kind |-> "authorise", issuer |-> i, to |-> to], "write")

WriteAuthorisation(w) ==
  LET j == job[w] IN
  /\ step[w] = "write" /\ j.kind = "authorise"
  /\ authorised' = IF type # "none" /\ scopes[IssuedIn[j.issuer]] # "none"
                   THEN [authorised EXCEPT ![j.issuer] = j.to] ELSE authorised
  /\ Goto(w, "idle")
  /\ UNCHANGED <<poll, clock, type, whitelist, revoked, scopes, issuances,
                 primary, wallets, votes, requests, changes>>

------------------------------------------------------------------------------
(* Changes in one statement.  Whitelist entries, revocations and new        *)
(* authorisations have no endpoint; they are rows that an operator writes.  *)
Change ==
  /\ changes < MaxChanges
  /\ changes' = changes + 1
  /\ UNCHANGED <<poll, step, job, votes, requests>>

AddAuthorisation(i) ==
  /\ Change
  /\ authorised[i] = "none" /\ type # "none" /\ scopes[IssuedIn[i]] # "none"
  /\ authorised' = [authorised EXCEPT ![i] = "active"]
  /\ UNCHANGED <<clock, type, whitelist, revoked, scopes, issuances, primary, wallets>>

DeleteAuthorisation(i) ==
  /\ Change
  /\ authorised[i] # "none"
  /\ authorised' = [authorised EXCEPT ![i] = "none"]
  /\ UNCHANGED <<clock, type, whitelist, revoked, scopes, issuances, primary, wallets>>

DeleteIssuance(k) ==
  /\ Change
  /\ issuances[k] # "none"
  /\ issuances' = [issuances EXCEPT ![k] = "none"]
  /\ UNCHANGED <<clock, type, authorised, whitelist, revoked, scopes, primary, wallets>>

(* on_delete=PROTECT of issuances and authorisations *)
TypeInUse ==
  \/ \E i \in Issuers : authorised[i] # "none"
  \/ \E k \in Keys : issuances[k] # "none"

SetType(to) ==
  /\ Change
  /\ to = "none" => ~TypeInUse
  /\ type' = to
  /\ UNCHANGED <<clock, authorised, whitelist, revoked, scopes, issuances, primary, wallets>>

ScopeInUse(s) ==
  \/ \E i \in Issuers : authorised[i] # "none" /\ IssuedIn[i] = s
  \/ \E d \in Dids : issuances[d, s] # "none"
  \/ poll.scope = s

SetScope(s, to) ==
  /\ Change
  /\ to = "none" => ~ScopeInUse(s)
  /\ scopes' = [scopes EXCEPT ![s] = to]
  /\ UNCHANGED <<clock, type, authorised, whitelist, revoked, issuances, primary, wallets>>

SetWhitelist(i) ==
  /\ Change
  /\ whitelist' = IF i \in whitelist THEN whitelist \ {i} ELSE whitelist \cup {i}
  /\ UNCHANGED <<clock, type, authorised, revoked, scopes, issuances, primary, wallets>>

Revoke(i, v) ==
  /\ Change
  /\ revoked' = revoked \cup {<<i, v>>}
  /\ UNCHANGED <<clock, type, authorised, whitelist, scopes, issuances, primary, wallets>>

(* A DID row is made, deleted, or given another user or is_primary.         *)
SetPrimary(d, v) ==
  /\ Change
  /\ primary' = [primary EXCEPT ![d] = v]
  /\ UNCHANGED <<clock, type, authorised, whitelist, revoked, scopes, issuances, wallets>>

(* DeleteCredentialView *)
EmptyWallet(v) ==
  /\ Change
  /\ v \in wallets
  /\ wallets' = wallets \ {v}
  /\ UNCHANGED <<clock, type, authorised, whitelist, revoked, scopes, issuances, primary>>

Tick ==
  /\ Change
  /\ clock' = clock + 1
  /\ UNCHANGED tables

Crash(w) == step[w] # "idle" /\ Leave(w)

Handle(w) ==
  \/ BeginHeadless(w) \/ CheckFresh(w) \/ LookUpType(w) \/ CheckAuthorised(w)
  \/ CheckListed(w) \/ CheckRevoked(w)
  \/ BeginSession(w) \/ ReadDids(w) \/ FindIssuance(w) \/ InsertVote(w)
  \/ BeginIssue(w) \/ BeginStore(w) \/ FindType(w)
  \/ GetScope(w) \/ ReactivateScope(w) \/ CreateIssuance(w)
  \/ BeginPatch(w) \/ WriteIssuance(w)
  \/ BeginAuthorise(w) \/ WriteAuthorisation(w)
  \/ Crash(w)

Administer ==
  \/ \E i \in Issuers : AddAuthorisation(i) \/ DeleteAuthorisation(i) \/ SetWhitelist(i)
  \/ \E k \in Keys : DeleteIssuance(k)
  \/ \E to \in Switch : SetType(to)
  \/ \E s \in Scopes, to \in Switch : SetScope(s, to)
  \/ \E i \in Issuers, v \in Voters : Revoke(i, v)
  \/ \E d \in Dids, v \in Voters \cup {None} : SetPrimary(d, v)
  \/ \E v \in Voters : EmptyWallet(v)
  \/ Tick

------------------------------------------------------------------------------
(* What speaks, in this state, against the request of a worker that asks to *)
(* vote.  A poll that asks for nothing objects to nothing.                  *)
Objections(w) ==
  LET j == job[w] IN
  IF step[w] = "idle" THEN {}
  ELSE IF j.kind = "headless" /\ poll.type THEN
    LET i == j.credential.issuer IN
         {f \in {<<"expired", None>>} : ~Fresh(j.credential)}
    \cup {f \in {<<"unauthorised", None>>} : type # "none" /\ ~Authorised(i)}
    \cup {f \in {<<"unlisted", None>>} : ~Listed(i)}
    \cup {f \in {<<"revoked", None>>} : <<i, j.credential.subject>> \in revoked}
  ELSE IF j.kind = "session" /\ Asks THEN
         {f \in {<<"wallet", None>>} : j.voter \notin wallets}
    \cup {<<"foreign", d>> : d \in Dids \ Holders(j.voter)}
    \cup {<<"unissued", d>> : d \in {x \in Dids : ~IssuedTo(x)}}
  ELSE {}

(* History: what has spoken against the request from its beginning until    *)
(* now, without interruption.                                              *)
Watch ==
  against' = [w \in Workers |->
               IF step[w] = "idle" THEN Objections(w)'
               ELSE against[w] \cap Objections(w)']

Next ==
  /\ (\E w \in Workers : Handle(w)) \/ Administer
  /\ Watch

Spec == Init /\ [][Next]_vars

------------------------------------------------------------------------------
(* The gate asks its questions one after the other, and each answer may be  *)
(* out of date when the ballot is inserted.  Still, nobody is let in        *)
(* against whom the same reason spoke all through the request: a voter      *)
(* revoked, an issuer not authorised or not listed, a credential expired,   *)
(* or, in a session, an empty wallet and for every DID that it was somebody *)
(* else's or had no fitting credential.  (A DID may stop to be the voter's  *)
(* after cast_vote has read it and get its credential then: that voter is   *)
(* let in and had no credential at any moment.)                            *)
NothingStoodAgainst == \A b \in votes : b.against = {}

(* The session handler and the eligibility endpoint each have their own     *)
(* query.  If the poll asks for a scope, its own scope type and a           *)
(* credential type, the handler finds an issuance exactly if the endpoint   *)
(* says yes of one of the user's DIDs; asked about the username alone, it   *)
(* may say no although the user may vote.                                  *)
EligibilityPredicts ==
  /\ poll.type
  /\ poll.scope # None
  /\ poll.scope_type = ScopeTypeOf[poll.scope]
  => \A v \in Voters : Qualifies(v) <=> \E d \in Holders(v) : Eligible(d)

(* A revoked issuance becomes active again only by a PATCH that says so or  *)
(* that read the row before it was revoked (and writes all of it back);     *)
(* issuing again, in either way, does not revive it.                       *)
RevivedOnlyByPatch ==
  [][\A k \in Keys :
       issuances[k] = "inactive" /\ issuances'[k] = "active" =>
         \E w \in Workers : /\ step[w] = "write"
                            /\ job[w].kind = "patch" /\ job[w].key = k]_vars

(* The inductive invariant: each check that a request has passed has taken  *)
(* its reason out of what speaks against it.                               *)
Cleared(w) ==
  CASE step[w] = "type" -> {"expired"} \X {None}
    [] step[w] = "authorised" -> {"expired"} \X {None}
    [] step[w] = "listed" -> {"expired", "unauthorised"} \X {None}
    [] step[w] = "revoked" -> {"expired", "unauthorised", "unlisted"} \X {None}
    [] step[w] = "issued" -> {"foreign"} \X job[w].dids
    [] OTHER -> {}

HeadlessSteps == {"fresh", "type", "authorised", "listed", "revoked"}

JobOK(w) ==
  LET j == job[w] IN
  /\ step[w] \in HeadlessSteps => j.kind = "headless" /\ poll.type
  /\ step[w] \in {"dids", "issued"} =>
       /\ j.kind = "session"
       /\ j.wallet => <<"wallet", None>> \notin against[w]
  /\ step[w] = "insert" =>
       j.kind \in {"headless", "session"} /\ Refused(against[w]) = {}
  /\ step[w] \in {"lookup", "scope", "reactivate", "create"} => j.kind \in {"issue", "store"}
  /\ step[w] = "write" => j.kind \in {"patch", "authorise"}
  /\ against[w] \subseteq Objections(w)
  /\ against[w] \cap Cleared(w) = {}

(* PROTECT and the foreign keys of CredentialIssuance hold.                 *)
Referenced ==
  \A k \in Keys : issuances[k] # "none" => type # "none" /\ scopes[k[2]] # "none"

IInv ==
  /\ TypeOK
  /\ \A w \in Workers : JobOK(w)
  /\ NothingStoodAgainst
  /\ Referenced
=============================================================================
