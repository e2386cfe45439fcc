--------------------------------- MODULE Login ---------------------------------
(***************************************************************************)
(* The logins that ONE browser begins at the identity provider, in several *)
(* tabs, with PKCE:                                                        *)
(*                                                                         *)
(*   begin     PKCEOIDCAuthenticationRequestView                           *)
(*   callback  PKCEOIDCAuthenticationCallbackView, then                    *)
(*             PKCEAuthenticationBackend.authenticate                      *)
(*   logout    OIDCLogoutView, or the logout of the admin                  *)
(*   browse    any other request: SESSION_SAVE_EVERY_REQUEST is set        *)
(*                                                                         *)
(* Every request reads the row that the cookie names once, writes all of   *)
(* it back and sets the cookie, so requests that overlap undo what the     *)
(* other has stored.  The class of mozilla-django-oidc that calls          *)
(* get_backend_kwargs, Django's sessions and the provider are external;    *)
(* whether the installed version calls the hook is left open, and if it    *)
(* does not, authenticate gets the verifier that is stored with the state. *)
(***************************************************************************)
EXTENDS Integers, FiniteSets

CONSTANTS
  Attempts,     \* numbers of the logins, in the order in which they begin
  Workers,
  MaxRequests,  \* bound on requests
  None

(* What the constants have to satisfy.                                      *)
Assumptions == Attempts \subseteq Nat /\ None \notin Nat /\ MaxRequests \in Nat

(* The n-th request gives the session that it makes key n.                  *)
Keys == 0 .. MaxRequests

(* A session, whose `user' is logged in or not; a state is stored with the  *)
(* verifier of its attempt.                                                *)
Session == [key : Keys \cup {None}, user : BOOLEAN,
            pkce_code_verifier : Attempts \cup {None}, oidc_states : SUBSET Attempts]

Empty == [key |-> None, user |-> FALSE, pkce_code_verifier |-> None, oidc_states |-> {}]

(* A request, with the browser's session as it was read or last written by  *)
(* it, as it is in memory, and the verifier that a callback hands to        *)
(* authenticate.                                                           *)
Request == [kind : {"begin", "callback", "logout", "browse"}, number : Keys,
            attempt : Attempts \cup {None}, read : Session, session : Session,
            code_verifier : Attempts \cup {None}]

Steps == {"idle", "save", "state", "exchange", "flush", "respond"}
Results == {"ok", "refused", "failed", "killed"}

VARIABLES
  rows,       \* the stored sessions, Empty where there is no row
  cookie,     \* the key that the browser sends
  codes,      \* how far each attempt has come
  step, job,  \* the next statement of each worker, and its request
  hook,       \* does the library call get_backend_kwargs?
  results,    \* history: how the callbacks of each attempt ended
  disturbed,  \* history: attempts that something came in between
  requests

vars == <<rows, cookie, codes, step, job, hook, results, disturbed, requests>>

TypeOK ==
  /\ rows \in [Keys -> Session]
  /\ cookie \in Keys \cup {None}
  /\ codes \in [Attempts -> {"none", "begun", "sent", "issued", "used"}]
  /\ step \in [Workers -> Steps]
  /\ job \in [Workers -> Request \cup {None}]
  /\ \A w \in Workers : IF step[w] = "idle" THEN job[w] = None ELSE job[w] \in Request
  /\ hook \in BOOLEAN
  /\ results \in [Attempts -> SUBSET Results]
  /\ disturbed \subseteq Attempts
  /\ requests \in Keys

(* The browser may be logged in already. *)
Init ==
  /\ \/ cookie = None /\ rows = [k \in Keys |-> Empty]
     \/ /\ cookie = 0
        /\ rows = [k \in Keys |-> IF k = 0 THEN [Empty EXCEPT !.key = 0, !.user = TRUE]
                                  ELSE Empty]
  /\ codes = [a \in Attempts |-> "none"]
  /\ step = [w \in Workers |-> "idle"]
  /\ job = [w \in Workers |-> None]
  /\ hook \in BOOLEAN
  /\ results = [a \in Attempts |-> {}]
  /\ disturbed = {}
  /\ requests = 0

------------------------------------------------------------------------------
Begun == {a \in Attempts : codes[a] # "none"}

(* What a request loads; if the row is gone, it has no key either.          *)
Loaded == IF cookie = None THEN Empty ELSE rows[cookie]

(* The session of the browser: its cookie and what the row holds.           *)
Current == [Loaded EXCEPT !.key = cookie]

Receive(w, kind, a, s, local) ==
  /\ step[w] = "idle"
  /\ requests < MaxRequests
  /\ requests' = requests + 1
  /\ step' = [step EXCEPT ![w] = s]
  /\ job' = [job EXCEPT ![w] =
       [kind |-> kind, number |-> requests + 1, attempt |-> a, read |-> Current,
        session |-> local, code_verifier |-> None]]
  /\ disturbed' = disturbed \cup (IF kind = "browse" THEN {} ELSE Begun \ {a})
  /\ UNCHANGED <<rows, cookie, hook, results>>

(* session.setdefault(...) *)
Prepared_bug(a) ==
  [Loaded EXCEPT !.pkce_code_verifier = IF @ = None THEN a ELSE @,
                 !.oidc_states = @ \cup {a}]

Prepared(a) ==
  [Loaded EXCEPT !.pkce_code_verifier = a, !.oidc_states = @ \cup {a}]

Begin(w) ==
  \E a \in Attempts :
    /\ codes[a] = "none"
    /\ \A b \in Attempts : b < a => codes[b] # "none"
    /\ Receive(w, "begin", a, "save", Prepared(a))
    /\ codes' = [codes EXCEPT ![a] = "begun"]

(* The browser brings the code, perhaps again.                              *)
Callback(w) ==
  \E a \in Attempts :
    /\ codes[a] \in {"issued", "used"}
    /\ Receive(w, "callback", a, "state", Loaded)
    /\ UNCHANGED codes

Browse(w) ==
  /\ Receive(w, "browse", None, "respond", Loaded)
  /\ UNCHANGED codes

(* Only who is logged in is logged out. *)
Logout(w) ==
  /\ Receive(w, "logout", None, IF Loaded.user THEN "flush" ELSE "respond", Loaded)
  /\ UNCHANGED codes

------------------------------------------------------------------------------
(* save() makes a row for a session without a key; it fails if the row of   *)
(* the key is gone.                                                        *)
Saves(w) ==
  LET k == job[w].session.key IN k = None \/ rows[k] # Empty

Keyed(w, s) == IF s.key = None THEN [s EXCEPT !.key = job[w].number] ELSE s

(* A change of the browser's session by w.  If it is not what w has read,   *)
(* what another request has stored is lost, and every attempt with it.      *)
Note(w) ==
  disturbed' = IF Current = job[w].read THEN disturbed ELSE disturbed \cup Begun

(* save() of s. *)
Save(w, s) ==
  /\ rows' = [rows EXCEPT ![s.key] = s]
  /\ Note(w)

Finish(w) ==
  /\ step' = [step EXCEPT ![w] = "idle"]
  /\ job' = [job EXCEPT ![w] = None]

Ended(result, a) == results' = [results EXCEPT ![a] = @ \cup {result}]

(* request.session.save() of the begin view; a failure ends the attempt.    *)
SaveBegin(w) ==
  LET j == job[w]
      local == Keyed(w, j.session) IN
  /\ step[w] = "save"
  /\ IF Saves(w)
     THEN /\ Save(w, local)
          /\ step' = [step EXCEPT ![w] = "respond"]
          /\ job' = [job EXCEPT ![w] =
               [j EXCEPT !.read = IF j.session.key = None THEN @ ELSE local,
                         !.session = local]]
     ELSE Finish(w) /\ UNCHANGED <<rows, disturbed>>
  /\ UNCHANGED <<cookie, codes, hook, results, requests>>

(* The library's get() refuses a state that is not in the session.          *)
MissState(w) ==
  LET j == job[w] IN
  /\ step[w] = "state"
  /\ j.attempt \notin j.session.oidc_states
  /\ Ended("refused", j.attempt)
  /\ step' = [step EXCEPT ![w] = "respond"]
  /\ UNCHANGED <<rows, cookie, codes, job, hook, disturbed, requests>>

Popped(s) == IF hook THEN [s EXCEPT !.pkce_code_verifier = None] ELSE s

(* One that is there is taken out of the session, which is saved; then      *)
(* get_backend_kwargs takes the verifier.                                  *)
TakeState(w) ==
  LET j == job[w]
      a == j.attempt
      local == [j.session EXCEPT !.oidc_states = @ \ {a}] IN
  /\ step[w] = "state"
  /\ a \in j.session.oidc_states
  /\ IF Saves(w)
     THEN /\ Save(w, local)
          /\ step' = [step EXCEPT ![w] = "exchange"]
          /\ job' = [job EXCEPT ![w] =
               [j EXCEPT !.read = local, !.session = Popped(local),
                         !.code_verifier = IF hook THEN local.pkce_code_verifier
                                           ELSE a]]
          /\ UNCHANGED results
     ELSE /\ Finish(w)
          /\ Ended("refused", a)
          /\ UNCHANGED <<rows, disturbed>>
  /\ UNCHANGED <<cookie, codes, hook, requests>>

(* w has deleted the row of its session and goes on with the session s.     *)
Deleted(w, s) ==
  /\ Note(w)
  /\ job' = [job EXCEPT ![w] =
       [@ EXCEPT !.read = [Empty EXCEPT !.key = job[w].session.key], !.session = s]]

(* authenticate: the provider takes a code once, with its own verifier.     *)
(* auth.login() moves a session that nobody is logged in to to a new key,   *)
(* keeps one of the same user and flushes one of another user.              *)
LogIn(w) ==
  LET j == job[w]
      moved == [j.session EXCEPT !.key = j.number, !.user = TRUE]
      deleted == [rows EXCEPT ![j.session.key] = Empty] IN
  /\ step[w] = "exchange"
  /\ codes[j.attempt] = "issued" /\ j.code_verifier = j.attempt
  /\ codes' = [codes EXCEPT ![j.attempt] = "used"]
  /\ Ended("ok", j.attempt)
  /\ step' = [step EXCEPT ![w] = "respond"]
  /\ \/ /\ ~j.session.user
        /\ rows' = [deleted EXCEPT ![j.number] = moved]
        /\ Deleted(w, moved)
     \/ j.session.user /\ UNCHANGED <<rows, job, disturbed>>
     \/ /\ j.session.user
        /\ rows' = deleted
        /\ Deleted(w, [Empty EXCEPT !.user = TRUE])
  /\ UNCHANGED <<cookie, hook, requests>>

(* The provider does not take a used code or a verifier that is not the     *)
(* code's; it may void the code.                                           *)
TokenError(w) ==
  LET a == job[w].attempt IN
  /\ step[w] = "exchange"
  /\ codes[a] # "issued" \/ job[w].code_verifier # a
  /\ codes' \in {codes, [codes EXCEPT ![a] = "used"]}
  /\ Ended("refused", a)
  /\ step' = [step EXCEPT ![w] = "respond"]
  /\ UNCHANGED <<rows, cookie, job, hook, disturbed, requests>>

(* Everything else that makes authenticate or the library say no: the code  *)
(* has expired; the provider cannot be reached, in time, before or after it *)
(* took the code, or answers either request with an error; it names no      *)
(* subject; the account cannot be made or is not active.                    *)
Fail(w) ==
  LET a == job[w].attempt IN
  /\ step[w] = "exchange"
  /\ codes' \in {codes, [codes EXCEPT ![a] = "used"]}
  /\ Ended("failed", a)
  /\ step' = [step EXCEPT ![w] = "respond"]
  /\ UNCHANGED <<rows, cookie, job, hook, disturbed, requests>>

(* auth.logout(): session.flush() *)
Flush(w) ==
  /\ step[w] = "flush"
  /\ rows' = [rows EXCEPT ![job[w].session.key] = Empty]
  /\ Deleted(w, Empty)
  /\ step' = [step EXCEPT ![w] = "respond"]
  /\ UNCHANGED <<cookie, codes, hook, results, requests>>

(* The session middleware stores the session and sets the cookie; a cookie  *)
(* that came with the request goes if there is no session any more.         *)
Respond(w) ==
  LET j == job[w]
      local == Keyed(w, j.session) IN
  /\ step[w] = "respond"
  /\ Finish(w)
  /\ IF j.session # Empty /\ Saves(w)
     THEN /\ Save(w, local)
          /\ cookie' = local.key
          /\ codes' = IF j.kind = "begin" THEN [codes EXCEPT ![j.attempt] = "sent"]
                      ELSE codes
     ELSE /\ IF j.session = Empty /\ j.read.key # None
             THEN cookie' = None /\ Note(w)
             ELSE UNCHANGED <<cookie, disturbed>>
          /\ UNCHANGED <<rows, codes>>
  /\ UNCHANGED <<hook, results, requests>>

(* The worker is killed, or an exception ends the request, as that of a     *)
(* token response without an access token does.                            *)
Crash(w) ==
  /\ step[w] # "idle"
  /\ Finish(w)
  /\ IF job[w].kind = "callback" THEN Ended("killed", job[w].attempt)
     ELSE UNCHANGED results
  /\ UNCHANGED <<rows, cookie, codes, hook, disturbed, requests>>

(* The user agrees at the provider.                                         *)
Issue(a) ==
  /\ codes[a] = "sent"
  /\ codes' = [codes EXCEPT ![a] = "issued"]
  /\ UNCHANGED <<rows, cookie, step, job, hook, results, disturbed, requests>>

Handle(w) ==
  \/ Begin(w) \/ SaveBegin(w) \/ Callback(w) \/ MissState(w) \/ TakeState(w)
  \/ LogIn(w) \/ TokenError(w) \/ Fail(w)
  \/ Logout(w) \/ Flush(w) \/ Browse(w) \/ Respond(w) \/ Crash(w)

Next == (\E w \in Workers : Handle(w)) \/ \E a \in Attempts : Issue(a)

Spec == Init /\ [][Next]_vars

------------------------------------------------------------------------------
(* All attempts of a browser share one session and one slot for their       *)
(* verifier.  Still, a login is refused for its state, its code or its      *)
(* verifier only if another attempt began or came back after it began, or   *)
(* the user logged out, or a request wrote back a session it had read       *)
(* before another changed it, or the browser has brought its code a second  *)
(* time: then another of its callbacks is still under way, has logged in,   *)
(* has died or has failed for a reason of its own.                          *)
UndisturbedSucceeds ==
  \A a \in Attempts \ disturbed :
    "refused" \in results[a] =>
      \/ results[a] \cap {"ok", "failed", "killed"} # {}
      \/ \E w \in Workers : step[w] = "exchange" /\ job[w].attempt = a

------------------------------------------------------------------------------
(* The copy of a session that a request has loaded and not changed.         *)
AsRead(j) ==
  \/ j.session = j.read /\ j.session.key # None
  \/ j.session = Empty /\ j.read = [Empty EXCEPT !.key = j.read.key]

(* What a request holds between its statements.  Only attempts that have    *)
(* begun are in any copy of the session, and while the request that begins  *)
(* one is under way, no other is about it.                                  *)
JobOK(w) ==
  LET j == job[w] IN
  step[w] # "idle" =>
    /\ j.read.oidc_states \cup j.session.oidc_states \subseteq Begun
    /\ j.kind = "browse" =>
         step[w] = "respond" /\ j.attempt = None /\ AsRead(j)
    /\ j.kind = "logout" => step[w] \in {"flush", "respond"} /\ j.attempt = None
    /\ j.kind = "begin" =>
         /\ step[w] \in {"save", "respond"}
         /\ j.attempt \in Attempts /\ codes[j.attempt] = "begun"
         /\ j.session.pkce_code_verifier = j.attempt
         /\ j.attempt \in j.session.oidc_states
         /\ \A u \in Workers \ {w} :
              step[u] # "idle" => job[u].attempt # j.attempt
    /\ j.kind = "callback" =>
         /\ step[w] \in {"state", "exchange", "respond"}
         /\ j.attempt \in Attempts /\ codes[j.attempt] \in {"issued", "used"}
         /\ step[w] = "state" => AsRead(j)
         /\ step[w] = "exchange" => j.session.key \in Keys
         /\ step[w] = "respond" => results[j.attempt] # {}

(* An attempt that nothing came in between and none of whose callbacks has  *)
(* ended but by a refusal.                                                  *)
Undecided(a) ==
  /\ a \in Begun \ disturbed
  /\ results[a] \cap {"ok", "failed", "killed"} = {}

Exchanging(a) == {w \in Workers : step[w] = "exchange" /\ job[w].attempt = a}

(* The state of such an attempt waits in the session, where its callbacks   *)
(* have read it, and none of them has been refused.                         *)
Waits(a) ==
  /\ a \in Current.oidc_states
  /\ "refused" \notin results[a]
  /\ \A w \in Workers :
       step[w] = "state" /\ job[w].attempt = a => job[w].session = Current

(* But for plain reads, requests about others have never seen it; while its *)
(* state is in the session, so is its verifier; a callback that has taken   *)
(* the state has the verifier, too, and goes on to the provider; until one  *)
(* does, it waits.                                                          *)
UndecidedOK(a) ==
  /\ codes[a] # "used"
  /\ \A w \in Workers :
       step[w] # "idle" /\ job[w].kind # "browse" /\ job[w].attempt # a =>
         a \notin job[w].read.oidc_states \cup job[w].session.oidc_states
  /\ a \in Current.oidc_states => Current.pkce_code_verifier = a
  /\ \A w \in Exchanging(a) : job[w].code_verifier = a
  /\ \A w \in Workers :
       step[w] = "respond" /\ job[w].attempt = a /\ job[w].kind = "callback" =>
         a \notin job[w].session.oidc_states
  /\ codes[a] = "begun" \/ Exchanging(a) # {} \/ Waits(a)

Orderly ==
  /\ TypeOK
  /\ \A k \in Keys : /\ rows[k] = Empty \/ rows[k].key = k
                     /\ rows[k].oidc_states \subseteq Begun
  /\ \A a \in Attempts : codes[a] \in {"none", "begun", "sent"} => results[a] = {}
  /\ \A w \in Workers : JobOK(w)

(* The inductive invariant.                                                 *)
IInv ==
  /\ Orderly
  /\ \A a \in Attempts : Undecided(a) => UndecidedOK(a)
=============================================================================
