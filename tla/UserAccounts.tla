----------------------------- MODULE UserAccounts -----------------------------
(***************************************************************************)
(* The row of ONE user: the wallet in User.vcs and the flag User.is_staff, *)
(* under                                                                   *)
(*                                                                         *)
(*   view    VCManagementView          migrates old entries                *)
(*   add     ImportCredentialView, StoreSignedCredentialView -> add_vc     *)
(*   delete  DeleteCredentialView                                          *)
(*   login   _evaluate_sovereign_admin_posture, which saves its own columns *)
(*   admin   the change form of the Django admin                           *)
(*                                                                         *)
(* Each request reads the row once and, but for the login, writes every    *)
(* column of it back with save(); requests of several workers interleave   *)
(* between the read and the writes.                                        *)
(***************************************************************************)
EXTENDS Integers, SequencesExt

CONSTANTS
  Workers,
  Subjects,       \* ids that credentials have as their credentialSubject
  NoSubject,      \* a credential without such an id
  InitialWallets, \* wallets at the start
  MaxRequests,    \* bound on requests
  None

(* `auth': its types include AuthenticationCredential; `wrapped': it is in  *)
(* the format with metadata.  `vc' tells credentials apart.                 *)
Entry == [vc : Nat, subject : Subjects \cup {NoSubject}, auth : BOOLEAN,
          wrapped : BOOLEAN]
Wallet == Seq(Entry)
User == [vcs : Wallet, is_staff : BOOLEAN]

(* What the constants have to satisfy.                                      *)
Assumptions ==
  /\ InitialWallets \subseteq Wallet
  /\ NoSubject \notin Subjects
  /\ MaxRequests \in Nat

(* A request, with the row as it was read and as it is now in memory.       *)
Request == [kind : {"view", "add", "delete", "login", "admin"}, read : User, user : User,
            entry : Entry \cup {None}, subject : Subjects \cup {None}]

VARIABLES
  user,      \* the row
  sovereign, \* is the user the one of settings.ADMIN_DID?
  step, job, \* the next statement of each worker, and its request
  requests

vars == <<user, sovereign, step, job, requests>>

Steps == {"idle", "migrate", "add", "delete", "save", "elevate"}

TypeOK ==
  /\ user \in User
  /\ sovereign \in BOOLEAN
  /\ step \in [Workers -> Steps]
  /\ job \in [Workers -> Request \cup {None}]
  /\ \A w \in Workers : IF step[w] = "idle" THEN job[w] = None ELSE job[w] \in Request
  /\ requests \in Nat

Init ==
  /\ user \in [vcs : InitialWallets, is_staff : BOOLEAN]
  /\ sovereign \in BOOLEAN
  /\ step = [w \in Workers |-> "idle"]
  /\ job = [w \in Workers |-> None]
  /\ requests = 0

------------------------------------------------------------------------------
Begin(w, s, j) ==
  /\ step[w] = "idle"
  /\ requests < MaxRequests
  /\ requests' = requests + 1
  /\ job' = [job EXCEPT ![w] = j]
  /\ step' = [step EXCEPT ![w] = s]
  /\ UNCHANGED <<user, sovereign>>

Asked(kind, row, entry, subject) ==
  [kind |-> kind, read |-> user, user |-> row, entry |-> entry, subject |-> subject]

Old(vcs) == \E i \in DOMAIN vcs : ~vcs[i].wrapped

(* What is wrapped already is wrapped once more *)
Migrated_bug(vcs) == [i \in DOMAIN vcs |-> [credential |-> vcs[i], wrapped |-> TRUE]]

(* Entries without "credential" become one with metadata.                   *)
Migrated(vcs) == [i \in DOMAIN vcs |-> [vcs[i] EXCEPT !.wrapped = TRUE]]

About(vcs, subject) == {i \in DOMAIN vcs : vcs[i].subject = subject}

First(indices) == CHOOSE i \in indices : \A k \in indices : i <= k

BeginView(w) ==
  /\ Old(user.vcs)
  /\ Begin(w, "migrate", Asked("view", user, None, None))

BeginAdd(w) ==
  \E s \in Subjects \cup {NoSubject}, auth \in BOOLEAN :
    Begin(w, IF Old(user.vcs) THEN "migrate" ELSE "add",
          Asked("add", user,
                [vc |-> requests + 1, subject |-> s, auth |-> auth, wrapped |-> TRUE],
                None))

(* ensure_vcs_migrated saves what it has changed.                           *)
Migrate(w) ==
  LET row == [job[w].user EXCEPT !.vcs = Migrated(@)] IN
  /\ step[w] = "migrate"
  /\ user' = row
  /\ IF job[w].kind = "add"
     THEN /\ step' = [step EXCEPT ![w] = "add"]
          /\ job' = [job EXCEPT ![w].user = row, ![w].read = row]
     ELSE /\ step' = [step EXCEPT ![w] = "idle"]
          /\ job' = [job EXCEPT ![w] = None]
  /\ UNCHANGED <<sovereign, requests>>

(* The first entry of the subject, whatever it is, is replaced *)
Added_bug(vcs, e) ==
  LET same == About(vcs, e.subject) IN
  IF e.subject # NoSubject /\ same # {}
  THEN [vcs EXCEPT ![First(same)] = e]
  ELSE Append(vcs, e)

(* add_vc on migrated entries: the first entry of the same subject decides, *)
(* and an authentication credential is not replaced.                        *)
Added(vcs, e) ==
  LET same == About(vcs, e.subject) IN
  IF e.subject # NoSubject /\ same # {} /\ ~vcs[First(same)].auth
  THEN [vcs EXCEPT ![First(same)] = e]
  ELSE Append(vcs, e)

Store(w, row) ==
  /\ user' = row
  /\ step' = [step EXCEPT ![w] = "idle"]
  /\ job' = [job EXCEPT ![w] = None]
  /\ UNCHANGED <<sovereign, requests>>

AddVC(w) ==
  /\ step[w] = "add"
  /\ Store(w, [job[w].user EXCEPT !.vcs = Added(@, job[w].entry)])

(* Entries in the old format are not found, since they have no              *)
(* "credential"; nothing protects the authentication credential.            *)
Deletable(vcs, subject) == {i \in About(vcs, subject) : vcs[i].wrapped}

BeginDelete(w) ==
  \E s \in Subjects :
    /\ Deletable(user.vcs, s) # {}
    /\ Begin(w, "delete", Asked("delete", user, None, s))

DeleteVC(w) ==
  /\ step[w] = "delete"
  /\ Store(w, [job[w].user EXCEPT
                !.vcs = RemoveAt(@, First(Deletable(@, job[w].subject)))])

(* The form of the admin says what is_staff shall be.                       *)
BeginAdmin(w) ==
  \E staff \in BOOLEAN :
    Begin(w, "save", Asked("admin", [user EXCEPT !.is_staff = staff], None, None))

SaveForm(w) ==
  /\ step[w] = "save"
  /\ Store(w, job[w].user)

(* The flag is set to the result of the comparison *)
BeginLogin_bug(w) ==
  Begin(w, "elevate", Asked("login", [user EXCEPT !.is_staff = sovereign], None, None))

(* get_or_create has found the user; who is staff already is not saved.     *)
BeginLogin(w) ==
  /\ sovereign /\ ~user.is_staff
  /\ Begin(w, "elevate", Asked("login", [user EXCEPT !.is_staff = TRUE], None, None))

(* save(update_fields=["is_staff", "is_superuser", "password"])             *)
Elevate(w) ==
  /\ step[w] = "elevate"
  /\ Store(w, [user EXCEPT !.is_staff = job[w].user.is_staff])

Crash(w) ==
  /\ step[w] # "idle"
  /\ Store(w, user)

Handle(w) ==
  \/ BeginView(w) \/ BeginAdd(w) \/ Migrate(w) \/ AddVC(w)
  \/ BeginDelete(w) \/ DeleteVC(w)
  \/ BeginAdmin(w) \/ SaveForm(w) \/ BeginLogin(w) \/ Elevate(w)
  \/ Crash(w)

Next == \E w \in Workers : Handle(w)

Spec == Init /\ [][Next]_vars

------------------------------------------------------------------------------
Held(row) == {row.vcs[i].vc : i \in DOMAIN row.vcs}

(* The row has changed since the request in w read it.                      *)
Stale(w) == job[w].read # user

(* The write that w is about to do may drop the entry e.                    *)
MayDrop(w, e) ==
  \/ job[w].kind = "delete" /\ job[w].subject = e.subject
  \/ job[w].kind = "add" /\ step[w] = "add" /\ ~e.auth
     /\ e.subject = job[w].entry.subject
  \/ Stale(w) /\ step[w] # "elevate"

(* A credential leaves the wallet only because a request deletes one of its *)
(* subject, or adds another of its subject and it is not an authentication  *)
(* credential, or because a request writes back a row that has changed      *)
(* since it was read.  Migration, logins, the admin form and kills between  *)
(* two saves lose nothing by themselves.                                    *)
NothingLostAlone ==
  [][\A i \in DOMAIN user.vcs :
       user.vcs[i].vc \notin Held(user') =>
         \E w \in Workers : /\ step[w] # "idle" /\ step'[w] # step[w]
                            /\ MayDrop(w, user.vcs[i])]_vars

(* "Elevation only - no demotion": is_staff falls only by the admin form,   *)
(* or with a request that read the row before somebody set it and writes    *)
(* all of it back; a login never takes it away.                            *)
ElevationStays ==
  [][user.is_staff /\ ~user'.is_staff =>
       \E w \in Workers : /\ step[w] \notin {"idle", "elevate"} /\ step'[w] # step[w]
                          /\ job[w].kind = "admin" \/ ~job[w].read.is_staff]_vars

------------------------------------------------------------------------------
(* What a request holds between its statements: until it writes, the row as *)
(* it read it, changed by nothing but the form of the admin or a login.     *)
JobOK(s, j) ==
  /\ s \in {"migrate", "add", "delete"} => j.user = j.read
  /\ s = "migrate" => j.kind \in {"view", "add"}
  /\ s = "add" => j.kind = "add"
  /\ s \in {"migrate", "add"} /\ j.kind = "add" => j.entry \in Entry
  /\ s = "delete" => /\ j.kind = "delete" /\ j.subject \in Subjects
                     /\ Deletable(j.user.vcs, j.subject) # {}
  /\ s = "save" => j.kind = "admin" /\ j.user.vcs = j.read.vcs
  /\ s = "elevate" => j.user.is_staff

(* The inductive invariant.                                                 *)
IInv == TypeOK /\ \A w \in Workers : JobOK(step[w], job[w])
=============================================================================
