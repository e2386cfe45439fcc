------------------------------ MODULE BallotBox ------------------------------
(***************************************************************************)
(* The ballots of ONE poll and every request handler that casts one:       *)
(*                                                                         *)
(*   headless  CastVoteAPIView.post       POST /api/polls/<id>/cast/       *)
(*   session   vote_api -> cast_vote      POST /polls/<id>/vote/           *)
(*   nostr     NostrIngestWebhook -> ingest_vote_event                     *)
(*                                                                         *)
(* A handler runs in one of several gunicorn worker processes.  No handler *)
(* opens a transaction around its work (settings.DATABASES sets no         *)
(* ATOMIC_REQUESTS), so every ORM statement commits by itself and the      *)
(* handlers interleave BETWEEN statements.  One action below is one        *)
(* statement that reads or writes the tables of this module, with the      *)
(* checks that precede the next one.  A request refused before it has      *)
(* changed anything, or read anything that a later statement uses, is a    *)
(* stuttering step and has no action.                                      *)
(*                                                                         *)
(* The signature check of the headless path and the credential gate decide *)
(* on data outside these tables: their verdicts are nondeterministic here. *)
(* What post_save handlers do with the ledger, and what the gate does with *)
(* the challenge cache, is other state (see README).  The generic CRUD     *)
(* viewset of /api/votes/ and the admin site, through which an operator    *)
(* can edit or delete any row, are outside this module.                    *)
(*                                                                         *)
(* A definition whose name ends in _bug is a mutant:                        *)
(* what the definition after it would be with one plausible mistake.  No   *)
(* other definition uses it.                                               *)
(***************************************************************************)
EXTENDS Integers, Sequences, FiniteSets, FiniteSetsExt

CONSTANTS
  Voters,          \* DIDs; also the usernames of the local accounts
  Workers,         \* worker processes, each serving one request at a time
  EntryPoints,     \* the handlers clients use in this instance
  Mutability,      \* the values that Poll.is_mutable may have
  IsOngoing,       \* Poll.is_ongoing: no temporal bounds over HTTP
  AllowWriteIns,   \* Poll.allow_write_ins
  Gated,           \* the poll requires a scope or a credential
  StartsAt, EndsAt,\* Poll.starts_at, Poll.ends_at
  Grace,           \* CLOCK_SKEW_GRACE_SECONDS
  InitialOptions,  \* texts of the options the poll was created with, by id
  WriteIns,        \* write-in texts, up to NFKC + whitespace + case
  Events,          \* vote events relays can deliver, any number of times
  Registered,      \* voters that have an account at the start
  MayCrash,        \* can a worker be killed in the middle of a request?
  MaxVotes,        \* bound: rows of the Vote table
  MaxTime,         \* bound: the clock
  None             \* SQL NULL, and "no job"

Handlers == {"headless", "session", "nostr"}
Texts    == {InitialOptions[i] : i \in DOMAIN InitialOptions} \cup WriteIns
EventIds == {e.id : e \in Events}

(* A vote event as signed by its author; `option' is the id the author      *)
(* wrote, which need not be an option of this poll.                         *)
EventType == [id : EventIds, voter : Voters, option : Nat, at : Nat]

ASSUME BooleanAssumption ==
  /\ Mutability \subseteq BOOLEAN
  /\ {IsOngoing, AllowWriteIns, Gated, MayCrash} \subseteq BOOLEAN
  /\ EntryPoints \subseteq Handlers
ASSUME WorkerAssumption == IsFiniteSet(Workers)
ASSUME BoundAssumption ==
  /\ {StartsAt, EndsAt, Grace, MaxVotes, MaxTime} \subseteq Nat
ASSUME DataAssumption ==
  /\ InitialOptions \in Seq(Texts)
  /\ Events \subseteq EventType
  /\ Registered \subseteq Voters
  /\ None \notin Texts \cup EventIds
  /\ None \notin [voter : Voters, text : Texts \cup {None},
                  event : EventIds \cup {None}]
(* Two events with the same SHA-256 id are the same event. *)
ASSUME EventIdAssumption ==
  \A e, f \in Events : e.id = f.id => e = f

VARIABLES
  is_mutable,\* Poll.is_mutable: chosen when the poll is created
  votes,     \* the Vote table: the row with primary key i is votes[i]
  options,   \* the PollOption rows of the poll: the text of option i
  accounts,  \* voters with a local User row
  active,    \* Poll.is_active
  clock,     \* timezone.now()
  late,      \* history: ballots recorded over HTTP since the poll was last open
  step,      \* the next statement of each worker
  job        \* the local variables of each worker's handler

vars == <<is_mutable, votes, options, accounts, active, clock, late, step, job>>
env  == <<is_mutable, accounts, active, clock, late>>

Steps == {"idle", "lookup", "nominate", "existing", "revote", "flip", "gate",
          "insert"}

(* `signed' is a history field: created_at of the event, for a Nostr vote. *)
Row == [voter : Voters, option : Nat, event : EventIds \cup {None},
        linked : BOOLEAN, current : BOOLEAN, signed : Nat]

Job == [kind : Handlers, voter : Voters, option : Nat,
        text : Texts \cup {None}, event : EventIds \cup {None},
        old : Nat, linked : BOOLEAN, signed : Nat]

Busy == {w \in Workers : step[w] # "idle"}

(* The re-vote query without its voter. *)
CurrentRows_bug(j) == {i \in DOMAIN votes : votes[i].current}

(* Votes.objects.filter(poll, voter_did, is_current) and, for the session   *)
(* handler, filter(poll, user, is_current): rows whose user is NULL are     *)
(* invisible to the latter.                                                 *)
CurrentRows(j) ==
  {i \in DOMAIN votes : /\ votes[i].voter = j.voter
                        /\ votes[i].current
                        /\ j.kind = "session" => votes[i].linked}

(* .first() on a queryset without ordering: the lowest primary key. *)
IsFirst(i, rows) == i \in rows /\ \A k \in rows : i <= k

(* _reject_if_not_active and Poll.is_active_now *)
InWindow(t) == IsOngoing \/ (StartsAt <= t /\ t <= EndsAt)
Open        == active /\ InWindow(clock)

------------------------------------------------------------------------------
Init ==
  /\ is_mutable \in Mutability
  /\ votes = <<>>
  /\ options = InitialOptions
  /\ accounts = Registered
  /\ active = TRUE
  /\ clock = 0 /\ late = 0
  /\ step = [w \in Workers |-> "idle"]
  /\ job = [w \in Workers |-> None]

(* The row of Poll is fetched without a look at is_active. *)
Accept_bug(w, kind) ==
  /\ kind \in EntryPoints
  /\ step[w] = "idle"
  /\ Len(votes) + Cardinality(Busy) < MaxVotes

(* A request gets a free worker.  MaxVotes bounds the instance: a request   *)
(* is let in only while every request under way has room for its row.       *)
Accept(w, kind) ==
  /\ kind \in EntryPoints
  /\ step[w] = "idle"
  /\ active
  /\ Len(votes) + Cardinality(Busy) < MaxVotes

Finish(w) ==
  /\ step' = [step EXCEPT ![w] = "idle"]
  /\ job' = [job EXCEPT ![w] = None]

Goto(w, s) == step' = [step EXCEPT ![w] = s]

(* CastVoteAPIView.post up to the first statement after Poll.objects.get.   *)
(* Option id 0 stands for an id that is not an option of this poll.         *)
HeadlessBegin(w) ==
  /\ Accept(w, "headless")
  /\ InWindow(clock)
  /\ \E v \in Voters, o \in DOMAIN options \cup {0},
        t \in (IF AllowWriteIns THEN WriteIns ELSE {}) \cup {None} :
       /\ job' = [job EXCEPT ![w] =
                   [kind |-> "headless", voter |-> v, option |-> o, text |-> t,
                    event |-> None, old |-> 0, linked |-> FALSE, signed |-> 0]]
       /\ Goto(w, IF t = None THEN "existing" ELSE "lookup")
  /\ UNCHANGED <<votes, options, env>>

(* cast_vote: authenticated, and the option exists before anything else.    *)
SessionBegin(w) ==
  /\ Accept(w, "session")
  /\ InWindow(clock)
  /\ \E v \in accounts, o \in DOMAIN options :
       job' = [job EXCEPT ![w] =
                [kind |-> "session", voter |-> v, option |-> o, text |-> None,
                 event |-> None, old |-> 0, linked |-> TRUE, signed |-> 0]]
  /\ Goto(w, "existing")
  /\ UNCHANGED <<votes, options, env>>

(* ingest_vote_event up to the insert.  It compares the event's own stamp   *)
(* with now (verify_nostr_event) and with the end of the poll, each with    *)
(* the grace period, and never with its start.                              *)
NostrBegin(w) ==
  /\ Accept(w, "nostr")
  /\ \E e \in Events :
       /\ e.at <= clock + Grace
       /\ e.at <= EndsAt + Grace
       /\ e.option \in DOMAIN options
       /\ job' = [job EXCEPT ![w] =
                   [kind |-> "nostr", voter |-> e.voter, option |-> e.option,
                    text |-> None, event |-> e.id, old |-> 0,
                    linked |-> FALSE, signed |-> e.at]]
  /\ Goto(w, "insert")
  /\ UNCHANGED <<votes, options, env>>

(* PollOption.objects.filter(poll, text__iexact).first() *)
LookupWriteIn(w) ==
  /\ step[w] = "lookup"
  /\ LET same == {i \in DOMAIN options : options[i] = job[w].text} IN
       \/ \E i \in same :
            /\ IsFirst(i, same)
            /\ job' = [job EXCEPT ![w].option = i]
            /\ Goto(w, "existing")
       \/ /\ same = {}
          /\ Goto(w, "nominate")
          /\ UNCHANGED job
  /\ UNCHANGED <<votes, options, env>>

(* PollOption.objects.create: no uniqueness on (poll, text), so the except  *)
(* branch that would repeat the lookup is never taken.                      *)
NominateWriteIn(w) ==
  /\ step[w] = "nominate"
  /\ options' = Append(options, job[w].text)
  /\ job' = [job EXCEPT ![w].option = Len(options) + 1]
  /\ Goto(w, "existing")
  /\ UNCHANGED <<votes, env>>

(* Another signature is enough for a second vote on an immutable poll. *)
CheckExisting_bug(w) ==
  /\ step[w] = "existing"
  /\ \/ Finish(w)
     \/ Goto(w, "gate") /\ UNCHANGED job
  /\ UNCHANGED <<votes, options, env>>

(* The re-vote check.  On an immutable poll both refusals, "duplicate" and  *)
(* "already voted", end the request without a write.  On a mutable one the  *)
(* session handler flips the row it has read; the headless handler calls    *)
(* _handle_revote, which reads again.                                       *)
CheckExisting(w) ==
  /\ step[w] = "existing"
  /\ LET rows == CurrentRows(job[w]) IN
       \/ /\ rows = {}
          /\ Goto(w, "gate")
          /\ UNCHANGED job
       \/ /\ rows # {}
          /\ ~is_mutable
          /\ Finish(w)
       \/ /\ rows # {}
          /\ is_mutable
          /\ job[w].kind = "headless"
          /\ Goto(w, "revote")
          /\ UNCHANGED job
       \/ /\ is_mutable
          /\ job[w].kind = "session"
          /\ \E i \in rows : /\ IsFirst(i, rows)
                             /\ job' = [job EXCEPT ![w].old = i]
          /\ Goto(w, "flip")
  /\ UNCHANGED <<votes, options, env>>

(* _handle_revote insists on a current row. *)
HandleRevote_bug(w) ==
  /\ step[w] = "revote"
  /\ LET rows == CurrentRows(job[w]) IN
       \/ \E i \in rows : /\ IsFirst(i, rows)
                          /\ job' = [job EXCEPT ![w].old = i]
                          /\ Goto(w, "flip")
       \/ rows = {} /\ UNCHANGED <<step, job>>
  /\ UNCHANGED <<votes, options, env>>

(* _handle_revote: the row may be gone by now, flipped by another worker. *)
HandleRevote(w) ==
  /\ step[w] = "revote"
  /\ LET rows == CurrentRows(job[w]) IN
       \/ \E i \in rows : /\ IsFirst(i, rows)
                          /\ job' = [job EXCEPT ![w].old = i]
                          /\ Goto(w, "flip")
       \/ /\ rows = {}
          /\ Goto(w, "gate")
          /\ UNCHANGED job
  /\ UNCHANGED <<votes, options, env>>

(* The previous ballot is changed in place before the gate is consulted. *)
FlipInPlace_bug(w) ==
  /\ step[w] = "flip"
  /\ job[w].option \in DOMAIN options
  /\ votes' = [votes EXCEPT ![job[w].old].option = job[w].option]
  /\ Goto(w, "gate")
  /\ UNCHANGED <<options, job, env>>

(* The flag is cleared on the object and never saved. *)
FlipUnsaved_bug(w) ==
  /\ step[w] = "flip"
  /\ Goto(w, "gate")
  /\ UNCHANGED <<votes, options, job, env>>

(* UPDATE ... SET is_current = FALSE WHERE id = old *)
FlipPrevious(w) ==
  /\ step[w] = "flip"
  /\ votes' = [votes EXCEPT ![job[w].old].current = FALSE]
  /\ Goto(w, "gate")
  /\ UNCHANGED <<options, job, env>>

(* The option is not looked up before the insert. *)
Admit_bug(w) ==
  /\ step[w] = "gate"
  /\ Goto(w, "insert")
  /\ UNCHANGED <<votes, options, job, env>>

(* The credential gate passes, and the headless handler finds the option    *)
(* and looks for a local account to link.                                   *)
Admit(w) ==
  /\ step[w] = "gate"
  /\ job[w].option \in DOMAIN options
  /\ job' = [job EXCEPT ![w].linked = job[w].kind = "session"
                                      \/ job[w].voter \in accounts]
  /\ Goto(w, "insert")
  /\ UNCHANGED <<votes, options, env>>

(* 403 from the gate, or 404 for an option that is not of this poll: after  *)
(* the previous ballot has been flipped.                                    *)
Refuse(w) ==
  /\ step[w] = "gate"
  /\ Gated \/ job[w].option \notin DOMAIN options
  /\ Finish(w)
  /\ UNCHANGED <<votes, options, env>>

CountLate(w) == late' = IF Open \/ job[w].event # None THEN late ELSE late + 1
Reopen       == late' = IF Open' THEN 0 ELSE late

(* nostr_event_id without its unique constraint. *)
InsertVote_bug(w) ==
  /\ step[w] = "insert"
  /\ votes' = Append(votes,
                [voter |-> job[w].voter, option |-> job[w].option,
                 event |-> job[w].event, linked |-> job[w].linked,
                 current |-> TRUE, signed |-> job[w].signed])
  /\ CountLate(w)
  /\ Finish(w)
  /\ UNCHANGED <<options, is_mutable, accounts, active, clock>>

(* Vote.objects.create.  Only nostr_event_id is unique. *)
InsertVote(w) ==
  /\ step[w] = "insert"
  /\ LET j == job[w] IN
       /\ j.event = None \/ \A i \in DOMAIN votes : votes[i].event # j.event
       /\ votes' = Append(votes,
                     [voter |-> j.voter, option |-> j.option,
                      event |-> j.event, linked |-> j.linked,
                      current |-> TRUE, signed |-> j.signed])
  /\ CountLate(w)
  /\ Finish(w)
  /\ UNCHANGED <<options, is_mutable, accounts, active, clock>>

(* IntegrityError on the unique event id: rolled back and ignored. *)
IgnoreDuplicate(w) ==
  /\ step[w] = "insert"
  /\ job[w].event # None
  /\ \E i \in DOMAIN votes : votes[i].event = job[w].event
  /\ Finish(w)
  /\ UNCHANGED <<votes, options, env>>

(* The worker is killed (deploy, gunicorn timeout): what it has committed   *)
(* stays, the rest of the request never happens.                            *)
Crash(w) ==
  /\ MayCrash
  /\ step[w] # "idle"
  /\ Finish(w)
  /\ UNCHANGED <<votes, options, env>>

(* A voter logs in through the identity provider for the first time. *)
Register(v) ==
  /\ v \notin accounts
  /\ accounts' = accounts \cup {v}
  /\ UNCHANGED <<is_mutable, votes, options, active, clock, late, step, job>>

(* A poll event ingested for this poll's d-tag rewrites is_active. *)
SetActive ==
  /\ active' = ~active
  /\ UNCHANGED <<is_mutable, votes, options, accounts, clock, step, job>>
  /\ Reopen

Tick ==
  /\ clock < MaxTime
  /\ clock' = clock + 1
  /\ UNCHANGED <<is_mutable, votes, options, accounts, active, step, job>>
  /\ Reopen

(* Clients may stay silent, and the bounded instance may be full. *)
Quiet ==
  /\ Busy = {}
  /\ UNCHANGED vars

Statement(w) ==
  \/ LookupWriteIn(w) \/ NominateWriteIn(w) \/ CheckExisting(w)
  \/ HandleRevote(w) \/ FlipPrevious(w) \/ Admit(w) \/ Refuse(w)
  \/ InsertVote(w) \/ IgnoreDuplicate(w)

Next ==
  \/ \E w \in Workers :
       \/ HeadlessBegin(w) \/ SessionBegin(w) \/ NostrBegin(w)
       \/ Statement(w)
       \/ Crash(w)
  \/ \E v \in Voters : Register(v)
  \/ SetActive
  \/ Tick
  \/ Quiet

Spec == Init /\ [][Next]_vars

(* A running worker executes its next statement; clients, the clock and     *)
(* crashes owe nothing.                                                     *)
FairSpec == Spec /\ \A w \in Workers : WF_vars(Statement(w))
------------------------------------------------------------------------------
(* The tally, as Poll.total_votes and PollOption.dynamic_vote_count compute *)
(* it: the row with the greatest id of each voter, whatever its flag.       *)
RowsOf(v)  == {i \in DOMAIN votes : votes[i].voter = v}

(* The rows that carry the checkpoint flag. *)
Latest_bug(v) == {i \in RowsOf(v) : votes[i].current}

Latest(v)  == {i \in RowsOf(v) : \A k \in RowsOf(v) : k <= i}
LatestIds  == UNION {Latest(v) : v \in Voters}
total_votes == Cardinality(LatestIds)
dynamic_vote_count(o) == Cardinality({i \in LatestIds : votes[i].option = o})

(* The abstract ballot: a voter's counted choice is the text of the option  *)
(* of its latest row; a request asks for its write-in text or its option.   *)
counted == [v \in Voters |->
             IF RowsOf(v) = {} THEN None
             ELSE options[votes[CHOOSE i \in Latest(v) : TRUE].option]]

AskedText(j) == IF j.text # None THEN j.text
                ELSE IF j.option \in DOMAIN options THEN options[j.option]
                ELSE None

asked == [w \in Workers |->
           IF step[w] = "idle" THEN None
           ELSE [voter |-> job[w].voter, text |-> AskedText(job[w]),
                 event |-> job[w].event]]

effected == {votes[i].event : i \in DOMAIN votes} \ {None}

B    == INSTANCE Ballot WITH OncePerVoter <- FALSE
Once == INSTANCE Ballot WITH OncePerVoter <- TRUE

(* Types of the tables and of the handlers' local variables. *)
TypeOK ==
  /\ is_mutable \in BOOLEAN
  /\ votes \in Seq(Row)
  /\ options \in Seq(Texts)
  /\ accounts \subseteq Voters
  /\ active \in BOOLEAN
  /\ clock \in Nat /\ late \in Nat
  /\ step \in [Workers -> Steps]
  /\ job \in [Workers -> Job \cup {None}]
  /\ \A w \in Workers : step[w] # "idle" => job[w] \in Job

(* Window and is_active are checked long before the insert, against a poll   *)
(* row that is not read again, so ballots are still recorded after a poll is *)
(* closed: but no more of them, until it is open again, than the requests    *)
(* that were under way, one for each worker process.                        *)
OverrunBounded == late <= Cardinality(Workers)

(* The options' counts add up to the turnout, and the turnout is the number *)
(* of distinct voters: duplicates, stale flags and re-votes never show.     *)
TallyAddsUp ==
  /\ total_votes = Cardinality({votes[i].voter : i \in DOMAIN votes})
  /\ total_votes = MapThenSumSet(dynamic_vote_count, DOMAIN options)

(* A recorded ballot is never removed or rewritten, nor a superseded one     *)
(* restored; it is only superseded on a mutable poll, for its own voter.     *)
BallotsKept ==
  \A i \in DOMAIN votes :
    /\ i \in DOMAIN votes'
    /\ \/ votes'[i] = votes[i]
       \/ /\ is_mutable
          /\ votes[i].current
          /\ votes'[i] = [votes[i] EXCEPT !.current = FALSE]
          /\ \E w \in Workers : /\ step[w] = "flip"
                                /\ job[w].voter = votes[i].voter

OptionsKept ==
  \A o \in DOMAIN options : o \in DOMAIN options' /\ options'[o] = options[o]

(* The audit trail, over every step of every handler: ballots and options   *)
(* are append-only but for the flag, and a worker that flips a row long     *)
(* after it chose it still flips a row of its own voter.                    *)
HistoryKept == [][BallotsKept /\ OptionsKept]_vars

(* The handlers implement the abstract ballot: for all their statements,    *)
(* races and crashes, the counted choices change in one step per accepted   *)
(* request, to what that request asked for; and an event that relays and     *)
(* webhooks deliver again, to this worker or another, changes nothing.       *)
RefinesBallot == B!BallotSpec

(* ... and on an immutable poll served one request at a time the counted    *)
(* choice of a voter is final.                                              *)
RefinesOnceBallot ==
  /\ Once!BallotInit
  /\ [][~is_mutable => Once!BallotNext \/ UNCHANGED <<counted, effected, asked>>]_vars

(* Served one request at a time, a voter has at most one current ballot and *)
(* it is the voter's latest; on an immutable poll it is the only one.       *)
SoleBallot ==
  \A i, k \in DOMAIN votes :
    votes[i].voter = votes[k].voter /\ i < k =>
      is_mutable /\ ~votes[i].current

(* Every request that got a worker leaves it again. *)
EveryRequestEnds ==
  \A w \in Workers : step[w] # "idle" ~> step[w] = "idle"
------------------------------------------------------------------------------
(* The inductive invariant: what a handler has established between two of   *)
(* its statements and no other handler can undo, because options are never  *)
(* dropped or renamed and rows keep their voter.                            *)
JobOK(w) ==
  LET j == job[w] IN
    /\ step[w] # "idle" => j.option \in DOMAIN options \cup {0}
    /\ step[w] \in {"lookup", "nominate"} => j.text # None /\ j.event = None
    /\ step[w] \notin {"idle", "lookup", "nominate"} /\ j.text # None =>
         j.option \in DOMAIN options /\ options[j.option] = j.text
    /\ step[w] = "insert" => j.option \in DOMAIN options
    /\ step[w] \in {"revote", "flip"} => is_mutable
    /\ step[w] = "flip" => /\ j.old \in DOMAIN votes
                           /\ votes[j.old].voter = j.voter

RowsOK ==
  \A i \in DOMAIN votes : votes[i].option \in DOMAIN options

IInv ==
  /\ TypeOK
  /\ RowsOK
  /\ \A w \in Workers : JobOK(w)

(* The ballots still to be recorded count with those recorded late.         *)
Casting == {w \in Busy : job[w].event = None}
Overrun == IF Open THEN late = 0
           ELSE late + Cardinality(Casting) <= Cardinality(Workers)

(* What is also true while one worker serves everybody: a request that has  *)
(* got past the re-vote check has found no current ballot of its voter, or  *)
(* superseded it, and nobody has cast another one since.                    *)
Cleared(w) ==
  \A i \in DOMAIN votes :
    votes[i].voter = job[w].voter => is_mutable /\ ~votes[i].current

OthersSuperseded(w) ==
  \A i \in DOMAIN votes :
    votes[i].voter = job[w].voter /\ i # job[w].old => ~votes[i].current

SerialInv ==
  /\ IInv
  /\ SoleBallot
  /\ accounts = Voters
  /\ \A i \in DOMAIN votes : votes[i].linked
  /\ ~is_mutable => \A i \in DOMAIN votes : votes[i].current
  /\ \A w \in Workers :
       /\ step[w] \in {"gate", "insert"} => Cleared(w)
       /\ step[w] = "insert" => job[w].linked
       /\ step[w] = "flip" => OthersSuperseded(w)

------------------------------------------------------------------------------
(* What the repository says of this code and the code does not do; each is  *)
(* the property of a run that expects a violation.                          *)

(* DEVELOPER_GUIDE.md:123: "if (poll, voter_did) exists" a further vote with *)
(* another signature is rejected; on an immutable poll, one row per DID.    *)
OneRowPerDid ==
  ~is_mutable => \A i, k \in DOMAIN votes :
                  votes[i].voter = votes[k].voter => i = k

(* models.py:309-313 and 371-373: the tally uses "timestamp-derived          *)
(* aggregation" and is "immune to out-of-order federation arrivals".  Of a  *)
(* voter's events, the one signed last would be counted.                    *)
LastSignedCounts ==
  \A v \in Voters : \A i \in Latest(v), k \in RowsOf(v) :
    votes[i].event # None /\ votes[k].event # None =>
      votes[k].signed <= votes[i].signed
=============================================================================
