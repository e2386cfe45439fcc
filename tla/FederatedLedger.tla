--------------------------- MODULE FederatedLedger ---------------------------
(***************************************************************************)
(* The FederatedData row of one poll: what other nodes are told of it.     *)
(*                                                                         *)
(* Every save of the poll and every new vote runs a post_save handler that *)
(* reads the row, changes it in memory and writes it back, with a version  *)
(* that decides conflicts between nodes.  Statements are autocommitted, so  *)
(* handlers of different worker processes interleave between any two of    *)
(* them, and a killed worker leaves the rest of its handler undone.  What  *)
(* the admin does in one transaction becomes visible with its last write.  *)
(*                                                                         *)
(* A definition whose name ends in _bug is a mutant of the definition that *)
(* follows it, which nothing else uses.                                    *)
(***************************************************************************)
EXTENDS Integers, FiniteSets, FiniteSetsExt

CONSTANTS
  Options,     \* option texts
  Workers,     \* gunicorn worker processes
  Operations,  \* which of "create", "save", "edit", "delete" occur
  MaxVotes,    \* bound: votes cast
  MaxVersion,  \* bound: no poll save begins at this version
  MaxFailures, \* bound: handlers killed and database errors
  None

VARIABLES
  poll,     \* None, or the is_active flag of the poll row
  options,  \* the rows of PollOption
  current,  \* per option, the number of its vote rows with is_current=True
  cast,     \* history: votes ever inserted, per option
  saves,    \* history: full saves of the row
  ledger,   \* the row of FederatedData, or None
  audit,    \* versions of the row that DataSyncLog records
  failures, \* how many handlers were killed or met an error
  missed,   \* history: handlers of votes that ended without an increment
  unlogged, \* history: versions whose entry in the log was lost with a handler
  overtaken,\* history: processes during whose handler another one wrote a table
  step,     \* what each process does next
  job       \* local variables of its handler

tables == <<poll, options, current, ledger>>
vars   == <<tables, cast, saves, audit, failures, missed, unlogged, overtaken, step, job>>

ASSUME LedgerAssumption ==
  /\ IsFiniteSet(Options) /\ {MaxVotes, MaxVersion, MaxFailures} \subseteq Nat
  /\ Operations \subseteq {"create", "save", "edit", "delete"}

Total(f) == MapThenSumSet(LAMBDA o : f[o], DOMAIN f)
Zero(S)  == [o \in S |-> 0]

(* A row that lists the options S, and the variables of a handler that has   *)
(* read one.                                                                *)
Rows(S) == [counts : [S -> Nat], active : BOOLEAN, version : Nat]
Jobs(S) == [kind : {"save", "edit", "vote"}, active : BOOLEAN, listed : SUBSET Options,
            row : Rows(S), option : Options \cup {None}, count : Nat, version : Nat]
ASSUME NoneAssumption ==
  None \notin BOOLEAN /\ \A S \in SUBSET Options : None \notin Rows(S)

NoRow   == [counts |-> Zero({}), active |-> FALSE, version |-> 0]
NoJob   == [kind |-> "save", active |-> FALSE, listed |-> {}, row |-> NoRow,
            option |-> None, count |-> 0, version |-> 0]
Steps   == {"idle", "list", "get", "put", "find", "count", "bump", "audit", "options"}

Version == IF ledger = None THEN 0 ELSE ledger.version

Init ==
  /\ poll = None /\ options = {} /\ current = Zero(Options)
  /\ cast = Zero(Options) /\ saves = 0
  /\ ledger = None /\ audit = {}
  /\ failures = 0 /\ missed = 0 /\ unlogged = {} /\ overtaken = {}
  /\ step = [w \in Workers |-> "idle"]
  /\ job = [w \in Workers |-> NoJob]

Begin(w, s, j) ==
  /\ step[w] = "idle"
  /\ step' = [step EXCEPT ![w] = s]
  /\ job' = [job EXCEPT ![w] = j]

At(w, s, next) ==
  /\ step[w] = s
  /\ step' = [step EXCEPT ![w] = next]

Quit(w) == job' = [job EXCEPT ![w] = NoJob]
------------------------------------------------------------------------------
(* CreatePollView: one transaction creates the poll and then its options.    *)
(* The handler runs in between and lists none; the handler of an option     *)
(* ignores creations.                                                       *)
CreatePoll(w) ==
  /\ "create" \in Operations
  /\ poll = None /\ ledger = None
  /\ step[w] = "idle"
  /\ poll' = TRUE
  /\ \E S \in SUBSET Options : Cardinality(S) >= 2 /\ options' = S
  /\ ledger' = [counts |-> Zero({}), active |-> TRUE, version |-> 1]
  /\ audit' = audit \cup {1}
  /\ UNCHANGED <<current, cast, saves, step, job>>

(* ingest_poll_event and PollCreateSerializer.create: the poll row is written, *)
(* its handler runs, then missing options are added.                         *)
SavePoll(w, active) ==
  /\ "save" \in Operations /\ Version < MaxVersion
  /\ Begin(w, "list", [NoJob EXCEPT !.kind = "save", !.active = active])
  /\ poll' = active
  /\ UNCHANGED <<options, current, cast, saves, ledger, audit>>

(* An option saved in the admin broadcasts its poll as stored. *)
EditOption(w) ==
  /\ "edit" \in Operations /\ Version < MaxVersion
  /\ poll # None /\ options # {}
  /\ Begin(w, "list", [NoJob EXCEPT !.kind = "edit", !.active = poll])
  /\ UNCHANGED <<poll, options, current, cast, saves, ledger, audit>>

ListOptions(w) ==
  /\ At(w, "list", "get")
  /\ job' = [job EXCEPT ![w].listed = options]
  /\ UNCHANGED <<poll, options, current, cast, saves, ledger, audit>>

(* get_or_create creates version 1, or reads the row for the full save.      *)
GetOrCreate(w) ==
  \/ /\ ledger = None
     /\ At(w, "get", "audit")
     /\ ledger' = [counts |-> Zero(job[w].listed), active |-> job[w].active,
                   version |-> 1]
     /\ job' = [job EXCEPT ![w].version = 1]
     /\ UNCHANGED <<poll, options, current, cast, saves, audit>>
  \/ /\ ledger # None
     /\ At(w, "get", "put")
     /\ job' = [job EXCEPT ![w].row = ledger]
     /\ UNCHANGED <<poll, options, current, cast, saves, ledger, audit>>

(* The save keeps the version it has read. *)
PutRow_bug(w) ==
  /\ At(w, "put", "audit")
  /\ ledger' = [counts |-> Zero(job[w].listed), active |-> job[w].active,
                version |-> job[w].row.version]
  /\ job' = [job EXCEPT ![w].version = @ + 1]
  /\ saves' = saves + 1
  /\ UNCHANGED <<poll, options, current, cast, audit>>

(* The save writes every column.  The counts are those of PollOption.votes,  *)
(* which nothing increments.                                                *)
PutRow(w) ==
  /\ At(w, "put", "audit")
  /\ ledger' = [counts |-> Zero(job[w].listed), active |-> job[w].active,
                version |-> job[w].row.version + 1]
  /\ job' = [job EXCEPT ![w].version = job[w].row.version + 1]
  /\ saves' = saves + 1
  /\ UNCHANGED <<poll, options, current, cast, audit>>

(* A database error is printed, and the request goes on without the row.     *)
SyncFails(w) ==
  /\ failures < MaxFailures
  /\ failures' = failures + 1
  /\ step[w] \in {"get", "put"}
  /\ At(w, step[w], IF job[w].kind = "save" THEN "options" ELSE "idle")
  /\ IF job[w].kind = "save" THEN UNCHANGED job ELSE Quit(w)
  /\ UNCHANGED <<poll, options, current, cast, saves, ledger, audit>>

(* The entry is written with the version read before the save. *)
AuditRow_bug(w) ==
  /\ At(w, "audit", IF job[w].kind = "save" THEN "options" ELSE "idle")
  /\ audit' = audit \cup {job[w].row.version}
  /\ IF job[w].kind = "save" THEN UNCHANGED job ELSE Quit(w)
  /\ UNCHANGED <<poll, options, current, cast, saves, ledger>>

(* log_federated_data_on_save, run by either save of the row. *)
AuditRow(w) ==
  /\ At(w, "audit", IF job[w].kind = "save" THEN "options" ELSE "idle")
  /\ audit' = audit \cup {job[w].version}
  /\ IF job[w].kind = "save" THEN UNCHANGED job ELSE Quit(w)
  /\ UNCHANGED <<poll, options, current, cast, saves, ledger>>

(* A poll deleted meanwhile takes no options. *)
AddOptions(w) ==
  /\ At(w, "options", "idle")
  /\ \E S \in SUBSET (Options \ options) :
       options' = IF poll = None THEN options ELSE options \cup S
  /\ Quit(w)
  /\ UNCHANGED <<poll, current, cast, saves, ledger, audit>>

(* The admin deletes the poll with its options and votes, in a transaction;  *)
(* the handler updates the row without a new version and without a record.  *)
DeletePoll(w) ==
  /\ "delete" \in Operations
  /\ poll # None
  /\ step[w] = "idle"
  /\ poll' = None /\ options' = {} /\ current' = Zero(Options)
  /\ ledger' = IF ledger = None THEN None ELSE [ledger EXCEPT !.active = FALSE]
  /\ UNCHANGED <<cast, saves, audit, step, job>>
------------------------------------------------------------------------------
(* A vote handler inserts a current row.  (BallotBox models the handlers.)   *)
CastVote(w, o) ==
  /\ poll # None /\ o \in options
  /\ Total(cast) < MaxVotes
  /\ Begin(w, "find", [NoJob EXCEPT !.kind = "vote", !.option = o])
  /\ current' = [current EXCEPT ![o] = @ + 1]
  /\ cast' = [cast EXCEPT ![o] = @ + 1]
  /\ UNCHANGED <<poll, options, saves, ledger, audit>>

(* Nothing checks that there is a row to withdraw. *)
WithdrawVote_bug(w, o) ==
  /\ step[w] = "idle" /\ poll # None
  /\ current' = [current EXCEPT ![o] = @ - 1]
  /\ UNCHANGED <<poll, options, cast, saves, ledger, audit, step, job>>

(* A re-vote first clears the flag of the previous row; that save is no      *)
(* creation, and its handler does nothing.                                  *)
WithdrawVote(w, o) ==
  /\ step[w] = "idle"
  /\ current[o] > 0
  /\ current' = [current EXCEPT ![o] = @ - 1]
  /\ UNCHANGED <<poll, options, cast, saves, ledger, audit, step, job>>

(* The vote of a poll without a row is not broadcast. *)
FindRow(w) ==
  /\ UNCHANGED <<poll, options, current, cast, saves, ledger, audit>>
  /\ \/ ledger = None /\ At(w, "find", "idle") /\ Quit(w) /\ missed' = missed + 1
     \/ /\ ledger # None /\ At(w, "find", "count")
        /\ job' = [job EXCEPT ![w].row = ledger]
        /\ UNCHANGED missed

(* The count covers the whole poll. *)
CountVotes_bug(w) ==
  /\ At(w, "count", "bump")
  /\ job' = [job EXCEPT ![w].count = Total(current)]
  /\ UNCHANGED <<poll, options, current, cast, saves, ledger, audit>>

CountVotes(w) ==
  /\ At(w, "count", "bump")
  /\ job' = [job EXCEPT ![w].count = current[job[w].option]]
  /\ UNCHANGED <<poll, options, current, cast, saves, ledger, audit>>

Counted(j) ==
  [o \in DOMAIN j.row.counts |-> IF o = j.option THEN j.count ELSE j.row.counts[o]]

(* The version is computed from the row that was read. *)
BumpRow_bug(w) ==
  /\ At(w, "bump", "audit")
  /\ ledger' = [ledger EXCEPT !.counts = Counted(job[w]),
                              !.version = job[w].row.version + 1]
  /\ job' = [job EXCEPT ![w].version = job[w].row.version + 1]
  /\ UNCHANGED <<poll, options, current, cast, saves, audit>>

(* save() without update_fields. *)
BumpWholeRow_bug(w) ==
  /\ At(w, "bump", "audit")
  /\ ledger' = [job[w].row EXCEPT !.counts = Counted(job[w]),
                                  !.version = ledger.version + 1]
  /\ job' = [job EXCEPT ![w].version = ledger.version + 1]
  /\ UNCHANGED <<poll, options, current, cast, saves, audit>>

(* save(update_fields=["data", "version"]) writes the data it has read, with *)
(* the one new count, and has the database increment the version, whose new *)
(* value it gets back.                                                      *)
BumpRow(w) ==
  /\ At(w, "bump", "audit")
  /\ ledger' = [ledger EXCEPT !.counts = Counted(job[w]), !.version = @ + 1]
  /\ job' = [job EXCEPT ![w].version = ledger.version + 1]
  /\ UNCHANGED <<poll, options, current, cast, saves, audit>>

(* A killed process, or an exception: what a handler has written stays, and  *)
(* the entry of a row that it has written just before is never written.     *)
Crash(w) ==
  /\ failures < MaxFailures
  /\ failures' = failures + 1
  /\ At(w, step[w], "idle")
  /\ step[w] # "idle"
  /\ missed' = IF step[w] \in {"find", "count", "bump"} THEN missed + 1 ELSE missed
  /\ unlogged' = IF step[w] = "audit" THEN unlogged \cup {job[w].version} ELSE unlogged
  /\ Quit(w)
  /\ UNCHANGED <<poll, options, current, cast, saves, ledger, audit>>

Operate(w) ==
  \/ CreatePoll(w) \/ EditOption(w) \/ DeletePoll(w)
  \/ \E active \in BOOLEAN : SavePoll(w, active)
  \/ ListOptions(w) \/ GetOrCreate(w) \/ PutRow(w)
  \/ AuditRow(w) \/ AddOptions(w)
  \/ \E o \in Options : CastVote(w, o) \/ WithdrawVote(w, o)
  \/ CountVotes(w) \/ BumpRow(w)

(* A step of w that writes a table overtakes the handlers of all others.     *)
Overtake(w) ==
  overtaken' = {v \in Workers : /\ step'[v] # "idle"
                                /\ v \in overtaken \/ (v # w /\ tables' # tables)}

Next ==
  \E w \in Workers :
    /\ \/ Operate(w) /\ UNCHANGED <<failures, missed, unlogged>>
       \/ FindRow(w) /\ UNCHANGED <<failures, unlogged>>
       \/ SyncFails(w) /\ UNCHANGED <<missed, unlogged>>
       \/ Crash(w)
    /\ Overtake(w)

Spec == Init /\ [][Next]_vars
------------------------------------------------------------------------------
Idle == \A w \in Workers : step[w] = "idle"

(* Types of the rows and of the handlers' local variables. *)
TypeOK ==
  /\ poll \in BOOLEAN \cup {None}
  /\ options \subseteq Options
  /\ {current, cast} \subseteq [Options -> Nat] /\ saves \in Nat
  /\ ledger = None \/ \E S \in SUBSET Options : ledger \in Rows(S)
  /\ audit \cup unlogged \subseteq Nat /\ {missed, failures} \subseteq Nat
  /\ overtaken \subseteq Workers
  /\ step \in [Workers -> Steps]
  /\ job = [w \in Workers |-> job[w]]
  /\ \A w \in Workers : \E S \in SUBSET Options : job[w] \in Jobs(S)

(* What the row says changes only together with a higher version, the        *)
(* tombstone of a deleted poll excepted; nodes that compare versions miss   *)
(* nothing else, but for what a save writes that another handler overtook.  *)
VersionMarksChange ==
  [][ \/ ledger = None
      \/ ledger'.version > ledger.version
      \/ ledger' = ledger
      \/ poll' = None /\ ledger' = [ledger EXCEPT !.active = FALSE]
      \/ \E w \in overtaken : step[w] = "put" /\ step'[w] = "audit" ]_vars

(* The handler of a vote that nobody overtakes leaves the option's current    *)
(* count in the row, whatever re-votes and refused re-votes came before.     *)
CountIsFresh ==
  [][ \A w \in Workers \ overtaken :
        step[w] = "bump" /\ step'[w] = "audit" /\ job[w].option \in DOMAIN ledger.counts
        => ledger'.counts[job[w].option] = current[job[w].option] ]_vars

(* The row of a deleted poll becomes active again only by a save that the     *)
(* deletion overtook; in particular never by the handler of a vote.         *)
OnlyOvertakenRevive ==
  [][ poll = None /\ ledger # None /\ ~ledger.active /\ ledger'.active
        => \E w \in overtaken : step[w] = "put" /\ step'[w] = "audit" ]_vars

(* Whatever overwrites what, no listed count exceeds the votes cast for the  *)
(* option: handlers that read stale rows can lose votes, not invent them.   *)
NeverOvercounts ==
  ledger # None => \A o \in DOMAIN ledger.counts : ledger.counts[o] <= cast[o]

(* When every handler has ended, the version the row carries is one the      *)
(* audit log records, although the two are written by separate statements:  *)
(* unless the very handler that wrote it was killed before its entry.       *)
AuditNamesVersion ==
  Idle /\ ledger # None => ledger.version \in audit \cup unlogged

(* Concurrent votes each raise the version by one, so that of a row never    *)
(* saved as a whole counts the votes, those aside whose handler was killed; *)
(* a save overwrites increments and adds none of its own beyond one.        *)
VersionCountsVotes ==
  Idle /\ ledger # None =>
    /\ ledger.version + missed <= 1 + Total(cast) + saves
    /\ saves = 0 => ledger.version + missed = 1 + Total(cast)
------------------------------------------------------------------------------
(* The inductive invariant behind TypeOK and NeverOvercounts: a row in the    *)
(* hands of a handler, however stale, exceeds the votes cast nowhere.       *)
RowOK(r) == \A o \in DOMAIN r.counts : r.counts[o] <= cast[o]

JobOK(w) ==
  LET j == job[w] IN
    /\ RowOK(j.row)
    /\ step[w] \in {"find", "count", "bump"} => j.option \in Options
    /\ step[w] \in {"put", "count", "bump"} => ledger # None
    /\ step[w] = "bump" => j.count <= cast[j.option]

IInv ==
  /\ TypeOK
  /\ \A o \in Options : current[o] <= cast[o]
  /\ ledger # None => RowOK(ledger)
  /\ \A w \in Workers : JobOK(w)

(* The row's version has an entry, or a handler that owes it, or was lost    *)
(* with one, and the handlers of votes in flight account for what the       *)
(* version lacks; a full save writes a version that was once within bounds. *)
InFlight == {w \in Workers : step[w] \in {"find", "count", "bump"}}
Balance        == missed + Cardinality(InFlight) - 1 - Total(cast)
Ahead(version) == version + Balance

Unbroken ==
  /\ IsFiniteSet(InFlight) /\ missed \in Nat
  /\ ledger = None => Ahead(1) = 0
  /\ ledger # None =>
       /\ Ahead(ledger.version) <= saves
       /\ saves = 0 => Ahead(ledger.version) = 0
       /\ \/ ledger.version \in audit \cup unlogged
          \/ \E w \in Workers : step[w] = "audit" /\ job[w].version = ledger.version
  /\ \A w \in Workers : step[w] = "put" => Ahead(job[w].row.version) <= saves

(* What a handler that nobody overtook has read is still so when it writes,  *)
(* and its poll has not been deleted.                                       *)
UpToDate(w) ==
  /\ step[w] \in {"put", "count", "bump"} => job[w].row = ledger
  /\ step[w] = "bump" => job[w].count = current[job[w].option]
  /\ step[w] \in {"list", "get", "put"} => poll # None

Undisturbed == \A w \in Workers \ overtaken : UpToDate(w)

------------------------------------------------------------------------------
=============================================================================
