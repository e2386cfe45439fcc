------------------------ MODULE FederatedLedgerProofs ------------------------
(***************************************************************************)
(* Theorems about FederatedLedger: for any options, any number of worker   *)
(* processes, killed at any statement, and any bounds.                     *)
(***************************************************************************)
EXTENDS FederatedLedger, SumTheorems, FiniteSetTheorems, TLAPS

IsJob(j) == \E S \in SUBSET Options : j \in Jobs(S)
IsRow(r) == \E S \in SUBSET Options : r \in Rows(S)

(* The rows, without the handlers' variables. *)
RowTypes ==
  /\ poll \in BOOLEAN \cup {None}
  /\ options \subseteq Options
  /\ current \in [Options -> Nat] /\ cast \in [Options -> Nat] /\ saves \in Nat
  /\ ledger = None \/ IsRow(ledger)
  /\ audit \subseteq Nat

JobTypes ==
  /\ step \in [Workers -> Steps]
  /\ job = [w \in Workers |-> job[w]]
  /\ \A w \in Workers : IsJob(job[w])

HistoryTypes ==
  /\ unlogged \subseteq Nat /\ missed \in Nat /\ failures \in Nat
  /\ overtaken \subseteq Workers

(* TypeOK speaks of the tables, of the workers and of what befell them. *)
LEMMA TypeParts == TypeOK <=> RowTypes /\ JobTypes /\ HistoryTypes
BY DEF TypeOK, RowTypes, JobTypes, HistoryTypes, IsRow, IsJob

(* The invariant, without the history of failures. *)
Core ==
  /\ RowTypes /\ JobTypes
  /\ \A o \in Options : current[o] <= cast[o]
  /\ ledger # None => RowOK(ledger)
  /\ \A w \in Workers : JobOK(w)

LEMMA InvParts == IInv <=> Core /\ HistoryTypes
BY TypeParts DEF IInv, Core

(* The locals at the start of a handler are typed. *)
LEMMA NoJobTyped ==
  /\ IsJob(NoJob) /\ NoJob.row.counts = Zero({})
  /\ \A k \in {"save", "edit"}, a \in BOOLEAN :
       LET j == [NoJob EXCEPT !.kind = k, !.active = a]
       IN  IsJob(j) /\ j.row = NoJob.row
  /\ \A o \in Options :
       LET j == [NoJob EXCEPT !.kind = "vote", !.option = o]
       IN  IsJob(j) /\ j.row = NoJob.row /\ j.option = o
<1>1. NoRow \in Rows({})
  BY DEF NoRow, Rows, Zero
<1>2. /\ NoJob \in Jobs({}) /\ NoJob.row = NoRow
      /\ \A k \in {"save", "edit"}, a \in BOOLEAN :
           LET j == [NoJob EXCEPT !.kind = k, !.active = a]
           IN  j \in Jobs({}) /\ j.row = NoRow
      /\ \A o \in Options :
           LET j == [NoJob EXCEPT !.kind = "vote", !.option = o]
           IN  j \in Jobs({}) /\ j.row = NoRow /\ j.option = o
  BY <1>1 DEF NoJob, Jobs
<1>3. NoRow.counts = Zero({})
  BY DEF NoRow
<1>4. \A j : j \in Jobs({}) => IsJob(j)
  BY DEF IsJob
<1> QED
  BY <1>2, <1>3, <1>4

(* They count nothing. *)
LEMMA NoJobEmpty == NoJob.row.counts = Zero({}) /\ DOMAIN Zero({}) = {}
BY NoJobTyped DEF Zero

(* A row that counts nothing is typed. *)
LEMMA ZeroRow ==
  ASSUME NEW S \in SUBSET Options, NEW a \in BOOLEAN, NEW n \in Nat
  PROVE  /\ [counts |-> Zero(S), active |-> a, version |-> n] \in Rows(S)
         /\ DOMAIN Zero(S) = S /\ \A o \in S : Zero(S)[o] = 0
BY DEF Zero, Rows

(* Only process w moves, to step s with the local variables j.              *)
Moves(w, s, j) ==
  /\ step' = [step EXCEPT ![w] = s]
  /\ job' = [job EXCEPT ![w] = j]

(* A worker moves and the others stay. *)
LEMMA MoveTypes ==
  ASSUME JobTypes, NEW w \in Workers, NEW s \in Steps, NEW j, IsJob(j),
         Moves(w, s, j)
  PROVE  /\ JobTypes'
         /\ step'[w] = s /\ job'[w] = j
         /\ \A u \in Workers \ {w} : step'[u] = step[u] /\ job'[u] = job[u]
<1>1. /\ step' \in [Workers -> Steps] /\ step'[w] = s
      /\ job' = [u \in Workers |-> job'[u]] /\ job'[w] = j
      /\ \A u \in Workers \ {w} : step'[u] = step[u] /\ job'[u] = job[u]
  BY DEF JobTypes, Moves
<1> QED
  BY <1>1 DEF JobTypes, IsJob

(* If the votes only grow and the row stays one, the handlers of the other   *)
(* processes are where they were.                                           *)
LEMMA MoveStep ==
  ASSUME IInv, RowTypes', NEW w \in Workers, NEW s \in Steps, NEW j, IsJob(j),
         Moves(w, s, j), \A o \in Options : cast[o] <= cast'[o],
         \A o \in Options : current'[o] <= cast'[o],
         ledger # None => ledger' # None,
         ledger' # None => RowOK(ledger)',
         \A o \in DOMAIN j.row.counts : j.row.counts[o] <= cast'[o],
         s \in {"find", "count", "bump"} => j.option \in Options,
         s \in {"put", "count", "bump"} => ledger' # None,
         s = "bump" => j.count <= cast'[j.option]
  PROVE  Core'
<1>1. JobTypes /\ RowTypes
  BY TypeParts DEF IInv
<1>2. /\ JobTypes' /\ step'[w] = s /\ job'[w] = j
      /\ \A u \in Workers \ {w} : step'[u] = step[u] /\ job'[u] = job[u]
  BY <1>1, MoveTypes
<1>4. JobOK(w)'
  BY <1>2 DEF JobOK, RowOK
<1>5. ASSUME NEW u \in Workers \ {w} PROVE JobOK(u)'
  <2>1. JobOK(u) /\ step'[u] = step[u] /\ job'[u] = job[u]
    BY <1>2 DEF IInv
  <2>2. PICK S \in SUBSET Options : job[u] \in Jobs(S)
    BY <1>1 DEF JobTypes, IsJob
  <2>3. job[u].row.counts \in [S -> Nat] /\ job[u].count \in Nat
    BY <2>2 DEF Jobs, Rows
  <2>4. cast \in [Options -> Nat] /\ cast' \in [Options -> Nat]
    BY <1>1 DEF RowTypes
  <2>5. \A o \in DOMAIN job[u].row.counts : job[u].row.counts[o] <= cast'[o]
    BY <2>1, <2>3, <2>4 DEF JobOK, RowOK
  <2>6. step[u] = "bump" => job[u].count <= cast'[job[u].option]
    BY <2>1, <2>3, <2>4 DEF JobOK
  <2> QED
    BY <2>1, <2>5, <2>6 DEF JobOK, RowOK
<1> QED
  BY <1>2, <1>4, <1>5 DEF Core

(* The special case in which a handler only reads. *)
LEMMA ReadStep ==
  ASSUME IInv, NEW w \in Workers, NEW s \in Steps, NEW j, IsJob(j), Moves(w, s, j),
         UNCHANGED <<poll, options, current, cast, saves, ledger>>, audit' \subseteq Nat,
         RowOK(j.row),
         s \in {"find", "count", "bump"} => j.option \in Options,
         s \in {"put", "count", "bump"} => ledger # None,
         s = "bump" => j.count <= cast[j.option]
  PROVE  Core'
<1>1. RowTypes
  BY TypeParts DEF IInv
<1>2. RowTypes'
  BY <1>1 DEF RowTypes, IsRow
<1>3. \A o \in Options : cast[o] <= cast'[o]
  BY <1>1 DEF RowTypes
<1>4. ledger' # None => RowOK(ledger)'
  BY DEF IInv, RowOK
<1> QED
  BY <1>2, <1>3, <1>4, MoveStep DEF IInv, RowOK
------------------------------------------------------------------------------
(* What IInv says of one process. *)
LEMMA Facts ==
  ASSUME IInv, NEW w \in Workers
  PROVE  /\ RowTypes /\ JobTypes /\ JobOK(w) /\ step[w] \in Steps
         /\ \E S \in SUBSET Options : job[w] \in Jobs(S)
BY TypeParts DEF IInv, JobTypes, IsJob

(* The ways in which a handler moves. *)
LEMMA MoveForms ==
  ASSUME JobTypes, NEW w \in Workers, NEW s, NEW j
  PROVE  /\ Begin(w, s, j) => Moves(w, s, j) /\ step[w] = "idle"
         /\ \A t : At(w, t, s) /\ job' = job => Moves(w, s, job[w]) /\ step[w] = t
         /\ \A t : At(w, t, s) /\ job' = [job EXCEPT ![w] = j]
                 => Moves(w, s, j) /\ step[w] = t
<1>1. job = [job EXCEPT ![w] = job[w]]
  BY DEF JobTypes
<1> QED
  BY <1>1 DEF Begin, At, Moves

(* A handler ends without touching a table but the log. *)
LEMMA QuitStep ==
  ASSUME IInv, NEW w \in Workers, NEW t, At(w, t, "idle"), Quit(w),
         UNCHANGED <<poll, options, current, cast, saves, ledger>>, audit' \subseteq Nat
  PROVE  Core'
<1>1. Moves(w, "idle", NoJob)
  BY DEF Quit, At, Moves
<1>2. RowOK(NoJob.row)
  BY NoJobTyped, ZeroRow DEF RowOK, Zero
<1> QED
  BY <1>1, <1>2, NoJobTyped, ReadStep DEF Steps

(* A handler goes on with the same locals. *)
LEMMA StayStep ==
  ASSUME IInv, NEW w \in Workers, NEW t, NEW s \in {"options", "audit", "get"},
         At(w, t, s), UNCHANGED job,
         UNCHANGED <<poll, options, current, cast, saves, ledger>>, audit' \subseteq Nat
  PROVE  Core'
<1>1. JobTypes /\ JobOK(w) /\ IsJob(job[w])
  BY Facts DEF JobTypes
<1>2. Moves(w, s, job[w])
  BY <1>1, MoveForms
<1> QED
  BY <1>1, <1>2, ReadStep DEF JobOK, Steps

(* Operations that leave every handler where it is. *)
LEMMA RowsStep ==
  ASSUME IInv, RowTypes', UNCHANGED <<step, job, cast, saves>>,
         \A o \in Options : current'[o] <= cast[o],
         ledger # None => ledger' # None,
         ledger' # None => RowOK(ledger)'
  PROVE  Core'
<1>1. JobTypes'
  BY TypeParts DEF IInv, JobTypes, IsJob
<1>3. ASSUME NEW w \in Workers PROVE JobOK(w)'
  BY DEF IInv, JobOK, RowOK
<1> QED
  BY <1>1, <1>3 DEF Core

(* A poll is created. *)
LEMMA CreateStep ==
  ASSUME IInv, NEW w \in Workers, CreatePoll(w)
  PROVE  Core'
<1> DEFINE r == [counts |-> Zero({}), active |-> TRUE, version |-> 1]
<1>1. r \in Rows({}) /\ DOMAIN r.counts = {}
  BY ZeroRow
<1>2. ledger' = r /\ UNCHANGED <<step, job, cast, saves, current>> /\ poll' = TRUE
      /\ options' \subseteq Options /\ audit' = audit \cup {1}
  BY DEF CreatePoll
<1> HIDE DEF r
<1>3. RowTypes'
  BY <1>1, <1>2, TypeParts DEF IInv, RowTypes, IsRow
<1>4. RowOK(ledger)'
  BY <1>1, <1>2 DEF RowOK
<1> QED
  BY <1>2, <1>3, <1>4, RowsStep, <1>1, NoneAssumption DEF IInv

(* A poll is deleted. *)
LEMMA DeleteStep ==
  ASSUME IInv, NEW w \in Workers, DeletePoll(w)
  PROVE  Core'
<1>1. /\ UNCHANGED <<step, job, cast, saves, audit>> /\ poll' = None /\ options' = {}
      /\ current' = Zero(Options)
      /\ ledger' = IF ledger = None THEN None ELSE [ledger EXCEPT !.active = FALSE]
  BY DEF DeletePoll
<1>2. RowTypes
  BY TypeParts DEF IInv
<1>3. current' \in [Options -> Nat] /\ \A o \in Options : current'[o] <= cast[o]
  BY <1>1, <1>2 DEF RowTypes, Zero
<1>4. CASE ledger = None
  BY <1>1, <1>2, <1>3, <1>4, RowsStep DEF RowTypes
<1>5. CASE ledger # None
  <2>1. PICK S \in SUBSET Options : ledger \in Rows(S)
    BY <1>2, <1>5 DEF RowTypes, IsRow
  <2>2. ledger' \in Rows(S) /\ ledger'.counts = ledger.counts
    BY <1>1, <1>5, <2>1 DEF Rows
  <2>3. RowOK(ledger)'
    BY <1>1, <1>5, <2>2 DEF IInv, RowOK
  <2>4. RowTypes'
    BY <1>1, <1>2, <1>3, <2>2 DEF RowTypes, IsRow
  <2> QED
    BY <1>1, <1>3, <2>2, <2>3, <2>4, NoneAssumption, RowsStep
<1> QED
  BY <1>4, <1>5

(* A current vote is withdrawn. *)
LEMMA WithdrawStep ==
  ASSUME IInv, NEW w \in Workers, NEW o \in Options, WithdrawVote(w, o)
  PROVE  Core'
<1>1. RowTypes
  BY TypeParts DEF IInv
<1>2. /\ UNCHANGED <<step, job, cast, saves, poll, options, ledger, audit>>
      /\ current' = [current EXCEPT ![o] = @ - 1] /\ current[o] > 0
  BY DEF WithdrawVote
<1>3. /\ current' \in [Options -> Nat]
      /\ \A p \in Options : current'[p] <= current[p]
  BY <1>1, <1>2 DEF RowTypes
<1>4. \A p \in Options : current'[p] <= cast[p]
  BY <1>1, <1>3 DEF IInv, RowTypes
<1>5. RowTypes'
  BY <1>1, <1>2, <1>3 DEF RowTypes, IsRow
<1>6. ledger' # None => RowOK(ledger)'
  BY <1>2 DEF IInv, RowOK
<1> QED
  BY <1>2, <1>4, <1>5, <1>6, RowsStep

(* A poll or an option is saved. *)
LEMMA SaveStep ==
  ASSUME IInv, NEW w \in Workers,
         (\E a \in BOOLEAN : SavePoll(w, a)) \/ EditOption(w)
  PROVE  Core'
<1>1. PICK k \in {"save", "edit"}, a \in BOOLEAN :
        /\ Begin(w, "list", [NoJob EXCEPT !.kind = k, !.active = a])
        /\ UNCHANGED <<options, current, cast, saves, ledger, audit>>
        /\ poll' \in BOOLEAN \cup {None}
  BY TypeParts DEF SavePoll, EditOption, IInv, RowTypes
<1> DEFINE j == [NoJob EXCEPT !.kind = k, !.active = a]
<1>2. IsJob(j) /\ j.row = NoJob.row
  BY NoJobTyped
<1>3. RowTypes /\ JobTypes
  BY TypeParts DEF IInv
<1> HIDE DEF j
<1>4. Moves(w, "list", j)
  BY <1>1, <1>3, MoveForms DEF j
<1>5. RowTypes'
  BY <1>1, <1>3 DEF RowTypes, IsRow
<1>6. /\ \A o \in Options : cast[o] <= cast'[o] /\ current'[o] <= cast'[o]
      /\ ledger' # None => RowOK(ledger)'
      /\ \A o \in DOMAIN j.row.counts : j.row.counts[o] <= cast'[o]
  BY <1>1, <1>2, <1>3, NoJobEmpty DEF IInv, RowTypes, RowOK
<1> QED
  BY <1>1, <1>2, <1>4, <1>5, <1>6, MoveStep DEF Steps

(* The options of the poll are read. *)
LEMMA ListStep ==
  ASSUME IInv, NEW w \in Workers, ListOptions(w)
  PROVE  Core'
<1>1. RowTypes /\ JobTypes /\ JobOK(w)
  BY Facts
<1>2. PICK S \in SUBSET Options : job[w] \in Jobs(S)
  BY Facts
<1> DEFINE j == [job[w] EXCEPT !.listed = options]
<1>3. j \in Jobs(S) /\ j.row = job[w].row
  BY <1>1, <1>2 DEF RowTypes, Jobs
<1>4. job' = [job EXCEPT ![w] = j] /\ At(w, "list", "get")
  BY <1>1 DEF ListOptions, JobTypes
<1> HIDE DEF j
<1>5. Moves(w, "get", j)
  BY <1>1, <1>4, MoveForms
<1>6. /\ UNCHANGED <<poll, options, current, cast, saves, ledger>> /\ audit' \subseteq Nat
      /\ RowOK(j.row) /\ IsJob(j)
  BY <1>1, <1>3 DEF ListOptions, RowTypes, JobOK, IsJob
<1> QED
  BY <1>5, <1>6, ReadStep DEF Steps

(* The row that a handler has written, or is about to overwrite. *)
LEMMA WriteStep ==
  ASSUME IInv, NEW w \in Workers, NEW n \in Nat, NEW r, IsRow(r), RowOK(r),
         Moves(w, "audit", [job[w] EXCEPT !.version = n]), ledger' = r,
         saves' \in Nat, UNCHANGED <<poll, options, current, cast, audit>>
  PROVE  Core'
<1>1. RowTypes /\ JobTypes /\ JobOK(w)
  BY Facts
<1>2. PICK S \in SUBSET Options : job[w] \in Jobs(S)
  BY Facts
<1> DEFINE j == [job[w] EXCEPT !.version = n]
<1>3. j \in Jobs(S) /\ j.row = job[w].row
  BY <1>2 DEF Jobs
<1>4. Moves(w, "audit", j)
  OBVIOUS
<1> HIDE DEF j
<1>5. RowTypes' /\ IsJob(j) /\ ledger' # None
  BY <1>1, <1>3, NoneAssumption DEF RowTypes, IsJob, IsRow
<1>6. /\ RowOK(ledger)'
      /\ \A o \in DOMAIN j.row.counts : j.row.counts[o] <= cast'[o]
      /\ \A o \in Options : cast[o] <= cast'[o] /\ current'[o] <= cast'[o]
  BY <1>1, <1>3 DEF RowOK, JobOK, IInv, RowTypes
<1> QED
  BY <1>4, <1>5, <1>6, MoveStep DEF Steps

(* The ledger is written from a list of options. *)
LEMMA PutStep ==
  ASSUME IInv, NEW w \in Workers, PutRow(w)
  PROVE  Core'
<1>1. JobTypes /\ JobOK(w)
  BY Facts
<1>2. PICK S \in SUBSET Options : job[w] \in Jobs(S)
  BY Facts
<1>3. /\ job[w].listed \in SUBSET Options /\ job[w].active \in BOOLEAN
      /\ job[w].row.version + 1 \in Nat
  BY <1>2 DEF Jobs, Rows
<1> DEFINE n == job[w].row.version + 1
           r == [counts |-> Zero(job[w].listed), active |-> job[w].active, version |-> n]
<1>4. IsRow(r) /\ r.counts = Zero(job[w].listed)
  BY <1>3, ZeroRow DEF IsRow
<1>5. RowOK(r)
  BY <1>3, <1>4, ZeroRow, Facts DEF RowOK, RowTypes
<1>6. /\ ledger' = r /\ UNCHANGED <<poll, options, current, cast, audit>>
      /\ saves' = saves + 1
      /\ job' = [job EXCEPT ![w] = [job[w] EXCEPT !.version = n]]
      /\ At(w, "put", "audit")
  BY <1>1 DEF PutRow, JobTypes
<1> HIDE DEF r, n
<1>7. Moves(w, "audit", [job[w] EXCEPT !.version = n])
  BY <1>6 DEF At, Moves
<1>8. n \in Nat
  BY <1>3 DEF n
<1>9. saves' \in Nat
  BY <1>6, Facts DEF RowTypes
<1> QED
  BY <1>4, <1>5, <1>6, <1>7, <1>8, <1>9, WriteStep

(* The row is found or created. *)
LEMMA GetStep ==
  ASSUME IInv, NEW w \in Workers, GetOrCreate(w)
  PROVE  Core'
<1>1. RowTypes /\ JobTypes /\ JobOK(w)
  BY Facts
<1>2. PICK S \in SUBSET Options : job[w] \in Jobs(S)
  BY Facts
<1>3. job[w].listed \in SUBSET Options /\ job[w].active \in BOOLEAN
  BY <1>2 DEF Jobs
<1>4. CASE ledger = None
  <2> DEFINE r == [counts |-> Zero(job[w].listed), active |-> job[w].active,
                   version |-> 1]
  <2>1. IsRow(r) /\ RowOK(r)
    BY <1>1, <1>3, ZeroRow DEF IsRow, RowOK, RowTypes
  <2>2. /\ ledger' = r /\ UNCHANGED <<poll, options, current, cast, saves, audit>>
        /\ job' = [job EXCEPT ![w] = [job[w] EXCEPT !.version = 1]]
        /\ At(w, "get", "audit")
    BY <1>1, <1>4 DEF GetOrCreate, JobTypes
  <2> HIDE DEF r
  <2>3. Moves(w, "audit", [job[w] EXCEPT !.version = 1])
    BY <2>2 DEF At, Moves
  <2>4. saves' \in Nat
    BY <1>1, <2>2 DEF RowTypes
  <2> QED
    BY <2>1, <2>2, <2>3, <2>4, WriteStep
<1>5. CASE ledger # None
  <2> DEFINE j == [job[w] EXCEPT !.row = ledger]
  <2>1. PICK R \in SUBSET Options : ledger \in Rows(R)
    BY <1>1, <1>5 DEF RowTypes, IsRow
  <2>2. j \in Jobs(R) /\ j.row = ledger
    BY <1>2, <2>1 DEF Jobs
  <2>3. /\ job' = [job EXCEPT ![w] = j] /\ At(w, "get", "put")
        /\ UNCHANGED <<poll, options, current, cast, saves, ledger, audit>>
    BY <1>1, <1>5 DEF GetOrCreate, JobTypes
  <2> HIDE DEF j
  <2>4. Moves(w, "put", j) /\ IsJob(j) /\ RowOK(j.row) /\ audit' \subseteq Nat
    BY <1>1, <1>5, <2>2, <2>3, MoveForms DEF IsJob, IInv, RowTypes
  <2> QED
    BY <1>5, <2>3, <2>4, ReadStep DEF Steps
<1> QED
  BY <1>4, <1>5

(* The log entry of a row. *)
LEMMA AuditStep ==
  ASSUME IInv, NEW w \in Workers, AuditRow(w)
  PROVE  Core'
<1>1. UNCHANGED <<poll, options, current, cast, saves, ledger>> /\ audit' \subseteq Nat
  <2>1. PICK S \in SUBSET Options : job[w] \in Jobs(S)
    BY Facts
  <2> QED
    BY <2>1, Facts DEF AuditRow, RowTypes, Jobs
<1>2. CASE job[w].kind = "save"
  BY <1>1, <1>2, StayStep DEF AuditRow
<1>3. CASE job[w].kind # "save"
  BY <1>1, <1>3, QuitStep DEF AuditRow
<1> QED
  BY <1>2, <1>3

(* A handler fails or is killed. *)
LEMMA FailStep ==
  ASSUME IInv, NEW w \in Workers, SyncFails(w) \/ Crash(w)
  PROVE  Core'
<1>1. UNCHANGED <<poll, options, current, cast, saves, ledger>> /\ audit' \subseteq Nat
  BY Facts DEF SyncFails, Crash, RowTypes
<1>2. CASE Crash(w)
  BY <1>1, <1>2, QuitStep DEF Crash
<1>3. CASE SyncFails(w)
  <2>1. CASE job[w].kind = "save"
    BY <1>1, <1>3, <2>1, StayStep DEF SyncFails
  <2>2. CASE job[w].kind # "save"
    BY <1>1, <1>3, <2>2, QuitStep DEF SyncFails
  <2> QED
    BY <2>1, <2>2
<1> QED
  BY <1>2, <1>3

(* Options are added. *)
LEMMA AddStep ==
  ASSUME IInv, NEW w \in Workers, AddOptions(w)
  PROVE  Core'
<1>1. /\ options' \subseteq Options /\ At(w, "options", "idle")
      /\ job' = [job EXCEPT ![w] = NoJob]
      /\ UNCHANGED <<poll, current, cast, saves, ledger, audit>>
  BY Facts DEF AddOptions, RowTypes, Quit
<1>2. RowTypes /\ RowTypes' /\ Moves(w, "idle", NoJob)
  BY <1>1, Facts DEF RowTypes, IsRow, At, Moves
<1>3. /\ \A o \in Options : cast[o] <= cast'[o] /\ current'[o] <= cast'[o]
      /\ ledger' # None => RowOK(ledger)'
      /\ \A o \in DOMAIN NoJob.row.counts : NoJob.row.counts[o] <= cast'[o]
  BY <1>1, <1>2, NoJobEmpty DEF IInv, RowTypes, RowOK
<1> QED
  BY <1>1, <1>2, <1>3, NoJobTyped, MoveStep DEF Steps

(* A new vote raises the count it will be compared with. *)
LEMMA CastStep ==
  ASSUME IInv, NEW w \in Workers, NEW o \in Options, CastVote(w, o)
  PROVE  Core'
<1>1. RowTypes /\ JobTypes
  BY Facts
<1> DEFINE j == [NoJob EXCEPT !.kind = "vote", !.option = o]
<1>2. IsJob(j) /\ j.row = NoJob.row /\ j.option = o
  BY NoJobTyped
<1>3. /\ Begin(w, "find", j) /\ UNCHANGED <<poll, options, saves, ledger, audit>>
      /\ current' = [current EXCEPT ![o] = @ + 1]
      /\ cast' = [cast EXCEPT ![o] = @ + 1]
  BY DEF CastVote
<1> HIDE DEF j
<1>4. /\ current' \in [Options -> Nat] /\ cast' \in [Options -> Nat]
      /\ \A p \in Options : cast[p] <= cast'[p] /\ current'[p] <= cast'[p]
  BY <1>1, <1>3 DEF IInv, RowTypes
<1>5. RowTypes' /\ Moves(w, "find", j)
  BY <1>1, <1>3, <1>4, MoveForms DEF RowTypes, IsRow
<1>6. ledger' # None => RowOK(ledger)'
  <2> SUFFICES ASSUME ledger # None PROVE RowOK(ledger)'
    BY <1>3
  <2>1. PICK S \in SUBSET Options : ledger \in Rows(S)
    BY <1>1 DEF RowTypes, IsRow
  <2>2. ledger.counts \in [S -> Nat]
    BY <2>1 DEF Rows
  <2> QED
    BY <1>1, <1>3, <1>4, <2>2 DEF IInv, RowOK, RowTypes
<1>7. \A p \in DOMAIN j.row.counts : j.row.counts[p] <= cast'[p]
  BY <1>2, NoJobTyped DEF Zero
<1> QED
  BY <1>2, <1>3, <1>4, <1>5, <1>6, <1>7, MoveStep DEF Steps

(* The row is read. *)
LEMMA FindStep ==
  ASSUME IInv, NEW w \in Workers, FindRow(w)
  PROVE  Core'
<1>1. RowTypes /\ JobTypes /\ JobOK(w)
  BY Facts
<1>2. PICK S \in SUBSET Options : job[w] \in Jobs(S)
  BY Facts
<1>3. UNCHANGED <<poll, options, current, cast, saves, ledger>> /\ audit' \subseteq Nat
  BY <1>1 DEF FindRow, RowTypes
<1>4. CASE ledger = None
  BY <1>3, <1>4, QuitStep DEF FindRow
<1>5. CASE ledger # None
  <2> DEFINE j == [job[w] EXCEPT !.row = ledger]
  <2>1. PICK R \in SUBSET Options : ledger \in Rows(R)
    BY <1>1, <1>5 DEF RowTypes, IsRow
  <2>2. j \in Jobs(R) /\ j.row = ledger /\ j.option = job[w].option
    BY <1>2, <2>1 DEF Jobs
  <2>3. job' = [job EXCEPT ![w] = j] /\ At(w, "find", "count")
    BY <1>1, <1>5 DEF FindRow, JobTypes
  <2> HIDE DEF j
  <2>4. /\ Moves(w, "count", j) /\ step[w] = "find"
        /\ IsJob(j) /\ RowOK(j.row)
    BY <1>1, <1>5, <2>2, <2>3, MoveForms DEF IsJob, IInv
  <2> QED
    BY <1>1, <1>3, <1>5, <2>2, <2>4, ReadStep DEF JobOK, Steps
<1> QED
  BY <1>4, <1>5

(* The votes of an option are counted. *)
LEMMA CountStep ==
  ASSUME IInv, NEW w \in Workers, CountVotes(w)
  PROVE  Core'
<1>1. RowTypes /\ JobTypes /\ JobOK(w)
  BY Facts
<1>2. PICK S \in SUBSET Options : job[w] \in Jobs(S)
  BY Facts
<1>3. /\ UNCHANGED <<poll, options, current, cast, saves, ledger>> /\ audit' \subseteq Nat
      /\ step[w] = "count" /\ job[w].option \in Options /\ ledger # None
  BY <1>1 DEF CountVotes, RowTypes, JobOK, At
<1> DEFINE c == current[job[w].option]
           j == [job[w] EXCEPT !.count = c]
<1>4. c \in Nat /\ c <= cast[job[w].option]
  BY <1>1, <1>3 DEF IInv, RowTypes
<1>5. /\ j \in Jobs(S) /\ j.row = job[w].row /\ j.option = job[w].option
      /\ j.count = c
  BY <1>2, <1>4 DEF Jobs
<1>6. job' = [job EXCEPT ![w] = j] /\ At(w, "count", "bump")
  BY <1>1 DEF CountVotes, JobTypes
<1> HIDE DEF j, c
<1>7. Moves(w, "bump", j) /\ IsJob(j) /\ RowOK(j.row)
  BY <1>1, <1>5, <1>6, MoveForms DEF IsJob, JobOK
<1> QED
  BY <1>3, <1>4, <1>5, <1>7, ReadStep DEF Steps

(* The row is written with the next version. *)
LEMMA BumpStep ==
  ASSUME IInv, NEW w \in Workers, BumpRow(w)
  PROVE  Core'
<1>1. RowTypes /\ JobTypes /\ JobOK(w) /\ step[w] = "bump"
  BY Facts DEF BumpRow, At
<1>2. PICK S \in SUBSET Options : job[w] \in Jobs(S)
  BY Facts
<1>3. PICK R \in SUBSET Options : ledger \in Rows(R)
  BY <1>1 DEF RowTypes, IsRow, JobOK
<1> DEFINE n == ledger.version + 1
           r == [ledger EXCEPT !.counts = Counted(job[w]), !.version = n]
<1>4. n \in Nat
  BY <1>3 DEF Rows
<1>5. job[w].row.counts \in [S -> Nat] /\ job[w].count \in Nat
  BY <1>2 DEF Jobs, Rows
<1>6. /\ Counted(job[w]) \in [S -> Nat]
      /\ \A o \in S : Counted(job[w])[o] <= cast[o]
  BY <1>1, <1>5 DEF Counted, JobOK, RowOK
<1>7. r \in Rows(S) /\ r.counts = Counted(job[w])
  BY <1>3, <1>4, <1>6 DEF Rows
<1>8. /\ ledger' = r /\ UNCHANGED <<poll, options, current, cast, saves, audit>>
      /\ job' = [job EXCEPT ![w] = [job[w] EXCEPT !.version = n]]
      /\ At(w, "bump", "audit")
  BY <1>1, <1>3 DEF BumpRow, JobTypes, Rows
<1> HIDE DEF r, n
<1>9. Moves(w, "audit", [job[w] EXCEPT !.version = n])
  BY <1>8 DEF At, Moves
<1>10. IsRow(r) /\ RowOK(r)
  BY <1>6, <1>7 DEF IsRow, RowOK
<1>11. saves' \in Nat
  BY <1>1, <1>8 DEF RowTypes
<1> QED
  BY <1>4, <1>8, <1>9, <1>10, <1>11, WriteStep

(* The invariant holds at the start. *)
LEMMA InitInv == Init => IInv
<1> SUFFICES ASSUME Init PROVE IInv
  OBVIOUS
<1>1. RowTypes /\ HistoryTypes
  BY DEF Init, RowTypes, HistoryTypes, Zero
<1>2. JobTypes
  BY NoJobTyped DEF Init, JobTypes, Steps
<1>3. \A o \in Options : current[o] <= cast[o]
  BY DEF Init, Zero
<1>4. \A w \in Workers : JobOK(w)
  BY NoJobTyped DEF Init, JobOK, RowOK, Zero
<1> QED
  BY <1>1, <1>2, <1>3, <1>4, TypeParts DEF IInv, Init

(* What Next does, without the marks of Overtake. *)
LEMMA NextCases ==
  ASSUME Next
  PROVE  \E w \in Workers :
           /\ \/ Operate(w) /\ UNCHANGED <<failures, missed, unlogged>>
              \/ FindRow(w) /\ UNCHANGED <<failures, unlogged>>
              \/ SyncFails(w) /\ UNCHANGED <<missed, unlogged>>
              \/ Crash(w)
           /\ Overtake(w)
BY DEF Next

(* Failures are counted, and entries of the log go missing, by version.      *)
LEMMA HistoryStep ==
  ASSUME IInv, Next
  PROVE  HistoryTypes'
<1>1. PICK w \in Workers :
        /\ \/ Operate(w) /\ UNCHANGED <<failures, missed, unlogged>>
           \/ FindRow(w) /\ UNCHANGED <<failures, unlogged>>
           \/ SyncFails(w) /\ UNCHANGED <<missed, unlogged>>
           \/ Crash(w)
        /\ Overtake(w)
  BY NextCases
<1>2. overtaken' \subseteq Workers
  BY <1>1 DEF Overtake
<1>3. HistoryTypes
  BY InvParts
<1>4. job[w].version \in Nat
  BY Facts DEF Jobs
<1>5. missed' \in {missed, missed + 1} /\ failures' \in {failures, failures + 1}
      /\ unlogged' \subseteq unlogged \cup {job[w].version}
  BY <1>1 DEF FindRow, SyncFails, Crash
<1>6. missed' \in Nat /\ failures' \in Nat
  BY <1>3, <1>5 DEF HistoryTypes
<1>7. unlogged' \subseteq Nat
  BY <1>3, <1>4, <1>5 DEF HistoryTypes
<1> QED
  BY <1>2, <1>6, <1>7 DEF HistoryTypes

(* Every step keeps the invariant. *)
LEMMA InvStep == IInv /\ [Next]_vars => IInv'
<1> SUFFICES ASSUME IInv, [Next]_vars PROVE IInv'
  OBVIOUS
<1>1. CASE UNCHANGED vars
  <2>1. Core /\ HistoryTypes
    BY InvParts
  <2>2. Core' /\ HistoryTypes'
    BY <1>1, <2>1 DEF vars, tables, Core, HistoryTypes, RowTypes, JobTypes, IsRow, IsJob,
       JobOK, RowOK
  <2> QED
    BY <2>2, InvParts, PTL
<1>2. CASE Next
  <2>1. PICK w \in Workers : Operate(w) \/ FindRow(w) \/ SyncFails(w) \/ Crash(w)
    BY <1>2, NextCases
  <2>2. Core'
    BY <2>1, CreateStep, SaveStep, DeleteStep, ListStep, GetStep, PutStep, FailStep,
       AuditStep, AddStep, CastStep, WithdrawStep, FindStep, CountStep, BumpStep DEF Operate
  <2>3. HistoryTypes'
    BY <1>2, HistoryStep
  <2> QED
    BY <2>2, <2>3, InvParts, PTL
<1> QED
  BY <1>1, <1>2

(* The inductive invariant: types, rows, and what every handler in flight    *)
(* may still write.                                                         *)
THEOREM Invariant == Spec => []IInv
BY InitInv, InvStep, PTL DEF Spec

(* Every reachable state is well typed, for any number of processes. *)
THEOREM TypeCorrect == Spec => []TypeOK
<1>1. IInv => TypeOK
  BY DEF IInv
<1> QED
  BY <1>1, Invariant, PTL

(* However many handlers overwrite each other with stale rows, no listed     *)
(* count exceeds the votes cast for its option.                             *)
THEOREM NeverOvercountsHolds == Spec => []NeverOvercounts
<1>1. IInv => NeverOvercounts
  BY DEF IInv, NeverOvercounts, RowOK
<1> QED
  BY <1>1, Invariant, PTL
------------------------------------------------------------------------------
(* Versions, votes in flight, and the audit log.                             *)

(* One more vote raises the total by one. *)
LEMMA TotalAfterVote ==
  ASSUME RowTypes, NEW o \in Options, cast' = [cast EXCEPT ![o] = @ + 1]
  PROVE  Total(cast) \in Int /\ Total(cast)' = Total(cast) + 1
<1>1. IsFiniteSet(Options)
  BY LedgerAssumption
<1>2. /\ \A p \in Options : cast[p] \in Int
      /\ cast'[o] \in Int /\ cast'[o] = cast[o] + 1
      /\ \A p \in Options \ {o} : cast'[p] = cast[p]
  BY DEF RowTypes
<1>3. DOMAIN cast = Options /\ DOMAIN cast' = Options
  BY DEF RowTypes
<1>4. SumOver(cast', Options) = SumOver(cast, Options) + (cast'[o] - cast[o])
  <2> DEFINE g == cast'
  <2>1. g[o] \in Int /\ \A p \in Options \ {o} : g[p] = cast[p]
    BY <1>2
  <2> HIDE DEF g
  <2>2. SumOver(g, Options) = SumOver(cast, Options) + (g[o] - cast[o])
    BY <1>1, <1>2, <2>1, SumChange
  <2> QED
    BY <2>2 DEF g
<1>5. SumOver(cast, Options) \in Int
  BY <1>1, <1>2, SumInt
<1>6. Total(cast) = SumOver(cast, Options) /\ Total(cast') = SumOver(cast', Options)
  BY <1>3 DEF Total, SumOver
<1> QED
  BY <1>2, <1>4, <1>5, <1>6

(* Votes were cast some number of times. *)
LEMMA TotalIsInt == RowTypes => Total(cast) \in Int
<1> SUFFICES ASSUME RowTypes PROVE Total(cast) \in Int
  OBVIOUS
<1>1. IsFiniteSet(Options) /\ DOMAIN cast = Options /\ \A p \in Options : cast[p] \in Int
  BY LedgerAssumption DEF RowTypes
<1>2. SumOver(cast, Options) \in Int
  BY <1>1, SumInt
<1> QED
  BY <1>1, <1>2 DEF Total, SumOver

(* The row keeps its version, and the handler that moves owes no entry. *)
LEMMA KeepStep ==
  ASSUME Unbroken, NEW w \in Workers,
         UNCHANGED saves, Balance' = Balance, IsFiniteSet(InFlight'), missed' \in Nat,
         audit \subseteq audit', unlogged \subseteq unlogged',
         \A u \in Workers \ {w} : step'[u] = step[u] /\ job'[u] = job[u],
         ledger = None <=> ledger' = None,
         ledger # None => ledger'.version = ledger.version,
         step'[w] = "put" => Ahead(job'[w].row.version) <= saves,
         step[w] = "audit" => \/ job[w].version \in audit' \cup unlogged'
                              \/ step'[w] = "audit" /\ job'[w] = job[w]
  PROVE  Unbroken'
<1>1. ledger' # None =>
        \/ ledger'.version \in audit' \cup unlogged'
        \/ \E u \in Workers : step'[u] = "audit" /\ job'[u].version = ledger'.version
  BY DEF Unbroken
<1>2. ledger' # None =>
         /\ Ahead(ledger.version)' <= saves'
         /\ saves' = 0 => Ahead(ledger.version)' = 0
  BY DEF Unbroken, Ahead
<1>3. \A u \in Workers : step'[u] = "put" => Ahead(job[u].row.version)' <= saves'
  BY DEF Unbroken, Ahead
<1>4. ledger' = None => Ahead(1)' = 0
  BY DEF Unbroken, Ahead
<1> QED
  BY <1>1, <1>2, <1>3, <1>4 DEF Unbroken

(* The handler that moves has written the row, and owes the entry. *)
LEMMA WrittenStep ==
  ASSUME NEW w \in Workers, ledger' # None, step'[w] = "audit",
         job'[w].version = ledger'.version, IsFiniteSet(InFlight'), missed' \in Nat,
         Ahead(ledger.version)' <= saves', saves' = 0 => Ahead(ledger.version)' = 0,
         \A u \in Workers \ {w} : step'[u] = "put" => Ahead(job[u].row.version)' <= saves'
  PROVE  Unbroken'
BY DEF Unbroken

(* Nobody enters or leaves the increment of a row. *)
LEMMA SameFlight ==
  ASSUME NEW w \in Workers, \A u \in Workers \ {w} : step'[u] = step[u],
         step[w] \in {"find", "count", "bump"} <=> step'[w] \in {"find", "count", "bump"}
  PROVE  InFlight' = InFlight
BY DEF InFlight

(* A vote's handler ends before the increment, and is counted as missed. *)
LEMMA LeaveFlight ==
  ASSUME IInv, Unbroken, NEW w \in Workers, step[w] \in {"find", "count", "bump"},
         step'[w] = "idle", \A u \in Workers \ {w} : step'[u] = step[u],
         missed' = missed + 1, UNCHANGED cast
  PROVE  Balance' = Balance /\ IsFiniteSet(InFlight') /\ missed' \in Nat
<1>1. w \in InFlight /\ InFlight' = InFlight \ {w}
  BY DEF InFlight
<1>2. /\ IsFiniteSet(InFlight') /\ Cardinality(InFlight') = Cardinality(InFlight) - 1
      /\ Cardinality(InFlight) \in Int
  BY <1>1, FS_RemoveElement, FS_CardinalityType DEF Unbroken
<1>3. missed \in Nat /\ Total(cast) \in Int /\ Total(cast)' = Total(cast)
  BY TotalIsInt, TypeParts DEF IInv, Unbroken
<1> QED
  BY <1>2, <1>3 DEF Balance

(* What a process does without writing the row, but for a new vote. *)
LEMMA UnbrokenReads ==
  ASSUME IInv, Unbroken, NEW w \in Workers, UNCHANGED <<missed, unlogged>>,
         \/ EditOption(w) \/ (\E a \in BOOLEAN : SavePoll(w, a)) \/ ListOptions(w)
         \/ (GetOrCreate(w) \/ FindRow(w)) /\ ledger # None
         \/ CountVotes(w) \/ SyncFails(w) \/ AuditRow(w) \/ AddOptions(w)
  PROVE  Unbroken'
<1>1. JobTypes /\ JobOK(w)
  BY Facts
<1>2. PICK S \in SUBSET Options : job[w] \in Jobs(S)
  BY Facts
<1>4. /\ \A u \in Workers \ {w} : step'[u] = step[u] /\ job'[u] = job[u]
      /\ UNCHANGED <<saves, cast, ledger>> /\ audit \subseteq audit'
  BY <1>1 DEF EditOption, SavePoll, ListOptions, GetOrCreate, FindRow, CountVotes,
     SyncFails, AuditRow, AddOptions, Begin, At, Quit, JobTypes
<1>5. /\ step[w] \in {"find", "count", "bump"} <=> step'[w] \in {"find", "count", "bump"}
      /\ step[w] = "audit" => job[w].version \in audit'
  BY <1>1 DEF EditOption, SavePoll, ListOptions, GetOrCreate, FindRow, CountVotes,
     SyncFails, AuditRow, AddOptions, Begin, At, JobTypes
<1>6. InFlight' = InFlight
  BY <1>4, <1>5, SameFlight
<1>7. Balance' = Balance /\ IsFiniteSet(InFlight') /\ missed' \in Nat
  BY <1>4, <1>6 DEF Balance, Unbroken
<1>8. step'[w] = "put" => Ahead(job'[w].row.version) <= saves
  <2> SUFFICES ASSUME step'[w] = "put" PROVE Ahead(job'[w].row.version) <= saves
    OBVIOUS
  <2>1. ledger # None /\ job' = [job EXCEPT ![w].row = ledger]
    BY <1>1 DEF EditOption, SavePoll, ListOptions, GetOrCreate, FindRow, CountVotes,
       SyncFails, AuditRow, AddOptions, Begin, At, JobTypes
  <2>2. job'[w].row = ledger
    BY <1>1, <1>2, <2>1 DEF JobTypes, Jobs
  <2> QED
    BY <2>1, <2>2 DEF Unbroken
<1> QED
  BY <1>4, <1>5, <1>7, <1>8, KeepStep

(* A handler that is killed, or that finds no row. *)
LEMMA UnbrokenLeaves ==
  ASSUME IInv, Unbroken, NEW w \in Workers,
         \/ FindRow(w) /\ ledger = None /\ UNCHANGED unlogged
         \/ Crash(w)
  PROVE  Unbroken'
<1>1. JobTypes
  BY Facts
<1>2. /\ step[w] # "idle" /\ step'[w] = "idle"
      /\ \A u \in Workers \ {w} : step'[u] = step[u] /\ job'[u] = job[u]
      /\ UNCHANGED <<saves, cast, ledger, audit>> /\ unlogged \subseteq unlogged'
      /\ step[w] = "audit" => job[w].version \in unlogged'
      /\ missed' = IF step[w] \in {"find", "count", "bump"} THEN missed + 1 ELSE missed
  BY <1>1 DEF FindRow, Crash, At, Quit, JobTypes
<1>3. Balance' = Balance /\ IsFiniteSet(InFlight') /\ missed' \in Nat
  <2>1. CASE step[w] \in {"find", "count", "bump"}
    BY <1>2, <2>1, LeaveFlight
  <2>2. CASE step[w] \notin {"find", "count", "bump"}
    <3>1. InFlight' = InFlight
      BY <1>2, <2>2, SameFlight
    <3> QED
      BY <1>2, <2>2, <3>1 DEF Balance, Unbroken
  <2> QED
    BY <2>1, <2>2
<1> QED
  BY <1>2, <1>3, KeepStep

(* What the admin does to the tables at one blow, and what a re-vote clears. *)
LEMMA UnbrokenAtOnce ==
  ASSUME IInv, Unbroken, NEW w \in Workers, UNCHANGED <<missed, unlogged>>,
         CreatePoll(w) \/ DeletePoll(w) \/ \E o \in Options : WithdrawVote(w, o)
  PROVE  Unbroken'
<1>1. UNCHANGED <<step, job, saves, cast>> /\ step[w] = "idle"
  BY DEF CreatePoll, DeletePoll, WithdrawVote
<1>2. InFlight' = InFlight
  BY <1>1 DEF InFlight
<1>3. Balance' = Balance /\ IsFiniteSet(InFlight') /\ missed' \in Nat
  BY <1>1, <1>2 DEF Balance, Unbroken
<1>4. CASE CreatePoll(w)
  <2>1. /\ ledger = None /\ audit' = audit \cup {1}
        /\ ledger' = [counts |-> Zero({}), active |-> TRUE, version |-> 1]
    BY <1>4 DEF CreatePoll
  <2>2. ledger' # None /\ ledger'.version = 1
    <3>1. ledger' \in Rows({})
      BY <2>1, ZeroRow
    <3> QED
      BY <2>1, <3>1, NoneAssumption
  <2>3. Ahead(ledger.version)' = 0
    BY <1>3, <2>1, <2>2 DEF Ahead, Unbroken
  <2>4. \A u \in Workers : step'[u] # "put"
    BY <1>1, <2>1 DEF IInv, JobOK
  <2>5. saves' \in Nat
    BY <1>1, Facts DEF RowTypes
  <2> QED
    BY <1>3, <2>1, <2>2, <2>3, <2>4, <2>5 DEF Unbroken
<1>5. CASE ~CreatePoll(w)
  <2>1. /\ audit' = audit /\ (ledger = None <=> ledger' = None)
        /\ ledger # None => ledger'.version = ledger.version
    <3>1. ledger # None => \E S \in SUBSET Options : ledger \in Rows(S)
      BY Facts DEF RowTypes, IsRow
    <3>2. CASE DeletePoll(w)
      <4>1. audit' = audit
            /\ ledger' = IF ledger = None THEN None ELSE [ledger EXCEPT !.active = FALSE]
        BY <3>2 DEF DeletePoll
      <4>2. CASE ledger # None
        <5>1. PICK S \in SUBSET Options : ledger \in Rows(S)
          BY <3>1, <4>2
        <5>2. ledger' \in Rows(S) /\ ledger'.version = ledger.version
          BY <4>1, <4>2, <5>1 DEF Rows
        <5> QED
          BY <4>1, <4>2, <5>2, NoneAssumption
      <4> QED
        BY <4>1, <4>2
    <3> QED
      BY <1>4, <1>5, <3>2 DEF WithdrawVote
  <2> QED
    BY <1>1, <1>3, <2>1, KeepStep
<1> QED
  BY <1>4, <1>5

(* A new vote is in flight, and counted. *)
LEMMA UnbrokenCast ==
  ASSUME IInv, Unbroken, NEW w \in Workers, NEW o \in Options, CastVote(w, o),
         UNCHANGED <<missed, unlogged>>
  PROVE  Unbroken'
<1>1. RowTypes /\ JobTypes /\ step[w] = "idle"
  BY Facts DEF CastVote, Begin
<1>2. /\ UNCHANGED <<options, saves, ledger, audit>>
      /\ cast' = [cast EXCEPT ![o] = @ + 1]
      /\ step' = [step EXCEPT ![w] = "find"]
      /\ job' = [job EXCEPT ![w] = [NoJob EXCEPT !.kind = "vote", !.option = o]]
  BY DEF CastVote, Begin
<1>3. /\ step'[w] = "find"
      /\ \A u \in Workers \ {w} : step'[u] = step[u] /\ job'[u] = job[u]
  BY <1>1, <1>2 DEF JobTypes
<1>4. InFlight' = InFlight \cup {w} /\ w \notin InFlight
  BY <1>1, <1>3 DEF InFlight
<1>5. /\ IsFiniteSet(InFlight) /\ IsFiniteSet(InFlight')
      /\ Cardinality(InFlight') = Cardinality(InFlight) + 1
      /\ Cardinality(InFlight) \in Int
  BY <1>4, FS_AddElement, FS_CardinalityType DEF Unbroken
<1>6. Total(cast) \in Int /\ Total(cast)' = Total(cast) + 1
  BY <1>1, <1>2, TotalAfterVote
<1>7. Balance' = Balance /\ missed' \in Nat
  BY <1>5, <1>6 DEF Balance, Unbroken
<1> QED
  BY <1>1, <1>2, <1>3, <1>5, <1>7, KeepStep

(* The handlers that write the row. *)
LEMMA UnbrokenCreates ==
  ASSUME IInv, Unbroken, NEW w \in Workers, GetOrCreate(w), ledger = None,
         UNCHANGED <<missed, unlogged>>
  PROVE  Unbroken'
<1>1. RowTypes /\ JobTypes /\ step[w] = "get"
  BY Facts DEF GetOrCreate, At
<1>2. PICK S \in SUBSET Options : job[w] \in Jobs(S)
  BY Facts
<1>3. /\ UNCHANGED <<cast, saves>>
      /\ ledger' = [counts |-> Zero(job[w].listed), active |-> job[w].active, version |-> 1]
      /\ job' = [job EXCEPT ![w].version = 1] /\ step' = [step EXCEPT ![w] = "audit"]
  BY DEF GetOrCreate, At
<1>4. /\ step'[w] = "audit" /\ job'[w].version = 1
      /\ \A u \in Workers \ {w} : step'[u] = step[u]
  BY <1>1, <1>2, <1>3 DEF JobTypes, Jobs
<1>5. ledger' # None /\ ledger'.version = 1
  <2>1. ledger' \in Rows(job[w].listed) /\ job[w].listed \in SUBSET Options
    BY <1>2, <1>3, ZeroRow DEF Jobs
  <2> QED
    BY <1>3, <2>1, NoneAssumption
<1>6. InFlight' = InFlight
  BY <1>1, <1>4, SameFlight
<1>7. Balance' = Balance /\ IsFiniteSet(InFlight') /\ missed' \in Nat
  BY <1>3, <1>6 DEF Balance, Unbroken
<1>8. Ahead(ledger.version)' = 0
  BY <1>5, <1>7 DEF Ahead, Unbroken
<1>9. \A u \in Workers \ {w} : step'[u] # "put"
  BY <1>4 DEF IInv, JobOK
<1>10. saves' \in Nat
  BY <1>1, <1>3 DEF RowTypes
<1> QED
  BY <1>4, <1>5, <1>7, <1>8, <1>9, <1>10, WrittenStep

(* Writing the whole ledger breaks no chain of versions. *)
LEMMA UnbrokenPuts ==
  ASSUME IInv, Unbroken, NEW w \in Workers, PutRow(w), UNCHANGED <<missed, unlogged>>
  PROVE  Unbroken'
<1>1. RowTypes /\ JobTypes /\ step[w] = "put"
  BY Facts DEF PutRow, At
<1>2. PICK S \in SUBSET Options : job[w] \in Jobs(S)
  BY Facts
<1> DEFINE n == job[w].row.version
<1>3. /\ cast' = cast /\ saves' = saves + 1
      /\ ledger' = [counts |-> Zero(job[w].listed), active |-> job[w].active,
                    version |-> n + 1]
      /\ job' = [job EXCEPT ![w].version = n + 1] /\ step' = [step EXCEPT ![w] = "audit"]
  BY DEF PutRow, At
<1>4. n \in Nat /\ saves \in Nat /\ job[w].listed \in SUBSET Options
      /\ job[w].active \in BOOLEAN
  BY <1>1, <1>2 DEF RowTypes, Jobs, Rows
<1>5. Ahead(n) <= saves
  BY <1>1 DEF Unbroken
<1> HIDE DEF n
<1>6. /\ step'[w] = "audit" /\ job'[w].version = n + 1
      /\ \A u \in Workers \ {w} : step'[u] = step[u] /\ job'[u] = job[u]
  BY <1>1, <1>2, <1>3 DEF JobTypes, Jobs
<1>7. ledger' # None /\ ledger'.version = n + 1
  <2>1. ledger' \in Rows(job[w].listed)
    BY <1>3, <1>4, ZeroRow
  <2> QED
    BY <1>3, <1>4, <2>1, NoneAssumption
<1>8. InFlight' = InFlight
  BY <1>1, <1>6, SameFlight
<1>9. /\ IsFiniteSet(InFlight') /\ Balance' = Balance /\ Balance \in Int
      /\ missed' \in Nat
  BY <1>1, <1>3, <1>8, TotalIsInt, FS_CardinalityType DEF Unbroken, Balance
<1>10. Ahead(ledger.version)' = Ahead(n) + 1 /\ Ahead(n) \in Int
  BY <1>4, <1>7, <1>9 DEF Ahead
<1>11. ASSUME NEW u \in Workers \ {w}, step'[u] = "put"
       PROVE  Ahead(job[u].row.version)' <= saves'
  <2>1. Ahead(job[u].row.version) <= saves /\ job[u].row.version \in Int
    BY <1>1, <1>6, <1>11 DEF Unbroken, JobTypes, IsJob, Jobs, Rows
  <2>2. Ahead(job[u].row.version)' = Ahead(job[u].row.version)
    BY <1>6, <1>9 DEF Ahead
  <2>3. Ahead(job[u].row.version) \in Int
    BY <1>9, <2>1 DEF Ahead
  <2> QED
    BY <1>3, <1>4, <2>1, <2>2, <2>3
<1>12. Ahead(ledger.version)' <= saves' /\ saves' # 0
  BY <1>3, <1>4, <1>5, <1>10
<1> QED
  BY <1>6, <1>7, <1>9, <1>11, <1>12, WrittenStep

(* ... nor does a bump. *)
LEMMA UnbrokenBumps ==
  ASSUME IInv, Unbroken, NEW w \in Workers, BumpRow(w), UNCHANGED <<missed, unlogged>>
  PROVE  Unbroken'
<1>1. RowTypes /\ JobTypes /\ step[w] = "bump" /\ ledger # None
  BY Facts DEF BumpRow, At, JobOK
<1>2. PICK S \in SUBSET Options : job[w] \in Jobs(S)
  BY Facts
<1>3. PICK R \in SUBSET Options : ledger \in Rows(R)
  BY <1>1 DEF RowTypes, IsRow
<1> DEFINE n == ledger.version
<1>4. n \in Nat /\ saves \in Nat
  BY <1>1, <1>3 DEF RowTypes, Rows
<1>5. /\ UNCHANGED <<cast, saves>>
      /\ ledger' = [ledger EXCEPT !.counts = Counted(job[w]), !.version = n + 1]
      /\ job' = [job EXCEPT ![w].version = n + 1] /\ step' = [step EXCEPT ![w] = "audit"]
  BY <1>3 DEF BumpRow, At, Rows
<1>6. /\ Ahead(n) <= saves
      /\ saves = 0 => Ahead(n) = 0
  BY <1>1 DEF Unbroken
<1>7. /\ step'[w] = "audit" /\ job'[w].version = n + 1
      /\ \A u \in Workers \ {w} : step'[u] = step[u] /\ job'[u] = job[u]
  BY <1>1, <1>2, <1>5 DEF JobTypes, Jobs
<1>8. ledger'.version = n + 1
  BY <1>3, <1>5 DEF Rows
<1>9. ledger' # None
  <2>1. job[w].row.counts \in [S -> Nat] /\ job[w].count \in Nat
    BY <1>2 DEF Jobs, Rows
  <2>2. Counted(job[w]) \in [S -> Nat] /\ n + 1 \in Nat
    BY <1>4, <2>1 DEF Counted
  <2>3. ledger' = [ledger EXCEPT !.counts = Counted(job[w]), !.version = n + 1]
    BY <1>5
  <2> HIDE DEF n
  <2>4. ledger' \in Rows(S)
    BY <1>3, <2>2, <2>3 DEF Rows
  <2> QED
    BY <2>4, NoneAssumption
<1> HIDE DEF n
<1>10. w \in InFlight /\ InFlight' = InFlight \ {w}
  BY <1>1, <1>7 DEF InFlight
<1>11. /\ IsFiniteSet(InFlight) /\ IsFiniteSet(InFlight')
       /\ Cardinality(InFlight') = Cardinality(InFlight) - 1
       /\ Cardinality(InFlight) \in Int
  BY <1>10, FS_RemoveElement, FS_CardinalityType DEF Unbroken
<1>12. Balance' = Balance - 1 /\ Balance \in Int /\ missed' \in Nat
  BY <1>1, <1>5, <1>11, TotalIsInt DEF Balance, Unbroken
<1>13. Ahead(ledger.version)' = Ahead(n)
  BY <1>4, <1>8, <1>12 DEF Ahead
<1>14. ASSUME NEW u \in Workers \ {w}, step'[u] = "put"
       PROVE  Ahead(job[u].row.version)' <= saves'
  <2>1. Ahead(job[u].row.version) <= saves /\ job[u].row.version \in Int
    BY <1>1, <1>7, <1>14 DEF Unbroken, JobTypes, IsJob, Jobs, Rows
  <2>2. /\ Ahead(job[u].row.version) \in Int
        /\ Ahead(job[u].row.version)' = Ahead(job[u].row.version) - 1
    BY <1>7, <1>12, <2>1 DEF Ahead
  <2> QED
    BY <1>4, <1>5, <2>1, <2>2
<1>15. Ahead(ledger.version)' <= saves' /\ (saves' = 0 => Ahead(ledger.version)' = 0)
  BY <1>5, <1>6, <1>13
<1> QED
  BY <1>7, <1>8, <1>9, <1>11, <1>12, <1>14, <1>15, WrittenStep

(* Every step keeps versions and votes together. *)
LEMMA UnbrokenStep == IInv /\ Unbroken /\ [Next]_vars => Unbroken'
<1> SUFFICES ASSUME IInv, Unbroken, [Next]_vars PROVE Unbroken'
  OBVIOUS
<1>1. CASE UNCHANGED vars
  <2>1. InFlight' = InFlight
    BY <1>1 DEF vars, InFlight
  <2> QED
    BY <1>1, <2>1 DEF vars, tables, Unbroken, Ahead, Balance
<1>2. CASE Next
  <2>1. PICK w \in Workers :
          \/ Operate(w) /\ UNCHANGED <<failures, missed, unlogged>>
          \/ FindRow(w) /\ UNCHANGED <<failures, unlogged>>
          \/ SyncFails(w) /\ UNCHANGED <<missed, unlogged>>
          \/ Crash(w)
    BY <1>2, NextCases
  <2>2. CASE Operate(w) /\ UNCHANGED <<failures, missed, unlogged>>
    BY <2>2, UnbrokenReads, UnbrokenAtOnce, UnbrokenCast, UnbrokenCreates, UnbrokenPuts,
       UnbrokenBumps DEF Operate
  <2>3. CASE FindRow(w) /\ UNCHANGED <<failures, unlogged>>
    <3>1. ledger # None => missed' = missed
      BY <2>3 DEF FindRow
    <3> QED
      BY <2>3, <3>1, UnbrokenReads, UnbrokenLeaves
  <2> QED
    BY <2>1, <2>2, <2>3, UnbrokenReads, UnbrokenLeaves
<1> QED
  BY <1>1, <1>2

(* ... in every behaviour. *)
LEMMA UnbrokenInvariant == Spec => [](IInv /\ Unbroken)
<1>1. Init => IInv /\ Unbroken
  <2> SUFFICES ASSUME Init PROVE IInv /\ Unbroken
    OBVIOUS
  <2>1. IInv /\ InFlight = {} /\ ledger = None /\ missed = 0
        /\ \A w \in Workers : step[w] = "idle"
    BY InitInv DEF Init, InFlight
  <2>2. IsFiniteSet(InFlight) /\ Cardinality(InFlight) = 0
    BY <2>1, FS_EmptySet
  <2>3. Total(cast) = 0
    <3>1. IsFiniteSet(Options) /\ DOMAIN cast = Options /\ \A o \in Options : cast[o] = 0
      BY LedgerAssumption DEF Init, Zero
    <3>2. SumOver(cast, Options) = 0
      BY <3>1, SumZero
    <3> QED
      BY <3>1, <3>2 DEF Total, SumOver
  <2>4. Ahead(1) = 0
    BY <2>1, <2>2, <2>3 DEF Ahead, Balance
  <2> QED
    BY <2>1, <2>2, <2>4 DEF Unbroken
<1>2. IInv /\ Unbroken /\ [Next]_vars => (IInv /\ Unbroken)'
  BY InvStep, UnbrokenStep
<1> QED
  BY <1>1, <1>2, PTL DEF Spec

(* Two statements write the row and its entry in the log, and any number of  *)
(* handlers come in between; still, when all have ended, the log knows the   *)
(* version that the row carries, unless its own writer died in between.     *)
THEOREM AuditNamesVersionHolds == Spec => []AuditNamesVersion
<1>1. Unbroken => AuditNamesVersion
  BY DEF Unbroken, AuditNamesVersion, Idle
<1> QED
  BY <1>1, UnbrokenInvariant, PTL

(* However many votes are counted at a time, each raises the version by one  *)
(* unless its handler died before; a full save adds one and may take back   *)
(* what others have added.                                                  *)
THEOREM VersionCountsVotesHolds == Spec => []VersionCountsVotes
<1>1. IInv /\ Unbroken => VersionCountsVotes
  <2> SUFFICES ASSUME IInv, Unbroken, Idle, ledger # None
               PROVE  /\ ledger.version + missed <= 1 + Total(cast) + saves
                      /\ saves = 0 => ledger.version + missed = 1 + Total(cast)
    BY DEF VersionCountsVotes
  <2>1. InFlight = {}
    BY DEF InFlight, Idle
  <2>2. RowTypes
    BY TypeParts DEF IInv
  <2>3. /\ ledger.version \in Int /\ saves \in Int /\ Total(cast) \in Int
        /\ missed \in Int
    BY <2>2, TotalIsInt DEF RowTypes, IsRow, Rows, Unbroken
  <2>4. Ahead(ledger.version) = ledger.version + missed - 1 - Total(cast)
    BY <2>1, <2>3, FS_EmptySet DEF Ahead, Balance
  <2> QED
    BY <2>3, <2>4 DEF Unbroken
<1> QED
  BY <1>1, UnbrokenInvariant, PTL
------------------------------------------------------------------------------
(* A process that is not marked stands where nobody wrote a table since its   *)
(* handler began, or moves itself.                                          *)
LEMMA Marks ==
  ASSUME IInv, NEW w \in Workers, Overtake(w), NEW u \in Workers \ overtaken',
         step'[u] # "idle"
  PROVE  u \notin overtaken /\ (u = w \/ UNCHANGED tables)
BY DEF Overtake

(* A step leaves the handlers of the other processes alone. *)
LEMMA OthersStay ==
  ASSUME IInv, NEW w \in Workers,
         Operate(w) \/ FindRow(w) \/ SyncFails(w) \/ Crash(w)
  PROVE  \A u \in Workers \ {w} : step'[u] = step[u] /\ job'[u] = job[u]
<1>1. JobTypes
  BY Facts
<1> QED
  BY <1>1 DEF Operate, CreatePoll, EditOption, DeletePoll, SavePoll, ListOptions,
     GetOrCreate, PutRow, SyncFails, AuditRow, AddOptions, CastVote, WithdrawVote, FindRow,
     CountVotes, BumpRow, Crash, Begin, At, Quit, JobTypes

(* What its own steps keep up to date for the process that takes them. *)
LEMMA OwnStep ==
  ASSUME IInv, NEW w \in Workers, UpToDate(w),
         Operate(w) \/ FindRow(w) \/ SyncFails(w) \/ Crash(w)
  PROVE  UpToDate(w)'
<1>1. RowTypes /\ JobTypes
  BY Facts
<1>2. PICK S \in SUBSET Options : job[w] \in Jobs(S)
  BY Facts
<1>3. CASE CreatePoll(w) \/ DeletePoll(w) \/ \E o \in Options : WithdrawVote(w, o)
  <2>1. step'[w] = "idle"
    BY <1>3 DEF CreatePoll, DeletePoll, WithdrawVote
  <2> QED
    BY <2>1 DEF UpToDate
<1>4. CASE \/ \E a \in BOOLEAN : SavePoll(w, a)
           \/ EditOption(w) \/ ListOptions(w)
  <2>1. poll' # None /\ step'[w] \notin {"put", "count", "bump"}
    BY <1>1, <1>4, NoneAssumption
       DEF SavePoll, EditOption, ListOptions, Begin, At, JobTypes, UpToDate
  <2> QED
    BY <2>1 DEF UpToDate
<1>5. CASE GetOrCreate(w) \/ FindRow(w)
  <2>1. /\ poll' = poll /\ step'[w] \notin {"list", "get", "bump"}
        /\ step'[w] = "put" => poll # None
    BY <1>1, <1>5 DEF GetOrCreate, FindRow, At, JobTypes, UpToDate
  <2>2. step'[w] \in {"put", "count"} => job'[w].row = ledger'
    <3> SUFFICES ASSUME step'[w] \in {"put", "count"} PROVE job'[w].row = ledger'
      OBVIOUS
    <3>1. job' = [job EXCEPT ![w] = [job[w] EXCEPT !.row = ledger]] /\ ledger' = ledger
      BY <1>1, <1>5 DEF GetOrCreate, FindRow, At, JobTypes
    <3>2. job'[w] = [job[w] EXCEPT !.row = ledger]
      BY <1>1, <3>1 DEF JobTypes
    <3> QED
      BY <1>2, <3>1, <3>2 DEF Jobs
  <2> QED
    BY <2>1, <2>2 DEF UpToDate
<1>6. CASE CountVotes(w)
  <2>1. /\ UNCHANGED <<poll, current, ledger>> /\ step[w] = "count" /\ step'[w] = "bump"
        /\ job' = [job EXCEPT ![w] = [job[w] EXCEPT !.count = current[job[w].option]]]
    BY <1>1, <1>6 DEF CountVotes, At, JobTypes
  <2>2. job'[w] = [job[w] EXCEPT !.count = current[job[w].option]]
    BY <1>1, <2>1 DEF JobTypes
  <2>3. /\ job'[w].row = job[w].row /\ job'[w].option = job[w].option
        /\ job'[w].count = current[job[w].option]
    BY <1>2, <2>2 DEF Jobs
  <2> QED
    BY <2>1, <2>3 DEF UpToDate
<1>7. CASE \/ PutRow(w) \/ SyncFails(w) \/ AuditRow(w) \/ AddOptions(w) \/ BumpRow(w)
           \/ Crash(w) \/ \E o \in Options : CastVote(w, o)
  <2>1. step'[w] \notin {"list", "get", "put", "count", "bump"}
    BY <1>1, <1>7 DEF PutRow, SyncFails, AuditRow, AddOptions, BumpRow, Crash, CastVote,
       Begin, At, JobTypes
  <2> QED
    BY <2>1 DEF UpToDate
<1> QED
  BY <1>3, <1>4, <1>5, <1>6, <1>7 DEF Operate

(* What a process has read stays up to date until another one writes. *)
LEMMA UndisturbedStep == IInv /\ Undisturbed /\ [Next]_vars => Undisturbed'
<1> SUFFICES ASSUME IInv, Undisturbed, [Next]_vars PROVE Undisturbed'
  OBVIOUS
<1>1. CASE UNCHANGED vars
  BY <1>1 DEF vars, tables, Undisturbed, UpToDate
<1>2. CASE Next
  <2>1. PICK w \in Workers :
          (Operate(w) \/ FindRow(w) \/ SyncFails(w) \/ Crash(w)) /\ Overtake(w)
    BY <1>2, NextCases
  <2>2. ASSUME NEW u \in Workers \ overtaken', step'[u] # "idle"
        PROVE  UpToDate(u)'
    <3>1. UpToDate(u) /\ (u = w \/ UNCHANGED tables)
      BY <2>1, <2>2, Marks DEF Undisturbed
    <3>2. CASE u = w
      BY <2>1, <3>1, <3>2, OwnStep
    <3>3. CASE u # w
      BY <2>1, <3>1, <3>3, OthersStay DEF UpToDate, tables
    <3> QED
      BY <3>2, <3>3
  <2> QED
    BY <2>2 DEF Undisturbed, UpToDate
<1> QED
  BY <1>1, <1>2

(* ... in every behaviour. *)
LEMMA UndisturbedInvariant == Spec => [](IInv /\ Undisturbed)
<1>1. Init => IInv /\ Undisturbed
  BY InitInv DEF Init, Undisturbed, UpToDate
<1>2. IInv /\ Undisturbed /\ [Next]_vars => (IInv /\ Undisturbed)'
  BY InvStep, UndisturbedStep
<1> QED
  BY <1>1, <1>2, PTL DEF Spec

(* What a step does to a row that is there. *)
LEMMA RowStep ==
  ASSUME IInv, Undisturbed, [Next]_vars, ledger # None
  PROVE  \/ \E w \in overtaken : step[w] = "put" /\ step'[w] = "audit"
         \/ ledger' = ledger
         \/ ledger'.version > ledger.version /\ (poll # None \/ ledger'.active = ledger.active)
         \/ poll' = None /\ ledger' = [ledger EXCEPT !.active = FALSE]
<1>1. PICK S \in SUBSET Options : ledger \in Rows(S)
  BY TypeParts DEF IInv, RowTypes, IsRow
<1>2. ledger.version \in Nat
  BY <1>1 DEF Rows
<1>3. ASSUME NEW w \in Workers, PutRow(w)
      PROVE  \/ w \in overtaken /\ step[w] = "put" /\ step'[w] = "audit"
             \/ ledger'.version > ledger.version /\ poll # None
  <2>1. JobTypes
    BY Facts
  <2> QED
    BY <1>2, <1>3, <2>1 DEF PutRow, At, Undisturbed, UpToDate, JobTypes
<1>4. ASSUME NEW w \in Workers, BumpRow(w)
      PROVE  ledger'.version > ledger.version /\ ledger'.active = ledger.active
  BY <1>1, <1>2, <1>4 DEF BumpRow, Rows
<1>5. ASSUME NEW w \in Workers, DeletePoll(w)
      PROVE  poll' = None /\ ledger' = [ledger EXCEPT !.active = FALSE]
  BY <1>5 DEF DeletePoll
<1>6. ASSUME NEW w \in Workers,
             \/ CreatePoll(w) \/ EditOption(w) \/ ListOptions(w) \/ GetOrCreate(w)
             \/ SyncFails(w) \/ AuditRow(w) \/ AddOptions(w) \/ FindRow(w)
             \/ CountVotes(w) \/ Crash(w) \/ \E a \in BOOLEAN : SavePoll(w, a)
             \/ \E o \in Options : CastVote(w, o) \/ WithdrawVote(w, o)
      PROVE  ledger' = ledger
  BY <1>6 DEF CreatePoll, EditOption, ListOptions, GetOrCreate, SyncFails, AuditRow,
     AddOptions, FindRow, CountVotes, Crash, SavePoll, CastVote, WithdrawVote
<1>7. CASE UNCHANGED vars
  BY <1>7 DEF vars, tables
<1>8. CASE Next
  <2>1. PICK w \in Workers : Operate(w) \/ FindRow(w) \/ SyncFails(w) \/ Crash(w)
    BY <1>8, NextCases
  <2> QED
    BY <1>3, <1>4, <1>5, <1>6, <2>1 DEF Operate
<1> QED
  BY <1>7, <1>8

(* Whoever interleaves with whom, every change of the row but the tombstone  *)
(* raises its version, unless it is a save that another process overtook.   *)
THEOREM VersionMarksChangeHolds == Spec => VersionMarksChange
<1>1. ASSUME IInv, Undisturbed, [Next]_vars
      PROVE  [ \/ ledger = None
               \/ ledger'.version > ledger.version
               \/ ledger' = ledger
               \/ poll' = None /\ ledger' = [ledger EXCEPT !.active = FALSE]
               \/ \E w \in overtaken : step[w] = "put" /\ step'[w] = "audit" ]_vars
  BY <1>1, RowStep
<1> QED
  BY <1>1, UndisturbedInvariant, PTL DEF Spec, VersionMarksChange

(* Only a save that the deletion overtook can revive the row of a deleted    *)
(* poll: not a vote's handler, however late, and not a later save.          *)
THEOREM OnlyOvertakenReviveHolds == Spec => OnlyOvertakenRevive
<1>1. ASSUME IInv, Undisturbed, [Next]_vars, poll = None, ledger # None, ~ledger.active,
             ledger'.active
      PROVE  \E w \in overtaken : step[w] = "put" /\ step'[w] = "audit"
  <2>1. PICK S \in SUBSET Options : ledger \in Rows(S)
    BY <1>1, Facts, TypeParts DEF IInv, RowTypes, IsRow
  <2>2. ledger' # [ledger EXCEPT !.active = FALSE]
    BY <1>1, <2>1 DEF Rows
  <2> QED
    BY <1>1, <2>2, RowStep
<1>2. ASSUME IInv, Undisturbed, [Next]_vars
      PROVE  [ poll = None /\ ledger # None /\ ~ledger.active /\ ledger'.active
               => \E w \in overtaken : step[w] = "put" /\ step'[w] = "audit" ]_vars
  BY <1>1, <1>2
<1> QED
  BY <1>2, UndisturbedInvariant, PTL DEF Spec, OnlyOvertakenRevive

(* The handler of a vote that no other process overtook writes the count     *)
(* that its option has when it writes.                                      *)
THEOREM CountIsFreshHolds == Spec => CountIsFresh
<1>1. ASSUME IInv, Undisturbed, Next, NEW w \in Workers \ overtaken,
             step[w] = "bump", step'[w] = "audit", job[w].option \in DOMAIN ledger.counts
      PROVE  ledger'.counts[job[w].option] = current[job[w].option]
  <2>1. BumpRow(w)
    <3>1. PICK u \in Workers : Operate(u) \/ FindRow(u) \/ SyncFails(u) \/ Crash(u)
      BY <1>1, NextCases
    <3>2. u = w
      BY <1>1, <3>1, OthersStay
    <3>3. JobTypes
      BY <1>1, Facts
    <3> QED
      BY <1>1, <3>1, <3>2, <3>3 DEF Operate, CreatePoll, EditOption, DeletePoll, SavePoll,
         ListOptions, GetOrCreate, PutRow, SyncFails, AuditRow, AddOptions, CastVote,
         WithdrawVote, FindRow, CountVotes, Crash, Begin, At, JobTypes
  <2>2. ledger' = [ledger EXCEPT !.counts = Counted(job[w]), !.version = @ + 1]
    BY <2>1 DEF BumpRow
  <2>3. ledger # None /\ job[w].row = ledger /\ job[w].count = current[job[w].option]
    BY <1>1 DEF Undisturbed, UpToDate, IInv, JobOK
  <2>4. PICK S \in SUBSET Options : ledger \in Rows(S)
    BY <1>1, <2>3, Facts DEF RowTypes, IsRow
  <2>5. ledger'.counts = Counted(job[w])
    BY <2>2, <2>4 DEF Rows
  <2> QED
    BY <1>1, <2>3, <2>5 DEF Counted
<1>2. ASSUME IInv, Undisturbed, [Next]_vars
      PROVE  [ \A w \in Workers \ overtaken :
        step[w] = "bump" /\ step'[w] = "audit" /\ job[w].option \in DOMAIN ledger.counts
        => ledger'.counts[job[w].option] = current[job[w].option] ]_vars
  BY <1>1, <1>2
<1> QED
  BY <1>2, UndisturbedInvariant, PTL DEF Spec, CountIsFresh
=============================================================================
