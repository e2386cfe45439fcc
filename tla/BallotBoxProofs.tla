--------------------------- MODULE BallotBoxProofs ---------------------------
(***************************************************************************)
(* Theorems about BallotBox, for any number of voters, workers, options,   *)
(* events and any settings of the poll.                                    *)
(***************************************************************************)
EXTENDS BallotBox, SequenceTheorems, SumTheorems,
        FunctionTheorems, TLAPS

(* Superseding a row leaves a table of rows of the same length, and changes *)
(* that row only.                                                           *)
LEMMA FlipRow ==
  ASSUME NEW s \in Seq(Row), NEW n
  PROVE  LET f == [s EXCEPT ![n].current = FALSE]
         IN  /\ f \in Seq(Row)
             /\ Len(f) = Len(s)
             /\ \A i \in 1..Len(s) :
                  /\ i # n => f[i] = s[i]
                  /\ i = n => f[i] = [s[i] EXCEPT !.current = FALSE]
<1> DEFINE f == [s EXCEPT ![n].current = FALSE]
<1>1. s \in [1..Len(s) -> Row] /\ Len(s) \in Nat
  OBVIOUS
<1>2. ASSUME NEW r \in Row PROVE [r EXCEPT !.current = FALSE] \in Row
  BY DEF Row
<1>3. f \in [1..Len(s) -> Row]
  BY <1>1, <1>2
<1>4. f \in Seq(Row) /\ Len(f) = Len(s)
  BY <1>1, <1>3
<1> QED
  BY <1>1, <1>4

(* Adding a row at the end. *)
LEMMA AppendRow ==
  ASSUME NEW S, NEW s \in Seq(S), NEW r \in S
  PROVE  /\ Append(s, r) \in Seq(S)
         /\ Len(Append(s, r)) = Len(s) + 1
         /\ \A i \in 1..Len(s) : Append(s, r)[i] = s[i]
         /\ Append(s, r)[Len(s) + 1] = r
         /\ DOMAIN Append(s, r) = 1..(Len(s) + 1)
         /\ DOMAIN s = 1..Len(s)
OBVIOUS

(* What every worker's control state and local variables look like. *)
JobsTyped ==
  /\ step \in [Workers -> Steps]
  /\ job \in [Workers -> Job \cup {None}]
  /\ \A w \in Workers : step[w] # "idle" => job[w] \in Job

(* A statement of worker w touches the control state of w alone, whether it *)
(* goes on with new local variables, goes on with the old ones, or ends the *)
(* request.                                                                 *)
OthersSame(w) ==
  \A u \in Workers : u # w => step'[u] = step[u] /\ job'[u] = job[u]

(* A worker goes on with other locals; the others stay. *)
LEMMA GoOn ==
  ASSUME JobsTyped, NEW w \in Workers, NEW s \in Steps, NEW j \in Job,
         step' = [step EXCEPT ![w] = s], job' = [job EXCEPT ![w] = j]
  PROVE  JobsTyped' /\ OthersSame(w) /\ step'[w] = s /\ job'[w] = j
BY DEF JobsTyped, OthersSame

(* A worker goes on with the locals it has. *)
LEMMA GoOnSame ==
  ASSUME JobsTyped, NEW w \in Workers, NEW s \in Steps, step[w] # "idle",
         step' = [step EXCEPT ![w] = s], job' = job
  PROVE  /\ JobsTyped' /\ OthersSame(w) /\ step'[w] = s
         /\ job'[w] = job[w] /\ job[w] \in Job
BY DEF JobsTyped, OthersSame

(* A worker ends its request. *)
LEMMA Ending ==
  ASSUME JobsTyped, NEW w \in Workers, Finish(w)
  PROVE  JobsTyped' /\ OthersSame(w) /\ step'[w] = "idle"
BY DEF JobsTyped, OthersSame, Finish, Steps

(* The three ways a request begins: what its first job carries, and what    *)
(* the checks before it have established.                                   *)
LEMMA BeginCases ==
  ASSUME TypeOK, NEW w \in Workers,
         HeadlessBegin(w) \/ SessionBegin(w) \/ NostrBegin(w)
  PROVE  \E j \in Job, s \in {"existing", "lookup", "insert"} :
           /\ step[w] = "idle"
           /\ step' = [step EXCEPT ![w] = s]
           /\ job' = [job EXCEPT ![w] = j]
           /\ j.old = 0 /\ j.option \in DOMAIN options \cup {0}
           /\ \/ /\ j.event = None /\ Open
                 /\ s = "existing"
                 /\ j.text = None
              \/ /\ j.event = None /\ Open
                 /\ s = "lookup"
                 /\ j.text # None
              \/ /\ j.event # None
                 /\ s = "insert"
                 /\ j.text = None
                 /\ j.option \in DOMAIN options
           /\ UNCHANGED <<votes, options, is_mutable, accounts, active, clock, late>>
<1> USE DEF Accept, Goto, env, Open
<1>0. DOMAIN options \cup {0} \subseteq Nat /\ clock \in Nat /\ accounts \subseteq Voters
  BY DEF TypeOK
<1>1. CASE HeadlessBegin(w)
  <2>1. PICK v \in Voters, o \in DOMAIN options \cup {0},
             t \in (IF AllowWriteIns THEN WriteIns ELSE {}) \cup {None} :
          /\ job' = [job EXCEPT ![w] =
                   [kind |-> "headless", voter |-> v, option |-> o, text |-> t,
                    event |-> None, old |-> 0, linked |-> FALSE,
                    signed |-> 0]]
          /\ Goto(w, IF t = None THEN "existing" ELSE "lookup")
    BY <1>1 DEF HeadlessBegin
  <2>2. t \in Texts \cup {None} /\ o \in Nat
    BY <1>0 DEF Texts
  <2> DEFINE j == [kind |-> "headless", voter |-> v, option |-> o, text |-> t,
                   event |-> None, old |-> 0, linked |-> FALSE,
                   signed |-> 0]
  <2>3. j \in Job
    BY <1>0, <2>2 DEF Job, Handlers
  <2>4. /\ j.old = 0 /\ j.event = None /\ j.text = t
        /\ j.option \in DOMAIN options \cup {0}
    OBVIOUS
  <2> HIDE DEF j
  <2>5. CASE t = None
    BY <1>1, <2>1, <2>3, <2>4, <2>5 DEF HeadlessBegin, j
  <2>6. CASE t # None
    BY <1>1, <2>1, <2>3, <2>4, <2>6 DEF HeadlessBegin, j
  <2> QED
    BY <2>5, <2>6
<1>2. CASE SessionBegin(w)
  <2>1. PICK v \in accounts, o \in DOMAIN options :
          job' = [job EXCEPT ![w] =
                [kind |-> "session", voter |-> v, option |-> o, text |-> None,
                 event |-> None, old |-> 0, linked |-> TRUE,
                 signed |-> 0]]
    BY <1>2 DEF SessionBegin
  <2> DEFINE j == [kind |-> "session", voter |-> v, option |-> o,
                   text |-> None, event |-> None, old |-> 0, linked |-> TRUE,
                   signed |-> 0]
  <2>3. j \in Job
    BY <1>0 DEF Job, Handlers
  <2>4. /\ j.old = 0 /\ j.event = None /\ j.text = None
        /\ j.option \in DOMAIN options \cup {0}
    OBVIOUS
  <2> HIDE DEF j
  <2> QED
    BY <1>2, <2>1, <2>3, <2>4 DEF SessionBegin, j
<1>3. CASE NostrBegin(w)
  <2>1. PICK e \in Events :
       /\ e.at <= clock + Grace
       /\ e.at <= EndsAt + Grace
       /\ e.option \in DOMAIN options
       /\ job' = [job EXCEPT ![w] =
                   [kind |-> "nostr", voter |-> e.voter, option |-> e.option,
                    text |-> None, event |-> e.id, old |-> 0,
                    linked |-> FALSE, signed |-> e.at]]
    BY <1>3 DEF NostrBegin
  <2>2. e.id \in EventIds /\ e.voter \in Voters /\ e.at \in Nat
    BY DataAssumption DEF EventType
  <2> DEFINE j == [kind |-> "nostr", voter |-> e.voter, option |-> e.option,
                   text |-> None, event |-> e.id, old |-> 0,
                   linked |-> FALSE, signed |-> e.at]
  <2>3. j \in Job
    BY <1>0, <2>1, <2>2 DEF Job, Handlers
  <2>4. /\ j.old = 0 /\ j.event = e.id /\ j.text = None
        /\ j.option = e.option /\ j.event # None
        /\ j.option \in DOMAIN options \cup {0}
    BY <2>1, <2>2, DataAssumption
  <2> HIDE DEF j
  <2> QED
    BY <1>3, <2>1, <2>3, <2>4 DEF NostrBegin, j
<1> QED
  BY <1>1, <1>2, <1>3

(* What every step keeps: rows keep voter and event, options keep their text, *)
(* time does not go back.                                                   *)
TablesGrow ==
  /\ \A i \in DOMAIN votes :
       /\ i \in DOMAIN votes'
       /\ votes'[i].voter = votes[i].voter /\ votes'[i].event = votes[i].event
  /\ \A o \in DOMAIN options : o \in DOMAIN options' /\ options'[o] = options[o]
  /\ clock <= clock'

(* What a handler has established survives the steps of everyone else. *)
LEMMA JobFrame ==
  ASSUME TypeOK, clock' \in Nat, TablesGrow, UNCHANGED is_mutable,
         NEW u \in Workers, JobOK(u),
         step'[u] = step[u], job'[u] = job[u]
  PROVE  JobOK(u)'
BY DEF TablesGrow, JobOK

(* Rows whose flags alone may change keep what is said of them. *)
LEMMA RowsFrame ==
  ASSUME TablesGrow, RowsOK, DOMAIN votes' = DOMAIN votes,
         \A i \in DOMAIN votes : votes'[i].option = votes[i].option
  PROVE  RowsOK'
BY DEF TablesGrow, RowsOK

(* Types of the tables. *)
TablesTyped ==
  /\ votes \in Seq(Row) /\ options \in Seq(Texts)
  /\ accounts \subseteq Voters /\ active \in BOOLEAN
  /\ clock \in Nat /\ late \in Nat

(* A statement of worker w keeps the invariant if it keeps the tables' types *)
(* and contents and leaves w with what its next statement relies on.        *)
LEMMA StatementFrame ==
  ASSUME IInv, NEW w \in Workers, TablesTyped', TablesGrow, JobsTyped',
         UNCHANGED is_mutable, OthersSame(w), RowsOK', JobOK(w)'
  PROVE  IInv'
<1>1. TypeOK'
  BY DEF TablesTyped, JobsTyped, TypeOK, IInv
<1>2. ASSUME NEW u \in Workers PROVE JobOK(u)'
  <2>1. CASE u = w
    BY <2>1
  <2>2. CASE u # w
    BY <2>2, JobFrame DEF IInv, OthersSame, TablesTyped
  <2> QED
    BY <2>1, <2>2
<1> QED
  BY <1>1, <1>2 DEF IInv, RowsOK

(* The same for statements that write no table at all. *)
LEMMA ReadFrame ==
  ASSUME IInv, NEW w \in Workers,
         UNCHANGED <<votes, options, is_mutable, accounts, active, clock, late>>,
         JobsTyped', OthersSame(w), JobOK(w)'
  PROVE  IInv'
<1>1. TablesTyped' /\ TablesGrow
  BY DEF IInv, TypeOK, TablesTyped, TablesGrow
<1>2. RowsOK'
  BY <1>1, RowsFrame DEF IInv, RowsOK, TablesTyped
<1> QED
  BY <1>1, <1>2, StatementFrame

(* The parts of the invariant that most steps need. *)
LEMMA TypeParts ==
  ASSUME IInv
  PROVE  /\ TypeOK /\ TablesTyped /\ JobsTyped /\ RowsOK
         /\ DOMAIN options = 1..Len(options) /\ Len(options) \in Nat
         /\ DOMAIN votes = 1..Len(votes) /\ Len(votes) \in Nat
         /\ \A w \in Workers : JobOK(w) /\ (step[w] # "idle" => job[w] \in Job)
         /\ Steps = {"idle", "lookup", "nominate", "existing", "revote", "flip",
                     "gate", "insert"}
BY DEF IInv, TypeOK, TablesTyped, JobsTyped, RowsOK, Steps

(* The first statement of a request. *)
LEMMA BeginStep ==
  ASSUME IInv, NEW w \in Workers,
         HeadlessBegin(w) \/ SessionBegin(w) \/ NostrBegin(w)
  PROVE  IInv'
<1>0. TypeOK /\ JobsTyped /\ {"existing", "lookup", "insert"} \subseteq Steps
  BY TypeParts
<1>1. PICK j \in Job, s \in {"existing", "lookup", "insert"} :
           /\ step[w] = "idle"
           /\ step' = [step EXCEPT ![w] = s]
           /\ job' = [job EXCEPT ![w] = j]
           /\ j.old = 0 /\ j.option \in DOMAIN options \cup {0}
           /\ \/ /\ j.event = None /\ Open
                 /\ s = "existing"
                 /\ j.text = None
              \/ /\ j.event = None /\ Open
                 /\ s = "lookup"
                 /\ j.text # None
              \/ /\ j.event # None
                 /\ s = "insert"
                 /\ j.text = None
                 /\ j.option \in DOMAIN options
           /\ UNCHANGED <<votes, options, is_mutable, accounts, active, clock, late>>
  BY <1>0, BeginCases
<1>2. JobsTyped' /\ OthersSame(w) /\ step'[w] = s /\ job'[w] = j
  BY <1>0, <1>1, GoOn
<1>3. JobOK(w)'
  BY <1>1, <1>2 DEF JobOK
<1> QED
  BY <1>1, <1>2, <1>3, ReadFrame

(* A request that ends without writing: nothing else changes. *)
LEMMA EndStep ==
  ASSUME IInv, NEW w \in Workers, Finish(w),
         UNCHANGED <<votes, options, is_mutable, accounts, active, clock, late>>
  PROVE  IInv'
<1>1. JobsTyped' /\ OthersSame(w) /\ step'[w] = "idle"
  BY TypeParts, Ending
<1>2. JobOK(w)'
  BY <1>1 DEF JobOK
<1> QED
  BY <1>1, <1>2, ReadFrame

(* The write-in lookup either resolves the text to an option that carries   *)
(* it, or leaves it to be nominated.                                        *)
LEMMA LookupStep ==
  ASSUME IInv, NEW w \in Workers, LookupWriteIn(w)
  PROVE  IInv'
<1>0. /\ step[w] = "lookup" /\ job[w] \in Job /\ JobsTyped
      /\ job[w].option \in DOMAIN options \cup {0}
      /\ job[w].text # None /\ job[w].event = None
      /\ UNCHANGED <<votes, options, is_mutable, accounts, active, clock, late>>
      /\ "existing" \in Steps /\ "nominate" \in Steps
      /\ DOMAIN options \subseteq Nat
  BY TypeParts DEF LookupWriteIn, JobOK, env
<1>1. ASSUME NEW i \in DOMAIN options, options[i] = job[w].text,
             job' = [job EXCEPT ![w].option = i], Goto(w, "existing")
      PROVE  IInv'
  <2> DEFINE j == [job[w] EXCEPT !.option = i]
  <2>1. /\ j \in Job /\ j.option = i /\ j.text = job[w].text
        /\ j.event = None
    BY <1>0, <1>1 DEF Job
  <2>2. job' = [job EXCEPT ![w] = j] /\ step' = [step EXCEPT ![w] = "existing"]
    BY <1>1, Zenon DEF Goto
  <2> HIDE DEF j
  <2>3. JobsTyped' /\ OthersSame(w) /\ step'[w] = "existing" /\ job'[w] = j
    BY <1>0, <2>1, <2>2, GoOn
  <2>4. JobOK(w)'
    BY <1>0, <1>1, <2>1, <2>3 DEF JobOK
  <2> QED
    BY <1>0, <2>3, <2>4, ReadFrame
<1>2. ASSUME UNCHANGED job, Goto(w, "nominate") PROVE IInv'
  <2>1. JobsTyped' /\ OthersSame(w) /\ step'[w] = "nominate" /\ job'[w] = job[w]
    BY <1>0, <1>2, GoOnSame DEF Goto
  <2>2. JobOK(w)'
    BY <1>0, <2>1 DEF JobOK
  <2> QED
    BY <1>0, <2>1, <2>2, ReadFrame
<1> QED
  BY <1>1, <1>2 DEF LookupWriteIn, IsFirst

(* A nominated write-in is appended under the next id. *)
LEMMA NominateStep ==
  ASSUME IInv, NEW w \in Workers, NominateWriteIn(w)
  PROVE  IInv'
<1>0. /\ step[w] = "nominate" /\ job[w] \in Job /\ JobsTyped /\ TypeOK /\ RowsOK
      /\ job[w].text # None /\ job[w].event = None
      /\ UNCHANGED <<votes, is_mutable, accounts, active, clock, late>> /\ TablesTyped
      /\ "existing" \in Steps
      /\ DOMAIN options = 1..Len(options) /\ Len(options) \in Nat
  BY TypeParts DEF NominateWriteIn, JobOK, env
<1> DEFINE n == Len(options) + 1
           j == [job[w] EXCEPT !.option = n]
<1>1. /\ j \in Job /\ j.option = n /\ j.text = job[w].text
      /\ j.event = None
  BY <1>0 DEF Job
<1>2. job' = [job EXCEPT ![w] = j] /\ step' = [step EXCEPT ![w] = "existing"]
  BY DEF NominateWriteIn, Goto
<1>3. job[w].text \in Texts
  BY <1>0 DEF Job
<1>4. /\ options' \in Seq(Texts) /\ n \in DOMAIN options'
      /\ options'[n] = job[w].text
      /\ \A o \in DOMAIN options : o \in DOMAIN options' /\ options'[o] = options[o]
  BY <1>0, <1>3, AppendRow DEF NominateWriteIn, TablesTyped
<1> HIDE DEF j, n
<1>5. JobsTyped' /\ OthersSame(w) /\ step'[w] = "existing" /\ job'[w] = j
  BY <1>0, <1>1, <1>2, GoOn
<1>6. JobOK(w)'
  BY <1>0, <1>1, <1>4, <1>5 DEF JobOK
<1>7. TablesTyped' /\ TablesGrow
  BY <1>0, <1>4 DEF TablesTyped, TablesGrow
<1>8. RowsOK'
  BY <1>0, <1>7, RowsFrame DEF TablesTyped
<1> QED
  BY <1>0, <1>5, <1>6, <1>7, <1>8, StatementFrame

(* The re-vote check: the row to supersede is one of this voter's, on a     *)
(* mutable poll.                                                            *)
Supersedes(w, i) == job' = [job EXCEPT ![w].old = i]

(* A re-vote chooses the row to flip. *)
LEMMA ChooseOld ==
  ASSUME IInv, NEW w \in Workers, step[w] \in {"existing", "revote"}, is_mutable,
         NEW i \in CurrentRows(job[w]),
         Supersedes(w, i), Goto(w, "flip"),
         UNCHANGED <<votes, options, is_mutable, accounts, active, clock, late>>
  PROVE  IInv'
<1>0. /\ job[w] \in Job /\ JobsTyped /\ JobOK(w)
      /\ "flip" \in Steps /\ step[w] # "idle"
      /\ DOMAIN votes \subseteq Nat
      /\ i \in DOMAIN votes /\ votes[i].voter = job[w].voter
  BY TypeParts DEF CurrentRows
<1> DEFINE j == [job[w] EXCEPT !.old = i]
<1>1. /\ j \in Job /\ j.old = i /\ j.text = job[w].text
      /\ j.option = job[w].option /\ j.voter = job[w].voter
      /\ j.event = job[w].event
  BY <1>0 DEF Job
<1>2. job' = [job EXCEPT ![w] = j] /\ step' = [step EXCEPT ![w] = "flip"]
  BY DEF Goto, Supersedes
<1> HIDE DEF j
<1>3. JobsTyped' /\ OthersSame(w) /\ step'[w] = "flip" /\ job'[w] = j
  BY <1>0, <1>1, <1>2, GoOn
<1>4. JobOK(w)'
  BY <1>0, <1>1, <1>3 DEF JobOK
<1> QED
  BY <1>3, <1>4, ReadFrame

(* Going on to a statement that relies on nothing more than the last one.   *)
LEMMA PassOn ==
  ASSUME IInv, NEW w \in Workers, NEW s \in {"revote", "gate"},
         step[w] \in {"existing", "revote"}, s = "revote" => is_mutable,
         Goto(w, s), UNCHANGED job,
         UNCHANGED <<votes, options, is_mutable, accounts, active, clock, late>>
  PROVE  IInv'
<1>0. /\ JobsTyped /\ JobOK(w) /\ s \in Steps /\ step[w] # "idle"
  BY TypeParts
<1>1. JobsTyped' /\ OthersSame(w) /\ step'[w] = s /\ job'[w] = job[w]
  BY <1>0, GoOnSame DEF Goto
<1>2. JobOK(w)'
  BY <1>0, <1>1 DEF JobOK
<1> QED
  BY <1>1, <1>2, ReadFrame

(* The checks for an earlier vote keep the invariant. *)
LEMMA ExistingStep ==
  ASSUME IInv, NEW w \in Workers, CheckExisting(w) \/ HandleRevote(w)
  PROVE  IInv'
<1>0. UNCHANGED <<votes, options, is_mutable, accounts, active, clock, late>>
  BY DEF CheckExisting, HandleRevote, env
<1>1. CASE CheckExisting(w)
  <2>1. ASSUME Goto(w, "gate"), UNCHANGED job PROVE IInv'
    BY <1>0, <1>1, <2>1, PassOn DEF CheckExisting
  <2>2. ASSUME Finish(w) PROVE IInv'
    BY <1>0, <2>2, EndStep
  <2>3. ASSUME is_mutable, Goto(w, "revote"), UNCHANGED job PROVE IInv'
    BY <1>0, <1>1, <2>3, PassOn DEF CheckExisting
  <2>4. ASSUME is_mutable, Goto(w, "flip"), NEW i \in CurrentRows(job[w]),
               job' = [job EXCEPT ![w].old = i]
        PROVE  IInv'
    BY <1>0, <1>1, <2>4, ChooseOld DEF Supersedes, CheckExisting
  <2> QED
    BY <1>1, <2>1, <2>2, <2>3, <2>4 DEF CheckExisting, IsFirst
<1>2. CASE HandleRevote(w)
  <2>1. step[w] = "revote" => is_mutable
    BY DEF IInv, JobOK
  <2>2. ASSUME Goto(w, "gate"), UNCHANGED job PROVE IInv'
    BY <1>0, <1>2, <2>2, PassOn DEF HandleRevote
  <2>3. ASSUME Goto(w, "flip"), NEW i \in CurrentRows(job[w]),
               job' = [job EXCEPT ![w].old = i]
        PROVE  IInv'
    BY <1>0, <1>2, <2>1, <2>3, ChooseOld DEF Supersedes, HandleRevote
  <2> QED
    BY <1>0, <1>2, <2>1, <2>2, <2>3 DEF HandleRevote, IsFirst
<1> QED
  BY <1>1, <1>2

(* Superseding the previous ballot changes nothing but its flag. *)
LEMMA FlipStep ==
  ASSUME IInv, NEW w \in Workers, FlipPrevious(w)
  PROVE  IInv'
<1>0. /\ step[w] = "flip" /\ job[w] \in Job /\ JobsTyped /\ TypeOK /\ RowsOK
      /\ JobOK(w) /\ TablesTyped /\ "gate" \in Steps
      /\ UNCHANGED <<options, job, is_mutable, accounts, active, clock, late>>
      /\ DOMAIN votes = 1..Len(votes)
  BY TypeParts DEF FlipPrevious, env
<1>1. /\ votes' \in Seq(Row) /\ Len(votes') = Len(votes)
      /\ \A i \in 1..Len(votes) :
           /\ i # job[w].old => votes'[i] = votes[i]
           /\ i = job[w].old => votes'[i] = [votes[i] EXCEPT !.current = FALSE]
  BY <1>0, FlipRow DEF FlipPrevious, TablesTyped
<1>2. /\ \A i \in DOMAIN votes : votes[i] \in Row
      /\ DOMAIN votes' = DOMAIN votes
  BY <1>0, <1>1 DEF TablesTyped
<1>3. /\ DOMAIN votes' = DOMAIN votes
      /\ \A i \in DOMAIN votes : /\ votes'[i].voter = votes[i].voter
                                 /\ votes'[i].option = votes[i].option
                                 /\ votes'[i].event = votes[i].event
  BY <1>0, <1>1, <1>2 DEF Row
<1>4. JobsTyped' /\ OthersSame(w) /\ step'[w] = "gate" /\ job'[w] = job[w]
  BY <1>0, GoOnSame DEF Goto, FlipPrevious
<1>5. JobOK(w)'
  BY <1>0, <1>4 DEF JobOK
<1>6. TablesTyped' /\ TablesGrow
  BY <1>0, <1>1, <1>3 DEF TablesTyped, TablesGrow
<1>7. RowsOK'
  BY <1>0, <1>3, <1>6, RowsFrame DEF TablesTyped
<1> QED
  BY <1>0, <1>4, <1>5, <1>6, <1>7, StatementFrame

(* A request that passes the gate has an option of this poll. *)
LEMMA AdmitStep ==
  ASSUME IInv, NEW w \in Workers, Admit(w)
  PROVE  IInv'
<1>0. /\ step[w] = "gate" /\ job[w] \in Job /\ JobsTyped /\ JobOK(w)
      /\ "insert" \in Steps /\ job[w].option \in DOMAIN options
      /\ UNCHANGED <<votes, options, is_mutable, accounts, active, clock, late>>
  BY TypeParts DEF Admit, env
<1> DEFINE b == job[w].kind = "session" \/ job[w].voter \in accounts
           j == [job[w] EXCEPT !.linked = b]
<1>1. /\ j \in Job /\ j.text = job[w].text /\ j.option = job[w].option
      /\ j.event = job[w].event
  BY <1>0 DEF Job
<1>2. job' = [job EXCEPT ![w] = j] /\ step' = [step EXCEPT ![w] = "insert"]
  BY Zenon DEF Admit, Goto
<1> HIDE DEF j
<1>3. JobsTyped' /\ OthersSame(w) /\ step'[w] = "insert" /\ job'[w] = j
  BY <1>0, <1>1, <1>2, GoOn
<1>4. JobOK(w)'
  BY <1>0, <1>1, <1>3 DEF JobOK
<1> QED
  BY <1>0, <1>3, <1>4, ReadFrame

(* The new row is a ballot for an option of this poll.                      *)
LEMMA InsertStep ==
  ASSUME IInv, NEW w \in Workers, InsertVote(w)
  PROVE  IInv'
<1> DEFINE n == Len(votes) + 1
           r == [voter |-> job[w].voter, option |-> job[w].option,
                 event |-> job[w].event, linked |-> job[w].linked,
                 current |-> TRUE, signed |-> job[w].signed]
<1>0. /\ step[w] = "insert" /\ job[w] \in Job /\ JobsTyped /\ TypeOK /\ RowsOK
      /\ JobOK(w) /\ TablesTyped /\ Finish(w) /\ votes' = Append(votes, r)
      /\ UNCHANGED <<options, is_mutable, accounts, active, clock>>
      /\ Len(votes) \in Nat /\ late' \in Nat
  BY TypeParts DEF InsertVote, CountLate, TablesTyped
<1>1. /\ r \in Row /\ r.voter = job[w].voter /\ r.option = job[w].option
      /\ r.event = job[w].event
  BY <1>0 DEF Job, Row
<1> HIDE DEF r
<1>2. /\ votes' \in Seq(Row) /\ DOMAIN votes' = 1..n /\ DOMAIN votes = 1..Len(votes)
      /\ \A i \in DOMAIN votes : votes'[i] = votes[i]
      /\ votes'[n] = r
  BY <1>0, <1>1, AppendRow DEF TablesTyped
<1>3. DOMAIN votes' = DOMAIN votes \cup {n} /\ n \notin DOMAIN votes
  BY <1>0, <1>2
<1> HIDE DEF n
<1>4. JobsTyped' /\ OthersSame(w) /\ step'[w] = "idle"
  BY <1>0, Ending
<1>5. JobOK(w)'
  BY <1>4 DEF JobOK
<1>6. TablesTyped' /\ TablesGrow
  BY <1>0, <1>2, <1>3 DEF TablesTyped, TablesGrow
<1>7. RowsOK'
  BY <1>0, <1>1, <1>2, <1>3 DEF RowsOK, JobOK
<1> QED
  BY <1>0, <1>4, <1>5, <1>6, <1>7, StatementFrame

(* The environment: accounts, activation, the clock. *)
LEMMA EnvironmentStep ==
  ASSUME IInv,
         (\E v \in Voters : Register(v)) \/ SetActive \/ Tick \/ UNCHANGED vars
  PROVE  IInv'
<1>0. /\ UNCHANGED <<is_mutable, votes, options, step, job>>
      /\ TypeOK /\ JobsTyped /\ TablesTyped /\ RowsOK
  BY TypeParts DEF Register, SetActive, Tick, vars
<1>1. accounts' \subseteq Voters
  BY <1>0 DEF Register, SetActive, Tick, vars, TablesTyped
<1>2. active' \in BOOLEAN
  BY <1>0, Zenon DEF Register, SetActive, Tick, vars, TablesTyped
<1>3. clock' \in Nat /\ clock <= clock' /\ late' \in Nat
  BY <1>0 DEF Register, SetActive, Tick, Reopen, vars, TablesTyped
<1>4. TablesTyped' /\ TablesGrow /\ JobsTyped'
  BY <1>0, <1>1, <1>2, <1>3 DEF TablesTyped, TablesGrow, JobsTyped
<1>5. RowsOK'
  BY <1>0, <1>3, <1>4, RowsFrame
<1>6. ASSUME NEW u \in Workers PROVE JobOK(u)'
  BY <1>0, <1>3, <1>4, JobFrame DEF IInv
<1>7. TypeOK'
  BY <1>0, <1>4 DEF TablesTyped, JobsTyped, TypeOK
<1> QED
  BY <1>5, <1>6, <1>7 DEF IInv, RowsOK

(* Every step keeps the invariant. *)
LEMMA InvStep == IInv /\ [Next]_vars => IInv'
<1> SUFFICES ASSUME IInv, [Next]_vars PROVE IInv'
  OBVIOUS
<1>1. ASSUME NEW w \in Workers, Refuse(w) \/ IgnoreDuplicate(w) \/ Crash(w)
      PROVE  IInv'
  BY <1>1, EndStep DEF Refuse, IgnoreDuplicate, Crash, env
<1>2. CASE Quiet
  BY <1>2, EnvironmentStep DEF Quiet
<1> QED
  BY <1>1, <1>2, BeginStep, LookupStep, NominateStep, ExistingStep, FlipStep,
     AdmitStep, InsertStep, EnvironmentStep DEF Next, Statement

(* The invariant holds at the start. *)
LEMMA InitInv == Init => IInv
<1> SUFFICES ASSUME Init PROVE IInv
  OBVIOUS
<1>1. TypeOK
  BY DataAssumption, BooleanAssumption DEF Init, TypeOK, Steps
<1>2. votes = <<>> /\ DOMAIN votes = {}
  BY DEF Init
<1>3. RowsOK
  BY <1>2 DEF RowsOK
<1>4. \A w \in Workers : JobOK(w)
  BY DEF Init, JobOK
<1> QED
  BY <1>1, <1>3, <1>4 DEF IInv

(* The inductive invariant: types, rows, and what every request in flight    *)
(* may still do.                                                            *)
THEOREM Invariant == Spec => []IInv
BY InitInv, InvStep, PTL DEF Spec

(* Every reachable state is well typed. *)
THEOREM TypeCorrect == Spec => []TypeOK
<1>1. IInv => TypeOK
  BY DEF IInv
<1> QED
  BY <1>1, Invariant, PTL

(* The two statements that write the Vote table: the first keeps every row  *)
(* but the one it supersedes, the second adds one at the end.               *)
LEMMA FlipKeeps ==
  ASSUME IInv, NEW w \in Workers, FlipPrevious(w)
  PROVE  BallotsKept
<1>0. /\ step[w] = "flip" /\ is_mutable /\ votes \in Seq(Row)
      /\ job[w].old \in DOMAIN votes
      /\ votes[job[w].old].voter = job[w].voter
      /\ DOMAIN votes = 1..Len(votes)
  BY DEF FlipPrevious, IInv, TypeOK, JobOK
<1>1. /\ votes' \in Seq(Row) /\ Len(votes') = Len(votes)
      /\ \A i \in 1..Len(votes) :
           /\ i # job[w].old => votes'[i] = votes[i]
           /\ i = job[w].old => votes'[i] = [votes[i] EXCEPT !.current = FALSE]
  BY <1>0, FlipRow DEF FlipPrevious
<1>2. DOMAIN votes' = DOMAIN votes
  BY <1>0, <1>1
<1>3. ASSUME NEW i \in DOMAIN votes, votes'[i] # votes[i]
      PROVE  /\ i = job[w].old
             /\ votes[i].current
             /\ votes'[i] = [votes[i] EXCEPT !.current = FALSE]
  <2>1. i = job[w].old /\ votes'[i] = [votes[i] EXCEPT !.current = FALSE]
    BY <1>0, <1>1, <1>3
  <2>2. votes[i] \in Row
    BY <1>0
  <2>3. votes[i].current = FALSE => [votes[i] EXCEPT !.current = FALSE] = votes[i]
    BY <2>2 DEF Row
  <2>4. votes[i].current \in BOOLEAN
    BY <2>2 DEF Row
  <2> QED
    BY <1>3, <2>1, <2>3, <2>4
<1> QED
  BY <1>0, <1>2, <1>3 DEF BallotsKept

(* An INSERT leaves the rows before it as they are. *)
LEMMA InsertKeeps ==
  ASSUME IInv, NEW w \in Workers, InsertVote(w)
  PROVE  BallotsKept
<1> DEFINE r == [voter |-> job[w].voter, option |-> job[w].option,
                 event |-> job[w].event, linked |-> job[w].linked,
                 current |-> TRUE, signed |-> job[w].signed]
<1>0. /\ job[w] \in Job /\ votes \in Seq(Row) /\ votes' = Append(votes, r)
  BY DEF InsertVote, IInv, TypeOK
<1>1. r \in Row
  BY <1>0 DEF Job, Row
<1> HIDE DEF r
<1>2. \A i \in DOMAIN votes : i \in DOMAIN votes' /\ votes'[i] = votes[i]
  BY <1>0, <1>1, AppendRow
<1> QED
  BY <1>2 DEF BallotsKept

(* No step of any handler loses, rewrites or restores a recorded ballot, or *)
(* touches one of another voter; no option is dropped or renamed.           *)
THEOREM HistoryKeptHolds == Spec => HistoryKept
<1>1. ASSUME IInv, Next PROVE BallotsKept
  <2>1. CASE UNCHANGED votes
    BY <2>1 DEF BallotsKept
  <2>2. votes' # votes => \E w \in Workers : FlipPrevious(w) \/ InsertVote(w)
    BY <1>1 DEF Next, Statement, HeadlessBegin, SessionBegin, NostrBegin,
       LookupWriteIn, NominateWriteIn, CheckExisting, HandleRevote, Admit,
       Refuse, IgnoreDuplicate, Crash, Register, SetActive, Tick, Quiet, vars
  <2> QED
    BY <1>1, <2>1, <2>2, FlipKeeps, InsertKeeps
<1>2. ASSUME IInv, Next PROVE OptionsKept
  <2>1. CASE UNCHANGED options
    BY <2>1 DEF OptionsKept
  <2>2. options' # options => \E w \in Workers : NominateWriteIn(w)
    BY <1>2 DEF Next, Statement, HeadlessBegin, SessionBegin, NostrBegin, env,
       LookupWriteIn, CheckExisting, HandleRevote, FlipPrevious, Admit, Refuse,
       InsertVote, IgnoreDuplicate, Crash, Register, SetActive, Tick, Quiet, vars
  <2>3. ASSUME NEW w \in Workers, NominateWriteIn(w) PROVE OptionsKept
    <3>1. job[w].text \in Texts /\ options \in Seq(Texts)
      BY <1>2, <2>3 DEF NominateWriteIn, IInv, TypeOK, JobOK, Job
    <3> QED
      BY <2>3, <3>1, AppendRow DEF NominateWriteIn, OptionsKept
  <2> QED
    BY <2>1, <2>2, <2>3
<1>3. IInv /\ [Next]_vars => [BallotsKept /\ OptionsKept]_vars
  BY <1>1, <1>2
<1> QED
  BY <1>3, Invariant, PTL DEF Spec, HistoryKept

------------------------------------------------------------------------------
(* The refinement of the abstract ballot.                                   *)

(* A voter with a row has one latest row. *)
LEMMA LatestRow ==
  ASSUME votes \in Seq(Row), NEW v, RowsOf(v) # {}
  PROVE  \E m \in RowsOf(v) :
           /\ Latest(v) = {m}
           /\ (CHOOSE i \in Latest(v) : TRUE) = m
           /\ m \in DOMAIN votes
<1>1. /\ DOMAIN votes = 1..Len(votes) /\ Len(votes) \in Nat
      /\ RowsOf(v) \subseteq 1..Len(votes)
  BY DEF RowsOf
<1>2. IsFiniteSet(1..Len(votes))
  BY <1>1, FS_Interval
<1>3. IsFiniteSet(RowsOf(v))
  BY <1>1, <1>2, FS_Subset
<1>4. RowsOf(v) \subseteq Int
  BY <1>1
<1>5. PICK m \in RowsOf(v) : \A k \in RowsOf(v) : k <= m
  BY <1>3, <1>4, GreatestExists
<1>6. Latest(v) = {m}
  BY <1>4, <1>5 DEF Latest
<1> QED
  BY <1>1, <1>6

(* No voter's choice moves unless a row is added. *)
LEMMA CountedFrame ==
  ASSUME votes \in Seq(Row), RowsOK, TablesGrow, DOMAIN votes' = DOMAIN votes,
         \A i \in DOMAIN votes : votes'[i].option = votes[i].option
  PROVE  counted' = counted /\ effected' = effected
<1>1. ASSUME NEW v \in Voters
      PROVE  RowsOf(v)' = RowsOf(v) /\ Latest(v)' = Latest(v)
  <2>1. RowsOf(v)' = RowsOf(v)
    BY DEF RowsOf, TablesGrow
  <2> QED
    BY <2>1 DEF Latest
<1> DEFINE L(v) == CHOOSE i \in Latest(v) : TRUE
<1>2. ASSUME NEW v \in Voters, RowsOf(v) # {}
      PROVE  options'[votes'[L(v)].option] = options[votes[L(v)].option]
  <2>1. L(v) \in DOMAIN votes
    BY <1>2, LatestRow
  <2> HIDE DEF L
  <2> QED
    BY <2>1 DEF RowsOK, TablesGrow
<1>3. \A v \in Voters : L(v)' = L(v)
  BY <1>1
<1> DEFINE C(v) == IF RowsOf(v) = {} THEN None ELSE options[votes[L(v)].option]
<1>4. \A v \in Voters : C(v)' = C(v)
  <2> HIDE DEF L
  <2> QED
    BY <1>1, <1>2, <1>3
<1>5. counted = [v \in Voters |-> C(v)] /\ counted' = [v \in Voters |-> C(v)']
  BY DEF counted
<1>6. effected' = effected
  BY DEF effected, TablesGrow
<1> HIDE DEF C
<1> QED
  BY <1>4, <1>5, <1>6

(* A new row is the choice of its voter, and of nobody else. *)
LEMMA CountedInsert ==
  ASSUME votes \in Seq(Row), RowsOK, NEW r \in Row, votes' = Append(votes, r),
         options' = options, r.voter \in Voters
  PROVE  counted' = [counted EXCEPT ![r.voter] = options[r.option]]
<1> DEFINE n == Len(votes) + 1
<1>1. /\ DOMAIN votes = 1..Len(votes) /\ Len(votes) \in Nat
      /\ DOMAIN votes' = 1..n /\ votes'[n] = r
      /\ \A i \in DOMAIN votes : votes'[i] = votes[i]
  BY AppendRow
<1>2. DOMAIN votes' = DOMAIN votes \cup {n} /\ n \notin DOMAIN votes
      /\ \A i \in DOMAIN votes : i <= n
  BY <1>1
<1> DEFINE L(v) == CHOOSE i \in Latest(v) : TRUE
           C(v) == IF RowsOf(v) = {} THEN None ELSE options[votes[L(v)].option]
<1>3. ASSUME NEW v \in Voters, v # r.voter PROVE C(v)' = C(v)
  <2>1. RowsOf(v)' = RowsOf(v)
    BY <1>1, <1>2, <1>3 DEF RowsOf
  <2>2. Latest(v)' = Latest(v)
    BY <2>1 DEF Latest
  <2>3. L(v)' = L(v)
    BY <2>2
  <2>4. RowsOf(v) # {} => L(v) \in DOMAIN votes
    BY LatestRow
  <2> HIDE DEF L
  <2> QED
    BY <1>1, <2>1, <2>3, <2>4
<1>4. C(r.voter)' = options[r.option]
  <2> DEFINE v == r.voter
  <2>1. RowsOf(v)' = RowsOf(v) \cup {n}
    BY <1>1, <1>2 DEF RowsOf
  <2>2. RowsOf(v) \subseteq DOMAIN votes /\ n \in Nat
    BY <1>1 DEF RowsOf
  <2>3. \A k \in RowsOf(v) : k < n
    BY <1>1, <2>2
  <2>4. Latest(v)' = {i \in RowsOf(v)' : \A k \in RowsOf(v)' : k <= i}
    BY DEF Latest
  <2>5. Latest(v)' = {n}
    BY <1>1, <2>1, <2>2, <2>3, <2>4
  <2>6. L(v)' = n
    BY <2>5
  <2> HIDE DEF L
  <2> QED
    BY <1>1, <2>1, <2>6
<1>5. counted = [v \in Voters |-> C(v)] /\ counted' = [v \in Voters |-> C(v)']
  BY DEF counted
<1> HIDE DEF C
<1> QED
  BY <1>3, <1>4, <1>5

(* What a worker's request asks for, and that it is a request. *)
LEMMA AskedType ==
  ASSUME IInv
  PROVE  /\ None \notin B!Request
         /\ asked = [w \in Workers |-> asked[w]]
         /\ \A w \in Workers :
              /\ step[w] = "idle" => asked[w] = None
              /\ step[w] # "idle" =>
                   /\ asked[w] = [voter |-> job[w].voter,
                                  text |-> AskedText(job[w]),
                                  event |-> job[w].event]
                   /\ asked[w] \in B!Request
<1>1. None \notin B!Request
  BY DataAssumption DEF B!Request, B!Choices
<1>2. ASSUME NEW w \in Workers, step[w] # "idle"
      PROVE  /\ AskedText(job[w]) \in Texts \cup {None} /\ job[w].voter \in Voters
             /\ job[w].event \in EventIds \cup {None}
  <2>1. job[w] \in Job /\ options \in Seq(Texts)
    BY <1>2 DEF IInv, TypeOK
  <2>2. /\ job[w].text \in Texts \cup {None} /\ job[w].voter \in Voters
        /\ job[w].event \in EventIds \cup {None}
    BY <2>1 DEF Job
  <2>3. \A o \in DOMAIN options : options[o] \in Texts
    BY <2>1
  <2> QED
    BY <2>2, <2>3 DEF AskedText
<1> QED
  BY <1>1, <1>2 DEF asked, B!Request, B!Choices

(* What the other workers' requests ask for stays what it was. *)
LEMMA AskedOthers ==
  ASSUME IInv, TablesGrow, DOMAIN options' \subseteq Nat \ {0},
         NEW u \in Workers, step'[u] = step[u], job'[u] = job[u]
  PROVE  asked'[u] = asked[u]
<1>1. step[u] # "idle" => job[u].option \in DOMAIN options \cup {0}
  BY DEF IInv, JobOK
<1>2. /\ asked[u] = IF step[u] = "idle" THEN None
                    ELSE [voter |-> job[u].voter, text |-> AskedText(job[u]),
                          event |-> job[u].event]
      /\ asked'[u] = IF step'[u] = "idle" THEN None
                     ELSE [voter |-> job'[u].voter, text |-> AskedText(job[u])',
                           event |-> job'[u].event]
  BY DEF asked
<1>3. DOMAIN options \subseteq DOMAIN options'
  BY DEF TablesGrow
<1>4. step[u] # "idle" => AskedText(job[u])' = AskedText(job[u])
  BY <1>1, <1>3 DEF AskedText, TablesGrow
<1> QED
  BY <1>2, <1>4
(* ... and so does this worker's while it goes from statement to statement. *)
LEMMA AskedGoesOn ==
  ASSUME IInv, IInv', TablesGrow, NEW w \in Workers, OthersSame(w),
         step[w] # "idle", step'[w] # "idle",
         job'[w].voter = job[w].voter, job'[w].event = job[w].event,
         AskedText(job[w])' = AskedText(job[w])
  PROVE  asked' = asked
<1>1. DOMAIN options' \subseteq Nat \ {0}
  BY DEF IInv, TypeOK
<1>2. ASSUME NEW u \in Workers PROVE asked'[u] = asked[u]
  <2>1. CASE u = w
    BY <2>1 DEF asked
  <2>2. CASE u # w
    BY <1>1, <2>2, AskedOthers DEF OthersSame
  <2> QED
    BY <2>1, <2>2
<1>3. /\ asked = [u \in Workers |-> asked[u]]
      /\ asked' = [u \in Workers |-> asked'[u]]
  BY DEF asked
<1> QED
  BY <1>2, <1>3

(* A request that begins or ends changes its own worker's entry alone. *)
LEMMA AskedMoves ==
  ASSUME IInv, IInv', TablesGrow, NEW w \in Workers, OthersSame(w)
  PROVE  asked' = [asked EXCEPT ![w] = asked'[w]]
<1>1. DOMAIN options' \subseteq Nat \ {0}
  BY DEF IInv, TypeOK
<1>2. ASSUME NEW u \in Workers, u # w PROVE asked'[u] = asked[u]
  BY <1>1, <1>2, AskedOthers DEF OthersSame
<1>3. /\ asked = [u \in Workers |-> asked[u]]
      /\ asked' = [u \in Workers |-> asked'[u]]
  BY DEF asked
<1> QED
  BY <1>2, <1>3

(* Tables that nobody writes grow, and count the same.                      *)
LEMMA SameTables ==
  ASSUME IInv, UNCHANGED <<votes, options, clock>>
  PROVE  TablesGrow /\ counted' = counted /\ effected' = effected
<1>1. TablesGrow
  BY DEF IInv, TypeOK, TablesGrow
<1> QED
  BY <1>1, CountedFrame DEF IInv, TypeOK

(* A request that begins asks. *)
LEMMA BeginAsks ==
  ASSUME IInv, IInv', NEW w \in Workers,
         HeadlessBegin(w) \/ SessionBegin(w) \/ NostrBegin(w)
  PROVE  B!Ask(w)
<1>1. \E j \in Job, s \in {"existing", "lookup", "insert"} :
        /\ step[w] = "idle"
        /\ step' = [step EXCEPT ![w] = s]
        /\ job' = [job EXCEPT ![w] = j]
        /\ UNCHANGED <<votes, options, clock>>
  BY BeginCases DEF IInv
<1>2. PICK j \in Job, s \in {"existing", "lookup", "insert"} :
        /\ step[w] = "idle"
        /\ step' = [step EXCEPT ![w] = s]
        /\ job' = [job EXCEPT ![w] = j]
        /\ UNCHANGED <<votes, options, clock>>
  BY <1>1
<1>3. OthersSame(w) /\ step'[w] # "idle"
  <2>1. JobsTyped /\ s \in Steps
    BY TypeParts
  <2>2. OthersSame(w) /\ step'[w] = s
    BY <1>2, <2>1, GoOn
  <2> QED
    BY <2>2
<1>4. TablesGrow /\ counted' = counted /\ effected' = effected
  BY <1>2, SameTables
<1>5. asked' = [asked EXCEPT ![w] = asked'[w]]
  BY <1>3, <1>4, AskedMoves
<1>6. asked[w] = None /\ asked'[w] \in B!Request
  <2>1. /\ job'[w] \in Job /\ options' \in Seq(Texts)
        /\ asked'[w] = [voter |-> job'[w].voter, text |-> AskedText(job[w])',
                        event |-> job'[w].event]
    BY <1>3 DEF asked, IInv, TypeOK
  <2>2. /\ job'[w].text \in Texts \cup {None} /\ job'[w].voter \in Voters
        /\ job'[w].event \in EventIds \cup {None}
    BY <2>1 DEF Job
  <2>3. \A o \in DOMAIN options' : options'[o] \in Texts
    BY <2>1
  <2>4. AskedText(job[w])' \in Texts \cup {None}
    BY <2>2, <2>3 DEF AskedText
  <2>5. asked'[w] \in B!Request
    BY <2>1, <2>2, <2>4 DEF B!Request, B!Choices
  <2> QED
    BY <1>2, <2>5, AskedType
<1> QED
  BY <1>4, <1>5, <1>6 DEF B!Ask

(* A request that ends without a row is turned away. *)
LEMMA EndTurnsAway ==
  ASSUME IInv, IInv', NEW w \in Workers, step[w] # "idle", Finish(w),
         UNCHANGED <<votes, options, clock>>
  PROVE  B!TurnAway(w)
<1>1. OthersSame(w) /\ step'[w] = "idle"
  BY TypeParts, Ending
<1>2. TablesGrow /\ counted' = counted /\ effected' = effected
  BY SameTables
<1>3. asked' = [asked EXCEPT ![w] = asked'[w]]
  BY <1>1, <1>2, AskedMoves
<1>4. asked'[w] = None
  BY <1>1 DEF asked
<1>5. asked[w] # None
  BY AskedType
<1> QED
  BY <1>2, <1>3, <1>4, <1>5 DEF B!TurnAway

(* A row that is inserted counts what its request asked for. *)
LEMMA InsertCounts ==
  ASSUME IInv, IInv', NEW w \in Workers, InsertVote(w)
  PROVE  B!Count(w)
<1> DEFINE r == [voter |-> job[w].voter, option |-> job[w].option,
                 event |-> job[w].event, linked |-> job[w].linked,
                 current |-> TRUE, signed |-> job[w].signed]
<1>0. /\ step[w] = "insert" /\ job[w] \in Job /\ JobOK(w) /\ RowsOK
      /\ votes \in Seq(Row) /\ options \in Seq(Texts) /\ Finish(w)
      /\ votes' = Append(votes, r)
      /\ UNCHANGED <<options, clock>> /\ clock \in Nat
      /\ job[w].event = None \/ \A i \in DOMAIN votes : votes[i].event # job[w].event
  BY DEF InsertVote, IInv, TypeOK, env
<1>1. /\ r \in Row /\ r.voter = job[w].voter /\ r.option = job[w].option
      /\ r.voter \in Voters /\ r.event = job[w].event
  BY <1>0 DEF Job, Row
<1> HIDE DEF r
<1>2. OthersSame(w) /\ step'[w] = "idle"
  BY <1>0, TypeParts, Ending
<1>3. TablesGrow
  BY <1>0, <1>1, AppendRow DEF TablesGrow
<1>4. asked' = [asked EXCEPT ![w] = asked'[w]] /\ asked'[w] = None
  BY <1>2, <1>3, AskedMoves DEF asked
<1>5. counted' = [counted EXCEPT ![job[w].voter] = options[job[w].option]]
  BY <1>0, <1>1, CountedInsert
<1>6. /\ asked[w] # None
      /\ asked[w].voter = job[w].voter /\ asked[w].text = AskedText(job[w])
      /\ asked[w].event = job[w].event
  BY <1>0, AskedType
<1>7. job[w].option \in DOMAIN options /\ AskedText(job[w]) = options[job[w].option]
  BY <1>0 DEF JobOK, AskedText
<1>8. AskedText(job[w]) # None
  BY <1>0, <1>7, DataAssumption
<1>9. job[w].event \notin effected
  BY <1>0 DEF effected
<1>10. effected' = effected \cup ({job[w].event} \ {None})
  <2>1. /\ DOMAIN votes' = DOMAIN votes \cup {Len(votes) + 1}
        /\ votes'[Len(votes) + 1] = r
        /\ \A i \in DOMAIN votes : votes'[i] = votes[i]
    BY <1>0, <1>1, AppendRow
  <2>2. {votes'[i].event : i \in DOMAIN votes'}
          = {votes[i].event : i \in DOMAIN votes} \cup {job[w].event}
    BY <1>1, <2>1
  <2> QED
    BY <2>2 DEF effected
<1> QED
  BY <1>4, <1>5, <1>6, <1>7, <1>8, <1>9, <1>10 DEF B!Count

(* A worker goes on: with the same request, whatever else it has noted.     *)
GoesOn(w) ==
  /\ step'[w] # "idle" /\ OthersSame(w)
  /\ job'[w].voter = job[w].voter /\ job'[w].text = job[w].text
  /\ job'[w].event = job[w].event
  /\ job[w].text = None => job'[w].option = job[w].option

(* The statements that only read, or clear a flag, go on.                   *)
LEMMA StatementGoesOn ==
  ASSUME IInv, NEW w \in Workers, step[w] # "idle", ~Finish(w),
         \/ LookupWriteIn(w) \/ CheckExisting(w) \/ HandleRevote(w)
         \/ FlipPrevious(w) \/ Admit(w)
  PROVE  GoesOn(w)
<1>0. /\ JobsTyped /\ job[w] \in Job /\ JobOK(w)
      /\ {"existing", "nominate", "gate", "revote", "flip", "insert"}
           \subseteq Steps \ {"idle"}
  BY TypeParts
<1>1. ASSUME NEW s \in Steps \ {"idle"}, Goto(w, s), UNCHANGED job
      PROVE  GoesOn(w)
  BY <1>0, <1>1, GoOnSame DEF Goto, GoesOn
<1>2. ASSUME NEW s \in Steps \ {"idle"}, NEW j \in Job, Goto(w, s),
             job' = [job EXCEPT ![w] = j], j.voter = job[w].voter,
             j.text = job[w].text, job[w].text = None => j.option = job[w].option,
             j.event = job[w].event
      PROVE  GoesOn(w)
  <2>1. OthersSame(w) /\ step'[w] = s /\ job'[w] = j
    BY <1>0, <1>2, GoOn DEF Goto
  <2> QED
    BY <1>2, <2>1 DEF GoesOn
<1>3. CASE LookupWriteIn(w)
  <2>1. ASSUME NEW i \in DOMAIN options, job' = [job EXCEPT ![w].option = i],
               Goto(w, "existing")
        PROVE  GoesOn(w)
    <3> DEFINE j == [job[w] EXCEPT !.option = i]
    <3>1. /\ i \in Nat /\ job[w].text # None
      BY <1>0, <1>3 DEF IInv, TypeOK, LookupWriteIn, JobOK
    <3>2. /\ j \in Job /\ j.voter = job[w].voter /\ j.text = job[w].text
          /\ j.event = job[w].event
      BY <1>0, <3>1 DEF Job
    <3>3. job' = [job EXCEPT ![w] = j]
      BY <2>1
    <3> HIDE DEF j
    <3> QED
      BY <1>0, <1>2, <2>1, <3>1, <3>2, <3>3
  <2> QED
    BY <1>0, <1>1, <1>3, <2>1 DEF LookupWriteIn, IsFirst
<1>4. ASSUME NEW i \in CurrentRows(job[w]), job' = [job EXCEPT ![w].old = i],
             Goto(w, "flip")
      PROVE  GoesOn(w)
  <2> DEFINE j == [job[w] EXCEPT !.old = i]
  <2>1. i \in Nat
    BY TypeParts DEF CurrentRows
  <2>2. /\ j \in Job /\ j.voter = job[w].voter /\ j.text = job[w].text
        /\ j.event = job[w].event /\ j.option = job[w].option
    BY <1>0, <2>1 DEF Job
  <2>3. job' = [job EXCEPT ![w] = j]
    BY <1>4
  <2> HIDE DEF j
  <2> QED
    BY <1>0, <1>2, <1>4, <2>2, <2>3
<1>5. CASE CheckExisting(w)
  BY <1>0, <1>1, <1>4, <1>5 DEF CheckExisting, IsFirst
<1>6. CASE HandleRevote(w)
  BY <1>0, <1>1, <1>4, <1>6 DEF HandleRevote, IsFirst
<1>7. CASE FlipPrevious(w)
  BY <1>0, <1>1, <1>7 DEF FlipPrevious
<1>8. CASE Admit(w)
  <2> DEFINE b == job[w].kind = "session" \/ job[w].voter \in accounts
             j == [job[w] EXCEPT !.linked = b]
  <2>1. /\ j \in Job /\ j.voter = job[w].voter /\ j.text = job[w].text
        /\ j.event = job[w].event /\ j.option = job[w].option
    BY <1>0 DEF Job
  <2>2. job' = [job EXCEPT ![w] = j] /\ Goto(w, "insert")
    BY <1>8, Zenon DEF Admit
  <2> HIDE DEF j
  <2> QED
    BY <1>0, <1>2, <2>1, <2>2
<1> QED
  BY <1>3, <1>5, <1>6, <1>7, <1>8

(* No other statement shows. *)
LEMMA QuietStatement ==
  ASSUME IInv, IInv', NEW w \in Workers, step[w] # "idle", ~Finish(w),
         \/ LookupWriteIn(w) \/ CheckExisting(w) \/ HandleRevote(w)
         \/ FlipPrevious(w) \/ Admit(w)
  PROVE  asked' = asked /\ counted' = counted /\ effected' = effected
<1>0. /\ JobsTyped /\ job[w] \in Job /\ JobOK(w) /\ RowsOK /\ votes \in Seq(Row)
      /\ clock \in Nat /\ UNCHANGED <<options, clock>>
  BY TypeParts DEF LookupWriteIn, CheckExisting, HandleRevote, FlipPrevious,
     Admit, env, IInv, TypeOK
<1>1. /\ step'[w] # "idle" /\ OthersSame(w)
      /\ job'[w].voter = job[w].voter /\ job'[w].text = job[w].text
      /\ job'[w].event = job[w].event
      /\ job[w].text = None => job'[w].option = job[w].option
  BY StatementGoesOn DEF GoesOn
<1>2. AskedText(job[w])' = AskedText(job[w])
  BY <1>0, <1>1 DEF AskedText
<1>3. TablesGrow /\ counted' = counted /\ effected' = effected
  <2>1. CASE UNCHANGED votes
    BY <1>0, <2>1, SameTables
  <2>2. CASE FlipPrevious(w)
    <3>1. /\ DOMAIN votes' = DOMAIN votes
          /\ \A i \in DOMAIN votes : votes[i] \in Row
          /\ \A i \in DOMAIN votes :
               /\ i # job[w].old => votes'[i] = votes[i]
               /\ i = job[w].old => votes'[i] = [votes[i] EXCEPT !.current = FALSE]
      BY <1>0, <2>2, FlipRow DEF FlipPrevious
    <3>2. \A i \in DOMAIN votes : /\ votes'[i].voter = votes[i].voter
                                  /\ votes'[i].event = votes[i].event
                                  /\ votes'[i].option = votes[i].option
      BY <3>1 DEF Row
    <3>3. TablesGrow
      BY <1>0, <3>1, <3>2 DEF TablesGrow
    <3> QED
      BY <1>0, <3>1, <3>2, <3>3, CountedFrame
  <2> QED
    BY <2>1, <2>2 DEF LookupWriteIn, CheckExisting, HandleRevote, Admit
<1> QED
  BY <1>1, <1>2, <1>3, AskedGoesOn

(* Nor does the nomination: an option that nobody chose yet. *)
LEMMA NominateIsQuiet ==
  ASSUME IInv, IInv', NEW w \in Workers, NominateWriteIn(w)
  PROVE  asked' = asked /\ counted' = counted /\ effected' = effected
<1>0. /\ JobsTyped /\ job[w] \in Job /\ JobOK(w) /\ RowsOK /\ votes \in Seq(Row)
      /\ step[w] = "nominate" /\ job[w].text # None /\ job[w].text \in Texts
      /\ clock \in Nat /\ UNCHANGED <<votes, clock>> /\ options \in Seq(Texts)
  BY TypeParts DEF NominateWriteIn, env, IInv, TypeOK, JobOK, Job
<1>1. /\ step'[w] # "idle" /\ OthersSame(w)
      /\ job'[w].voter = job[w].voter /\ job'[w].text = job[w].text
      /\ job'[w].event = job[w].event
  BY <1>0 DEF NominateWriteIn, Goto, OthersSame, JobsTyped, Job
<1>2. AskedText(job[w])' = AskedText(job[w])
  BY <1>0, <1>1 DEF AskedText
<1>3. TablesGrow
  BY <1>0, AppendRow DEF NominateWriteIn, TablesGrow
<1>4. counted' = counted /\ effected' = effected
  BY <1>0, <1>3, CountedFrame
<1> QED
  BY <1>0, <1>1, <1>2, <1>3, <1>4, AskedGoesOn

(* The environment. *)
LEMMA EnvironmentIsQuiet ==
  ASSUME IInv, IInv',
         (\E v \in Voters : Register(v)) \/ SetActive \/ Tick \/ UNCHANGED vars
  PROVE  asked' = asked /\ counted' = counted /\ effected' = effected
<1>0. UNCHANGED <<votes, options, step, job>>
  BY DEF Register, SetActive, Tick, vars
<1>1. asked' = asked
  BY <1>0 DEF asked, AskedText
<1>2. counted' = counted /\ effected' = effected
  BY <1>0 DEF counted, effected, RowsOf, Latest
<1> QED
  BY <1>1, <1>2

(* A step of the handlers asks, turns away, inserts or shows nothing.       *)
Shows ==
  \E w \in Workers : B!Ask(w) \/ B!TurnAway(w) \/ InsertVote(w)

(* Every step records a vote, flips rows, or shows nothing. *)
LEMMA BallotCases ==
  ASSUME IInv, IInv', [Next]_vars
  PROVE  Shows \/ (asked' = asked /\ counted' = counted /\ effected' = effected)
<1>1. ASSUME NEW w \in Workers, HeadlessBegin(w) \/ SessionBegin(w) \/ NostrBegin(w)
      PROVE  Shows
  BY <1>1, BeginAsks DEF Shows
<1>2. ASSUME NEW w \in Workers, InsertVote(w) PROVE Shows
  BY <1>2 DEF Shows
<1>3. ASSUME NEW w \in Workers, step[w] # "idle", Finish(w),
             UNCHANGED <<votes, options, clock>>
      PROVE  Shows
  BY <1>3, EndTurnsAway DEF Shows
<1>4. ASSUME NEW w \in Workers, Refuse(w) \/ IgnoreDuplicate(w) \/ Crash(w)
      PROVE  Shows
  BY <1>3, <1>4 DEF Refuse, IgnoreDuplicate, Crash, env
<1>5. ASSUME NEW w \in Workers,
             \/ LookupWriteIn(w) \/ CheckExisting(w) \/ HandleRevote(w)
             \/ FlipPrevious(w) \/ Admit(w)
      PROVE  Shows \/ (asked' = asked /\ counted' = counted /\ effected' = effected)
  <2>1. step[w] # "idle"
    BY <1>5 DEF LookupWriteIn, CheckExisting, HandleRevote, FlipPrevious, Admit
  <2>2. CASE ~Finish(w)
    BY <1>5, <2>1, <2>2, QuietStatement
  <2>3. CASE Finish(w)
    <3>1. UNCHANGED <<votes, options, clock>>
      BY <1>5, <2>3 DEF LookupWriteIn, CheckExisting, HandleRevote, FlipPrevious,
         Admit, env, Finish, Goto, IInv, TypeOK
    <3> QED
      BY <1>3, <2>1, <2>3, <3>1
  <2> QED
    BY <2>2, <2>3
<1>6. CASE Quiet
  BY <1>6, EnvironmentIsQuiet DEF Quiet
<1> QED
  BY <1>1, <1>2, <1>4, <1>5, <1>6, NominateIsQuiet, EnvironmentIsQuiet
     DEF Next, Statement

(* Every step of the handlers is a step of the abstract ballot or shows     *)
(* nothing.                                                                 *)
LEMMA BallotStep ==
  ASSUME IInv, IInv', [Next]_vars
  PROVE  [B!BallotNext]_<<counted, effected, asked>>
BY BallotCases, InsertCounts DEF Shows, B!BallotNext

(* The initial states of the abstract ballot. *)
LEMMA BallotInitially == Init => B!BallotInit
<1> SUFFICES ASSUME Init PROVE B!BallotInit
  OBVIOUS
<1>1. \A v \in Voters : RowsOf(v) = {}
  BY DEF Init, RowsOf
<1>2. \A w \in Workers : step[w] = "idle"
  BY DEF Init
<1> QED
  BY <1>1, <1>2 DEF Init, B!BallotInit, counted, effected, asked

(* For any number of workers, whatever the interleaving and wherever they   *)
(* are killed, the handlers implement the abstract ballot: one step for     *)
(* each accepted request, to what it asked for.                             *)
THEOREM ImplementsBallot == Spec => RefinesBallot
<1>1. IInv /\ IInv' /\ [Next]_vars => [B!BallotNext]_<<counted, effected, asked>>
  BY BallotStep
<1> QED
  BY <1>1, Invariant, BallotInitially, PTL
     DEF Spec, RefinesBallot, B!BallotSpec
------------------------------------------------------------------------------
(* The tally.                                                               *)

(* The ids that count: one for each voter that has a row, its own. *)
LEMMA CountedIds ==
  ASSUME TypeOK
  PROVE  /\ LatestIds \subseteq DOMAIN votes /\ IsFiniteSet(LatestIds)
         /\ \A i, k \in LatestIds : votes[i].voter = votes[k].voter => i = k
         /\ \A i \in DOMAIN votes : \E k \in LatestIds :
              votes[k].voter = votes[i].voter
<1>1. /\ votes \in Seq(Row) /\ DOMAIN votes = 1..Len(votes) /\ Len(votes) \in Nat
      /\ \A i \in DOMAIN votes : votes[i] \in Row
  BY DEF TypeOK
<1>2. \A v \in Voters : Latest(v) \subseteq RowsOf(v) /\ RowsOf(v) \subseteq DOMAIN votes
  BY DEF Latest, RowsOf
<1>3. LatestIds \subseteq DOMAIN votes
  BY <1>2 DEF LatestIds
<1>4. IsFiniteSet(LatestIds)
  <2>1. IsFiniteSet(1..Len(votes))
    BY <1>1, FS_Interval
  <2> QED
    BY <1>1, <1>3, <2>1, FS_Subset
<1>5. ASSUME NEW i \in LatestIds, NEW k \in LatestIds,
             votes[i].voter = votes[k].voter
      PROVE  i = k
  <2>1. PICK u, v \in Voters : i \in Latest(u) /\ k \in Latest(v)
    BY DEF LatestIds
  <2>2. votes[i].voter = u /\ votes[k].voter = v
    BY <2>1 DEF Latest, RowsOf
  <2>3. PICK m \in RowsOf(u) : Latest(u) = {m}
    BY <1>1, <1>2, <2>1, LatestRow
  <2> QED
    BY <1>5, <2>1, <2>2, <2>3
<1>6. ASSUME NEW i \in DOMAIN votes
      PROVE  \E k \in LatestIds : votes[k].voter = votes[i].voter
  <2> DEFINE v == votes[i].voter
  <2>1. v \in Voters /\ i \in RowsOf(v)
    BY <1>1 DEF Row, RowsOf
  <2>2. PICK m \in RowsOf(v) : Latest(v) = {m}
    BY <1>1, <2>1, LatestRow
  <2>3. m \in LatestIds /\ votes[m].voter = v
    BY <2>1, <2>2 DEF LatestIds, RowsOf
  <2> QED
    BY <2>3
<1> QED
  BY <1>3, <1>4, <1>5, <1>6

(* The turnout is the number of distinct voters. *)
LEMMA TurnoutIsVoters ==
  ASSUME TypeOK
  PROVE  total_votes = Cardinality({votes[i].voter : i \in DOMAIN votes})
<1> DEFINE V == {votes[i].voter : i \in DOMAIN votes}
           f == [i \in LatestIds |-> votes[i].voter]
<1>1. f \in [LatestIds -> V]
  BY CountedIds
<1>2. \A i, k \in LatestIds : f[i] = f[k] => i = k
  BY CountedIds
<1>3. \A v \in V : \E i \in LatestIds : f[i] = v
  BY CountedIds
<1> HIDE DEF f, V
<1>4. ExistsBijection(LatestIds, V)
  <2>1. f \in Bijection(LatestIds, V)
    BY <1>1, <1>2, <1>3, Fun_IsBij
  <2> QED
    BY <2>1 DEF ExistsBijection
<1>5. Cardinality(V) = Cardinality(LatestIds)
  BY <1>4, CountedIds, FS_Bijection
<1> QED
  BY <1>5 DEF total_votes, V

(* The sum that the tally takes is the sum of the options' counts. *)
LEMMA SumOfCounts ==
  ASSUME NEW S, IsFiniteSet(S)
  PROVE  MapThenSumSet(dynamic_vote_count, S)
           = SumOver([o \in S |-> dynamic_vote_count(o)], S)
<1> DEFINE f == [o \in S |-> dynamic_vote_count(o)]
           P(h) == h = [s \in SUBSET S |->
                     IF s = {} THEN 0
                     ELSE dynamic_vote_count(Pick(s)) + h[s \ {Pick(s)}]]
<1>1. MapThenSumSet(dynamic_vote_count, S) = (CHOOSE h : P(h))[S]
  BY DEF MapThenSumSet, MapThenFoldSet, Pick
<1>2. ASSUME NEW h PROVE P(h) <=> IsSum(h, f, S)
  <2>1. \A s \in SUBSET S : s # {} => f[Pick(s)] = dynamic_vote_count(Pick(s))
    BY PickIn
  <2> HIDE DEF f
  <2> QED
    BY <2>1 DEF IsSum
<1> HIDE DEF P
<1>3. \E h : IsSum(h, f, S)
  BY SumExists
<1>4. IsSum(CHOOSE h : P(h), f, S) /\ IsSum(CHOOSE h : IsSum(h, f, S), f, S)
  BY <1>2, <1>3
<1>5. (CHOOSE h : P(h))[S] = (CHOOSE h : IsSum(h, f, S))[S]
  BY <1>4, SumUnique
<1> QED
  BY <1>1, <1>5, SumOverIter

(* The options' counts add up to the turnout. *)
LEMMA CountsAddUp ==
  ASSUME TypeOK, RowsOK
  PROVE  total_votes = MapThenSumSet(dynamic_vote_count, DOMAIN options)
<1> DEFINE S == DOMAIN options
           f == [o \in S |-> dynamic_vote_count(o)]
           c == [i \in DOMAIN votes |-> votes[i].option]
<1>1. IsFiniteSet(S)
  <2>1. S = 1..Len(options) /\ Len(options) \in Nat
    BY DEF TypeOK
  <2> QED
    BY <2>1, FS_Interval
<1>2. \A i \in LatestIds : c[i] = votes[i].option /\ c[i] \in S
  BY CountedIds DEF RowsOK
<1>3. \A o \in S : f[o] = Cardinality(Heap(c, LatestIds, o))
  <2>1. \A o \in S : Heap(c, LatestIds, o) =
                     {i \in LatestIds : votes[i].option = o}
    BY <1>2 DEF Heap
  <2> HIDE DEF S, c
  <2> QED
    BY <2>1 DEF dynamic_vote_count
<1>4. IsFiniteSet(LatestIds)
  BY CountedIds
<1>5. MapThenSumSet(dynamic_vote_count, S) = SumOver(f, S)
  BY <1>1, SumOfCounts
<1> HIDE DEF S, f, c
<1>6. SumOver(f, S) = Cardinality(LatestIds)
  BY <1>1, <1>2, <1>3, <1>4, SumOfHeaps
<1> QED
  BY <1>5, <1>6 DEF total_votes, S

(* Duplicates, stale flags and re-votes never show in the tally. *)
THEOREM TallyAddsUpAlways == Spec => []TallyAddsUp
<1>1. IInv => TallyAddsUp
  BY TurnoutIsVoters, CountsAddUp DEF IInv, TallyAddsUp
<1> QED
  BY <1>1, Invariant, PTL
------------------------------------------------------------------------------
(* One worker that serves HTTP requests of registered voters.               *)
ServedAlone ==
  /\ \A u, w \in Workers : u = w
  /\ "nostr" \notin EntryPoints
  /\ Registered = Voters

(* Statements that leave the rows alone. *)
LEMMA SerialFrame ==
  ASSUME SerialInv, IInv', UNCHANGED <<is_mutable, votes, accounts>>, NEW w \in Workers,
         ServedAlone,
         step'[w] \in {"gate", "insert"} => Cleared(w)',
         step'[w] = "insert" => job'[w].linked,
         step'[w] = "flip" => OthersSuperseded(w)'
  PROVE  SerialInv'
<1>1. \A u \in Workers : u = w
  BY DEF ServedAlone
<1> QED
  BY <1>1 DEF SerialInv, SoleBallot

(* Without a current row of its voter, a request may go to the gate. *)
LEMMA NoneCurrent ==
  ASSUME SerialInv, NEW w \in Workers, CurrentRows(job[w]) = {},
         UNCHANGED <<is_mutable, votes>>, job'[w].voter = job[w].voter
  PROVE  Cleared(w)'
<1>1. \A i \in DOMAIN votes : votes[i].voter = job[w].voter => ~votes[i].current
  BY DEF SerialInv, CurrentRows
<1>2. \A i \in DOMAIN votes : is_mutable \/ votes[i].current
  BY DEF SerialInv
<1> QED
  BY <1>1, <1>2 DEF Cleared

(* The row it chooses to supersede is the only one left to supersede. *)
LEMMA OneCurrent ==
  ASSUME SerialInv, NEW w \in Workers, NEW i \in CurrentRows(job[w]),
         votes' = votes, job'[w].voter = job[w].voter, job'[w].old = i
  PROVE  OthersSuperseded(w)'
<1>1. /\ i \in DOMAIN votes /\ DOMAIN votes \subseteq Nat
      /\ votes[i].voter = job[w].voter /\ votes[i].current
  BY TypeParts DEF CurrentRows, SerialInv
<1>2. ASSUME NEW k \in DOMAIN votes, votes[k].voter = job[w].voter, k # i
      PROVE  ~votes[k].current
  <2>1. k < i \/ i < k
    BY <1>1, <1>2
  <2> QED
    BY <1>1, <1>2, <2>1 DEF SerialInv, SoleBallot
<1> QED
  BY <1>2 DEF OthersSuperseded

(* Steps that store no vote, for a worker served alone. *)
LEMMA SerialRead ==
  ASSUME SerialInv, IInv', NEW w \in Workers, ServedAlone,
         \/ HeadlessBegin(w) \/ SessionBegin(w) \/ LookupWriteIn(w)
         \/ NominateWriteIn(w) \/ CheckExisting(w) \/ HandleRevote(w) \/ Admit(w)
  PROVE  SerialInv'
<1>0. UNCHANGED <<is_mutable, votes, accounts>> /\ JobsTyped
  BY TypeParts DEF HeadlessBegin, SessionBegin, LookupWriteIn, NominateWriteIn,
     CheckExisting, HandleRevote, Admit, env, SerialInv
<1>1. CASE step'[w] \in {"existing", "lookup", "nominate", "idle", "revote"}
  BY <1>0, <1>1, SerialFrame
<1>2. ASSUME CurrentRows(job[w]) = {}, Goto(w, "gate"), UNCHANGED job
      PROVE  SerialInv'
  <2>1. step'[w] = "gate" /\ job'[w] = job[w]
    BY <1>0, <1>2 DEF Goto, JobsTyped
  <2> QED
    BY <1>0, <1>2, <2>1, NoneCurrent, SerialFrame
<1>3. ASSUME NEW i \in CurrentRows(job[w]), Goto(w, "flip"), step[w] # "idle",
             job' = [job EXCEPT ![w].old = i]
      PROVE  SerialInv'
  <2>1. /\ step'[w] = "flip" /\ job'[w].voter = job[w].voter /\ job'[w].old = i
    BY <1>0, <1>3 DEF Goto, JobsTyped, Job
  <2> QED
    BY <1>0, <1>3, <2>1, OneCurrent, SerialFrame
<1>4. CASE Admit(w)
  <2>1. /\ step'[w] = "insert" /\ job'[w].voter = job[w].voter
        /\ job'[w].linked = (job[w].kind = "session" \/ job[w].voter \in accounts)
        /\ job[w].voter \in Voters
    BY <1>0, <1>4 DEF Admit, Goto, JobsTyped, Job
  <2>2. job'[w].linked /\ Cleared(w)
    BY <1>4, <2>1 DEF SerialInv, Admit
  <2>3. Cleared(w)'
    BY <1>0, <2>1, <2>2 DEF Cleared
  <2> QED
    BY <1>0, <2>1, <2>2, <2>3, SerialFrame
<1>5. CASE CheckExisting(w)
  <2>1. Finish(w) => step'[w] = "idle"
    BY <1>0 DEF Finish, JobsTyped
  <2>2. Goto(w, "revote") => step'[w] = "revote"
    BY <1>0 DEF Goto, JobsTyped
  <2> QED
    BY <1>1, <1>2, <1>3, <1>5, <2>1, <2>2 DEF CheckExisting, IsFirst
<1>6. CASE HandleRevote(w)
  BY <1>2, <1>3, <1>6 DEF HandleRevote, IsFirst
<1>7. CASE HeadlessBegin(w) \/ SessionBegin(w) \/ LookupWriteIn(w)
           \/ NominateWriteIn(w)
  <2>1. step'[w] \in {"existing", "lookup", "nominate"}
    BY <1>0, <1>7 DEF HeadlessBegin, SessionBegin, LookupWriteIn,
       NominateWriteIn, Goto, JobsTyped
  <2> QED
    BY <1>1, <2>1
<1> QED
  BY <1>4, <1>5, <1>6, <1>7

(* The flip, for a worker served alone. *)
LEMMA SerialFlip ==
  ASSUME SerialInv, IInv', NEW w \in Workers, ServedAlone, FlipPrevious(w)
  PROVE  SerialInv'
<1>0. /\ step[w] = "flip" /\ is_mutable /\ JobsTyped
      /\ votes \in Seq(Row) /\ DOMAIN votes = 1..Len(votes)
      /\ UNCHANGED <<is_mutable, job, accounts>> /\ step'[w] = "gate"
      /\ OthersSuperseded(w)
  BY TypeParts DEF FlipPrevious, IInv, TypeOK, JobOK, SerialInv, env, Goto,
     JobsTyped
<1>1. /\ votes' \in Seq(Row) /\ Len(votes') = Len(votes)
      /\ \A i \in 1..Len(votes) :
           /\ i # job[w].old => votes'[i] = votes[i]
           /\ i = job[w].old => votes'[i] = [votes[i] EXCEPT !.current = FALSE]
  BY <1>0, FlipRow DEF FlipPrevious
<1>2. /\ DOMAIN votes' = DOMAIN votes
      /\ \A i \in DOMAIN votes : votes[i] \in Row
  BY <1>0, <1>1
<1>3. \A i \in DOMAIN votes :
        /\ votes'[i].voter = votes[i].voter /\ votes'[i].linked = votes[i].linked
        /\ votes'[i].current => votes[i].current
        /\ i = job[w].old => ~votes'[i].current
        /\ i # job[w].old => votes'[i] = votes[i]
  BY <1>0, <1>1, <1>2 DEF Row
<1>4. SoleBallot'
  BY <1>0, <1>2, <1>3 DEF SerialInv, SoleBallot
<1>5. Cleared(w)'
  BY <1>0, <1>2, <1>3 DEF Cleared, OthersSuperseded
<1>6. \A i \in DOMAIN votes' : votes'[i].linked
  BY <1>2, <1>3 DEF SerialInv
<1>7. \A u \in Workers : u = w
  BY DEF ServedAlone
<1> QED
  BY <1>0, <1>4, <1>5, <1>6, <1>7 DEF SerialInv

(* The INSERT, for a worker served alone. *)
LEMMA SerialInsert ==
  ASSUME SerialInv, IInv', NEW w \in Workers, ServedAlone, InsertVote(w)
  PROVE  SerialInv'
<1> DEFINE n == Len(votes) + 1
           r == [voter |-> job[w].voter, option |-> job[w].option,
                 event |-> job[w].event, linked |-> job[w].linked,
                 current |-> TRUE, signed |-> job[w].signed]
<1>0. /\ step[w] = "insert" /\ job[w] \in Job /\ JobsTyped /\ Finish(w)
      /\ votes \in Seq(Row) /\ votes' = Append(votes, r)
      /\ UNCHANGED <<is_mutable, accounts>> /\ Cleared(w) /\ job[w].linked
  BY TypeParts DEF InsertVote, IInv, TypeOK, SerialInv, env
<1>1. /\ r \in Row /\ r.voter = job[w].voter /\ r.linked /\ r.current
  BY <1>0 DEF Job, Row
<1> HIDE DEF r
<1>2. /\ DOMAIN votes' = 1..n /\ DOMAIN votes = 1..Len(votes)
      /\ \A i \in DOMAIN votes : votes'[i] = votes[i]
      /\ votes'[n] = r /\ Len(votes) \in Nat
  BY <1>0, <1>1, AppendRow
<1>3. /\ DOMAIN votes' = DOMAIN votes \cup {n}
      /\ \A i \in DOMAIN votes : i < n
  BY <1>2
<1>4. step'[w] = "idle"
  BY <1>0, Ending
<1>5. SoleBallot'
  <2>1. SUFFICES ASSUME NEW i \in DOMAIN votes', NEW k \in DOMAIN votes',
                        votes'[i].voter = votes'[k].voter, i < k
                 PROVE  is_mutable /\ ~votes'[i].current
    BY <1>0 DEF SoleBallot
  <2>2. i \in DOMAIN votes
    BY <1>2, <2>1
  <2>3. CASE k = n
    BY <1>0, <1>1, <1>2, <2>1, <2>2, <2>3 DEF Cleared
  <2>4. CASE k \in DOMAIN votes
    BY <1>2, <2>1, <2>2, <2>4 DEF SerialInv, SoleBallot
  <2> QED
    BY <1>3, <2>3, <2>4
<1>6. /\ \A i \in DOMAIN votes' : votes'[i].linked
      /\ ~is_mutable => \A i \in DOMAIN votes' : votes'[i].current
  BY <1>1, <1>2, <1>3 DEF SerialInv
<1>7. \A u \in Workers : u = w
  BY DEF ServedAlone
<1> QED
  BY <1>0, <1>4, <1>5, <1>6, <1>7 DEF SerialInv

(* Every step keeps the invariant of a worker served alone. *)
LEMMA SerialStep ==
  ASSUME SerialInv, [Next]_vars, ServedAlone
  PROVE  SerialInv'
<1>0. IInv' /\ JobsTyped
  BY InvStep, TypeParts DEF SerialInv
<1>1. ASSUME NEW w \in Workers, Refuse(w) \/ IgnoreDuplicate(w) \/ Crash(w)
      PROVE  SerialInv'
  <2>1. step'[w] = "idle" /\ UNCHANGED <<is_mutable, votes, accounts>>
    BY <1>0, <1>1, Ending DEF Refuse, IgnoreDuplicate, Crash, env
  <2> QED
    BY <1>0, <2>1, SerialFrame
<1>2. \A w \in Workers : ~NostrBegin(w)
  BY DEF NostrBegin, Accept, ServedAlone
<1>3. CASE (\E v \in Voters : Register(v)) \/ SetActive \/ Tick \/ UNCHANGED vars
           \/ Quiet
  <2>1. UNCHANGED <<is_mutable, votes, accounts, step, job>>
    BY <1>3 DEF Register, SetActive, Tick, vars, Quiet, SerialInv
  <2> QED
    BY <1>0, <2>1 DEF SerialInv, SoleBallot, Cleared, OthersSuperseded
<1> QED
  BY <1>0, <1>1, <1>2, <1>3, SerialRead, SerialFlip, SerialInsert
     DEF Next, Statement

(* It holds at the start. *)
LEMMA SerialInit ==
  ASSUME Init, ServedAlone
  PROVE  SerialInv
BY InitInv DEF Init, ServedAlone, SerialInv, SoleBallot

(* Served one request at a time, wherever the worker is killed, a voter has *)
(* at most one current ballot, its latest; on an immutable poll one ballot. *)
THEOREM SoleBallotServedAlone ==
  ASSUME ServedAlone
  PROVE  Spec => []SoleBallot
<1>1. SerialInv => SoleBallot
  BY DEF SerialInv
<1>2. Spec => []SerialInv
  BY SerialInit, SerialStep, PTL DEF Spec
<1> QED
  BY <1>1, <1>2, PTL

(* ... and there the counted choice of a voter is final. *)
LEMMA InsertCountsOnce ==
  ASSUME SerialInv, IInv', ~is_mutable, NEW w \in Workers, InsertVote(w)
  PROVE  Once!Count(w)
<1>1. B!Count(w)
  BY InsertCounts DEF SerialInv
<1>2. step[w] = "insert" /\ job[w].voter \in Voters /\ Cleared(w)
  BY DEF InsertVote, SerialInv, IInv, TypeOK, Job
<1>3. RowsOf(job[w].voter) = {}
  BY <1>2 DEF Cleared, RowsOf
<1>4. counted[job[w].voter] = None
  BY <1>2, <1>3 DEF counted
<1>5. asked[w].voter = job[w].voter
  BY <1>2, AskedType DEF SerialInv
<1> QED
  BY <1>1, <1>4, <1>5 DEF B!Count, Once!Count

(* Every step of one worker is a step of the ballot with final choices. *)
LEMMA OnceStep ==
  ASSUME SerialInv, IInv', [Next]_vars, ~is_mutable
  PROVE  [Once!BallotNext]_<<counted, effected, asked>>
<1>1. Shows \/ (asked' = asked /\ counted' = counted /\ effected' = effected)
  BY BallotCases DEF SerialInv
<1>2. ASSUME NEW w \in Workers, B!Ask(w) \/ B!TurnAway(w)
      PROVE  Once!BallotNext
  BY <1>2 DEF B!Ask, B!TurnAway, B!Request, B!Choices,
     Once!Ask, Once!TurnAway, Once!Request, Once!Choices, Once!BallotNext
<1>3. ASSUME NEW w \in Workers, InsertVote(w) PROVE Once!BallotNext
  BY <1>3, InsertCountsOnce DEF Once!BallotNext
<1> QED
  BY <1>1, <1>2, <1>3 DEF Shows

(* On an immutable poll, one worker that serves registered voters over HTTP *)
(* implements the ballot in which a counted choice is final.                *)
THEOREM ImplementsOnceBallot ==
  ASSUME ServedAlone
  PROVE  Spec => RefinesOnceBallot
<1>1. Init => Once!BallotInit
  BY BallotInitially DEF B!BallotInit, Once!BallotInit
<1>2. Spec => []SerialInv
  BY SerialInit, SerialStep, PTL DEF Spec
<1>3. SerialInv /\ SerialInv' /\ [Next]_vars
        => [~is_mutable => Once!BallotNext \/ UNCHANGED <<counted, effected, asked>>]_vars
  BY OnceStep DEF SerialInv
<1> QED
  BY <1>1, <1>2, <1>3, PTL DEF Spec, RefinesOnceBallot
------------------------------------------------------------------------------
(* How many ballots a closed poll may still get.                            *)

(* The requests under way that will cast a ballot over HTTP are no more     *)
(* than the workers.                                                        *)
LEMMA CastingFinite ==
  /\ IsFiniteSet(Casting) /\ Cardinality(Casting) \in Nat
  /\ Cardinality(Casting) <= Cardinality(Workers) /\ Cardinality(Workers) \in Nat
  /\ \A w \in Casting : Cardinality(Casting \ {w}) = Cardinality(Casting) - 1
<1>1. Casting \subseteq Workers
  BY DEF Casting, Busy
<1> QED
  BY <1>1, WorkerAssumption, FS_Subset, FS_CardinalityType, FS_RemoveElement

(* A step that neither starts such a request nor records a ballot late.     *)
LEMMA OverrunFrame ==
  ASSUME Overrun, late \in Nat, late' = late, Open' = Open, Casting' \subseteq Casting
  PROVE  Overrun'
<1>1. /\ Cardinality(Casting') <= Cardinality(Casting)
      /\ Cardinality(Casting') \in Nat
  BY CastingFinite, FS_Subset, FS_CardinalityType
<1> QED
  BY <1>1, CastingFinite DEF Overrun

(* A worker that goes on with its request, or ends it, starts none.         *)
LEMMA CastingStays ==
  ASSUME NEW w \in Workers, OthersSame(w), step[w] # "idle",
         step'[w] = "idle" \/ job'[w].event = job[w].event
  PROVE  /\ Casting' \subseteq Casting
         /\ step'[w] = "idle" => Casting' \subseteq Casting \ {w}
BY DEF Casting, Busy, OthersSame

(* What a request starts with, over HTTP: the poll is open.                 *)
LEMMA OverrunBegin ==
  ASSUME IInv, Overrun, NEW w \in Workers,
         HeadlessBegin(w) \/ SessionBegin(w) \/ NostrBegin(w)
  PROVE  Overrun'
<1>1. PICK j \in Job, s \in {"existing", "lookup", "insert"} :
        /\ step' = [step EXCEPT ![w] = s] /\ job' = [job EXCEPT ![w] = j]
        /\ j.event = None => Open
        /\ UNCHANGED <<active, clock, late>>
  BY BeginCases DEF IInv
<1>2. Open' = Open /\ late \in Nat
  BY <1>1 DEF Open, InWindow, IInv, TypeOK
<1>3. CASE Open
  BY <1>1, <1>2, <1>3 DEF Overrun
<1>4. CASE ~Open
  <2>1. JobsTyped /\ s \in Steps
    BY TypeParts
  <2>2. OthersSame(w) /\ job'[w] = j
    BY <1>1, <2>1, GoOn
  <2>3. j.event # None
    BY <1>1, <1>4
  <2>4. Casting' \subseteq Casting
    BY <2>2, <2>3 DEF Casting, Busy, OthersSame
  <2> QED
    BY <1>1, <1>2, <2>4, OverrunFrame
<1> QED
  BY <1>3, <1>4

(* A ballot recorded late takes the place of the request that casts it.     *)
LEMMA OverrunInsert ==
  ASSUME IInv, Overrun, NEW w \in Workers, InsertVote(w)
  PROVE  Overrun'
<1>1. /\ OthersSame(w) /\ step'[w] = "idle" /\ step[w] # "idle"
      /\ UNCHANGED <<active, clock>> /\ late \in Nat
  BY TypeParts, Ending DEF InsertVote, TablesTyped
<1>2. Open' = Open
  BY <1>1 DEF Open, InWindow
<1>3. Casting' \subseteq Casting \ {w} /\ Casting' \subseteq Casting
  BY <1>1, CastingStays
<1>4. CASE late' = late
  BY <1>1, <1>2, <1>3, <1>4, OverrunFrame
<1>5. CASE ~Open /\ job[w].event = None
  <2>1. late' = late + 1
    BY <1>5 DEF InsertVote, CountLate
  <2>2. w \in Casting
    BY <1>1, <1>5 DEF Casting, Busy
  <2>3. IsFiniteSet(Casting \ {w})
    BY CastingFinite, FS_Subset
  <2>4. /\ Cardinality(Casting') <= Cardinality(Casting \ {w})
        /\ Cardinality(Casting') \in Nat
    BY <1>3, <2>3, FS_Subset, FS_CardinalityType
  <2>5. Cardinality(Casting \ {w}) = Cardinality(Casting) - 1
    BY <2>2, CastingFinite
  <2> QED
    BY <1>1, <1>2, <1>5, <2>1, <2>4, <2>5, CastingFinite DEF Overrun
<1> QED
  BY <1>4, <1>5 DEF InsertVote, CountLate

(* Whatever opens or closes the poll starts no request.                     *)
LEMMA OverrunReopen ==
  ASSUME IInv, Overrun, SetActive \/ Tick
  PROVE  Overrun'
<1>1. Casting' = Casting /\ late \in Nat /\ Reopen
  BY DEF SetActive, Tick, Casting, Busy, IInv, TypeOK
<1> QED
  BY <1>1, CastingFinite DEF Overrun, Reopen

(* Every other statement goes on with the request or ends it.               *)
LEMMA OverrunStatement ==
  ASSUME IInv, Overrun, NEW w \in Workers,
         \/ LookupWriteIn(w) \/ NominateWriteIn(w) \/ CheckExisting(w)
         \/ HandleRevote(w) \/ FlipPrevious(w) \/ Admit(w) \/ Refuse(w)
         \/ IgnoreDuplicate(w) \/ Crash(w)
  PROVE  Overrun'
<1>1. /\ UNCHANGED <<active, clock, late>> /\ step[w] # "idle" /\ late \in Nat
      /\ JobsTyped /\ job[w] \in Job
  BY TypeParts DEF LookupWriteIn, NominateWriteIn, CheckExisting, HandleRevote,
     FlipPrevious, Admit, Refuse, IgnoreDuplicate, Crash, env, TablesTyped
<1>2. Open' = Open
  BY <1>1 DEF Open, InWindow
<1>3. CASE Finish(w)
  BY <1>1, <1>2, <1>3, Ending, CastingStays, OverrunFrame
<1>4. CASE ~Finish(w)
  <2>1. OthersSame(w) /\ job'[w].event = job[w].event
    <3>1. CASE NominateWriteIn(w)
      BY <1>1, <3>1 DEF NominateWriteIn, Goto, JobsTyped, OthersSame, Job
    <3>2. CASE ~NominateWriteIn(w)
      BY <1>1, <1>4, <3>2, StatementGoesOn
         DEF GoesOn, Refuse, IgnoreDuplicate, Crash
    <3> QED
      BY <3>1, <3>2
  <2> QED
    BY <1>1, <1>2, <2>1, CastingStays, OverrunFrame
<1> QED
  BY <1>3, <1>4

(* At the start the poll may be closed, but nobody is at work.              *)
LEMMA OverrunInit == Init => Overrun
<1> SUFFICES ASSUME Init PROVE Overrun
  OBVIOUS
<1>1. late = 0
  BY DEF Init
<1> QED
  BY <1>1, CastingFinite DEF Overrun

(* With the requests under way counted in, every step keeps the bound.      *)
LEMMA OverrunStep == IInv /\ Overrun /\ [Next]_vars => Overrun'
<1> SUFFICES ASSUME IInv, Overrun, [Next]_vars PROVE Overrun'
  OBVIOUS
<1>1. CASE (\E v \in Voters : Register(v)) \/ UNCHANGED vars \/ Quiet
  <2>1. UNCHANGED <<active, clock, late, step, job>>
    BY <1>1 DEF Register, vars, Quiet
  <2>2. Open' = Open /\ Casting' = Casting /\ late \in Nat
    BY <2>1 DEF Open, InWindow, Casting, Busy, IInv, TypeOK
  <2> QED
    BY <2>1, <2>2, OverrunFrame
<1> QED
  BY <1>1, OverrunBegin, OverrunStatement, OverrunInsert, OverrunReopen
     DEF Next, Statement

(* However requests interleave with the closing of a poll, by its end or by *)
(* a poll event, and with its reopening: a closed poll gets no more ballots *)
(* over HTTP than there are worker processes.                               *)
THEOREM OverrunBoundedHolds == Spec => []OverrunBounded
<1>1. IInv /\ Overrun => OverrunBounded
  BY CastingFinite DEF IInv, TypeOK, Overrun, OverrunBounded
<1>2. Spec => [](IInv /\ Overrun)
  BY InitInv, InvStep, OverrunInit, OverrunStep, PTL DEF Spec
<1> QED
  BY <1>1, <1>2, PTL
=============================================================================
