------------------------- MODULE FederationSyncProofs -------------------------
(***************************************************************************)
(* Theorems about FederationSync, for any entries, documents, payloads and *)
(* number of workers and requests.                                         *)
(***************************************************************************)
EXTENDS FederationSync, SumTheorems, FiniteSetTheorems, TLAPS

TablesTyped ==
  /\ node \in {"active", "inactive", "gone"}
  /\ rows \in [Keys -> Row \cup {None}]
  /\ messages \in Seq(Message)
  /\ log \subseteq Entry
  /\ requests \in Nat
  /\ written \subseteq [key : Keys, data : Data, version : Nat, edit : BOOLEAN]
  /\ killed \in BOOLEAN
  /\ node = "gone" => messages = <<>> /\ \A k \in Keys : rows[k] = None

(* A worker that does not move: the others disturb it only by the row that  *)
(* a lone worker is about to overwrite.                                    *)
LEMMA Unmoved ==
  ASSUME Consistent, UNCHANGED conf, written \subseteq written',
         NEW x \in Workers, step'[x] = step[x], job'[x] = job[x],
         Serial /\ step[x] = "overwrite" => rows'[Key(x)] \in {None, rows[Key(x)]}
  PROVE  JobOK(x)'
<1>1. JobOK(x) /\ UNCHANGED <<pool, uses>>
  BY DEF Consistent, conf
<1>2. Key(x)' = Key(x)
  BY DEF Key
<1>3. ASSUME NEW k, NEW row, Whole(k, row)
      PROVE  Whole(k, row)'
  BY <1>3 DEF Whole
<1>4. (Serial /\ AnnounceOnly)' => Serial /\ AnnounceOnly
  BY <1>1 DEF Serial, AnnounceOnly
<1>5. Stored(x)' = rows'[Key(x)]
  BY <1>2 DEF Stored
<1> DEFINE j == job[x]
<1>6. /\ Whole(Key(x), j.payload) => (Whole(Key(x), j.payload))'
      /\ Edited(Key(x), j.payload.data) => (Edited(Key(x), j.payload.data))'
  BY <1>2 DEF Whole, Edited
<1>7. Whole(Key(x), j.old) => (Whole(Key(x), j.old))'
  BY <1>2 DEF Whole
<1>8. Serial /\ step[x] = "overwrite" /\ Stored(x)' # None => Stored(x)' = Stored(x)
  BY <1>5 DEF Stored
<1> QED
  BY <1>1, <1>2, <1>4, <1>6, <1>7, <1>8 DEF JobOK, Newer

(* A step of worker w, which takes it to s with the locals j.               *)
LEMMA WorkerStep ==
  ASSUME Consistent, NEW w \in Workers, w \in pool,
         NEW s \in Steps, NEW j \in Job \cup {None},
         step' = [step EXCEPT ![w] = s], job' = [job EXCEPT ![w] = j],
         UNCHANGED conf, written \subseteq written',
         s # "idle" => JobOK(w)',
         TablesTyped', PairsWhole'
  PROVE  Consistent'
<1>1. TypeOK /\ UNCHANGED <<pool, uses>>
  BY DEF Consistent, conf
<1>2. /\ step' \in [Workers -> Steps] /\ job' \in [Workers -> Job \cup {None}]
      /\ step'[w] = s
      /\ \A x \in Workers \ {w} : step'[x] = step[x] /\ job'[x] = job[x]
  BY <1>1 DEF TypeOK
<1>3. TypeOK'
  BY <1>1, <1>2 DEF TypeOK, TablesTyped
<1>4. ASSUME NEW x \in Workers \ {w}
      PROVE  JobOK(x)'
  <2>1. Serial => step[x] # "overwrite"
    <3>1. step[x] = "overwrite" => x \in pool
      BY DEF Consistent, JobOK
    <3> QED
      BY <3>1 DEF Serial
  <2> QED
    BY <1>2, <2>1, Unmoved
<1>5. JobOK(w)'
  BY <1>2 DEF JobOK
<1> QED
  BY <1>3, <1>4, <1>5 DEF Consistent

(* A handler that ends. *)
LEMMA Finished ==
  ASSUME Consistent, NEW w \in Workers, w \in pool, Finish(w),
         UNCHANGED conf, written \subseteq written', TablesTyped', PairsWhole'
  PROVE  Consistent'
BY WorkerStep DEF Finish, Goto, Steps

(* The tables as they are. *)
LEMMA Unchanged ==
  ASSUME Consistent
  PROVE  /\ TablesTyped
         /\ (UNCHANGED <<rows, written>> => PairsWhole')
BY DEF Consistent, TypeOK, TablesTyped, PairsWhole, Whole

(* What is known of a worker between two statements.                        *)
LEMMA Busy ==
  ASSUME Consistent, NEW w \in Workers, step[w] # "idle"
  PROVE  /\ w \in pool /\ job[w] \in Job /\ JobOK(w)
         /\ step[w] \in Steps /\ job \in [Workers -> Job \cup {None}]
         /\ job[w].payload \in Payload
         /\ Key(w) \in Keys => Stored(w) \in Row \cup {None}
BY DEF Consistent, TypeOK, JobOK, Job, Stored

(* A row that is whole is put in the place of another one. *)
LEMMA RowPut ==
  ASSUME Consistent, NEW k \in Keys, NEW row \in Row, Whole(k, row), node # "gone",
         rows' = [rows EXCEPT ![k] = row],
         UNCHANGED <<node, messages, requests, written, killed>>, log' \subseteq Entry
  PROVE  TablesTyped' /\ PairsWhole'
<1>1. TypeOK /\ PairsWhole
  BY DEF Consistent
<1>2. TablesTyped'
  BY <1>1 DEF TypeOK, TablesTyped
<1>3. ASSUME NEW l \in Keys, rows'[l] # None
      PROVE  Whole(l, rows[l])'
  <2>1. CASE l = k
    <3>1. rows'[l] = row
      BY <1>1, <2>1 DEF TypeOK
    <3> QED
      BY <2>1, <3>1 DEF Whole
  <2>2. CASE l # k
    <3>1. rows'[l] = rows[l]
      BY <1>1, <2>2 DEF TypeOK
    <3>2. Whole(l, rows[l])
      BY <1>1, <1>3, <3>1 DEF PairsWhole
    <3> QED
      BY <3>1, <3>2 DEF Whole
  <2> QED
    BY <2>1, <2>2
<1> QED
  BY <1>2, <1>3 DEF PairsWhole

------------------------------------------------------------------------------
(* A request is let in. *)
LEMMA Accepted ==
  ASSUME Consistent, NEW w \in Workers, NEW kind \in Handlers, NEW p \in Payload,
         NEW first \in {"insert", "read", "message", "push"},
         Accept(w, kind, p, first), kind \in KindsAt(first),
         first # "message" => p.key \in Keys,
         kind = "announce" => p \in Payloads,
         written \subseteq written',
         written' \subseteq [key : Keys, data : Data, version : Nat, edit : BOOLEAN],
         kind = "update" => Edited(p.key, p.data)',
         kind \in {"create", "announce", "push"} /\ p.key # None => Whole(p.key, p)'
  PROVE  Consistent'
<1> DEFINE j == [kind |-> kind, payload |-> p, old |-> None, msg |-> 0,
                 status |-> "created"]
<1>1. /\ w \in pool /\ kind \in uses /\ requests' = requests + 1
      /\ job' = [job EXCEPT ![w] = j] /\ step' = [step EXCEPT ![w] = first]
      /\ UNCHANGED <<conf, node, rows, messages, log, killed>>
  BY DEF Accept, Goto
<1>2. TypeOK /\ UNCHANGED <<pool, uses>> /\ PairsWhole
  BY <1>1 DEF Consistent, conf
<1>3. j \in Job /\ first \in Steps
  BY DEF Job, Steps
<1>4. step'[w] = first /\ job'[w] = j
  BY <1>1, <1>2 DEF TypeOK
<1>5. JobOK(w)'
  <2>1. Key(w)' = p.key
    BY <1>4 DEF Key
  <2>2. /\ kind = "update" => Edited(Key(w), j.payload.data)'
        /\ kind \in {"create", "announce", "push"} /\ p.key # None
             => Whole(Key(w), j.payload)'
    BY <2>1
  <2>3. KindsAt(step[w])' = KindsAt(first)
    BY <1>4 DEF KindsAt
  <2> HIDE DEF KindsAt, Whole, Edited, Newer, Stored
  <2> QED
    BY <1>1, <1>2, <1>3, <1>4, <2>1, <2>2, <2>3 DEF JobOK
<1>6. TablesTyped' /\ PairsWhole'
  <2>1. ASSUME NEW k \in Keys, rows'[k] # None
        PROVE  Whole(k, rows[k])'
    <3>1. Whole(k, rows[k])
      BY <1>1, <1>2, <2>1 DEF PairsWhole
    <3> QED
      BY <1>1, <3>1 DEF Whole
  <2> QED
    BY <1>1, <1>2, <2>1 DEF TypeOK, TablesTyped, PairsWhole
<1> QED
  BY <1>1, <1>3, <1>5, <1>6, WorkerStep

(* What is remembered makes the payload whole. *)
LEMMA Remembered ==
  ASSUME Consistent, NEW p \in Payload, p.key # None, NEW edit \in BOOLEAN,
         Remember(p, edit)
  PROVE  /\ written \subseteq written'
         /\ written' \subseteq [key : Keys, data : Data, version : Nat, edit : BOOLEAN]
         /\ Whole(p.key, p)' /\ (edit => Edited(p.key, p.data)')
<1> DEFINE r == [key |-> p.key, data |-> p.data, version |-> p.version, edit |-> edit]
<1>1. written' = written \cup {r}
  BY DEF Remember
<1>2. r \in [key : Keys, data : Data, version : Nat, edit : BOOLEAN]
  BY DEF Payload
<1>3. Whole(p.key, p)'
  <2>1. r \in written' /\ r.key = p.key /\ r.data = p.data /\ r.version = p.version
    BY <1>1
  <2> HIDE DEF r
  <2> QED
    BY <2>1, Zenon DEF Whole
<1>4. ASSUME edit
      PROVE  Edited(p.key, p.data)'
  <2>1. r \in written' /\ r.key = p.key /\ r.data = p.data /\ r.edit
    BY <1>1, <1>4
  <2> QED
    BY <2>1 DEF Edited
<1> QED
  BY <1>1, <1>2, <1>3, <1>4 DEF Consistent, TypeOK

(* A request is let in, of each kind. *)
LEMMA Begins ==
  ASSUME Consistent, NEW w \in Workers, Begin(w)
  PROVE  Consistent'
<1>1. ASSUME NEW k \in Keys, NEW d \in Edits,
             \/ BeginCreate(w, k, d) \/ BeginUpdate(w, k, d)
             \/ BeginBare(w, "touch", k, d) \/ BeginBare(w, "delete", k, d)
      PROVE  Consistent'
  <2> DEFINE p == [key |-> k, data |-> d, version |-> 1]
  <2>1. p \in Payload /\ p.key \in Keys /\ p.key # None
    BY PayloadAssumption, NoneAssumption DEF Payload
  <2>2. CASE BeginCreate(w, k, d)
    <3>1. Accept(w, "create", p, "insert") /\ Remember(p, FALSE)
      BY <2>2 DEF BeginCreate
    <3> QED
      BY <2>1, <3>1, Remembered, Accepted DEF Handlers, KindsAt
  <2>3. CASE BeginUpdate(w, k, d)
    <3>1. Accept(w, "update", p, "read") /\ Remember(p, TRUE)
      BY <2>3 DEF BeginUpdate
    <3> QED
      BY <2>1, <3>1, Remembered, Accepted DEF Handlers, KindsAt
  <2>4. ASSUME NEW kind \in {"touch", "delete"}, BeginBare(w, kind, k, d)
        PROVE  Consistent'
    <3>1. Accept(w, kind, p, "read") /\ UNCHANGED written
      BY <2>4 DEF BeginBare
    <3>2. written' \subseteq [key : Keys, data : Data, version : Nat, edit : BOOLEAN]
      BY <3>1 DEF Consistent, TypeOK
    <3>3. kind \in Handlers /\ kind \in KindsAt("read")
      BY <2>4 DEF Handlers, KindsAt
    <3> QED
      BY <2>1, <2>4, <3>1, <3>2, <3>3, Accepted
  <2> QED
    BY <1>1, <2>2, <2>3, <2>4
<1>2. ASSUME NEW p \in Payloads, BeginAnnounce(w, p) \/ BeginPush(w, p)
      PROVE  Consistent'
  <2>1. p \in Payload /\ (p.key # None => p.key \in Keys)
    BY PayloadAssumption DEF Payload
  <2>2. CASE BeginAnnounce(w, p)
    <3>1. /\ Accept(w, "announce", p, "message")
          /\ IF p.key = None THEN UNCHANGED written ELSE Remember(p, FALSE)
      BY <2>2 DEF BeginAnnounce
    <3>2. /\ written \subseteq written'
          /\ written' \subseteq [key : Keys, data : Data, version : Nat, edit : BOOLEAN]
          /\ p.key # None => Whole(p.key, p)'
      <4>1. CASE p.key = None
        BY <3>1, <4>1 DEF Consistent, TypeOK
      <4>2. CASE p.key # None
        BY <2>1, <3>1, <4>2, Remembered
      <4> QED
        BY <4>1, <4>2
    <3> QED
      BY <2>1, <3>1, <3>2, Accepted DEF Handlers, KindsAt
  <2>3. CASE BeginPush(w, p)
    <3>1. p.key # None /\ Accept(w, "push", p, "push") /\ Remember(p, FALSE)
      BY <2>3 DEF BeginPush
    <3> QED
      BY <2>1, <3>1, Remembered, Accepted DEF Handlers, KindsAt
  <2> QED
    BY <1>2, <2>2, <2>3
<1> QED
  BY <1>1, <1>2 DEF Begin

------------------------------------------------------------------------------
(* An UPDATE of the row, with something that is whole. *)
LEMMA Updated ==
  ASSUME Consistent, NEW w \in Workers, NEW s \in {"saveData", "saveDeleted", "overwrite"},
         NEW row, UpdateRow(w, s, row),
         Stored(w) # None => row \in Row /\ Whole(Key(w), row)
  PROVE  Consistent'
<1>1. /\ step[w] = s
      /\ UNCHANGED <<conf, node, messages, log, requests, written, killed>>
  BY DEF UpdateRow
<1>2. /\ w \in pool /\ job[w] \in Job /\ JobOK(w)
      /\ Key(w) \in Keys /\ job[w].kind \in {"update", "touch", "delete", "announce"}
      /\ job \in [Workers -> Job \cup {None}] /\ UNCHANGED <<pool, uses>>
  BY <1>1, Busy DEF JobOK, KindsAt, conf
<1>3. CASE Stored(w) # None
  <2>1. /\ rows' = [rows EXCEPT ![Key(w)] = row] /\ job' = job
        /\ step' = [step EXCEPT ![w] = "audit"]
    BY <1>3 DEF UpdateRow, PutRow, Goto
  <2>2. node # "gone" /\ log \subseteq Entry
    BY <1>2, <1>3 DEF Consistent, TypeOK, Stored
  <2>3. TablesTyped' /\ PairsWhole'
    BY <1>1, <1>2, <1>3, <2>1, <2>2, RowPut
  <2>4. job' = [job EXCEPT ![w] = job[w]] /\ job'[w] = job[w] /\ step'[w] = "audit"
    BY <1>2, <2>1 DEF Consistent, TypeOK
  <2>5. JobOK(w)'
    <3>1. Key(w)' = Key(w)
      BY <2>1 DEF Key
    <3>2. /\ job[w].kind = "update" => Edited(Key(w), job[w].payload.data)'
          /\ job[w].kind \in {"create", "announce", "push"} /\ Key(w) # None
               => Whole(Key(w), job[w].payload)'
      <4>1. /\ job[w].kind = "update" => Edited(Key(w), job[w].payload.data)
            /\ job[w].kind \in {"create", "announce", "push"} /\ Key(w) # None
                 => Whole(Key(w), job[w].payload)
        BY <1>1, <1>2 DEF JobOK
      <4> QED
        BY <1>1, <2>1, <3>1, <4>1 DEF Whole, Edited
    <3>3. KindsAt(step[w])' = Handlers
      BY <2>4 DEF KindsAt
    <3>4. job[w].kind \in uses /\ (job[w].kind = "announce" => job[w].payload \in Payloads)
      BY <1>1, <1>2 DEF JobOK
    <3> QED
      BY <1>2, <2>1, <2>4, <3>1, <3>2, <3>3, <3>4 DEF JobOK, Handlers
  <2> QED
    BY <1>1, <1>2, <2>1, <2>3, <2>4, <2>5, WorkerStep DEF Steps
<1>4. CASE Stored(w) = None
  <2>1. Finish(w) /\ rows' = rows
    BY <1>4 DEF UpdateRow
  <2>2. TablesTyped' /\ PairsWhole'
    BY <1>1, <2>1, Unchanged DEF TablesTyped
  <2> QED
    BY <1>1, <1>2, <2>1, <2>2, Finished
<1> QED
  BY <1>3, <1>4

(* The statements that save a row. *)
LEMMA Saves ==
  ASSUME Consistent, NEW w \in Workers, SaveData(w) \/ SaveDeleted(w) \/ Overwrite(w)
  PROVE  Consistent'
<1> DEFINE p == job[w].payload
<1>1. /\ step[w] # "idle" /\ JobOK(w) /\ p \in Payload /\ p.version \in Nat /\ p.data \in Data
      /\ step[w] \in {"saveData", "saveDeleted", "overwrite"}
  BY Busy DEF SaveData, SaveDeleted, Overwrite, UpdateRow, Payload
<1>2. Key(w) \in Keys /\ (Stored(w) # None => Stored(w) \in Row)
  BY <1>1, Busy DEF JobOK
<1>3. Key(w) # None /\ job[w].kind \in KindsAt(step[w])
  BY <1>1, <1>2, NoneAssumption DEF JobOK
<1>4. CASE SaveData(w)
  <2> DEFINE row == [Stored(w) EXCEPT !.data = p.data]
  <2>1. UpdateRow(w, "saveData", row) /\ step[w] = "saveData"
    BY <1>4 DEF SaveData, UpdateRow
  <2>2. ASSUME Stored(w) # None
        PROVE  row \in Row /\ Whole(Key(w), row)
    <3>1. row \in Row /\ row.data = p.data
      BY <1>1, <1>2, <2>2 DEF Row
    <3>2. Edited(Key(w), p.data)
      BY <1>1, <1>3, <2>1 DEF JobOK, KindsAt
    <3> QED
      BY <3>1, <3>2 DEF Whole, Edited
  <2> QED
    BY <2>1, <2>2, Updated
<1>5. CASE SaveDeleted(w)
  <2> DEFINE row == [job[w].old EXCEPT !.active = FALSE]
  <2>1. UpdateRow(w, "saveDeleted", row) /\ step[w] = "saveDeleted"
    BY <1>5 DEF SaveDeleted, UpdateRow
  <2>2. job[w].old \in Row /\ Whole(Key(w), job[w].old)
    BY <1>1, <2>1 DEF JobOK
  <2>3. row \in Row /\ row.data = job[w].old.data /\ row.version = job[w].old.version
    BY <2>2 DEF Row
  <2>4. Whole(Key(w), row)
    BY <2>2, <2>3 DEF Whole
  <2> QED
    BY <2>1, <2>3, <2>4, Updated
<1>6. CASE Overwrite(w)
  <2> DEFINE row == [Stored(w) EXCEPT !.data = p.data, !.version = p.version]
  <2>1. UpdateRow(w, "overwrite", row) /\ step[w] = "overwrite"
    BY <1>6 DEF Overwrite, UpdateRow
  <2>2. ASSUME Stored(w) # None
        PROVE  row \in Row /\ Whole(Key(w), row)
    <3>1. row \in Row /\ row.data = p.data /\ row.version = p.version
      BY <1>1, <1>2, <2>2 DEF Row
    <3>2. Whole(Key(w), p)
      BY <1>1, <1>3, <2>1 DEF JobOK, KindsAt
    <3> QED
      BY <3>1, <3>2 DEF Whole
  <2> QED
    BY <2>1, <2>2, Updated
<1> QED
  BY <1>4, <1>5, <1>6

------------------------------------------------------------------------------
(* A statement after which the handler goes on with the same request.       *)
LEMMA Advance ==
  ASSUME Consistent, NEW w \in Workers, step[w] # "idle",
         NEW s \in Steps \ {"idle"}, NEW j \in Job,
         step' = [step EXCEPT ![w] = s], job' = [job EXCEPT ![w] = j],
         j.kind = job[w].kind, j.kind \in KindsAt(s),
         j.payload.key = job[w].payload.key,
         j.kind = "update" => j.payload.data = job[w].payload.data,
         s = "saveData" => Edited(Key(w), j.payload.data)',
         j.kind \in {"create", "announce", "push"} => j.payload = job[w].payload,
         s \notin {"message", "mark"} => Key(w) \in Keys,
         s = "saveDeleted" =>
           j.old \in Row /\ j.old.version = j.payload.version /\ Whole(Key(w), j.old),
         s = "overwrite" => /\ Newer(j.payload, Stored(w)) /\ rows' = rows
                            /\ j.old = Stored(w) /\ Stored(w) \in Row,
         UNCHANGED conf, written \subseteq written', TablesTyped', PairsWhole'
  PROVE  Consistent'
<1>1. /\ w \in pool /\ JobOK(w) /\ UNCHANGED <<pool, uses>>
      /\ step'[w] = s /\ job'[w] = j
  BY Busy DEF Consistent, TypeOK, conf
<1>2. Key(w)' = Key(w)
  BY <1>1 DEF Key
<1>3. /\ j.kind = "update" \/ s = "saveData" => Edited(Key(w), j.payload.data)'
      /\ j.kind \in {"create", "announce", "push"} /\ Key(w) # None
           => Whole(Key(w), j.payload)'
  <2>1. /\ j.kind = "update" => Edited(Key(w), j.payload.data)
        /\ j.kind \in {"create", "announce", "push"} /\ Key(w) # None
             => Whole(Key(w), j.payload)
    BY <1>1 DEF JobOK
  <2> QED
    BY <1>2, <2>1 DEF Edited, Whole
<1>4. KindsAt(step[w])' = KindsAt(s)
  BY <1>1 DEF KindsAt
<1>5. s = "saveDeleted" => Whole(Key(w), j.old)'
  BY <1>2 DEF Whole
<1>6. s = "overwrite" => Stored(w)' = Stored(w)
  BY <1>2 DEF Stored
<1>7. j.kind \in uses /\ (j.kind = "announce" => j.payload \in Payloads)
  BY <1>1 DEF JobOK
<1>8. JobOK(w)'
  <2> HIDE DEF KindsAt, Whole, Edited, Newer, Stored
  <2> QED
    BY <1>1, <1>2, <1>3, <1>4, <1>5, <1>6, <1>7, SMTT(30) DEF JobOK, Newer
<1> QED
  BY <1>1, <1>8, WorkerStep

(* An update of some locals, or of none. *)
LEMMA Locals ==
  ASSUME Consistent, NEW w \in Workers, step[w] # "idle"
  PROVE  /\ job = [job EXCEPT ![w] = job[w]]
         /\ job[w].kind \in KindsAt(step[w])
         /\ \A old \in Row \cup {None}, m \in Nat, status \in {"created", "updated"} :
              /\ [job[w] EXCEPT !.old = old, !.status = status] \in Job
              /\ [job[w] EXCEPT !.msg = m] \in Job
<1>1. job[w] \in Job /\ job \in [Workers -> Job \cup {None}] /\ JobOK(w)
  BY Busy
<1> QED
  BY <1>1 DEF Job, JobOK

(* An entry of the audit log. *)
LEMMA LogTyped ==
  ASSUME Consistent, NEW w \in Workers, step[w] # "idle", Key(w) \in Keys,
         NEW status \in {"created", "updated", "conflict"}, Logged(w, status)
  PROVE  log' \subseteq Entry
<1>1. job[w].payload.version \in Nat
  BY Busy DEF Payload
<1> QED
  BY <1>1 DEF Logged, Entry, Consistent, TypeOK

(* The INSERT. *)
LEMMA Inserted ==
  ASSUME Consistent, NEW w \in Workers, InsertRow(w)
  PROVE  Consistent'
<1> DEFINE p == job[w].payload
           row == [data |-> p.data, version |-> p.version, active |-> TRUE]
<1>1. /\ step[w] = "insert"
      /\ UNCHANGED <<conf, node, messages, log, requests, written, killed>>
  BY DEF InsertRow
<1>2. /\ w \in pool /\ job[w] \in Job /\ JobOK(w) /\ p \in Payload
      /\ Key(w) \in Keys /\ Key(w) # None /\ job[w].kind \in {"create", "announce"}
  BY <1>1, Busy, NoneAssumption DEF JobOK, KindsAt
<1>3. CASE Stored(w) = None /\ node # "gone"
  <2>1. /\ rows' = [rows EXCEPT ![Key(w)] = row] /\ job' = job
        /\ step' = [step EXCEPT ![w] = "audit"]
    BY <1>3 DEF InsertRow, PutRow, Goto
  <2>2. row \in Row /\ Whole(Key(w), p) /\ row.data = p.data /\ row.version = p.version
    BY <1>1, <1>2 DEF Row, Payload, JobOK
  <2>3. Whole(Key(w), row)
    BY <2>2 DEF Whole
  <2>4. log' \subseteq Entry
    BY <1>1 DEF Consistent, TypeOK
  <2>5. TablesTyped' /\ PairsWhole'
    BY <1>1, <1>2, <1>3, <2>1, <2>2, <2>3, <2>4, RowPut
  <2>6. job' = [job EXCEPT ![w] = job[w]] /\ job[w].kind \in KindsAt("audit")
    BY <1>1, <1>2, <2>1, Locals DEF KindsAt, Handlers
  <2> QED
    BY <1>1, <1>2, <2>1, <2>5, <2>6, Advance DEF Steps
<1>4. CASE ~(Stored(w) = None /\ node # "gone")
  <2>1. Finish(w) /\ rows' = rows
    BY <1>4 DEF InsertRow
  <2>2. TablesTyped' /\ PairsWhole'
    BY <1>1, <2>1, Unchanged DEF TablesTyped
  <2> QED
    BY <1>1, <1>2, <2>1, <2>2, Finished
<1> QED
  BY <1>3, <1>4

(* The statements that read a row. *)
LEMMA Reads ==
  ASSUME Consistent, NEW w \in Workers, ReadActive(w) \/ ReadExisting(w)
  PROVE  Consistent'
<1>1. /\ step[w] \in {"read", "existing"}
      /\ UNCHANGED <<conf, node, rows, messages, log, requests, killed>>
  BY DEF ReadActive, ReadExisting
<1>2. /\ w \in pool /\ job[w] \in Job /\ JobOK(w) /\ job[w].payload \in Payload
      /\ Key(w) \in Keys /\ Key(w) # None /\ Stored(w) \in Row \cup {None}
  BY <1>1, Busy, NoneAssumption DEF JobOK
<1>3. UNCHANGED written => TablesTyped' /\ PairsWhole'
  BY <1>1, Unchanged DEF TablesTyped
<1>4. CASE ReadActive(w)
  <2>1. /\ step[w] = "read" /\ job[w].kind \in {"update", "touch", "delete"}
        /\ job[w].kind = "update" => Edited(Key(w), job[w].payload.data)
    BY <1>2, <1>4 DEF ReadActive, JobOK, KindsAt
  <2>2. CASE Stored(w) # None /\ Stored(w).active
    <3> DEFINE row == Stored(w)
               asIs == [key |-> Key(w), version |-> row.version,
                        data |-> IF job[w].kind = "touch" THEN row.data
                                 ELSE job[w].payload.data]
    <3>1. PICK p : p = asIs
      OBVIOUS
    <3>2. p \in Payload /\ p.key = Key(w) /\ p.version = row.version
      BY <1>2, <2>2, <3>1 DEF Payload, Row
    <3>3. PICK j : j = [job[w] EXCEPT !.old = row, !.status = "updated", !.payload = p]
      OBVIOUS
    <3>4. /\ j \in Job /\ j.kind = job[w].kind /\ j.old = row /\ j.payload = p
      BY <1>2, <2>2, <3>2, <3>3 DEF Job
    <3>5. PICK s : s = IF job[w].kind = "delete" THEN "saveDeleted" ELSE "saveData"
      OBVIOUS
    <3>6. /\ job' = [job EXCEPT ![w] = j] /\ step' = [step EXCEPT ![w] = s]
          /\ IF job[w].kind = "touch" THEN Remember(p, TRUE) ELSE UNCHANGED written
      <4>1. /\ job' = [job EXCEPT ![w].old = row, ![w].status = "updated",
                                  ![w].payload = p]
            /\ IF job[w].kind = "touch" THEN Remember(p, TRUE) ELSE UNCHANGED written
        BY <1>4, <2>2, <3>1 DEF ReadActive
      <4>2. job \in [Workers -> Job \cup {None}]
        BY DEF Consistent, TypeOK
      <4>3. job' = [job EXCEPT ![w] = j]
        BY <3>3, <4>1, <4>2
      <4>4. step' = [step EXCEPT ![w] = s]
        BY <1>4, <2>2, <3>5 DEF ReadActive, Goto
      <4> QED
        BY <4>1, <4>3, <4>4
    <3>7. job[w].kind = "update" => p.data = job[w].payload.data
      BY <3>1
    <3>8. s \in Steps \ {"idle"} /\ j.kind \in KindsAt(s) /\ s # "overwrite"
      BY <2>1, <3>4, <3>5 DEF Steps, KindsAt
    <3>9. row \in Row /\ Whole(Key(w), row)
      BY <1>2, <2>2 DEF Consistent, PairsWhole, Stored
    <3>10. s = "saveData" => job[w].kind \in {"update", "touch"}
      BY <2>1, <3>5
    <3>11. Key(w)' = Key(w)
      BY <1>2, <3>2, <3>4, <3>6 DEF Key, Consistent, TypeOK
    <3> HIDE DEF asIs
    <3>12. CASE job[w].kind = "touch"
      <4>1. Remember(p, TRUE) /\ p.key # None
        BY <1>2, <3>2, <3>6, <3>12
      <4>2. /\ written \subseteq written' /\ Edited(p.key, p.data)'
            /\ written' \subseteq [key : Keys, data : Data, version : Nat,
                                   edit : BOOLEAN]
        BY <3>2, <4>1, Remembered
      <4>3. Edited(Key(w), j.payload.data)'
        BY <3>2, <3>4, <3>11, <4>2
      <4>4. TablesTyped' /\ PairsWhole'
        BY <1>1, <4>2, Unchanged DEF Consistent, TablesTyped, PairsWhole, Whole
      <4> QED
        BY <1>1, <1>2, <3>2, <3>4, <3>6, <3>8, <3>9, <3>12, <4>2, <4>3, <4>4,
           Advance DEF Key
    <3>13. CASE job[w].kind # "touch"
      <4>1. UNCHANGED written /\ TablesTyped' /\ PairsWhole'
        BY <1>3, <3>6, <3>13
      <4>2. ASSUME s = "saveData" PROVE Edited(Key(w), j.payload.data)'
        <5>1. Edited(Key(w), job[w].payload.data) /\ p.data = job[w].payload.data
          BY <2>1, <3>7, <3>10, <3>13, <4>2
        <5> QED
          BY <3>4, <3>11, <4>1, <5>1 DEF Edited
      <4> QED
        BY <1>1, <1>2, <2>1, <3>2, <3>4, <3>6, <3>7, <3>8, <3>9, <3>13, <4>1, <4>2,
           Advance DEF Key
    <3> QED
      BY <3>12, <3>13
  <2>3. CASE ~(Stored(w) # None /\ Stored(w).active)
    BY <1>1, <1>2, <1>3, <1>4, <2>3, Finished DEF ReadActive
  <2> QED
    BY <2>2, <2>3
<1>5. CASE ReadExisting(w)
  <2>1. step[w] = "existing" /\ job[w].kind = "announce"
    BY <1>2, <1>5 DEF ReadExisting, JobOK, KindsAt
  <2> DEFINE status == IF Stored(w) = None THEN "created" ELSE "updated"
             j == [job[w] EXCEPT !.old = Stored(w), !.status = status]
  <2>2. PICK s \in {"insert", "overwrite", "mark"} :
            /\ step' = [step EXCEPT ![w] = s]
            /\ s = "overwrite" => /\ Newer(job[w].payload, Stored(w))
                                  /\ Stored(w) # None
    <3>1. step' = [step EXCEPT ![w] =
              CASE Stored(w) = None -> "insert"
                [] Stored(w) # None /\ Newer(job[w].payload, Stored(w)) -> "overwrite"
                [] OTHER -> "mark"]
      BY <1>5 DEF ReadExisting, Goto
    <3> QED
      BY <3>1
  <2>3. job' = [job EXCEPT ![w] = j]
    <3>1. job' = [job EXCEPT ![w].old = Stored(w), ![w].status = status]
      BY <1>5 DEF ReadExisting
    <3>2. job \in [Workers -> Job \cup {None}]
      BY DEF Consistent, TypeOK
    <3> QED
      BY <3>1, <3>2
  <2>4. /\ j \in Job /\ j.kind = job[w].kind /\ j.payload = job[w].payload
        /\ j.old = Stored(w) /\ UNCHANGED written
    BY <1>2, <1>5 DEF Job, ReadExisting
  <2>5. s \in Steps \ {"idle"} /\ j.kind \in KindsAt(s) /\ s # "saveData"
    BY <2>1, <2>4 DEF Steps, KindsAt
  <2> HIDE DEF j, status
  <2> QED
    BY <1>1, <1>2, <1>3, <2>1, <2>2, <2>3, <2>4, <2>5, Advance
<1> QED
  BY <1>4, <1>5

(* The statements on the message. *)
LEMMA Messages ==
  ASSUME Consistent, NEW w \in Workers, StoreMessage(w) \/ MarkProcessed(w)
  PROVE  Consistent'
<1>1. /\ step[w] \in {"message", "mark"}
      /\ UNCHANGED <<conf, node, rows, log, requests, written, killed>>
  BY DEF StoreMessage, MarkProcessed
<1>2. /\ w \in pool /\ job[w] \in Job /\ JobOK(w) /\ job[w].payload \in Payload
      /\ job[w].kind = "announce" /\ messages \in Seq(Message) /\ TypeOK
  BY <1>1, Busy DEF JobOK, KindsAt, Consistent, TypeOK
<1>3. PairsWhole'
  BY <1>1, Unchanged
<1>4. CASE StoreMessage(w)
  <2>1. CASE node = "gone"
    <3>1. Finish(w) /\ UNCHANGED messages
      BY <1>4, <2>1 DEF StoreMessage
    <3>2. TablesTyped'
      BY <1>1, <3>1, Unchanged DEF TablesTyped
    <3> QED
      BY <1>1, <1>2, <1>3, <3>1, <3>2, Finished
  <2>2. CASE node # "gone"
    <3> DEFINE j == [job[w] EXCEPT !.msg = Len(messages) + 1]
               s == IF Key(w) = None THEN "mark" ELSE "existing"
               m == [payload |-> job[w].payload, processed |-> FALSE]
    <3>1. /\ messages' = Append(messages, m)
          /\ job' = [job EXCEPT ![w].msg = Len(messages) + 1]
          /\ step' = [step EXCEPT ![w] = s]
      BY <1>4, <2>2 DEF StoreMessage, Goto
    <3>2. job' = [job EXCEPT ![w] = j]
      <4>1. job \in [Workers -> Job \cup {None}]
        BY <1>2 DEF TypeOK
      <4> QED
        BY <3>1, <4>1
    <3>3. Len(messages) + 1 \in Nat
      BY <1>2
    <3>4. j \in Job /\ j.kind = job[w].kind /\ j.payload = job[w].payload
      BY <1>2, <3>3 DEF Job
    <3>5. m \in Message
      BY <1>2 DEF Message
    <3>6. messages' \in Seq(Message)
      BY <1>2, <3>1, <3>5
    <3>7. TablesTyped'
      BY <1>1, <1>2, <2>2, <3>6 DEF TypeOK, TablesTyped
    <3>8. s \in Steps \ {"idle"} /\ j.kind \in KindsAt(s)
          /\ s \in {"mark", "existing"} /\ (s = "existing" => Key(w) \in Keys)
      BY <1>2, <3>4 DEF Steps, KindsAt, Key, Payload
    <3> HIDE DEF j, s, m
    <3> QED
      BY <1>1, <1>2, <1>3, <3>1, <3>2, <3>4, <3>7, <3>8, Advance
  <2> QED
    BY <2>1, <2>2
<1>5. CASE MarkProcessed(w)
  <2>1. /\ messages' = IF job[w].msg \in DOMAIN messages
                       THEN [messages EXCEPT ![job[w].msg].processed = TRUE]
                       ELSE messages
        /\ Finish(w)
    BY <1>5 DEF MarkProcessed
  <2>2. messages' \in Seq(Message)
    <3>1. CASE job[w].msg \in DOMAIN messages
      <4> DEFINE i == job[w].msg
                 m == [messages[i] EXCEPT !.processed = TRUE]
      <4>1. messages[i] \in Message /\ i \in 1..Len(messages)
        BY <1>2, <3>1
      <4>2. m \in Message
        BY <4>1 DEF Message
      <4>3. messages' = [messages EXCEPT ![i] = m]
        BY <2>1, <3>1
      <4> HIDE DEF i, m
      <4> QED
        BY <1>2, <4>1, <4>2, <4>3
    <3>2. CASE job[w].msg \notin DOMAIN messages
      BY <1>2, <2>1, <3>2
    <3> QED
      BY <3>1, <3>2
  <2>3. messages = <<>> => messages' = <<>>
    BY <2>1
  <2>4. TablesTyped'
    BY <1>1, <1>2, <2>2, <2>3 DEF TypeOK, TablesTyped
  <2> QED
    BY <1>1, <1>2, <1>3, <2>1, <2>4, Finished
<1> QED
  BY <1>4, <1>5

(* The statements on the log. *)
LEMMA Logs ==
  ASSUME Consistent, NEW w \in Workers, AuditRow(w) \/ LogConflict(w)
  PROVE  Consistent'
<1>1. /\ step[w] \in {"audit", "conflict"}
      /\ UNCHANGED <<conf, node, rows, messages, requests, written, killed>>
  BY DEF AuditRow, LogConflict
<1>2. /\ w \in pool /\ job[w] \in Job /\ JobOK(w) /\ Key(w) \in Keys
  BY <1>1, Busy DEF JobOK
<1>3. log' \subseteq Entry
  <2>1. CASE AuditRow(w)
    <3>1. job[w].status \in {"created", "updated", "conflict"} /\ Logged(w, job[w].status)
      BY <1>2, <2>1 DEF AuditRow, Job
    <3> QED
      BY <1>1, <1>2, <3>1, LogTyped
  <2>2. CASE LogConflict(w)
    <3>1. Logged(w, "conflict") \/ log' = log
      BY <2>2 DEF LogConflict
    <3> QED
      BY <1>1, <1>2, <3>1, LogTyped DEF Consistent, TypeOK
  <2> QED
    BY <2>1, <2>2
<1>4. TablesTyped' /\ PairsWhole'
  BY <1>1, <1>3, Unchanged DEF TablesTyped
<1>5. CASE Finish(w)
  BY <1>1, <1>2, <1>4, <1>5, Finished
<1>6. CASE ~Finish(w)
  <2>1. PICK s \in {"conflict", "mark"} :
            step' = [step EXCEPT ![w] = s] /\ job' = job
    BY <1>6 DEF AuditRow, LogConflict, Goto
  <2>2. job[w].kind = "announce"
    <3>1. CASE AuditRow(w)
      BY <1>6, <3>1 DEF AuditRow
    <3>2. CASE LogConflict(w)
      <4>1. KindsAt(step[w]) = {"announce"} /\ step[w] # "idle"
        BY <3>2 DEF LogConflict, KindsAt
      <4> QED
        BY <1>2, <4>1, SMTT(30) DEF JobOK
    <3> QED
      BY <3>1, <3>2
  <2>3. job' = [job EXCEPT ![w] = job[w]] /\ job[w].kind \in KindsAt(s)
    BY <1>1, <2>1, <2>2, Locals DEF KindsAt
  <2> QED
    BY <1>1, <1>2, <1>4, <2>1, <2>2, <2>3, Advance DEF Steps
<1> QED
  BY <1>5, <1>6

(* The transaction of a push. *)
LEMMA Pushed ==
  ASSUME Consistent, NEW w \in Workers, PushRow(w)
  PROVE  Consistent'
<1> DEFINE p == job[w].payload
           row == [data |-> p.data, version |-> p.version,
                   active |-> Stored(w) = None \/ Stored(w).active]
<1>1. /\ step[w] = "push" /\ Finish(w)
      /\ UNCHANGED <<conf, node, messages, requests, written, killed>>
  BY DEF PushRow
<1>2. /\ w \in pool /\ JobOK(w) /\ p \in Payload /\ job[w].kind = "push"
      /\ Key(w) \in Keys /\ Key(w) # None /\ Stored(w) \in Row \cup {None}
  BY <1>1, Busy, NoneAssumption DEF JobOK, KindsAt
<1>3. CASE node = "gone"
  <2>1. TablesTyped' /\ PairsWhole'
    BY <1>1, <1>3, Unchanged DEF PushRow, TablesTyped
  <2> QED
    BY <1>1, <1>2, <2>1, Finished
<1>4. CASE node # "gone"
  <2>1. /\ rows' = [rows EXCEPT ![Key(w)] = row]
        /\ Logged(w, IF Stored(w) = None THEN "created" ELSE "updated")
    BY <1>4 DEF PushRow, PutRow
  <2>2. log' \subseteq Entry
    BY <1>1, <1>2, <2>1, LogTyped
  <2>3. Whole(Key(w), p) /\ p.data \in Data /\ p.version \in Nat
    BY <1>1, <1>2 DEF JobOK, Payload
  <2>4. (Stored(w) = None \/ Stored(w).active) \in BOOLEAN
    BY <1>2 DEF Row
  <2>5. row \in Row
    BY <2>3, <2>4 DEF Row
  <2>6. Whole(Key(w), row)
    BY <2>3 DEF Whole
  <2> HIDE DEF row
  <2>7. TablesTyped' /\ PairsWhole'
    BY <1>1, <1>2, <1>4, <2>1, <2>2, <2>5, <2>6, RowPut
  <2> QED
    BY <1>1, <1>2, <2>7, Finished
<1> QED
  BY <1>3, <1>4

(* Every statement of a handler. *)
LEMMA Serves ==
  ASSUME Consistent, NEW w \in Workers, Serve(w)
  PROVE  Consistent'
BY Inserted, Reads, Saves, Messages, Logs, Pushed DEF Serve

(* A worker is killed. *)
LEMMA Dies ==
  ASSUME Consistent, NEW w \in Workers, Crash(w)
  PROVE  Consistent'
<1>1. /\ step[w] # "idle" /\ Finish(w) /\ killed' = TRUE
      /\ UNCHANGED <<conf, node, rows, messages, log, requests, written>>
  BY DEF Crash
<1>2. TablesTyped' /\ PairsWhole'
  BY <1>1, Unchanged DEF TablesTyped
<1> QED
  BY <1>1, <1>2, Busy, Finished

(* The operator switches the node, or deletes it with everything of it.     *)
LEMMA Operated ==
  ASSUME Consistent, SetNodeActive \/ DeleteNode
  PROVE  Consistent'
<1>1. /\ TypeOK /\ UNCHANGED <<conf, pool, uses, step, job, requests, written, killed>>
      /\ \A k \in Keys : rows'[k] \in {None, rows[k]}
  BY DEF Consistent, SetNodeActive, DeleteNode, conf
<1>2. TypeOK'
  <2>1. CASE SetNodeActive
    BY <1>1, <2>1 DEF SetNodeActive, TypeOK
  <2>2. CASE DeleteNode
    <3>1. /\ node' = "gone" /\ rows' = [k \in Keys |-> None] /\ messages' = <<>>
          /\ log' \subseteq log
      BY <2>2 DEF DeleteNode
    <3> QED
      BY <1>1, <3>1 DEF TypeOK
  <2> QED
    BY <2>1, <2>2
<1>3. ASSUME NEW x \in Workers
      PROVE  JobOK(x)'
  <2>1. step[x] = "overwrite" => Key(x) \in Keys
    BY DEF Consistent, JobOK
  <2> QED
    BY <1>1, <2>1, Unmoved
<1>4. PairsWhole'
  BY <1>1 DEF Consistent, PairsWhole, Whole
<1> QED
  BY <1>2, <1>3, <1>4 DEF Consistent

(* Nothing happens. *)
LEMMA Stuttering ==
  ASSUME Consistent, UNCHANGED vars
  PROVE  Consistent'
<1>1. /\ UNCHANGED <<conf, pool, uses, node, rows, messages, log, step, job, requests,
                     written, killed>>
  BY DEF vars, conf
<1>2. TypeOK' /\ PairsWhole'
  BY <1>1, Unchanged DEF Consistent, TypeOK
<1>3. ASSUME NEW x \in Workers
      PROVE  JobOK(x)'
  BY <1>1, Unmoved
<1> QED
  BY <1>2, <1>3 DEF Consistent

(* The invariant holds at the start. *)
LEMMA InitConsistent == Init => Consistent
<1> SUFFICES ASSUME Init
             PROVE  Consistent
  OBVIOUS
<1>1. TypeOK
  <2>1. /\ uses \subseteq Handlers
        /\ node = "active" /\ messages = <<>> /\ log = {} /\ written = {}
        /\ requests = 0 /\ killed = FALSE
    BY DEF Init, Handlers
  <2>2. /\ rows \in [Keys -> Row \cup {None}] /\ step \in [Workers -> Steps]
        /\ job \in [Workers -> Job \cup {None}]
    BY DEF Init, Steps
  <2>3. messages \in Seq(Message)
    BY <2>1
  <2>4. /\ log \subseteq Entry
        /\ written \subseteq [key : Keys, data : Data, version : Nat, edit : BOOLEAN]
    BY <2>1
  <2>5. pool \subseteq Workers
    BY DEF Init
  <2>6. node \in {"active", "inactive", "gone"} /\ node # "gone" /\ requests \in Nat
    BY <2>1
  <2> QED
    BY <2>1, <2>2, <2>3, <2>4, <2>5, <2>6 DEF TypeOK
<1>2. \A w \in Workers : JobOK(w)
  BY DEF Init, JobOK
<1>3. PairsWhole
  BY DEF Init, PairsWhole
<1> QED
  BY <1>1, <1>2, <1>3 DEF Consistent

(* Every step keeps the invariant. *)
LEMMA ConsistentStep == Consistent /\ [Next]_vars => Consistent'
BY Begins, Serves, Dies, Operated, Stuttering DEF Next

------------------------------------------------------------------------------
(* What a step does to the rows: nothing, or one statement of one worker.   *)
LEMMA RowChanged ==
  ASSUME Consistent, Next, rows' # rows
  PROVE  \/ DeleteNode
         \/ \E w \in Workers :
              /\ Key(w) \in Keys
              /\ \/ InsertRow(w) /\ Stored(w) = None
                 \/ SaveData(w) /\ Stored(w) \in Row
                 \/ SaveDeleted(w) /\ Stored(w) \in Row
                 \/ Overwrite(w) /\ Stored(w) \in Row
                 \/ PushRow(w) /\ Stored(w) \in Row \cup {None}
<1>1. CASE DeleteNode \/ SetNodeActive
  BY <1>1 DEF SetNodeActive
<1>2. ASSUME NEW w \in Workers, Begin(w) \/ Crash(w)
      PROVE  FALSE
  BY <1>2 DEF Begin, BeginCreate, BeginUpdate, BeginBare, BeginAnnounce, BeginPush,
              Accept, Crash
<1>3. ASSUME NEW w \in Workers, Serve(w)
      PROVE  /\ Key(w) \in Keys
             /\ \/ InsertRow(w) /\ Stored(w) = None
                \/ SaveData(w) /\ Stored(w) \in Row
                \/ SaveDeleted(w) /\ Stored(w) \in Row
                \/ Overwrite(w) /\ Stored(w) \in Row
                \/ PushRow(w) /\ Stored(w) \in Row \cup {None}
  <2>1. InsertRow(w) \/ SaveData(w) \/ SaveDeleted(w) \/ Overwrite(w) \/ PushRow(w)
    BY <1>3 DEF Serve, ReadActive, StoreMessage, ReadExisting, AuditRow, LogConflict,
                MarkProcessed
  <2>2. step[w] \notin {"idle", "message", "mark"}
    BY <2>1 DEF InsertRow, SaveData, SaveDeleted, Overwrite, PushRow, UpdateRow
  <2>3. Key(w) \in Keys /\ Stored(w) \in Row \cup {None}
    BY <2>2, Busy DEF JobOK
  <2>4. InsertRow(w) => Stored(w) = None
    BY DEF InsertRow
  <2>5. SaveData(w) \/ SaveDeleted(w) \/ Overwrite(w) => Stored(w) # None
    BY DEF SaveData, SaveDeleted, Overwrite, UpdateRow
  <2> QED
    BY <2>1, <2>3, <2>4, <2>5
<1> QED
  BY <1>1, <1>2, <1>3 DEF Next

(* No step makes an entry visible again. *)
LEMMA StaysDeleted ==
  ASSUME Consistent, Next, NEW k \in Keys, rows[k] # None, ~rows[k].active
  PROVE  rows'[k] = None \/ ~rows'[k].active
<1>1. CASE rows' = rows
  BY <1>1
<1>2. CASE DeleteNode
  BY <1>2 DEF DeleteNode
<1>3. ASSUME NEW w \in Workers, Key(w) \in Keys, Stored(w) \in Row \cup {None},
             \/ InsertRow(w) /\ Stored(w) = None
             \/ SaveData(w) /\ Stored(w) \in Row
             \/ SaveDeleted(w) /\ Stored(w) \in Row
             \/ Overwrite(w) /\ Stored(w) \in Row
             \/ PushRow(w)
      PROVE  rows'[k] = None \/ ~rows'[k].active
  <2> DEFINE p == job[w].payload
  <2>1. rows \in [Keys -> Row \cup {None}] /\ Stored(w) = rows[Key(w)]
    BY DEF Consistent, TypeOK, Stored
  <2>2. PICK row : (rows' = [rows EXCEPT ![Key(w)] = row] \/ rows' = rows)
                   /\ (Stored(w) \in Row /\ ~Stored(w).active => ~row.active)
                   /\ (rows' # rows => Stored(w) = None \/ Stored(w) \in Row)
    <3>1. CASE InsertRow(w) /\ Stored(w) = None
      BY <3>1, NoneAssumption DEF InsertRow, PutRow
    <3>2. CASE SaveData(w) /\ Stored(w) \in Row
      BY <3>2 DEF SaveData, UpdateRow, PutRow, Row
    <3>3. CASE SaveDeleted(w) /\ Stored(w) \in Row
      <4>1. job[w].old \in Row
        <5>1. step[w] = "saveDeleted"
          BY <3>3 DEF SaveDeleted, UpdateRow
        <5> QED
          BY <5>1, Busy DEF JobOK
      <4> DEFINE old == [job[w].old EXCEPT !.active = FALSE]
      <4>2. ~old.active
        BY <4>1 DEF Row
      <4>3. rows' = [rows EXCEPT ![Key(w)] = old] \/ rows' = rows
        BY <3>3 DEF SaveDeleted, UpdateRow, PutRow
      <4> QED
        BY <3>3, <4>2, <4>3
    <3>4. CASE Overwrite(w) /\ Stored(w) \in Row
      BY <3>4 DEF Overwrite, UpdateRow, PutRow, Row
    <3>5. CASE PushRow(w)
      <4> DEFINE new == [data |-> p.data, version |-> p.version,
                         active |-> Stored(w) = None \/ Stored(w).active]
      <4>1. rows' = [rows EXCEPT ![Key(w)] = new] \/ rows' = rows
        BY <3>5 DEF PushRow, PutRow
      <4>2. Stored(w) \in Row /\ ~Stored(w).active => ~new.active
        BY NoneAssumption
      <4> QED
        BY <1>3, <4>1, <4>2
    <3> QED
      BY <1>3, <3>1, <3>2, <3>3, <3>4, <3>5
  <2>3. CASE k = Key(w)
    BY <1>3, <2>1, <2>2, <2>3
  <2>4. CASE k # Key(w)
    BY <2>1, <2>2, <2>4
  <2> QED
    BY <2>3, <2>4
<1> QED
  BY <1>1, <1>2, <1>3, RowChanged

------------------------------------------------------------------------------
(* The audit log names the version of the row of k, or soon will.           *)
Covered(k) ==
  \/ \E e \in log : e.key = k /\ e.version = rows[k].version
  \/ \E w \in Workers : /\ step[w] = "audit" /\ Key(w) = k
                        /\ job[w].payload.version = rows[k].version

(* A statement that writes a lower version is a push, or its handler was     *)
(* overtaken since it read the row.                                        *)
LEMMA GoesBack ==
  ASSUME Consistent, Next, NEW k \in Keys, rows[k] # None, rows'[k] # None,
         rows'[k].version < rows[k].version
  PROVE  \E w \in Workers :
           /\ step[w] # "idle" /\ Key(w) = k
           /\ \/ step[w] = "push"
              \/ step[w] \in {"overwrite", "saveDeleted"} /\ job[w].old # rows[k]
<1>0. /\ rows \in [Keys -> Row \cup {None}] /\ rows[k] \in Row
      /\ rows[k].version \in Nat
  BY DEF Consistent, TypeOK, Row
<1>1. rows' # rows
  BY <1>0
<1>2. ~DeleteNode
  BY <1>0 DEF DeleteNode
<1>3. PICK w \in Workers :
        /\ Key(w) \in Keys
        /\ \/ InsertRow(w) /\ Stored(w) = None
           \/ SaveData(w) /\ Stored(w) \in Row
           \/ SaveDeleted(w) /\ Stored(w) \in Row
           \/ Overwrite(w) /\ Stored(w) \in Row
           \/ PushRow(w) /\ Stored(w) \in Row \cup {None}
  BY <1>1, <1>2, RowChanged
<1>4. k = Key(w) /\ Stored(w) = rows[k] /\ Stored(w) # None
  <2>1. \E row : rows' = [rows EXCEPT ![Key(w)] = row]
    BY <1>1, <1>3 DEF InsertRow, SaveData, SaveDeleted, Overwrite, PushRow, UpdateRow,
       PutRow
  <2>2. k = Key(w)
    BY <1>0, <1>3, <2>1
  <2> QED
    BY <2>2 DEF Stored
<1>5. ASSUME NEW row, UpdateRow(w, step[w], row) PROVE rows'[k] = row
  BY <1>0, <1>4, <1>5 DEF UpdateRow, PutRow
<1>6. step[w] # "idle" /\ JobOK(w)
  BY <1>3 DEF InsertRow, SaveData, SaveDeleted, Overwrite, PushRow, UpdateRow, Consistent
<1>7. ~SaveData(w)
  <2> SUFFICES ASSUME SaveData(w) PROVE FALSE
    OBVIOUS
  <2> DEFINE row == [Stored(w) EXCEPT !.data = job[w].payload.data]
  <2>1. UpdateRow(w, step[w], row)
    BY DEF SaveData, UpdateRow
  <2>2. row.version = rows[k].version
    BY <1>0, <1>4 DEF Row
  <2> HIDE DEF row
  <2>3. rows'[k] = row
    BY <1>5, <2>1
  <2> QED
    BY <1>0, <2>2, <2>3
<1>8. CASE SaveDeleted(w)
  <2> DEFINE row == [job[w].old EXCEPT !.active = FALSE]
  <2>1. UpdateRow(w, step[w], row) /\ step[w] = "saveDeleted"
    BY <1>8 DEF SaveDeleted, UpdateRow
  <2>2. job[w].old \in Row
    BY <1>6, <2>1 DEF JobOK
  <2>3. row.version = job[w].old.version
    BY <2>2 DEF Row
  <2> HIDE DEF row
  <2>4. rows'[k] = row
    BY <1>5, <2>1
  <2>5. job[w].old # rows[k]
    BY <1>0, <2>3, <2>4
  <2> QED
    BY <1>4, <1>6, <2>1, <2>5
<1>9. CASE Overwrite(w)
  <2> DEFINE row == [Stored(w) EXCEPT !.data = job[w].payload.data,
                                      !.version = job[w].payload.version]
  <2>1. UpdateRow(w, step[w], row) /\ step[w] = "overwrite"
    BY <1>9 DEF Overwrite, UpdateRow
  <2>2. row.version = job[w].payload.version
    BY <1>0, <1>4 DEF Row
  <2>3. /\ job[w].old \in Row /\ job[w].payload.version > job[w].old.version
        /\ job[w].payload.version \in Nat /\ job[w].old.version \in Nat
    BY <1>6, <2>1, Busy DEF JobOK, Newer, Row, Payload
  <2>4. rows'[k].version = job[w].payload.version
    BY <1>5, <2>1, <2>2
  <2>5. job[w].old # rows[k]
    BY <1>0, <2>3, <2>4
  <2> QED
    BY <1>4, <1>6, <2>1, <2>5
<1>10. CASE PushRow(w)
  BY <1>4, <1>6, <1>10 DEF PushRow
<1> QED
  BY <1>3, <1>4, <1>7, <1>8, <1>9, <1>10

(* What a step does to the log and to the handlers that owe it an entry.    *)
LEMMA LogGrows ==
  ASSUME Consistent, Next, ~killed'
  PROVE  /\ DeleteNode \/ log \subseteq log'
         /\ \A w \in Workers : step[w] = "audit" =>
              AuditRow(w) \/ (step'[w] = step[w] /\ job'[w] = job[w])
<1>1. /\ step \in [Workers -> Steps] /\ job \in [Workers -> Job \cup {None}]
  BY DEF Consistent, TypeOK
<1>2. CASE SetNodeActive \/ DeleteNode
  BY <1>2 DEF SetNodeActive, DeleteNode
<1>3. ASSUME NEW w \in Workers, Begin(w)
      PROVE  /\ log' = log /\ step[w] = "idle"
             /\ \A u \in Workers \ {w} : step'[u] = step[u] /\ job'[u] = job[u]
  BY <1>1, <1>3 DEF Begin, BeginCreate, BeginUpdate, BeginBare, BeginAnnounce, BeginPush,
     Accept, Goto
<1>4. ASSUME NEW w \in Workers, Serve(w)
      PROVE  /\ log \subseteq log' /\ (step[w] = "audit" => AuditRow(w))
             /\ \A u \in Workers \ {w} : step'[u] = step[u] /\ job'[u] = job[u]
  <2>1. CASE InsertRow(w) \/ ReadActive(w) \/ StoreMessage(w) \/ ReadExisting(w)
    BY <1>1, <2>1 DEF InsertRow, ReadActive, StoreMessage, ReadExisting, Goto, Finish
  <2>2. CASE SaveData(w) \/ SaveDeleted(w) \/ Overwrite(w)
    BY <1>1, <2>2 DEF SaveData, SaveDeleted, Overwrite, UpdateRow, Goto, Finish
  <2>3. CASE AuditRow(w) \/ LogConflict(w) \/ MarkProcessed(w) \/ PushRow(w)
    BY <1>1, <2>3 DEF AuditRow, LogConflict, MarkProcessed, PushRow, Goto, Finish, Logged
  <2> QED
    BY <1>4, <2>1, <2>2, <2>3 DEF Serve
<1>5. ASSUME NEW w \in Workers, Crash(w)
      PROVE  FALSE
  BY <1>5 DEF Crash
<1> QED
  BY <1>2, <1>3, <1>4, <1>5 DEF Next

(* As long as a row keeps its version, it stays covered. *)
LEMMA CoverStays ==
  ASSUME Consistent, Next, ~killed', NEW k \in Keys, rows'[k] # None,
         rows'[k].version = rows[k].version, Covered(k)
  PROVE  Covered(k)'
<1>1. log \subseteq log'
  BY LogGrows DEF DeleteNode
<1>2. CASE \E e \in log : e.key = k /\ e.version = rows[k].version
  BY <1>1, <1>2 DEF Covered
<1>3. ASSUME NEW w \in Workers, step[w] = "audit", Key(w) = k,
             job[w].payload.version = rows[k].version
      PROVE  Covered(k)'
  <2>1. CASE AuditRow(w)
    <3> DEFINE e == [key |-> Key(w), version |-> job[w].payload.version,
                     status |-> job[w].status]
    <3>1. e \in log' /\ e.key = k /\ e.version = rows'[k].version
      BY <1>3, <2>1 DEF AuditRow, Logged
    <3> HIDE DEF e
    <3> QED
      BY <3>1 DEF Covered
  <2>2. CASE step'[w] = step[w] /\ job'[w] = job[w]
    BY <1>3, <2>2 DEF Covered, Key
  <2> QED
    BY <1>3, <2>1, <2>2, LogGrows
<1> QED
  BY <1>2, <1>3 DEF Covered

(* The statements that give a row another version owe or write its entry.   *)
LEMMA WriterCovers ==
  ASSUME Consistent, NEW w \in Workers, NEW k \in Keys, Key(w) = k,
         \/ InsertRow(w) /\ Stored(w) = None
         \/ SaveDeleted(w) /\ Stored(w) \in Row
         \/ Overwrite(w) /\ Stored(w) \in Row
         \/ PushRow(w),
         rows' # rows
  PROVE  Covered(k)'
<1> DEFINE p == job[w].payload
<1>1. rows \in [Keys -> Row \cup {None}]
  BY DEF Consistent, TypeOK
<1>2. CASE ~PushRow(w)
  <2>1. step[w] # "idle"
    BY <1>2 DEF InsertRow, SaveDeleted, Overwrite, UpdateRow
  <2>2. step'[w] = "audit" /\ job' = job
    <3>1. step' = [step EXCEPT ![w] = "audit"] /\ job' = job
      BY <1>2, NoneAssumption DEF InsertRow, SaveDeleted, Overwrite, UpdateRow, Goto
    <3> QED
      BY <3>1 DEF Consistent, TypeOK
  <2>3. rows'[k].version = p.version
    <3>1. CASE InsertRow(w) /\ Stored(w) = None
      <4>1. rows' = [rows EXCEPT ![k] = [data |-> p.data, version |-> p.version,
                                         active |-> TRUE]]
        BY <3>1 DEF InsertRow, PutRow
      <4> QED
        BY <1>1, <4>1
    <3>2. CASE SaveDeleted(w) /\ Stored(w) \in Row
      <4>1. job[w].old \in Row /\ job[w].old.version = p.version
        BY <2>1, <3>2, Busy DEF JobOK, SaveDeleted, UpdateRow
      <4>2. rows' = [rows EXCEPT ![k] = [job[w].old EXCEPT !.active = FALSE]]
        BY <3>2 DEF SaveDeleted, UpdateRow, PutRow
      <4> QED
        BY <1>1, <4>1, <4>2 DEF Row
    <3>3. CASE Overwrite(w) /\ Stored(w) \in Row
      <4>1. rows' = [rows EXCEPT ![k] = [Stored(w) EXCEPT !.data = p.data,
                                                          !.version = p.version]]
        BY <3>3 DEF Overwrite, UpdateRow, PutRow
      <4> QED
        BY <1>1, <3>3, <4>1 DEF Row
    <3> QED
      BY <1>2, <3>1, <3>2, <3>3
  <2> QED
    BY <2>2, <2>3 DEF Covered, Key
<1>3. CASE PushRow(w)
  <2> DEFINE status == IF Stored(w) = None THEN "created" ELSE "updated"
             e == [key |-> k, version |-> p.version, status |-> status]
  <2>1. /\ rows' = [rows EXCEPT ![k] = [data |-> p.data, version |-> p.version,
                                        active |-> Stored(w) = None \/ Stored(w).active]]
        /\ log' = log \cup {e}
    BY <1>3 DEF PushRow, PutRow, Logged
  <2>2. rows'[k].version = p.version /\ e \in log' /\ e.key = k /\ e.version = p.version
    BY <1>1, <2>1
  <2> HIDE DEF e
  <2>3. \E f \in log' : f.key = k /\ f.version = rows'[k].version
    BY <2>2
  <2> QED
    BY <2>3 DEF Covered
<1> QED
  BY <1>2, <1>3

(* Every step keeps the rows audited. *)
LEMMA AuditedStep == Consistent /\ RowIsAudited /\ [Next]_vars => RowIsAudited'
<1> SUFFICES ASSUME Consistent, RowIsAudited, [Next]_vars, ~killed',
                    NEW k \in Keys, rows'[k] # None
             PROVE  Covered(k)'
  BY DEF RowIsAudited, Covered
<1>1. CASE UNCHANGED vars
  BY <1>1 DEF vars, RowIsAudited, Covered, Key
<1>2. CASE Next
  <2>1. ~killed
    <3>1. ASSUME NEW w \in Workers, Begin(w)
          PROVE  killed' = killed
      BY <3>1 DEF Begin, BeginCreate, BeginUpdate, BeginBare, BeginAnnounce, BeginPush,
         Accept
    <3>2. ASSUME NEW w \in Workers, Serve(w)
          PROVE  killed' = killed
      BY <3>2 DEF Serve, InsertRow, ReadActive, SaveData, SaveDeleted, StoreMessage,
         ReadExisting, Overwrite, UpdateRow, AuditRow, LogConflict, MarkProcessed, PushRow
    <3> QED
      BY <1>2, <3>1, <3>2 DEF Next, Crash, SetNodeActive, DeleteNode
  <2>2. rows[k] # None => Covered(k)
    BY <2>1 DEF RowIsAudited, Covered
  <2>3. CASE rows[k] # None /\ rows'[k].version = rows[k].version
    BY <1>2, <2>2, <2>3, CoverStays
  <2>4. CASE ~(rows[k] # None /\ rows'[k].version = rows[k].version)
    <3>1. rows' # rows /\ ~DeleteNode
      BY <2>4 DEF DeleteNode
    <3>2. PICK w \in Workers :
              /\ Key(w) \in Keys
              /\ \/ InsertRow(w) /\ Stored(w) = None
                 \/ SaveData(w) /\ Stored(w) \in Row
                 \/ SaveDeleted(w) /\ Stored(w) \in Row
                 \/ Overwrite(w) /\ Stored(w) \in Row
                 \/ PushRow(w) /\ Stored(w) \in Row \cup {None}
      BY <1>2, <3>1, RowChanged
    <3>3. rows \in [Keys -> Row \cup {None}] /\ Stored(w) = rows[Key(w)]
      BY DEF Consistent, TypeOK, Stored
    <3>4. k = Key(w)
      <4>1. \E row : rows' = [rows EXCEPT ![Key(w)] = row]
        BY <3>1, <3>2 DEF InsertRow, SaveData, SaveDeleted, Overwrite, PushRow, UpdateRow,
           PutRow
      <4> QED
        BY <2>4, <3>2, <3>3, <4>1
    <3>5. ~SaveData(w)
      <4> SUFFICES ASSUME SaveData(w) PROVE FALSE
        OBVIOUS
      <4>1. Stored(w) # None
        BY <3>1 DEF SaveData, UpdateRow
      <4>2. rows' = [rows EXCEPT ![k] = [rows[k] EXCEPT !.data = job[w].payload.data]]
        BY <3>1, <3>3, <3>4 DEF SaveData, UpdateRow, PutRow
      <4>3. rows[k] \in Row /\ rows'[k] = [rows[k] EXCEPT !.data = job[w].payload.data]
        BY <3>3, <3>4, <4>1, <4>2
      <4> QED
        BY <2>4, <3>3, <3>4, <4>1, <4>3 DEF Row
    <3> QED
      BY <3>1, <3>2, <3>4, <3>5, WriterCovers
  <2> QED
    BY <2>3, <2>4
<1> QED
  BY <1>1, <1>2

------------------------------------------------------------------------------
(* ResolveMultiple and MerkleRoot are folds of a list from the left.  What   *)
(* the library's FoldLeft computes is a family of results, one for each set *)
(* of indices, each of which takes the one without the greatest index a     *)
(* step further: Resolve for the one, NextLevel for the other.              *)
Apply(kind, acc, x) ==
  IF kind = "resolve" THEN Resolve(acc, x) ELSE NextLevel(acc, x)

IsFold(h, kind, base, seq, S) ==
  h = [s \in SUBSET S |->
        IF s = {} THEN base ELSE Apply(kind, h[s \ {Max(s)}], seq[Max(s)])]

Folded(kind, base, seq) ==
  (CHOOSE h : IsFold(h, kind, base, seq, DOMAIN seq))[DOMAIN seq]

(* Sets of indices, and of course their subsets. *)
Indices(S) == IsFiniteSet(S) /\ S \subseteq Int

(* A subset of indices is one. *)
LEMMA FewerIndices ==
  ASSUME NEW S, Indices(S)
  PROVE  IsFiniteSet(S) /\ \A s \in SUBSET S : Indices(s)
BY FS_Subset DEF Indices

(* The greatest index of a finite set of them. *)
LEMMA MaxIn ==
  ASSUME NEW S, Indices(S), S # {}
  PROVE  Max(S) \in S /\ \A k \in S : k <= Max(S)
<1>1. PICK m \in S : \A k \in S : k <= m
  BY GreatestExists DEF Indices
<1>2. \A k \in S : m >= k
  BY <1>1
<1>3. /\ Max(S) \in S
      /\ \A k \in S : Max(S) >= k
  BY <1>2 DEF Max
<1> QED
  BY <1>3

(* The equations of one result of the family. *)
LEMMA FoldOfNone ==
  ASSUME NEW h, NEW kind, NEW base, NEW seq, NEW S, IsFold(h, kind, base, seq, S)
  PROVE  h[{}] = base
<1> DEFINE Step(t) == IF t = {} THEN base ELSE Apply(kind, h[t \ {Max(t)}], seq[Max(t)])
<1>1. h = [t \in SUBSET S |-> Step(t)]
  BY DEF IsFold
<1> HIDE DEF Step
<1>2. h[{}] = Step({})
  BY <1>1
<1> QED
  BY <1>2 DEF Step

(* ... and of one that is not empty. *)
LEMMA FoldOfSome ==
  ASSUME NEW h, NEW kind, NEW base, NEW seq, NEW S, IsFold(h, kind, base, seq, S),
         NEW s \in SUBSET S, s # {}
  PROVE  h[s] = Apply(kind, h[s \ {Max(s)}], seq[Max(s)])
<1> DEFINE Step(t) == IF t = {} THEN base ELSE Apply(kind, h[t \ {Max(t)}], seq[Max(t)])
<1>1. h = [t \in SUBSET S |-> Step(t)]
  BY DEF IsFold
<1> HIDE DEF Step
<1>2. h[s] = Step(s)
  BY <1>1
<1> QED
  BY <1>2 DEF Step

(* Lists that agree on some indices fold them to the same result.           *)
LEMMA FoldUnique ==
  ASSUME NEW kind, NEW base, NEW seq, NEW seq2, NEW h, NEW k, NEW S, NEW U,
         IsFold(h, kind, base, seq, S), IsFold(k, kind, base, seq2, U),
         NEW s \in SUBSET S, s \in SUBSET U, Indices(s),
         \A i \in s : seq[i] = seq2[i]
  PROVE  h[s] = k[s]
<1> DEFINE T == {t \in SUBSET s : h[t] # k[t]}
<1>1. SUFFICES ASSUME T # {} PROVE FALSE
  OBVIOUS
<1>2. PICK t \in T : \A Y \in T : Y \subseteq t => Y = t
  <2>1. T \subseteq SUBSET s
    OBVIOUS
  <2> HIDE DEF T
  <2> QED
    BY <1>1, <2>1, FewerIndices, MinimalSet
<1>3. t \in SUBSET S /\ t \in SUBSET U /\ t \in SUBSET s
  OBVIOUS
<1>4. h[{}] = base /\ k[{}] = base
  BY FoldOfNone
<1>5. CASE t = {}
  BY <1>2, <1>4, <1>5
<1>6. CASE t # {}
  <2>1. Max(t) \in t
    <3>1. Indices(t)
      BY <1>3, FewerIndices
    <3> QED
      BY <1>6, <3>1, MaxIn
  <2>2. t \ {Max(t)} \notin T /\ t \ {Max(t)} \in SUBSET s
    BY <1>2, <1>3, <2>1
  <2>3. h[t \ {Max(t)}] = k[t \ {Max(t)}] /\ seq[Max(t)] = seq2[Max(t)]
    BY <1>3, <2>1, <2>2
  <2> HIDE DEF T
  <2>4. h[t] = Apply(kind, h[t \ {Max(t)}], seq[Max(t)])
    BY <1>3, <1>6, FoldOfSome
  <2>5. k[t] = Apply(kind, k[t \ {Max(t)}], seq2[Max(t)])
    BY <1>3, <1>6, FoldOfSome
  <2>6. h[t] # k[t]
    BY <1>2 DEF T
  <2> QED
    BY <2>3, <2>4, <2>5, <2>6
<1> QED
  BY <1>5, <1>6

(* There is a family of results. *)
LEMMA FoldExists ==
  ASSUME NEW kind, NEW base, NEW seq, NEW S, Indices(S)
  PROVE  \E h : IsFold(h, kind, base, seq, S)
<1> DEFINE T == {U \in SUBSET S : ~ \E h : IsFold(h, kind, base, seq, U)}
<1>1. SUFFICES ASSUME T # {} PROVE FALSE
  OBVIOUS
<1>2. PICK U \in T : \A Y \in T : Y \subseteq U => Y = U
  <2>1. T \subseteq SUBSET S
    OBVIOUS
  <2> HIDE DEF T
  <2> QED
    BY <1>1, <2>1, FewerIndices, MinimalSet
<1> DEFINE F(V) == CHOOSE h : IsFold(h, kind, base, seq, V)
           H(V) == F(V)[V]
           k == [s \in SUBSET U |->
                  IF s = {} THEN base ELSE Apply(kind, H(s \ {Max(s)}), seq[Max(s)])]
<1>3. ASSUME NEW V \in SUBSET U
      PROVE  Indices(V) /\ (V # U => IsFold(F(V), kind, base, seq, V))
  <2>1. V \in SUBSET S /\ (V # U => V \notin T)
    BY <1>2
  <2>2. V # U => \E h : IsFold(h, kind, base, seq, V)
    BY <2>1
  <2>3. Indices(V)
    BY <2>1, FewerIndices
  <2> QED
    BY <2>1, <2>2, <2>3
<1> HIDE DEF F, T
<1>4. ASSUME NEW s \in SUBSET U, s # {}
      PROVE  Max(s) \in s
  BY <1>3, <1>4, MaxIn
<1>5. ASSUME NEW t \in SUBSET U, t # U PROVE k[t] = H(t)
  <2>1. IsFold(F(t), kind, base, seq, t)
    BY <1>3, <1>5
  <2>2. F(t)[{}] = base
    BY <2>1, FoldOfNone
  <2>3. CASE t = {}
    BY <2>2, <2>3
  <2>4. CASE t # {}
    <3> DEFINE r == t \ {Max(t)}
    <3>1. r \in SUBSET U /\ r # U /\ r \in SUBSET t
      BY <1>4, <1>5, <2>4
    <3>2. IsFold(F(r), kind, base, seq, r) /\ Indices(r)
      BY <1>3, <3>1
    <3>3. F(t)[r] = F(r)[r]
      BY <2>1, <3>1, <3>2, FoldUnique
    <3> DEFINE f == F(t)
    <3>4. IsFold(f, kind, base, seq, t) /\ t \in SUBSET t
      BY <2>1
    <3> HIDE DEF f
    <3>5. f[t] = Apply(kind, f[t \ {Max(t)}], seq[Max(t)])
      BY <2>4, <3>4, FoldOfSome
    <3> QED
      BY <2>4, <3>3, <3>5 DEF f
  <2> QED
    BY <2>3, <2>4
<1>6. ASSUME NEW s \in SUBSET U, s # {}
      PROVE  k[s \ {Max(s)}] = H(s \ {Max(s)})
  <2>1. s \ {Max(s)} \in SUBSET U /\ s \ {Max(s)} # U
    BY <1>4, <1>6
  <2> QED
    BY <1>5, <2>1
<1>7. k = [s \in SUBSET U |->
            IF s = {} THEN base ELSE Apply(kind, k[s \ {Max(s)}], seq[Max(s)])]
  <2> HIDE DEF H
  <2> QED
    BY <1>6
<1>8. IsFold(k, kind, base, seq, U)
  BY <1>7 DEF IsFold
<1> QED
  BY <1>2, <1>8 DEF T

(* The two folds of ConflictResolution. *)
ResolveFold(h, base, seq) ==
  h = [s \in SUBSET DOMAIN seq |->
        IF s = {} THEN base ELSE Resolve(h[s \ {Max(s)}], seq[Max(s)])]

LevelFold(h, base, seq) ==
  h = [s \in SUBSET DOMAIN seq |->
        IF s = {} THEN base ELSE NextLevel(h[s \ {Max(s)}], seq[Max(s)])]

(* The library's fold is a result of that family. *)
LEMMA FoldsAreFolded ==
  ASSUME NEW base, NEW X, NEW seq \in Seq(X)
  PROVE  /\ FoldLeft(Resolve, base, seq) = Folded("resolve", base, seq)
         /\ FoldLeft(NextLevel, base, seq) = Folded("level", base, seq)
<1> DEFINE D == DOMAIN seq
           r == CHOOSE h : ResolveFold(h, base, seq)
           l == CHOOSE h : LevelFold(h, base, seq)
           f(kind) == CHOOSE h : IsFold(h, kind, base, seq, D)
<1>1. FoldLeft(Resolve, base, seq) = r[D]
  BY DEF FoldLeft, MapThenFoldSet, ResolveFold
<1>2. FoldLeft(NextLevel, base, seq) = l[D]
  BY DEF FoldLeft, MapThenFoldSet, LevelFold
<1>3. Folded("resolve", base, seq) = f("resolve")[D] /\ Folded("level", base, seq) = f("level")[D]
  BY DEF Folded
<1>4. Indices(D) /\ D \in SUBSET D
  BY FS_Interval DEF Indices
<1>5. \A h : ResolveFold(h, base, seq) <=> IsFold(h, "resolve", base, seq, D)
  BY DEF ResolveFold, IsFold, Apply
<1>6. \A h : LevelFold(h, base, seq) <=> IsFold(h, "level", base, seq, D)
  BY DEF LevelFold, IsFold, Apply
<1> HIDE DEF D
<1>7. IsFold(f("resolve"), "resolve", base, seq, D) /\ IsFold(f("level"), "level", base, seq, D)
  BY <1>4, FoldExists, Zenon
<1>8. IsFold(r, "resolve", base, seq, D)
  <2>1. ResolveFold(r, base, seq)
    BY <1>5, <1>7, Zenon
  <2> QED
    BY <1>5, <2>1
<1>9. IsFold(l, "level", base, seq, D)
  <2>1. LevelFold(l, base, seq)
    BY <1>6, <1>7, Zenon
  <2> QED
    BY <1>6, <2>1
<1> HIDE DEF r, l, f
<1>10. r[D] = f("resolve")[D]
  BY <1>4, <1>7, <1>8, FoldUnique
<1>11. l[D] = f("level")[D]
  BY <1>4, <1>7, <1>9, FoldUnique
<1> QED
  BY <1>1, <1>2, <1>3, <1>10, <1>11

(* Nothing folds to the base, and one more item is one more step.           *)
LEMMA FoldNone ==
  ASSUME NEW kind, NEW base
  PROVE  Folded(kind, base, <<>>) = base
<1>1. DOMAIN <<>> = {}
  OBVIOUS
<1>2. Indices({})
  BY FS_EmptySet DEF Indices
<1> DEFINE h == CHOOSE h : IsFold(h, kind, base, <<>>, {})
<1>3. IsFold(h, kind, base, <<>>, {})
  BY <1>2, FoldExists
<1> HIDE DEF h
<1>4. h[{}] = base
  BY <1>3, FoldOfNone
<1> QED
  BY <1>1, <1>4 DEF Folded, h

(* One item more is one step more. *)
LEMMA FoldAppend ==
  ASSUME NEW kind, NEW base, NEW X, NEW seq \in Seq(X), NEW x \in X
  PROVE  Folded(kind, base, Append(seq, x)) = Apply(kind, Folded(kind, base, seq), x)
<1> DEFINE n == Len(seq)
           more == Append(seq, x)
           h == CHOOSE h : IsFold(h, kind, base, seq, 1..n)
           k == CHOOSE k : IsFold(k, kind, base, more, 1..(n + 1))
<1>1. /\ n \in Nat /\ DOMAIN seq = 1..n /\ DOMAIN more = 1..(n + 1)
      /\ more[n + 1] = x /\ \A i \in 1..n : more[i] = seq[i]
  OBVIOUS
<1>2. Indices(1..n) /\ Indices(1..(n + 1))
  BY <1>1, FS_Interval DEF Indices
<1>3. Folded(kind, base, seq) = h[1..n] /\ Folded(kind, base, more) = k[1..(n + 1)]
  BY <1>1, Zenon DEF Folded
<1> HIDE DEF n, more
<1>4. IsFold(h, kind, base, seq, 1..n) /\ IsFold(k, kind, base, more, 1..(n + 1))
  <2>1. /\ \E f : IsFold(f, kind, base, seq, 1..n)
        /\ \E f : IsFold(f, kind, base, more, 1..(n + 1))
    BY <1>2, FoldExists
  <2> QED
    BY <2>1, Zenon
<1> HIDE DEF h, k
<1>5. Max(1..(n + 1)) = n + 1
  <2>1. n + 1 \in 1..(n + 1) /\ 1..(n + 1) # {}
    BY <1>1
  <2>2. Max(1..(n + 1)) \in 1..(n + 1) /\ n + 1 <= Max(1..(n + 1))
    BY <1>2, <2>1, MaxIn
  <2> QED
    BY <1>1, <2>2
<1>6. k[1..(n + 1)] = Apply(kind, k[1..n], x)
  <2> DEFINE U == 1..(n + 1)
  <2>1. U \ {n + 1} = 1..n /\ U # {} /\ U \in SUBSET U
    <3>1. n \in Nat
      BY <1>1
    <3>2. \A i : i \in U <=> i \in 1..n \/ i = n + 1
      BY <3>1
    <3> HIDE DEF U
    <3>3. n + 1 \notin 1..n
      BY <3>1
    <3> QED
      BY <3>2, <3>3
  <2>2. IsFold(k, kind, base, more, U) /\ Max(U) = n + 1
    BY <1>4, <1>5
  <2> HIDE DEF U
  <2>3. k[U] = Apply(kind, k[U \ {Max(U)}], more[Max(U)])
    BY <2>1, <2>2, FoldOfSome, SMTT(30)
  <2> QED
    BY <1>1, <2>1, <2>2, <2>3 DEF U
<1>7. k[1..n] = h[1..n]
  <2>1. 1..n \in SUBSET (1..n) /\ 1..n \in SUBSET (1..(n + 1))
    BY <1>1
  <2> QED
    BY <1>1, <1>2, <1>4, <2>1, FoldUnique
<1> QED
  BY <1>3, <1>6, <1>7 DEF more
------------------------------------------------------------------------------
(* Two lists of one length that differ somewhere. *)
Apart(a, b, S) ==
  /\ a \in Seq(S) /\ b \in Seq(S) /\ Len(a) = Len(b)
  /\ \E i \in 1..Len(a) : a[i] # b[i]

(* A level is padded to an even length and keeps its hashes. *)
LEMMA PaddedLevel ==
  ASSUME NEW S, NEW a \in Seq(S), Len(a) > 1
  PROVE  /\ Padded(a) \in Seq(S) /\ Len(Padded(a)) % 2 = 0
         /\ Len(Padded(a)) = IF Len(a) % 2 = 1 THEN Len(a) + 1 ELSE Len(a)
         /\ \A i \in 1..Len(a) : Padded(a)[i] = a[i]
<1>1. Len(a) \in Nat /\ Len(a) % 2 \in {0, 1} /\ a[Len(a)] \in S
  OBVIOUS
<1>2. CASE Len(a) % 2 = 1
  <2>1. Padded(a) = Append(a, a[Len(a)])
    BY <1>2 DEF Padded, Last
  <2> QED
    BY <1>1, <1>2, <2>1
<1>3. CASE Len(a) % 2 # 1
  BY <1>1, <1>3 DEF Padded
<1> QED
  BY <1>2, <1>3

(* The next level of two lists that differ tells them apart. *)
LEMMA NextApart ==
  ASSUME NEW S, NEW a, NEW b, Apart(a, b, S), NEW x, NEW y
  PROVE  \E T : Apart(NextLevel(a, x), NextLevel(b, y), T)
<1>1. /\ a \in Seq(S) /\ b \in Seq(S) /\ Len(a) = Len(b) /\ Len(a) \in Nat
  BY DEF Apart
<1>2. PICK i \in 1..Len(a) : a[i] # b[i]
  BY DEF Apart
<1>3. CASE Len(a) <= 1
  <2>1. NextLevel(a, x) = a /\ NextLevel(b, y) = b
    BY <1>1, <1>3 DEF NextLevel
  <2> QED
    BY <2>1
<1>4. CASE Len(a) > 1
  <2> DEFINE p == Padded(a)
             q == Padded(b)
             n == Len(p)
             T == S \X S
             c == Combined(p)
             d == Combined(q)
             j == (i + 1) \div 2
  <2>1. /\ p \in Seq(S) /\ q \in Seq(S) /\ n \in Nat /\ Len(q) = n /\ n % 2 = 0
        /\ Len(a) <= n /\ p[i] # q[i] /\ i \in 1..n
    <3>1. /\ p \in Seq(S) /\ n % 2 = 0
          /\ n = IF Len(a) % 2 = 1 THEN Len(a) + 1 ELSE Len(a)
          /\ p[i] = a[i]
      BY <1>1, <1>4, PaddedLevel
    <3>2. /\ q \in Seq(S)
          /\ Len(q) = IF Len(a) % 2 = 1 THEN Len(a) + 1 ELSE Len(a)
          /\ q[i] = b[i]
      BY <1>1, <1>4, PaddedLevel
    <3> HIDE DEF p, q
    <3>3. n \in Nat /\ Len(q) = n /\ Len(a) <= n
      BY <1>1, <3>1, <3>2
    <3>4. p[i] # q[i] /\ i \in 1..n
      BY <1>1, <1>2, <3>1, <3>2, <3>3
    <3> QED
      BY <3>1, <3>2, <3>3, <3>4
  <2>2. NextLevel(a, x) = c /\ NextLevel(b, y) = d
    BY <1>1, <1>4 DEF NextLevel
  <2> HIDE DEF p, q
  <2>3. /\ n \div 2 \in Nat /\ \A k \in 1..(n \div 2) : 2 * k - 1 \in 1..n /\ 2 * k \in 1..n
        /\ j \in 1..(n \div 2) /\ (i = 2 * j - 1 \/ i = 2 * j)
    BY <2>1
  <2>4. /\ c = [k \in 1..(n \div 2) |-> <<p[2 * k - 1], p[2 * k]>>]
        /\ d = [k \in 1..(n \div 2) |-> <<q[2 * k - 1], q[2 * k]>>]
    BY <2>1 DEF Combined
  <2> HIDE DEF n, j, c, d
  <2>5. \A k \in 1..(n \div 2) : <<p[2 * k - 1], p[2 * k]>> \in T /\ <<q[2 * k - 1], q[2 * k]>> \in T
    BY <2>1, <2>3, SMTT(30) DEF n
  <2>6. /\ c \in [1..(n \div 2) -> T] /\ d \in [1..(n \div 2) -> T]
    <3> HIDE DEF T
    <3> QED
      BY <2>4, <2>5
  <2>7. /\ c \in Seq(T) /\ d \in Seq(T) /\ Len(c) = n \div 2 /\ Len(d) = n \div 2
    <3> DEFINE k == n \div 2
    <3>1. k \in Nat /\ c \in [1..k -> T] /\ d \in [1..k -> T]
      BY <2>3, <2>6
    <3> HIDE DEF T, k
    <3>2. c \in Seq(T) /\ Len(c) = k
      BY <3>1
    <3>3. d \in Seq(T) /\ Len(d) = k
      BY <3>1
    <3> QED
      BY <3>2, <3>3 DEF k
  <2>8. c[j] # d[j]
    BY <2>1, <2>3, <2>4
  <2>9. Apart(c, d, T)
    <3> HIDE DEF T
    <3> QED
      BY <2>3, <2>7, <2>8 DEF Apart
  <2> QED
    BY <2>2, <2>9
<1> QED
  BY <1>1, <1>3, <1>4

(* Lists of one length that differ have different roots. *)
LEMMA RootsDiffer ==
  ASSUME NEW X, NEW a, NEW b, Apart(a, b, X)
  PROVE  MerkleRoot(a) # MerkleRoot(b)
<1> DEFINE n == Len(a)
           f(m) == Folded("level", a, SubSeq(a, 1, m))
           g(m) == Folded("level", b, SubSeq(b, 1, m))
           G == {m \in 0..n : \E T : Apart(f(m), g(m), T)}
<1>1. a \in Seq(X) /\ b \in Seq(X) /\ n \in Nat /\ Len(b) = n
  BY DEF Apart
<1>2. 0 \in G
  <2>1. SubSeq(a, 1, 0) = <<>> /\ SubSeq(b, 1, 0) = <<>>
    BY <1>1
  <2>2. f(0) = a /\ g(0) = b
    BY <2>1, FoldNone
  <2> QED
    BY <1>1, <2>2
<1>3. ASSUME NEW m \in G, m < n
      PROVE  m + 1 \in G
  <2>0. m \in Nat /\ m + 1 \in 1..n
    BY <1>1, <1>3
  <2>1. /\ SubSeq(a, 1, m) \in Seq(X) /\ SubSeq(b, 1, m) \in Seq(X)
        /\ SubSeq(a, 1, m + 1) = Append(SubSeq(a, 1, m), a[m + 1])
        /\ SubSeq(b, 1, m + 1) = Append(SubSeq(b, 1, m), b[m + 1])
        /\ a[m + 1] \in X /\ b[m + 1] \in X
    BY <1>1, <2>0
  <2> HIDE DEF G
  <2>2. f(m + 1) = NextLevel(f(m), a[m + 1])
    <3> DEFINE s == SubSeq(a, 1, m)
               z == a[m + 1]
    <3>0. s \in Seq(X) /\ z \in X /\ SubSeq(a, 1, m + 1) = Append(s, z)
      BY <2>1
    <3> HIDE DEF s, z
    <3>2. Folded("level", a, Append(s, z)) = Apply("level", Folded("level", a, s), z)
      BY <3>0, FoldAppend
    <3>1. f(m + 1) = Apply("level", f(m), a[m + 1])
      BY <3>0, <3>2 DEF s, z
    <3> QED
      BY <3>1 DEF Apply
  <2>3. g(m + 1) = NextLevel(g(m), b[m + 1])
    <3> DEFINE s == SubSeq(b, 1, m)
               z == b[m + 1]
    <3>0. s \in Seq(X) /\ z \in X /\ SubSeq(b, 1, m + 1) = Append(s, z)
      BY <2>1
    <3> HIDE DEF s, z
    <3>2. Folded("level", b, Append(s, z)) = Apply("level", Folded("level", b, s), z)
      BY <3>0, FoldAppend
    <3>1. g(m + 1) = Apply("level", g(m), b[m + 1])
      BY <3>0, <3>2 DEF s, z
    <3> QED
      BY <3>1 DEF Apply
  <2>4. PICK T : Apart(f(m), g(m), T)
    BY DEF G
  <2> HIDE DEF f, g
  <2>5. \E U : Apart(f(m + 1), g(m + 1), U)
    BY <2>2, <2>3, <2>4, NextApart
  <2> QED
    BY <1>1, <2>0, <2>5 DEF G
<1>4. n \in G
  <2>1. IsFiniteSet(G)
    <3>1. IsFiniteSet(0..n) /\ G \subseteq 0..n
      BY <1>1, FS_Interval
    <3> HIDE DEF G
    <3> QED
      BY <3>1, FS_Subset
  <2>2. G \subseteq 0..n
    OBVIOUS
  <2> HIDE DEF G
  <2>3. PICK m \in G : \A k \in G : k <= m
    <3>1. G \subseteq Int /\ G # {}
      BY <1>1, <1>2, <2>2
    <3> QED
      BY <2>1, <3>1, GreatestExists
  <2>4. ~(m + 1 \in G)
    BY <1>1, <2>2, <2>3
  <2>5. ~(m < n)
    BY <1>3, <2>4
  <2> QED
    BY <1>1, <2>2, <2>3, <2>5
<1>5. PICK T : Apart(f(n), g(n), T)
  BY <1>4
<1>6. f(n) # g(n)
  <2> HIDE DEF f, g
  <2> QED
    BY <1>5 DEF Apart
<1>7. MerkleRoot(a) = f(n) /\ MerkleRoot(b) = g(n)
  <2>1. SubSeq(a, 1, n) = a /\ SubSeq(b, 1, n) = b
    BY <1>1
  <2> QED
    BY <1>1, <2>1, FoldsAreFolded DEF MerkleRoot
<1> QED
  BY <1>6, <1>7

(* A change of any one message, whatever the messages are and however many,  *)
(* changes the root.                                                        *)
LEMMA RootBinds == TypeOK => RootBindsMessages
<1> SUFFICES ASSUME TypeOK, NEW i \in DOMAIN messages, NEW p \in Payloads,
                    p # messages[i].payload
             PROVE  LET list    == [n \in DOMAIN messages |-> messages[n].payload]
                        changed == [n \in DOMAIN messages |-> IF n = i THEN p ELSE list[n]]
                    IN  MerkleRoot(changed) # MerkleRoot(list)
  BY DEF RootBindsMessages
<1> DEFINE list    == [n \in DOMAIN messages |-> messages[n].payload]
           changed == [n \in DOMAIN messages |-> IF n = i THEN p ELSE list[n]]
           m       == Len(messages)
<1>1. m \in Nat /\ DOMAIN messages = 1..m /\ \A n \in 1..m : messages[n].payload \in Payload
  <2>1. messages \in Seq(Message)
    BY DEF TypeOK
  <2>2. m \in Nat /\ DOMAIN messages = 1..m
    BY <2>1
  <2>3. ASSUME NEW n \in 1..m
        PROVE  messages[n].payload \in Payload
    <3>1. messages[n] \in Message
      BY <2>1, <2>3
    <3> QED
      BY <3>1 DEF Message
  <2> QED
    BY <2>2, <2>3
<1>2. p \in Payload /\ i \in 1..m
  BY <1>1, PayloadAssumption
<1>3. /\ list = [n \in 1..m |-> messages[n].payload]
      /\ changed = [n \in 1..m |-> IF n = i THEN p ELSE messages[n].payload]
  BY <1>1
<1> HIDE DEF m, list, changed
<1>4. list \in Seq(Payload) /\ Len(list) = m
  BY <1>1, <1>3
<1>5. changed \in Seq(Payload) /\ Len(changed) = m
  BY <1>1, <1>2, <1>3
<1>6. changed[i] # list[i]
  BY <1>2, <1>3
<1>7. Apart(changed, list, Payload)
  BY <1>2, <1>4, <1>5, <1>6 DEF Apart
<1> QED
  BY <1>7, RootsDiffer DEF list, changed

------------------------------------------------------------------------------
(* A step of the register. *)
LEMMA Taken ==
  ASSUME NEW k \in Keys, NEW d \in Data, NEW v \in {p.version : p \in Payloads},
         Register!Take(k, d, v)
  PROVE  Register!Next
BY Zenon DEF Register!Next

(* A lone worker that takes announces: a row changes only by a value with a *)
(* higher version than the one it holds, or with the node.                  *)
LEMMA RegisterStep ==
  ASSUME Consistent, Next, Serial, AnnounceOnly
  PROVE  [Register!Next]_(Register!vars)
<1> DEFINE R(r) == [k \in Keys |-> IF r[k] = None THEN None
                                  ELSE [data |-> r[k].data, version |-> r[k].version]]
<1>1. CASE rows' = rows
  BY <1>1 DEF Register!vars
<1>2. CASE DeleteNode
  <2>1. rows' = [k \in Keys |-> None]
    BY <1>2 DEF DeleteNode
  <2>2. R(rows') = [k \in Keys |-> None]
    BY <2>1
  <2>3. Register!Forget
    BY <2>2 DEF Register!Forget
  <2> QED
    BY <2>3 DEF Register!Next
<1>3. ASSUME NEW w \in Workers, Key(w) \in Keys, rows' # rows,
             (InsertRow(w) /\ Stored(w) = None) \/ (Overwrite(w) /\ Stored(w) \in Row)
      PROVE  Register!Next
  <2> DEFINE p == job[w].payload
             k == Key(w)
  <2>1. step[w] \in {"insert", "overwrite"} /\ JobOK(w) /\ job[w].kind = "announce"
    <3>1. step[w] \in {"insert", "overwrite"}
      BY <1>3 DEF InsertRow, Overwrite, UpdateRow
    <3> QED
      BY <3>1, Busy DEF JobOK, AnnounceOnly
  <2>2. p \in Payloads /\ p.data \in Data /\ p.version \in Nat
    BY <2>1, PayloadAssumption DEF JobOK, Payload
  <2>3. rows \in [Keys -> Row \cup {None}] /\ Stored(w) = rows[k]
    BY DEF Consistent, TypeOK, Stored
  <2>4. PICK row : /\ rows' = [rows EXCEPT ![k] = row]
                   /\ row.data = p.data /\ row.version = p.version /\ row # None
    <3>1. CASE InsertRow(w)
      <4> DEFINE new == [data |-> p.data, version |-> p.version, active |-> TRUE]
      <4>1. new \in Row
        BY <2>2 DEF Row
      <4> QED
        BY <1>3, <3>1, <4>1, NoneAssumption DEF InsertRow, PutRow
    <3>2. CASE Overwrite(w) /\ Stored(w) \in Row
      <4> DEFINE new == [Stored(w) EXCEPT !.data = p.data, !.version = p.version]
      <4>1. new \in Row /\ new.data = p.data /\ new.version = p.version
        BY <2>2, <3>2 DEF Row
      <4>2. rows' = [rows EXCEPT ![k] = new]
        BY <1>3, <3>2 DEF Overwrite, UpdateRow, PutRow
      <4> QED
        BY <4>1, <4>2, NoneAssumption
    <3> QED
      BY <1>3, <3>1, <3>2
  <2>5. rows[k] = None \/ p.version > R(rows)[k].version
    <3>1. CASE InsertRow(w) /\ Stored(w) = None
      BY <2>3, <3>1
    <3>2. CASE Overwrite(w) /\ Stored(w) \in Row
      <4>1. step[w] = "overwrite" /\ Stored(w) # None
        BY <3>2, NoneAssumption DEF Overwrite, UpdateRow
      <4>2. Newer(p, Stored(w))
        BY <2>1, <4>1 DEF JobOK
      <4> QED
        BY <1>3, <2>3, <4>1, <4>2 DEF Newer
    <3> QED
      BY <1>3, <3>1, <3>2
  <2>6. R(rows') = [R(rows) EXCEPT ![k] = [data |-> p.data, version |-> p.version]]
    BY <1>3, <2>3, <2>4
  <2>7. R(rows)[k] = None \/ p.version > R(rows)[k].version
    BY <1>3, <2>5
  <2>8. p.version \in {q.version : q \in Payloads}
    BY <2>2
  <2>9. PICK l \in Keys, d \in Data, v \in {q.version : q \in Payloads} :
            l = k /\ d = p.data /\ v = p.version
    BY <1>3, <2>2, <2>8
  <2>10. Register!Take(l, d, v)
    BY <2>6, <2>7, <2>9 DEF Register!Take, Register!Newer
  <2> QED
    BY <2>10, Taken
<1>4. ASSUME NEW w \in Workers, SaveData(w) \/ SaveDeleted(w) \/ PushRow(w)
      PROVE  FALSE
  <2>1. step[w] \in {"saveData", "saveDeleted", "push"}
    BY <1>4 DEF SaveData, SaveDeleted, PushRow, UpdateRow
  <2>2. job[w].kind \in KindsAt(step[w]) /\ job[w].kind = "announce"
    BY <2>1, Busy DEF JobOK, AnnounceOnly
  <2> QED
    BY <2>1, <2>2 DEF KindsAt
<1>5. CASE rows' # rows
  <2>1. ASSUME NEW w \in Workers, Key(w) \in Keys,
               \/ InsertRow(w) /\ Stored(w) = None
               \/ SaveData(w) /\ Stored(w) \in Row
               \/ SaveDeleted(w) /\ Stored(w) \in Row
               \/ Overwrite(w) /\ Stored(w) \in Row
               \/ PushRow(w) /\ Stored(w) \in Row \cup {None}
        PROVE  Register!Next
    <3>1. ~(SaveData(w) \/ SaveDeleted(w) \/ PushRow(w))
      BY <1>4
    <3>2. (InsertRow(w) /\ Stored(w) = None) \/ (Overwrite(w) /\ Stored(w) \in Row)
      BY <2>1, <3>1
    <3> QED
      BY <1>3, <1>5, <2>1, <3>2
  <2>2. DeleteNode \/ Register!Next
    BY <1>5, <2>1, RowChanged
  <2> QED
    BY <1>2, <2>2
<1> QED
  BY <1>1, <1>5

------------------------------------------------------------------------------
(* What is resolved of one version, and of one version more. *)
LEMMA ResolveOne == \A x : ResolveMultiple(<<x>>) = x
<1> TAKE x
<1>1. Head(<<x>>) = x /\ Tail(<<x>>) = <<>> /\ <<>> \in Seq({x})
  OBVIOUS
<1>2. FoldLeft(Resolve, x, <<>>) = Folded("resolve", x, <<>>)
  BY <1>1, FoldsAreFolded
<1>3. Folded("resolve", x, <<>>) = x
  BY FoldNone
<1>4. ResolveMultiple(<<x>>) = FoldLeft(Resolve, x, <<>>)
  BY <1>1 DEF ResolveMultiple
<1> QED
  BY <1>2, <1>3, <1>4

(* One version more is resolved with the result so far. *)
LEMMA ResolveMore ==
  ASSUME NEW X, NEW xs \in Seq(X), xs # <<>>, NEW x \in X
  PROVE  ResolveMultiple(Append(xs, x)) = Resolve(ResolveMultiple(xs), x)
<1> DEFINE t == Tail(xs)
           b == Head(xs)
<1>1. /\ t \in Seq(X) /\ Head(Append(xs, x)) = b
      /\ Tail(Append(xs, x)) = Append(t, x) /\ Append(t, x) \in Seq(X)
  OBVIOUS
<1> HIDE DEF t, b
<1>2. Folded("resolve", b, Append(t, x)) = Apply("resolve", Folded("resolve", b, t), x)
  BY <1>1, FoldAppend
<1>3. ResolveMultiple(xs) = Folded("resolve", b, t)
  BY <1>1, FoldsAreFolded DEF ResolveMultiple, t, b
<1>4. ResolveMultiple(Append(xs, x)) = Folded("resolve", b, Append(t, x))
  <2>1. FoldLeft(Resolve, b, Append(t, x)) = Folded("resolve", b, Append(t, x))
    BY <1>1, FoldsAreFolded
  <2> QED
    BY <1>1, <2>1 DEF ResolveMultiple
<1> QED
  BY <1>2, <1>3, <1>4 DEF Apply

------------------------------------------------------------------------------
(* Orders, Hearings, Heard and Resolved of a list m of messages and a row.  *)
Ordered(ids, m) ==
  /\ ids \in Seq(1..Len(m)) /\ Len(ids) <= Len(m)
  /\ \A a, b \in 1..Len(ids) : a < b => ids[a] < ids[b]

Hears(ids, m, k) ==
  /\ Ordered(ids, m)
  /\ \A n \in 1..Len(ids) : m[ids[n]].payload.key = k
  /\ \A i \in 1..Len(m) : m[i].processed /\ m[i].payload.key = k
       => \E n \in 1..Len(ids) : ids[n] = i

Said(ids, m) ==
  [n \in 1..Len(ids) |-> Dated(m[ids[n]].payload.version, m[ids[n]].payload.data)]

Agrees(ids, m, row) ==
  IF ids = <<>> THEN row = None
  ELSE row # None /\ ResolveMultiple(Said(ids, m)) = Dated(row.version, row.data)

(* An order is an increasing list of indices, of length at most that of m. *)
LEMMA OrdersAre ==
  ASSUME NEW X, NEW m \in Seq(X), NEW ids
  PROVE  Ordered(ids, m) <=>
           /\ ids \in UNION {[1..n -> DOMAIN m] : n \in 0..Len(m)}
           /\ \A a, b \in DOMAIN ids : a < b => ids[a] < ids[b]
<1>1. DOMAIN m = 1..Len(m) /\ Len(m) \in Nat
  OBVIOUS
<1>2. ASSUME Ordered(ids, m)
      PROVE  /\ ids \in UNION {[1..n -> DOMAIN m] : n \in 0..Len(m)}
             /\ \A a, b \in DOMAIN ids : a < b => ids[a] < ids[b]
  <2>1. ids \in Seq(1..Len(m)) /\ Len(ids) <= Len(m)
    BY <1>2 DEF Ordered
  <2>2. Len(ids) \in 0..Len(m) /\ ids \in [1..Len(ids) -> 1..Len(m)] /\ DOMAIN ids = 1..Len(ids)
    BY <1>1, <2>1
  <2> QED
    BY <1>1, <1>2, <2>2 DEF Ordered
<1>3. ASSUME /\ ids \in UNION {[1..n -> DOMAIN m] : n \in 0..Len(m)}
             /\ \A a, b \in DOMAIN ids : a < b => ids[a] < ids[b]
      PROVE  Ordered(ids, m)
  <2>1. PICK n \in 0..Len(m) : ids \in [1..n -> 1..Len(m)]
    BY <1>1, <1>3
  <2>2. n \in Nat /\ n <= Len(m)
    BY <1>1
  <2>3. ids \in Seq(1..Len(m)) /\ Len(ids) = n /\ DOMAIN ids = 1..n
    BY <2>1, <2>2
  <2> QED
    BY <1>3, <2>2, <2>3 DEF Ordered
<1> QED
  BY <1>2, <1>3

(* The definitions of the model, now and after a step. *)
LEMMA HearingsAre ==
  ASSUME NEW ids, NEW k
  PROVE  /\ messages \in Seq(Message) =>
              (ids \in Hearings(k) <=> Hears(ids, messages, k))
         /\ messages' \in Seq(Message) =>
              (ids \in Hearings(k)' <=> Hears(ids, messages', k))
<1>1. ASSUME messages \in Seq(Message)
      PROVE  ids \in Hearings(k) <=> Hears(ids, messages, k)
  <2>1. ids \in Orders <=> Ordered(ids, messages)
    BY <1>1, OrdersAre DEF Orders
  <2>2. /\ DOMAIN messages = 1..Len(messages)
        /\ Ordered(ids, messages) => DOMAIN ids = 1..Len(ids)
    BY <1>1 DEF Ordered
  <2> QED
    BY <2>1, <2>2 DEF Hearings, Hears
<1>2. ASSUME messages' \in Seq(Message)
      PROVE  ids \in Hearings(k)' <=> Hears(ids, messages', k)
  <2>1. ids \in Orders' <=> Ordered(ids, messages')
    BY <1>2, OrdersAre DEF Orders
  <2>2. /\ DOMAIN messages' = 1..Len(messages')
        /\ Ordered(ids, messages') => DOMAIN ids = 1..Len(ids)
    BY <1>2 DEF Ordered
  <2> QED
    BY <2>1, <2>2 DEF Hearings, Hears
<1> QED
  BY <1>1, <1>2

(* What is resolved, now and after a step. *)
LEMMA ResolvedIs ==
  ASSUME NEW ids, NEW k, NEW X, ids \in Seq(X)
  PROVE  /\ Resolved(k, ids) <=> Agrees(ids, messages, rows[k])
         /\ Resolved(k, ids)' <=> Agrees(ids, messages', rows'[k])
<1>1. DOMAIN ids = 1..Len(ids)
  OBVIOUS
<1>2. Heard(ids) = Said(ids, messages) /\ Heard(ids)' = Said(ids, messages')
  BY <1>1 DEF Heard, Said
<1> QED
  BY <1>2 DEF Resolved, Agrees

Datings == [version : Nat, at : {0}, data : Data]

(* What was said is a list of dated documents. *)
LEMMA SaidTyped ==
  ASSUME NEW m \in Seq(Message), NEW ids \in Seq(1..Len(m))
  PROVE  /\ Said(ids, m) \in Seq(Datings) /\ Len(Said(ids, m)) = Len(ids)
         /\ \A n \in 1..Len(ids) :
              Said(ids, m)[n] = Dated(m[ids[n]].payload.version, m[ids[n]].payload.data)
<1> DEFINE said(n) == Dated(m[ids[n]].payload.version, m[ids[n]].payload.data)
           l == Len(ids)
<1>1. ASSUME NEW i \in 1..Len(m)
      PROVE  Dated(m[i].payload.version, m[i].payload.data) \in Datings
  <2>1. m[i] \in Message
    OBVIOUS
  <2> QED
    BY <2>1 DEF Message, Payload, Dated, Datings
<1>2. l \in Nat /\ \A n \in 1..l : said(n) \in Datings
  BY <1>1
<1>3. Said(ids, m) = [n \in 1..l |-> said(n)]
  BY DEF Said
<1> HIDE DEF said, l
<1>4. Said(ids, m) \in Seq(Datings) /\ Len(Said(ids, m)) = l
  BY <1>2, <1>3
<1>5. \A n \in 1..l : Said(ids, m)[n] = said(n)
  BY <1>3
<1> QED
  BY <1>4, <1>5 DEF said, l

(* The latest message is heard as well. *)
LEMMA HearsLatest ==
  ASSUME NEW m \in Seq(Message), m # <<>>, NEW k, NEW ids, Hears(ids, m, k),
         m[Len(m)].payload.key = k, \A n \in 1..Len(ids) : ids[n] # Len(m)
  PROVE  LET p == m[Len(m)].payload IN
         /\ Hears(Append(ids, Len(m)), m, k)
         /\ Said(Append(ids, Len(m)), m) = Append(Said(ids, m), Dated(p.version, p.data))
         /\ Dated(p.version, p.data) \in Datings
<1> DEFINE L == Len(m)
           l == Len(ids)
           more == Append(ids, L)
           d == Dated(m[L].payload.version, m[L].payload.data)
<1>1. /\ L \in Nat /\ L > 0 /\ ids \in Seq(1..L) /\ l \in Nat
      /\ \A a, b \in 1..l : a < b => ids[a] < ids[b]
  BY DEF Hears, Ordered
<1>2. \A n \in 1..l : ids[n] \in 1..(L - 1)
  BY <1>1
<1>3. l <= L - 1
  <2>1. \A a, b \in 1..l : ids[a] = ids[b] => a = b
    <3> SUFFICES ASSUME NEW a \in 1..l, NEW b \in 1..l, ids[a] = ids[b], a # b
                 PROVE  FALSE
      OBVIOUS
    <3>1. a < b \/ b < a
      BY <1>1
    <3>2. ids[a] < ids[b] \/ ids[b] < ids[a]
      BY <1>1, <3>1
    <3> QED
      BY <1>1, <1>2, <3>2
  <2>2. ids \in [1..l -> 1..(L - 1)]
    BY <1>1, <1>2
  <2>3. ids \in Injection(1..l, 1..(L - 1))
    BY <2>1, <2>2 DEF Injection, IsInjective
  <2>4. IsFiniteSet(1..(L - 1)) /\ Cardinality(1..(L - 1)) = L - 1
    <3>1. L - 1 \in Int /\ 1 \in Int
      BY <1>1
    <3>2. /\ IsFiniteSet(1..(L - 1))
          /\ Cardinality(1..(L - 1)) = IF 1 > L - 1 THEN 0 ELSE (L - 1) - 1 + 1
      BY <3>1, FS_Interval, Zenon
    <3> QED
      BY <1>1, <3>2
  <2>5. Cardinality(1..l) = l
    <3>1. l \in Int /\ 1 \in Int
      BY <1>1
    <3>2. Cardinality(1..l) = IF 1 > l THEN 0 ELSE l - 1 + 1
      BY <3>1, FS_Interval, Zenon
    <3> QED
      BY <1>1, <3>2
  <2>6. Cardinality(1..l) <= Cardinality(1..(L - 1))
    BY <2>3, <2>4, FS_Injection
  <2> QED
    BY <2>4, <2>5, <2>6
<1>4. /\ more \in Seq(1..L) /\ Len(more) = l + 1 /\ more[l + 1] = L
      /\ \A n \in 1..l : more[n] = ids[n]
  BY <1>1
<1> HIDE DEF more
<1>5. Ordered(more, m)
  <2>1. ASSUME NEW a \in 1..(l + 1), NEW b \in 1..(l + 1), a < b
        PROVE  more[a] < more[b]
    <3>0. a \in 1..l /\ l \in Nat /\ L \in Nat
      BY <1>1, <2>1
    <3>1. CASE b = l + 1
      <4>1. more[a] = ids[a] /\ ids[a] \in 1..(L - 1) /\ more[b] = L
        BY <1>2, <1>4, <3>0, <3>1
      <4> QED
        BY <3>0, <4>1
    <3>2. CASE b # l + 1
      <4>1. b \in 1..l
        BY <3>0, <3>2
      <4>2. more[a] = ids[a] /\ more[b] = ids[b] /\ ids[a] < ids[b]
        BY <1>1, <1>4, <2>1, <3>0, <4>1
      <4> QED
        BY <4>2
    <3> QED
      BY <3>1, <3>2
  <2>2. Len(more) <= L
    BY <1>1, <1>3, <1>4
  <2> QED
    BY <1>4, <2>1, <2>2 DEF Ordered
<1>6. ASSUME NEW n \in 1..Len(more)
      PROVE  m[more[n]].payload.key = k
  <2>1. n = l + 1 \/ n \in 1..l
    BY <1>1, <1>4
  <2> QED
    BY <1>4, <2>1 DEF Hears
<1>7. ASSUME NEW i \in 1..Len(m), m[i].processed, m[i].payload.key = k
      PROVE  \E n \in 1..Len(more) : more[n] = i
  <2>1. PICK n \in 1..l : ids[n] = i
    BY <1>7 DEF Hears
  <2>2. n \in 1..Len(more) /\ more[n] = i
    BY <1>1, <1>4, <2>1
  <2> QED
    BY <2>2
<1>8. Hears(more, m, k)
  BY <1>5, <1>6, <1>7 DEF Hears
<1>9. Said(more, m) = Append(Said(ids, m), d) /\ d \in Datings
  <2>1. /\ Said(ids, m) \in Seq(Datings) /\ Len(Said(ids, m)) = l
        /\ \A n \in 1..l : Said(ids, m)[n] =
             Dated(m[ids[n]].payload.version, m[ids[n]].payload.data)
    BY <1>1, SaidTyped
  <2>2. /\ Said(more, m) \in Seq(Datings) /\ Len(Said(more, m)) = l + 1
        /\ \A n \in 1..(l + 1) : Said(more, m)[n] =
             Dated(m[more[n]].payload.version, m[more[n]].payload.data)
    BY <1>4, SaidTyped
  <2>3. d \in Datings
    <3>1. m[L] \in Message
      BY <1>1
    <3> QED
      BY <3>1 DEF Message, Payload, Dated, Datings
  <2> DEFINE s == Said(ids, m)
             t == Said(more, m)
  <2>4. /\ s \in Seq(Datings) /\ t \in Seq(Datings) /\ Len(s) = l /\ Len(t) = l + 1
        /\ t[l + 1] = d /\ \A n \in 1..l : t[n] = s[n]
    <3>1. l \in Nat /\ l + 1 \in 1..(l + 1) /\ \A n \in 1..l : n \in 1..(l + 1)
      BY <1>1
    <3>2. t[l + 1] = d
      BY <1>4, <2>2, <3>1
    <3>3. \A n \in 1..l : t[n] = s[n]
      BY <1>4, <2>1, <2>2, <3>1
    <3> HIDE DEF d
    <3> QED
      BY <2>1, <2>2, <3>2, <3>3
  <2> HIDE DEF s, t, d
  <2>5. t = Append(s, d)
    BY <1>1, <2>3, <2>4
  <2> QED
    BY <2>3, <2>5 DEF s, t
<1> QED
  BY <1>8, <1>9 DEF more

(* A message that arrives is not heard yet. *)
LEMMA HearsOn ==
  ASSUME NEW m \in Seq(Message), NEW k, NEW ids, Hears(ids, m, k),
         NEW e \in Message, ~e.processed
  PROVE  Hears(ids, Append(m, e), k) /\ Said(ids, Append(m, e)) = Said(ids, m)
<1> DEFINE L == Len(m)
           m2 == Append(m, e)
<1>1. /\ L \in Nat /\ ids \in Seq(1..L) /\ Len(ids) <= L
      /\ m2 \in Seq(Message) /\ Len(m2) = L + 1 /\ m2[L + 1] = e
      /\ \A i \in 1..L : m2[i] = m[i]
  BY DEF Hears, Ordered
<1> HIDE DEF m2
<1>2. \A n \in 1..Len(ids) : ids[n] \in 1..L /\ m2[ids[n]] = m[ids[n]]
  BY <1>1
<1>3. Ordered(ids, m2)
  <2>1. Len(ids) \in Nat /\ ids \in Seq(1..(L + 1))
    BY <1>1
  <2> QED
    BY <1>1, <2>1 DEF Hears, Ordered
<1>4. ASSUME NEW i \in 1..Len(m2), m2[i].processed, m2[i].payload.key = k
      PROVE  \E n \in 1..Len(ids) : ids[n] = i
  <2>1. i \in 1..L
    BY <1>1, <1>4
  <2> QED
    BY <1>1, <1>4, <2>1 DEF Hears
<1>5. Said(ids, m2) = Said(ids, m)
  BY <1>2 DEF Said
<1> QED
  BY <1>2, <1>3, <1>4, <1>5 DEF Hears, m2

(* A message that was heard is marked. *)
LEMMA HearsMarked ==
  ASSUME NEW m \in Seq(Message), NEW k, NEW ids, Hears(ids, m, k), NEW i \in 1..Len(m),
         m[i].payload.key = k => \E n \in 1..Len(ids) : ids[n] = i
  PROVE  LET m2 == [m EXCEPT ![i].processed = TRUE] IN
         Hears(ids, m2, k) /\ Said(ids, m2) = Said(ids, m)
<1> DEFINE m2 == [m EXCEPT ![i].processed = TRUE]
           new == [m[i] EXCEPT !.processed = TRUE]
<1>1. /\ Len(m) \in Nat /\ ids \in Seq(1..Len(m)) /\ Len(m2) = Len(m)
      /\ \A j \in 1..Len(m) : j # i => m2[j] = m[j]
      /\ m2[i] = new
  <2>1. ids \in Seq(1..Len(m)) /\ m \in [1..Len(m) -> Message] /\ Len(m) \in Nat
    BY DEF Hears, Ordered
  <2>2. m[i] \in Message
    OBVIOUS
  <2>3. new \in Message
    BY <2>2 DEF Message
  <2>4. m2 = [m EXCEPT ![i] = new]
    OBVIOUS
  <2> HIDE DEF new, m2
  <2>5. m2 \in [1..Len(m) -> Message] /\ m2[i] = new
        /\ \A j \in 1..Len(m) : j # i => m2[j] = m[j]
    BY <2>1, <2>3, <2>4
  <2>6. Len(m2) = Len(m)
    BY <2>1, <2>5
  <2> QED
    BY <2>1, <2>5, <2>6
<1>2. \A j \in 1..Len(m) : m2[j].payload = m[j].payload
  <2>1. m2[i].payload = m[i].payload
    <3>1. m[i] \in Message
      OBVIOUS
    <3> QED
      BY <1>1, <3>1 DEF Message
  <2> QED
    BY <1>1, <2>1
<1> HIDE DEF m2
<1>3. \A n \in 1..Len(ids) : ids[n] \in 1..Len(m)
  BY <1>1
<1>4. Ordered(ids, m2)
  BY <1>1 DEF Hears, Ordered
<1>5. ASSUME NEW j \in 1..Len(m2), m2[j].processed, m2[j].payload.key = k
      PROVE  \E n \in 1..Len(ids) : ids[n] = j
  <2>1. CASE j = i
    BY <1>1, <1>2, <1>5, <2>1
  <2>2. CASE j # i
    BY <1>1, <1>5, <2>2 DEF Hears
  <2> QED
    BY <2>1, <2>2
<1>6. Said(ids, m2) = Said(ids, m)
  BY <1>2, <1>3 DEF Said
<1> QED
  BY <1>2, <1>3, <1>4, <1>5, <1>6 DEF Hears, m2

------------------------------------------------------------------------------
(* The parts of Heeded: the message of a lone worker, ... *)
Awaits(w) ==
  step[w] \notin {"idle", "message"} =>
    /\ job[w].msg = Len(messages) /\ messages # <<>>
    /\ messages[job[w].msg] = [payload |-> job[w].payload, processed |-> FALSE]

(* ... and where the message at msg stands to what was heard, at s. *)
Placed(s, msg, ids) ==
  /\ s \in {"existing", "insert", "overwrite"} => \A n \in DOMAIN ids : ids[n] # msg
  /\ s \in {"audit", "conflict", "mark"} => \E n \in DOMAIN ids : ids[n] = msg

HeedsFor(k, ids) ==
  /\ Hears(ids, messages, k) /\ Agrees(ids, messages, rows[k])
  /\ \A w \in pool : step[w] # "idle" /\ Key(w) = k => Placed(step[w], job[w].msg, ids)

(* The parts follow from Heeded. *)
LEMMA HeededGives ==
  ASSUME messages \in Seq(Message), Heeded, Serial, AnnounceOnly, node # "gone"
  PROVE  /\ \A w \in pool : Awaits(w)
         /\ \A k \in Keys : \E ids : HeedsFor(k, ids)
<1>1. \A w \in pool : Awaits(w)
  BY DEF Heeded, Awaits
<1>2. ASSUME NEW k \in Keys
      PROVE  \E ids : HeedsFor(k, ids)
  <2>1. PICK ids \in Hearings(k) :
           /\ Resolved(k, ids)
           /\ \A w \in pool : step[w] # "idle" /\ Key(w) = k => Placed(step[w], job[w].msg, ids)
    BY DEF Heeded, Placed
  <2>2. Hears(ids, messages, k)
    BY HearingsAre
  <2>3. Agrees(ids, messages, rows[k])
    BY <2>1, <2>2, ResolvedIs DEF Hears, Ordered
  <2> QED
    BY <2>1, <2>2, <2>3 DEF HeedsFor
<1> QED
  BY <1>1, <1>2

(* Heeded follows from its parts after a step. *)
LEMMA HeededBy ==
  ASSUME messages' \in Seq(Message), \A w \in pool' : Awaits(w)',
         \A k \in Keys : \E ids : HeedsFor(k, ids)'
  PROVE  Heeded'
<1>1. ASSUME NEW k \in Keys
      PROVE  \E ids \in Hearings(k)' :
               /\ Resolved(k, ids)'
               /\ \A w \in pool' : step'[w] # "idle" /\ Key(w)' = k
                    => Placed(step'[w], job'[w].msg, ids)
  <2>1. PICK ids : HeedsFor(k, ids)'
    OBVIOUS
  <2>2. /\ Hears(ids, messages', k) /\ Agrees(ids, messages', rows'[k])
        /\ \A w \in pool' : step'[w] # "idle" /\ Key(w)' = k
             => Placed(step'[w], job'[w].msg, ids)
    BY <2>1 DEF HeedsFor
  <2>3. ids \in Hearings(k)'
    BY <2>2, HearingsAre
  <2>4. Resolved(k, ids)'
    BY <2>2, ResolvedIs DEF Hears, Ordered
  <2> QED
    BY <2>2, <2>3, <2>4
<1> QED
  BY <1>1 DEF Heeded, Awaits, Placed

(* A step of the lone worker, which takes it to s with the locals j. *)
LEMMA HeedMoves ==
  ASSUME Consistent, Heeded, Serial, AnnounceOnly, node # "gone", UNCHANGED conf,
         NEW w \in Workers, w \in pool, NEW s, NEW j,
         step' = [step EXCEPT ![w] = s], job' = [job EXCEPT ![w] = j],
         messages' \in Seq(Message),
         s \notin {"idle", "message"} =>
           /\ j.msg = Len(messages') /\ messages' # <<>>
           /\ messages'[j.msg] = [payload |-> j.payload, processed |-> FALSE],
         \A k \in Keys : \A ids : HeedsFor(k, ids) =>
           \E more : /\ Hears(more, messages', k) /\ Agrees(more, messages', rows'[k])
                     /\ s # "idle" /\ j.payload.key = k => Placed(s, j.msg, more)
  PROVE  Heeded'
<1>1. /\ step'[w] = s /\ job'[w] = j /\ messages \in Seq(Message)
      /\ \A x \in pool' : x = w
  BY DEF Consistent, TypeOK, Serial, conf
<1>2. \A k \in Keys : \E ids : HeedsFor(k, ids)
  BY <1>1, HeededGives
<1>3. \A x \in pool' : Awaits(x)'
  BY <1>1 DEF Awaits
<1>4. ASSUME NEW k \in Keys
      PROVE  \E ids : HeedsFor(k, ids)'
  <2>1. PICK ids : HeedsFor(k, ids)
    BY <1>2
  <2>2. PICK more : /\ Hears(more, messages', k) /\ Agrees(more, messages', rows'[k])
                    /\ s # "idle" /\ j.payload.key = k => Placed(s, j.msg, more)
    BY <2>1
  <2>3. Key(w)' = j.payload.key
    BY <1>1 DEF Key
  <2>4. HeedsFor(k, more)'
    BY <1>1, <2>2, <2>3 DEF HeedsFor
  <2> QED
    BY <2>4
<1> QED
  BY <1>3, <1>4, HeededBy

(* A step that changes no row and no message, and not the place either.     *)
LEMMA HeedKeeps ==
  ASSUME Consistent, Heeded, Serial, AnnounceOnly, node # "gone", UNCHANGED conf,
         NEW w \in Workers, w \in pool, NEW s, NEW j,
         step' = [step EXCEPT ![w] = s], job' = [job EXCEPT ![w] = j],
         UNCHANGED <<rows, messages>>,
         \/ s \in {"idle", "message"}
         \/ /\ j.msg = job[w].msg /\ j.payload = job[w].payload
            /\ \/ {step[w], s} \subseteq {"existing", "insert", "overwrite"}
               \/ {step[w], s} \subseteq {"audit", "conflict", "mark"}
  PROVE  Heeded'
<1>1. messages \in Seq(Message)
  BY DEF Consistent, TypeOK
<1>2. Awaits(w)
  BY <1>1, HeededGives
<1>3. s \notin {"idle", "message"} =>
        /\ j.msg = Len(messages') /\ messages' # <<>>
        /\ messages'[j.msg] = [payload |-> j.payload, processed |-> FALSE]
  BY <1>2 DEF Awaits
<1>4. ASSUME NEW k \in Keys, NEW ids, HeedsFor(k, ids)
      PROVE  /\ Hears(ids, messages', k) /\ Agrees(ids, messages', rows'[k])
             /\ s # "idle" /\ j.payload.key = k => Placed(s, j.msg, ids)
  BY <1>4 DEF HeedsFor, Placed, Key
<1> QED
  BY <1>1, <1>3, <1>4, HeedMoves

(* The message of a worker is heard: it is resolved with the row. *)
Takes(w, s, j) ==
  /\ step[w] \in {"existing", "insert", "overwrite"} /\ Key(w) \in Keys
  /\ s \in {"audit", "mark"}
  /\ step' = [step EXCEPT ![w] = s] /\ job' = [job EXCEPT ![w] = j]
  /\ j.msg = job[w].msg /\ j.payload = job[w].payload
  /\ UNCHANGED <<conf, messages>>
  /\ \A k \in Keys \ {Key(w)} : rows'[k] = rows[k]
  /\ rows'[Key(w)] \in Row
  /\ Dated(rows'[Key(w)].version, rows'[Key(w)].data) =
       IF Stored(w) = None
       THEN Dated(job[w].payload.version, job[w].payload.data)
       ELSE Resolve(Dated(Stored(w).version, Stored(w).data),
                    Dated(job[w].payload.version, job[w].payload.data))

(* Such a step keeps Heeded. *)
LEMMA HeedsMore ==
  ASSUME Consistent, Heeded, Serial, AnnounceOnly, node # "gone",
         NEW w \in Workers, w \in pool, NEW s, NEW j, Takes(w, s, j)
  PROVE  Heeded'
<1> DEFINE p == job[w].payload
           row == rows'[Key(w)]
           L == Len(messages)
<1>0. /\ step[w] \in {"existing", "insert", "overwrite"} /\ Key(w) \in Keys
      /\ s \in {"audit", "mark"}
      /\ step' = [step EXCEPT ![w] = s] /\ job' = [job EXCEPT ![w] = j]
      /\ j.msg = job[w].msg /\ j.payload = job[w].payload
      /\ UNCHANGED <<conf, messages>>
      /\ \A k \in Keys \ {Key(w)} : rows'[k] = rows[k]
      /\ row \in Row
      /\ Stored(w) = None => Dated(row.version, row.data) = Dated(p.version, p.data)
      /\ Stored(w) # None => Dated(row.version, row.data) =
           Resolve(Dated(Stored(w).version, Stored(w).data), Dated(p.version, p.data))
  BY DEF Takes
<1>1. messages \in Seq(Message) /\ row # None
  BY <1>0, NoneAssumption DEF Consistent, TypeOK
<1>2. /\ job[w].msg = L /\ messages # <<>>
      /\ messages[L] = [payload |-> p, processed |-> FALSE]
  BY <1>0, <1>1, HeededGives DEF Awaits
<1>3. s \notin {"idle", "message"} =>
        /\ j.msg = Len(messages') /\ messages' # <<>>
        /\ messages'[j.msg] = [payload |-> j.payload, processed |-> FALSE]
  BY <1>0, <1>2
<1>4. ASSUME NEW k \in Keys, NEW ids, HeedsFor(k, ids)
      PROVE  \E more : /\ Hears(more, messages', k) /\ Agrees(more, messages', rows'[k])
                       /\ s # "idle" /\ j.payload.key = k => Placed(s, j.msg, more)
  <2>1. CASE k # Key(w)
    <3>1. Hears(ids, messages', k) /\ Agrees(ids, messages', rows'[k])
      BY <1>0, <1>4, <2>1 DEF HeedsFor
    <3> QED
      BY <1>0, <2>1, <3>1 DEF Key
  <2>2. CASE k = Key(w)
    <3> DEFINE more == Append(ids, L)
               d    == Dated(p.version, p.data)
    <3>1. /\ Hears(ids, messages, k) /\ Agrees(ids, messages, rows[k])
          /\ \A n \in DOMAIN ids : ids[n] # L
      <4>1. Placed(step[w], job[w].msg, ids)
        BY <1>0, <1>4, <2>2 DEF HeedsFor
      <4> QED
        BY <1>0, <1>2, <1>4, <4>1 DEF HeedsFor, Placed
    <3>2. ids \in Seq(1..L)
      BY <3>1 DEF Hears, Ordered
    <3>3. messages[L].payload = p /\ p.key = k
      BY <1>2, <2>2 DEF Key
    <3>4. /\ Hears(more, messages, k) /\ d \in Datings
          /\ Said(more, messages) = Append(Said(ids, messages), d)
      <4>1. \A n \in 1..Len(ids) : ids[n] # L
        BY <3>1, <3>2
      <4> QED
        BY <1>1, <1>2, <3>1, <3>3, <4>1, HearsLatest
    <3>5. L \in 1..L /\ more # <<>> /\ more[Len(more)] = L /\ Len(more) \in DOMAIN more
      <4>1. L \in Nat /\ L > 0
        BY <1>1, <1>2
      <4> QED
        BY <3>2, <4>1
    <3>6. Said(ids, messages) \in Seq(Datings) /\ Len(Said(ids, messages)) = Len(ids)
      BY <1>1, <3>2, SaidTyped
    <3>7. ResolveMultiple(Said(more, messages)) = Dated(row.version, row.data)
      <4>1. CASE ids = <<>>
        <5>1. Stored(w) = None
          BY <2>2, <3>1, <4>1 DEF Agrees, Stored
        <5>2. Said(more, messages) = <<d>>
          <6>1. Said(ids, messages) = <<>>
            BY <3>6, <4>1
          <6> QED
            BY <3>4, <6>1
        <5> QED
          BY <1>0, <5>1, <5>2, ResolveOne
      <4>2. CASE ids # <<>>
        <5>1. /\ Stored(w) # None
              /\ ResolveMultiple(Said(ids, messages)) = Dated(Stored(w).version, Stored(w).data)
          BY <2>2, <3>1, <4>2 DEF Agrees, Stored
        <5>2. Said(ids, messages) # <<>>
          BY <3>2, <3>6, <4>2
        <5>3. ResolveMultiple(Said(more, messages))
                = Resolve(ResolveMultiple(Said(ids, messages)), d)
          BY <3>4, <3>6, <5>2, ResolveMore
        <5> QED
          BY <1>0, <5>1, <5>3
      <4> QED
        BY <4>1, <4>2
    <3>8. Agrees(more, messages, rows'[k])
      BY <1>0, <1>1, <2>2, <3>5, <3>7 DEF Agrees
    <3>9. Placed(s, j.msg, more)
      BY <1>0, <1>2, <3>5 DEF Placed
    <3> QED
      BY <1>0, <3>4, <3>8, <3>9
  <2> QED
    BY <2>1, <2>2
<1> QED
  BY <1>0, <1>1, <1>3, <1>4, HeedMoves

(* The announce handlers, by what they do to the rows and the messages.     *)
LEMMA HeedStored ==
  ASSUME Consistent, Consistent', Heeded, Serial, AnnounceOnly, node # "gone",
         NEW w \in Workers, w \in pool, StoreMessage(w), node' # "gone"
  PROVE  Heeded'
<1> DEFINE p == job[w].payload
           e == [payload |-> p, processed |-> FALSE]
           j == [job[w] EXCEPT !.msg = Len(messages) + 1]
           s == IF Key(w) = None THEN "mark" ELSE "existing"
<1>1. /\ step[w] = "message" /\ messages' = Append(messages, e)
      /\ job' = [job EXCEPT ![w].msg = Len(messages) + 1]
      /\ step' = [step EXCEPT ![w] = s]
      /\ UNCHANGED <<conf, rows>>
  BY DEF StoreMessage, Goto
<1>2. messages \in Seq(Message) /\ messages' \in Seq(Message)
  BY DEF Consistent, TypeOK
<1>3. p \in Payload /\ job[w] \in Job /\ job \in [Workers -> Job \cup {None}]
  BY <1>1, Busy
<1>4. e \in Message /\ ~e.processed
  BY <1>3 DEF Message
<1>5. /\ job' = [job EXCEPT ![w] = j] /\ j.payload = p /\ j.msg = Len(messages) + 1
  BY <1>1, <1>3 DEF Job
<1> HIDE DEF e, j
<1>6. /\ Len(messages') = Len(messages) + 1 /\ messages' # <<>>
      /\ messages'[Len(messages) + 1] = e
  BY <1>1, <1>2, <1>4
<1>7. ASSUME NEW k \in Keys, NEW ids, HeedsFor(k, ids)
      PROVE  /\ Hears(ids, messages', k) /\ Agrees(ids, messages', rows'[k])
             /\ s # "idle" /\ j.payload.key = k => Placed(s, j.msg, ids)
  <2>1. Hears(ids, messages, k) /\ Agrees(ids, messages, rows[k])
    BY <1>7 DEF HeedsFor
  <2>2. Hears(ids, messages', k) /\ Said(ids, messages') = Said(ids, messages)
    BY <1>1, <1>2, <1>4, <2>1, HearsOn
  <2>3. ids \in Seq(1..Len(messages))
    BY <2>1 DEF Hears, Ordered
  <2>4. \A n \in DOMAIN ids : ids[n] # Len(messages) + 1
    BY <1>2, <2>3
  <2>5. p.key = k => s = "existing"
    BY NoneAssumption DEF Key
  <2> QED
    BY <1>1, <1>5, <2>1, <2>2, <2>4, <2>5 DEF Agrees, Placed
<1> QED
  BY <1>1, <1>2, <1>5, <1>6, <1>7, HeedMoves DEF e

(* A row is compared: an announce that is not newer is heard at once. *)
LEMMA HeedRead ==
  ASSUME Consistent, Heeded, Serial, AnnounceOnly, node # "gone",
         NEW w \in Workers, w \in pool, ReadExisting(w)
  PROVE  Heeded'
<1> DEFINE p == job[w].payload
           status == IF Stored(w) = None THEN "created" ELSE "updated"
           j == [job[w] EXCEPT !.old = Stored(w), !.status = status]
           s == CASE Stored(w) = None -> "insert"
                  [] Stored(w) # None /\ Newer(p, Stored(w)) -> "overwrite"
                  [] OTHER -> "mark"
<1>1. /\ step[w] = "existing" /\ step' = [step EXCEPT ![w] = s]
      /\ job' = [job EXCEPT ![w].old = Stored(w), ![w].status = status]
      /\ UNCHANGED <<conf, rows, messages>>
  BY DEF ReadExisting, Goto
<1>2. /\ job[w] \in Job /\ job \in [Workers -> Job \cup {None}] /\ JobOK(w)
      /\ p \in Payload
  BY <1>1, Busy
<1>3. Key(w) \in Keys /\ Stored(w) \in Row \cup {None}
  BY <1>1, <1>2, Busy DEF JobOK
<1>4. job' = [job EXCEPT ![w] = j] /\ j.msg = job[w].msg /\ j.payload = p
  BY <1>1, <1>2 DEF Job
<1> HIDE DEF j
<1>5. CASE s # "mark"
  <2>1. s \in {"insert", "overwrite"}
    BY <1>5
  <2> QED
    BY <1>1, <1>4, <2>1, HeedKeeps, ZenonT(60)
<1>6. CASE s = "mark"
  <2>1. Stored(w) # None /\ ~Newer(p, Stored(w))
    BY <1>6
  <2>2. Stored(w) \in Row /\ rows'[Key(w)] = Stored(w)
    BY <1>1, <1>3, <2>1 DEF Stored
  <2>3. Dated(Stored(w).version, Stored(w).data) =
          Resolve(Dated(Stored(w).version, Stored(w).data), Dated(p.version, p.data))
    BY <1>2, <2>1, <2>2 DEF Resolve, Dated, Newer, Row, Payload
  <2>4. step' = [step EXCEPT ![w] = "mark"] /\ UNCHANGED <<conf, messages>>
    BY <1>1, <1>6
  <2>5. /\ rows'[Key(w)] \in Row /\ \A k \in Keys \ {Key(w)} : rows'[k] = rows[k]
        /\ Dated(rows'[Key(w)].version, rows'[Key(w)].data) =
             IF Stored(w) = None
             THEN Dated(job[w].payload.version, job[w].payload.data)
             ELSE Resolve(Dated(Stored(w).version, Stored(w).data),
                          Dated(job[w].payload.version, job[w].payload.data))
    BY <1>1, <2>1, <2>2, <2>3
  <2>6. Takes(w, "mark", j)
    BY <1>1, <1>3, <1>4, <2>4, <2>5 DEF Takes
  <2> QED
    BY <2>6, HeedsMore
<1> QED
  BY <1>5, <1>6

(* A row is inserted or overwritten. *)
LEMMA HeedWritten ==
  ASSUME Consistent, Heeded, Serial, AnnounceOnly, node # "gone",
         NEW w \in Workers, w \in pool, InsertRow(w) \/ Overwrite(w)
  PROVE  Heeded'
<1> DEFINE p == job[w].payload
<1>1. step[w] \in {"insert", "overwrite"} /\ UNCHANGED <<conf, messages>>
  BY DEF InsertRow, Overwrite, UpdateRow
<1>2. /\ job[w] \in Job /\ job \in [Workers -> Job \cup {None}] /\ JobOK(w)
      /\ p \in Payload /\ rows \in [Keys -> Row \cup {None}]
  BY <1>1, Busy DEF Consistent, TypeOK
<1>3. Key(w) \in Keys /\ Stored(w) \in Row \cup {None} /\ Stored(w) = rows[Key(w)]
  BY <1>1, <1>2, Busy DEF JobOK, Stored
<1>4. p.version \in Nat /\ p.data \in Data
  BY <1>2 DEF Payload
<1>5. CASE Finish(w) /\ UNCHANGED rows
  <2>1. step' = [step EXCEPT ![w] = "idle"] /\ job' = [job EXCEPT ![w] = None]
    BY <1>5 DEF Finish, Goto
  <2> QED
    BY <1>1, <1>5, <2>1, HeedKeeps
<1>6. CASE InsertRow(w) /\ Stored(w) = None
  <2> DEFINE row == [data |-> p.data, version |-> p.version, active |-> TRUE]
  <2>1. /\ rows' = [rows EXCEPT ![Key(w)] = row] /\ job' = job
        /\ step' = [step EXCEPT ![w] = "audit"] /\ step[w] = "insert"
    BY <1>6 DEF InsertRow, PutRow, Goto
  <2>2. row \in Row /\ row.version = p.version /\ row.data = p.data
    BY <1>4 DEF Row
  <2> HIDE DEF row
  <2>3. /\ rows'[Key(w)] = row /\ \A k \in Keys \ {Key(w)} : rows'[k] = rows[k]
        /\ job' = [job EXCEPT ![w] = job[w]]
    BY <1>2, <1>3, <2>1
  <2>4. /\ rows'[Key(w)] \in Row
        /\ Dated(rows'[Key(w)].version, rows'[Key(w)].data) =
             IF Stored(w) = None
             THEN Dated(job[w].payload.version, job[w].payload.data)
             ELSE Resolve(Dated(Stored(w).version, Stored(w).data),
                          Dated(job[w].payload.version, job[w].payload.data))
    BY <1>6, <2>2, <2>3
  <2>5. Takes(w, "audit", job[w])
    BY <1>1, <1>3, <2>1, <2>3, <2>4 DEF Takes
  <2> QED
    BY <2>5, HeedsMore
<1>7. CASE Overwrite(w) /\ Stored(w) # None
  <2> DEFINE row == [Stored(w) EXCEPT !.data = p.data, !.version = p.version]
  <2>1. /\ rows' = [rows EXCEPT ![Key(w)] = row] /\ job' = job
        /\ step' = [step EXCEPT ![w] = "audit"] /\ step[w] = "overwrite"
    BY <1>7 DEF Overwrite, UpdateRow, PutRow, Goto
  <2>2. Stored(w) \in Row /\ Newer(p, Stored(w))
    BY <1>2, <1>3, <1>7, <2>1 DEF JobOK
  <2>3. row \in Row /\ row.version = p.version /\ row.data = p.data
    BY <1>4, <2>2 DEF Row
  <2> HIDE DEF row
  <2>4. /\ rows'[Key(w)] = row /\ \A k \in Keys \ {Key(w)} : rows'[k] = rows[k]
        /\ job' = [job EXCEPT ![w] = job[w]]
    BY <1>2, <1>3, <2>1
  <2>5. Dated(row.version, row.data) =
          Resolve(Dated(Stored(w).version, Stored(w).data), Dated(p.version, p.data))
    BY <2>2, <2>3 DEF Resolve, Dated, Newer
  <2>6. /\ rows'[Key(w)] \in Row
        /\ Dated(rows'[Key(w)].version, rows'[Key(w)].data) =
             IF Stored(w) = None
             THEN Dated(job[w].payload.version, job[w].payload.data)
             ELSE Resolve(Dated(Stored(w).version, Stored(w).data),
                          Dated(job[w].payload.version, job[w].payload.data))
    BY <1>7, <2>3, <2>4, <2>5
  <2>7. Takes(w, "audit", job[w])
    BY <1>1, <1>3, <2>1, <2>4, <2>6 DEF Takes
  <2> QED
    BY <2>7, HeedsMore
<1> QED
  BY <1>5, <1>6, <1>7 DEF InsertRow, Overwrite, UpdateRow

(* The message is marked: it was heard. *)
LEMMA HeedMarked ==
  ASSUME Consistent, Heeded, Serial, AnnounceOnly, node # "gone",
         NEW w \in Workers, w \in pool, MarkProcessed(w)
  PROVE  Heeded'
<1> DEFINE L == Len(messages)
<1>1. /\ step[w] = "mark" /\ UNCHANGED <<conf, rows>>
      /\ messages' = IF job[w].msg \in DOMAIN messages
                     THEN [messages EXCEPT ![job[w].msg].processed = TRUE]
                     ELSE messages
      /\ step' = [step EXCEPT ![w] = "idle"] /\ job' = [job EXCEPT ![w] = None]
  BY DEF MarkProcessed, Finish, Goto
<1>2. messages \in Seq(Message)
  BY DEF Consistent, TypeOK
<1>3. /\ job[w].msg = L /\ messages # <<>>
      /\ messages[L] = [payload |-> job[w].payload, processed |-> FALSE]
  BY <1>1, <1>2, HeededGives DEF Awaits
<1>4. L \in 1..L /\ L \in DOMAIN messages
  BY <1>2, <1>3
<1>5. messages' = [messages EXCEPT ![L].processed = TRUE]
  BY <1>1, <1>3, <1>4
<1>6. messages' \in Seq(Message)
  <2> DEFINE e == [messages[L] EXCEPT !.processed = TRUE]
  <2>1. messages[L] \in Message
    BY <1>2, <1>4
  <2>2. e \in Message
    BY <2>1 DEF Message
  <2>3. messages' = [messages EXCEPT ![L] = e]
    BY <1>5
  <2> HIDE DEF e
  <2> QED
    BY <1>2, <1>4, <2>2, <2>3
<1>7. ASSUME NEW k \in Keys, NEW ids, HeedsFor(k, ids)
      PROVE  Hears(ids, messages', k) /\ Agrees(ids, messages', rows'[k])
  <2>1. Hears(ids, messages, k) /\ Agrees(ids, messages, rows[k])
    BY <1>7 DEF HeedsFor
  <2>2. messages[L].payload.key = k => \E n \in 1..Len(ids) : ids[n] = L
    <3>1. messages[L].payload.key = Key(w)
      BY <1>3 DEF Key
    <3>2. Key(w) = k => Placed(step[w], job[w].msg, ids)
      BY <1>1, <1>7 DEF HeedsFor
    <3>3. DOMAIN ids = 1..Len(ids)
      BY <2>1 DEF Hears, Ordered
    <3> QED
      BY <1>1, <1>3, <3>1, <3>2, <3>3 DEF Placed
  <2>3. Hears(ids, messages', k) /\ Said(ids, messages') = Said(ids, messages)
    BY <1>2, <1>4, <1>5, <2>1, <2>2, HearsMarked
  <2> QED
    BY <1>1, <2>1, <2>3 DEF Agrees
<1> QED
  BY <1>1, <1>6, <1>7, HeedMoves

(* A request of a lone worker begins or ends, or goes on to its next entry  *)
(* of the log.                                                             *)
LEMMA HeedOthers ==
  ASSUME Consistent, Heeded, Serial, AnnounceOnly, node # "gone",
         NEW w \in Workers, w \in pool,
         Begin(w) \/ AuditRow(w) \/ LogConflict(w) \/ Crash(w)
  PROVE  Heeded'
<1>1. CASE Begin(w)
  <2>1. ASSUME NEW kind, NEW p, NEW first, Accept(w, kind, p, first), first = "message"
        PROVE  Heeded'
    <3> DEFINE j == [kind |-> kind, payload |-> p, old |-> None, msg |-> 0,
                     status |-> "created"]
    <3>1. /\ step' = [step EXCEPT ![w] = "message"] /\ job' = [job EXCEPT ![w] = j]
          /\ UNCHANGED conf /\ UNCHANGED <<rows, messages>>
      BY <2>1 DEF Accept, Goto
    <3> HIDE DEF j
    <3> QED
      BY <3>1, HeedKeeps
  <2>2. ASSUME NEW k \in Keys, NEW d \in Edits,
               \/ BeginCreate(w, k, d) \/ BeginUpdate(w, k, d)
               \/ BeginBare(w, "touch", k, d) \/ BeginBare(w, "delete", k, d)
        PROVE  FALSE
    BY <2>2 DEF BeginCreate, BeginUpdate, BeginBare, Accept, AnnounceOnly
  <2>3. ASSUME NEW p \in Payloads, BeginAnnounce(w, p) \/ BeginPush(w, p)
        PROVE  Heeded'
    <3>1. ~BeginPush(w, p)
      BY DEF BeginPush, Accept, AnnounceOnly
    <3>2. Accept(w, "announce", p, "message")
      BY <2>3, <3>1 DEF BeginAnnounce
    <3> QED
      BY <2>1, <3>2
  <2> QED
    BY <1>1, <2>2, <2>3 DEF Begin
<1>2. CASE Crash(w) \/ (LogConflict(w) /\ Finish(w))
  <2>1. /\ step' = [step EXCEPT ![w] = "idle"] /\ job' = [job EXCEPT ![w] = None]
        /\ UNCHANGED conf /\ UNCHANGED <<rows, messages>>
    BY <1>2 DEF Crash, LogConflict, Finish, Goto
  <2> QED
    BY <2>1, HeedKeeps
<1>3. CASE AuditRow(w) \/ (LogConflict(w) /\ ~Finish(w))
  <2>1. step[w] \in {"audit", "conflict"} /\ UNCHANGED conf /\ UNCHANGED <<rows, messages>>
    BY <1>3 DEF AuditRow, LogConflict
  <2>2. job[w].kind = "announce" /\ job \in [Workers -> Job \cup {None}]
    BY <2>1, Busy DEF JobOK, AnnounceOnly
  <2> DEFINE s == IF step[w] = "audit" /\ job[w].status = "updated" THEN "conflict" ELSE "mark"
  <2>3. step' = [step EXCEPT ![w] = s] /\ job' = job
    BY <1>3, <2>1, <2>2 DEF AuditRow, LogConflict, Goto
  <2>4. job' = [job EXCEPT ![w] = job[w]]
    BY <2>2, <2>3
  <2>5. {step[w], s} \subseteq {"audit", "conflict", "mark"}
    BY <2>1
  <2> HIDE DEF s
  <2> QED
    BY <2>1, <2>3, <2>4, <2>5, HeedKeeps
<1> QED
  BY <1>1, <1>2, <1>3

(* Nothing was heard at the start. *)
LEMMA InitHeeded == Init => Heeded
<1> SUFFICES ASSUME Init PROVE Heeded
  OBVIOUS
<1>1. Consistent
  BY InitConsistent
<1>2. messages = <<>> /\ \A w \in pool : step[w] = "idle"
  BY <1>1 DEF Init, Consistent, TypeOK
<1>3. ASSUME NEW k \in Keys
      PROVE  <<>> \in Hearings(k) /\ Resolved(k, <<>>)
  <2>1. Hears(<<>>, messages, k)
    BY <1>2 DEF Hears, Ordered
  <2> QED
    BY <1>1, <2>1, HearingsAre DEF Init, Resolved, Consistent, TypeOK
<1> QED
  BY <1>2, <1>3 DEF Heeded

(* Every step keeps Heeded. *)
LEMMA HeededStep == Consistent /\ Consistent' /\ Heeded /\ [Next]_vars => Heeded'
<1> SUFFICES ASSUME Consistent, Consistent', Heeded, [Next]_vars,
                    Serial', AnnounceOnly', node' # "gone"
             PROVE  Heeded'
  BY DEF Heeded
<1>1. UNCHANGED conf
  <2>1. ASSUME NEW w \in Workers, Begin(w)
        PROVE  UNCHANGED conf
    BY <2>1 DEF Begin, BeginCreate, BeginUpdate, BeginBare, BeginAnnounce, BeginPush, Accept
  <2>2. ASSUME NEW w \in Workers, Serve(w)
        PROVE  UNCHANGED conf
    BY <2>2 DEF Serve, InsertRow, ReadActive, SaveData, SaveDeleted, StoreMessage,
       ReadExisting, Overwrite, UpdateRow, AuditRow, LogConflict, MarkProcessed, PushRow
  <2>3. CASE UNCHANGED vars
    BY <2>3 DEF vars, conf
  <2> QED
    BY <2>1, <2>2, <2>3 DEF Next, Crash, SetNodeActive, DeleteNode
<1>2. Serial /\ AnnounceOnly
  BY <1>1 DEF Serial, AnnounceOnly, conf
<1>3. CASE UNCHANGED <<pool, uses, rows, messages, step, job>> /\ node # "gone"
  <2>1. messages \in Seq(Message) /\ messages' \in Seq(Message)
    BY DEF Consistent, TypeOK
  <2>2. (\A w \in pool : Awaits(w)) /\ \A k \in Keys : \E ids : HeedsFor(k, ids)
    BY <1>2, <1>3, <2>1, HeededGives
  <2>3. \A w \in pool' : Awaits(w)'
    BY <1>3, <2>2 DEF Awaits
  <2>4. ASSUME NEW k \in Keys
        PROVE  \E ids : HeedsFor(k, ids)'
    <3>1. PICK ids : HeedsFor(k, ids)
      BY <2>2
    <3>2. HeedsFor(k, ids)'
      BY <1>3, <3>1 DEF HeedsFor, Key
    <3> QED
      BY <3>2
  <2> QED
    BY <2>1, <2>3, <2>4, HeededBy
<1>4. CASE \E w \in Workers : Begin(w) \/ Serve(w) \/ Crash(w)
  <2>1. PICK w \in Workers : Begin(w) \/ Serve(w) \/ Crash(w)
    BY <1>4
  <2>2. w \in pool
    <3>1. CASE Begin(w)
      BY <3>1 DEF Begin, BeginCreate, BeginUpdate, BeginBare, BeginAnnounce, BeginPush, Accept
    <3>2. CASE ~Begin(w)
      <4>1. step[w] # "idle"
        BY <2>1, <3>2 DEF Serve, InsertRow, ReadActive, SaveData, SaveDeleted, StoreMessage,
           ReadExisting, Overwrite, UpdateRow, AuditRow, LogConflict, MarkProcessed, PushRow,
           Crash
      <4> QED
        BY <4>1, Busy
    <3> QED
      BY <3>1, <3>2
  <2>3. node # "gone"
    <3>1. node' = node
      <4>1. CASE Begin(w)
        BY <4>1 DEF Begin, BeginCreate, BeginUpdate, BeginBare, BeginAnnounce, BeginPush, Accept
      <4>2. CASE Serve(w)
        BY <4>2 DEF Serve, InsertRow, ReadActive, SaveData, SaveDeleted, StoreMessage,
           ReadExisting, Overwrite, UpdateRow, AuditRow, LogConflict, MarkProcessed, PushRow
      <4>3. CASE Crash(w)
        BY <4>3 DEF Crash
      <4> QED
        BY <2>1, <4>1, <4>2, <4>3
    <3> QED
      BY <3>1
  <2>4. ~(ReadActive(w) \/ SaveData(w) \/ SaveDeleted(w) \/ PushRow(w))
    <3> SUFFICES ASSUME step[w] \in {"read", "saveData", "saveDeleted", "push"}
                 PROVE  FALSE
      BY DEF ReadActive, SaveData, SaveDeleted, PushRow, UpdateRow
    <3>1. job[w].kind \in KindsAt(step[w]) /\ job[w].kind = "announce"
      BY <1>2, Busy DEF JobOK, AnnounceOnly
    <3> QED
      BY <3>1 DEF KindsAt
  <2>5. CASE Begin(w) \/ AuditRow(w) \/ LogConflict(w) \/ Crash(w)
    BY <1>2, <2>2, <2>3, <2>5, HeedOthers
  <2>6. CASE StoreMessage(w)
    BY <1>2, <2>2, <2>3, <2>6, HeedStored
  <2>7. CASE ReadExisting(w)
    BY <1>2, <2>2, <2>3, <2>7, HeedRead
  <2>8. CASE InsertRow(w) \/ Overwrite(w)
    BY <1>2, <2>2, <2>3, <2>8, HeedWritten
  <2>9. CASE MarkProcessed(w)
    BY <1>2, <2>2, <2>3, <2>9, HeedMarked
  <2> QED
    BY <2>1, <2>4, <2>5, <2>6, <2>7, <2>8, <2>9 DEF Serve
<1>5. CASE SetNodeActive
  BY <1>3, <1>5 DEF SetNodeActive, conf
<1>6. ~DeleteNode
  BY DEF DeleteNode
<1>7. CASE UNCHANGED vars
  BY <1>3, <1>7 DEF vars
<1> QED
  BY <1>4, <1>5, <1>6, <1>7 DEF Next

(* Without the node there are no messages and no rows. *)
LEMMA HeededAgrees == Consistent /\ Heeded => AgreesWithResolve
<1> SUFFICES ASSUME Consistent, Heeded, Serial, AnnounceOnly, NEW k \in Keys
             PROVE  \E ids \in Hearings(k) : Resolved(k, ids)
  BY DEF AgreesWithResolve
<1>1. CASE node # "gone"
  BY <1>1 DEF Heeded
<1>2. CASE node = "gone"
  <2>1. messages = <<>> /\ rows[k] = None
    BY <1>2 DEF Consistent, TypeOK
  <2>2. Hears(<<>>, messages, k)
    BY <2>1 DEF Hears, Ordered
  <2>3. <<>> \in Hearings(k)
    BY <2>2, HearingsAre DEF Consistent, TypeOK
  <2> QED
    BY <2>1, <2>3 DEF Resolved
<1> QED
  BY <1>1, <1>2

------------------------------------------------------------------------------
(* The inductive invariant: rows are typed, belong to a node that exists    *)
(* and are whole, and every handler is about to write something that was    *)
(* asked for, or that was whole when it was read.                           *)
THEOREM Invariant == Spec => []Consistent
<1> QED
  BY InitConsistent, ConsistentStep, PTL DEF Spec

(* An entry that delete_federated_data deactivated stays so, whatever       *)
(* create, PUT, announce and push of however many workers do meanwhile.     *)
THEOREM DeletedStaysDeletedHolds == Spec => DeletedStaysDeleted
<1> DEFINE Kept == \A k \in Keys : rows[k] # None /\ ~rows[k].active
                     => rows'[k] = None \/ ~rows'[k].active
<1>1. Consistent /\ [Next]_vars => [Kept]_vars
  BY StaysDeleted
<1> QED
  BY <1>1, Invariant, PTL DEF Spec, DeletedStaysDeleted

(* However handlers interleave, a version goes back only by a push or by a  *)
(* handler that was overtaken between its read and its write.               *)
THEOREM OnlyOvertakenGoesBackHolds == Spec => OnlyOvertakenGoesBack
<1>1. Consistent /\ [Next]_vars
        => [\A k \in Keys :
              rows[k] # None /\ rows'[k] # None /\ rows'[k].version < rows[k].version
                => \E w \in Workers :
                     /\ step[w] # "idle" /\ Key(w) = k
                     /\ \/ step[w] = "push"
                        \/ step[w] \in {"overwrite", "saveDeleted"}
                           /\ job[w].old # rows[k]]_vars
  BY GoesBack
<1> QED
  BY <1>1, Invariant, PTL DEF Spec, OnlyOvertakenGoesBack

(* With one worker and announces only, process_announce implements a        *)
(* register of the highest version: late and repeated announces, crashes    *)
(* between its statements and the deletion of the node included.            *)
THEOREM ImplementsRegister == Spec => RefinesRegister
<1> DEFINE Step == Serial /\ AnnounceOnly => [Register!Next]_(Register!vars)
<1>1. Consistent /\ [Next]_vars => [Step]_vars
  BY RegisterStep
<1> QED
  BY <1>1, Invariant, PTL DEF Spec, RefinesRegister

(* Whatever versions concurrent handlers write and log, the log names the    *)
(* one that a row carries, or the handler that will log just that one is    *)
(* about to, unless a worker was killed.                                    *)
THEOREM RowIsAuditedAlways == Spec => []RowIsAudited
<1>1. Init => RowIsAudited
  BY DEF Init, RowIsAudited
<1> QED
  BY <1>1, AuditedStep, Invariant, PTL DEF Spec

(* The Merkle root that anchors the messages of a node tells every change of *)
(* one of them, for lists of any length.                                    *)
THEOREM RootBindsMessagesAlways == Spec => []RootBindsMessages
<1>1. Consistent => RootBindsMessages
  BY RootBinds DEF Consistent
<1> QED
  BY <1>1, Invariant, PTL

(* One worker that takes announces, and is killed whenever it may be, leaves *)
(* in each row what ConflictResolution makes of the announces that were     *)
(* processed, and perhaps of some that a killed handler left behind.        *)
THEOREM AgreesWithResolveAlways == Spec => []AgreesWithResolve
<1>1. Spec => []Heeded
  BY InitHeeded, HeededStep, Invariant, PTL DEF Spec
<1> QED
  BY <1>1, HeededAgrees, Invariant, PTL
=============================================================================
