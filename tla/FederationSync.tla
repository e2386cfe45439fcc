--------------------------- MODULE FederationSync ---------------------------
(***************************************************************************)
(* The FederatedData entries of ONE FederatedNode and every HTTP handler   *)
(* of the federation API that writes them:                                 *)
(*                                                                         *)
(*   create    federated_data_api POST             -> create_federated_data*)
(*   update    federated_data_detail_api PUT       -> update_federated_data*)
(*   touch     ... PUT of a body without "data"                            *)
(*   delete    federated_data_detail_api DELETE    -> delete_federated_data*)
(*   announce  FederatedNodeViewSet.announce       -> process_announce     *)
(*   push      DataSyncView.post                   -> update_or_create     *)
(*                                                                         *)
(* Every ORM statement commits by itself, so handlers of different worker  *)
(* processes interleave between statements; only update_or_create runs in  *)
(* a transaction of its own.  Peers send an announce or a push as often    *)
(* and in whatever order they like: any request may arrive at any time.    *)
(* The rows that poll signals write (FederatedLedger) are other entries.   *)
(***************************************************************************)
EXTENDS Integers, Sequences, FiniteSets, ConflictResolution

CONSTANTS
  Keys,         \* (data_type, data_id) pairs
  Data,         \* JSON documents
  Payloads,     \* what peers announce and push
  Edits,        \* documents that are POSTed and PUT
  Workers,      \* worker processes the operator may start
  MaxRequests,  \* bound: requests served
  None          \* no row, and a payload without data_type or data_id

Handlers == {"create", "update", "touch", "delete", "announce", "push"}

(* FederatedData.version is a PositiveIntegerField with the default 1. *)
Row     == [data : Data, version : Nat, active : BOOLEAN]
Payload == [key : Keys \cup {None}, data : Data, version : Nat]
Message == [payload : Payload, processed : BOOLEAN]
Entry   == [key : Keys, version : Nat,
            status : {"created", "updated", "conflict"}]

(* The two columns of a key have a bounded length. *)
ASSUME KeysAssumption == IsFiniteSet(Keys)
ASSUME PayloadAssumption == Payloads \subseteq Payload /\ Edits \subseteq Data
ASSUME BoundAssumption == MaxRequests \in Nat
ASSUME NoneAssumption == None \notin Keys \cup Row

Steps == {"idle", "insert", "read", "saveData", "saveDeleted", "message",
          "existing", "overwrite", "audit", "conflict", "mark", "push"}

VARIABLES
  pool,      \* the worker processes that run: GUNICORN_WORKERS
  uses,      \* the handlers that the peers of this node use
  node,      \* the FederatedNode row: "active", "inactive" or "gone"
  rows,      \* FederatedData by key
  messages,  \* SyncMessage rows in order of their primary key
  log,       \* DataSyncLog
  step, job, \* the next statement of each worker, and its locals
  requests,  \* how many requests were let in
  written,   \* history: what clients asked to store, or a PUT to keep
  killed     \* history: a worker was killed inside a request

vars == <<pool, uses, node, rows, messages, log, step, job, requests,
          written, killed>>
conf == <<pool, uses>>

Job == [kind : Handlers, payload : Payload, old : Row \cup {None}, msg : Nat,
        status : {"created", "updated"}]

(* Also: nothing outlives the node it belongs to. *)
TypeOK ==
  /\ pool \subseteq Workers
  /\ uses \subseteq Handlers
  /\ node \in {"active", "inactive", "gone"}
  /\ rows \in [Keys -> Row \cup {None}]
  /\ messages \in Seq(Message)
  /\ log \subseteq Entry
  /\ step \in [Workers -> Steps]
  /\ job \in [Workers -> Job \cup {None}]
  /\ requests \in Nat
  /\ written \subseteq [key : Keys, data : Data, version : Nat, edit : BOOLEAN]
  /\ killed \in BOOLEAN
  /\ node = "gone" => messages = <<>> /\ \A k \in Keys : rows[k] = None

Init ==
  /\ pool \in SUBSET Workers \ {{}}
  /\ uses \in {Handlers, {"announce"}}
  /\ node = "active"
  /\ rows = [k \in Keys |-> None]
  /\ messages = <<>>
  /\ log = {}
  /\ step = [w \in Workers |-> "idle"]
  /\ job = [w \in Workers |-> None]
  /\ requests = 0
  /\ written = {}
  /\ killed = FALSE

------------------------------------------------------------------------------
Goto(w, s) == step' = [step EXCEPT ![w] = s]

Finish(w) ==
  /\ Goto(w, "idle")
  /\ job' = [job EXCEPT ![w] = None]

Key(w)     == job[w].payload.key
Stored(w)  == rows[Key(w)]
PutRow(w, row) == rows' = [rows EXCEPT ![Key(w)] = row]

(* What a request asks to be stored is remembered for PairsWhole. *)
Remember(p, edit) ==
  written' = written \cup
    {[key |-> p.key, data |-> p.data, version |-> p.version, edit |-> edit]}

(* A request reaches a free worker; the node it names was found, and was    *)
(* active wherever the handler asks for that.                              *)
Accept(w, kind, p, first) ==
  /\ w \in pool /\ kind \in uses
  /\ step[w] = "idle"
  /\ requests < MaxRequests
  /\ requests' = requests + 1
  /\ job' = [job EXCEPT ![w] = [kind |-> kind, payload |-> p, old |-> None,
                                msg |-> 0, status |-> "created"]]
  /\ Goto(w, first)
  /\ UNCHANGED <<conf, node, rows, messages, log, killed>>

(* FederatedNode.objects.get(name, is_active=True); create leaves the       *)
(* version to its default.                                                 *)
BeginCreate(w, k, d) ==
  LET p == [key |-> k, data |-> d, version |-> 1] IN
  /\ node = "active"
  /\ Accept(w, "create", p, "insert")
  /\ Remember(p, FALSE)

BeginUpdate(w, k, d) ==
  LET p == [key |-> k, data |-> d, version |-> 1] IN
  /\ node = "active"
  /\ Accept(w, "update", p, "read")
  /\ Remember(p, TRUE)

(* A DELETE carries no document, nor does a PUT whose body has no "data":   *)
(* that of their payload is not used.                                      *)
BeginBare(w, kind, k, d) ==
  /\ node = "active"
  /\ Accept(w, kind, [key |-> k, data |-> d, version |-> 1], "read")
  /\ UNCHANGED written

(* The view set looks the node up whether it is active or not. *)
BeginAnnounce(w, p) ==
  /\ node # "gone"
  /\ Accept(w, "announce", p, "message")
  /\ IF p.key = None THEN UNCHANGED written ELSE Remember(p, FALSE)

BeginPush(w, p) ==
  /\ node = "active"
  /\ p.key # None
  /\ Accept(w, "push", p, "push")
  /\ Remember(p, FALSE)

------------------------------------------------------------------------------
(* An UPDATE of the row by its primary key; it fails if the node, and its   *)
(* rows with it, were deleted meanwhile.                                   *)
UpdateRow(w, s, row) ==
  /\ step[w] = s
  /\ IF Stored(w) # None
     THEN PutRow(w, row) /\ Goto(w, "audit") /\ UNCHANGED job
     ELSE Finish(w) /\ UNCHANGED rows
  /\ UNCHANGED <<conf, node, messages, log, requests, written, killed>>

(* objects.create in create_federated_data and in process_announce.  The    *)
(* unique constraint or the foreign key may refuse it: 500, and an          *)
(* announced message stays unprocessed.                                    *)
InsertRow(w) ==
  /\ step[w] = "insert"
  /\ IF Stored(w) = None /\ node # "gone"
     THEN /\ PutRow(w, [data |-> job[w].payload.data,
                        version |-> job[w].payload.version, active |-> TRUE])
          /\ Goto(w, "audit")
          /\ UNCHANGED job
     ELSE Finish(w) /\ UNCHANGED rows
  /\ UNCHANGED <<conf, node, messages, log, requests, written, killed>>

(* FederatedData.objects.get(..., is_active=True); 404 if there is none.    *)
(* request_data.get("data", data.data): a PUT without a document takes the  *)
(* one that it has read, and writes it back whatever comes in between.      *)
ReadActive(w) ==
  /\ step[w] = "read"
  /\ IF Stored(w) # None /\ Stored(w).active
     THEN LET row  == Stored(w)
              p    == [key |-> Key(w), version |-> row.version,
                       data |-> IF job[w].kind = "touch" THEN row.data
                                ELSE job[w].payload.data]
          IN  /\ job' = [job EXCEPT ![w].old = row, ![w].status = "updated",
                                    ![w].payload = p]
              /\ Goto(w, IF job[w].kind = "delete" THEN "saveDeleted" ELSE "saveData")
              /\ IF job[w].kind = "touch" THEN Remember(p, TRUE)
                 ELSE UNCHANGED written
     ELSE Finish(w) /\ UNCHANGED written
  /\ UNCHANGED <<conf, node, rows, messages, log, requests, killed>>

(* save() of the whole row that was read. *)
SaveData_bug(w) ==
  UpdateRow(w, "saveData", [job[w].old EXCEPT !.data = job[w].payload.data])

(* save(update_fields=["data"]): no other column. *)
SaveData(w) ==
  UpdateRow(w, "saveData", [Stored(w) EXCEPT !.data = job[w].payload.data])

(* delete_federated_data saves the whole row it read, with is_active False. *)
(* If the row is gone, save() falls back to an INSERT, which the foreign    *)
(* key to the deleted node refuses.                                        *)
SaveDeleted(w) ==
  UpdateRow(w, "saveDeleted", [job[w].old EXCEPT !.active = FALSE])

(* The message is stored as processed. *)
StoreMessage_bug(w) ==
  /\ step[w] = "message"
  /\ IF node = "gone"
     THEN Finish(w) /\ UNCHANGED messages
     ELSE /\ messages' = Append(messages, [payload |-> job[w].payload,
                                           processed |-> TRUE])
          /\ job' = [job EXCEPT ![w].msg = Len(messages) + 1]
          /\ Goto(w, IF Key(w) = None THEN "mark" ELSE "existing")
  /\ UNCHANGED <<conf, node, rows, log, requests, written, killed>>

(* SyncMessage.objects.create; a payload without data_type or data_id is    *)
(* marked processed at once.                                               *)
StoreMessage(w) ==
  /\ step[w] = "message"
  /\ IF node = "gone"
     THEN Finish(w) /\ UNCHANGED messages
     ELSE /\ messages' = Append(messages, [payload |-> job[w].payload,
                                           processed |-> FALSE])
          /\ job' = [job EXCEPT ![w].msg = Len(messages) + 1]
          /\ Goto(w, IF Key(w) = None THEN "mark" ELSE "existing")
  /\ UNCHANGED <<conf, node, rows, log, requests, written, killed>>

(* An announce of the version that is stored replaces it. *)
Newer_bug(p, row) == p.version >= row.version

Newer(p, row) == p.version > row.version

(* The versions are not compared. *)
ReadExisting_bug(w) ==
  /\ step[w] = "existing"
  /\ job' = [job EXCEPT ![w].old = Stored(w),
               ![w].status = IF Stored(w) = None THEN "created" ELSE "updated"]
  /\ Goto(w, IF Stored(w) = None THEN "insert" ELSE "overwrite")
  /\ UNCHANGED <<conf, node, rows, messages, log, requests, written, killed>>

(* FederatedData.objects.filter(...).first(), active or not. *)
ReadExisting(w) ==
  /\ step[w] = "existing"
  /\ job' = [job EXCEPT ![w].old = Stored(w),
               ![w].status = IF Stored(w) = None THEN "created" ELSE "updated"]
  /\ Goto(w, CASE Stored(w) = None -> "insert"
               [] Stored(w) # None /\ Newer(job[w].payload, Stored(w)) -> "overwrite"
               [] OTHER -> "mark")
  /\ UNCHANGED <<conf, node, rows, messages, log, requests, written, killed>>

(* update_fields without the data. *)
Overwrite_bug(w) ==
  UpdateRow(w, "overwrite", [Stored(w) EXCEPT !.version = job[w].payload.version])

(* existing.save(update_fields=["data", "version"]) *)
Overwrite(w) ==
  UpdateRow(w, "overwrite", [Stored(w) EXCEPT !.data = job[w].payload.data,
                                              !.version = job[w].payload.version])

(* The entry names the version that was read, not the one that was saved. *)
Logged_bug(w, status) ==
  log' = log \cup {[key |-> Key(w), status |-> status, version |->
    IF job[w].old = None THEN job[w].payload.version ELSE job[w].old.version]}

Logged(w, status) ==
  log' = log \cup {[key |-> Key(w), version |-> job[w].payload.version,
                    status |-> status]}

(* post_save of FederatedData: log_federated_data_on_save names the version *)
(* of the instance that was saved, which need not be the one in the table.  *)
AuditRow(w) ==
  /\ step[w] = "audit"
  /\ Logged(w, job[w].status)
  /\ IF job[w].kind = "announce"
     THEN /\ Goto(w, IF job[w].status = "updated" THEN "conflict" ELSE "mark")
          /\ UNCHANGED job
     ELSE Finish(w)
  /\ UNCHANGED <<conf, node, rows, messages, requests, written, killed>>

(* DataSyncLog.objects.create(status="conflict") refers to the sender. *)
LogConflict(w) ==
  /\ step[w] = "conflict"
  /\ IF node = "gone"
     THEN Finish(w) /\ UNCHANGED log
     ELSE Logged(w, "conflict") /\ Goto(w, "mark") /\ UNCHANGED job
  /\ UNCHANGED <<conf, node, rows, messages, requests, written, killed>>

(* message.is_processed = True, unless the message was deleted with its node. *)
MarkProcessed(w) ==
  /\ step[w] = "mark"
  /\ messages' = IF job[w].msg \in DOMAIN messages
                 THEN [messages EXCEPT ![job[w].msg].processed = TRUE]
                 ELSE messages
  /\ Finish(w)
  /\ UNCHANGED <<conf, node, rows, log, requests, written, killed>>

(* update_or_create: one transaction that locks the row, writes data and    *)
(* version whatever they were, and the audit entry.                        *)
PushRow(w) ==
  /\ step[w] = "push"
  /\ IF node = "gone"
     THEN UNCHANGED <<rows, log>>
     ELSE /\ PutRow(w, [data |-> job[w].payload.data,
                        version |-> job[w].payload.version,
                        active |-> Stored(w) = None \/ Stored(w).active])
          /\ Logged(w, IF Stored(w) = None THEN "created" ELSE "updated")
  /\ Finish(w)
  /\ UNCHANGED <<conf, node, messages, requests, written, killed>>

------------------------------------------------------------------------------
(* FederatedNodeViewSet.partial_update: an operator changes is_active. *)
SetNodeActive ==
  /\ node # "gone"
  /\ node' = IF node = "active" THEN "inactive" ELSE "active"
  /\ UNCHANGED <<conf, rows, messages, log, step, job, requests, written, killed>>

(* FederatedNodeViewSet.destroy cascades to the rows, the messages and the  *)
(* conflict entries; a node created later has another primary key.         *)
DeleteNode ==
  /\ node' = "gone"
  /\ rows' = [k \in Keys |-> None]
  /\ messages' = <<>>
  /\ log' = {e \in log : e.status # "conflict"}
  /\ UNCHANGED <<conf, step, job, requests, written, killed>>

(* gunicorn kills a worker: its locals are gone, committed statements stay. *)
Crash(w) ==
  /\ step[w] # "idle"
  /\ killed' = TRUE
  /\ Finish(w)
  /\ UNCHANGED <<conf, node, rows, messages, log, requests, written>>

Begin(w) ==
  \/ \E k \in Keys, d \in Edits :
       \/ BeginCreate(w, k, d) \/ BeginUpdate(w, k, d)
       \/ BeginBare(w, "touch", k, d) \/ BeginBare(w, "delete", k, d)
  \/ \E p \in Payloads : BeginAnnounce(w, p) \/ BeginPush(w, p)

Serve(w) ==
  \/ InsertRow(w) \/ ReadActive(w) \/ SaveData(w) \/ SaveDeleted(w)
  \/ StoreMessage(w) \/ ReadExisting(w) \/ Overwrite(w)
  \/ AuditRow(w) \/ LogConflict(w) \/ MarkProcessed(w) \/ PushRow(w)

Next ==
  \/ \E w \in Workers : Begin(w) \/ Serve(w) \/ Crash(w)
  \/ SetNodeActive
  \/ DeleteNode

Spec == Init /\ [][Next]_vars

------------------------------------------------------------------------------
(* A request handled by one process alone meets no other one. *)
Serial       == \A v, w \in pool : v = w
AnnounceOnly == uses = {"announce"}

(* An entry that was deleted stays deleted: no create, PUT, announce or     *)
(* push, however they interleave, makes it visible again.                   *)
DeletedStaysDeleted ==
  [][\A k \in Keys : rows[k] # None /\ ~rows[k].active
        => rows'[k] = None \/ ~rows'[k].active]_vars

(* The version of a row goes back only by a push, which compares nothing,   *)
(* or by a handler that another one has overtaken since it read the row.    *)
OnlyOvertakenGoesBack ==
  [][\A k \in Keys :
       rows[k] # None /\ rows'[k] # None /\ rows'[k].version < rows[k].version
         => \E w \in Workers :
              /\ step[w] # "idle" /\ Key(w) = k
              /\ \/ step[w] = "push"
                 \/ step[w] \in {"overwrite", "saveDeleted"} /\ job[w].old # rows[k]
    ]_vars

(* The document and the version of a row belong together, one request sent  *)
(* both: unless a PUT has written the document, its own or the one it had   *)
(* read before, because that leaves the version which the row has by now.   *)
Whole(k, row) ==
  \E r \in written : /\ r.key = k /\ r.data = row.data
                     /\ r.edit \/ r.version = row.version

Edited(k, data) == \E r \in written : r.key = k /\ r.data = data /\ r.edit

PairsWhole == \A k \in Keys : rows[k] # None => Whole(k, rows[k])

(* The locals of a handler: what it is about to store was asked for, and    *)
(* what it is about to write back was whole when it was read.  A lone       *)
(* worker overwrites only an older version.                                *)
KindsAt(s) ==
  CASE s = "insert" -> {"create", "announce"}
    [] s = "read" -> {"update", "touch", "delete"}
    [] s = "saveData" -> {"update", "touch"}
    [] s = "saveDeleted" -> {"delete"}
    [] s = "push" -> {"push"}
    [] s = "audit" -> Handlers
    [] OTHER -> {"announce"}

JobOK(w) ==
  LET j == job[w] IN
  step[w] # "idle" =>
    /\ w \in pool /\ j \in Job
    /\ j.kind \in uses \cap KindsAt(step[w])
    /\ step[w] \notin {"message", "mark"} => Key(w) \in Keys
    /\ j.kind = "announce" => j.payload \in Payloads
    /\ j.kind = "update" \/ step[w] = "saveData" => Edited(Key(w), j.payload.data)
    /\ j.kind \in {"create", "announce", "push"} /\ Key(w) # None
         => Whole(Key(w), j.payload)
    /\ step[w] = "saveDeleted" =>
         j.old \in Row /\ j.old.version = j.payload.version /\ Whole(Key(w), j.old)
    /\ step[w] = "overwrite" => j.old \in Row /\ Newer(j.payload, j.old)
    /\ step[w] = "overwrite" /\ Serial /\ AnnounceOnly /\ Stored(w) # None
         => Newer(j.payload, Stored(w))

(* Rows are well typed, belong to a node that exists, and are whole; the    *)
(* inductive invariant.                                                    *)
Consistent ==
  /\ TypeOK
  /\ \A w \in Workers : JobOK(w)
  /\ PairsWhole

(* The audit log names the version of every row, unless the handler that    *)
(* will log this very version is about to, or a worker died before it could. *)
RowIsAudited ==
  killed \/ \A k \in Keys : rows[k] # None =>
    \/ \E e \in log : e.key = k /\ e.version = rows[k].version
    \/ \E w \in Workers : /\ step[w] = "audit" /\ Key(w) = k
                         /\ job[w].payload.version = rows[k].version

(* One process that takes announces keeps a register of the highest version *)
(* for each key, whatever the order and the number of deliveries, and       *)
(* whenever it is killed.                                                  *)
Register == INSTANCE VersionRegister WITH
  Versions <- {p.version : p \in Payloads},
  register <- [k \in Keys |->
    IF rows[k] = None THEN None
    ELSE [data |-> rows[k].data, version |-> rows[k].version]]

RefinesRegister ==
  [][Serial /\ AnnounceOnly
       => [Register!Next]_(Register!vars)]_vars

(* The announces of an entry, as indices of messages in the order of their   *)
(* arrival: all that were processed, and perhaps some that a killed worker  *)
(* left behind.                                                            *)
Orders ==
  {ids \in UNION {[1..n -> DOMAIN messages] : n \in 0..Len(messages)} :
     \A m, n \in DOMAIN ids : m < n => ids[m] < ids[n]}

Hearings(k) ==
  {ids \in Orders :
     /\ \A n \in DOMAIN ids : messages[ids[n]].payload.key = k
     /\ \A i \in DOMAIN messages : messages[i].processed /\ messages[i].payload.key = k
          => \E n \in DOMAIN ids : ids[n] = i}

Dated(version, data) == [version |-> version, at |-> 0, data |-> data]

Heard(ids) ==
  [n \in DOMAIN ids |->
     Dated(messages[ids[n]].payload.version, messages[ids[n]].payload.data)]

Resolved(k, ids) ==
  IF ids = <<>> THEN rows[k] = None
  ELSE /\ rows[k] # None
       /\ ResolveMultiple(Heard(ids)) = Dated(rows[k].version, rows[k].data)

(* The register holds what ConflictResolution makes of the announces. *)
AgreesWithResolve ==
  Serial /\ AnnounceOnly => \A k \in Keys : \E ids \in Hearings(k) : Resolved(k, ids)

(* The same, with what a lone worker adds to it: its message is the latest,  *)
(* and belongs to what was heard once the row was compared and written.     *)
Heeded ==
  Serial /\ AnnounceOnly /\ node # "gone" =>
    /\ \A w \in pool : step[w] \notin {"idle", "message"} =>
         /\ job[w].msg = Len(messages) /\ messages # <<>>
         /\ messages[job[w].msg] = [payload |-> job[w].payload, processed |-> FALSE]
    /\ \A k \in Keys : \E ids \in Hearings(k) :
         /\ Resolved(k, ids)
         /\ \A w \in pool : step[w] # "idle" /\ Key(w) = k =>
              /\ step[w] \in {"existing", "insert", "overwrite"} =>
                   \A n \in DOMAIN ids : ids[n] # job[w].msg
              /\ step[w] \in {"audit", "conflict", "mark"} =>
                   \E n \in DOMAIN ids : ids[n] = job[w].msg

(* When the service is quiet, the Merkle root of its messages changes with  *)
(* every single message that changes.                                      *)
RootBindsMessages ==
  (\A w \in Workers : step[w] = "idle") =>
    \A i \in DOMAIN messages, p \in Payloads :
      LET list    == [n \in DOMAIN messages |-> messages[n].payload]
          changed == [n \in DOMAIN messages |-> IF n = i THEN p ELSE list[n]]
      IN  p # list[i] => MerkleRoot(changed) # MerkleRoot(list)
=============================================================================
