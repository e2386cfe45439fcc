------------------------------ MODULE NostrMesh ------------------------------
(***************************************************************************)
(* The polls of ONE node and the kind:30023 events that carry polls to and *)
(* from a relay:                                                           *)
(*                                                                         *)
(*   web       CreatePollView, a save or a deletion in the admin, and      *)
(*             NostrIngestWebhook, all in one gunicorn worker process;     *)
(*             post_save and post_delete publish the poll                  *)
(*   gossip    subscribe_loop of the gossip worker, which hands every      *)
(*             event of the relay to ingest_poll_event                     *)
(*                                                                         *)
(* ingest_poll_event runs outside any transaction, so the two processes    *)
(* interleave between statements.  Both call publish_poll after a save,    *)
(* but inside the event loop of the gossip worker asyncio.run raises, and  *)
(* publish_poll catches that: the worker never publishes.  In the same     *)
(* loop Django refuses the ORM unless DJANGO_ALLOW_ASYNC_UNSAFE is set,    *)
(* which is the variable async_orm.                                        *)
(*                                                                         *)
(* Events without a valid signature or a title are ignored before the      *)
(* first statement and left out.  Votes are in BallotBox, the ledger row   *)
(* of a poll in FederatedLedger.                                           *)
(***************************************************************************)
EXTENDS Integers, Sequences, FiniteSets, SequencesExt

CONSTANTS
  Ids,        \* bound: primary keys of polls
  Texts,      \* option texts
  PeerEvents, \* poll events that other nodes and clients signed
  MaxRequests,\* bound: creations, edits, deletions and webhook deliveries
  MaxStored,  \* bound: events of peers that the relay keeps at the start
  MaxDrops,   \* bound: connections the network loses
  None        \* SQL NULL, no d tag, and no poll

Web    == "web"
Gossip == "gossip"
Procs  == {Web, Gossip}

(* `id' is the SHA-256 of an event (n for the n-th event this node signed), *)
(* `d' the number in its d tag; `tombstone' marks what a deletion sends.    *)
(* Title and description go with the id.  `fault' says where an event that   *)
(* nobody here can ingest raises, every time it is tried: in its content,   *)
(* before the first statement (also a vote that is malformed in that way),  *)
(* in the row of the poll (a title that is too long), or in an option after *)
(* those of `options'.                                                     *)
Faults   == {"none", "content", "row", "option"}
Own      == 1..MaxRequests
EventIds == {e.id : e \in PeerEvents} \cup Own
Event == [id : EventIds, d : Ids \cup {None}, tombstone : BOOLEAN,
          active : BOOLEAN, options : SUBSET Texts, fault : Faults]

ASSUME IdAssumption == Ids \subseteq Nat \ {0}
ASSUME BoundAssumption == {MaxRequests, MaxStored, MaxDrops} \subseteq Nat
ASSUME EventAssumption ==
  /\ PeerEvents \subseteq Event /\ IsFiniteSet(PeerEvents)
  /\ \A e, f \in PeerEvents : e.id = f.id => e = f
  /\ \A e \in PeerEvents : e.id \notin Own

(* A row of Poll with its PollOption rows, counted by text                  *)
Poll == [active : BOOLEAN, event : EventIds \cup {None}, options : [Texts -> Nat]]
(* What the form of PollAdmin shows of a row, and sends back whole          *)
Form == [poll : Ids, active : BOOLEAN, event : EventIds \cup {None}]

ASSUME NoneAssumption == None \notin Ids \cup Poll \cup Form \cup EventIds

Steps == {"idle", "find", "update", "create", "publish", "existing",
          "options", "commit"}

VARIABLES
  async_orm, \* DJANGO_ALLOW_ASYNC_UNSAFE, for the gossip worker
  webhook,   \* does anybody push events to the webhook?
  polls,     \* the Poll table
  sequence,  \* the next primary key the database hands out
  pending,   \* polls written by a transaction that is still open
  stored,    \* the events that the relay keeps
  link,      \* the worker's connection: "new", "up" or "down"
  inbox,     \* events sent on this connection and not handled yet
  form,      \* the form of PollAdmin that was loaded last
  step, job, \* the next statement of each process, and its locals
  published, \* events this node has signed
  requests, drops, \* how much of the bounds is used
  applied,   \* history: events of peers that the gossip worker has ingested
  deleted,   \* history: primary keys of polls that were deleted here
  revived    \* history: polls that a form has made active again

vars == <<async_orm, webhook, polls, sequence, pending, stored, link, inbox,
          form, step, job, published, requests, drops, applied, deleted, revived>>
conf   == <<async_orm, webhook>>
bounds == <<requests, drops>>
past   == <<applied, deleted, revived>>
relay  == <<stored, link, inbox, published>>

(* `event' is what is ingested, or None for a save of this node; `texts'    *)
(* are the options still to be inserted, `carries' the nostr_event_id that  *)
(* a save of this node writes.                                             *)
Job == [event : Event \cup {None}, poll : Ids \cup {None}, texts : SUBSET Texts,
        tombstone : BOOLEAN, active : BOOLEAN, carries : EventIds \cup {None}]
NoJob == [event |-> None, poll |-> None, texts |-> {}, tombstone |-> FALSE,
          active |-> FALSE, carries |-> None]

NoOptions == [t \in Texts |-> 0]

(* Also: nostr_event_id is unique. *)
TypeOK ==
  /\ {async_orm, webhook} \subseteq BOOLEAN
  /\ polls \in [Ids -> Poll \cup {None}]
  /\ sequence \in Nat
  /\ pending \subseteq Ids
  /\ stored \subseteq Event
  /\ link \in {"new", "up", "down"}
  /\ inbox \in Seq(Event)
  /\ form \in Form \cup {None}
  /\ step \in [Procs -> Steps]
  /\ job \in [Procs -> Job]
  /\ {published, requests, drops} \subseteq Nat
  /\ applied \subseteq EventIds
  /\ {deleted, revived} \subseteq SUBSET Ids
  /\ \A i, k \in Ids : polls[i] # None /\ polls[k] # None /\ i # k
       => polls[i].event = None \/ polls[i].event # polls[k].event

Init ==
  /\ async_orm \in BOOLEAN
  /\ webhook \in BOOLEAN
  /\ polls = [i \in Ids |-> None]
  /\ sequence = 1
  /\ pending = {}
  /\ stored \in {events \in SUBSET PeerEvents : Cardinality(events) <= MaxStored}
  /\ link = "new"
  /\ inbox = <<>>
  /\ form = None
  /\ step = [p \in Procs |-> "idle"]
  /\ job = [p \in Procs |-> NoJob]
  /\ published = 0
  /\ requests = 0 /\ drops = 0
  /\ applied = {}
  /\ deleted = {} /\ revived = {}

------------------------------------------------------------------------------
Goto(p, s) == step' = [step EXCEPT ![p] = s]

Finish(p) == Goto(p, "idle") /\ job' = [job EXCEPT ![p] = NoJob]

(* An exception ends a web request with 500.  In the gossip worker it       *)
(* leaves the loop over the messages: the connection is closed, and what    *)
(* was sent on it is lost.                                                 *)
Raise(p) ==
  /\ Finish(p)
  /\ IF p = Gossip THEN link' = "down" /\ inbox' = <<>>
     ELSE UNCHANGED <<link, inbox>>

(* make_event and _publish_to_relay: the relay takes the event, in place of *)
(* an older one of the same author and d tag, and passes it to subscribers; *)
(* or it cannot be reached, and the event is lost.                         *)
Publish(e) ==
  /\ published' = published + 1
  /\ \/ /\ stored' = {f \in stored : f.id \notin Own \/ f.d # e.d} \cup {e}
        /\ inbox' = IF link = "up" THEN Append(inbox, e) ELSE inbox
     \/ UNCHANGED <<stored, inbox>>
  /\ UNCHANGED link

(* make_poll_event, of a poll with its options as they are now *)
PollEvent(id, tombstone, active, options) ==
  [id |-> published + 1, d |-> id, tombstone |-> tombstone, active |-> active,
   options |-> options, fault |-> "none"]

TextsOf(id) ==
  IF polls[id] = None THEN {} ELSE {t \in Texts : polls[id].options[t] > 0}

------------------------------------------------------------------------------
(* The loop is left after the first failure. *)
Subscribe_bug ==
  /\ link = "new"
  /\ link' = "up"
  /\ inbox' \in SetToSeqs(stored)
  /\ UNCHANGED <<conf, polls, sequence, pending, stored, form, step, job, published,
                 bounds, past>>

(* subscribe_loop: REQ without `since': the relay sends all that it keeps,  *)
(* in any order, and then what is published.                               *)
Subscribe ==
  /\ link # "up"
  /\ link' = "up"
  /\ inbox' \in SetToSeqs(stored)
  /\ UNCHANGED <<conf, polls, sequence, pending, stored, form, step, job, published,
                 bounds, past>>

(* The connection breaks between two messages, or the worker is killed.     *)
Drop ==
  /\ link = "up"
  /\ drops < MaxDrops
  /\ drops' = drops + 1
  /\ link' = "down"
  /\ inbox' = <<>>
  /\ Finish(Gossip)
  /\ UNCHANGED <<conf, polls, sequence, pending, stored, form, published, requests,
                 past>>

BeginIngest(p, e) ==
  /\ job' = [job EXCEPT ![p] = [event |-> e, poll |-> e.d, texts |-> e.options,
                                tombstone |-> FALSE, active |-> e.active,
                                carries |-> None]]
  /\ Goto(p, IF e.d = None THEN "create" ELSE "find")

(* Command._handle_event; the first query raises SynchronousOnlyOperation   *)
(* unless async_orm, and content that is no JSON object raises even before. *)
HandleEvent ==
  /\ link = "up" /\ inbox # <<>> /\ step[Gossip] = "idle"
  /\ IF async_orm /\ Head(inbox).fault # "content"
     THEN BeginIngest(Gossip, Head(inbox)) /\ inbox' = Tail(inbox) /\ UNCHANGED link
     ELSE Raise(Gossip)
  /\ UNCHANGED <<conf, polls, sequence, pending, stored, form, published, bounds, past>>

(* NostrIngestWebhook.post, of any event that exists; content that is no    *)
(* JSON object ends it before it has done anything.                        *)
PushEvent(e) ==
  /\ webhook /\ requests < MaxRequests
  /\ e.fault # "content"
  /\ step[Web] = "idle"
  /\ requests' = requests + 1
  /\ BeginIngest(Web, e)
  /\ UNCHANGED <<conf, polls, sequence, pending, form, relay, drops, past>>

(* Poll.objects.get(id=poll_id) *)
FindPoll(p) ==
  /\ step[p] = "find"
  /\ Goto(p, IF polls[job[p].poll] = None THEN "create" ELSE "update")
  /\ UNCHANGED <<conf, polls, sequence, pending, form, relay, job, bounds, past>>

(* Another row has this nostr_event_id. *)
Carried(event, id) ==
  \E i \in Ids \ {id} : polls[i] # None /\ polls[i].event = event

(* The database refuses the row that an event makes of poll id. *)
Refused(e, id) == e.fault = "row" \/ Carried(e.id, id)

(* An open transaction has written the row, or a nostr_event_id that could  *)
(* be the same one: the statement waits for its end.                       *)
Waits(e, id) ==
  \/ id \in pending
  \/ step[Web] = "commit" /\ job[Web].carries = e.id
  \/ \E i \in pending : polls[i] # None /\ polls[i].event = e.id

(* Options are taken only from the event that creates the poll. *)
UpdatePoll_bug(p) ==
  LET j == job[p] IN
  /\ step[p] = "update"
  /\ ~Waits(j.event, j.poll)
  /\ IF polls[j.poll] = None \/ Refused(j.event, j.poll)
     THEN Raise(p) /\ UNCHANGED polls
     ELSE /\ polls' = [polls EXCEPT ![j.poll] =
                         [@ EXCEPT !.active = j.active, !.event = j.event.id]]
          /\ Goto(p, "publish")
          /\ job' = [job EXCEPT ![p].texts = {}]
          /\ UNCHANGED <<link, inbox>>
  /\ UNCHANGED <<conf, sequence, pending, stored, form, published, bounds, past>>

(* poll.save(update_fields=...): the event overwrites the poll, whichever   *)
(* of the two is older.                                                    *)
UpdatePoll(p) ==
  LET j == job[p] IN
  /\ step[p] = "update"
  /\ ~Waits(j.event, j.poll)
  /\ IF polls[j.poll] = None \/ Refused(j.event, j.poll)
     THEN Raise(p) /\ UNCHANGED polls
     ELSE /\ polls' = [polls EXCEPT ![j.poll] =
                         [@ EXCEPT !.active = j.active, !.event = j.event.id]]
          /\ Goto(p, "publish")
          /\ UNCHANGED <<job, link, inbox>>
  /\ UNCHANGED <<conf, sequence, pending, stored, form, published, bounds, past>>

(* Poll.objects.create, with the id of the d tag or the next one of the     *)
(* sequence, which does not know of the former.                            *)
CreatePoll(p) ==
  LET j   == job[p]
      new == IF j.poll = None THEN sequence ELSE j.poll IN
  /\ step[p] = "create"
  /\ new \in Ids /\ ~Waits(j.event, new)
  /\ sequence' = IF j.poll = None THEN sequence + 1 ELSE sequence
  /\ IF polls[new] # None \/ Refused(j.event, new)
     THEN Raise(p) /\ UNCHANGED polls
     ELSE /\ polls' = [polls EXCEPT ![new] =
                         [active |-> j.active, event |-> j.event.id,
                          options |-> NoOptions]]
          /\ job' = [job EXCEPT ![p].poll = new]
          /\ Goto(p, "publish")
          /\ UNCHANGED <<link, inbox>>
  /\ UNCHANGED <<conf, pending, stored, form, published, bounds, past>>

(* asyncio.run inside a running event loop *)
CanPublish_bug(p) == TRUE

CanPublish(p) == p # Gossip

(* sync_poll_on_save: publish_poll *)
PublishPoll(p) ==
  LET j == job[p] IN
  /\ step[p] = "publish"
  /\ IF CanPublish(p)
     THEN Publish(PollEvent(j.poll, FALSE, j.active, TextsOf(j.poll)))
     ELSE UNCHANGED relay
  /\ Goto(p, "existing")
  /\ UNCHANGED <<conf, polls, sequence, pending, form, job, bounds, past>>

(* The loop over the options ends, or meets one that cannot be inserted.    *)
Done(p) ==
  IF job[p].event.fault = "option"
  THEN Raise(p) /\ UNCHANGED past
  ELSE /\ Finish(p)
       /\ applied' = IF p = Gossip /\ job[p].event \in PeerEvents
                     THEN applied \cup {job[p].event.id} ELSE applied
       /\ UNCHANGED <<deleted, revived, link, inbox>>

(* existing_texts, and the texts that are not among them *)
Missing_bug(j) == j.texts

Missing(j) == j.texts \ TextsOf(j.poll)

ReadOptions(p) ==
  LET missing == Missing(job[p]) IN
  /\ step[p] = "existing"
  /\ IF missing = {} THEN Done(p)
     ELSE /\ job' = [job EXCEPT ![p].texts = missing]
          /\ Goto(p, "options")
          /\ UNCHANGED <<past, link, inbox>>
  /\ UNCHANGED <<conf, polls, sequence, pending, stored, form, published, bounds>>

(* PollOption.objects.create, which fails if the poll is gone. *)
AddOption(p) ==
  LET j == job[p]
      t == CHOOSE t \in j.texts : TRUE IN
  /\ step[p] = "options"
  /\ j.poll \notin pending
  /\ IF polls[j.poll] = None
     THEN Raise(p) /\ UNCHANGED <<polls, past>>
     ELSE /\ polls' = [polls EXCEPT ![j.poll].options[t] = @ + 1]
          /\ IF j.texts = {t} THEN Done(p)
             ELSE /\ job' = [job EXCEPT ![p].texts = j.texts \ {t}]
                  /\ UNCHANGED <<step, past, link, inbox>>
  /\ UNCHANGED <<conf, sequence, pending, stored, form, published, bounds>>
------------------------------------------------------------------------------
(* CreatePollView.post and the views of the admin open a transaction; the   *)
(* insert, update or delete runs post_save or post_delete, which publishes  *)
(* before anything is committed.  Other processes wait for the row.        *)
Save(id, tombstone, active, options, texts, carries) ==
  /\ step[Web] = "idle"
  /\ requests < MaxRequests
  /\ requests' = requests + 1
  /\ Publish(PollEvent(id, tombstone, active, options))
  /\ pending' = pending \cup {id}
  /\ job' = [job EXCEPT ![Web] =
       [event |-> None, poll |-> id, texts |-> texts, tombstone |-> tombstone,
        active |-> active, carries |-> carries]]
  /\ Goto(Web, "commit")
  /\ UNCHANGED <<conf, polls, form, drops, past>>

(* CreatePollView.post wants two lines, which may be the same option; the   *)
(* event has no options yet.  If the next primary key is taken, the request *)
(* fails.                                                                  *)
CreateInWeb(texts) ==
  /\ texts # {}
  /\ sequence \in Ids
  /\ sequence' = sequence + 1
  /\ IF polls[sequence] = None
     THEN Save(sequence, FALSE, TRUE, {}, texts, None)
     ELSE /\ step[Web] = "idle"
          /\ UNCHANGED <<conf, polls, pending, form, relay, step, job, bounds, past>>

(* The change form of PollAdmin *)
LoadForm(id) ==
  /\ step[Web] = "idle"
  /\ polls[id] # None
  /\ form' = [poll |-> id, active |-> polls[id].active, event |-> polls[id].event]
  /\ UNCHANGED <<conf, polls, sequence, pending, relay, step, job, bounds, past>>

(* The form is sent: it overwrites the row with what was shown, is_active   *)
(* and nostr_event_id among it, whatever has been ingested since.  A poll   *)
(* that is gone and an event that another poll has are error messages.     *)
SaveForm ==
  /\ form # None
  /\ polls[form.poll] # None /\ ~(form.event # None /\ Carried(form.event, form.poll))
  /\ Save(form.poll, FALSE, form.active, TextsOf(form.poll), {}, form.event)
  /\ UNCHANGED sequence

(* The tombstone without is_active = False *)
DeletePoll_bug(id) ==
  /\ polls[id] # None
  /\ Save(id, TRUE, polls[id].active, {}, {}, None)
  /\ UNCHANGED sequence

(* sync_poll_on_delete publishes the deleted poll as inactive.              *)
DeletePoll(id) ==
  /\ polls[id] # None
  /\ Save(id, TRUE, FALSE, {}, {}, None)
  /\ UNCHANGED sequence

(* What the transaction did becomes visible at once. *)
CommitPoll ==
  LET j == job[Web] IN
  /\ step[Web] = "commit"
  /\ polls' = [polls EXCEPT ![j.poll] =
       IF j.tombstone THEN None
       ELSE IF @ # None THEN [@ EXCEPT !.active = j.active, !.event = j.carries]
       ELSE [active |-> TRUE, event |-> None,
             options |-> [t \in Texts |-> IF t \in j.texts THEN 1 ELSE 0]]]
  /\ pending' = pending \ {j.poll}
  /\ deleted' = IF j.tombstone THEN deleted \cup {j.poll} ELSE deleted
  /\ revived' = IF ~j.tombstone /\ j.active /\ polls[j.poll] # None /\ ~polls[j.poll].active
                THEN revived \cup {j.poll} ELSE revived
  /\ Finish(Web)
  /\ UNCHANGED <<conf, sequence, form, relay, bounds, applied>>

(* An option cannot be inserted, or the worker is killed: the event is out. *)
RollBack ==
  /\ step[Web] = "commit"
  /\ pending' = pending \ {job[Web].poll}
  /\ Finish(Web)
  /\ UNCHANGED <<conf, polls, sequence, form, relay, bounds, past>>

(* gunicorn kills the worker between two statements outside a transaction.  *)
CrashWeb ==
  /\ step[Web] \notin {"idle", "commit"}
  /\ Finish(Web)
  /\ UNCHANGED <<conf, polls, sequence, pending, form, relay, bounds, past>>

Ingest(p) ==
  \/ FindPoll(p) \/ UpdatePoll(p) \/ CreatePoll(p) \/ PublishPoll(p)
  \/ ReadOptions(p) \/ AddOption(p)

Next ==
  \/ Subscribe \/ Drop \/ HandleEvent
  \/ \E e \in PeerEvents \cup stored : PushEvent(e)
  \/ \E p \in Procs : Ingest(p)
  \/ \E texts \in SUBSET Texts : CreateInWeb(texts)
  \/ CommitPoll \/ RollBack
  \/ SaveForm \/ \E id \in Ids : LoadForm(id) \/ DeletePoll(id)
  \/ CrashWeb

Spec == Init /\ [][Next]_vars

(* The gossip worker keeps running and reconnects after its pause, and a    *)
(* web request that has begun goes on; nobody has to begin one.            *)
Fairness ==
  /\ WF_vars(Subscribe)
  /\ WF_vars(HandleEvent)
  /\ \A p \in Procs : WF_vars(Ingest(p))
  /\ WF_vars(CommitPoll \/ RollBack)

FairSpec == Spec /\ Fairness

------------------------------------------------------------------------------
(* An event that this node ingests does not come back as a new event: the   *)
(* node signs at most one event for each save and each pushed event, and    *)
(* none for what it hears from the relay.                                  *)
NoEcho == published <= requests

(* However often the relay repeats an event, its options are added once, as *)
(* long as the gossip worker is the only process that ingests and the       *)
(* primary key is not used a second time.  Consistent adds the types and    *)
(* what makes it inductive.                                                *)
OptionsOnce ==
  ~webhook => \A id \in Ids \ deleted, t \in Texts :
                polls[id] # None => polls[id].options[t] <= 1

(* What can be heard: the events of the peers, and those signed here.       *)
Heard == {e \in Event : e \in PeerEvents \/ e.id \in Own}

Relayed ==
  /\ stored \subseteq Heard /\ IsFiniteSet(stored)
  /\ inbox \in Seq(Heard)

(* The locals of a process: the event, the poll that was found or made for  *)
(* it, which is there unless it was deleted, and the options that the poll  *)
(* does not have yet.  The worker alone adds none that is there.           *)
JobOK(p) ==
  LET j == job[p] IN
  /\ step[p] \notin {"idle", "commit"} =>
       /\ j.event \in Heard
       /\ j.event.d \in {None, j.poll}
       /\ j.poll = None => step[p] = "create"
  /\ step[p] \notin {"idle", "commit", "options"} => j.texts = j.event.options
  /\ step[p] \in {"publish", "existing", "options"} =>
       j.poll \in deleted \/ polls[j.poll] # None
  /\ step[p] = "options" =>
       /\ j.texts # {}
       /\ j.poll \in deleted \/ j.event.options \subseteq j.texts \cup TextsOf(j.poll)
       /\ webhook \/ j.poll \in deleted \/ j.texts \cap TextsOf(j.poll) = {}
  /\ step[p] = "commit" => p = Web /\ j.poll \in Ids
  /\ p = Web => webhook \/ step[p] \in {"idle", "commit"}

(* The nostr_event_id that an open transaction writes stays free: another   *)
(* process that wants it waits.                                            *)
Reserved ==
  step[Web] = "commit" /\ job[Web].carries # None
    => ~Carried(job[Web].carries, job[Web].poll)

Consistent ==
  /\ TypeOK
  /\ Relayed
  /\ Reserved
  /\ \A p \in Procs : JobOK(p)
  /\ OptionsOnce

(* Once the gossip worker has ingested an event to the end, the poll has    *)
(* every option of the event, even if an earlier attempt stopped half way.  *)
TakenWhole ==
  \A e \in PeerEvents : e.id \in applied /\ e.d # None =>
    \/ e.d \in deleted
    \/ polls[e.d] # None /\ e.options \subseteq TextsOf(e.d)

(* Every event that the relay keeps names its poll and can be ingested.     *)
(* One that cannot closes each connection when its turn comes, and what is  *)
(* behind it is lost: subscribe_loop skips only a message that is not JSON. *)
Sound == \A e \in stored : e.d # None /\ e.fault = "none"

(* The worker ingests every event that the relay keeps, in spite of lost    *)
(* connections and of conflicts with local saves, if it may use the ORM and *)
(* no event of the subscription makes it fail.                             *)
Delivered ==
  async_orm /\ Sound =>
    <>(\A e \in PeerEvents : e \in stored => e.id \in applied)

(* A poll that was deleted does not stay visible here, although its older   *)
(* events may still be on their way and recreate it, if the relay has its   *)
(* tombstone, no peer announces a poll under the same number, no event      *)
(* makes the worker fail, and no form has made the poll active again.  The  *)
(* last is needed: a form that was loaded while the poll was visible and is *)
(* sent after its tombstone was ingested shows it once more, and if its own *)
(* event does not reach the relay, nothing corrects that.                  *)
TombstoneWins ==
  async_orm /\ ~webhook /\ Sound =>
    \A id \in Ids : (\A e \in PeerEvents : e \in stored => e.d # id) =>
      ((<>[](\E e \in stored : e.d = id /\ e.tombstone)) /\ [](id \notin revived)
         => <>[](polls[id] = None \/ ~polls[id].active))
=============================================================================
