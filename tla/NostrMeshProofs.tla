---------------------------- MODULE NostrMeshProofs ----------------------------
(***************************************************************************)
(* Theorems about NostrMesh, for any polls, options, events of peers and   *)
(* number of requests and lost connections.                                *)
(***************************************************************************)
EXTENDS NostrMesh, FiniteSetTheorems, TLAPS

(* What the web process has been asked to publish and has not yet.          *)
Owed == IF step[Web] \in {"find", "update", "create", "publish"} THEN 1 ELSE 0

Budget == published + Owed <= requests /\ requests <= MaxRequests

IInv == Consistent /\ TakenWhole /\ Budget

Unique == \A i, k \in Ids : polls[i] # None /\ polls[k] # None /\ i # k
            => polls[i].event = None \/ polls[i].event # polls[k].event

(* What no process but one that deletes a poll ever undoes.                 *)
Grows == \A id \in Ids : id \in deleted' \/ polls[id] = None
           \/ (polls'[id] # None /\ TextsOf(id) \subseteq TextsOf(id)')

Same  == \A id \in Ids : id \in deleted' \/ polls[id] = None
           \/ (polls'[id] # None /\ TextsOf(id)' = TextsOf(id))

(* The two processes of a node. *)
LEMMA Processes == Web \in Procs /\ Gossip \in Procs /\ Web # Gossip
BY DEF Web, Gossip, Procs

(* What a relay sends is an event. *)
LEMMA HeardTyped ==
  ASSUME NEW e \in Heard
  PROVE  /\ e \in Event /\ e.id \in EventIds /\ e.d \in Ids \cup {None}
         /\ e.options \subseteq Texts /\ e.active \in BOOLEAN
BY DEF Heard, Event

(* A process that does not move.                                            *)
LEMMA Unmoved ==
  ASSUME Consistent, UNCHANGED conf, deleted \subseteq deleted', Grows,
         NEW q \in Procs, step'[q] = step[q], job'[q] = job[q],
         q = Web \/ webhook \/ Same
  PROVE  JobOK(q)'
<1> DEFINE j == job[q]
<1>1. JobOK(q) /\ UNCHANGED webhook /\ j \in Job
  BY DEF Consistent, TypeOK, conf
<1>2. step[q] \in {"publish", "existing", "options"} =>
        /\ j.poll \in Ids
        /\ j.poll \in deleted' \/ (polls'[j.poll] # None
                                   /\ TextsOf(j.poll) \subseteq TextsOf(j.poll)')
        /\ Same => j.poll \in deleted' \/ TextsOf(j.poll)' = TextsOf(j.poll)
  <2> SUFFICES ASSUME step[q] \in {"publish", "existing", "options"}
               PROVE  /\ j.poll \in Ids
                      /\ j.poll \in deleted' \/ (polls'[j.poll] # None
                                   /\ TextsOf(j.poll) \subseteq TextsOf(j.poll)')
                      /\ Same => j.poll \in deleted' \/ TextsOf(j.poll)' = TextsOf(j.poll)
    OBVIOUS
  <2>1. j.poll \in Ids /\ (j.poll \in deleted \/ polls[j.poll] # None)
    BY <1>1 DEF JobOK, Job
  <2>2. PICK id \in Ids : id = j.poll
    BY <2>1
  <2> HIDE DEF j
  <2>3. TextsOf(id)' = TextsOf(j.poll)' /\ TextsOf(id) = TextsOf(j.poll)
    BY <1>1, <2>2 DEF TextsOf, j
  <2> QED
    BY <2>1, <2>2, <2>3 DEF Grows, Same
<1>3. (TextsOf(job[q].poll))' = TextsOf(j.poll)'
  BY DEF TextsOf
<1>4. q = Web => webhook \/ step[q] # "options"
  BY <1>1 DEF JobOK
<1> QED
  BY <1>1, <1>2, <1>3, <1>4 DEF JobOK

Others(p) == \A q \in Procs \ {p} : step'[q] = step[q] /\ job'[q] = job[q]

(* A step of process p, or of none, that changes the polls.                 *)
LEMMA PollStep ==
  ASSUME IInv, NEW p \in Procs, Others(p), UNCHANGED conf,
         step' \in [Procs -> Steps], job' \in [Procs -> Job],
         polls' \in [Ids -> Poll \cup {None}], Unique',
         sequence' \in Nat, pending' \subseteq Ids, link' \in {"new", "up", "down"},
         Relayed', {published', requests', drops'} \subseteq Nat,
         applied' \subseteq EventIds, deleted \subseteq deleted', deleted' \subseteq Ids,
         form' \in Form \cup {None}, revived' \subseteq Ids, Reserved',
         Grows, p = Gossip \/ webhook \/ Same,
         JobOK(p)', OptionsOnce', TakenWhole', Budget'
  PROVE  IInv'
<1>1. TypeOK'
  <2>1. stored' \subseteq Event /\ inbox' \in Seq(Event)
    BY DEF Relayed, Heard
  <2>2. {async_orm', webhook'} \subseteq BOOLEAN
    BY DEF IInv, Consistent, TypeOK, conf
  <2> QED
    BY <2>1, <2>2 DEF TypeOK, Unique
<1>2. ASSUME NEW q \in Procs \ {p}
      PROVE  JobOK(q)'
  <2>1. q = Web \/ webhook \/ Same
    BY Processes DEF Procs
  <2> QED
    BY <2>1, Unmoved DEF IInv, Others
<1> QED
  BY <1>1, <1>2 DEF IInv, Consistent

(* A step that leaves the polls alone. *)
LEMMA Still ==
  ASSUME IInv, UNCHANGED <<conf, polls, deleted>>
  PROVE  /\ polls' \in [Ids -> Poll \cup {None}] /\ Unique'
         /\ Grows /\ Same /\ OptionsOnce'
         /\ \A id \in Ids : TextsOf(id)' = TextsOf(id)
<1>1. polls' = polls /\ deleted' = deleted /\ webhook' = webhook
  BY DEF conf
<1>2. TypeOK /\ OptionsOnce
  BY DEF IInv, Consistent
<1>3. polls' \in [Ids -> Poll \cup {None}] /\ Unique'
  BY <1>1, <1>2 DEF TypeOK, Unique
<1>4. \A id : TextsOf(id)' = TextsOf(id)
  BY <1>1 DEF TextsOf
<1>5. OptionsOnce'
  BY <1>1, <1>2 DEF OptionsOnce
<1> QED
  BY <1>1, <1>3, <1>4, <1>5 DEF Grows, Same

(* What has been taken whole stays whole. *)
LEMMA StillWhole ==
  ASSUME IInv, deleted \subseteq deleted', Grows,
         \A e \in PeerEvents : e.id \in applied' \ applied /\ e.d # None =>
           \/ e.d \in deleted'
           \/ polls'[e.d] # None /\ e.options \subseteq TextsOf(e.d)'
  PROVE  TakenWhole'
<1>1. ASSUME NEW e \in PeerEvents, e.id \in applied, e.d # None
      PROVE  e.d \in deleted' \/ (polls'[e.d] # None /\ e.options \subseteq TextsOf(e.d)')
  <2>1. e.d \in Ids
    BY <1>1, EventAssumption DEF Event
  <2>2. e.d \in deleted \/ (polls[e.d] # None /\ e.options \subseteq TextsOf(e.d))
    BY <1>1 DEF IInv, TakenWhole
  <2> QED
    BY <2>1, <2>2 DEF Grows
<1> QED
  BY <1>1 DEF TakenWhole

(* A step of process p, or of none, that leaves the polls alone.            *)
LEMMA QuietStep ==
  ASSUME IInv, NEW p \in Procs, Others(p), UNCHANGED <<conf, polls, past>>,
         step' \in [Procs -> Steps], job' \in [Procs -> Job],
         sequence' \in Nat, pending' \subseteq Ids, link' \in {"new", "up", "down"},
         Relayed', {published', requests', drops'} \subseteq Nat,
         form' \in Form \cup {None}, p = Gossip \/ step'[Web] # "commit" \/ Reserved',
         JobOK(p)', Budget'
  PROVE  IInv'
<1>1. applied' = applied /\ deleted' = deleted /\ revived' = revived
  BY DEF past
<1>2. applied' \subseteq EventIds /\ deleted' \subseteq Ids /\ revived' \subseteq Ids
  BY <1>1 DEF IInv, Consistent, TypeOK
<1>4. Reserved'
  <2>1. CASE step'[Web] = "commit" /\ p = Gossip
    <3>1. step'[Web] = step[Web] /\ job'[Web] = job[Web]
      BY <2>1, Processes DEF Others
    <3> QED
      BY <3>1 DEF IInv, Consistent, Reserved, Carried
  <2>2. CASE step'[Web] # "commit"
    BY <2>2 DEF Reserved
  <2> QED
    BY <2>1, <2>2
<1>3. TakenWhole'
  BY <1>1, Still, StillWhole
<1> QED
  BY <1>1, <1>2, <1>3, <1>4, Still, PollStep

(* Where process p goes. *)
LEMMA Goes ==
  ASSUME IInv, NEW p \in Procs, NEW s \in Steps, NEW j \in Job,
         step' = [step EXCEPT ![p] = s], job' = [job EXCEPT ![p] = j]
  PROVE  /\ step' \in [Procs -> Steps] /\ job' \in [Procs -> Job] /\ Others(p)
         /\ step'[p] = s /\ job'[p] = j
         /\ p = Gossip => Owed' = Owed
BY Processes DEF IInv, Consistent, TypeOK, Others, Owed

(* The locals of an idle process are typed. *)
LEMMA NoJobTyped == NoJob \in Job
BY NoneAssumption DEF NoJob, Job

(* A process ends its work. *)
LEMMA Finishes ==
  ASSUME IInv, NEW p \in Procs, Finish(p)
  PROVE  /\ step' \in [Procs -> Steps] /\ job' \in [Procs -> Job] /\ Others(p)
         /\ step'[p] = "idle" /\ JobOK(p)' /\ Owed' <= Owed /\ Owed' \in {0, 1}
         /\ p = Web => step'[Web] # "commit"
<1>1. step' = [step EXCEPT ![p] = "idle"] /\ job' = [job EXCEPT ![p] = NoJob]
  BY DEF Finish, Goto
<1>2. /\ step' \in [Procs -> Steps] /\ job' \in [Procs -> Job] /\ Others(p)
      /\ step'[p] = "idle"
  BY <1>1, Goes, NoJobTyped DEF Steps
<1>3. JobOK(p)'
  BY <1>2 DEF JobOK
<1>4. Owed' <= Owed /\ Owed' \in {0, 1}
  BY <1>2, Processes DEF Owed, Others, Procs
<1> QED
  BY <1>2, <1>3, <1>4

(* The parts of the invariant that are about the relay and the counters.    *)
LEMMA Basics ==
  ASSUME IInv
  PROVE  /\ TypeOK /\ Relayed /\ OptionsOnce
         /\ {published, requests, drops, sequence} \subseteq Nat
         /\ published + Owed <= requests /\ requests <= MaxRequests /\ Owed \in {0, 1}
         /\ pending \subseteq Ids /\ link \in {"new", "up", "down"}
         /\ job \in [Procs -> Job] /\ step \in [Procs -> Steps]
         /\ polls \in [Ids -> Poll \cup {None}]
         /\ form \in Form \cup {None} /\ revived \subseteq Ids
BY DEF IInv, Consistent, TypeOK, Budget, Owed

(* What an exception does to the connection. *)
LEMMA Breaks ==
  ASSUME IInv, NEW p \in Procs, Raise(p), stored' = stored
  PROVE  Relayed' /\ link' \in {"new", "up", "down"}
<1>1. Relayed /\ link \in {"new", "up", "down"}
  BY Basics
<1>2. CASE p = Gossip
  <2>1. link' = "down" /\ inbox' = <<>>
    BY <1>2 DEF Raise
  <2> QED
    BY <1>1, <2>1 DEF Relayed
<1>3. CASE p # Gossip
  <2>1. link' = link /\ inbox' = inbox
    BY <1>3 DEF Raise
  <2> QED
    BY <1>1, <2>1 DEF Relayed
<1> QED
  BY <1>2, <1>3

(* A raised exception. *)
LEMMA Raised ==
  ASSUME IInv, NEW p \in Procs, Raise(p),
         UNCHANGED <<conf, polls, past, pending, stored, form, published, bounds>>,
         sequence' \in Nat
  PROVE  IInv'
<1>1. Finish(p) /\ UNCHANGED <<stored, form, published, requests, drops, pending>>
  BY DEF Raise, bounds
<1>2. Relayed' /\ link' \in {"new", "up", "down"}
  BY <1>1, Breaks
<1>3. Budget'
  BY <1>1, Basics, Finishes DEF Budget
<1>4. p = Gossip \/ step'[Web] # "commit"
  BY <1>1, Finishes DEF Procs
<1> QED
  BY <1>1, <1>2, <1>3, <1>4, Basics, Finishes, QuietStep

(* SetToSeqs is defined by functions on 1..Cardinality. *)
LEMMA Sequences1 ==
  ASSUME NEW S, IsFiniteSet(S), NEW q \in SetToSeqs(S)
  PROVE  q \in Seq(S)
<1>1. Cardinality(S) \in Nat
  BY FS_CardinalityType
<1>2. q \in [1..Cardinality(S) -> S]
  BY DEF SetToSeqs
<1> QED
  BY <1>1, <1>2

(* The subscription opens or drops. *)
LEMMA Connections ==
  ASSUME IInv, Subscribe \/ Drop
  PROVE  IInv'
<1>1. Gossip \in Procs
  BY Processes
<1>2. CASE Subscribe
  <2>1. /\ link' = "up" /\ inbox' \in SetToSeqs(stored)
        /\ UNCHANGED <<conf, polls, past, sequence, pending, stored, form, step, job,
                       published, requests, drops>>
    BY <1>2 DEF Subscribe, bounds
  <2>2. inbox' \in Seq(stored)
    BY <2>1, Sequences1, Basics DEF Relayed
  <2>3. Relayed'
    BY <2>1, <2>2, Basics DEF Relayed
  <2>4. Others(Gossip) /\ Budget'
    BY <2>1, Basics DEF Others, Budget, Owed
  <2>5. JobOK(Gossip)'
    <3>1. Grows /\ Same /\ deleted \subseteq deleted'
      BY <2>1, Still DEF past
    <3> QED
      BY <1>1, <2>1, <3>1, Unmoved DEF IInv
  <2> QED
    BY <1>1, <2>1, <2>3, <2>4, <2>5, Basics, QuietStep
<1>3. CASE Drop
  <2>1. /\ link' = "down" /\ inbox' = <<>> /\ Finish(Gossip) /\ drops' = drops + 1
        /\ UNCHANGED <<conf, polls, past, sequence, pending, stored, form, published,
                       requests>>
    BY <1>3 DEF Drop
  <2>2. Relayed'
    BY <2>1, Basics DEF Relayed
  <2>3. Budget' /\ drops' \in Nat
    BY <1>1, <2>1, Basics, Finishes DEF Budget
  <2> QED
    BY <1>1, <2>1, <2>2, <2>3, Basics, Finishes, QuietStep
<1> QED
  BY <1>2, <1>3

(* An event is taken up. *)
LEMMA Ingested ==
  ASSUME IInv, NEW p \in Procs, NEW e \in Heard, BeginIngest(p, e), UNCHANGED conf,
         p = Web => webhook
  PROVE  /\ step' \in [Procs -> Steps] /\ job' \in [Procs -> Job] /\ Others(p)
         /\ JobOK(p)' /\ Owed' \in {0, 1} /\ (p = Gossip => Owed' = Owed)
         /\ step'[p] # "commit"
<1> DEFINE j == [event |-> e, poll |-> e.d, texts |-> e.options, tombstone |-> FALSE,
                 active |-> e.active, carries |-> None]
           s == IF e.d = None THEN "create" ELSE "find"
<1>1. step' = [step EXCEPT ![p] = s] /\ job' = [job EXCEPT ![p] = j]
  BY DEF BeginIngest, Goto
<1>2. j \in Job /\ s \in Steps
  BY HeardTyped DEF Job, Steps
<1>3. /\ step' \in [Procs -> Steps] /\ job' \in [Procs -> Job] /\ Others(p)
      /\ step'[p] = s /\ job'[p] = j /\ (p = Gossip => Owed' = Owed)
  <2> HIDE DEF j, s
  <2> QED
    BY <1>1, <1>2, Goes
<1>4. webhook' = webhook
  BY DEF conf
<1>5. JobOK(p)'
  BY <1>3, <1>4, HeardTyped DEF JobOK
<1> QED
  BY <1>3, <1>5 DEF Owed

(* The next event of the inbox. *)
LEMMA Heads ==
  ASSUME IInv, inbox # <<>>
  PROVE  Head(inbox) \in Heard /\ Tail(inbox) \in Seq(Heard)
BY DEF IInv, Consistent, Relayed

(* An event is handled or pushed. *)
LEMMA Receptions ==
  ASSUME IInv, HandleEvent \/ \E e \in PeerEvents \cup stored : PushEvent(e)
  PROVE  IInv'
<1>1. CASE HandleEvent
  <2>1. /\ inbox # <<>> /\ Gossip \in Procs
        /\ UNCHANGED <<conf, polls, sequence, pending, stored, form, published, bounds,
                       past, requests, drops>>
    BY <1>1, Processes DEF HandleEvent, bounds
  <2>2. CASE async_orm /\ Head(inbox).fault # "content"
    <3>1. BeginIngest(Gossip, Head(inbox)) /\ inbox' = Tail(inbox) /\ link' = link
      BY <1>1, <2>2 DEF HandleEvent
    <3>2. /\ step' \in [Procs -> Steps] /\ job' \in [Procs -> Job] /\ Others(Gossip)
          /\ JobOK(Gossip)' /\ Owed' = Owed
      BY <2>1, <3>1, Heads, Ingested, Processes
    <3>3. Relayed' /\ Budget'
      BY <2>1, <3>1, <3>2, Heads, Basics DEF Relayed, Budget
    <3> QED
      BY <2>1, <3>1, <3>2, <3>3, Basics, QuietStep
  <2>3. CASE ~(async_orm /\ Head(inbox).fault # "content")
    BY <1>1, <2>1, <2>3, Basics, Raised DEF HandleEvent
  <2> QED
    BY <2>2, <2>3
<1>2. ASSUME NEW e \in PeerEvents \cup stored, PushEvent(e)
      PROVE  IInv'
  <2>1. /\ webhook /\ requests < MaxRequests /\ step[Web] = "idle" /\ Web \in Procs
        /\ requests' = requests + 1 /\ BeginIngest(Web, e)
        /\ UNCHANGED <<conf, polls, sequence, pending, form, relay, drops, past>>
    BY <1>2, Processes DEF PushEvent
  <2>2. UNCHANGED <<stored, link, inbox, published>>
    BY <2>1 DEF relay
  <2>3. e \in Heard
    BY EventAssumption, Basics DEF Relayed, Heard
  <2>4. /\ step' \in [Procs -> Steps] /\ job' \in [Procs -> Job] /\ Others(Web)
        /\ JobOK(Web)' /\ Owed' \in {0, 1} /\ step'[Web] # "commit"
    BY <2>1, <2>3, Ingested
  <2>5. Relayed'
    BY <2>2, Basics DEF Relayed
  <2>6. Budget'
    <3>1. Owed = 0
      BY <2>1 DEF Owed
    <3> QED
      BY <2>1, <2>2, <2>4, <3>1, Basics, BoundAssumption DEF Budget
  <2> QED
    BY <2>1, <2>2, <2>4, <2>5, <2>6, Basics, QuietStep
<1> QED
  BY <1>1, <1>2

(* An event that this node signs. *)
LEMMA Publishes ==
  ASSUME IInv, NEW e \in Event, e.id = published + 1, published < MaxRequests, Publish(e)
  PROVE  Relayed' /\ published' = published + 1 /\ link' = link
<1>1. e.id \in Own /\ e \in Heard
  BY Basics, BoundAssumption DEF Own, Heard
<1>2. published' = published + 1 /\ link' = link
  BY DEF Publish
<1>3. Relayed
  BY Basics
<1>4. CASE UNCHANGED <<stored, inbox>>
  BY <1>2, <1>3, <1>4 DEF Relayed
<1>5. CASE /\ stored' = {f \in stored : f.id \notin Own \/ f.d # e.d} \cup {e}
           /\ inbox' = IF link = "up" THEN Append(inbox, e) ELSE inbox
  <2>1. IsFiniteSet(stored')
    <3>1. IsFiniteSet({f \in stored : f.id \notin Own \/ f.d # e.d})
      BY <1>3, FS_Subset DEF Relayed
    <3> QED
      BY <1>5, <3>1, FS_AddElement
  <2>2. stored' \subseteq Heard
    BY <1>1, <1>3, <1>5 DEF Relayed
  <2>3. inbox' \in Seq(Heard)
    BY <1>1, <1>3, <1>5 DEF Relayed
  <2> QED
    BY <1>2, <2>1, <2>2, <2>3 DEF Relayed
<1> QED
  BY <1>2, <1>4, <1>5 DEF Publish

(* What a poll publishes is an event. *)
LEMMA PollEventTyped ==
  ASSUME IInv, published < MaxRequests, NEW id \in Ids, NEW tombstone \in BOOLEAN,
         NEW active \in BOOLEAN, NEW options \in SUBSET Texts
  PROVE  /\ PollEvent(id, tombstone, active, options) \in Event
         /\ PollEvent(id, tombstone, active, options).id = published + 1
<1>1. published + 1 \in EventIds
  BY Basics, BoundAssumption DEF EventIds, Own
<1> QED
  BY <1>1 DEF PollEvent, Event, Faults

(* The options of a poll are texts. *)
LEMMA TextsTyped ==
  ASSUME NEW id
  PROVE  TextsOf(id) \in SUBSET Texts
BY DEF TextsOf

(* A save of this node: one request, one event. *)
LEMMA Saved ==
  ASSUME IInv, NEW id \in Ids, NEW tombstone \in BOOLEAN, NEW active \in BOOLEAN,
         NEW options \in SUBSET Texts, NEW texts \in SUBSET Texts, sequence' \in Nat,
         NEW carries \in EventIds \cup {None}, carries = None \/ ~Carried(carries, id),
         Save(id, tombstone, active, options, texts, carries)
  PROVE  IInv'
<1> DEFINE j == [event |-> None, poll |-> id, texts |-> texts, tombstone |-> tombstone,
                 active |-> active, carries |-> carries]
<1>1. /\ step[Web] = "idle" /\ requests < MaxRequests /\ requests' = requests + 1
      /\ Publish(PollEvent(id, tombstone, active, options))
      /\ pending' = pending \cup {id} /\ Web \in Procs
      /\ job' = [job EXCEPT ![Web] = j] /\ step' = [step EXCEPT ![Web] = "commit"]
      /\ UNCHANGED <<conf, polls, form, drops, past>>
  BY Processes DEF Save, Goto
<1>2. published < MaxRequests /\ Owed = 0
  BY <1>1, Basics, BoundAssumption DEF Owed
<1>3. Relayed' /\ published' = published + 1 /\ link' = link
  BY <1>1, <1>2, PollEventTyped, Publishes
<1>4. j \in Job /\ "commit" \in Steps
  BY DEF Job, Steps
<1>5. /\ step' \in [Procs -> Steps] /\ job' \in [Procs -> Job] /\ Others(Web)
      /\ step'[Web] = "commit" /\ job'[Web] = j
  BY <1>1, <1>4, Goes
<1>6. JobOK(Web)'
  BY <1>5 DEF JobOK
<1>7. Budget'
  BY <1>1, <1>2, <1>3, <1>5, Basics, BoundAssumption DEF Budget, Owed
<1>8. Reserved'
  BY <1>1, <1>5 DEF Reserved, Carried
<1> QED
  BY <1>1, <1>3, <1>5, <1>6, <1>7, <1>8, Basics, QuietStep

(* A poll is saved, shown in a form, or deleted. *)
LEMMA Saves ==
  ASSUME IInv,
         \/ \E texts \in SUBSET Texts : CreateInWeb(texts)
         \/ SaveForm \/ \E id \in Ids : LoadForm(id) \/ DeletePoll(id)
  PROVE  IInv'
<1>1. ASSUME NEW texts \in SUBSET Texts, CreateInWeb(texts)
      PROVE  IInv'
  <2>1. sequence \in Ids /\ sequence' \in Nat
    BY <1>1, Basics DEF CreateInWeb
  <2>2. CASE polls[sequence] = None
    BY <1>1, <2>1, <2>2, Saved DEF CreateInWeb
  <2>3. CASE polls[sequence] # None
    <3>1. /\ step[Web] = "idle"
          /\ UNCHANGED <<conf, polls, pending, stored, link, inbox, published, form, step,
                         job, requests, drops, past>>
      BY <1>1, <2>3 DEF CreateInWeb, relay, bounds
    <3>2. Others(Web) /\ Budget' /\ Relayed' /\ Web \in Procs
      BY <3>1, Basics, Processes DEF Others, Budget, Owed, Relayed
    <3>3. JobOK(Web)'
      <4>1. Grows /\ Same /\ deleted \subseteq deleted'
        BY <3>1, Still DEF past
      <4> QED
        BY <3>1, <3>2, <4>1, Unmoved DEF IInv
    <3> QED
      BY <2>1, <3>1, <3>2, <3>3, Basics, QuietStep
  <2> QED
    BY <2>2, <2>3
<1>2. ASSUME NEW id \in Ids, DeletePoll(id)
      PROVE  IInv'
  <2>1. Save(id, TRUE, FALSE, {}, {}, None) /\ sequence' \in Nat
    BY <1>2, Basics DEF DeletePoll
  <2>2. /\ TRUE \in BOOLEAN /\ FALSE \in BOOLEAN /\ {} \in SUBSET Texts
        /\ None \in EventIds \cup {None}
    OBVIOUS
  <2> QED
    BY <2>1, <2>2, Saved, Zenon
<1>3. CASE SaveForm
  <2>1. form \in Form /\ sequence' \in Nat
    BY <1>3, Basics DEF SaveForm
  <2>2. PICK id \in Ids, active \in BOOLEAN, event \in EventIds \cup {None},
             options \in SUBSET Texts :
          /\ id = form.poll /\ active = form.active /\ event = form.event
          /\ options = TextsOf(form.poll)
    BY <2>1, TextsTyped DEF Form
  <2>3. Save(form.poll, FALSE, form.active, TextsOf(form.poll), {}, form.event)
    BY <1>3 DEF SaveForm
  <2>4. Save(id, FALSE, active, options, {}, event)
    BY <2>2, <2>3 DEF Save, Publish
  <2>5. event = None \/ ~Carried(event, id)
    BY <1>3, <2>2 DEF SaveForm
  <2>6. FALSE \in BOOLEAN /\ {} \in SUBSET Texts
    OBVIOUS
  <2> QED
    BY <2>1, <2>4, <2>5, <2>6, Saved, Zenon
<1>4. ASSUME NEW id \in Ids, LoadForm(id)
      PROVE  IInv'
  <2>1. /\ step[Web] = "idle" /\ polls[id] # None
        /\ form' = [poll |-> id, active |-> polls[id].active, event |-> polls[id].event]
        /\ UNCHANGED <<conf, polls, pending, sequence, stored, link, inbox, published, step,
                       job, requests, drops, past>>
    BY <1>4 DEF LoadForm, relay, bounds
  <2>2. form' \in Form
    BY <2>1, Basics DEF Form, Poll
  <2>3. Others(Web) /\ Budget' /\ Relayed' /\ Web \in Procs
    BY <2>1, Basics, Processes DEF Others, Budget, Owed, Relayed
  <2>4. JobOK(Web)'
    <3>1. Grows /\ Same /\ deleted \subseteq deleted'
      BY <2>1, Still DEF past
    <3> QED
      BY <2>1, <2>3, <3>1, Unmoved DEF IInv
  <2> QED
    BY <2>1, <2>2, <2>3, <2>4, Basics, QuietStep
<1> QED
  BY <1>1, <1>2, <1>3, <1>4

------------------------------------------------------------------------------
(* What is known of a process that ingests an event. *)
LEMMA Ingesting ==
  ASSUME IInv, NEW p \in Procs, step[p] \notin {"idle", "commit"}
  PROVE  LET j == job[p] IN
         /\ j \in Job /\ JobOK(p) /\ j.event \in Heard /\ j.texts \in SUBSET Texts
         /\ j.event.d \in {None, j.poll} /\ j.event.id \in EventIds
         /\ step[p] # "create" => j.poll \in Ids
         /\ p = Gossip \/ webhook
<1>1. job[p] \in Job /\ JobOK(p)
  BY DEF IInv, Consistent, TypeOK
<1>2. job[p].event \in Heard
  BY <1>1 DEF JobOK
<1> QED
  BY <1>1, <1>2, HeardTyped DEF JobOK, Job, Procs

(* A poll gets a row, or another one that is not older. *)
LEMMA RowPut ==
  ASSUME IInv, NEW id \in Ids, NEW row \in Poll, polls' = [polls EXCEPT ![id] = row],
         UNCHANGED <<conf, deleted>>,
         row.event = None \/ \A i \in Ids \ {id} : polls[i] # None => polls[i].event # row.event,
         polls[id] = None \/ \A t \in Texts : polls[id].options[t] <= row.options[t],
         webhook \/ id \in deleted \/ \A t \in Texts : row.options[t] <= 1
  PROVE  /\ polls' \in [Ids -> Poll \cup {None}] /\ Unique' /\ OptionsOnce'
         /\ polls'[id] = row /\ TextsOf(id)' = {t \in Texts : row.options[t] > 0}
         /\ Grows
         /\ polls[id] = None \/ polls[id].options = row.options => Same
<1>1. polls \in [Ids -> Poll \cup {None}] /\ Unique /\ OptionsOnce
  BY DEF IInv, Consistent, TypeOK, Unique
<1>2. /\ polls' \in [Ids -> Poll \cup {None}] /\ polls'[id] = row /\ row # None
      /\ \A i \in Ids \ {id} : polls'[i] = polls[i]
  BY <1>1, NoneAssumption
<1>3. TextsOf(id)' = {t \in Texts : row.options[t] > 0}
  BY <1>2 DEF TextsOf
<1>4. \A i \in Ids \ {id} : TextsOf(i)' = TextsOf(i)
  BY <1>2 DEF TextsOf
<1>5. polls[id] # None =>
        /\ TextsOf(id) \subseteq TextsOf(id)'
        /\ polls[id].options = row.options => TextsOf(id)' = TextsOf(id)
  <2> SUFFICES ASSUME polls[id] # None
               PROVE  /\ TextsOf(id) \subseteq TextsOf(id)'
                      /\ polls[id].options = row.options => TextsOf(id)' = TextsOf(id)
    OBVIOUS
  <2>1. polls[id] \in Poll
    BY <1>1
  <2>2. polls[id].options \in [Texts -> Nat] /\ row.options \in [Texts -> Nat]
    BY <2>1 DEF Poll
  <2>3. TextsOf(id) = {t \in Texts : polls[id].options[t] > 0}
    BY DEF TextsOf
  <2> QED
    BY <1>3, <2>2, <2>3
<1>6. Unique'
  <2>1. ASSUME NEW i \in Ids, NEW k \in Ids, polls'[i] # None, polls'[k] # None, i # k,
               polls'[i].event # None
        PROVE  polls'[i].event # polls'[k].event
    <3>1. CASE i = id
      BY <1>2, <2>1, <3>1
    <3>2. CASE k = id
      BY <1>2, <2>1, <3>2
    <3>3. CASE i # id /\ k # id
      BY <1>1, <1>2, <2>1, <3>3 DEF Unique
    <3> QED
      BY <3>1, <3>2, <3>3
  <2> QED
    BY <2>1 DEF Unique
<1>7. OptionsOnce'
  <2> SUFFICES ASSUME ~webhook, NEW i \in Ids \ deleted, NEW t \in Texts, polls'[i] # None
               PROVE  polls'[i].options[t] <= 1
    BY DEF OptionsOnce, conf
  <2>1. CASE i = id
    BY <1>2, <2>1
  <2>2. CASE i # id
    BY <1>1, <1>2, <2>2 DEF OptionsOnce
  <2> QED
    BY <2>1, <2>2
<1>8. Grows
  BY <1>2, <1>4, <1>5 DEF Grows
<1>9. polls[id] = None \/ polls[id].options = row.options => Same
  BY <1>2, <1>4, <1>5 DEF Same
<1> QED
  BY <1>2, <1>3, <1>6, <1>7, <1>8, <1>9

(* A transaction commits. *)
LEMMA Commits ==
  ASSUME IInv, CommitPoll
  PROVE  IInv'
<1> DEFINE j == job[Web]
           row == IF polls[j.poll] # None
                  THEN [polls[j.poll] EXCEPT !.active = j.active, !.event = j.carries]
                  ELSE [active |-> TRUE, event |-> None,
                        options |-> [t \in Texts |-> IF t \in j.texts THEN 1 ELSE 0]]
<1>1. /\ step[Web] = "commit" /\ Web \in Procs /\ Finish(Web)
      /\ pending' = pending \ {j.poll}
      /\ deleted' = IF j.tombstone THEN deleted \cup {j.poll} ELSE deleted
      /\ revived' \subseteq revived \cup {j.poll}
      /\ UNCHANGED <<conf, sequence, stored, link, inbox, published, form, requests, drops,
                     applied>>
  BY Processes DEF CommitPoll, relay, bounds
<1>2. /\ j \in Job /\ j.poll \in Ids
      /\ j.carries = None \/ ~Carried(j.carries, j.poll)
  BY <1>1, Basics DEF IInv, Consistent, JobOK, Reserved
<1>3. PICK id \in Ids : id = j.poll
  BY <1>2
<1>4. /\ TypeOK /\ polls \in [Ids -> Poll \cup {None}]
      /\ deleted \subseteq Ids /\ applied \subseteq EventIds
  BY Basics DEF TypeOK
<1>5. /\ polls' \in [Ids -> Poll \cup {None}] /\ Unique' /\ OptionsOnce'
      /\ Grows /\ Same /\ deleted \subseteq deleted' /\ deleted' \subseteq Ids
  <2>1. CASE j.tombstone
    <3>1. polls' = [polls EXCEPT ![id] = None] /\ deleted' = deleted \cup {id}
      BY <1>1, <1>3, <2>1 DEF CommitPoll
    <3>2. /\ polls' \in [Ids -> Poll \cup {None}] /\ polls'[id] = None
          /\ \A i \in Ids \ {id} : polls'[i] = polls[i] /\ TextsOf(i)' = TextsOf(i)
      BY <1>4, <3>1 DEF TextsOf
    <3>3. Unique'
      BY <1>4, <3>2 DEF TypeOK, Unique
    <3>4. OptionsOnce'
      BY <1>1, <3>1, <3>2, Basics DEF OptionsOnce, conf
    <3>5. Grows /\ Same
      BY <3>1, <3>2 DEF Grows, Same
    <3> QED
      BY <1>4, <3>1, <3>2, <3>3, <3>4, <3>5
  <2>2. CASE ~j.tombstone
    <3>1. polls' = [polls EXCEPT ![id] = row] /\ deleted' = deleted
      BY <1>1, <1>3, <2>2 DEF CommitPoll
    <3>2. /\ row \in Poll /\ row.event \in {None, j.carries}
          /\ polls[id] = None \/ polls[id].options = row.options
      <4>1. CASE polls[id] = None
        BY <1>3, <1>4, <4>1 DEF Poll
      <4>2. CASE polls[id] # None
        BY <1>2, <1>3, <1>4, <4>2 DEF Poll, Job
      <4> QED
        BY <4>1, <4>2
    <3>3. row.event = None \/ \A i \in Ids \ {id} : polls[i] # None => polls[i].event # row.event
      BY <1>2, <1>3, <3>2 DEF Carried
    <3>4. polls[id] = None \/ \A t \in Texts : polls[id].options[t] <= row.options[t]
      <4>1. row.options \in [Texts -> Nat]
        BY <3>2 DEF Poll
      <4> HIDE DEF row
      <4> QED
        BY <3>2, <4>1
    <3>5. webhook \/ id \in deleted \/ \A t \in Texts : row.options[t] <= 1
      <4>1. CASE polls[id] = None
        BY <1>3, <4>1
      <4>2. CASE polls[id] # None
        BY <1>3, <3>2, <4>2, Basics DEF OptionsOnce
      <4> QED
        BY <4>1, <4>2
    <3> HIDE DEF row
    <3> QED
      BY <1>1, <1>4, <3>1, <3>2, <3>3, <3>4, <3>5, RowPut
  <2> QED
    BY <2>1, <2>2
<1>6. Relayed' /\ Budget'
  BY <1>1, Basics, Finishes DEF Relayed, Budget
<1>7. TakenWhole'
  BY <1>1, <1>5, StillWhole
<1>8. pending' \subseteq Ids /\ revived' \subseteq Ids
  BY <1>1, <1>2, Basics
<1>9. Reserved'
  BY <1>1, Finishes DEF Reserved
<1> QED
  BY <1>1, <1>4, <1>5, <1>6, <1>7, <1>8, <1>9, Basics, Finishes, PollStep

(* A transaction is rolled back. *)
LEMMA Ends ==
  ASSUME IInv, RollBack \/ CrashWeb
  PROVE  IInv'
<1>1. /\ Web \in Procs /\ Finish(Web) /\ pending' \subseteq pending
      /\ UNCHANGED <<conf, polls, past, sequence, stored, link, inbox, published, form,
                     requests, drops>>
  BY Processes DEF RollBack, CrashWeb, relay, bounds
<1>2. Relayed' /\ Budget'
  BY <1>1, Basics, Finishes DEF Relayed, Budget
<1>3. pending' \subseteq Ids
  BY <1>1, Basics
<1> QED
  BY <1>1, <1>2, <1>3, Basics, Finishes, QuietStep

(* A poll is looked up. *)
LEMMA Finds ==
  ASSUME IInv, NEW p \in Procs, FindPoll(p)
  PROVE  IInv'
<1> DEFINE s == IF polls[job[p].poll] = None THEN "create" ELSE "update"
<1>1. /\ step[p] = "find" /\ step' = [step EXCEPT ![p] = s]
      /\ UNCHANGED <<conf, polls, past, sequence, pending, stored, link, inbox,
                     published, form, requests, drops, job>>
  BY DEF FindPoll, Goto, relay, bounds
<1>2. job[p] \in Job /\ JobOK(p) /\ s \in Steps /\ s # "commit"
  BY <1>1, Ingesting DEF Steps
<1>3. job' = [job EXCEPT ![p] = job[p]]
  BY <1>1, Basics
<1>4. /\ step' \in [Procs -> Steps] /\ job' \in [Procs -> Job] /\ Others(p)
      /\ step'[p] = s /\ job'[p] = job[p] /\ (p = Gossip => Owed' = Owed)
  BY <1>1, <1>2, <1>3, Goes
<1>5. JobOK(p)'
  BY <1>1, <1>2, <1>4 DEF JobOK, conf
<1>6. Owed' = Owed
  BY <1>1, <1>4, Processes DEF Owed, Procs
<1>7. Relayed' /\ Budget'
  BY <1>1, <1>6, Basics DEF Relayed, Budget
<1>8. p = Gossip \/ step'[Web] # "commit"
  BY <1>2, <1>4 DEF Procs
<1> QED
  BY <1>1, <1>4, <1>5, <1>7, <1>8, Basics, QuietStep

(* A row gets the id of an event that its process did not have to wait for. *)
LEMMA FreeOf ==
  ASSUME IInv, NEW p \in Procs, NEW id \in Ids, NEW e, ~Waits(e, id),
         polls' \in [Ids -> Poll \cup {None}], polls'[id].event = e.id,
         \A i \in Ids \ {id} : polls'[i] = polls[i],
         Others(p), step'[p] # "commit"
  PROVE  Reserved'
<1> SUFFICES ASSUME step'[Web] = "commit", job'[Web].carries # None,
                    NEW i \in Ids \ {job'[Web].poll}, polls'[i] # None
             PROVE  polls'[i].event # job'[Web].carries
  BY DEF Reserved, Carried
<1>1. step'[Web] = step[Web] /\ job'[Web] = job[Web]
  BY Processes DEF Others
<1>2. CASE i = id
  BY <1>1, <1>2 DEF Waits
<1>3. CASE i # id
  BY <1>1, <1>3 DEF IInv, Consistent, Reserved, Carried
<1> QED
  BY <1>2, <1>3

(* The event overwrites the poll; nobody else carries its id.               *)
LEMMA Updates ==
  ASSUME IInv, NEW p \in Procs, UpdatePoll(p)
  PROVE  IInv'
<1> DEFINE j == job[p]
<1>1. /\ step[p] = "update"
      /\ ~Waits(j.event, j.poll)
      /\ UNCHANGED <<conf, sequence, pending, stored, form, published, bounds, past,
                     requests, drops, deleted, applied, revived>>
  BY DEF UpdatePoll, bounds, past
<1>2. /\ j \in Job /\ JobOK(p) /\ j.event \in Heard /\ j.event.id \in EventIds
      /\ j.poll \in Ids /\ (p = Gossip \/ webhook)
  BY <1>1, Ingesting
<1>3. CASE polls[j.poll] = None \/ Refused(j.event, j.poll)
  <2>1. Raise(p) /\ UNCHANGED polls
    BY <1>3 DEF UpdatePoll
  <2> QED
    BY <1>1, <2>1, Basics, Raised
<1>4. CASE ~(polls[j.poll] = None \/ Refused(j.event, j.poll))
  <2> DEFINE row == [polls[j.poll] EXCEPT !.active = j.active, !.event = j.event.id]
  <2>1. /\ polls' = [polls EXCEPT ![j.poll] = row] /\ step' = [step EXCEPT ![p] = "publish"]
        /\ UNCHANGED <<job, link, inbox>>
    BY <1>4 DEF UpdatePoll, Goto
  <2>2. /\ row \in Poll /\ row.options = polls[j.poll].options /\ row.event = j.event.id
        /\ \A t \in Texts : polls[j.poll].options[t] <= row.options[t]
    <3>1. polls[j.poll] \in Poll
      BY <1>2, <1>4, Basics
    <3>2. row \in Poll /\ row.options = polls[j.poll].options /\ row.event = j.event.id
      BY <1>2, <3>1 DEF Poll, Job
    <3>3. row.options \in [Texts -> Nat]
      BY <3>2 DEF Poll
    <3> QED
      BY <3>2, <3>3
  <2>3. \A i \in Ids \ {j.poll} : polls[i] # None => polls[i].event # row.event
    BY <1>4, <2>2 DEF Refused, Carried
  <2>4. webhook \/ j.poll \in deleted \/ \A t \in Texts : row.options[t] <= 1
    BY <1>2, <1>4, <2>2, Basics DEF OptionsOnce
  <2>5. PICK id \in Ids : id = j.poll
    BY <1>2
  <2>6. /\ polls' \in [Ids -> Poll \cup {None}] /\ Unique' /\ OptionsOnce'
        /\ polls'[id] = row /\ Grows
    <3> HIDE DEF row, j
    <3> QED
      BY <1>1, <2>1, <2>2, <2>3, <2>4, <2>5, RowPut
  <2>7. /\ step' \in [Procs -> Steps] /\ job' \in [Procs -> Job] /\ Others(p)
        /\ step'[p] = "publish" /\ job'[p] = j /\ (p = Gossip => Owed' = Owed)
    <3>1. job' = [job EXCEPT ![p] = j] /\ "publish" \in Steps
      BY <2>1, Basics DEF Steps
    <3> QED
      BY <1>2, <2>1, <3>1, Goes
  <2>8. Owed' = Owed
    BY <1>1, <2>7, Processes DEF Owed, Procs
  <2>9. JobOK(p)'
    <3>1. row # None
      BY <2>2, NoneAssumption
    <3>2. /\ step[p] \notin {"idle", "commit", "options"} /\ j.texts = j.event.options
          /\ j.event.d \in {None, j.poll} /\ j.poll # None
      BY <1>1, <1>2, NoneAssumption DEF JobOK
    <3> HIDE DEF row
    <3>3. polls'[j.poll] # None
      BY <2>5, <2>6, <3>1
    <3> QED
      BY <1>1, <1>2, <2>7, <3>2, <3>3, Processes DEF JobOK, conf, Procs
  <2>10. Relayed' /\ Budget' /\ TakenWhole'
    BY <1>1, <2>1, <2>6, <2>8, Basics, StillWhole DEF Relayed, Budget
  <2>11. applied' \subseteq EventIds /\ deleted' \subseteq Ids
    BY <1>1, Basics DEF TypeOK
  <2>12. p = Gossip \/ webhook
    BY <1>2
  <2>13. Reserved'
    <3>1. polls'[id].event = j.event.id
      BY <2>2, <2>6
    <3>2. \A i \in Ids \ {id} : polls'[i] = polls[i]
      BY <2>1, <2>5, Basics
    <3>3. ~Waits(j.event, id)
      BY <1>1, <2>5
    <3> HIDE DEF row, j
    <3> QED
      BY <2>6, <2>7, <3>1, <3>2, <3>3, FreeOf
  <2> QED
    BY <1>1, <2>1, <2>6, <2>7, <2>9, <2>10, <2>11, <2>12, <2>13, Basics, PollStep
<1> QED
  BY <1>3, <1>4

(* A new row has no options yet. *)
LEMMA Creates ==
  ASSUME IInv, NEW p \in Procs, CreatePoll(p)
  PROVE  IInv'
<1> DEFINE j == job[p]
           new == IF j.poll = None THEN sequence ELSE j.poll
           row == [active |-> j.active, event |-> j.event.id, options |-> NoOptions]
           next == [job[p] EXCEPT !.poll = new]
<1>1. /\ step[p] = "create" /\ new \in Ids /\ ~Waits(j.event, new)
      /\ sequence' = (IF j.poll = None THEN sequence + 1 ELSE sequence)
      /\ UNCHANGED <<conf, pending, stored, form, published, bounds, past,
                     requests, drops, deleted, applied, revived>>
  BY DEF CreatePoll, bounds, past
<1>2. /\ j \in Job /\ JobOK(p) /\ j.event \in Heard /\ j.event.id \in EventIds
      /\ j.event.d \in {None, j.poll} /\ (p = Gossip \/ webhook) /\ sequence' \in Nat
  BY <1>1, Ingesting, Basics
<1>3. CASE polls[new] # None \/ Refused(j.event, new)
  <2>1. Raise(p) /\ UNCHANGED polls
    BY <1>3 DEF CreatePoll
  <2> QED
    BY <1>1, <1>2, <2>1, Raised
<1>4. CASE ~(polls[new] # None \/ Refused(j.event, new))
  <2>1. /\ polls' = [polls EXCEPT ![new] = row] /\ step' = [step EXCEPT ![p] = "publish"]
        /\ job' = [job EXCEPT ![p].poll = new] /\ UNCHANGED <<link, inbox>>
    BY <1>4 DEF CreatePoll, Goto
  <2>2. /\ row \in Poll /\ row.event = j.event.id
        /\ \A t \in Texts : row.options[t] = 0
    BY <1>2 DEF Poll, Job, NoOptions
  <2>3. \A i \in Ids \ {new} : polls[i] # None => polls[i].event # row.event
    BY <1>4, <2>2 DEF Refused, Carried
  <2>4. webhook \/ new \in deleted \/ \A t \in Texts : row.options[t] <= 1
    BY <2>2
  <2>5. PICK id \in Ids : id = new
    BY <1>1
  <2>6. polls[id] = None
    BY <1>4, <2>5
  <2>7. /\ polls' \in [Ids -> Poll \cup {None}] /\ Unique' /\ OptionsOnce'
        /\ polls'[id] = row /\ Grows /\ Same
    <3> HIDE DEF row, j, new
    <3> QED
      BY <1>1, <2>1, <2>2, <2>3, <2>4, <2>5, <2>6, RowPut
  <2>8. /\ next \in Job /\ next.poll = new /\ next.event = j.event
        /\ next.texts = j.texts
    BY <1>1, <1>2 DEF Job
  <2>9. /\ step' \in [Procs -> Steps] /\ job' \in [Procs -> Job] /\ Others(p)
        /\ step'[p] = "publish" /\ job'[p] = next /\ (p = Gossip => Owed' = Owed)
    <3>1. job' = [job EXCEPT ![p] = next] /\ "publish" \in Steps
      BY <2>1, Basics DEF Steps
    <3> HIDE DEF next
    <3> QED
      BY <2>1, <2>8, <3>1, Goes
  <2>10. Owed' = Owed
    BY <1>1, <2>9, Processes DEF Owed, Procs
  <2>11. JobOK(p)'
    <3>1. row # None
      BY <2>2, NoneAssumption
    <3>2. j.texts = j.event.options
      BY <1>1, <1>2 DEF JobOK
    <3>3. new \in Ids /\ new # None /\ j.event.d \in {None, new}
      BY <1>1, <1>2, NoneAssumption
    <3> HIDE DEF row, new, next
    <3>4. polls'[new] # None
      BY <2>5, <2>7, <3>1
    <3> QED
      BY <1>1, <1>2, <2>8, <2>9, <3>2, <3>3, <3>4, Processes DEF JobOK, conf, Procs
  <2>12. Relayed' /\ Budget' /\ TakenWhole'
    BY <1>1, <2>1, <2>7, <2>10, Basics, StillWhole DEF Relayed, Budget
  <2>13. applied' \subseteq EventIds /\ deleted' \subseteq Ids
    BY <1>1, Basics DEF TypeOK
  <2>14. p = Gossip \/ webhook
    BY <1>2
  <2>15. Reserved'
    <3>1. polls'[id].event = j.event.id
      BY <2>2, <2>7
    <3>2. \A i \in Ids \ {id} : polls'[i] = polls[i]
      BY <2>1, <2>5, Basics
    <3>3. ~Waits(j.event, id)
      BY <1>1, <2>5
    <3> HIDE DEF row, j, new, next
    <3> QED
      BY <2>7, <2>9, <3>1, <3>2, <3>3, FreeOf
  <2> QED
    BY <1>1, <1>2, <2>1, <2>7, <2>9, <2>11, <2>12, <2>13, <2>14, <2>15, Basics, PollStep
<1> QED
  BY <1>3, <1>4

(* The web process publishes what it has been asked to; the worker cannot.  *)
LEMMA Announces ==
  ASSUME IInv, NEW p \in Procs, PublishPoll(p)
  PROVE  IInv'
<1> DEFINE j == job[p]
<1>1. /\ step[p] = "publish" /\ step' = [step EXCEPT ![p] = "existing"]
      /\ UNCHANGED <<conf, polls, past, sequence, pending, form, job, bounds, requests, drops>>
  BY DEF PublishPoll, Goto, bounds
<1>2. j \in Job /\ JobOK(p) /\ "existing" \in Steps /\ j.poll \in Ids /\ j.active \in BOOLEAN
  BY <1>1, Ingesting DEF Steps, Job
<1>3. job' = [job EXCEPT ![p] = job[p]]
  BY <1>1, Basics
<1>4. /\ step' \in [Procs -> Steps] /\ job' \in [Procs -> Job] /\ Others(p)
      /\ step'[p] = "existing" /\ job'[p] = j /\ (p = Gossip => Owed' = Owed)
  BY <1>1, <1>2, <1>3, Goes
<1>5. JobOK(p)'
  <2>1. deleted' = deleted
    BY <1>1 DEF past
  <2> QED
    BY <1>1, <1>2, <1>4, <2>1 DEF JobOK, conf
<1>6. Relayed' /\ Budget' /\ link' \in {"new", "up", "down"} /\ published' \in Nat
  <2>1. CASE p = Gossip
    <3>1. UNCHANGED <<stored, link, inbox, published>>
      BY <1>1, <2>1 DEF PublishPoll, CanPublish, relay
    <3> QED
      BY <1>1, <1>4, <2>1, <3>1, Basics DEF Relayed, Budget
  <2>2. CASE p = Web
    <3>1. Owed = 1 /\ Owed' = 0
      BY <1>1, <1>4, <2>2 DEF Owed
    <3>2. published < MaxRequests
      BY <3>1, Basics, BoundAssumption
    <3>3. PICK active \in BOOLEAN, options \in SUBSET Texts :
              active = j.active /\ options = TextsOf(j.poll)
      BY <1>2, TextsTyped
    <3>4. Publish(PollEvent(j.poll, FALSE, j.active, TextsOf(j.poll)))
      BY <1>1, <2>2, Processes DEF PublishPoll, CanPublish
    <3>5. PICK id \in Ids : id = j.poll
      BY <1>2
    <3>6. PICK e : e = PollEvent(j.poll, FALSE, j.active, TextsOf(j.poll))
      OBVIOUS
    <3>7. e \in Event /\ e.id = published + 1
      <4>1. /\ PollEvent(id, FALSE, active, options) \in Event
            /\ PollEvent(id, FALSE, active, options).id = published + 1
        <5>1. FALSE \in BOOLEAN
          OBVIOUS
        <5> QED
          BY <3>2, <5>1, PollEventTyped, Zenon
      <4> QED
        BY <3>3, <3>5, <3>6, <4>1 DEF PollEvent
    <3>8. Publish(e)
      BY <3>4, <3>6 DEF Publish
    <3>9. Relayed' /\ published' = published + 1 /\ link' = link
      BY <3>2, <3>7, <3>8, Publishes
    <3> QED
      BY <1>1, <3>1, <3>9, Basics, BoundAssumption DEF Budget
  <2> QED
    BY <2>1, <2>2 DEF Procs
<1>7. p = Gossip \/ step'[Web] # "commit"
  BY <1>4 DEF Procs
<1> QED
  BY <1>1, <1>4, <1>5, <1>6, <1>7, Basics, QuietStep

(* A process that has ingested its event to the end: only the worker says   *)
(* so, of an event of a peer that no other event has the id of.             *)
LEMMA Ingests ==
  ASSUME IInv, NEW p \in Procs, step[p] \in {"existing", "options"}, Done(p),
         NEW id \in Ids, id = job[p].poll, UNCHANGED <<conf, stored>>, Grows,
         id \in deleted \/ (polls'[id] # None /\ job[p].event.options \subseteq TextsOf(id)')
  PROVE  /\ TakenWhole' /\ applied' \subseteq EventIds
         /\ deleted' = deleted /\ deleted' \subseteq Ids /\ Owed' <= Owed /\ Owed' \in {0, 1}
         /\ step' \in [Procs -> Steps] /\ job' \in [Procs -> Job] /\ Others(p) /\ JobOK(p)'
         /\ Relayed' /\ link' \in {"new", "up", "down"} /\ revived' \subseteq Ids
         /\ step'[p] = "idle"
<1> DEFINE j == job[p]
<1>1. /\ Finish(p) /\ deleted' = deleted /\ revived' = revived
      /\ applied' = applied \/ (j.event \in PeerEvents /\ applied' = applied \cup {j.event.id})
  BY DEF Done, Raise, past
<1>2. /\ j.event.id \in EventIds /\ j.event.d \in {None, id}
      /\ applied \subseteq EventIds /\ deleted \subseteq Ids
  BY Ingesting, Basics DEF TypeOK
<1>3. ASSUME NEW e \in PeerEvents, e.id \in applied' \ applied, e.d # None
      PROVE  e.d \in deleted' \/ (polls'[e.d] # None /\ e.options \subseteq TextsOf(e.d)')
  <2>1. e.id = j.event.id /\ j.event \in PeerEvents
    BY <1>1, <1>3
  <2>2. e = j.event
    BY <2>1, EventAssumption
  <2> QED
    BY <1>1, <1>2, <1>3, <2>2
<1>4. TakenWhole'
  BY <1>1, <1>3, StillWhole
<1>5. Relayed' /\ link' \in {"new", "up", "down"}
  <2>1. CASE Raise(p)
    BY <2>1, Breaks
  <2>2. CASE ~Raise(p)
    BY <2>2, Basics DEF Done, Relayed
  <2> QED
    BY <2>1, <2>2
<1> QED
  BY <1>1, <1>2, <1>4, <1>5, Basics, Finishes

(* A row keeps its nostr_event_id while its options grow. *)
LEMMA StillFree ==
  ASSUME IInv, NEW p \in Procs, Others(p), step'[p] # "commit",
         \A i \in Ids : polls'[i] # None => polls[i] # None /\ polls'[i].event = polls[i].event
  PROVE  Reserved'
<1> SUFFICES ASSUME step'[Web] = "commit", job'[Web].carries # None,
                    NEW i \in Ids \ {job'[Web].poll}, polls'[i] # None
             PROVE  polls'[i].event # job'[Web].carries
  BY DEF Reserved, Carried
<1>1. step'[Web] = step[Web] /\ job'[Web] = job[Web]
  BY Processes DEF Others
<1> QED
  BY <1>1 DEF IInv, Consistent, Reserved, Carried

(* The options are compared. *)
LEMMA Compares ==
  ASSUME IInv, NEW p \in Procs, ReadOptions(p)
  PROVE  IInv'
<1> DEFINE j == job[p]
           missing == j.texts \ TextsOf(j.poll)
<1>1. /\ step[p] = "existing" /\ missing = Missing(job[p])
      /\ UNCHANGED <<conf, polls, sequence, pending, stored, form, published, requests, drops>>
  BY DEF ReadOptions, Missing, bounds
<1>2. /\ j \in Job /\ JobOK(p) /\ j.poll \in Ids /\ j.texts \in SUBSET Texts
      /\ (p = Gossip \/ webhook)
  BY <1>1, Ingesting
<1>3. /\ j.texts = j.event.options /\ (j.poll \in deleted \/ polls[j.poll] # None)
      /\ j.event \in Heard /\ j.event.d \in {None, j.poll}
  BY <1>1, <1>2 DEF JobOK
<1>4. PICK id \in Ids : id = j.poll
  BY <1>2
<1>6. CASE missing = {}
  <2>1. Done(p)
    BY <1>1, <1>6 DEF ReadOptions
  <2>2. deleted' = deleted
    BY <2>1 DEF Done, past
  <2>3. /\ polls' \in [Ids -> Poll \cup {None}] /\ Unique' /\ Grows /\ Same /\ OptionsOnce'
        /\ TextsOf(id)' = TextsOf(id)
    BY <1>1, <2>2, Still
  <2>4. id \in deleted \/ (polls'[id] # None /\ job[p].event.options \subseteq TextsOf(id)')
    <3>1. TextsOf(j.poll) = TextsOf(id)
      BY <1>4 DEF TextsOf
    <3> QED
      BY <1>1, <1>3, <1>4, <1>6, <2>3, <3>1
  <2>5. /\ TakenWhole' /\ applied' \subseteq EventIds
        /\ deleted' \subseteq Ids /\ Owed' <= Owed /\ Owed' \in {0, 1}
        /\ step' \in [Procs -> Steps] /\ job' \in [Procs -> Job] /\ Others(p) /\ JobOK(p)'
        /\ Relayed' /\ link' \in {"new", "up", "down"} /\ revived' \subseteq Ids
        /\ step'[p] = "idle"
    BY <1>1, <1>4, <2>1, <2>3, <2>4, Ingests
  <2>6. Budget'
    BY <1>1, <2>5, Basics, BoundAssumption DEF Budget
  <2>7. Reserved'
    BY <1>1, <2>5, StillFree
  <2> QED
    BY <1>1, <2>2, <2>3, <2>5, <2>6, <2>7, Basics, PollStep
<1>7. CASE missing # {}
  <2> DEFINE next == [job[p] EXCEPT !.texts = missing]
  <2>1. /\ step' = [step EXCEPT ![p] = "options"] /\ UNCHANGED <<past, link, inbox>>
        /\ job' = [job EXCEPT ![p].texts = missing]
    BY <1>1, <1>7 DEF ReadOptions, Goto
  <2>2. /\ next \in Job /\ next.poll = j.poll /\ next.event = j.event
        /\ next.texts = missing /\ "options" \in Steps
    BY <1>2 DEF Job, Steps
  <2>3. /\ step' \in [Procs -> Steps] /\ job' \in [Procs -> Job] /\ Others(p)
        /\ step'[p] = "options" /\ job'[p] = next /\ (p = Gossip => Owed' = Owed)
    <3>1. job' = [job EXCEPT ![p] = next]
      BY <2>1, Basics
    <3> HIDE DEF next
    <3> QED
      BY <2>1, <2>2, <3>1, Goes
  <2>4. Owed' = Owed
    BY <1>1, <2>3, Processes DEF Owed, Procs
  <2>5. JobOK(p)'
    <3>1. deleted' = deleted /\ polls' = polls /\ webhook' = webhook
      BY <1>1, <2>1 DEF past, conf
    <3>2. TextsOf(job[p].poll)' = TextsOf(job[p].poll)
      BY <2>2, <2>3, <3>1 DEF TextsOf
    <3>3. j.event.options \subseteq missing \cup TextsOf(j.poll) /\ missing \cap TextsOf(j.poll) = {}
      BY <1>3
    <3>4. j.poll # None
      BY <1>2, NoneAssumption
    <3> HIDE DEF next, missing
    <3>5. job'[p].poll = j.poll /\ job'[p].event = j.event /\ job'[p].texts = missing
      BY <2>2, <2>3
    <3> QED
      BY <1>2, <1>3, <1>7, <2>3, <3>1, <3>2, <3>3, <3>4, <3>5, Processes DEF JobOK, Procs
  <2>6. Budget' /\ Relayed'
    BY <1>1, <2>1, <2>4, Basics DEF Budget, Relayed
  <2>7. p = Gossip \/ step'[Web] # "commit"
    BY <2>3 DEF Procs
  <2> QED
    BY <1>1, <2>1, <2>3, <2>5, <2>6, <2>7, Basics, QuietStep
<1> QED
  BY <1>6, <1>7

(* An option is added. *)
LEMMA Adds ==
  ASSUME IInv, NEW p \in Procs, AddOption(p)
  PROVE  IInv'
<1> DEFINE j == job[p]
           t == CHOOSE x \in j.texts : TRUE
<1>1. /\ step[p] = "options"
      /\ UNCHANGED <<conf, sequence, pending, stored, form, published, requests, drops, bounds>>
  BY DEF AddOption, bounds
<1>2. /\ j \in Job /\ JobOK(p) /\ j.poll \in Ids /\ j.texts \in SUBSET Texts
      /\ (p = Gossip \/ webhook) /\ j.event \in Heard /\ j.event.d \in {None, j.poll}
  BY <1>1, Ingesting
<1>3. /\ j.texts # {}
      /\ j.poll \in deleted \/ j.event.options \subseteq j.texts \cup TextsOf(j.poll)
      /\ webhook \/ j.poll \in deleted \/ j.texts \cap TextsOf(j.poll) = {}
  BY <1>1, <1>2 DEF JobOK
<1>4. t \in j.texts /\ t \in Texts
  BY <1>2, <1>3
<1>5. PICK id \in Ids : id = j.poll
  BY <1>2
<1>6. CASE polls[j.poll] = None
  <2>1. Raise(p) /\ UNCHANGED <<polls, past>> /\ sequence' \in Nat
    BY <1>1, <1>6, Basics DEF AddOption
  <2> QED
    BY <1>1, <2>1, Raised
<1>7. CASE polls[j.poll] # None
  <2> DEFINE old == polls[j.poll]
             row == [old EXCEPT !.options[t] = @ + 1]
  <2>1. /\ polls' = [polls EXCEPT ![j.poll].options[t] = @ + 1]
        /\ IF j.texts = {t} THEN Done(p)
           ELSE /\ job' = [job EXCEPT ![p].texts = j.texts \ {t}]
                /\ UNCHANGED <<step, past, link, inbox>>
    BY <1>7 DEF AddOption
  <2>2. old \in Poll /\ old.options \in [Texts -> Nat]
    BY <1>2, <1>7, Basics DEF Poll
  <2>3. polls' = [polls EXCEPT ![id] = row]
    BY <1>2, <1>5, <2>1, Basics
  <2>4. /\ row \in Poll /\ row.event = old.event
        /\ \A x \in Texts : row.options[x] = IF x = t THEN old.options[x] + 1
                                             ELSE old.options[x]
    <3> DEFINE f == [old.options EXCEPT ![t] = @ + 1]
    <3>1. row = [old EXCEPT !.options = f]
      BY <2>2 DEF Poll
    <3> HIDE DEF t, old, row
    <3>2. /\ f \in [Texts -> Nat]
          /\ \A x \in Texts : f[x] = IF x = t THEN old.options[x] + 1 ELSE old.options[x]
      BY <1>4, <2>2
    <3> HIDE DEF f
    <3> QED
      BY <2>2, <3>1, <3>2 DEF Poll
  <2>5. deleted' = deleted
    BY <2>1 DEF Done, past
  <2>6. row.event = None \/ \A i \in Ids \ {id} : polls[i] # None => polls[i].event # row.event
    BY <1>5, <1>7, <2>4, Basics DEF TypeOK
  <2>7. \A x \in Texts : polls[id].options[x] <= row.options[x]
    <3>1. polls[id] = old
      BY <1>5
    <3> HIDE DEF t, old, row
    <3> QED
      BY <2>2, <2>4, <3>1
  <2>8. webhook \/ id \in deleted \/ \A x \in Texts : row.options[x] <= 1
    <3> SUFFICES ASSUME ~webhook, id \notin deleted, NEW x \in Texts
                 PROVE  row.options[x] <= 1
      OBVIOUS
    <3>1. old.options[x] <= 1 /\ old.options[x] \in Nat
      BY <1>5, <1>7, <2>2, Basics DEF OptionsOnce
    <3>2. t \notin TextsOf(j.poll)
      BY <1>3, <1>4, <1>5
    <3>3. old.options[t] = 0
      <4>1. TextsOf(j.poll) = {y \in Texts : old.options[y] > 0}
        BY <1>7 DEF TextsOf
      <4> HIDE DEF t, old
      <4> QED
        BY <1>4, <2>2, <3>2, <4>1
    <3> HIDE DEF t, old, row
    <3> QED
      BY <2>4, <3>1, <3>3
  <2>9. /\ polls' \in [Ids -> Poll \cup {None}] /\ Unique' /\ OptionsOnce'
        /\ polls'[id] = row /\ TextsOf(id)' = {x \in Texts : row.options[x] > 0} /\ Grows
    <3> HIDE DEF row, old, j, t
    <3> QED
      BY <1>1, <2>3, <2>4, <2>5, <2>6, <2>7, <2>8, RowPut
  <2>10. TextsOf(id)' = TextsOf(id) \cup {t} /\ polls'[id] # None
    <3>1. TextsOf(id) = {x \in Texts : old.options[x] > 0}
      BY <1>5, <1>7 DEF TextsOf
    <3>2. \A x \in Texts : row.options[x] > 0 <=> x = t \/ old.options[x] > 0
      <4> HIDE DEF t, old, row
      <4> QED
        BY <1>4, <2>2, <2>4
    <3>3. row # None
      BY <2>4, NoneAssumption, Zenon
    <3> HIDE DEF row, old, t
    <3> QED
      BY <1>4, <2>9, <3>1, <3>2, <3>3
  <2>11. \A i \in Ids : polls'[i] # None => polls[i] # None /\ polls'[i].event = polls[i].event
    <3> HIDE DEF row, t
    <3> QED
      BY <1>5, <1>7, <2>3, <2>4, <2>9, Basics
  <2>12. TextsOf(j.poll) = TextsOf(id)
    BY <1>5 DEF TextsOf
  <2>13. CASE j.texts = {t}
    <3>1. Done(p)
      BY <2>1, <2>13
    <3>2. id \in deleted \/ (polls'[id] # None /\ job[p].event.options \subseteq TextsOf(id)')
      BY <1>3, <1>5, <2>10, <2>12, <2>13
    <3>3. /\ TakenWhole' /\ applied' \subseteq EventIds
          /\ deleted' \subseteq Ids /\ Owed' <= Owed /\ Owed' \in {0, 1}
          /\ step' \in [Procs -> Steps] /\ job' \in [Procs -> Job] /\ Others(p) /\ JobOK(p)'
          /\ Relayed' /\ link' \in {"new", "up", "down"} /\ revived' \subseteq Ids
          /\ step'[p] = "idle"
      BY <1>1, <1>5, <2>9, <3>1, <3>2, Ingests, ZenonT(60)
    <3>4. Budget'
      BY <1>1, <3>3, Basics, BoundAssumption DEF Budget
    <3>5. Reserved'
      BY <2>11, <3>3, StillFree
    <3> QED
      BY <1>1, <1>2, <2>5, <2>9, <3>3, <3>4, <3>5, Basics, PollStep, ZenonT(60)
  <2>14. CASE j.texts # {t}
    <3> DEFINE next == [job[p] EXCEPT !.texts = j.texts \ {t}]
    <3>1. /\ job' = [job EXCEPT ![p].texts = j.texts \ {t}]
          /\ UNCHANGED <<step, past, link, inbox, applied, revived>>
      BY <2>1, <2>14 DEF past
    <3>2. /\ next \in Job /\ next.poll = j.poll /\ next.event = j.event
          /\ next.texts = j.texts \ {t} /\ next.texts # {}
      BY <1>2, <1>4, <2>14 DEF Job
    <3>3. /\ step' \in [Procs -> Steps] /\ job' \in [Procs -> Job] /\ Others(p)
          /\ step'[p] = "options" /\ job'[p] = next /\ Owed' = Owed
      <4>1. job' = [job EXCEPT ![p] = next] /\ step \in [Procs -> Steps]
            /\ job \in [Procs -> Job]
        BY <3>1, Basics
      <4> HIDE DEF next
      <4> QED
        BY <1>1, <3>1, <3>2, <4>1 DEF Others, Owed
    <3>4. JobOK(p)'
      <4> HIDE DEF next, t
      <4>1. job'[p].poll = id /\ job'[p].event = j.event /\ job'[p].texts = j.texts \ {t}
            /\ job'[p].texts # {}
        BY <1>5, <3>2, <3>3
      <4>2. TextsOf(job[p].poll)' = TextsOf(id) \cup {t}
        BY <1>5, <2>10, <4>1 DEF TextsOf
      <4>3. webhook' = webhook /\ id # None
        BY <1>1, NoneAssumption DEF conf
      <4>4. /\ id \in deleted \/ j.event.options \subseteq (j.texts \ {t}) \cup (TextsOf(id) \cup {t})
            /\ webhook \/ id \in deleted \/ (j.texts \ {t}) \cap (TextsOf(id) \cup {t}) = {}
        BY <1>3, <1>5, <2>12
      <4> QED
        BY <1>2, <1>5, <2>5, <2>10, <3>3, <4>1, <4>2, <4>3, <4>4, Processes DEF JobOK, Procs
    <3>5. Budget' /\ TakenWhole'
      BY <1>1, <2>5, <2>9, <3>1, <3>3, Basics, StillWhole DEF Budget
    <3>6. /\ applied' \subseteq EventIds /\ deleted' \subseteq Ids /\ revived' \subseteq Ids
          /\ Relayed'
      BY <1>1, <2>5, <3>1, Basics DEF TypeOK, Relayed
    <3>7. Reserved'
      BY <2>11, <3>3, StillFree
    <3> QED
      BY <1>1, <1>2, <2>5, <2>9, <3>1, <3>3, <3>4, <3>5, <3>6, <3>7, Basics, PollStep, ZenonT(60)
  <2> QED
    BY <2>13, <2>14
<1> QED
  BY <1>6, <1>7

------------------------------------------------------------------------------
(* The invariant holds at the start. *)
LEMMA InitInv == Init => IInv
<1> SUFFICES ASSUME Init
             PROVE  IInv
  OBVIOUS
<1>1. /\ \A p \in Procs : step[p] = "idle" /\ job[p] = NoJob
      /\ polls = [i \in Ids |-> None] /\ inbox = <<>> /\ applied = {} /\ deleted = {}
      /\ form = None /\ revived = {}
      /\ pending = {} /\ published = 0 /\ requests = 0 /\ drops = 0 /\ sequence = 1
      /\ stored \subseteq PeerEvents /\ link = "new"
  BY DEF Init
<1>2. stored \subseteq Heard /\ IsFiniteSet(stored) /\ stored \subseteq Event
  BY <1>1, EventAssumption, FS_Subset DEF Heard
<1>3. Relayed
  BY <1>1, <1>2 DEF Relayed
<1>4. TypeOK
  <2>1. step \in [Procs -> Steps] /\ job \in [Procs -> Job]
    BY NoJobTyped DEF Init, Steps
  <2>2. polls \in [Ids -> Poll \cup {None}] /\ Unique
    BY <1>1 DEF Unique
  <2>3. {async_orm, webhook} \subseteq BOOLEAN
    BY DEF Init
  <2>4. {published, requests, drops} \subseteq Nat /\ sequence \in Nat
    BY <1>1
  <2>5. inbox \in Seq(Event)
    BY <1>1
  <2> QED
    BY <1>1, <1>2, <2>1, <2>2, <2>3, <2>4, <2>5 DEF TypeOK, Unique
<1>5. \A p \in Procs : JobOK(p)
  BY <1>1 DEF JobOK
<1>6. OptionsOnce /\ TakenWhole
  BY <1>1 DEF OptionsOnce, TakenWhole
<1>7. Budget /\ Reserved
  BY <1>1, Processes, BoundAssumption DEF Budget, Owed, Reserved
<1> QED
  BY <1>3, <1>4, <1>5, <1>6, <1>7 DEF IInv, Consistent

(* Every step keeps the invariant. *)
LEMMA InvStep == IInv /\ [Next]_vars => IInv'
<1> SUFFICES ASSUME IInv, [Next]_vars
             PROVE  IInv'
  OBVIOUS
<1>1. ASSUME NEW p \in Procs, Ingest(p)
      PROVE  IInv'
  BY <1>1, Finds, Updates, Creates, Announces, Compares, Adds DEF Ingest
<1>2. CASE UNCHANGED vars
  <2>1. UNCHANGED <<conf, async_orm, webhook, polls, sequence, pending, stored, link, inbox,
                    form, step, job, published, requests, drops, applied, deleted, past>>
    BY <1>2 DEF vars, conf, past
  <2>2. Others(Web) /\ Budget' /\ Relayed' /\ Web \in Procs /\ Reserved'
    BY <2>1, Basics, Processes DEF Others, Budget, Owed, Relayed, IInv, Consistent, Reserved, Carried
  <2>3. JobOK(Web)'
    <3>1. Grows /\ Same /\ deleted \subseteq deleted'
      BY <2>1, Still
    <3> QED
      BY <2>1, <2>2, <3>1, Unmoved DEF IInv
  <2> QED
    BY <2>1, <2>2, <2>3, Basics, QuietStep
<1>3. CASE Next
  BY <1>1, <1>3, Connections, Receptions, Saves, Commits, Ends DEF Next
<1> QED
  BY <1>2, <1>3

(* The invariant holds always. *)
LEMMA Invariant == Spec => []IInv
<1> QED
  BY InitInv, InvStep, PTL DEF Spec

(* The tables stay well typed, no two polls carry one event, what the relay *)
(* keeps was signed by a peer or here, and without a webhook no option of a *)
(* poll that was not deleted is counted twice, however often the relay      *)
(* repeats its events.                                                      *)
THEOREM ConsistentAlways == Spec => []Consistent
<1>1. IInv => Consistent
  BY DEF IInv
<1> QED
  BY <1>1, Invariant, PTL

(* An event that the worker has handled to the end has left all its options *)
(* with its poll, unless the poll was deleted here, whatever failed and was *)
(* repeated before.                                                         *)
THEOREM TakenWholeHolds == Spec => []TakenWhole
<1>1. IInv => TakenWhole
  BY DEF IInv
<1> QED
  BY <1>1, Invariant, PTL

(* The node signs at most one event for each save and each pushed event:    *)
(* sync_poll_on_save does not answer an event of the relay with another.    *)
THEOREM NoEchoHolds == Spec => []NoEcho
<1>1. IInv => NoEcho
  BY Basics DEF NoEcho
<1> QED
  BY <1>1, Invariant, PTL
=============================================================================
