-------------------------- MODULE AgreementProofs ---------------------------
(***************************************************************************)
(* Proofs of AckedImpliesApplied, StoreInSync and MessagesInSync: an event *)
(* that was answered with 200 has been written, and once every webhook of  *)
(* an incident has been, Redis and the chat show what Better Stack shows.  *)
(* Without reopening the order of the webhooks does not matter; with it,   *)
(* they have to come in order.                                             *)
(***************************************************************************)
EXTENDS DeliveryProofs, MessageProofs

-----------------------------------------------------------------------------
(***************************************************************************)
(* Timelines.  Without reopening, the status of Better Stack follows from  *)
(* which events have happened, whatever their order.                       *)
(***************************************************************************)
EventStatus(event) == CASE event = "incident_acknowledged" -> "acknowledged"
                        [] event = "incident_resolved"     -> "resolved"
                        [] OTHER                           -> "started"

Latest(happened) == CASE "incident_resolved" \in happened     -> "resolved"
                      [] "incident_acknowledged" \in happened
                         /\ "incident_resolved" \notin happened -> "acknowledged"
                      [] OTHER                                -> "started"

Ordered(line) == line # <<>> => StatusAfter(line) = Latest(Happened(line))

OrderedInv == \A i \in Incidents : Ordered(timeline[i])

\* The last event that is not a comment decides.
LEMMA LastDecides ==
  ASSUME NEW line \in Seq(Events), NEW n \in DOMAIN line, line[n] # "comment",
         \A m \in DOMAIN line : line[m] # "comment" => m <= n
  PROVE  StatusAfter(line) = EventStatus(line[n])
<1> DEFINE changes == {m \in DOMAIN line : line[m] # "comment"}
           last    == CHOOSE m \in changes : \A k \in changes : k <= m
<1>1. n \in changes /\ \A m \in changes : m <= n
  OBVIOUS
<1>2. last \in changes /\ \A m \in changes : m <= last
  BY <1>1
<1>3. \A m \in changes : m \in Int
  BY LenProperties
<1>4. last = n
  BY <1>1, <1>2, <1>3
<1> QED
  BY <1>4 DEF StatusAfter, EventStatus

\* What an event makes of the status.
LEMMA AppendStatus ==
  ASSUME NEW line \in Seq(Events), NEW event \in Events, line # <<>> => HasLast(line),
         Possible(line, event)
  PROVE  StatusAfter(Append(line, event)) =
            IF event = "comment" /\ line # <<>> THEN StatusAfter(line) ELSE EventStatus(event)
<1> DEFINE longer == Append(line, event)
<1>1. /\ Len(line) \in Nat /\ longer \in Seq(Events)
      /\ DOMAIN line = 1 .. Len(line) /\ DOMAIN longer = 1 .. (Len(line) + 1)
      /\ \A n \in 1 .. Len(line) : longer[n] = line[n]
      /\ longer[Len(line) + 1] = event
  BY AppendProperties, LenProperties
<1> HIDE DEF longer
<1>2. CASE event # "comment"
  <2>1. \A m \in DOMAIN longer : m <= Len(line) + 1
    BY <1>1
  <2>2. StatusAfter(longer) = EventStatus(event)
    BY <1>1, <1>2, <2>1, LastDecides
  <2> QED
    BY <1>2, <2>2 DEF longer
<1>3. CASE event = "comment"
  <2>1. line # <<>>
    BY <1>3 DEF Possible
  <2>2. PICK n \in DOMAIN line :
           line[n] # "comment" /\ \A m \in DOMAIN line : line[m] # "comment" => m <= n
    BY <2>1 DEF HasLast
  <2>3. StatusAfter(line) = EventStatus(line[n])
    BY <2>2, LastDecides
  <2>4. /\ n \in DOMAIN longer /\ longer[n] = line[n]
        /\ \A m \in DOMAIN longer : longer[m] # "comment" => m <= n
    BY <1>1, <1>3, <2>2
  <2>5. StatusAfter(longer) = EventStatus(line[n])
    BY <1>1, <2>2, <2>4, LastDecides
  <2> QED
    BY <1>3, <2>1, <2>3, <2>5 DEF longer
<1> QED
  BY <1>2, <1>3

LEMMA OrderedGrows ==
  ASSUME NEW line \in Seq(Events), NEW event \in Events, line # <<>> => HasLast(line),
         Possible(line, event), event # "incident_reopened", Ordered(line)
  PROVE  Ordered(Append(line, event))
<1>1. Happened(Append(line, event)) = Happened(line) \cup {event}
  BY AppendHappened
<1>2. CASE line = <<>>
  <2>1. event = "incident_started" /\ Happened(line) = {}
    BY <1>2 DEF Possible, Happened
  <2> QED
    BY <1>1, <1>2, <2>1, AppendStatus DEF Ordered, Latest, EventStatus
<1>3. CASE line # <<>> /\ event = "comment"
  BY <1>1, <1>3, AppendStatus DEF Ordered, Latest
<1>4. CASE line # <<>> /\ event = "incident_acknowledged"
  <2>1. StatusAfter(line) = "started"
    BY <1>4 DEF Possible
  <2>2. "incident_resolved" \notin Happened(line)
    BY <1>4, <2>1 DEF Ordered, Latest
  <2> QED
    BY <1>1, <1>4, <2>2, AppendStatus DEF Ordered, Latest, EventStatus
<1>5. CASE line # <<>> /\ event = "incident_resolved"
  BY <1>1, <1>5, AppendStatus DEF Ordered, Latest, EventStatus
<1> QED
  BY <1>2, <1>3, <1>4, <1>5 DEF Possible, Events

LEMMA OrderedNext ==
  ASSUME TypeOK, BackedInv, OrderedInv, Later, spent'["reopen"] = 0, [Next]_vars
  PROVE  OrderedInv'
<1>1. ASSUME NEW j \in Incidents, NEW event \in Events, Logs(j, event)
      PROVE  OrderedInv'
  <2>1. event # "incident_reopened"
    <3>1. Spend("reopen") => spent["reopen"] \in Nat /\ spent'["reopen"] = spent["reopen"] + 1
      BY SpendsOne DEF Kinds
    <3> QED
      BY <1>1, <3>1 DEF Logs
  <2>2. PICK line \in Seq(Events) : line = timeline[j]
    BY DEF TypeOK
  <2>3. timeline' = [timeline EXCEPT ![j] = Append(line, event)]
    BY <1>1, <2>2 DEF Logs, Log
  <2>4. (line # <<>> => HasLast(line)) /\ Possible(line, event) /\ Ordered(line)
    BY <1>1, <2>2 DEF BackedInv, TimelinesHaveLast, Logs, OrderedInv
  <2>5. Ordered(Append(line, event))
    BY <2>1, <2>4, OrderedGrows
  <2> QED
    BY <2>3, <2>5 DEF OrderedInv, TypeOK
<1> QED
  BY <1>1, EachStepLogs DEF OrderedInv

LEMMA SteadyOrdered == Spec /\ []Steady => []OrderedInv
<1>1. Init => OrderedInv
  BY DEF Init, WorldInit, OrderedInv, Ordered
<1>2. TypeOK /\ BackedInv /\ OrderedInv /\ Steady' /\ [Next]_vars => OrderedInv'
  BY EachStepLater, OrderedNext DEF Steady
<1> QED
  BY <1>1, <1>2, AlwaysBacked, TypeCorrect, PTL DEF Spec

-----------------------------------------------------------------------------
(***************************************************************************)
(* The store.  Every event of a settled incident was applied (AckInv), so  *)
(* the stored status is no earlier than the latest of them (AbsorbInv),    *)
(* and it is no later either (BackedInv).                                  *)
(***************************************************************************)
Dependable == Reliable /\ spent["reopen"] = 0

LEMMA SettledAgrees ==
  ASSUME TypeOK, BackedInv, KnownInv, AckInv, AbsorbInv, OrderedInv,
         NEW i \in Incidents, timeline[i] # <<>>, pending[i] = {}
  PROVE  incidents[i] # None /\ StoredStatus(i) = StatusAfter(timeline[i])
<1> DEFINE happened == Happened(timeline[i])
<1>1. ASSUME NEW event \in happened, FromEvent(event) # None
      PROVE  Absorbed(i, event)
  <2>1. PICK n \in DOMAIN timeline[i] : timeline[i][n] = event
    BY DEF Happened
  <2>2. TakenIn(i, event)
    BY <1>1, <2>1 DEF AckInv, AckedTaken, AckedOf
  <2>3. event \in Events
    BY <2>1 DEF TypeOK
  <2> QED
    BY <2>2, <2>3 DEF AbsorbInv
<1>2. PICK event \in happened : event # "comment" /\ event \in Events
  <2>1. HasLast(timeline[i])
    BY DEF BackedInv, TimelinesHaveLast
  <2> QED
    BY <2>1 DEF HasLast, Happened, TypeOK
<1>3. incidents[i] # None
  <2>1. FromEvent(event) \in Triggers
    BY <1>2 DEF FromEvent, TriggerOf, Events, Triggers
  <2> QED
    BY <1>1, <1>2, <2>1, OptionAssumption DEF Absorbed
<1>4. Held(i) \in Statuses /\ Reached(timeline[i], Held(i)) /\ StoredStatus(i) = Held(i)
  BY <1>3 DEF BackedInv, StoredBacked, StandsFor, Held, StoredStatus, TypeOK, Keys, Record
<1>5. /\ FromEvent("incident_resolved") = "Resolved"
      /\ FromEvent("incident_acknowledged") = "Acknowledged"
      /\ "Resolved" # None /\ "Acknowledged" # None
  BY OptionAssumption DEF FromEvent, TriggerOf, Triggers
<1>6. Held(i) = Latest(happened)
  <2>1. CASE "incident_resolved" \in happened
    <3>1. NextStatus(Held(i), "Resolved") = Held(i)
      BY <1>1, <1>5, <2>1 DEF Absorbed
    <3> QED
      BY <2>1, <3>1 DEF NextStatus, Latest
  <2>2. CASE "incident_resolved" \notin happened /\ "incident_acknowledged" \in happened
    <3>1. NextStatus(Held(i), "Acknowledged") = Held(i)
      BY <1>1, <1>5, <2>2 DEF Absorbed
    <3> QED
      BY <1>4, <2>2, <3>1 DEF NextStatus, Latest, Reached, Statuses
  <2>3. CASE "incident_resolved" \notin happened /\ "incident_acknowledged" \notin happened
    BY <1>4, <2>3 DEF Latest, Reached, Statuses
  <2> QED
    BY <2>1, <2>2, <2>3
<1> QED
  BY <1>3, <1>4, <1>6 DEF OrderedInv, Ordered

(***************************************************************************)
(* Redis agrees with Better Stack on every incident whose webhooks have    *)
(* been answered, in whatever order they and the callbacks were served:    *)
(* nothing is dropped (mark_event_once, unmark_event), nothing turns the   *)
(* status back (incident::next under the lock).                            *)
(***************************************************************************)
THEOREM StoreAgrees == Spec /\ []Dependable => []StoreInSync
<1>1. TypeOK /\ BackedInv /\ KnownInv /\ AckInv /\ AbsorbInv /\ OrderedInv => StoreInSync
  BY SettledAgrees DEF StoreInSync, Settled
<1>2. (Dependable => Steady) /\ (Dependable => Reliable)
  BY DEF Dependable, Steady, Reliable
<1> QED
  BY <1>1, <1>2, SteadyOrdered, SteadyAbsorbs, ReliableAcks, AlwaysKnown, AlwaysBacked,
     TypeCorrect, PTL

-----------------------------------------------------------------------------
(***************************************************************************)
(* The chat.  Between two handlers an incident has a message as soon as it *)
(* is stored, the message the record names, and the message shows the      *)
(* stored status; a handler that has changed the record is on its way to   *)
(* the message.  That is so, reopened incidents included, until a request  *)
(* to Telegram or a command of Redis fails.                                *)
(***************************************************************************)
Faithful == Calm /\ spent["crash"] = 0 /\ spent["storeReply"] = 0

Quiet == spent["telegram"] = 0 /\ spent["store"] = 0

\* From a write that the message does not show yet to the call that makes it show it.
Updating == {"clearResolved", "clearAcknowledged", "notify", "setMessageId", "reget", "edit"}

UpToDate(i, m) == messages[m].deleted \/ messages[m].status = incidents[i].status

Presented(i) ==
  IF incidents[i] = None THEN MessagesOf(i) = {}
  ELSE LET m == incidents[i].message_id IN
       /\ m # None => incidents[i].chat_id # None /\ MessagesOf(i) = {m}
       /\ \/ m # None /\ UpToDate(i, m)
          \/ \E h \in Handlers : pc[h] \in Updating /\ req[h].incident = i

WebhookShows(h, i) ==
  /\ pc[h] = "upsert" =>
       /\ rec[h].message_id = IF incidents[i] = None THEN None ELSE incidents[i].message_id
       /\ rec[h].message_id # None => rec[h].chat_id # None
  /\ pc[h] \in {"clearResolved", "clearAcknowledged", "notify"} =>
       /\ rec[h].message_id = incidents[i].message_id
       /\ rec[h].message_id = None => MessagesOf(i) = {}
  /\ pc[h] = "setMessageId" =>
       /\ rec[h].message_id # None /\ rec[h].chat_id # None
       /\ MessagesOf(i) = {rec[h].message_id} /\ UpToDate(i, rec[h].message_id)

CallbackShows(h, i) ==
  /\ pc[h] \in {"reget", "edit"} => incidents[i] # None /\ incidents[i].message_id # None
  /\ pc[h] = "edit" => rec[h].message_id = incidents[i].message_id

Shows(h) ==
  InCritical(h) => /\ h \in WebhookHandlers  => WebhookShows(h, req[h].incident)
                   /\ h \in CallbackHandlers => CallbackShows(h, req[h].incident)

ShownInv == (\A i \in Incidents : Presented(i)) /\ \A h \in Handlers : Shows(h)

-----------------------------------------------------------------------------
\* A step that leaves the messages of an incident, or lets somebody delete one.
SameMessages(i) ==
  /\ MessagesOf(i)' = MessagesOf(i)
  /\ \A m \in MessagesOf(i) : messages'[m].deleted \/ messages'[m] = messages[m]

Stays(g) == /\ pc'[g] = pc[g] /\ rec'[g] = rec[g]
            /\ pc[g] # "idle" => req'[g].incident = req[g].incident

LEMMA PresentedStays ==
  ASSUME NEW i \in Incidents, Presented(i), incidents'[i] = incidents[i], SameMessages(i),
         \A g \in Handlers : pc[g] \in Updating /\ req[g].incident = i
                             => pc'[g] \in Updating /\ req'[g].incident = i
  PROVE  Presented(i)'
<1>1. CASE incidents[i] = None
  BY <1>1 DEF Presented, SameMessages
<1>2. CASE incidents[i] # None
  <2> DEFINE m == incidents[i].message_id
  <2>1. m # None => MessagesOf(i) = {m} /\ incidents[i].chat_id # None
    BY <1>2 DEF Presented
  <2>2. CASE m # None /\ UpToDate(i, m)
    BY <1>2, <2>1, <2>2 DEF Presented, SameMessages, UpToDate
  <2>3. CASE \E h \in Handlers : pc[h] \in Updating /\ req[h].incident = i
    BY <1>2, <2>1, <2>3 DEF Presented, SameMessages
  <2> QED
    BY <1>2, <2>2, <2>3 DEF Presented
<1> QED
  BY <1>1, <1>2

LEMMA ShowsStays ==
  ASSUME TypeOK, NEW g \in Handlers, Shows(g), Stays(g),
         \A k \in Incidents : InCritical(g) /\ req[g].incident = k
                              => incidents'[k] = incidents[k] /\ SameMessages(k)
  PROVE  Shows(g)'
<1> SUFFICES ASSUME InCritical(g)' PROVE Shows(g)'
  BY DEF Shows
<1>1. InCritical(g) /\ pc'[g] = pc[g] /\ rec'[g] = rec[g]
  BY DEF InCritical, Stays
<1>2. PICK i \in Incidents : i = req[g].incident
  BY <1>1, CriticalIncident DEF InCritical
<1>3. incidents'[i] = incidents[i] /\ SameMessages(i) /\ req'[g].incident = i
  BY <1>1, <1>2 DEF InCritical, Stays
<1>4. g \in WebhookHandlers => WebhookShows(g, i)'
  <2> SUFFICES ASSUME g \in WebhookHandlers PROVE WebhookShows(g, i)'
    OBVIOUS
  <2>1. WebhookShows(g, i)
    BY <1>1, <1>2 DEF Shows
  <2>2. pc[g] = "setMessageId" => UpToDate(i, rec[g].message_id)'
    BY <1>1, <1>3, <2>1 DEF WebhookShows, UpToDate, SameMessages
  <2> QED
    BY <1>1, <1>3, <2>1, <2>2 DEF WebhookShows, SameMessages
<1>5. g \in CallbackHandlers => CallbackShows(g, i)'
  BY <1>1, <1>2, <1>3 DEF Shows, CallbackShows
<1> QED
  BY <1>3, <1>4, <1>5 DEF Shows

\* What a step has to show: it changes at most the incident that the moving task works on.
LEMMA ShownStep ==
  ASSUME TypeOK, Exclusive, ShownInv, NEW h, \A g \in Handlers \ {h} : Stays(g),
         h \in Handlers => Shows(h)',
         \A k \in Incidents :
           \/ /\ incidents'[k] = incidents[k] /\ SameMessages(k)
              /\ h \in Handlers /\ pc[h] \in Updating /\ req[h].incident = k
                 => pc'[h] \in Updating /\ req'[h].incident = k
           \/ h \in Handlers /\ Working(h, k) /\ Presented(k)'
  PROVE  ShownInv'
<1>1. ASSUME NEW k \in Incidents PROVE Presented(k)'
  <2>1. CASE Presented(k)'
    BY <2>1
  <2>2. CASE /\ incidents'[k] = incidents[k] /\ SameMessages(k)
             /\ h \in Handlers /\ pc[h] \in Updating /\ req[h].incident = k
                => pc'[h] \in Updating /\ req'[h].incident = k
    <3>1. ASSUME NEW g \in Handlers, pc[g] \in Updating, req[g].incident = k
          PROVE  pc'[g] \in Updating /\ req'[g].incident = k
      BY <2>2, <3>1 DEF Stays, Updating
    <3>2. Presented(k)
      BY DEF ShownInv
    <3> QED
      BY <2>2, <3>1, <3>2, PresentedStays
  <2> QED
    BY <2>1, <2>2
<1>2. ASSUME NEW g \in Handlers, g # h PROVE Shows(g)'
  <2>1. Shows(g) /\ Stays(g)
    BY <1>2 DEF ShownInv
  <2>2. ASSUME NEW k \in Incidents, InCritical(g), req[g].incident = k
        PROVE  incidents'[k] = incidents[k] /\ SameMessages(k)
    BY <1>2, <2>2 DEF Exclusive, Working
  <2> QED
    BY <2>1, <2>2, ShowsStays
<1> QED
  BY <1>1, <1>2 DEF ShownInv

\* While the handler of an incident is not on its way to the message, the message is in order.
LEMMA InOrder ==
  ASSUME TypeOK, Exclusive, ShownInv, NEW h \in Handlers, NEW i \in Incidents,
         Working(h, i), pc[h] \notin Updating, incidents[i] # None
  PROVE  incidents[i].message_id # None
<1>1. ASSUME NEW g \in Handlers, pc[g] \in Updating, req[g].incident = i PROVE FALSE
  <2>1. Working(g, i)
    BY <1>1 DEF Working, InCritical, Updating
  <2> QED
    BY <1>1, <2>1 DEF Exclusive
<1> QED
  BY <1>1 DEF ShownInv, Presented

LEMMA NothingChanges == ASSUME UNCHANGED messages PROVE \A k : SameMessages(k)
BY DEF SameMessages, MessagesOf

\* What an edit makes of the messages, of this incident and of the others.
LEMMA EditShows ==
  ASSUME TypeOK, NEW i \in Incidents, NEW r \in Record, Placed(r, i), r.message_id # None,
         messages' = EditMessage(r.message_id, r)
  PROVE  /\ \A k : MessagesOf(k)' = MessagesOf(k)
         /\ \A k \in Incidents : k # i => SameMessages(k)
         /\ messages'[r.message_id].deleted \/ messages'[r.message_id].status = r.status
<1>1. r.message_id \in DOMAIN messages /\ messages[r.message_id].id = i
  BY DEF Placed, About
<1>2. \A k : MessagesOf(k)' = MessagesOf(k)
  BY EditedMessages DEF Placed, About, Exact
<1>3. \A m \in DOMAIN messages : m # r.message_id => messages'[m] = messages[m]
  BY DEF EditMessage
<1>4. \A k \in Incidents : k # i => SameMessages(k)
  BY <1>1, <1>2, <1>3 DEF SameMessages, MessagesOf
<1>5. View(r).status = r.status
  BY DEF View
<1> QED
  BY <1>1, <1>2, <1>4, <1>5 DEF EditMessage

LEMMA EnvironmentShows ==
  ASSUME TypeOK, Exclusive, ShownInv, Later, Faithful', Environment
  PROVE  ShownInv'
<1>0. ~Spend("crash") /\ ~Spend("recordTtl")
  <2>1. /\ Spend("crash") => spent["crash"] \in Nat /\ spent'["crash"] = spent["crash"] + 1
        /\ Spend("recordTtl") => /\ spent["recordTtl"] \in Nat
                                 /\ spent'["recordTtl"] = spent["recordTtl"] + 1
    BY SpendsOne DEF Kinds, Faults
  <2> QED
    BY <2>1 DEF Faithful, Calm
<1>1. incidents' = incidents
  BY <1>0 DEF Environment, Happen, Deliver, GiveUp, Click, DeleteMessage,
     OrphanedLockExpires, LeaseLost, RecordExpires, DedupExpires, Crash, redis
<1>2. \A k \in Incidents : SameMessages(k)
  <2>1. CASE UNCHANGED messages
    BY <2>1, NothingChanges
  <2>2. CASE \E m \in DOMAIN messages : DeleteMessage(m)
    <3> PICK m \in DOMAIN messages : DeleteMessage(m)
      BY <2>2
    <3>1. messages[m] \in Views /\ messages' = [messages EXCEPT ![m].deleted = TRUE]
      BY MessageFacts DEF DeleteMessage
    <3>2. /\ DOMAIN messages' = DOMAIN messages
          /\ messages'[m].deleted /\ messages'[m].id = messages[m].id
          /\ \A n \in DOMAIN messages : n # m => messages'[n] = messages[n]
      BY <3>1 DEF Views
    <3> QED
      BY <3>2 DEF SameMessages, MessagesOf
  <2> QED
    BY <2>1, <2>2 DEF Environment, Happen, Deliver, GiveUp, Click, OrphanedLockExpires, LeaseLost,
       RecordExpires, DedupExpires, Crash, chat
<1>3. CASE \A g \in Handlers : Stays(g)
  <2>1. None \notin Handlers
    BY HandlersAssumption
  <2> QED
    BY <1>1, <1>2, <1>3, <2>1, ShownStep
<1>4. CASE UNCHANGED tasks
  BY <1>3, <1>4 DEF tasks, Stays
<1>5. CASE \E h \in WebhookHandlers, i \in Incidents : \E n \in pending[i] : Deliver(h, i, n)
  <2> PICK h \in WebhookHandlers : /\ pc[h] = "idle" /\ pc' = [pc EXCEPT ![h] = "lock"]
                                   /\ \E r : req' = [req EXCEPT ![h] = r]
                                   /\ rec' = rec
    BY <1>5 DEF Deliver, Goto
  <2>1. h \in Handlers /\ Shows(h)' /\ \A g \in Handlers \ {h} : Stays(g)
    BY DEF Handlers, Shows, InCritical, Stays, TypeOK
  <2> QED
    BY <1>1, <1>2, <2>1, ShownStep DEF Updating
<1>6. CASE \E h \in WebhookHandlers : GiveUp(h)
  <2> PICK h \in WebhookHandlers : GiveUp(h)
    BY <1>6
  <2>1. h \in Handlers /\ req[h] \in Webhooks
    BY DEF Handlers, GiveUp, TypeOK, WebhookTaskOK
  <2>2. UNCHANGED <<pc, rec>> /\ \A g \in Handlers : req'[g].incident = req[g].incident
    BY <2>1 DEF GiveUp, TypeOK, Webhooks
  <2> QED
    BY <1>3, <2>2 DEF Stays
<1> QED
  BY <1>0, <1>4, <1>5, <1>6 DEF Environment, Happen, Click, DeleteMessage, OrphanedLockExpires,
     LeaseLost, RecordExpires, DedupExpires, Crash

LEMMA WebhookShowsStep ==
  ASSUME TypeOK, TrackInv, Exclusive, ShownInv, Later, Faithful', Quiet',
         NEW h \in WebhookHandlers, WebhookStep(h)
  PROVE  ShownInv'
<1>0. /\ h \in Handlers /\ h \notin CallbackHandlers /\ pc[h] # "idle"
      /\ \A g \in Handlers \ {h} : Stays(g)
  BY HandlersAssumption DEF Handlers, WebhookStep, SkipUnknownEvent, LockIncident, MarkEvent,
     LoadRecord, UpsertRecord, ClearStaleEvents, ClearStale, SendIncident, SetMessage, EditIncident,
     UnmarkFailed, ReleaseAndRespond, Respond, Reset, Finish, Goto, Stays, TypeOK
<1>1. ~Spend("store") /\ ~Spend("storeReply") /\ ~Spend("telegram")
  <2>1. \A kind \in {"store", "storeReply", "telegram"} :
          kind \in Kinds /\ spent[kind] \in Nat /\ spent'[kind] = 0
    BY DEF Later, Faithful, Quiet, Kinds, Faults
  <2>2. \A kind \in {"store", "storeReply", "telegram"} :
          Spend(kind) => spent'[kind] = spent[kind] + 1
    BY <2>1, SpendsOne
  <2> QED
    BY <2>1, <2>2
<1>2. PICK i \in Incidents : i = req[h].incident
  BY <1>0, WebhookIncident
\* The steps that neither read nor write the record.
<1>3. CASE SkipUnknownEvent(h) \/ LockIncident(h) \/ MarkEvent(h) \/ UnmarkFailed(h)
           \/ ReleaseAndRespond(h)
  <2>1. /\ UNCHANGED <<messages, incidents>> /\ pc[h] \notin Updating
        /\ pc'[h] \notin Updating \cup {"upsert"}
    BY <1>0, <1>3 DEF SkipUnknownEvent, LockIncident, MarkEvent, UnmarkFailed, ReleaseAndRespond,
       Respond, Reset, Finish, Goto, Updating, chat, redis, TypeOK
  <2>2. Shows(h)'
    BY <1>0, <2>1 DEF Shows, WebhookShows, Updating
  <2> QED
    BY <1>0, <2>1, <2>2, NothingChanges, ShownStep
<1> SUFFICES ASSUME pc[h] \in Updating \cup {"get", "upsert"}, UNCHANGED req
             PROVE  ShownInv'
  BY <1>3 DEF WebhookStep, LoadRecord, UpsertRecord, ClearStaleEvents, ClearStale, SendIncident,
     SetMessage, EditIncident, Updating
<1>4. /\ Working(h, i) /\ i \in Keys /\ incidents \in [Keys -> Record \cup {None}]
      /\ incidents[i] # None => incidents[i] \in Record
      /\ pc[h] # "get" => rec[h] \in Record
      /\ WebhookTracks(h, i) /\ WebhookShows(h, i) /\ Presented(i)
  <2>1. pc[h] \in WebhookSteps /\ InCritical(h)
    BY DEF InCritical, Updating, TypeOK, WebhookTaskOK
  <2>2. Tracks(h) /\ Shows(h)
    BY <1>0 DEF TrackInv, ShownInv
  <2> QED
    BY <1>0, <1>2, <2>1, <2>2 DEF Working, Keys, TypeOK, WebhookTaskOK, WebhookSteps, Updating,
       Tracks, ShownInv, Shows
<1>5. /\ Shows(h)' <=> (InCritical(h)' => WebhookShows(h, i)')
      /\ \A step \in Updating : pc'[h] = step => \E g \in Handlers :
                                    pc'[g] \in Updating /\ req'[g].incident = i
  BY <1>0, <1>2 DEF Shows
<1>6. CASE LoadRecord(h)
  <2>1. /\ UNCHANGED <<messages, incidents>> /\ pc' = [pc EXCEPT ![h] = "upsert"]
        /\ \E meta : rec' = [rec EXCEPT ![h] = Updated(incidents[i], i, req[h].what, meta)]
    BY <1>1, <1>2, <1>6 DEF LoadRecord, Goto, Get, chat, redis
  <2>2. PICK meta : rec' = [rec EXCEPT ![h] = Updated(incidents[i], i, req[h].what, meta)]
    BY <2>1
  <2> DEFINE r == Updated(incidents[i], i, req[h].what, meta)
  <2>3. pc'[h] = "upsert" /\ rec'[h] = r
    BY <1>0, <2>1, <2>2 DEF TypeOK
  <2>4. /\ r.message_id = IF incidents[i] = None THEN None ELSE incidents[i].message_id
        /\ r.chat_id = IF incidents[i] = None THEN None ELSE incidents[i].chat_id
    BY <1>4 DEF Updated, Record, DefaultRecord
  <2>5. r.message_id # None => r.chat_id # None
    BY <1>4, <2>4 DEF Presented
  <2> HIDE DEF r
  <2>6. Shows(h)'
    BY <1>5, <2>1, <2>3, <2>4, <2>5 DEF WebhookShows, Updating
  <2>7. pc[h] = "get"
    BY <1>6 DEF LoadRecord
  <2> QED
    BY <1>0, <2>1, <2>6, <2>7, NothingChanges, ShownStep DEF Updating
<1>7. CASE UpsertRecord(h)
  <2>1. /\ UNCHANGED <<messages, rec>> /\ pc[h] = "upsert" /\ rec[h].id = i
        /\ incidents' = [incidents EXCEPT ![i] = rec[h]]
        /\ \E step \in {"clearResolved", "notify"} : pc' = [pc EXCEPT ![h] = step]
    BY <1>1, <1>4, <1>7 DEF UpsertRecord, Upsert, Goto, chat, WebhookTracks, Placed
  <2>2. /\ pc'[h] \in {"clearResolved", "notify"} /\ pc'[h] \in Updating
        /\ rec'[h] = rec[h] /\ incidents'[i] = rec[h] /\ rec[h] # None
        /\ \A k \in Incidents : k # i => incidents'[k] = incidents[k]
    BY <1>0, <1>4, <2>1, OptionAssumption DEF TypeOK, Updating, Keys
  <2>3. MessagesOf(i)' = MessagesOf(i)
    BY <2>1 DEF MessagesOf
  <2>4. /\ rec[h].message_id = None => MessagesOf(i) = {}
        /\ rec[h].message_id # None => rec[h].chat_id # None /\ MessagesOf(i) = {rec[h].message_id}
    <3>1. CASE incidents[i] = None
      BY <1>4, <2>1, <3>1 DEF WebhookShows, Presented
    <3>2. CASE incidents[i] # None
      <4>1. incidents[i].message_id # None
        BY <1>0, <1>4, <2>1, <3>2, InOrder DEF Updating
      <4> QED
        BY <1>4, <2>1, <3>2, <4>1 DEF WebhookShows, Presented
    <3> QED
      BY <3>1, <3>2
  <2>5. Presented(i)'
    BY <1>5, <2>2, <2>3, <2>4 DEF Presented
  <2>6. Shows(h)'
    BY <1>5, <2>2, <2>3, <2>4 DEF WebhookShows
  <2> QED
    BY <1>0, <1>4, <2>1, <2>2, <2>5, <2>6, NothingChanges, ShownStep DEF Updating
<1>8. CASE ClearStaleEvents(h)
  <2>1. /\ UNCHANGED <<messages, incidents, rec>>
        /\ pc[h] \in {"clearResolved", "clearAcknowledged"}
        /\ pc'[h] \in {"clearAcknowledged", "notify"} /\ pc'[h] \in Updating
    BY <1>0, <1>8 DEF ClearStaleEvents, ClearStale, Goto, Updating, chat, TypeOK
  <2>2. MessagesOf(i)' = MessagesOf(i)
    BY <2>1 DEF MessagesOf
  <2>3. Shows(h)'
    BY <1>4, <1>5, <2>1, <2>2 DEF WebhookShows
  <2> QED
    BY <1>0, <2>1, <2>3, NothingChanges, ShownStep
<1>9. CASE SendIncident(h)
  <2> DEFINE new == Len(messages) + 1
  <2>1. /\ UNCHANGED incidents /\ pc[h] = "notify" /\ rec[h].message_id = None
        /\ messages' = SendMessage(rec[h]) /\ pc' = [pc EXCEPT ![h] = "setMessageId"]
        /\ rec' = [rec EXCEPT ![h].chat_id = ChatId, ![h].message_id = Len(messages) + 1]
    BY <1>1, <1>9 DEF SendIncident, Goto, redis
  <2>2. /\ pc'[h] = "setMessageId" /\ pc'[h] \in Updating
        /\ rec'[h].chat_id # None /\ rec'[h].message_id = new
    BY <1>0, <1>4, <2>1, IdAssumption DEF TypeOK, Updating, Record
  <2>3. /\ incidents[i] # None /\ rec[h].id = i /\ rec[h].status = incidents[i].status
        /\ incidents[i].message_id = None /\ MessagesOf(i) = {}
    BY <1>4, <2>1 DEF WebhookTracks, Placed, WebhookShows
  <2>4. new \in Nat /\ new # None
    BY MessageFacts, OptionAssumption
  <2>5. /\ messages'[new] = View(rec[h])
        /\ \A m \in DOMAIN messages : messages'[m] = messages[m]
    BY <1>4, <2>1, SendFacts
  <2>6. \A k \in Incidents : MessagesOf(k)' = IF k = i THEN {new} ELSE MessagesOf(k)
    BY <1>4, <2>1, <2>3, SentMessages
  <2>7. messages'[new].status = incidents'[i].status
    BY <2>1, <2>3, <2>5 DEF View
  <2> HIDE DEF new
  <2>8. Presented(i)'
    BY <1>5, <2>1, <2>2, <2>3 DEF Presented
  <2>9. Shows(h)'
    BY <1>5, <2>2, <2>4, <2>6, <2>7 DEF WebhookShows, UpToDate
  <2>10. \A k \in Incidents : k # i => SameMessages(k)
    BY <2>5, <2>6 DEF SameMessages, MessagesOf
  <2> QED
    BY <1>0, <1>4, <2>1, <2>2, <2>8, <2>9, <2>10, ShownStep
<1>10. CASE SetMessage(h)
  <2>1. /\ UNCHANGED messages /\ pc[h] = "setMessageId" /\ pc' = [pc EXCEPT ![h] = "release"]
        /\ incidents' = SetMessageId(incidents, i, rec[h].chat_id, rec[h].message_id)
    BY <1>1, <1>2, <1>10 DEF SetMessage, WriteFails, Finish, Goto, chat
  <2>2. incidents[i] \in Record /\ incidents[i] # None
    BY <1>4, <2>1 DEF WebhookTracks
  <2> DEFINE new == [incidents[i] EXCEPT !.chat_id = rec[h].chat_id,
                                         !.message_id = rec[h].message_id]
  <2>3. incidents' = [incidents EXCEPT ![i] = new]
    BY <2>1, <2>2 DEF SetMessageId, Fields
  <2>4. /\ new \in Record /\ new.status = incidents[i].status
        /\ new.chat_id = rec[h].chat_id /\ new.message_id = rec[h].message_id
    BY <1>4, <2>1, <2>2 DEF Record, Updating
  <2> HIDE DEF new
  <2>5. /\ incidents'[i] = new /\ new # None /\ pc'[h] = "release"
        /\ \A k \in Incidents : k # i => incidents'[k] = incidents[k]
    BY <1>0, <1>4, <2>1, <2>3, <2>4, OptionAssumption DEF TypeOK, Keys
  <2>6. Presented(i)'
    BY <1>4, <2>1, <2>4, <2>5 DEF Presented, WebhookShows, UpToDate, MessagesOf
  <2>7. Shows(h)'
    BY <1>5, <2>5 DEF WebhookShows
  <2> QED
    BY <1>0, <1>2, <1>4, <2>1, <2>5, <2>6, <2>7, NothingChanges, ShownStep
<1>11. CASE EditIncident(h)
  <2>1. /\ UNCHANGED incidents /\ pc[h] = "notify" /\ rec[h].message_id # None
        /\ messages' = EditMessage(rec[h].message_id, rec[h])
        /\ pc' = [pc EXCEPT ![h] = "release"]
    BY <1>1, <1>11 DEF EditIncident, Finish, Goto, redis
  <2>2. /\ incidents[i] # None /\ Placed(rec[h], i) /\ rec[h].status = incidents[i].status
        /\ rec[h].message_id = incidents[i].message_id /\ pc'[h] = "release"
    BY <1>0, <1>4, <2>1 DEF WebhookTracks, WebhookShows, TypeOK
  <2>3. /\ \A k : MessagesOf(k)' = MessagesOf(k)
        /\ \A k \in Incidents : k # i => SameMessages(k)
        /\ messages'[rec[h].message_id].deleted
           \/ messages'[rec[h].message_id].status = rec[h].status
    BY <1>4, <2>1, <2>2, EditShows
  <2>4. Presented(i)'
    BY <1>4, <2>1, <2>2, <2>3 DEF Presented, UpToDate
  <2>5. Shows(h)'
    BY <1>5, <2>2 DEF WebhookShows
  <2> QED
    BY <1>0, <1>2, <1>4, <2>1, <2>3, <2>4, <2>5, ShownStep
<1> QED
  BY <1>3, <1>6, <1>7, <1>8, <1>9, <1>10, <1>11 DEF WebhookStep

\* set_status keeps the coordinates of the message.
LEMMA SetStatusKeepsCoordinates ==
  ASSUME NEW db \in [Keys -> Record \cup {None}], NEW i \in Keys, NEW status \in Statuses,
         db[i] # None
  PROVE  \E new \in Record : /\ new.chat_id = db[i].chat_id /\ new.message_id = db[i].message_id
                             /\ SetStatus(db, i, status) = [db EXCEPT ![i] = new]
<1>1. db[i] \in Record
  OBVIOUS
<1> DEFINE r1 == [db[i] EXCEPT !.status = status]
           r2 == [r1 EXCEPT !.acknowledged_at = @ \/ status = "acknowledged"]
           r3 == [r2 EXCEPT !.resolved_at = @ \/ status = "resolved"]
<1>2. r1 \in Record /\ r1.chat_id = db[i].chat_id /\ r1.message_id = db[i].message_id
  BY <1>1 DEF Record
<1> HIDE DEF r1
<1>3. r2 \in Record /\ r2.chat_id = db[i].chat_id /\ r2.message_id = db[i].message_id
  BY <1>2 DEF Record
<1> HIDE DEF r2
<1>4. r3 \in Record /\ r3.chat_id = db[i].chat_id /\ r3.message_id = db[i].message_id
  BY <1>3 DEF Record
<1>5. SetStatus(db, i, status) = [db EXCEPT ![i] = r3]
  BY DEF SetStatus, Fields, r1, r2
<1> QED
  BY <1>4, <1>5

LEMMA CallbackShowsStep ==
  ASSUME TypeOK, TrackInv, Exclusive, ShownInv, Later, Faithful', Quiet',
         NEW h \in CallbackHandlers, CallbackStep(h)
  PROVE  ShownInv'
<1>0. /\ h \in Handlers /\ h \notin WebhookHandlers
      /\ \A g \in Handlers \ {h} : Stays(g)
  BY HandlersAssumption DEF Handlers, CallbackStep, TakeClick, LockForCallback, CallBetterStack,
     RetryCall, LoadCurrent, StoreStatus, Reload, EditAfterClick, ReleaseAndAnswer, Answer, Reset,
     Conclude, Goto, tasks, Stays, TypeOK
<1>1. ~Spend("store") /\ ~Spend("storeReply") /\ ~Spend("telegram")
  <2>1. \A kind \in {"store", "storeReply", "telegram"} :
          kind \in Kinds /\ spent[kind] \in Nat /\ spent'[kind] = 0
    BY DEF Later, Faithful, Quiet, Kinds, Faults
  <2>2. \A kind \in {"store", "storeReply", "telegram"} :
          Spend(kind) => spent'[kind] = spent[kind] + 1
    BY <2>1, SpendsOne
  <2> QED
    BY <2>1, <2>2
<1>2. CASE TakeClick(h) \/ LockForCallback(h) \/ CallBetterStack(h) \/ RetryCall(h)
           \/ ReleaseAndAnswer(h)
  <2>1. UNCHANGED <<messages, incidents>> /\ pc[h] \notin Updating /\ pc'[h] \notin Updating
    BY <1>0, <1>2 DEF TakeClick, LockForCallback, CallBetterStack, RetryCall, ReleaseAndAnswer,
       Answer, Reset, Conclude, Goto, Updating, chat, redis, tasks, TypeOK
  <2>2. Shows(h)'
    BY <1>0, <2>1 DEF Shows, CallbackShows, Updating
  <2> QED
    BY <1>0, <2>1, <2>2, NothingChanges, ShownStep
<1> SUFFICES ASSUME pc[h] \in {"get", "setStatus", "reget", "edit"}, UNCHANGED req
             PROVE  ShownInv'
  BY <1>2 DEF CallbackStep, LoadCurrent, StoreStatus, Reload, EditAfterClick
<1>3. PICK i \in Incidents : i = req[h].incident
  BY <1>0, CriticalIncident
<1>4. /\ Working(h, i) /\ i \in Keys /\ incidents \in [Keys -> Record \cup {None}]
      /\ incidents[i] # None => incidents[i] \in Record
      /\ pc[h] \in {"setStatus", "edit"} => rec[h] \in Record
      /\ CallbackTracks(h, i) /\ CallbackShows(h, i) /\ Presented(i)
  <2>1. InCritical(h) /\ Tracks(h) /\ Shows(h)
    BY <1>0 DEF InCritical, TrackInv, ShownInv
  <2> QED
    BY <1>0, <1>3, <2>1 DEF Working, Keys, TypeOK, CallbackTaskOK, Tracks, ShownInv, Shows
<1>5. /\ Shows(h)' <=> (InCritical(h)' => CallbackShows(h, i)')
      /\ \A step \in Updating : pc'[h] = step => \E g \in Handlers :
                                    pc'[g] \in Updating /\ req'[g].incident = i
  BY <1>0, <1>3 DEF Shows
<1>6. CASE LoadCurrent(h)
  <2>1. /\ UNCHANGED <<messages, incidents>> /\ pc[h] = "get"
        /\ pc'[h] \in {"setStatus", "reget", "release"}
        /\ pc'[h] = "reget" => incidents[i] # None
    BY <1>0, <1>1, <1>3, <1>6 DEF LoadCurrent, Conclude, Goto, Get, chat, redis, TypeOK
  <2>2. incidents[i] # None => incidents[i].message_id # None
    BY <1>0, <1>4, <2>1, InOrder DEF Updating
  <2>3. Shows(h)'
    BY <1>5, <2>1, <2>2 DEF CallbackShows
  <2> QED
    BY <1>0, <2>1, <2>3, NothingChanges, ShownStep DEF Updating
<1>7. CASE StoreStatus(h)
  <2>1. /\ UNCHANGED messages /\ pc[h] = "setStatus" /\ pc' = [pc EXCEPT ![h] = "reget"]
        /\ incidents' = SetStatus(incidents, i, rec[h].status)
    BY <1>1, <1>3, <1>7 DEF StoreStatus, WriteFails, Goto, chat
  <2>2. incidents[i] # None /\ incidents[i].message_id # None /\ rec[h].status \in Statuses
    BY <1>0, <1>4, <2>1, InOrder DEF CallbackTracks, Updating, Record
  <2>3. \A status \in Statuses : \E new \in Record :
            /\ new.chat_id = incidents[i].chat_id /\ new.message_id = incidents[i].message_id
            /\ SetStatus(incidents, i, status) = [incidents EXCEPT ![i] = new]
    BY <1>4, <2>2, SetStatusKeepsCoordinates
  <2>4. PICK new \in Record : /\ new.chat_id = incidents[i].chat_id
                              /\ new.message_id = incidents[i].message_id
                              /\ incidents' = [incidents EXCEPT ![i] = new]
    BY <2>1, <2>2, <2>3
  <2>5. /\ incidents'[i] = new /\ new # None /\ pc'[h] = "reget" /\ pc'[h] \in Updating
        /\ \A k \in Incidents : k # i => incidents'[k] = incidents[k]
    BY <1>0, <1>4, <2>1, <2>4, OptionAssumption DEF TypeOK, Updating, Keys
  <2>6. Presented(i)'
    BY <1>4, <1>5, <2>1, <2>2, <2>4, <2>5 DEF Presented, MessagesOf
  <2>7. Shows(h)'
    BY <1>5, <2>2, <2>4, <2>5 DEF CallbackShows
  <2> QED
    BY <1>0, <1>3, <1>4, <2>1, <2>5, <2>6, <2>7, NothingChanges, ShownStep DEF Updating
<1>8. CASE Reload(h)
  <2>1. incidents[i] # None /\ incidents[i].message_id # None /\ incidents[i].chat_id # None
    BY <1>4, <1>8 DEF Reload, CallbackShows, Presented
  <2>2. /\ UNCHANGED <<messages, incidents>> /\ pc' = [pc EXCEPT ![h] = "edit"]
        /\ rec' = [rec EXCEPT ![h] = incidents[i]]
    BY <1>1, <1>3, <1>8, <2>1 DEF Reload, Goto, Get, chat, redis
  <2>3. pc'[h] = "edit" /\ pc'[h] \in Updating /\ rec'[h] = incidents[i]
    BY <1>0, <2>2 DEF TypeOK, Updating
  <2>4. Shows(h)'
    BY <1>5, <2>1, <2>2, <2>3 DEF CallbackShows
  <2> QED
    BY <1>0, <2>2, <2>3, <2>4, NothingChanges, ShownStep
<1>9. CASE EditAfterClick(h)
  <2>1. /\ UNCHANGED incidents /\ pc[h] = "edit"
        /\ messages' = EditMessage(rec[h].message_id, rec[h])
        /\ pc' = [pc EXCEPT ![h] = "release"]
    BY <1>1, <1>9 DEF EditAfterClick, Conclude, Goto, redis
  <2>2. /\ incidents[i] # None /\ Placed(rec[h], i) /\ rec[h].status = incidents[i].status
        /\ rec[h].message_id # None /\ rec[h].message_id = incidents[i].message_id
        /\ pc'[h] = "release"
    BY <1>0, <1>4, <2>1 DEF CallbackTracks, CallbackShows, TypeOK
  <2>3. /\ \A k : MessagesOf(k)' = MessagesOf(k)
        /\ \A k \in Incidents : k # i => SameMessages(k)
        /\ messages'[rec[h].message_id].deleted
           \/ messages'[rec[h].message_id].status = rec[h].status
    BY <1>4, <2>1, <2>2, EditShows
  <2>4. Presented(i)'
    BY <1>4, <2>1, <2>2, <2>3 DEF Presented, UpToDate
  <2>5. Shows(h)'
    BY <1>5, <2>2 DEF CallbackShows
  <2> QED
    BY <1>0, <1>3, <1>4, <2>1, <2>3, <2>4, <2>5, ShownStep
<1> QED
  BY <1>2, <1>6, <1>7, <1>8, <1>9 DEF CallbackStep

LEMMA ShownNext ==
  ASSUME TypeOK, TrackInv, LockHeld, Quiet => ShownInv, Faithful, Faithful', [Next]_vars
  PROVE  Quiet' => ShownInv'
<1> SUFFICES ASSUME Quiet' PROVE ShownInv'
  OBVIOUS
<1>1. Exclusive /\ Later
  BY EachStepLater DEF Faithful, Calm, LockHeld, Exclusive
<1>2. ShownInv
  <2>1. \A kind \in {"telegram", "store"} : /\ spent[kind] \in Nat /\ spent'[kind] = 0
                                            /\ spent'[kind] >= spent[kind]
    BY <1>1 DEF Later, Quiet, Kinds, Faults
  <2> QED
    BY <2>1 DEF Quiet
<1>3. CASE UNCHANGED vars
  <2>1. \A g \in Handlers : Stays(g)
    BY <1>3 DEF vars, tasks, Stays
  <2>2. UNCHANGED <<messages, incidents>> /\ None \notin Handlers
    BY <1>3, HandlersAssumption DEF vars, chat, redis
  <2> QED
    BY <1>1, <1>2, <2>1, <2>2, NothingChanges, ShownStep
<1> QED
  BY <1>1, <1>2, <1>3, EnvironmentShows, WebhookShowsStep, CallbackShowsStep DEF Next

LEMMA FaithfulShows == Spec /\ []Faithful => [](Quiet => ShownInv)
<1>1. Init => ShownInv /\ LockHeld
  BY DEF Init, WorldInit, ShownInv, Presented, MessagesOf, Shows, InCritical, Keys,
     LockHeld, Working
<1>2. Faithful => Calm
  BY DEF Faithful
<1>3. TypeOK /\ TrackInv /\ LockHeld /\ (Quiet => ShownInv) /\ Faithful /\ Faithful' /\ [Next]_vars
      => (Quiet => ShownInv)'
  BY ShownNext
<1> QED
  BY <1>1, <1>2, <1>3, LockHeldStep, CalmTracks, TypeCorrect, PTL DEF Spec

(***************************************************************************)
(* "Status changes originating in Better Stack are reflected back into the *)
(* same Telegram message": once its webhooks have been answered, an        *)
(* incident has been given exactly one message, and it shows the status    *)
(* Better Stack has or was deleted.  Neither the order of the webhooks,    *)
(* nor duplicates, nor a callback that edits the same message get in the   *)
(* way.                                                                    *)
(***************************************************************************)
THEOREM MessagesAgree == Spec /\ []Dependable => []MessagesInSync
<1>1. ASSUME TypeOK, BackedInv, KnownInv, AckInv, AbsorbInv, OrderedInv, Quiet => ShownInv
      PROVE  MessagesInSync
  <2> SUFFICES ASSUME ShownInv, NEW i \in Incidents, Settled(i)
               PROVE  \E m \in DOMAIN messages :
                        /\ MessagesOf(i) = {m}
                        /\ messages[m].deleted \/ messages[m].status = StatusAfter(timeline[i])
    BY <1>1 DEF MessagesInSync, Quiet, StatusReflected
  <2>1. incidents[i] # None /\ incidents[i].status = StatusAfter(timeline[i])
    BY <1>1, SettledAgrees DEF Settled, StoredStatus
  <2>2. \A h \in Handlers : pc[h] \in Updating => req[h].incident # i
    BY DEF Settled, Updating
  <2>3. Presented(i)
    BY DEF ShownInv
  <2>4. /\ MessagesOf(i) = {incidents[i].message_id}
        /\ UpToDate(i, incidents[i].message_id)
    BY <2>1, <2>2, <2>3 DEF Presented
  <2>5. incidents[i].message_id \in DOMAIN messages
    BY <2>4 DEF MessagesOf
  <2> QED
    BY <2>1, <2>4, <2>5 DEF UpToDate
<1>2. Dependable => Steady /\ Reliable /\ Faithful
  BY DEF Dependable, Steady, Reliable, Faithful
<1> QED
  BY <1>1, <1>2, FaithfulShows, SteadyOrdered, SteadyAbsorbs, ReliableAcks, AlwaysKnown,
     AlwaysBacked, TypeCorrect, PTL

-----------------------------------------------------------------------------
(***************************************************************************)
(* Reopened incidents.  An event of an earlier life has left no mark in    *)
(* the status, so what was applied does not tell where the status stands;  *)
(* the order of the deliveries does.  While every webhook is answered and  *)
(* none overtakes another, the events are applied one after the other.     *)
(***************************************************************************)
OnceReopened(line) ==
  \A m, n \in DOMAIN line :
     line[m] = "incident_reopened" /\ line[n] = "incident_reopened" => m = n

Orderly == /\ Calm
           /\ \A kind \in {"crash", "store", "storeReply", "timeout", "overtake"} : spent[kind] = 0
           /\ \A i \in Incidents : OnceReopened(timeline[i])

Closing == {"incident_acknowledged", "incident_resolved"}

Separated(line, m, n) ==
  \E p \in DOMAIN line : m < p /\ p < n /\ line[p] = "incident_reopened"

\* Better Stack starts an incident once, and between two reopenings it lets it be
\* acknowledged and then resolved, once each.
Regular(line) ==
  /\ \A n \in DOMAIN line : line[n] = "incident_started" <=> n = 1
  /\ \A m, n \in DOMAIN line :
       /\ m < n /\ line[m] \in Closing /\ line[n] \in Closing
       /\ line[m] = "incident_resolved" \/ line[n] = "incident_acknowledged"
       => Separated(line, m, n)

LineInv == \A i \in Incidents : Regular(timeline[i])

\* The last status change of a timeline.
LEMMA LastChange ==
  ASSUME NEW line \in Seq(Events), HasLast(line)
  PROVE  \E n \in DOMAIN line : /\ line[n] # "comment" /\ StatusAfter(line) = EventStatus(line[n])
                                /\ \A m \in DOMAIN line : line[m] # "comment" => m <= n
BY LastDecides DEF HasLast

LEMMA RegularGrows ==
  ASSUME NEW line \in Seq(Events), NEW event \in Events, line # <<>> => HasLast(line),
         Possible(line, event), Regular(line)
  PROVE  Regular(Append(line, event))
<1> DEFINE longer == Append(line, event)
           size   == Len(line)
<1>1. /\ size \in Nat /\ DOMAIN line = 1 .. size /\ DOMAIN longer = 1 .. (size + 1)
      /\ \A n \in 1 .. size : longer[n] = line[n]
      /\ longer[size + 1] = event
  BY AppendProperties, LenProperties
<1>2. size = 0 <=> line = <<>>
  BY EmptySeq
<1> HIDE DEF longer, size
<1>3. \A n \in DOMAIN longer : longer[n] = "incident_started" <=> n = 1
  <2>1. event = "incident_started" <=> size = 0
    BY <1>1, <1>2 DEF Possible
  <2> QED
    BY <1>1, <2>1 DEF Regular
<1>4. ASSUME NEW m \in DOMAIN longer, NEW n \in DOMAIN longer, m < n,
             longer[m] \in Closing, longer[n] \in Closing,
             longer[m] = "incident_resolved" \/ longer[n] = "incident_acknowledged"
      PROVE  Separated(longer, m, n)
  <2>1. CASE n \in 1 .. size
    <3>1. Separated(line, m, n)
      BY <1>1, <1>4, <2>1 DEF Regular
    <3> QED
      BY <1>1, <3>1 DEF Separated
  <2>2. CASE n = size + 1
    <3>1. m \in 1 .. size /\ longer[m] = line[m] /\ longer[n] = event /\ line # <<>>
      BY <1>1, <1>2, <1>4, <2>2
    <3>2. PICK last \in DOMAIN line :
             /\ line[last] # "comment" /\ StatusAfter(line) = EventStatus(line[last])
             /\ \A k \in DOMAIN line : line[k] # "comment" => k <= last
      BY <3>1, LastChange
    <3>3. m <= last /\ line[last] \in Events /\ last \in Nat /\ m \in Nat
      BY <1>1, <1>4, <3>1, <3>2 DEF Closing
    <3>4. CASE line[last] = "incident_reopened"
      <4>1. m # last
        BY <1>4, <3>1, <3>4 DEF Closing
      <4> QED
        BY <1>1, <2>2, <3>1, <3>2, <3>3, <3>4, <4>1 DEF Separated
    <3>5. CASE line[last] = "incident_started"
      <4>1. last = 1 /\ m = 1 /\ line[m] = "incident_started"
        BY <1>1, <3>1, <3>3, <3>5 DEF Regular
      <4> QED
        BY <1>4, <3>1, <4>1 DEF Closing
    <3>6. CASE line[last] \in Closing
      <4>1. event = "incident_acknowledged" => StatusAfter(line) = "started"
        BY <3>1 DEF Possible
      <4>2. event = "incident_resolved" => StatusAfter(line) # "resolved"
        BY <3>1 DEF Possible
      <4>3. /\ event = "incident_resolved" /\ line[last] = "incident_acknowledged"
            /\ line[m] = "incident_resolved"
        BY <1>4, <3>1, <3>2, <3>6, <4>1, <4>2 DEF EventStatus, Closing
      <4>4. m < last
        BY <3>3, <4>3
      <4>5. Separated(line, m, last)
        BY <1>1, <3>1, <4>3, <4>4 DEF Regular, Closing
      <4> QED
        BY <1>1, <2>2, <3>2, <4>5 DEF Separated
    <3> QED
      BY <3>2, <3>3, <3>4, <3>5, <3>6 DEF Events, Closing
  <2> QED
    BY <1>1, <2>1, <2>2
<1> QED
  BY <1>3, <1>4 DEF Regular, longer

LEMMA LineNext ==
  ASSUME TypeOK, BackedInv, LineInv, [Next]_vars
  PROVE  LineInv'
<1>1. CASE UNCHANGED timeline
  BY <1>1 DEF LineInv
<1>2. ASSUME NEW j \in Incidents, NEW event \in Events, Logs(j, event)
      PROVE  LineInv'
  <2>1. PICK line \in Seq(Events) : line = timeline[j]
    BY DEF TypeOK
  <2>2. \A i \in Incidents : timeline'[i] = IF i = j THEN Append(line, event) ELSE timeline[i]
    BY <1>2, <2>1 DEF Logs, Log, TypeOK
  <2>3. (line # <<>> => HasLast(line)) /\ Possible(line, event) /\ Regular(line)
    BY <1>2, <2>1 DEF BackedInv, TimelinesHaveLast, Logs, LineInv
  <2>4. Regular(Append(line, event))
    BY <2>3, RegularGrows
  <2> QED
    BY <2>2, <2>4 DEF LineInv
<1> QED
  BY <1>1, <1>2, EachStepLogs

LEMMA AlwaysRegular == Spec => []LineInv
<1>1. Init => LineInv
  <2>1. Regular(<<>>)
    BY DEF Regular
  <2>2. Init => timeline = [i \in Incidents |-> <<>>]
    BY DEF Init, WorldInit
  <2>3. timeline = [i \in Incidents |-> <<>>] => LineInv
    BY <2>1 DEF LineInv
  <2> QED
    BY <2>2, <2>3
<1> QED
  BY <1>1, LineNext, AlwaysBacked, TypeCorrect, PTL DEF Spec

\* Without reopening, no event of consequence happens twice.
LEMMA HappensOnce ==
  ASSUME TypeOK, LineInv, NoReopening, NEW i \in Incidents,
         NEW m \in DOMAIN timeline[i], NEW n \in DOMAIN timeline[i],
         timeline[i][m] = timeline[i][n], FromEvent(timeline[i][n]) # None
  PROVE  m = n
<1>1. /\ timeline[i][n] \in Events /\ timeline[i][n] # "incident_reopened"
      /\ Regular(timeline[i])
  BY DEF TypeOK, NoReopening, Happened, LineInv
<1>2. m \in Nat /\ n \in Nat
  BY LenProperties DEF TypeOK
<1>3. \A p, q \in DOMAIN timeline[i] : ~Separated(timeline[i], p, q)
  BY DEF Separated, NoReopening, Happened
<1>4. timeline[i][n] \in {"incident_started"} \cup Closing
  BY <1>1 DEF Events, Closing, FromEvent, TriggerOf
<1>5. CASE timeline[i][n] = "incident_started"
  BY <1>1, <1>5 DEF Regular
<1>6. CASE timeline[i][n] \in Closing
  <2>1. ~(m < n) /\ ~(n < m)
    BY <1>1, <1>3, <1>6 DEF Regular, Closing
  <2> QED
    BY <1>2, <2>1
<1> QED
  BY <1>4, <1>5, <1>6

(***************************************************************************)
(* What Better Stack was told was handled, was: the event that was         *)
(* answered with 200 is the event that was written, whatever the order of  *)
(* the requests, however often they were repeated, timed out or met a held *)
(* lock, and although one command of Redis failed after the event had been *)
(* marked.  A failed delivery takes its mark back (process_locked_webhook  *)
(* unmarks before it answers 500).                                         *)
(***************************************************************************)
THEOREM AcksAreKept == Spec /\ []Dependable => []AckedImpliesApplied
<1>1. ASSUME TypeOK, KnownInv, LineInv, AckInv, AbsorbInv
      PROVE  AckedImpliesApplied
  <2> SUFFICES ASSUME NEW i \in Incidents, NEW n \in DOMAIN timeline[i] \ pending[i],
                      FromEvent(timeline[i][n]) # None
               PROVE  n \in applied[i]
    BY DEF AckedImpliesApplied
  <2>1. PICK m \in applied[i] : timeline[i][m] = timeline[i][n]
    BY <1>1 DEF AckInv, AckedTaken, AckedOf, TakenIn
  <2>2. m \in DOMAIN timeline[i]
    BY <1>1 DEF KnownInv
  <2> QED
    BY <1>1, <2>1, <2>2, HappensOnce DEF AbsorbInv
<1>2. (Dependable => Steady) /\ (Dependable => Reliable)
  BY DEF Dependable, Steady, Reliable
<1> QED
  BY <1>1, <1>2, AlwaysRegular, SteadyAbsorbs, ReliableAcks, AlwaysKnown, TypeCorrect, PTL

-----------------------------------------------------------------------------
(***************************************************************************)
(* The queue.  A request carries the first event that is still due, so an  *)
(* incident has one request at a time, and what was answered or applied    *)
(* comes before it.                                                        *)
(***************************************************************************)
FirstDue(h) == pc[h] # "idle" => \A n \in pending[req[h].incident] : req[h].no <= n

QueueInv == /\ \A h \in WebhookHandlers : FirstDue(h)
            /\ \A i \in Incidents : \A n \in AckedOf(i), m \in pending[i] : n < m

LEMMA TimelineNumbers ==
  ASSUME TypeOK, NEW i \in Incidents
  PROVE  /\ timeline[i] \in Seq(Events) /\ Len(timeline[i]) \in Nat
         /\ DOMAIN timeline[i] = 1 .. Len(timeline[i])
         /\ pending[i] \subseteq DOMAIN timeline[i]
BY LenProperties DEF TypeOK

LEMMA InTurn ==
  ASSUME TypeOK, Later, spent'["overtake"] = 0, NEW h \in WebhookHandlers, NEW i \in Incidents,
         NEW n \in pending[i], Deliver(h, i, n)
  PROVE  \A m \in pending[i] : n <= m
<1>1. Spend("overtake") => spent["overtake"] \in Nat /\ spent'["overtake"] = spent["overtake"] + 1
  BY SpendsOne DEF Kinds
<1>2. spent'["overtake"] >= spent["overtake"] /\ spent["overtake"] \in Nat
  BY DEF Later, Kinds
<1> QED
  BY <1>1, <1>2 DEF Deliver, Overtake

LEMMA QueueNext ==
  ASSUME TypeOK, KnownInv, PromptInv, QueueInv, Orderly', [Next]_vars
  PROVE  QueueInv'
<1>0. Later /\ Prompt' /\ spent'["overtake"] = 0
  BY EachStepLater DEF Orderly, Prompt
<1>1. ASSUME NEW i \in Incidents, NEW no, no \in DOMAIN timeline[i],
             \A n \in pending[i] : no <= n, NEW n \in pending'[i]
      PROVE  no <= n
  <2>1. CASE UNCHANGED pending
    BY <1>1, <2>1
  <2>2. ASSUME NEW j \in Incidents, NEW event \in Events, Log(j, event)
        PROVE  no <= n
    BY <1>1, <2>2, TimelineNumbers DEF Log, TypeOK
  <2>3. ASSUME NEW g \in WebhookHandlers, pc[g] # "idle",
               pending' = [pending EXCEPT ![req[g].incident] = @ \ {req[g].no}]
        PROVE  no <= n
    BY <1>1, <2>3, WebhookIncident DEF TypeOK
  <2> QED
    BY <2>1, <2>2, <2>3, PromptPending
<1>2. ASSUME NEW h \in WebhookHandlers PROVE FirstDue(h)'
  <2> SUFFICES ASSUME pc'[h] # "idle" PROVE FirstDue(h)'
    BY DEF FirstDue
  <2>1. CASE pc[h] # "idle" /\ SameRequest(h)
    <3>1. PICK i \in Incidents : i = req[h].incident
      BY <2>1, WebhookIncident
    <3>2. req[h].no \in DOMAIN timeline[i] /\ \A n \in pending[i] : req[h].no <= n
      BY <2>1, <3>1 DEF KnownInv, RequestKnown, QueueInv, FirstDue
    <3> QED
      BY <1>1, <2>1, <3>1, <3>2 DEF FirstDue, SameRequest
  <2>2. ASSUME NEW i \in Incidents, NEW n \in pending[i], Deliver(h, i, n)
        PROVE  FirstDue(h)'
    <3>1. h \in Handlers
      BY DEF Handlers
    <3>2. req'[h].incident = i /\ req'[h].no = n /\ pending' = pending
      BY <2>2, <3>1 DEF Deliver, TypeOK, upstream
    <3> QED
      BY <1>0, <2>2, <3>2, InTurn DEF FirstDue
  <2> QED
    BY <2>1, <2>2, EachStepRequests
<1>3. ASSUME NEW i \in Incidents, NEW n \in AckedOf(i)', NEW m \in pending'[i]
      PROVE  n < m
  <2>1. CASE UNCHANGED pending
    <3>1. CASE UNCHANGED timeline
      BY <1>3, <2>1, <3>1 DEF QueueInv, AckedOf
    <3>2. ASSUME NEW j \in Incidents, NEW event \in Events, Log(j, event)
          PROVE  n < m
      <4>1. n \in AckedOf(i)
        BY <1>3, <3>2, LogLater
      <4> QED
        BY <1>3, <2>1, <4>1 DEF QueueInv
    <3> QED
      BY <3>1, <3>2, EachStepLogs DEF Logs
  <2>2. ASSUME NEW j \in Incidents, NEW event \in Events, Log(j, event)
        PROVE  n < m
    <3>1. n \in AckedOf(i)
      BY <1>3, <2>2, LogLater
    <3>2. m \in pending[i] \/ m = Len(timeline[i]) + 1
      BY <1>3, <2>2 DEF Log, TypeOK
    <3> QED
      BY <3>1, <3>2, TimelineNumbers DEF QueueInv, AckedOf
  <2>3. ASSUME NEW g \in WebhookHandlers, pc[g] # "idle", pc'[g] = "idle",
               pending' = [pending EXCEPT ![req[g].incident] = @ \ {req[g].no}]
        PROVE  n < m
    <3>1. PICK j \in Incidents : j = req[g].incident
      BY <2>3, WebhookIncident
    <3>2. \A k \in Incidents : pending'[k] = IF k = j THEN pending[k] \ {req[g].no} ELSE pending[k]
      BY <2>3, <3>1 DEF TypeOK
    <3>3. timeline' = timeline \/ n \in AckedOf(i)
      BY <1>3, EachStepLogs, LogLater DEF Logs
    <3>4. n \in AckedOf(i) \/ (i = j /\ n = req[g].no)
      BY <1>3, <3>2, <3>3 DEF AckedOf
    <3>5. m \in pending[i] /\ (i = j => m # req[g].no)
      BY <1>3, <3>2
    <3>6. CASE i = j /\ n = req[g].no
      <4>1. n <= m /\ n # m /\ n \in Nat /\ m \in Nat
        BY <2>3, <3>1, <3>5, <3>6, TimelineNumbers, WebhookIncident DEF QueueInv, FirstDue
      <4> QED
        BY <4>1
    <3> QED
      BY <3>4, <3>5, <3>6 DEF QueueInv
  <2> QED
    BY <2>1, <2>2, <2>3, PromptPending
<1> QED
  BY <1>2, <1>3 DEF QueueInv

LEMMA OrderlyQueue == Spec /\ []Orderly => []QueueInv
<1>1. Init => QueueInv
  BY DEF Init, WorldInit, QueueInv, FirstDue, AckedOf, Handlers
<1>2. Orderly => Prompt
  BY DEF Orderly, Prompt
<1> QED
  BY <1>1, <1>2, QueueNext, AlwaysPrompt, AlwaysKnown, TypeCorrect, PTL DEF Spec

\* An incident has one request at a time.
LEMMA OneRequest ==
  ASSUME TypeOK, PromptInv, QueueInv, NEW g \in WebhookHandlers, NEW h \in WebhookHandlers,
         pc[g] # "idle", pc[h] # "idle", req[g].incident = req[h].incident
  PROVE  g = h
<1>1. PICK i \in Incidents : i = req[g].incident
  BY WebhookIncident
<1>2. /\ req[g].no \in pending[i] /\ req[h].no \in pending[i]
      /\ req[g].no <= req[h].no /\ req[h].no <= req[g].no
      /\ req[g].no \in Nat /\ req[h].no \in Nat
  BY <1>1, WebhookIncident DEF PromptInv, Awaited, QueueInv, FirstDue
<1> QED
  BY <1>2 DEF PromptInv, Same

\* What it carries comes after all that was answered or applied.
LEMMA AppliedBefore ==
  ASSUME TypeOK, KnownInv, PromptInv, QueueInv, NEW h \in WebhookHandlers, pc[h] # "idle",
         NEW i \in Incidents, i = req[h].incident
  PROVE  /\ req[h].no \in pending[i] /\ req[h].no \in DOMAIN timeline[i] /\ req[h].no \in Nat
         /\ \A n \in DOMAIN timeline[i] : n < req[h].no => n \in AckedOf(i)
         /\ \A n \in applied[i] : n \in Nat /\ (n < req[h].no \/ (n = req[h].no /\ Past(h)))
<1>1. /\ req[h].no \in pending[i] /\ req[h].no \in DOMAIN timeline[i] /\ req[h].no \in Nat
      /\ \A n \in pending[i] : req[h].no <= n
  BY TimelineNumbers, WebhookIncident DEF PromptInv, Awaited, QueueInv, FirstDue
<1>2. ASSUME NEW n \in DOMAIN timeline[i], n < req[h].no PROVE n \in AckedOf(i)
  BY <1>1, <1>2, TimelineNumbers DEF AckedOf
<1>3. ASSUME NEW n \in applied[i]
      PROVE  n \in Nat /\ (n < req[h].no \/ (n = req[h].no /\ Past(h)))
  <2>1. n \in DOMAIN timeline[i] /\ n \in Nat
    BY TimelineNumbers DEF KnownInv
  <2>2. CASE n \in pending[i]
    <3>1. PICK g \in WebhookHandlers : Past(g) /\ req[g].incident = i /\ req[g].no = n
      BY <1>3, <2>2 DEF PromptInv
    <3>2. g = h
      BY <3>1, OneRequest DEF Past
    <3> QED
      BY <2>1, <3>1, <3>2
  <2>3. CASE n \notin pending[i]
    BY <1>1, <2>1, <2>3 DEF QueueInv, AckedOf
  <2> QED
    BY <2>2, <2>3
<1> QED
  BY <1>1, <1>2, <1>3

-----------------------------------------------------------------------------
(***************************************************************************)
(* The dedup keys.  A key stands for an event of the life that is being    *)
(* applied: the clearing of the stale keys, when a reopening has been      *)
(* applied, takes away those of the life before.                           *)
(***************************************************************************)
\* The event comes after every reopening that has been applied.
Current(i, n) == \A p \in applied[i] : timeline[i][p] = "incident_reopened" => p < n

\* No reopening is applied by this step.
NoNewLife(i) == \A p \in applied'[i] \ applied[i] : timeline'[i][p] # "incident_reopened"

Marked(i, n) == \/ n \in applied[i]
                \/ \E h \in WebhookHandlers :
                      pc[h] \in Marking /\ req[h].incident = i /\ req[h].no = n

\* The task is about to delete the key.
Clearing(h, i, event) ==
  /\ req[h].incident = i
  /\ \/ pc[h] = "clearResolved" /\ event \in Closing
     \/ pc[h] = "clearAcknowledged" /\ event = "incident_acknowledged"

KeyCurrent(i, event) ==
  \/ \E n \in DOMAIN timeline[i] : /\ timeline[i][n] = event /\ Marked(i, n)
                                   /\ event \in Closing => Current(i, n)
  \/ \E h \in WebhookHandlers : Clearing(h, i, event)

KeysCurrent == \A i \in Incidents, event \in Events : <<i, event>> \in dedup => KeyCurrent(i, event)

MarkTask(h) == /\ Past(h) => req[h].no \in applied[req[h].incident]
               /\ pc[h] # "unmark"

MarkInv == (\A h \in WebhookHandlers : MarkTask(h)) /\ KeysCurrent /\ AckedImpliesApplied

LEMMA CurrentSame ==
  ASSUME KnownInv, Later, NEW i \in Incidents, NEW n
  PROVE  /\ Current(i, n)' => Current(i, n)
         /\ NoNewLife(i) /\ Current(i, n) => Current(i, n)'
<1>1. ASSUME Current(i, n)' PROVE Current(i, n)
  BY <1>1 DEF Current, KnownInv, Later, LinesGrow
<1>2. ASSUME NoNewLife(i), Current(i, n), NEW p \in applied'[i],
             timeline'[i][p] = "incident_reopened"
      PROVE  p < n
  <2>1. CASE p \in applied[i]
    BY <1>2, <2>1 DEF Current, KnownInv, Later, LinesGrow
  <2> QED
    BY <1>2, <2>1 DEF NoNewLife
<1> QED
  BY <1>1, <1>2 DEF Current

\* Keys stay explained, unless the task that moves starts a new life.
LEMMA KeysMove ==
  ASSUME TypeOK, KnownInv, Later, MarkInv, NEW h, \A g \in WebhookHandlers \ {h} : Rests(g),
         NEW i \in Incidents, NEW event \in Events, <<i, event>> \in dedup,
         event \in Closing => NoNewLife(i),
         h \in WebhookHandlers /\ pc[h] \in Marking /\ req[h].incident = i =>
            (pc'[h] \in Marking /\ SameRequest(h)) \/ req[h].no \in applied'[i],
         h \in WebhookHandlers /\ Clearing(h, i, event) => Clearing(h, i, event)'
  PROVE  KeyCurrent(i, event)'
<1>1. KeyCurrent(i, event)
  BY DEF MarkInv, KeysCurrent
<1>2. ASSUME NEW n \in DOMAIN timeline[i], timeline[i][n] = event, Marked(i, n),
             event \in Closing => Current(i, n)
      PROVE  KeyCurrent(i, event)'
  <2>1. n \in DOMAIN timeline'[i] /\ timeline'[i][n] = event
    BY <1>2 DEF Later, LinesGrow
  <2>2. event \in Closing => Current(i, n)'
    BY <1>2, CurrentSame
  <2>3. Marked(i, n)'
    <3>1. CASE n \in applied[i]
      BY <3>1 DEF Later, Marked
    <3>2. ASSUME NEW g \in WebhookHandlers, pc[g] \in Marking, req[g].incident = i, req[g].no = n
          PROVE  Marked(i, n)'
      BY <3>2 DEF Marked, Rests, SameRequest
    <3> QED
      BY <1>2, <3>1, <3>2 DEF Marked
  <2> QED
    BY <2>1, <2>2, <2>3 DEF KeyCurrent
<1>3. ASSUME NEW g \in WebhookHandlers, Clearing(g, i, event)
      PROVE  KeyCurrent(i, event)'
  BY <1>3 DEF KeyCurrent, Clearing, Rests
<1> QED
  BY <1>1, <1>2, <1>3 DEF KeyCurrent

\* What a step has to show.
LEMMA MarkStep ==
  ASSUME TypeOK, KnownInv, Later, MarkInv,
         \A g \in WebhookHandlers : Rests(g) \/ MarkTask(g)',
         KeysCurrent',
         \A i \in Incidents : \A n \in AckedOf(i)' :
            n \in AckedOf(i) \/ FromEvent(timeline'[i][n]) = None \/ n \in applied'[i]
  PROVE  MarkInv'
<1>1. ASSUME NEW g \in WebhookHandlers PROVE MarkTask(g)'
  <2>1. CASE Rests(g)
    <3>1. MarkTask(g) /\ (pc[g] # "idle" => req[g].incident \in Incidents)
      BY WebhookIncident DEF MarkInv
    <3> QED
      BY <2>1, <3>1 DEF MarkTask, Rests, Past, Later
  <2> QED
    BY <2>1
<1>2. AckedImpliesApplied'
  <2> SUFFICES ASSUME NEW i \in Incidents, NEW n \in AckedOf(i)', FromEvent(timeline'[i][n]) # None
               PROVE  n \in applied'[i]
    BY DEF AckedImpliesApplied, AckedOf
  <2>1. CASE n \in AckedOf(i)
    BY <2>1 DEF MarkInv, AckedImpliesApplied, AckedOf, Later, LinesGrow
  <2> QED
    BY <2>1
<1> QED
  BY <1>1, <1>2 DEF MarkInv

\* A key that is there when its event is delivered would be one of an earlier life.
LEMMA MarkIsNew ==
  ASSUME TypeOK, BackedInv, LineInv, KnownInv, PromptInv, QueueInv, MarkInv,
         Orderly, NEW h \in WebhookHandlers, pc[h] = "mark",
         NEW i \in Incidents, i = req[h].incident
  PROVE  <<i, req[h].what>> \notin dedup
<1> SUFFICES ASSUME <<i, req[h].what>> \in dedup PROVE FALSE
  OBVIOUS
<1>1. PICK event \in Events : event = req[h].what
  BY WebhookIncident
<1>2. PICK no \in DOMAIN timeline[i] : no = req[h].no /\ timeline[i][no] = event
  BY <1>1 DEF KnownInv, RequestKnown
<1>3. FromEvent(event) # None /\ h \in Handlers
  BY <1>1 DEF Handlers, BackedInv, Backed, WebhookBacked
<1>4. KeyCurrent(i, event)
  BY <1>1 DEF MarkInv, KeysCurrent
<1>5. \A g \in WebhookHandlers : pc[g] # "idle" /\ req[g].incident = i => g = h
  BY OneRequest
<1>6. PICK n \in applied[i] : /\ n \in DOMAIN timeline[i] /\ timeline[i][n] = event
                              /\ event \in Closing => Current(i, n)
  <2>1. \A g \in WebhookHandlers : ~Clearing(g, i, event)
    BY <1>5 DEF Clearing
  <2>2. PICK n \in DOMAIN timeline[i] : /\ timeline[i][n] = event /\ Marked(i, n)
                                        /\ event \in Closing => Current(i, n)
    BY <1>4, <2>1 DEF KeyCurrent
  <2>3. n \in applied[i]
    BY <1>5, <2>2 DEF Marked, Marking
  <2> QED
    BY <2>2, <2>3
<1>7. /\ n < no /\ n \in Nat /\ no \in Nat
      /\ \A m \in DOMAIN timeline[i] : m < no => m \in AckedOf(i)
  BY <1>2, <1>6, AppliedBefore DEF Past
<1>8. CASE event = "incident_started"
  BY <1>2, <1>6, <1>7, <1>8 DEF LineInv, Regular
<1>9. CASE event = "incident_reopened"
  BY <1>2, <1>6, <1>7, <1>9 DEF Orderly, OnceReopened
<1>10. CASE event \in Closing
  <2>1. Separated(timeline[i], n, no)
    BY <1>2, <1>6, <1>7, <1>10 DEF LineInv, Regular, Closing
  <2>2. PICK p \in DOMAIN timeline[i] :
           n < p /\ p < no /\ timeline[i][p] = "incident_reopened"
    BY <2>1 DEF Separated
  <2>3. p \in AckedOf(i) /\ FromEvent("incident_reopened") # None
    BY <1>7, <2>2, OptionAssumption DEF FromEvent, TriggerOf, Triggers
  <2>4. p \in applied[i]
    BY <2>2, <2>3 DEF MarkInv, AckedImpliesApplied, AckedOf
  <2>5. p < n /\ p \in Nat
    BY <1>6, <1>10, <2>2, <2>4, TimelineNumbers DEF Current
  <2> QED
    BY <1>7, <2>2, <2>5
<1> QED
  BY <1>1, <1>3, <1>8, <1>9, <1>10 DEF Events, Closing, FromEvent, TriggerOf

LEMMA EnvironmentMarks ==
  ASSUME TypeOK, KnownInv, Later, MarkInv, Orderly', Environment
  PROVE  MarkInv'
<1>0. UNCHANGED upstream => \A i \in Incidents : AckedOf(i)' = AckedOf(i)
  BY DEF upstream, AckedOf
<1>1. /\ UNCHANGED applied /\ dedup' \subseteq dedup
      /\ \A i \in Incidents : NoNewLife(i)
  <2>1. UNCHANGED applied /\ dedup' \subseteq dedup
    BY DEF Environment, Happen, Deliver, GiveUp, Click, DeleteMessage, OrphanedLockExpires,
       LeaseLost, RecordExpires, DedupExpires, Crash, redis
  <2> QED
    BY <2>1 DEF NoNewLife
<1>2. ~Spend("timeout") /\ ~Spend("crash")
  <2>1. \A kind \in {"timeout", "crash"} :
          kind \in Kinds /\ spent[kind] \in Nat /\ spent'[kind] = 0
    BY DEF Later, Orderly, Kinds, Faults
  <2>2. \A kind \in {"timeout", "crash"} : Spend(kind) => spent'[kind] = spent[kind] + 1
    BY <2>1, SpendsOne
  <2> QED
    BY <2>1, <2>2
<1>3. CASE UNCHANGED tasks
  <2>1. \A g \in WebhookHandlers : Rests(g)
    BY <1>3 DEF tasks, Rests
  <2>2. \A i \in Incidents : AckedOf(i)' = AckedOf(i)
    <3>1. UNCHANGED upstream \/ \E i \in Incidents, event \in Events : Log(i, event)
      BY DEF Environment, Happen, Deliver, GiveUp, Click, DeleteMessage, OrphanedLockExpires,
       LeaseLost, RecordExpires, DedupExpires, Crash
    <3> QED
      BY <1>0, <3>1, LogLater
  <2>3. PICK h : h \notin WebhookHandlers
    BY HandlersAssumption DEF Handlers
  <2>4. KeysCurrent'
    BY <1>1, <2>1, <2>3, KeysMove DEF KeysCurrent
  <2> QED
    BY <2>1, <2>2, <2>4, MarkStep
<1>4. CASE \E h \in WebhookHandlers, i \in Incidents : \E n \in pending[i] : Deliver(h, i, n)
  <2> PICK h \in WebhookHandlers : /\ pc[h] = "idle" /\ pc' = [pc EXCEPT ![h] = "lock"]
                                   /\ \E r : req' = [req EXCEPT ![h] = r]
                                   /\ UNCHANGED <<upstream, dedup, rec, out>>
    BY <1>4 DEF Deliver, Goto, redis
  <2>1. h \in Handlers
    BY DEF Handlers
  <2>2. MarkTask(h)' /\ \A g \in WebhookHandlers \ {h} : Rests(g)
    BY <2>1 DEF MarkTask, Past, Rests, TypeOK, Handlers
  <2>3. KeysCurrent'
    BY <1>1, <2>2, KeysMove DEF KeysCurrent, Marking, Clearing
  <2> QED
    BY <1>0, <2>2, <2>3, MarkStep
<1> QED
  BY <1>2, <1>3, <1>4 DEF Environment, Happen, GiveUp, Crash, Click, DeleteMessage,
     OrphanedLockExpires, LeaseLost, RecordExpires, DedupExpires

\* A callback only adds to what is due.
LEMMA CallbackLogs ==
  ASSUME TypeOK, NEW h \in CallbackHandlers, CallbackStep(h)
  PROVE  \/ UNCHANGED upstream
         \/ \E j \in Incidents, event \in Events : Log(j, event)
<1>1. UNCHANGED upstream \/ (pc[h] = "api" /\ Log(req[h].incident, ActionEvent[req[h].what]))
  BY DEF CallbackStep, TakeClick, LockForCallback, CallBetterStack, RetryCall,
     LoadCurrent, StoreStatus, Reload, EditAfterClick, ReleaseAndAnswer, Accepted
<1>2. pc[h] = "api" => /\ req[h].incident \in Incidents
                       /\ req[h].what \in {"Acknowledge", "Resolve"}
  BY DEF TypeOK, CallbackTaskOK, Presses
<1> QED
  BY <1>1, <1>2 DEF ActionEvent, Events

LEMMA CallbackMarks ==
  ASSUME TypeOK, KnownInv, Later, MarkInv, NEW h \in CallbackHandlers, CallbackStep(h)
  PROVE  MarkInv'
<1>0. h \in Handlers /\ h \notin WebhookHandlers
  BY HandlersAssumption DEF Handlers
<1>1. /\ dedup' = dedup /\ applied' = applied /\ \A g \in WebhookHandlers : Rests(g)
      /\ \A i \in Incidents : NoNewLife(i)
  BY <1>0 DEF CallbackStep, TakeClick, LockForCallback, CallBetterStack, RetryCall, LoadCurrent,
     StoreStatus, Reload, EditAfterClick, ReleaseAndAnswer, Answer, Reset, Conclude, Goto, tasks,
     redis, Rests, TypeOK, Handlers, NoNewLife
<1>2. KeysCurrent'
  BY <1>0, <1>1, KeysMove DEF KeysCurrent
<1>3. \A i \in Incidents : AckedOf(i)' = AckedOf(i)
  BY CallbackLogs, LogLater DEF upstream, AckedOf
<1> QED
  BY <1>1, <1>2, <1>3, MarkStep

LEMMA WebhookMarks ==
  ASSUME TypeOK, BackedInv, LineInv, KnownInv, PromptInv, QueueInv, TrackInv, MarkInv, Later,
         Orderly, Orderly', NEW h \in WebhookHandlers, WebhookStep(h)
  PROVE  MarkInv'
<1>0. /\ h \in Handlers /\ timeline' = timeline /\ pc[h] # "idle"
      /\ MarkTask(h) /\ RequestKnown(h)
      /\ \A g \in WebhookHandlers \ {h} : Rests(g)
  BY DEF Handlers, MarkInv, KnownInv, WebhookStep, SkipUnknownEvent, LockIncident, MarkEvent,
     LoadRecord, UpsertRecord, ClearStaleEvents, ClearStale, SendIncident, SetMessage,
     EditIncident, UnmarkFailed, ReleaseAndRespond, Respond, Reset, Finish, Goto, Rests, TypeOK,
     upstream
<1>1. ~Spend("store") /\ ~Spend("storeReply")
  <2>1. \A kind \in {"store", "storeReply"} :
          kind \in Kinds /\ spent[kind] \in Nat /\ spent'[kind] = 0
    BY DEF Later, Orderly, Kinds, Faults
  <2>2. \A kind \in {"store", "storeReply"} : Spend(kind) => spent'[kind] = spent[kind] + 1
    BY <2>1, SpendsOne
  <2> QED
    BY <2>1, <2>2
<1>2. PICK i \in Incidents : i = req[h].incident
  BY <1>0, WebhookIncident
<1>3. PICK event \in Events : event = req[h].what
  BY <1>0, WebhookIncident
<1>4. PICK no \in DOMAIN timeline[i] : no = req[h].no /\ timeline[i][no] = event
  BY <1>0, <1>2, <1>3 DEF RequestKnown
<1>5. UNCHANGED pending => \A k \in Incidents : AckedOf(k)' = AckedOf(k)
  BY <1>0 DEF AckedOf
<1>6. UNCHANGED applied => \A k \in Incidents : NoNewLife(k)
  BY DEF NoNewLife
\* The steps that answer.
<1>7. CASE SkipUnknownEvent(h) \/ LockIncident(h) \/ ReleaseAndRespond(h)
  <2>1. UNCHANGED <<dedup, applied>> /\ pc[h] \in {"lock", "release"}
    BY <1>7 DEF SkipUnknownEvent, LockIncident, ReleaseAndRespond, redis
  <2>2. KeysCurrent'
    BY <1>0, <1>6, <2>1, KeysMove DEF KeysCurrent, Marking, Clearing
  <2>3. pc'[h] \in {"idle", "mark"}
    BY <1>0, <1>1, <1>7 DEF SkipUnknownEvent, LockIncident, ReleaseAndRespond, Respond, Reset,
       Goto, WriteFails, TypeOK
  <2>4. ASSUME NEW k \in Incidents, NEW n \in AckedOf(k)', n \notin AckedOf(k)
        PROVE  FromEvent(timeline'[k][n]) = None \/ n \in applied'[k]
    <3>1. CASE SkipUnknownEvent(h)
      <4>1. k = i /\ n = no
        BY <1>0, <1>2, <1>4, <2>4, <3>1, RespondAcks DEF SkipUnknownEvent
      <4> QED
        BY <1>0, <1>3, <1>4, <3>1, <4>1 DEF SkipUnknownEvent
    <3>2. CASE LockIncident(h)
      <4>1. UNCHANGED pending \/ Respond(h, "503") \/ Respond(h, "500")
        BY <3>2 DEF LockIncident
      <4>2. n \in AckedOf(k)
        BY <1>0, <1>5, <2>4, <4>1, RespondAcks
      <4> QED
        BY <2>4, <4>2
    <3>3. CASE ReleaseAndRespond(h)
      <4>1. out[h] = "200" /\ k = i /\ n = no /\ pc[h] = "release"
        BY <1>0, <1>2, <1>4, <2>4, <3>3, RespondAcks DEF ReleaseAndRespond
      <4>2. no \in applied[i]
        BY <1>0, <1>2, <1>4, <4>1 DEF MarkTask, Past
      <4> QED
        BY <2>1, <4>1, <4>2
    <3> QED
      BY <1>7, <3>1, <3>2, <3>3
  <2>5. MarkTask(h)'
    BY <2>3 DEF MarkTask, Past
  <2> QED
    BY <1>0, <2>2, <2>4, <2>5, MarkStep
<1> SUFFICES ASSUME ~(SkipUnknownEvent(h) \/ LockIncident(h) \/ ReleaseAndRespond(h))
             PROVE  MarkInv'
  BY <1>7
<1>8. UNCHANGED <<pending, req>> /\ InCritical(h)
  BY DEF WebhookStep, MarkEvent, LoadRecord, UpsertRecord, ClearStaleEvents,
     ClearStale, SendIncident, SetMessage, EditIncident, UnmarkFailed, upstream, InCritical
<1> SUFFICES MarkTask(h)' /\ KeysCurrent'
  BY <1>0, <1>5, <1>8, MarkStep
<1>9. MarkTask(h)' <=> (Past(h)' => no \in applied'[i]) /\ pc'[h] # "unmark"
  BY <1>2, <1>4, <1>8 DEF MarkTask
<1>10. CASE MarkEvent(h)
  <2>1. pc[h] = "mark" /\ UNCHANGED applied
    BY <1>10 DEF MarkEvent
  <2>2. <<i, event>> \notin dedup
    BY <1>2, <1>3, <2>1, MarkIsNew
  <2>3. dedup' = dedup \cup {<<i, event>>} /\ pc'[h] = "get"
    BY <1>0, <1>1, <1>2, <1>3, <1>10, <2>2 DEF MarkEvent, IsNew, MarkEventOnce, WriteFails, Goto,
       TypeOK
  <2>4. Current(i, no)
    BY <1>0, <1>2, <1>4, <2>1, AppliedBefore DEF Current, Past
  <2>5. Current(i, no)'
    BY <1>6, <2>1, <2>4, CurrentSame
  <2>6. KeyCurrent(i, event)'
    BY <1>0, <1>2, <1>4, <1>8, <2>3, <2>5 DEF KeyCurrent, Marked, Marking
  <2>7. ASSUME NEW k \in Incidents, NEW e \in Events, <<k, e>> \in dedup
        PROVE  KeyCurrent(k, e)'
    BY <1>0, <1>6, <2>1, <2>7, KeysMove DEF Marking, Clearing
  <2> QED
    BY <1>9, <2>3, <2>6, <2>7 DEF KeysCurrent, Past
<1>11. CASE LoadRecord(h)
  <2>1. UNCHANGED <<dedup, applied>> /\ pc[h] = "get" /\ pc'[h] = "upsert"
    BY <1>0, <1>1, <1>11 DEF LoadRecord, redis, Goto, TypeOK
  <2>2. SameRequest(h)
    BY <1>8 DEF SameRequest
  <2>3. KeysCurrent'
    BY <1>0, <1>6, <2>1, <2>2, KeysMove DEF KeysCurrent, Marking, Clearing
  <2> QED
    BY <1>9, <2>1, <2>3 DEF Past
<1>12. CASE UpsertRecord(h)
  <2>1. /\ rec[h].id = i /\ rec[h].status = NextStatus(Held(i), FromEvent(event))
        /\ pc[h] = "upsert" /\ dedup' = dedup
    BY <1>0, <1>2, <1>3, <1>8, <1>12 DEF UpsertRecord, TrackInv, Tracks, WebhookTracks, Placed
  <2>2. /\ applied' = [applied EXCEPT ![i] = @ \cup {no}]
        /\ pc'[h] = IF rec[h].status = "started" THEN "clearResolved" ELSE "notify"
    BY <1>0, <1>1, <1>2, <1>4, <1>12, <2>1 DEF UpsertRecord, NoteApplied, Goto, TypeOK
  <2>3. \A k \in Incidents : applied'[k] = IF k = i THEN applied[i] \cup {no} ELSE applied[k]
    BY <2>2 DEF TypeOK
  <2>4. ASSUME NEW k \in Incidents, NEW e \in Events, <<k, e>> \in dedup
        PROVE  KeyCurrent(k, e)'
    <3>1. CASE k = i /\ e \in Closing /\ event = "incident_reopened"
      <4>1. pc'[h] = "clearResolved"
        BY <2>1, <2>2, <3>1 DEF FromEvent, TriggerOf, NextStatus
      <4> QED
        BY <1>2, <1>8, <3>1, <4>1 DEF KeyCurrent, Clearing
    <3>2. CASE ~(k = i /\ e \in Closing /\ event = "incident_reopened")
      <4>1. e \in Closing => NoNewLife(k)
        BY <1>0, <1>4, <2>3, <3>2 DEF NoNewLife
      <4>2. req[h].incident = k => req[h].no \in applied'[k]
        BY <1>2, <1>4, <2>3
      <4> QED
        BY <1>0, <2>1, <2>4, <4>1, <4>2, KeysMove DEF Clearing
    <3> QED
      BY <3>1, <3>2
  <2>5. no \in applied'[i] /\ pc'[h] # "unmark"
    BY <2>2, <2>3
  <2> QED
    BY <1>9, <2>1, <2>4, <2>5 DEF KeysCurrent
<1>13. CASE ClearStaleEvents(h)
  <2>1. /\ UNCHANGED applied /\ Past(h) /\ pc[h] \notin Marking /\ pc'[h] # "unmark"
        /\ \/ /\ pc[h] = "clearResolved" /\ pc'[h] = "clearAcknowledged"
              /\ dedup' = dedup \ {<<i, "incident_resolved">>}
           \/ /\ pc[h] = "clearAcknowledged"
              /\ dedup' = dedup \ {<<i, "incident_acknowledged">>}
    BY <1>0, <1>1, <1>2, <1>13 DEF ClearStaleEvents, ClearStale, UnmarkEvent, WriteFails, Goto,
       Past, Marking, TypeOK
  <2>2. ASSUME NEW k \in Incidents, NEW e \in Events, <<k, e>> \in dedup'
        PROVE  KeyCurrent(k, e)'
    <3>1. <<k, e>> \in dedup
      BY <2>1, <2>2
    <3>2. Clearing(h, k, e) => Clearing(h, k, e)'
      BY <1>2, <1>8, <2>1, <2>2 DEF Clearing, Closing
    <3> QED
      BY <1>0, <1>6, <2>1, <3>1, <3>2, KeysMove
  <2>3. no \in applied'[i]
    BY <1>0, <1>2, <1>4, <2>1 DEF MarkTask
  <2> QED
    BY <1>9, <2>1, <2>2, <2>3 DEF KeysCurrent
<1>14. CASE SendIncident(h) \/ SetMessage(h) \/ EditIncident(h)
  <2>1. /\ UNCHANGED <<dedup, applied>> /\ Past(h) /\ pc[h] \in {"notify", "setMessageId"}
        /\ pc'[h] # "unmark"
    BY <1>0, <1>14 DEF SendIncident, SetMessage, EditIncident, Finish, Goto, redis, Past, TypeOK
  <2>2. KeysCurrent'
    BY <1>0, <1>6, <2>1, KeysMove DEF KeysCurrent, Marking, Clearing
  <2>3. no \in applied'[i]
    BY <1>0, <1>2, <1>4, <2>1 DEF MarkTask
  <2> QED
    BY <1>9, <2>1, <2>2, <2>3
<1>15. ~UnmarkFailed(h)
  BY <1>0 DEF UnmarkFailed, MarkTask
<1> QED
  BY <1>10, <1>11, <1>12, <1>13, <1>14, <1>15 DEF WebhookStep

LEMMA MarkNext ==
  ASSUME TypeOK, BackedInv, LineInv, KnownInv, PromptInv, QueueInv, TrackInv, MarkInv,
         Orderly, Orderly', [Next]_vars
  PROVE  MarkInv'
<1>1. Later
  BY EachStepLater
<1>2. CASE UNCHANGED vars
  <2>1. /\ UNCHANGED <<applied, dedup>> /\ \A g \in WebhookHandlers : Rests(g)
        /\ \A i \in Incidents : NoNewLife(i) /\ AckedOf(i)' = AckedOf(i)
    BY <1>2 DEF vars, upstream, redis, tasks, Rests, NoNewLife, AckedOf
  <2>2. PICK h : h \notin WebhookHandlers
    BY HandlersAssumption DEF Handlers
  <2>3. KeysCurrent'
    BY <1>1, <2>1, <2>2, KeysMove DEF KeysCurrent
  <2> QED
    BY <1>1, <2>1, <2>3, MarkStep
<1> QED
  BY <1>1, <1>2, EnvironmentMarks, WebhookMarks, CallbackMarks DEF Next

LEMMA OrderlyMarks == Spec /\ []Orderly => []MarkInv
<1>1. Init => MarkInv
  BY DEF Init, WorldInit, MarkInv, MarkTask, Past, KeysCurrent, AckedImpliesApplied, AckedOf, Handlers
<1>2. (Orderly => Prompt) /\ (Orderly => Calm)
  BY DEF Orderly, Prompt
<1>3. TypeOK /\ BackedInv /\ LineInv /\ KnownInv /\ PromptInv /\ QueueInv /\ TrackInv /\ MarkInv
      /\ Orderly /\ Orderly' /\ [Next]_vars => MarkInv'
  BY MarkNext
<1> QED
  BY <1>1, <1>2, <1>3, OrderlyQueue, AlwaysPrompt, AlwaysRegular, CalmTracks, AlwaysBacked,
     AlwaysKnown, TypeCorrect, PTL DEF Spec

(***************************************************************************)
(* The same of an incident that is reopened: the second acknowledgement    *)
(* and the second resolution are written and not taken for the first ones, *)
(* because the reopening has cleared their keys before they are delivered  *)
(* (process_marked_webhook).  This takes requests in order; the runs       *)
(* ReopenedTwice and LateDuplicate show what else goes wrong.              *)
(***************************************************************************)
THEOREM ReopenedAcksAreKept == Spec /\ []Orderly => []AckedImpliesApplied
BY OrderlyMarks, PTL DEF MarkInv

-----------------------------------------------------------------------------
(***************************************************************************)
(* The stored status: it has absorbed every event applied since the last   *)
(* reopening that was applied, and an event of that life accounts for it.  *)
(***************************************************************************)
Supported(i, status) ==
  status # "started" =>
    \E n \in DOMAIN timeline[i] : /\ Current(i, n) /\ timeline[i][n] \in Closing
                                  /\ status = "resolved" => timeline[i][n] = "incident_resolved"

HeldCurrent(i) ==
  /\ applied[i] # {} => incidents[i] # None
  /\ \A n \in applied[i] : Current(i, n) => Absorbed(i, timeline[i][n])
  /\ Supported(i, Held(i))

\* An action that Better Stack has accepted is an event of the present life.
ActionSupported(h) ==
  pc[h] \in {"get", "setStatus"} => Supported(req[h].incident, AskedStatus(req[h].what))

HeldInv == /\ \A i \in Incidents : HeldCurrent(i)
           /\ \A h \in CallbackHandlers : ActionSupported(h)

LEMMA SupportedStays ==
  ASSUME KnownInv, Later, NEW i \in Incidents, NoNewLife(i), NEW status, Supported(i, status)
  PROVE  Supported(i, status)'
<1> SUFFICES ASSUME status # "started" PROVE Supported(i, status)'
  BY DEF Supported
<1>1. PICK n \in DOMAIN timeline[i] :
         /\ Current(i, n) /\ timeline[i][n] \in Closing
         /\ status = "resolved" => timeline[i][n] = "incident_resolved"
  BY DEF Supported
<1>2. n \in DOMAIN timeline'[i] /\ timeline'[i][n] = timeline[i][n] /\ Current(i, n)'
  BY <1>1, CurrentSame DEF Later, LinesGrow
<1> QED
  BY <1>1, <1>2 DEF Supported

\* No applied event that is current reopens the incident.
LEMMA CurrentEvents ==
  ASSUME TypeOK, KnownInv, NEW i \in Incidents, NEW n \in applied[i], Current(i, n)
  PROVE  FromEvent(timeline[i][n]) # "Reopened"
<1>1. n \in DOMAIN timeline[i] /\ n \in Nat /\ timeline[i][n] \in Events
  BY TimelineNumbers DEF KnownInv
<1>2. timeline[i][n] # "incident_reopened"
  BY <1>1 DEF Current
<1> QED
  BY <1>1, <1>2, OptionAssumption DEF FromEvent, TriggerOf, Events, Triggers

LEMMA HeldStored ==
  ASSUME TypeOK, NEW i \in Incidents
  PROVE  /\ incidents[i] = None <=> StoredStatus(i) = None
         /\ Held(i) = IF StoredStatus(i) = None THEN "started" ELSE StoredStatus(i)
         /\ Held(i) \in Statuses
BY OptionAssumption DEF TypeOK, Keys, Record, StoredStatus, Held, Statuses

\* A step that leaves the status and the history of an incident.
LEMMA HeldSame ==
  ASSUME TypeOK, TypeOK', KnownInv, Later, NEW i \in Incidents, HeldCurrent(i),
         applied'[i] = applied[i], StoredStatus(i)' = StoredStatus(i)
  PROVE  HeldCurrent(i)'
<1>1. Held(i)' = Held(i) /\ (incidents'[i] = None <=> incidents[i] = None)
  BY OptionAssumption DEF TypeOK, Keys, Record, StoredStatus, Held
<1>2. NoNewLife(i)
  BY DEF NoNewLife
<1>3. Supported(i, Held(i))'
  <2>1. PICK status : status = Held(i)
    OBVIOUS
  <2>2. Supported(i, status)'
    BY <1>2, <2>1, SupportedStays DEF HeldCurrent
  <2> QED
    BY <1>1, <2>1, <2>2 DEF Supported
<1>4. ASSUME NEW n \in applied[i], Current(i, n)' PROVE Absorbed(i, timeline[i][n])'
  <2>1. Absorbed(i, timeline[i][n])
    BY <1>4, CurrentSame DEF HeldCurrent
  <2>2. timeline'[i][n] = timeline[i][n]
    BY DEF KnownInv, Later, LinesGrow
  <2> QED
    BY <1>1, <2>1, <2>2 DEF Absorbed
<1> QED
  BY <1>1, <1>3, <1>4 DEF HeldCurrent

\* A trigger other than a reopening, for which there is an event of the present life.
LEMMA HeldMoves ==
  ASSUME TypeOK, TypeOK', KnownInv, Later, NEW i \in Incidents, HeldCurrent(i), NoNewLife(i),
         timeline' = timeline,
         NEW trigger \in Triggers \ {"Reopened"},
         StoredStatus(i)' = NextStatus(Held(i), trigger),
         Supported(i, NextStatus(Held(i), trigger)),
         \A n \in applied'[i] : n \in applied[i] \/ FromEvent(timeline[i][n]) = trigger
  PROVE  HeldCurrent(i)'
<1>1. /\ incidents'[i] # None /\ Held(i)' = NextStatus(Held(i), trigger)
      /\ Held(i) \in Statuses /\ NextStatus(Held(i), trigger) \in Statuses
  <2>1. Held(i) \in Statuses /\ NextStatus(Held(i), trigger) \in Statuses
    BY HeldStored, NextStatusType
  <2>2. StoredStatus(i)' # None
    BY <2>1, OptionAssumption
  <2> QED
    BY <2>1, <2>2 DEF StoredStatus, Held
<1>2. Supported(i, Held(i))'
  <2>1. PICK status : status = NextStatus(Held(i), trigger)
    OBVIOUS
  <2>2. Supported(i, status)'
    BY <2>1, SupportedStays
  <2> QED
    BY <1>1, <2>1, <2>2 DEF Supported
<1>3. ASSUME NEW n \in applied'[i], Current(i, n)' PROVE Absorbed(i, timeline[i][n])'
  <2>1. PICK earlier : earlier = FromEvent(timeline[i][n])
    OBVIOUS
  <2>2. CASE n \in applied[i]
    <3>1. Current(i, n)
      BY <1>3, CurrentSame
    <3>2. earlier # "Reopened" /\ NextStatus(Held(i), earlier) = Held(i)
      BY <2>1, <2>2, <3>1, CurrentEvents DEF HeldCurrent, Absorbed
    <3>3. NextStatus(NextStatus(Held(i), trigger), earlier) = NextStatus(Held(i), trigger)
      BY <1>1, <3>2, NextAbsorbs
    <3> QED
      BY <1>1, <2>1, <3>3 DEF Absorbed
  <2>3. CASE earlier = trigger
    <3>1. NextStatus(NextStatus(Held(i), trigger), trigger) = NextStatus(Held(i), trigger)
      BY <1>1, NextAbsorbs
    <3> QED
      BY <1>1, <2>1, <2>3, <3>1 DEF Absorbed
  <2> QED
    BY <2>1, <2>2, <2>3
<1> QED
  BY <1>1, <1>2, <1>3 DEF HeldCurrent

LEMMA WebhookHolds ==
  ASSUME TypeOK, TypeOK', BackedInv, KnownInv, PromptInv, QueueInv, TrackInv, HeldInv, Later,
         Orderly', NEW h \in WebhookHandlers, WebhookStep(h), NEW k \in Incidents
  PROVE  HeldCurrent(k)'
<1>1. HeldCurrent(k)
  BY DEF HeldInv
<1>2. CASE ~UpsertRecord(h)
  <2>1. UNCHANGED applied /\ pc[h] # "upsert"
    BY <1>2 DEF WebhookStep, SkipUnknownEvent, LockIncident, MarkEvent, LoadRecord,
       ClearStaleEvents, ClearStale, SendIncident, SetMessage, EditIncident,
       UnmarkFailed, ReleaseAndRespond
  <2>2. Status' = Status
    BY <2>1, WebhookWrites
  <2>3. StoredStatus(k)' = StoredStatus(k)
    BY <2>2 DEF Status
  <2> QED
    BY <1>1, <2>1, <2>3, HeldSame
<1> SUFFICES ASSUME UpsertRecord(h) PROVE HeldCurrent(k)'
  BY <1>2
<1>3. h \in Handlers /\ pc[h] = "upsert" /\ timeline' = timeline
  BY DEF UpsertRecord, Handlers, upstream
<1>4. PICK i \in Incidents : i = req[h].incident
  BY <1>3, WebhookIncident
<1>5. PICK event \in Events : event = req[h].what
  BY <1>3, WebhookIncident
<1>6. PICK no \in DOMAIN timeline[i] : no = req[h].no /\ timeline[i][no] = event
  BY <1>3, <1>4, <1>5 DEF KnownInv, RequestKnown
<1>7. no \in Nat /\ \A n \in applied[i] : n \in Nat /\ n < no
  BY <1>3, <1>4, <1>6, AppliedBefore DEF Past
<1>8. applied' = [applied EXCEPT ![i] = @ \cup {no}]
  <2>1. rec[h].id = i
    BY <1>3, <1>4 DEF TrackInv, Tracks, InCritical, WebhookTracks, Placed
  <2>2. \A kind \in {"store", "storeReply"} :
          kind \in Kinds /\ spent[kind] \in Nat /\ spent'[kind] = 0
    BY DEF Later, Orderly, Kinds, Faults
  <2>3. \A kind \in {"store", "storeReply"} : Spend(kind) => spent'[kind] = spent[kind] + 1
    BY <2>2, SpendsOne
  <2> QED
    BY <1>4, <1>6, <2>1, <2>2, <2>3 DEF UpsertRecord, NoteApplied
<1>9. \A j \in Incidents : applied'[j] = IF j = i THEN applied[i] \cup {no} ELSE applied[j]
  BY <1>8 DEF TypeOK
<1>10. CASE k # i
  <2>1. StoredStatus(k)' = StoredStatus(k)
    BY <1>4, <1>10, WebhookWrites DEF Status, Applies
  <2> QED
    BY <1>1, <1>9, <1>10, <2>1, HeldSame
<1> SUFFICES ASSUME k = i PROVE HeldCurrent(i)'
  BY <1>10
<1>11. StoredStatus(i)' = NextStatus(Held(i), FromEvent(event))
  <2>1. applied' # applied
    BY <1>7, <1>9
  <2> QED
    BY <1>3, <1>4, <1>5, <2>1, AppliedStatus
<1>12. CASE event = "incident_reopened"
  <2>1. StoredStatus(i)' = "started"
    BY <1>11, <1>12 DEF FromEvent, TriggerOf, NextStatus
  <2>2. incidents'[i] # None /\ Held(i)' = "started"
    BY <2>1, OptionAssumption DEF StoredStatus, Held, Statuses
  <2>3. ASSUME NEW n \in applied'[i] PROVE ~Current(i, n)'
    <3>1. no \in applied'[i] /\ timeline'[i][no] = "incident_reopened" /\ ~(no < n)
      BY <1>3, <1>6, <1>7, <1>9, <1>12, <2>3
    <3> QED
      BY <3>1 DEF Current
  <2> QED
    BY <2>2, <2>3 DEF HeldCurrent, Supported
<1>13. CASE event # "incident_reopened"
  <2>1. NoNewLife(i)
    BY <1>3, <1>6, <1>9, <1>13 DEF NoNewLife
  <2>2. FromEvent(event) # None
    BY <1>3, <1>5 DEF BackedInv, Backed, WebhookBacked
  <2>3. PICK trigger \in Triggers \ {"Reopened"} : trigger = FromEvent(event)
    BY <1>13, <2>2 DEF FromEvent, TriggerOf, Events, Triggers
  <2>4. Current(i, no)
    BY <1>7 DEF Current
  <2>5. Supported(i, NextStatus(Held(i), trigger))
    <3>1. CASE NextStatus(Held(i), trigger) = Held(i)
      BY <1>1, <3>1 DEF HeldCurrent
    <3>2. CASE NextStatus(Held(i), trigger) # Held(i)
      <4>1. \/ event = "incident_acknowledged" /\ NextStatus(Held(i), trigger) = "acknowledged"
            \/ event = "incident_resolved" /\ NextStatus(Held(i), trigger) = "resolved"
        BY <1>13, <2>2, <2>3, <3>2 DEF NextStatus, FromEvent, TriggerOf, Events
      <4> QED
        BY <1>6, <2>4, <4>1 DEF Supported, Closing
    <3> QED
      BY <3>1, <3>2
  <2>6. \A n \in applied'[i] : n \in applied[i] \/ FromEvent(timeline[i][n]) = trigger
    BY <1>6, <1>9, <2>3
  <2> QED
    BY <1>1, <1>3, <1>11, <2>1, <2>3, <2>5, <2>6, HeldMoves
<1> QED
  BY <1>12, <1>13

LEMMA CallbackHolds ==
  ASSUME TypeOK, TypeOK', KnownInv, TrackInv, HeldInv, Later,
         NEW h \in CallbackHandlers, CallbackStep(h), NEW k \in Incidents
  PROVE  HeldCurrent(k)'
<1>1. HeldCurrent(k) /\ h \in Handlers
  BY DEF HeldInv, Handlers
<1>2. UNCHANGED applied
  BY DEF CallbackStep, TakeClick, LockForCallback, CallBetterStack, RetryCall,
     LoadCurrent, StoreStatus, Reload, EditAfterClick, ReleaseAndAnswer
<1>3. CASE StoredStatus(k)' = StoredStatus(k)
  BY <1>1, <1>2, <1>3, HeldSame
<1>4. CASE StoredStatus(k)' # StoredStatus(k)
  <2>1. pc[h] = "setStatus" /\ Applies(req[h].incident, ActionTrigger(req[h].what))
    BY <1>4, CallbackWrites DEF Status
  <2>2. req[h].incident \in Incidents /\ req[h].what \in {"Acknowledge", "Resolve"}
    BY <2>1 DEF TypeOK, CallbackTaskOK, Presses
  <2>3. req[h].incident = k
    BY <1>4, <2>1, <2>2 DEF Applies, Status
  <2>4. PICK trigger \in Triggers \ {"Reopened"} : trigger = ActionTrigger(req[h].what)
    BY <2>2 DEF ActionTrigger, ActionEvent, FromEvent, TriggerOf, Triggers
  <2>5. StoredStatus(k)' = NextStatus(Held(k), trigger) /\ timeline' = timeline
    BY <2>1, <2>3, <2>4 DEF Applies, Status
  <2>6. NextStatus(Held(k), trigger) = AskedStatus(req[h].what)
    BY <1>1, <2>1, <2>3, <2>4 DEF TrackInv, Tracks, InCritical, CallbackTracks, Held
  <2>7. Supported(k, NextStatus(Held(k), trigger))
    BY <2>1, <2>3, <2>6 DEF HeldInv, ActionSupported
  <2>8. NoNewLife(k)
    BY <1>2 DEF NoNewLife
  <2> QED
    BY <1>1, <1>2, <2>5, <2>7, <2>8, HeldMoves
<1> QED
  BY <1>3, <1>4

\* How a callback gets to where it relies on the action.
LEMMA CallbackArrives ==
  ASSUME TypeOK, [Next]_vars, NEW h \in CallbackHandlers, pc'[h] \in {"get", "setStatus"}
  PROVE  /\ pc[h] # "idle" /\ req'[h].incident = req[h].incident /\ req'[h].what = req[h].what
         /\ \/ pc[h] \in {"get", "setStatus"}
            \/ /\ pc[h] = "api" /\ UNCHANGED applied
               /\ Accepted(req[h].incident, ActionEvent[req[h].what])
<1>0. h \in Handlers /\ h \notin WebhookHandlers
  BY HandlersAssumption DEF Handlers
<1>1. CASE pc'[h] = pc[h] /\ req'[h] = req[h]
  BY <1>1
<1>2. CASE UNCHANGED vars
  BY <1>1, <1>2 DEF vars, tasks
<1>3. CASE Environment
  <2>1. pc'[h] = "idle" \/ (pc'[h] = pc[h] /\ req'[h] = req[h])
    BY <1>0, <1>3 DEF Environment, Happen, Deliver, GiveUp, Click, DeleteMessage,
       OrphanedLockExpires, LeaseLost, RecordExpires, DedupExpires, Crash, Reset, Goto, tasks,
       TypeOK, Handlers
  <2> QED
    BY <1>1, <2>1
<1>4. ASSUME NEW g \in WebhookHandlers, WebhookStep(g)
      PROVE  pc'[h] = pc[h] /\ req'[h] = req[h]
  <2>1. g \in Handlers /\ g # h
    BY <1>0 DEF Handlers
  <2> QED
    BY <1>0, <1>4, <2>1 DEF WebhookStep, SkipUnknownEvent, LockIncident, MarkEvent, LoadRecord,
       UpsertRecord, ClearStaleEvents, ClearStale, SendIncident, SetMessage, EditIncident,
       UnmarkFailed, ReleaseAndRespond, Respond, Reset, Finish, Goto, TypeOK
<1>5. ASSUME NEW g \in CallbackHandlers \ {h}, CallbackStep(g)
      PROVE  pc'[h] = pc[h] /\ req'[h] = req[h]
  <2>1. g \in Handlers /\ g # h
    BY <1>0 DEF Handlers
  <2> QED
    BY <1>0, <1>5, <2>1 DEF CallbackStep, TakeClick, LockForCallback, CallBetterStack, RetryCall,
       LoadCurrent, StoreStatus, Reload, EditAfterClick, ReleaseAndAnswer, Answer, Reset,
       Conclude, Goto, tasks, TypeOK
<1>6. CASE CallbackStep(h)
  <2>1. CASE CallBetterStack(h)
    BY <1>0, <2>1 DEF CallBetterStack, Conclude, Goto, TypeOK
  <2>2. CASE LoadCurrent(h)
    BY <1>0, <2>2 DEF LoadCurrent, Conclude, Goto, TypeOK
  <2>3. CASE RetryCall(h)
    BY <1>1, <2>3 DEF RetryCall, tasks
  <2>4. CASE ~(CallBetterStack(h) \/ LoadCurrent(h) \/ RetryCall(h))
    <3>1. pc'[h] \notin {"get", "setStatus"} \/ (pc'[h] = pc[h] /\ req'[h] = req[h])
      BY <1>0, <1>6, <2>4 DEF CallbackStep, TakeClick, LockForCallback, StoreStatus, Reload,
         EditAfterClick, ReleaseAndAnswer, Answer, Reset, Conclude, Goto, TypeOK
    <3> QED
      BY <1>1, <3>1
  <2> QED
    BY <2>1, <2>2, <2>3, <2>4
<1> QED
  BY <1>1, <1>2, <1>3, <1>4, <1>5, <1>6 DEF Next

\* An accepted action is the last change of the incident, or comes after it.
LEMMA AcceptedSupports ==
  ASSUME TypeOK, BackedInv, KnownInv, NEW i \in Incidents, timeline[i] # <<>>,
         NEW action \in {"Acknowledge", "Resolve"}, Accepted(i, ActionEvent[action]),
         UNCHANGED applied
  PROVE  Supported(i, AskedStatus(action))'
<1>1. PICK event \in Closing : event = ActionEvent[action]
  BY DEF ActionEvent, Closing
<1>2. PICK line \in Seq(Events) : line = timeline[i]
  BY DEF TypeOK
<1>3. AskedStatus(action) = "resolved" => event = "incident_resolved"
  BY <1>1 DEF AskedStatus, ActionEvent
<1>4. \A p \in applied[i] : p \in DOMAIN line /\ p \in Nat
  BY <1>2, TimelineNumbers DEF KnownInv
<1>5. CASE Possible(line, event)
  <2>1. Log(i, event)
    BY <1>1, <1>2, <1>5 DEF Accepted
  <2>2. timeline'[i] = Append(line, event)
    BY <1>2, <2>1 DEF Log, TypeOK
  <2>3. /\ Len(line) \in Nat /\ DOMAIN line = 1 .. Len(line)
        /\ DOMAIN Append(line, event) = 1 .. (Len(line) + 1)
        /\ Append(line, event)[Len(line) + 1] = event
    BY AppendProperties, LenProperties DEF Closing, Events
  <2>4. Current(i, Len(line) + 1)'
    BY <1>4, <2>3 DEF Current
  <2> QED
    BY <1>3, <2>2, <2>3, <2>4 DEF Supported
<1>6. CASE ~Possible(line, event)
  <2>1. UNCHANGED timeline
    BY <1>1, <1>2, <1>6 DEF Accepted, upstream
  <2>2. HasLast(line) /\ line # <<>>
    BY <1>2 DEF BackedInv, TimelinesHaveLast
  <2>3. PICK n \in DOMAIN line :
           /\ line[n] # "comment" /\ StatusAfter(line) = EventStatus(line[n])
           /\ \A m \in DOMAIN line : line[m] # "comment" => m <= n
    BY <2>2, LastChange
  <2>4. /\ event = "incident_acknowledged" => StatusAfter(line) # "started"
        /\ event = "incident_resolved" => StatusAfter(line) = "resolved"
    BY <1>6, <2>2 DEF Possible
  <2>5. /\ line[n] \in Closing
        /\ event = "incident_resolved" => line[n] = "incident_resolved"
    BY <2>3, <2>4 DEF EventStatus, Closing
  <2>6. n \in Nat
    BY <1>2, TimelineNumbers
  <2>7. Current(i, n)'
    <3> SUFFICES ASSUME NEW p \in applied[i], line[p] = "incident_reopened" PROVE p < n
      BY <1>2, <2>1 DEF Current
    <3>1. p <= n /\ p # n
      BY <1>4, <2>3, <2>5 DEF Closing
    <3> QED
      BY <1>4, <2>6, <3>1
  <2> QED
    BY <1>2, <1>3, <2>1, <2>5, <2>7 DEF Supported
<1> QED
  BY <1>5, <1>6

LEMMA HeldNext ==
  ASSUME TypeOK, TypeOK', BackedInv, KnownInv, PromptInv, QueueInv, TrackInv, LockHeld, HeldInv,
         Orderly, Orderly', [Next]_vars
  PROVE  HeldInv'
<1>0. Later /\ Calm' /\ Exclusive
  BY EachStepLater DEF Orderly, Calm, LockHeld, Exclusive
<1>1. ASSUME NEW k \in Incidents PROVE HeldCurrent(k)'
  <2>1. CASE Status' = Status /\ UNCHANGED applied
    BY <1>0, <2>1, HeldSame DEF Status, HeldInv
  <2>2. CASE UNCHANGED vars
    BY <2>1, <2>2 DEF vars, redis, Status, StoredStatus
  <2>3. CASE Environment
    <3>1. UNCHANGED applied
      BY <2>3 DEF Environment, Happen, Deliver, GiveUp, Click, DeleteMessage,
         OrphanedLockExpires, LeaseLost, RecordExpires, DedupExpires, Crash
    <3> QED
      BY <1>0, <2>1, <2>3, <3>1, EnvironmentWrites
  <2> QED
    BY <1>0, <2>2, <2>3, WebhookHolds, CallbackHolds DEF Next
<1>2. ASSUME NEW h \in CallbackHandlers PROVE ActionSupported(h)'
  <2> SUFFICES ASSUME pc'[h] \in {"get", "setStatus"}
               PROVE  Supported(req[h].incident, AskedStatus(req[h].what))'
    BY DEF ActionSupported
  <2>0. h \in Handlers /\ h \notin WebhookHandlers
    BY HandlersAssumption DEF Handlers
  <2>1. /\ pc[h] # "idle" /\ req'[h].incident = req[h].incident /\ req'[h].what = req[h].what
        /\ \/ pc[h] \in {"get", "setStatus"}
           \/ /\ pc[h] = "api" /\ UNCHANGED applied
              /\ Accepted(req[h].incident, ActionEvent[req[h].what])
    BY CallbackArrives
  <2>2. req[h].incident \in Incidents /\ req[h].what \in {"Acknowledge", "Resolve"}
    BY <2>1 DEF TypeOK, CallbackTaskOK, Presses
  <2>3. PICK i \in Incidents, action \in {"Acknowledge", "Resolve"} :
           i = req[h].incident /\ action = req[h].what
    BY <2>2
  <2>4. CASE pc[h] \in {"get", "setStatus"}
    <3>1. Working(h, i)
      BY <2>3, <2>4 DEF Working, InCritical
    <3>2. NoNewLife(i)
      <4>1. CASE UNCHANGED applied
        BY <4>1 DEF NoNewLife
      <4>2. ASSUME NEW g \in WebhookHandlers, pc[g] = "upsert",
                   applied' = [applied EXCEPT ![req[g].incident] = @ \cup {req[g].no}]
            PROVE  NoNewLife(i)
        <5>1. g \in Handlers /\ Working(g, req[g].incident) /\ req[g].incident \in Incidents
          BY <4>2, WebhookIncident DEF Handlers, Working, InCritical
        <5>2. req[g].incident # i
          BY <1>0, <2>0, <3>1, <5>1 DEF Exclusive
        <5>3. applied'[i] = applied[i]
          BY <4>2, <5>1, <5>2 DEF TypeOK
        <5> QED
          BY <5>3 DEF NoNewLife
      <4> QED
        BY <4>1, <4>2, EachStepApplies
    <3>3. Supported(i, AskedStatus(action))
      BY <2>3, <2>4 DEF HeldInv, ActionSupported
    <3>4. PICK status : status = AskedStatus(action)
      OBVIOUS
    <3>5. Supported(i, status)'
      BY <1>0, <3>2, <3>3, <3>4, SupportedStays
    <3> QED
      BY <2>1, <2>3, <3>4, <3>5 DEF Supported, Current
  <2>5. CASE /\ pc[h] = "api" /\ UNCHANGED applied
             /\ Accepted(req[h].incident, ActionEvent[req[h].what])
    <3>1. timeline[i] # <<>>
      BY <2>0, <2>3, <2>5 DEF BackedInv, Backed, CallbackBacked
    <3>2. Supported(i, AskedStatus(action))'
      BY <2>3, <2>5, <3>1, AcceptedSupports
    <3> QED
      BY <2>1, <2>3, <3>2 DEF Supported, Current
  <2> QED
    BY <2>1, <2>4, <2>5
<1> QED
  BY <1>1, <1>2 DEF HeldInv

LEMMA OrderlyHolds == Spec /\ []Orderly => []HeldInv
<1>1. Init => HeldInv /\ LockHeld
  BY DEF Init, WorldInit, HeldInv, HeldCurrent, ActionSupported, Supported, Held, Keys, Handlers,
     LockHeld, Working, InCritical
<1>2. (Orderly => Prompt) /\ (Orderly => Calm)
  BY DEF Orderly, Prompt
<1>3. TypeOK /\ TypeOK' /\ BackedInv /\ KnownInv /\ PromptInv /\ QueueInv /\ TrackInv /\ LockHeld
      /\ HeldInv /\ Orderly /\ Orderly' /\ [Next]_vars => HeldInv'
  BY HeldNext
<1> QED
  BY <1>1, <1>2, <1>3, OrderlyQueue, AlwaysPrompt, CalmTracks, LockHeldStep, AlwaysBacked,
     AlwaysKnown, TypeCorrect, PTL DEF Spec

-----------------------------------------------------------------------------
\* Nothing is due any more: the status is that of the last change.
LEMMA SettledInOrder ==
  ASSUME TypeOK, BackedInv, LineInv, KnownInv, MarkInv, HeldInv,
         NEW i \in Incidents, timeline[i] # <<>>, pending[i] = {}
  PROVE  incidents[i] # None /\ StoredStatus(i) = StatusAfter(timeline[i])
<1>1. PICK line \in Seq(Events) : line = timeline[i]
  BY DEF TypeOK
<1>2. PICK last \in DOMAIN line :
         /\ line[last] # "comment" /\ StatusAfter(line) = EventStatus(line[last])
         /\ \A m \in DOMAIN line : line[m] # "comment" => m <= last
  BY <1>1, LastChange DEF BackedInv, TimelinesHaveLast
<1>3. /\ \A n \in DOMAIN line : n \in Nat /\ line[n] \in Events
      /\ \A n \in DOMAIN line : line[n] # "comment" => n \in applied[i]
  <2>1. \A n \in DOMAIN line : n \in Nat /\ line[n] \in Events
    BY <1>1, TimelineNumbers
  <2>2. \A event \in Events \ {"comment"} : FromEvent(event) # None
    BY OptionAssumption DEF FromEvent, TriggerOf, Events, Triggers
  <2>3. AckedOf(i) = DOMAIN line
    BY <1>1 DEF AckedOf
  <2> QED
    BY <1>1, <2>1, <2>2, <2>3 DEF MarkInv, AckedImpliesApplied, AckedOf
<1>4. /\ last \in applied[i] /\ incidents[i] # None
      /\ StoredStatus(i) = Held(i) /\ Held(i) \in Statuses
  BY <1>2, <1>3, HeldStored DEF HeldInv, HeldCurrent, StoredStatus, Held
<1>5. Current(i, last) => NextStatus(Held(i), FromEvent(line[last])) = Held(i)
  BY <1>1, <1>4 DEF HeldInv, HeldCurrent, Absorbed
<1>6. line[last] # "incident_reopened" => Current(i, last)
  <2> SUFFICES ASSUME line[last] # "incident_reopened",
                      NEW p \in applied[i], line[p] = "incident_reopened"
               PROVE  p < last
    BY <1>1 DEF Current
  <2>1. p \in DOMAIN line
    BY <1>1 DEF KnownInv
  <2> QED
    BY <1>2, <1>3, <2>1
<1>7. ASSUME Held(i) # "started"
      PROVE  \E n \in DOMAIN line : /\ n <= last /\ line[n] \in Closing /\ Current(i, n)
                                    /\ Held(i) = "resolved" => line[n] = "incident_resolved"
  BY <1>1, <1>2, <1>7 DEF HeldInv, HeldCurrent, Supported, Closing
<1>8. Held(i) = EventStatus(line[last])
  <2>1. CASE line[last] = "incident_resolved"
    BY <1>5, <1>6, <2>1 DEF NextStatus, FromEvent, TriggerOf, EventStatus
  <2>2. CASE line[last] = "incident_acknowledged"
    <3>1. Held(i) # "started"
      BY <1>5, <1>6, <2>2 DEF NextStatus, FromEvent, TriggerOf
    <3>2. ASSUME Held(i) = "resolved" PROVE FALSE
      <4>1. PICK n \in DOMAIN line : n < last /\ line[n] = "incident_resolved" /\ Current(i, n)
        BY <1>3, <1>7, <2>2, <3>2
      <4>2. Separated(line, n, last)
        BY <1>1, <2>2, <4>1 DEF LineInv, Regular, Closing
      <4>3. PICK p \in DOMAIN line : n < p /\ line[p] = "incident_reopened"
        BY <4>2 DEF Separated
      <4>4. p < n
        BY <1>1, <1>3, <4>1, <4>3 DEF Current
      <4> QED
        BY <1>3, <4>3, <4>4
    <3> QED
      BY <1>4, <2>2, <3>1, <3>2 DEF Statuses, EventStatus
  <2>3. CASE line[last] = "incident_reopened"
    <3>1. ASSUME Held(i) # "started" PROVE FALSE
      <4>1. PICK n \in DOMAIN line : n <= last /\ Current(i, n)
        BY <1>7, <3>1
      <4>2. last < n
        BY <1>1, <1>4, <2>3, <4>1 DEF Current
      <4> QED
        BY <1>3, <4>1, <4>2
    <3> QED
      BY <2>3, <3>1 DEF EventStatus
  <2>4. CASE line[last] = "incident_started"
    <3>1. last = 1
      BY <1>1, <2>4 DEF LineInv, Regular
    <3>2. ASSUME Held(i) # "started" PROVE FALSE
      <4>1. PICK n \in DOMAIN line : n <= last /\ line[n] \in Closing
        BY <1>7, <3>2
      <4>2. n = 1
        <5>1. DOMAIN line = 1 .. Len(line)
          BY LenProperties
        <5> QED
          BY <3>1, <4>1, <5>1
      <4> QED
        BY <2>4, <3>1, <4>1, <4>2 DEF Closing
    <3> QED
      BY <2>4, <3>2 DEF EventStatus
  <2> QED
    BY <1>2, <1>3, <2>1, <2>2, <2>3, <2>4 DEF Events
<1> QED
  BY <1>1, <1>2, <1>4, <1>8

(***************************************************************************)
(* Redis agrees with Better Stack on every settled incident, reopened ones *)
(* included: the dedup keys of the earlier life are cleared in time        *)
(* (process_marked_webhook), and the second acknowledgement and resolution *)
(* are taken for what they are.  Here webhooks come in order, none is sent *)
(* again before it is answered, Redis does not fail and no incident is     *)
(* reopened twice; callbacks may intervene anywhere.                       *)
(***************************************************************************)
THEOREM ReopenedAgrees == Spec /\ []Orderly => []StoreInSync
<1>1. TypeOK /\ BackedInv /\ LineInv /\ KnownInv /\ MarkInv /\ HeldInv => StoreInSync
  BY SettledInOrder DEF StoreInSync, Settled
<1> QED
  BY <1>1, OrderlyHolds, OrderlyMarks, AlwaysRegular, AlwaysKnown, AlwaysBacked, TypeCorrect, PTL

(***************************************************************************)
(* And so do the messages: an incident that was reopened is shown as open, *)
(* and as acknowledged or resolved again when it is, in the message it had *)
(* from the start.                                                         *)
(***************************************************************************)
THEOREM ReopenedShows == Spec /\ []Orderly => []MessagesInSync
<1>1. ASSUME TypeOK, BackedInv, LineInv, KnownInv, MarkInv, HeldInv, Quiet => ShownInv
      PROVE  MessagesInSync
  <2> SUFFICES ASSUME ShownInv, NEW i \in Incidents, Settled(i)
               PROVE  \E m \in DOMAIN messages :
                        /\ MessagesOf(i) = {m}
                        /\ messages[m].deleted \/ messages[m].status = StatusAfter(timeline[i])
    BY <1>1 DEF MessagesInSync, Quiet, StatusReflected
  <2>1. incidents[i] # None /\ incidents[i].status = StatusAfter(timeline[i])
    BY <1>1, SettledInOrder DEF Settled, StoredStatus
  <2>2. \A h \in Handlers : pc[h] \in Updating => req[h].incident # i
    BY DEF Settled, Updating
  <2>3. Presented(i)
    BY DEF ShownInv
  <2>4. /\ MessagesOf(i) = {incidents[i].message_id}
        /\ UpToDate(i, incidents[i].message_id)
    BY <2>1, <2>2, <2>3 DEF Presented
  <2>5. incidents[i].message_id \in DOMAIN messages
    BY <2>4 DEF MessagesOf
  <2> QED
    BY <2>1, <2>4, <2>5 DEF UpToDate
<1>2. Orderly => Faithful
  BY DEF Orderly, Faithful
<1> QED
  BY <1>1, <1>2, FaithfulShows, OrderlyHolds, OrderlyMarks, AlwaysRegular, AlwaysKnown,
     AlwaysBacked, TypeCorrect, PTL
=============================================================================
