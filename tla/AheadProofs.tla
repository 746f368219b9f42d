---------------------------- MODULE AheadProofs -----------------------------
(***************************************************************************)
(* Proof of NeverAhead.                                                    *)
(***************************************************************************)
EXTENDS BotProofs

(***************************************************************************)
(* Nothing is invented: a status that is stored or shown was reached in    *)
(* Better Stack.  The invariant follows a status from the request that     *)
(* brings it to the record and the message that carry it; and it keeps     *)
(* that a timeline, once it has begun, has a last status change, from      *)
(* which Better Stack's 409 draws its conclusion.                          *)
(***************************************************************************)
Happened(line) == {line[n] : n \in DOMAIN line}

Reached(line, status) ==
  CASE status = "started"      -> line # <<>>
    [] status = "acknowledged" -> Happened(line) \cap {"incident_acknowledged",
                                                       "incident_resolved"} # {}
    [] OTHER                   -> "incident_resolved" \in Happened(line)

HasLast(line) ==
  \E n \in DOMAIN line : /\ line[n] # "comment"
                         /\ \A m \in DOMAIN line : line[m] # "comment" => m <= n

\* A record that a task may store or show for incident i.
StandsFor(i, r) == r.id \in {i, EmptyId} /\ Reached(timeline[i], r.status)

AskedStatus(action) == IF action = "Resolve" THEN "resolved" ELSE "acknowledged"

WebhookBacked(h) ==
  /\ req[h].what \in Happened(timeline[req[h].incident])
  /\ pc[h] # "lock" => FromEvent(req[h].what) # None
  /\ pc[h] \in {"upsert", "clearResolved", "clearAcknowledged", "notify",
                "setMessageId"} => StandsFor(req[h].incident, rec[h])

CallbackBacked(h) ==
  /\ timeline[req[h].incident] # <<>>
  /\ pc[h] = "get" => Reached(timeline[req[h].incident], AskedStatus(req[h].what))
  /\ pc[h] = "setStatus" => Reached(timeline[req[h].incident], rec[h].status)
  /\ pc[h] = "edit" => StandsFor(req[h].incident, rec[h])

Backed(h) ==
  pc[h] # "idle" => /\ h \in WebhookHandlers  => WebhookBacked(h)
                    /\ h \in CallbackHandlers => CallbackBacked(h)

StoredBacked == \A i \in Incidents : incidents[i] # None => StandsFor(i, incidents[i])

ShownBacked ==
  \A m \in DOMAIN messages :
    messages[m].id \in Incidents => Reached(timeline[messages[m].id], messages[m].status)

PressesBacked ==
  \A c \in CallbackHandlers : \A n \in DOMAIN inbox[c] :
    inbox[c][n].incident \in Incidents => timeline[inbox[c][n].incident] # <<>>

TimelinesHaveLast == \A i \in Incidents : timeline[i] # <<>> => HasLast(timeline[i])

BackedInv ==
  /\ StoredBacked
  /\ ShownBacked
  /\ PressesBacked
  /\ TimelinesHaveLast
  /\ \A h \in Handlers : Backed(h)

-----------------------------------------------------------------------------
(***************************************************************************)
(* Timelines.                                                              *)
(***************************************************************************)
LEMMA ReachedAttained ==
  ASSUME NEW i \in Incidents, NEW status
  PROVE  Attained(i, status) <=> Reached(timeline[i], status)
BY DEF Attained, Reached, EventsOf, Happened

LEMMA HappenedNonEmpty ==
  ASSUME NEW line \in Seq(Events), NEW event \in Happened(line)
  PROVE  line # <<>>
BY DEF Happened

\* Whatever status was reached, the incident has begun.
LEMMA ReachedBegan ==
  ASSUME NEW line \in Seq(Events), NEW status, Reached(line, status)
  PROVE  line # <<>>
<1>1. CASE status = "started"
  BY <1>1 DEF Reached
<1>2. CASE status # "started"
  <2>1. PICK event : event \in Happened(line)
    BY <1>2 DEF Reached
  <2> QED
    BY <2>1, HappenedNonEmpty
<1> QED
  BY <1>1, <1>2

LEMMA AppendGrows ==
  ASSUME NEW line \in Seq(Events), NEW event \in Events
  PROVE  /\ Append(line, event) \in Seq(Events) /\ Append(line, event) # <<>>
         /\ Happened(line) \subseteq Happened(Append(line, event))
         /\ event \in Happened(Append(line, event))
<1> DEFINE longer == Append(line, event)
<1>1. /\ longer \in Seq(Events) /\ Len(line) \in Nat
      /\ DOMAIN line = 1 .. Len(line) /\ DOMAIN longer = 1 .. (Len(line) + 1)
      /\ \A n \in 1 .. Len(line) : longer[n] = line[n]
      /\ longer[Len(line) + 1] = event
  BY AppendProperties, LenProperties
<1>2. longer # <<>>
  BY <1>1, EmptySeq
<1> HIDE DEF longer
<1>3. Happened(line) \subseteq Happened(longer) /\ event \in Happened(longer)
  BY <1>1 DEF Happened
<1> QED
  BY <1>1, <1>2, <1>3 DEF longer

LEMMA ReachedGrows ==
  ASSUME NEW line \in Seq(Events), NEW event \in Events, NEW status, Reached(line, status)
  PROVE  Reached(Append(line, event), status)
BY AppendGrows DEF Reached

LEMMA LastGrows ==
  ASSUME NEW line \in Seq(Events), NEW event \in Events,
         line # <<>> => HasLast(line), Possible(line, event) \/ line # <<>>
  PROVE  HasLast(Append(line, event))
<1> DEFINE longer == Append(line, event)
<1>1. /\ Len(line) \in Nat
      /\ DOMAIN line = 1 .. Len(line) /\ DOMAIN longer = 1 .. (Len(line) + 1)
      /\ \A n \in 1 .. Len(line) : longer[n] = line[n]
      /\ longer[Len(line) + 1] = event
  BY AppendProperties, LenProperties
<1> HIDE DEF longer
<1>2. CASE event # "comment"
  BY <1>1, <1>2 DEF HasLast, longer
<1>3. CASE event = "comment"
  <2>1. HasLast(line)
    BY <1>3 DEF Possible
  <2>2. PICK n \in DOMAIN line :
           line[n] # "comment" /\ \A m \in DOMAIN line : line[m] # "comment" => m <= n
    BY <2>1 DEF HasLast
  <2>3. n \in DOMAIN longer /\ longer[n] # "comment"
    BY <1>1, <2>2
  <2>4. \A m \in DOMAIN longer : longer[m] # "comment" => m <= n
    BY <1>1, <1>3, <2>2
  <2> QED
    BY <2>3, <2>4 DEF HasLast, longer
<1> QED
  BY <1>2, <1>3

\* Better Stack turns an action down only if it is of no use.
LEMMA RefusedMeansReached ==
  ASSUME NEW line \in Seq(Events), line # <<>>, HasLast(line),
         NEW action \in {"Acknowledge", "Resolve"}, ~Possible(line, ActionEvent[action])
  PROVE  Reached(line, AskedStatus(action))
<1> DEFINE changes == {n \in DOMAIN line : line[n] # "comment"}
           last    == CHOOSE n \in changes : \A m \in changes : m <= n
<1>1. last \in changes
  BY DEF HasLast
<1>2. line[last] \in Happened(line)
  BY <1>1 DEF Happened
<1>3. CASE action = "Acknowledge"
  <2>1. StatusAfter(line) # "started"
    BY <1>3 DEF Possible, ActionEvent
  <2>2. line[last] \in {"incident_acknowledged", "incident_resolved"}
    BY <2>1 DEF StatusAfter
  <2> QED
    BY <1>2, <1>3, <2>2 DEF AskedStatus, Reached
<1>4. CASE action = "Resolve"
  <2>1. StatusAfter(line) = "resolved"
    BY <1>4 DEF Possible, ActionEvent
  <2>2. line[last] = "incident_resolved"
    BY <2>1 DEF StatusAfter
  <2> QED
    BY <1>2, <1>4, <2>2 DEF AskedStatus, Reached
<1> QED
  BY <1>3, <1>4

-----------------------------------------------------------------------------
(***************************************************************************)
(* Records.                                                                *)
(***************************************************************************)
\* A status reached in the record stays reached through a trigger that did happen.
LEMMA NextReached ==
  ASSUME NEW line \in Seq(Events), NEW event \in Happened(line), event \in Events,
         FromEvent(event) # None, NEW current, Reached(line, current)
  PROVE  Reached(line, NextStatus(current, FromEvent(event)))
<1>1. line # <<>>
  BY HappenedNonEmpty
<1>2. CASE event = "incident_started"
  BY <1>2 DEF FromEvent, TriggerOf, NextStatus
<1>3. CASE event = "incident_acknowledged"
  BY <1>1, <1>3 DEF FromEvent, TriggerOf, NextStatus, Reached
<1>4. CASE event = "incident_resolved"
  BY <1>1, <1>4 DEF FromEvent, TriggerOf, NextStatus, Reached
<1>5. CASE event = "incident_reopened"
  BY <1>1, <1>5 DEF FromEvent, TriggerOf, NextStatus, Reached
<1> QED
  BY <1>2, <1>3, <1>4, <1>5 DEF Events, FromEvent, TriggerOf

\* The same for the new status of a callback.
LEMMA AskedReached ==
  ASSUME NEW current \in Statuses, NEW action \in {"Acknowledge", "Resolve"},
         NextStatus(current, ActionTrigger(action)) # current
  PROVE  NextStatus(current, ActionTrigger(action)) = AskedStatus(action)
<1>1. ActionTrigger(action) = IF action = "Resolve" THEN "Resolved" ELSE "Acknowledged"
  BY DEF ActionTrigger, ActionEvent, FromEvent, TriggerOf
<1> QED
  BY <1>1 DEF NextStatus, Statuses, AskedStatus

\* What process_marked_webhook makes of the id and the status of a record.
LEMMA UpdatedFields ==
  ASSUME NEW i, NEW stored \in Record \cup {None}, NEW event, NEW meta
  PROVE  /\ Updated(stored, i, event, meta).id = IF stored = None THEN i ELSE stored.id
         /\ Updated(stored, i, event, meta).status =
              NextStatus(IF stored = None THEN "started" ELSE stored.status, FromEvent(event))
BY DEF Updated, Record, DefaultRecord

LEMMA MessagesFields ==
  ASSUME TypeOK, NEW r \in Record, NEW n,
         messages' \in {messages, SendMessage(r), EditMessage(n, r)}
  PROVE  \A m \in DOMAIN messages' :
           \/ m \in DOMAIN messages /\ messages'[m] = messages[m]
           \/ messages'[m].id = r.id /\ messages'[m].status = r.status
<1>1. View(r) \in Views /\ View(r).id = r.id /\ View(r).status = r.status
  BY ViewType DEF View
<1>2. messages \in Seq(Views)
  BY DEF TypeOK
<1>3. CASE messages' = SendMessage(r)
  <2>1. /\ DOMAIN messages = 1 .. Len(messages) /\ Len(messages) \in Nat
        /\ DOMAIN messages' = 1 .. (Len(messages) + 1)
        /\ \A m \in 1 .. Len(messages) : messages'[m] = messages[m]
        /\ messages'[Len(messages) + 1] = View(r)
    BY <1>1, <1>2, <1>3, AppendProperties, LenProperties DEF SendMessage
  <2> QED
    BY <1>1, <2>1
<1>4. CASE messages' = EditMessage(n, r)
  BY <1>1, <1>4 DEF EditMessage
<1> QED
  BY <1>3, <1>4

-----------------------------------------------------------------------------
(***************************************************************************)
(* Steps.                                                                  *)
(***************************************************************************)
Growth ==
  \A i \in Incidents :
    /\ timeline[i] # <<>> => timeline'[i] # <<>>
    /\ timeline'[i] # <<>> => HasLast(timeline'[i])
    /\ Happened(timeline[i]) \subseteq Happened(timeline'[i])
    /\ \A status : Reached(timeline[i], status) => Reached(timeline'[i], status)

LEMMA NoGrowth == BackedInv /\ UNCHANGED timeline => Growth
BY DEF BackedInv, TimelinesHaveLast, Growth

LEMMA LogGrows ==
  ASSUME TypeOK, BackedInv, NEW j \in Incidents, NEW event \in Events, Log(j, event),
         Possible(timeline[j], event) \/ timeline[j] # <<>>
  PROVE  /\ Growth
         /\ event \in Happened(timeline'[j])
<1>1. \A i \in Incidents : timeline[i] \in Seq(Events)
  BY DEF TypeOK
<1>2. \A i \in Incidents : timeline'[i] = IF i = j THEN Append(timeline[j], event)
                                          ELSE timeline[i]
  BY DEF Log, TypeOK
<1>3. \A i \in Incidents : timeline[i] # <<>> => HasLast(timeline[i])
  BY DEF BackedInv, TimelinesHaveLast
<1>4. \A status : Reached(timeline[j], status) => Reached(timeline'[j], status)
  BY <1>1, <1>2, ReachedGrows
<1>5. /\ timeline'[j] # <<>>
      /\ Happened(timeline[j]) \subseteq Happened(timeline'[j])
      /\ event \in Happened(timeline'[j])
  BY <1>1, <1>2, AppendGrows
<1>6. HasLast(timeline'[j])
  BY <1>1, <1>2, <1>3, LastGrows
<1> QED
  BY <1>2, <1>3, <1>4, <1>5, <1>6 DEF Growth

SameTask(g) == pc'[g] = pc[g] /\ req'[g] = req[g] /\ rec'[g] = rec[g]

\* A task that a step leaves alone stays backed.
LEMMA SameTaskBacked ==
  ASSUME TypeOK, BackedInv, Growth, NEW g \in Handlers, SameTask(g)
  PROVE  Backed(g)'
<1> SUFFICES ASSUME pc'[g] # "idle" PROVE Backed(g)'
  BY DEF Backed
<1>1. pc[g] # "idle" /\ Backed(g)
  BY DEF SameTask, BackedInv
<1>2. g \in WebhookHandlers => WebhookBacked(g)'
  <2> SUFFICES ASSUME g \in WebhookHandlers PROVE WebhookBacked(g)'
    OBVIOUS
  <2>1. req[g].incident \in Incidents
    BY <1>1 DEF TypeOK, WebhookTaskOK, Webhooks
  <2> QED
    BY <1>1, <2>1 DEF Backed, WebhookBacked, StandsFor, SameTask, Growth
<1>3. g \in CallbackHandlers => CallbackBacked(g)'
  <2> SUFFICES ASSUME g \in CallbackHandlers PROVE CallbackBacked(g)'
    OBVIOUS
  <2>1. req[g].incident \in Incidents
    BY <1>1 DEF TypeOK, CallbackTaskOK
  <2> QED
    BY <1>1, <2>1 DEF Backed, CallbackBacked, StandsFor, SameTask, Growth
<1> QED
  BY <1>2, <1>3 DEF Backed

\* What a step has to show: that the tasks it moves and what it writes are backed.
LEMMA BackedStep ==
  ASSUME TypeOK, TypeOK', BackedInv, Growth,
         \A g \in Handlers : SameTask(g) \/ Backed(g)',
         \A i \in Incidents : \/ incidents'[i] = incidents[i] \/ incidents'[i] = None
                              \/ StandsFor(i, incidents[i])',
         \A m \in DOMAIN messages' :
           \/ m \in DOMAIN messages /\ messages'[m] = messages[m]
           \/ messages'[m].id \in Incidents
              => Reached(timeline'[messages'[m].id], messages'[m].status),
         inbox' = inbox \/ PressesBacked'
  PROVE  BackedInv'
<1>1. StoredBacked'
  BY DEF BackedInv, StoredBacked, StandsFor, Growth
<1>2. ShownBacked'
  <2> SUFFICES ASSUME NEW m \in DOMAIN messages', messages'[m].id \in Incidents
               PROVE  Reached(timeline'[messages'[m].id], messages'[m].status)
    BY DEF ShownBacked
  <2> QED
    BY DEF BackedInv, ShownBacked, Growth
<1>3. PressesBacked'
  BY DEF BackedInv, PressesBacked, Growth
<1>4. TimelinesHaveLast'
  BY DEF TimelinesHaveLast, Growth
<1>5. \A g \in Handlers : Backed(g)'
  BY SameTaskBacked
<1> QED
  BY <1>1, <1>2, <1>3, <1>4, <1>5 DEF BackedInv

LEMMA EnvironmentBacked ==
  ASSUME TypeOK, TypeOK', BackedInv, Environment
  PROVE  BackedInv'
<1>1. CASE \E i \in Incidents, event \in Events : Happen(i, event)
  <2>1. Growth
    BY <1>1, LogGrows DEF Happen
  <2> QED
    BY <1>1, <2>1, BackedStep DEF Happen, chat, redis, tasks, SameTask
<1>2. CASE \E h \in WebhookHandlers, i \in Incidents : \E n \in pending[i] : Deliver(h, i, n)
  <2> PICK h \in WebhookHandlers, i \in Incidents : \E n \in pending[i] : Deliver(h, i, n)
    BY <1>2
  <2> PICK n \in pending[i] : Deliver(h, i, n)
    OBVIOUS
  <2>1. h \in Handlers /\ h \notin CallbackHandlers
    BY HandlersAssumption DEF Handlers
  <2>2. \A g \in Handlers \ {h} : SameTask(g)
    BY DEF Deliver, Goto, SameTask, TypeOK
  <2>3. Backed(h)'
    <3>1. timeline[i][n] \in Happened(timeline[i])
      BY DEF TypeOK, Happened
    <3>2. pc'[h] = "lock" /\ req'[h].incident = i /\ req'[h].what = timeline[i][n]
          /\ timeline' = timeline
      BY <2>1 DEF Deliver, Goto, upstream, TypeOK
    <3> QED
      BY <2>1, <3>1, <3>2 DEF Backed, WebhookBacked
  <2> QED
    BY <2>2, <2>3, NoGrowth, BackedStep DEF Deliver, upstream, chat, redis
<1>3. CASE \E h \in WebhookHandlers : GiveUp(h)
  <2> PICK h \in WebhookHandlers : GiveUp(h)
    BY <1>3
  <2>1. h \in Handlers /\ h \notin CallbackHandlers
    BY HandlersAssumption DEF Handlers
  <2>2. \A g \in Handlers \ {h} : SameTask(g)
    BY DEF GiveUp, SameTask, TypeOK
  <2>3. Backed(h)'
    <3>1. req[h] \in Webhooks
      BY DEF GiveUp, TypeOK, WebhookTaskOK
    <3>2. /\ pc' = pc /\ rec' = rec /\ timeline' = timeline
          /\ req'[h].incident = req[h].incident /\ req'[h].what = req[h].what
      BY <2>1, <3>1 DEF GiveUp, upstream, TypeOK, Webhooks
    <3>3. WebhookBacked(h)
      BY <2>1 DEF GiveUp, BackedInv, Backed
    <3> QED
      BY <2>1, <3>2, <3>3 DEF Backed, WebhookBacked, StandsFor
  <2> QED
    BY <2>2, <2>3, NoGrowth, BackedStep DEF GiveUp, upstream, chat, redis
<1>4. CASE \E h \in CallbackHandlers, m \in DOMAIN messages,
              action \in {"Acknowledge", "Resolve"} : Click(h, m, action)
  <2> PICK h \in CallbackHandlers, m \in DOMAIN messages,
           action \in {"Acknowledge", "Resolve"} : Click(h, m, action)
    BY <1>4
  <2> DEFINE press == [incident |-> messages[m].id, what |-> action,
                       no |-> 0, awaited |-> FALSE]
  <2>1. /\ timeline' = timeline
        /\ \A c \in CallbackHandlers : inbox'[c] = IF c = h THEN Append(inbox[h], press)
                                                   ELSE inbox[c]
    BY DEF Click, upstream, TypeOK
  <2>2. press.incident \in Incidents => timeline[press.incident] # <<>>
    BY ReachedBegan DEF BackedInv, ShownBacked, TypeOK
  <2>3. press \in Presses
    <3>1. messages[m] \in Views
      BY DEF TypeOK
    <3> QED
      BY <3>1 DEF Presses, Views
  <2> HIDE DEF press
  <2>4. \A n \in DOMAIN Append(inbox[h], press) :
           \/ Append(inbox[h], press)[n] = press
           \/ n \in DOMAIN inbox[h] /\ Append(inbox[h], press)[n] = inbox[h][n]
    <3>1. inbox[h] \in Seq(Presses)
      BY DEF TypeOK
    <3> QED
      BY <2>3, <3>1, AppendProperties, LenProperties
  <2>5. PressesBacked'
    <3> SUFFICES ASSUME NEW c \in CallbackHandlers, NEW n \in DOMAIN inbox'[c],
                        inbox'[c][n].incident \in Incidents
                 PROVE  timeline[inbox'[c][n].incident] # <<>>
      BY <2>1 DEF PressesBacked
    <3>1. CASE c = h
      <4>1. inbox'[c] = Append(inbox[h], press)
        BY <2>1, <3>1
      <4>2. CASE inbox'[c][n] = press
        BY <2>2, <4>2
      <4>3. CASE n \in DOMAIN inbox[h] /\ inbox'[c][n] = inbox[h][n]
        BY <4>3 DEF BackedInv, PressesBacked
      <4> QED
        BY <2>4, <4>1, <4>2, <4>3
    <3>2. CASE c # h
      BY <2>1, <3>2 DEF BackedInv, PressesBacked
    <3> QED
      BY <3>1, <3>2
  <2> QED
    BY <2>5, NoGrowth, BackedStep DEF Click, upstream, redis, tasks, SameTask
<1>5. CASE \E i \in Incidents : RecordExpires(i)
  BY <1>5, NoGrowth, BackedStep DEF RecordExpires, upstream, chat, tasks, SameTask, TypeOK
<1>6. CASE \E h \in Handlers : Crash(h)
  <2> PICK h \in Handlers : Crash(h)
    BY <1>6
  <2>1. \A g \in Handlers \ {h} : SameTask(g)
    BY DEF Crash, Reset, SameTask, TypeOK
  <2>2. Backed(h)'
    BY DEF Crash, Reset, Backed, TypeOK
  <2>3. PressesBacked'
    BY DEF Crash, upstream, BackedInv, PressesBacked, TypeOK
  <2> QED
    BY <2>1, <2>2, <2>3, NoGrowth, BackedStep DEF Crash, upstream, redis
<1>7. CASE \E m \in DOMAIN messages : DeleteMessage(m)
  <2> PICK m \in DOMAIN messages : DeleteMessage(m)
    BY <1>7
  <2>1. /\ timeline' = timeline /\ inbox' = inbox /\ incidents' = incidents
        /\ \A g \in Handlers : SameTask(g)
    BY DEF DeleteMessage, upstream, redis, tasks, SameTask
  <2>2. messages[m] \in Views
    BY DEF TypeOK
  <2>3. \A n \in DOMAIN messages' :
          /\ n \in DOMAIN messages
          /\ messages'[n].id = messages[n].id /\ messages'[n].status = messages[n].status
    BY <2>2 DEF DeleteMessage, Views
  <2>4. \A n \in DOMAIN messages' : messages'[n].id \in Incidents
           => Reached(timeline'[messages'[n].id], messages'[n].status)
    BY <2>1, <2>3 DEF BackedInv, ShownBacked
  <2> QED
    BY <2>1, <2>4, NoGrowth, BackedStep
<1>8. CASE UNCHANGED <<timeline, messages, inbox, incidents, pc, req, rec>>
  BY <1>8, NoGrowth, BackedStep DEF SameTask
<1> QED
  BY <1>1, <1>2, <1>3, <1>4, <1>5, <1>6, <1>7, <1>8 DEF Environment, OrphanedLockExpires,
     LeaseLost, DedupExpires, upstream, chat, tasks

LEMMA WebhookBackedStep ==
  ASSUME TypeOK, TypeOK', BackedInv, NEW h \in WebhookHandlers, WebhookStep(h)
  PROVE  BackedInv'
<1> DEFINE i == req[h].incident
<1>0. /\ h \in Handlers /\ h \notin CallbackHandlers
      /\ pc[h] # "idle" /\ req[h] \in Webhooks /\ i \in Incidents
      /\ WebhookBacked(h)
      /\ timeline[i] \in Seq(Events) /\ timeline[i] # <<>>
  <2>1. h \in Handlers /\ h \notin CallbackHandlers
    BY HandlersAssumption DEF Handlers
  <2>2. pc[h] # "idle"
    BY DEF WebhookStep, SkipUnknownEvent, LockIncident, MarkEvent, LoadRecord, UpsertRecord,
       ClearStaleEvents, ClearStale, SendIncident, SetMessage, EditIncident, UnmarkFailed,
       ReleaseAndRespond
  <2>3. req[h] \in Webhooks /\ i \in Incidents
    BY <2>2 DEF TypeOK, WebhookTaskOK, Webhooks
  <2>4. WebhookBacked(h)
    BY <2>1, <2>2 DEF BackedInv, Backed
  <2>5. timeline[i] \in Seq(Events) /\ timeline[i] # <<>>
    BY <2>3, <2>4, HappenedNonEmpty DEF TypeOK, WebhookBacked
  <2> QED
    BY <2>1, <2>2, <2>3, <2>4, <2>5
<1>1. UNCHANGED <<timeline, inbox>>
  BY DEF WebhookStep, SkipUnknownEvent, LockIncident, MarkEvent, LoadRecord, UpsertRecord,
     ClearStaleEvents, ClearStale, SendIncident, SetMessage, EditIncident, UnmarkFailed,
     ReleaseAndRespond, upstream, chat
<1>2. Growth
  BY <1>1, NoGrowth
<1> HIDE DEF i
<1>3. CASE SkipUnknownEvent(h) \/ LockIncident(h) \/ MarkEvent(h) \/ ClearStaleEvents(h)
           \/ UnmarkFailed(h) \/ ReleaseAndRespond(h)
  <2>1. UNCHANGED <<messages, incidents>>
    BY <1>3 DEF SkipUnknownEvent, LockIncident, MarkEvent, ClearStaleEvents, ClearStale,
       UnmarkFailed, ReleaseAndRespond, chat, redis
  <2>2. Backed(h)' /\ \A g \in Handlers \ {h} : SameTask(g)
    <3>1. CASE SkipUnknownEvent(h) \/ LockIncident(h) \/ ReleaseAndRespond(h)
      BY <1>0, <1>1, <3>1 DEF SkipUnknownEvent, LockIncident, ReleaseAndRespond, Respond,
         Reset, Goto, SameTask, Backed, WebhookBacked, TypeOK
    <3>2. CASE MarkEvent(h) \/ UnmarkFailed(h)
      BY <1>0, <1>1, <3>2 DEF MarkEvent, UnmarkFailed, Finish, Goto, SameTask, Backed,
         WebhookBacked, TypeOK
    <3>3. CASE ClearStaleEvents(h)
      BY <1>0, <1>1, <3>3 DEF ClearStaleEvents, ClearStale, Goto, SameTask, Backed,
         WebhookBacked, StandsFor, TypeOK
    <3> QED
      BY <1>3, <3>1, <3>2, <3>3
  <2> QED
    BY <1>1, <1>2, <2>1, <2>2, BackedStep
<1>4. CASE LoadRecord(h)
  <2> DEFINE stored == Get(incidents, i)
             current == IF stored = None THEN "started" ELSE stored.status
             event == req[h].what
  <2>1. stored \in Record \cup {None} /\ (stored # None => StandsFor(i, stored))
    BY <1>0 DEF TypeOK, Get, Keys, BackedInv, StoredBacked
  <2>2. Reached(timeline[i], current)
    BY <1>0, <2>1 DEF StandsFor, Reached
  <2>3. Reached(timeline[i], NextStatus(current, FromEvent(event)))
    <3>1. event \in Happened(timeline[i]) /\ event \in Events /\ FromEvent(event) # None
      BY <1>0, <1>4 DEF WebhookBacked, Webhooks, LoadRecord, i
    <3> HIDE DEF current, event
    <3> QED
      BY <1>0, <2>2, <3>1, NextReached
  <2>4. \A meta : StandsFor(i, Updated(stored, i, event, meta))
    BY <2>1, <2>3, UpdatedFields DEF StandsFor
  <2>5. Backed(h)' /\ \A g \in Handlers \ {h} : SameTask(g)
    <3>1. \/ pc' = [pc EXCEPT ![h] = "upsert"]
             /\ \E meta : rec' = [rec EXCEPT ![h] = Updated(stored, i, event, meta)]
          \/ pc' = [pc EXCEPT ![h] = "unmark"] /\ rec' = [rec EXCEPT ![h] = None]
      BY <1>4 DEF LoadRecord, Finish, Goto, i
    <3>2. req' = req
      BY <1>4 DEF LoadRecord
    <3> HIDE DEF stored, event
    <3> QED
      BY <1>0, <1>1, <1>4, <2>4, <3>1, <3>2 DEF SameTask, Backed, WebhookBacked, StandsFor,
         LoadRecord, TypeOK, i
  <2> QED
    BY <1>1, <1>2, <1>4, <2>5, BackedStep DEF LoadRecord, redis, chat
<1>5. CASE UpsertRecord(h)
  <2>1. StandsFor(i, rec[h]) /\ rec[h] \in Record
    BY <1>0, <1>5 DEF UpsertRecord, WebhookBacked, TypeOK, WebhookTaskOK, i
  <2>2. \A k \in Incidents : incidents'[k] = incidents[k] \/ StandsFor(k, incidents[k])'
    <3>1. incidents' \in {incidents, Upsert(incidents, rec[h])}
      BY <1>5 DEF UpsertRecord
    <3> QED
      BY <1>0, <1>1, <2>1, <3>1, IdAssumption DEF Upsert, StandsFor, TypeOK, Keys
  <2>3. Backed(h)' /\ \A g \in Handlers \ {h} : SameTask(g)
    BY <1>0, <1>1, <1>5 DEF UpsertRecord, Finish, Goto, SameTask, Backed, WebhookBacked,
       StandsFor, TypeOK
  <2> QED
    BY <1>1, <1>2, <1>5, <2>2, <2>3, BackedStep DEF UpsertRecord, chat
<1>6. CASE SendIncident(h)
  <2>1. StandsFor(i, rec[h]) /\ rec[h] \in Record
    BY <1>0, <1>6 DEF SendIncident, WebhookBacked, TypeOK, WebhookTaskOK, i
  <2>2. \A m \in DOMAIN messages' :
           \/ m \in DOMAIN messages /\ messages'[m] = messages[m]
           \/ messages'[m].id = rec[h].id /\ messages'[m].status = rec[h].status
    BY <1>6, <2>1, MessagesFields DEF SendIncident
  <2>3. Backed(h)' /\ \A g \in Handlers \ {h} : SameTask(g)
    <3> DEFINE sent == [rec[h] EXCEPT !.chat_id = ChatId, !.message_id = Len(messages) + 1]
    <3>1. sent.id = rec[h].id /\ sent.status = rec[h].status
      BY <2>1 DEF Record
    <3>2. \/ rec' = [rec EXCEPT ![h] = sent] /\ Goto(h, "setMessageId")
          \/ Finish(h, "release", "200")
      BY <1>0, <1>6 DEF SendIncident, TypeOK
    <3>3. req' = req
      BY <1>6 DEF SendIncident
    <3> HIDE DEF sent
    <3> QED
      BY <1>0, <1>1, <1>6, <2>1, <3>1, <3>2, <3>3 DEF SendIncident, Finish, Goto, SameTask,
         Backed, WebhookBacked, StandsFor, TypeOK, i
  <2> QED
    BY <1>0, <1>1, <1>2, <1>6, <2>1, <2>2, <2>3, IdAssumption, BackedStep
    DEF SendIncident, redis, StandsFor
<1>7. CASE SetMessage(h)
  <2> DEFINE old == Fields(incidents, i)
             new == [old EXCEPT !.chat_id = rec[h].chat_id, !.message_id = rec[h].message_id]
  <2>1. old \in Record /\ StandsFor(i, old)
    BY <1>0, FieldsType DEF Fields, TypeOK, Keys, BackedInv, StoredBacked, StandsFor,
       DefaultRecord, Reached
  <2>2. new.id = old.id /\ new.status = old.status
    BY <2>1 DEF Record
  <2>3. incidents' \in {incidents, [incidents EXCEPT ![i] = new]}
    BY <1>7 DEF SetMessage, SetMessageId, WriteFails, i
  <2>4. \A k \in Incidents : incidents'[k] = incidents[k] \/ StandsFor(k, incidents[k])'
    <3> HIDE DEF old, new
    <3> QED
      BY <1>0, <1>1, <2>1, <2>2, <2>3 DEF StandsFor, TypeOK, Keys
  <2>5. Backed(h)' /\ \A g \in Handlers \ {h} : SameTask(g)
    BY <1>0, <1>1, <1>7 DEF SetMessage, Finish, Goto, SameTask, Backed, WebhookBacked, TypeOK
  <2> QED
    BY <1>1, <1>2, <1>7, <2>4, <2>5, BackedStep DEF SetMessage, chat
<1>8. CASE EditIncident(h)
  <2>1. StandsFor(i, rec[h]) /\ rec[h] \in Record
    BY <1>0, <1>8 DEF EditIncident, WebhookBacked, TypeOK, WebhookTaskOK, i
  <2>2. \A m \in DOMAIN messages' :
           \/ m \in DOMAIN messages /\ messages'[m] = messages[m]
           \/ messages'[m].id = rec[h].id /\ messages'[m].status = rec[h].status
    BY <1>8, <2>1, MessagesFields DEF EditIncident
  <2>3. Backed(h)' /\ \A g \in Handlers \ {h} : SameTask(g)
    BY <1>0, <1>1, <1>8 DEF EditIncident, Finish, Goto, SameTask, Backed, WebhookBacked,
       TypeOK
  <2> QED
    BY <1>0, <1>1, <1>2, <1>8, <2>1, <2>2, <2>3, IdAssumption, BackedStep
    DEF EditIncident, redis, StandsFor
<1> QED
  BY <1>3, <1>4, <1>5, <1>6, <1>7, <1>8 DEF WebhookStep

LEMMA CallbackBackedStep ==
  ASSUME TypeOK, TypeOK', BackedInv, NEW h \in CallbackHandlers, CallbackStep(h)
  PROVE  BackedInv'
<1>0. h \in Handlers /\ h \notin WebhookHandlers
  BY HandlersAssumption DEF Handlers
<1>1. CASE TakeClick(h)
  <2> DEFINE click == Head(inbox[h])
  <2>1. /\ inbox[h] \in Seq(Presses) /\ inbox[h] # <<>>
        /\ 1 \in DOMAIN inbox[h] /\ click = inbox[h][1] /\ click \in Presses
        /\ \A n \in DOMAIN Tail(inbox[h]) : /\ n + 1 \in DOMAIN inbox[h]
                                            /\ Tail(inbox[h])[n] = inbox[h][n + 1]
    <3>1. inbox[h] \in Seq(Presses) /\ inbox[h] # <<>>
      BY <1>1 DEF TakeClick, TypeOK
    <3> QED
      BY <3>1, HeadTailProperties, LenProperties, EmptySeq
  <2>2. /\ timeline' = timeline /\ incidents' = incidents /\ messages' = messages
        /\ \A g \in Handlers \ {h} : SameTask(g)
        /\ \A c \in CallbackHandlers : inbox'[c] = IF c = h THEN Tail(inbox[h]) ELSE inbox[c]
    BY <1>1 DEF TakeClick, Goto, SameTask, upstream, redis, TypeOK
  <2>3. PressesBacked'
    <3> SUFFICES ASSUME NEW c \in CallbackHandlers, NEW n \in DOMAIN inbox'[c],
                        inbox'[c][n].incident \in Incidents
                 PROVE  timeline[inbox'[c][n].incident] # <<>>
      BY <2>2 DEF PressesBacked
    <3>1. CASE c = h
      <4>1. n + 1 \in DOMAIN inbox[h] /\ inbox'[c][n] = inbox[h][n + 1]
        BY <2>1, <2>2, <3>1
      <4> QED
        BY <4>1 DEF BackedInv, PressesBacked
    <3>2. CASE c # h
      BY <2>2, <3>2 DEF BackedInv, PressesBacked
    <3> QED
      BY <3>1, <3>2
  <2>4. SameTask(h) \/ Backed(h)'
    <3>1. CASE UNCHANGED <<pc, req>>
      BY <1>1, <3>1 DEF TakeClick, SameTask
    <3>2. CASE click.incident # EmptyId /\ Goto(h, "lock") /\ req' = [req EXCEPT ![h] = click]
      <4>1. click.incident \in Incidents
        BY <2>1, <3>2 DEF Presses, Keys
      <4>2. timeline[click.incident] # <<>>
        BY <2>1, <4>1 DEF BackedInv, PressesBacked
      <4> QED
        BY <1>0, <2>2, <3>2, <4>2 DEF Goto, Backed, CallbackBacked, TypeOK
    <3> QED
      BY <1>1, <3>1, <3>2 DEF TakeClick
  <2> QED
    BY <2>2, <2>3, <2>4, NoGrowth, BackedStep
<1>2. CASE pc[h] # "idle"
  <2> DEFINE i == req[h].incident
  <2>1. /\ req[h] \in Presses /\ i \in Incidents /\ i \in Keys
        /\ CallbackBacked(h)
        /\ timeline[i] \in Seq(Events) /\ timeline[i] # <<>> /\ HasLast(timeline[i])
    <3>1. req[h] \in Presses /\ i \in Incidents
      BY <1>2 DEF TypeOK, CallbackTaskOK
    <3>2. CallbackBacked(h)
      BY <1>0, <1>2 DEF BackedInv, Backed
    <3> QED
      BY <3>1, <3>2 DEF BackedInv, TimelinesHaveLast, CallbackBacked, TypeOK, Keys
  <2>2. req[h].what \in {"Acknowledge", "Resolve"}
    BY <2>1 DEF Presses
  <2> HIDE DEF i
  <2>3. CASE LockForCallback(h) \/ ReleaseAndAnswer(h)
    <3>1. UNCHANGED <<timeline, chat, incidents>>
      BY <2>3 DEF LockForCallback, ReleaseAndAnswer, upstream
    <3>2. Backed(h)' /\ \A g \in Handlers \ {h} : SameTask(g)
      BY <1>0, <2>1, <2>3, <3>1 DEF LockForCallback, ReleaseAndAnswer, Answer, Reset, Goto,
         SameTask, Backed, CallbackBacked, TypeOK
    <3> QED
      BY <3>1, <3>2, NoGrowth, BackedStep DEF chat
  <2> DEFINE event == ActionEvent[req[h].what]
  <2>4. event \in Events /\ event = IF req[h].what = "Resolve" THEN "incident_resolved"
                                                                ELSE "incident_acknowledged"
    BY <2>2 DEF ActionEvent, Events
  <2>5. Accepted(i, event) \/ UNCHANGED upstream => Growth
    <3>1. Log(i, event) => Growth
      BY <2>1, <2>4, LogGrows
    <3> QED
      BY <3>1, NoGrowth DEF Accepted, upstream
  <2>6. Accepted(i, event) => Reached(timeline'[i], AskedStatus(req[h].what))
    <3>1. CASE Log(i, event)
      <4>1. event \in Happened(timeline'[i])
        BY <2>1, <2>4, <3>1, LogGrows
      <4> QED
        BY <2>2, <2>4, <4>1 DEF Reached, AskedStatus
    <3>2. CASE ~Possible(timeline[i], event) /\ UNCHANGED upstream
      BY <2>1, <2>2, <3>2, RefusedMeansReached DEF upstream
    <3> QED
      BY <3>1, <3>2 DEF Accepted
  <2>7. CASE CallBetterStack(h)
    <3>1. UNCHANGED <<chat, incidents, req>>
      BY <2>7 DEF CallBetterStack, redis
    <3>2. \/ Accepted(i, event) /\ Goto(h, "get") /\ UNCHANGED rec
          \/ (Accepted(i, event) \/ UNCHANGED upstream) /\ Conclude(h, "Alert")
      BY <2>7 DEF CallBetterStack, i
    <3> HIDE DEF event
    <3>3. Growth
      BY <2>5, <3>2
    <3>4. Backed(h)' /\ \A g \in Handlers \ {h} : SameTask(g)
      BY <1>0, <2>1, <2>6, <3>1, <3>2, <3>3 DEF Conclude, Goto, SameTask, Backed,
         CallbackBacked, Growth, TypeOK, i
    <3> QED
      BY <3>1, <3>3, <3>4, BackedStep DEF chat
  <2>8. CASE RetryCall(h)
    BY <2>5, <2>8, BackedStep DEF RetryCall, chat, redis, tasks, SameTask, i
  <2>9. CASE LoadCurrent(h)
    <3> DEFINE current == Get(incidents, i)
               status  == NextStatus(current.status, ActionTrigger(req[h].what))
    <3>1. UNCHANGED <<timeline, chat, incidents, req>>
      BY <2>9 DEF LoadCurrent, upstream, redis
    <3>2. /\ pc[h] = "get"
          /\ \/ /\ current \in Record /\ status # current.status
                /\ rec' = [rec EXCEPT ![h] = [current EXCEPT !.status = status]]
                /\ Goto(h, "setStatus")
             \/ Goto(h, "reget") /\ UNCHANGED rec
             \/ Conclude(h, "Alert")
      BY <2>1, <2>9 DEF LoadCurrent, Get, TypeOK, i
    <3>3. current \in Record /\ status # current.status =>
            /\ [current EXCEPT !.status = status].status = status
            /\ status = AskedStatus(req[h].what)
      BY <2>2, AskedReached DEF Record
    <3>4. Reached(timeline[i], AskedStatus(req[h].what))
      BY <2>1, <3>2 DEF CallbackBacked, i
    <3> HIDE DEF current, status
    <3>5. Backed(h)' /\ \A g \in Handlers \ {h} : SameTask(g)
      <4>1. CASE /\ rec' = [rec EXCEPT ![h] = [current EXCEPT !.status = status]]
                 /\ [current EXCEPT !.status = status].status = AskedStatus(req[h].what)
                 /\ Goto(h, "setStatus")
        BY <1>0, <2>1, <3>1, <3>4, <4>1 DEF Goto, SameTask, Backed, CallbackBacked, TypeOK, i
      <4>2. CASE (Goto(h, "reget") /\ UNCHANGED rec) \/ Conclude(h, "Alert")
        BY <1>0, <2>1, <3>1, <4>2 DEF Conclude, Goto, SameTask, Backed, CallbackBacked, TypeOK, i
      <4> QED
        BY <3>2, <3>3, <4>1, <4>2
    <3> QED
      BY <3>1, <3>5, NoGrowth, BackedStep DEF chat
  <2>10. CASE StoreStatus(h)
    <3> DEFINE new == [Fields(incidents, i) EXCEPT
                         !.status          = rec[h].status,
                         !.acknowledged_at = @ \/ rec[h].status = "acknowledged",
                         !.resolved_at     = @ \/ rec[h].status = "resolved"]
    <3>1. UNCHANGED <<timeline, chat, req>>
      BY <2>10 DEF StoreStatus, upstream
    <3>2. incidents' \in {incidents, [incidents EXCEPT ![i] = new]}
      BY <2>10 DEF StoreStatus, SetStatus, WriteFails, i
    <3>3. new.id \in {i, EmptyId} /\ new.status = rec[h].status
      <4>1. Fields(incidents, i) \in Record /\ Fields(incidents, i).id \in {i, EmptyId}
        BY <2>1, FieldsType DEF Fields, DefaultRecord, TypeOK, BackedInv, StoredBacked,
           StandsFor
      <4> QED
        BY <4>1 DEF Record
    <3>4. Reached(timeline[i], rec[h].status)
      BY <2>1, <2>10 DEF StoreStatus, CallbackBacked, i
    <3> HIDE DEF new
    <3>5. \A k \in Incidents : incidents'[k] = incidents[k] \/ StandsFor(k, incidents[k])'
      <4> SUFFICES ASSUME NEW k \in Incidents, incidents'[k] # incidents[k]
                   PROVE  StandsFor(k, incidents[k])'
        OBVIOUS
      <4>1. k = i /\ incidents'[i] = new
        BY <2>1, <3>2 DEF TypeOK, Keys
      <4> QED
        BY <3>1, <3>3, <3>4, <4>1 DEF StandsFor
    <3>6. Backed(h)' /\ \A g \in Handlers \ {h} : SameTask(g)
      BY <1>0, <2>1, <2>10, <3>1 DEF StoreStatus, Conclude, Goto, SameTask, Backed,
         CallbackBacked, TypeOK, i
    <3> QED
      BY <3>1, <3>5, <3>6, NoGrowth, BackedStep DEF chat
  <2>11. CASE Reload(h)
    <3>1. UNCHANGED <<timeline, chat, incidents, req>>
      BY <2>11 DEF Reload, upstream, redis
    <3>2. \/ /\ incidents[i] # None
             /\ rec' = [rec EXCEPT ![h] = incidents[i]] /\ Goto(h, "edit")
          \/ \E result : Conclude(h, result)
      BY <2>11 DEF Reload, Get, i
    <3>3. incidents[i] # None => StandsFor(i, incidents[i])
      BY <2>1 DEF BackedInv, StoredBacked
    <3>4. Backed(h)' /\ \A g \in Handlers \ {h} : SameTask(g)
      BY <1>0, <2>1, <3>1, <3>2, <3>3 DEF Conclude, Goto, SameTask, Backed,
         CallbackBacked, StandsFor, TypeOK, i
    <3> QED
      BY <3>1, <3>4, NoGrowth, BackedStep DEF chat
  <2>12. CASE EditAfterClick(h)
    <3>1. UNCHANGED <<timeline, inbox, incidents, req>>
      BY <2>12 DEF EditAfterClick, upstream, redis
    <3>2. StandsFor(i, rec[h]) /\ rec[h] \in Record
      BY <1>2, <2>1, <2>12 DEF EditAfterClick, CallbackBacked, TypeOK, CallbackTaskOK, i
    <3>3. \A m \in DOMAIN messages' :
             \/ m \in DOMAIN messages /\ messages'[m] = messages[m]
             \/ messages'[m].id = rec[h].id /\ messages'[m].status = rec[h].status
      BY <2>12, <3>2, MessagesFields DEF EditAfterClick
    <3>4. Backed(h)' /\ \A g \in Handlers \ {h} : SameTask(g)
      BY <1>0, <2>1, <2>12, <3>1 DEF EditAfterClick, Conclude, Goto, SameTask, Backed,
         CallbackBacked, TypeOK, i
    <3> QED
      BY <2>1, <3>1, <3>2, <3>3, <3>4, IdAssumption, NoGrowth, BackedStep DEF StandsFor
  <2> QED
    BY <1>2, <2>3, <2>7, <2>8, <2>9, <2>10, <2>11, <2>12 DEF CallbackStep, TakeClick
<1> QED
  BY <1>1, <1>2 DEF CallbackStep, LockForCallback, CallBetterStack, RetryCall, LoadCurrent,
     StoreStatus, Reload, EditAfterClick, ReleaseAndAnswer

-----------------------------------------------------------------------------
LEMMA BackedInit == Init => BackedInv
<1> SUFFICES ASSUME Init PROVE BackedInv
  OBVIOUS
<1>1. StoredBacked
  BY DEF Init, WorldInit, StoredBacked, Keys
<1>2. ShownBacked /\ PressesBacked
  BY DEF Init, WorldInit, ShownBacked, PressesBacked
<1>3. TimelinesHaveLast /\ \A h \in Handlers : Backed(h)
  BY DEF Init, WorldInit, TimelinesHaveLast, Backed
<1> QED
  BY <1>1, <1>2, <1>3 DEF BackedInv

(***************************************************************************)
(* BackedInv is preserved by every step of the bot and of its environment. *)
(***************************************************************************)
LEMMA BackedNext ==
  ASSUME TypeOK, TypeOK', BackedInv, [Next]_vars
  PROVE  BackedInv'
<1>1. CASE Environment
  BY <1>1, EnvironmentBacked
<1>2. CASE \E h \in WebhookHandlers : WebhookStep(h)
  BY <1>2, WebhookBackedStep
<1>3. CASE \E h \in CallbackHandlers : CallbackStep(h)
  BY <1>3, CallbackBackedStep
<1>4. CASE UNCHANGED vars
  BY <1>4, NoGrowth, BackedStep DEF vars, upstream, chat, redis, tasks, SameTask
<1> QED
  BY <1>1, <1>2, <1>3, <1>4 DEF Next

(***************************************************************************)
(* A status that the bot has stored or shows was reached in Better Stack   *)
(* first (process_marked_webhook, process_locked_callback), whatever       *)
(* crashes, fails, times out or is delivered late, and however many leases *)
(* are lost: unlike MutualExclusion it needs no lock to be held.           *)
(***************************************************************************)
THEOREM NothingInvented == Spec => []NeverAhead
<1>1. BackedInv => NeverAhead
  <2> SUFFICES ASSUME BackedInv PROVE NeverAhead
    OBVIOUS
  <2>1. \A i \in Incidents : incidents[i] # None => Attained(i, incidents[i].status)
    BY ReachedAttained DEF BackedInv, StoredBacked, StandsFor
  <2>2. \A i \in Incidents : \A m \in DOMAIN messages :
           messages[m].id = i => Attained(i, messages[m].status)
    <3>1. \A m \in DOMAIN messages : messages[m].id \in Incidents =>
             Reached(timeline[messages[m].id], messages[m].status)
      BY DEF BackedInv, ShownBacked
    <3> QED
      BY <3>1, ReachedAttained
  <2> QED
    BY <2>1, <2>2, Zenon DEF NeverAhead
<1>2. TypeOK /\ TypeOK' /\ BackedInv /\ [Next]_vars => BackedInv'
  BY BackedNext
<1> QED
  BY <1>1, <1>2, BackedInit, TypeCorrect, PTL DEF Spec
=============================================================================
