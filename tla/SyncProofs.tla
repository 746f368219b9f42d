----------------------------- MODULE SyncProofs ------------------------------
(***************************************************************************)
(* Proof that the bot implements IncidentSync, and of what follows from    *)
(* it, while no lease runs out under its holder and no record expires.     *)
(***************************************************************************)
EXTENDS AheadProofs

Calm == spent["lease"] = 0 /\ spent["recordTtl"] = 0

\* What LockHeld is needed for.
Exclusive == \A i \in Incidents, g, h \in Handlers : Working(g, i) /\ Working(h, i) => g = h

-----------------------------------------------------------------------------
(***************************************************************************)
(* The invariant: what a task holds in its locals and is about to write is *)
(* still what it would read.  The message of a record is one that shows    *)
(* this incident, so that an edit changes no other.                        *)
(***************************************************************************)
About(m, i)  == m \in DOMAIN messages /\ messages[m].id = i
Placed(r, i) == r.id = i /\ (r.message_id # None => About(r.message_id, i))

StoredPlaced == \A i \in Incidents : incidents[i] # None => Placed(incidents[i], i)

\* The status a read would find, or start from.
Held(i) == IF incidents[i] = None THEN "started" ELSE incidents[i].status

\* The statuses with which the wish of a button is fulfilled.
Wanted(action) == IF action = "Resolve" THEN {"resolved"} ELSE {"acknowledged", "resolved"}
Fulfilled(i, action) == incidents[i] # None /\ incidents[i].status \in Wanted(action)

WebhookTracks(h, i) ==
  /\ pc[h] = "upsert" => /\ Placed(rec[h], i)
                         /\ rec[h].status = NextStatus(Held(i), FromEvent(req[h].what))
  /\ pc[h] \in {"clearResolved", "clearAcknowledged", "notify"} =>
       /\ Placed(rec[h], i)
       /\ incidents[i] # None /\ incidents[i].status = rec[h].status
  /\ pc[h] = "setMessageId" => incidents[i] # None /\ About(rec[h].message_id, i)

CallbackTracks(h, i) ==
  /\ pc[h] = "setStatus" =>
       /\ incidents[i] # None
       /\ rec[h].status = NextStatus(incidents[i].status, ActionTrigger(req[h].what))
       /\ rec[h].status = AskedStatus(req[h].what)
  /\ pc[h] \in {"reget", "edit"} \/ (pc[h] = "release" /\ out[h] = "Success")
       => Fulfilled(i, req[h].what)
  /\ pc[h] = "edit" => /\ Placed(rec[h], i) /\ rec[h].message_id # None
                       /\ incidents[i].status = rec[h].status

Tracks(h) ==
  InCritical(h) => /\ h \in WebhookHandlers  => WebhookTracks(h, req[h].incident)
                   /\ h \in CallbackHandlers => CallbackTracks(h, req[h].incident)

TrackInv == StoredPlaced /\ \A h \in Handlers : Tracks(h)

-----------------------------------------------------------------------------
\* A task that a step leaves where it is.
Rests(g) == pc'[g] = pc[g] /\ req'[g] = req[g] /\ rec'[g] = rec[g] /\ out'[g] = out[g]

\* No message is taken away or given to another incident.
Kept == \A m \in DOMAIN messages : m \in DOMAIN messages' /\ messages'[m].id = messages[m].id

LEMMA CriticalIncident ==
  ASSUME TypeOK, NEW h \in Handlers, pc[h] # "idle"
  PROVE  req[h].incident \in Incidents
BY DEF TypeOK, WebhookTaskOK, CallbackTaskOK, Webhooks, Handlers

LEMMA PlacedKept ==
  ASSUME Kept, NEW r, NEW i, Placed(r, i)
  PROVE  r.id = i /\ (r.message_id # None =>
           r.message_id \in DOMAIN messages' /\ messages'[r.message_id].id = i)
BY DEF Kept, Placed, About

LEMMA RestsTracks ==
  ASSUME TypeOK, Kept, NEW g \in Handlers, Tracks(g), Rests(g),
         InCritical(g) => incidents'[req[g].incident] = incidents[req[g].incident]
  PROVE  Tracks(g)'
<1> SUFFICES ASSUME InCritical(g)' PROVE Tracks(g)'
  BY DEF Tracks
<1>1. InCritical(g) /\ Tracks(g)
  BY DEF InCritical, Rests
<1>2. PICK i \in Incidents : i = req[g].incident
  BY <1>1, CriticalIncident DEF InCritical
<1>3. incidents'[i] = incidents[i] /\ req'[g].incident = i
  BY <1>1, <1>2 DEF Rests
<1>4. g \in WebhookHandlers => WebhookTracks(g, i)'
  BY <1>1, <1>2, <1>3, PlacedKept DEF Tracks, WebhookTracks, Placed, About, Held, Rests, Kept
<1>5. g \in CallbackHandlers => CallbackTracks(g, i)'
  BY <1>1, <1>2, <1>3, PlacedKept DEF Tracks, CallbackTracks, Placed, About, Fulfilled, Rests, Kept
<1> QED
  BY <1>3, <1>4, <1>5 DEF Tracks, WebhookTracks, CallbackTracks

\* What a step has to show.
LEMMA TrackStep ==
  ASSUME TypeOK, TrackInv, Kept,
         \A g \in Handlers :
            \/ Tracks(g)'
            \/ Rests(g) /\ (InCritical(g)
                            => incidents'[req[g].incident] = incidents[req[g].incident]),
         \A k \in Incidents : incidents'[k] = incidents[k] \/ Placed(incidents[k], k)'
  PROVE  TrackInv'
<1>1. StoredPlaced'
  BY PlacedKept DEF TrackInv, StoredPlaced, Placed, About, Kept
<1>2. \A g \in Handlers : Tracks(g)'
  BY RestsTracks DEF TrackInv
<1> QED
  BY <1>1, <1>2 DEF TrackInv

\* The others are not disturbed by what a task in its critical section writes.
LEMMA TaskTracks ==
  ASSUME TypeOK, TrackInv, Exclusive, Kept,
         NEW h \in Handlers, InCritical(h), Tracks(h)',
         \A g \in Handlers \ {h} : Rests(g),
         \A k \in Incidents : \/ incidents'[k] = incidents[k]
                              \/ k = req[h].incident /\ Placed(incidents[k], k)'
  PROVE  TrackInv'
<1>1. ASSUME NEW g \in Handlers \ {h}, InCritical(g)
      PROVE  incidents'[req[g].incident] = incidents[req[g].incident]
  <2>1. req[g].incident \in Incidents /\ req[h].incident \in Incidents
    BY <1>1, CriticalIncident DEF InCritical
  <2>2. req[g].incident # req[h].incident
    BY <1>1, <2>1 DEF Exclusive, Working
  <2> QED
    BY <2>1, <2>2
<1> QED
  BY <1>1, TrackStep

-----------------------------------------------------------------------------
(***************************************************************************)
(* Messages.                                                               *)
(***************************************************************************)
LEMMA MessageFacts ==
  ASSUME TypeOK
  PROVE  /\ Len(messages) \in Nat /\ DOMAIN messages = 1 .. Len(messages)
         /\ \A m \in DOMAIN messages : messages[m] \in Views
BY LenProperties, ElementOfSeq DEF TypeOK

LEMMA SendFacts ==
  ASSUME TypeOK, NEW r \in Record, messages' = SendMessage(r)
  PROVE  /\ DOMAIN messages' = 1 .. (Len(messages) + 1)
         /\ \A m \in DOMAIN messages : messages'[m] = messages[m]
         /\ messages'[Len(messages) + 1] = View(r)
         /\ Kept
<1>1. View(r) \in Views /\ messages \in Seq(Views)
  BY ViewType DEF TypeOK
<1>2. /\ DOMAIN messages' = 1 .. (Len(messages) + 1)
      /\ \A m \in 1 .. Len(messages) : messages'[m] = messages[m]
      /\ messages'[Len(messages) + 1] = View(r)
  BY <1>1, AppendProperties, LenProperties DEF SendMessage
<1> QED
  BY <1>2, MessageFacts DEF Kept

LEMMA EditFacts ==
  ASSUME TypeOK, NEW r \in Record, NEW i, Placed(r, i), r.message_id # None,
         messages' \in {messages, EditMessage(r.message_id, r)}
  PROVE  /\ Kept
         /\ messages' = messages \/ messages' = [messages EXCEPT ![r.message_id] = View(r)]
<1>1. View(r).id = i /\ messages[r.message_id].id = i /\ r.message_id \in DOMAIN messages
  BY DEF View, Placed, About
<1>2. messages' = messages \/ messages' = [messages EXCEPT ![r.message_id] = View(r)]
  BY DEF EditMessage
<1>3. CASE messages' = [messages EXCEPT ![r.message_id] = View(r)]
  BY <1>1, <1>3 DEF Kept
<1>4. CASE messages' = messages
  BY <1>4 DEF Kept
<1> QED
  BY <1>2, <1>3, <1>4

-----------------------------------------------------------------------------
(***************************************************************************)
(* TrackInv is an invariant.                                               *)
(***************************************************************************)
LEMMA TrackInit == Init => TrackInv
BY DEF Init, WorldInit, TrackInv, StoredPlaced, Tracks, InCritical, Keys

LEMMA EnvironmentTracks ==
  ASSUME TypeOK, TrackInv, Calm', Environment
  PROVE  TrackInv'
<1>1. CASE UNCHANGED <<messages, incidents, tasks>>
  BY <1>1, TrackStep DEF tasks, Rests, Kept
<1>2. CASE \E h \in WebhookHandlers, i \in Incidents : \E n \in pending[i] : Deliver(h, i, n)
  <2> PICK h \in WebhookHandlers : /\ pc' = [pc EXCEPT ![h] = "lock"]
                                   /\ \E r : req' = [req EXCEPT ![h] = r]
                                   /\ UNCHANGED <<messages, incidents, rec, out>>
    BY <1>2 DEF Deliver, Goto, chat, redis
  <2>1. h \in Handlers
    BY DEF Handlers
  <2>2. Tracks(h)' /\ \A g \in Handlers \ {h} : Rests(g)
    BY <2>1 DEF Tracks, InCritical, Rests, TypeOK
  <2> QED
    BY <2>2, TrackStep DEF Kept
<1>3. CASE \E h \in WebhookHandlers : GiveUp(h)
  <2> PICK h \in WebhookHandlers : GiveUp(h)
    BY <1>3
  <2>1. h \in Handlers /\ h \notin CallbackHandlers /\ req[h] \in Webhooks
    BY HandlersAssumption DEF Handlers, GiveUp, TypeOK, WebhookTaskOK
  <2>2. /\ UNCHANGED <<messages, incidents, pc, rec, out>>
        /\ req'[h].incident = req[h].incident /\ req'[h].what = req[h].what
        /\ \A g \in Handlers \ {h} : req'[g] = req[g]
    BY <2>1 DEF GiveUp, chat, redis, TypeOK, Webhooks
  <2>3. Tracks(h)'
    <3>1. Tracks(h)
      BY <2>1 DEF TrackInv
    <3>2. InCritical(h) => WebhookTracks(h, req[h].incident)
      BY <3>1 DEF Tracks
    <3> QED
      BY <2>1, <2>2, <3>2 DEF Tracks, InCritical, WebhookTracks, Placed, About, Held
  <2>4. \A g \in Handlers \ {h} : Rests(g)
    BY <2>2 DEF Rests
  <2> QED
    BY <2>2, <2>3, <2>4, TrackStep DEF Kept
<1>4. CASE \E m \in DOMAIN messages : DeleteMessage(m)
  <2> PICK m \in DOMAIN messages : DeleteMessage(m)
    BY <1>4
  <2>1. messages[m] \in Views
    BY MessageFacts
  <2>2. UNCHANGED <<incidents, tasks>> /\ Kept
    BY <2>1 DEF DeleteMessage, redis, Kept, Views
  <2> QED
    BY <2>2, TrackStep DEF tasks, Rests
<1>5. ASSUME NEW i \in Incidents, RecordExpires(i) PROVE FALSE
  <2>1. spent["recordTtl"] \in Nat /\ spent'["recordTtl"] = spent["recordTtl"] + 1
    BY <1>5 DEF RecordExpires, Spend, TypeOK, Kinds, Faults
  <2> QED
    BY <2>1 DEF Calm
<1>6. CASE \E h \in Handlers : Crash(h)
  <2> PICK h \in Handlers : Crash(h)
    BY <1>6
  <2>1. Tracks(h)' /\ \A g \in Handlers \ {h} : Rests(g)
    BY DEF Crash, Reset, Tracks, InCritical, Rests, TypeOK
  <2>2. UNCHANGED <<messages, incidents>>
    BY DEF Crash, redis
  <2> QED
    BY <2>1, <2>2, TrackStep DEF Kept
<1> QED
  BY <1>1, <1>2, <1>3, <1>4, <1>5, <1>6 DEF Environment, Happen, Click, OrphanedLockExpires,
     LeaseLost, DedupExpires, upstream, chat, redis

\* A step of a task that only moves it out of the way: to "idle" or to take its lock.
LEMMA OutsideTracks ==
  ASSUME TypeOK, TrackInv, UNCHANGED <<messages, incidents>>,
         NEW h \in Handlers, Tracks(h)', \A g \in Handlers \ {h} : Rests(g)
  PROVE  TrackInv'
BY TrackStep DEF Kept

LEMMA WebhookTracksStep ==
  ASSUME TypeOK, TrackInv, Exclusive, NEW h \in WebhookHandlers, WebhookStep(h)
  PROVE  TrackInv'
<1>0. h \in Handlers /\ h \notin CallbackHandlers
  BY HandlersAssumption DEF Handlers
<1>1. CASE SkipUnknownEvent(h) \/ LockIncident(h) \/ ReleaseAndRespond(h)
  <2>1. UNCHANGED <<messages, incidents>>
    BY <1>1 DEF SkipUnknownEvent, LockIncident, ReleaseAndRespond, chat, redis
  <2>2. Tracks(h)' /\ \A g \in Handlers \ {h} : Rests(g)
    BY <1>0, <1>1 DEF SkipUnknownEvent, LockIncident, ReleaseAndRespond, Respond, Reset, Goto,
       Tracks, WebhookTracks, InCritical, Rests, TypeOK
  <2> QED
    BY <1>0, <2>1, <2>2, OutsideTracks
<1>2. CASE MarkEvent(h) \/ UnmarkFailed(h)
  <2>1. UNCHANGED <<messages, incidents>>
    BY <1>2 DEF MarkEvent, UnmarkFailed, chat
  <2>2. Tracks(h)' /\ \A g \in Handlers \ {h} : Rests(g)
    BY <1>0, <1>2 DEF MarkEvent, UnmarkFailed, Finish, Goto, Tracks, WebhookTracks, Rests, TypeOK
  <2> QED
    BY <1>0, <2>1, <2>2, OutsideTracks
<1> SUFFICES ASSUME pc[h] \in {"get", "upsert", "clearResolved", "clearAcknowledged", "notify",
                               "setMessageId"}
             PROVE  TrackInv'
  BY <1>1, <1>2 DEF WebhookStep, LoadRecord, UpsertRecord, ClearStaleEvents, ClearStale,
     SendIncident, SetMessage, EditIncident
<1>3. PICK i \in Incidents : i = req[h].incident
  BY <1>0, CriticalIncident
<1>4. /\ InCritical(h) /\ WebhookTracks(h, i) /\ i \in Keys
      /\ incidents[i] \in Record \cup {None} /\ (incidents[i] # None => Placed(incidents[i], i))
  BY <1>0, <1>3 DEF InCritical, TrackInv, StoredPlaced, Tracks, TypeOK, Keys
<1>5. pc[h] # "get" => rec[h] \in Record
  BY DEF TypeOK, WebhookTaskOK
<1>6. CASE LoadRecord(h)
  <2>1. UNCHANGED <<messages, incidents, req>>
    BY <1>6 DEF LoadRecord, chat, redis
  <2>2. \/ /\ pc' = [pc EXCEPT ![h] = "upsert"] /\ UNCHANGED out
           /\ \E meta : rec' = [rec EXCEPT ![h] = Updated(incidents[i], i, req[h].what, meta)]
        \/ Finish(h, "unmark", "500")
    BY <1>3, <1>6 DEF LoadRecord, Goto, Get
  <2>3. ASSUME NEW meta
        PROVE  LET r == Updated(incidents[i], i, req[h].what, meta) IN
               /\ Placed(r, i) /\ r.status = NextStatus(Held(i), FromEvent(req[h].what))
    <3> DEFINE r == Updated(incidents[i], i, req[h].what, meta)
    <3>1. /\ r.id = IF incidents[i] = None THEN i ELSE incidents[i].id
          /\ r.status = NextStatus(Held(i), FromEvent(req[h].what))
      BY <1>4, UpdatedFields DEF Held
    <3>2. r.message_id = IF incidents[i] = None THEN None ELSE incidents[i].message_id
      BY <1>4 DEF Updated, Record, DefaultRecord
    <3> QED
      BY <1>4, <3>1, <3>2 DEF Placed
  <2>4. \A g \in Handlers \ {h} : Rests(g)
    BY <2>1, <2>2 DEF Finish, Goto, Rests, TypeOK
  <2>5. Tracks(h)'
    <3>1. CASE Finish(h, "unmark", "500")
      BY <1>0, <3>1 DEF Finish, Goto, Tracks, WebhookTracks, TypeOK
    <3>2. ASSUME NEW meta, pc' = [pc EXCEPT ![h] = "upsert"],
                 rec' = [rec EXCEPT ![h] = Updated(incidents[i], i, req[h].what, meta)]
          PROVE  Tracks(h)'
      <4>1. /\ pc'[h] = "upsert" /\ req'[h] = req[h]
            /\ rec'[h] = Updated(incidents[i], i, req[h].what, meta)
        BY <1>0, <2>1, <3>2 DEF TypeOK
      <4>2. /\ Placed(rec'[h], i)
            /\ rec'[h].status = NextStatus(Held(i), FromEvent(req[h].what))
        BY <2>3, <4>1
      <4> QED
        BY <1>0, <1>3, <2>1, <4>1, <4>2 DEF Tracks, WebhookTracks, Placed, About, Held
    <3> QED
      BY <2>2, <3>1, <3>2
  <2> QED
    BY <1>0, <2>1, <2>4, <2>5, OutsideTracks
<1>7. CASE UpsertRecord(h)
  <2>1. UNCHANGED <<messages, req>> /\ Kept
    BY <1>7 DEF UpsertRecord, chat, Kept
  <2>2. Placed(rec[h], i) /\ rec[h].id = i
    BY <1>4, <1>7 DEF UpsertRecord, WebhookTracks, Placed
  <2>3. \/ /\ incidents' = [incidents EXCEPT ![i] = rec[h]] /\ UNCHANGED <<rec, out>>
           /\ pc' = [pc EXCEPT ![h] = IF rec[h].status = "started" THEN "clearResolved" ELSE "notify"]
        \/ /\ incidents' = incidents \/ incidents' = [incidents EXCEPT ![i] = rec[h]]
           /\ Finish(h, "unmark", "500")
    BY <1>7, <2>2 DEF UpsertRecord, Upsert, Goto
  <2>4. \A g \in Handlers \ {h} : Rests(g)
    BY <2>1, <2>3 DEF Finish, Goto, Rests, TypeOK
  <2>5. Tracks(h)'
    <3>1. CASE Finish(h, "unmark", "500")
      BY <1>0, <3>1 DEF Finish, Goto, Tracks, WebhookTracks, TypeOK
    <3>2. CASE /\ incidents' = [incidents EXCEPT ![i] = rec[h]] /\ UNCHANGED <<rec, out>>
               /\ pc' = [pc EXCEPT ![h] = IF rec[h].status = "started" THEN "clearResolved"
                                                                       ELSE "notify"]
      <4>1. /\ incidents'[i] = rec[h] /\ rec'[h] = rec[h] /\ req'[h] = req[h]
            /\ pc'[h] \in {"clearResolved", "notify"}
        BY <1>0, <1>4, <2>1, <3>2 DEF TypeOK
      <4>2. rec[h] # None
        BY <1>5, <1>7, OptionAssumption DEF UpsertRecord
      <4> QED
        BY <1>0, <1>3, <2>1, <2>2, <4>1, <4>2 DEF Tracks, WebhookTracks, Placed, About
    <3> QED
      BY <2>3, <3>1, <3>2
  <2>6. \A k \in Incidents : incidents'[k] = incidents[k] \/ (k = i /\ Placed(incidents[k], k)')
    <3> SUFFICES ASSUME NEW k \in Incidents, incidents'[k] # incidents[k]
                 PROVE  k = i /\ Placed(incidents[k], k)'
      OBVIOUS
    <3>1. k = i /\ incidents'[i] = rec[h]
      BY <1>4, <2>3 DEF TypeOK, Keys
    <3> QED
      BY <2>1, <2>2, <3>1 DEF Placed, About
  <2> QED
    BY <1>0, <1>3, <1>4, <2>1, <2>4, <2>5, <2>6, TaskTracks
<1>8. CASE ClearStaleEvents(h)
  <2>1. UNCHANGED <<messages, incidents, req, rec, out>>
    BY <1>8 DEF ClearStaleEvents, ClearStale, chat
  <2>2. Tracks(h)' /\ \A g \in Handlers \ {h} : Rests(g)
    BY <1>0, <1>3, <1>4, <1>8, <2>1 DEF ClearStaleEvents, ClearStale, Goto, Tracks,
       WebhookTracks, Placed, About, Rests, TypeOK
  <2> QED
    BY <1>0, <2>1, <2>2, OutsideTracks
<1>9. CASE SendIncident(h)
  <2>1. /\ UNCHANGED <<incidents, req>>
        /\ Placed(rec[h], i) /\ rec[h] \in Record
        /\ incidents[i] # None
    BY <1>4, <1>5, <1>9 DEF SendIncident, redis, WebhookTracks
  <2>2. messages' \in {messages, SendMessage(rec[h])}
    BY <1>9 DEF SendIncident
  <2>3. Kept
    BY <2>1, <2>2, SendFacts DEF Kept
  <2>4. \A g \in Handlers \ {h} : Rests(g)
    BY <1>9, <2>1 DEF SendIncident, Finish, Goto, Rests, TypeOK
  <2>5. Tracks(h)'
    <3>1. CASE Finish(h, "release", "200")
      BY <1>0, <3>1 DEF Finish, Goto, Tracks, WebhookTracks, TypeOK
    <3>2. CASE /\ messages' = SendMessage(rec[h])
               /\ rec' = [rec EXCEPT ![h].chat_id = ChatId,
                                     ![h].message_id = Len(messages) + 1]
               /\ Goto(h, "setMessageId")
      <4>1. pc'[h] = "setMessageId" /\ req'[h] = req[h]
        BY <1>0, <2>1, <3>2 DEF Goto, TypeOK
      <4>2. rec'[h].message_id = Len(messages) + 1
        BY <1>0, <2>1, <3>2 DEF TypeOK, Record
      <4>3. About(rec[h].message_id, i)'
        <5>1. View(rec[h]).id = i
          BY <2>1 DEF View, Placed
        <5>2. Len(messages) + 1 \in DOMAIN messages' /\ messages'[Len(messages) + 1] = View(rec[h])
          BY <2>1, <3>2, SendFacts, MessageFacts
        <5> QED
          BY <4>2, <5>1, <5>2 DEF About
      <4> QED
        BY <1>0, <1>3, <2>1, <4>1, <4>3 DEF Tracks, WebhookTracks, About
    <3> QED
      BY <1>9, <3>1, <3>2 DEF SendIncident
  <2> QED
    BY <1>0, <1>4, <2>1, <2>3, <2>4, <2>5, TaskTracks
<1>10. CASE SetMessage(h)
  <2>1. UNCHANGED <<messages, req>> /\ Kept
    BY <1>10 DEF SetMessage, chat, Kept
  <2>2. incidents[i] # None /\ About(rec[h].message_id, i) /\ rec[h] \in Record
    BY <1>4, <1>5, <1>10 DEF SetMessage, WebhookTracks
  <2> DEFINE new == [incidents[i] EXCEPT !.chat_id = rec[h].chat_id,
                                         !.message_id = rec[h].message_id]
  <2>3. incidents' \in {incidents, [incidents EXCEPT ![i] = new]}
    BY <1>3, <1>10, <2>2 DEF SetMessage, SetMessageId, Fields, WriteFails
  <2>4. new.id = i /\ new.message_id = rec[h].message_id
    BY <1>4, <2>2 DEF Placed, Record
  <2> HIDE DEF new
  <2>5. \A k \in Incidents : incidents'[k] = incidents[k] \/ (k = i /\ Placed(incidents[k], k)')
    <3> SUFFICES ASSUME NEW k \in Incidents, incidents'[k] # incidents[k]
                 PROVE  k = i /\ Placed(incidents[k], k)'
      OBVIOUS
    <3>1. k = i /\ incidents'[i] = new
      BY <1>4, <2>3 DEF TypeOK, Keys
    <3> QED
      BY <2>1, <2>2, <2>4, <3>1 DEF Placed, About
  <2>6. Tracks(h)' /\ \A g \in Handlers \ {h} : Rests(g)
    BY <1>0, <1>10, <2>1 DEF SetMessage, Finish, Goto, Tracks, WebhookTracks, Rests, TypeOK
  <2> QED
    BY <1>0, <1>3, <1>4, <2>1, <2>5, <2>6, TaskTracks
<1>11. CASE EditIncident(h)
  <2>1. UNCHANGED <<incidents, req>>
    BY <1>11 DEF EditIncident, redis
  <2>2. Kept
    <3>1. Placed(rec[h], i) /\ rec[h] \in Record /\ rec[h].message_id # None
      BY <1>4, <1>5, <1>11 DEF EditIncident, WebhookTracks
    <3>2. messages' \in {messages, EditMessage(rec[h].message_id, rec[h])}
      BY <1>11 DEF EditIncident
    <3> QED
      BY <3>1, <3>2, EditFacts
  <2>3. Tracks(h)' /\ \A g \in Handlers \ {h} : Rests(g)
    BY <1>0, <1>11, <2>1 DEF EditIncident, Finish, Goto, Tracks, WebhookTracks, Rests, TypeOK
  <2> QED
    BY <1>0, <1>4, <2>1, <2>2, <2>3, TaskTracks
<1> QED
  BY <1>6, <1>7, <1>8, <1>9, <1>10, <1>11 DEF WebhookStep, SkipUnknownEvent, LockIncident,
     MarkEvent, UnmarkFailed, ReleaseAndRespond

\* What set_status makes of a record that is there.
LEMMA SetStatusRecord ==
  ASSUME NEW db \in [Keys -> Record \cup {None}], NEW i \in Keys, NEW status \in Statuses,
         db[i] # None
  PROVE  \E new \in Record : /\ new.id = db[i].id /\ new.status = status
                             /\ new.message_id = db[i].message_id
                             /\ SetStatus(db, i, status) = [db EXCEPT ![i] = new]
<1> DEFINE new == [db[i] EXCEPT !.status = status,
                                !.acknowledged_at = @ \/ status = "acknowledged",
                                !.resolved_at     = @ \/ status = "resolved"]
<1>1. db[i] \in Record
  OBVIOUS
<1>2. new \in Record /\ new.id = db[i].id /\ new.status = status
      /\ new.message_id = db[i].message_id
  BY <1>1 DEF Record
<1>3. SetStatus(db, i, status) = [db EXCEPT ![i] = new]
  BY DEF SetStatus, Fields
<1> QED
  BY <1>2, <1>3

\* What a button asks for is fulfilled by the state machine, at once or already.
LEMMA AskedIsWanted ==
  ASSUME NEW current \in Statuses, NEW action \in {"Acknowledge", "Resolve"}
  PROVE  /\ AskedStatus(action) \in Wanted(action)
         /\ NextStatus(current, ActionTrigger(action)) = current => current \in Wanted(action)
<1>1. ActionTrigger(action) = IF action = "Resolve" THEN "Resolved" ELSE "Acknowledged"
  BY DEF ActionTrigger, ActionEvent, FromEvent, TriggerOf
<1> QED
  BY <1>1 DEF NextStatus, Statuses, AskedStatus, Wanted

LEMMA CallbackTracksStep ==
  ASSUME TypeOK, TrackInv, Exclusive, NEW h \in CallbackHandlers, CallbackStep(h)
  PROVE  TrackInv'
<1>0. h \in Handlers /\ h \notin WebhookHandlers
  BY HandlersAssumption DEF Handlers
<1>1. CASE TakeClick(h)
  <2>1. UNCHANGED <<messages, incidents>>
    BY <1>1 DEF TakeClick, redis
  <2>2. Tracks(h)' /\ \A g \in Handlers \ {h} : Rests(g)
    BY <1>0, <1>1 DEF TakeClick, Goto, Tracks, InCritical, Rests, TypeOK
  <2> QED
    BY <1>0, <2>1, <2>2, OutsideTracks
<1>2. CASE LockForCallback(h) \/ ReleaseAndAnswer(h)
  <2>1. UNCHANGED <<messages, incidents>>
    BY <1>2 DEF LockForCallback, ReleaseAndAnswer, chat
  <2>2. Tracks(h)' /\ \A g \in Handlers \ {h} : Rests(g)
    BY <1>0, <1>2 DEF LockForCallback, ReleaseAndAnswer, Answer, Reset, Goto, Tracks,
       CallbackTracks, InCritical, Rests, TypeOK
  <2> QED
    BY <1>0, <2>1, <2>2, OutsideTracks
<1>3. CASE CallBetterStack(h) \/ RetryCall(h)
  <2>1. UNCHANGED <<messages, incidents>>
    BY <1>3 DEF CallBetterStack, RetryCall, chat, redis
  <2>2. Tracks(h)' /\ \A g \in Handlers \ {h} : Rests(g)
    BY <1>0, <1>3 DEF CallBetterStack, RetryCall, Conclude, Goto, tasks, Tracks,
       CallbackTracks, Rests, TypeOK
  <2> QED
    BY <1>0, <2>1, <2>2, OutsideTracks
<1> SUFFICES ASSUME pc[h] \in {"get", "setStatus", "reget", "edit"} PROVE TrackInv'
  BY <1>1, <1>2, <1>3 DEF CallbackStep, LoadCurrent, StoreStatus, Reload, EditAfterClick
<1>4. PICK i \in Incidents : i = req[h].incident
  BY <1>0, CriticalIncident
<1>5. /\ InCritical(h) /\ CallbackTracks(h, i) /\ i \in Keys
      /\ incidents[i] \in Record \cup {None} /\ (incidents[i] # None => Placed(incidents[i], i))
  BY <1>0, <1>4 DEF InCritical, TrackInv, StoredPlaced, Tracks, TypeOK, Keys
<1>6. PICK action \in {"Acknowledge", "Resolve"} : action = req[h].what
  BY DEF TypeOK, CallbackTaskOK, Presses
<1>7. CASE LoadCurrent(h)
  <2>1. UNCHANGED <<messages, incidents, req>>
    BY <1>7 DEF LoadCurrent, chat, redis
  <2> DEFINE status == NextStatus(incidents[i].status, ActionTrigger(action))
             new == [incidents[i] EXCEPT !.status = status]
  <2>2. \/ /\ incidents[i] # None /\ status # incidents[i].status
           /\ rec' = [rec EXCEPT ![h] = new]
           /\ pc' = [pc EXCEPT ![h] = "setStatus"] /\ UNCHANGED out
        \/ /\ incidents[i] # None /\ status = incidents[i].status
           /\ pc' = [pc EXCEPT ![h] = "reget"] /\ UNCHANGED <<rec, out>>
        \/ Conclude(h, "Alert")
    BY <1>4, <1>6, <1>7 DEF LoadCurrent, Get, Goto
  <2>3. incidents[i] # None => incidents[i].status \in Statuses /\ new.status = status
    BY <1>5 DEF Record
  <2>4. incidents[i] # None /\ status # incidents[i].status => status = AskedStatus(action)
    BY <2>3, AskedReached
  <2>5. incidents[i] # None /\ status = incidents[i].status => Fulfilled(i, action)
    BY <2>3, AskedIsWanted DEF Fulfilled
  <2>6. \A g \in Handlers \ {h} : Rests(g)
    BY <2>1, <2>2 DEF Conclude, Goto, Rests, TypeOK
  <2> HIDE DEF new
  <2>7. Tracks(h)'
    <3>1. CASE Conclude(h, "Alert")
      BY <1>0, <3>1 DEF Conclude, Goto, Tracks, CallbackTracks, TypeOK
    <3>2. CASE /\ incidents[i] # None /\ status # incidents[i].status
               /\ rec' = [rec EXCEPT ![h] = new]
               /\ pc' = [pc EXCEPT ![h] = "setStatus"] /\ UNCHANGED out
      <4>1. pc'[h] = "setStatus" /\ rec'[h] = new /\ req'[h] = req[h]
        BY <1>0, <2>1, <3>2 DEF TypeOK
      <4>2. rec'[h].status = status /\ status = AskedStatus(action)
        BY <2>3, <2>4, <3>2, <4>1
      <4> QED
        BY <1>0, <1>4, <1>6, <2>1, <3>2, <4>1, <4>2 DEF Tracks, CallbackTracks
    <3>3. CASE /\ incidents[i] # None /\ status = incidents[i].status
               /\ pc' = [pc EXCEPT ![h] = "reget"] /\ UNCHANGED <<rec, out>>
      <4>1. pc'[h] = "reget" /\ req'[h] = req[h]
        BY <1>0, <2>1, <3>3 DEF TypeOK
      <4> QED
        BY <1>0, <1>4, <1>6, <2>1, <2>5, <3>3, <4>1 DEF Tracks, CallbackTracks, Fulfilled
    <3> QED
      BY <2>2, <3>1, <3>2, <3>3
  <2> QED
    BY <1>0, <2>1, <2>6, <2>7, OutsideTracks
<1>8. CASE StoreStatus(h)
  <2>1. UNCHANGED <<messages, req>> /\ Kept
    BY <1>8 DEF StoreStatus, chat, Kept
  <2>2. incidents[i] # None /\ incidents[i] \in Record /\ rec[h].status = AskedStatus(action)
    BY <1>5, <1>6, <1>8 DEF StoreStatus, CallbackTracks
  <2>3. PICK new \in Record : /\ new.id = i /\ new.status = rec[h].status
                              /\ new.message_id = incidents[i].message_id
                              /\ SetStatus(incidents, i, rec[h].status) = [incidents EXCEPT ![i] = new]
    <3>1. rec[h].status \in Statuses /\ incidents \in [Keys -> Record \cup {None}]
      BY <1>8 DEF StoreStatus, TypeOK, CallbackTaskOK, Record
    <3> QED
      BY <1>5, <2>2, <3>1, SetStatusRecord DEF Placed
  <2>4. \/ /\ incidents' = [incidents EXCEPT ![i] = new] /\ UNCHANGED out
           /\ pc' = [pc EXCEPT ![h] = "reget"] /\ rec' = [rec EXCEPT ![h] = None]
        \/ /\ incidents' \in {incidents, [incidents EXCEPT ![i] = new]}
           /\ Conclude(h, "Alert")
    BY <1>4, <1>8, <2>3 DEF StoreStatus, WriteFails, Goto
  <2>5. \A g \in Handlers \ {h} : Rests(g)
    BY <2>1, <2>4 DEF Conclude, Goto, Rests, TypeOK
  <2>6. \A k \in Incidents : incidents'[k] = incidents[k] \/ (k = i /\ Placed(incidents[k], k)')
    <3> SUFFICES ASSUME NEW k \in Incidents, incidents'[k] # incidents[k]
                 PROVE  k = i /\ Placed(incidents[k], k)'
      OBVIOUS
    <3>1. k = i /\ incidents'[i] = new
      BY <1>5, <2>4 DEF TypeOK, Keys
    <3> QED
      BY <1>5, <2>1, <2>2, <2>3, <3>1 DEF Placed, About
  <2>7. Tracks(h)'
    <3>1. CASE Conclude(h, "Alert")
      BY <1>0, <3>1 DEF Conclude, Goto, Tracks, CallbackTracks, TypeOK
    <3>2. CASE /\ incidents' = [incidents EXCEPT ![i] = new]
               /\ pc' = [pc EXCEPT ![h] = "reget"]
      <4>1. pc'[h] = "reget" /\ req'[h] = req[h] /\ incidents'[i] = new
        BY <1>0, <1>5, <2>1, <3>2 DEF TypeOK
      <4>2. new # None /\ new.status \in Wanted(action)
        BY <2>2, <2>3, AskedIsWanted, OptionAssumption DEF Statuses
      <4> QED
        BY <1>0, <1>4, <1>6, <4>1, <4>2 DEF Tracks, CallbackTracks, Fulfilled
    <3> QED
      BY <2>4, <3>1, <3>2
  <2> QED
    BY <1>0, <1>4, <1>5, <2>1, <2>5, <2>6, <2>7, TaskTracks
<1>9. CASE Reload(h)
  <2>1. UNCHANGED <<messages, incidents, req>>
    BY <1>9 DEF Reload, chat, redis
  <2>2. \/ /\ incidents[i] # None /\ incidents[i].message_id # None
           /\ rec' = [rec EXCEPT ![h] = incidents[i]]
           /\ pc' = [pc EXCEPT ![h] = "edit"] /\ UNCHANGED out
        \/ Conclude(h, "Success") \/ Conclude(h, "Alert")
    BY <1>4, <1>9 DEF Reload, Get, Goto
  <2>3. Fulfilled(i, action) /\ (incidents[i] # None => Placed(incidents[i], i))
    BY <1>5, <1>6, <1>9 DEF Reload, CallbackTracks
  <2>4. \A g \in Handlers \ {h} : Rests(g)
    BY <2>1, <2>2 DEF Conclude, Goto, Rests, TypeOK
  <2>5. Tracks(h)'
    <3>1. CASE Conclude(h, "Success") \/ Conclude(h, "Alert")
      BY <1>0, <1>4, <1>6, <2>1, <2>3, <3>1 DEF Conclude, Goto, Tracks, CallbackTracks,
         Fulfilled, TypeOK
    <3>2. CASE /\ incidents[i] # None /\ incidents[i].message_id # None
               /\ rec' = [rec EXCEPT ![h] = incidents[i]]
               /\ pc' = [pc EXCEPT ![h] = "edit"]
      <4>1. pc'[h] = "edit" /\ req'[h] = req[h] /\ rec'[h] = incidents[i]
        BY <1>0, <2>1, <3>2 DEF TypeOK
      <4> QED
        BY <1>0, <1>4, <1>6, <2>1, <2>3, <3>2, <4>1 DEF Tracks, CallbackTracks, Fulfilled,
           Placed, About
    <3> QED
      BY <2>2, <3>1, <3>2
  <2> QED
    BY <1>0, <2>1, <2>4, <2>5, OutsideTracks
<1>10. CASE EditAfterClick(h)
  <2>1. UNCHANGED <<incidents, req>> /\ Conclude(h, "Success")
    BY <1>10 DEF EditAfterClick, redis
  <2>2. /\ Placed(rec[h], i) /\ rec[h].message_id # None /\ rec[h] \in Record
        /\ Fulfilled(i, action)
    BY <1>5, <1>6, <1>10 DEF EditAfterClick, CallbackTracks, TypeOK, CallbackTaskOK
  <2>3. Kept
    <3>1. messages' \in {messages, EditMessage(rec[h].message_id, rec[h])}
      BY <1>10 DEF EditAfterClick
    <3> QED
      BY <2>2, <3>1, EditFacts
  <2>4. Tracks(h)' /\ \A g \in Handlers \ {h} : Rests(g)
    BY <1>0, <1>4, <1>6, <2>1, <2>2 DEF Conclude, Goto, Tracks, CallbackTracks, Fulfilled,
       Rests, TypeOK
  <2> QED
    BY <1>0, <1>5, <2>1, <2>3, <2>4, TaskTracks
<1> QED
  BY <1>7, <1>8, <1>9, <1>10 DEF CallbackStep, TakeClick, LockForCallback, CallBetterStack,
     RetryCall, ReleaseAndAnswer

LEMMA TrackNext ==
  ASSUME TypeOK, TrackInv, LockHeld, Calm, Calm', [Next]_vars
  PROVE  TrackInv'
<1>1. Exclusive
  BY DEF LockHeld, Calm, Exclusive
<1>2. CASE UNCHANGED vars
  BY <1>2, TrackStep DEF vars, chat, redis, tasks, Rests, Kept
<1> QED
  BY <1>1, <1>2, EnvironmentTracks, WebhookTracksStep, CallbackTracksStep DEF Next

-----------------------------------------------------------------------------
(***************************************************************************)
(* The refinement.  What Sync sees of the state.                           *)
(***************************************************************************)
Status == [i \in Incidents |-> StoredStatus(i)]
Shown  == [m \in DOMAIN messages |-> [id |-> messages[m].id, status |-> messages[m].status]]

LEMMA SameOperators ==
  /\ \A current, trigger : Sync!NextStatus(current, trigger) = NextStatus(current, trigger)
  /\ \A event : Sync!FromEvent(event) = FromEvent(event)
  /\ Sync!Events = Events /\ Sync!Triggers = Triggers
BY DEF Sync!NextStatus, NextStatus, Sync!FromEvent, FromEvent, Sync!TriggerOf, TriggerOf,
   Sync!Events, Events, Sync!Triggers, Triggers

LEMMA SyncQuiet ==
  ASSUME UNCHANGED <<timeline, Status, Shown>>
  PROVE  UNCHANGED Sync!vars
BY DEF Sync!vars, Status, Shown

LEMMA SyncHappens ==
  ASSUME NEW i \in Incidents, NEW event \in Events,
         timeline' = [timeline EXCEPT ![i] = Append(timeline[i], event)],
         UNCHANGED <<Status, Shown>>
  PROVE  Sync!Next
<1>1. Sync!Happen(i, event)
  BY DEF Sync!Happen, Status, Shown
<1> QED
  BY <1>1, SameOperators DEF Sync!Next

LEMMA SyncApplies ==
  ASSUME TypeOK, NEW i \in Incidents, NEW trigger \in Triggers, Sync!Justified(i, trigger),
         Status' = [Status EXCEPT ![i] = NextStatus(Held(i), trigger)],
         UNCHANGED <<timeline, Shown>>
  PROVE  Sync!Next
<1>1. Sync!Current(i) = Held(i)
  <2>1. Status[i] = StoredStatus(i)
    BY DEF Status
  <2>2. incidents[i] # None => incidents[i].status # None
    BY OptionAssumption DEF TypeOK, Keys, Record
  <2> QED
    BY <2>2 DEF Sync!Current, StoredStatus, Held
<1>2. Sync!Apply(i, trigger)
  BY <1>1, SameOperators DEF Sync!Apply, Status, Shown
<1> QED
  BY <1>2, SameOperators DEF Sync!Next

LEMMA SyncShows ==
  ASSUME NEW i \in Incidents, Status[i] # None,
         LET view == [id |-> i, status |-> Status[i]] IN
           \/ Shown' = Append(Shown, view)
           \/ \E m \in DOMAIN Shown : Shown[m].id = i /\ Shown' = [Shown EXCEPT ![m] = view],
         UNCHANGED <<timeline, Status>>
  PROVE  Sync!Next
<1>1. Sync!Show(i)
  BY DEF Sync!Show, Status, Shown
<1> QED
  BY <1>1 DEF Sync!Next

\* Writes that leave the status, and messages that stay as they are.
LEMMA StatusSame ==
  ASSUME \A i \in Incidents : \/ incidents'[i] = incidents[i]
                              \/ /\ incidents[i] # None /\ incidents'[i] # None
                                 /\ incidents'[i].status = incidents[i].status
  PROVE  Status' = Status
BY DEF Status, StoredStatus

LEMMA ShownSame ==
  ASSUME DOMAIN messages' = DOMAIN messages,
         \A m \in DOMAIN messages : /\ messages'[m].id = messages[m].id
                                    /\ messages'[m].status = messages[m].status
  PROVE  Shown' = Shown
BY DEF Shown

LEMMA StatusWritten ==
  ASSUME TypeOK, NEW i \in Incidents, NEW r \in Record,
         incidents' = [incidents EXCEPT ![i] = r]
  PROVE  Status' = [Status EXCEPT ![i] = r.status]
<1>1. \A k \in Incidents : incidents'[k] = IF k = i THEN r ELSE incidents[k]
  BY DEF TypeOK, Keys
<1>2. r # None
  BY OptionAssumption
<1>3. \A k \in Incidents : StoredStatus(k)' = IF k = i THEN r.status ELSE StoredStatus(k)
  BY <1>1, <1>2 DEF StoredStatus
<1> QED
  BY <1>3 DEF Status

LEMMA AbstractSeq ==
  ASSUME NEW S, NEW n \in Nat, NEW f \in [1 .. n -> S]
  PROVE  f \in Seq(S) /\ Len(f) = n
<1>1. f \in Seq(S)
  BY SeqDef
<1> QED
  BY <1>1, LenProperties

\* What is sent or edited by a task whose record is the stored one.
LEMMA ViewShown ==
  ASSUME TypeOK, NEW i \in Incidents, NEW r \in Record, Placed(r, i),
         incidents[i] # None, incidents[i].status = r.status,
         \/ messages' = SendMessage(r)
         \/ r.message_id # None /\ messages' = EditMessage(r.message_id, r),
         UNCHANGED <<timeline, incidents>>
  PROVE  Sync!Next \/ UNCHANGED <<timeline, Status, Shown>>
<1> DEFINE view == [id |-> i, status |-> Status[i]]
<1>1. Status' = Status /\ Status[i] = r.status /\ Status[i] # None
  <2>1. r.status # None
    BY OptionAssumption DEF Record
  <2> QED
    BY <2>1 DEF Status, StoredStatus
<1>2. View(r).id = i /\ View(r).status = Status[i] /\ r.id = i
  BY <1>1 DEF View, Placed
<1>3. CASE messages' = SendMessage(r)
  <2>1. /\ Len(messages) \in Nat /\ DOMAIN messages = 1 .. Len(messages)
        /\ DOMAIN messages' = 1 .. (Len(messages) + 1)
        /\ \A m \in DOMAIN messages : messages'[m] = messages[m] /\ messages[m] \in Views
        /\ messages'[Len(messages) + 1] = View(r)
    BY <1>3, MessageFacts, SendFacts
  <2> DEFINE Abs == [id : Keys, status : Statuses]
             n == Len(messages)
  <2>2. Shown \in [1 .. n -> Abs] /\ n \in Nat
    BY <2>1 DEF Shown, Views
  <2>3. Shown \in Seq(Abs) /\ Len(Shown) = n
    BY <2>2, AbstractSeq
  <2>4. view \in Abs
    BY <1>1 DEF Record, Keys
  <2>5. Shown' \in [1 .. (n + 1) -> Abs]
    BY <1>2, <2>1, <2>4 DEF Shown, Views
  <2> HIDE DEF Abs, view
  <2>6. /\ Append(Shown, view) \in Seq(Abs) /\ Len(Append(Shown, view)) = n + 1
        /\ \A m \in 1 .. n : Append(Shown, view)[m] = Shown[m]
        /\ Append(Shown, view)[n + 1] = view
    BY <2>3, <2>4, AppendProperties
  <2>7. Append(Shown, view) \in [1 .. (n + 1) -> Abs]
    BY <2>6, LenProperties
  <2>8. \A m \in 1 .. (n + 1) : Shown'[m] = Append(Shown, view)[m]
    BY <1>2, <2>1, <2>2, <2>6 DEF Shown, view
  <2>9. Shown' = Append(Shown, view)
    BY <2>5, <2>7, <2>8
  <2> QED
    BY <1>1, <2>9, SyncShows DEF view
<1>4. CASE r.message_id # None /\ messages' = EditMessage(r.message_id, r)
  <2>1. r.message_id \in DOMAIN messages /\ messages[r.message_id].id = i
    BY <1>4 DEF Placed, About
  <2>2. CASE messages' = messages
    BY <1>1, <2>2 DEF Shown
  <2>3. CASE messages' = [messages EXCEPT ![r.message_id] = View(r)]
    <3>1. r.message_id \in DOMAIN Shown /\ Shown[r.message_id].id = i
      BY <2>1 DEF Shown
    <3>2. Shown' = [Shown EXCEPT ![r.message_id] = view]
      BY <1>2, <2>1, <2>3 DEF Shown
    <3> QED
      BY <1>1, <3>1, <3>2, SyncShows
  <2> QED
    BY <1>4, <2>2, <2>3 DEF EditMessage
<1> QED
  BY <1>3, <1>4

-----------------------------------------------------------------------------
(***************************************************************************)
(* Steps.  Only two writes change a stored status, and both from the value *)
(* that is stored at that moment.                                          *)
(***************************************************************************)
Applies(i, trigger) == /\ Status' = [Status EXCEPT ![i] = NextStatus(Held(i), trigger)]
                       /\ UNCHANGED <<timeline, messages>>

LEMMA EnvironmentWrites ==
  ASSUME TypeOK, Calm', Environment
  PROVE  Status' = Status
<1>1. ASSUME NEW i \in Incidents, RecordExpires(i) PROVE FALSE
  <2>1. spent["recordTtl"] \in Nat /\ spent'["recordTtl"] = spent["recordTtl"] + 1
    BY <1>1 DEF RecordExpires, Spend, TypeOK, Kinds, Faults
  <2> QED
    BY <2>1 DEF Calm
<1>2. UNCHANGED incidents
  BY <1>1 DEF Environment, Happen, Deliver, GiveUp, Click, DeleteMessage, OrphanedLockExpires,
     LeaseLost, DedupExpires, Crash, redis
<1> QED
  BY <1>2, StatusSame

LEMMA WebhookWrites ==
  ASSUME TypeOK, TrackInv, NEW h \in WebhookHandlers, WebhookStep(h)
  PROVE  \/ Status' = Status
         \/ /\ pc[h] = "upsert"
            /\ Applies(req[h].incident, FromEvent(req[h].what))
<1>0. h \in Handlers /\ h \notin CallbackHandlers
  BY HandlersAssumption DEF Handlers
<1>1. CASE UNCHANGED incidents
  BY <1>1, StatusSame
<1> SUFFICES ASSUME UpsertRecord(h) \/ SetMessage(h)
             PROVE  \/ Status' = Status
                    \/ /\ pc[h] = "upsert"
                       /\ Applies(req[h].incident, FromEvent(req[h].what))
  BY <1>1 DEF WebhookStep, SkipUnknownEvent, LockIncident, MarkEvent, LoadRecord,
     ClearStaleEvents, ClearStale, SendIncident, EditIncident, UnmarkFailed,
     ReleaseAndRespond, redis
<1>2. pc[h] \in {"upsert", "setMessageId"} /\ rec[h] \in Record
  BY DEF UpsertRecord, SetMessage, TypeOK, WebhookTaskOK
<1>3. PICK i \in Incidents : i = req[h].incident
  BY <1>0, <1>2, CriticalIncident
<1>4. /\ WebhookTracks(h, i) /\ i \in Keys /\ incidents[i] \in Record \cup {None}
  BY <1>0, <1>2, <1>3 DEF InCritical, TrackInv, Tracks, TypeOK, Keys
<1>5. CASE UpsertRecord(h)
  <2>1. /\ rec[h].id = i /\ rec[h].status = NextStatus(Held(i), FromEvent(req[h].what))
        /\ UNCHANGED <<timeline, messages>>
        /\ pc[h] = "upsert"
    BY <1>4, <1>5 DEF UpsertRecord, WebhookTracks, Placed, upstream, chat
  <2>2. incidents' \in {incidents, [incidents EXCEPT ![i] = rec[h]]}
    BY <1>5, <2>1 DEF UpsertRecord, Upsert
  <2>3. CASE incidents' = [incidents EXCEPT ![i] = rec[h]]
    <3>1. Status' = [Status EXCEPT ![i] = rec[h].status]
      BY <1>2, <2>3, StatusWritten
    <3> QED
      BY <1>3, <2>1, <3>1 DEF Applies
  <2> QED
    BY <1>1, <2>2, <2>3
<1>6. CASE SetMessage(h)
  <2>1. incidents[i] # None /\ incidents[i] \in Record
    BY <1>4, <1>6 DEF SetMessage, WebhookTracks
  <2> DEFINE new == [incidents[i] EXCEPT !.chat_id = rec[h].chat_id,
                                         !.message_id = rec[h].message_id]
  <2>2. incidents' \in {incidents, [incidents EXCEPT ![i] = new]}
    BY <1>3, <1>6, <2>1 DEF SetMessage, SetMessageId, Fields, WriteFails
  <2>3. new \in Record /\ new.status = incidents[i].status
    BY <1>2, <2>1 DEF Record
  <2> HIDE DEF new
  <2>4. new # None
    BY <2>3, OptionAssumption
  <2>5. \A k \in Incidents : \/ incidents'[k] = incidents[k]
                              \/ /\ incidents[k] # None /\ incidents'[k] # None
                                 /\ incidents'[k].status = incidents[k].status
    BY <1>4, <2>1, <2>2, <2>3, <2>4 DEF TypeOK, Keys
  <2> QED
    BY <2>5, StatusSame
<1> QED
  BY <1>5, <1>6

LEMMA CallbackWrites ==
  ASSUME TypeOK, TrackInv, NEW h \in CallbackHandlers, CallbackStep(h)
  PROVE  \/ Status' = Status
         \/ /\ pc[h] = "setStatus"
            /\ Applies(req[h].incident, ActionTrigger(req[h].what))
<1>0. h \in Handlers /\ h \notin WebhookHandlers
  BY HandlersAssumption DEF Handlers
<1>1. CASE UNCHANGED incidents
  BY <1>1, StatusSame
<1> SUFFICES ASSUME StoreStatus(h)
             PROVE  \/ Status' = Status
                    \/ /\ pc[h] = "setStatus"
                       /\ Applies(req[h].incident, ActionTrigger(req[h].what))
  BY <1>1 DEF CallbackStep, TakeClick, LockForCallback, CallBetterStack, RetryCall,
     LoadCurrent, Reload, EditAfterClick, ReleaseAndAnswer, redis
<1>2. pc[h] = "setStatus" /\ rec[h] \in Record /\ UNCHANGED <<timeline, messages>>
  BY DEF StoreStatus, TypeOK, CallbackTaskOK, upstream, chat
<1>3. PICK i \in Incidents : i = req[h].incident
  BY <1>0, <1>2, CriticalIncident
<1>4. /\ CallbackTracks(h, i) /\ i \in Keys /\ incidents \in [Keys -> Record \cup {None}]
  BY <1>0, <1>2, <1>3 DEF InCritical, TrackInv, Tracks, TypeOK, Keys
<1>5. /\ incidents[i] # None
      /\ rec[h].status = NextStatus(Held(i), ActionTrigger(req[h].what))
  BY <1>2, <1>4 DEF CallbackTracks, Held
<1>6. PICK new \in Record : /\ new.id = incidents[i].id /\ new.status = rec[h].status
                            /\ new.message_id = incidents[i].message_id
                            /\ SetStatus(incidents, i, rec[h].status) = [incidents EXCEPT ![i] = new]
  <2>1. rec[h].status \in Statuses /\ i \in Keys /\ incidents[i] # None
    BY <1>2, <1>4, <1>5 DEF Record
  <2>2. PICK status \in Statuses : status = rec[h].status
    BY <2>1
  <2>3. \E new \in Record : /\ new.id = incidents[i].id /\ new.status = status
                            /\ new.message_id = incidents[i].message_id
                            /\ SetStatus(incidents, i, status) = [incidents EXCEPT ![i] = new]
    BY <1>4, <2>1, SetStatusRecord
  <2> QED
    BY <2>2, <2>3
<1>7. incidents' \in {incidents, [incidents EXCEPT ![i] = new]}
  BY <1>3, <1>6 DEF StoreStatus, WriteFails
<1>8. CASE incidents' = [incidents EXCEPT ![i] = new]
  <2>1. Status' = [Status EXCEPT ![i] = new.status]
    BY <1>8, StatusWritten
  <2> QED
    BY <1>2, <1>3, <1>5, <1>6, <2>1 DEF Applies
<1> QED
  BY <1>1, <1>7, <1>8

-----------------------------------------------------------------------------
(***************************************************************************)
(* What justifies them.                                                    *)
(***************************************************************************)
LEMMA EventJustifies ==
  ASSUME NEW i \in Incidents, NEW event \in Happened(timeline[i])
  PROVE  Sync!Justified(i, FromEvent(event))
BY SameOperators DEF Sync!Justified, Sync!Triggered, Happened

LEMMA ActionJustified ==
  ASSUME NEW i \in Incidents, NEW action \in {"Acknowledge", "Resolve"},
         Reached(timeline[i], AskedStatus(action))
  PROVE  Sync!Justified(i, ActionTrigger(action)) /\ ActionTrigger(action) \in Triggers
<1>1. ActionTrigger(action) = IF action = "Resolve" THEN "Resolved" ELSE "Acknowledged"
  BY DEF ActionTrigger, ActionEvent, FromEvent, TriggerOf
<1>2. /\ FromEvent("incident_resolved") = "Resolved"
      /\ FromEvent("incident_acknowledged") = "Acknowledged"
  BY DEF FromEvent, TriggerOf
<1>3. /\ "incident_resolved" \in Happened(timeline[i]) => "Resolved" \in Sync!Triggered(i)
      /\ "incident_acknowledged" \in Happened(timeline[i]) => "Acknowledged" \in Sync!Triggered(i)
  BY <1>2, SameOperators DEF Sync!Triggered, Happened
<1>4. CASE action = "Resolve"
  BY <1>1, <1>3, <1>4 DEF Reached, AskedStatus, Sync!Justified, Triggers
<1>5. CASE action = "Acknowledge"
  <2>1. Happened(timeline[i]) \cap {"incident_acknowledged", "incident_resolved"} # {}
    BY <1>5 DEF Reached, AskedStatus
  <2> QED
    BY <1>1, <1>3, <1>5, <2>1 DEF Sync!Justified, Triggers
<1> QED
  BY <1>4, <1>5

-----------------------------------------------------------------------------
(***************************************************************************)
(* Every step is a step of Sync, or one that Sync does not see.            *)
(***************************************************************************)
Follows == Sync!Next \/ UNCHANGED <<timeline, Status, Shown>>

LEMMA EnvironmentFollows ==
  ASSUME TypeOK, Calm', Environment
  PROVE  Follows
<1>1. Status' = Status
  BY EnvironmentWrites
<1>2. CASE \E i \in Incidents, event \in Events : Happen(i, event)
  <2> PICK i \in Incidents, event \in Events : Happen(i, event)
    BY <1>2
  <2>1. /\ timeline' = [timeline EXCEPT ![i] = Append(timeline[i], event)]
        /\ messages' = messages
    BY DEF Happen, Log, chat
  <2>2. Shown' = Shown
    BY <2>1 DEF Shown
  <2> QED
    BY <1>1, <2>1, <2>2, SyncHappens DEF Follows
<1>3. CASE \E m \in DOMAIN messages : DeleteMessage(m)
  <2> PICK m \in DOMAIN messages : DeleteMessage(m)
    BY <1>3
  <2>1. messages[m] \in Views /\ timeline' = timeline
    BY MessageFacts DEF DeleteMessage, upstream
  <2>2. /\ DOMAIN messages' = DOMAIN messages
        /\ \A n \in DOMAIN messages : /\ messages'[n].id = messages[n].id
                                       /\ messages'[n].status = messages[n].status
    BY <2>1 DEF DeleteMessage, Views
  <2> QED
    BY <1>1, <2>1, <2>2, ShownSame DEF Follows
<1>4. CASE UNCHANGED <<timeline, messages>>
  BY <1>1, <1>4 DEF Follows, Shown
<1> QED
  BY <1>2, <1>3, <1>4 DEF Environment, Deliver, GiveUp, Click, OrphanedLockExpires,
     LeaseLost, RecordExpires, DedupExpires, Crash, upstream, chat

LEMMA WebhookFollows ==
  ASSUME TypeOK, TrackInv, BackedInv, NEW h \in WebhookHandlers, WebhookStep(h)
  PROVE  Follows
<1>0. h \in Handlers /\ h \notin CallbackHandlers
  BY HandlersAssumption DEF Handlers
<1>1. CASE /\ pc[h] = "upsert"
           /\ Applies(req[h].incident, FromEvent(req[h].what))
  <2>1. PICK i \in Incidents : i = req[h].incident
    BY <1>0, <1>1, CriticalIncident
  <2>2. PICK event \in Events : event = req[h].what
    BY <1>1 DEF TypeOK, WebhookTaskOK, Webhooks
  <2>3. event \in Happened(timeline[i]) /\ FromEvent(event) # None
    BY <1>0, <1>1, <2>1, <2>2 DEF BackedInv, Backed, WebhookBacked
  <2>4. FromEvent(event) \in Triggers
    BY <2>3 DEF FromEvent, TriggerOf, Triggers
  <2>5. /\ Status' = [Status EXCEPT ![i] = NextStatus(Held(i), FromEvent(event))]
        /\ UNCHANGED <<timeline, messages>>
    BY <1>1, <2>1, <2>2 DEF Applies
  <2>6. Shown' = Shown
    BY <2>5 DEF Shown
  <2> QED
    BY <2>3, <2>4, <2>5, <2>6, EventJustifies, SyncApplies DEF Follows
<1> SUFFICES ASSUME Status' = Status PROVE Follows
  BY <1>1, WebhookWrites
<1>2. timeline' = timeline
  BY DEF WebhookStep, SkipUnknownEvent, LockIncident, MarkEvent, LoadRecord, UpsertRecord,
     ClearStaleEvents, ClearStale, SendIncident, SetMessage, EditIncident, UnmarkFailed,
     ReleaseAndRespond, upstream
<1>3. CASE messages' = messages
  BY <1>2, <1>3 DEF Follows, Shown
<1> SUFFICES ASSUME messages' # messages, SendIncident(h) \/ EditIncident(h)
             PROVE  Follows
  BY <1>3 DEF WebhookStep, SkipUnknownEvent, LockIncident, MarkEvent, LoadRecord,
     UpsertRecord, ClearStaleEvents, ClearStale, SetMessage, UnmarkFailed,
     ReleaseAndRespond, chat
<1>4. pc[h] = "notify" /\ rec[h] \in Record /\ UNCHANGED incidents
  BY DEF SendIncident, EditIncident, TypeOK, WebhookTaskOK, redis
<1>5. PICK i \in Incidents : i = req[h].incident
  BY <1>0, <1>4, CriticalIncident
<1>6. Placed(rec[h], i) /\ incidents[i] # None /\ incidents[i].status = rec[h].status
  BY <1>0, <1>4, <1>5 DEF InCritical, TrackInv, Tracks, WebhookTracks
<1>7. \/ messages' = SendMessage(rec[h])
      \/ rec[h].message_id # None /\ messages' = EditMessage(rec[h].message_id, rec[h])
  BY DEF SendIncident, EditIncident
<1> QED
  BY <1>2, <1>4, <1>6, <1>7, ViewShown DEF Follows

LEMMA CallbackFollows ==
  ASSUME TypeOK, TrackInv, BackedInv, NEW h \in CallbackHandlers, CallbackStep(h)
  PROVE  Follows
<1>0. h \in Handlers /\ h \notin WebhookHandlers
  BY HandlersAssumption DEF Handlers
<1>1. ASSUME pc[h] # "idle"
      PROVE  /\ req[h].incident \in Incidents
             /\ req[h].what \in {"Acknowledge", "Resolve"}
             /\ CallbackBacked(h)
  BY <1>0, <1>1 DEF TypeOK, CallbackTaskOK, Presses, BackedInv, Backed
<1>2. CASE /\ pc[h] = "setStatus"
           /\ Applies(req[h].incident, ActionTrigger(req[h].what))
  <2>1. PICK i \in Incidents : i = req[h].incident
    BY <1>1, <1>2
  <2>2. PICK action \in {"Acknowledge", "Resolve"} : action = req[h].what
    BY <1>1, <1>2
  <2>3. Reached(timeline[i], rec[h].status) /\ rec[h].status = AskedStatus(action)
    BY <1>0, <1>1, <1>2, <2>1, <2>2 DEF CallbackBacked, TrackInv, Tracks, InCritical,
       CallbackTracks
  <2>4. /\ Status' = [Status EXCEPT ![i] = NextStatus(Held(i), ActionTrigger(action))]
        /\ UNCHANGED <<timeline, messages>>
    BY <1>2, <2>1, <2>2 DEF Applies
  <2>5. Shown' = Shown
    BY <2>4 DEF Shown
  <2>6. Sync!Justified(i, ActionTrigger(action)) /\ ActionTrigger(action) \in Triggers
    BY <2>3, ActionJustified
  <2> QED
    BY <2>4, <2>5, <2>6, SyncApplies DEF Follows
<1> SUFFICES ASSUME Status' = Status PROVE Follows
  BY <1>2, CallbackWrites
<1>3. CASE CallBetterStack(h) \/ RetryCall(h)
  <2>1. PICK i \in Incidents : i = req[h].incident
    BY <1>1, <1>3 DEF CallBetterStack, RetryCall
  <2>2. PICK event \in Events : event = ActionEvent[req[h].what]
    BY <1>1, <1>3 DEF CallBetterStack, RetryCall, ActionEvent, Events
  <2>3. messages' = messages /\ Shown' = Shown
    BY <1>3 DEF CallBetterStack, RetryCall, chat, Shown
  <2>4. \/ timeline' = [timeline EXCEPT ![i] = Append(timeline[i], event)]
        \/ timeline' = timeline
    BY <1>3, <2>1, <2>2 DEF CallBetterStack, RetryCall, Accepted, Log, upstream
  <2> QED
    BY <2>3, <2>4, SyncHappens DEF Follows
<1>4. CASE EditAfterClick(h)
  <2>1. pc[h] = "edit" /\ rec[h] \in Record /\ UNCHANGED <<timeline, incidents>>
    BY <1>4 DEF EditAfterClick, TypeOK, CallbackTaskOK, redis, upstream
  <2>2. PICK i \in Incidents : i = req[h].incident
    BY <1>1, <2>1
  <2>3. /\ Placed(rec[h], i) /\ rec[h].message_id # None
        /\ incidents[i] # None /\ incidents[i].status = rec[h].status
    BY <1>0, <2>1, <2>2 DEF InCritical, TrackInv, Tracks, CallbackTracks, Fulfilled
  <2>4. messages' \in {messages, EditMessage(rec[h].message_id, rec[h])}
    BY <1>4 DEF EditAfterClick
  <2>5. CASE messages' = messages
    BY <2>1, <2>5 DEF Follows, Shown
  <2>6. CASE messages' = EditMessage(rec[h].message_id, rec[h])
    BY <2>1, <2>3, <2>6, ViewShown DEF Follows
  <2> QED
    BY <2>4, <2>5, <2>6
<1>5. CASE UNCHANGED <<timeline, messages>>
  BY <1>5 DEF Follows, Shown
<1> QED
  BY <1>3, <1>4, <1>5 DEF CallbackStep, TakeClick, LockForCallback, LoadCurrent, StoreStatus,
     Reload, ReleaseAndAnswer, upstream, chat

LEMMA StepsFollow ==
  ASSUME TypeOK, TrackInv, BackedInv, Calm', [Next]_vars
  PROVE  [Sync!Next]_(Sync!vars)
<1>1. CASE UNCHANGED vars
  BY <1>1, SyncQuiet DEF vars, upstream, chat, redis, Status, Shown, StoredStatus
<1>2. CASE Next
  <2>1. Follows
    BY <1>2, EnvironmentFollows, WebhookFollows, CallbackFollows DEF Next
  <2> QED
    BY <2>1, SyncQuiet DEF Follows
<1> QED
  BY <1>1, <1>2

LEMMA SyncInit == Init => Sync!Init
BY DEF Init, WorldInit, Sync!Init, StoredStatus, Keys

\* A trigger other than Reopened leaves a resolved incident resolved.
LEMMA ResolvedStays ==
  ASSUME NEW trigger, NextStatus("resolved", trigger) # "resolved"
  PROVE  trigger = "Reopened"
BY DEF NextStatus

LEMMA OnlyReopenStep ==
  ASSUME TypeOK, TrackInv, BackedInv, Calm', [Next]_vars, NEW i \in Incidents,
         StoredStatus(i) = "resolved", StoredStatus(i)' # "resolved"
  PROVE  \E h \in WebhookHandlers : /\ pc[h] = "upsert" /\ Working(h, i)
                                    /\ req[h].what = "incident_reopened"
<1>1. Status' # Status
  <2>1. Status[i] = StoredStatus(i) /\ Status'[i] = StoredStatus(i)'
    BY DEF Status
  <2> QED
    BY <2>1
<1>2. Held(i) = "resolved"
  BY OptionAssumption DEF Held, StoredStatus, Statuses
<1>3. ASSUME NEW k \in Incidents, NEW trigger, Applies(k, trigger)
      PROVE  k = i /\ trigger = "Reopened"
  <2>1. \A j \in Incidents : StoredStatus(j)' = IF j = k THEN NextStatus(Held(k), trigger)
                                                        ELSE StoredStatus(j)
    <3>1. Status' = [Status EXCEPT ![k] = NextStatus(Held(k), trigger)]
      BY <1>3 DEF Applies
    <3>2. \A j \in Incidents : Status[j] = StoredStatus(j) /\ Status'[j] = StoredStatus(j)'
      BY DEF Status
    <3> QED
      BY <3>1, <3>2 DEF Status
  <2> QED
    BY <1>2, <2>1, ResolvedStays
<1>4. ASSUME NEW h \in CallbackHandlers, CallbackStep(h) PROVE FALSE
  <2>1. /\ pc[h] = "setStatus"
        /\ Applies(req[h].incident, ActionTrigger(req[h].what))
    BY <1>1, <1>4, CallbackWrites
  <2>2. req[h].incident \in Incidents /\ req[h].what \in {"Acknowledge", "Resolve"}
    BY <2>1 DEF TypeOK, CallbackTaskOK, Presses
  <2>3. ActionTrigger(req[h].what) = "Reopened"
    BY <1>3, <2>1, <2>2
  <2> QED
    BY <2>2, <2>3 DEF ActionTrigger, ActionEvent, FromEvent, TriggerOf
<1>5. ASSUME NEW h \in WebhookHandlers, WebhookStep(h)
      PROVE  /\ pc[h] = "upsert" /\ Working(h, i)
             /\ req[h].what = "incident_reopened"
  <2>1. /\ pc[h] = "upsert"
        /\ Applies(req[h].incident, FromEvent(req[h].what))
    BY <1>1, <1>5, WebhookWrites
  <2>2. req[h].incident \in Incidents /\ req[h].what \in Events
    BY <2>1 DEF TypeOK, WebhookTaskOK, Webhooks
  <2>3. req[h].incident = i /\ FromEvent(req[h].what) = "Reopened"
    BY <1>3, <2>1, <2>2
  <2>4. req[h].what = "incident_reopened"
    <3>1. FromEvent("comment") = None
      BY DEF FromEvent, TriggerOf
    <3>2. FromEvent(req[h].what) # None
      <4>1. h \in Handlers
        BY DEF Handlers
      <4> QED
        BY <2>1, <4>1 DEF BackedInv, Backed, WebhookBacked
    <3> QED
      BY <2>2, <2>3, <3>1, <3>2 DEF FromEvent, TriggerOf, Events
  <2> QED
    BY <2>1, <2>3, <2>4 DEF Working, InCritical
<1>6. ~Environment /\ ~UNCHANGED vars
  <2>1. ~Environment
    BY <1>1, EnvironmentWrites
  <2>2. UNCHANGED vars => Status' = Status
    BY DEF vars, redis, Status, StoredStatus
  <2> QED
    BY <1>1, <2>1, <2>2
<1> QED
  BY <1>4, <1>5, <1>6 DEF Next

-----------------------------------------------------------------------------
\* TrackInv and what it rests on, in every state of a calm behaviour.
LEMMA CalmTracks == Spec /\ []Calm => []TrackInv
<1>1. Init => LockHeld
  BY DEF Init, WorldInit, LockHeld, Working, InCritical
<1> QED
  BY <1>1, LockHeldStep, TrackInit, TrackNext, TypeCorrect, PTL DEF Spec

LEMMA AlwaysBacked == Spec => []BackedInv
BY BackedInit, BackedNext, TypeCorrect, PTL DEF Spec

(***************************************************************************)
(* Under the lock the read, the decision and the write of a handler        *)
(* (process_marked_webhook, process_locked_callback) are one step, and a   *)
(* message that is sent or edited shows the status stored at that moment:  *)
(* the bot implements IncidentSync as long as no lease runs out under its  *)
(* holder and no record expires, whatever crashes, fails or is repeated.   *)
(***************************************************************************)
THEOREM HandlersAreAtomic == Spec /\ []Calm => AtomicUpdates
BY SyncInit, StepsFollow, CalmTracks, AlwaysBacked, TypeCorrect, PTL
   DEF Spec, AtomicUpdates, Sync!Spec

(***************************************************************************)
(* "Only incident_reopened moves out of Resolved" holds of the status in   *)
(* Redis, not just of incident::next: no webhook or callback writes back a *)
(* status it computed from a value that another task has since replaced.   *)
(***************************************************************************)
THEOREM ResolvedIsSticky == Spec /\ []Calm => OnlyReopenLeavesResolved
<1> DEFINE Only == \A i \in Incidents :
                      StoredStatus(i) = "resolved" /\ StoredStatus(i)' # "resolved"
                      => \E h \in WebhookHandlers : /\ pc[h] = "upsert" /\ Working(h, i)
                                                    /\ req[h].what = "incident_reopened"
<1>1. TypeOK /\ TrackInv /\ BackedInv /\ Calm' /\ [Next]_vars => [Only]_vars
  BY OnlyReopenStep
<1> QED
  BY <1>1, CalmTracks, AlwaysBacked, TypeCorrect, PTL DEF Spec, OnlyReopenLeavesResolved

(***************************************************************************)
(* A chat member told "Done" (process_locked_callback) pressed a button    *)
(* whose effect is stored while the callback still holds the lock, whether *)
(* this callback wrote it or found it there.                               *)
(***************************************************************************)
THEOREM DoneIsStored == Spec /\ []Calm => []SuccessIsStored
<1>1. TypeOK /\ TrackInv => SuccessIsStored
  <2> SUFFICES ASSUME TypeOK, TrackInv, NEW h \in CallbackHandlers,
                      pc[h] = "release", out[h] = "Success"
               PROVE  StoredStatus(req[h].incident) \in
                        IF req[h].what = "Resolve" THEN {"resolved"}
                                                   ELSE {"acknowledged", "resolved"}
    BY DEF SuccessIsStored
  <2>1. h \in Handlers
    BY DEF Handlers
  <2>2. CallbackTracks(h, req[h].incident)
    BY <2>1 DEF TrackInv, Tracks, InCritical
  <2> QED
    BY <2>2 DEF CallbackTracks, Fulfilled, Wanted, StoredStatus
<1> QED
  BY <1>1, CalmTracks, TypeCorrect, PTL
=============================================================================
