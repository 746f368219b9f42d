---------------------------- MODULE MessageProofs ----------------------------
(***************************************************************************)
(* Proof of ExtraMessagesPaid: how many messages an incident can get while *)
(* the lock does what it is there for.  Records may expire here, so that   *)
(* set_status can leave a hash without id or message behind.               *)
(***************************************************************************)
EXTENDS SyncProofs, FiniteSetTheorems

-----------------------------------------------------------------------------
(***************************************************************************)
(* The first invariant: a record with message coordinates names a message  *)
(* that shows the record's own id, so an edit never turns the message of   *)
(* one incident into one of another; a handler that is about to send a     *)
(* message found none in the record, and none has been stored since.       *)
(***************************************************************************)
Exact(r) == r.message_id # None => About(r.message_id, r.id)

\* The stored record of the incident has no message.
Wordless(i) == incidents[i] = None \/ incidents[i].message_id = None

\* Between its upsert and its answer, a webhook's record is in the store.
Holding == {"clearResolved", "clearAcknowledged", "notify", "setMessageId"}

WebhookExact(h, i) ==
  /\ pc[h] \in Holding \cup {"upsert"} => Exact(rec[h])
  /\ pc[h] \in Holding \/ (pc[h] = "upsert" /\ rec[h].id # i)
       => incidents[i] # None /\ incidents[i].id = rec[h].id
  /\ pc[h] \in Holding \cup {"upsert"} /\ rec[h].message_id = None => Wordless(i)
  /\ pc[h] = "setMessageId" => rec[h].message_id # None

TaskExact(h) ==
  InCritical(h) =>
    /\ h \in WebhookHandlers  => WebhookExact(h, req[h].incident)
    /\ h \in CallbackHandlers => (pc[h] = "edit" => rec[h].message_id # None /\ Exact(rec[h]))

StoredExact == \A i \in Incidents : incidents[i] # None => Exact(incidents[i])

ExactInv == StoredExact /\ \A h \in Handlers : TaskExact(h)

-----------------------------------------------------------------------------
LEMMA ExactKept ==
  ASSUME Kept, NEW r, Exact(r)
  PROVE  r.message_id # None =>
           r.message_id \in DOMAIN messages' /\ messages'[r.message_id].id = r.id
BY DEF Kept, Exact, About

\* What a step may do to the record of a task that it does not move.
Undisturbed(g, i) ==
  \/ incidents'[i] = incidents[i]
  \/ /\ incidents'[i] = None /\ incidents[i].id = i
     /\ g \in WebhookHandlers => pc[g] \notin Holding

LEMMA RestsExact ==
  ASSUME TypeOK, Kept, NEW g \in Handlers, TaskExact(g), Rests(g),
         InCritical(g) => Undisturbed(g, req[g].incident)
  PROVE  TaskExact(g)'
<1> SUFFICES ASSUME InCritical(g)' PROVE TaskExact(g)'
  BY DEF TaskExact
<1>1. InCritical(g) /\ pc'[g] = pc[g] /\ req'[g] = req[g] /\ rec'[g] = rec[g]
  BY DEF InCritical, Rests
<1>2. PICK i \in Incidents : i = req[g].incident
  BY <1>1, CriticalIncident DEF InCritical
<1>3. Undisturbed(g, i)
  BY <1>1, <1>2
<1>4. g \in WebhookHandlers => WebhookExact(g, i)'
  <2> SUFFICES ASSUME g \in WebhookHandlers PROVE WebhookExact(g, i)'
    OBVIOUS
  <2>1. WebhookExact(g, i)
    BY <1>1, <1>2 DEF TaskExact
  <2>2. Exact(rec[g]) => Exact(rec[g])'
    BY <1>1, ExactKept DEF Exact, About
  <2>3. Wordless(i) => Wordless(i)'
    BY <1>3 DEF Undisturbed, Wordless
  <2> QED
    BY <1>1, <1>3, <2>1, <2>2, <2>3 DEF WebhookExact, Undisturbed
<1>5. g \in CallbackHandlers
        => (pc'[g] = "edit" => rec'[g].message_id # None /\ Exact(rec[g])')
  BY <1>1, ExactKept DEF TaskExact, Exact, About
<1> QED
  BY <1>1, <1>2, <1>4, <1>5 DEF TaskExact

\* What a step has to show.
LEMMA ExactStep ==
  ASSUME TypeOK, ExactInv, Kept,
         \A g \in Handlers :
            \/ TaskExact(g)'
            \/ Rests(g) /\ (InCritical(g) => Undisturbed(g, req[g].incident)),
         \A k \in Incidents : \/ incidents'[k] = incidents[k] \/ incidents'[k] = None
                              \/ Exact(incidents[k])'
  PROVE  ExactInv'
<1>1. StoredExact'
  BY ExactKept DEF ExactInv, StoredExact, Exact, About
<1>2. \A g \in Handlers : TaskExact(g)'
  BY RestsExact DEF ExactInv
<1> QED
  BY <1>1, <1>2 DEF ExactInv

\* The others are not disturbed by what a task in its critical section writes.
LEMMA TaskIsExact ==
  ASSUME TypeOK, ExactInv, Exclusive, Kept,
         NEW h \in Handlers, InCritical(h), TaskExact(h)',
         \A g \in Handlers \ {h} : Rests(g),
         \A k \in Incidents : \/ incidents'[k] = incidents[k]
                              \/ k = req[h].incident /\ Exact(incidents[k])'
  PROVE  ExactInv'
<1>1. ASSUME NEW g \in Handlers \ {h}, InCritical(g)
      PROVE  Undisturbed(g, req[g].incident)
  <2>1. req[g].incident \in Incidents /\ req[h].incident \in Incidents
    BY <1>1, CriticalIncident DEF InCritical
  <2>2. req[g].incident # req[h].incident
    BY <1>1, <2>1 DEF Exclusive, Working
  <2> QED
    BY <2>1, <2>2 DEF Undisturbed
<1> QED
  BY <1>1, ExactStep

\* A step of a task that writes neither records nor messages.
LEMMA OutsideExact ==
  ASSUME TypeOK, ExactInv, UNCHANGED <<messages, incidents>>,
         NEW h \in Handlers, TaskExact(h)', \A g \in Handlers \ {h} : Rests(g)
  PROVE  ExactInv'
BY ExactStep DEF Kept, Undisturbed

-----------------------------------------------------------------------------
LEMMA ExactInit == Init => ExactInv
BY DEF Init, WorldInit, ExactInv, StoredExact, TaskExact, InCritical, Keys

LEMMA EnvironmentExact ==
  ASSUME TypeOK, ExactInv, Environment
  PROVE  ExactInv'
<1>1. CASE UNCHANGED <<messages, incidents, tasks>>
  BY <1>1, ExactStep DEF tasks, Rests, Kept, Undisturbed
<1>2. CASE \E h \in WebhookHandlers, i \in Incidents : \E n \in pending[i] : Deliver(h, i, n)
  <2> PICK h \in WebhookHandlers : /\ pc' = [pc EXCEPT ![h] = "lock"]
                                   /\ \E r : req' = [req EXCEPT ![h] = r]
                                   /\ UNCHANGED <<messages, incidents, rec, out>>
    BY <1>2 DEF Deliver, Goto, chat, redis
  <2>1. h \in Handlers
    BY DEF Handlers
  <2>2. TaskExact(h)' /\ \A g \in Handlers \ {h} : Rests(g)
    BY <2>1 DEF TaskExact, InCritical, Rests, TypeOK
  <2> QED
    BY <2>1, <2>2, OutsideExact
<1>3. CASE \E h \in WebhookHandlers : GiveUp(h)
  <2> PICK h \in WebhookHandlers : GiveUp(h)
    BY <1>3
  <2>1. h \in Handlers /\ h \notin CallbackHandlers /\ req[h] \in Webhooks
    BY HandlersAssumption DEF Handlers, GiveUp, TypeOK, WebhookTaskOK
  <2>2. /\ UNCHANGED <<messages, incidents, pc, rec, out>>
        /\ req'[h].incident = req[h].incident
        /\ \A g \in Handlers \ {h} : req'[g] = req[g]
    BY <2>1 DEF GiveUp, chat, redis, TypeOK, Webhooks
  <2>3. TaskExact(h)'
    <3>1. InCritical(h) => WebhookExact(h, req[h].incident)
      BY <2>1 DEF ExactInv, TaskExact
    <3> QED
      BY <2>1, <2>2, <3>1 DEF TaskExact, InCritical, WebhookExact, Exact, About, Wordless
  <2>4. \A g \in Handlers \ {h} : Rests(g)
    BY <2>2 DEF Rests
  <2> QED
    BY <2>1, <2>2, <2>3, <2>4, OutsideExact
<1>4. CASE \E m \in DOMAIN messages : DeleteMessage(m)
  <2> PICK m \in DOMAIN messages : DeleteMessage(m)
    BY <1>4
  <2>1. messages[m] \in Views
    BY MessageFacts
  <2>2. UNCHANGED <<incidents, tasks>> /\ Kept
    BY <2>1 DEF DeleteMessage, redis, Kept, Views
  <2> QED
    BY <2>2, ExactStep DEF tasks, Rests, Undisturbed
<1>5. CASE \E i \in Incidents : RecordExpires(i)
  <2> PICK i \in Incidents : RecordExpires(i)
    BY <1>5
  <2>1. /\ UNCHANGED <<messages, tasks>> /\ Kept
        /\ incidents[i].id = i
        /\ incidents' = [incidents EXCEPT ![i] = None]
        /\ \A g \in WebhookHandlers : pc[g] \in Holding => req[g].incident # i
    BY DEF RecordExpires, HasTtl, chat, Kept, Holding
  <2>2. \A k \in Incidents : incidents'[k] = IF k = i THEN None ELSE incidents[k]
    BY <2>1 DEF TypeOK, Keys
  <2>3. ASSUME NEW g \in Handlers, InCritical(g)
        PROVE  Undisturbed(g, req[g].incident)
    <3>1. req[g].incident \in Incidents
      BY <2>3, CriticalIncident DEF InCritical
    <3> QED
      BY <2>1, <2>2, <3>1 DEF Undisturbed
  <2> QED
    BY <2>1, <2>2, <2>3, ExactStep DEF tasks, Rests
<1>6. CASE \E h \in Handlers : Crash(h)
  <2> PICK h \in Handlers : Crash(h)
    BY <1>6
  <2>1. TaskExact(h)' /\ \A g \in Handlers \ {h} : Rests(g)
    BY DEF Crash, Reset, TaskExact, InCritical, Rests, TypeOK
  <2>2. UNCHANGED <<messages, incidents>>
    BY DEF Crash, redis
  <2> QED
    BY <2>1, <2>2, OutsideExact
<1> QED
  BY <1>1, <1>2, <1>3, <1>4, <1>5, <1>6 DEF Environment, Happen, Click, OrphanedLockExpires,
     LeaseLost, DedupExpires, upstream, chat, redis

\* A record read for incident i: the stored one, or a new one, updated.
LEMMA LoadedExact ==
  ASSUME TypeOK, BackedInv, ExactInv, NEW i \in Incidents, NEW event, NEW meta,
         NEW r, r = Updated(incidents[i], i, event, meta)
  PROVE  /\ Exact(r)
         /\ r.id # i => incidents[i] # None /\ incidents[i].id = r.id
         /\ r.message_id = None => Wordless(i)
<1>1. incidents[i] \in Record \cup {None}
  BY DEF TypeOK, Keys
<1>2. r.id = IF incidents[i] = None THEN i ELSE incidents[i].id
  BY <1>1, UpdatedFields
<1>3. r.message_id = IF incidents[i] = None THEN None ELSE incidents[i].message_id
  BY <1>1 DEF Updated, Record, DefaultRecord
<1> QED
  BY <1>2, <1>3 DEF ExactInv, StoredExact, Exact, Wordless

LEMMA WebhookExactStep ==
  ASSUME TypeOK, BackedInv, ExactInv, Exclusive, NEW h \in WebhookHandlers, WebhookStep(h)
  PROVE  ExactInv'
<1>0. h \in Handlers /\ h \notin CallbackHandlers
  BY HandlersAssumption DEF Handlers
<1>1. CASE SkipUnknownEvent(h) \/ LockIncident(h) \/ ReleaseAndRespond(h)
  <2>1. UNCHANGED <<messages, incidents>>
    BY <1>1 DEF SkipUnknownEvent, LockIncident, ReleaseAndRespond, chat, redis
  <2>2. TaskExact(h)' /\ \A g \in Handlers \ {h} : Rests(g)
    BY <1>0, <1>1 DEF SkipUnknownEvent, LockIncident, ReleaseAndRespond, Respond, Reset, Goto,
       TaskExact, WebhookExact, Holding, InCritical, Rests, TypeOK
  <2> QED
    BY <1>0, <2>1, <2>2, OutsideExact
<1>2. CASE MarkEvent(h) \/ UnmarkFailed(h)
  <2>1. UNCHANGED <<messages, incidents>>
    BY <1>2 DEF MarkEvent, UnmarkFailed, chat
  <2>2. TaskExact(h)' /\ \A g \in Handlers \ {h} : Rests(g)
    BY <1>0, <1>2 DEF MarkEvent, UnmarkFailed, Finish, Goto, TaskExact, WebhookExact, Holding,
       Rests, TypeOK
  <2> QED
    BY <1>0, <2>1, <2>2, OutsideExact
<1> SUFFICES ASSUME pc[h] \in {"get", "upsert", "clearResolved", "clearAcknowledged", "notify",
                               "setMessageId"}
             PROVE  ExactInv'
  BY <1>1, <1>2 DEF WebhookStep, LoadRecord, UpsertRecord, ClearStaleEvents, ClearStale,
     SendIncident, SetMessage, EditIncident
<1>3. PICK i \in Incidents : i = req[h].incident
  BY <1>0, CriticalIncident
<1>4. /\ InCritical(h) /\ WebhookExact(h, i) /\ i \in Keys
      /\ incidents[i] \in Record \cup {None} /\ (incidents[i] # None => Exact(incidents[i]))
  BY <1>0, <1>3 DEF InCritical, ExactInv, StoredExact, TaskExact, TypeOK, Keys
<1>5. pc[h] # "get" => rec[h] \in Record /\ rec[h].id \in {i, EmptyId}
  BY <1>0, <1>3 DEF TypeOK, WebhookTaskOK, BackedInv, Backed, WebhookBacked, StandsFor
<1>6. CASE LoadRecord(h)
  <2>1. UNCHANGED <<messages, incidents, req>>
    BY <1>6 DEF LoadRecord, chat, redis
  <2>2. \/ /\ pc' = [pc EXCEPT ![h] = "upsert"]
           /\ \E meta : rec' = [rec EXCEPT ![h] = Updated(incidents[i], i, req[h].what, meta)]
           /\ UNCHANGED out
        \/ Finish(h, "unmark", "500")
    BY <1>3, <1>6 DEF LoadRecord, Goto, Get
  <2>3. \A g \in Handlers \ {h} : Rests(g)
    BY <2>1, <2>2 DEF Finish, Goto, Rests, TypeOK
  <2>4. TaskExact(h)'
    <3>1. CASE Finish(h, "unmark", "500")
      BY <1>0, <3>1 DEF Finish, Goto, TaskExact, WebhookExact, Holding, TypeOK
    <3>2. ASSUME NEW meta, pc' = [pc EXCEPT ![h] = "upsert"],
                 rec' = [rec EXCEPT ![h] = Updated(incidents[i], i, req[h].what, meta)]
          PROVE  TaskExact(h)'
      <4>1. pc'[h] = "upsert" /\ req'[h] = req[h]
        BY <1>0, <2>1, <3>2 DEF TypeOK
      <4>2. PICK r : r = Updated(incidents[i], i, req[h].what, meta)
        OBVIOUS
      <4>3. rec'[h] = r
        BY <1>0, <3>2, <4>2 DEF TypeOK
      <4>4. /\ Exact(r) /\ (r.message_id = None => Wordless(i))
            /\ r.id # i => incidents[i] # None /\ incidents[i].id = r.id
        BY <4>2, LoadedExact
      <4> QED
        BY <1>0, <1>3, <2>1, <4>1, <4>3, <4>4 DEF TaskExact, WebhookExact, Exact, About,
           Wordless, Holding
    <3> QED
      BY <2>2, <3>1, <3>2
  <2> QED
    BY <1>0, <2>1, <2>3, <2>4, OutsideExact
<1>7. CASE UpsertRecord(h)
  <2>1. UNCHANGED <<messages, req>> /\ Kept
    BY <1>7 DEF UpsertRecord, chat, Kept
  <2>2. Exact(rec[h]) /\ rec[h] # None
    BY <1>4, <1>5, <1>7, OptionAssumption DEF UpsertRecord, WebhookExact
  <2>3. \/ /\ incidents' = [incidents EXCEPT ![rec[h].id] = rec[h]] /\ UNCHANGED <<rec, out>>
           /\ pc' = [pc EXCEPT ![h] = IF rec[h].status = "started" THEN "clearResolved" ELSE "notify"]
        \/ /\ incidents' \in {incidents, [incidents EXCEPT ![rec[h].id] = rec[h]]}
           /\ Finish(h, "unmark", "500")
    BY <1>7 DEF UpsertRecord, Upsert, Goto
  <2>4. \A g \in Handlers \ {h} : Rests(g)
    BY <2>1, <2>3 DEF Finish, Goto, Rests, TypeOK
  <2>5. \A k \in Incidents : \/ incidents'[k] = incidents[k]
                             \/ k = i /\ rec[h].id = i /\ incidents'[i] = rec[h]
    BY <1>5, <1>7, <2>3, IdAssumption DEF UpsertRecord, TypeOK, Keys
  <2>6. TaskExact(h)'
    <3>1. CASE Finish(h, "unmark", "500")
      BY <1>0, <3>1 DEF Finish, Goto, TaskExact, WebhookExact, Holding, TypeOK
    <3>2. CASE /\ incidents' = [incidents EXCEPT ![rec[h].id] = rec[h]] /\ UNCHANGED <<rec, out>>
               /\ pc' = [pc EXCEPT ![h] = IF rec[h].status = "started" THEN "clearResolved"
                                                                       ELSE "notify"]
      <4>1. /\ rec'[h] = rec[h] /\ req'[h] = req[h]
            /\ pc'[h] \in {"clearResolved", "notify"}
        BY <1>0, <2>1, <3>2 DEF TypeOK
      <4>2. /\ incidents'[i] # None /\ incidents'[i].id = rec[h].id
            /\ rec[h].message_id = None => incidents'[i].message_id = None
        <5>1. CASE rec[h].id = i
          BY <1>4, <2>2, <3>2, <5>1 DEF TypeOK
        <5>2. CASE rec[h].id # i
          BY <1>4, <1>7, <3>2, <5>2 DEF TypeOK, UpsertRecord, WebhookExact, Wordless
        <5> QED
          BY <5>1, <5>2
      <4> QED
        BY <1>0, <1>3, <2>1, <2>2, <4>1, <4>2 DEF TaskExact, WebhookExact, Exact, About, Wordless
    <3> QED
      BY <2>3, <3>1, <3>2
  <2>7. \A k \in Incidents : incidents'[k] = incidents[k] \/ (k = i /\ Exact(incidents[k])')
    BY <2>1, <2>2, <2>5 DEF Exact, About
  <2> QED
    BY <1>0, <1>3, <1>4, <2>1, <2>4, <2>6, <2>7, TaskIsExact
<1>8. CASE ClearStaleEvents(h)
  <2>1. UNCHANGED <<messages, incidents, req, rec, out>>
    BY <1>8 DEF ClearStaleEvents, ClearStale, chat
  <2>2. /\ \A g \in Handlers \ {h} : Rests(g)
        /\ pc[h] \in Holding /\ pc'[h] \in Holding \ {"setMessageId"}
    BY <1>0, <1>8, <2>1 DEF ClearStaleEvents, ClearStale, Goto, Rests, Holding, TypeOK
  <2>3. TaskExact(h)'
    BY <1>0, <1>3, <1>4, <2>1, <2>2 DEF TaskExact, WebhookExact, Exact, About, Wordless, Holding
  <2> QED
    BY <1>0, <2>1, <2>2, <2>3, OutsideExact
<1>9. CASE SendIncident(h)
  <2>1. /\ UNCHANGED <<incidents, req>>
        /\ rec[h] \in Record /\ pc[h] = "notify"
        /\ incidents[i] # None /\ incidents[i].id = rec[h].id
    BY <1>4, <1>5, <1>9 DEF SendIncident, redis, WebhookExact, Holding
  <2>2. messages' \in {messages, SendMessage(rec[h])}
    BY <1>9 DEF SendIncident
  <2>3. Kept
    BY <2>1, <2>2, SendFacts DEF Kept
  <2>4. \A g \in Handlers \ {h} : Rests(g)
    BY <1>9, <2>1 DEF SendIncident, Finish, Goto, Rests, TypeOK
  <2>5. TaskExact(h)'
    <3>1. CASE Finish(h, "release", "200")
      BY <1>0, <3>1 DEF Finish, Goto, TaskExact, WebhookExact, Holding, TypeOK
    <3>2. CASE /\ messages' = SendMessage(rec[h])
               /\ rec' = [rec EXCEPT ![h].chat_id = ChatId,
                                     ![h].message_id = Len(messages) + 1]
               /\ Goto(h, "setMessageId")
      <4>1. pc'[h] = "setMessageId" /\ req'[h] = req[h]
        BY <1>0, <2>1, <3>2 DEF Goto, TypeOK
      <4>2. rec'[h].message_id = Len(messages) + 1 /\ rec'[h].id = rec[h].id
        BY <1>0, <2>1, <3>2 DEF TypeOK, Record
      <4>3. Exact(rec[h])'
        <5>1. View(rec[h]).id = rec[h].id
          BY <2>1 DEF View
        <5>2. Len(messages) + 1 \in DOMAIN messages' /\ messages'[Len(messages) + 1] = View(rec[h])
          BY <2>1, <3>2, SendFacts, MessageFacts
        <5> QED
          BY <4>2, <5>1, <5>2 DEF Exact, About
      <4>4. rec'[h].message_id # None
        BY <4>2, MessageFacts, OptionAssumption
      <4> QED
        BY <1>0, <1>3, <2>1, <4>1, <4>2, <4>3, <4>4 DEF TaskExact, WebhookExact
    <3> QED
      BY <1>9, <3>1, <3>2 DEF SendIncident
  <2> QED
    BY <1>0, <1>4, <2>1, <2>3, <2>4, <2>5, TaskIsExact
<1>10. CASE SetMessage(h)
  <2>1. UNCHANGED <<messages, req>> /\ Kept
    BY <1>10 DEF SetMessage, chat, Kept
  <2>2. /\ incidents[i] # None /\ incidents[i] \in Record /\ incidents[i].id = rec[h].id
        /\ Exact(rec[h]) /\ rec[h] \in Record
    BY <1>4, <1>5, <1>10 DEF SetMessage, WebhookExact, Holding
  <2> DEFINE new == [incidents[i] EXCEPT !.chat_id = rec[h].chat_id,
                                         !.message_id = rec[h].message_id]
  <2>3. incidents' \in {incidents, [incidents EXCEPT ![i] = new]}
    BY <1>3, <1>10, <2>2 DEF SetMessage, SetMessageId, Fields, WriteFails
  <2>4. new.id = rec[h].id /\ new.message_id = rec[h].message_id
    BY <1>4, <2>2 DEF Record
  <2> HIDE DEF new
  <2>5. \A k \in Incidents : incidents'[k] = incidents[k] \/ (k = i /\ incidents'[k] = new)
    BY <1>4, <2>3 DEF TypeOK, Keys
  <2>6. \A k \in Incidents : incidents'[k] = incidents[k] \/ (k = i /\ Exact(incidents[k])')
    BY <2>1, <2>2, <2>4, <2>5 DEF Exact, About
  <2>7. TaskExact(h)' /\ \A g \in Handlers \ {h} : Rests(g)
    BY <1>0, <1>10, <2>1 DEF SetMessage, Finish, Goto, TaskExact, WebhookExact, Holding, Rests,
       TypeOK
  <2> QED
    BY <1>0, <1>3, <1>4, <2>1, <2>6, <2>7, TaskIsExact
<1>11. CASE EditIncident(h)
  <2>1. UNCHANGED <<incidents, req>>
    BY <1>11 DEF EditIncident, redis
  <2>2. Kept
    <3>1. Placed(rec[h], rec[h].id) /\ rec[h] \in Record /\ rec[h].message_id # None
      BY <1>4, <1>5, <1>11 DEF EditIncident, WebhookExact, Exact, Placed, Holding
    <3>2. messages' \in {messages, EditMessage(rec[h].message_id, rec[h])}
      BY <1>11 DEF EditIncident
    <3> QED
      BY <3>1, <3>2, EditFacts
  <2>3. TaskExact(h)' /\ \A g \in Handlers \ {h} : Rests(g)
    BY <1>0, <1>11, <2>1 DEF EditIncident, Finish, Goto, TaskExact, WebhookExact, Holding, Rests,
       TypeOK
  <2> QED
    BY <1>0, <1>4, <2>1, <2>2, <2>3, TaskIsExact
<1> QED
  BY <1>6, <1>7, <1>8, <1>9, <1>10, <1>11 DEF WebhookStep, SkipUnknownEvent, LockIncident,
     MarkEvent, UnmarkFailed, ReleaseAndRespond

\* What set_status makes of a record that may be gone: the message stays as it was.
LEMMA SetStatusKeepsMessage ==
  ASSUME NEW db \in [Keys -> Record \cup {None}], NEW i \in Keys, NEW status \in Statuses
  PROVE  \E new \in Record : /\ SetStatus(db, i, status) = [db EXCEPT ![i] = new]
                             /\ new.message_id = IF db[i] = None THEN None ELSE db[i].message_id
                             /\ db[i] # None => new.id = db[i].id
<1>1. CASE db[i] # None
  BY <1>1, SetStatusRecord
<1>2. CASE db[i] = None
  <2> DEFINE new == [DefaultRecord EXCEPT !.status = status,
                                          !.acknowledged_at = @ \/ status = "acknowledged",
                                          !.resolved_at     = @ \/ status = "resolved"]
  <2>1. DefaultRecord \in Record /\ DefaultRecord.message_id = None
    BY DEF DefaultRecord, Record, Statuses, Keys
  <2>2. new \in Record /\ new.message_id = None
    BY <2>1 DEF Record
  <2>3. SetStatus(db, i, status) = [db EXCEPT ![i] = new]
    BY <1>2 DEF SetStatus, Fields
  <2> QED
    BY <1>2, <2>2, <2>3
<1> QED
  BY <1>1, <1>2

LEMMA CallbackExactStep ==
  ASSUME TypeOK, ExactInv, Exclusive, NEW h \in CallbackHandlers, CallbackStep(h)
  PROVE  ExactInv'
<1>0. h \in Handlers /\ h \notin WebhookHandlers
  BY HandlersAssumption DEF Handlers
<1>1. CASE TakeClick(h) \/ LockForCallback(h) \/ ReleaseAndAnswer(h)
  <2>1. UNCHANGED <<messages, incidents>>
    BY <1>1 DEF TakeClick, LockForCallback, ReleaseAndAnswer, chat, redis
  <2>2. TaskExact(h)' /\ \A g \in Handlers \ {h} : Rests(g)
    BY <1>0, <1>1 DEF TakeClick, LockForCallback, ReleaseAndAnswer, Answer, Reset, Goto,
       TaskExact, InCritical, Rests, TypeOK
  <2> QED
    BY <1>0, <2>1, <2>2, OutsideExact
<1>2. CASE CallBetterStack(h) \/ RetryCall(h) \/ LoadCurrent(h)
  <2>1. UNCHANGED <<messages, incidents>>
    BY <1>2 DEF CallBetterStack, RetryCall, LoadCurrent, chat, redis
  <2>2. TaskExact(h)' /\ \A g \in Handlers \ {h} : Rests(g)
    BY <1>0, <1>2 DEF CallBetterStack, RetryCall, LoadCurrent, Conclude, Goto, tasks, TaskExact,
       Rests, TypeOK
  <2> QED
    BY <1>0, <2>1, <2>2, OutsideExact
<1> SUFFICES ASSUME pc[h] \in {"setStatus", "reget", "edit"} PROVE ExactInv'
  BY <1>1, <1>2 DEF CallbackStep, StoreStatus, Reload, EditAfterClick
<1>3. PICK i \in Incidents : i = req[h].incident
  BY <1>0, CriticalIncident
<1>4. /\ InCritical(h) /\ i \in Keys
      /\ incidents[i] \in Record \cup {None} /\ (incidents[i] # None => Exact(incidents[i]))
  BY <1>0, <1>3 DEF InCritical, ExactInv, StoredExact, TypeOK, Keys
<1>5. CASE StoreStatus(h)
  <2>1. UNCHANGED <<messages, req>> /\ Kept
    BY <1>5 DEF StoreStatus, chat, Kept
  <2>2. PICK new \in Record :
           /\ SetStatus(incidents, i, rec[h].status) = [incidents EXCEPT ![i] = new]
           /\ new.message_id = IF incidents[i] = None THEN None ELSE incidents[i].message_id
           /\ incidents[i] # None => new.id = incidents[i].id
    <3>1. rec[h].status \in Statuses /\ incidents \in [Keys -> Record \cup {None}]
      BY <1>5 DEF StoreStatus, TypeOK, CallbackTaskOK, Record
    <3>2. PICK status \in Statuses : status = rec[h].status
      BY <3>1
    <3>3. \E new \in Record :
             /\ SetStatus(incidents, i, status) = [incidents EXCEPT ![i] = new]
             /\ new.message_id = IF incidents[i] = None THEN None ELSE incidents[i].message_id
             /\ incidents[i] # None => new.id = incidents[i].id
      BY <1>4, <3>1, SetStatusKeepsMessage
    <3> QED
      BY <3>2, <3>3
  <2>3. incidents' \in {incidents, [incidents EXCEPT ![i] = new]}
    BY <1>3, <1>5, <2>2 DEF StoreStatus, WriteFails
  <2>4. \A k \in Incidents : incidents'[k] = incidents[k] \/ (k = i /\ incidents'[k] = new)
    BY <1>4, <2>3 DEF TypeOK, Keys
  <2>5. \A k \in Incidents : incidents'[k] = incidents[k] \/ (k = i /\ Exact(incidents[k])')
    BY <1>4, <2>1, <2>2, <2>4 DEF Exact, About
  <2>6. TaskExact(h)' /\ \A g \in Handlers \ {h} : Rests(g)
    BY <1>0, <1>5, <2>1 DEF StoreStatus, Conclude, Goto, TaskExact, Rests, TypeOK
  <2> QED
    BY <1>0, <1>3, <1>4, <2>1, <2>5, <2>6, TaskIsExact
<1>6. CASE Reload(h)
  <2>1. UNCHANGED <<messages, incidents, req>>
    BY <1>6 DEF Reload, chat, redis
  <2>2. \/ /\ rec' = [rec EXCEPT ![h] = incidents[i]]
           /\ incidents[i] # None /\ incidents[i].message_id # None
           /\ pc' = [pc EXCEPT ![h] = "edit"] /\ UNCHANGED out
        \/ Conclude(h, "Success") \/ Conclude(h, "Alert")
    BY <1>3, <1>6 DEF Reload, Get, Goto
  <2>3. TaskExact(h)' /\ \A g \in Handlers \ {h} : Rests(g)
    BY <1>0, <1>4, <2>1, <2>2 DEF Conclude, Goto, TaskExact, Exact, About, Rests, TypeOK
  <2> QED
    BY <1>0, <2>1, <2>3, OutsideExact
<1>7. CASE EditAfterClick(h)
  <2>1. UNCHANGED <<incidents, req>> /\ Conclude(h, "Success")
    BY <1>7 DEF EditAfterClick, redis
  <2>2. Kept
    <3>1. Placed(rec[h], rec[h].id) /\ rec[h].message_id # None /\ rec[h] \in Record
      BY <1>0, <1>4, <1>7 DEF EditAfterClick, ExactInv, TaskExact, Exact, Placed, TypeOK,
         CallbackTaskOK
    <3>2. messages' \in {messages, EditMessage(rec[h].message_id, rec[h])}
      BY <1>7 DEF EditAfterClick
    <3> QED
      BY <3>1, <3>2, EditFacts
  <2>3. TaskExact(h)' /\ \A g \in Handlers \ {h} : Rests(g)
    BY <1>0, <2>1 DEF Conclude, Goto, TaskExact, Rests, TypeOK
  <2> QED
    BY <1>0, <1>4, <2>1, <2>2, <2>3, TaskIsExact
<1> QED
  BY <1>5, <1>6, <1>7 DEF CallbackStep, TakeClick, LockForCallback, CallBetterStack, RetryCall,
     LoadCurrent, ReleaseAndAnswer

LEMMA ExactNext ==
  ASSUME TypeOK, BackedInv, LockHeld, spent["lease"] = 0, ExactInv, [Next]_vars
  PROVE  ExactInv'
<1>1. Exclusive
  BY DEF LockHeld, Exclusive
<1>2. CASE UNCHANGED vars
  BY <1>2, ExactStep DEF vars, chat, redis, tasks, Rests, Kept, Undisturbed
<1> QED
  BY <1>1, <1>2, EnvironmentExact, WebhookExactStep, CallbackExactStep DEF Next

-----------------------------------------------------------------------------
(***************************************************************************)
(* The second invariant counts.  An incident whose record has no message,  *)
(* and for which no handler is about to store the coordinates of one, has  *)
(* room for a message; each fault may make room once more.                 *)
(***************************************************************************)
CanSend(i) ==
  /\ Wordless(i)
  /\ \A h \in WebhookHandlers : ~(pc[h] = "setMessageId" /\ req[h].incident = i)

Paid == 1 + spent["crash"] + spent["store"]
          + spent["storeReply"] + spent["telegram"] + spent["recordTtl"]

Counted(i) ==
  /\ IsFiniteSet(MessagesOf(i))
  /\ Cardinality(MessagesOf(i)) + (IF CanSend(i) THEN 1 ELSE 0) <= Paid

CountInv == \A i \in Incidents : Counted(i)

\* What a step may do to an incident: a message takes the room there was, or is paid for.
Accounted(i) ==
  \/ /\ MessagesOf(i)' = MessagesOf(i) /\ Paid' >= Paid
     /\ CanSend(i)' => CanSend(i)
  \/ MessagesOf(i)' = MessagesOf(i) /\ Paid' > Paid
  \/ /\ \E x : MessagesOf(i)' = MessagesOf(i) \cup {x}
     /\ Paid' >= Paid
     /\ CanSend(i) /\ ~CanSend(i)'
  \/ /\ \E x : MessagesOf(i)' = MessagesOf(i) \cup {x}
     /\ Paid' > Paid
     /\ CanSend(i)' => CanSend(i)

LEMMA PaidGrows ==
  ASSUME TypeOK, UNCHANGED spent \/ \E kind \in Kinds : Spend(kind)
  PROVE  Paid \in Nat /\ Paid' \in Nat /\ Paid' >= Paid
<1>1. \A k \in Kinds : spent[k] \in Nat /\ spent'[k] \in Nat /\ spent'[k] >= spent[k]
  <2>1. spent \in [Kinds -> Nat]
    BY DEF TypeOK
  <2>2. CASE UNCHANGED spent
    BY <2>1, <2>2
  <2>3. ASSUME NEW kind \in Kinds, spent' = [spent EXCEPT ![kind] = @ + 1]
        PROVE  \A k \in Kinds : spent[k] \in Nat /\ spent'[k] \in Nat /\ spent'[k] >= spent[k]
    BY <2>1, <2>3
  <2> QED
    BY <2>2, <2>3 DEF Spend
<1>2. {"crash", "store", "storeReply", "telegram", "recordTtl"} \subseteq Kinds
  BY DEF Kinds, Faults
<1> QED
  BY <1>1, <1>2 DEF Paid

LEMMA PaidMore ==
  ASSUME TypeOK, NEW kind \in {"crash", "store", "storeReply", "telegram", "recordTtl"},
         Spend(kind)
  PROVE  Paid' > Paid
<1>1. {"crash", "store", "storeReply", "telegram", "recordTtl"} \subseteq Kinds
  BY DEF Kinds, Faults
<1>2. spent \in [Kinds -> Nat] /\ spent' = [spent EXCEPT ![kind] = spent[kind] + 1]
  BY DEF TypeOK, Spend
<1> QED
  BY <1>1, <1>2 DEF Paid

LEMMA CountOneMore ==
  ASSUME NEW S, IsFiniteSet(S), NEW x
  PROVE  /\ Cardinality(S) \in Nat
         /\ IsFiniteSet(S \cup {x})
         /\ Cardinality(S \cup {x}) \in Nat /\ Cardinality(S \cup {x}) <= Cardinality(S) + 1
<1>1. Cardinality(S) \in Nat
  BY FS_CardinalityType
<1>2. /\ IsFiniteSet(S \cup {x})
      /\ Cardinality(S \cup {x}) = IF x \in S THEN Cardinality(S) ELSE Cardinality(S) + 1
  BY FS_AddElement
<1> QED
  BY <1>1, <1>2

LEMMA AccountedCounts ==
  ASSUME NEW i, Counted(i), Accounted(i), Paid \in Nat, Paid' \in Nat
  PROVE  Counted(i)'
<1>1. IsFiniteSet(MessagesOf(i)) /\ Cardinality(MessagesOf(i)) \in Nat
  BY FS_CardinalityType DEF Counted
<1>2. CASE MessagesOf(i)' = MessagesOf(i)
  BY <1>1, <1>2 DEF Counted, Accounted
<1>3. ASSUME NEW x, MessagesOf(i)' = MessagesOf(i) \cup {x}
      PROVE  /\ IsFiniteSet(MessagesOf(i)') /\ Cardinality(MessagesOf(i)') \in Nat
             /\ Cardinality(MessagesOf(i)') <= Cardinality(MessagesOf(i)) + 1
  <2>1. PICK S : S = MessagesOf(i)
    OBVIOUS
  <2>2. /\ IsFiniteSet(S \cup {x}) /\ Cardinality(S \cup {x}) \in Nat
        /\ Cardinality(S \cup {x}) <= Cardinality(S) + 1
    BY <1>1, <2>1, CountOneMore
  <2>3. MessagesOf(i)' = S \cup {x}
    BY <1>3, <2>1
  <2> QED
    BY <2>1, <2>2, <2>3
<1> DEFINE c == Cardinality(MessagesOf(i))
           d == Cardinality(MessagesOf(i)')
<1>4. c \in Nat /\ c + (IF CanSend(i) THEN 1 ELSE 0) <= Paid
  BY <1>1 DEF Counted
<1>5. IsFiniteSet(MessagesOf(i)') /\ d \in Nat /\ d <= c + 1
  BY <1>1, <1>2, <1>3 DEF Accounted
<1>6. \/ d = c /\ Paid' >= Paid /\ (CanSend(i)' => CanSend(i))
      \/ d = c /\ Paid' > Paid
      \/ Paid' >= Paid /\ CanSend(i) /\ ~CanSend(i)'
      \/ Paid' > Paid /\ (CanSend(i)' => CanSend(i))
  BY DEF Accounted
<1> HIDE DEF c, d
<1>7. d + (IF CanSend(i)' THEN 1 ELSE 0) <= Paid'
  <2>1. CASE CanSend(i) /\ CanSend(i)'
    BY <1>4, <1>5, <1>6, <2>1
  <2>2. CASE ~CanSend(i) /\ CanSend(i)'
    BY <1>4, <1>5, <1>6, <2>2
  <2>3. CASE CanSend(i) /\ ~CanSend(i)'
    BY <1>4, <1>5, <1>6, <2>3
  <2>4. CASE ~CanSend(i) /\ ~CanSend(i)'
    BY <1>4, <1>5, <1>6, <2>4
  <2> QED
    BY <2>1, <2>2, <2>3, <2>4
<1> QED
  BY <1>5, <1>7 DEF Counted, d

\* A step that sends nothing and makes no room.
LEMMA Uneventful ==
  ASSUME TypeOK, UNCHANGED spent \/ \E kind \in Kinds : Spend(kind),
         NEW i \in Incidents, MessagesOf(i)' = MessagesOf(i), Wordless(i)' => Wordless(i),
         \A h \in WebhookHandlers : pc[h] = "setMessageId" /\ req[h].incident = i
            => pc'[h] = "setMessageId" /\ req'[h].incident = i
  PROVE  Accounted(i)
BY PaidGrows DEF Accounted, CanSend

\* One that writes neither records nor messages, by a task that is not at set_message_id.
LEMMA QuietTask ==
  ASSUME TypeOK, UNCHANGED spent \/ \E kind \in Kinds : Spend(kind),
         UNCHANGED <<messages, incidents>>, NEW h \in Handlers, pc[h] # "setMessageId",
         \A g \in Handlers \ {h} : pc'[g] = pc[g] /\ req'[g] = req[g]
  PROVE  \A i \in Incidents : Accounted(i)
<1> SUFFICES ASSUME NEW i \in Incidents PROVE Accounted(i)
  OBVIOUS
<1>1. MessagesOf(i)' = MessagesOf(i) /\ Wordless(i)' = Wordless(i)
  BY DEF MessagesOf, Wordless
<1>2. \A g \in WebhookHandlers : pc[g] = "setMessageId" => pc'[g] = pc[g] /\ req'[g] = req[g]
  BY DEF Handlers
<1> QED
  BY <1>1, <1>2, Uneventful

LEMMA EditedMessages ==
  ASSUME TypeOK, NEW r \in Record, r.message_id # None, Exact(r),
         messages' \in {messages, EditMessage(r.message_id, r)}
  PROVE  \A i : MessagesOf(i)' = MessagesOf(i)
<1>1. /\ Kept
      /\ messages' = messages \/ messages' = [messages EXCEPT ![r.message_id] = View(r)]
  BY EditFacts DEF Exact, Placed
<1>2. DOMAIN messages' = DOMAIN messages
  BY <1>1
<1> QED
  BY <1>1, <1>2 DEF MessagesOf, Kept

LEMMA SentMessages ==
  ASSUME TypeOK, NEW r \in Record, messages' = SendMessage(r), NEW i
  PROVE  MessagesOf(i)' = IF r.id = i THEN MessagesOf(i) \cup {Len(messages) + 1}
                                      ELSE MessagesOf(i)
<1>1. View(r).id = r.id
  BY DEF View
<1> QED
  BY <1>1, SendFacts, MessageFacts DEF MessagesOf

-----------------------------------------------------------------------------
LEMMA EnvironmentCounts ==
  ASSUME TypeOK, Environment, NEW i \in Incidents
  PROVE  Accounted(i)
<1>0. UNCHANGED spent \/ \E kind \in Kinds : Spend(kind)
  BY DEF Environment, Happen, Deliver, Overtake, GiveUp, Click, DeleteMessage,
     OrphanedLockExpires, LeaseLost, RecordExpires, DedupExpires, Crash, Kinds, Faults
<1>1. CASE UNCHANGED <<messages, incidents, tasks>>
  BY <1>0, <1>1, Uneventful DEF tasks, MessagesOf, Wordless
<1>2. CASE \E h \in WebhookHandlers, j \in Incidents : \E n \in pending[j] : Deliver(h, j, n)
  <2> PICK h \in WebhookHandlers : /\ pc[h] = "idle" /\ pc' = [pc EXCEPT ![h] = "lock"]
                                   /\ \E r : req' = [req EXCEPT ![h] = r]
                                   /\ UNCHANGED <<messages, incidents>>
    BY <1>2 DEF Deliver, Goto, chat, redis
  <2>1. h \in Handlers /\ \A g \in Handlers \ {h} : pc'[g] = pc[g] /\ req'[g] = req[g]
    BY DEF TypeOK, Handlers
  <2> QED
    BY <1>0, <2>1, QuietTask
<1>3. CASE \E h \in WebhookHandlers : GiveUp(h)
  <2> PICK h \in WebhookHandlers : GiveUp(h)
    BY <1>3
  <2>1. h \in Handlers /\ req[h] \in Webhooks
    BY DEF Handlers, GiveUp, TypeOK, WebhookTaskOK
  <2>2. /\ UNCHANGED <<messages, incidents, pc>>
        /\ \A g \in Handlers : req'[g].incident = req[g].incident
    BY <2>1 DEF GiveUp, chat, redis, TypeOK, Webhooks
  <2>3. MessagesOf(i)' = MessagesOf(i) /\ Wordless(i)' = Wordless(i)
    BY <2>2 DEF MessagesOf, Wordless
  <2> QED
    BY <1>0, <2>2, <2>3, Uneventful DEF Handlers
<1>4. CASE \E m \in DOMAIN messages : DeleteMessage(m)
  <2> PICK m \in DOMAIN messages : DeleteMessage(m)
    BY <1>4
  <2>1. messages[m] \in Views
    BY MessageFacts
  <2>2. UNCHANGED <<incidents, tasks>> /\ MessagesOf(i)' = MessagesOf(i)
    BY <2>1 DEF DeleteMessage, redis, MessagesOf, Views
  <2> QED
    BY <1>0, <2>2, Uneventful DEF tasks, Wordless
<1>5. CASE \E j \in Incidents : RecordExpires(j)
  BY <1>5, PaidMore DEF RecordExpires, chat, MessagesOf, Accounted
<1>6. CASE \E h \in Handlers : Crash(h)
  BY <1>6, PaidMore DEF Crash, MessagesOf, Accounted
<1> QED
  BY <1>1, <1>2, <1>3, <1>4, <1>5, <1>6 DEF Environment, Happen, Click, OrphanedLockExpires,
     LeaseLost, DedupExpires, upstream, chat, redis

LEMMA WebhookCounts ==
  ASSUME TypeOK, BackedInv, ExactInv, Exclusive, NEW h \in WebhookHandlers, WebhookStep(h)
  PROVE  \A k \in Incidents : Accounted(k)
<1>0. h \in Handlers /\ (UNCHANGED spent \/ \E kind \in Kinds : Spend(kind))
  BY DEF Handlers, WebhookStep, SkipUnknownEvent, LockIncident, MarkEvent, LoadRecord,
     UpsertRecord, ClearStaleEvents, ClearStale, SendIncident, SetMessage, EditIncident,
     UnmarkFailed, ReleaseAndRespond, WriteFails, Kinds, Faults
<1>1. CASE SkipUnknownEvent(h) \/ LockIncident(h) \/ ReleaseAndRespond(h) \/ MarkEvent(h)
           \/ UnmarkFailed(h) \/ LoadRecord(h) \/ ClearStaleEvents(h)
  <2>1. UNCHANGED <<messages, incidents>> /\ pc[h] # "setMessageId"
    BY <1>1 DEF SkipUnknownEvent, LockIncident, ReleaseAndRespond, MarkEvent, UnmarkFailed,
       LoadRecord, ClearStaleEvents, ClearStale, chat, redis
  <2>2. \A g \in Handlers \ {h} : pc'[g] = pc[g] /\ req'[g] = req[g]
    BY <1>0, <1>1 DEF SkipUnknownEvent, LockIncident, ReleaseAndRespond, MarkEvent, UnmarkFailed,
       LoadRecord, ClearStaleEvents, ClearStale, Respond, Reset, Finish, Goto, TypeOK
  <2> QED
    BY <1>0, <2>1, <2>2, QuietTask
<1> SUFFICES ASSUME UpsertRecord(h) \/ SendIncident(h) \/ SetMessage(h) \/ EditIncident(h),
                    NEW k \in Incidents
             PROVE  Accounted(k)
  BY <1>1 DEF WebhookStep
<1>2. /\ pc[h] \in {"upsert", "notify", "setMessageId"} /\ UNCHANGED req
      /\ \A g \in Handlers \ {h} : pc'[g] = pc[g]
  BY <1>0 DEF UpsertRecord, SendIncident, SetMessage, EditIncident, Finish, Goto, TypeOK
<1>3. PICK i \in Incidents : i = req[h].incident
  BY <1>0, <1>2, CriticalIncident
<1>4. /\ WebhookExact(h, i) /\ i \in Keys /\ k \in Keys /\ incidents[i] \in Record \cup {None}
      /\ rec[h] \in Record /\ rec[h].id \in {i, EmptyId}
  BY <1>0, <1>2, <1>3 DEF InCritical, ExactInv, TaskExact, TypeOK, WebhookTaskOK, Keys, BackedInv,
     Backed, WebhookBacked, StandsFor
<1>5. pc[h] # "setMessageId" =>
        \A g \in WebhookHandlers : pc[g] = "setMessageId" /\ req[g].incident = k
           => pc'[g] = "setMessageId" /\ req'[g].incident = k
  BY <1>2 DEF Handlers
<1>6. CASE UpsertRecord(h)
  <2>1. MessagesOf(k)' = MessagesOf(k)
    BY <1>6 DEF UpsertRecord, chat, MessagesOf
  <2>2. incidents' \in {incidents, [incidents EXCEPT ![rec[h].id] = rec[h]]} /\ pc[h] = "upsert"
    BY <1>6 DEF UpsertRecord, Upsert
  <2>3. Wordless(k)' => Wordless(k)
    <3>1. CASE k = rec[h].id
      <4>1. k = i /\ (incidents'[k] = incidents[k] \/ incidents'[k] = rec[h])
        BY <1>4, <2>2, <3>1, IdAssumption DEF TypeOK
      <4> QED
        BY <1>4, <2>2, <4>1, OptionAssumption DEF WebhookExact, Wordless
    <3>2. CASE k # rec[h].id
      BY <1>4, <2>2, <3>2 DEF TypeOK, Wordless
    <3> QED
      BY <3>1, <3>2
  <2> QED
    BY <1>0, <1>5, <2>1, <2>2, <2>3, Uneventful
<1>7. CASE EditIncident(h)
  <2>1. pc[h] = "notify" /\ UNCHANGED incidents
    BY <1>7 DEF EditIncident, redis
  <2>2. MessagesOf(k)' = MessagesOf(k)
    <3>1. rec[h].message_id # None /\ Exact(rec[h])
      BY <1>4, <1>7 DEF EditIncident, WebhookExact, Holding
    <3>2. messages' \in {messages, EditMessage(rec[h].message_id, rec[h])}
      BY <1>7 DEF EditIncident
    <3> QED
      BY <1>4, <3>1, <3>2, EditedMessages
  <2> QED
    BY <1>0, <1>5, <2>1, <2>2, Uneventful DEF Wordless
<1>8. CASE SendIncident(h)
  <2>1. pc[h] = "notify" /\ UNCHANGED incidents /\ rec[h].message_id = None
    BY <1>8 DEF SendIncident, redis
  <2>2. Wordless(k)' = Wordless(k) /\ (k = i => Wordless(k))
    BY <1>4, <2>1 DEF WebhookExact, Wordless, Holding
  <2>3. CanSend(k)' => CanSend(k)
    BY <1>5, <2>1, <2>2 DEF CanSend
  <2>4. CASE messages' = SendMessage(rec[h]) /\ Goto(h, "setMessageId") /\ UNCHANGED spent
    <3>1. CASE rec[h].id = k
      <4>1. k = i
        BY <1>4, <3>1, IdAssumption
      <4>2. \E x : MessagesOf(k)' = MessagesOf(k) \cup {x}
        BY <1>4, <2>4, <3>1, SentMessages
      <4>3. ~CanSend(k)'
        BY <1>0, <1>2, <1>3, <2>4, <4>1 DEF CanSend, Goto, TypeOK
      <4>4. CASE CanSend(k)
        BY <1>0, <4>2, <4>3, <4>4, PaidGrows DEF Accounted
      <4>5. \A g \in WebhookHandlers : ~(pc[g] = "setMessageId" /\ req[g].incident = k)
        BY <1>0, <1>3, <2>1, <4>1 DEF Exclusive, Working, InCritical, Handlers
      <4> QED
        BY <2>2, <4>1, <4>4, <4>5 DEF CanSend
    <3>2. CASE rec[h].id # k
      <4>1. MessagesOf(k)' = MessagesOf(k)
        BY <1>4, <2>4, <3>2, SentMessages
      <4> QED
        BY <1>0, <2>3, <4>1, PaidGrows DEF Accounted
    <3> QED
      BY <3>1, <3>2
  <2>5. CASE Spend("telegram") /\ messages' \in {messages, SendMessage(rec[h])}
    <3>1. MessagesOf(k)' = MessagesOf(k) \/ \E x : MessagesOf(k)' = MessagesOf(k) \cup {x}
      BY <1>4, <2>5, SentMessages DEF MessagesOf
    <3> QED
      BY <2>3, <2>5, <3>1, PaidMore DEF Accounted
  <2> QED
    BY <1>8, <2>4, <2>5 DEF SendIncident
<1>9. CASE SetMessage(h)
  <2>1. MessagesOf(k)' = MessagesOf(k) /\ pc[h] = "setMessageId"
    BY <1>9 DEF SetMessage, chat, MessagesOf
  <2>2. CASE Spend("store") \/ Spend("storeReply")
    BY <2>1, <2>2, PaidMore DEF Accounted
  <2>3. CASE /\ incidents' = SetMessageId(incidents, i, rec[h].chat_id, rec[h].message_id)
             /\ UNCHANGED spent
    <3>1. incidents[i] # None /\ incidents[i] \in Record /\ rec[h].message_id # None
      BY <1>4, <2>1 DEF WebhookExact, Holding
    <3> DEFINE new == [incidents[i] EXCEPT !.chat_id = rec[h].chat_id,
                                           !.message_id = rec[h].message_id]
    <3>2. incidents' = [incidents EXCEPT ![i] = new]
      BY <2>3, <3>1 DEF SetMessageId, Fields
    <3>3. new \in Record /\ new.message_id # None
      BY <1>4, <3>1 DEF Record
    <3> HIDE DEF new
    <3>4. CASE k = i
      <4>1. incidents'[k] = new /\ new # None
        BY <1>4, <3>2, <3>3, <3>4, OptionAssumption DEF TypeOK
      <4> QED
        BY <1>0, <2>1, <3>3, <4>1, PaidGrows DEF Accounted, CanSend, Wordless
    <3>5. CASE k # i
      <4>1. incidents'[k] = incidents[k]
        BY <1>4, <3>2, <3>5 DEF TypeOK
      <4>2. \A g \in WebhookHandlers : pc[g] = "setMessageId" /\ req[g].incident = k
               => pc'[g] = "setMessageId" /\ req'[g].incident = k
        BY <1>2, <1>3, <3>5 DEF Handlers
      <4> QED
        BY <1>0, <2>1, <4>1, <4>2, Uneventful DEF Wordless
    <3> QED
      BY <3>4, <3>5
  <2> QED
    BY <1>3, <1>9, <2>2, <2>3 DEF SetMessage, WriteFails
<1> QED
  BY <1>6, <1>7, <1>8, <1>9

LEMMA CallbackCounts ==
  ASSUME TypeOK, ExactInv, NEW h \in CallbackHandlers, CallbackStep(h)
  PROVE  \A k \in Incidents : Accounted(k)
<1>0. /\ h \in Handlers /\ h \notin WebhookHandlers
      /\ UNCHANGED spent \/ \E kind \in Kinds : Spend(kind)
  BY HandlersAssumption DEF Handlers, CallbackStep, TakeClick, LockForCallback, CallBetterStack,
     RetryCall, LoadCurrent, StoreStatus, Reload, EditAfterClick, ReleaseAndAnswer, WriteFails,
     Kinds, Faults
<1>1. pc[h] # "setMessageId" /\ \A g \in Handlers \ {h} : pc'[g] = pc[g] /\ req'[g] = req[g]
  BY <1>0 DEF CallbackStep, TakeClick, LockForCallback, CallBetterStack, RetryCall, LoadCurrent,
     StoreStatus, Reload, EditAfterClick, ReleaseAndAnswer, Answer, Reset, Conclude, Goto, tasks,
     TypeOK
<1>2. CASE UNCHANGED <<messages, incidents>>
  BY <1>0, <1>1, <1>2, QuietTask
<1> SUFFICES ASSUME StoreStatus(h) \/ EditAfterClick(h), NEW k \in Incidents
             PROVE  Accounted(k)
  BY <1>2 DEF CallbackStep, TakeClick, LockForCallback, CallBetterStack, RetryCall, LoadCurrent,
     Reload, ReleaseAndAnswer, chat, redis
<1>3. \A g \in WebhookHandlers : pc[g] = "setMessageId" /\ req[g].incident = k
         => pc'[g] = "setMessageId" /\ req'[g].incident = k
  BY <1>0, <1>1 DEF Handlers
<1>4. pc[h] \in {"setStatus", "edit"} /\ rec[h] \in Record /\ k \in Keys
  BY <1>0 DEF StoreStatus, EditAfterClick, TypeOK, CallbackTaskOK, Keys
<1>5. CASE StoreStatus(h)
  <2>1. PICK i \in Incidents : i = req[h].incident
    BY <1>0, <1>4, CriticalIncident
  <2>2. PICK status \in Statuses : status = rec[h].status
    BY <1>4 DEF Record
  <2>3. i \in Keys /\ incidents \in [Keys -> Record \cup {None}]
    BY DEF Keys, TypeOK
  <2>4. PICK new \in Record :
           /\ SetStatus(incidents, i, status) = [incidents EXCEPT ![i] = new]
           /\ new.message_id = IF incidents[i] = None THEN None ELSE incidents[i].message_id
    BY <2>3, SetStatusKeepsMessage
  <2>5. incidents' \in {incidents, [incidents EXCEPT ![i] = new]}
    BY <1>5, <2>1, <2>2, <2>4 DEF StoreStatus, WriteFails
  <2>6. Wordless(k)' => Wordless(k)
    BY <1>4, <2>3, <2>4, <2>5, OptionAssumption DEF Wordless
  <2>7. MessagesOf(k)' = MessagesOf(k)
    BY <1>5 DEF StoreStatus, chat, MessagesOf
  <2> QED
    BY <1>0, <1>3, <2>6, <2>7, Uneventful
<1>6. CASE EditAfterClick(h)
  <2>1. Exact(rec[h]) /\ rec[h].message_id # None /\ UNCHANGED incidents
    BY <1>0, <1>6 DEF EditAfterClick, ExactInv, TaskExact, InCritical, redis
  <2>2. MessagesOf(k)' = MessagesOf(k)
    BY <1>4, <1>6, <2>1, EditedMessages DEF EditAfterClick
  <2> QED
    BY <1>0, <1>3, <2>1, <2>2, Uneventful DEF Wordless
<1> QED
  BY <1>5, <1>6

LEMMA CountInit == Init => CountInv
<1> SUFFICES ASSUME Init, NEW i \in Incidents PROVE Counted(i)
  BY DEF CountInv
<1>1. MessagesOf(i) = {}
  BY DEF Init, WorldInit, MessagesOf
<1>2. Paid = 1
  <2>1. \A k \in Kinds : spent[k] = 0
    BY DEF Init, WorldInit
  <2> QED
    BY <2>1 DEF Paid, Kinds, Faults
<1> QED
  BY <1>1, <1>2, FS_EmptySet DEF Counted

LEMMA CountNext ==
  ASSUME TypeOK, BackedInv, LockHeld, spent["lease"] = 0, ExactInv, CountInv, [Next]_vars
  PROVE  CountInv'
<1>0. UNCHANGED vars => UNCHANGED <<messages, incidents, pc, req, spent>>
  BY DEF vars, chat, redis, tasks
<1>1. CASE UNCHANGED vars
  BY <1>0, <1>1 DEF CountInv, Counted, MessagesOf, CanSend, Wordless, Paid
<1>2. CASE Next
  <2>1. \A i \in Incidents : Accounted(i)
    BY <1>2, EnvironmentCounts, WebhookCounts, CallbackCounts DEF Next, LockHeld, Exclusive
  <2>2. UNCHANGED spent \/ \E kind \in Kinds : Spend(kind)
    BY <1>2 DEF Next, Environment, Happen, Deliver, Overtake, GiveUp, Click, DeleteMessage,
       OrphanedLockExpires, LeaseLost, RecordExpires, DedupExpires, Crash, WebhookStep,
       SkipUnknownEvent, LockIncident, MarkEvent, LoadRecord, UpsertRecord, ClearStaleEvents,
       ClearStale, SendIncident, SetMessage, EditIncident, UnmarkFailed, ReleaseAndRespond,
       CallbackStep, TakeClick, LockForCallback, CallBetterStack, RetryCall, LoadCurrent,
       StoreStatus, Reload, EditAfterClick, ReleaseAndAnswer, WriteFails, Kinds, Faults
  <2> QED
    BY <2>1, <2>2, PaidGrows, AccountedCounts DEF CountInv
<1> QED
  BY <1>1, <1>2

(***************************************************************************)
(* The whole invariant, as long as no lease has run out under its holder.  *)
(***************************************************************************)
MessageInv == spent["lease"] = 0 => ExactInv /\ CountInv

(***************************************************************************)
(* An incident has one message, and at most one more for each crash, each  *)
(* failed Redis or Telegram call and each expired record: whatever the     *)
(* number of tasks, duplicates and retries, process_marked_webhook sends   *)
(* one only when the record it read under the lock has no message_id.      *)
(***************************************************************************)
THEOREM MessagesAreAccounted == Spec => []ExtraMessagesPaid
<1>1. Init => MessageInv /\ LockHeld
  BY ExactInit, CountInit DEF MessageInv, Init, WorldInit, LockHeld, Working, InCritical
<1>2. TypeOK /\ BackedInv /\ LockHeld /\ MessageInv /\ [Next]_vars => MessageInv'
  <2> SUFFICES ASSUME TypeOK, BackedInv, LockHeld, MessageInv, [Next]_vars, spent'["lease"] = 0
               PROVE  ExactInv' /\ CountInv'
    BY DEF MessageInv
  <2>1. spent["lease"] \in Nat
    BY DEF TypeOK, Kinds, Faults
  <2>2. spent["lease"] = 0
    <3>1. CASE UNCHANGED vars
      BY <3>1 DEF vars
    <3>2. CASE Next
      BY <2>1, <3>2, LockDisciplineStep DEF LockDiscipline
    <3> QED
      BY <3>1, <3>2
  <2> QED
    BY <2>2, ExactNext, CountNext DEF MessageInv
<1>3. TypeOK /\ MessageInv => ExtraMessagesPaid
  <2> SUFFICES ASSUME TypeOK, MessageInv, spent["lease"] = 0, NEW i \in Incidents
               PROVE  Cardinality(MessagesOf(i)) <= Paid
    BY DEF ExtraMessagesPaid, Paid
  <2>1. Paid \in Nat
    <3>1. \A k \in Kinds : spent[k] \in Nat
      BY DEF TypeOK
    <3> QED
      BY <3>1 DEF Paid, Kinds, Faults
  <2> QED
    BY <2>1, FS_CardinalityType DEF MessageInv, CountInv, Counted
<1> QED
  BY <1>1, <1>2, <1>3, LockHeldStep, AlwaysBacked, TypeCorrect, PTL DEF Spec
=============================================================================
