----------------------------- MODULE BotProofs ------------------------------
(***************************************************************************)
(* Theorems about Bot for any number of incidents and tasks and for every  *)
(* budget, and their proofs.                                               *)
(***************************************************************************)
EXTENDS Bot, SequenceTheorems, TLAPS

-----------------------------------------------------------------------------
(***************************************************************************)
(* Lemmas about the operators of Incident and RedisStore.                  *)
(***************************************************************************)
\* incident::next is total on statuses, whatever the trigger.
LEMMA NextStatusType ==
  ASSUME NEW current \in Statuses, NEW trigger
  PROVE  NextStatus(current, trigger) \in Statuses
BY DEF NextStatus, Statuses

\* The record that a webhook is about to upsert is a record.
LEMMA UpdatedType ==
  ASSUME NEW stored \in Record \cup {None}, NEW i \in Incidents,
         NEW event, NEW meta
  PROVE  Updated(stored, i, event, meta) \in Record
<1> DEFINE base == IF stored = None THEN [DefaultRecord EXCEPT !.id = i] ELSE stored
           status == NextStatus(base.status, FromEvent(event))
<1>1. base \in Record
  BY DEF Record, DefaultRecord, Keys, Statuses
<1>2. status \in Statuses
  BY <1>1, NextStatusType DEF Record
<1> HIDE DEF base, status
<1>3. [base EXCEPT
          !.status          = status,
          !.acknowledged_at = ~(status = "started") /\ (@ \/ "acknowledged_at" \in meta),
          !.resolved_at     = ~(status = "started") /\ (@ \/ "resolved_at" \in meta)]
      \in Record
  BY <1>1, <1>2 DEF Record
<1> QED
  BY <1>3 DEF Updated, base, status

\* The record that set_message_id and set_status write their fields into.
LEMMA FieldsType ==
  ASSUME NEW db \in [Keys -> Record \cup {None}], NEW id \in Keys
  PROVE  Fields(db, id) \in Record
BY DEF Fields, DefaultRecord, Record, Keys, Statuses

\* Each write of the store leaves a record under each key, or nothing.
LEMMA UpsertType ==
  ASSUME NEW db \in [Keys -> Record \cup {None}], NEW r \in Record
  PROVE  Upsert(db, r) \in [Keys -> Record \cup {None}]
BY DEF Upsert, Record

LEMMA SetMessageIdType ==
  ASSUME NEW db \in [Keys -> Record \cup {None}], NEW id \in Keys,
         NEW room \in {None, ChatId}, NEW message \in Nat \cup {None}
  PROVE  SetMessageId(db, id, room, message) \in [Keys -> Record \cup {None}]
<1>1. Fields(db, id) \in Record
  BY FieldsType
<1>2. [Fields(db, id) EXCEPT !.chat_id = room, !.message_id = message] \in Record
  BY <1>1 DEF Record
<1> QED
  BY <1>2 DEF SetMessageId

LEMMA SetStatusType ==
  ASSUME NEW db \in [Keys -> Record \cup {None}], NEW id \in Keys,
         NEW status \in Statuses
  PROVE  SetStatus(db, id, status) \in [Keys -> Record \cup {None}]
<1>1. Fields(db, id) \in Record
  BY FieldsType
<1>2. [Fields(db, id) EXCEPT !.status = status,
                             !.acknowledged_at = @ \/ status = "acknowledged",
                             !.resolved_at = @ \/ status = "resolved"] \in Record
  BY <1>1 DEF Record
<1> QED
  BY <1>2 DEF SetStatus

\* Sending and editing keep the chat a sequence of views, whatever id is edited.
LEMMA ViewType == ASSUME NEW r \in Record PROVE View(r) \in Views
BY DEF View, Record, Views

LEMMA SendMessageType ==
  ASSUME messages \in Seq(Views), NEW r \in Record
  PROVE  SendMessage(r) \in Seq(Views)
BY ViewType, AppendProperties DEF SendMessage

LEMMA EditMessageType ==
  ASSUME messages \in Seq(Views), NEW m, NEW r \in Record
  PROVE  EditMessage(m, r) \in Seq(Views)
<1>1. messages \in [1 .. Len(messages) -> Views] /\ DOMAIN messages = 1 .. Len(messages)
  BY LenProperties
<1>2. CASE m \in 1 .. Len(messages)
  BY <1>2, ViewType, ExceptSeq DEF EditMessage
<1>3. CASE m \notin 1 .. Len(messages)
  <2>1. EditMessage(m, r) = messages
    BY <1>1, <1>3 DEF EditMessage
  <2> QED
    BY <2>1
<1> QED
  BY <1>2, <1>3

-----------------------------------------------------------------------------
(***************************************************************************)
(* Type correctness.  One lemma for each part of the next-state relation.  *)
(***************************************************************************)
LEMMA TypeInit == Init => TypeOK
<1> SUFFICES ASSUME Init PROVE TypeOK
  OBVIOUS
<1> USE DEF Init, WorldInit
<1>1. /\ timeline \in [Incidents -> Seq(Events)]
      /\ messages \in Seq(Views)
      /\ inbox \in [CallbackHandlers -> Seq(Presses)]
  BY EmptySeq
<1>2. /\ pending \in [Incidents -> SUBSET Nat]
      /\ \A i \in Incidents : pending[i] \subseteq DOMAIN timeline[i]
      /\ incidents \in [Keys -> Record \cup {None}]
      /\ dedup \subseteq Incidents \X Events
      /\ locks \in [Incidents -> Handlers \cup {None}]
      /\ pc \in [Handlers -> WebhookSteps \cup CallbackSteps]
      /\ req \in [Handlers -> Webhooks \cup Presses \cup {None}]
      /\ rec \in [Handlers -> Record \cup {None}]
      /\ out \in [Handlers -> {"200", "500", "Success", "Alert", None}]
      /\ applied \in [Incidents -> SUBSET Nat]
      /\ spent \in [Kinds -> Nat]
  BY DEF WebhookSteps, CallbackSteps
<1>3. \A h \in WebhookHandlers : WebhookTaskOK(h)
  BY DEF WebhookTaskOK, Handlers, WebhookSteps
<1>4. \A h \in CallbackHandlers : CallbackTaskOK(h)
  BY DEF CallbackTaskOK, Handlers, CallbackSteps
<1> QED
  BY <1>1, <1>2, <1>3, <1>4 DEF TypeOK

\* An event is recorded, by Better Stack itself or for a button.
LEMMA LogType ==
  ASSUME TypeOK, NEW i \in Incidents, NEW event \in Events, Log(i, event)
  PROVE  /\ timeline' \in [Incidents -> Seq(Events)]
         /\ pending' \in [Incidents -> SUBSET Nat]
         /\ \A j \in Incidents : pending'[j] \subseteq DOMAIN timeline'[j]
<1>1. timeline[i] \in Seq(Events)
  BY DEF TypeOK
<1>2. Append(timeline[i], event) \in Seq(Events) /\ Len(timeline[i]) \in Nat
  BY <1>1, AppendProperties, LenProperties
<1>3. /\ DOMAIN timeline[i] = 1 .. Len(timeline[i])
      /\ DOMAIN Append(timeline[i], event) = 1 .. (Len(timeline[i]) + 1)
  BY <1>1, <1>2, AppendProperties, LenProperties
<1>4. ASSUME NEW j \in Incidents PROVE pending'[j] \subseteq DOMAIN timeline'[j]
  BY <1>2, <1>3, <1>4 DEF TypeOK, Log
<1> QED
  BY <1>2, <1>4 DEF TypeOK, Log

LEMMA SpendType ==
  ASSUME TypeOK, NEW kind \in Kinds, Spend(kind)
  PROVE  spent' \in [Kinds -> Nat]
BY DEF TypeOK, Spend

LEMMA OvertakeType ==
  ASSUME TypeOK, Overtake
  PROVE  spent' \in [Kinds -> Nat]
BY SpendType DEF TypeOK, Overtake, Kinds

LEMMA HappenType ==
  ASSUME TypeOK, NEW i \in Incidents, NEW event \in Events, Happen(i, event)
  PROVE  TypeOK'
<1>1. spent' \in [Kinds -> Nat]
  BY SpendType DEF TypeOK, Happen, Kinds
<1>2. /\ timeline' \in [Incidents -> Seq(Events)]
      /\ pending' \in [Incidents -> SUBSET Nat]
      /\ \A j \in Incidents : pending'[j] \subseteq DOMAIN timeline'[j]
  BY LogType DEF Happen
<1> QED
  BY <1>1, <1>2 DEF Happen, TypeOK, WebhookTaskOK, CallbackTaskOK, chat, redis, tasks

\* A step of one task leaves the locals of the others as they are.
Elsewhere(h) ==
  \A g \in Handlers \ {h} : /\ pc'[g] = pc[g] /\ req'[g] = req[g]
                            /\ rec'[g] = rec[g] /\ out'[g] = out[g]

TasksTyped ==
  /\ pc \in [Handlers -> WebhookSteps \cup CallbackSteps]
  /\ req \in [Handlers -> Webhooks \cup Presses \cup {None}]
  /\ rec \in [Handlers -> Record \cup {None}]
  /\ out \in [Handlers -> {"200", "500", "Success", "Alert", None}]

WorldTyped ==
  /\ timeline \in [Incidents -> Seq(Events)]
  /\ pending \in [Incidents -> SUBSET Nat]
  /\ \A i \in Incidents : pending[i] \subseteq DOMAIN timeline[i]
  /\ messages \in Seq(Views)
  /\ inbox \in [CallbackHandlers -> Seq(Presses)]
  /\ incidents \in [Keys -> Record \cup {None}]
  /\ dedup \subseteq Incidents \X Events
  /\ locks \in [Incidents -> Handlers \cup {None}]
  /\ applied \in [Incidents -> SUBSET Nat]
  /\ spent \in [Kinds -> Nat]

\* So the types hold after a step of a task if its own locals are right.
LEMMA WebhookStepType ==
  ASSUME TypeOK, NEW h \in WebhookHandlers,
         WorldTyped', TasksTyped', Elsewhere(h), WebhookTaskOK(h)'
  PROVE  TypeOK'
<1>1. \A g \in WebhookHandlers : WebhookTaskOK(g)'
  <2> TAKE g \in WebhookHandlers
  <2> QED
    BY DEF TypeOK, Elsewhere, WebhookTaskOK, Handlers
<1>2. \A g \in CallbackHandlers : CallbackTaskOK(g)'
  <2> TAKE g \in CallbackHandlers
  <2>1. g \in Handlers \ {h}
    BY HandlersAssumption DEF Handlers
  <2> QED
    BY <2>1 DEF TypeOK, Elsewhere, CallbackTaskOK
<1> QED
  BY <1>1, <1>2 DEF TypeOK, WorldTyped, TasksTyped

LEMMA CallbackStepType ==
  ASSUME TypeOK, NEW h \in CallbackHandlers,
         WorldTyped', TasksTyped', Elsewhere(h), CallbackTaskOK(h)'
  PROVE  TypeOK'
<1>1. \A g \in CallbackHandlers : CallbackTaskOK(g)'
  <2> TAKE g \in CallbackHandlers
  <2> QED
    BY DEF TypeOK, Elsewhere, CallbackTaskOK, Handlers
<1>2. \A g \in WebhookHandlers : WebhookTaskOK(g)'
  <2> TAKE g \in WebhookHandlers
  <2>1. g \in Handlers \ {h}
    BY HandlersAssumption DEF Handlers
  <2> QED
    BY <2>1 DEF TypeOK, Elsewhere, WebhookTaskOK
<1> QED
  BY <1>1, <1>2 DEF TypeOK, WorldTyped, TasksTyped

LEMMA DeliverType ==
  ASSUME TypeOK, NEW h \in WebhookHandlers, NEW i \in Incidents,
         NEW n \in pending[i], Deliver(h, i, n)
  PROVE  TypeOK'
<1> DEFINE request == [incident |-> i, what |-> timeline[i][n],
                       no |-> n, awaited |-> TRUE]
<1>1. timeline[i] \in Seq(Events) /\ n \in Nat /\ n \in 1 .. Len(timeline[i])
  BY LenProperties DEF TypeOK
<1>2. request \in Webhooks
  BY <1>1, ElementOfSeq DEF Webhooks
<1>3. h \in Handlers
  BY DEF Handlers
<1>4. pc' = [pc EXCEPT ![h] = "lock"] /\ req' = [req EXCEPT ![h] = request]
      /\ rec' = rec /\ out' = out
  BY DEF Deliver, Goto
<1> HIDE DEF request
<1>5. WorldTyped'
  BY OvertakeType DEF Deliver, TypeOK, WorldTyped, chat, redis, upstream
<1>6. TasksTyped' /\ Elsewhere(h)
  BY <1>2, <1>3, <1>4 DEF TypeOK, TasksTyped, Elsewhere, WebhookSteps
<1>7. WebhookTaskOK(h)'
  BY <1>2, <1>3, <1>4 DEF TypeOK, WebhookTaskOK, WebhookSteps
<1> QED
  BY <1>5, <1>6, <1>7, WebhookStepType

LEMMA GiveUpType ==
  ASSUME TypeOK, NEW h \in WebhookHandlers, GiveUp(h)
  PROVE  TypeOK'
<1>1. h \in Handlers /\ req[h] \in Webhooks
  BY DEF Handlers, GiveUp, TypeOK, WebhookTaskOK
<1>2. [req[h] EXCEPT !.awaited = FALSE] \in Webhooks
  BY <1>1 DEF Webhooks
<1>3. req' = [req EXCEPT ![h] = [req[h] EXCEPT !.awaited = FALSE]]
  BY DEF GiveUp
<1>4. pc' = pc /\ rec' = rec /\ out' = out
  BY DEF GiveUp
<1>5. WorldTyped'
  BY SpendType DEF GiveUp, TypeOK, WorldTyped, chat, redis, upstream, Kinds, Faults
<1>6. TasksTyped' /\ Elsewhere(h)
  BY <1>1, <1>2, <1>3, <1>4 DEF TypeOK, TasksTyped, Elsewhere
<1>7. WebhookTaskOK(h)'
  BY <1>1, <1>2, <1>3, <1>4 DEF TypeOK, WebhookTaskOK
<1> QED
  BY <1>5, <1>6, <1>7, WebhookStepType

LEMMA ClickType ==
  ASSUME TypeOK, NEW h \in CallbackHandlers, NEW m \in DOMAIN messages,
         NEW action \in {"Acknowledge", "Resolve"}, Click(h, m, action)
  PROVE  TypeOK'
<1> DEFINE press == [incident |-> messages[m].id, what |-> action,
                     no |-> 0, awaited |-> FALSE]
<1>1. messages[m] \in Views
  BY ElementOfSeq, LenProperties DEF TypeOK
<1>2. press \in Presses
  BY <1>1 DEF Views, Presses
<1>3. inbox[h] \in Seq(Presses) /\ inbox' = [inbox EXCEPT ![h] = Append(inbox[h], press)]
  BY DEF TypeOK, Click
<1> HIDE DEF press
<1>4. inbox' \in [CallbackHandlers -> Seq(Presses)]
  BY <1>2, <1>3, AppendProperties DEF TypeOK
<1>5. spent' \in [Kinds -> Nat]
  BY SpendType DEF Click, Kinds
<1> QED
  BY <1>4, <1>5 DEF Click, TypeOK, WebhookTaskOK, CallbackTaskOK, redis, tasks, upstream

LEMMA DeleteMessageType ==
  ASSUME TypeOK, NEW m \in DOMAIN messages, DeleteMessage(m)
  PROVE  TypeOK'
<1>1. messages[m] \in Views
  BY ElementOfSeq, LenProperties DEF TypeOK
<1>2. [messages[m] EXCEPT !.deleted = TRUE] \in Views
  BY <1>1 DEF Views
<1>3. messages' = [messages EXCEPT ![m] = [messages[m] EXCEPT !.deleted = TRUE]]
  BY DEF DeleteMessage
<1>4. messages' \in Seq(Views)
  BY <1>2, <1>3, ExceptSeq DEF TypeOK
<1>5. spent' \in [Kinds -> Nat]
  BY SpendType DEF DeleteMessage, Kinds
<1> QED
  BY <1>4, <1>5 DEF DeleteMessage, TypeOK, WebhookTaskOK, CallbackTaskOK, redis, tasks,
     upstream

\* Redis expires a key.
LEMMA ExpiryType ==
  ASSUME TypeOK, NEW i \in Incidents,
         \/ OrphanedLockExpires(i) \/ LeaseLost(i) \/ RecordExpires(i)
         \/ \E event \in Events : DedupExpires(i, event)
  PROVE  TypeOK'
<1>1. /\ locks' \in [Incidents -> Handlers \cup {None}]
      /\ incidents' \in [Keys -> Record \cup {None}]
      /\ dedup' \subseteq Incidents \X Events
  BY DEF TypeOK, OrphanedLockExpires, LeaseLost, RecordExpires, DedupExpires
<1>2. spent' \in [Kinds -> Nat]
  BY SpendType DEF TypeOK, OrphanedLockExpires, LeaseLost, RecordExpires,
     DedupExpires, Kinds, Faults
<1>3. UNCHANGED <<upstream, chat, tasks, applied>>
  BY DEF OrphanedLockExpires, LeaseLost, RecordExpires, DedupExpires
<1> QED
  BY <1>1, <1>2, <1>3 DEF TypeOK, WebhookTaskOK, CallbackTaskOK, upstream, chat, tasks

\* Back to "idle": at the end of a request and when the task dies.
LEMMA ResetType ==
  ASSUME TypeOK, NEW h \in Handlers, Reset(h)
  PROVE  /\ TasksTyped' /\ Elsewhere(h) /\ pc'[h] = "idle"
         /\ h \in WebhookHandlers => WebhookTaskOK(h)'
         /\ h \in CallbackHandlers => CallbackTaskOK(h)'
<1>1. TasksTyped' /\ Elsewhere(h) /\ pc'[h] = "idle"
  BY DEF TypeOK, TasksTyped, Elsewhere, Reset, WebhookSteps
<1> QED
  BY <1>1 DEF WebhookTaskOK, CallbackTaskOK, WebhookSteps, CallbackSteps

LEMMA CrashType ==
  ASSUME TypeOK, NEW h \in Handlers, Crash(h)
  PROVE  TypeOK'
<1>1. inbox' \in [CallbackHandlers -> Seq(Presses)]
  BY EmptySeq DEF Crash, TypeOK
<1>2. WorldTyped'
  BY <1>1, SpendType DEF Crash, TypeOK, WorldTyped, redis, upstream, Kinds, Faults
<1>3. CASE h \in WebhookHandlers
  BY <1>2, <1>3, ResetType, WebhookStepType DEF Crash
<1>4. CASE h \in CallbackHandlers
  BY <1>2, <1>4, ResetType, CallbackStepType DEF Crash
<1> QED
  BY <1>3, <1>4 DEF Handlers

LEMMA EnvironmentType == TypeOK /\ Environment => TypeOK'
BY HappenType, DeliverType, GiveUpType, ClickType, DeleteMessageType, ExpiryType, CrashType DEF Environment

-----------------------------------------------------------------------------
\* The actions of a webhook task.
LEMMA RespondType ==
  ASSUME TypeOK, NEW h \in WebhookHandlers, NEW code, pc[h] # "idle", Respond(h, code)
  PROVE  /\ pending' \in [Incidents -> SUBSET Nat]
         /\ \A i \in Incidents : pending'[i] \subseteq pending[i]
         /\ TasksTyped' /\ Elsewhere(h) /\ WebhookTaskOK(h)'
<1>1. req[h] \in Webhooks /\ h \in Handlers
  BY DEF TypeOK, WebhookTaskOK, Handlers
<1>2. TasksTyped' /\ Elsewhere(h) /\ WebhookTaskOK(h)'
  BY <1>1, ResetType DEF Respond
<1>3. pending' \in [Incidents -> SUBSET Nat] /\ \A i \in Incidents : pending'[i] \subseteq pending[i]
  BY <1>1 DEF Respond, TypeOK, Webhooks
<1> QED
  BY <1>2, <1>3

LEMMA SkipUnknownEventType ==
  ASSUME TypeOK, NEW h \in WebhookHandlers, SkipUnknownEvent(h)
  PROVE  TypeOK'
<1>1. pc[h] # "idle" /\ Respond(h, "200")
  BY DEF SkipUnknownEvent
<1>2. WorldTyped'
  BY <1>1, RespondType DEF SkipUnknownEvent, TypeOK, WorldTyped, chat, redis
<1> QED
  BY <1>1, <1>2, RespondType, WebhookStepType

\* A lock is taken by the task that asks for it, or left as it is.
LEMMA LockType ==
  ASSUME TypeOK, NEW h \in Handlers, NEW i \in Incidents
  PROVE  /\ TryLock(locks, i, h) \in [Incidents -> Handlers \cup {None}]
         /\ ReleaseLock(locks, i, h) \in [Incidents -> Handlers \cup {None}]
BY DEF TypeOK, TryLock, ReleaseLock

LEMMA WriteFailsType ==
  ASSUME TypeOK, NEW value, NEW old, NEW new, WriteFails(value, old, new)
  PROVE  value \in {old, new} /\ spent' \in [Kinds -> Nat]
BY SpendType DEF WriteFails, Kinds, Faults

LEMMA LockIncidentType ==
  ASSUME TypeOK, NEW h \in WebhookHandlers, LockIncident(h)
  PROVE  TypeOK'
<1> DEFINE i == req[h].incident
<1>1. h \in Handlers /\ pc[h] = "lock" /\ req[h] \in Webhooks /\ i \in Incidents
  BY DEF Handlers, LockIncident, TypeOK, WebhookTaskOK, Webhooks
<1>2. UNCHANGED <<timeline, chat, incidents, dedup, applied>>
  BY DEF LockIncident
<1>3. CASE /\ locks' = TryLock(locks, i, h) /\ Goto(h, "mark")
           /\ UNCHANGED <<pending, req, rec, out, spent>>
  <2>1. WorldTyped'
    BY <1>1, <1>2, <1>3, LockType DEF TypeOK, WorldTyped, chat
  <2>2. TasksTyped' /\ Elsewhere(h) /\ WebhookTaskOK(h)'
    BY <1>1, <1>3 DEF TypeOK, TasksTyped, Elsewhere, WebhookTaskOK, Goto, WebhookSteps
  <2> QED
    BY <2>1, <2>2, WebhookStepType
<1>4. ASSUME NEW code, Respond(h, code),
             \/ UNCHANGED <<locks, spent>>
             \/ WriteFails(locks', locks, TryLock(locks, i, h))
      PROVE  TypeOK'
  <2>1. locks' \in [Incidents -> Handlers \cup {None}] /\ spent' \in [Kinds -> Nat]
    BY <1>1, <1>4, LockType, WriteFailsType DEF TypeOK
  <2>2. WorldTyped'
    BY <1>1, <1>2, <1>4, <2>1, RespondType DEF TypeOK, WorldTyped, chat
  <2> QED
    BY <1>1, <1>4, <2>2, RespondType, WebhookStepType
<1> QED
  BY <1>3, <1>4 DEF LockIncident

LEMMA MarkEventType ==
  ASSUME TypeOK, NEW h \in WebhookHandlers, MarkEvent(h)
  PROVE  TypeOK'
<1> DEFINE i == req[h].incident
           event == req[h].what
<1>1. h \in Handlers /\ pc[h] = "mark" /\ req[h] \in Webhooks /\ i \in Incidents /\ event \in Events
  BY DEF Handlers, MarkEvent, TypeOK, WebhookTaskOK, Webhooks
<1>2. dedup' \subseteq Incidents \X Events /\ spent' \in [Kinds -> Nat]
  BY <1>1, WriteFailsType DEF MarkEvent, MarkEventOnce, TypeOK
<1>3. WorldTyped'
  BY <1>2 DEF MarkEvent, TypeOK, WorldTyped, upstream, chat
<1>4. TasksTyped' /\ Elsewhere(h) /\ WebhookTaskOK(h)'
  BY <1>1 DEF MarkEvent, Finish, Goto, TypeOK, TasksTyped, Elsewhere,
     WebhookTaskOK, WebhookSteps
<1> QED
  BY <1>3, <1>4, WebhookStepType

LEMMA LoadRecordType ==
  ASSUME TypeOK, NEW h \in WebhookHandlers, LoadRecord(h)
  PROVE  TypeOK'
<1> DEFINE i == req[h].incident
<1>1. h \in Handlers /\ pc[h] = "get" /\ req[h] \in Webhooks /\ i \in Incidents /\ i \in Keys
  BY DEF Handlers, LoadRecord, TypeOK, WebhookTaskOK, Webhooks, Keys
<1>2. Get(incidents, i) \in Record \cup {None}
  BY <1>1 DEF Get, TypeOK
<1>3. spent' \in [Kinds -> Nat]
  BY SpendType DEF LoadRecord, TypeOK, Kinds, Faults
<1>4. WorldTyped'
  BY <1>3 DEF LoadRecord, TypeOK, WorldTyped, upstream, chat, redis
<1>5. CASE /\ \E meta \in SUBSET Metadata :
                 rec' = [rec EXCEPT ![h] = Updated(Get(incidents, i), i, req[h].what, meta)]
           /\ Goto(h, "upsert")
           /\ UNCHANGED <<req, out>>
  <2>1. PICK meta \in SUBSET Metadata :
           rec' = [rec EXCEPT ![h] = Updated(Get(incidents, i), i, req[h].what, meta)]
    BY <1>5
  <2>2. Updated(Get(incidents, i), i, req[h].what, meta) \in Record
    BY <1>1, <1>2, UpdatedType
  <2>3. TasksTyped' /\ Elsewhere(h) /\ WebhookTaskOK(h)'
    BY <1>1, <1>5, <2>1, <2>2 DEF Goto, TypeOK, TasksTyped, Elsewhere,
       WebhookTaskOK, WebhookSteps
  <2> QED
    BY <1>4, <2>3, WebhookStepType
<1>6. CASE Finish(h, "unmark", "500") /\ UNCHANGED req
  <2>1. TasksTyped' /\ Elsewhere(h) /\ WebhookTaskOK(h)'
    BY <1>1, <1>6 DEF Finish, Goto, TypeOK, TasksTyped, Elsewhere,
       WebhookTaskOK, WebhookSteps
  <2> QED
    BY <1>4, <2>1, WebhookStepType
<1> QED
  BY <1>5, <1>6 DEF LoadRecord

LEMMA UpsertRecordType ==
  ASSUME TypeOK, NEW h \in WebhookHandlers, UpsertRecord(h)
  PROVE  TypeOK'
<1>1. h \in Handlers /\ pc[h] = "upsert" /\ req[h] \in Webhooks /\ rec[h] \in Record
  BY DEF Handlers, UpsertRecord, TypeOK, WebhookTaskOK
<1>2. Upsert(incidents, rec[h]) \in [Keys -> Record \cup {None}]
  BY <1>1, UpsertType DEF TypeOK
<1>3. incidents' \in [Keys -> Record \cup {None}]
  BY <1>2 DEF UpsertRecord, TypeOK
<1>4. applied' \in [Incidents -> SUBSET Nat]
  <2>1. req[h].incident \in Incidents /\ req[h].no \in Nat
    BY <1>1 DEF Webhooks
  <2>2. applied[req[h].incident] \cup {req[h].no} \in SUBSET Nat
    BY <2>1 DEF TypeOK
  <2>3. applied' = applied \/ NoteApplied(h)
    BY DEF UpsertRecord
  <2> QED
    BY <2>1, <2>2, <2>3 DEF NoteApplied, TypeOK
<1>5. spent' \in [Kinds -> Nat]
  BY SpendType DEF UpsertRecord, TypeOK, Kinds, Faults
<1>6. WorldTyped'
  BY <1>3, <1>4, <1>5 DEF UpsertRecord, TypeOK, WorldTyped, upstream, chat
<1>7. TasksTyped' /\ Elsewhere(h) /\ WebhookTaskOK(h)'
  BY <1>1 DEF UpsertRecord, Finish, Goto, TypeOK, TasksTyped, Elsewhere,
     WebhookTaskOK, WebhookSteps
<1> QED
  BY <1>6, <1>7, WebhookStepType

\* The two actions that delete dedup keys.
LEMMA UnmarkType ==
  ASSUME TypeOK, NEW i, NEW event,
         \/ dedup' = UnmarkEvent(dedup, i, event) /\ UNCHANGED spent
         \/ WriteFails(dedup', dedup, UnmarkEvent(dedup, i, event))
  PROVE  dedup' \subseteq Incidents \X Events /\ spent' \in [Kinds -> Nat]
<1>1. UnmarkEvent(dedup, i, event) \subseteq dedup
  BY DEF UnmarkEvent
<1>2. dedup' = dedup \/ dedup' = UnmarkEvent(dedup, i, event)
  BY DEF WriteFails
<1>3. spent' \in [Kinds -> Nat]
  BY SpendType DEF WriteFails, TypeOK, Kinds, Faults
<1> QED
  BY <1>1, <1>2, <1>3 DEF TypeOK

LEMMA ClearStaleType ==
  ASSUME TypeOK, NEW h \in WebhookHandlers, NEW event,
         \/ ClearStale(h, "clearResolved", event, "clearAcknowledged")
         \/ ClearStale(h, "clearAcknowledged", event, "notify")
  PROVE  TypeOK'
<1>1. h \in Handlers /\ req[h] \in Webhooks /\ rec[h] \in Record
  BY DEF Handlers, ClearStale, TypeOK, WebhookTaskOK
<1>2. dedup' \subseteq Incidents \X Events /\ spent' \in [Kinds -> Nat]
  BY UnmarkType DEF ClearStale
<1>3. WorldTyped'
  BY <1>2 DEF ClearStale, TypeOK, WorldTyped, upstream, chat
<1>4. TasksTyped' /\ Elsewhere(h) /\ WebhookTaskOK(h)'
  BY <1>1 DEF ClearStale, Goto, TypeOK, TasksTyped, Elsewhere, WebhookTaskOK, WebhookSteps
<1> QED
  BY <1>3, <1>4, WebhookStepType

LEMMA SendIncidentType ==
  ASSUME TypeOK, NEW h \in WebhookHandlers, SendIncident(h)
  PROVE  TypeOK'
<1>1. h \in Handlers /\ pc[h] = "notify" /\ req[h] \in Webhooks /\ rec[h] \in Record
  BY DEF Handlers, SendIncident, TypeOK, WebhookTaskOK
<1>2. SendMessage(rec[h]) \in Seq(Views) /\ Len(messages) \in Nat
  BY <1>1, SendMessageType, LenProperties DEF TypeOK
<1>3. messages' \in Seq(Views) /\ spent' \in [Kinds -> Nat]
  BY <1>2, SpendType DEF SendIncident, TypeOK, Kinds, Faults
<1>4. WorldTyped'
  BY <1>3 DEF SendIncident, TypeOK, WorldTyped, upstream, redis
<1>5. CASE /\ rec' = [rec EXCEPT ![h].chat_id = ChatId,
                                 ![h].message_id = Len(messages) + 1]
           /\ Goto(h, "setMessageId")
           /\ UNCHANGED <<req, out>>
  <2>1. rec' = [rec EXCEPT ![h] = [rec[h] EXCEPT !.chat_id = ChatId,
                                                 !.message_id = Len(messages) + 1]]
    BY <1>1, <1>5 DEF TypeOK
  <2>2. [rec[h] EXCEPT !.chat_id = ChatId, !.message_id = Len(messages) + 1] \in Record
    <3>1. Len(messages) + 1 \in Nat
      BY <1>2
    <3> QED
      BY <1>1, <3>1 DEF Record
  <2>3. TasksTyped' /\ Elsewhere(h) /\ WebhookTaskOK(h)'
    BY <1>1, <1>5, <2>1, <2>2 DEF Goto, TypeOK, TasksTyped, Elsewhere,
       WebhookTaskOK, WebhookSteps
  <2> QED
    BY <1>4, <2>3, WebhookStepType
<1>6. CASE Finish(h, "release", "200") /\ UNCHANGED req
  <2>1. TasksTyped' /\ Elsewhere(h) /\ WebhookTaskOK(h)'
    BY <1>1, <1>6 DEF Finish, Goto, TypeOK, TasksTyped, Elsewhere,
       WebhookTaskOK, WebhookSteps
  <2> QED
    BY <1>4, <2>1, WebhookStepType
<1> QED
  BY <1>5, <1>6 DEF SendIncident

LEMMA SetMessageType ==
  ASSUME TypeOK, NEW h \in WebhookHandlers, SetMessage(h)
  PROVE  TypeOK'
<1> DEFINE written == SetMessageId(incidents, req[h].incident,
                                   rec[h].chat_id, rec[h].message_id)
<1>1. /\ h \in Handlers /\ req[h] \in Webhooks /\ rec[h] \in Record
      /\ req[h].incident \in Keys
      /\ rec[h].chat_id \in {None, ChatId} /\ rec[h].message_id \in Nat \cup {None}
  BY DEF Handlers, SetMessage, TypeOK, WebhookTaskOK, Webhooks, Record, Keys
<1>2. written \in [Keys -> Record \cup {None}]
  BY <1>1, SetMessageIdType DEF TypeOK
<1> HIDE DEF written
<1>3. (incidents' = written /\ UNCHANGED spent) \/ WriteFails(incidents', incidents, written)
  BY DEF SetMessage, written
<1>4. incidents' \in [Keys -> Record \cup {None}] /\ spent' \in [Kinds -> Nat]
  BY <1>2, <1>3, WriteFailsType DEF TypeOK
<1>5. WorldTyped'
  BY <1>4 DEF SetMessage, TypeOK, WorldTyped, upstream, chat
<1>6. TasksTyped' /\ Elsewhere(h) /\ WebhookTaskOK(h)'
  BY <1>1 DEF SetMessage, Finish, Goto, TypeOK, TasksTyped, Elsewhere,
     WebhookTaskOK, WebhookSteps
<1> QED
  BY <1>5, <1>6, WebhookStepType

LEMMA EditIncidentType ==
  ASSUME TypeOK, NEW h \in WebhookHandlers, EditIncident(h)
  PROVE  TypeOK'
<1>1. h \in Handlers /\ pc[h] = "notify" /\ req[h] \in Webhooks /\ rec[h] \in Record
  BY DEF Handlers, EditIncident, TypeOK, WebhookTaskOK
<1>2. EditMessage(rec[h].message_id, rec[h]) \in Seq(Views)
  BY <1>1, EditMessageType DEF TypeOK
<1>3. messages' \in Seq(Views) /\ spent' \in [Kinds -> Nat]
  BY <1>2, SpendType DEF EditIncident, TypeOK, Kinds, Faults
<1>4. WorldTyped'
  BY <1>3 DEF EditIncident, TypeOK, WorldTyped, upstream, redis
<1>5. TasksTyped' /\ Elsewhere(h) /\ WebhookTaskOK(h)'
  BY <1>1 DEF EditIncident, Finish, Goto, TypeOK, TasksTyped, Elsewhere,
     WebhookTaskOK, WebhookSteps
<1> QED
  BY <1>4, <1>5, WebhookStepType

LEMMA UnmarkFailedType ==
  ASSUME TypeOK, NEW h \in WebhookHandlers, UnmarkFailed(h)
  PROVE  TypeOK'
<1>1. h \in Handlers /\ req[h] \in Webhooks /\ out[h] \in {"200", "500"}
  BY DEF Handlers, UnmarkFailed, TypeOK, WebhookTaskOK
<1>2. dedup' \subseteq Incidents \X Events /\ spent' \in [Kinds -> Nat]
  BY UnmarkType DEF UnmarkFailed
<1>3. WorldTyped'
  BY <1>2 DEF UnmarkFailed, TypeOK, WorldTyped, upstream, chat
<1>4. TasksTyped' /\ Elsewhere(h) /\ WebhookTaskOK(h)'
  BY <1>1 DEF UnmarkFailed, Goto, TypeOK, TasksTyped, Elsewhere, WebhookTaskOK, WebhookSteps
<1> QED
  BY <1>3, <1>4, WebhookStepType

\* Both kinds of task release their lock in the same way.
LEMMA ReleaseType ==
  ASSUME TypeOK, NEW h \in Handlers, NEW i \in Incidents,
         \/ locks' = ReleaseLock(locks, i, h) /\ UNCHANGED spent
         \/ WriteFails(locks', locks, ReleaseLock(locks, i, h))
  PROVE  locks' \in [Incidents -> Handlers \cup {None}] /\ spent' \in [Kinds -> Nat]
BY LockType, WriteFailsType DEF TypeOK

LEMMA ReleaseAndRespondType ==
  ASSUME TypeOK, NEW h \in WebhookHandlers, ReleaseAndRespond(h)
  PROVE  TypeOK'
<1>1. h \in Handlers /\ pc[h] # "idle" /\ req[h].incident \in Incidents /\ Respond(h, out[h])
  BY DEF Handlers, ReleaseAndRespond, TypeOK, WebhookTaskOK, Webhooks
<1>2. locks' \in [Incidents -> Handlers \cup {None}] /\ spent' \in [Kinds -> Nat]
  BY <1>1, ReleaseType DEF ReleaseAndRespond
<1>3. WorldTyped'
  BY <1>1, <1>2, RespondType DEF ReleaseAndRespond, TypeOK, WorldTyped, chat
<1> QED
  BY <1>1, <1>3, RespondType, WebhookStepType

LEMMA WebhookActionType ==
  ASSUME TypeOK, NEW h \in WebhookHandlers, WebhookStep(h)
  PROVE  TypeOK'
BY SkipUnknownEventType, LockIncidentType, MarkEventType, LoadRecordType,
   UpsertRecordType, ClearStaleType, SendIncidentType, SetMessageType,
   EditIncidentType, UnmarkFailedType, ReleaseAndRespondType
   DEF WebhookStep, ClearStaleEvents

-----------------------------------------------------------------------------
\* The actions of a callback task.
LEMMA TakeClickType ==
  ASSUME TypeOK, NEW h \in CallbackHandlers, TakeClick(h)
  PROVE  TypeOK'
<1>1. h \in Handlers /\ inbox[h] \in Seq(Presses) /\ inbox[h] # <<>>
  BY DEF Handlers, TakeClick, TypeOK
<1>2. Head(inbox[h]) \in Presses /\ Tail(inbox[h]) \in Seq(Presses)
  BY <1>1, HeadTailProperties
<1>3. WorldTyped'
  BY <1>2 DEF TakeClick, TypeOK, WorldTyped, upstream, redis
<1>4. TasksTyped' /\ Elsewhere(h)
  <2>1. CASE UNCHANGED tasks
    BY <2>1 DEF tasks, TypeOK, TasksTyped, Elsewhere
  <2>2. CASE /\ pc' = [pc EXCEPT ![h] = "lock"]
             /\ req' = [req EXCEPT ![h] = Head(inbox[h])]
             /\ UNCHANGED <<rec, out>>
    BY <1>1, <1>2, <2>2 DEF TypeOK, TasksTyped, Elsewhere, CallbackSteps
  <2> QED
    BY <2>1, <2>2 DEF TakeClick, Goto, tasks
<1>5. CallbackTaskOK(h)'
  BY <1>1, <1>2 DEF TakeClick, Goto, TypeOK, CallbackTaskOK, CallbackSteps, Presses, Keys
<1> QED
  BY <1>3, <1>4, <1>5, CallbackStepType

LEMMA LockForCallbackType ==
  ASSUME TypeOK, NEW h \in CallbackHandlers, LockForCallback(h)
  PROVE  TypeOK'
<1> DEFINE i == req[h].incident
<1>1. h \in Handlers /\ pc[h] = "lock" /\ req[h] \in Presses /\ i \in Incidents
  BY DEF Handlers, LockForCallback, TypeOK, CallbackTaskOK
<1>2. locks' \in [Incidents -> Handlers \cup {None}] /\ spent' \in [Kinds -> Nat]
  BY <1>1, LockType, WriteFailsType DEF LockForCallback, TypeOK
<1>3. WorldTyped'
  BY <1>2 DEF LockForCallback, TypeOK, WorldTyped, upstream, chat
<1>4. CASE Goto(h, "api") /\ UNCHANGED <<req, rec, out>>
  <2>1. TasksTyped' /\ Elsewhere(h) /\ CallbackTaskOK(h)'
    BY <1>1, <1>4 DEF Goto, TypeOK, TasksTyped, Elsewhere, CallbackTaskOK, CallbackSteps
  <2> QED
    BY <1>3, <2>1, CallbackStepType
<1>5. CASE Reset(h)
  BY <1>1, <1>3, <1>5, ResetType, CallbackStepType
<1> QED
  BY <1>4, <1>5 DEF LockForCallback, Answer

LEMMA CallEffectType ==
  ASSUME TypeOK, NEW h \in CallbackHandlers, pc[h] = "api",
         \/ Accepted(req[h].incident, ActionEvent[req[h].what])
         \/ UNCHANGED upstream
  PROVE  /\ timeline' \in [Incidents -> Seq(Events)]
         /\ pending' \in [Incidents -> SUBSET Nat]
         /\ \A j \in Incidents : pending'[j] \subseteq DOMAIN timeline'[j]
<1> DEFINE i == req[h].incident
           event == ActionEvent[req[h].what]
<1>1. req[h] \in Presses /\ i \in Incidents
  BY DEF TypeOK, CallbackTaskOK
<1>2. event \in Events
  <2>1. req[h].what \in {"Acknowledge", "Resolve"}
    BY <1>1 DEF Presses
  <2>2. /\ ActionEvent["Acknowledge"] = "incident_acknowledged"
        /\ ActionEvent["Resolve"] = "incident_resolved"
    BY DEF ActionEvent
  <2> QED
    BY <2>1, <2>2 DEF Events
<1>3. Log(i, event) \/ UNCHANGED upstream
  BY DEF Accepted
<1> QED
  BY <1>1, <1>2, <1>3, LogType DEF TypeOK, upstream

LEMMA CallBetterStackType ==
  ASSUME TypeOK, NEW h \in CallbackHandlers, CallBetterStack(h)
  PROVE  TypeOK'
<1>1. /\ h \in Handlers /\ pc[h] = "api" /\ req[h] \in Presses
      /\ req[h].incident \in Incidents
  BY DEF Handlers, CallBetterStack, TypeOK, CallbackTaskOK
<1>2. /\ timeline' \in [Incidents -> Seq(Events)]
      /\ pending' \in [Incidents -> SUBSET Nat]
      /\ \A j \in Incidents : pending'[j] \subseteq DOMAIN timeline'[j]
  BY <1>1, CallEffectType DEF CallBetterStack
<1>3. spent' \in [Kinds -> Nat]
  BY SpendType DEF CallBetterStack, TypeOK, Kinds, Faults
<1>4. WorldTyped'
  BY <1>2, <1>3 DEF CallBetterStack, TypeOK, WorldTyped, chat, redis
<1>5. TasksTyped' /\ Elsewhere(h) /\ CallbackTaskOK(h)'
  BY <1>1 DEF CallBetterStack, Conclude, Goto, TypeOK, TasksTyped, Elsewhere,
     CallbackTaskOK, CallbackSteps
<1> QED
  BY <1>4, <1>5, CallbackStepType

LEMMA RetryCallType ==
  ASSUME TypeOK, NEW h \in CallbackHandlers, RetryCall(h)
  PROVE  TypeOK'
<1>1. h \in Handlers
  BY DEF Handlers
<1>2. /\ timeline' \in [Incidents -> Seq(Events)]
      /\ pending' \in [Incidents -> SUBSET Nat]
      /\ \A j \in Incidents : pending'[j] \subseteq DOMAIN timeline'[j]
  BY CallEffectType DEF RetryCall
<1>3. spent' \in [Kinds -> Nat]
  BY SpendType DEF RetryCall, TypeOK, Kinds, Faults
<1>4. WorldTyped'
  BY <1>2, <1>3 DEF RetryCall, TypeOK, WorldTyped, chat, redis
<1>5. TasksTyped' /\ Elsewhere(h) /\ CallbackTaskOK(h)'
  BY <1>1 DEF RetryCall, tasks, TypeOK, TasksTyped, Elsewhere, CallbackTaskOK
<1> QED
  BY <1>1, <1>4, <1>5, CallbackStepType

LEMMA LoadCurrentType ==
  ASSUME TypeOK, NEW h \in CallbackHandlers, LoadCurrent(h)
  PROVE  TypeOK'
<1> DEFINE current == Get(incidents, req[h].incident)
           status  == NextStatus(current.status, ActionTrigger(req[h].what))
<1>1. h \in Handlers /\ pc[h] = "get" /\ req[h] \in Presses /\ req[h].incident \in Incidents
  BY DEF Handlers, LoadCurrent, TypeOK, CallbackTaskOK
<1>2. current \in Record \cup {None}
  BY <1>1 DEF Get, TypeOK, Keys
<1>3. WorldTyped'
  BY SpendType DEF LoadCurrent, TypeOK, WorldTyped, upstream, chat, redis, Kinds, Faults
<1>4. CASE /\ current # None
           /\ rec' = [rec EXCEPT ![h] = [current EXCEPT !.status = status]]
           /\ Goto(h, "setStatus")
           /\ UNCHANGED <<req, out>>
  <2>1. current \in Record /\ status \in Statuses
    BY <1>2, <1>4, NextStatusType DEF Record
  <2> HIDE DEF current, status
  <2>2. [current EXCEPT !.status = status] \in Record
    BY <2>1 DEF Record
  <2>3. TasksTyped' /\ Elsewhere(h) /\ CallbackTaskOK(h)'
    BY <1>1, <1>4, <2>2 DEF Goto, TypeOK, TasksTyped, Elsewhere,
       CallbackTaskOK, CallbackSteps
  <2> QED
    BY <1>3, <2>3, CallbackStepType
<1>5. CASE (Goto(h, "reget") /\ UNCHANGED <<req, rec, out>>)
           \/ (Conclude(h, "Alert") /\ UNCHANGED req)
  <2>1. TasksTyped' /\ Elsewhere(h) /\ CallbackTaskOK(h)'
    BY <1>1, <1>5 DEF Conclude, Goto, TypeOK, TasksTyped, Elsewhere,
       CallbackTaskOK, CallbackSteps
  <2> QED
    BY <1>3, <2>1, CallbackStepType
<1> QED
  BY <1>4, <1>5 DEF LoadCurrent

LEMMA StoreStatusType ==
  ASSUME TypeOK, NEW h \in CallbackHandlers, StoreStatus(h)
  PROVE  TypeOK'
<1> DEFINE written == SetStatus(incidents, req[h].incident, rec[h].status)
<1>1. /\ h \in Handlers /\ req[h] \in Presses /\ req[h].incident \in Incidents
      /\ req[h].incident \in Keys /\ rec[h].status \in Statuses
  BY DEF Handlers, StoreStatus, TypeOK, CallbackTaskOK, Keys, Record
<1>2. written \in [Keys -> Record \cup {None}]
  BY <1>1, SetStatusType DEF TypeOK
<1> HIDE DEF written
<1>3. /\ incidents' = incidents \/ incidents' = written
      /\ spent' \in [Kinds -> Nat]
  BY SpendType DEF StoreStatus, WriteFails, TypeOK, Kinds, Faults, written
<1>4. WorldTyped'
  BY <1>2, <1>3 DEF StoreStatus, TypeOK, WorldTyped, upstream, chat
<1>5. TasksTyped' /\ Elsewhere(h) /\ CallbackTaskOK(h)'
  BY <1>1 DEF StoreStatus, Conclude, Goto, TypeOK, TasksTyped, Elsewhere,
     CallbackTaskOK, CallbackSteps
<1> QED
  BY <1>4, <1>5, CallbackStepType

LEMMA ReloadType ==
  ASSUME TypeOK, NEW h \in CallbackHandlers, Reload(h)
  PROVE  TypeOK'
<1> DEFINE updated == Get(incidents, req[h].incident)
<1>1. h \in Handlers /\ req[h] \in Presses /\ req[h].incident \in Incidents
  BY DEF Handlers, Reload, TypeOK, CallbackTaskOK
<1>2. updated \in Record \cup {None}
  BY <1>1 DEF Get, TypeOK, Keys
<1>3. WorldTyped'
  BY SpendType DEF Reload, TypeOK, WorldTyped, upstream, chat, redis, Kinds, Faults
<1>4. TasksTyped' /\ Elsewhere(h) /\ CallbackTaskOK(h)'
  <2>1. CASE /\ updated # None
             /\ rec' = [rec EXCEPT ![h] = updated]
             /\ pc' = [pc EXCEPT ![h] = "edit"]
             /\ UNCHANGED <<req, out>>
    BY <1>1, <1>2, <2>1 DEF TypeOK, TasksTyped, Elsewhere, CallbackTaskOK, CallbackSteps
  <2>2. CASE \E result \in {"Success", "Alert"} : Conclude(h, result) /\ UNCHANGED req
    BY <1>1, <2>2 DEF Conclude, Goto, TypeOK, TasksTyped, Elsewhere, CallbackTaskOK,
       CallbackSteps
  <2> QED
    BY <2>1, <2>2 DEF Reload, Goto
<1> QED
  BY <1>3, <1>4, CallbackStepType

LEMMA EditAfterClickType ==
  ASSUME TypeOK, NEW h \in CallbackHandlers, EditAfterClick(h)
  PROVE  TypeOK'
<1>1. /\ h \in Handlers /\ req[h] \in Presses /\ req[h].incident \in Incidents
      /\ rec[h] \in Record
  BY DEF Handlers, EditAfterClick, TypeOK, CallbackTaskOK
<1>2. EditMessage(rec[h].message_id, rec[h]) \in Seq(Views)
  BY <1>1, EditMessageType DEF TypeOK
<1>3. messages' \in Seq(Views) /\ spent' \in [Kinds -> Nat]
  BY <1>2, SpendType DEF EditAfterClick, TypeOK, Kinds, Faults
<1>4. WorldTyped'
  BY <1>3 DEF EditAfterClick, TypeOK, WorldTyped, upstream, redis
<1>5. TasksTyped' /\ Elsewhere(h) /\ CallbackTaskOK(h)'
  BY <1>1 DEF EditAfterClick, Conclude, Goto, TypeOK, TasksTyped, Elsewhere,
     CallbackTaskOK, CallbackSteps
<1> QED
  BY <1>4, <1>5, CallbackStepType

LEMMA ReleaseAndAnswerType ==
  ASSUME TypeOK, NEW h \in CallbackHandlers, ReleaseAndAnswer(h)
  PROVE  TypeOK'
<1>1. h \in Handlers /\ req[h].incident \in Incidents /\ Reset(h)
  BY DEF Handlers, ReleaseAndAnswer, Answer, TypeOK, CallbackTaskOK
<1>2. locks' \in [Incidents -> Handlers \cup {None}] /\ spent' \in [Kinds -> Nat]
  BY <1>1, ReleaseType DEF ReleaseAndAnswer
<1>3. WorldTyped'
  BY <1>2 DEF ReleaseAndAnswer, TypeOK, WorldTyped, upstream, chat
<1> QED
  BY <1>1, <1>3, ResetType, CallbackStepType

LEMMA CallbackActionType ==
  ASSUME TypeOK, NEW h \in CallbackHandlers, CallbackStep(h)
  PROVE  TypeOK'
BY TakeClickType, LockForCallbackType, CallBetterStackType, RetryCallType,
   LoadCurrentType, StoreStatusType, ReloadType, EditAfterClickType, ReleaseAndAnswerType
   DEF CallbackStep

LEMMA TypeStutter == TypeOK /\ UNCHANGED vars => TypeOK'
BY DEF TypeOK, WebhookTaskOK, CallbackTaskOK, vars, upstream, chat, redis, tasks

LEMMA TypeStep == TypeOK /\ [Next]_vars => TypeOK'
BY EnvironmentType, WebhookActionType, CallbackActionType, TypeStutter DEF Next

(***************************************************************************)
(* Every reachable state has the types of the Rust code, and every local   *)
(* of a handler is set before the step that uses it (no task reaches       *)
(* upsert, notify or set_status without a record, none answers without a   *)
(* result, and no callback works on an id that did not decode).            *)
(***************************************************************************)
THEOREM TypeCorrect == Spec => []TypeOK
<1> QED
  BY TypeInit, TypeStep, PTL DEF Spec

-----------------------------------------------------------------------------
(***************************************************************************)
(* Mutual exclusion.  What every step does to the locks: whoever starts to *)
(* work takes the lock, and whoever goes on keeps it, or its lease ran out.*)
(***************************************************************************)
LockDiscipline ==
  /\ spent'["lease"] >= spent["lease"]
  /\ \A i \in Incidents, g \in Handlers : Working(g, i)' =>
        \/ locks'[i] = g
        \/ /\ Working(g, i)
           /\ locks[i] = g => locks'[i] = g \/ spent'["lease"] > spent["lease"]

LEMMA SpentGrows ==
  ASSUME TypeOK, UNCHANGED spent \/ \E kind \in Kinds : Spend(kind)
  PROVE  spent'["lease"] >= spent["lease"]
<1>1. spent \in [Kinds -> Nat] /\ "lease" \in Kinds
  BY DEF TypeOK, Kinds, Faults
<1> QED
  BY <1>1 DEF Spend

\* A step that changes no lock, and makes no task start working.
LEMMA NoLockChange ==
  ASSUME TypeOK, UNCHANGED spent \/ \E kind \in Kinds : Spend(kind),
         UNCHANGED locks,
         \A g \in Handlers : InCritical(g)' =>
            InCritical(g) /\ req'[g].incident = req[g].incident
  PROVE  LockDiscipline
BY SpentGrows DEF LockDiscipline, Working

\* A step of a task between taking and releasing its lock.
LEMMA InnerStep ==
  ASSUME TypeOK, UNCHANGED spent \/ \E kind \in Kinds : Spend(kind),
         NEW h \in Handlers, InCritical(h), NEW step,
         pc' = [pc EXCEPT ![h] = step], UNCHANGED <<locks, req>>
  PROVE  LockDiscipline
<1>1. ASSUME NEW g \in Handlers, InCritical(g)'
      PROVE  InCritical(g) /\ req'[g].incident = req[g].incident
  BY <1>1 DEF InCritical, TypeOK
<1> QED
  BY <1>1, NoLockChange

\* A step that sends a task back to "idle", releasing its lock or not.
LEMMA LeavingStep ==
  ASSUME TypeOK, UNCHANGED spent \/ \E kind \in Kinds : Spend(kind),
         NEW h \in Handlers, Reset(h), NEW i \in Incidents,
         locks' \in {locks, TryLock(locks, i, h), ReleaseLock(locks, i, h)}
  PROVE  LockDiscipline
<1>1. spent'["lease"] >= spent["lease"]
  BY SpentGrows
<1>2. ASSUME NEW j \in Incidents, NEW g \in Handlers, Working(g, j)'
      PROVE  Working(g, j) /\ (locks[j] = g => locks'[j] = g)
  <2>1. g # h /\ Working(g, j)
    BY <1>2 DEF Working, InCritical, Reset, TypeOK
  <2>2. ASSUME locks[j] = g PROVE locks'[j] = g
    BY <2>1, <2>2, HandlersAssumption
       DEF TryLock, LockFree, ReleaseLock, TypeOK, Handlers
  <2> QED
    BY <2>1, <2>2
<1> QED
  BY <1>1, <1>2 DEF LockDiscipline

\* A step that takes the lock.
LEMMA TakingStep ==
  ASSUME TypeOK, UNCHANGED <<spent, req>>,
         NEW h \in Handlers, NEW step, pc' = [pc EXCEPT ![h] = step],
         req[h].incident \in Incidents, LockFree(locks, req[h].incident),
         locks' = TryLock(locks, req[h].incident, h)
  PROVE  LockDiscipline
<1>1. spent'["lease"] >= spent["lease"]
  BY SpentGrows
<1>2. ASSUME NEW j \in Incidents, NEW g \in Handlers, Working(g, j)'
      PROVE  locks'[j] = g \/ (Working(g, j) /\ (locks[j] = g => locks'[j] = g))
  <2>1. CASE g = h
    BY <1>2, <2>1 DEF Working, TryLock, TypeOK
  <2>2. CASE g # h
    BY <1>2, <2>2, HandlersAssumption
       DEF Working, InCritical, TryLock, LockFree, TypeOK, Handlers
  <2> QED
    BY <2>1, <2>2
<1> QED
  BY <1>1, <1>2 DEF LockDiscipline

LEMMA EnvironmentLocks == TypeOK /\ Environment => LockDiscipline
<1> SUFFICES ASSUME TypeOK, Environment PROVE LockDiscipline
  OBVIOUS
<1>1. ASSUME NEW i \in Incidents, NEW event \in Events, Happen(i, event)
      PROVE  LockDiscipline
  BY <1>1, NoLockChange DEF Happen, redis, tasks, InCritical, Kinds
<1>2. ASSUME NEW h \in WebhookHandlers, NEW i \in Incidents, NEW n \in pending[i],
             Deliver(h, i, n)
      PROVE  LockDiscipline
  <2>1. ASSUME NEW g \in Handlers, InCritical(g)'
        PROVE  InCritical(g) /\ req'[g].incident = req[g].incident
    BY <1>2, <2>1 DEF Deliver, Goto, InCritical, TypeOK, Handlers
  <2>2. UNCHANGED spent \/ Spend("overtake")
    BY <1>2 DEF Deliver, Overtake
  <2> QED
    BY <1>2, <2>1, <2>2, NoLockChange DEF Deliver, redis, Kinds
<1>3. ASSUME NEW h \in WebhookHandlers, GiveUp(h)
      PROVE  LockDiscipline
  <2>1. req[h] \in Webhooks /\ h \in Handlers
    BY <1>3 DEF GiveUp, TypeOK, WebhookTaskOK, Handlers
  <2>2. ASSUME NEW g \in Handlers, InCritical(g)'
        PROVE  InCritical(g) /\ req'[g].incident = req[g].incident
    BY <1>3, <2>1, <2>2 DEF GiveUp, InCritical, TypeOK, Webhooks
  <2> QED
    BY <1>3, <2>2, NoLockChange DEF GiveUp, redis, Kinds, Faults
<1>4. ASSUME NEW h \in CallbackHandlers, NEW m \in DOMAIN messages,
             NEW action \in {"Acknowledge", "Resolve"}, Click(h, m, action)
      PROVE  LockDiscipline
  BY <1>4, NoLockChange DEF Click, redis, tasks, InCritical, Kinds
<1>5. ASSUME NEW i \in Incidents, OrphanedLockExpires(i)
      PROVE  LockDiscipline
  <2>1. spent'["lease"] >= spent["lease"]
    BY <1>5, SpentGrows DEF OrphanedLockExpires
  <2> QED
    BY <1>5, <2>1 DEF OrphanedLockExpires, LockDiscipline, Working, InCritical,
       tasks, TypeOK
<1>6. ASSUME NEW i \in Incidents, LeaseLost(i)
      PROVE  LockDiscipline
  <2>1. spent \in [Kinds -> Nat] /\ "lease" \in Kinds
    BY DEF TypeOK, Kinds, Faults
  <2>2. spent'["lease"] > spent["lease"] /\ spent'["lease"] >= spent["lease"]
    BY <1>6, <2>1 DEF LeaseLost, Spend
  <2>3. ASSUME NEW j \in Incidents, NEW g \in Handlers, Working(g, j)'
        PROVE  Working(g, j)
    BY <1>6, <2>3 DEF LeaseLost, Working, InCritical, tasks
  <2> QED
    BY <2>2, <2>3 DEF LockDiscipline
<1>7. ASSUME NEW i \in Incidents, RecordExpires(i)
      PROVE  LockDiscipline
  BY <1>7, NoLockChange DEF RecordExpires, tasks, InCritical, Kinds, Faults
<1>8. ASSUME NEW i \in Incidents, NEW event \in Events, DedupExpires(i, event)
      PROVE  LockDiscipline
  BY <1>8, NoLockChange DEF DedupExpires, tasks, InCritical, Kinds, Faults
<1>9. ASSUME NEW h \in Handlers, Crash(h)
      PROVE  LockDiscipline
  <2>1. ASSUME NEW g \in Handlers, InCritical(g)'
        PROVE  InCritical(g) /\ req'[g].incident = req[g].incident
    BY <1>9, <2>1 DEF Crash, Reset, InCritical, TypeOK
  <2> QED
    BY <1>9, <2>1, NoLockChange DEF Crash, redis, Kinds, Faults
<1>10. ASSUME NEW m \in DOMAIN messages, DeleteMessage(m)
       PROVE  LockDiscipline
  BY <1>10, NoLockChange DEF DeleteMessage, redis, tasks, InCritical, Kinds
<1> QED
  BY <1>1, <1>2, <1>3, <1>4, <1>5, <1>6, <1>7, <1>8, <1>9, <1>10 DEF Environment

LEMMA WebhookLocks ==
  ASSUME TypeOK, NEW h \in WebhookHandlers, WebhookStep(h)
  PROVE  LockDiscipline
<1> DEFINE i == req[h].incident
<1>1. h \in Handlers /\ (pc[h] # "idle" => i \in Incidents)
  BY DEF Handlers, TypeOK, WebhookTaskOK, Webhooks
<1>2. CASE SkipUnknownEvent(h)
  BY <1>1, <1>2, LeavingStep DEF SkipUnknownEvent, Respond, redis
<1>3. CASE LockIncident(h)
  <2>1. i \in Incidents
    BY <1>1, <1>3 DEF LockIncident
  <2>2. CASE /\ LockFree(locks, i) /\ locks' = TryLock(locks, i, h)
             /\ Goto(h, "mark") /\ UNCHANGED <<req, spent>>
    BY <1>1, <2>1, <2>2, TakingStep DEF Goto
  <2>3. CASE /\ Reset(h)
             /\ \/ UNCHANGED <<locks, spent>>
                \/ WriteFails(locks', locks, TryLock(locks, i, h))
    BY <1>1, <2>1, <2>3, LeavingStep DEF WriteFails, Kinds, Faults
  <2> QED
    BY <1>3, <2>2, <2>3 DEF LockIncident, Respond
<1>4. CASE \/ MarkEvent(h) \/ LoadRecord(h) \/ UpsertRecord(h) \/ ClearStaleEvents(h)
           \/ SendIncident(h) \/ SetMessage(h) \/ EditIncident(h) \/ UnmarkFailed(h)
  <2>1. InCritical(h)
    BY <1>4 DEF MarkEvent, LoadRecord, UpsertRecord, ClearStaleEvents, ClearStale,
       SendIncident, SetMessage, EditIncident, UnmarkFailed, InCritical
  <2>2. UNCHANGED <<locks, req>> /\ \E step : pc' = [pc EXCEPT ![h] = step]
    BY <1>4 DEF MarkEvent, LoadRecord, UpsertRecord, ClearStaleEvents, ClearStale,
       SendIncident, SetMessage, EditIncident, UnmarkFailed, Finish, Goto, redis
  <2>3. UNCHANGED spent \/ \E kind \in Kinds : Spend(kind)
    BY <1>4 DEF MarkEvent, LoadRecord, UpsertRecord, ClearStaleEvents, ClearStale,
       SendIncident, SetMessage, EditIncident, UnmarkFailed, WriteFails, Kinds, Faults
  <2> QED
    BY <1>1, <2>1, <2>2, <2>3, InnerStep
<1>5. CASE ReleaseAndRespond(h)
  <2>1. i \in Incidents
    BY <1>1, <1>5 DEF ReleaseAndRespond
  <2> QED
    BY <1>1, <1>5, <2>1, LeavingStep DEF ReleaseAndRespond, Respond, WriteFails, Kinds, Faults
<1> QED
  BY <1>2, <1>3, <1>4, <1>5 DEF WebhookStep

LEMMA CallbackLocks ==
  ASSUME TypeOK, NEW h \in CallbackHandlers, CallbackStep(h)
  PROVE  LockDiscipline
<1> DEFINE i == req[h].incident
<1>1. h \in Handlers /\ (pc[h] # "idle" => i \in Incidents)
  BY DEF Handlers, TypeOK, CallbackTaskOK
<1>2. CASE TakeClick(h)
  <2>1. ASSUME NEW g \in Handlers, InCritical(g)'
        PROVE  InCritical(g) /\ req'[g].incident = req[g].incident
    BY <1>1, <1>2, <2>1 DEF TakeClick, Goto, InCritical, TypeOK
  <2> QED
    BY <1>2, <2>1, NoLockChange DEF TakeClick, redis
<1>3. CASE LockForCallback(h)
  <2>1. i \in Incidents
    BY <1>1, <1>3 DEF LockForCallback
  <2>2. CASE /\ LockFree(locks, i) /\ locks' = TryLock(locks, i, h)
             /\ Goto(h, "api") /\ UNCHANGED <<req, spent>>
    BY <1>1, <2>1, <2>2, TakingStep DEF Goto
  <2>3. CASE /\ Reset(h)
             /\ \/ UNCHANGED <<locks, spent>>
                \/ WriteFails(locks', locks, TryLock(locks, i, h))
    BY <1>1, <2>1, <2>3, LeavingStep DEF WriteFails, Kinds, Faults
  <2> QED
    BY <1>3, <2>2, <2>3 DEF LockForCallback, Answer
<1>4. CASE \/ CallBetterStack(h) \/ LoadCurrent(h) \/ StoreStatus(h)
           \/ Reload(h) \/ EditAfterClick(h)
  <2>1. InCritical(h)
    BY <1>4 DEF CallBetterStack, LoadCurrent, StoreStatus, Reload, EditAfterClick, InCritical
  <2>2. UNCHANGED <<locks, req>> /\ \E step : pc' = [pc EXCEPT ![h] = step]
    BY <1>4 DEF CallBetterStack, LoadCurrent, StoreStatus, Reload, EditAfterClick,
       Conclude, Goto, redis
  <2>3. UNCHANGED spent \/ \E kind \in Kinds : Spend(kind)
    BY <1>4 DEF CallBetterStack, LoadCurrent, StoreStatus, Reload, EditAfterClick,
       WriteFails, Kinds, Faults
  <2> QED
    BY <1>1, <2>1, <2>2, <2>3, InnerStep
<1>5. CASE ReleaseAndAnswer(h)
  <2>1. i \in Incidents
    BY <1>1, <1>5 DEF ReleaseAndAnswer
  <2> QED
    BY <1>1, <1>5, <2>1, LeavingStep DEF ReleaseAndAnswer, Answer, WriteFails, Kinds, Faults
<1>6. CASE RetryCall(h)
  BY <1>6, NoLockChange DEF RetryCall, InCritical, tasks, redis, Kinds, Faults
<1> QED
  BY <1>2, <1>3, <1>4, <1>5, <1>6 DEF CallbackStep

LEMMA LockDisciplineStep == TypeOK /\ Next => LockDiscipline
BY EnvironmentLocks, WebhookLocks, CallbackLocks DEF Next

LEMMA LockHeldStep == TypeOK /\ LockHeld /\ [Next]_vars => LockHeld'
<1> SUFFICES ASSUME TypeOK, LockHeld, [Next]_vars PROVE LockHeld'
  OBVIOUS
<1>1. spent["lease"] \in Nat
  BY DEF TypeOK, Kinds, Faults
<1>2. CASE Next
  <2>1. LockDiscipline
    BY <1>2, LockDisciplineStep
  <2>2. ASSUME spent'["lease"] = 0
        PROVE  spent["lease"] = 0
    BY <1>1, <2>1, <2>2 DEF LockDiscipline
  <2> QED
    BY <2>1, <2>2 DEF LockDiscipline, LockHeld
<1>3. CASE UNCHANGED vars
  BY <1>3 DEF LockHeld, Working, InCritical, vars, redis, tasks
<1> QED
  BY <1>2, <1>3

(***************************************************************************)
(* try_lock and release_lock keep the tasks of an incident apart, however  *)
(* many there are and whatever crashes, fails, expires or is sent again,   *)
(* as long as no lease runs out under its holder.                          *)
(***************************************************************************)
THEOREM MutualExclusion == Spec => []LockSafety
<1>1. Init => LockHeld
  BY DEF Init, WorldInit, LockHeld, Working, InCritical
<1>2. LockHeld => LockSafety
  BY DEF LockHeld, LockSafety
<1> QED
  BY <1>1, <1>2, LockHeldStep, TypeCorrect, PTL DEF Spec

(***************************************************************************)
(* A task that goes on working keeps its lock until the lease runs out: no *)
(* other task's release, late or repeated, takes it away.                  *)
(***************************************************************************)
THEOREM ReleaseIsOwn == Spec => OnlyHolderReleases
<1> DEFINE Kept == \A i \in Incidents, h \in Handlers :
                      locks[i] = h /\ Working(h, i) /\ Working(h, i)'
                      => locks'[i] = h \/ spent'["lease"] > spent["lease"]
<1>1. TypeOK /\ [Next]_vars => [Kept]_vars
  BY LockDisciplineStep DEF LockDiscipline
<1> QED
  BY <1>1, TypeCorrect, PTL DEF Spec, OnlyHolderReleases

-----------------------------------------------------------------------------
(***************************************************************************)
(* An open incident is clean.  The invariant also speaks of the records    *)
(* that tasks hold between reading and writing.                            *)
(***************************************************************************)
HoldsClean(h) ==
  /\ h \in WebhookHandlers =>
       (pc[h] \in {"upsert", "clearResolved", "clearAcknowledged", "notify",
                   "setMessageId"} => Clean(rec[h]))
  /\ h \in CallbackHandlers =>
       /\ pc[h] = "setStatus" => rec[h].status \in {"acknowledged", "resolved"}
       /\ pc[h] = "edit" => Clean(rec[h])

CleanInv == StartedIsClean /\ \A h \in Handlers : HoldsClean(h)

\* process_marked_webhook resets the metadata of a record that is open.
LEMMA UpdatedClean ==
  ASSUME NEW stored, NEW i, NEW event, NEW meta,
         Updated(stored, i, event, meta) \in Record
  PROVE  Clean(Updated(stored, i, event, meta))
BY DEF Updated, Clean, Record, DefaultRecord

\* A button never opens an incident.
LEMMA ActionCloses ==
  ASSUME NEW current \in Statuses, NEW action \in {"Acknowledge", "Resolve"},
         NextStatus(current, ActionTrigger(action)) # current
  PROVE  NextStatus(current, ActionTrigger(action)) \in {"acknowledged", "resolved"}
<1>1. ActionTrigger(action) \in {"Acknowledged", "Resolved"}
  BY DEF ActionTrigger, ActionEvent, FromEvent, TriggerOf
<1> QED
  BY <1>1 DEF NextStatus, Statuses

\* A step of task h writes only clean records and messages.
LEMMA CleanStep ==
  ASSUME CleanInv, NEW h \in Handlers,
         \A g \in Handlers \ {h} : pc'[g] = pc[g] /\ rec'[g] = rec[g],
         HoldsClean(h)',
         \A k \in Keys : incidents'[k] = incidents[k] \/ incidents'[k] = None
                                                      \/ Clean(incidents'[k]),
         \A m \in DOMAIN messages' : (m \in DOMAIN messages /\ messages'[m] = messages[m])
                                     \/ Clean(messages'[m])
  PROVE  CleanInv'
<1>1. StartedIsClean'
  BY DEF CleanInv, StartedIsClean, Clean
<1>2. \A g \in Handlers \ {h} : HoldsClean(g)'
  BY DEF CleanInv, HoldsClean, Clean
<1> QED
  BY <1>1, <1>2 DEF CleanInv

\* Sending or editing with a clean record leaves only clean messages.
LEMMA MessagesClean ==
  ASSUME TypeOK, NEW r \in Record, Clean(r), NEW n,
         messages' \in {messages, SendMessage(r), EditMessage(n, r)}
  PROVE  \A m \in DOMAIN messages' : (m \in DOMAIN messages /\ messages'[m] = messages[m])
                                     \/ Clean(messages'[m])
<1>1. View(r) \in Views /\ Clean(View(r))
  BY ViewType DEF View, Clean
<1>2. messages \in Seq(Views)
  BY DEF TypeOK
<1>3. CASE messages' = SendMessage(r)
  <2>1. /\ DOMAIN messages = 1 .. Len(messages) /\ Len(messages) \in Nat
        /\ DOMAIN messages' = 1 .. (Len(messages) + 1)
        /\ \A m \in 1 .. Len(messages) : messages'[m] = messages[m]
        /\ messages'[Len(messages) + 1] = View(r)
    BY <1>1, <1>2, <1>3, AppendProperties, LenProperties DEF SendMessage
  <2> QED
    BY <1>1, <2>1
<1>4. CASE messages' = EditMessage(n, r)
  BY <1>1, <1>4 DEF EditMessage
<1> QED
  BY <1>3, <1>4

LEMMA EnvironmentClean == TypeOK /\ CleanInv /\ Environment => CleanInv'
<1> SUFFICES ASSUME TypeOK, CleanInv, Environment PROVE CleanInv'
  OBVIOUS
<1>1. CASE \E h \in Handlers : Crash(h)
  <2> PICK h \in Handlers : Crash(h)
    BY <1>1
  <2>1. HoldsClean(h)' /\ \A g \in Handlers \ {h} : pc'[g] = pc[g] /\ rec'[g] = rec[g]
    BY DEF Crash, Reset, HoldsClean, TypeOK
  <2> QED
    BY <2>1, CleanStep DEF Crash, redis
<1>2. CASE \E h \in WebhookHandlers, i \in Incidents : \E n \in pending[i] : Deliver(h, i, n)
  <2> PICK h \in WebhookHandlers, i \in Incidents : \E n \in pending[i] : Deliver(h, i, n)
    BY <1>2
  <2>1. h \in Handlers /\ h \notin CallbackHandlers
    BY HandlersAssumption DEF Handlers
  <2>2. HoldsClean(h)' /\ \A g \in Handlers \ {h} : pc'[g] = pc[g] /\ rec'[g] = rec[g]
    BY <2>1 DEF Deliver, Goto, HoldsClean, TypeOK
  <2> QED
    BY <2>1, <2>2, CleanStep DEF Deliver, redis, chat
<1>3. CASE \E i \in Incidents : RecordExpires(i)
  BY <1>3 DEF RecordExpires, CleanInv, StartedIsClean, HoldsClean, chat, tasks, TypeOK
<1>4. CASE UNCHANGED <<messages, incidents, pc, rec>>
  BY <1>4 DEF CleanInv, StartedIsClean, HoldsClean
<1>5. CASE \E m \in DOMAIN messages : DeleteMessage(m)
  <2>1. messages \in Seq(Views)
    BY DEF TypeOK
  <2>2. /\ DOMAIN messages' = DOMAIN messages
        /\ \A m \in DOMAIN messages : Clean(messages[m]) => Clean(messages'[m])
    BY <1>5, <2>1 DEF DeleteMessage, Clean, Views
  <2> QED
    BY <1>5, <2>2 DEF DeleteMessage, CleanInv, StartedIsClean, HoldsClean, redis, tasks
<1>6. \/ \E h \in Handlers : Crash(h)
      \/ \E h \in WebhookHandlers, i \in Incidents : \E n \in pending[i] : Deliver(h, i, n)
      \/ \E i \in Incidents : RecordExpires(i)
      \/ \E m \in DOMAIN messages : DeleteMessage(m)
      \/ UNCHANGED <<messages, incidents, pc, rec>>
  BY DEF Environment, Happen, GiveUp, Click, OrphanedLockExpires, LeaseLost,
     DedupExpires, chat, redis, tasks
<1> QED
  BY <1>1, <1>2, <1>3, <1>4, <1>5, <1>6

LEMMA WebhookClean ==
  ASSUME TypeOK, CleanInv, NEW h \in WebhookHandlers, WebhookStep(h)
  PROVE  CleanInv'
<1>0. h \in Handlers /\ h \notin CallbackHandlers
  BY HandlersAssumption DEF Handlers
<1>1. CASE SkipUnknownEvent(h) \/ LockIncident(h) \/ MarkEvent(h) \/ ClearStaleEvents(h)
           \/ UnmarkFailed(h) \/ ReleaseAndRespond(h)
  <2>1. UNCHANGED <<messages, incidents>>
    BY <1>1 DEF SkipUnknownEvent, LockIncident, MarkEvent, ClearStaleEvents, ClearStale,
       UnmarkFailed, ReleaseAndRespond, chat, redis
  <2>2. HoldsClean(h)' /\ \A g \in Handlers \ {h} : pc'[g] = pc[g] /\ rec'[g] = rec[g]
    <3>1. CASE SkipUnknownEvent(h) \/ LockIncident(h) \/ ReleaseAndRespond(h)
      BY <1>0, <3>1 DEF SkipUnknownEvent, LockIncident, ReleaseAndRespond, Respond, Reset,
         Goto, HoldsClean, TypeOK
    <3>2. CASE MarkEvent(h) \/ UnmarkFailed(h)
      BY <1>0, <3>2 DEF MarkEvent, UnmarkFailed, Finish, Goto, HoldsClean, TypeOK
    <3>3. CASE ClearStaleEvents(h)
      BY <1>0, <3>3 DEF ClearStaleEvents, ClearStale, Goto, CleanInv, HoldsClean, TypeOK
    <3> QED
      BY <1>1, <3>1, <3>2, <3>3
  <2> QED
    BY <1>0, <2>1, <2>2, CleanStep
<1>2. CASE LoadRecord(h)
  <2> DEFINE i == req[h].incident
  <2>1. i \in Incidents /\ Get(incidents, i) \in Record \cup {None}
    BY <1>2 DEF LoadRecord, TypeOK, WebhookTaskOK, Webhooks, Get, Keys
  <2>2. \A meta : /\ Updated(Get(incidents, i), i, req[h].what, meta) \in Record
                  /\ Clean(Updated(Get(incidents, i), i, req[h].what, meta))
    BY <2>1, UpdatedType, UpdatedClean
  <2>3. HoldsClean(h)' /\ \A g \in Handlers \ {h} : pc'[g] = pc[g] /\ rec'[g] = rec[g]
    BY <1>0, <1>2, <2>2 DEF LoadRecord, Finish, Goto, HoldsClean, TypeOK
  <2> QED
    BY <1>0, <1>2, <2>3, CleanStep DEF LoadRecord, redis, chat
<1>3. CASE UpsertRecord(h)
  <2>1. Clean(rec[h]) /\ rec[h] \in Record
    BY <1>0, <1>3 DEF UpsertRecord, CleanInv, HoldsClean, TypeOK, WebhookTaskOK
  <2>2. \A k \in Keys : incidents'[k] = incidents[k] \/ Clean(incidents'[k])
    BY <1>3, <2>1 DEF UpsertRecord, Upsert, TypeOK
  <2>3. HoldsClean(h)' /\ \A g \in Handlers \ {h} : pc'[g] = pc[g] /\ rec'[g] = rec[g]
    BY <1>0, <1>3, <2>1 DEF UpsertRecord, Finish, Goto, HoldsClean, TypeOK
  <2> QED
    BY <1>0, <1>3, <2>2, <2>3, CleanStep DEF UpsertRecord, chat
<1>4. CASE SendIncident(h)
  <2>1. Clean(rec[h]) /\ rec[h] \in Record
    BY <1>0, <1>4 DEF SendIncident, CleanInv, HoldsClean, TypeOK, WebhookTaskOK
  <2>2. \A m \in DOMAIN messages' : (m \in DOMAIN messages /\ messages'[m] = messages[m])
                                    \/ Clean(messages'[m])
    BY <1>4, <2>1, MessagesClean DEF SendIncident
  <2>3. HoldsClean(h)' /\ \A g \in Handlers \ {h} : pc'[g] = pc[g] /\ rec'[g] = rec[g]
    <3> DEFINE sent == [rec[h] EXCEPT !.chat_id = ChatId, !.message_id = Len(messages) + 1]
    <3>1. Clean(sent)
      BY <2>1 DEF Clean, Record
    <3>2. \/ rec' = [rec EXCEPT ![h] = sent] /\ Goto(h, "setMessageId")
          \/ Finish(h, "release", "200")
      BY <1>0, <1>4 DEF SendIncident, TypeOK
    <3> HIDE DEF sent
    <3> QED
      BY <1>0, <3>1, <3>2 DEF Finish, Goto, HoldsClean, TypeOK
  <2> QED
    BY <1>0, <1>4, <2>2, <2>3, CleanStep DEF SendIncident, redis
<1>5. CASE SetMessage(h)
  <2> DEFINE id == req[h].incident
             old == Fields(incidents, id)
             new == [old EXCEPT !.chat_id = rec[h].chat_id, !.message_id = rec[h].message_id]
  <2>1. id \in Keys
    BY <1>5 DEF SetMessage, TypeOK, WebhookTaskOK, Webhooks, Keys
  <2>2. old \in Record /\ Clean(old)
    BY <2>1, FieldsType DEF Fields, TypeOK, CleanInv, StartedIsClean, Clean, DefaultRecord
  <2>3. Clean(new)
    BY <2>2 DEF Clean, Record
  <2>4. incidents' \in {incidents, [incidents EXCEPT ![id] = new]}
    BY <1>5 DEF SetMessage, SetMessageId, WriteFails
  <2>5. \A k \in Keys : incidents'[k] = incidents[k] \/ Clean(incidents'[k])
    BY <2>3, <2>4 DEF TypeOK
  <2>6. HoldsClean(h)' /\ \A g \in Handlers \ {h} : pc'[g] = pc[g] /\ rec'[g] = rec[g]
    BY <1>0, <1>5 DEF SetMessage, Finish, Goto, HoldsClean, TypeOK
  <2> QED
    BY <1>0, <1>5, <2>5, <2>6, CleanStep DEF SetMessage, chat
<1>6. CASE EditIncident(h)
  <2>1. Clean(rec[h]) /\ rec[h] \in Record
    BY <1>0, <1>6 DEF EditIncident, CleanInv, HoldsClean, TypeOK, WebhookTaskOK
  <2>2. \A m \in DOMAIN messages' : (m \in DOMAIN messages /\ messages'[m] = messages[m])
                                    \/ Clean(messages'[m])
    BY <1>6, <2>1, MessagesClean DEF EditIncident
  <2>3. HoldsClean(h)' /\ \A g \in Handlers \ {h} : pc'[g] = pc[g] /\ rec'[g] = rec[g]
    BY <1>0, <1>6 DEF EditIncident, Finish, Goto, HoldsClean, TypeOK
  <2> QED
    BY <1>0, <1>6, <2>2, <2>3, CleanStep DEF EditIncident, redis
<1> QED
  BY <1>1, <1>2, <1>3, <1>4, <1>5, <1>6 DEF WebhookStep

LEMMA CallbackClean ==
  ASSUME TypeOK, CleanInv, NEW h \in CallbackHandlers, CallbackStep(h)
  PROVE  CleanInv'
<1>0. h \in Handlers /\ h \notin WebhookHandlers
  BY HandlersAssumption DEF Handlers
<1>1. CASE TakeClick(h) \/ LockForCallback(h) \/ CallBetterStack(h) \/ ReleaseAndAnswer(h)
  <2>1. UNCHANGED <<messages, incidents>>
    BY <1>1 DEF TakeClick, LockForCallback, CallBetterStack, ReleaseAndAnswer, chat, redis
  <2>2. HoldsClean(h)' /\ \A g \in Handlers \ {h} : pc'[g] = pc[g] /\ rec'[g] = rec[g]
    BY <1>0, <1>1 DEF TakeClick, LockForCallback, CallBetterStack, ReleaseAndAnswer,
       Answer, Reset, Conclude, Goto, HoldsClean, TypeOK
  <2> QED
    BY <1>0, <2>1, <2>2, CleanStep
<1>2. CASE LoadCurrent(h)
  <2> DEFINE current == Get(incidents, req[h].incident)
             status  == NextStatus(current.status, ActionTrigger(req[h].what))
  <2>1. req[h].what \in {"Acknowledge", "Resolve"} /\ current \in Record \cup {None}
    BY <1>2 DEF LoadCurrent, TypeOK, CallbackTaskOK, Presses, Get, Keys
  <2>2. current # None /\ status # current.status =>
           [current EXCEPT !.status = status].status \in {"acknowledged", "resolved"}
    <3> SUFFICES ASSUME current # None, status # current.status
                 PROVE  [current EXCEPT !.status = status].status
                           \in {"acknowledged", "resolved"}
      OBVIOUS
    <3>1. current \in Record /\ current.status \in Statuses
      BY <2>1 DEF Record
    <3>2. status \in {"acknowledged", "resolved"}
      BY <2>1, <3>1, ActionCloses
    <3> HIDE DEF status, current
    <3> QED
      BY <3>1, <3>2 DEF Record
  <2> HIDE DEF current, status
  <2>3. \/ /\ current # None /\ status # current.status
           /\ rec' = [rec EXCEPT ![h] = [current EXCEPT !.status = status]]
           /\ Goto(h, "setStatus")
        \/ Goto(h, "reget") /\ UNCHANGED rec
        \/ Conclude(h, "Alert")
    BY <1>2 DEF LoadCurrent, current, status
  <2>4. HoldsClean(h)' /\ \A g \in Handlers \ {h} : pc'[g] = pc[g] /\ rec'[g] = rec[g]
    BY <1>0, <2>2, <2>3 DEF Conclude, Goto, HoldsClean, TypeOK
  <2> QED
    BY <1>0, <1>2, <2>4, CleanStep DEF LoadCurrent, redis, chat
<1>3. CASE StoreStatus(h)
  <2> DEFINE id == req[h].incident
             status == rec[h].status
             old == Fields(incidents, id)
             new == [old EXCEPT !.status = status,
                                !.acknowledged_at = @ \/ status = "acknowledged",
                                !.resolved_at     = @ \/ status = "resolved"]
  <2>1. id \in Keys /\ status \in {"acknowledged", "resolved"}
    BY <1>0, <1>3 DEF StoreStatus, TypeOK, CallbackTaskOK, Keys, CleanInv, HoldsClean
  <2>2. old \in Record
    BY <2>1, FieldsType DEF TypeOK
  <2>3. Clean(new)
    BY <2>1, <2>2 DEF Clean, Record
  <2>4. incidents' \in {incidents, [incidents EXCEPT ![id] = new]}
    BY <1>3 DEF StoreStatus, SetStatus, WriteFails
  <2>5. \A k \in Keys : incidents'[k] = incidents[k] \/ Clean(incidents'[k])
    BY <2>3, <2>4 DEF TypeOK
  <2>6. HoldsClean(h)' /\ \A g \in Handlers \ {h} : pc'[g] = pc[g] /\ rec'[g] = rec[g]
    BY <1>0, <1>3 DEF StoreStatus, Conclude, Goto, HoldsClean, TypeOK
  <2> QED
    BY <1>0, <1>3, <2>5, <2>6, CleanStep DEF StoreStatus, chat
<1>4. CASE Reload(h)
  <2> DEFINE updated == Get(incidents, req[h].incident)
  <2>1. updated # None => Clean(updated)
    BY <1>4 DEF Reload, TypeOK, CallbackTaskOK, Get, Keys, CleanInv, StartedIsClean
  <2>2. HoldsClean(h)' /\ \A g \in Handlers \ {h} : pc'[g] = pc[g] /\ rec'[g] = rec[g]
    BY <1>0, <1>4, <2>1 DEF Reload, Conclude, Goto, HoldsClean, TypeOK
  <2> QED
    BY <1>0, <1>4, <2>2, CleanStep DEF Reload, redis, chat
<1>5. CASE EditAfterClick(h)
  <2>1. Clean(rec[h]) /\ rec[h] \in Record
    BY <1>0, <1>5 DEF EditAfterClick, CleanInv, HoldsClean, TypeOK, CallbackTaskOK
  <2>2. \A m \in DOMAIN messages' : (m \in DOMAIN messages /\ messages'[m] = messages[m])
                                    \/ Clean(messages'[m])
    BY <1>5, <2>1, MessagesClean DEF EditAfterClick
  <2>3. HoldsClean(h)' /\ \A g \in Handlers \ {h} : pc'[g] = pc[g] /\ rec'[g] = rec[g]
    BY <1>0, <1>5 DEF EditAfterClick, Conclude, Goto, HoldsClean, TypeOK
  <2> QED
    BY <1>0, <1>5, <2>2, <2>3, CleanStep DEF EditAfterClick, redis
<1>6. CASE RetryCall(h)
  <2>1. HoldsClean(h)' /\ \A g \in Handlers \ {h} : pc'[g] = pc[g] /\ rec'[g] = rec[g]
    BY <1>0, <1>6 DEF RetryCall, tasks, CleanInv, HoldsClean
  <2> QED
    BY <1>0, <1>6, <2>1, CleanStep DEF RetryCall, redis, chat
<1> QED
  BY <1>1, <1>2, <1>3, <1>4, <1>5, <1>6 DEF CallbackStep

(***************************************************************************)
(* No open incident is stored or shown with the acknowledgement or the     *)
(* resolution of an earlier round, under any interleaving of any number of *)
(* tasks, lost leases and expired records included.                        *)
(***************************************************************************)
THEOREM OpenIncidentsAreClean == Spec => []StartedIsClean
<1>1. Init => CleanInv
  BY DEF Init, WorldInit, CleanInv, StartedIsClean, HoldsClean, Handlers
<1>2. TypeOK /\ CleanInv /\ [Next]_vars => CleanInv'
  <2>1. TypeOK /\ CleanInv /\ Next => CleanInv'
    BY EnvironmentClean, WebhookClean, CallbackClean DEF Next
  <2>2. CleanInv /\ UNCHANGED vars => CleanInv'
    BY DEF CleanInv, StartedIsClean, HoldsClean, vars, chat, redis, tasks
  <2> QED
    BY <2>1, <2>2
<1>3. CleanInv => StartedIsClean
  BY DEF CleanInv
<1> QED
  BY <1>1, <1>2, <1>3, TypeCorrect, PTL DEF Spec
=============================================================================
