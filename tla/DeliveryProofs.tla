--------------------------- MODULE DeliveryProofs ----------------------------
(***************************************************************************)
(* Proofs about deliveries: that the event of a webhook answered with 200  *)
(* has been applied, on which AgreementProofs goes on, and that none is    *)
(* applied twice.  Each holds under its own conditions and needs its own   *)
(* invariant.                                                              *)
(***************************************************************************)
EXTENDS SyncProofs

\* An event of this name has been applied to the incident.
TakenIn(i, event) == \E m \in applied[i] : timeline[i][m] = event

\* The events of an incident that Better Stack no longer sends.
AckedOf(i) == DOMAIN timeline[i] \ pending[i]

-----------------------------------------------------------------------------
(***************************************************************************)
(* History: what has happened stays so.                                    *)
(***************************************************************************)
LinesGrow ==
  \A i \in Incidents : \A n \in DOMAIN timeline[i] :
    n \in DOMAIN timeline'[i] /\ timeline'[i][n] = timeline[i][n]

Later == /\ LinesGrow
         /\ \A i \in Incidents : applied[i] \subseteq applied'[i]
         /\ \A kind \in Kinds : /\ spent[kind] \in Nat /\ spent'[kind] \in Nat
                                /\ spent'[kind] >= spent[kind]

LEMMA LogLater ==
  ASSUME TypeOK, NEW j \in Incidents, NEW event \in Events, Log(j, event)
  PROVE  LinesGrow /\ \A i \in Incidents : AckedOf(i)' = AckedOf(i)
<1>1. /\ \A i \in Incidents : timeline[i] \in Seq(Events)
      /\ \A i \in Incidents : timeline'[i] = IF i = j THEN Append(timeline[j], event)
                                             ELSE timeline[i]
      /\ \A i \in Incidents : pending'[i] = IF i = j THEN pending[j] \cup {Len(timeline[j]) + 1}
                                            ELSE pending[i]
  BY DEF Log, TypeOK
<1>2. /\ Len(timeline[j]) \in Nat /\ DOMAIN timeline[j] = 1 .. Len(timeline[j])
      /\ DOMAIN timeline'[j] = 1 .. (Len(timeline[j]) + 1)
      /\ \A n \in 1 .. Len(timeline[j]) : timeline'[j][n] = timeline[j][n]
  <2>1. PICK line \in Seq(Events) : line = timeline[j]
    BY <1>1
  <2>2. /\ Len(line) \in Nat /\ DOMAIN line = 1 .. Len(line)
        /\ DOMAIN Append(line, event) = 1 .. (Len(line) + 1)
        /\ \A n \in 1 .. Len(line) : Append(line, event)[n] = line[n]
    BY AppendProperties, LenProperties
  <2>3. timeline'[j] = Append(line, event)
    BY <1>1, <2>1
  <2> QED
    BY <2>1, <2>2, <2>3
<1>3. LinesGrow
  BY <1>1, <1>2 DEF LinesGrow
<1>4. \A i \in Incidents : AckedOf(i)' = AckedOf(i)
  BY <1>1, <1>2 DEF AckedOf
<1> QED
  BY <1>3, <1>4

LEMMA SpentLater ==
  ASSUME TypeOK, UNCHANGED spent \/ \E kind \in Kinds : Spend(kind)
  PROVE  \A kind \in Kinds : /\ spent[kind] \in Nat /\ spent'[kind] \in Nat
                             /\ spent'[kind] >= spent[kind]
<1>1. spent \in [Kinds -> Nat]
  BY DEF TypeOK
<1>2. CASE UNCHANGED spent
  BY <1>1, <1>2
<1>3. ASSUME NEW kind \in Kinds, spent' = [spent EXCEPT ![kind] = @ + 1]
      PROVE  \A k \in Kinds : spent[k] \in Nat /\ spent'[k] \in Nat /\ spent'[k] >= spent[k]
  BY <1>1, <1>3
<1> QED
  BY <1>2, <1>3 DEF Spend

\* A fault that a step spends is one more.
LEMMA SpendsOne ==
  ASSUME TypeOK, NEW kind \in Kinds, Spend(kind)
  PROVE  spent[kind] \in Nat /\ spent'[kind] = spent[kind] + 1
<1>1. spent \in [Kinds -> Nat] /\ spent' = [spent EXCEPT ![kind] = @ + 1]
  BY DEF TypeOK, Spend
<1> QED
  BY <1>1

LEMMA EachStepSpends == [Next]_vars => UNCHANGED spent \/ \E kind \in Kinds : Spend(kind)
<1>1. UNCHANGED vars => UNCHANGED spent
  BY DEF vars
<1>2. Environment => UNCHANGED spent \/ \E kind \in Kinds : Spend(kind)
  BY DEF Environment, Happen, Deliver, Overtake, GiveUp, Click, DeleteMessage,
     OrphanedLockExpires, LeaseLost, RecordExpires, DedupExpires, Crash, Kinds, Faults
<1>3. ASSUME NEW h, WebhookStep(h) PROVE UNCHANGED spent \/ \E kind \in Kinds : Spend(kind)
  BY <1>3 DEF WebhookStep, SkipUnknownEvent, LockIncident, MarkEvent, LoadRecord,
     UpsertRecord, ClearStaleEvents, ClearStale, SendIncident, SetMessage, EditIncident,
     UnmarkFailed, ReleaseAndRespond, WriteFails, Kinds, Faults
<1>4. ASSUME NEW h, CallbackStep(h) PROVE UNCHANGED spent \/ \E kind \in Kinds : Spend(kind)
  BY <1>4 DEF CallbackStep, TakeClick, LockForCallback, CallBetterStack, RetryCall, LoadCurrent,
     StoreStatus, Reload, EditAfterClick, ReleaseAndAnswer, WriteFails, Kinds, Faults
<1> QED
  BY <1>1, <1>2, <1>3, <1>4 DEF Next

\* The calls that a step makes to Better Stack, and what Better Stack does by itself.
Logs(j, event) == /\ Log(j, event) /\ Possible(timeline[j], event)
                  /\ event = "incident_reopened" => Spend("reopen")

LEMMA EachStepLogs ==
  ASSUME TypeOK, [Next]_vars
  PROVE  \/ UNCHANGED timeline
         \/ /\ \E j \in Incidents, event \in Events : Logs(j, event)
            /\ UNCHANGED <<dedup, applied, incidents, messages>>
            /\ \A h \in WebhookHandlers : UNCHANGED <<pc[h], req[h], rec[h], out[h]>>
<1>1. UNCHANGED vars => UNCHANGED timeline
  BY DEF vars, upstream
<1>2. Environment => \/ UNCHANGED timeline
                     \/ /\ \E j \in Incidents, event \in Events : Logs(j, event)
                        /\ UNCHANGED <<redis, chat, tasks, applied>>
  BY DEF Environment, Happen, Deliver, GiveUp, Click, DeleteMessage,
     OrphanedLockExpires, LeaseLost, RecordExpires, DedupExpires, Crash, upstream, Logs
<1>3. ASSUME NEW h, WebhookStep(h) PROVE UNCHANGED timeline
  BY <1>3 DEF WebhookStep, SkipUnknownEvent, LockIncident, MarkEvent, LoadRecord,
     UpsertRecord, ClearStaleEvents, ClearStale, SendIncident, SetMessage, EditIncident,
     UnmarkFailed, ReleaseAndRespond, upstream
<1>4. ASSUME NEW h \in CallbackHandlers, CallbackStep(h)
      PROVE  \/ UNCHANGED timeline
             \/ /\ \E j \in Incidents, event \in Events : Logs(j, event)
                /\ UNCHANGED <<dedup, applied, incidents, messages>>
                /\ \A g \in WebhookHandlers : UNCHANGED <<pc[g], req[g], rec[g], out[g]>>
  <2>1. CASE CallBetterStack(h) \/ RetryCall(h)
    <3>1. /\ UNCHANGED <<redis, chat, applied, req>>
          /\ UNCHANGED upstream
             \/ /\ Log(req[h].incident, ActionEvent[req[h].what])
                /\ Possible(timeline[req[h].incident], ActionEvent[req[h].what])
          /\ \A g \in WebhookHandlers : UNCHANGED <<pc[g], rec[g], out[g]>>
      BY <2>1, HandlersAssumption DEF CallBetterStack, RetryCall, Accepted, Conclude, Goto, tasks,
         TypeOK, Handlers
    <3>2. /\ req[h].incident \in Incidents /\ ActionEvent[req[h].what] \in Events
          /\ ActionEvent[req[h].what] # "incident_reopened"
      <4>1. pc[h] = "api" /\ CallbackTaskOK(h)
        BY <2>1 DEF CallBetterStack, RetryCall, TypeOK
      <4>2. req[h].incident \in Incidents /\ req[h].what \in {"Acknowledge", "Resolve"}
        BY <4>1 DEF CallbackTaskOK, Presses
      <4> QED
        BY <4>2 DEF ActionEvent, Events
    <3> QED
      BY <3>1, <3>2 DEF redis, chat, upstream, Logs
  <2>2. CASE ~(CallBetterStack(h) \/ RetryCall(h))
    BY <1>4, <2>2 DEF CallbackStep, TakeClick, LockForCallback, LoadCurrent,
       StoreStatus, Reload, EditAfterClick, ReleaseAndAnswer, upstream
  <2> QED
    BY <2>1, <2>2
<1> QED
  BY <1>1, <1>2, <1>3, <1>4 DEF Next, redis, chat, tasks

\* Only upsert adds to the history of applied deliveries.
LEMMA EachStepApplies ==
  ASSUME TypeOK, [Next]_vars
  PROVE  \/ UNCHANGED applied
         \/ \E h \in WebhookHandlers : /\ pc[h] = "upsert" /\ UpsertRecord(h)
                                       /\ rec[h].id = req[h].incident
                                       /\ applied' = [applied EXCEPT ![req[h].incident] =
                                                        @ \cup {req[h].no}]
<1>1. UNCHANGED vars => UNCHANGED applied
  BY DEF vars
<1>2. Environment => UNCHANGED applied
  BY DEF Environment, Happen, Deliver, GiveUp, Click, DeleteMessage,
     OrphanedLockExpires, LeaseLost, RecordExpires, DedupExpires, Crash
<1>3. ASSUME NEW h \in WebhookHandlers, WebhookStep(h)
      PROVE  \/ UNCHANGED applied
             \/ /\ pc[h] = "upsert" /\ UpsertRecord(h) /\ rec[h].id = req[h].incident
                /\ applied' = [applied EXCEPT ![req[h].incident] = @ \cup {req[h].no}]
  <2>1. CASE UpsertRecord(h)
    BY <2>1 DEF UpsertRecord, NoteApplied
  <2>2. CASE ~UpsertRecord(h)
    BY <1>3, <2>2 DEF WebhookStep, SkipUnknownEvent, LockIncident, MarkEvent, LoadRecord,
       ClearStaleEvents, ClearStale, SendIncident, SetMessage, EditIncident,
       UnmarkFailed, ReleaseAndRespond
  <2> QED
    BY <2>1, <2>2
<1>4. ASSUME NEW h, CallbackStep(h) PROVE UNCHANGED applied
  BY <1>4 DEF CallbackStep, TakeClick, LockForCallback, CallBetterStack, RetryCall, LoadCurrent,
     StoreStatus, Reload, EditAfterClick, ReleaseAndAnswer
<1> QED
  BY <1>1, <1>2, <1>3, <1>4 DEF Next

LEMMA EachStepLater ==
  ASSUME TypeOK, [Next]_vars
  PROVE  Later
<1>1. LinesGrow
  BY EachStepLogs, LogLater DEF LinesGrow, Logs
<1>2. \A i \in Incidents : applied[i] \subseteq applied'[i]
  BY EachStepApplies DEF TypeOK
<1> QED
  BY <1>1, <1>2, EachStepSpends, SpentLater DEF Later

LEMMA TakenLater ==
  ASSUME TypeOK, Later, \A i \in Incidents : applied[i] \subseteq DOMAIN timeline[i]
  PROVE  \A i \in Incidents : \A event : TakenIn(i, event) => TakenIn(i, event)'
BY DEF Later, LinesGrow, TakenIn

-----------------------------------------------------------------------------
(***************************************************************************)
(* Requests: a webhook task carries an event of the incident's timeline,   *)
(* the same from its arrival to its answer.                                *)
(***************************************************************************)
SameRequest(h) ==
  /\ req'[h].incident = req[h].incident /\ req'[h].no = req[h].no /\ req'[h].what = req[h].what
  /\ req'[h].awaited => req[h].awaited

LEMMA EachStepRequests ==
  ASSUME TypeOK, [Next]_vars, NEW h \in WebhookHandlers
  PROVE  \/ pc'[h] = "idle"
         \/ pc[h] # "idle" /\ SameRequest(h)
         \/ \E i \in Incidents : \E n \in pending[i] : Deliver(h, i, n)
<1>0. h \in Handlers /\ h \notin CallbackHandlers
  BY HandlersAssumption DEF Handlers
<1>1. CASE pc'[h] = pc[h] /\ req'[h] = req[h]
  BY <1>1 DEF SameRequest
<1>2. CASE UNCHANGED vars
  BY <1>1, <1>2 DEF vars, tasks
<1>3. CASE Environment
  <2>1. CASE \E g \in WebhookHandlers, i \in Incidents : \E n \in pending[i] : Deliver(g, i, n)
    <3>1. PICK g \in WebhookHandlers, i \in Incidents : \E n \in pending[i] : Deliver(g, i, n)
      BY <2>1
    <3>2. CASE g # h
      <4>1. pc'[h] = pc[h] /\ req'[h] = req[h]
        BY <1>0, <3>1, <3>2 DEF Deliver, Goto, TypeOK
      <4> QED
        BY <1>1, <4>1
    <3> QED
      BY <3>1, <3>2
  <2>2. CASE \E g \in WebhookHandlers : GiveUp(g)
    <3>1. PICK g \in WebhookHandlers : GiveUp(g)
      BY <2>2
    <3>2. g \in Handlers /\ req[g] \in Webhooks /\ pc' = pc
      BY <3>1 DEF Handlers, GiveUp, TypeOK, WebhookTaskOK
    <3>3. /\ \A f \in Handlers \ {g} : req'[f] = req[f]
          /\ SameRequest(g) /\ pc[g] # "idle"
      BY <3>1, <3>2 DEF GiveUp, SameRequest, TypeOK, Webhooks
    <3> QED
      BY <1>0, <1>1, <3>2, <3>3
  <2>3. CASE \E g \in Handlers : Crash(g)
    <3>1. PICK g \in Handlers : Crash(g)
      BY <2>3
    <3>2. pc'[h] = "idle" \/ (pc'[h] = pc[h] /\ req'[h] = req[h])
      BY <1>0, <3>1 DEF Crash, Reset, TypeOK
    <3> QED
      BY <1>1, <3>2
  <2>4. CASE UNCHANGED tasks
    BY <1>1, <2>4 DEF tasks
  <2> QED
    BY <1>3, <2>1, <2>2, <2>3, <2>4 DEF Environment, Happen, Click, DeleteMessage,
       OrphanedLockExpires, LeaseLost, RecordExpires, DedupExpires
<1>4. ASSUME NEW g \in WebhookHandlers, WebhookStep(g)
      PROVE  pc'[h] = "idle" \/ (pc[h] # "idle" /\ SameRequest(h))
             \/ (pc'[h] = pc[h] /\ req'[h] = req[h])
  <2>1. g \in Handlers
    BY DEF Handlers
  <2>2. CASE SkipUnknownEvent(g) \/ LockIncident(g) \/ ReleaseAndRespond(g)
    BY <1>0, <2>1, <2>2 DEF SkipUnknownEvent, LockIncident, ReleaseAndRespond, Respond, Reset,
       Goto, TypeOK, SameRequest
  <2>3. CASE UNCHANGED req /\ pc[g] # "idle" /\ \E step : pc' = [pc EXCEPT ![g] = step]
    BY <1>0, <2>1, <2>3 DEF TypeOK, SameRequest
  <2> QED
    BY <1>4, <2>2, <2>3 DEF WebhookStep, MarkEvent, LoadRecord, UpsertRecord, ClearStaleEvents,
       ClearStale, SendIncident, SetMessage, EditIncident, UnmarkFailed, Finish, Goto
<1>5. ASSUME NEW g \in CallbackHandlers, CallbackStep(g)
      PROVE  pc'[h] = pc[h] /\ req'[h] = req[h]
  <2>1. g \in Handlers /\ g # h
    BY <1>0 DEF Handlers
  <2> QED
    BY <1>0, <1>5, <2>1 DEF CallbackStep, TakeClick, LockForCallback, CallBetterStack, RetryCall,
       LoadCurrent, StoreStatus, Reload, EditAfterClick, ReleaseAndAnswer, Answer, Reset,
       Conclude, Goto, tasks, TypeOK
<1> QED
  BY <1>1, <1>2, <1>3, <1>4, <1>5 DEF Next

RequestKnown(h) ==
  pc[h] # "idle" => /\ req[h].no \in DOMAIN timeline[req[h].incident]
                    /\ timeline[req[h].incident][req[h].no] = req[h].what

KnownInv ==
  /\ \A i \in Incidents : applied[i] \subseteq DOMAIN timeline[i]
  /\ \A h \in WebhookHandlers : RequestKnown(h)

LEMMA WebhookIncident ==
  ASSUME TypeOK, NEW h \in WebhookHandlers, pc[h] # "idle"
  PROVE  /\ req[h].incident \in Incidents /\ req[h].no \in Nat
         /\ req[h].what \in Events /\ req[h].awaited \in BOOLEAN
BY DEF TypeOK, WebhookTaskOK, Webhooks

LEMMA KnownNext ==
  ASSUME TypeOK, KnownInv, [Next]_vars
  PROVE  KnownInv'
<1>0. Later
  BY EachStepLater
<1>1. ASSUME NEW i \in Incidents PROVE applied'[i] \subseteq DOMAIN timeline'[i]
  <2>1. CASE UNCHANGED applied
    BY <1>0, <2>1 DEF KnownInv, Later, LinesGrow
  <2>2. CASE \E h \in WebhookHandlers : /\ pc[h] = "upsert"
                                        /\ applied' = [applied EXCEPT ![req[h].incident] =
                                                         @ \cup {req[h].no}]
    <3> PICK h \in WebhookHandlers : /\ pc[h] = "upsert"
                                     /\ applied' = [applied EXCEPT ![req[h].incident] =
                                                      @ \cup {req[h].no}]
      BY <2>2
    <3>1. PICK j \in Incidents : j = req[h].incident
      BY WebhookIncident
    <3>2. req[h].no \in DOMAIN timeline[j]
      BY <3>1 DEF KnownInv, RequestKnown
    <3>3. applied'[i] \subseteq IF i = j THEN applied[i] \cup {req[h].no} ELSE applied[i]
      BY <3>1 DEF TypeOK
    <3> QED
      BY <1>0, <3>2, <3>3 DEF KnownInv, Later, LinesGrow
  <2> QED
    BY <2>1, <2>2, EachStepApplies
<1>2. ASSUME NEW h \in WebhookHandlers PROVE RequestKnown(h)'
  <2>1. CASE pc[h] # "idle" /\ SameRequest(h)
    <3>1. PICK i \in Incidents : i = req[h].incident
      BY <2>1, WebhookIncident
    <3> QED
      BY <1>0, <2>1, <3>1 DEF KnownInv, RequestKnown, SameRequest, Later, LinesGrow
  <2>2. CASE \E i \in Incidents : \E n \in pending[i] : Deliver(h, i, n)
    <3> PICK i \in Incidents : \E n \in pending[i] : Deliver(h, i, n)
      BY <2>2
    <3> PICK n \in pending[i] : Deliver(h, i, n)
      OBVIOUS
    <3>1. h \in Handlers /\ n \in DOMAIN timeline[i]
      BY DEF Handlers, TypeOK
    <3>2. /\ req'[h].incident = i /\ req'[h].no = n /\ req'[h].what = timeline[i][n]
          /\ timeline' = timeline
      BY <3>1 DEF Deliver, TypeOK, upstream
    <3> QED
      BY <3>1, <3>2 DEF RequestKnown
  <2> QED
    BY <2>1, <2>2, EachStepRequests DEF RequestKnown
<1> QED
  BY <1>1, <1>2 DEF KnownInv

LEMMA AlwaysKnown == Spec => []KnownInv
<1>1. Init => KnownInv
  BY DEF Init, WorldInit, KnownInv, RequestKnown, Handlers
<1> QED
  BY <1>1, KnownNext, TypeCorrect, PTL DEF Spec

-----------------------------------------------------------------------------
(***************************************************************************)
(* What is answered with 200 has been applied: it, or before a reopening   *)
(* an event of the same name.  The conditions: no task dies between        *)
(* marking an event and applying it, no reply of Redis is lost, and Redis  *)
(* fails at most once, so that the event of a delivery that failed is      *)
(* unmarked again; besides, the lock is kept and no record expires.        *)
(***************************************************************************)
Reliable == /\ Calm
            /\ spent["crash"] = 0 /\ spent["storeReply"] = 0 /\ spent["store"] <= 1

\* The steps of a task between marking its event and applying it, or unmarking it.
Marking == {"get", "upsert", "unmark"}

\* The event was applied or had been before: the answer will be 200.
Past(h) == \/ pc[h] \in {"clearResolved", "clearAcknowledged", "notify", "setMessageId"}
           \/ pc[h] = "release" /\ out[h] = "200"

TaskTaken(h) ==
  /\ Past(h) => TakenIn(req[h].incident, req[h].what)
  /\ pc[h] = "unmark" => out[h] = "500" /\ spent["store"] >= 1

\* A dedup key is there because the event was applied, or is about to be.
Explained(i, event) ==
  \/ TakenIn(i, event)
  \/ \E h \in WebhookHandlers :
        pc[h] \in Marking /\ req[h].incident = i /\ req[h].what = event

KeysExplained == \A i \in Incidents, event \in Events :
                    <<i, event>> \in dedup => Explained(i, event)

\* Of what was answered with 200, something of its name was applied.
AckedTaken ==
  \A i \in Incidents : \A n \in AckedOf(i) :
    FromEvent(timeline[i][n]) # None => TakenIn(i, timeline[i][n])

AckInv == /\ \A h \in WebhookHandlers : TaskTaken(h)
          /\ KeysExplained
          /\ AckedTaken

\* What a step has to show.
LEMMA AckStep ==
  ASSUME TypeOK, KnownInv, Later, AckInv,
         \A g \in WebhookHandlers : Rests(g) \/ TaskTaken(g)',
         KeysExplained',
         \A i \in Incidents : \A n \in AckedOf(i)' :
            \/ n \in AckedOf(i) \/ FromEvent(timeline'[i][n]) = None
            \/ TakenIn(i, timeline[i][n])'
  PROVE  AckInv'
<1>1. \A i \in Incidents : \A event : TakenIn(i, event) => TakenIn(i, event)'
  BY TakenLater DEF KnownInv
<1>2. ASSUME NEW g \in WebhookHandlers PROVE TaskTaken(g)'
  <2>1. CASE Rests(g)
    <3>1. TaskTaken(g)
      BY DEF AckInv
    <3>2. spent["store"] \in Nat /\ spent'["store"] \in Nat /\ spent'["store"] >= spent["store"]
      BY DEF Later, Kinds, Faults
    <3>3. pc[g] # "idle" => req[g].incident \in Incidents
      BY WebhookIncident
    <3> QED
      BY <1>1, <2>1, <3>1, <3>2, <3>3 DEF Rests, TaskTaken, Past
  <2> QED
    BY <2>1
<1>3. AckedTaken'
  <2> SUFFICES ASSUME NEW i \in Incidents, NEW n \in AckedOf(i)', FromEvent(timeline'[i][n]) # None
               PROVE  TakenIn(i, timeline[i][n])'
    BY DEF AckedTaken
  <2>1. CASE n \in AckedOf(i)
    <3>1. timeline'[i][n] = timeline[i][n]
      BY <2>1 DEF Later, LinesGrow, AckedOf
    <3>2. TakenIn(i, timeline[i][n])
      BY <2>1, <3>1 DEF AckInv, AckedTaken
    <3>3. PICK event : event = timeline[i][n]
      OBVIOUS
    <3>4. TakenIn(i, event)'
      BY <1>1, <3>2, <3>3
    <3> QED
      BY <3>1, <3>3, <3>4 DEF TakenIn
  <2> QED
    BY <2>1
<1> QED
  BY <1>2, <1>3 DEF AckInv

\* Keys stay explained if the task that moves is not the one that explains them.
LEMMA KeysStay ==
  ASSUME TypeOK, KnownInv, Later, AckInv, NEW h, dedup' \subseteq dedup,
         \A g \in WebhookHandlers \ {h} : Rests(g),
         h \in WebhookHandlers /\ pc[h] \in Marking =>
            \/ pc'[h] \in Marking /\ SameRequest(h)
            \/ <<req[h].incident, req[h].what>> \notin dedup'
            \/ \A i, event : req[h].incident = i /\ req[h].what = event => TakenIn(i, event)'
  PROVE  KeysExplained'
<1> SUFFICES ASSUME NEW i \in Incidents, NEW event \in Events, <<i, event>> \in dedup'
             PROVE  Explained(i, event)'
  BY DEF KeysExplained
<1>1. TakenIn(i, event) => TakenIn(i, event)'
  BY TakenLater DEF KnownInv
<1>2. Explained(i, event)
  BY DEF AckInv, KeysExplained
<1>3. ASSUME NEW g \in WebhookHandlers, pc[g] \in Marking, req[g].incident = i, req[g].what = event
      PROVE  Explained(i, event)'
  <2>1. CASE g = h
    BY <1>3, <2>1 DEF Explained, SameRequest
  <2>2. CASE g # h
    BY <1>3, <2>2 DEF Explained, Rests
  <2> QED
    BY <2>1, <2>2
<1> QED
  BY <1>1, <1>2, <1>3 DEF Explained

LEMMA EnvironmentAcks ==
  ASSUME TypeOK, KnownInv, Later, AckInv, Reliable, Reliable', Environment
  PROVE  AckInv'
<1>0. UNCHANGED upstream => \A i \in Incidents : AckedOf(i)' = AckedOf(i)
  BY DEF upstream, AckedOf
<1>1. CASE UNCHANGED tasks
  <2>1. dedup' \subseteq dedup /\ \A g \in WebhookHandlers : Rests(g)
    BY <1>1 DEF Environment, Happen, Deliver, GiveUp, Click, DeleteMessage, OrphanedLockExpires,
       LeaseLost, RecordExpires, DedupExpires, Crash, redis, tasks, Rests
  <2>2. \A i \in Incidents : AckedOf(i)' = AckedOf(i)
    <3>1. UNCHANGED upstream \/ \E i \in Incidents, event \in Events : Log(i, event)
      BY DEF Environment, Happen, Deliver, GiveUp, Click, DeleteMessage, OrphanedLockExpires,
       LeaseLost, RecordExpires, DedupExpires, Crash
    <3> QED
      BY <1>0, <3>1, LogLater
  <2>3. PICK h : h \notin WebhookHandlers
    BY HandlersAssumption DEF Handlers
  <2>4. KeysExplained'
    BY <2>1, <2>3, KeysStay
  <2> QED
    BY <2>1, <2>2, <2>4, AckStep
<1>2. CASE \E h \in WebhookHandlers, i \in Incidents : \E n \in pending[i] : Deliver(h, i, n)
  <2> PICK h \in WebhookHandlers : /\ pc[h] = "idle" /\ pc' = [pc EXCEPT ![h] = "lock"]
                                   /\ \E r : req' = [req EXCEPT ![h] = r]
                                   /\ UNCHANGED <<upstream, dedup, rec, out>>
    BY <1>2 DEF Deliver, Goto, redis
  <2>1. h \in Handlers
    BY DEF Handlers
  <2>2. TaskTaken(h)' /\ \A g \in WebhookHandlers \ {h} : Rests(g)
    BY <2>1 DEF TaskTaken, Past, Rests, TypeOK, Handlers
  <2>3. KeysExplained'
    BY <2>2, KeysStay DEF Marking
  <2> QED
    BY <1>0, <2>2, <2>3, AckStep
<1>3. CASE \E h \in WebhookHandlers : GiveUp(h)
  <2> PICK h \in WebhookHandlers : GiveUp(h)
    BY <1>3
  <2>1. h \in Handlers /\ req[h] \in Webhooks
    BY DEF Handlers, GiveUp, TypeOK, WebhookTaskOK
  <2>2. /\ UNCHANGED <<upstream, dedup, applied, pc, rec, out>> /\ SameRequest(h)
        /\ \A g \in WebhookHandlers \ {h} : Rests(g)
        /\ spent'["store"] = spent["store"]
    BY <2>1 DEF GiveUp, Spend, Kinds, Faults, redis, SameRequest, Rests, TypeOK, Webhooks, Handlers
  <2>3. TaskTaken(h)'
    BY <2>2 DEF AckInv, TaskTaken, Past, SameRequest, TakenIn, upstream
  <2>4. KeysExplained'
    BY <2>2, KeysStay
  <2> QED
    BY <1>0, <2>2, <2>3, <2>4, AckStep
<1>4. ASSUME NEW h \in Handlers, Crash(h) PROVE FALSE
  BY <1>4, SpendsOne DEF Crash, Reliable, Kinds, Faults
<1> QED
  BY <1>1, <1>2, <1>3, <1>4 DEF Environment, Happen, Click, DeleteMessage, OrphanedLockExpires,
     LeaseLost, RecordExpires, DedupExpires

\* An answer ends the delivery it belongs to, if it is a 200, and no other.
LEMMA RespondAcks ==
  ASSUME TypeOK, NEW h \in WebhookHandlers, pc[h] # "idle", NEW code, Respond(h, code),
         UNCHANGED timeline, NEW i \in Incidents, NEW n \in AckedOf(i)'
  PROVE  n \in AckedOf(i) \/ (code = "200" /\ i = req[h].incident /\ n = req[h].no)
<1>1. PICK j \in Incidents : j = req[h].incident
  BY WebhookIncident
<1>2. \/ pending' = pending
      \/ code = "200" /\ pending' = [pending EXCEPT ![j] = @ \ {req[h].no}]
  BY <1>1 DEF Respond
<1> QED
  BY <1>1, <1>2 DEF AckedOf, TypeOK

LEMMA WebhookAcks ==
  ASSUME TypeOK, KnownInv, TrackInv, Exclusive, Later, AckInv, Reliable, Reliable',
         NEW h \in WebhookHandlers, WebhookStep(h)
  PROVE  AckInv'
<1>0. /\ h \in Handlers /\ timeline' = timeline
      /\ TaskTaken(h) /\ RequestKnown(h)
      /\ ~Spend("storeReply")
  BY SpendsOne DEF Handlers, AckInv, KnownInv, Reliable, Kinds, Faults, WebhookStep,
     SkipUnknownEvent, LockIncident, MarkEvent, LoadRecord, UpsertRecord, ClearStaleEvents,
     ClearStale, SendIncident, SetMessage, EditIncident, UnmarkFailed, ReleaseAndRespond, upstream
<1>1. pc[h] # "idle" /\ \A g \in WebhookHandlers \ {h} : Rests(g)
  BY <1>0 DEF WebhookStep, SkipUnknownEvent, LockIncident, MarkEvent, LoadRecord, UpsertRecord,
     ClearStaleEvents, ClearStale, SendIncident, SetMessage, EditIncident, UnmarkFailed,
     ReleaseAndRespond, Respond, Reset, Finish, Goto, Rests, TypeOK, Handlers
<1>2. PICK i \in Incidents : i = req[h].incident
  BY <1>1, WebhookIncident
<1>3. PICK event \in Events : event = req[h].what
  BY <1>1, WebhookIncident
<1>4. \A k \in Incidents : \A e : TakenIn(k, e) => TakenIn(k, e)'
  BY TakenLater DEF KnownInv
<1>5. UNCHANGED pending => \A k \in Incidents : AckedOf(k)' = AckedOf(k)
  BY <1>0 DEF AckedOf
\* The steps that answer.
<1>6. CASE SkipUnknownEvent(h) \/ LockIncident(h) \/ ReleaseAndRespond(h)
  <2>1. dedup' = dedup /\ pc[h] \in {"lock", "release"}
    BY <1>6 DEF SkipUnknownEvent, LockIncident, ReleaseAndRespond, redis
  <2>2. KeysExplained'
    BY <1>1, <2>1, KeysStay DEF Marking
  <2>3. TaskTaken(h)'
    BY <1>0, <1>6 DEF SkipUnknownEvent, LockIncident, ReleaseAndRespond, Respond, Reset, Goto,
       TaskTaken, Past, TypeOK
  <2>4. ASSUME NEW k \in Incidents, NEW n \in AckedOf(k)', n \notin AckedOf(k)
        PROVE  FromEvent(timeline'[k][n]) = None \/ TakenIn(k, timeline[k][n])'
    <3>1. CASE SkipUnknownEvent(h)
      <4>1. k = i /\ n = req[h].no
        BY <1>0, <1>1, <1>2, <2>4, <3>1, RespondAcks DEF SkipUnknownEvent
      <4> QED
        BY <1>0, <1>1, <1>2, <3>1, <4>1 DEF SkipUnknownEvent, RequestKnown
    <3>2. CASE LockIncident(h)
      <4>1. UNCHANGED pending \/ Respond(h, "503") \/ Respond(h, "500")
        BY <3>2 DEF LockIncident
      <4>2. n \in AckedOf(k)
        BY <1>0, <1>1, <1>5, <2>4, <4>1, RespondAcks
      <4> QED
        BY <2>4, <4>2
    <3>3. CASE ReleaseAndRespond(h)
      <4>1. out[h] = "200" /\ k = i /\ n = req[h].no /\ pc[h] = "release"
        BY <1>0, <1>1, <1>2, <2>4, <3>3, RespondAcks DEF ReleaseAndRespond
      <4>2. TakenIn(i, event) /\ timeline'[k][n] = event
        BY <1>0, <1>1, <1>2, <1>3, <4>1 DEF TaskTaken, Past, RequestKnown
      <4> QED
        BY <1>4, <4>1, <4>2 DEF TakenIn
    <3> QED
      BY <1>6, <3>1, <3>2, <3>3
  <2> QED
    BY <1>1, <2>2, <2>3, <2>4, AckStep
<1> SUFFICES ASSUME ~(SkipUnknownEvent(h) \/ LockIncident(h) \/ ReleaseAndRespond(h))
             PROVE  AckInv'
  BY <1>6
<1>7. UNCHANGED <<pending, req>> /\ InCritical(h)
  BY DEF WebhookStep, MarkEvent, LoadRecord, UpsertRecord, ClearStaleEvents,
     ClearStale, SendIncident, SetMessage, EditIncident, UnmarkFailed, upstream, InCritical
<1> SUFFICES TaskTaken(h)' /\ KeysExplained'
  BY <1>1, <1>5, <1>7, AckStep
<1>8. /\ TaskTaken(h)' <=> /\ Past(h)' => TakenIn(i, event)'
                           /\ pc'[h] = "unmark" => out'[h] = "500" /\ spent'["store"] >= 1
      /\ Explained(i, event)' <=>
            \/ TakenIn(i, event)'
            \/ \E g \in WebhookHandlers :
                  pc'[g] \in Marking /\ req'[g].incident = i /\ req'[g].what = event
  BY <1>2, <1>3, <1>7 DEF TaskTaken, Explained, TakenIn
<1>9. CASE MarkEvent(h)
  <2>1. \/ /\ dedup' = dedup \cup {<<i, event>>} /\ pc' = [pc EXCEPT ![h] = "get"]
        \/ <<i, event>> \in dedup /\ dedup' = dedup /\ Finish(h, "release", "200")
        \/ dedup' = dedup /\ Finish(h, "release", "500")
    BY <1>0, <1>2, <1>3, <1>9 DEF MarkEvent, IsNew, MarkEventOnce, WriteFails, Goto
  <2>2. CASE dedup' = dedup \cup {<<i, event>>} /\ pc' = [pc EXCEPT ![h] = "get"]
    <3>1. pc'[h] = "get"
      BY <1>0, <2>2 DEF TypeOK
    <3>2. ASSUME NEW k \in Incidents, NEW e \in Events, <<k, e>> \in dedup' PROVE Explained(k, e)'
      <4>1. CASE k = i /\ e = event
        BY <1>2, <1>3, <1>7, <3>1, <4>1 DEF Explained, Marking
      <4>2. CASE ~(k = i /\ e = event)
        <5>1. Explained(k, e)
          BY <2>2, <3>2, <4>2 DEF AckInv, KeysExplained
        <5>2. \A g \in WebhookHandlers : pc[g] \in Marking =>
                pc'[g] \in Marking /\ req'[g] = req[g]
          BY <1>1, <1>7, <3>1 DEF Rests, Marking
        <5> QED
          BY <1>4, <5>1, <5>2 DEF Explained
      <4> QED
        BY <4>1, <4>2
    <3> QED
      BY <1>8, <3>1, <3>2 DEF KeysExplained, Past
  <2>3. CASE dedup' = dedup /\ Finish(h, "release", "500")
    <3>1. pc'[h] = "release" /\ out'[h] = "500"
      BY <1>0, <2>3 DEF Finish, Goto, TypeOK
    <3> QED
      BY <1>1, <1>8, <1>9, <2>3, <3>1, KeysStay DEF MarkEvent, Marking, Past
  <2>4. CASE <<i, event>> \in dedup /\ dedup' = dedup /\ Finish(h, "release", "200")
    <3>1. pc'[h] = "release"
      BY <1>0, <2>4 DEF Finish, Goto, TypeOK
    <3>2. Explained(i, event)
      BY <2>4 DEF AckInv, KeysExplained
    <3>3. ASSUME NEW g \in WebhookHandlers, pc[g] \in Marking, req[g].incident = i
          PROVE  FALSE
      <4>1. g \in Handlers /\ Working(g, i) /\ Working(h, i)
        BY <1>2, <1>7, <3>3 DEF Handlers, Working, InCritical, Marking
      <4> QED
        BY <1>0, <1>9, <3>3, <4>1 DEF Exclusive, MarkEvent, Marking
    <3>4. TakenIn(i, event)
      BY <3>2, <3>3 DEF Explained
    <3> QED
      BY <1>1, <1>4, <1>8, <1>9, <2>4, <3>1, <3>4, KeysStay DEF MarkEvent, Marking
  <2> QED
    BY <2>1, <2>2, <2>3, <2>4
<1>10. CASE LoadRecord(h)
  <2>1. /\ dedup' = dedup /\ pc[h] = "get"
        /\ \/ pc' = [pc EXCEPT ![h] = "upsert"]
           \/ Spend("store") /\ Finish(h, "unmark", "500")
    BY <1>10 DEF LoadRecord, redis, Goto
  <2>2. /\ pc'[h] \in {"upsert", "unmark"}
        /\ pc'[h] = "unmark" => out'[h] = "500" /\ spent'["store"] >= 1
    <3>1. Spend("store") => spent["store"] \in Nat /\ spent'["store"] = spent["store"] + 1
      BY SpendsOne DEF Kinds, Faults
    <3> QED
      BY <1>0, <2>1, <3>1 DEF Finish, Goto, TypeOK
  <2> QED
    BY <1>1, <1>7, <1>8, <2>1, <2>2, KeysStay DEF Marking, Past, SameRequest
<1>11. CASE UpsertRecord(h)
  <2>1. /\ dedup' = dedup /\ pc[h] = "upsert" /\ rec[h].id = i
    BY <1>0, <1>2, <1>7, <1>11 DEF UpsertRecord, TrackInv, Tracks, WebhookTracks, Placed
  <2>2. CASE Spend("store") /\ Finish(h, "unmark", "500")
    <3>1. Spend("store") => spent["store"] \in Nat /\ spent'["store"] = spent["store"] + 1
      BY SpendsOne DEF Kinds, Faults
    <3>2. pc'[h] = "unmark" /\ out'[h] = "500" /\ spent'["store"] >= 1
      BY <1>0, <2>2, <3>1 DEF Finish, Goto, TypeOK
    <3> QED
      BY <1>1, <1>7, <1>8, <2>1, <3>2, KeysStay DEF Marking, Past, SameRequest
  <2>3. CASE /\ NoteApplied(h) /\ UNCHANGED out
             /\ pc' = [pc EXCEPT ![h] = IF rec[h].status = "started" THEN "clearResolved"
                                                                     ELSE "notify"]
    <3>1. pc'[h] \in {"clearResolved", "notify"}
      BY <1>0, <2>3 DEF TypeOK
    <3>2. req[h].no \in applied'[i] /\ timeline'[i][req[h].no] = event
      <4>1. applied' = [applied EXCEPT ![i] = @ \cup {req[h].no}]
        BY <1>2, <2>1, <2>3 DEF NoteApplied
      <4> QED
        BY <1>0, <1>1, <1>2, <1>3, <4>1 DEF TypeOK, RequestKnown
    <3>3. TakenIn(i, event)'
      BY <3>2 DEF TakenIn
    <3>4. \A k, e : req[h].incident = k /\ req[h].what = e => TakenIn(k, e)'
      BY <1>2, <1>3, <3>3
    <3> QED
      BY <1>1, <1>8, <2>1, <3>1, <3>3, <3>4, KeysStay DEF Marking
  <2> QED
    BY <1>0, <1>11, <2>2, <2>3 DEF UpsertRecord, Goto
<1>12. CASE ClearStaleEvents(h) \/ SendIncident(h) \/ SetMessage(h) \/ EditIncident(h)
  <2>1. /\ dedup' \subseteq dedup /\ Past(h) /\ pc[h] \notin Marking
        /\ pc'[h] # "unmark"
    BY <1>0, <1>12 DEF ClearStaleEvents, ClearStale, SendIncident, SetMessage, EditIncident,
       UnmarkEvent, WriteFails, Finish, Goto, redis, Past, Marking, TypeOK
  <2>2. TakenIn(i, event)'
    BY <1>0, <1>2, <1>3, <1>4, <2>1 DEF TaskTaken
  <2> QED
    BY <1>1, <1>8, <2>1, <2>2, KeysStay
<1>13. CASE UnmarkFailed(h)
  <2>1. /\ pc[h] = "unmark" /\ UNCHANGED out
        /\ out[h] = "500" /\ spent["store"] >= 1
    BY <1>0, <1>13 DEF UnmarkFailed, TaskTaken
  <2>2. ~Spend("store")
    <3>1. Spend("store") => spent["store"] \in Nat /\ spent'["store"] = spent["store"] + 1
      BY SpendsOne DEF Kinds, Faults
    <3> QED
      BY <2>1, <3>1 DEF Reliable
  <2>3. dedup' = dedup \ {<<i, event>>}
    BY <1>0, <1>2, <1>3, <1>13, <2>2 DEF UnmarkFailed, UnmarkEvent, WriteFails
  <2>4. pc'[h] = "release" /\ out'[h] = "500"
    BY <1>0, <1>13, <2>1 DEF UnmarkFailed, Goto, TypeOK
  <2>5. <<req[h].incident, req[h].what>> \notin dedup' /\ dedup' \subseteq dedup
    BY <1>2, <1>3, <2>3
  <2> QED
    BY <1>1, <1>8, <2>4, <2>5, KeysStay DEF Past
<1> QED
  BY <1>9, <1>10, <1>11, <1>12, <1>13 DEF WebhookStep

LEMMA CallbackAcks ==
  ASSUME TypeOK, KnownInv, Later, AckInv, NEW h \in CallbackHandlers, CallbackStep(h)
  PROVE  AckInv'
<1>0. h \in Handlers /\ h \notin WebhookHandlers
  BY HandlersAssumption DEF Handlers
<1>1. dedup' = dedup /\ \A g \in WebhookHandlers : Rests(g)
  BY <1>0 DEF CallbackStep, TakeClick, LockForCallback, CallBetterStack, RetryCall, LoadCurrent,
     StoreStatus, Reload, EditAfterClick, ReleaseAndAnswer, Answer, Reset, Conclude, Goto, tasks,
     redis, Rests, TypeOK, Handlers
<1>2. KeysExplained'
  BY <1>0, <1>1, KeysStay
<1>3. \A i \in Incidents : AckedOf(i)' = AckedOf(i)
  <2>1. CASE UNCHANGED upstream
    BY <2>1 DEF upstream, AckedOf
  <2>2. CASE /\ pc[h] = "api" /\ Log(req[h].incident, ActionEvent[req[h].what])
    <3>1. CallbackTaskOK(h)
      BY DEF TypeOK
    <3>2. req[h].incident \in Incidents /\ req[h].what \in {"Acknowledge", "Resolve"}
      BY <2>2, <3>1 DEF CallbackTaskOK, Presses
    <3>3. ActionEvent[req[h].what] \in Events
      BY <3>2 DEF ActionEvent, Events
    <3> QED
      BY <2>2, <3>2, <3>3, LogLater
  <2> QED
    BY <2>1, <2>2 DEF CallbackStep, TakeClick, LockForCallback, CallBetterStack, RetryCall,
       LoadCurrent, StoreStatus, Reload, EditAfterClick, ReleaseAndAnswer, Accepted
<1> QED
  BY <1>1, <1>2, <1>3, AckStep

LEMMA AckNext ==
  ASSUME TypeOK, KnownInv, TrackInv, LockHeld, AckInv, Reliable, Reliable', [Next]_vars
  PROVE  AckInv'
<1>1. Exclusive /\ Later
  BY EachStepLater DEF Reliable, Calm, LockHeld, Exclusive
<1>2. CASE UNCHANGED vars
  <2>1. /\ \A g \in WebhookHandlers : Rests(g)
        /\ dedup' = dedup /\ UNCHANGED upstream
    BY <1>2 DEF vars, tasks, Rests, redis
  <2>2. PICK h : h \notin WebhookHandlers
    BY HandlersAssumption DEF Handlers
  <2>3. KeysExplained'
    BY <1>1, <2>1, <2>2, KeysStay
  <2>4. \A i \in Incidents : AckedOf(i)' = AckedOf(i)
    BY <2>1 DEF upstream, AckedOf
  <2> QED
    BY <1>1, <2>1, <2>3, <2>4, AckStep
<1> QED
  BY <1>1, <1>2, EnvironmentAcks, WebhookAcks, CallbackAcks DEF Next

LEMMA ReliableAcks == Spec /\ []Reliable => []AckInv
<1>1. Init => AckInv /\ LockHeld
  <2> SUFFICES ASSUME Init PROVE AckInv /\ LockHeld
    OBVIOUS
  <2>1. LockHeld /\ \A h \in WebhookHandlers : TaskTaken(h)
    BY DEF Init, WorldInit, LockHeld, Working, InCritical, TaskTaken, Past, Handlers
  <2>2. KeysExplained
    BY DEF Init, WorldInit, KeysExplained
  <2>3. AckedTaken
    BY DEF Init, WorldInit, AckedTaken, AckedOf
  <2> QED
    BY <2>1, <2>2, <2>3 DEF AckInv
<1>2. Reliable => Calm
  BY DEF Reliable
<1> QED
  BY <1>1, <1>2, AckNext, LockHeldStep, CalmTracks, AlwaysKnown, TypeCorrect, PTL DEF Spec

-----------------------------------------------------------------------------
(***************************************************************************)
(* By the book: no task dies, no reply of Redis is lost, and no request is *)
(* given up.  Then the two requests of one delivery do not overlap, and an *)
(* applied one is answered with 200 at its first attempt.                  *)
(***************************************************************************)
Prompt == spent["crash"] = 0 /\ spent["storeReply"] = 0 /\ spent["timeout"] = 0

Same(g, h) == req[g].incident = req[h].incident /\ req[g].no = req[h].no

Awaited(h) == pc[h] # "idle" => req[h].awaited /\ req[h].no \in pending[req[h].incident]

PromptInv ==
  /\ \A h \in WebhookHandlers : Awaited(h)
  /\ \A g, h \in WebhookHandlers : pc[g] # "idle" /\ pc[h] # "idle" /\ Same(g, h) => g = h
  /\ \A i \in Incidents : \A n \in applied[i] \cap pending[i] :
       \E h \in WebhookHandlers : Past(h) /\ req[h].incident = i /\ req[h].no = n

\* What happens to a task that is neither new nor given up nor dead.
LEMMA PromptRequests ==
  ASSUME TypeOK, Later, Prompt', [Next]_vars
  PROVE  /\ ~Spend("crash") /\ ~Spend("timeout") /\ ~Spend("storeReply")
         /\ \A h \in WebhookHandlers :
              pc[h] # "idle" => \/ req'[h] = req[h]
                                \/ pc'[h] = "idle"
<1>1. ~Spend("crash") /\ ~Spend("timeout") /\ ~Spend("storeReply")
  <2>1. \A kind \in {"crash", "timeout", "storeReply"} :
          kind \in Kinds /\ spent[kind] \in Nat /\ spent'[kind] = 0
    BY DEF Later, Prompt, Kinds, Faults
  <2>2. \A kind \in {"crash", "timeout", "storeReply"} :
          Spend(kind) => spent'[kind] = spent[kind] + 1
    BY <2>1, SpendsOne
  <2> QED
    BY <2>1, <2>2
<1>2. ASSUME NEW h \in WebhookHandlers, pc[h] # "idle"
      PROVE  req'[h] = req[h] \/ pc'[h] = "idle"
  <2>0. h \in Handlers /\ h \notin CallbackHandlers
    BY HandlersAssumption DEF Handlers
  <2>1. CASE UNCHANGED vars
    BY <2>1 DEF vars, tasks
  <2>2. CASE Environment
    <3>1. UNCHANGED req \/ \E g \in WebhookHandlers : pc[g] = "idle" /\ \E r : req' = [req EXCEPT ![g] = r]
      BY <1>1, <2>2 DEF Environment, Happen, Deliver, GiveUp, Click, DeleteMessage,
         OrphanedLockExpires, LeaseLost, RecordExpires, DedupExpires, Crash, tasks
    <3> QED
      BY <1>2, <2>0, <3>1 DEF TypeOK
  <2>3. ASSUME NEW g \in WebhookHandlers, WebhookStep(g) PROVE req'[h] = req[h] \/ pc'[h] = "idle"
    <3>1. UNCHANGED req \/ Reset(g)
      BY <2>3 DEF WebhookStep, SkipUnknownEvent, LockIncident, MarkEvent, LoadRecord, UpsertRecord,
         ClearStaleEvents, ClearStale, SendIncident, SetMessage, EditIncident, UnmarkFailed,
         ReleaseAndRespond, Respond
    <3> QED
      BY <2>0, <3>1 DEF Reset, TypeOK
  <2>4. ASSUME NEW g \in CallbackHandlers, CallbackStep(g) PROVE req'[h] = req[h]
    <3>1. UNCHANGED req \/ \E r : req' = [req EXCEPT ![g] = r]
      BY <2>4 DEF CallbackStep, TakeClick, LockForCallback, CallBetterStack, RetryCall,
         LoadCurrent, StoreStatus, Reload, EditAfterClick, ReleaseAndAnswer, Answer, Reset, tasks
    <3> QED
      BY <2>0, <3>1 DEF TypeOK
  <2> QED
    BY <2>1, <2>2, <2>3, <2>4 DEF Next
<1> QED
  BY <1>1, <1>2

\* How the set of events that are due changes.
LEMMA PromptPending ==
  ASSUME TypeOK, [Next]_vars
  PROVE  \/ UNCHANGED pending
         \/ \E j \in Incidents, event \in Events : Log(j, event)
         \/ \E h \in WebhookHandlers : /\ pc[h] # "idle" /\ pc'[h] = "idle"
                                       /\ pending' = [pending EXCEPT ![req[h].incident] =
                                                        @ \ {req[h].no}]
<1>1. CASE UNCHANGED vars
  BY <1>1 DEF vars, upstream
<1>2. Environment => \/ UNCHANGED pending
                     \/ \E j \in Incidents, event \in Events : Log(j, event)
  BY DEF Environment, Happen, Deliver, GiveUp, Click, DeleteMessage,
     OrphanedLockExpires, LeaseLost, RecordExpires, DedupExpires, Crash, upstream
<1>3. ASSUME NEW h \in WebhookHandlers, WebhookStep(h)
      PROVE  \/ UNCHANGED pending
             \/ /\ pc[h] # "idle" /\ pc'[h] = "idle"
                /\ pending' = [pending EXCEPT ![req[h].incident] = @ \ {req[h].no}]
  <2>1. h \in Handlers
    BY DEF Handlers
  <2>2. UNCHANGED pending \/ (pc[h] # "idle" /\ \E code : Respond(h, code))
    BY <1>3 DEF WebhookStep, SkipUnknownEvent, LockIncident, MarkEvent, LoadRecord, UpsertRecord,
       ClearStaleEvents, ClearStale, SendIncident, SetMessage, EditIncident, UnmarkFailed,
       ReleaseAndRespond, upstream
  <2> QED
    BY <2>1, <2>2 DEF Respond, Reset, TypeOK
<1>4. ASSUME NEW h \in CallbackHandlers, CallbackStep(h)
      PROVE  UNCHANGED pending \/ \E j \in Incidents, event \in Events : Log(j, event)
  <2>1. UNCHANGED upstream \/ (pc[h] = "api" /\ Log(req[h].incident, ActionEvent[req[h].what]))
    BY <1>4 DEF CallbackStep, TakeClick, LockForCallback, CallBetterStack, RetryCall, LoadCurrent,
       StoreStatus, Reload, EditAfterClick, ReleaseAndAnswer, Accepted
  <2>2. pc[h] = "api" => /\ req[h].incident \in Incidents
                         /\ req[h].what \in {"Acknowledge", "Resolve"}
    BY DEF TypeOK, CallbackTaskOK, Presses
  <2> QED
    BY <2>1, <2>2 DEF upstream, ActionEvent, Events
<1> QED
  BY <1>1, <1>2, <1>3, <1>4 DEF Next

\* A delivery that is past its upsert ends with the answer that takes it off the list.
LEMMA PastStays ==
  ASSUME TypeOK, Later, Prompt', [Next]_vars, NEW h \in WebhookHandlers, Past(h), Awaited(h)
  PROVE  \/ Past(h)' /\ req'[h] = req[h]
         \/ req[h].no \notin pending'[req[h].incident]
<1>0. h \in Handlers /\ h \notin CallbackHandlers /\ pc[h] # "idle" /\ req[h].awaited
  BY HandlersAssumption DEF Handlers, Past, Awaited
<1>1. ~Spend("crash") /\ ~Spend("timeout") /\ ~Spend("storeReply")
  BY PromptRequests
<1>2. Rests(h) => Past(h)' /\ req'[h] = req[h]
  BY DEF Rests, Past
<1>3. CASE UNCHANGED vars
  BY <1>2, <1>3 DEF vars, tasks, Rests
<1>4. CASE Environment
  <2>1. UNCHANGED tasks
        \/ \E g \in WebhookHandlers : /\ pc[g] = "idle" /\ Goto(g, "lock")
                                      /\ \E r : req' = [req EXCEPT ![g] = r]
                                      /\ UNCHANGED <<rec, out>>
    BY <1>1, <1>4 DEF Environment, Happen, Deliver, GiveUp, Click, DeleteMessage,
       OrphanedLockExpires, LeaseLost, RecordExpires, DedupExpires, Crash
  <2> QED
    BY <1>0, <1>2, <2>1 DEF tasks, Rests, Goto, TypeOK
<1>5. ASSUME NEW g \in WebhookHandlers, WebhookStep(g), g # h PROVE Rests(h)
  <2>1. g \in Handlers
    BY DEF Handlers
  <2> QED
    BY <1>0, <1>5, <2>1 DEF WebhookStep, SkipUnknownEvent, LockIncident, MarkEvent, LoadRecord,
       UpsertRecord, ClearStaleEvents, ClearStale, SendIncident, SetMessage, EditIncident,
       UnmarkFailed, ReleaseAndRespond, Respond, Reset, Finish, Goto, Rests, TypeOK
<1>6. CASE WebhookStep(h)
  <2>1. PICK i \in Incidents : i = req[h].incident
    BY <1>0, WebhookIncident
  <2>2. CASE ReleaseAndRespond(h)
    <3>1. pending' = [pending EXCEPT ![i] = @ \ {req[h].no}]
      BY <1>0, <2>1, <2>2 DEF ReleaseAndRespond, Respond, Past
    <3> QED
      BY <2>1, <3>1 DEF TypeOK
  <2>3. CASE ClearStaleEvents(h) \/ SendIncident(h) \/ SetMessage(h) \/ EditIncident(h)
    BY <1>0, <2>3 DEF ClearStaleEvents, ClearStale, SendIncident, SetMessage, EditIncident,
       Finish, Goto, Past, TypeOK
  <2> QED
    BY <1>6, <2>2, <2>3 DEF Past, WebhookStep, SkipUnknownEvent, LockIncident, MarkEvent,
       LoadRecord, UpsertRecord, UnmarkFailed
<1>7. ASSUME NEW g \in CallbackHandlers, CallbackStep(g) PROVE Rests(h)
  <2>1. g \in Handlers /\ g # h
    BY <1>0 DEF Handlers
  <2> QED
    BY <1>0, <1>7, <2>1 DEF CallbackStep, TakeClick, LockForCallback, CallBetterStack, RetryCall,
       LoadCurrent, StoreStatus, Reload, EditAfterClick, ReleaseAndAnswer, Answer, Reset,
       Conclude, Goto, tasks, Rests, TypeOK
<1> QED
  BY <1>2, <1>3, <1>4, <1>5, <1>6, <1>7 DEF Next

LEMMA PromptNext ==
  ASSUME TypeOK, KnownInv, PromptInv, Prompt', [Next]_vars
  PROVE  PromptInv'
<1>0. Later
  BY EachStepLater
<1>1. ASSUME NEW h \in WebhookHandlers, pc'[h] # "idle"
      PROVE  \/ pc[h] # "idle" /\ req'[h] = req[h]
             \/ \E i \in Incidents : \E n \in pending[i] : Deliver(h, i, n)
  BY <1>0, <1>1, EachStepRequests, PromptRequests
<1>2. ASSUME NEW h \in WebhookHandlers, NEW i \in Incidents, NEW n \in pending[i], Deliver(h, i, n)
      PROVE  /\ pending' = pending /\ pc[h] = "idle"
             /\ req'[h].incident = i /\ req'[h].no = n /\ req'[h].awaited
             /\ \A g \in WebhookHandlers \ {h} : /\ pc'[g] = pc[g] /\ req'[g] = req[g]
                                                 /\ pc[g] # "idle" => ~Same(g, h)'
  <2>1. h \in Handlers /\ \A g \in WebhookHandlers : g \in Handlers
    BY DEF Handlers
  <2>2. /\ pending' = pending /\ pc[h] = "idle"
        /\ req'[h].incident = i /\ req'[h].no = n /\ req'[h].awaited
        /\ \A g \in WebhookHandlers \ {h} : pc'[g] = pc[g] /\ req'[g] = req[g]
    BY <1>2, <2>1 DEF Deliver, Goto, upstream, TypeOK
  <2>3. ASSUME NEW g \in WebhookHandlers \ {h}, pc[g] # "idle", Same(g, h)' PROVE FALSE
    <3>1. req[g].incident = i /\ req[g].no = n /\ req[g].awaited
      BY <2>2, <2>3 DEF Same, PromptInv, Awaited
    <3> QED
      BY <1>2, <2>3, <3>1 DEF Deliver
  <2> QED
    BY <2>2, <2>3
<1>3. ASSUME NEW h \in WebhookHandlers PROVE Awaited(h)'
  <2> SUFFICES ASSUME pc'[h] # "idle" PROVE Awaited(h)'
    BY DEF Awaited
  <2>1. CASE pc[h] # "idle" /\ req'[h] = req[h]
    <3>1. PICK i \in Incidents : i = req[h].incident
      BY <2>1, WebhookIncident
    <3>2. req[h].no \in pending[i] /\ req[h].awaited
      BY <2>1, <3>1 DEF PromptInv, Awaited
    <3>3. req[h].no \in pending'[i]
      <4>1. CASE \E j \in Incidents, event \in Events : Log(j, event)
        BY <3>2, <4>1 DEF Log, TypeOK
      <4>2. ASSUME NEW g \in WebhookHandlers, pc[g] # "idle", pc'[g] = "idle",
                   pending' = [pending EXCEPT ![req[g].incident] = @ \ {req[g].no}]
            PROVE  req[h].no \in pending'[i]
        <5>1. g # h
          BY <4>2
        <5>2. PICK j \in Incidents : j = req[g].incident
          BY <4>2, WebhookIncident
        <5>3. ~Same(g, h)
          BY <2>1, <4>2, <5>1 DEF PromptInv
        <5> QED
          BY <3>1, <3>2, <4>2, <5>2, <5>3 DEF Same, TypeOK
      <4> QED
        BY <3>2, <4>1, <4>2, PromptPending
    <3> QED
      BY <2>1, <3>1, <3>2, <3>3 DEF Awaited
  <2> QED
    BY <1>1, <1>2, <2>1 DEF Awaited
<1>4. ASSUME NEW g \in WebhookHandlers, NEW h \in WebhookHandlers,
             pc'[g] # "idle", pc'[h] # "idle", Same(g, h)'
      PROVE  g = h
  <2>1. CASE pc[g] # "idle" /\ req'[g] = req[g] /\ pc[h] # "idle" /\ req'[h] = req[h]
    BY <1>4, <2>1 DEF PromptInv, Same
  <2>2. ASSUME NEW i \in Incidents, NEW n \in pending[i], Deliver(g, i, n) PROVE g = h
    BY <1>2, <1>4, <2>2 DEF Same
  <2>3. ASSUME NEW i \in Incidents, NEW n \in pending[i], Deliver(h, i, n) PROVE g = h
    BY <1>2, <1>4, <2>3 DEF Same
  <2> QED
    BY <1>1, <1>4, <2>1, <2>2, <2>3
<1>5. ASSUME NEW i \in Incidents, NEW n \in applied'[i], n \in pending'[i]
      PROVE  \E h \in WebhookHandlers : Past(h)' /\ req'[h].incident = i /\ req'[h].no = n
  <2>1. CASE n \in applied[i]
    <3>1. n \in pending[i]
      <4>1. n \in DOMAIN timeline[i]
        BY <2>1 DEF KnownInv
      <4>2. ASSUME NEW j \in Incidents, NEW event \in Events, Log(j, event)
            PROVE  n \in pending[i]
        <5>1. n \in AckedOf(i) => n \in AckedOf(i)'
          BY <4>2, LogLater
        <5> QED
          BY <1>5, <4>1, <5>1 DEF AckedOf
      <4>3. ASSUME NEW g \in WebhookHandlers, pc[g] # "idle",
                   pending' = [pending EXCEPT ![req[g].incident] = @ \ {req[g].no}]
            PROVE  n \in pending[i]
        BY <1>5, <4>3, WebhookIncident DEF TypeOK
      <4> QED
        BY <1>5, <4>2, <4>3, PromptPending
    <3>2. PICK h \in WebhookHandlers : Past(h) /\ req[h].incident = i /\ req[h].no = n
      BY <2>1, <3>1 DEF PromptInv
    <3>3. Past(h)' /\ req'[h] = req[h]
      BY <1>0, <1>5, <3>2, PastStays DEF PromptInv
    <3> QED
      BY <3>2, <3>3
  <2>2. CASE n \notin applied[i]
    <3>1. PICK h \in WebhookHandlers : /\ pc[h] = "upsert" /\ UpsertRecord(h)
                                       /\ applied' = [applied EXCEPT ![req[h].incident] =
                                                        @ \cup {req[h].no}]
      BY <1>5, <2>2, EachStepApplies
    <3>2. h \in Handlers /\ req[h].incident \in Incidents
      BY <3>1, WebhookIncident DEF Handlers
    <3>3. req[h].incident = i /\ req[h].no = n
      BY <1>5, <2>2, <3>1, <3>2 DEF TypeOK
    <3>4. ~Spend("storeReply") /\ applied' # applied
      BY <1>0, <1>5, <2>2, PromptRequests
    <3>5. req' = req /\ pc'[h] \in {"clearResolved", "notify"}
      BY <3>1, <3>2, <3>4 DEF UpsertRecord, Goto, TypeOK
    <3> QED
      BY <3>3, <3>5 DEF Past
  <2> QED
    BY <2>1, <2>2
<1> QED
  BY <1>3, <1>4, <1>5 DEF PromptInv

LEMMA AlwaysPrompt == Spec /\ []Prompt => []PromptInv
<1>1. Init => PromptInv
  BY DEF Init, WorldInit, PromptInv, Awaited, Handlers
<1> QED
  BY <1>1, PromptNext, AlwaysKnown, TypeCorrect, PTL DEF Spec

-----------------------------------------------------------------------------
(***************************************************************************)
(* Without reopening, an event that was applied has left its mark for good *)
(* in the status: its trigger changes nothing any more.  Lost replies,     *)
(* crashes, timeouts and expired keys do not matter, lost locks would.     *)
(***************************************************************************)
Steady == Calm /\ spent["reopen"] = 0

Absorbed(i, event) == /\ incidents[i] # None
                      /\ NextStatus(Held(i), FromEvent(event)) = Held(i)

NoReopening == \A i \in Incidents : "incident_reopened" \notin Happened(timeline[i])

AbsorbInv == /\ NoReopening
             /\ \A i \in Incidents, event \in Events : TakenIn(i, event) => Absorbed(i, event)

\* incident::next never turns back, unless the incident is reopened.
LEMMA NextAbsorbs ==
  ASSUME NEW current \in Statuses, NEW trigger, trigger # "Reopened"
  PROVE  /\ NextStatus(NextStatus(current, trigger), trigger) = NextStatus(current, trigger)
         /\ \A earlier : earlier # "Reopened" /\ NextStatus(current, earlier) = current =>
              NextStatus(NextStatus(current, trigger), earlier) = NextStatus(current, trigger)
BY DEF NextStatus, Statuses

LEMMA AppendHappened ==
  ASSUME NEW line \in Seq(Events), NEW event \in Events
  PROVE  Happened(Append(line, event)) = Happened(line) \cup {event}
<1>1. /\ Len(line) \in Nat /\ DOMAIN line = 1 .. Len(line)
      /\ DOMAIN Append(line, event) = 1 .. (Len(line) + 1)
      /\ \A n \in 1 .. Len(line) : Append(line, event)[n] = line[n]
      /\ Append(line, event)[Len(line) + 1] = event
  BY AppendProperties, LenProperties
<1> QED
  BY <1>1 DEF Happened

LEMMA NoReopeningNext ==
  ASSUME TypeOK, NoReopening, Later, spent'["reopen"] = 0, [Next]_vars
  PROVE  NoReopening'
<1>1. ASSUME NEW j \in Incidents, NEW event \in Events, Logs(j, event)
      PROVE  NoReopening'
  <2>1. event # "incident_reopened"
    <3>1. Spend("reopen") => spent["reopen"] \in Nat /\ spent'["reopen"] = spent["reopen"] + 1
      BY SpendsOne DEF Kinds
    <3> QED
      BY <1>1, <3>1 DEF Logs
  <2>2. PICK line \in Seq(Events) : line = timeline[j]
    BY DEF TypeOK
  <2>3. timeline' = [timeline EXCEPT ![j] = Append(line, event)]
    BY <1>1, <2>2 DEF Logs, Log
  <2>4. "incident_reopened" \notin Happened(Append(line, event))
    BY <2>1, <2>2, AppendHappened DEF NoReopening
  <2> QED
    BY <2>3, <2>4 DEF NoReopening, TypeOK
<1> QED
  BY <1>1, EachStepLogs DEF NoReopening

\* What a step makes of the status of an incident.
LEMMA StatusSteps ==
  ASSUME TypeOK, TrackInv, BackedInv, NoReopening, Calm', [Next]_vars, NEW i \in Incidents
  PROVE  \/ UNCHANGED StoredStatus(i)
         \/ \E trigger \in Triggers \ {"Reopened"} :
               StoredStatus(i)' = NextStatus(Held(i), trigger)
<1>1. CASE Status' = Status
  BY <1>1 DEF Status
<1>2. ASSUME NEW j \in Incidents, NEW trigger \in Triggers \ {"Reopened"}, Applies(j, trigger)
      PROVE  \/ UNCHANGED StoredStatus(i)
             \/ StoredStatus(i)' = NextStatus(Held(i), trigger)
  BY <1>2 DEF Applies, Status
<1>3. CASE UNCHANGED vars
  BY <1>3 DEF vars, redis, StoredStatus
<1>4. CASE Environment
  BY <1>1, <1>4, EnvironmentWrites
<1>5. ASSUME NEW h \in WebhookHandlers, pc[h] = "upsert",
             Applies(req[h].incident, FromEvent(req[h].what))
      PROVE  \E j \in Incidents, trigger \in Triggers \ {"Reopened"} : Applies(j, trigger)
  <2>1. h \in Handlers /\ req[h].incident \in Incidents
    BY <1>5, WebhookIncident DEF Handlers
  <2>2. req[h].what \in Happened(timeline[req[h].incident]) /\ FromEvent(req[h].what) # None
    BY <1>5, <2>1 DEF BackedInv, Backed, WebhookBacked
  <2>3. FromEvent(req[h].what) \in Triggers \ {"Reopened"}
    BY <2>1, <2>2 DEF NoReopening, FromEvent, TriggerOf, Triggers
  <2> QED
    BY <1>5, <2>1, <2>3
<1>6. ASSUME NEW h \in CallbackHandlers, pc[h] = "setStatus",
             Applies(req[h].incident, ActionTrigger(req[h].what))
      PROVE  \E j \in Incidents, trigger \in Triggers \ {"Reopened"} : Applies(j, trigger)
  <2>1. req[h].incident \in Incidents /\ req[h].what \in {"Acknowledge", "Resolve"}
    BY <1>6 DEF TypeOK, CallbackTaskOK, Presses
  <2>2. ActionTrigger(req[h].what) \in Triggers \ {"Reopened"}
    BY <2>1 DEF ActionTrigger, ActionEvent, FromEvent, TriggerOf, Triggers
  <2> QED
    BY <1>6, <2>1, <2>2
<1> QED
  BY <1>1, <1>2, <1>3, <1>4, <1>5, <1>6, WebhookWrites, CallbackWrites DEF Next

\* A delivery that is applied changes the status as its event says.
LEMMA AppliedStatus ==
  ASSUME TypeOK, TrackInv, NEW h \in WebhookHandlers, pc[h] = "upsert", UpsertRecord(h),
         applied' # applied, NEW i \in Incidents, req[h].incident = i
  PROVE  StoredStatus(i)' = NextStatus(Held(i), FromEvent(req[h].what))
<1>2. h \in Handlers /\ rec[h] \in Record
  BY DEF Handlers, TypeOK, WebhookTaskOK
<1>3. rec[h].id = i /\ rec[h].status = NextStatus(Held(i), FromEvent(req[h].what))
  BY <1>2 DEF TrackInv, Tracks, InCritical, WebhookTracks, Placed
<1>4. incidents' = [incidents EXCEPT ![i] = rec[h]]
  BY <1>3 DEF UpsertRecord, Upsert
<1>5. Status' = [Status EXCEPT ![i] = rec[h].status]
  BY <1>2, <1>4, StatusWritten
<1> QED
  BY <1>3, <1>5 DEF Status

\* What a step may make of the history of applied events.
LEMMA TakenSteps ==
  ASSUME TypeOK, KnownInv, Later, [Next]_vars, NEW i \in Incidents, NEW event,
         TakenIn(i, event)', ~TakenIn(i, event)
  PROVE  \E h \in WebhookHandlers : /\ pc[h] = "upsert" /\ UpsertRecord(h) /\ applied' # applied
                                    /\ req[h].incident = i /\ req[h].what = event
<1>1. PICK n \in applied'[i] : timeline'[i][n] = event
  BY DEF TakenIn
<1>2. n \notin applied[i]
  BY <1>1 DEF TakenIn, KnownInv, Later, LinesGrow
<1>3. PICK h \in WebhookHandlers : /\ pc[h] = "upsert" /\ UpsertRecord(h)
                                   /\ applied' = [applied EXCEPT ![req[h].incident] =
                                                    @ \cup {req[h].no}]
  BY <1>1, <1>2, EachStepApplies
<1>4. req[h].incident = i /\ req[h].no = n
  BY <1>1, <1>2, <1>3, WebhookIncident DEF TypeOK
<1>5. timeline' = timeline /\ applied' # applied
  BY <1>1, <1>2, <1>3 DEF UpsertRecord, upstream
<1> QED
  BY <1>1, <1>3, <1>4, <1>5 DEF KnownInv, RequestKnown

LEMMA AbsorbNext ==
  ASSUME TypeOK, TypeOK', KnownInv, TrackInv, BackedInv, AbsorbInv, Steady', [Next]_vars
  PROVE  AbsorbInv'
<1>1. Later
  BY EachStepLater
<1>2. NoReopening'
  BY <1>1, NoReopeningNext DEF AbsorbInv, Steady
<1>3. ASSUME NEW i \in Incidents, NEW event \in Events, TakenIn(i, event)'
      PROVE  Absorbed(i, event)'
  <2>1. /\ Held(i) \in Statuses /\ None \notin Statuses
        /\ \A r \in {incidents[i], incidents'[i]} : r # None => r.status \in Statuses
    BY OptionAssumption DEF Held, TypeOK, Keys, Record, Statuses
  <2>2. /\ StoredStatus(i) # None => incidents[i] # None /\ Held(i) = StoredStatus(i)
        /\ incidents[i] # None => StoredStatus(i) = Held(i)
        /\ StoredStatus(i)' # None => incidents'[i] # None /\ Held(i)' = StoredStatus(i)'
    BY <2>1 DEF Held, StoredStatus
  <2>3. FromEvent(event) # "Reopened"
    <3>1. TakenIn(i, event)' => event \in Happened(timeline'[i])
      <4>1. KnownInv'
        BY KnownNext
      <4> QED
        BY <4>1 DEF TakenIn, KnownInv, Happened
    <3>2. event # "incident_reopened"
      BY <1>2, <1>3, <3>1 DEF NoReopening
    <3> QED
      BY <3>2, OptionAssumption DEF FromEvent, TriggerOf, Events, Triggers
  <2>4. CASE TakenIn(i, event)
    <3>1. StoredStatus(i) = Held(i) /\ NextStatus(Held(i), FromEvent(event)) = Held(i)
      BY <2>2, <2>4 DEF AbsorbInv, Absorbed
    <3>2. \/ StoredStatus(i)' = StoredStatus(i)
          \/ \E trigger \in Triggers \ {"Reopened"} :
                StoredStatus(i)' = NextStatus(Held(i), trigger)
      BY StatusSteps DEF AbsorbInv, Steady
    <3>3. /\ StoredStatus(i)' \in Statuses
          /\ NextStatus(StoredStatus(i)', FromEvent(event)) = StoredStatus(i)'
      BY <2>1, <2>3, <3>1, <3>2, NextAbsorbs, NextStatusType
    <3> QED
      BY <2>1, <2>2, <3>3 DEF Absorbed
  <2>5. CASE ~TakenIn(i, event)
    <3>1. StoredStatus(i)' = NextStatus(Held(i), FromEvent(event))
      BY <1>1, <1>3, <2>5, TakenSteps, AppliedStatus
    <3>2. /\ StoredStatus(i)' \in Statuses
          /\ NextStatus(StoredStatus(i)', FromEvent(event)) = StoredStatus(i)'
      BY <2>1, <2>3, <3>1, NextAbsorbs, NextStatusType
    <3> QED
      BY <2>1, <2>2, <3>2 DEF Absorbed
  <2> QED
    BY <2>4, <2>5
<1> QED
  BY <1>2, <1>3 DEF AbsorbInv

LEMMA SteadyAbsorbs == Spec /\ []Steady => []AbsorbInv
<1>1. Init => AbsorbInv
  BY DEF Init, WorldInit, AbsorbInv, NoReopening, Happened, TakenIn
<1>2. Steady => Calm
  BY DEF Steady
<1> QED
  BY <1>1, <1>2, AbsorbNext, CalmTracks, AlwaysBacked, AlwaysKnown, TypeCorrect, PTL DEF Spec

(***************************************************************************)
(* Then the dedup keys alone keep a delivery from being applied twice: the *)
(* key of an applied event stays, also when the answer was lost and the    *)
(* delivery is sent again.                                                 *)
(***************************************************************************)
Lasting == /\ Steady
           /\ spent["storeReply"] = 0 /\ spent["dedupTtl"] = 0

KeyTask(h) ==
  /\ pc[h] \in Marking => /\ ~TakenIn(req[h].incident, req[h].what)
                          /\ <<req[h].incident, req[h].what>> \in dedup
  /\ pc[h] \in {"clearResolved", "clearAcknowledged"} => rec[h].status = "started"

KeyInv == /\ \A i \in Incidents, event \in Events : TakenIn(i, event) => <<i, event>> \in dedup
          /\ \A h \in WebhookHandlers : KeyTask(h)

\* What a step has to show: what it changes concerns the incident the moving task works on.
Owns(h, i) == h \in WebhookHandlers /\ Working(h, i)

LEMMA KeyStep ==
  ASSUME TypeOK, KnownInv, Later, Exclusive, KeyInv, NEW h,
         \A g \in WebhookHandlers \ {h} : Rests(g),
         h \in WebhookHandlers => KeyTask(h)',
         \A i \in Incidents, event \in Events :
           /\ <<i, event>> \in dedup /\ <<i, event>> \notin dedup'
              => Owns(h, i) /\ ~TakenIn(i, event)'
           /\ TakenIn(i, event)' /\ ~TakenIn(i, event)
              => Owns(h, i) /\ <<i, event>> \in dedup'
  PROVE  KeyInv'
<1>1. ASSUME NEW i \in Incidents, NEW event \in Events, TakenIn(i, event)'
      PROVE  <<i, event>> \in dedup'
  BY <1>1 DEF KeyInv
<1>2. ASSUME NEW g \in WebhookHandlers, g # h PROVE KeyTask(g)'
  <2>1. Rests(g) /\ KeyTask(g)
    BY <1>2 DEF KeyInv
  <2>2. CASE pc[g] \in Marking
    <3>1. PICK i \in Incidents, event \in Events : i = req[g].incident /\ event = req[g].what
      BY <2>2, WebhookIncident DEF Marking
    <3>2. g \in Handlers /\ Working(g, i)
      BY <2>2, <3>1 DEF Handlers, Working, InCritical, Marking
    <3>3. ~Owns(h, i)
      BY <1>2, <3>2 DEF Exclusive, Owns, Handlers
    <3>4. ~TakenIn(i, event) /\ <<i, event>> \in dedup
      BY <2>1, <2>2, <3>1 DEF KeyTask
    <3>5. ~TakenIn(i, event)' /\ <<i, event>> \in dedup'
      BY <3>3, <3>4
    <3> QED
      BY <2>1, <2>2, <3>1, <3>5 DEF KeyTask, Rests, TakenIn, Marking
  <2> QED
    BY <2>1, <2>2 DEF KeyTask, Rests
<1> QED
  BY <1>1, <1>2 DEF KeyInv

LEMMA EnvironmentKeys ==
  ASSUME TypeOK, KnownInv, Later, Exclusive, KeyInv, Lasting', Environment
  PROVE  KeyInv'
<1>1. UNCHANGED dedup
  <2>1. Spend("dedupTtl") => spent["dedupTtl"] \in Nat /\ spent'["dedupTtl"] = spent["dedupTtl"] + 1
    BY SpendsOne DEF Kinds, Faults
  <2>2. ~Spend("dedupTtl")
    BY <2>1 DEF Lasting
  <2> QED
    BY <2>2 DEF Environment, Happen, Deliver, GiveUp, Click, DeleteMessage,
       OrphanedLockExpires, LeaseLost, RecordExpires, DedupExpires, Crash, redis
<1>2. ASSUME NEW i \in Incidents, NEW event \in Events, TakenIn(i, event)' PROVE TakenIn(i, event)
  <2>1. UNCHANGED applied
    BY DEF Environment, Happen, Deliver, GiveUp, Click, DeleteMessage,
       OrphanedLockExpires, LeaseLost, RecordExpires, DedupExpires, Crash
  <2> QED
    BY <1>2, <2>1 DEF TakenIn, KnownInv, Later, LinesGrow
<1>3. \A g \in WebhookHandlers :
        \/ Rests(g)
        \/ pc'[g] \in {"idle", "lock"}
        \/ pc'[g] = pc[g] /\ rec'[g] = rec[g] /\ pc[g] # "idle" /\ SameRequest(g)
  <2>1. CASE UNCHANGED tasks
    BY <2>1 DEF tasks, Rests
  <2>2. CASE \E h \in WebhookHandlers, i \in Incidents : \E n \in pending[i] : Deliver(h, i, n)
    BY <2>2 DEF Deliver, Goto, Rests, TypeOK, Handlers
  <2>3. CASE \E h \in WebhookHandlers : GiveUp(h)
    <3> PICK h \in WebhookHandlers : GiveUp(h)
      BY <2>3
    <3>1. h \in Handlers /\ req[h] \in Webhooks /\ pc[h] # "idle"
      BY DEF Handlers, GiveUp, TypeOK, WebhookTaskOK
    <3> QED
      BY <3>1 DEF GiveUp, SameRequest, Rests, TypeOK, Webhooks, Handlers
  <2>4. CASE \E h \in Handlers : Crash(h)
    BY <2>4 DEF Crash, Reset, Rests, TypeOK, Handlers
  <2> QED
    BY <2>1, <2>2, <2>3, <2>4 DEF Environment, Happen, Click, DeleteMessage,
       OrphanedLockExpires, LeaseLost, RecordExpires, DedupExpires
<1>4. ASSUME NEW g \in WebhookHandlers PROVE KeyTask(g)'
  <2>1. CASE pc[g] \in Marking /\ pc'[g] = pc[g]
    <3>1. PICK i \in Incidents, event \in Events : i = req[g].incident /\ event = req[g].what
      BY <2>1, WebhookIncident DEF Marking
    <3>2. ~TakenIn(i, event)' /\ <<i, event>> \in dedup'
      BY <1>1, <1>2, <2>1, <3>1 DEF KeyInv, KeyTask
    <3>3. req'[g].incident = i /\ req'[g].what = event
      BY <1>3, <2>1, <3>1 DEF Rests, SameRequest, Marking
    <3> QED
      BY <2>1, <3>2, <3>3 DEF KeyTask, TakenIn, Marking
  <2> QED
    BY <1>3, <2>1 DEF KeyInv, KeyTask, Rests, Marking
<1> QED
  BY <1>1, <1>2, <1>4 DEF KeyInv

LEMMA WebhookKeys ==
  ASSUME TypeOK, KnownInv, TrackInv, AbsorbInv, Exclusive, Later, KeyInv, Lasting',
         NEW h \in WebhookHandlers, WebhookStep(h), [Next]_vars
  PROVE  KeyInv'
<1>0. /\ h \in Handlers /\ KeyTask(h) /\ pc[h] # "idle"
      /\ \A g \in WebhookHandlers \ {h} : Rests(g)
  BY DEF Handlers, KeyInv, WebhookStep, SkipUnknownEvent, LockIncident, MarkEvent, LoadRecord,
     UpsertRecord, ClearStaleEvents, ClearStale, SendIncident, SetMessage, EditIncident,
     UnmarkFailed, ReleaseAndRespond, Respond, Reset, Finish, Goto, Rests, TypeOK
<1>1. ~Spend("storeReply")
  <2>1. Spend("storeReply") => /\ spent["storeReply"] \in Nat
                               /\ spent'["storeReply"] = spent["storeReply"] + 1
    BY SpendsOne DEF Kinds, Faults
  <2> QED
    BY <2>1 DEF Lasting
<1>2. PICK i \in Incidents : i = req[h].incident
  BY <1>0, WebhookIncident
<1>3. PICK event \in Events : event = req[h].what
  BY <1>0, WebhookIncident
<1>4. UNCHANGED applied => \A k \in Incidents, e \in Events : TakenIn(k, e)' => TakenIn(k, e)
  BY DEF TakenIn, KnownInv, Later, LinesGrow
<1>5. CASE SkipUnknownEvent(h) \/ LockIncident(h) \/ SendIncident(h) \/ SetMessage(h)
           \/ EditIncident(h) \/ ReleaseAndRespond(h)
  <2>1. UNCHANGED <<applied, dedup>> /\ pc'[h] \notin Marking \cup {"clearResolved", "clearAcknowledged"}
    BY <1>0, <1>5 DEF SkipUnknownEvent, LockIncident, SendIncident, SetMessage, EditIncident,
       ReleaseAndRespond, Respond, Reset, Finish, Goto, redis, Marking, TypeOK
  <2> QED
    BY <1>0, <1>4, <2>1, KeyStep DEF KeyTask
<1> SUFFICES ASSUME \/ MarkEvent(h) \/ LoadRecord(h) \/ UpsertRecord(h)
                    \/ ClearStaleEvents(h) \/ UnmarkFailed(h)
             PROVE  KeyInv'
  BY <1>5 DEF WebhookStep
<1>6. Owns(h, i) /\ req' = req
  BY <1>0, <1>2 DEF MarkEvent, LoadRecord, UpsertRecord, ClearStaleEvents, ClearStale,
     UnmarkFailed, Owns, Working, InCritical
<1>7. KeyTask(h)' <=>
        /\ pc'[h] \in Marking => ~TakenIn(i, event)' /\ <<i, event>> \in dedup'
        /\ pc'[h] \in {"clearResolved", "clearAcknowledged"} => rec'[h].status = "started"
  BY <1>2, <1>3, <1>6 DEF KeyTask, TakenIn, Marking
<1>8. CASE MarkEvent(h)
  <2>1. UNCHANGED applied /\ \/ /\ <<i, event>> \notin dedup
                                /\ dedup' = dedup \cup {<<i, event>>} /\ pc'[h] = "get"
                             \/ dedup' = dedup /\ pc'[h] = "release"
    BY <1>0, <1>1, <1>2, <1>3, <1>8 DEF MarkEvent, IsNew, MarkEventOnce, WriteFails, Finish,
       Goto, TypeOK
  <2>2. <<i, event>> \notin dedup => ~TakenIn(i, event)
    BY DEF KeyInv
  <2> QED
    BY <1>0, <1>4, <1>7, <2>1, <2>2, KeyStep DEF Marking
<1>9. CASE LoadRecord(h)
  <2>1. UNCHANGED <<applied, dedup>> /\ pc[h] \in Marking /\ pc'[h] \in Marking
    BY <1>0, <1>9 DEF LoadRecord, Finish, Goto, redis, Marking, TypeOK
  <2>2. ~TakenIn(i, event) /\ <<i, event>> \in dedup
    BY <1>0, <1>2, <1>3, <2>1 DEF KeyTask
  <2> QED
    BY <1>0, <1>4, <1>7, <2>1, <2>2, KeyStep DEF Marking
<1>10. CASE UpsertRecord(h)
  <2>1. /\ dedup' = dedup /\ pc[h] \in Marking
        /\ ~TakenIn(i, event) /\ <<i, event>> \in dedup
    BY <1>0, <1>2, <1>3, <1>10 DEF UpsertRecord, KeyTask, Marking
  <2>2. ASSUME NEW k \in Incidents, NEW e \in Events, TakenIn(k, e)', ~TakenIn(k, e)
        PROVE  k = i /\ e = event
    <3>1. PICK g \in WebhookHandlers : /\ pc[g] = "upsert" /\ UpsertRecord(g) /\ applied' # applied
                                       /\ req[g].incident = k /\ req[g].what = e
      BY <2>2, TakenSteps
    <3>2. pc[h] = "upsert" /\ pc'[h] # "upsert" /\ pc'[g] # "upsert"
      BY <1>0, <1>10, <3>1 DEF UpsertRecord, Finish, Goto, TypeOK, Handlers
    <3>3. g = h
      BY <1>0, <3>1, <3>2 DEF Rests
    <3> QED
      BY <1>2, <1>3, <3>1, <3>3
  <2>3. \/ pc'[h] = "unmark" /\ UNCHANGED applied
        \/ pc'[h] = "notify"
        \/ pc'[h] = "clearResolved" /\ rec'[h] = rec[h] /\ rec[h].status = "started"
    BY <1>0, <1>1, <1>10 DEF UpsertRecord, Finish, Goto, TypeOK
  <2>4. KeyTask(h)'
    BY <1>4, <1>7, <2>1, <2>3 DEF Marking
  <2> QED
    BY <1>0, <1>6, <2>1, <2>2, <2>4, KeyStep
<1>11. CASE ClearStaleEvents(h)
  <2>1. /\ UNCHANGED applied /\ pc[h] \in {"clearResolved", "clearAcknowledged"}
        /\ pc'[h] \in {"clearAcknowledged", "notify"} /\ rec'[h] = rec[h]
        /\ dedup' = dedup \/ \E e \in {"incident_resolved", "incident_acknowledged"} :
                                dedup' = dedup \ {<<i, e>>}
    BY <1>0, <1>2, <1>11 DEF ClearStaleEvents, ClearStale, UnmarkEvent, WriteFails, Goto, TypeOK
  <2>2. incidents[i] # None /\ Held(i) = "started" /\ rec[h].status = "started"
    BY <1>0, <1>2, <2>1 DEF KeyTask, TrackInv, Tracks, InCritical, WebhookTracks, Held
  <2>3. \A e \in {"incident_resolved", "incident_acknowledged"} : e \in Events /\ ~TakenIn(i, e)
    <3>1. \A e \in {"incident_resolved", "incident_acknowledged"} :
            e \in Events /\ NextStatus("started", FromEvent(e)) # "started"
      BY DEF Events, FromEvent, TriggerOf, NextStatus
    <3> QED
      BY <2>2, <3>1 DEF AbsorbInv, Absorbed
  <2>4. KeyTask(h)'
    BY <1>7, <2>1, <2>2 DEF Marking
  <2> QED
    BY <1>0, <1>4, <1>6, <2>1, <2>3, <2>4, KeyStep
<1>12. CASE UnmarkFailed(h)
  <2>1. /\ UNCHANGED applied /\ pc[h] \in Marking /\ pc'[h] = "release"
        /\ dedup' = dedup \/ dedup' = dedup \ {<<i, event>>}
    BY <1>0, <1>2, <1>3, <1>12 DEF UnmarkFailed, UnmarkEvent, WriteFails, Goto, Marking, TypeOK
  <2>2. ~TakenIn(i, event)
    BY <1>0, <1>2, <1>3, <2>1 DEF KeyTask
  <2> QED
    BY <1>0, <1>4, <1>6, <1>7, <2>1, <2>2, KeyStep DEF Marking
<1> QED
  BY <1>8, <1>9, <1>10, <1>11, <1>12

LEMMA KeyNext ==
  ASSUME TypeOK, KnownInv, TrackInv, LockHeld, AbsorbInv, KeyInv, Lasting, Lasting', [Next]_vars
  PROVE  KeyInv'
<1>1. Exclusive /\ Later
  BY EachStepLater DEF Lasting, Steady, Calm, LockHeld, Exclusive
<1>2. ASSUME UNCHANGED <<dedup, applied>>, \A g \in WebhookHandlers : Rests(g)
      PROVE  KeyInv'
  <2>1. PICK h : h \notin WebhookHandlers
    BY HandlersAssumption DEF Handlers
  <2>2. \A k \in Incidents, e \in Events : TakenIn(k, e)' => TakenIn(k, e)
    BY <1>1, <1>2 DEF TakenIn, KnownInv, Later, LinesGrow
  <2> QED
    BY <1>1, <1>2, <2>1, <2>2, KeyStep
<1>3. CASE UNCHANGED vars
  BY <1>2, <1>3 DEF vars, redis, tasks, Rests
<1>4. ASSUME NEW h \in CallbackHandlers, CallbackStep(h) PROVE KeyInv'
  <2>1. h \in Handlers /\ h \notin WebhookHandlers
    BY HandlersAssumption DEF Handlers
  <2> QED
    BY <1>2, <1>4, <2>1 DEF CallbackStep, TakeClick, LockForCallback, CallBetterStack, RetryCall,
       LoadCurrent, StoreStatus, Reload, EditAfterClick, ReleaseAndAnswer, Answer, Reset,
       Conclude, Goto, tasks, redis, Rests, TypeOK, Handlers
<1> QED
  BY <1>1, <1>3, <1>4, EnvironmentKeys, WebhookKeys DEF Next

LEMMA LastingKeys == Spec /\ []Lasting => []KeyInv
<1>1. Init => KeyInv /\ LockHeld
  BY DEF Init, WorldInit, KeyInv, KeyTask, TakenIn, Marking, Handlers, LockHeld, Working, InCritical
<1>2. (Lasting => Steady) /\ (Steady => Calm)
  BY DEF Lasting, Steady
<1> QED
  BY <1>1, <1>2, KeyNext, LockHeldStep, SteadyAbsorbs, CalmTracks, AlwaysKnown, TypeCorrect, PTL
     DEF Spec

(***************************************************************************)
(* "duplicate deliveries are no-ops" (mark_event_once), also when an       *)
(* answer is lost on the way or a replica dies after the upsert and Better *)
(* Stack sends the webhook again: an event that was applied has its key,   *)
(* and clearing the stale keys of an open incident takes away none of an   *)
(* applied event, as long as no incident is reopened.                      *)
(***************************************************************************)
THEOREM DuplicatesAreNoOps == Spec /\ []Lasting => AppliedOnce
<1> DEFINE Once == \A h \in WebhookHandlers :
                     pc[h] = "upsert" /\ pc'[h] \in {"clearResolved", "notify"}
                     => req[h].no \notin applied[req[h].incident]
<1>1. KnownInv /\ KeyInv => Once
  <2> SUFFICES ASSUME KnownInv, KeyInv, NEW h \in WebhookHandlers, pc[h] = "upsert"
               PROVE  req[h].no \notin applied[req[h].incident]
    OBVIOUS
  <2>1. ~TakenIn(req[h].incident, req[h].what)
    BY DEF KeyInv, KeyTask, Marking
  <2>2. timeline[req[h].incident][req[h].no] = req[h].what
    BY DEF KnownInv, RequestKnown
  <2> QED
    BY <2>1, <2>2 DEF TakenIn
<1>2. Once => [Once]_vars
  OBVIOUS
<1> QED
  BY <1>1, <1>2, LastingKeys, AlwaysKnown, PTL DEF AppliedOnce
=============================================================================
