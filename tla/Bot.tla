-------------------------------- MODULE Bot ---------------------------------
(***************************************************************************)
(* The bot: webhook and callback tasks over one Redis, one Telegram chat   *)
(* and one Better Stack account, and what must be true of it.              *)
(***************************************************************************)
EXTENDS WebhookHandler, CallbackHandler

Init == WorldInit

Next == \/ Environment
        \/ \E h \in WebhookHandlers  : WebhookStep(h)
        \/ \E h \in CallbackHandlers : CallbackStep(h)

Spec == Init /\ [][Next]_vars

(***************************************************************************)
(* Fairness.  A task that is running is polled again (tokio) and every     *)
(* await of it ends (Redis, HTTP and Telegram clients return or time out). *)
(* Better Stack keeps retrying a delivery, and a lock whose holder is gone *)
(* runs out (EX).  Nothing else has to happen: no button has to be pressed *)
(* and no incident has to change.                                          *)
(***************************************************************************)
Fairness ==
    /\ \A h \in WebhookHandlers  : WF_vars(WebhookStep(h))
    /\ \A h \in CallbackHandlers : WF_vars(CallbackStep(h))
    /\ \A i \in Incidents : WF_vars(OrphanedLockExpires(i))
    /\ \A i \in Incidents :
          WF_vars(\E h \in WebhookHandlers : \E n \in pending[i] : Deliver(h, i, n))

FairSpec == Spec /\ Fairness

-----------------------------------------------------------------------------
(***************************************************************************)
(* Types.                                                                  *)
(***************************************************************************)
WebhookSteps  == {"idle", "lock", "mark", "get", "upsert", "clearResolved",
                  "clearAcknowledged", "notify", "setMessageId", "unmark", "release"}
CallbackSteps == {"idle", "lock", "api", "get", "setStatus", "reget", "edit", "release"}

Views    == [id : Keys, status : Statuses, acknowledged_at : BOOLEAN,
             resolved_at : BOOLEAN, deleted : BOOLEAN]
Webhooks == [incident : Incidents, what : Events, no : Nat, awaited : BOOLEAN]
Presses  == [incident : Keys, what : {"Acknowledge", "Resolve"},
             no : {0}, awaited : {FALSE}]

\* What the locals of a webhook task hold at each of its steps.
WebhookTaskOK(h) ==
    /\ pc[h] \in WebhookSteps
    /\ pc[h] # "idle" => req[h] \in Webhooks
    /\ pc[h] \in {"upsert", "clearResolved", "clearAcknowledged", "notify",
                 "setMessageId"} => rec[h] \in Record
    /\ pc[h] \in {"unmark", "release"} => out[h] \in {"200", "500"}

\* The same for a callback task: only a decoded incident id gets past "idle".
CallbackTaskOK(h) ==
    /\ pc[h] \in CallbackSteps
    /\ pc[h] # "idle" => req[h] \in Presses /\ req[h].incident \in Incidents
    /\ pc[h] \in {"setStatus", "edit"} => rec[h] \in Record
    /\ pc[h] = "release" => out[h] \in {"Success", "Alert"}

\* The state has the types of the Rust code, at every step of every task.
TypeOK ==
    /\ timeline \in [Incidents -> Seq(Events)]
    /\ pending \in [Incidents -> SUBSET Nat]
    /\ \A i \in Incidents : pending[i] \subseteq DOMAIN timeline[i]
    /\ messages \in Seq(Views)
    /\ inbox \in [CallbackHandlers -> Seq(Presses)]
    /\ incidents \in [Keys -> Record \cup {None}]
    /\ dedup \subseteq Incidents \X Events
    /\ locks \in [Incidents -> Handlers \cup {None}]
    /\ pc \in [Handlers -> WebhookSteps \cup CallbackSteps]
    /\ req \in [Handlers -> Webhooks \cup Presses \cup {None}]
    /\ rec \in [Handlers -> Record \cup {None}]
    /\ out \in [Handlers -> {"200", "500", "Success", "Alert", None}]
    /\ applied \in [Incidents -> SUBSET Nat]
    /\ spent \in [Kinds -> Nat]
    /\ \A h \in WebhookHandlers  : WebhookTaskOK(h)
    /\ \A h \in CallbackHandlers : CallbackTaskOK(h)

-----------------------------------------------------------------------------
(***************************************************************************)
(* The lock.                                                               *)
(***************************************************************************)
Working(h, i) == InCritical(h) /\ req[h].incident = i

(***************************************************************************)
(* try_lock and release_lock serialise the tasks of one incident: as long  *)
(* as no lease has run out under its holder, no two tasks are between      *)
(* taking and releasing its lock, whatever crashed or failed before.       *)
(***************************************************************************)
LockSafety ==
    spent["lease"] = 0 =>
        \A i \in Incidents, g, h \in Handlers : Working(g, i) /\ Working(h, i) => g = h

\* Why: a working task holds the lock.
LockHeld ==
    spent["lease"] = 0 =>
        \A i \in Incidents, h \in Handlers : Working(h, i) => locks[i] = h

(***************************************************************************)
(* release_lock compares tokens: a task that lost its lease must not free  *)
(* the lock of the task that took over.  A task that goes on working keeps *)
(* its lock until it runs out, and that counts as a lost lease.            *)
(***************************************************************************)
OnlyHolderReleases ==
    [][\A i \in Incidents, h \in Handlers :
          locks[i] = h /\ Working(h, i) /\ Working(h, i)'
          => locks'[i] = h \/ spent'["lease"] > spent["lease"]]_vars

-----------------------------------------------------------------------------
(***************************************************************************)
(* The status.                                                             *)
(***************************************************************************)
\* Has Better Stack ever shown this status?  409 lets a resolved one count as acknowledged.
Attained(i, status) ==
    CASE status = "started"      -> timeline[i] # <<>>
      [] status = "acknowledged" -> EventsOf(i) \cap {"incident_acknowledged",
                                                      "incident_resolved"} # {}
      [] OTHER                   -> "incident_resolved" \in EventsOf(i)

(***************************************************************************)
(* The bot is never ahead of Better Stack: a status that is stored or      *)
(* shown was reached there first, through every crash, lost lease, failed  *)
(* call and late delivery (process_locked_callback stores a status only    *)
(* after the API has accepted the action).                                 *)
(***************************************************************************)
NeverAhead ==
    \A i \in Incidents :
        /\ incidents[i] # None => Attained(i, incidents[i].status)
        /\ \A m \in DOMAIN messages :
              messages[m].id = i => Attained(i, messages[m].status)

(***************************************************************************)
(* An open incident carries no trace of an earlier acknowledgement or      *)
(* resolution, neither in Redis nor in the chat: process_marked_webhook    *)
(* clears the fields and upsert deletes the hash before it writes it.      *)
(***************************************************************************)
StartedIsClean ==
    /\ \A k \in Keys : incidents[k] # None => Clean(incidents[k])
    /\ \A m \in DOMAIN messages : Clean(messages[m])

\* A stored status of an incident, or None.
StoredStatus(i) == IF incidents[i] = None THEN None ELSE incidents[i].status

(***************************************************************************)
(* "Only incident_reopened moves out of Resolved", for the stored status   *)
(* and not just for incident::next: reads and writes of two tasks must not *)
(* interleave.                                                             *)
(***************************************************************************)
OnlyReopenLeavesResolved ==
    [][\A i \in Incidents :
          StoredStatus(i) = "resolved" /\ StoredStatus(i)' # "resolved"
          => \E h \in WebhookHandlers : /\ pc[h] = "upsert" /\ Working(h, i)
                                        /\ req[h].what = "incident_reopened"]_vars

(***************************************************************************)
(* A chat member who is told "Done" pressed a button whose effect is in    *)
(* Redis for as long as the callback holds the lock.                       *)
(***************************************************************************)
SuccessIsStored ==
    \A h \in CallbackHandlers :
        pc[h] = "release" /\ out[h] = "Success" =>
            StoredStatus(req[h].incident) \in
                IF req[h].what = "Resolve" THEN {"resolved"}
                                           ELSE {"acknowledged", "resolved"}

\* The abstract specification: atomic status changes, fresh messages.
Sync == INSTANCE IncidentSync WITH
    status <- [i \in Incidents |-> StoredStatus(i)],
    shown  <- [m \in DOMAIN messages |->
                  [id |-> messages[m].id, status |-> messages[m].status]]

(***************************************************************************)
(* Under the lock the read-modify-write of a handler is one step: the bot  *)
(* implements IncidentSync.                                                *)
(***************************************************************************)
AtomicUpdates == Sync!Spec

-----------------------------------------------------------------------------
(***************************************************************************)
(* Deliveries.                                                             *)
(***************************************************************************)
(***************************************************************************)
(* A webhook answered with 200 has been written to the incident: this very *)
(* event, not an earlier one of the same name.  A dedup key must survive   *)
(* neither a delivery that failed nor the reopening of the incident.       *)
(***************************************************************************)
AckedImpliesApplied ==
    \A i \in Incidents : \A n \in DOMAIN timeline[i] \ pending[i] :
        FromEvent(timeline[i][n]) # None => n \in applied[i]

(***************************************************************************)
(* "duplicate deliveries are no-ops": a delivery that was applied is not   *)
(* applied again, however often Better Stack sends it.                     *)
(***************************************************************************)
AppliedOnce ==
    [][\A h \in WebhookHandlers :
          pc[h] = "upsert" /\ pc'[h] \in {"clearResolved", "notify"}
          => req[h].no \notin applied[req[h].incident]]_vars

MessagesOf(i) == {m \in DOMAIN messages : messages[m].id = i}

(***************************************************************************)
(* One message per incident.  Each further one has a cause: a crash, a     *)
(* failed Redis or Telegram call or an expired record, once for each.      *)
(* Duplicates, retries, reordering and concurrent requests cause none.     *)
(***************************************************************************)
ExtraMessagesPaid ==
    spent["lease"] = 0 =>
        \A i \in Incidents :
            Cardinality(MessagesOf(i)) <= 1 + spent["crash"] + spent["store"]
                + spent["storeReply"] + spent["telegram"] + spent["recordTtl"]

-----------------------------------------------------------------------------
(***************************************************************************)
(* Agreement with Better Stack once everything has been delivered.         *)
(***************************************************************************)
Settled(i) ==
    /\ timeline[i] # <<>> /\ pending[i] = {}
    /\ \A h \in Handlers : pc[h] # "idle" => req[h].incident # i
    /\ \A h \in CallbackHandlers : inbox[h] = <<>>

\* Redis agrees with Better Stack on every incident that has settled.
StoreInSync ==
    \A i \in Incidents : Settled(i) => StoredStatus(i) = StatusAfter(timeline[i])

(***************************************************************************)
(* "Status changes originating in Better Stack are reflected back into the *)
(* same Telegram message": a settled incident has been given one message,  *)
(* which shows the status Better Stack has unless somebody deleted it; in  *)
(* place of a deleted one no other is sent.                                *)
(***************************************************************************)
StatusReflected ==
    \A i \in Incidents : Settled(i) =>
        \E m \in DOMAIN messages :
            /\ MessagesOf(i) = {m}
            /\ messages[m].deleted \/ messages[m].status = StatusAfter(timeline[i])

(***************************************************************************)
(* So it is while no Telegram request and no Redis command fails: neither  *)
(* the order of the webhooks, nor duplicates, nor a callback editing the   *)
(* same message leave a settled incident without one, or with a second or  *)
(* a stale one.                                                            *)
(***************************************************************************)
MessagesInSync ==
    spent["telegram"] = 0 /\ spent["store"] = 0 => StatusReflected

\* Every stored record has a TTL (INCIDENT_TTL_SECS).
RecordsExpire == \A i \in Incidents : incidents[i] # None => HasTtl(incidents, i)

(***************************************************************************)
(* Every event is answered with 200 in the end: no lock, dedup key or      *)
(* competing task refuses a delivery for ever, even after a crash.         *)
(***************************************************************************)
EveryEventAcked ==
    \A i \in Incidents : (pending[i] # {}) ~> (pending[i] = {})

(***************************************************************************)
(* The bot converges: unless a crash has taken an event with it, from some *)
(* point on every incident is settled and its stored status is the one of  *)
(* Better Stack.                                                           *)
(***************************************************************************)
Converges ==
    \A i \in Incidents :
        <>[](timeline[i] # <<>> /\ spent["crash"] = 0 =>
             Settled(i) /\ StoredStatus(i) = StatusAfter(timeline[i]))
=============================================================================
