--------------------------- MODULE WebhookHandler ---------------------------
(***************************************************************************)
(* betterstack_webhook_handler (src/betterstack/webhook.rs), one action    *)
(* per await: between two of them any other task may run, on this replica  *)
(* or on another.  A request with a wrong secret or a malformed body is    *)
(* answered at once and touches nothing, so it has no action.              *)
(*                                                                         *)
(* A payload also says whether the incident was acknowledged and resolved; *)
(* that is display data whose value Better Stack chooses freely.           *)
(***************************************************************************)
EXTENDS World

\* The answer reaches Better Stack if it still waits; 200 ends the delivery.
Respond(h, code) ==
    /\ Reset(h)
    /\ pending' = IF code = "200" /\ req[h].awaited
                  THEN [pending EXCEPT ![req[h].incident] = @ \ {req[h].no}]
                  ELSE pending

\* An event with no trigger is acknowledged and skipped.
SkipUnknownEvent(h) ==
    /\ pc[h] = "lock" /\ FromEvent(req[h].what) = None
    /\ Respond(h, "200")
    /\ UNCHANGED <<timeline, chat, redis, applied, spent>>

-----------------------------------------------------------------------------
LockIncident(h) ==
    LET i == req[h].incident IN
    /\ pc[h] = "lock" /\ FromEvent(req[h].what) # None
    /\ \/ /\ LockFree(locks, i)
          /\ locks' = TryLock(locks, i, h)
          /\ Goto(h, "mark")
          /\ UNCHANGED <<pending, req, rec, out, spent>>
       \/ /\ ~LockFree(locks, i)
          /\ Respond(h, "503")
          /\ UNCHANGED <<locks, spent>>
       \/ /\ WriteFails(locks', locks, TryLock(locks, i, h))
          /\ Respond(h, "500")
    /\ UNCHANGED <<timeline, chat, incidents, dedup, applied>>

\* Return `result` towards the answer; the local record goes out of scope.
Finish(h, step, result) == /\ Goto(h, step)
                           /\ out' = [out EXCEPT ![h] = result]
                           /\ rec' = [rec EXCEPT ![h] = None]

(***************************************************************************)
(* process_locked_webhook: an error of mark_event_once returns without     *)
(* unmarking the event, whether or not the key was written.                *)
(***************************************************************************)
MarkEvent(h) ==
    LET i == req[h].incident  event == req[h].what IN
    /\ pc[h] = "mark"
    /\ \/ /\ IsNew(dedup, i, event)
          /\ dedup' = MarkEventOnce(dedup, i, event)
          /\ Goto(h, "get")
          /\ UNCHANGED <<rec, out, spent>>
       \/ /\ ~IsNew(dedup, i, event)
          /\ Finish(h, "release", "200")
          /\ UNCHANGED <<dedup, spent>>
       \/ /\ WriteFails(dedup', dedup, MarkEventOnce(dedup, i, event))
          /\ Finish(h, "release", "500")
    /\ UNCHANGED <<upstream, chat, incidents, locks, req, applied>>

-----------------------------------------------------------------------------
(***************************************************************************)
(* process_marked_webhook.                                                 *)
(***************************************************************************)
\* The stored record, or a new one, updated from the payload and the trigger.
Updated(stored, i, event, meta) ==
    LET base   == IF stored = None THEN [DefaultRecord EXCEPT !.id = i] ELSE stored
        status == NextStatus(base.status, FromEvent(event))
        open   == status = "started"
    IN  [base EXCEPT
            !.status          = status,
            !.acknowledged_at = ~open /\ (@ \/ "acknowledged_at" \in meta),
            !.resolved_at     = ~open /\ (@ \/ "resolved_at" \in meta)]

LoadRecord(h) ==
    LET i == req[h].incident IN
    /\ pc[h] = "get"
    /\ \/ /\ \E meta \in SUBSET Metadata :
                rec' = [rec EXCEPT ![h] =
                           Updated(Get(incidents, i), i, req[h].what, meta)]
          /\ Goto(h, "upsert")
          /\ UNCHANGED <<out, spent>>
       \/ /\ Spend("store")
          /\ Finish(h, "unmark", "500")
    /\ UNCHANGED <<upstream, chat, redis, req, applied>>

\* The history variable: the delivery took effect on the incident it is about.
NoteApplied(h) ==
    applied' = IF rec[h].id = req[h].incident
               THEN [applied EXCEPT ![req[h].incident] = @ \cup {req[h].no}]
               ELSE applied

UpsertRecord(h) ==
    LET Write == incidents' = Upsert(incidents, rec[h]) /\ NoteApplied(h) IN
    /\ pc[h] = "upsert"
    /\ \/ /\ Write
          /\ Goto(h, IF rec[h].status = "started" THEN "clearResolved" ELSE "notify")
          /\ UNCHANGED <<rec, out, spent>>
       \/ /\ \/ Spend("store") /\ UNCHANGED <<incidents, applied>>
             \/ Spend("storeReply") /\ Write
          /\ Finish(h, "unmark", "500")
    /\ UNCHANGED <<upstream, chat, dedup, locks, req>>

\* An open incident forgets that it has seen terminal events; errors are ignored.
ClearStale(h, here, event, next) ==
    LET cleared == UnmarkEvent(dedup, req[h].incident, event) IN
    /\ pc[h] = here
    /\ Goto(h, next)
    /\ \/ dedup' = cleared /\ UNCHANGED spent
       \/ WriteFails(dedup', dedup, cleared)
    /\ UNCHANGED <<upstream, chat, incidents, locks, req, rec, out, applied>>

ClearStaleEvents(h) ==
    \/ ClearStale(h, "clearResolved", "incident_resolved", "clearAcknowledged")
    \/ ClearStale(h, "clearAcknowledged", "incident_acknowledged", "notify")

\* No message yet: send one.  A failure is logged and the answer is still 200.
SendIncident(h) ==
    /\ pc[h] = "notify" /\ rec[h].message_id = None
    /\ \/ /\ messages' = SendMessage(rec[h])
          /\ rec' = [rec EXCEPT ![h].chat_id = ChatId,
                                ![h].message_id = Len(messages) + 1]
          /\ Goto(h, "setMessageId")
          /\ UNCHANGED <<out, spent>>
       \/ /\ Spend("telegram")
          /\ messages' \in {messages, SendMessage(rec[h])}
          /\ Finish(h, "release", "200")
    /\ UNCHANGED <<upstream, inbox, redis, req, applied>>

SetMessage(h) ==
    LET written == SetMessageId(incidents, req[h].incident,
                                rec[h].chat_id, rec[h].message_id) IN
    /\ pc[h] = "setMessageId"
    /\ Finish(h, "release", "200")
    /\ \/ incidents' = written /\ UNCHANGED spent
       \/ WriteFails(incidents', incidents, written)
    /\ UNCHANGED <<upstream, chat, dedup, locks, req, applied>>

\* There is a message: edit it.  The two coordinates are always set together.
EditIncident(h) ==
    LET shown == EditMessage(rec[h].message_id, rec[h]) IN
    /\ pc[h] = "notify" /\ rec[h].message_id # None
    /\ Finish(h, "release", "200")
    /\ \/ messages' = shown /\ UNCHANGED spent
       \/ Spend("telegram") /\ messages' \in {messages, shown}
    /\ UNCHANGED <<upstream, inbox, redis, req, applied>>

-----------------------------------------------------------------------------
\* Back in process_locked_webhook, after an error of process_marked_webhook.
UnmarkFailed(h) ==
    LET unmarked == UnmarkEvent(dedup, req[h].incident, req[h].what) IN
    /\ pc[h] = "unmark"
    /\ Goto(h, "release")
    /\ \/ dedup' = unmarked /\ UNCHANGED spent
       \/ WriteFails(dedup', dedup, unmarked)
    /\ UNCHANGED <<upstream, chat, incidents, locks, req, rec, out, applied>>

\* Release the lock, whatever comes of it, and answer.
ReleaseAndRespond(h) ==
    LET released == ReleaseLock(locks, req[h].incident, h) IN
    /\ pc[h] = "release"
    /\ Respond(h, out[h])
    /\ \/ locks' = released /\ UNCHANGED spent
       \/ WriteFails(locks', locks, released)
    /\ UNCHANGED <<timeline, chat, incidents, dedup, applied>>

WebhookStep(h) ==
    \/ SkipUnknownEvent(h)
    \/ LockIncident(h)
    \/ MarkEvent(h)
    \/ LoadRecord(h)
    \/ UpsertRecord(h)
    \/ ClearStaleEvents(h)
    \/ SendIncident(h)
    \/ SetMessage(h)
    \/ EditIncident(h)
    \/ UnmarkFailed(h)
    \/ ReleaseAndRespond(h)
=============================================================================
