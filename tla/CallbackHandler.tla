-------------------------- MODULE CallbackHandler ---------------------------
(***************************************************************************)
(* callback_handler (src/telegram/handler.rs): a pressed button.  The      *)
(* dispatcher serves the presses of one chat in order and one at a time on *)
(* a replica, so a callback task is a replica's queue for the one chat.    *)
(* The text of the answer matters only as "Success" or "Alert".            *)
(***************************************************************************)
EXTENDS World

ActionEvent == [Acknowledge |-> "incident_acknowledged",
                Resolve     |-> "incident_resolved"]

ActionTrigger(action) == FromEvent(ActionEvent[action])

\* Whatever the answer says, Telegram does not deliver the press again.
Answer(h) == Reset(h)

\* The button of a message shown for a record without id does not decode.
TakeClick(h) ==
    LET click == Head(inbox[h]) IN
    /\ pc[h] = "idle" /\ inbox[h] # <<>>
    /\ inbox' = [inbox EXCEPT ![h] = Tail(@)]
    /\ \/ /\ click.incident = EmptyId
          /\ UNCHANGED <<pc, req>>
       \/ /\ click.incident # EmptyId
          /\ Goto(h, "lock")
          /\ req' = [req EXCEPT ![h] = click]
    /\ UNCHANGED <<upstream, messages, redis, rec, out, applied, spent>>

LockForCallback(h) ==
    LET i == req[h].incident IN
    /\ pc[h] = "lock"
    /\ \/ /\ LockFree(locks, i)
          /\ locks' = TryLock(locks, i, h)
          /\ Goto(h, "api")
          /\ UNCHANGED <<req, rec, out, spent>>
       \/ /\ ~LockFree(locks, i)
          /\ Answer(h)
          /\ UNCHANGED <<locks, spent>>
       \/ /\ WriteFails(locks', locks, TryLock(locks, i, h))
          /\ Answer(h)
    /\ UNCHANGED <<upstream, chat, incidents, dedup, applied>>

-----------------------------------------------------------------------------
(***************************************************************************)
(* process_locked_callback.                                                *)
(***************************************************************************)
\* Return the answer; the local records go out of scope.
Conclude(h, result) == /\ Goto(h, "release")
                       /\ out' = [out EXCEPT ![h] = result]
                       /\ rec' = [rec EXCEPT ![h] = None]

\* The action is taken, or answered with 409, which the client calls a success.
Accepted(i, event) ==
    IF Possible(timeline[i], event) THEN Log(i, event) ELSE UNCHANGED upstream

\* Mutant: an error of the API call is logged and the callback goes on.
CallBetterStack_GoesOn(h) ==
    LET i == req[h].incident  event == ActionEvent[req[h].what] IN
    /\ pc[h] = "api"
    /\ Goto(h, "get")
    /\ \/ Accepted(i, event) /\ UNCHANGED spent
       \/ Spend("api") /\ UNCHANGED upstream
    /\ UNCHANGED <<chat, redis, req, rec, out, applied>>

CallBetterStack(h) ==
    LET i == req[h].incident  event == ActionEvent[req[h].what] IN
    /\ pc[h] = "api"
    /\ \/ /\ Accepted(i, event)
          /\ Goto(h, "get")
          /\ UNCHANGED <<rec, out, spent>>
       \/ /\ Spend("api")
          /\ Accepted(i, event) \/ UNCHANGED upstream
          /\ Conclude(h, "Alert")
    /\ UNCHANGED <<chat, redis, req, applied>>

(***************************************************************************)
(* post_with_retry: the answer is 429 or 5xx, whether or not the action    *)
(* was taken, and the same request is made again after a pause.  Of the    *)
(* at most three attempts all but the last may end like this; the failure  *)
(* that ends the call is the one in CallBetterStack.                       *)
(***************************************************************************)
RetryCall(h) ==
    /\ pc[h] = "api"
    /\ Spend("api")
    /\ \/ Accepted(req[h].incident, ActionEvent[req[h].what])
       \/ UNCHANGED upstream
    /\ UNCHANGED <<chat, redis, tasks, applied>>

\* The first get: does the action change the stored status?
LoadCurrent(h) ==
    LET current == Get(incidents, req[h].incident) IN
    /\ pc[h] = "get"
    /\ \/ /\ current # None
          /\ LET status == NextStatus(current.status, ActionTrigger(req[h].what))
             IN  IF status # current.status
                 THEN /\ rec' = [rec EXCEPT ![h] = [current EXCEPT !.status = status]]
                      /\ Goto(h, "setStatus")
                 ELSE Goto(h, "reget") /\ UNCHANGED rec
          /\ UNCHANGED <<out, spent>>
       \/ /\ current = None
          /\ Conclude(h, "Alert")
          /\ UNCHANGED spent
       \/ /\ Spend("store")
          /\ Conclude(h, "Alert")
    /\ UNCHANGED <<upstream, chat, redis, req, applied>>

StoreStatus(h) ==
    LET written == SetStatus(incidents, req[h].incident, rec[h].status) IN
    /\ pc[h] = "setStatus"
    /\ \/ /\ incidents' = written
          /\ Goto(h, "reget")
          /\ rec' = [rec EXCEPT ![h] = None]
          /\ UNCHANGED <<out, spent>>
       \/ /\ WriteFails(incidents', incidents, written)
          /\ Conclude(h, "Alert")
    /\ UNCHANGED <<upstream, chat, dedup, locks, req, applied>>

\* The second get: what the message will show, if there is a message.
Reload(h) ==
    LET updated == Get(incidents, req[h].incident) IN
    /\ pc[h] = "reget"
    /\ \/ /\ updated # None
          /\ IF updated.chat_id # None /\ updated.message_id # None
             THEN /\ rec' = [rec EXCEPT ![h] = updated]
                  /\ Goto(h, "edit")
                  /\ UNCHANGED out
             ELSE Conclude(h, "Success")
          /\ UNCHANGED spent
       \/ /\ updated = None
          /\ Conclude(h, "Alert")
          /\ UNCHANGED spent
       \/ /\ Spend("store")
          /\ Conclude(h, "Alert")
    /\ UNCHANGED <<upstream, chat, redis, req, applied>>

\* A failed edit is logged; the chat member is told "Done" all the same.
EditAfterClick(h) ==
    LET shown == EditMessage(rec[h].message_id, rec[h]) IN
    /\ pc[h] = "edit"
    /\ Conclude(h, "Success")
    /\ \/ messages' = shown /\ UNCHANGED spent
       \/ Spend("telegram") /\ messages' \in {messages, shown}
    /\ UNCHANGED <<upstream, inbox, redis, req, applied>>

\* The answer that follows is read by nobody else and ignored if it fails: one step with
\* the release.
ReleaseAndAnswer(h) ==
    LET released == ReleaseLock(locks, req[h].incident, h) IN
    /\ pc[h] = "release"
    /\ Answer(h)
    /\ \/ locks' = released /\ UNCHANGED spent
       \/ WriteFails(locks', locks, released)
    /\ UNCHANGED <<upstream, chat, incidents, dedup, applied>>

CallbackStep(h) ==
    \/ TakeClick(h)
    \/ LockForCallback(h)
    \/ CallBetterStack(h)
    \/ RetryCall(h)
    \/ LoadCurrent(h)
    \/ StoreStatus(h)
    \/ Reload(h)
    \/ EditAfterClick(h)
    \/ ReleaseAndAnswer(h)
=============================================================================
