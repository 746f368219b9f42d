------------------------------- MODULE World --------------------------------
(***************************************************************************)
(* What the handlers of the bot share (Redis, the Telegram chat, Better    *)
(* Stack), the state of each handler task, and the environment: Better     *)
(* Stack changing incidents and delivering webhooks, chat members pressing *)
(* buttons, Redis expiring keys, replicas crashing.                        *)
(*                                                                         *)
(* A handler task is one request being served by some replica.  Replicas   *)
(* share nothing in memory, so which replica a task runs on is immaterial. *)
(***************************************************************************)
EXTENDS RedisStore, FiniteSets

CONSTANTS
    WebhookHandlers,   \* tasks running betterstack_webhook_handler
    CallbackHandlers,  \* tasks running callback_handler
    Metadata,          \* what payloads may carry: acknowledged_at, resolved_at
    Budgets            \* how often each kind of fault or bounded input may happen:
                       \* as often as one of these budgets says

(***************************************************************************)
(* Faults: a handler dies ("crash"); the 15 s lease of a lock runs out     *)
(* while its holder still works ("lease"); a Redis command is refused      *)
(* ("store"), or runs but its reply is lost ("storeReply"); a Telegram or  *)
(* a Better Stack request fails, before or after taking effect             *)
(* ("telegram", "api"); Better Stack gives up on a webhook request and     *)
(* sends it again ("timeout"); the TTL of a dedup key or of a record ends  *)
(* ("dedupTtl", "recordTtl").  Inputs that would never end: a button is    *)
(* pressed, an incident is reopened, an event unknown to the bot happens,  *)
(* a message is deleted.  "overtake" says, once and for all, that Better   *)
(* Stack has delivered a later event of an incident before an earlier one. *)
(***************************************************************************)
Faults == {"crash", "lease", "store", "storeReply", "telegram", "api",
           "timeout", "dedupTtl", "recordTtl"}
Kinds  == Faults \cup {"click", "reopen", "comment", "delete", "overtake"}

Handlers == WebhookHandlers \cup CallbackHandlers

ASSUME HandlersAssumption == /\ WebhookHandlers \cap CallbackHandlers = {}
                             /\ None \notin Handlers
ASSUME BudgetAssumption   == Budgets \subseteq [Kinds -> Nat]
ASSUME MetadataAssumption == Metadata \subseteq {"acknowledged_at", "resolved_at"}

VARIABLES
    timeline,   \* Better Stack: the events of each incident, in order
    pending,    \* Better Stack: indices of the events not yet answered with 200
    messages,   \* Telegram: what each message of the chat shows, by message id
    inbox,      \* Telegram: button presses queued for each callback task
    incidents, dedup, locks,  \* Redis
    pc, req, rec, out,        \* per task: next step, request, local record, result
    applied,    \* history: the deliveries whose upsert took effect
    spent       \* how often each kind has happened

redis   == <<incidents, dedup, locks>>
tasks   == <<pc, req, rec, out>>
chat    == <<messages, inbox>>
upstream == <<timeline, pending>>
vars    == <<upstream, chat, redis, tasks, applied, spent>>

-----------------------------------------------------------------------------
Spend(kind) == /\ spent' = [spent EXCEPT ![kind] = @ + 1]
               /\ \E budget \in Budgets : \A k \in Kinds : spent'[k] <= budget[k]

Goto(h, step) == pc' = [pc EXCEPT ![h] = step]

(***************************************************************************)
(* A Redis write that the caller sees fail: old and new are the value of   *)
(* the key before and after the command.                                   *)
(***************************************************************************)
WriteFails(value, old, new) == \/ Spend("store")      /\ value = old
                               \/ Spend("storeReply") /\ value = new

-----------------------------------------------------------------------------
(***************************************************************************)
(* Better Stack.                                                           *)
(***************************************************************************)
EventsOf(i) == {timeline[i][n] : n \in DOMAIN timeline[i]}

\* The status Better Stack shows for an incident.
StatusAfter(events) ==
    LET changes == {n \in DOMAIN events : events[n] # "comment"}
        last    == CHOOSE n \in changes : \A m \in changes : m <= n
    IN  CASE events[last] = "incident_acknowledged" -> "acknowledged"
          [] events[last] = "incident_resolved"     -> "resolved"
          [] OTHER                                  -> "started"

\* May Better Stack let this happen to an incident with this history?
Possible(events, event) ==
    IF events = <<>> THEN event = "incident_started"
    ELSE CASE event = "incident_acknowledged" -> StatusAfter(events) = "started"
           [] event = "incident_resolved"     -> StatusAfter(events) # "resolved"
           [] event = "incident_reopened"     -> StatusAfter(events) = "resolved"
           [] event = "comment"               -> TRUE
           [] OTHER                           -> FALSE

\* The event becomes history and its webhook becomes due.
Log(i, event) ==
    /\ timeline' = [timeline EXCEPT ![i] = Append(@, event)]
    /\ pending'  = [pending EXCEPT ![i] = @ \cup {Len(timeline[i]) + 1}]

\* Someone acts in the Better Stack UI, or the monitor changes state.
Happen(i, event) ==
    /\ Possible(timeline[i], event)
    /\ CASE event = "incident_reopened" -> Spend("reopen")
         [] event = "comment"           -> Spend("comment")
         [] OTHER                       -> UNCHANGED spent
    /\ Log(i, event)
    /\ UNCHANGED <<chat, redis, tasks, applied>>

Overtake == \/ spent["overtake"] = 1 /\ UNCHANGED spent
            \/ spent["overtake"] = 0 /\ Spend("overtake")

(***************************************************************************)
(* Better Stack sends a webhook that no live request is carrying.  It asks *)
(* again until the answer is 200; an answer to a request it gave up on     *)
(* (awaited = FALSE) is lost on it.                                        *)
(***************************************************************************)
Deliver(h, i, n) ==
    /\ pc[h] = "idle"
    /\ n \in pending[i]
    /\ \/ (\A m \in pending[i] : n <= m) /\ UNCHANGED spent
       \/ (\E m \in pending[i] : m < n) /\ Overtake
    /\ \A g \in WebhookHandlers :
          pc[g] # "idle" => ~(req[g].awaited /\ req[g].incident = i /\ req[g].no = n)
    /\ Goto(h, "lock")
    /\ req' = [req EXCEPT ![h] = [incident |-> i, what |-> timeline[i][n],
                                  no |-> n, awaited |-> TRUE]]
    /\ UNCHANGED <<upstream, chat, redis, rec, out, applied>>

GiveUp(h) ==
    /\ pc[h] # "idle" /\ req[h].awaited
    /\ Spend("timeout")
    /\ req' = [req EXCEPT ![h].awaited = FALSE]
    /\ UNCHANGED <<upstream, chat, redis, pc, rec, out, applied>>

-----------------------------------------------------------------------------
(***************************************************************************)
(* Telegram.                                                               *)
(***************************************************************************)
\* What render makes of a record, as far as the properties look.
View(r) == [id |-> r.id, status |-> r.status,
            acknowledged_at |-> r.acknowledged_at, resolved_at |-> r.resolved_at,
            deleted |-> FALSE]

\* build_keyboard: the actions a message offers.
Buttons(view) == CASE view.status = "started"      -> {"Acknowledge", "Resolve"}
                   [] view.status = "acknowledged" -> {"Resolve"}
                   [] OTHER                        -> {}

\* A press is queued behind the earlier ones of the chat.
Click(h, m, action) ==
    /\ ~messages[m].deleted /\ action \in Buttons(messages[m])
    /\ Spend("click")
    /\ inbox' = [inbox EXCEPT ![h] =
                    Append(@, [incident |-> messages[m].id, what |-> action,
                               no |-> 0, awaited |-> FALSE])]
    /\ UNCHANGED <<upstream, messages, redis, tasks, applied>>

\* A member deletes a message; its coordinates stay in the record.
DeleteMessage(m) ==
    /\ ~messages[m].deleted
    /\ Spend("delete")
    /\ messages' = [messages EXCEPT ![m].deleted = TRUE]
    /\ UNCHANGED <<upstream, inbox, redis, tasks, applied>>

SendMessage(r) == Append(messages, View(r))

(***************************************************************************)
(* edit_incident: "message is not modified" is a success, and so is        *)
(* "message to edit not found": no message is sent in its place.           *)
(***************************************************************************)
EditMessage(m, r) == IF messages[m].deleted THEN messages
                     ELSE [messages EXCEPT ![m] = View(r)]

-----------------------------------------------------------------------------
(***************************************************************************)
(* Redis, and death.                                                       *)
(***************************************************************************)
\* The steps a task takes while it believes that it holds the lock.
InCritical(h) == pc[h] \notin {"idle", "lock"}

\* Mutant: SET NX without EX.
OrphanedLockExpires_Never(i) == FALSE

\* A lock whose holder is gone runs out; nobody else is affected.
OrphanedLockExpires(i) ==
    /\ locks[i] # None
    /\ \A h \in Handlers : locks[i] = h => ~(InCritical(h) /\ req[h].incident = i)
    /\ locks' = [locks EXCEPT ![i] = None]
    /\ UNCHANGED <<upstream, chat, incidents, dedup, tasks, applied, spent>>

\* A lock runs out under its holder, 15 s being shorter than the requests made.
LeaseLost(i) ==
    /\ \E h \in Handlers : locks[i] = h /\ InCritical(h) /\ req[h].incident = i
    /\ Spend("lease")
    /\ locks' = [locks EXCEPT ![i] = None]
    /\ UNCHANGED <<upstream, chat, incidents, dedup, tasks, applied>>

DedupExpires(i, event) ==
    /\ <<i, event>> \in dedup
    /\ Spend("dedupTtl")
    /\ dedup' = dedup \ {<<i, event>>}
    /\ UNCHANGED <<upstream, chat, incidents, locks, tasks, applied>>

\* Not within the handler run that renewed the TTL, which is of days.
RecordExpires(i) ==
    /\ HasTtl(incidents, i)
    /\ \A h \in WebhookHandlers :
          pc[h] \in {"clearResolved", "clearAcknowledged", "notify", "setMessageId"}
          => req[h].incident # i
    /\ Spend("recordTtl")
    /\ incidents' = [incidents EXCEPT ![i] = None]
    /\ UNCHANGED <<upstream, chat, dedup, locks, tasks, applied>>

Reset(h) == /\ pc'  = [pc EXCEPT ![h] = "idle"]
            /\ req' = [req EXCEPT ![h] = None]
            /\ rec' = [rec EXCEPT ![h] = None]
            /\ out' = [out EXCEPT ![h] = None]

(***************************************************************************)
(* The replica stops, or the HTTP connection closes: the task's future is  *)
(* dropped wherever it stands, and its lock stays in Redis.  Button        *)
(* presses a replica had queued are lost with it.                          *)
(***************************************************************************)
Crash(h) ==
    /\ pc[h] # "idle"
    /\ Spend("crash")
    /\ Reset(h)
    /\ inbox' = IF h \in CallbackHandlers THEN [inbox EXCEPT ![h] = <<>>] ELSE inbox
    /\ UNCHANGED <<upstream, messages, redis, applied>>

WorldInit ==
    /\ timeline = [i \in Incidents |-> <<>>]
    /\ pending  = [i \in Incidents |-> {}]
    /\ messages = <<>>
    /\ inbox    = [h \in CallbackHandlers |-> <<>>]
    /\ incidents = [k \in Keys |-> None]
    /\ dedup    = {}
    /\ locks    = [i \in Incidents |-> None]
    /\ pc  = [h \in Handlers |-> "idle"]
    /\ req = [h \in Handlers |-> None]
    /\ rec = [h \in Handlers |-> None]
    /\ out = [h \in Handlers |-> None]
    /\ applied = [i \in Incidents |-> {}]
    /\ spent   = [kind \in Kinds |-> 0]

Environment ==
    \/ \E i \in Incidents, event \in Events : Happen(i, event)
    \/ \E h \in WebhookHandlers, i \in Incidents : \E n \in pending[i] : Deliver(h, i, n)
    \/ \E h \in WebhookHandlers : GiveUp(h)
    \/ \E h \in CallbackHandlers, m \in DOMAIN messages,
          action \in {"Acknowledge", "Resolve"} : Click(h, m, action)
    \/ \E m \in DOMAIN messages : DeleteMessage(m)
    \/ \E i \in Incidents : \/ OrphanedLockExpires(i)
                            \/ LeaseLost(i)
                            \/ RecordExpires(i)
    \/ \E i \in Incidents, event \in Events : DedupExpires(i, event)
    \/ \E h \in Handlers : Crash(h)
=============================================================================
