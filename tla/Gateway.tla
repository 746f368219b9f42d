------------------------------ MODULE Gateway -------------------------------
(***************************************************************************)
(* How a pressed button gets to callback_handler: replicas that start,     *)
(* register a webhook with Telegram and serve it behind a load balancer    *)
(* (src/main.rs, src/server.rs), and the queue of the dispatcher           *)
(* (src/telegram/dispatch.rs).  What the handler then does is the subject  *)
(* of CallbackHandler.                                                     *)
(*                                                                         *)
(* A secret is the configured one, or a number that stands for the random  *)
(* token of one start: 32 bytes, never the same twice.                     *)
(***************************************************************************)
EXTENDS Callback

CONSTANTS
    Replicas,
    Configs,    \* values TELEGRAM_SECRET_TOKEN may have, None if unset
    Ids,        \* incident ids the messages of the chat are about
    Budget      \* how often a button is pressed, a replica stops, a 200 is lost

Kinds == {"press", "stop", "reply"}

ASSUME BudgetAssumption  == Budget \in [Kinds -> Nat]
ASSUME ConfigsAssumption == Configs \cap Nat = {}
ASSUME IdsAssumption     == Ids \subseteq Seq(Chars)

VARIABLES
    telegram_secret_token,   \* the configuration, the same for all replicas
    stage,        \* how far main has come on each replica
    secret,       \* its secret_token
    boots,        \* how many starts there were
    registered,   \* Telegram: the secret of the last setWebhook
    updates,      \* Telegram: every press, by update id
    due,          \* Telegram: the updates not yet answered with 200
    queue,        \* per replica: what the dispatcher has to hand on
    calls,        \* history: what callback_handler was called with
    lost,         \* history: the updates that went down with a replica
    spent

telegram == <<registered, updates, due>>
process  == <<stage, secret, boots>>
vars == <<telegram_secret_token, process, telegram, queue, calls, lost, spent>>

Spend(kind) == /\ spent[kind] < Budget[kind]
               /\ spent' = [spent EXCEPT ![kind] = @ + 1]

-----------------------------------------------------------------------------
(***************************************************************************)
(* main, from its start to the select that serves.                         *)
(***************************************************************************)
\* Mutant: the configuration is not looked at.
ResolveSecretToken_Random(start) == start

\* resolve_secret_token.
ResolveSecretToken(start) ==
    IF telegram_secret_token # None THEN telegram_secret_token ELSE start

Boot(r) ==
    /\ stage[r] = "down"
    /\ boots' = boots + 1
    /\ secret' = [secret EXCEPT ![r] = ResolveSecretToken(boots')]
    /\ stage'  = [stage EXCEPT ![r] = "booting"]
    /\ UNCHANGED <<telegram_secret_token, telegram, queue, calls, lost, spent>>

\* Mutant: setWebhook is given a token of its own.
Register_ResolvesAgain(r) ==
    /\ stage[r] = "booting"
    /\ boots' = boots + 1
    /\ registered' = ResolveSecretToken(boots')
    /\ stage' = [stage EXCEPT ![r] = "registered"]
    /\ UNCHANGED <<telegram_secret_token, secret, updates, due, queue, calls, lost, spent>>

\* register_webhook: Telegram forgets the secret it had.
Register(r) ==
    /\ stage[r] = "booting"
    /\ registered' = secret[r]
    /\ stage' = [stage EXCEPT ![r] = "registered"]
    /\ UNCHANGED <<telegram_secret_token, secret, boots, updates, due, queue,
                   calls, lost, spent>>

\* Only now the port is bound and the router and the dispatcher run.
Serve(r) ==
    /\ stage[r] = "registered"
    /\ stage' = [stage EXCEPT ![r] = "serving"]
    /\ UNCHANGED <<telegram_secret_token, secret, boots, telegram, queue,
                   calls, lost, spent>>

Queued(r) == {queue[r][k] : k \in DOMAIN queue[r]}

(***************************************************************************)
(* The process ends: an error at start, a signal, a crash, or either half  *)
(* of the select.  What the dispatcher had queued goes with it.  If it was *)
(* setWebhook that failed, it may have taken effect.                       *)
(***************************************************************************)
Stop(r) ==
    /\ stage[r] # "down"
    /\ Spend("stop")
    /\ registered' \in IF stage[r] = "booting" THEN {registered, secret[r]}
                                               ELSE {registered}
    /\ stage'  = [stage EXCEPT ![r] = "down"]
    /\ secret' = [secret EXCEPT ![r] = None]
    /\ queue'  = [queue EXCEPT ![r] = <<>>]
    /\ lost'   = lost \cup Queued(r)
    /\ UNCHANGED <<telegram_secret_token, boots, updates, due, calls>>

-----------------------------------------------------------------------------
(***************************************************************************)
(* Telegram and the load balancer.                                         *)
(***************************************************************************)
\* A member presses a button of a message about `id`.
Press(id, action) ==
    /\ \E status \in {"started", "acknowledged", "resolved"} :
          action \in Keyboard(status, id)
    /\ Spend("press")
    /\ updates' = Append(updates, [what |-> action, incident |-> id,
                                   data |-> Encode(action, id)])
    /\ due' = due \cup {Len(updates) + 1}
    /\ UNCHANGED <<telegram_secret_token, process, registered, queue, calls, lost>>

Accepts(r) == stage[r] = "serving" /\ secret[r] = registered

(***************************************************************************)
(* The request that carries update n is routed to r, which queues it and   *)
(* answers 200.  If that answer is lost, Telegram sends the update again.  *)
(* A replica that does not serve, or that has another secret (401), does   *)
(* nothing, and Telegram tries again.                                      *)
(***************************************************************************)
Accept(r, n) ==
    /\ Accepts(r) /\ n \in due
    /\ queue' = [queue EXCEPT ![r] = Append(@, n)]
    /\ \/ due' = due \ {n} /\ UNCHANGED spent
       \/ Spend("reply") /\ UNCHANGED due
    /\ UNCHANGED <<telegram_secret_token, process, registered, updates, calls, lost>>

(***************************************************************************)
(* The dispatcher hands the next press of the chat to callback_handler,    *)
(* which begins by decoding it.                                            *)
(***************************************************************************)
Handle(r) ==
    /\ stage[r] = "serving" /\ queue[r] # <<>>
    /\ calls' = Append(calls, [update |-> Head(queue[r]),
                               decoded |-> Decode(updates[Head(queue[r])].data)])
    /\ queue' = [queue EXCEPT ![r] = Tail(@)]
    /\ UNCHANGED <<telegram_secret_token, process, telegram, lost, spent>>

-----------------------------------------------------------------------------
Init ==
    /\ telegram_secret_token \in Configs
    /\ stage  = [r \in Replicas |-> "down"]
    /\ secret = [r \in Replicas |-> None]
    /\ boots  = 0
    /\ registered = None
    /\ updates = <<>>
    /\ due     = {}
    /\ queue   = [r \in Replicas |-> <<>>]
    /\ calls   = <<>>
    /\ lost    = {}
    /\ spent   = [kind \in Kinds |-> 0]

Step(r) == Boot(r) \/ Register(r) \/ Serve(r) \/ Stop(r) \/ Handle(r)

Next == \/ \E r \in Replicas : Step(r)
        \/ \E id \in Ids, action \in Actions : Press(id, action)
        \/ \E r \in Replicas : \E n \in due : Accept(r, n)

Spec == Init /\ [][Next]_vars

(***************************************************************************)
(* Fairness: whoever runs the replicas starts them again; the awaits of    *)
(* main end; the dispatcher serves its queue; Telegram sends an update     *)
(* again until it is answered, and the load balancer does not for ever     *)
(* avoid the replicas that would accept it.                                *)
(***************************************************************************)
Fairness ==
    /\ \A r \in Replicas : /\ WF_vars(Boot(r)) /\ WF_vars(Register(r))
                           /\ WF_vars(Serve(r)) /\ WF_vars(Handle(r))
    /\ \A n \in 1 .. Budget["press"] :
          WF_vars(n \in due /\ \E r \in Replicas : Accept(r, n))

FairSpec == Spec /\ Fairness

-----------------------------------------------------------------------------
(***************************************************************************)
(* callback_handler acts on the button that was pressed: what decode finds *)
(* is the action and the incident of the message, wherever the id has      *)
(* colons and however close to the limit it is.  A button without incident *)
(* is the only one that is refused.                                        *)
(***************************************************************************)
PressMeansButton ==
    \A k \in DOMAIN calls :
        LET press == updates[calls[k].update] IN
        calls[k].decoded = IF press.incident = <<>> THEN None
                           ELSE [what |-> press.what, incident |-> press.incident]

(***************************************************************************)
(* "Every replica calls setWebhook with the same URL/secret on startup -   *)
(* idempotent, safe": whatever replica the load balancer chooses, it does  *)
(* not refuse what Telegram sends.                                         *)
(***************************************************************************)
AnyReplicaAccepts == \A r \in Replicas : stage[r] = "serving" => Accepts(r)

\* So it is when TELEGRAM_SECRET_TOKEN is set.
ConfiguredIsSafe == telegram_secret_token # None => AnyReplicaAccepts

(***************************************************************************)
(* Set or not, once every replica has come up at least one of them knows   *)
(* the secret Telegram has, in whatever order they started, failed and     *)
(* started again: resolve_secret_token is called once per start, and its   *)
(* value given both to Telegram and to the listener.                       *)
(***************************************************************************)
SomeReplicaAccepts ==
    Replicas # {} /\ (\A r \in Replicas : stage[r] = "serving")
    => \E r \in Replicas : Accepts(r)

Handled(n) == \E k \in DOMAIN calls : calls[k].update = n

(***************************************************************************)
(* Every press is handled in the end, or was queued on a replica when that *)
(* stopped: it has been answered by then, and Telegram does not send it    *)
(* again.  With random secrets too, though not before the replica that     *)
(* registered last is up, or one more start has replaced its secret.       *)
(***************************************************************************)
PressesHandled ==
    \A n \in 1 .. Budget["press"] :
        (n \in DOMAIN updates) ~> (Handled(n) \/ n \in lost)
=============================================================================
