------------------------------ MODULE Incident ------------------------------
(***************************************************************************)
(* The incident domain: statuses, triggers, the persistent record and the  *)
(* pure state machine (src/domain/incident.rs).  Nothing here has state;   *)
(* the store and the handlers are built from these operators.              *)
(***************************************************************************)
EXTENDS Integers, Sequences

CONSTANTS
    Incidents,   \* incident ids assigned by Better Stack
    EmptyId,     \* the empty string: the id of a hash that has no "id" field
    ChatId,      \* the one Telegram chat the bot is configured with
    None         \* Rust's Option::None, and an absent Redis key

ASSUME IdAssumption == EmptyId \notin Incidents /\ ChatId # None

Statuses == {"started", "acknowledged", "resolved"}
Triggers == {"IncidentStarted", "Acknowledged", "Resolved", "Reopened"}

\* "comment" stands for every event name the bot does not know.
Events == {"incident_started", "incident_acknowledged", "incident_resolved",
           "incident_reopened", "comment"}

TriggerOf ==
    [incident_started      |-> "IncidentStarted",
     incident_acknowledged |-> "Acknowledged",
     incident_resolved     |-> "Resolved",
     incident_reopened     |-> "Reopened"]

\* Trigger::from_event; None for an event that is skipped.
FromEvent(event) ==
    IF event \in DOMAIN TriggerOf THEN TriggerOf[event] ELSE None

-----------------------------------------------------------------------------
(***************************************************************************)
(* incident::next.  The `changed` flag of the code is NextStatus # current *)
(* in each of the twelve rows of its table.                                *)
(***************************************************************************)
\* Mutant: a late acknowledgement regresses a resolved incident.
NextStatus_LateAck(current, trigger) ==
    CASE trigger = "Reopened"     -> "started"
      [] trigger = "Resolved"     -> "resolved"
      [] trigger = "Acknowledged" -> "acknowledged"
      [] OTHER                    -> current

NextStatus(current, trigger) ==
    CASE trigger = "Reopened"     -> "started"
      [] trigger = "Resolved"     -> "resolved"
      [] trigger = "Acknowledged" /\ current = "started" -> "acknowledged"
      [] OTHER                    -> current

-----------------------------------------------------------------------------
Keys == Incidents \cup {EmptyId}

(***************************************************************************)
(* IncidentRecord.  name, url, cause and started_at are display data; an   *)
(* optional timestamp and its actor are one flag, "has a value".           *)
(***************************************************************************)
Record == [id: Keys, status: Statuses,
           chat_id: {None, ChatId}, message_id: Nat \cup {None},
           acknowledged_at: BOOLEAN, resolved_at: BOOLEAN]

\* Option::None is no status, no trigger, no message id and no record.
ASSUME OptionAssumption == /\ None \notin Statuses /\ None \notin Triggers
                           /\ None \notin Nat /\ None \notin Record

\* IncidentRecord::default(), and what fields_to_record makes of absent fields.
DefaultRecord == [id |-> EmptyId, status |-> "started",
                  chat_id |-> None, message_id |-> None,
                  acknowledged_at |-> FALSE, resolved_at |-> FALSE]

\* The metadata of a record or of a message that shows one.
Clean(r) == r.status = "started" => ~r.acknowledged_at /\ ~r.resolved_at
=============================================================================
