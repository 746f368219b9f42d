----------------------------- MODULE StoreTypes -----------------------------
(***************************************************************************)
(* What the two stores behind the IncidentStore trait share: the clock,    *)
(* the times to live the callers ask for, and the incident record field by *)
(* field (RedisStore, the module, knows a record as a whole and time not   *)
(* at all).  Time is counted in seconds.                                   *)
(***************************************************************************)
EXTENDS Incident

CONSTANTS
    IncidentTtl,   \* INCIDENT_TTL_SECS, any u64
    DedupTtl,      \* Duration::from_secs(86_400)
    LockTtl,       \* Duration::from_secs(15)
    I64Max,        \* i64::MAX; a u64 goes up to 2 * I64Max + 1
    Messages,      \* message ids: numbers that an i32 holds, as ChatId is not
    MaxNow         \* bound: the last moment of a run

ASSUME TtlAssumption == /\ I64Max \in Nat /\ IncidentTtl \in 0 .. 2 * I64Max + 1
                        /\ DedupTtl \in Nat \ {0} /\ LockTtl \in Nat \ {0}
                        /\ MaxNow \in Nat

VARIABLE now

(***************************************************************************)
(* IncidentRecord as a function of its fields; name, url, cause and        *)
(* started_at are display data and left out.                               *)
(***************************************************************************)
Optional   == {"chat_id", "message_id", "acknowledged_at", "acknowledged_by",
               "resolved_at", "resolved_by"}
FieldNames == {"id", "status"} \cup Optional

Default == [f \in FieldNames |-> CASE f = "id"     -> EmptyId
                                   [] f = "status" -> "started"
                                   [] OTHER        -> None]
=============================================================================
