------------------------------- MODULE Stores -------------------------------
(***************************************************************************)
(* The two implementations of IncidentStore side by side: every call is    *)
(* made to both, while time passes and replicas stop between their calls,  *)
(* and between reading a lock token and the SET that it is for.            *)
(* The tests of the handlers run on MemoryStore, production on RedisStore; *)
(* Bot takes RedisStore for granted as operators on whole records.         *)
(***************************************************************************)
EXTENDS RedisKeys, MemoryStore

CONSTANTS
    Clients,    \* handler tasks, each with at most one guard
    Skew,       \* how far the clock of a client's replica is ahead
    MaxDelay,   \* bound: how long a SET is on its way, or its task stalled
    Writes,     \* the records that are upserted
    Delivered,  \* the events that are marked and unmarked
    Names,      \* usernames of the chat members who press buttons
    Stamps      \* formatted timestamps

ASSUME ClientsAssumption == /\ None \notin Clients /\ Skew \in [Clients -> Nat]
                            /\ MaxDelay \in Nat

\* What a field holds; a record field by field, and as Bot knows it.
FieldValues(f) == CASE f = "id"         -> Keys
                    [] f = "status"     -> Statuses
                    [] f = "chat_id"    -> {ChatId}
                    [] f = "message_id" -> Messages
                    [] OTHER            -> Names \cup Stamps
Values    == UNION {FieldValues(f) : f \in FieldNames}
AnyRecord == [FieldNames -> Values \cup {None}]
AnyWhole  == [id : Values \cup {None}, status : Values \cup {None},
              chat_id : Values \cup {None}, message_id : Values \cup {None},
              acknowledged_at : BOOLEAN, resolved_at : BOOLEAN]
Records   == {r \in AnyRecord :
                 /\ r["id"] \in Incidents /\ r["status"] \in Statuses
                 /\ \A f \in Optional : r[f] \in FieldValues(f) \cup {None}}

\* Neither None nor Error is a value, a record or a guard, nor one the other.
ASSUME NoneAssumption ==
    /\ None \notin Values /\ None \notin AnyRecord /\ None \notin AnyWhole /\ None \notin Nat
    /\ None \notin [incident : Incidents, token : Nat, at : Nat]
    /\ Error \notin Values \cup {None} /\ Error \notin AnyRecord
ASSUME WritesAssumption == Writes \subseteq Records /\ Delivered \subseteq Events

VARIABLES
    asks,     \* per client: the try_lock it is in, with the token it has read, and when
    guards    \* per client: the LockGuard it holds, and since when

vars == <<now, redisVars, memoryVars, asks, guards>>

Init == /\ RedisInit /\ MemInit
        /\ now = 0
        /\ asks   = [c \in Clients |-> None]
        /\ guards = [c \in Clients |-> None]

-----------------------------------------------------------------------------
(***************************************************************************)
(* The methods of the trait, as the handlers call them.                    *)
(***************************************************************************)
UpsertCall(r) == /\ RedisUpsert(r) /\ MemUpsert(r)
                 /\ UNCHANGED <<now, asks, guards>>

SetMessageIdCall(id, message) ==
    /\ RedisSetMessageId(id, ChatId, message) /\ MemSetMessageId(id, ChatId, message)
    /\ UNCHANGED <<now, asks, guards>>

\* callback_handler always gives an actor.
SetStatusCall(id, status, name, at) ==
    /\ RedisSetStatus(id, status, name, at) /\ MemSetStatus(id, status, name, at)
    /\ UNCHANGED <<now, asks, guards>>

MarkEventCall(id, event) == /\ RedisMarkEvent(id, event) /\ MemMarkEvent(id, event)
                            /\ UNCHANGED <<now, asks, guards>>

UnmarkEventCall(id, event) == /\ RedisUnmarkEvent(id, event) /\ MemUnmarkEvent(id, event)
                              /\ UNCHANGED <<now, asks, guards>>

\* lock_token: the time, as the clock of the replica has it, before the SET is awaited.
ReadClock(c, id) ==
    /\ guards[c] = None /\ asks[c] = None
    /\ asks' = [asks EXCEPT ![c] = [incident |-> id, token |-> now + Skew[c], at |-> now]]
    /\ UNCHANGED <<now, redisVars, memoryVars, guards>>

\* The SET arrives; the double does it all in one step, and its guard is of this moment.
TryLockCall(c) ==
    /\ asks[c] # None /\ now <= asks[c].at + MaxDelay
    /\ RedisTryLock(asks[c].incident, asks[c].token)
    /\ MemTryLock(asks[c].incident)
    /\ asks' = [asks EXCEPT ![c] = None]
    /\ guards' = IF RedisLockFree(asks[c].incident)
                 THEN [guards EXCEPT ![c] = [incident |-> asks[c].incident,
                                             token |-> asks[c].token, at |-> now]]
                 ELSE guards
    /\ UNCHANGED now

\* The SET does not arrive, or its task is dropped before.
DropAsk(c) == /\ asks[c] # None
              /\ asks' = [asks EXCEPT ![c] = None]
              /\ UNCHANGED <<now, redisVars, memoryVars, guards>>

\* However late: a handler does not know that its lease has run out.
ReleaseLockCall(c) ==
    /\ guards[c] # None
    /\ RedisReleaseLock(guards[c].incident, guards[c].token)
    /\ MemReleaseLock(guards[c].incident, guards[c].at)
    /\ guards' = [guards EXCEPT ![c] = None]
    /\ UNCHANGED <<now, asks>>

\* A task is dropped.  A LockGuard has no Drop: nothing is released.
DropGuard(c) == /\ guards[c] # None
                /\ guards' = [guards EXCEPT ![c] = None]
                /\ UNCHANGED <<now, redisVars, memoryVars, asks>>

Tick == /\ now < MaxNow
        /\ now' = now + 1
        /\ UNCHANGED <<redisVars, memoryVars, asks, guards>>

Next ==
    \/ Tick
    \/ \E r \in Writes : UpsertCall(r)
    \/ \E id \in Incidents :
          \/ \E message \in Messages : SetMessageIdCall(id, message)
          \/ \E status \in Statuses, name \in Names, at \in Stamps :
                SetStatusCall(id, status, name, at)
          \/ \E event \in Delivered : MarkEventCall(id, event) \/ UnmarkEventCall(id, event)
          \/ \E c \in Clients : ReadClock(c, id)
    \/ \E c \in Clients : TryLockCall(c) \/ DropAsk(c) \/ ReleaseLockCall(c) \/ DropGuard(c)

Spec == Init /\ [][Next]_vars

-----------------------------------------------------------------------------
(***************************************************************************)
(* INCIDENT_TTL_SECS is a number Redis takes for a time to live, at any    *)
(* moment of the run.  Nothing checks that: config.rs takes any u64.       *)
(***************************************************************************)
TtlFits == TtlSecs(IncidentTtl) + MaxNow <= MaxDeadline

(***************************************************************************)
(* Every hash can be read: a field is written the way fields_to_record     *)
(* parses it, by record_to_fields and by the setters, over one another and *)
(* over what has expired.                                                  *)
(***************************************************************************)
HashesParse == \A id \in Incidents : RedisGet(id) # Error

\* A hash that a setter made where there was none: nobody wrote its id.
Stray(id) == Hash(id) # NoFields /\ "id" \notin DOMAIN Hash(id)

(***************************************************************************)
(* No replica's clock, read a delay before its SET, is ahead of another's  *)
(* by a whole lease: a token then belongs to one lease.                    *)
(***************************************************************************)
ReadingsClose == \A c, d \in Clients : Skew[c] + MaxDelay < Skew[d] + LockTtl

(***************************************************************************)
(* The double answers as Redis does: a dedup key is live in both or in     *)
(* neither, and so is a lock as long as tokens differ from lease to lease; *)
(* the record is the same unless it has expired (the double never forgets) *)
(* or a setter came after that.  What the tests show on MemoryStore is     *)
(* true of RedisStore up to that.                                          *)
(***************************************************************************)
StoresAgree ==
    \A id \in Incidents :
        /\ ~HashExpired(id) /\ ~Stray(id) => RedisGet(id) = MemGet(id)
        /\ \A event \in Events : RedisIsNew(id, event) <=> MemIsNew(id, event)
        /\ ReadingsClose => (RedisLockFree(id) <=> MemLockFree(id))

(***************************************************************************)
(* A record has a TTL if and only if it was upserted: RedisStore!HasTtl,   *)
(* on which Bot relies, is what EXPIRE does.  Only a stray lasts for ever. *)
(***************************************************************************)
OnlyStraysLast ==
    \A id \in Incidents : Hash(id) # NoFields => (hashTtl[id] = None <=> Stray(id))

(***************************************************************************)
(* What upsert wrote is what the next get finds, cleared fields included.  *)
(***************************************************************************)
ReadBack == [][\A r \in Writes : UpsertCall(r) => RedisGet(r["id"])' = r]_vars

InLease(c) == guards[c] # None /\ now < guards[c].at + LockTtl

(***************************************************************************)
(* Within its lease the holder of a lock is alone: release_lock compares   *)
(* tokens, so a guard that is released too late frees no lock of another,  *)
(* although a token is no more than the time on some replica's clock, read *)
(* before the SET.  For that the readings must be close.                   *)
(***************************************************************************)
AloneInLease ==
    ReadingsClose => \A c, d \in Clients :
        InLease(c) /\ InLease(d) /\ guards[c].incident = guards[d].incident => c = d

-----------------------------------------------------------------------------
\* A record as Bot knows it: an optional timestamp and its actor are one flag.
Whole(r) == IF r \in {None, Error} THEN r
            ELSE [id |-> r["id"], status |-> r["status"],
                  chat_id |-> r["chat_id"], message_id |-> r["message_id"],
                  acknowledged_at |-> r["acknowledged_at"] # None,
                  resolved_at |-> r["resolved_at"] # None]

Abstract == INSTANCE AbstractStore WITH
    db   <- [id \in Incidents |-> Whole(RedisGet(id))],
    seen <- {key \in Incidents \X Events : ~RedisIsNew(key[1], key[2])},
    lk   <- [id \in Incidents |-> IF RedisLockFree(id) THEN None ELSE lockKeys[id].token]

\* Every call does what its operator does with the same arguments, and answers like it.
AsCalled ==
    /\ \A r \in Writes : UpsertCall(r) => Abstract!WriteRecord(Whole(r))
    /\ \A id \in Incidents :
          /\ \A message \in Messages :
                SetMessageIdCall(id, message) => Abstract!WriteMessageId(id, ChatId, message)
          /\ \A status \in Statuses, name \in Names, at \in Stamps :
                SetStatusCall(id, status, name, at) => Abstract!WriteStatus(id, status)
          /\ \A event \in Delivered :
                /\ MarkEventCall(id, event) => Abstract!Mark(id, event, RedisIsNew(id, event))
                /\ UnmarkEventCall(id, event) => Abstract!Unmark(id, event)
          /\ \A c \in Clients : ReadClock(c, id) => UNCHANGED Abstract!vars
    /\ \A c \in Clients :
          /\ TryLockCall(c) =>
                Abstract!Lock(asks[c].incident, asks[c].token, guards'[c] # None)
          /\ ReleaseLockCall(c) => Abstract!Unlock(guards[c].incident, guards[c].token)
          /\ DropAsk(c) \/ DropGuard(c) => UNCHANGED Abstract!vars
    /\ Tick => Abstract!Expire

(***************************************************************************)
(* RedisStore, the operators Bot is built from, is what the commands of    *)
(* redis.rs do to the keys, call by call, time and expiry included.        *)
(***************************************************************************)
CommandsAsInBot == Abstract!Init /\ [][AsCalled]_vars
=============================================================================
