---------------------------- MODULE MemoryStore -----------------------------
(***************************************************************************)
(* MemoryStore (src/storage/memory.rs), the double the tests use: three    *)
(* maps under one mutex, so that a method is one step.  Records do not     *)
(* expire; a dedup or lock entry past its time stays in its map and is     *)
(* looked through.                                                         *)
(***************************************************************************)
EXTENDS StoreTypes

VARIABLES
    memIncidents,   \* incidents: a record, None when there is none
    memDedup,       \* dedup: expires_at; 0 when there is no entry
    memLocks        \* locks: token and expires_at; 0 when there is no entry

memoryVars == <<memIncidents, memDedup, memLocks>>

MemGet(id) == memIncidents[id]

MemUpsert(r) ==
    /\ memIncidents' = [memIncidents EXCEPT ![r["id"]] = r]
    /\ UNCHANGED <<memDedup, memLocks>>

\* get_mut: only a record that is there is changed.
Change(id, changes) ==
    /\ memIncidents' =
           IF memIncidents[id] = None THEN memIncidents
           ELSE [memIncidents EXCEPT ![id] =
                    [f \in FieldNames |-> IF f \in DOMAIN changes THEN changes[f] ELSE @[f]]]
    /\ UNCHANGED <<memDedup, memLocks>>

MemSetMessageId(id, chat, message) ==
    Change(id, [chat_id |-> chat, message_id |-> message])

\* The actor is set to what is given, also to nothing.
MemSetStatus(id, status, actor, at) ==
    Change(id, CASE status = "acknowledged" -> [status |-> status, acknowledged_at |-> at,
                                                acknowledged_by |-> actor]
                 [] status = "resolved"     -> [status |-> status, resolved_at |-> at,
                                                resolved_by |-> actor]
                 [] OTHER                   -> [status |-> status])

-----------------------------------------------------------------------------
MemIsNew(id, event) == memDedup[<<id, event>>] <= now

MemMarkEvent(id, event) ==
    /\ memDedup' = IF MemIsNew(id, event)
                   THEN [memDedup EXCEPT ![<<id, event>>] = now + DedupTtl]
                   ELSE memDedup
    /\ UNCHANGED <<memIncidents, memLocks>>

MemUnmarkEvent(id, event) ==
    /\ memDedup' = [memDedup EXCEPT ![<<id, event>>] = 0]
    /\ UNCHANGED <<memIncidents, memLocks>>

MemLockFree(id) == memLocks[id].expires_at <= now

\* The token is the time, read under the mutex.
MemTryLock(id) ==
    /\ memLocks' = IF MemLockFree(id)
                   THEN [memLocks EXCEPT ![id] =
                            [token |-> now, expires_at |-> now + LockTtl]]
                   ELSE memLocks
    /\ UNCHANGED <<memIncidents, memDedup>>

NoEntry == [token |-> 0, expires_at |-> 0]

\* The token is compared, the time is not.
MemReleaseLock(id, token) ==
    /\ memLocks' = IF memLocks[id].token = token
                   THEN [memLocks EXCEPT ![id] = NoEntry]
                   ELSE memLocks
    /\ UNCHANGED <<memIncidents, memDedup>>

MemInit ==
    /\ memIncidents = [id \in Incidents |-> None]
    /\ memDedup = [key \in Incidents \X Events |-> 0]
    /\ memLocks = [id \in Incidents |-> NoEntry]
=============================================================================
