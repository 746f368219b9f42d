----------------------------- MODULE RedisStore -----------------------------
(***************************************************************************)
(* RedisStore (src/storage/redis.rs) behind the IncidentStore trait.  Each *)
(* method is one Redis command, one Lua script or one MULTI transaction,   *)
(* hence atomic; it is given here by what it makes of the keys it touches: *)
(*   db    [Keys -> Record \cup {None}]   <prefix>:incident:<id>           *)
(*   seen  set of <<id, event>>           <prefix>:dedup:<id>:<event>      *)
(*   lk    [Incidents -> token or None]   <prefix>:lock:<id>               *)
(***************************************************************************)
EXTENDS Incident

\* get: HGETALL; an empty reply is None, absent fields take their defaults.
Get(db, id) == db[id]

\* Mutant: the hash is not deleted first, so cleared fields survive.
Upsert_NoDel(db, r) ==
    LET old == IF db[r.id] = None THEN DefaultRecord ELSE db[r.id]
    IN  [db EXCEPT ![r.id] =
            [r EXCEPT !.acknowledged_at = r.acknowledged_at \/ old.acknowledged_at,
                      !.resolved_at     = r.resolved_at \/ old.resolved_at]]

\* Mutant: the message coordinates are not written back.
Upsert_DropsMessage(db, r) ==
    [db EXCEPT ![r.id] = [r EXCEPT !.chat_id = None, !.message_id = None]]

\* upsert: MULTI / DEL / HSET every field / EXPIRE / EXEC, under the key of rec.id.
Upsert(db, r) == [db EXCEPT ![r.id] = r]

\* HSET creates the hash when the key is gone; every other field is then absent.
Fields(db, id) == IF db[id] = None THEN DefaultRecord ELSE db[id]

SetMessageId(db, id, chat, message) ==
    [db EXCEPT ![id] = [Fields(db, id) EXCEPT !.chat_id = chat,
                                              !.message_id = message]]

SetStatus(db, id, status) ==
    [db EXCEPT ![id] = [Fields(db, id) EXCEPT
        !.status          = status,
        !.acknowledged_at = @ \/ status = "acknowledged",
        !.resolved_at     = @ \/ status = "resolved"]]

(***************************************************************************)
(* Only upsert gives the hash a TTL (EXPIRE), and only upsert writes the   *)
(* "id" field: a hash created by set_status or set_message_id has neither. *)
(***************************************************************************)
HasTtl(db, id) == db[id] # None /\ db[id].id = id

-----------------------------------------------------------------------------
\* mark_event_once: SET NX EX; the caller is told whether the key was new.
IsNew(seen, id, event) == <<id, event>> \notin seen

\* Mutant: the key is never written, so every delivery is new.
MarkEventOnce_NoKey(seen, id, event) == seen

MarkEventOnce(seen, id, event) == seen \cup {<<id, event>>}

\* Mutant: the key survives.
UnmarkEvent_Keeps(seen, id, event) == seen

UnmarkEvent(seen, id, event) == seen \ {<<id, event>>}

-----------------------------------------------------------------------------
\* Mutant: SET without NX, every caller gets the lock.
LockFree_Always(lk, id) == TRUE

LockFree(lk, id) == lk[id] = None

\* Mutant: the value is the same for every holder.
TryLock_SameToken(lk, id, token) ==
    IF LockFree(lk, id) THEN [lk EXCEPT ![id] = id] ELSE lk

\* try_lock: SET NX EX <token>.
TryLock(lk, id, token) ==
    IF LockFree(lk, id) THEN [lk EXCEPT ![id] = token] ELSE lk

\* Mutant: DEL without comparing the token.
ReleaseLock_AnyToken(lk, id, token) == [lk EXCEPT ![id] = None]

\* release_lock: the Lua script deletes the key only if it holds our token.
ReleaseLock(lk, id, token) ==
    IF lk[id] = token THEN [lk EXCEPT ![id] = None] ELSE lk
=============================================================================
