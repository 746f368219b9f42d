------------------------------ MODULE RedisKeys ------------------------------
(***************************************************************************)
(* RedisStore (src/storage/redis.rs) command by command: hashes of text    *)
(* fields with or without a deadline, dedup and lock keys with one.  A key *)
(* whose deadline has come is absent for every command.                    *)
(***************************************************************************)
EXTENDS StoreTypes

VARIABLES
    hashes,      \* <prefix>:incident:<id>, the fields by name; none: no key
    hashTtl,     \* its deadline, None if it has none
    dedupKeys,   \* <prefix>:dedup:<id>:<event>, its deadline; 0: no key
    lockKeys     \* <prefix>:lock:<id>, its value and deadline; 0: no key

redisVars == <<hashes, hashTtl, dedupKeys, lockKeys>>

CONSTANT Error   \* AppError, as the answer of a call

(***************************************************************************)
(* Everything is stored as text.  A string is its own text, a status the   *)
(* text serde_json makes of it, with its quotes, a number its digits; each *)
(* is read only as what it was written as.                                 *)
(***************************************************************************)
Plain(value)   == [how |-> "plain",   of |-> value]
Json(value)    == [how |-> "json",    of |-> value]
Decimal(value) == [how |-> "decimal", of |-> value]

\* serde_json::from_str, parse::<i64>, parse::<i32>, and cloned for a string.
Parse(f, text) ==
    CASE f = "status"     -> IF text \in {Json(s) : s \in Statuses} THEN text.of ELSE Error
      [] f = "chat_id"    -> IF text \in {Decimal(n) : n \in Messages \cup {ChatId}}
                             THEN text.of ELSE Error
      [] f = "message_id" -> IF text \in {Decimal(n) : n \in Messages} THEN text.of ELSE Error
      [] OTHER            -> IF text = Plain(text.of) THEN text.of ELSE text

FieldText(f, value) == CASE f = "status" -> Json(value)
                         [] f \in {"chat_id", "message_id"} -> Decimal(value)
                         [] OTHER -> Plain(value)

\* record_to_fields: an optional field without a value is not written.
RecordToFields(r) ==
    [f \in {g \in FieldNames : g \in Optional => r[g] # None} |-> FieldText(f, r[f])]

\* fields_to_record: an absent field takes its default, one that does not parse is an error.
FieldsToRecord(hash) ==
    LET record == [f \in FieldNames |-> IF f \in DOMAIN hash THEN Parse(f, hash[f])
                                                             ELSE Default[f]]
    IN  IF \E f \in FieldNames : record[f] = Error THEN Error ELSE record

NoFields == [f \in {} |-> Plain(None)]

\* Mutant: Duration::as_secs as it is, and 0 stays 0.
TtlSecs_Zero(ttl) == ttl

TtlSecs(ttl) == IF ttl < 1 THEN 1 ELSE ttl

\* `as i64`: the upper half of a u64 becomes negative.
AsI64(n) == IF n > I64Max THEN n - 2 * (I64Max + 1) ELSE n

(***************************************************************************)
(* EXPIRE.  Redis keeps a deadline as an i64 of milliseconds and refuses   *)
(* one that would not fit; a deadline in the past deletes the key.         *)
(***************************************************************************)
MaxDeadline   == I64Max \div 1000
ExpireSecs    == AsI64(TtlSecs(IncidentTtl))
ExpireRefused == \/ ExpireSecs > MaxDeadline \/ ExpireSecs < -MaxDeadline
                 \/ now + ExpireSecs > MaxDeadline
ExpireDeletes == ~ExpireRefused /\ ExpireSecs <= 0

-----------------------------------------------------------------------------
HashExpired(id) == hashTtl[id] # None /\ hashTtl[id] <= now
Hash(id) == IF HashExpired(id) THEN NoFields ELSE hashes[id]

RedisGet(id) == IF Hash(id) = NoFields THEN None ELSE FieldsToRecord(Hash(id))

\* Mutant: the setters replace the hash.
HSet_Replaces(id, fields) ==
    /\ hashes'  = [hashes EXCEPT ![id] = fields]
    /\ hashTtl' = [hashTtl EXCEPT ![id] = IF Hash(id) = NoFields THEN None ELSE @]
    /\ UNCHANGED <<dedupKeys, lockKeys>>

\* HSET over what is there: an existing hash keeps its deadline, a new one has none.
HSet(id, fields) ==
    /\ hashes' = [hashes EXCEPT ![id] =
           [f \in DOMAIN Hash(id) \cup DOMAIN fields |->
               IF f \in DOMAIN fields THEN fields[f] ELSE Hash(id)[f]]]
    /\ hashTtl' = [hashTtl EXCEPT ![id] = IF Hash(id) = NoFields THEN None ELSE @]
    /\ UNCHANGED <<dedupKeys, lockKeys>>

\* Mutant: MULTI / HSET / EXPIRE / EXEC, without the DEL.
RedisUpsert_NoDel(r) ==
    /\ hashes' = [hashes EXCEPT ![r["id"]] =
           [f \in DOMAIN Hash(r["id"]) \cup DOMAIN RecordToFields(r) |->
               IF f \in DOMAIN RecordToFields(r) THEN RecordToFields(r)[f]
                                                 ELSE Hash(r["id"])[f]]]
    /\ hashTtl' = [hashTtl EXCEPT ![r["id"]] = now + ExpireSecs]
    /\ UNCHANGED <<dedupKeys, lockKeys>>

\* Mutant: MULTI / DEL / HSET / EXEC, without the EXPIRE.
RedisUpsert_NoExpire(r) ==
    /\ hashes'  = [hashes EXCEPT ![r["id"]] = RecordToFields(r)]
    /\ hashTtl' = [hashTtl EXCEPT ![r["id"]] = None]
    /\ UNCHANGED <<dedupKeys, lockKeys>>

\* MULTI / DEL / HSET / EXPIRE / EXEC: if the EXPIRE is refused, the rest is done all the same.
RedisUpsert(r) ==
    /\ hashes'  = [hashes EXCEPT ![r["id"]] =
                      IF ExpireDeletes THEN NoFields ELSE RecordToFields(r)]
    /\ hashTtl' = [hashTtl EXCEPT ![r["id"]] =
                      IF ExpireDeletes \/ ExpireRefused THEN None ELSE now + ExpireSecs]
    /\ UNCHANGED <<dedupKeys, lockKeys>>

RedisSetMessageId(id, chat, message) ==
    HSet(id, [chat_id |-> Decimal(chat), message_id |-> Decimal(message)])

\* Only an actor that is given is written.
StatusFields(text, status, actor, at) ==
    LET fields == CASE status = "acknowledged" -> [status |-> text, acknowledged_at |-> Plain(at),
                                                   acknowledged_by |-> Plain(actor)]
                    [] status = "resolved"     -> [status |-> text, resolved_at |-> Plain(at),
                                                   resolved_by |-> Plain(actor)]
                    [] OTHER                   -> [status |-> text]
    IN  [f \in {g \in DOMAIN fields : fields[g] # Plain(None)} |-> fields[f]]

\* Mutant: the status as as_str has it, not as serde_json has it.
RedisSetStatus_AsStr(id, status, actor, at) ==
    HSet(id, StatusFields(Plain(status), status, actor, at))

RedisSetStatus(id, status, actor, at) ==
    HSet(id, StatusFields(Json(status), status, actor, at))

-----------------------------------------------------------------------------
RedisIsNew(id, event) == dedupKeys[<<id, event>>] <= now

\* SET NX EX.
RedisMarkEvent(id, event) ==
    /\ dedupKeys' = IF RedisIsNew(id, event)
                    THEN [dedupKeys EXCEPT ![<<id, event>>] = now + TtlSecs(DedupTtl)]
                    ELSE dedupKeys
    /\ UNCHANGED <<hashes, hashTtl, lockKeys>>

RedisUnmarkEvent(id, event) ==
    /\ dedupKeys' = [dedupKeys EXCEPT ![<<id, event>>] = 0]
    /\ UNCHANGED <<hashes, hashTtl, lockKeys>>

NoLock == [token |-> 0, until |-> 0]

RedisLockFree(id) == lockKeys[id].until <= now

\* SET NX EX.
RedisTryLock(id, token) ==
    /\ lockKeys' = IF RedisLockFree(id)
                   THEN [lockKeys EXCEPT ![id] =
                            [token |-> token, until |-> now + TtlSecs(LockTtl)]]
                   ELSE lockKeys
    /\ UNCHANGED <<hashes, hashTtl, dedupKeys>>

\* Mutant: DEL, whoever holds the lock.
RedisReleaseLock_AnyToken(id, token) ==
    /\ lockKeys' = [lockKeys EXCEPT ![id] = NoLock]
    /\ UNCHANGED <<hashes, hashTtl, dedupKeys>>

\* The script: GET, compare, DEL.
RedisReleaseLock(id, token) ==
    /\ lockKeys' = IF ~RedisLockFree(id) /\ lockKeys[id].token = token
                   THEN [lockKeys EXCEPT ![id] = NoLock]
                   ELSE lockKeys
    /\ UNCHANGED <<hashes, hashTtl, dedupKeys>>

RedisInit ==
    /\ hashes  = [id \in Incidents |-> NoFields]
    /\ hashTtl = [id \in Incidents |-> None]
    /\ dedupKeys = [key \in Incidents \X Events |-> 0]
    /\ lockKeys  = [id \in Incidents |-> NoLock]
=============================================================================
