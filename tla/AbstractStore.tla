---------------------------- MODULE AbstractStore ----------------------------
(***************************************************************************)
(* The store as the handlers of Bot see it: records, dedup keys and locks, *)
(* with no fields, texts, deadlines or clock.  One action per method of    *)
(* the trait, with the arguments of the call and, where a handler goes by  *)
(* it, the answer; each is the operator of RedisStore that Bot has there,  *)
(* and changes nothing else.  Time takes away what may expire: a record    *)
(* that has a TTL, a dedup key, a lock, several of them at one moment.     *)
(* Who calls what and when is Bot's, and Stores', so there is no Next.     *)
(***************************************************************************)
EXTENDS RedisStore

VARIABLES db, seen, lk
vars == <<db, seen, lk>>

Init == /\ db   = [id \in Incidents |-> None]
        /\ seen = {}
        /\ lk   = [id \in Incidents |-> None]

WriteRecord(r) == /\ db' = Upsert(db, r)
                  /\ UNCHANGED <<seen, lk>>

WriteMessageId(id, chat, message) ==
    /\ db' = SetMessageId(db, id, chat, message)
    /\ UNCHANGED <<seen, lk>>

WriteStatus(id, status) == /\ db' = SetStatus(db, id, status)
                           /\ UNCHANGED <<seen, lk>>

\* `new` is the answer.
Mark(id, event, new) == /\ new = IsNew(seen, id, event)
                        /\ seen' = MarkEventOnce(seen, id, event)
                        /\ UNCHANGED <<db, lk>>

Unmark(id, event) == /\ seen' = UnmarkEvent(seen, id, event)
                     /\ UNCHANGED <<db, lk>>

\* `acquired`: the answer is a guard.
Lock(id, token, acquired) == /\ acquired = LockFree(lk, id)
                             /\ lk' = TryLock(lk, id, token)
                             /\ UNCHANGED <<db, seen>>

Unlock(id, token) == /\ lk' = ReleaseLock(lk, id, token)
                     /\ UNCHANGED <<db, seen>>

Expire == /\ \A id \in Incidents : /\ db'[id] = db[id] \/ (HasTtl(db, id) /\ db'[id] = None)
                                   /\ lk'[id] \in {lk[id], None}
          /\ seen' \subseteq seen
=============================================================================
