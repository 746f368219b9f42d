------------------------------ MODULE MCStores ------------------------------
(***************************************************************************)
(* Instance of Stores for TLC: one incident and three clients, of which    *)
(* one has a clock that is ahead, by as much as the lease and the delay of *)
(* a SET allow.                                                            *)
(***************************************************************************)
EXTENDS Stores, TLC

CONSTANTS i1, c1, c2, c3, m1

Make(status, message, at) ==
    [f \in FieldNames |->
        CASE f = "id"     -> i1
          [] f = "status" -> status
          [] f = "chat_id"    -> IF message = None THEN None ELSE ChatId
          [] f = "message_id" -> message
          [] f \in {"acknowledged_at", "acknowledged_by"} -> at
          [] OTHER -> None]

\* A new incident, a reopened one with its message, an acknowledged one.
SomeWrites == {Make("started", None, None), Make("started", m1, None),
               Make("acknowledged", m1, "at")}

\* Two of the clients have the same clock.
Symmetry == Permutations({c2, c3})

SomeSkew == [c \in Clients |-> IF c = c1 THEN 1 ELSE 0]

(***************************************************************************)
(* No command touches both a lock and a record or dedup key, so a history  *)
(* is two, each of which TLC explores alone.                               *)
(***************************************************************************)
RecordsOrLocks ==
    \/ asks = [c \in Clients |-> None] /\ guards = [c \in Clients |-> None]
       /\ lockKeys = [id \in Incidents |-> NoLock]
    \/ hashes = [id \in Incidents |-> NoFields]
       /\ memIncidents = [id \in Incidents |-> None]
       /\ dedupKeys = [key \in Incidents \X Events |-> 0]
=============================================================================
