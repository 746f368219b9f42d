---------------------------- MODULE StoreProofs -----------------------------
(***************************************************************************)
(* Proofs about Stores, for all records, clients, clocks and delays, and   *)
(* every time to live that Redis takes: the holder of a lock is alone      *)
(* within its lease when the readings of the clocks are close, the double  *)
(* agrees with Redis, and the commands are the operators Bot is built of.  *)
(***************************************************************************)
EXTENDS Stores, TLAPS

LEMMA TtlOfLock == TtlSecs(LockTtl) = LockTtl /\ TtlSecs(DedupTtl) = DedupTtl
BY TtlAssumption DEF TtlSecs

LEMMA SettersWriteHashes ==
  ASSUME NEW id
  PROVE  /\ \A chat, message : RedisSetMessageId(id, chat, message)
                              => UNCHANGED <<dedupKeys, lockKeys>>
         /\ \A status, actor, at : RedisSetStatus(id, status, actor, at)
                                  => UNCHANGED <<dedupKeys, lockKeys>>
<1>1. \A fields : HSet(id, fields) => UNCHANGED <<dedupKeys, lockKeys>>
  BY DEF HSet
<1> QED
  BY <1>1 DEF RedisSetMessageId, RedisSetStatus

-----------------------------------------------------------------------------
(***************************************************************************)
(* The lease.  AloneInLease is not inductive: release_lock frees the lock  *)
(* of another whose token is the same.  Tokens differ because guards on    *)
(* the same incident were taken at least one lease apart (Apart), and a    *)
(* token is the time on a replica's clock at most a delay earlier (Taken). *)
(***************************************************************************)
Guards == [incident : Incidents, token : Nat, at : Nat]

LeaseTypes ==
    /\ now \in Nat
    /\ asks \in [Clients -> Guards \cup {None}]
    /\ guards \in [Clients -> Guards \cup {None}]
    /\ lockKeys \in [Incidents -> [token : Nat, until : Nat]]

\* Who asks has no guard; an ask knows when its token was read, a guard when it was taken.
Taken ==
    \A c \in Clients :
        /\ asks[c] # None => /\ guards[c] = None /\ asks[c].at <= now
                             /\ asks[c].token = asks[c].at + Skew[c]
        /\ guards[c] # None => /\ guards[c].at <= now
                               /\ guards[c].token <= guards[c].at + Skew[c]
                               /\ guards[c].at + Skew[c] <= guards[c].token + MaxDelay

\* Within the lease the key is the one the guard stands for.
KeyIsHeld ==
    \A c \in Clients : InLease(c) =>
        lockKeys[guards[c].incident] = [token |-> guards[c].token,
                                        until |-> guards[c].at + LockTtl]

Apart ==
    \A c, d \in Clients :
        /\ guards[c] # None /\ guards[d] # None
        /\ c # d /\ guards[c].incident = guards[d].incident
        => \/ guards[c].at + LockTtl <= guards[d].at
           \/ guards[d].at + LockTtl <= guards[c].at

LeaseInv == LeaseTypes /\ Taken /\ (ReadingsClose => KeyIsHeld /\ Apart)

LEMMA LeaseInit == Init => LeaseInv
BY DEF Init, RedisInit, NoLock, LeaseInv, LeaseTypes, Taken, KeyIsHeld, Apart, InLease

LEMMA ReadingsConstant == ReadingsClose' <=> ReadingsClose
BY DEF ReadingsClose

\* A step that moves neither guards nor lock keys, and time only forward.
LEMMA LeaseIdle ==
  ASSUME LeaseInv, UNCHANGED <<guards, asks, lockKeys>>, now' \in Nat, now' >= now
  PROVE  LeaseInv'
<1>1. LeaseTypes'
  BY DEF LeaseInv, LeaseTypes
<1>2. Taken'
  BY DEF LeaseInv, LeaseTypes, Taken, Guards
<1>3. \A c \in Clients : InLease(c)' => InLease(c)
  BY TtlAssumption DEF LeaseInv, LeaseTypes, InLease, Guards
<1>4. ReadingsClose => KeyIsHeld' /\ Apart'
  BY <1>3 DEF LeaseInv, KeyIsHeld, Apart
<1> QED
  BY <1>1, <1>2, <1>4, ReadingsConstant DEF LeaseInv

\* An ask goes, and no guard comes of it.
LEMMA AskEnded ==
  ASSUME LeaseInv, NEW c \in Clients, asks' = [asks EXCEPT ![c] = None],
         UNCHANGED <<guards, lockKeys, now>>
  PROVE  LeaseInv'
<1>1. LeaseTypes'
  BY DEF LeaseInv, LeaseTypes
<1>2. Taken'
  BY DEF LeaseInv, LeaseTypes, Taken
<1>3. ReadingsClose => KeyIsHeld' /\ Apart'
  BY DEF LeaseInv, KeyIsHeld, Apart, InLease
<1> QED
  BY <1>1, <1>2, <1>3, ReadingsConstant DEF LeaseInv

\* lock_token: what is read is the time.
LEMMA LeaseAsked ==
  ASSUME LeaseInv, NEW c \in Clients, NEW id \in Incidents, ReadClock(c, id)
  PROVE  LeaseInv'
<1> DEFINE ask == [incident |-> id, token |-> now + Skew[c], at |-> now]
<1>1. /\ asks' = [asks EXCEPT ![c] = ask] /\ guards[c] = None
      /\ UNCHANGED <<now, lockKeys, guards>> /\ now \in Nat
  BY DEF ReadClock, redisVars, LeaseInv, LeaseTypes
<1>2. ask \in Guards
  BY <1>1, ClientsAssumption DEF Guards
<1>3. LeaseTypes'
  BY <1>1, <1>2 DEF LeaseInv, LeaseTypes
<1>4. Taken'
  BY <1>1 DEF LeaseInv, LeaseTypes, Taken
<1>5. ReadingsClose => KeyIsHeld' /\ Apart'
  BY <1>1 DEF LeaseInv, KeyIsHeld, Apart, InLease
<1> QED
  BY <1>3, <1>4, <1>5, ReadingsConstant DEF LeaseInv

\* When the key is free, every guard on the incident has had its lease.
LEMMA LeasesOver ==
  ASSUME LeaseInv, ReadingsClose, NEW id \in Incidents, RedisLockFree(id),
         NEW d \in Clients, guards[d] # None, guards[d].incident = id
  PROVE  guards[d].at + LockTtl <= now
<1>1. ~InLease(d)
  <2> SUFFICES ASSUME InLease(d) PROVE FALSE
    OBVIOUS
  <2>1. lockKeys[id] = [token |-> guards[d].token, until |-> guards[d].at + LockTtl]
    BY DEF LeaseInv, KeyIsHeld
  <2>2. lockKeys[id].until = guards[d].at + LockTtl
    BY <2>1
  <2>3. guards[d].at \in Nat /\ now \in Nat /\ LockTtl \in Nat
    BY TtlAssumption DEF InLease, LeaseInv, LeaseTypes, Guards
  <2> QED
    BY <2>2, <2>3 DEF RedisLockFree, InLease
<1> QED
  BY <1>1, TtlAssumption DEF InLease, LeaseInv, LeaseTypes, Guards

\* What the SET of try_lock makes of a free key.
LEMMA LockIsTaken ==
  ASSUME LeaseInv, NEW c \in Clients, TryLockCall(c), RedisLockFree(asks[c].incident)
  PROVE  LET id == asks[c].incident
             guard == [incident |-> id, token |-> asks[c].token, at |-> now]
             key   == [token |-> asks[c].token, until |-> now + LockTtl]
         IN  /\ now' = now /\ now \in Nat /\ id \in Incidents /\ asks[c].token \in Nat
             /\ guards' = [guards EXCEPT ![c] = guard]
             /\ lockKeys' = [lockKeys EXCEPT ![id] = key]
             /\ asks' = [asks EXCEPT ![c] = None]
             /\ guard \in Guards /\ key \in [token : Nat, until : Nat]
             /\ asks[c].token <= now + Skew[c]
             /\ now + Skew[c] <= asks[c].token + MaxDelay
<1> DEFINE id == asks[c].incident
           guard == [incident |-> id, token |-> asks[c].token, at |-> now]
           key   == [token |-> asks[c].token, until |-> now + LockTtl]
<1>1. /\ now' = now /\ now \in Nat
      /\ id \in Incidents /\ asks[c].token \in Nat /\ asks[c].at \in Nat
  BY DEF TryLockCall, LeaseInv, LeaseTypes, Guards
<1>2. guards' = [guards EXCEPT ![c] = guard] /\ asks' = [asks EXCEPT ![c] = None]
  BY DEF TryLockCall
<1>3. lockKeys' = [lockKeys EXCEPT ![id] = key]
  BY TtlOfLock DEF TryLockCall, RedisTryLock
<1>4. guard \in Guards /\ key \in [token : Nat, until : Nat]
  BY <1>1, TtlAssumption DEF Guards
<1>5. /\ asks[c].at <= now /\ asks[c].token = asks[c].at + Skew[c]
      /\ now <= asks[c].at + MaxDelay
  BY DEF TryLockCall, LeaseInv, Taken
<1>6. /\ asks[c].token <= now + Skew[c]
      /\ now + Skew[c] <= asks[c].token + MaxDelay
  BY <1>1, <1>5, ClientsAssumption
<1> QED
  BY <1>1, <1>2, <1>3, <1>4, <1>6

\* try_lock finds no live key, so no other guard on the incident is in its lease.
LEMMA LeaseTaken ==
  ASSUME LeaseInv, NEW c \in Clients, TryLockCall(c), RedisLockFree(asks[c].incident)
  PROVE  LeaseInv'
<1> DEFINE id == asks[c].incident
           guard == [incident |-> id, token |-> asks[c].token, at |-> now]
           key   == [token |-> asks[c].token, until |-> now + LockTtl]
<1>1. /\ now' = now /\ now \in Nat /\ id \in Incidents /\ asks[c].token \in Nat
      /\ guards' = [guards EXCEPT ![c] = guard]
      /\ lockKeys' = [lockKeys EXCEPT ![id] = key]
      /\ asks' = [asks EXCEPT ![c] = None]
  BY LockIsTaken
<1>2. /\ guard \in Guards /\ key \in [token : Nat, until : Nat]
      /\ asks[c].token <= now + Skew[c]
      /\ now + Skew[c] <= asks[c].token + MaxDelay
  BY LockIsTaken
<1> HIDE DEF id
<1>3. LeaseTypes'
  BY <1>1, <1>2 DEF LeaseInv, LeaseTypes
<1>4. Taken'
  <2> SUFFICES ASSUME NEW d \in Clients
               PROVE  /\ asks'[d] # None => /\ guards'[d] = None /\ asks'[d].at <= now
                                            /\ asks'[d].token = asks'[d].at + Skew[d]
                      /\ guards'[d] # None => /\ guards'[d].at <= now
                                              /\ guards'[d].token <= guards'[d].at + Skew[d]
                                              /\ guards'[d].at + Skew[d]
                                                 <= guards'[d].token + MaxDelay
    BY <1>1 DEF Taken
  <2>1. CASE d = c
    BY <1>1, <1>2, <2>1 DEF LeaseInv, LeaseTypes
  <2>2. CASE d # c
    BY <1>1, <2>2 DEF LeaseInv, LeaseTypes, Taken
  <2> QED
    BY <2>1, <2>2
<1>5. ASSUME ReadingsClose, NEW d \in Clients, d # c, guards[d] # None, guards[d].incident = id
      PROVE  guards[d].at + LockTtl <= now
  BY <1>1, <1>5, LeasesOver DEF id
<1>6. ASSUME ReadingsClose PROVE KeyIsHeld'
  <2> SUFFICES ASSUME NEW d \in Clients, InLease(d)'
               PROVE  lockKeys'[guards'[d].incident]
                      = [token |-> guards'[d].token, until |-> guards'[d].at + LockTtl]
    BY DEF KeyIsHeld
  <2>1. CASE d = c
    BY <1>1, <2>1 DEF LeaseInv, LeaseTypes
  <2>2. CASE d # c
    <3>1. guards'[d] = guards[d] /\ InLease(d)
      BY <1>1, <2>2 DEF InLease, LeaseInv, LeaseTypes
    <3>2. guards[d] \in Guards
      BY <3>1 DEF InLease, LeaseInv, LeaseTypes
    <3>3. guards[d].incident # id
      BY <1>5, <1>6, <2>2, <3>1, <3>2, TtlAssumption DEF InLease, LeaseInv, LeaseTypes, Guards
    <3> QED
      BY <1>1, <1>6, <3>1, <3>2, <3>3 DEF LeaseInv, LeaseTypes, KeyIsHeld, Guards
  <2> QED
    BY <2>1, <2>2
<1>7. ASSUME ReadingsClose PROVE Apart'
  <2> SUFFICES ASSUME NEW d \in Clients, NEW e \in Clients, d # e,
                      guards'[d] # None, guards'[e] # None,
                      guards'[d].incident = guards'[e].incident
               PROVE  \/ guards'[d].at + LockTtl <= guards'[e].at
                      \/ guards'[e].at + LockTtl <= guards'[d].at
    BY DEF Apart
  <2>1. CASE d = c
    BY <1>1, <1>5, <1>7, <2>1 DEF LeaseInv, LeaseTypes
  <2>2. CASE e = c
    BY <1>1, <1>5, <1>7, <2>2 DEF LeaseInv, LeaseTypes
  <2>3. CASE d # c /\ e # c
    BY <1>1, <1>7, <2>3 DEF LeaseInv, LeaseTypes, Apart
  <2> QED
    BY <2>1, <2>2, <2>3
<1> QED
  BY <1>3, <1>4, <1>6, <1>7, ReadingsConstant DEF LeaseInv

\* A token belongs to one lease.
LEMMA TokensDiffer ==
  ASSUME ReadingsClose, NEW c \in Clients, NEW d \in Clients,
         NEW s \in Nat, NEW t \in Nat, NEW at \in Nat, NEW later \in Nat,
         s <= at + Skew[c], later + Skew[d] <= t + MaxDelay, at + LockTtl <= later
  PROVE  s # t
<1>1. Skew[c] + MaxDelay < Skew[d] + LockTtl
  BY DEF ReadingsClose
<1>2. Skew[c] \in Nat /\ Skew[d] \in Nat /\ MaxDelay \in Nat /\ LockTtl \in Nat
  BY ClientsAssumption, TtlAssumption
<1> QED
  BY <1>1, <1>2

\* A guard goes; its key goes too, or stays.
LEMMA LeaseEnded ==
  ASSUME LeaseInv, NEW c \in Clients, guards[c] # None, now' = now, asks' = asks,
         guards' = [guards EXCEPT ![c] = None],
         \/ lockKeys' = lockKeys
         \/ /\ lockKeys' = [lockKeys EXCEPT ![guards[c].incident] = NoLock]
            /\ lockKeys[guards[c].incident].token = guards[c].token
  PROVE  LeaseInv'
<1>1. guards[c] \in Guards /\ now \in Nat
  BY DEF LeaseInv, LeaseTypes
<1>2. LeaseTypes'
  BY <1>1 DEF LeaseInv, LeaseTypes, NoLock, Guards
<1>3. \A d \in Clients : guards'[d] # None => d # c /\ guards'[d] = guards[d]
  BY DEF LeaseInv, LeaseTypes
<1>4. Taken'
  BY <1>3 DEF LeaseInv, Taken
<1>5. ASSUME ReadingsClose PROVE Apart'
  BY <1>3, <1>5 DEF LeaseInv, Apart
<1>6. ASSUME ReadingsClose PROVE KeyIsHeld'
  <2> SUFFICES ASSUME NEW d \in Clients, InLease(d)'
               PROVE  lockKeys'[guards'[d].incident]
                      = [token |-> guards'[d].token, until |-> guards'[d].at + LockTtl]
    BY DEF KeyIsHeld
  <2>1. d # c /\ guards'[d] = guards[d] /\ InLease(d) /\ guards[d] \in Guards
    BY <1>3 DEF InLease, LeaseInv, LeaseTypes
  <2>2. lockKeys[guards[d].incident] = [token |-> guards[d].token,
                                        until |-> guards[d].at + LockTtl]
    BY <1>6, <2>1 DEF LeaseInv, KeyIsHeld
  <2>3. lockKeys'[guards[d].incident] = lockKeys[guards[d].incident]
    <3>1. CASE guards[d].incident # guards[c].incident \/ lockKeys' = lockKeys
      BY <1>1, <2>1, <3>1 DEF LeaseInv, LeaseTypes, Guards
    <3>2. CASE /\ guards[d].incident = guards[c].incident
               /\ lockKeys[guards[c].incident].token = guards[c].token
      <4>1. guards[d].token = guards[c].token
        BY <2>2, <3>2
      <4>2. /\ guards[c].token <= guards[c].at + Skew[c]
            /\ guards[c].at + Skew[c] <= guards[c].token + MaxDelay
            /\ guards[d].token <= guards[d].at + Skew[d]
            /\ guards[d].at + Skew[d] <= guards[d].token + MaxDelay
        BY <2>1 DEF LeaseInv, Taken, InLease
      <4>3. \/ guards[c].at + LockTtl <= guards[d].at
            \/ guards[d].at + LockTtl <= guards[c].at
        BY <1>6, <2>1, <3>2 DEF LeaseInv, Apart, InLease
      <4>4. /\ guards[c].at \in Nat /\ guards[d].at \in Nat
            /\ guards[c].token \in Nat /\ guards[d].token \in Nat
        BY <1>1, <2>1 DEF Guards
      <4> QED
        BY <1>6, <4>1, <4>2, <4>3, <4>4, TokensDiffer
    <3> QED
      BY <3>1, <3>2
  <2> QED
    BY <2>1, <2>2, <2>3
<1> QED
  BY <1>2, <1>4, <1>5, <1>6, ReadingsConstant DEF LeaseInv

LEMMA LeaseNext == LeaseInv /\ [Next]_vars => LeaseInv'
<1> SUFFICES ASSUME LeaseInv, [Next]_vars PROVE LeaseInv'
  OBVIOUS
<1>0. now \in Nat
  BY DEF LeaseInv, LeaseTypes
<1>1. CASE UNCHANGED vars
  BY <1>0, <1>1, LeaseIdle DEF vars, redisVars
<1>2. CASE Tick
  BY <1>0, <1>2, LeaseIdle DEF Tick, redisVars
<1>3. CASE \E r \in Writes : UpsertCall(r)
  BY <1>0, <1>3, LeaseIdle DEF UpsertCall, RedisUpsert
<1>4. ASSUME NEW id \in Incidents,
             \/ \E message \in Messages : SetMessageIdCall(id, message)
             \/ \E status \in Statuses, name \in Names, at \in Stamps :
                   SetStatusCall(id, status, name, at)
      PROVE  LeaseInv'
  BY <1>0, <1>4, LeaseIdle, SettersWriteHashes
     DEF SetMessageIdCall, SetStatusCall
<1>5. ASSUME NEW id \in Incidents, NEW event \in Delivered,
             MarkEventCall(id, event) \/ UnmarkEventCall(id, event)
      PROVE  LeaseInv'
  BY <1>0, <1>5, LeaseIdle
     DEF MarkEventCall, UnmarkEventCall, RedisMarkEvent, RedisUnmarkEvent
<1>6. ASSUME NEW c \in Clients, TryLockCall(c) PROVE LeaseInv'
  <2>1. CASE RedisLockFree(asks[c].incident)
    BY <1>6, <2>1, LeaseTaken
  <2>2. CASE ~RedisLockFree(asks[c].incident)
    <3>1. /\ asks' = [asks EXCEPT ![c] = None]
          /\ UNCHANGED <<guards, lockKeys, now>>
      BY <1>6, <2>2 DEF TryLockCall, RedisTryLock
    <3> QED
      BY <3>1, AskEnded
  <2> QED
    BY <2>1, <2>2
<1>7. ASSUME NEW c \in Clients, ReleaseLockCall(c) PROVE LeaseInv'
  BY <1>7, LeaseEnded DEF ReleaseLockCall, RedisReleaseLock
<1>8. ASSUME NEW c \in Clients, DropGuard(c) PROVE LeaseInv'
  BY <1>8, LeaseEnded DEF DropGuard, redisVars
<1>9. ASSUME NEW c \in Clients, DropAsk(c) PROVE LeaseInv'
  <2>1. /\ asks' = [asks EXCEPT ![c] = None]
        /\ UNCHANGED <<guards, lockKeys, now>>
    BY <1>9 DEF DropAsk, redisVars
  <2> QED
    BY <2>1, AskEnded
<1>10. ASSUME NEW c \in Clients, NEW id \in Incidents, ReadClock(c, id) PROVE LeaseInv'
  BY <1>10, LeaseAsked
<1> QED
  BY <1>1, <1>2, <1>3, <1>4, <1>5, <1>6, <1>7, <1>8, <1>9, <1>10 DEF Next

(***************************************************************************)
(* However many clients there are and whatever the lease is: as long as    *)
(* clocks and the delays between lock_token and the SET differ by less     *)
(* than a lease, at most one client is within its lease on an incident     *)
(* (try_lock, release_lock, lock_token).                                   *)
(***************************************************************************)
THEOREM LeaseIsExclusive == Spec => []AloneInLease
<1>1. LeaseInv => AloneInLease
  <2> SUFFICES ASSUME LeaseInv, ReadingsClose, NEW c \in Clients, NEW d \in Clients,
                      InLease(c), InLease(d), guards[c].incident = guards[d].incident, c # d
               PROVE  FALSE
    BY DEF AloneInLease
  <2>1. guards[c] \in Guards /\ guards[d] \in Guards /\ now \in Nat /\ LockTtl \in Nat
    BY TtlAssumption DEF InLease, LeaseInv, LeaseTypes
  <2>2. guards[c].at <= now /\ guards[d].at <= now
    BY DEF InLease, LeaseInv, Taken
  <2>3. \/ guards[c].at + LockTtl <= guards[d].at
        \/ guards[d].at + LockTtl <= guards[c].at
    BY DEF InLease, LeaseInv, Apart
  <2> QED
    BY <2>1, <2>2, <2>3 DEF InLease, Guards
<1> QED
  BY <1>1, LeaseInit, LeaseNext, PTL DEF Spec

LEMMA LeaseAlways == Spec => []LeaseInv
BY LeaseInit, LeaseNext, PTL DEF Spec

-----------------------------------------------------------------------------
(***************************************************************************)
(* Records and hashes.  A hash is one whose texts are those of values of   *)
(* the type of their field.                                                *)
(***************************************************************************)
HashOK(h) == /\ DOMAIN h \subseteq FieldNames
             /\ h = [f \in DOMAIN h |-> h[f]]
             /\ \A f \in DOMAIN h : \E v \in FieldValues(f) : h[f] = FieldText(f, v)

LEMMA ValuesOK ==
  ASSUME NEW f \in FieldNames, NEW v \in FieldValues(f)
  PROVE  v \in Values /\ v # None /\ v # Error
<1>1. v \in Values
  BY DEF Values
<1> QED
  BY <1>1, NoneAssumption

\* What is written as the text of its field is read as what it was.
LEMMA ParseInverse ==
  ASSUME NEW f \in FieldNames, NEW v \in FieldValues(f)
  PROVE  Parse(f, FieldText(f, v)) = v
<1>1. CASE f = "status"
  BY <1>1 DEF FieldValues, FieldText, Parse, Json
<1>2. CASE f = "chat_id"
  BY <1>2 DEF FieldValues, FieldText, Parse, Decimal
<1>3. CASE f = "message_id"
  BY <1>3 DEF FieldValues, FieldText, Parse, Decimal
<1>4. CASE f \notin {"status", "chat_id", "message_id"}
  BY <1>4 DEF FieldText, Parse, Plain
<1> QED
  BY <1>1, <1>2, <1>3, <1>4

LEMMA DefaultsOK ==
  /\ \A f \in FieldNames : Default[f] \in Values \cup {None} /\ Default[f] # Error
  /\ Default["id"] = EmptyId /\ Default["status"] = "started"
  /\ \A f \in Optional : Default[f] = None
<1>1. /\ Default["id"] = EmptyId /\ Default["status"] = "started"
      /\ \A f \in Optional : Default[f] = None
  BY DEF Default, FieldNames, Optional
<1>2. EmptyId \in Values /\ "started" \in Values
  BY ValuesOK DEF FieldNames, FieldValues, Keys, Statuses
<1>3. \A f \in FieldNames : Default[f] \in Values \cup {None}
  BY <1>1, <1>2 DEF FieldNames
<1> QED
  BY <1>1, <1>3, NoneAssumption

Decoded(h) ==
    [f \in FieldNames |-> IF f \in DOMAIN h THEN Parse(f, h[f]) ELSE Default[f]]

\* A hash is read as a record, and without an error; one with an id is not empty.
LEMMA DecodedOK ==
  ASSUME NEW h, HashOK(h)
  PROVE  /\ FieldsToRecord(h) = Decoded(h)
         /\ FieldsToRecord(h) \in AnyRecord
         /\ FieldsToRecord(h) # None /\ FieldsToRecord(h) # Error
         /\ "id" \in DOMAIN h => h # NoFields
<1>1. "id" \in DOMAIN h => h # NoFields
  BY DEF NoFields
<1>2. \A f \in FieldNames : Decoded(h)[f] \in Values \cup {None} /\ Decoded(h)[f] # Error
  <2> SUFFICES ASSUME NEW f \in FieldNames
               PROVE  Decoded(h)[f] \in Values \cup {None} /\ Decoded(h)[f] # Error
    OBVIOUS
  <2>1. CASE f \in DOMAIN h
    <3>1. PICK v \in FieldValues(f) : h[f] = FieldText(f, v)
      BY <2>1 DEF HashOK
    <3>2. Decoded(h)[f] = v
      BY <2>1, <3>1, ParseInverse DEF Decoded
    <3> QED
      BY <3>2, ValuesOK
  <2>2. CASE f \notin DOMAIN h
    BY <2>2, DefaultsOK DEF Decoded
  <2> QED
    BY <2>1, <2>2
<1>3. Decoded(h) \in AnyRecord
  BY <1>2 DEF Decoded, AnyRecord
<1>4. FieldsToRecord(h) = Decoded(h)
  <2>1. FieldsToRecord(h) = IF \E f \in FieldNames : Decoded(h)[f] = Error
                            THEN Error ELSE Decoded(h)
    BY DEF FieldsToRecord, Decoded
  <2> QED
    BY <1>2, <2>1
<1> QED
  BY <1>1, <1>3, <1>4, NoneAssumption

\* record_to_fields writes a hash that fields_to_record reads back as it was.
LEMMA CodecInverse ==
  ASSUME NEW r \in Records
  PROVE  /\ HashOK(RecordToFields(r))
         /\ "id" \in DOMAIN RecordToFields(r) /\ RecordToFields(r)["id"] = Plain(r["id"])
         /\ FieldsToRecord(RecordToFields(r)) = r
<1>1. /\ r \in [FieldNames -> Values \cup {None}]
      /\ r["id"] \in FieldValues("id") /\ r["status"] \in FieldValues("status")
      /\ \A f \in Optional : r[f] \in FieldValues(f) \cup {None}
  BY DEF Records, AnyRecord, FieldValues, Keys
<1>2. DOMAIN RecordToFields(r) = {f \in FieldNames : f \in Optional => r[f] # None}
  BY DEF RecordToFields
<1>3. \A f \in DOMAIN RecordToFields(r) : RecordToFields(r)[f] = FieldText(f, r[f])
  BY DEF RecordToFields
<1>4. \A f \in DOMAIN RecordToFields(r) : r[f] \in FieldValues(f)
  BY <1>1, <1>2 DEF FieldNames
<1>5. HashOK(RecordToFields(r))
  BY <1>2, <1>3, <1>4 DEF HashOK, RecordToFields
<1>6. "id" \in DOMAIN RecordToFields(r) /\ RecordToFields(r)["id"] = Plain(r["id"])
  BY <1>2, <1>3 DEF FieldNames, Optional, FieldText
<1>7. \A f \in FieldNames : Decoded(RecordToFields(r))[f] = r[f]
  <2> SUFFICES ASSUME NEW f \in FieldNames
               PROVE  Decoded(RecordToFields(r))[f] = r[f]
    OBVIOUS
  <2>1. CASE f \in DOMAIN RecordToFields(r)
    BY <1>3, <1>4, <2>1, ParseInverse DEF Decoded
  <2>2. CASE f \notin DOMAIN RecordToFields(r)
    BY <1>2, <2>2, DefaultsOK DEF Decoded
  <2> QED
    BY <2>1, <2>2
<1>8. Decoded(RecordToFields(r)) = r
  BY <1>1, <1>7 DEF Decoded
<1> QED
  BY <1>5, <1>6, <1>8, DecodedOK

\* HSET of `changes` over h.
Merge(h, changes) ==
  [f \in DOMAIN h \cup DOMAIN changes |-> IF f \in DOMAIN changes THEN changes[f] ELSE h[f]]

Texts(changes) == [f \in DOMAIN changes |-> FieldText(f, changes[f])]

\* A setter changes in the text of a record what it changes in the record.
LEMMA MergeOK ==
  ASSUME NEW h, HashOK(h), NEW changes, DOMAIN changes \subseteq FieldNames,
         \A f \in DOMAIN changes : changes[f] \in FieldValues(f)
  PROVE  /\ HashOK(Merge(h, Texts(changes)))
         /\ FieldsToRecord(Merge(h, Texts(changes)))
            = [f \in FieldNames |-> IF f \in DOMAIN changes THEN changes[f]
                                    ELSE FieldsToRecord(h)[f]]
<1> DEFINE m == Merge(h, Texts(changes))
<1>1. /\ DOMAIN m = DOMAIN h \cup DOMAIN changes
      /\ \A f \in DOMAIN changes : m[f] = FieldText(f, changes[f])
      /\ \A f \in DOMAIN h \ DOMAIN changes : m[f] = h[f]
      /\ m = [f \in DOMAIN m |-> m[f]]
  BY DEF Merge, Texts
<1> HIDE DEF m
<1>2. HashOK(m)
  BY <1>1 DEF HashOK
<1>3. \A f \in FieldNames : Decoded(m)[f]
                            = IF f \in DOMAIN changes THEN changes[f] ELSE Decoded(h)[f]
  BY <1>1, ParseInverse DEF Decoded
<1>4. Decoded(m) = [f \in FieldNames |-> IF f \in DOMAIN changes THEN changes[f]
                                         ELSE Decoded(h)[f]]
  BY <1>3 DEF Decoded
<1> QED
  BY <1>2, <1>4, DecodedOK DEF m

\* The arguments of set_message_id and set_status, as changes to a record.
MessageChanges(message) == [chat_id |-> ChatId, message_id |-> message]

StatusChanges(status, name, at) ==
    CASE status = "acknowledged" -> [status |-> status, acknowledged_at |-> at,
                                     acknowledged_by |-> name]
      [] status = "resolved"     -> [status |-> status, resolved_at |-> at,
                                     resolved_by |-> name]
      [] OTHER                   -> [status |-> status]

ChangesOK(changes) == /\ DOMAIN changes \subseteq FieldNames \ {"id"}
                      /\ DOMAIN changes # {}
                      /\ \A f \in DOMAIN changes : changes[f] \in FieldValues(f)

LEMMA MessageChangesOK ==
  ASSUME NEW id \in Incidents, NEW message \in Messages
  PROVE  LET changes == MessageChanges(message) IN
         /\ ChangesOK(changes)
         /\ MemSetMessageId(id, ChatId, message) => Change(id, changes)
         /\ RedisSetMessageId(id, ChatId, message) => HSet(id, Texts(changes))
<1> DEFINE changes == MessageChanges(message)
<1>1. /\ DOMAIN changes = {"chat_id", "message_id"}
      /\ changes["chat_id"] = ChatId /\ changes["message_id"] = message
  BY DEF MessageChanges
<1>2. ChangesOK(changes)
  BY <1>1 DEF ChangesOK, FieldValues, FieldNames, Optional
<1>3. Texts(changes) = [chat_id |-> Decimal(ChatId), message_id |-> Decimal(message)]
  BY <1>1 DEF Texts, FieldText
<1>4. RedisSetMessageId(id, ChatId, message) => HSet(id, Texts(changes))
  BY <1>3 DEF RedisSetMessageId
<1>5. MemSetMessageId(id, ChatId, message) => Change(id, changes)
  BY DEF MemSetMessageId, MessageChanges
<1> QED
  BY <1>2, <1>4, <1>5

\* An actor and a timestamp that are given are written.
LEMMA StatusFieldsOK ==
  ASSUME NEW status \in Statuses, NEW name \in Names, NEW at \in Stamps
  PROVE  /\ StatusFields(Json(status), status, name, at) = Texts(StatusChanges(status, name, at))
         /\ ChangesOK(StatusChanges(status, name, at))
<1> DEFINE changes == StatusChanges(status, name, at)
           fields == StatusFields(Json(status), status, name, at)
<1>1. /\ status \in FieldValues("status")
      /\ name \in FieldValues("acknowledged_by") /\ name \in FieldValues("resolved_by")
      /\ at \in FieldValues("acknowledged_at") /\ at \in FieldValues("resolved_at")
  BY DEF FieldValues
<1>2. name # None /\ at # None
  BY <1>1, ValuesOK DEF FieldNames, Optional
<1>3. Json(status) # Plain(None) /\ Plain(name) # Plain(None) /\ Plain(at) # Plain(None)
  <2>1. Json(status).how = "json" /\ Plain(None).how = "plain"
    BY DEF Json, Plain
  <2>2. Plain(name).of = name /\ Plain(at).of = at /\ Plain(None).of = None
    BY DEF Plain
  <2> QED
    BY <1>2, <2>1, <2>2
<1>4. CASE status = "acknowledged"
  <2>1. changes = [status |-> status, acknowledged_at |-> at, acknowledged_by |-> name]
    BY <1>4 DEF StatusChanges
  <2>2. fields = [status |-> Json(status), acknowledged_at |-> Plain(at),
                  acknowledged_by |-> Plain(name)]
    BY <1>3, <1>4 DEF StatusFields
  <2>3. Texts(changes) = [status |-> Json(status), acknowledged_at |-> Plain(at),
                          acknowledged_by |-> Plain(name)]
    BY <2>1 DEF Texts, FieldText
  <2>4. ChangesOK(changes)
    BY <1>1, <2>1 DEF ChangesOK, FieldNames, Optional
  <2> QED
    BY <2>2, <2>3, <2>4
<1>5. CASE status = "resolved"
  <2>1. changes = [status |-> status, resolved_at |-> at, resolved_by |-> name]
    BY <1>5 DEF StatusChanges
  <2>2. fields = [status |-> Json(status), resolved_at |-> Plain(at),
                  resolved_by |-> Plain(name)]
    BY <1>3, <1>5 DEF StatusFields
  <2>3. Texts(changes) = [status |-> Json(status), resolved_at |-> Plain(at),
                          resolved_by |-> Plain(name)]
    BY <2>1 DEF Texts, FieldText
  <2>4. ChangesOK(changes)
    BY <1>1, <2>1 DEF ChangesOK, FieldNames, Optional
  <2> QED
    BY <2>2, <2>3, <2>4
<1>6. CASE status = "started"
  <2>1. changes = [status |-> status]
    BY <1>6 DEF StatusChanges
  <2>2. fields = [status |-> Json(status)]
    BY <1>3, <1>6 DEF StatusFields
  <2>3. Texts(changes) = [status |-> Json(status)]
    BY <2>1 DEF Texts, FieldText
  <2>4. ChangesOK(changes)
    BY <1>1, <2>1 DEF ChangesOK, FieldNames, Optional
  <2> QED
    BY <2>2, <2>3, <2>4
<1> QED
  BY <1>4, <1>5, <1>6 DEF Statuses

LEMMA StatusChangesOK ==
  ASSUME NEW id \in Incidents, NEW status \in Statuses, NEW name \in Names, NEW at \in Stamps
  PROVE  LET changes == StatusChanges(status, name, at) IN
         /\ ChangesOK(changes)
         /\ MemSetStatus(id, status, name, at) => Change(id, changes)
         /\ RedisSetStatus(id, status, name, at) => HSet(id, Texts(changes))
<1> DEFINE changes == StatusChanges(status, name, at)
<1>1. MemSetStatus(id, status, name, at) => Change(id, changes)
  BY DEF MemSetStatus, StatusChanges
<1>2. RedisSetStatus(id, status, name, at) => HSet(id, Texts(changes))
  BY StatusFieldsOK DEF RedisSetStatus
<1> QED
  BY <1>1, <1>2, StatusFieldsOK

-----------------------------------------------------------------------------
(***************************************************************************)
(* The two stores.  An incident whose key has a deadline was upserted and  *)
(* the double has its record; one whose key has none has no record, or a   *)
(* stray that a setter made.  This also holds of deadlines that have       *)
(* passed, on which what the next setter makes of the key depends.         *)
(***************************************************************************)
HashesTyped ==
    /\ hashes = [id \in Incidents |-> hashes[id]]
    /\ \A id \in Incidents : HashOK(hashes[id])
    /\ hashTtl = [id \in Incidents |-> hashTtl[id]]
    /\ TtlFits => hashTtl \in [Incidents -> Nat \cup {None}]
    /\ memIncidents = [id \in Incidents |-> memIncidents[id]]

RecordMatches(id) ==
    /\ hashTtl[id] = None => /\ "id" \notin DOMAIN hashes[id]
                             /\ hashes[id] = NoFields => memIncidents[id] = None
    /\ hashTtl[id] # None => /\ "id" \in DOMAIN hashes[id] /\ hashes[id]["id"] = Plain(id)
                             /\ memIncidents[id] = FieldsToRecord(hashes[id])

RecordsInv == HashesTyped /\ (TtlFits => \A id \in Incidents : RecordMatches(id))

(***************************************************************************)
(* A live lock is the same lease in both stores: in the double its token   *)
(* is the moment it was taken, in Redis a time read for it by some client. *)
(* A guard on its incident is its own, or older by a lease.                *)
(***************************************************************************)
SameLease(id) ==
    /\ memLocks[id].expires_at = lockKeys[id].until
    /\ memLocks[id].token + LockTtl = lockKeys[id].until
    /\ \E d \in Clients : memLocks[id].token + Skew[d] <= lockKeys[id].token + MaxDelay
    /\ \A c \in Clients : guards[c] # None /\ guards[c].incident = id =>
          \/ guards[c].token = lockKeys[id].token /\ guards[c].at = memLocks[id].token
          \/ guards[c].at + LockTtl <= memLocks[id].token

\* The double may keep a dead lock, or one that Redis has deleted.
LockMatches(id) ==
    \/ lockKeys[id].until <= now /\ memLocks[id].expires_at <= now
    \/ SameLease(id)

KeysInv ==
    /\ now \in Nat /\ now <= MaxNow
    /\ dedupKeys \in [Incidents \X Events -> Nat] /\ memDedup = dedupKeys
    /\ lockKeys \in [Incidents -> [token : Nat, until : Nat]]
    /\ memLocks \in [Incidents -> [token : Nat, expires_at : Nat]]
    /\ ReadingsClose => \A id \in Incidents : LockMatches(id)

AgreeInv == RecordsInv /\ KeysInv

LEMMA TtlConstant == TtlFits' <=> TtlFits
BY DEF TtlFits, TtlSecs, MaxDeadline

LEMMA AgreeInit == Init => AgreeInv
<1> SUFFICES ASSUME Init PROVE AgreeInv
  OBVIOUS
<1>1. DOMAIN NoFields = {} /\ HashOK(NoFields)
  BY DEF NoFields, HashOK
<1>2. RecordsInv
  BY <1>1 DEF Init, RedisInit, MemInit, RecordsInv, HashesTyped, RecordMatches
<1>3. KeysInv
  BY TtlAssumption DEF Init, RedisInit, MemInit, NoLock, NoEntry, KeysInv, LockMatches
<1> QED
  BY <1>2, <1>3 DEF AgreeInv

\* With a TTL that fits EXPIRE sets a deadline that is still to come.
LEMMA DeadlineFits ==
  ASSUME TtlFits, now \in Nat, now <= MaxNow
  PROVE  /\ ~ExpireRefused /\ ~ExpireDeletes
         /\ now + ExpireSecs \in Nat /\ ~(now + ExpireSecs <= now)
<1>1. /\ IncidentTtl \in Nat /\ I64Max \in Nat /\ MaxNow \in Nat
  BY TtlAssumption
<1>2. TtlSecs(IncidentTtl) \in Nat \ {0}
  BY <1>1 DEF TtlSecs
<1>3. MaxDeadline <= I64Max /\ MaxDeadline \in Nat
  BY <1>1 DEF MaxDeadline
<1>4. ExpireSecs = TtlSecs(IncidentTtl)
  BY <1>1, <1>2, <1>3 DEF ExpireSecs, AsI64, TtlFits
<1> QED
  BY <1>1, <1>2, <1>3, <1>4 DEF TtlFits, ExpireRefused, ExpireDeletes

\* Time passes, or nothing happens to the keys in question.
LEMMA RecordsIdle ==
  RecordsInv /\ UNCHANGED <<hashes, hashTtl, memIncidents>> => RecordsInv'
BY TtlConstant DEF RecordsInv, HashesTyped, RecordMatches

LEMMA KeysIdle ==
  ASSUME KeysInv, UNCHANGED <<dedupKeys, memDedup, lockKeys, memLocks>>,
         now' \in Nat, now' >= now, now' <= MaxNow,
         \A c \in Clients : guards'[c] # None => guards'[c] = guards[c]
  PROVE  KeysInv'
<1>1. \A id \in Incidents : LockMatches(id) => LockMatches(id)'
  BY DEF KeysInv, LockMatches, SameLease
<1> QED
  BY <1>1, ReadingsConstant DEF KeysInv

LEMMA UpsertAgrees ==
  ASSUME RecordsInv, now \in Nat, now <= MaxNow, NEW r \in Records,
         RedisUpsert(r), MemUpsert(r)
  PROVE  RecordsInv'
<1> DEFINE id == r["id"]
           hash == IF ExpireDeletes THEN NoFields ELSE RecordToFields(r)
           deadline == IF ExpireDeletes \/ ExpireRefused THEN None ELSE now + ExpireSecs
<1>1. id \in Incidents
  BY DEF Records
<1>2. /\ hashes' = [hashes EXCEPT ![id] = hash]
      /\ hashTtl' = [hashTtl EXCEPT ![id] = deadline]
      /\ memIncidents' = [memIncidents EXCEPT ![id] = r]
  BY DEF RedisUpsert, MemUpsert
<1>3. HashOK(hash)
  <2>1. HashOK(NoFields)
    BY DEF NoFields, HashOK
  <2> QED
    BY <2>1, CodecInverse
<1>4. TtlFits => deadline \in Nat /\ deadline # None /\ hash = RecordToFields(r)
  BY DeadlineFits, NoneAssumption
<1> HIDE DEF deadline, hash
<1>5. HashesTyped'
  BY <1>1, <1>2, <1>3, <1>4, TtlConstant DEF RecordsInv, HashesTyped
<1>6. TtlFits => RecordMatches(id)'
  BY <1>1, <1>2, <1>4, CodecInverse DEF RecordsInv, HashesTyped, RecordMatches
<1>7. TtlFits => \A j \in Incidents \ {id} : RecordMatches(j)'
  BY <1>1, <1>2 DEF RecordsInv, HashesTyped, RecordMatches
<1> QED
  BY <1>5, <1>6, <1>7, TtlConstant DEF RecordsInv

LEMMA SetterAgrees ==
  ASSUME RecordsInv, NEW id \in Incidents, NEW changes, ChangesOK(changes),
         HSet(id, Texts(changes)), Change(id, changes)
  PROVE  RecordsInv'
<1> DEFINE new == Merge(Hash(id), Texts(changes))
<1>1. HashOK(Hash(id)) /\ DOMAIN NoFields = {}
  BY DEF Hash, NoFields, HashOK, RecordsInv, HashesTyped
<1>2. DOMAIN Texts(changes) = DOMAIN changes
  BY DEF Texts
<1>3. /\ hashes' = [hashes EXCEPT ![id] = new]
      /\ hashTtl' = [hashTtl EXCEPT ![id] = IF Hash(id) = NoFields THEN None ELSE hashTtl[id]]
  BY DEF HSet, Merge
<1>4. /\ HashOK(new)
      /\ "id" \in DOMAIN Hash(id) => new["id"] = Hash(id)["id"]
      /\ DOMAIN new = DOMAIN Hash(id) \cup DOMAIN changes
      /\ FieldsToRecord(new) = [f \in FieldNames |-> IF f \in DOMAIN changes THEN changes[f]
                                                     ELSE FieldsToRecord(Hash(id))[f]]
  <2>1. /\ DOMAIN changes \subseteq FieldNames
        /\ \A f \in DOMAIN changes : changes[f] \in FieldValues(f)
    BY DEF ChangesOK
  <2>2. /\ DOMAIN new = DOMAIN Hash(id) \cup DOMAIN changes
        /\ "id" \in DOMAIN Hash(id) => new["id"] = Hash(id)["id"]
    BY <1>2 DEF Merge, ChangesOK
  <2> HIDE DEF new
  <2> QED
    BY <1>1, <2>1, <2>2, MergeOK DEF new
<1>5. /\ \A j \in Incidents \ {id} : memIncidents'[j] = memIncidents[j]
      /\ memIncidents' = [j \in Incidents |-> memIncidents'[j]]
      /\ memIncidents[id] # None => memIncidents'[id]
         = [f \in FieldNames |-> IF f \in DOMAIN changes THEN changes[f] ELSE memIncidents[id][f]]
  BY DEF Change, RecordsInv, HashesTyped
<1> HIDE DEF new
<1>6. HashesTyped'
  BY <1>3, <1>4, <1>5, TtlConstant DEF RecordsInv, HashesTyped
<1>7. TtlFits => \A j \in Incidents \ {id} : RecordMatches(j)'
  BY <1>3, <1>5 DEF RecordsInv, HashesTyped, RecordMatches
<1>8. ASSUME TtlFits PROVE RecordMatches(id)'
  <2>1. hashes'[id] = new /\ hashTtl'[id] = IF Hash(id) = NoFields THEN None ELSE hashTtl[id]
    BY <1>3 DEF RecordsInv, HashesTyped
  <2>2. RecordMatches(id)
    BY <1>8 DEF RecordsInv
  <2>3. new # NoFields /\ "id" \notin DOMAIN changes
    BY <1>1, <1>4 DEF ChangesOK
  <2>4. CASE Hash(id) = NoFields
    BY <1>1, <1>4, <2>1, <2>3, <2>4 DEF RecordMatches
  <2>5. CASE Hash(id) # NoFields
    <3>1. Hash(id) = hashes[id]
      BY <2>5 DEF Hash
    <3>2. CASE hashTtl[id] = None
      BY <1>4, <2>1, <2>2, <2>3, <3>1, <3>2 DEF RecordMatches
    <3>3. CASE hashTtl[id] # None
      <4>1. /\ memIncidents[id] = FieldsToRecord(hashes[id])
            /\ "id" \in DOMAIN hashes[id] /\ hashes[id]["id"] = Plain(id)
        BY <2>2, <3>3 DEF RecordMatches
      <4>2. memIncidents[id] # None
        BY <1>1, <3>1, <4>1, DecodedOK
      <4> QED
        BY <1>4, <1>5, <2>1, <2>5, <3>1, <3>3, <4>1, <4>2 DEF RecordMatches
    <3> QED
      BY <3>2, <3>3
  <2> QED
    BY <2>4, <2>5
<1> QED
  BY <1>6, <1>7, <1>8, TtlConstant DEF RecordsInv

\* mark_event_once and unmark_event do the same to both maps.
LEMMA MarkAgrees ==
  ASSUME KeysInv, NEW id \in Incidents, NEW event \in Delivered,
         MarkEventCall(id, event) \/ UnmarkEventCall(id, event)
  PROVE  KeysInv'
<1>1. <<id, event>> \in Incidents \X Events
  BY WritesAssumption
<1>2. UNCHANGED <<now, lockKeys, memLocks, guards>>
  BY DEF MarkEventCall, UnmarkEventCall, RedisMarkEvent, RedisUnmarkEvent,
     MemMarkEvent, MemUnmarkEvent
<1>3. dedupKeys' \in [Incidents \X Events -> Nat] /\ memDedup' = dedupKeys'
  <2>1. now + DedupTtl \in Nat
    BY TtlAssumption DEF KeysInv
  <2>2. CASE MarkEventCall(id, event)
    BY <1>1, <2>1, <2>2, TtlOfLock DEF KeysInv, MarkEventCall, RedisMarkEvent, MemMarkEvent,
       RedisIsNew, MemIsNew
  <2>3. CASE UnmarkEventCall(id, event)
    BY <1>1, <2>3 DEF KeysInv, UnmarkEventCall, RedisUnmarkEvent, MemUnmarkEvent
  <2> QED
    BY <2>2, <2>3
<1>4. \A j \in Incidents : LockMatches(j) => LockMatches(j)'
  BY <1>2 DEF LockMatches, SameLease
<1> QED
  BY <1>2, <1>3, <1>4, ReadingsConstant DEF KeysInv

\* A lock is free in both stores or in neither.
LEMMA FreeInBoth ==
  ASSUME KeysInv, ReadingsClose, NEW id \in Incidents
  PROVE  RedisLockFree(id) <=> MemLockFree(id)
BY DEF KeysInv, LockMatches, SameLease, RedisLockFree, MemLockFree

LEMMA TryLockAgrees ==
  ASSUME KeysInv, LeaseInv, NEW c \in Clients, TryLockCall(c)
  PROVE  KeysInv'
<1> DEFINE id == asks[c].incident
           guard == [incident |-> id, token |-> asks[c].token, at |-> now]
           key   == [token |-> asks[c].token, until |-> now + LockTtl]
           entry == [token |-> now, expires_at |-> now + LockTtl]
<1>1. UNCHANGED <<now, dedupKeys, memDedup>>
  BY DEF TryLockCall, RedisTryLock, MemTryLock
<1>2. /\ id \in Incidents /\ now \in Nat /\ now + LockTtl \in Nat
      /\ key \in [token : Nat, until : Nat] /\ entry \in [token : Nat, expires_at : Nat]
  BY TtlAssumption DEF TryLockCall, LeaseInv, LeaseTypes, Guards
<1>3. /\ lockKeys' = IF RedisLockFree(id) THEN [lockKeys EXCEPT ![id] = key] ELSE lockKeys
      /\ memLocks' = IF MemLockFree(id) THEN [memLocks EXCEPT ![id] = entry] ELSE memLocks
      /\ guards' = IF RedisLockFree(id) THEN [guards EXCEPT ![c] = guard] ELSE guards
  BY TtlOfLock DEF TryLockCall, RedisTryLock, MemTryLock
<1>4. /\ lockKeys' \in [Incidents -> [token : Nat, until : Nat]]
      /\ memLocks' \in [Incidents -> [token : Nat, expires_at : Nat]]
  BY <1>2, <1>3 DEF KeysInv
<1>5. ASSUME ReadingsClose, NEW j \in Incidents PROVE LockMatches(j)'
  <2>0. LockMatches(j)
    BY <1>5 DEF KeysInv
  <2>1. CASE ~RedisLockFree(id)
    <3>1. UNCHANGED <<lockKeys, memLocks, guards>>
      BY <1>2, <1>3, <1>5, <2>1, FreeInBoth
    <3> QED
      BY <1>1, <2>0, <3>1 DEF LockMatches, SameLease
  <2>2. CASE RedisLockFree(id) /\ j # id
    <3>1. lockKeys'[j] = lockKeys[j] /\ memLocks'[j] = memLocks[j]
      BY <1>2, <1>3, <2>2 DEF KeysInv
    <3>2. \A d \in Clients : guards'[d] # None /\ guards'[d].incident = j
                             => guards'[d] = guards[d]
      BY <1>3, <2>2 DEF LeaseInv, LeaseTypes
    <3> QED
      BY <1>1, <2>0, <3>1, <3>2 DEF LockMatches, SameLease
  <2>3. CASE RedisLockFree(id) /\ j = id
    <3>1. /\ lockKeys'[id] = key /\ memLocks'[id] = entry
          /\ guards' = [guards EXCEPT ![c] = guard]
      BY <1>2, <1>3, <1>5, <2>3, FreeInBoth DEF KeysInv
    <3>2. now + Skew[c] <= asks[c].token + MaxDelay
      BY <2>3, LockIsTaken
    <3>3. ASSUME NEW d \in Clients, guards'[d] # None, guards'[d].incident = id
          PROVE  \/ guards'[d].token = key.token /\ guards'[d].at = entry.token
                 \/ guards'[d].at + LockTtl <= entry.token
      <4>1. CASE d = c
        BY <3>1, <4>1 DEF LeaseInv, LeaseTypes
      <4>2. CASE d # c
        <5>1. guards'[d] = guards[d]
          BY <3>1, <4>2 DEF LeaseInv, LeaseTypes
        <5> QED
          BY <1>2, <1>5, <2>3, <3>3, <5>1, LeasesOver
      <4> QED
        BY <4>1, <4>2
    <3> HIDE DEF id
    <3> QED
      BY <1>2, <2>3, <3>1, <3>2, <3>3 DEF LockMatches, SameLease
  <2> QED
    BY <2>1, <2>2, <2>3
<1> QED
  BY <1>1, <1>4, <1>5, ReadingsConstant DEF KeysInv

LEMMA ReleaseLockAgrees ==
  ASSUME KeysInv, LeaseInv, NEW c \in Clients, ReleaseLockCall(c)
  PROVE  KeysInv'
<1> DEFINE id == guards[c].incident
<1>1. UNCHANGED <<now, dedupKeys, memDedup>>
  BY DEF ReleaseLockCall, RedisReleaseLock, MemReleaseLock
<1>2. /\ lockKeys' = IF ~RedisLockFree(id) /\ lockKeys[id].token = guards[c].token
                     THEN [lockKeys EXCEPT ![id] = NoLock] ELSE lockKeys
      /\ memLocks' = IF memLocks[id].token = guards[c].at
                     THEN [memLocks EXCEPT ![id] = NoEntry] ELSE memLocks
      /\ guards[c] # None /\ guards' = [guards EXCEPT ![c] = None]
  BY DEF ReleaseLockCall, RedisReleaseLock, MemReleaseLock
<1>3. /\ lockKeys' \in [Incidents -> [token : Nat, until : Nat]]
      /\ memLocks' \in [Incidents -> [token : Nat, expires_at : Nat]]
  BY <1>2 DEF KeysInv, NoLock, NoEntry
<1>4. /\ guards[c] \in Guards /\ id \in Incidents
      /\ \A d \in Clients : guards'[d] # None => guards'[d] = guards[d]
  BY <1>2 DEF LeaseInv, LeaseTypes, Guards
<1> HIDE DEF id
<1>5. ASSUME ReadingsClose, NEW j \in Incidents PROVE LockMatches(j)'
  <2>0. LockMatches(j) /\ now \in Nat
    BY <1>5 DEF KeysInv
  <2>1. CASE j # id \/ (lockKeys' = lockKeys /\ memLocks' = memLocks)
    <3>1. lockKeys'[j] = lockKeys[j] /\ memLocks'[j] = memLocks[j]
      BY <1>2, <1>4, <2>1 DEF KeysInv
    <3> QED
      BY <1>1, <1>4, <2>0, <3>1 DEF LockMatches, SameLease
  <2>2. CASE j = id /\ RedisLockFree(id)
    <3>1. lockKeys' = lockKeys /\ memLocks'[id] \in {memLocks[id], NoEntry}
      BY <1>2, <1>4, <2>2 DEF KeysInv
    <3>2. MemLockFree(id)
      BY <1>4, <1>5, <2>2, FreeInBoth
    <3> QED
      BY <1>1, <2>0, <2>2, <3>1, <3>2 DEF LockMatches, RedisLockFree, MemLockFree, NoEntry
  <2>3. CASE j = id /\ ~RedisLockFree(id)
    <3>1. /\ memLocks[id].token \in Nat /\ lockKeys[id].token \in Nat
          /\ guards[c].at \in Nat /\ guards[c].token \in Nat
      BY <1>4 DEF KeysInv, Guards
    <3>2. /\ \E d \in Clients : memLocks[id].token + Skew[d] <= lockKeys[id].token + MaxDelay
          /\ \/ guards[c].token = lockKeys[id].token /\ guards[c].at = memLocks[id].token
             \/ guards[c].at + LockTtl <= memLocks[id].token
      BY <1>2, <2>0, <2>3 DEF LockMatches, SameLease, RedisLockFree, id
    <3>3. CASE guards[c].token = lockKeys[id].token /\ guards[c].at = memLocks[id].token
      <4>1. lockKeys'[id] = NoLock /\ memLocks'[id] = NoEntry
        BY <1>2, <1>4, <2>3, <3>3 DEF KeysInv
      <4> QED
        BY <1>1, <2>0, <2>3, <4>1 DEF LockMatches, NoLock, NoEntry
    <3>4. CASE guards[c].at + LockTtl <= memLocks[id].token
      <4>1. guards[c].token <= guards[c].at + Skew[c]
        BY <1>2 DEF LeaseInv, Taken
      <4>2. PICK d \in Clients : memLocks[id].token + Skew[d] <= lockKeys[id].token + MaxDelay
        BY <3>2
      <4>3. guards[c].token # lockKeys[id].token
        BY <1>5, <3>1, <3>4, <4>1, <4>2, TokensDiffer
      <4>4. guards[c].at # memLocks[id].token
        BY <3>1, <3>4, TtlAssumption
      <4> QED
        BY <1>2, <2>1, <4>3, <4>4
    <3> QED
      BY <3>2, <3>3, <3>4
  <2> QED
    BY <2>1, <2>2, <2>3
<1> QED
  BY <1>1, <1>3, <1>5, ReadingsConstant DEF KeysInv

LEMMA AgreeNext == AgreeInv /\ LeaseInv /\ [Next]_vars => AgreeInv'
<1> SUFFICES ASSUME RecordsInv, KeysInv, LeaseInv, [Next]_vars PROVE RecordsInv' /\ KeysInv'
  BY DEF AgreeInv
<1>0. now \in Nat /\ now <= MaxNow
  BY DEF KeysInv
<1>1. CASE UNCHANGED vars
  BY <1>0, <1>1, RecordsIdle, KeysIdle DEF vars, redisVars, memoryVars
<1>2. CASE Tick
  BY <1>0, <1>2, RecordsIdle, KeysIdle, TtlAssumption DEF Tick, redisVars, memoryVars
<1>3. ASSUME NEW r \in Writes, UpsertCall(r) PROVE RecordsInv' /\ KeysInv'
  <2>1. RecordsInv'
    BY <1>0, <1>3, UpsertAgrees, WritesAssumption DEF UpsertCall
  <2>2. KeysInv'
    BY <1>0, <1>3, KeysIdle DEF UpsertCall, RedisUpsert, MemUpsert
  <2> QED
    BY <2>1, <2>2
<1>4. ASSUME NEW id \in Incidents, NEW changes, ChangesOK(changes), UNCHANGED <<now, guards>>,
             HSet(id, Texts(changes)), Change(id, changes)
      PROVE  RecordsInv' /\ KeysInv'
  <2>1. RecordsInv'
    BY <1>4, SetterAgrees
  <2>2. UNCHANGED <<dedupKeys, memDedup, lockKeys, memLocks>>
    BY <1>4 DEF HSet, Change
  <2> QED
    BY <1>0, <1>4, <2>1, <2>2, KeysIdle
<1>5. ASSUME NEW id \in Incidents, NEW message \in Messages, SetMessageIdCall(id, message)
      PROVE  RecordsInv' /\ KeysInv'
  BY <1>4, <1>5, MessageChangesOK DEF SetMessageIdCall
<1>6. ASSUME NEW id \in Incidents, NEW status \in Statuses, NEW name \in Names,
             NEW at \in Stamps, SetStatusCall(id, status, name, at)
      PROVE  RecordsInv' /\ KeysInv'
  BY <1>4, <1>6, StatusChangesOK DEF SetStatusCall
<1>7. ASSUME NEW id \in Incidents, NEW event \in Delivered,
             MarkEventCall(id, event) \/ UnmarkEventCall(id, event)
      PROVE  RecordsInv' /\ KeysInv'
  BY <1>7, MarkAgrees, RecordsIdle DEF MarkEventCall, UnmarkEventCall, RedisMarkEvent,
     RedisUnmarkEvent, MemMarkEvent, MemUnmarkEvent
<1>8. ASSUME NEW c \in Clients, TryLockCall(c) PROVE RecordsInv' /\ KeysInv'
  BY <1>8, TryLockAgrees, RecordsIdle DEF TryLockCall, RedisTryLock, MemTryLock
<1>9. ASSUME NEW c \in Clients, ReleaseLockCall(c) PROVE RecordsInv' /\ KeysInv'
  BY <1>9, ReleaseLockAgrees, RecordsIdle DEF ReleaseLockCall, RedisReleaseLock, MemReleaseLock
<1>10. ASSUME NEW c \in Clients, DropGuard(c) PROVE RecordsInv' /\ KeysInv'
  <2>1. \A d \in Clients : guards'[d] # None => guards'[d] = guards[d]
    BY <1>10 DEF DropGuard, LeaseInv, LeaseTypes
  <2> QED
    BY <1>0, <1>10, <2>1, RecordsIdle, KeysIdle DEF DropGuard, redisVars, memoryVars
<1>11. ASSUME NEW c \in Clients, DropAsk(c) \/ \E id \in Incidents : ReadClock(c, id)
       PROVE  RecordsInv' /\ KeysInv'
  BY <1>0, <1>11, RecordsIdle, KeysIdle DEF DropAsk, ReadClock, redisVars, memoryVars
<1> QED
  BY <1>1, <1>2, <1>3, <1>5, <1>6, <1>7, <1>8, <1>9, <1>10, <1>11 DEF Next

LEMMA AgreeAlways == Spec => []AgreeInv
BY AgreeInit, AgreeNext, LeaseAlways, PTL DEF Spec

(***************************************************************************)
(* After any calls and any time the double gives the answers of Redis, for *)
(* every record, number of clients and time to live that Redis takes: what *)
(* a handler test shows on MemoryStore does not depend on the double.      *)
(***************************************************************************)
THEOREM DoubleIsFaithful ==
  ASSUME TtlFits
  PROVE  Spec => []StoresAgree
<1>1. AgreeInv => StoresAgree
  <2> SUFFICES ASSUME AgreeInv, NEW id \in Incidents
               PROVE  /\ ~HashExpired(id) /\ ~Stray(id) => RedisGet(id) = MemGet(id)
                      /\ \A event \in Events : RedisIsNew(id, event) <=> MemIsNew(id, event)
                      /\ ReadingsClose => (RedisLockFree(id) <=> MemLockFree(id))
    BY DEF StoresAgree
  <2>1. ASSUME ~HashExpired(id), ~Stray(id) PROVE RedisGet(id) = MemGet(id)
    <3>1. Hash(id) = hashes[id] /\ RecordMatches(id) /\ HashOK(hashes[id])
      BY <2>1 DEF Hash, AgreeInv, RecordsInv, HashesTyped
    <3>2. CASE hashTtl[id] = None
      BY <2>1, <3>1, <3>2 DEF RecordMatches, Stray, RedisGet, MemGet
    <3>3. CASE hashTtl[id] # None
      BY <3>1, <3>3, DecodedOK DEF RecordMatches, RedisGet, MemGet
    <3> QED
      BY <3>2, <3>3
  <2>2. \A event \in Events : RedisIsNew(id, event) <=> MemIsNew(id, event)
    BY DEF AgreeInv, KeysInv, RedisIsNew, MemIsNew
  <2> QED
    BY <2>1, <2>2, FreeInBoth DEF AgreeInv
<1> QED
  BY <1>1, AgreeAlways, PTL

(***************************************************************************)
(* Only upsert gives a deadline and only upsert writes the id, so a hash   *)
(* without the one is without the other, in every history, if              *)
(* INCIDENT_TTL_SECS is a TTL that Redis takes.                            *)
(***************************************************************************)
THEOREM UpsertedHashesExpire ==
  ASSUME TtlFits
  PROVE  Spec => []OnlyStraysLast
<1>1. AgreeInv => OnlyStraysLast
  BY DEF AgreeInv, RecordsInv, RecordMatches, OnlyStraysLast, Stray, Hash
<1> QED
  BY <1>1, AgreeAlways, PTL

(***************************************************************************)
(* Whatever was written, over whatever was there, and for every            *)
(* INCIDENT_TTL_SECS: get never fails on a field, because record_to_fields *)
(* and the setters write each one the way fields_to_record parses it.      *)
(***************************************************************************)
THEOREM RepliesParse == Spec => []HashesParse
<1>1. AgreeInv => HashesParse
  <2> SUFFICES ASSUME AgreeInv, NEW id \in Incidents PROVE RedisGet(id) # Error
    BY DEF HashesParse
  <2>1. HashOK(Hash(id))
    BY DEF Hash, NoFields, HashOK, AgreeInv, RecordsInv, HashesTyped
  <2> QED
    BY <2>1, DecodedOK, NoneAssumption DEF RedisGet
<1> QED
  BY <1>1, AgreeAlways, PTL

\* What upsert writes, with a deadline that has not come.
LEMMA UpsertIsRead ==
  ASSUME TtlFits, RecordsInv, now \in Nat, now <= MaxNow,
         NEW r \in Records, RedisUpsert(r), now' = now
  PROVE  /\ RedisGet(r["id"])' = r
         /\ \A j \in Incidents \ {r["id"]} : RedisGet(j)' = RedisGet(j)
<1> DEFINE id == r["id"]
           deadline == now + ExpireSecs
<1>1. id \in Incidents
  BY DEF Records
<1>2. deadline \in Nat /\ deadline # None /\ ~(deadline <= now)
  BY NoneAssumption, DeadlineFits
<1>3. /\ hashes' = [hashes EXCEPT ![id] = RecordToFields(r)]
      /\ hashTtl' = [hashTtl EXCEPT ![id] = deadline]
  BY DeadlineFits DEF RedisUpsert
<1> HIDE DEF deadline
<1>4. hashes'[id] = RecordToFields(r) /\ hashTtl'[id] = deadline
  BY <1>1, <1>3 DEF RecordsInv, HashesTyped
<1>5. Hash(id)' = RecordToFields(r)
  BY <1>2, <1>4 DEF Hash, HashExpired
<1>6. RedisGet(id)' = r
  BY <1>5, CodecInverse, DecodedOK DEF RedisGet
<1>7. ASSUME NEW j \in Incidents \ {id} PROVE RedisGet(j)' = RedisGet(j)
  <2>1. hashes'[j] = hashes[j] /\ hashTtl'[j] = hashTtl[j]
    BY <1>3, <1>7 DEF RecordsInv, HashesTyped
  <2>2. Hash(j)' = Hash(j)
    BY <2>1 DEF Hash, HashExpired
  <2> QED
    BY <2>2 DEF RedisGet
<1> QED
  BY <1>6, <1>7

(***************************************************************************)
(* get finds what upsert has just written, for every record and every      *)
(* INCIDENT_TTL_SECS that Redis takes: the round trip through the fields   *)
(* of the hash loses nothing, and a TTL of 0 does not delete what was      *)
(* written.                                                                *)
(***************************************************************************)
THEOREM UpsertReadsBack ==
  ASSUME TtlFits
  PROVE  Spec => ReadBack
<1>1. AgreeInv /\ [Next]_vars => [\A r \in Writes : UpsertCall(r) => RedisGet(r["id"])' = r]_vars
  <2> SUFFICES ASSUME AgreeInv, NEW r \in Writes, UpsertCall(r) PROVE RedisGet(r["id"])' = r
    OBVIOUS
  <2> QED
    BY UpsertIsRead, WritesAssumption DEF UpsertCall, AgreeInv, KeysInv
<1> QED
  BY <1>1, AgreeAlways, PTL DEF Spec, ReadBack

-----------------------------------------------------------------------------
(***************************************************************************)
(* Refinement: what each call does to the keys is what the operator Bot    *)
(* has there does, with the same arguments and the same answer.            *)
(***************************************************************************)
Db   == [id \in Incidents |-> Whole(RedisGet(id))]
Seen == {key \in Incidents \X Events : ~RedisIsNew(key[1], key[2])}
Lk   == [id \in Incidents |-> IF RedisLockFree(id) THEN None ELSE lockKeys[id].token]

SameDb   == hashes' = hashes /\ hashTtl' = hashTtl /\ now' = now
SameSeen == dedupKeys' = dedupKeys /\ now' = now
SameLk   == lockKeys' = lockKeys /\ now' = now

LEMMA MappedParts ==
  /\ SameDb => Db' = Db
  /\ SameSeen => Seen' = Seen
  /\ SameLk => Lk' = Lk
<1>1. SameDb => Db' = Db
  <2> SUFFICES ASSUME SameDb PROVE \A id : RedisGet(id)' = RedisGet(id)
    BY DEF Db, Whole
  <2>1. \A id : Hash(id)' = Hash(id)
    BY DEF SameDb, Hash, HashExpired
  <2> QED
    BY <2>1 DEF RedisGet
<1>2. SameSeen => Seen' = Seen
  BY DEF SameSeen, Seen, RedisIsNew
<1>3. SameLk => Lk' = Lk
  BY DEF SameLk, Lk, RedisLockFree
<1> QED
  BY <1>1, <1>2, <1>3

\* What Bot sees of a record that is there is a record.
LEMMA WholeOK ==
  ASSUME NEW r \in AnyRecord
  PROVE  /\ Whole(r) # None
         /\ Whole(r) = [id |-> r["id"], status |-> r["status"],
                        chat_id |-> r["chat_id"], message_id |-> r["message_id"],
                        acknowledged_at |-> r["acknowledged_at"] # None,
                        resolved_at |-> r["resolved_at"] # None]
<1>1. r \notin {None, Error}
  BY NoneAssumption
<1>2. Whole(r) = [id |-> r["id"], status |-> r["status"],
                  chat_id |-> r["chat_id"], message_id |-> r["message_id"],
                  acknowledged_at |-> r["acknowledged_at"] # None,
                  resolved_at |-> r["resolved_at"] # None]
  BY <1>1 DEF Whole
<1>3. \A f \in FieldNames : r[f] \in Values \cup {None}
  BY DEF AnyRecord
<1>4. Whole(r) \in AnyWhole
  BY <1>2, <1>3 DEF AnyWhole, FieldNames, Optional
<1> QED
  BY <1>2, <1>4, NoneAssumption

LEMMA UpsertMaps ==
  ASSUME TtlFits, AgreeInv, NEW r \in Writes, UpsertCall(r)
  PROVE  Abstract!WriteRecord(Whole(r))
<1> DEFINE id == r["id"]
<1>1. r \in Records /\ r \in AnyRecord /\ id \in Incidents
  BY WritesAssumption DEF Records
<1>2. RedisGet(id)' = r /\ \A j \in Incidents \ {id} : RedisGet(j)' = RedisGet(j)
  BY <1>1, UpsertIsRead DEF UpsertCall, AgreeInv, KeysInv
<1>3. Whole(r).id = id
  BY <1>1, WholeOK
<1>4. Db' = [Db EXCEPT ![id] = Whole(r)]
  BY <1>1, <1>2 DEF Db, Whole
<1>5. Seen' = Seen /\ Lk' = Lk
  BY MappedParts DEF UpsertCall, RedisUpsert, SameSeen, SameLk
<1> QED
  BY <1>3, <1>4, <1>5 DEF Abstract!WriteRecord, Abstract!Upsert, Db, Seen, Lk

\* What a setter makes of the record, or of the defaults if there is none.
LEMMA SetterMaps ==
  ASSUME AgreeInv, NEW id \in Incidents, NEW changes, ChangesOK(changes),
         HSet(id, Texts(changes)), now' = now
  PROVE  /\ \E r, new \in AnyRecord :
              /\ new = [f \in FieldNames |-> IF f \in DOMAIN changes THEN changes[f] ELSE r[f]]
              /\ Abstract!Fields(Db, id) = Whole(r)
              /\ Db' = [Db EXCEPT ![id] = Whole(new)]
         /\ Seen' = Seen /\ Lk' = Lk
<1> DEFINE r == FieldsToRecord(Hash(id))
           hash == Merge(Hash(id), Texts(changes))
           new == FieldsToRecord(hash)
<1>1. HashOK(Hash(id)) /\ HashOK(NoFields)
  BY DEF Hash, NoFields, HashOK, AgreeInv, RecordsInv, HashesTyped
<1>2. /\ HashOK(hash)
      /\ new = [f \in FieldNames |-> IF f \in DOMAIN changes THEN changes[f] ELSE r[f]]
  BY <1>1, MergeOK DEF ChangesOK
<1>3. hash # NoFields
  <2>1. DOMAIN hash # {} /\ DOMAIN NoFields = {}
    BY DEF Merge, Texts, ChangesOK, NoFields
  <2> QED
    BY <2>1
<1>4. r \in AnyRecord /\ new \in AnyRecord
  BY <1>1, <1>2, DecodedOK
<1>5. /\ hashes' = [hashes EXCEPT ![id] = hash]
      /\ hashTtl' = [hashTtl EXCEPT ![id] = IF Hash(id) = NoFields THEN None ELSE hashTtl[id]]
  BY DEF HSet, Merge
<1> HIDE DEF hash
<1>6. RedisGet(id)' = new
  <2>1. hashes'[id] = hash /\ ~HashExpired(id)'
    BY <1>5 DEF AgreeInv, RecordsInv, HashesTyped, HashExpired, Hash
  <2> QED
    BY <1>3, <2>1 DEF RedisGet, Hash
<1>7. ASSUME NEW j \in Incidents \ {id} PROVE RedisGet(j)' = RedisGet(j)
  <2>1. hashes'[j] = hashes[j] /\ hashTtl'[j] = hashTtl[j]
    BY <1>5, <1>7 DEF AgreeInv, RecordsInv, HashesTyped
  <2>2. Hash(j)' = Hash(j)
    BY <2>1 DEF Hash, HashExpired
  <2> QED
    BY <2>2 DEF RedisGet
<1>8. Db' = [Db EXCEPT ![id] = Whole(new)]
  BY <1>6, <1>7 DEF Db, Whole
<1>9. Abstract!Fields(Db, id) = Whole(r)
  <2>1. CASE Hash(id) = NoFields
    <3>1. Db[id] = None
      BY <2>1 DEF Db, RedisGet, Whole
    <3>2. \A f \in FieldNames : r[f] = Default[f]
      BY <1>1, <2>1, DecodedOK DEF Decoded, NoFields
    <3>3. Whole(r) = Abstract!DefaultRecord
      BY <1>4, <3>2, WholeOK, DefaultsOK DEF FieldNames, Optional, Abstract!DefaultRecord
    <3> QED
      BY <3>1, <3>3 DEF Abstract!Fields, Db
  <2>2. CASE Hash(id) # NoFields
    <3>1. Db[id] = Whole(r) /\ Whole(r) # None
      BY <1>4, <2>2, WholeOK DEF Db, RedisGet
    <3> QED
      BY <3>1 DEF Abstract!Fields, Db
  <2> QED
    BY <2>1, <2>2
<1>10. Seen' = Seen /\ Lk' = Lk
  BY MappedParts DEF HSet, SameSeen, SameLk
<1> QED
  BY <1>2, <1>4, <1>8, <1>9, <1>10

\* EXCEPT on several fields of a record, one field at a time.
LEMMA WholeWithMessage ==
  ASSUME NEW r \in AnyRecord, NEW message
  PROVE  [Whole(r) EXCEPT !.chat_id = ChatId, !.message_id = message]
         = [id |-> r["id"], status |-> r["status"], chat_id |-> ChatId, message_id |-> message,
            acknowledged_at |-> r["acknowledged_at"] # None,
            resolved_at |-> r["resolved_at"] # None]
<1> DEFINE w == Whole(r)
           id == r["id"]
           acked == r["acknowledged_at"] # None
           closed == r["resolved_at"] # None
           s == [w EXCEPT !.chat_id = ChatId]
<1>1. w = [id |-> id, status |-> r["status"], chat_id |-> r["chat_id"], message_id |-> r["message_id"],
           acknowledged_at |-> acked, resolved_at |-> closed]
  BY WholeOK
<1>2. [w EXCEPT !.chat_id = ChatId, !.message_id = message] = [s EXCEPT !.message_id = message]
  OBVIOUS
<1> HIDE DEF w, id, acked, closed
<1>3. s = [id |-> id, status |-> r["status"], chat_id |-> ChatId, message_id |-> r["message_id"],
           acknowledged_at |-> acked, resolved_at |-> closed]
  BY <1>1
<1> HIDE DEF s
<1>4. [s EXCEPT !.message_id = message]
      = [id |-> id, status |-> r["status"], chat_id |-> ChatId, message_id |-> message,
         acknowledged_at |-> acked, resolved_at |-> closed]
  BY <1>3
<1> QED
  BY <1>2, <1>4 DEF w, id, acked, closed

LEMMA WholeWithStatus ==
  ASSUME NEW r \in AnyRecord, NEW status
  PROVE  [Whole(r) EXCEPT !.status = status,
                          !.acknowledged_at = @ \/ status = "acknowledged",
                          !.resolved_at     = @ \/ status = "resolved"]
         = [id |-> r["id"], status |-> status,
            chat_id |-> r["chat_id"], message_id |-> r["message_id"],
            acknowledged_at |-> r["acknowledged_at"] # None \/ status = "acknowledged",
            resolved_at |-> r["resolved_at"] # None \/ status = "resolved"]
<1> DEFINE w == Whole(r)
           id == r["id"]
           acked == r["acknowledged_at"] # None
           closed == r["resolved_at"] # None
           y == acked \/ status = "acknowledged"
           z == closed \/ status = "resolved"
           s == [w EXCEPT !.status = status]
           t == [s EXCEPT !.acknowledged_at = y]
<1>1. w = [id |-> id, status |-> r["status"], chat_id |-> r["chat_id"], message_id |-> r["message_id"],
           acknowledged_at |-> acked, resolved_at |-> closed]
  BY WholeOK
<1> HIDE DEF w, id, acked, closed
<1>2. w.acknowledged_at = acked /\ w.resolved_at = closed
  BY <1>1
<1>3. [w EXCEPT !.status = status,
                !.acknowledged_at = @ \/ status = "acknowledged",
                !.resolved_at     = @ \/ status = "resolved"]
      = [w EXCEPT !.status = status, !.acknowledged_at = y, !.resolved_at = z]
  BY <1>2, Zenon
<1> HIDE DEF y, z
<1>4. s = [id |-> id, status |-> status, chat_id |-> r["chat_id"], message_id |-> r["message_id"],
           acknowledged_at |-> acked, resolved_at |-> closed]
  BY <1>1
<1>5. [w EXCEPT !.status = status, !.acknowledged_at = y, !.resolved_at = z]
      = [t EXCEPT !.resolved_at = z]
  OBVIOUS
<1> HIDE DEF s
<1>6. t = [id |-> id, status |-> status, chat_id |-> r["chat_id"], message_id |-> r["message_id"],
           acknowledged_at |-> y, resolved_at |-> closed]
  BY <1>4
<1> HIDE DEF t
<1>7. [t EXCEPT !.resolved_at = z]
      = [id |-> id, status |-> status, chat_id |-> r["chat_id"], message_id |-> r["message_id"],
         acknowledged_at |-> y, resolved_at |-> z]
  BY <1>6
<1> QED
  BY <1>3, <1>5, <1>7 DEF w, id, acked, closed, y, z

LEMMA SetMessageIdMaps ==
  ASSUME AgreeInv, NEW id \in Incidents, NEW message \in Messages,
         SetMessageIdCall(id, message)
  PROVE  Abstract!WriteMessageId(id, ChatId, message)
<1> DEFINE changes == MessageChanges(message)
<1>1. ChangesOK(changes) /\ HSet(id, Texts(changes)) /\ now' = now
  BY MessageChangesOK DEF SetMessageIdCall
<1>2. PICK r, new \in AnyRecord :
         /\ new = [f \in FieldNames |-> IF f \in DOMAIN changes THEN changes[f] ELSE r[f]]
         /\ Abstract!Fields(Db, id) = Whole(r)
         /\ Db' = [Db EXCEPT ![id] = Whole(new)]
  BY <1>1, SetterMaps
<1>3. Whole(new) = [Whole(r) EXCEPT !.chat_id = ChatId, !.message_id = message]
  <2>1. /\ new["chat_id"] = ChatId /\ new["message_id"] = message
        /\ \A f \in FieldNames \ {"chat_id", "message_id"} : new[f] = r[f]
    BY <1>2 DEF MessageChanges, FieldNames, Optional
  <2>2. \A f \in {"id", "status", "acknowledged_at", "resolved_at"} : new[f] = r[f]
    BY <2>1 DEF FieldNames, Optional
  <2>3. Whole(new) = [id |-> r["id"], status |-> r["status"],
                      chat_id |-> ChatId, message_id |-> message,
                      acknowledged_at |-> r["acknowledged_at"] # None,
                      resolved_at |-> r["resolved_at"] # None]
    BY <2>1, <2>2, WholeOK
  <2>4. [Whole(r) EXCEPT !.chat_id = ChatId, !.message_id = message]
        = [id |-> r["id"], status |-> r["status"],
           chat_id |-> ChatId, message_id |-> message,
           acknowledged_at |-> r["acknowledged_at"] # None,
           resolved_at |-> r["resolved_at"] # None]
    BY WholeWithMessage
  <2> QED
    BY <2>3, <2>4
<1>4. Seen' = Seen /\ Lk' = Lk
  BY <1>1, SetterMaps
<1> QED
  BY <1>2, <1>3, <1>4
     DEF Abstract!WriteMessageId, Abstract!SetMessageId, Db, Seen, Lk

LEMMA SetStatusMaps ==
  ASSUME AgreeInv, NEW id \in Incidents, NEW status \in Statuses, NEW name \in Names,
         NEW at \in Stamps, SetStatusCall(id, status, name, at)
  PROVE  Abstract!WriteStatus(id, status)
<1> DEFINE changes == StatusChanges(status, name, at)
<1>1. ChangesOK(changes) /\ HSet(id, Texts(changes)) /\ now' = now
  BY StatusChangesOK DEF SetStatusCall
<1>2. PICK r, new \in AnyRecord :
         /\ new = [f \in FieldNames |-> IF f \in DOMAIN changes THEN changes[f] ELSE r[f]]
         /\ Abstract!Fields(Db, id) = Whole(r)
         /\ Db' = [Db EXCEPT ![id] = Whole(new)]
  BY <1>1, SetterMaps
<1>3. at # None
  BY ValuesOK DEF FieldValues, FieldNames, Optional
<1>4. Whole(new) = [Whole(r) EXCEPT
                      !.status = status,
                      !.acknowledged_at = @ \/ status = "acknowledged",
                      !.resolved_at = @ \/ status = "resolved"]
  <2>0. [Whole(r) EXCEPT !.status = status,
                         !.acknowledged_at = @ \/ status = "acknowledged",
                         !.resolved_at     = @ \/ status = "resolved"]
        = [id |-> r["id"], status |-> status,
           chat_id |-> r["chat_id"], message_id |-> r["message_id"],
           acknowledged_at |-> r["acknowledged_at"] # None \/ status = "acknowledged",
           resolved_at |-> r["resolved_at"] # None \/ status = "resolved"]
    BY WholeWithStatus
  <2>1. CASE status = "acknowledged"
    <3>1. /\ new["status"] = status /\ new["acknowledged_at"] = at
          /\ \A f \in {"id", "chat_id", "message_id", "resolved_at"} : new[f] = r[f]
      BY <1>2, <2>1 DEF StatusChanges, FieldNames, Optional
    <3>2. Whole(new) = [id |-> r["id"], status |-> status,
                        chat_id |-> r["chat_id"], message_id |-> r["message_id"],
                        acknowledged_at |-> TRUE,
                        resolved_at |-> r["resolved_at"] # None]
      BY <1>3, <3>1, WholeOK
    <3> QED
      BY <2>0, <2>1, <3>2
  <2>2. CASE status = "resolved"
    <3>1. /\ new["status"] = status /\ new["resolved_at"] = at
          /\ \A f \in {"id", "chat_id", "message_id", "acknowledged_at"} : new[f] = r[f]
      BY <1>2, <2>2 DEF StatusChanges, FieldNames, Optional
    <3>2. Whole(new) = [id |-> r["id"], status |-> status,
                        chat_id |-> r["chat_id"], message_id |-> r["message_id"],
                        acknowledged_at |-> r["acknowledged_at"] # None,
                        resolved_at |-> TRUE]
      BY <1>3, <3>1, WholeOK
    <3> QED
      BY <2>0, <2>2, <3>2
  <2>3. CASE status = "started"
    <3>1. /\ new["status"] = status
          /\ \A f \in {"id", "chat_id", "message_id", "acknowledged_at", "resolved_at"} :
                new[f] = r[f]
      BY <1>2, <2>3 DEF StatusChanges, FieldNames, Optional
    <3>2. Whole(new) = [id |-> r["id"], status |-> status,
                        chat_id |-> r["chat_id"], message_id |-> r["message_id"],
                        acknowledged_at |-> r["acknowledged_at"] # None,
                        resolved_at |-> r["resolved_at"] # None]
      BY <1>3, <3>1, WholeOK
    <3> QED
      BY <2>0, <2>3, <3>2
  <2> QED
    BY <2>1, <2>2, <2>3 DEF Statuses
<1>5. Seen' = Seen /\ Lk' = Lk
  BY <1>1, SetterMaps
<1>6. Db' = Abstract!SetStatus(Db, id, status)
  BY <1>2, <1>4 DEF Abstract!SetStatus
<1> QED
  BY <1>5, <1>6 DEF Abstract!WriteStatus, Db, Seen, Lk

\* A dedup key that is written is live, one that is deleted is not.
LEMMA DedupMaps ==
  ASSUME AgreeInv, NEW id \in Incidents, NEW event \in Delivered
  PROVE  /\ MarkEventCall(id, event) => Abstract!Mark(id, event, RedisIsNew(id, event))
         /\ UnmarkEventCall(id, event) => Abstract!Unmark(id, event)
<1>0. /\ <<id, event>> \in Incidents \X Events /\ now \in Nat
      /\ dedupKeys \in [Incidents \X Events -> Nat] /\ ~(now + DedupTtl <= now)
  BY WritesAssumption, TtlAssumption DEF AgreeInv, KeysInv
<1>1. MarkEventCall(id, event) \/ UnmarkEventCall(id, event)
      => Db' = Db /\ Lk' = Lk /\ now' = now
  BY MappedParts DEF MarkEventCall, UnmarkEventCall, RedisMarkEvent, RedisUnmarkEvent,
     SameDb, SameLk
<1>2. \A key \in Incidents \X Events : key = <<key[1], key[2]>>
  OBVIOUS
<1>3. RedisIsNew(id, event) = (<<id, event>> \notin Seen)
  BY <1>0 DEF Seen, RedisIsNew
<1>4. ASSUME MarkEventCall(id, event)
      PROVE  Seen' = Seen \cup {<<id, event>>}
  <2>1. CASE RedisIsNew(id, event)
    <3>1. dedupKeys' = [dedupKeys EXCEPT ![<<id, event>>] = now + DedupTtl]
      BY <1>4, <2>1, TtlOfLock DEF MarkEventCall, RedisMarkEvent
    <3> QED
      BY <1>0, <1>1, <1>2, <1>4, <3>1 DEF Seen, RedisIsNew
  <2>2. CASE ~RedisIsNew(id, event)
    <3>1. dedupKeys' = dedupKeys
      BY <1>4, <2>2 DEF MarkEventCall, RedisMarkEvent
    <3> QED
      BY <1>1, <1>3, <1>4, <2>2, <3>1, MappedParts DEF SameSeen
  <2> QED
    BY <2>1, <2>2
<1>5. ASSUME UnmarkEventCall(id, event)
      PROVE  Seen' = Seen \ {<<id, event>>}
  <2>1. dedupKeys' = [dedupKeys EXCEPT ![<<id, event>>] = 0]
    BY <1>5 DEF UnmarkEventCall, RedisUnmarkEvent
  <2> QED
    BY <1>0, <1>1, <1>2, <1>5, <2>1 DEF Seen, RedisIsNew
<1>6. MarkEventCall(id, event) => Abstract!Mark(id, event, RedisIsNew(id, event))
  BY <1>1, <1>3, <1>4 DEF Abstract!Mark, Abstract!IsNew, Abstract!MarkEventOnce, Db, Seen, Lk
<1> QED
  BY <1>1, <1>5, <1>6 DEF Abstract!Unmark, Abstract!UnmarkEvent, Db, Seen, Lk

\* A guard is given if and only if the key was free, and the key has its token.
LEMMA TryLockMaps ==
  ASSUME AgreeInv, LeaseInv, NEW c \in Clients, TryLockCall(c)
  PROVE  Abstract!Lock(asks[c].incident, asks[c].token, guards'[c] # None)
<1> DEFINE id == asks[c].incident
           token == asks[c].token
<1>0. /\ asks[c] \in Guards /\ guards[c] = None
      /\ id \in Incidents /\ token \in Nat /\ token # None
      /\ now \in Nat /\ ~(now + LockTtl <= now)
      /\ lockKeys \in [Incidents -> [token : Nat, until : Nat]]
      /\ guards \in [Clients -> Guards \cup {None}]
  BY TtlAssumption, NoneAssumption DEF TryLockCall, LeaseInv, LeaseTypes, Taken, Guards
<1>1. Db' = Db /\ Seen' = Seen /\ now' = now
  BY MappedParts DEF TryLockCall, RedisTryLock, SameDb, SameSeen
<1>2. RedisLockFree(id) <=> Lk[id] = None
  BY <1>0, NoneAssumption DEF Lk
<1>3. CASE RedisLockFree(id)
  <2>1. lockKeys' = [lockKeys EXCEPT ![id] = [token |-> token, until |-> now + LockTtl]]
    BY <1>3, TtlOfLock DEF TryLockCall, RedisTryLock
  <2>2. guards'[c] = [incident |-> id, token |-> token, at |-> now]
    BY <1>0, <1>3 DEF TryLockCall
  <2>3. guards'[c] # None
    BY <1>0, <2>2, NoneAssumption
  <2>4. Lk' = [Lk EXCEPT ![id] = token]
    BY <1>0, <1>1, <2>1 DEF Lk, RedisLockFree
  <2>5. (guards'[c] # None) = (Lk[id] = None)
    BY <1>2, <1>3, <2>3
  <2> QED
    BY <1>1, <1>2, <1>3, <2>4, <2>5
       DEF Abstract!Lock, Abstract!LockFree, Abstract!TryLock, Db, Seen, Lk
<1>4. CASE ~RedisLockFree(id)
  <2>1. guards'[c] = None /\ lockKeys' = lockKeys
    BY <1>0, <1>4 DEF TryLockCall, RedisTryLock
  <2>2. Lk' = Lk
    BY <1>1, <2>1, MappedParts DEF SameLk
  <2>3. (guards'[c] # None) = (Lk[id] = None)
    BY <1>2, <1>4, <2>1
  <2> QED
    BY <1>1, <1>2, <1>4, <2>2, <2>3
       DEF Abstract!Lock, Abstract!LockFree, Abstract!TryLock, Db, Seen, Lk
<1> QED
  BY <1>3, <1>4

\* The key goes if and only if it holds the token of the guard.
LEMMA ReleaseMaps ==
  ASSUME AgreeInv, LeaseInv, NEW c \in Clients, ReleaseLockCall(c)
  PROVE  Abstract!Unlock(guards[c].incident, guards[c].token)
<1> PICK id, token : id = guards[c].incident /\ token = guards[c].token
  OBVIOUS
<1>0. /\ id \in Incidents /\ token \in Nat /\ token # None /\ now \in Nat
      /\ lockKeys \in [Incidents -> [token : Nat, until : Nat]]
  BY NoneAssumption DEF ReleaseLockCall, LeaseInv, LeaseTypes, Guards
<1>1. Db' = Db /\ Seen' = Seen /\ now' = now
  BY MappedParts DEF ReleaseLockCall, RedisReleaseLock, SameDb, SameSeen
<1>2. Lk[id] = token <=> ~RedisLockFree(id) /\ lockKeys[id].token = token
  BY <1>0 DEF Lk
<1>3. CASE Lk[id] = token
  <2>1. lockKeys' = [lockKeys EXCEPT ![id] = NoLock]
    BY <1>2, <1>3 DEF ReleaseLockCall, RedisReleaseLock
  <2>2. lockKeys'[id].until = 0 /\ \A j \in Incidents \ {id} : lockKeys'[j] = lockKeys[j]
    BY <1>0, <2>1 DEF NoLock
  <2>3. RedisLockFree(id)' /\ \A j \in Incidents \ {id} : RedisLockFree(j)' = RedisLockFree(j)
    BY <1>0, <1>1, <2>2 DEF RedisLockFree
  <2>4. Lk' = [Lk EXCEPT ![id] = None]
    BY <2>2, <2>3 DEF Lk
  <2> QED
    BY <1>1, <1>3, <2>4 DEF Abstract!Unlock, Abstract!ReleaseLock, Db, Seen, Lk
<1>4. CASE Lk[id] # token
  <2>1. lockKeys' = lockKeys
    BY <1>2, <1>4 DEF ReleaseLockCall, RedisReleaseLock
  <2>2. Lk' = Lk
    BY <1>1, <2>1, MappedParts DEF SameLk
  <2> QED
    BY <1>1, <1>4, <2>2 DEF Abstract!Unlock, Abstract!ReleaseLock, Db, Seen, Lk
<1> QED
  BY <1>3, <1>4

\* What touches no key.
LEMMA NothingMaps ==
  ASSUME NEW c \in Clients,
         \/ \E id \in Incidents : ReadClock(c, id)
         \/ DropAsk(c) \/ DropGuard(c)
  PROVE  UNCHANGED Abstract!vars
<1>1. UNCHANGED <<now, redisVars>>
  BY DEF ReadClock, DropAsk, DropGuard
<1> QED
  BY <1>1, MappedParts DEF redisVars, SameDb, SameSeen, SameLk, Abstract!vars, Db, Seen, Lk

\* What a tick ends is a record that was upserted, a dedup key or a lock.
LEMMA TickMaps ==
  ASSUME TtlFits, AgreeInv, Tick
  PROVE  Abstract!Expire
<1>0. now \in Nat /\ now' = now + 1 /\ UNCHANGED <<hashes, hashTtl, dedupKeys, lockKeys>>
  BY DEF Tick, redisVars, AgreeInv, KeysInv
<1>1. ASSUME NEW id \in Incidents
      PROVE  Db'[id] = Db[id] \/ (Db[id] # None /\ Db[id].id = id /\ Db'[id] = None)
  <2>1. /\ HashOK(hashes[id]) /\ RecordMatches(id)
        /\ hashTtl[id] \in Nat \cup {None}
    BY DEF AgreeInv, RecordsInv, HashesTyped
  <2>2. HashExpired(id) => HashExpired(id)'
    BY <1>0, <2>1 DEF HashExpired
  <2>3. CASE HashExpired(id)' <=> HashExpired(id)
    <3>1. Hash(id)' = Hash(id)
      BY <1>0, <2>3 DEF Hash
    <3>2. RedisGet(id)' = RedisGet(id)
      BY <3>1 DEF RedisGet
    <3> QED
      BY <3>2 DEF Db, Whole
  <2>4. CASE HashExpired(id)' /\ ~HashExpired(id)
    <3>1. /\ hashTtl[id] # None /\ Hash(id) = hashes[id] /\ Hash(id)' = NoFields
      BY <1>0, <2>4 DEF HashExpired, Hash
    <3>2. "id" \in DOMAIN hashes[id] /\ hashes[id]["id"] = Plain(id)
      BY <2>1, <3>1 DEF RecordMatches
    <3>3. Db'[id] = None
      BY <3>1 DEF Db, RedisGet, Whole
    <3>4. Db[id] = Whole(FieldsToRecord(hashes[id]))
      BY <2>1, <3>1, <3>2, DecodedOK DEF Db, RedisGet
    <3>5. FieldsToRecord(hashes[id])["id"] = id
      BY <2>1, <3>2, DecodedOK DEF Decoded, FieldNames, Parse, Plain
    <3> QED
      BY <2>1, <3>3, <3>4, <3>5, DecodedOK, WholeOK
  <2> QED
    BY <2>2, <2>3, <2>4
<1>2. \A id \in Incidents : Lk'[id] \in {Lk[id], None}
  BY <1>0 DEF Lk, RedisLockFree, AgreeInv, KeysInv
<1>3. Seen' \subseteq Seen
  BY <1>0 DEF Seen, RedisIsNew, AgreeInv, KeysInv
<1> QED
  BY <1>1, <1>2, <1>3 DEF Abstract!Expire, Abstract!HasTtl, Db, Seen, Lk

LEMMA InitMaps == Init => Abstract!Init
<1> SUFFICES ASSUME Init PROVE Abstract!Init
  OBVIOUS
<1>1. \A id \in Incidents : RedisGet(id) = None /\ RedisLockFree(id)
  <2> SUFFICES ASSUME NEW id \in Incidents PROVE RedisGet(id) = None /\ RedisLockFree(id)
    OBVIOUS
  <2>1. hashes[id] = NoFields /\ hashTtl[id] = None
    BY DEF Init, RedisInit
  <2>2. RedisGet(id) = None
    BY <2>1 DEF RedisGet, Hash, HashExpired
  <2>3. RedisLockFree(id)
    BY DEF Init, RedisInit, RedisLockFree, NoLock
  <2> QED
    BY <2>2, <2>3
<1>2. Db = [id \in Incidents |-> None] /\ Lk = [id \in Incidents |-> None]
  BY <1>1 DEF Db, Lk, Whole
<1>3. Seen = {}
  BY DEF Init, RedisInit, Seen, RedisIsNew
<1> QED
  BY <1>2, <1>3 DEF Abstract!Init, Db, Seen, Lk

(***************************************************************************)
(* With a TTL that Redis takes, every call on the keys is the call of      *)
(* RedisStore's operator: what Bot shows over those operators, argument by *)
(* argument and answer by answer, holds over HSET, DEL, EXPIRE, SET NX EX  *)
(* and the script.                                                         *)
(***************************************************************************)
THEOREM CommandsImplementOperators ==
  ASSUME TtlFits
  PROVE  Spec => CommandsAsInBot
<1>1. ASSUME AgreeInv, LeaseInv PROVE AsCalled
  <2>1. \A r \in Writes : UpsertCall(r) => Abstract!WriteRecord(Whole(r))
    BY <1>1, UpsertMaps
  <2>2. \A id \in Incidents, message \in Messages :
           SetMessageIdCall(id, message) => Abstract!WriteMessageId(id, ChatId, message)
    BY <1>1, SetMessageIdMaps
  <2>3. \A id \in Incidents, status \in Statuses, name \in Names, at \in Stamps :
           SetStatusCall(id, status, name, at) => Abstract!WriteStatus(id, status)
    BY <1>1, SetStatusMaps
  <2>4. \A id \in Incidents, event \in Delivered :
           /\ MarkEventCall(id, event) => Abstract!Mark(id, event, RedisIsNew(id, event))
           /\ UnmarkEventCall(id, event) => Abstract!Unmark(id, event)
    BY <1>1, DedupMaps
  <2>5. \A c \in Clients :
           /\ TryLockCall(c) =>
                 Abstract!Lock(asks[c].incident, asks[c].token, guards'[c] # None)
           /\ ReleaseLockCall(c) => Abstract!Unlock(guards[c].incident, guards[c].token)
    BY <1>1, TryLockMaps, ReleaseMaps
  <2>6. \A c \in Clients :
           /\ \A id \in Incidents : ReadClock(c, id) => UNCHANGED Abstract!vars
           /\ DropAsk(c) \/ DropGuard(c) => UNCHANGED Abstract!vars
    BY NothingMaps
  <2>7. Tick => Abstract!Expire
    BY <1>1, TickMaps
  <2> QED
    BY <2>1, <2>2, <2>3, <2>4, <2>5, <2>6, <2>7 DEF AsCalled
<1>2. AgreeInv /\ LeaseInv /\ [Next]_vars => [AsCalled]_vars
  BY <1>1
<1> QED
  BY <1>2, InitMaps, AgreeAlways, LeaseAlways, PTL DEF Spec, CommandsAsInBot
=============================================================================
