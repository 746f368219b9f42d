--------------------------- MODULE GatewayProofs ----------------------------
(***************************************************************************)
(* Proofs about Gateway, for any number of replicas, any incident ids, any *)
(* limit on the data of a button and any budget: decode is the inverse of  *)
(* encode, and some or all replicas know the secret Telegram has.          *)
(***************************************************************************)
EXTENDS Gateway, SequenceTheorems, TLAPS

(***************************************************************************)
(* The codec.                                                              *)
(***************************************************************************)
Letters == Chars \cup {"a", "c", "k", "r", "e", "s", ":"}

LEMMA Spelling ==
  /\ AsStr["Acknowledge"] = <<"a", "c", "k">> /\ AsStr["Resolve"] = <<"r", "e", "s">>
  /\ AsStr["Acknowledge"] # AsStr["Resolve"]
<1>1. AsStr["Acknowledge"] = <<"a", "c", "k">> /\ AsStr["Resolve"] = <<"r", "e", "s">>
  BY DEF AsStr
<1>2. <<"a", "c", "k">>[1] # <<"r", "e", "s">>[1]
  OBVIOUS
<1> QED
  BY <1>1, <1>2

\* The name of an action is three letters, none of them a colon, and no other's.
LEMMA NameOfAction ==
  ASSUME NEW action \in Actions
  PROVE  /\ AsStr[action] \in Seq(Letters) /\ Len(AsStr[action]) = 3
         /\ \A n \in 1 .. 3 : AsStr[action][n] # ":"
         /\ FromStr(AsStr[action]) = action
<1>1. /\ AsStr[action] \in Seq(Letters) /\ Len(AsStr[action]) = 3
      /\ \A n \in 1 .. 3 : AsStr[action][n] # ":"
  <2>1. <<"a", "c", "k">> \in Seq(Letters) /\ <<"r", "e", "s">> \in Seq(Letters)
    BY DEF Letters
  <2>2. \A name \in {<<"a", "c", "k">>, <<"r", "e", "s">>} :
           Len(name) = 3 /\ \A n \in 1 .. 3 : name[n] # ":"
    OBVIOUS
  <2>3. AsStr[action] \in {<<"a", "c", "k">>, <<"r", "e", "s">>}
    BY Spelling DEF Actions
  <2> QED
    BY <2>1, <2>2, <2>3
<1>2. \A other \in Actions : AsStr[other] = AsStr[action] => other = action
  BY Spelling DEF Actions
<1>3. FromStr(AsStr[action]) = action
  BY <1>2 DEF FromStr
<1> QED
  BY <1>1, <1>3

(***************************************************************************)
(* decode undoes encode, whatever characters the id is made of and however *)
(* long the data may be; only a button without incident is refused         *)
(* (src/domain/callback.rs).                                               *)
(***************************************************************************)
THEOREM DecodeUndoesEncode ==
  ASSUME NEW action \in Actions, NEW id \in Seq(Chars), Encode(action, id) # None
  PROVE  Decode(Encode(action, id)) = IF id = <<>> THEN None
                                      ELSE [what |-> action, incident |-> id]
<1> DEFINE name == AsStr[action]
           start == name \o <<":">>
           data == start \o id
<1>1. /\ name \in Seq(Letters) /\ <<":">> \in Seq(Letters) /\ id \in Seq(Letters)
      /\ Len(name) = 3 /\ Len(id) \in Nat
  BY NameOfAction, LenProperties DEF Letters
<1>2. /\ start \in Seq(Letters) /\ Len(start) = 4 /\ start[4] = ":"
      /\ \A n \in 1 .. 3 : start[n] = name[n]
  <2> DEFINE colon == <<":">>
  <2>1. colon \in Seq(Letters) /\ Len(colon) = 1 /\ colon[1] = ":"
    BY DEF Letters
  <2> HIDE DEF name, colon
  <2>2. /\ name \o colon \in Seq(Letters) /\ Len(name \o colon) = 4
        /\ \A n \in 1 .. 4 : (name \o colon)[n] = IF n <= 3 THEN name[n] ELSE colon[n - 3]
    <3>1. name \in Seq(Letters) /\ Len(name) = 3
      BY <1>1
    <3>2. /\ name \o colon \in Seq(Letters) /\ Len(name \o colon) = Len(name) + Len(colon)
          /\ \A n \in 1 .. Len(name) + Len(colon) :
                (name \o colon)[n] = IF n <= Len(name) THEN name[n] ELSE colon[n - Len(name)]
      BY <2>1, <3>1, ConcatProperties, Zenon
    <3> QED
      BY <2>1, <3>1, <3>2
  <2>3. (name \o colon)[4] = ":" /\ \A n \in 1 .. 3 : (name \o colon)[n] = name[n]
    BY <2>1, <2>2
  <2> QED
    BY <2>2, <2>3 DEF name, colon
<1>3. /\ data \in Seq(Letters) /\ Len(data) = 4 + Len(id) /\ data[4] = ":"
      /\ \A n \in 1 .. 3 : data[n] # ":"
  BY <1>1, <1>2, NameOfAction, ConcatProperties
<1>4. Encode(action, id) = data /\ Len(data) <= MaxCallbackDataBytes
  BY <1>1, <1>3, LimitAssumption DEF Encode
<1>5. SplitAt(data) = 4 /\ Colons(data) # {}
  <2>1. 4 \in Colons(data) /\ \A n \in Colons(data) : n \in Nat /\ 4 <= n
    BY <1>1, <1>3, LenProperties DEF Colons
  <2> QED
    BY <2>1 DEF SplitAt
<1>6. SubSeq(data, 1, 3) = name
  <2>1. SubSeq(data, 1, 3) \in Seq(Letters) /\ Len(SubSeq(data, 1, 3)) = 3
        /\ \A n \in 1 .. 3 : SubSeq(data, 1, 3)[n] = name[n]
    <3>1. \A n \in 1 .. 3 : data[n] = name[n] /\ data[n] \in Letters
      BY <1>1, <1>2, ConcatProperties, ElementOfSeq
    <3> HIDE DEF data
    <3> QED
      BY <3>1, SubSeqProperties
  <2> QED
    BY <1>1, <2>1, SeqEqual
<1>7. SubSeq(data, 5, Len(data)) = id
  BY <1>1, <1>2, <1>3, SubSeqOfConcat2
<1> HIDE DEF name, data
<1>8. FromStr(name) = action /\ action # None
  BY NameOfAction, NoneAssumption DEF name
<1>9. Decode(data) = IF id = <<>> THEN None ELSE [what |-> action, incident |-> id]
  <2>1. /\ SplitAt(data) - 1 = 3 /\ SplitAt(data) + 1 = 5
        /\ ~(Len(data) > MaxCallbackDataBytes \/ Colons(data) = {})
    BY <1>1, <1>3, <1>4, <1>5, LimitAssumption
  <2>2. /\ FromStr(SubSeq(data, 1, SplitAt(data) - 1)) = action
        /\ SubSeq(data, SplitAt(data) + 1, Len(data)) = id
    BY <1>6, <1>7, <1>8, <2>1
  <2> QED
    BY <1>8, <2>1, <2>2, Zenon DEF Decode
<1> QED
  BY <1>4, <1>9

-----------------------------------------------------------------------------
(***************************************************************************)
(* The secret.                                                             *)
(***************************************************************************)
Booted(r) == stage[r] \in {"booting", "registered", "serving"}
Passed(r) == stage[r] \in {"registered", "serving"}

\* A replica that has come past setWebhook, and Telegram, have the configured secret.
ConfiguredInv ==
    telegram_secret_token # None =>
        \A r \in Replicas : /\ Booted(r) => secret[r] = telegram_secret_token
                            /\ Passed(r) => registered = telegram_secret_token

\* When all have come past setWebhook, the one that did so last is among them.
LastInv == Replicas # {} /\ (\A r \in Replicas : Passed(r))
           => \E r \in Replicas : secret[r] = registered

SecretInv ==
    /\ stage \in [Replicas -> {"down", "booting", "registered", "serving"}]
    /\ secret = [r \in Replicas |-> secret[r]]
    /\ ConfiguredInv /\ LastInv

LEMMA SecretInit == Init => SecretInv
BY DEF Init, SecretInv, ConfiguredInv, LastInv, Booted, Passed

LEMMA SecretNext == SecretInv /\ [Next]_vars => SecretInv'
<1> SUFFICES ASSUME SecretInv, [Next]_vars PROVE SecretInv'
  OBVIOUS
<1>1. CASE UNCHANGED <<telegram_secret_token, stage, secret, registered>>
  BY <1>1 DEF SecretInv, ConfiguredInv, LastInv, Booted, Passed
<1>2. ASSUME NEW r \in Replicas, Boot(r) PROVE SecretInv'
  BY <1>2 DEF Boot, ResolveSecretToken, telegram, SecretInv, ConfiguredInv, LastInv,
     Booted, Passed
<1>3. ASSUME NEW r \in Replicas, Register(r) PROVE SecretInv'
  BY <1>3 DEF Register, SecretInv, ConfiguredInv, LastInv, Booted, Passed
<1>4. ASSUME NEW r \in Replicas, Serve(r) PROVE SecretInv'
  BY <1>4 DEF Serve, telegram, SecretInv, ConfiguredInv, LastInv, Booted, Passed
<1>5. ASSUME NEW r \in Replicas, Stop(r) PROVE SecretInv'
  BY <1>5 DEF Stop, SecretInv, ConfiguredInv, LastInv, Booted, Passed
<1>6. \/ UNCHANGED <<telegram_secret_token, stage, secret, registered>>
      \/ \E r \in Replicas : Boot(r) \/ Register(r) \/ Serve(r) \/ Stop(r)
  BY DEF Next, Step, Handle, Press, Accept, vars, process, telegram
<1> QED
  BY <1>1, <1>2, <1>3, <1>4, <1>5, <1>6

LEMMA SecretAlways == Spec => []SecretInv
BY SecretInit, SecretNext, PTL DEF Spec

(***************************************************************************)
(* With TELEGRAM_SECRET_TOKEN every replica that serves accepts what       *)
(* Telegram sends, for any number of replicas, starts and failures.        *)
(***************************************************************************)
THEOREM ConfiguredSecretIsSafe == Spec => []ConfiguredIsSafe
<1>1. SecretInv => ConfiguredIsSafe
  BY DEF SecretInv, ConfiguredInv, Booted, Passed, ConfiguredIsSafe, AnyReplicaAccepts, Accepts
<1> QED
  BY <1>1, SecretAlways, PTL

(***************************************************************************)
(* With or without it, once all replicas serve one of them does.           *)
(***************************************************************************)
THEOREM LastReplicaAccepts == Spec => []SomeReplicaAccepts
<1>1. SecretInv => SomeReplicaAccepts
  BY DEF SecretInv, LastInv, Passed, SomeReplicaAccepts, Accepts
<1> QED
  BY <1>1, SecretAlways, PTL

-----------------------------------------------------------------------------
(***************************************************************************)
(* From the button to the handler.                                         *)
(***************************************************************************)
PressRecords == {[what |-> action, incident |-> id, data |-> Encode(action, id)] :
                    action \in Actions, id \in Seq(Chars)}
CallRecords  == [update : Nat, decoded : [what : Actions, incident : Seq(Chars)] \cup {None}]

IsPress(n) == n \in 1 .. Len(updates) /\ updates[n].data # None

PressInv ==
    /\ updates \in Seq(PressRecords)
    /\ \A n \in 1 .. Len(updates) : IsPress(n)
    /\ due \subseteq Nat /\ \A n \in due : IsPress(n)
    /\ queue \in [Replicas -> Seq(Nat)]
    /\ \A r \in Replicas : \A k \in 1 .. Len(queue[r]) : IsPress(queue[r][k])
    /\ calls \in Seq(CallRecords)
    /\ \A k \in 1 .. Len(calls) : IsPress(calls[k].update)

ButtonInv == PressInv /\ PressMeansButton

LEMMA ButtonInit == Init => ButtonInv
<1> SUFFICES ASSUME Init PROVE ButtonInv
  OBVIOUS
<1>1. Len(<<>>) = 0 /\ DOMAIN <<>> = {} /\ \A S : <<>> \in Seq(S)
  BY EmptySeq
<1>2. PressInv
  BY <1>1 DEF Init, PressInv
<1>3. PressMeansButton
  BY <1>1 DEF Init, PressMeansButton
<1> QED
  BY <1>2, <1>3 DEF ButtonInv

\* What decode makes of the data of a press.
LEMMA PressDecodes ==
  ASSUME PressInv, NEW n, IsPress(n)
  PROVE  LET press == updates[n] IN
         /\ Decode(press.data) = IF press.incident = <<>> THEN None
                                 ELSE [what |-> press.what, incident |-> press.incident]
         /\ [update |-> n, decoded |-> Decode(press.data)] \in CallRecords
<1>1. updates[n] \in PressRecords
  BY ElementOfSeq DEF PressInv, IsPress
<1>2. PICK action \in Actions, id \in Seq(Chars) :
         updates[n] = [what |-> action, incident |-> id, data |-> Encode(action, id)]
  BY <1>1 DEF PressRecords
<1>3. Encode(action, id) # None
  BY <1>2 DEF IsPress
<1>4. Decode(Encode(action, id)) = IF id = <<>> THEN None ELSE [what |-> action, incident |-> id]
  BY <1>3, DecodeUndoesEncode
<1>5. n \in Nat
  BY LenProperties DEF IsPress, PressInv
<1> QED
  BY <1>2, <1>4, <1>5 DEF CallRecords

\* Updates are only added, so a press stays what it was.
LEMMA PressButton ==
  ASSUME ButtonInv, NEW id \in Ids, NEW action \in Actions, Press(id, action)
  PROVE  ButtonInv'
<1> DEFINE press == [what |-> action, incident |-> id, data |-> Encode(action, id)]
<1>1. press \in PressRecords
  BY IdsAssumption DEF PressRecords
<1>2. press.data # None
  BY DEF Press, Keyboard
<1>3. /\ updates' = Append(updates, press) /\ due' = due \cup {Len(updates) + 1}
      /\ UNCHANGED <<queue, calls>>
  BY DEF Press
<1> HIDE DEF press
<1>4. /\ updates' \in Seq(PressRecords) /\ Len(updates) \in Nat
      /\ Len(updates') = Len(updates) + 1 /\ updates'[Len(updates) + 1] = press
      /\ \A n \in 1 .. Len(updates) : updates'[n] = updates[n]
  BY <1>1, <1>3, AppendProperties, LenProperties DEF ButtonInv, PressInv
<1>5. \A n : IsPress(n) => IsPress(n)' /\ updates'[n] = updates[n]
  BY <1>4 DEF IsPress
<1>6. \A n \in 1 .. Len(updates') : IsPress(n)'
  BY <1>2, <1>4 DEF IsPress, ButtonInv, PressInv
<1>7. PressInv'
  <2>1. due' \subseteq Nat /\ \A n \in due' : IsPress(n)'
    <3>1. due \subseteq Nat /\ \A n \in due : IsPress(n)'
      BY <1>5 DEF ButtonInv, PressInv
    <3>2. PICK n : n = Len(updates) + 1
      OBVIOUS
    <3>3. n \in Nat /\ n \in 1 .. Len(updates')
      BY <1>4, <3>2
    <3> QED
      BY <1>3, <1>6, <3>1, <3>2, <3>3
  <2>2. /\ queue' \in [Replicas -> Seq(Nat)]
        /\ \A r \in Replicas : \A k \in 1 .. Len(queue'[r]) : IsPress(queue[r][k])'
    BY <1>3, <1>5 DEF ButtonInv, PressInv
  <2>3. /\ calls' \in Seq(CallRecords)
        /\ \A k \in 1 .. Len(calls') : IsPress(calls[k].update)'
    BY <1>3, <1>5 DEF ButtonInv, PressInv
  <2> QED
    BY <1>4, <1>6, <2>1, <2>2, <2>3 DEF PressInv
<1>8. PressMeansButton'
  <2>1. DOMAIN calls = 1 .. Len(calls)
    BY LenProperties DEF ButtonInv, PressInv
  <2>2. \A k \in DOMAIN calls : updates'[calls[k].update] = updates[calls[k].update]
    BY <1>5, <2>1 DEF ButtonInv, PressInv
  <2> QED
    BY <1>3, <2>2 DEF ButtonInv, PressMeansButton
<1> QED
  BY <1>7, <1>8 DEF ButtonInv

LEMMA AcceptButton ==
  ASSUME ButtonInv, NEW r \in Replicas, NEW n \in due, Accept(r, n)
  PROVE  ButtonInv'
<1>1. /\ queue' = [queue EXCEPT ![r] = Append(queue[r], n)] /\ due' \subseteq due
      /\ UNCHANGED <<updates, calls>>
  BY DEF Accept
<1>2. n \in Nat /\ queue[r] \in Seq(Nat)
  BY DEF ButtonInv, PressInv
<1>3. /\ Append(queue[r], n) \in Seq(Nat) /\ Len(queue[r]) \in Nat
      /\ Len(Append(queue[r], n)) = Len(queue[r]) + 1
      /\ Append(queue[r], n)[Len(queue[r]) + 1] = n
      /\ \A k \in 1 .. Len(queue[r]) : Append(queue[r], n)[k] = queue[r][k]
  BY <1>2, AppendProperties, LenProperties
<1>4. \A k \in 1 .. Len(Append(queue[r], n)) : IsPress(Append(queue[r], n)[k])
  BY <1>3 DEF ButtonInv, PressInv
<1>5. \A m : IsPress(m)' <=> IsPress(m)
  BY <1>1 DEF IsPress
<1>6. PressInv'
  BY <1>1, <1>3, <1>4, <1>5 DEF ButtonInv, PressInv
<1> QED
  BY <1>1, <1>6 DEF ButtonInv, PressMeansButton

LEMMA HandleButton ==
  ASSUME ButtonInv, NEW r \in Replicas, Handle(r)
  PROVE  ButtonInv'
<1> DEFINE n == Head(queue[r])
           call == [update |-> n, decoded |-> Decode(updates[n].data)]
<1>1. /\ queue[r] \in Seq(Nat) /\ queue[r] # <<>> /\ Len(queue[r]) \in Nat \ {0}
      /\ n = queue[r][1]
  <2>1. queue[r] \in Seq(Nat) /\ queue[r] # <<>>
    BY DEF ButtonInv, PressInv, Handle
  <2> QED
    BY <2>1, EmptySeq, LenProperties
<1>2. IsPress(n)
  BY <1>1 DEF ButtonInv, PressInv
<1>3. /\ calls' = Append(calls, call) /\ queue' = [queue EXCEPT ![r] = Tail(queue[r])]
      /\ UNCHANGED <<updates, due>>
  BY DEF Handle, telegram
<1>4. /\ Tail(queue[r]) \in Seq(Nat) /\ Len(Tail(queue[r])) = Len(queue[r]) - 1
      /\ \A k \in 1 .. Len(Tail(queue[r])) : Tail(queue[r])[k] = queue[r][k + 1]
  BY <1>1, HeadTailProperties
<1>5. \A k \in 1 .. Len(Tail(queue[r])) : IsPress(Tail(queue[r])[k])
  <2>1. \A k \in 1 .. Len(queue[r]) : IsPress(queue[r][k])
    BY DEF ButtonInv, PressInv
  <2>2. \A k \in 1 .. Len(Tail(queue[r])) : k + 1 \in 1 .. Len(queue[r])
    BY <1>1, <1>4
  <2> HIDE DEF n, call
  <2> QED
    BY <1>4, <2>1, <2>2, Zenon
<1>6. /\ call \in CallRecords /\ call.update = n
      /\ call.decoded = IF updates[n].incident = <<>> THEN None
                        ELSE [what |-> updates[n].what, incident |-> updates[n].incident]
  BY <1>2, PressDecodes DEF ButtonInv
<1> HIDE DEF n, call
<1>7. /\ calls' \in Seq(CallRecords) /\ Len(calls) \in Nat
      /\ Len(calls') = Len(calls) + 1 /\ calls'[Len(calls) + 1] = call
      /\ \A k \in 1 .. Len(calls) : calls'[k] = calls[k]
      /\ DOMAIN calls = 1 .. Len(calls) /\ DOMAIN calls' = 1 .. Len(calls')
  BY <1>3, <1>6, AppendProperties, LenProperties DEF ButtonInv, PressInv
<1>8. \A m : IsPress(m)' <=> IsPress(m)
  BY <1>3 DEF IsPress
<1>9. PressInv'
  <2>1. queue' \in [Replicas -> Seq(Nat)]
    BY <1>3, <1>4 DEF ButtonInv, PressInv
  <2>2. \A q \in Replicas : \A k \in 1 .. Len(queue'[q]) : IsPress(queue'[q][k])
    BY <1>3, <1>5 DEF ButtonInv, PressInv
  <2>3. \A k \in 1 .. Len(calls') : IsPress(calls'[k].update)
    BY <1>2, <1>6, <1>7 DEF ButtonInv, PressInv
  <2> QED
    BY <1>3, <1>7, <1>8, <2>1, <2>2, <2>3 DEF ButtonInv, PressInv
<1>10. PressMeansButton'
  <2> SUFFICES ASSUME NEW k \in DOMAIN calls'
               PROVE  LET press == updates[calls'[k].update] IN
                      calls'[k].decoded = IF press.incident = <<>> THEN None
                                          ELSE [what |-> press.what, incident |-> press.incident]
    BY <1>3 DEF PressMeansButton
  <2>1. CASE k = Len(calls) + 1
    BY <1>6, <1>7, <2>1
  <2>2. CASE k \in DOMAIN calls
    BY <1>7, <2>2 DEF ButtonInv, PressMeansButton
  <2> QED
    BY <1>7, <2>1, <2>2
<1> QED
  BY <1>9, <1>10 DEF ButtonInv

LEMMA StopButton ==
  ASSUME ButtonInv, NEW r \in Replicas, Stop(r)
  PROVE  ButtonInv'
<1>1. /\ queue' = [queue EXCEPT ![r] = <<>>] /\ UNCHANGED <<updates, due, calls>>
  BY DEF Stop
<1>2. Len(<<>>) = 0 /\ <<>> \in Seq(Nat)
  BY EmptySeq
<1>3. PressInv'
  BY <1>1, <1>2 DEF ButtonInv, PressInv, IsPress
<1> QED
  BY <1>1, <1>3 DEF ButtonInv, PressMeansButton

LEMMA ButtonNext ==
  ASSUME ButtonInv, [Next]_vars
  PROVE  ButtonInv'
<1>1. CASE UNCHANGED <<updates, due, queue, calls>>
  BY <1>1 DEF ButtonInv, PressInv, IsPress, PressMeansButton
<1>2. \/ UNCHANGED <<updates, due, queue, calls>>
      \/ \E r \in Replicas : Stop(r) \/ Handle(r) \/ \E n \in due : Accept(r, n)
      \/ \E id \in Ids, action \in Actions : Press(id, action)
  BY DEF Next, Step, Boot, Register, Serve, vars, telegram
<1> QED
  BY <1>1, <1>2, StopButton, HandleButton, AcceptButton, PressButton

(***************************************************************************)
(* callback_handler is called with the action and the incident of the      *)
(* button that was pressed, whatever replica it came through and whatever  *)
(* stopped, was lost or was sent again.                                    *)
(***************************************************************************)
THEOREM HandlerActsOnButton == Spec => []PressMeansButton
BY ButtonNext, ButtonInit, PTL DEF Spec, ButtonInv
=============================================================================
