------------------------------ MODULE Callback -------------------------------
(***************************************************************************)
(* The data behind a button (src/domain/callback.rs) and the buttons of a  *)
(* message (build_keyboard, src/render.rs).  This module is about the text *)
(* itself, so an incident id is a sequence of one-byte characters here.    *)
(***************************************************************************)
EXTENDS Integers, Sequences

CONSTANTS
    Chars,                  \* the characters an incident id is made of
    MaxCallbackDataBytes,   \* MAX_CALLBACK_DATA_BYTES, 64 in the code
    None

Actions == {"Acknowledge", "Resolve"}

ASSUME LimitAssumption == MaxCallbackDataBytes \in Nat
ASSUME NoneAssumption  == None \notin Actions

\* Action::as_str.
AsStr == [Acknowledge |-> <<"a", "c", "k">>, Resolve |-> <<"r", "e", "s">>]

\* Action::from_str.
FromStr(name) ==
    IF \E action \in Actions : AsStr[action] = name
    THEN CHOOSE action \in Actions : AsStr[action] = name
    ELSE None

Encode(action, id) ==
    LET data == AsStr[action] \o <<":">> \o id
    IN  IF Len(data) > MaxCallbackDataBytes THEN None ELSE data

Colons(data) == {n \in DOMAIN data : data[n] = ":"}

\* Mutant: rsplit_once.
SplitAt_Last(data) == CHOOSE n \in Colons(data) : \A m \in Colons(data) : m <= n

\* split_once.
SplitAt(data) == CHOOSE n \in Colons(data) : \A m \in Colons(data) : n <= m

Decode(data) ==
    LET n == SplitAt(data)
        action == FromStr(SubSeq(data, 1, n - 1))
        id     == SubSeq(data, n + 1, Len(data))
    IN  IF Len(data) > MaxCallbackDataBytes \/ Colons(data) = {} THEN None
        ELSE IF action = None \/ id = <<>> THEN None
        ELSE [what |-> action, incident |-> id]

\* build_keyboard: a button whose data would be too long is left out.
Keyboard(status, id) ==
    {action \in CASE status = "started"      -> Actions
                  [] status = "acknowledged" -> {"Resolve"}
                  [] OTHER                   -> {} : Encode(action, id) # None}
=============================================================================
