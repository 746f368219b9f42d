---------------------------- MODULE IncidentSync ----------------------------
(***************************************************************************)
(* What the bot promises, with no Redis commands, locks, tasks or dedup    *)
(* keys in sight.  Each incident has one status.  It changes in one step,  *)
(* from the value it has, by the state machine, for something that did     *)
(* happen in Better Stack; and a message is only ever given the status     *)
(* that the incident has at that moment.                                   *)
(***************************************************************************)
EXTENDS Incident

VARIABLES
    timeline,   \* what happened to each incident in Better Stack
    status,     \* the status the bot holds for each incident, None before the first
    shown       \* the messages of the chat, each an incident and a status

Triggered(i) == {FromEvent(timeline[i][n]) : n \in DOMAIN timeline[i]}

(***************************************************************************)
(* A pressed "Acknowledge" button counts for an incident that is resolved  *)
(* already: Better Stack answers 409, and the client takes it as success.  *)
(***************************************************************************)
Justified(i, trigger) == \/ trigger \in Triggered(i)
                         \/ trigger = "Acknowledged" /\ "Resolved" \in Triggered(i)

Init == /\ timeline = [i \in Incidents |-> <<>>]
        /\ status   = [i \in Incidents |-> None]
        /\ shown    = <<>>

Happen(i, event) == /\ timeline' = [timeline EXCEPT ![i] = Append(@, event)]
                    /\ UNCHANGED <<status, shown>>

Current(i) == IF status[i] = None THEN "started" ELSE status[i]

Apply(i, trigger) ==
    /\ Justified(i, trigger)
    /\ status' = [status EXCEPT ![i] = NextStatus(Current(i), trigger)]
    /\ UNCHANGED <<timeline, shown>>

Show(i) ==
    LET view == [id |-> i, status |-> status[i]] IN
    /\ status[i] # None
    /\ \/ shown' = Append(shown, view)
       \/ \E m \in DOMAIN shown : /\ shown[m].id = i
                                  /\ shown' = [shown EXCEPT ![m] = view]
    /\ UNCHANGED <<timeline, status>>

Next == \E i \in Incidents : \/ \E event \in Events : Happen(i, event)
                             \/ \E trigger \in Triggers : Apply(i, trigger)
                             \/ Show(i)

vars == <<timeline, status, shown>>
Spec == Init /\ [][Next]_vars
=============================================================================
