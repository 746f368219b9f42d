------------------------------ MODULE MCGateway ------------------------------
(***************************************************************************)
(* Instances of Gateway for TLC: two replicas, and ids that are empty,     *)
(* with a colon and as long as the limit allows, and too long.             *)
(***************************************************************************)
EXTENDS Gateway

CONSTANTS r1, r2, Shared

PlainChars == {"a", ":"}

Plain == {<<"a">>}
Tricky == {<<>>, <<"a", ":", "a">>, <<"a", "a", "a", "a">>}

EitherWay == {Shared, None}
Unset     == {None}

GatewayBudget == [press |-> 2, stop |-> 1, reply |-> 1]
RandomSecretsBudget == [press |-> 0, stop |-> 0, reply |-> 0]
=============================================================================
