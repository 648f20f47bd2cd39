----------------------------- MODULE MCFederation -----------------------------
(***************************************************************************)
(* An instance of Federation for TLC: two servers, alice at the first, who *)
(* created the channel, and bob at the second.                             *)
(***************************************************************************)
EXTENDS Federation, TLC

CONSTANTS a, b, alice, bob

TwoServers == {a, b}

Pair == {alice, bob}

AtHome == [u \in User |-> IF u = alice THEN a ELSE b]

\* One invite of bob, one message of alice, two keys of bob's device: the relayed
\* message and the relayed keys cross.
Crossing == "invite" :> (alice :> 0 @@ bob :> 1)
         @@ "message" :> (alice :> 1 @@ bob :> 0)
         @@ "key" :> (alice :> 0 @@ bob :> 2)
=============================================================================
