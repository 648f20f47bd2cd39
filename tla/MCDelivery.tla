------------------------------ MODULE MCDelivery ------------------------------
(***************************************************************************)
(* An instance of Delivery: alice and bob use one tab, carol takes part in *)
(* the channel from elsewhere.                                             *)
(***************************************************************************)
EXTENDS Delivery

CONSTANTS alice, bob, carol, s1, s2, k1, k2, e1

TabUsers   == {alice, bob}
Others     == {carol}
TwoSockets == {s1, s2}
TwoCalls   == {k1, k2}
OneEvent   == {e1}
==============================================================================
