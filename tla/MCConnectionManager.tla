------------------------ MODULE MCConnectionManager ------------------------
(***************************************************************************)
(* Instances of ConnectionManager: one user reconnecting, with two         *)
(* channels; or that while another user stays connected, in one channel.   *)
(***************************************************************************)
EXTENDS ConnectionManager

CONSTANTS c1, c2, c3, alice, bob, ch1, ch2

ThreeConns  == {c1, c2, c3}
TwoConns    == {c1, c2}
TwoUsers    == {alice, bob}
OneChannel  == {ch1}
TwoChannels == {ch1, ch2}

\* alice opens c1 and c2, bob c3.
ReconnectOwner == [c \in Conn |-> IF c = c3 THEN bob ELSE alice]

AllMembers == [u \in TwoUsers |-> Channel]
=============================================================================
