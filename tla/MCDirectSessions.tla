--------------------------- MODULE MCDirectSessions ---------------------------
(***************************************************************************)
(* An instance of DirectSessions for TLC: two participants with one device *)
(* and one tab each.                                                       *)
(***************************************************************************)
EXTENDS DirectSessions, TLC

CONSTANTS t1, t2, phone, laptop, alice, bob, p1, p2, p3

TwoTabs      == {t1, t2}
TwoDevices   == {phone, laptop}
TwoUsers     == {alice, bob}
TabPerDevice == t1 :> phone @@ t2 :> laptop
OnePerUser   == phone :> alice @@ laptop :> bob
ThreePairs   == {p1, p2, p3}

\* The pairs are interchangeable, and so are the participants with what they use.
UserSwap == t1 :> t2 @@ t2 :> t1 @@ phone :> laptop @@ laptop :> phone
                @@ alice :> bob @@ bob :> alice
Composed == {p @@ UserSwap : p \in Permutations(ThreePairs)}
PairSymmetry == Permutations(ThreePairs) \cup Composed
=============================================================================
