---------------------------- MODULE MCAdministration ----------------------------
(***************************************************************************)
(* Instance of Administration for TLC: the default superadmin, and two     *)
(* rows of one more username.                                              *)
(***************************************************************************)
EXTENDS Administration

CONSTANTS root, alice, again, admin, other, k1, k2

ThreeRows == {root, alice, again}
TwoNames  == {admin, other}
TwoSlots  == {k1, k2}

Names == [u \in ThreeRows |-> IF u = root THEN admin ELSE other]
=============================================================================
