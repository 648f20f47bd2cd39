------------------------------ MODULE MCSessions ------------------------------
(***************************************************************************)
(* Instances of Sessions for TLC: one tab with two requests under way.     *)
(***************************************************************************)
EXTENDS Sessions, TLC

CONSTANTS t1, k1, k2, alice, s1, s2, x1, x2, x3

OneTab  == {t1}
TwoCalls == {k1, k2}

SharedTab == [k \in TwoCalls |-> t1]

OneUser == {alice}

TwoSessions == {s1, s2}
ThreeTokens == {x1, x2, x3}

\* Rows and tokens are interchangeable, and so are the requests of one tab.
RowsAndTokens == Permutations(TwoSessions) \cup Permutations(ThreeTokens)
RowsTokensAndCalls == RowsAndTokens \cup Permutations(TwoCalls)
=============================================================================
