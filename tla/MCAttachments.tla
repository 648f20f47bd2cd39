---------------------------- MODULE MCAttachments ----------------------------
(***************************************************************************)
(* An instance of Attachments: two users, two channels, two requests under *)
(* way, one file and two messages.                                         *)
(***************************************************************************)
EXTENDS Attachments, TLC

CONSTANTS alice, bob, ch1, ch2, r1, r2, f1, m1, m2

TwoUsers    == {alice, bob}
TwoChannels == {ch1, ch2}
TwoRequests == {r1, r2}
OneFile     == {f1}
TwoMessages == {m1, m2}

Symmetry == Permutations(TwoUsers) \cup Permutations(TwoChannels)
            \cup Permutations(TwoRequests) \cup Permutations(TwoMessages)
==============================================================================
