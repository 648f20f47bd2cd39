----------------------------- MODULE MCSenderKeys -----------------------------
(***************************************************************************)
(* Instances of SenderKeys for TLC: two tabs, on a device each or both on  *)
(* one.                                                                    *)
(***************************************************************************)
EXTENDS SenderKeys, TLC

CONSTANTS t1, t2, phone, laptop, g1, g2

TwoTabs    == {t1, t2}
TwoDevices == {phone, laptop}
TwoChains  == {g1, g2}

TabPerDevice  == t1 :> phone @@ t2 :> laptop
TabsOfADevice == t1 :> phone @@ t2 :> phone

FirstTab  == {t1}
SecondTab == {t2}

\* The chains are interchangeable, and so are the tabs of one device.
ChainSymmetry == Permutations(TwoChains)
FullSymmetry == ChainSymmetry \cup Permutations(TwoTabs)
=============================================================================
