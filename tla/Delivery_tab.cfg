SPECIFICATION FairSpec
CONSTANTS
    alice = alice
    bob = bob
    carol = carol
    s1 = s1
    s2 = s2
    k1 = k1
    k2 = k2
    e1 = e1
    Account <- TabUsers
    Peer <- Others
    Socket <- TwoSockets
    Call <- TwoCalls
    Event <- OneEvent
    Room = Room
    None = None
    MaxDeeds = 3
INVARIANT DeliveryTypeOK OneLiveSocket QuietAfterLogout
PROPERTY DeliveredOnce Reconnects
\* A tab whose user has logged out may stop.
CHECK_DEADLOCK FALSE
