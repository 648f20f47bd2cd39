CONSTANTS
    c1 = c1
    c2 = c2
    c3 = c3
    alice = alice
    bob = bob
    ch1 = ch1
    ch2 = ch2
    Conn <- ThreeConns
    User <- TwoUsers
    Channel <- OneChannel
    Owner <- ReconnectOwner
    Members <- AllMembers
    MaxFaults = 0

SPECIFICATION Spec

INVARIANT
    MembershipSubscribed

\* Every socket ends gone or crashed: the behaviours are finite.
CHECK_DEADLOCK FALSE
