SPECIFICATION FairSpec
CONSTANTS
    a = a
    b = b
    alice = alice
    bob = bob
    None = None
    Server <- TwoServers
    User <- Pair
    Home <- AtHome
    Founder = alice
    Limit <- Crossing
    MaxFaults = 1
INVARIANT TypeOK InvitedOrFailed
PROPERTY RelayedAtMostOnce RequestsEnd DropHasCause KeyNeverOlder
\* With the bounded events over the system may stop.
CHECK_DEADLOCK FALSE
