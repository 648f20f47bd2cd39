SPECIFICATION Spec
CONSTANTS
    t1 = t1
    t2 = t2
    phone = phone
    laptop = laptop
    alice = alice
    bob = bob
    p1 = p1
    p2 = p2
    p3 = p3
    None = None
    Tab <- TwoTabs
    Device <- TwoDevices
    DeviceOf <- TabPerDevice
    User <- TwoUsers
    Owner <- OnePerUser
    Pair <- ThreePairs
    MaxSetups = 2
    MaxMessages = 2
    MaxFaults = 2
SYMMETRY PairSymmetry
INVARIANT TypeOK PublishedIsStored HandshakeIsOfSession WrongKeyHasCause
\* With the bounded messages sent and read the system may stop.
CHECK_DEADLOCK FALSE
