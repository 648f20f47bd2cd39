SPECIFICATION Spec
CONSTANTS
    t1 = t1
    t2 = t2
    phone = phone
    laptop = laptop
    g1 = g1
    g2 = g2
    None = None
    Tab <- TwoTabs
    Device <- TwoDevices
    DeviceOf <- TabsOfADevice
    Writer <- TwoTabs
    Listener = {}
    Chain <- TwoChains
    MaxMessages = 2
    MaxFaults = 0
SYMMETRY FullSymmetry
INVARIANT MessageKeysUnique
\* With the bounded messages sent and read the system may stop.
CHECK_DEADLOCK FALSE
