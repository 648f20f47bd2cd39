SPECIFICATION TimelineSpec
CONSTANTS
    s1 = s1
    s2 = s2
    Slot <- TwoSlots
    PageSize = 1
    Sealed = {1}
    MaxMessages = 2
    MaxLoads = 2
    MaxChanges = 1
    MaxFaults = 1
SYMMETRY SlotSymmetry
INVARIANT TimelineTypeOK ListedOnce ShownIsCurrent ShownOrReachable
\* With the bounded messages, loads and changes the system may stop.
CHECK_DEADLOCK FALSE
