SPECIFICATION FairSpec
CONSTANTS
    root = root
    alice = alice
    again = again
    admin = admin
    other = other
    k1 = k1
    k2 = k2
    None = None
    Setting = Setting
    Row <- ThreeRows
    Name <- TwoNames
    NameOf <- Names
    Admin = admin
    Slot <- TwoSlots
    MaxRequests = 3
    MaxStarts = 2
INVARIANT AuditTellsHistory ConfigStaleHasCause
PROPERTY SuperadminRemains SettingTakesEffect
\* The requests of superadmins are bounded; pages are loaded for ever.
CHECK_DEADLOCK FALSE
