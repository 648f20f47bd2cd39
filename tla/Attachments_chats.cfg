SPECIFICATION Spec
CONSTANTS
    alice = alice
    bob = bob
    ch1 = ch1
    ch2 = ch2
    r1 = r1
    r2 = r2
    f1 = f1
    m1 = m1
    m2 = m2
    None = None
    User <- TwoUsers
    Channel <- TwoChannels
    Request <- TwoRequests
    File <- OneFile
    Message <- TwoMessages
    MaxDeeds = 4
SYMMETRY Symmetry
INVARIANT TypeOK OneDirectChannel ListAgrees HeardHasCause AnnouncedIsLinked
\* With the bounded deeds over the system may stop.
CHECK_DEADLOCK FALSE
