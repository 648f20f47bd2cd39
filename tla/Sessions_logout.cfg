SPECIFICATION Spec
CONSTANTS
    t1 = t1
    k1 = k1
    k2 = k2
    alice = alice
    s1 = s1
    s2 = s2
    x1 = x1
    x2 = x2
    x3 = x3
    None = None
    Tab <- OneTab
    Call <- TwoCalls
    Caller <- SharedTab
    User <- OneUser
    Session <- TwoSessions
    Token <- ThreeTokens
SYMMETRY RowsAndTokens
PROPERTY LogoutRevokes
\* With the bounded rows and tokens used up the system may stop.
CHECK_DEADLOCK FALSE
