SPECIFICATION FairSpec
CONSTANTS
    u1 = u1
    u2 = u2
    h1 = h1
    h2 = h2
    h3 = h3
    Accounts = {admin, u1}
    Admin = admin
    Handlers = {h1, h2, h3}
    Nobody = Nobody
    MaxOps = 3
INVARIANT OverdraftBounded
INVARIANT LedgerExact
INVARIANT RechargesAreCharged
PROPERTY LocksReleased
CHECK_DEADLOCK FALSE
