SPECIFICATION Spec
CONSTANTS
    u1 = u1
    u2 = u2
    u3 = u3
    u4 = u4
    u5 = u5
    h1 = h1
    h2 = h2
    g1 = g1
    g2 = g2
    Users = {u1, u2, u3, u4}
    Nobody = Nobody
    Surveys = {s1}
    Forms <- CrashForms
    PayHandlers = {h1}
    SubHandlers = {g1, g2}
    WorkerSlots = {w1}
    MaxAttempts = 2
    MaxStalls = 1
    MaxTime = 2
    MaxCrashes = 2
SYMMETRY Symmetry
INVARIANT RunningIsPaid
INVARIANT DistributionsBounded
INVARIANT PaidIsScheduled
INVARIANT OverrunBounded
INVARIANT HeardAfterCredited
CHECK_DEADLOCK FALSE
