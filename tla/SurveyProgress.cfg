SPECIFICATION FairSpec
CONSTANTS
    u1 = u1
    u2 = u2
    u3 = u3
    u4 = u4
    u5 = u5
    h1 = h1
    h2 = h2
    g1 = g1
    g2 = g2
    Users = {u1, u2}
    Nobody = Nobody
    Surveys = {s1}
    Forms <- AllForms
    PayHandlers = {h1}
    SubHandlers = {g1}
    WorkerSlots = {w1}
    MaxAttempts = 2
    MaxStalls = 1
    MaxTime = 2
    MaxCrashes = 1
PROPERTY PaidSurveysComplete
CHECK_DEADLOCK FALSE
