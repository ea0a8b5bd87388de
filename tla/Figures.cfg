SPECIFICATION MCSpec
CONSTANTS
    u1 = u1
    u2 = u2
    Hours = {9, 23, 24, 40, 47, 72, 100}
    Sots <- MCSots
    Owned <- MCOwned
    Rewards = {1, 7}
    Rewardees = {1, 3}
    Options = {1, 2}
    Ages = {0, 9, 15, 60}
    MaxVotes = 3
    Accounts = {u1, u2}
    Lengths <- MCLengths
    ShownDays = {1, 28, 31}
    MaxBookings = 3
    Gains = {0, 1, 3, 50, 100}
    MaxPoints = 1000
    MaxIdle = 7
SYMMETRY Symmetry
INVARIANT FiguresSound
INVARIANT LevelNearPoints
PROPERTY EarningKeepsLevel
CHECK_DEADLOCK FALSE
