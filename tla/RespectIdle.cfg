SPECIFICATION Spec
CONSTANTS
    Gains = {0, 1, 3, 50, 100}
    MaxPoints = 1000
    MaxIdle = 7
PROPERTY IdleIsDemoted
CHECK_DEADLOCK FALSE
