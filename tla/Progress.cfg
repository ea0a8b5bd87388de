SPECIFICATION Spec
CONSTANTS
    b1 = b1
    b2 = b2
    coat = coat
    hood = hood
    Buyers = {b1, b2}
    Items = {coat, hood}
    Funds = 3
    Connections = 3
    MaxStarts = 5
    MaxFaults = 1
    k1 = k1
    c1 = c1
    c2 = c2
    cron = cron
    Keys = {k1}
    Clerks = {c1, c2}
    Cron = cron
    MaxSlips = 2
    Blocks <- MCBlocks
    Attempts = 2
    MaxStalls = 1
    MaxTroubles = 3
    Runs = {b1, b2}
    MaxPrice = 3
    MaxBoots = 3
    MaxFailures = 2
INVARIANT PurchasesSound
PROPERTY SettledForGood
PROPERTY CheckoutsEnd
INVARIANT MediaSound
PROPERTY RowsGo
INVARIANT SotSound
PROPERTY EventsStored
INVARIANT PricesSound
PROPERTY PricesServed
CHECK_DEADLOCK FALSE
