SPECIFICATION Spec
CONSTANTS
    Handlers = {h1, h2}
    Nobody = Nobody
    EventTypes = {"attendance"}
    MaxDay = 3
    Top = 3
    SomReward <- SmallSom
    StreakPoints <- SmallPoints
    BonusPoints <- SmallBonus
    More = 6
    Window = 2
    OtherPoints = {0}
    MaxPoints = 60
    Absence = 2
SYMMETRY Symmetry
INVARIANT MarksBounded
INVARIANT RewardsBacked
INVARIANT StreakSound
INVARIANT LevelAgrees
CHECK_DEADLOCK FALSE
