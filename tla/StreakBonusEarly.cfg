SPECIFICATION Spec
CONSTANTS
    Handlers = {h1}
    Nobody = Nobody
    EventTypes = {"attendance"}
    MaxDay = 4
    Top = 3
    SomReward <- SmallSom
    StreakPoints <- SmallPoints
    BonusPoints <- SmallBonus
    More = 2
    Window = 2
    OtherPoints = {}
    MaxPoints = 100
    Absence = 2
SYMMETRY Symmetry
PROPERTY BonusForMore
CHECK_DEADLOCK FALSE
