SPECIFICATION FairSpec
CONSTANTS
    PctTicks = 12
    Window = 7
INVARIANTS OnlyFreshLost
PROPERTIES NoFalseReport OldLossReported
