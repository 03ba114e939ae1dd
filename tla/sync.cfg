\* The scenarios of MCChainSync, every one from its own initial state.
SPECIFICATION Spec
\* Chains up to a height at which locators skip blocks, with work that saturates;
\* block times over two windows, before, at, within and beyond the target.
CONSTANTS
    None = None
    MaxWork = 300
    MaxReorgDepth = 4
    MaxReorgFetchBlocks = 4
    InitialDifficulty = 2
    MinDifficulty = 1
    MaxDifficulty = 3
    RetargetWindow = 3
    TargetBlockTime = 4
    Difficulties = {0, 1, 2}
    Gaps <- MCGaps
    MaxHeight = 11
    MaxMined = 7
INVARIANT ForkChoiceIsSound
PROPERTIES
    RetargetIsSound
    ReorgIsJustified
    CatchesUp
    RoundsEnd
CHECK_DEADLOCK FALSE
