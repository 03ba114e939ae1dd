\* The legacy methods next to the ones the node uses.
SPECIFICATION LegacySpec
CONSTANTS
    Address = {a1, a2}
    Sender = a1
    Receiver = a2
    FeeCollector = collector
    MaxUint = 5
    MaxNonce = 1
    Maturity = 2
    UnbondingPeriod = 1
    MinStake = 1
    MaxActiveStakes = 1
    MinFee = 0
    BlockSubsidy = 1
    MaxHeight = 4
    NoTip = NoTip
    NoBlock = NoBlock
    NoState = NoState
    Bodies <- MCBodies
INVARIANTS
    TrustedStateIsExact
    ValidBlocksAreAccepted
CHECK_DEADLOCK FALSE
