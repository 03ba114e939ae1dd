\* A stateless chain cannot be opened, so it cannot be rebuilt either.
SPECIFICATION LegacySpec
CONSTANTS
    Address = {a1, a2}
    Sender = a1
    Receiver = a2
    FeeCollector = collector
    MaxUint = 5
    MaxNonce = 1
    Maturity = 2
    UnbondingPeriod = 1
    MinStake = 1
    MaxActiveStakes = 1
    MinFee = 0
    BlockSubsidy = 1
    MaxHeight = 4
    NoTip = NoTip
    NoBlock = NoBlock
    NoState = NoState
    Bodies <- MCBodies
INVARIANT StateIsRecoverable
CHECK_DEADLOCK FALSE
