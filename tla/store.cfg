\* The methods the node uses: one exact state beside one valid chain.
SPECIFICATION Spec
CONSTANTS
    Address = {a1, a2}
    Sender = a1
    Receiver = a2
    FeeCollector = collector
    MaxUint = 5
    MaxNonce = 1
    Maturity = 2
    UnbondingPeriod = 1
    MinStake = 1
    MaxActiveStakes = 1
    MinFee = 0
    BlockSubsidy = 1
    MaxHeight = 5
    NoTip = NoTip
    NoBlock = NoBlock
    NoState = NoState
    Bodies <- MCBodies
INVARIANTS
    StateMatchesChain
    AlwaysOpenable
PROPERTY
    ImplementsCanonicalChain
