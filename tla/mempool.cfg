\* Three mixes of handlers, and pools to select from.
SPECIFICATION SelectionSpec
CONSTANTS
    Address = {a1, a2}
    Sender = a1
    Receiver = a2
    Miner = a2
    FeeCollector = collector
    MaxUint = 40
    MaxNonce = 3
    Maturity = 0
    UnbondingPeriod = 1
    MinStake = 1
    MaxActiveStakes = 1
    MinFee = 1
    BlockSubsidy = 8
    TxOrder <- MCTxOrder
    MaxTxCount = 3
    MaxGasPerBlock = 1
    Worker = {w1, w2}
    None = None
    Mixes = {{"tx", "block", "template"}, {"send", "template", "mine"}, {"send", "stake", "clear", "block", "reorg", "crash"}, {}}
    Requests <- MCRequests
    PeerTxs <- MCPeerTxs
    Bodies <- MCBodies
    InitialChain <- MCInitialChain
    MaxHeight = 3
    Selectable <- MCSelectable
    MaxPool = 3
INVARIANTS
    PoolIsSound
    PendingIsExecutable
    TemplateIsAccepted
    SelectionIsRight
PROPERTY NothingIsLost
SYMMETRY Symmetry
CHECK_DEADLOCK FALSE
