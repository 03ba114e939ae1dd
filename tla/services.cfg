\* Service nodes, the explorer's index and the faucet.
SPECIFICATION Spec
CONSTANTS
    None = None
    \* A faucet with two recipients, whose disk fails and that crashes.
    Recipient = {"a1", "a2"}
    FaucetAmount = 2
    MaxPerAddress = 2
    MinInterval = 3
    Second = 2
    Day = 4
    Funds = 3
    Faults = {"crash", "disk"}
    MaxTime = 4
    MaxFaults = 1
    \* A reader of the explorer's index.
    Reader = {"r1"}
    ServedBy = "rpc"
    MaxTx = 2
    MaxChainWork = 3
    Queries = {"status", "stats", "block", "tx", "events"}
    PageSize = 1
INVARIANTS
    IndexIsTrue
    FaucetIsBounded
PROPERTIES
    RecordsAgree
    IndexConverges
CHECK_DEADLOCK FALSE
