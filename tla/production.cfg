\* Mining from a work ledger, up to the limit of the integer width.
SPECIFICATION Spec
CONSTANTS
    Address = {a1, a2}
    FeeCollector = collector
    MaxUint = 6
    MaxNonce = 2
    Maturity = 1
    UnbondingPeriod = 1
    MinStake = 1
    MaxActiveStakes = 1
    MinFee = 0
    BlockSubsidy = 2
    MaxHeight = 4
    MaxTxCount = 3
    Amounts = {1, 2}
    Fees = {0, 1}
    Transactions <- MCTransactions
INVARIANT MinedBlockIsRight
SYMMETRY Symmetry
CHECK_DEADLOCK FALSE
