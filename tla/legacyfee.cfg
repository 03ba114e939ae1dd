\* Every reported coin is held by somebody: refuted by the fee of a legacy transfer.
SPECIFICATION Spec
CONSTANTS
    Address = {a1, a2}
    FeeCollector = collector
    MaxUint = 5
    MaxNonce = 2
    Maturity = 1
    UnbondingPeriod = 1
    MinStake = 1
    MaxActiveStakes = 2
    MinFee = 0
    BlockSubsidy = 2
    MaxHeight = 5
    MaxTxCount = 1
    Kinds = {"legacy_transfer", "native_transfer"}
    Amounts = {1, 2}
    Fees = {0, 1}
    Transactions <- MCTransactions
INVARIANT SupplyIsHeld
