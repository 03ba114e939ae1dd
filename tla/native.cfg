\* Native coin and staking, at the limit of the integer width.
SPECIFICATION Spec
CONSTANTS
    Address = {a1, a2}
    FeeCollector = collector
    MaxUint = 5
    MaxNonce = 3
    Maturity = 1
    UnbondingPeriod = 1
    MinStake = 1
    MaxActiveStakes = 2
    MinFee = 0
    BlockSubsidy = 2
    MaxHeight = 5
    MaxTxCount = 2
    Kinds = {"legacy_transfer", "native_transfer", "stake_lock", "stake_unlock"}
    Amounts = {1, 2}
    Fees = {0, 1}
    Transactions <- MCTransactions
INVARIANTS
    TypeOK
    NativeMirror
    FundsAreCovered
    NativeSupply
    FeesSettled
    ReloadIsExact
    FailureIsAtomic
PROPERTY AccountStep
