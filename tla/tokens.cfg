\* Issued assets: creation, minting up to a cap, transfer and burning.
SPECIFICATION Spec
CONSTANTS
    Address = {a1, a2}
    FeeCollector = collector
    MaxUint = 4
    MaxNonce = 4
    Maturity = 0
    UnbondingPeriod = 1
    MinStake = 1
    MaxActiveStakes = 1
    MinFee = 1
    BlockSubsidy = 4
    MaxHeight = 2
    MaxTxCount = 4
    Kinds = {"token_transfer", "asset_create", "asset_mint", "asset_burn"}
    Amounts = {0, 2, 3}
    Fees = {1}
    Transactions <- MCTransactions
INVARIANT TokenSupply
SYMMETRY Symmetry
