------------------------------ MODULE Ledger ------------------------------
(***************************************************************************)
(* The replayable account ledger of a node: ledger.MatureLedger with its   *)
(* staking.State and asset.State, on a network whose profile has asset     *)
(* transactions active (TxVersion 3, as in every profile of config.go).    *)
(*                                                                         *)
(* The module has no variables.  A ledger is a record, and every method of *)
(* MatureLedger is an operator on it: a predicate says whether the method  *)
(* succeeds, an operator gives the ledger it leaves behind.  The modules   *)
(* that execute, mine, store and replay blocks share these definitions.    *)
(*                                                                         *)
(* Abstractions.  Signatures, addresses and hashes are assumed to verify:  *)
(* a transaction is identified by its sender and nonce, which is what its  *)
(* ID commits to, and a stake or an issued asset by the transaction that   *)
(* created it (StakeID = tx.ID, AssetID = DerivedID(tx.ID)).  No operation *)
(* of the node freezes an asset, so the asset status has only the values   *)
(* "none" and "active".                                                    *)
(***************************************************************************)
EXTENDS Sums

CONSTANTS
    Address,                \* account addresses of the network
    FeeCollector,           \* asset.FeeCollectorAddress: owns the fee pool
    MaxNonce,               \* bound on account nonces (2^64 - 1 in the node)
    Maturity,               \* params.CoinbaseMaturity
    UnbondingPeriod,        \* params.Staking.UnbondingPeriodBlocks
    MinStake,               \* params.Staking.MinStakeAmount
    MaxActiveStakes,        \* params.Staking.MaxActiveStakesPerAddress, 0: no limit
    MinFee,                 \* fees.MinimumFee of a version 3 transaction
    BlockSubsidy            \* profile.Economic.BlockSubsidy

ASSUME AddressAssumption == IsFiniteSet(Address) /\ FeeCollector \notin Address
ASSUME ParamAssumption ==
    /\ MaxNonce \in Nat
    /\ Maturity \in Nat
    /\ UnbondingPeriod \in Nat
    /\ MinStake \in Nat
    /\ MaxActiveStakes \in Nat
    /\ MinFee \in Nat
    /\ BlockSubsidy \in Uint

Holder == Address \cup {FeeCollector}

\* A transaction ID, and so the ID of the stake or asset the transaction creates.
TxID == Address \X (1..MaxNonce)

LegacyKind == {"legacy_transfer", "stake_lock", "stake_unlock"}
AssetKind == {"native_transfer", "token_transfer",
              "asset_create", "asset_mint", "asset_burn"}

\* amount is the MaxSupply of an asset_create; ref is the asset or the stake
\* that the transaction names.
Transaction ==
    [kind : LegacyKind \cup AssetKind, from : Address, to : Address,
     amount : Uint, fee : Uint, payer : Address, nonce : 1..MaxNonce,
     ref : TxID, mintable : BOOLEAN, burnable : BOOLEAN]

Stake == [status : {"none", "active", "unlocking", "released"},
          owner : Address, amount : Uint, release : Nat]

Definition == [status : {"none", "active"}, issuer : Address, maxSupply : Uint,
               totalSupply : Uint, mintable : BOOLEAN, burnable : BOOLEAN]

CoinbaseCredit == [address : Address, amount : 1..MaxUint, height : Nat]

LedgerState ==
    [confirmed : [Address -> Uint],         \* MatureAccount.Confirmed
     mature    : [Address -> Uint],         \* MatureAccount.Mature
     nonce     : [Address -> 0..MaxNonce],  \* MatureAccount.Nonce
     coinbases : SUBSET CoinbaseCredit,     \* credits still waiting for maturity
     stakes    : [TxID -> Stake],
     defs      : [TxID -> Definition],      \* asset definitions
     native    : [Holder -> Uint],          \* asset balances of the native asset
     token     : [TxID -> [Address -> Uint]],   \* asset balances of issued assets
     height    : Nat]                       \* currentHeight

NewMature ==
    [confirmed |-> [a \in Address |-> 0],
     mature    |-> [a \in Address |-> 0],
     nonce     |-> [a \in Address |-> 0],
     coinbases |-> {},
     stakes    |-> [s \in TxID |-> [status |-> "none", owner |-> s[1],
                                    amount |-> 0, release |-> 0]],
     defs      |-> [t \in TxID |-> [status |-> "none", issuer |-> t[1], maxSupply |-> 0,
                                    totalSupply |-> 0, mintable |-> FALSE, burnable |-> FALSE]],
     native    |-> [h \in Holder |-> 0],
     token     |-> [t \in TxID |-> [a \in Address |-> 0]],
     height    |-> 0]
---------------------------------------------------------------------------
(***************************************************************************)
(* Staking                                                                 *)
(***************************************************************************)

\* Mutated form: a stake disappears when it is released.
DropReleased(stakes, height) ==
    [s \in TxID |->
        IF stakes[s].status = "unlocking" /\ height >= stakes[s].release
        THEN [stakes[s] EXCEPT !.status = "none"]
        ELSE stakes[s]]

\* The stored record with the status it has at a height: the code refreshes
\* every record before it reads one.
RefreshReleased(stakes, height) ==
    [s \in TxID |->
        IF stakes[s].status = "unlocking" /\ height >= stakes[s].release
        THEN [stakes[s] EXCEPT !.status = "released"]
        ELSE stakes[s]]

IsLocked(l, s) == RefreshReleased(l.stakes, l.height)[s].status \in {"active", "unlocking"}

\* active + unlocking of AddressSummary: what the owner may not spend.
Locked(l, a) ==
    SumOf([s \in TxID |-> IF l.stakes[s].owner = a /\ IsLocked(l, s)
                          THEN l.stakes[s].amount ELSE 0])

ActiveCount(l, a) ==
    Cardinality({s \in TxID : l.stakes[s].owner = a /\ l.stakes[s].status = "active"})

MaxActiveReached(l, a) == MaxActiveStakes > 0 /\ ActiveCount(l, a) >= MaxActiveStakes

CanLock(l, tx) ==
    /\ tx.amount >= MinStake
    /\ l.stakes[<<tx.from, tx.nonce>>].status = "none"
    /\ ~MaxActiveReached(l, tx.from)

ApplyLock(l, tx) ==
    [l EXCEPT !.stakes[<<tx.from, tx.nonce>>] =
        [status |-> "active", owner |-> tx.from, amount |-> tx.amount, release |-> 0]]

CanUnlock(l, tx) ==
    /\ l.stakes[tx.ref].status = "active"
    /\ l.stakes[tx.ref].owner = tx.from

ApplyUnlock(l, tx, height) ==
    [l EXCEPT !.stakes[tx.ref].status = "unlocking",
              !.stakes[tx.ref].release = height + UnbondingPeriod]
---------------------------------------------------------------------------
(***************************************************************************)
(* Native balances.  The same amount is kept twice, in the account and in  *)
(* the asset state, and every operation has to move both.                  *)
(***************************************************************************)

\* Mutated form: locked stake may be spent.
SpendIgnoringStake(l, a, n) ==
    n = 0 \/ (l.confirmed[a] >= n /\ l.mature[a] >= n /\ l.native[a] >= n)

ValidateNativeSpend(l, a, n) ==
    \/ n = 0
    \/ /\ l.confirmed[a] >= n
       /\ l.mature[a] >= n
       /\ Locked(l, a) + n <= l.mature[a]
       /\ l.native[a] >= n

\* Mutated form: only the account is debited.
SpendAccountOnly(l, a, n) == [l EXCEPT !.confirmed[a] = @ - n, !.mature[a] = @ - n]

SpendNative(l, a, n) ==
    [l EXCEPT !.confirmed[a] = @ - n, !.mature[a] = @ - n, !.native[a] = @ - n]

\* Mutated form: no overflow check.
ReceiveUnchecked(l, a, n) == TRUE

CanReceiveNative(l, a, n) ==
    /\ l.confirmed[a] + n <= MaxUint
    /\ l.mature[a] + n <= MaxUint
    /\ l.native[a] + n <= MaxUint

ReceiveNative(l, a, n) ==
    [l EXCEPT !.confirmed[a] = @ + n, !.mature[a] = @ + n, !.native[a] = @ + n]

CanChargeNativeFee(l, payer, fee) ==
    /\ ValidateNativeSpend(l, payer, fee)
    /\ l.native[FeeCollector] + fee <= MaxUint

\* Mutated form: the fee is debited and not collected.
ChargeUncollected(l, payer, fee) == SpendNative(l, payer, fee)

ChargeNativeFee(l, payer, fee) ==
    [SpendNative(l, payer, fee) EXCEPT !.native[FeeCollector] = @ + fee]

CanSettleFees(l, miner) ==
    LET pool == l.native[FeeCollector]
    IN  CanReceiveNative(l, miner, pool)

\* Mutated forms: the pool is paid out and kept, or emptied and not paid out.
SettleKeepingPool(l, miner) == ReceiveNative(l, miner, l.native[FeeCollector])
SettleUnpaid(l, miner) == [l EXCEPT !.native[FeeCollector] = 0]

SettleFees(l, miner) ==
    LET pool == l.native[FeeCollector]
    IN  ReceiveNative([l EXCEPT !.native[FeeCollector] = 0], miner, pool)
---------------------------------------------------------------------------
(***************************************************************************)
(* Issued assets                                                           *)
(***************************************************************************)

CanTransfer(l, tx) ==
    /\ tx.amount > 0
    /\ tx.from # tx.to
    /\ l.defs[tx.ref].status = "active"
    /\ l.token[tx.ref][tx.from] >= tx.amount
    /\ l.token[tx.ref][tx.to] + tx.amount <= MaxUint

Transfer(l, tx) ==
    [l EXCEPT !.token[tx.ref] =
        [l.token[tx.ref] EXCEPT ![tx.from] = @ - tx.amount, ![tx.to] = @ + tx.amount]]

CanCreate(l, tx) == l.defs[<<tx.from, tx.nonce>>].status = "none"

CreateFromTransactionID(l, tx) ==
    [l EXCEPT !.defs[<<tx.from, tx.nonce>>] =
        [status |-> "active", issuer |-> tx.from, maxSupply |-> tx.amount,
         totalSupply |-> 0, mintable |-> tx.mintable, burnable |-> tx.burnable]]

\* Mutated form: MaxSupply is not enforced.
CanMintUncapped(l, tx) ==
    LET def == l.defs[tx.ref]
    IN  /\ tx.amount > 0
        /\ def.status = "active" /\ def.mintable /\ def.issuer = tx.from
        /\ def.totalSupply + tx.amount <= MaxUint
        /\ l.token[tx.ref][tx.to] + tx.amount <= MaxUint

CanMint(l, tx) ==
    LET def == l.defs[tx.ref]
    IN  /\ tx.amount > 0
        /\ def.status = "active"
        /\ def.mintable
        /\ def.issuer = tx.from
        /\ def.totalSupply + tx.amount <= MaxUint
        /\ def.maxSupply > 0 => def.totalSupply + tx.amount <= def.maxSupply
        /\ l.token[tx.ref][tx.to] + tx.amount <= MaxUint

\* Mutated form: TotalSupply is not updated.
MintUncounted(l, tx) == [l EXCEPT !.token[tx.ref][tx.to] = @ + tx.amount]

Mint(l, tx) ==
    [l EXCEPT !.token[tx.ref][tx.to] = @ + tx.amount,
              !.defs[tx.ref].totalSupply = @ + tx.amount]

CanBurn(l, tx) ==
    LET def == l.defs[tx.ref]
    IN  /\ tx.amount > 0
        /\ def.status = "active"
        /\ def.burnable
        /\ def.totalSupply >= tx.amount
        /\ l.token[tx.ref][tx.from] >= tx.amount

Burn(l, tx) ==
    [l EXCEPT !.token[tx.ref][tx.from] = @ - tx.amount,
              !.defs[tx.ref].totalSupply = @ - tx.amount]
---------------------------------------------------------------------------
(***************************************************************************)
(* Transactions                                                            *)
(***************************************************************************)

\* Mutated form: a gap in the nonces is accepted.
NonceGap(l, tx) == tx.nonce > l.nonce[tx.from]

ExpectedNonce(l, tx) == tx.nonce = l.nonce[tx.from] + 1

\* ValidateTransaction for versions 1 and 2, which stay valid once version 3
\* is active.
ValidateLegacyTransaction(l, tx) ==
    /\ ExpectedNonce(l, tx)
    /\ \/ /\ tx.kind = "legacy_transfer"
          /\ tx.amount > 0
          /\ tx.from # tx.to
          /\ tx.amount + tx.fee <= l.confirmed[tx.from]
          /\ tx.amount + tx.fee <= l.mature[tx.from]
          /\ Locked(l, tx.from) + tx.amount + tx.fee <= l.mature[tx.from]
       \/ /\ tx.kind = "stake_lock"
          /\ tx.amount > 0
          /\ tx.amount >= MinStake
          /\ Locked(l, tx.from) + tx.amount <= l.mature[tx.from]
          /\ ~MaxActiveReached(l, tx.from)
       \/ /\ tx.kind = "stake_unlock"
          /\ l.stakes[tx.ref].owner = tx.from
          /\ l.stakes[tx.ref].status = "active"

ValidateAssetTransactionV3(l, tx) ==
    /\ tx.fee >= MinFee
    /\ ExpectedNonce(l, tx)
    /\ \/ /\ tx.kind = "native_transfer"
          /\ tx.amount > 0
          /\ tx.from # tx.to
          /\ IF tx.payer = tx.from
             THEN ValidateNativeSpend(l, tx.from, tx.amount + tx.fee)
             ELSE /\ ValidateNativeSpend(l, tx.from, tx.amount)
                  /\ ValidateNativeSpend(l, tx.payer, tx.fee)
          /\ l.native[tx.from] >= tx.amount
       \/ /\ tx.kind = "token_transfer"
          /\ tx.amount > 0
          /\ tx.from # tx.to
          /\ l.token[tx.ref][tx.from] >= tx.amount
          /\ ValidateNativeSpend(l, tx.payer, tx.fee)
       \/ /\ tx.kind = "asset_create"
          /\ CanCreate(l, tx)
          /\ ValidateNativeSpend(l, tx.payer, tx.fee)
       \/ /\ tx.kind = "asset_mint"
          /\ CanMint(l, tx)
          /\ ValidateNativeSpend(l, tx.payer, tx.fee)
       \/ /\ tx.kind = "asset_burn"
          /\ CanBurn(l, tx)
          /\ ValidateNativeSpend(l, tx.payer, tx.fee)

ValidateTransaction(l, tx) ==
    IF tx.kind \in AssetKind
    THEN ValidateAssetTransactionV3(l, tx)
    ELSE ValidateLegacyTransaction(l, tx)

Ok(l) == [ok |-> TRUE, ledger |-> l]
Err(l) == [ok |-> FALSE, ledger |-> l]

SetNonce(l, tx) == [l EXCEPT !.nonce[tx.from] = tx.nonce]

\* The accounts are written before the asset state is touched, and nothing
\* undoes them when the debit or the credit fails.  The fee leaves the sender
\* and reaches nobody.
ApplyLegacyTransfer(l, tx) ==
    LET cost == tx.amount + tx.fee
        Moved(f) == [f EXCEPT ![tx.from] = @ - cost, ![tx.to] = @ + tx.amount]
        paid  == [l EXCEPT !.confirmed = Moved(l.confirmed), !.mature = Moved(l.mature),
                           !.nonce[tx.from] = tx.nonce]
        debit == [paid EXCEPT !.native[tx.from] = @ - cost]
    IN  CASE \/ l.confirmed[tx.to] + tx.amount > MaxUint
             \/ l.mature[tx.to] + tx.amount > MaxUint      -> Err(l)
          [] /\ l.confirmed[tx.to] + tx.amount <= MaxUint
             /\ l.mature[tx.to] + tx.amount <= MaxUint
             /\ l.native[tx.from] < cost                   -> Err(paid)
          [] /\ l.confirmed[tx.to] + tx.amount <= MaxUint
             /\ l.mature[tx.to] + tx.amount <= MaxUint
             /\ l.native[tx.from] >= cost
             /\ l.native[tx.to] + tx.amount > MaxUint      -> Err(debit)
          [] OTHER -> Ok([l EXCEPT !.confirmed = Moved(l.confirmed), !.mature = Moved(l.mature),
                                   !.native = Moved(l.native), !.nonce[tx.from] = tx.nonce])

ApplyLegacy(l, tx, height) ==
    CASE tx.kind = "legacy_transfer" -> ApplyLegacyTransfer(l, tx)
      [] tx.kind = "stake_lock" ->
            IF CanLock(l, tx) THEN Ok(SetNonce(ApplyLock(l, tx), tx)) ELSE Err(l)
      [] tx.kind = "stake_unlock" ->
            IF CanUnlock(l, tx) THEN Ok(SetNonce(ApplyUnlock(l, tx, height), tx)) ELSE Err(l)

\* Runs the steps of a version 3 transaction in order; any failure restores the
\* ledger cloned at the start.
ApplyAssetTransactionV3(l, tx) ==
    LET Charged(m) == SetNonce(ChargeNativeFee(m, tx.payer, tx.fee), tx)
        Step(can, m) == IF can /\ CanChargeNativeFee(m, tx.payer, tx.fee)
                        THEN Ok(Charged(m)) ELSE Err(l)
        spent == SpendNative(l, tx.from, tx.amount)
    IN  CASE tx.kind = "native_transfer" ->
                IF /\ ValidateNativeSpend(l, tx.from, tx.amount)
                   /\ CanChargeNativeFee(spent, tx.payer, tx.fee)
                   /\ CanReceiveNative(Charged(spent), tx.to, tx.amount)
                THEN Ok(ReceiveNative(Charged(spent), tx.to, tx.amount))
                ELSE Err(l)
          [] tx.kind = "token_transfer" -> Step(CanTransfer(l, tx), Transfer(l, tx))
          [] tx.kind = "asset_create" -> Step(CanCreate(l, tx), CreateFromTransactionID(l, tx))
          [] tx.kind = "asset_mint" -> Step(CanMint(l, tx), Mint(l, tx))
          [] tx.kind = "asset_burn" -> Step(CanBurn(l, tx), Burn(l, tx))

\* Mutated form: a refused transaction uses up its nonce.
ApplyConsumingNonce(l, tx, height) ==
    CASE ~ValidateTransaction(l, tx) -> Err(SetNonce(l, tx))
      [] OTHER -> IF tx.kind \in AssetKind
                  THEN ApplyAssetTransactionV3(l, tx)
                  ELSE ApplyLegacy(l, tx, height)

ApplyTransactionAtHeight(l, tx, height) ==
    CASE ~ValidateTransaction(l, tx) -> Err(l)
      [] OTHER -> IF tx.kind \in AssetKind
                  THEN ApplyAssetTransactionV3(l, tx)
                  ELSE ApplyLegacy(l, tx, height)
---------------------------------------------------------------------------
(***************************************************************************)
(* Blocks                                                                  *)
(***************************************************************************)

DueCredit(credits, a) ==
    SumOf([c \in credits |-> IF c.address = a THEN c.amount ELSE 0])

\* Mutated form: a reward stays pending after it was paid.
MatureForever(l, height) ==
    LET due     == {c \in l.coinbases : c.height + Maturity <= height}
        Fits(a) == l.mature[a] + DueCredit(due, a) <= MaxUint
    IN  [l EXCEPT !.mature = [a \in Address |-> IF Fits(a) THEN l.mature[a] + DueCredit(due, a)
                                                          ELSE l.mature[a]]]

\* Credits whose addition would overflow stay pending.  The code adds them one
\* by one, the model per account; FundsAreCovered shows that they always fit.
MatureCoinbases(l, height) ==
    LET due     == {c \in l.coinbases : c.height + Maturity <= height}
        Fits(a) == l.mature[a] + DueCredit(due, a) <= MaxUint
    IN  [l EXCEPT !.mature = [a \in Address |-> IF Fits(a) THEN l.mature[a] + DueCredit(due, a)
                                                          ELSE l.mature[a]],
                  !.coinbases = {c \in l.coinbases : ~(c \in due /\ Fits(c.address))}]

\* Mutated form: no overflow check.
CoinbaseUnchecked(l, to, amount) == TRUE

CanApplyCoinbase(l, to, amount) ==
    /\ l.confirmed[to] + amount <= MaxUint
    /\ l.native[to] + amount <= MaxUint

ApplyCoinbaseAtHeight(l, to, amount, height) ==
    [l EXCEPT !.confirmed[to] = @ + amount,
              !.native[to] = @ + amount,
              !.coinbases = @ \cup IF amount = 0 THEN {}
                                   ELSE {[address |-> to, amount |-> amount, height |-> height]}]

\* Clone copies the records that Records(currentHeight) has just refreshed.
Clone(l) == [l EXCEPT !.stakes = RefreshReleased(@, l.height)]

\* The two ends of applyBlock, around its loop over the transactions.
BeginBlock(l, height) == MatureCoinbases(Clone(l), height - 1)

FinishBlock(l, miner, height) ==
    MatureCoinbases([SettleFees(l, miner) EXCEPT !.height = height], height)
---------------------------------------------------------------------------
(***************************************************************************)
(* Persistence.  SnapshotForLedger keeps everything but refreshes the      *)
(* stakes; NewMatureFromStateWithAssets reads a snapshot back and forces   *)
(* the native balance of every account to the confirmed one.               *)
(***************************************************************************)

\* Mutated form: the stakes are written as they are stored.
SnapshotUnrefreshed(l) == l

SnapshotForLedger(l) == Clone(l)

\* The part of Snapshot.Validate that can fail on a snapshot of a ledger.
ValidSnapshot(s) ==
    /\ \A a \in Address : s.native[a] = s.confirmed[a]
    /\ \A c \in s.coinbases : c.height <= s.height
    /\ \A c, d \in s.coinbases :
            c.height = d.height /\ c.address = d.address => c = d
    /\ \A t \in TxID : s.defs[t].maxSupply > 0 => s.defs[t].totalSupply <= s.defs[t].maxSupply

NewMatureFromState(s) ==
    [s EXCEPT !.native = [h \in Holder |-> IF h \in Address THEN s.confirmed[h] ELSE @[h]]]
---------------------------------------------------------------------------
(***************************************************************************)
(* What a ledger has to satisfy; the modules that execute blocks state     *)
(* these as invariants of the ledgers they keep.                           *)
(***************************************************************************)

Mirrored(l) == \A a \in Address : l.native[a] = l.confirmed[a]

CoinbasesBacked(l) ==
    \A a \in Address : l.confirmed[a] = l.mature[a] + DueCredit(l.coinbases, a)

StakesBacked(l) == \A a \in Address : Locked(l, a) <= l.mature[a]

TokensBacked(l) ==
    \A t \in TxID :
        /\ SumOf(l.token[t]) = l.defs[t].totalSupply
        /\ l.defs[t].maxSupply > 0 => l.defs[t].totalSupply <= l.defs[t].maxSupply
        /\ l.defs[t].status = "none" => l.defs[t].totalSupply = 0
===========================================================================
