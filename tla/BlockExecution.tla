-------------------------- MODULE BlockExecution --------------------------
(***************************************************************************)
(* MatureLedger.ApplyBlock as a state machine.  A block is opened with its *)
(* coinbase, its transactions are applied one by one, and either the block *)
(* is finished (fees settled, rewards matured) or the first error restores *)
(* the clone taken at the start.  Between blocks the node may reload the   *)
(* ledger from its snapshot, which is how SnapshotAfterBlock executes      *)
(* every block after a restart.                                            *)
(***************************************************************************)
EXTENDS Ledger

CONSTANTS
    Transactions,   \* the transactions that blocks of this instance may carry
    MaxHeight,      \* bound on the chain height
    MaxTxCount      \* params.MaxTxCount: transactions per block

ASSUME ExecutionAssumption ==
    /\ Transactions \subseteq Transaction
    /\ MaxHeight \in Nat
    /\ MaxTxCount \in Nat

VARIABLES
    ledger,     \* the MatureLedger being executed on
    backup,     \* the clone ApplyBlock restores when the block fails
    open,       \* TRUE while a block is being applied
    count,      \* transactions of the open block applied so far
    burned,     \* history: legacy fees of the finished blocks
    burning     \* history: legacy fees of the open block

vars == <<ledger, backup, open, count, burned, burning>>

\* The chain starts from a genesis block without transactions.
Init ==
    /\ ledger = NewMature
    /\ backup = NewMature
    /\ open = FALSE
    /\ count = 0
    /\ burned = 0
    /\ burning = 0

NextHeight == ledger.height + 1

\* The head of applyBlock.  Consensus fixes the position and the amount of the
\* coinbase, but lets its recipient differ from the miner of the block, which
\* is read only when the fees are settled.
OpenBlock(to) ==
    /\ ~open
    /\ ledger.height < MaxHeight
    /\ CanApplyCoinbase(BeginBlock(ledger, NextHeight), to, BlockSubsidy)
    /\ backup' = Clone(ledger)
    /\ ledger' = ApplyCoinbaseAtHeight(BeginBlock(ledger, NextHeight), to, BlockSubsidy, NextHeight)
    /\ open' = TRUE
    /\ UNCHANGED <<count, burned, burning>>

Applied(tx) == ApplyTransactionAtHeight(ledger, tx, NextHeight)

ExecuteTransaction(tx) ==
    /\ open
    /\ count < MaxTxCount
    /\ Applied(tx).ok
    /\ ledger' = Applied(tx).ledger
    /\ count' = count + 1
    /\ burning' = burning + IF tx.kind = "legacy_transfer" THEN tx.fee ELSE 0
    /\ UNCHANGED <<backup, open, burned>>

\* ApplyBlock returns: the backup goes out of scope.
Return ==
    /\ open' = FALSE
    /\ backup' = NewMature
    /\ count' = 0
    /\ burning' = 0

\* *l = *backup
Restore ==
    /\ ledger' = backup
    /\ Return
    /\ UNCHANGED burned

FailTransaction(tx) ==
    /\ open
    /\ count < MaxTxCount
    /\ ~Applied(tx).ok
    /\ Restore

\* The coinbase itself does not fit: the block fails before anything but the
\* refresh done by Clone has changed.
FailCoinbase(to) ==
    /\ ~open
    /\ ledger.height < MaxHeight
    /\ ~CanApplyCoinbase(BeginBlock(ledger, NextHeight), to, BlockSubsidy)
    /\ ledger' = Clone(ledger)
    /\ UNCHANGED <<backup, open, count, burned, burning>>

CloseBlock(miner) ==
    /\ open
    /\ CanSettleFees(ledger, miner)
    /\ ledger' = FinishBlock(ledger, miner, NextHeight)
    /\ burned' = burned + burning
    /\ Return

FailSettlement(miner) ==
    /\ open
    /\ ~CanSettleFees(ledger, miner)
    /\ Restore

\* LoadState and NewMatureFromStateWithAssets after SnapshotForLedger.
Reload ==
    /\ ~open
    /\ ValidSnapshot(SnapshotForLedger(ledger))
    /\ ledger' = NewMatureFromState(SnapshotForLedger(ledger))
    /\ UNCHANGED <<backup, open, count, burned, burning>>

Next ==
    \/ \E to \in Address : OpenBlock(to)
    \/ \E to \in Address : FailCoinbase(to)
    \/ \E tx \in Transactions : ExecuteTransaction(tx)
    \/ \E tx \in Transactions : FailTransaction(tx)
    \/ \E miner \in Address : CloseBlock(miner)
    \/ \E miner \in Address : FailSettlement(miner)
    \/ Reload

Spec == Init /\ [][Next]_vars
---------------------------------------------------------------------------
(***************************************************************************)
(* Properties                                                              *)
(***************************************************************************)

\* Every field of the ledger keeps the type the Go structs give it: no uint64
\* addition or subtraction of the executor wraps (arith.Add, arith.Sub).
TypeOK ==
    /\ ledger \in LedgerState
    /\ backup \in LedgerState
    /\ open \in BOOLEAN
    /\ count \in 0..MaxTxCount
    /\ burned \in Nat
    /\ burning \in Nat

\* The native asset balance of an account equals its confirmed balance, between
\* blocks and in the middle of one: the two copies that spendNative,
\* receiveNative, the coinbase and legacy transfers write never drift apart.
NativeMirror == Mirrored(ledger) /\ Mirrored(backup)

\* What is confirmed but not mature is exactly the rewards still waiting for
\* maturity, so no reward is credited twice or lost by matureCoinbases; and
\* locked and unbonding stake is always covered by the owner's mature balance,
\* whatever sequence of transfers, sponsored fees and stakes it runs.
FundsAreCovered ==
    \A l \in {ledger, backup} : CoinbasesBacked(l) /\ StakesBacked(l)

\* The balances of an issued asset add up to its TotalSupply, which stays under
\* MaxSupply; an asset nobody created has no balance.
TokenSupply == TokensBacked(ledger) /\ TokensBacked(backup)

\* The coinbases of the blocks applied so far (ledger.TotalSupplyWithProfile).
Issued == BlockSubsidy * (ledger.height + IF open THEN 1 ELSE 0)

\* Native coin is created by coinbases alone and leaves the ledger only as the
\* fee of a legacy transfer; version 3 fees are never lost.
NativeSupply == SumOf(ledger.native) + burned + burning = Issued

\* The reported total supply is held by somebody (docs/AssetModel.md: a fee is
\* "debited from the effective fee payer, held in the protocol fee collector,
\* and settled to the block miner").
SupplyIsHeld == SumOf(ledger.native) = Issued

\* Between blocks the fee pool is empty: every collected fee has been settled
\* or its block was rolled back.
FeesSettled == ~open => ledger.native[FeeCollector] = 0

\* The snapshot written after a block passes Snapshot.Validate and reading it
\* back gives the ledger it was taken from, so a restarted node executes the
\* next block on the same state as one that never stopped.
ReloadIsExact ==
    LET s == SnapshotForLedger(ledger)
    IN  ~open => ValidSnapshot(s) /\ NewMatureFromState(s) = Clone(ledger)

\* ApplyTransactionAtHeight leaves the ledger alone when it reports an error,
\* although a legacy transfer writes the accounts before it debits the asset
\* state: the mempool and the miner go on using the ledger after an error.
FailureIsAtomic == \A tx \in Transactions : Applied(tx).ok \/ Applied(tx).ledger = ledger

NonceMoves(a) ==
    \/ ledger'.nonce[a] = ledger.nonce[a]
    \/ open' /\ ledger'.nonce[a] = ledger.nonce[a] + 1
    \/ ~open' /\ open /\ ledger'.nonce = backup.nonce

StakeMoves(s) ==
    (open' \/ ledger'.height > ledger.height) =>
        CASE ledger.stakes[s].status = "released" ->
                ledger'.stakes[s] = ledger.stakes[s]
          [] ledger.stakes[s].status = "unlocking" ->
                /\ ledger'.stakes[s].release = ledger.stakes[s].release
                /\ ledger'.stakes[s].status \in {"unlocking", "released"}
          [] OTHER -> TRUE

\* A nonce moves only when a transaction of that account executes, one at a
\* time, or falls back to the value it had when the failed block was opened; a
\* released stake is final and a stake is never unlocked twice: the release
\* height of an unlocking stake does not move while its block stands.
AccountStep ==
    [][(\A a \in Address : NonceMoves(a)) /\ (\A s \in TxID : StakeMoves(s))]_vars
===========================================================================
