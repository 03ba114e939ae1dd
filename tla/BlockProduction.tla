-------------------------- MODULE BlockProduction -------------------------
(***************************************************************************)
(* MineBlockWithContextAndNetwork.  The miner tries pending transactions   *)
(* on a work ledger, cloned from the tip ledger and without the coinbase   *)
(* of the block being built, and skips those that fail.  The block made of *)
(* the others is then executed, coinbase first, on a fresh clone to obtain *)
(* its state root; an error there means that no block can be mined at all. *)
(***************************************************************************)
EXTENDS Blocks

CONSTANTS
    Transactions,   \* the pending transactions of the instance
    MaxHeight,      \* bound on the chain height
    MaxTxCount      \* params.MaxTxCount

ASSUME ProductionAssumption ==
    /\ Transactions \subseteq Transaction
    /\ MaxHeight \in Nat
    /\ MaxTxCount \in Nat \ {0}

VARIABLES
    ledger,     \* the ledger of the canonical tip
    work,       \* workLedger
    chosen,     \* validPending
    mining      \* TRUE while a block is being built

vars == <<ledger, work, chosen, mining>>

Init ==
    /\ ledger = NewMature
    /\ work = NewMature
    /\ chosen = <<>>
    /\ mining = FALSE

StartMining ==
    /\ ~mining
    /\ ledger.height < MaxHeight
    /\ work' = Clone(ledger)
    /\ chosen' = <<>>
    /\ mining' = TRUE
    /\ UNCHANGED ledger

\* Mutated form: every transaction is tried on the tip ledger.
TriedOnTip(tx) == ApplyTransactionAtHeight(ledger, tx, ledger.height + 1)

Tried(tx) == ApplyTransactionAtHeight(work, tx, ledger.height + 1)

\* One turn of the selection loop; SelectWithNonces fixes an order, which the
\* model leaves open.  The loop stops once MaxTxCount transactions are chosen.
TakeTransaction(tx) ==
    /\ mining
    /\ Len(chosen) < MaxTxCount
    /\ Tried(tx).ok
    /\ work' = Tried(tx).ledger
    /\ chosen' = Append(chosen, tx)
    /\ UNCHANGED <<ledger, mining>>

\* An error is skipped with "continue"; the work ledger stays in use.
SkipTransaction(tx) ==
    /\ mining
    /\ Len(chosen) < MaxTxCount
    /\ ~Tried(tx).ok
    /\ work' = Tried(tx).ledger
    /\ UNCHANGED <<ledger, chosen, mining>>

MinedBlock(miner) == [to |-> miner, miner |-> miner, txs |-> chosen]

Candidate(miner) == ApplyBlock(Clone(ledger), MinedBlock(miner))

Done ==
    /\ mining' = FALSE
    /\ work' = NewMature
    /\ chosen' = <<>>

\* validateBlockResources counts the coinbase among the transactions.
HasRoomForCoinbase == Len(chosen) < MaxTxCount

\* The candidate is sealed, passes the resource limits and becomes the tip.
SealBlock(miner) ==
    /\ mining
    /\ Candidate(miner).ok
    /\ HasRoomForCoinbase
    /\ ledger' = Candidate(miner).ledger
    /\ Done

\* "candidate.ApplyBlock" fails, or the mined block is over the limits: the
\* attempt is abandoned.
AbandonBlock(miner) ==
    /\ mining
    /\ Candidate(miner).ok => ~HasRoomForCoinbase
    /\ UNCHANGED ledger
    /\ Done

Next ==
    \/ StartMining
    \/ \E tx \in Transactions : TakeTransaction(tx)
    \/ \E tx \in Transactions : SkipTransaction(tx)
    \/ \E miner \in Address : SealBlock(miner)
    \/ \E miner \in Address : AbandonBlock(miner)

Spec == Init /\ [][Next]_vars
---------------------------------------------------------------------------
\* The types of the Go structs: no balance wraps in the work ledger or in the
\* candidate that becomes the tip.
TypeOK ==
    /\ ledger \in LedgerState
    /\ work \in LedgerState
    /\ chosen \in Seq(Transactions)
    /\ Len(chosen) <= MaxTxCount
    /\ mining \in BOOLEAN

\* As long as the coin issued so far and the next subsidy fit the integer
\* width, whatever transactions the work ledger accepted also execute behind
\* the coinbase, for every miner: mining is never blocked by its own selection.
MinedBlockApplies ==
    mining /\ SumOf(ledger.native) + BlockSubsidy <= MaxUint
        => \A miner \in Address : Candidate(miner).ok

\* The balance a miner ends up with: before settlement the sealed ledger and
\* the work ledger hold the same coin but for the subsidy, so the fees the
\* miner counted on are the fees it is paid.
FeesAreCollected ==
    mining => \A miner \in Address : Candidate(miner).ok =>
        \A a \in Address :
            Candidate(miner).ledger.native[a]
                = work.native[a] + IF a = miner THEN BlockSubsidy + work.native[FeeCollector] ELSE 0

\* Skipped transactions leave no trace in the work ledger: it equals the tip
\* ledger after the chosen transactions alone.
SkipsLeaveNoTrace ==
    mining => ApplyTransactions(Ok(Clone(ledger)), chosen) = Ok(work)

\* What a miner selects without the coinbase always makes a block that applies
\* and pays it the fees it counted on, whatever transactions it skipped on the
\* way: MineBlockWithContextAndNetwork goes on with the work ledger after an
\* error, and gives up when the candidate does not execute.
MinedBlockIsRight == TypeOK /\ MinedBlockApplies /\ FeesAreCollected /\ SkipsLeaveNoTrace
===========================================================================
