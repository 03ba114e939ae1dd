------------------------------ MODULE Mempool -----------------------------
(***************************************************************************)
(* The rules of the mempool as operators: what Admit checks, what a        *)
(* revalidation keeps, what a reorganisation requeues, and the two ways in *)
(* which a block is filled.  A pool is the sequence of transactions in the *)
(* mempool file, a transaction stands for its ID, and gas is one unit for  *)
(* a version 3 transaction and nothing for a legacy one.                   *)
(***************************************************************************)
EXTENDS Blocks

CONSTANTS
    TxOrder,            \* all transactions, in the order of sender, nonce and ID
    MaxTxCount,         \* Consensus.MaxTxCount
    MaxGasPerBlock      \* Consensus.MaxGasPerBlock

ASSUME MempoolAssumption ==
    /\ TxOrder \in Seq(Transaction)
    /\ \A i, j \in DOMAIN TxOrder :
          i < j => /\ TxOrder[i] # TxOrder[j]
                   /\ TxOrder[i].from = TxOrder[j].from => TxOrder[i].nonce <= TxOrder[j].nonce
    /\ MaxTxCount \in Nat \ {0}
    /\ MaxGasPerBlock \in Nat \ {0}

Transactions == ToSet(TxOrder)

\* The transactions of a sequence that are in a set, in their order.
KeepMember(acc, tx) == IF tx \in acc.set THEN [acc EXCEPT !.txs = Append(@, tx)] ELSE acc

Among(txs, set) == Loop(KeepMember, [set |-> set, txs |-> <<>>], txs).txs

Rank(tx) == CHOOSE i \in DOMAIN TxOrder : TxOrder[i] = tx

\* Sorted by sender, nonce and ID, and without duplicates.
ByRank(txs) == Among(TxOrder, ToSet(txs))

GasUsed(tx) == IF tx.kind \in LegacyKind THEN 0 ELSE 1

AddGas(gas, tx) == gas + GasUsed(tx)

TotalGas(txs) == Loop(AddGas, 0, txs)

\* ValidateForRevalidation: version, fee and envelope, without any state.
ValidateForRevalidation(tx) == tx.kind \in AssetKind => tx.fee >= MinFee

SameNonce(tx, other) == tx.from = other.from /\ tx.nonce = other.nonce

\* Mutated form: the gas of the new transaction is not counted.
AdmitsUncounted(pool, tx) ==
    /\ ValidateForRevalidation(tx)
    /\ \A other \in ToSet(pool) : other # tx /\ ~SameNonce(tx, other)
    /\ Len(pool) < MaxTxCount
    /\ TotalGas(pool) <= MaxGasPerBlock

\* The checks of Admit, made on a pool that Admit has loaded before it adds.
Admits(pool, tx) ==
    /\ ValidateForRevalidation(tx)
    /\ \A other \in ToSet(pool) : other # tx /\ ~SameNonce(tx, other)
    /\ Len(pool) < MaxTxCount
    /\ TotalGas(pool) + GasUsed(tx) <= MaxGasPerBlock

\* Add, under the lock of the file: only the ID is compared again.
Add(pool, tx) == IF tx \in ToSet(pool) THEN pool ELSE Append(pool, tx)

RemoveIDs(pool, txs) == Among(pool, ToSet(pool) \ txs)

Confirmed(chain) == UNION {ToSet(chain[i].txs) : i \in DOMAIN chain}

LedgerOf(chain) == ReplayMature(chain).ledger

ApplyTransaction(l, tx) == ApplyTransactionAtHeight(l, tx, l.height)

\* The ledger after those transactions of a sequence that apply.
ApplyIfValid(work, tx) == ApplyTransaction(work, tx).ledger

ApplyPending(l, txs) == Loop(ApplyIfValid, Clone(l), txs)

\* One turn of a loop that keeps what applies to its work ledger, at most room
\* transactions.  The work ledger stays in use after an error.
Keeping(l, room) == [work |-> Clone(l), kept |-> <<>>, room |-> room]

KeepApplicable(acc, tx, height) ==
    LET r == ApplyTransactionAtHeight(acc.work, tx, height)
    IN  [acc EXCEPT !.work = r.ledger, !.kept = IF r.ok THEN Append(@, tx) ELSE @]

HasRoom(acc) == Len(acc.kept) < acc.room

\* revalidateTransactions: what stays pending beside a chain.
Revalidate(acc, tx) ==
    IF ValidateForRevalidation(tx) /\ HasRoom(acc) THEN KeepApplicable(acc, tx, acc.work.height) ELSE acc

RevalidateTransactions(pool, chain) ==
    Loop(Revalidate, Keeping(LedgerOf(chain), MaxTxCount), ByRank(RemoveIDs(pool, Confirmed(chain)))).kept
---------------------------------------------------------------------------
(* SelectWithNonces.                                                       *)

\* Per sender: skip used nonces, stop at the first gap, the first ID of a nonce.
Extend(run, tx) ==
    IF tx.nonce = run.next THEN [next |-> run.next + 1, txs |-> Append(run.txs, tx)] ELSE run

SentBy(sender, txs) == {tx \in ToSet(txs) : tx.from = sender}

\* Mutated form: the transactions of a sender are not sorted.
ReadyUnsorted(pool, next, sender) ==
    Loop(Extend, [next |-> next[sender], txs |-> <<>>], Among(pool, SentBy(sender, pool))).txs

Ready(pool, next, sender) ==
    Loop(Extend, [next |-> next[sender], txs |-> <<>>],
         Among(ByRank(pool), SentBy(sender, pool))).txs

\* higherPriority: fee per gas, fee, less gas, ID.
HigherPriority(a, b) ==
    LET left == a.fee * GasUsed(b)
        right == b.fee * GasUsed(a)
    IN  \/ left > right
        \/ left = right /\ a.fee > b.fee
        \/ left = right /\ a.fee = b.fee /\ GasUsed(a) < GasUsed(b)
        \/ left = right /\ a.fee = b.fee /\ GasUsed(a) = GasUsed(b) /\ Rank(a) < Rank(b)

\* Mutated form: all that is ready competes, not only the heads.
SelectIgnoringNonces(pool, next) ==
    SortSeq(pool, LAMBDA x, y : HigherPriority(x, y))

Heads(acc) == {Head(acc.lists[a]) : a \in {b \in Address : acc.lists[b] # <<>>}}

Fits(acc, tx) == TotalGas(acc.out) + GasUsed(tx) <= MaxGasPerBlock

Best(txs) == CHOOSE x \in txs : \A y \in txs \ {x} : HigherPriority(x, y)

Take(acc, tx) == [lists |-> [acc.lists EXCEPT ![tx.from] = Tail(@)], out |-> Append(acc.out, tx)]

\* Mutated form: a transaction that does not fit ends the selection.
TakeUntilFull(acc, turn) ==
    IF Heads(acc) # {} /\ Fits(acc, Best(Heads(acc))) THEN Take(acc, Best(Heads(acc))) ELSE acc

\* The heads of the senders compete for the remaining gas, one per turn.
TakeBest(acc, turn) ==
    LET heads == {tx \in Heads(acc) : Fits(acc, tx)}
    IN  IF heads = {} THEN acc ELSE Take(acc, Best(heads))

SelectWithNonces(pool, next) ==
    Loop(TakeBest, [lists |-> [a \in Address |-> Ready(pool, next, a)], out |-> <<>>], pool).out

NextNonce(l) == [a \in Address |-> l.nonce[a] + 1]
---------------------------------------------------------------------------
(* Filling a block and requeueing a disconnected one.                      *)

Resources(block) == Len(block.txs) + 1 <= MaxTxCount /\ TotalGas(block.txs) <= MaxGasPerBlock

\* Mutated form: every transaction is tried on the tip alone.
FillFromTip(chain, txs, max) ==
    LET l == LedgerOf(chain)
    IN  SelectSeq(txs, LAMBDA tx : l.mature[tx.from] >= tx.amount)

\* The loop that tries transactions on a work ledger, until it has max of them.
TryNext(acc, tx) == IF HasRoom(acc) THEN KeepApplicable(acc, tx, acc.work.height + 1) ELSE acc

Fill(chain, txs, max) == Loop(TryNext, Keeping(LedgerOf(chain), max), txs).kept

\* blockTemplate of the RPC server: the pool in the order of the file.
BlockTemplate(chain, pool, miner) ==
    [to |-> miner, miner |-> miner, txs |-> Fill(chain, pool, Len(pool))]

\* MineBlockWithContextAndNetwork: the selected transactions, at most MaxTxCount.
MinedBlock(chain, pending, miner) ==
    LET selected == SelectWithNonces(pending, NextNonce(LedgerOf(chain)))
    IN  [to |-> miner, miner |-> miner,
         txs |-> Fill(chain, selected, MaxTxCount)]

\* validateBlock within AddBlock: the block executes and keeps the limits.
Accepts(chain, block) == ValidChain(Append(chain, block)) /\ Resources(block)

\* ApplyReorg: the pending transactions, then the orphans in the order of a Go
\* map, which is any order, and all of them through SelectWithNonces.
RequeueNext(acc, tx) == IF tx \in ToSet(acc.kept) THEN acc ELSE KeepApplicable(acc, tx, acc.work.height)

Requeue(pool, orphans, chain) ==
    LET l     == LedgerOf(chain)
        kept  == RevalidateTransactions(pool, chain)
        start == [work |-> ApplyPending(l, kept), kept |-> kept, room |-> MaxTxCount]
    IN  SelectWithNonces(Loop(RequeueNext, start, orphans).kept, NextNonce(l))
===========================================================================
