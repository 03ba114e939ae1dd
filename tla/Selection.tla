----------------------------- MODULE Selection ----------------------------
(***************************************************************************)
(* What SelectWithNonces promises its callers, the miner and the requeueing*)
(* of a reorganisation, stated of every pool that some transactions can    *)
(* form: nonces with gaps, several transactions of one nonce, more than a  *)
(* block has gas for.  The pools grow by one transaction at a time in the  *)
(* behaviours without handlers (ops is empty); the others are those of     *)
(* NodeMempool.                                                            *)
(***************************************************************************)
EXTENDS NodeMempool

CONSTANTS
    Selectable,         \* the transactions of the pools to select from
    MaxPool             \* bound on the transactions of such a pool

ASSUME SelectionAssumption == Selectable \subseteq Transactions /\ MaxPool \in Nat

VARIABLE nonces         \* the next nonce of each sender in the chain

selectionVars == <<vars, nonces>>

SelectionInit ==
    /\ Init
    /\ IF ops = {} THEN nonces \in [Address -> {tx.nonce : tx \in Selectable}] ELSE nonces = None

\* A transaction joins the pool that is selected from.
Arrive(tx) ==
    /\ ops = {} /\ Len(pool) < MaxPool /\ tx \notin ToSet(pool)
    /\ pool' = Append(pool, tx)
    /\ UNCHANGED <<ops, chain, template, locks, at, arg, kept>>

SelectionNext ==
    /\ Next \/ \E tx \in Selectable : Arrive(tx)
    /\ UNCHANGED nonces

SelectionSpec == SelectionInit /\ [][SelectionNext]_selectionVars
---------------------------------------------------------------------------
Selected == SelectWithNonces(pool, nonces)

SentIn(txs, sender) == {i \in DOMAIN txs : txs[i].from = sender}

\* The nonce that follows those of a sender in a sequence of transactions.
Following(txs, sender) == nonces[sender] + Cardinality(SentIn(txs, sender))

\* What is selected of a sender is a run of nonces from the next one on, so a
\* block with these transactions in this order executes, within the gas limit.
SelectionIsExecutable ==
    LET txs == Selected
    IN  /\ TotalGas(txs) <= MaxGasPerBlock
        /\ \A i \in DOMAIN txs : txs[i].nonce = Following(SubSeq(txs, 1, i - 1), txs[i].from)

\* The selection stops only when nothing that may follow fits any more; of
\* several transactions of one nonce only the first is considered.
SelectionIsMaximal ==
    LET txs == Selected
    IN  \A tx \in ToSet(pool) :
            /\ tx.nonce = Following(txs, tx.from)
            /\ \A other \in ToSet(pool) : SameNonce(tx, other) => Rank(tx) <= Rank(other)
            => TotalGas(txs) + GasUsed(tx) > MaxGasPerBlock

\* Two nodes with the same pending transactions select the same ones in the
\* same order, whichever arrived first.
SelectionIgnoresArrival == Selected = SelectWithNonces(ByRank(pool), nonces)

\* What SelectWithNonces returns is pending, executes in its order within the
\* gas limit, leaves out nothing that would still fit, and is the same on two
\* nodes with the same pending transactions.
SelectionIsRight ==
    ops = {} =>
        /\ ToSet(Selected) \subseteq ToSet(pool)
        /\ SelectionIsExecutable
        /\ SelectionIsMaximal
        /\ SelectionIgnoresArrival
===========================================================================
