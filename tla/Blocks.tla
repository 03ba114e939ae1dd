------------------------------ MODULE Blocks ------------------------------
(***************************************************************************)
(* Whole blocks and chains as values: MatureLedger.ApplyBlock in one step, *)
(* the replay of a chain, and the state root.  A chain is the sequence of  *)
(* its blocks after genesis; since a hash commits to a block and, through  *)
(* PreviousHash, to all blocks before it, the chain that ends in a block   *)
(* stands for the hash of that block, and its length for the height.       *)
(***************************************************************************)
EXTENDS Ledger, SequencesExt

\* What a miner chooses: coinbase recipient, MinerAddress and transactions.
Block(txs) == [to : Address, miner : Address, txs : txs]

\* What a loop over a sequence arrives at, one turn for each element.
Loop(Turn(_, _), start, seq) ==
    LET r[n \in 0..Len(seq)] == IF n = 0 THEN start ELSE Turn(r[n - 1], seq[n])
    IN  r[Len(seq)]

\* One turn of the loop over the transactions of a block; the first error ends
\* it.  No transaction moves the height of the ledger.
ApplyTx(r, tx) ==
    IF r.ok THEN ApplyTransactionAtHeight(r.ledger, tx, r.ledger.height + 1) ELSE r

ApplyTransactions(start, txs) ==
    Loop(ApplyTx, start, txs)

\* The state roots of a chain are computed by its miners and recomputed by
\* validateBlock, so they are a function of the chain and not stored in it.
ApplyBlock(l, block) ==
    LET height   == l.height + 1
        begun    == BeginBlock(l, height)
        coinbase == IF CanApplyCoinbase(begun, block.to, BlockSubsidy)
                    THEN Ok(ApplyCoinbaseAtHeight(begun, block.to, BlockSubsidy, height))
                    ELSE Err(begun)
        applied  == ApplyTransactions(coinbase, block.txs)
    IN  IF applied.ok /\ CanSettleFees(applied.ledger, block.miner)
        THEN Ok(FinishBlock(applied.ledger, block.miner, height))
        ELSE Err(Clone(l))

ApplyNext(r, block) == IF r.ok THEN ApplyBlock(r.ledger, block) ELSE r

\* ReplayMatureWithProfile: the ledger of a chain, or the error of its first
\* block that does not apply.
ReplayMature(chain) ==
    Loop(ApplyNext, Ok(NewMature), chain)

ValidChain(chain) == ReplayMature(chain).ok

SnapshotForBlocks(chain) == SnapshotForLedger(ReplayMature(chain).ledger)

\* What the root hashes: accounts, stakes and assets, but neither the height
\* nor the rewards that wait for maturity.
RootForLedger(l) ==
    [confirmed |-> l.confirmed, mature |-> l.mature, nonce |-> l.nonce,
     stakes |-> Clone(l).stakes, defs |-> l.defs, native |-> l.native, token |-> l.token]

\* The StateRoot field of the last block of a chain.
StateRoot(chain) == RootForLedger(ReplayMature(chain).ledger)

\* SnapshotAfterBlock: the incremental path of AddBlock.
SnapshotAfterBlock(snapshot, block) ==
    LET r == ApplyBlock(NewMatureFromState(snapshot), block)
    IN  IF ValidSnapshot(snapshot) /\ r.ok THEN Ok(SnapshotForLedger(r.ledger)) ELSE Err(snapshot)
===========================================================================
