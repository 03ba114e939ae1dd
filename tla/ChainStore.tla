---------------------------- MODULE ChainStore ----------------------------
(***************************************************************************)
(* chain.Blockchain over storage.BoltStore.  The database has three parts: *)
(* the blocks by height, the tip key and the persisted state.  Every write *)
(* is one bbolt transaction, and a handle excludes every other one (bbolt  *)
(* locks the file), so an operation between opening and closing the        *)
(* database is one step; a crash closes the handle.                        *)
(***************************************************************************)
EXTENDS Blocks

CONSTANTS
    Bodies,     \* the blocks that miners of the instance can produce
    MaxHeight,  \* bound on the chain height
    NoTip,      \* the tip key is absent
    NoBlock,    \* no block under a height
    NoState     \* no persisted state

ASSUME StoreAssumption ==
    /\ IsFiniteSet(Bodies)
    /\ Bodies \subseteq Block(Seq(Transaction))
    /\ MaxHeight \in Nat
    /\ NoTip \notin Nat
    /\ NoBlock \notin Seq(Bodies)
    /\ NoState \notin LedgerState

VARIABLES
    blocks,     \* blocks bucket: height -> the block, named by the chain it ends
    tip,        \* the height under tipKey
    state,      \* the state buckets
    opened      \* TRUE while some operation holds the database

vars == <<blocks, tip, state, opened>>

Height == 0..MaxHeight

\* Chains another node may offer: BuildReorgPlan validates the whole chain.
ValidChains == {chain \in UNION {[1..n -> Bodies] : n \in 1..MaxHeight} : ValidChain(chain)}

Init ==
    /\ blocks = [h \in Height |-> NoBlock]
    /\ tip = NoTip
    /\ state = NoState
    /\ opened = FALSE
---------------------------------------------------------------------------
HasChain == tip # NoTip

\* BoltStore.Blocks reads the bucket in key order, whatever the tip is; the
\* last one read is the tip that AddBlock builds on.
StoredHeights == {h \in Height : blocks[h] # NoBlock}
Stored == blocks[Max(StoredHeights)]

LoadState == state # NoState /\ ValidSnapshot(state)

SnapshotMatchesTip(snapshot, chain) ==
    /\ snapshot.height = Len(chain)
    /\ RootForLedger(snapshot) = StateRoot(chain)

ValidateChainStateConsistency ==
    /\ blocks[tip] # NoBlock
    /\ state # NoState
    /\ SnapshotMatchesTip(state, blocks[tip])

ValidateStartupIntegrity == HasChain => ValidateChainStateConsistency /\ LoadState

OpenBolt ==
    /\ ~opened
    /\ ValidateStartupIntegrity
    /\ opened' = TRUE
    /\ UNCHANGED <<blocks, tip, state>>

\* Close, or a crash of the process: nothing is half written.
Close ==
    /\ opened
    /\ opened' = FALSE
    /\ UNCHANGED <<blocks, tip, state>>

\* InitWithProfile on an empty database.
InitGenesis ==
    /\ opened
    /\ ~HasChain
    /\ blocks' = [blocks EXCEPT ![0] = <<>>]
    /\ tip' = 0
    /\ state' = SnapshotForBlocks(<<>>)
    /\ UNCHANGED opened

\* validateCanonicalCommitPreconditionsTx
ExtendsTip(chain) ==
    /\ HasChain
    /\ blocks[tip] # NoBlock
    /\ Len(chain) = Len(blocks[tip]) + 1
    /\ Front(chain) = blocks[tip]

\* Mutated form: any stored state is taken for the state of the tip.
NextSnapshotUnchecked(body) ==
    IF LoadState THEN SnapshotAfterBlock(state, body)
                 ELSE Ok(SnapshotForBlocks(Append(Stored, body)))

\* The snapshot AddBlock persists: incremental when the stored state belongs
\* to the tip, a full replay otherwise.
NextSnapshot(body) ==
    IF LoadState /\ SnapshotMatchesTip(state, Stored)
    THEN SnapshotAfterBlock(state, body)
    ELSE Ok(SnapshotForBlocks(Append(Stored, body)))

\* The checks on the state to be committed, in SnapshotAfterBlock and in
\* validateBlockStatePair.
CanCommit(snapshot, chain) ==
    /\ snapshot.ok
    /\ ValidSnapshot(snapshot.ledger)
    /\ SnapshotMatchesTip(snapshot.ledger, chain)
    /\ ExtendsTip(chain)

AddBlock(body) ==
    LET chain    == Append(Stored, body)
        snapshot == NextSnapshot(body)
    IN  /\ opened
        /\ HasChain
        /\ Len(chain) \in Height
        /\ ValidChain(chain)
        /\ CanCommit(snapshot, chain)
        /\ blocks' = [blocks EXCEPT ![Len(chain)] = chain]
        /\ tip' = Len(chain)
        /\ state' = snapshot.ledger
        /\ UNCHANGED opened

\* The block that ends at height h of the chain.
BlockAt(chain, h) == SubSeq(chain, 1, h)

\* Mutated form: old blocks above the new branch stay.
ReplacedKeepingRest(from, chain) ==
    [h \in Height |-> IF h \in from..Len(chain) THEN BlockAt(chain, h) ELSE blocks[h]]

\* replaceFromHeightTx on the blocks: everything from the fork upwards is
\* deleted, also when the new branch is shorter than the old one.
Replaced(from, chain) ==
    [h \in Height |-> IF h < from THEN blocks[h]
                      ELSE IF h <= Len(chain) THEN BlockAt(chain, h) ELSE NoBlock]

CanReplace(from, chain) ==
    /\ HasChain
    /\ from <= tip
    /\ from <= Len(chain)
    /\ blocks[from - 1] = BlockAt(chain, from - 1)

\* Mutated form: the state is left to a later write.
ReplaceKeepingState(from, chain) ==
    /\ opened
    /\ CanReplace(from, chain)
    /\ blocks' = Replaced(from, chain)
    /\ tip' = Len(chain)
    /\ UNCHANGED <<state, opened>>

\* ReplaceFromHeightWithNetwork, the last step of a reorganisation: the blocks
\* of the chain from that height on replace the stored ones.  The plan was made
\* before the database was opened, so its prefix may no longer be stored.
ReplaceFromHeight(from, chain) ==
    /\ opened
    /\ CanReplace(from, chain)
    /\ blocks' = Replaced(from, chain)
    /\ tip' = Len(chain)
    /\ state' = SnapshotForBlocks(chain)
    /\ UNCHANGED opened

RebuildState ==
    LET snapshot == SnapshotForBlocks(Stored)
    IN  /\ opened
        /\ HasChain
        /\ ValidSnapshot(snapshot)
        /\ SnapshotMatchesTip(snapshot, blocks[tip])
        /\ state' = snapshot
        /\ UNCHANGED <<blocks, tip, opened>>

Next ==
    \/ OpenBolt
    \/ Close
    \/ InitGenesis
    \/ \E body \in Bodies : AddBlock(body)
    \/ \E from \in 1..MaxHeight, chain \in ValidChains : ReplaceFromHeight(from, chain)
    \/ RebuildState

Spec == Init /\ [][Next]_vars
---------------------------------------------------------------------------
(***************************************************************************)
(* The block-only and state-only methods that the store interface keeps    *)
(* for callers that predate the persisted state.                           *)
(***************************************************************************)

SaveBlock(body) ==
    LET chain == Append(Stored, body)
    IN  /\ opened
        /\ HasChain
        /\ Len(chain) \in Height
        /\ ValidChain(chain)
        /\ ExtendsTip(chain)
        /\ blocks' = [blocks EXCEPT ![Len(chain)] = chain]
        /\ tip' = Len(chain)
        /\ UNCHANGED <<state, opened>>

DeleteState ==
    /\ opened
    /\ state # NoState
    /\ state' = NoState
    /\ UNCHANGED <<blocks, tip, opened>>

\* Mutated form: blocks are replaced next to a persisted state.
ReplaceBesideState(from, chain) ==
    /\ opened
    /\ CanReplace(from, chain)
    /\ blocks' = Replaced(from, chain)
    /\ tip' = Len(chain)
    /\ UNCHANGED <<state, opened>>

\* BoltStore.ReplaceFromHeight refuses to run next to a persisted state.
ReplaceBlocksOnly(from, chain) ==
    /\ opened
    /\ state = NoState
    /\ CanReplace(from, chain)
    /\ blocks' = Replaced(from, chain)
    /\ tip' = Len(chain)
    /\ UNCHANGED <<state, opened>>

LegacyNext ==
    \/ Next
    \/ \E body \in Bodies : SaveBlock(body)
    \/ DeleteState
    \/ \E from \in 1..MaxHeight, chain \in ValidChains : ReplaceBlocksOnly(from, chain)

LegacySpec == Init /\ [][LegacyNext]_vars
---------------------------------------------------------------------------
(***************************************************************************)
(* Properties                                                              *)
(***************************************************************************)

\* The tip key names the highest block, and the block under each height is the
\* predecessor of the one above it: no replacement leaves a stale block.
BlocksFormChain ==
    IF HasChain
    THEN /\ StoredHeights = 0..tip
         /\ \A h \in 0..tip : blocks[h] = BlockAt(blocks[tip], h)
    ELSE StoredHeights = {}

\* The stored blocks are one chain, and the persisted state is the one that
\* replaying it gives, the pending rewards included, which no state root
\* commits to.
StateMatchesChain ==
    BlocksFormChain /\ (HasChain => state = SnapshotForBlocks(blocks[tip]))

\* The stored blocks are one chain, and a state that AddBlock would build on,
\* because its height and root match the tip, is exact, even next to the legacy
\* writers.
TrustedStateIsExact ==
    /\ BlocksFormChain
    /\ HasChain /\ LoadState /\ SnapshotMatchesTip(state, blocks[tip])
        => state = SnapshotForBlocks(blocks[tip])

\* AddBlock never refuses a valid block because of the state it has stored.
ValidBlocksAreAccepted ==
    HasChain => \A body \in Bodies :
        ValidChain(Append(Stored, body)) => CanCommit(NextSnapshot(body), Append(Stored, body))

\* A node can always be restarted on its own database.
AlwaysOpenable == ValidateStartupIntegrity

\* A chain whose state is missing or stale can be opened for
\* RebuildStateWithProfile, "an explicit recovery operation for operators".
StateIsRecoverable == HasChain /\ ~ValidateChainStateConsistency => opened

\* The refinement mapping: an empty database stands for the genesis chain.
Abstract == INSTANCE CanonicalChain WITH
    chain <- IF HasChain THEN blocks[tip] ELSE <<>>,
    state <- IF HasChain THEN state ELSE SnapshotForBlocks(<<>>)

\* The methods of chain.Blockchain implement CanonicalChain: every bbolt
\* transaction is an atomic move from one exact (chain, state) pair to another,
\* and opening, closing, crashing and rebuilding are invisible.
ImplementsCanonicalChain == Abstract!Spec
===========================================================================
