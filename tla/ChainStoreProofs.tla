------------------------- MODULE ChainStoreProofs -------------------------
(***************************************************************************)
(* Theorems about ChainStore, for any set of blocks, any height bound and  *)
(* any ledger parameters.                                                  *)
(*                                                                         *)
(* One inductive invariant serves both specifications.  The blocks bucket  *)
(* is the column of prefixes of one valid chain; the persisted state, if   *)
(* there is one, is the snapshot of a prefix of that chain, since only the *)
(* legacy SaveBlock moves the tip without the state and nothing replaces   *)
(* blocks under a state it leaves in place.  The height that a snapshot    *)
(* carries then tells which prefix it belongs to.  Without the legacy      *)
(* methods the prefix is always the whole chain.                           *)
(***************************************************************************)
EXTENDS ChainStore, LedgerProofs

\* The blocks bucket that holds a chain and nothing else.
Column(c) == [h \in Height |-> IF h <= Len(c) THEN BlockAt(c, h) ELSE NoBlock]

Empty ==
    /\ tip = NoTip
    /\ blocks = [h \in Height |-> NoBlock]
    /\ state = NoState

\* The database holds the chain c.
Holds(c) ==
    /\ c \in Seq(Bodies)
    /\ Len(c) \in Height
    /\ ValidChain(c)
    /\ tip = Len(c)
    /\ blocks = Column(c)

\* The persisted state belongs to a prefix of the chain.
StateOfPrefix(c) ==
    state # NoState =>
        \E k \in 0..Len(c) : ValidChain(BlockAt(c, k)) /\ state = SnapshotForBlocks(BlockAt(c, k))

\* The inductive invariant of LegacySpec.
StoreInv == Empty \/ \E c : Holds(c) /\ StateOfPrefix(c)

\* Blocks of the instance make chains of the ledger.
LEMMA ChainOfBodies ==
    ASSUME NEW c \in Seq(Bodies)
    PROVE  c \in Chain /\ Len(c) \in Nat /\ c # NoBlock
  BY StoreAssumption DEF Chain

\* The blocks at the heights of a chain.
LEMMA BlockAtFacts ==
    ASSUME NEW c \in Seq(Bodies), NEW k \in 0..Len(c)
    PROVE  /\ BlockAt(c, k) \in Seq(Bodies)
           /\ Len(BlockAt(c, k)) = k
           /\ BlockAt(c, Len(c)) = c
           /\ \A h \in 0..k : BlockAt(BlockAt(c, k), h) = BlockAt(c, h)
  BY DEF BlockAt

\* One more block changes no earlier one.
LEMMA AppendFacts ==
    ASSUME NEW c \in Seq(Bodies), NEW body \in Bodies
    PROVE  /\ Append(c, body) \in Seq(Bodies)
           /\ Len(Append(c, body)) = Len(c) + 1
           /\ Front(Append(c, body)) = c
           /\ \A h \in 0..Len(c) : BlockAt(Append(c, body), h) = BlockAt(c, h)
           /\ BlockAt(Append(c, body), Len(c) + 1) = Append(c, body)
  BY DEF BlockAt, Front

\* What the readers of the database find when it holds a chain.
LEMMA HoldsFacts ==
    ASSUME NEW c, Holds(c)
    PROVE  /\ HasChain /\ tip \in Height /\ blocks[tip] = c /\ Stored = c
           /\ StoredHeights = 0..tip
           /\ \A h \in 0..tip : blocks[h] = BlockAt(c, h)
           /\ c \in Chain /\ c # NoBlock /\ Len(c) \in Nat
<1>1. /\ c \in Seq(Bodies) /\ Len(c) \in Height /\ tip = Len(c) /\ blocks = Column(c)
  BY DEF Holds
<1>2. c \in Chain /\ Len(c) \in Nat /\ c # NoBlock /\ MaxHeight \in Nat /\ NoTip \notin Nat
  BY <1>1, ChainOfBodies, StoreAssumption
<1>3. \A h \in 0..Len(c) : BlockAt(c, h) # NoBlock /\ h \in Height
  BY <1>1, <1>2, BlockAtFacts, StoreAssumption DEF Height
<1>4. \A h \in Height : blocks[h] = IF h <= Len(c) THEN BlockAt(c, h) ELSE NoBlock
  BY <1>1 DEF Column
<1>5. StoredHeights = 0..tip /\ \A h \in 0..tip : blocks[h] = BlockAt(c, h)
  BY <1>1, <1>2, <1>3, <1>4 DEF StoredHeights, Height
<1>6. blocks[tip] = c
  BY <1>1, <1>2, <1>5, BlockAtFacts
<1>7. Max(StoredHeights) = tip
  BY <1>1, <1>2, <1>5 DEF Max
<1> QED
  BY <1>1, <1>2, <1>5, <1>6, <1>7 DEF HasChain, Stored
---------------------------------------------------------------------------
\* A state of a prefix that matches the tip is the state of the whole chain.
LEMMA MatchingState ==
    ASSUME NEW c, Holds(c), StateOfPrefix(c), state # NoState, SnapshotMatchesTip(state, c)
    PROVE  state = SnapshotForBlocks(c)
<1>1. c \in Seq(Bodies)
  BY DEF Holds
<1>2. PICK k \in 0..Len(c) : ValidChain(BlockAt(c, k)) /\ state = SnapshotForBlocks(BlockAt(c, k))
  BY DEF StateOfPrefix
<1>3. BlockAt(c, k) \in Seq(Bodies) /\ Len(BlockAt(c, k)) = k /\ BlockAt(c, Len(c)) = c
  BY <1>1, BlockAtFacts
<1>4. state.height = k
  BY <1>2, <1>3, ChainOfBodies, SnapshotOfChain
<1>5. k = Len(c)
  BY <1>4 DEF SnapshotMatchesTip
<1> QED
  BY <1>2, <1>3, <1>5

\* The state of a chain passes every check that the store makes against it.
LEMMA SnapshotMatches ==
    ASSUME NEW c \in Seq(Bodies), ValidChain(c)
    PROVE  /\ ValidSnapshot(SnapshotForBlocks(c))
           /\ SnapshotMatchesTip(SnapshotForBlocks(c), c)
           /\ SnapshotForBlocks(c) # NoState
  BY ChainOfBodies, SnapshotOfChain, StoreAssumption DEF SnapshotMatchesTip

\* Whichever of its two paths AddBlock takes, it computes the state of the
\* longer chain.
LEMMA NextSnapshotExact ==
    ASSUME NEW c, Holds(c), StateOfPrefix(c), NEW body \in Bodies, ValidChain(Append(c, body))
    PROVE  NextSnapshot(body) = Ok(SnapshotForBlocks(Append(c, body)))
<1>1. Stored = c /\ c \in Chain /\ ValidChain(c)
  BY HoldsFacts DEF Holds
<1>2. CASE LoadState /\ SnapshotMatchesTip(state, Stored)
  <2>1. state = SnapshotForBlocks(c)
    BY <1>1, <1>2, MatchingState DEF LoadState
  <2>2. body \in Block(Seq(Transaction))
    BY StoreAssumption
  <2>3. SnapshotAfterBlock(SnapshotForBlocks(c), body) = Ok(SnapshotForBlocks(Append(c, body)))
    BY <1>1, <2>2, IncrementalIsReplay
  <2> QED
    BY <1>2, <2>1, <2>3 DEF NextSnapshot
<1>3. CASE ~(LoadState /\ SnapshotMatchesTip(state, Stored))
  BY <1>1, <1>3 DEF NextSnapshot
<1> QED
  BY <1>2, <1>3

\* AddBlock's own checks accept that state.
LEMMA NextSnapshotAccepted ==
    ASSUME NEW c, Holds(c), StateOfPrefix(c), NEW body \in Bodies, ValidChain(Append(c, body))
    PROVE  CanCommit(NextSnapshot(body), Append(c, body))
<1> DEFINE d == Append(c, body)
<1>1. c \in Seq(Bodies) /\ HasChain /\ blocks[tip] = c /\ c # NoBlock
  BY HoldsFacts DEF Holds
<1>2. d \in Seq(Bodies) /\ Len(d) = Len(c) + 1 /\ Front(d) = c
  BY <1>1, AppendFacts
<1>3. NextSnapshot(body) = Ok(SnapshotForBlocks(d))
  BY NextSnapshotExact
<1> HIDE DEF d
<1>4. ValidSnapshot(SnapshotForBlocks(d)) /\ SnapshotMatchesTip(SnapshotForBlocks(d), d)
  BY <1>2, SnapshotMatches DEF d
<1>5. ExtendsTip(d)
  BY <1>1, <1>2 DEF ExtendsTip
<1>6. CanCommit(Ok(SnapshotForBlocks(d)), d)
  BY <1>4, <1>5 DEF CanCommit, Ok
<1> QED
  BY <1>3, <1>6 DEF d
---------------------------------------------------------------------------
\* A new database.
LEMMA InitStoreInv == Init => StoreInv
  BY DEF Init, StoreInv, Empty

\* What a write of the whole chain with its own state leaves.
LEMMA ExactState ==
    ASSUME NEW c, c \in Seq(Bodies), ValidChain(c), NEW s, s = SnapshotForBlocks(c)
    PROVE  \E k \in 0..Len(c) : ValidChain(BlockAt(c, k)) /\ s = SnapshotForBlocks(BlockAt(c, k))
<1>1. Len(c) \in 0..Len(c)
  BY ChainOfBodies
<1>2. BlockAt(c, Len(c)) = c
  BY <1>1, BlockAtFacts
<1> QED
  BY <1>1, <1>2

\* Appending a block to the column of its parent.
LEMMA ColumnAppend ==
    ASSUME NEW c, Holds(c), NEW body \in Bodies, Len(Append(c, body)) \in Height
    PROVE  [blocks EXCEPT ![Len(Append(c, body))] = Append(c, body)] = Column(Append(c, body))
<1> DEFINE d == Append(c, body)
           new == [blocks EXCEPT ![Len(d)] = d]
<1>1. c \in Seq(Bodies) /\ Len(c) \in Nat /\ blocks = Column(c)
  BY HoldsFacts DEF Holds
<1>2. /\ Len(d) = Len(c) + 1 /\ BlockAt(d, Len(d)) = d
      /\ \A h \in 0..Len(c) : BlockAt(d, h) = BlockAt(c, h)
  BY <1>1, AppendFacts
<1> HIDE DEF d
<1>3. \A h \in Height : blocks[h] = IF h <= Len(c) THEN BlockAt(c, h) ELSE NoBlock
  BY <1>1 DEF Column
<1>4. new = [h \in Height |-> new[h]] /\ \A h \in Height : new[h] = IF h = Len(d) THEN d ELSE blocks[h]
  BY <1>1 DEF Column
<1> HIDE DEF new
<1>5. \A h \in Height : new[h] = IF h <= Len(d) THEN BlockAt(d, h) ELSE NoBlock
  BY <1>1, <1>2, <1>3, <1>4, StoreAssumption DEF Height
<1>6. new = Column(d)
  BY <1>4, <1>5 DEF Column
<1> QED
  BY <1>6 DEF d, new

\* Replacing from the fork gives the column of the new chain: below the fork the
\* stored blocks are those of the new chain already.
LEMMA ColumnReplace ==
    ASSUME NEW c, Holds(c), NEW d \in Seq(Bodies), NEW from \in 1..MaxHeight,
           from <= Len(d), from <= tip, blocks[from - 1] = BlockAt(d, from - 1)
    PROVE  Replaced(from, d) = Column(d)
<1>1. /\ c \in Seq(Bodies) /\ Len(c) \in Nat /\ tip = Len(c)
      /\ \A h \in 0..tip : blocks[h] = BlockAt(c, h)
  BY HoldsFacts DEF Holds
<1>2. Len(d) \in Nat /\ from \in Nat /\ from - 1 \in 0..Len(c) /\ from - 1 \in 0..Len(d)
  BY <1>1, StoreAssumption
<1>3. BlockAt(c, from - 1) = BlockAt(d, from - 1)
  BY <1>1, <1>2
<1>4. ASSUME NEW h \in Height, h < from
      PROVE  blocks[h] = BlockAt(d, h) /\ h <= Len(d)
  <2>1. h \in 0..(from - 1) /\ h \in 0..tip
    BY <1>1, <1>2, <1>4, StoreAssumption DEF Height
  <2>2. BlockAt(c, h) = BlockAt(BlockAt(c, from - 1), h)
    BY <1>1, <1>2, <2>1, BlockAtFacts
  <2>3. BlockAt(d, h) = BlockAt(BlockAt(d, from - 1), h)
    BY <1>2, <2>1, BlockAtFacts
  <2> QED
    BY <1>1, <1>2, <1>3, <2>1, <2>2, <2>3
<1> QED
  BY <1>4 DEF Replaced, Column
---------------------------------------------------------------------------
\* The writers, each with what it leaves in the database.

\* InitWithProfile writes genesis and its state.
LEMMA InitGenesisWrites ==
    ASSUME Empty, InitGenesis
    PROVE  Holds(<<>>)' /\ state' = SnapshotForBlocks(<<>>)
<1>1. tip' = 0 /\ blocks' = [blocks EXCEPT ![0] = <<>>] /\ state' = SnapshotForBlocks(<<>>)
  BY DEF InitGenesis
<1>2. 0 \in Height /\ MaxHeight \in Nat
  BY StoreAssumption DEF Height
<1>3. <<>> \in Seq(Bodies) /\ Len(<<>>) = 0 /\ ValidChain(<<>>)
  BY ReplayEmpty
<1>4. BlockAt(<<>>, 0) = <<>>
  BY DEF BlockAt
<1>5. blocks' = [h \in Height |-> IF h = 0 THEN <<>> ELSE NoBlock]
  BY <1>1, <1>2 DEF Empty
<1>6. \A h \in Height : h <= 0 <=> h = 0
  BY <1>2 DEF Height
<1>7. Column(<<>>) = [h \in Height |-> IF h = 0 THEN <<>> ELSE NoBlock]
  BY <1>3, <1>4, <1>6 DEF Column
<1> QED
  BY <1>1, <1>2, <1>3, <1>5, <1>7 DEF Holds

\* AddBlock writes the block and the exact state.
LEMMA AddBlockWrites ==
    ASSUME NEW c, Holds(c), StateOfPrefix(c), NEW body \in Bodies, AddBlock(body)
    PROVE  Holds(Append(c, body))' /\ state' = SnapshotForBlocks(Append(c, body))
<1> DEFINE d == Append(c, body)
<1>1. Stored = c /\ c \in Seq(Bodies)
  BY HoldsFacts DEF Holds
<1>2. /\ Len(d) \in Height /\ ValidChain(d)
      /\ blocks' = [blocks EXCEPT ![Len(d)] = d] /\ tip' = Len(d)
      /\ state' = NextSnapshot(body).ledger
  BY <1>1 DEF AddBlock
<1>3. state' = SnapshotForBlocks(d)
  BY <1>2, NextSnapshotExact DEF Ok
<1>4. blocks' = Column(d) /\ d \in Seq(Bodies)
  BY <1>1, <1>2, ColumnAppend, AppendFacts
<1> HIDE DEF d
<1>5. Holds(d)'
  BY <1>2, <1>4 DEF Holds
<1> QED
  BY <1>3, <1>5 DEF d

\* The chains a reorganisation may offer.
LEMMA ValidChainsFacts ==
    ASSUME NEW d \in ValidChains
    PROVE  d \in Seq(Bodies) /\ Len(d) \in 1..MaxHeight /\ Len(d) \in Height /\ ValidChain(d)
<1>1. PICK n \in 1..MaxHeight : d \in [1..n -> Bodies]
  BY DEF ValidChains
<1>2. n \in Nat
  BY <1>1, StoreAssumption
<1>3. d \in Seq(Bodies) /\ Len(d) = n
  BY <1>1, <1>2
<1> QED
  BY <1>1, <1>2, <1>3, StoreAssumption DEF ValidChains, Height

\* Replacing from a height that both chains share leaves the new chain alone.
LEMMA ReplaceWrites ==
    ASSUME NEW c, Holds(c), NEW from \in 1..MaxHeight, NEW d \in ValidChains,
           CanReplace(from, d), blocks' = Replaced(from, d), tip' = Len(d)
    PROVE  Holds(d)'
<1>1. d \in Seq(Bodies) /\ Len(d) \in Height /\ ValidChain(d)
  BY ValidChainsFacts
<1>2. from <= Len(d) /\ from <= tip /\ blocks[from - 1] = BlockAt(d, from - 1)
  BY DEF CanReplace
<1>3. blocks' = Column(d)
  BY <1>1, <1>2, ColumnReplace
<1> QED
  BY <1>1, <1>3 DEF Holds

\* The legacy SaveBlock writes the block; the state stays behind.
LEMMA SaveBlockWrites ==
    ASSUME NEW c, Holds(c), StateOfPrefix(c), NEW body \in Bodies, SaveBlock(body)
    PROVE  Holds(Append(c, body))' /\ StateOfPrefix(Append(c, body))'
<1> DEFINE d == Append(c, body)
<1>1. Stored = c /\ c \in Seq(Bodies) /\ Len(c) \in Nat
  BY HoldsFacts DEF Holds
<1>2. /\ Len(d) \in Height /\ ValidChain(d)
      /\ blocks' = [blocks EXCEPT ![Len(d)] = d] /\ tip' = Len(d) /\ state' = state
  BY <1>1 DEF SaveBlock
<1>3. blocks' = Column(d) /\ d \in Seq(Bodies) /\ Len(d) = Len(c) + 1
  BY <1>1, <1>2, ColumnAppend, AppendFacts
<1>4. \A k \in 0..Len(c) : BlockAt(d, k) = BlockAt(c, k)
  BY <1>1, AppendFacts
<1> HIDE DEF d
<1>5. Holds(d)'
  BY <1>2, <1>3 DEF Holds
<1>6. \A k \in 0..Len(c) : k \in 0..Len(d)
  BY <1>1, <1>3
<1>7. StateOfPrefix(d)'
  BY <1>2, <1>4, <1>6 DEF StateOfPrefix
<1> QED
  BY <1>5, <1>7 DEF d

\* RebuildStateWithProfile writes the state of the chain that is stored.
LEMMA RebuildWrites ==
    ASSUME NEW c, Holds(c), RebuildState
    PROVE  Holds(c)' /\ state' = SnapshotForBlocks(c)
<1>1. Stored = c
  BY HoldsFacts
<1> QED
  BY <1>1 DEF RebuildState, Holds

\* Opening, closing and crashing write nothing.
LEMMA NothingWritten ==
    ASSUME UNCHANGED <<blocks, tip, state>>
    PROVE  /\ StoreInv => StoreInv'
           /\ StateMatchesChain => StateMatchesChain'
  BY DEF StoreInv, Empty, Holds, StateOfPrefix, StateMatchesChain, BlocksFormChain, HasChain,
         StoredHeights

\* A chain with its own state satisfies the invariant.
LEMMA ExactInv ==
    ASSUME NEW c, Holds(c)', state' = SnapshotForBlocks(c)
    PROVE  StoreInv'
<1>1. c \in Seq(Bodies) /\ ValidChain(c)
  BY DEF Holds
<1>2. \E k \in 0..Len(c) : ValidChain(BlockAt(c, k)) /\ state' = SnapshotForBlocks(BlockAt(c, k))
  BY <1>1, ExactState
<1>3. StateOfPrefix(c)'
  BY <1>2 DEF StateOfPrefix
<1> QED
  BY <1>3 DEF StoreInv
---------------------------------------------------------------------------
\* Every step, the legacy ones included, preserves the invariant.
LEMMA NextStoreInv == StoreInv /\ [LegacyNext]_vars => StoreInv'
<1> SUFFICES ASSUME StoreInv, [LegacyNext]_vars
             PROVE  StoreInv'
  OBVIOUS
<1>1. CASE UNCHANGED <<blocks, tip, state>>
  BY <1>1, NothingWritten
<1>2. CASE Empty
  <2>1. ~HasChain /\ state = NoState
    BY <1>2 DEF Empty, HasChain
  <2>2. CASE InitGenesis
    BY <1>2, <2>2, InitGenesisWrites, ExactInv
  <2>3. UNCHANGED <<blocks, tip, state>> \/ InitGenesis
    BY <2>1 DEF LegacyNext, Next, vars, OpenBolt, Close, AddBlock, ReplaceFromHeight, CanReplace,
                RebuildState, SaveBlock, DeleteState, ReplaceBlocksOnly
  <2> QED
    BY <1>1, <2>2, <2>3
<1>3. ASSUME NEW c, Holds(c), StateOfPrefix(c)
      PROVE  StoreInv'
  <2>1. HasChain
    BY <1>3, HoldsFacts
  <2>2. ASSUME NEW body \in Bodies, AddBlock(body)
        PROVE  StoreInv'
    <3>1. Holds(Append(c, body))' /\ state' = SnapshotForBlocks(Append(c, body))
      BY <1>3, <2>2, AddBlockWrites
    <3> DEFINE d == Append(c, body)
    <3> HIDE DEF d
    <3>2. Holds(d)' /\ state' = SnapshotForBlocks(d)
      BY <3>1 DEF d
    <3> QED
      BY <3>2, ExactInv
  <2>3. ASSUME NEW from \in 1..MaxHeight, NEW d \in ValidChains, ReplaceFromHeight(from, d)
        PROVE  StoreInv'
    <3>1. Holds(d)'
      BY <1>3, <2>3, ReplaceWrites DEF ReplaceFromHeight
    <3> QED
      BY <2>3, <3>1, ExactInv DEF ReplaceFromHeight
  <2>4. CASE RebuildState
    BY <1>3, <2>4, RebuildWrites, ExactInv
  <2>5. ASSUME NEW body \in Bodies, SaveBlock(body)
        PROVE  StoreInv'
    BY <1>3, <2>5, SaveBlockWrites DEF StoreInv
  <2>6. CASE DeleteState
    BY <1>3, <2>6 DEF DeleteState, StoreInv, Holds, StateOfPrefix
  <2>7. ASSUME NEW from \in 1..MaxHeight, NEW d \in ValidChains, ReplaceBlocksOnly(from, d)
        PROVE  StoreInv'
    <3>1. Holds(d)' /\ state' = NoState
      BY <1>3, <2>7, ReplaceWrites DEF ReplaceBlocksOnly
    <3> QED
      BY <3>1 DEF StoreInv, StateOfPrefix
  <2>8. ~InitGenesis
    BY <2>1 DEF InitGenesis
  <2>9. OpenBolt \/ Close => UNCHANGED <<blocks, tip, state>>
    BY DEF OpenBolt, Close
  <2> QED
    BY <1>1, <2>2, <2>3, <2>4, <2>5, <2>6, <2>7, <2>8, <2>9 DEF LegacyNext, Next, vars
<1> QED
  BY <1>2, <1>3 DEF StoreInv

\* The database of any sequence of calls, legacy ones included, holds one valid
\* chain and at most the state of a prefix of it.
THEOREM StoreInvHolds == LegacySpec => []StoreInv
  BY InitStoreInv, NextStoreInv, PTL DEF LegacySpec

\* What the invariant says to a reader of the database.
LEMMA InvChain == StoreInv => BlocksFormChain
<1> SUFFICES ASSUME StoreInv
             PROVE  BlocksFormChain
  OBVIOUS
<1>1. CASE Empty
  BY <1>1 DEF Empty, BlocksFormChain, HasChain, StoredHeights
<1>2. ASSUME NEW c, Holds(c)
      PROVE  BlocksFormChain
  BY <1>2, HoldsFacts DEF BlocksFormChain
<1> QED
  BY <1>1, <1>2 DEF StoreInv

\* A state that AddBlock would build on is exact, even next to the legacy
\* writers: the height in a snapshot identifies the prefix it belongs to.
THEOREM TrustedStateHolds == LegacySpec => []TrustedStateIsExact
<1>1. StoreInv => TrustedStateIsExact
  <2> SUFFICES ASSUME StoreInv, HasChain, LoadState, SnapshotMatchesTip(state, blocks[tip])
               PROVE  state = SnapshotForBlocks(blocks[tip])
    BY InvChain DEF TrustedStateIsExact
  <2>1. PICK c : Holds(c) /\ StateOfPrefix(c)
    BY DEF StoreInv, Empty, HasChain
  <2>2. blocks[tip] = c
    BY <2>1, HoldsFacts
  <2> QED
    BY <2>1, <2>2, MatchingState DEF LoadState
<1> QED
  BY <1>1, StoreInvHolds, PTL

\* AddBlock never refuses a valid block because of the state it has stored:
\* missing, stale or exact, it leads to the state of the longer chain.
THEOREM ValidBlocksAccepted == LegacySpec => []ValidBlocksAreAccepted
<1>1. StoreInv => ValidBlocksAreAccepted
  <2> SUFFICES ASSUME StoreInv, HasChain, NEW body \in Bodies, ValidChain(Append(Stored, body))
               PROVE  CanCommit(NextSnapshot(body), Append(Stored, body))
    BY DEF ValidBlocksAreAccepted
  <2>1. PICK c : Holds(c) /\ StateOfPrefix(c)
    BY DEF StoreInv, Empty, HasChain
  <2>2. Stored = c
    BY <2>1, HoldsFacts
  <2>3. CanCommit(NextSnapshot(body), Append(c, body))
    BY <2>1, <2>2, NextSnapshotAccepted
  <2> QED
    BY <2>2, <2>3
<1> QED
  BY <1>1, StoreInvHolds, PTL
---------------------------------------------------------------------------
\* The inductive invariant of Spec: the state is that of the whole chain.
Exact == Empty \/ \E c : Holds(c) /\ state = SnapshotForBlocks(c)

\* It is a special case of the one above.
LEMMA ExactIsStoreInv == Exact => StoreInv
<1> SUFFICES ASSUME NEW c, Holds(c), state = SnapshotForBlocks(c)
             PROVE  StateOfPrefix(c)
  BY DEF Exact, StoreInv
<1>1. c \in Seq(Bodies) /\ ValidChain(c)
  BY DEF Holds
<1>2. \E k \in 0..Len(c) : ValidChain(BlockAt(c, k)) /\ state = SnapshotForBlocks(BlockAt(c, k))
  BY <1>1, ExactState
<1> QED
  BY <1>2 DEF StateOfPrefix

\* The steps of the methods the node uses: each writes nothing, genesis, one
\* more block or another chain, and the state with it.
LEMMA ExactSteps ==
    ASSUME Exact, [Next]_vars
    PROVE  \/ UNCHANGED <<blocks, tip, state>>
           \/ Empty /\ Holds(<<>>)' /\ state' = SnapshotForBlocks(<<>>)
           \/ \E c : /\ Holds(c) /\ state = SnapshotForBlocks(c)
                     /\ \/ Holds(c)' /\ state' = SnapshotForBlocks(c)
                        \/ \E body \in Bodies :
                              Holds(Append(c, body))' /\ state' = SnapshotForBlocks(Append(c, body))
                        \/ \E d \in ValidChains :
                              Len(c) > 0 /\ Holds(d)' /\ state' = SnapshotForBlocks(d)
<1>1. CASE Empty
  <2>1. ~HasChain
    BY <1>1 DEF Empty, HasChain
  <2>2. UNCHANGED <<blocks, tip, state>> \/ InitGenesis
    BY <2>1 DEF Next, vars, OpenBolt, Close, AddBlock, ReplaceFromHeight, CanReplace, RebuildState
  <2> QED
    BY <1>1, <2>2, InitGenesisWrites
<1>2. ASSUME NEW c, Holds(c), state = SnapshotForBlocks(c)
      PROVE  \/ UNCHANGED <<blocks, tip, state>>
             \/ Holds(c)' /\ state' = SnapshotForBlocks(c)
             \/ \E body \in Bodies :
                    Holds(Append(c, body))' /\ state' = SnapshotForBlocks(Append(c, body))
             \/ \E d \in ValidChains :
                    Len(c) > 0 /\ Holds(d)' /\ state' = SnapshotForBlocks(d)
  <2>1. HasChain /\ tip = Len(c) /\ Len(c) \in Nat /\ c \in Seq(Bodies) /\ ValidChain(c)
    BY <1>2, HoldsFacts DEF Holds
  <2>2. StateOfPrefix(c)
    <3>1. \E k \in 0..Len(c) : ValidChain(BlockAt(c, k)) /\ state = SnapshotForBlocks(BlockAt(c, k))
      BY <1>2, <2>1, ExactState
    <3> QED
      BY <3>1 DEF StateOfPrefix
  <2>3. ASSUME NEW body \in Bodies, AddBlock(body)
        PROVE  Holds(Append(c, body))' /\ state' = SnapshotForBlocks(Append(c, body))
    BY <1>2, <2>2, <2>3, AddBlockWrites
  <2>4. ASSUME NEW from \in 1..MaxHeight, NEW d \in ValidChains, ReplaceFromHeight(from, d)
        PROVE  Len(c) > 0 /\ Holds(d)' /\ state' = SnapshotForBlocks(d)
    <3>1. Holds(d)'
      BY <1>2, <2>4, ReplaceWrites DEF ReplaceFromHeight
    <3>2. Len(c) > 0
      BY <2>1, <2>4, StoreAssumption DEF ReplaceFromHeight, CanReplace
    <3> QED
      BY <2>4, <3>1, <3>2 DEF ReplaceFromHeight
  <2>5. CASE RebuildState
    BY <1>2, <2>5, RebuildWrites
  <2>6. ~InitGenesis
    BY <2>1 DEF InitGenesis
  <2>7. OpenBolt \/ Close => UNCHANGED <<blocks, tip, state>>
    BY DEF OpenBolt, Close
  <2> QED
    BY <2>3, <2>4, <2>5, <2>6, <2>7 DEF Next, vars
<1> QED
  BY <1>1, <1>2 DEF Exact

\* So the state stays exact.
LEMMA NextExact == Exact /\ [Next]_vars => Exact'
<1> SUFFICES ASSUME Exact, [Next]_vars
             PROVE  Exact'
  OBVIOUS
<1>1. CASE UNCHANGED <<blocks, tip, state>>
  BY <1>1 DEF Exact, Empty, Holds
<1>2. CASE \E d : Holds(d)' /\ state' = SnapshotForBlocks(d)
  BY <1>2 DEF Exact
<1> QED
  BY <1>1, <1>2, ExactSteps

\* A new database is empty.
LEMMA InitExact == Init => Exact
  BY DEF Init, Exact, Empty

\* The persisted state is exact in every reachable database.
THEOREM ExactHolds == Spec => []Exact
  BY InitExact, NextExact, PTL DEF Spec

\* After any calls, crashes and reorganisations, the stored blocks are one chain
\* and the persisted state is the one its replay gives.
THEOREM StateMatchesChainHolds == Spec => []StateMatchesChain
<1>1. Exact => StateMatchesChain
  <2> SUFFICES ASSUME Exact
               PROVE  HasChain => state = SnapshotForBlocks(blocks[tip])
    BY ExactIsStoreInv, InvChain DEF StateMatchesChain
  <2> QED
    BY HoldsFacts DEF Exact, Empty, HasChain
<1> QED
  BY <1>1, ExactHolds, PTL

\* The integrity checks of a restart accept every database a run can leave.
THEOREM AlwaysOpenableHolds == Spec => []AlwaysOpenable
<1>1. Exact => AlwaysOpenable
  <2> SUFFICES ASSUME Exact, HasChain
               PROVE  ValidateChainStateConsistency /\ LoadState
    BY DEF AlwaysOpenable, ValidateStartupIntegrity
  <2>1. PICK c : Holds(c) /\ state = SnapshotForBlocks(c)
    BY DEF Exact, Empty, HasChain
  <2>2. blocks[tip] = c /\ c # NoBlock /\ c \in Seq(Bodies) /\ ValidChain(c)
    BY <2>1, HoldsFacts DEF Holds
  <2>3. ValidSnapshot(state) /\ SnapshotMatchesTip(state, c) /\ state # NoState
    BY <2>1, <2>2, SnapshotMatches
  <2> QED
    BY <2>2, <2>3 DEF ValidateChainStateConsistency, LoadState
<1> QED
  BY <1>1, ExactHolds, PTL

\* The state a node restarts from covers what it owes and holds no more coin
\* than the blocks below it may have issued.
PersistedFundsCovered ==
    HasChain => /\ Backed(state)
                /\ Coin(state) <= BlockSubsidy * tip

\* No order of blocks, reorganisations, crashes and rebuilds persists a state
\* with coin from nowhere, or with stakes, rewards or tokens that nothing covers.
THEOREM PersistedFundsHold == Spec => []PersistedFundsCovered
<1>1. Exact => PersistedFundsCovered
  <2> SUFFICES ASSUME Exact, HasChain
               PROVE  Backed(state) /\ Coin(state) <= BlockSubsidy * tip
    BY DEF PersistedFundsCovered
  <2>1. PICK c : Holds(c) /\ state = SnapshotForBlocks(c)
    BY DEF Exact, Empty, HasChain
  <2>2. c \in Chain /\ ValidChain(c) /\ tip = Len(c)
    BY <2>1, HoldsFacts DEF Holds
  <2> DEFINE l == ReplayMature(c).ledger
  <2>3. Good(l) /\ Coin(l) <= BlockSubsidy * Len(c) /\ state = Clone(l)
    BY <2>1, <2>2, ReplayGood DEF ValidChain, SnapshotForBlocks, SnapshotForLedger
  <2> HIDE DEF l
  <2>4. Backed(Clone(l)) /\ Coin(Clone(l)) = Coin(l)
    BY <2>3, CloneTotals DEF Good
  <2> QED
    BY <2>2, <2>3, <2>4
<1> QED
  BY <1>1, ExactHolds, PTL
---------------------------------------------------------------------------
(***************************************************************************)
(* The refinement.  Genesis is invisible, since an empty database stands   *)
(* for the genesis chain; AddBlock extends, a reorganisation switches.     *)
(***************************************************************************)

chainBar == IF HasChain THEN blocks[tip] ELSE <<>>
stateBar == IF HasChain THEN state ELSE SnapshotForBlocks(<<>>)

\* The mapped state of a database that holds a chain.
LEMMA BarHolds ==
    ASSUME NEW c, Holds(c)
    PROVE  chainBar = c /\ stateBar = state
  BY HoldsFacts DEF chainBar, stateBar

\* The same after a step.
LEMMA BarHoldsNext ==
    ASSUME NEW c, Holds(c)'
    PROVE  chainBar' = c /\ stateBar' = state'
<1>1. Holds(c)' => (chainBar = c /\ stateBar = state)'
  BY BarHolds, PTL
<1> QED
  BY <1>1

\* A write of a chain of the instance with its state is an Adopt.
LEMMA WriteAdopts ==
    ASSUME NEW d, Holds(d)', state' = SnapshotForBlocks(d), Len(d) > 0
    PROVE  Abstract!Adopt
<1>1. chainBar' = d /\ stateBar' = SnapshotForBlocks(d)
  BY BarHoldsNext
<1>2. d \in Seq(Bodies) /\ Len(d) \in Height /\ ValidChain(d)
  BY DEF Holds
<1>3. Len(d) \in 1..MaxHeight /\ \A h \in 1..Len(d) : d[h] \in Bodies
  BY <1>2, StoreAssumption DEF Height
<1> QED
  BY <1>1, <1>2, <1>3 DEF Abstract!Adopt, chainBar, stateBar

\* The initial database stands for the genesis chain.
LEMMA InitRefines == Init => Abstract!Init
  BY DEF Init, Abstract!Init, HasChain

\* Every step is a step of the canonical chain or invisible.
LEMMA NextRefines == Exact /\ [Next]_vars => [Abstract!Next]_(Abstract!vars)
<1> SUFFICES ASSUME Exact, [Next]_vars
             PROVE  Abstract!Next \/ (chainBar' = chainBar /\ stateBar' = stateBar)
  BY DEF Abstract!vars, chainBar, stateBar
<1>1. CASE UNCHANGED <<blocks, tip, state>>
  BY <1>1 DEF chainBar, stateBar, HasChain
<1>2. CASE Empty /\ Holds(<<>>)' /\ state' = SnapshotForBlocks(<<>>)
  <2>1. chainBar = <<>> /\ stateBar = SnapshotForBlocks(<<>>)
    BY <1>2 DEF Empty, chainBar, stateBar, HasChain
  <2> QED
    BY <1>2, <2>1, BarHoldsNext
<1>3. ASSUME NEW c, Holds(c), state = SnapshotForBlocks(c)
      PROVE  /\ Holds(c)' /\ state' = SnapshotForBlocks(c)
                  => chainBar' = chainBar /\ stateBar' = stateBar
             /\ \A body \in Bodies :
                    Holds(Append(c, body))' /\ state' = SnapshotForBlocks(Append(c, body))
                       => Abstract!Next
             /\ \A d \in ValidChains :
                    Len(c) > 0 /\ Holds(d)' /\ state' = SnapshotForBlocks(d) => Abstract!Next
  <2>1. chainBar = c /\ stateBar = state /\ c \in Seq(Bodies)
    BY <1>3, BarHolds DEF Holds
  <2>2. Holds(c)' /\ state' = SnapshotForBlocks(c) => chainBar' = chainBar /\ stateBar' = stateBar
    BY <1>3, <2>1, BarHoldsNext
  <2>3. ASSUME NEW body \in Bodies, Holds(Append(c, body))',
               state' = SnapshotForBlocks(Append(c, body))
        PROVE  Abstract!Next
    <3> DEFINE d == Append(c, body)
    <3>1. Len(d) = Len(c) + 1 /\ Len(d) > 0 /\ SubSeq(d, 1, Len(c)) = c
      BY <2>1
    <3>2. Holds(d)' /\ state' = SnapshotForBlocks(d)
      BY <2>3
    <3> HIDE DEF d
    <3>3. chainBar' = d
      BY <3>2, BarHoldsNext
    <3>4. Abstract!Adopt
      BY <3>1, <3>2, WriteAdopts
    <3>5. Abstract!Extend
      BY <2>1, <3>1, <3>3 DEF Abstract!Extend, chainBar
    <3> QED
      BY <3>4, <3>5 DEF Abstract!Next
  <2>4. ASSUME NEW d \in ValidChains, Len(c) > 0, Holds(d)', state' = SnapshotForBlocks(d)
        PROVE  Abstract!Next
    <3>1. Len(d) > 0
      BY ValidChainsFacts, StoreAssumption
    <3>2. Abstract!Adopt
      BY <2>4, <3>1, WriteAdopts
    <3>3. Abstract!Switch
      BY <2>1, <2>4 DEF Abstract!Switch, chainBar
    <3> QED
      BY <3>2, <3>3 DEF Abstract!Next
  <2> QED
    BY <2>2, <2>3, <2>4
<1> QED
  BY <1>1, <1>2, <1>3, ExactSteps

\* chain.Blockchain over its store implements CanonicalChain, for chains of any
\* blocks and any length.
THEOREM StoreImplementsCanonicalChain == Spec => ImplementsCanonicalChain
<1>1. Spec => [][Abstract!Next]_(Abstract!vars)
  BY ExactHolds, NextRefines, PTL DEF Spec
<1>2. Spec => Abstract!Init
  BY InitRefines DEF Spec
<1> QED
  BY <1>1, <1>2, PTL DEF ImplementsCanonicalChain, Abstract!Spec
===========================================================================
