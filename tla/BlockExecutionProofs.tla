----------------------- MODULE BlockExecutionProofs -----------------------
(***************************************************************************)
(* Theorems about BlockExecution, for any set of addresses, any integer    *)
(* width, any consensus parameters and any set of transactions.            *)
(*                                                                         *)
(* None of the properties is inductive alone.  FailureIsAtomic needs the   *)
(* mirror between the two copies of a balance: without it a legacy         *)
(* transfer could pass the checks on the account and then fail on the      *)
(* asset state.  ReloadIsExact needs the heights of the pending rewards,   *)
(* and all of them need the backup to be as sound as the ledger, because   *)
(* any failing step restores it.                                           *)
(***************************************************************************)
EXTENDS BlockExecution, LedgerProofs

\* The inductive invariant.
IInv ==
    /\ Sound(ledger)
    /\ Sound(backup)
    /\ open \in BOOLEAN
    /\ count \in 0..MaxTxCount
    /\ burned \in Nat
    /\ burning \in Nat
    /\ backup.native[FeeCollector] = 0
    /\ ~open => ledger.native[FeeCollector] = 0 /\ Dated(ledger, ledger.height)
    /\ open => Dated(ledger, ledger.height + 1)
    /\ Dated(backup, backup.height)

\* An empty block has applied no transaction.
LEMMA ZeroCount == 0 \in 0..MaxTxCount /\ 0 \in Nat
  BY ExecutionAssumption

\* The initial state, before any block, satisfies the invariant.
LEMMA InitIInv == Init => IInv
<1> SUFFICES ASSUME Init
             PROVE  IInv
  OBVIOUS
<1>1. Sound(NewMature)
  BY NewMatureSound
<1> QED
  BY <1>1, NewMatureFacts, ZeroCount, Zenon DEF Init, IInv

\* applyBlock's coinbase is the only reward of its height.
LEMMA OpenBlockIInv ==
    ASSUME IInv, NEW to \in Address, OpenBlock(to)
    PROVE  IInv'
<1> DEFINE m == OpenedLedger(ledger, to)
<1>1. ledger.height \in Nat /\ NextHeight = ledger.height + 1
  BY DEF IInv, Sound, LedgerState, NextHeight
<1>2. ~open /\ Sound(ledger) /\ Dated(ledger, ledger.height)
  BY <1>1 DEF OpenBlock, IInv
<1>3. CanOpen(ledger, to) /\ ledger' = m /\ backup' = Clone(ledger) /\ open' = TRUE
  BY <1>1 DEF OpenBlock, CanOpen, OpenedLedger
<1>4. Sound(m) /\ m.height = ledger.height /\ Dated(m, ledger.height + 1)
  BY <1>2, <1>3, OpenedLedgerSound
<1>5. /\ Sound(Clone(ledger)) /\ Clone(ledger).native[FeeCollector] = 0
      /\ Dated(Clone(ledger), Clone(ledger).height)
  BY <1>2, CloneFacts DEF IInv
<1> HIDE DEF m
<1> QED
  BY <1>3, <1>4, <1>5 DEF IInv, OpenBlock

\* A transaction keeps the ledger sound and adds no reward.
LEMMA ExecuteTransactionIInv ==
    ASSUME IInv, NEW tx \in Transactions, ExecuteTransaction(tx)
    PROVE  IInv'
<1>1. tx \in Transaction /\ tx.fee \in Nat
  BY ExecutionAssumption, MaxUintAssumption DEF Transaction, Uint
<1>2. NextHeight \in Nat
  BY DEF IInv, Sound, LedgerState, NextHeight
<1>3. Sound(Applied(tx).ledger) /\ SameClock(ledger, Applied(tx).ledger)
  BY <1>1, <1>2, ApplyTransactionSound DEF IInv, ExecuteTransaction, Applied
<1>4. count' \in 0..MaxTxCount
  BY ExecutionAssumption DEF IInv, ExecuteTransaction
<1>5. burning' \in Nat
  BY <1>1 DEF IInv, ExecuteTransaction
<1>6. Dated(ledger', ledger'.height + 1)
  BY <1>3 DEF IInv, ExecuteTransaction, Dated, SameClock
<1> QED
  BY <1>3, <1>4, <1>5, <1>6 DEF IInv, ExecuteTransaction

\* Whatever fails, the ledger becomes the backup.
LEMMA RestoreIInv ==
    ASSUME IInv, Restore
    PROVE  IInv'
<1>1. Sound(NewMature)
  BY NewMatureSound
<1>2. backup.height \in Nat
  BY DEF IInv, Sound, LedgerState
<1> QED
  BY <1>1, <1>2, NewMatureFacts, ZeroCount, Zenon DEF IInv, Restore, Return

\* Closing a block settles the fees and advances the height by one.
LEMMA CloseBlockIInv ==
    ASSUME IInv, NEW miner \in Address, CloseBlock(miner)
    PROVE  IInv'
<1> DEFINE m == FinishBlock(ledger, miner, NextHeight)
<1>1. NextHeight \in Nat /\ NextHeight = ledger.height + 1
  BY DEF IInv, Sound, LedgerState, NextHeight
<1>2. /\ Sound(m) /\ m.height = NextHeight /\ m.native[FeeCollector] = 0
      /\ m.coinbases \subseteq ledger.coinbases
  BY <1>1, FinishBlockSound DEF IInv, CloseBlock
<1> HIDE DEF m
<1>3. Dated(ledger, NextHeight)
  BY <1>1 DEF IInv, CloseBlock
<1>4. Dated(m, m.height)
  BY <1>1, <1>2, <1>3 DEF Dated
<1>5. Sound(NewMature)
  BY NewMatureSound
<1>6. ledger' = m
  BY DEF CloseBlock, m
<1>7. burned' \in Nat
  BY DEF IInv, CloseBlock
<1> QED
  BY <1>2, <1>4, <1>5, <1>6, <1>7, NewMatureFacts, ZeroCount, Zenon DEF IInv, CloseBlock, Return

\* The coinbase fails, or the node reloads: the ledger becomes its clone.
LEMMA CloneIInv ==
    ASSUME IInv, ~open, ledger' = Clone(ledger),
           UNCHANGED <<backup, open, count, burned, burning>>
    PROVE  IInv'
<1>1. ledger.height \in Nat
  BY DEF IInv, Sound, LedgerState
<1>2. Dated(ledger, ledger.height)
  BY <1>1 DEF IInv
<1>3. /\ Sound(ledger') /\ ledger'.native[FeeCollector] = 0
      /\ Dated(ledger', ledger'.height) /\ ledger'.height = ledger.height
  BY <1>2, CloneFacts DEF IInv
<1> QED
  BY <1>1, <1>3 DEF IInv

\* IInv is preserved by every step of the executor.
LEMMA NextIInv == IInv /\ [Next]_vars => IInv'
<1> SUFFICES ASSUME IInv, [Next]_vars
             PROVE  IInv'
  OBVIOUS
<1>1. ASSUME NEW to \in Address, OpenBlock(to)
      PROVE  IInv'
  BY <1>1, OpenBlockIInv
<1>2. ASSUME NEW to \in Address, FailCoinbase(to)
      PROVE  IInv'
  BY <1>2, CloneIInv DEF FailCoinbase
<1>3. ASSUME NEW tx \in Transactions, ExecuteTransaction(tx)
      PROVE  IInv'
  BY <1>3, ExecuteTransactionIInv
<1>4. ASSUME NEW tx \in Transactions, FailTransaction(tx)
      PROVE  IInv'
  BY <1>4, RestoreIInv DEF FailTransaction
<1>5. ASSUME NEW miner \in Address, CloseBlock(miner)
      PROVE  IInv'
  BY <1>5, CloseBlockIInv
<1>6. ASSUME NEW miner \in Address, FailSettlement(miner)
      PROVE  IInv'
  BY <1>6, RestoreIInv DEF FailSettlement
<1>7. CASE Reload
  <2>1. NewMatureFromState(SnapshotForLedger(ledger)) = Clone(ledger)
    BY SnapshotRoundTrip DEF IInv
  <2> QED
    BY <1>7, <2>1, CloneIInv DEF Reload
<1>8. CASE UNCHANGED vars
  BY <1>8 DEF IInv, vars
<1> QED
  BY <1>1, <1>2, <1>3, <1>4, <1>5, <1>6, <1>7, <1>8 DEF Next

\* Every reachable state of the executor satisfies the inductive invariant.
THEOREM InvariantHolds == Spec => []IInv
<1> QED
  BY InitIInv, NextIInv, PTL DEF Spec
---------------------------------------------------------------------------
\* No addition or subtraction of the executor leaves the integer type.
THEOREM TypeCorrect == Spec => []TypeOK
<1>1. IInv => TypeOK
  BY DEF IInv, TypeOK, Sound
<1> QED
  BY <1>1, InvariantHolds, PTL

\* The account and the asset state never disagree about a native balance.
THEOREM MirrorHolds == Spec => []NativeMirror
<1>1. IInv => NativeMirror
  BY DEF IInv, NativeMirror, Sound
<1> QED
  BY <1>1, InvariantHolds, PTL

\* The fee pool is empty between blocks.
THEOREM FeesAlwaysSettled == Spec => []FeesSettled
<1>1. IInv => FeesSettled
  BY DEF IInv, FeesSettled
<1> QED
  BY <1>1, InvariantHolds, PTL

\* A transaction that fails leaves the ledger as it was.
THEOREM FailuresAreAtomic == Spec => []FailureIsAtomic
<1>1. IInv => FailureIsAtomic
  <2> SUFFICES ASSUME IInv, NEW tx \in Transactions
               PROVE  Applied(tx).ok \/ Applied(tx).ledger = ledger
    BY DEF FailureIsAtomic
  <2>1. tx \in Transaction /\ NextHeight \in Nat
    BY ExecutionAssumption DEF IInv, Sound, LedgerState, NextHeight
  <2> QED
    BY <2>1, ApplyTransactionSound DEF IInv, Applied
<1> QED
  BY <1>1, InvariantHolds, PTL

\* Every snapshot taken between blocks is valid and reads back exactly.
THEOREM ReloadsAreExact == Spec => []ReloadIsExact
<1>1. IInv => ReloadIsExact
  <2> SUFFICES ASSUME IInv, ~open
               PROVE  /\ ValidSnapshot(SnapshotForLedger(ledger))
                      /\ NewMatureFromState(SnapshotForLedger(ledger)) = Clone(ledger)
    BY DEF ReloadIsExact
  <2> DEFINE s == Clone(ledger)
  <2>1. ledger.height \in Nat /\ Dated(ledger, ledger.height)
    <3>1. ledger.height \in Nat
      BY DEF IInv, Sound, LedgerState
    <3> QED
      BY <3>1 DEF IInv
  <2>2. Sound(s) /\ Dated(s, s.height)
    BY <2>1, CloneFacts DEF IInv
  <2> HIDE DEF s
  <2>3. ValidSnapshot(s)
    BY <2>2 DEF ValidSnapshot, Sound, Mirrored, Capped, Dated
  <2>4. SnapshotForLedger(ledger) = s
    BY DEF SnapshotForLedger, s
  <2>5. NewMatureFromState(SnapshotForLedger(ledger)) = Clone(ledger)
    BY SnapshotRoundTrip DEF IInv
  <2> QED
    BY <2>3, <2>4, <2>5
<1> QED
  BY <1>1, InvariantHolds, PTL
---------------------------------------------------------------------------
(***************************************************************************)
(* Conservation.  The totals of NativeSupply, TokenSupply and              *)
(* FundsAreCovered are inductive only together: a pending reward fits      *)
(* because the balances are covered, and a restored backup is covered and  *)
(* accounts for the coin issued so far because it was when it was taken.   *)
(***************************************************************************)

\* The inductive invariant of the totals.
Conserved ==
    /\ IInv
    /\ Backed(ledger)
    /\ Backed(backup)
    /\ NativeSupply
    /\ ~open => burning = 0
    /\ open => /\ backup.height = ledger.height
               /\ Coin(backup) + burned = BlockSubsidy * backup.height

\* The subsidy of one more block.
LEMMA OneMoreSubsidy ==
    ASSUME NEW h \in Nat
    PROVE  /\ BlockSubsidy \in Nat
           /\ BlockSubsidy * h \in Nat
           /\ BlockSubsidy * (h + 1) = BlockSubsidy * h + BlockSubsidy
           /\ BlockSubsidy * (h + 0) = BlockSubsidy * h
<1>1. BlockSubsidy \in Nat
  BY ParamAssumption, MaxUintAssumption DEF Uint
<1> QED
  BY <1>1

\* A chain without blocks has issued nothing.
LEMMA InitConserved == Init => Conserved
<1> SUFFICES ASSUME Init
             PROVE  Conserved
  OBVIOUS
<1>1. IInv
  BY InitIInv
<1>2. ledger = NewMature /\ backup = NewMature /\ ~open /\ burning = 0 /\ burned = 0
  BY DEF Init
<1>3. Issued = 0
  <2>1. Issued = BlockSubsidy * (0 + 0)
    BY <1>2, NewMatureFacts DEF Issued
  <2>2. BlockSubsidy \in Nat
    BY OneMoreSubsidy
  <2> QED
    BY <2>1, <2>2
<1>4. NativeSupply
  BY <1>2, <1>3, NewMatureTotals DEF NativeSupply, Coin
<1> QED
  BY <1>1, <1>2, <1>4, NewMatureTotals DEF Conserved

\* The coinbase of the opened block is the only coin that is new.
LEMMA OpenBlockConserved ==
    ASSUME Conserved, NEW to \in Address, OpenBlock(to)
    PROVE  Conserved'
<1> DEFINE h == NextHeight
           b == BeginBlock(ledger, h)
           m == ApplyCoinbaseAtHeight(b, to, BlockSubsidy, h)
           c == Clone(ledger)
<1>1. ledger.height \in Nat /\ h \in Nat /\ h = ledger.height + 1
  BY DEF Conserved, IInv, Sound, LedgerState, NextHeight
<1>2. ~open /\ Sound(ledger) /\ Backed(ledger) /\ Dated(ledger, ledger.height)
  BY <1>1 DEF OpenBlock, Conserved, IInv
<1>3. /\ Sound(b) /\ b.height = ledger.height /\ b.coinbases \subseteq ledger.coinbases
      /\ Backed(b) /\ Coin(b) = Coin(ledger)
  BY <1>1, <1>2, BeginBlockSound, BeginBlockTotals
<1>4. CanApplyCoinbase(b, to, BlockSubsidy) /\ BlockSubsidy \in Uint
  BY ParamAssumption DEF OpenBlock
<1>5. Sound(c) /\ c.height = ledger.height /\ Backed(c) /\ Coin(c) = Coin(ledger)
  BY <1>2, CloneSound, CloneTotals DEF SameClock
<1>6. ledger' = m /\ backup' = c /\ open' = TRUE
  BY DEF OpenBlock
<1> HIDE DEF b, h, c
<1>7. \A d \in b.coinbases : d.height < h
  <2>1. \A d \in b.coinbases : d.height \in Nat /\ d.height <= ledger.height
    BY <1>2, <1>3 DEF Dated, Sound, LedgerState, CoinbaseCredit
  <2> QED
    BY <1>1, <2>1
<1>8. /\ Backed(m) /\ Coin(m) = Coin(b) + BlockSubsidy /\ m.height = b.height
  BY <1>1, <1>3, <1>4, <1>7, CoinbaseTotals, CoinbaseSound
<1> HIDE DEF m
<1>9. Coin(ledger) + burned + burning = BlockSubsidy * (ledger.height + 0) /\ burning = 0
  BY <1>2 DEF Conserved, NativeSupply, Issued, Coin
<1>10. Coin(ledger) \in Nat /\ burned \in Nat
  BY <1>2, CoinType DEF Conserved, IInv
<1>11. IInv'
  BY OpenBlockIInv DEF Conserved
<1>12. burned' = burned /\ burning' = burning
  BY DEF OpenBlock
<1>13. Coin(ledger') + burned' + burning' = BlockSubsidy * (ledger'.height + 1)
  <2>1. Coin(ledger') = Coin(ledger) + BlockSubsidy /\ ledger'.height = ledger.height
    BY <1>3, <1>6, <1>8
  <2>2. /\ BlockSubsidy \in Nat /\ BlockSubsidy * ledger.height \in Nat
        /\ BlockSubsidy * (ledger.height + 1) = BlockSubsidy * ledger.height + BlockSubsidy
        /\ BlockSubsidy * (ledger.height + 0) = BlockSubsidy * ledger.height
    BY <1>1, OneMoreSubsidy
  <2>3. Coin(ledger) + BlockSubsidy + burned + burning = BlockSubsidy * (ledger.height + 1)
    BY <1>9, <1>10, <2>2
  <2> QED
    BY <1>12, <2>1, <2>3
<1>14. NativeSupply'
  BY <1>6, <1>13 DEF NativeSupply, Issued, Coin
<1>15. Coin(backup') + burned' = BlockSubsidy * backup'.height
  <2>1. BlockSubsidy * (ledger.height + 0) = BlockSubsidy * ledger.height
    BY <1>1, OneMoreSubsidy
  <2>2. Coin(ledger) + burned = BlockSubsidy * ledger.height
    BY <1>9, <1>10, <2>1
  <2> QED
    BY <1>5, <1>6, <1>12, <2>2
<1> QED
  BY <1>3, <1>5, <1>6, <1>8, <1>11, <1>14, <1>15 DEF Conserved, Coin

\* A transaction burns the fee of a legacy transfer and moves the rest.
LEMMA ExecuteTransactionConserved ==
    ASSUME Conserved, NEW tx \in Transactions, ExecuteTransaction(tx)
    PROVE  Conserved'
<1> DEFINE m == Applied(tx).ledger
<1>1. tx \in Transaction /\ tx.fee \in Nat
  BY ExecutionAssumption, MaxUintAssumption DEF Transaction, Uint
<1>2. NextHeight \in Nat /\ Sound(ledger) /\ Backed(ledger)
  BY DEF Conserved, IInv, Sound, LedgerState, NextHeight
<1>3. Applied(tx).ok /\ open
  BY DEF ExecuteTransaction
<1>4. Executed(ledger, tx, m)
  BY <1>1, <1>2, <1>3, ApplyTransactionTotals DEF Applied
<1>5. Sound(m) /\ SameClock(ledger, m)
  BY <1>1, <1>2, <1>3, ApplyTransactionSound DEF Applied
<1>6. /\ ledger' = m /\ backup' = backup /\ open' = open /\ burned' = burned
      /\ burning' = burning + Burnt(tx)
  BY DEF ExecuteTransaction, Burnt
<1> HIDE DEF m
<1>7. Backed(m) /\ Coin(m) + Burnt(tx) = Coin(ledger) /\ m.height = ledger.height
  BY <1>4, <1>5 DEF Executed, SameClock
<1>8. Burnt(tx) \in Nat
  BY <1>1 DEF Burnt
<1>9. Coin(m) \in Nat /\ burned \in Nat /\ burning \in Nat
  BY <1>5, CoinType DEF Conserved, IInv
<1>10. Coin(ledger) + burned + burning = Issued
  BY DEF Conserved, NativeSupply, Coin
<1>11. Issued' = Issued
  BY <1>6, <1>7 DEF Issued
<1>12. Coin(ledger') + burned' + burning' = Issued'
  BY <1>6, <1>7, <1>8, <1>9, <1>10, <1>11
<1>13. IInv'
  BY ExecuteTransactionIInv DEF Conserved
<1> QED
  BY <1>3, <1>6, <1>7, <1>12, <1>13 DEF Conserved, NativeSupply, Coin

\* The restored backup accounts for the coin of the blocks that stand.
LEMMA RestoreConserved ==
    ASSUME Conserved, open, Restore
    PROVE  Conserved'
<1>1. IInv'
  BY RestoreIInv DEF Conserved
<1>2. ledger' = backup /\ ~open' /\ backup' = NewMature /\ burning' = 0 /\ burned' = burned
  BY DEF Restore, Return
<1>3. /\ Sound(backup) /\ Backed(backup) /\ Coin(backup) + burned = BlockSubsidy * backup.height
      /\ backup.height \in Nat /\ burned \in Nat
  BY DEF Conserved, IInv, Sound, LedgerState
<1>4. Coin(backup) \in Nat
  BY <1>3, CoinType
<1>5. Coin(ledger') + burned' + burning' = BlockSubsidy * (ledger'.height + 0)
  BY <1>2, <1>3, <1>4
<1>6. NativeSupply'
  BY <1>2, <1>5 DEF NativeSupply, Issued, Coin
<1> QED
  BY <1>1, <1>2, <1>3, <1>6, NewMatureTotals DEF Conserved

\* Settling the fees and maturing rewards move coin that exists already.
LEMMA CloseBlockConserved ==
    ASSUME Conserved, NEW miner \in Address, CloseBlock(miner)
    PROVE  Conserved'
<1> DEFINE m == FinishBlock(ledger, miner, NextHeight)
<1>1. /\ ledger.height \in Nat /\ NextHeight \in Nat /\ NextHeight = ledger.height + 1
      /\ Sound(ledger) /\ Backed(ledger) /\ burned \in Nat /\ burning \in Nat
  BY DEF Conserved, IInv, Sound, LedgerState, NextHeight
<1>2. open /\ CanSettleFees(ledger, miner)
  BY DEF CloseBlock
<1>3. Backed(m) /\ Coin(m) = Coin(ledger) /\ m.height = NextHeight
  BY <1>1, <1>2, FinishBlockTotals, FinishBlockSound
<1>4. /\ ledger' = m /\ ~open' /\ backup' = NewMature
      /\ burned' = burned + burning /\ burning' = 0
  BY DEF CloseBlock, Return
<1> HIDE DEF m
<1>5. Coin(ledger) + burned + burning = BlockSubsidy * (ledger.height + 1)
  BY <1>2 DEF Conserved, NativeSupply, Issued, Coin
<1>6. Coin(ledger) \in Nat
  BY <1>1, CoinType
<1>7. Coin(ledger') + burned' + burning' = BlockSubsidy * (ledger'.height + 0)
  BY <1>1, <1>3, <1>4, <1>5, <1>6
<1>8. NativeSupply'
  BY <1>4, <1>7 DEF NativeSupply, Issued, Coin
<1>9. IInv'
  BY CloseBlockIInv DEF Conserved
<1> QED
  BY <1>3, <1>4, <1>8, <1>9, NewMatureTotals DEF Conserved

\* A failed coinbase and a reload leave the clone.
LEMMA CloneConserved ==
    ASSUME Conserved, ~open, ledger' = Clone(ledger),
           UNCHANGED <<backup, open, count, burned, burning>>
    PROVE  Conserved'
<1>1. Sound(ledger) /\ Backed(ledger)
  BY DEF Conserved, IInv
<1>2. Backed(ledger') /\ Coin(ledger') = Coin(ledger) /\ ledger'.height = ledger.height
  BY <1>1, CloneSound, CloneTotals DEF SameClock
<1>3. IInv'
  BY CloneIInv DEF Conserved
<1>4. NativeSupply'
  BY <1>2 DEF Conserved, NativeSupply, Issued, Coin
<1> QED
  BY <1>2, <1>3, <1>4 DEF Conserved

\* Every step of the executor conserves the totals.
LEMMA NextConserved == Conserved /\ [Next]_vars => Conserved'
<1> SUFFICES ASSUME Conserved, [Next]_vars
             PROVE  Conserved'
  OBVIOUS
<1>1. ASSUME NEW to \in Address, OpenBlock(to)
      PROVE  Conserved'
  BY <1>1, OpenBlockConserved
<1>2. ASSUME NEW to \in Address, FailCoinbase(to)
      PROVE  Conserved'
  BY <1>2, CloneConserved DEF FailCoinbase
<1>3. ASSUME NEW tx \in Transactions, ExecuteTransaction(tx)
      PROVE  Conserved'
  BY <1>3, ExecuteTransactionConserved
<1>4. ASSUME NEW tx \in Transactions, FailTransaction(tx)
      PROVE  Conserved'
  BY <1>4, RestoreConserved DEF FailTransaction
<1>5. ASSUME NEW miner \in Address, CloseBlock(miner)
      PROVE  Conserved'
  BY <1>5, CloseBlockConserved
<1>6. ASSUME NEW miner \in Address, FailSettlement(miner)
      PROVE  Conserved'
  BY <1>6, RestoreConserved DEF FailSettlement
<1>7. CASE Reload
  <2>1. NewMatureFromState(SnapshotForLedger(ledger)) = Clone(ledger)
    BY SnapshotRoundTrip DEF Conserved, IInv
  <2> QED
    BY <1>7, <2>1, CloneConserved DEF Reload
<1>8. CASE UNCHANGED vars
  <2>1. IInv'
    BY <1>8, NextIInv DEF Conserved
  <2> QED
    BY <1>8, <2>1 DEF Conserved, NativeSupply, Issued, Coin, vars
<1> QED
  BY <1>1, <1>2, <1>3, <1>4, <1>5, <1>6, <1>7, <1>8 DEF Next

\* Every reachable state of the executor conserves the totals.
THEOREM ConservationHolds == Spec => []Conserved
<1> QED
  BY InitConserved, NextConserved, PTL DEF Spec

\* Native coin is created by coinbases and destroyed by legacy fees alone.
THEOREM NativeSupplyHolds == Spec => []NativeSupply
<1>1. Conserved => NativeSupply
  BY DEF Conserved
<1> QED
  BY <1>1, ConservationHolds, PTL

\* The balances of every issued asset add up to its supply, within its cap.
THEOREM TokenSupplyHolds == Spec => []TokenSupply
<1>1. Conserved => TokenSupply
  BY DEF Conserved, Backed, TokenSupply
<1> QED
  BY <1>1, ConservationHolds, PTL

\* Pending rewards and locked stake are covered by the balances they are part of.
THEOREM FundsAlwaysCovered == Spec => []FundsAreCovered
<1>1. Conserved => FundsAreCovered
  BY DEF Conserved, Backed, FundsAreCovered
<1> QED
  BY <1>1, ConservationHolds, PTL
---------------------------------------------------------------------------
\* The step of a nonce and of a stake, for the whole ledger.
AccountMoves == (\A a \in Address : NonceMoves(a)) /\ (\A s \in TxID : StakeMoves(s))

\* A step that keeps the nonces and at most releases stakes moves accounts well.
LEMMA ReleaseMoves ==
    ASSUME ledger'.nonce = ledger.nonce,
           \A s \in TxID : \/ ledger'.stakes[s] = ledger.stakes[s]
                           \/ /\ ledger.stakes[s].status = "unlocking"
                              /\ ledger'.stakes[s].status = "released"
                              /\ ledger'.stakes[s].release = ledger.stakes[s].release
    PROVE  AccountMoves
<1>1. \A a \in Address : NonceMoves(a)
  BY DEF NonceMoves
<1>2. ASSUME NEW s \in TxID
      PROVE  StakeMoves(s)
  <2>1. CASE ledger.stakes[s].status = "released"
    BY <2>1 DEF StakeMoves
  <2>2. CASE ledger.stakes[s].status = "unlocking"
    BY <2>2 DEF StakeMoves
  <2>3. CASE ledger.stakes[s].status \notin {"released", "unlocking"}
    BY <2>3 DEF StakeMoves
  <2> QED
    BY <2>1, <2>2, <2>3
<1> QED
  BY <1>1, <1>2 DEF AccountMoves

\* A failed block takes the nonces of the backup and does not move the height.
LEMMA RestoreMoves ==
    ASSUME Conserved, open, Restore
    PROVE  AccountMoves
<1>1. ledger' = backup /\ ~open' /\ backup.height = ledger.height /\ ledger.height \in Nat
  BY DEF Restore, Return, Conserved, IInv, Sound, LedgerState
<1>2. \A a \in Address : NonceMoves(a)
  BY <1>1 DEF NonceMoves
<1>3. \A s \in TxID : StakeMoves(s)
  BY <1>1 DEF StakeMoves
<1> QED
  BY <1>2, <1>3 DEF AccountMoves

\* Every step moves nonces and stakes as AccountStep allows.
LEMMA NextMoves == Conserved /\ Next => AccountMoves
<1> SUFFICES ASSUME Conserved, Next
             PROVE  AccountMoves
  OBVIOUS
<1>1. /\ Sound(ledger) /\ Backed(ledger)
      /\ ledger.height \in Nat /\ NextHeight \in Nat /\ NextHeight = ledger.height + 1
  BY DEF Conserved, IInv, Sound, LedgerState, NextHeight
<1>2. ASSUME ledger' = Clone(ledger)
      PROVE  AccountMoves
  BY <1>1, <1>2, CloneTotals, ReleaseMoves
<1>3. ASSUME NEW to \in Address, OpenBlock(to)
      PROVE  AccountMoves
  <2> DEFINE b == BeginBlock(ledger, NextHeight)
  <2>1. Sound(b) /\ b.coinbases \subseteq ledger.coinbases
    BY <1>1, BeginBlockSound
  <2>2. Backed(b) /\ b.nonce = ledger.nonce /\ b.stakes = Clone(ledger).stakes
    BY <1>1, BeginBlockTotals
  <2>3. ledger' = ApplyCoinbaseAtHeight(b, to, BlockSubsidy, NextHeight)
    BY <1>3 DEF OpenBlock
  <2> HIDE DEF b
  <2>4. ledger'.nonce = b.nonce /\ ledger'.stakes = b.stakes
    BY <2>1, <2>3 DEF ApplyCoinbaseAtHeight, Sound, LedgerState
  <2> QED
    BY <1>1, <2>2, <2>4, CloneTotals, ReleaseMoves
<1>4. ASSUME NEW to \in Address, FailCoinbase(to)
      PROVE  AccountMoves
  BY <1>2, <1>4 DEF FailCoinbase
<1>5. ASSUME NEW tx \in Transactions, ExecuteTransaction(tx)
      PROVE  AccountMoves
  <2>1. tx \in Transaction /\ tx.from \in Address
    BY ExecutionAssumption DEF Transaction
  <2>2. Applied(tx).ok /\ open /\ open' /\ ledger' = Applied(tx).ledger
    BY <1>5 DEF ExecuteTransaction
  <2>3. Executed(ledger, tx, ledger')
    BY <1>1, <2>1, <2>2, ApplyTransactionTotals DEF Applied
  <2>4. \A a \in Address : NonceMoves(a)
    <3>1. /\ ledger'.nonce = [ledger.nonce EXCEPT ![tx.from] = tx.nonce]
          /\ tx.nonce = ledger.nonce[tx.from] + 1
          /\ ledger.nonce \in [Address -> 0..MaxNonce]
      BY <1>1, <2>3 DEF Executed, Sound, LedgerState
    <3> QED
      BY <2>1, <2>2, <3>1 DEF NonceMoves
  <2>5. ASSUME NEW s \in TxID
        PROVE  StakeMoves(s)
    <3>1. CASE ledger.stakes[s].status \in {"unlocking", "released"}
      <4>1. ledger'.stakes[s] = ledger.stakes[s]
        BY <2>3, <3>1 DEF Executed
      <4> QED
        BY <3>1, <4>1 DEF StakeMoves
    <3>2. CASE ledger.stakes[s].status \notin {"unlocking", "released"}
      BY <3>2 DEF StakeMoves
    <3> QED
      BY <3>1, <3>2
  <2> QED
    BY <2>4, <2>5 DEF AccountMoves
<1>6. ASSUME NEW tx \in Transactions, FailTransaction(tx)
      PROVE  AccountMoves
  BY <1>6, RestoreMoves DEF FailTransaction
<1>7. ASSUME NEW miner \in Address, CloseBlock(miner)
      PROVE  AccountMoves
  <2>1. CanSettleFees(ledger, miner) /\ ledger' = FinishBlock(ledger, miner, NextHeight)
    BY <1>7 DEF CloseBlock
  <2>2. ledger'.nonce = ledger.nonce /\ ledger'.stakes = ledger.stakes
    BY <1>1, <2>1, FinishBlockTotals
  <2> QED
    BY <2>2, ReleaseMoves
<1>8. ASSUME NEW miner \in Address, FailSettlement(miner)
      PROVE  AccountMoves
  BY <1>8, RestoreMoves DEF FailSettlement
<1>9. CASE Reload
  BY <1>1, <1>2, <1>9, SnapshotRoundTrip DEF Reload
<1> QED
  BY <1>3, <1>4, <1>5, <1>6, <1>7, <1>8, <1>9 DEF Next

\* Nonces move one by one and fall back with their block; a released stake is
\* final and the release height of an unlocking one does not move.
THEOREM AccountsStepOneByOne == Spec => AccountStep
<1>1. Conserved /\ [Next]_vars => [AccountMoves]_vars
  BY NextMoves
<1> QED
  BY <1>1, ConservationHolds, PTL DEF Spec, AccountStep, AccountMoves
===========================================================================
