--------------------------- MODULE LedgerProofs ---------------------------
(***************************************************************************)
(* Theorems about the operations of Ledger and Blocks, in three parts:     *)
(* each operation takes a sound ledger to a sound ledger; what each does   *)
(* to the coin, the tokens, the stakes and the pending rewards that a      *)
(* ledger holds; and whole blocks and chains, of any length: what a block  *)
(* that applies keeps, and that executing a chain again from genesis and   *)
(* continuing from a stored snapshot give the same ledger.                 *)
(***************************************************************************)
EXTENDS Blocks, FiniteSetTheorems, TLAPS

\* No asset exceeds its cap.
Capped(l) ==
    \A t \in TxID : l.defs[t].maxSupply > 0 => l.defs[t].totalSupply <= l.defs[t].maxSupply

\* The part of the ledger invariant that needs no totals: types, finitely many
\* pending rewards, the mirror between accounts and native balances, the caps.
Sound(l) ==
    /\ l \in LedgerState
    /\ IsFiniteSet(l.coinbases)
    /\ Mirrored(l)
    /\ Capped(l)

\* A transaction moves neither the height nor the pending rewards.
SameClock(l, m) == m.height = l.height /\ m.coinbases = l.coinbases

\* A total of finitely many amounts is a natural number.
LEMMA SumType ==
    ASSUME NEW S, IsFiniteSet(S), NEW f \in [S -> Uint]
    PROVE  SumOf(f) \in Nat
<1>1. IsFiniteSet(1..MaxUint)
  BY FS_Interval, MaxUintAssumption
<1>2. IsFiniteSet(S \X (1..MaxUint))
  BY <1>1, FS_Product
<1>3. UnitsOf(f) \in SUBSET (S \X (1..MaxUint))
  BY DEF UnitsOf
<1>4. IsFiniteSet(UnitsOf(f))
  BY <1>2, <1>3, FS_Subset
<1> QED
  BY <1>4, FS_CardinalityType DEF SumOf

\* Pending rewards have a total for each address.
LEMMA DueCreditType ==
    ASSUME NEW S \in SUBSET CoinbaseCredit, IsFiniteSet(S), NEW a
    PROVE  DueCredit(S, a) \in Nat
<1> DEFINE f == [c \in S |-> IF c.address = a THEN c.amount ELSE 0]
<1>1. f \in [S -> Uint]
  BY MaxUintAssumption DEF CoinbaseCredit, Uint
<1> QED
  BY <1>1, SumType DEF DueCredit

\* The ledger a node starts from is sound.
LEMMA NewMatureSound == Sound(NewMature)
<1>1. NewMature \in LedgerState
  BY MaxUintAssumption, ParamAssumption DEF NewMature, LedgerState, Stake, Definition, Uint, TxID, Holder, CoinbaseCredit
<1>2. IsFiniteSet(NewMature.coinbases)
  BY FS_EmptySet DEF NewMature
<1>3. Mirrored(NewMature)
  BY DEF NewMature, Mirrored, Holder
<1>4. Capped(NewMature)
  BY DEF NewMature, Capped
<1> QED
  BY <1>1, <1>2, <1>3, <1>4 DEF Sound
---------------------------------------------------------------------------
\* spendNative debits both copies of the balance by what its checks allow.
LEMMA SpendNativeSound ==
    ASSUME NEW l, Sound(l), NEW a \in Address, NEW n \in Nat, ValidateNativeSpend(l, a, n)
    PROVE  /\ Sound(SpendNative(l, a, n))
           /\ SameClock(l, SpendNative(l, a, n))
<1> DEFINE m == SpendNative(l, a, n)
<1>1. n <= l.confirmed[a] /\ n <= l.mature[a] /\ n <= l.native[a]
  BY DEF Sound, ValidateNativeSpend, LedgerState, Uint, Holder
<1>2. /\ [l.confirmed EXCEPT ![a] = @ - n] \in [Address -> Uint]
      /\ [l.mature EXCEPT ![a] = @ - n] \in [Address -> Uint]
      /\ [l.native EXCEPT ![a] = @ - n] \in [Holder -> Uint]
  BY <1>1, MaxUintAssumption DEF Sound, LedgerState, Uint, Holder
<1>3. m \in LedgerState
  BY <1>2 DEF Sound, SpendNative, LedgerState
<1>4. m.coinbases = l.coinbases /\ m.height = l.height /\ m.defs = l.defs
  BY DEF Sound, SpendNative, LedgerState
<1>5. Mirrored(m)
  BY DEF Sound, SpendNative, LedgerState, Mirrored, Uint, Holder
<1> QED
  BY <1>3, <1>4, <1>5 DEF Sound, SameClock, Capped

\* receiveNative credits both copies by what its overflow checks allow.
LEMMA ReceiveNativeSound ==
    ASSUME NEW l, Sound(l), NEW a \in Address, NEW n \in Nat, CanReceiveNative(l, a, n)
    PROVE  /\ Sound(ReceiveNative(l, a, n))
           /\ SameClock(l, ReceiveNative(l, a, n))
<1> DEFINE m == ReceiveNative(l, a, n)
<1>1. /\ [l.confirmed EXCEPT ![a] = @ + n] \in [Address -> Uint]
      /\ [l.mature EXCEPT ![a] = @ + n] \in [Address -> Uint]
      /\ [l.native EXCEPT ![a] = @ + n] \in [Holder -> Uint]
  BY MaxUintAssumption DEF Sound, CanReceiveNative, LedgerState, Uint, Holder
<1>2. m \in LedgerState
  BY <1>1 DEF Sound, ReceiveNative, LedgerState
<1>3. m.coinbases = l.coinbases /\ m.height = l.height /\ m.defs = l.defs
  BY DEF Sound, ReceiveNative, LedgerState
<1>4. Mirrored(m)
  BY DEF Sound, ReceiveNative, LedgerState, Mirrored, Uint, Holder
<1> QED
  BY <1>2, <1>3, <1>4 DEF Sound, SameClock, Capped

\* The native balance of the fee collector is mirrored by no account.
LEMMA CollectorSound ==
    ASSUME NEW l, Sound(l), NEW n \in Uint
    PROVE  /\ Sound([l EXCEPT !.native[FeeCollector] = n])
           /\ SameClock(l, [l EXCEPT !.native[FeeCollector] = n])
<1> DEFINE m == [l EXCEPT !.native[FeeCollector] = n]
<1>1. m \in LedgerState
  BY DEF Sound, LedgerState, Holder
<1>2. m.coinbases = l.coinbases /\ m.height = l.height /\ m.defs = l.defs
  BY DEF Sound, LedgerState
<1>3. Mirrored(m)
  BY AddressAssumption DEF Sound, LedgerState, Mirrored, Holder
<1> QED
  BY <1>1, <1>2, <1>3 DEF Sound, SameClock, Capped

\* chargeNativeFee moves the fee into the pool.
LEMMA ChargeNativeFeeSound ==
    ASSUME NEW l, Sound(l), NEW payer \in Address, NEW fee \in Nat,
           CanChargeNativeFee(l, payer, fee)
    PROVE  /\ Sound(ChargeNativeFee(l, payer, fee))
           /\ SameClock(l, ChargeNativeFee(l, payer, fee))
<1> DEFINE m == SpendNative(l, payer, fee)
<1>1. Sound(m) /\ SameClock(l, m)
  BY SpendNativeSound DEF CanChargeNativeFee
<1>2. m.native[FeeCollector] = l.native[FeeCollector]
  BY AddressAssumption DEF Sound, SpendNative, LedgerState, Holder
<1>3. m.native[FeeCollector] + fee \in Uint
  BY <1>2, MaxUintAssumption DEF Sound, LedgerState, Holder, Uint, CanChargeNativeFee
<1> QED
  BY <1>1, <1>3, CollectorSound DEF ChargeNativeFee, SameClock

\* settleFees empties the pool into the miner's account.
LEMMA SettleFeesSound ==
    ASSUME NEW l, Sound(l), NEW miner \in Address, CanSettleFees(l, miner)
    PROVE  /\ Sound(SettleFees(l, miner))
           /\ SameClock(l, SettleFees(l, miner))
           /\ SettleFees(l, miner).native[FeeCollector] = 0
<1> DEFINE pool == l.native[FeeCollector]
           m == [l EXCEPT !.native[FeeCollector] = 0]
<1>1. pool \in Nat
  BY MaxUintAssumption DEF Sound, LedgerState, Holder, Uint
<1>2. Sound(m) /\ SameClock(l, m)
  BY CollectorSound, MaxUintAssumption DEF Uint
<1>3. CanReceiveNative(m, miner, pool)
  BY AddressAssumption DEF Sound, LedgerState, Holder, CanSettleFees, CanReceiveNative
<1>4. Sound(ReceiveNative(m, miner, pool)) /\ SameClock(m, ReceiveNative(m, miner, pool))
  BY <1>1, <1>2, <1>3, ReceiveNativeSound
<1>5. ReceiveNative(m, miner, pool).native[FeeCollector] = 0
  BY AddressAssumption DEF Sound, LedgerState, Holder, ReceiveNative
<1> QED
  BY <1>2, <1>4, <1>5 DEF SettleFees, SameClock
---------------------------------------------------------------------------
\* Changing stakes, or the nonce, disturbs no balance.
LEMMA StakesSound ==
    ASSUME NEW l, Sound(l), NEW st \in [TxID -> Stake]
    PROVE  /\ Sound([l EXCEPT !.stakes = st])
           /\ SameClock(l, [l EXCEPT !.stakes = st])
  BY DEF Sound, SameClock, LedgerState, Mirrored, Capped

\* SetNonce writes the nonce of the sender and nothing else.
LEMMA SetNonceSound ==
    ASSUME NEW l, Sound(l), NEW tx \in Transaction
    PROVE  /\ Sound(SetNonce(l, tx))
           /\ SameClock(l, SetNonce(l, tx))
<1>1. [l.nonce EXCEPT ![tx.from] = tx.nonce] \in [Address -> 0..MaxNonce]
  BY ParamAssumption DEF Sound, LedgerState, Transaction
<1> QED
  BY <1>1 DEF Sound, SetNonce, SameClock, LedgerState, Mirrored, Capped

\* staking.ApplyLock records a stake of the type the state expects.
LEMMA ApplyLockSound ==
    ASSUME NEW l, Sound(l), NEW tx \in Transaction
    PROVE  /\ Sound(ApplyLock(l, tx))
           /\ SameClock(l, ApplyLock(l, tx))
<1> DEFINE record == [status |-> "active", owner |-> tx.from, amount |-> tx.amount, release |-> 0]
           st == [l.stakes EXCEPT ![<<tx.from, tx.nonce>>] = record]
<1>1. record \in Stake
  BY DEF Transaction, Stake
<1>2. st \in [TxID -> Stake]
  BY <1>1 DEF Sound, LedgerState
<1>3. ApplyLock(l, tx) = [l EXCEPT !.stakes = st]
  BY DEF ApplyLock, Sound, LedgerState
<1>4. Sound([l EXCEPT !.stakes = st]) /\ SameClock(l, [l EXCEPT !.stakes = st])
  BY <1>2, StakesSound
<1> QED
  BY <1>3, <1>4

\* staking.ApplyUnlock sets the status and the release height of one stake.
LEMMA ApplyUnlockSound ==
    ASSUME NEW l, Sound(l), NEW tx \in Transaction, NEW height \in Nat
    PROVE  /\ Sound(ApplyUnlock(l, tx, height))
           /\ SameClock(l, ApplyUnlock(l, tx, height))
<1> DEFINE record == [l.stakes[tx.ref] EXCEPT !.status = "unlocking",
                                              !.release = height + UnbondingPeriod]
           st == [l.stakes EXCEPT ![tx.ref] = record]
<1>1. l.stakes[tx.ref] \in Stake
  BY DEF Sound, LedgerState, Transaction
<1>2. record \in Stake
  <2>1. height + UnbondingPeriod \in Nat
    BY ParamAssumption
  <2> QED
    BY <1>1, <2>1 DEF Stake
<1>3. st \in [TxID -> Stake]
  BY <1>2 DEF Sound, LedgerState
<1>4. ApplyUnlock(l, tx, height) = [l EXCEPT !.stakes = st]
  BY <1>1 DEF ApplyUnlock, Sound, LedgerState, Transaction, Stake
<1>5. Sound([l EXCEPT !.stakes = st]) /\ SameClock(l, [l EXCEPT !.stakes = st])
  BY <1>3, StakesSound
<1> QED
  BY <1>4, <1>5

\* Refreshing released stakes keeps their type.
LEMMA CloneSound ==
    ASSUME NEW l, Sound(l)
    PROVE  /\ Sound(Clone(l))
           /\ SameClock(l, Clone(l))
           /\ Clone(l).native = l.native
<1> DEFINE st == RefreshReleased(l.stakes, l.height)
<1>1. ASSUME NEW s \in TxID
      PROVE  st[s] \in Stake
  <2>1. l.stakes[s] \in Stake
    BY DEF Sound, LedgerState
  <2>2. [l.stakes[s] EXCEPT !.status = "released"] \in Stake
    BY <2>1 DEF Stake
  <2> QED
    BY <2>1, <2>2 DEF RefreshReleased
<1>2. st \in [TxID -> Stake]
  BY <1>1 DEF RefreshReleased
<1>3. Clone(l) = [l EXCEPT !.stakes = st]
  BY DEF Clone
<1>4. [l EXCEPT !.stakes = st].native = l.native
  BY DEF Sound, LedgerState
<1> QED
  BY <1>2, <1>3, <1>4, StakesSound
---------------------------------------------------------------------------
\* Token balances and definitions: the operations on issued assets.
LEMMA TokenSound ==
    ASSUME NEW l, Sound(l), NEW t \in TxID, NEW bal \in [Address -> Uint]
    PROVE  /\ Sound([l EXCEPT !.token[t] = bal])
           /\ SameClock(l, [l EXCEPT !.token[t] = bal])
  BY DEF Sound, SameClock, LedgerState, Mirrored, Capped

\* Writing a definition that respects its cap keeps every asset capped.
LEMMA DefinitionSound ==
    ASSUME NEW l, Sound(l), NEW t \in TxID, NEW def \in Definition,
           def.maxSupply > 0 => def.totalSupply <= def.maxSupply
    PROVE  /\ Sound([l EXCEPT !.defs[t] = def])
           /\ SameClock(l, [l EXCEPT !.defs[t] = def])
  BY DEF Sound, SameClock, LedgerState, Mirrored, Capped

\* asset.Transfer neither overdraws the sender nor overflows the recipient.
LEMMA TransferSound ==
    ASSUME NEW l, Sound(l), NEW tx \in Transaction, CanTransfer(l, tx)
    PROVE  /\ Sound(Transfer(l, tx))
           /\ SameClock(l, Transfer(l, tx))
<1> DEFINE bal == [l.token[tx.ref] EXCEPT ![tx.from] = @ - tx.amount, ![tx.to] = @ + tx.amount]
<1>1. /\ l.token[tx.ref] \in [Address -> Uint]
      /\ tx.from \in Address /\ tx.to \in Address /\ tx.ref \in TxID /\ tx.amount \in Uint
  BY DEF Sound, LedgerState, Transaction
<1>2. bal \in [Address -> Uint]
  BY <1>1, MaxUintAssumption DEF CanTransfer, Uint
<1>3. Transfer(l, tx) = [l EXCEPT !.token[tx.ref] = bal]
  BY DEF Transfer
<1>4. /\ Sound([l EXCEPT !.token[tx.ref] = bal])
      /\ SameClock(l, [l EXCEPT !.token[tx.ref] = bal])
  BY <1>1, <1>2, TokenSound
<1> QED
  BY <1>3, <1>4

\* An asset is created with nothing issued, so under its cap.
LEMMA CreateSound ==
    ASSUME NEW l, Sound(l), NEW tx \in Transaction
    PROVE  /\ Sound(CreateFromTransactionID(l, tx))
           /\ SameClock(l, CreateFromTransactionID(l, tx))
<1> DEFINE def == [status |-> "active", issuer |-> tx.from, maxSupply |-> tx.amount,
                   totalSupply |-> 0, mintable |-> tx.mintable, burnable |-> tx.burnable]
<1>1. def \in Definition /\ (def.maxSupply > 0 => def.totalSupply <= def.maxSupply)
  BY MaxUintAssumption DEF Transaction, Definition, Uint
<1>2. <<tx.from, tx.nonce>> \in TxID
  BY DEF Transaction, TxID
<1> QED
  BY <1>1, <1>2, DefinitionSound DEF CreateFromTransactionID

\* asset.Mint checks the cap and both additions before it writes.
LEMMA MintSound ==
    ASSUME NEW l, Sound(l), NEW tx \in Transaction, CanMint(l, tx)
    PROVE  /\ Sound(Mint(l, tx))
           /\ SameClock(l, Mint(l, tx))
<1> DEFINE bal == [l.token[tx.ref] EXCEPT ![tx.to] = @ + tx.amount]
           def == [l.defs[tx.ref] EXCEPT !.totalSupply = @ + tx.amount]
           m == [l EXCEPT !.token[tx.ref] = bal]
<1>1. /\ l.token[tx.ref] \in [Address -> Uint] /\ l.defs[tx.ref] \in Definition
      /\ tx.to \in Address /\ tx.ref \in TxID /\ tx.amount \in Uint
  BY DEF Sound, LedgerState, Transaction
<1>2. bal \in [Address -> Uint]
  BY <1>1, MaxUintAssumption DEF CanMint, Uint
<1>3. def \in Definition /\ (def.maxSupply > 0 => def.totalSupply <= def.maxSupply)
  BY <1>1, MaxUintAssumption DEF CanMint, Definition, Uint
<1>4. Sound(m) /\ SameClock(l, m)
  BY <1>1, <1>2, TokenSound
<1>5. Mint(l, tx) = [m EXCEPT !.defs[tx.ref] = def]
  BY <1>1 DEF Mint, Sound, LedgerState
<1>6. /\ Sound([m EXCEPT !.defs[tx.ref] = def])
      /\ SameClock(m, [m EXCEPT !.defs[tx.ref] = def])
  <2> HIDE DEF m, def
  <2> QED
    BY <1>1, <1>3, <1>4, DefinitionSound
<1> QED
  BY <1>4, <1>5, <1>6 DEF SameClock

\* asset.Burn lowers the balance and the supply by an amount both cover.
LEMMA BurnSound ==
    ASSUME NEW l, Sound(l), NEW tx \in Transaction, CanBurn(l, tx)
    PROVE  /\ Sound(Burn(l, tx))
           /\ SameClock(l, Burn(l, tx))
<1> DEFINE bal == [l.token[tx.ref] EXCEPT ![tx.from] = @ - tx.amount]
           def == [l.defs[tx.ref] EXCEPT !.totalSupply = @ - tx.amount]
           m == [l EXCEPT !.token[tx.ref] = bal]
<1>1. /\ l.token[tx.ref] \in [Address -> Uint] /\ l.defs[tx.ref] \in Definition
      /\ tx.from \in Address /\ tx.ref \in TxID /\ tx.amount \in Uint
      /\ l.defs[tx.ref].maxSupply > 0 => l.defs[tx.ref].totalSupply <= l.defs[tx.ref].maxSupply
  BY DEF Sound, LedgerState, Transaction, Capped
<1>2. bal \in [Address -> Uint]
  BY <1>1, MaxUintAssumption DEF CanBurn, Uint
<1>3. def \in Definition /\ (def.maxSupply > 0 => def.totalSupply <= def.maxSupply)
  BY <1>1, MaxUintAssumption DEF CanBurn, Definition, Uint
<1>4. Sound(m) /\ SameClock(l, m)
  BY <1>1, <1>2, TokenSound
<1>5. Burn(l, tx) = [m EXCEPT !.defs[tx.ref] = def]
  BY <1>1 DEF Burn, Sound, LedgerState
<1>6. /\ Sound([m EXCEPT !.defs[tx.ref] = def])
      /\ SameClock(m, [m EXCEPT !.defs[tx.ref] = def])
  <2> HIDE DEF m, def
  <2> QED
    BY <1>1, <1>3, <1>4, DefinitionSound
<1> QED
  BY <1>4, <1>5, <1>6 DEF SameClock
---------------------------------------------------------------------------
\* Debiting one account and crediting another stays within the integer width.
LEMMA MovedType ==
    ASSUME NEW S, NEW f \in [S -> Uint], NEW x \in S, NEW y \in S, x # y,
           NEW cost \in Nat, NEW n \in Nat, cost <= f[x], f[y] + n <= MaxUint
    PROVE  [f EXCEPT ![x] = @ - cost, ![y] = @ + n] \in [S -> Uint]
  BY MaxUintAssumption DEF Uint

\* ApplyTransactionAtHeight on a legacy transfer: because both copies of the
\* balance agree, the debit and the credit of the asset state succeed once the
\* account checks have, so the partial write the code allows never happens.
LEMMA ApplyLegacyTransferSound ==
    ASSUME NEW l, Sound(l), NEW tx \in Transaction, tx.kind = "legacy_transfer",
           ValidateLegacyTransaction(l, tx)
    PROVE  LET r == ApplyLegacyTransfer(l, tx)
           IN  \/ r.ok /\ Sound(r.ledger) /\ SameClock(l, r.ledger)
               \/ ~r.ok /\ r.ledger = l
<1> DEFINE cost == tx.amount + tx.fee
           Moved(f) == [f EXCEPT ![tx.from] = @ - cost, ![tx.to] = @ + tx.amount]
           overflow == \/ l.confirmed[tx.to] + tx.amount > MaxUint
                       \/ l.mature[tx.to] + tx.amount > MaxUint
           m == [l EXCEPT !.confirmed = Moved(l.confirmed), !.mature = Moved(l.mature),
                          !.native = Moved(l.native), !.nonce[tx.from] = tx.nonce]
<1>1. /\ tx.from \in Address /\ tx.to \in Address /\ tx.from # tx.to
      /\ tx.amount \in Nat /\ tx.fee \in Nat /\ cost \in Nat
      /\ tx.nonce \in 0..MaxNonce
  BY ParamAssumption, MaxUintAssumption DEF Transaction, ValidateLegacyTransaction, Uint
<1>2. cost <= l.confirmed[tx.from] /\ cost <= l.mature[tx.from]
  BY DEF ValidateLegacyTransaction
<1>3. /\ l.confirmed \in [Address -> Uint] /\ l.mature \in [Address -> Uint]
      /\ l.native \in [Holder -> Uint] /\ l.nonce \in [Address -> 0..MaxNonce]
  BY DEF Sound, LedgerState
<1>4. /\ l.native[tx.from] = l.confirmed[tx.from]
      /\ l.native[tx.to] = l.confirmed[tx.to]
  BY <1>1 DEF Sound, Mirrored
<1>5. CASE overflow
  <2>1. ApplyLegacyTransfer(l, tx) = Err(l)
    BY <1>1, <1>3, <1>4, <1>5, MaxUintAssumption DEF ApplyLegacyTransfer, Uint, Holder
  <2> QED
    BY <2>1 DEF Err
<1>6. CASE ~overflow
  <2>1. /\ l.confirmed[tx.to] + tx.amount <= MaxUint
        /\ l.mature[tx.to] + tx.amount <= MaxUint
        /\ l.native[tx.to] + tx.amount <= MaxUint
        /\ cost <= l.native[tx.from]
    BY <1>1, <1>2, <1>3, <1>4, <1>6, MaxUintAssumption DEF Uint
  <2>2. ApplyLegacyTransfer(l, tx) = Ok(m)
    BY <1>1, <1>3, <2>1, MaxUintAssumption DEF ApplyLegacyTransfer, Uint, Holder
  <2>3. /\ Moved(l.confirmed) \in [Address -> Uint]
        /\ Moved(l.mature) \in [Address -> Uint]
        /\ Moved(l.native) \in [Holder -> Uint]
    <3> HIDE DEF cost
    <3> QED
      BY <1>1, <1>2, <1>3, <2>1, MovedType DEF Holder
  <2>4. [l.nonce EXCEPT ![tx.from] = tx.nonce] \in [Address -> 0..MaxNonce]
    BY <1>1, <1>3
  <2>5. m \in LedgerState
    <3> HIDE DEF Moved, cost
    <3> QED
      BY <2>3, <2>4 DEF Sound, LedgerState
  <2>6. m.coinbases = l.coinbases /\ m.height = l.height /\ m.defs = l.defs
    BY DEF Sound, LedgerState
  <2>7. m.native = Moved(l.native) /\ m.confirmed = Moved(l.confirmed)
    <3> HIDE DEF Moved, cost
    <3> QED
      BY DEF Sound, LedgerState
  <2>8. ASSUME NEW a \in Address
        PROVE  Moved(l.native)[a] = Moved(l.confirmed)[a]
    BY <1>1, <1>3, <1>4 DEF Sound, Mirrored, Holder
  <2>9. Mirrored(m)
    <3> HIDE DEF Moved, m
    <3> QED
      BY <2>7, <2>8 DEF Mirrored
  <2>10. Sound(m) /\ SameClock(l, m)
    <3> HIDE DEF m
    <3> QED
      BY <2>5, <2>6, <2>9 DEF Sound, SameClock, Capped
  <2> QED
    <3> HIDE DEF m
    <3> QED
      BY <2>2, <2>10 DEF Ok
<1> QED
  BY <1>5, <1>6

\* A legacy transaction that was validated executes soundly or not at all.
LEMMA ApplyLegacySound ==
    ASSUME NEW l, Sound(l), NEW tx \in Transaction, NEW height \in Nat,
           ValidateLegacyTransaction(l, tx)
    PROVE  LET r == ApplyLegacy(l, tx, height)
           IN  \/ r.ok /\ Sound(r.ledger) /\ SameClock(l, r.ledger)
               \/ ~r.ok /\ r.ledger = l
<1>1. CASE tx.kind = "legacy_transfer"
  BY <1>1, ApplyLegacyTransferSound DEF ApplyLegacy
<1>2. CASE tx.kind = "stake_lock"
  <2> DEFINE m == ApplyLock(l, tx)
  <2>1. Sound(SetNonce(m, tx)) /\ SameClock(l, SetNonce(m, tx))
    BY ApplyLockSound, SetNonceSound DEF SameClock
  <2> QED
    BY <1>2, <2>1 DEF ApplyLegacy, Ok, Err
<1>3. CASE tx.kind = "stake_unlock"
  <2> DEFINE m == ApplyUnlock(l, tx, height)
  <2>1. Sound(SetNonce(m, tx)) /\ SameClock(l, SetNonce(m, tx))
    BY ApplyUnlockSound, SetNonceSound DEF SameClock
  <2> QED
    BY <1>3, <2>1 DEF ApplyLegacy, Ok, Err
<1> QED
  BY <1>1, <1>2, <1>3 DEF ValidateLegacyTransaction

\* The tail every version 3 transaction runs: charge the fee, set the nonce.
LEMMA ChargedSound ==
    ASSUME NEW l, Sound(l), NEW tx \in Transaction, CanChargeNativeFee(l, tx.payer, tx.fee)
    PROVE  LET m == SetNonce(ChargeNativeFee(l, tx.payer, tx.fee), tx)
           IN  Sound(m) /\ SameClock(l, m)
<1>1. tx.payer \in Address /\ tx.fee \in Nat
  BY MaxUintAssumption DEF Transaction, Uint
<1> QED
  BY <1>1, ChargeNativeFeeSound, SetNonceSound DEF SameClock

\* applyAssetTransactionV3 executes soundly or restores the clone it took.
LEMMA ApplyAssetTransactionV3Sound ==
    ASSUME NEW l, Sound(l), NEW tx \in Transaction, tx.kind \in AssetKind
    PROVE  LET r == ApplyAssetTransactionV3(l, tx)
           IN  \/ r.ok /\ Sound(r.ledger) /\ SameClock(l, r.ledger)
               \/ ~r.ok /\ r.ledger = l
<1> DEFINE Charged(m) == SetNonce(ChargeNativeFee(m, tx.payer, tx.fee), tx)
           spent == SpendNative(l, tx.from, tx.amount)
           r == ApplyAssetTransactionV3(l, tx)
           Good == \/ r.ok /\ Sound(r.ledger) /\ SameClock(l, r.ledger)
                   \/ ~r.ok /\ r.ledger = l
<1>1. /\ tx.from \in Address /\ tx.to \in Address
      /\ tx.amount \in Nat /\ tx.fee \in Nat
  BY MaxUintAssumption DEF Transaction, Uint
<1>2. ASSUME NEW m, Sound(m), SameClock(l, m), CanChargeNativeFee(m, tx.payer, tx.fee)
      PROVE  Sound(Charged(m)) /\ SameClock(l, Charged(m))
  BY <1>2, ChargedSound DEF SameClock
<1>3. CASE tx.kind = "native_transfer"
  <2> DEFINE can == /\ ValidateNativeSpend(l, tx.from, tx.amount)
                    /\ CanChargeNativeFee(spent, tx.payer, tx.fee)
                    /\ CanReceiveNative(Charged(spent), tx.to, tx.amount)
             m == ReceiveNative(Charged(spent), tx.to, tx.amount)
  <2>1. r = IF can THEN Ok(m) ELSE Err(l)
    BY <1>3 DEF ApplyAssetTransactionV3
  <2>2. ASSUME can
        PROVE  Sound(m) /\ SameClock(l, m)
    <3>1. Sound(spent) /\ SameClock(l, spent)
      BY <1>1, <2>2, SpendNativeSound
    <3>2. Sound(Charged(spent)) /\ SameClock(l, Charged(spent))
      BY <1>2, <2>2, <3>1
    <3> QED
      <4> HIDE DEF Charged
      <4> QED
        BY <1>1, <2>2, <3>2, ReceiveNativeSound DEF SameClock
  <2> HIDE DEF can, m
  <2> QED
    BY <2>1, <2>2 DEF Ok, Err
<1>4. CASE tx.kind = "token_transfer"
  <2>1. r = IF CanTransfer(l, tx) /\ CanChargeNativeFee(Transfer(l, tx), tx.payer, tx.fee)
            THEN Ok(Charged(Transfer(l, tx))) ELSE Err(l)
    BY <1>4 DEF ApplyAssetTransactionV3
  <2>2. CanTransfer(l, tx) => Sound(Transfer(l, tx)) /\ SameClock(l, Transfer(l, tx))
    BY TransferSound
  <2> QED
    BY <1>2, <2>1, <2>2 DEF Ok, Err
<1>5. CASE tx.kind = "asset_create"
  <2> DEFINE m == CreateFromTransactionID(l, tx)
  <2>1. r = IF CanCreate(l, tx) /\ CanChargeNativeFee(m, tx.payer, tx.fee)
            THEN Ok(Charged(m)) ELSE Err(l)
    BY <1>5 DEF ApplyAssetTransactionV3
  <2>2. Sound(m) /\ SameClock(l, m)
    BY CreateSound
  <2> QED
    BY <1>2, <2>1, <2>2 DEF Ok, Err
<1>6. CASE tx.kind = "asset_mint"
  <2>1. r = IF CanMint(l, tx) /\ CanChargeNativeFee(Mint(l, tx), tx.payer, tx.fee)
            THEN Ok(Charged(Mint(l, tx))) ELSE Err(l)
    BY <1>6 DEF ApplyAssetTransactionV3
  <2>2. CanMint(l, tx) => Sound(Mint(l, tx)) /\ SameClock(l, Mint(l, tx))
    BY MintSound
  <2> QED
    BY <1>2, <2>1, <2>2 DEF Ok, Err
<1>7. CASE tx.kind = "asset_burn"
  <2>1. r = IF CanBurn(l, tx) /\ CanChargeNativeFee(Burn(l, tx), tx.payer, tx.fee)
            THEN Ok(Charged(Burn(l, tx))) ELSE Err(l)
    BY <1>7 DEF ApplyAssetTransactionV3
  <2>2. CanBurn(l, tx) => Sound(Burn(l, tx)) /\ SameClock(l, Burn(l, tx))
    BY BurnSound
  <2> QED
    BY <1>2, <2>1, <2>2 DEF Ok, Err
<1> QED
  BY <1>3, <1>4, <1>5, <1>6, <1>7 DEF AssetKind

\* ApplyTransactionAtHeight executes soundly or leaves the ledger alone.
THEOREM ApplyTransactionSound ==
    ASSUME NEW l, Sound(l), NEW tx \in Transaction, NEW height \in Nat
    PROVE  LET r == ApplyTransactionAtHeight(l, tx, height)
           IN  \/ r.ok /\ Sound(r.ledger) /\ SameClock(l, r.ledger)
               \/ ~r.ok /\ r.ledger = l
<1>1. CASE ~ValidateTransaction(l, tx)
  BY <1>1 DEF ApplyTransactionAtHeight, Err
<1>2. CASE ValidateTransaction(l, tx) /\ tx.kind \in AssetKind
  BY <1>2, ApplyAssetTransactionV3Sound DEF ApplyTransactionAtHeight
<1>3. CASE ValidateTransaction(l, tx) /\ tx.kind \notin AssetKind
  BY <1>3, ApplyLegacySound DEF ApplyTransactionAtHeight, ValidateTransaction
<1> QED
  BY <1>1, <1>2, <1>3
---------------------------------------------------------------------------
\* matureCoinbases moves rewards into the mature balance without overflow,
\* adds no pending reward and touches no native balance.
LEMMA MatureCoinbasesSound ==
    ASSUME NEW l, Sound(l), NEW height \in Int
    PROVE  LET m == MatureCoinbases(l, height)
           IN  /\ Sound(m)
               /\ m.height = l.height
               /\ m.native = l.native
               /\ m.coinbases \subseteq l.coinbases
<1> DEFINE due == {c \in l.coinbases : c.height + Maturity <= height}
           Fits(a) == l.mature[a] + DueCredit(due, a) <= MaxUint
           mat == [a \in Address |-> IF Fits(a) THEN l.mature[a] + DueCredit(due, a)
                                                ELSE l.mature[a]]
           left == {c \in l.coinbases : ~(c \in due /\ Fits(c.address))}
           m == [l EXCEPT !.mature = mat, !.coinbases = left]
<1>1. MatureCoinbases(l, height) = m
  BY DEF MatureCoinbases
<1>2. l.coinbases \in SUBSET CoinbaseCredit /\ IsFiniteSet(l.coinbases)
  BY DEF Sound, LedgerState
<1>3. due \in SUBSET CoinbaseCredit /\ IsFiniteSet(due)
  BY <1>2, FS_Subset
<1>4. left \in SUBSET CoinbaseCredit /\ IsFiniteSet(left) /\ left \subseteq l.coinbases
  BY <1>2, FS_Subset
<1>5. mat \in [Address -> Uint]
  <2> SUFFICES ASSUME NEW a \in Address
               PROVE  mat[a] \in Uint
    OBVIOUS
  <2> HIDE DEF due
  <2>1. DueCredit(due, a) \in Nat
    BY <1>3, DueCreditType
  <2>2. l.mature[a] \in Uint
    BY DEF Sound, LedgerState
  <2> QED
    BY <2>1, <2>2, MaxUintAssumption DEF Uint
<1> HIDE DEF mat, left, due, Fits
<1>6. m \in LedgerState
  BY <1>4, <1>5 DEF Sound, LedgerState
<1>7. /\ m.height = l.height /\ m.native = l.native /\ m.defs = l.defs
      /\ m.confirmed = l.confirmed /\ m.coinbases = left
  BY DEF Sound, LedgerState
<1> HIDE DEF m
<1>8. Sound(m)
  BY <1>4, <1>6, <1>7 DEF Sound, Mirrored, Capped
<1> QED
  BY <1>1, <1>4, <1>7, <1>8

\* The coinbase credits both copies of the confirmed balance and leaves the
\* reward pending.
LEMMA CoinbaseSound ==
    ASSUME NEW l, Sound(l), NEW to \in Address, NEW amount \in Uint, NEW height \in Nat,
           CanApplyCoinbase(l, to, amount)
    PROVE  LET m == ApplyCoinbaseAtHeight(l, to, amount, height)
           IN  /\ Sound(m)
               /\ m.height = l.height
               /\ m.native[FeeCollector] = l.native[FeeCollector]
               /\ \A c \in m.coinbases : c \notin l.coinbases =>
                    c = [address |-> to, amount |-> amount, height |-> height]
<1> DEFINE conf == [l.confirmed EXCEPT ![to] = @ + amount]
           nat == [l.native EXCEPT ![to] = @ + amount]
           credit == [address |-> to, amount |-> amount, height |-> height]
           new == IF amount = 0 THEN {} ELSE {credit}
           all == l.coinbases \cup new
           m == [l EXCEPT !.confirmed = conf, !.native = nat, !.coinbases = all]
<1>1. l.confirmed \in [Address -> Uint] /\ l.native \in [Holder -> Uint]
  BY DEF Sound, LedgerState
<1>2. ApplyCoinbaseAtHeight(l, to, amount, height) = m
  BY <1>1 DEF ApplyCoinbaseAtHeight, Sound, LedgerState
<1>3. conf \in [Address -> Uint] /\ nat \in [Holder -> Uint]
  BY <1>1, MaxUintAssumption DEF CanApplyCoinbase, Uint, Holder
<1>4. new \in SUBSET CoinbaseCredit /\ IsFiniteSet(new)
  <2>1. amount # 0 => credit \in CoinbaseCredit
    BY MaxUintAssumption DEF CoinbaseCredit, Uint
  <2>2. IsFiniteSet({}) /\ IsFiniteSet({credit})
    BY FS_EmptySet, FS_Singleton
  <2> QED
    BY <2>1, <2>2
<1>5. all \in SUBSET CoinbaseCredit /\ IsFiniteSet(all)
  <2> HIDE DEF new
  <2>1. l.coinbases \in SUBSET CoinbaseCredit /\ IsFiniteSet(l.coinbases)
    BY DEF Sound, LedgerState
  <2>2. IsFiniteSet(all)
    BY <1>4, <2>1, FS_Union
  <2> QED
    BY <1>4, <2>1, <2>2
<1>6. nat[FeeCollector] = l.native[FeeCollector]
  BY <1>1, AddressAssumption DEF Holder
<1>7. \A a \in Address : nat[a] = conf[a]
  BY <1>1 DEF Sound, Mirrored, Holder
<1>8. \A c \in all : c \notin l.coinbases => c = credit
  OBVIOUS
<1> HIDE DEF conf, nat, all, credit
<1>9. m \in LedgerState
  BY <1>3, <1>5 DEF Sound, LedgerState
<1>10. /\ m.height = l.height /\ m.native = nat /\ m.defs = l.defs
       /\ m.confirmed = conf /\ m.coinbases = all
  BY DEF Sound, LedgerState
<1> HIDE DEF m
<1>11. Sound(m)
  BY <1>5, <1>7, <1>9, <1>10 DEF Sound, Mirrored, Capped
<1> QED
  BY <1>2, <1>6, <1>8, <1>10, <1>11 DEF credit

\* The head of applyBlock: clone, then mature what the previous height released.
LEMMA BeginBlockSound ==
    ASSUME NEW l, Sound(l), NEW height \in Nat
    PROVE  LET m == BeginBlock(l, height)
           IN  /\ Sound(m)
               /\ m.height = l.height
               /\ m.native = l.native
               /\ m.coinbases \subseteq l.coinbases
<1>1. Sound(Clone(l)) /\ SameClock(l, Clone(l)) /\ Clone(l).native = l.native
  BY CloneSound
<1>2. height - 1 \in Int
  OBVIOUS
<1> QED
  BY <1>1, <1>2, MatureCoinbasesSound DEF BeginBlock, SameClock

\* Pending rewards come from blocks up to height h, one from each block.
Dated(l, h) ==
    /\ \A c \in l.coinbases : c.height <= h
    /\ \A c, d \in l.coinbases : c.height = d.height => c = d

\* NewMature, the ledger of an empty chain, has an empty pool and no rewards.
LEMMA NewMatureFacts ==
    /\ NewMature.native[FeeCollector] = 0
    /\ Dated(NewMature, NewMature.height)
    /\ NewMature.height = 0
  BY DEF NewMature, Dated, Holder

\* Cloning keeps the pool and the rewards.
LEMMA CloneFacts ==
    ASSUME NEW l, Sound(l), l.native[FeeCollector] = 0, Dated(l, l.height)
    PROVE  /\ Sound(Clone(l))
           /\ Clone(l).native[FeeCollector] = 0
           /\ Dated(Clone(l), Clone(l).height)
           /\ Clone(l).height = l.height
<1>1. Sound(Clone(l)) /\ SameClock(l, Clone(l)) /\ Clone(l).native = l.native
  BY CloneSound
<1> QED
  BY <1>1 DEF SameClock, Dated

\* The head of applyBlock with its coinbase, for a ledger between blocks.
CanOpen(l, to) == CanApplyCoinbase(BeginBlock(l, l.height + 1), to, BlockSubsidy)

OpenedLedger(l, to) ==
    ApplyCoinbaseAtHeight(BeginBlock(l, l.height + 1), to, BlockSubsidy, l.height + 1)

\* applyBlock's coinbase is the only reward of its height.
LEMMA OpenedLedgerSound ==
    ASSUME NEW l, Sound(l), Dated(l, l.height), NEW to \in Address, CanOpen(l, to)
    PROVE  LET m == OpenedLedger(l, to)
           IN  Sound(m) /\ m.height = l.height /\ Dated(m, l.height + 1)
<1> DEFINE h == l.height + 1
           b == BeginBlock(l, h)
           m == ApplyCoinbaseAtHeight(b, to, BlockSubsidy, h)
<1>1. l.height \in Nat /\ h \in Nat /\ h = l.height + 1
  BY DEF Sound, LedgerState
<1>2. Sound(b) /\ b.height = l.height /\ b.coinbases \subseteq l.coinbases
  BY <1>1, BeginBlockSound
<1>3. CanApplyCoinbase(b, to, BlockSubsidy) /\ BlockSubsidy \in Uint
  BY ParamAssumption DEF CanOpen
<1>4. OpenedLedger(l, to) = m
  BY DEF OpenedLedger
<1> HIDE DEF b, h
<1>5. /\ Sound(m)
      /\ m.height = b.height
      /\ \A c \in m.coinbases : c \notin b.coinbases =>
            c = [address |-> to, amount |-> BlockSubsidy, height |-> h]
  BY <1>1, <1>2, <1>3, CoinbaseSound
<1> HIDE DEF m
<1>6. \A c \in b.coinbases : c.height \in Nat /\ c.height <= l.height
  BY <1>2 DEF Dated, Sound, LedgerState, CoinbaseCredit
<1>7. \A c, d \in b.coinbases : c.height = d.height => c = d
  BY <1>2 DEF Dated
<1>8. Dated(m, h)
  <2>1. \A c \in m.coinbases : c \in b.coinbases \/ c.height = h
    BY <1>5
  <2>2. \A c \in m.coinbases : c.height <= h
    BY <2>1, <1>6, <1>1
  <2>3. ASSUME NEW c \in m.coinbases, NEW d \in m.coinbases, c.height = d.height
        PROVE  c = d
    <3>1. CASE c \in b.coinbases /\ d \in b.coinbases
      BY <3>1, <2>3, <1>7
    <3>2. CASE c \notin b.coinbases /\ d \notin b.coinbases
      BY <3>2, <1>5
    <3>3. CASE c \in b.coinbases /\ d \notin b.coinbases
      BY <3>3, <2>1, <2>3, <1>6, <1>1
    <3>4. CASE c \notin b.coinbases /\ d \in b.coinbases
      BY <3>4, <2>1, <2>3, <1>6, <1>1
    <3> QED
      BY <3>1, <3>2, <3>3, <3>4
  <2> QED
    BY <2>2, <2>3 DEF Dated
<1> QED
  BY <1>2, <1>4, <1>5, <1>8 DEF h

\* The tail of applyBlock empties the fee pool and moves the height.
LEMMA FinishBlockSound ==
    ASSUME NEW l, Sound(l), NEW miner \in Address, NEW height \in Nat, CanSettleFees(l, miner)
    PROVE  LET m == FinishBlock(l, miner, height)
           IN  /\ Sound(m)
               /\ m.height = height
               /\ m.native[FeeCollector] = 0
               /\ m.coinbases \subseteq l.coinbases
<1> DEFINE s == SettleFees(l, miner)
           t == [s EXCEPT !.height = height]
<1>1. Sound(s) /\ SameClock(l, s) /\ s.native[FeeCollector] = 0
  BY SettleFeesSound
<1> HIDE DEF s
<1>2. t \in LedgerState
  BY <1>1 DEF Sound, LedgerState
<1>3. /\ t.height = height /\ t.native = s.native /\ t.defs = s.defs
      /\ t.confirmed = s.confirmed /\ t.coinbases = s.coinbases
  BY <1>1 DEF Sound, LedgerState
<1> HIDE DEF t
<1>4. Sound(t)
  BY <1>1, <1>2, <1>3 DEF Sound, Mirrored, Capped
<1>5. FinishBlock(l, miner, height) = MatureCoinbases(t, height)
  BY DEF FinishBlock, s, t
<1> QED
  BY <1>1, <1>3, <1>4, <1>5, MatureCoinbasesSound DEF SameClock

\* Reading back a snapshot of a mirrored ledger changes nothing.
LEMMA SnapshotRoundTrip ==
    ASSUME NEW l, Sound(l)
    PROVE  NewMatureFromState(SnapshotForLedger(l)) = Clone(l)
<1> DEFINE s == Clone(l)
           nat == [h \in Holder |-> IF h \in Address THEN s.confirmed[h] ELSE s.native[h]]
<1>1. Sound(s)
  BY CloneSound
<1> HIDE DEF s
<1>2. nat = s.native
  BY <1>1 DEF Sound, Mirrored, LedgerState, Holder
<1>3. NewMatureFromState(s) = [s EXCEPT !.native = nat]
  BY DEF NewMatureFromState
<1>4. [s EXCEPT !.native = s.native] = s
  BY <1>1 DEF Sound, LedgerState
<1> QED
  BY <1>2, <1>3, <1>4 DEF SnapshotForLedger, s
---------------------------------------------------------------------------
(***************************************************************************)
(* Totals: how a sum changes with one of its entries, and what every       *)
(* operation of Ledger does to what a ledger holds.                        *)
(***************************************************************************)

\* The units of one holder are as many as its amount.
LEMMA SumSplit ==
    ASSUME NEW S, IsFiniteSet(S), NEW f \in [S -> Uint], NEW x \in S
    PROVE  LET rest == {u \in UnitsOf(f) : u[1] # x}
           IN  Cardinality(rest) \in Nat /\ SumOf(f) = Cardinality(rest) + f[x]
<1> DEFINE rest == {u \in UnitsOf(f) : u[1] # x}
           own == {x} \X (1..f[x])
           all == S \X (1..MaxUint)
<1>1. f[x] \in Nat /\ f[x] <= MaxUint
  BY MaxUintAssumption DEF Uint
<1>2. IsFiniteSet(all)
  <2>1. IsFiniteSet(1..MaxUint)
    BY FS_Interval, MaxUintAssumption
  <2> QED
    BY <2>1, FS_Product
<1>3. rest \in SUBSET all
  BY DEF UnitsOf
<1>4. IsFiniteSet(rest) /\ Cardinality(rest) \in Nat
  BY <1>2, <1>3, FS_Subset, FS_CardinalityType
<1>5. IsFiniteSet(own) /\ Cardinality(own) = f[x]
  <2>1. IsFiniteSet(1..f[x]) /\ Cardinality(1..f[x]) = f[x]
    BY <1>1, FS_Interval
  <2>2. IsFiniteSet({x}) /\ Cardinality({x}) = 1
    BY FS_Singleton
  <2>3. IsFiniteSet(own) /\ Cardinality(own) = Cardinality({x}) * Cardinality(1..f[x])
    BY <2>1, <2>2, FS_Product
  <2> QED
    BY <1>1, <2>1, <2>2, <2>3
<1>6. UnitsOf(f) = rest \cup own
  BY <1>1, MaxUintAssumption DEF UnitsOf, Uint
<1>7. rest \cap own = {}
  OBVIOUS
<1> HIDE DEF rest, own
<1>8. Cardinality(rest \cup own) = Cardinality(rest) + Cardinality(own) - Cardinality(rest \cap own)
  BY <1>4, <1>5, FS_Union
<1>9. Cardinality(rest \cap own) = 0
  BY <1>7, FS_EmptySet
<1>10. SumOf(f) = Cardinality(rest \cup own)
  BY <1>6 DEF SumOf
<1> QED
  BY <1>1, <1>4, <1>5, <1>8, <1>9, <1>10 DEF rest

\* Changing one amount changes the total by as much.
LEMMA SumChange ==
    ASSUME NEW S, IsFiniteSet(S), NEW f \in [S -> Uint], NEW x \in S, NEW v \in Uint
    PROVE  SumOf([f EXCEPT ![x] = v]) = SumOf(f) - f[x] + v
<1> DEFINE g == [f EXCEPT ![x] = v]
           restf == {u \in UnitsOf(f) : u[1] # x}
           restg == {u \in UnitsOf(g) : u[1] # x}
<1>1. g \in [S -> Uint] /\ g[x] = v /\ f[x] \in Int /\ v \in Int
  BY MaxUintAssumption DEF Uint
<1>2. restf = restg
  BY DEF UnitsOf
<1>3. Cardinality(restf) \in Nat /\ SumOf(f) = Cardinality(restf) + f[x]
  BY SumSplit
<1>4. Cardinality(restg) \in Nat /\ SumOf(g) = Cardinality(restg) + g[x]
  <2> HIDE DEF g
  <2> QED
    BY <1>1, SumSplit
<1> HIDE DEF restf, restg
<1> QED
  BY <1>1, <1>2, <1>3, <1>4

\* Nobody holds anything: the total is zero.
LEMMA SumZero ==
    ASSUME NEW S, NEW f \in [S -> Uint], \A x \in S : f[x] = 0
    PROVE  SumOf(f) = 0
<1>1. UnitsOf(f) = {}
  BY MaxUintAssumption DEF UnitsOf
<1> QED
  BY <1>1, FS_EmptySet DEF SumOf

\* A total grows with its amounts.
LEMMA SumMonotone ==
    ASSUME NEW S, IsFiniteSet(S), NEW f \in [S -> Uint], NEW g \in [S -> Uint],
           \A x \in S : f[x] <= g[x]
    PROVE  SumOf(f) <= SumOf(g)
<1> DEFINE all == S \X (1..MaxUint)
<1>1. IsFiniteSet(all)
  <2>1. IsFiniteSet(1..MaxUint)
    BY FS_Interval, MaxUintAssumption
  <2> QED
    BY <2>1, FS_Product
<1>2. UnitsOf(g) \in SUBSET all
  BY DEF UnitsOf
<1>3. IsFiniteSet(UnitsOf(g))
  BY <1>1, <1>2, FS_Subset
<1>4. UnitsOf(f) \in SUBSET UnitsOf(g)
  BY MaxUintAssumption DEF UnitsOf, Uint
<1> QED
  BY <1>3, <1>4, FS_Subset DEF SumOf

\* One holder has no more than all of them together.
LEMMA SumBound ==
    ASSUME NEW S, IsFiniteSet(S), NEW f \in [S -> Uint], NEW x \in S
    PROVE  f[x] <= SumOf(f)
<1> DEFINE rest == {u \in UnitsOf(f) : u[1] # x}
<1>1. f[x] \in Nat
  BY MaxUintAssumption DEF Uint
<1>2. Cardinality(rest) \in Nat /\ SumOf(f) = Cardinality(rest) + f[x]
  BY SumSplit
<1> HIDE DEF rest
<1> QED
  BY <1>1, <1>2

\* Taking an amount from one holder and giving some of it to another.
LEMMA SumMoved ==
    ASSUME NEW S, IsFiniteSet(S), NEW f \in [S -> Uint], NEW x \in S, NEW y \in S, x # y,
           NEW cost \in Nat, NEW n \in Nat, NEW g \in [S -> Uint],
           g[x] = f[x] - cost, g[y] = f[y] + n,
           \A z \in S : z # x /\ z # y => g[z] = f[z]
    PROVE  SumOf(g) = SumOf(f) - cost + n
<1> DEFINE h == [f EXCEPT ![x] = g[x]]
           v == g[x]
           w == g[y]
<1>1. f[x] \in Nat /\ f[y] \in Nat /\ v \in Uint /\ w \in Uint
  BY MaxUintAssumption DEF Uint
<1>2. h \in [S -> Uint] /\ h[y] = f[y]
  BY <1>1
<1>3. SumOf(h) = SumOf(f) - f[x] + v
  BY <1>1, SumChange
<1>4. g = [h EXCEPT ![y] = w]
  OBVIOUS
<1>5. SumOf([h EXCEPT ![y] = w]) = SumOf(h) - h[y] + w
  <2> HIDE DEF h, v, w
  <2> QED
    BY <1>1, <1>2, SumChange
<1>6. SumOf(f) \in Nat
  BY SumType
<1>7. v = f[x] - cost /\ w = f[y] + n
  OBVIOUS
<1> HIDE DEF h, v, w
<1>8. SumOf(g) = SumOf(h) - h[y] + w
  BY <1>4, <1>5
<1> QED
  BY <1>1, <1>2, <1>3, <1>6, <1>7, <1>8
---------------------------------------------------------------------------
\* The transaction IDs of a network are finitely many.
LEMMA TxIDFinite == IsFiniteSet(TxID)
<1>1. IsFiniteSet(1..MaxNonce)
  BY FS_Interval, ParamAssumption
<1> QED
  BY <1>1, AddressAssumption, FS_Product DEF TxID

\* The holders of native coin are finitely many.
LEMMA HolderFinite == IsFiniteSet(Holder)
<1>1. IsFiniteSet({FeeCollector})
  BY FS_Singleton
<1> QED
  BY <1>1, AddressAssumption, FS_Union DEF Holder

\* What an address has locked is read from the stakes and the height alone.
LEMMA LockedFrame ==
    ASSUME NEW l, NEW m, m.stakes = l.stakes, m.height = l.height, NEW a
    PROVE  Locked(m, a) = Locked(l, a)
  BY DEF Locked, IsLocked

\* The stakes an address has locked, as an amount per stake.
LockedAmounts(l, a) ==
    [s \in TxID |-> IF l.stakes[s].owner = a /\ IsLocked(l, s) THEN l.stakes[s].amount ELSE 0]

\* Every locked amount is an amount of the node.
LEMMA LockedAmountsType ==
    ASSUME NEW l, Sound(l), NEW a
    PROVE  LockedAmounts(l, a) \in [TxID -> Uint]
<1>1. \A s \in TxID : l.stakes[s].amount \in Uint
  BY DEF Sound, LedgerState, Stake
<1>2. 0 \in Uint
  BY MaxUintAssumption DEF Uint
<1> QED
  BY <1>1, <1>2 DEF LockedAmounts

\* What an address has locked is a natural number.
LEMMA LockedType ==
    ASSUME NEW l, Sound(l), NEW a
    PROVE  Locked(l, a) \in Nat
<1>1. Locked(l, a) = SumOf(LockedAmounts(l, a))
  BY DEF Locked, LockedAmounts
<1> QED
  BY <1>1, LockedAmountsType, TxIDFinite, SumType

\* Fewer stakes locked, less coin locked.
LEMMA LockedLess ==
    ASSUME NEW l, Sound(l), NEW m, Sound(m), NEW a,
           \A s \in TxID : m.stakes[s].owner = a /\ IsLocked(m, s) =>
                /\ l.stakes[s].owner = a
                /\ IsLocked(l, s)
                /\ m.stakes[s].amount = l.stakes[s].amount
    PROVE  Locked(m, a) <= Locked(l, a)
<1> DEFINE f == LockedAmounts(m, a)
           g == LockedAmounts(l, a)
<1>1. Locked(l, a) = SumOf(g) /\ Locked(m, a) = SumOf(f)
  BY DEF Locked, LockedAmounts
<1>2. f \in [TxID -> Uint] /\ g \in [TxID -> Uint]
  BY LockedAmountsType
<1>3. ASSUME NEW s \in TxID
      PROVE  f[s] <= g[s]
  <2>1. f[s] \in Nat /\ g[s] \in Nat
    BY <1>2, MaxUintAssumption DEF Uint
  <2>2. CASE m.stakes[s].owner = a /\ IsLocked(m, s)
    <3>1. f[s] = g[s]
      BY <2>2 DEF LockedAmounts
    <3> HIDE DEF f, g
    <3> QED
      BY <2>1, <3>1
  <2>3. CASE ~(m.stakes[s].owner = a /\ IsLocked(m, s))
    <3>1. f[s] = 0
      BY <2>3 DEF LockedAmounts
    <3> HIDE DEF f, g
    <3> QED
      BY <2>1, <3>1
  <2> QED
    BY <2>2, <2>3
<1> HIDE DEF f, g
<1> QED
  BY <1>1, <1>2, <1>3, TxIDFinite, SumMonotone
---------------------------------------------------------------------------
\* The pending rewards of two disjoint sets add up.
LEMMA DueCreditSplit ==
    ASSUME NEW S \in SUBSET CoinbaseCredit, IsFiniteSet(S), NEW T \in SUBSET S, NEW a
    PROVE  /\ DueCredit(S, a) = DueCredit(T, a) + DueCredit(S \ T, a)
           /\ DueCredit(T, a) \in Nat
           /\ DueCredit(S \ T, a) \in Nat
<1> DEFINE F(R) == [c \in R |-> IF c.address = a THEN c.amount ELSE 0]
           U(R) == UnitsOf(F(R))
<1>1. IsFiniteSet(T) /\ IsFiniteSet(S \ T)
  BY FS_Subset
<1>2. F(S) \in [S -> Uint] /\ F(T) \in [T -> Uint] /\ F(S \ T) \in [S \ T -> Uint]
  BY MaxUintAssumption DEF CoinbaseCredit, Uint
<1>3. U(S) = U(T) \cup U(S \ T) /\ U(T) \cap U(S \ T) = {}
  BY DEF UnitsOf
<1>4. IsFiniteSet(U(T)) /\ IsFiniteSet(U(S \ T))
  <2>1. IsFiniteSet(1..MaxUint)
    BY FS_Interval, MaxUintAssumption
  <2>2. IsFiniteSet(T \X (1..MaxUint)) /\ IsFiniteSet((S \ T) \X (1..MaxUint))
    BY <1>1, <2>1, FS_Product
  <2>3. U(T) \in SUBSET (T \X (1..MaxUint)) /\ U(S \ T) \in SUBSET ((S \ T) \X (1..MaxUint))
    BY DEF UnitsOf
  <2> QED
    BY <2>2, <2>3, FS_Subset
<1>5. /\ DueCredit(S, a) = Cardinality(U(S))
      /\ DueCredit(T, a) = Cardinality(U(T))
      /\ DueCredit(S \ T, a) = Cardinality(U(S \ T))
  BY DEF DueCredit, SumOf
<1> HIDE DEF U
<1>6. /\ Cardinality(U(T)) \in Nat /\ Cardinality(U(S \ T)) \in Nat
  BY <1>4, FS_CardinalityType
<1>7. Cardinality(U(T) \cup U(S \ T))
        = Cardinality(U(T)) + Cardinality(U(S \ T)) - Cardinality(U(T) \cap U(S \ T))
  BY <1>4, FS_Union
<1>8. Cardinality(U(T) \cap U(S \ T)) = 0
  BY <1>3, FS_EmptySet
<1> QED
  BY <1>3, <1>5, <1>6, <1>7, <1>8

\* One pending reward is due to its address alone.
LEMMA DueCreditOne ==
    ASSUME NEW c \in CoinbaseCredit, NEW a
    PROVE  DueCredit({c}, a) = IF c.address = a THEN c.amount ELSE 0
<1> DEFINE f == [d \in {c} |-> IF d.address = a THEN d.amount ELSE 0]
           rest == {u \in UnitsOf(f) : u[1] # c}
<1>1. f \in [{c} -> Uint]
  BY MaxUintAssumption DEF CoinbaseCredit, Uint
<1>2. rest = {}
  BY DEF UnitsOf
<1>3. DueCredit({c}, a) = SumOf(f)
  BY DEF DueCredit
<1>4. f[c] = IF c.address = a THEN c.amount ELSE 0
  OBVIOUS
<1>5. f[c] \in Nat
  BY <1>1, MaxUintAssumption DEF Uint
<1>6. Cardinality(rest) \in Nat /\ SumOf(f) = Cardinality(rest) + f[c]
  <2> HIDE DEF f
  <2>1. IsFiniteSet({c}) /\ c \in {c}
    BY FS_Singleton
  <2> QED
    BY <1>1, <2>1, SumSplit
<1>7. Cardinality(rest) = 0
  BY <1>2, FS_EmptySet
<1> HIDE DEF f, rest
<1> QED
  BY <1>3, <1>4, <1>5, <1>6, <1>7

\* No rewards, nothing due.
LEMMA DueCreditNone ==
    ASSUME NEW a
    PROVE  DueCredit({}, a) = 0
<1>1. UnitsOf([c \in {} |-> IF c.address = a THEN c.amount ELSE 0]) = {}
  BY DEF UnitsOf
<1> QED
  BY <1>1, FS_EmptySet DEF DueCredit, SumOf
---------------------------------------------------------------------------
\* Everything a ledger owes is covered: pending rewards, locked stake, tokens.
Backed(l) == CoinbasesBacked(l) /\ StakesBacked(l) /\ TokensBacked(l)

\* The native coin that somebody holds, the fee pool included.
Coin(l) == SumOf(l.native)

\* The operations on balances leave everything else alone.
SameRecords(l, m) ==
    /\ m.stakes = l.stakes
    /\ m.defs = l.defs
    /\ m.token = l.token
    /\ m.height = l.height

\* The total of native coin is a natural number.
LEMMA CoinType ==
    ASSUME NEW l, Sound(l)
    PROVE  Coin(l) \in Nat
<1>1. l.native \in [Holder -> Uint]
  BY DEF Sound, LedgerState
<1> QED
  BY <1>1, HolderFinite, SumType DEF Coin

\* An operation on balances cannot disturb the token totals, nor the cover of
\* stakes unless it lowers a mature balance.
LEMMA BackedFrame ==
    ASSUME NEW l, NEW m, Backed(l), SameRecords(l, m),
           \A a \in Address : Locked(l, a) <= m.mature[a],
           CoinbasesBacked(m)
    PROVE  Backed(m)
<1>1. \A a \in Address : Locked(m, a) = Locked(l, a)
  BY LockedFrame DEF SameRecords
<1>2. StakesBacked(m)
  BY <1>1 DEF StakesBacked
<1>3. TokensBacked(m)
  BY DEF Backed, TokensBacked, SameRecords
<1> QED
  BY <1>2, <1>3 DEF Backed

\* spendNative takes n coins out and respects the lock.
LEMMA SpendNativeTotals ==
    ASSUME NEW l, Sound(l), Backed(l), NEW a \in Address, NEW n \in Nat,
           ValidateNativeSpend(l, a, n)
    PROVE  LET m == SpendNative(l, a, n)
           IN  /\ Backed(m)
               /\ Coin(m) = Coin(l) - n
               /\ SameRecords(l, m)
               /\ m.nonce = l.nonce
<1> DEFINE m == SpendNative(l, a, n)
<1>1. /\ l.confirmed \in [Address -> Uint] /\ l.mature \in [Address -> Uint]
      /\ l.native \in [Holder -> Uint] /\ a \in Holder
  BY DEF Sound, LedgerState, Holder
<1>2. n <= l.confirmed[a] /\ n <= l.mature[a] /\ n <= l.native[a]
  BY <1>1 DEF ValidateNativeSpend, Uint
<1>3. /\ m.confirmed = [l.confirmed EXCEPT ![a] = @ - n]
      /\ m.mature = [l.mature EXCEPT ![a] = @ - n]
      /\ m.native = [l.native EXCEPT ![a] = @ - n]
      /\ m.coinbases = l.coinbases
      /\ SameRecords(l, m)
      /\ m.nonce = l.nonce
  BY DEF Sound, LedgerState, SpendNative, SameRecords
<1> HIDE DEF m
<1>4. Coin(m) = Coin(l) - n
  <2>1. l.native[a] \in Nat /\ l.native[a] - n \in Uint
    BY <1>1, <1>2, MaxUintAssumption DEF Uint
  <2>2. SumOf([l.native EXCEPT ![a] = l.native[a] - n])
            = SumOf(l.native) - l.native[a] + (l.native[a] - n)
    BY <1>1, <2>1, HolderFinite, SumChange
  <2>3. SumOf(l.native) \in Nat
    BY <1>1, HolderFinite, SumType
  <2>4. SumOf(m.native) = SumOf([l.native EXCEPT ![a] = l.native[a] - n])
    BY <1>3
  <2> QED
    BY <2>1, <2>2, <2>3, <2>4 DEF Coin
<1>5. ASSUME NEW b \in Address
      PROVE  /\ m.confirmed[b] = m.mature[b] + DueCredit(m.coinbases, b)
             /\ Locked(l, b) <= m.mature[b]
  <2>1. /\ l.confirmed[b] = l.mature[b] + DueCredit(l.coinbases, b)
        /\ Locked(l, b) <= l.mature[b]
    BY DEF Backed, CoinbasesBacked, StakesBacked
  <2>2. /\ l.confirmed[b] \in Nat /\ l.mature[b] \in Nat /\ DueCredit(l.coinbases, b) \in Nat
        /\ Locked(l, b) \in Nat
    BY <1>1, LockedType, DueCreditType, MaxUintAssumption DEF Uint, Sound, LedgerState
  <2>3. CASE b = a
    <3>1. m.confirmed[b] = l.confirmed[b] - n /\ m.mature[b] = l.mature[b] - n
      BY <1>1, <1>3, <2>3
    <3>2. n = 0 \/ Locked(l, b) + n <= l.mature[b]
      BY <2>3 DEF ValidateNativeSpend
    <3> QED
      BY <1>3, <2>1, <2>2, <3>1, <3>2
  <2>4. CASE b # a
    <3>1. m.confirmed[b] = l.confirmed[b] /\ m.mature[b] = l.mature[b]
      BY <1>1, <1>3, <2>4
    <3> QED
      BY <1>3, <2>1, <2>2, <3>1
  <2> QED
    BY <2>3, <2>4
<1>6. Backed(m)
  BY <1>3, <1>5, BackedFrame DEF CoinbasesBacked
<1> QED
  BY <1>3, <1>4, <1>6 DEF m

\* receiveNative puts n coins in.
LEMMA ReceiveNativeTotals ==
    ASSUME NEW l, Sound(l), Backed(l), NEW a \in Address, NEW n \in Nat,
           CanReceiveNative(l, a, n)
    PROVE  LET m == ReceiveNative(l, a, n)
           IN  /\ Backed(m)
               /\ Coin(m) = Coin(l) + n
               /\ SameRecords(l, m)
               /\ m.nonce = l.nonce
<1> DEFINE m == ReceiveNative(l, a, n)
<1>1. /\ l.confirmed \in [Address -> Uint] /\ l.mature \in [Address -> Uint]
      /\ l.native \in [Holder -> Uint] /\ a \in Holder
  BY DEF Sound, LedgerState, Holder
<1>2. l.native[a] + n <= MaxUint
  BY DEF CanReceiveNative
<1>3. /\ m.confirmed = [l.confirmed EXCEPT ![a] = @ + n]
      /\ m.mature = [l.mature EXCEPT ![a] = @ + n]
      /\ m.native = [l.native EXCEPT ![a] = @ + n]
      /\ m.coinbases = l.coinbases
      /\ SameRecords(l, m)
      /\ m.nonce = l.nonce
  BY DEF Sound, LedgerState, ReceiveNative, SameRecords
<1> HIDE DEF m
<1>4. Coin(m) = Coin(l) + n
  <2>1. l.native[a] \in Nat /\ l.native[a] + n \in Uint
    BY <1>1, <1>2, MaxUintAssumption DEF Uint
  <2>2. SumOf([l.native EXCEPT ![a] = l.native[a] + n])
            = SumOf(l.native) - l.native[a] + (l.native[a] + n)
    BY <1>1, <2>1, HolderFinite, SumChange
  <2>3. SumOf(l.native) \in Nat
    BY <1>1, HolderFinite, SumType
  <2>4. SumOf(m.native) = SumOf([l.native EXCEPT ![a] = l.native[a] + n])
    BY <1>3
  <2> QED
    BY <2>1, <2>2, <2>3, <2>4 DEF Coin
<1>5. ASSUME NEW b \in Address
      PROVE  /\ m.confirmed[b] = m.mature[b] + DueCredit(m.coinbases, b)
             /\ Locked(l, b) <= m.mature[b]
  <2>1. /\ l.confirmed[b] = l.mature[b] + DueCredit(l.coinbases, b)
        /\ Locked(l, b) <= l.mature[b]
    BY DEF Backed, CoinbasesBacked, StakesBacked
  <2>2. /\ l.confirmed[b] \in Nat /\ l.mature[b] \in Nat /\ DueCredit(l.coinbases, b) \in Nat
        /\ Locked(l, b) \in Nat
    BY <1>1, LockedType, DueCreditType, MaxUintAssumption DEF Uint, Sound, LedgerState
  <2>3. CASE b = a
    <3>1. m.confirmed[b] = l.confirmed[b] + n /\ m.mature[b] = l.mature[b] + n
      BY <1>1, <1>3, <2>3
    <3> QED
      BY <1>3, <2>1, <2>2, <3>1
  <2>4. CASE b # a
    <3>1. m.confirmed[b] = l.confirmed[b] /\ m.mature[b] = l.mature[b]
      BY <1>1, <1>3, <2>4
    <3> QED
      BY <1>3, <2>1, <2>2, <3>1
  <2> QED
    BY <2>3, <2>4
<1>6. Backed(m)
  BY <1>3, <1>5, BackedFrame DEF CoinbasesBacked
<1> QED
  BY <1>3, <1>4, <1>6 DEF m

\* The fee collector has no account: its balance enters only the coin total.
LEMMA CollectorTotals ==
    ASSUME NEW l, Sound(l), Backed(l), NEW n \in Uint
    PROVE  LET m == [l EXCEPT !.native[FeeCollector] = n]
           IN  /\ Backed(m)
               /\ Coin(m) = Coin(l) - l.native[FeeCollector] + n
               /\ SameRecords(l, m)
               /\ m.nonce = l.nonce
<1> DEFINE m == [l EXCEPT !.native[FeeCollector] = n]
<1>1. l.native \in [Holder -> Uint] /\ FeeCollector \in Holder
  BY DEF Sound, LedgerState, Holder
<1>2. /\ m.confirmed = l.confirmed /\ m.mature = l.mature /\ m.coinbases = l.coinbases
      /\ m.native = [l.native EXCEPT ![FeeCollector] = n]
      /\ SameRecords(l, m)
      /\ m.nonce = l.nonce
  BY DEF Sound, LedgerState, SameRecords
<1> HIDE DEF m
<1>3. Coin(m) = Coin(l) - l.native[FeeCollector] + n
  BY <1>1, <1>2, HolderFinite, SumChange DEF Coin
<1>4. Backed(m)
  BY <1>2, BackedFrame DEF Backed, CoinbasesBacked, StakesBacked
<1> QED
  BY <1>2, <1>3, <1>4 DEF m

\* chargeNativeFee moves the fee to the pool: no coin is lost.
LEMMA ChargeNativeFeeTotals ==
    ASSUME NEW l, Sound(l), Backed(l), NEW payer \in Address, NEW fee \in Nat,
           CanChargeNativeFee(l, payer, fee)
    PROVE  LET m == ChargeNativeFee(l, payer, fee)
           IN  /\ Backed(m)
               /\ Coin(m) = Coin(l)
               /\ SameRecords(l, m)
               /\ m.nonce = l.nonce
<1> DEFINE s == SpendNative(l, payer, fee)
           m == [s EXCEPT !.native[FeeCollector] = s.native[FeeCollector] + fee]
<1>1. Sound(s)
  BY SpendNativeSound DEF CanChargeNativeFee
<1>2. Backed(s) /\ Coin(s) = Coin(l) - fee /\ SameRecords(l, s) /\ s.nonce = l.nonce
  BY SpendNativeTotals DEF CanChargeNativeFee
<1>3. s.native[FeeCollector] = l.native[FeeCollector]
  BY AddressAssumption DEF Sound, SpendNative, LedgerState, Holder
<1>4. s.native[FeeCollector] \in Nat /\ s.native[FeeCollector] + fee \in Uint
  BY <1>3, MaxUintAssumption DEF Sound, LedgerState, Holder, Uint, CanChargeNativeFee
<1>5. ChargeNativeFee(l, payer, fee) = m
  BY DEF ChargeNativeFee
<1> HIDE DEF s
<1>6. /\ Backed(m)
      /\ Coin(m) = Coin(s) - s.native[FeeCollector] + (s.native[FeeCollector] + fee)
      /\ SameRecords(s, m) /\ m.nonce = s.nonce
  BY <1>1, <1>2, <1>4, CollectorTotals
<1>7. Coin(l) \in Nat
  BY CoinType
<1> HIDE DEF m
<1>8. Coin(m) = Coin(l)
  BY <1>2, <1>4, <1>6, <1>7
<1> QED
  BY <1>2, <1>5, <1>6, <1>8 DEF SameRecords

\* settleFees moves the pool to the miner: no coin is lost.
LEMMA SettleFeesTotals ==
    ASSUME NEW l, Sound(l), Backed(l), NEW miner \in Address, CanSettleFees(l, miner)
    PROVE  LET m == SettleFees(l, miner)
           IN  /\ Backed(m)
               /\ Coin(m) = Coin(l)
               /\ SameRecords(l, m)
               /\ m.nonce = l.nonce
<1> DEFINE pool == l.native[FeeCollector]
           e == [l EXCEPT !.native[FeeCollector] = 0]
           m == ReceiveNative(e, miner, pool)
<1>1. pool \in Nat /\ 0 \in Uint
  BY MaxUintAssumption DEF Sound, LedgerState, Holder, Uint
<1>2. Sound(e)
  BY <1>1, CollectorSound
<1>3. Backed(e) /\ Coin(e) = Coin(l) - pool + 0 /\ SameRecords(l, e) /\ e.nonce = l.nonce
  BY <1>1, CollectorTotals
<1>4. CanReceiveNative(e, miner, pool)
  BY AddressAssumption DEF Sound, LedgerState, Holder, CanSettleFees, CanReceiveNative
<1>5. SettleFees(l, miner) = m
  BY DEF SettleFees
<1>6. Coin(l) \in Nat
  BY CoinType
<1> HIDE DEF e, pool
<1>7. Backed(m) /\ Coin(m) = Coin(e) + pool /\ SameRecords(e, m) /\ m.nonce = e.nonce
  BY <1>1, <1>2, <1>3, <1>4, ReceiveNativeTotals
<1> HIDE DEF m
<1>8. Coin(m) = Coin(l)
  BY <1>1, <1>3, <1>6, <1>7
<1> QED
  BY <1>3, <1>5, <1>7, <1>8 DEF SameRecords
---------------------------------------------------------------------------
\* The operations on issued assets leave coin, stakes and nonces alone.
SameCoin(l, m) ==
    /\ m.confirmed = l.confirmed
    /\ m.mature = l.mature
    /\ m.native = l.native
    /\ m.coinbases = l.coinbases
    /\ m.stakes = l.stakes
    /\ m.nonce = l.nonce
    /\ m.height = l.height

\* So what is left to show of them is that the tokens stay backed.
LEMMA TokenFrame ==
    ASSUME NEW l, NEW m, Backed(l), SameCoin(l, m), TokensBacked(m)
    PROVE  Backed(m) /\ Coin(m) = Coin(l)
<1>1. \A a \in Address : Locked(m, a) = Locked(l, a)
  BY LockedFrame DEF SameCoin
<1>2. StakesBacked(m)
  BY <1>1 DEF StakesBacked, Backed, SameCoin
<1>3. CoinbasesBacked(m)
  BY DEF Backed, CoinbasesBacked, SameCoin
<1> QED
  BY <1>2, <1>3 DEF Backed, Coin, SameCoin

\* asset.Transfer moves tokens between two accounts.
LEMMA TransferTotals ==
    ASSUME NEW l, Sound(l), Backed(l), NEW tx \in Transaction, CanTransfer(l, tx)
    PROVE  LET m == Transfer(l, tx)
           IN  Backed(m) /\ Coin(m) = Coin(l) /\ SameCoin(l, m)
<1> DEFINE m == Transfer(l, tx)
           old == l.token[tx.ref]
           bal == [old EXCEPT ![tx.from] = @ - tx.amount, ![tx.to] = @ + tx.amount]
<1>1. /\ old \in [Address -> Uint] /\ tx.ref \in TxID
      /\ tx.from \in Address /\ tx.to \in Address /\ tx.from # tx.to
      /\ tx.amount \in Nat /\ tx.amount <= old[tx.from] /\ old[tx.to] + tx.amount <= MaxUint
  BY MaxUintAssumption DEF Sound, LedgerState, Transaction, CanTransfer, Uint
<1>2. SameCoin(l, m) /\ m.defs = l.defs /\ m.token = [l.token EXCEPT ![tx.ref] = bal]
  BY DEF Sound, LedgerState, Transfer, SameCoin
<1>3. SumOf(bal) = SumOf(old)
  <2> DEFINE n == tx.amount
             x == tx.from
             y == tx.to
  <2> HIDE DEF old, n, x, y
  <2>1. /\ old \in [Address -> Uint] /\ x \in Address /\ y \in Address /\ x # y
        /\ n \in Nat /\ n <= old[x] /\ old[y] + n <= MaxUint
    BY <1>1 DEF n, x, y
  <2>2. IsFiniteSet(Address)
    BY AddressAssumption
  <2>3. /\ bal \in [Address -> Uint]
        /\ bal[x] = old[x] - n /\ bal[y] = old[y] + n
        /\ \A z \in Address : z # x /\ z # y => bal[z] = old[z]
    BY <2>1, MaxUintAssumption DEF n, x, y, Uint
  <2> HIDE DEF bal
  <2>4. SumOf(bal) = SumOf(old) - n + n
    BY <2>1, <2>2, <2>3, SumMoved
  <2>5. SumOf(old) \in Nat
    BY <2>1, <2>2, SumType
  <2> QED
    BY <2>1, <2>4, <2>5
<1> HIDE DEF m, bal
<1>4. \A t \in TxID : SumOf(m.token[t]) = SumOf(l.token[t])
  BY <1>1, <1>2, <1>3 DEF Sound, LedgerState
<1>5. TokensBacked(m)
  BY <1>2, <1>4 DEF TokensBacked, Backed
<1> QED
  BY <1>2, <1>5, TokenFrame DEF m

\* A new asset has no supply, and nobody holds any of it yet.
LEMMA CreateTotals ==
    ASSUME NEW l, Sound(l), Backed(l), NEW tx \in Transaction, CanCreate(l, tx)
    PROVE  LET m == CreateFromTransactionID(l, tx)
           IN  Backed(m) /\ Coin(m) = Coin(l) /\ SameCoin(l, m)
<1> DEFINE m == CreateFromTransactionID(l, tx)
           id == <<tx.from, tx.nonce>>
           def == [status |-> "active", issuer |-> tx.from, maxSupply |-> tx.amount,
                   totalSupply |-> 0, mintable |-> tx.mintable, burnable |-> tx.burnable]
<1>1. id \in TxID /\ tx.amount \in Nat
  BY MaxUintAssumption DEF Transaction, TxID, Uint
<1>2. SameCoin(l, m) /\ m.token = l.token /\ m.defs = [l.defs EXCEPT ![id] = def]
  BY DEF Sound, LedgerState, CreateFromTransactionID, SameCoin
<1>3. SumOf(l.token[id]) = 0
  BY <1>1 DEF CanCreate, Backed, TokensBacked
<1>4. \A t \in TxID : t # id => m.defs[t] = l.defs[t]
  BY <1>2 DEF Sound, LedgerState
<1>5. m.defs[id] = def
  BY <1>1, <1>2 DEF Sound, LedgerState
<1>6. def.totalSupply = 0 /\ def.maxSupply = tx.amount /\ def.status = "active"
  OBVIOUS
<1> HIDE DEF m, id, def
<1>7. ASSUME NEW t \in TxID
      PROVE  /\ SumOf(m.token[t]) = m.defs[t].totalSupply
             /\ m.defs[t].maxSupply > 0 => m.defs[t].totalSupply <= m.defs[t].maxSupply
             /\ m.defs[t].status = "none" => m.defs[t].totalSupply = 0
  <2>1. CASE t = id
    BY <1>1, <1>2, <1>3, <1>5, <1>6, <2>1
  <2>2. CASE t # id
    BY <1>2, <1>4, <2>2 DEF Backed, TokensBacked
  <2> QED
    BY <2>1, <2>2
<1>8. TokensBacked(m)
  BY <1>7 DEF TokensBacked
<1> QED
  BY <1>2, <1>8, TokenFrame DEF m

\* Writing one balance and one supply that agree keeps the tokens backed.
LEMMA SupplyFrame ==
    ASSUME NEW l, Sound(l), Backed(l), NEW m, SameCoin(l, m), NEW t \in TxID,
           NEW def \in Definition, NEW bal \in [Address -> Uint],
           m.token = [l.token EXCEPT ![t] = bal],
           m.defs = [l.defs EXCEPT ![t] = def],
           SumOf(bal) = def.totalSupply,
           def.maxSupply > 0 => def.totalSupply <= def.maxSupply,
           def.status = "active"
    PROVE  Backed(m) /\ Coin(m) = Coin(l)
<1>1. ASSUME NEW u \in TxID
      PROVE  /\ SumOf(m.token[u]) = m.defs[u].totalSupply
             /\ m.defs[u].maxSupply > 0 => m.defs[u].totalSupply <= m.defs[u].maxSupply
             /\ m.defs[u].status = "none" => m.defs[u].totalSupply = 0
  <2>1. CASE u = t
    <3>1. m.token[u] = bal /\ m.defs[u] = def
      BY <2>1 DEF Sound, LedgerState
    <3> QED
      BY <3>1
  <2>2. CASE u # t
    <3>1. m.token[u] = l.token[u] /\ m.defs[u] = l.defs[u]
      BY <2>2 DEF Sound, LedgerState
    <3> QED
      BY <3>1 DEF Backed, TokensBacked
  <2> QED
    BY <2>1, <2>2
<1>2. TokensBacked(m)
  BY <1>1 DEF TokensBacked
<1> QED
  BY <1>2, TokenFrame

\* asset.Mint raises a balance and the supply together.
LEMMA MintTotals ==
    ASSUME NEW l, Sound(l), Backed(l), NEW tx \in Transaction, CanMint(l, tx)
    PROVE  LET m == Mint(l, tx)
           IN  Backed(m) /\ Coin(m) = Coin(l) /\ SameCoin(l, m)
<1> DEFINE m == Mint(l, tx)
           old == l.token[tx.ref]
           bal == [old EXCEPT ![tx.to] = old[tx.to] + tx.amount]
           was == l.defs[tx.ref]
           def == [was EXCEPT !.totalSupply = was.totalSupply + tx.amount]
<1>1. /\ old \in [Address -> Uint] /\ was \in Definition
      /\ tx.to \in Address /\ tx.ref \in TxID /\ tx.amount \in Uint
      /\ SumOf(old) = was.totalSupply
  BY DEF Sound, LedgerState, Transaction, Backed, TokensBacked
<1>2. /\ was.status = "active"
      /\ was.totalSupply + tx.amount <= MaxUint
      /\ was.maxSupply > 0 => was.totalSupply + tx.amount <= was.maxSupply
      /\ old[tx.to] + tx.amount <= MaxUint
  BY DEF CanMint
<1>3. SameCoin(l, m) /\ m.token = [l.token EXCEPT ![tx.ref] = bal]
                     /\ m.defs = [l.defs EXCEPT ![tx.ref] = def]
  BY <1>1 DEF Sound, LedgerState, Mint, SameCoin
<1> HIDE DEF old, was
<1>4. old[tx.to] \in Nat /\ old[tx.to] + tx.amount \in Uint
  BY <1>1, <1>2, MaxUintAssumption DEF Uint
<1>5. /\ bal \in [Address -> Uint]
      /\ SumOf(bal) = SumOf(old) - old[tx.to] + (old[tx.to] + tx.amount)
  <2> DEFINE v == old[tx.to] + tx.amount
             x == tx.to
  <2>1. old \in [Address -> Uint] /\ x \in Address /\ v \in Uint /\ IsFiniteSet(Address)
    BY <1>1, <1>4, AddressAssumption
  <2> HIDE DEF v, x
  <2>2. /\ [old EXCEPT ![x] = v] \in [Address -> Uint]
        /\ SumOf([old EXCEPT ![x] = v]) = SumOf(old) - old[x] + v
    BY <2>1, SumChange
  <2> QED
    BY <2>2 DEF v, x
<1>6. /\ def \in Definition /\ def.totalSupply = was.totalSupply + tx.amount
      /\ def.maxSupply = was.maxSupply /\ def.status = "active"
  BY <1>1, <1>2, MaxUintAssumption DEF Definition, Uint
<1>7. was.totalSupply \in Nat /\ tx.amount \in Nat
  BY <1>1, MaxUintAssumption DEF Definition, Uint
<1> HIDE DEF m, bal, def
<1>8. SumOf(bal) = def.totalSupply
  BY <1>1, <1>4, <1>5, <1>6, <1>7
<1>9. def.maxSupply > 0 => def.totalSupply <= def.maxSupply
  BY <1>2, <1>6
<1>10. Backed(m) /\ Coin(m) = Coin(l)
  BY <1>1, <1>3, <1>5, <1>6, <1>8, <1>9, SupplyFrame
<1> QED
  BY <1>3, <1>10 DEF m

\* asset.Burn lowers a balance and the supply together.
LEMMA BurnTotals ==
    ASSUME NEW l, Sound(l), Backed(l), NEW tx \in Transaction, CanBurn(l, tx)
    PROVE  LET m == Burn(l, tx)
           IN  Backed(m) /\ Coin(m) = Coin(l) /\ SameCoin(l, m)
<1> DEFINE m == Burn(l, tx)
           old == l.token[tx.ref]
           bal == [old EXCEPT ![tx.from] = old[tx.from] - tx.amount]
           was == l.defs[tx.ref]
           def == [was EXCEPT !.totalSupply = was.totalSupply - tx.amount]
<1>1. /\ old \in [Address -> Uint] /\ was \in Definition
      /\ tx.from \in Address /\ tx.ref \in TxID /\ tx.amount \in Uint
      /\ SumOf(old) = was.totalSupply
      /\ was.maxSupply > 0 => was.totalSupply <= was.maxSupply
  BY DEF Sound, LedgerState, Transaction, Backed, TokensBacked
<1>2. was.status = "active" /\ tx.amount <= was.totalSupply /\ tx.amount <= old[tx.from]
  BY DEF CanBurn
<1>3. SameCoin(l, m) /\ m.token = [l.token EXCEPT ![tx.ref] = bal]
                     /\ m.defs = [l.defs EXCEPT ![tx.ref] = def]
  BY <1>1 DEF Sound, LedgerState, Burn, SameCoin
<1> HIDE DEF old, was
<1>4. old[tx.from] \in Nat /\ old[tx.from] - tx.amount \in Uint
  BY <1>1, <1>2, MaxUintAssumption DEF Uint
<1>5. /\ bal \in [Address -> Uint]
      /\ SumOf(bal) = SumOf(old) - old[tx.from] + (old[tx.from] - tx.amount)
  <2> DEFINE v == old[tx.from] - tx.amount
             x == tx.from
  <2>1. old \in [Address -> Uint] /\ x \in Address /\ v \in Uint /\ IsFiniteSet(Address)
    BY <1>1, <1>4, AddressAssumption
  <2> HIDE DEF v, x
  <2>2. /\ [old EXCEPT ![x] = v] \in [Address -> Uint]
        /\ SumOf([old EXCEPT ![x] = v]) = SumOf(old) - old[x] + v
    BY <2>1, SumChange
  <2> QED
    BY <2>2 DEF v, x
<1>6. /\ def \in Definition /\ def.totalSupply = was.totalSupply - tx.amount
      /\ def.maxSupply = was.maxSupply /\ def.status = "active"
  BY <1>1, <1>2, MaxUintAssumption DEF Definition, Uint
<1>7. was.totalSupply \in Nat /\ was.maxSupply \in Nat /\ tx.amount \in Nat
  BY <1>1, MaxUintAssumption DEF Definition, Uint
<1> HIDE DEF m, bal, def
<1>8. SumOf(bal) = def.totalSupply
  BY <1>1, <1>4, <1>5, <1>6, <1>7
<1>9. def.maxSupply > 0 => def.totalSupply <= def.maxSupply
  BY <1>1, <1>2, <1>6, <1>7
<1>10. Backed(m) /\ Coin(m) = Coin(l)
  BY <1>1, <1>3, <1>5, <1>6, <1>8, <1>9, SupplyFrame
<1> QED
  BY <1>3, <1>10 DEF m
---------------------------------------------------------------------------
\* A stake is locked while it is active, or unlocking before its release.
LEMMA LockedStatus ==
    ASSUME NEW l, Sound(l), NEW s \in TxID
    PROVE  IsLocked(l, s) <=> \/ l.stakes[s].status = "active"
                              \/ /\ l.stakes[s].status = "unlocking"
                                 /\ l.height < l.stakes[s].release
<1>1. l.stakes[s] \in Stake /\ l.height \in Nat
  BY DEF Sound, LedgerState
<1>2. CASE l.stakes[s].status = "unlocking" /\ l.height >= l.stakes[s].release
  <2>1. RefreshReleased(l.stakes, l.height)[s] = [l.stakes[s] EXCEPT !.status = "released"]
    BY <1>2 DEF RefreshReleased
  <2>2. RefreshReleased(l.stakes, l.height)[s].status = "released"
    BY <1>1, <2>1 DEF Stake
  <2> QED
    BY <1>1, <1>2, <2>2 DEF IsLocked, Stake
<1>3. CASE ~(l.stakes[s].status = "unlocking" /\ l.height >= l.stakes[s].release)
  <2>1. RefreshReleased(l.stakes, l.height)[s] = l.stakes[s]
    BY <1>3 DEF RefreshReleased
  <2> QED
    BY <1>1, <1>3, <2>1 DEF IsLocked, Stake
<1> QED
  BY <1>2, <1>3

\* The operations on stakes, and the clock, leave every balance alone.
SameFunds(l, m) ==
    /\ m.confirmed = l.confirmed
    /\ m.mature = l.mature
    /\ m.native = l.native
    /\ m.coinbases = l.coinbases
    /\ m.defs = l.defs
    /\ m.token = l.token

\* So what is left to show of them is that the stakes stay covered.
LEMMA StakeFrame ==
    ASSUME NEW l, Sound(l), Backed(l), NEW m, SameFunds(l, m),
           \A a \in Address : Locked(m, a) <= l.mature[a]
    PROVE  Backed(m) /\ Coin(m) = Coin(l)
  BY DEF Backed, SameFunds, StakesBacked, CoinbasesBacked, TokensBacked, Coin

\* Releasing stakes, or the passing of blocks, locks nothing.
LEMMA StakeLess ==
    ASSUME NEW l, Sound(l), Backed(l), NEW m, Sound(m), SameFunds(l, m),
           \A s \in TxID : IsLocked(m, s) =>
                /\ IsLocked(l, s)
                /\ m.stakes[s].owner = l.stakes[s].owner
                /\ m.stakes[s].amount = l.stakes[s].amount
    PROVE  Backed(m) /\ Coin(m) = Coin(l)
<1>1. ASSUME NEW a \in Address
      PROVE  Locked(m, a) <= l.mature[a]
  <2>1. Locked(m, a) <= Locked(l, a)
    BY LockedLess
  <2>2. Locked(l, a) <= l.mature[a]
    BY DEF Backed, StakesBacked
  <2>3. Locked(l, a) \in Nat /\ Locked(m, a) \in Nat
    BY LockedType
  <2>4. l.mature[a] \in Nat
    BY MaxUintAssumption DEF Sound, LedgerState, Uint
  <2> QED
    BY <2>1, <2>2, <2>3, <2>4
<1> QED
  BY <1>1, StakeFrame

\* staking.ApplyLock: validation has left room for the new stake.
LEMMA ApplyLockTotals ==
    ASSUME NEW l, Sound(l), Backed(l), NEW tx \in Transaction, CanLock(l, tx),
           Locked(l, tx.from) + tx.amount <= l.mature[tx.from]
    PROVE  LET m == ApplyLock(l, tx)
           IN  /\ Backed(m) /\ Coin(m) = Coin(l)
               /\ SameFunds(l, m) /\ m.height = l.height /\ m.nonce = l.nonce
               /\ \A s \in TxID : l.stakes[s].status # "none" => m.stakes[s] = l.stakes[s]
<1> DEFINE m == ApplyLock(l, tx)
           id == <<tx.from, tx.nonce>>
           rec == [status |-> "active", owner |-> tx.from, amount |-> tx.amount, release |-> 0]
<1>1. id \in TxID /\ tx.from \in Address /\ tx.amount \in Uint
  BY DEF Transaction, TxID
<1>2. Sound(m)
  BY ApplyLockSound
<1>3. /\ SameFunds(l, m) /\ m.height = l.height /\ m.nonce = l.nonce
      /\ m.stakes = [l.stakes EXCEPT ![id] = rec]
  BY DEF Sound, LedgerState, ApplyLock, SameFunds
<1>4. l.stakes[id].status = "none"
  BY DEF CanLock
<1>5. m.stakes[id] = rec /\ \A s \in TxID : s # id => m.stakes[s] = l.stakes[s]
  BY <1>1, <1>3 DEF Sound, LedgerState
<1> HIDE DEF m, id
<1>6. IsLocked(m, id) /\ ~IsLocked(l, id)
  BY <1>1, <1>2, <1>4, <1>5, LockedStatus
<1>7. ASSUME NEW s \in TxID, s # id
      PROVE  IsLocked(m, s) <=> IsLocked(l, s)
  BY <1>3, <1>5, <1>7 DEF IsLocked, RefreshReleased
<1>8. ASSUME NEW a \in Address
      PROVE  Locked(m, a) <= l.mature[a]
  <2>1. Locked(l, a) <= l.mature[a]
    BY DEF Backed, StakesBacked
  <2>2. Locked(l, a) \in Nat /\ Locked(m, a) \in Nat /\ l.mature[a] \in Nat
    <3>1. Locked(l, a) \in Nat /\ Locked(m, a) \in Nat
      BY <1>2, LockedType
    <3>2. l.mature[a] \in Nat
      BY MaxUintAssumption DEF Sound, LedgerState, Uint
    <3> QED
      BY <3>1, <3>2
  <2>3. CASE a # tx.from
    <3>1. Locked(m, a) <= Locked(l, a)
      BY <1>2, <1>5, <1>7, <2>3, LockedLess
    <3> QED
      BY <2>1, <2>2, <3>1
  <2>4. CASE a = tx.from
    <3> DEFINE f == LockedAmounts(l, a)
               g == LockedAmounts(m, a)
               v == tx.amount
    <3>1. f \in [TxID -> Uint] /\ g \in [TxID -> Uint] /\ v \in Uint
      BY <1>1, <1>2, LockedAmountsType
    <3>2. f[id] = 0 /\ g[id] = v
      BY <1>1, <1>5, <1>6, <2>4 DEF LockedAmounts
    <3>3. \A s \in TxID : s # id => g[s] = f[s]
      BY <1>5, <1>7 DEF LockedAmounts
    <3>4. Locked(l, a) = SumOf(f) /\ Locked(m, a) = SumOf(g)
      BY DEF Locked, LockedAmounts
    <3> HIDE DEF f, g, v
    <3>5. g = [f EXCEPT ![id] = v]
      BY <1>1, <3>1, <3>2, <3>3
    <3>6. SumOf([f EXCEPT ![id] = v]) = SumOf(f) - f[id] + v
      BY <1>1, <3>1, TxIDFinite, SumChange
    <3>7. v \in Nat /\ Locked(l, a) + v <= l.mature[a]
      BY <3>1, <2>4, MaxUintAssumption DEF v, Uint
    <3> QED
      BY <2>2, <3>2, <3>4, <3>5, <3>6, <3>7
  <2> QED
    BY <2>3, <2>4
<1>9. Backed(m) /\ Coin(m) = Coin(l)
  BY <1>3, <1>8, StakeFrame
<1> QED
  BY <1>3, <1>4, <1>5, <1>9 DEF m

\* staking.ApplyUnlock: the stake stays locked until its release height.
LEMMA ApplyUnlockTotals ==
    ASSUME NEW l, Sound(l), Backed(l), NEW tx \in Transaction, CanUnlock(l, tx),
           NEW height \in Nat
    PROVE  LET m == ApplyUnlock(l, tx, height)
           IN  /\ Backed(m) /\ Coin(m) = Coin(l)
               /\ SameFunds(l, m) /\ m.height = l.height /\ m.nonce = l.nonce
               /\ \A s \in TxID : l.stakes[s].status # "active" => m.stakes[s] = l.stakes[s]
<1> DEFINE m == ApplyUnlock(l, tx, height)
<1>1. tx.ref \in TxID /\ l.stakes[tx.ref].status = "active" /\ l.stakes[tx.ref] \in Stake
  BY DEF Transaction, CanUnlock, Sound, LedgerState
<1>2. Sound(m)
  BY ApplyUnlockSound
<1>3. /\ SameFunds(l, m) /\ m.height = l.height /\ m.nonce = l.nonce
      /\ m.stakes[tx.ref].owner = l.stakes[tx.ref].owner
      /\ m.stakes[tx.ref].amount = l.stakes[tx.ref].amount
      /\ \A s \in TxID : s # tx.ref => m.stakes[s] = l.stakes[s]
  BY <1>1 DEF Sound, LedgerState, ApplyUnlock, SameFunds, Stake
<1> HIDE DEF m
<1>4. IsLocked(l, tx.ref)
  BY <1>1, LockedStatus
<1>5. \A s \in TxID : s # tx.ref => (IsLocked(m, s) <=> IsLocked(l, s))
  BY <1>2, <1>3, LockedStatus
<1>6. Backed(m) /\ Coin(m) = Coin(l)
  BY <1>2, <1>3, <1>4, <1>5, StakeLess
<1> QED
  BY <1>1, <1>3, <1>6 DEF m

\* Clone refreshes released stakes and moves nothing.
LEMMA CloneTotals ==
    ASSUME NEW l, Sound(l), Backed(l)
    PROVE  /\ Backed(Clone(l)) /\ Coin(Clone(l)) = Coin(l)
           /\ Clone(l).nonce = l.nonce
           /\ \A s \in TxID : \/ Clone(l).stakes[s] = l.stakes[s]
                              \/ /\ l.stakes[s].status = "unlocking"
                                 /\ Clone(l).stakes[s].status = "released"
                                 /\ Clone(l).stakes[s].release = l.stakes[s].release
<1> DEFINE m == Clone(l)
<1>1. Sound(m) /\ m.height = l.height
  BY CloneSound DEF SameClock
<1>2. SameFunds(l, m) /\ m.nonce = l.nonce /\ m.stakes = RefreshReleased(l.stakes, l.height)
  BY DEF Sound, LedgerState, Clone, SameFunds
<1> HIDE DEF m
<1>3. ASSUME NEW s \in TxID
      PROVE  /\ m.stakes[s].owner = l.stakes[s].owner
             /\ m.stakes[s].amount = l.stakes[s].amount
             /\ m.stakes[s].release = l.stakes[s].release
             /\ \/ m.stakes[s] = l.stakes[s]
                \/ l.stakes[s].status = "unlocking" /\ m.stakes[s].status = "released"
  <2>1. l.stakes[s] \in Stake
    BY DEF Sound, LedgerState
  <2> QED
    BY <1>2, <2>1 DEF RefreshReleased, Stake
<1>4. \A s \in TxID : IsLocked(m, s) => IsLocked(l, s)
  BY <1>1, <1>3, LockedStatus
<1>5. Backed(m) /\ Coin(m) = Coin(l)
  BY <1>1, <1>2, <1>3, <1>4, StakeLess
<1> QED
  BY <1>2, <1>3, <1>5 DEF m

\* Moving to a later height releases stakes at most.
LEMMA ClockTotals ==
    ASSUME NEW l, Sound(l), Backed(l), NEW height \in Nat, l.height <= height
    PROVE  LET m == [l EXCEPT !.height = height]
           IN  Sound(m) /\ Backed(m) /\ Coin(m) = Coin(l)
<1> DEFINE m == [l EXCEPT !.height = height]
<1>1. /\ SameFunds(l, m) /\ m.stakes = l.stakes /\ m.nonce = l.nonce /\ m.height = height
      /\ m \in LedgerState
  BY DEF Sound, LedgerState, SameFunds
<1>2. l.height \in Nat /\ \A s \in TxID : l.stakes[s].release \in Nat
  BY DEF Sound, LedgerState, Stake
<1> HIDE DEF m
<1>3. Sound(m)
  BY <1>1 DEF Sound, SameFunds, Mirrored, Capped
<1>4. \A s \in TxID : IsLocked(m, s) => IsLocked(l, s)
  BY <1>1, <1>2, <1>3, LockedStatus
<1>5. Backed(m) /\ Coin(m) = Coin(l)
  BY <1>1, <1>3, <1>4, StakeLess
<1> QED
  BY <1>3, <1>5 DEF m
---------------------------------------------------------------------------
\* The coin a transaction takes out of circulation: the fee of a legacy transfer.
Burnt(tx) == IF tx.kind = "legacy_transfer" THEN tx.fee ELSE 0

\* What an executed transaction has done to the ledger, totals and records.
Executed(l, tx, m) ==
    /\ Backed(m)
    /\ Coin(m) + Burnt(tx) = Coin(l)
    /\ m.nonce = [l.nonce EXCEPT ![tx.from] = tx.nonce]
    /\ tx.nonce = l.nonce[tx.from] + 1
    /\ \A s \in TxID : l.stakes[s].status \in {"unlocking", "released"}
                          => m.stakes[s] = l.stakes[s]

\* SetNonce moves nothing.
LEMMA SetNonceTotals ==
    ASSUME NEW l, Sound(l), Backed(l), NEW tx \in Transaction
    PROVE  LET m == SetNonce(l, tx)
           IN  /\ Backed(m) /\ Coin(m) = Coin(l) /\ m.stakes = l.stakes
               /\ m.nonce = [l.nonce EXCEPT ![tx.from] = tx.nonce]
<1> DEFINE m == SetNonce(l, tx)
<1>1. /\ SameFunds(l, m) /\ m.stakes = l.stakes /\ m.height = l.height
      /\ m.nonce = [l.nonce EXCEPT ![tx.from] = tx.nonce]
  BY DEF Sound, LedgerState, SetNonce, SameFunds
<1> HIDE DEF m
<1>2. \A a \in Address : Locked(m, a) = Locked(l, a)
  BY <1>1, LockedFrame
<1>3. Backed(m) /\ Coin(m) = Coin(l)
  BY <1>1, <1>2, StakeFrame DEF Backed, StakesBacked
<1> QED
  BY <1>1, <1>3 DEF m

\* The ledger a legacy transfer leaves when it succeeds.
LegacyMoved(l, tx) ==
    LET Moved(f) == [f EXCEPT ![tx.from] = @ - (tx.amount + tx.fee), ![tx.to] = @ + tx.amount]
    IN  [l EXCEPT !.confirmed = Moved(l.confirmed), !.mature = Moved(l.mature),
                  !.native = Moved(l.native), !.nonce[tx.from] = tx.nonce]

\* A legacy transfer moves the amount and burns the fee, within what is not locked.
LEMMA LegacyMovedTotals ==
    ASSUME NEW l, Sound(l), Backed(l), NEW tx \in Transaction,
           ValidateLegacyTransaction(l, tx), tx.kind = "legacy_transfer",
           l.confirmed[tx.to] + tx.amount <= MaxUint,
           l.mature[tx.to] + tx.amount <= MaxUint
    PROVE  Executed(l, tx, LegacyMoved(l, tx))
<1> DEFINE cost == tx.amount + tx.fee
           x == tx.from
           y == tx.to
           n == tx.amount
           m == LegacyMoved(l, tx)
           Shift(f, g, S) ==
                /\ g \in [S -> Uint]
                /\ g[x] = f[x] - cost
                /\ g[y] = f[y] + n
                /\ \A z \in S : z # x /\ z # y => g[z] = f[z]
<1>1. /\ x \in Address /\ y \in Address /\ x # y /\ n \in Nat /\ tx.fee \in Nat /\ cost \in Nat
      /\ cost = n + tx.fee
      /\ cost <= l.confirmed[x] /\ cost <= l.mature[x] /\ Locked(l, x) + n + tx.fee <= l.mature[x]
      /\ tx.nonce = l.nonce[x] + 1
      /\ l.confirmed[y] + n <= MaxUint /\ l.mature[y] + n <= MaxUint
  BY MaxUintAssumption DEF Transaction, ValidateLegacyTransaction, ExpectedNonce, Uint
<1>2. /\ l.confirmed \in [Address -> Uint] /\ l.mature \in [Address -> Uint]
      /\ l.native \in [Holder -> Uint]
  BY DEF Sound, LedgerState
<1>3. l.native[x] = l.confirmed[x] /\ l.native[y] = l.confirmed[y]
  BY <1>1 DEF Sound, Mirrored
<1>4. /\ m.confirmed = [l.confirmed EXCEPT ![x] = @ - cost, ![y] = @ + n]
      /\ m.mature = [l.mature EXCEPT ![x] = @ - cost, ![y] = @ + n]
      /\ m.native = [l.native EXCEPT ![x] = @ - cost, ![y] = @ + n]
      /\ m.coinbases = l.coinbases
      /\ SameRecords(l, m)
      /\ m.nonce = [l.nonce EXCEPT ![x] = tx.nonce]
  BY DEF Sound, LedgerState, LegacyMoved, SameRecords
<1> HIDE DEF m, cost, x, y, n
<1>5. /\ Shift(l.confirmed, m.confirmed, Address)
      /\ Shift(l.mature, m.mature, Address)
      /\ Shift(l.native, m.native, Holder)
  <2>1. ASSUME NEW S, NEW f \in [S -> Uint], x \in S, y \in S, cost <= f[x], f[y] + n <= MaxUint
        PROVE  Shift(f, [f EXCEPT ![x] = @ - cost, ![y] = @ + n], S)
    BY <1>1, <2>1, MaxUintAssumption DEF Uint
  <2> HIDE DEF Shift
  <2>2. x \in Holder /\ y \in Holder
    BY <1>1 DEF Holder
  <2>3. Shift(l.confirmed, m.confirmed, Address)
    BY <1>1, <1>2, <1>4, <2>1
  <2>4. Shift(l.mature, m.mature, Address)
    BY <1>1, <1>2, <1>4, <2>1
  <2>5. Shift(l.native, m.native, Holder)
    BY <1>1, <1>2, <1>3, <1>4, <2>1, <2>2
  <2> QED
    BY <2>3, <2>4, <2>5
<1>6. Coin(m) + tx.fee = Coin(l)
  <2>1. SumOf(m.native) = SumOf(l.native) - cost + n
    <3> DEFINE f == l.native
               g == m.native
    <3>1. /\ x \in Holder /\ y \in Holder /\ x # y /\ cost \in Nat /\ n \in Nat
          /\ f \in [Holder -> Uint] /\ IsFiniteSet(Holder)
      BY <1>1, <1>2, HolderFinite DEF Holder
    <3>2. /\ g \in [Holder -> Uint] /\ g[x] = f[x] - cost /\ g[y] = f[y] + n
          /\ \A z \in Holder : z # x /\ z # y => g[z] = f[z]
      BY <1>5
    <3> HIDE DEF f, g
    <3>3. SumOf(g) = SumOf(f) - cost + n
      BY <3>1, <3>2, SumMoved
    <3> QED
      BY <3>3 DEF f, g
  <2>2. SumOf(l.native) \in Nat
    BY <1>2, HolderFinite, SumType
  <2> QED
    BY <1>1, <2>1, <2>2 DEF Coin
<1>7. ASSUME NEW b \in Address
      PROVE  /\ m.confirmed[b] = m.mature[b] + DueCredit(m.coinbases, b)
             /\ Locked(l, b) <= m.mature[b]
  <2>1. /\ l.confirmed[b] = l.mature[b] + DueCredit(l.coinbases, b)
        /\ Locked(l, b) <= l.mature[b]
    BY DEF Backed, CoinbasesBacked, StakesBacked
  <2>2. l.confirmed[b] \in Nat /\ l.mature[b] \in Nat
    BY <1>2, MaxUintAssumption DEF Uint
  <2>3. DueCredit(l.coinbases, b) \in Nat
    BY DueCreditType DEF Sound, LedgerState
  <2>4. Locked(l, b) \in Nat
    BY LockedType
  <2>5. CASE b = x
    BY <1>1, <1>4, <1>5, <2>1, <2>2, <2>3, <2>4, <2>5
  <2>6. CASE b = y
    BY <1>1, <1>4, <1>5, <2>1, <2>2, <2>3, <2>4, <2>6
  <2>7. CASE b # x /\ b # y
    BY <1>1, <1>4, <1>5, <2>1, <2>2, <2>3, <2>4, <2>7
  <2> QED
    BY <2>5, <2>6, <2>7
<1>8. Backed(m)
  BY <1>4, <1>7, BackedFrame DEF CoinbasesBacked
<1> QED
  BY <1>1, <1>4, <1>6, <1>8 DEF Executed, Burnt, SameRecords, m, x

\* applyTransaction for versions 1 and 2.
LEMMA ApplyLegacyTotals ==
    ASSUME NEW l, Sound(l), Backed(l), NEW tx \in Transaction, NEW height \in Nat,
           ValidateLegacyTransaction(l, tx), ApplyLegacy(l, tx, height).ok
    PROVE  Executed(l, tx, ApplyLegacy(l, tx, height).ledger)
<1> DEFINE r == ApplyLegacy(l, tx, height)
<1>1. tx.nonce = l.nonce[tx.from] + 1
  BY DEF ValidateLegacyTransaction, ExpectedNonce
<1>2. Coin(l) \in Nat
  BY CoinType
<1>3. CASE tx.kind = "legacy_transfer"
  <2> DEFINE overflow == \/ l.confirmed[tx.to] + tx.amount > MaxUint
                         \/ l.mature[tx.to] + tx.amount > MaxUint
  <2>1. r = ApplyLegacyTransfer(l, tx)
    BY <1>3 DEF ApplyLegacy
  <2>2. /\ tx.from \in Address /\ tx.to \in Address /\ tx.amount \in Nat /\ tx.fee \in Nat
        /\ tx.amount + tx.fee <= l.confirmed[tx.from]
        /\ l.confirmed \in [Address -> Uint] /\ l.mature \in [Address -> Uint]
        /\ l.native[tx.from] = l.confirmed[tx.from] /\ l.native[tx.to] = l.confirmed[tx.to]
    BY <1>3, MaxUintAssumption
       DEF Transaction, ValidateLegacyTransaction, Uint, Sound, LedgerState, Mirrored
  <2>3. CASE overflow
    <3>1. ApplyLegacyTransfer(l, tx) = Err(l)
      BY <2>2, <2>3, MaxUintAssumption DEF ApplyLegacyTransfer, Uint
    <3> QED
      BY <2>1, <3>1 DEF Err
  <2>4. CASE ~overflow
    <3>1. l.confirmed[tx.to] + tx.amount <= MaxUint /\ l.mature[tx.to] + tx.amount <= MaxUint
      BY <2>2, <2>4, MaxUintAssumption DEF Uint
    <3>2. ApplyLegacyTransfer(l, tx) = Ok(LegacyMoved(l, tx))
      BY <2>2, <3>1, MaxUintAssumption DEF ApplyLegacyTransfer, LegacyMoved, Uint
    <3> QED
      BY <1>3, <2>1, <3>1, <3>2, LegacyMovedTotals DEF Ok
  <2> QED
    BY <2>3, <2>4
<1>4. CASE tx.kind = "stake_lock"
  <2> DEFINE m == ApplyLock(l, tx)
  <2>1. CanLock(l, tx) /\ r = Ok(SetNonce(m, tx))
    BY <1>4 DEF ApplyLegacy, Err
  <2>2. Locked(l, tx.from) + tx.amount <= l.mature[tx.from]
    BY <1>4 DEF ValidateLegacyTransaction
  <2>3. Sound(m)
    BY ApplyLockSound
  <2>4. /\ Backed(m) /\ Coin(m) = Coin(l) /\ m.nonce = l.nonce
        /\ \A s \in TxID : l.stakes[s].status # "none" => m.stakes[s] = l.stakes[s]
    BY <2>1, <2>2, ApplyLockTotals
  <2> HIDE DEF m
  <2>5. /\ Backed(SetNonce(m, tx)) /\ Coin(SetNonce(m, tx)) = Coin(m)
        /\ SetNonce(m, tx).stakes = m.stakes
        /\ SetNonce(m, tx).nonce = [m.nonce EXCEPT ![tx.from] = tx.nonce]
    BY <2>3, <2>4, SetNonceTotals
  <2> QED
    BY <1>1, <1>2, <1>4, <2>1, <2>4, <2>5 DEF Executed, Burnt, Ok
<1>5. CASE tx.kind = "stake_unlock"
  <2> DEFINE m == ApplyUnlock(l, tx, height)
  <2>1. CanUnlock(l, tx) /\ r = Ok(SetNonce(m, tx))
    BY <1>5 DEF ApplyLegacy, Err
  <2>2. Sound(m)
    BY ApplyUnlockSound
  <2>3. /\ Backed(m) /\ Coin(m) = Coin(l) /\ m.nonce = l.nonce
        /\ \A s \in TxID : l.stakes[s].status # "active" => m.stakes[s] = l.stakes[s]
    BY <2>1, ApplyUnlockTotals
  <2> HIDE DEF m
  <2>4. /\ Backed(SetNonce(m, tx)) /\ Coin(SetNonce(m, tx)) = Coin(m)
        /\ SetNonce(m, tx).stakes = m.stakes
        /\ SetNonce(m, tx).nonce = [m.nonce EXCEPT ![tx.from] = tx.nonce]
    BY <2>2, <2>3, SetNonceTotals
  <2> QED
    BY <1>1, <1>2, <1>5, <2>1, <2>3, <2>4 DEF Executed, Burnt, Ok
<1> QED
  BY <1>3, <1>4, <1>5 DEF ValidateLegacyTransaction
\* The tail every version 3 transaction runs: the fee goes to the pool.
LEMMA ChargedTotals ==
    ASSUME NEW l, Sound(l), Backed(l), NEW tx \in Transaction,
           CanChargeNativeFee(l, tx.payer, tx.fee)
    PROVE  LET m == SetNonce(ChargeNativeFee(l, tx.payer, tx.fee), tx)
           IN  /\ Backed(m) /\ Coin(m) = Coin(l) /\ m.stakes = l.stakes
               /\ m.nonce = [l.nonce EXCEPT ![tx.from] = tx.nonce]
<1> DEFINE c == ChargeNativeFee(l, tx.payer, tx.fee)
<1>1. tx.payer \in Address /\ tx.fee \in Nat
  BY MaxUintAssumption DEF Transaction, Uint
<1>2. Sound(c)
  BY <1>1, ChargeNativeFeeSound
<1>3. Backed(c) /\ Coin(c) = Coin(l) /\ SameRecords(l, c) /\ c.nonce = l.nonce
  BY <1>1, ChargeNativeFeeTotals
<1> HIDE DEF c
<1>4. /\ Backed(SetNonce(c, tx)) /\ Coin(SetNonce(c, tx)) = Coin(c)
      /\ SetNonce(c, tx).stakes = c.stakes
      /\ SetNonce(c, tx).nonce = [c.nonce EXCEPT ![tx.from] = tx.nonce]
  BY <1>2, <1>3, SetNonceTotals
<1> QED
  BY <1>3, <1>4 DEF c, SameRecords

\* applyAssetTransactionV3: a version 3 transaction burns no coin.
LEMMA ApplyAssetTransactionV3Totals ==
    ASSUME NEW l, Sound(l), Backed(l), NEW tx \in Transaction, tx.kind \in AssetKind,
           ValidateAssetTransactionV3(l, tx), ApplyAssetTransactionV3(l, tx).ok
    PROVE  Executed(l, tx, ApplyAssetTransactionV3(l, tx).ledger)
<1> DEFINE Charged(m) == SetNonce(ChargeNativeFee(m, tx.payer, tx.fee), tx)
           spent == SpendNative(l, tx.from, tx.amount)
           r == ApplyAssetTransactionV3(l, tx)
<1>1. /\ tx.from \in Address /\ tx.to \in Address
      /\ tx.amount \in Nat /\ tx.fee \in Nat
  BY MaxUintAssumption DEF Transaction, Uint
<1>2. tx.nonce = l.nonce[tx.from] + 1
  BY DEF ValidateAssetTransactionV3, ExpectedNonce
<1>3. Coin(l) \in Nat
  BY CoinType
<1>4. Burnt(tx) = 0
  BY DEF Burnt, AssetKind
<1>5. ASSUME NEW m, Sound(m), Backed(m), SameCoin(l, m), Coin(m) = Coin(l),
             CanChargeNativeFee(m, tx.payer, tx.fee)
      PROVE  Executed(l, tx, Charged(m))
  <2>1. /\ Backed(Charged(m)) /\ Coin(Charged(m)) = Coin(m) /\ Charged(m).stakes = m.stakes
        /\ Charged(m).nonce = [m.nonce EXCEPT ![tx.from] = tx.nonce]
    BY <1>5, ChargedTotals
  <2> HIDE DEF Charged
  <2> QED
    BY <1>2, <1>3, <1>4, <1>5, <2>1 DEF Executed, SameCoin
<1>6. CASE tx.kind = "native_transfer"
  <2> DEFINE c == Charged(spent)
             m == ReceiveNative(c, tx.to, tx.amount)
  <2>1. /\ ValidateNativeSpend(l, tx.from, tx.amount)
        /\ CanChargeNativeFee(spent, tx.payer, tx.fee)
        /\ CanReceiveNative(c, tx.to, tx.amount)
        /\ r = Ok(m)
    BY <1>6 DEF ApplyAssetTransactionV3, Err
  <2>2. Sound(spent)
    BY <1>1, <2>1, SpendNativeSound
  <2>3. /\ Backed(spent) /\ Coin(spent) = Coin(l) - tx.amount
        /\ spent.stakes = l.stakes /\ spent.nonce = l.nonce
    BY <1>1, <2>1, SpendNativeTotals DEF SameRecords
  <2> HIDE DEF spent
  <2>4. Sound(c)
    BY <2>1, <2>2, ChargedSound
  <2>5. /\ Backed(c) /\ Coin(c) = Coin(spent) /\ c.stakes = spent.stakes
        /\ c.nonce = [spent.nonce EXCEPT ![tx.from] = tx.nonce]
    BY <2>1, <2>2, <2>3, ChargedTotals
  <2> HIDE DEF c
  <2>6. /\ Backed(m) /\ Coin(m) = Coin(c) + tx.amount
        /\ m.stakes = c.stakes /\ m.nonce = c.nonce
    BY <1>1, <2>1, <2>4, <2>5, ReceiveNativeTotals DEF SameRecords
  <2> HIDE DEF m
  <2>7. Coin(m) + 0 = Coin(l)
    BY <1>1, <1>3, <2>3, <2>5, <2>6
  <2> QED
    BY <1>2, <1>4, <2>1, <2>3, <2>5, <2>6, <2>7 DEF Executed, Ok
<1>7. CASE tx.kind = "token_transfer"
  <2> DEFINE m == Transfer(l, tx)
  <2>1. CanTransfer(l, tx) /\ CanChargeNativeFee(m, tx.payer, tx.fee) /\ r = Ok(Charged(m))
    BY <1>7 DEF ApplyAssetTransactionV3, Err
  <2>2. Sound(m) /\ Backed(m) /\ Coin(m) = Coin(l) /\ SameCoin(l, m)
    BY <2>1, TransferSound, TransferTotals
  <2> HIDE DEF m, Charged
  <2> QED
    BY <1>5, <2>1, <2>2 DEF Ok
<1>8. CASE tx.kind = "asset_create"
  <2> DEFINE m == CreateFromTransactionID(l, tx)
  <2>1. CanCreate(l, tx) /\ CanChargeNativeFee(m, tx.payer, tx.fee) /\ r = Ok(Charged(m))
    BY <1>8 DEF ApplyAssetTransactionV3, Err
  <2>2. Sound(m) /\ Backed(m) /\ Coin(m) = Coin(l) /\ SameCoin(l, m)
    BY <2>1, CreateSound, CreateTotals
  <2> HIDE DEF m, Charged
  <2> QED
    BY <1>5, <2>1, <2>2 DEF Ok
<1>9. CASE tx.kind = "asset_mint"
  <2> DEFINE m == Mint(l, tx)
  <2>1. CanMint(l, tx) /\ CanChargeNativeFee(m, tx.payer, tx.fee) /\ r = Ok(Charged(m))
    BY <1>9 DEF ApplyAssetTransactionV3, Err
  <2>2. Sound(m) /\ Backed(m) /\ Coin(m) = Coin(l) /\ SameCoin(l, m)
    BY <2>1, MintSound, MintTotals
  <2> HIDE DEF m, Charged
  <2> QED
    BY <1>5, <2>1, <2>2 DEF Ok
<1>10. CASE tx.kind = "asset_burn"
  <2> DEFINE m == Burn(l, tx)
  <2>1. CanBurn(l, tx) /\ CanChargeNativeFee(m, tx.payer, tx.fee) /\ r = Ok(Charged(m))
    BY <1>10 DEF ApplyAssetTransactionV3, Err
  <2>2. Sound(m) /\ Backed(m) /\ Coin(m) = Coin(l) /\ SameCoin(l, m)
    BY <2>1, BurnSound, BurnTotals
  <2> HIDE DEF m, Charged
  <2> QED
    BY <1>5, <2>1, <2>2 DEF Ok
<1> QED
  BY <1>6, <1>7, <1>8, <1>9, <1>10 DEF AssetKind

\* Every executed transaction keeps what is owed covered, burns only a legacy
\* fee, moves one nonce by one and leaves unlocked stakes alone.
THEOREM ApplyTransactionTotals ==
    ASSUME NEW l, Sound(l), Backed(l), NEW tx \in Transaction, NEW height \in Nat,
           ApplyTransactionAtHeight(l, tx, height).ok
    PROVE  Executed(l, tx, ApplyTransactionAtHeight(l, tx, height).ledger)
<1>1. ValidateTransaction(l, tx)
  BY DEF ApplyTransactionAtHeight, Err
<1>2. CASE tx.kind \in AssetKind
  BY <1>1, <1>2, ApplyAssetTransactionV3Totals DEF ApplyTransactionAtHeight, ValidateTransaction
<1>3. CASE tx.kind \notin AssetKind
  BY <1>1, <1>3, ApplyLegacyTotals DEF ApplyTransactionAtHeight, ValidateTransaction
<1> QED
  BY <1>2, <1>3
---------------------------------------------------------------------------
\* matureCoinbases pays out what is due: a pending reward always fits, because
\* it is part of the confirmed balance already.
LEMMA MatureCoinbasesTotals ==
    ASSUME NEW l, Sound(l), Backed(l), NEW height \in Int
    PROVE  LET m == MatureCoinbases(l, height)
           IN  /\ Backed(m) /\ Coin(m) = Coin(l)
               /\ m.nonce = l.nonce /\ m.stakes = l.stakes
               /\ m.coinbases = {c \in l.coinbases : c.height + Maturity > height}
<1> DEFINE due == {c \in l.coinbases : c.height + Maturity <= height}
           Fits(a) == l.mature[a] + DueCredit(due, a) <= MaxUint
           mat == [a \in Address |-> IF Fits(a) THEN l.mature[a] + DueCredit(due, a)
                                                ELSE l.mature[a]]
           left == {c \in l.coinbases : ~(c \in due /\ Fits(c.address))}
           m == [l EXCEPT !.mature = mat, !.coinbases = left]
<1>1. MatureCoinbases(l, height) = m
  BY DEF MatureCoinbases
<1>2. /\ l.coinbases \in SUBSET CoinbaseCredit /\ IsFiniteSet(l.coinbases)
      /\ l.confirmed \in [Address -> Uint] /\ l.mature \in [Address -> Uint]
  BY DEF Sound, LedgerState
<1>3. due \in SUBSET l.coinbases
  OBVIOUS
<1>4. l.coinbases \ due = {c \in l.coinbases : c.height + Maturity > height}
  BY <1>2, ParamAssumption DEF CoinbaseCredit
<1>5. \A c \in l.coinbases : c.address \in Address
  BY <1>2 DEF CoinbaseCredit
<1> HIDE DEF due
<1>6. ASSUME NEW a \in Address
      PROVE  /\ l.confirmed[a] = l.mature[a] + DueCredit(due, a) + DueCredit(l.coinbases \ due, a)
             /\ DueCredit(due, a) \in Nat /\ DueCredit(l.coinbases \ due, a) \in Nat
             /\ l.mature[a] \in Nat /\ l.confirmed[a] \in Nat /\ Fits(a)
  <2>1. l.mature[a] \in Nat /\ l.confirmed[a] \in Nat /\ l.confirmed[a] <= MaxUint
    BY <1>2, MaxUintAssumption DEF Uint
  <2>2. l.confirmed[a] = l.mature[a] + DueCredit(l.coinbases, a)
    BY DEF Backed, CoinbasesBacked
  <2>3. /\ DueCredit(l.coinbases, a) = DueCredit(due, a) + DueCredit(l.coinbases \ due, a)
        /\ DueCredit(due, a) \in Nat /\ DueCredit(l.coinbases \ due, a) \in Nat
    BY <1>2, <1>3, DueCreditSplit
  <2> QED
    BY <2>1, <2>2, <2>3, MaxUintAssumption
<1>7. left = l.coinbases \ due
  BY <1>5, <1>6
<1>8. \A a \in Address : mat[a] = l.mature[a] + DueCredit(due, a)
  BY <1>6
<1> HIDE DEF mat, left, Fits
<1>9. /\ m.mature = mat /\ m.coinbases = left /\ m.confirmed = l.confirmed /\ m.native = l.native
      /\ SameRecords(l, m) /\ m.nonce = l.nonce
  BY DEF Sound, LedgerState, SameRecords
<1> HIDE DEF m
<1>10. CoinbasesBacked(m)
  BY <1>6, <1>7, <1>8, <1>9 DEF CoinbasesBacked
<1>11. ASSUME NEW a \in Address
       PROVE  Locked(l, a) <= m.mature[a]
  <2>1. Locked(l, a) <= l.mature[a]
    BY DEF Backed, StakesBacked
  <2>2. Locked(l, a) \in Nat
    BY LockedType
  <2> QED
    BY <1>6, <1>8, <1>9, <2>1, <2>2
<1>12. Backed(m)
  BY <1>9, <1>10, <1>11, BackedFrame
<1> QED
  BY <1>1, <1>4, <1>7, <1>9, <1>12 DEF Coin, SameRecords

\* The coinbase creates its amount, as coin and as a pending reward; that the
\* reward is a new one follows from the heights of the pending ones.
LEMMA CoinbaseTotals ==
    ASSUME NEW l, Sound(l), Backed(l), NEW to \in Address, NEW amount \in Uint,
           NEW height \in Nat, CanApplyCoinbase(l, to, amount),
           \A c \in l.coinbases : c.height < height
    PROVE  LET m == ApplyCoinbaseAtHeight(l, to, amount, height)
           IN  /\ Backed(m) /\ Coin(m) = Coin(l) + amount
               /\ m.nonce = l.nonce /\ m.stakes = l.stakes
<1> DEFINE credit == [address |-> to, amount |-> amount, height |-> height]
           new == IF amount = 0 THEN {} ELSE {credit}
           all == l.coinbases \cup new
           m == ApplyCoinbaseAtHeight(l, to, amount, height)
<1>1. /\ l.confirmed \in [Address -> Uint] /\ l.native \in [Holder -> Uint]
      /\ l.mature \in [Address -> Uint]
      /\ l.coinbases \in SUBSET CoinbaseCredit /\ IsFiniteSet(l.coinbases)
      /\ to \in Holder
  BY DEF Sound, LedgerState, Holder
<1>2. amount \in Nat /\ l.native[to] \in Nat /\ l.native[to] + amount \in Uint
  BY <1>1, MaxUintAssumption DEF Uint, CanApplyCoinbase
<1>3. /\ m.confirmed = [l.confirmed EXCEPT ![to] = @ + amount]
      /\ m.native = [l.native EXCEPT ![to] = l.native[to] + amount]
      /\ m.coinbases = all
      /\ m.mature = l.mature
      /\ SameRecords(l, m) /\ m.nonce = l.nonce
  BY DEF Sound, LedgerState, ApplyCoinbaseAtHeight, SameRecords
<1> HIDE DEF m
<1>4. Coin(m) = Coin(l) + amount
  <2> DEFINE v == l.native[to] + amount
             f == l.native
  <2>1. f \in [Holder -> Uint] /\ v \in Uint
    BY <1>1, <1>2
  <2>2. v = f[to] + amount /\ f[to] \in Nat
    BY <1>2
  <2>3. m.native = [f EXCEPT ![to] = v]
    BY <1>3
  <2> HIDE DEF v, f
  <2>4. SumOf([f EXCEPT ![to] = v]) = SumOf(f) - f[to] + v
    BY <1>1, <2>1, HolderFinite, SumChange
  <2>5. SumOf(f) \in Nat
    BY <2>1, HolderFinite, SumType
  <2>6. SumOf([f EXCEPT ![to] = v]) = SumOf(f) + amount
    BY <1>2, <2>2, <2>4, <2>5
  <2> QED
    BY <2>3, <2>6 DEF Coin, f
<1>5. ASSUME NEW a \in Address
      PROVE  DueCredit(all, a) = DueCredit(l.coinbases, a) + IF a = to THEN amount ELSE 0
  <2>1. DueCredit(l.coinbases, a) \in Nat
    BY <1>1, DueCreditType
  <2>2. CASE amount = 0
    <3>1. all = l.coinbases
      BY <2>2
    <3> HIDE DEF all
    <3> QED
      BY <2>1, <2>2, <3>1
  <2>3. CASE amount # 0
    <3>1. credit \in CoinbaseCredit /\ credit \notin l.coinbases
      <4>1. credit \in CoinbaseCredit
        BY <1>2, <2>3, MaxUintAssumption DEF CoinbaseCredit, Uint
      <4>2. credit.height = height
        OBVIOUS
      <4> HIDE DEF credit
      <4>3. credit \notin l.coinbases
        BY <4>2
      <4> QED
        BY <4>1, <4>3
    <3>2. DueCredit({credit}, a) = IF a = to THEN amount ELSE 0
      <4>1. DueCredit({credit}, a) = IF credit.address = a THEN credit.amount ELSE 0
        <5> HIDE DEF credit
        <5> QED
          BY <3>1, DueCreditOne
      <4>2. credit.address = to /\ credit.amount = amount
        OBVIOUS
      <4> HIDE DEF credit
      <4> QED
        BY <4>1, <4>2
    <3> HIDE DEF credit
    <3>3. all = l.coinbases \cup {credit}
      BY <2>3
    <3> HIDE DEF all
    <3>4. /\ all \in SUBSET CoinbaseCredit /\ IsFiniteSet(all)
          /\ {credit} \in SUBSET all /\ all \ {credit} = l.coinbases
      <4>1. IsFiniteSet({credit})
        BY FS_Singleton
      <4>2. IsFiniteSet(all)
        BY <1>1, <3>3, <4>1, FS_Union
      <4> QED
        BY <1>1, <3>1, <3>3, <4>2
    <3>5. DueCredit(all, a) = DueCredit({credit}, a) + DueCredit(all \ {credit}, a)
      BY <3>4, DueCreditSplit
    <3> QED
      BY <1>2, <2>1, <3>2, <3>4, <3>5
  <2> QED
    BY <2>2, <2>3
<1> HIDE DEF all
<1>6. ASSUME NEW a \in Address
      PROVE  m.confirmed[a] = m.mature[a] + DueCredit(m.coinbases, a)
  <2>1. l.confirmed[a] = l.mature[a] + DueCredit(l.coinbases, a)
    BY DEF Backed, CoinbasesBacked
  <2>2. DueCredit(l.coinbases, a) \in Nat
    BY <1>1, DueCreditType
  <2>3. l.mature[a] \in Nat
    BY <1>1, MaxUintAssumption DEF Uint
  <2>4. m.confirmed[a] = l.confirmed[a] + IF a = to THEN amount ELSE 0
    BY <1>1, <1>3, <2>1, <2>2, <2>3
  <2> QED
    BY <1>2, <1>3, <1>5, <2>1, <2>2, <2>3, <2>4
<1>7. Backed(m)
  BY <1>3, <1>6, BackedFrame DEF CoinbasesBacked, Backed, StakesBacked
<1> QED
  BY <1>3, <1>4, <1>7 DEF m, SameRecords

\* The head of applyBlock moves no coin and unlocks no stake twice.
LEMMA BeginBlockTotals ==
    ASSUME NEW l, Sound(l), Backed(l), NEW height \in Nat
    PROVE  LET m == BeginBlock(l, height)
           IN  /\ Backed(m) /\ Coin(m) = Coin(l) /\ m.nonce = l.nonce
               /\ m.stakes = Clone(l).stakes
<1> DEFINE c == Clone(l)
<1>1. Sound(c)
  BY CloneSound
<1>2. Backed(c) /\ Coin(c) = Coin(l) /\ c.nonce = l.nonce
  BY CloneTotals
<1> HIDE DEF c
<1>3. LET m == MatureCoinbases(c, height - 1)
      IN  Backed(m) /\ Coin(m) = Coin(c) /\ m.nonce = c.nonce /\ m.stakes = c.stakes
  <2>1. height - 1 \in Int
    OBVIOUS
  <2> QED
    BY <1>1, <1>2, <2>1, MatureCoinbasesTotals
<1> QED
  BY <1>2, <1>3 DEF BeginBlock, c

\* The tail of applyBlock pays the pool out and lets the clock run.
LEMMA FinishBlockTotals ==
    ASSUME NEW l, Sound(l), Backed(l), NEW miner \in Address, NEW height \in Nat,
           l.height <= height, CanSettleFees(l, miner)
    PROVE  LET m == FinishBlock(l, miner, height)
           IN  /\ Backed(m) /\ Coin(m) = Coin(l)
               /\ m.nonce = l.nonce /\ m.stakes = l.stakes
<1> DEFINE s == SettleFees(l, miner)
           t == [s EXCEPT !.height = height]
<1>1. Sound(s)
  BY SettleFeesSound
<1>2. Backed(s) /\ Coin(s) = Coin(l) /\ SameRecords(l, s) /\ s.nonce = l.nonce
  BY SettleFeesTotals
<1>3. FinishBlock(l, miner, height) = MatureCoinbases(t, height)
  BY DEF FinishBlock
<1> HIDE DEF s
<1>4. Sound(t) /\ Backed(t) /\ Coin(t) = Coin(s)
  BY <1>1, <1>2, ClockTotals DEF SameRecords
<1>5. t.nonce = s.nonce /\ t.stakes = s.stakes
  BY <1>1 DEF Sound, LedgerState
<1> HIDE DEF t
<1>6. LET m == MatureCoinbases(t, height)
      IN  Backed(m) /\ Coin(m) = Coin(t) /\ m.nonce = t.nonce /\ m.stakes = t.stakes
  BY <1>4, MatureCoinbasesTotals
<1> QED
  BY <1>2, <1>3, <1>4, <1>5, <1>6 DEF SameRecords

\* The ledger of an empty chain holds nothing and owes nothing.
LEMMA NewMatureTotals == Backed(NewMature) /\ Coin(NewMature) = 0
<1>1. Sound(NewMature)
  BY NewMatureSound
<1>2. 0 \in Uint
  BY MaxUintAssumption DEF Uint
<1>3. Coin(NewMature) = 0
  <2>1. NewMature.native \in [Holder -> Uint] /\ \A h \in Holder : NewMature.native[h] = 0
    BY <1>2 DEF NewMature
  <2> QED
    BY <2>1, SumZero DEF Coin
<1>4. TokensBacked(NewMature)
  <2>1. ASSUME NEW t \in TxID
        PROVE  /\ NewMature.token[t] \in [Address -> Uint]
               /\ \A a \in Address : NewMature.token[t][a] = 0
               /\ NewMature.defs[t].totalSupply = 0 /\ NewMature.defs[t].maxSupply = 0
    BY <1>2 DEF NewMature
  <2>2. \A t \in TxID : SumOf(NewMature.token[t]) = 0
    BY <2>1, SumZero
  <2> QED
    BY <2>1, <2>2 DEF TokensBacked
<1>5. CoinbasesBacked(NewMature)
  <2>1. NewMature.coinbases = {}
    BY DEF NewMature
  <2>2. ASSUME NEW a \in Address
        PROVE  NewMature.confirmed[a] = 0 /\ NewMature.mature[a] = 0
    BY DEF NewMature
  <2> QED
    BY <2>1, <2>2, DueCreditNone DEF CoinbasesBacked
<1>6. StakesBacked(NewMature)
  <2> SUFFICES ASSUME NEW a \in Address
               PROVE  Locked(NewMature, a) <= NewMature.mature[a]
    BY DEF StakesBacked
  <2>1. \A s \in TxID : ~IsLocked(NewMature, s)
    <3>1. \A s \in TxID : NewMature.stakes[s].status = "none"
      BY DEF NewMature
    <3> QED
      BY <1>1, <3>1, LockedStatus
  <2>2. LockedAmounts(NewMature, a) \in [TxID -> Uint]
    BY <1>1, LockedAmountsType
  <2>3. \A s \in TxID : LockedAmounts(NewMature, a)[s] = 0
    BY <2>1 DEF LockedAmounts
  <2>4. SumOf(LockedAmounts(NewMature, a)) = 0
    BY <2>2, <2>3, SumZero
  <2>5. Locked(NewMature, a) = 0
    BY <2>4 DEF Locked, LockedAmounts
  <2>6. NewMature.mature[a] = 0
    BY DEF NewMature
  <2> QED
    BY <2>5, <2>6
<1> QED
  BY <1>3, <1>4, <1>5, <1>6 DEF Backed
---------------------------------------------------------------------------
(***************************************************************************)
(* Blocks and chains.                                                      *)
(***************************************************************************)

TxRun == INSTANCE Iteration WITH Step <- ApplyTx
ChainRun == INSTANCE Iteration WITH Step <- ApplyNext

\* What the loops pass from turn to turn.
Result == [ok : BOOLEAN, ledger : LedgerState]

\* A ledger between two blocks: sound, everything it owes covered, the fee
\* pool empty, and one pending reward per block at most.
Good(l) ==
    /\ Sound(l)
    /\ Backed(l)
    /\ l.native[FeeCollector] = 0
    /\ Dated(l, l.height)

\* ReplayMature is a loop of Iteration over the blocks of a chain.
LEMMA ReplayLoop ==
    ASSUME NEW chain
    PROVE  ReplayMature(chain) = ChainRun!Run(Ok(NewMature), chain)
  BY DEF ReplayMature, Loop, ChainRun!Run

\* ApplyTransactions is a loop of Iteration over the transactions of a block.
LEMMA TransactionLoop ==
    ASSUME NEW start, NEW txs
    PROVE  ApplyTransactions(start, txs) = TxRun!Run(start, txs)
  BY DEF ApplyTransactions, Loop, TxRun!Run

\* A result of a loop is a success or an error with a ledger.
LEMMA ResultForm ==
    ASSUME NEW l \in LedgerState
    PROVE  /\ Ok(l) \in Result /\ Ok(l).ok /\ Ok(l).ledger = l
           /\ Err(l) \in Result /\ ~Err(l).ok /\ Err(l).ledger = l
  BY DEF Ok, Err, Result
---------------------------------------------------------------------------
\* A transaction gives a result, whatever the ledger.
LEMMA ApplyTransactionForm ==
    ASSUME NEW l, NEW tx \in Transaction, NEW height
    PROVE  \E m : ApplyTransactionAtHeight(l, tx, height) \in {Ok(m), Err(m)}
<1>1. CASE ~ValidateTransaction(l, tx)
  BY <1>1 DEF ApplyTransactionAtHeight
<1>2. CASE ValidateTransaction(l, tx) /\ tx.kind \in AssetKind
  <2>1. ApplyTransactionAtHeight(l, tx, height) = ApplyAssetTransactionV3(l, tx)
    BY <1>2 DEF ApplyTransactionAtHeight
  <2>2. \E m : ApplyAssetTransactionV3(l, tx) \in {Ok(m), Err(m)}
    BY <1>2 DEF ApplyAssetTransactionV3, AssetKind
  <2> QED
    BY <2>1, <2>2
<1>3. CASE ValidateTransaction(l, tx) /\ tx.kind \notin AssetKind
  <2>1. ApplyTransactionAtHeight(l, tx, height) = ApplyLegacy(l, tx, height)
    BY <1>3 DEF ApplyTransactionAtHeight
  <2>2. tx.kind \in {"legacy_transfer", "stake_lock", "stake_unlock"}
    BY <1>3 DEF ValidateTransaction, ValidateLegacyTransaction
  <2>3. \E m : ApplyLegacyTransfer(l, tx) \in {Ok(m), Err(m)}
    BY DEF ApplyLegacyTransfer
  <2>4. \E m : ApplyLegacy(l, tx, height) \in {Ok(m), Err(m)}
    BY <2>2, <2>3 DEF ApplyLegacy
  <2> QED
    BY <2>1, <2>4
<1> QED
  BY <1>1, <1>2, <1>3

\* A ledger inside the block that follows height h, with at most c coin.
InBlock(h, c) ==
    {r \in Result : r.ok => /\ Sound(r.ledger)
                            /\ Backed(r.ledger)
                            /\ r.ledger.height = h
                            /\ Dated(r.ledger, h + 1)
                            /\ Coin(r.ledger) <= c}

\* One turn of the loop over the transactions stays in the block and adds no
\* coin.
LEMMA ApplyTxInBlock ==
    ASSUME NEW h \in Nat, NEW c \in Nat, NEW r \in InBlock(h, c), NEW tx \in Transaction
    PROVE  ApplyTx(r, tx) \in InBlock(h, c)
<1>1. CASE ~r.ok
  BY <1>1 DEF ApplyTx
<1>2. CASE r.ok
  <2> DEFINE l == r.ledger
             q == ApplyTransactionAtHeight(l, tx, l.height + 1)
  <2>1. /\ Sound(l) /\ Backed(l) /\ l.height = h /\ Dated(l, h + 1) /\ Coin(l) <= c
        /\ l \in LedgerState
    BY <1>2 DEF InBlock, Result
  <2>2. ApplyTx(r, tx) = q
    BY <1>2 DEF ApplyTx
  <2>3. l.height + 1 \in Nat
    BY <2>1
  <2> HIDE DEF l
  <2>4. \/ q.ok /\ Sound(q.ledger) /\ SameClock(l, q.ledger)
        \/ ~q.ok /\ q.ledger = l
    BY <2>1, <2>3, ApplyTransactionSound
  <2>5. q.ok => Executed(l, tx, q.ledger)
    BY <2>1, <2>3, ApplyTransactionTotals
  <2>6. \E m : q \in {Ok(m), Err(m)}
    BY ApplyTransactionForm
  <2> HIDE DEF q
  <2>7. q.ledger \in LedgerState
    BY <2>1, <2>4 DEF Sound
  <2>8. q \in Result
    <3>1. PICK m : q = Ok(m) \/ q = Err(m)
      BY <2>6
    <3>2. q.ledger = m
      BY <3>1 DEF Ok, Err
    <3> QED
      BY <2>7, <3>1, <3>2, ResultForm
  <2>9. q.ok => Coin(q.ledger) <= c
    <3> SUFFICES ASSUME q.ok
                 PROVE  Coin(q.ledger) <= c
      OBVIOUS
    <3>1. Coin(q.ledger) \in Nat /\ Coin(l) \in Nat
      BY <2>1, <2>4, CoinType
    <3>2. Burnt(tx) \in Nat
      BY MaxUintAssumption DEF Burnt, Transaction, Uint
    <3>3. Coin(q.ledger) + Burnt(tx) = Coin(l)
      BY <2>5 DEF Executed
    <3> QED
      BY <2>1, <3>1, <3>2, <3>3
  <2>10. q.ok => Backed(q.ledger) /\ q.ledger.height = h /\ Dated(q.ledger, h + 1)
    BY <2>1, <2>4, <2>5 DEF Executed, SameClock, Dated
  <2> QED
    BY <2>2, <2>4, <2>8, <2>9, <2>10 DEF InBlock
<1> QED
  BY <1>1, <1>2

\* So does the whole loop.
LEMMA ApplyTransactionsInBlock ==
    ASSUME NEW h \in Nat, NEW c \in Nat, NEW start \in InBlock(h, c), NEW txs \in Seq(Transaction)
    PROVE  ApplyTransactions(start, txs) \in InBlock(h, c)
<1> DEFINE T == [k \in Nat |-> InBlock(h, c)]
<1>1. Len(txs) \in Nat /\ \A k \in 1..Len(txs) : txs[k] \in Transaction
  OBVIOUS
<1>2. start \in T[0] /\ T[Len(txs)] = InBlock(h, c)
  BY <1>1
<1>3. \A k \in 1..Len(txs) : \A r \in T[k - 1] : ApplyTx(r, txs[k]) \in T[k]
  <2> SUFFICES ASSUME NEW k \in 1..Len(txs), NEW r \in T[k - 1]
               PROVE  ApplyTx(r, txs[k]) \in T[k]
    OBVIOUS
  <2>1. k \in Nat /\ k - 1 \in Nat /\ r \in InBlock(h, c)
    BY <1>1
  <2> QED
    BY <1>1, <2>1, ApplyTxInBlock
<1> HIDE DEF T
<1>4. TxRun!Run(start, txs) \in T[Len(txs)]
  BY <1>2, <1>3, TxRun!RunKeeps
<1> QED
  BY <1>2, <1>4, TransactionLoop
---------------------------------------------------------------------------
\* applyBlock up to its loop: the opened block, or an error.
Opened(l, to) == IF CanOpen(l, to) THEN Ok(OpenedLedger(l, to)) ELSE Err(BeginBlock(l, l.height + 1))

\* ApplyBlock in the terms of the lemmas.
LEMMA ApplyBlockForm ==
    ASSUME NEW l, NEW block
    PROVE  LET applied == ApplyTransactions(Opened(l, block.to), block.txs)
           IN  ApplyBlock(l, block) =
                  IF applied.ok /\ CanSettleFees(applied.ledger, block.miner)
                  THEN Ok(FinishBlock(applied.ledger, block.miner, l.height + 1))
                  ELSE Err(Clone(l))
  BY DEF ApplyBlock, Opened, CanOpen, OpenedLedger

\* The opened block holds the subsidy besides what was there.
LEMMA OpenedInBlock ==
    ASSUME NEW l, Good(l), NEW to \in Address
    PROVE  Opened(l, to) \in InBlock(l.height, Coin(l) + BlockSubsidy)
<1> DEFINE h == l.height + 1
           b == BeginBlock(l, h)
           m == ApplyCoinbaseAtHeight(b, to, BlockSubsidy, h)
<1>1. Sound(l) /\ Backed(l) /\ Dated(l, l.height)
  BY DEF Good
<1>2. l.height \in Nat /\ h \in Nat /\ h = l.height + 1
  BY <1>1 DEF Sound, LedgerState
<1>3. /\ Sound(b) /\ b.height = l.height /\ b.coinbases \subseteq l.coinbases
      /\ Backed(b) /\ Coin(b) = Coin(l)
  BY <1>1, <1>2, BeginBlockSound, BeginBlockTotals
<1>4. OpenedLedger(l, to) = m /\ (CanOpen(l, to) <=> CanApplyCoinbase(b, to, BlockSubsidy))
  BY DEF OpenedLedger, CanOpen
<1>5. BlockSubsidy \in Uint /\ BlockSubsidy \in Nat
  BY ParamAssumption, MaxUintAssumption DEF Uint
<1>6. Opened(l, to) = IF CanOpen(l, to) THEN Ok(OpenedLedger(l, to)) ELSE Err(b)
  BY DEF Opened
<1> HIDE DEF b, h
<1>7. CASE ~CanOpen(l, to)
  <2>1. b \in LedgerState
    BY <1>3 DEF Sound
  <2> QED
    BY <1>6, <1>7, <2>1, ResultForm DEF InBlock
<1>8. CASE CanOpen(l, to)
  <2>1. Sound(m) /\ m.height = l.height /\ Dated(m, l.height + 1)
    BY <1>1, <1>4, <1>8, OpenedLedgerSound
  <2>2. \A d \in b.coinbases : d.height < h
    <3>1. \A d \in b.coinbases : d.height \in Nat /\ d.height <= l.height
      BY <1>1, <1>3 DEF Dated, Sound, LedgerState, CoinbaseCredit
    <3> QED
      BY <1>2, <3>1
  <2>3. Backed(m) /\ Coin(m) = Coin(b) + BlockSubsidy
    BY <1>2, <1>3, <1>4, <1>5, <1>8, <2>2, CoinbaseTotals
  <2> HIDE DEF m
  <2>4. Coin(m) <= Coin(l) + BlockSubsidy
    BY <1>1, <1>3, <1>5, <2>3, CoinType
  <2>5. m \in LedgerState
    BY <2>1 DEF Sound
  <2>6. Ok(m) \in Result /\ Ok(m).ledger = m
    BY <2>5, ResultForm
  <2> QED
    BY <1>4, <1>6, <1>8, <2>1, <2>3, <2>4, <2>6 DEF InBlock
<1> QED
  BY <1>7, <1>8

\* A block that applies takes a good ledger to a good one of the next height
\* and issues at most the subsidy; one that does not leaves the cloned ledger.
THEOREM ApplyBlockGood ==
    ASSUME NEW l, Good(l), NEW block \in Block(Seq(Transaction))
    PROVE  LET r == ApplyBlock(l, block)
           IN  /\ r \in Result
               /\ r.ok => /\ Good(r.ledger)
                          /\ r.ledger.height = l.height + 1
                          /\ Coin(r.ledger) <= Coin(l) + BlockSubsidy
               /\ ~r.ok => r.ledger = Clone(l)
<1> DEFINE h == l.height
           c == Coin(l) + BlockSubsidy
           opened == Opened(l, block.to)
           applied == ApplyTransactions(opened, block.txs)
           a == applied.ledger
           m == FinishBlock(a, block.miner, h + 1)
           fits == applied.ok /\ CanSettleFees(a, block.miner)
<1>1. block.to \in Address /\ block.miner \in Address /\ block.txs \in Seq(Transaction)
  BY DEF Block
<1>2. Sound(l) /\ h \in Nat /\ h + 1 \in Nat /\ c \in Nat
  <2>1. Sound(l) /\ h \in Nat
    BY DEF Good, Sound, LedgerState
  <2>2. Coin(l) \in Nat
    BY <2>1, CoinType
  <2>3. BlockSubsidy \in Nat
    BY ParamAssumption, MaxUintAssumption DEF Uint
  <2> QED
    BY <2>1, <2>2, <2>3
<1>3. opened \in InBlock(h, c)
  BY <1>1, OpenedInBlock
<1>4. ApplyBlock(l, block) = IF fits THEN Ok(m) ELSE Err(Clone(l))
  BY ApplyBlockForm
<1> HIDE DEF h, c, opened
<1>5. applied \in InBlock(h, c)
  BY <1>1, <1>2, <1>3, ApplyTransactionsInBlock
<1>6. applied.ok => Sound(a) /\ Backed(a) /\ a.height = h /\ Dated(a, h + 1) /\ Coin(a) <= c
  BY <1>5 DEF InBlock
<1> HIDE DEF applied, a
<1>7. CASE ~fits
  <2>1. Clone(l) \in LedgerState
    BY <1>2, CloneSound DEF Sound
  <2> QED
    BY <1>4, <1>7, <2>1, ResultForm
<1>8. CASE fits
  <2>1. /\ Sound(m) /\ m.height = h + 1 /\ m.native[FeeCollector] = 0
        /\ m.coinbases \subseteq a.coinbases
    BY <1>1, <1>2, <1>6, <1>8, FinishBlockSound
  <2>2. Backed(m) /\ Coin(m) = Coin(a)
    <3>1. a.height <= h + 1
      BY <1>2, <1>6, <1>8
    <3> QED
      BY <1>1, <1>2, <1>6, <1>8, <3>1, FinishBlockTotals
  <2> HIDE DEF m
  <2>3. Good(m)
    BY <1>6, <1>8, <2>1, <2>2 DEF Good, Dated
  <2>4. Ok(m) \in Result /\ Ok(m).ok /\ Ok(m).ledger = m
    BY <2>1, ResultForm DEF Sound
  <2>5. Coin(m) <= c
    BY <1>6, <1>8, <2>2
  <2> QED
    BY <1>4, <1>8, <2>1, <2>3, <2>4, <2>5 DEF c, h
<1> QED
  BY <1>7, <1>8
---------------------------------------------------------------------------
Chain == Seq(Block(Seq(Transaction)))

\* The results of a replay of n blocks.
Replayed(n) ==
    {r \in Result : r.ok => /\ Good(r.ledger)
                            /\ r.ledger.height = n
                            /\ Coin(r.ledger) <= BlockSubsidy * n}

\* The subsidy of the blocks of a chain, and of one more.
LEMMA SubsidyOf ==
    ASSUME NEW n \in Nat
    PROVE  /\ BlockSubsidy \in Nat
           /\ BlockSubsidy * n \in Nat
           /\ BlockSubsidy * (n + 1) = BlockSubsidy * n + BlockSubsidy
           /\ BlockSubsidy * 0 = 0
<1>1. BlockSubsidy \in Nat
  BY ParamAssumption, MaxUintAssumption DEF Uint
<1> QED
  BY <1>1

\* One turn of the replay.
LEMMA ApplyNextReplayed ==
    ASSUME NEW n \in Nat, NEW r \in Replayed(n), NEW block \in Block(Seq(Transaction))
    PROVE  ApplyNext(r, block) \in Replayed(n + 1)
<1>1. CASE ~r.ok
  BY <1>1 DEF ApplyNext, Replayed
<1>2. CASE r.ok
  <2> DEFINE l == r.ledger
             q == ApplyBlock(l, block)
  <2>1. Good(l) /\ l.height = n /\ Coin(l) <= BlockSubsidy * n /\ Sound(l)
    BY <1>2 DEF Replayed, Good
  <2>2. ApplyNext(r, block) = q
    BY <1>2 DEF ApplyNext
  <2> HIDE DEF l
  <2>3. /\ q \in Result
        /\ q.ok => Good(q.ledger) /\ q.ledger.height = n + 1 /\ Coin(q.ledger) <= Coin(l) + BlockSubsidy
    BY <2>1, ApplyBlockGood
  <2> HIDE DEF q
  <2>4. q.ok => Coin(q.ledger) <= BlockSubsidy * (n + 1)
    <3>1. Coin(l) \in Nat
      BY <2>1, CoinType
    <3>2. q.ok => Coin(q.ledger) \in Nat
      BY <2>3, CoinType DEF Good
    <3> QED
      BY <2>1, <2>3, <3>1, <3>2, SubsidyOf
  <2> QED
    BY <2>2, <2>3, <2>4 DEF Replayed
<1> QED
  BY <1>1, <1>2

\* A chain that applies, whatever its length and its blocks, leaves a ledger
\* whose height is its length, which owes nothing it does not hold and which
\* holds no more coin than the subsidies of its blocks.
THEOREM ReplayGood ==
    ASSUME NEW chain \in Chain
    PROVE  LET r == ReplayMature(chain)
           IN  /\ r \in Result
               /\ r.ok => /\ Good(r.ledger)
                          /\ r.ledger.height = Len(chain)
                          /\ Coin(r.ledger) <= BlockSubsidy * Len(chain)
<1> DEFINE T == [k \in Nat |-> Replayed(k)]
<1>1. Len(chain) \in Nat /\ \A k \in 1..Len(chain) : chain[k] \in Block(Seq(Transaction))
  BY DEF Chain
<1>2. Ok(NewMature) \in Replayed(0)
  <2>1. /\ Sound(NewMature) /\ Backed(NewMature) /\ Coin(NewMature) = 0 /\ NewMature.height = 0
        /\ NewMature.native[FeeCollector] = 0 /\ Dated(NewMature, NewMature.height)
    BY NewMatureSound, NewMatureTotals, NewMatureFacts
  <2>2. Ok(NewMature) \in Result /\ Ok(NewMature).ledger = NewMature
    BY <2>1, ResultForm DEF Sound
  <2>3. Coin(NewMature) <= BlockSubsidy * 0
    BY <2>1, SubsidyOf
  <2> QED
    BY <2>1, <2>2, <2>3 DEF Replayed, Good
<1>3. Ok(NewMature) \in T[0] /\ T[Len(chain)] = Replayed(Len(chain))
  BY <1>1, <1>2
<1>4. \A k \in 1..Len(chain) : \A r \in T[k - 1] : ApplyNext(r, chain[k]) \in T[k]
  <2> SUFFICES ASSUME NEW k \in 1..Len(chain), NEW r \in T[k - 1]
               PROVE  ApplyNext(r, chain[k]) \in T[k]
    OBVIOUS
  <2>1. k \in Nat /\ k - 1 \in Nat /\ (k - 1) + 1 = k /\ r \in Replayed(k - 1)
    BY <1>1
  <2>2. ApplyNext(r, chain[k]) \in Replayed((k - 1) + 1)
    BY <1>1, <2>1, ApplyNextReplayed
  <2> QED
    BY <2>1, <2>2
<1> HIDE DEF T
<1>5. ChainRun!Run(Ok(NewMature), chain) \in T[Len(chain)]
  BY <1>3, <1>4, ChainRun!RunKeeps DEF Chain
<1> QED
  BY <1>3, <1>5, ReplayLoop DEF Replayed

\* A valid chain has a good ledger.
LEMMA ValidChainGood ==
    ASSUME NEW chain \in Chain, ValidChain(chain)
    PROVE  /\ Good(ReplayMature(chain).ledger)
           /\ ReplayMature(chain).ledger.height = Len(chain)
  BY ReplayGood DEF ValidChain

\* Replaying one more block is applying it to the ledger of the chain.
LEMMA ReplayAppend ==
    ASSUME NEW chain \in Chain, NEW block \in Block(Seq(Transaction))
    PROVE  ReplayMature(Append(chain, block)) = ApplyNext(ReplayMature(chain), block)
<1>1. ChainRun!Run(Ok(NewMature), Append(chain, block)) = ApplyNext(ChainRun!Run(Ok(NewMature), chain), block)
  BY ChainRun!RunAppend DEF Chain
<1> QED
  BY <1>1, ReplayLoop

\* The genesis chain is valid and its ledger is the new one.
LEMMA ReplayEmpty == ReplayMature(<<>>) = Ok(NewMature) /\ ValidChain(<<>>)
<1>1. ReplayMature(<<>>) = Ok(NewMature)
  BY ReplayLoop, ChainRun!RunEmpty
<1> QED
  BY <1>1 DEF ValidChain, Ok
---------------------------------------------------------------------------
\* Refreshing the stakes twice is refreshing them once.
LEMMA CloneTwice ==
    ASSUME NEW l, Sound(l)
    PROVE  Clone(Clone(l)) = Clone(l) /\ Clone(l).height = l.height
<1> DEFINE st == RefreshReleased(l.stakes, l.height)
<1>1. Clone(l) = [l EXCEPT !.stakes = st]
  BY DEF Clone
<1>2. ASSUME NEW s \in TxID
      PROVE  RefreshReleased(st, l.height)[s] = st[s]
  <2>1. l.stakes[s] \in Stake
    BY DEF Sound, LedgerState
  <2> QED
    BY <2>1 DEF RefreshReleased, Stake
<1>3. RefreshReleased(st, l.height) = st
  BY <1>2 DEF RefreshReleased
<1>4. Clone(l).stakes = st /\ Clone(l).height = l.height
  BY <1>1 DEF Sound, LedgerState
<1> HIDE DEF st
<1>5. Clone(Clone(l)) = [Clone(l) EXCEPT !.stakes = st]
  BY <1>3, <1>4 DEF Clone
<1>6. [[l EXCEPT !.stakes = st] EXCEPT !.stakes = st] = [l EXCEPT !.stakes = st]
  BY DEF Sound, LedgerState
<1> QED
  BY <1>1, <1>4, <1>5, <1>6

\* A block does to a snapshot of a ledger what it does to the ledger.
LEMMA ApplyBlockClone ==
    ASSUME NEW l, Sound(l), NEW block
    PROVE  ApplyBlock(Clone(l), block) = ApplyBlock(l, block)
<1>1. Clone(Clone(l)) = Clone(l) /\ Clone(l).height = l.height
  BY CloneTwice
<1>2. \A h : BeginBlock(Clone(l), h) = BeginBlock(l, h)
  BY <1>1 DEF BeginBlock
<1>3. Opened(Clone(l), block.to) = Opened(l, block.to)
  BY <1>1, <1>2 DEF Opened, CanOpen, OpenedLedger
<1> QED
  BY <1>1, <1>3, ApplyBlockForm

\* A snapshot has the root of its ledger.
LEMMA CloneRoot ==
    ASSUME NEW l, Sound(l)
    PROVE  RootForLedger(Clone(l)) = RootForLedger(l)
<1>1. Clone(Clone(l)) = Clone(l)
  BY CloneTwice
<1>2. /\ Clone(l).confirmed = l.confirmed /\ Clone(l).mature = l.mature /\ Clone(l).nonce = l.nonce
      /\ Clone(l).defs = l.defs /\ Clone(l).native = l.native /\ Clone(l).token = l.token
  BY DEF Clone, Sound, LedgerState
<1> QED
  BY <1>1, <1>2 DEF RootForLedger

\* The snapshot of a good ledger passes Snapshot.Validate.
LEMMA CloneValid ==
    ASSUME NEW l, Good(l)
    PROVE  ValidSnapshot(Clone(l))
<1>1. Sound(Clone(l)) /\ Dated(Clone(l), Clone(l).height)
  BY CloneFacts DEF Good
<1> QED
  BY <1>1 DEF ValidSnapshot, Sound, Mirrored, Capped, Dated

\* The snapshot that replay gives for a valid chain: valid, of the height of
\* the chain, with the root of its last block.
LEMMA SnapshotOfChain ==
    ASSUME NEW chain \in Chain, ValidChain(chain)
    PROVE  /\ SnapshotForBlocks(chain) \in LedgerState
           /\ SnapshotForBlocks(chain).height = Len(chain)
           /\ ValidSnapshot(SnapshotForBlocks(chain))
           /\ RootForLedger(SnapshotForBlocks(chain)) = StateRoot(chain)
<1> DEFINE l == ReplayMature(chain).ledger
<1>1. Good(l) /\ l.height = Len(chain)
  BY ValidChainGood
<1>2. SnapshotForBlocks(chain) = Clone(l) /\ StateRoot(chain) = RootForLedger(l)
  BY DEF SnapshotForBlocks, SnapshotForLedger, StateRoot
<1> HIDE DEF l
<1>3. Sound(l)
  BY <1>1 DEF Good
<1>4. Sound(Clone(l)) /\ Clone(l).height = l.height
  BY <1>3, CloneSound DEF SameClock
<1>5. Clone(l) \in LedgerState
  BY <1>4 DEF Sound
<1> QED
  BY <1>1, <1>2, <1>3, <1>4, <1>5, CloneRoot, CloneValid

\* The incremental path of AddBlock is exact: the snapshot after the block, from
\* the snapshot of the chain, is the one a replay of the longer chain gives.
THEOREM IncrementalIsReplay ==
    ASSUME NEW chain \in Chain, NEW block \in Block(Seq(Transaction)),
           ValidChain(chain), ValidChain(Append(chain, block))
    PROVE  SnapshotAfterBlock(SnapshotForBlocks(chain), block)
              = Ok(SnapshotForBlocks(Append(chain, block)))
<1> DEFINE r == ReplayMature(chain)
           l == r.ledger
           s == SnapshotForBlocks(chain)
<1>1. Good(l) /\ Sound(l) /\ r.ok
  BY ValidChainGood DEF Good, ValidChain
<1>2. ReplayMature(Append(chain, block)) = ApplyBlock(l, block)
  BY <1>1, ReplayAppend DEF ApplyNext
<1>3. s = SnapshotForLedger(l) /\ ValidSnapshot(s)
  BY SnapshotOfChain DEF SnapshotForBlocks
<1> HIDE DEF r, l
<1>4. NewMatureFromState(s) = Clone(l)
  BY <1>1, <1>3, SnapshotRoundTrip
<1> HIDE DEF s
<1>5. ApplyBlock(NewMatureFromState(s), block) = ApplyBlock(l, block)
  BY <1>1, <1>4, ApplyBlockClone
<1>6. ApplyBlock(l, block).ok
  BY <1>2 DEF ValidChain
<1> QED
  BY <1>2, <1>3, <1>5, <1>6 DEF SnapshotAfterBlock, SnapshotForBlocks, s
===========================================================================
