----------------------- MODULE BlockProductionProofs ----------------------
(***************************************************************************)
(* Theorems about BlockProduction, for any pending transactions and any    *)
(* ledger parameters.                                                      *)
(*                                                                         *)
(* The miner selects on a work ledger that lacks the coinbase of the block *)
(* it builds, and executes the block on a candidate that has it.  The      *)
(* proof is a simulation: after every chosen transaction the candidate is  *)
(* the work ledger plus the subsidy of the miner, and the subsidy can turn *)
(* a check of the work ledger down only where an addition overflows.       *)
(***************************************************************************)
EXTENDS BlockProduction, LedgerProofs

\* What the candidate has and the work ledger has not.
Extra(a, miner) == IF a = miner THEN BlockSubsidy ELSE 0

\* c is w with the subsidy of the miner, which has not matured yet.
Ahead(c, w, miner) ==
    /\ c.mature = w.mature
    /\ c.nonce = w.nonce
    /\ c.stakes = w.stakes
    /\ c.defs = w.defs
    /\ c.token = w.token
    /\ c.height = w.height
    /\ \A a \in Address : c.confirmed[a] = w.confirmed[a] + Extra(a, miner)
    /\ \A a \in Holder : c.native[a] = w.native[a] + Extra(a, miner)

\* Two ledgers of which one is ahead by the subsidy.
Pair(c, w, miner) == Sound(c) /\ Sound(w) /\ miner \in Address /\ Ahead(c, w, miner)

\* No balance of w overflows when the subsidy is added.
Roomy(w) == \A a \in Address : w.confirmed[a] + BlockSubsidy <= MaxUint

\* The subsidy and the balances of a pair are numbers.
LEMMA PairTypes ==
    ASSUME NEW c, NEW w, NEW miner, Pair(c, w, miner), NEW a \in Address
    PROVE  /\ Extra(a, miner) \in Nat /\ BlockSubsidy \in Nat /\ MaxUint \in Nat
           /\ c.confirmed[a] \in Nat /\ w.confirmed[a] \in Nat /\ w.mature[a] \in Nat
           /\ c.native[a] \in Nat /\ w.native[a] \in Nat
           /\ c.confirmed[a] = w.confirmed[a] + Extra(a, miner)
           /\ c.native[a] = w.native[a] + Extra(a, miner)
           /\ c.mature[a] = w.mature[a]
           /\ w.confirmed[a] <= c.confirmed[a] /\ w.native[a] <= c.native[a]
           /\ c.native[FeeCollector] = w.native[FeeCollector]
           /\ Extra(a, miner) <= BlockSubsidy
           /\ w.native[a] = w.confirmed[a]
<1>1. BlockSubsidy \in Nat /\ MaxUint \in Nat /\ Extra(a, miner) \in Nat /\ Extra(a, miner) <= BlockSubsidy
  BY ParamAssumption, MaxUintAssumption DEF Uint, Extra
<1>2. /\ c.confirmed[a] \in Nat /\ w.confirmed[a] \in Nat /\ w.mature[a] \in Nat
      /\ c.native[a] \in Nat /\ w.native[a] \in Nat /\ w.native[a] = w.confirmed[a]
  BY MaxUintAssumption DEF Pair, Sound, LedgerState, Uint, Holder, Mirrored
<1>3. /\ c.confirmed[a] = w.confirmed[a] + Extra(a, miner)
      /\ c.native[a] = w.native[a] + Extra(a, miner)
      /\ c.mature[a] = w.mature[a]
  BY DEF Pair, Ahead, Holder
<1>4. c.native[FeeCollector] = w.native[FeeCollector]
  <2>1. FeeCollector # miner /\ FeeCollector \in Holder
    BY AddressAssumption DEF Pair, Holder
  <2>2. w.native[FeeCollector] \in Nat
    BY <2>1, MaxUintAssumption DEF Pair, Sound, LedgerState, Uint
  <2> QED
    BY <2>1, <2>2 DEF Pair, Ahead, Extra
<1> QED
  BY <1>1, <1>2, <1>3, <1>4

\* The same stake is locked in both.
LEMMA PairLocked ==
    ASSUME NEW c, NEW w, NEW miner, Pair(c, w, miner), NEW a
    PROVE  Locked(c, a) = Locked(w, a) /\ ActiveCount(c, a) = ActiveCount(w, a)
  BY LockedFrame DEF Pair, Ahead, ActiveCount

\* What may be spent from w may be spent from c.
LEMMA PairSpends ==
    ASSUME NEW c, NEW w, NEW miner, Pair(c, w, miner), NEW a \in Address, NEW n \in Nat,
           ValidateNativeSpend(w, a, n)
    PROVE  ValidateNativeSpend(c, a, n)
<1>1. Locked(c, a) = Locked(w, a)
  BY PairLocked
<1>2. /\ c.confirmed[a] \in Nat /\ w.confirmed[a] \in Nat /\ c.native[a] \in Nat /\ w.native[a] \in Nat
      /\ w.confirmed[a] <= c.confirmed[a] /\ w.native[a] <= c.native[a] /\ c.mature[a] = w.mature[a]
  BY PairTypes
<1> QED
  BY <1>1, <1>2 DEF ValidateNativeSpend

\* Spending keeps the pair a pair.
LEMMA PairSpent ==
    ASSUME NEW c, NEW w, NEW miner, Pair(c, w, miner), NEW a \in Address, NEW n \in Nat,
           ValidateNativeSpend(w, a, n)
    PROVE  Pair(SpendNative(c, a, n), SpendNative(w, a, n), miner)
<1> DEFINE d == SpendNative(c, a, n)
           v == SpendNative(w, a, n)
<1>1. Sound(c) /\ Sound(w) /\ Ahead(c, w, miner) /\ miner \in Address
  BY DEF Pair
<1>2. Sound(d) /\ Sound(v)
  BY <1>1, PairSpends, SpendNativeSound
<1>3. /\ d.mature = [c.mature EXCEPT ![a] = @ - n] /\ v.mature = [w.mature EXCEPT ![a] = @ - n]
      /\ d.nonce = c.nonce /\ d.stakes = c.stakes /\ d.defs = c.defs /\ d.token = c.token /\ d.height = c.height
      /\ v.nonce = w.nonce /\ v.stakes = w.stakes /\ v.defs = w.defs /\ v.token = w.token /\ v.height = w.height
      /\ d.confirmed = [c.confirmed EXCEPT ![a] = @ - n] /\ v.confirmed = [w.confirmed EXCEPT ![a] = @ - n]
      /\ d.native = [c.native EXCEPT ![a] = @ - n] /\ v.native = [w.native EXCEPT ![a] = @ - n]
  BY <1>1 DEF SpendNative, Sound, LedgerState
<1> HIDE DEF d, v
<1>4. /\ c.confirmed \in [Address -> Uint] /\ w.confirmed \in [Address -> Uint]
      /\ c.native \in [Holder -> Uint] /\ w.native \in [Holder -> Uint] /\ a \in Holder
  BY <1>1 DEF Sound, LedgerState, Holder
<1>5. \A b \in Holder : Extra(b, miner) \in Nat
  BY ParamAssumption, MaxUintAssumption DEF Uint, Extra
<1>6. ASSUME NEW b \in Address
      PROVE  d.confirmed[b] = v.confirmed[b] + Extra(b, miner)
  <2>1. c.confirmed[b] = w.confirmed[b] + Extra(b, miner) /\ w.confirmed[b] \in Nat /\ Extra(b, miner) \in Nat
    BY PairTypes
  <2> QED
    BY <1>3, <1>4, <2>1
<1>7. ASSUME NEW b \in Holder
      PROVE  d.native[b] = v.native[b] + Extra(b, miner)
  <2>1. c.native[b] = w.native[b] + Extra(b, miner) /\ w.native[b] \in Nat /\ Extra(b, miner) \in Nat
    BY <1>1, <1>4, <1>5, MaxUintAssumption DEF Ahead, Uint
  <2> QED
    BY <1>3, <1>4, <2>1
<1>8. Ahead(d, v, miner)
  BY <1>1, <1>3, <1>6, <1>7 DEF Ahead
<1> QED
  BY <1>1, <1>2, <1>8 DEF Pair, d, v

\* The fee collector is not a miner.
LEMMA CollectorIsNoMiner ==
    ASSUME NEW miner \in Address
    PROVE  Extra(FeeCollector, miner) = 0 /\ FeeCollector \in Holder
  BY AddressAssumption DEF Extra, Holder

\* Charging a fee keeps the pair a pair.
LEMMA PairCharged ==
    ASSUME NEW c, NEW w, NEW miner, Pair(c, w, miner), NEW a \in Address, NEW n \in Nat,
           CanChargeNativeFee(w, a, n)
    PROVE  /\ CanChargeNativeFee(c, a, n)
           /\ Pair(ChargeNativeFee(c, a, n), ChargeNativeFee(w, a, n), miner)
<1> DEFINE d == SpendNative(c, a, n)
           v == SpendNative(w, a, n)
           dd == [d EXCEPT !.native[FeeCollector] = @ + n]
           vv == [v EXCEPT !.native[FeeCollector] = @ + n]
<1>1. CanChargeNativeFee(c, a, n)
  BY PairSpends, PairTypes DEF CanChargeNativeFee
<1>2. Pair(d, v, miner)
  BY PairSpent DEF CanChargeNativeFee
<1>3. dd = ChargeNativeFee(c, a, n) /\ vv = ChargeNativeFee(w, a, n)
  BY DEF ChargeNativeFee
<1>4. Sound(dd) /\ Sound(vv)
  BY <1>1, <1>3, ChargeNativeFeeSound DEF Pair
<1> HIDE DEF d, v
<1>5. Sound(d) /\ Sound(v) /\ Ahead(d, v, miner) /\ miner \in Address
  BY <1>2 DEF Pair
<1>6. /\ dd.mature = d.mature /\ dd.nonce = d.nonce /\ dd.stakes = d.stakes /\ dd.defs = d.defs
      /\ dd.token = d.token /\ dd.height = d.height /\ dd.confirmed = d.confirmed
      /\ vv.mature = v.mature /\ vv.nonce = v.nonce /\ vv.stakes = v.stakes /\ vv.defs = v.defs
      /\ vv.token = v.token /\ vv.height = v.height /\ vv.confirmed = v.confirmed
      /\ dd.native = [d.native EXCEPT ![FeeCollector] = @ + n]
      /\ vv.native = [v.native EXCEPT ![FeeCollector] = @ + n]
  BY <1>5 DEF Sound, LedgerState
<1> HIDE DEF dd, vv
<1>7. d.native \in [Holder -> Uint] /\ v.native \in [Holder -> Uint]
  BY <1>5 DEF Sound, LedgerState
<1>8. ASSUME NEW b \in Holder
      PROVE  dd.native[b] = vv.native[b] + Extra(b, miner)
  <2>1. d.native[b] = v.native[b] + Extra(b, miner) /\ v.native[b] \in Nat
    BY <1>5, <1>7, MaxUintAssumption DEF Ahead, Uint
  <2>2. Extra(b, miner) \in Nat /\ (b = FeeCollector => Extra(b, miner) = 0)
    BY <1>5, CollectorIsNoMiner, ParamAssumption, MaxUintAssumption DEF Uint, Extra
  <2> QED
    BY <1>6, <1>7, <2>1, <2>2
<1>9. Ahead(dd, vv, miner)
  BY <1>5, <1>6, <1>8 DEF Ahead
<1> QED
  BY <1>1, <1>3, <1>4, <1>5, <1>9 DEF Pair

\* Receiving keeps the pair a pair, where the candidate has room for it.
LEMMA PairReceived ==
    ASSUME NEW c, NEW w, NEW miner, Pair(c, w, miner), NEW a \in Address, NEW n \in Nat,
           CanReceiveNative(w, a, n)
    PROVE  /\ CanReceiveNative(c, a, n) => Pair(ReceiveNative(c, a, n), ReceiveNative(w, a, n), miner)
           /\ Roomy(ReceiveNative(w, a, n)) => CanReceiveNative(c, a, n)
<1> DEFINE d == ReceiveNative(c, a, n)
           v == ReceiveNative(w, a, n)
<1>1. Sound(c) /\ Sound(w) /\ Ahead(c, w, miner) /\ miner \in Address
  BY DEF Pair
<1>2. Sound(v) /\ (CanReceiveNative(c, a, n) => Sound(d))
  BY <1>1, ReceiveNativeSound
<1>3. /\ d.mature = [c.mature EXCEPT ![a] = @ + n] /\ v.mature = [w.mature EXCEPT ![a] = @ + n]
      /\ d.nonce = c.nonce /\ d.stakes = c.stakes /\ d.defs = c.defs /\ d.token = c.token /\ d.height = c.height
      /\ v.nonce = w.nonce /\ v.stakes = w.stakes /\ v.defs = w.defs /\ v.token = w.token /\ v.height = w.height
      /\ d.confirmed = [c.confirmed EXCEPT ![a] = @ + n] /\ v.confirmed = [w.confirmed EXCEPT ![a] = @ + n]
      /\ d.native = [c.native EXCEPT ![a] = @ + n] /\ v.native = [w.native EXCEPT ![a] = @ + n]
  BY <1>1 DEF ReceiveNative, Sound, LedgerState
<1> HIDE DEF d, v
<1>4. /\ c.confirmed \in [Address -> Uint] /\ w.confirmed \in [Address -> Uint]
      /\ c.native \in [Holder -> Uint] /\ w.native \in [Holder -> Uint] /\ a \in Holder
  BY <1>1 DEF Sound, LedgerState, Holder
<1>5. \A b \in Holder : Extra(b, miner) \in Nat
  BY ParamAssumption, MaxUintAssumption DEF Uint, Extra
<1>6. ASSUME NEW b \in Address
      PROVE  d.confirmed[b] = v.confirmed[b] + Extra(b, miner)
  <2>1. c.confirmed[b] = w.confirmed[b] + Extra(b, miner) /\ w.confirmed[b] \in Nat /\ Extra(b, miner) \in Nat
    BY PairTypes
  <2> QED
    BY <1>3, <1>4, <2>1
<1>7. ASSUME NEW b \in Holder
      PROVE  d.native[b] = v.native[b] + Extra(b, miner)
  <2>1. c.native[b] = w.native[b] + Extra(b, miner) /\ w.native[b] \in Nat /\ Extra(b, miner) \in Nat
    BY <1>1, <1>4, <1>5, MaxUintAssumption DEF Ahead, Uint
  <2> QED
    BY <1>3, <1>4, <2>1
<1>8. Ahead(d, v, miner)
  BY <1>1, <1>3, <1>6, <1>7 DEF Ahead
<1>9. ASSUME Roomy(v)
      PROVE  CanReceiveNative(c, a, n)
  <2>1. v.confirmed[a] = w.confirmed[a] + n /\ v.confirmed[a] + BlockSubsidy <= MaxUint
    BY <1>3, <1>4, <1>9 DEF Roomy
  <2>2. /\ c.confirmed[a] = w.confirmed[a] + Extra(a, miner) /\ c.native[a] = w.native[a] + Extra(a, miner)
        /\ w.native[a] = w.confirmed[a] /\ w.confirmed[a] \in Nat /\ c.mature[a] = w.mature[a]
        /\ Extra(a, miner) \in Nat /\ Extra(a, miner) <= BlockSubsidy /\ BlockSubsidy \in Nat /\ MaxUint \in Nat
    BY PairTypes
  <2>3. w.mature[a] + n <= MaxUint
    BY DEF CanReceiveNative
  <2> QED
    BY <2>1, <2>2, <2>3 DEF CanReceiveNative
<1> QED
  BY <1>1, <1>2, <1>8, <1>9 DEF Pair, d, v

\* Operations on nonces, stakes and tokens do the same to both.
LEMMA PairMoved ==
    ASSUME NEW c, NEW w, NEW miner, Pair(c, w, miner), NEW d, NEW v, Sound(d), Sound(v),
           d.confirmed = c.confirmed, d.mature = c.mature, d.native = c.native,
           v.confirmed = w.confirmed, v.mature = w.mature, v.native = w.native,
           d.nonce = v.nonce, d.stakes = v.stakes, d.defs = v.defs, d.token = v.token,
           d.height = v.height
    PROVE  Pair(d, v, miner)
  BY DEF Pair, Ahead

\* SetNonce writes the same nonce to both.
LEMMA PairNonce ==
    ASSUME NEW c, NEW w, NEW miner, Pair(c, w, miner), NEW tx \in Transaction
    PROVE  Pair(SetNonce(c, tx), SetNonce(w, tx), miner)
<1> DEFINE d == SetNonce(c, tx)
           v == SetNonce(w, tx)
<1>1. Sound(c) /\ Sound(w) /\ Ahead(c, w, miner)
  BY DEF Pair
<1>2. Sound(d) /\ Sound(v)
  BY <1>1, SetNonceSound
<1>3. /\ d.confirmed = c.confirmed /\ d.mature = c.mature /\ d.native = c.native
      /\ v.confirmed = w.confirmed /\ v.mature = w.mature /\ v.native = w.native
      /\ d.nonce = [c.nonce EXCEPT ![tx.from] = tx.nonce] /\ d.stakes = c.stakes /\ d.defs = c.defs
      /\ d.token = c.token /\ d.height = c.height
      /\ v.nonce = [w.nonce EXCEPT ![tx.from] = tx.nonce] /\ v.stakes = w.stakes /\ v.defs = w.defs
      /\ v.token = w.token /\ v.height = w.height
  BY <1>1 DEF SetNonce, Sound, LedgerState
<1> HIDE DEF d, v
<1>4. Pair(d, v, miner)
  BY <1>1, <1>2, <1>3, PairMoved DEF Ahead
<1> QED
  BY <1>4 DEF d, v

\* The staking operations.
LEMMA PairStakes ==
    ASSUME NEW c, NEW w, NEW miner, Pair(c, w, miner), NEW tx \in Transaction, NEW height \in Nat
    PROVE  /\ Pair(ApplyLock(c, tx), ApplyLock(w, tx), miner)
           /\ Pair(ApplyUnlock(c, tx, height), ApplyUnlock(w, tx, height), miner)
<1>1. Sound(c) /\ Sound(w) /\ Ahead(c, w, miner)
  BY DEF Pair
<1>2. Pair(ApplyLock(c, tx), ApplyLock(w, tx), miner)
  <2> DEFINE d == ApplyLock(c, tx)
             v == ApplyLock(w, tx)
             Lock(st) == [st EXCEPT ![<<tx.from, tx.nonce>>] =
                    [status |-> "active", owner |-> tx.from, amount |-> tx.amount, release |-> 0]]
  <2>1. Sound(d) /\ Sound(v)
    BY <1>1, ApplyLockSound
  <2>2. /\ d.confirmed = c.confirmed /\ d.mature = c.mature /\ d.native = c.native
        /\ v.confirmed = w.confirmed /\ v.mature = w.mature /\ v.native = w.native
        /\ d.nonce = c.nonce /\ d.stakes = Lock(c.stakes) /\ d.defs = c.defs
        /\ d.token = c.token /\ d.height = c.height
        /\ v.nonce = w.nonce /\ v.stakes = Lock(w.stakes) /\ v.defs = w.defs
        /\ v.token = w.token /\ v.height = w.height
    BY <1>1 DEF ApplyLock, Sound, LedgerState
  <2> HIDE DEF d, v, Lock
  <2>3. Pair(d, v, miner)
    BY <1>1, <2>1, <2>2, PairMoved DEF Ahead
  <2> QED
    BY <2>3 DEF d, v
<1>3. Pair(ApplyUnlock(c, tx, height), ApplyUnlock(w, tx, height), miner)
  <2> DEFINE d == ApplyUnlock(c, tx, height)
             v == ApplyUnlock(w, tx, height)
             Unlock(st) == [st EXCEPT ![tx.ref].status = "unlocking",
                                      ![tx.ref].release = height + UnbondingPeriod]
  <2>1. Sound(d) /\ Sound(v)
    BY <1>1, ApplyUnlockSound
  <2>2. /\ d.confirmed = c.confirmed /\ d.mature = c.mature /\ d.native = c.native
        /\ v.confirmed = w.confirmed /\ v.mature = w.mature /\ v.native = w.native
        /\ d.nonce = c.nonce /\ d.stakes = Unlock(c.stakes) /\ d.defs = c.defs
        /\ d.token = c.token /\ d.height = c.height
        /\ v.nonce = w.nonce /\ v.stakes = Unlock(w.stakes) /\ v.defs = w.defs
        /\ v.token = w.token /\ v.height = w.height
    BY <1>1 DEF ApplyUnlock, Sound, LedgerState
  <2> HIDE DEF d, v, Unlock
  <2>3. Pair(d, v, miner)
    BY <1>1, <2>1, <2>2, PairMoved DEF Ahead
  <2> QED
    BY <2>3 DEF d, v
<1> QED
  BY <1>2, <1>3
\* The operations on issued assets: a transfer,
LEMMA PairTransfer ==
    ASSUME NEW c, NEW w, NEW miner, Pair(c, w, miner), NEW tx \in Transaction, CanTransfer(w, tx)
    PROVE  CanTransfer(c, tx) /\ Pair(Transfer(c, tx), Transfer(w, tx), miner)
<1> DEFINE d == Transfer(c, tx)
           v == Transfer(w, tx)
           Defs(f) == f
           Tokens(f) == [f EXCEPT ![tx.ref] =
                [f[tx.ref] EXCEPT ![tx.from] = @ - tx.amount, ![tx.to] = @ + tx.amount]]
<1>1. Sound(c) /\ Sound(w) /\ Ahead(c, w, miner)
  BY DEF Pair
<1>2. CanTransfer(c, tx)
  BY <1>1 DEF Ahead, CanTransfer
<1>3. Sound(d) /\ Sound(v)
  BY <1>1, <1>2, TransferSound
<1>4. /\ d.confirmed = c.confirmed /\ d.mature = c.mature /\ d.native = c.native
      /\ v.confirmed = w.confirmed /\ v.mature = w.mature /\ v.native = w.native
      /\ d.nonce = c.nonce /\ d.stakes = c.stakes /\ d.defs = Defs(c.defs)
      /\ d.token = Tokens(c.token) /\ d.height = c.height
      /\ v.nonce = w.nonce /\ v.stakes = w.stakes /\ v.defs = Defs(w.defs)
      /\ v.token = Tokens(w.token) /\ v.height = w.height
  BY <1>1 DEF Transfer, Sound, LedgerState
<1> HIDE DEF d, v, Defs, Tokens
<1>5. Pair(d, v, miner)
  BY <1>1, <1>3, <1>4, PairMoved DEF Ahead
<1> QED
  BY <1>2, <1>5 DEF d, v

\* a new asset,
LEMMA PairCreateFromTransactionID ==
    ASSUME NEW c, NEW w, NEW miner, Pair(c, w, miner), NEW tx \in Transaction, CanCreate(w, tx)
    PROVE  CanCreate(c, tx) /\ Pair(CreateFromTransactionID(c, tx), CreateFromTransactionID(w, tx), miner)
<1> DEFINE d == CreateFromTransactionID(c, tx)
           v == CreateFromTransactionID(w, tx)
           Defs(f) == [f EXCEPT ![<<tx.from, tx.nonce>>] =
                [status |-> "active", issuer |-> tx.from, maxSupply |-> tx.amount,
                 totalSupply |-> 0, mintable |-> tx.mintable, burnable |-> tx.burnable]]
           Tokens(f) == f
<1>1. Sound(c) /\ Sound(w) /\ Ahead(c, w, miner)
  BY DEF Pair
<1>2. CanCreate(c, tx)
  BY <1>1 DEF Ahead, CanCreate
<1>3. Sound(d) /\ Sound(v)
  BY <1>1, <1>2, CreateSound
<1>4. /\ d.confirmed = c.confirmed /\ d.mature = c.mature /\ d.native = c.native
      /\ v.confirmed = w.confirmed /\ v.mature = w.mature /\ v.native = w.native
      /\ d.nonce = c.nonce /\ d.stakes = c.stakes /\ d.defs = Defs(c.defs)
      /\ d.token = Tokens(c.token) /\ d.height = c.height
      /\ v.nonce = w.nonce /\ v.stakes = w.stakes /\ v.defs = Defs(w.defs)
      /\ v.token = Tokens(w.token) /\ v.height = w.height
  BY <1>1 DEF CreateFromTransactionID, Sound, LedgerState
<1> HIDE DEF d, v, Defs, Tokens
<1>5. Pair(d, v, miner)
  BY <1>1, <1>3, <1>4, PairMoved DEF Ahead
<1> QED
  BY <1>2, <1>5 DEF d, v

\* a mint,
LEMMA PairMint ==
    ASSUME NEW c, NEW w, NEW miner, Pair(c, w, miner), NEW tx \in Transaction, CanMint(w, tx)
    PROVE  CanMint(c, tx) /\ Pair(Mint(c, tx), Mint(w, tx), miner)
<1> DEFINE d == Mint(c, tx)
           v == Mint(w, tx)
           Defs(f) == [f EXCEPT ![tx.ref].totalSupply = @ + tx.amount]
           Tokens(f) == [f EXCEPT ![tx.ref][tx.to] = @ + tx.amount]
<1>1. Sound(c) /\ Sound(w) /\ Ahead(c, w, miner)
  BY DEF Pair
<1>2. CanMint(c, tx)
  BY <1>1 DEF Ahead, CanMint
<1>3. Sound(d) /\ Sound(v)
  BY <1>1, <1>2, MintSound
<1>4. /\ d.confirmed = c.confirmed /\ d.mature = c.mature /\ d.native = c.native
      /\ v.confirmed = w.confirmed /\ v.mature = w.mature /\ v.native = w.native
      /\ d.nonce = c.nonce /\ d.stakes = c.stakes /\ d.defs = Defs(c.defs)
      /\ d.token = Tokens(c.token) /\ d.height = c.height
      /\ v.nonce = w.nonce /\ v.stakes = w.stakes /\ v.defs = Defs(w.defs)
      /\ v.token = Tokens(w.token) /\ v.height = w.height
  BY <1>1 DEF Mint, Sound, LedgerState
<1> HIDE DEF d, v, Defs, Tokens
<1>5. Pair(d, v, miner)
  BY <1>1, <1>3, <1>4, PairMoved DEF Ahead
<1> QED
  BY <1>2, <1>5 DEF d, v

\* and a burn.
LEMMA PairBurn ==
    ASSUME NEW c, NEW w, NEW miner, Pair(c, w, miner), NEW tx \in Transaction, CanBurn(w, tx)
    PROVE  CanBurn(c, tx) /\ Pair(Burn(c, tx), Burn(w, tx), miner)
<1> DEFINE d == Burn(c, tx)
           v == Burn(w, tx)
           Defs(f) == [f EXCEPT ![tx.ref].totalSupply = @ - tx.amount]
           Tokens(f) == [f EXCEPT ![tx.ref][tx.from] = @ - tx.amount]
<1>1. Sound(c) /\ Sound(w) /\ Ahead(c, w, miner)
  BY DEF Pair
<1>2. CanBurn(c, tx)
  BY <1>1 DEF Ahead, CanBurn
<1>3. Sound(d) /\ Sound(v)
  BY <1>1, <1>2, BurnSound
<1>4. /\ d.confirmed = c.confirmed /\ d.mature = c.mature /\ d.native = c.native
      /\ v.confirmed = w.confirmed /\ v.mature = w.mature /\ v.native = w.native
      /\ d.nonce = c.nonce /\ d.stakes = c.stakes /\ d.defs = Defs(c.defs)
      /\ d.token = Tokens(c.token) /\ d.height = c.height
      /\ v.nonce = w.nonce /\ v.stakes = w.stakes /\ v.defs = Defs(w.defs)
      /\ v.token = Tokens(w.token) /\ v.height = w.height
  BY <1>1 DEF Burn, Sound, LedgerState
<1> HIDE DEF d, v, Defs, Tokens
<1>5. Pair(d, v, miner)
  BY <1>1, <1>3, <1>4, PairMoved DEF Ahead
<1> QED
  BY <1>2, <1>5 DEF d, v

---------------------------------------------------------------------------
\* What the work ledger accepts, the candidate accepts.
LEMMA PairValidates ==
    ASSUME NEW c, NEW w, NEW miner, Pair(c, w, miner), NEW tx \in Transaction, ValidateTransaction(w, tx)
    PROVE  ValidateTransaction(c, tx)
<1>1. /\ tx.from \in Address /\ tx.payer \in Address /\ tx.amount \in Nat /\ tx.fee \in Nat
      /\ tx.amount + tx.fee \in Nat
  BY MaxUintAssumption DEF Transaction, Uint
<1>2. /\ w.confirmed[tx.from] \in Nat /\ c.confirmed[tx.from] \in Nat
      /\ w.confirmed[tx.from] <= c.confirmed[tx.from] /\ c.mature[tx.from] = w.mature[tx.from]
      /\ w.native[tx.from] \in Nat /\ c.native[tx.from] \in Nat /\ w.native[tx.from] <= c.native[tx.from]
  BY <1>1, PairTypes
<1>3. c.nonce = w.nonce /\ c.stakes = w.stakes /\ c.defs = w.defs /\ c.token = w.token
  BY DEF Pair, Ahead
<1>4. Locked(c, tx.from) = Locked(w, tx.from) /\ ActiveCount(c, tx.from) = ActiveCount(w, tx.from)
  BY PairLocked
<1>5. ExpectedNonce(w, tx) => ExpectedNonce(c, tx)
  BY <1>3 DEF ExpectedNonce
<1>6. /\ \A n \in Nat : ValidateNativeSpend(w, tx.from, n) => ValidateNativeSpend(c, tx.from, n)
      /\ \A n \in Nat : ValidateNativeSpend(w, tx.payer, n) => ValidateNativeSpend(c, tx.payer, n)
  BY <1>1, PairSpends
<1>7. CASE tx.kind \in AssetKind
  <2>1. ValidateAssetTransactionV3(w, tx)
    BY <1>7 DEF ValidateTransaction
  <2>2. /\ CanCreate(w, tx) => CanCreate(c, tx)
        /\ CanMint(w, tx) => CanMint(c, tx)
        /\ CanBurn(w, tx) => CanBurn(c, tx)
    BY <1>3 DEF CanCreate, CanMint, CanBurn
  <2>3. w.native[tx.from] >= tx.amount => c.native[tx.from] >= tx.amount
    BY <1>1, <1>2
  <2>4. ValidateAssetTransactionV3(c, tx)
    BY <1>1, <1>3, <1>5, <1>6, <2>1, <2>2, <2>3 DEF ValidateAssetTransactionV3
  <2> QED
    BY <1>7, <2>4 DEF ValidateTransaction
<1>8. CASE tx.kind \notin AssetKind
  <2>1. ValidateLegacyTransaction(w, tx)
    BY <1>8 DEF ValidateTransaction
  <2>2. tx.amount + tx.fee <= w.confirmed[tx.from] => tx.amount + tx.fee <= c.confirmed[tx.from]
    BY <1>1, <1>2
  <2>3. MaxActiveReached(c, tx.from) => MaxActiveReached(w, tx.from)
    BY <1>4 DEF MaxActiveReached
  <2>4. ValidateLegacyTransaction(c, tx)
    BY <1>2, <1>3, <1>4, <1>5, <2>1, <2>2, <2>3 DEF ValidateLegacyTransaction
  <2> QED
    BY <1>8, <2>4 DEF ValidateTransaction
<1> QED
  BY <1>7, <1>8

\* A legacy transfer either overflows the recipient or moves the amount.
LEMMA LegacyTransferForm ==
    ASSUME NEW l, Sound(l), NEW tx \in Transaction, tx.kind = "legacy_transfer",
           ValidateLegacyTransaction(l, tx)
    PROVE  LET fits == l.confirmed[tx.to] + tx.amount <= MaxUint /\ l.mature[tx.to] + tx.amount <= MaxUint
           IN  ApplyLegacyTransfer(l, tx) = IF fits THEN Ok(LegacyMoved(l, tx)) ELSE Err(l)
<1> DEFINE overflow == \/ l.confirmed[tx.to] + tx.amount > MaxUint
                       \/ l.mature[tx.to] + tx.amount > MaxUint
<1>1. /\ tx.from \in Address /\ tx.to \in Address /\ tx.amount \in Nat /\ tx.fee \in Nat
      /\ tx.amount + tx.fee <= l.confirmed[tx.from]
      /\ l.confirmed \in [Address -> Uint] /\ l.mature \in [Address -> Uint]
      /\ l.native[tx.from] = l.confirmed[tx.from] /\ l.native[tx.to] = l.confirmed[tx.to]
  BY MaxUintAssumption
     DEF Transaction, ValidateLegacyTransaction, Uint, Sound, LedgerState, Mirrored
<1>2. CASE overflow
  <2>1. ApplyLegacyTransfer(l, tx) = Err(l)
    BY <1>1, <1>2, MaxUintAssumption DEF ApplyLegacyTransfer, Uint
  <2>2. ~(l.confirmed[tx.to] + tx.amount <= MaxUint /\ l.mature[tx.to] + tx.amount <= MaxUint)
    BY <1>1, <1>2, MaxUintAssumption DEF Uint
  <2> QED
    BY <2>1, <2>2
<1>3. CASE ~overflow
  <2>1. l.confirmed[tx.to] + tx.amount <= MaxUint /\ l.mature[tx.to] + tx.amount <= MaxUint
    BY <1>1, <1>3, MaxUintAssumption DEF Uint
  <2>2. ApplyLegacyTransfer(l, tx) = Ok(LegacyMoved(l, tx))
    BY <1>1, <2>1, MaxUintAssumption DEF ApplyLegacyTransfer, LegacyMoved, Uint
  <2> QED
    BY <2>1, <2>2
<1> QED
  BY <1>2, <1>3

\* A function moved by a transfer, and one that is ahead of it by g.
LEMMA MovedAhead ==
    ASSUME NEW S, NEW f \in [S -> Int], NEW e \in [S -> Int], NEW x \in S, NEW y \in S, x # y,
           NEW cost \in Int, NEW n \in Int, NEW b \in S, NEW k \in Int, e[b] = f[b] + k
    PROVE  [e EXCEPT ![x] = @ - cost, ![y] = @ + n][b]
              = [f EXCEPT ![x] = @ - cost, ![y] = @ + n][b] + k
<1>1. CASE b = x
  BY <1>1
<1>2. CASE b = y
  BY <1>2
<1>3. CASE b # x /\ b # y
  BY <1>3
<1> QED
  BY <1>1, <1>2, <1>3

\* A legacy transfer keeps the pair a pair, where the candidate has room.
LEMMA PairLegacyTransfer ==
    ASSUME NEW c, NEW w, NEW miner, Pair(c, w, miner), NEW tx \in Transaction,
           tx.kind = "legacy_transfer", ValidateLegacyTransaction(w, tx),
           ValidateLegacyTransaction(c, tx), ApplyLegacyTransfer(w, tx).ok
    PROVE  LET q == ApplyLegacyTransfer(c, tx)
               r == ApplyLegacyTransfer(w, tx)
           IN  /\ q.ok => Pair(q.ledger, r.ledger, miner)
               /\ Roomy(r.ledger) => q.ok
<1> DEFINE cost == tx.amount + tx.fee
           x == tx.from
           y == tx.to
           n == tx.amount
           q == ApplyLegacyTransfer(c, tx)
           r == ApplyLegacyTransfer(w, tx)
           d == LegacyMoved(c, tx)
           v == LegacyMoved(w, tx)
           cfits == c.confirmed[y] + n <= MaxUint /\ c.mature[y] + n <= MaxUint
           wfits == w.confirmed[y] + n <= MaxUint /\ w.mature[y] + n <= MaxUint
<1>1. Sound(c) /\ Sound(w) /\ Ahead(c, w, miner) /\ miner \in Address
  BY DEF Pair
<1>2. /\ x \in Address /\ y \in Address /\ x # y /\ n \in Nat /\ cost \in Nat
      /\ x \in Holder /\ y \in Holder
  BY MaxUintAssumption DEF Transaction, ValidateLegacyTransaction, Uint, Holder
<1>3. q = (IF cfits THEN Ok(d) ELSE Err(c)) /\ r = (IF wfits THEN Ok(v) ELSE Err(w))
  BY <1>1, LegacyTransferForm
<1>4. wfits /\ r.ledger = v
  BY <1>3 DEF Ok, Err
<1>5. q.ok => cfits /\ q.ledger = d
  BY <1>3 DEF Ok, Err
<1>6. q.ok => Sound(d)
  BY <1>1, <1>5, ApplyLegacyTransferSound
<1>7. Sound(v)
  BY <1>1, <1>4, ApplyLegacyTransferSound
<1>8. /\ d.confirmed = [c.confirmed EXCEPT ![x] = @ - cost, ![y] = @ + n]
      /\ d.mature = [c.mature EXCEPT ![x] = @ - cost, ![y] = @ + n]
      /\ d.native = [c.native EXCEPT ![x] = @ - cost, ![y] = @ + n]
      /\ d.nonce = [c.nonce EXCEPT ![x] = tx.nonce]
      /\ d.stakes = c.stakes /\ d.defs = c.defs /\ d.token = c.token /\ d.height = c.height
  BY <1>1 DEF Sound, LedgerState, LegacyMoved
<1>9. /\ v.confirmed = [w.confirmed EXCEPT ![x] = @ - cost, ![y] = @ + n]
      /\ v.mature = [w.mature EXCEPT ![x] = @ - cost, ![y] = @ + n]
      /\ v.native = [w.native EXCEPT ![x] = @ - cost, ![y] = @ + n]
      /\ v.nonce = [w.nonce EXCEPT ![x] = tx.nonce]
      /\ v.stakes = w.stakes /\ v.defs = w.defs /\ v.token = w.token /\ v.height = w.height
  BY <1>1 DEF Sound, LedgerState, LegacyMoved
<1>10. /\ c.confirmed \in [Address -> Int] /\ w.confirmed \in [Address -> Int]
       /\ c.native \in [Holder -> Int] /\ w.native \in [Holder -> Int]
  BY <1>1, MaxUintAssumption DEF Sound, LedgerState, Uint
<1>11. \A b \in Holder : Extra(b, miner) \in Int
  BY ParamAssumption, MaxUintAssumption DEF Uint, Extra
<1>12. v.confirmed[y] = w.confirmed[y] + n
  BY <1>2, <1>9, <1>10
<1> HIDE DEF d, v, q, r, x, y, n, cost
<1>13. ASSUME NEW b \in Address
       PROVE  d.confirmed[b] = v.confirmed[b] + Extra(b, miner)
  <2>1. c.confirmed[b] = w.confirmed[b] + Extra(b, miner) /\ Extra(b, miner) \in Int
    BY <1>1, <1>11 DEF Ahead, Holder
  <2> QED
    BY <1>2, <1>8, <1>9, <1>10, <2>1, MovedAhead
<1>14. ASSUME NEW b \in Holder
       PROVE  d.native[b] = v.native[b] + Extra(b, miner)
  <2>1. c.native[b] = w.native[b] + Extra(b, miner) /\ Extra(b, miner) \in Int
    BY <1>1, <1>11 DEF Ahead
  <2> QED
    BY <1>2, <1>8, <1>9, <1>10, <2>1, MovedAhead
<1>15. d.mature = v.mature /\ d.nonce = v.nonce
  BY <1>1, <1>8, <1>9 DEF Ahead
<1>16. Ahead(d, v, miner)
  BY <1>1, <1>8, <1>9, <1>13, <1>14, <1>15 DEF Ahead
<1>17. q.ok => Pair(d, v, miner)
  BY <1>1, <1>6, <1>7, <1>16 DEF Pair
<1>18. Roomy(v) => q.ok
  <2>1. /\ c.confirmed[y] = w.confirmed[y] + Extra(y, miner) /\ w.confirmed[y] \in Nat
        /\ c.mature[y] = w.mature[y] /\ Extra(y, miner) \in Nat
        /\ Extra(y, miner) <= BlockSubsidy /\ BlockSubsidy \in Nat /\ MaxUint \in Nat
    BY <1>2, PairTypes
  <2>2. Roomy(v) => w.confirmed[y] + n + BlockSubsidy <= MaxUint
    BY <1>2, <1>12 DEF Roomy
  <2>3. Roomy(v) => cfits
    BY <1>2, <1>4, <2>1, <2>2
  <2> QED
    BY <1>3, <2>3 DEF Ok
<1> QED
  BY <1>4, <1>5, <1>17, <1>18 DEF q, r

\* The last steps of a version 3 transaction: the fee and the nonce.
LEMMA PairPaid ==
    ASSUME NEW c, NEW w, NEW miner, Pair(c, w, miner), NEW tx \in Transaction,
           CanChargeNativeFee(w, tx.payer, tx.fee)
    PROVE  /\ CanChargeNativeFee(c, tx.payer, tx.fee)
           /\ Pair(SetNonce(ChargeNativeFee(c, tx.payer, tx.fee), tx),
                   SetNonce(ChargeNativeFee(w, tx.payer, tx.fee), tx), miner)
<1>1. tx.payer \in Address /\ tx.fee \in Nat
  BY MaxUintAssumption DEF Transaction, Uint
<1>2. /\ CanChargeNativeFee(c, tx.payer, tx.fee)
      /\ Pair(ChargeNativeFee(c, tx.payer, tx.fee), ChargeNativeFee(w, tx.payer, tx.fee), miner)
  BY <1>1, PairCharged
<1> QED
  BY <1>2, PairNonce

\* Version 3 transactions.
LEMMA PairAssetTransaction ==
    ASSUME NEW c, NEW w, NEW miner, Pair(c, w, miner), NEW tx \in Transaction, tx.kind \in AssetKind,
           ApplyAssetTransactionV3(w, tx).ok
    PROVE  LET q == ApplyAssetTransactionV3(c, tx)
               r == ApplyAssetTransactionV3(w, tx)
           IN  /\ q.ok => Pair(q.ledger, r.ledger, miner)
               /\ Roomy(r.ledger) => q.ok
<1> DEFINE Charged(m) == SetNonce(ChargeNativeFee(m, tx.payer, tx.fee), tx)
           q == ApplyAssetTransactionV3(c, tx)
           r == ApplyAssetTransactionV3(w, tx)
<1>1. tx.from \in Address /\ tx.to \in Address /\ tx.amount \in Nat /\ tx.fee \in Nat
  BY MaxUintAssumption DEF Transaction, Uint
<1>2. ASSUME NEW d, NEW v, Pair(d, v, miner), CanChargeNativeFee(v, tx.payer, tx.fee)
      PROVE  CanChargeNativeFee(d, tx.payer, tx.fee) /\ Pair(Charged(d), Charged(v), miner)
  BY <1>2, PairPaid
<1>3. CASE tx.kind = "native_transfer"
  <2> DEFINE d == SpendNative(c, tx.from, tx.amount)
             v == SpendNative(w, tx.from, tx.amount)
             e == Charged(d)
             x == Charged(v)
             f == ReceiveNative(e, tx.to, tx.amount)
             z == ReceiveNative(x, tx.to, tx.amount)
  <2>1. /\ ValidateNativeSpend(w, tx.from, tx.amount)
        /\ CanChargeNativeFee(v, tx.payer, tx.fee)
        /\ CanReceiveNative(x, tx.to, tx.amount)
        /\ r = Ok(z)
    BY <1>3 DEF ApplyAssetTransactionV3, Err
  <2>2. ValidateNativeSpend(c, tx.from, tx.amount)
    BY <1>1, <2>1, PairSpends
  <2>3. Pair(d, v, miner)
    BY <1>1, <2>1, PairSpent
  <2>4. q = IF /\ ValidateNativeSpend(c, tx.from, tx.amount)
               /\ CanChargeNativeFee(d, tx.payer, tx.fee)
               /\ CanReceiveNative(e, tx.to, tx.amount)
            THEN Ok(f) ELSE Err(c)
    BY <1>3 DEF ApplyAssetTransactionV3
  <2> HIDE DEF d, v, Charged
  <2>5. CanChargeNativeFee(d, tx.payer, tx.fee) /\ Pair(e, x, miner)
    BY <1>2, <2>1, <2>3
  <2> HIDE DEF e, x
  <2>6. /\ CanReceiveNative(e, tx.to, tx.amount) => Pair(f, z, miner)
        /\ Roomy(z) => CanReceiveNative(e, tx.to, tx.amount)
    BY <1>1, <2>1, <2>5, PairReceived
  <2> HIDE DEF f, z, q, r
  <2>7. r.ledger = z
    BY <2>1 DEF Ok
  <2>8. CASE CanReceiveNative(e, tx.to, tx.amount)
    <3>1. q.ok /\ q.ledger = f
      BY <2>2, <2>4, <2>5, <2>8 DEF Ok
    <3> QED
      BY <2>6, <2>7, <2>8, <3>1 DEF q, r
  <2>9. CASE ~CanReceiveNative(e, tx.to, tx.amount)
    <3>1. ~q.ok
      BY <2>4, <2>9 DEF Err
    <3> QED
      BY <2>6, <2>7, <2>9, <3>1 DEF q, r
  <2> QED
    BY <2>8, <2>9
<1>4. CASE tx.kind = "token_transfer"
  <2> DEFINE d == Transfer(c, tx)
             v == Transfer(w, tx)
  <2>1. CanTransfer(w, tx) /\ CanChargeNativeFee(v, tx.payer, tx.fee) /\ r = Ok(Charged(v))
    BY <1>4 DEF ApplyAssetTransactionV3, Err
  <2>2. CanTransfer(c, tx) /\ Pair(d, v, miner)
    BY <2>1, PairTransfer
  <2>3. CanTransfer(c, tx) /\ CanChargeNativeFee(d, tx.payer, tx.fee) => q = Ok(Charged(d))
    BY <1>4 DEF ApplyAssetTransactionV3
  <2> HIDE DEF d, v, q, r, Charged
  <2>4. q = Ok(Charged(d)) /\ Pair(Charged(d), Charged(v), miner)
    BY <1>2, <2>1, <2>2, <2>3
  <2>5. q.ok /\ Pair(q.ledger, r.ledger, miner)
    BY <2>1, <2>4 DEF Ok
  <2> QED
    BY <2>5 DEF q, r
<1>5. CASE tx.kind = "asset_create"
  <2> DEFINE d == CreateFromTransactionID(c, tx)
             v == CreateFromTransactionID(w, tx)
  <2>1. CanCreate(w, tx) /\ CanChargeNativeFee(v, tx.payer, tx.fee) /\ r = Ok(Charged(v))
    BY <1>5 DEF ApplyAssetTransactionV3, Err
  <2>2. CanCreate(c, tx) /\ Pair(d, v, miner)
    BY <2>1, PairCreateFromTransactionID
  <2>3. CanCreate(c, tx) /\ CanChargeNativeFee(d, tx.payer, tx.fee) => q = Ok(Charged(d))
    BY <1>5 DEF ApplyAssetTransactionV3
  <2> HIDE DEF d, v, q, r, Charged
  <2>4. q = Ok(Charged(d)) /\ Pair(Charged(d), Charged(v), miner)
    BY <1>2, <2>1, <2>2, <2>3
  <2>5. q.ok /\ Pair(q.ledger, r.ledger, miner)
    BY <2>1, <2>4 DEF Ok
  <2> QED
    BY <2>5 DEF q, r
<1>6. CASE tx.kind = "asset_mint"
  <2> DEFINE d == Mint(c, tx)
             v == Mint(w, tx)
  <2>1. CanMint(w, tx) /\ CanChargeNativeFee(v, tx.payer, tx.fee) /\ r = Ok(Charged(v))
    BY <1>6 DEF ApplyAssetTransactionV3, Err
  <2>2. CanMint(c, tx) /\ Pair(d, v, miner)
    BY <2>1, PairMint
  <2>3. CanMint(c, tx) /\ CanChargeNativeFee(d, tx.payer, tx.fee) => q = Ok(Charged(d))
    BY <1>6 DEF ApplyAssetTransactionV3
  <2> HIDE DEF d, v, q, r, Charged
  <2>4. q = Ok(Charged(d)) /\ Pair(Charged(d), Charged(v), miner)
    BY <1>2, <2>1, <2>2, <2>3
  <2>5. q.ok /\ Pair(q.ledger, r.ledger, miner)
    BY <2>1, <2>4 DEF Ok
  <2> QED
    BY <2>5 DEF q, r
<1>7. CASE tx.kind = "asset_burn"
  <2> DEFINE d == Burn(c, tx)
             v == Burn(w, tx)
  <2>1. CanBurn(w, tx) /\ CanChargeNativeFee(v, tx.payer, tx.fee) /\ r = Ok(Charged(v))
    BY <1>7 DEF ApplyAssetTransactionV3, Err
  <2>2. CanBurn(c, tx) /\ Pair(d, v, miner)
    BY <2>1, PairBurn
  <2>3. CanBurn(c, tx) /\ CanChargeNativeFee(d, tx.payer, tx.fee) => q = Ok(Charged(d))
    BY <1>7 DEF ApplyAssetTransactionV3
  <2> HIDE DEF d, v, q, r, Charged
  <2>4. q = Ok(Charged(d)) /\ Pair(Charged(d), Charged(v), miner)
    BY <1>2, <2>1, <2>2, <2>3
  <2>5. q.ok /\ Pair(q.ledger, r.ledger, miner)
    BY <2>1, <2>4 DEF Ok
  <2> QED
    BY <2>5 DEF q, r
<1> QED
  BY <1>3, <1>4, <1>5, <1>6, <1>7 DEF AssetKind

\* Transactions of versions 1 and 2.
LEMMA PairLegacy ==
    ASSUME NEW c, NEW w, NEW miner, Pair(c, w, miner), NEW tx \in Transaction, NEW height \in Nat,
           ValidateLegacyTransaction(w, tx), ValidateLegacyTransaction(c, tx),
           ApplyLegacy(w, tx, height).ok
    PROVE  LET q == ApplyLegacy(c, tx, height)
               r == ApplyLegacy(w, tx, height)
           IN  /\ q.ok => Pair(q.ledger, r.ledger, miner)
               /\ Roomy(r.ledger) => q.ok
<1> DEFINE q == ApplyLegacy(c, tx, height)
           r == ApplyLegacy(w, tx, height)
<1>1. CASE tx.kind = "legacy_transfer"
  <2>1. q = ApplyLegacyTransfer(c, tx) /\ r = ApplyLegacyTransfer(w, tx)
    BY <1>1 DEF ApplyLegacy
  <2> QED
    BY <1>1, <2>1, PairLegacyTransfer
<1>2. CASE tx.kind = "stake_lock"
  <2> DEFINE d == ApplyLock(c, tx)
             v == ApplyLock(w, tx)
  <2>1. CanLock(w, tx) /\ r = Ok(SetNonce(v, tx))
    BY <1>2 DEF ApplyLegacy, Err
  <2>2. CanLock(c, tx)
    <3>1. ActiveCount(c, tx.from) = ActiveCount(w, tx.from) /\ c.stakes = w.stakes
      BY PairLocked DEF Pair, Ahead
    <3> QED
      BY <2>1, <3>1 DEF CanLock, MaxActiveReached
  <2>3. q = Ok(SetNonce(d, tx))
    BY <1>2, <2>2 DEF ApplyLegacy
  <2>4. Pair(d, v, miner)
    BY PairStakes
  <2> HIDE DEF d, v, q, r
  <2>5. Pair(SetNonce(d, tx), SetNonce(v, tx), miner)
    BY <2>4, PairNonce
  <2>6. q.ok /\ Pair(q.ledger, r.ledger, miner)
    BY <2>1, <2>3, <2>5 DEF Ok
  <2> QED
    BY <2>6 DEF q, r
<1>3. CASE tx.kind = "stake_unlock"
  <2> DEFINE d == ApplyUnlock(c, tx, height)
             v == ApplyUnlock(w, tx, height)
  <2>1. CanUnlock(w, tx) /\ r = Ok(SetNonce(v, tx))
    BY <1>3 DEF ApplyLegacy, Err
  <2>2. CanUnlock(c, tx)
    BY <2>1 DEF Pair, Ahead, CanUnlock
  <2>3. q = Ok(SetNonce(d, tx))
    BY <1>3, <2>2 DEF ApplyLegacy
  <2>4. Pair(d, v, miner)
    BY PairStakes
  <2> HIDE DEF d, v, q, r
  <2>5. Pair(SetNonce(d, tx), SetNonce(v, tx), miner)
    BY <2>4, PairNonce
  <2>6. q.ok /\ Pair(q.ledger, r.ledger, miner)
    BY <2>1, <2>3, <2>5 DEF Ok
  <2> QED
    BY <2>6 DEF q, r
<1> QED
  BY <1>1, <1>2, <1>3 DEF ValidateLegacyTransaction

\* Whatever transaction the work ledger executes, the candidate executes as
\* well, unless the subsidy makes a balance overflow, and stays ahead by the
\* subsidy.
THEOREM PairTransaction ==
    ASSUME NEW c, NEW w, NEW miner, Pair(c, w, miner), NEW tx \in Transaction, NEW height \in Nat,
           ApplyTransactionAtHeight(w, tx, height).ok
    PROVE  LET q == ApplyTransactionAtHeight(c, tx, height)
               r == ApplyTransactionAtHeight(w, tx, height)
           IN  /\ q.ok => Pair(q.ledger, r.ledger, miner)
               /\ Roomy(r.ledger) => q.ok
<1>1. ValidateTransaction(w, tx)
  BY DEF ApplyTransactionAtHeight, Err
<1>2. ValidateTransaction(c, tx)
  BY <1>1, PairValidates
<1>3. CASE tx.kind \in AssetKind
  <2>1. /\ ApplyTransactionAtHeight(w, tx, height) = ApplyAssetTransactionV3(w, tx)
        /\ ApplyTransactionAtHeight(c, tx, height) = ApplyAssetTransactionV3(c, tx)
    BY <1>1, <1>2, <1>3 DEF ApplyTransactionAtHeight
  <2> QED
    BY <1>3, <2>1, PairAssetTransaction
<1>4. CASE tx.kind \notin AssetKind
  <2>1. /\ ApplyTransactionAtHeight(w, tx, height) = ApplyLegacy(w, tx, height)
        /\ ApplyTransactionAtHeight(c, tx, height) = ApplyLegacy(c, tx, height)
    BY <1>1, <1>2, <1>4 DEF ApplyTransactionAtHeight
  <2>2. ValidateLegacyTransaction(w, tx) /\ ValidateLegacyTransaction(c, tx)
    BY <1>1, <1>2, <1>4 DEF ValidateTransaction
  <2> QED
    BY <2>1, <2>2, PairLegacy
<1> QED
  BY <1>3, <1>4
---------------------------------------------------------------------------
\* Rewards that could have matured by the height of the ledger have matured.
NoneDue(l) == \A c \in l.coinbases : c.height + Maturity > l.height

\* The coin that is issued leaves room in every balance.
LEMMA CoinRoom ==
    ASSUME NEW w, Sound(w), Coin(w) + BlockSubsidy <= MaxUint
    PROVE  Roomy(w)
<1> SUFFICES ASSUME NEW a \in Address
             PROVE  w.confirmed[a] + BlockSubsidy <= MaxUint
  BY DEF Roomy
<1>1. w.native \in [Holder -> Uint] /\ a \in Holder /\ w.native[a] = w.confirmed[a]
  BY DEF Sound, LedgerState, Holder, Mirrored
<1>2. w.native[a] <= Coin(w)
  BY <1>1, HolderFinite, SumBound DEF Coin
<1>3. w.native[a] \in Nat /\ BlockSubsidy \in Nat /\ MaxUint \in Nat /\ Coin(w) \in Nat
  BY <1>1, CoinType, ParamAssumption, MaxUintAssumption DEF Uint
<1> QED
  BY <1>1, <1>2, <1>3

\* A balance and the fee pool are two different parts of the coin.
LEMMA TwoHolders ==
    ASSUME NEW w, Sound(w), NEW a \in Address
    PROVE  w.native[a] + w.native[FeeCollector] <= Coin(w)
<1> DEFINE g == [w.native EXCEPT ![FeeCollector] = 0]
<1>1. /\ w.native \in [Holder -> Uint] /\ a \in Holder /\ FeeCollector \in Holder /\ a # FeeCollector
      /\ 0 \in Uint
  BY AddressAssumption, MaxUintAssumption DEF Sound, LedgerState, Holder, Uint
<1>2. g \in [Holder -> Uint] /\ g[a] = w.native[a]
  BY <1>1
<1>3. SumOf(g) = SumOf(w.native) - w.native[FeeCollector] + 0
  BY <1>1, HolderFinite, SumChange
<1> HIDE DEF g
<1>4. g[a] <= SumOf(g)
  BY <1>1, <1>2, HolderFinite, SumBound
<1>5. w.native[a] \in Nat /\ w.native[FeeCollector] \in Nat /\ Coin(w) \in Nat
  BY <1>1, CoinType, MaxUintAssumption DEF Uint
<1> QED
  BY <1>2, <1>3, <1>4, <1>5 DEF Coin

\* matureCoinbases has nothing to do at the height where it already ran.
LEMMA NothingMatures ==
    ASSUME NEW l, Good(l), NoneDue(l)
    PROVE  LET b == BeginBlock(l, l.height + 1)
               w == Clone(l)
           IN  /\ Sound(b) /\ Sound(w)
               /\ b.confirmed = w.confirmed /\ b.mature = w.mature /\ b.nonce = w.nonce
               /\ b.stakes = w.stakes /\ b.defs = w.defs /\ b.token = w.token
               /\ b.native = w.native /\ b.height = w.height
<1> DEFINE w == Clone(l)
           due == {c \in w.coinbases : c.height + Maturity <= l.height}
           Fits(a) == w.mature[a] + DueCredit(due, a) <= MaxUint
           mat == [a \in Address |-> IF Fits(a) THEN w.mature[a] + DueCredit(due, a)
                                                ELSE w.mature[a]]
           left == {c \in w.coinbases : ~(c \in due /\ Fits(c.address))}
           b == [w EXCEPT !.mature = mat, !.coinbases = left]
<1>1. Sound(l) /\ l.height \in Nat
  BY DEF Good, Sound, LedgerState
<1>2. Sound(w) /\ w.coinbases = l.coinbases /\ w.height = l.height
  BY <1>1, CloneSound DEF SameClock
<1>3. BeginBlock(l, l.height + 1) = MatureCoinbases(w, l.height)
  <2>1. (l.height + 1) - 1 = l.height
    BY <1>1
  <2> QED
    BY <2>1 DEF BeginBlock
<1>4. Sound(BeginBlock(l, l.height + 1))
  BY <1>1, BeginBlockSound
<1> HIDE DEF w
<1>10. MatureCoinbases(w, l.height) = b
  BY DEF MatureCoinbases
<1>5. due = {}
  <2>1. \A c \in l.coinbases : c.height \in Nat
    BY <1>1 DEF Sound, LedgerState, CoinbaseCredit
  <2> QED
    BY <1>1, <1>2, <2>1, ParamAssumption DEF NoneDue
<1> HIDE DEF due
<1>6. w.mature \in [Address -> Uint]
  BY <1>2 DEF Sound, LedgerState
<1>7. ASSUME NEW a \in Address
      PROVE  mat[a] = w.mature[a]
  <2>1. DueCredit(due, a) = 0
    BY <1>5, FS_EmptySet, DueCreditNone
  <2>2. w.mature[a] \in Nat
    BY <1>6, MaxUintAssumption DEF Uint
  <2> QED
    BY <2>1, <2>2
<1>8. mat = w.mature
  BY <1>6, <1>7
<1> HIDE DEF mat, left, Fits
<1>9. /\ b.confirmed = w.confirmed /\ b.mature = mat /\ b.nonce = w.nonce
      /\ b.stakes = w.stakes /\ b.defs = w.defs /\ b.token = w.token
      /\ b.native = w.native /\ b.height = w.height
  BY <1>2 DEF Sound, LedgerState
<1> QED
  BY <1>2, <1>3, <1>4, <1>8, <1>9, <1>10 DEF w

\* The opened candidate is the cloned ledger with the subsidy.
LEMMA OpenedPair ==
    ASSUME NEW l, Good(l), NoneDue(l), NEW miner \in Address
    PROVE  /\ CanOpen(l, miner) => Pair(OpenedLedger(l, miner), Clone(l), miner)
           /\ Coin(l) + BlockSubsidy <= MaxUint => CanOpen(l, miner)
<1> DEFINE b == BeginBlock(l, l.height + 1)
           w == Clone(l)
           d == ApplyCoinbaseAtHeight(b, miner, BlockSubsidy, l.height + 1)
<1>1. Sound(l) /\ Dated(l, l.height)
  BY DEF Good
<1>2. /\ Sound(b) /\ Sound(w)
      /\ b.confirmed = w.confirmed /\ b.mature = w.mature /\ b.nonce = w.nonce
      /\ b.stakes = w.stakes /\ b.defs = w.defs /\ b.token = w.token
      /\ b.native = w.native /\ b.height = w.height
  BY NothingMatures
<1>3. OpenedLedger(l, miner) = d /\ CanOpen(l, miner) = CanApplyCoinbase(b, miner, BlockSubsidy)
  BY DEF OpenedLedger, CanOpen
<1>4. CanOpen(l, miner) => Sound(d)
  BY <1>1, <1>3, OpenedLedgerSound
<1>5. Coin(w) = Coin(l)
  BY <1>1, CloneSound DEF Coin
<1> HIDE DEF b, w
<1>6. /\ d.confirmed = [b.confirmed EXCEPT ![miner] = @ + BlockSubsidy]
      /\ d.native = [b.native EXCEPT ![miner] = @ + BlockSubsidy]
      /\ d.mature = b.mature /\ d.nonce = b.nonce /\ d.stakes = b.stakes /\ d.defs = b.defs
      /\ d.token = b.token /\ d.height = b.height
  BY <1>2 DEF ApplyCoinbaseAtHeight, Sound, LedgerState
<1>7. /\ w.confirmed \in [Address -> Nat] /\ w.native \in [Holder -> Nat] /\ miner \in Holder
      /\ BlockSubsidy \in Nat /\ w.native[miner] = w.confirmed[miner]
  BY <1>2, ParamAssumption, MaxUintAssumption DEF Sound, LedgerState, Uint, Holder, Mirrored
<1> HIDE DEF d
<1>8. \A a \in Address : d.confirmed[a] = w.confirmed[a] + Extra(a, miner)
  BY <1>2, <1>6, <1>7 DEF Extra
<1>9. \A a \in Holder : d.native[a] = w.native[a] + Extra(a, miner)
  BY <1>2, <1>6, <1>7 DEF Extra
<1>10. Ahead(d, w, miner)
  BY <1>2, <1>6, <1>8, <1>9 DEF Ahead
<1>11. Coin(l) + BlockSubsidy <= MaxUint => CanApplyCoinbase(b, miner, BlockSubsidy)
  BY <1>2, <1>5, <1>7, CoinRoom DEF Roomy, CanApplyCoinbase
<1> QED
  BY <1>2, <1>3, <1>4, <1>10, <1>11 DEF Pair, w
---------------------------------------------------------------------------
\* The candidate of a miner before its fees are settled, after some transactions.
Candidated(l, miner, txs) == ApplyTransactions(Opened(l, miner), txs)

\* w is the work ledger of l after the chosen transactions, and the candidate
\* of every miner is ahead of it.
Selected(l, w, txs) ==
    /\ ApplyTransactions(Ok(Clone(l)), txs) = Ok(w)
    /\ \A miner \in Address :
        LET q == Candidated(l, miner, txs)
        IN  /\ q.ok => Pair(q.ledger, w, miner)
            /\ Coin(l) + BlockSubsidy <= MaxUint => q.ok

\* The loops over no transaction and over one more.
LEMMA LoopSteps ==
    ASSUME NEW start, NEW txs \in Seq(Transaction), NEW tx \in Transaction
    PROVE  /\ ApplyTransactions(start, <<>>) = start
           /\ ApplyTransactions(start, Append(txs, tx)) = ApplyTx(ApplyTransactions(start, txs), tx)
  BY TransactionLoop, TxRun!RunEmpty, TxRun!RunAppend

\* The work ledger is sound, holds what it owes and issues nothing.
LEMMA SelectedFacts ==
    ASSUME NEW l, Good(l), NEW txs \in Seq(Transaction), NEW w, Selected(l, w, txs)
    PROVE  Sound(w) /\ Backed(w) /\ w.height = l.height /\ Coin(w) <= Coin(l)
<1>1. Sound(l) /\ Backed(l) /\ Dated(l, l.height) /\ l.height \in Nat /\ Coin(l) \in Nat
  BY CoinType DEF Good, Sound, LedgerState
<1>2. /\ Sound(Clone(l)) /\ Backed(Clone(l)) /\ Coin(Clone(l)) = Coin(l)
      /\ Clone(l).height = l.height /\ Clone(l).coinbases = l.coinbases
  BY <1>1, CloneSound, CloneTotals DEF SameClock
<1>3. Ok(Clone(l)) \in InBlock(l.height, Coin(l))
  <2>1. Clone(l) \in LedgerState
    BY <1>2 DEF Sound
  <2>2. Ok(Clone(l)) \in Result /\ Ok(Clone(l)).ledger = Clone(l)
    BY <2>1, ResultForm
  <2>3. \A d \in l.coinbases : d.height <= l.height + 1
    BY <1>1 DEF Dated, Sound, LedgerState, CoinbaseCredit
  <2>4. Dated(Clone(l), l.height + 1)
    BY <1>1, <1>2, <2>3 DEF Dated
  <2>5. Coin(Clone(l)) <= Coin(l)
    BY <1>1, <1>2
  <2> QED
    BY <1>2, <2>2, <2>4, <2>5 DEF InBlock
<1>4. ApplyTransactions(Ok(Clone(l)), txs) \in InBlock(l.height, Coin(l))
  BY <1>1, <1>3, ApplyTransactionsInBlock
<1>5. Ok(w) \in InBlock(l.height, Coin(l))
  BY <1>4 DEF Selected
<1>6. Ok(w).ok /\ Ok(w).ledger = w
  BY DEF Ok
<1> QED
  BY <1>5, <1>6 DEF InBlock

\* Mining starts from a clone of the tip ledger.
LEMMA SelectedStart ==
    ASSUME NEW l, Good(l), NoneDue(l)
    PROVE  Selected(l, Clone(l), <<>>)
<1>1. \A start : ApplyTransactions(start, <<>>) = start
  BY TransactionLoop, TxRun!RunEmpty
<1>2. ASSUME NEW miner \in Address
      PROVE  LET q == Opened(l, miner)
             IN  /\ q.ok => Pair(q.ledger, Clone(l), miner)
                 /\ Coin(l) + BlockSubsidy <= MaxUint => q.ok
  <2>1. CASE CanOpen(l, miner)
    <3>1. Opened(l, miner).ok /\ Opened(l, miner).ledger = OpenedLedger(l, miner)
      BY <2>1 DEF Opened, Ok
    <3> QED
      BY <2>1, <3>1, OpenedPair
  <2>2. CASE ~CanOpen(l, miner)
    <3>1. ~Opened(l, miner).ok
      BY <2>2 DEF Opened, Err
    <3> QED
      BY <2>2, <3>1, OpenedPair
  <2> QED
    BY <2>1, <2>2
<1> QED
  BY <1>1, <1>2 DEF Selected, Candidated

\* A transaction that the work ledger executes is chosen.
LEMMA SelectedTake ==
    ASSUME NEW l, Good(l), NEW txs \in Seq(Transaction), NEW w, Selected(l, w, txs),
           NEW tx \in Transaction, ApplyTransactionAtHeight(w, tx, l.height + 1).ok
    PROVE  Selected(l, ApplyTransactionAtHeight(w, tx, l.height + 1).ledger, Append(txs, tx))
<1> DEFINE h == l.height + 1
           r == ApplyTransactionAtHeight(w, tx, h)
           v == r.ledger
<1>1. Sound(w) /\ Backed(w) /\ w.height = l.height /\ Coin(w) <= Coin(l)
  BY SelectedFacts
<1>2. Coin(l) \in Nat /\ Coin(w) \in Nat /\ h \in Nat /\ BlockSubsidy \in Nat /\ MaxUint \in Nat
  <2>1. h \in Nat /\ BlockSubsidy \in Nat /\ MaxUint \in Nat
    BY ParamAssumption, MaxUintAssumption DEF Good, Sound, LedgerState, Uint
  <2>2. Sound(l)
    BY DEF Good
  <2> QED
    BY <1>1, <2>1, <2>2, CoinType
<1>3. r = Ok(v)
  <2>1. PICK m : r = Ok(m) \/ r = Err(m)
    BY ApplyTransactionForm
  <2> QED
    BY <2>1 DEF Ok, Err
<1>4. ApplyTransactions(Ok(Clone(l)), Append(txs, tx)) = Ok(v)
  <2>1. ApplyTransactions(Ok(Clone(l)), Append(txs, tx)) = ApplyTx(Ok(w), tx)
    BY LoopSteps DEF Selected
  <2>2. ApplyTx(Ok(w), tx) = r
    BY <1>1 DEF ApplyTx, Ok
  <2> QED
    BY <1>3, <2>1, <2>2
<1>5. Sound(v) /\ Executed(w, tx, v)
  BY <1>1, <1>2, ApplyTransactionSound, ApplyTransactionTotals
<1>6. Coin(v) <= Coin(l)
  <2>1. Burnt(tx) \in Nat
    BY MaxUintAssumption DEF Burnt, Transaction, Uint
  <2>2. Coin(v) + Burnt(tx) = Coin(w) /\ Coin(v) \in Nat
    BY <1>5, CoinType DEF Executed
  <2> QED
    BY <1>1, <1>2, <2>1, <2>2
<1>7. ASSUME NEW miner \in Address
      PROVE  LET q == Candidated(l, miner, Append(txs, tx))
             IN  /\ q.ok => Pair(q.ledger, v, miner)
                 /\ Coin(l) + BlockSubsidy <= MaxUint => q.ok
  <2> DEFINE p == Candidated(l, miner, txs)
             q == ApplyTransactionAtHeight(p.ledger, tx, h)
  <2>1. Candidated(l, miner, Append(txs, tx)) = ApplyTx(p, tx)
    BY LoopSteps DEF Candidated
  <2>2. /\ p.ok => Pair(p.ledger, w, miner)
        /\ Coin(l) + BlockSubsidy <= MaxUint => p.ok
    BY DEF Selected
  <2> HIDE DEF p
  <2>3. CASE ~p.ok
    <3>1. ApplyTx(p, tx) = p
      BY <2>3 DEF ApplyTx
    <3> QED
      BY <2>1, <2>2, <2>3, <3>1
  <2>4. CASE p.ok
    <3>1. p.ledger.height = l.height
      BY <1>1, <2>2, <2>4 DEF Pair, Ahead
    <3>2. ApplyTx(p, tx) = q
      BY <2>4, <3>1 DEF ApplyTx
    <3>3. /\ q.ok => Pair(q.ledger, v, miner)
          /\ Roomy(v) => q.ok
      BY <1>2, <2>2, <2>4, PairTransaction
    <3>4. Coin(l) + BlockSubsidy <= MaxUint => Roomy(v)
      <4>1. Coin(v) \in Nat
        BY <1>5, CoinType
      <4> QED
        BY <1>2, <1>5, <1>6, <4>1, CoinRoom
    <3> HIDE DEF q, v
    <3> QED
      BY <2>1, <3>2, <3>3, <3>4
  <2> QED
    BY <2>3, <2>4
<1> QED
  BY <1>4, <1>7 DEF Selected

\* A candidate that is ahead of the work ledger can pay out the fees, unless
\* the subsidy makes a balance overflow.
LEMMA FeesFit ==
    ASSUME NEW c, NEW w, NEW miner, Pair(c, w, miner), Backed(w),
           Coin(w) + BlockSubsidy <= MaxUint
    PROVE  CanSettleFees(c, miner)
<1> DEFINE pool == w.native[FeeCollector]
<1>1. Sound(w) /\ miner \in Address
  BY DEF Pair
<1>2. /\ c.confirmed[miner] = w.confirmed[miner] + Extra(miner, miner)
      /\ c.native[miner] = w.native[miner] + Extra(miner, miner)
      /\ c.mature[miner] = w.mature[miner] /\ w.native[miner] = w.confirmed[miner]
      /\ c.native[FeeCollector] = pool
      /\ w.native[miner] \in Nat /\ w.mature[miner] \in Nat /\ Extra(miner, miner) \in Nat
      /\ Extra(miner, miner) <= BlockSubsidy /\ BlockSubsidy \in Nat /\ MaxUint \in Nat
  BY <1>1, PairTypes
<1>3. w.native[miner] + pool <= Coin(w)
  BY <1>1, TwoHolders
<1>4. pool \in Nat /\ Coin(w) \in Nat
  <2>1. pool \in Nat
    BY <1>1, MaxUintAssumption DEF Sound, LedgerState, Holder, Uint
  <2> QED
    BY <1>1, <2>1, CoinType
<1>5. w.mature[miner] <= w.confirmed[miner]
  <2>1. w.confirmed[miner] = w.mature[miner] + DueCredit(w.coinbases, miner)
    BY <1>1 DEF Backed, CoinbasesBacked
  <2>2. DueCredit(w.coinbases, miner) \in Nat
    BY <1>1, DueCreditType DEF Sound, LedgerState
  <2> QED
    BY <1>2, <2>1, <2>2
<1>6. /\ c.confirmed[miner] + pool <= MaxUint
      /\ c.mature[miner] + pool <= MaxUint
      /\ c.native[miner] + pool <= MaxUint
  BY <1>2, <1>3, <1>4, <1>5
<1> QED
  BY <1>2, <1>6 DEF CanSettleFees, CanReceiveNative

\* The tail of applyBlock pays the pool out and matures what is due.
LEMMA FinishBlockNative ==
    ASSUME NEW l, Sound(l), Backed(l), NEW miner \in Address, NEW height \in Nat,
           l.height <= height, CanSettleFees(l, miner)
    PROVE  LET m == FinishBlock(l, miner, height)
           IN  /\ NoneDue(m)
               /\ \A a \in Address :
                    m.native[a] = l.native[a] + IF a = miner THEN l.native[FeeCollector] ELSE 0
<1> DEFINE pool == l.native[FeeCollector]
           z == [l EXCEPT !.native[FeeCollector] = 0]
           s == SettleFees(l, miner)
           t == [s EXCEPT !.height = height]
           m == MatureCoinbases(t, height)
<1>1. Sound(s)
  BY SettleFeesSound
<1>2. Backed(s) /\ Coin(s) = Coin(l) /\ SameRecords(l, s) /\ s.nonce = l.nonce
  BY SettleFeesTotals
<1>3. FinishBlock(l, miner, height) = m
  BY DEF FinishBlock
<1>4. s.native = [[l.native EXCEPT ![FeeCollector] = 0] EXCEPT ![miner] = @ + pool]
  <2>1. s = ReceiveNative(z, miner, pool)
    BY DEF SettleFees
  <2>2. z.native = [l.native EXCEPT ![FeeCollector] = 0]
    BY DEF Sound, LedgerState
  <2>3. ReceiveNative(z, miner, pool).native = [z.native EXCEPT ![miner] = @ + pool]
    BY DEF ReceiveNative, Sound, LedgerState
  <2> QED
    BY <2>1, <2>2, <2>3
<1> HIDE DEF s
<1>5. Sound(t) /\ Backed(t)
  BY <1>1, <1>2, ClockTotals DEF SameRecords
<1>6. t.native = s.native /\ t.coinbases = s.coinbases /\ t.height = height
  BY <1>1 DEF Sound, LedgerState
<1> HIDE DEF t
<1>7. /\ m.coinbases = {c \in t.coinbases : c.height + Maturity > height}
      /\ m.native = t.native /\ m.height = t.height
  BY <1>5, MatureCoinbasesTotals, MatureCoinbasesSound
<1> HIDE DEF m
<1>8. NoneDue(m)
  BY <1>6, <1>7 DEF NoneDue
<1>9. ASSUME NEW a \in Address
      PROVE  m.native[a] = l.native[a] + IF a = miner THEN pool ELSE 0
  <2>1. /\ l.native \in [Holder -> Nat] /\ a \in Holder /\ miner \in Holder
        /\ FeeCollector # a /\ FeeCollector # miner /\ FeeCollector \in Holder
    BY AddressAssumption, MaxUintAssumption DEF Sound, LedgerState, Holder, Uint
  <2> QED
    BY <1>4, <1>6, <1>7, <2>1
<1> QED
  BY <1>3, <1>8, <1>9

\* The candidate block of the chosen transactions.
LEMMA CandidateFacts ==
    ASSUME NEW l, Good(l), NEW txs \in Seq(Transaction), NEW w, Selected(l, w, txs),
           NEW miner \in Address
    PROVE  LET r == ApplyBlock(Clone(l), [to |-> miner, miner |-> miner, txs |-> txs])
           IN  /\ Coin(l) + BlockSubsidy <= MaxUint => r.ok
               /\ r.ok => /\ Good(r.ledger) /\ NoneDue(r.ledger)
                          /\ \A a \in Address :
                                r.ledger.native[a] = w.native[a]
                                    + IF a = miner THEN BlockSubsidy + w.native[FeeCollector] ELSE 0
<1> DEFINE block == [to |-> miner, miner |-> miner, txs |-> txs]
           q == Candidated(l, miner, txs)
           c == q.ledger
           h == l.height + 1
           m == FinishBlock(c, miner, h)
           r == ApplyBlock(l, block)
<1>1. /\ block \in Block(Seq(Transaction))
      /\ block.to = miner /\ block.miner = miner /\ block.txs = txs
  BY DEF Block
<1>2. Sound(l) /\ ApplyBlock(Clone(l), block) = r
  BY ApplyBlockClone DEF Good
<1>3. r = IF q.ok /\ CanSettleFees(c, miner) THEN Ok(m) ELSE Err(Clone(l))
  BY <1>1, ApplyBlockForm DEF Candidated
<1>4. r.ok => Good(r.ledger)
  BY <1>1, ApplyBlockGood
<1>5. Sound(w) /\ Backed(w) /\ w.height = l.height /\ Coin(w) <= Coin(l) /\ l.height \in Nat
  BY <1>2, SelectedFacts DEF Sound, LedgerState
<1>6. /\ q.ok => Pair(c, w, miner)
      /\ Coin(l) + BlockSubsidy <= MaxUint => q.ok
  BY DEF Selected
<1>7. q.ok => Sound(c) /\ Backed(c) /\ c.height = l.height
  <2>1. Opened(l, miner) \in InBlock(l.height, Coin(l) + BlockSubsidy)
    BY OpenedInBlock
  <2>2. Coin(l) + BlockSubsidy \in Nat
    BY <1>2, CoinType, ParamAssumption, MaxUintAssumption DEF Uint
  <2>3. q \in InBlock(l.height, Coin(l) + BlockSubsidy)
    BY <1>5, <2>1, <2>2, ApplyTransactionsInBlock DEF Candidated
  <2> QED
    BY <2>3 DEF InBlock
<1> HIDE DEF q, c, r, block
<1>8. Coin(l) + BlockSubsidy <= MaxUint => r.ok
  <2> SUFFICES ASSUME Coin(l) + BlockSubsidy <= MaxUint
               PROVE  r.ok
    OBVIOUS
  <2>1. Coin(w) + BlockSubsidy <= MaxUint
    BY <1>2, <1>5, CoinType, ParamAssumption, MaxUintAssumption DEF Uint
  <2>2. CanSettleFees(c, miner)
    BY <1>5, <1>6, <2>1, FeesFit
  <2> QED
    BY <1>3, <1>6, <2>2 DEF Ok
<1>9. ASSUME r.ok
      PROVE  /\ NoneDue(r.ledger)
             /\ \A a \in Address :
                    r.ledger.native[a] = w.native[a]
                        + IF a = miner THEN BlockSubsidy + w.native[FeeCollector] ELSE 0
  <2>1. q.ok /\ CanSettleFees(c, miner) /\ r.ledger = m
    BY <1>3, <1>9 DEF Ok, Err
  <2>2. h \in Nat /\ c.height <= h
    BY <1>5, <1>7, <2>1
  <2>3. /\ NoneDue(m)
        /\ \A a \in Address :
              m.native[a] = c.native[a] + IF a = miner THEN c.native[FeeCollector] ELSE 0
    BY <1>7, <2>1, <2>2, FinishBlockNative
  <2> HIDE DEF m, h
  <2>4. ASSUME NEW a \in Address
        PROVE  m.native[a] = w.native[a]
                   + IF a = miner THEN BlockSubsidy + w.native[FeeCollector] ELSE 0
    <3>1. /\ c.native[a] = w.native[a] + Extra(a, miner) /\ w.native[a] \in Nat
          /\ c.native[FeeCollector] = w.native[FeeCollector] /\ BlockSubsidy \in Nat
      BY <1>6, <2>1, PairTypes
    <3>2. w.native[FeeCollector] \in Nat
      BY <1>5, MaxUintAssumption DEF Sound, LedgerState, Holder, Uint
    <3> QED
      BY <2>3, <3>1, <3>2 DEF Extra
  <2> QED
    BY <2>1, <2>3, <2>4
<1> QED
  BY <1>2, <1>4, <1>8, <1>9 DEF block
---------------------------------------------------------------------------
\* The inductive invariant: the tip ledger is good and owes no reward that is
\* due, and the work ledger is followed by the candidate of every miner.
ProductionInv ==
    /\ Good(ledger)
    /\ NoneDue(ledger)
    /\ Sound(work)
    /\ chosen \in Seq(Transactions)
    /\ Len(chosen) <= MaxTxCount
    /\ mining \in BOOLEAN
    /\ mining => Selected(ledger, work, chosen)

\* A node starts with the ledger of genesis.
LEMMA InitProduction == Init => ProductionInv
<1> SUFFICES ASSUME Init
             PROVE  ProductionInv
  OBVIOUS
<1>1. ledger = NewMature /\ work = NewMature /\ chosen = <<>> /\ mining = FALSE
  BY DEF Init
<1>2. /\ Sound(NewMature) /\ Backed(NewMature) /\ NewMature.height = 0
      /\ NewMature.native[FeeCollector] = 0 /\ Dated(NewMature, NewMature.height)
  BY NewMatureSound, NewMatureTotals, NewMatureFacts
<1>3. NoneDue(NewMature)
  BY DEF NoneDue, NewMature
<1>4. <<>> \in Seq(Transactions) /\ Len(<<>>) <= MaxTxCount
  BY ProductionAssumption
<1> QED
  BY <1>1, <1>2, <1>3, <1>4 DEF ProductionInv, Good

\* Chosen transactions are transactions.
LEMMA ChosenTransactions ==
    ASSUME chosen \in Seq(Transactions)
    PROVE  chosen \in Seq(Transaction)
  BY ProductionAssumption

\* A transaction that fails leaves the work ledger as it was.
LEMMA SkipsKeepWork ==
    ASSUME ProductionInv, mining, NEW tx \in Transaction
    PROVE  /\ Tried(tx).ok => Sound(Tried(tx).ledger)
           /\ ~Tried(tx).ok => Tried(tx).ledger = work
<1>1. Sound(work) /\ ledger.height + 1 \in Nat
  BY DEF ProductionInv, Good, Sound, LedgerState
<1> QED
  BY <1>1, ApplyTransactionSound DEF Tried

\* The end of an attempt clears the work of the miner.
LEMMA DoneWork ==
    ASSUME Done
    PROVE  /\ mining' = FALSE /\ Sound(work') /\ chosen' \in Seq(Transactions)
           /\ Len(chosen') <= MaxTxCount
<1>1. <<>> \in Seq(Transactions) /\ Len(<<>>) <= MaxTxCount
  BY ProductionAssumption
<1> QED
  BY <1>1, NewMatureSound DEF Done

\* Every step of the miner keeps the invariant.
LEMMA NextProduction == ProductionInv /\ [Next]_vars => ProductionInv'
<1> SUFFICES ASSUME ProductionInv, [Next]_vars
             PROVE  ProductionInv'
  OBVIOUS
<1>1. /\ Good(ledger) /\ NoneDue(ledger) /\ Sound(work) /\ chosen \in Seq(Transactions)
      /\ Len(chosen) <= MaxTxCount /\ mining \in BOOLEAN /\ chosen \in Seq(Transaction)
  BY ChosenTransactions DEF ProductionInv
<1>2. ASSUME StartMining
      PROVE  ProductionInv'
  <2>1. ledger' = ledger /\ work' = Clone(ledger) /\ chosen' = <<>> /\ mining' = TRUE
    BY <1>2 DEF StartMining
  <2>2. Sound(Clone(ledger))
    BY <1>1, CloneSound DEF Good
  <2>3. Selected(ledger, Clone(ledger), <<>>)
    BY <1>1, SelectedStart
  <2>4. <<>> \in Seq(Transactions) /\ Len(<<>>) <= MaxTxCount
    BY ProductionAssumption
  <2> QED
    BY <1>1, <2>1, <2>2, <2>3, <2>4 DEF ProductionInv
<1>3. ASSUME NEW tx \in Transactions, TakeTransaction(tx)
      PROVE  ProductionInv'
  <2>1. /\ mining /\ Len(chosen) < MaxTxCount /\ Tried(tx).ok /\ work' = Tried(tx).ledger
        /\ chosen' = Append(chosen, tx) /\ ledger' = ledger /\ mining' = mining
    BY <1>3 DEF TakeTransaction
  <2>2. tx \in Transaction
    BY ProductionAssumption
  <2>3. Sound(work')
    BY <2>1, <2>2, SkipsKeepWork
  <2>4. Selected(ledger, work, chosen)
    BY <2>1 DEF ProductionInv
  <2>5. Selected(ledger, work', chosen')
    BY <1>1, <2>1, <2>2, <2>4, SelectedTake DEF Tried
  <2>6. chosen' \in Seq(Transactions) /\ Len(chosen') = Len(chosen) + 1
    BY <1>1, <2>1
  <2>7. Len(chosen') <= MaxTxCount
    BY <1>1, <2>1, <2>6, ProductionAssumption
  <2> QED
    BY <1>1, <2>1, <2>3, <2>5, <2>6, <2>7 DEF ProductionInv
<1>4. ASSUME NEW tx \in Transactions, SkipTransaction(tx)
      PROVE  ProductionInv'
  <2>1. /\ mining /\ ~Tried(tx).ok /\ work' = Tried(tx).ledger
        /\ chosen' = chosen /\ ledger' = ledger /\ mining' = mining
    BY <1>4 DEF SkipTransaction
  <2>2. tx \in Transaction
    BY ProductionAssumption
  <2>3. work' = work
    BY <2>1, <2>2, SkipsKeepWork
  <2> QED
    BY <2>1, <2>3 DEF ProductionInv
<1>5. ASSUME NEW miner \in Address, SealBlock(miner)
      PROVE  ProductionInv'
  <2>1. mining /\ Candidate(miner).ok /\ ledger' = Candidate(miner).ledger /\ Done
    BY <1>5 DEF SealBlock
  <2>2. Selected(ledger, work, chosen)
    BY <2>1 DEF ProductionInv
  <2>3. Good(Candidate(miner).ledger) /\ NoneDue(Candidate(miner).ledger)
    BY <1>1, <2>1, <2>2, CandidateFacts DEF Candidate, MinedBlock
  <2> QED
    BY <2>1, <2>3, DoneWork DEF ProductionInv
<1>6. ASSUME NEW miner \in Address, AbandonBlock(miner)
      PROVE  ProductionInv'
  <2>1. ledger' = ledger /\ Done
    BY <1>6 DEF AbandonBlock
  <2> QED
    BY <1>1, <2>1, DoneWork DEF ProductionInv
<1>7. ASSUME UNCHANGED vars
      PROVE  ProductionInv'
  BY <1>7 DEF ProductionInv, vars
<1> QED
  BY <1>2, <1>3, <1>4, <1>5, <1>6, <1>7 DEF Next

\* While a block is being built, the work ledger is the tip ledger after the
\* chosen transactions, the candidate pays the fees the miner counted on, and
\* it applies as long as the subsidy fits.
LEMMA ProductionRight == ProductionInv => MinedBlockIsRight
<1> SUFFICES ASSUME ProductionInv
             PROVE  MinedBlockIsRight
  OBVIOUS
<1>1. /\ Good(ledger) /\ Sound(ledger) /\ Sound(work) /\ chosen \in Seq(Transactions)
      /\ Len(chosen) <= MaxTxCount /\ mining \in BOOLEAN /\ chosen \in Seq(Transaction)
  BY ChosenTransactions DEF ProductionInv, Good
<1>2. TypeOK
  BY <1>1 DEF TypeOK, Sound
<1>3. ASSUME mining, NEW miner \in Address
      PROVE  /\ SumOf(ledger.native) + BlockSubsidy <= MaxUint => Candidate(miner).ok
             /\ Candidate(miner).ok =>
                    \A a \in Address :
                        Candidate(miner).ledger.native[a] = work.native[a]
                            + IF a = miner THEN BlockSubsidy + work.native[FeeCollector] ELSE 0
  <2>1. Selected(ledger, work, chosen)
    BY <1>3 DEF ProductionInv
  <2> QED
    BY <1>1, <2>1, CandidateFacts DEF Candidate, MinedBlock, Coin
<1>4. MinedBlockApplies
  BY <1>3 DEF MinedBlockApplies
<1>5. FeesAreCollected
  BY <1>3 DEF FeesAreCollected
<1>6. SkipsLeaveNoTrace
  BY DEF ProductionInv, Selected, SkipsLeaveNoTrace
<1> QED
  BY <1>2, <1>4, <1>5, <1>6 DEF MinedBlockIsRight

\* MineBlockWithContextAndNetwork, for any pending transactions and any order
\* of trying them: the block that the miner selects without its coinbase always
\* applies behind it, and pays the fees the miner counted on.
THEOREM MinedBlockRight == Spec => []MinedBlockIsRight
<1>1. Init => ProductionInv
  BY InitProduction
<1>2. ProductionInv /\ [Next]_vars => ProductionInv'
  BY NextProduction
<1>3. ProductionInv => MinedBlockIsRight
  BY ProductionRight
<1> QED
  BY <1>1, <1>2, <1>3, PTL DEF Spec
===========================================================================
