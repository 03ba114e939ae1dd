------------------------ MODULE NodeMempoolProofs -------------------------
(***************************************************************************)
(* Proofs about the mempool: what its operators return for every pool, and *)
(* the invariant of the handlers that share the mempool file and the chain *)
(* database, for any number of workers.                                    *)
(*                                                                         *)
(* The invariant has three parts.  TypeInv says what each worker works on  *)
(* and which locks it holds, whatever handlers run together.  PeerInv and  *)
(* ClientInv say what keeps the pool sound on a node whose transactions    *)
(* come from one source: who is admitting holds the database (or the mutex *)
(* of the submissions) since its checks, so the pool only shrinks before   *)
(* it adds; what a revalidation is about to save is what it would decide   *)
(* now; and a confirmed transaction has a worker that is about to remove   *)
(* it.                                                                     *)
(***************************************************************************)
EXTENDS Selection, LedgerProofs

KeepRun == INSTANCE Iteration WITH Step <- KeepMember
GasRun == INSTANCE Iteration WITH Step <- AddGas

\* The first k elements of a sequence.
First(s, k) == {s[j] : j \in 1..k}

\* First grows one element at a time up to the set of all elements.
LEMMA FirstFacts ==
    ASSUME NEW S, NEW s \in Seq(S)
    PROVE  /\ First(s, 0) = {}
           /\ First(s, Len(s)) = ToSet(s)
           /\ \A k \in 1..Len(s) : First(s, k) = First(s, k - 1) \cup {s[k]}
           /\ IsInjective(s) => \A k \in 1..Len(s) : s[k] \notin First(s, k - 1)
<1>1. Len(s) \in Nat /\ DOMAIN s = 1..Len(s)
  OBVIOUS
<1>2. First(s, 0) = {} /\ First(s, Len(s)) = ToSet(s)
  BY <1>1 DEF First, ToSet
<1>3. ASSUME NEW k \in 1..Len(s)
      PROVE  First(s, k) = First(s, k - 1) \cup {s[k]}
  <2>1. k \in Nat /\ 1..k = (1..(k - 1)) \cup {k}
    BY <1>1
  <2> QED
    BY <2>1 DEF First
<1>4. ASSUME IsInjective(s), NEW k \in 1..Len(s), s[k] \in First(s, k - 1)
      PROVE  FALSE
  <2>1. PICK j \in 1..(k - 1) : s[k] = s[j]
    BY <1>4 DEF First
  <2>2. j \in 1..Len(s) /\ k \in 1..Len(s) /\ j # k
    BY <1>1, <2>1
  <2> QED
    BY <1>1, <1>4, <2>1, <2>2 DEF IsInjective
<1> QED
  BY <1>2, <1>3, <1>4

\* What appending an element does to the set of elements.
LEMMA AppendFacts ==
    ASSUME NEW S, NEW q \in Seq(S), NEW x \in S
    PROVE  /\ Append(q, x) \in Seq(S)
           /\ ToSet(Append(q, x)) = ToSet(q) \cup {x}
           /\ IsInjective(q) /\ x \notin ToSet(q) => IsInjective(Append(q, x))
<1> DEFINE t == Append(q, x)
           n == Len(q)
<1>1. /\ t \in Seq(S) /\ n \in Nat /\ DOMAIN q = 1..n /\ DOMAIN t = 1..(n + 1)
      /\ t[n + 1] = x /\ \A k \in 1..n : t[k] = q[k]
  OBVIOUS
<1> HIDE DEF t, n
<1>2. 1..(n + 1) = (1..n) \cup {n + 1}
  BY <1>1
<1>3. ToSet(t) = ToSet(q) \cup {x}
  BY <1>1, <1>2 DEF ToSet
<1>4. ASSUME IsInjective(q), x \notin ToSet(q)
      PROVE  IsInjective(t)
  <2>1. ASSUME NEW i \in 1..(n + 1), NEW j \in 1..(n + 1), t[i] = t[j]
        PROVE  i = j
    <3>1. \A k \in 1..n : q[k] # x
      BY <1>1, <1>4 DEF ToSet
    <3>2. CASE i \in 1..n /\ j \in 1..n
      BY <1>1, <1>4, <2>1, <3>2 DEF IsInjective
    <3>3. CASE i = n + 1 \/ j = n + 1
      BY <1>1, <1>2, <2>1, <3>1, <3>3
    <3> QED
      BY <1>2, <3>2, <3>3
  <2> QED
    BY <1>1, <2>1 DEF IsInjective
<1> QED
  BY <1>1, <1>3, <1>4 DEF t

\* Among gives those elements of a sequence that are in the set.
LEMMA AmongFacts ==
    ASSUME NEW S, NEW s \in Seq(S), NEW U
    PROVE  LET q == Among(s, U)
           IN  /\ q \in Seq(S)
               /\ ToSet(q) = ToSet(s) \cap U
               /\ IsInjective(s) => IsInjective(q)
<1> DEFINE Part(k) == {q \in Seq(S) : /\ ToSet(q) = First(s, k) \cap U
                                      /\ IsInjective(s) => IsInjective(q)}
           T == [k \in Nat |-> {[set |-> U, txs |-> q] : q \in Part(k)}]
           start == [set |-> U, txs |-> <<>>]
<1>1. Len(s) \in Nat /\ \A k \in 1..Len(s) : s[k] \in S
  OBVIOUS
<1>2. start \in T[0]
  <2>1. <<>> \in Seq(S) /\ ToSet(<<>>) = {} /\ IsInjective(<<>>)
    BY DEF ToSet, IsInjective
  <2>2. <<>> \in Part(0)
    BY <2>1, FirstFacts
  <2> HIDE DEF Part
  <2> QED
    BY <2>2
<1>3. \A k \in 1..Len(s) : \A r \in T[k - 1] : KeepMember(r, s[k]) \in T[k]
  <2> SUFFICES ASSUME NEW k \in 1..Len(s), NEW r \in T[k - 1]
               PROVE  KeepMember(r, s[k]) \in T[k]
    OBVIOUS
  <2>1. k \in Nat /\ k - 1 \in Nat /\ s[k] \in S
    BY <1>1
  <2>2. PICK q \in Part(k - 1) : r = [set |-> U, txs |-> q]
    <3> HIDE DEF Part
    <3> QED
      BY <2>1
  <2>3. /\ First(s, k) = First(s, k - 1) \cup {s[k]}
        /\ IsInjective(s) => s[k] \notin First(s, k - 1)
    BY FirstFacts
  <2>4. CASE s[k] \in U
    <3>1. KeepMember(r, s[k]) = [set |-> U, txs |-> Append(q, s[k])]
      BY <2>2, <2>4 DEF KeepMember
    <3>2. /\ Append(q, s[k]) \in Seq(S)
          /\ ToSet(Append(q, s[k])) = ToSet(q) \cup {s[k]}
          /\ IsInjective(q) /\ s[k] \notin ToSet(q) => IsInjective(Append(q, s[k]))
      BY <2>1, AppendFacts
    <3>3. Append(q, s[k]) \in Part(k)
      BY <2>3, <2>4, <3>2
    <3> HIDE DEF Part
    <3> QED
      BY <2>1, <3>1, <3>3
  <2>5. CASE s[k] \notin U
    <3>1. KeepMember(r, s[k]) = [set |-> U, txs |-> q]
      BY <2>2, <2>5 DEF KeepMember
    <3>2. q \in Part(k)
      BY <2>3, <2>5
    <3> HIDE DEF Part
    <3> QED
      BY <2>1, <3>1, <3>2
  <2> QED
    BY <2>4, <2>5
<1> HIDE DEF T
<1>4. KeepRun!Run(start, s) \in T[Len(s)]
  BY <1>2, <1>3, KeepRun!RunKeeps
<1>5. Among(s, U) = KeepRun!Run(start, s).txs
  BY DEF Among, Loop, KeepRun!Run
<1>6. Among(s, U) \in Part(Len(s))
  <2> HIDE DEF Part
  <2>1. PICK q \in Part(Len(s)) : KeepRun!Run(start, s) = [set |-> U, txs |-> q]
    BY <1>1, <1>4 DEF T
  <2> QED
    BY <1>5, <2>1
<1> QED
  BY <1>6, FirstFacts
---------------------------------------------------------------------------
\* A sequence has no more elements than places, and an injective one has as many.
LEMMA LengthIsCardinality ==
    ASSUME NEW S, NEW q \in Seq(S)
    PROVE  /\ IsFiniteSet(ToSet(q)) /\ Cardinality(ToSet(q)) \in Nat
           /\ Cardinality(ToSet(q)) <= Len(q)
           /\ IsInjective(q) => Len(q) = Cardinality(ToSet(q))
<1>1. Len(q) \in Nat /\ DOMAIN q = 1..Len(q) /\ q \in [1..Len(q) -> S]
  OBVIOUS
<1>2. q \in [1..Len(q) -> ToSet(q)] /\ \A x \in ToSet(q) : \E i \in 1..Len(q) : q[i] = x
  BY <1>1 DEF ToSet
<1>3. q \in Surjection(1..Len(q), ToSet(q))
  BY <1>2 DEF Surjection
<1>4. IsFiniteSet(1..Len(q)) /\ Cardinality(1..Len(q)) = Len(q)
  BY <1>1, FS_Interval
<1>5. IsInjective(q) => q \in Injection(1..Len(q), ToSet(q))
  BY <1>2 DEF Injection
<1> QED
  BY <1>3, <1>4, <1>5, FS_Surjection, FS_CardinalityType

\* A version 3 transaction is a unit of gas.
Version3(txs) == {tx \in txs : tx.kind \notin LegacyKind}

\* TotalGas counts the version 3 transactions of an injective sequence, and is
\* a natural number for every sequence.
LEMMA TotalGasFacts ==
    ASSUME NEW S, NEW s \in Seq(S)
    PROVE  /\ TotalGas(s) \in Nat
           /\ IsInjective(s) => TotalGas(s) = Cardinality(Version3(ToSet(s)))
<1> DEFINE T == [k \in Nat |-> {n \in Nat : IsInjective(s) => n = Cardinality(Version3(First(s, k)))}]
<1>1. Len(s) \in Nat /\ \A k \in 1..Len(s) : s[k] \in S
  OBVIOUS
<1>2. 0 \in T[0]
  <2>1. Version3({}) = {} /\ Cardinality({}) = 0
    BY FS_EmptySet DEF Version3
  <2>2. First(s, 0) = {}
    BY FirstFacts
  <2>3. 0 = Cardinality(Version3(First(s, 0)))
    BY <2>1, <2>2
  <2> QED
    BY <2>3
<1>3. \A k \in 1..Len(s) : \A r \in T[k - 1] : AddGas(r, s[k]) \in T[k]
  <2> SUFFICES ASSUME NEW k \in 1..Len(s), NEW r \in T[k - 1]
               PROVE  AddGas(r, s[k]) \in T[k]
    OBVIOUS
  <2>1. /\ k \in Nat /\ k - 1 \in Nat
        /\ r \in Nat /\ (IsInjective(s) => r = Cardinality(Version3(First(s, k - 1))))
    BY <1>1
  <2>2. AddGas(r, s[k]) = IF s[k].kind \in LegacyKind THEN r ELSE r + 1
    BY <2>1 DEF AddGas, GasUsed
  <2>3. ASSUME IsInjective(s)
        PROVE  AddGas(r, s[k]) = Cardinality(Version3(First(s, k)))
    <3> DEFINE old == Version3(First(s, k - 1))
               new == Version3(First(s, k))
    <3>1. First(s, k) = First(s, k - 1) \cup {s[k]} /\ s[k] \notin First(s, k - 1)
      BY <2>3, FirstFacts
    <3>2. new = old \cup (IF s[k].kind \in LegacyKind THEN {} ELSE {s[k]}) /\ s[k] \notin old
      BY <3>1 DEF Version3
    <3>3. IsFiniteSet(old)
      <4>1. IsFiniteSet(ToSet(s))
        BY LengthIsCardinality
      <4>2. old \subseteq ToSet(s)
        BY <1>1 DEF Version3, First, ToSet
      <4> HIDE DEF old
      <4> QED
        BY <4>1, <4>2, FS_Subset
    <3> HIDE DEF old, new
    <3>4. Cardinality(old \cup {s[k]}) = Cardinality(old) + 1
      BY <3>2, <3>3, FS_AddElement
    <3>5. r = Cardinality(old)
      BY <2>1, <2>3 DEF old
    <3>6. AddGas(r, s[k]) = Cardinality(new)
      BY <2>2, <3>2, <3>4, <3>5
    <3> QED
      BY <3>6 DEF new
  <2>4. AddGas(r, s[k]) \in Nat
    BY <2>1, <2>2
  <2> QED
    BY <2>1, <2>3, <2>4
<1>4. GasRun!Run(0, s) \in T[Len(s)]
  <2> HIDE DEF T
  <2> QED
    BY <1>2, <1>3, GasRun!RunKeeps
<1>5. TotalGas(s) = GasRun!Run(0, s)
  BY DEF TotalGas, Loop, GasRun!Run
<1> QED
  BY <1>1, <1>4, <1>5, FirstFacts

\* Appending a transaction adds its gas.
LEMMA TotalGasAppend ==
    ASSUME NEW S, NEW s \in Seq(S), NEW x \in S
    PROVE  TotalGas(Append(s, x)) = TotalGas(s) + GasUsed(x)
<1>1. GasRun!Run(0, Append(s, x)) = AddGas(GasRun!Run(0, s), x)
  BY GasRun!RunAppend
<1>2. \A t : TotalGas(t) = GasRun!Run(0, t)
  BY DEF TotalGas, Loop, GasRun!Run
<1> QED
  BY <1>1, <1>2 DEF AddGas

\* Fewer transactions are no longer and need no more gas.
LEMMA FewerIsLess ==
    ASSUME NEW S, NEW q \in Seq(S), NEW s \in Seq(S), IsInjective(q), IsInjective(s),
           ToSet(q) \subseteq ToSet(s)
    PROVE  Len(q) <= Len(s) /\ TotalGas(q) <= TotalGas(s)
<1>1. IsFiniteSet(ToSet(s)) /\ Len(s) = Cardinality(ToSet(s)) /\ Len(q) = Cardinality(ToSet(q))
  BY LengthIsCardinality
<1>2. Len(q) <= Len(s)
  BY <1>1, FS_Subset
<1>3. Version3(ToSet(q)) \subseteq Version3(ToSet(s)) /\ Version3(ToSet(s)) \subseteq ToSet(s)
  BY DEF Version3
<1>4. IsFiniteSet(Version3(ToSet(s)))
  BY <1>1, <1>3, FS_Subset
<1>5. Cardinality(Version3(ToSet(q))) <= Cardinality(Version3(ToSet(s)))
  BY <1>3, <1>4, FS_Subset
<1> QED
  BY <1>2, <1>5, TotalGasFacts
---------------------------------------------------------------------------
\* A sequence is a sequence of its elements.
LEMMA SeqOfElements ==
    ASSUME NEW S, NEW q \in Seq(S), NEW R, ToSet(q) \subseteq R
    PROVE  q \in Seq(R)
<1>1. Len(q) \in Nat /\ DOMAIN q = 1..Len(q) /\ q \in [1..Len(q) -> S]
  OBVIOUS
<1>2. \A i \in 1..Len(q) : q[i] \in R
  BY <1>1 DEF ToSet
<1> QED
  BY <1>1, <1>2

\* The elements of a sequence are of its type.
LEMMA ElementsOfSeq ==
    ASSUME NEW S, NEW q \in Seq(S)
    PROVE  ToSet(q) \subseteq S
  BY DEF ToSet

\* The order of all transactions names each of them once.
LEMMA TransactionsFacts ==
    /\ TxOrder \in Seq(Transaction) /\ TxOrder \in Seq(Transactions)
    /\ IsInjective(TxOrder)
    /\ Transactions \subseteq Transaction
    /\ IsFiniteSet(Transactions)
    /\ MaxTxCount \in Nat /\ MaxGasPerBlock \in Nat
<1>1. TxOrder \in Seq(Transaction) /\ MaxTxCount \in Nat /\ MaxGasPerBlock \in Nat
  BY MempoolAssumption
<1>2. ToSet(TxOrder) = Transactions
  BY DEF Transactions
<1>3. Transactions \subseteq Transaction /\ IsFiniteSet(Transactions) /\ TxOrder \in Seq(Transactions)
  BY <1>1, <1>2, LengthIsCardinality, ElementsOfSeq, SeqOfElements
<1>4. ASSUME NEW i \in DOMAIN TxOrder, NEW j \in DOMAIN TxOrder, TxOrder[i] = TxOrder[j]
      PROVE  i = j
  <2>1. i \in Nat /\ j \in Nat
    BY <1>1
  <2>2. \A m, n \in DOMAIN TxOrder : m < n => TxOrder[m] # TxOrder[n]
    BY MempoolAssumption
  <2> QED
    BY <1>4, <2>1, <2>2
<1>5. IsInjective(TxOrder)
  BY <1>4 DEF IsInjective
<1> QED
  BY <1>1, <1>3, <1>5

\* Sorting keeps the transactions, each once.
LEMMA ByRankFacts ==
    ASSUME NEW q \in Seq(Transactions)
    PROVE  /\ ByRank(q) \in Seq(Transactions)
           /\ ToSet(ByRank(q)) = ToSet(q)
           /\ IsInjective(ByRank(q))
<1>1. ToSet(q) \subseteq ToSet(TxOrder)
  BY ElementsOfSeq DEF Transactions
<1>2. LET r == Among(TxOrder, ToSet(q))
      IN  r \in Seq(Transactions) /\ ToSet(r) = ToSet(TxOrder) \cap ToSet(q) /\ IsInjective(r)
  BY TransactionsFacts, AmongFacts
<1> QED
  BY <1>1, <1>2 DEF ByRank

\* RemoveIDs keeps the others.
LEMMA RemoveIDsFacts ==
    ASSUME NEW q \in Seq(Transactions), NEW txs
    PROVE  /\ RemoveIDs(q, txs) \in Seq(Transactions)
           /\ ToSet(RemoveIDs(q, txs)) = ToSet(q) \ txs
           /\ IsInjective(q) => IsInjective(RemoveIDs(q, txs))
<1>1. LET r == Among(q, ToSet(q) \ txs)
      IN  /\ r \in Seq(Transactions) /\ ToSet(r) = ToSet(q) \cap (ToSet(q) \ txs)
          /\ IsInjective(q) => IsInjective(r)
  BY AmongFacts
<1> QED
  BY <1>1 DEF RemoveIDs

RevalidateRun == INSTANCE Iteration WITH Step <- Revalidate
ApplyRun == INSTANCE Iteration WITH Step <- ApplyIfValid
FillRun == INSTANCE Iteration WITH Step <- TryNext
RequeueRun == INSTANCE Iteration WITH Step <- RequeueNext

\* What a loop that keeps what applies holds after k turns.
Holding(s, k, room) ==
    {acc \in [work : LedgerState, kept : Seq(Transaction), room : {room}] :
        /\ Sound(acc.work)
        /\ Len(acc.kept) <= room
        /\ ToSet(acc.kept) \subseteq First(s, k)
        /\ IsInjective(s) => IsInjective(acc.kept)}

\* The work ledger stays sound, and a transaction is kept or not.
LEMMA KeepApplicableForm ==
    ASSUME NEW acc, Sound(acc.work),
           acc = [work |-> acc.work, kept |-> acc.kept, room |-> acc.room],
           NEW tx \in Transaction, NEW height \in Nat
    PROVE  \E m : /\ Sound(m)
                  /\ KeepApplicable(acc, tx, height) \in
                        {[work |-> m, kept |-> acc.kept, room |-> acc.room],
                         [work |-> m, kept |-> Append(acc.kept, tx), room |-> acc.room]}
<1> DEFINE r == ApplyTransactionAtHeight(acc.work, tx, height)
           new == KeepApplicable(acc, tx, height)
<1>1. \/ r.ok /\ Sound(r.ledger)
      \/ ~r.ok /\ r.ledger = acc.work
  BY ApplyTransactionSound
<1>2. new = [acc EXCEPT !.work = r.ledger, !.kept = IF r.ok THEN Append(@, tx) ELSE @]
  BY DEF KeepApplicable
<1> HIDE DEF r, new
<1>3. new = [work |-> r.ledger, kept |-> IF r.ok THEN Append(acc.kept, tx) ELSE acc.kept, room |-> acc.room]
  BY <1>2
<1>4. Sound(r.ledger)
  BY <1>1
<1>5. CASE r.ok
  BY <1>3, <1>4, <1>5 DEF new
<1>6. CASE ~r.ok
  BY <1>3, <1>4, <1>6 DEF new
<1> QED
  BY <1>5, <1>6

\* A turn without room for its transaction, or without use for it.
LEMMA HoldingMore ==
    ASSUME NEW room \in Nat, NEW s \in Seq(Transaction), NEW k \in 1..Len(s),
           NEW acc \in Holding(s, k - 1, room)
    PROVE  acc \in Holding(s, k, room)
  BY FirstFacts DEF Holding

\* A turn that tries its transaction.
LEMMA KeepApplicableHolding ==
    ASSUME NEW room \in Nat, NEW s \in Seq(Transaction), NEW k \in 1..Len(s),
           NEW acc \in Holding(s, k - 1, room), HasRoom(acc), NEW height \in Nat
    PROVE  KeepApplicable(acc, s[k], height) \in Holding(s, k, room)
<1> DEFINE tx == s[k]
           work == acc.work
           q == acc.kept
           new == KeepApplicable(acc, tx, height)
<1>1. /\ Sound(work) /\ q \in Seq(Transaction) /\ acc = [work |-> work, kept |-> q, room |-> room]
      /\ ToSet(q) \subseteq First(s, k - 1) /\ (IsInjective(s) => IsInjective(q)) /\ Len(q) < room
  BY DEF Holding, HasRoom
<1>2. tx \in Transaction
  OBVIOUS
<1>3. PICK m : /\ Sound(m)
               /\ new \in {[work |-> m, kept |-> q, room |-> room],
                           [work |-> m, kept |-> Append(q, tx), room |-> room]}
  <2>1. acc.room = room
    BY <1>1
  <2> HIDE DEF tx
  <2> QED
    BY <1>1, <1>2, <2>1, KeepApplicableForm
<1>4. m \in LedgerState
  BY <1>3 DEF Sound
<1>5. /\ First(s, k) = First(s, k - 1) \cup {tx}
      /\ IsInjective(s) => tx \notin First(s, k - 1)
  BY FirstFacts
<1>6. /\ Append(q, tx) \in Seq(Transaction)
      /\ ToSet(Append(q, tx)) = ToSet(q) \cup {tx}
      /\ IsInjective(q) /\ tx \notin ToSet(q) => IsInjective(Append(q, tx))
  <2> HIDE DEF q, tx
  <2> QED
    BY <1>1, <1>2, AppendFacts
<1>7. Len(Append(q, tx)) <= room
  BY <1>1, <1>2
<1>8. \A p \in {q, Append(q, tx)} : /\ p \in Seq(Transaction) /\ Len(p) <= room
                                    /\ ToSet(p) \subseteq First(s, k)
                                    /\ IsInjective(s) => IsInjective(p)
  <2> HIDE DEF q, tx
  <2>1. Len(q) \in Nat /\ Len(q) <= room
    BY <1>1
  <2>2. ToSet(q) \subseteq First(s, k) /\ ToSet(Append(q, tx)) \subseteq First(s, k)
    BY <1>1, <1>5, <1>6
  <2>3. IsInjective(s) => IsInjective(q) /\ IsInjective(Append(q, tx))
    <3>1. ASSUME IsInjective(s)
          PROVE  tx \notin ToSet(q)
      BY <1>1, <1>5, <3>1
    <3> QED
      BY <1>1, <1>6, <3>1
  <2> QED
    BY <1>1, <1>6, <1>7, <2>1, <2>2, <2>3
<1>9. PICK p \in {q, Append(q, tx)} : new = [work |-> m, kept |-> p, room |-> room]
  BY <1>3
<1> HIDE DEF q, new
<1>10. new \in Holding(s, k, room)
  BY <1>3, <1>4, <1>8, <1>9 DEF Holding
<1> QED
  BY <1>10 DEF new
---------------------------------------------------------------------------
\* The ledger of a valid chain is good.
LEMMA LedgerOfGood ==
    ASSUME NEW blocks \in Chain, ValidChain(blocks)
    PROVE  /\ Good(LedgerOf(blocks)) /\ Sound(LedgerOf(blocks))
           /\ LedgerOf(blocks).height = Len(blocks)
  BY ValidChainGood DEF LedgerOf, Good

\* The loops start from a sound ledger with nothing kept.
LEMMA KeepingHolds ==
    ASSUME NEW l, Sound(l), NEW room \in Nat, NEW s \in Seq(Transaction)
    PROVE  Keeping(l, room) \in Holding(s, 0, room)
<1>1. Sound(Clone(l)) /\ Clone(l) \in LedgerState
  BY CloneSound DEF Sound
<1>2. <<>> \in Seq(Transaction) /\ Len(<<>>) <= room /\ ToSet(<<>>) = {} /\ IsInjective(<<>>)
  BY DEF ToSet, IsInjective
<1>3. Keeping(l, room) = [work |-> Clone(l), kept |-> <<>>, room |-> room]
  BY DEF Keeping
<1> QED
  BY <1>1, <1>2, <1>3, FirstFacts DEF Holding

\* What revalidateTransactions keeps was pending, each transaction once, is not
\* confirmed, and fits the limit on their number.
LEMMA RevalidateFacts ==
    ASSUME NEW blocks \in Chain, ValidChain(blocks), NEW q \in Seq(Transactions)
    PROVE  LET r == RevalidateTransactions(q, blocks)
           IN  /\ r \in Seq(Transactions)
               /\ ToSet(r) \subseteq ToSet(q) \ Confirmed(blocks)
               /\ IsInjective(r)
               /\ Len(r) <= MaxTxCount
<1> DEFINE s == ByRank(RemoveIDs(q, Confirmed(blocks)))
           start == Keeping(LedgerOf(blocks), MaxTxCount)
           T == [k \in Nat |-> Holding(s, k, MaxTxCount)]
           end == RevalidateRun!Run(start, s)
<1>1. s \in Seq(Transactions) /\ ToSet(s) = ToSet(q) \ Confirmed(blocks) /\ IsInjective(s)
  BY RemoveIDsFacts, ByRankFacts
<1>2. RevalidateTransactions(q, blocks) = end.kept
  BY DEF RevalidateTransactions, Loop, RevalidateRun!Run
<1>3. Sound(LedgerOf(blocks))
  BY LedgerOfGood
<1> HIDE DEF s
<1>4. s \in Seq(Transaction) /\ Len(s) \in Nat /\ \A k \in 1..Len(s) : s[k] \in Transaction
  <2>1. s \in Seq(Transaction)
    BY <1>1, ElementsOfSeq, SeqOfElements, TransactionsFacts
  <2> QED
    BY <2>1
<1>5. start \in T[0] /\ T[Len(s)] = Holding(s, Len(s), MaxTxCount)
  BY <1>3, <1>4, KeepingHolds, TransactionsFacts
<1>6. \A k \in 1..Len(s) : \A r \in T[k - 1] : Revalidate(r, s[k]) \in T[k]
  <2> SUFFICES ASSUME NEW k \in 1..Len(s), NEW r \in Holding(s, k - 1, MaxTxCount)
               PROVE  Revalidate(r, s[k]) \in Holding(s, k, MaxTxCount)
    BY <1>4
  <2>1. r.work.height \in Nat
    BY DEF Holding, LedgerState
  <2>2. r \in Holding(s, k, MaxTxCount)
    BY <1>4, HoldingMore, TransactionsFacts
  <2>3. HasRoom(r) => KeepApplicable(r, s[k], r.work.height) \in Holding(s, k, MaxTxCount)
    BY <1>4, <2>1, KeepApplicableHolding, TransactionsFacts
  <2> QED
    BY <2>2, <2>3 DEF Revalidate
<1> HIDE DEF T, start
<1>7. end \in T[Len(s)]
  BY <1>4, <1>5, <1>6, RevalidateRun!RunKeeps
<1>8. end \in Holding(s, Len(s), MaxTxCount)
  BY <1>5, <1>7
<1> HIDE DEF end
<1>9. /\ end.kept \in Seq(Transaction) /\ ToSet(end.kept) \subseteq ToSet(s)
      /\ IsInjective(end.kept) /\ Len(end.kept) <= MaxTxCount
  BY <1>1, <1>4, <1>8, FirstFacts DEF Holding
<1>10. end.kept \in Seq(Transactions)
  BY <1>1, <1>9, ElementsOfSeq, SeqOfElements
<1> QED
  BY <1>1, <1>2, <1>9, <1>10

\* A block is filled with transactions of the sequence it is filled from.
LEMMA FillFacts ==
    ASSUME NEW blocks \in Chain, ValidChain(blocks), NEW q \in Seq(Transactions), NEW max \in Nat
    PROVE  /\ Fill(blocks, q, max) \in Seq(Transactions)
           /\ ToSet(Fill(blocks, q, max)) \subseteq ToSet(q)
<1> DEFINE start == Keeping(LedgerOf(blocks), max)
           T == [k \in Nat |-> Holding(q, k, max)]
           end == FillRun!Run(start, q)
<1>1. Fill(blocks, q, max) = end.kept
  BY DEF Fill, Loop, FillRun!Run
<1>2. Sound(LedgerOf(blocks))
  BY LedgerOfGood
<1>3. q \in Seq(Transaction) /\ Len(q) \in Nat /\ \A k \in 1..Len(q) : q[k] \in Transaction
  <2>1. q \in Seq(Transaction)
    BY ElementsOfSeq, SeqOfElements, TransactionsFacts
  <2> QED
    BY <2>1
<1>4. start \in T[0] /\ T[Len(q)] = Holding(q, Len(q), max)
  BY <1>2, <1>3, KeepingHolds
<1>5. \A k \in 1..Len(q) : \A r \in T[k - 1] : TryNext(r, q[k]) \in T[k]
  <2> SUFFICES ASSUME NEW k \in 1..Len(q), NEW r \in Holding(q, k - 1, max)
               PROVE  TryNext(r, q[k]) \in Holding(q, k, max)
    BY <1>3
  <2>1. r.work.height \in Nat /\ r.work.height + 1 \in Nat
    BY DEF Holding, LedgerState
  <2>2. r \in Holding(q, k, max)
    BY <1>3, HoldingMore
  <2>3. HasRoom(r) => KeepApplicable(r, q[k], r.work.height + 1) \in Holding(q, k, max)
    BY <1>3, <2>1, KeepApplicableHolding
  <2> QED
    BY <2>2, <2>3 DEF TryNext
<1> HIDE DEF T, start
<1>6. end \in T[Len(q)]
  BY <1>3, <1>4, <1>5, FillRun!RunKeeps
<1>7. end \in Holding(q, Len(q), max)
  BY <1>4, <1>6
<1> HIDE DEF end
<1>8. end.kept \in Seq(Transaction) /\ ToSet(end.kept) \subseteq ToSet(q)
  BY <1>3, <1>7, FirstFacts DEF Holding
<1>9. end.kept \in Seq(Transactions)
  BY <1>8, ElementsOfSeq, SeqOfElements
<1> QED
  BY <1>1, <1>8, <1>9
---------------------------------------------------------------------------
\* Requeueing gives known transactions.
Requeuing ==
    {acc \in [work : LedgerState, kept : Seq(Transactions), room : {MaxTxCount}] : Sound(acc.work)}

\* A ledger stays sound whatever of a sequence applies to it.
LEMMA ApplyPendingSound ==
    ASSUME NEW l, Sound(l), NEW q \in Seq(Transactions)
    PROVE  Sound(ApplyPending(l, q))
<1> DEFINE T == [k \in Nat |-> {m \in LedgerState : Sound(m)}]
<1>1. Len(q) \in Nat /\ \A k \in 1..Len(q) : q[k] \in Transaction
  BY TransactionsFacts
<1>2. Clone(l) \in T[0] /\ T[Len(q)] = {m \in LedgerState : Sound(m)}
  BY <1>1, CloneSound DEF Sound
<1>3. \A k \in 1..Len(q) : \A r \in T[k - 1] : ApplyIfValid(r, q[k]) \in T[k]
  <2> SUFFICES ASSUME NEW k \in 1..Len(q), NEW r, Sound(r)
               PROVE  Sound(ApplyIfValid(r, q[k])) /\ ApplyIfValid(r, q[k]) \in LedgerState
    BY <1>1
  <2>1. r.height \in Nat
    BY DEF Sound, LedgerState
  <2>2. Sound(ApplyTransactionAtHeight(r, q[k], r.height).ledger)
    BY <1>1, <2>1, ApplyTransactionSound
  <2> QED
    BY <2>2 DEF ApplyIfValid, ApplyTransaction, Sound
<1> HIDE DEF T
<1>4. ApplyRun!Run(Clone(l), q) \in T[Len(q)]
  BY <1>2, <1>3, ApplyRun!RunKeeps
<1>5. ApplyPending(l, q) = ApplyRun!Run(Clone(l), q)
  BY DEF ApplyPending, Loop, ApplyRun!Run
<1> QED
  BY <1>2, <1>4, <1>5

\* One turn of the loop that requeues.
LEMMA RequeueNextFacts ==
    ASSUME NEW acc \in Requeuing, NEW tx \in Transactions
    PROVE  RequeueNext(acc, tx) \in Requeuing
<1>1. /\ Sound(acc.work) /\ acc.kept \in Seq(Transactions) /\ acc.room = MaxTxCount
      /\ acc = [work |-> acc.work, kept |-> acc.kept, room |-> acc.room]
      /\ acc.work.height \in Nat
  BY DEF Requeuing, LedgerState
<1>2. tx \in Transaction
  BY TransactionsFacts
<1> DEFINE new == KeepApplicable(acc, tx, acc.work.height)
<1>3. PICK m : /\ Sound(m)
               /\ new \in {[work |-> m, kept |-> acc.kept, room |-> acc.room],
                           [work |-> m, kept |-> Append(acc.kept, tx), room |-> acc.room]}
  BY <1>1, <1>2, KeepApplicableForm
<1>4. Append(acc.kept, tx) \in Seq(Transactions) /\ m \in LedgerState
  BY <1>1, <1>3 DEF Sound
<1> HIDE DEF new
<1>5. new \in Requeuing
  BY <1>1, <1>3, <1>4 DEF Requeuing
<1> QED
  BY <1>5 DEF RequeueNext, new

\* A score that orders transactions like higherPriority up to their IDs.
Score(tx) ==
    IF tx.kind \in LegacyKind
    THEN IF tx.fee = 0 THEN 1 ELSE MaxUint + 1 + tx.fee
    ELSE IF tx.fee = 0 THEN 0 ELSE 1 + tx.fee

\* Scores are bounded natural numbers.
LEMMA ScoreType ==
    ASSUME NEW tx \in Transaction
    PROVE  Score(tx) \in Nat /\ Score(tx) <= MaxUint + 1 + MaxUint
<1>1. tx.fee \in Nat /\ tx.fee <= MaxUint /\ MaxUint \in Nat
  BY MaxUintAssumption DEF Transaction, Uint
<1> QED
  BY <1>1 DEF Score

\* The higher score, and then the lower rank, has the higher priority.
LEMMA ScoreOrders ==
    ASSUME NEW a \in Transaction, NEW b \in Transaction,
           \/ Score(a) > Score(b)
           \/ Score(a) = Score(b) /\ Rank(a) < Rank(b)
    PROVE  HigherPriority(a, b)
<1>1. /\ a.fee \in Nat /\ a.fee <= MaxUint /\ b.fee \in Nat /\ b.fee <= MaxUint /\ MaxUint \in Nat
      /\ MaxUint > 0
  BY MaxUintAssumption DEF Transaction, Uint
<1>2. \A n \in Nat : n * 0 = 0 /\ n * 1 = n
  OBVIOUS
<1>3. CASE a.kind \in LegacyKind /\ b.kind \in LegacyKind
  <2>1. GasUsed(a) = 0 /\ GasUsed(b) = 0
    BY <1>3 DEF GasUsed
  <2>2. a.fee > b.fee \/ (a.fee = b.fee /\ Rank(a) < Rank(b))
    BY <1>1, <1>3 DEF Score
  <2> QED
    BY <1>1, <1>2, <2>1, <2>2 DEF HigherPriority
<1>4. CASE a.kind \notin LegacyKind /\ b.kind \notin LegacyKind
  <2>1. GasUsed(a) = 1 /\ GasUsed(b) = 1
    BY <1>4 DEF GasUsed
  <2>2. a.fee > b.fee \/ (a.fee = b.fee /\ Rank(a) < Rank(b))
    BY <1>1, <1>4 DEF Score
  <2> QED
    BY <1>1, <1>2, <2>1, <2>2 DEF HigherPriority
<1>5. CASE a.kind \in LegacyKind /\ b.kind \notin LegacyKind
  <2>1. GasUsed(a) = 0 /\ GasUsed(b) = 1
    BY <1>5 DEF GasUsed
  <2>2. a.fee > 0 \/ (a.fee = 0 /\ b.fee = 0)
    BY <1>1, <1>5 DEF Score
  <2> QED
    BY <1>1, <1>2, <2>1, <2>2 DEF HigherPriority
<1>6. CASE a.kind \notin LegacyKind /\ b.kind \in LegacyKind
  <2>1. GasUsed(a) = 1 /\ GasUsed(b) = 0
    BY <1>6 DEF GasUsed
  <2>2. a.fee > 0 /\ b.fee = 0
    BY <1>1, <1>6 DEF Score
  <2> QED
    BY <1>1, <1>2, <2>1, <2>2 DEF HigherPriority
<1> QED
  BY <1>3, <1>4, <1>5, <1>6

\* Two transactions have two ranks.
LEMMA RankFacts ==
    ASSUME NEW tx \in Transactions
    PROVE  Rank(tx) \in Nat /\ TxOrder[Rank(tx)] = tx
<1>1. \E i \in DOMAIN TxOrder : TxOrder[i] = tx
  BY DEF Transactions, ToSet
<1>2. DOMAIN TxOrder \subseteq Nat
  BY TransactionsFacts
<1> QED
  BY <1>1, <1>2 DEF Rank

\* Some transactions, if any, have a best one.
LEMMA BestFacts ==
    ASSUME NEW X, X \subseteq Transactions, X # {}
    PROVE  Best(X) \in X
<1> DEFINE top == MaxUint + 1 + MaxUint
           U == {top - Score(x) : x \in X}
<1>1. X \subseteq Transaction /\ top \in Nat
  BY TransactionsFacts, MaxUintAssumption
<1> HIDE DEF top
<1>2. \A x \in X : Score(x) \in Nat /\ top - Score(x) \in Nat
  BY <1>1, ScoreType DEF top
<1>3. PICK u \in U : \A v \in U : u <= v
  <2>1. U \subseteq Nat /\ U # {}
    BY <1>2
  <2> HIDE DEF U
  <2> QED
    BY <2>1, ChainRun!LeastNat
<1>4. PICK m \in X : u = top - Score(m)
  BY <1>3
<1>5. \A x \in X : Score(x) <= Score(m)
  <2> SUFFICES ASSUME NEW x \in X
               PROVE  Score(x) <= Score(m)
    OBVIOUS
  <2>1. top - Score(m) <= top - Score(x)
    BY <1>3, <1>4
  <2>2. Score(m) \in Nat /\ Score(x) \in Nat
    BY <1>2
  <2> QED
    BY <1>1, <2>1, <2>2
<1> DEFINE Y == {x \in X : Score(x) = Score(m)}
           R == {Rank(x) : x \in Y}
<1>6. PICK r \in R : \A v \in R : r <= v
  <2>1. R \subseteq Nat
    BY RankFacts
  <2>2. R # {}
    BY <1>4
  <2> HIDE DEF R
  <2> QED
    BY <2>1, <2>2, ChainRun!LeastNat
<1>7. PICK b \in Y : r = Rank(b)
  BY <1>6
<1>8. ASSUME NEW y \in X \ {b}
      PROVE  HigherPriority(b, y)
  <2>1. CASE Score(y) = Score(m)
    <3>1. Rank(b) <= Rank(y)
      BY <1>6, <1>7, <2>1
    <3>2. Rank(b) # Rank(y) /\ Rank(b) \in Nat /\ Rank(y) \in Nat
      BY RankFacts
    <3>3. Rank(b) < Rank(y) /\ Score(b) = Score(y)
      BY <2>1, <3>1, <3>2
    <3> QED
      BY <1>1, <3>3, ScoreOrders
  <2>2. CASE Score(y) # Score(m)
    <3>1. Score(b) = Score(m) /\ Score(m) \in Nat /\ Score(y) \in Nat /\ Score(y) <= Score(m)
      BY <1>2, <1>5
    <3>2. Score(b) > Score(y)
      BY <2>2, <3>1
    <3> QED
      BY <1>1, <3>2, ScoreOrders
  <2> QED
    BY <2>1, <2>2
<1>9. b \in X
  OBVIOUS
<1> QED
  BY <1>8, <1>9 DEF Best
---------------------------------------------------------------------------
ExtendRun == INSTANCE Iteration WITH Step <- Extend
TakeRun == INSTANCE Iteration WITH Step <- TakeBest

\* What is ready of a sender was sent by it and is pending.
LEMMA ReadyFacts ==
    ASSUME NEW q \in Seq(Transactions), NEW next \in [Address -> Nat], NEW a \in Address
    PROVE  Ready(q, next, a) \in Seq(SentBy(a, q))
<1> DEFINE S == SentBy(a, q)
           s == Among(ByRank(q), S)
           start == [next |-> next[a], txs |-> <<>>]
           T == [k \in Nat |-> [next : Nat, txs : Seq(S)]]
<1>1. s \in Seq(S)
  <2>1. ByRank(q) \in Seq(Transactions)
    BY ByRankFacts
  <2>2. s \in Seq(Transactions) /\ ToSet(s) = ToSet(ByRank(q)) \cap S
    BY <2>1, AmongFacts
  <2> HIDE DEF s, S
  <2> QED
    BY <2>2, SeqOfElements
<1>2. Ready(q, next, a) = ExtendRun!Run(start, s).txs
  BY DEF Ready, Loop, ExtendRun!Run
<1> HIDE DEF s
<1>3. Len(s) \in Nat /\ \A k \in 1..Len(s) : s[k] \in S
  BY <1>1
<1> HIDE DEF S
<1>4. start \in T[0] /\ T[Len(s)] = [next : Nat, txs : Seq(S)]
  <2>1. next[a] \in Nat /\ <<>> \in Seq(S)
    OBVIOUS
  <2>2. start \in [next : Nat, txs : Seq(S)]
    BY <2>1
  <2> QED
    BY <1>3, <2>2
<1>5. \A k \in 1..Len(s) : \A r \in T[k - 1] : Extend(r, s[k]) \in T[k]
  <2> SUFFICES ASSUME NEW k \in 1..Len(s), NEW r \in [next : Nat, txs : Seq(S)]
               PROVE  Extend(r, s[k]) \in [next : Nat, txs : Seq(S)]
    <3>1. \A k \in 1..Len(s) : k \in Nat /\ k - 1 \in Nat
      BY <1>3
    <3> QED
      BY <3>1
  <2>1. Append(r.txs, s[k]) \in Seq(S) /\ r.next + 1 \in Nat
    BY <1>3
  <2> QED
    BY <2>1 DEF Extend
<1> HIDE DEF T, start
<1>6. ExtendRun!Run(start, s) \in T[Len(s)]
  BY <1>1, <1>4, <1>5, ExtendRun!RunKeeps
<1> QED
  BY <1>2, <1>4, <1>6 DEF S

\* The lists that are left, each with transactions of its sender, and the
\* selection so far.
Selecting(q) ==
    {acc \in [lists : [Address -> Seq(ToSet(q))], out : Seq(ToSet(q))] :
        \A a \in Address : acc.lists[a] \in Seq(SentBy(a, q))}

\* One turn of the selection.
LEMMA TakeBestFacts ==
    ASSUME NEW q \in Seq(Transactions), NEW acc \in Selecting(q), NEW turn
    PROVE  TakeBest(acc, turn) \in Selecting(q)
<1> DEFINE heads == {tx \in Heads(acc) : Fits(acc, tx)}
           best == Best(heads)
<1> SUFFICES ASSUME heads # {}
             PROVE  Take(acc, best) \in Selecting(q)
  BY DEF TakeBest
<1>1. ASSUME NEW tx \in Heads(acc)
      PROVE  /\ tx \in ToSet(q) /\ tx.from \in Address
             /\ acc.lists[tx.from] # <<>>
  <2>1. PICK a \in Address : acc.lists[a] # <<>> /\ tx = Head(acc.lists[a])
    BY DEF Heads
  <2>2. acc.lists[a] \in Seq(SentBy(a, q))
    BY DEF Selecting
  <2>3. tx \in SentBy(a, q)
    BY <2>1, <2>2
  <2> QED
    BY <2>1, <2>3 DEF SentBy
<1>2. best \in heads
  <2>1. heads \subseteq Transactions
    BY <1>1, ElementsOfSeq
  <2> HIDE DEF heads
  <2> QED
    BY <2>1, BestFacts
<1>3. best \in ToSet(q) /\ best.from \in Address /\ acc.lists[best.from] # <<>>
  BY <1>1, <1>2
<1> HIDE DEF best
<1> DEFINE lists == [acc.lists EXCEPT ![best.from] = Tail(@)]
<1>4. acc.lists \in [Address -> Seq(ToSet(q))] /\ acc.out \in Seq(ToSet(q))
  BY DEF Selecting
<1>5. Tail(acc.lists[best.from]) \in Seq(ToSet(q)) /\ Tail(acc.lists[best.from]) \in Seq(SentBy(best.from, q))
  <2>1. acc.lists[best.from] \in Seq(ToSet(q)) /\ acc.lists[best.from] \in Seq(SentBy(best.from, q))
    BY <1>3, <1>4 DEF Selecting
  <2>2. ASSUME NEW R, NEW list \in Seq(R), list # <<>>
        PROVE  Tail(list) \in Seq(R)
    BY <2>2
  <2> HIDE DEF Selecting
  <2> QED
    BY <1>3, <2>1, <2>2
<1>6. lists \in [Address -> Seq(ToSet(q))]
  BY <1>3, <1>4, <1>5
<1>7. \A a \in Address : lists[a] \in Seq(SentBy(a, q))
  BY <1>3, <1>4, <1>5 DEF Selecting
<1>8. Append(acc.out, best) \in Seq(ToSet(q))
  BY <1>3, <1>4
<1>9. Take(acc, best) = [lists |-> lists, out |-> Append(acc.out, best)]
  BY DEF Take
<1> HIDE DEF lists
<1> QED
  BY <1>6, <1>7, <1>8, <1>9 DEF Selecting

\* In the order of all transactions, each once.
Ranked(s) == \A i, j \in DOMAIN s : i < j => Rank(s[i]) < Rank(s[j])

\* The lower rank has the lower nonce of the two of a sender.
LEMMA RankOrders ==
    ASSUME NEW x \in Transactions, NEW y \in Transactions
    PROVE  /\ Rank(x) < Rank(y) /\ x.from = y.from => x.nonce <= y.nonce
           /\ Rank(x) = Rank(y) => x = y
<1>1. Rank(x) \in DOMAIN TxOrder /\ TxOrder[Rank(x)] = x /\ Rank(y) \in DOMAIN TxOrder /\ TxOrder[Rank(y)] = y
  <2>1. \A z \in Transactions : \E i \in DOMAIN TxOrder : TxOrder[i] = z
    BY DEF Transactions, ToSet
  <2> QED
    BY <2>1 DEF Rank
<1> QED
  BY <1>1, MempoolAssumption

\* What Among keeps of such a sequence is one.
LEMMA AmongRanked ==
    ASSUME NEW s \in Seq(Transactions), Ranked(s), NEW U
    PROVE  Ranked(Among(s, U))
<1> DEFINE Part(k) == {q \in Seq(Transactions) : ToSet(q) \subseteq First(s, k) /\ Ranked(q)}
           T == [k \in Nat |-> {[set |-> U, txs |-> q] : q \in Part(k)}]
           start == [set |-> U, txs |-> <<>>]
<1>1. Len(s) \in Nat /\ DOMAIN s = 1..Len(s) /\ \A k \in 1..Len(s) : s[k] \in Transactions
  OBVIOUS
<1>2. start \in T[0]
  <2>1. <<>> \in Seq(Transactions) /\ ToSet(<<>>) = {} /\ Ranked(<<>>)
    BY DEF ToSet, Ranked
  <2>2. <<>> \in Part(0)
    BY <2>1
  <2> HIDE DEF Part
  <2> QED
    BY <2>2
<1>3. \A k \in 1..Len(s) : \A r \in T[k - 1] : KeepMember(r, s[k]) \in T[k]
  <2> SUFFICES ASSUME NEW k \in 1..Len(s), NEW r \in T[k - 1]
               PROVE  KeepMember(r, s[k]) \in T[k]
    OBVIOUS
  <2>1. k \in Nat /\ k - 1 \in Nat /\ s[k] \in Transactions
    BY <1>1
  <2>2. PICK q \in Part(k - 1) : r = [set |-> U, txs |-> q]
    <3> HIDE DEF Part
    <3> QED
      BY <2>1
  <2>3. First(s, k) = First(s, k - 1) \cup {s[k]}
    BY FirstFacts
  <2>4. CASE s[k] \in U
    <3>1. KeepMember(r, s[k]) = [set |-> U, txs |-> Append(q, s[k])]
      BY <2>2, <2>4 DEF KeepMember
    <3>2. /\ Append(q, s[k]) \in Seq(Transactions)
          /\ ToSet(Append(q, s[k])) = ToSet(q) \cup {s[k]}
      BY <2>1, AppendFacts
    <3>3. \A x \in First(s, k - 1) : Rank(x) < Rank(s[k])
      <4> SUFFICES ASSUME NEW j \in 1..(k - 1)
                   PROVE  Rank(s[j]) < Rank(s[k])
        BY DEF First
      <4>1. j \in 1..Len(s) /\ j < k
        BY <1>1
      <4> QED
        BY <1>1, <4>1 DEF Ranked
    <3>4. Ranked(Append(q, s[k]))
      <4> DEFINE t == Append(q, s[k])
                 n == Len(q)
      <4>1. /\ n \in Nat /\ DOMAIN q = 1..n /\ DOMAIN t = 1..(n + 1)
            /\ t[n + 1] = s[k] /\ \A i \in 1..n : t[i] = q[i]
        BY <2>1
      <4> HIDE DEF t, n
      <4>2. ASSUME NEW i \in 1..(n + 1), NEW j \in 1..(n + 1), i < j
            PROVE  Rank(t[i]) < Rank(t[j])
        <5>1. i \in 1..n /\ t[i] = q[i] /\ (j \in 1..n \/ j = n + 1)
          BY <4>1, <4>2
        <5>2. q[i] \in First(s, k - 1)
          BY <4>1, <5>1 DEF ToSet
        <5>3. CASE j \in 1..n
          BY <4>1, <4>2, <5>1, <5>3 DEF Ranked
        <5>4. CASE j = n + 1
          BY <4>1, <5>1, <5>2, <5>4, <3>3
        <5> QED
          BY <5>1, <5>3, <5>4
      <4> QED
        BY <4>1, <4>2 DEF Ranked, t
    <3>5. Append(q, s[k]) \in Part(k)
      BY <2>3, <3>2, <3>4
    <3> HIDE DEF Part
    <3> QED
      BY <2>1, <3>1, <3>5
  <2>5. CASE s[k] \notin U
    <3>1. KeepMember(r, s[k]) = [set |-> U, txs |-> q]
      BY <2>2, <2>5 DEF KeepMember
    <3>2. q \in Part(k)
      BY <2>3
    <3> HIDE DEF Part
    <3> QED
      BY <2>1, <3>1, <3>2
  <2> QED
    BY <2>4, <2>5
<1> HIDE DEF T
<1>4. KeepRun!Run(start, s) \in T[Len(s)]
  BY <1>2, <1>3, KeepRun!RunKeeps
<1>5. Among(s, U) = KeepRun!Run(start, s).txs
  BY DEF Among, Loop, KeepRun!Run
<1> HIDE DEF Part
<1>6. PICK q \in Part(Len(s)) : KeepRun!Run(start, s) = [set |-> U, txs |-> q]
  BY <1>1, <1>4 DEF T
<1>7. Among(s, U) = q
  BY <1>5, <1>6
<1> QED
  BY <1>7 DEF Part

\* What a sender has in the pool, in the order of its nonces.
Sorted(q, a) == Among(ByRank(q), SentBy(a, q))

LEMMA SortedFacts ==
    ASSUME NEW q \in Seq(Transactions), NEW a
    PROVE  /\ Sorted(q, a) \in Seq(Transactions)
           /\ ToSet(Sorted(q, a)) = SentBy(a, q)
           /\ Ranked(Sorted(q, a))
<1>1. Ranked(TxOrder)
  <2>1. DOMAIN TxOrder = 1..Len(TxOrder) /\ Len(TxOrder) \in Nat
    BY TransactionsFacts
  <2>2. \A i \in DOMAIN TxOrder : TxOrder[i] \in Transactions
    BY DEF Transactions, ToSet
  <2>3. \A i \in DOMAIN TxOrder : Rank(TxOrder[i]) = i
    BY <2>2, TransactionsFacts DEF Rank, IsInjective
  <2> QED
    BY <2>1, <2>3 DEF Ranked
<1>2. ByRank(q) \in Seq(Transactions) /\ ToSet(ByRank(q)) = ToSet(q) /\ Ranked(ByRank(q))
  BY <1>1, ByRankFacts, AmongRanked, TransactionsFacts DEF ByRank
<1>3. SentBy(a, q) \subseteq ToSet(q)
  BY DEF SentBy
<1>4. LET s == Among(ByRank(q), SentBy(a, q))
      IN  s \in Seq(Transactions) /\ ToSet(s) = ToSet(ByRank(q)) \cap SentBy(a, q)
  BY <1>2, AmongFacts
<1> QED
  BY <1>2, <1>3, <1>4, AmongRanked DEF Sorted

\* A run of nonces from n on, with the first of the transactions X of each
\* nonce, and no longer one.
IsRun(txs, X, n) ==
    /\ txs \in Seq(X)
    /\ \A j \in 1..Len(txs) : txs[j].nonce = n + j - 1
    /\ \A j \in 1..Len(txs) : \A x \in X : x.nonce = txs[j].nonce => Rank(txs[j]) <= Rank(x)
    /\ \A x \in X : x.nonce # n + Len(txs)

\* What is ready of a sender is the run of its nonces from the next one on.
LEMMA ReadyIsRun ==
    ASSUME NEW q \in Seq(Transactions), NEW next \in [Address -> Nat], NEW a \in Address
    PROVE  IsRun(Ready(q, next, a), SentBy(a, q), next[a])
<1> DEFINE S == SentBy(a, q)
           s == Sorted(q, a)
           n == next[a]
           start == [next |-> n, txs |-> <<>>]
           T == [k \in Nat |-> {r \in [next : Nat, txs : Seq(S)] :
                   r.next = n + Len(r.txs) /\ IsRun(r.txs, First(s, k), n)}]
<1>1. /\ s \in Seq(Transactions) /\ ToSet(s) = S /\ Ranked(s)
      /\ Len(s) \in Nat /\ DOMAIN s = 1..Len(s)
  BY SortedFacts
<1>2. s \in Seq(S)
  BY <1>1, SeqOfElements
<1>3. S \subseteq Transactions /\ \A x \in S : x.from = a /\ x.nonce \in Nat
  <2>1. \A x \in S : x \in ToSet(q) /\ x.from = a
    BY DEF SentBy
  <2>2. \A x \in Transactions : x.nonce \in Nat
    BY TransactionsFacts DEF Transaction
  <2> QED
    BY <2>1, <2>2, ElementsOfSeq
<1>4. Ready(q, next, a) = ExtendRun!Run(start, s).txs
  BY DEF Ready, Sorted, Loop, ExtendRun!Run
<1>5. n \in Nat
  OBVIOUS
<1> HIDE DEF s, S, n
<1>6. start \in T[0]
  <2>1. First(s, 0) = {} /\ <<>> \in Seq(S) /\ <<>> \in Seq({}) /\ Len(<<>>) = 0
    BY <1>2, FirstFacts
  <2>2. IsRun(<<>>, {}, n)
    BY <2>1 DEF IsRun
  <2>3. start \in [next : Nat, txs : Seq(S)] /\ start.next = n /\ start.txs = <<>>
    BY <1>5, <2>1
  <2>4. n = n + Len(<<>>)
    BY <1>5, <2>1
  <2> HIDE DEF start
  <2>5. start.next = n + Len(start.txs) /\ IsRun(start.txs, First(s, 0), n)
    BY <2>1, <2>2, <2>3, <2>4
  <2> QED
    BY <2>3, <2>5
<1>7. \A k \in 1..Len(s) : \A r \in T[k - 1] : Extend(r, s[k]) \in T[k]
  <2> SUFFICES ASSUME NEW k \in 1..Len(s), NEW r \in T[k - 1]
               PROVE  Extend(r, s[k]) \in T[k]
    OBVIOUS
  <2> DEFINE old == First(s, k - 1)
             new == First(s, k)
             tx == s[k]
  <2>1. k \in Nat /\ k - 1 \in Nat /\ tx \in S
    BY <1>1, <1>2
  <2>2. /\ r \in [next : Nat, txs : Seq(S)] /\ r.next = n + Len(r.txs)
        /\ IsRun(r.txs, old, n)
    BY <2>1
  <2>3. new = old \cup {tx} /\ new \subseteq S
    <3>1. new = old \cup {tx}
      BY <1>2, FirstFacts
    <3>2. new \subseteq S
      BY <1>1 DEF First, ToSet
    <3> QED
      BY <3>1, <3>2
  <2>4. \A x \in old : x \in S /\ Rank(x) < Rank(tx) /\ x.nonce <= tx.nonce
    <3> SUFFICES ASSUME NEW j \in 1..(k - 1)
                 PROVE  s[j] \in S /\ Rank(s[j]) < Rank(tx) /\ s[j].nonce <= tx.nonce
      BY DEF First
    <3>1. j \in 1..Len(s) /\ k \in 1..Len(s) /\ j < k
      BY <1>1, <2>1
    <3>2. s[j] \in S
      BY <1>2, <3>1
    <3>3. Rank(s[j]) < Rank(tx)
      BY <1>1, <3>1 DEF Ranked
    <3> QED
      BY <1>3, <2>1, <3>2, <3>3, RankOrders
  <2>5. \A x \in S : Rank(x) \in Nat /\ x.nonce \in Nat
    BY <1>3, RankFacts
  <2>6. r.txs \in Seq(old) /\ r.txs \in Seq(new) /\ r.txs \in Seq(S) /\ Len(r.txs) \in Nat
    <3>1. r.txs \in Seq(old) /\ r.txs \in Seq(S)
      BY <2>2 DEF IsRun
    <3>2. ToSet(r.txs) \subseteq new
      BY <2>3, <3>1, ElementsOfSeq
    <3> QED
      BY <3>1, <3>2, SeqOfElements
  <2> HIDE DEF old, new, tx, T
  <2>7. CASE tx.nonce = r.next
    <3> DEFINE t == Append(r.txs, tx)
               m == Len(r.txs)
    <3>1. /\ t \in Seq(new) /\ t \in Seq(S) /\ Len(t) = m + 1
          /\ t[m + 1] = tx /\ \A j \in 1..m : t[j] = r.txs[j] /\ t[j] \in old
      BY <2>1, <2>3, <2>6
    <3> HIDE DEF t, m
    <3>2. m \in Nat /\ 1..(m + 1) = (1..m) \cup {m + 1} /\ r.next = n + m
      BY <2>2, <2>6 DEF m
    <3>3. /\ \A j \in 1..m : t[j].nonce = n + j - 1
          /\ \A j \in 1..m : \A x \in old : x.nonce = t[j].nonce => Rank(t[j]) <= Rank(x)
          /\ \A x \in old : x.nonce # n + m
      BY <2>2, <3>1 DEF IsRun, m
    <3>4. \A j \in 1..(m + 1) : t[j].nonce = n + j - 1
      <4>1. t[m + 1].nonce = n + (m + 1) - 1
        BY <1>5, <2>7, <3>1, <3>2
      <4> QED
        BY <3>2, <3>3, <4>1
    <3>5. ASSUME NEW j \in 1..(m + 1), NEW x \in new, x.nonce = t[j].nonce
          PROVE  Rank(t[j]) <= Rank(x)
      <4>1. CASE j = m + 1
        <5>1. x \notin old
          BY <2>7, <3>1, <3>2, <3>3, <3>5, <4>1
        <5>2. x = tx
          BY <2>3, <5>1
        <5> QED
          BY <2>1, <2>5, <3>1, <4>1, <5>2
      <4>2. CASE j \in 1..m /\ x = tx
        <5>1. Rank(t[j]) < Rank(tx) /\ t[j] \in S
          BY <2>4, <3>1, <4>2
        <5> QED
          BY <2>1, <2>5, <4>2, <5>1
      <4>3. CASE j \in 1..m /\ x \in old
        BY <3>3, <3>5, <4>3
      <4> QED
        BY <2>3, <3>2, <4>1, <4>2, <4>3
    <3>6. \A x \in new : x.nonce # n + Len(t)
      <4> SUFFICES ASSUME NEW x \in new, x.nonce = n + m + 1
                   PROVE  FALSE
        BY <1>5, <3>1, <3>2
      <4>1. tx.nonce = n + m /\ x.nonce <= tx.nonce
        BY <2>1, <2>3, <2>4, <2>5, <2>7, <3>2
      <4> QED
        BY <1>5, <3>2, <4>1
    <3>7. IsRun(t, new, n)
      BY <3>1, <3>4, <3>5, <3>6 DEF IsRun
    <3>8. Extend(r, tx) = [next |-> r.next + 1, txs |-> t]
      BY <2>7 DEF Extend, t
    <3>9. r.next + 1 \in Nat /\ r.next + 1 = n + Len(t)
      BY <1>5, <3>1, <3>2
    <3> QED
      BY <2>1, <3>1, <3>7, <3>8, <3>9 DEF T, new, tx
  <2>8. CASE tx.nonce # r.next
    <3>1. Extend(r, tx) = r
      BY <2>8 DEF Extend
    <3>2. ASSUME NEW j \in 1..Len(r.txs), NEW x \in new, x.nonce = r.txs[j].nonce
          PROVE  Rank(r.txs[j]) <= Rank(x)
      <4>1. CASE x \in old
        BY <2>2, <3>2, <4>1 DEF IsRun
      <4>2. CASE x = tx
        <5>1. r.txs[j] \in old
          BY <2>6
        <5>2. Rank(r.txs[j]) < Rank(tx) /\ r.txs[j] \in S
          BY <2>4, <5>1
        <5> QED
          BY <2>1, <2>5, <4>2, <5>2
      <4> QED
        BY <2>3, <4>1, <4>2
    <3>3. \A x \in new : x.nonce # n + Len(r.txs)
      BY <2>2, <2>3, <2>8 DEF IsRun
    <3>4. IsRun(r.txs, new, n)
      BY <2>2, <2>6, <3>2, <3>3 DEF IsRun
    <3> QED
      BY <2>1, <2>2, <3>1, <3>4 DEF T, new, tx
  <2> QED
    BY <2>7, <2>8 DEF tx
<1> HIDE DEF T, start
<1>8. ExtendRun!Run(start, s) \in T[Len(s)]
  BY <1>2, <1>6, <1>7, ExtendRun!RunKeeps
<1>9. IsRun(Ready(q, next, a), First(s, Len(s)), n)
  BY <1>1, <1>4, <1>8 DEF T
<1>10. First(s, Len(s)) = S
  BY <1>1, FirstFacts
<1> QED
  BY <1>9, <1>10 DEF S, n
---------------------------------------------------------------------------
\* One transaction more is one more of its sender.
LEMMA SentInAppend ==
    ASSUME NEW S, NEW txs \in Seq(S), NEW x \in S, NEW a
    PROVE  /\ Cardinality(SentIn(txs, a)) \in Nat
           /\ x.from = a => Cardinality(SentIn(Append(txs, x), a)) = Cardinality(SentIn(txs, a)) + 1
           /\ x.from # a => SentIn(Append(txs, x), a) = SentIn(txs, a)
<1> DEFINE n == Len(txs)
           t == Append(txs, x)
           old == SentIn(txs, a)
<1>1. /\ n \in Nat /\ DOMAIN txs = 1..n /\ DOMAIN t = 1..(n + 1)
      /\ t[n + 1] = x /\ \A i \in 1..n : t[i] = txs[i]
  OBVIOUS
<1> HIDE DEF n, t
<1>2. 1..(n + 1) = (1..n) \cup {n + 1} /\ n + 1 \notin 1..n
  BY <1>1
<1>3. IsFiniteSet(old) /\ n + 1 \notin old
  <2>1. IsFiniteSet(1..n)
    BY <1>1, FS_Interval
  <2>2. old \subseteq 1..n
    BY <1>1 DEF SentIn
  <2> HIDE DEF old
  <2> QED
    BY <1>2, <2>1, <2>2, FS_Subset
<1>4. SentIn(t, a) = old \cup (IF x.from = a THEN {n + 1} ELSE {})
  BY <1>1, <1>2 DEF SentIn
<1> HIDE DEF old
<1>5. Cardinality(old) \in Nat /\ Cardinality(old \cup {n + 1}) = Cardinality(old) + 1
  BY <1>3, FS_AddElement, FS_CardinalityType
<1> QED
  BY <1>4, <1>5 DEF old, t

\* The transactions of a sender before the i-th.
Before(txs, i, a) == {j \in 1..(i - 1) : txs[j].from = a}

\* Every transaction has the nonce that follows those before it.
InOrder(txs, next) ==
    \A i \in DOMAIN txs : txs[i].nonce = next[txs[i].from] + Cardinality(Before(txs, i, txs[i].from))

\* A later transaction of a sender has more of its transactions before it.
LEMMA BeforeGrows ==
    ASSUME NEW S, NEW txs \in Seq(S), NEW a, NEW i \in 1..Len(txs), txs[i].from = a,
           NEW m \in Nat, i < m, m <= Len(txs) + 1
    PROVE  /\ Cardinality(Before(txs, i, a)) \in Nat /\ Cardinality(Before(txs, m, a)) \in Nat
           /\ Cardinality(Before(txs, i, a)) < Cardinality(Before(txs, m, a))
<1>1. Before(txs, i, a) \subseteq Before(txs, m, a) /\ i \in Before(txs, m, a) /\ i \notin Before(txs, i, a)
  BY DEF Before
<1>2. IsFiniteSet(Before(txs, m, a))
  <2>1. IsFiniteSet(1..(m - 1)) /\ Before(txs, m, a) \subseteq 1..(m - 1)
    BY FS_Interval DEF Before
  <2> QED
    BY <2>1, FS_Subset
<1>3. IsFiniteSet(Before(txs, i, a)) /\ Cardinality(Before(txs, i, a)) <= Cardinality(Before(txs, m, a))
  BY <1>1, <1>2, FS_Subset
<1>4. Cardinality(Before(txs, i, a)) # Cardinality(Before(txs, m, a))
  BY <1>1, <1>2, FS_Subset
<1> QED
  BY <1>2, <1>3, <1>4, FS_CardinalityType

\* All of them are before the end.
LEMMA BeforeEnd ==
    ASSUME NEW S, NEW txs \in Seq(S), NEW a
    PROVE  SentIn(txs, a) = Before(txs, Len(txs) + 1, a)
  BY DEF SentIn, Before

\* Such a sequence has every transaction once.
LEMMA OrderIsInjective ==
    ASSUME NEW S, NEW txs \in Seq(S), \A x \in S : x.from \in Address,
           NEW next \in [Address -> Nat], InOrder(txs, next)
    PROVE  IsInjective(txs)
<1>1. DOMAIN txs = 1..Len(txs) /\ Len(txs) \in Nat /\ \A i \in 1..Len(txs) : txs[i] \in S
  OBVIOUS
<1>2. ASSUME NEW i \in 1..Len(txs), NEW m \in 1..Len(txs), i < m, txs[i] = txs[m]
      PROVE  FALSE
  <2>1. PICK a \in Address : txs[i].from = a /\ txs[m].from = a
    BY <1>1, <1>2
  <2>2. /\ Cardinality(Before(txs, i, a)) \in Nat /\ Cardinality(Before(txs, m, a)) \in Nat
        /\ Cardinality(Before(txs, i, a)) < Cardinality(Before(txs, m, a))
    BY <1>2, <2>1, BeforeGrows
  <2>3. /\ txs[i].nonce = next[a] + Cardinality(Before(txs, i, a))
        /\ txs[m].nonce = next[a] + Cardinality(Before(txs, m, a))
    BY <1>1, <2>1 DEF InOrder
  <2>4. next[a] \in Nat
    OBVIOUS
  <2> QED
    BY <1>2, <2>2, <2>3, <2>4
<1> QED
  BY <1>1, <1>2 DEF IsInjective
---------------------------------------------------------------------------
Drawn(txs, a) == Cardinality(SentIn(txs, a))

\* What is left of the sender is what follows what was drawn of its run.
Rest(left, run, drawn) ==
    /\ drawn + Len(left) = Len(run)
    /\ \A j \in 1..Len(left) : left[j] = run[drawn + j]

\* When the head of the rest is drawn, its tail is the rest.
LEMMA RestTail ==
    ASSUME NEW S, NEW left \in Seq(S), left # <<>>, NEW run, NEW drawn \in Nat, Rest(left, run, drawn)
    PROVE  Rest(Tail(left), run, drawn + 1)
<1> DEFINE rest == Tail(left)
           m == Len(rest)
           total == Len(run)
<1>1. /\ m \in Nat /\ Len(left) = m + 1
      /\ \A j \in 1..m : rest[j] = left[j + 1]
  OBVIOUS
<1>2. drawn + Len(left) = total
  BY DEF Rest
<1> HIDE DEF rest, m, total
<1>3. (drawn + 1) + m = total
  BY <1>1, <1>2
<1>4. ASSUME NEW j \in 1..m
      PROVE  rest[j] = run[(drawn + 1) + j]
  <2>1. j + 1 \in 1..Len(left) /\ drawn + (j + 1) = (drawn + 1) + j
    BY <1>1
  <2>2. left[j + 1] = run[drawn + (j + 1)]
    BY <2>1 DEF Rest
  <2> QED
    BY <1>1, <2>1, <2>2
<1> QED
  BY <1>3, <1>4 DEF Rest, rest, m, total

Fitting(acc) == {tx \in Heads(acc) : Fits(acc, tx)}

\* The selection while it is made.
Drawing(q, next) ==
    {acc \in Selecting(q) :
        /\ TotalGas(acc.out) <= MaxGasPerBlock
        /\ InOrder(acc.out, next)
        /\ \A a \in Address : Rest(acc.lists[a], Ready(q, next, a), Drawn(acc.out, a))}

\* The head of a list is the first transaction of the nonce that follows.
LEMMA HeadFacts ==
    ASSUME NEW q \in Seq(Transactions), NEW next \in [Address -> Nat],
           NEW acc \in Drawing(q, next), NEW a \in Address, acc.lists[a] # <<>>
    PROVE  LET tx == Head(acc.lists[a])
           IN  /\ tx \in SentBy(a, q) /\ tx \in Transactions
               /\ tx.nonce = next[a] + Drawn(acc.out, a)
               /\ \A x \in SentBy(a, q) : x.nonce = tx.nonce => Rank(tx) <= Rank(x)
<1> DEFINE left == acc.lists[a]
           run == Ready(q, next, a)
           c == Drawn(acc.out, a)
           tx == Head(left)
<1>1. left \in Seq(SentBy(a, q)) /\ left # <<>> /\ acc.out \in Seq(ToSet(q)) /\ Rest(left, run, c)
  BY DEF Drawing, Selecting
<1>2. IsRun(run, SentBy(a, q), next[a])
  BY ReadyIsRun
<1>3. c \in Nat
  <2>1. \A x \in ToSet(q) : c \in Nat
    BY <1>1, SentInAppend DEF Drawn
  <2>2. left[1] \in SentBy(a, q)
    BY <1>1
  <2> QED
    BY <2>1, <2>2 DEF SentBy
<1> HIDE DEF left, run, c
<1>4. Len(left) \in Nat /\ Len(left) >= 1 /\ tx = left[1] /\ tx \in SentBy(a, q)
  BY <1>1
<1>5. Len(run) \in Nat
  BY <1>2 DEF IsRun
<1>6. c + 1 \in 1..Len(run) /\ tx = run[c + 1]
  BY <1>1, <1>3, <1>4, <1>5 DEF Rest
<1>7. next[a] \in Nat
  OBVIOUS
<1>8. tx.nonce = next[a] + c
  <2>1. tx.nonce = next[a] + (c + 1) - 1
    BY <1>2, <1>6 DEF IsRun
  <2> QED
    BY <1>3, <1>7, <2>1
<1>9. \A x \in SentBy(a, q) : x.nonce = tx.nonce => Rank(tx) <= Rank(x)
  BY <1>2, <1>6 DEF IsRun
<1>10. tx \in Transactions
  BY <1>4, ElementsOfSeq DEF SentBy
<1> QED
  BY <1>4, <1>8, <1>9, <1>10 DEF left, c

\* Who sent what is selected.
LEMMA SenderFacts ==
    ASSUME NEW q \in Seq(Transactions), NEW tx \in ToSet(q)
    PROVE  tx \in Transactions /\ tx.from \in Address /\ tx \in SentBy(tx.from, q)
<1>1. tx \in Transactions
  BY ElementsOfSeq
<1> QED
  BY <1>1, TransactionsFacts DEF Transaction, SentBy

\* One turn draws the best head that fits, if there is one.
LEMMA DrawFacts ==
    ASSUME NEW q \in Seq(Transactions), NEW next \in [Address -> Nat],
           NEW acc \in Drawing(q, next), NEW turn
    PROVE  /\ TakeBest(acc, turn) \in Drawing(q, next)
           /\ Fitting(acc) = {} => TakeBest(acc, turn) = acc
           /\ Fitting(acc) # {} => Len(TakeBest(acc, turn).out) = Len(acc.out) + 1
<1>1. Fitting(acc) = {} => TakeBest(acc, turn) = acc
  BY DEF TakeBest, Fitting
<1> SUFFICES ASSUME Fitting(acc) # {}
             PROVE  /\ TakeBest(acc, turn) \in Drawing(q, next)
                    /\ Len(TakeBest(acc, turn).out) = Len(acc.out) + 1
  BY <1>1
<1>2. acc \in Selecting(q) /\ acc.out \in Seq(ToSet(q)) /\ acc.lists \in [Address -> Seq(ToSet(q))]
  BY DEF Drawing, Selecting
<1>3. PICK best \in Fitting(acc) : TakeBest(acc, turn) = Take(acc, best)
  <2>1. \A tx \in Heads(acc) : tx \in Transactions
    BY HeadFacts DEF Heads
  <2>2. Fitting(acc) \subseteq Transactions
    BY <2>1 DEF Fitting
  <2>3. Best(Fitting(acc)) \in Fitting(acc)
    BY <2>2, BestFacts
  <2>4. TakeBest(acc, turn) = Take(acc, Best(Fitting(acc)))
    BY DEF TakeBest, Fitting
  <2> QED
    BY <2>3, <2>4
<1>4. PICK b \in Address : acc.lists[b] # <<>> /\ best = Head(acc.lists[b])
  BY DEF Fitting, Heads
<1>5. /\ best \in ToSet(q) /\ best.from = b
      /\ best.nonce = next[b] + Drawn(acc.out, b)
      /\ TotalGas(acc.out) + GasUsed(best) <= MaxGasPerBlock
  BY <1>4, HeadFacts DEF SentBy, Fitting, Fits
<1> DEFINE new == Take(acc, best)
           out == acc.out
           n == Len(out)
<1>6. new = [lists |-> [acc.lists EXCEPT ![b] = Tail(@)], out |-> Append(out, best)]
  BY <1>5 DEF Take
<1>7. new \in Selecting(q)
  BY <1>2, <1>3, TakeBestFacts
<1>8. TotalGas(new.out) <= MaxGasPerBlock
  BY <1>2, <1>5, <1>6, TotalGasAppend
<1>9. InOrder(new.out, next)
  <2> DEFINE t == new.out
  <2>1. /\ n \in Nat /\ DOMAIN out = 1..n /\ DOMAIN t = 1..(n + 1)
        /\ t[n + 1] = best /\ \A i \in 1..n : t[i] = out[i]
    BY <1>2, <1>5, <1>6
  <2>2. InOrder(out, next)
    BY DEF Drawing
  <2> HIDE DEF t, n, out
  <2>3. \A i \in 1..(n + 1) : \A a : Before(t, i, a) = Before(out, i, a)
    BY <2>1 DEF Before
  <2>4. \A i \in 1..n : t[i].nonce = next[t[i].from] + Cardinality(Before(t, i, t[i].from))
    BY <2>1, <2>2, <2>3 DEF InOrder
  <2>5. Before(t, n + 1, b) = SentIn(out, b)
    BY <1>2, <2>1, <2>3, BeforeEnd DEF n, out
  <2>6. 1..(n + 1) = (1..n) \cup {n + 1}
    BY <2>1
  <2>7. t[n + 1].nonce = next[b] + Cardinality(Before(t, n + 1, b)) /\ t[n + 1].from = b
    BY <1>5, <2>1, <2>5 DEF Drawn, out
  <2>8. InOrder(t, next)
    BY <2>1, <2>4, <2>6, <2>7 DEF InOrder
  <2> QED
    BY <2>8 DEF t
<1>10. ASSUME NEW a \in Address
       PROVE  Rest(new.lists[a], Ready(q, next, a), Drawn(new.out, a))
  <2> DEFINE left == acc.lists[a]
             run == Ready(q, next, a)
             c == Drawn(out, a)
  <2>1. Rest(left, run, c)
    BY DEF Drawing
  <2>2. /\ c \in Nat
        /\ a = b => Drawn(new.out, a) = c + 1
        /\ a # b => Drawn(new.out, a) = c
    BY <1>2, <1>5, <1>6, SentInAppend DEF Drawn
  <2>3. CASE a # b
    <3>1. new.lists[a] = left
      BY <1>2, <1>6, <2>3
    <3> QED
      BY <2>1, <2>2, <2>3, <3>1
  <2>4. CASE a = b
    <3>1. new.lists[a] = Tail(left) /\ left \in Seq(ToSet(q)) /\ left # <<>>
      <4>1. new.lists = [acc.lists EXCEPT ![b] = Tail(@)]
        BY <1>6
      <4>2. left \in Seq(ToSet(q)) /\ left # <<>>
        BY <1>2, <1>4, <2>4
      <4> HIDE DEF new
      <4> QED
        BY <1>2, <2>4, <4>1, <4>2
    <3>2. Rest(Tail(left), run, c + 1)
      BY <2>1, <2>2, <3>1, RestTail
    <3> HIDE DEF left, run, c, new
    <3> QED
      BY <2>2, <2>4, <3>1, <3>2 DEF run
  <2> QED
    BY <2>3, <2>4
<1>11. Len(new.out) = n + 1
  BY <1>2, <1>5, <1>6
<1> QED
  BY <1>3, <1>7, <1>8, <1>9, <1>10, <1>11 DEF Drawing
---------------------------------------------------------------------------
\* When as many transactions were drawn as are pending, nothing is left.
LEMMA NothingLeft ==
    ASSUME NEW q \in Seq(Transactions), NEW next \in [Address -> Nat],
           NEW acc \in Drawing(q, next), Len(acc.out) >= Cardinality(ToSet(q))
    PROVE  Fitting(acc) = {}
<1> DEFINE out == acc.out
<1>1. out \in Seq(ToSet(q)) /\ InOrder(out, next) /\ Len(out) \in Nat /\ DOMAIN out = 1..Len(out)
  BY DEF Drawing, Selecting
<1>2. \A x \in ToSet(q) : x.from \in Address
  BY SenderFacts
<1> HIDE DEF out
<1>3. Len(out) = Cardinality(ToSet(out)) /\ ToSet(out) \subseteq ToSet(q)
  BY <1>1, <1>2, OrderIsInjective, LengthIsCardinality, ElementsOfSeq
<1>4. ToSet(out) = ToSet(q)
  <2>1. IsFiniteSet(ToSet(q)) /\ Cardinality(ToSet(q)) \in Nat
    BY LengthIsCardinality
  <2>2. Cardinality(ToSet(out)) <= Cardinality(ToSet(q))
    BY <1>3, <2>1, FS_Subset
  <2>3. Cardinality(ToSet(out)) = Cardinality(ToSet(q))
    BY <1>1, <1>3, <2>1, <2>2 DEF out
  <2> QED
    BY <1>3, <2>1, <2>3, FS_Subset
<1>5. ASSUME NEW a \in Address, acc.lists[a] # <<>>
      PROVE  FALSE
  <2>1. PICK tx \in SentBy(a, q) : tx.nonce = next[a] + Cardinality(SentIn(out, a))
    BY <1>5, HeadFacts DEF Drawn, out
  <2>2. PICK i \in 1..Len(out) : out[i] = tx
    BY <1>1, <1>4, <2>1 DEF SentBy, ToSet
  <2>3. tx.from = a /\ Len(out) + 1 \in Nat /\ i < Len(out) + 1
    BY <1>1, <2>1 DEF SentBy
  <2>4. /\ Cardinality(Before(out, i, a)) \in Nat /\ Cardinality(Before(out, Len(out) + 1, a)) \in Nat
        /\ Cardinality(Before(out, i, a)) < Cardinality(Before(out, Len(out) + 1, a))
    BY <1>1, <2>2, <2>3, BeforeGrows
  <2>5. tx.nonce = next[a] + Cardinality(Before(out, i, a))
    BY <1>1, <2>2, <2>3 DEF InOrder
  <2>6. SentIn(out, a) = Before(out, Len(out) + 1, a)
    BY <1>1, BeforeEnd
  <2>7. next[a] \in Nat
    OBVIOUS
  <2> QED
    BY <2>1, <2>4, <2>5, <2>6, <2>7
<1> QED
  BY <1>5 DEF Fitting, Heads

Started(q, next) == [lists |-> [a \in Address |-> Ready(q, next, a)], out |-> <<>>]

\* The selection starts with all that is ready.
LEMMA StartedFacts ==
    ASSUME NEW q \in Seq(Transactions), NEW next \in [Address -> Nat]
    PROVE  Started(q, next) \in Drawing(q, next)
<1> DEFINE start == Started(q, next)
<1>1. /\ start.lists \in [Address -> Seq(ToSet(q))]
      /\ \A a \in Address : start.lists[a] = Ready(q, next, a) /\ start.lists[a] \in Seq(SentBy(a, q))
  <2>1. ASSUME NEW a \in Address
        PROVE  Ready(q, next, a) \in Seq(SentBy(a, q)) /\ Ready(q, next, a) \in Seq(ToSet(q))
    <3>1. Ready(q, next, a) \in Seq(SentBy(a, q))
      BY ReadyFacts
    <3>2. SentBy(a, q) \subseteq ToSet(q)
      BY DEF SentBy
    <3> QED
      BY <3>1, <3>2
  <2> QED
    BY <2>1 DEF Started
<1>2. start.out = <<>> /\ start = [lists |-> start.lists, out |-> <<>>]
  BY DEF Started
<1> HIDE DEF start
<1>3. <<>> \in Seq(ToSet(q)) /\ TotalGas(<<>>) = 0 /\ InOrder(<<>>, next) /\ \A a : Drawn(<<>>, a) = 0
  <2>1. DOMAIN <<>> = {}
    OBVIOUS
  <2>2. \A a : SentIn(<<>>, a) = {}
    BY <2>1 DEF SentIn
  <2>3. TotalGas(<<>>) = 0
    BY GasRun!RunEmpty DEF TotalGas, Loop, GasRun!Run
  <2>4. InOrder(<<>>, next) /\ <<>> \in Seq(ToSet(q))
    BY <2>1 DEF InOrder
  <2>5. \A a : Drawn(<<>>, a) = 0
    BY <2>2, FS_EmptySet DEF Drawn
  <2> QED
    BY <2>3, <2>4, <2>5
<1>4. ASSUME NEW a \in Address
      PROVE  Rest(start.lists[a], Ready(q, next, a), Drawn(start.out, a))
  <2> DEFINE run == Ready(q, next, a)
  <2>1. Len(run) \in Nat /\ 0 + Len(run) = Len(run) /\ \A j \in 1..Len(run) : 0 + j = j
    BY <1>1
  <2> HIDE DEF run
  <2>2. Rest(run, run, 0)
    BY <2>1 DEF Rest
  <2> QED
    BY <1>1, <1>2, <1>3, <2>2 DEF run
<1>5. start \in Selecting(q)
  BY <1>1, <1>2, <1>3 DEF Selecting
<1>6. MaxGasPerBlock \in Nat
  BY TransactionsFacts
<1> QED
  BY <1>2, <1>3, <1>4, <1>5, <1>6 DEF Drawing, start

\* After as many turns as there are transactions pending nothing fits any more.
LEMMA SelectionEnds ==
    ASSUME NEW q \in Seq(Transactions), NEW next \in [Address -> Nat],
           NEW S, NEW turns \in Seq(S), Cardinality(ToSet(q)) <= Len(turns)
    PROVE  LET end == TakeRun!Run(Started(q, next), turns)
           IN  end \in Drawing(q, next) /\ Fitting(end) = {}
<1> DEFINE T == [k \in Nat |-> {acc \in Drawing(q, next) : Len(acc.out) = k \/ Fitting(acc) = {}}]
           end == TakeRun!Run(Started(q, next), turns)
           m == Len(turns)
<1>1. m \in Nat
  OBVIOUS
<1>2. Started(q, next) \in T[0]
  <2>1. Len(Started(q, next).out) = 0
    BY DEF Started
  <2> QED
    BY <2>1, StartedFacts
<1>3. \A k \in 1..m : \A r \in T[k - 1] : TakeBest(r, turns[k]) \in T[k]
  <2> SUFFICES ASSUME NEW k \in 1..m, NEW r \in T[k - 1]
               PROVE  TakeBest(r, turns[k]) \in T[k]
    OBVIOUS
  <2>1. k \in Nat /\ k - 1 \in Nat
    BY <1>1
  <2>2. r \in Drawing(q, next) /\ (Len(r.out) = k - 1 \/ Fitting(r) = {})
    BY <2>1
  <2> DEFINE new == TakeBest(r, turns[k])
  <2>3. /\ new \in Drawing(q, next)
        /\ Fitting(r) = {} => new = r
        /\ Fitting(r) # {} => Len(new.out) = Len(r.out) + 1
    BY <2>2, DrawFacts
  <2> HIDE DEF new
  <2>4. Len(new.out) = k \/ Fitting(new) = {}
    BY <2>1, <2>2, <2>3
  <2> QED
    BY <2>1, <2>3, <2>4 DEF new
<1> HIDE DEF T
<1>4. end \in T[m]
  BY <1>2, <1>3, TakeRun!RunKeeps
<1> HIDE DEF end
<1>5. end \in Drawing(q, next) /\ (Len(end.out) = m \/ Fitting(end) = {})
  BY <1>1, <1>4 DEF T
<1>6. Cardinality(ToSet(q)) \in Nat
  BY LengthIsCardinality
<1>7. Fitting(end) = {}
  BY <1>1, <1>5, <1>6, NothingLeft
<1> QED
  BY <1>5, <1>7 DEF end

\* More turns than that change nothing.
LEMMA SelectionStays ==
    ASSUME NEW q \in Seq(Transactions), NEW next \in [Address -> Nat],
           NEW S, NEW short \in Seq(S), NEW long \in Seq(S),
           Cardinality(ToSet(q)) <= Len(short), Len(short) <= Len(long)
    PROVE  TakeRun!Run(Started(q, next), long) = TakeRun!Run(Started(q, next), short)
<1> DEFINE start == Started(q, next)
           m == Len(short)
           end == TakeRun!Run(start, short)
<1>1. m \in Nat /\ Len(long) \in Nat /\ m <= Len(long)
  OBVIOUS
<1>2. end \in Drawing(q, next) /\ Fitting(end) = {}
  BY SelectionEnds
<1> HIDE DEF start, end
<1>3. PICK f : TakeRun!Trace(f, start, short, m) /\ end = f[m]
  BY TakeRun!RunTrace DEF end
<1> DEFINE T == [k \in Nat |-> IF k <= m THEN {f[k]} ELSE {end}]
<1>4. start \in T[0]
  BY <1>1, <1>3 DEF TakeRun!Trace
<1>5. \A k \in 1..Len(long) : \A r \in T[k - 1] : TakeBest(r, long[k]) \in T[k]
  <2> SUFFICES ASSUME NEW k \in 1..Len(long), NEW r \in T[k - 1]
               PROVE  TakeBest(r, long[k]) \in T[k]
    OBVIOUS
  <2>1. k \in Nat /\ k - 1 \in Nat
    BY <1>1
  <2>2. CASE k <= m
    <3>1. r = f[k - 1] /\ k \in 0..m /\ k # 0
      BY <1>1, <2>1, <2>2
    <3>2. f[k] = TakeBest(f[k - 1], short[k])
      BY <1>3, <3>1 DEF TakeRun!Trace
    <3>3. TakeBest(f[k - 1], long[k]) = TakeBest(f[k - 1], short[k])
      BY DEF TakeBest
    <3> QED
      BY <2>1, <2>2, <3>1, <3>2, <3>3
  <2>3. CASE ~(k <= m)
    <3>1. k - 1 = m \/ ~(k - 1 <= m)
      BY <1>1, <2>1, <2>3
    <3>2. r = end
      BY <1>3, <2>1, <3>1
    <3>3. TakeBest(end, long[k]) = end
      BY <1>2, DrawFacts
    <3> QED
      BY <2>1, <2>3, <3>2, <3>3
  <2> QED
    BY <2>2, <2>3
<1> HIDE DEF T
<1>6. TakeRun!Run(start, long) \in T[Len(long)]
  BY <1>4, <1>5, TakeRun!RunKeeps
<1>7. TakeRun!Run(start, long) = end
  BY <1>1, <1>3, <1>6 DEF T
<1> QED
  BY <1>7 DEF start, end
---------------------------------------------------------------------------
\* SelectWithNonces is the end of the selection with a turn for each
\* transaction of the pool.
LEMMA SelectedFacts ==
    ASSUME NEW q \in Seq(Transactions), NEW next \in [Address -> Nat]
    PROVE  \E acc \in Drawing(q, next) : Fitting(acc) = {} /\ SelectWithNonces(q, next) = acc.out
<1>1. Cardinality(ToSet(q)) <= Len(q)
  BY LengthIsCardinality
<1>2. SelectWithNonces(q, next) = TakeRun!Run(Started(q, next), q).out
  BY DEF SelectWithNonces, Started, Loop, TakeRun!Run
<1> QED
  BY <1>1, <1>2, SelectionEnds

\* SelectWithNonces selects from what is pending.
LEMMA SelectFacts ==
    ASSUME NEW q \in Seq(Transactions), NEW next \in [Address -> Nat]
    PROVE  /\ SelectWithNonces(q, next) \in Seq(Transactions)
           /\ ToSet(SelectWithNonces(q, next)) \subseteq ToSet(q)
<1>1. PICK acc \in Drawing(q, next) : SelectWithNonces(q, next) = acc.out
  BY SelectedFacts
<1>2. acc.out \in Seq(ToSet(q))
  BY DEF Drawing, Selecting
<1>3. ToSet(acc.out) \subseteq ToSet(q) /\ ToSet(q) \subseteq Transactions
  BY <1>2, ElementsOfSeq
<1> QED
  BY <1>1, <1>2, <1>3, SeqOfElements

\* Requeueing gives known transactions, whatever the order of the orphans.
LEMMA RequeueFacts ==
    ASSUME NEW blocks \in Chain, ValidChain(blocks), NEW q \in Seq(Transactions),
           NEW orphans \in Seq(Transactions)
    PROVE  Requeue(q, orphans, blocks) \in Seq(Transactions)
<1> DEFINE l == LedgerOf(blocks)
           r == RevalidateTransactions(q, blocks)
           start == [work |-> ApplyPending(l, r), kept |-> r, room |-> MaxTxCount]
           T == [k \in Nat |-> Requeuing]
           end == RequeueRun!Run(start, orphans)
<1>1. Sound(l) /\ r \in Seq(Transactions)
  BY LedgerOfGood, RevalidateFacts
<1>2. Requeue(q, orphans, blocks) = SelectWithNonces(end.kept, NextNonce(l))
  BY DEF Requeue, Loop, RequeueRun!Run
<1>3. NextNonce(l) \in [Address -> Nat]
  <2>1. l.nonce \in [Address -> 0..MaxNonce] /\ MaxNonce \in Nat
    BY <1>1, ParamAssumption DEF Sound, LedgerState
  <2> HIDE DEF l
  <2> QED
    BY <2>1 DEF NextNonce
<1> HIDE DEF l, r
<1>4. start \in Requeuing
  <2>1. Sound(ApplyPending(l, r)) /\ ApplyPending(l, r) \in LedgerState
    BY <1>1, ApplyPendingSound DEF Sound
  <2> QED
    BY <1>1, <2>1 DEF Requeuing
<1>5. Len(orphans) \in Nat /\ \A k \in 1..Len(orphans) : orphans[k] \in Transactions
  OBVIOUS
<1>6. start \in T[0] /\ T[Len(orphans)] = Requeuing
  BY <1>4, <1>5
<1>7. \A k \in 1..Len(orphans) : \A acc \in T[k - 1] : RequeueNext(acc, orphans[k]) \in T[k]
  BY <1>5, RequeueNextFacts
<1> HIDE DEF T, start
<1>8. end \in T[Len(orphans)]
  BY <1>6, <1>7, RequeueRun!RunKeeps
<1>9. end.kept \in Seq(Transactions)
  BY <1>6, <1>8 DEF Requeuing
<1> HIDE DEF end
<1> QED
  BY <1>2, <1>3, <1>9, SelectFacts
---------------------------------------------------------------------------
\* Between two ledgers the nonce of each account has moved over the nonces of
\* its transactions in a set, all of them and nothing else.
Numbered(l, m, txs) ==
    /\ \A a \in Address : l.nonce[a] <= m.nonce[a]
    /\ \A tx \in txs : tx.nonce > l.nonce[tx.from] /\ tx.nonce <= m.nonce[tx.from]
    /\ \A a \in Address, n \in Nat :
          n > l.nonce[a] /\ n <= m.nonce[a] => \E tx \in txs : tx.from = a /\ tx.nonce = n

\* A transaction that executes takes the next nonce of its sender.
LEMMA NumberedStep ==
    ASSUME NEW l, Sound(l), NEW m, Sound(m), NEW txs \in SUBSET Transaction, Numbered(l, m, txs),
           NEW tx \in Transaction, NEW new, Sound(new), Executed(m, tx, new)
    PROVE  Numbered(l, new, txs \cup {tx})
<1>1. /\ l.nonce \in [Address -> 0..MaxNonce] /\ m.nonce \in [Address -> 0..MaxNonce]
      /\ new.nonce \in [Address -> 0..MaxNonce] /\ MaxNonce \in Nat
  BY ParamAssumption DEF Sound, LedgerState
<1>2. tx.from \in Address /\ tx.nonce \in Nat
  BY ParamAssumption DEF Transaction
<1>3. new.nonce = [m.nonce EXCEPT ![tx.from] = tx.nonce] /\ tx.nonce = m.nonce[tx.from] + 1
  BY DEF Executed
<1>4. \A a \in Address : /\ l.nonce[a] \in Nat /\ m.nonce[a] \in Nat /\ new.nonce[a] \in Nat
                         /\ l.nonce[a] <= m.nonce[a] /\ m.nonce[a] <= new.nonce[a]
                         /\ new.nonce[a] = IF a = tx.from THEN m.nonce[a] + 1 ELSE m.nonce[a]
  BY <1>1, <1>2, <1>3 DEF Numbered
<1>5. \A a \in Address : l.nonce[a] <= new.nonce[a]
  BY <1>4
<1>6. ASSUME NEW x \in txs \cup {tx}
      PROVE  x.nonce > l.nonce[x.from] /\ x.nonce <= new.nonce[x.from]
  <2>1. CASE x = tx
    BY <1>2, <1>3, <1>4, <2>1
  <2>2. CASE x \in txs
    <3>1. x.nonce > l.nonce[x.from] /\ x.nonce <= m.nonce[x.from]
      BY <2>2 DEF Numbered
    <3>2. x.from \in Address /\ x.nonce \in Nat
      BY <2>2, ParamAssumption DEF Transaction
    <3> QED
      BY <1>4, <3>1, <3>2
  <2> QED
    BY <2>1, <2>2
<1>7. ASSUME NEW a \in Address, NEW n \in Nat, n > l.nonce[a], n <= new.nonce[a]
      PROVE  \E x \in txs \cup {tx} : x.from = a /\ x.nonce = n
  <2>1. CASE n <= m.nonce[a]
    BY <1>7, <2>1 DEF Numbered
  <2>2. CASE ~(n <= m.nonce[a])
    BY <1>2, <1>3, <1>4, <1>7, <2>2
  <2> QED
    BY <2>1, <2>2
<1> QED
  BY <1>5, <1>6, <1>7 DEF Numbered

\* The loop over the transactions of a block moves the nonces over theirs.
LEMMA BlockNumbered ==
    ASSUME NEW l, Good(l), NEW block \in Block(Seq(Transaction)), ApplyBlock(l, block).ok
    PROVE  Numbered(l, ApplyBlock(l, block).ledger, ToSet(block.txs))
<1> DEFINE h == l.height
           c == Coin(l) + BlockSubsidy
           txs == block.txs
           opened == Opened(l, block.to)
           applied == ApplyTransactions(opened, txs)
           T == [k \in Nat |-> {r \in InBlock(h, c) : r.ok => Numbered(l, r.ledger, First(txs, k))}]
<1>1. block.to \in Address /\ block.miner \in Address /\ txs \in Seq(Transaction)
  BY DEF Block
<1>2. Sound(l) /\ Backed(l) /\ h \in Nat /\ h + 1 \in Nat /\ c \in Nat
  <2>1. Sound(l) /\ Backed(l) /\ h \in Nat
    BY DEF Good, Sound, LedgerState
  <2>2. Coin(l) \in Nat
    BY <2>1, CoinType
  <2>3. BlockSubsidy \in Nat
    BY ParamAssumption, MaxUintAssumption DEF Uint
  <2> QED
    BY <2>1, <2>2, <2>3
<1>3. opened \in InBlock(h, c) /\ (opened.ok => opened.ledger.nonce = l.nonce)
  <2>1. opened \in InBlock(h, c)
    BY <1>1, OpenedInBlock
  <2>2. ASSUME CanOpen(l, block.to)
        PROVE  opened.ledger.nonce = l.nonce
    <3> DEFINE b == BeginBlock(l, l.height + 1)
    <3>1. Sound(b) /\ b.nonce = l.nonce
      BY <1>2, BeginBlockSound, BeginBlockTotals
    <3>2. opened.ledger = ApplyCoinbaseAtHeight(b, block.to, BlockSubsidy, l.height + 1)
      BY <2>2 DEF Opened, OpenedLedger, Ok
    <3> HIDE DEF b, opened
    <3> QED
      BY <3>1, <3>2 DEF ApplyCoinbaseAtHeight, Sound, LedgerState
  <2>3. opened.ok => CanOpen(l, block.to)
    BY DEF Opened, Err
  <2> QED
    BY <2>1, <2>2, <2>3
<1>4. Len(txs) \in Nat /\ \A k \in 1..Len(txs) : txs[k] \in Transaction
  BY <1>1
<1>5. ApplyBlock(l, block) = IF applied.ok /\ CanSettleFees(applied.ledger, block.miner)
                             THEN Ok(FinishBlock(applied.ledger, block.miner, l.height + 1))
                             ELSE Err(Clone(l))
  BY ApplyBlockForm
<1> HIDE DEF txs, opened, c
<1>6. opened \in T[0]
  <2>1. opened.ok => Numbered(l, opened.ledger, {})
    <3>1. l.nonce \in [Address -> 0..MaxNonce] /\ MaxNonce \in Nat
      BY <1>2, ParamAssumption DEF Sound, LedgerState
    <3> QED
      BY <1>3, <3>1 DEF Numbered
  <2>2. First(txs, 0) = {}
    BY <1>1, FirstFacts
  <2> HIDE DEF h
  <2> QED
    BY <1>3, <2>1, <2>2
<1>7. ASSUME NEW k \in 1..Len(txs), NEW r \in InBlock(h, c), r.ok => Numbered(l, r.ledger, First(txs, k - 1))
      PROVE  /\ ApplyTx(r, txs[k]) \in InBlock(h, c)
             /\ ApplyTx(r, txs[k]).ok => Numbered(l, ApplyTx(r, txs[k]).ledger, First(txs, k))
  <2> DEFINE tx == txs[k]
             q == ApplyTx(r, tx)
             m == r.ledger
  <2>1. tx \in Transaction /\ q \in InBlock(h, c)
    BY <1>2, <1>4, ApplyTxInBlock
  <2>2. ASSUME q.ok
        PROVE  Numbered(l, q.ledger, First(txs, k))
    <3>1. r.ok
      BY <2>2 DEF ApplyTx
    <3>2. q = ApplyTransactionAtHeight(m, tx, m.height + 1)
      BY <3>1 DEF ApplyTx
    <3>3. Sound(m) /\ Backed(m) /\ m.height + 1 \in Nat
      BY <1>2, <3>1 DEF InBlock
    <3> HIDE DEF m, h
    <3>4. Executed(m, tx, q.ledger)
      BY <2>1, <2>2, <3>2, <3>3, ApplyTransactionTotals
    <3>5. Sound(q.ledger)
      BY <2>1, <2>2 DEF InBlock
    <3> HIDE DEF q
    <3>6. /\ First(txs, k) = First(txs, k - 1) \cup {tx}
          /\ First(txs, k - 1) \subseteq Transaction
      <4>1. First(txs, k) = First(txs, k - 1) \cup {tx}
        BY <1>1, FirstFacts
      <4>2. First(txs, k - 1) \subseteq Transaction
        BY <1>4 DEF First
      <4> QED
        BY <4>1, <4>2
    <3>7. Numbered(l, m, First(txs, k - 1))
      BY <1>7, <3>1 DEF m
    <3> HIDE DEF tx
    <3> QED
      BY <1>2, <2>1, <3>3, <3>4, <3>5, <3>6, <3>7, NumberedStep
  <2> QED
    BY <2>1, <2>2
<1>8. \A k \in 1..Len(txs) : \A r \in T[k - 1] : ApplyTx(r, txs[k]) \in T[k]
  <2>1. \A k \in 1..Len(txs) : k \in Nat /\ k - 1 \in Nat
    BY <1>4
  <2> QED
    BY <1>7, <2>1
<1> HIDE DEF T
<1>9. TxRun!Run(opened, txs) \in T[Len(txs)]
  BY <1>1, <1>6, <1>8, TxRun!RunKeeps
<1>10. applied \in InBlock(h, c) /\ (applied.ok => Numbered(l, applied.ledger, ToSet(txs)))
  <2>1. applied \in T[Len(txs)]
    BY <1>9, TransactionLoop
  <2>2. First(txs, Len(txs)) = ToSet(txs)
    BY <1>1, FirstFacts
  <2> HIDE DEF applied
  <2> QED
    BY <1>4, <2>1, <2>2 DEF T
<1> DEFINE a == applied.ledger
           m == FinishBlock(a, block.miner, l.height + 1)
<1>11. applied.ok /\ CanSettleFees(a, block.miner) /\ ApplyBlock(l, block).ledger = m
  <2> HIDE DEF applied
  <2> QED
    BY <1>5 DEF Ok, Err
<1>12. Numbered(l, a, ToSet(txs)) /\ Sound(a) /\ Backed(a) /\ a.height = h
  BY <1>10, <1>11 DEF InBlock
<1> HIDE DEF applied, a
<1>13. m.nonce = a.nonce
  <2>1. a.height <= l.height + 1
    BY <1>2, <1>12
  <2> QED
    BY <1>1, <1>2, <1>11, <1>12, <2>1, FinishBlockTotals
<1> HIDE DEF m
<1>14. Numbered(l, m, ToSet(txs))
  BY <1>12, <1>13 DEF Numbered
<1> QED
  BY <1>11, <1>14 DEF txs
\* One more block on a chain.
LEMMA BlockOnChain ==
    ASSUME NEW blocks \in Chain, ValidChain(blocks), NEW block \in Block(Seq(Transaction)),
           ValidChain(Append(blocks, block))
    PROVE  Numbered(LedgerOf(blocks), LedgerOf(Append(blocks, block)), ToSet(block.txs))
<1> DEFINE r == ReplayMature(blocks)
           l == LedgerOf(blocks)
           q == ApplyBlock(l, block)
<1>1. Good(l)
  BY LedgerOfGood
<1>2. r.ok /\ r.ledger = l
  BY DEF ValidChain, LedgerOf
<1>3. ReplayMature(Append(blocks, block)) = q
  BY <1>2, ReplayAppend DEF ApplyNext
<1>4. q.ok /\ LedgerOf(Append(blocks, block)) = q.ledger
  BY <1>3 DEF ValidChain, LedgerOf
<1> QED
  BY <1>1, <1>4, BlockNumbered

\* What one more block confirms.
LEMMA ConfirmedAppend ==
    ASSUME NEW S, NEW blocks \in Seq(S), NEW block \in S
    PROVE  Confirmed(Append(blocks, block)) = Confirmed(blocks) \cup ToSet(block.txs)
<1> DEFINE t == Append(blocks, block)
           n == Len(blocks)
<1>1. /\ n \in Nat /\ DOMAIN blocks = 1..n /\ DOMAIN t = 1..(n + 1)
      /\ t[n + 1] = block /\ \A k \in 1..n : t[k] = blocks[k]
  OBVIOUS
<1>2. 1..(n + 1) = (1..n) \cup {n + 1}
  BY <1>1
<1> HIDE DEF t, n
<1> QED
  BY <1>1, <1>2 DEF Confirmed, t

\* A confirmed transaction has a used nonce.
LEMMA ConfirmedNonces ==
    ASSUME NEW blocks \in Chain, ValidChain(blocks)
    PROVE  \A tx \in Confirmed(blocks) :
              tx \in Transaction /\ tx.nonce <= LedgerOf(blocks).nonce[tx.from]
<1> DEFINE Reached(l, k) == \A j \in 1..k : \A tx \in ToSet(blocks[j].txs) : tx.nonce <= l.nonce[tx.from]
           T == [k \in Nat |-> {r \in Replayed(k) : r.ok => Reached(r.ledger, k)}]
           start == Ok(NewMature)
<1>1. Len(blocks) \in Nat /\ \A k \in 1..Len(blocks) : blocks[k] \in Block(Seq(Transaction))
  BY DEF Chain
<1>2. \A k \in 1..Len(blocks) : ToSet(blocks[k].txs) \subseteq Transaction
  <2> SUFFICES ASSUME NEW k \in 1..Len(blocks)
               PROVE  ToSet(blocks[k].txs) \subseteq Transaction
    OBVIOUS
  <2>1. blocks[k].txs \in Seq(Transaction)
    BY <1>1 DEF Block
  <2> QED
    BY <2>1, ElementsOfSeq
<1>3. start \in T[0]
  <2>1. start \in Replayed(0)
    <3>1. /\ Sound(NewMature) /\ Backed(NewMature) /\ Coin(NewMature) = 0 /\ NewMature.height = 0
          /\ NewMature.native[FeeCollector] = 0 /\ Dated(NewMature, NewMature.height)
      BY NewMatureSound, NewMatureTotals, NewMatureFacts
    <3>2. Ok(NewMature) \in Result /\ Ok(NewMature).ledger = NewMature
      BY <3>1, ResultForm DEF Sound
    <3>3. Coin(NewMature) <= BlockSubsidy * 0
      BY <3>1, SubsidyOf
    <3> QED
      BY <3>1, <3>2, <3>3 DEF Replayed, Good
  <2>2. Reached(start.ledger, 0)
    OBVIOUS
  <2> HIDE DEF start, Reached
  <2> QED
    BY <2>1, <2>2
<1>4. ASSUME NEW k \in 1..Len(blocks), NEW r \in Replayed(k - 1), r.ok => Reached(r.ledger, k - 1)
      PROVE  ApplyNext(r, blocks[k]) \in Replayed(k)
             /\ (ApplyNext(r, blocks[k]).ok => Reached(ApplyNext(r, blocks[k]).ledger, k))
  <2> DEFINE q == ApplyNext(r, blocks[k])
             l == r.ledger
             m == q.ledger
  <2>1. q \in Replayed(k)
    <3>1. k - 1 \in Nat /\ (k - 1) + 1 = k
      BY <1>1
    <3>2. q \in Replayed((k - 1) + 1)
      BY <1>1, <3>1, ApplyNextReplayed
    <3> QED
      BY <3>1, <3>2
  <2>2. ASSUME q.ok
        PROVE  Reached(m, k)
    <3>1. r.ok
      BY <2>2 DEF ApplyNext
    <3>2. q = ApplyBlock(l, blocks[k]) /\ Good(l)
      BY <3>1 DEF ApplyNext, Replayed
    <3> HIDE DEF l
    <3>3. Numbered(l, m, ToSet(blocks[k].txs))
      BY <1>1, <2>2, <3>2, BlockNumbered
    <3>4. Sound(l) /\ Sound(m)
      BY <2>1, <2>2, <3>2 DEF Replayed, Good
    <3> HIDE DEF m, q
    <3>5. /\ l.nonce \in [Address -> 0..MaxNonce] /\ m.nonce \in [Address -> 0..MaxNonce]
          /\ MaxNonce \in Nat
      BY <3>4, ParamAssumption DEF Sound, LedgerState
    <3>6. ASSUME NEW j \in 1..k, NEW tx \in ToSet(blocks[j].txs)
          PROVE  tx.nonce <= m.nonce[tx.from]
      <4>1. CASE j = k
        BY <3>3, <4>1 DEF Numbered
      <4>2. CASE j # k
        <5>1. j \in 1..(k - 1) /\ j \in 1..Len(blocks)
          BY <1>1, <4>2
        <5>2. tx \in Transaction
          BY <1>2, <5>1
        <5>3. tx.nonce <= l.nonce[tx.from]
          BY <1>4, <3>1, <5>1 DEF l
        <5>4. tx.from \in Address /\ tx.nonce \in Nat
          BY <5>2, ParamAssumption DEF Transaction
        <5>5. l.nonce[tx.from] <= m.nonce[tx.from]
          BY <3>3, <5>4 DEF Numbered
        <5>6. l.nonce[tx.from] \in Nat /\ m.nonce[tx.from] \in Nat
          BY <3>5, <5>4
        <5> QED
          BY <5>3, <5>4, <5>5, <5>6
      <4> QED
        BY <4>1, <4>2
    <3> QED
      BY <3>6
  <2> QED
    BY <2>1, <2>2
<1> HIDE DEF Reached
<1>5. \A k \in 1..Len(blocks) : \A r \in T[k - 1] : ApplyNext(r, blocks[k]) \in T[k]
  <2>1. \A k \in 1..Len(blocks) : k \in Nat /\ k - 1 \in Nat
    BY <1>1
  <2> QED
    BY <1>4, <2>1
<1> HIDE DEF T, start
<1>6. ChainRun!Run(start, blocks) \in T[Len(blocks)]
  BY <1>3, <1>5, ChainRun!RunKeeps DEF Chain
<1>7. ReplayMature(blocks) \in T[Len(blocks)]
  BY <1>6, ReplayLoop DEF start
<1>8. Reached(LedgerOf(blocks), Len(blocks))
  BY <1>1, <1>7 DEF T, LedgerOf, ValidChain
<1>9. ASSUME NEW tx \in Confirmed(blocks)
      PROVE  tx \in Transaction /\ tx.nonce <= LedgerOf(blocks).nonce[tx.from]
  <2>1. PICK j \in 1..Len(blocks) : tx \in ToSet(blocks[j].txs)
    BY DEF Confirmed, Chain
  <2> QED
    BY <1>2, <1>8, <2>1 DEF Reached
<1> QED
  BY <1>9
---------------------------------------------------------------------------
\* The chains of the node.
Chains == Seq(Block(Seq(Transactions)))

Place == {"idle", "create", "stake", "stake create", "admit", "add", "refresh", "tx revalidate", "tx save", "tx check",
          "block add", "block remove", "block revalidate", "block save", "submit", "remove",
          "mine", "commit", "commit add", "commit remove", "requeue", "reorg save"}

Removes == {"block remove", "remove", "commit remove"}

StakeRequest == [request : Transaction, blocks : Chains]

Argument == {None} \cup Transaction \cup Chains \cup (SUBSET Transactions) \cup StakeRequest

\* A worker works on what its place is about and holds the locks of its place.
Placed(w) ==
    /\ at[w] \in {"create", "stake"} => arg[w] \in Transaction
    /\ at[w] = "stake create" => arg[w] \in StakeRequest
    /\ at[w] \in {"create", "stake", "stake create"} => txMu = w
    /\ at[w] \in {"admit", "add", "tx revalidate", "tx save", "tx check"} => arg[w] \in Transactions
    /\ at[w] \in {"block add", "submit", "commit", "commit add", "block remove", "remove", "commit remove"}
          => arg[w] \in Chains /\ arg[w] # <<>>
    /\ at[w] = "requeue" => arg[w] \in SUBSET Transactions
    /\ at[w] \in {"tx save", "block save", "remove", "commit remove", "requeue", "reorg save"} => db = w
    /\ at[w] \in {"block add", "block remove", "block revalidate", "block save", "submit", "commit add",
                  "remove", "commit remove", "requeue", "reorg save"} => chainMu = w

\* The part of the invariant that holds whatever handlers run together.
TypeInv ==
    /\ chain \in Chains /\ ValidChain(chain)
    /\ pool \in Seq(Transactions)
    /\ template # None => template \in Chains /\ template # <<>>
    /\ at \in [Worker -> Place]
    /\ arg \in [Worker -> Argument]
    /\ kept \in [Worker -> Seq(Transactions)]
    /\ \A w \in Worker : Placed(w)

\* The limits of the mempool, and one transaction of a sender with a nonce.
Tidy(txs) ==
    /\ \A i, j \in DOMAIN txs : i # j => ~SameNonce(txs[i], txs[j])
    /\ Len(txs) <= MaxTxCount
    /\ TotalGas(txs) <= MaxGasPerBlock

\* What is confirmed and pending is about to be removed.
Removed == \A tx \in ToSet(pool) \cap Confirmed(chain) :
              \E w \in Worker : at[w] \in Removes /\ tx \in ToSet(Last(arg[w]).txs)

\* A node that gets transactions from peers only.
PeerPlaces == {"idle", "tx revalidate", "tx save", "tx check", "admit", "add", "refresh", "block add",
               "block remove", "block revalidate", "block save", "submit", "remove"}

PeerAt(w) ==
    /\ at[w] \in PeerPlaces
    /\ at[w] \in {"admit", "add"} => db = w /\ arg[w] \notin Confirmed(chain)
    /\ at[w] = "add" => Admits(pool, arg[w])
    /\ at[w] \in {"tx save", "block save"} => kept[w] = RevalidateTransactions(pool, chain)
    /\ at[w] \in Removes => ToSet(Last(arg[w]).txs) \subseteq Confirmed(chain)

PeerInv ==
    /\ Tidy(pool)
    /\ Removed
    /\ \A w \in Worker : PeerAt(w)

\* A node that gets transactions from its clients only.
ClientPlaces == {"idle", "create", "admit", "add", "refresh", "submit", "remove", "mine",
                 "commit", "commit add", "commit remove"}

Known == ToSet(pool) \cup Confirmed(chain)

Used(a) == LedgerOf(chain).nonce[a]

\* Every nonce below n that the chain has not used is pending.
NoGap(a, n) == \A m \in Nat : m > Used(a) /\ m < n => \E tx \in ToSet(pool) : tx.from = a /\ tx.nonce = m

\* A new transaction has a new nonce.
Fresh(tx) ==
    /\ tx.nonce > Used(tx.from)
    /\ \A other \in ToSet(pool) : ~SameNonce(other, tx)
    /\ NoGap(tx.from, tx.nonce)

ClientAt(w) ==
    /\ at[w] \in ClientPlaces
    /\ at[w] \in {"admit", "add"} => txMu = w /\ Fresh(arg[w])
    /\ at[w] = "add" => Admits(pool, arg[w])
    /\ at[w] = "mine" => ToSet(kept[w]) \subseteq Known
    /\ at[w] \in {"submit", "commit", "commit add"} => ToSet(Last(arg[w]).txs) \subseteq Known
    /\ at[w] \in Removes => ToSet(Last(arg[w]).txs) \subseteq Confirmed(chain)

\* A pending transaction whose nonce is used is confirmed, and there is no gap below it.
Pending(tx) == (tx.nonce <= Used(tx.from) => tx \in Confirmed(chain)) /\ NoGap(tx.from, tx.nonce)

ClientInv ==
    /\ Tidy(pool)
    /\ Removed
    /\ \A tx \in ToSet(pool) : Pending(tx)
    /\ template # None => ToSet(Last(template).txs) \subseteq Known
    /\ \A w \in Worker : ClientAt(w)

IInv ==
    /\ TypeInv
    /\ FromPeersOnly => PeerInv
    /\ FromClientsOnly => ClientInv
---------------------------------------------------------------------------
\* The blocks of the node are blocks.
LEMMA ChainsFacts ==
    /\ Chains \subseteq Chain
    /\ Block(Seq(Transactions)) \subseteq Block(Seq(Transaction))
<1>1. Seq(Transactions) \subseteq Seq(Transaction)
  BY TransactionsFacts
<1>2. Block(Seq(Transactions)) \subseteq Block(Seq(Transaction))
  BY <1>1 DEF Block
<1> DEFINE B == Block(Seq(Transactions))
           C == Block(Seq(Transaction))
<1>3. B \subseteq C
  BY <1>2
<1> HIDE DEF B, C
<1>4. Seq(B) \subseteq Seq(C)
  BY <1>3
<1> QED
  BY <1>2, <1>4 DEF Chains, Chain, B, C

\* A chain with a block is its front and its last block.
LEMMA LastFacts ==
    ASSUME NEW S, NEW c \in Seq(S), c # <<>>
    PROVE  Front(c) \in Seq(S) /\ Last(c) \in S /\ Append(Front(c), Last(c)) = c
<1>1. Len(c) \in Nat /\ Len(c) > 0 /\ \A i \in 1..Len(c) : c[i] \in S
  OBVIOUS
<1>2. Front(c) = SubSeq(c, 1, Len(c) - 1) /\ Last(c) = c[Len(c)]
  BY DEF Front, Last
<1>3. Front(c) \in Seq(S) /\ Len(Front(c)) = Len(c) - 1 /\ \A i \in 1..(Len(c) - 1) : Front(c)[i] = c[i]
  <2> DEFINE n == Len(c) - 1
  <2>1. n \in Nat /\ n + 1 = Len(c) /\ Front(c) = SubSeq(c, 1, n)
    BY <1>1, <1>2
  <2> HIDE DEF n
  <2>2. Front(c) \in Seq(S) /\ Len(Front(c)) = n /\ \A i \in 1..n : Front(c)[i] = c[i]
    BY <1>1, <2>1
  <2> QED
    BY <2>2 DEF n
<1>4. Last(c) \in S
  BY <1>1, <1>2
<1> DEFINE d == Append(Front(c), Last(c))
<1>5. d \in Seq(S) /\ Len(d) = Len(c) /\ \A i \in 1..Len(c) : d[i] = c[i]
  BY <1>1, <1>2, <1>3, <1>4
<1> HIDE DEF d
<1>6. d = c
  BY <1>5
<1> QED
  BY <1>3, <1>4, <1>6 DEF d

\* The front and the last of a chain with one more block.
LEMMA AppendLast ==
    ASSUME NEW S, NEW c \in Seq(S), NEW x \in S
    PROVE  /\ Append(c, x) \in Seq(S) /\ Append(c, x) # <<>>
           /\ Front(Append(c, x)) = c /\ Last(Append(c, x)) = x
<1> DEFINE d == Append(c, x)
<1>1. d \in Seq(S) /\ d # <<>> /\ Len(d) = Len(c) + 1 /\ Len(c) \in Nat /\ d[Len(c) + 1] = x
      /\ \A i \in 1..Len(c) : d[i] = c[i]
  OBVIOUS
<1> HIDE DEF d
<1>2. Last(d) = x
  BY <1>1 DEF Last
<1>3. Front(d) = SubSeq(d, 1, Len(c))
  BY <1>1 DEF Front
<1>4. Front(d) \in Seq(S) /\ Len(Front(d)) = Len(c) /\ \A i \in 1..Len(c) : Front(d)[i] = c[i]
  BY <1>1, <1>3
<1>5. Front(d) = c
  <2> DEFINE e == Front(d)
  <2>1. e \in Seq(S) /\ Len(e) = Len(c) /\ \A i \in 1..Len(c) : e[i] = c[i]
    BY <1>4
  <2> HIDE DEF e
  <2>2. e = c
    BY <2>1
  <2> QED
    BY <2>2 DEF e
<1> QED
  BY <1>1, <1>2, <1>5 DEF d
---------------------------------------------------------------------------
\* A tidy pool names each transaction once.
LEMMA TidyInjective ==
    ASSUME NEW p \in Seq(Transactions), Tidy(p)
    PROVE  IsInjective(p)
  BY DEF Tidy, SameNonce, IsInjective

\* The empty pool is tidy.
LEMMA TidyEmpty == Tidy(<<>>)
<1>1. Len(<<>>) = 0 /\ DOMAIN <<>> = {}
  OBVIOUS
<1>2. TotalGas(<<>>) = 0
  <2>1. <<>> \in Seq({}) /\ IsInjective(<<>>) /\ ToSet(<<>>) = {}
    BY DEF IsInjective, ToSet
  <2>2. Version3({}) = {} /\ Cardinality({}) = 0
    BY FS_EmptySet DEF Version3
  <2> QED
    BY <2>1, <2>2, TotalGasFacts
<1> QED
  BY <1>1, <1>2, TransactionsFacts DEF Tidy

\* Part of a tidy pool is tidy.
LEMMA TidyPart ==
    ASSUME NEW p \in Seq(Transactions), Tidy(p),
           NEW q \in Seq(Transactions), IsInjective(q), ToSet(q) \subseteq ToSet(p)
    PROVE  Tidy(q)
<1>1. Len(q) <= Len(p) /\ TotalGas(q) <= TotalGas(p)
  BY TidyInjective, FewerIsLess
<1>2. TotalGas(q) \in Nat /\ TotalGas(p) \in Nat /\ Len(q) \in Nat /\ Len(p) \in Nat
  BY TotalGasFacts
<1>3. ASSUME NEW i \in DOMAIN q, NEW j \in DOMAIN q, i # j, SameNonce(q[i], q[j])
      PROVE  FALSE
  <2>1. q[i] # q[j]
    BY <1>3 DEF IsInjective
  <2>2. PICK k \in DOMAIN p : p[k] = q[i]
    BY DEF ToSet
  <2>3. PICK m \in DOMAIN p : p[m] = q[j]
    BY DEF ToSet
  <2> QED
    BY <1>3, <2>1, <2>2, <2>3 DEF Tidy
<1> QED
  BY <1>1, <1>2, <1>3, TransactionsFacts DEF Tidy

\* What is admitted to a tidy pool is admitted to a part of it.
LEMMA AdmitsPart ==
    ASSUME NEW p \in Seq(Transactions), Tidy(p),
           NEW q \in Seq(Transactions), IsInjective(q), ToSet(q) \subseteq ToSet(p),
           NEW tx, Admits(p, tx)
    PROVE  Admits(q, tx)
<1>1. Len(q) <= Len(p) /\ TotalGas(q) <= TotalGas(p)
  BY TidyInjective, FewerIsLess
<1>2. TotalGas(q) \in Nat /\ TotalGas(p) \in Nat /\ Len(q) \in Nat /\ Len(p) \in Nat
  BY TotalGasFacts
<1>3. GasUsed(tx) \in Nat
  BY DEF GasUsed
<1> QED
  BY <1>1, <1>2, <1>3, TransactionsFacts DEF Admits

\* Adding what is admitted keeps the pool tidy.
LEMMA TidyAdd ==
    ASSUME NEW p \in Seq(Transactions), Tidy(p), NEW tx \in Transactions, Admits(p, tx)
    PROVE  /\ Add(p, tx) \in Seq(Transactions) /\ Tidy(Add(p, tx))
           /\ ToSet(Add(p, tx)) = ToSet(p) \cup {tx}
<1> DEFINE t == Append(p, tx)
           n == Len(p)
<1>1. Add(p, tx) = t
  BY DEF Add, Admits
<1>2. ToSet(t) = ToSet(p) \cup {tx} /\ TotalGas(t) = TotalGas(p) + GasUsed(tx)
  BY AppendFacts, TotalGasAppend
<1>3. /\ t \in Seq(Transactions) /\ n \in Nat /\ DOMAIN p = 1..n /\ DOMAIN t = 1..(n + 1) /\ Len(t) = n + 1
      /\ t[n + 1] = tx /\ \A k \in 1..n : t[k] = p[k]
  OBVIOUS
<1> HIDE DEF t
<1>4. Len(t) <= MaxTxCount /\ TotalGas(t) <= MaxGasPerBlock
  BY <1>2, <1>3, TransactionsFacts DEF Admits
<1>5. \A k \in 1..n : ~SameNonce(p[k], tx) /\ ~SameNonce(tx, p[k])
  BY <1>3 DEF Admits, ToSet, SameNonce
<1>6. ASSUME NEW i \in DOMAIN t, NEW j \in DOMAIN t, i # j
      PROVE  ~SameNonce(t[i], t[j])
  <2>1. CASE i \in 1..n /\ j \in 1..n
    BY <1>3, <1>6, <2>1 DEF Tidy
  <2>2. CASE ~(i \in 1..n /\ j \in 1..n)
    <3>1. \/ i = n + 1 /\ j \in 1..n
          \/ j = n + 1 /\ i \in 1..n
      BY <1>3, <1>6, <2>2
    <3> QED
      BY <1>3, <1>5, <3>1
  <2> QED
    BY <2>1, <2>2
<1> QED
  BY <1>1, <1>2, <1>3, <1>4, <1>6 DEF Tidy
---------------------------------------------------------------------------
\* A step of a worker leaves the other workers and their locks alone.
Frame(w) ==
    /\ at' \in [Worker -> Place]
    /\ arg' \in [Worker -> Argument]
    /\ kept' \in [Worker -> Seq(Transactions)]
    /\ \A u \in Worker \ {w} :
          /\ at'[u] = at[u] /\ arg'[u] = arg[u] /\ kept'[u] = kept[u]
          /\ db = u => db' = u
          /\ chainMu = u => chainMu' = u
          /\ txMu = u => txMu' = u

\* The lock is left as it is, taken while it is free, or given back.
LockStep(old, new, w) == new = old \/ (old = None /\ new = w) \/ (old = w /\ new = None)

\* A step that goes somewhere.
LEMMA GotoFrame ==
    ASSUME TypeInv, NEW w \in Worker, NEW p \in Place, NEW v \in Argument, Goto(w, p, v),
           NEW k \in Seq(Transactions), kept' = [kept EXCEPT ![w] = k],
           LockStep(db, db', w), LockStep(chainMu, chainMu', w), LockStep(txMu, txMu', w)
    PROVE  Frame(w) /\ at'[w] = p /\ arg'[w] = v /\ kept'[w] = k
<1>1. at \in [Worker -> Place] /\ arg \in [Worker -> Argument] /\ kept \in [Worker -> Seq(Transactions)]
  BY DEF TypeInv
<1>2. at' = [at EXCEPT ![w] = p] /\ arg' = [arg EXCEPT ![w] = v]
  BY DEF Goto
<1>3. None \notin Worker
  BY NodeAssumption
<1>4. \A u \in Worker \ {w} : /\ db = u => db' = u
                              /\ chainMu = u => chainMu' = u
                              /\ txMu = u => txMu' = u
  BY <1>3 DEF LockStep
<1> QED
  BY <1>1, <1>2, <1>4 DEF Frame

\* A step that keeps what the worker has kept.
LEMMA SameKept ==
    ASSUME TypeInv, NEW w \in Worker, kept' = kept
    PROVE  kept[w] \in Seq(Transactions) /\ kept' = [kept EXCEPT ![w] = kept[w]]
  BY DEF TypeInv

\* What an idle worker is given lies within its types.
LEMMA IdleTypes == "idle" \in Place /\ None \in Argument /\ <<>> \in Seq(Transactions)
<1>1. "idle" \in Place
  BY DEF Place
<1>2. None \in Argument
  BY DEF Argument
<1>3. <<>> \in Seq(Transactions)
  OBVIOUS
<1> QED
  BY <1>1, <1>2, <1>3

\* A handler that returns.
LEMMA ReturnFrame ==
    ASSUME TypeInv, NEW w \in Worker, Return(w)
    PROVE  Frame(w) /\ at'[w] = "idle" /\ arg'[w] = None /\ kept'[w] = <<>> /\ Placed(w)'
<1>1. Goto(w, "idle", None) /\ kept' = [kept EXCEPT ![w] = <<>>]
  BY DEF Return
<1>2. LockStep(db, db', w) /\ LockStep(chainMu, chainMu', w) /\ LockStep(txMu, txMu', w)
  BY DEF Return, Unlocked, LockStep
<1>3. "idle" \in Place /\ None \in Argument /\ <<>> \in Seq(Transactions)
  BY IdleTypes
<1>4. Frame(w) /\ at'[w] = "idle" /\ arg'[w] = None /\ kept'[w] = <<>>
  BY <1>1, <1>2, <1>3, GotoFrame
<1> QED
  BY <1>4 DEF Placed

\* What a step does to the types: those of the files, and those of its worker.
StepTypes(w) ==
    /\ chain' \in Chains /\ ValidChain(chain')
    /\ pool' \in Seq(Transactions)
    /\ template' # None => template' \in Chains /\ template' # <<>>
    /\ Frame(w)
    /\ Placed(w)'

\* The files and their types.
LEMMA FilesFacts ==
    ASSUME TypeInv
    PROVE  /\ chain \in Chains /\ chain \in Chain /\ ValidChain(chain)
           /\ pool \in Seq(Transactions)
           /\ template # None => template \in Chains /\ template # <<>>
           /\ Chains \subseteq Argument /\ Transactions \subseteq Argument
           /\ Transaction \subseteq Argument /\ None \in Argument
           /\ SUBSET Transactions \subseteq Argument /\ StakeRequest \subseteq Argument
<1>1. /\ chain \in Chains /\ ValidChain(chain) /\ pool \in Seq(Transactions)
      /\ template # None => template \in Chains /\ template # <<>>
  BY DEF TypeInv
<1>2. chain \in Chain
  BY <1>1, ChainsFacts
<1>3. /\ Chains \subseteq Argument /\ Transaction \subseteq Argument /\ None \in Argument
      /\ SUBSET Transactions \subseteq Argument /\ StakeRequest \subseteq Argument
  BY DEF Argument
<1>4. Transactions \subseteq Argument
  BY <1>3, TransactionsFacts
<1> QED
  BY <1>1, <1>2, <1>3, <1>4

\* A transaction that is made, on whatever blocks.
LEMMA CreateTypes ==
    ASSUME TypeInv, NEW w \in Worker, NEW blocks, NEW request, Create(w, blocks, request)
    PROVE  Frame(w) /\ Placed(w)'
<1> DEFINE tx == [request EXCEPT !.nonce = LedgerOf(blocks).nonce[request.from] + PendingFromCount(request.from) + 1]
<1>1. \/ tx \in Transactions /\ Goto(w, "admit", tx) /\ UNCHANGED <<locks, kept>>
      \/ Return(w)
  BY DEF Create
<1> HIDE DEF tx
<1>2. ASSUME tx \in Transactions, Goto(w, "admit", tx), UNCHANGED <<locks, kept>>
      PROVE  Frame(w) /\ Placed(w)'
  <2>1. LockStep(db, db', w) /\ LockStep(chainMu, chainMu', w) /\ LockStep(txMu, txMu', w)
    BY <1>2 DEF LockStep, locks
  <2>2. tx \in Argument /\ "admit" \in Place
    BY <1>2, FilesFacts DEF Place
  <2>3. Frame(w) /\ at'[w] = "admit" /\ arg'[w] = tx
    BY <1>2, <2>1, <2>2, SameKept, GotoFrame
  <2> QED
    BY <1>2, <2>3 DEF Placed
<1> QED
  BY <1>1, <1>2, ReturnFrame

\* The actions of a submission.
LEMMA SubmissionTypes ==
    ASSUME TypeInv, NEW w \in Worker, Submission(w)
    PROVE  StepTypes(w)
<1>1. ASSUME NEW request \in Requests, SendBegin(w, request) \/ StakeBegin(w, request)
      PROVE  StepTypes(w)
  <2>1. PICK p \in {"create", "stake"} :
           /\ Goto(w, p, request) /\ kept' = kept /\ txMu = None /\ txMu' = w
           /\ UNCHANGED <<chain, pool, template, db, chainMu>>
    BY <1>1 DEF SendBegin, StakeBegin
  <2>2. request \in Transaction /\ request \in Argument /\ p \in Place
    BY NodeAssumption, FilesFacts DEF Place
  <2>3. LockStep(db, db', w) /\ LockStep(chainMu, chainMu', w) /\ LockStep(txMu, txMu', w)
    BY <2>1 DEF LockStep
  <2>4. Frame(w) /\ at'[w] = p /\ arg'[w] = request
    BY <2>1, <2>2, <2>3, SameKept, GotoFrame
  <2> QED
    BY <2>1, <2>2, <2>4, FilesFacts DEF StepTypes, Placed
<1>2. CASE CreatePending(w)
  BY <1>2, CreateTypes, FilesFacts DEF CreatePending, StepTypes
<1>21. CASE StakeBlocks(w)
  <2>1. /\ at[w] = "stake" /\ kept' = kept /\ UNCHANGED <<chain, pool, template, locks>>
        /\ Goto(w, "stake create", [request |-> arg[w], blocks |-> chain])
    BY <1>21 DEF StakeBlocks
  <2>11. arg[w] \in Transaction /\ txMu = w
    BY <2>1 DEF TypeInv, Placed
  <2>12. chain \in Chains
    BY FilesFacts
  <2>13. [request |-> arg[w], blocks |-> chain] \in StakeRequest
    BY <2>11, <2>12 DEF StakeRequest
  <2>2. PICK v \in StakeRequest : v = [request |-> arg[w], blocks |-> chain] /\ txMu = w
    BY <2>11, <2>13
  <2>3. LockStep(db, db', w) /\ LockStep(chainMu, chainMu', w) /\ LockStep(txMu, txMu', w)
    BY <2>1 DEF LockStep, locks
  <2>4. Frame(w) /\ at'[w] = "stake create" /\ arg'[w] = v
    <3>1. v \in Argument /\ "stake create" \in Place /\ Goto(w, "stake create", v)
      BY <2>1, <2>2, FilesFacts DEF Place
    <3> QED
      BY <2>1, <2>3, <3>1, SameKept, GotoFrame
  <2> QED
    BY <2>1, <2>2, <2>4, FilesFacts DEF StepTypes, Placed, locks
<1>22. CASE CreateStake(w)
  BY <1>22, CreateTypes, FilesFacts DEF CreateStake, StepTypes
<1>3. CASE AdmitLoad(w)
  <2>1. at[w] = "admit" /\ UNCHANGED <<chain, pool, template>>
    BY <1>3 DEF AdmitLoad
  <2>2. arg[w] \in Transactions
    BY <2>1 DEF TypeInv, Placed
  <2>3. ASSUME Goto(w, "add", arg[w]), UNCHANGED <<locks, kept>>
        PROVE  Frame(w) /\ Placed(w)'
    <3>1. LockStep(db, db', w) /\ LockStep(chainMu, chainMu', w) /\ LockStep(txMu, txMu', w)
      BY <2>3 DEF LockStep, locks
    <3>2. arg[w] \in Argument /\ "add" \in Place
      BY <2>2, FilesFacts DEF Place
    <3>3. Frame(w) /\ at'[w] = "add" /\ arg'[w] = arg[w]
      BY <2>3, <3>1, <3>2, SameKept, GotoFrame
    <3> QED
      BY <2>2, <3>3 DEF Placed
  <2>4. Frame(w) /\ Placed(w)'
    BY <1>3, <2>3, ReturnFrame DEF AdmitLoad
  <2> QED
    BY <2>1, <2>4, FilesFacts DEF StepTypes, Placed
<1>4. CASE AdmitAdd(w)
  <2>1. /\ at[w] = "add" /\ pool' = Add(pool, arg[w]) /\ Goto(w, "refresh", None)
        /\ db' = Unlocked(db, w) /\ kept' = kept /\ UNCHANGED <<chain, template, chainMu, txMu>>
    BY <1>4 DEF AdmitAdd
  <2>2. arg[w] \in Transactions
    BY <2>1 DEF TypeInv, Placed
  <2>3. pool' \in Seq(Transactions)
    BY <2>1, <2>2, FilesFacts DEF Add
  <2>4. LockStep(db, db', w) /\ LockStep(chainMu, chainMu', w) /\ LockStep(txMu, txMu', w)
    BY <2>1 DEF LockStep, Unlocked
  <2>5. Frame(w) /\ at'[w] = "refresh"
    BY <2>1, <2>4, SameKept, GotoFrame, FilesFacts DEF Place
  <2> QED
    BY <2>1, <2>3, <2>5, FilesFacts DEF StepTypes, Placed
<1>5. CASE RefreshState(w)
  BY <1>5, ReturnFrame, FilesFacts DEF RefreshState, StepTypes
<1>6. CASE MempoolClear(w)
  <2>1. pool' = <<>> /\ Goto(w, "refresh", None) /\ kept' = kept /\ UNCHANGED <<chain, template, locks>>
    BY <1>6 DEF MempoolClear
  <2>2. LockStep(db, db', w) /\ LockStep(chainMu, chainMu', w) /\ LockStep(txMu, txMu', w)
    BY <2>1 DEF LockStep, locks
  <2>3. Frame(w) /\ at'[w] = "refresh"
    BY <2>1, <2>2, SameKept, GotoFrame, FilesFacts DEF Place
  <2>4. pool' \in Seq(Transactions)
    BY <2>1
  <2> QED
    BY <2>1, <2>3, <2>4, FilesFacts DEF StepTypes, Placed
<1> QED
  BY <1>1, <1>2, <1>21, <1>22, <1>3, <1>4, <1>5, <1>6 DEF Submission
\* A candidate that extends the chain.
LEMMA ExtendsFacts ==
    ASSUME TypeInv, NEW c \in Chains, c # <<>>, Extends(c)
    PROVE  /\ ValidChain(c) /\ c = Append(chain, Last(c))
           /\ Last(c) \in Block(Seq(Transactions))
<1>1. Front(c) \in Chains /\ Last(c) \in Block(Seq(Transactions)) /\ Append(Front(c), Last(c)) = c
  BY LastFacts DEF Chains
<1>2. Front(c) = chain /\ ValidChain(Append(chain, Last(c)))
  BY DEF Extends, Accepts
<1> QED
  BY <1>1, <1>2

\* One more block on the chain of the node.
LEMMA NextChain ==
    ASSUME TypeInv, NEW block \in Block(Seq(Transactions))
    PROVE  /\ Append(chain, block) \in Chains /\ Append(chain, block) # <<>>
           /\ Last(Append(chain, block)) = block
  BY FilesFacts, AppendLast DEF Chains

\* The actions on transactions and blocks of peers.
LEMMA FromPeerTypes ==
    ASSUME TypeInv, NEW w \in Worker, FromPeer(w)
    PROVE  StepTypes(w)
<1>1. ASSUME NEW tx \in PeerTxs, ReceiveTx(w, tx)
      PROVE  StepTypes(w)
  <2>1. Goto(w, "tx revalidate", tx) /\ kept' = kept /\ UNCHANGED <<chain, pool, template, locks>>
    BY <1>1 DEF ReceiveTx
  <2>2. tx \in Transactions /\ tx \in Argument /\ "tx revalidate" \in Place
    BY NodeAssumption, FilesFacts DEF Place
  <2>3. LockStep(db, db', w) /\ LockStep(chainMu, chainMu', w) /\ LockStep(txMu, txMu', w)
    BY <2>1 DEF LockStep, locks
  <2>4. Frame(w) /\ at'[w] = "tx revalidate" /\ arg'[w] = tx
    BY <2>1, <2>2, <2>3, SameKept, GotoFrame
  <2> QED
    BY <2>1, <2>2, <2>4, FilesFacts DEF StepTypes, Placed
<1>2. CASE RevalidateLoad(w)
  <2> DEFINE p == IF at[w] = "tx revalidate" THEN "tx save" ELSE "block save"
             k == RevalidateTransactions(pool, chain)
  <2>1. /\ at[w] \in {"tx revalidate", "block revalidate"} /\ db = None /\ db' = w
        /\ Goto(w, p, arg[w]) /\ kept' = [kept EXCEPT ![w] = k]
        /\ UNCHANGED <<chain, pool, template, chainMu, txMu>>
    BY <1>2 DEF RevalidateLoad
  <2>2. p \in Place /\ arg[w] \in Argument /\ k \in Seq(Transactions)
    BY FilesFacts, RevalidateFacts DEF Place, TypeInv
  <2>3. LockStep(db, db', w) /\ LockStep(chainMu, chainMu', w) /\ LockStep(txMu, txMu', w)
    BY <2>1 DEF LockStep
  <2>4. /\ at[w] = "tx revalidate" => arg[w] \in Transactions
        /\ at[w] = "block revalidate" => chainMu = w
    BY DEF TypeInv, Placed
  <2>5. p = IF at[w] = "tx revalidate" THEN "tx save" ELSE "block save"
    OBVIOUS
  <2> HIDE DEF p, k
  <2>6. Frame(w) /\ at'[w] = p /\ arg'[w] = arg[w]
    BY <2>1, <2>2, <2>3, GotoFrame
  <2> QED
    BY <2>1, <2>4, <2>5, <2>6, FilesFacts DEF StepTypes, Placed
<1>3. CASE RevalidateSave(w)
  <2> DEFINE p == IF at[w] = "tx save" THEN "tx check" ELSE "refresh"
  <2>1. /\ at[w] \in {"tx save", "block save"} /\ pool' = kept[w] /\ db' = None
        /\ Goto(w, p, arg[w]) /\ kept' = [kept EXCEPT ![w] = <<>>]
        /\ UNCHANGED <<chain, template, chainMu, txMu>>
    BY <1>3 DEF RevalidateSave
  <2>2. p \in Place /\ arg[w] \in Argument /\ <<>> \in Seq(Transactions) /\ kept[w] \in Seq(Transactions)
    <3>1. p \in Place
      BY DEF Place
    <3>2. arg[w] \in Argument /\ kept[w] \in Seq(Transactions)
      BY DEF TypeInv
    <3>3. <<>> \in Seq(Transactions)
      OBVIOUS
    <3> HIDE DEF p
    <3> QED
      BY <3>1, <3>2, <3>3
  <2>3. db = w /\ (at[w] = "tx save" => arg[w] \in Transactions)
    BY <2>1 DEF TypeInv, Placed
  <2>4. LockStep(db, db', w) /\ LockStep(chainMu, chainMu', w) /\ LockStep(txMu, txMu', w)
    BY <2>1, <2>3 DEF LockStep
  <2>5. p = IF at[w] = "tx save" THEN "tx check" ELSE "refresh"
    OBVIOUS
  <2> HIDE DEF p
  <2>6. Frame(w) /\ at'[w] = p /\ arg'[w] = arg[w]
    BY <2>1, <2>2, <2>4, GotoFrame
  <2> QED
    BY <2>1, <2>2, <2>3, <2>5, <2>6, FilesFacts DEF StepTypes, Placed
<1>4. CASE AcceptCheck(w)
  <2>1. at[w] = "tx check" /\ db = None /\ UNCHANGED <<chain, pool, template>>
    BY <1>4 DEF AcceptCheck
  <2>2. arg[w] \in Transactions
    BY <2>1 DEF TypeInv, Placed
  <2>3. ASSUME db' = w, Goto(w, "admit", arg[w]), UNCHANGED <<chainMu, txMu, kept>>
        PROVE  Frame(w) /\ Placed(w)'
    <3>1. LockStep(db, db', w) /\ LockStep(chainMu, chainMu', w) /\ LockStep(txMu, txMu', w)
      BY <2>1, <2>3 DEF LockStep
    <3>2. arg[w] \in Argument /\ "admit" \in Place
      BY <2>2, FilesFacts DEF Place
    <3>3. Frame(w) /\ at'[w] = "admit" /\ arg'[w] = arg[w]
      BY <2>3, <3>1, <3>2, SameKept, GotoFrame
    <3> QED
      BY <2>2, <3>3 DEF Placed
  <2>4. Frame(w) /\ Placed(w)'
    BY <1>4, <2>3, ReturnFrame DEF AcceptCheck
  <2> QED
    BY <2>1, <2>4, FilesFacts DEF StepTypes, Placed
<1>5. ASSUME NEW body \in Bodies, ReceiveBlock(w, body)
      PROVE  StepTypes(w)
  <2> DEFINE c == Append(chain, body)
  <2>1. /\ chainMu = None /\ chainMu' = w /\ Goto(w, "block add", c) /\ kept' = kept
        /\ UNCHANGED <<chain, pool, template, db, txMu>>
    BY <1>5 DEF ReceiveBlock
  <2>2. c \in Chains /\ c # <<>>
    BY NodeAssumption, NextChain
  <2> HIDE DEF c
  <2>3. LockStep(db, db', w) /\ LockStep(chainMu, chainMu', w) /\ LockStep(txMu, txMu', w)
    BY <2>1 DEF LockStep
  <2>4. Frame(w) /\ at'[w] = "block add" /\ arg'[w] = c
    BY <2>1, <2>2, <2>3, SameKept, GotoFrame, FilesFacts DEF Place
  <2> QED
    BY <2>1, <2>2, <2>4, FilesFacts DEF StepTypes, Placed
<1>6. CASE ReceiveAdd(w)
  <2>1. at[w] = "block add" /\ UNCHANGED <<pool, template>>
    BY <1>6 DEF ReceiveAdd
  <2>2. arg[w] \in Chains /\ arg[w] # <<>> /\ chainMu = w
    BY <2>1 DEF TypeInv, Placed
  <2>3. CASE Extends(arg[w])
    <3>1. chain' = arg[w] /\ Goto(w, "block remove", arg[w]) /\ UNCHANGED <<locks, kept>>
      BY <1>6, <2>3 DEF ReceiveAdd
    <3>2. LockStep(db, db', w) /\ LockStep(chainMu, chainMu', w) /\ LockStep(txMu, txMu', w)
      BY <3>1 DEF LockStep, locks
    <3>3. Frame(w) /\ at'[w] = "block remove" /\ arg'[w] = arg[w]
      <4>1. "block remove" \in Place /\ arg[w] \in Argument /\ kept' = kept
        BY <2>2, <3>1, FilesFacts DEF Place
      <4> QED
        BY <3>1, <3>2, <4>1, SameKept, GotoFrame
    <3>4. ValidChain(arg[w])
      BY <2>2, <2>3, ExtendsFacts
    <3> QED
      BY <2>1, <2>2, <3>1, <3>3, <3>4, FilesFacts DEF StepTypes, Placed, locks
  <2>4. CASE ~Extends(arg[w])
    BY <1>6, <2>1, <2>4, ReturnFrame, FilesFacts DEF ReceiveAdd, StepTypes, Placed
  <2> QED
    BY <2>3, <2>4
<1>7. CASE ReceiveRemove(w)
  <2>1. /\ at[w] = "block remove" /\ pool' = RemoveIDs(pool, ToSet(Last(arg[w]).txs))
        /\ Goto(w, "block revalidate", None) /\ kept' = kept /\ UNCHANGED <<chain, template, locks>>
    BY <1>7 DEF ReceiveRemove
  <2>2. pool' \in Seq(Transactions) /\ chainMu = w
    BY <2>1, FilesFacts, RemoveIDsFacts DEF TypeInv, Placed
  <2>3. LockStep(db, db', w) /\ LockStep(chainMu, chainMu', w) /\ LockStep(txMu, txMu', w)
    BY <2>1 DEF LockStep, locks
  <2>4. Frame(w) /\ at'[w] = "block revalidate"
    BY <2>1, <2>3, SameKept, GotoFrame, FilesFacts DEF Place
  <2> QED
    BY <2>1, <2>2, <2>4, FilesFacts DEF StepTypes, Placed, locks
<1> QED
  BY <1>1, <1>2, <1>3, <1>4, <1>5, <1>6, <1>7 DEF FromPeer
---------------------------------------------------------------------------
\* Locks that a step leaves alone.
LEMMA SameLocks ==
    ASSUME NEW w, UNCHANGED locks
    PROVE  /\ db' = db /\ chainMu' = chainMu /\ txMu' = txMu
           /\ LockStep(db, db', w) /\ LockStep(chainMu, chainMu', w) /\ LockStep(txMu, txMu', w)
  BY DEF LockStep, locks

\* Blocks that are filled from known transactions.
LEMMA TemplateType ==
    ASSUME TypeInv, NEW txs \in Seq(Transactions), NEW max \in Nat
    PROVE  [to |-> Miner, miner |-> Miner, txs |-> Fill(chain, txs, max)] \in Block(Seq(Transactions))
<1>1. Fill(chain, txs, max) \in Seq(Transactions) /\ Miner \in Address
  BY FilesFacts, FillFacts, NodeAssumption
<1> QED
  BY <1>1 DEF Block

\* What is selected from known transactions.
LEMMA SelectType ==
    ASSUME TypeInv, NEW txs \in Seq(Transactions)
    PROVE  LET s == SelectWithNonces(txs, NextNonce(LedgerOf(chain)))
           IN  s \in Seq(Transactions) /\ ToSet(s) \subseteq ToSet(txs)
<1> DEFINE l == LedgerOf(chain)
<1>1. Sound(l)
  BY FilesFacts, LedgerOfGood
<1> HIDE DEF l
<1>2. NextNonce(l) \in [Address -> Nat]
  BY <1>1, ParamAssumption DEF NextNonce, Sound, LedgerState
<1> QED
  BY <1>2, SelectFacts DEF l

\* The actions of miners.
LEMMA MiningTypes ==
    ASSUME TypeInv, NEW w \in Worker, Mining(w)
    PROVE  StepTypes(w)
<1>1. CASE MinerTemplate(w)
  <2> DEFINE block == BlockTemplate(chain, pool, Miner)
  <2>1. template' = Append(chain, block) /\ UNCHANGED <<chain, pool, locks, at, arg, kept>>
    BY <1>1 DEF MinerTemplate
  <2>2. block \in Block(Seq(Transactions))
    <3>1. Len(pool) \in Nat
      BY FilesFacts
    <3> QED
      BY <3>1, FilesFacts, TemplateType DEF BlockTemplate
  <2> HIDE DEF block
  <2>3. template' \in Chains /\ template' # <<>>
    BY <2>1, <2>2, NextChain
  <2>4. Placed(w) /\ Placed(w)'
    BY <2>1 DEF TypeInv, Placed, locks
  <2>5. Frame(w)
    BY <2>1 DEF TypeInv, Frame, locks
  <2> QED
    BY <2>1, <2>3, <2>4, <2>5, FilesFacts DEF StepTypes
<1>2. CASE MinerSubmit(w)
  <2>1. /\ template # None /\ chainMu = None /\ chainMu' = w /\ Goto(w, "submit", template)
        /\ kept' = kept /\ UNCHANGED <<chain, pool, template, db, txMu>>
    BY <1>2 DEF MinerSubmit
  <2>2. template \in Chains /\ template # <<>>
    BY <2>1, FilesFacts
  <2>3. LockStep(db, db', w) /\ LockStep(chainMu, chainMu', w) /\ LockStep(txMu, txMu', w)
    BY <2>1 DEF LockStep
  <2>4. Frame(w) /\ at'[w] = "submit" /\ arg'[w] = template
    BY <2>1, <2>2, <2>3, SameKept, GotoFrame, FilesFacts DEF Place
  <2> QED
    BY <2>1, <2>2, <2>4, FilesFacts DEF StepTypes, Placed
<1>3. CASE MineLoad(w)
  <2>1. /\ kept' = [kept EXCEPT ![w] = pool] /\ Goto(w, "mine", None)
        /\ UNCHANGED <<chain, pool, template, locks>>
    BY <1>3 DEF MineLoad
  <2>2. Frame(w) /\ at'[w] = "mine"
    BY <2>1, SameLocks, GotoFrame, FilesFacts DEF Place
  <2> QED
    BY <2>1, <2>2, FilesFacts DEF StepTypes, Placed
<1>4. CASE MineCandidate(w)
  <2> DEFINE block == MinedBlock(chain, kept[w], Miner)
             c == Append(chain, block)
  <2>1. /\ Goto(w, "commit", c) /\ kept' = [kept EXCEPT ![w] = <<>>]
        /\ UNCHANGED <<chain, pool, template, locks>>
    BY <1>4 DEF MineCandidate
  <2>2. block \in Block(Seq(Transactions))
    <3>1. kept[w] \in Seq(Transactions)
      BY DEF TypeInv
    <3> QED
      BY <3>1, SelectType, TemplateType, TransactionsFacts DEF MinedBlock
  <2> HIDE DEF block
  <2>3. c \in Chains /\ c # <<>>
    BY <2>2, NextChain
  <2> HIDE DEF c
  <2>4. Frame(w) /\ at'[w] = "commit" /\ arg'[w] = c
    <3>1. "commit" \in Place /\ c \in Argument /\ <<>> \in Seq(Transactions)
      BY <2>3, FilesFacts DEF Place
    <3> QED
      BY <2>1, <3>1, SameLocks, GotoFrame
  <2> QED
    BY <2>1, <2>3, <2>4, FilesFacts DEF StepTypes, Placed
<1>5. CASE CommitLock(w)
  <2>1. /\ at[w] = "commit" /\ chainMu = None /\ chainMu' = w /\ Goto(w, "commit add", arg[w])
        /\ kept' = kept /\ UNCHANGED <<chain, pool, template, db, txMu>>
    BY <1>5 DEF CommitLock
  <2>2. arg[w] \in Chains /\ arg[w] # <<>>
    BY <2>1 DEF TypeInv, Placed
  <2>3. LockStep(db, db', w) /\ LockStep(chainMu, chainMu', w) /\ LockStep(txMu, txMu', w)
    BY <2>1 DEF LockStep
  <2>4. Frame(w) /\ at'[w] = "commit add" /\ arg'[w] = arg[w]
    <3>1. "commit add" \in Place /\ arg[w] \in Argument
      BY <2>2, FilesFacts DEF Place
    <3> QED
      BY <2>1, <2>3, <3>1, SameKept, GotoFrame
  <2> QED
    BY <2>1, <2>2, <2>4, FilesFacts DEF StepTypes, Placed
<1>6. CASE SubmitAdd(w)
  <2>1. at[w] \in {"submit", "commit add"} /\ db = None /\ UNCHANGED <<pool, template>>
    BY <1>6 DEF SubmitAdd
  <2>2. arg[w] \in Chains /\ arg[w] # <<>> /\ chainMu = w
    BY <2>1 DEF TypeInv, Placed
  <2>3. CASE Extends(arg[w])
    <3>1. /\ chain' = arg[w] /\ db' = w /\ Goto(w, Removing(w), arg[w])
          /\ kept' = kept /\ UNCHANGED <<chainMu, txMu>>
      BY <1>6, <2>3 DEF SubmitAdd
    <3>2. LockStep(db, db', w) /\ LockStep(chainMu, chainMu', w) /\ LockStep(txMu, txMu', w)
      BY <2>1, <3>1 DEF LockStep
    <3>3. Removing(w) \in {"remove", "commit remove"}
      BY DEF Removing
    <3>4. Frame(w) /\ at'[w] = Removing(w) /\ arg'[w] = arg[w]
      <4>1. Removing(w) \in Place /\ arg[w] \in Argument
        BY <2>2, <3>3, FilesFacts DEF Place
      <4> QED
        BY <3>1, <3>2, <4>1, SameKept, GotoFrame
    <3>5. ValidChain(arg[w])
      BY <2>2, <2>3, ExtendsFacts
    <3> QED
      BY <2>1, <2>2, <3>1, <3>3, <3>4, <3>5, FilesFacts DEF StepTypes, Placed
  <2>4. CASE ~Extends(arg[w])
    BY <1>6, <2>1, <2>4, ReturnFrame, FilesFacts DEF SubmitAdd, StepTypes
  <2> QED
    BY <2>3, <2>4
<1>7. CASE SubmitRemove(w)
  <2>1. /\ at[w] \in {"remove", "commit remove"} /\ pool' = RemoveIDs(pool, ToSet(Last(arg[w]).txs))
        /\ db' = None /\ chainMu' \in {None, chainMu} /\ Goto(w, "refresh", None)
        /\ kept' = kept /\ UNCHANGED <<chain, template, txMu>>
    BY <1>7 DEF SubmitRemove
  <2>2. db = w /\ chainMu = w
    BY <2>1 DEF TypeInv, Placed
  <2>3. pool' \in Seq(Transactions)
    BY <2>1, FilesFacts, RemoveIDsFacts
  <2>4. LockStep(db, db', w) /\ LockStep(chainMu, chainMu', w) /\ LockStep(txMu, txMu', w)
    BY <2>1, <2>2 DEF LockStep
  <2>5. Frame(w) /\ at'[w] = "refresh"
    <3>1. "refresh" \in Place /\ None \in Argument
      BY FilesFacts DEF Place
    <3> QED
      BY <2>1, <2>4, <3>1, SameKept, GotoFrame
  <2> QED
    BY <2>1, <2>3, <2>5, FilesFacts DEF StepTypes, Placed
<1> QED
  BY <1>1, <1>2, <1>3, <1>4, <1>5, <1>6, <1>7 DEF Mining

\* The chain of a reorganisation is a chain, and its orphans are transactions.
LEMMA ReorgChain ==
    ASSUME TypeInv, NEW height \in Nat, height < Height, NEW branch \in TupleOf(Bodies, 2)
    PROVE  /\ SubSeq(chain, 1, height) \o branch \in Chains
           /\ \A new : Orphans(new, height) \subseteq Transactions
<1>1. chain \in Chains /\ Len(chain) \in Nat /\ height < Len(chain)
  BY FilesFacts DEF Chains, Height
<1>2. branch \in Chains
  <2> DEFINE B == Block(Seq(Transactions))
  <2>1. Bodies \subseteq B /\ branch \in [1..2 -> Bodies]
    BY NodeAssumption DEF TupleOf
  <2> HIDE DEF B
  <2>2. branch \in [1..2 -> B]
    BY <2>1
  <2>3. \A n \in Nat : [1..n -> B] \subseteq Seq(B)
    OBVIOUS
  <2>4. branch \in Seq(B)
    BY <2>2, <2>3
  <2> QED
    BY <2>4 DEF Chains, B
<1>3. SubSeq(chain, 1, height) \in Chains
  BY <1>1 DEF Chains
<1>4. SubSeq(chain, 1, height) \o branch \in Chains
  BY <1>2, <1>3 DEF Chains
<1>5. ASSUME NEW i \in (height + 1)..Height
      PROVE  ToSet(chain[i].txs) \subseteq Transactions
  <2>1. i \in 1..Len(chain)
    BY <1>1 DEF Height
  <2>2. chain[i] \in Block(Seq(Transactions))
    BY <1>1, <2>1 DEF Chains
  <2>3. chain[i].txs \in Seq(Transactions)
    BY <2>2 DEF Block
  <2> QED
    BY <2>3, ElementsOfSeq
<1> QED
  BY <1>4, <1>5 DEF Orphans

\* The actions of a reorganisation.
LEMMA ReorgTypes ==
    ASSUME TypeInv, NEW w \in Worker, Reorg(w)
    PROVE  StepTypes(w)
<1>1. ASSUME NEW height \in 0..MaxHeight, NEW branch \in TupleOf(Bodies, 2), ReorgCommit(w, height, branch)
      PROVE  StepTypes(w)
  <2> DEFINE new == SubSeq(chain, 1, height) \o branch
             orphans == Orphans(new, height)
  <2>1. /\ chainMu = None /\ db = None /\ height < Height /\ ValidChain(new)
        /\ chain' = new /\ chainMu' = w /\ db' = w
        /\ Goto(w, "requeue", orphans) /\ kept' = kept /\ UNCHANGED <<pool, template, txMu>>
    BY <1>1 DEF ReorgCommit
  <2>2. height \in Nat
    BY NodeAssumption
  <2>3. new \in Chains /\ orphans \in SUBSET Transactions
    BY <2>1, <2>2, ReorgChain
  <2> HIDE DEF new, orphans
  <2>4. LockStep(db, db', w) /\ LockStep(chainMu, chainMu', w) /\ LockStep(txMu, txMu', w)
    BY <2>1 DEF LockStep
  <2>5. Frame(w) /\ at'[w] = "requeue" /\ arg'[w] = orphans
    <3>1. "requeue" \in Place /\ orphans \in Argument
      BY <2>3, FilesFacts DEF Place
    <3> QED
      BY <2>1, <2>4, <3>1, SameKept, GotoFrame
  <2> QED
    BY <2>1, <2>3, <2>5, FilesFacts DEF StepTypes, Placed
<1>2. CASE RequeueOrphans(w)
  <2>1. PICK order \in SetToSeqs(arg[w]) : kept' = [kept EXCEPT ![w] = Requeue(pool, order, chain)]
    BY <1>2 DEF RequeueOrphans
  <2>2. at[w] = "requeue" /\ Goto(w, "reorg save", arg[w]) /\ UNCHANGED <<chain, pool, template, locks>>
    BY <1>2 DEF RequeueOrphans
  <2>3. arg[w] \in SUBSET Transactions /\ arg[w] \in Argument /\ db = w /\ chainMu = w
    BY <2>2 DEF TypeInv, Placed
  <2>4. order \in Seq(Transactions)
    <3>1. IsFiniteSet(arg[w])
      BY <2>3, TransactionsFacts, FS_Subset
    <3>2. Cardinality(arg[w]) \in Nat
      BY <3>1, FS_CardinalityType
    <3>3. order \in [1..Cardinality(arg[w]) -> arg[w]]
      BY <2>1 DEF SetToSeqs
    <3> QED
      BY <2>3, <3>2, <3>3
  <2> DEFINE k == Requeue(pool, order, chain)
  <2>5. k \in Seq(Transactions)
    BY <2>4, FilesFacts, RequeueFacts
  <2> HIDE DEF k
  <2>6. Frame(w) /\ at'[w] = "reorg save"
    <3>1. "reorg save" \in Place /\ kept' = [kept EXCEPT ![w] = k]
      BY <2>1 DEF Place, k
    <3> QED
      BY <2>2, <2>3, <2>5, <3>1, SameLocks, GotoFrame
  <2> QED
    BY <2>2, <2>3, <2>6, SameLocks, FilesFacts DEF StepTypes, Placed
<1>3. CASE ReorgSave(w)
  <2>1. /\ at[w] = "reorg save" /\ pool' = kept[w] /\ db' = None
        /\ kept' = [kept EXCEPT ![w] = <<>>] /\ Goto(w, "refresh", None)
        /\ UNCHANGED <<chain, template, chainMu, txMu>>
    BY <1>3 DEF ReorgSave
  <2>2. db = w /\ kept[w] \in Seq(Transactions)
    BY <2>1 DEF TypeInv, Placed
  <2>3. LockStep(db, db', w) /\ LockStep(chainMu, chainMu', w) /\ LockStep(txMu, txMu', w)
    BY <2>1, <2>2 DEF LockStep
  <2>4. Frame(w) /\ at'[w] = "refresh"
    <3>1. "refresh" \in Place /\ None \in Argument /\ <<>> \in Seq(Transactions)
      BY FilesFacts DEF Place
    <3> QED
      BY <2>1, <2>3, <3>1, GotoFrame
  <2> QED
    BY <2>1, <2>2, <2>4, FilesFacts DEF StepTypes, Placed
<1> QED
  BY <1>1, <1>2, <1>3 DEF Reorg
---------------------------------------------------------------------------
\* The invariant of the types holds of the initial states.
LEMMA TypeInit == Init => TypeInv
<1> SUFFICES ASSUME Init PROVE TypeInv
  OBVIOUS
<1>1. chain \in Chains /\ ValidChain(chain)
  BY NodeAssumption DEF Init, Chains
<1>2. pool \in Seq(Transactions) /\ template = None
  BY DEF Init
<1>3. "idle" \in Place /\ None \in Argument /\ <<>> \in Seq(Transactions)
  BY IdleTypes
<1>4. at \in [Worker -> Place] /\ arg \in [Worker -> Argument] /\ kept \in [Worker -> Seq(Transactions)]
  BY <1>3 DEF Init
<1>5. \A w \in Worker : Placed(w)
  BY DEF Init, Placed
<1> QED
  BY <1>1, <1>2, <1>4, <1>5 DEF TypeInv

\* A step of a worker keeps it, whoever else is in the middle of a handler.
LEMMA TypeStep ==
    ASSUME TypeInv, NEW w \in Worker, StepTypes(w)
    PROVE  TypeInv'
<1>1. ASSUME NEW u \in Worker
      PROVE  Placed(u)'
  <2>1. CASE u = w
    BY <2>1 DEF StepTypes
  <2>2. CASE u # w
    <3>1. /\ at'[u] = at[u] /\ arg'[u] = arg[u]
          /\ db = u => db' = u
          /\ chainMu = u => chainMu' = u
          /\ txMu = u => txMu' = u
      BY <2>2 DEF StepTypes, Frame
    <3>2. Placed(u)
      BY DEF TypeInv
    <3> QED
      BY <3>1, <3>2 DEF Placed
  <2> QED
    BY <2>1, <2>2
<1> QED
  BY <1>1 DEF TypeInv, StepTypes, Frame

\* A crash keeps it: the two files stay.
LEMMA TypeCrash == ASSUME TypeInv, Crash PROVE TypeInv'
<1>1. UNCHANGED <<chain, pool, template>>
  BY DEF Crash
<1>2. "idle" \in Place /\ None \in Argument /\ <<>> \in Seq(Transactions)
  BY IdleTypes
<1>3. at' \in [Worker -> Place] /\ arg' \in [Worker -> Argument] /\ kept' \in [Worker -> Seq(Transactions)]
  BY <1>2 DEF Crash
<1>4. \A w \in Worker : Placed(w)'
  BY DEF Crash, Placed
<1> QED
  BY <1>1, <1>3, <1>4 DEF TypeInv

\* Nothing happens to the invariant when nothing happens.
LEMMA TypeStutter == ASSUME TypeInv, UNCHANGED vars PROVE TypeInv'
<1>1. /\ at' = at /\ arg' = arg /\ kept' = kept /\ db' = db /\ chainMu' = chainMu /\ txMu' = txMu
      /\ chain' = chain /\ pool' = pool /\ template' = template
  BY DEF vars, locks
<1>2. ASSUME NEW w \in Worker, Placed(w) PROVE Placed(w)'
  BY <1>1, <1>2 DEF Placed
<1> QED
  BY <1>1, <1>2 DEF TypeInv

\* Every step keeps the types.
LEMMA TypeNext == ASSUME TypeInv, Next PROVE TypeInv'
<1>1. ASSUME NEW w \in Worker, Submission(w) \/ FromPeer(w) \/ Mining(w) \/ Reorg(w)
      PROVE  TypeInv'
  <2>1. StepTypes(w)
    BY <1>1, SubmissionTypes, FromPeerTypes, MiningTypes, ReorgTypes
  <2> QED
    BY <2>1, TypeStep
<1> QED
  BY <1>1, TypeCrash DEF Next

\* The type invariant of the model is part of it.
LEMMA TypeInvImplies == TypeInv => TypeOK
<1> SUFFICES ASSUME TypeInv PROVE TypeOK
  OBVIOUS
<1>1. \A w \in Worker : Placed(w)
  BY DEF TypeInv
<1>2. pool \in Seq(Transactions)
  BY DEF TypeInv
<1> QED
  BY <1>1, <1>2 DEF TypeOK, Placed
---------------------------------------------------------------------------
\* Where a step goes.
LEMMA GotoAt ==
    ASSUME TypeInv, NEW w \in Worker, NEW p, NEW v, Goto(w, p, v)
    PROVE  at'[w] = p /\ arg'[w] = v
  BY DEF TypeInv, Goto

\* A step that removes nothing from where it removes keeps what is removed, as
\* long as it adds nothing confirmed.
LEMMA RemovedSame ==
    ASSUME Removed, NEW w \in Worker, Frame(w), chain' = chain, at[w] \notin Removes,
           \A tx \in ToSet(pool') : tx \in ToSet(pool) \/ tx \notin Confirmed(chain)
    PROVE  Removed'
<1> SUFFICES ASSUME NEW tx \in ToSet(pool') \cap Confirmed(chain')
             PROVE  \E u \in Worker : at'[u] \in Removes /\ tx \in ToSet(Last(arg'[u]).txs)
  BY DEF Removed, Removes
<1>1. tx \in ToSet(pool) \cap Confirmed(chain)
  OBVIOUS
<1>2. PICK u \in Worker : at[u] \in Removes /\ tx \in ToSet(Last(arg[u]).txs)
  BY <1>1 DEF Removed
<1>3. at'[u] = at[u] /\ arg'[u] = arg[u]
  BY <1>2 DEF Frame
<1> QED
  BY <1>2, <1>3

\* Taking the transactions of a block out of the pool.
LEMMA RemovedClean ==
    ASSUME TypeInv, Removed, NEW w \in Worker, Frame(w), chain' = chain,
           pool' = RemoveIDs(pool, ToSet(Last(arg[w]).txs))
    PROVE  Removed'
<1>1. ToSet(pool') = ToSet(pool) \ ToSet(Last(arg[w]).txs)
  BY FilesFacts, RemoveIDsFacts
<1> SUFFICES ASSUME NEW tx \in ToSet(pool') \cap Confirmed(chain')
             PROVE  \E u \in Worker : at'[u] \in Removes /\ tx \in ToSet(Last(arg'[u]).txs)
  BY DEF Removed, Removes
<1>2. tx \in ToSet(pool) \cap Confirmed(chain) /\ tx \notin ToSet(Last(arg[w]).txs)
  BY <1>1
<1>3. PICK u \in Worker : at[u] \in Removes /\ tx \in ToSet(Last(arg[u]).txs)
  BY <1>2 DEF Removed
<1>4. at'[u] = at[u] /\ arg'[u] = arg[u]
  BY <1>2, <1>3 DEF Frame
<1> QED
  BY <1>3, <1>4

\* What one more block confirms, its handler removes.
LEMMA RemovedAdd ==
    ASSUME Removed, TypeInv, NEW w \in Worker, Frame(w), at[w] \notin Removes,
           NEW block \in Block(Seq(Transactions)), chain' = Append(chain, block), pool' = pool,
           at'[w] \in Removes, Last(arg'[w]) = block
    PROVE  Removed'
<1>1. Confirmed(chain') = Confirmed(chain) \cup ToSet(block.txs)
  BY FilesFacts, ConfirmedAppend DEF Chains
<1> SUFFICES ASSUME NEW tx \in ToSet(pool') \cap Confirmed(chain')
             PROVE  \E u \in Worker : at'[u] \in Removes /\ tx \in ToSet(Last(arg'[u]).txs)
  BY DEF Removed, Removes
<1>2. CASE tx \in ToSet(block.txs)
  BY <1>2
<1>3. CASE tx \in Confirmed(chain)
  <2>1. PICK u \in Worker : at[u] \in Removes /\ tx \in ToSet(Last(arg[u]).txs)
    BY <1>3 DEF Removed
  <2>2. at'[u] = at[u] /\ arg'[u] = arg[u]
    BY <2>1 DEF Frame
  <2> QED
    BY <2>1, <2>2
<1> QED
  BY <1>1, <1>2, <1>3

\* The pool becomes a part of what it was.
Shrinks == pool' \in Seq(Transactions) /\ IsInjective(pool') /\ ToSet(pool') \subseteq ToSet(pool)

LEMMA ShrinksSame == ASSUME TypeInv, Tidy(pool), pool' = pool PROVE Shrinks
  BY FilesFacts, TidyInjective DEF Shrinks

LEMMA ShrinksRemoved ==
    ASSUME TypeInv, Tidy(pool), NEW txs, pool' = RemoveIDs(pool, txs)
    PROVE  Shrinks /\ Tidy(pool')
<1>1. Shrinks
  BY FilesFacts, TidyInjective, RemoveIDsFacts DEF Shrinks
<1> QED
  BY <1>1, FilesFacts, TidyPart DEF Shrinks
---------------------------------------------------------------------------
\* Only confirmed transactions leave the pool, and what is confirmed stays so.
Cleans == /\ ToSet(pool) \ ToSet(pool') \subseteq Confirmed(chain)
          /\ Confirmed(chain) \subseteq Confirmed(chain')

\* A revalidation ignores what is confirmed.
LEMMA SameRevalidation ==
    ASSUME TypeInv, Shrinks, Cleans, chain' = chain
    PROVE  RevalidateTransactions(pool', chain') = RevalidateTransactions(pool, chain)
<1> DEFINE p == RemoveIDs(pool, Confirmed(chain))
           q == RemoveIDs(pool', Confirmed(chain))
<1>1. ToSet(p) = ToSet(pool) \ Confirmed(chain) /\ ToSet(q) = ToSet(pool') \ Confirmed(chain)
  BY FilesFacts, RemoveIDsFacts DEF Shrinks
<1>2. RevalidateTransactions(pool, chain) = Loop(Revalidate, Keeping(LedgerOf(chain), MaxTxCount), ByRank(p)).kept
  BY DEF RevalidateTransactions
<1>3. RevalidateTransactions(pool', chain') = Loop(Revalidate, Keeping(LedgerOf(chain), MaxTxCount), ByRank(q)).kept
  BY DEF RevalidateTransactions
<1> HIDE DEF p, q
<1>4. ToSet(p) = ToSet(q)
  BY <1>1 DEF Shrinks, Cleans
<1>5. ByRank(p) = ByRank(q)
  BY <1>4 DEF ByRank
<1> QED
  BY <1>2, <1>3, <1>5

\* Who holds the database is not disturbed by another worker.
LEMMA PeerOthers ==
    ASSUME TypeInv, PeerInv, NEW w \in Worker, Frame(w), NEW u \in Worker, u # w,
           Confirmed(chain) \subseteq Confirmed(chain'),
           db = u => chain' = chain /\ Shrinks /\ Cleans
    PROVE  PeerAt(u)'
<1>1. PeerAt(u) /\ Placed(u) /\ Tidy(pool) /\ pool \in Seq(Transactions)
  BY DEF PeerInv, TypeInv
<1>2. at'[u] = at[u] /\ arg'[u] = arg[u] /\ kept'[u] = kept[u] /\ (db = u => db' = u)
  BY DEF Frame
<1>3. at[u] \in {"admit", "add", "tx save", "block save"} => db = u
  BY <1>1 DEF PeerAt, Placed
<1>4. at'[u] \in {"admit", "add"} => db' = u /\ arg'[u] \notin Confirmed(chain')
  BY <1>1, <1>2, <1>3 DEF PeerAt
<1>5. at'[u] = "add" => Admits(pool', arg'[u])
  <2> HAVE at'[u] = "add"
  <2>1. Admits(pool, arg[u]) /\ Shrinks
    BY <1>1, <1>2, <1>3 DEF PeerAt
  <2>2. Admits(pool', arg[u])
    BY <1>1, <2>1, AdmitsPart DEF Shrinks
  <2> QED
    BY <1>2, <2>2
<1>6. at'[u] \in {"tx save", "block save"} => kept'[u] = RevalidateTransactions(pool', chain')
  <2> HAVE at'[u] \in {"tx save", "block save"}
  <2>1. kept[u] = RevalidateTransactions(pool, chain) /\ chain' = chain /\ Shrinks /\ Cleans
    BY <1>1, <1>2, <1>3 DEF PeerAt
  <2>2. RevalidateTransactions(pool', chain') = RevalidateTransactions(pool, chain)
    BY <2>1, SameRevalidation
  <2> QED
    BY <1>2, <2>1, <2>2
<1>7. at'[u] \in Removes => ToSet(Last(arg'[u]).txs) \subseteq Confirmed(chain')
  BY <1>1, <1>2 DEF PeerAt
<1>8. at'[u] \in PeerPlaces
  BY <1>1, <1>2 DEF PeerAt
<1> QED
  BY <1>4, <1>5, <1>6, <1>7, <1>8 DEF PeerAt, PeerPlaces, Removes, Tidy
---------------------------------------------------------------------------
\* A step of a handler that leaves the two files alone.
LEMMA PeerQuiet ==
    ASSUME TypeInv, PeerInv, NEW w \in Worker, Frame(w), chain' = chain, pool' = pool,
           at[w] \notin Removes, PeerAt(w)'
    PROVE  PeerInv'
<1>1. Tidy(pool) /\ Removed
  BY DEF PeerInv
<1>2. Removed'
  BY <1>1, RemovedSame
<1>3. Tidy(pool')
  BY <1>1
<1>4. Shrinks /\ Cleans
  BY <1>1, ShrinksSame DEF Cleans
<1>5. \A u \in Worker \ {w} : PeerAt(u)'
  BY <1>4, PeerOthers DEF Cleans
<1> QED
  BY <1>2, <1>3, <1>5 DEF PeerInv, Tidy

\* A worker that is at none of the places that have something to keep.
LEMMA PeerEasy ==
    ASSUME NEW w \in Worker, at'[w] \in PeerPlaces \ ({"admit", "add", "tx save", "block save"} \cup Removes)
    PROVE  PeerAt(w)'
  BY DEF PeerAt, PeerPlaces, Removes

\* A handler that returns.
LEMMA PeerReturn ==
    ASSUME TypeInv, PeerInv, NEW w \in Worker, Return(w), chain' = chain, pool' = pool,
           at[w] \notin Removes
    PROVE  PeerInv'
<1>1. Frame(w) /\ at'[w] = "idle"
  BY ReturnFrame
<1>2. PeerAt(w)'
  BY <1>1, PeerEasy DEF PeerPlaces, Removes
<1> QED
  BY <1>1, <1>2, PeerQuiet

\* A block that a handler adds to the chain.
LEMMA PeerGrows ==
    ASSUME TypeInv, PeerInv, NEW w \in Worker, Frame(w), at[w] \notin Removes, db = None,
           arg[w] \in Chains, arg[w] # <<>>, Extends(arg[w]), chain' = arg[w], pool' = pool,
           NEW p \in PeerPlaces \cap Removes, Goto(w, p, arg[w])
    PROVE  PeerInv'
<1> DEFINE block == Last(arg[w])
<1>1. arg[w] = Append(chain, block) /\ block \in Block(Seq(Transactions))
  BY ExtendsFacts
<1>2. at'[w] = p /\ arg'[w] = arg[w]
  BY GotoAt
<1>3. Removed /\ Tidy(pool)
  BY DEF PeerInv
<1>4. Last(arg'[w]) = block
  BY <1>2
<1> HIDE DEF block
<1>5. Removed'
  BY <1>1, <1>2, <1>3, <1>4, RemovedAdd
<1>6. Confirmed(chain') = Confirmed(chain) \cup ToSet(block.txs)
  BY <1>1, FilesFacts, ConfirmedAppend DEF Chains
<1>7. PeerAt(w)'
  <2>1. ToSet(Last(arg'[w]).txs) \subseteq Confirmed(chain')
    BY <1>4, <1>6
  <2> QED
    BY <1>2, <2>1 DEF PeerAt, PeerPlaces, Removes
<1>8. \A u \in Worker \ {w} : PeerAt(u)'
  <2>1. \A u \in Worker : db # u
    BY NodeAssumption
  <2> QED
    BY <1>6, <2>1, PeerOthers
<1> QED
  BY <1>3, <1>5, <1>7, <1>8 DEF PeerInv, Tidy

\* The transactions of a block that a handler takes out of the pool.
LEMMA PeerCleans ==
    ASSUME TypeInv, PeerInv, NEW w \in Worker, Frame(w), chain' = chain,
           pool' = RemoveIDs(pool, ToSet(Last(arg[w]).txs)),
           at[w] \in Removes,
           at'[w] \in PeerPlaces \ ({"admit", "add", "tx save", "block save"} \cup Removes)
    PROVE  PeerInv'
<1>1. Removed /\ Tidy(pool)
  BY DEF PeerInv
<1>2. Removed' /\ Shrinks /\ Tidy(pool')
  BY <1>1, RemovedClean, ShrinksRemoved
<1>3. PeerAt(w)'
  BY PeerEasy
<1>4. Cleans
  <2>1. ToSet(Last(arg[w]).txs) \subseteq Confirmed(chain)
    BY DEF PeerInv, PeerAt
  <2>2. ToSet(pool') = ToSet(pool) \ ToSet(Last(arg[w]).txs)
    BY FilesFacts, RemoveIDsFacts
  <2> QED
    BY <2>1, <2>2 DEF Cleans
<1>5. \A u \in Worker \ {w} : PeerAt(u)'
  BY <1>2, <1>4, PeerOthers DEF Cleans
<1> QED
  BY <1>2, <1>3, <1>5 DEF PeerInv, Tidy

\* What a revalidation keeps of a tidy pool is tidy and not confirmed.
LEMMA RevalidationTidy ==
    ASSUME TypeInv, Tidy(pool)
    PROVE  LET r == RevalidateTransactions(pool, chain)
           IN  Tidy(r) /\ ToSet(r) \cap Confirmed(chain) = {}
<1> DEFINE r == RevalidateTransactions(pool, chain)
<1>1. r \in Seq(Transactions) /\ ToSet(r) \subseteq ToSet(pool) \ Confirmed(chain) /\ IsInjective(r)
  BY FilesFacts, RevalidateFacts
<1> HIDE DEF r
<1>2. ToSet(r) \subseteq ToSet(pool)
  BY <1>1
<1>3. Tidy(r)
  BY <1>1, <1>2, FilesFacts, TidyPart
<1> QED
  BY <1>1, <1>3 DEF r

\* The end of a submission, which is also that of acceptTx.
LEMMA PeerSubmission ==
    ASSUME TypeInv, PeerInv, FromPeersOnly, NEW w \in Worker, Submission(w)
    PROVE  PeerInv'
<1>1. Frame(w) /\ PeerAt(w)
  BY SubmissionTypes DEF StepTypes, PeerInv
<1>2. at[w] \in PeerPlaces
  BY <1>1 DEF PeerAt
<1>3. ASSUME NEW request \in Requests, SendBegin(w, request) \/ StakeBegin(w, request)
      PROVE  FALSE
  BY <1>3 DEF SendBegin, StakeBegin, FromPeersOnly
<1>4. ~CreatePending(w) /\ ~StakeBlocks(w) /\ ~CreateStake(w)
  BY <1>2 DEF CreatePending, StakeBlocks, CreateStake, PeerPlaces
<1>5. ~MempoolClear(w)
  BY DEF MempoolClear, FromPeersOnly
<1>6. CASE AdmitLoad(w)
  <2>1. at[w] = "admit" /\ chain' = chain /\ pool' = pool
    BY <1>6 DEF AdmitLoad
  <2>2. at[w] \notin Removes
    BY <2>1 DEF Removes
  <2>3. CASE Admits(pool, arg[w])
    <3>1. Goto(w, "add", arg[w]) /\ db' = db
      BY <1>6, <2>3 DEF AdmitLoad, locks
    <3>2. at'[w] = "add" /\ arg'[w] = arg[w]
      BY <3>1, GotoAt
    <3>3. db = w /\ arg[w] \notin Confirmed(chain)
      BY <1>1, <2>1 DEF PeerAt
    <3>4. PeerAt(w)'
      BY <2>1, <2>3, <3>1, <3>2, <3>3 DEF PeerAt, PeerPlaces, Removes
    <3> QED
      BY <1>1, <2>1, <2>2, <3>4, PeerQuiet
  <2>4. CASE ~Admits(pool, arg[w])
    <3>1. Return(w)
      BY <1>6, <2>4 DEF AdmitLoad
    <3> QED
      BY <2>1, <2>2, <3>1, PeerReturn
  <2> QED
    BY <2>3, <2>4
<1>7. CASE AdmitAdd(w)
  <2>1. at[w] = "add" /\ chain' = chain /\ pool' = Add(pool, arg[w]) /\ Goto(w, "refresh", None)
    BY <1>7 DEF AdmitAdd
  <2>2. /\ db = w /\ arg[w] \notin Confirmed(chain) /\ Admits(pool, arg[w])
        /\ arg[w] \in Transactions /\ Tidy(pool) /\ Removed
    BY <1>1, <2>1 DEF PeerAt, PeerInv, TypeInv, Placed
  <2>3. Tidy(pool') /\ ToSet(pool') = ToSet(pool) \cup {arg[w]}
    BY <2>1, <2>2, FilesFacts, TidyAdd
  <2>4. Removed'
    <3>1. at[w] \notin Removes
      BY <2>1 DEF Removes
    <3>2. \A tx \in ToSet(pool') : tx \in ToSet(pool) \/ tx \notin Confirmed(chain)
      BY <2>2, <2>3
    <3> QED
      BY <1>1, <2>1, <2>2, <3>1, <3>2, RemovedSame
  <2>5. PeerAt(w)'
    <3>1. at'[w] = "refresh"
      BY <2>1, GotoAt
    <3> QED
      BY <3>1, PeerEasy DEF PeerPlaces, Removes
  <2>6. \A u \in Worker \ {w} : PeerAt(u)'
    BY <1>1, <2>1, <2>2, PeerOthers
  <2> QED
    BY <2>3, <2>4, <2>5, <2>6 DEF PeerInv, Tidy
<1>8. CASE RefreshState(w)
  <2>1. at[w] = "refresh" /\ Return(w) /\ chain' = chain /\ pool' = pool
    BY <1>8 DEF RefreshState
  <2>2. at[w] \notin Removes
    BY <2>1 DEF Removes
  <2> QED
    BY <2>1, <2>2, PeerReturn
<1> QED
  BY <1>3, <1>4, <1>5, <1>6, <1>7, <1>8 DEF Submission

\* The transactions and blocks of peers.
LEMMA PeerFromPeer ==
    ASSUME TypeInv, PeerInv, FromPeersOnly, NEW w \in Worker, FromPeer(w)
    PROVE  PeerInv'
<1>1. Frame(w) /\ PeerAt(w)
  BY FromPeerTypes DEF StepTypes, PeerInv
<1>2. at[w] \in PeerPlaces
  BY <1>1 DEF PeerAt
<1>3. ASSUME NEW tx \in PeerTxs, ReceiveTx(w, tx)
      PROVE  PeerInv'
  <2>1. at[w] = "idle" /\ Goto(w, "tx revalidate", tx) /\ chain' = chain /\ pool' = pool
    BY <1>3 DEF ReceiveTx
  <2>2. at'[w] = "tx revalidate" /\ at[w] \notin Removes
    BY <2>1, GotoAt DEF Removes
  <2>3. PeerAt(w)'
    BY <2>2, PeerEasy DEF PeerPlaces, Removes
  <2> QED
    BY <1>1, <2>1, <2>2, <2>3, PeerQuiet
<1>4. CASE RevalidateLoad(w)
  <2> DEFINE k == RevalidateTransactions(pool, chain)
             p == IF at[w] = "tx revalidate" THEN "tx save" ELSE "block save"
  <2>1. /\ at[w] \in {"tx revalidate", "block revalidate"} /\ Goto(w, p, arg[w])
        /\ kept' = [kept EXCEPT ![w] = k] /\ chain' = chain /\ pool' = pool
    BY <1>4 DEF RevalidateLoad
  <2>2. at'[w] = p /\ at[w] \notin Removes /\ p \in {"tx save", "block save"}
    BY <2>1, GotoAt DEF Removes
  <2>3. kept'[w] = RevalidateTransactions(pool', chain')
    BY <2>1 DEF TypeInv
  <2> HIDE DEF k, p
  <2>4. PeerAt(w)'
    BY <2>2, <2>3 DEF PeerAt, PeerPlaces, Removes
  <2> QED
    BY <1>1, <2>1, <2>2, <2>4, PeerQuiet
<1>5. CASE RevalidateSave(w)
  <2> DEFINE p == IF at[w] = "tx save" THEN "tx check" ELSE "refresh"
  <2>1. at[w] \in {"tx save", "block save"} /\ pool' = kept[w] /\ chain' = chain /\ Goto(w, p, arg[w])
    BY <1>5 DEF RevalidateSave
  <2>2. db = w /\ Removed /\ Tidy(pool') /\ ToSet(pool') \cap Confirmed(chain) = {}
    <3>1. db = w /\ Removed /\ Tidy(pool) /\ pool' = RevalidateTransactions(pool, chain)
      BY <1>1, <2>1 DEF PeerAt, PeerInv, TypeInv, Placed
    <3> QED
      BY <3>1, RevalidationTidy
  <2>3. at'[w] = p /\ at[w] \notin Removes /\ p \in {"tx check", "refresh"}
    BY <2>1, GotoAt DEF Removes
  <2> HIDE DEF p
  <2>4. Removed'
    BY <1>1, <2>1, <2>2, <2>3, RemovedSame
  <2>5. PeerAt(w)'
    BY <2>3, PeerEasy DEF PeerPlaces, Removes
  <2>6. \A u \in Worker \ {w} : PeerAt(u)'
    BY <1>1, <2>1, <2>2, PeerOthers
  <2> QED
    BY <2>2, <2>4, <2>5, <2>6 DEF PeerInv, Tidy
<1>6. CASE AcceptCheck(w)
  <2>1. at[w] = "tx check" /\ chain' = chain /\ pool' = pool
    BY <1>6 DEF AcceptCheck
  <2>2. at[w] \notin Removes
    BY <2>1 DEF Removes
  <2>3. CASE AcceptsTx(arg[w])
    <3>1. db' = w /\ Goto(w, "admit", arg[w])
      BY <1>6, <2>3 DEF AcceptCheck
    <3>2. at'[w] = "admit" /\ arg'[w] = arg[w]
      BY <3>1, GotoAt
    <3>3. arg[w] \notin Confirmed(chain)
      BY <2>3 DEF AcceptsTx
    <3>4. PeerAt(w)'
      BY <2>1, <3>1, <3>2, <3>3 DEF PeerAt, PeerPlaces, Removes
    <3> QED
      BY <1>1, <2>1, <2>2, <3>4, PeerQuiet
  <2>4. CASE ~AcceptsTx(arg[w])
    <3>1. Return(w)
      BY <1>6, <2>4 DEF AcceptCheck
    <3> QED
      BY <2>1, <2>2, <3>1, PeerReturn
  <2> QED
    BY <2>3, <2>4
<1>7. ASSUME NEW body \in Bodies, ReceiveBlock(w, body)
      PROVE  PeerInv'
  <2>1. at[w] = "idle" /\ Goto(w, "block add", Append(chain, body)) /\ chain' = chain /\ pool' = pool
    BY <1>7 DEF ReceiveBlock
  <2>2. at'[w] = "block add" /\ at[w] \notin Removes
    BY <2>1, GotoAt DEF Removes
  <2>3. PeerAt(w)'
    BY <2>2, PeerEasy DEF PeerPlaces, Removes
  <2> QED
    BY <1>1, <2>1, <2>2, <2>3, PeerQuiet
<1>8. CASE ReceiveAdd(w)
  <2>1. at[w] = "block add" /\ db = None /\ pool' = pool
    BY <1>8 DEF ReceiveAdd
  <2>2. arg[w] \in Chains /\ arg[w] # <<>> /\ at[w] \notin Removes
    BY <2>1 DEF TypeInv, Placed, Removes
  <2>3. CASE Extends(arg[w])
    <3>1. chain' = arg[w] /\ Goto(w, "block remove", arg[w])
      BY <1>8, <2>3 DEF ReceiveAdd
    <3>2. "block remove" \in PeerPlaces \cap Removes
      BY DEF PeerPlaces, Removes
    <3> QED
      BY <1>1, <2>1, <2>2, <2>3, <3>1, <3>2, PeerGrows
  <2>4. CASE ~Extends(arg[w])
    <3>1. Return(w) /\ chain' = chain
      BY <1>8, <2>4 DEF ReceiveAdd
    <3> QED
      BY <2>1, <2>2, <3>1, PeerReturn
  <2> QED
    BY <2>3, <2>4
<1>9. CASE ReceiveRemove(w)
  <2>1. /\ pool' = RemoveIDs(pool, ToSet(Last(arg[w]).txs)) /\ chain' = chain
        /\ Goto(w, "block revalidate", None)
    BY <1>9 DEF ReceiveRemove
  <2>2. at'[w] = "block revalidate" /\ at[w] \in Removes
    BY <1>9, <2>1, GotoAt DEF ReceiveRemove, Removes
  <2> QED
    BY <1>1, <2>1, <2>2, PeerCleans DEF PeerPlaces, Removes
<1> QED
  BY <1>3, <1>4, <1>5, <1>6, <1>7, <1>8, <1>9 DEF FromPeer

\* External miners.
LEMMA PeerMining ==
    ASSUME TypeInv, PeerInv, FromPeersOnly, NEW w \in Worker, Mining(w)
    PROVE  PeerInv'
<1>1. Frame(w) /\ PeerAt(w)
  BY MiningTypes DEF StepTypes, PeerInv
<1>2. at[w] \in PeerPlaces
  BY <1>1 DEF PeerAt
<1>3. ~MineLoad(w) /\ ~MineCandidate(w) /\ ~CommitLock(w)
  BY <1>2 DEF MineLoad, MineCandidate, CommitLock, FromPeersOnly, PeerPlaces
<1>4. CASE MinerTemplate(w)
  <2>1. at[w] = "idle" /\ at' = at /\ chain' = chain /\ pool' = pool
    BY <1>4 DEF MinerTemplate
  <2>2. at[w] \notin Removes /\ at'[w] = "idle"
    BY <2>1 DEF Removes
  <2>3. PeerAt(w)'
    BY <2>2, PeerEasy DEF PeerPlaces, Removes
  <2> QED
    BY <1>1, <2>1, <2>2, <2>3, PeerQuiet
<1>5. CASE MinerSubmit(w)
  <2>1. at[w] = "idle" /\ Goto(w, "submit", template) /\ chain' = chain /\ pool' = pool
    BY <1>5 DEF MinerSubmit
  <2>2. at'[w] = "submit" /\ at[w] \notin Removes
    BY <2>1, GotoAt DEF Removes
  <2>3. PeerAt(w)'
    BY <2>2, PeerEasy DEF PeerPlaces, Removes
  <2> QED
    BY <1>1, <2>1, <2>2, <2>3, PeerQuiet
<1>6. CASE SubmitAdd(w)
  <2>1. at[w] \in {"submit", "commit add"} /\ db = None /\ pool' = pool
    BY <1>6 DEF SubmitAdd
  <2>2. /\ arg[w] \in Chains /\ arg[w] # <<>> /\ at[w] \notin Removes
        /\ at[w] = "submit"
    BY <1>2, <2>1 DEF TypeInv, Placed, Removes, PeerPlaces
  <2>3. CASE Extends(arg[w])
    <3>1. chain' = arg[w] /\ Goto(w, "remove", arg[w])
      BY <1>6, <2>2, <2>3 DEF SubmitAdd, Removing
    <3>2. "remove" \in PeerPlaces \cap Removes
      BY DEF PeerPlaces, Removes
    <3> QED
      BY <1>1, <2>1, <2>2, <2>3, <3>1, <3>2, PeerGrows
  <2>4. CASE ~Extends(arg[w])
    <3>1. Return(w) /\ chain' = chain
      BY <1>6, <2>4 DEF SubmitAdd
    <3> QED
      BY <2>1, <2>2, <3>1, PeerReturn
  <2> QED
    BY <2>3, <2>4
<1>7. CASE SubmitRemove(w)
  <2>1. /\ pool' = RemoveIDs(pool, ToSet(Last(arg[w]).txs)) /\ chain' = chain
        /\ Goto(w, "refresh", None)
    BY <1>7 DEF SubmitRemove
  <2>2. at'[w] = "refresh" /\ at[w] \in Removes
    BY <1>7, <2>1, GotoAt DEF SubmitRemove, Removes
  <2> QED
    BY <1>1, <2>1, <2>2, PeerCleans DEF PeerPlaces, Removes
<1> QED
  BY <1>3, <1>4, <1>5, <1>6, <1>7 DEF Mining

\* A node that gets transactions from its peers only has no reorganisation here.
LEMMA PeerNext ==
    ASSUME TypeInv, PeerInv, FromPeersOnly, Next
    PROVE  PeerInv'
<1>1. ASSUME NEW w \in Worker, Reorg(w)
      PROVE  FALSE
  <2>1. at[w] \in PeerPlaces
    BY DEF PeerInv, PeerAt
  <2>2. \A height, branch : ~ReorgCommit(w, height, branch)
    BY DEF ReorgCommit, FromPeersOnly
  <2>3. ~RequeueOrphans(w) /\ ~ReorgSave(w)
    BY <2>1 DEF RequeueOrphans, ReorgSave, PeerPlaces
  <2> QED
    BY <1>1, <2>2, <2>3 DEF Reorg
<1>2. ~Crash
  BY DEF Crash, FromPeersOnly
<1> QED
  BY <1>1, <1>2, PeerSubmission, PeerFromPeer, PeerMining DEF Next
---------------------------------------------------------------------------
\* How many transactions of a pool a sender has sent.
CountFrom(q, a) == Cardinality({i \in DOMAIN q : q[i].from = a})

\* The nonces of one sender that are pending without a gap over those that are
\* used are as many as the next ones: the number of pending transactions is the
\* distance to the next free nonce.
LEMMA PendingNonces ==
    ASSUME NEW q \in Seq(Transactions), Tidy(q), NEW a \in Address, NEW used \in Nat,
           \A i \in DOMAIN q : q[i].from = a => q[i].nonce > used,
           \A i \in DOMAIN q, m \in Nat :
              q[i].from = a /\ m > used /\ m < q[i].nonce => \E j \in DOMAIN q : q[j].from = a /\ q[j].nonce = m
    PROVE  /\ CountFrom(q, a) \in Nat
           /\ \A i \in DOMAIN q : q[i].from = a => q[i].nonce <= used + CountFrom(q, a)
           /\ \A m \in Nat : m > used /\ m <= used + CountFrom(q, a) => \E j \in DOMAIN q : q[j].from = a /\ q[j].nonce = m
<1> DEFINE D == {i \in DOMAIN q : q[i].from = a}
           N == {q[i].nonce : i \in D}
           n == CountFrom(q, a)
           f == [i \in D |-> q[i].nonce]
<1>0. n = Cardinality(D)
  BY DEF CountFrom
<1> HIDE DEF n
<1>1. IsFiniteSet(D) /\ n \in Nat
  <2>1. IsFiniteSet(DOMAIN q)
    <3> DEFINE k == Len(q)
    <3>1. k \in Nat /\ DOMAIN q = 1..k
      OBVIOUS
    <3> HIDE DEF k
    <3>2. 1 \in Int /\ k \in Int
      BY <3>1
    <3>3. IsFiniteSet(1..k)
      BY <3>2, FS_Interval, Zenon
    <3> QED
      BY <3>1, <3>3
  <2>2. D \subseteq DOMAIN q
    OBVIOUS
  <2>3. IsFiniteSet(D)
    BY <2>1, <2>2, FS_Subset
  <2> QED
    BY <1>0, <2>3, FS_CardinalityType
<1>2. \A i \in DOMAIN q : q[i] \in Transaction /\ q[i].nonce \in Nat
  <2>1. \A i \in DOMAIN q : q[i] \in Transaction
    BY TransactionsFacts
  <2>2. \A tx \in Transaction : tx.nonce \in Nat
    BY ParamAssumption DEF Transaction
  <2> QED
    BY <2>1, <2>2
<1>3. IsFiniteSet(N) /\ Cardinality(N) = n
  <2>1. f \in [D -> N] /\ \A y \in N : \E x \in D : f[x] = y
    OBVIOUS
  <2>2. \A x, y \in D : f[x] = f[y] => x = y
    BY DEF Tidy, SameNonce
  <2> HIDE DEF f, N, D
  <2>3. f \in Surjection(D, N)
    BY <2>1 DEF Surjection
  <2>4. f \in Injection(D, N)
    BY <2>1, <2>2 DEF Injection, IsInjective
  <2> QED
    BY <1>0, <1>1, <2>3, <2>4, FS_Surjection
<1>4. /\ \A k \in N : k \in Nat /\ k > used
      /\ \A k \in N, m \in Nat : m > used /\ m < k => m \in N
  BY <1>2
<1>5. \A k \in Nat : k \in N <=> \E j \in DOMAIN q : q[j].from = a /\ q[j].nonce = k
  OBVIOUS
<1> HIDE DEF N, D, f
<1>6. ASSUME NEW k \in N
      PROVE  k <= used + n
  <2>1. k \in Nat /\ k > used
    BY <1>4
  <2>2. (used + 1)..k \subseteq N
    <3> SUFFICES ASSUME NEW m \in (used + 1)..k
                 PROVE  m \in N
      OBVIOUS
    <3>1. m \in Nat /\ m > used /\ (m < k \/ m = k)
      BY <2>1
    <3> QED
      BY <1>4, <3>1
  <2>3. Cardinality((used + 1)..k) = k - used
    BY <2>1, FS_Interval
  <2>4. Cardinality((used + 1)..k) <= n
    BY <1>3, <2>2, FS_Subset
  <2> QED
    BY <1>1, <2>1, <2>3, <2>4
<1>7. N = (used + 1)..(used + n)
  <2>1. N \subseteq (used + 1)..(used + n)
    BY <1>1, <1>4, <1>6
  <2>2. IsFiniteSet((used + 1)..(used + n)) /\ Cardinality((used + 1)..(used + n)) = n
    <3> DEFINE lo == used + 1
               hi == used + n
    <3>1. lo \in Int /\ hi \in Int /\ (lo > hi => n = 0) /\ hi - lo + 1 = n
      BY <1>1
    <3> HIDE DEF lo, hi
    <3>2. IsFiniteSet(lo..hi) /\ Cardinality(lo..hi) = IF lo > hi THEN 0 ELSE hi - lo + 1
      BY <3>1, FS_Interval
    <3>3. IsFiniteSet(lo..hi) /\ Cardinality(lo..hi) = n
      BY <3>1, <3>2
    <3> QED
      BY <3>3 DEF lo, hi
  <2> QED
    BY <1>3, <2>1, <2>2, FS_Subset
<1>8. ASSUME NEW i \in DOMAIN q, q[i].from = a
      PROVE  q[i].nonce <= used + n
  <2>1. q[i].nonce \in N
    BY <1>2, <1>5, <1>8
  <2> QED
    BY <1>6, <2>1
<1>9. ASSUME NEW m \in Nat, m > used, m <= used + n
      PROVE  \E j \in DOMAIN q : q[j].from = a /\ q[j].nonce = m
  <2>1. m \in N
    BY <1>1, <1>7, <1>9
  <2> QED
    BY <1>5, <2>1
<1> QED
  BY <1>1, <1>8, <1>9 DEF n
---------------------------------------------------------------------------
\* The types of what the invariant of the clients compares.
LEMMA NonceTypes ==
    ASSUME TypeInv
    PROVE  /\ \A a \in Address : Used(a) \in Nat
           /\ \A tx \in Transactions : tx \in Transaction /\ tx.from \in Address /\ tx.nonce \in Nat
<1>1. Sound(LedgerOf(chain))
  BY FilesFacts, LedgerOfGood
<1>2. LedgerOf(chain).nonce \in [Address -> 0..MaxNonce] /\ MaxNonce \in Nat
  BY <1>1, ParamAssumption DEF Sound, LedgerState
<1>3. \A tx \in Transactions : tx \in Transaction
  BY TransactionsFacts
<1>4. \A tx \in Transaction : tx.from \in Address /\ tx.nonce \in Nat
  BY ParamAssumption DEF Transaction
<1> QED
  BY <1>2, <1>3, <1>4 DEF Used

\* The used nonces are natural numbers after a step as well.
UsedNat == \A a \in Address : Used(a) \in Nat

LEMMA UsedType == TypeInv => UsedNat
  BY NonceTypes DEF UsedNat

\* What every step does to the used nonces, the pending and the confirmed
\* transactions: only a transaction with a used nonce leaves the pool.
Progress ==
    /\ \A a \in Address : Used(a) <= Used(a)'
    /\ \A tx \in ToSet(pool) : tx.nonce > Used(tx.from)' => tx \in ToSet(pool')
    /\ Confirmed(chain) \subseteq Confirmed(chain')
    /\ Known \subseteq Known'

\* While a worker submits, the pool only shrinks and a new nonce stays unused.
Undisturbed == Shrinks /\ \A tx \in Transactions : Fresh(tx) => tx.nonce > Used(tx.from)'

\* No step leaves a gap.
LEMMA NoGapKept ==
    ASSUME TypeInv, TypeInv', Progress, NEW a \in Address, NEW n \in Nat, NoGap(a, n)
    PROVE  NoGap(a, n)'
<1> SUFFICES ASSUME NEW m \in Nat, m > Used(a)', m < n
             PROVE  \E tx \in ToSet(pool') : tx.from = a /\ tx.nonce = m
  BY DEF NoGap
<1>1. Used(a) \in Nat /\ Used(a)' \in Nat /\ Used(a) <= Used(a)'
  <2>1. UsedNat'
    BY UsedType, PTL
  <2> QED
    BY <2>1, NonceTypes DEF Progress, UsedNat
<1>2. m > Used(a)
  BY <1>1
<1>3. PICK tx \in ToSet(pool) : tx.from = a /\ tx.nonce = m
  BY <1>2 DEF NoGap
<1> QED
  BY <1>3 DEF Progress

\* A new nonce stays new.
LEMMA FreshKept ==
    ASSUME TypeInv, TypeInv', Progress, Undisturbed, NEW tx \in Transactions, Fresh(tx)
    PROVE  Fresh(tx)'
<1>1. tx.from \in Address /\ tx.nonce \in Nat
  BY NonceTypes
<1>2. NoGap(tx.from, tx.nonce)'
  BY <1>1, NoGapKept DEF Fresh
<1>3. tx.nonce > Used(tx.from)'
  BY DEF Undisturbed
<1>4. \A other \in ToSet(pool') : ~SameNonce(other, tx)
  BY DEF Undisturbed, Shrinks, Fresh
<1> QED
  BY <1>2, <1>3, <1>4 DEF Fresh

\* Who submits is not disturbed by another worker.
LEMMA ClientOthers ==
    ASSUME TypeInv, TypeInv', ClientInv, NEW w \in Worker, Frame(w), Progress,
           NEW u \in Worker, u # w, txMu = u => Undisturbed
    PROVE  ClientAt(u)'
<1>1. ClientAt(u) /\ Tidy(pool) /\ pool \in Seq(Transactions)
  BY DEF ClientInv, TypeInv
<1>2. at'[u] = at[u] /\ arg'[u] = arg[u] /\ kept'[u] = kept[u] /\ (txMu = u => txMu' = u)
  BY DEF Frame
<1>3. at[u] \in {"admit", "add"} => txMu = u /\ Fresh(arg[u]) /\ arg[u] \in Transactions
  BY <1>1 DEF ClientAt, TypeInv, Placed
<1>4. at'[u] \in {"admit", "add"} => txMu' = u /\ Fresh(arg[u])'
  <2> HAVE at'[u] \in {"admit", "add"}
  <2>1. txMu = u /\ Undisturbed /\ Fresh(arg[u]) /\ arg[u] \in Transactions
    BY <1>2, <1>3
  <2> DEFINE tx == arg[u]
  <2> HIDE DEF tx
  <2>2. tx \in Transactions /\ Fresh(tx)
    BY <2>1 DEF tx
  <2>3. \A x \in Transactions : Fresh(x) => Fresh(x)'
    BY <2>1, FreshKept
  <2>4. arg'[u] \in Transactions /\ Fresh(arg[u])'
    <3>1. \A x : x = arg[u] => x = arg'[u]
      BY <1>2
    <3>2. \A x \in Transactions : x = arg'[u] => (Fresh(arg[u])' <=> Fresh(x)')
      OBVIOUS
    <3> QED
      BY <2>1, <2>3, <1>2, <3>2
  <2> QED
    BY <1>2, <2>1, <2>4
<1>5. at'[u] = "add" => Admits(pool', arg'[u])
  <2> HAVE at'[u] = "add"
  <2>1. Admits(pool, arg[u]) /\ Shrinks
    BY <1>1, <1>2, <1>3 DEF ClientAt, Undisturbed
  <2>2. Admits(pool', arg[u])
    BY <1>1, <2>1, AdmitsPart DEF Shrinks
  <2> QED
    BY <1>2, <2>2
<1>6. at'[u] = "mine" => ToSet(kept'[u]) \subseteq Known'
  BY <1>1, <1>2 DEF ClientAt, Progress
<1>7. at'[u] \in {"submit", "commit", "commit add"} => ToSet(Last(arg'[u]).txs) \subseteq Known'
  BY <1>1, <1>2 DEF ClientAt, Progress
<1>8. at'[u] \in Removes => ToSet(Last(arg'[u]).txs) \subseteq Confirmed(chain')
  BY <1>1, <1>2 DEF ClientAt, Progress
<1>9. at'[u] \in ClientPlaces
  BY <1>1, <1>2 DEF ClientAt
<1> QED
  BY <1>4, <1>5, <1>6, <1>7, <1>8, <1>9 DEF ClientAt, ClientPlaces, Removes
---------------------------------------------------------------------------
\* The parts of a step put together.
LEMMA ClientJoin ==
    ASSUME TypeInv, TypeInv', ClientInv, NEW w \in Worker, Frame(w), Progress,
           \A u \in Worker \ {w} : txMu = u => Undisturbed,
           Tidy(pool'), Removed', \A tx \in ToSet(pool') : Pending(tx)',
           template' = template, ClientAt(w)'
    PROVE  ClientInv'
<1>1. \A u \in Worker \ {w} : ClientAt(u)'
  BY ClientOthers
<1>2. template' # None => ToSet(Last(template').txs) \subseteq Known'
  BY DEF ClientInv, Progress
<1> QED
  BY <1>1, <1>2 DEF ClientInv, Tidy

\* Nothing moves when the two files stay.
LEMMA ProgressSame ==
    ASSUME TypeInv, Tidy(pool), chain' = chain, pool' = pool
    PROVE  Progress /\ Undisturbed
<1>1. \A a : Used(a)' = Used(a)
  BY DEF Used
<1>2. Known' = Known
  BY DEF Known
<1>3. \A a \in Address : Used(a) <= Used(a)'
  BY <1>1, NonceTypes
<1>4. \A tx \in Transactions : Fresh(tx) => tx.nonce > Used(tx.from)'
  BY <1>1 DEF Fresh
<1> QED
  BY <1>1, <1>2, <1>3, <1>4, ShrinksSame DEF Progress, Undisturbed

\* What is pending stays so.
LEMMA PendingKept ==
    ASSUME TypeInv, TypeInv', Progress, NEW tx \in Transactions, Pending(tx),
           tx.nonce <= Used(tx.from)' => tx.nonce <= Used(tx.from) \/ tx \in Confirmed(chain')
    PROVE  Pending(tx)'
<1>1. tx.from \in Address /\ tx.nonce \in Nat
  BY NonceTypes
<1>2. NoGap(tx.from, tx.nonce)'
  BY <1>1, NoGapKept DEF Pending
<1>3. tx.nonce <= Used(tx.from)' => tx \in Confirmed(chain')
  BY DEF Pending, Progress
<1> QED
  BY <1>2, <1>3 DEF Pending

\* A step that leaves the two files alone, and the template or its transactions.
LEMMA ClientQuiet ==
    ASSUME TypeInv, TypeInv', ClientInv, NEW w \in Worker, Frame(w), chain' = chain, pool' = pool,
           template' # template => ToSet(Last(template').txs) \subseteq Known,
           at[w] \notin Removes, ClientAt(w)'
    PROVE  ClientInv'
<1>1. Tidy(pool) /\ Removed /\ pool \in Seq(Transactions)
  BY DEF ClientInv, TypeInv
<1>2. Progress /\ Undisturbed
  BY <1>1, ProgressSame
<1>3. Removed'
  BY <1>1, RemovedSame
<1>4. \A u \in Worker \ {w} : ClientAt(u)'
  BY <1>2, ClientOthers
<1>5. \A tx \in ToSet(pool') : Pending(tx)'
  <2> SUFFICES ASSUME NEW tx \in ToSet(pool)
               PROVE  Pending(tx)'
    OBVIOUS
  <2>1. tx \in Transactions /\ Pending(tx)
    BY <1>1, ElementsOfSeq DEF ClientInv
  <2>2. Used(tx.from)' = Used(tx.from)
    BY DEF Used
  <2> QED
    BY <1>2, <2>1, <2>2, PendingKept
<1>6. template' # None => ToSet(Last(template').txs) \subseteq Known'
  <2>1. Known' = Known
    BY DEF Known
  <2> QED
    BY <2>1 DEF ClientInv
<1> QED
  BY <1>1, <1>3, <1>4, <1>5, <1>6 DEF ClientInv, Tidy

\* A worker that is at a place with nothing to keep.
LEMMA ClientEasy ==
    ASSUME NEW w \in Worker, at'[w] \in {"idle", "create", "refresh"}
    PROVE  ClientAt(w)'
  BY DEF ClientAt, ClientPlaces, Removes

\* A handler that returns.
LEMMA ClientReturn ==
    ASSUME TypeInv, TypeInv', ClientInv, NEW w \in Worker, Return(w), chain' = chain, pool' = pool,
           template' = template, at[w] \notin Removes
    PROVE  ClientInv'
<1>1. Frame(w) /\ at'[w] = "idle"
  BY ReturnFrame
<1>2. ClientAt(w)'
  BY <1>1, ClientEasy
<1> QED
  BY <1>1, <1>2, ClientQuiet

\* A transaction of a block that is executed has a nonce that was not used.
LEMMA NextBlock ==
    ASSUME TypeInv, NEW block \in Block(Seq(Transactions)), chain' = Append(chain, block), ValidChain(chain')
    PROVE  /\ Confirmed(chain') = Confirmed(chain) \cup ToSet(block.txs)
           /\ \A a \in Address : Used(a) <= Used(a)'
           /\ \A tx \in ToSet(block.txs) : tx.nonce > Used(tx.from)
           /\ \A a \in Address, n \in Nat : n > Used(a) /\ n <= Used(a)'
                 => \E tx \in ToSet(block.txs) : tx.from = a /\ tx.nonce = n
           /\ \A tx \in Confirmed(chain) : tx.nonce <= Used(tx.from)
<1>1. block \in Block(Seq(Transaction)) /\ chain \in Chain /\ ValidChain(chain)
  BY ChainsFacts, FilesFacts
<1>2. Numbered(LedgerOf(chain), LedgerOf(chain'), ToSet(block.txs))
  BY <1>1, BlockOnChain
<1>3. Confirmed(chain') = Confirmed(chain) \cup ToSet(block.txs)
  BY FilesFacts, ConfirmedAppend DEF Chains
<1>4. \A tx \in Confirmed(chain) : tx.nonce <= Used(tx.from)
  BY <1>1, ConfirmedNonces DEF Used
<1> QED
  BY <1>2, <1>3, <1>4 DEF Numbered, Used

\* A nonce that a known block uses is that of its transaction and of no other.
LEMMA NewlyUsed ==
    ASSUME TypeInv, ClientInv, NEW block \in Block(Seq(Transactions)), chain' = Append(chain, block),
           ValidChain(chain'), ToSet(block.txs) \subseteq Known,
           NEW tx \in Transactions, tx.nonce > Used(tx.from), tx.nonce <= Used(tx.from)'
    PROVE  \E b \in ToSet(block.txs) : b \in ToSet(pool) /\ SameNonce(b, tx)
<1>1. tx.from \in Address /\ tx.nonce \in Nat
  BY NonceTypes
<1>2. PICK b \in ToSet(block.txs) : b.from = tx.from /\ b.nonce = tx.nonce
  BY <1>1, NextBlock
<1>3. b \notin Confirmed(chain)
  <2>1. Used(tx.from) \in Nat
    BY <1>1, NonceTypes
  <2>2. b \in Confirmed(chain) => b.nonce <= Used(b.from)
    BY NextBlock
  <2> QED
    BY <1>1, <1>2, <2>1, <2>2
<1>4. b \in ToSet(pool)
  BY <1>2, <1>3 DEF Known
<1> QED
  BY <1>2, <1>4 DEF SameNonce

LEMMA NotBelow == ASSUME NEW m \in Nat, NEW n \in Nat, ~(m <= n) PROVE m > n
  OBVIOUS

\* A block that a handler adds to the chain.
LEMMA ClientGrows ==
    ASSUME TypeInv, TypeInv', ClientInv, NEW w \in Worker, Frame(w), at[w] \notin Removes,
           arg[w] \in Chains, arg[w] # <<>>, Extends(arg[w]), chain' = arg[w], pool' = pool,
           template' = template, ToSet(Last(arg[w]).txs) \subseteq Known,
           NEW p \in {"remove", "commit remove"}, Goto(w, p, arg[w])
    PROVE  ClientInv'
<1> DEFINE block == Last(arg[w])
<1>1. arg[w] = Append(chain, block) /\ block \in Block(Seq(Transactions)) /\ ValidChain(chain')
  BY ExtendsFacts
<1>2. at'[w] = p /\ arg'[w] = arg[w]
  BY GotoAt
<1>3. Removed /\ Tidy(pool) /\ pool \in Seq(Transactions)
  BY DEF ClientInv, TypeInv
<1>4. Last(arg'[w]) = block
  BY <1>2
<1>5. ToSet(block.txs) \subseteq Known /\ chain' = Append(chain, block)
  BY <1>1
<1> HIDE DEF block
<1>6. /\ Confirmed(chain') = Confirmed(chain) \cup ToSet(block.txs)
      /\ \A a \in Address : Used(a) <= Used(a)'
  BY <1>1, <1>5, NextBlock
<1>7. Removed'
  BY <1>1, <1>2, <1>3, <1>4, RemovedAdd DEF Removes
<1>8. Progress
  <2>1. Known \subseteq Known'
    BY <1>6 DEF Known
  <2> QED
    BY <1>6, <2>1 DEF Progress
<1>9. ASSUME NEW tx \in Transactions, tx.nonce > Used(tx.from), tx.nonce <= Used(tx.from)'
      PROVE  \E b \in ToSet(block.txs) : b \in ToSet(pool) /\ SameNonce(b, tx)
  BY <1>1, <1>5, <1>9, NewlyUsed
<1>10. Undisturbed
  <2>1. ASSUME NEW tx \in Transactions, Fresh(tx)
        PROVE  tx.nonce > Used(tx.from)'
    <3>1. tx.nonce > Used(tx.from) /\ \A other \in ToSet(pool) : ~SameNonce(other, tx)
      BY <2>1 DEF Fresh
    <3>2. ~(tx.nonce <= Used(tx.from)')
      BY <1>9, <3>1
    <3>3. tx.nonce \in Nat /\ Used(tx.from)' \in Nat
      <4>1. UsedNat'
        BY UsedType, PTL
      <4> QED
        BY <4>1, NonceTypes DEF UsedNat
    <3> QED
      BY <3>2, <3>3, NotBelow, Zenon
  <2> QED
    BY <1>3, <2>1, ShrinksSame DEF Undisturbed
<1>11. \A tx \in ToSet(pool') : Pending(tx)'
  <2> SUFFICES ASSUME NEW tx \in ToSet(pool)
               PROVE  Pending(tx)'
    OBVIOUS
  <2>1. tx \in Transactions /\ Pending(tx)
    BY <1>3, ElementsOfSeq DEF ClientInv
  <2>2. ASSUME tx.nonce <= Used(tx.from)', ~(tx.nonce <= Used(tx.from))
        PROVE  tx \in Confirmed(chain')
    <3>1. tx.nonce > Used(tx.from)
      <4>1. tx.nonce \in Nat /\ Used(tx.from) \in Nat
        BY <2>1, NonceTypes
      <4> QED
        BY <2>2, <4>1, NotBelow, Zenon
    <3>2. PICK b \in ToSet(block.txs) : b \in ToSet(pool) /\ SameNonce(b, tx)
      BY <1>9, <2>1, <2>2, <3>1
    <3>3. b = tx
      BY <1>3, <3>2 DEF Tidy, ToSet
    <3> QED
      BY <1>6, <3>2, <3>3
  <2> QED
    BY <1>8, <2>1, <2>2, PendingKept
<1>12. ClientAt(w)'
  <2>1. ToSet(Last(arg'[w]).txs) \subseteq Confirmed(chain')
    BY <1>4, <1>6
  <2> QED
    BY <1>2, <2>1 DEF ClientAt, ClientPlaces, Removes
<1> QED
  BY <1>3, <1>7, <1>8, <1>10, <1>11, <1>12, ClientJoin
---------------------------------------------------------------------------
\* The transactions of a block that a handler takes out of the pool.
LEMMA ClientCleans ==
    ASSUME TypeInv, TypeInv', ClientInv, NEW w \in Worker, Frame(w), at[w] \in Removes, chain' = chain,
           pool' = RemoveIDs(pool, ToSet(Last(arg[w]).txs)), template' = template, at'[w] = "refresh"
    PROVE  ClientInv'
<1> DEFINE gone == ToSet(Last(arg[w]).txs)
<1>1. Removed /\ Tidy(pool) /\ pool \in Seq(Transactions) /\ ClientAt(w)
  BY DEF ClientInv, TypeInv
<1>2. gone \subseteq Confirmed(chain)
  BY <1>1 DEF ClientAt
<1>3. ToSet(pool') = ToSet(pool) \ gone
  BY <1>1, RemoveIDsFacts
<1>4. Removed' /\ Shrinks /\ Tidy(pool')
  BY <1>1, RemovedClean, ShrinksRemoved
<1> HIDE DEF gone
<1>5. \A a : Used(a)' = Used(a)
  BY DEF Used
<1>6. \A tx \in Confirmed(chain) : tx.nonce <= Used(tx.from)
  <2>1. chain \in Chain /\ ValidChain(chain)
    BY FilesFacts
  <2> QED
    BY <2>1, ConfirmedNonces DEF Used
<1>7. Progress
  <2>1. \A a \in Address : Used(a) <= Used(a)'
    BY <1>5, NonceTypes
  <2>2. ASSUME NEW tx \in ToSet(pool), tx.nonce > Used(tx.from)'
        PROVE  tx \in ToSet(pool')
    <3>1. tx.nonce > Used(tx.from) /\ tx \in Transactions
      BY <1>1, <1>5, <2>2, ElementsOfSeq
    <3>2. tx.nonce \in Nat /\ Used(tx.from) \in Nat
      BY <3>1, NonceTypes
    <3>3. tx \notin Confirmed(chain)
      BY <1>6, <3>1, <3>2
    <3> QED
      BY <1>2, <1>3, <3>3
  <2>3. Known' = Known
    BY <1>2, <1>3 DEF Known
  <2> QED
    BY <2>1, <2>2, <2>3 DEF Progress
<1>8. Undisturbed
  BY <1>4, <1>5 DEF Undisturbed, Fresh
<1>9. \A tx \in ToSet(pool') : Pending(tx)'
  <2> SUFFICES ASSUME NEW tx \in ToSet(pool')
               PROVE  Pending(tx)'
    OBVIOUS
  <2>1. tx \in Transactions /\ Pending(tx)
    BY <1>1, <1>3, ElementsOfSeq DEF ClientInv
  <2> QED
    BY <1>5, <1>7, <2>1, PendingKept
<1>10. ClientAt(w)'
  BY ClientEasy
<1> QED
  BY <1>4, <1>7, <1>8, <1>9, <1>10, ClientJoin

\* A transaction that is added to the pool.
LEMMA ClientAdds ==
    ASSUME TypeInv, TypeInv', ClientInv, NEW w \in Worker, Frame(w), at[w] = "add", chain' = chain,
           NEW tx, tx = arg[w], pool' = Add(pool, tx), template' = template, at'[w] = "refresh"
    PROVE  ClientInv'
<1>1. Removed /\ Tidy(pool) /\ pool \in Seq(Transactions) /\ ClientAt(w)
  BY DEF ClientInv, TypeInv
<1>2. tx \in Transactions /\ txMu = w /\ Fresh(tx) /\ Admits(pool, tx)
  BY <1>1 DEF ClientAt, TypeInv, Placed
<1>4. Tidy(pool') /\ ToSet(pool') = ToSet(pool) \cup {tx}
  BY <1>1, <1>2, TidyAdd
<1>5. \A a : Used(a)' = Used(a)
  BY DEF Used
<1>6. Progress
  <2>1. \A a \in Address : Used(a) <= Used(a)'
    BY <1>5, NonceTypes
  <2>2. Known \subseteq Known'
    BY <1>4 DEF Known
  <2> QED
    BY <1>4, <2>1, <2>2 DEF Progress
<1>7. tx.nonce > Used(tx.from) /\ tx.from \in Address /\ tx.nonce \in Nat
  BY <1>2, NonceTypes DEF Fresh
<1>8. Removed'
  <2>1. tx \notin Confirmed(chain)
    <3>1. chain \in Chain /\ ValidChain(chain)
      BY FilesFacts
    <3>2. tx \in Confirmed(chain) => tx.nonce <= Used(tx.from)
      BY <3>1, ConfirmedNonces DEF Used
    <3>3. Used(tx.from) \in Nat
      BY <1>7, NonceTypes
    <3> QED
      BY <1>7, <3>2, <3>3
  <2>2. at[w] \notin Removes
    BY DEF Removes
  <2>3. \A other \in ToSet(pool') : other \in ToSet(pool) \/ other \notin Confirmed(chain)
    BY <1>4, <2>1
  <2> QED
    BY <1>1, <2>2, <2>3, RemovedSame
<1>9. ASSUME NEW other \in ToSet(pool')
      PROVE  Pending(other)'
  <2>1. CASE other = tx
    <3>1. NoGap(tx.from, tx.nonce)'
      BY <1>2, <1>6, <1>7, NoGapKept DEF Fresh
    <3>2. ~(tx.nonce <= Used(tx.from)')
      <4>1. Used(tx.from) \in Nat
        BY <1>7, NonceTypes
      <4> QED
        BY <1>5, <1>7, <4>1
    <3>3. Pending(tx)'
      BY <3>1, <3>2 DEF Pending
    <3> QED
      BY <2>1, <3>3
  <2>2. CASE other \in ToSet(pool)
    <3>1. other \in Transactions /\ Pending(other)
      BY <1>1, <2>2, ElementsOfSeq DEF ClientInv
    <3> QED
      BY <1>5, <1>6, <3>1, PendingKept
  <2> QED
    BY <1>4, <2>1, <2>2
<1>10. ClientAt(w)'
  BY ClientEasy
<1>11. \A u \in Worker \ {w} : txMu # u
  BY <1>2
<1> QED
  BY <1>4, <1>6, <1>8, <1>9, <1>10, <1>11, ClientJoin

\* While the database is free nobody is about to remove what is confirmed, so
\* nothing pending is confirmed.
LEMMA NothingConfirmed ==
    ASSUME TypeInv, ClientInv, db = None
    PROVE  \A tx \in ToSet(pool) : tx \notin Confirmed(chain) /\ tx.nonce > Used(tx.from)
<1> SUFFICES ASSUME NEW tx \in ToSet(pool)
             PROVE  tx \notin Confirmed(chain) /\ tx.nonce > Used(tx.from)
  OBVIOUS
<1>1. tx \in Transactions /\ Pending(tx) /\ Removed
  BY FilesFacts, ElementsOfSeq DEF ClientInv
<1>2. tx \notin Confirmed(chain)
  <2> SUFFICES ASSUME tx \in Confirmed(chain)
               PROVE  FALSE
    OBVIOUS
  <2>1. PICK u \in Worker : at[u] \in Removes
    BY <1>1 DEF Removed
  <2>2. at[u] \in ClientPlaces /\ Placed(u)
    BY DEF ClientInv, ClientAt, TypeInv
  <2>3. at[u] \in {"remove", "commit remove"}
    BY <2>1, <2>2 DEF Removes, ClientPlaces
  <2>4. db = u
    BY <2>2, <2>3 DEF Placed
  <2> QED
    BY <2>4, NodeAssumption
<1>3. ~(tx.nonce <= Used(tx.from))
  BY <1>1, <1>2 DEF Pending
<1>4. tx.nonce \in Nat /\ Used(tx.from) \in Nat
  BY <1>1, NonceTypes
<1> QED
  BY <1>2, <1>3, <1>4, NotBelow, Zenon

\* The nonce that createPendingTransaction gives is the next one: it counts the
\* pending transactions of the sender while the database is free.
LEMMA CreatedIsFresh ==
    ASSUME TypeInv, ClientInv, db = None, NEW tx \in Transactions,
           tx.nonce = Used(tx.from) + PendingFromCount(tx.from) + 1
    PROVE  Fresh(tx)
<1> DEFINE a == tx.from
           used == Used(a)
           n == PendingFromCount(a)
<1>1. a \in Address /\ used \in Nat /\ tx.nonce = used + n + 1 /\ Tidy(pool) /\ pool \in Seq(Transactions)
  BY NonceTypes DEF ClientInv, TypeInv
<1>2. \A i \in DOMAIN pool : pool[i] \in ToSet(pool) /\ pool[i] \in Transactions
  BY <1>1 DEF ToSet
<1>3. \A i \in DOMAIN pool : pool[i].from = a => pool[i].nonce > used
  BY <1>2, NothingConfirmed
<1>4. ASSUME NEW i \in DOMAIN pool, NEW m \in Nat, pool[i].from = a, m > used, m < pool[i].nonce
      PROVE  \E j \in DOMAIN pool : pool[j].from = a /\ pool[j].nonce = m
  <2>1. NoGap(a, pool[i].nonce)
    BY <1>2, <1>4 DEF ClientInv, Pending
  <2>2. \E other \in ToSet(pool) : other.from = a /\ other.nonce = m
    BY <1>4, <2>1 DEF NoGap
  <2> QED
    BY <2>2 DEF ToSet
<1>5. n = CountFrom(pool, a)
  BY DEF PendingFromCount, CountFrom
<1>6. Used(tx.from) = used /\ tx.from = a
  OBVIOUS
<1> HIDE DEF a, used, n
<1>7. /\ n \in Nat
      /\ \A i \in DOMAIN pool : pool[i].from = a => pool[i].nonce <= used + n
      /\ \A m \in Nat : m > used /\ m <= used + n => \E j \in DOMAIN pool : pool[j].from = a /\ pool[j].nonce = m
  BY <1>1, <1>3, <1>4, <1>5, PendingNonces
<1>8. tx.nonce > used
  BY <1>1, <1>7
<1>9. ASSUME NEW other \in ToSet(pool)
      PROVE  ~SameNonce(other, tx)
  <2>1. PICK i \in DOMAIN pool : pool[i] = other
    BY DEF ToSet
  <2>2. other.from = a => other.nonce <= used + n
    BY <1>7, <2>1
  <2>3. ~(tx.nonce <= used + n)
    BY <1>1, <1>7
  <2> QED
    BY <1>6, <2>2, <2>3 DEF SameNonce
<1>10. NoGap(a, tx.nonce)
  <2> SUFFICES ASSUME NEW m \in Nat, m > used, m < tx.nonce
               PROVE  \E other \in ToSet(pool) : other.from = a /\ other.nonce = m
    BY <1>6 DEF NoGap
  <2>1. m <= used + n
    BY <1>1, <1>7
  <2>2. PICK j \in DOMAIN pool : pool[j].from = a /\ pool[j].nonce = m
    BY <1>7, <2>1
  <2> QED
    BY <1>2, <2>2
<1> QED
  BY <1>6, <1>8, <1>9, <1>10 DEF Fresh
---------------------------------------------------------------------------
\* The submissions of clients.
LEMMA ClientSubmission ==
    ASSUME TypeInv, TypeInv', ClientInv, FromClientsOnly, NEW w \in Worker, Submission(w)
    PROVE  ClientInv'
<1>1. Frame(w) /\ ClientAt(w) /\ Placed(w)
  BY SubmissionTypes DEF StepTypes, ClientInv, TypeInv
<1>2. at[w] \in ClientPlaces
  BY <1>1 DEF ClientAt
<1>31. ~StakeBlocks(w) /\ ~CreateStake(w)
  BY <1>2 DEF StakeBlocks, CreateStake, ClientPlaces
<1>32. \A request \in Requests : ~StakeBegin(w, request)
  BY DEF StakeBegin, FromClientsOnly
<1>3. ASSUME NEW request \in Requests, SendBegin(w, request)
      PROVE  ClientInv'
  <2>1. /\ at[w] = "idle" /\ Goto(w, "create", request) /\ chain' = chain /\ pool' = pool
        /\ template' = template
    BY <1>3 DEF SendBegin
  <2>2. at'[w] = "create" /\ at[w] \notin Removes
    BY <2>1, GotoAt DEF Removes
  <2>3. ClientAt(w)'
    BY <2>2, ClientEasy
  <2> QED
    BY <1>1, <2>1, <2>2, <2>3, ClientQuiet
<1>4. CASE CreatePending(w)
  <2> DEFINE tx == [arg[w] EXCEPT !.nonce = LedgerOf(chain).nonce[arg[w].from] + PendingFromCount(arg[w].from) + 1]
  <2>1. at[w] = "create" /\ db = None /\ chain' = chain /\ pool' = pool /\ template' = template
    BY <1>4 DEF CreatePending
  <2>2. \/ tx \in Transactions /\ Goto(w, "admit", tx) /\ txMu' = txMu
        \/ Return(w)
    BY <1>4 DEF CreatePending, Create, locks
  <2>3. arg[w] \in Transaction /\ txMu = w /\ at[w] \notin Removes
    BY <1>1, <2>1 DEF Placed, Removes
  <2>4. tx.from = arg[w].from /\ tx.nonce = Used(arg[w].from) + PendingFromCount(arg[w].from) + 1
    <3>1. arg[w] = [kind |-> arg[w].kind, from |-> arg[w].from, to |-> arg[w].to, amount |-> arg[w].amount,
                    fee |-> arg[w].fee, payer |-> arg[w].payer, nonce |-> arg[w].nonce, ref |-> arg[w].ref,
                    mintable |-> arg[w].mintable, burnable |-> arg[w].burnable]
      BY <2>3 DEF Transaction
    <3> QED
      BY <3>1 DEF Used
  <2> HIDE DEF tx
  <2>5. ASSUME tx \in Transactions, Goto(w, "admit", tx), txMu' = txMu
        PROVE  ClientInv'
    <3>1. at'[w] = "admit" /\ arg'[w] = tx
      BY <2>5, GotoAt
    <3>2. Fresh(tx)
      BY <2>1, <2>4, <2>5, CreatedIsFresh
    <3>3. ASSUME NEW x, x = arg'[w]
          PROVE  Fresh(x)'
      <4>1. Fresh(x)
        BY <3>1, <3>2, <3>3
      <4> QED
        BY <2>1, <4>1 DEF Fresh, NoGap, Used
    <3>4. ClientAt(w)'
      BY <2>3, <2>5, <3>1, <3>3 DEF ClientAt, ClientPlaces, Removes
    <3> QED
      BY <1>1, <2>1, <2>3, <3>4, ClientQuiet
  <2> QED
    BY <2>1, <2>2, <2>3, <2>5, ClientReturn
<1>5. CASE AdmitLoad(w)
  <2>1. at[w] = "admit" /\ chain' = chain /\ pool' = pool /\ template' = template
    BY <1>5 DEF AdmitLoad
  <2>2. at[w] \notin Removes
    BY <2>1 DEF Removes
  <2>3. CASE Admits(pool, arg[w])
    <3>1. Goto(w, "add", arg[w]) /\ txMu' = txMu
      BY <1>5, <2>3 DEF AdmitLoad, locks
    <3>2. at'[w] = "add" /\ arg'[w] = arg[w]
      BY <3>1, GotoAt
    <3>3. txMu = w /\ Fresh(arg[w])
      BY <1>1, <2>1 DEF ClientAt
    <3>4. Fresh(arg'[w])
      BY <3>2, <3>3
    <3>5. ClientAt(w)'
      BY <2>1, <2>3, <3>1, <3>2, <3>3 DEF ClientAt, ClientPlaces, Removes, Fresh, NoGap, Used
    <3> QED
      BY <1>1, <2>1, <2>2, <3>5, ClientQuiet
  <2>4. CASE ~Admits(pool, arg[w])
    <3>1. Return(w)
      BY <1>5, <2>4 DEF AdmitLoad
    <3> QED
      BY <2>1, <2>2, <3>1, ClientReturn
  <2> QED
    BY <2>3, <2>4
<1>6. CASE AdmitAdd(w)
  <2>1. /\ at[w] = "add" /\ chain' = chain /\ pool' = Add(pool, arg[w]) /\ template' = template
        /\ Goto(w, "refresh", None)
    BY <1>6 DEF AdmitAdd
  <2>2. at'[w] = "refresh"
    BY <2>1, GotoAt
  <2> QED
    BY <1>1, <2>1, <2>2, ClientAdds
<1>7. CASE RefreshState(w)
  <2>1. at[w] = "refresh" /\ Return(w) /\ chain' = chain /\ pool' = pool /\ template' = template
    BY <1>7 DEF RefreshState
  <2>2. at[w] \notin Removes
    BY <2>1 DEF Removes
  <2> QED
    BY <2>1, <2>2, ClientReturn
<1>8. ~MempoolClear(w)
  BY DEF MempoolClear, FromClientsOnly
<1> QED
  BY <1>3, <1>31, <1>32, <1>4, <1>5, <1>6, <1>7, <1>8 DEF Submission

\* The block that a miner gets consists of known transactions.
LEMMA TemplateKnown ==
    ASSUME TypeInv, NEW txs \in Seq(Transactions), ToSet(txs) \subseteq Known
    PROVE  /\ ToSet(BlockTemplate(chain, txs, Miner).txs) \subseteq Known
           /\ BlockTemplate(chain, txs, Miner) \in Block(Seq(Transactions))
           /\ ToSet(MinedBlock(chain, txs, Miner).txs) \subseteq Known
           /\ MinedBlock(chain, txs, Miner) \in Block(Seq(Transactions))
<1>1. Len(txs) \in Nat /\ MaxTxCount \in Nat
  BY TransactionsFacts
<1>2. ToSet(Fill(chain, txs, Len(txs))) \subseteq ToSet(txs)
  BY <1>1, FilesFacts, FillFacts
<1> DEFINE s == SelectWithNonces(txs, NextNonce(LedgerOf(chain)))
<1>3. s \in Seq(Transactions) /\ ToSet(s) \subseteq ToSet(txs)
  BY SelectType
<1>4. MinedBlock(chain, txs, Miner) = [to |-> Miner, miner |-> Miner, txs |-> Fill(chain, s, MaxTxCount)]
  BY DEF MinedBlock
<1> HIDE DEF s
<1>5. ToSet(Fill(chain, s, MaxTxCount)) \subseteq ToSet(s)
  BY <1>1, <1>3, FilesFacts, FillFacts
<1>6. BlockTemplate(chain, txs, Miner) \in Block(Seq(Transactions))
  BY <1>1, TemplateType DEF BlockTemplate
<1>7. MinedBlock(chain, txs, Miner) \in Block(Seq(Transactions))
  BY <1>1, <1>3, <1>4, TemplateType
<1>8. ToSet(BlockTemplate(chain, txs, Miner).txs) \subseteq Known
  BY <1>2 DEF BlockTemplate
<1>9. ToSet(MinedBlock(chain, txs, Miner).txs) \subseteq Known
  BY <1>3, <1>4, <1>5
<1> QED
  BY <1>6, <1>7, <1>8, <1>9

\* Templates, and the blocks of the mine handler.
LEMMA ClientMining ==
    ASSUME TypeInv, TypeInv', ClientInv, FromClientsOnly, NEW w \in Worker, Mining(w)
    PROVE  ClientInv'
<1>1. Frame(w) /\ ClientAt(w) /\ Placed(w) /\ pool \in Seq(Transactions) /\ kept[w] \in Seq(Transactions)
  BY MiningTypes DEF StepTypes, ClientInv, TypeInv
<1>2. ToSet(pool) \subseteq Known
  BY DEF Known
<1>3. CASE MinerTemplate(w)
  <2> DEFINE block == BlockTemplate(chain, pool, Miner)
  <2>1. at[w] = "idle" /\ at' = at /\ chain' = chain /\ pool' = pool /\ template' = Append(chain, block)
    BY <1>3 DEF MinerTemplate
  <2>2. at[w] \notin Removes /\ at'[w] = "idle"
    BY <2>1 DEF Removes
  <2>3. ToSet(block.txs) \subseteq Known /\ block \in Block(Seq(Transactions))
    BY <1>1, <1>2, TemplateKnown
  <2> HIDE DEF block
  <2>4. ToSet(Last(template').txs) \subseteq Known
    BY <2>1, <2>3, NextChain
  <2>5. ClientAt(w)'
    BY <2>2, ClientEasy
  <2> QED
    BY <1>1, <2>1, <2>2, <2>4, <2>5, ClientQuiet
<1>4. CASE MinerSubmit(w)
  <2>1. /\ template # None /\ at[w] = "idle" /\ Goto(w, "submit", template)
        /\ chain' = chain /\ pool' = pool /\ template' = template
    BY <1>4 DEF MinerSubmit
  <2>2. at'[w] = "submit" /\ arg'[w] = template /\ at[w] \notin Removes
    BY <2>1, GotoAt DEF Removes
  <2>3. ToSet(Last(template).txs) \subseteq Known /\ Known' = Known
    BY <2>1 DEF ClientInv, Known
  <2>4. ClientAt(w)'
    BY <2>2, <2>3 DEF ClientAt, ClientPlaces, Removes
  <2> QED
    BY <1>1, <2>1, <2>2, <2>4, ClientQuiet
<1>5. CASE MineLoad(w)
  <2>1. /\ at[w] = "idle" /\ kept' = [kept EXCEPT ![w] = pool] /\ Goto(w, "mine", None)
        /\ chain' = chain /\ pool' = pool /\ template' = template
    BY <1>5 DEF MineLoad
  <2>2. at'[w] = "mine" /\ at[w] \notin Removes
    BY <2>1, GotoAt DEF Removes
  <2>3. kept'[w] = pool /\ Known' = Known
    BY <2>1 DEF TypeInv, Known
  <2>4. ClientAt(w)'
    BY <1>2, <2>2, <2>3 DEF ClientAt, ClientPlaces, Removes
  <2> QED
    BY <1>1, <2>1, <2>2, <2>4, ClientQuiet
<1>6. CASE MineCandidate(w)
  <2> DEFINE block == MinedBlock(chain, kept[w], Miner)
  <2>1. /\ at[w] = "mine" /\ Goto(w, "commit", Append(chain, block))
        /\ chain' = chain /\ pool' = pool /\ template' = template
    BY <1>6 DEF MineCandidate
  <2>2. ToSet(block.txs) \subseteq Known /\ block \in Block(Seq(Transactions))
    <3>1. ToSet(kept[w]) \subseteq Known
      BY <1>1, <2>1 DEF ClientAt
    <3> QED
      BY <1>1, <3>1, TemplateKnown
  <2> HIDE DEF block
  <2>3. at'[w] = "commit" /\ arg'[w] = Append(chain, block) /\ at[w] \notin Removes
    BY <2>1, GotoAt DEF Removes
  <2>4. ToSet(Last(arg'[w]).txs) \subseteq Known /\ Known' = Known
    BY <2>1, <2>2, <2>3, NextChain DEF Known
  <2>5. ClientAt(w)'
    BY <2>3, <2>4 DEF ClientAt, ClientPlaces, Removes
  <2> QED
    BY <1>1, <2>1, <2>3, <2>5, ClientQuiet
<1>7. CASE CommitLock(w)
  <2>1. /\ at[w] = "commit" /\ Goto(w, "commit add", arg[w])
        /\ chain' = chain /\ pool' = pool /\ template' = template
    BY <1>7 DEF CommitLock
  <2>2. at'[w] = "commit add" /\ arg'[w] = arg[w] /\ at[w] \notin Removes
    BY <2>1, GotoAt DEF Removes
  <2>3. ToSet(Last(arg'[w]).txs) \subseteq Known /\ Known' = Known
    BY <1>1, <2>1, <2>2 DEF ClientAt, Known
  <2>4. ClientAt(w)'
    BY <2>2, <2>3 DEF ClientAt, ClientPlaces, Removes
  <2> QED
    BY <1>1, <2>1, <2>2, <2>4, ClientQuiet
<1>8. CASE SubmitAdd(w)
  <2>1. at[w] \in {"submit", "commit add"} /\ pool' = pool /\ template' = template
    BY <1>8 DEF SubmitAdd
  <2>2. /\ arg[w] \in Chains /\ arg[w] # <<>> /\ at[w] \notin Removes
        /\ ToSet(Last(arg[w]).txs) \subseteq Known
    BY <1>1, <2>1 DEF Placed, Removes, ClientAt
  <2>3. CASE Extends(arg[w])
    <3>1. chain' = arg[w] /\ Goto(w, Removing(w), arg[w])
      BY <1>8, <2>3 DEF SubmitAdd
    <3>2. Removing(w) \in {"remove", "commit remove"}
      BY DEF Removing
    <3> QED
      BY <1>1, <2>1, <2>2, <2>3, <3>1, <3>2, ClientGrows
  <2>4. CASE ~Extends(arg[w])
    <3>1. Return(w) /\ chain' = chain
      BY <1>8, <2>4 DEF SubmitAdd
    <3> QED
      BY <2>1, <2>2, <3>1, ClientReturn
  <2> QED
    BY <2>3, <2>4
<1>9. CASE SubmitRemove(w)
  <2>1. /\ at[w] \in {"remove", "commit remove"} /\ pool' = RemoveIDs(pool, ToSet(Last(arg[w]).txs))
        /\ chain' = chain /\ template' = template /\ Goto(w, "refresh", None)
    BY <1>9 DEF SubmitRemove
  <2>2. at'[w] = "refresh" /\ at[w] \in Removes
    BY <2>1, GotoAt DEF Removes
  <2> QED
    BY <1>1, <2>1, <2>2, ClientCleans
<1> QED
  BY <1>3, <1>4, <1>5, <1>6, <1>7, <1>8, <1>9 DEF Mining
---------------------------------------------------------------------------
\* A node that gets transactions from its clients only gets none and no block
\* from its peers, and does not reorganise.
LEMMA ClientNext ==
    ASSUME TypeInv, TypeInv', ClientInv, FromClientsOnly, Next
    PROVE  ClientInv'
<1>1. ASSUME NEW w \in Worker
      PROVE  ~FromPeer(w) /\ ~Reorg(w)
  <2>1. at[w] \in ClientPlaces
    BY DEF ClientInv, ClientAt
  <2>2. \A tx : ~ReceiveTx(w, tx) /\ ~ReceiveBlock(w, tx)
    BY DEF ReceiveTx, ReceiveBlock, FromClientsOnly
  <2>3. ~RevalidateLoad(w) /\ ~RevalidateSave(w) /\ ~AcceptCheck(w) /\ ~ReceiveAdd(w) /\ ~ReceiveRemove(w)
    BY <2>1 DEF RevalidateLoad, RevalidateSave, AcceptCheck, ReceiveAdd, ReceiveRemove, ClientPlaces
  <2>4. \A height, branch : ~ReorgCommit(w, height, branch)
    BY DEF ReorgCommit, FromClientsOnly
  <2>5. ~RequeueOrphans(w) /\ ~ReorgSave(w)
    BY <2>1 DEF RequeueOrphans, ReorgSave, ClientPlaces
  <2> QED
    BY <2>2, <2>3, <2>4, <2>5 DEF FromPeer, Reorg
<1>2. ~Crash
  BY DEF Crash, FromClientsOnly
<1> QED
  BY <1>1, <1>2, ClientSubmission, ClientMining DEF Next

\* The mempool is empty at first.
LEMMA InitIInv == Init => IInv
<1> SUFFICES ASSUME Init PROVE IInv
  OBVIOUS
<1>1. TypeInv
  BY TypeInit
<1>2. pool = <<>> /\ ToSet(pool) = {} /\ template = None
  BY DEF Init, ToSet
<1>3. Tidy(pool) /\ Removed
  BY <1>2, TidyEmpty DEF Removed
<1>4. \A w \in Worker : at[w] = "idle"
  BY DEF Init
<1>5. PeerInv
  BY <1>3, <1>4 DEF PeerInv, PeerAt, PeerPlaces, Removes
<1>6. ClientInv
  BY <1>2, <1>3, <1>4 DEF ClientInv, ClientAt, ClientPlaces, Removes
<1> QED
  BY <1>1, <1>5, <1>6 DEF IInv

\* Nothing happens to it while nothing happens.
LEMMA StutterIInv == ASSUME IInv, UNCHANGED vars PROVE IInv'
<1>1. TypeInv'
  BY TypeStutter DEF IInv
<1>2. Removed => Removed'
  BY DEF Removed, vars
<1>3. PeerInv => PeerInv'
  BY <1>2 DEF PeerInv, PeerAt, vars
<1>4. Known' = Known /\ \A a : Used(a)' = Used(a)
  BY DEF Known, Used, vars
<1>5. \A a, n : NoGap(a, n) => NoGap(a, n)'
  BY <1>4 DEF NoGap, vars
<1>6. \A tx : (Fresh(tx) => Fresh(tx)') /\ (Pending(tx) => Pending(tx)')
  BY <1>4, <1>5 DEF Fresh, Pending, vars
<1>7. ASSUME NEW w \in Worker, ClientAt(w)
      PROVE  ClientAt(w)'
  <2>1. at' = at /\ arg' = arg /\ kept' = kept /\ txMu' = txMu /\ pool' = pool /\ chain' = chain
    BY DEF vars
  <2>2. Fresh(arg[w]) => Fresh(arg[w])'
    BY <1>4, <2>1 DEF Fresh, NoGap
  <2> QED
    BY <1>4, <1>7, <2>1, <2>2 DEF ClientAt, ClientPlaces, Removes
<1>8. ClientInv => ClientInv'
  <2> HAVE ClientInv
  <2>1. Tidy(pool') /\ Removed' /\ \A tx \in ToSet(pool') : Pending(tx)'
    BY <1>2, <1>6 DEF ClientInv, vars
  <2>2. template' # None => ToSet(Last(template').txs) \subseteq Known'
    BY <1>4 DEF ClientInv, vars
  <2> QED
    BY <1>7, <2>1, <2>2 DEF ClientInv, Tidy
<1> QED
  BY <1>1, <1>3, <1>8 DEF IInv, FromPeersOnly, FromClientsOnly, vars

\* Every step of every handler keeps it.
LEMMA NextIInv == IInv /\ [Next]_vars => IInv'
<1> SUFFICES ASSUME IInv, Next PROVE IInv'
  BY StutterIInv
<1>1. TypeInv /\ TypeInv'
  BY TypeNext DEF IInv
<1>2. ops' = ops
  BY DEF Next
<1>3. FromPeersOnly => PeerInv'
  BY <1>1, PeerNext DEF IInv
<1>4. FromClientsOnly => ClientInv'
  BY <1>1, ClientNext DEF IInv
<1> QED
  BY <1>1, <1>2, <1>3, <1>4 DEF IInv, FromPeersOnly, FromClientsOnly

\* The invariant of the mempool file and its handlers.
THEOREM MempoolInvariant == Spec => []IInv
  BY InitIInv, NextIInv, PTL DEF Spec

\* Who is about to remove a transaction cleans the pool of it.
LEMMA RemovedCleans == ASSUME Removed PROVE \A tx \in ToSet(pool) \cap Confirmed(chain) : Cleaning(tx)
  BY DEF Removed, Removes, Cleaning

\* Handlers hold the locks they need; what the chain confirms is pending only
\* until its block is cleaned up; no nonce of a sender is pending twice, and the
\* limits of the mempool hold, however the handlers of a node overlap that gets
\* its transactions from peers or from clients.
THEOREM PoolSound == Spec => []PoolIsSound
<1>1. IInv => PoolIsSound
  <2> SUFFICES ASSUME IInv PROVE PoolIsSound
    OBVIOUS
  <2>1. TypeOK
    BY TypeInvImplies DEF IInv
  <2>2. ASSUME OneSource
        PROVE  Tidy(pool) /\ \A tx \in ToSet(pool) \cap Confirmed(chain) : Cleaning(tx)
    <3>1. Tidy(pool) /\ Removed
      BY <2>2 DEF IInv, OneSource, PeerInv, ClientInv
    <3> QED
      BY <3>1, RemovedCleans
  <2>3. ConfirmedIsNotPending
    BY <2>2 DEF ConfirmedIsNotPending
  <2>4. OnePerNonce /\ PoolIsBounded
    BY <2>2 DEF OnePerNonce, PoolIsBounded, Tidy
  <2> QED
    BY <2>1, <2>3, <2>4 DEF PoolIsSound
<1> QED
  BY <1>1, MempoolInvariant, PTL
---------------------------------------------------------------------------
\* How a transaction may leave the pool.
LeavesRightly ==
    \A tx \in ToSet(pool) \ ToSet(pool') :
        tx \in Confirmed(chain) \/ tx \notin ToSet(RevalidateTransactions(pool, chain))

\* The handlers that save a pool or remove from it do so rightly.
LEMMA StepLeavesRightly ==
    ASSUME IInv, OneSource, NEW w \in Worker, Submission(w) \/ FromPeer(w) \/ Mining(w) \/ Reorg(w)
    PROVE  LeavesRightly
<1>1. TypeInv /\ (PeerInv \/ ClientInv) /\ ops \cap {"clear", "reorg", "crash"} = {}
  BY DEF IInv, OneSource, FromPeersOnly, FromClientsOnly
<1>2. at[w] \in PeerPlaces \cup ClientPlaces /\ pool \in Seq(Transactions)
  BY <1>1 DEF PeerInv, PeerAt, ClientInv, ClientAt, TypeInv
<1>3. at[w] \in Removes => ToSet(Last(arg[w]).txs) \subseteq Confirmed(chain)
  BY <1>1 DEF PeerInv, PeerAt, ClientInv, ClientAt
<1>4. at[w] \in {"tx save", "block save"} => kept[w] = RevalidateTransactions(pool, chain)
  <2>1. CASE PeerInv
    BY <2>1 DEF PeerInv, PeerAt
  <2>2. CASE ClientInv
    BY <2>2 DEF ClientInv, ClientAt, ClientPlaces
  <2> QED
    BY <1>1, <2>1, <2>2
<1>5. CASE pool' = pool
  BY <1>5 DEF LeavesRightly
<1>6. CASE at[w] \in {"tx save", "block save"} /\ pool' = kept[w]
  BY <1>4, <1>6 DEF LeavesRightly
<1>7. CASE at[w] \in Removes /\ pool' = RemoveIDs(pool, ToSet(Last(arg[w]).txs))
  <2>1. ToSet(pool') = ToSet(pool) \ ToSet(Last(arg[w]).txs)
    BY <1>2, <1>7, RemoveIDsFacts
  <2> QED
    BY <1>3, <1>7, <2>1 DEF LeavesRightly
<1>8. CASE at[w] = "add" /\ pool' = Add(pool, arg[w])
  <2>1. arg[w] \in Transactions
    BY <1>1, <1>8 DEF TypeInv, Placed
  <2>2. ToSet(pool) \subseteq ToSet(pool')
    BY <1>2, <1>8, <2>1, AppendFacts DEF Add
  <2> QED
    BY <2>2 DEF LeavesRightly
<1>9. CASE Submission(w)
  <2>1. ~MempoolClear(w)
    BY <1>1 DEF MempoolClear
  <2>2. ASSUME NEW request, SendBegin(w, request) \/ StakeBegin(w, request)
        PROVE  pool' = pool
    BY <2>2 DEF SendBegin, StakeBegin
  <2>3. CreatePending(w) \/ StakeBlocks(w) \/ CreateStake(w) \/ AdmitLoad(w) \/ RefreshState(w) => pool' = pool
    BY DEF CreatePending, StakeBlocks, CreateStake, AdmitLoad, RefreshState
  <2>4. AdmitAdd(w) => at[w] = "add" /\ pool' = Add(pool, arg[w])
    BY DEF AdmitAdd
  <2> QED
    BY <1>5, <1>8, <1>9, <2>1, <2>2, <2>3, <2>4 DEF Submission
<1>10. CASE FromPeer(w)
  <2>1. ASSUME NEW x, ReceiveTx(w, x) \/ ReceiveBlock(w, x)
        PROVE  pool' = pool
    BY <2>1 DEF ReceiveTx, ReceiveBlock
  <2>2. RevalidateLoad(w) \/ AcceptCheck(w) \/ ReceiveAdd(w) => pool' = pool
    BY DEF RevalidateLoad, AcceptCheck, ReceiveAdd
  <2>3. RevalidateSave(w) => at[w] \in {"tx save", "block save"} /\ pool' = kept[w]
    BY DEF RevalidateSave
  <2>4. ReceiveRemove(w) => at[w] \in Removes /\ pool' = RemoveIDs(pool, ToSet(Last(arg[w]).txs))
    BY DEF ReceiveRemove, Removes
  <2> QED
    BY <1>5, <1>6, <1>7, <1>10, <2>1, <2>2, <2>3, <2>4 DEF FromPeer
<1>11. CASE Mining(w)
  <2>1. MinerTemplate(w) \/ MinerSubmit(w) \/ MineLoad(w) \/ MineCandidate(w) \/ CommitLock(w) => pool' = pool
    BY DEF MinerTemplate, MinerSubmit, MineLoad, MineCandidate, CommitLock
  <2>2. SubmitAdd(w) => pool' = pool
    BY DEF SubmitAdd
  <2>3. SubmitRemove(w) => at[w] \in Removes /\ pool' = RemoveIDs(pool, ToSet(Last(arg[w]).txs))
    BY DEF SubmitRemove, Removes
  <2> QED
    BY <1>5, <1>7, <1>11, <2>1, <2>2, <2>3 DEF Mining
<1>12. CASE Reorg(w)
  <2>1. ASSUME NEW height, NEW branch, ReorgCommit(w, height, branch)
        PROVE  FALSE
    BY <1>1, <2>1 DEF ReorgCommit
  <2>2. ~RequeueOrphans(w) /\ ~ReorgSave(w)
    BY <1>2 DEF RequeueOrphans, ReorgSave, PeerPlaces, ClientPlaces
  <2> QED
    BY <1>12, <2>1, <2>2 DEF Reorg
<1> QED
  BY <1>9, <1>10, <1>11, <1>12

\* A pending transaction leaves the mempool only when the chain confirms it or
\* does not allow it any more: no Save of a revalidation overwrites an admission
\* that it has not seen, whichever handlers overlap.
THEOREM NothingLost == Spec => NothingIsLost
<1>1. IInv /\ [Next]_vars =>
        [OneSource => \A tx \in ToSet(pool) \ ToSet(pool') :
           tx \in Confirmed(chain) \/ tx \notin ToSet(RevalidateTransactions(pool, chain))]_vars
  <2> SUFFICES ASSUME IInv, Next, OneSource
               PROVE  LeavesRightly
    BY DEF LeavesRightly
  <2>1. ~Crash
    BY DEF Crash, OneSource, FromPeersOnly, FromClientsOnly
  <2> QED
    BY <2>1, StepLeavesRightly DEF Next
<1> QED
  BY <1>1, MempoolInvariant, PTL DEF Spec, NothingIsLost
---------------------------------------------------------------------------
\* A selection is pending and a run of nonces of each sender, within the gas.
LEMMA SelectedExecutes ==
    ASSUME pool \in Seq(Transactions), nonces \in [Address -> Nat]
    PROVE  ToSet(Selected) \subseteq ToSet(pool) /\ SelectionIsExecutable
<1>1. PICK acc \in Drawing(pool, nonces) : Selected = acc.out
  BY SelectedFacts DEF Selected
<1> DEFINE txs == acc.out
<1>2. txs \in Seq(ToSet(pool)) /\ TotalGas(txs) <= MaxGasPerBlock /\ InOrder(txs, nonces)
  BY DEF Drawing, Selecting
<1> HIDE DEF txs
<1>3. ASSUME NEW i \in DOMAIN txs
      PROVE  txs[i].nonce = Following(SubSeq(txs, 1, i - 1), txs[i].from)
  <2> DEFINE part == SubSeq(txs, 1, i - 1)
             a == txs[i].from
  <2>1. /\ i \in 1..Len(txs) /\ Len(txs) \in Nat
        /\ DOMAIN part = 1..(i - 1) /\ \A j \in 1..(i - 1) : part[j] = txs[j]
    BY <1>2
  <2> HIDE DEF part
  <2>2. SentIn(part, a) = Before(txs, i, a)
    BY <2>1 DEF SentIn, Before
  <2>3. txs[i].nonce = nonces[a] + Cardinality(Before(txs, i, a))
    BY <1>2 DEF InOrder
  <2> QED
    BY <2>2, <2>3 DEF Following, part
<1>4. ToSet(txs) \subseteq ToSet(pool)
  BY <1>2, ElementsOfSeq
<1>5. Selected = txs
  BY <1>1 DEF txs
<1> QED
  BY <1>2, <1>3, <1>4, <1>5 DEF SelectionIsExecutable

\* What follows a selection and is the first of its nonce does not fit.
LEMMA SelectedIsMaximal ==
    ASSUME pool \in Seq(Transactions), nonces \in [Address -> Nat]
    PROVE  SelectionIsMaximal
<1>1. PICK acc \in Drawing(pool, nonces) : Fitting(acc) = {} /\ Selected = acc.out
  BY SelectedFacts DEF Selected
<1> SUFFICES ASSUME NEW tx \in ToSet(pool), tx.nonce = Following(acc.out, tx.from),
                    \A other \in ToSet(pool) : SameNonce(tx, other) => Rank(tx) <= Rank(other)
             PROVE  TotalGas(acc.out) + GasUsed(tx) > MaxGasPerBlock
  BY <1>1 DEF SelectionIsMaximal
<1>2. PICK a \in Address : tx.from = a /\ tx \in SentBy(a, pool) /\ tx \in Transactions
  BY SenderFacts
<1> DEFINE c == Drawn(acc.out, a)
           left == acc.lists[a]
           run == Ready(pool, nonces, a)
<1>3. tx.nonce = nonces[a] + c
  BY <1>2 DEF Following, Drawn
<1>4. left \in Seq(SentBy(a, pool)) /\ acc.out \in Seq(ToSet(pool)) /\ Rest(left, run, c)
  BY DEF Drawing, Selecting
<1>5. c \in Nat
  BY <1>4, SentInAppend DEF Drawn
<1>6. left # <<>>
  <2> SUFFICES ASSUME left = <<>> PROVE FALSE
    OBVIOUS
  <2>1. IsRun(run, SentBy(a, pool), nonces[a])
    BY ReadyIsRun
  <2>2. Len(left) = 0 /\ c + Len(left) = Len(run)
    BY <1>4 DEF Rest
  <2>3. c = Len(run)
    BY <1>5, <2>2
  <2> QED
    BY <1>2, <1>3, <2>1, <2>3 DEF IsRun
<1> DEFINE h == Head(left)
<1>7. /\ h \in SentBy(a, pool) /\ h \in Transactions /\ h.nonce = nonces[a] + c
      /\ \A x \in SentBy(a, pool) : x.nonce = h.nonce => Rank(h) <= Rank(x)
  BY <1>6, HeadFacts
<1>8. h \in Heads(acc)
  BY <1>6 DEF Heads
<1> HIDE DEF h, c
<1>9. h = tx
  <2>1. Rank(h) <= Rank(tx)
    BY <1>2, <1>3, <1>7
  <2>2. Rank(tx) <= Rank(h)
    BY <1>2, <1>3, <1>7 DEF SentBy, SameNonce
  <2>3. Rank(h) \in Nat /\ Rank(tx) \in Nat
    BY <1>2, <1>7, RankFacts
  <2> QED
    BY <1>2, <1>7, <2>1, <2>2, <2>3, RankOrders
<1>10. ~(TotalGas(acc.out) + GasUsed(tx) <= MaxGasPerBlock)
  BY <1>1, <1>8, <1>9 DEF Fitting, Fits
<1>11. TotalGas(acc.out) \in Nat /\ GasUsed(tx) \in Nat /\ MaxGasPerBlock \in Nat
  BY <1>4, TotalGasFacts, TransactionsFacts DEF GasUsed
<1> QED
  BY <1>10, <1>11

\* The order of the pool does not matter, nor how often it has a transaction.
LEMMA SelectedIgnoresArrival ==
    ASSUME pool \in Seq(Transactions), nonces \in [Address -> Nat]
    PROVE  SelectionIgnoresArrival
<1> DEFINE sorted == ByRank(pool)
<1>1. sorted \in Seq(Transactions) /\ ToSet(sorted) = ToSet(pool) /\ IsInjective(sorted)
  BY ByRankFacts
<1>2. ByRank(sorted) = ByRank(pool)
  BY <1>1 DEF ByRank
<1>3. \A a : SentBy(a, sorted) = SentBy(a, pool)
  BY <1>1 DEF SentBy
<1> HIDE DEF sorted
<1>4. Started(sorted, nonces) = Started(pool, nonces)
  BY <1>2, <1>3 DEF Started, Ready
<1>5. Cardinality(ToSet(pool)) = Len(sorted)
  BY <1>1, LengthIsCardinality
<1>6. Len(sorted) \in Nat /\ Cardinality(ToSet(pool)) <= Len(sorted) /\ Len(sorted) <= Len(pool)
  BY <1>1, <1>5, LengthIsCardinality
<1>7. TakeRun!Run(Started(pool, nonces), pool) = TakeRun!Run(Started(pool, nonces), sorted)
  BY <1>1, <1>6, SelectionStays
<1>8. \A q : SelectWithNonces(q, nonces) = TakeRun!Run(Started(q, nonces), q).out
  BY DEF SelectWithNonces, Started, Loop, TakeRun!Run
<1> QED
  BY <1>4, <1>7, <1>8 DEF SelectionIgnoresArrival, Selected, sorted

\* Pools that only transactions join.
SelectionInv ==
    ops = {} =>
        /\ pool \in Seq(Transactions) /\ nonces \in [Address -> Nat]
        /\ template = None /\ \A w \in Worker : at[w] = "idle"

\* Without handlers nothing else happens.
LEMMA SelectionStep == SelectionInv /\ [SelectionNext]_selectionVars => SelectionInv'
<1> SUFFICES ASSUME SelectionInv, [SelectionNext]_selectionVars, ops' = {}
             PROVE  SelectionInv'
  BY DEF SelectionInv
<1>1. CASE UNCHANGED selectionVars
  BY <1>1 DEF SelectionInv, selectionVars, vars
<1>2. ASSUME NEW tx \in Selectable, Arrive(tx), UNCHANGED nonces
      PROVE  SelectionInv'
  <2>1. tx \in Transactions
    BY SelectionAssumption
  <2>2. pool' \in Seq(Transactions)
    BY <1>2, <2>1, AppendFacts DEF SelectionInv, Arrive
  <2> QED
    BY <1>2, <2>2 DEF SelectionInv, Arrive
<1>3. ASSUME Next
      PROVE  FALSE
  <2>1. ops = {} /\ template = None /\ \A w \in Worker : at[w] = "idle"
    BY <1>3 DEF Next, SelectionInv
  <2>2. ~Crash
    BY <2>1 DEF Crash
  <2>3. ASSUME NEW w \in Worker
        PROVE  ~Submission(w) /\ ~FromPeer(w) /\ ~Mining(w) /\ ~Reorg(w)
    <3>1. at[w] = "idle"
      BY <2>1
    <3>2. ~Submission(w)
      BY <2>1, <3>1 DEF Submission, SendBegin, StakeBegin, CreatePending, StakeBlocks, CreateStake, AdmitLoad, AdmitAdd, RefreshState,
                        MempoolClear
    <3>3. ~FromPeer(w)
      BY <2>1, <3>1 DEF FromPeer, ReceiveTx, RevalidateLoad, RevalidateSave, AcceptCheck, ReceiveBlock,
                        ReceiveAdd, ReceiveRemove
    <3>4. ~Mining(w)
      BY <2>1, <3>1 DEF Mining, MinerTemplate, MinerSubmit, MineLoad, MineCandidate, CommitLock, SubmitAdd,
                        SubmitRemove
    <3>5. ~Reorg(w)
      BY <2>1, <3>1 DEF Reorg, ReorgCommit, RequeueOrphans, ReorgSave
    <3> QED
      BY <3>2, <3>3, <3>4, <3>5
  <2> QED
    BY <1>3, <2>2, <2>3 DEF Next
<1> QED
  BY <1>1, <1>2, <1>3 DEF SelectionNext

\* Whatever is pending, SelectWithNonces returns transactions that execute in
\* their order within the gas limit, leaves out nothing that would still fit, and
\* does not depend on the order of the mempool file.
THEOREM SelectionsAreRight == SelectionSpec => []SelectionIsRight
<1>1. SelectionInit => SelectionInv
  <2>1. \A tx \in Selectable : tx.nonce \in Nat
    BY SelectionAssumption, TransactionsFacts DEF Transaction
  <2> QED
    BY <2>1 DEF SelectionInit, Init, SelectionInv
<1>2. SelectionInv => SelectionIsRight
  BY SelectedExecutes, SelectedIsMaximal, SelectedIgnoresArrival DEF SelectionInv, SelectionIsRight
<1> QED
  BY <1>1, <1>2, SelectionStep, PTL DEF SelectionSpec
===========================================================================
