--------------------------- MODULE NodeMempool ----------------------------
(***************************************************************************)
(* The mempool file and the chain database of one node under the handlers  *)
(* that share them.  Each worker is a goroutine that runs one handler at a *)
(* time; a step is what happens under one acquisition of a lock or one     *)
(* access to a file:                                                       *)
(*                                                                         *)
(*   db       the lock of the database file, held while the chain is open; *)
(*   chainMu  the mutation mutex of the node;                              *)
(*   txMu     the mutex of the RPC submissions.                            *)
(*                                                                         *)
(* The mutex of the mempool file is held inside Load, Save, Add and        *)
(* RemoveIDs only, so each of them is atomic and nothing more is.          *)
(***************************************************************************)
EXTENDS Mempool

CONSTANTS
    Worker,         \* goroutines that serve requests
    None,           \* nobody, nothing
    Mixes,          \* the sets of handlers that run together
    Requests,       \* what RPC clients ask for: transactions whose nonce is to be set
    PeerTxs,        \* transactions that peers send
    Bodies,         \* the contents of blocks that peers send
    Miner,          \* the address that local mining pays
    InitialChain,   \* the chain the node starts with
    MaxHeight       \* bound on the chain

ASSUME NodeAssumption ==
    /\ None \notin Worker
    /\ \A m \in Mixes : m \subseteq {"send", "stake", "clear", "tx", "block", "template", "mine", "reorg", "crash"}
    /\ Requests \subseteq Transaction
    /\ PeerTxs \subseteq Transactions
    /\ Bodies \subseteq Block(Seq(Transactions))
    /\ Miner \in Address
    /\ InitialChain \in Seq(Block(Seq(Transactions))) /\ ValidChain(InitialChain)
    /\ MaxHeight \in Nat

VARIABLES
    ops,        \* the handlers of the behaviour
    chain,      \* the canonical chain in the database
    pool,       \* the mempool file
    template,   \* the last block template given to a miner, with its parent
    db, chainMu, txMu,
    at,         \* where each worker is
    arg,        \* the request (with the blocks read for it), transaction, chain or orphans it works on
    kept        \* the transactions it loaded or decided to save

vars == <<ops, chain, pool, template, db, chainMu, txMu, at, arg, kept>>
locks == <<db, chainMu, txMu>>

Init ==
    /\ ops \in Mixes
    /\ chain = InitialChain
    /\ pool = <<>>
    /\ template = None
    /\ db = None /\ chainMu = None /\ txMu = None
    /\ at = [w \in Worker |-> "idle"]
    /\ arg = [w \in Worker |-> None]
    /\ kept = [w \in Worker |-> <<>>]

Unlocked(lock, w) == IF lock = w THEN None ELSE lock

Goto(w, place, value) == at' = [at EXCEPT ![w] = place] /\ arg' = [arg EXCEPT ![w] = value]

\* A handler returns: the deferred unlocks and closeFn run.
Return(w) ==
    /\ Goto(w, "idle", None)
    /\ kept' = [kept EXCEPT ![w] = <<>>]
    /\ db' = Unlocked(db, w) /\ chainMu' = Unlocked(chainMu, w) /\ txMu' = Unlocked(txMu, w)

Height == Len(chain)
---------------------------------------------------------------------------
(* RPC submissions: send, stakeLock, stakeUnlock and the faucet.           *)

SendBegin(w, request) ==
    /\ "send" \in ops /\ request.kind \notin {"stake_lock", "stake_unlock"}
    /\ at[w] = "idle" /\ txMu = None
    /\ txMu' = w
    /\ Goto(w, "create", request)
    /\ UNCHANGED <<chain, pool, template, db, chainMu, kept>>

StakeBegin(w, request) ==
    /\ "stake" \in ops /\ request.kind \in {"stake_lock", "stake_unlock"}
    /\ at[w] = "idle" /\ txMu = None
    /\ txMu' = w
    /\ Goto(w, "stake", request)
    /\ UNCHANGED <<chain, pool, template, db, chainMu, kept>>

PendingFromCount(from) == Cardinality({i \in DOMAIN pool : pool[i].from = from})

\* Spendable of BalanceDetails: mature coin that neither stakes nor pending
\* transactions hold.
Spendable(l, a) ==
    LET Plus(sum, tx) ==
          sum + (IF tx.from = a /\ tx.kind \in {"legacy_transfer", "native_transfer", "stake_lock"}
                 THEN tx.amount ELSE 0)
              + (IF tx.payer = a /\ tx.kind \notin {"stake_lock", "stake_unlock"} THEN tx.fee ELSE 0)
        held == Locked(l, a) + FoldLeft(Plus, 0, pool)
    IN  IF held >= l.mature[a] THEN 0 ELSE l.mature[a] - held

MaySend(l, tx) == Spendable(l, tx.from) >= tx.amount + tx.fee /\ tx.from # tx.to

MayLock(l, tx) == tx.amount >= MinStake /\ Spendable(l, tx.from) >= tx.amount

MayUnlock(l, tx) ==
    /\ Clone(l).stakes[tx.ref].status = "active" /\ l.stakes[tx.ref].owner = tx.from
    /\ \A other \in ToSet(pool) : ~(other.kind = "stake_unlock" /\ other.ref = tx.ref)

MayCreate(l, tx) ==
    /\ tx.kind = "stake_lock" => MayLock(l, tx)
    /\ tx.kind = "stake_unlock" => MayUnlock(l, tx)
    /\ tx.kind \notin {"stake_lock", "stake_unlock"} => MaySend(l, tx)

\* The nonce counts what is pending on top of the blocks that were read.
Create(w, blocks, request) ==
    LET l     == LedgerOf(blocks)
        nonce == l.nonce[request.from] + PendingFromCount(request.from) + 1
        tx    == [request EXCEPT !.nonce = nonce]
    IN  IF tx \in Transactions /\ MayCreate(l, tx)
        THEN Goto(w, "admit", tx) /\ UNCHANGED <<locks, kept>>
        ELSE Return(w)

\* createPendingTransaction keeps the database open while it loads the mempool.
CreatePending(w) ==
    /\ at[w] = "create" /\ db = None
    /\ Create(w, chain, arg[w])
    /\ UNCHANGED <<chain, pool, template>>

\* createStakeLockTx and createStakeUnlockTx read the blocks and close the
\* database ...
StakeBlocks(w) ==
    /\ at[w] = "stake" /\ db = None
    /\ Goto(w, "stake create", [request |-> arg[w], blocks |-> chain])
    /\ UNCHANGED <<chain, pool, template, locks, kept>>

\* ... before they load the mempool, which may have been cleaned up since.
CreateStake(w) ==
    /\ at[w] = "stake create"
    /\ Create(w, arg[w].blocks, arg[w].request)
    /\ UNCHANGED <<chain, pool, template>>

\* The first half of Admit: Load and the checks.
AdmitLoad(w) ==
    /\ at[w] = "admit"
    /\ IF Admits(pool, arg[w]) THEN Goto(w, "add", arg[w]) /\ UNCHANGED <<locks, kept>> ELSE Return(w)
    /\ UNCHANGED <<chain, pool, template>>

\* The second half, Add; acceptTx then closes the database.
AdmitAdd(w) ==
    /\ at[w] = "add"
    /\ pool' = Add(pool, arg[w])
    /\ Goto(w, "refresh", None)
    /\ db' = Unlocked(db, w)
    /\ UNCHANGED <<chain, template, chainMu, txMu, kept>>

\* refreshState opens the database once more; then the handler broadcasts and
\* returns.
RefreshState(w) ==
    /\ at[w] = "refresh" /\ db = None
    /\ Return(w)
    /\ UNCHANGED <<chain, pool, template>>

MempoolClear(w) ==
    /\ "clear" \in ops
    /\ at[w] = "idle"
    /\ pool' = <<>>
    /\ Goto(w, "refresh", None)
    /\ UNCHANGED <<chain, template, locks, kept>>
---------------------------------------------------------------------------
(* Transactions and blocks from peers.                                     *)

ReceiveTx(w, tx) ==
    /\ "tx" \in ops
    /\ at[w] = "idle"
    /\ Goto(w, "tx revalidate", tx)
    /\ UNCHANGED <<chain, pool, template, locks, kept>>

\* RevalidateMempoolAgainstLedgerWithProfile loads and decides ...
RevalidateLoad(w) ==
    /\ at[w] \in {"tx revalidate", "block revalidate"} /\ db = None
    /\ db' = w
    /\ kept' = [kept EXCEPT ![w] = RevalidateTransactions(pool, chain)]
    /\ Goto(w, IF at[w] = "tx revalidate" THEN "tx save" ELSE "block save", arg[w])
    /\ UNCHANGED <<chain, pool, template, chainMu, txMu>>

\* ... and saves what it decided to keep.
RevalidateSave(w) ==
    /\ at[w] \in {"tx save", "block save"}
    /\ pool' = kept[w]
    /\ db' = None
    /\ Goto(w, IF at[w] = "tx save" THEN "tx check" ELSE "refresh", arg[w])
    /\ kept' = [kept EXCEPT ![w] = <<>>]
    /\ UNCHANGED <<chain, template, chainMu, txMu>>

AcceptsTx(tx) ==
    /\ tx \notin Confirmed(chain)
    /\ tx \notin ToSet(pool)
    /\ ValidateTransaction(ApplyPending(LedgerOf(chain), pool), tx)

\* Mutated form: the database is closed before Admit.
CheckAndClose(w) ==
    /\ at[w] = "tx check" /\ db = None
    /\ IF AcceptsTx(arg[w]) THEN Goto(w, "admit", arg[w]) /\ UNCHANGED <<db, chainMu, txMu, kept>>
                            ELSE Return(w)
    /\ UNCHANGED <<chain, pool, template>>

\* The rest of acceptTx up to Admit keeps the database open.
AcceptCheck(w) ==
    /\ at[w] = "tx check" /\ db = None
    /\ IF AcceptsTx(arg[w]) THEN db' = w /\ Goto(w, "admit", arg[w]) /\ UNCHANGED <<chainMu, txMu, kept>>
                            ELSE Return(w)
    /\ UNCHANGED <<chain, pool, template>>

\* A block carries the hash of its parent: the peer built it on this chain.
ReceiveBlock(w, body) ==
    /\ "block" \in ops
    /\ at[w] = "idle" /\ chainMu = None
    /\ chainMu' = w
    /\ Goto(w, "block add", Append(chain, body))
    /\ UNCHANGED <<chain, pool, template, db, txMu, kept>>

Extends(new) == Height < MaxHeight /\ Front(new) = chain /\ Accepts(chain, Last(new))

\* AddBlock within an opened and closed database.
ReceiveAdd(w) ==
    /\ at[w] = "block add" /\ db = None
    /\ IF Extends(arg[w])
       THEN chain' = arg[w] /\ Goto(w, "block remove", arg[w]) /\ UNCHANGED <<locks, kept>>
       ELSE Return(w) /\ UNCHANGED chain
    /\ UNCHANGED <<pool, template>>

ReceiveRemove(w) ==
    /\ at[w] = "block remove"
    /\ pool' = RemoveIDs(pool, ToSet(Last(arg[w]).txs))
    /\ Goto(w, "block revalidate", None)
    /\ UNCHANGED <<chain, template, locks, kept>>
---------------------------------------------------------------------------
(* Local mining: external miners with templates, and the mine handler.     *)

MinerTemplate(w) ==
    /\ "template" \in ops
    /\ at[w] = "idle" /\ db = None
    /\ template' = Append(chain, BlockTemplate(chain, pool, Miner))
    /\ UNCHANGED <<chain, pool, locks, at, arg, kept>>

\* A miner solved the template, perhaps after the tip has moved.
MinerSubmit(w) ==
    /\ template # None
    /\ at[w] = "idle" /\ chainMu = None
    /\ chainMu' = w
    /\ Goto(w, "submit", template)
    /\ UNCHANGED <<chain, pool, template, db, txMu, kept>>

MineLoad(w) ==
    /\ "mine" \in ops
    /\ at[w] = "idle"
    /\ kept' = [kept EXCEPT ![w] = pool]
    /\ Goto(w, "mine", None)
    /\ UNCHANGED <<chain, pool, template, locks>>

\* mineCandidateBlock up to the proof of work.
MineCandidate(w) ==
    /\ at[w] = "mine" /\ db = None
    /\ Goto(w, "commit", Append(chain, MinedBlock(chain, kept[w], Miner)))
    /\ kept' = [kept EXCEPT ![w] = <<>>]
    /\ UNCHANGED <<chain, pool, template, locks>>

\* commitMinedBlock.
CommitLock(w) ==
    /\ at[w] = "commit" /\ chainMu = None
    /\ chainMu' = w
    /\ Goto(w, "commit add", arg[w])
    /\ UNCHANGED <<chain, pool, template, db, txMu, kept>>

Removing(w) == IF at[w] = "submit" THEN "remove" ELSE "commit remove"

\* Mutated form: the database is closed between AddBlock and RemoveIDs.
SubmitAndClose(w) ==
    /\ at[w] \in {"submit", "commit add"} /\ db = None
    /\ IF Extends(arg[w])
       THEN chain' = arg[w] /\ Goto(w, Removing(w), arg[w]) /\ UNCHANGED <<locks, kept>>
       ELSE Return(w) /\ UNCHANGED chain
    /\ UNCHANGED <<pool, template>>

\* AddBlock of minerSubmit and commitMinedBlock: the database stays open.
SubmitAdd(w) ==
    /\ at[w] \in {"submit", "commit add"} /\ db = None
    /\ IF Extends(arg[w])
       THEN chain' = arg[w] /\ db' = w /\ Goto(w, Removing(w), arg[w]) /\ UNCHANGED <<chainMu, txMu, kept>>
       ELSE Return(w) /\ UNCHANGED chain
    /\ UNCHANGED <<pool, template>>

SubmitRemove(w) ==
    /\ at[w] \in {"remove", "commit remove"}
    /\ pool' = RemoveIDs(pool, ToSet(Last(arg[w]).txs))
    /\ db' = None
    /\ chainMu' = IF at[w] = "commit remove" THEN None ELSE chainMu
    /\ Goto(w, "refresh", None)
    /\ UNCHANGED <<chain, template, txMu, kept>>
---------------------------------------------------------------------------
(* ApplyReorg, with a plan that is still exact (ChainSync has stale ones). *)

Orphans(new, height) ==
    UNION {ToSet(chain[i].txs) : i \in (height + 1)..Height} \ Confirmed(new)

ReorgCommit(w, height, branch) ==
    LET new == SubSeq(chain, 1, height) \o branch
    IN  /\ "reorg" \in ops
        /\ at[w] = "idle" /\ chainMu = None /\ db = None
        /\ height < Height /\ Head(branch) # chain[height + 1]
        /\ Len(new) > Height /\ Len(new) <= MaxHeight
        /\ ValidChain(new) /\ \A i \in DOMAIN branch : Resources(branch[i])
        /\ chain' = new
        /\ chainMu' = w /\ db' = w
        /\ Goto(w, "requeue", Orphans(new, height))
        /\ UNCHANGED <<pool, template, txMu, kept>>

\* Mutated form: orphans that the new branch confirms are requeued as well.
RequeueAll(w) ==
    /\ at[w] = "requeue"
    /\ kept' = [kept EXCEPT ![w] = pool \o SetToSeq(arg[w] \ ToSet(pool))]
    /\ Goto(w, "reorg save", arg[w])
    /\ UNCHANGED <<chain, pool, template, locks>>

RequeueOrphans(w) ==
    /\ at[w] = "requeue"
    /\ \E order \in SetToSeqs(arg[w]) :
          kept' = [kept EXCEPT ![w] = Requeue(pool, order, chain)]
    /\ Goto(w, "reorg save", arg[w])
    /\ UNCHANGED <<chain, pool, template, locks>>

ReorgSave(w) ==
    /\ at[w] = "reorg save"
    /\ pool' = kept[w]
    /\ db' = None
    /\ kept' = [kept EXCEPT ![w] = <<>>]
    /\ Goto(w, "refresh", None)
    /\ UNCHANGED <<chain, template, chainMu, txMu>>

\* The process stops; the two files stay, and a restart finds them.
Crash ==
    /\ "crash" \in ops
    /\ at' = [w \in Worker |-> "idle"]
    /\ arg' = [w \in Worker |-> None]
    /\ kept' = [w \in Worker |-> <<>>]
    /\ db' = None /\ chainMu' = None /\ txMu' = None
    /\ UNCHANGED <<chain, pool, template>>

Submission(w) ==
    \/ \E request \in Requests : SendBegin(w, request) \/ StakeBegin(w, request)
    \/ CreatePending(w)
    \/ StakeBlocks(w)
    \/ CreateStake(w)
    \/ AdmitLoad(w)
    \/ AdmitAdd(w)
    \/ RefreshState(w)
    \/ MempoolClear(w)

FromPeer(w) ==
    \/ \E tx \in PeerTxs : ReceiveTx(w, tx)
    \/ RevalidateLoad(w)
    \/ RevalidateSave(w)
    \/ AcceptCheck(w)
    \/ \E body \in Bodies : ReceiveBlock(w, body)
    \/ ReceiveAdd(w)
    \/ ReceiveRemove(w)

Mining(w) ==
    \/ MinerTemplate(w)
    \/ MinerSubmit(w)
    \/ MineLoad(w)
    \/ MineCandidate(w)
    \/ CommitLock(w)
    \/ SubmitAdd(w)
    \/ SubmitRemove(w)

Reorg(w) ==
    \/ \E height \in 0..MaxHeight, branch \in TupleOf(Bodies, 2) : ReorgCommit(w, height, branch)
    \/ RequeueOrphans(w)
    \/ ReorgSave(w)

Next ==
    /\ \/ \E w \in Worker : Submission(w) \/ FromPeer(w) \/ Mining(w) \/ Reorg(w)
       \/ Crash
    /\ UNCHANGED ops

Spec == Init /\ [][Next]_vars
---------------------------------------------------------------------------
\* The handlers only ever leave pools of known transactions, and who is inside a
\* critical section holds its lock.
TypeOK ==
    /\ pool \in Seq(Transactions)
    /\ \A w \in Worker :
          /\ at[w] \in {"tx save", "block save", "remove", "commit remove", "requeue", "reorg save"}
                => db = w
          /\ at[w] \in {"block add", "block remove", "block save", "submit", "commit add", "remove",
                         "requeue", "reorg save"} => chainMu = w
          /\ at[w] \in {"create", "stake", "stake create"} => txMu = w

\* A node that gets transactions from peers only, or transfers from its clients
\* only, and neither reorganises nor crashes.  Stakes are not among them: their
\* handlers may count a nonce that a block has confirmed since they read it.
FromPeersOnly == "tx" \in ops /\ ops \subseteq {"tx", "block", "template"}
FromClientsOnly == "send" \in ops /\ ops \subseteq {"send", "template", "mine"}
OneSource == FromPeersOnly \/ FromClientsOnly

\* Who still has to take the transactions of a committed block out of the pool.
Cleaning(tx) ==
    \E w \in Worker :
        \/ at[w] \in {"block remove", "remove", "commit remove"} /\ tx \in ToSet(Last(arg[w]).txs)
        \/ at[w] \in {"requeue", "reorg save"}

\* A transaction that the chain confirms is pending only until the handler that
\* committed its block has cleaned the mempool, whatever acceptTx and the
\* revalidations save meanwhile.
ConfirmedIsNotPending ==
    OneSource => \A tx \in ToSet(pool) \cap Confirmed(chain) : Cleaning(tx)

\* Admit "deliberately does not replace an existing nonce": at no time are two
\* transactions of one sender with the same nonce pending.
OnePerNonce ==
    OneSource => \A i, j \in DOMAIN pool : i # j => ~SameNonce(pool[i], pool[j])

\* The limits of the mempool hold however admissions and revalidations overlap.
PoolIsBounded == OneSource => Len(pool) <= MaxTxCount /\ TotalGas(pool) <= MaxGasPerBlock

\* A pending transaction leaves the mempool only when the chain confirms it or
\* does not allow it any more: no Save overwrites an admission it has not seen.
NothingIsLost ==
    [][OneSource => \A tx \in ToSet(pool) \ ToSet(pool') :
          tx \in Confirmed(chain) \/ tx \notin ToSet(RevalidateTransactions(pool, chain))]_vars

\* The pool is sound whatever overlaps: handlers hold the locks they need, what
\* the chain confirms is pending only until its block is cleaned up, Admit
\* "deliberately does not replace an existing nonce", and the limits hold.
PoolIsSound == TypeOK /\ ConfirmedIsNotPending /\ OnePerNonce /\ PoolIsBounded

\* Every transaction of the sequence executes on the tip, one after the other.
Executable(txs) == ToSet(RevalidateTransactions(txs, chain)) = ToSet(txs)

\* On a node that only serves the transfers of its own clients and its miners
\* every pending transaction executes on the tip whenever no block is being
\* committed, so the nonce that createPendingTransaction counted was right
\* whatever was mined since (a stake's need not be); and what a reorganisation is
\* about to save executes on the new chain and is not confirmed by it, even when
\* clients added transactions meanwhile, stakes included.
PendingIsExecutable ==
    /\ FromClientsOnly /\ pool # <<>> /\ (\A w \in Worker : at[w] \notin {"remove", "commit remove"})
        => Executable(pool)
    /\ \A w \in Worker : at[w] = "reorg save" =>
          ToSet(kept[w]) \cap Confirmed(chain) = {} /\ Executable(kept[w])

\* A template on the current tip that is not over the limit is a block that
\* minerSubmit stores, although it was filled without its coinbase.
TemplateIsAccepted ==
    template # None /\ Front(template) = chain /\ Len(Last(template).txs) < MaxTxCount
        => Accepts(chain, Last(template))
===========================================================================
