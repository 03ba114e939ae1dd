# A TLA+ model of the DesKaChain node

This directory specifies the node under `deskachain/node` (the Go module
`indochain`) and its standalone miner: how blocks change the ledger, how chain
and state are stored, how transactions wait in the mempool, how nodes choose
between branches and synchronise, and the services around them. TLC checks the
modules on small instances, and TLAPS proves the central facts about the ledger,
blocks, the store, block production and the mempool for every instance.

In this file `I` stands for `deskachain/node/internal`.

## 1. The system

The node is one process with several entry points (command line, RPC server,
P2P server, background loops, mining service) around files: a bbolt database
with the chain and its state, a second one with the explorer index, and JSON
files with the mempool, the peers, the service nodes and the faucet's record.

| Component | State it keeps | Operations that change it | What makes it correct |
|---|---|---|---|
| Ledger `I/ledger`, `I/arith` | per account confirmed and mature balance and nonce; rewards that wait for maturity; height | apply a coinbase, a transaction, a block; mature; settle fees; clone, restore | two copies of each native balance agree; coin is conserved; no wrap; a failure changes nothing |
| Issued assets `I/asset` | definitions, balances per asset, the fee pool | create, mint, burn, transfer, charge | balances add up to the supply, the supply stays under the cap |
| Staking `I/staking` | stake records with status and release height | lock, unlock, release by height | stake is covered by mature coin and is released once |
| State `I/state` | none; snapshot and root are functions of a ledger | snapshot, validate, apply a block to a snapshot | reading a snapshot back gives the same ledger; the incremental path equals the replay |
| Chain `I/chain` | none of its own | validate, add a block, replace a branch, rebuild the state, mine | a mined block is valid; the state belongs to the tip |
| Store `I/storage` | blocks by height, tip key, state buckets | open, close, save block and state, replace from a height, save or delete the state | every write is atomic; a restart is always possible |
| Mempool `I/mempool` | pending transactions in a file | admit, select, remove, revalidate, requeue | nothing confirmed or conflicting stays; nothing valid is lost; what is selected executes |
| Fork choice `I/chain/locator.go`, `pow.go`, `I/p2p/fork.go`, `ancestor.go` | none; functions of two chains | - | the two sides of a fork agree who gives way; difficulty follows block times |
| Sync and reorganisation `I/p2p/sync.go`, `reorg.go`, `upstream.go` | none; works on chain and mempool | fetch, validate, switch branch, backfill | no step loses work; a node that is behind a peer it can trust and reach catches up |
| Peers `I/p2p` | peer list with scores, marks, cooldowns and retries | introduce, score, maintain, discover, prune | marks and scores agree; no peer is lost; an offline peer that answers again is found again |
| Cached status, data directory lock `I/nodestate`, `I/p2p/lock.go` | status, lock file | refresh; create, remove | the status follows the chain; one process for each data directory |
| RPC server and explorer `I/rpc` | explorer index, mutexes, buckets of the rate limiter | submit, mine, index, count | handlers return; the index is that of one chain and follows it |
| Mining `I/mining`, `I/cpuminer`, `cmd/indominer` | current job; goroutines of a search; the miner's counters | start, search, submit, complete | one job; no nonce twice; every search ends; stale jobs are dropped |
| Service nodes `I/servicenode`, `I/serviceagent` | registrations, challenges, rewards; the agent's counters | register, heartbeat, challenge, submit, reward | answers are final and recorded; agent and node agree |
| Faucet `I/faucet` | what each address got and when | request, record | limits hold but for one payment per failure, nothing is overspent |

Calls go from the entry points into `chain.Blockchain`, which validates with
`ledger` and `state` and writes through `storage`. Components share little
memory: what they share are the files. bbolt locks its file, so an open handle
excludes every other one, in this or another process. The JSON files have
mutexes that cover one read or one write, so whoever reads, decides and writes
back races with the others. Three locks order the handlers: the mutation mutex
of the node, the mutex of the RPC submissions and the lock of the database file,
which some handlers hold while they wait for a peer.

`PROJECT.json` lists under `hazards` what is hard to test here, each with its
line and the properties that would catch it.

## 2. Modules

| Module | Models | State | Actions |
|---|---|---|---|
| `Sums` | the integer type and totals | - | - |
| `Ledger` | `MatureLedger`, `asset.State`, `staking.State`, snapshots | - (operators on a ledger record) | - |
| `BlockExecution` | `ApplyBlock` step by step, and the reload of a snapshot | `ledger`, `backup`, `open`, `count`; history `burned`, `burning` | `OpenBlock`, `FailCoinbase`, `ExecuteTransaction`, `FailTransaction`, `CloseBlock`, `FailSettlement`, `Reload` |
| `Blocks` | a whole block as one step, replay of a chain, state root; `Loop` is a loop over a sequence | - | - |
| `BlockProduction` | `MineBlockWithContextAndNetwork` | `ledger`, `work`, `chosen`, `mining` | `StartMining`, `TakeTransaction`, `SkipTransaction`, `SealBlock`, `AbandonBlock` |
| `ChainStore` | `chain.Blockchain` on `storage.BoltStore` | `blocks`, `tip`, `state`, `opened` | `OpenBolt`, `Close`, `InitGenesis`, `AddBlock`, `ReplaceFromHeight`, `RebuildState`; legacy `SaveBlock`, `DeleteState`, `ReplaceBlocksOnly` |
| `CanonicalChain` | what the store promises (abstract), with validity and the state of a chain as parameters | `chain`, `state` | `Extend`, `Switch` |
| `Mempool` | `Admit`, `SelectWithNonces`, revalidation, requeueing, the two ways a block is filled | - | - |
| `NodeMempool` | the mempool file and the chain under the handlers of one node | `chain`, `pool`, `template`, the locks `db`, `chainMu`, `txMu`, and of each worker `at`, `arg`, `kept` | grouped as `Submission`, `FromPeer`, `Mining`, `Reorg`; `Crash` |
| `Selection` | what `SelectWithNonces` promises the miner and a requeueing, on pools that grow in any order | `nonces`, the next nonce of each sender, beside those of `NodeMempool` | `Arrive` |
| `ForkChoice` | work, retargeting, locators, ancestors, decisions | - | - |
| `ForkChoiceCheck` | any two chains, any history of block times, and what the fork choice promises of them | `local`, `peer`, `scenario` | `ExtendBoth`, `ExtendLocal`, `ExtendPeer`; `MineNext` |
| `ChainSync` | nodes that mine, announce, synchronise, reorganise and backfill | `chain`, `status`, `mu`, `db`, `at`, `job`, `inbox`, `bad` (who holds whom for a bad peer), bounds | `CommitMinedBlock`, `ReceiveBlock`, `RefreshState`, `SyncLoop`, local and remote steps of a round, `LoseCall`, `BusyTimeout`, `LoseBlock`, `Restart`, `Forgive` |
| `NodeLocks` | every handler as what it does to locks and whom it calls | `held`, `runs`, `pc`, `callee` | `Start`, `Acquire`, `LookUp`, `Release`, `Found`, `Deliver`, `Answer`, `Timeout` |
| `PeerStore` | `peers.json` under all that score peers | `peers`, `todo`, `read`, `stored`, `up` | one per loop or handler that starts, `Step` for its next call, and time |
| `ServiceNodes` | the three files of the service nodes, handlers and agent | `nodes`, `challenges`, `rewards`; the copies and place of each worker; `agent`, `saved` | handlers one file access at a time, agent steps, `Crash`, `AgentCrash`, `AgentTimeout` |
| `ExplorerIndex` | the indexer loop and the indexed endpoints | `chain`, `index`, `holder`, `indexer`, `reader`, history `seen`, `walk` | `SyncRead`, `SyncOpen`, `SyncCommit`, `SyncStatus`, `SyncError`, `RecordSyncFailure`, `Crash`; `Request`, `StatusCursor`, `StatusTip`, `Read`, `Follow`, `Leave` |
| `RateLimiter` | the buckets in front of the handlers | `clock`, `buckets`, `request`, history `served`, `turned` | `Tick`, `Arrive`, `Allow` |
| `DataDirLock` | `node.lock` under nodes and commands | `lock`, `node`, `command`, `errors` | `NodeCheck`, `Create`, `Write`, `WriteFails`, `Startup`, `StartupFails`, `Stop`, `Crash`, `RemoveLock`, `CommandCheck`, `CommandDone`, `OperatorRemoves` |
| `Faucet` | the request handler, its record and its payments | `now`, `requests`, `pool`, `confirmed`, `handler`, history `unrecorded` | `Request`, `Admit`, `Record`, `RecordFails`, `Mine`, `Crash`, `Tick` |
| `CPUMiner` | `cpuminer.Mine` | `at`, `nonce` of each thread; the channels `results`, `errs`, `done`; contexts; `caller` | thread steps, `Close`, `Stop`, the select of the caller |
| `Indominer` | the loop of the standalone miner, its monitor and a node | `chain`, `miner`, `accepted`, `rpcErrors`, `wire`, `reply`, `taken` | `FetchTemplate`, `Found`, `MonitorAsks`, `MonitorChecks`, `SubmitBlock`, `MinerSubmit`, `Answer`, and the failure of each |
| `MiningJobs` | `mining.Service` and `POST /mine` | `job`, `at`, `left`, `committed` | `Start`, `SearchFails`, `Found`, `CommitFails`, `Commit`, `RecordBlock`, `Complete` |
| `LedgerProofs` | what every operation of `Ledger` keeps and does to totals; whole blocks and replays of chains | - | - |
| `Iteration` | loops over a sequence, of any length | - | - |
| `BlockExecutionProofs`, `BlockProductionProofs`, `ChainStoreProofs`, `NodeMempoolProofs` | invariants and theorems of the module of that name (the last also of `Mempool` and `Selection`) | - | - |
| `NodeProofs` | invariants and theorems of `RateLimiter`, `DataDirLock`, `Faucet`, `ExplorerIndex` and `ForkChoiceCheck` | - | - |
| `MiningProofs` | invariants and theorems of `MiningJobs`, `CPUMiner` and `Indominer` | - | - |
| `NodeParts`, `ServiceParts`, `MiningParts`, `Scenarios` | what is both model-checked and proved of the small components: an instance of each, over variables of its own, with its properties | `scenario`, which tells what a behaviour is about | - |
| `MCBlockExecution`, `MCBlockProduction`, `MCChainStore`, `MCNodeMempool` | instances for TLC | - | - |
| `MCChainSync`, `MCNode`, `MCServices`, `MCMining` | compositions for TLC: several instances of the components, one scenario each | `scenario` and the variables of all components | the steps of the scenario's instance |

`BlockExecution`, `Blocks` and `Mempool` are built on `Ledger`; `BlockProduction`,
`ChainStore` and `NodeMempool` compose these with the chain, and `Selection` extends
`NodeMempool` with behaviours in which pools only grow; `ChainSync` runs
the operators of `ForkChoice` on several nodes. `NodeMempool` therefore executes
real transactions on real ledgers, while `ChainSync`, `ExplorerIndex` and
`Indominer` know blocks by identity and work only.

How the model corresponds to the code:

- **Ledger.** A ledger is a record with one field for each map of the Go structs.
  A method that returns an error is two operators, a condition (`CanMint`) and
  the effect (`Mint`), where the code changes nothing before it fails; where it
  does (the legacy transfer, `maturity.go:401-414`) one operator returns the
  outcome with the ledger it leaves behind. Maps are total functions with the
  zero value for a missing entry: an entry with zero amounts is kept by
  snapshots and replays alike.
- **Transactions.** A transaction is a record of the fields that execution
  reads. Its ID, the ID of the stake and of the asset it creates are the pair of
  sender and nonce. Signatures, encodings and names of assets are assumed valid.
- **Stakes.** The code refreshes released stakes in place whenever it reads
  them. The model refreshes in `Clone` and reads through `RefreshReleased`.
- **Blocks.** A block is its coinbase recipient, its miner and its transactions,
  or its miner, difficulty and time where the fork choice is concerned. A block is
  named by the chain that ends in it, as a block hash is.
- **Steps.** One bbolt transaction is one step, and so is one access to a JSON
  file, because its mutex covers no more. A remote call is a step of its own;
  what happens while a lock excludes everybody who could look is joined with it.
  A crash ends the goroutines and keeps the files.
- **Handlers as programs.** In `NodeLocks` a handler is the sequence of its lock
  operations and calls, in `PeerStore` a goroutine is the sequence of store calls
  it has still to make; one action each interprets them. A handshake takes no lock
  of the peer that answers it, but its callers hold some: `writeGuard` and
  `miningTemplateGuard` ask upstreams with `txMu` or the mutation mutex taken.
- **Time.** Cooldowns, retry times and peer ages in `PeerStore` end at any moment
  (their lengths decide nothing there). `Faucet`, `RateLimiter` and `ServiceNodes`
  count ticks, with seconds, minutes and days of a few ticks.
- **Panics.** `MiningJobs` lets the mining fail at every point, which stands for
  the `recover` of the handler too. The same `recover` would also catch a panic
  while the answer is written, after `Complete`; nothing there panics.
- **Mutated forms.** Next to a definition stands, where a property needs one, an
  operator marked *Mutated form*: a plausible bug in that code. No module uses
  them. With the definition replaced by its mutated form, TLC finds the property
  named in `PROJECT.json` violated, which shows that the property can fail.

## 3. Runs

`tlc -config <run>.cfg <module>`, in this directory. The last four runs in the
table are compositions: the initial state picks a *scenario*, the scenario picks
an instance of a component with the constants of the case it is about, and the
variables of the other components rest. A property speaks of the scenarios it is
about, and a behaviour never leaves its scenario. `TypeOK` and the smaller
invariants of a component are conjuncts of the property that needs them.

| Run | Module | States | What it shows |
|---|---|---|---|
| `native` | `MCBlockExecution` | 51,161 | transfers of both versions, sponsored fees and stakes over five blocks, up to the integer limit: no wrap (`TypeOK`), `NativeMirror`, `FundsAreCovered`, `NativeSupply`, `FeesSettled`, `ReloadIsExact`, `FailureIsAtomic`, `AccountStep` |
| `tokens` | `MCBlockExecution` | 86,475 | creation, minting, transfer and burning of issued assets: `TokenSupply` |
| `production` | `MCBlockProduction` | 45,388 | `MinedBlockIsRight`: what is selected without the coinbase applies behind it, the miner gets the fees it counted on, and skipped transactions leave no trace |
| `store` | `MCChainStore` | 224 | `StateMatchesChain`, `AlwaysOpenable` through reorganisations, rebuilds and crashes, and the refinement `ImplementsCanonicalChain` |
| `legacy_store` | `MCChainStore` | 418 | with the legacy writers the state may be stale, but a stale state is never trusted (`TrustedStateIsExact`) and refuses no valid block (`ValidBlocksAreAccepted`) |
| `mempool` | `MCNodeMempool` | 35,355 | mixes of handlers on one pool: `PoolIsSound`, `NothingIsLost`, `PendingIsExecutable`, `TemplateIsAccepted`; and `SelectWithNonces` on every small pool: `SelectionIsRight` |
| `sync` | `MCChainSync` | 209,878 | `ForkChoiceIsSound`, `RetargetIsSound`, `ReorgIsJustified`, and under fairness `CatchesUp` and `RoundsEnd` |
| `node` | `MCNode` | 234,854 | `HandlersReturn`, `PeersAreKept`, `OfflineIsRetried`, `OneNode`, `NodeComesBack`, `RateIsLimited` |
| `services` | `MCServices` | 405,849 | `RecordsAgree`, `IndexIsTrue`, `IndexConverges`, `FaucetIsBounded` |
| `mining` | `MCMining` | 174,994 | `SearchIsRight`, `SearchEnds`, `CountIsTrue`, `MinersFinish`, `JobIsTrue` |
| `legacyfee` | `MCBlockExecution` | violation | `SupplyIsHeld`: the fee of a version 1 or 2 transfer reaches nobody; `NativeSupply` states what holds: these fees are the only coin that disappears |
| `unrecoverable` | `MCChainStore` | violation | `StateIsRecoverable`: the recovery operation needs an open store, and `OpenBolt` refuses each database that needs it |

The last two check a sentence of the documentation that the code does not keep;
`PROJECT.json` quotes it under `findings`.

### Scenarios

| Run | Scenario | Case |
|---|---|---|
| `mempool` | mix `tx`, `block`, `template` | a node that gets transactions from peers only: admission, blocks and templates overlap |
| | mix `send`, `template`, `mine` | a node that only serves transfers of its clients and its miners |
| | mix with `reorg` and `crash` | submissions, clearing, blocks and a reorganisation overlap, with stakes that read the blocks and the pool apart; the node may crash between any two steps |
| | no handlers | pools of up to three transactions of two senders to select from |
| `sync` | `pairs` | two chains up to height 11, where a locator skips two gaps, with work that saturates |
| | `times` | block times before, at, within and beyond the target over two windows, clocks that run backwards included |
| | `reorgs` | two nodes, one may disconnect one block only, loses a call or crashes |
| | `behind` | a node that falls behind by up to three blocks, where one synchronisation imports two, through lost calls and crashes |
| | `follow` | a node that follows another and fills it as its upstream, with a lost call or a crash |
| | `mutual` | two nodes that synchronise with each other, both databases open |
| `node` | `locks` | all 19 handlers of two nodes with a goroutine each: no self-wait, no lock that outlives its handler |
| | `waits` | four goroutines announce with a lock held, to nodes that wait for locks themselves |
| | `marks`, `races`, `retry`, `discovery` | one goroutine on every scoring path with the node's thresholds; two that overlap; one peer that comes and goes under the maintenance, and turns bad when it fails too often; candidates at the capacity |
| | `crashes`, `restarts`, `stopped` | three nodes and two commands with crashes, failing starts and operators; failing starts alone; graceful stops of one node |
| | `requests` | three requests that overlap, in one minute and across several |
| `services` | `agent`, `clients`, `rewards` | an agent with lost answers and crashes of both sides; a node asked for everything; two requests for rewards over a day's end |
| | `lookups`, `pages`, `busy` | lookups beside reorganisations, errors and crashes; page walks; a busy `explorer.db` |
| | `payments` | two recipients over the end of a day, with a disk that fails one file or both and crashes |
| `mining` | `search`, `short` | three threads on a range that their stride does not divide; two whose search has to end |
| | `moving`, `racing` | a chain that moves again and again; a miner with `--max-blocks` and one with `--once` that race beside a node that refuses or fails after a commit |
| | `jobs` | three handlers of `POST /mine` |

### Where the code keeps less

While modelling, several statements that one would like to make turned out not to
hold of the code; the properties above say what does hold. The scenarios leave
out, on purpose and by name, the operation that breaks the stronger statement.

- *Mempool.* With RPC submissions and transactions of peers at once, two
  transactions of one nonce pass `Admit` before either is added
  (`admission.go:54`), and a revalidation overwrites a submission that lands
  between its load and its save (`reorg.go:369-374`): `PoolIsSound` and
  `NothingIsLost` speak of one source of transactions. The handlers of stakes read the
  blocks, close the database and load the pool after that (`handlers.go:3931-3943`,
  `3971-3996`): when a block is committed and cleaned up in between they count a nonce
  that is already confirmed, which `Admit` does not compare with the chain
  (`admission.go:54-96`). Such a stake is pending and never executes, so
  `PendingIsExecutable` speaks of pools of transfers, whose handlers keep the database
  open between the two. A pool with exactly
  `MaxTxCount` transactions gives a template that is refused, since the coinbase
  counts as well (`resources.go:41`); `TemplateIsAccepted` starts below that.
  Orphans of a reorganisation are tried in the order of a Go map, so a successor
  can be dropped although its predecessor returns (`reorg.go:302`); after a crash
  behind the commit none of them returns.
- *Fork choice and sync.* A lead of three blocks or more can be reported as a fork,
  since the locator skips the peer's tip (`fork.go:77`). The backfill of the sync
  loop runs without the mutation mutex (`cli.go:2762`) and can replace a chain that
  has grown by one of less work: `ReorgIsJustified` speaks of nodes without
  upstreams. The sync loop reorganises by itself with default settings
  (`sync.go:98`). A bad peer is passed over by the sync loop (`cli.go:2669`) and gets
  no announcements (`broadcast.go:107`) until it introduces itself or another caller
  finds it. Honest peers become bad: each lost call costs 5 points, each fork that is
  not followed, each range that is too long 10, each announced block that does not fit
  the peer's tip 30. A node that is behind by more than `MaxSyncBlocks` never catches
  up by itself, because the range is refused as a whole and not cut
  (`sync.go:128-143`). `CatchesUp` therefore supposes that the peer stays out of that
  state and within that reach from some time on. Two nodes that follow each other need not end with one chain:
  equal work is a tie that each keeps.
- *Locks.* `minerSubmit` announces with the mutation mutex taken
  (`handlers.go:3195`) and `POST /mine` searches with the database locked
  (`handlers.go:3730`); both return, which is what `HandlersReturn` says.
- *Peers.* The maintenance saves a list that it loaded earlier, over a peer that was
  introduced since (`maintenance.go:168-183`), and two loops can overwrite each
  other's mark (`sync.go:380`): `races` runs without the maintenance. A seed that
  introduces itself loses its source and is pruned later (`server.go:471`).
  Candidates that do not answer are stored beyond `MaxPeers` (`discovery.go:87`).
  Bad and rejected peers are never tried again by the maintenance
  (`maintenance.go:117`), and a few failed rounds can make a peer bad:
  `OfflineIsRetried` speaks of a peer that answers while it is not.
- *Service nodes.* Overlapping requests overwrite each other's files: an answer can
  be given twice (`store.go:221`), a registration can get lost (`store.go:72`);
  `agent` and `clients` have one handler at a time. The sum of two byte counts
  wraps and escapes the flag for impossible bandwidth (`store.go:211`).
- *Explorer.* The RPC server of `node start` never runs the indexer
  (`cli.go:1773`), so `IndexConverges` is checked for the `rpc` command. Cursor and
  counts of the statistics are read in two openings (`handlers.go:282`). A chain of
  the genesis block alone is never reported as indexed (`explorer_indexer.go:301`).
- *Rate limiter.* A request that reads the clock and waits for the mutex across the
  end of a minute resets the bucket of the next one (`handlers.go:4835`): the limit
  is promised of one request at a time, and of overlapping ones in the first minute
  (`InOrder`).
- *Data directory.* A stopping node removes the lock file twice, the second time
  perhaps another node's (`cli.go:1668`, `1718`): `stopped` has one node. A command
  checks the lock and takes none, so a node that starts later runs beside it
  (`cli.go:2829`).
- *Faucet.* A payment is admitted before it is recorded, so a crash in between
  leaves it pending and unknown to the limits (`handlers.go:2881-2887`). When the
  record cannot be written the payment is taken back, but the error of that removal is
  dropped (`handlers.go:2888`): on a full disk the client gets an error and the payment
  may stay, to be confirmed later. The limits therefore leave out the payments whose
  request ended before its record (`unrecorded`), and `EscapesAreFew` says that each
  crash or failure leaves one at most. The stored time loses its fraction of a second (`faucet/state.go:57`), which is the
  tolerance of the interval.
- *Miners.* With all goroutines ended the select of `Mine` may take `done` and drop
  a block that was found (`miner.go:89`); a block whose answer is lost is not
  counted, so a miner can have more blocks taken than `--max-blocks`
  (`indominer/main.go:207`): `CountIsTrue` bounds them by the errors it saw.

### Bounds

- *Integer width* (`MaxUint` 4 to 8). Two or three coinbases to one address reach
  the limit, so every overflow branch is taken (`FailCoinbase`, `FailSettlement`,
  refused credits). `MaxWork` 300 in `pairs` saturates within a branch.
- *Heights* (`MaxHeight`). 5 blocks in `native` with `Maturity` and
  `UnbondingPeriod` 1: reward, maturity, lock, unlock, release and a spend of what
  was released fit. 2 blocks of up to 4 transactions in `tokens`: create, mint,
  transfer and burn fit in one, a reload lies in between. 5 blocks in `store` with
  `Maturity` 2, so that rewards are pending when a branch is replaced by one that
  paid in another order. 7 blocks in `times` with windows of 3: two retargets.
- *Addresses, nodes, workers.* Two addresses tell sender, recipient, payer and miner
  apart in pairs; no operation relates more than two accounts at once except a
  sponsored transfer, whose payer is then the recipient. Two workers or two nodes
  are enough for every race of a check with a write; three nodes in `crashes` and
  three workers in `requests` let a third pass between two.
- *Blocks* (`MaxTxCount`). 3 in `production`: up to two chosen transactions fit beside
  the coinbase, three do not and the block is abandoned.
- *Pools.* Limits of a few transactions, so that the pool fills and a pair of
  consecutive nonces fits.
- *Sync.* Two or three mined blocks of two difficulties give a longer and a heavier
  branch that differ; `MaxReorgDepth` 1 in `reorgs` lets the limit bite. In `behind`
  three blocks against `MaxSyncBlocks` 2 make a range too long, which is refused, and two
  faults turn a peer bad that may be forgiven. Elsewhere `MaxSyncBlocks` covers the chain.
- *Two branches that no instance takes.* In `ChainSync` the refusal of a block whose
  peer left its branch after it gave the headers (`ImportBlock`), and of a plan that
  no longer connects (`ApplyReorg`), are modelled because the code checks for them;
  the scenarios of `sync` never reach either, so the run says nothing about them.
- *Nonces.* Three threads and seven nonces: the last step of each thread ends at
  another distance from the largest nonce.
- *Faults.* One or two lost calls, crashes or errors in a behaviour; after them a
  liveness scenario is quiet, as every such property says.
- *Transactions* come from small sets of amounts and fees that include the
  boundary cases; fields that a kind does not read are fixed.
- Symmetry of addresses is used in `tokens` and `production`, of workers in
  `mempool`; none of them checks liveness or names a member.
- `HandlersReturn` and `RoundsEnd` name one goroutine or node of several that have
  the same program, the same fairness and the same initial state: every permutation
  of them maps behaviours to behaviours, so what holds of one holds of each.
- `MinersFinish` names the miner with `--max-blocks`, which has to come to its end
  beside the other one.
- Bounds of `requests`, `payments` and `racing` are small because `LimiterIsRight`,
  `FaucetKeepsItsPromises` and `MinersCountTruly` hold for every bound.
- Deadlock is checked in `native`, `tokens` and `store`. Elsewhere a bound on
  heights, time, requests or faults stops the system, and with the legacy writers
  a closed database that cannot be opened is the end of the story that
  `unrecoverable` tells. That handlers and goroutines do not stop each other is
  what `HandlersReturn`, `RoundsEnd` and `SearchEnds` say.

### Fairness

- `behind`, `follow`, `mutual` (`ChainSync`): the goroutines of the node that has to
  catch up and the handlers of both run, the ticker of its sync loop fires for ever, and
  a call is answered or times out (HTTP clients have timeouts). Announced blocks need
  not arrive, the peer need not synchronise, and no bad peer need be forgiven.
  Waiting for the mutex is weakly fair because Go's mutex hands over to a waiter
  that starves; the backfill, which waits for a database that the loop opens again
  and again, needs strong fairness, which the pause of the loop between rounds
  justifies. Mining, losses and crashes have no fairness.
- `waits` (`NodeLocks`), of the goroutines of the node whose handlers return: running, delivering and timing out are weakly fair,
  acquiring a lock strongly (mutexes hand over; bbolt polls the file lock while
  other holders sleep between their uses).
- `retry` (`PeerStore`): goroutines go on, the maintenance ticks, time passes. The peer
  comes and goes as it likes; what is promised is for behaviours in which it answers
  for ever from some time on, and is found for ever from some time on then.
- `busy` (`ExplorerIndex`): the loop ticks for ever and an open that is possible
  again and again succeeds in the end (bbolt polls the file lock without a timeout).
- `restarts` (`DataDirLock`) assumes a supervisor that starts the node again.
- `short` (`CPUMiner`): the scheduler runs every goroutine.
- `moving`, `racing` (`Indominer`): processes and monitor go on and the node handles
  what it received; `racing` assumes in addition that a search which is restarted
  again and again finds a nonce once (strong fairness of `Found`), the
  probabilistic promise of proof of work. Where the chain moves, nothing is said of
  how soon a search succeeds.

## 4. Proofs

`tlapm <module>.tla` for the modules whose names end in `Proofs`, and for
`Iteration`. `NodeMempoolProofs` takes about eleven minutes, `NodeProofs` seven, each of
the others two at most. The constants are arbitrary: any finite set of addresses, any
positive integer width, any maturity, unbonding period, minimum stake and subsidy,
any transactions, blocks, limits and number of workers.

### Assumptions

All are named and stand in the module that declares the constants.

- `Sums`, `Ledger`: the width is positive, the addresses are finitely many and the
  fee collector is none of them, the parameters are natural numbers, the subsidy
  fits the width.
- `BlockExecution`, `BlockProduction`: the transactions are transactions, the
  bounds are numbers.
- `ChainStore`: the candidate blocks are finitely many blocks of transactions; the
  values for "no tip", "no block" and "no state" are none of what they stand
  beside.
- `Mempool`: `TxOrder` lists the transactions of the instance once each in the
  order `SelectWithNonces` sorts by, a sender's by nonce; the limits are positive.
- `NodeMempool`: the chain a node starts with is valid, blocks and peers carry
  transactions of the instance, "nobody" is no worker. `Selection`: what is selected
  from are transactions of the instance.
- `ForkChoice`: the limits are numbers, the largest work, the least difficulty, the
  window and the block time positive, and the initial difficulty is within its
  bounds.
- `RateLimiter`, `DataDirLock`, `Faucet`, `ExplorerIndex`, `CPUMiner`, `Indominer`,
  `MiningJobs`: the bounds are numbers, a minute, a second and a day last a tick and a
  page an item at least, `None` is none of the values it stands beside, and no reader
  is the indexer. `CPUMiner` assumes that the
  number of threads is no larger than the largest nonce, so that no thread starts
  beyond the range (threads are counted by an `int`, nonces by a `uint64`). Their
  theorems carry the assumption as a hypothesis, because the modules are instances
  there; so do those of `ForkChoiceCheck`.

### Theorems

| Theorem | Module | States |
|---|---|---|
| `ApplyTransactionSound` | `LedgerProofs` | a transaction on a sound ledger gives a sound ledger of the same height and rewards, or fails and changes nothing |
| `ApplyTransactionTotals` | | it keeps everything covered, destroys no coin but a legacy fee, advances one nonce by one, moves no stake back |
| `InvariantHolds` | `BlockExecutionProofs` | the inductive invariant `IInv` |
| `TypeCorrect` | | `TypeOK`: no operation of the executor wraps |
| `MirrorHolds` | | `NativeMirror` |
| `FeesAlwaysSettled` | | `FeesSettled` |
| `FailuresAreAtomic` | | `FailureIsAtomic` |
| `ReloadsAreExact` | | `ReloadIsExact` |
| `NativeSupplyHolds` | | `NativeSupply` |
| `TokenSupplyHolds` | | `TokenSupply` |
| `FundsAlwaysCovered` | | `FundsAreCovered` |
| `AccountsStepOneByOne` | | `AccountStep` |
| `ApplyBlockGood` | `LedgerProofs` | a block that applies takes a good ledger to a good one of the next height, with the subsidy at most added |
| `ReplayGood` | | so does the replay of any chain, whatever its length |
| `IncrementalIsReplay` | | the snapshot computed from the stored one is the one that the replay of the longer chain gives |
| `StateMatchesChainHolds` | `ChainStoreProofs` | `StateMatchesChain` |
| `AlwaysOpenableHolds` | | `AlwaysOpenable` |
| `StoreImplementsCanonicalChain` | | `ImplementsCanonicalChain`, the refinement |
| `TrustedStateHolds` | | `TrustedStateIsExact`, with the legacy writers |
| `ValidBlocksAccepted` | | `ValidBlocksAreAccepted`, with the legacy writers |
| `PersistedFundsHold` | | what is on disk is covered, and its coin bounded by the subsidies |
| `PairTransaction` | `BlockProductionProofs` | what the work ledger executes, the candidate with the coinbase executes, unless the subsidy overflows a balance |
| `MinedBlockRight` | | `MinedBlockIsRight` |
| `MempoolInvariant` | `NodeMempoolProofs` | the inductive invariant of the handlers that share pool and chain |
| `PoolSound` | | `PoolIsSound` |
| `NothingLost` | | `NothingIsLost` |
| `SelectionsAreRight` | | `SelectionIsRight`, of pools of any length and order |
| `LimiterIsRight` | `NodeProofs` | `RateIsLimited` |
| `DirTypeCorrect` | | `TypeOK` of the data directory lock |
| `OneNodeHolds` | | `OneNode`, `RunningIsLocked` and `RefusesCommands`, where no command resets the directory and a node that is stopped in order has no other beside it |
| `FaucetKeepsItsPromises` | | `FaucetIsBounded`, for any number of failures |
| `IndexTellsTheTruth` | | `IndexIsTrue`, with any number of readers, chains and pages |
| `ForksAreChosenSoundly` | | `ForkChoiceIsSound`, of chains of any length and any difficulties |
| `DifficultyFollowsTime` | | `RetargetIsSound`, of any block times |
| `JobsAreTrue` | `MiningProofs` | `JobIsTrue` |
| `SearchReturnsRightly` | | `SearchIsRight` |
| `MinersCountTruly` | | `CountIsTrue` and `AskedIsMined`, with the types |

### How the proofs go

*Ledger.* `Sound` says that a ledger is well typed, has finitely many pending
rewards, mirrors every native balance and keeps assets under their caps. Each
operation takes a sound ledger to a sound one.

*Totals.* A total is the number of units that the holders have together
(`SumOf`), so the lemmas on finite sets say how it changes with one entry. From
them follows what each operation does to coin, tokens, stakes and rewards. `Backed`
collects what has to be covered, and `Executed` what a transaction does to it.

*Block execution.* A failing step makes the backup the ledger, so the backup has
to satisfy whatever the ledger does. `FailureIsAtomic` does not follow from the
code of the legacy transfer alone, which writes the accounts first; it follows
because the balances are mirrored, so that the checks on the account decide about
the asset state as well. `ReloadIsExact` needs that pending rewards carry distinct
heights up to that of the chain (`Dated`), which an open block exceeds by one. The
totals need the invariant `Conserved`, where the coin of the backup and what was
burned before the block add up to the subsidies of the heights below.

*Loops.* Blocks and chains are folds. `Iteration` shows what a loop gives for the
empty sequence and for one more element, and that what a turn keeps the loop
keeps. Its induction is by the least counterexample, with the theorem of the library
that the order of the natural numbers is well-founded; no operator has to be passed
to an induction theorem.

*Blocks.* `Good` is a ledger between two blocks: sound, backed, fees settled,
rewards dated. A good ledger reads back from its snapshot as itself, therefore
continuing from a snapshot and replaying from genesis agree.

*Store.* `StoreInv`: the blocks bucket is the column of prefixes of one valid
chain, and the state, if there is one, is the snapshot of a prefix. The height in
the snapshot tells which prefix, so a state that passes the check for the tip is
the state of the whole chain. Without the legacy writers the prefix is the chain
(`Exact`), and every step is a step of `CanonicalChain` or a stutter.

*Block production.* A simulation (`Pair`): after each chosen transaction the
candidate is the work ledger plus the subsidy of the miner, which has not matured.
The subsidy can turn a check of the work ledger down only where an addition
overflows. `MinedBlockIsRight` speaks of coin that leaves room for the subsidy,
and then every balance does, also after it received the fees.

*Mempool.* `TypeInv` says what each worker works on and which locks it holds, for
any mix of handlers. `PoolIsSound` and `NothingIsLost` speak of one source of
transactions, and each source has its invariant. With peers (`PeerInv`), whoever
admits has held the database since its checks, so the pool has only shrunk before
it adds; what a revalidation is about to save is what it would decide now, since
meanwhile only confirmed transactions leave; what is confirmed and pending has a
worker that will remove it. With clients (`ClientInv`), `txMu` excludes a second
admission, the nonce that was chosen is still free, and there is no gap between
the nonces the chain used and the pending ones. That last fact is needed because
`createPendingTransaction` counts: it adds the number of pending transactions of
the sender to the confirmed nonce, which is the next free nonce only if the
pending ones follow the confirmed one without a gap.

*Selection.* What is sorted by rank has the nonces of each sender in order, so the loop
over them leaves a run of nonces from the next one on, with the first transaction of
each nonce, and no longer run is possible (`IsRun`). `Drawing` relates the lists that
are left to what was drawn: they are the rest of these runs, so the head of a list has
the nonce that follows. Each turn draws a transaction unless none fits; what is drawn
is injective, because the nonces of a sender increase, so after one turn for each
pending transaction nothing is left that fits (`NothingLeft`), and more turns change
nothing. Neither the runs nor the end depend on the order of the file.

*Rate limiter.* The first request of a minute passes because a bucket that counts a
minute was opened by a request of that minute. The limit needs more: requests
are counted in the order in which they read the clock (`InOrder`), so that no bucket
goes back to a minute that was served before, and a bucket the sweep removed
belongs to a minute in which nobody is served again.

*Data directory.* `HolderInv`: a node that is up holds the lock file, and one that
removes it a second time removes its own or none. Both need that nobody else
removes the file (`KeepsOthers`), which is the exception listed above.

*Faucet.* Totals count units, as in the ledger, so the finite-set lemmas apply.
`SumsInv` relates all payments of an address in a day, pending and confirmed, to
the one number that the state file keeps, `DatesInv` their dates to the two that
it keeps, and both are stated of the payments that were recorded: the one whose
handler has still to record it was checked against the file, which nobody changes
meanwhile. What a failure leaves behind is one payment more in `unrecorded`, for one
fault more.

*Explorer.* `Sync` gives the index of the chain that it was given, whatever chain was
indexed before (`SyncIsRight`): indexing one more block of a chain whose transactions
are all different is the index of one more block (`OneMoreBlock`). An answer needs
more than that, because readiness is checked in one opening of `explorer.db` and the
answer read in the next, between which the indexer may commit a chain it read before
the request. `IndexInv`: the cursor comes no later than what the indexer has read, and
that no later than the canonical chain, by work; so when the cursor is found at the
tip, what is on its way is the tip as well, and everything the indexer reads from then
on was canonical during the request. For a walk, what has been put together is the
history up to the next offset, as long as the index stays.

*Fork choice.* The loops of the fork choice are recursive functions, read by the
lemmas of `Iteration`. Saturating work grows with every block until it is the
largest uint64 and stays there (`WorkGrows`). Between two heights of a locator lie
no more blocks than above the higher one (`HeightsAreDense`), because the distance
from the tip doubles; the ancestor is the first height at or below the fork, so it
is as near as that. A branch that is fetched from a shared block on completes the
local prefix to the chain of the peer, so both sides of a fork compare the same two
numbers, though they start from different ancestors (`DecisionIsByWork`).

*Difficulty.* `HistoryInv`: the difficulties of a history are within their bounds,
so a change by one that is clamped is a change by one in the same direction or
none.

*Miners.* For `CPUMiner`, `LanesInv`: a thread has tried exactly the nonces of its
residue below its own, so two threads never meet and a thread at the end of the
range has left none out. For `Indominer`, each block is charged to the miner from
the moment that the miner can no longer learn of it: the blocks taken and those
that may still be taken are at most the accepted ones, the errors, and the answer
that is on its way (`FlowOK`). For `MiningJobs`, a running job has one handler, and
what it has left is what the job lacks.

### What is only model-checked

- Liveness under fairness, and everything with `ENABLED`: the prover has neither.
- `TemplateIsAccepted` and `PendingIsExecutable`: they hold where balances stay
  clear of the integer limit, as in their run, and not for every constant. A reward
  that fills a balance can turn down the coinbase of a template, or a transfer to
  its owner that is pending; and where submissions and transactions of peers meet,
  two of them can pass `Admit` before either is added, so that a template exceeds
  the gas of a block.
- The properties of sync, locks, peers and service nodes.


## 5. Not modelled

- Hashes, signatures, encodings, addresses, authenticated requests and their
  replay cache: assumed to verify and not to collide.
- Size and time limits of a block, and the growth of the minimum fee with the size
  of a transaction (`MinFee` is constant, gas is one unit or none).
- Networks below transaction version 3: no profile of `config.go` is one.
- The secondary indexes of the state buckets.
- Handlers and commands that only read and format; parsing, printing and the
  tables of the configuration. They are most of `cli.go` and `handlers.go`.
- The limit of peers per IP address; names and services of peers.
- Collateral of service nodes and the formula of their points.
- The crash between the commit of a reorganisation and the save of the mempool is a
  step of `mempool`, but nothing promises that the orphans survive it, so no
  property says so.
- Wallet files, and the mobile and web applications: they hold no state of the
  protocol.

## 6. Plan

1. Done: ledger, block execution and production, chain store with its abstract
   specification, first theorems.
2. Done: mempool with its handlers, fork choice, synchronisation, locks, peers,
   service nodes, explorer index, rate limiter, data directory lock, faucet, miners.
3. Done: proofs about totals, blocks, the store with its refinement, block
   production and the mempool.
4. Done: proofs about the small modules: `OneNode` of `DataDirLock`, `JobIsTrue` of
   `MiningJobs`, `SearchIsRight` of `CPUMiner`, `CountIsTrue` of `Indominer`,
   `FaucetIsBounded` of `Faucet`, `RateIsLimited` of `RateLimiter`, `IndexIsTrue` of
   `ExplorerIndex`.
5. Done: proofs about operators. The two sides of a fork agree
   (`ForkChoiceIsSound`), difficulty follows time (`RetargetIsSound`), and what
   `SelectWithNonces` returns is right (`SelectionIsRight`).
