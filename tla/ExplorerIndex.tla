-------------------------- MODULE ExplorerIndex --------------------------
(***************************************************************************)
(* The explorer's read model: a database of its own that one background    *)
(* loop of the RPC server brings up to the canonical chain, and the        *)
(* indexed read endpoints.  A block is the chain that ends with it, so two *)
(* blocks are equal when their hashes are.  Both databases are bolt files: *)
(* whoever has one open holds its file lock; the chain store is opened and *)
(* closed within one step, explorer.db is held across several (holder).    *)
(***************************************************************************)
EXTENDS Integers, Sequences, FiniteSets, FiniteSetsExt, SequencesExt

CONSTANTS
    Reader, None,
    ServedBy,       \* the command that serves RPC: "rpc", or "node start"
    MaxTx,          \* transactions are 1..MaxTx, ordered like their identifiers
    MaxChainWork,   \* bound: the work of a chain
    MaxFaults,      \* bound: disk errors of the indexer and crashes
    Queries,        \* what is requested in a run
    PageSize

\* What is assumed of the parameters.
ExplorerAssumption ==
    /\ {MaxTx, MaxChainWork, MaxFaults} \subseteq Nat
    /\ PageSize \in Nat \ {0}
    /\ ServedBy \in {"rpc", "node start"}
    /\ Queries \subseteq {"status", "stats", "block", "tx", "events"}
    /\ "indexer" \notin Reader /\ None \notin Reader \cup Int \cup {"indexer"}

Tx == 1..MaxTx
\* Block work, so far apart that a shorter branch can be heavier.
Body == [txs : SUBSET Tx, work : {1, 3}]

Work(chain) ==
    LET sum[h \in 0..Len(chain)] == IF h = 0 THEN 0 ELSE sum[h - 1] + chain[h].work
    IN  sum[Len(chain)]
Unique(chain) == \A i, j \in DOMAIN chain : i # j => chain[i].txs \cap chain[j].txs = {}
Chain == {c \in BoundedSeq(Body, MaxChainWork) : Work(c) <= MaxChainWork /\ Unique(c)}

\* The block at a height of a chain; the genesis block is at height 0.
Block(chain, h) == SubSeq(chain, 1, h)

VARIABLES
    chain,      \* the canonical chain above the genesis block
    index,      \* explorer.db: the cursor, and the block, transaction and event buckets
    holder,     \* who has explorer.db open
    indexer,    \* where the loop is, and the blocks it has read
    reader,     \* the request of each reader
    seen,       \* the chains that were canonical during the request
    walk,       \* the pages a reader has put together, and whether the index is still the same
    faults

vars == <<chain, index, holder, indexer, reader, seen, walk, faults>>
---------------------------------------------------------------------------
(***************************************************************************)
(* The index.  No block was ever indexed when the cursor is <<>>: the      *)
(* genesis block is never indexed.                                         *)
(***************************************************************************)
Cleared == [cursor |-> <<>>, blocks |-> <<>>, txs |-> [t \in Tx |-> None], events |-> {}]

IndexBlock(ix, block) ==
    LET h == Len(block)
        txs == block[h].txs
    IN  [cursor |-> block,
         blocks |-> [i \in 1..(IF Len(ix.blocks) > h THEN Len(ix.blocks) ELSE h) |->
                        IF i = h THEN block ELSE ix.blocks[i]],
         txs |-> [t \in Tx |-> IF t \in txs THEN block ELSE ix.txs[t]],
         events |-> ix.events \cup {[height |-> h, tx |-> t, block |-> block] : t \in txs}]

\* Mutated form: a cursor beyond the tip is taken for an index that is up to date.
StaleBelowTip(cursor, blocks) ==
    Len(cursor) <= Len(blocks) /\ Block(blocks, Len(cursor)) # cursor

\* The cursor's block is not on the chain, or is above its tip.
Stale(cursor, blocks) ==
    \/ Len(cursor) > Len(blocks)
    \/ cursor # <<>> /\ Block(blocks, Len(cursor)) # cursor

\* Mutated form: a rebuild writes over the old entries.
SyncOver(ix, blocks) ==
    LET first == IF Stale(ix.cursor, blocks) THEN 1 ELSE Len(ix.cursor) + 1
    IN  FoldLeftDomain(LAMBDA acc, h : IF h < first THEN acc ELSE IndexBlock(acc, Block(blocks, h)), ix, blocks)

\* One transaction: clear when the index is rebuilt, then index what lies above
\* the cursor.
Sync(ix, blocks) ==
    LET old == IF Stale(ix.cursor, blocks) \/ ix.cursor = <<>> THEN Cleared ELSE ix
        at[h \in 0..Len(blocks)] ==
            IF h <= Len(old.cursor) THEN old ELSE IndexBlock(at[h - 1], Block(blocks, h))
    IN  at[Len(blocks)]

\* Newest first, then by identifier.
Precedes(a, b) == a.height > b.height \/ (a.height = b.height /\ a.tx > b.tx)
History(events) ==
    [i \in 1..Cardinality(events) |->
        CHOOSE e \in events : Cardinality({before \in events : Precedes(before, e)}) = i - 1]

Page(events, offset) ==
    LET all == History(events)
        from == IF offset > Len(all) THEN Len(all) ELSE offset
        end == IF from + PageSize > Len(all) THEN Len(all) ELSE from + PageSize
    IN  [items |-> SubSeq(all, from + 1, end), total |-> Len(all)]

\* Mutated form: the next page begins one item too far.
NextOffsetPast(page, offset) ==
    IF offset + Len(page.items) < page.total THEN offset + PageSize + 1 ELSE None

NextOffset(page, offset) ==
    IF offset + Len(page.items) < page.total THEN offset + PageSize ELSE None

\* Mutated form: the heights agree.
ReadyByHeight(cursor, tip) == cursor # <<>> /\ Len(cursor) = Len(tip)

Ready(cursor, tip) == cursor # <<>> /\ cursor = tip

Lookup(ix, request) ==
    CASE request.query = "tx"     -> ix.txs[request.key]
      [] request.query = "block"  -> IF request.key \in DOMAIN ix.blocks THEN ix.blocks[request.key] ELSE None
      [] request.query = "events" -> Page(ix.events, request.key)
      [] request.query = "stats"  -> Len(ix.blocks)
      [] OTHER -> None
---------------------------------------------------------------------------
Idle == [at |-> "idle", query |-> None, key |-> None, cursor |-> <<>>, tip |-> <<>>, refused |-> FALSE, answer |-> None]
NoWalk == [items |-> <<>>, steady |-> FALSE]

Init ==
    /\ chain = <<>>
    /\ index = Cleared
    /\ holder = None
    /\ indexer = [at |-> "wait", blocks |-> <<>>]
    /\ reader = [r \in Reader |-> Idle]
    /\ seen = [r \in Reader |-> {}]
    /\ walk = [r \in Reader |-> NoWalk]
    /\ faults = 0

\* The canonical chain gains a block, or is replaced by a heavier branch that
\* leaves it at some height and may be shorter.
ChainMoves ==
    /\ Work(chain) < MaxChainWork
    /\ \E c \in Chain :
          /\ Work(c) > Work(chain)
          /\ \/ Len(c) = Len(chain) + 1 /\ Block(c, Len(chain)) = chain
             \/ Len(chain) > 0 /\ ~ IsPrefix(chain, c)
          /\ chain' = c
          /\ seen' = [r \in Reader |-> IF reader[r].at \in {"idle", "done"} THEN seen[r] ELSE seen[r] \cup {c}]
    /\ UNCHANGED <<index, holder, indexer, reader, walk, faults>>
---------------------------------------------------------------------------
(***************************************************************************)
(* The loop: run, sync, recordSyncFailure.                                 *)
(***************************************************************************)
IndexerAt(place) == indexer' = [indexer EXCEPT !.at = place]

\* Only ListenAndServeWithInfo starts the loop: the rpc command calls it, node
\* start builds its server with NewHTTPServer.
SyncRead ==
    /\ indexer.at = "wait" /\ ServedBy = "rpc"
    /\ indexer' = [at |-> "open", blocks |-> chain]
    /\ UNCHANGED <<chain, index, holder, reader, seen, walk, faults>>

SyncOpen ==
    /\ indexer.at = "open" /\ holder = None
    /\ holder' = "indexer"
    /\ IndexerAt("commit")
    /\ UNCHANGED <<chain, index, reader, seen, walk, faults>>

SyncCommit ==
    /\ indexer.at = "commit"
    /\ index' = Sync(index, indexer.blocks)
    /\ walk' = [r \in Reader |-> IF index' = index THEN walk[r] ELSE NoWalk]
    /\ IndexerAt("metrics")
    /\ UNCHANGED <<chain, holder, reader, seen, faults>>

\* The transaction that stores the metrics, and the status the loop discards.
SyncStatus ==
    /\ indexer.at = "metrics"
    /\ holder' = None
    /\ indexer' = [at |-> "wait", blocks |-> <<>>]
    /\ UNCHANGED <<chain, index, reader, seen, walk, faults>>

\* An error of either transaction: nothing of it is kept and the error is
\* recorded with a transaction of its own.
SyncError ==
    /\ indexer.at \in {"commit", "metrics"} /\ faults < MaxFaults
    /\ faults' = faults + 1
    /\ holder' = None
    /\ indexer' = [at |-> "failed", blocks |-> <<>>]
    /\ UNCHANGED <<chain, index, reader, seen, walk>>

RecordSyncFailure ==
    /\ indexer.at = "failed" /\ holder = None
    /\ IndexerAt("wait")
    /\ UNCHANGED <<chain, index, holder, reader, seen, walk, faults>>
---------------------------------------------------------------------------
(***************************************************************************)
(* The endpoints: the status, which reads the cursor and then the tip of   *)
(* the chain with explorer.db open, and then the read, which opens it      *)
(* again.                                                                  *)
(***************************************************************************)
Keys(query) ==
    CASE query = "tx" -> Tx [] query = "block" -> 0..MaxChainWork [] query = "events" -> {0} [] OTHER -> {None}

Request(r) ==
    /\ reader[r].at = "idle"
    /\ \E q \in Queries : \E k \in Keys(q) :
          reader' = [reader EXCEPT ![r] = [Idle EXCEPT !.at = "status", !.query = q, !.key = k]]
    /\ seen' = [seen EXCEPT ![r] = {chain}]
    /\ walk' = [walk EXCEPT ![r].steady = TRUE]
    /\ UNCHANGED <<chain, index, holder, indexer, faults>>

StatusCursor(r) ==
    /\ reader[r].at = "status" /\ holder = None
    /\ holder' = r
    /\ reader' = [reader EXCEPT ![r].at = "tip", ![r].cursor = index.cursor]
    /\ UNCHANGED <<chain, index, indexer, seen, walk, faults>>

StatusTip(r) ==
    /\ reader[r].at = "tip"
    /\ holder' = None
    /\ LET ready == Ready(reader[r].cursor, chain)
           ends == reader[r].query = "status" \/ (reader[r].query # "stats" /\ ~ready)
       IN  reader' = [reader EXCEPT ![r].tip = chain,
                                    ![r].at = IF ends THEN "done" ELSE "read",
                                    ![r].refused = ~ready]
    /\ UNCHANGED <<chain, index, indexer, seen, walk, faults>>

Read(r) ==
    /\ reader[r].at = "read" /\ holder = None
    /\ LET answer == Lookup(index, reader[r])
       IN  /\ reader' = [reader EXCEPT ![r].at = "done", ![r].answer = answer]
           /\ walk' = IF reader[r].query # "events" THEN walk
                      ELSE [walk EXCEPT ![r].items = @ \o answer.items]
    /\ UNCHANGED <<chain, index, holder, indexer, seen, faults>>

\* The client takes the answer, and asks for the next page when there is one.
Follow(r) ==
    /\ reader[r].at = "done" /\ reader[r].query = "events" /\ ~reader[r].refused
    /\ LET next == NextOffset(reader[r].answer, reader[r].key)
       IN  /\ next # None
           /\ reader' = [reader EXCEPT ![r] = [Idle EXCEPT !.at = "status", !.query = "events", !.key = next]]
    /\ seen' = [seen EXCEPT ![r] = {chain}]
    /\ UNCHANGED <<chain, index, holder, indexer, walk, faults>>

Leave(r) ==
    /\ reader[r].at = "done"
    /\ reader' = [reader EXCEPT ![r] = Idle]
    /\ seen' = [seen EXCEPT ![r] = {}]
    /\ walk' = [walk EXCEPT ![r] = NoWalk]
    /\ UNCHANGED <<chain, index, holder, indexer, faults>>

\* The node dies and starts again.
Crash ==
    /\ faults < MaxFaults
    /\ faults' = faults + 1
    /\ holder' = None
    /\ indexer' = [at |-> "wait", blocks |-> <<>>]
    /\ reader' = [r \in Reader |-> Idle]
    /\ seen' = [r \in Reader |-> {}]
    /\ walk' = [r \in Reader |-> NoWalk]
    /\ UNCHANGED <<chain, index>>

Loop == SyncRead \/ SyncOpen \/ SyncCommit \/ SyncStatus \/ RecordSyncFailure

Serve(r) == StatusCursor(r) \/ StatusTip(r) \/ Read(r)

Next ==
    \/ ChainMoves \/ SyncError \/ Crash
    \/ SyncRead \/ SyncOpen \/ SyncCommit \/ SyncStatus \/ RecordSyncFailure
    \/ \E r \in Reader : Request(r) \/ StatusCursor(r) \/ StatusTip(r) \/ Read(r) \/ Follow(r) \/ Leave(r)

Spec == Init /\ [][Next]_vars

\* The loop ticks forever, a handler that has the file goes on and closes it,
\* and an open of a file that is free again and again succeeds in the end.
FairSpec ==
    /\ Spec
    /\ SF_vars(Loop)
    /\ \A r \in Reader : SF_vars(Serve(r))
---------------------------------------------------------------------------
\* Every variable has its type and explorer.db is open exactly while a step of
\* sync or of a status needs it.
TypeOK ==
    /\ chain \in Chain /\ faults \in 0..MaxFaults
    /\ index.cursor \in Chain /\ Len(index.blocks) <= MaxChainWork
    /\ indexer.at \in {"wait", "open", "commit", "metrics", "failed"} /\ indexer.blocks \in Chain
    /\ \A r \in Reader : reader[r].at \in {"idle", "status", "tip", "read", "done"}
    /\ holder = "indexer" <=> indexer.at \in {"commit", "metrics"}
    /\ \A r \in Reader : holder = r <=> reader[r].at = "tip"

\* What an index of a chain holds, stated without the steps that build it.
IndexOf(c) ==
    [cursor |-> c,
     blocks |-> [h \in 1..Len(c) |-> Block(c, h)],
     txs |-> [t \in Tx |->
                IF \E h \in DOMAIN c : t \in c[h].txs
                THEN Block(c, CHOOSE h \in DOMAIN c : t \in c[h].txs) ELSE None],
     events |-> UNION {{[height |-> h, tx |-> t, block |-> Block(c, h)] : t \in c[h].txs} : h \in DOMAIN c}]

\* The index is the index of one chain, whatever reorganisations, errors and
\* crashes have interrupted sync: no entry of an abandoned branch survives.
IndexIsOfOneChain == index = IndexOf(index.cursor)

\* A lookup that is answered, found or not found, is answered from a chain that
\* was canonical at some moment of the request, although readiness is checked in
\* one opening of explorer.db and the answer is read in the next.
AnswerWasCanonical ==
    \A r \in Reader :
        reader[r].at = "done" /\ reader[r].query \in {"tx", "block", "events"} /\ ~reader[r].refused =>
            \E c \in seen[r] : reader[r].answer = Lookup(IndexOf(c), reader[r])

\* A client that follows next_offset until there is none has read every entry of
\* the history once, unless the index changed on the way.
WalkIsComplete ==
    \A r \in Reader :
        /\ reader[r].at = "done" /\ reader[r].query = "events" /\ ~reader[r].refused
        /\ NextOffset(reader[r].answer, reader[r].key) = None
        /\ walk[r].steady
        => walk[r].items = History(index.events)

\* All of it.
IndexIsTrue == TypeOK /\ IndexIsOfOneChain /\ AnswerWasCanonical /\ WalkIsComplete

\* The index is that of the canonical chain.
Converged == index = IndexOf(chain)
===========================================================================
