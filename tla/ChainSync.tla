---------------------------- MODULE ChainSync -----------------------------
(***************************************************************************)
(* Nodes that mine, announce blocks, synchronise and reorganise over the   *)
(* P2P API.  Three goroutines of a node touch its chain:                   *)
(*                                                                         *)
(*   server    receiveBlock and the commit of a mined block;               *)
(*   sync      the sync loop, one peer at a time;                          *)
(*   backfill  what the loop or an RPC handler starts for its upstreams.   *)
(*                                                                         *)
(* mu is the mutation mutex of a node and db the lock of its database      *)
(* file, held from open to close, across remote calls too.  A peer answers *)
(* handshake and status from a cached status and everything else from its  *)
(* database.  A step is a remote call, or what happens while the database  *)
(* is open and no call is made.                                            *)
(***************************************************************************)
EXTENDS ForkChoice

CONSTANTS
    Node, None,
    Syncers,        \* nodes that know the others as peers
    Upstreams,      \* nodes with every other node as upstream
    Crashing,       \* nodes that may crash
    MaxSyncBlocks,  \* blocks one synchronisation imports, and headers of a batch
    Difficulties,   \* difficulties of mined blocks
    MaxBlocks,      \* bound on the blocks mined
    MaxFaults       \* bound on lost calls and crashes

SyncAssumption ==
    /\ ForkChoiceAssumption
    /\ None \notin Node
    /\ Syncers \subseteq Node /\ Upstreams \subseteq Node /\ Crashing \subseteq Node
    /\ Difficulties \subseteq Nat
    /\ {MaxSyncBlocks, MaxBlocks, MaxFaults} \subseteq Nat

Role == {"server", "sync", "backfill"}

VARIABLES
    chain,      \* the canonical chain of each node
    status,     \* the chain that its cached status describes
    mu, db,     \* the goroutine that holds each lock
    at,         \* where each goroutine is
    job,        \* the peer it talks to and what it knows
    inbox,      \* announced blocks on their way
    bad,        \* the pairs of a node and a peer with the status bad in its peers file
    mined, faults

vars == <<chain, status, mu, db, at, job, inbox, bad, mined, faults>>
budget == <<mined, faults>>

NoJob == [peer |-> None, status |-> <<>>, local |-> <<>>, ancestor |-> 0, blocks |-> <<>>, preview |-> TRUE]

Init ==
    /\ chain = [n \in Node |-> <<>>] /\ status = chain
    /\ mu = [n \in Node |-> None] /\ db = mu
    /\ at = [n \in Node |-> [r \in Role |-> "idle"]]
    /\ job = [n \in Node |-> [r \in Role |-> NoJob]]
    /\ inbox = {} /\ bad = {}
    /\ mined = 0 /\ faults = 0

Work(c) == CalculateCumulativeWork(c)
Free(lock, n) == lock[n] = None
Released(lock, n, r) == IF lock[n] = r THEN [lock EXCEPT ![n] = None] ELSE lock
Goto(n, r, place) == at' = [at EXCEPT ![n][r] = place]
Learn(n, r, j) == job' = [job EXCEPT ![n][r] = j]

\* A goroutine returns: both locks are released.
Return(n, r) ==
    /\ Goto(n, r, "idle")
    /\ Learn(n, r, NoJob)
    /\ mu' = Released(mu, n, r) /\ db' = Released(db, n, r)

\* A failure lowers the score of the peer, by 5 for a lost call up to 30 for a block
\* that does not fit.  Other goroutines move the score as well (PeerStore), so a
\* failure may make the peer bad or not.
Blame(n, q) == bad' \in {bad, bad \cup {<<n, q>>}}

\* A goroutine returns with an error, which SyncFromPeer notes and the rest of a
\* backfill does not.
Fail(n, r) ==
    /\ Return(n, r)
    /\ IF at[n][r] \in {"compare", "ancestor", "push"} THEN UNCHANGED bad ELSE Blame(n, job[n][r].peer)

\* Mutated form: the status is not refreshed.
SucceedQuietly(n, r) == Return(n, r)

\* The synchronisation of the loop refreshes the cached status before it
\* returns, that of a backfill does not.
Succeed(n, r) ==
    IF r = "sync"
    THEN Goto(n, r, "refresh") /\ Learn(n, r, NoJob) /\ db' = Released(db, n, r) /\ UNCHANGED mu
    ELSE Return(n, r)
---------------------------------------------------------------------------
\* Blocks that are mined here or arrive from a peer.

\* An RPC handler commits a mined block under the mutex and announces it to the
\* peers that are not bad.
CommitMinedBlock(n) ==
    /\ at[n]["server"] = "idle"
    /\ Free(mu, n) /\ Free(db, n)
    /\ mined < MaxBlocks
    /\ \E d \in Difficulties :
        LET c == Append(chain[n], [by |-> n, difficulty |-> d])
        IN  /\ chain' = [chain EXCEPT ![n] = c]
            /\ inbox' = inbox \cup [to : {q \in Node \ {n} : <<n, q>> \notin bad}, block : {c}]
    /\ mu' = [mu EXCEPT ![n] = "server"]
    /\ Goto(n, "server", "mined")
    /\ mined' = mined + 1
    /\ UNCHANGED <<status, db, job, bad, faults>>

Announcer(message) == message.block[Len(message.block)].by

\* receiveBlock: a block that extends the tip is added, any other is refused, which
\* the node that mined and announced it holds against this one.
ReceiveBlock(n, message) ==
    /\ message.to = n
    /\ at[n]["server"] = "idle"
    /\ Free(mu, n) /\ Free(db, n)
    /\ inbox' = inbox \ {message}
    /\ IF Linked(chain[n], <<message.block>>)
       THEN /\ chain' = [chain EXCEPT ![n] = message.block]
            /\ mu' = [mu EXCEPT ![n] = "server"]
            /\ Goto(n, "server", "refresh")
            /\ UNCHANGED bad
       ELSE UNCHANGED <<chain, mu, at>> /\ Blame(Announcer(message), n)
    /\ UNCHANGED <<status, db, job, budget>>

\* Refresh of the cached status, the last thing done under the mutex.  A mined
\* block and a synchronisation start a backfill: the RPC handler's one waits
\* for the mutex, the loop's one does not.
RefreshState(n, r) ==
    /\ at[n][r] \in {"refresh", "mined"}
    /\ Free(db, n)
    /\ status' = [status EXCEPT ![n] = chain[n]]
    /\ mu' = Released(mu, n, r)
    /\ \/ /\ n \in Upstreams /\ at[n]["backfill"] = "idle"
          /\ at[n][r] = "mined" \/ r = "sync"
          /\ at' = [at EXCEPT ![n][r] = "idle", ![n]["backfill"] = IF r = "sync" THEN "compare" ELSE "wait"]
          /\ \E q \in Node \ {n} : Learn(n, "backfill", [NoJob EXCEPT !.peer = q])
       \/ /\ ~(n \in Upstreams /\ at[n]["backfill"] = "idle" /\ (at[n][r] = "mined" \/ r = "sync"))
          /\ Goto(n, r, "idle")
          /\ UNCHANGED job
    /\ UNCHANGED <<chain, db, inbox, bad, budget>>
---------------------------------------------------------------------------
\* SyncFromPeer.

\* Mutated form: the loop does not take the mutex.
SyncLoopUnlocked(n) ==
    /\ n \in Syncers
    /\ at[n]["sync"] = "idle"
    /\ \E q \in Node \ {n} : <<n, q>> \notin bad /\ Learn(n, "sync", [NoJob EXCEPT !.peer = q])
    /\ Goto(n, "sync", "open")
    /\ UNCHANGED <<chain, status, mu, db, inbox, bad, budget>>

\* One round of the sync loop for one peer; bad peers are passed over.
SyncLoop(n) ==
    /\ n \in Syncers
    /\ at[n]["sync"] = "idle"
    /\ Free(mu, n)
    /\ mu' = [mu EXCEPT ![n] = "sync"]
    /\ \E q \in Node \ {n} : <<n, q>> \notin bad /\ Learn(n, "sync", [NoJob EXCEPT !.peer = q])
    /\ Goto(n, "sync", "open")
    /\ UNCHANGED <<chain, status, db, inbox, bad, budget>>

\* After the handshake the database is opened and stays open.
OpenChain(n, r) ==
    /\ at[n][r] = "open"
    /\ Free(db, n)
    /\ db' = [db EXCEPT ![n] = r]
    /\ Learn(n, r, [job[n][r] EXCEPT !.local = chain[n]])
    /\ Goto(n, r, "status")
    /\ UNCHANGED <<chain, status, mu, inbox, bad, budget>>

\* The database is closed and a reorganisation is planned, twice: once to see
\* whether it is allowed, once to apply it.
Diverged(n, r) ==
    /\ Goto(n, r, "plan")
    /\ db' = Released(db, n, r)
    /\ UNCHANGED mu

\* Mutated form: a peer that is not higher is taken for one that is level.
AskStatusByHeight(n, r) ==
    LET peer == status[job[n][r].peer]
        local == job[n][r].local
    IN  /\ at[n][r] = "status"
        /\ IF Len(peer) <= Len(local) THEN Succeed(n, r)
           ELSE /\ Learn(n, r, [job[n][r] EXCEPT !.status = peer])
                /\ Goto(n, r, "headers")
                /\ UNCHANGED <<mu, db>>
        /\ UNCHANGED <<chain, status, inbox, bad, budget>>

\* The announced status decides between nothing to do, a fork, a range that is
\* too long and a download.
AskStatus(n, r) ==
    LET peer == status[job[n][r].peer]
        local == job[n][r].local
    IN  /\ at[n][r] = "status"
        /\ \/ /\ Len(peer) <= Len(local) /\ IsOn(peer, local)
              /\ Succeed(n, r)
              /\ UNCHANGED bad
           \/ /\ Len(peer) <= Len(local) /\ ~IsOn(peer, local)
              /\ Diverged(n, r)
              /\ UNCHANGED <<job, bad>>
           \/ /\ Len(peer) > Len(local) + MaxSyncBlocks
              /\ Fail(n, r)
           \/ /\ Len(peer) \in (Len(local) + 1)..(Len(local) + MaxSyncBlocks)
              /\ Learn(n, r, [job[n][r] EXCEPT !.status = peer])
              /\ Goto(n, r, "headers")
              /\ UNCHANGED <<mu, db, bad>>
        /\ UNCHANGED <<chain, status, inbox, budget>>

\* The headers above the local tip up to the announced height.
FetchHeaders(n, r) ==
    LET j == job[n][r]
        peer == chain[j.peer]
    IN  /\ at[n][r] = "headers"
        /\ Free(db, j.peer)
        /\ \/ /\ Len(peer) < Len(j.status)
              /\ Fail(n, r)
           \/ /\ Len(peer) >= Len(j.status) /\ ~IsOn(j.local, peer)
              /\ Diverged(n, r)
              /\ UNCHANGED <<job, bad>>
           \/ /\ Len(peer) >= Len(j.status) /\ IsOn(j.local, peer)
              /\ Goto(n, r, "blocks")
              /\ UNCHANGED <<job, mu, db, bad>>
        /\ UNCHANGED <<chain, status, inbox, budget>>

\* One block of the batch is fetched and added; the peer may have switched to
\* another branch since it gave the headers.  Blocks already added stay.
ImportBlock(n, r) ==
    LET j == job[n][r]
        height == Len(chain[n]) + 1
        block == BlockAt(chain[j.peer], height)
    IN  /\ at[n][r] = "blocks"
        /\ Free(db, j.peer)
        /\ \/ /\ ~(Len(chain[j.peer]) >= height /\ Linked(chain[n], <<block>>))
              /\ Fail(n, r)
              /\ UNCHANGED chain
           \/ /\ Len(chain[j.peer]) >= height /\ Linked(chain[n], <<block>>)
              /\ chain' = [chain EXCEPT ![n] = block]
              /\ IF height = Len(j.status) THEN Succeed(n, r) ELSE UNCHANGED <<at, job, mu, db>>
              /\ UNCHANGED bad
        /\ UNCHANGED <<status, inbox, budget>>
---------------------------------------------------------------------------
\* BuildReorgPlan and ApplyReorg.

PlanStatus(n, r) ==
    /\ at[n][r] = "plan"
    /\ Learn(n, r, [job[n][r] EXCEPT !.status = status[job[n][r].peer]])
    /\ Goto(n, r, "plan_open")
    /\ UNCHANGED <<chain, status, mu, db, inbox, bad, budget>>

PlanOpen(n, r) ==
    /\ at[n][r] = "plan_open"
    /\ Free(db, n)
    /\ db' = [db EXCEPT ![n] = r]
    /\ Learn(n, r, [job[n][r] EXCEPT !.local = chain[n]])
    /\ Goto(n, r, "locator")
    /\ UNCHANGED <<chain, status, mu, inbox, bad, budget>>

PlanLocator(n, r) ==
    LET j == job[n][r]
        ancestor == FindCommonAncestor(j.local, BuildBlockLocator(chain[j.peer]))
    IN  /\ at[n][r] = "locator"
        /\ Free(db, j.peer)
        /\ \/ /\ DecideRange(j.local, ancestor, Len(j.status)) # "fetch"
              /\ Fail(n, r)
           \/ /\ DecideRange(j.local, ancestor, Len(j.status)) = "fetch"
              /\ Learn(n, r, [j EXCEPT !.ancestor = ancestor, !.blocks = <<>>])
              /\ Goto(n, r, "fetch")
              /\ UNCHANGED <<mu, db, bad>>
        /\ UNCHANGED <<chain, status, inbox, budget>>

PlanFetch(n, r) ==
    LET j == job[n][r]
        height == j.ancestor + Len(j.blocks) + 1
    IN  /\ at[n][r] = "fetch"
        /\ height <= Len(j.status)
        /\ Free(db, j.peer)
        /\ IF Len(chain[j.peer]) < height THEN Fail(n, r)
           ELSE /\ Learn(n, r, [j EXCEPT !.blocks = Append(@, BlockAt(chain[j.peer], height))])
                /\ UNCHANGED <<at, mu, db, bad>>
        /\ UNCHANGED <<chain, status, inbox, budget>>

PlanDecide(n, r) ==
    LET j == job[n][r]
    IN  /\ at[n][r] = "fetch"
        /\ j.ancestor + Len(j.blocks) = Len(j.status)
        /\ IF Decide(j.local, j.ancestor, j.blocks) = "reorg_apply_higher_work"
           THEN /\ Learn(n, r, [j EXCEPT !.preview = FALSE])
                /\ Goto(n, r, IF j.preview THEN "plan" ELSE "apply")
                /\ db' = Released(db, n, r)
                /\ UNCHANGED <<mu, bad>>
           ELSE Fail(n, r)
        /\ UNCHANGED <<chain, status, inbox, budget>>

\* The database is opened again and the branch replaces what lies above the
\* ancestor; it has to connect to what is stored there now.
ApplyReorg(n, r) ==
    LET j == job[n][r]
    IN  /\ at[n][r] = "apply"
        /\ Free(db, n)
        /\ IF Len(chain[n]) >= j.ancestor /\ Linked(BlockAt(chain[n], j.ancestor), j.blocks)
           THEN chain' = [chain EXCEPT ![n] = WithBranch(BlockAt(chain[n], j.ancestor), j.blocks)] /\ Succeed(n, r)
                /\ UNCHANGED bad
           ELSE Fail(n, r) /\ UNCHANGED chain
        /\ UNCHANGED <<status, inbox, budget>>
---------------------------------------------------------------------------
\* BackfillToPeer.

BackfillLock(n) ==
    /\ at[n]["backfill"] = "wait"
    /\ Free(mu, n)
    /\ mu' = [mu EXCEPT ![n] = "backfill"]
    /\ Goto(n, "backfill", "compare")
    /\ UNCHANGED <<chain, status, db, job, inbox, bad, budget>>

\* The status of the upstream, and after it the local chain, which is closed again.
BackfillStatus(n) ==
    /\ at[n]["backfill"] = "compare"
    /\ Learn(n, "backfill", [job[n]["backfill"] EXCEPT !.status = status[job[n]["backfill"].peer]])
    /\ Goto(n, "backfill", "weigh")
    /\ UNCHANGED <<chain, status, mu, db, inbox, bad, budget>>

BackfillCompare(n) ==
    LET j == job[n]["backfill"]
    IN  /\ at[n]["backfill"] = "weigh"
        /\ Free(db, n)
        /\ \/ /\ j.status = chain[n] \/ (Len(j.status) > Len(chain[n]) /\ Work(j.status) <= Work(chain[n]))
              /\ Return(n, "backfill")
           \/ /\ j.status # chain[n] /\ Work(j.status) > Work(chain[n])
              /\ Learn(n, "backfill", [NoJob EXCEPT !.peer = j.peer])
              /\ Goto(n, "backfill", "open")
              /\ UNCHANGED <<mu, db>>
           \/ /\ j.status # chain[n] /\ Len(j.status) <= Len(chain[n]) /\ Work(j.status) <= Work(chain[n])
              /\ Learn(n, "backfill", [j EXCEPT !.local = chain[n]])
              /\ Goto(n, "backfill", "ancestor")
              /\ UNCHANGED <<mu, db>>
        /\ UNCHANGED <<chain, status, inbox, bad, budget>>

\* Mutated form: an upstream whose tip is the ancestor counts as inconsistent.
BackfillAboveAncestor(n) ==
    LET j == job[n]["backfill"]
        ancestor == FindCommonAncestor(j.local, BuildBlockLocator(chain[j.peer]))
    IN  /\ at[n]["backfill"] = "ancestor"
        /\ Free(db, j.peer)
        /\ IF Work(j.status) = Work(j.local) \/ Len(j.status) <= ancestor
           THEN Return(n, "backfill")
           ELSE Learn(n, "backfill", [j EXCEPT !.ancestor = ancestor]) /\ Goto(n, "backfill", "push") /\ UNCHANGED <<mu, db>>
        /\ UNCHANGED <<chain, status, inbox, bad, budget>>

\* Ties are left alone, and an upstream that is behind is given the blocks
\* above the common ancestor.
BackfillAncestor(n) ==
    LET j == job[n]["backfill"]
        ancestor == FindCommonAncestor(j.local, BuildBlockLocator(chain[j.peer]))
    IN  /\ at[n]["backfill"] = "ancestor"
        /\ Free(db, j.peer)
        /\ IF Work(j.status) = Work(j.local) \/ Len(j.status) < ancestor \/ ancestor = Len(j.local)
           THEN Return(n, "backfill")
           ELSE /\ Learn(n, "backfill", [j EXCEPT !.ancestor = ancestor])
                /\ Goto(n, "backfill", "push")
                /\ UNCHANGED <<mu, db>>
        /\ UNCHANGED <<chain, status, inbox, bad, budget>>

\* One block is posted to the upstream, whose receiveBlock answers; a refusal
\* ends the push.
PushBlock(n) ==
    LET j == job[n]["backfill"]
        block == BlockAt(j.local, j.ancestor + 1)
    IN  /\ at[n]["backfill"] = "push"
        /\ Free(mu, j.peer) /\ Free(db, j.peer)
        /\ at[j.peer]["server"] = "idle"
        /\ IF Linked(chain[j.peer], <<block>>)
           THEN /\ chain' = [chain EXCEPT ![j.peer] = block]
                /\ IF Len(block) = Len(j.local)
                   THEN /\ at' = [at EXCEPT ![j.peer]["server"] = "refresh", ![n]["backfill"] = "idle"]
                        /\ Learn(n, "backfill", NoJob)
                        /\ mu' = [Released(mu, n, "backfill") EXCEPT ![j.peer] = "server"]
                   ELSE /\ at' = [at EXCEPT ![j.peer]["server"] = "refresh"]
                        /\ Learn(n, "backfill", [j EXCEPT !.ancestor = @ + 1])
                        /\ mu' = [mu EXCEPT ![j.peer] = "server"]
                /\ UNCHANGED db
           ELSE Return(n, "backfill") /\ UNCHANGED chain
        /\ UNCHANGED <<status, inbox, bad, budget>>
---------------------------------------------------------------------------
\* Faults.

\* Places in which a goroutine waits for a peer.
Calling == {"open", "status", "headers", "blocks", "plan", "locator", "fetch", "compare", "ancestor", "push"}

\* A call fails or times out, and the goroutine gives up.
LoseCall(n, r) ==
    /\ at[n][r] \in Calling
    /\ faults < MaxFaults
    /\ faults' = faults + 1
    /\ Fail(n, r)
    /\ UNCHANGED <<chain, status, inbox, mined>>

\* Mutated form: a client without a timeout.
BusyForever(n, r) == FALSE /\ UNCHANGED vars

\* The handler of the peer waits for a lock that stays held until the client
\* gives up.
BusyTimeout(n, r) ==
    /\ \/ at[n][r] \in {"headers", "blocks", "locator", "ancestor", "push"}
       \/ at[n][r] = "fetch" /\ job[n][r].ancestor + Len(job[n][r].blocks) < Len(job[n][r].status)
    /\ ~Free(db, job[n][r].peer) \/ (at[n][r] = "push" /\ ~Free(mu, job[n][r].peer))
    /\ Fail(n, r)
    /\ UNCHANGED <<chain, status, inbox, budget>>

LoseBlock(message) ==
    /\ faults < MaxFaults
    /\ inbox' = inbox \ {message}
    /\ faults' = faults + 1
    /\ Blame(Announcer(message), message.to)
    /\ UNCHANGED <<chain, status, mu, db, at, job, mined>>

\* The process dies; the next start computes the status from the database.
Restart(n) ==
    /\ n \in Crashing
    /\ faults < MaxFaults
    /\ faults' = faults + 1
    /\ at' = [at EXCEPT ![n] = [r \in Role |-> "idle"]]
    /\ job' = [job EXCEPT ![n] = [r \in Role |-> NoJob]]
    /\ mu' = [mu EXCEPT ![n] = None] /\ db' = [db EXCEPT ![n] = None]
    /\ status' = [status EXCEPT ![n] = chain[n]]
    /\ UNCHANGED <<chain, inbox, bad, mined>>

\* A bad peer introduces itself, or another goroutine of the node calls it and
\* finds it.
Forgive(n, q) ==
    /\ <<n, q>> \in bad
    /\ bad' = bad \ {<<n, q>>}
    /\ UNCHANGED <<chain, status, mu, db, at, job, inbox, budget>>

\* The steps of a synchronisation that need nothing of a peer's database, and
\* those that do.
LocalStep(n, r) ==
    \/ OpenChain(n, r) \/ AskStatus(n, r)
    \/ PlanStatus(n, r) \/ PlanOpen(n, r) \/ PlanDecide(n, r) \/ ApplyReorg(n, r)

RemoteStep(n, r) ==
    \/ FetchHeaders(n, r) \/ ImportBlock(n, r)
    \/ PlanLocator(n, r) \/ PlanFetch(n, r)

BackfillLocal(n) == BackfillLock(n) \/ BackfillStatus(n) \/ BackfillCompare(n)
BackfillRemote(n) == BackfillAncestor(n) \/ PushBlock(n)

Next ==
    \/ \E n \in Node :
        \/ CommitMinedBlock(n)
        \/ \E message \in inbox : ReceiveBlock(n, message)
        \/ \E r \in {"server", "sync"} : RefreshState(n, r)
        \/ SyncLoop(n)
        \/ \E r \in {"sync", "backfill"} :
            \/ LocalStep(n, r) \/ RemoteStep(n, r)
            \/ LoseCall(n, r) \/ BusyTimeout(n, r)
        \/ BackfillLocal(n) \/ BackfillRemote(n)
        \/ Restart(n)
        \/ \E q \in Node : Forgive(n, q)
    \/ \E message \in inbox : LoseBlock(message)

Spec == Init /\ [][Next]_vars

\* Goroutines run, the sync loop ticks forever, a call that is not lost is
\* answered or given up, and who waits for the mutex or for the database gets
\* it: Go hands the mutex over, and the loop sleeps between two rounds.
SyncGoesOn(n) ==
    SyncLoop(n) \/ LocalStep(n, "sync") \/ RemoteStep(n, "sync") \/ BusyTimeout(n, "sync") \/ RefreshState(n, "sync")
BackfillsHere(n) == BackfillLocal(n) \/ LocalStep(n, "backfill")
BackfillsThere(n) == BackfillRemote(n) \/ RemoteStep(n, "backfill") \/ BusyTimeout(n, "backfill")

Fairness ==
    \A n \in Node :
        /\ WF_vars(RefreshState(n, "server"))
        /\ WF_vars(SyncGoesOn(n))
        /\ SF_vars(BackfillsHere(n))
        /\ WF_vars(BackfillsThere(n))

FairSpec == Spec /\ Fairness
---------------------------------------------------------------------------
TypeOK ==
    /\ \A n \in Node :
        /\ \A c \in {chain[n], status[n]} :
            \A i \in DOMAIN c : c[i] \in [by : Node, difficulty : Difficulties]
        /\ mu[n] \in Role \cup {None} /\ db[n] \in {"sync", "backfill", None}
        /\ \A r \in Role :
            /\ at[n][r] # "idle" /\ r # "server" => job[n][r].peer \in Node \ {n} \/ at[n][r] = "refresh"
            /\ db[n] = r => at[n][r] \in {"status", "headers", "blocks", "locator", "fetch"}
    /\ bad \subseteq {pair \in Node \X Node : pair[1] # pair[2]}
    /\ mined \in 0..MaxBlocks /\ faults \in 0..MaxFaults

\* No step of a node replaces its chain by one with less work, whatever was
\* mined, received or fetched between the plan of a reorganisation and its
\* application.
KeepsWork == \A n \in Node : Work(chain'[n]) >= Work(chain[n])

\* A reorganisation disconnects no more blocks than its limit, measured on the
\* chain that is stored when it is applied.
ReorgsShallowly ==
    \A n \in Node : ~IsOn(chain[n], chain'[n]) =>
        \E h \in 0..Len(chain'[n]) :
            BlockAt(chain'[n], h) = BlockAt(chain[n], h) /\ Len(chain[n]) - h <= MaxReorgDepth

\* A plan that is about to be applied was made for the chain that is stored.
PlanIsFresh ==
    \A n \in Node : at[n]["sync"] = "apply" => job[n]["sync"].local = chain[n]

\* No peer of the node is bad, and the status of none is higher by more than one
\* synchronisation imports.
InReach(n) ==
    \A q \in Node \ {n} : <<n, q>> \notin bad /\ Len(status[q]) <= Len(chain[n]) + MaxSyncBlocks

\* A node has as much work as every other one.
CaughtUp(n) == \A q \in Node : Work(chain[n]) >= Work(chain[q])

\* A node q is merely behind node n.
Lacks(q, n) == IsOn(chain[q], chain[n]) /\ chain[q] # chain[n]
===========================================================================
