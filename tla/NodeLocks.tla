---------------------------- MODULE NodeLocks -----------------------------
(***************************************************************************)
(* Which locks the goroutines of a node hold while they wait for others.   *)
(* A handler is the sequence of what it does to the locks of its node and  *)
(* of the calls it makes to a peer:                                        *)
(*                                                                         *)
(*   "mu", "tx"     take the mutation mutex, the submission mutex;         *)
(*   "db"           open the chain, which locks the database file;         *)
(*   "-mu", ...     give it back;                                          *)
(*   "look"         open the chain, read or write, and close it;           *)
(*   "search"       the proof-of-work search;                              *)
(*   a handler      call it on a peer and wait for the answer.             *)
(*                                                                         *)
(* Neither mutex is reentrant, nor is the lock of the file: a second open  *)
(* waits, in the goroutine that has it open too.                           *)
(***************************************************************************)
EXTENDS Naturals, Sequences, FiniteSets

CONSTANTS
    Node, Slot,     \* nodes and the goroutines of each
    None,
    Handlers        \* the handlers that clients and loops start

Lock == {"mu", "tx", "db"}

Look == <<"look">>

\* Handshake and status are answered from the cached state, without a lock.
Handshake == <<>>
\* RPC queries (stakes, balances, addresses, transactions, chain views) and the
\* P2P handlers headers, block, blocks and locator.
Query == Look
\* The faucet asks its upstreams for a handshake first, with the submission mutex
\* taken, and does not announce its transaction.
FaucetRequest == <<"tx", "handshake">> \o Look \o Look \o <<"-tx">>
\* The submission mutex is held until the transaction is announced.
Send == <<"tx">> \o Look \o Look \o <<"receiveTx", "-tx">>
StakeChange == <<"tx">> \o Look \o Look \o <<"receiveTx", "-tx">>
MempoolClear == Look
MinerTemplate == <<"handshake">> \o Look
\* The upstreams are asked with the mutation mutex taken, and the block is announced
\* before the deferred unlock.
MinerSubmit == <<"mu", "handshake">> \o Look \o Look \o <<"receiveBlock", "-mu">>
\* The chain stays open during the search; the commit opens it again.
Mine == Look \o <<"db", "search", "-db", "mu">> \o Look \o <<"-mu">> \o Look \o <<"receiveBlock">> \o Look
\* Add, revalidate the mempool, refresh the status.
ReceiveBlock == <<"mu">> \o Look \o Look \o Look \o <<"-mu">>

\* Mutated form: the mempool is revalidated while the chain is open.
ReceiveTxNested == <<"db">> \o Look \o <<"-db">> \o Look

\* Revalidate, accept, refresh.
ReceiveTx == Look \o Look \o Look

\* Headers and blocks are fetched while the chain is open.
SyncRound == <<"mu", "handshake", "db", "query", "query", "-db">> \o Look \o Look \o Look \o <<"-mu">>
Plan == <<"handshake", "db", "query", "query", "-db">>
\* A fork is found, a plan is made, made again, and applied.
ReorgRound == <<"mu", "handshake">> \o Look \o Plan \o Plan \o Look \o Look \o <<"-mu">>
ReorgPreview == Plan
ReorgApply == <<"mu">> \o Plan \o Look \o Look \o <<"-mu">>
PeerSync == <<"mu">> \o Look \o <<"handshake">> \o Look \o Plan \o Look \o Look \o Look \o <<"-mu">>
Push == <<"handshake">> \o Look \o <<"query", "receiveBlock">>
\* The loop's backfill and the RPC handler's, which takes the mutex.
LoopBackfill == Push
UpstreamPush == <<"mu">> \o Push \o Look \o <<"-mu">>
ForkCheck == <<"handshake">> \o Look \o Look \o <<"query">>

Program == [
    handshake |-> Handshake, query |-> Query, faucetRequest |-> FaucetRequest, send |-> Send, stakeChange |-> StakeChange,
    mempoolClear |-> MempoolClear, minerTemplate |-> MinerTemplate, minerSubmit |-> MinerSubmit,
    mine |-> Mine, receiveBlock |-> ReceiveBlock, receiveTx |-> ReceiveTx, syncRound |-> SyncRound,
    reorgRound |-> ReorgRound, reorgPreview |-> ReorgPreview, reorgApply |-> ReorgApply,
    peerSync |-> PeerSync, loopBackfill |-> LoopBackfill, upstreamPush |-> UpstreamPush,
    forkCheck |-> ForkCheck]

LocksAssumption == None \notin Node \X Slot /\ Handlers \subseteq DOMAIN Program

Worker == Node \X Slot

VARIABLES
    held,       \* who holds each lock of each node
    runs,       \* the handler of each goroutine, or None
    pc,         \* its next instruction
    callee      \* the goroutine that serves its call, or None

vars == <<held, runs, pc, callee>>

Init ==
    /\ held = [n \in Node |-> [l \in Lock |-> None]]
    /\ runs = [w \in Worker |-> None]
    /\ pc = [w \in Worker |-> 1]
    /\ callee = [w \in Worker |-> None]

Home(w) == w[1]
Running(w) == runs[w] # None
At(w) == IF ~Running(w) \/ pc[w] > Len(Program[runs[w]]) THEN "end" ELSE Program[runs[w]][pc[w]]
Calls(w) == At(w) \in DOMAIN Program

\* A client, a timer or a peer starts a handler.
Start(w, h) ==
    /\ ~Running(w)
    /\ h \in Handlers
    /\ runs' = [runs EXCEPT ![w] = h]
    /\ pc' = [pc EXCEPT ![w] = 1]
    /\ UNCHANGED <<held, callee>>

Acquire(w) ==
    \E l \in Lock :
        /\ At(w) = l
        /\ held[Home(w)][l] = None
        /\ held' = [held EXCEPT ![Home(w)][l] = w]
        /\ pc' = [pc EXCEPT ![w] = @ + 1]
        /\ UNCHANGED <<runs, callee>>

\* Nothing else happens while the chain is open, so it is one step.
LookUp(w) ==
    /\ At(w) = "look"
    /\ held[Home(w)]["db"] = None
    /\ pc' = [pc EXCEPT ![w] = @ + 1]
    /\ UNCHANGED <<held, runs, callee>>

Unlock(l) == CASE l = "mu" -> "-mu" [] l = "tx" -> "-tx" [] l = "db" -> "-db"

Release(w) ==
    \E l \in Lock :
        /\ At(w) = Unlock(l)
        /\ held' = [held EXCEPT ![Home(w)][l] = None]
        /\ pc' = [pc EXCEPT ![w] = @ + 1]
        /\ UNCHANGED <<runs, callee>>

Found(w) ==
    /\ At(w) = "search"
    /\ pc' = [pc EXCEPT ![w] = @ + 1]
    /\ UNCHANGED <<held, runs, callee>>

\* The request reaches a peer, where a goroutine of its own serves it.
Deliver(w) ==
    \E v \in Worker :
        /\ Calls(w) /\ callee[w] = None
        /\ Home(v) # Home(w) /\ ~Running(v)
        /\ runs' = [runs EXCEPT ![v] = At(w)]
        /\ pc' = [pc EXCEPT ![v] = 1]
        /\ callee' = [callee EXCEPT ![w] = v]
        /\ UNCHANGED held

\* A handler ends, and a caller that still waits for it goes on.
Answer(w) ==
    LET waiting == {c \in Worker : callee[c] = w}
    IN  /\ Running(w) /\ At(w) = "end"
        /\ runs' = [runs EXCEPT ![w] = None]
        /\ pc' = [c \in Worker |-> IF c \in waiting THEN pc[c] + 1 ELSE pc[c]]
        /\ callee' = [c \in Worker |-> IF c \in waiting THEN None ELSE callee[c]]
        /\ UNCHANGED held

\* Mutated form: clients without a timeout.
WaitForever(w) == Calls(w) /\ UNCHANGED vars

\* The client gives up; the goroutine of the peer does not notice.  An
\* announcement that fails is skipped, a failed query ends the handler, whose
\* deferred calls close the chain and unlock.
Timeout(w) ==
    /\ Calls(w)
    /\ callee' = [callee EXCEPT ![w] = None]
    /\ IF At(w) # "query"
       THEN pc' = [pc EXCEPT ![w] = @ + 1] /\ UNCHANGED <<held, runs>>
       ELSE /\ runs' = [runs EXCEPT ![w] = None]
            /\ held' = [held EXCEPT ![Home(w)] = [l \in Lock |-> IF @[l] = w THEN None ELSE @[l]]]
            /\ pc' = [c \in Worker |-> IF callee[c] = w THEN pc[c] + 1 ELSE pc[c]]

Next ==
    \E w \in Worker :
        \/ \E h \in Handlers : Start(w, h)
        \/ Acquire(w) \/ LookUp(w) \/ Release(w) \/ Found(w)
        \/ Deliver(w) \/ Answer(w) \/ Timeout(w)

Spec == Init /\ [][Next]_vars

\* A goroutine that can go on does, a call is delivered or given up, and who
\* waits for a lock that becomes free again and again gets it.
GoesOn(w) == Release(w) \/ Found(w) \/ Answer(w) \/ Timeout(w)
GetsLock(w) == Acquire(w) \/ LookUp(w)

Fairness == \A w \in Worker : WF_vars(GoesOn(w)) /\ SF_vars(GetsLock(w))

FairSpec == Spec /\ Fairness
---------------------------------------------------------------------------
\* A goroutine holds locks of its own node only, and none when its handler has
\* returned, on whichever path.
TypeOK ==
    \A n \in Node, l \in Lock :
        held[n][l] # None => held[n][l] \in {w \in Worker : Home(w) = n /\ Running(w)}

\* No goroutine waits for a lock that it holds itself: the chain is never
\* opened twice by one handler.
NoSelfWait ==
    \A w \in Worker :
        /\ At(w) \in Lock => held[Home(w)][At(w)] # w
        /\ At(w) = "look" => held[Home(w)]["db"] # w
===========================================================================
