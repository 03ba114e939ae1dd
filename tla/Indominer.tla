---------------------------- MODULE Indominer ----------------------------
(***************************************************************************)
(* indominer: the loop of the standalone miner beside a node whose chain   *)
(* moves under it.  A miner fetches a template, searches while a monitor   *)
(* compares the template with the tip, and submits what it finds; requests *)
(* and answers get lost or come late.  The search itself is CPUMiner.      *)
(***************************************************************************)
EXTENDS Integers, Sequences, FiniteSets, SequencesExt

CONSTANTS
    Miner, None,
    MaxBlocks,      \* --max-blocks of each; 0 is unlimited
    Once,           \* the miners that run with --once
    Retry,          \* --retry
    Faults,         \* "request": no answer in time, "search": no nonce, "node": a refusal, an error after the commit
    MaxFaults,      \* bound: of each miner
    MaxMoves        \* bound: blocks and reorganisations from elsewhere

\* A block as far as the loop reads it, and a template.
Block == [by : Miner \cup {None}, hash : Nat]
Job == [parent : Block, height : Nat]

\* What is assumed of the parameters.
IndominerAssumption ==
    /\ None \notin Block \cup Job \cup [accepted : BOOLEAN] \cup [height : Int, tip : Block]
    /\ MaxBlocks \in [Miner -> Nat] /\ {MaxFaults, MaxMoves} \subseteq Nat
    /\ Once \subseteq Miner /\ Retry \in BOOLEAN /\ Faults \subseteq {"request", "search", "node"}

VARIABLES
    chain,      \* the node's blocks: who mined each, and a number for its hash
    made,       \* how many blocks were made
    moves,
    miner,      \* of each miner: where it is, its job, its block, what its monitor read
    accepted, rpcErrors,    \* its statistics
    wire,       \* submits the node has not handled
    reply,      \* the answer on the way to each miner
    taken,      \* the blocks of each miner that the node took
    faults

vars == <<chain, made, moves, miner, accepted, rpcErrors, wire, reply, taken, faults>>

Genesis == [by |-> None, hash |-> 0]
Looping == [at |-> "loop", job |-> None, block |-> None, info |-> None]
Tip == Last(chain)

Init ==
    /\ chain = <<Genesis>> /\ made = 0 /\ moves = 0
    /\ miner = [m \in Miner |-> Looping]
    /\ accepted = [m \in Miner |-> 0] /\ rpcErrors = [m \in Miner |-> 0]
    /\ wire = {} /\ reply = [m \in Miner |-> None]
    /\ taken = [m \in Miner |-> {}]
    /\ faults = [m \in Miner |-> 0]

Become(m, state) == miner' = [miner EXCEPT ![m] = state]
Fails(m, kind) == kind \in Faults /\ faults[m] < MaxFaults /\ faults' = [faults EXCEPT ![m] = @ + 1]
---------------------------------------------------------------------------
Reached(m) == MaxBlocks[m] > 0 /\ accepted[m] >= MaxBlocks[m]

StopAtMax(m) ==
    /\ miner[m].at = "loop" /\ Reached(m)
    /\ Become(m, [Looping EXCEPT !.at = "stopped"])
    /\ UNCHANGED <<chain, made, moves, accepted, rpcErrors, wire, reply, taken, faults>>

FetchTemplate(m) ==
    /\ miner[m].at = "loop" /\ ~Reached(m)
    /\ Become(m, [Looping EXCEPT !.at = "mining", !.job = [parent |-> Tip, height |-> Len(chain)]])
    /\ UNCHANGED <<chain, made, moves, accepted, rpcErrors, wire, reply, taken, faults>>

\* The node cannot be reached or gives no template: try again after a while, or end.
FetchFails(m) ==
    /\ miner[m].at = "loop" /\ ~Reached(m) /\ Fails(m, "request")
    /\ rpcErrors' = [rpcErrors EXCEPT ![m] = @ + 1]
    /\ Become(m, [Looping EXCEPT !.at = IF m \in Once \/ ~Retry THEN "failed" ELSE "loop"])
    /\ UNCHANGED <<chain, made, moves, accepted, wire, reply, taken>>

Found(m) ==
    /\ miner[m].at = "mining"
    /\ made' = made + 1
    /\ Become(m, [miner[m] EXCEPT !.at = "submit", !.block = [by |-> m, hash |-> made'], !.info = None])
    /\ UNCHANGED <<chain, moves, accepted, rpcErrors, wire, reply, taken, faults>>

SearchFails(m) ==
    /\ miner[m].at = "mining" /\ Fails(m, "search")
    /\ Become(m, Looping)
    /\ UNCHANGED <<chain, made, moves, accepted, rpcErrors, wire, reply, taken>>

\* The monitor asks for the height and the tip ...
MonitorAsks(m) ==
    /\ miner[m].at = "mining" /\ miner[m].info = None
    /\ Become(m, [miner[m] EXCEPT !.info = [height |-> Len(chain) - 1, tip |-> Tip]])
    /\ UNCHANGED <<chain, made, moves, accepted, rpcErrors, wire, reply, taken, faults>>

\* Mutated form: only the height tells a stale job.
StaleByHeight(info, job) == info.height + 1 # job.height

StaleJobReason(info, job) == info.height + 1 # job.height \/ info.tip # job.parent

\* ... and cancels the search when the job is stale.
MonitorChecks(m) ==
    /\ miner[m].at = "mining" /\ miner[m].info # None
    /\ Become(m, IF StaleJobReason(miner[m].info, miner[m].job) THEN Looping ELSE [miner[m] EXCEPT !.info = None])
    /\ UNCHANGED <<chain, made, moves, accepted, rpcErrors, wire, reply, taken, faults>>

SubmitBlock(m) ==
    /\ miner[m].at = "submit"
    /\ wire' = wire \cup {[block |-> miner[m].block, job |-> miner[m].job]}
    /\ Become(m, [miner[m] EXCEPT !.at = "wait"])
    /\ UNCHANGED <<chain, made, moves, accepted, rpcErrors, reply, taken, faults>>

\* Mutated form: every answer counts.
AnswerCounted(m) ==
    /\ miner[m].at = "wait" /\ reply[m] # None
    /\ accepted' = [accepted EXCEPT ![m] = @ + 1]
    /\ reply' = [reply EXCEPT ![m] = None]
    /\ Become(m, IF m \in Once /\ reply[m].accepted THEN [Looping EXCEPT !.at = "stopped"] ELSE Looping)
    /\ UNCHANGED <<chain, made, moves, rpcErrors, wire, taken, faults>>

\* Mutated form: a miner told to mine once goes on.
AnswerOnceMore(m) ==
    /\ miner[m].at = "wait" /\ reply[m] # None
    /\ accepted' = IF reply[m].accepted THEN [accepted EXCEPT ![m] = @ + 1] ELSE accepted
    /\ reply' = [reply EXCEPT ![m] = None]
    /\ Become(m, Looping)
    /\ UNCHANGED <<chain, made, moves, rpcErrors, wire, taken, faults>>

Answer(m) ==
    /\ miner[m].at = "wait" /\ reply[m] # None
    /\ accepted' = IF reply[m].accepted THEN [accepted EXCEPT ![m] = @ + 1] ELSE accepted
    /\ reply' = [reply EXCEPT ![m] = None]
    /\ Become(m, IF m \in Once /\ reply[m].accepted THEN [Looping EXCEPT !.at = "stopped"] ELSE Looping)
    /\ UNCHANGED <<chain, made, moves, rpcErrors, wire, taken, faults>>

\* Mutated form: a miner that got no answer waits for it.
SubmitFailsWaiting(m) ==
    /\ miner[m].at = "wait" /\ Fails(m, "request")
    /\ rpcErrors' = [rpcErrors EXCEPT ![m] = @ + 1]
    /\ wire' = {s \in wire : s.block.by # m}
    /\ reply' = [reply EXCEPT ![m] = None]
    /\ UNCHANGED <<chain, made, moves, miner, accepted, taken>>

\* No answer within --submit-timeout: the submit was lost, its answer was lost,
\* or the node has yet to handle it.  The miner looks at the chain for its log and
\* goes on with a new job.
SubmitFails(m) ==
    /\ miner[m].at = "wait" /\ Fails(m, "request")
    /\ rpcErrors' = [rpcErrors EXCEPT ![m] = @ + 1]
    /\ wire' \in {wire, {s \in wire : s.block.by # m}}
    /\ reply' = [reply EXCEPT ![m] = None]
    /\ Become(m, Looping)
    /\ UNCHANGED <<chain, made, moves, accepted, taken>>
---------------------------------------------------------------------------
Waits(s) == miner[s.block.by].at = "wait" /\ miner[s.block.by].block = s.block

\* minerSubmit: a block that extends the tip is taken; nobody hears of it when
\* the miner has given up.
MinerSubmit(s) ==
    LET extends == s.job.parent = Tip /\ s.job.height = Len(chain)
        m == s.block.by
    IN  /\ s \in wire
        /\ wire' = wire \ {s}
        /\ chain' = IF extends THEN Append(chain, s.block) ELSE chain
        /\ taken' = IF extends THEN [taken EXCEPT ![m] = @ \cup {s.block}] ELSE taken
        /\ reply' = IF Waits(s) THEN [reply EXCEPT ![m] = [accepted |-> extends]] ELSE reply
        /\ UNCHANGED <<made, moves, miner, accepted, rpcErrors, faults>>

\* The mempool cannot be saved: the block stays in the chain and the answer is an error.
MinerSubmitFails(s) ==
    LET m == s.block.by
    IN  /\ s \in wire /\ Waits(s) /\ s.job.parent = Tip /\ Fails(m, "node")
        /\ wire' = wire \ {s}
        /\ chain' = Append(chain, s.block)
        /\ taken' = [taken EXCEPT ![m] = @ \cup {s.block}]
        /\ rpcErrors' = [rpcErrors EXCEPT ![m] = @ + 1]
        /\ Become(m, Looping)
        /\ UNCHANGED <<made, moves, accepted, reply>>

\* The template guard of the testnet, without enough peers, refuses any block.
MinerRefuses(s) ==
    LET m == s.block.by
    IN  /\ s \in wire /\ Fails(m, "node")
        /\ wire' = wire \ {s}
        /\ reply' = IF Waits(s) THEN [reply EXCEPT ![m] = [accepted |-> FALSE]] ELSE reply
        /\ UNCHANGED <<chain, made, moves, miner, accepted, rpcErrors, taken>>

\* Another miner's block arrives, or a heavier branch of any length replaces the tip.
ChainMoves ==
    LET foreign == [by |-> None, hash |-> made + 1]
    IN  /\ moves < MaxMoves
        /\ moves' = moves + 1
        /\ made' = made + 1
        /\ \/ chain' = Append(chain, foreign)
           \/ Len(chain) > 1 /\ chain' = Append(Front(chain), foreign)
        /\ UNCHANGED <<miner, accepted, rpcErrors, wire, reply, taken, faults>>

Working(m) == StopAtMax(m) \/ FetchTemplate(m) \/ SubmitBlock(m) \/ Answer(m)
Monitoring(m) == MonitorAsks(m) \/ MonitorChecks(m)

Next ==
    \/ \E m \in Miner :
        \/ StopAtMax(m) \/ FetchTemplate(m) \/ FetchFails(m) \/ Found(m) \/ SearchFails(m)
        \/ MonitorAsks(m) \/ MonitorChecks(m)
        \/ SubmitBlock(m) \/ Answer(m) \/ SubmitFails(m)
    \/ \E s \in wire : MinerSubmit(s) \/ MinerSubmitFails(s) \/ MinerRefuses(s)
    \/ ChainMoves

Spec == Init /\ [][Next]_vars

\* The processes go on and the node handles what it received; nothing is said of
\* how soon a search finds a nonce.
FairMonitor ==
    /\ Spec
    /\ \A m \in Miner : WF_vars(Working(m)) /\ WF_vars(Monitoring(m))
    /\ WF_vars(\E s \in wire : MinerSubmit(s))

\* A search that is left alone finds a nonce in the end; one that the monitor
\* interrupts again and again finds one sooner or later, too.
FairSpec == FairMonitor /\ \A m \in Miner : SF_vars(Found(m))
---------------------------------------------------------------------------
\* The types, and where a miner can be with what it holds.
TypeOK ==
    /\ made \in Nat /\ moves \in 0..MaxMoves /\ faults \in [Miner -> 0..MaxFaults]
    /\ \A m \in Miner :
        /\ miner[m].at \in {"loop", "mining", "submit", "wait", "stopped", "failed"}
        /\ miner[m].at \in {"mining", "submit", "wait"} <=> miner[m].job # None
        /\ miner[m].at \in {"submit", "wait"} <=> miner[m].block # None
        /\ miner[m].at = "failed" => m \in Once \/ ~Retry

\* What a miner counts as accepted the node has taken, and every block that the
\* node took without being counted cost the miner an error it could see.
CountIsTrue ==
    \A m \in Miner :
        /\ accepted[m] <= Cardinality(taken[m])
        /\ Cardinality(taken[m]) <= accepted[m] + rpcErrors[m] + (IF miner[m].at = "wait" THEN 1 ELSE 0)

\* A miner that gets its answers has no more blocks taken than it was asked to
\* mine: --max-blocks, or one.
AskedIsMined ==
    \A m \in Miner :
        /\ MaxBlocks[m] > 0 => Cardinality(taken[m]) <= MaxBlocks[m] + rpcErrors[m]
        /\ m \in Once => Cardinality(taken[m]) <= 1 + rpcErrors[m]

\* A miner searches for a block whose parent is no longer the tip.
MinesStaleJob(m) == miner[m].at = "mining" /\ miner[m].job.parent # Tip

\* A miner has come to its regular end.
Stopped(m) == miner[m].at = "stopped"
===========================================================================
