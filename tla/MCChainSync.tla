---------------------------- MODULE MCChainSync ----------------------------
(***************************************************************************)
(* The fork choice on its own, over every pair of chains and every history *)
(* of block times, and two nodes that synchronise with it.  A behaviour is *)
(* one of a few scenarios; what it is not about rests.                     *)
(***************************************************************************)
EXTENDS ForkChoiceCheck

VARIABLES chain, status, mu, db, at, job, inbox, bad, mined, faults

syncVars == <<chain, status, mu, db, at, job, inbox, bad, mined, faults>>
vars == <<scenario, chainVars, syncVars>>

ChainsRest == local = None /\ peer = None
SyncRests ==
    /\ chain = None /\ status = None /\ mu = None /\ db = None /\ at = None
    /\ job = None /\ inbox = None /\ bad = None /\ mined = None /\ faults = None
---------------------------------------------------------------------------
MCGaps == {-3, 0, 4, 9}

\* Two nodes: one that may disconnect one block only and loses a call or crashes,
\* one that falls behind by several blocks, more than a synchronisation imports
\* or not, one that follows the other and fills it as its upstream, and two that
\* synchronise with each other.
Reorgs == INSTANCE ChainSync WITH
    MaxWork <- 1000, MaxReorgDepth <- 1, MaxReorgFetchBlocks <- 2,
    InitialDifficulty <- 1, MinDifficulty <- 1, MaxDifficulty <- 3, RetargetWindow <- 2, TargetBlockTime <- 4,
    Node <- {"n1", "n2"}, Syncers <- {"n1"}, Upstreams <- {}, Crashing <- {"n1"},
    MaxSyncBlocks <- 2, Difficulties <- {0, 1}, MaxBlocks <- 3, MaxFaults <- 1
Behind == INSTANCE ChainSync WITH
    MaxWork <- 1000, MaxReorgDepth <- 3, MaxReorgFetchBlocks <- 3,
    InitialDifficulty <- 1, MinDifficulty <- 1, MaxDifficulty <- 3, RetargetWindow <- 2, TargetBlockTime <- 4,
    Node <- {"n1", "n2"}, Syncers <- {"n1"}, Upstreams <- {}, Crashing <- {"n1"},
    MaxSyncBlocks <- 2, Difficulties <- {1}, MaxBlocks <- 3, MaxFaults <- 2
Follow == INSTANCE ChainSync WITH
    MaxWork <- 1000, MaxReorgDepth <- 3, MaxReorgFetchBlocks <- 3,
    InitialDifficulty <- 1, MinDifficulty <- 1, MaxDifficulty <- 3, RetargetWindow <- 2, TargetBlockTime <- 4,
    Node <- {"n1", "n2"}, Syncers <- {"n1"}, Upstreams <- {"n1"}, Crashing <- {"n1"},
    MaxSyncBlocks <- 3, Difficulties <- {0, 1}, MaxBlocks <- 2, MaxFaults <- 1
Mutual == INSTANCE ChainSync WITH
    MaxWork <- 1000, MaxReorgDepth <- 3, MaxReorgFetchBlocks <- 3,
    InitialDifficulty <- 1, MinDifficulty <- 1, MaxDifficulty <- 3, RetargetWindow <- 2, TargetBlockTime <- 4,
    Node <- {"n1", "n2"}, Syncers <- {"n1", "n2"}, Upstreams <- {}, Crashing <- {},
    MaxSyncBlocks <- 3, Difficulties <- {0, 1}, MaxBlocks <- 2, MaxFaults <- 1

ASSUME ParametersAreRight ==
    /\ CheckAssumption
    /\ Reorgs!SyncAssumption /\ Behind!SyncAssumption /\ Follow!SyncAssumption /\ Mutual!SyncAssumption
---------------------------------------------------------------------------
Init ==
    \/ /\ SyncRests
       /\ scenario \in {"pairs", "times"}
       /\ AtGenesis
    \/ /\ ChainsRest
       /\ \/ scenario = "reorgs" /\ Reorgs!Init
          \/ scenario = "behind" /\ Behind!Init
          \/ scenario = "follow" /\ Follow!Init
          \/ scenario = "mutual" /\ Mutual!Init

ChainStep ==
    /\ \/ scenario = "pairs" /\ Extend
       \/ scenario = "times" /\ MineNext
    /\ UNCHANGED <<scenario, syncVars>>

SyncStep ==
    /\ \/ scenario = "reorgs" /\ Reorgs!Next
       \/ scenario = "behind" /\ Behind!Next
       \/ scenario = "follow" /\ Follow!Next
       \/ scenario = "mutual" /\ Mutual!Next
    /\ UNCHANGED <<scenario, chainVars>>

Next == ChainStep \/ SyncStep

\* The fairness of ChainSync, as far as the properties need it: the goroutines of n1
\* and the handlers of both nodes go on; no announced block need ever arrive and n2
\* need not go on with a synchronisation of its own.
ServerGoesOn(n) ==
    \/ scenario = "behind" /\ Behind!RefreshState(n, "server")
    \/ scenario = "follow" /\ Follow!RefreshState(n, "server")
    \/ scenario = "mutual" /\ Mutual!RefreshState(n, "server")

SyncGoesOn ==
    \/ scenario = "behind" /\ Behind!SyncGoesOn("n1")
    \/ scenario = "follow" /\ Follow!SyncGoesOn("n1")
    \/ scenario = "mutual" /\ Mutual!SyncGoesOn("n1")

Fairness ==
    /\ WF_syncVars(ServerGoesOn("n1")) /\ WF_syncVars(ServerGoesOn("n2"))
    /\ WF_syncVars(SyncGoesOn)
    /\ SF_syncVars(scenario = "follow" /\ Follow!BackfillsHere("n1"))
    /\ WF_syncVars(scenario = "follow" /\ Follow!BackfillsThere("n1"))

Spec == Init /\ [][Next]_vars /\ Fairness
---------------------------------------------------------------------------
TypeOK ==
    /\ scenario = "reorgs" => Reorgs!TypeOK
    /\ scenario = "behind" => Behind!TypeOK
    /\ scenario = "follow" => Follow!TypeOK
    /\ scenario = "mutual" => Mutual!TypeOK

PlanIsFresh ==
    /\ scenario = "reorgs" => Reorgs!PlanIsFresh
    /\ scenario = "behind" => Behind!PlanIsFresh
    /\ scenario = "mutual" => Mutual!PlanIsFresh

\* A plan that ApplyReorg is about to apply was made for the chain that is stored,
\* so no step of a node without upstreams replaces its chain by one with less
\* work, whatever was mined or received between a plan and its application, and
\* no reorganisation disconnects more blocks than its limit.
ReorgIsJustified ==
    /\ [](TypeOK /\ PlanIsFresh)
    /\ [][/\ scenario = "reorgs" => Reorgs!KeepsWork /\ Reorgs!ReorgsShallowly
          /\ scenario = "behind" => Behind!KeepsWork
          /\ scenario = "mutual" => Mutual!KeepsWork]_vars

InReach ==
    /\ scenario = "behind" => Behind!InReach("n1")
    /\ scenario = "follow" => Follow!InReach("n1")

Settled ==
    /\ scenario = "behind" => Behind!CaughtUp("n1")
    /\ scenario = "follow" => Follow!CaughtUp("n1") /\ ~Follow!Lacks("n2", "n1")

StatusIsTrue(n) == scenario \in {"behind", "follow"} => status[n] = chain[n]

\* Once mining and faults have stopped, a node ends up with as much work as its peer,
\* through a lost call or a crash; an upstream that is merely behind is given what it
\* lacks; and the cached status of a node catches up with its chain again and again.
\* That is so once the peer is no longer bad, whether or not it was before, and no
\* further ahead than one synchronisation imports: the loop passes over a bad peer,
\* and a longer range is refused in every round.
CatchesUp == <>[]InReach => <>[]Settled /\ \A n \in {"n1", "n2"} : []<>StatusIsTrue(n)

\* One node of the two, which are alike.
Resting == scenario = "mutual" => at["n1"]["sync"] = "idle"

\* A round of the sync loop ends and gives its locks back, also when two nodes hold
\* their databases open and ask each other for blocks.
RoundsEnd == []<>Resting
===========================================================================
