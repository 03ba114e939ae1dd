------------------------------ MODULE MCNode ------------------------------
(***************************************************************************)
(* What the goroutines and processes around the chain of a node share: its *)
(* locks, its peers file, its lock file and its rate limiter.  A behaviour *)
(* is one of a few scenarios, each an instance of one component with the   *)
(* parameters of the case it is about; the other components rest.          *)
(***************************************************************************)
EXTENDS Integers, FiniteSets, Sequences, NodeParts

VARIABLES
    held, runs, pc, callee,
    peers, todo, read, stored, up

lockVars == <<held, runs, pc, callee>>
peerVars == <<peers, todo, read, stored, up>>
dirVars == <<lock, node, command, errors>>
rateVars == <<clock, buckets, request, served, turned, arrived>>
vars == <<scenario, lockVars, peerVars, dirVars, rateVars>>

LocksRest == held = None /\ runs = None /\ pc = None /\ callee = None
PeersRest == peers = None /\ todo = None /\ read = None /\ stored = None /\ up = None
DirRest == lock = None /\ node = None /\ command = None /\ errors = None
RateRest ==
    /\ clock = None /\ buckets = None /\ request = None
    /\ served = None /\ turned = None /\ arrived = None
---------------------------------------------------------------------------
\* Every handler of two nodes with one goroutine each, and the handler that
\* announces with a lock taken on nodes with two.
AllHandlers == {"query", "faucetRequest", "send", "stakeChange", "mempoolClear", "minerTemplate",
    "minerSubmit", "mine", "receiveBlock", "receiveTx", "syncRound", "reorgRound", "reorgPreview",
    "reorgApply", "peerSync", "loopBackfill", "upstreamPush", "forkCheck"}

Locks == INSTANCE NodeLocks WITH Node <- {"n1", "n2"}, Slot <- {1}, Handlers <- AllHandlers
Waits == INSTANCE NodeLocks WITH Node <- {"n1", "n2"}, Slot <- {1, 2}, Handlers <- {"minerSubmit"}

\* One goroutine that scores peers on every path, with the thresholds of the node;
\* two that overlap; one peer that comes and goes; discovery.
Marks == INSTANCE PeerStore WITH
    Peer <- {"p1"}, Worker <- {"w1"}, Seeds <- {"p1"},
    Ops <- {"sync", "broadcast", "maintain", "add", "flap"}, MaxPeers <- 1,
    ScoreMin <- -25, ScoreMax <- 5, BadThreshold <- -20,
    Foreign <- {"p1"}, Latencies <- {-2, 2}
Races == INSTANCE PeerStore WITH
    Peer <- {"p1", "p2"}, Worker <- {"w1", "w2"}, Seeds <- {"p1"},
    Ops <- {"introduce", "remove", "check"}, MaxPeers <- 2,
    ScoreMin <- -1, ScoreMax <- 1, BadThreshold <- -1,
    Foreign <- {}, Latencies <- {2}
Retry == INSTANCE PeerStore WITH
    Peer <- {"p1"}, Worker <- {"w1"}, Seeds <- {"p1"},
    Ops <- {"maintain", "prune", "flap"}, MaxPeers <- 1,
    ScoreMin <- -32, ScoreMax <- 8, BadThreshold <- -20,
    Foreign <- {}, Latencies <- {2}
Discovery == INSTANCE PeerStore WITH
    Peer <- {"p1", "p2", "p3"}, Worker <- {"w1"}, Seeds <- {"p1"},
    Ops <- {"discover"}, MaxPeers <- 2,
    ScoreMin <- -2, ScoreMax <- 2, BadThreshold <- -2,
    Foreign <- {}, Latencies <- {2}

\* Beside the nodes of NodeParts, which crash and fail to start: nodes that only
\* fail; and one node that is stopped and a directory that is reset.
Restarts == INSTANCE DataDirLock WITH
    Node <- {"n1", "n2"}, Command <- {"c1"}, Stops <- {},
    Resets <- FALSE, MaxErrors <- 2, Operator <- FALSE
Stopped == INSTANCE DataDirLock WITH
    Node <- {"n1"}, Command <- {"c1", "c2"}, Stops <- {"graceful"},
    Resets <- TRUE, MaxErrors <- 3, Operator <- TRUE

ASSUME ParametersAreRight ==
    /\ Locks!LocksAssumption /\ Waits!LocksAssumption
    /\ Marks!PeerAssumption /\ Races!PeerAssumption /\ Retry!PeerAssumption /\ Discovery!PeerAssumption
    /\ Dir!LockAssumption /\ Restarts!LockAssumption /\ Stopped!LockAssumption
    /\ Limiter!LimiterAssumption
---------------------------------------------------------------------------
Init ==
    \/ /\ PeersRest /\ DirRest /\ RateRest
       /\ \/ scenario = "locks" /\ Locks!Init
          \/ scenario = "waits" /\ Waits!Init
    \/ /\ LocksRest /\ DirRest /\ RateRest
       /\ \/ scenario = "marks" /\ Marks!Init
          \/ scenario = "races" /\ Races!Init
          \/ scenario = "retry" /\ Retry!Init
          \/ scenario = "discovery" /\ Discovery!Init
    \/ /\ LocksRest /\ PeersRest /\ RateRest
       /\ \/ scenario = "crashes" /\ Dir!Init
          \/ scenario = "restarts" /\ Restarts!Init
          \/ scenario = "stopped" /\ Stopped!Init
    \/ /\ LocksRest /\ PeersRest /\ DirRest
       /\ scenario = "requests" /\ Limiter!Init

LockStep ==
    /\ \/ scenario = "locks" /\ Locks!Next
       \/ scenario = "waits" /\ Waits!Next
    /\ UNCHANGED <<scenario, peerVars, dirVars, rateVars>>

PeerStep ==
    /\ \/ scenario = "marks" /\ Marks!Next
       \/ scenario = "races" /\ Races!Next
       \/ scenario = "retry" /\ Retry!Next
       \/ scenario = "discovery" /\ Discovery!Next
    /\ UNCHANGED <<scenario, lockVars, dirVars, rateVars>>

DirStep ==
    /\ \/ scenario = "crashes" /\ Dir!Next
       \/ scenario = "restarts" /\ Restarts!Next
       \/ scenario = "stopped" /\ Stopped!Next
    /\ UNCHANGED <<scenario, lockVars, peerVars, rateVars>>

RateStep ==
    /\ scenario = "requests" /\ Limiter!Next
    /\ UNCHANGED <<scenario, lockVars, peerVars, dirVars>>

Next == LockStep \/ PeerStep \/ DirStep \/ RateStep

\* The fairness of the components, for the scenarios that are about liveness.  That
\* of the goroutines of n1 is enough for its handlers to return: n2 may stop.
Fairness ==
    /\ \A w \in {"n1"} \X {1, 2} :
          /\ WF_lockVars(scenario = "waits" /\ Waits!GoesOn(w))
          /\ SF_lockVars(scenario = "waits" /\ Waits!GetsLock(w))
    /\ WF_peerVars(scenario = "retry" /\ Retry!Step("w1"))
    /\ WF_peerVars(scenario = "retry" /\ Retry!MaintainPeers("w1", "p1"))
    /\ WF_peerVars(scenario = "retry" /\ Retry!CooldownEnds("p1"))
    /\ WF_peerVars(scenario = "retry" /\ Retry!RetryDue("p1"))
    /\ \A p \in {"n1", "n2"} : WF_dirVars(scenario = "restarts" /\ Restarts!NodeSteps(p))

Spec == Init /\ [][Next]_vars /\ Fairness
---------------------------------------------------------------------------
\* One goroutine of the four, which are all alike.
Idle == scenario = "waits" => ~Waits!Running(<<"n1", 1>>)

\* No goroutine of a node waits for a lock that it holds itself, no lock outlives
\* its handler, and every handler returns, whatever the others hold and whatever
\* call to another node they wait for.
HandlersReturn ==
    /\ [](/\ scenario = "locks" => Locks!TypeOK /\ Locks!NoSelfWait
          /\ scenario = "waits" => Waits!TypeOK /\ Waits!NoSelfWait)
    /\ []<>Idle

\* A peer stays in the peers file until it is removed or pruned, however
\* introductions, removals and checks overlap, and the maintenance does not prune
\* a seed that it has found again.  Status and score of a stored peer agree
\* whichever writer was last, and the file holds no more than MaxPeers as long as
\* one goroutine at a time adds candidates that answer.
PeersAreKept ==
    /\ [](/\ scenario = "marks" => Marks!TypeOK /\ Marks!BadIsMarked
          /\ scenario = "races" => Races!TypeOK
          /\ scenario = "retry" => Retry!TypeOK /\ Retry!BadIsMarked
          /\ scenario = "discovery" => Discovery!TypeOK /\ Discovery!BadIsMarked /\ Discovery!StoreIsBounded)
    /\ [][/\ scenario = "races" => Races!KeepsPeers
          /\ scenario = "marks" => Marks!KeepsPeers
          /\ scenario = "retry" => Retry!KeepsSeeds]_vars

\* A peer that was lost, however often, and that answers again for good before it
\* was marked bad is found again by the maintenance and remains active: no failure
\* that is still being written, no retry that was put off and no cooldown leaves it
\* offline.
OfflineIsRetried ==
    <>[](scenario = "retry" => Retry!Answers("p1")) => <>[](scenario = "retry" => Retry!Found("p1"))

\* Failed starts do not keep a node from starting: once they end, one runs for good.
NodeComesBack == <>[](scenario = "restarts" => Restarts!OneRuns)
===========================================================================
