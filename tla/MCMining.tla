----------------------------- MODULE MCMining ------------------------------
(***************************************************************************)
(* Mining: the search of the CPU miner, the loop of the standalone miners  *)
(* beside a node, and the mining jobs of a node.  A behaviour is one of a  *)
(* few scenarios; what it is not about rests.                              *)
(***************************************************************************)
EXTENDS Integers, MiningParts

searchVars == <<solutions, at, nonce, tried, results, errs, cancelled, stopped, done, caller, returned>>
loopVars == <<chain, made, moves, miner, accepted, rpcErrors, wire, reply, taken, faults>>
jobVars == <<job, jobs, stage, left, committed>>
vars == <<scenario, searchVars, loopVars, jobVars>>

SearchRests ==
    /\ solutions = None /\ at = None /\ nonce = None /\ tried = None /\ results = None /\ errs = None
    /\ cancelled = None /\ stopped = None /\ done = None /\ caller = None /\ returned = None
LoopRests ==
    /\ chain = None /\ made = None /\ moves = None /\ miner = None /\ accepted = None
    /\ rpcErrors = None /\ wire = None /\ reply = None /\ taken = None /\ faults = None
JobsRest == job = None /\ jobs = None /\ stage = None /\ left = None /\ committed = None
---------------------------------------------------------------------------
\* One miner with --max-blocks races with one that runs --once.
MCMaxBlocks == [m1 |-> 1, m2 |-> 0]

\* Beside the searches, miners and handlers of MiningParts: two threads whose
\* search has to end, and one miner on a chain that moves again and again.
Short == INSTANCE CPUMiner WITH Threads <- 2, MaxNonce <- 4, MaxSolutions <- 2, Stoppable <- TRUE
Moving == INSTANCE Indominer WITH
    Miner <- {"m1"}, MaxBlocks <- [m1 |-> 1], Once <- {}, Retry <- TRUE, Faults <- {"request", "search"},
    MaxFaults <- 1, MaxMoves <- 3

ASSUME ParametersAreRight ==
    /\ Search!MinerAssumption /\ Short!MinerAssumption
    /\ Miners!IndominerAssumption /\ Moving!IndominerAssumption
    /\ Jobs!JobsAssumption
---------------------------------------------------------------------------
Init ==
    \/ /\ LoopRests /\ JobsRest
       /\ \/ scenario = "search" /\ Search!Init
          \/ scenario = "short" /\ Short!Init
    \/ /\ SearchRests /\ JobsRest
       /\ \/ scenario = "moving" /\ Moving!Init
          \/ scenario = "racing" /\ Miners!Init
    \/ SearchRests /\ LoopRests /\ scenario = "jobs" /\ Jobs!Init

SearchStep ==
    /\ \/ scenario = "search" /\ Search!Next
       \/ scenario = "short" /\ Short!Next
    /\ UNCHANGED <<scenario, loopVars, jobVars>>

LoopStep ==
    /\ \/ scenario = "moving" /\ Moving!Next
       \/ scenario = "racing" /\ Miners!Next
    /\ UNCHANGED <<scenario, searchVars, jobVars>>

JobStep == scenario = "jobs" /\ Jobs!Next /\ UNCHANGED <<scenario, searchVars, loopVars>>

Next == SearchStep \/ LoopStep \/ JobStep

\* The fairness of CPUMiner and Indominer, as far as a scenario takes the step.
\* Where the chain moves nothing is said of how soon a search finds a nonce.
Searching(t) == scenario = "short" /\ Short!Searching(t)
Calling == scenario = "short" /\ Short!Calling
Close == scenario = "short" /\ Short!Close
Working(m) ==
    \/ scenario = "moving" /\ m = "m1" /\ Moving!Working(m)
    \/ scenario = "racing" /\ Miners!Working(m)
Monitoring(m) ==
    \/ scenario = "moving" /\ m = "m1" /\ Moving!Monitoring(m)
    \/ scenario = "racing" /\ Miners!Monitoring(m)
Handling ==
    \/ scenario = "moving" /\ \E s \in wire : Moving!MinerSubmit(s)
    \/ scenario = "racing" /\ \E s \in wire : Miners!MinerSubmit(s)

Fairness ==
    /\ \A t \in {0, 1} : WF_searchVars(Searching(t))
    /\ WF_searchVars(Calling) /\ WF_searchVars(Close)
    /\ WF_loopVars(Handling)
    /\ \A m \in Miner :
          WF_loopVars(Working(m)) /\ WF_loopVars(Monitoring(m)) /\ SF_loopVars(scenario = "racing" /\ Miners!Found(m))

Spec == Init /\ [][Next]_vars /\ Fairness
---------------------------------------------------------------------------
\* The search ends, with a block or an error, stopped or not: no thread is stuck on
\* a full channel and no caller waits for a thread that has gone.
SearchEnds == <>(scenario = "short" => Short!Ended)

StaleJob == scenario = "moving" /\ Moving!MinesStaleJob("m1")

\* A miner with --max-blocks finishes, through lost answers, failed searches, stale
\* jobs and the race with other miners; and a job whose parent is no longer the tip
\* is dropped, also after a reorganisation that leaves the height alone, and
\* however long the search takes.
MinersFinish == <>(scenario = "racing" => Miners!Stopped("m1")) /\ (StaleJob ~> ~StaleJob)
===========================================================================
