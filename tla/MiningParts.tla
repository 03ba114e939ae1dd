--------------------------- MODULE MiningParts ---------------------------
(***************************************************************************)
(* The parts that mine outside block production, each an instance of its   *)
(* module over variables of its own, and what each promises while a        *)
(* scenario is about it: the search of the CPU miner, the loop of the      *)
(* standalone miners beside a node, and the mining jobs of a node.         *)
(***************************************************************************)
EXTENDS Scenarios

CONSTANTS
    Threads, MaxNonce, MaxSolutions, Stoppable,                  \* of CPUMiner
    Miner, MaxBlocks, Once, Retry, Faults, MaxFaults, MaxMoves,  \* of Indominer
    Worker, MaxRequested, MaxJobs                                \* of MiningJobs

VARIABLES
    solutions, at, nonce, tried, results, errs, cancelled, stopped, done, caller, returned,
    chain, made, moves, miner, accepted, rpcErrors, wire, reply, taken, faults,
    job, jobs, stage, left, committed

Search == INSTANCE CPUMiner
Miners == INSTANCE Indominer
Jobs == INSTANCE MiningJobs WITH at <- stage
---------------------------------------------------------------------------
\* What the search returns without an error is a solved block, no thread is left
\* behind when it returns, it gives up only after every nonce was tried or a
\* thread found one, and the threads share the nonces: none is hashed twice, up to
\* the end of the range.
SearchIsRight ==
    /\ [](scenario = "search" =>
            Search!TypeOK /\ Search!NoErrorIsSolved /\ Search!NoThreadIsLeft /\ Search!NothingIsSkipped)
    /\ [][scenario = "search" => Search!SharesWork]_(Search!vars)

\* What a miner counts as accepted the node has taken, every block that the node
\* took without being counted cost the miner an error it could see, and a miner
\* that gets its answers has no more blocks taken than it was asked to mine:
\* --max-blocks, or one.
CountIsTrue ==
    scenario = "racing" => Miners!TypeOK /\ Miners!CountIsTrue /\ Miners!AskedIsMined

\* A job runs exactly as long as one handler works on it, so no failure leaves one
\* running that blocks every later request; its status says how many of its blocks
\* are in the chain, up to the one that is being recorded; and a finished job keeps
\* its outcome until the next one starts.
JobIsTrue ==
    /\ [](scenario = "jobs" => Jobs!RunningHasOneWorker /\ Jobs!StatusIsTrue)
    /\ [][scenario = "jobs" => Jobs!KeepsOutcome]_(Jobs!vars)
===========================================================================
