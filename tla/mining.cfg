\* The CPU miner's search, standalone miners and mining jobs.
SPECIFICATION Spec
CONSTANTS
    None = None
    \* Three threads that share a range which their stride does not divide.
    Threads = 3
    MaxNonce = 6
    MaxSolutions = 2
    Stoppable = TRUE
    \* A miner that stops after one block and one that runs once race beside a node
    \* that fails after a commit.
    Miner = {"m1", "m2"}
    MaxBlocks <- MCMaxBlocks
    Once = {"m2"}
    Retry = TRUE
    Faults = {"request", "search", "node"}
    MaxFaults = 1
    MaxMoves = 0
    \* Handlers of POST /mine on one node.
    Worker = {"w1", "w2", "w3"}
    MaxRequested = 3
    MaxJobs = 3
INVARIANT CountIsTrue
PROPERTIES
    SearchIsRight
    SearchEnds
    MinersFinish
    JobIsTrue
CHECK_DEADLOCK FALSE
