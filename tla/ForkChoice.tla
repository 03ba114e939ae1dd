---------------------------- MODULE ForkChoice ----------------------------
(***************************************************************************)
(* The pure algorithms that compare two chains: proof-of-work weight, the  *)
(* difficulty of the next block, block locators and common ancestors, and  *)
(* the decision of a reorganisation plan.                                  *)
(*                                                                         *)
(* A chain is the sequence of its blocks above genesis.  A block commits   *)
(* to its parent, so the hash of the block at a height is the chain up to  *)
(* that height, and the empty sequence is the hash of genesis.             *)
(***************************************************************************)
EXTENDS Integers, Sequences, SequencesExt, FiniteSetsExt

CONSTANTS
    MaxWork,                \* the largest value of a uint64
    MaxReorgDepth,          \* blocks a reorganisation may disconnect
    MaxReorgFetchBlocks,    \* blocks it may fetch
    InitialDifficulty, MinDifficulty, MaxDifficulty,
    RetargetWindow,         \* blocks between two changes of the difficulty
    TargetBlockTime         \* seconds between two blocks

ForkChoiceAssumption ==
    /\ MaxWork \in Nat \ {0}
    /\ MaxReorgDepth \in Nat /\ MaxReorgFetchBlocks \in Nat
    /\ MinDifficulty \in Nat \ {0} /\ MaxDifficulty \in Nat
    /\ InitialDifficulty \in MinDifficulty..MaxDifficulty
    /\ RetargetWindow \in Nat \ {0} /\ TargetBlockTime \in Nat \ {0}

\* A block as far as the fork choice reads it, made distinct by its miner.
Block(Miner, Time) == [by : Miner, difficulty : Nat, timestamp : Time]

BlockAt(chain, height) == SubSeq(chain, 1, height)

Saturated(work) == Min({work, MaxWork})

\* Work is 16 ^ difficulty, one for genesis, and saturates.
CalculateBlockWork(difficulty) ==
    LET work[digit \in 0..difficulty] == IF digit = 0 THEN 1 ELSE Saturated(16 * work[digit - 1])
    IN  IF difficulty >= 16 THEN MaxWork ELSE work[difficulty]

AddWork(work, block) == Saturated(work + CalculateBlockWork(block.difficulty))

\* Mutated form: the sum wraps around.
WrappingWork(chain) ==
    LET Plus(work, block) == (work + CalculateBlockWork(block.difficulty)) % (MaxWork + 1)
    IN  FoldLeft(Plus, CalculateBlockWork(0), chain)

CalculateCumulativeWork(chain) ==
    LET work[h \in 0..Len(chain)] == IF h = 0 THEN CalculateBlockWork(0) ELSE AddWork(work[h - 1], chain[h])
    IN  work[Len(chain)]

\* Heights of a block locator, newest first: the tip, one and two below it, then
\* below that in steps that double, so that the distance from the tip doubles
\* too; genesis, where the loop ends, is the last one.
LocatorHeights(tip) ==
    LET distance[turn \in 0..tip] == IF turn <= 1 THEN turn ELSE 2 * distance[turn - 1]
        last == CHOOSE turn \in 0..tip : distance[turn] >= tip /\ (turn = 0 \/ distance[turn - 1] < tip)
    IN  Append([i \in 1..last |-> tip - distance[i - 1]], 0)

\* Mutated form: only the two ends of the chain.
LocatorOfEnds(chain) == <<chain, <<>>>>

BuildBlockLocator(chain) ==
    LET heights == LocatorHeights(Len(chain)) IN [i \in DOMAIN heights |-> BlockAt(chain, heights[i])]

IsOn(block, chain) == Len(block) <= Len(chain) /\ block = BlockAt(chain, Len(block))

NoAncestor == -1

\* Mutated form: the first entry below the tip is taken for shared.
AncestorByHeight(chain, locator) ==
    LET shared == {i \in DOMAIN locator : Len(locator[i]) <= Len(chain)}
    IN  IF shared = {} THEN NoAncestor ELSE Len(locator[Min(shared)])

\* Height of the first block of a locator that is on the chain.
FindCommonAncestor(chain, locator) ==
    LET shared == {i \in DOMAIN locator : IsOn(locator[i], chain)}
    IN  IF shared = {} THEN NoAncestor ELSE Len(locator[Min(shared)])

\* Blocks that follow each other, the first one on top of a block.
Linked(base, branch) ==
    \A i \in DOMAIN branch :
        /\ Len(branch[i]) = Len(base) + i
        /\ BlockAt(branch[i], Len(base) + i - 1) = IF i = 1 THEN base ELSE branch[i - 1]

WithBranch(base, branch) == IF branch = <<>> THEN base ELSE Last(branch)

\* Mutated form: any branch that is not lighter is taken.
DecideTies(local, ancestor, branch) ==
    LET full == [i \in 1..(ancestor + Len(branch)) |->
                    IF i <= ancestor THEN local[i] ELSE Last(branch[i - ancestor])]
    IN  CASE CalculateCumulativeWork(full) < CalculateCumulativeWork(local) -> "local_ahead_more_work"
          [] ~Linked(BlockAt(local, ancestor), branch) -> "peer_branch_invalid"
          [] OTHER -> "reorg_apply_higher_work"

\* The decision of a plan once the branch of the peer is fetched.  The work is
\* summed over the difficulties that the fetched blocks claim.
Decide(local, ancestor, branch) ==
    LET full == [i \in 1..(ancestor + Len(branch)) |->
                    IF i <= ancestor THEN local[i] ELSE Last(branch[i - ancestor])]
        localWork == CalculateCumulativeWork(local)
        peerWork == CalculateCumulativeWork(full)
    IN  CASE peerWork = localWork -> "fork_tie_same_work"
          [] peerWork < localWork -> "local_ahead_more_work"
          [] ~Linked(BlockAt(local, ancestor), branch) -> "peer_branch_invalid"
          [] OTHER -> "reorg_apply_higher_work"

\* Mutated form: no limit on the depth.
DecideAnyDepth(local, ancestor, peerHeight) ==
    IF peerHeight < ancestor \/ peerHeight - ancestor > MaxReorgFetchBlocks THEN "reorg_fetch_exceeds_max" ELSE "fetch"

\* The decision of a plan before anything is fetched.  The height that the
\* peer announced is older than its locator: a smaller one wraps to a distance
\* that no limit admits.
DecideRange(local, ancestor, peerHeight) ==
    CASE Len(local) - ancestor > MaxReorgDepth -> "reorg_depth_exceeds_max"
      [] peerHeight < ancestor \/ peerHeight - ancestor > MaxReorgFetchBlocks -> "reorg_fetch_exceeds_max"
      [] OTHER -> "fetch"

\* Status of fork check and fork inspect.
ForkStatus(local, peer, ancestor) ==
    CASE local = peer -> "in_sync"
      [] ancestor = Len(local) /\ Len(peer) > Len(local) -> "peer_ahead"
      [] ancestor = Len(peer) /\ Len(local) > Len(peer) -> "local_ahead"
      [] OTHER -> "fork"
---------------------------------------------------------------------------
ClampDifficulty(difficulty) == Max({MinDifficulty, Min({difficulty, MaxDifficulty})})

\* Mutated form: retarget on every block of a full window.
NextDifficultyEveryBlock(chain) ==
    LET tip == Last(chain)
        actual == tip.timestamp - chain[Len(chain) - RetargetWindow + 1].timestamp
    IN  IF chain = <<>> THEN InitialDifficulty
        ELSE IF Len(chain) < RetargetWindow THEN ClampDifficulty(tip.difficulty)
        ELSE ClampDifficulty(tip.difficulty + IF actual <= 0 THEN 1 ELSE 0)

\* Mutated form: a slow window counts as a fast one.
NextDifficultySwapped(chain) ==
    LET tip == Last(chain)
        actual == tip.timestamp - chain[Len(chain) - RetargetWindow + 1].timestamp
    IN  IF chain = <<>> THEN InitialDifficulty
        ELSE IF Len(chain) % RetargetWindow # 0 THEN ClampDifficulty(tip.difficulty)
        ELSE ClampDifficulty(tip.difficulty + IF actual > TargetBlockTime * (RetargetWindow - 1) THEN 1 ELSE 0)

CalculateNextDifficulty(chain) ==
    LET tip == Last(chain)
        actual == tip.timestamp - chain[Len(chain) - RetargetWindow + 1].timestamp
        expected == TargetBlockTime * (RetargetWindow - 1)
        change == CASE actual <= 0 \/ actual < expected \div 2 -> 1
                    [] actual > expected * 2 -> -1
                    [] OTHER -> 0
    IN  IF chain = <<>> THEN InitialDifficulty
        ELSE IF Len(chain) % RetargetWindow # 0 THEN ClampDifficulty(tip.difficulty)
        ELSE ClampDifficulty(tip.difficulty + change)

\* Mutated form: the block that completes the window still counts.
BlocksUntilRetargetLate(chain) == RetargetWindow - (Len(chain) % RetargetWindow)

BlocksUntilRetarget(chain) ==
    IF chain = <<>> THEN RetargetWindow ELSE (RetargetWindow - (Len(chain) % RetargetWindow)) % RetargetWindow
===========================================================================
