------------------------- MODULE ForkChoiceCheck --------------------------
(***************************************************************************)
(* Every pair of chains a node can compare, and every history of block     *)
(* times, within bounds: the algorithms of ForkChoice against what they    *)
(* are for.                                                                *)
(***************************************************************************)
EXTENDS ForkChoice, Scenarios

CONSTANTS
    Difficulties,           \* difficulties that a branch may have
    Gaps,                   \* seconds between two blocks
    MaxHeight, MaxMined     \* bounds on the chains of a pair and on a history

CheckAssumption ==
    /\ ForkChoiceAssumption
    /\ Difficulties \subseteq Nat /\ Gaps \subseteq Int /\ MaxHeight \in Nat /\ MaxMined \in Nat

VARIABLES local, peer

chainVars == <<local, peer>>

AtGenesis == local = <<>> /\ peer = <<>>

ForkHeight == Max({h \in 0..Min({Len(local), Len(peer)}) : BlockAt(local, h) = BlockAt(peer, h)})

Mined(by, difficulty, time) == [by |-> by, difficulty |-> difficulty, timestamp |-> time]

\* All blocks of a branch have one difficulty.
Continues(chain, difficulty) == Len(chain) > ForkHeight => Last(chain).difficulty = difficulty

ExtendBoth ==
    /\ local = peer
    /\ Len(local) < MaxHeight
    /\ local' = Append(local, Mined("both", 1, 0))
    /\ peer' = local'

ExtendLocal ==
    /\ Len(local) < MaxHeight
    /\ \E d \in Difficulties :
        /\ Continues(local, d)
        /\ local' = Append(local, Mined("local", d, 0))
    /\ UNCHANGED peer

ExtendPeer ==
    /\ Len(peer) < MaxHeight
    /\ \E d \in Difficulties :
        /\ Continues(peer, d)
        /\ peer' = Append(peer, Mined("peer", d, 0))
    /\ UNCHANGED local

Extend == ExtendBoth \/ ExtendLocal \/ ExtendPeer

\* A miner sets the timestamp, which may lie before that of its parent.
MineNext ==
    /\ Len(local) < MaxMined
    /\ \E gap \in Gaps :
        local' = Append(local, Mined("local", CalculateNextDifficulty(local),
                                     (IF local = <<>> THEN 0 ELSE Last(local).timestamp) + gap))
    /\ UNCHANGED peer

AnyPair == AtGenesis /\ [][Extend]_chainVars
AnyHistory == AtGenesis /\ [][MineNext]_chainVars

---------------------------------------------------------------------------
Ancestor(chain, other) == FindCommonAncestor(chain, BuildBlockLocator(other))
Branch(chain, from) == [i \in 1..(Len(chain) - from) |-> BlockAt(chain, from + i)]
Decision(chain, other) == Decide(chain, Ancestor(chain, other), Branch(other, Ancestor(chain, other)))

\* The ancestor that a plan starts from is on both chains, and though a
\* locator skips heights, it lies no further below the fork than the peer's
\* branch is long: the depth of a plan is never more than both branches
\* together.
AncestorIsNear ==
    LET ancestor == Ancestor(local, peer)
    IN  /\ ancestor \in 0..ForkHeight
        /\ ForkHeight - ancestor <= Len(peer) - ForkHeight

\* Two nodes that look at each other's chains never both switch: when one of
\* them takes the other's branch, the other keeps its own.
OneSideGives ==
    Decision(local, peer) = "reorg_apply_higher_work" => Decision(peer, local) = "local_ahead_more_work"

\* A chain that contains another one is preferred to it, and is not when its
\* work has reached the largest uint64, where every chain ties.
LongerIsHeavier ==
    IsOn(local, peer) /\ local # peer =>
        Decision(local, peer) = IF CalculateCumulativeWork(local) = MaxWork
                                THEN "fork_tie_same_work" ELSE "reorg_apply_higher_work"

\* fork check never calls a fork by another name, and finds out that the peer
\* is ahead or level.
NoForkIsMissed ==
    LET status == ForkStatus(local, peer, Ancestor(peer, local))
    IN  IF IsOn(local, peer) THEN status = IF local = peer THEN "in_sync" ELSE "peer_ahead"
        ELSE ~IsOn(peer, local) => status = "fork"

---------------------------------------------------------------------------
\* The difficulty moves by at most one between two blocks, and only behind a
\* block that completes a window.
DifficultyMovesSlowly ==
    \A h \in 2..Len(local) :
        LET change == local[h].difficulty - local[h - 1].difficulty
        IN  /\ change \in -1..1
            /\ change # 0 => (h - 1) % RetargetWindow = 0

\* A difficulty that moves was announced: chain difficulty said that no block
\* was left before the retarget.
AnnouncesRetarget ==
    local # <<>> /\ Last(local').difficulty # Last(local).difficulty => BlocksUntilRetarget(local) = 0

\* A window that was mined too fast never makes mining easier, and one that
\* was too slow never makes it harder.
RetargetFollowsTime ==
    \A h \in RetargetWindow..(Len(local) - 1) :
        LET span == local[h].timestamp - local[h - RetargetWindow + 1].timestamp
            change == local[h + 1].difficulty - local[h].difficulty
        IN  h % RetargetWindow = 0 =>
                /\ change < 0 => span > TargetBlockTime * (RetargetWindow - 1)
                /\ change > 0 => span < TargetBlockTime * (RetargetWindow - 1) \/ span <= 0

---------------------------------------------------------------------------
\* The ancestor of a plan is on both chains and no further below the fork than
\* the peer's branch is long, though a locator skips heights; two nodes that look
\* at each other's chains never both switch; a chain that contains another one is
\* preferred to it until the work of both has reached the largest uint64, where
\* every chain ties; and fork check never calls a fork by another name.
ForkChoiceIsSound == scenario = "pairs" => AncestorIsNear /\ OneSideGives /\ LongerIsHeavier /\ NoForkIsMissed

\* CalculateNextDifficulty moves by at most one and only behind a complete window,
\* which chain difficulty has announced; a window mined too fast never makes
\* mining easier, one too slow never harder, whatever the miners' clocks say.
RetargetIsSound ==
    /\ [](scenario = "times" => DifficultyMovesSlowly /\ RetargetFollowsTime)
    /\ [][scenario = "times" => AnnouncesRetarget]_chainVars
===========================================================================
