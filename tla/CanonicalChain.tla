-------------------------- MODULE CanonicalChain --------------------------
(***************************************************************************)
(* What chain.Blockchain promises of its store: at every moment there is   *)
(* one valid chain, together with exactly the state its replay gives.  The *)
(* chain grows by a block or switches to another branch in one step.       *)
(* Validity and the state that belongs to a chain are parameters.          *)
(***************************************************************************)
EXTENDS Integers, Sequences

CONSTANTS
    Bodies,                 \* the blocks that miners of the instance can produce
    MaxHeight,              \* bound on the chain height
    ValidChain(_),          \* the blocks of a chain apply one after the other
    SnapshotForBlocks(_)    \* the state that replaying a chain gives

VARIABLES
    chain,      \* the canonical chain
    state       \* the snapshot clients read balances and nonces from

vars == <<chain, state>>

Init ==
    /\ chain = <<>>
    /\ state = SnapshotForBlocks(<<>>)

\* Whatever the new chain is, it is valid and its state comes with it.
Adopt ==
    /\ Len(chain') \in 1..MaxHeight
    /\ \A h \in 1..Len(chain') : chain'[h] \in Bodies
    /\ ValidChain(chain')
    /\ state' = SnapshotForBlocks(chain')

\* SaveBlockAndState
Extend == Len(chain') = Len(chain) + 1 /\ SubSeq(chain', 1, Len(chain)) = chain

\* ReplaceFromHeightAndState: a reorganisation may replace every block but
\* genesis, and needs a block to replace.
Switch == Len(chain) > 0

Next == Adopt /\ (Extend \/ Switch)

Spec == Init /\ [][Next]_vars
===========================================================================
