----------------------------- MODULE CPUMiner -----------------------------
(***************************************************************************)
(* cpuminer.Mine: the goroutines that search a nonce for a block template, *)
(* the channels on which they report and the select of the caller.  A      *)
(* goroutine that reports to a caller which waits in its select hands the  *)
(* value over; a caller that reaches the select later takes any case that  *)
(* is ready.                                                               *)
(***************************************************************************)
EXTENDS Integers, FiniteSets

CONSTANTS
    Threads,        \* how many goroutines search
    MaxNonce,       \* the largest nonce, 2^64 - 1 in the code
    MaxSolutions,   \* bound: how many nonces solve a block
    Stoppable,      \* whether the caller's context may be cancelled
    None

\* What is assumed of the parameters.
MinerAssumption ==
    /\ MaxNonce \in Nat /\ Threads \in 1..MaxNonce
    /\ MaxSolutions \in Nat /\ Stoppable \in BOOLEAN
    /\ None \notin Nat \cup [kind : {"block", "exhausted", "cancelled"}, nonce : {None} \cup Nat]

Thread == 0..(Threads - 1)
Nonce == 0..MaxNonce

VARIABLES
    solutions,  \* the nonces whose hash meets the target
    at, nonce,  \* where each thread is, and the nonce it tries
    tried,      \* the nonces that were hashed
    results,    \* the channel of one result
    errs,       \* how many threads reported that they ran out of nonces
    cancelled,  \* the context of the search
    stopped,    \* the context of the caller
    done,       \* the channel that is closed when all threads have ended
    caller,     \* where Mine itself is, and the result it holds
    returned    \* what Mine returned

vars == <<solutions, at, nonce, tried, results, errs, cancelled, stopped, done, caller, returned>>

\* Mutated form: every thread starts at the first nonce.
FirstNoncesZero == [t \in Thread |-> 0]

FirstNonces == [t \in Thread |-> t]

Init ==
    /\ solutions \in {s \in SUBSET Nonce : Cardinality(s) <= MaxSolutions}
    /\ at = [t \in Thread |-> "check"]
    /\ nonce = FirstNonces
    /\ tried = {}
    /\ results = None /\ errs = 0
    /\ cancelled = FALSE /\ stopped = FALSE /\ done = FALSE
    /\ caller = [at |-> "starting", result |-> None]
    /\ returned = None
---------------------------------------------------------------------------
ThreadAt(t, place) == at' = [at EXCEPT ![t] = place]
Wakes(place, result) == caller' = IF caller.at = "waiting" THEN [at |-> place, result |-> result] ELSE caller

Check(t) ==
    /\ at[t] = "check"
    /\ ThreadAt(t, IF cancelled THEN "ended" ELSE "hash")
    /\ UNCHANGED <<solutions, nonce, tried, results, errs, cancelled, stopped, done, caller, returned>>

\* Mutated form: the last nonces of the range are left out.
ExhaustedEarly(n) == n >= MaxNonce - Threads

\* The next nonce would overflow.
Exhausted(n) == n > MaxNonce - Threads

Hash(t) ==
    /\ at[t] = "hash"
    /\ tried' = tried \cup {nonce[t]}
    /\ IF nonce[t] \in solutions THEN ThreadAt(t, "offer") /\ UNCHANGED nonce
       ELSE IF Exhausted(nonce[t]) THEN ThreadAt(t, "exhausted") /\ UNCHANGED nonce
       ELSE ThreadAt(t, "check") /\ nonce' = [nonce EXCEPT ![t] = @ + Threads]
    /\ UNCHANGED <<solutions, results, errs, cancelled, stopped, done, caller, returned>>

\* Mutated form: a channel that holds the error of one thread.
ReportsOne(t) ==
    /\ at[t] = "exhausted" /\ errs < 1
    /\ errs' = errs + 1
    /\ ThreadAt(t, "ended")
    /\ UNCHANGED <<solutions, nonce, tried, results, cancelled, stopped, done, caller, returned>>

\* The channel of errors has room for every thread.
Report(t) ==
    /\ at[t] = "exhausted" /\ errs < Threads
    /\ errs' = errs + 1
    /\ ThreadAt(t, "ended")
    /\ UNCHANGED <<solutions, nonce, tried, results, cancelled, stopped, done, caller, returned>>

\* Only the first result is kept; its thread then cancels the others.
Offer(t) ==
    /\ at[t] = "offer"
    /\ ThreadAt(t, IF results = None THEN "cancel" ELSE "ended")
    /\ results' = IF results = None /\ caller.at # "waiting" THEN nonce[t] ELSE results
    /\ IF results = None THEN Wakes("found", nonce[t]) ELSE UNCHANGED caller
    /\ UNCHANGED <<solutions, nonce, tried, errs, cancelled, stopped, done, returned>>

Cancel(t) ==
    /\ at[t] = "cancel"
    /\ cancelled' = TRUE
    /\ ThreadAt(t, "ended")
    /\ Wakes("cancelled", None)
    /\ UNCHANGED <<solutions, nonce, tried, results, errs, stopped, done, returned>>

\* The caller's context is cancelled: the miner is stopped or the job is stale.
Stop ==
    /\ Stoppable /\ ~stopped
    /\ stopped' = TRUE /\ cancelled' = TRUE
    /\ Wakes("cancelled", None)
    /\ UNCHANGED <<solutions, at, nonce, tried, results, errs, done, returned>>

AllEnded == \A t \in Thread : at[t] = "ended"

\* The goroutine behind the wait group.
Close ==
    /\ AllEnded /\ ~done
    /\ done' = TRUE
    /\ Wakes("ended", None)
    /\ UNCHANGED <<solutions, at, nonce, tried, results, errs, cancelled, stopped, returned>>
---------------------------------------------------------------------------
\* The select, reached after the threads were started: one of the cases that
\* are ready, or none of them yet.
Select ==
    /\ caller.at = "starting"
    /\ \/ results # None /\ caller' = [at |-> "found", result |-> results] /\ results' = None
       \/ done /\ caller' = [at |-> "ended", result |-> None] /\ UNCHANGED results
       \/ cancelled /\ caller' = [at |-> "cancelled", result |-> None] /\ UNCHANGED results
       \/ /\ results = None /\ ~done /\ ~cancelled
          /\ caller' = [at |-> "waiting", result |-> None] /\ UNCHANGED results
    /\ UNCHANGED <<solutions, at, nonce, tried, errs, cancelled, stopped, done, returned>>

Block(n) == [kind |-> "block", nonce |-> n]
Error(kind) == [kind |-> kind, nonce |-> None]
Returns(answer) == returned' = answer /\ caller' = [at |-> "returned", result |-> None]
Quiet == UNCHANGED <<solutions, at, nonce, tried, results, errs, cancelled, stopped, done>>

\* Mutated form: the caller does not wait for the other threads.
ReturnFoundAtOnce ==
    /\ caller.at = "found"
    /\ Returns(Block(caller.result)) /\ Quiet

ReturnFound ==
    /\ caller.at = "found" /\ done
    /\ Returns(Block(caller.result)) /\ Quiet

\* ctx.Err() is no error as long as nobody has cancelled.
ReturnEnded ==
    /\ caller.at = "ended"
    /\ Returns(IF errs > 0 THEN Error("exhausted") ELSE IF cancelled THEN Error("cancelled") ELSE Block(None))
    /\ Quiet

ReturnCancelled ==
    /\ caller.at = "cancelled" /\ done
    /\ Returns(IF results # None THEN Block(results) ELSE Error("cancelled"))
    /\ Quiet

Searching(t) == Check(t) \/ Hash(t) \/ Report(t) \/ Offer(t) \/ Cancel(t)
Calling == Select \/ ReturnFound \/ ReturnEnded \/ ReturnCancelled

Next == Stop \/ Close \/ Calling \/ \E t \in Thread : Searching(t)

Spec == Init /\ [][Next]_vars

\* The Go scheduler runs every goroutine.
FairSpec ==
    /\ Spec
    /\ \A t \in Thread : WF_vars(Searching(t))
    /\ WF_vars(Close) /\ WF_vars(Calling)
---------------------------------------------------------------------------
\* Every variable has its type, and the channels keep their capacity.
TypeOK ==
    /\ solutions \subseteq Nonce /\ tried \subseteq Nonce
    /\ at \in [Thread -> {"check", "hash", "exhausted", "offer", "cancel", "ended"}]
    /\ nonce \in [Thread -> Nonce]
    /\ results \in {None} \cup Nonce /\ errs \in 0..Threads
    /\ caller.at \in {"starting", "waiting", "found", "ended", "cancelled", "returned"}

\* Whatever the search returns without an error is a solved block: the path that
\* returns the error of the context never runs before somebody has cancelled.
NoErrorIsSolved == returned # None /\ returned.kind = "block" => returned.nonce \in solutions

\* No thread is left behind when the search returns: the hash counter is final
\* and the next job starts with all of the processors.
NoThreadIsLeft == returned # None => AllEnded

\* The threads share the nonces: none is hashed twice, up to the end of the range.
SharesWork == \A t \in Thread : at[t] = "hash" /\ at'[t] # "hash" => nonce[t] \notin tried

\* The search gives up only after it has tried every nonce, or else after a
\* thread found one; nobody has stopped it.
NothingIsSkipped ==
    returned # None /\ returned.kind = "exhausted" /\ ~stopped => tried = Nonce \/ solutions \cap tried # {}

\* The search returns what it found, leaves nothing running, and tries every nonce
\* once.
SearchIsRight ==
    [](TypeOK /\ NoErrorIsSolved /\ NoThreadIsLeft /\ NothingIsSkipped) /\ [][SharesWork]_vars

\* The search has ended, with a block or an error.
Ended == returned # None
===========================================================================
