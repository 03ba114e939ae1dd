---------------------------- MODULE NodeParts ----------------------------
(***************************************************************************)
(* Two parts around the chain of a node, each an instance of its module    *)
(* over variables of its own, and what each promises while a scenario is   *)
(* about it: the rate limiter of the RPC server and the lock of the data   *)
(* directory.                                                              *)
(***************************************************************************)
EXTENDS Scenarios

CONSTANTS
    Client, Kind, Server, Enabled, Limit, Minute, MaxClock, MaxRequests,    \* of RateLimiter
    Node, Command, Stops, Resets, MaxErrors, Operator                       \* of DataDirLock

VARIABLES
    clock, buckets, request, served, turned, arrived,
    lock, node, command, errors

Limiter == INSTANCE RateLimiter
Dir == INSTANCE DataDirLock
---------------------------------------------------------------------------
\* No more requests of a client and a kind of endpoint go through in a minute than
\* the limit, whichever requests overlap within it; and the first request of a
\* minute goes through, whatever the minutes before and requests with an older
\* clock have left in the bucket.
RateIsLimited == scenario = "requests" => Limiter!RateIsLimited

\* At most one node is between taking the lock of a data directory and releasing
\* it, its lock file stays until that node releases it, only a crash leaves one
\* behind, and no command passes its check while a node runs.
OneNode ==
    /\ [](scenario = "crashes" => Dir!TypeOK /\ Dir!OneNode /\ Dir!RunningIsLocked)
    /\ [][scenario = "crashes" => Dir!RefusesCommands]_(Dir!vars)
===========================================================================
