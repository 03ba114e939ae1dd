--------------------------- MODULE RateLimiter ---------------------------
(***************************************************************************)
(* The in-memory rate limiter in front of every RPC handler: one bucket    *)
(* per client address and kind of endpoint, which counts the requests of   *)
(* one minute of the clock.  A request reads the clock and then waits for  *)
(* the mutex of the limiter.                                               *)
(***************************************************************************)
EXTENDS Integers, FiniteSets

CONSTANTS
    Client, Kind, Server, None,
    Enabled,        \* the kinds of endpoints that are switched on
    Limit,          \* requests per minute; 0 is no limit
    Minute,         \* in ticks of the clock
    MaxClock,       \* bound: the last tick
    MaxRequests     \* bound: requests of a run

LimiterAssumption ==
    /\ Enabled \subseteq Kind /\ None \notin [window : Nat, count : Nat]
    /\ {Limit, MaxClock, MaxRequests} \subseteq Nat /\ Minute \in Nat \ {0}

Key == Client \X Kind
Window(time) == time \div Minute

VARIABLES
    clock,
    buckets,    \* the minute and the count of each key
    request,    \* of each goroutine that serves: its key and the clock it has read
    served,     \* how many requests of a key and a minute went through
    turned,     \* how many were turned away
    arrived     \* how many requests there have been

vars == <<clock, buckets, request, served, turned, arrived>>

Init ==
    /\ clock = 0
    /\ buckets = [k \in Key |-> None]
    /\ request = [w \in Server |-> None]
    /\ served = [k \in Key |-> [m \in 0..Window(MaxClock) |-> 0]]
    /\ turned = served
    /\ arrived = 0

Arrive(w) ==
    /\ request[w] = None /\ arrived < MaxRequests
    /\ arrived' = arrived + 1
    /\ \E k \in Key :
          request' = IF k[2] \in Enabled THEN [request EXCEPT ![w] = [key |-> k, time |-> clock]] ELSE request
    /\ UNCHANGED <<clock, buckets, served, turned>>

\* Buckets that are two minutes old go with every request.
Swept(time) == [k \in Key |-> IF buckets[k] # None /\ time - buckets[k].window * Minute > 2 * Minute THEN None ELSE buckets[k]]

\* Mutated form: a bucket is kept for the next minute.
CountedOn(bucket, window) ==
    IF bucket = None THEN [window |-> window, count |-> 1] ELSE [bucket EXCEPT !.count = @ + 1]

Counted(bucket, window) ==
    IF bucket = None \/ bucket.window # window THEN [window |-> window, count |-> 1]
    ELSE [bucket EXCEPT !.count = @ + 1]

\* Mutated form: one request too many.
AllowsOneMore(count) == Limit = 0 \/ count <= Limit + 1

Allows(count) == Limit = 0 \/ count <= Limit

Allow(w) ==
    /\ request[w] # None
    /\ LET k == request[w].key
           m == Window(request[w].time)
           bucket == Counted(Swept(request[w].time)[k], m)
       IN  /\ buckets' = IF Limit = 0 THEN buckets ELSE [Swept(request[w].time) EXCEPT ![k] = bucket]
           /\ served' = IF Allows(bucket.count) THEN [served EXCEPT ![k][m] = @ + 1] ELSE served
           /\ turned' = IF Allows(bucket.count) THEN turned ELSE [turned EXCEPT ![k][m] = @ + 1]
    /\ request' = [request EXCEPT ![w] = None]
    /\ UNCHANGED <<clock, arrived>>

Tick ==
    /\ clock < MaxClock
    /\ clock' = clock + 1
    /\ UNCHANGED <<buckets, request, served, turned, arrived>>

Next == Tick \/ \E w \in Server : Arrive(w) \/ Allow(w)

Spec == Init /\ [][Next]_vars
---------------------------------------------------------------------------
\* No more requests of a client to a kind of endpoint go through in a minute
\* than the limit, whichever requests overlap.
MinuteIsLimited ==
    Limit > 0 => \A k \in Key : \A m \in DOMAIN served[k] : served[k][m] <= Limit

\* The first request of a minute goes through, whatever the minutes before and
\* the requests that still wait for the mutex with an older clock have left in
\* the bucket: nobody is turned away in a minute in which nobody was served.
FirstIsServed ==
    Limit > 0 => \A k \in Key : \A m \in DOMAIN served[k] : turned[k][m] > 0 => served[k][m] > 0

\* Requests are counted in the order in which they read the clock: they have all
\* come in one minute, or do not overlap.
InOrder == clock < Minute \/ \A v, w \in Server : v = w

\* What the limiter promises.
RateIsLimited == FirstIsServed /\ (InOrder => MinuteIsLimited)
===========================================================================
