------------------------------ MODULE Faucet ------------------------------
(***************************************************************************)
(* The faucet of a testnet node: faucet_state.json, which limits what an   *)
(* address is paid, beside the mempool the payments go to.  Requests hold  *)
(* the mutex of transaction submission, so there is one at a time; blocks  *)
(* confirm pending payments at any moment.  Time is in ticks, and a stored *)
(* time loses the fraction of its second.                                  *)
(***************************************************************************)
EXTENDS Integers, FiniteSets

CONSTANTS
    Recipient, None,
    FaucetAmount,       \* the largest payment
    MaxPerAddress,      \* per day; 0 is no limit
    MinInterval,        \* between two payments to an address, in ticks
    Second, Day,        \* their lengths in ticks
    Funds,              \* the mature balance of the faucet's wallet
    Faults,             \* what goes wrong in a run: "crash", "disk"
    MaxTime, MaxFaults  \* bounds

\* What is assumed of the parameters.
FaucetAssumption ==
    /\ {MaxPerAddress, MinInterval, Funds, MaxTime, MaxFaults} \subseteq Nat
    /\ {FaucetAmount, Second, Day} \subseteq Nat \ {0}
    /\ Faults \subseteq {"crash", "disk"}
    /\ None \notin [last : Nat, day : Nat, daily : Nat]
    /\ None \notin [to : Recipient, amount : 1..FaucetAmount, time : 0..MaxTime, nonce : Nat]

VARIABLES
    now,
    requests,   \* faucet_state.json: per address the last request, its day and the sum of that day
    pool,       \* pending payments
    confirmed,  \* payments in blocks
    handler,    \* the request that is served: where it is, its recipient, amount and time
    unrecorded, \* history: payments that stay although their request ended before its record
    faults

vars == <<now, requests, pool, confirmed, handler, unrecorded, faults>>

\* The nonce of the faucet's wallet tells payments apart.
Paid == pool \cup confirmed
Payment(r, amount, time) == [to |-> r, amount |-> amount, time |-> time, nonce |-> Cardinality(Paid)]

\* The sum of the amounts, as the number of units that are paid.
Total(payments) == Cardinality({u \in payments \X (1..FaucetAmount) : u[2] <= u[1].amount})
Idle == [at |-> "idle", payment |-> None]

Init ==
    /\ now = 0
    /\ requests = [r \in Recipient |-> None]
    /\ pool = {} /\ confirmed = {}
    /\ handler = Idle
    /\ unrecorded = {}
    /\ faults = 0
---------------------------------------------------------------------------
ToSecond(time) == (time \div Second) * Second
DayOf(time) == time \div Day

TooSoon(r, time) == requests[r] # None /\ time - requests[r].last < MinInterval

Daily(r, time) == IF requests[r] = None \/ requests[r].day # DayOf(time) THEN 0 ELSE requests[r].daily

\* Mutated form: the payment itself is not counted.
OverLimitBefore(r, amount, time) == MaxPerAddress > 0 /\ Daily(r, time) > MaxPerAddress

OverLimit(r, amount, time) == MaxPerAddress > 0 /\ Daily(r, time) + amount > MaxPerAddress

\* A request passes the checks of the handler and of the state file, or is refused.
Request(r, amount) ==
    /\ handler.at = "idle"
    /\ amount \in 1..FaucetAmount
    /\ ~TooSoon(r, now) /\ ~OverLimit(r, amount, now)
    /\ handler' = [at |-> "pending", payment |-> Payment(r, amount, now)]
    /\ UNCHANGED <<now, requests, pool, confirmed, unrecorded, faults>>

\* Mutated form: what is pending is not spent yet.
SpendableInChain == Funds - Total(confirmed)

Spendable == Funds - Total(confirmed) - Total(pool)

\* createFaucetTransaction looks for a pending payment, makes the transaction
\* and admits it.
Admit ==
    LET p == handler.payment
        fails == (\E q \in pool : q.to = p.to) \/ Spendable < p.amount
    IN  /\ handler.at = "pending"
        /\ pool' = IF fails THEN pool ELSE pool \cup {p}
        /\ handler' = IF fails THEN Idle ELSE [handler EXCEPT !.at = "record"]
        /\ UNCHANGED <<now, requests, confirmed, unrecorded, faults>>

\* Mutated form: the time of the first request stays.
RecordedFirst(r, p) ==
    [last |-> IF requests[r] = None THEN ToSecond(p.time) ELSE requests[r].last,
     day |-> DayOf(p.time), daily |-> Daily(r, p.time) + p.amount]

Recorded(r, p) ==
    [last |-> ToSecond(p.time), day |-> DayOf(p.time), daily |-> Daily(r, p.time) + p.amount]

Record ==
    /\ handler.at = "record"
    /\ LET p == handler.payment
       IN  requests' = [requests EXCEPT ![p.to] = Recorded(p.to, p)]
    /\ handler' = Idle
    /\ UNCHANGED <<now, pool, confirmed, unrecorded, faults>>

\* The state cannot be saved: the client gets an error, and the payment leaves
\* the mempool unless that file cannot be written either, whose error is dropped.
RecordFails ==
    /\ handler.at = "record" /\ "disk" \in Faults /\ faults < MaxFaults
    /\ faults' = faults + 1
    /\ pool' \in {pool, pool \ {handler.payment}}
    /\ unrecorded' = unrecorded \cup ({handler.payment} \cap (pool' \cup confirmed))
    /\ handler' = Idle
    /\ UNCHANGED <<now, requests, confirmed>>
---------------------------------------------------------------------------
\* A block confirms pending payments.
Mine ==
    /\ \E payments \in SUBSET pool \ {{}} :
          /\ pool' = pool \ payments
          /\ confirmed' = confirmed \cup payments
    /\ UNCHANGED <<now, requests, handler, unrecorded, faults>>

Crash ==
    /\ "crash" \in Faults /\ faults < MaxFaults
    /\ faults' = faults + 1
    /\ unrecorded' = unrecorded \cup (IF handler.at = "record" THEN {handler.payment} ELSE {})
    /\ handler' = Idle
    /\ UNCHANGED <<now, requests, pool, confirmed>>

Tick ==
    /\ now < MaxTime
    /\ now' = now + 1
    /\ UNCHANGED <<requests, pool, confirmed, handler, unrecorded, faults>>

Next ==
    \/ \E r \in Recipient, amount \in 1..FaucetAmount : Request(r, amount)
    \/ Admit \/ Record \/ RecordFails \/ Mine \/ Crash \/ Tick

Spec == Init /\ [][Next]_vars
---------------------------------------------------------------------------
Limited == Paid \ unrecorded
LimitedTo(r, d) == {p \in Limited : p.to = r /\ DayOf(p.time) = d}

\* Every record has its type and sums up no more than the limit of a day.
TypeOK ==
    /\ now \in 0..MaxTime /\ faults \in 0..MaxFaults
    /\ handler.at \in {"idle", "pending", "record"}
    /\ \A r \in Recipient : requests[r] # None =>
          /\ requests[r].last \in 0..MaxTime /\ requests[r].day \in 0..DayOf(MaxTime)
          /\ MaxPerAddress > 0 => requests[r].daily \in 1..MaxPerAddress

\* An address is paid no more in a day than the operator allows, pending and
\* confirmed payments together, across the end of a day, but for payments whose
\* request ended between the mempool and the state file.
DailyLimitIsKept ==
    MaxPerAddress > 0 =>
        \A r \in Recipient, d \in 0..DayOf(MaxTime) : Total(LimitedTo(r, d)) <= MaxPerAddress

\* Two such payments to an address are the interval apart, less the fraction of
\* a second that the stored time loses.
GapIsNearlyKept ==
    \A p, q \in Limited : p # q /\ p.to = q.to /\ p.time <= q.time => q.time - p.time > MinInterval - Second

\* A failure lets one payment escape from the limits, whatever it was.
EscapesAreFew == Cardinality(unrecorded) <= faults

\* Payments never exceed what the faucet can spend, escaped ones included.
NeverOverspent == Total(Paid) <= Funds

\* What the faucet promises its operator: the funds whatever happens, and the
\* limits of an address but for one payment of at most FaucetAmount per failure.
FaucetIsBounded == TypeOK /\ NeverOverspent /\ DailyLimitIsKept /\ GapIsNearlyKept /\ EscapesAreFew
===========================================================================
