---------------------------- MODULE NodeProofs ----------------------------
(***************************************************************************)
(* Theorems about five parts beside the ledger, each under the assumption  *)
(* of its module and for every value of its constants: the rate limiter of *)
(* the RPC server and the lock of the data directory, which NodeParts      *)
(* brings together, the faucet and the explorer's index of ServiceParts,   *)
(* and the fork choice with the difficulty, which ForkChoiceCheck puts to  *)
(* the test.                                                               *)
(***************************************************************************)
EXTENDS FiniteSetTheorems, NodeParts, ServiceParts, ForkChoiceCheck, TLAPS

(***************************************************************************)
(* Time, in whole minutes and days.                                        *)
(***************************************************************************)

\* What a division by a positive number means.
LEMMA DivT ==
    ASSUME NEW a \in Nat, NEW d \in Nat \ {0}
    PROVE  a \div d \in Nat /\ (a \div d) * d <= a /\ a < (a \div d) * d + d
  BY SMT

\* Of two numbers the larger has the larger multiple, by the factor at least.
LEMMA MulMono ==
    ASSUME NEW x \in Nat, NEW y \in Nat, NEW d \in Nat \ {0}, x < y
    PROVE  x * d + d <= y * d
<1>1. PICK k \in Nat : y = x + 1 + k
  <2>1. y - x - 1 \in Nat /\ y = x + 1 + (y - x - 1)
    OBVIOUS
  <2> QED BY <2>1
<1>2. y * d = x * d + d + k * d
  BY <1>1, SMT
<1>3. k * d >= 0
  BY <1>1, SMT
<1> QED BY <1>2, <1>3, SMT

\* Division keeps the order.
LEMMA DivMono ==
    ASSUME NEW a \in Nat, NEW b \in Nat, NEW d \in Nat \ {0}, a <= b
    PROVE  a \div d <= b \div d
<1>1. SUFFICES ASSUME b \div d < a \div d PROVE FALSE
  BY DivT
<1>2. (b \div d) * d + d <= (a \div d) * d
  BY <1>1, DivT, MulMono
<1> QED BY <1>2, DivT, SMT

\* What is below the divisor is not there once.
LEMMA DivZero ==
    ASSUME NEW a \in Nat, NEW d \in Nat \ {0}, a < d
    PROVE  a \div d = 0
<1>1. SUFFICES ASSUME 0 < a \div d PROVE FALSE
  BY DivT
<1>2. 0 * d + d <= (a \div d) * d
  BY <1>1, DivT, MulMono
<1> QED BY <1>2, DivT, SMT

\* What is more than two minutes old belongs to an earlier minute.
LEMMA Older ==
    ASSUME NEW t \in Nat, NEW w \in Nat, NEW d \in Nat \ {0}, t - w * d > 2 * d
    PROVE  w < t \div d
<1>1. SUFFICES ASSUME t \div d <= w PROVE FALSE
  BY DivT
<1>2. (t \div d) * d <= w * d
  BY <1>1, DivT, MulMono, SMT
<1> QED BY <1>2, DivT, SMT

---------------------------------------------------------------------------
(***************************************************************************)
(* The rate limiter.                                                       *)
(***************************************************************************)

Minutes == 0..Limiter!Window(MaxClock)

RateType ==
    /\ clock \in 0..MaxClock
    /\ buckets \in [Limiter!Key -> {None} \cup [window : Minutes, count : Nat \ {0}]]
    /\ request \in [Server -> {None} \cup [key : Limiter!Key, time : Nat]]
    /\ \A w \in Server : request[w] # None => request[w].time <= clock
    /\ served \in [Limiter!Key -> [Minutes -> Nat]]
    /\ turned \in [Limiter!Key -> [Minutes -> Nat]]

\* A bucket that counts a minute was opened by a request that was served in it.
FirstInv ==
    \A k \in Limiter!Key :
        /\ buckets[k] # None => served[k][buckets[k].window] > 0
        /\ \A m \in Minutes : turned[k][m] > 0 => served[k][m] > 0

\* Requests come in order: no minute was served that is later than the bucket or a
\* request that waits.
OrderInv ==
    /\ \A k \in Limiter!Key : buckets[k] # None =>
          /\ served[k][buckets[k].window] <= buckets[k].count
          /\ served[k][buckets[k].window] <= Limit
          /\ buckets[k].window <= Limiter!Window(clock)
    /\ \A k \in Limiter!Key, m \in Minutes :
          /\ served[k][m] <= Limit
          /\ served[k][m] > 0 => m <= Limiter!Window(clock)
          /\ served[k][m] > 0 /\ buckets[k] # None => m <= buckets[k].window
          /\ served[k][m] > 0 /\ buckets[k] = None => m < Limiter!Window(clock)
          /\ \A w \in Server : served[k][m] > 0 /\ request[w] # None =>
                /\ m <= Limiter!Window(request[w].time)
                /\ buckets[k] = None => m < Limiter!Window(request[w].time)

RateInv ==
    Limit > 0 => RateType /\ FirstInv /\ (Limiter!InOrder => OrderInv)

\* The limiter starts without buckets.
LEMMA RateInit ==
    ASSUME Limiter!LimiterAssumption, Limiter!Init
    PROVE  RateInv
<1>1. MaxClock \in Nat /\ Minute \in Nat \ {0} /\ Limit \in Nat
  BY DEF Limiter!LimiterAssumption
<1>2. 0 \in 0..MaxClock
  BY <1>1
<1>3. \A k \in Limiter!Key : buckets[k] = None
  BY DEF Limiter!Init
<1>4. \A k \in Limiter!Key, m \in Minutes : served[k][m] = 0 /\ turned[k][m] = 0
  BY DEF Limiter!Init, Minutes
<1>5. \A w \in Server : request[w] = None
  BY DEF Limiter!Init
<1>6. RateType
  BY <1>1, <1>2 DEF Limiter!Init, RateType, Minutes
<1> QED
  BY <1>1, <1>3, <1>4, <1>5, <1>6 DEF RateInv, FirstInv, OrderInv

\* What a request that the limiter handles finds and leaves: the other buckets as
\* they were or swept, and its own with one more request, or with the first one of
\* its minute.
AllowEffect(w, k, t, m, b, swept) ==
    /\ request[w] # None /\ request[w].time = t
    /\ k \in Limiter!Key /\ t \in 0..MaxClock /\ m \in Minutes /\ t <= clock
    /\ m = Limiter!Window(t) /\ m <= Limiter!Window(clock)
    /\ swept = [j \in Limiter!Key |-> swept[j]]
    /\ \A j \in Limiter!Key :
          \/ swept[j] = buckets[j]
          \/ swept[j] = None /\ buckets[j] # None /\ buckets[j].window < m /\ t > 2 * Minute
    /\ b \in [window : Minutes, count : Nat \ {0}] /\ b.window = m
    /\ \/ b.count = 1 /\ (swept[k] = None \/ buckets[k].window # m)
       \/ buckets[k] # None /\ buckets[k].window = m /\ b.count = buckets[k].count + 1
    /\ buckets' = [swept EXCEPT ![k] = b]
    /\ served' = IF b.count <= Limit THEN [served EXCEPT ![k][m] = @ + 1] ELSE served
    /\ turned' = IF b.count <= Limit THEN turned ELSE [turned EXCEPT ![k][m] = @ + 1]
    /\ request' = [request EXCEPT ![w] = None] /\ clock' = clock

\* What Allow does to the buckets, swept or not.
LEMMA AllowFacts ==
    ASSUME Limiter!LimiterAssumption, RateType, Limit > 0, NEW w \in Server, Limiter!Allow(w)
    PROVE  \E k, t, m, b, swept : AllowEffect(w, k, t, m, b, swept)
<1>0. PICK k, t, m, swept, b : /\ k = request[w].key /\ t = request[w].time /\ m = Limiter!Window(t)
                              /\ swept = Limiter!Swept(t) /\ b = Limiter!Counted(swept[k], m)
  OBVIOUS
<1>1. MaxClock \in Nat /\ Minute \in Nat \ {0} /\ Limit \in Nat
  BY DEF Limiter!LimiterAssumption
<1>2. request[w] # None /\ request[w] \in [key : Limiter!Key, time : Nat] /\ t <= clock
  BY <1>0 DEF RateType, Limiter!Allow
<1>3. k \in Limiter!Key /\ t \in Nat /\ clock \in 0..MaxClock /\ t \in 0..MaxClock
  BY <1>0, <1>1, <1>2 DEF RateType
<1>4. m \in Nat /\ m <= Limiter!Window(clock) /\ m <= Limiter!Window(MaxClock) /\ Limiter!Window(MaxClock) \in Nat
  BY <1>0, <1>1, <1>2, <1>3, DivT, DivMono DEF Limiter!Window
<1>5. m \in Minutes
  BY <1>4 DEF Minutes
<1>6. ASSUME NEW j \in Limiter!Key
      PROVE  \/ swept[j] = buckets[j]
             \/ swept[j] = None /\ buckets[j] # None /\ buckets[j].window < m /\ t > 2 * Minute
  <2>1. swept[j] =
          IF buckets[j] # None /\ t - buckets[j].window * Minute > 2 * Minute THEN None ELSE buckets[j]
    BY <1>0 DEF Limiter!Swept
  <2>2. CASE buckets[j] # None /\ t - buckets[j].window * Minute > 2 * Minute
    <3>1. buckets[j].window \in Nat
      BY <1>4, <2>2 DEF RateType, Minutes
    <3>2. buckets[j].window < m
      BY <1>0, <1>1, <1>3, <2>2, <3>1, Older DEF Limiter!Window
    <3>3. buckets[j].window * Minute \in Nat
      BY <1>1, <3>1
    <3> QED
      BY <1>1, <1>3, <2>1, <2>2, <3>2, <3>3
  <2> QED
    BY <2>1, <2>2
<1>7. swept[k] = None \/ swept[k] \in [window : Minutes, count : Nat \ {0}]
  BY <1>3, <1>6 DEF RateType
<1>8. /\ b \in [window : Minutes, count : Nat \ {0}] /\ b.window = m
      /\ \/ b.count = 1 /\ (swept[k] = None \/ swept[k].window # m)
         \/ /\ swept[k] # None /\ swept[k].window = m
            /\ b.count = swept[k].count + 1
  BY <1>0, <1>5, <1>7 DEF Limiter!Counted
<1>9. swept[k] # None => swept[k] = buckets[k]
  BY <1>3, <1>6
<1>10. /\ buckets' = [swept EXCEPT ![k] = b]
       /\ served' = IF b.count <= Limit THEN [served EXCEPT ![k][m] = @ + 1] ELSE served
       /\ turned' = IF b.count <= Limit THEN turned ELSE [turned EXCEPT ![k][m] = @ + 1]
       /\ request' = [request EXCEPT ![w] = None] /\ clock' = clock
  BY <1>0, <1>1 DEF Limiter!Allow, Limiter!Allows
<1>11. swept = [j \in Limiter!Key |-> swept[j]]
  BY <1>0 DEF Limiter!Swept
<1>12. AllowEffect(w, k, t, m, b, swept)
  BY <1>0, <1>2, <1>3, <1>4, <1>5, <1>6, <1>8, <1>9, <1>10, <1>11 DEF AllowEffect
<1> QED
  BY <1>12

\* Every step keeps the types.
LEMMA RateTypeStep ==
    ASSUME Limiter!LimiterAssumption, Limit > 0, RateType, [Limiter!Next]_(Limiter!vars)
    PROVE  RateType'
<1>1. MaxClock \in Nat /\ Minute \in Nat \ {0} /\ Limit \in Nat
  BY DEF Limiter!LimiterAssumption
<1>2. CASE UNCHANGED Limiter!vars
  BY <1>2 DEF Limiter!vars, RateType
<1>3. CASE Limiter!Tick
  BY <1>1, <1>3 DEF Limiter!Tick, RateType
<1>4. ASSUME NEW w \in Server, Limiter!Arrive(w)
      PROVE  RateType'
  <2>1. PICK k \in Limiter!Key :
            request' = IF k[2] \in Enabled THEN [request EXCEPT ![w] = [key |-> k, time |-> clock]] ELSE request
    BY <1>4 DEF Limiter!Arrive
  <2>2. UNCHANGED <<clock, buckets, served, turned>>
    BY <1>4 DEF Limiter!Arrive
  <2> QED
    BY <1>1, <2>1, <2>2 DEF RateType
<1>5. ASSUME NEW w \in Server, Limiter!Allow(w)
      PROVE  RateType'
  <2>1. PICK k, t, m, b, swept : AllowEffect(w, k, t, m, b, swept)
    BY <1>5, AllowFacts
  <2>2. swept \in [Limiter!Key -> {None} \cup [window : Minutes, count : Nat \ {0}]]
    BY <2>1 DEF RateType, AllowEffect
  <2>3. buckets' \in [Limiter!Key -> {None} \cup [window : Minutes, count : Nat \ {0}]]
    BY <2>1, <2>2 DEF AllowEffect
  <2>4. served' \in [Limiter!Key -> [Minutes -> Nat]] /\ turned' \in [Limiter!Key -> [Minutes -> Nat]]
    BY <2>1 DEF RateType, AllowEffect
  <2> QED
    BY <2>1, <2>3, <2>4 DEF RateType, AllowEffect
<1> QED
  BY <1>2, <1>3, <1>4, <1>5 DEF Limiter!Next

\* No step turns a first request of a minute away.
LEMMA FirstStep ==
    ASSUME Limiter!LimiterAssumption, Limit > 0, RateType, FirstInv, [Limiter!Next]_(Limiter!vars)
    PROVE  FirstInv'
<1>1. MaxClock \in Nat /\ Minute \in Nat \ {0} /\ Limit \in Nat
  BY DEF Limiter!LimiterAssumption
<1>2. CASE UNCHANGED <<buckets, served, turned>>
  BY <1>2 DEF FirstInv
<1>3. CASE UNCHANGED Limiter!vars \/ Limiter!Tick \/ \E w \in Server : Limiter!Arrive(w)
  BY <1>2, <1>3 DEF Limiter!vars, Limiter!Tick, Limiter!Arrive
<1>4. ASSUME NEW w \in Server, Limiter!Allow(w)
      PROVE  FirstInv'
  <2>1. PICK k, t, m, b, swept : AllowEffect(w, k, t, m, b, swept)
    BY <1>4, AllowFacts
  <2>2. /\ k \in Limiter!Key /\ m \in Minutes
        /\ b \in [window : Minutes, count : Nat \ {0}] /\ b.window = m
        /\ buckets' = [swept EXCEPT ![k] = b]
        /\ served' = IF b.count <= Limit THEN [served EXCEPT ![k][m] = @ + 1] ELSE served
        /\ turned' = IF b.count <= Limit THEN turned ELSE [turned EXCEPT ![k][m] = @ + 1]
        /\ \A j \in Limiter!Key : swept[j] = buckets[j] \/ swept[j] = None
        /\ \/ b.count = 1
           \/ buckets[k] # None /\ buckets[k].window = m
    BY <2>1 DEF AllowEffect
  <2>3. buckets'[k] = b /\ \A j \in Limiter!Key : j # k => buckets'[j] = buckets[j] \/ buckets'[j] = None
    BY <2>1, <2>2 DEF AllowEffect
  <2>4. CASE b.count <= Limit
    <3>1. served' = [served EXCEPT ![k][m] = @ + 1] /\ turned' = turned
      BY <2>2, <2>4
    <3>2. /\ served'[k][m] = served[k][m] + 1
          /\ \A j \in Limiter!Key, i \in Minutes : j # k \/ i # m => served'[j][i] = served[j][i]
      BY <2>2, <3>1 DEF RateType
    <3>3. \A j \in Limiter!Key, i \in Minutes : served[j][i] \in Nat
      BY DEF RateType
    <3>4. \A j \in Limiter!Key, i \in Minutes : served'[j][i] > 0 \/ (served[j][i] = 0 /\ served'[j][i] = 0)
      BY <2>2, <3>2, <3>3
    <3>5. \A j \in Limiter!Key : buckets[j] # None => buckets[j].window \in Minutes
      BY DEF RateType
    <3>6. ASSUME NEW j \in Limiter!Key, buckets'[j] # None
          PROVE  served'[j][buckets'[j].window] > 0
      BY <2>2, <2>3, <3>2, <3>3, <3>4, <3>5, <3>6 DEF FirstInv
    <3>7. ASSUME NEW j \in Limiter!Key, NEW i \in Minutes, turned'[j][i] > 0
          PROVE  served'[j][i] > 0
      BY <3>1, <3>4, <3>7 DEF FirstInv
    <3> QED
      BY <3>6, <3>7 DEF FirstInv, Minutes
  <2>5. CASE ~ (b.count <= Limit)
    <3>1. buckets[k] # None /\ buckets[k].window = m /\ served[k][m] > 0
      BY <1>1, <2>2, <2>5 DEF FirstInv
    <3>2. served' = served /\ turned' = [turned EXCEPT ![k][m] = @ + 1]
      BY <2>2, <2>5
    <3>3. \A j \in Limiter!Key, i \in Minutes : j # k \/ i # m => turned'[j][i] = turned[j][i]
      BY <2>2, <3>2 DEF RateType
    <3>4. ASSUME NEW j \in Limiter!Key, buckets'[j] # None
          PROVE  served'[j][buckets'[j].window] > 0
      BY <2>2, <2>3, <3>1, <3>2, <3>4 DEF FirstInv
    <3>5. ASSUME NEW j \in Limiter!Key, NEW i \in Minutes, turned'[j][i] > 0
          PROVE  served'[j][i] > 0
      BY <3>1, <3>2, <3>3, <3>5 DEF FirstInv
    <3> QED
      BY <3>4, <3>5 DEF FirstInv, Minutes
  <2> QED
    BY <2>4, <2>5
<1> QED
  BY <1>3, <1>4 DEF Limiter!Next

\* A clock that is in its first minute has been there before.
LEMMA StaysInOrder ==
    ASSUME Limiter!LimiterAssumption, Limit > 0, RateType, [Limiter!Next]_(Limiter!vars), Limiter!InOrder'
    PROVE  Limiter!InOrder
<1>1. clock \in Int /\ Minute \in Int
  BY DEF RateType, Limiter!LimiterAssumption
<1>2. clock' = clock \/ clock' = clock + 1
  BY DEF Limiter!Next, Limiter!vars, Limiter!Tick, Limiter!Arrive, Limiter!Allow
<1> QED
  BY <1>1, <1>2 DEF Limiter!InOrder

\* While requests are handled in the order of their times, no step serves more
\* of them in a minute than the limit.
LEMMA OrderStep ==
    ASSUME Limiter!LimiterAssumption, Limiter!InOrder, Limit > 0,
           RateType, FirstInv, OrderInv, [Limiter!Next]_(Limiter!vars)
    PROVE  OrderInv'
<1>1. MaxClock \in Nat /\ Minute \in Nat \ {0} /\ Limit \in Nat
  BY DEF Limiter!LimiterAssumption
<1>2. CASE UNCHANGED Limiter!vars
  BY <1>2 DEF Limiter!vars, OrderInv, Limiter!Window
<1>3. CASE Limiter!Tick
  <2>1. UNCHANGED <<buckets, request, served>> /\ clock' = clock + 1 /\ clock \in Nat
    BY <1>1, <1>3 DEF Limiter!Tick, RateType
  <2>2. Limiter!Window(clock) <= Limiter!Window(clock') /\ Limiter!Window(clock) \in Nat /\ Limiter!Window(clock') \in Nat
    BY <1>1, <2>1, DivMono, DivT DEF Limiter!Window
  <2>3. Limiter!Window(clock)' = Limiter!Window(clock')
    BY DEF Limiter!Window
  <2>4. Limiter!Window(MaxClock) \in Nat
    BY <1>1, DivT DEF Limiter!Window
  <2>5. \A k \in Limiter!Key : buckets[k] # None => buckets[k].window \in Nat
    BY <2>4 DEF RateType, Minutes
  <2>6. \A m \in Minutes : m \in Nat
    BY <2>4 DEF Minutes
  <2>7. \A w \in Server : Limiter!Window(request[w].time)' = Limiter!Window(request[w].time)
    BY <2>1 DEF Limiter!Window
  <2> QED
    BY <2>1, <2>2, <2>3, <2>5, <2>6, <2>7 DEF OrderInv, Minutes
<1>4. ASSUME NEW w \in Server, Limiter!Arrive(w)
      PROVE  OrderInv'
  <2>1. UNCHANGED <<buckets, served, clock>>
    BY <1>4 DEF Limiter!Arrive
  <2>2. ASSUME NEW v \in Server, request'[v] # None
        PROVE  request'[v] = request[v] \/ request'[v].time = clock
    BY <1>4, <2>2 DEF Limiter!Arrive, RateType
  <2>3. Limiter!Window(clock)' = Limiter!Window(clock)
    BY <2>1 DEF Limiter!Window
  <2>4. ASSUME NEW v \in Server, request'[v] # None
        PROVE  \/ request[v] # None /\ Limiter!Window(request[v].time)' = Limiter!Window(request[v].time)
               \/ Limiter!Window(request[v].time)' = Limiter!Window(clock)
    BY <2>2, <2>4 DEF Limiter!Window
  <2>5. \A k \in Limiter!Key, m \in Minutes, v \in Server : served[k][m] > 0 /\ request'[v] # None =>
           /\ m <= Limiter!Window(request[v].time)'
           /\ buckets[k] = None => m < Limiter!Window(request[v].time)'
    BY <2>4 DEF OrderInv
  <2> QED
    BY <2>1, <2>3, <2>5 DEF OrderInv, Minutes
<1>5. ASSUME NEW w \in Server, Limiter!Allow(w)
      PROVE  OrderInv'
  <2>1. PICK k, t, m, b, swept : AllowEffect(w, k, t, m, b, swept)
    BY <1>5, AllowFacts
  <2>2. /\ k \in Limiter!Key /\ m \in Minutes /\ m \in Nat /\ m <= Limiter!Window(clock)
        /\ b \in [window : Minutes, count : Nat \ {0}] /\ b.window = m
        /\ Limiter!Window(clock)' = Limiter!Window(clock) /\ Limiter!Window(clock) \in Nat
    <3>0. clock \in Nat
      BY <1>1 DEF RateType
    <3>1. Limiter!Window(MaxClock) \in Nat /\ Limiter!Window(clock) \in Nat
      BY <1>1, <3>0, DivT DEF Limiter!Window
    <3>2. clock' = clock
      BY <2>1 DEF AllowEffect
    <3> QED
      BY <2>1, <3>1, <3>2 DEF AllowEffect, Minutes, Limiter!Window
  <2>3. \A i \in Minutes : i \in Nat
    BY <1>1, DivT DEF Limiter!Window, Minutes
  <2>4. /\ \A i \in Minutes : served[k][i] > 0 => i <= m
        /\ \A i \in Minutes : served[k][i] > 0 /\ buckets[k] = None => i < m
    BY <2>1, <2>2 DEF OrderInv, AllowEffect
  <2>5. buckets[k] # None => buckets[k].window \in Minutes /\ buckets[k].window <= m
    BY <2>2, <2>4 DEF RateType, FirstInv
  <2>6. served[k][m] \in Nat
    BY <2>2 DEF RateType
  <2>7. IF b.count <= Limit THEN served[k][m] + 1 <= b.count ELSE served[k][m] <= Limit
    <3>1. CASE b.count = 1 /\ (swept[k] = None \/ buckets[k].window # m)
      <4>1. served[k][m] = 0
        <5>1. CASE buckets[k] = None
          BY <2>2, <2>4, <2>6, <5>1
        <5>2. CASE buckets[k] # None
          <6>1. buckets[k].window < m
            BY <2>1, <2>2, <2>3, <2>5, <3>1, <5>2 DEF AllowEffect
          <6>2. served[k][m] > 0 => m <= buckets[k].window
            BY <2>2, <5>2 DEF OrderInv
          <6>3. buckets[k].window \in Nat
            BY <2>3, <2>5, <5>2
          <6> QED
            BY <2>2, <2>6, <6>1, <6>2, <6>3
        <5> QED
          BY <5>1, <5>2
      <4> QED
        BY <1>1, <3>1, <4>1
    <3>2. CASE buckets[k] # None /\ buckets[k].window = m /\ b.count = buckets[k].count + 1
      <4>1. served[k][m] <= buckets[k].count /\ served[k][m] <= Limit /\ buckets[k].count \in Nat
        BY <2>2, <3>2 DEF OrderInv, RateType
      <4> QED
        BY <1>1, <2>6, <3>2, <4>1
    <3> QED
      BY <2>1, <3>1, <3>2 DEF AllowEffect
  <2>8. /\ served'[k][m] <= b.count /\ served'[k][m] <= Limit
        /\ \A j \in Limiter!Key, i \in Minutes : j # k \/ i # m => served'[j][i] = served[j][i]
    <3>1. CASE b.count <= Limit
      <4>1. served' = [served EXCEPT ![k][m] = @ + 1]
        BY <2>1, <3>1 DEF AllowEffect
      <4>2. served'[k][m] = served[k][m] + 1
        BY <2>2, <4>1 DEF RateType
      <4>3. \A j \in Limiter!Key, i \in Minutes : j # k \/ i # m => served'[j][i] = served[j][i]
        BY <2>2, <4>1 DEF RateType
      <4> QED
        BY <1>1, <2>2, <2>6, <2>7, <3>1, <4>2, <4>3
    <3>2. CASE ~(b.count <= Limit)
      <4>1. served' = served
        BY <2>1, <3>2 DEF AllowEffect
      <4> QED
        BY <1>1, <2>2, <2>6, <2>7, <3>2, <4>1
    <3> QED
      BY <3>1, <3>2
  <2>16. b # None
    <3>1. b \in [window : Nat, count : Nat]
      BY <2>2, <2>3
    <3> QED
      BY <3>1 DEF Limiter!LimiterAssumption
  <2>9. buckets'[k] = b /\ \A j \in Limiter!Key : j # k => buckets'[j] = swept[j]
    BY <2>1 DEF AllowEffect
  <2>10. \A v \in Server : request'[v] # None =>
            v # w /\ request'[v] = request[v] /\ Limiter!Window(request[v].time)' = Limiter!Window(request[v].time)
    BY <2>1 DEF AllowEffect, RateType, Limiter!Window
  \* Another request that waits was read in the same minute.
  <2>11. ASSUME NEW v \in Server, request'[v] # None
         PROVE  clock < Minute /\ Limiter!Window(clock) = 0 /\ Limiter!Window(request[v].time) = 0
    <3>1. v # w /\ request[v] # None
      BY <2>10, <2>11
    <3>2. clock < Minute /\ clock \in Nat
      BY <1>1, <3>1 DEF Limiter!InOrder, RateType
    <3>3. request[v].time \in Nat /\ request[v].time < Minute
      BY <1>1, <3>1, <3>2 DEF RateType
    <3> QED
      BY <1>1, <3>2, <3>3, DivZero DEF Limiter!Window
  <2>12. ASSUME NEW j \in Limiter!Key, buckets'[j] # None
         PROVE  /\ served'[j][buckets'[j].window] <= buckets'[j].count
                /\ served'[j][buckets'[j].window] <= Limit
                /\ buckets'[j].window <= Limiter!Window(clock)
    <3>1. CASE j = k
      BY <2>2, <2>8, <2>9, <3>1
    <3>2. CASE j # k
      <4>1. buckets'[j] = buckets[j] /\ buckets[j].window \in Minutes
        BY <2>1, <2>9, <2>12, <3>2 DEF AllowEffect, RateType
      <4>2. served'[j][buckets[j].window] = served[j][buckets[j].window]
        BY <2>8, <3>2, <4>1
      <4> QED
        BY <2>12, <4>1, <4>2 DEF OrderInv
    <3> QED
      BY <3>1, <3>2
  <2>13. ASSUME NEW j \in Limiter!Key, NEW i \in Minutes, served'[j][i] > 0, j # k \/ i # m
         PROVE  /\ i <= Limiter!Window(clock)
                /\ buckets'[j] # None => i <= buckets'[j].window
                /\ buckets'[j] = None => i < Limiter!Window(clock)
    <3>1. served[j][i] > 0
      BY <2>8, <2>13
    <3>2. CASE j = k
      <4>1. i <= m /\ i # m /\ i \in Nat
        BY <2>3, <2>4, <2>13, <3>1, <3>2
      <4>2. buckets'[j].window = m
        BY <2>2, <2>9, <3>2
      <4> QED
        BY <2>2, <4>1, <4>2
    <3>3. CASE j # k
      <4>1. \/ swept[j] = buckets[j]
            \/ swept[j] = None /\ buckets[j] # None /\ buckets[j].window < m
        BY <2>1 DEF AllowEffect
      <4>2. buckets'[j] = swept[j]
        BY <2>9, <3>3
      <4>3. buckets[j] # None => buckets[j].window \in Nat
        BY <2>3 DEF RateType
      <4>4. /\ i <= Limiter!Window(clock)
            /\ buckets[j] # None => i <= buckets[j].window
            /\ buckets[j] = None => i < Limiter!Window(clock)
        BY <3>1 DEF OrderInv
      <4>5. i \in Nat
        BY <2>3
      <4>6. CASE swept[j] = buckets[j]
        BY <4>2, <4>4, <4>6
      <4>7. CASE swept[j] = None /\ buckets[j] # None /\ buckets[j].window < m
        BY <2>2, <4>2, <4>3, <4>4, <4>5, <4>7
      <4> QED
        BY <4>1, <4>6, <4>7
    <3> QED
      BY <3>2, <3>3
  <2>14. ASSUME NEW j \in Limiter!Key, NEW i \in Minutes, NEW v \in Server, served'[j][i] > 0, request'[v] # None
         PROVE  /\ i <= Limiter!Window(request[v].time)
                /\ buckets'[j] = None => i < Limiter!Window(request[v].time)
    <3>0. clock < Minute /\ Limiter!Window(clock) = 0 /\ Limiter!Window(request[v].time) = 0 /\ i \in Nat
      BY <2>3, <2>11, <2>14
    <3>1. i = 0 /\ m = 0 /\ Limiter!Window(request[v].time) = 0
      <4>1. m = 0
        BY <2>2, <3>0
      <4>2. j # k \/ i # m => i <= Limiter!Window(clock)
        BY <2>13, <2>14
      <4> QED
        BY <3>0, <4>1, <4>2
    <3>2. buckets'[j] # None
      <4>1. CASE j = k
        BY <2>9, <2>16, <4>1
      <4>2. CASE j # k
        <5>1. ~(t > 2 * Minute)
          <6>1. t \in Nat /\ t <= clock /\ clock \in Nat
            BY <1>1, <2>1 DEF AllowEffect, RateType
          <6> QED
            BY <1>1, <3>0, <6>1
        <5>2. buckets'[j] = buckets[j]
          BY <2>1, <2>9, <4>2, <5>1 DEF AllowEffect
        <5>3. served[j][i] > 0
          BY <2>8, <2>14, <4>2
        <5>4. request[v] # None
          BY <2>10, <2>14
        <5> QED
          BY <3>1, <5>2, <5>3, <5>4 DEF OrderInv
      <4> QED
        BY <4>1, <4>2
    <3> QED
      BY <3>1, <3>2
  <2>15. \A j \in Limiter!Key, i \in Minutes : served'[j][i] <= Limit
    BY <2>8 DEF OrderInv
  <2>18. buckets'[k] # None /\ buckets'[k].window = m
    BY <2>2, <2>9, <2>16
  <2>17. ASSUME NEW j \in Limiter!Key, NEW i \in Minutes
         PROVE  /\ served'[j][i] <= Limit
                /\ served'[j][i] > 0 => i <= Limiter!Window(clock)
                /\ served'[j][i] > 0 /\ buckets'[j] # None => i <= buckets'[j].window
                /\ served'[j][i] > 0 /\ buckets'[j] = None => i < Limiter!Window(clock)
    <3>1. CASE j = k /\ i = m
      BY <2>2, <2>15, <2>18, <3>1
    <3>2. CASE j # k \/ i # m
      BY <2>13, <2>15, <3>2
    <3> QED
      BY <3>1, <3>2
  <2> QED
    BY <2>2, <2>10, <2>12, <2>14, <2>17 DEF OrderInv, Minutes
<1> QED
  BY <1>2, <1>3, <1>4, <1>5 DEF Limiter!Next

\* The rate limiter of the node, for any clients, limits and clock: the first
\* request of a client in a minute is served, and, while the handlers call Allow
\* in the order in which the requests were dated, no minute serves more requests
\* of a client than the limit.
THEOREM LimiterIsRight ==
    ASSUME Limiter!LimiterAssumption
    PROVE  Limiter!Spec => [](Limiter!RateIsLimited /\ RateIsLimited)
<1>1. Limiter!Init => RateInv
  BY RateInit
<1>2. RateInv /\ [Limiter!Next]_(Limiter!vars) => RateInv'
  <2>1. Limit > 0 /\ RateType /\ [Limiter!Next]_(Limiter!vars) => (Limiter!InOrder' => Limiter!InOrder)
    BY StaysInOrder
  <2> QED
    BY <2>1, RateTypeStep, FirstStep, OrderStep DEF RateInv
<1>3. RateInv => Limiter!RateIsLimited /\ RateIsLimited
  <2>1. RateInv /\ Limit > 0 => \A k \in Limiter!Key : DOMAIN served[k] = Minutes
    BY DEF RateInv, RateType
  <2> QED
    BY <2>1 DEF RateInv, FirstInv, OrderInv, Limiter!RateIsLimited, Limiter!FirstIsServed, Limiter!MinuteIsLimited, RateIsLimited
<1> QED
  BY <1>1, <1>2, <1>3, PTL DEF Limiter!Spec

---------------------------------------------------------------------------
(***************************************************************************)
(* The lock of the data directory.                                         *)
(***************************************************************************)

\* The data directory starts without a lock.
LEMMA DirTypeInit ==
    ASSUME Dir!LockAssumption, Dir!Init
    PROVE  Dir!TypeOK
  BY DEF Dir!LockAssumption, Dir!Init, Dir!TypeOK

\* What the steps of a node process do to where it is.
Places == {"off", "create", "write", "startup", "running", "remove", "remove again"}

\* A step of a node process moves that process alone.
LEMMA NodeMoves ==
    ASSUME Dir!TypeOK, NEW p \in Node, NEW place \in Places, Dir!NodeAt(p, place)
    PROVE  /\ node' \in [Node -> Places]
           /\ node'[p] = place /\ \A q \in Node : q # p => node'[q] = node[q]
  BY DEF Dir!TypeOK, Dir!NodeAt, Places

\* Every step keeps the types.
LEMMA DirTypeStep ==
    ASSUME Dir!LockAssumption, Dir!TypeOK, [Dir!Next]_(Dir!vars)
    PROVE  Dir!TypeOK'
<1>0. MaxErrors \in Nat /\ None \notin [by : Node, written : BOOLEAN]
  BY DEF Dir!LockAssumption
<1>1. CASE UNCHANGED Dir!vars
  BY <1>1 DEF Dir!vars, Dir!TypeOK
<1>2. ASSUME NEW p \in Node, Dir!NodeCheck(p)
      PROVE  Dir!TypeOK'
  <2>1. Dir!NodeAt(p, "create") /\ node[p] = "off" /\ UNCHANGED <<lock, command, errors>>
    BY <1>2 DEF Dir!NodeCheck
  <2>2. /\ node' \in [Node -> Places] /\ node'[p] = "create"
        /\ \A q \in Node : q # p => node'[q] = node[q]
    BY <2>1, NodeMoves DEF Places
  <2> QED
    BY <2>1, <2>2 DEF Places, Dir!TypeOK
<1>3. ASSUME NEW p \in Node, Dir!Startup(p)
      PROVE  Dir!TypeOK'
  <2>1. Dir!NodeAt(p, "running") /\ node[p] = "startup" /\ UNCHANGED <<lock, command, errors>>
    BY <1>3 DEF Dir!Startup
  <2>2. /\ node' \in [Node -> Places] /\ node'[p] = "running"
        /\ \A q \in Node : q # p => node'[q] = node[q]
    BY <2>1, NodeMoves DEF Places
  <2> QED
    BY <2>1, <2>2 DEF Places, Dir!TypeOK
<1>4. ASSUME NEW p \in Node, Dir!Stop(p)
      PROVE  Dir!TypeOK'
  <2>1. Dir!NodeAt(p, "remove") /\ node[p] = "running" /\ UNCHANGED <<lock, command, errors>>
    BY <1>4 DEF Dir!Stop
  <2>2. /\ node' \in [Node -> Places] /\ node'[p] = "remove"
        /\ \A q \in Node : q # p => node'[q] = node[q]
    BY <2>1, NodeMoves DEF Places
  <2> QED
    BY <2>1, <2>2 DEF Places, Dir!TypeOK
<1>5. ASSUME NEW p \in Node, Dir!Crash(p)
      PROVE  Dir!TypeOK'
  <2>1. Dir!NodeAt(p, "off") /\ "crash" \in Stops /\ UNCHANGED <<lock, command, errors>>
    BY <1>5 DEF Dir!Crash
  <2>2. /\ node' \in [Node -> Places] /\ node'[p] = "off"
        /\ \A q \in Node : q # p => node'[q] = node[q]
    BY <2>1, NodeMoves DEF Places
  <2> QED
    BY <2>1, <2>2 DEF Places, Dir!TypeOK
<1>6. ASSUME NEW p \in Node, Dir!Create(p)
      PROVE  Dir!TypeOK'
  <2>1. CASE lock = None
    <3>1. Dir!NodeAt(p, "write") /\ lock' = [by |-> p, written |-> FALSE] /\ UNCHANGED <<command, errors>>
      BY <1>6, <2>1 DEF Dir!Create
    <3>2. node' \in [Node -> Places] /\ node'[p] = "write"
      BY <3>1, NodeMoves DEF Places
    <3>3. lock' \in [by : Node, written : BOOLEAN] /\ lock'.by = p
      BY <3>1
    <3> QED
      BY <3>1, <3>2, <3>3 DEF Places, Dir!TypeOK
  <2>2. CASE lock # None
    <3>1. Dir!NodeAt(p, "off") /\ node[p] = "create" /\ UNCHANGED <<lock, command, errors>>
      BY <1>6, <2>2 DEF Dir!Create
    <3>2. /\ node' \in [Node -> Places] /\ node'[p] = "off"
          /\ \A q \in Node : q # p => node'[q] = node[q]
      BY <3>1, NodeMoves DEF Places
    <3> QED
      BY <3>1, <3>2 DEF Places, Dir!TypeOK
  <2> QED
    BY <2>1, <2>2
<1>7. ASSUME NEW p \in Node, Dir!Write(p)
      PROVE  Dir!TypeOK'
  <2>1. lock' \in {None} \cup [by : Node, written : BOOLEAN] /\ (lock' # None => lock # None /\ lock'.by = lock.by)
    BY <1>7 DEF Dir!Write, Dir!TypeOK
  <2>2. lock' # None /\ ~lock'.written => lock' = lock /\ lock.by # p
    BY <1>7 DEF Dir!Write, Dir!TypeOK
  <2>3. Dir!NodeAt(p, "startup") /\ node[p] = "write" /\ UNCHANGED <<command, errors>>
    BY <1>7 DEF Dir!Write
  <2>4. /\ node' \in [Node -> Places] /\ node'[p] = "startup"
        /\ \A q \in Node : q # p => node'[q] = node[q]
    BY <2>3, NodeMoves DEF Places
  <2>5. ASSUME "crash" \notin Stops, lock' # None
        PROVE  /\ node'[lock'.by] \in {"write", "startup", "running", "remove", "remove again"}
               /\ ~lock'.written => node'[lock'.by] = "write"
    <3>1. lock # None /\ lock'.by = lock.by /\ lock.by \in Node
      BY <2>1, <2>5 DEF Dir!TypeOK
    <3> QED
      BY <2>2, <2>4, <2>5, <3>1 DEF Dir!TypeOK
  <2> QED
    BY <2>1, <2>3, <2>4, <2>5 DEF Places, Dir!TypeOK
<1>8. ASSUME NEW p \in Node, Dir!WriteFails(p)
      PROVE  Dir!TypeOK'
  <2>0. errors \in 0..MaxErrors
    BY DEF Dir!TypeOK
  <2>1. errors' \in 0..MaxErrors
    <3>1. errors < MaxErrors /\ errors' = errors + 1
      BY <1>8 DEF Dir!WriteFails
    <3> QED
      BY <1>0, <2>0, <3>1
  <2>2. Dir!NodeAt(p, "off") /\ lock' = None /\ UNCHANGED command
    BY <1>8 DEF Dir!WriteFails
  <2>3. node' \in [Node -> Places]
    BY <2>2, NodeMoves DEF Places
  <2> QED
    BY <2>1, <2>2, <2>3 DEF Places, Dir!TypeOK
<1>9. ASSUME NEW p \in Node, Dir!StartupFails(p)
      PROVE  Dir!TypeOK'
  <2>0. errors \in 0..MaxErrors
    BY DEF Dir!TypeOK
  <2>1. errors' \in 0..MaxErrors
    <3>1. errors < MaxErrors /\ errors' = errors + 1
      BY <1>9 DEF Dir!StartupFails
    <3> QED
      BY <1>0, <2>0, <3>1
  <2>2. Dir!NodeAt(p, "remove again") /\ node[p] = "startup" /\ UNCHANGED <<lock, command>>
    BY <1>9 DEF Dir!StartupFails
  <2>3. /\ node' \in [Node -> Places] /\ node'[p] = "remove again"
        /\ \A q \in Node : q # p => node'[q] = node[q]
    BY <2>2, NodeMoves DEF Places
  <2> QED
    BY <2>1, <2>2, <2>3 DEF Places, Dir!TypeOK
<1>10. ASSUME NEW p \in Node, Dir!RemoveLock(p, "remove", "remove again") \/ Dir!RemoveLock(p, "remove again", "off")
      PROVE  Dir!TypeOK'
  <2>1. lock' = None /\ UNCHANGED <<command, errors>> /\ \E place \in Places : Dir!NodeAt(p, place)
    BY <1>10 DEF Dir!RemoveLock, Places
  <2>2. node' \in [Node -> Places]
    BY <2>1, NodeMoves
  <2> QED
    BY <2>1, <2>2 DEF Places, Dir!TypeOK
<1>11. ASSUME NEW c \in Command, Dir!CommandCheck(c)
      PROVE  Dir!TypeOK'
  BY <1>11 DEF Dir!CommandCheck, Dir!TypeOK
<1>12. ASSUME NEW c \in Command, Dir!CommandDone(c)
      PROVE  Dir!TypeOK'
  BY <1>12 DEF Dir!CommandDone, Dir!TypeOK
<1>13. CASE Dir!OperatorRemoves
  BY <1>13 DEF Dir!OperatorRemoves, Dir!TypeOK
<1> QED
  BY <1>1, <1>2, <1>3, <1>4, <1>5, <1>6, <1>7, <1>8, <1>9, <1>10, <1>11, <1>12, <1>13 DEF Dir!Next

\* The lock file is that of p.
Holds(p) == lock # None /\ lock.by = p

HolderInv ==
    /\ \A p \in Node : Dir!Live(p) => Holds(p) /\ (node[p] # "write" => lock.written)
    /\ \A p \in Node : node[p] = "remove again" =>
          Holds(p) \/ (lock = None /\ \A q \in Node : p = q)
    /\ \A p \in Node : node[p] = "remove" => \A q \in Node : p = q
    /\ \A c \in Command : command[c] # "reset"

\* No node runs at first.
LEMMA HolderInit == Dir!Init => HolderInv
  BY DEF Dir!Init, HolderInv, Dir!Live

\* Where nobody removes the lock of another process, every step leaves it with
\* the node that took it.
LEMMA HolderStep ==
    ASSUME Dir!LockAssumption, Dir!KeepsOthers, Dir!TypeOK, HolderInv, [Dir!Next]_(Dir!vars)
    PROVE  HolderInv'
<1>0. None \notin [by : Node, written : BOOLEAN] /\ ~Resets
  BY DEF Dir!LockAssumption, Dir!KeepsOthers
<1>1. CASE UNCHANGED Dir!vars
  BY <1>1 DEF Dir!vars, HolderInv, Holds, Dir!Live
<1>2. ASSUME NEW p \in Node, Dir!NodeCheck(p)
      PROVE  HolderInv'
  BY <1>2, NodeMoves DEF Places, Dir!NodeCheck, HolderInv, Holds, Dir!Live
<1>3. ASSUME NEW p \in Node, Dir!Startup(p)
      PROVE  HolderInv'
  <2>1. node'[p] = "running" /\ node[p] = "startup" /\ \A q \in Node : q # p => node'[q] = node[q]
    BY <1>3, NodeMoves DEF Places, Dir!Startup
  <2> QED
    BY <1>3, <2>1 DEF Dir!Startup, HolderInv, Holds, Dir!Live
<1>4. ASSUME NEW p \in Node, Dir!Crash(p)
      PROVE  HolderInv'
  <2>1. node'[p] = "off" /\ \A q \in Node : q # p => node'[q] = node[q]
    BY <1>4, NodeMoves DEF Places, Dir!Crash
  <2> QED
    BY <1>4, <2>1 DEF Dir!Crash, HolderInv, Holds, Dir!Live
<1>5. ASSUME NEW p \in Node, Dir!StartupFails(p)
      PROVE  HolderInv'
  <2>1. node'[p] = "remove again" /\ node[p] = "startup" /\ \A q \in Node : q # p => node'[q] = node[q]
    BY <1>5, NodeMoves DEF Places, Dir!StartupFails
  <2>2. Holds(p) /\ UNCHANGED <<lock, command>>
    BY <1>5, <2>1 DEF Dir!StartupFails, HolderInv, Dir!Live
  <2>3. \A q \in Node : q # p => ~Dir!Live(q) /\ node[q] \notin {"remove", "remove again"}
    BY <2>2 DEF HolderInv, Holds
  <2>4. Holds(p)' /\ command' = command
    BY <2>2 DEF Holds
  <2>5. \A q \in Node : ~Dir!Live(q)' /\ node'[q] # "remove" /\ (q # p => node'[q] # "remove again")
    BY <2>1, <2>3 DEF Dir!Live
  <2> QED
    BY <2>4, <2>5 DEF HolderInv
<1>6. ASSUME NEW p \in Node, Dir!Create(p)
      PROVE  HolderInv'
  <2>1. CASE lock = None
    <3>1. /\ node'[p] = "write" /\ lock' = [by |-> p, written |-> FALSE] /\ UNCHANGED command
          /\ \A q \in Node : q # p => node'[q] = node[q]
      BY <1>6, <2>1, NodeMoves DEF Places, Dir!Create
    <3>2. lock' # None /\ lock'.by = p
      <4>1. lock' \in [by : Node, written : BOOLEAN] /\ lock'.by = p
        BY <3>1
      <4> QED
        BY <1>0, <4>1
    <3>3. \A q \in Node : q # p => ~Dir!Live(q) /\ node[q] \notin {"remove", "remove again"}
      BY <2>1 DEF HolderInv, Holds, Dir!Live
    <3> QED
      BY <3>1, <3>2, <3>3 DEF HolderInv, Holds, Dir!Live
  <2>2. CASE lock # None
    <3>1. /\ node'[p] = "off" /\ lock' = lock /\ UNCHANGED command
          /\ \A q \in Node : q # p => node'[q] = node[q]
      BY <1>6, <2>2, NodeMoves DEF Places, Dir!Create
    <3> QED
      BY <3>1 DEF HolderInv, Holds, Dir!Live
  <2> QED
    BY <2>1, <2>2
<1>7. ASSUME NEW p \in Node, Dir!Write(p)
      PROVE  HolderInv'
  <2>1. /\ node[p] = "write" /\ node'[p] = "startup" /\ UNCHANGED command
        /\ \A q \in Node : q # p => node'[q] = node[q]
    BY <1>7, NodeMoves DEF Places, Dir!Write
  <2>2. lock # None /\ lock.by = p /\ lock \in [by : Node, written : BOOLEAN]
    BY <2>1 DEF HolderInv, Holds, Dir!Live, Dir!TypeOK
  <2>3. lock' = [lock EXCEPT !.written = TRUE]
    BY <1>7, <2>2 DEF Dir!Write
  <2>4. lock' \in [by : Node, written : BOOLEAN] /\ lock'.by = p /\ lock'.written
    BY <2>2, <2>3
  <2>5. lock' # None
    BY <1>0, <2>4
  <2>6. \A q \in Node : q # p => ~Dir!Live(q) /\ node[q] \notin {"remove", "remove again"}
    BY <2>2 DEF HolderInv, Holds, Dir!Live
  <2> QED
    BY <2>1, <2>4, <2>5, <2>6 DEF HolderInv, Holds, Dir!Live
<1>8. ASSUME NEW p \in Node, Dir!WriteFails(p)
      PROVE  HolderInv'
  <2>1. /\ node[p] = "write" /\ node'[p] = "off" /\ UNCHANGED command /\ lock' = None
        /\ \A q \in Node : q # p => node'[q] = node[q]
    BY <1>8, NodeMoves DEF Places, Dir!WriteFails
  <2>2. \A q \in Node : q # p => ~Dir!Live(q) /\ node[q] \notin {"remove", "remove again"}
    BY <2>1 DEF HolderInv, Holds, Dir!Live
  <2> QED
    BY <2>1, <2>2 DEF HolderInv, Holds, Dir!Live
<1>9. ASSUME NEW p \in Node, Dir!Stop(p)
      PROVE  HolderInv'
  <2>1. /\ node[p] = "running" /\ node'[p] = "remove" /\ UNCHANGED <<command, lock>>
        /\ \A q \in Node : q # p => node'[q] = node[q]
    BY <1>9, NodeMoves DEF Places, Dir!Stop
  <2>2. \A q \in Node : p = q
    BY <1>9 DEF Dir!Stop, Dir!KeepsOthers
  <2> QED
    BY <2>1, <2>2 DEF HolderInv, Holds, Dir!Live
<1>10. ASSUME NEW p \in Node, Dir!RemoveLock(p, "remove", "remove again")
       PROVE  HolderInv'
  <2>1. /\ node[p] = "remove" /\ node'[p] = "remove again" /\ UNCHANGED command /\ lock' = None
        /\ \A q \in Node : q # p => node'[q] = node[q]
    BY <1>10, NodeMoves DEF Places, Dir!RemoveLock
  <2>2. \A q \in Node : p = q
    BY <2>1 DEF HolderInv
  <2> QED
    BY <2>1, <2>2 DEF HolderInv, Holds, Dir!Live
<1>11. ASSUME NEW p \in Node, Dir!RemoveLock(p, "remove again", "off")
       PROVE  HolderInv'
  <2>1. /\ node[p] = "remove again" /\ node'[p] = "off" /\ UNCHANGED command /\ lock' = None
        /\ \A q \in Node : q # p => node'[q] = node[q]
    BY <1>11, NodeMoves DEF Places, Dir!RemoveLock
  <2>2. \A q \in Node : q # p => ~Dir!Live(q) /\ node[q] \notin {"remove", "remove again"}
    BY <2>1 DEF HolderInv, Holds, Dir!Live
  <2> QED
    BY <2>1, <2>2 DEF HolderInv, Holds, Dir!Live
<1>12. ASSUME NEW c \in Command, Dir!CommandCheck(c)
       PROVE  HolderInv'
  <2>1. UNCHANGED <<lock, node>> /\ command' = [command EXCEPT ![c] = "write"]
    BY <1>0, <1>12 DEF Dir!CommandCheck
  <2> QED
    BY <2>1 DEF HolderInv, Holds, Dir!Live, Dir!TypeOK
<1>13. ASSUME NEW c \in Command, Dir!CommandDone(c)
       PROVE  HolderInv'
  <2>1. UNCHANGED <<lock, node>> /\ command' = [command EXCEPT ![c] = "off"]
    BY <1>13 DEF Dir!CommandDone, HolderInv
  <2> QED
    BY <2>1 DEF HolderInv, Holds, Dir!Live, Dir!TypeOK
<1>14. CASE Dir!OperatorRemoves
  BY <1>14 DEF Dir!OperatorRemoves, HolderInv, Holds, Dir!Live
<1> QED
  BY <1>1, <1>2, <1>3, <1>4, <1>5, <1>6, <1>7, <1>8, <1>9, <1>10, <1>11, <1>12, <1>13, <1>14 DEF Dir!Next

\* The invariant lets one node run at most, under its own lock.
LEMMA HolderIsEnough ==
    ASSUME Dir!TypeOK, HolderInv
    PROVE  Dir!OneNode /\ Dir!RunningIsLocked
<1>1. Dir!OneNode
  BY DEF HolderInv, Holds, Dir!OneNode
<1>2. ASSUME NEW p \in Node, node[p] \in {"startup", "running"}
      PROVE  lock = [by |-> p, written |-> TRUE]
  <2>1. lock # None /\ lock.by = p /\ lock.written
    BY <1>2 DEF HolderInv, Holds, Dir!Live
  <2>2. lock \in [by : Node, written : BOOLEAN]
    BY <2>1 DEF Dir!TypeOK
  <2>3. lock = [by |-> lock.by, written |-> lock.written] /\ lock.written = TRUE
    BY <2>1, <2>2
  <2> QED
    BY <2>1, <2>3
<1> QED
  BY <1>1, <1>2 DEF Dir!RunningIsLocked

\* A command that needs the data directory does not find it free while a node
\* runs.
LEMMA CommandsAreRefused ==
    ASSUME Dir!RunningIsLocked, Dir!TypeOK, Dir!LockAssumption, [Dir!Next]_(Dir!vars)
    PROVE  [Dir!RefusesCommands]_(Dir!vars)
<1> SUFFICES ASSUME NEW c \in Command, command[c] = "off", command'[c] # "off",
                    NEW p \in Node, node[p] \in {"startup", "running"}
             PROVE  FALSE
  BY DEF Dir!RefusesCommands
<1>1. Dir!IsLocked
  <2>0. lock = [by |-> p, written |-> TRUE]
    BY DEF Dir!RunningIsLocked
  <2>1. lock \in [by : Node, written : BOOLEAN] /\ lock.written
    BY <2>0
  <2> QED
    BY <2>1 DEF Dir!IsLocked, Dir!LockAssumption
<1>2. command' # command
  OBVIOUS
<1>3. PICK d \in Command : Dir!CommandDone(d)
  BY <1>1, <1>2 DEF Dir!Next, Dir!vars, Dir!NodeCheck, Dir!Create, Dir!Write, Dir!WriteFails, Dir!Startup,
     Dir!StartupFails, Dir!Stop, Dir!Crash, Dir!RemoveLock, Dir!CommandCheck, Dir!OperatorRemoves
<1> QED
  BY <1>3 DEF Dir!CommandDone, Dir!TypeOK

\* The states of the data directory lock are of their types, for any number of
\* node processes and commands.
THEOREM DirTypeCorrect ==
    ASSUME Dir!LockAssumption
    PROVE  Dir!Spec => []Dir!TypeOK
<1>1. Dir!Init => Dir!TypeOK
  BY DirTypeInit
<1>2. Dir!TypeOK /\ [Dir!Next]_(Dir!vars) => Dir!TypeOK'
  BY DirTypeStep
<1> QED
  BY <1>1, <1>2, PTL DEF Dir!Spec

\* The lock of the data directory, for any number of node processes and commands
\* that crash, fail and start again in any order, where no command resets the
\* directory and a node that is stopped in order has no other beside it: one
\* node at most is up, it runs under its own lock, and no command passes its
\* check while a node runs.
THEOREM OneNodeHolds ==
    ASSUME Dir!LockAssumption, Dir!KeepsOthers
    PROVE  Dir!Spec =>
              [](Dir!OneNode /\ Dir!RunningIsLocked) /\ [][Dir!RefusesCommands]_(Dir!vars) /\ OneNode
<1>1. Dir!Spec => []Dir!TypeOK
  BY DirTypeCorrect
<1>2. Dir!TypeOK /\ HolderInv /\ [Dir!Next]_(Dir!vars) => HolderInv'
  BY HolderStep
<1>3. Dir!TypeOK /\ HolderInv => Dir!OneNode /\ Dir!RunningIsLocked
  BY HolderIsEnough
<1>4. Dir!RunningIsLocked /\ Dir!TypeOK /\ [Dir!Next]_(Dir!vars) => [Dir!RefusesCommands]_(Dir!vars)
  BY CommandsAreRefused
<1>5. [Dir!RefusesCommands]_(Dir!vars) => [scenario = "crashes" => Dir!RefusesCommands]_(Dir!vars)
  OBVIOUS
<1> QED
  BY <1>1, <1>2, <1>3, <1>4, <1>5, HolderInit, PTL DEF Dir!Spec, OneNode

---------------------------------------------------------------------------
(***************************************************************************)
(* The faucet.                                                             *)
(***************************************************************************)

\* The instance counts with the same cardinality.
LEMMA FaucetCardinality ==
    ASSUME NEW S
    PROVE  Taps!Cardinality(S) = Cardinality(S)
  BY DEF Taps!Cardinality, Cardinality

PaymentSet == [to : Recipient, amount : 1..FaucetAmount, time : 0..MaxTime, nonce : Nat]
Units(S) == {u \in S \X (1..FaucetAmount) : u[2] <= u[1].amount}
Total(S) == Taps!Total(S)

\* A total counts the units of finitely many payments.
LEMMA TotalIs ==
    ASSUME Taps!FaucetAssumption, NEW S, IsFiniteSet(S)
    PROVE  Total(S) = Cardinality(Units(S)) /\ IsFiniteSet(Units(S)) /\ Total(S) \in Nat
<1>1. IsFiniteSet(S \X (1..FaucetAmount))
  <2>1. FaucetAmount \in Int
    BY DEF Taps!FaucetAssumption
  <2>2. IsFiniteSet(1..FaucetAmount)
    BY <2>1, FS_Interval
  <2> QED
    BY <2>2, FS_Product
<1>2. IsFiniteSet(Units(S))
  BY <1>1, FS_Subset DEF Units
<1>3. Total(S) = Cardinality(Units(S))
  BY FaucetCardinality DEF Total, Taps!Total, Units
<1> QED
  BY <1>2, <1>3, FS_CardinalityType

\* No payments come to nothing.
LEMMA TotalNone ==
    ASSUME Taps!FaucetAssumption
    PROVE  Total({}) = 0 /\ IsFiniteSet({})
<1>1. Units({}) = {}
  BY DEF Units
<1> QED
  BY <1>1, TotalIs, FS_EmptySet

\* Fewer payments come to less.
LEMMA TotalLess ==
    ASSUME Taps!FaucetAssumption, NEW S, IsFiniteSet(S), NEW T, T \subseteq S
    PROVE  IsFiniteSet(T) /\ Total(T) <= Total(S) /\ Total(T) \in Nat /\ Total(S) \in Nat
<1>1. IsFiniteSet(T)
  BY FS_Subset
<1>2. Units(T) \subseteq Units(S)
  BY DEF Units
<1> QED
  BY <1>1, <1>2, TotalIs, FS_Subset

\* The totals of two sets of payments add up.
LEMMA TotalUnion ==
    ASSUME Taps!FaucetAssumption, NEW S, IsFiniteSet(S), NEW T, IsFiniteSet(T)
    PROVE  /\ IsFiniteSet(S \cup T) /\ Total(S) \in Nat /\ Total(T) \in Nat /\ Total(S \cup T) \in Nat
           /\ Total(S \cup T) <= Total(S) + Total(T)
           /\ S \cap T = {} => Total(S \cup T) = Total(S) + Total(T)
<1>1. IsFiniteSet(S \cup T)
  BY FS_Union
<1>2. Units(S \cup T) = Units(S) \cup Units(T) /\ Units(S) \cap Units(T) = Units(S \cap T)
  BY DEF Units
<1>3. /\ Total(S) = Cardinality(Units(S)) /\ Total(T) = Cardinality(Units(T))
      /\ Total(S \cup T) = Cardinality(Units(S) \cup Units(T))
      /\ IsFiniteSet(Units(S)) /\ IsFiniteSet(Units(T)) /\ Total(S) \in Nat /\ Total(T) \in Nat
      /\ Total(S \cup T) \in Nat
  BY <1>1, <1>2, TotalIs
<1>4. Cardinality(Units(S) \cup Units(T)) = Cardinality(Units(S)) + Cardinality(Units(T)) - Cardinality(Units(S \cap T))
  <2>1. Cardinality(Units(S) \cup Units(T))
           = Cardinality(Units(S)) + Cardinality(Units(T)) - Cardinality(Units(S) \cap Units(T))
    BY <1>3, FS_Union
  <2> QED
    BY <1>2, <2>1
<1>5. Cardinality(Units(S \cap T)) \in Nat
  <2>1. IsFiniteSet(S \cap T)
    BY FS_Subset
  <2> QED
    BY <2>1, TotalIs
<1>6. S \cap T = {} => Cardinality(Units(S \cap T)) = 0
  <2>1. Cardinality(Units({})) = 0
    BY TotalNone, TotalIs
  <2> QED
    BY <2>1
<1> QED
  BY <1>1, <1>3, <1>4, <1>5, <1>6

\* One payment comes to its amount.
LEMMA TotalOne ==
    ASSUME Taps!FaucetAssumption, NEW p, p.amount \in 1..FaucetAmount
    PROVE  IsFiniteSet({p}) /\ Total({p}) = p.amount
<1>1. FaucetAmount \in Nat /\ p.amount \in Nat
  BY DEF Taps!FaucetAssumption
<1>2. Units({p}) = {p} \X (1..p.amount)
  BY <1>1 DEF Units
<1>3. PICK a \in Nat : a = p.amount
  BY <1>1
<1>4. IsFiniteSet(1..a) /\ Cardinality(1..a) = a
  BY FS_Interval
<1>5. Cardinality({p}) = 1 /\ IsFiniteSet({p})
  BY FS_Singleton
<1>6. Cardinality({p} \X (1..a)) = Cardinality({p}) * Cardinality(1..a)
  BY <1>4, <1>5, FS_Product
<1>7. Cardinality({p} \X (1..a)) = a
  BY <1>4, <1>5, <1>6
<1>8. Total({p}) = Cardinality(Units({p}))
  BY <1>5, TotalIs
<1> QED
  BY <1>2, <1>3, <1>5, <1>7, <1>8

\* The faucet's wallet.
FundsInv ==
    /\ now \in 0..MaxTime /\ faults \in 0..MaxFaults
    /\ pool \subseteq PaymentSet /\ confirmed \subseteq PaymentSet
    /\ IsFiniteSet(pool) /\ IsFiniteSet(confirmed)
    /\ Total(confirmed) + Total(pool) <= Funds
    /\ handler \in [at : {"idle", "pending", "record"}, payment : {None} \cup PaymentSet]
    /\ handler.at # "idle" => handler.payment \in PaymentSet /\ handler.payment.time <= now
    /\ IsFiniteSet(unrecorded) /\ Cardinality(unrecorded) <= faults
    /\ requests \in [Recipient -> {None} \cup [last : 0..MaxTime, day : 0..Taps!DayOf(MaxTime), daily : Nat \ {0}]]

\* The state file.
FileInv ==
    /\ \A r \in Recipient : requests[r] # None =>
          /\ MaxPerAddress > 0 => requests[r].daily <= MaxPerAddress
          /\ requests[r].day <= Taps!DayOf(now)
    /\ handler.at # "idle" =>
          ~Taps!TooSoon(handler.payment.to, handler.payment.time)
          /\ ~Taps!OverLimit(handler.payment.to, handler.payment.amount, handler.payment.time)
    /\ handler.at # "idle" /\ requests[handler.payment.to] # None =>
          requests[handler.payment.to].day <= Taps!DayOf(handler.payment.time)

\* What was paid and recorded.
Kept == Taps!Limited \ (IF handler.at = "record" THEN {handler.payment} ELSE {})
KeptFor(r, d) == {p \in Kept : p.to = r /\ Taps!DayOf(p.time) = d}

\* The state file knows of the payments of an address, ...
DatesInv ==
    \A p \in Kept :
        /\ requests[p.to] # None /\ p.time <= now
        /\ Taps!ToSecond(p.time) <= requests[p.to].last
        /\ Taps!DayOf(p.time) <= requests[p.to].day
        /\ handler.at # "idle" /\ handler.payment.to = p.to => p.time <= handler.payment.time

\* ... has summed up those of the day, ...
SumsInv ==
    MaxPerAddress > 0 => \A r \in Recipient, d \in 0..Taps!DayOf(MaxTime) :
        /\ Total(KeptFor(r, d)) <= MaxPerAddress
        /\ requests[r] # None /\ requests[r].day = d => Total(KeptFor(r, d)) <= requests[r].daily

\* ... and has kept them apart.
GapsInv ==
    \A p, q \in Kept : p # q /\ p.to = q.to /\ p.time <= q.time => q.time - p.time > MinInterval - Second

LimitsInv == DatesInv /\ SumsInv /\ GapsInv

FaucetInv == FundsInv /\ FileInv /\ LimitsInv

\* What the assumption says of the constants of the faucet, and of days and
\* seconds.
LEMMA FaucetConstants ==
    ASSUME Taps!FaucetAssumption
    PROVE  /\ MaxPerAddress \in Nat /\ MinInterval \in Nat /\ Funds \in Nat /\ MaxTime \in Nat /\ MaxFaults \in Nat
           /\ FaucetAmount \in Nat \ {0} /\ Second \in Nat \ {0} /\ Day \in Nat \ {0}
           /\ None \notin PaymentSet
           /\ None \notin [last : 0..MaxTime, day : 0..Taps!DayOf(MaxTime), daily : Nat \ {0}]
           /\ \A t \in 0..MaxTime : Taps!DayOf(t) \in 0..Taps!DayOf(MaxTime) /\ Taps!ToSecond(t) \in 0..MaxTime
           /\ \A t \in Nat : Taps!DayOf(t) \in Nat /\ Taps!ToSecond(t) \in Nat /\ Taps!ToSecond(t) <= t /\ t < Taps!ToSecond(t) + Second
           /\ \A t, u \in Nat : t <= u => Taps!DayOf(t) <= Taps!DayOf(u) /\ Taps!ToSecond(t) <= Taps!ToSecond(u)
<1>1. /\ MaxPerAddress \in Nat /\ MinInterval \in Nat /\ Funds \in Nat /\ MaxTime \in Nat /\ MaxFaults \in Nat
      /\ FaucetAmount \in Nat \ {0} /\ Second \in Nat \ {0} /\ Day \in Nat \ {0} /\ None \notin PaymentSet
      /\ None \notin [last : Nat, day : Nat, daily : Nat]
  BY DEF Taps!FaucetAssumption, PaymentSet
<1>2. \A t \in Nat : Taps!DayOf(t) \in Nat /\ Taps!ToSecond(t) <= t /\ t < Taps!ToSecond(t) + Second
  BY <1>1, DivT DEF Taps!DayOf, Taps!ToSecond
<1>3. \A t \in Nat : Taps!ToSecond(t) \in Nat
  <2>1. ASSUME NEW t \in Nat
        PROVE  (t \div Second) * Second \in Nat
    <3>1. t \div Second \in Nat
      BY <1>1, DivT
    <3> QED
      BY <1>1, <3>1, SMT
  <2> QED
    BY <2>1 DEF Taps!ToSecond
<1>4. ASSUME NEW t \in Nat, NEW u \in Nat, t <= u
      PROVE  Taps!DayOf(t) <= Taps!DayOf(u) /\ Taps!ToSecond(t) <= Taps!ToSecond(u)
  <2>1. Taps!DayOf(t) <= Taps!DayOf(u)
    BY <1>1, <1>4, DivMono DEF Taps!DayOf
  <2>2. t \div Second \in Nat /\ u \div Second \in Nat /\ t \div Second <= u \div Second
    BY <1>1, <1>4, DivMono, DivT
  <2>3. CASE t \div Second = u \div Second
    BY <1>3, <2>1, <2>3 DEF Taps!ToSecond
  <2>4. CASE t \div Second < u \div Second
    <3>1. (t \div Second) * Second + Second <= (u \div Second) * Second
      BY <1>1, <2>2, <2>4, MulMono
    <3> QED
      BY <1>1, <1>3, <2>1, <3>1 DEF Taps!ToSecond
  <2> QED
    BY <2>2, <2>3, <2>4
<1>5. ASSUME NEW t \in 0..MaxTime
      PROVE  Taps!DayOf(t) \in 0..Taps!DayOf(MaxTime) /\ Taps!ToSecond(t) \in 0..MaxTime
  <2>1. t \in Nat /\ MaxTime \in Nat /\ t <= MaxTime
    BY <1>1
  <2> QED
    BY <1>2, <1>3, <1>4, <2>1
<1>6. None \notin [last : 0..MaxTime, day : 0..Taps!DayOf(MaxTime), daily : Nat \ {0}]
  <2>1. (0..MaxTime) \subseteq Nat /\ (0..Taps!DayOf(MaxTime)) \subseteq Nat
    OBVIOUS
  <2> QED
    BY <1>1, <2>1
<1> QED
  BY <1>1, <1>2, <1>3, <1>4, <1>5, <1>6

\* The faucet starts without a payment.
LEMMA FaucetStart ==
    ASSUME Taps!FaucetAssumption, Taps!Init
    PROVE  FaucetInv
<1>1. /\ MaxPerAddress \in Nat /\ MinInterval \in Nat /\ Funds \in Nat /\ MaxTime \in Nat /\ MaxFaults \in Nat
      /\ FaucetAmount \in Nat \ {0} /\ Second \in Nat \ {0} /\ Day \in Nat \ {0}
  BY FaucetConstants
<1>2. /\ now = 0 /\ requests = [r \in Recipient |-> None] /\ pool = {} /\ confirmed = {}
      /\ handler = [at |-> "idle", payment |-> None] /\ unrecorded = {} /\ faults = 0
  BY DEF Taps!Init, Taps!Idle
<1>3. Total({}) = 0 /\ IsFiniteSet({})
  BY TotalNone
<1>4. FundsInv
  BY <1>1, <1>2, <1>3, FS_EmptySet DEF FundsInv
<1>5. FileInv
  BY <1>2 DEF FileInv
<1>6. Kept = {} /\ \A r, d : KeptFor(r, d) = {}
  BY <1>2 DEF Kept, KeptFor, Taps!Limited, Taps!Paid
<1>7. LimitsInv
  BY <1>1, <1>2, <1>3, <1>6 DEF LimitsInv, DatesInv, SumsInv, GapsInv
<1> QED
  BY <1>4, <1>5, <1>7 DEF FaucetInv

\* The handler checks a request and takes its lock.
LEMMA FaucetRequest ==
    ASSUME Taps!FaucetAssumption, FaucetInv, NEW r \in Recipient, NEW amount \in 1..FaucetAmount, Taps!Request(r, amount)
    PROVE  FaucetInv'
<1> DEFINE p == [to |-> r, amount |-> amount, time |-> now, nonce |-> Taps!Cardinality(Taps!Paid)]
<1>1. /\ MaxPerAddress \in Nat /\ MinInterval \in Nat /\ Funds \in Nat /\ MaxTime \in Nat /\ MaxFaults \in Nat
      /\ FaucetAmount \in Nat \ {0} /\ Second \in Nat \ {0} /\ Day \in Nat \ {0}
      /\ None \notin PaymentSet
  BY FaucetConstants
<1>2. FundsInv /\ FileInv /\ LimitsInv
  BY DEF FaucetInv
<1>3. /\ handler.at = "idle" /\ handler' = [at |-> "pending", payment |-> p]
      /\ ~Taps!TooSoon(r, now) /\ ~Taps!OverLimit(r, amount, now)
      /\ UNCHANGED <<now, requests, pool, confirmed, unrecorded, faults>>
  BY DEF Taps!Request, Taps!Payment
<1>4. p \in PaymentSet
  <2>1. IsFiniteSet(Taps!Paid)
    BY <1>2, FS_Union DEF FundsInv, Taps!Paid
  <2>2. Taps!Cardinality(Taps!Paid) \in Nat
    BY <2>1, FaucetCardinality, FS_CardinalityType
  <2> QED
    BY <1>2, <2>2 DEF FundsInv, PaymentSet
<1>5. p.to = r /\ p.amount = amount /\ p.time = now
  OBVIOUS
<1> HIDE DEF p
<1>6. handler'.at = "pending" /\ handler'.payment = p
  BY <1>3
<1>7. FundsInv'
  BY <1>2, <1>3, <1>4, <1>5 DEF FundsInv, Total, Taps!Total
<1>8. FileInv'
  <2>1. requests[r] # None => requests[r].day <= Taps!DayOf(now)
    BY <1>2 DEF FileInv
  <2>2. \A s, a, t : /\ Taps!TooSoon(s, t)' = Taps!TooSoon(s, t)
                     /\ Taps!OverLimit(s, a, t)' = Taps!OverLimit(s, a, t)
    BY <1>3 DEF Taps!TooSoon, Taps!OverLimit, Taps!Daily
  <2> QED
    BY <1>2, <1>3, <1>5, <1>6, <2>1 DEF FileInv, Taps!TooSoon, Taps!OverLimit, Taps!Daily
<1>9. LimitsInv'
  <2>1. Kept' = Kept
    BY <1>3, <1>6 DEF Kept, Taps!Limited, Taps!Paid
  <2>2. \A s, d : KeptFor(s, d)' = KeptFor(s, d)
    BY <2>1 DEF KeptFor
  <2> QED
    BY <1>2, <1>3, <1>5, <1>6, <2>1, <2>2 DEF LimitsInv, DatesInv, SumsInv, GapsInv, Total, Taps!Total
<1> QED
  BY <1>3, <1>7, <1>8, <1>9 DEF FaucetInv

\* The node takes the payment into its mempool, or refuses it.
LEMMA FaucetAdmit ==
    ASSUME Taps!FaucetAssumption, FaucetInv, Taps!Admit
    PROVE  FaucetInv'
<1>1. /\ MaxPerAddress \in Nat /\ MinInterval \in Nat /\ Funds \in Nat /\ MaxTime \in Nat /\ MaxFaults \in Nat
      /\ FaucetAmount \in Nat \ {0} /\ Second \in Nat \ {0} /\ Day \in Nat \ {0}
      /\ None \notin PaymentSet
  BY FaucetConstants
<1>2. FundsInv /\ FileInv /\ LimitsInv
  BY DEF FaucetInv
<1>3. PICK p \in PaymentSet : p = handler.payment
  BY <1>2 DEF Taps!Admit, FundsInv
<1>4. /\ handler.at = "pending" /\ UNCHANGED <<now, requests, confirmed, unrecorded, faults>>
  BY DEF Taps!Admit
<1>5. CASE pool' = pool /\ handler' = [at |-> "idle", payment |-> None]
  <2>1. FundsInv'
    BY <1>2, <1>4, <1>5 DEF FundsInv, Total, Taps!Total
  <2>2. FileInv'
    BY <1>2, <1>4, <1>5 DEF FileInv
  <2>3. LimitsInv'
    <3>1. Kept' = Kept
      BY <1>4, <1>5 DEF Kept, Taps!Limited, Taps!Paid
    <3>2. \A s, d : KeptFor(s, d)' = KeptFor(s, d)
      BY <3>1 DEF KeptFor
    <3> QED
      BY <1>2, <1>4, <1>5, <3>1, <3>2 DEF LimitsInv, DatesInv, SumsInv, GapsInv, Total, Taps!Total
  <2> QED
    BY <1>4, <2>1, <2>2, <2>3 DEF FaucetInv
<1>6. CASE pool' = pool \cup {p} /\ handler' = [handler EXCEPT !.at = "record"] /\ p.amount <= Taps!Spendable
  <2>1. IsFiniteSet(pool) /\ IsFiniteSet(confirmed) /\ Total(confirmed) + Total(pool) <= Funds
    BY <1>2 DEF FundsInv
  <2>2. IsFiniteSet(pool') /\ Total(pool') <= Total(pool) + p.amount
    <3>1. IsFiniteSet({p}) /\ Total({p}) = p.amount
      BY <1>3, TotalOne DEF PaymentSet
    <3> QED
      BY <1>6, <2>1, <3>1, TotalUnion
  <2>3. Total(pool) \in Nat /\ Total(confirmed) \in Nat /\ Total(pool') \in Nat /\ p.amount \in Nat
    BY <1>1, <2>1, <2>2, TotalIs DEF PaymentSet
  <2>4. Total(confirmed) + Total(pool') <= Funds
    BY <1>1, <1>6, <2>2, <2>3 DEF Taps!Spendable, Total
  <2>5. /\ handler'.at = "record" /\ handler'.payment = p
        /\ handler' \in [at : {"idle", "pending", "record"}, payment : {None} \cup PaymentSet]
    BY <1>2, <1>3, <1>6 DEF FundsInv
  <2>6. p.time <= now
    BY <1>2, <1>3, <1>4 DEF FundsInv
  <2>7. FundsInv'
    <3>1. Total(confirmed)' = Total(confirmed) /\ Total(pool)' = Total(pool')
      BY <1>4 DEF Total, Taps!Total
    <3> QED
      BY <1>2, <1>4, <1>6, <2>2, <2>4, <2>5, <2>6, <3>1 DEF FundsInv
  <2>8. FileInv'
    <3>1. \A s, a, t : /\ Taps!TooSoon(s, t)' = Taps!TooSoon(s, t)
                       /\ Taps!OverLimit(s, a, t)' = Taps!OverLimit(s, a, t)
      BY <1>4 DEF Taps!TooSoon, Taps!OverLimit, Taps!Daily
    <3> QED
      BY <1>2, <1>3, <1>4, <2>5 DEF FileInv, Taps!TooSoon, Taps!OverLimit, Taps!Daily
  <2>9. LimitsInv'
    <3>1. Kept' \subseteq Kept
      BY <1>4, <1>6, <2>5 DEF Kept, Taps!Limited, Taps!Paid
    <3>2. IsFiniteSet(Kept) /\ Kept \subseteq PaymentSet
      <4>1. IsFiniteSet(Taps!Paid)
        BY <2>1, FS_Union DEF Taps!Paid
      <4> QED
        BY <1>2, <4>1, FS_Subset DEF Kept, Taps!Limited, Taps!Paid, FundsInv
    <3>3. ASSUME NEW s, NEW d
          PROVE  /\ Total(KeptFor(s, d)') <= Total(KeptFor(s, d)) /\ Total(KeptFor(s, d)') \in Nat
                 /\ Total(KeptFor(s, d)) \in Nat
      <4>1. KeptFor(s, d)' \subseteq KeptFor(s, d)
        BY <3>1 DEF KeptFor
      <4>2. IsFiniteSet(KeptFor(s, d))
        BY <3>2, FS_Subset DEF KeptFor
      <4> QED
        BY <4>1, <4>2, TotalLess
    <3>4. \A s, d : Total(KeptFor(s, d))' = Total(KeptFor(s, d)')
      BY DEF Total, Taps!Total
    <3>5. \A q \in Kept' :
             /\ requests'[q.to] # None /\ q.time <= now'
             /\ Taps!ToSecond(q.time) <= requests'[q.to].last
             /\ Taps!DayOf(q.time) <= requests'[q.to].day
             /\ handler'.at # "idle" /\ handler'.payment.to = q.to => q.time <= handler'.payment.time
      BY <1>2, <1>3, <1>4, <2>5, <3>1 DEF LimitsInv, DatesInv, SumsInv, GapsInv
    <3>6. ASSUME MaxPerAddress > 0, NEW r \in Recipient, NEW d \in 0..Taps!DayOf(MaxTime)
          PROVE  /\ Total(KeptFor(r, d)') <= MaxPerAddress
                 /\ requests'[r] # None /\ requests'[r].day = d => Total(KeptFor(r, d)') <= requests'[r].daily
      <4>1. /\ Total(KeptFor(r, d)) <= MaxPerAddress
            /\ requests[r] # None /\ requests[r].day = d => Total(KeptFor(r, d)) <= requests[r].daily
        BY <1>2, <3>6 DEF LimitsInv, DatesInv, SumsInv, GapsInv
      <4>2. requests[r] # None => requests[r].daily \in Nat
        BY <1>2 DEF FundsInv
      <4>3. requests' = requests
        BY <1>4
      <4> QED
        BY <1>1, <3>3, <4>1, <4>2, <4>3
    <3>7. \A q, u \in Kept' : q # u /\ q.to = u.to /\ q.time <= u.time => u.time - q.time > MinInterval - Second
      BY <1>2, <3>1 DEF LimitsInv, DatesInv, SumsInv, GapsInv
    <3>8. MaxPerAddress > 0 => \A r \in Recipient, d \in 0..Taps!DayOf(MaxTime) :
             /\ Total(KeptFor(r, d))' <= MaxPerAddress
             /\ requests'[r] # None /\ requests'[r].day = d => Total(KeptFor(r, d))' <= requests'[r].daily
      BY <3>4, <3>6
    <3>9. DatesInv'
      BY <3>5 DEF DatesInv
    <3>10. SumsInv'
      BY <3>8 DEF SumsInv
    <3>11. GapsInv'
      BY <3>7 DEF GapsInv
    <3> QED
      BY <3>9, <3>10, <3>11 DEF LimitsInv
  <2> QED
    BY <1>4, <2>7, <2>8, <2>9 DEF FaucetInv
<1>7. \/ pool' = pool /\ handler' = [at |-> "idle", payment |-> None]
      \/ pool' = pool \cup {p} /\ handler' = [handler EXCEPT !.at = "record"] /\ p.amount <= Taps!Spendable
  <2>1. Taps!Spendable \in Int /\ p.amount \in Int
    <3>1. Total(pool) \in Nat /\ Total(confirmed) \in Nat
      BY <1>2, TotalIs DEF FundsInv
    <3> QED
      BY <1>1, <3>1 DEF Taps!Spendable, Total, PaymentSet
  <2> QED
    BY <1>3, <2>1 DEF Taps!Admit, Taps!Idle
<1> QED
  BY <1>5, <1>6, <1>7

\* Nothing is recorded and nothing new is paid.
LEMMA LimitsStay ==
    ASSUME Taps!FaucetAssumption, FundsInv, LimitsInv, Kept' = Kept, requests' = requests,
           now' \in Nat, now <= now', handler'.at # "idle" => handler' = handler
    PROVE  LimitsInv'
<1>1. \A s, d : KeptFor(s, d)' = KeptFor(s, d)
  BY DEF KeptFor
<1>2. SumsInv'
  BY <1>1 DEF LimitsInv, SumsInv, Total, Taps!Total
<1>3. DatesInv'
  <2>1. \A p \in Kept : p.time \in Nat /\ now \in Nat
    BY DEF FundsInv, Kept, Taps!Limited, Taps!Paid, PaymentSet
  <2> QED
    BY <2>1 DEF LimitsInv, DatesInv
<1> QED
  BY <1>2, <1>3 DEF LimitsInv, GapsInv

\* The state file records the payment.
LEMMA FaucetRecord ==
    ASSUME Taps!FaucetAssumption, FaucetInv, Taps!Record
    PROVE  FaucetInv'
<1>1. /\ MaxPerAddress \in Nat /\ MinInterval \in Nat /\ Funds \in Nat /\ MaxTime \in Nat /\ MaxFaults \in Nat
      /\ FaucetAmount \in Nat \ {0} /\ Second \in Nat \ {0} /\ Day \in Nat \ {0}
      /\ None \notin PaymentSet
      /\ None \notin [last : 0..MaxTime, day : 0..Taps!DayOf(MaxTime), daily : Nat \ {0}]
      /\ \A t \in 0..MaxTime : Taps!DayOf(t) \in 0..Taps!DayOf(MaxTime) /\ Taps!ToSecond(t) \in 0..MaxTime
      /\ \A t \in Nat : Taps!DayOf(t) \in Nat /\ Taps!ToSecond(t) \in Nat /\ Taps!ToSecond(t) <= t /\ t < Taps!ToSecond(t) + Second
      /\ \A t, u \in Nat : t <= u => Taps!DayOf(t) <= Taps!DayOf(u) /\ Taps!ToSecond(t) <= Taps!ToSecond(u)
  BY FaucetConstants
<1>2. FundsInv /\ FileInv /\ LimitsInv
  BY DEF FaucetInv
<1>3. PICK p \in PaymentSet : p = handler.payment
  BY <1>2 DEF Taps!Record, FundsInv
<1>4. PICK r \in Recipient, a \in 1..FaucetAmount, t \in 0..MaxTime :
         r = p.to /\ a = p.amount /\ t = p.time /\ t <= now
  BY <1>2, <1>3 DEF PaymentSet, Taps!Record, FundsInv
<1>41. t \in Nat /\ now \in Nat
  BY <1>1, <1>2 DEF FundsInv
<1>5. PICK old \in {None} \cup [last : 0..MaxTime, day : 0..Taps!DayOf(MaxTime), daily : Nat \ {0}] : old = requests[r]
  BY <1>2 DEF FundsInv
<1>6. PICK sum \in Nat : /\ sum = Taps!Daily(r, t)
                         /\ sum = IF old = None \/ old.day # Taps!DayOf(t) THEN 0 ELSE old.daily
  BY <1>5 DEF Taps!Daily
<1>7. /\ handler.at = "record" /\ handler' = [at |-> "idle", payment |-> None]
      /\ UNCHANGED <<now, pool, confirmed, unrecorded, faults>>
  BY DEF Taps!Record, Taps!Idle
<1>8. /\ MaxPerAddress > 0 => sum + a <= MaxPerAddress
      /\ old # None => t - old.last >= MinInterval /\ old.day <= Taps!DayOf(t)
  <2>1. ~Taps!TooSoon(r, t) /\ ~Taps!OverLimit(r, a, t) /\ (old # None => old.day <= Taps!DayOf(t))
    BY <1>2, <1>3, <1>4, <1>5, <1>7 DEF FileInv
  <2>2. old # None => t - old.last >= MinInterval
    <3>1. ~(old # None /\ t - old.last < MinInterval)
      BY <1>5, <2>1 DEF Taps!TooSoon
    <3>2. ASSUME old # None
          PROVE  old.last \in Nat
      <4>1. old \in [last : 0..MaxTime, day : 0..Taps!DayOf(MaxTime), daily : Nat \ {0}]
        BY <3>2
      <4>2. old.last \in 0..MaxTime
        BY <4>1
      <4> QED
        BY <4>2
    <3> QED
      BY <1>1, <1>41, <3>1, <3>2
  <2>3. ~(MaxPerAddress > 0 /\ sum + a > MaxPerAddress)
    BY <1>6, <2>1 DEF Taps!OverLimit
  <2>4. a \in Nat
    BY <1>1
  <2> QED
    BY <1>1, <2>1, <2>2, <2>3, <2>4
<1> DEFINE new == [last |-> Taps!ToSecond(t), day |-> Taps!DayOf(t), daily |-> sum + a]
<1>9. requests' = [requests EXCEPT ![r] = new]
  BY <1>3, <1>4, <1>6 DEF Taps!Record, Taps!Recorded
<1>10. /\ new \in [last : 0..MaxTime, day : 0..Taps!DayOf(MaxTime), daily : Nat \ {0}]
       /\ new.last = Taps!ToSecond(t) /\ new.day = Taps!DayOf(t) /\ new.daily = sum + a
  BY <1>1
<1> HIDE DEF new
<1>11. /\ requests' \in [Recipient -> {None} \cup [last : 0..MaxTime, day : 0..Taps!DayOf(MaxTime), daily : Nat \ {0}]]
       /\ requests'[r] = new /\ \A s \in Recipient \ {r} : requests'[s] = requests[s]
  BY <1>2, <1>9, <1>10 DEF FundsInv
<1>12. FundsInv'
  BY <1>2, <1>7, <1>11 DEF FundsInv, Total, Taps!Total
<1>13. FileInv'
  <2>1. Taps!DayOf(t) <= Taps!DayOf(now)
    BY <1>1, <1>4, <1>41
  <2>2. ASSUME NEW s \in Recipient, requests'[s] # None
        PROVE  /\ MaxPerAddress > 0 => requests'[s].daily <= MaxPerAddress
               /\ requests'[s].day <= Taps!DayOf(now)
    BY <1>2, <1>8, <1>10, <1>11, <2>1, <2>2 DEF FileInv
  <2> QED
    BY <1>7, <2>2 DEF FileInv
<1>14. LimitsInv'
  <2>1. DatesInv /\ SumsInv /\ GapsInv
    BY <1>2 DEF LimitsInv
  <2>2. Kept' \subseteq Kept \cup {p} /\ Kept \subseteq PaymentSet /\ IsFiniteSet(Kept)
    <3>1. Kept' \subseteq Kept \cup {p} /\ Kept \subseteq PaymentSet
      BY <1>2, <1>3, <1>7 DEF Kept, Taps!Limited, Taps!Paid, FundsInv
    <3>2. IsFiniteSet(Taps!Paid)
      BY <1>2, FS_Union DEF FundsInv, Taps!Paid
    <3> QED
      BY <3>1, <3>2, FS_Subset DEF Kept, Taps!Limited
  <2>3. \A q \in Kept : q.time \in Nat /\ q.to \in Recipient /\ (q.to = r => q.time <= t)
    BY <1>3, <1>4, <1>7, <2>1, <2>2 DEF DatesInv, PaymentSet
  <2>4. t \in Nat /\ now \in Nat /\ now' = now
    BY <1>7, <1>41
  <2>5. DatesInv'
    <3>1. ASSUME NEW q \in Kept'
          PROVE  /\ requests'[q.to] # None /\ q.time <= now
                 /\ Taps!ToSecond(q.time) <= requests'[q.to].last
                 /\ Taps!DayOf(q.time) <= requests'[q.to].day
      <4>1. CASE q.to = r
        <5>1. q.time <= t /\ q.time \in Nat /\ q.time <= now
          BY <1>4, <2>2, <2>3, <2>4, <3>1, <4>1
        <5>2. Taps!ToSecond(q.time) <= new.last /\ Taps!DayOf(q.time) <= new.day
          BY <1>1, <1>10, <2>4, <5>1
        <5> QED
          BY <1>1, <1>10, <1>11, <4>1, <5>1, <5>2
      <4>2. CASE q.to # r
        <5>1. q \in Kept /\ q.to \in Recipient \ {r}
          BY <1>4, <2>2, <2>3, <3>1, <4>2
        <5> QED
          BY <1>11, <2>1, <5>1 DEF DatesInv
      <4> QED
        BY <4>1, <4>2
    <3>2. handler'.at = "idle"
      BY <1>7
    <3> QED
      BY <2>4, <3>1, <3>2 DEF DatesInv
  <2>6. SumsInv'
    <3>1. ASSUME MaxPerAddress > 0, NEW s \in Recipient, NEW d \in 0..Taps!DayOf(MaxTime)
          PROVE  /\ Total(KeptFor(s, d)') <= MaxPerAddress
                 /\ requests'[s] # None /\ requests'[s].day = d => Total(KeptFor(s, d)') <= requests'[s].daily
      <4>1. /\ Total(KeptFor(s, d)) <= MaxPerAddress
            /\ requests[s] # None /\ requests[s].day = d => Total(KeptFor(s, d)) <= requests[s].daily
        BY <2>1, <3>1 DEF SumsInv
      <4>2. IsFiniteSet(KeptFor(s, d)) /\ Total(KeptFor(s, d)) \in Nat
        BY <2>2, FS_Subset, TotalIs DEF KeptFor
      <4>3. CASE s = r /\ d = Taps!DayOf(t)
        <5>1. KeptFor(s, d)' \subseteq KeptFor(s, d) \cup {p}
          BY <2>2 DEF KeptFor
        <5>2. IsFiniteSet({p}) /\ Total({p}) = a
          BY <1>4, TotalOne
        <5>3. /\ IsFiniteSet(KeptFor(s, d) \cup {p}) /\ Total(KeptFor(s, d) \cup {p}) \in Nat
              /\ Total(KeptFor(s, d) \cup {p}) <= Total(KeptFor(s, d)) + a
          BY <4>2, <5>2, TotalUnion
        <5>4. Total(KeptFor(s, d)') \in Nat /\ Total(KeptFor(s, d)') <= Total(KeptFor(s, d) \cup {p})
          BY <5>1, <5>3, TotalLess
        <5>5. Total(KeptFor(s, d)) <= sum
          <6>1. CASE old # None /\ old.day = d
            BY <1>5, <1>6, <4>1, <4>3, <6>1
          <6>2. CASE old = None \/ old.day # d
            <7>1. ASSUME NEW q \in KeptFor(s, d)
                  PROVE  FALSE
              <8>1. q \in Kept /\ q.to = r /\ Taps!DayOf(q.time) = d
                BY <4>3, <7>1 DEF KeptFor
              <8>2. old # None /\ Taps!DayOf(q.time) <= old.day
                BY <1>5, <2>1, <8>1 DEF DatesInv
              <8> QED
                BY <1>5, <1>8, <4>3, <6>2, <8>1, <8>2
            <7>2. KeptFor(s, d) = {}
              BY <7>1
            <7> QED
              BY <7>2, TotalNone
          <6> QED
            BY <6>1, <6>2
        <5>6. Total(KeptFor(s, d)') <= sum + a /\ a \in Nat
          BY <1>1, <4>2, <5>3, <5>4, <5>5
        <5>7. requests'[s].daily = sum + a /\ sum + a <= MaxPerAddress
          BY <1>8, <1>10, <1>11, <3>1, <4>3
        <5> QED
          BY <1>1, <5>4, <5>6, <5>7
      <4>4. CASE s # r \/ d # Taps!DayOf(t)
        <5>1. KeptFor(s, d)' \subseteq KeptFor(s, d)
          BY <1>4, <2>2, <4>4 DEF KeptFor
        <5>2. Total(KeptFor(s, d)') <= Total(KeptFor(s, d)) /\ Total(KeptFor(s, d)') \in Nat
          BY <4>2, <5>1, TotalLess
        <5>3. Total(KeptFor(s, d)') <= MaxPerAddress
          BY <1>1, <4>1, <4>2, <5>2
        <5>4. ASSUME requests'[s] # None, requests'[s].day = d
              PROVE  Total(KeptFor(s, d)') <= requests'[s].daily
          <6>1. s # r
            BY <1>10, <1>11, <4>4, <5>4
          <6>2. requests'[s] = requests[s]
            BY <1>11, <6>1
          <6>3. Total(KeptFor(s, d)) <= requests[s].daily /\ requests[s].daily \in Nat
            BY <1>2, <4>1, <5>4, <6>2 DEF FundsInv
          <6> QED
            BY <4>2, <5>2, <6>2, <6>3
        <5> QED
          BY <5>3, <5>4
      <4> QED
        BY <4>3, <4>4
    <3>2. \A s, d : Total(KeptFor(s, d))' = Total(KeptFor(s, d)')
      BY DEF Total, Taps!Total
    <3> QED
      BY <3>1, <3>2 DEF SumsInv
  <2>7. GapsInv'
    <3>1. ASSUME NEW q \in Kept, q.to = r
          PROVE  t - q.time > MinInterval - Second /\ q.time \in Nat /\ q.time <= t
      <4>1. old # None /\ Taps!ToSecond(q.time) <= old.last
        BY <1>5, <2>1, <3>1 DEF DatesInv
      <4>2. q.time \in Nat /\ q.time <= t /\ q.time < Taps!ToSecond(q.time) + Second /\ Taps!ToSecond(q.time) \in Nat
        BY <1>1, <2>3, <3>1
      <4>3. t - old.last >= MinInterval /\ old.last \in Nat
        BY <1>5, <1>8, <4>1
      <4>4. PICK x \in Nat, y \in Nat, z \in Nat : x = Taps!ToSecond(q.time) /\ y = old.last /\ z = q.time
        BY <4>2, <4>3
      <4>5. x <= y /\ z <= t /\ z < x + Second /\ t - y >= MinInterval
        BY <4>1, <4>2, <4>3, <4>4
      <4>6. t - z > MinInterval - Second
        BY <1>1, <2>4, <4>5
      <4> QED
        BY <4>2, <4>4, <4>6
    <3>2. ASSUME NEW q \in Kept', NEW u \in Kept', q # u, q.to = u.to, q.time <= u.time
          PROVE  u.time - q.time > MinInterval - Second
      <4>1. CASE q \in Kept /\ u \in Kept
        BY <2>1, <3>2, <4>1 DEF GapsInv
      <4>2. CASE q \in Kept /\ u = p
        BY <1>4, <3>1, <3>2, <4>2
      <4>3. CASE q = p /\ u \in Kept
        <5>1. t - u.time > MinInterval - Second /\ u.time \in Nat /\ u.time <= t /\ t <= u.time
          BY <1>4, <3>1, <3>2, <4>3
        <5>2. u.time = t
          BY <2>4, <5>1
        <5> QED
          BY <1>4, <4>3, <5>1, <5>2
      <4> QED
        BY <2>2, <3>2, <4>1, <4>2, <4>3
    <3> QED
      BY <3>2 DEF GapsInv
  <2> QED
    BY <2>5, <2>6, <2>7 DEF LimitsInv
<1> QED
  BY <1>7, <1>12, <1>13, <1>14 DEF FaucetInv

\* A block confirms a payment.
LEMMA FaucetMine ==
    ASSUME Taps!FaucetAssumption, FaucetInv, Taps!Mine
    PROVE  FaucetInv'
<1>1. FundsInv /\ FileInv /\ LimitsInv
  BY DEF FaucetInv
<1>2. PICK S \in SUBSET pool : pool' = pool \ S /\ confirmed' = confirmed \cup S
  BY DEF Taps!Mine
<1>3. UNCHANGED <<now, requests, handler, unrecorded, faults>>
  BY DEF Taps!Mine
<1>4. IsFiniteSet(pool) /\ IsFiniteSet(confirmed) /\ IsFiniteSet(S) /\ IsFiniteSet(pool \ S)
  BY <1>1, FS_Subset DEF FundsInv
<1>5. /\ Total(confirmed \cup S) <= Total(confirmed) + Total(S) /\ IsFiniteSet(confirmed \cup S)
      /\ Total(confirmed) \in Nat /\ Total(S) \in Nat /\ Total(confirmed \cup S) \in Nat
  BY <1>4, TotalUnion
<1>6. Total(pool) = Total(S) + Total(pool \ S) /\ Total(pool \ S) \in Nat
  <2>1. S \cap (pool \ S) = {} /\ S \cup (pool \ S) = pool
    OBVIOUS
  <2> QED
    BY <1>4, <2>1, TotalUnion
<1>7. Total(confirmed \cup S) + Total(pool \ S) <= Funds
  <2>1. Total(confirmed) + Total(pool) <= Funds /\ Funds \in Nat
    BY <1>1, FaucetConstants DEF FundsInv
  <2> QED
    BY <1>5, <1>6, <2>1
<1>8. FundsInv'
  <2>1. Total(confirmed)' = Total(confirmed \cup S) /\ Total(pool)' = Total(pool \ S)
    BY <1>2 DEF Total, Taps!Total
  <2> QED
    BY <1>1, <1>2, <1>3, <1>4, <1>5, <1>7, <2>1 DEF FundsInv
<1>9. FileInv'
  BY <1>1, <1>3 DEF FileInv, Taps!TooSoon, Taps!OverLimit, Taps!Daily
<1>10. LimitsInv'
  <2>1. Kept' = Kept
    BY <1>2, <1>3 DEF Kept, Taps!Limited, Taps!Paid
  <2>2. now' \in Nat /\ now <= now'
    BY <1>1, <1>3, FaucetConstants DEF FundsInv
  <2> QED
    BY <1>1, <1>3, <2>1, <2>2, LimitsStay
<1> QED
  BY <1>3, <1>8, <1>9, <1>10 DEF FaucetInv

\* A fault: the handler ends, and its payment leaves the mempool or escapes.
LEMMA FaucetFault ==
    ASSUME Taps!FaucetAssumption, FaucetInv, Taps!RecordFails \/ Taps!Crash
    PROVE  FaucetInv'
<1>1. FundsInv /\ FileInv /\ LimitsInv /\ MaxFaults \in Nat
  BY FaucetConstants DEF FaucetInv
<1>2. /\ faults' = faults + 1 /\ faults < MaxFaults
      /\ handler' = [at |-> "idle", payment |-> None]
      /\ UNCHANGED <<now, requests, confirmed>>
  BY DEF Taps!RecordFails, Taps!Crash, Taps!Idle
<1>3. pool' \subseteq pool /\ unrecorded' \subseteq unrecorded \cup {handler.payment}
  BY DEF Taps!RecordFails, Taps!Crash
<1>4. IsFiniteSet(pool') /\ Total(pool') <= Total(pool) /\ Total(pool') \in Nat /\ Total(pool) \in Nat
      /\ Total(confirmed) \in Nat
  BY <1>1, <1>3, TotalLess, TotalIs DEF FundsInv
<1>5. Total(confirmed) + Total(pool') <= Funds
  <2>1. Total(confirmed) + Total(pool) <= Funds /\ Funds \in Nat
    BY <1>1, FaucetConstants DEF FundsInv
  <2> QED
    BY <1>4, <2>1
<1>6. IsFiniteSet(unrecorded') /\ Cardinality(unrecorded') <= faults'
  <2>1. IsFiniteSet(unrecorded) /\ Cardinality(unrecorded) <= faults /\ faults \in Nat
    BY <1>1 DEF FundsInv
  <2>2. /\ IsFiniteSet(unrecorded \cup {handler.payment})
        /\ Cardinality(unrecorded \cup {handler.payment}) <= Cardinality(unrecorded) + 1
        /\ Cardinality(unrecorded) \in Nat
    <3>1. PICK p : p = handler.payment
      OBVIOUS
    <3>2. /\ IsFiniteSet(unrecorded \cup {p})
          /\ Cardinality(unrecorded \cup {p}) = IF p \in unrecorded THEN Cardinality(unrecorded)
                                              ELSE Cardinality(unrecorded) + 1
      BY <2>1, FS_AddElement
    <3> QED
      BY <2>1, <3>1, <3>2, FS_CardinalityType
  <2>3. /\ IsFiniteSet(unrecorded')
        /\ Cardinality(unrecorded') <= Cardinality(unrecorded \cup {handler.payment})
        /\ Cardinality(unrecorded') \in Nat /\ Cardinality(unrecorded \cup {handler.payment}) \in Nat
    BY <1>3, <2>2, FS_Subset, FS_CardinalityType
  <2> QED
    BY <1>2, <2>1, <2>2, <2>3
<1>7. FundsInv'
  <2>1. Total(confirmed)' = Total(confirmed) /\ Total(pool)' = Total(pool')
    BY <1>2 DEF Total, Taps!Total
  <2>2. Cardinality(unrecorded)' = Cardinality(unrecorded')
    OBVIOUS
  <2>3. faults' \in 0..MaxFaults
    BY <1>1, <1>2 DEF FundsInv
  <2> QED
    BY <1>1, <1>2, <1>3, <1>4, <1>5, <1>6, <2>1, <2>2, <2>3 DEF FundsInv
<1>8. FileInv'
  BY <1>1, <1>2 DEF FileInv
<1>9. LimitsInv'
  <2>1. Kept' = Kept
    BY <1>2 DEF Taps!RecordFails, Taps!Crash, Kept, Taps!Limited, Taps!Paid
  <2>2. now' \in Nat /\ now <= now'
    BY <1>1, <1>2, FaucetConstants DEF FundsInv
  <2>3. handler'.at = "idle"
    BY <1>2
  <2> QED
    BY <1>1, <1>2, <2>1, <2>2, <2>3, LimitsStay
<1> QED
  BY <1>7, <1>8, <1>9 DEF FaucetInv

\* Time passes.
LEMMA FaucetTick ==
    ASSUME Taps!FaucetAssumption, FaucetInv, Taps!Tick
    PROVE  FaucetInv'
<1>1. FundsInv /\ FileInv /\ LimitsInv /\ MaxTime \in Nat
  BY FaucetConstants DEF FaucetInv
<1>2. now < MaxTime /\ now' = now + 1 /\ UNCHANGED <<requests, pool, confirmed, handler, unrecorded, faults>>
  BY DEF Taps!Tick
<1>3. now \in Nat /\ now' \in 0..MaxTime /\ now <= now'
  BY <1>1, <1>2 DEF FundsInv
<1>4. FundsInv'
  <2>1. \A p \in PaymentSet : p.time <= now => p.time <= now'
    BY <1>1, <1>2, <1>3 DEF PaymentSet
  <2> QED
    BY <1>1, <1>2, <1>3, <2>1 DEF FundsInv, Total, Taps!Total
<1>5. FileInv'
  <2>1. Taps!DayOf(now) <= Taps!DayOf(now') /\ Taps!DayOf(now) \in Nat /\ Taps!DayOf(now') \in Nat
    <3>1. now' \in Nat
      BY <1>1, <1>3
    <3>2. /\ \A t \in Nat : Taps!DayOf(t) \in Nat
          /\ \A t, u \in Nat : t <= u => Taps!DayOf(t) <= Taps!DayOf(u)
      BY FaucetConstants
    <3>3. \A t, u \in Nat : t <= u => Taps!DayOf(t) <= Taps!DayOf(u) /\ Taps!DayOf(t) \in Nat /\ Taps!DayOf(u) \in Nat
      BY <3>2
    <3>4. PICK t \in Nat : t = now
      BY <1>3
    <3>5. PICK u \in Nat : u = now'
      BY <3>1
    <3>6. t <= u
      BY <1>3, <3>4, <3>5
    <3> QED
      BY <3>3, <3>4, <3>5, <3>6
  <2>2. \A r \in Recipient : requests[r] # None => requests[r].day \in Nat
    <3>1. (0..Taps!DayOf(MaxTime)) \subseteq Nat
      OBVIOUS
    <3> QED
      BY <1>1, <3>1 DEF FundsInv
  <2>3. \A r \in Recipient : requests[r] # None => requests[r].day <= Taps!DayOf(now')
    BY <1>1, <2>1, <2>2 DEF FileInv
  <2> QED
    BY <1>1, <1>2, <2>3 DEF FileInv, Taps!TooSoon, Taps!OverLimit, Taps!Daily
<1>6. Kept' = Kept
  BY <1>2 DEF Kept, Taps!Limited, Taps!Paid
<1>7. LimitsInv'
  BY <1>1, <1>2, <1>3, <1>6, LimitsStay
<1> QED
  BY <1>2, <1>4, <1>5, <1>7 DEF FaucetInv

\* Every step of the faucet keeps the invariant.
LEMMA FaucetStep ==
    ASSUME Taps!FaucetAssumption, FaucetInv, [Taps!Next]_(Taps!vars)
    PROVE  FaucetInv'
<1>1. CASE UNCHANGED Taps!vars
  <2>1. UNCHANGED <<now, requests, pool, confirmed, handler, unrecorded, faults>>
    BY <1>1 DEF Taps!vars
  <2>2. FundsInv /\ FileInv /\ LimitsInv /\ now \in Nat /\ MaxTime \in Nat
    <3>1. MaxTime \in Nat
      BY FaucetConstants
    <3>2. FundsInv /\ FileInv /\ LimitsInv
      BY DEF FaucetInv
    <3>3. now \in 0..MaxTime
      BY <3>2 DEF FundsInv
    <3> QED
      BY <3>1, <3>2, <3>3
  <2>3. FundsInv' /\ FileInv'
    BY <2>1, <2>2 DEF FundsInv, FileInv, Total, Taps!Total, Taps!TooSoon, Taps!OverLimit, Taps!Daily
  <2>4. Kept' = Kept
    BY <2>1 DEF Kept, Taps!Limited, Taps!Paid
  <2>5. LimitsInv'
    BY <2>1, <2>2, <2>4, LimitsStay
  <2> QED
    BY <2>1, <2>3, <2>5 DEF FaucetInv
<1>2. ASSUME NEW r \in Recipient, NEW amount \in 1..FaucetAmount, Taps!Request(r, amount)
      PROVE  FaucetInv'
  BY <1>2, FaucetRequest
<1>3. CASE Taps!Admit \/ Taps!Record \/ Taps!RecordFails \/ Taps!Mine \/ Taps!Crash \/ Taps!Tick
  BY <1>3, FaucetAdmit, FaucetRecord, FaucetFault, FaucetMine, FaucetTick
<1> QED
  BY <1>1, <1>2, <1>3 DEF Taps!Next

\* The invariant says what the faucet promises.
LEMMA FaucetPromises ==
    ASSUME Taps!FaucetAssumption, FaucetInv
    PROVE  Taps!FaucetIsBounded
<1>1. /\ MaxPerAddress \in Nat /\ MinInterval \in Nat /\ Funds \in Nat /\ MaxTime \in Nat /\ MaxFaults \in Nat
      /\ FaucetAmount \in Nat \ {0} /\ Second \in Nat \ {0} /\ Day \in Nat \ {0}
      /\ \A t \in 0..MaxTime : Taps!DayOf(t) \in 0..Taps!DayOf(MaxTime) /\ Taps!ToSecond(t) \in 0..MaxTime
      /\ \A t \in Nat : Taps!DayOf(t) \in Nat /\ Taps!ToSecond(t) \in Nat /\ Taps!ToSecond(t) <= t /\ t < Taps!ToSecond(t) + Second
  BY FaucetConstants
<1>2. FundsInv /\ FileInv /\ LimitsInv
  BY DEF FaucetInv
<1>3. IsFiniteSet(pool) /\ IsFiniteSet(confirmed) /\ IsFiniteSet(Taps!Paid)
  BY <1>2, FS_Union DEF FundsInv, Taps!Paid
<1>4. Taps!TypeOK
  <2>1. ASSUME NEW r \in Recipient, requests[r] # None
        PROVE  /\ requests[r].last \in 0..MaxTime /\ requests[r].day \in 0..Taps!DayOf(MaxTime)
               /\ MaxPerAddress > 0 => requests[r].daily \in 1..MaxPerAddress
    <3>1. requests[r] \in [last : 0..MaxTime, day : 0..Taps!DayOf(MaxTime), daily : Nat \ {0}]
      BY <1>2, <2>1 DEF FundsInv
    <3>2. MaxPerAddress > 0 => requests[r].daily <= MaxPerAddress
      BY <1>2, <2>1 DEF FileInv
    <3>3. requests[r].daily \in Nat \ {0}
      BY <3>1
    <3> QED
      BY <1>1, <3>1, <3>2, <3>3
  <2>2. now \in 0..MaxTime /\ faults \in 0..MaxFaults /\ handler.at \in {"idle", "pending", "record"}
    BY <1>2 DEF FundsInv
  <2> QED
    BY <2>1, <2>2 DEF Taps!TypeOK
<1>5. Taps!NeverOverspent
  <2>1. Total(confirmed) + Total(pool) <= Funds
    BY <1>2 DEF FundsInv
  <2>2. /\ Total(Taps!Paid) <= Total(pool) + Total(confirmed) /\ Total(Taps!Paid) \in Nat
        /\ Total(pool) \in Nat /\ Total(confirmed) \in Nat
    BY <1>3, TotalUnion DEF Taps!Paid
  <2> QED
    BY <1>1, <2>1, <2>2 DEF Taps!NeverOverspent, Total
<1>6. Taps!EscapesAreFew
  BY <1>2, FaucetCardinality, FS_CardinalityType DEF FundsInv, Taps!EscapesAreFew
<1>7. Taps!DailyLimitIsKept /\ Taps!GapIsNearlyKept
  <2>1. DatesInv /\ SumsInv /\ GapsInv
    BY <1>2 DEF LimitsInv
  <2>2. CASE handler.at # "record"
    <3>1. Kept = Taps!Limited
      BY <2>2 DEF Kept
    <3>2. Taps!GapIsNearlyKept
      BY <2>1, <3>1 DEF GapsInv, Taps!GapIsNearlyKept
    <3>3. \A r \in Recipient, d \in 0..Taps!DayOf(MaxTime) : Taps!LimitedTo(r, d) = KeptFor(r, d)
      BY <3>1 DEF KeptFor, Taps!LimitedTo
    <3> QED
      BY <2>1, <3>2, <3>3 DEF SumsInv, Taps!DailyLimitIsKept, Total
  <2>3. CASE handler.at = "record"
    <3>1. PICK p \in PaymentSet : p = handler.payment /\ p.time <= now
      BY <1>2, <2>3 DEF FundsInv
    <3>2. PICK s \in Recipient, a \in 1..FaucetAmount, t \in 0..MaxTime : s = p.to /\ a = p.amount /\ t = p.time
      BY <3>1 DEF PaymentSet
    <3>3. Taps!Limited \subseteq Kept \cup {p} /\ Kept \subseteq Taps!Limited /\ Kept \subseteq PaymentSet /\ IsFiniteSet(Kept)
      <4>1. Taps!Limited \subseteq Kept \cup {p} /\ Kept \subseteq Taps!Limited /\ Kept \subseteq PaymentSet
        BY <1>2, <2>3, <3>1 DEF Kept, Taps!Limited, Taps!Paid, FundsInv
      <4> QED
        BY <1>3, <4>1, FS_Subset DEF Taps!Limited
    <3>4. t \in Nat /\ a \in Nat
      BY <1>1
    <3>5. \A q \in Kept : /\ q.time \in Nat /\ q.to \in Recipient
                          /\ (q.to = s => q.time <= t)
      BY <2>1, <2>3, <3>1, <3>2, <3>3 DEF DatesInv, PaymentSet
    <3>6. PICK old \in {None} \cup [last : 0..MaxTime, day : 0..Taps!DayOf(MaxTime), daily : Nat \ {0}] : old = requests[s]
      BY <1>2 DEF FundsInv
    <3>7. ~Taps!TooSoon(s, t) /\ ~Taps!OverLimit(s, a, t) /\ (old # None => old.day <= Taps!DayOf(t))
      BY <1>2, <2>3, <3>1, <3>2, <3>6 DEF FileInv
    <3>8. ASSUME NEW q \in Kept, q.to = s
          PROVE  t - q.time > MinInterval - Second /\ q.time \in Nat /\ q.time <= t
      <4>1. old # None /\ Taps!ToSecond(q.time) <= old.last
        BY <2>1, <3>6, <3>8 DEF DatesInv
      <4>2. q.time \in Nat /\ q.time <= t /\ q.time < Taps!ToSecond(q.time) + Second /\ Taps!ToSecond(q.time) \in Nat
        BY <1>1, <3>5, <3>8
      <4>3. ~(t - old.last < MinInterval)
        BY <3>6, <3>7, <4>1 DEF Taps!TooSoon
      <4>4. old.last \in Nat
        BY <1>1, <4>1
      <4>5. PICK x \in Nat, y \in Nat, z \in Nat : x = Taps!ToSecond(q.time) /\ y = old.last /\ z = q.time
        BY <4>2, <4>4
      <4>6. x <= y /\ z <= t /\ z < x + Second /\ ~(t - y < MinInterval)
        BY <4>1, <4>2, <4>3, <4>5
      <4>7. t - z > MinInterval - Second
        BY <1>1, <3>4, <4>6
      <4> QED
        BY <4>2, <4>5, <4>7
    <3>9. ASSUME NEW q \in Taps!Limited, NEW u \in Taps!Limited, q # u, q.to = u.to, q.time <= u.time
          PROVE  u.time - q.time > MinInterval - Second
      <4>1. CASE q \in Kept /\ u \in Kept
        BY <2>1, <3>9, <4>1 DEF GapsInv
      <4>2. CASE q \in Kept /\ u = p
        BY <3>2, <3>8, <3>9, <4>2
      <4>3. CASE q = p /\ u \in Kept
        <5>1. t - u.time > MinInterval - Second /\ u.time \in Nat /\ u.time <= t /\ t <= u.time
          BY <3>2, <3>8, <3>9, <4>3
        <5>2. u.time = t
          BY <3>4, <5>1
        <5> QED
          BY <3>2, <4>3, <5>1, <5>2
      <4> QED
        BY <3>3, <3>9, <4>1, <4>2, <4>3
    <3>10. ASSUME MaxPerAddress > 0, NEW r \in Recipient, NEW d \in 0..Taps!DayOf(MaxTime)
           PROVE  Total(Taps!LimitedTo(r, d)) <= MaxPerAddress
      <4>1. /\ Total(KeptFor(r, d)) <= MaxPerAddress
            /\ requests[r] # None /\ requests[r].day = d => Total(KeptFor(r, d)) <= requests[r].daily
        BY <2>1, <3>10 DEF SumsInv
      <4>2. IsFiniteSet(KeptFor(r, d)) /\ Total(KeptFor(r, d)) \in Nat
        BY <3>3, FS_Subset, TotalIs DEF KeptFor
      <4>3. CASE r = s /\ d = Taps!DayOf(t)
        <5>1. Taps!LimitedTo(r, d) \subseteq KeptFor(r, d) \cup {p}
          BY <3>3 DEF KeptFor, Taps!LimitedTo
        <5>2. IsFiniteSet({p}) /\ Total({p}) = a
          BY <3>2, TotalOne
        <5>3. /\ IsFiniteSet(KeptFor(r, d) \cup {p}) /\ Total(KeptFor(r, d) \cup {p}) \in Nat
              /\ Total(KeptFor(r, d) \cup {p}) <= Total(KeptFor(r, d)) + a
          BY <4>2, <5>2, TotalUnion
        <5>4. Total(Taps!LimitedTo(r, d)) \in Nat /\ Total(Taps!LimitedTo(r, d)) <= Total(KeptFor(r, d) \cup {p})
          BY <5>1, <5>3, TotalLess
        <5>5. PICK sum \in Nat : /\ sum = Taps!Daily(s, t)
                                 /\ sum = IF old = None \/ old.day # Taps!DayOf(t) THEN 0 ELSE old.daily
          BY <3>6 DEF Taps!Daily
        <5>6. Total(KeptFor(r, d)) <= sum
          <6>1. CASE old # None /\ old.day = d
            BY <3>6, <4>1, <4>3, <5>5, <6>1
          <6>2. CASE old = None \/ old.day # d
            <7>1. ASSUME NEW q \in KeptFor(r, d)
                  PROVE  FALSE
              <8>1. q \in Kept /\ q.to = s /\ Taps!DayOf(q.time) = d
                BY <4>3, <7>1 DEF KeptFor
              <8>2. old # None /\ Taps!DayOf(q.time) <= old.day
                BY <2>1, <3>6, <8>1 DEF DatesInv
              <8> QED
                BY <3>6, <3>7, <4>3, <6>2, <8>1, <8>2
            <7>2. KeptFor(r, d) = {}
              BY <7>1
            <7> QED
              BY <7>2, TotalNone
          <6> QED
            BY <6>1, <6>2
        <5>7. ~(MaxPerAddress > 0 /\ sum + a > MaxPerAddress)
          BY <3>7, <5>5 DEF Taps!OverLimit
        <5> QED
          BY <1>1, <3>4, <3>10, <4>2, <5>3, <5>4, <5>6, <5>7
      <4>4. CASE r # s \/ d # Taps!DayOf(t)
        <5>1. Taps!LimitedTo(r, d) \subseteq KeptFor(r, d)
          BY <3>2, <3>3, <4>4 DEF KeptFor, Taps!LimitedTo
        <5>2. Total(Taps!LimitedTo(r, d)) <= Total(KeptFor(r, d)) /\ Total(Taps!LimitedTo(r, d)) \in Nat
          BY <4>2, <5>1, TotalLess
        <5> QED
          BY <1>1, <4>1, <4>2, <5>2
      <4> QED
        BY <4>3, <4>4
    <3> QED
      BY <3>9, <3>10 DEF Taps!DailyLimitIsKept, Taps!GapIsNearlyKept, Total
  <2> QED
    BY <2>2, <2>3
<1> QED
  BY <1>4, <1>5, <1>6, <1>7 DEF Taps!FaucetIsBounded

\* The faucet, for any recipients, limits, wallet and clock: it never spends
\* more than its wallet holds, no recipient gets more in a day than its limit,
\* and two payments to one are the interval apart but for a fraction of a
\* second, except for one payment for every crash and every failure to save the
\* state file, also when the payment cannot be taken back either.
THEOREM FaucetKeepsItsPromises ==
    ASSUME Taps!FaucetAssumption
    PROVE  Taps!Spec => [](Taps!FaucetIsBounded /\ FaucetIsBounded)
<1>1. Taps!Init => FaucetInv
  BY FaucetStart
<1>2. FaucetInv /\ [Taps!Next]_(Taps!vars) => FaucetInv'
  BY FaucetStep
<1>3. FaucetInv => Taps!FaucetIsBounded /\ FaucetIsBounded
  BY FaucetPromises DEF FaucetIsBounded
<1> QED
  BY <1>1, <1>2, <1>3, PTL DEF Taps!Spec

(***************************************************************************)
(* The fork choice.  Its loops, over the digits of a difficulty, the       *)
(* blocks of a chain and the turns of a locator, are recursive functions.  *)
(***************************************************************************)

Harder(work, digit) == Saturated(16 * work)
Double(distance, turn) == IF turn <= 1 THEN turn ELSE 2 * distance

Digits == INSTANCE Iteration WITH Step <- Harder
Weighing == INSTANCE Iteration WITH Step <- AddWork
Doubling == INSTANCE Iteration WITH Step <- Double

AnyBlock == Block({"both", "local", "peer"}, Int)

\* A set of natural numbers that is not empty has a smallest one.
LEMMA MinIsLeast ==
    ASSUME NEW S, S \subseteq Nat, S # {}
    PROVE  Min(S) \in S /\ \A n \in S : Min(S) <= n
<1>1. \E n \in S : \A m \in S : n <= m
  BY Digits!LeastNat
<1> QED BY <1>1 DEF Min

\* One with an upper bound has a largest one.
LEMMA MaxIsMost ==
    ASSUME NEW S, S \subseteq Nat, S # {}, NEW b \in Nat, \A n \in S : n <= b
    PROVE  Max(S) \in S /\ \A n \in S : n <= Max(S)
<1> DEFINE T == {b - n : n \in S}
<1>1. T \subseteq Nat /\ T # {}
  <2>1. PICK n \in S : TRUE
    OBVIOUS
  <2>2. b - n \in T
    BY <2>1
  <2>3. \A k \in S : k \in Nat /\ k <= b /\ b - k \in Nat
    OBVIOUS
  <2> QED BY <2>2, <2>3
<1>2. PICK m \in T : \A n \in T : m <= n
  <2> HIDE DEF T
  <2> QED BY <1>1, Digits!LeastNat
<1>3. PICK k \in S : m = b - k
  BY <1>2
<1>4. \A n \in S : n <= k
  <2> TAKE n \in S
  <2>1. b - n \in T
    OBVIOUS
  <2>2. b - k <= b - n
    BY <2>1, <1>2, <1>3
  <2>3. k \in Nat /\ n \in Nat
    OBVIOUS
  <2> QED BY <2>2, <2>3
<1> QED BY <1>3, <1>4 DEF Max

\* A saturating number is cut off at the largest uint64.
LEMMA SaturatedIs ==
    ASSUME ForkChoiceAssumption, NEW w \in Nat
    PROVE  Saturated(w) = IF w > MaxWork THEN MaxWork ELSE w
<1>1. MaxWork \in Nat
  BY DEF ForkChoiceAssumption
<1>2. Min({w, MaxWork}) \in {w, MaxWork} /\ \A n \in {w, MaxWork} : Min({w, MaxWork}) <= n
  <2> DEFINE S == {w, MaxWork}
  <2>1. S \subseteq Nat /\ S # {}
    BY <1>1
  <2> HIDE DEF S
  <2>2. Min(S) \in S /\ \A n \in S : Min(S) <= n
    BY <2>1, MinIsLeast
  <2> QED BY <2>2 DEF S
<1> QED BY <1>1, <1>2 DEF Saturated

\* A block is worth something, and no more than the largest uint64.
LEMMA BlockWork ==
    ASSUME ForkChoiceAssumption, NEW d \in Nat
    PROVE  CalculateBlockWork(d) \in 1..MaxWork
<1> DEFINE s == [i \in 1..d |-> i]
           w == CHOOSE f : f = [digit \in 0..d |-> IF digit = 0 THEN 1 ELSE Saturated(16 * f[digit - 1])]
<1>1. MaxWork \in Nat /\ 1 <= MaxWork
  BY DEF ForkChoiceAssumption
<1>2. \E f : f = [digit \in 0..d |-> IF digit = 0 THEN 1 ELSE Saturated(16 * f[digit - 1])]
  <2>1. PICK f : Digits!Trace(f, 1, s, d)
    BY Digits!TraceExists
  <2> QED BY <2>1 DEF Digits!Trace, Harder
<1>3. w = [digit \in 0..d |-> IF digit = 0 THEN 1 ELSE Saturated(16 * w[digit - 1])]
  BY <1>2
<1>4. CalculateBlockWork(d) = IF d >= 16 THEN MaxWork ELSE w[d]
  BY DEF CalculateBlockWork
<1> HIDE DEF w
<1>5. \A k \in 0..d : w[k] \in 1..MaxWork
  <2> DEFINE Bad == {k \in 0..d : w[k] \notin 1..MaxWork}
  <2> SUFFICES ASSUME Bad # {} PROVE FALSE
    OBVIOUS
  <2>1. PICK k \in Bad : \A j \in Bad : k <= j
    <3>1. Bad \subseteq Nat
      OBVIOUS
    <3> HIDE DEF Bad
    <3> QED BY <3>1, Digits!LeastNat
  <2>2. w[0] = 1
    BY <1>3
  <2>3. k \in 0..d /\ k # 0 /\ k - 1 \in 0..d /\ w[k - 1] \in 1..MaxWork
    BY <1>1, <2>1, <2>2
  <2>4. w[k] = Saturated(16 * w[k - 1])
    BY <1>3, <2>3
  <2>5. 16 * w[k - 1] \in Nat /\ 1 <= 16 * w[k - 1]
    BY <2>3, <1>1
  <2>6. Saturated(16 * w[k - 1]) = IF 16 * w[k - 1] > MaxWork THEN MaxWork ELSE 16 * w[k - 1]
    BY <2>5, SaturatedIs
  <2>7. w[k] \in 1..MaxWork
    BY <1>1, <2>4, <2>5, <2>6
  <2> QED BY <2>1, <2>7
<1> QED BY <1>1, <1>4, <1>5

\* A block more is more work, up to the largest uint64.
LEMMA WorkOfOneMore ==
    ASSUME ForkChoiceAssumption, NEW w \in 1..MaxWork, NEW b \in AnyBlock
    PROVE  /\ AddWork(w, b) \in 1..MaxWork /\ w <= AddWork(w, b)
           /\ w < AddWork(w, b) \/ AddWork(w, b) = MaxWork
<1>1. MaxWork \in Nat
  BY DEF ForkChoiceAssumption
<1>2. CalculateBlockWork(b.difficulty) \in 1..MaxWork
  BY BlockWork DEF AnyBlock, Block
<1> DEFINE c == CalculateBlockWork(b.difficulty)
<1>3. AddWork(w, b) = IF w + c > MaxWork THEN MaxWork ELSE w + c
  <2>1. w + c \in Nat
    BY <1>1, <1>2
  <2> QED BY <2>1, SaturatedIs DEF AddWork
<1> HIDE DEF c
<1>4. c \in 1..MaxWork
  BY <1>2 DEF c
<1> QED BY <1>1, <1>3, <1>4

\* The work of a chain is summed block by block.
LEMMA WorkIsRun ==
    ASSUME NEW c
    PROVE  CalculateCumulativeWork(c) = Weighing!Run(CalculateBlockWork(0), c)
BY DEF CalculateCumulativeWork, Weighing!Run

\* A chain is worth more than what it continues, and the same only when both are
\* worth the largest uint64.
LEMMA WorkGrows ==
    ASSUME ForkChoiceAssumption, NEW c \in Seq(AnyBlock), NEW k \in 0..Len(c)
    PROVE  /\ CalculateCumulativeWork(c) \in 1..MaxWork
           /\ CalculateCumulativeWork(BlockAt(c, k)) \in 1..MaxWork
           /\ k # Len(c) =>
                IF CalculateCumulativeWork(BlockAt(c, k)) = MaxWork
                THEN CalculateCumulativeWork(c) = MaxWork
                ELSE CalculateCumulativeWork(BlockAt(c, k)) < CalculateCumulativeWork(c)
<1> DEFINE t == BlockAt(c, k)
           n == Len(c)
           g0 == CalculateBlockWork(0)
<1>1. MaxWork \in Nat /\ 1 <= MaxWork /\ g0 \in 1..MaxWork
  BY BlockWork DEF ForkChoiceAssumption
<1>2. n \in Nat /\ k \in Nat /\ k <= n /\ t \in Seq(AnyBlock) /\ Len(t) = k /\ \A i \in 1..k : c[i] = t[i]
  BY DEF BlockAt
<1> HIDE DEF t, n, g0
<1>3. PICK f : Weighing!Trace(f, g0, c, n) /\ CalculateCumulativeWork(c) = f[n]
  BY WorkIsRun, Weighing!RunTrace DEF n, g0
<1>4. PICK g : Weighing!Trace(g, g0, t, k) /\ CalculateCumulativeWork(t) = g[k]
  BY WorkIsRun, Weighing!RunTrace, <1>2 DEF g0
<1>5. f[k] = g[k]
  <2>1. \A i \in 0..k : f[i] = g[i]
    BY <1>2, <1>3, <1>4, Weighing!TraceUnique
  <2> QED BY <1>2, <2>1
<1>6. f[0] = g0 /\ \A i \in 1..n : f[i] = AddWork(f[i - 1], c[i])
  <2>1. f = [i \in 0..n |-> IF i = 0 THEN g0 ELSE AddWork(f[i - 1], c[i])]
    BY <1>3 DEF Weighing!Trace
  <2>2. 0 \in 0..n /\ \A i \in 1..n : i \in 0..n /\ i # 0
    BY <1>2
  <2> QED BY <2>1, <2>2
<1>7. \A i \in 1..n : c[i] \in AnyBlock
  BY DEF n
<1> DEFINE Good(i) == /\ f[i] \in 1..MaxWork
                      /\ i >= k => f[k] <= f[i]
                      /\ i > k => f[k] < f[i] \/ f[i] = MaxWork
<1>8. \A i \in 0..n : Good(i)
  <2> DEFINE Bad == {i \in 0..n : ~Good(i)}
  <2> SUFFICES ASSUME Bad # {} PROVE FALSE
    OBVIOUS
  <2>1. PICK i \in Bad : \A j \in Bad : i <= j
    <3>1. Bad \subseteq Nat
      BY <1>2
    <3> HIDE DEF Bad
    <3> QED BY <3>1, Digits!LeastNat
  <2>2. i \in 0..n /\ ~Good(i)
    BY <2>1
  <2>3. CASE i = 0
    <3>1. f[0] \in 1..MaxWork
      BY <1>1, <1>6
    <3> QED BY <3>1, <2>2, <2>3, <1>1, <1>2
  <2>4. CASE i # 0
    <3>1. i - 1 \in 0..n /\ i - 1 \notin Bad /\ i \in 1..n
      BY <2>1, <2>2, <2>4, <1>2
    <3>2. Good(i - 1)
      BY <3>1
    <3>3. f[i] = AddWork(f[i - 1], c[i]) /\ c[i] \in AnyBlock
      BY <3>1, <1>6, <1>7
    <3>4. /\ f[i] \in 1..MaxWork /\ f[i - 1] <= f[i]
          /\ f[i - 1] < f[i] \/ f[i] = MaxWork
      BY <3>2, <3>3, WorkOfOneMore
    <3>5. i >= k => i = k \/ i - 1 >= k
      BY <3>1, <1>2
    <3>6. i >= k => f[k] \in 1..MaxWork
      <4>1. CASE i = k
        BY <3>4, <4>1
      <4>2. CASE i # k
        <5>1. SUFFICES ASSUME i >= k PROVE f[k] \in 1..MaxWork
          OBVIOUS
        <5>2. k \in 0..n /\ k < i
          BY <4>2, <5>1, <1>2, <3>1
        <5>3. k \notin Bad
          BY <5>2, <2>1, <3>1
        <5> QED BY <5>2, <5>3
      <4> QED BY <4>1, <4>2
    <3>7. Good(i)
      BY <3>1, <3>2, <3>4, <3>5, <3>6, <1>1, <1>2
    <3> QED BY <3>7, <2>2
  <2> QED BY <2>3, <2>4
<1>9. Good(n) /\ Good(k)
  BY <1>2, <1>8
<1> QED BY <1>1, <1>2, <1>3, <1>4, <1>5, <1>9 DEF t, n

(***************************************************************************)
(* Locators.                                                               *)
(***************************************************************************)

\* The heights of a locator begin with the tip and end with genesis, and between
\* two of them lie no more blocks than above the higher one.
LEMMA HeightsAreDense ==
    ASSUME NEW tip \in Nat
    PROVE  \E last \in Nat :
              /\ LocatorHeights(tip) \in Seq(0..tip) /\ Len(LocatorHeights(tip)) = last + 1
              /\ LocatorHeights(tip)[1] = tip /\ LocatorHeights(tip)[last + 1] = 0
              /\ \A i \in 1..last :
                    \/ LocatorHeights(tip)[i] - LocatorHeights(tip)[i + 1] <= 1
                    \/ LocatorHeights(tip)[i] - LocatorHeights(tip)[i + 1] <= tip - LocatorHeights(tip)[i]
<1> DEFINE s == [i \in 1..tip |-> i]
           d == CHOOSE f : f = [turn \in 0..tip |-> IF turn <= 1 THEN turn ELSE 2 * f[turn - 1]]
           last == CHOOSE turn \in 0..tip : d[turn] >= tip /\ (turn = 0 \/ d[turn - 1] < tip)
           h == Append([i \in 1..last |-> tip - d[i - 1]], 0)
<1>1. \E f : f = [turn \in 0..tip |-> IF turn <= 1 THEN turn ELSE 2 * f[turn - 1]]
  <2>1. PICK f : Doubling!Trace(f, 0, s, tip)
    BY Doubling!TraceExists
  <2>2. f = [turn \in 0..tip |-> IF turn = 0 THEN 0 ELSE IF s[turn] <= 1 THEN s[turn] ELSE 2 * f[turn - 1]]
    BY <2>1 DEF Doubling!Trace, Double
  <2>3. \A turn \in 0..tip : turn # 0 => s[turn] = turn
    OBVIOUS
  <2> HIDE DEF s
  <2>4. \A turn \in 0..tip : (IF turn = 0 THEN 0 ELSE IF s[turn] <= 1 THEN s[turn] ELSE 2 * f[turn - 1])
                             = (IF turn <= 1 THEN turn ELSE 2 * f[turn - 1])
    BY <2>3
  <2>5. f = [turn \in 0..tip |-> IF turn <= 1 THEN turn ELSE 2 * f[turn - 1]]
    BY <2>2, <2>4
  <2> QED BY <2>5
<1>2. d = [turn \in 0..tip |-> IF turn <= 1 THEN turn ELSE 2 * d[turn - 1]]
  BY <1>1
<1>3. LocatorHeights(tip) = h
  BY DEF LocatorHeights
<1> HIDE DEF d
<1>4. /\ d[0] = 0
      /\ 1 \in 0..tip => d[1] = 1
      /\ \A k \in 0..tip : k > 1 => k - 1 \in 0..tip /\ d[k] = 2 * d[k - 1]
  <2>1. ASSUME NEW k \in 0..tip
        PROVE  d[k] = IF k <= 1 THEN k ELSE 2 * d[k - 1]
    BY <1>2
  <2>2. 0 \in 0..tip /\ d[0] = 0
    BY <2>1
  <2>3. 1 \in 0..tip => d[1] = 1
    BY <2>1
  <2>4. ASSUME NEW k \in 0..tip, k > 1
        PROVE  k - 1 \in 0..tip /\ d[k] = 2 * d[k - 1]
    BY <2>1, <2>4
  <2> QED BY <2>2, <2>3, <2>4
<1>5. \A k \in 0..tip : d[k] \in Nat /\ d[k] >= k
  <2> DEFINE Bad == {k \in 0..tip : ~(d[k] \in Nat /\ d[k] >= k)}
  <2> SUFFICES ASSUME Bad # {} PROVE FALSE
    OBVIOUS
  <2>1. PICK k \in Bad : \A j \in Bad : k <= j
    <3>1. Bad \subseteq Nat
      OBVIOUS
    <3> HIDE DEF Bad
    <3> QED BY <3>1, Digits!LeastNat
  <2>2. k \in 0..tip /\ k > 1
    BY <2>1, <1>4
  <2>3. k - 1 \in 0..tip /\ k - 1 \notin Bad /\ d[k] = 2 * d[k - 1]
    BY <2>1, <2>2, <1>4
  <2>4. d[k - 1] \in Nat /\ d[k - 1] >= k - 1
    BY <2>3
  <2> QED BY <2>1, <2>2, <2>3, <2>4
<1>6. \A k \in 0..tip : k # 0 => k - 1 \in 0..tip /\ d[k - 1] <= d[k]
  <2> TAKE k \in 0..tip
  <2>1. d[k] \in Nat /\ d[k] >= k
    BY <1>5
  <2>2. CASE k <= 1
    BY <1>4, <2>2
  <2>3. CASE k > 1
    <3>1. k - 1 \in 0..tip /\ d[k] = 2 * d[k - 1]
      BY <1>4, <2>3
    <3>2. d[k - 1] \in Nat
      BY <1>5, <3>1
    <3> QED BY <3>1, <3>2
  <2> QED BY <2>2, <2>3
<1>7. last \in 0..tip /\ d[last] >= tip /\ (last = 0 \/ d[last - 1] < tip)
  <2> DEFINE Far == {k \in 0..tip : d[k] >= tip}
  <2>1. Far \subseteq Nat /\ tip \in Far
    BY <1>5
  <2>2. PICK k \in Far : \A j \in Far : k <= j
    <3> HIDE DEF Far
    <3> QED BY <2>1, Digits!LeastNat
  <2>3. k \in 0..tip /\ d[k] >= tip
    BY <2>2
  <2>4. k = 0 \/ d[k - 1] < tip
    <3> SUFFICES ASSUME k # 0 PROVE d[k - 1] < tip
      OBVIOUS
    <3>1. k - 1 \in 0..tip /\ k - 1 \notin Far
      BY <2>2, <2>3
    <3>2. d[k - 1] \in Nat
      BY <1>5, <3>1
    <3> QED BY <3>1, <3>2
  <2> QED BY <2>3, <2>4
<1> HIDE DEF last
<1>8. \A k \in 0..tip : k < last => d[k] < tip
  <2> DEFINE Bad == {i \in 0..tip : i # 0 /\ i <= last /\ d[last - i] >= tip}
  <2>1. SUFFICES ASSUME Bad # {} PROVE FALSE
    <3>1. ASSUME NEW k \in 0..tip, k < last, d[k] >= tip
          PROVE  last - k \in Bad
      <4>1. last - k \in 0..tip /\ last - k # 0 /\ last - k <= last /\ k = last - (last - k)
        BY <3>1, <1>7
      <4> QED BY <3>1, <4>1
    <3>2. \A k \in 0..tip : d[k] \in Nat
      BY <1>5
    <3> QED BY <3>1, <3>2
  <2>2. PICK i \in Bad : \A j \in Bad : i <= j
    <3>1. Bad \subseteq Nat
      OBVIOUS
    <3> HIDE DEF Bad
    <3> QED BY <2>1, <3>1, Digits!LeastNat
  <2>3. i \in 0..tip /\ i <= last /\ last - i \in 0..tip /\ last - i < last /\ d[last - i] >= tip
    BY <2>2, <1>7
  <2>4. i # 1
    BY <2>3, <1>7, <1>5
  <2>5. i - 1 \in 0..tip /\ last - (i - 1) \in 0..tip /\ last - (i - 1) < last /\ last - (i - 1) # 0 /\ (last - (i - 1)) - 1 = last - i
    BY <2>3, <2>4, <1>7
  <2>6. d[last - i] <= d[last - (i - 1)] /\ d[last - i] \in Nat /\ d[last - (i - 1)] \in Nat
    BY <2>3, <2>5, <1>5, <1>6
  <2>7. d[last - (i - 1)] >= tip
    BY <2>3, <2>6
  <2>8. i - 1 \in Bad
    BY <2>2, <2>4, <2>5, <2>7, <1>7
  <2> QED BY <2>2, <2>3, <2>8
<1>9. \A i \in 1..last : i - 1 \in 0..tip /\ d[i - 1] \in Nat /\ d[i - 1] < tip
  <2> TAKE i \in 1..last
  <2>1. i - 1 \in 0..tip /\ i - 1 < last
    BY <1>7
  <2> QED BY <2>1, <1>5, <1>8
<1> DEFINE u == [i \in 1..last |-> tip - d[i - 1]]
<1>10. u \in Seq(0..tip) /\ Len(u) = last /\ \A i \in 1..last : u[i] = tip - d[i - 1]
  <2>1. \A i \in 1..last : tip - d[i - 1] \in 0..tip
    BY <1>9
  <2> QED BY <2>1, <1>7
<1>11. h = Append(u, 0)
  OBVIOUS
<1> HIDE DEF u, h
<1>12. /\ h \in Seq(0..tip) /\ Len(h) = last + 1 /\ h[last + 1] = 0
       /\ \A i \in 1..last : h[i] = tip - d[i - 1]
  <2>1. 0 \in 0..tip
    OBVIOUS
  <2> QED BY <1>10, <1>11, <2>1, <1>7
<1>13. h[1] = tip
  <2>1. CASE last = 0
    BY <2>1, <1>12, <1>7, <1>4
  <2>2. CASE last # 0
    <3>1. 1 \in 1..last /\ d[0] = 0
      BY <2>2, <1>7, <1>4
    <3> QED BY <3>1, <1>12
  <2> QED BY <2>1, <2>2
<1>14. \A i \in 1..last : h[i] - h[i + 1] <= 1 \/ h[i] - h[i + 1] <= tip - h[i]
  <2> TAKE i \in 1..last
  <2>1. i \in 0..tip /\ i - 1 \in 0..tip /\ d[i] \in Nat /\ d[i - 1] \in Nat /\ d[i - 1] < tip /\ h[i] = tip - d[i - 1]
    <3>1. i \in 0..tip
      BY <1>7
    <3> QED BY <3>1, <1>5, <1>9, <1>12
  <2>2. h[i + 1] \in 0..tip /\ h[i + 1] >= tip - d[i]
    <3>1. CASE i = last
      BY <3>1, <1>7, <1>12, <2>1
    <3>2. CASE i # last
      <4>1. i + 1 \in 1..last /\ (i + 1) - 1 = i
        BY <3>2, <1>7
      <4>2. h[i + 1] = tip - d[i] /\ d[i] < tip
        BY <4>1, <1>9, <1>12
      <4> QED BY <4>2, <2>1
    <3> QED BY <3>1, <3>2
  <2>3. CASE i = 1
    BY <2>1, <2>2, <2>3, <1>4
  <2>4. CASE i # 1
    <3>1. d[i] = 2 * d[i - 1]
      BY <2>1, <2>4, <1>4
    <3> QED BY <2>1, <2>2, <3>1
  <2> QED BY <2>3, <2>4
<1>15. last \in Nat
  BY <1>7
<1> QED BY <1>3, <1>12, <1>13, <1>14, <1>15

\* The height of the highest block that two chains share.
Fork(a, b) == Max({h \in 0..Min({Len(a), Len(b)}) : BlockAt(a, h) = BlockAt(b, h)})

\* Two chains share their blocks up to the fork and none above it.
LEMMA ForkIsHighest ==
    ASSUME NEW a \in Seq(AnyBlock), NEW b \in Seq(AnyBlock)
    PROVE  /\ Fork(a, b) \in 0..Len(a) /\ Fork(a, b) \in 0..Len(b)
           /\ \A h \in 0..Len(a) : IsOn(BlockAt(a, h), b) <=> h <= Fork(a, b)
<1> DEFINE m == Min({Len(a), Len(b)})
           S == {h \in 0..m : BlockAt(a, h) = BlockAt(b, h)}
           f == Max(S)
<1>1. Len(a) \in Nat /\ Len(b) \in Nat
  OBVIOUS
<1>2. m \in Nat /\ m <= Len(a) /\ m <= Len(b) /\ (m = Len(a) \/ m = Len(b))
  <2> DEFINE T == {Len(a), Len(b)}
  <2>1. T \subseteq Nat /\ T # {}
    BY <1>1
  <2>2. Min(T) \in T /\ \A n \in T : Min(T) <= n
    <3> HIDE DEF T
    <3> QED BY <2>1, MinIsLeast
  <2> QED BY <1>1, <2>2
<1> HIDE DEF m
<1>3. \A h \in 0..Len(a) : BlockAt(a, h) \in Seq(AnyBlock) /\ Len(BlockAt(a, h)) = h
  BY DEF BlockAt
<1>4. S \subseteq Nat /\ (\A n \in S : n <= m) /\ 0 \in S
  <2>1. BlockAt(a, 0) = BlockAt(b, 0)
    BY DEF BlockAt
  <2> QED BY <1>2, <2>1
<1>5. f \in S /\ \A n \in S : n <= f
  <2>1. S # {}
    BY <1>4
  <2> HIDE DEF S
  <2> QED BY <1>2, <1>4, <2>1, MaxIsMost
<1>6. f \in 0..m /\ BlockAt(a, f) = BlockAt(b, f)
  BY <1>5
<1>7. Fork(a, b) = f
  BY DEF Fork, m
<1> HIDE DEF f
<1>8. ASSUME NEW h \in 0..Len(a)
      PROVE  IsOn(BlockAt(a, h), b) <=> h <= f
  <2>1. IsOn(BlockAt(a, h), b) <=> h <= Len(b) /\ BlockAt(a, h) = BlockAt(b, h)
    BY <1>3 DEF IsOn
  <2>2. ASSUME h <= Len(b), BlockAt(a, h) = BlockAt(b, h)
        PROVE  h <= f
    <3>1. h \in S
      BY <1>2, <2>2
    <3> QED BY <1>5, <3>1
  <2>3. ASSUME h <= f
        PROVE  h <= Len(b) /\ BlockAt(a, h) = BlockAt(b, h)
    <3>1. h \in Nat /\ f \in Nat /\ f <= Len(a) /\ f <= Len(b)
      BY <1>2, <1>6
    <3>2. \A i \in 1..f : a[i] = b[i]
      <4>1. \A i \in 1..f : BlockAt(a, f)[i] = a[i]
        BY <3>1 DEF BlockAt
      <4>2. \A i \in 1..f : BlockAt(b, f)[i] = b[i]
        BY <3>1 DEF BlockAt
      <4> QED BY <1>6, <4>1, <4>2
    <3>3. BlockAt(a, h) = [i \in 1..h |-> a[i]] /\ BlockAt(b, h) = [i \in 1..h |-> b[i]]
      BY <3>1, <2>3 DEF BlockAt
    <3>4. \A i \in 1..h : a[i] = b[i]
      BY <3>1, <3>2, <2>3
    <3> QED BY <3>1, <3>3, <3>4, <2>3
  <2> QED BY <2>1, <2>2, <2>3
<1>9. f \in 0..Len(a) /\ f \in 0..Len(b)
  BY <1>2, <1>6
<1> QED BY <1>7, <1>8, <1>9

\* The fork is the same from both sides.
LEMMA ForkIsShared ==
    ASSUME NEW a, NEW b
    PROVE  Fork(a, b) = Fork(b, a)
<1>1. {Len(a), Len(b)} = {Len(b), Len(a)}
  OBVIOUS
<1>2. {h \in 0..Min({Len(a), Len(b)}) : BlockAt(a, h) = BlockAt(b, h)}
        = {h \in 0..Min({Len(b), Len(a)}) : BlockAt(b, h) = BlockAt(a, h)}
  BY <1>1
<1> QED BY <1>2 DEF Fork

\* A chain that is asked for a common ancestor with the locator of another one
\* names a shared block, no further below the fork than the other's branch is long.
LEMMA AncestorIsFound ==
    ASSUME NEW a \in Seq(AnyBlock), NEW b \in Seq(AnyBlock)
    PROVE  /\ FindCommonAncestor(b, BuildBlockLocator(a)) \in 0..Fork(a, b)
           /\ Fork(a, b) - FindCommonAncestor(b, BuildBlockLocator(a)) <= Len(a) - Fork(a, b)
<1> DEFINE h == LocatorHeights(Len(a))
           l == BuildBlockLocator(a)
           f == Fork(a, b)
           shared == {i \in DOMAIN l : IsOn(l[i], b)}
           k == Min(shared)
<1>1. Len(a) \in Nat
  OBVIOUS
<1>2. PICK last \in Nat :
        /\ h \in Seq(0..Len(a)) /\ Len(h) = last + 1 /\ h[1] = Len(a) /\ h[last + 1] = 0
        /\ \A i \in 1..last : h[i] - h[i + 1] <= 1 \/ h[i] - h[i + 1] <= Len(a) - h[i]
  BY <1>1, HeightsAreDense
<1>3. l = [i \in DOMAIN h |-> BlockAt(a, h[i])]
  BY DEF BuildBlockLocator
<1> HIDE DEF h, l
<1>4. DOMAIN h = 1..(last + 1) /\ \A i \in 1..(last + 1) : h[i] \in 0..Len(a)
  BY <1>2
<1>5. f \in 0..Len(a) /\ f \in 0..Len(b) /\ \A i \in 0..Len(a) : IsOn(BlockAt(a, i), b) <=> i <= f
  BY ForkIsHighest
<1> HIDE DEF f
<1>6. \A i \in 1..(last + 1) : l[i] = BlockAt(a, h[i]) /\ Len(l[i]) = h[i]
  <2>1. \A i \in 1..(last + 1) : l[i] = BlockAt(a, h[i])
    BY <1>3, <1>4
  <2>2. \A i \in 0..Len(a) : Len(BlockAt(a, i)) = i
    BY DEF BlockAt
  <2> QED BY <1>4, <2>1, <2>2
<1>7. shared = {i \in 1..(last + 1) : h[i] <= f}
  <2>1. DOMAIN l = 1..(last + 1)
    BY <1>3, <1>4
  <2>2. \A i \in 1..(last + 1) : IsOn(l[i], b) <=> h[i] <= f
    BY <1>4, <1>5, <1>6
  <2> QED BY <2>1, <2>2
<1> HIDE DEF shared
<1>8. last + 1 \in shared
  BY <1>2, <1>5, <1>7
<1>9. k \in shared /\ \A i \in shared : k <= i
  <2>1. shared \subseteq Nat
    BY <1>7
  <2> QED BY <2>1, <1>8, MinIsLeast
<1> HIDE DEF k
<1>10. FindCommonAncestor(b, l) = h[k]
  <2>1. FindCommonAncestor(b, l) = IF shared = {} THEN NoAncestor ELSE Len(l[Min(shared)])
    BY DEF FindCommonAncestor, shared
  <2>2. shared # {} /\ k \in 1..(last + 1)
    BY <1>7, <1>8, <1>9
  <2> QED BY <2>1, <2>2, <1>6 DEF k
<1>11. k \in 1..(last + 1) /\ h[k] \in 0..Len(a) /\ h[k] <= f
  BY <1>4, <1>7, <1>9
<1>12. f - h[k] <= Len(a) - f
  <2>1. CASE k = 1
    BY <2>1, <1>2, <1>5, <1>11
  <2>2. CASE k # 1
    <3>1. k - 1 \in 1..last /\ (k - 1) + 1 = k /\ k - 1 \in 1..(last + 1)
      BY <2>2, <1>11
    <3>2. k - 1 \notin shared
      BY <1>9, <1>11, <3>1
    <3>3. h[k - 1] \in 0..Len(a) /\ ~(h[k - 1] <= f)
      BY <1>4, <1>7, <3>1, <3>2
    <3>4. h[k - 1] - h[k] <= 1 \/ h[k - 1] - h[k] <= Len(a) - h[k - 1]
      BY <1>2, <3>1
    <3> QED BY <1>5, <1>11, <3>3, <3>4
  <2> QED BY <2>1, <2>2
<1> QED BY <1>5, <1>10, <1>11, <1>12 DEF f, l

(***************************************************************************)
(* Decisions.                                                              *)
(***************************************************************************)

\* Once the branch of a peer is fetched from a shared block on, a plan compares
\* the whole chains by their work alone.
LEMMA DecisionIsByWork ==
    ASSUME ForkChoiceAssumption, NEW a \in Seq(AnyBlock), NEW b \in Seq(AnyBlock), NEW x \in 0..Len(a),
           IsOn(BlockAt(a, x), b)
    PROVE  Decide(a, x, Branch(b, x)) =
              IF CalculateCumulativeWork(b) = CalculateCumulativeWork(a) THEN "fork_tie_same_work"
              ELSE IF CalculateCumulativeWork(b) < CalculateCumulativeWork(a) THEN "local_ahead_more_work"
              ELSE "reorg_apply_higher_work"
<1> DEFINE branch == Branch(b, x)
           full == [i \in 1..(x + Len(branch)) |-> IF i <= x THEN a[i] ELSE Last(branch[i - x])]
<1>1. Len(a) \in Nat /\ Len(b) \in Nat /\ x \in Nat /\ x <= Len(a)
  OBVIOUS
<1>2. /\ \A i \in 0..Len(a) : BlockAt(a, i) \in Seq(AnyBlock) /\ Len(BlockAt(a, i)) = i
      /\ \A i \in 0..Len(b) : BlockAt(b, i) \in Seq(AnyBlock) /\ Len(BlockAt(b, i)) = i
  BY DEF BlockAt
<1>3. x <= Len(b) /\ BlockAt(a, x) = BlockAt(b, x)
  BY <1>1, <1>2 DEF IsOn
<1>4. /\ Len(branch) = Len(b) - x /\ DOMAIN branch = 1..(Len(b) - x)
      /\ \A i \in 1..(Len(b) - x) : branch[i] = BlockAt(b, x + i)
  BY <1>1, <1>3 DEF Branch
<1> HIDE DEF branch
<1>5. full = b
  <2>1. x + Len(branch) = Len(b)
    BY <1>1, <1>3, <1>4
  <2>2. ASSUME NEW i \in 1..Len(b)
        PROVE  (IF i <= x THEN a[i] ELSE Last(branch[i - x])) = b[i]
    <3>1. CASE i <= x
      <4>1. BlockAt(a, x)[i] = a[i] /\ BlockAt(b, x)[i] = b[i]
        BY <1>1, <1>3, <3>1 DEF BlockAt
      <4> QED BY <1>3, <3>1, <4>1
    <3>2. CASE ~(i <= x)
      <4>1. i - x \in 1..(Len(b) - x) /\ x + (i - x) = i
        BY <1>1, <1>3, <3>2
      <4>2. branch[i - x] = BlockAt(b, i)
        BY <1>4, <4>1
      <4>3. i \in 0..Len(b) /\ i \in 1..i
        BY <1>1
      <4>4. Len(BlockAt(b, i)) = i /\ BlockAt(b, i)[i] = b[i]
        BY <1>1, <4>3 DEF BlockAt
      <4> QED BY <3>2, <4>2, <4>4 DEF Last
    <3> QED BY <3>1, <3>2
  <2>3. full = [i \in 1..Len(b) |-> b[i]]
    BY <2>1, <2>2
  <2>4. b = [i \in 1..Len(b) |-> b[i]]
    OBVIOUS
  <2> QED BY <2>3, <2>4
<1>6. Linked(BlockAt(a, x), branch)
  <2>1. Len(BlockAt(a, x)) = x
    BY <1>2
  <2>2. ASSUME NEW i \in DOMAIN branch
        PROVE  /\ Len(branch[i]) = x + i
               /\ BlockAt(branch[i], x + i - 1) = IF i = 1 THEN BlockAt(a, x) ELSE branch[i - 1]
    <3>1. i \in 1..(Len(b) - x) /\ x + i \in 0..Len(b) /\ x + i - 1 \in 0..Len(b)
      BY <1>1, <1>3, <1>4
    <3>2. branch[i] = BlockAt(b, x + i) /\ Len(branch[i]) = x + i
      BY <1>2, <1>4, <3>1
    <3>3. BlockAt(BlockAt(b, x + i), x + i - 1) = BlockAt(b, x + i - 1)
      <4>1. \A j \in 1..(x + i - 1) : BlockAt(b, x + i)[j] = b[j]
        BY <1>1, <3>1 DEF BlockAt
      <4>2. BlockAt(BlockAt(b, x + i), x + i - 1) = [j \in 1..(x + i - 1) |-> BlockAt(b, x + i)[j]]
        BY <1>1, <1>2, <3>1 DEF BlockAt
      <4>3. BlockAt(b, x + i - 1) = [j \in 1..(x + i - 1) |-> b[j]]
        BY <1>1, <3>1 DEF BlockAt
      <4> QED BY <4>1, <4>2, <4>3
    <3>4. CASE i = 1
      BY <1>1, <1>3, <3>2, <3>3, <3>4
    <3>5. CASE i # 1
      <4>1. i - 1 \in 1..(Len(b) - x) /\ x + (i - 1) = x + i - 1
        BY <1>1, <3>1, <3>5
      <4>2. branch[i - 1] = BlockAt(b, x + i - 1)
        BY <1>4, <4>1
      <4> QED BY <3>2, <3>3, <3>5, <4>2
    <3> QED BY <3>4, <3>5
  <2> QED BY <2>1, <2>2 DEF Linked
<1>7. CalculateCumulativeWork(a) \in Int /\ CalculateCumulativeWork(b) \in Int
  <2>1. MaxWork \in Nat
    BY DEF ForkChoiceAssumption
  <2>2. CalculateCumulativeWork(a) \in 1..MaxWork
    BY WorkGrows
  <2>3. 0 \in 0..Len(b)
    BY <1>1
  <2>4. CalculateCumulativeWork(b) \in 1..MaxWork
    BY <2>3, WorkGrows
  <2> QED BY <2>1, <2>2, <2>4
<1> DEFINE wa == CalculateCumulativeWork(a)
           wb == CalculateCumulativeWork(b)
<1>8. Decide(a, x, branch) =
        CASE wb = wa -> "fork_tie_same_work"
          [] wb < wa -> "local_ahead_more_work"
          [] ~Linked(BlockAt(a, x), branch) -> "peer_branch_invalid"
          [] OTHER -> "reorg_apply_higher_work"
  <2>1. CalculateCumulativeWork(full) = wb
    BY <1>5
  <2> HIDE DEF wa, wb
  <2>2. Decide(a, x, branch) =
          CASE CalculateCumulativeWork(full) = CalculateCumulativeWork(a) -> "fork_tie_same_work"
            [] CalculateCumulativeWork(full) < CalculateCumulativeWork(a) -> "local_ahead_more_work"
            [] ~Linked(BlockAt(a, x), branch) -> "peer_branch_invalid"
            [] OTHER -> "reorg_apply_higher_work"
    BY DEF Decide
  <2> HIDE DEF full
  <2> QED BY <2>1, <2>2 DEF wa
<1>9. wa \in Int /\ wb \in Int
  BY <1>7
<1> HIDE DEF wa, wb
<1>10. Decide(a, x, branch) = IF wb = wa THEN "fork_tie_same_work"
                             ELSE IF wb < wa THEN "local_ahead_more_work" ELSE "reorg_apply_higher_work"
  BY <1>6, <1>8, <1>9
<1> QED BY <1>10 DEF wa, wb, branch

\* What ForkChoiceCheck asks of two chains, of any two chains.
LEMMA AnyTwoChains ==
    ASSUME ForkChoiceAssumption, local \in Seq(AnyBlock), peer \in Seq(AnyBlock)
    PROVE  AncestorIsNear /\ OneSideGives /\ LongerIsHeavier /\ NoForkIsMissed
<1> DEFINE f == ForkHeight
           x == Ancestor(local, peer)
           y == Ancestor(peer, local)
           wl == CalculateCumulativeWork(local)
           wp == CalculateCumulativeWork(peer)
<1>1. Len(local) \in Nat /\ Len(peer) \in Nat
  OBVIOUS
<1>2. f = Fork(local, peer) /\ f = Fork(peer, local)
  BY ForkIsShared DEF ForkHeight, Fork
<1>3. /\ f \in 0..Len(local) /\ f \in 0..Len(peer)
      /\ \A h \in 0..Len(local) : IsOn(BlockAt(local, h), peer) <=> h <= f
      /\ \A h \in 0..Len(peer) : IsOn(BlockAt(peer, h), local) <=> h <= f
  <2>1. /\ Fork(local, peer) \in 0..Len(local) /\ Fork(local, peer) \in 0..Len(peer)
        /\ \A h \in 0..Len(local) : IsOn(BlockAt(local, h), peer) <=> h <= Fork(local, peer)
    BY ForkIsHighest
  <2>2. \A h \in 0..Len(peer) : IsOn(BlockAt(peer, h), local) <=> h <= Fork(peer, local)
    BY ForkIsHighest
  <2> HIDE DEF f
  <2> QED BY <1>2, <2>1, <2>2
<1>4. x \in 0..f /\ f - x <= Len(peer) - f
  <2>1. /\ FindCommonAncestor(local, BuildBlockLocator(peer)) \in 0..Fork(peer, local)
        /\ Fork(peer, local) - FindCommonAncestor(local, BuildBlockLocator(peer)) <= Len(peer) - Fork(peer, local)
    BY AncestorIsFound
  <2> HIDE DEF f
  <2> QED BY <1>2, <2>1 DEF Ancestor
<1>5. y \in 0..f /\ f - y <= Len(local) - f
  <2>1. /\ FindCommonAncestor(peer, BuildBlockLocator(local)) \in 0..Fork(local, peer)
        /\ Fork(local, peer) - FindCommonAncestor(peer, BuildBlockLocator(local)) <= Len(local) - Fork(local, peer)
    BY AncestorIsFound
  <2> HIDE DEF f
  <2> QED BY <1>2, <2>1 DEF Ancestor
<1>6. BlockAt(local, Len(local)) = local /\ BlockAt(peer, Len(peer)) = peer
  BY DEF BlockAt
<1>7. (IsOn(local, peer) <=> f = Len(local)) /\ (IsOn(peer, local) <=> f = Len(peer))
  <2> HIDE DEF f
  <2>1. Len(local) \in 0..Len(local) /\ Len(peer) \in 0..Len(peer)
    BY <1>1
  <2>2. IsOn(local, peer) <=> Len(local) <= f
    BY <1>3, <1>6, <2>1
  <2>3. IsOn(peer, local) <=> Len(peer) <= f
    BY <1>3, <1>6, <2>1
  <2> QED BY <1>1, <1>3, <2>2, <2>3
<1> HIDE DEF f, x, y
<1>8. /\ x \in 0..Len(local) /\ IsOn(BlockAt(local, x), peer)
      /\ y \in 0..Len(peer) /\ IsOn(BlockAt(peer, y), local)
  <2>1. x \in 0..Len(local) /\ x <= f /\ y \in 0..Len(peer) /\ y <= f
    BY <1>1, <1>3, <1>4, <1>5
  <2> QED BY <1>3, <2>1
<1>9. Decision(local, peer) = IF wp = wl THEN "fork_tie_same_work"
                              ELSE IF wp < wl THEN "local_ahead_more_work" ELSE "reorg_apply_higher_work"
  <2>1. Decision(local, peer) = Decide(local, x, Branch(peer, x))
    BY DEF Decision, x
  <2> QED BY <1>8, <2>1, DecisionIsByWork
<1>10. Decision(peer, local) = IF wl = wp THEN "fork_tie_same_work"
                               ELSE IF wl < wp THEN "local_ahead_more_work" ELSE "reorg_apply_higher_work"
  <2>1. Decision(peer, local) = Decide(peer, y, Branch(local, y))
    BY DEF Decision, y
  <2> QED BY <1>8, <2>1, DecisionIsByWork
<1>11. MaxWork \in Nat /\ wl \in 1..MaxWork /\ wp \in 1..MaxWork
  <2>1. 0 \in 0..Len(local) /\ 0 \in 0..Len(peer)
    BY <1>1
  <2> QED BY <2>1, WorkGrows DEF ForkChoiceAssumption
<1>12. AncestorIsNear
  BY <1>4 DEF AncestorIsNear, x, f
<1>13. OneSideGives
  <2> HIDE DEF wl, wp
  <2>1. Decision(local, peer) = "reorg_apply_higher_work" => wl < wp /\ wl # wp
    BY <1>9, <1>11
  <2>2. wl < wp /\ wl # wp => Decision(peer, local) = "local_ahead_more_work"
    BY <1>10
  <2> QED BY <2>1, <2>2 DEF OneSideGives
<1>14. LongerIsHeavier
  <2> SUFFICES ASSUME IsOn(local, peer), local # peer
               PROVE  Decision(local, peer) = IF wl = MaxWork THEN "fork_tie_same_work" ELSE "reorg_apply_higher_work"
    BY DEF LongerIsHeavier
  <2>1. Len(local) \in 0..Len(peer) /\ local = BlockAt(peer, Len(local))
    BY <1>1 DEF IsOn
  <2>2. Len(local) # Len(peer)
    BY <1>6, <2>1
  <2>3. IF wl = MaxWork THEN wp = MaxWork ELSE wl < wp
    BY <2>1, <2>2, WorkGrows
  <2> HIDE DEF wl, wp
  <2> QED BY <1>9, <1>11, <2>3
<1>15. NoForkIsMissed
  <2> DEFINE status == ForkStatus(local, peer, y)
  <2>1. CASE IsOn(local, peer)
    <3>1. y = Len(local) /\ Len(local) <= Len(peer)
      BY <1>1, <1>3, <1>5, <1>7, <2>1
    <3>2. local # peer => Len(peer) > Len(local)
      <4>1. local = BlockAt(peer, Len(local))
        BY <2>1 DEF IsOn
      <4> QED BY <1>1, <1>6, <3>1, <4>1
    <3>3. status = IF local = peer THEN "in_sync" ELSE "peer_ahead"
      BY <3>1, <3>2 DEF ForkStatus
    <3> QED BY <2>1, <3>3 DEF NoForkIsMissed, y
  <2>2. CASE ~IsOn(local, peer)
    <3>1. ASSUME ~IsOn(peer, local)
          PROVE  status = "fork"
      <4>1. y # Len(local) /\ y # Len(peer)
        BY <1>1, <1>3, <1>5, <1>7, <2>2, <3>1
      <4>2. local # peer
        <5>1. IsOn(local, local)
          BY <1>6 DEF IsOn
        <5> QED BY <2>2, <5>1
      <4> QED BY <4>1, <4>2 DEF ForkStatus
    <3> QED BY <2>2, <3>1 DEF NoForkIsMissed, y
  <2> QED BY <2>1, <2>2
<1> QED BY <1>12, <1>13, <1>14, <1>15

\* What is mined is a block.
LEMMA MinedIsBlock ==
    ASSUME NEW by \in {"both", "local", "peer"}, NEW d \in Nat, NEW t \in Int
    PROVE  Mined(by, d, t) \in AnyBlock
BY DEF Mined, AnyBlock, Block

\* A pair of chains stays one.
LEMMA PairsAreChains ==
    ASSUME CheckAssumption
    PROVE  AnyPair => [](local \in Seq(AnyBlock) /\ peer \in Seq(AnyBlock))
<1> DEFINE Chains == local \in Seq(AnyBlock) /\ peer \in Seq(AnyBlock)
<1>1. AtGenesis => Chains
  BY DEF AtGenesis
<1>2. Chains /\ [Extend]_chainVars => Chains'
  <2> SUFFICES ASSUME Chains, [Extend]_chainVars PROVE Chains'
    OBVIOUS
  <2>1. Difficulties \subseteq Nat
    BY DEF CheckAssumption
  <2>2. CASE ExtendBoth
    <3>1. Mined("both", 1, 0) \in AnyBlock
      BY MinedIsBlock
    <3> QED BY <2>2, <3>1 DEF ExtendBoth
  <2>3. CASE ExtendLocal
    <3>1. \A d \in Difficulties : Mined("local", d, 0) \in AnyBlock
      BY <2>1, MinedIsBlock
    <3> QED BY <2>3, <3>1 DEF ExtendLocal
  <2>4. CASE ExtendPeer
    <3>1. \A d \in Difficulties : Mined("peer", d, 0) \in AnyBlock
      BY <2>1, MinedIsBlock
    <3> QED BY <2>4, <3>1 DEF ExtendPeer
  <2>5. CASE UNCHANGED chainVars
    BY <2>5 DEF chainVars
  <2> QED BY <2>2, <2>3, <2>4, <2>5 DEF Extend
<1> QED BY <1>1, <1>2, PTL DEF AnyPair

\* The fork choice is sound for every two chains.
THEOREM ForksAreChosenSoundly ==
    ASSUME CheckAssumption
    PROVE  AnyPair => [](/\ AncestorIsNear /\ OneSideGives /\ LongerIsHeavier /\ NoForkIsMissed
                         /\ ForkChoiceIsSound)
<1>1. ForkChoiceAssumption
  BY DEF CheckAssumption
<1>2. local \in Seq(AnyBlock) /\ peer \in Seq(AnyBlock) =>
         /\ AncestorIsNear /\ OneSideGives /\ LongerIsHeavier /\ NoForkIsMissed
         /\ ForkChoiceIsSound
  BY <1>1, AnyTwoChains DEF ForkChoiceIsSound
<1> QED BY <1>2, PairsAreChains, PTL

(***************************************************************************)
(* The difficulty.                                                         *)
(***************************************************************************)

\* A clamped number is the number, moved to the nearer bound if it is outside.
LEMMA Clamped ==
    ASSUME ForkChoiceAssumption, NEW d \in Nat
    PROVE  ClampDifficulty(d) = IF d < MinDifficulty THEN MinDifficulty ELSE IF d > MaxDifficulty THEN MaxDifficulty ELSE d
<1> DEFINE S == {d, MaxDifficulty}
           m == Min(S)
           T == {MinDifficulty, m}
<1>1. MinDifficulty \in Nat /\ MaxDifficulty \in Nat /\ MinDifficulty <= MaxDifficulty
  BY DEF ForkChoiceAssumption
<1>2. m \in {d, MaxDifficulty} /\ m <= d /\ m <= MaxDifficulty
  <2>1. S \subseteq Nat /\ S # {}
    BY <1>1
  <2>2. m \in S /\ \A n \in S : m <= n
    <3> HIDE DEF S
    <3> QED BY <2>1, MinIsLeast
  <2> QED BY <2>2
<1> HIDE DEF m
<1>3. Max(T) \in {MinDifficulty, m} /\ MinDifficulty <= Max(T) /\ m <= Max(T)
  <2>1. T \subseteq Nat /\ T # {} /\ MinDifficulty + m \in Nat /\ \A n \in T : n <= MinDifficulty + m
    BY <1>1, <1>2
  <2>2. Max(T) \in T /\ \A n \in T : n <= Max(T)
    <3> HIDE DEF T
    <3> QED BY <2>1, MaxIsMost
  <2> QED BY <2>2
<1>4. ClampDifficulty(d) = Max(T)
  BY DEF ClampDifficulty, m
<1> HIDE DEF T
<1> QED BY <1>1, <1>2, <1>3, <1>4

\* Seconds that a window should take.
Expected == TargetBlockTime * (RetargetWindow - 1)

\* The difficulty of the block that follows a chain.
LEMMA NextDifficultyIs ==
    ASSUME ForkChoiceAssumption, NEW c \in Seq(AnyBlock), c # <<>>,
           Last(c).difficulty \in MinDifficulty..MaxDifficulty
    PROVE  LET change == CalculateNextDifficulty(c) - Last(c).difficulty
               span == c[Len(c)].timestamp - c[Len(c) - RetargetWindow + 1].timestamp
           IN  /\ CalculateNextDifficulty(c) \in MinDifficulty..MaxDifficulty
               /\ change \in -1..1
               /\ change # 0 => Len(c) % RetargetWindow = 0
               /\ Len(c) >= RetargetWindow => /\ change < 0 => span > Expected
                                              /\ change > 0 => span < Expected \/ span <= 0
<1> DEFINE n == Len(c)
           d == Last(c).difficulty
           span == c[n].timestamp - c[n - RetargetWindow + 1].timestamp
           new == CalculateNextDifficulty(c)
<1>1. /\ MinDifficulty \in Nat /\ MinDifficulty >= 1 /\ MaxDifficulty \in Nat /\ MinDifficulty <= MaxDifficulty
      /\ RetargetWindow \in Nat /\ RetargetWindow >= 1 /\ TargetBlockTime \in Nat
  BY DEF ForkChoiceAssumption
<1>2. n \in Nat /\ n >= 1 /\ n \in DOMAIN c
  OBVIOUS
<1>3. Expected \in Nat
  <2>1. RetargetWindow - 1 \in Nat
    BY <1>1
  <2>2. \A p \in Nat : \A q \in Nat : p * q \in Nat
    OBVIOUS
  <2> QED BY <1>1, <2>1, <2>2 DEF Expected
<1>4. Expected \div 2 \in Nat /\ Expected \div 2 <= Expected /\ Expected * 2 >= Expected
  BY <1>3
<1>5. n >= RetargetWindow => span \in Int
  <2> SUFFICES ASSUME n >= RetargetWindow PROVE span \in Int
    OBVIOUS
  <2>1. n \in 1..n /\ n - RetargetWindow + 1 \in 1..n
    BY <1>1, <1>2
  <2>2. \A i \in 1..n : c[i] \in AnyBlock
    OBVIOUS
  <2>3. c[n] \in AnyBlock /\ c[n - RetargetWindow + 1] \in AnyBlock
    BY <2>1, <2>2
  <2> QED BY <2>3 DEF AnyBlock, Block
<1>6. PICK change \in {-1, 0, 1} :
        /\ new = IF n % RetargetWindow # 0 THEN ClampDifficulty(d) ELSE ClampDifficulty(d + change)
        /\ n >= RetargetWindow /\ change < 0 => span > Expected
        /\ n >= RetargetWindow /\ change > 0 => span < Expected \/ span <= 0
  <2> DEFINE move == CASE span <= 0 \/ span < Expected \div 2 -> 1
                       [] span > Expected * 2 -> -1
                       [] OTHER -> 0
  <2>1. new = IF n % RetargetWindow # 0 THEN ClampDifficulty(d) ELSE ClampDifficulty(d + move)
    BY <1>2 DEF CalculateNextDifficulty, Expected, Last
  <2> HIDE DEF span
  <2>2. move \in {-1, 0, 1}
    OBVIOUS
  <2>3. n >= RetargetWindow /\ move < 0 => span > Expected
    BY <1>3, <1>4, <1>5
  <2>4. n >= RetargetWindow /\ move > 0 => span < Expected \/ span <= 0
    BY <1>3, <1>4, <1>5
  <2> HIDE DEF move
  <2> QED BY <2>1, <2>2, <2>3, <2>4
<1>7. d \in Nat /\ MinDifficulty <= d /\ d <= MaxDifficulty
  BY <1>1
<1> HIDE DEF d, new, span, n
<1>8. ClampDifficulty(d) = d
  BY <1>1, <1>7, Clamped
<1>9. /\ ClampDifficulty(d + change) \in MinDifficulty..MaxDifficulty
      /\ ClampDifficulty(d + change) - d \in -1..1
      /\ ClampDifficulty(d + change) - d < 0 => change < 0
      /\ ClampDifficulty(d + change) - d > 0 => change > 0
  <2>1. d + change \in Nat
    BY <1>1, <1>7
  <2>2. ClampDifficulty(d + change) = IF d + change < MinDifficulty THEN MinDifficulty
                                      ELSE IF d + change > MaxDifficulty THEN MaxDifficulty ELSE d + change
    BY <2>1, Clamped
  <2> QED BY <1>1, <1>7, <2>2
<1>10. /\ new \in MinDifficulty..MaxDifficulty
       /\ new - d \in -1..1
       /\ new - d # 0 => n % RetargetWindow = 0
       /\ n >= RetargetWindow /\ new - d < 0 => span > Expected
       /\ n >= RetargetWindow /\ new - d > 0 => span < Expected \/ span <= 0
  <2>1. CASE n % RetargetWindow # 0
    BY <1>1, <1>6, <1>7, <1>8, <2>1
  <2>2. CASE n % RetargetWindow = 0
    <3>1. new = ClampDifficulty(d + change)
      BY <1>6, <2>2
    <3> QED BY <1>6, <1>9, <2>2, <3>1
  <2> QED BY <2>1, <2>2
<1> QED BY <1>10 DEF d, new, span, n

\* A chain whose difficulties are within their bounds.
IsHistory ==
    /\ local \in Seq(AnyBlock)
    /\ \A h \in 1..Len(local) : local[h].difficulty \in MinDifficulty..MaxDifficulty

\* The block that a miner appends to a history.
LEMMA MineNextIs ==
    ASSUME CheckAssumption, IsHistory, MineNext
    PROVE  /\ IsHistory'
           /\ Len(local') = Len(local) + 1
           /\ \A h \in 1..Len(local) : local'[h] = local[h]
           /\ local'[Len(local) + 1].difficulty = CalculateNextDifficulty(local)
<1> DEFINE n == Len(local)
           time == IF local = <<>> THEN 0 ELSE Last(local).timestamp
           new == CalculateNextDifficulty(local)
<1>1. ForkChoiceAssumption /\ Gaps \subseteq Int /\ local \in Seq(AnyBlock) /\ n \in Nat
  BY DEF CheckAssumption, IsHistory
<1>2. PICK gap \in Gaps : local' = Append(local, Mined("local", new, time + gap))
  BY DEF MineNext
<1>3. \A h \in 1..n : local[h] \in AnyBlock
  BY <1>1
<1>4. time \in Int
  <2>1. CASE local = <<>>
    BY <2>1
  <2>2. CASE local # <<>>
    <3>1. n \in 1..n
      BY <1>1, <2>2
    <3> QED BY <1>3, <2>2, <3>1 DEF Last, AnyBlock, Block
  <2> QED BY <2>1, <2>2
<1>5. new \in MinDifficulty..MaxDifficulty
  <2>1. CASE local = <<>>
    <3>1. new = InitialDifficulty
      BY <2>1 DEF CalculateNextDifficulty
    <3> QED BY <1>1, <3>1 DEF ForkChoiceAssumption
  <2>2. CASE local # <<>>
    <3>1. n \in 1..n
      BY <1>1, <2>2
    <3>2. Last(local).difficulty \in MinDifficulty..MaxDifficulty
      BY <3>1 DEF Last, IsHistory
    <3> QED BY <1>1, <2>2, <3>2, NextDifficultyIs
  <2> QED BY <2>1, <2>2
<1> DEFINE b == Mined("local", new, time + gap)
<1>6. b \in AnyBlock /\ b.difficulty = new
  <2>1. new \in Nat /\ time + gap \in Int
    BY <1>1, <1>4, <1>5 DEF ForkChoiceAssumption
  <2> HIDE DEF new, time
  <2>2. Mined("local", new, time + gap) \in AnyBlock
    BY <2>1, MinedIsBlock
  <2> QED BY <2>2 DEF Mined
<1> HIDE DEF b
<1>7. local' = Append(local, b)
  BY <1>2 DEF b
<1>8. /\ local' \in Seq(AnyBlock) /\ Len(local') = n + 1 /\ local'[n + 1] = b
      /\ \A h \in 1..n : local'[h] = local[h]
  BY <1>1, <1>6, <1>7
<1>9. \A h \in 1..Len(local') : local'[h].difficulty \in MinDifficulty..MaxDifficulty
  <2> SUFFICES ASSUME NEW h \in 1..(n + 1) PROVE local'[h].difficulty \in MinDifficulty..MaxDifficulty
    BY <1>8
  <2>1. CASE h = n + 1
    BY <1>5, <1>6, <1>8, <2>1
  <2>2. CASE h # n + 1
    <3>1. h \in 1..n
      BY <1>1, <2>2
    <3> QED BY <1>8, <3>1 DEF IsHistory
  <2> QED BY <2>1, <2>2
<1> HIDE DEF new
<1> QED BY <1>6, <1>8, <1>9 DEF IsHistory, n, new

\* The inductive invariant of a history.
HistoryInv == IsHistory /\ DifficultyMovesSlowly /\ RetargetFollowsTime

\* A history keeps its promises for the block that is mined next.
LEMMA HistoryStep ==
    ASSUME CheckAssumption, HistoryInv, MineNext
    PROVE  HistoryInv' /\ AnnouncesRetarget
<1> DEFINE n == Len(local)
           new == CalculateNextDifficulty(local)
           span(h) == local[h].timestamp - local[h - RetargetWindow + 1].timestamp
<1>1. IsHistory /\ ForkChoiceAssumption /\ n \in Nat /\ local \in Seq(AnyBlock)
  BY DEF HistoryInv, IsHistory, CheckAssumption
<1>2. RetargetWindow \in Nat /\ RetargetWindow >= 1
  BY <1>1 DEF ForkChoiceAssumption
<1>3. /\ IsHistory' /\ Len(local') = n + 1 /\ local'[n + 1].difficulty = new
      /\ \A h \in 1..n : local'[h] = local[h]
  BY <1>1, MineNextIs
<1>4. ASSUME n # 0
      PROVE  /\ new - local[n].difficulty \in -1..1
             /\ new - local[n].difficulty # 0 => n % RetargetWindow = 0
             /\ n >= RetargetWindow => /\ new - local[n].difficulty < 0 => span(n) > Expected
                                       /\ new - local[n].difficulty > 0 => span(n) < Expected \/ span(n) <= 0
  <2>1. local # <<>> /\ n \in 1..n /\ Last(local) = local[n]
    BY <1>1, <1>4 DEF Last
  <2>2. Last(local).difficulty \in MinDifficulty..MaxDifficulty
    BY <1>1, <2>1 DEF IsHistory
  <2> QED BY <1>1, <2>1, <2>2, NextDifficultyIs
<1> HIDE DEF new
<1>5. DifficultyMovesSlowly'
  <2> SUFFICES ASSUME NEW h \in 2..(n + 1)
               PROVE  /\ local'[h].difficulty - local'[h - 1].difficulty \in -1..1
                      /\ local'[h].difficulty - local'[h - 1].difficulty # 0 => (h - 1) % RetargetWindow = 0
    BY <1>3 DEF DifficultyMovesSlowly
  <2>1. CASE h = n + 1
    <3>1. n \in 1..n /\ h - 1 = n /\ n # 0
      BY <1>1, <2>1
    <3> QED BY <1>3, <1>4, <2>1, <3>1
  <2>2. CASE h # n + 1
    <3>1. h \in 2..n /\ h \in 1..n /\ h - 1 \in 1..n
      BY <1>1, <2>2
    <3> QED BY <1>3, <3>1 DEF HistoryInv, DifficultyMovesSlowly
  <2> QED BY <2>1, <2>2
<1>6. RetargetFollowsTime'
  <2> DEFINE change(h) == local'[h + 1].difficulty - local'[h].difficulty
             after(h) == local'[h].timestamp - local'[h - RetargetWindow + 1].timestamp
  <2> SUFFICES ASSUME NEW h \in RetargetWindow..n, h % RetargetWindow = 0
               PROVE  /\ change(h) < 0 => after(h) > Expected
                      /\ change(h) > 0 => after(h) < Expected \/ after(h) <= 0
    BY <1>1, <1>3 DEF RetargetFollowsTime, Expected
  <2>1. h \in 1..n /\ h - RetargetWindow + 1 \in 1..n
    BY <1>1, <1>2
  <2>2. after(h) = span(h)
    BY <1>3, <2>1
  <2>3. CASE h = n
    <3>1. change(h) = new - local[n].difficulty /\ n # 0 /\ n >= RetargetWindow
      BY <1>1, <1>2, <1>3, <2>1, <2>3
    <3> HIDE DEF change, after, span
    <3> QED BY <1>4, <2>2, <2>3, <3>1
  <2>4. CASE h # n
    <3>1. h \in RetargetWindow..(n - 1) /\ h + 1 \in 1..n
      BY <1>1, <1>2, <2>4
    <3>2. change(h) = local[h + 1].difficulty - local[h].difficulty
      BY <1>3, <2>1, <3>1
    <3>3. /\ local[h + 1].difficulty - local[h].difficulty < 0 => span(h) > Expected
          /\ local[h + 1].difficulty - local[h].difficulty > 0 => span(h) < Expected \/ span(h) <= 0
      BY <3>1 DEF HistoryInv, RetargetFollowsTime, Expected
    <3> HIDE DEF change, after, span
    <3> QED BY <2>2, <3>2, <3>3
  <2> QED BY <2>3, <2>4
<1>7. AnnouncesRetarget
  <2> SUFFICES ASSUME local # <<>>, Last(local').difficulty # Last(local).difficulty
               PROVE  BlocksUntilRetarget(local) = 0
    BY DEF AnnouncesRetarget
  <2>1. n # 0 /\ Last(local).difficulty = local[n].difficulty /\ Last(local').difficulty = new
    BY <1>1, <1>3 DEF Last
  <2>2. n \in 1..n /\ local[n].difficulty \in Int /\ new \in Int
    <3>1. n \in 1..n /\ n + 1 \in 1..(n + 1)
      BY <1>1, <2>1
    <3>2. local[n].difficulty \in MinDifficulty..MaxDifficulty
      BY <1>1, <3>1 DEF IsHistory
    <3>3. local'[n + 1].difficulty \in MinDifficulty..MaxDifficulty
      BY <1>3, <3>1 DEF IsHistory
    <3>4. MinDifficulty \in Nat /\ MaxDifficulty \in Nat
      BY <1>1 DEF ForkChoiceAssumption
    <3> QED BY <1>3, <3>1, <3>2, <3>3, <3>4
  <2>3. n % RetargetWindow = 0
    BY <1>4, <2>1, <2>2
  <2>4. RetargetWindow % RetargetWindow = 0
    BY <1>2, SMT
  <2>5. BlocksUntilRetarget(local) = (RetargetWindow - (n % RetargetWindow)) % RetargetWindow
    BY DEF BlocksUntilRetarget
  <2> HIDE DEF n
  <2>6. RetargetWindow - (n % RetargetWindow) = RetargetWindow
    BY <1>2, <2>3
  <2> QED BY <2>4, <2>5, <2>6
<1> QED BY <1>3, <1>5, <1>6, <1>7 DEF HistoryInv

\* A node that stands still keeps what it has.
LEMMA HistoryStutters ==
    ASSUME HistoryInv, UNCHANGED chainVars
    PROVE  HistoryInv' /\ AnnouncesRetarget
<1>1. local' = local
  BY DEF chainVars
<1> QED BY <1>1 DEF HistoryInv, IsHistory, DifficultyMovesSlowly, RetargetFollowsTime, AnnouncesRetarget

\* The difficulty follows the time of the blocks in every history.
THEOREM DifficultyFollowsTime ==
    ASSUME CheckAssumption
    PROVE  AnyHistory => /\ [](IsHistory /\ DifficultyMovesSlowly /\ RetargetFollowsTime)
                         /\ [][AnnouncesRetarget]_chainVars
                         /\ RetargetIsSound
<1>1. AtGenesis => HistoryInv
  <2> SUFFICES ASSUME AtGenesis PROVE HistoryInv
    OBVIOUS
  <2>1. local = <<>> /\ Len(local) = 0 /\ 1..Len(local) = {} /\ 2..Len(local) = {}
    BY DEF AtGenesis
  <2>2. RetargetWindow..(Len(local) - 1) = {}
    BY <2>1 DEF CheckAssumption, ForkChoiceAssumption
  <2> QED BY <2>1, <2>2 DEF HistoryInv, IsHistory, DifficultyMovesSlowly, RetargetFollowsTime
<1>2. HistoryInv /\ [MineNext]_chainVars => HistoryInv' /\ AnnouncesRetarget
  BY HistoryStep, HistoryStutters
<1>3. HistoryInv => /\ IsHistory /\ DifficultyMovesSlowly /\ RetargetFollowsTime
                    /\ (scenario = "times" => DifficultyMovesSlowly /\ RetargetFollowsTime)
  BY DEF HistoryInv
<1>4. AnnouncesRetarget => (scenario = "times" => AnnouncesRetarget)
  OBVIOUS
<1> QED BY <1>1, <1>2, <1>3, <1>4, PTL DEF AnyHistory, RetargetIsSound

(***************************************************************************)
(* The index of the explorer.  A loop over the heights of a chain and the  *)
(* sum of the work of its blocks are recursive functions.                  *)
(***************************************************************************)

Weigh(sum, block) == sum + block.work
Stride(ix, turn) == IF turn.old THEN ix ELSE Explorer!IndexBlock(ix, turn.block)

Summing == INSTANCE Iteration WITH Step <- Weigh
Indexing == INSTANCE Iteration WITH Step <- Stride

\* What the lemmas need of a chain: blocks, and no transaction in two of them.
Fine(c) == c \in Seq(Explorer!Body) /\ Explorer!Unique(c)

\* A chain of the model is one, and no longer than the bound.
LEMMA ChainIsFine ==
    ASSUME Explorer!ExplorerAssumption, NEW c \in Explorer!Chain
    PROVE  Fine(c) /\ Len(c) <= MaxChainWork
<1>1. MaxChainWork \in Nat
  BY DEF Explorer!ExplorerAssumption
<1>2. c \in Explorer!BoundedSeq(Explorer!Body, MaxChainWork) /\ Explorer!Unique(c)
  BY DEF Explorer!Chain
<1>3. PICK n \in 0..MaxChainWork : c \in [1..n -> Explorer!Body]
  BY <1>2 DEF Explorer!BoundedSeq, Explorer!SeqOf
<1> QED BY <1>1, <1>2, <1>3 DEF Fine

\* The work of a chain is a number.
LEMMA WorkIsNat ==
    ASSUME NEW c \in Seq(Explorer!Body)
    PROVE  Explorer!Work(c) \in Nat
<1> DEFINE T == [k \in 0..Len(c) |-> Nat]
<1>1. Explorer!Work(c) = Summing!Run(0, c)
  BY DEF Explorer!Work, Summing!Run, Weigh
<1>2. Len(c) \in Nat /\ T[Len(c)] = Nat /\ T[0] = Nat
  OBVIOUS
<1>3. \A k \in 1..Len(c) : \A r \in T[k - 1] : Weigh(r, c[k]) \in T[k]
  <2> TAKE k \in 1..Len(c)
  <2>1. k - 1 \in 0..Len(c) /\ k \in 0..Len(c) /\ T[k - 1] = Nat /\ T[k] = Nat
    BY <1>2
  <2>2. c[k] \in Explorer!Body
    OBVIOUS
  <2>3. c[k].work \in Nat
    BY <2>2 DEF Explorer!Body
  <2> QED BY <2>1, <2>3 DEF Weigh
<1> HIDE DEF T
<1>4. Summing!Run(0, c) \in T[Len(c)]
  BY <1>2, <1>3, Summing!RunKeeps
<1> QED BY <1>1, <1>2, <1>4

\* The block at a height is the chain up to it.
LEMMA BlockIs ==
    ASSUME NEW c, Fine(c), NEW h \in 0..Len(c)
    PROVE  /\ Fine(Explorer!Block(c, h)) /\ Len(Explorer!Block(c, h)) = h
           /\ \A i \in 1..h : Explorer!Block(c, h)[i] = c[i]
           /\ \A i \in 0..h : Explorer!Block(Explorer!Block(c, h), i) = Explorer!Block(c, i)
           /\ Explorer!Block(c, Len(c)) = c
<1> DEFINE b == Explorer!Block(c, h)
<1>1. c \in Seq(Explorer!Body) /\ Explorer!Unique(c) /\ Len(c) \in Nat /\ h \in Nat
  BY DEF Fine
<1>2. b \in Seq(Explorer!Body) /\ Len(b) = h /\ \A i \in 1..h : b[i] = c[i]
  BY <1>1 DEF Explorer!Block
<1>3. Explorer!Unique(b)
  <2>1. DOMAIN b = 1..h /\ DOMAIN c = 1..Len(c) /\ \A i \in 1..h : i \in 1..Len(c)
    BY <1>1, <1>2
  <2> HIDE DEF b
  <2> QED BY <1>1, <1>2, <2>1 DEF Explorer!Unique
<1>4. \A i \in 0..h : Explorer!Block(b, i) = Explorer!Block(c, i)
  <2> TAKE i \in 0..h
  <2>1. Explorer!Block(b, i) \in Seq(Explorer!Body) /\ Len(Explorer!Block(b, i)) = i
    BY <1>1, <1>2 DEF Explorer!Block
  <2>2. Explorer!Block(c, i) \in Seq(Explorer!Body) /\ Len(Explorer!Block(c, i)) = i
    BY <1>1 DEF Explorer!Block
  <2>3. \A j \in 1..i : Explorer!Block(b, i)[j] = Explorer!Block(c, i)[j]
    BY <1>1, <1>2 DEF Explorer!Block
  <2> QED BY <2>1, <2>2, <2>3
<1>5. Explorer!Block(c, Len(c)) = c
  BY <1>1 DEF Explorer!Block
<1> QED BY <1>1, <1>2, <1>3, <1>4, <1>5 DEF Fine

\* Indexing one more block makes the index of a chain that of one more block.
LEMMA OneMoreBlock ==
    ASSUME NEW c, Fine(c), NEW h \in 1..Len(c)
    PROVE  Explorer!IndexBlock(Explorer!IndexOf(Explorer!Block(c, h - 1)), Explorer!Block(c, h))
             = Explorer!IndexOf(Explorer!Block(c, h))
<1> DEFINE p == Explorer!Block(c, h - 1)
           b == Explorer!Block(c, h)
           ix == Explorer!IndexOf(p)
           jx == Explorer!IndexOf(b)
<1>1. h \in Nat /\ h - 1 \in 0..Len(c) /\ h \in 0..Len(c) /\ h >= 1 /\ Len(c) \in Nat
  BY DEF Fine
<1>2. Fine(p) /\ Len(p) = h - 1 /\ Fine(b) /\ Len(b) = h
  BY <1>1, BlockIs
<1>3. \A i \in 1..(h - 1) : p[i] = c[i]
  BY <1>1, BlockIs
<1>4. \A i \in 1..h : b[i] = c[i]
  BY <1>1, BlockIs
<1>5. \A i \in 0..(h - 1) : Explorer!Block(p, i) = Explorer!Block(c, i)
  BY <1>1, BlockIs
<1>6. \A i \in 0..h : Explorer!Block(b, i) = Explorer!Block(c, i)
  BY <1>1, BlockIs
<1>7. DOMAIN p = 1..(h - 1) /\ DOMAIN b = 1..h
  BY <1>2 DEF Fine
<1>8. \A i, j \in 1..h : i # j => b[i].txs \cap b[j].txs = {}
  BY <1>2, <1>7 DEF Fine, Explorer!Unique
<1>9. Explorer!Block(c, h) = b /\ h \in 1..h /\ \A i \in 1..(h - 1) : i \in 1..h /\ i # h /\ i \in 0..h
  BY <1>1
<1>10. \A i \in 1..h : i \in 1..(h - 1) \/ i = h
  BY <1>1
<1> HIDE DEF p, b
<1>11. ix.blocks = [i \in 1..(h - 1) |-> Explorer!Block(c, i)]
  BY <1>2, <1>5, <1>1 DEF Explorer!IndexOf
<1>12. jx.blocks = [i \in 1..h |-> Explorer!Block(c, i)]
  BY <1>2, <1>6, <1>1 DEF Explorer!IndexOf
<1>13. Len(ix.blocks) = h - 1
  BY <1>1, <1>11
<1>14. [i \in 1..(IF Len(ix.blocks) > h THEN Len(ix.blocks) ELSE h) |-> IF i = h THEN b ELSE ix.blocks[i]] = jx.blocks
  <2> DEFINE n == IF Len(ix.blocks) > h THEN Len(ix.blocks) ELSE h
  <2>1. n = h
    BY <1>1, <1>13
  <2>2. \A i \in 1..h : (IF i = h THEN b ELSE ix.blocks[i]) = Explorer!Block(c, i)
    BY <1>9, <1>10, <1>11
  <2> HIDE DEF n, ix, jx
  <2>3. [i \in 1..n |-> IF i = h THEN b ELSE ix.blocks[i]] = jx.blocks
    BY <2>1, <2>2, <1>12
  <2> QED BY <2>3 DEF n
<1>15. ASSUME NEW t \in Explorer!Tx
       PROVE  jx.txs[t] = IF t \in b[h].txs THEN b ELSE ix.txs[t]
  <2>1. jx.txs[t] = IF \E k \in 1..h : t \in b[k].txs
                    THEN Explorer!Block(b, CHOOSE k \in 1..h : t \in b[k].txs) ELSE None
    BY <1>7 DEF Explorer!IndexOf
  <2>2. ix.txs[t] = IF \E k \in 1..(h - 1) : t \in p[k].txs
                    THEN Explorer!Block(p, CHOOSE k \in 1..(h - 1) : t \in p[k].txs) ELSE None
    BY <1>7 DEF Explorer!IndexOf
  <2>3. CASE t \in b[h].txs
    <3>1. \A k \in 1..h : t \in b[k].txs => k = h
      BY <1>8, <1>9, <2>3
    <3>2. (CHOOSE k \in 1..h : t \in b[k].txs) = h
      BY <3>1, <1>9, <2>3
    <3>3. Explorer!Block(b, h) = b
      BY <1>1, <1>6, <1>9
    <3>4. \E k \in 1..h : t \in b[k].txs
      BY <1>9, <2>3
    <3>5. jx.txs[t] = b
      <4> HIDE DEF jx, ix
      <4> QED BY <2>1, <3>2, <3>3, <3>4
    <3> QED BY <2>3, <3>5
  <2>4. CASE t \notin b[h].txs /\ \E k \in 1..(h - 1) : t \in p[k].txs
    <3>1. PICK k \in 1..(h - 1) : t \in p[k].txs
      BY <2>4
    <3>2. k \in 1..h /\ t \in b[k].txs
      BY <3>1, <1>3, <1>4, <1>9
    <3>3. \A j \in 1..h : t \in b[j].txs => j = k
      BY <1>8, <3>2
    <3>4. (CHOOSE j \in 1..h : t \in b[j].txs) = k
      BY <3>2, <3>3
    <3>5. \A j \in 1..(h - 1) : t \in p[j].txs => j = k
      BY <3>3, <1>3, <1>4, <1>9
    <3>6. (CHOOSE j \in 1..(h - 1) : t \in p[j].txs) = k
      BY <3>1, <3>5
    <3>7. Explorer!Block(b, k) = Explorer!Block(p, k)
      BY <3>1, <1>1, <1>5, <1>6
    <3> QED BY <2>1, <2>2, <2>4, <3>2, <3>4, <3>6, <3>7
  <2>5. CASE t \notin b[h].txs /\ ~\E k \in 1..(h - 1) : t \in p[k].txs
    <3>1. ~\E k \in 1..h : t \in b[k].txs
      BY <2>5, <1>3, <1>4, <1>9, <1>10
    <3> QED BY <2>1, <2>2, <2>5, <3>1
  <2> QED BY <2>3, <2>4, <2>5
<1>16. jx.txs = [t \in Explorer!Tx |-> IF t \in b[h].txs THEN b ELSE ix.txs[t]]
  <2>1. jx.txs = [t \in Explorer!Tx |-> jx.txs[t]]
    BY DEF Explorer!IndexOf
  <2> HIDE DEF ix, jx
  <2> QED BY <2>1, <1>15
<1>17. jx.events = ix.events \cup {[height |-> h, tx |-> t, block |-> b] : t \in b[h].txs}
  <2> DEFINE E(i) == {[height |-> i, tx |-> t, block |-> Explorer!Block(c, i)] : t \in c[i].txs}
  <2>1. jx.events = UNION {E(i) : i \in 1..h}
    <3>1. \A i \in 1..h : {[height |-> i, tx |-> t, block |-> Explorer!Block(b, i)] : t \in b[i].txs} = E(i)
      <4> TAKE i \in 1..h
      <4>1. b[i] = c[i] /\ Explorer!Block(b, i) = Explorer!Block(c, i)
        BY <1>1, <1>4, <1>6
      <4> QED BY <4>1
    <3>2. jx.events = UNION {{[height |-> i, tx |-> t, block |-> Explorer!Block(b, i)] : t \in b[i].txs} : i \in 1..h}
      BY <1>7 DEF Explorer!IndexOf
    <3> HIDE DEF E, jx
    <3> QED BY <3>1, <3>2
  <2>2. ix.events = UNION {E(i) : i \in 1..(h - 1)}
    <3>1. \A i \in 1..(h - 1) : {[height |-> i, tx |-> t, block |-> Explorer!Block(p, i)] : t \in p[i].txs} = E(i)
      <4> TAKE i \in 1..(h - 1)
      <4>1. p[i] = c[i] /\ Explorer!Block(p, i) = Explorer!Block(c, i)
        BY <1>1, <1>3, <1>5
      <4> QED BY <4>1
    <3>2. ix.events = UNION {{[height |-> i, tx |-> t, block |-> Explorer!Block(p, i)] : t \in p[i].txs} : i \in 1..(h - 1)}
      BY <1>7 DEF Explorer!IndexOf
    <3> HIDE DEF E, ix
    <3> QED BY <3>1, <3>2
  <2>3. {[height |-> h, tx |-> t, block |-> b] : t \in b[h].txs} = E(h)
    BY <1>4, <1>9
  <2> HIDE DEF E, ix, jx
  <2> QED BY <2>1, <2>2, <2>3, <1>9, <1>10
<1>18. jx.cursor = b /\ jx = [cursor |-> jx.cursor, blocks |-> jx.blocks, txs |-> jx.txs, events |-> jx.events]
  BY DEF Explorer!IndexOf
<1> HIDE DEF ix, jx
<1>19. Explorer!IndexBlock(ix, b) = jx
  BY <1>2, <1>14, <1>16, <1>17, <1>18 DEF Explorer!IndexBlock
<1> QED BY <1>19 DEF ix, jx, p, b

\* An empty index is that of the genesis block.
LEMMA ClearedIs == Explorer!Cleared = Explorer!IndexOf(<< >>)
<1>1. Explorer!IndexOf(<< >>).blocks = << >>
  BY DEF Explorer!IndexOf
<1>2. Explorer!IndexOf(<< >>).txs = [t \in Explorer!Tx |-> None]
  BY DEF Explorer!IndexOf
<1>3. Explorer!IndexOf(<< >>).events = {}
  <2>1. DOMAIN << >> = {}
    OBVIOUS
  <2> QED BY <2>1 DEF Explorer!IndexOf
<1>4. Explorer!IndexOf(<< >>) = [cursor |-> << >>, blocks |-> Explorer!IndexOf(<< >>).blocks,
                                txs |-> Explorer!IndexOf(<< >>).txs, events |-> Explorer!IndexOf(<< >>).events]
  BY DEF Explorer!IndexOf
<1> QED BY <1>1, <1>2, <1>3, <1>4 DEF Explorer!Cleared

\* Whatever chain was indexed before, a sync leaves the index of the chain that
\* it has read.
LEMMA SyncIsRight ==
    ASSUME NEW cur, Fine(cur), NEW c, Fine(c)
    PROVE  Explorer!Sync(Explorer!IndexOf(cur), c) = Explorer!IndexOf(c)
<1> DEFINE ix == Explorer!IndexOf(cur)
           old == IF Explorer!Stale(ix.cursor, c) \/ ix.cursor = <<>> THEN Explorer!Cleared ELSE ix
           n == Len(c)
           k == Len(old.cursor)
           at == CHOOSE f : f = [h \in 0..n |-> IF h <= k THEN old
                                               ELSE Explorer!IndexBlock(f[h - 1], Explorer!Block(c, h))]
           s == [h \in 1..n |-> [old |-> h <= k, block |-> Explorer!Block(c, h)]]
<1>1. Explorer!Sync(ix, c) = at[n]
  BY DEF Explorer!Sync
<1>2. n \in Nat
  BY DEF Fine
<1>3. k \in 0..n /\ old = Explorer!IndexOf(Explorer!Block(c, k))
  <2>1. ix.cursor = cur
    BY DEF Explorer!IndexOf
  <2>2. CASE Explorer!Stale(cur, c) \/ cur = <<>>
    <3>1. old = Explorer!Cleared /\ k = 0
      BY <2>1, <2>2 DEF Explorer!Cleared
    <3>2. Explorer!Block(c, 0) = << >>
      BY DEF Explorer!Block, Fine
    <3> QED BY <3>1, <3>2, <1>2, ClearedIs
  <2>3. CASE ~Explorer!Stale(cur, c) /\ cur # <<>>
    <3>1. old = ix /\ k = Len(cur)
      BY <2>1, <2>3
    <3>2. Len(cur) \in Nat /\ Len(cur) <= n /\ Explorer!Block(c, Len(cur)) = cur
      BY <1>2, <2>3 DEF Explorer!Stale, Fine
    <3> QED BY <3>1, <3>2, <1>2
  <2> QED BY <2>2, <2>3
<1> HIDE DEF k, n, old
<1>4. \E f : f = [h \in 0..n |-> IF h <= k THEN old ELSE Explorer!IndexBlock(f[h - 1], Explorer!Block(c, h))]
  <2>1. PICK f : Indexing!Trace(f, old, s, n)
    BY <1>2, Indexing!TraceExists
  <2>2. f = [h \in 0..n |-> IF h = 0 THEN old ELSE Stride(f[h - 1], s[h])]
    BY <2>1 DEF Indexing!Trace
  <2>3. ASSUME NEW h \in 0..n
        PROVE  f[h] = IF h <= k THEN old ELSE Explorer!IndexBlock(f[h - 1], Explorer!Block(c, h))
    <3>1. CASE h = 0
      BY <1>2, <1>3, <2>2, <3>1
    <3>2. CASE h # 0
      <4>1. h \in 1..n /\ s[h] = [old |-> h <= k, block |-> Explorer!Block(c, h)]
        BY <1>2, <3>2
      <4>2. f[h] = IF h <= k THEN f[h - 1] ELSE Explorer!IndexBlock(f[h - 1], Explorer!Block(c, h))
        BY <2>2, <4>1, <3>2 DEF Stride
      <4>3. h <= k => f[h] = old
        <5> DEFINE Bad == {j \in 0..k : f[j] # old}
        <5> SUFFICES ASSUME Bad # {} PROVE FALSE
          BY <1>2, <1>3
        <5>1. PICK j \in Bad : \A i \in Bad : j <= i
          <6>1. Bad \subseteq Nat
            BY <1>2, <1>3
          <6> HIDE DEF Bad
          <6> QED BY <6>1, Indexing!LeastNat
        <5>2. j \in 0..k /\ f[j] # old
          BY <5>1
        <5>3. f[0] = old
          BY <1>2, <2>2
        <5>4. j # 0 /\ j \in 1..n /\ j <= k /\ j - 1 \in 0..k
          BY <1>2, <1>3, <5>2, <5>3
        <5>5. f[j - 1] = old
          BY <5>1, <5>4, <1>3, <1>2
        <5>6. s[j].old
          BY <5>4
        <5>7. f[j] = Stride(f[j - 1], s[j])
          <6>1. j \in 0..n
            BY <1>2, <5>4
          <6> HIDE DEF s
          <6> QED BY <2>2, <5>4, <6>1
        <5> QED BY <5>2, <5>5, <5>6, <5>7 DEF Stride
      <4> QED BY <4>2, <4>3
    <3> QED BY <3>1, <3>2
  <2>4. f = [h \in 0..n |-> f[h]]
    BY <2>2
  <2> QED BY <2>3, <2>4
<1>5. at = [h \in 0..n |-> IF h <= k THEN old ELSE Explorer!IndexBlock(at[h - 1], Explorer!Block(c, h))]
  BY <1>4
<1> HIDE DEF at
<1>6. \A h \in k..n : at[h] = Explorer!IndexOf(Explorer!Block(c, h))
  <2> DEFINE Bad == {h \in k..n : at[h] # Explorer!IndexOf(Explorer!Block(c, h))}
  <2> SUFFICES ASSUME Bad # {} PROVE FALSE
    OBVIOUS
  <2>1. PICK h \in Bad : \A i \in Bad : h <= i
    <3>1. Bad \subseteq Nat
      BY <1>2, <1>3
    <3> HIDE DEF Bad
    <3> QED BY <3>1, Indexing!LeastNat
  <2>2. h \in k..n /\ h \in 0..n /\ at[h] # Explorer!IndexOf(Explorer!Block(c, h))
    BY <2>1, <1>2, <1>3
  <2>3. h # k
    <3>1. at[k] = old
      BY <1>2, <1>3, <1>5
    <3> QED BY <3>1, <1>3, <2>2
  <2>4. h - 1 \in k..n /\ h \in 1..n /\ ~(h <= k)
    BY <1>2, <1>3, <2>2, <2>3
  <2>5. at[h - 1] = Explorer!IndexOf(Explorer!Block(c, h - 1))
    BY <2>1, <2>4, <1>2, <1>3
  <2>6. at[h] = Explorer!IndexBlock(at[h - 1], Explorer!Block(c, h))
    BY <1>5, <2>2, <2>4
  <2>7. at[h] = Explorer!IndexOf(Explorer!Block(c, h))
    BY <2>4, <2>5, <2>6, OneMoreBlock DEF n
  <2> QED BY <2>2, <2>7
<1>7. Explorer!Block(c, n) = c
  <2>1. 0 \in 0..Len(c)
    BY <1>2 DEF n
  <2> QED BY <2>1, BlockIs DEF n
<1> QED BY <1>1, <1>2, <1>3, <1>6, <1>7

\* A chain has finitely many events.
LEMMA EventsAreFinite ==
    ASSUME Explorer!ExplorerAssumption, NEW c, Fine(c)
    PROVE  IsFiniteSet(Explorer!IndexOf(c).events)
<1> DEFINE E(h) == {[height |-> h, tx |-> t, block |-> Explorer!Block(c, h)] : t \in c[h].txs}
           D == DOMAIN c
           S == {E(h) : h \in D}
<1>1. Explorer!IndexOf(c).events = UNION S
  BY DEF Explorer!IndexOf
<1>2. IsFiniteSet(D)
  <2>1. D = 1..Len(c) /\ Len(c) \in Nat
    BY DEF Fine
  <2> QED BY <2>1, FS_Interval
<1>3. IsFiniteSet(S)
  <2> DEFINE f == [h \in D |-> E(h)]
  <2>1. f \in Surjection(D, S)
    BY DEF Surjection
  <2> HIDE DEF f, S, D
  <2> QED BY <1>2, <2>1, FS_Surjection
<1>4. \A T \in S : IsFiniteSet(T)
  <2> SUFFICES ASSUME NEW h \in D PROVE IsFiniteSet(E(h))
    OBVIOUS
  <2>1. IsFiniteSet(c[h].txs)
    <3>1. c[h] \in Explorer!Body
      BY DEF Fine
    <3>2. c[h].txs \subseteq 1..MaxTx /\ MaxTx \in Nat
      BY <3>1 DEF Explorer!Body, Explorer!Tx, Explorer!ExplorerAssumption
    <3>3. IsFiniteSet(1..MaxTx)
      BY <3>2, FS_Interval
    <3> QED BY <3>2, <3>3, FS_Subset
  <2> DEFINE g == [t \in c[h].txs |-> [height |-> h, tx |-> t, block |-> Explorer!Block(c, h)]]
  <2>2. g \in Surjection(c[h].txs, E(h))
    BY DEF Surjection
  <2> HIDE DEF g, E
  <2> QED BY <2>1, <2>2, FS_Surjection
<1> HIDE DEF S
<1> QED BY <1>1, <1>3, <1>4, FS_UNION

\* The history of finitely many events is a sequence.
LEMMA HistoryIsSeq ==
    ASSUME NEW events, IsFiniteSet(events)
    PROVE  \E S : Explorer!History(events) \in Seq(S)
<1> DEFINE n == Cardinality(events)
           S == {Explorer!History(events)[i] : i \in 1..n}
<1>1. n \in Nat
  BY FS_CardinalityType
<1>2. Explorer!Cardinality(events) = n
  BY DEF Cardinality, Explorer!Cardinality
<1>3. Explorer!History(events) = [i \in 1..n |-> Explorer!History(events)[i]]
  BY <1>2 DEF Explorer!History
<1>4. Explorer!History(events) \in [1..n -> S]
  BY <1>3
<1> HIDE DEF n, S
<1> QED BY <1>1, <1>4

\* A page continues what lies before it, and is full when more follows.
LEMMA PageIs ==
    ASSUME Explorer!ExplorerAssumption, NEW events, IsFiniteSet(events),
           NEW key \in Nat, key <= Len(Explorer!History(events))
    PROVE  LET all == Explorer!History(events)
               page == Explorer!Page(events, key)
           IN  /\ page.total = Len(all) /\ Len(page.items) \in Nat /\ Len(all) \in Nat
               /\ key + Len(page.items) <= Len(all)
               /\ key + Len(page.items) < Len(all) => Len(page.items) = PageSize
               /\ SubSeq(all, 1, key) \o page.items = SubSeq(all, 1, key + Len(page.items))
<1>1. PICK all, S : all = Explorer!History(events) /\ all \in Seq(S)
  BY HistoryIsSeq
<1>2. Len(all) \in Nat /\ key <= Len(all)
  BY <1>1
<1>9. PageSize \in Nat /\ PageSize > 0
  <2>1. PageSize \in Nat \ {0}
    BY DEF Explorer!ExplorerAssumption
  <2> QED BY <2>1
<1> DEFINE page == Explorer!Page(events, key)
           end == IF key + PageSize > Len(all) THEN Len(all) ELSE key + PageSize
<1>3. page = [items |-> SubSeq(all, key + 1, end), total |-> Len(all)]
  <2>1. (IF key > Len(all) THEN Len(all) ELSE key) = key
    BY <1>2
  <2> QED BY <1>1, <2>1 DEF Explorer!Page
<1> HIDE DEF page
<1>4. end \in Nat /\ key <= end /\ end <= Len(all)
  BY <1>2, <1>9
<1>5. end < Len(all) => end = key + PageSize
  BY <1>2, <1>9
<1> HIDE DEF end
<1>6. Len(page.items) = end - key
  BY <1>1, <1>2, <1>3, <1>4
<1>7. SubSeq(all, 1, key) \o SubSeq(all, key + 1, end) = SubSeq(all, 1, end)
  <2> DEFINE x == SubSeq(all, 1, key)
             y == SubSeq(all, key + 1, end)
             z == SubSeq(all, 1, end)
  <2>1. x \in Seq(S) /\ Len(x) = key /\ \A i \in 1..key : x[i] = all[i]
    BY <1>1, <1>2, <1>4
  <2>2. y \in Seq(S) /\ Len(y) = end - key /\ \A i \in 1..(end - key) : y[i] = all[key + i]
    BY <1>1, <1>2, <1>4
  <2>3. z \in Seq(S) /\ Len(z) = end /\ \A i \in 1..end : z[i] = all[i]
    BY <1>1, <1>2, <1>4
  <2> HIDE DEF x, y, z
  <2>4. x \o y \in Seq(S) /\ Len(x \o y) = end
    <3>1. x \o y \in Seq(S) /\ Len(x \o y) = Len(x) + Len(y)
      BY <2>1, <2>2
    <3>2. key + (end - key) = end
      BY <1>4
    <3> QED BY <3>1, <3>2, <2>1, <2>2
  <2>5. ASSUME NEW i \in 1..end
        PROVE  (x \o y)[i] = all[i]
    <3>0. i \in 1..(Len(x) + Len(y)) /\ (x \o y)[i] = IF i <= Len(x) THEN x[i] ELSE y[i - Len(x)]
      BY <2>1, <2>2, <1>4
    <3>1. CASE i <= key
      BY <3>0, <3>1, <2>1, <1>4
    <3>2. CASE i > key
      <4>1. i - key \in 1..(end - key) /\ key + (i - key) = i
        BY <3>2, <1>4
      <4>2. (x \o y)[i] = y[i - key]
        <5>1. ~(i <= Len(x)) /\ Len(x) = key
          BY <3>2, <2>1, <1>4
        <5> QED BY <3>0, <5>1
      <4> QED BY <4>1, <4>2, <2>2
    <3>3. i <= key \/ i > key
      BY <1>4
    <3> QED BY <3>1, <3>2, <3>3, Zenon
  <2>6. x \o y = z
    <3> DEFINE v == x \o y
    <3>1. v \in Seq(S) /\ Len(v) = end /\ \A i \in 1..end : v[i] = all[i]
      BY <2>4, <2>5
    <3> HIDE DEF v
    <3>2. v = z
      BY <2>3, <3>1, <1>4
    <3> QED BY <3>2 DEF v
  <2>7. (x \o y = z) => (SubSeq(all, 1, key) \o SubSeq(all, key + 1, end) = SubSeq(all, 1, end))
    BY DEF x, y, z
  <2> QED BY <2>6, <2>7
<1>8. key + Len(page.items) = end
  BY <1>4, <1>6
<1>10. page.total = Len(all) /\ page.items = SubSeq(all, key + 1, end)
  BY <1>3
<1>11. Len(page.items) \in Nat
  BY <1>4, <1>6
<1>12. key + Len(page.items) <= Len(all)
  BY <1>4, <1>8
<1>13. key + Len(page.items) < Len(all) => Len(page.items) = PageSize
  BY <1>4, <1>5, <1>6, <1>8, <1>9
<1>14. SubSeq(all, 1, key) \o page.items = SubSeq(all, 1, key + Len(page.items))
  BY <1>7, <1>8, <1>10
<1> QED BY <1>1, <1>2, <1>10, <1>11, <1>12, <1>13, <1>14, Zenon DEF page

\* The chain a comes no later than c: it is c, or has less work.
NotAfter(a, c) == a = c \/ Explorer!Work(a) < Explorer!Work(c)

ItemsTo(n) == SubSeq(Explorer!History(index.events), 1, n)

\* What holds of one reader.  From the moment in which the cursor was found at
\* the tip, the index stays with chains that were canonical during the request;
\* a walk has put together what lies before its next page.
Serves(r) ==
    LET q == reader[r]
    IN  /\ q = [at |-> q.at, query |-> q.query, key |-> q.key, cursor |-> q.cursor, tip |-> q.tip,
                refused |-> q.refused, answer |-> q.answer]
        /\ walk[r] = [items |-> walk[r].items, steady |-> walk[r].steady]
        /\ q.at \in {"idle", "status", "tip", "read", "done"}
        /\ q.at = "idle" => walk[r] = Explorer!NoWalk
        /\ q.at # "idle" /\ q.query = "events" => q.key \in Nat
        /\ q.at \in {"status", "tip", "read"} => chain \in seen[r]
        /\ q.at = "tip" => q.cursor = index.cursor
        /\ q.at = "read" /\ ~q.refused =>
              index.cursor \in seen[r] /\ (indexer.at \in {"open", "commit"} => indexer.blocks \in seen[r])
        /\ q.at = "read" /\ q.refused => q.query = "stats"
        /\ seen[r] \subseteq Explorer!Chain
        /\ q.at = "done" /\ q.query \in {"tx", "block", "events"} /\ ~q.refused =>
              \E c \in seen[r] : q.answer = Explorer!Lookup(Explorer!IndexOf(c), q)
        /\ q.query = "events" /\ walk[r].steady /\ q.at \in {"status", "tip", "read"} =>
              q.key <= Len(Explorer!History(index.events)) /\ walk[r].items = ItemsTo(q.key)
        /\ q.query = "events" /\ walk[r].steady /\ q.at = "done" /\ ~q.refused =>
              /\ q.answer = Explorer!Page(index.events, q.key)
              /\ q.key <= Len(Explorer!History(index.events))
              /\ walk[r].items = ItemsTo(q.key + Len(q.answer.items))

\* The index is that of a chain no later than what the indexer has read, and
\* that is no later than the canonical one.
IndexInv ==
    /\ chain \in Explorer!Chain /\ index.cursor \in Explorer!Chain /\ faults \in 0..MaxFaults
    /\ index = Explorer!IndexOf(index.cursor)
    /\ indexer = [at |-> indexer.at, blocks |-> indexer.blocks]
    /\ indexer.at \in {"wait", "open", "commit", "metrics", "failed"} /\ indexer.blocks \in Explorer!Chain
    /\ DOMAIN reader = Reader /\ DOMAIN seen = Reader /\ DOMAIN walk = Reader
    /\ holder = "indexer" <=> indexer.at \in {"commit", "metrics"}
    /\ \A r \in Reader : holder = r <=> reader[r].at = "tip"
    /\ NotAfter(index.cursor, chain)
    /\ indexer.at \in {"open", "commit"} =>
          NotAfter(indexer.blocks, chain) /\ NotAfter(index.cursor, indexer.blocks)
    /\ \A r \in Reader : Serves(r)

\* NotAfter is an order of the chains.
LEMMA NotAfterIs ==
    ASSUME Explorer!ExplorerAssumption, NEW a \in Explorer!Chain, NEW b \in Explorer!Chain, NEW c \in Explorer!Chain
    PROVE  /\ NotAfter(a, a)
           /\ NotAfter(a, b) /\ NotAfter(b, c) => NotAfter(a, c)
           /\ NotAfter(a, b) /\ NotAfter(b, a) => a = b
<1>1. Explorer!Work(a) \in Nat /\ Explorer!Work(b) \in Nat /\ Explorer!Work(c) \in Nat
  BY ChainIsFine, WorkIsNat DEF Fine
<1> QED BY <1>1 DEF NotAfter

\* A lookup depends on the question alone.
LEMMA SameQuestion ==
    ASSUME NEW ix, NEW p, NEW q, p.query = q.query, p.key = q.key
    PROVE  Explorer!Lookup(ix, p) = Explorer!Lookup(ix, q)
BY DEF Explorer!Lookup

\* A reader that does nothing is served as before while the index and the chain
\* rest and the indexer brings no other chain.
LEMMA Untouched ==
    ASSUME NEW r, Serves(r), reader'[r] = reader[r], walk'[r] = walk[r], seen'[r] = seen[r],
           chain' = chain, index' = index,
           indexer'.at \in {"open", "commit"} => indexer.at \in {"open", "commit"} /\ indexer'.blocks = indexer.blocks
    PROVE  Serves(r)'
BY DEF Serves, ItemsTo

\* The genesis block alone is a chain.
LEMMA GenesisIsChain ==
    ASSUME Explorer!ExplorerAssumption
    PROVE  << >> \in Explorer!Chain
<1>1. MaxChainWork \in Nat
  BY DEF Explorer!ExplorerAssumption
<1>2. Explorer!Work(<< >>) = 0
  <2>1. Explorer!Work(<< >>) = Summing!Run(0, << >>)
    BY DEF Explorer!Work, Summing!Run, Weigh
  <2> QED BY <2>1, Summing!RunEmpty
<1>3. << >> \in Explorer!BoundedSeq(Explorer!Body, MaxChainWork)
  <2>1. << >> \in [1..0 -> Explorer!Body] /\ 0 \in 0..MaxChainWork
    BY <1>1
  <2> QED BY <2>1 DEF Explorer!BoundedSeq, Explorer!SeqOf
<1>4. Explorer!Unique(<< >>)
  BY DEF Explorer!Unique
<1> QED BY <1>1, <1>2, <1>3, <1>4 DEF Explorer!Chain

\* At the start nothing is indexed, and nothing is on the chain.
LEMMA IndexStart ==
    ASSUME Explorer!ExplorerAssumption
    PROVE  Explorer!Init => IndexInv
<1> SUFFICES ASSUME Explorer!Init PROVE IndexInv
  OBVIOUS
<1>1. MaxChainWork \in Nat /\ MaxFaults \in Nat /\ None \notin Reader /\ None # "indexer"
  BY DEF Explorer!ExplorerAssumption
<1>2. << >> \in Explorer!Chain
  BY GenesisIsChain
<1>3. index = Explorer!IndexOf(<< >>) /\ index.cursor = << >>
  BY ClearedIs DEF Explorer!Init, Explorer!Cleared
<1>4. indexer = [at |-> indexer.at, blocks |-> indexer.blocks] /\ indexer.at = "wait" /\ indexer.blocks = << >>
  BY DEF Explorer!Init
<1>5. DOMAIN reader = Reader /\ DOMAIN seen = Reader /\ DOMAIN walk = Reader
  BY DEF Explorer!Init
<1>6. NotAfter(index.cursor, chain)
  BY <1>3 DEF NotAfter, Explorer!Init
<1>7. ASSUME NEW r \in Reader PROVE Serves(r) /\ ~(holder = r) /\ reader[r].at # "tip"
  <2>1. reader[r] = Explorer!Idle /\ walk[r] = Explorer!NoWalk /\ seen[r] = {} /\ holder = None
    BY DEF Explorer!Init
  <2>2. Serves(r)
    BY <2>1 DEF Serves, Explorer!Idle, Explorer!NoWalk
  <2> QED BY <1>1, <2>1, <2>2 DEF Explorer!Idle
<1>8. holder # "indexer" /\ chain = << >> /\ faults = 0
  BY <1>1 DEF Explorer!Init
<1> QED BY <1>1, <1>2, <1>3, <1>4, <1>5, <1>6, <1>7, <1>8 DEF IndexInv

\* The chain moves to one with more work.
LEMMA MoveKeeps ==
    ASSUME Explorer!ExplorerAssumption, IndexInv, Explorer!ChainMoves
    PROVE  IndexInv'
<1>1. PICK c \in Explorer!Chain :
         /\ Explorer!Work(c) > Explorer!Work(chain) /\ chain' = c
         /\ seen' = [r \in Reader |-> IF reader[r].at \in {"idle", "done"} THEN seen[r] ELSE seen[r] \cup {c}]
  BY DEF Explorer!ChainMoves
<1>2. index' = index /\ holder' = holder /\ indexer' = indexer /\ reader' = reader /\ walk' = walk /\ faults' = faults
  BY DEF Explorer!ChainMoves
<1>3. Explorer!Work(c) \in Nat /\ Explorer!Work(chain) \in Nat
  BY ChainIsFine, WorkIsNat DEF Fine, IndexInv
<1>4. NotAfter(chain, chain')
  BY <1>1, <1>3 DEF NotAfter
<1>5. NotAfter(index.cursor, chain)'
  <2>1. NotAfter(index.cursor, chain) /\ index.cursor \in Explorer!Chain /\ chain \in Explorer!Chain
    BY DEF IndexInv
  <2>2. NotAfter(index.cursor, chain')
    BY <2>1, <1>1, <1>4, NotAfterIs
  <2> QED BY <2>2, <1>2
<1>6. (indexer.at \in {"open", "commit"} =>
          NotAfter(indexer.blocks, chain) /\ NotAfter(index.cursor, indexer.blocks))'
  <2>1. SUFFICES ASSUME indexer.at \in {"open", "commit"}
                 PROVE  NotAfter(indexer.blocks, chain') /\ NotAfter(index.cursor, indexer.blocks)
    BY <1>2
  <2>2. NotAfter(indexer.blocks, chain) /\ NotAfter(index.cursor, indexer.blocks)
    BY <2>1 DEF IndexInv
  <2>3. indexer.blocks \in Explorer!Chain /\ chain \in Explorer!Chain
    BY DEF IndexInv
  <2> QED BY <2>2, <2>3, <1>1, <1>4, NotAfterIs
<1>7. ASSUME NEW r \in Reader PROVE Serves(r)'
  <2>1. Serves(r)
    BY DEF IndexInv
  <2>2. seen[r] \subseteq seen'[r] /\ (reader[r].at \in {"status", "tip", "read"} => c \in seen'[r])
         /\ (reader[r].at = "done" => seen'[r] = seen[r]) /\ seen'[r] \subseteq seen[r] \cup {c}
    BY <1>1
  <2> QED BY <1>1, <1>2, <2>1, <2>2 DEF Serves, ItemsTo
<1>8. DOMAIN seen' = Reader
  BY <1>1
<1> QED BY <1>1, <1>2, <1>5, <1>6, <1>7, <1>8 DEF IndexInv

\* The indexer reads the chain.
LEMMA SyncReadKeeps ==
    ASSUME Explorer!ExplorerAssumption, IndexInv, Explorer!SyncRead
    PROVE  IndexInv'
<1>1. indexer' = [at |-> "open", blocks |-> chain] /\ indexer.at = "wait"
  BY DEF Explorer!SyncRead
<1>2. index' = index /\ holder' = holder /\ chain' = chain /\ reader' = reader /\ seen' = seen /\ walk' = walk
         /\ faults' = faults
  BY DEF Explorer!SyncRead
<1>3. (NotAfter(indexer.blocks, chain) /\ NotAfter(index.cursor, indexer.blocks))'
  <2>1. NotAfter(index.cursor, chain)
    BY DEF IndexInv
  <2> QED BY <2>1, <1>1, <1>2 DEF NotAfter
<1>4. ASSUME NEW r \in Reader PROVE Serves(r)'
  <2>1. Serves(r)
    BY DEF IndexInv
  <2>2. indexer'.blocks = chain
    BY <1>1
  <2> QED BY <1>2, <2>1, <2>2 DEF Serves, ItemsTo
<1>5. indexer'.at = "open" /\ indexer'.blocks = chain /\ indexer' = [at |-> indexer'.at, blocks |-> indexer'.blocks]
  BY <1>1
<1>6. (holder = "indexer" <=> indexer.at \in {"commit", "metrics"})'
  BY <1>1, <1>2, <1>5 DEF IndexInv
<1> QED BY <1>2, <1>3, <1>4, <1>5, <1>6 DEF IndexInv

\* It opens explorer.db.
LEMMA SyncOpenKeeps ==
    ASSUME Explorer!ExplorerAssumption, IndexInv, Explorer!SyncOpen
    PROVE  IndexInv'
<1>1. indexer' = [indexer EXCEPT !.at = "commit"] /\ indexer.at = "open" /\ holder = None /\ holder' = "indexer"
  BY DEF Explorer!SyncOpen, Explorer!IndexerAt
<1>2. index' = index /\ chain' = chain /\ reader' = reader /\ seen' = seen /\ walk' = walk /\ faults' = faults
  BY DEF Explorer!SyncOpen
<1>3. indexer'.at = "commit" /\ indexer'.blocks = indexer.blocks /\ indexer' = [at |-> indexer'.at, blocks |-> indexer'.blocks]
  <2>1. indexer = [at |-> indexer.at, blocks |-> indexer.blocks]
    BY DEF IndexInv
  <2> QED BY <1>1, <2>1
<1>4. ASSUME NEW r \in Reader PROVE Serves(r)' /\ (holder' = r <=> reader'[r].at = "tip")
  <2>1. Serves(r) /\ (holder = r <=> reader[r].at = "tip")
    BY DEF IndexInv
  <2>2. Serves(r)'
    BY <1>1, <1>2, <1>3, <2>1, Untouched
  <2>3. holder # r /\ holder' # r
    BY <1>1 DEF Explorer!ExplorerAssumption
  <2> QED BY <1>2, <2>1, <2>2, <2>3
<1>5. NotAfter(indexer'.blocks, chain') /\ NotAfter(index'.cursor, indexer'.blocks)
  <2>1. NotAfter(indexer.blocks, chain) /\ NotAfter(index.cursor, indexer.blocks)
    BY <1>1 DEF IndexInv
  <2> QED BY <2>1, <1>2, <1>3
<1> QED BY <1>1, <1>2, <1>3, <1>4, <1>5 DEF IndexInv

\* The index becomes that of the chain which the indexer has read, and no
\* reader that found the index at the tip is led back.
LEMMA SyncCommitKeeps ==
    ASSUME Explorer!ExplorerAssumption, IndexInv, Explorer!SyncCommit
    PROVE  IndexInv'
<1>1. /\ indexer' = [indexer EXCEPT !.at = "metrics"] /\ indexer.at = "commit"
      /\ index' = Explorer!Sync(index, indexer.blocks)
      /\ walk' = [r \in Reader |-> IF index' = index THEN walk[r] ELSE Explorer!NoWalk]
  BY DEF Explorer!SyncCommit, Explorer!IndexerAt
<1>2. holder' = holder /\ chain' = chain /\ reader' = reader /\ seen' = seen /\ faults' = faults
  BY DEF Explorer!SyncCommit
<1>3. indexer'.at = "metrics" /\ indexer'.blocks = indexer.blocks /\ indexer' = [at |-> indexer'.at, blocks |-> indexer'.blocks]
  <2>1. indexer = [at |-> indexer.at, blocks |-> indexer.blocks]
    BY DEF IndexInv
  <2> QED BY <1>1, <2>1
<1>4. /\ index.cursor \in Explorer!Chain /\ indexer.blocks \in Explorer!Chain /\ NotAfter(indexer.blocks, chain)
      /\ index = Explorer!IndexOf(index.cursor) /\ holder = "indexer"
  BY <1>1 DEF IndexInv
<1>5. index' = Explorer!IndexOf(indexer.blocks)
  <2>1. Fine(index.cursor) /\ Fine(indexer.blocks)
    BY <1>4, ChainIsFine
  <2>2. Explorer!Sync(Explorer!IndexOf(index.cursor), indexer.blocks) = Explorer!IndexOf(indexer.blocks)
    BY <2>1, SyncIsRight
  <2> QED BY <1>1, <1>4, <2>2
<1>6. index'.cursor = indexer.blocks
  BY <1>5 DEF Explorer!IndexOf
<1>7. ASSUME NEW r \in Reader PROVE Serves(r)' /\ (holder' = r <=> reader'[r].at = "tip")
  <2>1. Serves(r) /\ (holder = r <=> reader[r].at = "tip")
    BY DEF IndexInv
  <2>2. holder # r /\ reader[r].at # "tip"
    BY <1>4, <2>1 DEF Explorer!ExplorerAssumption
  <2>3. CASE index' = index
    <3>1. walk'[r] = walk[r]
      BY <1>1, <2>3
    <3>2. ~(indexer'.at \in {"open", "commit"})
      BY <1>3
    <3>3. Serves(r)'
      BY <1>2, <2>1, <2>3, <3>1, <3>2, Untouched
    <3> QED BY <1>2, <2>1, <3>3
  <2>4. CASE index' # index
    <3>1. walk'[r] = Explorer!NoWalk
      BY <1>1, <2>4
    <3>2. walk'[r] = [items |-> walk'[r].items, steady |-> walk'[r].steady] /\ ~walk'[r].steady
      BY <3>1 DEF Explorer!NoWalk
    <3>3. indexer'.at \notin {"open", "commit"}
      BY <1>3
    <3>4. reader[r].at = "read" /\ ~reader[r].refused => index'.cursor \in seen'[r]
      BY <1>1, <1>2, <1>6, <2>1 DEF Serves
    <3>5. Serves(r)'
      BY <1>2, <2>1, <2>2, <3>1, <3>2, <3>3, <3>4 DEF Serves
    <3> QED BY <1>2, <2>1, <3>5
  <2> QED BY <2>3, <2>4
<1>8. (index = Explorer!IndexOf(index.cursor))' /\ NotAfter(index'.cursor, chain') /\ index'.cursor \in Explorer!Chain
  BY <1>2, <1>4, <1>5, <1>6
<1>9. DOMAIN walk' = Reader
  BY <1>1
<1> QED BY <1>1, <1>2, <1>3, <1>4, <1>7, <1>8, <1>9 DEF IndexInv

\* It closes explorer.db, after an error too, and a restart closes it as well.
LEMMA SyncEndKeeps ==
    ASSUME Explorer!ExplorerAssumption, IndexInv,
           Explorer!SyncStatus \/ Explorer!SyncError \/ Explorer!RecordSyncFailure
    PROVE  IndexInv'
<1>1. index' = index /\ chain' = chain /\ reader' = reader /\ seen' = seen /\ walk' = walk
  BY DEF Explorer!SyncStatus, Explorer!SyncError, Explorer!RecordSyncFailure
<1>2. faults' \in 0..MaxFaults
  <2>1. faults \in 0..MaxFaults /\ MaxFaults \in Nat
    BY DEF IndexInv, Explorer!ExplorerAssumption
  <2> QED BY <2>1 DEF Explorer!SyncStatus, Explorer!SyncError, Explorer!RecordSyncFailure
<1>3. << >> \in Explorer!Chain => indexer'.blocks \in Explorer!Chain
  <2>1. indexer = [at |-> indexer.at, blocks |-> indexer.blocks] /\ indexer.blocks \in Explorer!Chain
    BY DEF IndexInv
  <2> QED BY <2>1 DEF Explorer!SyncStatus, Explorer!SyncError, Explorer!RecordSyncFailure, Explorer!IndexerAt
<1>4. indexer'.at \in {"wait", "failed"} /\ indexer' = [at |-> indexer'.at, blocks |-> indexer'.blocks]
  <2>1. indexer = [at |-> indexer.at, blocks |-> indexer.blocks]
    BY DEF IndexInv
  <2> QED BY <2>1 DEF Explorer!SyncStatus, Explorer!SyncError, Explorer!RecordSyncFailure, Explorer!IndexerAt
<1>5. holder' = None /\ (holder = "indexer" \/ holder = None)
  BY DEF Explorer!SyncStatus, Explorer!SyncError, Explorer!RecordSyncFailure, IndexInv
<1>6. ASSUME NEW r \in Reader PROVE Serves(r)' /\ (holder' = r <=> reader'[r].at = "tip")
  <2>1. Serves(r) /\ (holder = r <=> reader[r].at = "tip")
    BY DEF IndexInv
  <2>2. ~(indexer'.at \in {"open", "commit"})
    BY <1>4
  <2>3. Serves(r)'
    BY <1>1, <2>1, <2>2, Untouched
  <2>4. holder # r /\ holder' # r
    BY <1>5 DEF Explorer!ExplorerAssumption
  <2> QED BY <1>1, <2>1, <2>3, <2>4
<1>7. holder' # "indexer"
  BY <1>5 DEF Explorer!ExplorerAssumption
<1>8. indexer'.blocks \in Explorer!Chain
  BY <1>3, GenesisIsChain
<1> QED BY <1>1, <1>2, <1>4, <1>6, <1>7, <1>8 DEF IndexInv

LEMMA CrashKeeps ==
    ASSUME Explorer!ExplorerAssumption, IndexInv, Explorer!Crash
    PROVE  IndexInv'
<1>1. index' = index /\ chain' = chain /\ holder' = None /\ indexer' = [at |-> "wait", blocks |-> << >>]
  BY DEF Explorer!Crash
<1>2. reader' = [r \in Reader |-> Explorer!Idle] /\ seen' = [r \in Reader |-> {}] /\ walk' = [r \in Reader |-> Explorer!NoWalk]
  BY DEF Explorer!Crash
<1>3. faults' \in 0..MaxFaults
  <2>1. faults \in 0..MaxFaults /\ MaxFaults \in Nat
    BY DEF IndexInv, Explorer!ExplorerAssumption
  <2> QED BY <2>1 DEF Explorer!Crash
<1>4. ASSUME NEW r \in Reader PROVE Serves(r)' /\ holder' # r /\ reader'[r].at # "tip"
  <2>1. reader'[r] = Explorer!Idle /\ walk'[r] = Explorer!NoWalk /\ seen'[r] = {}
    BY <1>2
  <2>2. Serves(r)'
    BY <2>1 DEF Serves, Explorer!Idle, Explorer!NoWalk
  <2>3. holder' # r
    BY <1>1 DEF Explorer!ExplorerAssumption
  <2>4. reader'[r].at = "idle"
    BY <2>1 DEF Explorer!Idle
  <2> QED BY <2>2, <2>3, <2>4
<1>5. indexer'.at = "wait" /\ indexer'.blocks = << >> /\ indexer' = [at |-> indexer'.at, blocks |-> indexer'.blocks]
  BY <1>1
<1>6. holder' # "indexer"
  BY <1>1 DEF Explorer!ExplorerAssumption
<1>7. DOMAIN reader' = Reader /\ DOMAIN seen' = Reader /\ DOMAIN walk' = Reader
  BY <1>2
<1> QED BY <1>1, <1>3, <1>4, <1>5, <1>6, <1>7, GenesisIsChain DEF IndexInv

\* The steps of one reader: what it leaves alone.
LEMMA ReaderStep ==
    ASSUME Explorer!ExplorerAssumption, IndexInv, NEW r \in Reader,
           index' = index, chain' = chain, indexer' = indexer, faults' = faults,
           DOMAIN reader' = Reader, DOMAIN seen' = Reader, DOMAIN walk' = Reader,
           \A s \in Reader \ {r} : reader'[s] = reader[s] /\ seen'[s] = seen[s] /\ walk'[s] = walk[s],
           holder' = holder \/ (holder = None /\ holder' = r) \/ (holder = r /\ holder' = None),
           holder' = r <=> reader'[r].at = "tip", Serves(r)'
    PROVE  IndexInv'
<1>1. None \notin Reader /\ "indexer" \notin Reader /\ None # "indexer"
  BY DEF Explorer!ExplorerAssumption
<1>2. holder' = "indexer" <=> holder = "indexer"
  BY <1>1
<1>3. ASSUME NEW s \in Reader PROVE Serves(s)' /\ (holder' = s <=> reader'[s].at = "tip")
  <2>1. CASE s = r
    BY <2>1
  <2>2. CASE s # r
    <3>1. Serves(s) /\ (holder = s <=> reader[s].at = "tip")
      BY DEF IndexInv
    <3>2. Serves(s)'
      BY <2>2, <3>1, Untouched
    <3>3. holder' = s <=> holder = s
      BY <1>1, <2>2
    <3>4. reader'[s] = reader[s]
      BY <2>2
    <3> QED BY <3>1, <3>2, <3>3, <3>4
  <2> QED BY <2>1, <2>2
<1> QED BY <1>2, <1>3 DEF IndexInv

\* A client asks.
LEMMA RequestKeeps ==
    ASSUME Explorer!ExplorerAssumption, IndexInv, NEW r \in Reader, Explorer!Request(r)
    PROVE  IndexInv'
<1>1. /\ reader[r].at = "idle" /\ index' = index /\ chain' = chain /\ indexer' = indexer /\ faults' = faults
      /\ holder' = holder /\ seen' = [seen EXCEPT ![r] = {chain}] /\ walk' = [walk EXCEPT ![r].steady = TRUE]
  BY DEF Explorer!Request
<1>0. PICK q \in Queries : \E k \in Explorer!Keys(q) :
        reader' = [reader EXCEPT ![r] = [Explorer!Idle EXCEPT !.at = "status", !.query = q, !.key = k]]
  BY DEF Explorer!Request
<1>2. PICK k \in Explorer!Keys(q) :
        reader' = [reader EXCEPT ![r] = [Explorer!Idle EXCEPT !.at = "status", !.query = q, !.key = k]]
  BY <1>0
<1>3. DOMAIN reader = Reader /\ DOMAIN seen = Reader /\ DOMAIN walk = Reader /\ Serves(r)
         /\ (holder = r <=> reader[r].at = "tip") /\ chain \in Explorer!Chain
  BY DEF IndexInv
<1>4. walk[r] = [items |-> walk[r].items, steady |-> walk[r].steady] /\ walk[r].items = << >>
  BY <1>1, <1>3 DEF Serves, Explorer!NoWalk
<1>5. walk'[r] = [items |-> walk[r].items, steady |-> TRUE]
  <2>1. walk'[r] = [walk[r] EXCEPT !.steady = TRUE]
    BY <1>1, <1>3
  <2> QED BY <1>4, <2>1
<1>6. reader'[r] = [at |-> "status", query |-> q, key |-> k, cursor |-> << >>, tip |-> << >>, refused |-> FALSE, answer |-> None]
  BY <1>2, <1>3 DEF Explorer!Idle
<1>7. q = "events" => k = 0
  BY DEF Explorer!Keys
<1>8. index = Explorer!IndexOf(index.cursor) /\ index.cursor \in Explorer!Chain
  BY DEF IndexInv
<1>9. Len(Explorer!History(index.events)) \in Nat /\ ItemsTo(0) = << >>
  <2>1. IsFiniteSet(index.events)
    <3>1. IsFiniteSet(Explorer!IndexOf(index.cursor).events)
      BY <1>8, ChainIsFine, EventsAreFinite
    <3> QED BY <1>8, <3>1
  <2>2. PICK S : Explorer!History(index.events) \in Seq(S)
    BY <2>1, HistoryIsSeq
  <2> QED BY <2>2 DEF ItemsTo
<1>10. Serves(r)'
  <2>1. seen'[r] = {chain}
    BY <1>1, <1>3
  <2>2. q = "events" => k <= Len(Explorer!History(index'.events)) /\ k \in Nat /\ walk'[r].items = ItemsTo(k)'
    <3>1. ItemsTo(0)' = << >> /\ Len(Explorer!History(index'.events)) \in Nat
      BY <1>1, <1>9 DEF ItemsTo
    <3>2. walk'[r].items = << >>
      BY <1>4, <1>5
    <3>3. ASSUME q = "events"
          PROVE  k = 0
      BY <1>7, <3>3
    <3> QED BY <3>1, <3>2, <3>3
  <2>3. /\ reader'[r].at = "status" /\ reader'[r].query = q /\ reader'[r].key = k
        /\ reader'[r] = [at |-> reader'[r].at, query |-> reader'[r].query, key |-> reader'[r].key,
                         cursor |-> reader'[r].cursor, tip |-> reader'[r].tip,
                         refused |-> reader'[r].refused, answer |-> reader'[r].answer]
    BY <1>6
  <2>4. walk'[r] = [items |-> walk'[r].items, steady |-> walk'[r].steady]
    BY <1>5
  <2>5. chain' \in seen'[r] /\ seen'[r] \subseteq Explorer!Chain
    BY <1>1, <1>3, <2>1
  <2> QED BY <2>2, <2>3, <2>4, <2>5 DEF Serves
<1>11. \A s \in Reader \ {r} : reader'[s] = reader[s] /\ seen'[s] = seen[s] /\ walk'[s] = walk[s]
  BY <1>1, <1>2, <1>3
<1>12. DOMAIN reader' = Reader /\ DOMAIN seen' = Reader /\ DOMAIN walk' = Reader
  BY <1>1, <1>2, <1>3
<1>13. holder' = r <=> reader'[r].at = "tip"
  BY <1>1, <1>3, <1>6
<1> QED BY <1>1, <1>10, <1>11, <1>12, <1>13, ReaderStep

\* A handler opens explorer.db and reads the cursor.
LEMMA CursorKeeps ==
    ASSUME Explorer!ExplorerAssumption, IndexInv, NEW r \in Reader, Explorer!StatusCursor(r)
    PROVE  IndexInv'
<1>1. /\ reader[r].at = "status" /\ index' = index /\ chain' = chain /\ indexer' = indexer /\ faults' = faults
      /\ holder = None /\ holder' = r /\ seen' = seen /\ walk' = walk
      /\ reader' = [reader EXCEPT ![r].at = "tip", ![r].cursor = index.cursor]
  BY DEF Explorer!StatusCursor
<1>2. DOMAIN reader = Reader /\ DOMAIN seen = Reader /\ DOMAIN walk = Reader /\ Serves(r)
  BY DEF IndexInv
<1>3. /\ reader'[r] = [at |-> "tip", query |-> reader[r].query, key |-> reader[r].key, cursor |-> index.cursor,
                       tip |-> reader[r].tip, refused |-> reader[r].refused, answer |-> reader[r].answer]
  <2>1. reader[r] = [at |-> reader[r].at, query |-> reader[r].query, key |-> reader[r].key, cursor |-> reader[r].cursor,
                     tip |-> reader[r].tip, refused |-> reader[r].refused, answer |-> reader[r].answer]
    BY <1>2 DEF Serves
  <2>2. reader'[r] = [reader[r] EXCEPT !.at = "tip", !.cursor = index.cursor]
    BY <1>1, <1>2
  <2> QED BY <2>1, <2>2
<1>4. Serves(r)'
  BY <1>1, <1>2, <1>3 DEF Serves, ItemsTo
<1>5. \A s \in Reader \ {r} : reader'[s] = reader[s] /\ seen'[s] = seen[s] /\ walk'[s] = walk[s]
  BY <1>1, <1>2
<1>6. DOMAIN reader' = Reader /\ DOMAIN seen' = Reader /\ DOMAIN walk' = Reader
  BY <1>1, <1>2
<1>7. holder' = r <=> reader'[r].at = "tip"
  BY <1>1, <1>3
<1> QED BY <1>1, <1>4, <1>5, <1>6, <1>7, ReaderStep

\* It reads the tip: when the cursor is there, no older chain is on its way into
\* the index.
LEMMA TipKeeps ==
    ASSUME Explorer!ExplorerAssumption, IndexInv, NEW r \in Reader, Explorer!StatusTip(r)
    PROVE  IndexInv'
<1> DEFINE q == reader[r]
           ready == Explorer!Ready(q.cursor, chain)
           ends == q.query = "status" \/ (q.query # "stats" /\ ~ready)
<1>1. /\ q.at = "tip" /\ index' = index /\ chain' = chain /\ indexer' = indexer /\ faults' = faults
      /\ holder' = None /\ seen' = seen /\ walk' = walk
      /\ reader' = [reader EXCEPT ![r].tip = chain, ![r].at = IF ends THEN "done" ELSE "read", ![r].refused = ~ready]
  BY DEF Explorer!StatusTip
<1>2. DOMAIN reader = Reader /\ DOMAIN seen = Reader /\ DOMAIN walk = Reader /\ Serves(r) /\ holder = r
  BY <1>1 DEF IndexInv
<1>3. reader'[r] = [at |-> IF ends THEN "done" ELSE "read", query |-> q.query, key |-> q.key, cursor |-> q.cursor,
                   tip |-> chain, refused |-> ~ready, answer |-> q.answer]
  <2>1. q = [at |-> q.at, query |-> q.query, key |-> q.key, cursor |-> q.cursor,
             tip |-> q.tip, refused |-> q.refused, answer |-> q.answer]
    BY <1>2 DEF Serves
  <2>2. reader'[r] = [q EXCEPT !.tip = chain, !.at = IF ends THEN "done" ELSE "read", !.refused = ~ready]
    BY <1>1, <1>2
  <2> HIDE DEF q, ready, ends
  <2> QED BY <2>1, <2>2
<1>4. ready => index.cursor \in seen[r] /\ (indexer.at \in {"open", "commit"} => indexer.blocks \in seen[r])
  <2> SUFFICES ASSUME ready
               PROVE  index.cursor \in seen[r] /\ (indexer.at \in {"open", "commit"} => indexer.blocks \in seen[r])
    OBVIOUS
  <2>1. index.cursor = chain /\ chain \in seen[r]
    BY <1>1, <1>2 DEF Serves, Explorer!Ready
  <2>2. ASSUME indexer.at \in {"open", "commit"} PROVE indexer.blocks \in seen[r]
    <3>1. NotAfter(indexer.blocks, chain) /\ NotAfter(index.cursor, indexer.blocks)
      BY <2>2 DEF IndexInv
    <3>2. indexer.blocks \in Explorer!Chain /\ chain \in Explorer!Chain
      BY DEF IndexInv
    <3>3. indexer.blocks = chain
      BY <2>1, <3>1, <3>2, NotAfterIs
    <3> QED BY <2>1, <3>3
  <2> QED BY <2>1, <2>2
<1>5. Serves(r)'
  <2>1. /\ reader'[r].query = q.query /\ reader'[r].key = q.key /\ reader'[r].refused = ~ready
        /\ reader'[r].at = IF ends THEN "done" ELSE "read"
        /\ reader'[r] = [at |-> reader'[r].at, query |-> reader'[r].query, key |-> reader'[r].key,
                         cursor |-> reader'[r].cursor, tip |-> reader'[r].tip,
                         refused |-> reader'[r].refused, answer |-> reader'[r].answer]
    BY <1>3
  <2>2. reader'[r].at = "done" /\ ~reader'[r].refused => reader'[r].query = "status"
    BY <2>1
  <2>3. reader'[r].at = "read" /\ reader'[r].refused => reader'[r].query = "stats"
    BY <2>1
  <2>4. reader'[r].at \in {"read", "done"}
    BY <2>1
  <2> HIDE DEF ready, ends
  <2> QED BY <1>1, <1>2, <1>4, <2>1, <2>2, <2>3, <2>4 DEF Serves, ItemsTo
<1>6. \A s \in Reader \ {r} : reader'[s] = reader[s] /\ seen'[s] = seen[s] /\ walk'[s] = walk[s]
  BY <1>1, <1>2
<1>7. DOMAIN reader' = Reader /\ DOMAIN seen' = Reader /\ DOMAIN walk' = Reader
  BY <1>1, <1>2
<1>8. holder' # r /\ reader'[r].at # "tip"
  <2>1. holder' # r
    BY <1>1 DEF Explorer!ExplorerAssumption
  <2>2. reader'[r].at # "tip"
    BY <1>3
  <2> QED BY <2>1, <2>2
<1> QED BY <1>1, <1>2, <1>5, <1>6, <1>7, <1>8, ReaderStep

\* It reads the answer.
LEMMA ReadKeeps ==
    ASSUME Explorer!ExplorerAssumption, IndexInv, NEW r \in Reader, Explorer!Read(r)
    PROVE  IndexInv'
<1> DEFINE q == reader[r]
           answer == Explorer!Lookup(index, q)
<1>1. /\ q.at = "read" /\ index' = index /\ chain' = chain /\ indexer' = indexer /\ faults' = faults
      /\ holder = None /\ holder' = holder /\ seen' = seen
      /\ reader' = [reader EXCEPT ![r].at = "done", ![r].answer = answer]
      /\ walk' = IF q.query # "events" THEN walk ELSE [walk EXCEPT ![r].items = @ \o answer.items]
  BY DEF Explorer!Read
<1>2. DOMAIN reader = Reader /\ DOMAIN seen = Reader /\ DOMAIN walk = Reader /\ Serves(r)
  BY DEF IndexInv
<1>3. reader'[r] = [at |-> "done", query |-> q.query, key |-> q.key, cursor |-> q.cursor,
                   tip |-> q.tip, refused |-> q.refused, answer |-> answer]
  <2>1. q = [at |-> q.at, query |-> q.query, key |-> q.key, cursor |-> q.cursor,
             tip |-> q.tip, refused |-> q.refused, answer |-> q.answer]
    BY <1>2 DEF Serves
  <2>2. reader'[r] = [q EXCEPT !.at = "done", !.answer = answer]
    BY <1>1, <1>2
  <2> HIDE DEF q, answer
  <2> QED BY <2>1, <2>2
<1>4. /\ reader'[r].at = "done" /\ reader'[r].query = q.query /\ reader'[r].key = q.key
      /\ reader'[r].refused = q.refused /\ reader'[r].answer = answer
      /\ reader'[r] = [at |-> reader'[r].at, query |-> reader'[r].query, key |-> reader'[r].key,
                       cursor |-> reader'[r].cursor, tip |-> reader'[r].tip,
                       refused |-> reader'[r].refused, answer |-> reader'[r].answer]
  BY <1>3
<1>5. ~q.refused => \E c \in seen[r] : answer = Explorer!Lookup(Explorer!IndexOf(c), reader'[r])
  <2>1. ~q.refused => index.cursor \in seen[r]
    BY <1>1, <1>2 DEF Serves
  <2>2. index = Explorer!IndexOf(index.cursor)
    BY DEF IndexInv
  <2>3. Explorer!Lookup(index, q) = Explorer!Lookup(index, reader'[r])
    BY <1>4, SameQuestion
  <2> QED BY <2>1, <2>2, <2>3
<1>6. q.query = "events" => answer = Explorer!Page(index.events, q.key)
  BY DEF Explorer!Lookup
<1> HIDE DEF answer
<1>7. walk'[r] = [items |-> walk'[r].items, steady |-> walk'[r].steady] /\ walk'[r].steady = walk[r].steady
         /\ (q.query = "events" => walk'[r].items = walk[r].items \o answer.items)
  <2>1. walk[r] = [items |-> walk[r].items, steady |-> walk[r].steady]
    BY <1>2 DEF Serves
  <2>2. CASE q.query # "events"
    BY <1>1, <2>1, <2>2
  <2>3. CASE q.query = "events"
    <3>1. walk'[r] = [walk[r] EXCEPT !.items = walk[r].items \o answer.items]
      BY <1>1, <1>2, <2>3
    <3> QED BY <2>1, <3>1
  <2> QED BY <2>2, <2>3
<1>8. ASSUME q.query = "events", walk[r].steady
      PROVE  q.key <= Len(Explorer!History(index.events)) /\ walk'[r].items = ItemsTo(q.key + Len(answer.items))
  <2>1. q.key \in Nat /\ q.key <= Len(Explorer!History(index.events)) /\ walk[r].items = ItemsTo(q.key)
    BY <1>1, <1>2, <1>8 DEF Serves
  <2>2. IsFiniteSet(index.events)
    <3>1. index = Explorer!IndexOf(index.cursor) /\ index.cursor \in Explorer!Chain
      BY DEF IndexInv
    <3>2. IsFiniteSet(Explorer!IndexOf(index.cursor).events)
      BY <3>1, ChainIsFine, EventsAreFinite
    <3> QED BY <3>1, <3>2
  <2>3. ItemsTo(q.key) \o Explorer!Page(index.events, q.key).items
          = ItemsTo(q.key + Len(Explorer!Page(index.events, q.key).items))
    BY <2>1, <2>2, PageIs DEF ItemsTo
  <2> QED BY <1>6, <1>7, <1>8, <2>1, <2>3
<1>9. Serves(r)'
  <2>1. ASSUME q.query = "events", walk[r].steady
        PROVE  (walk[r].items = ItemsTo(reader[r].key + Len(reader[r].answer.items)))'
    BY <1>1, <1>4, <1>8, <2>1 DEF ItemsTo
  <2>2. q.query = "events" => q.key \in Nat
    BY <1>1, <1>2 DEF Serves
  <2>3. seen'[r] \subseteq Explorer!Chain
    BY <1>1, <1>2 DEF Serves
  <2> HIDE DEF q
  <2> QED BY <1>1, <1>4, <1>5, <1>6, <1>7, <1>8, <2>1, <2>2, <2>3 DEF Serves
<1>10. \A s \in Reader \ {r} : reader'[s] = reader[s] /\ seen'[s] = seen[s] /\ walk'[s] = walk[s]
  BY <1>1, <1>2
<1>11. DOMAIN reader' = Reader /\ DOMAIN seen' = Reader /\ DOMAIN walk' = Reader
  BY <1>1, <1>2
<1>12. holder' # r /\ reader'[r].at # "tip"
  <2>1. holder' # r
    BY <1>1 DEF Explorer!ExplorerAssumption
  <2> QED BY <2>1, <1>4
<1> QED BY <1>1, <1>9, <1>10, <1>11, <1>12, ReaderStep

\* The client asks for the next page.
LEMMA FollowKeeps ==
    ASSUME Explorer!ExplorerAssumption, IndexInv, NEW r \in Reader, Explorer!Follow(r)
    PROVE  IndexInv'
<1> DEFINE q == reader[r]
           next == Explorer!NextOffset(q.answer, q.key)
<1>1. /\ q.at = "done" /\ q.query = "events" /\ ~q.refused /\ next # None
      /\ index' = index /\ chain' = chain /\ indexer' = indexer /\ faults' = faults
      /\ holder' = holder /\ seen' = [seen EXCEPT ![r] = {chain}] /\ walk' = walk
      /\ reader' = [reader EXCEPT ![r] = [Explorer!Idle EXCEPT !.at = "status", !.query = "events", !.key = next]]
  BY DEF Explorer!Follow
<1>2. DOMAIN reader = Reader /\ DOMAIN seen = Reader /\ DOMAIN walk = Reader /\ Serves(r)
         /\ (holder = r <=> reader[r].at = "tip") /\ chain \in Explorer!Chain
  BY DEF IndexInv
<1>3. reader'[r] = [at |-> "status", query |-> "events", key |-> next, cursor |-> << >>, tip |-> << >>,
                   refused |-> FALSE, answer |-> None]
  BY <1>1, <1>2 DEF Explorer!Idle
<1>4. q.key \in Nat /\ next = q.key + PageSize /\ q.key + Len(q.answer.items) < q.answer.total /\ next \in Nat
  <2>1. q.key \in Nat
    BY <1>1, <1>2 DEF Serves
  <2>2. PageSize \in Nat
    BY DEF Explorer!ExplorerAssumption
  <2>3. q.key + Len(q.answer.items) < q.answer.total /\ next = q.key + PageSize
    BY <1>1 DEF Explorer!NextOffset
  <2> QED BY <2>1, <2>2, <2>3
<1>5. ASSUME walk[r].steady
      PROVE  next <= Len(Explorer!History(index.events)) /\ walk[r].items = ItemsTo(next)
  <2>1. /\ q.answer = Explorer!Page(index.events, q.key) /\ q.key <= Len(Explorer!History(index.events))
        /\ walk[r].items = ItemsTo(q.key + Len(q.answer.items))
    BY <1>1, <1>2, <1>5 DEF Serves
  <2>2. IsFiniteSet(index.events)
    <3>1. index = Explorer!IndexOf(index.cursor) /\ index.cursor \in Explorer!Chain
      BY DEF IndexInv
    <3>2. IsFiniteSet(Explorer!IndexOf(index.cursor).events)
      BY <3>1, ChainIsFine, EventsAreFinite
    <3> QED BY <3>1, <3>2
  <2> DEFINE p == Explorer!Page(index.events, q.key)
             n == Len(Explorer!History(index.events))
  <2>3. /\ p.total = n /\ Len(p.items) \in Nat /\ n \in Nat /\ q.key + Len(p.items) <= n
        /\ q.key + Len(p.items) < n => Len(p.items) = PageSize
    BY <1>4, <2>1, <2>2, PageIs
  <2>4. q.key + Len(p.items) < n
    BY <1>4, <2>1, <2>3
  <2>5. q.key + Len(p.items) = next
    BY <1>4, <2>3, <2>4
  <2> QED BY <2>1, <2>3, <2>5
<1>6. Serves(r)'
  <2>1. /\ reader'[r].at = "status" /\ reader'[r].query = "events" /\ reader'[r].key = next
        /\ reader'[r] = [at |-> reader'[r].at, query |-> reader'[r].query, key |-> reader'[r].key,
                         cursor |-> reader'[r].cursor, tip |-> reader'[r].tip,
                         refused |-> reader'[r].refused, answer |-> reader'[r].answer]
    BY <1>3
  <2>2. seen'[r] = {chain}
    BY <1>1, <1>2
  <2>3. chain' \in seen'[r] /\ seen'[r] \subseteq Explorer!Chain
    BY <1>1, <1>2, <2>2
  <2>4. walk'[r] = [items |-> walk'[r].items, steady |-> walk'[r].steady]
    BY <1>1, <1>2 DEF Serves
  <2>5. ASSUME walk'[r].steady
        PROVE  /\ reader'[r].key <= Len(Explorer!History(index'.events))
               /\ walk'[r].items = SubSeq(Explorer!History(index'.events), 1, reader'[r].key)
    <3>1. walk[r].steady
      BY <1>1, <2>5
    <3>2. next <= Len(Explorer!History(index.events)) /\ walk[r].items = SubSeq(Explorer!History(index.events), 1, next)
      BY <3>1, <1>5 DEF ItemsTo
    <3> HIDE DEF next
    <3> QED BY <1>1, <2>1, <3>2
  <2> HIDE DEF next, q
  <2> QED BY <1>4, <2>1, <2>3, <2>4, <2>5 DEF Serves, ItemsTo
<1>7. \A s \in Reader \ {r} : reader'[s] = reader[s] /\ seen'[s] = seen[s] /\ walk'[s] = walk[s]
  BY <1>1, <1>2
<1>8. DOMAIN reader' = Reader /\ DOMAIN seen' = Reader /\ DOMAIN walk' = Reader
  BY <1>1, <1>2
<1>9. holder' = r <=> reader'[r].at = "tip"
  BY <1>1, <1>2, <1>3
<1> QED BY <1>1, <1>6, <1>7, <1>8, <1>9, ReaderStep

\* The client has what it wanted.
LEMMA LeaveKeeps ==
    ASSUME Explorer!ExplorerAssumption, IndexInv, NEW r \in Reader, Explorer!Leave(r)
    PROVE  IndexInv'
<1>1. /\ reader[r].at = "done" /\ index' = index /\ chain' = chain /\ indexer' = indexer /\ faults' = faults
      /\ holder' = holder /\ seen' = [seen EXCEPT ![r] = {}] /\ walk' = [walk EXCEPT ![r] = Explorer!NoWalk]
      /\ reader' = [reader EXCEPT ![r] = Explorer!Idle]
  BY DEF Explorer!Leave
<1>2. DOMAIN reader = Reader /\ DOMAIN seen = Reader /\ DOMAIN walk = Reader /\ (holder = r <=> reader[r].at = "tip")
  BY DEF IndexInv
<1>3. reader'[r] = Explorer!Idle /\ walk'[r] = Explorer!NoWalk /\ seen'[r] = {}
  BY <1>1, <1>2
<1>4. Serves(r)'
  BY <1>3 DEF Serves, Explorer!Idle, Explorer!NoWalk
<1>5. \A s \in Reader \ {r} : reader'[s] = reader[s] /\ seen'[s] = seen[s] /\ walk'[s] = walk[s]
  BY <1>1, <1>2
<1>6. DOMAIN reader' = Reader /\ DOMAIN seen' = Reader /\ DOMAIN walk' = Reader
  BY <1>1, <1>2
<1>7. reader'[r].at # "tip"
  BY <1>3 DEF Explorer!Idle
<1>8. holder' # r
  BY <1>1, <1>2
<1> QED BY <1>1, <1>4, <1>5, <1>6, <1>7, <1>8, ReaderStep

LEMMA IndexStep ==
    ASSUME Explorer!ExplorerAssumption
    PROVE  IndexInv /\ [Explorer!Next]_(Explorer!vars) => IndexInv'
<1> SUFFICES ASSUME IndexInv, [Explorer!Next]_(Explorer!vars) PROVE IndexInv'
  OBVIOUS
<1>1. CASE UNCHANGED Explorer!vars
  BY <1>1 DEF Explorer!vars, IndexInv, Serves, ItemsTo
<1>2. CASE Explorer!ChainMoves
  BY <1>2, MoveKeeps
<1>3. CASE Explorer!SyncRead
  BY <1>3, SyncReadKeeps
<1>4. CASE Explorer!SyncOpen
  BY <1>4, SyncOpenKeeps
<1>5. CASE Explorer!SyncCommit
  BY <1>5, SyncCommitKeeps
<1>6. CASE Explorer!SyncStatus \/ Explorer!SyncError \/ Explorer!RecordSyncFailure
  BY <1>6, SyncEndKeeps
<1>7. CASE Explorer!Crash
  BY <1>7, CrashKeeps
<1>8. ASSUME NEW r \in Reader,
             \/ Explorer!Request(r) \/ Explorer!StatusCursor(r) \/ Explorer!StatusTip(r)
             \/ Explorer!Read(r) \/ Explorer!Follow(r) \/ Explorer!Leave(r)
      PROVE  IndexInv'
  BY <1>8, RequestKeeps, CursorKeeps, TipKeeps, ReadKeeps, FollowKeeps, LeaveKeeps
<1> QED
  BY <1>1, <1>2, <1>3, <1>4, <1>5, <1>6, <1>7, <1>8 DEF Explorer!Next

\* What the invariant says of the index, of answers and of walks.
LEMMA IndexPromises ==
    ASSUME Explorer!ExplorerAssumption, IndexInv
    PROVE  Explorer!IndexIsTrue
<1>1. Len(index.blocks) <= MaxChainWork
  <2>1. index = Explorer!IndexOf(index.cursor) /\ index.cursor \in Explorer!Chain
    BY DEF IndexInv
  <2>2. PICK c : c = index.cursor /\ c \in Explorer!Chain
    BY <2>1
  <2>3. Len(c) \in Nat /\ Len(c) <= MaxChainWork
    BY <2>2, ChainIsFine DEF Fine
  <2>4. Explorer!IndexOf(c).blocks = [h \in 1..Len(c) |-> Explorer!Block(c, h)]
    BY DEF Explorer!IndexOf
  <2>5. Len(Explorer!IndexOf(c).blocks) = Len(c)
    BY <2>3, <2>4
  <2> QED BY <2>1, <2>2, <2>3, <2>5
<1>2. \A r \in Reader : reader[r].at \in {"idle", "status", "tip", "read", "done"}
  BY DEF IndexInv, Serves
<1>3. Explorer!TypeOK
  BY <1>1, <1>2 DEF Explorer!TypeOK, IndexInv
<1>4. Explorer!IndexIsOfOneChain
  BY DEF Explorer!IndexIsOfOneChain, IndexInv
<1>5. Explorer!AnswerWasCanonical
  BY DEF Explorer!AnswerWasCanonical, IndexInv, Serves
<1>6. ASSUME NEW r \in Reader, reader[r].at = "done", reader[r].query = "events", ~reader[r].refused,
             Explorer!NextOffset(reader[r].answer, reader[r].key) = None, walk[r].steady
      PROVE  walk[r].items = Explorer!History(index.events)
  <2> DEFINE k == reader[r].key
             p == Explorer!Page(index.events, k)
             all == Explorer!History(index.events)
  <2>1. Serves(r) /\ index = Explorer!IndexOf(index.cursor) /\ index.cursor \in Explorer!Chain
    BY DEF IndexInv
  <2>2. k \in Nat /\ reader[r].answer = p /\ k <= Len(all) /\ walk[r].items = SubSeq(all, 1, k + Len(p.items))
    BY <1>6, <2>1 DEF Serves, ItemsTo
  <2>3. IsFiniteSet(index.events)
    <3>1. IsFiniteSet(Explorer!IndexOf(index.cursor).events)
      BY <2>1, ChainIsFine, EventsAreFinite
    <3> QED BY <2>1, <3>1
  <2>4. p.total = Len(all) /\ Len(p.items) \in Nat /\ Len(all) \in Nat /\ k + Len(p.items) <= Len(all)
    BY <2>2, <2>3, PageIs
  <2>5. PICK S : all \in Seq(S)
    BY <2>3, HistoryIsSeq
  <2>6. ~(k + Len(p.items) < p.total)
    <3>1. None \notin Int /\ PageSize \in Nat
      BY DEF Explorer!ExplorerAssumption
    <3>2. k + PageSize # None
      BY <2>2, <3>1
    <3>3. Explorer!NextOffset(p, k) = None
      BY <1>6, <2>2
    <3> HIDE DEF p, k
    <3> QED BY <3>2, <3>3 DEF Explorer!NextOffset
  <2>7. k + Len(p.items) = Len(all)
    <3> HIDE DEF p, k, all
    <3> QED BY <2>2, <2>4, <2>6
  <2>8. SubSeq(all, 1, Len(all)) = all
    <3> HIDE DEF all
    <3> QED BY <2>5
  <2> QED BY <2>2, <2>7, <2>8
<1>7. Explorer!WalkIsComplete
  BY <1>6 DEF Explorer!WalkIsComplete
<1> QED BY <1>3, <1>4, <1>5, <1>7 DEF Explorer!IndexIsTrue

\* The explorer's index, for any chains, readers, page sizes and faults: whatever
\* reorganisations, errors and crashes interrupt the indexer, the index is that
\* of one chain; an answer to a request was right on a chain that was canonical
\* during it, although readiness and the answer are read in two openings of
\* explorer.db; and a walk of the pages over one index reads every entry once.
THEOREM IndexTellsTheTruth ==
    ASSUME Explorer!ExplorerAssumption
    PROVE  Explorer!Spec => [](Explorer!IndexIsTrue /\ IndexIsTrue)
<1>1. Explorer!Init => IndexInv
  BY IndexStart
<1>2. IndexInv /\ [Explorer!Next]_(Explorer!vars) => IndexInv'
  BY IndexStep
<1>3. IndexInv => Explorer!IndexIsTrue /\ IndexIsTrue
  BY IndexPromises DEF IndexIsTrue
<1> QED
  BY <1>1, <1>2, <1>3, PTL DEF Explorer!Spec
=============================================================================
