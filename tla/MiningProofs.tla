--------------------------- MODULE MiningProofs ---------------------------
(***************************************************************************)
(* Theorems about the parts that mine outside block production, which      *)
(* MiningParts brings together, each under the assumption of its module    *)
(* and for every value of its constants: the jobs of the mining service    *)
(* (MiningJobs), the search of the CPU miner (CPUMiner) and the external   *)
(* miner (Indominer).                                                      *)
(***************************************************************************)
EXTENDS Integers, Sequences, FiniteSetTheorems, FunctionTheorems, MiningParts, TLAPS

(***************************************************************************)
(* The jobs of the mining service.                                         *)
(***************************************************************************)

JobType ==
    /\ jobs \in Nat /\ job.id = jobs
    /\ job \in [id : Nat, status : {"idle", "running", "completed", "failed", "cancelled"},
                requested : Nat, mined : Nat, error : BOOLEAN]
    /\ stage \in [Worker -> {"off", "search", "commit", "record", "complete"}]
    /\ left \in [Worker -> Nat] /\ committed \in [Worker -> Nat]

\* The handler that works on the job has this many blocks left.
Serves(w) ==
    /\ stage[w] # "off"
    /\ \A v \in Worker : v # w => stage[v] = "off"
    /\ job.mined + left[w] = job.requested
    /\ stage[w] = "complete" <=> left[w] = 0
    /\ committed[w] = job.mined + (IF stage[w] = "record" THEN 1 ELSE 0)

JobInv ==
    /\ JobType
    /\ job.status = "running" => \E w \in Worker : Serves(w)
    /\ job.status # "running" => \A w \in Worker : stage[w] = "off"
    /\ job.status = "completed" => job.mined = job.requested

\* No job is running when the service starts.
LEMMA JobInit == Jobs!Init => JobInv
  BY SMT DEF Jobs!Init, Jobs!NoJob, JobInv, JobType, Serves

\* The start handler makes its goroutine the only one that works on the job.
LEMMA JobStart ==
    ASSUME MaxRequested \in Nat, JobInv, NEW w \in Worker, NEW n \in 1..MaxRequested, Jobs!Start(w, n)
    PROVE  JobInv'
<1>1. \A v \in Worker : stage[v] = "off"
  BY DEF JobInv, Jobs!Start, Jobs!CanStart
<1>2. JobType'
  BY DEF JobInv, JobType, Jobs!Start, Jobs!Goto
<1>3. Serves(w)'
  BY <1>1 DEF JobInv, JobType, Jobs!Start, Jobs!Goto, Serves
<1> QED
  BY <1>2, <1>3 DEF JobInv, JobType, Jobs!Start

\* Every step of the service keeps the job and its goroutine together.
LEMMA JobStep ==
    ASSUME MaxRequested \in Nat, JobInv, [Jobs!Next]_(Jobs!vars)
    PROVE  JobInv'
<1>0. CASE UNCHANGED Jobs!vars
  BY <1>0 DEF Jobs!vars, JobInv, JobType, Serves
<1> SUFFICES ASSUME NEW w \in Worker,
                    \/ \E n \in 1..MaxRequested : Jobs!Start(w, n)
                    \/ Jobs!SearchFails(w) \/ Jobs!Found(w) \/ Jobs!CommitFails(w)
                    \/ Jobs!Commit(w) \/ Jobs!RecordBlock(w) \/ Jobs!Complete(w)
             PROVE  JobInv'
  BY <1>0 DEF Jobs!Next
<1>1. CASE \E n \in 1..MaxRequested : Jobs!Start(w, n)
  BY <1>1, JobStart
<1> SUFFICES ASSUME stage[w] # "off"
             PROVE  JobInv'
  BY <1>1 DEF Jobs!SearchFails, Jobs!Found, Jobs!CommitFails, Jobs!Commit, Jobs!RecordBlock, Jobs!Complete
<1>2. job.status = "running" /\ Serves(w)
  BY DEF JobInv, Serves
<1>3. CASE Jobs!SearchFails(w)
  BY <1>2, <1>3 DEF JobInv, JobType, Serves, Jobs!SearchFails, Jobs!Finish, Jobs!Goto
<1>4. CASE Jobs!Found(w)
  <2>1. JobType' /\ Serves(w)' /\ job' = job
    BY <1>2, <1>4 DEF JobInv, JobType, Serves, Jobs!Found, Jobs!Goto
  <2> QED
    BY <1>2, <2>1 DEF JobInv
<1>5. CASE Jobs!CommitFails(w)
  <2>1. committed' \in [Worker -> Nat]
    BY <1>5 DEF JobInv, JobType, Jobs!CommitFails
  <2> QED
    BY <1>2, <1>5, <2>1 DEF JobInv, JobType, Serves, Jobs!CommitFails, Jobs!Finish, Jobs!Goto
<1>6. CASE Jobs!Commit(w)
  <2>1. JobType' /\ Serves(w)' /\ job' = job
    BY <1>2, <1>6 DEF JobInv, JobType, Serves, Jobs!Commit, Jobs!Goto
  <2> QED
    BY <1>2, <2>1 DEF JobInv
<1>7. CASE Jobs!RecordBlock(w)
  <2>1. JobType' /\ Serves(w)' /\ job'.status = "running"
    BY <1>2, <1>7 DEF JobInv, JobType, Serves, Jobs!RecordBlock, Jobs!Goto
  <2> QED
    BY <2>1 DEF JobInv
<1>8. CASE Jobs!Complete(w)
  BY <1>2, <1>8 DEF JobInv, JobType, Serves, Jobs!Complete, Jobs!Goto
<1> QED
  BY <1>1, <1>3, <1>4, <1>5, <1>6, <1>7, <1>8

\* The instance counts with the same cardinality.
LEMMA JobsCardinality ==
    ASSUME NEW S
    PROVE  Jobs!Cardinality(S) = Cardinality(S)
  BY DEF Jobs!Cardinality, Cardinality

\* The invariant says who works on a running job and what its status means.
LEMMA JobInvIsEnough ==
    ASSUME JobInv
    PROVE  Jobs!RunningHasOneWorker /\ Jobs!StatusIsTrue
<1>1. CASE job.status = "running"
  <2>1. PICK w \in Worker : Serves(w)
    BY <1>1 DEF JobInv
  <2>2. Jobs!Busy = {w}
    BY <2>1 DEF Serves, Jobs!Busy
  <2>3. Cardinality({w}) = 1
    BY FS_Singleton
  <2> QED
    BY <1>1, <2>1, <2>2, <2>3, JobsCardinality DEF Jobs!RunningHasOneWorker, Jobs!StatusIsTrue, Serves
<1>2. CASE job.status # "running"
  <2>1. Jobs!Busy = {}
    BY <1>2 DEF JobInv, Jobs!Busy
  <2>2. Cardinality({}) = 0
    BY FS_EmptySet
  <2> QED
    BY <1>2, <2>1, <2>2, JobsCardinality DEF Jobs!RunningHasOneWorker, Jobs!StatusIsTrue, JobInv
<1> QED
  BY <1>1, <1>2

\* Only a new start replaces a job that has ended.
LEMMA JobKeepsOutcome ==
    ASSUME JobInv, [Jobs!Next]_(Jobs!vars)
    PROVE  [Jobs!KeepsOutcome]_(Jobs!vars)
<1> SUFFICES ASSUME Jobs!Next, job.status \notin {"idle", "running"}
             PROVE  Jobs!KeepsOutcome
  BY DEF Jobs!KeepsOutcome
<1>1. \A w \in Worker : stage[w] = "off"
  BY DEF JobInv
<1>2. PICK w \in Worker, n \in 1..MaxRequested : Jobs!Start(w, n)
  BY <1>1 DEF Jobs!Next, Jobs!SearchFails, Jobs!Found, Jobs!CommitFails, Jobs!Commit, Jobs!RecordBlock, Jobs!Complete
<1> QED
  BY <1>2 DEF JobInv, JobType, Jobs!Start, Jobs!KeepsOutcome

\* The job manager of the node, for any number of handlers and blocks: a running
\* job has one goroutine that works on it, the status and the number of blocks a
\* client is told are those of the work done, and the outcome of a job stays
\* until the next one starts.
THEOREM JobsAreTrue ==
    ASSUME Jobs!JobsAssumption
    PROVE  Jobs!Spec => Jobs!JobIsTrue /\ JobIsTrue
<1>0. MaxRequested \in Nat
  BY DEF Jobs!JobsAssumption
<1>1. JobInv /\ [Jobs!Next]_(Jobs!vars) => JobInv'
  BY <1>0, JobStep
<1>2. JobInv => Jobs!RunningHasOneWorker /\ Jobs!StatusIsTrue
  BY JobInvIsEnough
<1>3. JobInv /\ [Jobs!Next]_(Jobs!vars) => [Jobs!KeepsOutcome]_(Jobs!vars)
  BY JobKeepsOutcome
<1>4. [Jobs!KeepsOutcome]_(Jobs!vars) => [scenario = "jobs" => Jobs!KeepsOutcome]_(Jobs!vars)
  OBVIOUS
<1> QED
  BY <1>1, <1>2, <1>3, <1>4, JobInit, PTL DEF Jobs!Spec, Jobs!JobIsTrue, JobIsTrue

---------------------------------------------------------------------------
(***************************************************************************)
(* The search of the CPU miner.                                            *)
(***************************************************************************)

\* Of two numbers the larger has the larger multiple, by the factor at least.
LEMMA MulMono == ASSUME NEW x \in Nat, NEW y \in Nat, NEW d \in Nat \ {0}, x < y
  PROVE x * d + d <= y * d
<1>1. PICK k \in Nat : y = x + 1 + k
  <2>1. y - x - 1 \in Nat /\ y = x + 1 + (y - x - 1)
    OBVIOUS
  <2> QED BY <2>1
<1>2. y * d = x * d + d + k * d
  BY <1>1, SMT
<1>3. k * d >= 0
  BY <1>1, SMT
<1> QED BY <1>2, <1>3, SMT

\* What div and mod mean.
LEMMA ModT ==
    ASSUME NEW a \in Nat, NEW d \in Nat \ {0}
    PROVE  a \div d \in Nat /\ a % d \in 0..(d - 1) /\ a = (a \div d) * d + (a % d)
  BY SMT

\* A number has one remainder, ...
LEMMA ModUnique ==
    ASSUME NEW d \in Nat \ {0}, NEW x \in Nat, NEW y \in Nat, NEW r \in 0..(d - 1), NEW s \in 0..(d - 1),
           x * d + r = y * d + s
    PROVE  r = s
<1>1. x * d \in Nat /\ y * d \in Nat
  BY SMT
<1>2. ASSUME x < y
      PROVE  FALSE
  BY <1>1, <1>2, MulMono
<1>3. ASSUME y < x
      PROVE  FALSE
  BY <1>1, <1>3, MulMono
<1>4. x = y
  BY <1>2, <1>3
<1> QED
  BY <1>1, <1>4

\* ... which can be read off any decomposition of it, ...
LEMMA ModOf ==
    ASSUME NEW d \in Nat \ {0}, NEW a \in Nat, NEW x \in Nat, NEW r \in 0..(d - 1), a = x * d + r
    PROVE  a % d = r
<1>1. PICK y \in Nat, s \in 0..(d - 1) : a = y * d + s /\ s = a % d
  BY ModT
<1>2. x * d + r = y * d + s
  BY <1>1
<1>3. r = s
  BY <1>2, ModUnique
<1> QED
  BY <1>1, <1>3

\* ... is a small number itself, ...
LEMMA ModSmall ==
    ASSUME NEW d \in Nat \ {0}, NEW a \in 0..(d - 1)
    PROVE  a % d = a
<1>1. a = 0 * d + a /\ a \in Nat
  OBVIOUS
<1> QED
  BY <1>1, ModOf

\* ... and does not change when the modulus is added.
LEMMA ModAdd ==
    ASSUME NEW d \in Nat \ {0}, NEW a \in Nat
    PROVE  (a + d) % d = a % d
<1>1. PICK x \in Nat, r \in 0..(d - 1) : a = x * d + r
  BY ModT
<1>2. (x + 1) * d = x * d + d /\ x * d \in Nat
  BY SMT
<1>3. a + d = (x + 1) * d + r /\ a + d \in Nat /\ x + 1 \in Nat
  BY <1>1, <1>2
<1>4. (a + d) % d = r
  BY <1>3, ModOf
<1>5. a % d = r
  BY <1>1, ModOf
<1> QED
  BY <1>4, <1>5

\* Two numbers of a lane are the modulus apart.
LEMMA ModNext ==
    ASSUME NEW d \in Nat \ {0}, NEW a \in Nat, NEW b \in Nat, a % d = b % d, a < b
    PROVE  a + d <= b
<1>1. PICK x \in Nat, r \in 0..(d - 1) : a = x * d + r /\ r = a % d
  BY ModT
<1>2. PICK y \in Nat, s \in 0..(d - 1) : b = y * d + s /\ s = b % d
  BY ModT
<1>3. r = s
  BY <1>1, <1>2
<1>4. x * d \in Nat /\ y * d \in Nat
  BY SMT
<1>5. x < y
  <2> SUFFICES ASSUME y <= x
               PROVE  FALSE
    OBVIOUS
  <2>1. CASE y = x
    BY <1>1, <1>2, <1>3, <2>1
  <2>2. CASE y < x
    <3>1. y * d + d <= x * d
      BY <2>2, MulMono
    <3> QED
      BY <1>1, <1>2, <1>3, <1>4, <3>1
  <2> QED
    BY <2>1, <2>2
<1>6. x * d + d <= y * d
  BY <1>5, MulMono
<1> QED
  BY <1>1, <1>2, <1>3, <1>4, <1>6

Thread == Search!Thread
Nonce == Search!Nonce
Solved == solutions \cap tried # {}

SearchType ==
    /\ solutions \subseteq Nonce /\ tried \subseteq Nonce
    /\ at \in [Thread -> {"check", "hash", "exhausted", "offer", "cancel", "ended"}]
    /\ nonce \in [Thread -> Nonce]
    /\ results \in {None} \cup Nonce /\ errs \in 0..Threads
    /\ caller \in [at : {"starting", "waiting", "found", "ended", "cancelled", "returned"}, result : {None} \cup Nonce]
    /\ returned \in {None} \cup [kind : {"block", "exhausted", "cancelled"}, nonce : {None} \cup Nonce]
    /\ cancelled \in BOOLEAN /\ stopped \in BOOLEAN /\ done \in BOOLEAN

\* The threads have gone through their nonces one after the other.
LanesInv ==
    /\ \A t \in Thread : nonce[t] % Threads = t
    /\ \A n \in tried : n <= nonce[n % Threads] /\ (at[n % Threads] \in {"check", "hash"} => n < nonce[n % Threads])
    /\ \A n \in Nonce : n < nonce[n % Threads] => n \in tried

PlacesInv ==
    /\ \A t \in Thread :
          /\ at[t] \in {"offer", "cancel"} => nonce[t] \in solutions /\ nonce[t] \in tried
          /\ at[t] = "exhausted" => Search!Exhausted(nonce[t]) /\ nonce[t] \in tried
          /\ at[t] = "ended" =>
                /\ cancelled \/ Solved \/ (Search!Exhausted(nonce[t]) /\ nonce[t] \in tried)
                /\ cancelled \/ errs > 0 \/ \E u \in Thread : at[u] = "cancel"
    /\ cancelled => stopped \/ Solved

AnswersInv ==
    /\ results # None => results \in solutions /\ (cancelled \/ \E u \in Thread : at[u] = "cancel") /\ Solved
    /\ caller.at = "found" => caller.result \in solutions
    /\ done => Search!AllEnded
    /\ caller.at = "ended" => done
    /\ returned # None => done
    /\ Search!NoErrorIsSolved /\ Search!NothingIsSkipped

SearchInv == SearchType /\ LanesInv /\ PlacesInv /\ AnswersInv

\* What the assumption says of the constants of the search.
LEMMA SearchConstants ==
    ASSUME Search!MinerAssumption
    PROVE  /\ Threads \in Nat \ {0} /\ MaxNonce \in Nat /\ Threads <= MaxNonce
           /\ Thread = 0..(Threads - 1) /\ Nonce = 0..MaxNonce /\ None \notin Nonce
           /\ \A n \in Nonce : n \in Nat /\ n % Threads \in Thread
           /\ None \notin [kind : {"block", "exhausted", "cancelled"}, nonce : {None} \cup Nonce]
<1>1. Threads \in Nat \ {0} /\ MaxNonce \in Nat /\ Threads <= MaxNonce
  BY DEF Search!MinerAssumption
<1>2. Thread = 0..(Threads - 1) /\ Nonce = 0..MaxNonce
  BY DEF Thread, Nonce, Search!Thread, Search!Nonce
<1>3. Nonce \subseteq Nat
  BY <1>1, <1>2
<1>4. None \notin Nonce /\ None \notin [kind : {"block", "exhausted", "cancelled"}, nonce : {None} \cup Nonce]
  BY <1>3 DEF Search!MinerAssumption
<1>5. \A n \in Nonce : n % Threads \in Thread
  BY <1>1, <1>2, <1>3, ModT
<1> QED
  BY <1>1, <1>2, <1>3, <1>4, <1>5

\* Every thread starts at the nonce of its number.
LEMMA SearchStart ==
    ASSUME Search!MinerAssumption, Search!Init
    PROVE  SearchInv
<1>1. /\ Threads \in Nat \ {0} /\ MaxNonce \in Nat /\ Threads <= MaxNonce
      /\ Thread = 0..(Threads - 1) /\ Nonce = 0..MaxNonce
      /\ \A n \in Nonce : n \in Nat /\ n % Threads \in Thread
  BY SearchConstants
<1>2. /\ at = [t \in Thread |-> "check"] /\ nonce = [t \in Thread |-> t] /\ tried = {} /\ solutions \subseteq Nonce
      /\ results = None /\ errs = 0 /\ cancelled = FALSE /\ stopped = FALSE /\ done = FALSE
      /\ caller = [at |-> "starting", result |-> None] /\ returned = None
  BY DEF Search!Init, Search!FirstNonces, Thread, Nonce
<1>3. Thread \subseteq Nonce
  BY <1>1
<1>4. SearchType
  <2>1. caller \in [at : {"starting", "waiting", "found", "ended", "cancelled", "returned"}, result : {None} \cup Nonce]
    BY <1>2
  <2>2. at \in [Thread -> {"check", "hash", "exhausted", "offer", "cancel", "ended"}] /\ nonce \in [Thread -> Nonce]
    BY <1>2, <1>3
  <2>3. errs \in 0..Threads
    BY <1>1, <1>2
  <2> QED
    BY <1>2, <2>1, <2>2, <2>3 DEF SearchType
<1>5. LanesInv
  <2>1. \A t \in Thread : nonce[t] % Threads = t
    BY <1>1, <1>2, ModSmall
  <2>2. ASSUME NEW n \in Nonce, n < nonce[n % Threads]
        PROVE  FALSE
    <3>1. n \in Nat /\ n % Threads \in Thread /\ nonce[n % Threads] = n % Threads
      BY <1>1, <1>2
    <3>2. n < n % Threads /\ n % Threads \in 0..(Threads - 1)
      BY <1>1, <2>2, <3>1
    <3>3. n \in 0..(Threads - 1)
      BY <1>1, <3>1, <3>2
    <3>4. n % Threads = n
      BY <1>1, <3>3, ModSmall
    <3> QED
      BY <3>1, <3>2, <3>4
  <2> QED
    BY <1>2, <2>1, <2>2 DEF LanesInv
<1>6. PlacesInv
  BY <1>2 DEF PlacesInv
<1>7. AnswersInv
  BY <1>2 DEF AnswersInv, Search!NoErrorIsSolved, Search!NothingIsSkipped
<1> QED
  BY <1>4, <1>5, <1>6, <1>7 DEF SearchInv

\* A thread looks at the context and at its nonce.
LEMMA SearchCheck ==
    ASSUME Search!MinerAssumption, SearchInv, NEW t \in Thread, Search!Check(t)
    PROVE  SearchInv'
<1>1. /\ Threads \in Nat \ {0} /\ MaxNonce \in Nat /\ Nonce = 0..MaxNonce
      /\ \A n \in Nonce : n \in Nat /\ n % Threads \in Thread
  BY SearchConstants
<1>2. /\ SearchType /\ LanesInv /\ PlacesInv /\ AnswersInv
  BY DEF SearchInv
<1>3. /\ at[t] = "check" /\ at' = [at EXCEPT ![t] = IF cancelled THEN "ended" ELSE "hash"]
      /\ UNCHANGED <<solutions, nonce, tried, results, errs, cancelled, stopped, done, caller, returned>>
  BY DEF Search!Check, Search!ThreadAt
<1>4. /\ at'[t] = (IF cancelled THEN "ended" ELSE "hash")
      /\ \A u \in Thread \ {t} : at'[u] = at[u]
      /\ at' \in [Thread -> {"check", "hash", "exhausted", "offer", "cancel", "ended"}]
  BY <1>2, <1>3 DEF SearchType
<1>5. SearchType'
  BY <1>2, <1>3, <1>4 DEF SearchType
<1>6. LanesInv'
  <2>1. ASSUME NEW n \in tried
        PROVE  at'[n % Threads] \in {"check", "hash"} => at[n % Threads] \in {"check", "hash"}
    BY <1>1, <1>2, <1>3, <1>4 DEF SearchType
  <2> QED
    BY <1>2, <1>3, <2>1 DEF LanesInv
<1>7. \A u \in Thread : at[u] = "cancel" <=> at'[u] = "cancel"
  BY <1>3, <1>4
<1>8. PlacesInv'
  BY <1>2, <1>3, <1>4, <1>7 DEF PlacesInv, Solved, Search!Exhausted
<1>9. AnswersInv'
  <2>1. ~done
    BY <1>2, <1>3 DEF AnswersInv, Search!AllEnded, Thread
  <2> QED
    BY <1>2, <1>3, <1>7, <2>1 DEF AnswersInv, Solved, Search!NoErrorIsSolved, Search!NothingIsSkipped
<1> QED
  BY <1>5, <1>6, <1>8, <1>9 DEF SearchInv

\* A thread hashes its nonce, which no thread has tried before, and goes on by
\* the number of threads.
LEMMA SearchHash ==
    ASSUME Search!MinerAssumption, SearchInv, NEW t \in Thread, Search!Hash(t)
    PROVE  SearchInv' /\ nonce[t] \notin tried
<1> DEFINE n == nonce[t]
<1>1. /\ Threads \in Nat \ {0} /\ MaxNonce \in Nat /\ Nonce = 0..MaxNonce /\ Threads <= MaxNonce
      /\ \A m \in Nonce : m \in Nat /\ m % Threads \in Thread
  BY SearchConstants
<1>2. /\ SearchType /\ LanesInv /\ PlacesInv /\ AnswersInv
  BY DEF SearchInv
<1>3. at[t] = "hash" /\ n \in Nonce /\ n % Threads = t /\ n \in Nat
  BY <1>1, <1>2 DEF Search!Hash, SearchType, LanesInv
<1>4. n \notin tried
  BY <1>2, <1>3 DEF LanesInv
<1>5. /\ UNCHANGED <<solutions, results, errs, cancelled, stopped, done, caller, returned>>
      /\ tried' = tried \cup {n}
  BY DEF Search!Hash
<1>6. PICK place \in {"offer", "exhausted", "check"}, next \in {n, n + Threads} :
         /\ at' = [at EXCEPT ![t] = place] /\ nonce' = [nonce EXCEPT ![t] = next]
         /\ place = "offer" => n \in solutions
         /\ place = "exhausted" => Search!Exhausted(n)
         /\ IF place = "check" THEN next = n + Threads /\ ~Search!Exhausted(n) ELSE next = n
  <2>1. [nonce EXCEPT ![t] = n] = nonce
    BY <1>2 DEF SearchType
  <2>2. CASE n \in solutions
    BY <2>1, <2>2 DEF Search!Hash, Search!ThreadAt
  <2>3. CASE n \notin solutions /\ Search!Exhausted(n)
    BY <2>1, <2>3 DEF Search!Hash, Search!ThreadAt
  <2>4. CASE n \notin solutions /\ ~Search!Exhausted(n)
    BY <2>4 DEF Search!Hash, Search!ThreadAt
  <2> QED
    BY <2>2, <2>3, <2>4
<1> HIDE DEF n
<1>7. n = nonce[t]
  BY DEF n
<1>8. next \in Nonce /\ next \in Nat /\ n <= next
  BY <1>1, <1>3, <1>6 DEF Search!Exhausted
<1>9. /\ at'[t] = place /\ nonce'[t] = next
      /\ \A u \in Thread \ {t} : at'[u] = at[u] /\ nonce'[u] = nonce[u]
      /\ at' \in [Thread -> {"check", "hash", "exhausted", "offer", "cancel", "ended"}]
      /\ nonce' \in [Thread -> Nonce]
  BY <1>2, <1>6, <1>8 DEF SearchType
<1>10. SearchType'
  BY <1>2, <1>3, <1>5, <1>9 DEF SearchType
<1>11. next % Threads = t
  BY <1>1, <1>3, <1>6, ModAdd
<1>12. tried \subseteq Nonce
  BY <1>2 DEF SearchType
<1>13. LanesInv'
  <2>1. \A u \in Thread : nonce'[u] % Threads = u
    BY <1>2, <1>9, <1>11 DEF LanesInv
  <2>2. ASSUME NEW m \in tried'
        PROVE  m <= nonce'[m % Threads] /\ (at'[m % Threads] \in {"check", "hash"} => m < nonce'[m % Threads])
    <3>1. m \in Nonce /\ m \in Nat /\ m % Threads \in Thread
      BY <1>1, <1>3, <1>5, <1>12
    <3>2. CASE m % Threads # t
      BY <1>2, <1>3, <1>5, <1>9, <3>1, <3>2 DEF LanesInv
    <3>3. CASE m % Threads = t /\ m # n
      <4>1. m < n
        BY <1>2, <1>3, <1>5, <1>7, <3>3 DEF LanesInv
      <4> QED
        BY <1>3, <1>8, <1>9, <3>1, <3>3, <4>1
    <3>4. CASE m = n
      BY <1>1, <1>3, <1>6, <1>8, <1>9, <3>4
    <3> QED
      BY <3>2, <3>3, <3>4
  <2>3. ASSUME NEW m \in Nonce, m < nonce'[m % Threads]
        PROVE  m \in tried'
    <3>1. m \in Nat /\ m % Threads \in Thread
      BY <1>1
    <3>2. CASE m % Threads # t
      BY <1>2, <1>5, <1>9, <2>3, <3>1, <3>2 DEF LanesInv
    <3>3. CASE m % Threads = t
      <4>1. m < next
        BY <1>9, <2>3, <3>3
      <4>2. m < n => m \in tried
        BY <1>2, <1>7, <3>3 DEF LanesInv
      <4>3. ASSUME n < m
            PROVE  FALSE
        <5>1. n + Threads <= m
          BY <1>1, <1>3, <3>1, <3>3, <4>3, ModNext
        <5> QED
          BY <1>1, <1>3, <1>6, <3>1, <4>1, <5>1
      <4> QED
        BY <1>3, <1>5, <3>1, <4>2, <4>3
    <3> QED
      BY <3>2, <3>3
  <2> QED
    BY <2>1, <2>2, <2>3 DEF LanesInv
<1>14. \A u \in Thread : (at[u] = "cancel" <=> at'[u] = "cancel") /\ (at'[u] = "ended" => at[u] = "ended" /\ u # t)
  BY <1>3, <1>6, <1>9
<1>15. Solved => Solved'
  BY <1>5 DEF Solved
<1>16. PlacesInv'
  <2>1. ASSUME NEW u \in Thread
        PROVE  /\ at'[u] \in {"offer", "cancel"} => nonce'[u] \in solutions /\ nonce'[u] \in tried'
               /\ at'[u] = "exhausted" => Search!Exhausted(nonce'[u]) /\ nonce'[u] \in tried'
    <3>1. CASE u = t
      BY <1>5, <1>6, <1>9, <3>1
    <3>2. CASE u # t
      BY <1>2, <1>5, <1>9, <3>2 DEF PlacesInv
    <3> QED
      BY <3>1, <3>2
  <2>2. ASSUME NEW u \in Thread, at'[u] = "ended"
        PROVE  /\ cancelled \/ Solved' \/ (Search!Exhausted(nonce'[u]) /\ nonce'[u] \in tried')
               /\ cancelled \/ errs > 0 \/ \E v \in Thread : at'[v] = "cancel"
    <3>1. at[u] = "ended" /\ nonce'[u] = nonce[u]
      BY <1>9, <1>14, <2>2
    <3> QED
      BY <1>2, <1>5, <1>14, <1>15, <3>1 DEF PlacesInv
  <2> QED
    BY <1>2, <1>5, <1>15, <2>1, <2>2 DEF PlacesInv, Search!Exhausted
<1>17. AnswersInv'
  <2>1. ~done
    BY <1>2, <1>3 DEF AnswersInv, Search!AllEnded, Thread
  <2>2. returned = None
    BY <1>2, <2>1 DEF AnswersInv
  <2> QED
    BY <1>2, <1>5, <1>14, <1>15, <2>1, <2>2 DEF AnswersInv, Search!NoErrorIsSolved, Search!NothingIsSkipped
<1> QED
  BY <1>4, <1>7, <1>10, <1>13, <1>16, <1>17 DEF SearchInv

\* A thread reports that its nonces are exhausted.
LEMMA SearchReport ==
    ASSUME Search!MinerAssumption, SearchInv, NEW t \in Thread, Search!Report(t)
    PROVE  SearchInv'
<1>1. /\ Threads \in Nat \ {0} /\ \A n \in Nonce : n % Threads \in Thread
      /\ SearchType /\ LanesInv /\ PlacesInv /\ AnswersInv
  BY SearchConstants DEF SearchInv
<1>2. /\ at[t] = "exhausted" /\ at' = [at EXCEPT ![t] = "ended"] /\ errs' = errs + 1 /\ errs < Threads
      /\ UNCHANGED <<solutions, nonce, tried, results, cancelled, stopped, done, caller, returned>>
  BY DEF Search!Report, Search!ThreadAt
<1>3. /\ at'[t] = "ended"
      /\ \A u \in Thread \ {t} : at'[u] = at[u]
      /\ at' \in [Thread -> {"check", "hash", "exhausted", "offer", "cancel", "ended"}]
      /\ \A u \in Thread : at[u] = "cancel" <=> at'[u] = "cancel"
  BY <1>1, <1>2 DEF SearchType
<1>4. SearchType' /\ errs' > 0
  BY <1>1, <1>2, <1>3 DEF SearchType
<1>5. LanesInv'
  <2>1. ASSUME NEW n \in tried
        PROVE  at'[n % Threads] \in {"check", "hash"} => at[n % Threads] \in {"check", "hash"}
    BY <1>1, <1>2, <1>3 DEF SearchType
  <2> QED
    BY <1>1, <1>2, <2>1 DEF LanesInv
<1>6. PlacesInv'
  BY <1>1, <1>2, <1>3, <1>4 DEF PlacesInv, Solved, Search!Exhausted
<1>7. AnswersInv'
  <2>1. ~done
    BY <1>1, <1>2 DEF AnswersInv, Search!AllEnded, Thread
  <2> QED
    BY <1>1, <1>2, <1>3, <2>1 DEF AnswersInv, Solved, Search!NoErrorIsSolved, Search!NothingIsSkipped
<1> QED
  BY <1>4, <1>5, <1>6, <1>7 DEF SearchInv

\* A thread offers its block to the channel of results.
LEMMA SearchOffer ==
    ASSUME Search!MinerAssumption, SearchInv, NEW t \in Thread, Search!Offer(t)
    PROVE  SearchInv'
<1>1. /\ Threads \in Nat \ {0} /\ \A n \in Nonce : n % Threads \in Thread
      /\ SearchType /\ LanesInv /\ PlacesInv /\ AnswersInv
  BY SearchConstants DEF SearchInv
<1> DEFINE place == IF results = None THEN "cancel" ELSE "ended"
<1>2. /\ at[t] = "offer" /\ at' = [at EXCEPT ![t] = place]
      /\ results' = IF results = None /\ caller.at # "waiting" THEN nonce[t] ELSE results
      /\ caller' = IF results = None /\ caller.at = "waiting" THEN [at |-> "found", result |-> nonce[t]] ELSE caller
      /\ UNCHANGED <<solutions, nonce, tried, errs, cancelled, stopped, done, returned>>
  BY DEF Search!Offer, Search!ThreadAt, Search!Wakes
<1>3. /\ at'[t] = place
      /\ \A u \in Thread \ {t} : at'[u] = at[u]
      /\ at' \in [Thread -> {"check", "hash", "exhausted", "offer", "cancel", "ended"}]
      /\ \A u \in Thread : at[u] = "cancel" => at'[u] = "cancel"
  BY <1>1, <1>2 DEF SearchType
<1>4. nonce[t] \in solutions /\ nonce[t] \in tried /\ Solved /\ nonce[t] \in Nonce
  BY <1>1, <1>2 DEF PlacesInv, Solved, SearchType
<1>5. SearchType'
  BY <1>1, <1>2, <1>3, <1>4 DEF SearchType
<1>6. LanesInv'
  <2>1. ASSUME NEW n \in tried
        PROVE  at'[n % Threads] \in {"check", "hash"} => at[n % Threads] \in {"check", "hash"}
    BY <1>1, <1>2, <1>3 DEF SearchType
  <2> QED
    BY <1>1, <1>2, <2>1 DEF LanesInv
<1>7. results' # None => cancelled \/ \E u \in Thread : at'[u] = "cancel"
  <2>1. CASE results = None
    BY <1>3, <2>1
  <2>2. CASE results # None
    BY <1>1, <1>3, <2>2 DEF AnswersInv
  <2> QED
    BY <2>1, <2>2
<1>8. PlacesInv'
  <2>1. ASSUME NEW u \in Thread, at'[u] = "ended"
        PROVE  cancelled \/ errs > 0 \/ \E v \in Thread : at'[v] = "cancel"
    <3>1. CASE u = t
      <4>1. results' # None
        BY <1>2, <1>3, <2>1, <3>1
      <4> QED
        BY <1>7, <4>1
    <3>2. CASE u # t
      BY <1>1, <1>2, <1>3, <2>1, <3>2 DEF PlacesInv
    <3> QED
      BY <3>1, <3>2
  <2> QED
    BY <1>1, <1>2, <1>3, <1>4, <2>1 DEF PlacesInv, Solved, Search!Exhausted
<1>9. AnswersInv'
  <2>1. ~done
    BY <1>1, <1>2 DEF AnswersInv, Search!AllEnded, Thread
  <2>2. caller'.at = "found" => caller'.result \in solutions
    BY <1>1, <1>2, <1>4 DEF AnswersInv
  <2>3. results' # None => results' \in solutions
    BY <1>1, <1>2, <1>4 DEF AnswersInv
  <2>4. returned = None /\ caller'.at # "ended"
    BY <1>1, <1>2, <2>1 DEF AnswersInv
  <2>5. Search!NoErrorIsSolved' /\ Search!NothingIsSkipped'
    BY <1>2, <2>4 DEF Search!NoErrorIsSolved, Search!NothingIsSkipped
  <2> QED
    BY <1>2, <1>4, <1>7, <2>1, <2>2, <2>3, <2>4, <2>5 DEF AnswersInv, Solved
<1> QED
  BY <1>5, <1>6, <1>8, <1>9 DEF SearchInv

\* A thread that found a block cancels the others.
LEMMA SearchCancel ==
    ASSUME Search!MinerAssumption, SearchInv, NEW t \in Thread, Search!Cancel(t)
    PROVE  SearchInv'
<1>1. /\ Threads \in Nat \ {0} /\ \A n \in Nonce : n % Threads \in Thread
      /\ SearchType /\ LanesInv /\ PlacesInv /\ AnswersInv
  BY SearchConstants DEF SearchInv
<1>2. /\ at[t] = "cancel" /\ at' = [at EXCEPT ![t] = "ended"] /\ cancelled' = TRUE
      /\ caller' = IF caller.at = "waiting" THEN [at |-> "cancelled", result |-> None] ELSE caller
      /\ UNCHANGED <<solutions, nonce, tried, results, errs, stopped, done, returned>>
  BY DEF Search!Cancel, Search!ThreadAt, Search!Wakes
<1>3. /\ at'[t] = "ended"
      /\ \A u \in Thread \ {t} : at'[u] = at[u]
      /\ at' \in [Thread -> {"check", "hash", "exhausted", "offer", "cancel", "ended"}]
  BY <1>1, <1>2 DEF SearchType
<1>4. Solved
  BY <1>1, <1>2 DEF PlacesInv, Solved
<1>5. SearchType'
  BY <1>1, <1>2, <1>3 DEF SearchType
<1>6. LanesInv'
  <2>1. ASSUME NEW n \in tried
        PROVE  at'[n % Threads] \in {"check", "hash"} => at[n % Threads] \in {"check", "hash"}
    BY <1>1, <1>2, <1>3 DEF SearchType
  <2> QED
    BY <1>1, <1>2, <2>1 DEF LanesInv
<1>7. PlacesInv'
  BY <1>1, <1>2, <1>3, <1>4 DEF PlacesInv, Solved, Search!Exhausted
<1>8. AnswersInv'
  <2>1. ~done
    BY <1>1, <1>2 DEF AnswersInv, Search!AllEnded, Thread
  <2>2. returned = None /\ caller'.at # "ended"
    BY <1>1, <1>2, <2>1 DEF AnswersInv
  <2>3. Search!NoErrorIsSolved' /\ Search!NothingIsSkipped'
    BY <1>2, <2>2 DEF Search!NoErrorIsSolved, Search!NothingIsSkipped
  <2> QED
    BY <1>1, <1>2, <1>4, <2>1, <2>2, <2>3 DEF AnswersInv, Solved
<1> QED
  BY <1>5, <1>6, <1>7, <1>8 DEF SearchInv

\* The node stops the search, the results channel is closed, or the caller of
\* the search goes on; no thread moves.
LEMMA SearchCaller ==
    ASSUME Search!MinerAssumption, SearchInv, Search!Stop \/ Search!Close \/ Search!Calling
    PROVE  SearchInv' /\ at' = at
<1>1. /\ SearchType /\ LanesInv /\ PlacesInv /\ AnswersInv /\ None \notin Nonce
      /\ None \notin [kind : {"block", "exhausted", "cancelled"}, nonce : {None} \cup Nonce]
      /\ \A n \in Nonce : n % Threads \in Thread /\ n \in Nat
      /\ Threads \in Nat \ {0} /\ MaxNonce \in Nat /\ Nonce = 0..MaxNonce
  BY SearchConstants DEF SearchInv
<1>2. CASE Search!Stop
  <2>1. /\ stopped' = TRUE /\ cancelled' = TRUE
        /\ caller' = IF caller.at = "waiting" THEN [at |-> "cancelled", result |-> None] ELSE caller
        /\ UNCHANGED <<solutions, at, nonce, tried, results, errs, done, returned>>
    BY <1>2 DEF Search!Stop, Search!Wakes
  <2>2. SearchType'
    BY <1>1, <2>1 DEF SearchType
  <2>3. LanesInv' /\ PlacesInv'
    BY <1>1, <2>1 DEF LanesInv, PlacesInv, Solved, Search!Exhausted
  <2>4. AnswersInv'
    BY <1>1, <2>1 DEF AnswersInv, Solved, Search!NoErrorIsSolved, Search!NothingIsSkipped, Search!AllEnded
  <2> QED
    BY <2>1, <2>2, <2>3, <2>4 DEF SearchInv
<1>3. CASE Search!Close
  <2>1. /\ Search!AllEnded /\ done' = TRUE
        /\ caller' = IF caller.at = "waiting" THEN [at |-> "ended", result |-> None] ELSE caller
        /\ UNCHANGED <<solutions, at, nonce, tried, results, errs, cancelled, stopped, returned>>
    BY <1>3 DEF Search!Close, Search!Wakes
  <2>2. SearchType'
    BY <1>1, <2>1 DEF SearchType
  <2>3. LanesInv' /\ PlacesInv'
    BY <1>1, <2>1 DEF LanesInv, PlacesInv, Solved, Search!Exhausted
  <2>4. AnswersInv'
    BY <1>1, <2>1 DEF AnswersInv, Solved, Search!NoErrorIsSolved, Search!NothingIsSkipped, Search!AllEnded
  <2> QED
    BY <2>1, <2>2, <2>3, <2>4 DEF SearchInv
<1>4. CASE Search!Select
  <2>1. PICK place \in {"found", "ended", "cancelled", "waiting"}, result \in {None} \cup Nonce :
           /\ caller' = [at |-> place, result |-> result]
           /\ place = "found" => results # None /\ result = results
           /\ place = "ended" => done
           /\ results' \in {results, None}
    BY <1>1, <1>4 DEF Search!Select, SearchType
  <2>2. UNCHANGED <<solutions, at, nonce, tried, errs, cancelled, stopped, done, returned>>
    BY <1>4 DEF Search!Select
  <2>3. SearchType'
    BY <1>1, <2>1, <2>2 DEF SearchType
  <2>4. LanesInv' /\ PlacesInv'
    BY <1>1, <2>2 DEF LanesInv, PlacesInv, Solved, Search!Exhausted
  <2>5. AnswersInv'
    BY <1>1, <2>1, <2>2 DEF AnswersInv, Solved, Search!NoErrorIsSolved, Search!NothingIsSkipped, Search!AllEnded
  <2> QED
    BY <2>2, <2>3, <2>4, <2>5 DEF SearchInv
<1>5. ASSUME NEW kind \in {"block", "exhausted", "cancelled"}, NEW n \in {None} \cup Nonce,
             Search!Returns([kind |-> kind, nonce |-> n]), Search!Quiet, done,
             kind = "block" => n \in solutions,
             kind = "exhausted" /\ ~stopped => tried = Nonce \/ Solved
      PROVE  SearchInv'
  <2>1. /\ returned' = [kind |-> kind, nonce |-> n] /\ caller' = [at |-> "returned", result |-> None]
        /\ UNCHANGED <<solutions, at, nonce, tried, results, errs, cancelled, stopped, done>>
    BY <1>5 DEF Search!Returns, Search!Quiet
  <2>2. SearchType'
    BY <1>1, <2>1 DEF SearchType
  <2>3. LanesInv' /\ PlacesInv'
    BY <1>1, <2>1 DEF LanesInv, PlacesInv, Solved, Search!Exhausted
  <2>4. Search!NoErrorIsSolved' /\ Search!NothingIsSkipped'
    BY <1>5, <2>1 DEF Search!NoErrorIsSolved, Search!NothingIsSkipped, Nonce, Solved
  <2>5. AnswersInv'
    BY <1>1, <1>5, <2>1, <2>4 DEF AnswersInv, Solved, Search!AllEnded
  <2> QED
    BY <2>2, <2>3, <2>5 DEF SearchInv
<1>6. CASE Search!ReturnFound
  <2>1. caller.at = "found" /\ done /\ Search!Returns([kind |-> "block", nonce |-> caller.result]) /\ Search!Quiet
    BY <1>6 DEF Search!ReturnFound, Search!Block
  <2>2. caller.result \in solutions /\ caller.result \in Nonce
    BY <1>1, <2>1 DEF AnswersInv, SearchType
  <2> QED
    BY <1>5, <2>1, <2>2 DEF Search!Quiet
<1>7. CASE Search!ReturnCancelled
  <2>1. caller.at = "cancelled" /\ done /\ Search!Quiet
    BY <1>7 DEF Search!ReturnCancelled
  <2>2. CASE results # None
    <3>1. Search!Returns([kind |-> "block", nonce |-> results])
      BY <1>7, <2>2 DEF Search!ReturnCancelled, Search!Block
    <3>2. results \in solutions /\ results \in Nonce
      BY <1>1, <2>2 DEF AnswersInv, SearchType
    <3> QED
      BY <1>5, <2>1, <3>1, <3>2 DEF Search!Quiet
  <2>3. CASE results = None
    <3>1. Search!Returns([kind |-> "cancelled", nonce |-> None])
      BY <1>7, <2>3 DEF Search!ReturnCancelled, Search!Error
    <3> QED
      BY <1>5, <2>1, <3>1 DEF Search!Quiet
  <2> QED
    BY <2>2, <2>3
<1>8. CASE Search!ReturnEnded
  <2>1. caller.at = "ended" /\ Search!Quiet /\ done /\ \A t \in Thread : at[t] = "ended"
    BY <1>1, <1>8 DEF Search!ReturnEnded, AnswersInv, Search!AllEnded, Thread
  <2>2. CASE errs > 0
    <3>1. Search!Returns([kind |-> "exhausted", nonce |-> None])
      BY <1>8, <2>2 DEF Search!ReturnEnded, Search!Error
    <3>2. ASSUME ~stopped, ~Solved
          PROVE  tried = Nonce
      <4>1. \A t \in Thread : Search!Exhausted(nonce[t]) /\ nonce[t] \in tried /\ nonce[t] \in Nonce
        BY <1>1, <2>1, <3>2 DEF PlacesInv, SearchType
      <4>2. ASSUME NEW n \in Nonce
            PROVE  n \in tried
        <5>1. n % Threads \in Thread /\ n \in Nat
          BY <1>1
        <5>2. PICK m \in Nonce : m = nonce[n % Threads] /\ m % Threads = n % Threads /\ m \in tried /\ m \in Nat
                  /\ Search!Exhausted(m)
          BY <1>1, <4>1, <5>1 DEF LanesInv
        <5>3. n < m => n \in tried
          BY <1>1, <5>2 DEF LanesInv
        <5>4. ASSUME m < n
              PROVE  FALSE
          <6>1. m + Threads <= n
            BY <1>1, <5>1, <5>2, <5>4, ModNext
          <6> QED
            BY <1>1, <5>1, <5>2, <6>1 DEF Search!Exhausted
        <5> QED
          BY <5>1, <5>2, <5>3, <5>4
      <4> QED
        BY <1>1, <4>2 DEF SearchType
    <3> QED
      BY <1>5, <2>1, <3>1, <3>2 DEF Search!Quiet
  <2>3. CASE ~(errs > 0)
    <3>1. cancelled
      <4>1. 0 \in Thread
        BY <1>1, SearchConstants
      <4> QED
        BY <1>1, <2>1, <2>3, <4>1 DEF PlacesInv
    <3>2. Search!Returns([kind |-> "cancelled", nonce |-> None])
      BY <1>8, <2>3, <3>1 DEF Search!ReturnEnded, Search!Error
    <3> QED
      BY <1>5, <2>1, <3>2 DEF Search!Quiet
  <2> QED
    BY <2>2, <2>3
<1>9. at' = at
  BY DEF Search!Stop, Search!Close, Search!Calling, Search!Select, Search!ReturnFound, Search!ReturnEnded,
         Search!ReturnCancelled, Search!Quiet
<1> QED
  BY <1>2, <1>3, <1>4, <1>6, <1>7, <1>8, <1>9 DEF Search!Calling

\* Every step of the search keeps the invariant, and no two threads try a nonce.
LEMMA SearchStep ==
    ASSUME Search!MinerAssumption, SearchInv, [Search!Next]_(Search!vars)
    PROVE  SearchInv' /\ Search!SharesWork
<1>1. CASE UNCHANGED Search!vars
  <2>1. UNCHANGED <<solutions, at, nonce, tried, results, errs, cancelled, stopped, done, caller, returned>>
    BY <1>1 DEF Search!vars
  <2> QED
    BY <2>1 DEF SearchInv, SearchType, LanesInv, PlacesInv, AnswersInv, Solved, Search!Exhausted, Search!AllEnded,
                Search!NoErrorIsSolved, Search!NothingIsSkipped, Search!SharesWork
<1>2. CASE Search!Stop \/ Search!Close \/ Search!Calling
  BY <1>2, SearchCaller DEF Search!SharesWork
<1>3. ASSUME NEW t \in Thread, Search!Searching(t)
      PROVE  SearchInv' /\ Search!SharesWork
  <2>1. CASE Search!Hash(t)
    <3>1. SearchInv' /\ nonce[t] \notin tried
      BY <1>3, <2>1, SearchHash
    <3>2. \A u \in Thread : u # t => at'[u] = at[u]
      BY <1>3, <2>1 DEF Search!Hash, Search!ThreadAt, SearchInv, SearchType
    <3> QED
      BY <3>1, <3>2 DEF Search!SharesWork, Thread
  <2>2. ASSUME Search!Check(t) \/ Search!Report(t) \/ Search!Offer(t) \/ Search!Cancel(t)
        PROVE  SearchInv' /\ Search!SharesWork
    <3>1. SearchInv'
      BY <1>3, <2>2, SearchCheck, SearchReport, SearchOffer, SearchCancel
    <3>2. \A u \in Thread : at[u] = "hash" => at'[u] = "hash"
      BY <1>3, <2>2 DEF Search!Check, Search!Report, Search!Offer, Search!Cancel, Search!ThreadAt, SearchInv, SearchType
    <3> QED
      BY <3>1, <3>2 DEF Search!SharesWork, Thread
  <2> QED
    BY <1>3, <2>1, <2>2 DEF Search!Searching
<1> QED
  BY <1>1, <1>2, <1>3 DEF Search!Next, Thread

\* MineBlock of the CPU miner, for any number of threads, any range of nonces
\* that leaves one to each thread and any set of solutions: the search answers
\* with a block whose nonce is a solution, does not say that the nonces are
\* exhausted while one of them was not tried or solved the block, leaves no
\* thread behind, and no nonce is tried twice.
THEOREM SearchReturnsRightly ==
    ASSUME Search!MinerAssumption
    PROVE  Search!Spec => Search!SearchIsRight /\ SearchIsRight
<1>1. Search!Init => SearchInv
  BY SearchStart
<1>2. SearchInv /\ [Search!Next]_(Search!vars) => SearchInv'
  BY SearchStep
<1>3. SearchInv /\ [Search!Next]_(Search!vars) => [Search!SharesWork]_(Search!vars)
  BY SearchStep
<1>4. SearchInv => Search!TypeOK /\ Search!NoErrorIsSolved /\ Search!NoThreadIsLeft /\ Search!NothingIsSkipped
  BY DEF SearchInv, SearchType, AnswersInv, Search!TypeOK, Search!NoThreadIsLeft, Thread, Nonce
<1>5. [Search!SharesWork]_(Search!vars) => [scenario = "search" => Search!SharesWork]_(Search!vars)
  OBVIOUS
<1> QED
  BY <1>1, <1>2, <1>3, <1>4, <1>5, PTL DEF Search!Spec, Search!SearchIsRight, SearchIsRight

---------------------------------------------------------------------------
(***************************************************************************)
(* The external miner and the node it mines for.                           *)
(***************************************************************************)

\* The instance counts with the same cardinality.
LEMMA MinersCardinality ==
    ASSUME NEW S
    PROVE  Miners!Cardinality(S) = Cardinality(S)
  BY DEF Miners!Cardinality, Cardinality

Block == Miners!Block
Job == Miners!Job

\* The blocks that miner m can have made, and its states.
Own(m, n) == [by : {m}, hash : 1..n]
MinerState(m, n) ==
    [at : {"loop", "mining", "submit", "wait", "stopped", "failed"},
     job : {None} \cup Job, block : {None} \cup Own(m, n),
     info : {None} \cup [height : Int, tip : Block]]

Waiting(st, s) == st.at = "wait" /\ st.block = s.block

\* What was taken, and what may be once the miner has given up on it.
Charged(st, mine, tkn) == tkn \cup {s.block : s \in {x \in mine : ~Waiting(st, x)}}

Owed(rep) == IF rep # None /\ rep.accepted THEN 1 ELSE 0

PlaceOK(m, st, n) ==
    /\ st \in MinerState(m, n)
    /\ st.at \in {"mining", "submit", "wait"} <=> st.job # None
    /\ st.at \in {"submit", "wait"} <=> st.block # None
    /\ st.at = "failed" => m \in Once \/ ~Retry

LimitOK(m, st, acc) ==
    /\ acc \in Nat
    /\ MaxBlocks[m] > 0 => acc <= MaxBlocks[m] /\ (st.at \in {"mining", "submit", "wait"} => acc < MaxBlocks[m])
    /\ m \in Once => acc <= 1 /\ (st.at \notin {"stopped", "failed"} => acc = 0)

\* One miner: its state, its submits on the way, the answer on the way, its blocks
\* that were taken, its statistics, and how many blocks there are.
FlowOK(m, st, mine, rep, tkn, acc, err, n) ==
    /\ n \in Nat /\ err \in Nat
    /\ PlaceOK(m, st, n) /\ LimitOK(m, st, acc)
    /\ mine \subseteq [block : Own(m, n), job : Job]
    /\ rep \in {None} \cup [accepted : BOOLEAN]
    /\ tkn \subseteq Own(m, n)
    /\ rep # None =>
          /\ st.at = "wait" /\ (rep.accepted => st.block \in tkn)
          /\ \A s \in mine : s.block # st.block
    /\ st.at = "submit" => st.block \notin tkn /\ \A s \in mine : s.block # st.block
    /\ \A s \in mine : Waiting(st, s) => s.job = st.job /\ s.block \notin tkn
    /\ Cardinality(Charged(st, mine, tkn)) <= acc + err + Owed(rep)
    /\ acc + Owed(rep) <= Cardinality(tkn)

\* A miner has made finitely many blocks.
LEMMA OwnFinite ==
    ASSUME NEW m, NEW n \in Nat, NEW S, S \subseteq Own(m, n)
    PROVE  IsFiniteSet(S) /\ Cardinality(S) \in Nat
<1>1. IsFiniteSet(1..n)
  BY FS_Interval
<1> DEFINE f == [k \in 1..n |-> [by |-> m, hash |-> k]]
<1>2. f \in Surjection(1..n, Own(m, n))
  <2>1. f \in [1..n -> Own(m, n)]
    BY DEF Own
  <2>2. ASSUME NEW b \in Own(m, n)
        PROVE  \E k \in 1..n : f[k] = b
    <3>1. b.hash \in 1..n /\ f[b.hash] = b
      BY DEF Own
    <3> QED
      BY <3>1
  <2> HIDE DEF f
  <2> QED
    BY <2>1, <2>2, Fun_IsSurj
<1> HIDE DEF f
<1>3. IsFiniteSet(Own(m, n))
  BY <1>1, <1>2, FS_Surjection
<1> QED
  BY <1>3, FS_Subset, FS_CardinalityType

\* One block more among those of a miner.
LEMMA OneIn ==
    ASSUME NEW m, NEW n \in Nat, NEW S, S \subseteq Own(m, n), NEW b \in Own(m, n)
    PROVE  /\ Cardinality(S) \in Nat
           /\ Cardinality(S \cup {b}) = IF b \in S THEN Cardinality(S) ELSE Cardinality(S) + 1
<1>1. IsFiniteSet(S) /\ Cardinality(S) \in Nat
  BY OwnFinite
<1> QED
  BY <1>1, FS_AddElement

\* At most one block more among those of a miner.
LEMMA OneMore ==
    ASSUME NEW m, NEW n \in Nat, NEW S, S \subseteq Own(m, n), NEW b \in Own(m, n), NEW T, T \subseteq S \cup {b}
    PROVE  Cardinality(T) \in Nat /\ Cardinality(S) \in Nat /\ Cardinality(T) <= Cardinality(S) + 1
<1> DEFINE U == S \cup {b}
<1>1. U \subseteq Own(m, n) /\ T \subseteq U
  OBVIOUS
<1>2. Cardinality(S) \in Nat /\ Cardinality(U) <= Cardinality(S) + 1
  <2>1. Cardinality(S) \in Nat /\ Cardinality(U) = IF b \in S THEN Cardinality(S) ELSE Cardinality(S) + 1
    BY OneIn
  <2> HIDE DEF U
  <2> QED
    BY <2>1
<1> HIDE DEF U
<1>3. IsFiniteSet(U) /\ Cardinality(U) \in Nat /\ Cardinality(T) \in Nat /\ Cardinality(T) <= Cardinality(U)
  BY <1>1, OwnFinite, FS_Subset
<1> QED
  BY <1>2, <1>3

\* Fewer blocks of a miner are not more.
LEMMA NoMore ==
    ASSUME NEW m, NEW n \in Nat, NEW S, S \subseteq Own(m, n), NEW T, T \subseteq S
    PROVE  Cardinality(T) \in Nat /\ Cardinality(S) \in Nat /\ Cardinality(T) <= Cardinality(S)
  BY OwnFinite, FS_Subset

\* What a miner is charged with are blocks of its own.
LEMMA ChargedOwn ==
    ASSUME NEW m, NEW st, NEW mine, NEW rep, NEW tkn, NEW acc, NEW err, NEW n,
           FlowOK(m, st, mine, rep, tkn, acc, err, n)
    PROVE  /\ n \in Nat /\ acc \in Nat /\ err \in Nat /\ Owed(rep) \in 0..1
           /\ Charged(st, mine, tkn) \subseteq Own(m, n) /\ tkn \subseteq Own(m, n)
           /\ \A s \in mine : s.block \in Own(m, n)
           /\ Cardinality(Charged(st, mine, tkn)) \in Nat /\ Cardinality(tkn) \in Nat
<1>1. /\ n \in Nat /\ acc \in Nat /\ err \in Nat /\ tkn \subseteq Own(m, n)
      /\ \A s \in mine : s.block \in Own(m, n)
  BY DEF FlowOK, LimitOK
<1>2. Owed(rep) \in 0..1
  BY DEF Owed
<1>3. Charged(st, mine, tkn) \subseteq Own(m, n)
  BY <1>1 DEF Charged
<1> QED
  BY <1>1, <1>2, <1>3, OwnFinite

\* The invariant of one miner bounds the blocks taken from it by its statistics
\* and its limits.
LEMMA FlowIsEnough ==
    ASSUME Miners!IndominerAssumption, NEW m \in Miner,
           FlowOK(m, miner[m], {s \in wire : s.block.by = m}, reply[m], taken[m], accepted[m], rpcErrors[m], made)
    PROVE  /\ accepted[m] <= Cardinality(taken[m])
           /\ Cardinality(taken[m]) <= accepted[m] + rpcErrors[m] + (IF miner[m].at = "wait" THEN 1 ELSE 0)
           /\ MaxBlocks[m] > 0 => Cardinality(taken[m]) <= MaxBlocks[m] + rpcErrors[m]
           /\ m \in Once => Cardinality(taken[m]) <= 1 + rpcErrors[m]
<1> DEFINE mine == {s \in wire : s.block.by = m}
           ch == Charged(miner[m], mine, taken[m])
<1> HIDE DEF mine
<1>0. FlowOK(m, miner[m], mine, reply[m], taken[m], accepted[m], rpcErrors[m], made)
  BY DEF mine
<1>1. /\ made \in Nat /\ accepted[m] \in Nat /\ rpcErrors[m] \in Nat /\ Owed(reply[m]) \in 0..1
      /\ ch \subseteq Own(m, made) /\ Cardinality(ch) \in Nat /\ Cardinality(taken[m]) \in Nat
  BY <1>0, ChargedOwn
<1>2. taken[m] \subseteq ch
  BY DEF Charged
<1>3. Cardinality(taken[m]) <= Cardinality(ch)
  BY <1>1, <1>2, NoMore
<1>4. /\ Cardinality(ch) <= accepted[m] + rpcErrors[m] + Owed(reply[m])
      /\ accepted[m] + Owed(reply[m]) <= Cardinality(taken[m])
  BY <1>0 DEF FlowOK
<1>5. Owed(reply[m]) = 1 => miner[m].at = "wait"
  BY <1>0 DEF FlowOK, Owed
<1>6. LimitOK(m, miner[m], accepted[m])
  BY <1>0 DEF FlowOK
<1> HIDE DEF ch
<1>7. accepted[m] <= Cardinality(taken[m])
  BY <1>1, <1>4
<1>8. Cardinality(taken[m]) <= accepted[m] + rpcErrors[m] + (IF miner[m].at = "wait" THEN 1 ELSE 0)
  BY <1>1, <1>3, <1>4, <1>5
<1>9. ASSUME MaxBlocks[m] > 0
      PROVE  Cardinality(taken[m]) <= MaxBlocks[m] + rpcErrors[m]
  <2>1. MaxBlocks[m] \in Nat
    BY DEF Miners!IndominerAssumption
  <2>2. accepted[m] + Owed(reply[m]) <= MaxBlocks[m]
    BY <1>1, <1>5, <1>6, <1>9, <2>1 DEF LimitOK
  <2> QED
    BY <1>1, <1>3, <1>4, <2>1, <2>2
<1>10. ASSUME m \in Once
       PROVE  Cardinality(taken[m]) <= 1 + rpcErrors[m]
  <2>1. accepted[m] + Owed(reply[m]) <= 1
    BY <1>1, <1>5, <1>6, <1>10 DEF LimitOK
  <2> QED
    BY <1>1, <1>3, <1>4, <2>1
<1> QED
  BY <1>7, <1>8, <1>9, <1>10

Larger(m, n, n2) == n2 \in Nat /\ n <= n2

\* The blocks of a miner stay its own when more are made.
LEMMA OwnGrows ==
    ASSUME NEW m, NEW n \in Nat, NEW n2 \in Nat, n <= n2
    PROVE  Own(m, n) \subseteq Own(m, n2)
<1>1. (1..n) \subseteq (1..n2)
  OBVIOUS
<1> QED
  BY <1>1 DEF Own

\* A miner moves on that waits for no answer.
LEMMA FlowMoves ==
    ASSUME NEW m, NEW st, NEW mine, NEW tkn, NEW acc, NEW err, NEW n, NEW rep,
           FlowOK(m, st, mine, rep, tkn, acc, err, n), st.at # "wait",
           NEW st2, NEW n2 \in Nat, n <= n2, NEW err2 \in Nat, err <= err2,
           PlaceOK(m, st2, n2), st2.at # "wait", LimitOK(m, st2, acc),
           st2.at = "submit" => st2.block \notin tkn /\ \A s \in mine : s.block # st2.block
    PROVE  FlowOK(m, st2, mine, rep, tkn, acc, err2, n2)
<1>1. n \in Nat /\ acc \in Nat /\ err \in Nat /\ Owed(rep) \in 0..1 /\ Cardinality(Charged(st, mine, tkn)) \in Nat
  BY ChargedOwn
<1>2. Own(m, n) \subseteq Own(m, n2)
  BY <1>1, OwnGrows
<1>3. mine \subseteq [block : Own(m, n2), job : Job] /\ tkn \subseteq Own(m, n2)
  BY <1>2 DEF FlowOK
<1>4. Charged(st2, mine, tkn) = Charged(st, mine, tkn)
  BY DEF Charged, Waiting
<1>5. Cardinality(Charged(st, mine, tkn)) <= acc + err + Owed(rep)
  BY DEF FlowOK
<1>6. Cardinality(Charged(st2, mine, tkn)) <= acc + err2 + Owed(rep)
  BY <1>1, <1>4, <1>5
<1>7. rep = None /\ acc + Owed(rep) <= Cardinality(tkn)
  BY DEF FlowOK
<1> QED
  BY <1>3, <1>6, <1>7 DEF FlowOK, Waiting

\* A miner sends its block and waits.
LEMMA FlowSubmits ==
    ASSUME NEW m, NEW st, NEW mine, NEW tkn, NEW acc, NEW err, NEW n, NEW rep,
           FlowOK(m, st, mine, rep, tkn, acc, err, n), st.at = "submit",
           NEW st2, st2 = [st EXCEPT !.at = "wait"]
    PROVE  FlowOK(m, st2, mine \cup {[block |-> st.block, job |-> st.job]}, rep, tkn, acc, err, n)
<1> DEFINE x == [block |-> st.block, job |-> st.job]
           mine2 == mine \cup {x}
<1>1. PlaceOK(m, st, n) /\ st \in MinerState(m, n)
  BY DEF FlowOK, PlaceOK
<1>2. st2.at = "wait" /\ st2.block = st.block /\ st2.job = st.job /\ st2 \in MinerState(m, n)
  BY <1>1 DEF MinerState
<1>3. st.block \in Own(m, n) /\ st.job \in Job /\ st.job # None /\ st.block # None
  BY <1>1 DEF PlaceOK, MinerState
<1>4. PlaceOK(m, st2, n)
  BY <1>2, <1>3 DEF PlaceOK
<1>5. LimitOK(m, st2, acc)
  BY <1>2 DEF LimitOK, FlowOK
<1>6. Charged(st2, mine2, tkn) \subseteq Charged(st, mine, tkn)
  BY <1>2 DEF Charged, Waiting
<1>7. Cardinality(Charged(st2, mine2, tkn)) <= acc + err + Owed(rep)
  <2>1. /\ n \in Nat /\ acc \in Nat /\ err \in Nat /\ Owed(rep) \in 0..1
        /\ Charged(st, mine, tkn) \subseteq Own(m, n)
    BY ChargedOwn
  <2>2. /\ Cardinality(Charged(st2, mine2, tkn)) \in Nat /\ Cardinality(Charged(st, mine, tkn)) \in Nat
        /\ Cardinality(Charged(st2, mine2, tkn)) <= Cardinality(Charged(st, mine, tkn))
    BY <1>6, <2>1, NoMore
  <2>3. Cardinality(Charged(st, mine, tkn)) <= acc + err + Owed(rep)
    BY DEF FlowOK
  <2> QED
    BY <2>1, <2>2, <2>3
<1>8. rep = None
  BY DEF FlowOK
<1>9. \A s \in mine2 : Waiting(st2, s) => s.job = st2.job /\ s.block \notin tkn
  BY <1>2 DEF Waiting, FlowOK
<1>10. mine2 \subseteq [block : Own(m, n), job : Job]
  BY <1>3 DEF FlowOK
<1> QED
  BY <1>2, <1>4, <1>5, <1>7, <1>8, <1>9, <1>10 DEF FlowOK

\* The miner hears from the node.
LEMMA FlowAnswer ==
    ASSUME NEW m, NEW st, NEW mine, NEW tkn, NEW acc, NEW err, NEW n, NEW rep,
           FlowOK(m, st, mine, rep, tkn, acc, err, n), rep # None,
           NEW st2, PlaceOK(m, st2, n), st2.at \notin {"submit", "wait"},
           NEW acc2, acc2 = acc + Owed(rep), LimitOK(m, st2, acc2)
    PROVE  FlowOK(m, st2, mine, None, tkn, acc2, err, n)
<1>1. n \in Nat /\ acc \in Nat /\ err \in Nat /\ Owed(rep) \in 0..1 /\ Cardinality(Charged(st, mine, tkn)) \in Nat
  BY ChargedOwn
<1>2. Charged(st2, mine, tkn) = Charged(st, mine, tkn)
  BY DEF Charged, Waiting, FlowOK
<1>3. Owed(None) = 0
  BY DEF Owed
<1>4. /\ Cardinality(Charged(st, mine, tkn)) <= acc + err + Owed(rep)
      /\ acc + Owed(rep) <= Cardinality(tkn)
  BY DEF FlowOK
<1>5. Cardinality(tkn) \in Nat
  BY ChargedOwn
<1>6. Cardinality(Charged(st2, mine, tkn)) <= acc2 + err + Owed(None)
  BY <1>1, <1>2, <1>3, <1>4
<1>7. acc2 + Owed(None) <= Cardinality(tkn)
  BY <1>1, <1>3, <1>4, <1>5
<1> QED
  BY <1>6, <1>7 DEF FlowOK, Waiting

\* The miner gives up on the answer; its submits are lost or not.
LEMMA FlowGivesUp ==
    ASSUME NEW m, NEW st, NEW mine, NEW tkn, NEW acc, NEW err, NEW n, NEW rep,
           FlowOK(m, st, mine, rep, tkn, acc, err, n), st.at = "wait",
           NEW mine2 \in {mine, {}},
           NEW st2, PlaceOK(m, st2, n), st2.at \notin {"submit", "wait"}, LimitOK(m, st2, acc)
    PROVE  FlowOK(m, st2, mine2, None, tkn, acc, err + 1, n)
<1>1. /\ n \in Nat /\ acc \in Nat /\ err \in Nat /\ Owed(rep) \in 0..1 /\ tkn \subseteq Own(m, n)
      /\ Charged(st, mine, tkn) \subseteq Own(m, n) /\ Cardinality(Charged(st, mine, tkn)) \in Nat
      /\ Cardinality(tkn) \in Nat
  BY ChargedOwn
<1>2. Owed(None) = 0
  BY DEF Owed
<1>3. /\ Cardinality(Charged(st, mine, tkn)) <= acc + err + Owed(rep)
      /\ acc + Owed(rep) <= Cardinality(tkn)
  BY DEF FlowOK
<1>4. st.block \in Own(m, n)
  BY DEF FlowOK, PlaceOK, MinerState
<1>5. Cardinality(Charged(st2, mine2, tkn)) <= acc + (err + 1) + Owed(None)
  <2>1. CASE Owed(rep) = 0
    <3>1. Charged(st2, mine2, tkn) \subseteq Charged(st, mine, tkn) \cup {st.block}
      BY DEF Charged, Waiting
    <3>2. /\ Cardinality(Charged(st2, mine2, tkn)) <= Cardinality(Charged(st, mine, tkn)) + 1
          /\ Cardinality(Charged(st2, mine2, tkn)) \in Nat
      BY <1>1, <1>4, <3>1, OneMore
    <3> QED
      BY <1>1, <1>2, <1>3, <2>1, <3>2
  <2>2. CASE Owed(rep) = 1
    <3>1. st.block \in tkn
      BY <2>2 DEF FlowOK, Owed
    <3>2. Charged(st2, mine2, tkn) \subseteq Charged(st, mine, tkn)
      BY <3>1 DEF Charged, Waiting
    <3>3. /\ Cardinality(Charged(st2, mine2, tkn)) <= Cardinality(Charged(st, mine, tkn))
          /\ Cardinality(Charged(st2, mine2, tkn)) \in Nat
      BY <1>1, <3>2, NoMore
    <3> QED
      BY <1>1, <1>2, <1>3, <2>2, <3>3
  <2> QED
    BY <1>1, <2>1, <2>2
<1>6. acc + Owed(None) <= Cardinality(tkn)
  BY <1>1, <1>2, <1>3
<1>7. mine2 \subseteq [block : Own(m, n), job : Job]
  BY DEF FlowOK
<1> QED
  BY <1>1, <1>5, <1>6, <1>7 DEF FlowOK, Waiting

\* The node handles a submit.
LEMMA FlowHandled ==
    ASSUME NEW m, NEW st, NEW mine, NEW tkn, NEW acc, NEW err, NEW n, NEW rep,
           FlowOK(m, st, mine, rep, tkn, acc, err, n), NEW s \in mine, NEW takes \in BOOLEAN,
           None \notin [accepted : BOOLEAN],
           NEW rep2, rep2 = IF Waiting(st, s) THEN [accepted |-> takes] ELSE rep,
           NEW tkn2, tkn2 = IF takes THEN tkn \cup {s.block} ELSE tkn
    PROVE  FlowOK(m, st, mine \ {s}, rep2, tkn2, acc, err, n)
<1> DEFINE mine2 == mine \ {s}
<1>1. /\ n \in Nat /\ acc \in Nat /\ err \in Nat /\ Owed(rep) \in 0..1 /\ tkn \subseteq Own(m, n)
      /\ Charged(st, mine, tkn) \subseteq Own(m, n) /\ Cardinality(Charged(st, mine, tkn)) \in Nat
      /\ Cardinality(tkn) \in Nat /\ s.block \in Own(m, n)
  BY ChargedOwn
<1>2. /\ Cardinality(Charged(st, mine, tkn)) <= acc + err + Owed(rep)
      /\ acc + Owed(rep) <= Cardinality(tkn)
  BY DEF FlowOK
<1>3. rep2 \in {None} \cup [accepted : BOOLEAN]
  BY DEF FlowOK
<1>4. tkn2 \subseteq Own(m, n)
  BY <1>1
<1>5. mine2 \subseteq [block : Own(m, n), job : Job]
  BY DEF FlowOK
<1>6. CASE Waiting(st, s)
  <2>1. rep = None /\ Owed(rep) = 0
    BY <1>6 DEF FlowOK, Waiting, Owed
  <2>2. s.block \notin tkn /\ s.job = st.job /\ s.block = st.block /\ st.at = "wait"
    BY <1>6 DEF FlowOK, Waiting
  <2>3. \A x \in mine2 : x.block # st.block
    <3>1. SUFFICES ASSUME NEW x \in mine2, x.block = st.block
                   PROVE  FALSE
      OBVIOUS
    <3>2. x.job = st.job
      BY <2>2, <3>1 DEF FlowOK, Waiting
    <3>3. x \in [block : Own(m, n), job : Job] /\ s \in [block : Own(m, n), job : Job]
      BY DEF FlowOK
    <3>4. x = s
      BY <2>2, <3>1, <3>2, <3>3
    <3> QED
      BY <3>4
  <2>4. rep2 = [accepted |-> takes] /\ rep2 # None /\ rep2.accepted = takes
    <3>1. [accepted |-> takes] \in [accepted : BOOLEAN]
      OBVIOUS
    <3> QED
      BY <1>6, <3>1
  <2>5. Owed(rep2) = IF takes THEN 1 ELSE 0
    BY <2>4 DEF Owed
  <2>6. Charged(st, mine2, tkn2) \subseteq Charged(st, mine, tkn) \cup {s.block}
    BY DEF Charged
  <2>7. ~takes => Charged(st, mine2, tkn2) \subseteq Charged(st, mine, tkn)
    BY DEF Charged
  <2>8. Cardinality(Charged(st, mine2, tkn2)) <= acc + err + Owed(rep2)
    <3>1. CASE takes
      <4>1. /\ Cardinality(Charged(st, mine2, tkn2)) <= Cardinality(Charged(st, mine, tkn)) + 1
            /\ Cardinality(Charged(st, mine2, tkn2)) \in Nat
        BY <1>1, <2>6, OneMore
      <4> HIDE DEF mine2
      <4> QED
        BY <1>1, <1>2, <2>1, <2>5, <3>1, <4>1
    <3>2. CASE ~takes
      <4>1. /\ Cardinality(Charged(st, mine2, tkn2)) <= Cardinality(Charged(st, mine, tkn))
            /\ Cardinality(Charged(st, mine2, tkn2)) \in Nat
        BY <1>1, <2>7, <3>2, NoMore
      <4> HIDE DEF mine2
      <4> QED
        BY <1>1, <1>2, <2>1, <2>5, <3>2, <4>1
    <3> QED
      BY <3>1, <3>2
  <2>9. acc + Owed(rep2) <= Cardinality(tkn2)
    <3>1. CASE takes
      <4>1. tkn2 = tkn \cup {s.block}
        BY <3>1
      <4>2. Cardinality(tkn2) = Cardinality(tkn) + 1
        BY <1>1, <2>2, <4>1, OneIn
      <4>3. Owed(rep2) = 1
        BY <2>5, <3>1
      <4> QED
        BY <1>1, <1>2, <2>1, <4>2, <4>3
    <3>2. CASE ~takes
      BY <1>1, <1>2, <2>1, <2>5, <3>2
    <3> QED
      BY <3>1, <3>2
  <2>10. takes => st.block \in tkn2
    BY <2>2
  <2> QED
    BY <1>1, <1>3, <1>4, <1>5, <2>2, <2>3, <2>4, <2>8, <2>9, <2>10 DEF FlowOK, Waiting
<1>7. CASE ~Waiting(st, s)
  <2>1. rep2 = rep
    BY <1>7
  <2>2. Charged(st, mine2, tkn2) \subseteq Charged(st, mine, tkn)
    BY <1>7 DEF Charged
  <2>3. Cardinality(Charged(st, mine2, tkn2)) <= acc + err + Owed(rep2)
    <3>1. /\ Cardinality(Charged(st, mine2, tkn2)) <= Cardinality(Charged(st, mine, tkn))
          /\ Cardinality(Charged(st, mine2, tkn2)) \in Nat
      BY <1>1, <2>2, NoMore
    <3> HIDE DEF mine2
    <3> QED
      BY <1>1, <1>2, <2>1, <3>1
  <2>4. acc + Owed(rep2) <= Cardinality(tkn2)
    <3>1. tkn \subseteq tkn2
      OBVIOUS
    <3>2. Cardinality(tkn) <= Cardinality(tkn2) /\ Cardinality(tkn2) \in Nat
      BY <1>1, <1>4, <3>1, NoMore
    <3> QED
      BY <1>1, <1>2, <2>1, <3>2
  <2>5. st.at = "submit" => st.block \notin tkn2 /\ \A x \in mine2 : x.block # st.block
    BY DEF FlowOK
  <2>6. \A x \in mine2 : Waiting(st, x) => x.job = st.job /\ x.block \notin tkn2
    BY <1>7 DEF FlowOK, Waiting
  <2>7. rep2 # None =>
          /\ st.at = "wait" /\ (rep2.accepted => st.block \in tkn2)
          /\ \A x \in mine2 : x.block # st.block
    BY <2>1 DEF FlowOK
  <2> QED
    BY <1>3, <1>4, <1>5, <2>3, <2>4, <2>5, <2>6, <2>7 DEF FlowOK
<1> QED
  BY <1>6, <1>7

\* The node takes the block and answers with an error.
LEMMA FlowFails ==
    ASSUME NEW m, NEW st, NEW mine, NEW tkn, NEW acc, NEW err, NEW n, NEW rep,
           FlowOK(m, st, mine, rep, tkn, acc, err, n), NEW s \in mine, Waiting(st, s),
           NEW st2, PlaceOK(m, st2, n), st2.at \notin {"submit", "wait"}, LimitOK(m, st2, acc)
    PROVE  FlowOK(m, st2, mine \ {s}, rep, tkn \cup {s.block}, acc, err + 1, n)
<1> DEFINE mine2 == mine \ {s}
           tkn2 == tkn \cup {s.block}
<1>1. /\ n \in Nat /\ acc \in Nat /\ err \in Nat /\ tkn \subseteq Own(m, n)
      /\ Charged(st, mine, tkn) \subseteq Own(m, n) /\ Cardinality(Charged(st, mine, tkn)) \in Nat
      /\ Cardinality(tkn) \in Nat /\ s.block \in Own(m, n)
  BY ChargedOwn
<1>2. rep = None /\ Owed(rep) = 0
  BY DEF FlowOK, Waiting, Owed
<1>3. /\ Cardinality(Charged(st, mine, tkn)) <= acc + err + Owed(rep)
      /\ acc + Owed(rep) <= Cardinality(tkn)
  BY DEF FlowOK
<1>4. Charged(st2, mine2, tkn2) \subseteq Charged(st, mine, tkn) \cup {s.block}
  <2>1. s.block = st.block
    BY DEF Waiting
  <2> QED
    BY <2>1 DEF Charged, Waiting
<1>5. /\ Cardinality(Charged(st2, mine2, tkn2)) <= Cardinality(Charged(st, mine, tkn)) + 1
      /\ Cardinality(Charged(st2, mine2, tkn2)) \in Nat
  <2> HIDE DEF mine2, tkn2
  <2> QED
    BY <1>1, <1>4, OneMore
<1>6. Cardinality(tkn) <= Cardinality(tkn2) /\ Cardinality(tkn2) \in Nat
  BY <1>1, NoMore
<1>7. tkn2 \subseteq Own(m, n) /\ mine2 \subseteq [block : Own(m, n), job : Job]
  BY <1>1 DEF FlowOK
<1> HIDE DEF mine2, tkn2
<1>8. Cardinality(Charged(st2, mine2, tkn2)) <= acc + (err + 1) + Owed(rep)
  BY <1>1, <1>2, <1>3, <1>5
<1>9. acc + Owed(rep) <= Cardinality(tkn2)
  BY <1>1, <1>2, <1>3, <1>6
<1>10. FlowOK(m, st2, mine2, rep, tkn2, acc, err + 1, n)
  BY <1>1, <1>2, <1>7, <1>8, <1>9 DEF FlowOK, Waiting
<1> QED
  BY <1>10 DEF mine2, tkn2

\* Other miners make blocks.
LEMMA FlowGrows ==
    ASSUME NEW m, NEW st, NEW mine, NEW tkn, NEW acc, NEW err, NEW n, NEW rep,
           FlowOK(m, st, mine, rep, tkn, acc, err, n), NEW n2 \in Nat, n <= n2
    PROVE  FlowOK(m, st, mine, rep, tkn, acc, err, n2)
<1>1. n \in Nat
  BY DEF FlowOK
<1>2. Own(m, n) \subseteq Own(m, n2)
  BY <1>1, OwnGrows
<1>3. mine \subseteq [block : Own(m, n2), job : Job] /\ tkn \subseteq Own(m, n2)
  BY <1>2 DEF FlowOK
<1>4. PlaceOK(m, st, n2)
  BY <1>2 DEF FlowOK, PlaceOK, MinerState
<1>5. /\ err \in Nat /\ LimitOK(m, st, acc) /\ rep \in {None} \cup [accepted : BOOLEAN]
      /\ Cardinality(Charged(st, mine, tkn)) <= acc + err + Owed(rep)
      /\ acc + Owed(rep) <= Cardinality(tkn)
  BY DEF FlowOK
<1>6. /\ rep # None =>
            /\ st.at = "wait" /\ (rep.accepted => st.block \in tkn)
            /\ \A s \in mine : s.block # st.block
      /\ st.at = "submit" => st.block \notin tkn /\ \A s \in mine : s.block # st.block
      /\ \A s \in mine : Waiting(st, s) => s.job = st.job /\ s.block \notin tkn
  BY DEF FlowOK
<1> QED
  BY <1>3, <1>4, <1>5, <1>6 DEF FlowOK

Mine(m) == {s \in wire : s.block.by = m}
Flows(m) == FlowOK(m, miner[m], Mine(m), reply[m], taken[m], accepted[m], rpcErrors[m], made)

MinersShape ==
    /\ made \in Nat /\ moves \in 0..MaxMoves /\ faults \in [Miner -> 0..MaxFaults]
    /\ chain \in Seq(Block) /\ chain # <<>>
    /\ DOMAIN miner = Miner /\ DOMAIN accepted = Miner /\ DOMAIN rpcErrors = Miner
    /\ DOMAIN reply = Miner /\ DOMAIN taken = Miner
    /\ \A s \in wire : s.block.by \in Miner

MinersInv == MinersShape /\ \A m \in Miner : Flows(m)

\* The chain of the node is never empty.
LEMMA MinersTip ==
    ASSUME MinersShape
    PROVE  Miners!Tip \in Block /\ Len(chain) \in Nat \ {0}
  BY DEF MinersShape, Miners!Tip, Miners!Last

\* What one miner does leaves the others alone.
LEMMA OneMoves ==
    ASSUME MinersInv, NEW m \in Miner, made' \in Nat, made <= made', Flows(m)',
           \A k \in Miner \ {m} :
               /\ miner'[k] = miner[k] /\ reply'[k] = reply[k] /\ taken'[k] = taken[k]
               /\ accepted'[k] = accepted[k] /\ rpcErrors'[k] = rpcErrors[k]
               /\ Mine(k)' = Mine(k)
    PROVE  \A k \in Miner : Flows(k)'
<1>1. SUFFICES ASSUME NEW k \in Miner, k # m
               PROVE  Flows(k)'
  OBVIOUS
<1>2. FlowOK(k, miner[k], Mine(k), reply[k], taken[k], accepted[k], rpcErrors[k], made)
  BY DEF MinersInv, Flows
<1>3. FlowOK(k, miner[k], Mine(k), reply[k], taken[k], accepted[k], rpcErrors[k], made')
  BY <1>2, FlowGrows
<1> QED
  BY <1>1, <1>3 DEF Flows

\* Where a miner that loops is.
LEMMA LoopPlace ==
    ASSUME Miners!IndominerAssumption, NEW m \in Miner, NEW n \in Nat,
           NEW place \in {"loop", "stopped", "failed"}, place = "failed" => m \in Once \/ ~Retry
    PROVE  /\ PlaceOK(m, [Miners!Looping EXCEPT !.at = place], n)
           /\ PlaceOK(m, Miners!Looping, n) /\ Miners!Looping.at = "loop"
           /\ [Miners!Looping EXCEPT !.at = place].at = place
  BY DEF PlaceOK, MinerState, Miners!Looping

\* The miners start without blocks.
LEMMA MinersStart ==
    ASSUME Miners!IndominerAssumption, Miners!Init
    PROVE  MinersInv
<1>1. MinersShape
  BY DEF Miners!IndominerAssumption, Miners!Init, MinersShape, Miners!Genesis, Block, Miners!Block
<1>2. ASSUME NEW m \in Miner
      PROVE  Flows(m)
  <2>1. /\ miner[m] = Miners!Looping /\ reply[m] = None /\ taken[m] = {} /\ accepted[m] = 0
        /\ rpcErrors[m] = 0 /\ made = 0 /\ Mine(m) = {}
    BY <1>2 DEF Miners!Init, Mine
  <2>2. PlaceOK(m, Miners!Looping, 0) /\ Miners!Looping.at = "loop"
    BY LoopPlace
  <2>3. LimitOK(m, Miners!Looping, 0)
    BY <2>2 DEF LimitOK, Miners!IndominerAssumption
  <2>4. Charged(Miners!Looping, {}, {}) = {} /\ Cardinality({}) = 0 /\ Owed(None) = 0
    BY FS_EmptySet DEF Charged, Owed
  <2>5. FlowOK(m, Miners!Looping, {}, None, {}, 0, 0, 0)
    BY <2>2, <2>3, <2>4 DEF FlowOK
  <2> QED
    BY <2>1, <2>5 DEF Flows
<1> QED
  BY <1>1, <1>2 DEF MinersInv

\* A miner that is not in "wait" goes somewhere else.
LEMMA MinerGoes ==
    ASSUME Miners!IndominerAssumption, MinersInv, NEW m \in Miner, NEW st2,
           miner[m].at # "wait", Miners!Become(m, st2),
           made' \in Nat, made <= made', PlaceOK(m, st2, made'), st2.at # "wait", LimitOK(m, st2, accepted[m]),
           st2.at = "submit" => st2.block \notin taken[m] /\ \A s \in Mine(m) : s.block # st2.block,
           \/ rpcErrors' = rpcErrors
           \/ rpcErrors' = [rpcErrors EXCEPT ![m] = @ + 1],
           faults' \in [Miner -> 0..MaxFaults],
           UNCHANGED <<chain, moves, accepted, wire, reply, taken>>
    PROVE  MinersInv'
<1>1. DOMAIN miner = Miner /\ DOMAIN rpcErrors = Miner
  BY DEF MinersInv, MinersShape
<1>2. miner'[m] = st2 /\ \A k \in Miner \ {m} : miner'[k] = miner[k]
  BY <1>1 DEF Miners!Become
<1>3. DOMAIN miner' = Miner
  BY <1>1 DEF Miners!Become
<1>4. DOMAIN rpcErrors' = Miner /\ \A k \in Miner \ {m} : rpcErrors'[k] = rpcErrors[k]
  BY <1>1
<1>5. rpcErrors'[m] \in {rpcErrors[m], rpcErrors[m] + 1}
  BY <1>1
<1>6. FlowOK(m, miner[m], Mine(m), reply[m], taken[m], accepted[m], rpcErrors[m], made)
  BY DEF MinersInv, Flows
<1>7. rpcErrors'[m] \in Nat /\ rpcErrors[m] <= rpcErrors'[m]
  BY <1>5, <1>6 DEF FlowOK
<1>8. FlowOK(m, st2, Mine(m), reply[m], taken[m], accepted[m], rpcErrors'[m], made')
  BY <1>6, <1>7, FlowMoves
<1>9. Flows(m)'
  BY <1>2, <1>8 DEF Flows, Mine
<1>10. \A k \in Miner : Flows(k)'
  BY <1>2, <1>4, <1>9, OneMoves DEF Mine
<1>11. MinersShape'
  BY <1>3, <1>4 DEF MinersInv, MinersShape
<1> QED
  BY <1>10, <1>11 DEF MinersInv

\* What is known of a miner.
LEMMA MinerHas ==
    ASSUME MinersInv, NEW m \in Miner
    PROVE  /\ MinersShape /\ made \in Nat
           /\ FlowOK(m, miner[m], Mine(m), reply[m], taken[m], accepted[m], rpcErrors[m], made)
           /\ PlaceOK(m, miner[m], made) /\ LimitOK(m, miner[m], accepted[m])
           /\ miner[m] \in MinerState(m, made)
  BY DEF MinersInv, MinersShape, Flows, FlowOK, PlaceOK

\* A step that lasts.
LEMMA MinersMove ==
    ASSUME Miners!IndominerAssumption, MinersInv, NEW m \in Miner,
           Miners!StopAtMax(m) \/ Miners!FetchTemplate(m) \/ Miners!FetchFails(m) \/ Miners!Found(m)
              \/ Miners!SearchFails(m) \/ Miners!MonitorAsks(m) \/ Miners!MonitorChecks(m)
    PROVE  MinersInv'
<1>1. /\ MinersShape /\ made \in Nat /\ PlaceOK(m, miner[m], made) /\ LimitOK(m, miner[m], accepted[m])
      /\ miner[m] \in MinerState(m, made)
      /\ FlowOK(m, miner[m], Mine(m), reply[m], taken[m], accepted[m], rpcErrors[m], made)
  BY MinerHas
<1>2. Miners!Tip \in Block /\ Len(chain) \in Nat
  BY <1>1, MinersTip
<1>3. faults \in [Miner -> 0..MaxFaults] /\ MaxFaults \in Nat
  BY <1>1 DEF MinersShape, Miners!IndominerAssumption
<1>4. CASE Miners!StopAtMax(m)
  <2> DEFINE st2 == [Miners!Looping EXCEPT !.at = "stopped"]
  <2>1. PlaceOK(m, st2, made) /\ st2.at = "stopped"
    BY <1>1, LoopPlace
  <2>2. Miners!Become(m, st2) /\ miner[m].at = "loop"
    BY <1>4 DEF Miners!StopAtMax
  <2> HIDE DEF st2
  <2>3. LimitOK(m, st2, accepted[m])
    BY <1>1, <2>1, <2>2 DEF LimitOK
  <2>4. UNCHANGED <<chain, made, moves, accepted, rpcErrors, wire, reply, taken, faults>>
    BY <1>4 DEF Miners!StopAtMax
  <2> QED
    BY <1>1, <1>3, <2>1, <2>2, <2>3, <2>4, MinerGoes
<1>5. CASE Miners!FetchTemplate(m)
  <2> DEFINE asked == [parent |-> Miners!Tip, height |-> Len(chain)]
             st2 == [Miners!Looping EXCEPT !.at = "mining", !.job = asked]
  <2>1. asked \in Job /\ asked # None
    BY <1>2 DEF Job, Miners!Job, Block, Miners!IndominerAssumption
  <2>2. Miners!Become(m, st2) /\ miner[m].at = "loop" /\ ~Miners!Reached(m)
    BY <1>5 DEF Miners!FetchTemplate
  <2> HIDE DEF asked
  <2>3. PlaceOK(m, st2, made) /\ st2.at = "mining"
    BY <2>1 DEF PlaceOK, MinerState, Miners!Looping
  <2> HIDE DEF st2
  <2>4. LimitOK(m, st2, accepted[m])
    BY <1>1, <2>2, <2>3 DEF LimitOK, Miners!Reached, Miners!IndominerAssumption
  <2>5. UNCHANGED <<chain, made, moves, accepted, rpcErrors, wire, reply, taken, faults>>
    BY <1>5 DEF Miners!FetchTemplate
  <2> QED
    BY <1>1, <1>3, <2>2, <2>3, <2>4, <2>5, MinerGoes
<1>6. CASE Miners!FetchFails(m)
  <2> DEFINE place == IF m \in Once \/ ~Retry THEN "failed" ELSE "loop"
             st2 == [Miners!Looping EXCEPT !.at = place]
  <2>1. place \in {"loop", "failed"} /\ (place = "failed" => m \in Once \/ ~Retry)
    OBVIOUS
  <2>2. Miners!Become(m, st2) /\ miner[m].at = "loop" /\ rpcErrors' = [rpcErrors EXCEPT ![m] = @ + 1]
    BY <1>6 DEF Miners!FetchFails
  <2>3. Miners!Fails(m, "request") /\ UNCHANGED <<chain, made, moves, accepted, wire, reply, taken>>
    BY <1>6 DEF Miners!FetchFails
  <2> HIDE DEF place
  <2>4. PlaceOK(m, st2, made) /\ st2.at = place
    BY <1>1, <2>1, LoopPlace
  <2> HIDE DEF st2
  <2>5. LimitOK(m, st2, accepted[m])
    BY <1>1, <2>1, <2>2, <2>4 DEF LimitOK
  <2>6. faults' \in [Miner -> 0..MaxFaults]
    BY <1>3, <2>3 DEF Miners!Fails
  <2>7. st2.at # "wait" /\ st2.at # "submit"
    BY <2>1, <2>4
  <2>8. made' \in Nat /\ made <= made' /\ PlaceOK(m, st2, made')
    BY <1>1, <2>3, <2>4
  <2>9. miner[m].at # "wait" /\ UNCHANGED <<chain, moves, accepted, wire, reply, taken>>
    BY <2>2, <2>3
  <2> QED
    BY <2>2, <2>5, <2>6, <2>7, <2>8, <2>9, MinerGoes
<1>7. CASE Miners!Found(m)
  <2> DEFINE b == [by |-> m, hash |-> made']
             st2 == [miner[m] EXCEPT !.at = "submit", !.block = b, !.info = None]
  <2>1. made' = made + 1 /\ miner[m].at = "mining" /\ Miners!Become(m, st2)
    BY <1>7 DEF Miners!Found
  <2>2. b \in Own(m, made') /\ b \notin Own(m, made)
    BY <1>1, <2>1 DEF Own
  <2>3. b # None
    <3>1. b \in Block
      BY <1>1, <2>1 DEF Block, Miners!Block
    <3> QED
      BY <3>1 DEF Miners!IndominerAssumption, Block
  <2>4. UNCHANGED <<chain, moves, accepted, rpcErrors, wire, reply, taken, faults>>
    BY <1>7 DEF Miners!Found
  <2> HIDE DEF b
  <2>5. miner[m].job # None /\ miner[m].job \in {None} \cup Job
    BY <1>1, <2>1 DEF PlaceOK, MinerState
  <2>6. st2.at = "submit" /\ st2.block = b /\ st2.job = miner[m].job /\ st2.info = None
    BY <1>1 DEF MinerState
  <2>7. st2 \in MinerState(m, made')
    BY <1>1, <2>2, <2>5, <2>6 DEF MinerState
  <2> HIDE DEF st2
  <2>8. PlaceOK(m, st2, made')
    BY <2>3, <2>5, <2>6, <2>7 DEF PlaceOK
  <2>9. LimitOK(m, st2, accepted[m])
    BY <1>1, <2>1, <2>6 DEF LimitOK
  <2>10. b \notin taken[m] /\ \A s \in Mine(m) : s.block # b
    BY <1>1, <2>2 DEF FlowOK
  <2>11. made' \in Nat /\ made <= made'
    BY <1>1, <2>1
  <2> QED
    BY <1>1, <1>3, <2>1, <2>4, <2>6, <2>8, <2>9, <2>10, <2>11, MinerGoes
<1>8. CASE Miners!SearchFails(m)
  <2>1. Miners!Become(m, Miners!Looping) /\ miner[m].at = "mining" /\ Miners!Fails(m, "search")
    BY <1>8 DEF Miners!SearchFails
  <2>2. UNCHANGED <<chain, made, moves, accepted, rpcErrors, wire, reply, taken>>
    BY <1>8 DEF Miners!SearchFails
  <2>3. PlaceOK(m, Miners!Looping, made) /\ Miners!Looping.at = "loop"
    BY <1>1, LoopPlace
  <2>4. LimitOK(m, Miners!Looping, accepted[m])
    BY <1>1, <2>1, <2>3 DEF LimitOK
  <2>5. faults' \in [Miner -> 0..MaxFaults]
    BY <1>3, <2>1 DEF Miners!Fails
  <2> QED
    BY <1>1, <2>1, <2>2, <2>3, <2>4, <2>5, MinerGoes
<1>9. ASSUME NEW info \in {None} \cup [height : Int, tip : Block], miner[m].at = "mining",
             Miners!Become(m, [miner[m] EXCEPT !.info = info]),
             UNCHANGED <<chain, made, moves, accepted, rpcErrors, wire, reply, taken, faults>>
      PROVE  MinersInv'
  <2> DEFINE st2 == [miner[m] EXCEPT !.info = info]
  <2>1. st2 \in MinerState(m, made) /\ st2.at = miner[m].at /\ st2.job = miner[m].job /\ st2.block = miner[m].block
    BY <1>1, <1>9 DEF MinerState
  <2>2. Miners!Become(m, st2)
    BY <1>9
  <2> HIDE DEF st2
  <2>3. PlaceOK(m, st2, made)
    BY <1>1, <2>1 DEF PlaceOK
  <2>4. LimitOK(m, st2, accepted[m])
    BY <1>1, <2>1 DEF LimitOK
  <2> QED
    BY <1>1, <1>3, <1>9, <2>1, <2>2, <2>3, <2>4, MinerGoes
<1>10. CASE Miners!MonitorAsks(m)
  <2> DEFINE info == [height |-> Len(chain) - 1, tip |-> Miners!Tip]
  <2>1. info \in {None} \cup [height : Int, tip : Block]
    BY <1>2
  <2>2. /\ miner[m].at = "mining" /\ Miners!Become(m, [miner[m] EXCEPT !.info = info])
        /\ UNCHANGED <<chain, made, moves, accepted, rpcErrors, wire, reply, taken, faults>>
    BY <1>10 DEF Miners!MonitorAsks
  <2> HIDE DEF info
  <2> QED
    BY <1>9, <2>1, <2>2
<1>11. CASE Miners!MonitorChecks(m)
  <2>1. /\ miner[m].at = "mining"
        /\ UNCHANGED <<chain, made, moves, accepted, rpcErrors, wire, reply, taken, faults>>
    BY <1>11 DEF Miners!MonitorChecks
  <2>2. CASE Miners!StaleJobReason(miner[m].info, miner[m].job)
    <3>1. Miners!Become(m, Miners!Looping)
      BY <1>11, <2>2 DEF Miners!MonitorChecks
    <3>2. PlaceOK(m, Miners!Looping, made) /\ Miners!Looping.at = "loop"
      BY <1>1, LoopPlace
    <3>3. LimitOK(m, Miners!Looping, accepted[m])
      BY <1>1, <2>1, <3>2 DEF LimitOK
    <3> QED
      BY <1>1, <1>3, <2>1, <3>1, <3>2, <3>3, MinerGoes
  <2>3. CASE ~Miners!StaleJobReason(miner[m].info, miner[m].job)
    <3>1. Miners!Become(m, [miner[m] EXCEPT !.info = None])
      BY <1>11, <2>3 DEF Miners!MonitorChecks
    <3> QED
      BY <1>9, <2>1, <3>1
  <2> QED
    BY <2>2, <2>3
<1> QED
  BY <1>4, <1>5, <1>6, <1>7, <1>8, <1>10, <1>11

\* A miner submits its block.
LEMMA MinersSubmit ==
    ASSUME Miners!IndominerAssumption, MinersInv, NEW m \in Miner, Miners!SubmitBlock(m)
    PROVE  MinersInv'
<1> DEFINE x == [block |-> miner[m].block, job |-> miner[m].job]
           st2 == [miner[m] EXCEPT !.at = "wait"]
<1>1. /\ MinersShape /\ made \in Nat /\ PlaceOK(m, miner[m], made) /\ miner[m] \in MinerState(m, made)
      /\ FlowOK(m, miner[m], Mine(m), reply[m], taken[m], accepted[m], rpcErrors[m], made)
  BY MinerHas
<1>2. miner[m].at = "submit" /\ wire' = wire \cup {x} /\ Miners!Become(m, st2)
  BY DEF Miners!SubmitBlock
<1>3. UNCHANGED <<chain, made, moves, accepted, rpcErrors, reply, taken, faults>>
  BY DEF Miners!SubmitBlock
<1>4. miner[m].block \in Own(m, made)
  BY <1>1, <1>2 DEF PlaceOK, MinerState
<1>5. x.block.by = m
  BY <1>4 DEF Own
<1>6. FlowOK(m, st2, Mine(m) \cup {x}, reply[m], taken[m], accepted[m], rpcErrors[m], made)
  BY <1>1, <1>2, FlowSubmits
<1> HIDE DEF x, st2
<1>7. Mine(m)' = Mine(m) \cup {x} /\ \A k \in Miner \ {m} : Mine(k)' = Mine(k)
  BY <1>2, <1>5 DEF Mine
<1>8. miner'[m] = st2 /\ DOMAIN miner' = Miner /\ \A k \in Miner \ {m} : miner'[k] = miner[k]
  BY <1>1, <1>2 DEF Miners!Become, MinersShape
<1>9. Flows(m)'
  BY <1>3, <1>6, <1>7, <1>8 DEF Flows
<1>10. \A k \in Miner : Flows(k)'
  BY <1>1, <1>3, <1>7, <1>8, <1>9, OneMoves
<1>11. MinersShape'
  BY <1>1, <1>2, <1>3, <1>5, <1>8 DEF MinersShape
<1> QED
  BY <1>10, <1>11 DEF MinersInv

\* A miner reads the answer of the node, counts an accepted block and starts
\* again.
LEMMA MinersAnswer ==
    ASSUME Miners!IndominerAssumption, MinersInv, NEW m \in Miner, Miners!Answer(m)
    PROVE  MinersInv'
<1> DEFINE place == IF m \in Once /\ reply[m].accepted THEN "stopped" ELSE "loop"
           st2 == [Miners!Looping EXCEPT !.at = place]
<1>1. /\ MinersShape /\ made \in Nat /\ PlaceOK(m, miner[m], made) /\ LimitOK(m, miner[m], accepted[m])
      /\ FlowOK(m, miner[m], Mine(m), reply[m], taken[m], accepted[m], rpcErrors[m], made)
  BY MinerHas
<1>2. miner[m].at = "wait" /\ reply[m] # None /\ reply[m] \in [accepted : BOOLEAN]
  BY <1>1 DEF FlowOK, Miners!Answer
<1>3. UNCHANGED <<chain, made, moves, rpcErrors, wire, taken, faults>>
  BY DEF Miners!Answer
<1>4. Miners!Become(m, st2)
  BY DEF Miners!Answer, Miners!Looping
<1>5. /\ DOMAIN reply' = Miner /\ reply'[m] = None
      /\ \A k \in Miner \ {m} : reply'[k] = reply[k]
  BY <1>1 DEF Miners!Answer, MinersShape
<1>6. accepted[m] \in Nat
  BY <1>1 DEF LimitOK
<1>7. /\ DOMAIN accepted' = Miner /\ accepted'[m] = accepted[m] + Owed(reply[m])
      /\ \A k \in Miner \ {m} : accepted'[k] = accepted[k]
  BY <1>1, <1>2, <1>6 DEF Miners!Answer, MinersShape, Owed
<1>8. Owed(reply[m]) = (IF reply[m].accepted THEN 1 ELSE 0) /\ place \in {"loop", "stopped"}
      /\ (m \in Once /\ reply[m].accepted => place = "stopped")
  BY <1>2 DEF Owed
<1> HIDE DEF place
<1>9. PlaceOK(m, st2, made) /\ st2.at = place
  BY <1>1, <1>8, LoopPlace
<1> HIDE DEF st2
<1>10. LimitOK(m, st2, accepted[m] + Owed(reply[m]))
  BY <1>1, <1>2, <1>6, <1>8, <1>9 DEF LimitOK, Miners!IndominerAssumption
<1>11. st2.at \notin {"submit", "wait"}
  BY <1>8, <1>9
<1>12. FlowOK(m, st2, Mine(m), None, taken[m], accepted[m] + Owed(reply[m]), rpcErrors[m], made)
  BY <1>1, <1>2, <1>9, <1>10, <1>11, FlowAnswer
<1>13. miner'[m] = st2 /\ DOMAIN miner' = Miner /\ \A k \in Miner \ {m} : miner'[k] = miner[k]
  BY <1>1, <1>4 DEF Miners!Become, MinersShape
<1>14. \A k \in Miner : Mine(k)' = Mine(k)
  BY <1>3 DEF Mine
<1>15. Flows(m)'
  BY <1>3, <1>5, <1>7, <1>12, <1>13, <1>14 DEF Flows
<1>16. \A k \in Miner : Flows(k)'
  BY <1>1, <1>3, <1>5, <1>7, <1>13, <1>14, <1>15, OneMoves
<1>17. MinersShape'
  BY <1>1, <1>3, <1>5, <1>7, <1>13 DEF MinersShape
<1> QED
  BY <1>16, <1>17 DEF MinersInv

\* A submit fails for the miner, by a timeout or a lost connection, and may
\* reach the node all the same.
LEMMA MinersGiveUp ==
    ASSUME Miners!IndominerAssumption, MinersInv, NEW m \in Miner, Miners!SubmitFails(m)
    PROVE  MinersInv'
<1>1. /\ MinersShape /\ made \in Nat /\ PlaceOK(m, miner[m], made) /\ LimitOK(m, miner[m], accepted[m])
      /\ FlowOK(m, miner[m], Mine(m), reply[m], taken[m], accepted[m], rpcErrors[m], made)
  BY MinerHas
<1>2. miner[m].at = "wait" /\ Miners!Become(m, Miners!Looping) /\ Miners!Fails(m, "request")
  BY DEF Miners!SubmitFails
<1>3. UNCHANGED <<chain, made, moves, accepted, taken>> /\ wire' \in {wire, {s \in wire : s.block.by # m}}
  BY DEF Miners!SubmitFails
<1>4. Mine(m)' \in {Mine(m), {}}
  BY <1>3 DEF Mine
<1>5. \A k \in Miner \ {m} : Mine(k)' = Mine(k)
  <2>1. CASE wire' = wire
    BY <2>1 DEF Mine
  <2>2. CASE wire' = {s \in wire : s.block.by # m}
    BY <2>2 DEF Mine
  <2> QED
    BY <1>3, <2>1, <2>2
<1>6. PlaceOK(m, Miners!Looping, made) /\ Miners!Looping.at = "loop"
  BY <1>1, LoopPlace
<1>7. LimitOK(m, Miners!Looping, accepted[m])
  BY <1>1, <1>2, <1>6 DEF LimitOK
<1>8. FlowOK(m, Miners!Looping, Mine(m)', None, taken[m], accepted[m], rpcErrors[m] + 1, made)
  BY <1>1, <1>2, <1>4, <1>6, <1>7, FlowGivesUp
<1>9. miner'[m] = Miners!Looping /\ DOMAIN miner' = Miner /\ \A k \in Miner \ {m} : miner'[k] = miner[k]
  BY <1>1, <1>2 DEF Miners!Become, MinersShape
<1>10. /\ DOMAIN reply' = Miner /\ reply'[m] = None /\ DOMAIN rpcErrors' = Miner
       /\ rpcErrors'[m] = rpcErrors[m] + 1
       /\ \A k \in Miner \ {m} : reply'[k] = reply[k] /\ rpcErrors'[k] = rpcErrors[k]
  BY <1>1 DEF Miners!SubmitFails, MinersShape
<1>11. Flows(m)'
  BY <1>3, <1>8, <1>9, <1>10 DEF Flows
<1>12. \A k \in Miner : Flows(k)'
  BY <1>1, <1>3, <1>5, <1>9, <1>10, <1>11, OneMoves
<1>13. faults' \in [Miner -> 0..MaxFaults]
  BY <1>1, <1>2 DEF Miners!Fails, MinersShape, Miners!IndominerAssumption
<1>14. MinersShape'
  BY <1>1, <1>3, <1>9, <1>10, <1>13 DEF MinersShape
<1> QED
  BY <1>12, <1>14 DEF MinersInv

\* The blocks of the node's chain are blocks.
LEMMA Extends ==
    ASSUME MinersShape, NEW b \in Block
    PROVE  /\ Append(chain, b) \in Seq(Block) /\ Append(chain, b) # <<>>
           /\ Append(Miners!Front(chain), b) \in Seq(Block) /\ Append(Miners!Front(chain), b) # <<>>
<1>1. chain \in Seq(Block) /\ chain # <<>>
  BY DEF MinersShape
<1>2. Miners!Front(chain) \in Seq(Block)
  BY <1>1 DEF Miners!Front
<1>3. ASSUME NEW q \in Seq(Block)
      PROVE  Append(q, b) \in Seq(Block) /\ Append(q, b) # <<>>
  <2>1. Len(Append(q, b)) = Len(q) + 1 /\ Len(q) \in Nat
    OBVIOUS
  <2>2. Append(q, b) # <<>>
    BY <2>1
  <2> QED
    BY <2>2
<1> QED
  BY <1>1, <1>2, <1>3

\* The node takes or refuses a submitted block and answers.
LEMMA MinersHandle ==
    ASSUME Miners!IndominerAssumption, MinersInv, NEW s \in wire, Miners!MinerSubmit(s)
    PROVE  MinersInv'
<1> DEFINE m == s.block.by
           extends == s.job.parent = Miners!Tip /\ s.job.height = Len(chain)
<1>0. m \in Miner
  BY DEF MinersInv, MinersShape
<1>1. /\ MinersShape /\ made \in Nat
      /\ FlowOK(m, miner[m], Mine(m), reply[m], taken[m], accepted[m], rpcErrors[m], made)
  BY <1>0, MinerHas
<1>2. s \in Mine(m) /\ s.block \in Own(m, made)
  BY <1>1 DEF FlowOK, Mine
<1>3. UNCHANGED <<made, moves, miner, accepted, rpcErrors, faults>> /\ wire' = wire \ {s}
  BY DEF Miners!MinerSubmit
<1>4. chain' = IF extends THEN Append(chain, s.block) ELSE chain
  BY DEF Miners!MinerSubmit
<1>5. /\ taken' = IF extends THEN [taken EXCEPT ![m] = @ \cup {s.block}] ELSE taken
      /\ reply' = IF Miners!Waits(s) THEN [reply EXCEPT ![m] = [accepted |-> extends]] ELSE reply
  BY DEF Miners!MinerSubmit
<1>6. Miners!Waits(s) <=> Waiting(miner[m], s)
  BY DEF Miners!Waits, Waiting
<1>7. extends \in BOOLEAN
  OBVIOUS
<1>8. PICK takes \in BOOLEAN : takes = extends
  BY <1>7
<1> HIDE DEF extends
<1>9. DOMAIN taken = Miner /\ DOMAIN reply = Miner
  BY <1>1 DEF MinersShape
<1>10. s.block.by = m
  OBVIOUS
<1> HIDE DEF m
<1>11. /\ DOMAIN taken' = Miner /\ taken'[m] = (IF takes THEN taken[m] \cup {s.block} ELSE taken[m])
       /\ \A k \in Miner \ {m} : taken'[k] = taken[k]
  BY <1>0, <1>5, <1>8, <1>9
<1>12. /\ DOMAIN reply' = Miner
       /\ reply'[m] = (IF Waiting(miner[m], s) THEN [accepted |-> takes] ELSE reply[m])
       /\ \A k \in Miner \ {m} : reply'[k] = reply[k]
  BY <1>0, <1>5, <1>6, <1>8, <1>9
<1>13. None \notin [accepted : BOOLEAN]
  BY DEF Miners!IndominerAssumption
<1>14. FlowOK(m, miner[m], Mine(m) \ {s}, reply'[m], taken'[m], accepted[m], rpcErrors[m], made)
  BY <1>1, <1>2, <1>11, <1>12, <1>13, FlowHandled
<1>15. Mine(m)' = Mine(m) \ {s} /\ \A k \in Miner \ {m} : Mine(k)' = Mine(k)
  BY <1>3, <1>10 DEF Mine
<1>16. Flows(m)'
  BY <1>3, <1>14, <1>15 DEF Flows
<1>17. \A k \in Miner : Flows(k)'
  BY <1>0, <1>1, <1>3, <1>11, <1>12, <1>15, <1>16, OneMoves
<1>18. s.block \in Block
  BY <1>0, <1>1, <1>2 DEF Own, Block, Miners!Block
<1>19. chain' \in Seq(Block) /\ chain' # <<>>
  <2>1. chain \in Seq(Block) /\ chain # <<>>
    BY <1>1 DEF MinersShape
  <2> QED
    BY <1>1, <1>4, <1>18, <2>1, Extends
<1>20. MinersShape'
  BY <1>1, <1>3, <1>11, <1>12, <1>19 DEF MinersShape
<1> QED
  BY <1>17, <1>20 DEF MinersInv

\* The node takes a block and its answer is an error.
LEMMA MinersFail ==
    ASSUME Miners!IndominerAssumption, MinersInv, NEW s \in wire, Miners!MinerSubmitFails(s)
    PROVE  MinersInv'
<1> DEFINE m == s.block.by
<1>0. m \in Miner
  BY DEF MinersInv, MinersShape
<1>1. /\ MinersShape /\ made \in Nat /\ PlaceOK(m, miner[m], made) /\ LimitOK(m, miner[m], accepted[m])
      /\ FlowOK(m, miner[m], Mine(m), reply[m], taken[m], accepted[m], rpcErrors[m], made)
  BY <1>0, MinerHas
<1>2. s \in Mine(m) /\ s.block \in Own(m, made)
  BY <1>1 DEF FlowOK, Mine
<1>3. UNCHANGED <<made, moves, accepted, reply>> /\ wire' = wire \ {s} /\ chain' = Append(chain, s.block)
  BY DEF Miners!MinerSubmitFails
<1>4. taken' = [taken EXCEPT ![m] = @ \cup {s.block}] /\ rpcErrors' = [rpcErrors EXCEPT ![m] = @ + 1]
  BY DEF Miners!MinerSubmitFails
<1>5. Waiting(miner[m], s) /\ Miners!Become(m, Miners!Looping) /\ Miners!Fails(m, "node")
  BY DEF Miners!MinerSubmitFails, Miners!Waits, Waiting
<1>6. s.block.by = m
  OBVIOUS
<1> HIDE DEF m
<1>7. PlaceOK(m, Miners!Looping, made) /\ Miners!Looping.at = "loop"
  BY <1>0, <1>1, LoopPlace
<1>8. LimitOK(m, Miners!Looping, accepted[m])
  BY <1>1, <1>5, <1>7 DEF LimitOK, Waiting
<1>9. FlowOK(m, Miners!Looping, Mine(m) \ {s}, reply[m], taken[m] \cup {s.block}, accepted[m], rpcErrors[m] + 1, made)
  BY <1>1, <1>2, <1>5, <1>7, <1>8, FlowFails
<1>10. miner'[m] = Miners!Looping /\ DOMAIN miner' = Miner /\ \A k \in Miner \ {m} : miner'[k] = miner[k]
  BY <1>0, <1>1, <1>5 DEF Miners!Become, MinersShape
<1>11. /\ DOMAIN taken' = Miner /\ taken'[m] = taken[m] \cup {s.block}
       /\ DOMAIN rpcErrors' = Miner /\ rpcErrors'[m] = rpcErrors[m] + 1
       /\ \A k \in Miner \ {m} : taken'[k] = taken[k] /\ rpcErrors'[k] = rpcErrors[k]
  BY <1>0, <1>1, <1>4 DEF MinersShape
<1>12. Mine(m)' = Mine(m) \ {s} /\ \A k \in Miner \ {m} : Mine(k)' = Mine(k)
  BY <1>3, <1>6 DEF Mine
<1>13. Flows(m)'
  BY <1>3, <1>9, <1>10, <1>11, <1>12 DEF Flows
<1>14. \A k \in Miner : Flows(k)'
  BY <1>0, <1>1, <1>3, <1>10, <1>11, <1>12, <1>13, OneMoves
<1>15. faults' \in [Miner -> 0..MaxFaults]
  BY <1>0, <1>1, <1>5 DEF Miners!Fails, MinersShape, Miners!IndominerAssumption
<1>16. s.block \in Block
  BY <1>0, <1>1, <1>2 DEF Own, Block, Miners!Block
<1>17. chain' \in Seq(Block) /\ chain' # <<>>
  BY <1>1, <1>3, <1>16, Extends
<1>18. MinersShape'
  BY <1>1, <1>3, <1>10, <1>11, <1>15, <1>17 DEF MinersShape
<1> QED
  BY <1>14, <1>18 DEF MinersInv

\* The node refuses a block before it looks at the chain.
LEMMA MinersRefused ==
    ASSUME Miners!IndominerAssumption, MinersInv, NEW s \in wire, Miners!MinerRefuses(s)
    PROVE  MinersInv'
<1> DEFINE m == s.block.by
<1>0. m \in Miner
  BY DEF MinersInv, MinersShape
<1>1. /\ MinersShape /\ made \in Nat
      /\ FlowOK(m, miner[m], Mine(m), reply[m], taken[m], accepted[m], rpcErrors[m], made)
  BY <1>0, MinerHas
<1>2. s \in Mine(m) /\ s.block \in Own(m, made)
  BY <1>1 DEF FlowOK, Mine
<1>3. UNCHANGED <<chain, made, moves, miner, accepted, rpcErrors, taken>> /\ wire' = wire \ {s}
  BY DEF Miners!MinerRefuses
<1>4. reply' = IF Miners!Waits(s) THEN [reply EXCEPT ![m] = [accepted |-> FALSE]] ELSE reply
  BY DEF Miners!MinerRefuses
<1>5. Miners!Waits(s) <=> Waiting(miner[m], s)
  BY DEF Miners!Waits, Waiting
<1>6. Miners!Fails(m, "node")
  BY DEF Miners!MinerRefuses
<1>7. s.block.by = m
  OBVIOUS
<1> HIDE DEF m
<1>8. /\ DOMAIN reply' = Miner
      /\ reply'[m] = (IF Waiting(miner[m], s) THEN [accepted |-> FALSE] ELSE reply[m])
      /\ \A k \in Miner \ {m} : reply'[k] = reply[k]
  BY <1>0, <1>1, <1>4, <1>5 DEF MinersShape
<1>9. None \notin [accepted : BOOLEAN]
  BY DEF Miners!IndominerAssumption
<1>10. PICK takes \in BOOLEAN : takes = FALSE
  OBVIOUS
<1>11. /\ taken[m] = (IF takes THEN taken[m] \cup {s.block} ELSE taken[m])
       /\ reply'[m] = (IF Waiting(miner[m], s) THEN [accepted |-> takes] ELSE reply[m])
  BY <1>8, <1>10
<1>12. FlowOK(m, miner[m], Mine(m) \ {s}, reply'[m], taken[m], accepted[m], rpcErrors[m], made)
  BY <1>1, <1>2, <1>9, <1>11, FlowHandled
<1>13. Mine(m)' = Mine(m) \ {s} /\ \A k \in Miner \ {m} : Mine(k)' = Mine(k)
  BY <1>3, <1>7 DEF Mine
<1>14. Flows(m)'
  BY <1>3, <1>12, <1>13 DEF Flows
<1>15. \A k \in Miner : Flows(k)'
  BY <1>0, <1>1, <1>3, <1>8, <1>13, <1>14, OneMoves
<1>16. faults' \in [Miner -> 0..MaxFaults]
  BY <1>0, <1>1, <1>6 DEF Miners!Fails, MinersShape, Miners!IndominerAssumption
<1>17. MinersShape'
  BY <1>1, <1>3, <1>8, <1>16 DEF MinersShape
<1> QED
  BY <1>15, <1>17 DEF MinersInv

\* The chain of the node moves without the miners.
LEMMA MinersOutside ==
    ASSUME Miners!IndominerAssumption, MinersInv, Miners!ChainMoves
    PROVE  MinersInv'
<1> DEFINE foreign == [by |-> None, hash |-> made + 1]
<1>1. MinersShape /\ made \in Nat /\ moves \in 0..MaxMoves /\ MaxMoves \in Nat
  BY DEF MinersInv, MinersShape, Miners!IndominerAssumption
<1>2. foreign \in Block
  BY <1>1 DEF Block, Miners!Block
<1>3. made' = made + 1 /\ moves' \in 0..MaxMoves
  BY <1>1 DEF Miners!ChainMoves
<1>4. UNCHANGED <<miner, accepted, rpcErrors, wire, reply, taken, faults>>
  BY DEF Miners!ChainMoves
<1>5. chain' \in {Append(chain, foreign), Append(Miners!Front(chain), foreign)}
  BY DEF Miners!ChainMoves
<1> HIDE DEF foreign
<1>6. chain' \in Seq(Block) /\ chain' # <<>>
  BY <1>1, <1>2, <1>5, Extends
<1>7. ASSUME NEW k \in Miner
      PROVE  Flows(k)'
  <2>1. FlowOK(k, miner[k], Mine(k), reply[k], taken[k], accepted[k], rpcErrors[k], made)
    BY MinerHas
  <2>2. made' \in Nat /\ made <= made'
    BY <1>1, <1>3
  <2>3. FlowOK(k, miner[k], Mine(k), reply[k], taken[k], accepted[k], rpcErrors[k], made')
    BY <2>1, <2>2, FlowGrows
  <2> QED
    BY <1>4, <2>3 DEF Flows, Mine
<1>8. MinersShape'
  BY <1>1, <1>3, <1>4, <1>6 DEF MinersShape
<1> QED
  BY <1>7, <1>8 DEF MinersInv

\* Every step keeps the invariant.
LEMMA MinersStep ==
    ASSUME Miners!IndominerAssumption, MinersInv, [Miners!Next]_(Miners!vars)
    PROVE  MinersInv'
<1>1. CASE UNCHANGED Miners!vars
  BY <1>1 DEF Miners!vars, MinersInv, MinersShape, Flows, Mine
<1>2. ASSUME NEW m \in Miner, Miners!StopAtMax(m) \/ Miners!FetchTemplate(m) \/ Miners!FetchFails(m) \/ Miners!Found(m)
              \/ Miners!SearchFails(m) \/ Miners!MonitorAsks(m) \/ Miners!MonitorChecks(m)
      PROVE  MinersInv'
  BY <1>2, MinersMove
<1>3. ASSUME NEW m \in Miner, Miners!SubmitBlock(m) \/ Miners!Answer(m) \/ Miners!SubmitFails(m)
      PROVE  MinersInv'
  BY <1>3, MinersSubmit, MinersAnswer, MinersGiveUp
<1>4. ASSUME NEW s \in wire, Miners!MinerSubmit(s) \/ Miners!MinerSubmitFails(s) \/ Miners!MinerRefuses(s)
      PROVE  MinersInv'
  BY <1>4, MinersHandle, MinersFail, MinersRefused
<1>5. CASE Miners!ChainMoves
  BY <1>5, MinersOutside
<1> QED
  BY <1>1, <1>2, <1>3, <1>4, <1>5 DEF Miners!Next

\* indominer, for any number of miners, blocks and faults: the statistics of a
\* miner are those of the blocks the node took, but for an error answer each, a
\* limit on the blocks holds by that count, and a miner works on a template only
\* while the limits ask for one.
THEOREM MinersCountTruly ==
    ASSUME Miners!IndominerAssumption
    PROVE  Miners!Spec => [](Miners!TypeOK /\ Miners!CountIsTrue /\ Miners!AskedIsMined /\ CountIsTrue)
<1>1. Miners!Init => MinersInv
  BY MinersStart
<1>2. MinersInv /\ [Miners!Next]_(Miners!vars) => MinersInv'
  BY MinersStep
<1>3. MinersInv => Miners!TypeOK /\ Miners!CountIsTrue /\ Miners!AskedIsMined
  <2>1. SUFFICES ASSUME MinersInv
                 PROVE  Miners!TypeOK /\ Miners!CountIsTrue /\ Miners!AskedIsMined
    OBVIOUS
  <2>2. Miners!TypeOK
    <3>1. ASSUME NEW m \in Miner
          PROVE  /\ miner[m].at \in {"loop", "mining", "submit", "wait", "stopped", "failed"}
                 /\ miner[m].at \in {"mining", "submit", "wait"} <=> miner[m].job # None
                 /\ miner[m].at \in {"submit", "wait"} <=> miner[m].block # None
                 /\ miner[m].at = "failed" => m \in Once \/ ~Retry
      <4>1. PlaceOK(m, miner[m], made) /\ miner[m] \in MinerState(m, made)
        BY <2>1, <3>1, MinerHas
      <4> QED
        BY <4>1 DEF PlaceOK, MinerState
    <3>2. made \in Nat /\ moves \in 0..MaxMoves /\ faults \in [Miner -> 0..MaxFaults]
      BY <2>1 DEF MinersInv, MinersShape
    <3> QED
      BY <3>1, <3>2 DEF Miners!TypeOK
  <2>3. ASSUME NEW m \in Miner
        PROVE  /\ accepted[m] <= Cardinality(taken[m])
               /\ Cardinality(taken[m]) <= accepted[m] + rpcErrors[m] + (IF miner[m].at = "wait" THEN 1 ELSE 0)
               /\ MaxBlocks[m] > 0 => Cardinality(taken[m]) <= MaxBlocks[m] + rpcErrors[m]
               /\ m \in Once => Cardinality(taken[m]) <= 1 + rpcErrors[m]
    <3>1. FlowOK(m, miner[m], {s \in wire : s.block.by = m}, reply[m], taken[m], accepted[m], rpcErrors[m], made)
      BY <2>1, <2>3 DEF MinersInv, Flows, Mine
    <3> QED
      BY <2>3, <3>1, FlowIsEnough
  <2>4. \A m \in Miner : Miners!Cardinality(taken[m]) = Cardinality(taken[m])
    BY MinersCardinality
  <2> QED
    BY <2>2, <2>3, <2>4 DEF Miners!CountIsTrue, Miners!AskedIsMined
<1> QED
  BY <1>1, <1>2, <1>3, PTL DEF Miners!Spec, CountIsTrue
===========================================================================
