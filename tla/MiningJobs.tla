---------------------------- MODULE MiningJobs ----------------------------
(***************************************************************************)
(* mining.Service: the one job that POST /mine runs at a time, and what    *)
(* /mining/status says of it.  The handler mines and commits block after   *)
(* block; the service's mutex covers single calls only.                    *)
(***************************************************************************)
EXTENDS Integers, FiniteSets

CONSTANTS
    Worker,         \* handlers of POST /mine
    MaxRequested,   \* bound: blocks of a request
    MaxJobs         \* bound: jobs of a run

\* What is assumed of the parameters.
JobsAssumption == MaxRequested \in Nat \ {0} /\ MaxJobs \in Nat

VARIABLES
    job,        \* currentJob
    jobs,       \* how many were started
    at, left,   \* where each handler is, and how many blocks it has yet to mine
    committed   \* the blocks each handler has committed for its job

vars == <<job, jobs, at, left, committed>>

NoJob == [id |-> 0, status |-> "idle", requested |-> 0, mined |-> 0, error |-> FALSE]

Init ==
    /\ job = NoJob /\ jobs = 0
    /\ at = [w \in Worker |-> "off"]
    /\ left = [w \in Worker |-> 0]
    /\ committed = [w \in Worker |-> 0]

Goto(w, place) == at' = [at EXCEPT ![w] = place]
---------------------------------------------------------------------------
\* Mutated form: a job that runs is replaced.
CanStartAlways == TRUE

CanStart == job.status # "running"

Start(w, n) ==
    /\ at[w] = "off" /\ jobs < MaxJobs /\ CanStart
    /\ jobs' = jobs + 1
    /\ job' = [id |-> jobs', status |-> "running", requested |-> n, mined |-> 0, error |-> FALSE]
    /\ left' = [left EXCEPT ![w] = n]
    /\ committed' = [committed EXCEPT ![w] = 0]
    /\ Goto(w, "search")

\* Mutated form: the job keeps its status.
FinishNothing(status) == job' = job

\* Fail and Cancel.
Finish(status) == job' = [job EXCEPT !.status = status, !.error = TRUE]

\* The search fails, its client goes away, or the handler panics and recovers.
SearchFails(w) ==
    /\ at[w] = "search"
    /\ \E status \in {"failed", "cancelled"} : Finish(status)
    /\ Goto(w, "off")
    /\ UNCHANGED <<jobs, left, committed>>

Found(w) ==
    /\ at[w] = "search"
    /\ Goto(w, "commit")
    /\ UNCHANGED <<job, jobs, left, committed>>

\* The block no longer extends the chain, or the mempool cannot be saved once the
\* block is in it.
CommitFails(w) ==
    /\ at[w] = "commit"
    /\ Finish("failed")
    /\ committed' \in {committed, [committed EXCEPT ![w] = @ + 1]}
    /\ Goto(w, "off")
    /\ UNCHANGED <<jobs, left>>

Commit(w) ==
    /\ at[w] = "commit"
    /\ committed' = [committed EXCEPT ![w] = @ + 1]
    /\ Goto(w, "record")
    /\ UNCHANGED <<job, jobs, left>>

\* Mutated form: the last block is not recorded.
RecordAllButLast(w) ==
    /\ at[w] = "record"
    /\ job' = IF job.status = "running" /\ left[w] > 1 THEN [job EXCEPT !.mined = @ + 1] ELSE job
    /\ left' = [left EXCEPT ![w] = @ - 1]
    /\ Goto(w, IF left[w] > 1 THEN "search" ELSE "complete")
    /\ UNCHANGED <<jobs, committed>>

RecordBlock(w) ==
    /\ at[w] = "record"
    /\ job' = IF job.status = "running" THEN [job EXCEPT !.mined = @ + 1] ELSE job
    /\ left' = [left EXCEPT ![w] = @ - 1]
    /\ Goto(w, IF left[w] > 1 THEN "search" ELSE "complete")
    /\ UNCHANGED <<jobs, committed>>

Complete(w) ==
    /\ at[w] = "complete"
    /\ job' = [job EXCEPT !.status = "completed"]
    /\ Goto(w, "off")
    /\ UNCHANGED <<jobs, left, committed>>

Next ==
    \E w \in Worker :
        \/ \E n \in 1..MaxRequested : Start(w, n)
        \/ SearchFails(w) \/ Found(w) \/ CommitFails(w) \/ Commit(w) \/ RecordBlock(w) \/ Complete(w)

Spec == Init /\ [][Next]_vars
---------------------------------------------------------------------------
Busy == {w \in Worker : at[w] # "off"}

\* A job runs exactly as long as one handler works on it: two never mine at once,
\* and no failure leaves a job running that blocks every later request.
RunningHasOneWorker == Cardinality(Busy) = (IF job.status = "running" THEN 1 ELSE 0)

\* The status says how many blocks of the job are in the chain: all of them up to
\* the one that is being recorded, and all that were asked for once it completed.
StatusIsTrue ==
    /\ \A w \in Busy : job.mined + (IF at[w] = "record" THEN 1 ELSE 0) = committed[w]
    /\ job.status = "completed" => job.mined = job.requested

\* A finished job keeps its outcome until the next one starts.
KeepsOutcome == job.status \notin {"idle", "running"} /\ job'.id = job.id => job' = job

\* All of this, at every moment of a behaviour.
JobIsTrue == [](RunningHasOneWorker /\ StatusIsTrue) /\ [][KeepsOutcome]_vars
===========================================================================
