--------------------------- MODULE ServiceNodes ---------------------------
(***************************************************************************)
(* The service-node store of a node, three JSON files, under the service   *)
(* handlers of its RPC server, and the service agent that calls them.      *)
(* Every read and every write of a file holds the mutex of that file, a    *)
(* handler holds nothing in between: a worker keeps its copies of the      *)
(* files and a step is one access.  Bytes are counted in millions, time in *)
(* ticks.                                                                  *)
(***************************************************************************)
EXTENDS Integers, Sequences, FiniteSetsExt

CONSTANTS
    Owner, Worker, None,
    Agents,             \* owners that run a service agent
    Ops,                \* what else happens in a run
    Measurements,       \* what is submitted to a challenge
    MaxBytes,           \* the largest signed integer
    MaxRecent,          \* maxRecentItems
    SpamGap, UptimeFull, UptimeHalf, ChallengeTTL, Day,    \* in ticks
    MaxTime, MaxChallenges, MaxFaults,
    MaxPenalty          \* no requests of an owner with a higher penalty

\* What is assumed of the parameters.
ServiceAssumption ==
    /\ Agents \subseteq Owner
    /\ {MaxBytes, MaxRecent, SpamGap, UptimeFull, UptimeHalf, ChallengeTTL, MaxTime,
        MaxChallenges, MaxPenalty, MaxFaults} \subseteq Nat
    /\ Day \in Nat \ {0}
    /\ Measurements \subseteq [latency : Nat, up : 0..MaxBytes, down : 0..MaxBytes, success : BOOLEAN]

Id == 1..MaxChallenges

VARIABLES
    nodes, challenges, rewards,     \* the files
    at, job,                        \* where each worker is, and its request
    myNodes, myChallenges, myRewards,   \* what it has loaded
    agent,                          \* each agent in memory
    saved,                          \* the state file of each agent
    now, issued, faults

files == <<nodes, challenges, rewards>>
copies == <<myNodes, myChallenges, myRewards>>
clock == <<now, issued, faults>>
vars == <<files, at, job, copies, agent, saved, clock>>
---------------------------------------------------------------------------
\* The sum of two counters, with the wrap-around of a signed integer.
Bytes(m) ==
    LET sum == m.up + m.down
    IN  IF sum > MaxBytes THEN sum - 2 * (MaxBytes + 1) ELSE sum

Clamp(value) == IF value < 0 THEN 0 ELSE IF value > 100 THEN 100 ELSE value

UptimeScore(seen) ==
    CASE now - seen <= UptimeFull -> 100 [] now - seen <= UptimeHalf -> 50 [] OTHER -> 0

LatencyScore(ms) ==
    CASE ms <= 50 -> 100 [] ms <= 100 -> 80 [] ms <= 250 -> 60 [] ms <= 500 -> 30 [] OTHER -> 10

BandwidthScore(bytes) ==
    CASE bytes >= 100 -> 100 [] bytes >= 50 -> 80 [] bytes >= 10 -> 50 [] bytes >= 1 -> 20 [] OTHER -> 5

Answered(file, o, statuses) == {c \in Id : file[c] # None /\ file[c].owner = o /\ file[c].status \in statuses}

ReliabilityScore(file, o) ==
    LET total == Cardinality(Answered(file, o, {"passed", "failed", "expired"}))
    IN  IF total = 0 THEN 0 ELSE (100 * Cardinality(Answered(file, o, {"passed"}))) \div total

Score(node, file, o) ==
    LET n == Len(node.samples)
        latency == IF n = 0 THEN 0 ELSE LatencyScore(node.samples[n].latency)
        bandwidth == IF n = 0 THEN 0 ELSE BandwidthScore(Bytes(node.samples[n]))
        raw == (UptimeScore(node.seen) * 30 + latency * 20 + bandwidth * 30
                  + ReliabilityScore(file, o) * 20) \div 100
    IN  Clamp(raw - node.penalty)

AddFlag(node, flag, penalty) ==
    [node EXCEPT !.flags = @ \cup {flag}, !.penalty = Clamp(@ + penalty)]

AddFlagIf(condition, node, flag, penalty) == IF condition THEN AddFlag(node, flag, penalty) ELSE node

AppendRecent(samples, m) ==
    LET all == Append(samples, m)
    IN  SubSeq(all, 1 + (IF Len(all) > MaxRecent THEN Len(all) - MaxRecent ELSE 0), Len(all))

NewNode == [status |-> "registered", seen |-> now, changes |-> 0, flags |-> {}, penalty |-> 0, samples |-> <<>>]

\* Another endpoint than before; the third change and every later one is abuse.
Moved(node, moves) ==
    LET n == [node EXCEPT !.changes = IF moves /\ @ < 3 THEN @ + 1 ELSE @]
    IN  AddFlagIf(moves /\ n.changes >= 3, n, "endpoint_changed_too_often", 20)

\* Mutated form: every registration starts with a clean record.
RegisteredAnew(node, moves) == NewNode

\* Registration adds a node or updates the one of the owner.
Registered(node, moves) ==
    IF node = None THEN NewNode ELSE [Moved(node, moves) EXCEPT !.status = "registered"]

Beaten(node, moves) ==
    LET n == AddFlagIf(now - node.seen < SpamGap, Moved(node, moves), "heartbeat_spam", 10)
    IN  [n EXCEPT !.seen = now, !.status = "active"]

Expired(challenge) == now > challenge.expires

\* What a submission makes of the node ...
Measured(node, challenge, m) ==
    LET n == Len(node.samples)
        repeated == n > 0 /\ [node.samples[n] EXCEPT !.success = m.success] = m
        a == AddFlagIf(~m.success, node, "challenge_failed", 15)
        b == AddFlagIf(Bytes(m) > 1000, a, "impossible_bandwidth", 40)
        c == AddFlagIf(repeated, b, "repeated_identical_samples", 10)
    IN  IF Expired(challenge) THEN AddFlag(node, "challenge_expired", 15)
        ELSE [c EXCEPT !.samples = AppendRecent(@, m)]

\* ... and of the challenge.
Answer(challenge, m) ==
    [challenge EXCEPT !.status = IF Expired(challenge) THEN "expired" ELSE IF m.success THEN "passed" ELSE "failed"]
---------------------------------------------------------------------------
Idle == [op |-> None, owner |-> None, id |-> 0, m |-> None, moves |-> FALSE, caller |-> FALSE]
NoAgent == [at |-> "off", id |-> 0, total |-> 0, passed |-> 0, failed |-> 0]

Init ==
    /\ nodes = [o \in Owner |-> None]
    /\ challenges = [c \in Id |-> None]
    /\ rewards = <<>>
    /\ at = [w \in Worker |-> "idle"] /\ job = [w \in Worker |-> Idle]
    /\ myNodes = [w \in Worker |-> nodes] /\ myChallenges = [w \in Worker |-> challenges]
    /\ myRewards = [w \in Worker |-> rewards]
    /\ agent = [o \in Owner |-> NoAgent] /\ saved = agent
    /\ now = 0 /\ issued = 0 /\ faults = 0

\* The answer of a handler and what an agent that still waits makes of it.
Ok(status) == [ok |-> TRUE, status |-> status, id |-> 0]
Error == [ok |-> FALSE, status |-> "error", id |-> 0]

\* Mutated form: an answer that was already given counts as passed.
HeardAlreadyPassed(a, result) ==
    LET passed == result.status \in {"passed", "already"}
    IN  CASE a.at = "registering" /\ ~result.ok -> [a EXCEPT !.at = "off"]
          [] a.at = "creating" /\ result.ok -> [a EXCEPT !.at = "created", !.id = result.id, !.total = @ + 1]
          [] a.at = "submitting" /\ passed -> [a EXCEPT !.at = "idle", !.passed = @ + 1]
          [] a.at = "submitting" /\ ~passed -> [a EXCEPT !.at = "idle", !.failed = @ + 1]
          [] OTHER -> [a EXCEPT !.at = "idle"]

Heard(a, result) ==
    CASE a.at = "registering" /\ ~result.ok -> [a EXCEPT !.at = "off"]
      [] a.at = "creating" /\ result.ok -> [a EXCEPT !.at = "created", !.id = result.id, !.total = @ + 1]
      [] a.at = "submitting" /\ result.status = "passed" -> [a EXCEPT !.at = "idle", !.passed = @ + 1]
      [] a.at = "submitting" /\ result.status # "passed" -> [a EXCEPT !.at = "idle", !.failed = @ + 1]
      [] OTHER -> [a EXCEPT !.at = "idle"]

Reply(w, result) ==
    /\ at' = [at EXCEPT ![w] = "idle"]
    /\ job' = [job EXCEPT ![w] = Idle]
    /\ myNodes' = [myNodes EXCEPT ![w] = [o \in Owner |-> None]]
    /\ myChallenges' = [myChallenges EXCEPT ![w] = [c \in Id |-> None]]
    /\ myRewards' = [myRewards EXCEPT ![w] = <<>>]
    /\ agent' = IF job[w].caller THEN [agent EXCEPT ![job[w].owner] = Heard(@, result)] ELSE agent

Goto(w, place) == at' = [at EXCEPT ![w] = place] /\ UNCHANGED <<job, agent>>
Continue(w, place) == Goto(w, place) /\ UNCHANGED copies

Start(w, request) ==
    /\ at[w] = "idle"
    /\ nodes[request.owner] # None => nodes[request.owner].penalty <= MaxPenalty
    /\ at' = [at EXCEPT ![w] = request.op]
    /\ job' = [job EXCEPT ![w] = request]
    /\ UNCHANGED <<files, copies, saved, clock>>
---------------------------------------------------------------------------
\* Handlers.

\* register and heartbeat load the nodes and change the copy ...
ChangeNode(w) ==
    LET o == job[w].owner
    IN  /\ at[w] \in {"register", "heartbeat"}
        /\ IF at[w] = "heartbeat" /\ nodes[o] = None THEN Reply(w, Error)
           ELSE /\ myNodes' = [myNodes EXCEPT ![w] =
                      [nodes EXCEPT ![o] = IF at[w] = "register" THEN Registered(@, job[w].moves)
                                                                 ELSE Beaten(@, job[w].moves)]]
                /\ Goto(w, "save node")
                /\ UNCHANGED <<myChallenges, myRewards>>
        /\ UNCHANGED <<files, saved, clock>>

\* ... which is then written over the file.
SaveNode(w) ==
    /\ at[w] = "save node"
    /\ nodes' = myNodes[w]
    /\ Reply(w, Ok("ok"))
    /\ UNCHANGED <<challenges, rewards, saved, clock>>

FindNode(w) ==
    /\ at[w] = "create"
    /\ IF nodes[job[w].owner] = None THEN Reply(w, Error) ELSE Continue(w, "new challenge")
    /\ UNCHANGED <<files, saved, clock>>

CreateChallenge(w) ==
    /\ at[w] = "new challenge"
    /\ issued < MaxChallenges
    /\ myChallenges' = [myChallenges EXCEPT ![w] =
          [challenges EXCEPT ![issued + 1] =
              [owner |-> job[w].owner, status |-> "pending", expires |-> now + ChallengeTTL]]]
    /\ job' = [job EXCEPT ![w].id = issued + 1]
    /\ issued' = issued + 1
    /\ at' = [at EXCEPT ![w] = "save challenge"]
    /\ UNCHANGED <<files, myNodes, myRewards, agent, saved, now, faults>>

SaveChallenge(w) ==
    /\ at[w] = "save challenge"
    /\ challenges' = myChallenges[w]
    /\ Reply(w, [Ok("pending") EXCEPT !.id = job[w].id])
    /\ UNCHANGED <<nodes, rewards, saved, clock>>

\* Mutated form: the status of the challenge is not looked at.
SubmitAgain(w) ==
    /\ at[w] = "submit"
    /\ challenges[job[w].id] # None
    /\ myChallenges' = [myChallenges EXCEPT ![w] = challenges]
    /\ Goto(w, "measure")
    /\ UNCHANGED <<files, myNodes, myRewards, saved, clock>>

SubmitLoad(w) ==
    LET c == challenges[job[w].id]
    IN  /\ at[w] = "submit"
        /\ IF c = None THEN Reply(w, Error)
           ELSE IF c.status # "pending" THEN Reply(w, [Error EXCEPT !.status = "already"])
           ELSE /\ myChallenges' = [myChallenges EXCEPT ![w] = challenges]
                /\ Goto(w, "measure")
                /\ UNCHANGED <<myNodes, myRewards>>
        /\ UNCHANGED <<files, saved, clock>>

Measure(w) ==
    LET c == myChallenges[w][job[w].id]
    IN  /\ at[w] = "measure"
        /\ IF nodes[c.owner] = None THEN Reply(w, Error)
           ELSE /\ myNodes' = [myNodes EXCEPT ![w] = [nodes EXCEPT ![c.owner] = Measured(@, c, job[w].m)]]
                /\ myChallenges' = [myChallenges EXCEPT ![w][job[w].id] = Answer(c, job[w].m)]
                /\ Goto(w, "save sample")
                /\ UNCHANGED myRewards
        /\ UNCHANGED <<files, saved, clock>>

\* Mutated form: the challenges are saved before the nodes.
SaveAnswerFirst(w) ==
    /\ at[w] = "save sample"
    /\ challenges' = myChallenges[w]
    /\ nodes' = nodes
    /\ Continue(w, "save answer")
    /\ UNCHANGED <<rewards, saved, clock>>

SaveSample(w) ==
    /\ at[w] = "save sample"
    /\ nodes' = myNodes[w]
    /\ Continue(w, "save answer")
    /\ UNCHANGED <<challenges, rewards, saved, clock>>

SaveAnswer(w) ==
    LET status == myChallenges[w][job[w].id].status
    IN  /\ at[w] = "save answer"
        /\ challenges' = myChallenges[w]
        /\ Reply(w, IF status = "expired" THEN Error ELSE Ok(status))
        /\ UNCHANGED <<nodes, rewards, saved, clock>>

\* Rewards: the score of the owner, and the row of the day.
RewardNode(w) ==
    /\ at[w] = "rewards"
    /\ IF nodes[job[w].owner] = None THEN Reply(w, Error)
       ELSE /\ myNodes' = [myNodes EXCEPT ![w] = nodes]
            /\ Goto(w, "score")
            /\ UNCHANGED <<myChallenges, myRewards>>
    /\ UNCHANGED <<files, saved, clock>>

RewardScore(w) ==
    /\ at[w] = "score"
    /\ myChallenges' = [myChallenges EXCEPT ![w] = challenges]
    /\ Goto(w, "row")
    /\ UNCHANGED <<files, myNodes, myRewards, saved, clock>>

\* Mutated form: a row per request.
WithEveryRow(rows, row) == Append(rows, row)

WithRow(rows, row) ==
    LET same == {i \in DOMAIN rows : rows[i].owner = row.owner /\ rows[i].day = row.day}
    IN  IF same = {} THEN Append(rows, row) ELSE [rows EXCEPT ![Min(same)] = row]

RewardRow(w) ==
    LET o == job[w].owner
        row == [owner |-> o, day |-> now \div Day, score |-> Score(myNodes[w][o], myChallenges[w], o)]
    IN  /\ at[w] = "row"
        /\ myRewards' = [myRewards EXCEPT ![w] = WithRow(rewards, row)]
        /\ Goto(w, "save rewards")
        /\ UNCHANGED <<files, myNodes, myChallenges, saved, clock>>

SaveRewards(w) ==
    /\ at[w] = "save rewards"
    /\ rewards' = myRewards[w]
    /\ Reply(w, Ok("ok"))
    /\ UNCHANGED <<nodes, challenges, saved, clock>>
---------------------------------------------------------------------------
\* Clients: anybody with access to the RPC server, and the agents.

Request(op, o, c, m, moves) ==
    [op |-> op, owner |-> o, id |-> c, m |-> m, moves |-> moves, caller |-> FALSE]

Client(w, o) ==
    /\ \/ \E op \in {"register", "heartbeat"} \cap Ops, moves \in BOOLEAN :
            Start(w, Request(op, o, 0, None, moves))
       \/ \E op \in {"create", "rewards"} \cap Ops : Start(w, Request(op, o, 0, None, FALSE))
       \/ \E c \in 1..issued, m \in Measurements :
            "submit" \in Ops /\ Start(w, Request("submit", o, c, m, FALSE))
    /\ UNCHANGED agent

AgentCalls(w, o, from, to, request) ==
    /\ agent[o].at = from
    /\ Start(w, [request EXCEPT !.caller = TRUE])
    /\ agent' = [agent EXCEPT ![o].at = to]

\* Run: the state file is loaded and the agent registers.
AgentRun(w, o) ==
    /\ o \in Agents /\ agent[o].at = "off"
    /\ Start(w, [Request("register", o, 0, None, FALSE) EXCEPT !.caller = TRUE])
    /\ agent' = [agent EXCEPT ![o] = [saved[o] EXCEPT !.at = "registering"]]

AgentHeartbeat(w, o) == AgentCalls(w, o, "idle", "beating", Request("heartbeat", o, 0, None, FALSE))
AgentChallenge(w, o) == AgentCalls(w, o, "idle", "creating", Request("create", o, 0, None, FALSE))
AgentSubmit(w, o) ==
    \E m \in Measurements : AgentCalls(w, o, "created", "submitting", Request("submit", o, agent[o].id, m, FALSE))

\* With every score the state is saved, and when the agent is shut down.
AgentSave(o) ==
    /\ agent[o].at = "idle"
    /\ saved' = [saved EXCEPT ![o] = [agent[o] EXCEPT !.at = "off", !.id = 0]]
    /\ \E next \in {"idle", "off"} : agent' = [agent EXCEPT ![o].at = next]
    /\ UNCHANGED <<files, at, job, copies, clock>>

\* The call is lost or times out; its handler may still run.
AgentTimeout(o) ==
    /\ agent[o].at \in {"registering", "beating", "creating", "submitting"}
    /\ faults < MaxFaults
    /\ faults' = faults + 1
    /\ agent' = [agent EXCEPT ![o] = Heard(@, Error)]
    /\ job' = [w \in Worker |-> IF job[w].owner = o THEN [job[w] EXCEPT !.caller = FALSE] ELSE job[w]]
    /\ UNCHANGED <<files, at, copies, saved, now, issued>>

\* The agent or the node stops between two steps.
AgentCrash(o) ==
    /\ agent[o].at # "off" /\ faults < MaxFaults
    /\ faults' = faults + 1
    /\ agent' = [agent EXCEPT ![o] = NoAgent]
    /\ job' = [w \in Worker |-> IF job[w].owner = o THEN [job[w] EXCEPT !.caller = FALSE] ELSE job[w]]
    /\ UNCHANGED <<files, at, copies, saved, now, issued>>

Crash(w) ==
    /\ at[w] # "idle" /\ faults < MaxFaults
    /\ faults' = faults + 1
    /\ Reply(w, Error)
    /\ UNCHANGED <<files, saved, now, issued>>

Tick ==
    /\ now < MaxTime
    /\ now' = now + 1
    /\ UNCHANGED <<files, at, job, copies, agent, saved, issued, faults>>

Handler(w) ==
    \/ ChangeNode(w) \/ SaveNode(w)
    \/ FindNode(w) \/ CreateChallenge(w) \/ SaveChallenge(w)
    \/ SubmitLoad(w) \/ Measure(w) \/ SaveSample(w) \/ SaveAnswer(w)
    \/ RewardNode(w) \/ RewardScore(w) \/ RewardRow(w) \/ SaveRewards(w)

Next ==
    \/ \E w \in Worker : Handler(w) \/ Crash(w)
    \/ \E w \in Worker, o \in Owner :
        Client(w, o) \/ AgentRun(w, o) \/ AgentHeartbeat(w, o) \/ AgentChallenge(w, o) \/ AgentSubmit(w, o)
    \/ \E o \in Owner : AgentSave(o) \/ AgentTimeout(o) \/ AgentCrash(o)
    \/ Tick

Spec == Init /\ [][Next]_vars
---------------------------------------------------------------------------
\* Penalties, samples and answers stay within their bounds, and a challenge
\* belongs to a node that is registered.
TypeOK ==
    /\ \A o \in Owner : nodes[o] # None =>
          /\ nodes[o].penalty \in 0..100
          /\ Len(nodes[o].samples) <= MaxRecent
          /\ nodes[o].seen <= now
    /\ \A c \in Id : challenges[c] # None => c <= issued /\ nodes[challenges[c].owner] # None

\* Whatever stops between the two writes of a submission: an answer that counts
\* for the reliability of a node has its sample in the record of the node.
AnswerIsRecorded ==
    \A o \in Owner : nodes[o] # None =>
        LET answers == Cardinality(Answered(challenges, o, {"passed", "failed"}))
        IN  Len(nodes[o].samples) >= Min({answers, MaxRecent})

\* What an agent counts as passed the node counts as passed, through lost
\* answers and restarts of both.
PassedIsPassed ==
    \A o \in Agents :
        /\ agent[o].passed <= Cardinality(Answered(challenges, o, {"passed"}))
        /\ saved[o].passed + saved[o].failed = saved[o].total

\* An owner has one row of simulated points per day, also when requests overlap.
OneRewardPerDay ==
    \A i, j \in DOMAIN rewards :
        rewards[i].owner = rewards[j].owner /\ rewards[i].day = rewards[j].day => i = j

\* Penalties are not forgotten, neither by another registration.
KeepsPenalties ==
    \A o \in Owner : nodes[o] # None => nodes'[o] # None /\ nodes'[o].penalty >= nodes[o].penalty

\* A challenge is answered once: SubmitChallenge refuses one that is "already
\* passed", failed or expired, so no status but pending ever changes.
KeepsAnswers ==
    \A c \in Id : challenges[c] # None /\ challenges[c].status # "pending" => challenges'[c] = challenges[c]
===========================================================================
