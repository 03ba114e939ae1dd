---------------------------- MODULE MCServices -----------------------------
(***************************************************************************)
(* The services beside the chain: service nodes and their agents, the      *)
(* explorer's index and the faucet.  A behaviour is one of a few           *)
(* scenarios; what it is not about rests.                                  *)
(***************************************************************************)
EXTENDS Integers, ServiceParts

VARIABLES
    nodes, challenges, rewards, at, job, myNodes, myChallenges, myRewards, agent, saved, issued

nodeVars == <<nodes, challenges, rewards, at, job, myNodes, myChallenges, myRewards, agent, saved, issued>>
indexVars == <<chain, index, holder, indexer, reader, seen, walk>>
faucetVars == <<requests, pool, confirmed, handler, unrecorded>>
vars == <<scenario, nodeVars, indexVars, faucetVars, now, faults>>

NodesRest ==
    /\ nodes = None /\ challenges = None /\ rewards = None /\ at = None /\ job = None /\ myNodes = None
    /\ myChallenges = None /\ myRewards = None /\ agent = None /\ saved = None /\ issued = None
IndexRests ==
    /\ chain = None /\ index = None /\ holder = None /\ indexer = None /\ reader = None
    /\ seen = None /\ walk = None
FaucetRests == requests = None /\ pool = None /\ confirmed = None /\ handler = None /\ unrecorded = None
---------------------------------------------------------------------------
\* A good measurement and a failed one.
Good == [latency |-> 50, up |-> 10, down |-> 50, success |-> TRUE]
Bad == [latency |-> 400, up |-> 1, down |-> 0, success |-> FALSE]

\* An agent beside clients that answer its challenges, with calls that time out
\* and crashes of both sides; a node without agents that is asked for everything;
\* and two requests for rewards over a day's end.
Agent == INSTANCE ServiceNodes WITH
    Owner <- {"o1"}, Worker <- {"w1"}, Agents <- {"o1"}, Ops <- {"submit"}, Measurements <- {Good, Bad},
    MaxBytes <- 1999, MaxRecent <- 1, SpamGap <- 1, UptimeFull <- 1, UptimeHalf <- 2, ChallengeTTL <- 0, Day <- 2,
    MaxTime <- 1, MaxChallenges <- 2, MaxFaults <- 1, MaxPenalty <- 15
Clients == INSTANCE ServiceNodes WITH
    Owner <- {"o1"}, Worker <- {"w1"}, Agents <- {}, Ops <- {"register", "heartbeat", "create", "submit"},
    Measurements <- {Good, Bad},
    MaxBytes <- 1999, MaxRecent <- 1, SpamGap <- 1, UptimeFull <- 1, UptimeHalf <- 2, ChallengeTTL <- 0, Day <- 2,
    MaxTime <- 1, MaxChallenges <- 2, MaxFaults <- 1, MaxPenalty <- 30
Rewards == INSTANCE ServiceNodes WITH
    Owner <- {"o1"}, Worker <- {"w1", "w2"}, Agents <- {}, Ops <- {"register", "rewards"}, Measurements <- {Good},
    MaxBytes <- 1999, MaxRecent <- 1, SpamGap <- 1, UptimeFull <- 1, UptimeHalf <- 2, ChallengeTTL <- 0, Day <- 2,
    MaxTime <- 2, MaxChallenges <- 1, MaxFaults <- 0, MaxPenalty <- 0

ASSUME ParametersAreRight ==
    /\ Agent!ServiceAssumption /\ Clients!ServiceAssumption /\ Rewards!ServiceAssumption
    /\ Explorer!ExplorerAssumption /\ Taps!FaucetAssumption
---------------------------------------------------------------------------
Init ==
    \/ /\ IndexRests /\ FaucetRests
       /\ \/ scenario = "agent" /\ Agent!Init
          \/ scenario = "clients" /\ Clients!Init
          \/ scenario = "rewards" /\ Rewards!Init
    \/ /\ NodesRest /\ FaucetRests /\ now = None
       /\ scenario \in {"lookups", "pages", "busy"} /\ Explorer!Init
    \/ /\ NodesRest /\ IndexRests
       /\ scenario = "payments" /\ Taps!Init

ServiceStep ==
    /\ \/ scenario = "agent" /\ Agent!Next
       \/ scenario = "clients" /\ Clients!Next
       \/ scenario = "rewards" /\ Rewards!Next
    /\ UNCHANGED <<scenario, indexVars, faucetVars>>

\* A reader of a transaction, with a disk error or a crash; one that walks the
\* pages of a history; and one that keeps explorer.db busy.
Within(txs, work, most, queries) ==
    /\ Explorer!Next
    /\ Explorer!Work(chain') <= work /\ \A h \in DOMAIN chain' : chain'[h].txs \subseteq txs
    /\ faults' <= most
    /\ \A r \in Reader : /\ reader'[r].query \in queries \cup {None}
                         /\ reader'[r].query = "tx" => reader'[r].key \in txs

ExplorerStep ==
    /\ \/ scenario = "lookups" /\ Within({1}, 3, 1, {"tx"})
       \/ scenario = "pages" /\ Within({1, 2}, 2, 0, {"events"})
       \/ scenario = "busy" /\ Within({}, 3, 1, {"status", "stats", "block"})
    /\ UNCHANGED <<scenario, nodeVars, faucetVars, now>>

FaucetStep ==
    /\ scenario = "payments" /\ Taps!Next
    /\ UNCHANGED <<scenario, nodeVars, indexVars>>

Next == ServiceStep \/ ExplorerStep \/ FaucetStep

\* The loop of the indexer ticks forever, and an open of a file that is free
\* again and again succeeds in the end.
Fairness ==
    /\ SF_indexVars(scenario = "busy" /\ Explorer!Loop)
    /\ SF_indexVars(scenario = "busy" /\ Explorer!Serve("r1"))

Spec == Init /\ [][Next]_vars /\ Fairness
---------------------------------------------------------------------------
\* Whatever stops between the two writes of a submission, an answer that counts
\* for the reliability of a node has its sample in the record of the node; what an
\* agent counts as passed the node counts as passed, through lost answers and
\* restarts of both; an owner has one row of simulated points per day, also when
\* requests overlap.  Penalties are not forgotten by another registration, and a
\* challenge is answered once: SubmitChallenge refuses one that is "already
\* passed", failed or expired.
RecordsAgree ==
    /\ [](/\ scenario = "agent" => Agent!TypeOK /\ Agent!AnswerIsRecorded /\ Agent!PassedIsPassed
          /\ scenario = "clients" => Clients!TypeOK /\ Clients!AnswerIsRecorded
          /\ scenario = "rewards" => Rewards!TypeOK /\ Rewards!OneRewardPerDay)
    /\ [][/\ scenario = "agent" => Agent!KeepsPenalties /\ Agent!KeepsAnswers
          /\ scenario = "clients" => Clients!KeepsPenalties /\ Clients!KeepsAnswers]_vars

\* Once the chain rests, the indexer's loop brings the index to it and keeps it
\* there, however busy explorer.db is.
IndexConverges == <>[](scenario = "busy" => Explorer!Converged)
===========================================================================
