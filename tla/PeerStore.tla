---------------------------- MODULE PeerStore -----------------------------
(***************************************************************************)
(* The peers.json file of a node and the goroutines that score peers in    *)
(* it: the synchronisation loop, announcements, the maintenance worker,    *)
(* discovery, introductions by peers and the RPC handlers.  Every method   *)
(* of PeerStore reads and rewrites the file under one mutex, but the       *)
(* callers read, decide and write back in several calls.  A goroutine is   *)
(* the sequence of calls it has still to make.  Times are abstract: a      *)
(* cooldown ends, a retry becomes due and a peer gets old at any moment.   *)
(***************************************************************************)
EXTENDS Integers, FiniteSets, Sequences

CONSTANTS
    Peer, Worker,
    None,
    Seeds,              \* the seed peers of the configuration
    Ops,                \* what happens in a run
    MaxPeers,           \* MaxPeers of the RPC server and of the maintenance
    ScoreMin, ScoreMax, \* PeerScoreMin, PeerScoreMax
    BadThreshold,       \* PeerScoreBadThreshold
    Foreign,            \* peers that may be found to be of another network
    Latencies           \* what the latency of an answer adds to the score

PeerAssumption ==
    /\ Seeds \subseteq Peer
    /\ {ScoreMin, ScoreMax, BadThreshold} \subseteq Int
    /\ ScoreMin <= BadThreshold /\ BadThreshold < 0 /\ 0 < ScoreMax
    /\ Latencies \subseteq {-2, 0, 1, 2}

Status == {"active", "bad", "cooldown", "offline", "rejected", "unknown"}

VARIABLES
    peers,      \* the file: the record of a peer, or None
    todo,       \* the calls that a goroutine has still to make
    read,       \* the file as it read it for a record it writes back
    stored,     \* the file as it read it to compare with the capacity
    up          \* the peers that answer

vars == <<peers, todo, read, stored, up>>

NoFile == [p \in Peer |-> None]

Stored(file) == {p \in Peer : file[p] # None}

ClampScore(score) ==
    IF score > ScoreMax THEN ScoreMax ELSE IF score < ScoreMin THEN ScoreMin ELSE score

StatusForScore(score, fallback) ==
    IF score <= BadThreshold THEN "bad"
    ELSE IF fallback \in {"bad", "cooldown"} THEN "active" ELSE fallback

\* What every load and every save make of a record.
UniqueMetadata(r) ==
    [r EXCEPT !.status = IF r.cooling THEN "cooldown" ELSE StatusForScore(r.score, r.status)]

\* Reasons that start a cooldown once the score is low, though not yet bad.
TriggersCooldown(reason, score) ==
    /\ reason \in {"failed", "invalid block", "fork", "mismatch"}
    /\ score > BadThreshold
    /\ score <= -((-BadThreshold) \div 2)

\* cooling: CooldownUntil lies ahead, waiting: NextRetryAt lies ahead,
\* age: when the peer was last seen, if that is known.
NewRecord(status, age) ==
    [score |-> 0, status |-> status, cooling |-> FALSE, waiting |-> FALSE, seed |-> FALSE, age |-> age]

\* Mutated form: the status is left to the caller.
ScoredOnly(r, delta, reason) == [r EXCEPT !.score = ClampScore(r.score + delta)]

Scored(r, delta, reason) ==
    LET score == ClampScore(r.score + delta)
        cools == TriggersCooldown(reason, score)
    IN  UniqueMetadata([r EXCEPT !.score = score,
                                 !.cooling = @ \/ cools,
                                 !.status = IF cools THEN "cooldown" ELSE StatusForScore(score, @)])

\* AdjustPeerScore.
AdjustPeerScore(file, p, delta, reason) ==
    LET r == IF file[p] = None THEN NewRecord("active", "none") ELSE file[p]
    IN  [file EXCEPT ![p] = Scored(r, delta, reason)]

\* Upsert replaces the whole record.
Upsert(file, p, r) ==
    [file EXCEPT ![p] = UniqueMetadata([r EXCEPT !.score = ClampScore(@),
                                                 !.status = StatusForScore(ClampScore(r.score), @)])]

\* UpdateLatency, with the change of the score that the latency brings.
UpdateLatency(file, p, ok, delta) ==
    LET r == IF file[p] = None THEN NewRecord("unknown", "fresh") ELSE file[p]
        s == [r EXCEPT !.status =
                 IF @ = "bad" THEN @
                 ELSE IF ok THEN "active" ELSE IF @ = "rejected" THEN @ ELSE "offline"]
        reason == IF delta < 0 THEN "failed" ELSE "latency"
    IN  [file EXCEPT ![p] = IF delta = 0 THEN UniqueMetadata(s) ELSE Scored(s, delta, reason)]

\* AddWithSource for a configured seed.
AddSeed(file, p) ==
    [file EXCEPT ![p] = [(IF @ = None THEN NewRecord("unknown", "fresh") ELSE @) EXCEPT !.seed = TRUE]]

Remove(file, p) == [file EXCEPT ![p] = None]

\* PruneExpired.
Expired(r) == r # None /\ ~r.seed /\ r.age = "expired"

PruneExpired(file) == [p \in Peer |-> IF Expired(file[p]) THEN None ELSE file[p]]

\* MetadataFromHandshake: a fresh record with a score.
MetadataFromHandshake(score, seed) ==
    [score |-> score, status |-> "active", cooling |-> FALSE, waiting |-> FALSE,
     seed |-> seed, age |-> "fresh"]

\* Mutated form: the source of the peer is not taken over.
SuccessWithoutSource(r) ==
    IF r = None THEN MetadataFromHandshake(0, FALSE) ELSE MetadataFromHandshake(r.score, FALSE)

\* notePeerSuccess and notePeerFailure, from the record they read before.
SuccessOf(r) ==
    IF r = None THEN MetadataFromHandshake(0, FALSE) ELSE MetadataFromHandshake(r.score, r.seed)

FailureStatus(reason) ==
    CASE reason = "failed" -> "offline"
      [] reason \in {"mismatch", "invalid block", "fork"} -> "rejected"
      [] OTHER -> "unknown"

FailureOf(r, reason) ==
    [(IF r = None THEN NewRecord("unknown", "fresh") ELSE r) EXCEPT !.status = FailureStatus(reason)]

\* markPeerMaintenanceFailure: the whole file, with one record changed.
MarkOffline(file, p) ==
    IF file[p] = None THEN file
    ELSE [file EXCEPT ![p] = UniqueMetadata([@ EXCEPT !.status = "offline", !.waiting = TRUE])]

\* Mutated form: one peer too many.
CapacityPlusOne(file, p) == file[p] # None \/ Cardinality(Stored(file)) <= MaxPeers

\* peerCapacityAllows and ensurePeerCapacity.
CapacityAllows(file, p) == file[p] # None \/ Cardinality(Stored(file)) < MaxPeers
---------------------------------------------------------------------------
(* The calls of a goroutine.                                               *)

Call(op, p) == [op |-> op, peer |-> p]
Load(p) == Call("load", p)
Reload(p) == Call("reload", p)
Success(p) == Call("success", p)
Failure(p, reason) == [op |-> "failure", peer |-> p, reason |-> reason]
Latency(p, ok, delta) == [op |-> "latency", peer |-> p, ok |-> ok, delta |-> delta]
Adjust(p, delta, reason) == [op |-> "adjust", peer |-> p, delta |-> delta, reason |-> reason]
Put(p, score, seed) == [op |-> "put", peer |-> p, score |-> score, seed |-> seed]
\* Calls that are made only while the file, as it was read, has room for the peer.
IfRoom(p, calls) == [op |-> "room", peer |-> p, calls |-> calls]

NoteSuccess(p, delta) == <<Load(p), Success(p), Adjust(p, delta, "ok")>>
NoteFailure(p, delta, reason) == <<Load(p), Failure(p, reason), Adjust(p, delta, reason)>>

\* A success whose reason repeats within a minute changes nothing.
NoteQuietly(p, delta) == {NoteSuccess(p, delta), <<Load(p)>>}

\* CheckPeerWithProfile of a peer that answers, of one that does not, and of one
\* of another network.
CheckOk(p) == {<<Latency(p, TRUE, d)>> \o note : d \in Latencies, note \in NoteQuietly(p, 1)}
CheckFailed(p) == <<Latency(p, FALSE, -3)>> \o NoteFailure(p, -5, "failed")
CheckMismatch(p) == <<Latency(p, FALSE, -3)>> \o NoteFailure(p, -20, "mismatch")
CheckNotOk(p) == {CheckFailed(p)} \cup {CheckMismatch(q) : q \in {p} \cap Foreign}

\* SyncFromPeer: the handshake, then the rest of the round.
SyncOutcomes(p) ==
    NoteQuietly(p, 1) \cup {NoteSuccess(p, 10), NoteFailure(p, -5, "failed"), NoteFailure(p, -10, "fork"),
                            NoteFailure(p, -10, "range"), NoteFailure(p, -30, "invalid block")}
SyncCalls(p) ==
    IF p \in up THEN {NoteSuccess(p, 5) \o outcome : outcome \in SyncOutcomes(p)}
    ELSE {NoteFailure(p, -5, "failed")}

\* A transaction or a block is announced.
BroadcastCalls(p) ==
    IF p \in up THEN {<<Adjust(p, 2, "ok")>>, <<Adjust(p, 3, "ok")>>, <<Adjust(p, -30, "invalid tx")>>,
                      <<Adjust(p, -30, "invalid block")>>}
    ELSE {<<Adjust(p, -5, "failed")>>}

\* MaintainPeers for one peer; its source is merged, so that a seed stays one.
MaintainCalls(p) ==
    IF p \in up THEN {check \o <<Put(p, 2, peers[p].seed)>> : check \in CheckOk(p)}
    ELSE {check \o <<Load(p), Call("mark", p)>> : check \in CheckNotOk(p)}

\* peerAdd and peerConnect.
AddCalls(p) ==
    LET rest == IF p \in up THEN {check \o <<Put(p, 5, FALSE), Adjust(p, 0, "ok")>> : check \in CheckOk(p)}
                ELSE CheckNotOk(p)
    IN  {<<Reload(p), IfRoom(p, calls)>> : calls \in rest}

\* A candidate of DiscoverFromPeerLimited: the file is read again only once the
\* candidate has answered.  Its source at the other peer comes with it.
CandidateCalls(p) ==
    LET rest == IF p \in up
                THEN {check \o <<Reload(p), IfRoom(p, <<Put(p, 3, seed), Reload(p)>>)>> :
                        check \in CheckOk(p), seed \in BOOLEAN}
                ELSE CheckNotOk(p)
    IN  {IfRoom(p, calls) : calls \in rest}

\* Up to two candidates that another peer names.
DiscoverCalls(from) ==
    LET first == UNION {CandidateCalls(p) : p \in Peer \ {from}}
    IN  {check \o <<Reload(from), c, d>> : check \in CheckOk(from), c \in first, d \in first}
---------------------------------------------------------------------------
Init ==
    /\ peers = [p \in Peer |-> IF p \in Seeds THEN AddSeed(NoFile, p)[p] ELSE None]
    /\ todo = [w \in Worker |-> <<>>]
    /\ read = [w \in Worker |-> NoFile]
    /\ stored = read
    /\ up = Peer

Known(p) == peers[p] # None

\* A goroutine starts: a loop, an RPC or P2P handler, a maintenance round.
Begin(w, op, calls) ==
    /\ op \in Ops
    /\ todo[w] = <<>>
    /\ \E c \in calls : todo' = [todo EXCEPT ![w] = c]
    /\ UNCHANGED <<peers, read, stored, up>>

SyncLoop(w, p) == Known(p) /\ peers[p].status # "bad" /\ Begin(w, "sync", SyncCalls(p))
Broadcast(w, p) == Known(p) /\ peers[p].status # "bad" /\ Begin(w, "broadcast", BroadcastCalls(p))

Due(r) == r.status \notin {"rejected", "bad"} /\ ~r.waiting

MaintainPeers(w, p) == Known(p) /\ Due(peers[p]) /\ Begin(w, "maintain", MaintainCalls(p))
DiscoverFromPeer(w, p) == Known(p) /\ p \in up /\ Begin(w, "discover", DiscoverCalls(p))
PeerAdd(w, p) == Begin(w, "add", AddCalls(p))
PeerCheck(w, p) == Begin(w, "check", IF p \in up THEN CheckOk(p) ELSE CheckNotOk(p))

\* Mutated form: a record is written back into the file as it was read.
WrittenBack(w, c) ==
    CASE c.op = "success" -> Upsert(read[w], c.peer, SuccessOf(read[w][c.peer]))
      [] c.op = "adjust"  -> AdjustPeerScore(peers, c.peer, c.delta, c.reason)
      [] OTHER            -> peers

\* What a call makes of the file.
Written(w, c) ==
    CASE c.op = "latency" -> UpdateLatency(peers, c.peer, c.ok, c.delta)
      [] c.op = "success" -> Upsert(peers, c.peer, SuccessOf(read[w][c.peer]))
      [] c.op = "failure" -> Upsert(peers, c.peer, FailureOf(read[w][c.peer], c.reason))
      [] c.op = "adjust"  -> AdjustPeerScore(peers, c.peer, c.delta, c.reason)
      [] c.op = "put"     -> Upsert(peers, c.peer, MetadataFromHandshake(c.score, c.seed))
      [] c.op = "mark"    -> MarkOffline(read[w], c.peer)
      [] OTHER            -> peers

\* What a goroutine has read, which it forgets with its last call.
Kept(w, reads, before) == IF Len(todo[w]) = 1 THEN NoFile ELSE IF reads THEN peers ELSE before

\* A goroutine makes its next call.
Step(w) ==
    LET c == Head(todo[w])
    IN  /\ todo[w] # <<>>
        /\ peers' = Written(w, c)
        /\ read' = [read EXCEPT ![w] = Kept(w, c.op = "load", @)]
        /\ stored' = [stored EXCEPT ![w] = Kept(w, c.op = "reload", @)]
        /\ todo' = [todo EXCEPT ![w] =
                       (IF c.op = "room" /\ CapacityAllows(stored[w], c.peer) THEN c.calls ELSE <<>>) \o Tail(@)]
        /\ UNCHANGED up

\* acceptPeerIntroduction and learnInboundPeer.
Introduce(p) ==
    /\ "introduce" \in Ops
    /\ peers' = Upsert(peers, p, MetadataFromHandshake(5, FALSE))
    /\ UNCHANGED <<todo, read, stored, up>>

PeerRemove(p) ==
    /\ "remove" \in Ops
    /\ peers' = Remove(peers, p)
    /\ UNCHANGED <<todo, read, stored, up>>

PeerClear ==
    /\ "remove" \in Ops
    /\ peers' = [p \in Peer |-> None]
    /\ UNCHANGED <<todo, read, stored, up>>

Prune ==
    /\ "prune" \in Ops
    /\ peers' = PruneExpired(peers)
    /\ UNCHANGED <<todo, read, stored, up>>

\* A cooldown ends, a retry is due, a peer has not been seen for the TTL.
CooldownEnds(p) ==
    /\ Known(p) /\ peers[p].cooling
    /\ peers' = [peers EXCEPT ![p] =
                    [@ EXCEPT !.cooling = FALSE, !.status = StatusForScore(peers[p].score, "unknown")]]
    /\ UNCHANGED <<todo, read, stored, up>>

\* Mutated form: a retry that is put off once is never due.
RetryNever(p) == FALSE /\ UNCHANGED vars

RetryDue(p) ==
    /\ Known(p) /\ peers[p].waiting
    /\ peers' = [peers EXCEPT ![p].waiting = FALSE]
    /\ UNCHANGED <<todo, read, stored, up>>

GrowOld(p) ==
    /\ "prune" \in Ops
    /\ Known(p) /\ peers[p].age = "fresh"
    /\ peers' = [peers EXCEPT ![p].age = "expired"]
    /\ UNCHANGED <<todo, read, stored, up>>

\* A peer stops to answer, or answers again.
Flap(p) ==
    /\ "flap" \in Ops
    /\ up' = IF p \in up THEN up \ {p} ELSE up \cup {p}
    /\ UNCHANGED <<peers, todo, read, stored>>

Next ==
    \/ \E w \in Worker, p \in Peer :
        \/ SyncLoop(w, p) \/ Broadcast(w, p) \/ MaintainPeers(w, p)
        \/ DiscoverFromPeer(w, p) \/ PeerAdd(w, p) \/ PeerCheck(w, p)
    \/ \E w \in Worker : Step(w)
    \/ \E p \in Peer :
        \/ Introduce(p) \/ PeerRemove(p) \/ CooldownEnds(p) \/ RetryDue(p) \/ GrowOld(p) \/ Flap(p)
    \/ PeerClear \/ Prune

Spec == Init /\ [][Next]_vars

\* Goroutines go on, the ticker of the maintenance fires and time passes.
Fairness ==
    /\ \A w \in Worker : WF_vars(Step(w))
    /\ \A p \in Peer : /\ WF_vars(\E w \in Worker : MaintainPeers(w, p))
                       /\ WF_vars(CooldownEnds(p))
                       /\ WF_vars(RetryDue(p))

FairSpec == Spec /\ Fairness
---------------------------------------------------------------------------
Record == [score : ScoreMin..ScoreMax, status : Status, cooling : BOOLEAN, waiting : BOOLEAN,
           seed : BOOLEAN, age : {"none", "fresh", "expired"}]

\* Scores stay within the bounds of clampScore on every path that writes one.
TypeOK == \A p \in Peer : Known(p) => peers[p] \in Record

Bad(file, p) == file[p] # None /\ file[p].status = "bad"

\* The status of a stored peer and its score agree, whichever of the writers
\* set one of them last: only a running cooldown hides that a peer is bad.
BadIsMarked ==
    \A p \in Peer : Known(p) =>
        IF peers[p].cooling THEN peers[p].status = "cooldown"
        ELSE peers[p].status = "bad" <=> peers[p].score <= BadThreshold

\* A peer that is in the file stays there until it is removed or pruned, however
\* the writers overlap.
KeepsPeers ==
    \A p \in Peer : Known(p) /\ ~Known(p)' =>
        PeerRemove(p) \/ PeerClear \/ (Prune /\ Expired(peers[p]))

\* A configured seed is not pruned.
KeepsSeeds == Prune => \A p \in Seeds : Known(p) => Known(p)'

\* The file holds no more peers than the limit.
StoreIsBounded == Cardinality(Stored(peers)) <= MaxPeers

\* A peer answers and was not given up: three failures in a row make it bad, and
\* the maintenance never calls a bad peer again.
Answers(p) == p \in up /\ ~Bad(peers, p)

\* The last call of the node found the peer.
Found(p) == Known(p) /\ peers[p].status = "active"
===========================================================================
