--------------------------- MODULE DataDirLock ---------------------------
(***************************************************************************)
(* node.lock: what keeps two nodes, or a node and a writing command, from  *)
(* using one data directory.  Node starts, shutdowns and commands of       *)
(* several processes, one step per access to the lock file.                *)
(***************************************************************************)
EXTENDS Integers, FiniteSets

CONSTANTS
    Node, Command, None,
    Stops,          \* how a node ends in a run: "graceful", "crash"
    Resets,         \* whether a command may be dev reset
    MaxErrors,      \* bound: starts that fail after the lock was taken
    Operator        \* whether somebody removes a lock file that was left behind

LockAssumption ==
    /\ None \notin [by : Node, written : BOOLEAN]
    /\ Stops \subseteq {"graceful", "crash"} /\ MaxErrors \in Nat
    /\ {Operator, Resets} \subseteq BOOLEAN

VARIABLES
    lock,       \* the file: who created it, and whether its content is written
    node,       \* where each node process is
    command,    \* where each command is
    errors

vars == <<lock, node, command, errors>>

Init ==
    /\ lock = None
    /\ node = [p \in Node |-> "off"]
    /\ command = [c \in Command |-> "off"]
    /\ errors = 0

\* Mutated form: every command counts as one that only reads.
IsLockedForNobody == FALSE

\* A file that cannot be parsed, such as an empty one, is no lock.
IsLocked == lock # None /\ lock.written

NodeAt(p, place) == node' = [node EXCEPT ![p] = place]
---------------------------------------------------------------------------
(***************************************************************************)
(* node start: the check of every command, CreateLock with its exclusive   *)
(* create and its write, then the start-up of the node.                    *)
(***************************************************************************)
NodeCheck(p) ==
    /\ node[p] = "off" /\ ~IsLocked
    /\ NodeAt(p, "create")
    /\ UNCHANGED <<lock, command, errors>>

\* Mutated form: the file is opened without O_EXCL.
CreateOver(p) ==
    /\ node[p] = "create"
    /\ lock' = [by |-> p, written |-> FALSE]
    /\ NodeAt(p, "write")
    /\ UNCHANGED <<command, errors>>

\* Mutated form: a start that is refused releases the lock like any other.
CreateAndRelease(p) ==
    /\ node[p] = "create"
    /\ IF lock = None THEN lock' = [by |-> p, written |-> FALSE] /\ NodeAt(p, "write")
                      ELSE NodeAt(p, "off") /\ lock' = None
    /\ UNCHANGED <<command, errors>>

Create(p) ==
    /\ node[p] = "create"
    /\ IF lock = None THEN lock' = [by |-> p, written |-> FALSE] /\ NodeAt(p, "write")
                      ELSE NodeAt(p, "off") /\ UNCHANGED lock
    /\ UNCHANGED <<command, errors>>

\* The write goes to the file that was created, should the name be gone by now.
Write(p) ==
    /\ node[p] = "write"
    /\ lock' = IF lock # None /\ lock.by = p THEN [lock EXCEPT !.written = TRUE] ELSE lock
    /\ NodeAt(p, "startup")
    /\ UNCHANGED <<command, errors>>

\* The content cannot be written: the name is removed at once.
WriteFails(p) ==
    /\ node[p] = "write" /\ errors < MaxErrors
    /\ errors' = errors + 1
    /\ lock' = None
    /\ NodeAt(p, "off")
    /\ UNCHANGED command

Startup(p) ==
    /\ node[p] = "startup"
    /\ NodeAt(p, "running")
    /\ UNCHANGED <<lock, command, errors>>

\* Mutated form: only a node that has started releases its lock.
StartupFailsLocked(p) ==
    /\ node[p] = "startup" /\ errors < MaxErrors
    /\ errors' = errors + 1
    /\ NodeAt(p, "off")
    /\ UNCHANGED <<lock, command>>

\* The first deferred function removes the lock when the start-up fails ...
StartupFails(p) ==
    /\ node[p] = "startup" /\ errors < MaxErrors
    /\ errors' = errors + 1
    /\ NodeAt(p, "remove again")
    /\ UNCHANGED <<lock, command>>

\* ... and also after the second one, which runs first when the node is stopped.
Stop(p) ==
    /\ node[p] = "running" /\ "graceful" \in Stops
    /\ NodeAt(p, "remove")
    /\ UNCHANGED <<lock, command, errors>>

RemoveLock(p, from, to) ==
    /\ node[p] = from
    /\ lock' = None
    /\ NodeAt(p, to)
    /\ UNCHANGED <<command, errors>>

Crash(p) ==
    /\ node[p] # "off" /\ "crash" \in Stops
    /\ NodeAt(p, "off")
    /\ UNCHANGED <<lock, command, errors>>
---------------------------------------------------------------------------
\* A command that writes, and dev reset, look at the lock once and then work; a
\* reset deletes the directory.
CommandCheck(c) ==
    /\ command[c] = "off" /\ ~IsLocked
    /\ \E job \in {"write"} \cup (IF Resets THEN {"reset"} ELSE {}) : command' = [command EXCEPT ![c] = job]
    /\ UNCHANGED <<lock, node, errors>>

CommandDone(c) ==
    /\ command[c] # "off"
    /\ lock' = IF command[c] = "reset" THEN None ELSE lock
    /\ command' = [command EXCEPT ![c] = "off"]
    /\ UNCHANGED <<node, errors>>

Live(p) == node[p] \in {"write", "startup", "running", "remove"}

\* The operator's manual: remove node.lock only when no process uses the directory.
OperatorRemoves ==
    /\ Operator /\ lock # None /\ \A p \in Node : node[p] \in {"off", "create"}
    /\ lock' = None
    /\ UNCHANGED <<node, command, errors>>

NodeSteps(p) ==
    \/ NodeCheck(p) \/ Create(p) \/ Write(p) \/ Startup(p)
    \/ RemoveLock(p, "remove", "remove again") \/ RemoveLock(p, "remove again", "off")

Next ==
    \/ \E p \in Node :
        \/ NodeCheck(p) \/ Create(p) \/ Write(p) \/ WriteFails(p) \/ Startup(p) \/ StartupFails(p)
        \/ Stop(p) \/ Crash(p)
        \/ RemoveLock(p, "remove", "remove again") \/ RemoveLock(p, "remove again", "off")
    \/ \E c \in Command : CommandCheck(c) \/ CommandDone(c)
    \/ OperatorRemoves

Spec == Init /\ [][Next]_vars

\* A supervisor starts the node again whenever it is off, and a process goes on.
FairSpec ==
    /\ Spec
    /\ \A p \in Node : WF_vars(NodeSteps(p))
    /\ WF_vars(OperatorRemoves)
---------------------------------------------------------------------------
\* Every variable has its type, and only a crash leaves a lock file behind, empty
\* or not.
TypeOK ==
    /\ lock \in {None} \cup [by : Node, written : BOOLEAN]
    /\ node \in [Node -> {"off", "create", "write", "startup", "running", "remove", "remove again"}]
    /\ command \in [Command -> {"off", "write", "reset"}]
    /\ errors \in 0..MaxErrors
    /\ "crash" \notin Stops /\ lock # None =>
          /\ node[lock.by] \in {"write", "startup", "running", "remove", "remove again"}
          /\ ~lock.written => node[lock.by] = "write"

\* At most one node is between taking the lock and releasing it: a second start
\* in the same data directory fails.
OneNode == \A p, q \in Node : Live(p) /\ Live(q) => p = q

\* The lock file of a node stays there until that node releases it, through
\* refused, failed and crashed starts of others.
RunningIsLocked ==
    \A p \in Node : node[p] \in {"startup", "running"} => lock = [by |-> p, written |-> TRUE]

\* Nobody removes the lock of another process: no directory is reset, and only a
\* node that has no other beside it is stopped.
KeepsOthers == ~Resets /\ ("graceful" \notin Stops \/ \A p, q \in Node : p = q)

\* No command passes its check while a node runs.
RefusesCommands ==
    \A c \in Command : command[c] = "off" /\ command'[c] # "off" =>
        ~\E p \in Node : node[p] \in {"startup", "running"}

\* A node has got through its start and runs.
OneRuns == \E p \in Node : node[p] = "running"
===========================================================================
