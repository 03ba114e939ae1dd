\* The scenarios of MCNode, every one from its own initial state.
SPECIFICATION Spec
CONSTANTS
    None = None
    \* Requests that overlap, in one minute and across several.
    Client = {"a"}
    Kind = {"generic", "wallet"}
    Server = {"w1", "w2", "w3"}
    Enabled = {"generic"}
    Limit = 2
    Minute = 2
    MaxClock = 6
    MaxRequests = 4
    \* Nodes that crash and fail to start.
    Node = {"n1", "n2", "n3"}
    Command = {"c1", "c2"}
    Stops = {"crash"}
    Resets = FALSE
    MaxErrors = 2
    Operator = TRUE
INVARIANT RateIsLimited
PROPERTIES
    HandlersReturn
    PeersAreKept
    OfflineIsRetried
    OneNode
    NodeComesBack
CHECK_DEADLOCK FALSE
