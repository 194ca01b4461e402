SPECIFICATION Spec
CONSTANTS
    Users = {u1, u2}
    FgCalls = {f1, f2}
    BgCalls = {b1}
    SequentialCalls = {}
    Rows = {}
    MaxBatch = 3
    SteeringMode = "one-at-a-time"
    FollowUpMode = "all"
    ToolExecution = "parallel"
    None = None
SYMMETRY Symmetry
INVARIANTS
    TypeOK
    EveryCallAnsweredInPlace
    TranscriptsAgree
    PendingCallsExact
    NoBackgroundResultLost
PROPERTY ImplementsConversation
CHECK_DEADLOCK FALSE
