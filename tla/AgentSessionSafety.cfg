SPECIFICATION SessionSpec
CONSTANTS
    Users = {u1, u2, u3}
    FgCalls = {f1}
    BgCalls = {}
    SequentialCalls = {}
    Rows = {r1, r2}
    MaxBatch = 1
    SteeringMode = "one-at-a-time"
    FollowUpMode = "all"
    ToolExecution = "sequential"
    Text <- OwnText
    None = None
SYMMETRY Symmetry
INVARIANTS
    EverythingOnce
    QueuesAreFifo
    RowsRecordedOnce
    UiShowsQueues
CHECK_DEADLOCK FALSE
