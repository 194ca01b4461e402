SPECIFICATION SessionSpec
CONSTANTS
    Users = {u1, u2}
    FgCalls = {f1}
    BgCalls = {b1}
    SequentialCalls = {}
    Rows = {r1, r2}
    MaxBatch = 2
    SteeringMode = "one-at-a-time"
    FollowUpMode = "one-at-a-time"
    ToolExecution = "sequential"
    Text <- OwnText
    None = None
SYMMETRY Symmetry
INVARIANT RunningBashCanBeAborted
CHECK_DEADLOCK FALSE
