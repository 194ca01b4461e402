SPECIFICATION FairSpec
CONSTANTS
    Users = {u1, u2}
    FgCalls = {f1}
    BgCalls = {b1}
    SequentialCalls = {f1}
    Rows = {}
    MaxBatch = 2
    SteeringMode = "all"
    FollowUpMode = "one-at-a-time"
    ToolExecution = "parallel"
    None = None
PROPERTIES RunsEnd SteeringHeard
CHECK_DEADLOCK FALSE
