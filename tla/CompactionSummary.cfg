SPECIFICATION CompactionSpec
CONSTANTS
    KeepRecent = 2
    Sizes = {1}
    MaxCalls = 2
    MaxEntries = 7
INVARIANT NothingForgotten
CHECK_DEADLOCK FALSE
