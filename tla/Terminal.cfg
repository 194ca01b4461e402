SPECIFICATION PartsSpec
CONSTANTS
    None = None
    Unset = Unset
    NoPlace = NoPlace
    Inputs <- MCInputs
    Timers = {t1, t2}
    Overlays = {o1, o2, o3}
    NonCapturing = {o3}
    Sized = {o2}
    Repos = {r1, r2}
    Branches = {b1, b2}
    MaxCheckouts = 2
    MaxMoves = 1
    MaxFailures = 1
    Spots = {"path", "slash", "slash x", "at", "at x"}
    Slash = {"slash", "slash x"}
    Barred = {"slash"}
    Symbol = {"at", "at x"}
    Offered <- MCOffered
    MaxTasks = 2
    ESC = ESC
    Bracket = Bracket
    PasteOn = PasteOn
    PasteOff = PasteOff
    KittyA = KittyA
    CharA = CharA
    Pasted = Pasted
    Outputs <- MCOutputs
    Escapes = TRUE
    MaxBytes = 2
    MinSize = 2
    Nothing = Nothing
    Widths = {9}
    Starts <- MCStarts
    Past <- MCPast
    Killed <- MCKilled
    Drafts = {}
    Kinds = {"space"}
    MaxText = 2
    MaxEdits = 3
    o1 = o1
    o2 = o2
    o3 = o3
    Base = Base
INVARIANTS
    InputAccounted
    RestHasTimer
    FocusOnStack
    ShownBranchSettles
    RingRestores
    CursorInPlace
    MenuSettles
    NothingDropped
PROPERTIES
    EveryFrameShowsContent
    ContentPainted
    CommandReturns
    EditsCanBeUndone
\* Most parts stop when their bounds on what the world does are used up.
CHECK_DEADLOCK FALSE
