SPECIFICATION PartsSpec
CONSTANTS
    CallIds <- MCCallIds
    Normalized <- MCNormalized
    Transcripts <- MCTranscripts
    KeepRecent = 2
    Sizes = {1}
    MaxCalls = 2
    MaxEntries = 5
    AppendedKinds = {"user", "assistant"}
    MaxIds = 4
    MaxFiles = 2
    MaxKills = 1
    MaxSummaries = 2
    None = None
    Procs = {p1, p2, p3}
    Settings <- MCSettings
    GroupOf <- MCGroupOf
    Values = {v}
    Default = Default
    Missing = Missing
    HalfWritten = HalfWritten
    Nobody = Nobody
    MaxCrashes = 1
    MaxSets = 2
    c1 = c1
    c2 = c2
    n1 = n1
    n2 = n2
INVARIANTS
    SavedStays
    SavedOnceAnswered
    WalksEnd
    ContextIsBranch
    CallsAnswered
    Paired
    ReplyIsWhatWasSent
    ResultsHaveCalls
    ChatShowsTranscript
PROPERTIES
    SavedStaysSaved
    ForkCarriesEntries
    LeavingIsSummarized
\* Most parts stop when their bounds on what the world does are used up.
CHECK_DEADLOCK FALSE
