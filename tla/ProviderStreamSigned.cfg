SPECIFICATION ProviderSpec
CONSTANTS
    Replies <- MCReplies
    MaxChunks = 2
    None = None
INVARIANT ThinkingStaysSigned
CHECK_DEADLOCK FALSE
