SPECIFICATION FairSpec
CONSTANTS
    Kinds = {"user", "text", "file", "meta"}
    Chats = {TRUE}
    Contended = TRUE
    MaxLines = 4
    Faults = {}
    MaxFaults = 0
INVARIANTS
    InTranscriptOrder
    SettledIsComplete
    SettledIsFinal
    FilesSentOnce
PROPERTIES
    ImplementsMirror
    EventuallyCaughtUp
