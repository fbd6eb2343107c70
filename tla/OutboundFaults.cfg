SPECIFICATION Spec
CONSTANTS
    Kinds = {"user", "text"}
    Chats = {TRUE, FALSE}
    Contended = FALSE
    MaxLines = 3
    Faults = {"fail", "crash", "stop", "gap", "save"}
    MaxFaults = 2
INVARIANTS
    TypeOK
    OneCardPerUserTurn
    CrashSkipsNothing
    ChatSavedFirst
