SPECIFICATION FairSpec
CONSTANTS
    MaxEvents = 3
    Kinds = {"inline", "pick", "card", "skipped"}
    Ring = 2
    Sockets = {TRUE, FALSE}
    Chats = {TRUE, FALSE}
    MaxAgain = 1
    Faults = {"fail", "crash", "stop", "end"}
    MaxFaults = 1
CHECK_DEADLOCK FALSE
INVARIANTS
    TypeOK
    DuplicatesDropped
    OneBootstrap
    RemainsAreSafe
PROPERTY EventuallyForwarded
