SPECIFICATION Spec
CONSTANTS
    Kinds = {"user", "text"}
    Chats = {FALSE}
    Contended = FALSE
    MaxLines = 3
    Faults = {}
    MaxFaults = 0
PROPERTY CardsKeepTheirTurn
