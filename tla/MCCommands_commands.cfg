SPECIFICATION FairSpec
CONSTANTS
    Clients <- CommandsClients
    Sessions <- CommandsSessions
    Stream <- CommandsStream
    Pids = {"p", "q"}
    ReplyRoom = 2
    Signals = TRUE
INVARIANTS TypeOK ForegroundFinished AnswersComplete
PROPERTIES ServiceKept HalfCloseServed ZombiesReaped QuitEnds
CHECK_DEADLOCK FALSE
