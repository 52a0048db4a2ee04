SPECIFICATION FairSpec
CONSTANTS
    Clients <- HangClients
    Sessions <- HangSessions
    Stream <- HangStream
    Pids = {"p"}
    ReplyRoom = 1
    Signals = FALSE
PROPERTY ExecReturns
CHECK_DEADLOCK FALSE
