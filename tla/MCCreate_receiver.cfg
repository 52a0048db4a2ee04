SPECIFICATION FairSpec
CONSTANTS
    Sessions = {s1, s2}
    Devices = {"kbd", "mouse"}
    Ids = {0}
    Backlog = 2
    MaxSent = 3
CHECK_DEADLOCK FALSE
INVARIANTS TypeOK EventsReachTheirDevice SendersUnderstood
PROPERTY WaitingClientServed
