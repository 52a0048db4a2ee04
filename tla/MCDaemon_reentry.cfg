SPECIFICATION FairSpec
CONSTANTS
    Devices = {"mouse"}
    Outputs = {"tv"}
    Keys = {"F1"}
    MaxFd = 3
    MaxId = 0
    MaxClients = 1
    MaxStack = 6
    Texts <- ReentryTexts
    Text <- ReentryText
    Startup = "start"
    ClientTexts <- ReentryClients
    Hotplug = {"mouse"}
    Contended = {}
    Breakable = {}
    Signals = TRUE
PROPERTIES RemovalCompletes UnpluggedIsRemoved LossReported QuitEnds
