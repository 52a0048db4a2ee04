SPECIFICATION Spec
CONSTANTS
    Devices = {"mouse"}
    Outputs = {"tv"}
    Keys = {"F1"}
    MaxFd = 3
    MaxId = 0
    MaxClients = 2
    MaxStack = 6
    Texts <- ReentryTexts
    Text <- ReentryText
    Startup = "start"
    ClientTexts <- ScarceClients
    Hotplug = {}
    Contended = {}
    Breakable = {}
    Signals = FALSE
INVARIANTS OwnersAgree CallbackMapComplete RepliesReachTheirClient
