SPECIFICATION Spec
CONSTANTS
    Devices = {"mouse"}
    Outputs = {"tv"}
    Keys = {"F1"}
    MaxFd = 5
    MaxId = 2
    MaxClients = 1
    MaxStack = 8
    Texts <- SmallTexts
    Text <- SmallText
    Startup = "start"
    ClientTexts <- SmallClients
    Hotplug = {}
    Contended = {}
    Breakable = {"tv"}
    Signals = FALSE
INVARIANT FailedOutputsDropped
