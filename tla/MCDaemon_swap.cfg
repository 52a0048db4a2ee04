SPECIFICATION Spec
CONSTANTS
    Devices = {"kbd", "mouse", "pad"}
    Outputs = {"tv"}
    Keys = {"F1"}
    MaxFd = 5
    MaxId = 2
    MaxClients = 1
    MaxStack = 8
    Texts <- SwapTexts
    Text <- SwapText
    Startup = "start"
    ClientTexts <- SwapClients
    Hotplug = {}
    Contended = {}
    Breakable = {}
    Signals = FALSE
INVARIANT ProtocolKept
