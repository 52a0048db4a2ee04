SPECIFICATION Spec
CONSTANTS
    Devices = {"kbd", "mouse"}
    Outputs = {"tv", "pc"}
    Keys = {"F1"}
    MaxFd = 5
    MaxId = 1
    MaxClients = 1
    MaxStack = 8
    Texts <- OutputsTexts
    Text <- OutputsText
    Startup = "start"
    ClientTexts <- OutputsClients
    Hotplug = {}
    Contended = {"mouse"}
    Breakable = {"tv", "pc"}
    Signals = TRUE
INVARIANTS CleanupFound CurrentOutputOpen FailedOutputsDropped GrabHasOutput
