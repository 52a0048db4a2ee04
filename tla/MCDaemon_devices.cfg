SPECIFICATION Spec
CONSTANTS
    Devices = {"kbd", "mouse", "pad"}
    Outputs = {"tv", "pc"}
    Keys = {"F1"}
    MaxFd = 5
    MaxId = 1
    MaxClients = 1
    MaxStack = 8
    Texts <- DevicesTexts
    Text <- DevicesText
    Startup = "start"
    ClientTexts <- DevicesClients
    Hotplug = {"mouse"}
    Contended = {}
    Breakable = {"pc"}
    Signals = FALSE
INVARIANTS TypeOK HotkeysOfLiveDevices
PROPERTIES IdsStayDense ReadersStayInStep
