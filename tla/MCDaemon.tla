------------------------------ MODULE MCDaemon ------------------------------
(* Instances of Daemon for TLC: the command texts each run works with.     *)
EXTENDS Daemon

(* Actions that re-enter the command language: one that uses the output    *)
(* that is going away, one that removes itself, one that never ends, one   *)
(* on the loss of hardware; and the end.                                   *)
ReentryText ==
    [start |-> <<OutputAdd("tv"), Use("tv"), ActionSet("device-lost", "write"),
                 ActionSet("write-changed", "useTv")>>,
     mouse |-> <<DeviceAdd("mouse"), SetPersistent("mouse", FALSE)>>,
     unmouse |-> <<DeviceRemove("mouse"), Bad>>,
     away |-> <<OutputRemove("tv"), Nop>>,
     back |-> <<OutputResume("tv"), Use("tv")>>,
     write |-> <<WriteEvents("toggle")>>,
     stop  |-> <<ActionSet("device-lost", "useTv"), Quit, Bad>>,
     again |-> <<ActionSet("write-changed", "useTv")>>,
     loop |-> <<ActionSet("output-changed", "useTv"), Source("useTv")>>,
     useTv |-> <<Use("tv"), ActionRemove("write-changed"), Nop>>]
ReentryTexts   == DOMAIN ReentryText
(* What clients send: one client that may end the daemon; or two, with the *)
(* action that never ends, who compete for descriptors.                    *)
ReentryClients == ReentryTexts \ {"start", "useTv", "loop", "again"}
ScarceClients  == ReentryTexts \ {"start", "useTv", "stop"}

(* Outputs that come, go and break while devices are grabbed.              *)
OutputsText ==
    [start |-> <<DeviceAdd("kbd"), DeviceAdd("mouse"), OutputAdd("tv"),
                 ActionSet("write-changed", "log")>>,
     log  |-> <<Nop>>,
     tv   |-> <<Use("tv"), Grab("on")>>,
     pc   |-> <<OutputAdd("pc"), Use("pc"), GrabDevices("on")>>,
     free |-> <<WriteEvents("on"), GrabDevices("off"), OutputRemove("pc")>>,
     away |-> <<OutputRemove("tv")>>,
     back |-> <<OutputAdd("tv")>>]
OutputsTexts   == DOMAIN OutputsText
OutputsClients == OutputsTexts \ {"start", "log"}

(* Devices that come and go in any order, one of them persistent, with     *)
(* hotkeys on two of them.                                                 *)
DevicesText ==
    [start |-> <<DeviceAdd("kbd"), HotkeyAdd("kbd", "F1", "swap"), OutputAdd("tv"),
                 Use("tv"), WriteEvents("on")>>,
     swap  |-> <<DeviceRemove("mouse"), DeviceAdd("pad")>>,
     mouse |-> <<DeviceAdd("mouse"), HotkeyAdd("mouse", "F1", "unpad")>>,
     unpad |-> <<HotkeyRemove("mouse", "F1"), DeviceRename("pad"), DeviceRemove("pad")>>,
     unkbd |-> <<SetPersistent("kbd", TRUE), DeviceRemove("kbd")>>,
     pc    |-> <<OutputAdd("pc"), Use("pc")>>]
DevicesTexts   == DOMAIN DevicesText
DevicesClients == {"mouse", "unkbd", "pc"}

(* Short sessions for the disagreements with the documentation.            *)
SwapText ==
    [start |-> <<DeviceAdd("kbd"), DeviceAdd("mouse"), OutputAdd("tv")>>,
     unkbd |-> <<DeviceRemove("kbd")>>,
     pad   |-> <<DeviceAdd("pad")>>]
SwapTexts   == DOMAIN SwapText
SwapClients == SwapTexts \ {"start"}

SmallText ==
    [start |-> <<DeviceAdd("mouse"), OutputAdd("tv"), Use("tv")>>,
     unmouse |-> <<DeviceRemove("mouse")>>,
     away |-> <<OutputRemove("tv")>>,
     show |-> <<Nop>>]
SmallTexts    == DOMAIN SmallText
SmallClients  == SmallTexts \ {"start"}
=============================================================================
