------------------------------- MODULE Daemon -------------------------------
(***************************************************************************)
(* The `netevent daemon` event loop of src/daemon.cpp: a single thread     *)
(* that polls a command socket, command clients and input devices, runs    *)
(* command lines, and writes device packets to its outputs.                *)
(*                                                                         *)
(* The thread is modelled as a machine with a program counter for the      *)
(* phases of the loop in cmd_daemon and a stack of pending work inside a   *)
(* phase: a command may fire an event whose action is a command line that  *)
(* runs to its end, nested, before the command continues.                  *)
(*                                                                         *)
(* Abstractions: a stored or received command string is a name in Texts    *)
(* and Text gives the commands it parses to; the fd of an output is always *)
(* the lowest free one (also for exec:, whose pipe takes the second); the  *)
(* removal queue and the pollfd vector are sets, visited in any order.     *)
(***************************************************************************)
EXTENDS Integers, Sequences, FiniteSets, Functions

CONSTANTS
    Devices,      \* names of input devices (one device node per name)
    Outputs,      \* names of outputs (one destination per name)
    Keys,         \* events a device produces: a (type, code, value) triple
    MaxFd,        \* highest descriptor of the process; opening more fails
    MaxId,        \* UINT16_MAX
    MaxClients,   \* bound: command clients connected at the same time
    MaxStack,     \* bound: nested work the C stack has room for
    Texts,        \* command strings: startup files, lines, actions, hotkeys
    Text,         \* the commands each of them parses to
    Startup,      \* the text of the --source files
    ClientTexts,  \* the lines clients send
    Hotplug,      \* devices that can be unplugged and plugged in again
    Contended,    \* devices that another process may hold grabbed
    Breakable,    \* outputs whose destination may go away
    Signals       \* whether a SIGTERM may arrive

Fds    == 0..MaxFd
Server == 0
None   == -1
NoName == "<none>"
Events == {"output-changed", "write-changed", "grab-changed", "device-lost"}
States == {"on", "off", "toggle"}

ASSUME DaemonAssumption ==
    /\ MaxFd \in Nat /\ MaxId \in Nat /\ MaxStack \in Nat /\ MaxClients \in Nat
    /\ IsFiniteSet(Devices) /\ NoName \notin Devices \cup Outputs
    /\ Startup \in Texts /\ ClientTexts \subseteq Texts
    /\ Signals \in BOOLEAN

-----------------------------------------------------------------------------
(* Commands, as clientCommand and its helpers tell them apart.             *)

DeviceAdd(d)        == [op |-> "device add", dev |-> d]
DeviceRemove(d)     == [op |-> "device remove", dev |-> d]
DeviceRename(d)     == [op |-> "device rename", dev |-> d]
SetPersistent(d, b) == [op |-> "device set-persistent", dev |-> d, value |-> b]
OutputAdd(o)        == [op |-> "output add", out |-> o]
OutputResume(o)     == [op |-> "output add --resume", out |-> o]
OutputRemove(o)     == [op |-> "output remove", out |-> o]
Use(o)              == [op |-> "use", out |-> o]
HotkeyAdd(d, k, t)  == [op |-> "hotkey add", dev |-> d, key |-> k, text |-> t]
HotkeyRemove(d, k)  == [op |-> "hotkey remove", dev |-> d, key |-> k]
ActionSet(e, t)     == [op |-> "action set", event |-> e, text |-> t]
ActionRemove(e)     == [op |-> "action remove", event |-> e]
WriteEvents(x)      == [op |-> "write-events", state |-> x]
GrabDevices(x)      == [op |-> "grab-devices", state |-> x]
Grab(x)             == [op |-> "grab", state |-> x]
Source(t)           == [op |-> "source", text |-> t]
Quit                == [op |-> "quit"]
Nop                 == [op |-> "nop"]     \* also info, exec and exec&
Bad                 == [op |-> "unknown"] \* anything the parser refuses

Command ==
    [op : {"device add", "device remove", "device rename"}, dev : Devices]
      \cup [op : {"device set-persistent"}, dev : Devices, value : BOOLEAN]
      \cup [op : {"output add", "output add --resume", "output remove", "use"},
            out : Outputs]
      \cup [op : {"hotkey add"}, dev : Devices, key : Keys, text : Texts]
      \cup [op : {"hotkey remove"}, dev : Devices, key : Keys]
      \cup [op : {"action set"}, event : Events, text : Texts]
      \cup [op : {"action remove"}, event : Events]
      \cup [op : {"write-events", "grab-devices", "grab"}, state : States]
      \cup [op : {"source"}, text : Texts]
      \cup [op : {"quit", "nop", "unknown"}]

ASSUME TextAssumption == Text \in [Texts -> Seq(Command)]

-----------------------------------------------------------------------------
VARIABLES
    pc,               \* phase of the loop in cmd_daemon
    failure,          \* why the process died, "none" while it lives
    stack,            \* work of the current phase still to do, innermost first
    gQuit,
    gCommandQueue,    \* lines of clients and hotkeys, in order of arrival
    pfds,             \* descriptors that are polled
    revents,          \* what poll reported and is not yet dispatched
    gFDAddQueue,      \* opened, polled from the next round on
    gFDRemoveQueue,   \* removeFD was called on them
    todo,             \* the part of that queue still to be visited
    moved,            \* the queue was reallocated under its iterator
    gFDCBs,           \* descriptor -> what its callbacks captured
    files,            \* open descriptors of the process -> what they refer to
    gCommandClients,
    gInputs,          \* device name -> its Input
    gInputIDFreeList,
    gone,             \* devices of gInputs whose hardware has disappeared
    gOutputs,         \* output name -> descriptor
    gCurrentOutput,
    gWrite,
    gGrab,
    envOutputName,    \* NETEVENT_OUTPUT_NAME, as executed commands see it
    gHotkeys,         \* <<device id, key>> -> text
    gEventCommands,   \* event -> text
    told,             \* history: output fd -> device ids its reader knows
    torn,             \* history: output fds a write has failed on
    protocolErrors,   \* history: complaints a reader has had to make
    lostFired         \* history: devices device-lost was executed for

loopVars   == <<pc, failure, gQuit, gCommandQueue, pfds, revents>>
queueVars  == <<gFDRemoveQueue, moved>>
fdVars     == <<gFDAddQueue, gFDCBs, files, gCommandClients>>
deviceVars == <<gInputs, gInputIDFreeList, gone, lostFired>>
outputVars == <<gOutputs, gCurrentOutput, gWrite, gGrab, envOutputName>>
textVars   == <<gHotkeys, gEventCommands>>
readerVars == <<told, torn, protocolErrors>>
vars == <<loopVars, stack, queueVars, todo, fdVars, deviceVars, outputVars,
          textVars, readerVars>>

-----------------------------------------------------------------------------
(* The stack of pending work.                                              *)

Work(do, client, fd, event, rest) ==
    [do |-> do, client |-> client, fd |-> fd, from |-> event, rest |-> rest]

(* parseClientCommand on a string; `event` names the gEventCommands entry  *)
(* the string is a reference into, if it is one.                           *)
Run(client, event, commands) ==
    IF commands = <<>> THEN <<>>
    ELSE <<Work("run", client, None, event, commands)>>

ReplyTo(client) ==
    IF client = None THEN <<>> ELSE <<Work("reply", client, None, "none", <<>>)>>

Task(do, fd) == <<Work(do, None, fd, "none", <<>>)>>
LostGrab     == Task("lost grab", None)

fireEvent(client, event) ==
    IF event \in DOMAIN gEventCommands
    THEN Run(client, event, Text[gEventCommands[event]])
    ELSE <<>>

Running == pc \in {"startup", "commands", "remove", "dispatch"}
Top     == Head(stack)
Pending(do) == Running /\ stack # <<>> /\ Top.do = do /\ Len(stack) <= MaxStack

(* The next command of the text being run is cmd. *)
Executing(cmd) == Pending("run") /\ Top.rest # <<>> /\ Head(Top.rest) = cmd
AfterCommand   == Run(Top.client, Top.from, Tail(Top.rest)) \o Tail(stack)

(* The command returns: `nested` runs first, then the client gets its Ok,  *)
(* then the rest of the line runs.                                         *)
Finish(nested) ==
    /\ stack' = nested \o ReplyTo(Top.client) \o AfterCommand
    /\ UNCHANGED loopVars

Die(why) ==
    /\ pc' = "failed" /\ failure' = why /\ stack' = <<>>
    /\ UNCHANGED <<gQuit, gCommandQueue, pfds, revents>>

(* An exception: processCommandQueue reports it to the client and drops    *)
(* the rest of the line; nothing else in the loop catches one.             *)
Throw ==
    IF pc = "commands"
    THEN stack' = ReplyTo(Top.client) /\ UNCHANGED loopVars
    ELSE Die("uncaught exception")

(* removeFD on every descriptor of S. While processRemoveQueue iterates    *)
(* over the vector a push_back that exceeds its capacity, a power of two,  *)
(* moves it away from under the iterator.                                  *)
removeFD(S) ==
    LET queue == gFDRemoveQueue \cup S
        mayMove == /\ pc = "remove"
                   /\ \E n \in 0..4 : /\ Cardinality(gFDRemoveQueue) <= 2^n
                                      /\ 2^n < Cardinality(queue)
    IN  /\ gFDRemoveQueue' = queue
        /\ moved' \in IF mayMove THEN {moved, TRUE} ELSE {moved}

(* The four callbacks of a descriptor, by what they are for and capture.   *)
CallbacksOf(kind, d, id) == [kind |-> kind, dev |-> d, id |-> id]

NoEntries     == [x \in {} |-> None]
Put(f, x, v)  == [y \in DOMAIN f \cup {x} |-> IF y = x THEN v ELSE f[y]]
Without(f, S) == Restrict(f, DOMAIN f \ S)

(* open, accept and socket return the lowest free descriptor.              *)
FreeFds    == Fds \ DOMAIN files
Opens(fd)  == fd \in FreeFds /\ \A other \in FreeFds : fd <= other
CannotOpen == FreeFds = {}

-----------------------------------------------------------------------------
(* Writes to the outputs.                                                  *)

OutputFds    == {gOutputs[o] : o \in DOMAIN gOutputs}
BreakableFds == {gOutputs[o] : o \in DOMAIN gOutputs \cap Breakable}
Listening(failed) == OutputFds \ (failed \cup torn)

(* The history of a complaint the readers make. *)
Complains(what, cond) == protocolErrors' = protocolErrors \cup (IF cond THEN {what} ELSE {})

(* announceDevice(input): tell every output of a device. `failed` are the  *)
(* outputs the write fails on; they are dropped. What the reader of a torn *)
(* stream makes of later packets is not tracked.                           *)
announceDevice(id, failed) ==
    /\ told' = [f \in DOMAIN told |->
                  IF f \in failed \cup torn THEN told[f] ELSE told[f] \cup {id}]
    /\ torn' = torn \cup failed
    /\ Complains("duplicate device", \E f \in Listening(failed) : id \in told[f])
    /\ removeFD(failed)

announceDeviceRemoval(id, failed) ==
    /\ told' = [f \in DOMAIN told |->
                  IF f \in failed \cup torn THEN told[f] ELSE told[f] \ {id}]
    /\ torn' = torn \cup failed
    /\ Complains("missing device", \E f \in Listening(failed) : id \notin told[f])
    /\ removeFD(failed)

-----------------------------------------------------------------------------
(* grab(client, on) on every device, and the loss of the current output.   *)

(* InDevice::grab fails on hardware that is gone, and on a device another  *)
(* process holds unless this one holds it already.                         *)
MayBeHeld(on) == {d \in DOMAIN gInputs \cap Contended : on /\ ~gInputs[d].grabbed}

(* The loop stops at the first failure, some other devices already done.   *)
grab(on, nested) ==
    \E held \in SUBSET MayBeHeld(on) :
      LET refused == held \cup gone IN
      \/ /\ refused = {}
         /\ gInputs' = [d \in DOMAIN gInputs |->
                          [gInputs[d] EXCEPT !.grabbed = on]]
         /\ nested
      \/ /\ refused # {}
         /\ \E done \in SUBSET (DOMAIN gInputs \ refused) :
              gInputs' = [d \in DOMAIN gInputs |->
                            IF d \in done
                            THEN [gInputs[d] EXCEPT !.grabbed = on]
                            ELSE gInputs[d]]
         /\ Throw

(* lostCurrentOutput up to the command that write-changed runs; its second *)
(* half is the "lost grab" item, then `after` runs.                        *)
LostOutputKeepsFd == [gCurrentOutput EXCEPT !.name = NoName] \* mutant
LostOutput == [fd |-> None, name |-> NoName]
lostCurrentOutput(after) ==
    /\ gCurrentOutput' = LostOutput
    /\ gWrite' = FALSE
    /\ stack' = (IF gWrite THEN fireEvent(None, "write-changed") ELSE <<>>)
                  \o LostGrab \o after
    /\ UNCHANGED <<loopVars, gOutputs, gGrab, envOutputName>>

HeldOnLossIfWriting == gGrab /\ gWrite \* mutant: inside the test of gWrite
HeldOnLoss == gGrab

FinishLostOutput ==
    /\ Pending("lost grab")
    /\ gGrab' = FALSE
    /\ IF HeldOnLoss
       THEN grab(FALSE, /\ stack' = fireEvent(None, "grab-changed") \o Tail(stack)
                        /\ UNCHANGED loopVars)
       ELSE stack' = Tail(stack) /\ UNCHANGED <<loopVars, gInputs>>
    /\ UNCHANGED <<queueVars, todo, fdVars, gInputIDFreeList, gone, lostFired,
                   gOutputs, gCurrentOutput, gWrite, envOutputName, textVars,
                   readerVars>>

-----------------------------------------------------------------------------
(* Commands: devices.                                                      *)

Ids == 0..MaxId

(* getNextInputID: the spare id if there is one, else the number of inputs *)
TooManyInputsOffByOne == Cardinality(DOMAIN gInputs) > MaxId + 1 \* mutant
TooManyInputs  == Cardinality(DOMAIN gInputs) > MaxId
getNextInputID == IF gInputIDFreeList = <<>> THEN Cardinality(DOMAIN gInputs)
                  ELSE gInputIDFreeList[Len(gInputIDFreeList)]
FreeListAfter  == IF gInputIDFreeList = <<>> THEN <<>>
                  ELSE SubSeq(gInputIDFreeList, 1, Len(gInputIDFreeList) - 1)

(* freeInputID, after an attempt that took id. *)
freeInputIDOffByOne(id) == Append(FreeListAfter, IF id > 0 THEN id - 1 ELSE id) \* mutant
freeInputID(id) == Append(FreeListAfter, id)

NewInput(id, fd) == [id |-> id, fd |-> fd, persistent |-> FALSE, grabbed |-> FALSE]

addDevice(d) ==
    /\ Executing(DeviceAdd(d))
    /\ d \notin DOMAIN gInputs /\ ~TooManyInputs
    /\ \E fd \in Fds, failed \in SUBSET BreakableFds :
         LET id == getNextInputID IN
         /\ Opens(fd)
         /\ announceDevice(id, failed)
         /\ gInputIDFreeList' = FreeListAfter
         /\ gInputs' = Put(gInputs, d, NewInput(id, fd))
         /\ files' = Put(files, fd, "device")
         /\ gFDCBs' = Put(gFDCBs, fd, CallbacksOf("device", d, id))
         /\ gFDAddQueue' = gFDAddQueue \cup {fd}
    /\ Finish(<<>>)
    /\ UNCHANGED <<todo, gCommandClients, gone, lostFired, outputVars, textVars>>

(* The node is missing or there is no descriptor left: the id is freed.    *)
OpenMayFail(d) == d \in Hotplug \/ CannotOpen

addDeviceFails(d) ==
    /\ Executing(DeviceAdd(d))
    /\ d \notin DOMAIN gInputs /\ ~TooManyInputs
    /\ OpenMayFail(d)
    /\ gInputIDFreeList' = freeInputID(getNextInputID)
    /\ Throw
    /\ UNCHANGED <<queueVars, todo, fdVars, gInputs, gone, lostFired, outputVars,
                   textVars, readerVars>>

addDeviceRefused(d) ==
    /\ Executing(DeviceAdd(d))
    /\ d \in DOMAIN gInputs \/ TooManyInputs
    /\ Throw
    /\ UNCHANGED <<queueVars, todo, fdVars, deviceVars, outputVars, textVars,
                   readerVars>>

removeDevice(d) ==
    /\ Executing(DeviceRemove(d))
    /\ IF d \in DOMAIN gInputs
       THEN removeFD({gInputs[d].fd}) /\ Finish(<<>>)
       ELSE Throw /\ UNCHANGED queueVars
    /\ UNCHANGED <<todo, fdVars, deviceVars, outputVars, textVars, readerVars>>

setPersistent(d, b) ==
    /\ Executing(SetPersistent(d, b))
    /\ IF d \in DOMAIN gInputs
       THEN gInputs' = [gInputs EXCEPT ![d].persistent = b] /\ Finish(<<>>)
       ELSE Throw /\ UNCHANGED gInputs
    /\ UNCHANGED <<queueVars, todo, fdVars, gInputIDFreeList, gone, lostFired,
                   outputVars, textVars, readerVars>>

(* rename and reset-name change a label nothing here depends on; setName   *)
(* may refuse a label that is too long.                                    *)
renameDevice(d) ==
    /\ Executing(DeviceRename(d))
    /\ (d \in DOMAIN gInputs /\ Finish(<<>>)) \/ Throw
    /\ UNCHANGED <<queueVars, todo, fdVars, deviceVars, outputVars, textVars,
                   readerVars>>

-----------------------------------------------------------------------------
(* Commands: outputs.                                                      *)

InputIds  == {gInputs[d].id : d \in DOMAIN gInputs}
UniqueIds == \A d, e \in DOMAIN gInputs : d # e => gInputs[d].id # gInputs[e].id

(* writeNE2AddDevice queries the device and writes to the output.          *)
AnnounceMayFail(o) == DOMAIN gInputs # {} /\ (o \in Breakable \/ gone # {})

(* addOutput_Finish: Hello has been written to the new descriptor, the     *)
(* devices are announced unless --resume says the reader has them, and the *)
(* output is entered even if that failed: it is dropped in the next sweep. *)
addOutput(o, resume) ==
    /\ Executing(IF resume THEN OutputResume(o) ELSE OutputAdd(o))
    /\ o \notin DOMAIN gOutputs
    /\ \E fd \in Fds, fails \in BOOLEAN :
         /\ Opens(fd)
         /\ fails => ~resume /\ AnnounceMayFail(o)
         /\ ~fails => resume \/ gone = {}
         /\ IF fails THEN removeFD({fd}) /\ torn' = torn \cup {fd}
                     ELSE UNCHANGED <<queueVars, torn>>
         /\ told' = Put(told, fd, IF fails THEN {} ELSE InputIds)
         /\ Complains("duplicate device", ~fails /\ ~resume /\ ~UniqueIds)
         /\ gOutputs' = Put(gOutputs, o, fd)
         /\ files' = Put(files, fd, "output")
         /\ gFDCBs' = Put(gFDCBs, fd, CallbacksOf("output", NoName, None))
    /\ Finish(<<>>)
    /\ UNCHANGED <<todo, gFDAddQueue, gCommandClients, deviceVars, gCurrentOutput,
                   gWrite, gGrab, envOutputName, textVars>>

(* The name is taken, the destination cannot be opened or does not take    *)
(* the Hello packet, or there is no descriptor left.                       *)
addOutputFails(o, resume) ==
    /\ Executing(IF resume THEN OutputResume(o) ELSE OutputAdd(o))
    /\ o \in DOMAIN gOutputs \/ o \in Breakable \/ CannotOpen
    /\ Throw
    /\ UNCHANGED <<queueVars, todo, fdVars, deviceVars, outputVars, textVars,
                   readerVars>>

removeOutput(o) ==
    /\ Executing(OutputRemove(o))
    /\ IF o \in DOMAIN gOutputs
       THEN removeFD({gOutputs[o]}) /\ Finish(<<>>)
       ELSE Throw /\ UNCHANGED queueVars
    /\ UNCHANGED <<todo, fdVars, deviceVars, outputVars, textVars, readerVars>>

useOutput(o) ==
    /\ Executing(Use(o))
    /\ IF o \in DOMAIN gOutputs
       THEN /\ gCurrentOutput' = [fd |-> gOutputs[o], name |-> o]
            /\ envOutputName' = o
            /\ Finish(fireEvent(Top.client, "output-changed"))
       ELSE Throw /\ UNCHANGED <<gCurrentOutput, envOutputName>>
    /\ UNCHANGED <<queueVars, todo, fdVars, deviceVars, gOutputs, gWrite, gGrab,
                   textVars, readerVars>>

(* The value a state argument selects: parseBool, or toggle.               *)
Selected(x, current) == CASE x = "on" -> TRUE [] x = "off" -> FALSE
                          [] x = "toggle" -> ~current

writeEvents(x) ==
    /\ Executing(WriteEvents(x))
    /\ gWrite' = Selected(x, gWrite)
    /\ Finish(fireEvent(Top.client, "write-changed"))
    /\ UNCHANGED <<queueVars, todo, fdVars, deviceVars, gOutputs, gCurrentOutput,
                   gGrab, envOutputName, textVars, readerVars>>

grabDevices(x) ==
    /\ Executing(GrabDevices(x))
    /\ gGrab' = Selected(x, gGrab)
    /\ grab(Selected(x, gGrab), Finish(fireEvent(Top.client, "grab-changed")))
    /\ UNCHANGED <<queueVars, todo, fdVars, gInputIDFreeList, gone, lostFired,
                   gOutputs, gCurrentOutput, gWrite, envOutputName, textVars,
                   readerVars>>

(* The deprecated command: grab-devices, then write-events.                *)
grabBoth(x) ==
    /\ Executing(Grab(x))
    /\ gGrab' = Selected(x, gGrab)
    /\ grab(Selected(x, gGrab), Finish(fireEvent(Top.client, "grab-changed")
                               \o Run(Top.client, "none", <<WriteEvents(x)>>)))
    /\ UNCHANGED <<queueVars, todo, fdVars, gInputIDFreeList, gone, lostFired,
                   gOutputs, gCurrentOutput, gWrite, envOutputName, textVars,
                   readerVars>>

-----------------------------------------------------------------------------
(* Commands: hotkeys, actions, the rest.                                   *)

addHotkey(d, k, t) ==
    /\ Executing(HotkeyAdd(d, k, t))
    /\ IF d \in DOMAIN gInputs
       THEN gHotkeys' = Put(gHotkeys, <<gInputs[d].id, k>>, t) /\ Finish(<<>>)
       ELSE Throw /\ UNCHANGED gHotkeys
    /\ UNCHANGED <<queueVars, todo, fdVars, deviceVars, outputVars, gEventCommands,
                   readerVars>>

removeHotkey(d, k) ==
    /\ Executing(HotkeyRemove(d, k))
    /\ IF d \in DOMAIN gInputs
       THEN gHotkeys' = Without(gHotkeys, {<<gInputs[d].id, k>>}) /\ Finish(<<>>)
       ELSE Throw /\ UNCHANGED gHotkeys
    /\ UNCHANGED <<queueVars, todo, fdVars, deviceVars, outputVars, gEventCommands,
                   readerVars>>

(* fireEvent parses the stored string in place. When the command being run *)
(* replaces or removes the entry it came from, what is left of the line is *)
(* read from freed memory: it is still there, or it is rubbish.            *)
FinishDamaging(event) ==
    \E rubbish \in BOOLEAN :
      /\ rubbish => \E i \in DOMAIN AfterCommand : AfterCommand[i].from = event
      /\ stack' = ReplyTo(Top.client) \o
           [i \in DOMAIN AfterCommand |->
              IF rubbish /\ AfterCommand[i].from = event
              THEN [AfterCommand[i] EXCEPT !.rest = <<Bad>>] ELSE AfterCommand[i]]
      /\ UNCHANGED loopVars

setAction(e, t) ==
    /\ Executing(ActionSet(e, t))
    /\ gEventCommands' = Put(gEventCommands, e, t)
    /\ FinishDamaging(e)
    /\ UNCHANGED <<queueVars, todo, fdVars, deviceVars, outputVars, gHotkeys,
                   readerVars>>

removeAction(e) ==
    /\ Executing(ActionRemove(e))
    /\ gEventCommands' = Without(gEventCommands, {e})
    /\ IF e \in DOMAIN gEventCommands THEN FinishDamaging(e) ELSE Finish(<<>>)
    /\ UNCHANGED <<queueVars, todo, fdVars, deviceVars, outputVars, gHotkeys,
                   readerVars>>

(* What is run of a file: all of it, or nothing (fopen fails) or some lines *)
(* (getline fails), and then there is an exception, as from an unknown     *)
(* command.                                                                *)
Sourced(t) ==
    {Text[t]} \cup {Append(SubSeq(Text[t], 1, n), Bad) : n \in 0..Len(Text[t])}

sourceCommandFile(t) ==
    /\ Executing(Source(t))
    /\ \E commands \in Sourced(t) : Finish(Run(Top.client, "none", commands))
    /\ UNCHANGED <<queueVars, todo, fdVars, deviceVars, outputVars, textVars,
                   readerVars>>

quit ==
    /\ Executing(Quit)
    /\ gQuit' = TRUE
    /\ stack' = ReplyTo(Top.client) \o AfterCommand
    /\ UNCHANGED <<pc, failure, gCommandQueue, pfds, revents, queueVars, todo,
                   fdVars, deviceVars, outputVars, textVars, readerVars>>

nop ==
    /\ Executing(Nop)
    /\ Finish(<<>>)
    /\ UNCHANGED <<queueVars, todo, fdVars, deviceVars, outputVars, textVars,
                   readerVars>>

unknownCommand ==
    /\ Executing(Bad)
    /\ Throw
    /\ UNCHANGED <<queueVars, todo, fdVars, deviceVars, outputVars, textVars,
                   readerVars>>

(* toClient: a client that has gone away is disconnected.                  *)
toClient ==
    /\ Pending("reply")
    /\ stack' = Tail(stack)
    /\ removeFD({Top.client}) \/ UNCHANGED queueVars
    /\ UNCHANGED <<loopVars, todo, fdVars, deviceVars, outputVars, textVars,
                   readerVars>>

(* fireEvent and parseClientCommand recurse without a limit.               *)
stackOverflow ==
    /\ Running /\ Len(stack) > MaxStack
    /\ Die("stack overflow")
    /\ UNCHANGED <<queueVars, todo, fdVars, deviceVars, outputVars, textVars,
                   readerVars>>

-----------------------------------------------------------------------------
(* Callbacks of the poll loop. An onRead, onHUP or onError item is one.    *)

Called(do, fd, kind) ==
    /\ Pending(do) /\ ~gQuit
    /\ Top.fd = fd /\ fd \in DOMAIN gFDCBs /\ gFDCBs[fd].kind = kind

(* newCommandClient. Nothing catches the exception of a failed accept.     *)
acceptClient ==
    /\ Called("onRead", Server, "server")
    /\ \/ /\ CannotOpen
          /\ Throw
          /\ UNCHANGED fdVars
       \/ \E fd \in Fds :
            /\ Opens(fd)
            /\ files' = Put(files, fd, "client")
            /\ gFDCBs' = Put(gFDCBs, fd, CallbacksOf("client", NoName, None))
            /\ gFDAddQueue' = gFDAddQueue \cup {fd}
            /\ gCommandClients' = gCommandClients \cup {fd}
            /\ stack' = Tail(stack)
            /\ UNCHANGED loopVars
    /\ UNCHANGED <<queueVars, todo, deviceVars, outputVars, textVars, readerVars>>

(* readCommand gets a line. *)
readCommand(fd, t) ==
    /\ Called("onRead", fd, "client")
    /\ gCommandQueue' = Append(gCommandQueue, [client |-> fd, text |-> t])
    /\ stack' = Tail(stack)
    /\ UNCHANGED <<pc, failure, gQuit, pfds, revents, queueVars, todo, fdVars,
                   deviceVars, outputVars, textVars, readerVars>>

(* readCommand gets an end of file, or the connection hung up. *)
disconnectClient(fd) ==
    /\ Called("onRead", fd, "client") \/ Called("onHUP", fd, "client")
    /\ removeFD({fd})
    /\ stack' = Tail(stack)
    /\ UNCHANGED <<loopVars, todo, fdVars, deviceVars, outputVars, textVars,
                   readerVars>>

deviceLostSilently(fd) == \* mutant: closeDevice as the callback
    /\ Called("onError", fd, "device") \/ Called("onHUP", fd, "device")
    /\ stack' = Task("close", fd) \o Tail(stack)
    /\ UNCHANGED <<loopVars, queueVars, todo, fdVars, deviceVars, outputVars, textVars,
                   readerVars>>

(* onError and onHUP of a device: device-lost first, then closeDevice. *)
deviceLost(fd) ==
    /\ Called("onError", fd, "device") \/ Called("onHUP", fd, "device")
    /\ lostFired' = lostFired \cup {gFDCBs[fd].dev}
    /\ stack' = fireEvent(None, "device-lost") \o Task("close", fd) \o Tail(stack)
    /\ UNCHANGED <<loopVars, queueVars, todo, fdVars, gInputs, gInputIDFreeList,
                   gone, outputVars, textVars, readerVars>>

closeDeviceOmitted == \* mutant: the event is fired and the device kept
    /\ Pending("close")
    /\ stack' = Tail(stack)
    /\ UNCHANGED <<loopVars, queueVars, todo, fdVars, deviceVars, outputVars, textVars,
                   readerVars>>

closeDevice ==
    /\ Pending("close")
    /\ removeFD({Top.fd})
    /\ stack' = Tail(stack)
    /\ UNCHANGED <<loopVars, todo, fdVars, deviceVars, outputVars, textVars,
                   readerVars>>

(* readFromDevice when the read fails: no event is fired. *)
readFails(fd) ==
    /\ Called("onRead", fd, "device")
    /\ gFDCBs[fd].dev \in gone
    /\ removeFD({fd})
    /\ stack' = Tail(stack)
    /\ UNCHANGED <<loopVars, todo, fdVars, deviceVars, outputVars, textVars,
                   readerVars>>

Reads(fd) == Called("onRead", fd, "device") /\ gFDCBs[fd].dev \notin gone
Forwards  == gCurrentOutput.fd # None /\ gWrite

tryHotkey(fd, k) ==
    LET key == <<gFDCBs[fd].id, k>> IN
    /\ Reads(fd)
    /\ IF key \in DOMAIN gHotkeys
       THEN gCommandQueue' = Append(gCommandQueue,
                                    [client |-> None, text |-> gHotkeys[key]])
       ELSE ~Forwards /\ UNCHANGED gCommandQueue
    /\ stack' = Tail(stack)
    /\ UNCHANGED <<pc, failure, gQuit, pfds, revents, queueVars, todo, fdVars,
                   deviceVars, outputVars, textVars, readerVars>>

(* The event is no hotkey and is written to the current output. *)
CurrentIs(kinds) == gCurrentOutput.fd \in DOMAIN files /\ files[gCurrentOutput.fd] \in kinds

forwardEvent(fd, k) ==
    /\ Reads(fd) /\ <<gFDCBs[fd].id, k>> \notin DOMAIN gHotkeys /\ Forwards
    /\ CurrentIs({"output", "client"})
    /\ Complains("missing device", /\ gCurrentOutput.fd \in Listening({})
                                    /\ gFDCBs[fd].id \notin told[gCurrentOutput.fd])
    /\ stack' = Tail(stack)
    /\ UNCHANGED <<loopVars, queueVars, todo, fdVars, deviceVars, outputVars,
                   textVars, told, torn>>

DroppedAfterLoss == {} \* mutant: lostCurrentOutput() first, then removeOutput(-1)
Dropped == {gCurrentOutput.fd}

forwardFails(fd, k) ==
    /\ Reads(fd) /\ <<gFDCBs[fd].id, k>> \notin DOMAIN gHotkeys /\ Forwards
    /\ gCurrentOutput.fd \in BreakableFds \/ ~CurrentIs({"output"})
    /\ torn' = torn \cup ({gCurrentOutput.fd} \cap OutputFds)
    /\ removeFD(Dropped)
    /\ lostCurrentOutput(Tail(stack))
    /\ UNCHANGED <<todo, fdVars, deviceVars, textVars, told, protocolErrors>>

-----------------------------------------------------------------------------
(* onRemove: what processRemoveQueue calls for each entry of the queue.    *)

(* The owner of the descriptor finds it among its clients or devices.      *)
Found(fd) ==
    LET d == gFDCBs[fd].dev IN
    /\ gFDCBs[fd].kind = "client" => fd \in gCommandClients
    /\ gFDCBs[fd].kind = "device" => d \in DOMAIN gInputs /\ gInputs[d].fd = fd

Removing(fd, kind) ==
    /\ pc = "remove" /\ stack = <<>>
    /\ fd \in todo /\ fd \in DOMAIN gFDCBs /\ gFDCBs[fd].kind = kind /\ Found(fd)

(* The owner closes the descriptor, then gFDCBs.erase(cbs).                *)
CloseKeepingCallbacks(fd) == files' = Without(files, {fd}) /\ UNCHANGED gFDCBs \* mutant
Close(fd) == files' = Without(files, {fd}) /\ gFDCBs' = Without(gFDCBs, {fd})

finishClientRemoval(fd) ==
    /\ Removing(fd, "client")
    /\ todo' = todo \ {fd}
    /\ gCommandClients' = gCommandClients \ {fd}
    /\ Close(fd)
    /\ UNCHANGED <<loopVars, stack, queueVars, gFDAddQueue, deviceVars, outputVars,
                   textVars, readerVars>>

(* The hotkeys of the id go with the device. The id is not freed.          *)
keepDeviceHotkeys(id) == UNCHANGED gHotkeys \* mutant
cleanupDeviceHotkeys(id) ==
    gHotkeys' = Without(gHotkeys, {h \in DOMAIN gHotkeys : h[1] = id})

RemovalAnnouncedInverted(d) == gInputs[d].persistent \* mutant
RemovalAnnounced(d) == ~gInputs[d].persistent

finishDeviceRemoval(fd) ==
    /\ Removing(fd, "device")
    /\ LET d  == gFDCBs[fd].dev
           id == gInputs[d].id
       IN  /\ IF RemovalAnnounced(d)
              THEN \E failed \in SUBSET BreakableFds : announceDeviceRemoval(id, failed)
              ELSE UNCHANGED <<readerVars, queueVars>>
           /\ cleanupDeviceHotkeys(id)
           /\ gInputs' = Without(gInputs, {d})
           /\ gone' = gone \ {d}
           /\ lostFired' = lostFired \ {d}
    /\ todo' = todo \ {fd}
    /\ Close(fd)
    /\ UNCHANGED <<loopVars, stack, gFDAddQueue, gCommandClients, gInputIDFreeList,
                   outputVars, gEventCommands>>

IsCurrentIfWriting(fd) == gCurrentOutput.fd = fd /\ gWrite \* mutant
IsCurrent(fd) == gCurrentOutput.fd = fd

finishOutputRemoval(fd) ==
    /\ Removing(fd, "output")
    /\ todo' = todo \ {fd}
    /\ IF IsCurrent(fd)
       THEN lostCurrentOutput(Task("erase", fd))
       ELSE stack' = Task("erase", fd) /\ UNCHANGED <<loopVars, outputVars>>
    /\ UNCHANGED <<queueVars, fdVars, deviceVars, textVars, readerVars>>

(* ... and once lostCurrentOutput is through, the output is closed.        *)
eraseOutput ==
    /\ Pending("erase")
    /\ LET fd == Top.fd IN
       IF fd \in OutputFds
       THEN /\ gOutputs' = Without(gOutputs, {o \in DOMAIN gOutputs : gOutputs[o] = fd})
            /\ Close(fd)
            /\ told' = Without(told, {fd})
            /\ torn' = torn \ {fd}
            /\ stack' = Tail(stack)
            /\ UNCHANGED loopVars
       ELSE /\ Die("failed to find fd")
            /\ UNCHANGED <<gOutputs, files, gFDCBs, told, torn>>
    /\ UNCHANGED <<queueVars, todo, gFDAddQueue, gCommandClients, deviceVars,
                   gCurrentOutput, gWrite, gGrab, envOutputName, textVars,
                   protocolErrors>>

(* An entry without callbacks, or one its owner does not find, throws; so  *)
(* does one read through an iterator into freed memory.                    *)
removeUnknown ==
    /\ pc = "remove" /\ stack = <<>>
    /\ \E fd \in todo :
         /\ fd \in DOMAIN gFDCBs => ~Found(fd)
         /\ Die(IF fd \in DOMAIN gFDCBs THEN "failed to find fd"
                ELSE "FD without cleanup callback")
    /\ UNCHANGED <<queueVars, todo, fdVars, deviceVars, outputVars, textVars,
                   readerVars>>

removeDangling ==
    /\ pc = "remove" /\ stack = <<>>
    /\ todo # {} /\ moved
    /\ Die("dangling iterator")
    /\ UNCHANGED <<queueVars, todo, fdVars, deviceVars, outputVars, textVars,
                   readerVars>>

-----------------------------------------------------------------------------
(* The loop of cmd_daemon.                                                 *)

Idle(phase) == pc = phase /\ stack = <<>>
NextRound   == IF gQuit THEN "quitting" ELSE "commands"

started ==
    /\ Idle("startup")
    /\ pc' = NextRound
    /\ UNCHANGED <<failure, gQuit, gCommandQueue, pfds, revents, stack, queueVars,
                   todo, fdVars, deviceVars, outputVars, textVars, readerVars>>

processCommandQueue ==
    /\ Idle("commands") /\ gCommandQueue # <<>>
    /\ gCommandQueue' = Tail(gCommandQueue)
    /\ LET command == Head(gCommandQueue) IN
         stack' = Run(command.client, "none", Text[command.text])
    /\ UNCHANGED <<pc, failure, gQuit, pfds, revents, queueVars, todo, fdVars,
                   deviceVars, outputVars, textVars, readerVars>>

(* Attach what was added, detach what is to be removed, start the sweep.   *)
PolledUnlessAdded == (pfds \ gFDRemoveQueue) \cup gFDAddQueue \* mutant: erase, insert
Polled == (pfds \cup gFDAddQueue) \ gFDRemoveQueue
SweepButLowest == {fd \in gFDRemoveQueue : \E g \in gFDRemoveQueue : g < fd} \* mutant
Sweep == gFDRemoveQueue
SweepAnytime == TRUE \* mutant: the sweep does not wait for the commands
CommandsDone == gCommandQueue = <<>>

processRemoveQueue ==
    /\ Idle("commands") /\ CommandsDone
    /\ pfds' = Polled
    /\ gFDAddQueue' = {}
    /\ todo' = Sweep
    /\ pc' = "remove"
    /\ UNCHANGED <<failure, gQuit, gCommandQueue, revents, stack, queueVars, gFDCBs,
                   files, gCommandClients, deviceVars, outputVars, textVars,
                   readerVars>>

(* The sweep has passed its (old) end: clear() also drops what was queued  *)
(* since it began.                                                         *)
AfterSweepUnchecked == "poll" \* mutant
AfterSweep == IF gQuit THEN "quitting" ELSE "poll"

sweepDone ==
    /\ Idle("remove") /\ todo = {}
    /\ gFDRemoveQueue' = {} /\ moved' = FALSE
    /\ pc' = AfterSweep
    /\ UNCHANGED <<failure, gQuit, gCommandQueue, pfds, revents, stack, todo, fdVars,
                   deviceVars, outputVars, textVars, readerVars>>

(* poll returns: events may be waiting on any descriptor, a client may have *)
(* hung up, hardware that is gone always reports an error and a hangup.    *)
GoneFds == {gInputs[d].fd : d \in gone} \cap pfds
poll ==
    /\ Idle("poll")
    /\ \E readable \in SUBSET pfds, hungUp \in SUBSET (gCommandClients \cap pfds) :
         LET ready == readable \cup GoneFds IN
         /\ hungUp \subseteq readable /\ ready # {}
         /\ Server \in readable => Cardinality(gCommandClients) < MaxClients
         /\ revents' = [fd \in ready |->
              (IF fd \in readable THEN {"onRead"} ELSE {})
                \cup (IF fd \in hungUp \cup GoneFds THEN {"onHUP"} ELSE {})
                \cup (IF fd \in GoneFds THEN {"onError"} ELSE {})]
    /\ pc' = "dispatch"
    /\ UNCHANGED <<failure, gQuit, gCommandQueue, pfds, stack, queueVars, todo,
                   fdVars, deviceVars, outputVars, textVars, readerVars>>

(* EINTR, from SIGCHLD of a child that has ended or from SIGTERM; a        *)
(* descriptor that has something to report is reported first.              *)
AfterEINTRRetry == "poll" \* mutant: the wait is taken up again
AfterEINTR == NextRound
pollInterrupted ==
    /\ Idle("poll") /\ GoneFds = {}
    /\ pc' = AfterEINTR
    /\ UNCHANGED <<failure, gQuit, gCommandQueue, pfds, revents, stack, queueVars,
                   todo, fdVars, deviceVars, outputVars, textVars, readerVars>>

dispatch(fd) ==
    /\ Idle("dispatch") /\ ~gQuit
    /\ fd \in DOMAIN revents
    /\ revents' = Without(revents, {fd})
    /\ IF fd \in DOMAIN gFDCBs
       THEN /\ stack' = (IF "onError" \in revents[fd] THEN Task("onError", fd) ELSE <<>>)
                     \o (IF "onHUP"   \in revents[fd] THEN Task("onHUP", fd)   ELSE <<>>)
                     \o (IF "onRead"  \in revents[fd] THEN Task("onRead", fd)  ELSE <<>>)
            /\ UNCHANGED <<pc, failure>>
       ELSE /\ pc' = "failed" /\ failure' = "callback map broken"
            /\ UNCHANGED stack
    /\ UNCHANGED <<gQuit, gCommandQueue, pfds, queueVars, todo, fdVars, deviceVars,
                   outputVars, textVars, readerVars>>

dispatchDone ==
    /\ Idle("dispatch") /\ DOMAIN revents = {} /\ ~gQuit
    /\ IF pfds \subseteq DOMAIN gFDCBs
       THEN pc' = "commands" /\ UNCHANGED failure
       ELSE pc' = "failed" /\ failure' = "callback map broken"
    /\ UNCHANGED <<gQuit, gCommandQueue, pfds, revents, stack, queueVars, todo,
                   fdVars, deviceVars, outputVars, textVars, readerVars>>

(* `if (gQuit) break` between callbacks. *)
AtCallback == stack # <<>> => Top.do \in {"onError", "onHUP", "onRead"}
dispatchBreak ==
    /\ pc = "dispatch" /\ gQuit /\ AtCallback
    /\ pc' = "quitting"
    /\ stack' = <<>>
    /\ revents' = NoEntries
    /\ UNCHANGED <<failure, gQuit, gCommandQueue, pfds, queueVars, todo, fdVars,
                   deviceVars, outputVars, textVars, readerVars>>

shutdown ==
    /\ pc = "quitting"
    /\ pc' = "exited"
    /\ gFDRemoveQueue' = {}
    /\ gFDCBs' = NoEntries
    /\ files' = Without(files, gCommandClients)
    /\ gCommandClients' = {}
    /\ UNCHANGED <<failure, gQuit, gCommandQueue, pfds, revents, stack, moved, todo,
                   gFDAddQueue, deviceVars, outputVars, textVars, readerVars>>

-----------------------------------------------------------------------------
(* The world around the daemon.                                            *)

Alive == pc \notin {"exited", "failed"}

(* The hardware behind an input device is unplugged.                       *)
unplug(d) ==
    /\ Alive /\ d \in Hotplug /\ d \in DOMAIN gInputs /\ d \notin gone
    /\ gone' = gone \cup {d}
    /\ UNCHANGED <<loopVars, stack, queueVars, todo, fdVars, gInputs,
                   gInputIDFreeList, lostFired, outputVars, textVars, readerVars>>

(* SIGTERM, SIGINT or SIGQUIT: signull.                                    *)
signull ==
    /\ Signals /\ Alive /\ ~gQuit
    /\ gQuit' = TRUE
    /\ UNCHANGED <<pc, failure, gCommandQueue, pfds, revents, stack, queueVars, todo,
                   fdVars, deviceVars, outputVars, textVars, readerVars>>

-----------------------------------------------------------------------------
Init ==
    /\ pc = "startup" /\ failure = "none"
    /\ stack = Run(None, "none", Text[Startup])
    /\ gQuit = FALSE
    /\ gCommandQueue = <<>>
    /\ pfds = {Server}
    /\ revents = NoEntries
    /\ gFDAddQueue = {} /\ gFDRemoveQueue = {} /\ todo = {} /\ moved = FALSE
    /\ gFDCBs = [fd \in {Server} |-> CallbacksOf("server", NoName, None)]
    /\ files = [fd \in {Server} |-> "server"]
    /\ gCommandClients = {}
    /\ gInputs = NoEntries /\ gInputIDFreeList = <<>> /\ gone = {} /\ lostFired = {}
    /\ gOutputs = NoEntries
    /\ gCurrentOutput = [fd |-> None, name |-> ""]
    /\ gWrite = FALSE /\ gGrab = FALSE
    /\ envOutputName = ""
    /\ gHotkeys = NoEntries /\ gEventCommands = NoEntries
    /\ told = NoEntries /\ torn = {} /\ protocolErrors = {}

DeviceCommand ==
    \E d \in Devices :
      \/ addDevice(d) \/ addDeviceFails(d) \/ addDeviceRefused(d)
      \/ removeDevice(d) \/ renameDevice(d)
      \/ \E b \in BOOLEAN : setPersistent(d, b)
      \/ \E k \in Keys : removeHotkey(d, k) \/ \E t \in Texts : addHotkey(d, k, t)

OutputCommand ==
    \E o \in Outputs :
      \/ \E resume \in BOOLEAN : addOutput(o, resume) \/ addOutputFails(o, resume)
      \/ removeOutput(o) \/ useOutput(o)

OtherCommand ==
    \/ \E x \in States : writeEvents(x) \/ grabDevices(x) \/ grabBoth(x)
    \/ \E e \in Events : removeAction(e) \/ \E t \in Texts : setAction(e, t)
    \/ \E t \in Texts : sourceCommandFile(t)
    \/ quit \/ nop \/ unknownCommand \/ toClient \/ stackOverflow

Callback ==
    \/ acceptClient \/ closeDevice
    \/ \E fd \in Fds :
         \/ \E t \in ClientTexts : readCommand(fd, t)
         \/ disconnectClient(fd) \/ deviceLost(fd) \/ readFails(fd)
         \/ \E k \in Keys : \/ tryHotkey(fd, k) \/ forwardEvent(fd, k)
                            \/ forwardFails(fd, k)

Removal ==
    \/ \E fd \in Fds : \/ finishClientRemoval(fd) \/ finishDeviceRemoval(fd)
                       \/ finishOutputRemoval(fd)
    \/ eraseOutput \/ FinishLostOutput \/ removeUnknown \/ removeDangling

Loop ==
    \/ started \/ processCommandQueue \/ processRemoveQueue \/ sweepDone
    \/ \E fd \in Fds : dispatch(fd)
    \/ dispatchDone \/ dispatchBreak \/ shutdown

(* What the thread does by itself: everything but waking up from poll.     *)
Step == DeviceCommand \/ OutputCommand \/ OtherCommand \/ Callback \/ Removal \/ Loop
Wake == poll \/ pollInterrupted
World == signull \/ \E d \in Devices : unplug(d)
Ended == ~Alive /\ UNCHANGED vars

Next == Step \/ Wake \/ World \/ Ended
Spec == Init /\ [][Next]_vars

-----------------------------------------------------------------------------
(* Types.                                                                  *)

Input == [id : Ids, fd : Fds, persistent : BOOLEAN, grabbed : BOOLEAN]
Phases == {"startup", "commands", "remove", "poll", "dispatch", "quitting", "exited",
           "failed"}
Failures == {"none", "uncaught exception", "stack overflow", "callback map broken",
             "FD without cleanup callback", "failed to find fd", "dangling iterator"}
Works == {"run", "reply", "lost grab", "erase", "close", "onError", "onHUP", "onRead"}
Clients == Fds \cup {None}
Kinds == {"server", "client", "device", "output"}
Callbacks == [kind : Kinds, dev : Devices \cup {NoName}, id : Ids \cup {None}]
WorkItem == [do : Works, client : Clients, fd : Clients, from : Events \cup {"none"},
             rest : Seq(Command)]

(* A std::map: a function on some of the keys. *)
Table(f, keys, values) == DOMAIN f \subseteq keys /\ f \in [DOMAIN f -> values]

LoopType ==
    /\ pc \in Phases /\ failure \in Failures /\ gQuit \in BOOLEAN
    /\ gCommandQueue \in Seq([client : Clients, text : Texts])
    /\ pfds \subseteq Fds
    /\ Table(revents, Fds, SUBSET {"onRead", "onHUP", "onError"})
StackType == stack \in Seq(WorkItem)
QueueType ==
    gFDRemoveQueue \subseteq Clients /\ todo \subseteq Clients /\ moved \in BOOLEAN
FdType ==
    /\ gFDAddQueue \subseteq Fds /\ gCommandClients \subseteq Fds
    /\ Table(gFDCBs, Fds, Callbacks) /\ Table(files, Fds, Kinds)
DeviceType ==
    /\ Table(gInputs, Devices, Input)
    /\ gInputIDFreeList \in Seq(Ids)
    /\ gone \subseteq DOMAIN gInputs /\ lostFired \subseteq Devices \cup {NoName}
OutputType ==
    /\ Table(gOutputs, Outputs, Fds)
    /\ gCurrentOutput \in [fd : Clients, name : Outputs \cup {NoName, ""}]
    /\ gWrite \in BOOLEAN /\ gGrab \in BOOLEAN
    /\ envOutputName \in Outputs \cup {""}
TextType ==
    /\ Table(gHotkeys, Ids \X Keys, Texts) /\ Table(gEventCommands, Events, Texts)
ReaderType ==
    /\ Table(told, Fds, SUBSET Ids)
    /\ torn \subseteq Fds
    /\ protocolErrors \subseteq {"duplicate device", "missing device"}

(* Every global of daemon.cpp holds a value of its C++ type, descriptors   *)
(* and ids in range.                                                       *)
TypeOK ==
    /\ LoopType /\ StackType /\ QueueType /\ FdType
    /\ DeviceType /\ OutputType /\ TextType /\ ReaderType

-----------------------------------------------------------------------------
(* Safety.                                                                 *)

KindsAgree ==
    /\ DOMAIN gFDCBs = DOMAIN files
    /\ \A fd \in DOMAIN files : gFDCBs[fd].kind = files[fd]
ClientsOwn == {fd \in DOMAIN files : files[fd] = "client"} = gCommandClients
OutputsOwn ==
    /\ {fd \in DOMAIN files : files[fd] = "output"} = OutputFds
    /\ \A o, p \in DOMAIN gOutputs : gOutputs[o] = gOutputs[p] => o = p
DevicesOwn ==
    /\ \A fd \in DOMAIN files : files[fd] = "device" =>
         /\ gFDCBs[fd].dev \in DOMAIN gInputs
         /\ gInputs[gFDCBs[fd].dev].fd = fd
         /\ gInputs[gFDCBs[fd].dev].id = gFDCBs[fd].id
    /\ \A d \in DOMAIN gInputs :
         /\ gInputs[d].fd \in DOMAIN files /\ files[gInputs[d].fd] = "device"
         /\ gFDCBs[gInputs[d].fd].dev = d

(* Each open descriptor has exactly one owner and the callbacks of that    *)
(* owner: nothing leaks, nothing is closed twice, and no callback captures *)
(* a device other than the one behind its descriptor (addDevice,           *)
(* addOutput_Finish, newCommandClient against the three finish handlers).  *)
OwnersAgree == Alive => KindsAgree /\ ClientsOwn /\ OutputsOwn /\ DevicesOwn

(* The loop never polls a descriptor that has no callbacks, so that        *)
(* "internal: callback map broken" is not thrown.                          *)
CallbackMapComplete ==
    /\ failure # "callback map broken"
    /\ Alive => pfds \cup gFDAddQueue \subseteq DOMAIN gFDCBs

(* processRemoveQueue never meets a descriptor without callbacks, nor one  *)
(* the finish handler cannot find.                                         *)
CleanupFound == failure \notin {"FD without cleanup callback", "failed to find fd"}

(* The descriptor events are written to is that of the named output.       *)
CurrentOutputOpen ==
    (Alive /\ gCurrentOutput.fd # None) =>
      /\ gCurrentOutput.name \in DOMAIN gOutputs
      /\ gOutputs[gCurrentOutput.name] = gCurrentOutput.fd

(* A line in the queue, and a reply still to be written, belong to a       *)
(* client whose descriptor is still open: no answer reaches a descriptor   *)
(* that has been recycled since the line was read.                         *)
RepliesReachTheirClient ==
    Alive => /\ \A i \in DOMAIN gCommandQueue :
                  gCommandQueue[i].client \in gCommandClients \cup {None}
             /\ \A i \in DOMAIN stack : stack[i].client \in gCommandClients \cup {None}

(* A hotkey outlives neither its device nor the id it is keyed by.         *)
HotkeysOfLiveDevices == \A h \in DOMAIN gHotkeys : h[1] \in InputIds

(* Ids are handed out without a gap and the spare one is next in line.     *)
IdsDense ==
    LET count == Cardinality(DOMAIN gInputs) IN
    /\ UniqueIds /\ InputIds = 0..(count - 1)
    /\ gInputIDFreeList = <<>> \/ gInputIDFreeList = <<count>>

(* Until a device is removed no two have the same id, however many         *)
(* additions fail in between (getNextInputID against freeInputID).         *)
IdsStayDense ==
    [][(IdsDense /\ DOMAIN gInputs \subseteq DOMAIN gInputs') => IdsDense']_vars

(* The readers of the healthy outputs know the devices there are.          *)
ReadersInStep == \A fd \in Listening({}) : told[fd] = InputIds

(* While ids are unique a reader is never sent an AddDevice for an id it   *)
(* has, nor an event or a RemoveDevice for an id it does not have, and it  *)
(* only falls out of step by a persistent device it is not told to remove. *)
ReadersStayInStep ==
    [][(UniqueIds /\ UniqueIds' /\ ReadersInStep) =>
         /\ protocolErrors' = protocolErrors
         /\ \/ ReadersInStep'
            \/ \E d \in DOMAIN gInputs \ DOMAIN gInputs' : gInputs[d].persistent]_vars

(* No reader ever has a reason to complain.                                *)
ProtocolKept == protocolErrors = {}

(* An output a write has failed on is dropped before the next poll.        *)
FailedOutputsDropped == pc = "poll" => torn \cap OutputFds = {}

(* When the loop goes to sleep, no device is grabbed without an output for *)
(* its events: losing the current output releases the devices.             *)
GrabHasOutput ==
    Idle("poll") => \/ gCurrentOutput.fd # None
                    \/ \A d \in DOMAIN gInputs : ~gInputs[d].grabbed

-----------------------------------------------------------------------------
(* Liveness. The thread runs (WF of Step), and poll wakes it when a        *)
(* descriptor reports an error or a signal has been caught (one that comes *)
(* between the test of gQuit and poll does not wake it: Commands has that  *)
(* step); nothing is assumed of clients or devices.                        *)
FairSpec ==
    /\ Spec /\ WF_vars(Step)
    /\ WF_vars(poll /\ GoneFds # {}) /\ WF_vars(pollInterrupted /\ gQuit)

(* What removeFD was called on is closed, or the daemon ends.              *)
RemovalCompletes ==
    \A fd \in Fds : fd \in gFDRemoveQueue ~> (fd \notin DOMAIN files \/ ~Alive)

(* Unplugged hardware is let go of, and its name can be added again.       *)
UnpluggedIsRemoved == \A d \in Hotplug : d \in gone ~> (d \notin gone \/ ~Alive)

(* A loss that poll has reported fires device-lost, whatever the callbacks *)
(* before it in the round do: remove the device, lose the output, or fire  *)
(* events of their own.  (A device that vanishes after poll has reported   *)
(* it readable is removed without the event: readFails.)                   *)
LossSeen(d) == /\ d \in DOMAIN gInputs /\ gInputs[d].fd \in DOMAIN revents
               /\ "onError" \in revents[gInputs[d].fd]
LossReported == \A d \in Hotplug : LossSeen(d) ~> (d \in lostFired \/ ~Alive)

(* `quit`, and a signal that finds the daemon in any phase of a round, at  *)
(* a callback, in the sweep or asleep, ends it.                            *)
QuitEnds == gQuit ~> ~Alive

=============================================================================
