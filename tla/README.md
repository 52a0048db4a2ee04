# A specification of netevent

`netevent` reads Linux input devices on one machine and recreates them on
another. This directory holds TLA+ models of its processes and of what passes
between them, the configurations that model-check them with TLC, and theorems
about the daemon, its command clients, the receiver, its socket, the wire format and
the texts of commands that TLAPS checks. File names without a directory are those of
`src/`: `daemon.cpp`, `main.cpp`, `reader.cpp`, `writer.cpp`, `socket.cpp`,
`bitfield.h`.

    tlc -config MCDaemon_devices.cfg MCDaemon     # a run
    tlapm Daemon_proofs.tla                       # proofs

## The system

| part | state it keeps | operations | what is hard |
|---|---|---|---|
| daemon loop (`daemon.cpp`, `cmd_daemon`) | pollfds, callbacks per descriptor, add and remove queues, `gQuit` | queue, sweep, poll, dispatch, shutdown | descriptors that come, go and are reused while they are iterated over; exits at any point |
| command interpreter (`daemon.cpp`) | the queue of lines | parse and run a line, `source`, report an error | event actions run nested, in the middle of other handlers |
| devices (`daemon.cpp`, `reader.cpp`) | `gInputs`, the free list of ids, grab flags | add, remove, rename, persist, grab, read | hardware disappears at any time; ids are reused; failures half way |
| outputs (`daemon.cpp`) | `gOutputs`, `gCurrentOutput`, `gWrite`, `gGrab`, environment | add (`--resume`), remove, use, write, grab | a destination breaks in the middle of any handler; losing the current one runs actions |
| hotkeys, actions (`daemon.cpp`) | `gHotkeys`, `gEventCommands` | add, remove, fire | keyed by reusable ids; an action may replace itself |
| command clients (`daemon.cpp`, `main.cpp`) | `gCommandClients` | accept, read a line, answer, hang up | an answer to a descriptor that has been recycled; stdio buffers |
| receiver (`main.cpp`, `cmd_create`; `writer.cpp`) | `devices` by id, one client at a time | Hello, AddDevice, RemoveDevice, DeviceEvent, end of file, next client | reconnects, ids left behind, streams that end in the middle of a packet |
| wire format (`reader.cpp`, `writer.cpp`, `bitfield.h`) | none | write and read AddDevice, legacy header | sizes and order of fields on two sides |
| `cat`, `show`, `command` (`main.cpp`) | none | copy one stream | how the stream of `command` ends |
| sockets (`socket.cpp`) | the path and whether to unlink it | bind, listen, connect, close | several processes on one name |
| child processes, signals (`daemon.cpp`) | children | `exec`, SIGCHLD, SIGTERM | races between the handler and the code it interrupts |
| words, names, numbers (`daemon.cpp`, `main.cpp`) | none | parse and print | quotes and escapes parsed twice; prefixes; bases |

The daemon opens devices and outputs, and writes to each output the packets a
receiver reads: over a pipe (`exec:`), a unix socket or a file. Clients send it
command lines; hotkeys put command lines into the same queue; events
(`output-changed`, `write-changed`, `grab-changed`, `device-lost`) run command
lines at once. Everything in the daemon happens on one thread, so what makes it
hard is not preemption but re-entry: a handler calls a command line that calls
handlers.

What makes each part correct: one owner per descriptor, no callback for a closed
one (loop); replies to the right client (clients); ids that tell devices apart
and readers that know them (devices); a current output that is open, broken
outputs dropped, no grabbed device without an output (outputs); hotkeys of live
devices only (hotkeys); events written to the device they come from, clients
served in turn (receiver); every line executed and answered in order, whatever
buffer it waits in (clients); every field read as the field it was written as
(wire format); a socket file that leads to the process that listens (sockets);
every child waited for once (children); a text read as its writer means it
(words, names, numbers).

## Modules

| module | models | next to |
|---|---|---|
| `Daemon` | the daemon: loop, commands, devices, outputs, hotkeys, clients | `MCDaemon` (command texts) |
| `Daemon_proofs`, `Daemon_sweep` | theorems about `Daemon`: types, owners of descriptors, ids, hotkeys, readers and replies; then sweeps, broken outputs and grabs | |
| `Commands` | a line from its client to its answer: socket, stdio buffer, queue, child processes, signals | `MCCommands` (streams) |
| `CommandService` | what the command socket promises; `Commands` implements it | |
| `Filters` | the elements of a sequence that are in a set, for `Commands` (`std::remove_if` over the pollfds) and `Wire` (loops over the set bits) | |
| `Filters_proofs` | what `Filters` returns, and lemmas on parts of sequences | |
| `Commands_proofs` | theorems about `Commands`: types, foreground children, the refinement, complete answers | |
| `Create` | the receiver with the sessions of its senders | `MCCreate` |
| `Create_proofs` | theorems about `Create`: types, events, what a sender may rely on | |
| `Start` | how receivers come to listen on a name and senders to connect to it | `MCStart` |
| `Start_proofs` | theorems about `Start`, one for each of its invariants | |
| `Wire` | a device description field by field, as written and as read | `MCWire` (devices) |
| `Wire_proofs` | theorems about `Wire`, one for each of its invariants | |
| `Parse` | commands, sourced files, numbers and events as functions of their text | `MCParse` (lengths) |
| `Parse_proofs` | theorems about the commands and sourced files of `Parse` | |

The modules cut the program at the places where one side knows little of the
other. `Daemon` takes a line as it comes out of `getline` and `Commands` has what
happens before; both have the queue and the loop, `Commands` with the devices and
outputs left out and `exec` put in. `Create` takes packets as whole, `Wire` takes one
of them apart; `Start` ends where `Create` begins. `Parse` gives the meaning of the
names that stand for texts elsewhere.

### Daemon

The thread is a program counter `pc` for the phases of `cmd_daemon` (startup,
commands, remove, poll, dispatch, quitting, exited, failed) and a `stack` of work
inside a phase. `parseClientCommand` pushes the commands of a line; a command
that fires an event pushes the action's commands above the rest of its own line;
`lostCurrentOutput` is cut where it runs the action of `write-changed`, its
second half being the item "lost grab"; `finishOutputRemoval` is cut after
`lostCurrentOutput`, its second half being "erase"; the device-lost callbacks
are cut after the event, the second half being "close". Between two of these
points nothing but hardware and signals can act, and each stretch of code between
them is one action. There is one action for each command (`addDevice`,
`useOutput`, `grabDevices`, ...), callback (`acceptClient`, `readCommand`,
`deviceLost`, `forwardEvent`, ...), removal handler (`finishDeviceRemoval`, ...)
and step of the loop (`processCommandQueue`, `poll`, `dispatch`, ...). Names are
those of the functions and globals of `daemon.cpp`.

An exception (`Throw`) is reported to the client when it is raised under
`processCommandQueue`, which drops the rest of the line and of everything
nested; anywhere else nothing catches it and the process ends with `failure` set.

What is abstracted:

* A command string is a name in `Texts`; `Text` gives the commands it parses to.
* Opening a descriptor gives the lowest free one, also for `exec:`, whose pipe
  uses a second one for a moment. The `FILE` of `source` is not counted.
* The removal queue and the pollfds are sets, visited in any order. Of the
  vector's capacity only its being a power of two is kept: a `push_back` that
  exceeds it in the sweep may leave the iterator dangling (`moved`).
* The listening socket never reports an error or hangs up.
* Read and write are whole or failed. A write that failed leaves the stream
  `torn`; what its reader makes of the rest is not tracked.
* A string that is freed while it is parsed (an action that replaces itself) is
  read intact or as an unknown command.
* Hardware disappears between actions, not inside one, so that an announcement
  of a new device fails only because of an output.
* Labels of devices, log messages and the text of replies are left out.

`told`, `torn`, `protocolErrors` and `lostFired` are history variables: what the
reader of each output knows, which streams are torn, what a reader had to
complain about in the words of `cmd_create`, and for which devices device-lost
was executed.

### Create

`cmd_create` is `pc`, `devices`, `infd`, `serversock` and `failure`; each packet of
its switch is an action. Its senders are `Sessions`, connections that send Hello
and then only what the protocol allows: an id is announced before it is used and
not twice. They connect while others wait (`backlog`), close, or are lost with
any number of packets, the next one cut short in its header (`mustRead` reports
an end of file) or in the description after an AddDevice. A session may be a
`--resume` of the one read before it, believing what that one believed; if
packets of that one were lost it is in `trusting`. Options are chosen in `Init`,
so that one run covers them all. Without `--listen` standard input is the one
client, which is the behaviour of `--on-close=end`. With `--connect` the first
client is a pipe, which makes no difference after the start. A failing uinput
and other versions of the protocol are left out: both end the receiver.

### Commands

The daemon is `pc` again, cut at every system call a signal can meet: the test of
`gQuit` ("toPoll"), `poll`, `getline` on half a line, `fork`, `waitpid`, the writing of an
answer. `sigchld` is the pending signal, handled before the next system call;
`waitpid` looks for the child before it looks at signals, and `signal()` makes it
restart (`WaitAgain`), while `poll` is interrupted (`Interrupted`). The stdio buffer is
`file`: `getline` reads the socket only when the buffer holds no whole line, and then
everything there is. A half-closed connection is readable but has not hung up
(`Reported`). Clients that are no `Sessions` do what `cmd_command` does, which sends its
line without a newline and shuts down its side; sessions write what they are given,
may stop reading and may hang up.

`CommandService` is the abstraction: lines pending and answers given for each
client. The refinement mapping takes as pending what is in the queue, then in the
buffer, then in the socket; as answers, those written and those read. `ServiceKept`
says that nothing a client sent is lost, reordered or executed twice on its way
through the three places, and only a hang-up or the end of the daemon costs a line.

Abstracted: a command is `use` (any that succeeds), `bad` (any that fails), `exec`, `exec&`
or `quit`; a line is a sequence of them; a socket holds `ReplyRoom` answers. A connection
may be made only once per client, as a new one would be a new client.

### Start

A starter is one invocation of `create --listen`; with `--connect --daemonize` it is two
processes, `sender` and `receiver`, each a small program counter. Every system call on
the name is an action: `unlink`, `bind`, `listen`, `connect` with its three outcomes, `unlink`
again on close. `path` is what the file refers to, which need not be the process that
listens; an abstract name lives and dies with its socket. `overlap` remembers that two
starters were in the window between `unlink` and `listen`, or that one took the name
of another one by force (without `--connect`), for which the code has no remedy and
makes no promise. `netevent daemon` takes its name as a starter without `--connect`.

### Wire

`NE2Writes` and `NE1Writes` are the fields that `writeNE2AddDevice` and `writeNeteventHeader`
write of a device, one after the other (a `writev` that takes several may be cut between
them); `wanted` is what the reader is going to
read, extended when it has read the event types (`AfterEvbitsNE2`, `AfterEvbitsNE1`) or the
bits of ABS (`AxesRead`). Each field has its length in bytes, computed on each side from
what that side knows. `Read` compares: a field that is read with another length, or as
another one, is `misread`. The stream may break between any two fields (within a field
it makes no difference: `mustRead` fails the same way).

### Parse

A text is a sequence of characters and every function of the source a function on
it: `parseClientCommand` with `parseString` as a recursive function over the lengths of
the text, with a mode for each state its cursor can be in, `sourceCommandFile` as one that
gets a character at a time, `parseLong`, `String2EV`, the hotkey definition. The
state is one text of one of four kinds that grows by a character per step, so that TLC
visits all texts up to a length. Words are compared with what is meant rather than
with another parser.

`HotkeyRunsCommands` is about a command that has to survive a level of quotes and
escapes: it is put behind `hotkey add ...` or `action set ...`, split into words, joined with
blanks, stored, and parsed again when it runs. There are two ways to write it, and either gives
what the text says by itself. Every semicolon, quote and backslash can be escaped (README.md:96
has the semicolons); but a backslash that begins a word takes three, since there the first
pair is nothing, and where a string has two blanks side by side, or one at its end or behind
its beginning, the joining may lose one: such texts are excepted (`BlanksKept`). Or all of it
is put in quotes of a kind that it does not have, with backslashes doubled; a quote
cannot be escaped in its own string, so a text with both kinds can only be escaped.
`SourceRunsLines` compares a sourced file with its lines written as one: a semicolon for
each newline, comments blank, and a string or an escape that the end of the line leaves
open closed before it. A line that ends in a backslash by itself is excepted
(`LoneBackslash`): the backslash is lost, and nothing before a semicolon would be.
`NumbersAsStrtol` states `strtol` for itself, and that `0X`, which it takes, is refused. Of
the digits above 9 only a lower-case one is typed; `parseLong` takes capitals as well.

The functions also show oddities that no document speaks about; the properties are
worded around them: a bare `0x` is the number 0; an escaped blank still ends a word,
and an escaped quote a string; two backslashes at the beginning of a word are none;
the last line of a sourced file loses its last character if the newline is missing;
an event type is found by any beginning of its name, the empty one included, so that
`:30:1` is `SYN:30:1` and `s:30:1` too; `SW` has a blank in its name, and `show` prints the types
from LED on as `<Unknown>`, or as the name of another type if a number is in the gap.

## Runs

| run | checks | shows |
|---|---|---|
| `devices` | `TypeOK`, `HotkeysOfLiveDevices`, `IdsStayDense`, `ReadersStayInStep` | three devices, one hot-pluggable, come and go at the id limit by clients and hotkeys, while an output may break |
| `outputs` | `CleanupFound`, `CurrentOutputOpen`, `FailedOutputsDropped`, `GrabHasOutput` | two outputs come, go and break while devices are grabbed, one of which another process may hold; SIGTERM at any time |
| `reentry` | `RemovalCompletes`, `UnpluggedIsRemoved`, `LossReported`, `QuitEnds` | actions that use the output that is going away and that remove themselves, a device that is unplugged, `quit` and SIGTERM in every phase: removals and losses are carried out, and the daemon ends when told to |
| `scarce` | `OwnersAgree`, `CallbackMapComplete`, `RepliesReachTheirClient` | two clients, a device and an output compete for the three descriptors that the socket leaves; `accept`, `device add` and `output add` fail for want of one, numbers are reused at once, an action never ends |
| `receiver` | `TypeOK`, `EventsReachTheirDevice`, `SendersUnderstood`, `WaitingClientServed` | two sessions under all options, losing packets and resuming one another |
| `commands` | `TypeOK`, `ForegroundFinished`, `AnswersComplete`, `ServiceKept`, `HalfCloseServed`, `ZombiesReaped`, `QuitEnds` | `netevent command` with a foreground child next to a session with background children: the service is kept, the command gets all its answers and an end of file, children are reaped, quit and SIGTERM end the daemon |
| `start` | `TypeOK`, `Reachable`, `FailedByRivals`, `LeftClean`, `ReadyBeforeCopy`, `RefusedServed` | three starters on one name, any of which may be killed: who listens can be reached, stale files are no obstacle, no file outlives its socket unless its owner was killed, a refused sender is served first |
| `wire` | `TypeOK`, `InStep`, `MadeAsDescribed`, `WholeArrives` | five descriptions, two protocols, two sizes of a long, created or skipped, the connection breaking anywhere |
| `parse` | `HotkeyRunsCommands`, `SourceRunsLines`, `NumbersAsStrtol`, `EventsAsSpelled` | all short texts of four kinds |

Runs that find what the code does and its documentation or its own checks rule
out:

| run | violates | shows |
|---|---|---|
| `swap` | `ProtocolKept` | an id is handed out twice after a removal |
| `drop` | `FailedOutputsDropped` | an output that breaks during the sweep is forgotten |
| `hang` | `ExecReturns` | the SIGCHLD handler takes the child that `exec` waits for; the daemon spins |

Five more disagreements are visible in the models and have no run of their own.
`--connect --daemonize` starts nothing if the socket file does not exist, against
doc/netevent.rst:70-72 (`connectFails`: only ECONNREFUSED leads to the fork).
After the output in use is lost, NETEVENT_OUTPUT_NAME still names it
(`lostCurrentOutput`). A device that vanishes between `poll` and its read is removed
without device-lost (`readFails`; `LossReported` is about losses that poll reports). A
write-changed action that uses the dying output makes a closed descriptor current,
and the next event ends the daemon with "FD without cleanup callback" (`eraseOutput`). A client
that disconnects before its Hello is complete, or inside a description, ends a
receiver in spite of `--on-close=accept` (`readHello`, `cutDevice`).

Because of these, some properties hold only on part of the behaviour, and the
runs say so by what they leave out. `IdsStayDense` and `ReadersStayInStep` are
action properties that assume no removal, or unique ids, of the state a step
starts from. `outputs` removes no device, does not grab before there is an
output, and its only action is `nop`: outside of that an output is forgotten (`drop`) or a
closed one is current. `CallbackMapComplete` is checked in `scarce`, with actions that open no descriptor
during a sweep: together with a stale current output such an action
could reuse the number that is about to be removed. In `reentry` no output breaks,
because one that breaks in the sweep is never removed (`drop`), against
`RemovalCompletes`. In `Commands`, `HeldUp` names the three ways in which a client or a child stops
the whole daemon (half a line, answers not read, the child of `hang`); the liveness
properties hold unless that lasts for ever, and `QuitEnds` does not begin in the one
step between the test of `gQuit` and `poll`, where a signal is forgotten. `AnswersComplete` is
about daemons not told to quit, since the end of the daemon closes every connection. In
`Start`, `Reachable` and `FailedByRivals` except starters that overlap, for ordinary files.

Bounds of `Daemon`. Descriptors go up to `MaxFd` (3 to 5): the command socket, a client and
what the texts of the run open. Only in `scarce`, where there is a second client,
are there too few of them, so that `open` and `accept` also fail; it has safety properties
only and no SIGTERM, `reentry` the liveness, so that each is checked within minutes. `MaxId`
is 0 to 2, so that the id limit is met. In the other runs one client is connected at a time; it
may send any of its texts again and again, hang up with lines queued and reconnect on
the same descriptor. A second one adds there only an interleaving of whole lines, which one
client that sends both already gives. `MaxStack` (6 to 8) is deeper than any nesting
of the texts except the endless one. `gCommandQueue` needs no bound: a client sends
one line per poll and the queue is emptied before the next. Keys: one, bound on
two devices; an id and a key make a hotkey, so that one key is enough to mix up two
devices.

Of the others. `Create`: two sessions of three packets each over one id and two
descriptions: an id can be announced, withdrawn, announced as another device,
left behind and resumed. `Commands`: two clients, so that answers could go wrong; two
child processes, so that `fork` fails and one SIGCHLD stands for two; three answers to
a command against room for two, so that writing blocks. `Start`: three starters, one that
listens, one that takes its place and one that connects meanwhile. `Wire`: keyboards,
axes (the first, the second and the last code), force feedback, a switch with its last
code 16, a device of event types without codes, and a name without terminator; each
type whose number of bits is or is not a multiple of 8, 32 or 64. `Parse`: lines and
files of 6 characters, numbers of 5, over alphabets with one character for each class the
code tells apart: for lines both quotes, the backslash, the semicolon, a blank (which stands
for all white space), and two letters, one of which names a control character behind a
backslash (which stands for all of these); for files the same without that letter, with hash and
newline; for numbers a digit of each base, capital digits left out. That is a word and an
escape in a string, two words in two commands, three lines, and a sign, a blank and a
prefix before two digits. The theorems are about these characters too, in texts of any
length.

Fairness. The thread of the daemon goes on (`WF(Step)`: it
is a loop that blocks only in `poll`) and `poll` returns when hardware that is gone
reports its error (`WF(poll /\ GoneFds # {})`) or when a signal was caught
while it waited (`WF(pollInterrupted /\ gQuit)`; a signal between the test of `gQuit` and `poll` is
not told apart from that in `Daemon`: it is the excepted step of `QuitEnds` in `Commands`). Nothing
is assumed of clients, of devices that work or of signals. The receiver goes on as long as there is
something to read or to accept (`WF(Receive)`); nothing is assumed of senders, which
is why `WaitingClientServed` begins when the client being read has gone. In `Commands`
the daemon, the delivery of its signals and `netevent command` go on and children end;
nothing is assumed of sessions. In `Start` processes go on until they wait for somebody
(`WF(Proceed)`), but need not be started, nor a sender's input end. In `Wire` both sides go
on; the connection need not break.

Only some runs check deadlock: a receiver that nobody connects to waits for
ever, a daemon that has ended does nothing, a stream is read to its end.

Every property of a passing run has a variant of one definition, marked
`mutant` or defined just before it, under which the run finds it violated.

## Proofs

Each theorem holds for all values of the constants that satisfy the assumption
of its module, which TLC evaluates in the runs: `DaemonAssumption` and
`TextAssumption` (limits are numbers, names are different things, a text is a
sequence of commands), `CommandsAssumption` (a stream is a sequence of lines
and newlines; two neighbours have a newline between them, or they would be one
line; a client that is no session writes one line, as `cmd_command` does),
`CreateAssumption` and `StartAssumption` (limits are numbers, "none" is no
session and no starter).

About `Daemon`:

* `TypeCorrect` (`Spec => []TypeOK`). `TypeOK` is inductive by itself. There is one
  lemma per action; the interesting cases are those that compute a value: the
  next id is in range because there are at most `MaxId` inputs, counted by
  `FS_` facts on finite sets, or because it comes off a list of ids.
* `DescriptorsOwned` (`Spec => []OwnersAgree`). While the process lives, a
  descriptor is open exactly if it has callbacks, of the kind of its owner, and
  clients, outputs and devices each own theirs alone. `OwnersAgree` is inductive
  together with `TypeOK`. The argument: a descriptor is opened only when it is free,
  hence nobody's; each finish handler drops the owner and closes the descriptor
  in one step; every other step changes at most flags of devices. `Found` in the
  removal handlers, which the code checks too, is what keeps a device from being
  closed through the callbacks of another.
* `IdsDenseUntilRemoval` (`Spec => IdsStayDense`). `StepsOnIds` sorts all steps into
  those that add a device, fail to, change hotkeys, remove a device, or leave
  ids alone. With ids 0..n-1 in use and a spare one that can only be n, the next
  id is n whether it comes from the count or from the list.
* `HotkeysLeaveWithDevice` (`Spec => []HotkeysOfLiveDevices`), from the same case
  distinction. Two devices may share an id (run `swap`); then removing one of them
  drops the hotkeys of both, and the property still holds.
* `ReadersKeptInStep` (`Spec => ReadersStayInStep`), from `ReadersTold`: there is a
  record of what its reader knows for each output and no other. `StepsOnReaders` picks
  the steps that write to outputs or change devices; for each the packets
  written are what the devices change by.
* `RepliesToTheAsking` (`Spec => []RepliesReachTheirClient`). Work on the stack is
  of the kinds its phase has (`WorkFits`), and only while commands run is it a client's,
  one that is still entered; queued lines are those of such clients, and there is none in
  a sweep (`LinesFit`). Clients leave in the sweep only, so that no line or reply of theirs
  is left by then. `Worked` and `Carries` say what all commands and callbacks do
  to the stack: the top is done, work for the same client comes in its place, and what was
  below it stays.

Five invariants of `Daemon` do not hold without a condition, because the code gives
way where it is not met:

* `CurrentStays` (`CurrentOutputOpen`), `OwnersFound` (`CleanupFound`) and
  `CallbacksFound` (`CallbackMapComplete`) hold as long as no step of a sweep makes
  an output current (`OnlyLosesCurrent`). Otherwise an action of `write-changed` that
  uses the dying output makes its descriptor current again just before it is closed. Their
  common invariant is `SweepInv`: what is polled has callbacks and is no output
  (`PolledKnown`), what is reported is polled (`ReportsPolled`), what is queued for
  removal is open, and no longer polled once the sweep has begun (`QueueOpen`), the
  second halves of callbacks and handlers find their descriptor open (`CloseOpen`,
  `EraseOpen`), and no check of the code has failed so far (`NoCheckFailed`). Each part
  needs the others: a descriptor stays open only if its handler runs once, which
  depends on who may queue it meanwhile.
* `QuietSweeps` replaces the condition on steps by one on texts (`QuietActions`): there
  is a set `A` of texts such that `action set` names only these, and what they are made of,
  sourced texts included, has no `use` in it. `ActionsQuiet` follows that through the table of
  actions and the lines on the stack. The texts of `outputs`, `devices`, `drop` and
  `swap` are such (with `A` the text `log`, or none), those of `reentry` and `scarce` are not.
  `QuietDaemon` states the three invariants for such texts.
* `BrokenAreDropped` (`FailedOutputsDropped`) holds as long as no write fails in a
  sweep (`NoneTornInSweep`); the run `drop` is the counterexample without it. `TornQueued`
  says that an output that failed is in the queue, in the part of it that is
  still to be visited, or on the stack.
* `GrabsEndWithOutput` (`GrabHasOutput`) holds as long as hardware stays (`gone = {}`),
  since a device that is gone makes `grab` stop before the devices after it are
  released, and `grab-devices` is not executed without an output (`GrabsForOutput`).
  `GrabsReleased` says that without a current output devices are held only while
  the second half of `lostCurrentOutput` is on the stack; `PledgesKept`, that such
  second halves stay there until they run.

`outputs` meets all of these conditions, checks the invariants, and reaches broken
outputs, lost current outputs and held devices; so the conditions do not exclude what the
theorems are about. `CallbackMapComplete` is checked in `scarce`, where
`OnlyLosesCurrent` fails, and so beyond what `CallbacksFound` says.

About `Start`, all five invariants of the run, from one `IInv`:

* `StartTyped`, `ListenersReachable` (`Reachable`), `OnlyRivalsFail`
  (`FailedByRivals`), `NameLeftClean` (`LeftClean`) and `CopiesWhenReady`
  (`ReadyBeforeCopy`). That a listener is reached depends on whose file the name is,
  and that on who may unlink it. `IInv` says what has happened to a socket
  before each call of its starter (`SocketsFollow`) and before each step of
  the parent of a `--daemonize` (`SendersFollow`), that a name refers to an open socket or
  to a file whose process a signal ended (`LeftClean` itself), that without an overlap no open socket
  has lost its name (`NameKept`), and that a starter between `unlink` and
  `listen` is then alone, with nothing in the way of its `bind` (`StartsAlone`).

About `Commands`:

* `CommandsTyped`, and `WaitsForForeground` (`ForegroundFinished`): the daemon is in
  `waitpid` as long as a foreground child runs, because only the return of that
  call, or its restart after a signal, leaves the phase; `ControlAgrees` says
  which variables may be set in which phase.
* `ServiceImplemented` (`Spec => ServiceKept`): every step of `Commands` is a step of
  `CommandService` or leaves pending lines and answers as they are. The mapping joins
  three sequences, so the steps that move a line from the socket to the buffer
  and from there to the queue must not change what they add up to; a client's
  lines are picked from the queue of all by `Filter`, and the `FilterConcat`,
  `FilterAppend` and `FilterFirst` lemmas say how that behaves when a line is added
  at the end or taken from the front. Whether a line may be dropped depends
  on the invariant: a client that is polled, reported or queued has an open
  connection (`OpenPolled`, `OpenReported`, `OpenQueued`), both ends agree on that
  (`EndsAgree`), what is unread is the last part of what was written
  (`UnreadIsRest`), and a client to be removed has been read to the end
  or has hung up (`RemovedAreDone`).
* `AnswersAllRead` (`Spec => []AnswersComplete`) uses the refinement: a step of the
  service executes one command and gives one answer, so what is pending of the
  one line of a `netevent command` is always what its answers leave of it
  (`LinesProgress`); at the end of file nothing is pending.

About `Create`, all three invariants of the run, from one `IInv`:

* `CreateTyped`, `EventsArrive` (`EventsReachTheirDevice`) and `SendersServed`
  (`SendersUnderstood`). A receiver does what the stream says, so the invariant is
  about streams: each packet in one is justified by the packets before it or,
  if none of those concerns its id, by the devices that the receiver has
  (`PacketsMeant`). The latter counts only for the session being read and, once that
  one is over and read to its end, for the first in line (`Bases`): the others may
  rely on nothing but what they sent themselves. What a sender believes is what
  its stream will have said at its end (`BeliefsMeant`). Reading a packet moves the
  justification of the later ones from the stream to the devices, losing
  packets leaves only sessions that are `trusting` without one.

About `Wire`, all three invariants of the run, from one `IInv`, for any devices that
`WireAssumption` allows (types that exist, codes up to the largest of their type) and
longs of 32 or 64 bits:

* `WireTyped`, `ReaderInStep` (`InStep`) and `DeviceAsDescribed` (`MadeAsDescribed`).
  `Plan` is the sequence of all fields of the description. `IInv` says that there are two
  places in it, behind the first k fields and behind the first m, such that the stream
  is what lies between them and the writer goes on behind the second (`SenderAt`); the
  bit count that the reader holds is that of the k-th field, if it is one (`CountAt`); what is
  made so far is what the first k fields describe (`Described`); and the reader wants
  the fields behind the k-th (`ReaderWants`): up to the event types; then, in netevent 2,
  those up to the last bits and the state, but no axes before it has read the bits of ABS; then
  all. `InStep` is not inductive because it says nothing about what the reader will
  want three fields later; that is what `NE2PairWants`, `NE2AxisWants` and
  `NE1RestWants` are for: what the reader derives from the event types, and from the bits of
  ABS, is the rest of the plan. They rest on where each field is placed (`NE2IsPlaced`,
  `NE1IsPlaced`), and `SizesAgree` on arithmetic (`LongsHoldAll`: the longs counted hold
  every code and their bits can be counted in 16; `BytesByMax`: the bytes of netevent 1
  are the same from both formulas). `MadeMovesOn` needs that the bits of a type come once
  (`NE2BitsOnce`, since the loop over the event types has each once) and that the bits of ABS
  come before the axes; `AllSeen`, that nothing of the description is left when a device is
  created.

About `Parse`, for texts of any length and without an assumption on its constants:

* `HotkeysRun` (`Spec => []HotkeyRunsCommands`), both parts. The cursor is in one of six
  modes (`State`, `StateNext`). The second parse, of the words joined again, runs along with the
  first, of the text with its escapes, one character of the text at a time (`Sim`).
  In a word, the second has read what the text itself leaves its reader with (`SimWord`);
  between words the same holds when a blank is added to what was joined (`SimBetween`).
  `BlanksKept` is needed where a blank follows a blank: the first parse drops it, so the
  second must not be in a string there (`PairsKeptNext`); a blank between joined words
  stands for all that were typed (`Blanks`), and none is lost that
  ended a word (`JoinStarts`). In quotes all of the text is one word (`QuotedAlways`), its
  backslashes two by two one each.
* `SourcesRun` (`Spec => []SourceRunsLines`). After each character (`Follows`) the commands
  of the complete lines are those of the file as one line, and what is begun of a line is read
  as it is alone (`WithNext`: earlier commands change nothing), unless it is a comment,
  of which nothing is read. At the end of a line, `EndClosed` says that what is written for the
  newline completes the word, string or escape and the command, as the end of the text
  does for a line by itself. That the hash begins its line, blanks aside, is said of
  positions in the file by the property and of the line begun by the code; `InCommentIs` brings
  them together.

The definitions that recur over the length of a text exist by `ReadsDef`, `JoinsDef`,
`SourcesDef`, `OneLineDef` and `FlattenDef`; induction over texts is `SeqInduction`, with the
property as a set.

`Filters_proofs` shows that an induction over lengths is possible where the
property can be written as a set: `SetInduction` follows from the least element
of what is not in the set, and `PrimitiveRecursion`, that the recursive function in
`Filter` exists, is proved with it. Its last part says which elements `Filter` keeps, and
that it keeps each once.

Only model-checked:

* `CallbackMapComplete` of `Daemon` when an action uses an output in a sweep (`scarce`);
* `NumbersAsStrtol` and `EventsAsSpelled` of `Parse`: the value of a numeral is compared
  with a sum of powers over a set of positions, whose fold recurs over sets, and a
  spelling with the printing of a number, which recurs over its digits;
* all liveness, since the prover handles neither fairness nor ENABLED.

## Not modelled, and the plan

Planned theorems: the conditions of `BrokenAreDropped` and `GrabsEndWithOutput` from
assumptions on texts and hardware, as `QuietSweeps` does it;
`CallbackMapComplete` for actions that use an output but open no descriptor.

Planned for `Daemon`: hardware that disappears inside an addition or an announcement
(`announceDevice` fails in an `ioctl` between two writes, and every healthy output is left with
half a description); now a device is gone before an addition begins, or after it.

Planned module: `Feed`, what a reader of an output is promised (it knows the devices
it gets events of), as an abstract specification that `Daemon` and `Create` implement at
the two ends of a FIFO, with ids that may be reused.

Not modelled, with the reason: options and usage texts of the commands (no state);
packets and versions that no netevent sends; uinput after a device is created, and a
uinput that fails (one system call each, whose failure ends the process); byte order and
time stamps (a conversion done field by field in one place); numbers beyond 32 bits;
`errno` in the SIGCHLD handler; `IOHandle` and `FILEHandle`, which close what they own; build
files, packaging and examples, which have no behaviour.
