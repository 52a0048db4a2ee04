--------------------------- MODULE Daemon_proofs ---------------------------
(***************************************************************************)
(* Theorems about Daemon for every value of its constants: its types, the  *)
(* work that its steps leave, and who owns what. Every descriptor has one  *)
(* owner, ids stay dense until a device is removed, no hotkey outlives the *)
(* id it is keyed by, the readers of the outputs stay in step with the     *)
(* devices, and no reply reaches a client that did not ask.                *)
(***************************************************************************)
EXTENDS Daemon, FiniteSetTheorems, SequenceTheorems, TLAPS

-----------------------------------------------------------------------------
(* Tables.                                                                 *)

(* Entering x |-> v keeps a table a table.                                 *)
LEMMA PutType ==
    ASSUME NEW D, NEW S, NEW f, Table(f, D, S), NEW x \in D, NEW v \in S
    PROVE  Table(Put(f, x, v), D, S)
  BY DEF Put, Table

(* Dropping entries keeps a table a table.                                 *)
LEMMA WithoutType ==
    ASSUME NEW D, NEW S, NEW f, Table(f, D, S), NEW T
    PROVE  Table(Without(f, T), D, S)
  BY DEF Without, Restrict, Table

(* The keys of a changed table.                                            *)
LEMMA PutDomain ==
    ASSUME NEW f, NEW x, NEW v
    PROVE  DOMAIN Put(f, x, v) = DOMAIN f \cup {x}
  BY DEF Put

(* What is left after dropping entries.                                    *)
LEMMA WithoutDomain ==
    ASSUME NEW f, NEW T
    PROVE  DOMAIN Without(f, T) = DOMAIN f \ T
  BY DEF Without, Restrict

(* The empty table.                                                        *)
LEMMA NoEntriesType ==
    ASSUME NEW D, NEW S
    PROVE  Table(NoEntries, D, S) /\ DOMAIN NoEntries = {}
  BY DEF NoEntries, Table

(* An entry of a table.                                                    *)
LEMMA EntryType ==
    ASSUME NEW D, NEW S, NEW f, Table(f, D, S), NEW x \in DOMAIN f
    PROVE  x \in D /\ f[x] \in S
  BY DEF Table

-----------------------------------------------------------------------------
(* The stack.                                                              *)

(* The items a step pushes are work items.                                 *)
LEMMA RunType ==
    ASSUME NEW client \in Clients, NEW e \in Events \cup {"none"},
           NEW commands \in Seq(Command)
    PROVE  Run(client, e, commands) \in Seq(WorkItem)
  <1>1. None \in Clients BY DEF Clients
  <1>2. Work("run", client, None, e, commands) \in WorkItem
    BY <1>1 DEF Work, WorkItem, Works
  <1>3. QED BY <1>2 DEF Run

(* A reply is a stack of work items.                                       *)
LEMMA ReplyType ==
    ASSUME NEW client \in Clients
    PROVE  ReplyTo(client) \in Seq(WorkItem)
  <1>1. None \in Clients BY DEF Clients
  <1>2. Work("reply", client, None, "none", <<>>) \in WorkItem
    BY <1>1 DEF Work, WorkItem, Works
  <1>3. QED BY <1>2 DEF ReplyTo

(* So is a task of the daemon itself.                                      *)
LEMMA TaskType ==
    ASSUME NEW do \in Works, NEW fd \in Clients
    PROVE  Task(do, fd) \in Seq(WorkItem)
  <1>1. None \in Clients BY DEF Clients
  <1>2. Work(do, None, fd, "none", <<>>) \in WorkItem BY <1>1 DEF Work, WorkItem
  <1>3. QED BY <1>2 DEF Task

(* So is the action of an event (fireEvent).                               *)
LEMMA FireType ==
    ASSUME TextType, NEW client \in Clients, NEW e \in Events
    PROVE  fireEvent(client, e) \in Seq(WorkItem)
  <1>1. CASE e \in DOMAIN gEventCommands
    <2>1. gEventCommands[e] \in Texts BY <1>1 DEF TextType, Table
    <2>2. Text[gEventCommands[e]] \in Seq(Command) BY <2>1, TextAssumption
    <2>3. QED BY <1>1, <2>2, RunType DEF fireEvent
  <1>2. CASE e \notin DOMAIN gEventCommands
    BY <1>2 DEF fireEvent
  <1>3. QED BY <1>1, <1>2

(* The top of a stack of work items is one.                                *)
LEMMA TopType ==
    ASSUME StackType, stack # <<>>
    PROVE  Top \in WorkItem /\ Tail(stack) \in Seq(WorkItem)
  BY HeadTailProperties DEF StackType, Top

(* What is left of the stack after a command is well typed.                *)
LEMMA AfterType ==
    ASSUME StackType, NEW cmd, Executing(cmd)
    PROVE  /\ Top \in WorkItem
           /\ AfterCommand \in Seq(WorkItem)
  <1>1. Top \in WorkItem /\ Tail(stack) \in Seq(WorkItem)
    BY TopType DEF Executing, Pending
  <1>2. /\ Top.client \in Clients /\ Top.from \in Events \cup {"none"}
        /\ Top.rest \in Seq(Command) /\ Top.rest # <<>>
    BY <1>1 DEF WorkItem, Executing
  <1>3. Tail(Top.rest) \in Seq(Command) BY <1>2, HeadTailProperties
  <1>4. Run(Top.client, Top.from, Tail(Top.rest)) \in Seq(WorkItem)
    BY <1>2, <1>3, RunType
  <1>5. QED BY <1>1, <1>4, ConcatProperties DEF AfterCommand

(* What a step leaves alone keeps its type.                                *)
LEMMA Kept ==
    /\ LoopType /\ UNCHANGED loopVars => LoopType'
    /\ StackType /\ UNCHANGED stack => StackType'
    /\ QueueType /\ UNCHANGED <<queueVars, todo>> => QueueType'
    /\ FdType /\ UNCHANGED fdVars => FdType'
    /\ DeviceType /\ UNCHANGED deviceVars => DeviceType'
    /\ OutputType /\ UNCHANGED outputVars => OutputType'
    /\ TextType /\ UNCHANGED textVars => TextType'
    /\ ReaderType /\ UNCHANGED readerVars => ReaderType'
  BY DEF LoopType, loopVars, StackType, QueueType, queueVars, FdType, fdVars,
         DeviceType, deviceVars, OutputType, outputVars, TextType, textVars,
         ReaderType, readerVars

(* The three ways a step ends.                                             *)
LEMMA FinishTypes ==
    ASSUME LoopType, StackType, NEW cmd, Executing(cmd),
           NEW nested \in Seq(WorkItem), Finish(nested)
    PROVE  LoopType' /\ StackType'
  <1>1. Top \in WorkItem /\ AfterCommand \in Seq(WorkItem) BY AfterType
  <1>2. ReplyTo(Top.client) \in Seq(WorkItem) BY <1>1, ReplyType DEF WorkItem
  <1>3. ReplyTo(Top.client) \o AfterCommand \in Seq(WorkItem)
    BY <1>1, <1>2, ConcatProperties
  <1>4. nested \o ReplyTo(Top.client) \o AfterCommand \in Seq(WorkItem)
    BY <1>1, <1>2, ConcatProperties
  <1>5. QED BY <1>4, Kept DEF Finish, StackType

(* Dying keeps the loop and the stack well typed.                          *)
LEMMA DieTypes ==
    ASSUME LoopType, NEW why \in Failures, Die(why)
    PROVE  LoopType' /\ StackType'
  <1>1. <<>> \in Seq(WorkItem) OBVIOUS
  <1>2. QED BY <1>1 DEF Die, LoopType, StackType, Phases

(* So does throwing, whatever catches it.                                  *)
LEMMA ThrowTypes ==
    ASSUME LoopType, Top \in WorkItem, Throw
    PROVE  LoopType' /\ StackType'
  <1>1. CASE pc = "commands"
    <2>1. ReplyTo(Top.client) \in Seq(WorkItem) BY ReplyType DEF WorkItem
    <2>2. QED BY <1>1, <2>1, Kept DEF Throw, StackType
  <1>2. CASE pc # "commands"
    <2>1. "uncaught exception" \in Failures BY DEF Failures
    <2>2. Die("uncaught exception") BY <1>2 DEF Throw
    <2>3. QED BY <2>1, <2>2, DieTypes
  <1>3. QED BY <1>1, <1>2

(* removeFD keeps the removal queue a set of descriptors.                  *)
LEMMA RemoveFDTypes ==
    ASSUME QueueType, NEW S, S \subseteq Clients, removeFD(S), todo' \subseteq Clients
    PROVE  QueueType'
  BY DEF removeFD, QueueType

(* <<>> can be pushed.                                                     *)
LEMMA NothingType == <<>> \in Seq(WorkItem)
  OBVIOUS

-----------------------------------------------------------------------------
(* Commands on devices.                                                    *)

(* There are finitely many inputs: their number is a natural number.       *)
LEMMA FinitelyManyInputs ==
    ASSUME DeviceType
    PROVE  Cardinality(DOMAIN gInputs) \in Nat
  BY DaemonAssumption, FS_Subset, FS_CardinalityType DEF DeviceType, Table

(* The id getNextInputID hands out is in range unless there are too many inputs. *)
LEMMA NextIdType ==
    ASSUME DeviceType, ~TooManyInputs
    PROVE  getNextInputID \in Ids /\ FreeListAfter \in Seq(Ids)
  <1>1. CASE gInputIDFreeList = <<>>
    <2>1. FreeListAfter \in Seq(Ids) BY <1>1 DEF FreeListAfter
    <2>2. getNextInputID = Cardinality(DOMAIN gInputs) BY <1>1 DEF getNextInputID
    <2>3. QED BY <2>1, <2>2, FinitelyManyInputs, DaemonAssumption DEF TooManyInputs, Ids
  <1>2. CASE gInputIDFreeList # <<>>
    <2>1. gInputIDFreeList \in Seq(Ids) BY DEF DeviceType
    <2>2. Len(gInputIDFreeList) \in 1..Len(gInputIDFreeList)
      BY <1>2, <2>1, EmptySeq, LenProperties
    <2>3. gInputIDFreeList[Len(gInputIDFreeList)] \in Ids
      BY <2>1, <2>2, ElementOfSeq
    <2>4. SubSeq(gInputIDFreeList, 1, Len(gInputIDFreeList) - 1) \in Seq(Ids)
      BY <2>1, <2>2, SubSeqProperties
    <2>5. QED BY <1>2, <2>3, <2>4 DEF getNextInputID, FreeListAfter
  <1>3. QED BY <1>1, <1>2

(* The complaints recorded are of the two kinds.                           *)
LEMMA ComplainsType ==
    ASSUME protocolErrors \subseteq {"duplicate device", "missing device"},
           NEW what \in {"duplicate device", "missing device"},
           NEW cond, Complains(what, cond)
    PROVE  protocolErrors' \subseteq {"duplicate device", "missing device"}
  <1>1. CASE cond BY <1>1 DEF Complains
  <1>2. CASE ~cond BY <1>2 DEF Complains
  <1>3. QED BY <1>1, <1>2

(* The outputs that may break are open files.                              *)
LEMMA BreakableOpen == OutputType => BreakableFds \subseteq Fds
  BY DEF BreakableFds, OutputType, Table

(* What the announcements record of the readers.                           *)
LEMMA AnnouncedTypes ==
    ASSUME ReaderType, OutputType, NEW id \in Ids, NEW failed \in SUBSET BreakableFds,
           announceDevice(id, failed) \/ announceDeviceRemoval(id, failed)
    PROVE  ReaderType'
  <1>1. failed \subseteq Fds BY BreakableOpen
  <1>2. Table(told', Fds, SUBSET Ids)
    BY DEF announceDevice, announceDeviceRemoval, ReaderType, Table
  <1>3. torn' \subseteq Fds
    BY <1>1 DEF announceDevice, announceDeviceRemoval, ReaderType
  <1>4. protocolErrors' \subseteq {"duplicate device", "missing device"}
    BY ComplainsType DEF announceDevice, announceDeviceRemoval, ReaderType
  <1>5. QED BY <1>2, <1>3, <1>4 DEF ReaderType

(* Announcing a device keeps what the readers know a table of ids.         *)
LEMMA AnnounceTypes ==
    ASSUME ReaderType, QueueType, OutputType, NEW id \in Ids,
           NEW failed \in SUBSET BreakableFds, todo' \subseteq Clients,
           announceDevice(id, failed) \/ announceDeviceRemoval(id, failed)
    PROVE  ReaderType' /\ QueueType'
  <1>1. failed \subseteq Fds BY BreakableOpen
  <1>2. failed \subseteq Clients /\ removeFD(failed)
    BY <1>1 DEF announceDevice, announceDeviceRemoval, Clients
  <1>3. QueueType' BY <1>2, RemoveFDTypes
  <1>4. QED BY <1>3, AnnouncedTypes

(* addDevice keeps every type.                                             *)
LEMMA addDeviceTypes ==
    ASSUME TypeOK, NEW d \in Devices, addDevice(d)
    PROVE  TypeOK'
  <1>1. PICK fd \in Fds, failed \in SUBSET BreakableFds :
          /\ announceDevice(getNextInputID, failed)
          /\ gInputIDFreeList' = FreeListAfter
          /\ gInputs' = Put(gInputs, d, NewInput(getNextInputID, fd))
          /\ files' = Put(files, fd, "device")
          /\ gFDCBs' = Put(gFDCBs, fd, CallbacksOf("device", d, getNextInputID))
          /\ gFDAddQueue' = gFDAddQueue \cup {fd}
    BY DEF addDevice
  <1>2. /\ Executing(DeviceAdd(d)) /\ ~TooManyInputs /\ Finish(<<>>)
        /\ UNCHANGED <<todo, gCommandClients, gone, lostFired, outputVars, textVars>>
    BY DEF addDevice
  <1>3. getNextInputID \in Ids /\ FreeListAfter \in Seq(Ids)
    BY <1>2, NextIdType DEF TypeOK
  <1>4. LoopType' /\ StackType'
    BY <1>2, FinishTypes, NothingType DEF TypeOK
  <1>5. ReaderType' /\ QueueType'
    <2>1. todo' \subseteq Clients BY <1>2 DEF TypeOK, QueueType
    <2>2. QED BY <1>1, <1>3, <2>1, AnnounceTypes DEF TypeOK
  <1>6. DeviceType'
    <2>1. NewInput(getNextInputID, fd) \in Input BY <1>3 DEF NewInput, Input
    <2>2. Table(gInputs, Devices, Input) BY DEF TypeOK, DeviceType
    <2>3. Table(gInputs', Devices, Input) BY <1>1, <2>1, <2>2, PutType
    <2>4. DOMAIN gInputs' = DOMAIN gInputs \cup {d} BY <1>1, PutDomain
    <2>5. QED BY <1>1, <1>2, <1>3, <2>3, <2>4 DEF TypeOK, DeviceType
  <1>7. FdType'
    <2>1. "device" \in Kinds BY DEF Kinds
    <2>2. CallbacksOf("device", d, getNextInputID) \in Callbacks
      BY <1>3, <2>1 DEF Callbacks, CallbacksOf
    <2>3. Table(files, Fds, Kinds) /\ Table(gFDCBs, Fds, Callbacks)
      BY DEF TypeOK, FdType
    <2>4. Table(files', Fds, Kinds) BY <1>1, <2>1, <2>3, PutType
    <2>5. Table(gFDCBs', Fds, Callbacks) BY <1>1, <2>2, <2>3, PutType
    <2>6. QED BY <1>1, <1>2, <2>4, <2>5 DEF TypeOK, FdType
  <1>8. OutputType' /\ TextType' BY <1>2, Kept DEF TypeOK
  <1>9. QED BY <1>4, <1>5, <1>6, <1>7, <1>8 DEF TypeOK

(* addDeviceFails keeps every type.                                        *)
LEMMA addDeviceFailsTypes ==
    ASSUME TypeOK, NEW d \in Devices, addDeviceFails(d)
    PROVE  TypeOK'
  <1>1. /\ Executing(DeviceAdd(d)) /\ ~TooManyInputs /\ Throw
        /\ gInputIDFreeList' = freeInputID(getNextInputID)
        /\ UNCHANGED <<queueVars, todo, fdVars, gInputs, gone, lostFired, outputVars,
                       textVars, readerVars>>
    BY DEF addDeviceFails
  <1>2. getNextInputID \in Ids /\ FreeListAfter \in Seq(Ids)
    BY <1>1, NextIdType DEF TypeOK
  <1>3. gInputIDFreeList' \in Seq(Ids) BY <1>1, <1>2, AppendProperties DEF freeInputID
  <1>4. DeviceType' BY <1>1, <1>3 DEF TypeOK, DeviceType
  <1>5. LoopType' /\ StackType' BY <1>1, AfterType, ThrowTypes DEF TypeOK
  <1>6. QED BY <1>1, <1>4, <1>5, Kept DEF TypeOK

(* A command that only succeeds, or only throws.                           *)
LEMMA SimpleTypes ==
    ASSUME LoopType, StackType, NEW cmd, Executing(cmd), Finish(<<>>) \/ Throw
    PROVE  LoopType' /\ StackType'
  <1>1. CASE Finish(<<>>) BY <1>1, FinishTypes, NothingType
  <1>2. CASE Throw BY <1>2, AfterType, ThrowTypes
  <1>3. QED BY <1>1, <1>2

(* addDeviceRefused keeps every type.                                      *)
LEMMA addDeviceRefusedTypes ==
    ASSUME TypeOK, NEW d \in Devices, addDeviceRefused(d)
    PROVE  TypeOK'
  <1>1. /\ Executing(DeviceAdd(d)) /\ Throw
        /\ UNCHANGED <<queueVars, todo, fdVars, deviceVars, outputVars, textVars,
                       readerVars>>
    BY DEF addDeviceRefused
  <1>2. QED BY <1>1, SimpleTypes, Kept DEF TypeOK

(* The descriptor and the id of an input.                                  *)
LEMMA InputTypes ==
    ASSUME DeviceType, NEW d \in DOMAIN gInputs
    PROVE  /\ gInputs[d] \in Input /\ gInputs[d].id \in Ids
           /\ gInputs[d].fd \in Fds
  BY DEF DeviceType, Table, Input

(* removeDevice keeps every type.                                          *)
LEMMA removeDeviceTypes ==
    ASSUME TypeOK, NEW d \in Devices, removeDevice(d)
    PROVE  TypeOK'
  <1>1. /\ Executing(DeviceRemove(d)) /\ (Finish(<<>>) \/ Throw)
        /\ UNCHANGED <<todo, fdVars, deviceVars, outputVars, textVars, readerVars>>
    BY DEF removeDevice
  <1>2. QueueType'
    <2>1. CASE d \in DOMAIN gInputs
      <3>1. {gInputs[d].fd} \subseteq Clients BY <2>1, InputTypes DEF TypeOK, Clients
      <3>2. removeFD({gInputs[d].fd}) BY <2>1 DEF removeDevice
      <3>3. todo' \subseteq Clients BY <1>1 DEF TypeOK, QueueType
      <3>4. QED BY <3>1, <3>2, <3>3, RemoveFDTypes DEF TypeOK
    <2>2. CASE d \notin DOMAIN gInputs
      BY <1>1, <2>2, Kept DEF TypeOK, removeDevice
    <2>3. QED BY <2>1, <2>2
  <1>3. QED BY <1>1, <1>2, SimpleTypes, Kept DEF TypeOK

(* Changing the flags of devices keeps their types.                        *)
LEMMA FlagTypes ==
    ASSUME DeviceType, Table(gInputs', Devices, Input),
           DOMAIN gInputs' = DOMAIN gInputs,
           UNCHANGED <<gInputIDFreeList, gone, lostFired>>
    PROVE  DeviceType'
  BY DEF DeviceType

(* setPersistent keeps every type.                                         *)
LEMMA setPersistentTypes ==
    ASSUME TypeOK, NEW d \in Devices, NEW b \in BOOLEAN, setPersistent(d, b)
    PROVE  TypeOK'
  <1>1. /\ Executing(SetPersistent(d, b)) /\ (Finish(<<>>) \/ Throw)
        /\ UNCHANGED <<queueVars, todo, fdVars, gInputIDFreeList, gone, lostFired,
                       outputVars, textVars, readerVars>>
    BY DEF setPersistent
  <1>2. Table(gInputs', Devices, Input) /\ DOMAIN gInputs' = DOMAIN gInputs
    <2>1. CASE d \in DOMAIN gInputs
      <3>1. gInputs' = [gInputs EXCEPT ![d].persistent = b]
        BY <2>1 DEF setPersistent
      <3>2. QED BY <2>1, <3>1 DEF TypeOK, DeviceType, Table, Input
    <2>2. CASE d \notin DOMAIN gInputs
      BY <2>2 DEF setPersistent, TypeOK, DeviceType
    <2>3. QED BY <2>1, <2>2
  <1>3. DeviceType' BY <1>1, <1>2, FlagTypes DEF TypeOK
  <1>4. QED BY <1>1, <1>3, SimpleTypes, Kept DEF TypeOK

(* renameDevice keeps every type.                                          *)
LEMMA renameDeviceTypes ==
    ASSUME TypeOK, NEW d \in Devices, renameDevice(d)
    PROVE  TypeOK'
  <1>1. /\ Executing(DeviceRename(d)) /\ (Finish(<<>>) \/ Throw)
        /\ UNCHANGED <<queueVars, todo, fdVars, deviceVars, outputVars, textVars,
                       readerVars>>
    BY DEF renameDevice
  <1>2. QED BY <1>1, SimpleTypes, Kept DEF TypeOK

-----------------------------------------------------------------------------
(* Commands on outputs.                                                    *)

(* addOutput keeps every type.                                             *)
LEMMA addOutputTypes ==
    ASSUME TypeOK, NEW o \in Outputs, NEW resume \in BOOLEAN, addOutput(o, resume)
    PROVE  TypeOK'
  <1>1. PICK fd \in Fds, fails \in BOOLEAN :
         /\ IF fails THEN removeFD({fd}) /\ torn' = torn \cup {fd}
                     ELSE UNCHANGED <<queueVars, torn>>
         /\ told' = Put(told, fd, IF fails THEN {} ELSE InputIds)
         /\ Complains("duplicate device", ~fails /\ ~resume /\ ~UniqueIds)
         /\ gOutputs' = Put(gOutputs, o, fd)
         /\ files' = Put(files, fd, "output")
         /\ gFDCBs' = Put(gFDCBs, fd, CallbacksOf("output", NoName, None))
    BY DEF addOutput
  <1>2. /\ Executing(IF resume THEN OutputResume(o) ELSE OutputAdd(o))
        /\ Finish(<<>>)
        /\ UNCHANGED <<todo, gFDAddQueue, gCommandClients, deviceVars, gCurrentOutput,
                       gWrite, gGrab, envOutputName, textVars>>
    BY DEF addOutput
  <1>3. LoopType' /\ StackType' BY <1>2, SimpleTypes DEF TypeOK
  <1>4. QueueType'
    <2>1. todo' \subseteq Clients BY <1>2 DEF TypeOK, QueueType
    <2>2. CASE fails
      <3>1. {fd} \subseteq Clients BY DEF Clients
      <3>2. QED BY <1>1, <2>1, <2>2, <3>1, RemoveFDTypes DEF TypeOK
    <2>3. CASE ~fails BY <1>1, <1>2, <2>3, Kept DEF TypeOK
    <2>4. QED BY <2>2, <2>3
  <1>5. ReaderType'
    <2>1. Table(told, Fds, SUBSET Ids) BY DEF TypeOK, ReaderType
    <2>2. InputIds \subseteq Ids BY InputTypes DEF TypeOK, InputIds
    <2>3. (IF fails THEN {} ELSE InputIds) \in SUBSET Ids BY <2>2
    <2>4. Table(told', Fds, SUBSET Ids) BY <1>1, <2>1, <2>3, PutType
    <2>5. torn' \subseteq Fds BY <1>1 DEF TypeOK, ReaderType
    <2>6. protocolErrors' \subseteq {"duplicate device", "missing device"}
      BY <1>1, ComplainsType DEF TypeOK, ReaderType
    <2>7. QED BY <2>4, <2>5, <2>6 DEF ReaderType
  <1>6. OutputType'
    <2>1. Table(gOutputs, Outputs, Fds) BY DEF TypeOK, OutputType
    <2>2. Table(gOutputs', Outputs, Fds) BY <1>1, <2>1, PutType
    <2>3. QED BY <1>2, <2>2 DEF TypeOK, OutputType
  <1>7. FdType'
    <2>1. "output" \in Kinds BY DEF Kinds
    <2>2. CallbacksOf("output", NoName, None) \in Callbacks
      BY <2>1 DEF Callbacks, CallbacksOf
    <2>3. Table(files, Fds, Kinds) /\ Table(gFDCBs, Fds, Callbacks)
      BY DEF TypeOK, FdType
    <2>4. Table(files', Fds, Kinds) BY <1>1, <2>1, <2>3, PutType
    <2>5. Table(gFDCBs', Fds, Callbacks) BY <1>1, <2>2, <2>3, PutType
    <2>6. QED BY <1>2, <2>4, <2>5 DEF TypeOK, FdType
  <1>8. DeviceType' /\ TextType' BY <1>2, Kept DEF TypeOK
  <1>9. QED BY <1>3, <1>4, <1>5, <1>6, <1>7, <1>8 DEF TypeOK

(* addOutputFails keeps every type.                                        *)
LEMMA addOutputFailsTypes ==
    ASSUME TypeOK, NEW o \in Outputs, NEW resume \in BOOLEAN,
           addOutputFails(o, resume)
    PROVE  TypeOK'
  <1>1. /\ Executing(IF resume THEN OutputResume(o) ELSE OutputAdd(o)) /\ Throw
        /\ UNCHANGED <<queueVars, todo, fdVars, deviceVars, outputVars, textVars,
                       readerVars>>
    BY DEF addOutputFails
  <1>2. QED BY <1>1, SimpleTypes, Kept DEF TypeOK

(* removeOutput keeps every type.                                          *)
LEMMA removeOutputTypes ==
    ASSUME TypeOK, NEW o \in Outputs, removeOutput(o)
    PROVE  TypeOK'
  <1>1. /\ Executing(OutputRemove(o)) /\ (Finish(<<>>) \/ Throw)
        /\ UNCHANGED <<todo, fdVars, deviceVars, outputVars, textVars, readerVars>>
    BY DEF removeOutput
  <1>2. QueueType'
    <2>1. CASE o \in DOMAIN gOutputs
      <3>1. {gOutputs[o]} \subseteq Clients
        BY <2>1 DEF TypeOK, OutputType, Table, Clients
      <3>2. removeFD({gOutputs[o]}) BY <2>1 DEF removeOutput
      <3>3. todo' \subseteq Clients BY <1>1 DEF TypeOK, QueueType
      <3>4. QED BY <3>1, <3>2, <3>3, RemoveFDTypes DEF TypeOK
    <2>2. CASE o \notin DOMAIN gOutputs
      BY <1>1, <2>2, Kept DEF TypeOK, removeOutput
    <2>3. QED BY <2>1, <2>2
  <1>3. QED BY <1>1, <1>2, SimpleTypes, Kept DEF TypeOK

(* useOutput keeps every type.                                             *)
LEMMA useOutputTypes ==
    ASSUME TypeOK, NEW o \in Outputs, useOutput(o)
    PROVE  TypeOK'
  <1>1. /\ Executing(Use(o))
        /\ UNCHANGED <<queueVars, todo, fdVars, deviceVars, gOutputs, gWrite, gGrab,
                       textVars, readerVars>>
    BY DEF useOutput
  <1>2. LoopType' /\ StackType' /\ OutputType'
    <2>1. CASE o \in DOMAIN gOutputs
      <3>1. /\ gCurrentOutput' = [fd |-> gOutputs[o], name |-> o]
            /\ envOutputName' = o
            /\ Finish(fireEvent(Top.client, "output-changed"))
        BY <2>1 DEF useOutput
      <3>2. Top.client \in Clients BY <1>1, AfterType DEF TypeOK, WorkItem
      <3>3. "output-changed" \in Events BY DEF Events
      <3>4. fireEvent(Top.client, "output-changed") \in Seq(WorkItem)
        BY <3>2, <3>3, FireType DEF TypeOK
      <3>5. LoopType' /\ StackType' BY <1>1, <3>1, <3>4, FinishTypes DEF TypeOK
      <3>6. gOutputs[o] \in Clients BY <2>1 DEF TypeOK, OutputType, Table, Clients
      <3>7. OutputType' BY <1>1, <3>1, <3>6 DEF TypeOK, OutputType
      <3>8. QED BY <3>5, <3>7
    <2>2. CASE o \notin DOMAIN gOutputs
      <3>1. Throw /\ UNCHANGED <<gCurrentOutput, envOutputName>>
        BY <2>2 DEF useOutput
      <3>2. LoopType' /\ StackType' BY <1>1, <3>1, SimpleTypes DEF TypeOK
      <3>3. OutputType' BY <1>1, <3>1 DEF TypeOK, OutputType
      <3>4. QED BY <3>2, <3>3
    <2>3. QED BY <2>1, <2>2
  <1>3. QED BY <1>1, <1>2, Kept DEF TypeOK

(* The flags grab changes on some of the devices.                          *)
LEMMA GrabFlags ==
    ASSUME DeviceType, NEW on \in BOOLEAN, NEW done,
           \/ gInputs' = [d \in DOMAIN gInputs |-> [gInputs[d] EXCEPT !.grabbed = on]]
           \/ gInputs' = [d \in DOMAIN gInputs |->
                             IF d \in done THEN [gInputs[d] EXCEPT !.grabbed = on]
                             ELSE gInputs[d]],
           UNCHANGED <<gInputIDFreeList, gone, lostFired>>
    PROVE  DeviceType'
  <1>1. \A d \in DOMAIN gInputs :
          gInputs[d] \in Input /\ [gInputs[d] EXCEPT !.grabbed = on] \in Input
    BY DEF DeviceType, Table, Input
  <1>2. DOMAIN gInputs \subseteq Devices BY DEF DeviceType, Table
  <1>3. Table(gInputs', Devices, Input) /\ DOMAIN gInputs' = DOMAIN gInputs
    <2>1. CASE gInputs' = [d \in DOMAIN gInputs |-> [gInputs[d] EXCEPT !.grabbed = on]]
      BY <1>1, <1>2, <2>1 DEF Table
    <2>2. CASE gInputs' = [d \in DOMAIN gInputs |->
                             IF d \in done THEN [gInputs[d] EXCEPT !.grabbed = on]
                             ELSE gInputs[d]]
      BY <1>1, <1>2, <2>2 DEF Table
    <2>3. QED BY <2>1, <2>2
  <1>4. QED BY <1>3, FlagTypes

(* A state argument selects TRUE or FALSE.                                 *)
LEMMA SelectedType ==
    ASSUME NEW x \in States, NEW current \in BOOLEAN
    PROVE  Selected(x, current) \in BOOLEAN
  BY DEF Selected, States

(* writeEvents keeps every type.                                           *)
LEMMA writeEventsTypes ==
    ASSUME TypeOK, NEW x \in States, writeEvents(x)
    PROVE  TypeOK'
  <1>1. /\ Executing(WriteEvents(x)) /\ gWrite' = Selected(x, gWrite)
        /\ Finish(fireEvent(Top.client, "write-changed"))
        /\ UNCHANGED <<queueVars, todo, fdVars, deviceVars, gOutputs, gCurrentOutput,
                       gGrab, envOutputName, textVars, readerVars>>
    BY DEF writeEvents
  <1>2. Top.client \in Clients BY <1>1, AfterType DEF TypeOK, WorkItem
  <1>3. "write-changed" \in Events BY DEF Events
  <1>4. fireEvent(Top.client, "write-changed") \in Seq(WorkItem)
    BY <1>2, <1>3, FireType DEF TypeOK
  <1>5. LoopType' /\ StackType' BY <1>1, <1>4, FinishTypes DEF TypeOK
  <1>6. gWrite' \in BOOLEAN BY <1>1, SelectedType DEF TypeOK, OutputType
  <1>7. OutputType' BY <1>1, <1>6 DEF TypeOK, OutputType
  <1>8. QED BY <1>1, <1>5, <1>7, Kept DEF TypeOK

(* grabDevices keeps every type.                                           *)
LEMMA grabDevicesTypes ==
    ASSUME TypeOK, NEW x \in States, grabDevices(x)
    PROVE  TypeOK'
  <1>1. /\ Executing(GrabDevices(x)) /\ gGrab' = Selected(x, gGrab)
        /\ grab(Selected(x, gGrab), Finish(fireEvent(Top.client, "grab-changed")))
        /\ UNCHANGED <<queueVars, todo, fdVars, gInputIDFreeList, gone, lostFired,
                       gOutputs, gCurrentOutput, gWrite, envOutputName, textVars,
                       readerVars>>
    BY DEF grabDevices
  <1>2. Selected(x, gGrab) \in BOOLEAN BY SelectedType DEF TypeOK, OutputType
  <1>3. PICK done :
          /\ \/ gInputs' = [d \in DOMAIN gInputs |->
                              [gInputs[d] EXCEPT !.grabbed = Selected(x, gGrab)]]
             \/ gInputs' = [d \in DOMAIN gInputs |->
                   IF d \in done THEN [gInputs[d] EXCEPT !.grabbed = Selected(x, gGrab)]
                   ELSE gInputs[d]]
          /\ Finish(fireEvent(Top.client, "grab-changed")) \/ Throw
    BY <1>1 DEF grab
  <1>4. DeviceType' BY <1>1, <1>2, <1>3, GrabFlags DEF TypeOK
  <1>5. OutputType' BY <1>1, <1>2 DEF TypeOK, OutputType
  <1>6. LoopType' /\ StackType'
    <2>1. Top.client \in Clients BY <1>1, AfterType DEF TypeOK, WorkItem
    <2>2. "grab-changed" \in Events BY DEF Events
    <2>3. fireEvent(Top.client, "grab-changed") \in Seq(WorkItem)
      BY <2>1, <2>2, FireType DEF TypeOK
    <2>4. CASE Finish(fireEvent(Top.client, "grab-changed"))
      BY <1>1, <2>3, <2>4, FinishTypes DEF TypeOK
    <2>5. CASE Throw BY <1>1, <2>5, SimpleTypes DEF TypeOK
    <2>6. QED BY <1>3, <2>4, <2>5
  <1>7. QED BY <1>1, <1>4, <1>5, <1>6, Kept DEF TypeOK

(* grabBoth keeps every type.                                              *)
LEMMA grabBothTypes ==
    ASSUME TypeOK, NEW x \in States, grabBoth(x)
    PROVE  TypeOK'
  <1> DEFINE nested == fireEvent(Top.client, "grab-changed")
                         \o Run(Top.client, "none", <<WriteEvents(x)>>)
  <1>1. /\ Executing(Grab(x)) /\ gGrab' = Selected(x, gGrab)
        /\ grab(Selected(x, gGrab), Finish(nested))
        /\ UNCHANGED <<queueVars, todo, fdVars, gInputIDFreeList, gone, lostFired,
                       gOutputs, gCurrentOutput, gWrite, envOutputName, textVars,
                       readerVars>>
    BY DEF grabBoth
  <1>2. Selected(x, gGrab) \in BOOLEAN BY SelectedType DEF TypeOK, OutputType
  <1>3. PICK done :
          /\ \/ gInputs' = [d \in DOMAIN gInputs |->
                              [gInputs[d] EXCEPT !.grabbed = Selected(x, gGrab)]]
             \/ gInputs' = [d \in DOMAIN gInputs |->
                   IF d \in done THEN [gInputs[d] EXCEPT !.grabbed = Selected(x, gGrab)]
                   ELSE gInputs[d]]
          /\ Finish(nested) \/ Throw
    BY <1>1 DEF grab
  <1>4. DeviceType' BY <1>1, <1>2, <1>3, GrabFlags DEF TypeOK
  <1>5. OutputType' BY <1>1, <1>2 DEF TypeOK, OutputType
  <1>6. LoopType' /\ StackType'
    <2>1. Top.client \in Clients BY <1>1, AfterType DEF TypeOK, WorkItem
    <2>2. "grab-changed" \in Events BY DEF Events
    <2>3. fireEvent(Top.client, "grab-changed") \in Seq(WorkItem)
      BY <2>1, <2>2, FireType DEF TypeOK
    <2>4. WriteEvents(x) \in Command BY DEF WriteEvents, Command
    <2>5. <<WriteEvents(x)>> \in Seq(Command) BY <2>4
    <2>6. Run(Top.client, "none", <<WriteEvents(x)>>) \in Seq(WorkItem)
      BY <2>1, <2>5, RunType
    <2>7. nested \in Seq(WorkItem) BY <2>3, <2>6, ConcatProperties
    <2> HIDE DEF nested
    <2>8. CASE Finish(nested) BY <1>1, <2>7, <2>8, FinishTypes DEF TypeOK
    <2>9. CASE Throw BY <1>1, <2>9, SimpleTypes DEF TypeOK
    <2>10. QED BY <1>3, <2>8, <2>9
  <1>7. QED BY <1>1, <1>4, <1>5, <1>6, Kept DEF TypeOK

(* FinishLostOutput keeps every type.                                      *)
LEMMA FinishLostOutputTypes ==
    ASSUME TypeOK, FinishLostOutput
    PROVE  TypeOK'
  <1> DEFINE next == fireEvent(None, "grab-changed") \o Tail(stack)
  <1>1. /\ Pending("lost grab") /\ gGrab' = FALSE
        /\ IF HeldOnLoss THEN grab(FALSE, stack' = next /\ UNCHANGED loopVars)
           ELSE stack' = Tail(stack) /\ UNCHANGED <<loopVars, gInputs>>
        /\ UNCHANGED <<queueVars, todo, fdVars, gInputIDFreeList, gone, lostFired,
                   gOutputs, gCurrentOutput, gWrite, envOutputName, textVars,
                   readerVars>>
    BY DEF FinishLostOutput
  <1>2. Top \in WorkItem /\ Tail(stack) \in Seq(WorkItem)
    BY <1>1, TopType DEF Pending, TypeOK
  <1>3. next \in Seq(WorkItem)
    <2>1. None \in Clients /\ "grab-changed" \in Events BY DEF Clients, Events
    <2>2. fireEvent(None, "grab-changed") \in Seq(WorkItem)
      BY <2>1, FireType DEF TypeOK
    <2>3. QED BY <1>2, <2>2, ConcatProperties
  <1> HIDE DEF next
  <1>4. OutputType' BY <1>1 DEF TypeOK, OutputType
  <1>5. LoopType' /\ StackType' /\ DeviceType'
    <2>1. CASE HeldOnLoss
      <3>1. PICK done :
          /\ \/ gInputs' = [d \in DOMAIN gInputs |->
                              [gInputs[d] EXCEPT !.grabbed = FALSE]]
             \/ gInputs' = [d \in DOMAIN gInputs |->
                   IF d \in done THEN [gInputs[d] EXCEPT !.grabbed = FALSE]
                   ELSE gInputs[d]]
          /\ (stack' = next /\ UNCHANGED loopVars) \/ Throw
        BY <1>1, <2>1 DEF grab
      <3>2. DeviceType' BY <1>1, <3>1, GrabFlags DEF TypeOK
      <3>3. CASE stack' = next /\ UNCHANGED loopVars
        BY <1>3, <3>2, <3>3, Kept DEF TypeOK, StackType
      <3>4. CASE Throw BY <1>2, <3>2, <3>4, ThrowTypes DEF TypeOK
      <3>5. QED BY <3>1, <3>3, <3>4
    <2>2. CASE ~HeldOnLoss
      <3>1. stack' = Tail(stack) /\ UNCHANGED <<loopVars, deviceVars>>
        BY <1>1, <2>2 DEF deviceVars
      <3>2. QED BY <1>2, <3>1, Kept DEF TypeOK, StackType
    <2>3. QED BY <2>1, <2>2
  <1>6. QED BY <1>1, <1>4, <1>5, Kept DEF TypeOK

(* lostCurrentOutput, from an event that could not be written or from the  *)
(* removal of the output.                                                  *)
LEMMA LostOutputTypes ==
    ASSUME LoopType, OutputType, TextType, NEW after \in Seq(WorkItem),
           lostCurrentOutput(after)
    PROVE  LoopType' /\ StackType' /\ OutputType'
  <1>1. None \in Clients /\ "write-changed" \in Events /\ "lost grab" \in Works
    BY DEF Clients, Events, Works
  <1>2. fireEvent(None, "write-changed") \in Seq(WorkItem) BY <1>1, FireType
  <1>3. LostGrab \in Seq(WorkItem) BY <1>1, TaskType DEF LostGrab
  <1>4. (IF gWrite THEN fireEvent(None, "write-changed") ELSE <<>>) \in Seq(WorkItem)
    BY <1>2
  <1>5. (IF gWrite THEN fireEvent(None, "write-changed") ELSE <<>>)
          \o LostGrab \o after \in Seq(WorkItem)
    BY <1>3, <1>4, ConcatProperties
  <1>6. StackType' BY <1>5 DEF lostCurrentOutput, StackType
  <1>7. /\ gCurrentOutput' = [fd |-> None, name |-> NoName] /\ gWrite' = FALSE
        /\ UNCHANGED <<loopVars, gOutputs, gGrab, envOutputName>>
    BY DEF lostCurrentOutput, LostOutput
  <1>8. OutputType' BY <1>1, <1>7 DEF OutputType
  <1>9. QED BY <1>6, <1>7, <1>8, Kept

-----------------------------------------------------------------------------
(* Commands on hotkeys and actions, and the rest.                          *)

(* addHotkey keeps every type.                                             *)
LEMMA addHotkeyTypes ==
    ASSUME TypeOK, NEW d \in Devices, NEW k \in Keys, NEW t \in Texts,
           addHotkey(d, k, t)
    PROVE  TypeOK'
  <1>1. /\ Executing(HotkeyAdd(d, k, t)) /\ (Finish(<<>>) \/ Throw)
        /\ UNCHANGED <<queueVars, todo, fdVars, deviceVars, outputVars,
                       gEventCommands, readerVars>>
    BY DEF addHotkey
  <1>2. Table(gHotkeys, Ids \X Keys, Texts) BY DEF TypeOK, TextType
  <1>3. Table(gHotkeys', Ids \X Keys, Texts)
    <2>1. CASE d \in DOMAIN gInputs
      <3>1. gHotkeys' = Put(gHotkeys, <<gInputs[d].id, k>>, t)
        BY <2>1 DEF addHotkey
      <3>2. <<gInputs[d].id, k>> \in Ids \X Keys BY <2>1, InputTypes DEF TypeOK
      <3>3. QED BY <1>2, <3>1, <3>2, PutType
    <2>2. CASE d \notin DOMAIN gInputs BY <1>2, <2>2 DEF addHotkey
    <2>3. QED BY <2>1, <2>2
  <1>4. TextType' BY <1>1, <1>3 DEF TypeOK, TextType
  <1>5. QED BY <1>1, <1>4, SimpleTypes, Kept DEF TypeOK

(* removeHotkey keeps every type.                                          *)
LEMMA removeHotkeyTypes ==
    ASSUME TypeOK, NEW d \in Devices, NEW k \in Keys, removeHotkey(d, k)
    PROVE  TypeOK'
  <1>1. /\ Executing(HotkeyRemove(d, k)) /\ (Finish(<<>>) \/ Throw)
        /\ UNCHANGED <<queueVars, todo, fdVars, deviceVars, outputVars,
                       gEventCommands, readerVars>>
    BY DEF removeHotkey
  <1>2. Table(gHotkeys, Ids \X Keys, Texts) BY DEF TypeOK, TextType
  <1>3. Table(gHotkeys', Ids \X Keys, Texts)
    BY <1>2, WithoutType DEF removeHotkey
  <1>4. TextType' BY <1>1, <1>3 DEF TypeOK, TextType
  <1>5. QED BY <1>1, <1>4, SimpleTypes, Kept DEF TypeOK

(* A command that frees the text it came from leaves work items.           *)
LEMMA DamagingTypes ==
    ASSUME LoopType, StackType, NEW cmd, Executing(cmd), NEW e \in Events,
           FinishDamaging(e)
    PROVE  LoopType' /\ StackType'
  <1>1. Top \in WorkItem /\ AfterCommand \in Seq(WorkItem) BY AfterType
  <1>2. PICK rubbish \in BOOLEAN :
          /\ stack' = ReplyTo(Top.client) \o
               [i \in DOMAIN AfterCommand |->
                  IF rubbish /\ AfterCommand[i].from = e
                  THEN [AfterCommand[i] EXCEPT !.rest = <<Bad>>] ELSE AfterCommand[i]]
          /\ UNCHANGED loopVars
    BY DEF FinishDamaging
  <1> DEFINE damaged == [i \in DOMAIN AfterCommand |->
                  IF rubbish /\ AfterCommand[i].from = e
                  THEN [AfterCommand[i] EXCEPT !.rest = <<Bad>>] ELSE AfterCommand[i]]
  <1>3. Bad \in Command BY DEF Bad, Command
  <1>4. <<Bad>> \in Seq(Command) BY <1>3
  <1>5. \A w \in WorkItem : [w EXCEPT !.rest = <<Bad>>] \in WorkItem
    BY <1>4 DEF WorkItem
  <1>6. damaged \in Seq(WorkItem)
    <2>1. \A i \in 1..Len(AfterCommand) : AfterCommand[i] \in WorkItem
      BY <1>1, ElementOfSeq
    <2>2. DOMAIN AfterCommand = 1..Len(AfterCommand) /\ Len(AfterCommand) \in Nat
      BY <1>1, LenProperties
    <2>3. damaged \in [1..Len(AfterCommand) -> WorkItem] BY <1>5, <2>1, <2>2
    <2>4. QED BY <2>2, <2>3, IsASeq
  <1>7. ReplyTo(Top.client) \in Seq(WorkItem) BY <1>1, ReplyType DEF WorkItem
  <1>8. stack' \in Seq(WorkItem) BY <1>2, <1>6, <1>7, ConcatProperties
  <1>9. QED BY <1>2, <1>8, Kept DEF StackType

(* setAction keeps every type.                                             *)
LEMMA setActionTypes ==
    ASSUME TypeOK, NEW e \in Events, NEW t \in Texts, setAction(e, t)
    PROVE  TypeOK'
  <1>1. /\ Executing(ActionSet(e, t)) /\ FinishDamaging(e)
        /\ gEventCommands' = Put(gEventCommands, e, t)
        /\ UNCHANGED <<queueVars, todo, fdVars, deviceVars, outputVars, gHotkeys,
                       readerVars>>
    BY DEF setAction
  <1>2. Table(gEventCommands, Events, Texts) BY DEF TypeOK, TextType
  <1>3. Table(gEventCommands', Events, Texts) BY <1>1, <1>2, PutType
  <1>4. TextType' BY <1>1, <1>3 DEF TypeOK, TextType
  <1>5. LoopType' /\ StackType' BY <1>1, DamagingTypes DEF TypeOK
  <1>6. QED BY <1>1, <1>4, <1>5, Kept DEF TypeOK

(* removeAction keeps every type.                                          *)
LEMMA removeActionTypes ==
    ASSUME TypeOK, NEW e \in Events, removeAction(e)
    PROVE  TypeOK'
  <1>1. /\ Executing(ActionRemove(e)) /\ (FinishDamaging(e) \/ Finish(<<>>))
        /\ gEventCommands' = Without(gEventCommands, {e})
        /\ UNCHANGED <<queueVars, todo, fdVars, deviceVars, outputVars, gHotkeys,
                       readerVars>>
    BY DEF removeAction
  <1>2. Table(gEventCommands, Events, Texts) BY DEF TypeOK, TextType
  <1>3. Table(gEventCommands', Events, Texts) BY <1>1, <1>2, WithoutType
  <1>4. TextType' BY <1>1, <1>3 DEF TypeOK, TextType
  <1>5. LoopType' /\ StackType' BY <1>1, DamagingTypes, SimpleTypes DEF TypeOK
  <1>6. QED BY <1>1, <1>4, <1>5, Kept DEF TypeOK

(* What is run of a sourced file is made of its commands and of Bad.       *)
LEMMA SourcedLines ==
    ASSUME NEW t \in Texts, NEW L, Bad \in L, Text[t] \in Seq(L), NEW commands \in Sourced(t)
    PROVE  commands \in Seq(L)
  <1>1. ASSUME NEW n \in 0..Len(Text[t])
        PROVE  Append(SubSeq(Text[t], 1, n), Bad) \in Seq(L)
    <2>1. \A i \in 1..n : Text[t][i] \in L
      BY ElementOfSeq, LenProperties
    <2>2. SubSeq(Text[t], 1, n) \in Seq(L)
      BY <2>1, SubSeqProperties
    <2>. QED BY <2>2, AppendProperties
  <1>. QED BY <1>1 DEF Sourced

(* source keeps every type.                                                *)
LEMMA sourceTypes ==
    ASSUME TypeOK, NEW t \in Texts, sourceCommandFile(t)
    PROVE  TypeOK'
  <1>1. PICK commands \in Sourced(t) :
          Executing(Source(t)) /\ Finish(Run(Top.client, "none", commands))
    BY DEF sourceCommandFile
  <1>2. UNCHANGED <<queueVars, todo, fdVars, deviceVars, outputVars, textVars, readerVars>>
    BY DEF sourceCommandFile
  <1>3. Top.client \in Clients BY <1>1, AfterType DEF TypeOK, WorkItem
  <1>4. Bad \in Command BY DEF Bad, Command
  <1>5. commands \in Seq(Command) BY <1>4, SourcedLines, TextAssumption
  <1>6. Run(Top.client, "none", commands) \in Seq(WorkItem) BY <1>3, <1>5, RunType
  <1>7. LoopType' /\ StackType' BY <1>1, <1>6, FinishTypes DEF TypeOK
  <1>8. QED BY <1>2, <1>7, Kept DEF TypeOK

(* quit keeps every type.                                                  *)
LEMMA quitTypes ==
    ASSUME TypeOK, quit
    PROVE  TypeOK'
  <1>1. /\ Executing(Quit) /\ gQuit' = TRUE
        /\ stack' = ReplyTo(Top.client) \o AfterCommand
        /\ UNCHANGED <<pc, failure, gCommandQueue, pfds, revents, queueVars, todo,
                   fdVars, deviceVars, outputVars, textVars, readerVars>>
    BY DEF quit
  <1>2. Top \in WorkItem /\ AfterCommand \in Seq(WorkItem)
    BY <1>1, AfterType DEF TypeOK
  <1>3. ReplyTo(Top.client) \in Seq(WorkItem) BY <1>2, ReplyType DEF WorkItem
  <1>4. StackType' BY <1>1, <1>2, <1>3, ConcatProperties DEF StackType
  <1>5. LoopType' BY <1>1 DEF TypeOK, LoopType
  <1>6. QED BY <1>1, <1>4, <1>5, Kept DEF TypeOK

(* nop keeps every type.                                                   *)
LEMMA nopTypes ==
    ASSUME TypeOK, nop \/ unknownCommand
    PROVE  TypeOK'
  <1>1. /\ \/ Executing(Nop) /\ Finish(<<>>)
           \/ Executing(Bad) /\ Throw
        /\ UNCHANGED <<queueVars, todo, fdVars, deviceVars, outputVars, textVars,
                       readerVars>>
    BY DEF nop, unknownCommand
  <1>2. QED BY <1>1, SimpleTypes, Kept DEF TypeOK

(* toClient keeps every type.                                              *)
LEMMA toClientTypes ==
    ASSUME TypeOK, toClient
    PROVE  TypeOK'
  <1>1. /\ Pending("reply") /\ stack' = Tail(stack)
        /\ removeFD({Top.client}) \/ UNCHANGED queueVars
        /\ UNCHANGED <<loopVars, todo, fdVars, deviceVars, outputVars, textVars,
                       readerVars>>
    BY DEF toClient
  <1>2. Top \in WorkItem /\ Tail(stack) \in Seq(WorkItem)
    BY <1>1, TopType DEF Pending, TypeOK
  <1>3. StackType' BY <1>1, <1>2 DEF StackType
  <1>4. {Top.client} \subseteq Clients /\ todo' \subseteq Clients
    BY <1>1, <1>2 DEF WorkItem, TypeOK, QueueType
  <1>5. QueueType' BY <1>1, <1>4, RemoveFDTypes, Kept DEF TypeOK
  <1>6. QED BY <1>1, <1>3, <1>5, Kept DEF TypeOK

(* stackOverflow keeps every type.                                         *)
LEMMA stackOverflowTypes ==
    ASSUME TypeOK, stackOverflow
    PROVE  TypeOK'
  <1>1. /\ Die("stack overflow")
        /\ UNCHANGED <<queueVars, todo, fdVars, deviceVars, outputVars, textVars,
                       readerVars>>
    BY DEF stackOverflow
  <1>2. "stack overflow" \in Failures BY DEF Failures
  <1>3. LoopType' /\ StackType' BY <1>1, <1>2, DieTypes DEF TypeOK
  <1>4. QED BY <1>1, <1>3, Kept DEF TypeOK

-----------------------------------------------------------------------------
(* Callbacks.                                                              *)

(* What a pending item gives its action.                                   *)
LEMMA PendingTypes ==
    ASSUME StackType, NEW do, Pending(do)
    PROVE  Top \in WorkItem /\ Tail(stack) \in Seq(WorkItem)
  BY TopType DEF Pending

(* acceptClient keeps every type.                                          *)
LEMMA acceptClientTypes ==
    ASSUME TypeOK, acceptClient
    PROVE  TypeOK'
  <1>1. /\ Pending("onRead")
        /\ UNCHANGED <<queueVars, todo, deviceVars, outputVars, textVars, readerVars>>
    BY DEF acceptClient, Called
  <1>2. Top \in WorkItem /\ Tail(stack) \in Seq(WorkItem)
    BY <1>1, PendingTypes DEF TypeOK
  <1>3. LoopType' /\ StackType' /\ FdType'
    <2>1. CASE Throw /\ UNCHANGED fdVars
      BY <1>2, <2>1, ThrowTypes, Kept DEF TypeOK
    <2>2. CASE \E fd \in Fds :
            /\ Opens(fd)
            /\ files' = Put(files, fd, "client")
            /\ gFDCBs' = Put(gFDCBs, fd, CallbacksOf("client", NoName, None))
            /\ gFDAddQueue' = gFDAddQueue \cup {fd}
            /\ gCommandClients' = gCommandClients \cup {fd}
            /\ stack' = Tail(stack)
            /\ UNCHANGED loopVars
      <3>1. PICK fd \in Fds :
            /\ files' = Put(files, fd, "client")
            /\ gFDCBs' = Put(gFDCBs, fd, CallbacksOf("client", NoName, None))
            /\ gFDAddQueue' = gFDAddQueue \cup {fd}
            /\ gCommandClients' = gCommandClients \cup {fd}
        BY <2>2
      <3>2. "client" \in Kinds BY DEF Kinds
      <3>3. CallbacksOf("client", NoName, None) \in Callbacks
        BY <3>2 DEF Callbacks, CallbacksOf
      <3>4. Table(files, Fds, Kinds) /\ Table(gFDCBs, Fds, Callbacks)
        BY DEF TypeOK, FdType
      <3>5. Table(files', Fds, Kinds) BY <3>1, <3>2, <3>4, PutType
      <3>6. Table(gFDCBs', Fds, Callbacks) BY <3>1, <3>3, <3>4, PutType
      <3>7. FdType' BY <3>1, <3>5, <3>6 DEF TypeOK, FdType
      <3>8. StackType' BY <1>2, <2>2 DEF StackType
      <3>9. LoopType' BY <2>2, Kept DEF TypeOK
      <3>10. QED BY <3>7, <3>8, <3>9
    <2>3. QED BY <2>1, <2>2 DEF acceptClient
  <1>4. QED BY <1>1, <1>3, Kept DEF TypeOK

(* A line that is queued, for a client or for a hotkey.                    *)
LEMMA QueuedTypes ==
    ASSUME LoopType, NEW client \in Clients, NEW t \in Texts,
           gCommandQueue' = Append(gCommandQueue, [client |-> client, text |-> t]),
           UNCHANGED <<pc, failure, gQuit, pfds, revents>>
    PROVE  LoopType'
  <1>1. [client |-> client, text |-> t] \in [client : Clients, text : Texts]
    OBVIOUS
  <1>2. gCommandQueue' \in Seq([client : Clients, text : Texts])
    BY <1>1, AppendProperties DEF LoopType
  <1>3. QED BY <1>2 DEF LoopType

(* readCommand keeps every type.                                           *)
LEMMA readCommandTypes ==
    ASSUME TypeOK, NEW fd \in Fds, NEW t \in ClientTexts, readCommand(fd, t)
    PROVE  TypeOK'
  <1>1. /\ Pending("onRead") /\ stack' = Tail(stack)
        /\ gCommandQueue' = Append(gCommandQueue, [client |-> fd, text |-> t])
        /\ UNCHANGED <<pc, failure, gQuit, pfds, revents, queueVars, todo, fdVars,
                   deviceVars, outputVars, textVars, readerVars>>
    BY DEF readCommand, Called
  <1>2. Tail(stack) \in Seq(WorkItem) BY <1>1, PendingTypes DEF TypeOK
  <1>3. StackType' BY <1>1, <1>2 DEF StackType
  <1>4. fd \in Clients /\ t \in Texts BY DaemonAssumption DEF Clients
  <1>5. UNCHANGED <<pc, failure, gQuit, pfds, revents>> BY <1>1
  <1>6. LoopType' BY <1>1, <1>4, <1>5, QueuedTypes DEF TypeOK
  <1>7. QED BY <1>1, <1>3, <1>6, Kept DEF TypeOK

(* The callbacks that call removeFD on one descriptor and return.          *)
LEMMA RemovesTypes ==
    ASSUME TypeOK, NEW do, Pending(do), NEW fd \in Clients, removeFD({fd}),
           stack' = Tail(stack),
           UNCHANGED <<loopVars, todo, fdVars, deviceVars, outputVars, textVars,
                       readerVars>>
    PROVE  TypeOK'
  <1>1. Tail(stack) \in Seq(WorkItem) BY PendingTypes DEF TypeOK
  <1>2. StackType' BY <1>1 DEF StackType
  <1>3. {fd} \subseteq Clients /\ todo' \subseteq Clients BY DEF TypeOK, QueueType
  <1>4. QueueType' BY <1>3, RemoveFDTypes DEF TypeOK
  <1>5. QED BY <1>2, <1>4, Kept DEF TypeOK

(* The actions that only queue a removal keep every type.                  *)
LEMMA closingTypes ==
    ASSUME TypeOK, NEW fd \in Fds,
           disconnectClient(fd) \/ readFails(fd)
    PROVE  TypeOK'
  <1>1. fd \in Clients BY DEF Clients
  <1>2. CASE disconnectClient(fd)
    BY <1>1, <1>2, RemovesTypes DEF disconnectClient, Called
  <1>3. CASE readFails(fd) BY <1>1, <1>3, RemovesTypes DEF readFails, Called
  <1>4. QED BY <1>2, <1>3

(* closeDevice keeps every type.                                           *)
LEMMA closeDeviceTypes ==
    ASSUME TypeOK, closeDevice
    PROVE  TypeOK'
  <1>1. Pending("close") BY DEF closeDevice
  <1>2. Top.fd \in Clients BY <1>1, PendingTypes DEF TypeOK, WorkItem
  <1>3. QED BY <1>1, <1>2, RemovesTypes DEF closeDevice

(* deviceLost keeps every type.                                            *)
LEMMA deviceLostTypes ==
    ASSUME TypeOK, NEW fd \in Fds, deviceLost(fd)
    PROVE  TypeOK'
  <1>1. /\ \E do \in Works : Pending(do)
        /\ fd \in DOMAIN gFDCBs
        /\ lostFired' = lostFired \cup {gFDCBs[fd].dev}
        /\ stack' = fireEvent(None, "device-lost") \o Task("close", fd) \o Tail(stack)
        /\ UNCHANGED <<loopVars, queueVars, todo, fdVars, gInputs, gInputIDFreeList,
                       gone, outputVars, textVars, readerVars>>
    BY DEF deviceLost, Called, Works
  <1>2. Tail(stack) \in Seq(WorkItem) BY <1>1, PendingTypes DEF TypeOK
  <1>3. /\ None \in Clients /\ fd \in Clients
        /\ "device-lost" \in Events /\ "close" \in Works
    BY DEF Clients, Events, Works
  <1>4. fireEvent(None, "device-lost") \in Seq(WorkItem) BY <1>3, FireType DEF TypeOK
  <1>5. Task("close", fd) \in Seq(WorkItem) BY <1>3, TaskType
  <1>6. StackType' BY <1>1, <1>2, <1>4, <1>5, ConcatProperties DEF StackType
  <1>7. gFDCBs[fd].dev \in Devices \cup {NoName}
    BY <1>1 DEF TypeOK, FdType, Table, Callbacks
  <1>8. DeviceType' BY <1>1, <1>7 DEF TypeOK, DeviceType
  <1>9. QED BY <1>1, <1>6, <1>8, Kept DEF TypeOK

(* tryHotkey keeps every type.                                             *)
LEMMA tryHotkeyTypes ==
    ASSUME TypeOK, NEW fd \in Fds, NEW k \in Keys, tryHotkey(fd, k)
    PROVE  TypeOK'
  <1> DEFINE key == <<gFDCBs[fd].id, k>>
  <1>1. /\ Pending("onRead") /\ stack' = Tail(stack)
        /\ IF key \in DOMAIN gHotkeys
           THEN gCommandQueue' = Append(gCommandQueue,
                                        [client |-> None, text |-> gHotkeys[key]])
           ELSE UNCHANGED gCommandQueue
        /\ UNCHANGED <<pc, failure, gQuit, pfds, revents, queueVars, todo, fdVars,
                   deviceVars, outputVars, textVars, readerVars>>
    BY DEF tryHotkey, Reads, Called
  <1> HIDE DEF key
  <1>2. Tail(stack) \in Seq(WorkItem) BY <1>1, PendingTypes DEF TypeOK
  <1>3. StackType' BY <1>1, <1>2 DEF StackType
  <1>4. UNCHANGED <<pc, failure, gQuit, pfds, revents>> BY <1>1
  <1>5. LoopType'
    <2>1. CASE key \in DOMAIN gHotkeys
      <3>1. gHotkeys[key] \in Texts BY <2>1 DEF TypeOK, TextType, Table
      <3>2. None \in Clients BY DEF Clients
      <3>3. QED BY <1>1, <1>4, <2>1, <3>1, <3>2, QueuedTypes DEF TypeOK
    <2>2. CASE key \notin DOMAIN gHotkeys
      BY <1>1, <2>2, Kept DEF TypeOK, loopVars
    <2>3. QED BY <2>1, <2>2
  <1>6. QED BY <1>1, <1>3, <1>5, Kept DEF TypeOK

(* forwardEvent keeps every type.                                          *)
LEMMA forwardEventTypes ==
    ASSUME TypeOK, NEW fd \in Fds, NEW k \in Keys, forwardEvent(fd, k)
    PROVE  TypeOK'
  <1>1. /\ Pending("onRead") /\ stack' = Tail(stack)
        /\ \E cond : Complains("missing device", cond)
        /\ UNCHANGED <<loopVars, queueVars, todo, fdVars, deviceVars, outputVars,
                   textVars, told, torn>>
    BY DEF forwardEvent, Reads, Called
  <1>2. Tail(stack) \in Seq(WorkItem) BY <1>1, PendingTypes DEF TypeOK
  <1>3. StackType' BY <1>1, <1>2 DEF StackType
  <1>4. protocolErrors' \subseteq {"duplicate device", "missing device"}
    BY <1>1, ComplainsType DEF TypeOK, ReaderType
  <1>5. ReaderType' BY <1>1, <1>4 DEF TypeOK, ReaderType
  <1>6. QED BY <1>1, <1>3, <1>5, Kept DEF TypeOK

(* forwardFails keeps every type.                                          *)
LEMMA forwardFailsTypes ==
    ASSUME TypeOK, NEW fd \in Fds, NEW k \in Keys, forwardFails(fd, k)
    PROVE  TypeOK'
  <1>1. /\ Pending("onRead")
        /\ torn' = torn \cup ({gCurrentOutput.fd} \cap OutputFds)
        /\ removeFD({gCurrentOutput.fd})
        /\ lostCurrentOutput(Tail(stack))
        /\ UNCHANGED <<todo, fdVars, deviceVars, textVars, told, protocolErrors>>
    BY DEF forwardFails, Reads, Called, Dropped
  <1>2. Tail(stack) \in Seq(WorkItem) BY <1>1, PendingTypes DEF TypeOK
  <1>3. LoopType' /\ StackType' /\ OutputType'
    BY <1>1, <1>2, LostOutputTypes DEF TypeOK
  <1>4. {gCurrentOutput.fd} \subseteq Clients /\ todo' \subseteq Clients
    BY <1>1 DEF TypeOK, OutputType, QueueType
  <1>5. QueueType' BY <1>1, <1>4, RemoveFDTypes DEF TypeOK
  <1>6. OutputFds \subseteq Fds BY DEF OutputFds, TypeOK, OutputType, Table
  <1>7. ReaderType' BY <1>1, <1>6 DEF TypeOK, ReaderType
  <1>8. QED BY <1>1, <1>3, <1>5, <1>7, Kept DEF TypeOK

-----------------------------------------------------------------------------
(* Removals.                                                               *)

(* Closing a descriptor drops it from both descriptor tables.              *)
LEMMA CloseTypes ==
    ASSUME FdType, NEW fd, Close(fd), gFDAddQueue' = gFDAddQueue,
           gCommandClients' \subseteq Fds
    PROVE  FdType'
  <1>1. Table(files, Fds, Kinds) /\ Table(gFDCBs, Fds, Callbacks) BY DEF FdType
  <1>2. Table(files', Fds, Kinds) BY <1>1, WithoutType DEF Close
  <1>3. Table(gFDCBs', Fds, Callbacks) BY <1>1, WithoutType DEF Close
  <1>4. QED BY <1>2, <1>3 DEF FdType

(* An entry of the removal queue has been visited.                         *)
LEMMA VisitedTypes ==
    ASSUME QueueType, NEW fd, todo' = todo \ {fd}, UNCHANGED queueVars
    PROVE  QueueType'
  BY DEF QueueType, queueVars

(* finishClientRemoval keeps every type.                                   *)
LEMMA finishClientRemovalTypes ==
    ASSUME TypeOK, NEW fd \in Fds, finishClientRemoval(fd)
    PROVE  TypeOK'
  <1>1. /\ todo' = todo \ {fd}
        /\ gCommandClients' = gCommandClients \ {fd}
        /\ Close(fd)
        /\ UNCHANGED <<loopVars, stack, queueVars, gFDAddQueue, deviceVars, outputVars,
                   textVars, readerVars>>
    BY DEF finishClientRemoval
  <1>2. gCommandClients' \subseteq Fds BY <1>1 DEF TypeOK, FdType
  <1>3. FdType' BY <1>1, <1>2, CloseTypes DEF TypeOK
  <1>4. QueueType' BY <1>1, VisitedTypes DEF TypeOK
  <1>5. QED BY <1>1, <1>3, <1>4, Kept DEF TypeOK

(* finishDeviceRemoval keeps every type.                                   *)
LEMMA finishDeviceRemovalTypes ==
    ASSUME TypeOK, NEW fd \in Fds, finishDeviceRemoval(fd)
    PROVE  TypeOK'
  <1> DEFINE d  == gFDCBs[fd].dev
             id == gInputs[d].id
  <1>1. /\ Removing(fd, "device")
        /\ IF RemovalAnnounced(d)
           THEN \E failed \in SUBSET BreakableFds : announceDeviceRemoval(id, failed)
           ELSE UNCHANGED <<readerVars, queueVars>>
        /\ cleanupDeviceHotkeys(id)
        /\ gInputs' = Without(gInputs, {d})
        /\ gone' = gone \ {d} /\ lostFired' = lostFired \ {d}
        /\ todo' = todo \ {fd}
        /\ Close(fd)
        /\ UNCHANGED <<loopVars, stack, gFDAddQueue, gCommandClients,
                       gInputIDFreeList, outputVars, gEventCommands>>
    BY DEF finishDeviceRemoval
  <1>2. d \in DOMAIN gInputs BY <1>1 DEF Removing, Found
  <1>3. id \in Ids BY <1>2, InputTypes DEF TypeOK
  <1> HIDE DEF d, id
  <1>4. DeviceType'
    <2>1. Table(gInputs, Devices, Input) BY DEF TypeOK, DeviceType
    <2>2. Table(gInputs', Devices, Input) BY <1>1, <2>1, WithoutType
    <2>3. DOMAIN gInputs' = DOMAIN gInputs \ {d} BY <1>1, WithoutDomain
    <2>4. QED BY <1>1, <2>2, <2>3 DEF TypeOK, DeviceType
  <1>5. FdType'
    <2>1. gCommandClients' \subseteq Fds BY <1>1 DEF TypeOK, FdType
    <2>2. QED BY <1>1, <2>1, CloseTypes DEF TypeOK
  <1>6. TextType'
    <2>1. Table(gHotkeys, Ids \X Keys, Texts) BY DEF TypeOK, TextType
    <2>2. Table(gHotkeys', Ids \X Keys, Texts)
      BY <1>1, <2>1, WithoutType DEF cleanupDeviceHotkeys
    <2>3. QED BY <1>1, <2>2 DEF TypeOK, TextType
  <1>7. ReaderType' /\ QueueType'
    <2>1. CASE RemovalAnnounced(d)
      <3>1. PICK failed \in SUBSET BreakableFds : announceDeviceRemoval(id, failed)
        BY <1>1, <2>1
      <3>2. todo' \subseteq Clients BY <1>1 DEF TypeOK, QueueType
      <3>3. QED BY <1>3, <3>1, <3>2, AnnounceTypes DEF TypeOK
    <2>2. CASE ~RemovalAnnounced(d)
      BY <1>1, <2>2, VisitedTypes, Kept DEF TypeOK
    <2>3. QED BY <2>1, <2>2
  <1>8. QED BY <1>1, <1>4, <1>5, <1>6, <1>7, Kept DEF TypeOK

(* finishOutputRemoval keeps every type.                                   *)
LEMMA finishOutputRemovalTypes ==
    ASSUME TypeOK, NEW fd \in Fds, finishOutputRemoval(fd)
    PROVE  TypeOK'
  <1>1. /\ todo' = todo \ {fd}
        /\ IF IsCurrent(fd)
           THEN lostCurrentOutput(Task("erase", fd))
           ELSE stack' = Task("erase", fd) /\ UNCHANGED <<loopVars, outputVars>>
        /\ UNCHANGED <<queueVars, fdVars, deviceVars, textVars, readerVars>>
    BY DEF finishOutputRemoval
  <1>2. fd \in Clients /\ "erase" \in Works BY DEF Clients, Works
  <1>3. Task("erase", fd) \in Seq(WorkItem) BY <1>2, TaskType
  <1>4. LoopType' /\ StackType' /\ OutputType'
    <2>1. CASE IsCurrent(fd) BY <1>1, <1>3, <2>1, LostOutputTypes DEF TypeOK
    <2>2. CASE ~IsCurrent(fd) BY <1>1, <1>3, <2>2, Kept DEF TypeOK, StackType
    <2>3. QED BY <2>1, <2>2
  <1>5. QueueType' BY <1>1, VisitedTypes DEF TypeOK
  <1>6. QED BY <1>1, <1>4, <1>5, Kept DEF TypeOK

(* eraseOutput keeps every type.                                           *)
LEMMA eraseOutputTypes ==
    ASSUME TypeOK, eraseOutput
    PROVE  TypeOK'
  <1>1. /\ Pending("erase")
        /\ UNCHANGED <<queueVars, todo, gFDAddQueue, gCommandClients, deviceVars,
                   gCurrentOutput, gWrite, gGrab, envOutputName, textVars,
                   protocolErrors>>
    BY DEF eraseOutput
  <1>2. CASE Top.fd \in OutputFds
    <2>1. /\ \E S : gOutputs' = Without(gOutputs, S)
          /\ Close(Top.fd)
          /\ told' = Without(told, {Top.fd})
          /\ torn' = torn \ {Top.fd}
          /\ stack' = Tail(stack)
          /\ UNCHANGED loopVars
      BY <1>2 DEF eraseOutput
    <2>2. Tail(stack) \in Seq(WorkItem) BY <1>1, PendingTypes DEF TypeOK
    <2>3. StackType' BY <2>1, <2>2 DEF StackType
    <2>4. gCommandClients' \subseteq Fds BY <1>1 DEF TypeOK, FdType
    <2>5. FdType' BY <1>1, <2>1, <2>4, CloseTypes DEF TypeOK
    <2>6. OutputType'
      <3>1. Table(gOutputs, Outputs, Fds) BY DEF TypeOK, OutputType
      <3>2. Table(gOutputs', Outputs, Fds) BY <2>1, <3>1, WithoutType
      <3>3. QED BY <1>1, <3>2 DEF TypeOK, OutputType
    <2>7. ReaderType'
      <3>1. Table(told, Fds, SUBSET Ids) BY DEF TypeOK, ReaderType
      <3>2. Table(told', Fds, SUBSET Ids) BY <2>1, <3>1, WithoutType
      <3>3. QED BY <1>1, <2>1, <3>2 DEF TypeOK, ReaderType
    <2>8. QED BY <1>1, <2>1, <2>3, <2>5, <2>6, <2>7, Kept DEF TypeOK
  <1>3. CASE Top.fd \notin OutputFds
    <2>1. Die("failed to find fd") /\ UNCHANGED <<gOutputs, files, gFDCBs, told, torn>>
      BY <1>3 DEF eraseOutput
    <2>2. "failed to find fd" \in Failures BY DEF Failures
    <2>3. LoopType' /\ StackType' BY <2>1, <2>2, DieTypes DEF TypeOK
    <2>4. UNCHANGED <<fdVars, outputVars, readerVars>>
      BY <1>1, <2>1 DEF fdVars, outputVars, readerVars
    <2>5. QED BY <1>1, <2>3, <2>4, Kept DEF TypeOK
  <1>4. QED BY <1>2, <1>3

(* A sweep that meets what it cannot remove keeps every type.              *)
LEMMA removeFailsTypes ==
    ASSUME TypeOK, removeUnknown \/ removeDangling
    PROVE  TypeOK'
  <1>1. PICK why \in {"failed to find fd", "FD without cleanup callback",
                      "dangling iterator"} : Die(why)
    BY DEF removeUnknown, removeDangling
  <1>2. UNCHANGED <<queueVars, todo, fdVars, deviceVars, outputVars, textVars,
                   readerVars>>
    BY DEF removeUnknown, removeDangling
  <1>3. why \in Failures BY DEF Failures
  <1>4. LoopType' /\ StackType' BY <1>1, <1>3, DieTypes DEF TypeOK
  <1>5. QED BY <1>2, <1>4, Kept DEF TypeOK

-----------------------------------------------------------------------------
(* The loop.                                                               *)

(* Steps that only move the program counter or the queues of the loop.     *)
LEMMA startedTypes ==
    ASSUME TypeOK, started \/ pollInterrupted \/ signull
    PROVE  TypeOK'
  <1>1. UNCHANGED <<failure, gCommandQueue, pfds, revents, stack, queueVars, todo,
                   fdVars, deviceVars, outputVars, textVars, readerVars>>
    BY DEF started, pollInterrupted, signull
  <1>2. pc' \in Phases /\ gQuit' \in BOOLEAN
    BY DEF started, pollInterrupted, signull, AfterEINTR, NextRound, Phases, TypeOK, LoopType
  <1>3. LoopType' BY <1>1, <1>2 DEF TypeOK, LoopType
  <1>4. QED BY <1>1, <1>3, Kept DEF TypeOK

(* processCommandQueue keeps every type.                                   *)
LEMMA processCommandQueueTypes ==
    ASSUME TypeOK, processCommandQueue
    PROVE  TypeOK'
  <1> DEFINE command == Head(gCommandQueue)
             Lines == [client : Clients, text : Texts]
  <1>1. /\ gCommandQueue # <<>>
        /\ gCommandQueue' = Tail(gCommandQueue)
        /\ stack' = Run(command.client, "none", Text[command.text])
        /\ UNCHANGED <<pc, failure, gQuit, pfds, revents, queueVars, todo, fdVars,
                   deviceVars, outputVars, textVars, readerVars>>
    BY DEF processCommandQueue
  <1>2. gCommandQueue \in Seq(Lines) BY DEF TypeOK, LoopType
  <1>3. command \in Lines /\ Tail(gCommandQueue) \in Seq(Lines)
    BY <1>1, <1>2, HeadTailProperties
  <1>4. command.client \in Clients /\ Text[command.text] \in Seq(Command)
    BY <1>3, TextAssumption
  <1>5. Run(command.client, "none", Text[command.text]) \in Seq(WorkItem)
    BY <1>4, RunType
  <1>6. LoopType' BY <1>1, <1>3 DEF TypeOK, LoopType
  <1>7. StackType' BY <1>1, <1>5 DEF StackType
  <1>8. QED BY <1>1, <1>6, <1>7, Kept DEF TypeOK

(* processRemoveQueue keeps every type.                                    *)
LEMMA processRemoveQueueTypes ==
    ASSUME TypeOK, processRemoveQueue
    PROVE  TypeOK'
  <1>1. /\ pfds' = Polled /\ gFDAddQueue' = {} /\ todo' = Sweep /\ pc' = "remove"
        /\ UNCHANGED <<failure, gQuit, gCommandQueue, revents, stack, queueVars,
                   gFDCBs, files, gCommandClients, deviceVars, outputVars, textVars,
                   readerVars>>
    BY DEF processRemoveQueue
  <1>2. LoopType' BY <1>1 DEF TypeOK, LoopType, FdType, Polled, Phases
  <1>3. QueueType' BY <1>1 DEF TypeOK, QueueType, queueVars, Sweep
  <1>4. FdType' BY <1>1 DEF TypeOK, FdType
  <1>5. QED BY <1>1, <1>2, <1>3, <1>4, Kept DEF TypeOK

(* sweepDone keeps every type.                                             *)
LEMMA sweepDoneTypes ==
    ASSUME TypeOK, sweepDone
    PROVE  TypeOK'
  <1>1. /\ gFDRemoveQueue' = {} /\ moved' = FALSE /\ pc' = AfterSweep
        /\ UNCHANGED <<failure, gQuit, gCommandQueue, pfds, revents, stack, todo,
                   fdVars, deviceVars, outputVars, textVars, readerVars>>
    BY DEF sweepDone
  <1>2. LoopType' BY <1>1 DEF TypeOK, LoopType, AfterSweep, Phases
  <1>3. QueueType' BY <1>1 DEF TypeOK, QueueType
  <1>4. QED BY <1>1, <1>2, <1>3, Kept DEF TypeOK

(* poll keeps every type.                                                  *)
LEMMA pollTypes ==
    ASSUME TypeOK, poll
    PROVE  TypeOK'
  <1>1. PICK readable \in SUBSET pfds, hungUp \in SUBSET (gCommandClients \cap pfds) :
          revents' = [fd \in readable \cup GoneFds |->
              (IF fd \in readable THEN {"onRead"} ELSE {})
                \cup (IF fd \in hungUp \cup GoneFds THEN {"onHUP"} ELSE {})
                \cup (IF fd \in GoneFds THEN {"onError"} ELSE {})]
    BY DEF poll
  <1>2. /\ pc' = "dispatch"
        /\ UNCHANGED <<failure, gQuit, gCommandQueue, pfds, stack, queueVars, todo,
                   fdVars, deviceVars, outputVars, textVars, readerVars>>
    BY DEF poll
  <1>3. readable \cup GoneFds \subseteq Fds BY DEF GoneFds, TypeOK, LoopType
  <1>4. Table(revents', Fds, SUBSET {"onRead", "onHUP", "onError"})
    BY <1>1, <1>3 DEF Table
  <1>5. LoopType' BY <1>2, <1>4 DEF TypeOK, LoopType, Phases
  <1>6. QED BY <1>2, <1>5, Kept DEF TypeOK

(* Dropping a report of poll.                                              *)
LEMMA ReportsTypes ==
    ASSUME LoopType, NEW T, revents' = Without(revents, T), pc' \in Phases,
           failure' \in Failures, UNCHANGED <<gQuit, gCommandQueue, pfds>>
    PROVE  LoopType'
  <1>1. Table(revents, Fds, SUBSET {"onRead", "onHUP", "onError"}) BY DEF LoopType
  <1>2. Table(revents', Fds, SUBSET {"onRead", "onHUP", "onError"})
    BY <1>1, WithoutType
  <1>3. QED BY <1>2 DEF LoopType

(* dispatch keeps every type.                                              *)
LEMMA dispatchTypes ==
    ASSUME TypeOK, NEW fd \in Fds, dispatch(fd)
    PROVE  TypeOK'
  <1>1. /\ Idle("dispatch")
        /\ revents' = Without(revents, {fd})
        /\ UNCHANGED <<gQuit, gCommandQueue, pfds, queueVars, todo, fdVars,
                   deviceVars, outputVars, textVars, readerVars>>
    BY DEF dispatch
  <1>2. "callback map broken" \in Failures /\ "failed" \in Phases
    BY DEF Failures, Phases
  <1>3. CASE fd \in DOMAIN gFDCBs
    <2> DEFINE error == IF "onError" \in revents[fd] THEN Task("onError", fd) ELSE <<>>
               hup   == IF "onHUP" \in revents[fd] THEN Task("onHUP", fd) ELSE <<>>
               read  == IF "onRead" \in revents[fd] THEN Task("onRead", fd) ELSE <<>>
    <2>1. stack' = error \o hup \o read /\ UNCHANGED <<pc, failure>>
      BY <1>3 DEF dispatch
    <2>2. {"onError", "onHUP", "onRead"} \subseteq Works /\ fd \in Clients
      BY DEF Works, Clients
    <2>3. /\ Task("onError", fd) \in Seq(WorkItem) /\ Task("onHUP", fd) \in Seq(WorkItem)
          /\ Task("onRead", fd) \in Seq(WorkItem)
      BY <2>2, TaskType
    <2>4. error \in Seq(WorkItem) /\ hup \in Seq(WorkItem) /\ read \in Seq(WorkItem)
      BY <2>3, NothingType
    <2> HIDE DEF error, hup, read
    <2>5. StackType' BY <2>1, <2>4, ConcatProperties DEF StackType
    <2>6. pc' \in Phases /\ failure' \in Failures BY <2>1 DEF TypeOK, LoopType
    <2>7. LoopType' BY <1>1, <2>6, ReportsTypes DEF TypeOK
    <2>8. QED BY <1>1, <2>5, <2>7, Kept DEF TypeOK
  <1>4. CASE fd \notin DOMAIN gFDCBs
    <2>1. pc' = "failed" /\ failure' = "callback map broken" /\ UNCHANGED stack
      BY <1>4 DEF dispatch
    <2>2. LoopType' BY <1>1, <1>2, <2>1, ReportsTypes DEF TypeOK
    <2>3. QED BY <1>1, <2>1, <2>2, Kept DEF TypeOK
  <1>5. QED BY <1>3, <1>4

(* dispatchDone keeps every type.                                          *)
LEMMA dispatchDoneTypes ==
    ASSUME TypeOK, dispatchDone
    PROVE  TypeOK'
  <1>1. /\ pc' \in {"commands", "failed"}
        /\ failure' \in {failure, "callback map broken"}
        /\ UNCHANGED <<gQuit, gCommandQueue, pfds, revents, stack, queueVars, todo,
                   fdVars, deviceVars, outputVars, textVars, readerVars>>
    BY DEF dispatchDone
  <1>2. LoopType' BY <1>1 DEF TypeOK, LoopType, Phases, Failures
  <1>3. QED BY <1>1, <1>2, Kept DEF TypeOK

(* dispatchBreak keeps every type.                                         *)
LEMMA dispatchBreakTypes ==
    ASSUME TypeOK, dispatchBreak
    PROVE  TypeOK'
  <1>1. /\ pc' = "quitting" /\ stack' = <<>> /\ revents' = NoEntries
        /\ UNCHANGED <<failure, gQuit, gCommandQueue, pfds, queueVars, todo, fdVars,
                   deviceVars, outputVars, textVars, readerVars>>
    BY DEF dispatchBreak
  <1>2. Table(revents', Fds, SUBSET {"onRead", "onHUP", "onError"})
    BY <1>1, NoEntriesType
  <1>3. LoopType' BY <1>1, <1>2 DEF TypeOK, LoopType, Phases
  <1>4. StackType' BY <1>1, NothingType DEF StackType
  <1>5. QED BY <1>1, <1>3, <1>4, Kept DEF TypeOK

(* shutdown keeps every type.                                              *)
LEMMA shutdownTypes ==
    ASSUME TypeOK, shutdown
    PROVE  TypeOK'
  <1>1. /\ pc' = "exited" /\ gFDRemoveQueue' = {} /\ gFDCBs' = NoEntries
        /\ files' = Without(files, gCommandClients) /\ gCommandClients' = {}
        /\ UNCHANGED <<failure, gQuit, gCommandQueue, pfds, revents, stack, moved,
                   todo, gFDAddQueue, deviceVars, outputVars, textVars, readerVars>>
    BY DEF shutdown
  <1>2. LoopType' BY <1>1 DEF TypeOK, LoopType, Phases
  <1>3. QueueType' BY <1>1 DEF TypeOK, QueueType
  <1>4. FdType'
    <2>1. Table(files, Fds, Kinds) BY DEF TypeOK, FdType
    <2>2. Table(files', Fds, Kinds) BY <1>1, <2>1, WithoutType
    <2>3. Table(gFDCBs', Fds, Callbacks) BY <1>1, NoEntriesType
    <2>4. QED BY <1>1, <2>2, <2>3 DEF TypeOK, FdType
  <1>5. QED BY <1>1, <1>2, <1>3, <1>4, Kept DEF TypeOK

(* unplug keeps every type.                                                *)
LEMMA unplugTypes ==
    ASSUME TypeOK, NEW d \in Devices, unplug(d)
    PROVE  TypeOK'
  <1>1. /\ d \in DOMAIN gInputs /\ gone' = gone \cup {d}
        /\ UNCHANGED <<loopVars, stack, queueVars, todo, fdVars, gInputs,
                   gInputIDFreeList, lostFired, outputVars, textVars, readerVars>>
    BY DEF unplug
  <1>2. DeviceType' BY <1>1 DEF TypeOK, DeviceType
  <1>3. QED BY <1>1, <1>2, Kept DEF TypeOK

-----------------------------------------------------------------------------
(* The invariant.                                                          *)

(* The state before the startup files are read is well typed.              *)
LEMMA InitTypes == Init => TypeOK
  <1> SUFFICES ASSUME Init PROVE TypeOK
    OBVIOUS
  <1>1. LoopType
    <2>1. Table(revents, Fds, SUBSET {"onRead", "onHUP", "onError"})
      BY NoEntriesType DEF Init
    <2>2. {Server} \subseteq Fds BY DaemonAssumption DEF Server, Fds
    <2>3. <<>> \in Seq([client : Clients, text : Texts]) OBVIOUS
    <2>4. QED BY <2>1, <2>2, <2>3 DEF Init, LoopType, Phases, Failures
  <1>2. StackType
    <2>1. None \in Clients BY DEF Clients
    <2>2. Text[Startup] \in Seq(Command) BY DaemonAssumption, TextAssumption
    <2>3. QED BY <2>1, <2>2, RunType DEF Init, StackType
  <1>3. QueueType BY DEF Init, QueueType
  <1>4. FdType
    <2>1. Server \in Fds BY DaemonAssumption DEF Server, Fds
    <2>2. CallbacksOf("server", NoName, None) \in Callbacks
      BY DEF Callbacks, CallbacksOf, Kinds
    <2>3. "server" \in Kinds BY DEF Kinds
    <2>4. QED BY <2>1, <2>2, <2>3 DEF Init, FdType, Table
  <1>5. DeviceType
    <2>1. Table(gInputs, Devices, Input) BY NoEntriesType DEF Init
    <2>2. <<>> \in Seq(Ids) OBVIOUS
    <2>3. gInputIDFreeList = <<>> /\ gone = {} /\ lostFired = {} BY DEF Init
    <2>4. QED BY <2>1, <2>2, <2>3 DEF DeviceType
  <1>6. OutputType
    <2>1. Table(gOutputs, Outputs, Fds) BY NoEntriesType DEF Init
    <2>2. QED BY <2>1 DEF Init, OutputType, Clients
  <1>7. TextType BY NoEntriesType DEF Init, TextType
  <1>8. ReaderType
    <2>1. Table(told, Fds, SUBSET Ids) BY NoEntriesType DEF Init
    <2>2. QED BY <2>1 DEF Init, ReaderType
  <1>9. QED BY <1>1, <1>2, <1>3, <1>4, <1>5, <1>6, <1>7, <1>8 DEF TypeOK

(* Every step keeps every type: the inductive step of TypeCorrect.         *)
LEMMA StepTypes ==
    ASSUME TypeOK, [Next]_vars
    PROVE  TypeOK'
  <1>1. CASE DeviceCommand
    BY <1>1, addDeviceTypes, addDeviceFailsTypes, addDeviceRefusedTypes,
       removeDeviceTypes, renameDeviceTypes, setPersistentTypes, addHotkeyTypes,
       removeHotkeyTypes
       DEF DeviceCommand
  <1>2. CASE OutputCommand
    BY <1>2, addOutputTypes, addOutputFailsTypes, removeOutputTypes, useOutputTypes
       DEF OutputCommand
  <1>3. CASE OtherCommand
    BY <1>3, writeEventsTypes, grabDevicesTypes, grabBothTypes, removeActionTypes,
       setActionTypes, sourceTypes, quitTypes, nopTypes, toClientTypes,
       stackOverflowTypes
       DEF OtherCommand
  <1>4. CASE Callback
    BY <1>4, acceptClientTypes, closingTypes, closeDeviceTypes, readCommandTypes,
       deviceLostTypes, tryHotkeyTypes, forwardEventTypes, forwardFailsTypes
       DEF Callback
  <1>5. CASE Removal
    BY <1>5, finishClientRemovalTypes, finishDeviceRemovalTypes,
       finishOutputRemovalTypes, eraseOutputTypes, FinishLostOutputTypes,
       removeFailsTypes
       DEF Removal
  <1>6. CASE Loop
    BY <1>6, startedTypes, processCommandQueueTypes, processRemoveQueueTypes,
       sweepDoneTypes, dispatchTypes, dispatchDoneTypes, dispatchBreakTypes,
       shutdownTypes
       DEF Loop
  <1>7. CASE Wake BY <1>7, pollTypes, startedTypes DEF Wake
  <1>8. CASE World BY <1>8, startedTypes, unplugTypes DEF World
  <1>9. CASE UNCHANGED vars
    BY <1>9, Kept DEF TypeOK, vars
  <1>10. QED
    BY <1>1, <1>2, <1>3, <1>4, <1>5, <1>6, <1>7, <1>8, <1>9 DEF Next, Step, Ended

(* Every global of daemon.cpp keeps a value of its type, descriptors and   *)
(* ids in range, whatever commands, events and failures come.              *)
THEOREM TypeCorrect == Spec => []TypeOK
  <1>1. Init => TypeOK BY InitTypes
  <1>2. TypeOK /\ [Next]_vars => TypeOK' BY StepTypes
  <1>3. QED BY <1>1, <1>2, PTL DEF Spec

-----------------------------------------------------------------------------
(* Who owns what.                                                          *)

Owners == KindsAgree /\ ClientsOwn /\ OutputsOwn /\ DevicesOwn
ownVars == <<files, gFDCBs, gCommandClients, gInputs, gOutputs>>

(* A step that changes no owner.                                           *)
LEMMA OwnersKept ==
    ASSUME Owners, UNCHANGED ownVars
    PROVE  Owners'
  BY DEF Owners, ownVars, KindsAgree, ClientsOwn, OutputsOwn, OutputFds, DevicesOwn

(* A step that changes only the flags of devices.                          *)
LEMMA OwnersFlagged ==
    ASSUME Owners, UNCHANGED <<files, gFDCBs, gCommandClients, gOutputs>>,
           DOMAIN gInputs' = DOMAIN gInputs,
           \A d \in DOMAIN gInputs : gInputs'[d].fd = gInputs[d].fd
                                   /\ gInputs'[d].id = gInputs[d].id
    PROVE  Owners'
  BY DEF Owners, KindsAgree, ClientsOwn, OutputsOwn, OutputFds, DevicesOwn

(* The descriptor a step opens was nobody's.                               *)
LEMMA OpenedIsFree ==
    ASSUME Owners, NEW fd, Opens(fd)
    PROVE  /\ fd \notin DOMAIN files /\ fd \notin DOMAIN gFDCBs
           /\ fd \notin gCommandClients /\ fd \notin OutputFds
           /\ \A d \in DOMAIN gInputs : gInputs[d].fd # fd
  BY DEF Owners, KindsAgree, ClientsOwn, OutputsOwn, DevicesOwn, Opens, FreeFds

(* Entering a descriptor and its callbacks.                                *)
LEMMA KindsEntered ==
    ASSUME KindsAgree, NEW fd, fd \notin DOMAIN files, NEW kind, NEW d, NEW id,
           files' = Put(files, fd, kind),
           gFDCBs' = Put(gFDCBs, fd, CallbacksOf(kind, d, id))
    PROVE  /\ KindsAgree'
           /\ DOMAIN files' = DOMAIN files \cup {fd}
           /\ files'[fd] = kind /\ gFDCBs'[fd] = CallbacksOf(kind, d, id)
           /\ \A f \in DOMAIN files : files'[f] = files[f] /\ gFDCBs'[f] = gFDCBs[f]
  BY DEF KindsAgree, Put, CallbacksOf

(* addDevice keeps every owner.                                            *)
LEMMA addDeviceOwners ==
    ASSUME Owners, NEW d \in Devices, addDevice(d)
    PROVE  Owners'
  <1>1. PICK fd \in Fds :
          /\ Opens(fd)
          /\ gInputs' = Put(gInputs, d, NewInput(getNextInputID, fd))
          /\ files' = Put(files, fd, "device")
          /\ gFDCBs' = Put(gFDCBs, fd, CallbacksOf("device", d, getNextInputID))
    BY DEF addDevice
  <1>2. d \notin DOMAIN gInputs /\ UNCHANGED <<gCommandClients, gOutputs>>
    BY DEF addDevice, outputVars
  <1>3. /\ fd \notin DOMAIN files
        /\ \A e \in DOMAIN gInputs : gInputs[e].fd # fd
    BY <1>1, OpenedIsFree
  <1>4. /\ KindsAgree'
        /\ DOMAIN files' = DOMAIN files \cup {fd}
        /\ files'[fd] = "device"
        /\ gFDCBs'[fd] = CallbacksOf("device", d, getNextInputID)
        /\ \A f \in DOMAIN files : files'[f] = files[f] /\ gFDCBs'[f] = gFDCBs[f]
    BY <1>1, <1>3, KindsEntered DEF Owners
  <1>5. ClientsOwn' /\ OutputsOwn'
    BY <1>2, <1>3, <1>4 DEF Owners, ClientsOwn, OutputsOwn, OutputFds
  <1>6. DevicesOwn'
    <2>1. /\ DOMAIN gInputs' = DOMAIN gInputs \cup {d}
          /\ gInputs'[d].fd = fd /\ gInputs'[d].id = getNextInputID
          /\ \A e \in DOMAIN gInputs : gInputs'[e] = gInputs[e]
      BY <1>1, <1>2 DEF Put, NewInput
    <2>2. gFDCBs'[fd].dev = d /\ gFDCBs'[fd].id = getNextInputID
      BY <1>4 DEF CallbacksOf
    <2>3. \A f \in DOMAIN files' : files'[f] = "device" =>
           /\ gFDCBs'[f].dev \in DOMAIN gInputs'
           /\ gInputs'[gFDCBs'[f].dev].fd = f
           /\ gInputs'[gFDCBs'[f].dev].id = gFDCBs'[f].id
      BY <1>3, <1>4, <2>1, <2>2 DEF Owners, DevicesOwn
    <2>4. \A e \in DOMAIN gInputs' :
           /\ gInputs'[e].fd \in DOMAIN files' /\ files'[gInputs'[e].fd] = "device"
           /\ gFDCBs'[gInputs'[e].fd].dev = e
      BY <1>3, <1>4, <2>1, <2>2 DEF Owners, DevicesOwn
    <2>5. QED BY <2>3, <2>4 DEF DevicesOwn
  <1>7. QED BY <1>4, <1>5, <1>6 DEF Owners

(* addOutput keeps every owner.                                            *)
LEMMA addOutputOwners ==
    ASSUME Owners, NEW o, NEW resume, addOutput(o, resume)
    PROVE  Owners'
  <1>1. PICK fd \in Fds :
          /\ Opens(fd)
          /\ gOutputs' = Put(gOutputs, o, fd)
          /\ files' = Put(files, fd, "output")
          /\ gFDCBs' = Put(gFDCBs, fd, CallbacksOf("output", NoName, None))
    BY DEF addOutput
  <1>2. o \notin DOMAIN gOutputs /\ UNCHANGED <<gCommandClients, gInputs>>
    BY DEF addOutput, deviceVars
  <1>3. fd \notin DOMAIN files /\ fd \notin OutputFds
    BY <1>1, OpenedIsFree
  <1>4. /\ KindsAgree'
        /\ DOMAIN files' = DOMAIN files \cup {fd}
        /\ files'[fd] = "output"
        /\ \A f \in DOMAIN files : files'[f] = files[f] /\ gFDCBs'[f] = gFDCBs[f]
    BY <1>1, <1>3, KindsEntered DEF Owners
  <1>5. ClientsOwn' /\ DevicesOwn'
    BY <1>2, <1>3, <1>4 DEF Owners, ClientsOwn, DevicesOwn
  <1>6. OutputsOwn'
    <2>1. /\ DOMAIN gOutputs' = DOMAIN gOutputs \cup {o}
          /\ gOutputs'[o] = fd
          /\ \A p \in DOMAIN gOutputs : gOutputs'[p] = gOutputs[p]
      BY <1>1, <1>2 DEF Put
    <2>2. OutputFds' = OutputFds \cup {fd} BY <2>1 DEF OutputFds
    <2>3. \A p \in DOMAIN gOutputs : gOutputs[p] # fd BY <1>3 DEF OutputFds
    <2>4. QED BY <1>3, <1>4, <2>1, <2>2, <2>3 DEF Owners, OutputsOwn
  <1>7. QED BY <1>4, <1>5, <1>6 DEF Owners

(* acceptClient keeps every owner.                                         *)
LEMMA acceptClientOwners ==
    ASSUME Owners, acceptClient
    PROVE  Owners'
  <1>1. UNCHANGED <<gInputs, gOutputs>> BY DEF acceptClient, deviceVars, outputVars
  <1>2. CASE UNCHANGED fdVars
    BY <1>1, <1>2, OwnersKept DEF fdVars, ownVars
  <1>3. CASE \E fd \in Fds :
          /\ Opens(fd)
          /\ files' = Put(files, fd, "client")
          /\ gFDCBs' = Put(gFDCBs, fd, CallbacksOf("client", NoName, None))
          /\ gCommandClients' = gCommandClients \cup {fd}
    <2>1. PICK fd \in Fds :
          /\ Opens(fd)
          /\ files' = Put(files, fd, "client")
          /\ gFDCBs' = Put(gFDCBs, fd, CallbacksOf("client", NoName, None))
          /\ gCommandClients' = gCommandClients \cup {fd}
      BY <1>3
    <2>2. fd \notin DOMAIN files BY <2>1, OpenedIsFree
    <2>3. /\ KindsAgree'
          /\ DOMAIN files' = DOMAIN files \cup {fd}
          /\ files'[fd] = "client"
          /\ \A f \in DOMAIN files : files'[f] = files[f] /\ gFDCBs'[f] = gFDCBs[f]
      BY <2>1, <2>2, KindsEntered DEF Owners
    <2>4. ClientsOwn' BY <2>1, <2>2, <2>3 DEF Owners, ClientsOwn
    <2>5. OutputsOwn' BY <1>1, <2>2, <2>3 DEF Owners, OutputsOwn, OutputFds
    <2>6. DevicesOwn' BY <1>1, <2>2, <2>3 DEF Owners, DevicesOwn
    <2>7. QED BY <2>3, <2>4, <2>5, <2>6 DEF Owners
  <1>4. QED BY <1>2, <1>3 DEF acceptClient

-----------------------------------------------------------------------------
(* Closing.                                                                *)

(* Closing a descriptor together with its callbacks.                       *)
LEMMA KindsClosed ==
    ASSUME KindsAgree, NEW fd, Close(fd)
    PROVE  /\ KindsAgree'
           /\ DOMAIN files' = DOMAIN files \ {fd}
           /\ \A f \in DOMAIN files \ {fd} :
                files'[f] = files[f] /\ gFDCBs'[f] = gFDCBs[f]
  BY DEF KindsAgree, Close, Without, Restrict

(* finishClientRemoval keeps every owner.                                  *)
LEMMA finishClientRemovalOwners ==
    ASSUME Owners, NEW fd, finishClientRemoval(fd)
    PROVE  Owners'
  <1>1. /\ Close(fd) /\ gCommandClients' = gCommandClients \ {fd}
        /\ fd \in DOMAIN gFDCBs /\ gFDCBs[fd].kind = "client"
        /\ UNCHANGED <<gInputs, gOutputs>>
    BY DEF finishClientRemoval, Removing, deviceVars, outputVars
  <1>2. fd \in DOMAIN files /\ files[fd] = "client" BY <1>1 DEF Owners, KindsAgree
  <1>3. /\ KindsAgree'
        /\ DOMAIN files' = DOMAIN files \ {fd}
        /\ \A f \in DOMAIN files \ {fd} :
             files'[f] = files[f] /\ gFDCBs'[f] = gFDCBs[f]
    BY <1>1, KindsClosed DEF Owners
  <1>4. ClientsOwn' BY <1>1, <1>2, <1>3 DEF Owners, ClientsOwn
  <1>5. OutputsOwn' BY <1>1, <1>2, <1>3 DEF Owners, OutputsOwn, OutputFds
  <1>6. DevicesOwn' BY <1>1, <1>2, <1>3 DEF Owners, DevicesOwn
  <1>7. QED BY <1>3, <1>4, <1>5, <1>6 DEF Owners

(* finishDeviceRemoval keeps every owner.                                  *)
LEMMA finishDeviceRemovalOwners ==
    ASSUME Owners, NEW fd, finishDeviceRemoval(fd)
    PROVE  Owners'
  <1> DEFINE d == gFDCBs[fd].dev
  <1>1. /\ Close(fd) /\ gInputs' = Without(gInputs, {d})
        /\ fd \in DOMAIN gFDCBs /\ gFDCBs[fd].kind = "device"
        /\ UNCHANGED <<gCommandClients, gOutputs>>
    BY DEF finishDeviceRemoval, Removing, outputVars
  <1>2. fd \in DOMAIN files /\ files[fd] = "device" BY <1>1 DEF Owners, KindsAgree
  <1>3. /\ KindsAgree'
        /\ DOMAIN files' = DOMAIN files \ {fd}
        /\ \A f \in DOMAIN files \ {fd} :
             files'[f] = files[f] /\ gFDCBs'[f] = gFDCBs[f]
    BY <1>1, KindsClosed DEF Owners
  <1>4. ClientsOwn' BY <1>1, <1>2, <1>3 DEF Owners, ClientsOwn
  <1>5. OutputsOwn' BY <1>1, <1>2, <1>3 DEF Owners, OutputsOwn, OutputFds
  <1>6. DevicesOwn'
    <2>1. /\ DOMAIN gInputs' = DOMAIN gInputs \ {d}
          /\ \A e \in DOMAIN gInputs \ {d} : gInputs'[e] = gInputs[e]
      BY <1>1 DEF Without, Restrict
    <2>2. gInputs[d].fd = fd BY <1>2 DEF Owners, DevicesOwn
    <2>3. \A f \in DOMAIN files' : files'[f] = "device" => gFDCBs'[f].dev # d
      BY <1>3, <2>2 DEF Owners, DevicesOwn
    <2>4. \A e \in DOMAIN gInputs' : gInputs[e].fd # fd
      BY <2>1 DEF Owners, DevicesOwn
    <2> HIDE DEF d
    <2>5. QED BY <1>3, <2>1, <2>3, <2>4 DEF Owners, DevicesOwn
  <1>7. QED BY <1>3, <1>4, <1>5, <1>6 DEF Owners

(* eraseOutput keeps every owner.                                          *)
LEMMA eraseOutputOwners ==
    ASSUME Owners, eraseOutput
    PROVE  Owners'
  <1> DEFINE fd == Top.fd
  <1>1. UNCHANGED <<gCommandClients, gInputs>> BY DEF eraseOutput, deviceVars
  <1>2. CASE fd \notin OutputFds
    BY <1>1, <1>2, OwnersKept DEF eraseOutput, ownVars
  <1>3. CASE fd \in OutputFds
    <2>1. /\ gOutputs' = Without(gOutputs, {o \in DOMAIN gOutputs : gOutputs[o] = fd})
          /\ Close(fd)
      BY <1>3 DEF eraseOutput
    <2>2. fd \in DOMAIN files /\ files[fd] = "output"
      BY <1>3 DEF Owners, OutputsOwn
    <2> HIDE DEF fd
    <2>3. /\ KindsAgree'
          /\ DOMAIN files' = DOMAIN files \ {fd}
          /\ \A f \in DOMAIN files \ {fd} :
               files'[f] = files[f] /\ gFDCBs'[f] = gFDCBs[f]
      BY <2>1, KindsClosed DEF Owners
    <2>4. ClientsOwn' BY <1>1, <2>2, <2>3 DEF Owners, ClientsOwn
    <2>5. DevicesOwn' BY <1>1, <2>2, <2>3 DEF Owners, DevicesOwn
    <2>6. OutputsOwn'
      <3>1. /\ DOMAIN gOutputs' = {o \in DOMAIN gOutputs : gOutputs[o] # fd}
            /\ \A o \in DOMAIN gOutputs' : gOutputs'[o] = gOutputs[o]
        BY <2>1 DEF Without, Restrict
      <3>2. OutputFds' = OutputFds \ {fd} BY <3>1 DEF OutputFds
      <3>3. {f \in DOMAIN files' : files'[f] = "output"} = OutputFds'
        BY <2>3, <3>2 DEF Owners, OutputsOwn
      <3>4. QED BY <3>1, <3>3 DEF Owners, OutputsOwn
    <2>7. QED BY <2>3, <2>4, <2>5, <2>6 DEF Owners
  <1>4. QED BY <1>2, <1>3

-----------------------------------------------------------------------------
(* The flags of devices.                                                   *)

(* setPersistent keeps every owner.                                        *)
LEMMA setPersistentOwners ==
    ASSUME TypeOK, Owners, NEW d, NEW b, setPersistent(d, b)
    PROVE  Owners'
  <1>1. UNCHANGED <<files, gFDCBs, gCommandClients, gOutputs>>
    BY DEF setPersistent, fdVars, outputVars
  <1>2. CASE d \in DOMAIN gInputs
    <2>1. gInputs' = [gInputs EXCEPT ![d].persistent = b] BY <1>2 DEF setPersistent
    <2>2. /\ DOMAIN gInputs' = DOMAIN gInputs
          /\ \A e \in DOMAIN gInputs : /\ gInputs'[e].fd = gInputs[e].fd
                                      /\ gInputs'[e].id = gInputs[e].id
      BY <2>1 DEF TypeOK, DeviceType, Table, Input
    <2>3. QED BY <1>1, <2>2, OwnersFlagged
  <1>3. CASE d \notin DOMAIN gInputs
    BY <1>1, <1>3, OwnersKept DEF setPersistent, ownVars
  <1>4. QED BY <1>2, <1>3

(* What grab does to the devices, at whichever of them it stops.           *)
Flagged(on) ==
    \E done :
      \/ gInputs' = [d \in DOMAIN gInputs |-> [gInputs[d] EXCEPT !.grabbed = on]]
      \/ gInputs' = [d \in DOMAIN gInputs |->
                        IF d \in done THEN [gInputs[d] EXCEPT !.grabbed = on]
                        ELSE gInputs[d]]

(* A step that changes flags of devices only keeps every owner.            *)
LEMMA FlaggedOwners ==
    ASSUME TypeOK, Owners, UNCHANGED <<files, gFDCBs, gCommandClients, gOutputs>>,
           NEW on, Flagged(on)
    PROVE  Owners'
  <1>1. \A d \in DOMAIN gInputs :
          /\ [gInputs[d] EXCEPT !.grabbed = on].fd = gInputs[d].fd
          /\ [gInputs[d] EXCEPT !.grabbed = on].id = gInputs[d].id
    BY DEF TypeOK, DeviceType, Table, Input
  <1>2. /\ DOMAIN gInputs' = DOMAIN gInputs
        /\ \A d \in DOMAIN gInputs : gInputs'[d].fd = gInputs[d].fd
                                    /\ gInputs'[d].id = gInputs[d].id
    BY <1>1 DEF Flagged
  <1>3. QED BY <1>2, OwnersFlagged

(* grabDevices keeps every owner.                                          *)
LEMMA grabDevicesOwners ==
    ASSUME TypeOK, Owners, NEW x, grabDevices(x)
    PROVE  Owners'
  <1>1. /\ grab(Selected(x, gGrab), Finish(fireEvent(Top.client, "grab-changed")))
        /\ UNCHANGED <<files, gFDCBs, gCommandClients, gOutputs>>
    BY DEF grabDevices, fdVars
  <1>2. Flagged(Selected(x, gGrab)) BY <1>1 DEF grab, Flagged
  <1>3. QED BY <1>1, <1>2, FlaggedOwners

(* grabBoth keeps every owner.                                             *)
LEMMA grabBothOwners ==
    ASSUME TypeOK, Owners, NEW x, grabBoth(x)
    PROVE  Owners'
  <1>1. /\ grab(Selected(x, gGrab), Finish(fireEvent(Top.client, "grab-changed")
                               \o Run(Top.client, "none", <<WriteEvents(x)>>)))
        /\ UNCHANGED <<files, gFDCBs, gCommandClients, gOutputs>>
    BY DEF grabBoth, fdVars
  <1>2. Flagged(Selected(x, gGrab)) BY <1>1 DEF grab, Flagged
  <1>3. QED BY <1>1, <1>2, FlaggedOwners

(* FinishLostOutput keeps every owner.                                     *)
LEMMA FinishLostOutputOwners ==
    ASSUME TypeOK, Owners, FinishLostOutput
    PROVE  Owners'
  <1>1. /\ IF HeldOnLoss
           THEN grab(FALSE, /\ stack' = fireEvent(None, "grab-changed") \o Tail(stack)
                            /\ UNCHANGED loopVars)
           ELSE UNCHANGED gInputs
        /\ UNCHANGED <<files, gFDCBs, gCommandClients, gOutputs>>
    BY DEF FinishLostOutput, fdVars
  <1>2. CASE HeldOnLoss
    <2>1. Flagged(FALSE) BY <1>1, <1>2 DEF grab, Flagged
    <2>2. QED BY <1>1, <2>1, FlaggedOwners
  <1>3. CASE ~HeldOnLoss BY <1>1, <1>3, OwnersKept DEF ownVars
  <1>4. QED BY <1>2, <1>3

-----------------------------------------------------------------------------
(* The steps that change no owner, and the invariant.                      *)

(* Device commands that change no owner.                                   *)
LEMMA OtherDeviceCommands ==
    ASSUME NEW d, \/ addDeviceFails(d) \/ addDeviceRefused(d) \/ removeDevice(d)
                  \/ renameDevice(d)
                  \/ \E k \in Keys : \/ removeHotkey(d, k)
                                    \/ \E t \in Texts : addHotkey(d, k, t)
    PROVE  UNCHANGED ownVars
  BY DEF addDeviceFails, addDeviceRefused, removeDevice, renameDevice, removeHotkey,
         addHotkey, ownVars, fdVars, deviceVars, outputVars

(* Output commands that change no owner.                                   *)
LEMMA OtherOutputCommands ==
    ASSUME NEW o, \/ removeOutput(o) \/ useOutput(o)
                  \/ \E resume \in BOOLEAN : addOutputFails(o, resume)
    PROVE  UNCHANGED ownVars
  BY DEF addOutputFails, removeOutput, useOutput, ownVars, fdVars, deviceVars, outputVars

(* Other commands change no owner.                                         *)
LEMMA OtherOtherCommands ==
    ASSUME \/ \E x \in States : writeEvents(x)
           \/ \E e \in Events : removeAction(e) \/ \E t \in Texts : setAction(e, t)
           \/ \E t \in Texts : sourceCommandFile(t)
           \/ quit \/ nop \/ unknownCommand \/ toClient \/ stackOverflow
    PROVE  UNCHANGED ownVars
  BY DEF writeEvents, removeAction, setAction, sourceCommandFile, quit, nop,
         unknownCommand, toClient, stackOverflow, ownVars, fdVars, deviceVars, outputVars

(* Callbacks of the poll loop that change no owner.                        *)
LEMMA OtherCallbacks ==
    ASSUME \/ closeDevice
           \/ \E fd \in Fds :
                \/ \E t \in ClientTexts : readCommand(fd, t)
                \/ disconnectClient(fd) \/ deviceLost(fd) \/ readFails(fd)
                \/ \E k \in Keys : \/ tryHotkey(fd, k) \/ forwardEvent(fd, k)
                                   \/ forwardFails(fd, k)
    PROVE  UNCHANGED ownVars
  BY DEF closeDevice, readCommand, disconnectClient, deviceLost, readFails, tryHotkey,
         forwardEvent, forwardFails, lostCurrentOutput, ownVars, fdVars, deviceVars,
         outputVars

(* Steps of the sweep that close nothing.                                  *)
LEMMA OtherRemovals ==
    ASSUME \/ removeUnknown \/ removeDangling
           \/ \E fd \in Fds : finishOutputRemoval(fd)
    PROVE  UNCHANGED ownVars
  BY DEF removeUnknown, removeDangling, finishOutputRemoval, lostCurrentOutput,
         ownVars, fdVars, deviceVars, outputVars

(* The loop itself changes no owner before it ends.                        *)
LEMMA OtherLoop ==
    ASSUME \/ started \/ processCommandQueue \/ processRemoveQueue \/ sweepDone
           \/ \E fd \in Fds : dispatch(fd)
           \/ dispatchDone \/ dispatchBreak \/ Wake \/ World
    PROVE  UNCHANGED ownVars
  BY DEF started, processCommandQueue, processRemoveQueue, sweepDone, dispatch,
         dispatchDone, dispatchBreak, Wake, poll, pollInterrupted, World, signull, unplug,
         ownVars, fdVars, deviceVars, outputVars

(* The dead stay dead.                                                     *)
LEMMA NoRevival ==
    ASSUME ~Alive, [Next]_vars
    PROVE  ~Alive'
  <1>1. CASE UNCHANGED vars BY <1>1 DEF vars, loopVars, Alive
  <1>2. CASE Next
    <2>1. ~DeviceCommand
      BY DEF DeviceCommand, addDevice, addDeviceFails, addDeviceRefused, removeDevice,
             renameDevice, setPersistent, removeHotkey, addHotkey, Executing, Pending,
             Running, Alive
    <2>2. ~OutputCommand
      BY DEF OutputCommand, addOutput, addOutputFails, removeOutput, useOutput,
             Executing, Pending, Running, Alive
    <2>3. ~OtherCommand
      BY DEF OtherCommand, writeEvents, grabDevices, grabBoth, removeAction, setAction,
             sourceCommandFile, quit, nop, unknownCommand, toClient, stackOverflow,
             Executing, Pending, Running, Alive
    <2>4. ~Callback
      <3>1. \A do, fd, kind : ~Pending(do) /\ ~Called(do, fd, kind)
        BY DEF Called, Pending, Running, Alive
      <3>. QED BY <3>1 DEF Callback, acceptClient, closeDevice, readCommand, disconnectClient,
                  deviceLost, readFails, tryHotkey, Reads, forwardEvent, forwardFails
    <2>5. ~Removal
      BY DEF Removal, finishClientRemoval, finishDeviceRemoval, finishOutputRemoval,
             eraseOutput, FinishLostOutput, removeUnknown, removeDangling, Removing,
             Pending, Running, Alive
    <2>6. ~Loop
      BY DEF Loop, started, processCommandQueue, processRemoveQueue, sweepDone, dispatch,
             dispatchDone, dispatchBreak, shutdown, Idle, Alive
    <2>7. ~Wake /\ ~World
      BY DEF Wake, poll, pollInterrupted, Idle, World, signull, unplug, Alive
    <2>8. Ended BY <1>2, <2>1, <2>2, <2>3, <2>4, <2>5, <2>6, <2>7 DEF Next, Step
    <2>9. QED BY <2>8 DEF Ended, vars, loopVars, Alive
  <1>3. QED BY <1>1, <1>2

(* The state before the startup files are read has one owner per descriptor. *)
LEMMA InitOwners == Init => OwnersAgree
  <1> SUFFICES ASSUME Init PROVE Owners
    BY DEF OwnersAgree, Owners
  <1>1. /\ DOMAIN files = {Server} /\ files[Server] = "server"
        /\ DOMAIN gFDCBs = {Server} /\ gFDCBs[Server].kind = "server"
    BY DEF Init, CallbacksOf
  <1>2. DOMAIN gInputs = {} /\ DOMAIN gOutputs = {} /\ gCommandClients = {}
    BY DEF Init, NoEntries
  <1>3. KindsAgree BY <1>1 DEF KindsAgree
  <1>4. ClientsOwn BY <1>1, <1>2 DEF ClientsOwn
  <1>5. OutputsOwn BY <1>1, <1>2 DEF OutputsOwn, OutputFds
  <1>6. DevicesOwn BY <1>1, <1>2 DEF DevicesOwn
  <1>7. QED BY <1>3, <1>4, <1>5, <1>6 DEF Owners

(* Every step keeps every owner: the inductive step of DescriptorsOwned.   *)
LEMMA StepOwners ==
    ASSUME TypeOK, OwnersAgree, [Next]_vars
    PROVE  OwnersAgree'
  <1> SUFFICES ASSUME Alive' PROVE Owners'
    BY DEF OwnersAgree, Owners
  <1>1. Alive BY NoRevival
  <1>2. Owners BY <1>1 DEF OwnersAgree, Owners
  <1>3. CASE DeviceCommand
    BY <1>2, <1>3, addDeviceOwners, setPersistentOwners, OtherDeviceCommands, OwnersKept
       DEF DeviceCommand
  <1>4. CASE OutputCommand
    BY <1>2, <1>4, addOutputOwners, OtherOutputCommands, OwnersKept DEF OutputCommand
  <1>5. CASE OtherCommand
    BY <1>2, <1>5, grabDevicesOwners, grabBothOwners, OtherOtherCommands, OwnersKept
       DEF OtherCommand
  <1>6. CASE Callback
    BY <1>2, <1>6, acceptClientOwners, OtherCallbacks, OwnersKept DEF Callback
  <1>7. CASE Removal
    BY <1>2, <1>7, finishClientRemovalOwners, finishDeviceRemovalOwners,
       eraseOutputOwners, FinishLostOutputOwners, OtherRemovals, OwnersKept DEF Removal
  <1>8. CASE shutdown BY <1>8 DEF shutdown, Alive
  <1>9. CASE (Loop /\ ~shutdown) \/ Wake \/ World
    BY <1>2, <1>9, OtherLoop, OwnersKept DEF Loop
  <1>10. CASE UNCHANGED vars
    BY <1>2, <1>10, OwnersKept DEF vars, ownVars, fdVars, deviceVars, outputVars
  <1>11. QED
    BY <1>3, <1>4, <1>5, <1>6, <1>7, <1>8, <1>9, <1>10 DEF Next, Step, Ended

(* Every open descriptor has exactly one owner and that owner's callbacks, *)
(* for any sets of devices, outputs, texts and any limits: the daemon      *)
(* neither leaks a descriptor nor closes one twice.                        *)
THEOREM DescriptorsOwned == Spec => []OwnersAgree
  <1>1. Init => TypeOK /\ OwnersAgree BY InitTypes, InitOwners
  <1>2. TypeOK /\ OwnersAgree /\ [Next]_vars => (TypeOK /\ OwnersAgree)'
    BY StepTypes, StepOwners
  <1>3. QED BY <1>1, <1>2, PTL DEF Spec

-----------------------------------------------------------------------------
(* Device ids.                                                             *)

(* The devices and their ids are those there were.                         *)
SameIds ==
    /\ DOMAIN gInputs' = DOMAIN gInputs
    /\ \A d \in DOMAIN gInputs : gInputs'[d].id = gInputs[d].id

(* With the same ids everything said of them stays true.                   *)
LEMMA SameIdsFacts ==
    ASSUME SameIds
    PROVE  /\ InputIds' = InputIds
           /\ UniqueIds' <=> UniqueIds
  BY DEF SameIds, InputIds, UniqueIds

(* The steps that change neither the devices nor what they are told by.    *)
LEMMA FlaggedIds ==
    ASSUME TypeOK, NEW on, Flagged(on)
    PROVE  SameIds
  <1>1. \A d \in DOMAIN gInputs : [gInputs[d] EXCEPT !.grabbed = on].id = gInputs[d].id
    BY DEF TypeOK, DeviceType, Table, Input
  <1>2. QED BY <1>1 DEF Flagged, SameIds

(* The steps that only change flags of devices keep their ids.             *)
LEMMA FlagIds ==
    ASSUME TypeOK,
           \/ \E d \in Devices, b \in BOOLEAN : setPersistent(d, b)
           \/ \E x \in States : grabDevices(x) \/ grabBoth(x)
           \/ FinishLostOutput
    PROVE  SameIds /\ UNCHANGED <<gInputIDFreeList, gHotkeys>>
  <1>1. CASE \E d \in Devices, b \in BOOLEAN : setPersistent(d, b)
    <2>1. PICK d \in Devices, b \in BOOLEAN : setPersistent(d, b) BY <1>1
    <2>2. CASE d \in DOMAIN gInputs
      <3>1. gInputs' = [gInputs EXCEPT ![d].persistent = b] BY <2>1, <2>2 DEF setPersistent
      <3>2. SameIds BY <3>1 DEF SameIds, TypeOK, DeviceType, Table, Input
      <3>3. QED BY <2>1, <3>2 DEF setPersistent, textVars
    <2>3. CASE d \notin DOMAIN gInputs
      BY <2>1, <2>3 DEF setPersistent, SameIds, textVars
    <2>4. QED BY <2>2, <2>3
  <1>2. ASSUME NEW x \in States, grabDevices(x)
        PROVE  SameIds /\ UNCHANGED <<gInputIDFreeList, gHotkeys>>
    <2>1. /\ grab(Selected(x, gGrab), Finish(fireEvent(Top.client, "grab-changed")))
          /\ UNCHANGED <<gInputIDFreeList, gHotkeys>>
      BY <1>2 DEF grabDevices, textVars
    <2>2. Flagged(Selected(x, gGrab)) BY <2>1 DEF grab, Flagged
    <2>3. QED BY <2>1, <2>2, FlaggedIds
  <1>3. ASSUME NEW x \in States, grabBoth(x)
        PROVE  SameIds /\ UNCHANGED <<gInputIDFreeList, gHotkeys>>
    <2>1. /\ grab(Selected(x, gGrab), Finish(fireEvent(Top.client, "grab-changed")
                               \o Run(Top.client, "none", <<WriteEvents(x)>>)))
          /\ UNCHANGED <<gInputIDFreeList, gHotkeys>>
      BY <1>3 DEF grabBoth, textVars
    <2>2. Flagged(Selected(x, gGrab)) BY <2>1 DEF grab, Flagged
    <2>3. QED BY <2>1, <2>2, FlaggedIds
  <1>4. CASE FinishLostOutput
    <2>1. /\ IF HeldOnLoss
             THEN grab(FALSE, /\ stack' = fireEvent(None, "grab-changed") \o Tail(stack)
                              /\ UNCHANGED loopVars)
             ELSE UNCHANGED gInputs
          /\ UNCHANGED <<gInputIDFreeList, gHotkeys>>
      BY <1>4 DEF FinishLostOutput, textVars
    <2>2. CASE HeldOnLoss
      <3>1. Flagged(FALSE) BY <2>1, <2>2 DEF grab, Flagged
      <3>2. QED BY <2>1, <3>1, FlaggedIds
    <2>3. CASE ~HeldOnLoss BY <2>1, <2>3 DEF SameIds
    <2>4. QED BY <2>2, <2>3
  <1>5. QED BY <1>1, <1>2, <1>3, <1>4

(* Every step adds a device, fails to, sets or drops a hotkey, removes a   *)
(* device, or leaves ids and hotkeys alone.                                *)
LEMMA StepsOnIds ==
    ASSUME TypeOK, [Next]_vars
    PROVE  \/ \E d \in Devices : addDevice(d) \/ addDeviceFails(d)
           \/ \E d \in Devices, k \in Keys :
                removeHotkey(d, k) \/ \E t \in Texts : addHotkey(d, k, t)
           \/ \E fd \in Fds : finishDeviceRemoval(fd)
           \/ SameIds /\ UNCHANGED <<gInputIDFreeList, gHotkeys>>
  <1>1. CASE DeviceCommand
    <2>1. ASSUME NEW d \in Devices,
                 addDeviceRefused(d) \/ removeDevice(d) \/ renameDevice(d)
          PROVE  SameIds /\ UNCHANGED <<gInputIDFreeList, gHotkeys>>
      BY <2>1 DEF addDeviceRefused, removeDevice, renameDevice, SameIds, deviceVars,
                  textVars
    <2>2. QED BY <1>1, <2>1, FlagIds DEF DeviceCommand
  <1>2. CASE OutputCommand
    BY <1>2 DEF OutputCommand, addOutput, addOutputFails, removeOutput, useOutput,
                SameIds, deviceVars, textVars
  <1>3. CASE OtherCommand
    <2>1. ASSUME \/ \E x \in States : writeEvents(x)
                 \/ \E e \in Events : removeAction(e) \/ \E t \in Texts : setAction(e, t)
                 \/ \E t \in Texts : sourceCommandFile(t)
                 \/ quit \/ nop \/ unknownCommand \/ toClient \/ stackOverflow
          PROVE  SameIds /\ UNCHANGED <<gInputIDFreeList, gHotkeys>>
      BY <2>1 DEF writeEvents, removeAction, setAction, sourceCommandFile, quit, nop,
           unknownCommand, toClient, stackOverflow, SameIds, deviceVars, textVars
    <2>2. QED BY <1>3, <2>1, FlagIds DEF OtherCommand
  <1>4. CASE Callback
    BY <1>4 DEF Callback, acceptClient, closeDevice, readCommand, disconnectClient,
                deviceLost, readFails, tryHotkey, forwardEvent, forwardFails, SameIds,
                deviceVars, textVars
  <1>5. CASE Removal
    <2>1. ASSUME \/ removeUnknown \/ removeDangling \/ eraseOutput
                 \/ \E fd \in Fds : finishClientRemoval(fd) \/ finishOutputRemoval(fd)
          PROVE  SameIds /\ UNCHANGED <<gInputIDFreeList, gHotkeys>>
      BY <2>1 DEF removeUnknown, removeDangling, eraseOutput, finishClientRemoval,
                  finishOutputRemoval, SameIds, deviceVars, textVars
    <2>2. QED BY <1>5, <2>1, FlagIds DEF Removal
  <1>6. CASE Loop
    BY <1>6 DEF Loop, started, processCommandQueue, processRemoveQueue, sweepDone,
                dispatch, dispatchDone, dispatchBreak, shutdown, SameIds, deviceVars,
                textVars
  <1>7. CASE Wake \/ World
    BY <1>7 DEF Wake, poll, pollInterrupted, World, signull, unplug, SameIds, deviceVars,
                textVars
  <1>8. CASE UNCHANGED vars BY <1>8 DEF vars, SameIds, deviceVars, textVars
  <1>9. QED BY <1>1, <1>2, <1>3, <1>4, <1>5, <1>6, <1>7, <1>8 DEF Next, Step, Ended

-----------------------------------------------------------------------------
(* Dense ids.                                                              *)

(* A list with one entry.                                                  *)
LEMMA AppendToNothing ==
    ASSUME NEW S, NEW x \in S
    PROVE  Append(<<>>, x) = <<x>>
  <1>1. <<>> \in Seq(S) OBVIOUS
  <1>2. /\ Len(Append(<<>>, x)) = 1 /\ Append(<<>>, x)[1] = x
        /\ Append(<<>>, x) \in Seq(S)
    BY <1>1, AppendProperties
  <1>3. <<x>> \in Seq(S) /\ Len(<<x>>) = 1 /\ <<x>>[1] = x OBVIOUS
  <1>4. QED BY <1>2, <1>3, SeqEqual

(* With dense ids the next one is the number of devices, spare or not.     *)
LEMMA NextIsCount ==
    ASSUME TypeOK, IdsDense
    PROVE  getNextInputID = Cardinality(DOMAIN gInputs) /\ FreeListAfter = <<>>
  <1>1. Cardinality(DOMAIN gInputs) \in Nat BY FinitelyManyInputs DEF TypeOK
  <1>2. CASE gInputIDFreeList = <<>>
    BY <1>2 DEF getNextInputID, FreeListAfter
  <1>3. CASE gInputIDFreeList = <<Cardinality(DOMAIN gInputs)>>
    <2>1. Len(gInputIDFreeList) = 1 /\ gInputIDFreeList # <<>> BY <1>3
    <2>2. gInputIDFreeList[1] = Cardinality(DOMAIN gInputs) BY <1>3
    <2>3. getNextInputID = Cardinality(DOMAIN gInputs)
      BY <2>1, <2>2 DEF getNextInputID
    <2>4. gInputIDFreeList \in Seq(Ids) BY DEF TypeOK, DeviceType
    <2>5. FreeListAfter = SubSeq(gInputIDFreeList, 1, 0) BY <2>1 DEF FreeListAfter
    <2>6. SubSeq(gInputIDFreeList, 1, 0) = <<>> BY <2>4
    <2>7. QED BY <2>3, <2>5, <2>6
  <1>4. QED BY <1>2, <1>3 DEF IdsDense

(* addDevice takes the next id, and the ids stay dense.                    *)
LEMMA addDeviceDense ==
    ASSUME TypeOK, IdsDense, NEW d \in Devices, addDevice(d)
    PROVE  IdsDense'
  <1> DEFINE count == Cardinality(DOMAIN gInputs)
  <1>1. PICK fd \in Fds : gInputs' = Put(gInputs, d, NewInput(getNextInputID, fd))
    BY DEF addDevice
  <1>2. d \notin DOMAIN gInputs /\ gInputIDFreeList' = FreeListAfter BY DEF addDevice
  <1>3. getNextInputID = count /\ FreeListAfter = <<>> BY NextIsCount
  <1>4. /\ DOMAIN gInputs' = DOMAIN gInputs \cup {d}
        /\ gInputs'[d].id = count
        /\ \A e \in DOMAIN gInputs : gInputs'[e].id = gInputs[e].id
    BY <1>1, <1>2, <1>3 DEF Put, NewInput
  <1>5. IsFiniteSet(DOMAIN gInputs)
    BY DaemonAssumption, FS_Subset DEF TypeOK, DeviceType, Table
  <1>6. count \in Nat /\ Cardinality(DOMAIN gInputs') = count + 1
    BY <1>2, <1>4, <1>5, FS_AddElement, FS_CardinalityType
  <1>7. InputIds = 0..(count - 1) /\ UniqueIds BY DEF IdsDense
  <1> HIDE DEF count
  <1>8. \A e \in DOMAIN gInputs : gInputs[e].id \in 0..(count - 1)
    BY <1>7 DEF InputIds
  <1>9. UniqueIds' BY <1>4, <1>6, <1>7, <1>8 DEF UniqueIds
  <1>10. InputIds' = InputIds \cup {count} BY <1>4 DEF InputIds
  <1>11. InputIds' = 0..((count + 1) - 1) BY <1>6, <1>7, <1>10
  <1>12. gInputIDFreeList' = <<>> BY <1>2, <1>3
  <1>13. QED BY <1>6, <1>9, <1>11, <1>12 DEF IdsDense

(* Ids stay unique and without a gap until a device is removed: however    *)
(* many additions fail, no two devices share an id (getNextInputID,        *)
(* freeInputID).                                                           *)
THEOREM IdsDenseUntilRemoval == Spec => IdsStayDense
  <1> DEFINE Grows == DOMAIN gInputs \subseteq DOMAIN gInputs'
  <1>1. ASSUME TypeOK, [Next]_vars, IdsDense, Grows
        PROVE  IdsDense'
    <2>1. ASSUME NEW d \in Devices, addDeviceFails(d)
          PROVE  IdsDense'
      <3>1. gInputIDFreeList' = freeInputID(getNextInputID) /\ UNCHANGED gInputs
        BY <2>1 DEF addDeviceFails
      <3>2. gInputIDFreeList' = Append(<<>>, Cardinality(DOMAIN gInputs))
        BY <1>1, <3>1, NextIsCount DEF freeInputID
      <3>3. gInputIDFreeList' = <<Cardinality(DOMAIN gInputs)>>
        BY <1>1, <3>2, FinitelyManyInputs, AppendToNothing DEF TypeOK
      <3>4. QED BY <1>1, <3>1, <3>3 DEF IdsDense, UniqueIds, InputIds
    <2>2. ASSUME NEW d \in Devices, NEW k \in Keys,
                 removeHotkey(d, k) \/ \E t \in Texts : addHotkey(d, k, t)
          PROVE  IdsDense'
      BY <1>1, <2>2 DEF removeHotkey, addHotkey, deviceVars, IdsDense, UniqueIds, InputIds
    <2>3. ASSUME NEW fd \in Fds, finishDeviceRemoval(fd)
          PROVE  FALSE
      <3> DEFINE d == gFDCBs[fd].dev
      <3>1. d \in DOMAIN gInputs /\ gInputs' = Without(gInputs, {d})
        BY <2>3 DEF finishDeviceRemoval, Removing, Found
      <3> HIDE DEF d
      <3>2. DOMAIN gInputs' = DOMAIN gInputs \ {d} BY <3>1, WithoutDomain
      <3>3. QED BY <1>1, <3>1, <3>2
    <2>4. CASE SameIds /\ UNCHANGED gInputIDFreeList
      <3>1. DOMAIN gInputs' = DOMAIN gInputs BY <2>4 DEF SameIds
      <3>2. QED BY <1>1, <2>4, <3>1, SameIdsFacts DEF IdsDense
    <2>5. QED BY <1>1, <2>1, <2>2, <2>3, <2>4, addDeviceDense, StepsOnIds
  <1>2. TypeOK /\ [Next]_vars => [IdsDense /\ Grows => IdsDense']_vars
    BY <1>1
  <1>3. QED BY <1>2, TypeCorrect, PTL DEF Spec, IdsStayDense

-----------------------------------------------------------------------------
(* Hotkeys.                                                                *)

(* Every step keeps the hotkeys those of devices there are.                *)
LEMMA HotkeysStayLive ==
    ASSUME TypeOK, HotkeysOfLiveDevices, [Next]_vars
    PROVE  HotkeysOfLiveDevices'
  <1>1. ASSUME NEW d \in Devices, addDevice(d) \/ addDeviceFails(d)
        PROVE  HotkeysOfLiveDevices'
    <2>1. UNCHANGED gHotkeys BY <1>1 DEF addDevice, addDeviceFails, textVars
    <2>2. InputIds \subseteq InputIds'
      <3>1. CASE addDeviceFails(d) BY <3>1 DEF addDeviceFails, InputIds
      <3>2. CASE addDevice(d)
        <4>1. /\ DOMAIN gInputs \subseteq DOMAIN gInputs'
              /\ \A e \in DOMAIN gInputs : gInputs'[e] = gInputs[e]
          BY <3>2 DEF addDevice, Put
        <4>2. QED BY <4>1 DEF InputIds
      <3>3. QED BY <1>1, <3>1, <3>2
    <2>3. QED BY <2>1, <2>2 DEF HotkeysOfLiveDevices
  <1>2. ASSUME NEW d \in Devices, NEW k \in Keys, removeHotkey(d, k)
        PROVE  HotkeysOfLiveDevices'
    <2>1. UNCHANGED gInputs BY <1>2 DEF removeHotkey, deviceVars
    <2>2. PICK S : gHotkeys' = Without(gHotkeys, S) \/ gHotkeys' = gHotkeys
      BY <1>2 DEF removeHotkey
    <2>3. DOMAIN gHotkeys' \subseteq DOMAIN gHotkeys
      <3>1. CASE gHotkeys' = gHotkeys BY <3>1
      <3>2. CASE gHotkeys' = Without(gHotkeys, S)
        <4>1. DOMAIN gHotkeys' = DOMAIN gHotkeys \ S BY <3>2, WithoutDomain
        <4>2. QED BY <4>1
      <3>3. QED BY <2>2, <3>1, <3>2
    <2>4. QED BY <2>1, <2>3 DEF HotkeysOfLiveDevices, InputIds
  <1>3. ASSUME NEW d \in Devices, NEW k \in Keys, NEW t \in Texts, addHotkey(d, k, t)
        PROVE  HotkeysOfLiveDevices'
    <2>1. UNCHANGED gInputs BY <1>3 DEF addHotkey, deviceVars
    <2>2. CASE d \in DOMAIN gInputs
      <3>1. DOMAIN gHotkeys' = DOMAIN gHotkeys \cup {<<gInputs[d].id, k>>}
        BY <1>3, <2>2, PutDomain DEF addHotkey
      <3>2. gInputs[d].id \in InputIds BY <2>2 DEF InputIds
      <3>3. QED BY <2>1, <3>1, <3>2 DEF HotkeysOfLiveDevices, InputIds
    <2>3. CASE d \notin DOMAIN gInputs
      BY <1>3, <2>1, <2>3 DEF addHotkey, HotkeysOfLiveDevices, InputIds
    <2>4. QED BY <2>2, <2>3
  <1>4. ASSUME NEW fd \in Fds, finishDeviceRemoval(fd)
        PROVE  HotkeysOfLiveDevices'
    <2> DEFINE d  == gFDCBs[fd].dev
               id == gInputs[d].id
    <2>1. /\ gInputs' = Without(gInputs, {d})
          /\ gHotkeys' = Without(gHotkeys, {h \in DOMAIN gHotkeys : h[1] = id})
      BY <1>4 DEF finishDeviceRemoval, cleanupDeviceHotkeys
    <2>2. /\ DOMAIN gInputs' = DOMAIN gInputs \ {d}
          /\ \A e \in DOMAIN gInputs \ {d} : gInputs'[e] = gInputs[e]
      BY <2>1 DEF Without, Restrict
    <2>3. DOMAIN gHotkeys' = {h \in DOMAIN gHotkeys : h[1] # id}
      BY <2>1 DEF Without, Restrict
    <2>4. \A i \in InputIds \ {id} : i \in InputIds'
      BY <2>2 DEF InputIds
    <2> HIDE DEF id
    <2>5. QED BY <2>3, <2>4 DEF HotkeysOfLiveDevices
  <1>5. CASE SameIds /\ UNCHANGED gHotkeys
    BY <1>5, SameIdsFacts DEF HotkeysOfLiveDevices
  <1>6. QED BY <1>1, <1>2, <1>3, <1>4, <1>5, StepsOnIds

(* A hotkey is removed with the device it was added for, in whatever order *)
(* devices and hotkeys come and go, so no later device that gets the id    *)
(* inherits it (cleanupDeviceHotkeys).                                     *)
THEOREM HotkeysLeaveWithDevice == Spec => []HotkeysOfLiveDevices
  <1>1. Init => HotkeysOfLiveDevices
    BY DEF Init, NoEntries, HotkeysOfLiveDevices
  <1>2. TypeOK /\ HotkeysOfLiveDevices /\ [Next]_vars => HotkeysOfLiveDevices'
    BY HotkeysStayLive
  <1>3. QED BY <1>1, <1>2, TypeCorrect, PTL DEF Spec

-----------------------------------------------------------------------------
(* Readers of the outputs.                                                 *)

(* Every step writes to outputs, adds or removes one, or leaves them and   *)
(* what their readers know alone.                                          *)
LEMMA StepsOnReaders ==
    ASSUME [Next]_vars
    PROVE  \/ \E d \in Devices : addDevice(d)
           \/ \E o \in Outputs, resume \in BOOLEAN : addOutput(o, resume)
           \/ \E fd \in Fds, k \in Keys : forwardEvent(fd, k) \/ forwardFails(fd, k)
           \/ \E fd \in Fds : finishDeviceRemoval(fd)
           \/ eraseOutput
           \/ UNCHANGED <<readerVars, gOutputs>>
  <1>1. CASE DeviceCommand
    BY <1>1 DEF DeviceCommand, addDeviceFails, addDeviceRefused, removeDevice, renameDevice,
       setPersistent, removeHotkey, addHotkey, outputVars
  <1>2. CASE OutputCommand
    BY <1>2 DEF OutputCommand, addOutputFails, removeOutput, useOutput, outputVars
  <1>3. CASE OtherCommand
    BY <1>3 DEF OtherCommand, writeEvents, grabDevices, grabBoth, removeAction, setAction,
       sourceCommandFile, quit, nop, unknownCommand, toClient, stackOverflow, outputVars
  <1>4. CASE Callback
    BY <1>4 DEF Callback, acceptClient, closeDevice, readCommand, disconnectClient,
       deviceLost, readFails, tryHotkey, outputVars
  <1>5. CASE Removal
    BY <1>5 DEF Removal, finishClientRemoval, finishOutputRemoval, FinishLostOutput,
       removeUnknown, removeDangling, lostCurrentOutput, outputVars
  <1>6. CASE Loop
    BY <1>6 DEF Loop, started, processCommandQueue, processRemoveQueue, sweepDone, dispatch,
       dispatchDone, dispatchBreak, shutdown, outputVars
  <1>7. CASE Wake \/ World \/ UNCHANGED vars
    BY <1>7 DEF Wake, World, poll, pollInterrupted, signull, unplug, vars, outputVars
  <1>. QED BY <1>1, <1>2, <1>3, <1>4, <1>5, <1>6, <1>7 DEF Next, Step, Ended

(* There is something known of the reader of every output.                 *)
ReadersTold == DOMAIN told = OutputFds

(* A new output has a reader.                                              *)
LEMMA NewOutputs ==
    ASSUME TypeOK, NEW o \in Outputs, NEW resume \in BOOLEAN, addOutput(o, resume)
    PROVE  \E fd \in Fds, fails \in BOOLEAN :
             /\ OutputFds' = OutputFds \cup {fd}
             /\ told' = Put(told, fd, IF fails THEN {} ELSE InputIds)
             /\ torn' = IF fails THEN torn \cup {fd} ELSE torn
             /\ UniqueIds => protocolErrors' = protocolErrors
             /\ UNCHANGED gInputs
  <1>1. PICK fd \in Fds, fails \in BOOLEAN :
          /\ IF fails THEN torn' = torn \cup {fd} ELSE UNCHANGED torn
          /\ told' = Put(told, fd, IF fails THEN {} ELSE InputIds)
          /\ Complains("duplicate device", ~fails /\ ~resume /\ ~UniqueIds)
          /\ gOutputs' = Put(gOutputs, o, fd)
    BY DEF addOutput
  <1>2. o \notin DOMAIN gOutputs /\ UNCHANGED gInputs
    BY DEF addOutput, deviceVars
  <1>3. /\ DOMAIN gOutputs' = DOMAIN gOutputs \cup {o}
        /\ gOutputs'[o] = fd
        /\ \A p \in DOMAIN gOutputs : gOutputs'[p] = gOutputs[p]
    BY <1>1, <1>2 DEF Put
  <1>4. OutputFds' = OutputFds \cup {fd}
    BY <1>3 DEF OutputFds
  <1>5. UniqueIds => protocolErrors' = protocolErrors
    BY <1>1 DEF Complains
  <1>. QED BY <1>1, <1>2, <1>4, <1>5

(* An output that is dropped has none.                                     *)
LEMMA ErasedOutputs ==
    ASSUME TypeOK, eraseOutput
    PROVE  \/ UNCHANGED <<gOutputs, told, torn, protocolErrors, gInputs>>
           \/ \E fd \in OutputFds :
                /\ OutputFds' = OutputFds \ {fd}
                /\ told' = Without(told, {fd})
                /\ torn' = torn \ {fd}
                /\ UNCHANGED <<protocolErrors, gInputs>>
  <1>1. PICK fd : fd = Top.fd OBVIOUS
  <1>2. CASE fd \in OutputFds
    <2>1. /\ gOutputs' = Without(gOutputs, {o \in DOMAIN gOutputs : gOutputs[o] = fd})
          /\ told' = Without(told, {fd})
          /\ torn' = torn \ {fd}
          /\ UNCHANGED <<protocolErrors, gInputs>>
      BY <1>1, <1>2 DEF eraseOutput, deviceVars
    <2>2. /\ DOMAIN gOutputs' = {o \in DOMAIN gOutputs : gOutputs[o] # fd}
          /\ \A o \in DOMAIN gOutputs' : gOutputs'[o] = gOutputs[o]
      BY <2>1 DEF Without, Restrict
    <2>3. OutputFds' = OutputFds \ {fd}
      BY <2>2 DEF OutputFds
    <2>. QED BY <1>2, <2>1, <2>3
  <1>3. CASE fd \notin OutputFds
    BY <1>1, <1>3 DEF eraseOutput, deviceVars
  <1>. QED BY <1>2, <1>3

(* Readers come and go with their outputs.                                 *)
LEMMA ReadersStayTold ==
    ASSUME TypeOK, ReadersTold, [Next]_vars
    PROVE  ReadersTold'
  <1>1. ASSUME NEW d \in Devices, addDevice(d)
        PROVE  ReadersTold'
    BY <1>1 DEF addDevice, announceDevice, ReadersTold, OutputFds, outputVars
  <1>2. ASSUME NEW o \in Outputs, NEW resume \in BOOLEAN, addOutput(o, resume)
        PROVE  ReadersTold'
    <2>1. PICK fd, known : OutputFds' = OutputFds \cup {fd} /\ told' = Put(told, fd, known)
      BY <1>2, NewOutputs
    <2>2. DOMAIN told' = DOMAIN told \cup {fd}
      BY <2>1, PutDomain
    <2>. QED BY <2>1, <2>2 DEF ReadersTold
  <1>3. ASSUME NEW fd \in Fds, NEW k \in Keys, forwardEvent(fd, k) \/ forwardFails(fd, k)
        PROVE  ReadersTold'
    BY <1>3 DEF forwardEvent, forwardFails, lostCurrentOutput, ReadersTold, OutputFds, outputVars
  <1>4. ASSUME NEW fd \in Fds, finishDeviceRemoval(fd)
        PROVE  ReadersTold'
    <2>1. DOMAIN told' = DOMAIN told /\ UNCHANGED gOutputs
      BY <1>4 DEF finishDeviceRemoval, announceDeviceRemoval, readerVars, outputVars
    <2>. QED BY <2>1 DEF ReadersTold, OutputFds
  <1>5. CASE eraseOutput
    <2>1. CASE UNCHANGED <<gOutputs, told>>
      BY <2>1 DEF ReadersTold, OutputFds
    <2>2. ASSUME NEW fd \in OutputFds, OutputFds' = OutputFds \ {fd}, told' = Without(told, {fd})
          PROVE  ReadersTold'
      <3>1. DOMAIN told' = DOMAIN told \ {fd} BY <2>2, WithoutDomain
      <3>. QED BY <2>2, <3>1 DEF ReadersTold
    <2>. QED BY <1>5, <2>1, <2>2, ErasedOutputs
  <1>6. CASE UNCHANGED <<readerVars, gOutputs>>
    BY <1>6 DEF ReadersTold, OutputFds, readerVars
  <1>. QED BY <1>1, <1>2, <1>3, <1>4, <1>5, <1>6, StepsOnReaders

(* What a step in step is.                                                 *)
StaysInStep ==
    /\ protocolErrors' = protocolErrors
    /\ \/ ReadersInStep'
       \/ \E d \in DOMAIN gInputs \ DOMAIN gInputs' : gInputs[d].persistent

(* A new device is told to readers that do not know its id.                *)
LEMMA addDeviceInStep ==
    ASSUME TypeOK, ReadersTold, ReadersInStep, UniqueIds', NEW d \in Devices, addDevice(d)
    PROVE  StaysInStep
  <1>1. PICK id, fd, failed : /\ announceDevice(id, failed)
                              /\ gInputs' = Put(gInputs, d, NewInput(id, fd))
    BY DEF addDevice
  <1>2. d \notin DOMAIN gInputs /\ UNCHANGED gOutputs
    BY DEF addDevice, outputVars
  <1>3. /\ DOMAIN gInputs' = DOMAIN gInputs \cup {d}
        /\ gInputs'[d].id = id
        /\ \A e \in DOMAIN gInputs : gInputs'[e].id = gInputs[e].id
    BY <1>1, <1>2 DEF Put, NewInput
  <1>4. InputIds' = InputIds \cup {id}
    BY <1>3 DEF InputIds
  <1>5. id \notin InputIds
    BY <1>2, <1>3 DEF UniqueIds, InputIds
  <1>6. UNCHANGED OutputFds
    BY <1>2 DEF OutputFds
  <1>7. \A f \in Listening(failed) : f \in DOMAIN told /\ told[f] = InputIds
    BY DEF Listening, ReadersTold, ReadersInStep
  <1>8. protocolErrors' = protocolErrors
    BY <1>1, <1>5, <1>7 DEF announceDevice, Complains
  <1>9. \A f \in Listening(failed) : told'[f] = told[f] \cup {id}
    BY <1>1, <1>7 DEF announceDevice, Listening
  <1>10. Listening({})' = Listening(failed)
    BY <1>1, <1>6 DEF announceDevice, Listening
  <1>. QED BY <1>4, <1>7, <1>8, <1>9, <1>10 DEF StaysInStep, ReadersInStep

(* A new output is told of the devices there are.                          *)
LEMMA addOutputInStep ==
    ASSUME TypeOK, ReadersTold, ReadersInStep, UniqueIds,
           NEW o \in Outputs, NEW resume \in BOOLEAN, addOutput(o, resume)
    PROVE  StaysInStep
  <1>1. PICK fd \in Fds, fails \in BOOLEAN :
          /\ OutputFds' = OutputFds \cup {fd}
          /\ told' = Put(told, fd, IF fails THEN {} ELSE InputIds)
          /\ torn' = IF fails THEN torn \cup {fd} ELSE torn
          /\ UniqueIds => protocolErrors' = protocolErrors
          /\ UNCHANGED gInputs
    BY NewOutputs
  <1>2. UNCHANGED InputIds
    BY <1>1 DEF InputIds
  <1>3. \A f \in Listening({}) : f \in DOMAIN told /\ told[f] = InputIds
    BY DEF Listening, ReadersTold, ReadersInStep
  <1>4. ASSUME NEW f \in Listening({})' PROVE told'[f] = InputIds
    BY <1>1, <1>3, <1>4 DEF Listening, Put
  <1>. QED BY <1>1, <1>2, <1>4 DEF StaysInStep, ReadersInStep

(* The removal of a device is told to readers that know its id, unless the *)
(* device is persistent.                                                   *)
LEMMA finishDeviceRemovalInStep ==
    ASSUME TypeOK, ReadersTold, ReadersInStep, UniqueIds, NEW fd \in Fds, finishDeviceRemoval(fd)
    PROVE  StaysInStep
  <1>1. PICK d, id : d = gFDCBs[fd].dev /\ id = gInputs[d].id
    OBVIOUS
  <1>2. d \in DOMAIN gInputs /\ gInputs' = Without(gInputs, {d}) /\ UNCHANGED gOutputs
    BY <1>1 DEF finishDeviceRemoval, Removing, Found, outputVars
  <1>3. /\ DOMAIN gInputs' = DOMAIN gInputs \ {d}
        /\ \A e \in DOMAIN gInputs \ {d} : gInputs'[e] = gInputs[e]
    BY <1>2 DEF Without, Restrict
  <1>4. InputIds' = InputIds \ {id} /\ id \in InputIds
    BY <1>1, <1>2, <1>3 DEF InputIds, UniqueIds
  <1>5. UNCHANGED OutputFds
    BY <1>2 DEF OutputFds
  <1>6. CASE gInputs[d].persistent
    <2>1. UNCHANGED protocolErrors
      BY <1>1, <1>6 DEF finishDeviceRemoval, RemovalAnnounced, readerVars
    <2>. QED BY <1>2, <1>3, <1>6, <2>1 DEF StaysInStep
  <1>7. CASE ~gInputs[d].persistent
    <2>1. PICK failed : announceDeviceRemoval(id, failed)
      BY <1>1, <1>7 DEF finishDeviceRemoval, RemovalAnnounced
    <2>2. \A f \in Listening(failed) : f \in DOMAIN told /\ told[f] = InputIds
      BY DEF Listening, ReadersTold, ReadersInStep
    <2>3. protocolErrors' = protocolErrors
      BY <1>4, <2>1, <2>2 DEF announceDeviceRemoval, Complains
    <2>4. \A f \in Listening(failed) : told'[f] = told[f] \ {id}
      BY <2>1, <2>2 DEF announceDeviceRemoval, Listening
    <2>5. Listening({})' = Listening(failed)
      BY <1>5, <2>1 DEF announceDeviceRemoval, Listening
    <2>. QED BY <1>4, <2>2, <2>3, <2>4, <2>5 DEF StaysInStep, ReadersInStep
  <1>. QED BY <1>6, <1>7

(* An event is written with the id of a device there is.                   *)
LEMMA ForwardsInStep ==
    ASSUME TypeOK, OwnersAgree, ReadersTold, ReadersInStep, NEW fd \in Fds, NEW k \in Keys,
           forwardEvent(fd, k) \/ forwardFails(fd, k)
    PROVE  StaysInStep
  <1>1. UNCHANGED <<gInputs, gOutputs, told>> /\ torn \subseteq torn'
    BY DEF forwardEvent, forwardFails, lostCurrentOutput, deviceVars, outputVars
  <1>2. ReadersInStep'
    BY <1>1 DEF ReadersInStep, Listening, OutputFds, InputIds
  <1>3. Alive /\ fd \in DOMAIN gFDCBs /\ gFDCBs[fd].kind = "device"
    BY DEF forwardEvent, forwardFails, Reads, Called, Pending, Running, Alive
  <1>4. gFDCBs[fd].id \in InputIds
    BY <1>3 DEF OwnersAgree, KindsAgree, DevicesOwn, InputIds
  <1>5. gCurrentOutput.fd \in Listening({}) => told[gCurrentOutput.fd] = InputIds
    BY DEF ReadersInStep
  <1>6. protocolErrors' = protocolErrors
    BY <1>4, <1>5 DEF forwardEvent, forwardFails, Complains
  <1>. QED BY <1>2, <1>6 DEF StaysInStep

(* The readers that are left know what they knew.                          *)
LEMMA eraseOutputInStep ==
    ASSUME TypeOK, ReadersTold, ReadersInStep, eraseOutput
    PROVE  StaysInStep
  <1>1. CASE UNCHANGED <<gOutputs, told, torn, protocolErrors, gInputs>>
    BY <1>1 DEF StaysInStep, ReadersInStep, Listening, OutputFds, InputIds
  <1>2. ASSUME NEW fd \in OutputFds, OutputFds' = OutputFds \ {fd}, told' = Without(told, {fd}),
               torn' = torn \ {fd}, UNCHANGED <<protocolErrors, gInputs>>
        PROVE  StaysInStep
    <2>1. \A f \in DOMAIN told \ {fd} : told'[f] = told[f]
      BY <1>2 DEF Without, Restrict
    <2>2. UNCHANGED InputIds
      BY <1>2 DEF InputIds
    <2>3. \A f \in Listening({})' : f \in Listening({}) /\ f \in DOMAIN told \ {fd}
      BY <1>2 DEF Listening, ReadersTold
    <2>. QED BY <1>2, <2>1, <2>2, <2>3 DEF StaysInStep, ReadersInStep
  <1>. QED BY <1>1, <1>2, ErasedOutputs

(* As long as ids are unique the readers of the outputs stay in step with  *)
(* the devices, through additions, removals and outputs that come, go and  *)
(* break; only the removal of a persistent device is kept from them        *)
(* (announceDevice, announceDeviceRemoval, addOutput_Finish).              *)
THEOREM ReadersKeptInStep == Spec => ReadersStayInStep
  <1>1. Init => ReadersTold
    BY DEF Init, NoEntries, ReadersTold, OutputFds
  <1>2. TypeOK /\ ReadersTold /\ [Next]_vars => ReadersTold'
    BY ReadersStayTold
  <1>3. ASSUME TypeOK, OwnersAgree, ReadersTold, [Next]_vars, UniqueIds, UniqueIds', ReadersInStep
        PROVE  StaysInStep
    <2>1. CASE UNCHANGED <<readerVars, gOutputs>> /\ \A fd \in Fds : ~finishDeviceRemoval(fd)
      <3>1. ASSUME NEW d \in Devices, addDeviceFails(d) PROVE UNCHANGED InputIds
        BY <3>1 DEF addDeviceFails, InputIds
      <3>2. ASSUME NEW d \in Devices, NEW k \in Keys,
                   removeHotkey(d, k) \/ \E t \in Texts : addHotkey(d, k, t)
            PROVE  UNCHANGED InputIds
        BY <3>2 DEF removeHotkey, addHotkey, deviceVars, InputIds
      <3>3. UNCHANGED InputIds \/ \E d \in Devices : addDevice(d)
        BY <1>3, <2>1, <3>1, <3>2, StepsOnIds, SameIdsFacts
      <3>4. CASE UNCHANGED InputIds
        BY <1>3, <2>1, <3>4 DEF StaysInStep, ReadersInStep, Listening, OutputFds, readerVars
      <3>. QED BY <1>3, <3>3, <3>4, addDeviceInStep
    <2>. QED BY <1>3, <2>1, addDeviceInStep, addOutputInStep, finishDeviceRemovalInStep,
                ForwardsInStep, eraseOutputInStep, StepsOnReaders
  <1>4. TypeOK /\ OwnersAgree /\ ReadersTold /\ [Next]_vars
          => [(UniqueIds /\ UniqueIds' /\ ReadersInStep) =>
                /\ protocolErrors' = protocolErrors
                /\ \/ ReadersInStep'
                   \/ \E d \in DOMAIN gInputs \ DOMAIN gInputs' : gInputs[d].persistent]_vars
    BY <1>3 DEF StaysInStep
  <1>. QED BY <1>1, <1>2, <1>4, TypeCorrect, DescriptorsOwned, PTL DEF Spec, ReadersStayInStep

-----------------------------------------------------------------------------
(* What steps do to the stack.                                             *)

(* What a command or callback run for client c leaves above what was below *)
(* it.                                                                     *)
Nested(c) == {w \in WorkItem : /\ w.do \in {"run", "reply"} /\ w.client \in {c, None}
                               /\ w.do = "reply" => w.client # None}

(* The same work, perhaps with rubbish for the rest of its text.           *)
SameTask(w, v) == w.do = v.do /\ w.client = v.client /\ w.fd = v.fd
SameTasks(s, t) == Len(s) = Len(t) /\ \A i \in 1..Len(t) : SameTask(s[i], t[i])

(* The top of the stack is done, up to what is nested in it.               *)
Carries ==
    \E new \in Seq(Nested(Top.client)), old \in Seq(WorkItem) :
        SameTasks(old, Tail(stack)) /\ stack' = new \o old

(* An exception was reported.                                              *)
Reports == pc = "commands" /\ stack' \in Seq(Nested(Top.client))

(* A one-element sequence.                                                 *)
LEMMA OneItem ==
    ASSUME NEW S, NEW w \in S
    PROVE  <<w>> \in Seq(S)
  OBVIOUS

(* Nested work is work.                                                    *)
LEMMA NestedItems ==
    ASSUME NEW c
    PROVE  \A s \in Seq(Nested(c)) : s \in Seq(WorkItem)
  <1>. TAKE s \in Seq(Nested(c))
  <1>1. \A w \in Nested(c) : w \in WorkItem BY DEF Nested
  <1>2. \A i \in 1..Len(s) : s[i] \in WorkItem BY <1>1, ElementOfSeq
  <1>3. s \in [1..Len(s) -> WorkItem] /\ Len(s) \in Nat BY <1>2, LenProperties
  <1>. QED BY <1>3, IsASeq

(* What Run pushes.                                                        *)
LEMMA RunNested ==
    ASSUME NEW c \in Clients, NEW client \in {c, None}, NEW e \in Events \cup {"none"},
           NEW commands \in Seq(Command)
    PROVE  Run(client, e, commands) \in Seq(Nested(c))
  <1>1. None \in Clients BY DEF Clients
  <1>2. Work("run", client, None, e, commands) \in Nested(c)
    BY <1>1 DEF Work, WorkItem, Works, Nested
  <1>. QED BY <1>2, OneItem, EmptySeq DEF Run

(* What a reply pushes.                                                    *)
LEMMA ReplyNested ==
    ASSUME NEW c \in Clients
    PROVE  ReplyTo(c) \in Seq(Nested(c))
  <1>1. None \in Clients BY DEF Clients
  <1>2. c # None => Work("reply", c, None, "none", <<>>) \in Nested(c)
    BY <1>1 DEF Work, WorkItem, Works, Nested
  <1>. QED BY <1>2, OneItem, EmptySeq DEF ReplyTo

(* What an event pushes.                                                   *)
LEMMA FireNested ==
    ASSUME TextType, NEW c \in Clients, NEW client \in {c, None}, NEW e \in Events
    PROVE  fireEvent(client, e) \in Seq(Nested(c))
  <1>1. CASE e \in DOMAIN gEventCommands
    <2>1. gEventCommands[e] \in Texts BY <1>1 DEF TextType, Table
    <2>2. Text[gEventCommands[e]] \in Seq(Command) BY <2>1, TextAssumption
    <2>3. QED BY <1>1, <2>2, RunNested DEF fireEvent
  <1>2. CASE e \notin DOMAIN gEventCommands
    BY <1>2, EmptySeq DEF fireEvent
  <1>3. QED BY <1>1, <1>2

(* A stack is the same work as itself.                                     *)
LEMMA SameItself == \A s : SameTasks(s, s)
  BY DEF SameTasks, SameTask

(* The top of the stack is done.                                           *)
LEMMA PopCarries ==
    ASSUME StackType, stack # <<>>, stack' = Tail(stack)
    PROVE  Carries
  <1>1. PICK old : old = Tail(stack) OBVIOUS
  <1>2. old \in Seq(WorkItem)
    BY <1>1, TopType
  <1>3. <<>> \o old = old /\ <<>> \in Seq(Nested(Top.client))
    BY <1>2, ConcatEmptySeq, EmptySeq
  <1>. QED BY <1>1, <1>2, <1>3, SameItself DEF Carries

(* Work above the rest of a line.                                          *)
LEMMA CarriesAfter ==
    ASSUME StackType, NEW cmd, Executing(cmd), NEW new \in Seq(Nested(Top.client)),
           stack' = new \o AfterCommand
    PROVE  Carries
  <1>1. Top \in WorkItem /\ Tail(stack) \in Seq(WorkItem)
    BY TopType DEF Executing, Pending
  <1>2. /\ Top.client \in Clients /\ Top.from \in Events \cup {"none"}
        /\ Top.rest \in Seq(Command) /\ Top.rest # <<>>
    BY <1>1 DEF WorkItem, Executing
  <1>3. Tail(Top.rest) \in Seq(Command) BY <1>2, HeadTailProperties
  <1>4. Run(Top.client, Top.from, Tail(Top.rest)) \in Seq(Nested(Top.client))
    BY <1>2, <1>3, RunNested
  <1>5. PICK rest : rest = Run(Top.client, Top.from, Tail(Top.rest)) OBVIOUS
  <1>6. PICK old : old = Tail(stack) OBVIOUS
  <1>7. PICK c : c = Top.client OBVIOUS
  <1>8. new \in Seq(Nested(c)) /\ rest \in Seq(Nested(c)) /\ old \in Seq(WorkItem)
    BY <1>1, <1>4, <1>5, <1>6, <1>7
  <1>9. new \in Seq(WorkItem) /\ rest \in Seq(WorkItem) /\ old \in Seq(WorkItem)
    BY <1>8, NestedItems
  <1>10. new \o (rest \o old) = (new \o rest) \o old
    BY <1>9, ConcatAssociative
  <1>11. new \o rest \in Seq(Nested(c))
    BY <1>8, ConcatProperties
  <1>12. stack' = (new \o rest) \o old
    BY <1>5, <1>6, <1>10 DEF AfterCommand
  <1>. QED BY <1>1, <1>6, <1>7, <1>11, <1>12, SameItself DEF Carries

(* A command that returns.                                                 *)
LEMMA FinishCarries ==
    ASSUME StackType, NEW cmd, Executing(cmd), NEW nested \in Seq(Nested(Top.client)),
           stack' = nested \o ReplyTo(Top.client) \o AfterCommand
    PROVE  Carries
  <1>1. Top \in WorkItem /\ AfterCommand \in Seq(WorkItem) /\ Top.client \in Clients
    BY AfterType DEF WorkItem
  <1>2. PICK c : c = Top.client OBVIOUS
  <1>3. PICK reply : reply = ReplyTo(Top.client) OBVIOUS
  <1>4. reply \in Seq(Nested(c)) /\ nested \in Seq(Nested(c))
    BY <1>1, <1>2, <1>3, ReplyNested
  <1>5. nested \o reply \in Seq(Nested(c))
    BY <1>4, ConcatProperties
  <1>6. stack' = (nested \o reply) \o AfterCommand
    BY <1>3
  <1>. QED BY <1>2, <1>5, <1>6, CarriesAfter

(* A command that frees its text.                                          *)
LEMMA DamagingCarries ==
    ASSUME StackType, NEW cmd, Executing(cmd), NEW e, FinishDamaging(e)
    PROVE  Carries
  <1>1. Top \in WorkItem /\ Tail(stack) \in Seq(WorkItem) /\ AfterCommand \in Seq(WorkItem)
    BY AfterType, TopType DEF Executing, Pending
  <1>2. PICK rubbish \in BOOLEAN :
          stack' = ReplyTo(Top.client) \o
               [i \in DOMAIN AfterCommand |->
                  IF rubbish /\ AfterCommand[i].from = e
                  THEN [AfterCommand[i] EXCEPT !.rest = <<Bad>>] ELSE AfterCommand[i]]
    BY DEF FinishDamaging
  <1>3. PICK after, c, below : after = AfterCommand /\ c = Top.client /\ below = Tail(stack)
    OBVIOUS
  <1>. DEFINE damaged == [i \in DOMAIN after |->
                  IF rubbish /\ after[i].from = e
                  THEN [after[i] EXCEPT !.rest = <<Bad>>] ELSE after[i]]
  <1>4. after \in Seq(WorkItem) /\ c \in Clients /\ stack' = ReplyTo(c) \o damaged
    BY <1>1, <1>2, <1>3 DEF WorkItem
  <1>5. damaged \in Seq(WorkItem) /\ SameTasks(damaged, after)
    <2>1. <<Bad>> \in Seq(Command)
      BY OneItem DEF Bad, Command
    <2>2. \A w \in WorkItem : /\ [w EXCEPT !.rest = <<Bad>>] \in WorkItem
                              /\ SameTask([w EXCEPT !.rest = <<Bad>>], w)
                              /\ SameTask(w, w)
      BY <2>1 DEF WorkItem, SameTask
    <2>3. DOMAIN after = 1..Len(after) /\ Len(after) \in Nat
      BY <1>4, LenProperties
    <2>4. \A i \in 1..Len(after) : damaged[i] \in WorkItem /\ SameTask(damaged[i], after[i])
      <3>. TAKE i \in 1..Len(after)
      <3>1. after[i] \in WorkItem
        BY <1>4, ElementOfSeq
      <3>. QED BY <2>2, <2>3, <3>1
    <2>5. damaged \in [1..Len(after) -> WorkItem]
      BY <2>3, <2>4
    <2>6. damaged \in Seq(WorkItem) /\ DOMAIN damaged = 1..Len(after)
      BY <2>3, <2>5, IsASeq
    <2>. HIDE DEF damaged
    <2>7. Len(damaged) = Len(after)
      BY <2>3, <2>6, LenProperties
    <2>. QED BY <2>4, <2>6, <2>7 DEF SameTasks
  <1>. HIDE DEF damaged
  <1>. PICK d : d = damaged
    OBVIOUS
  <1>6. ReplyTo(c) \in Seq(Nested(c))
    BY <1>4, ReplyNested
  <1>7. PICK rest : rest = Run(Top.client, Top.from, Tail(Top.rest))
    OBVIOUS
  <1>8. after = rest \o below
    BY <1>3, <1>7 DEF AfterCommand
  <1>9. CASE rest = <<>>
    <2>1. after = below
      BY <1>1, <1>3, <1>8, <1>9, ConcatEmptySeq
    <2>. QED BY <1>3, <1>4, <1>5, <1>6, <2>1 DEF Carries
  <1>10. CASE rest # <<>>
    <2>1. rest = <<Work("run", c, None, Top.from, Tail(Top.rest))>>
      BY <1>3, <1>7, <1>10 DEF Run
    <2>2. PICK w : rest = <<w>> /\ w.do = "run" /\ w.client = c
      BY <2>1 DEF Work
    <2>3. below \in Seq(WorkItem)
      BY <1>1, <1>3
    <2>4. /\ Len(after) = Len(below) + 1 /\ after[1] = w
          /\ \A i \in 1..Len(below) : after[i + 1] = below[i]
      BY <1>8, <2>2, <2>3
    <2>5. /\ d \in Seq(WorkItem) /\ Len(d) = Len(after)
          /\ \A i \in 1..Len(after) : SameTask(d[i], after[i])
      BY <1>5 DEF SameTasks
    <2>6. d # <<>> /\ Len(below) \in Nat
      BY <2>3, <2>4, <2>5
    <2>7. Head(d) \in WorkItem /\ Tail(d) \in Seq(WorkItem) /\ d = <<Head(d)>> \o Tail(d)
          /\ Len(Tail(d)) = Len(d) - 1 /\ \A i \in 1..Len(Tail(d)) : Tail(d)[i] = d[i + 1]
      BY <2>5, <2>6
    <2>8. d[1] = Head(d) /\ 1 \in 1..Len(after)
      BY <2>4, <2>5, <2>6
    <2>9. Head(d) \in Nested(c)
      BY <2>2, <2>4, <2>5, <2>7, <2>8 DEF SameTask, Nested
    <2>10. SameTasks(Tail(d), below)
      <3>. SUFFICES ASSUME NEW i \in 1..Len(below) PROVE SameTask(Tail(d)[i], below[i])
        BY <2>4, <2>5, <2>6, <2>7 DEF SameTasks
      <3>1. i + 1 \in 1..Len(after)
        BY <2>4, <2>6
      <3>2. SameTask(d[i + 1], after[i + 1])
        BY <2>5, <3>1
      <3>. QED BY <2>4, <2>5, <2>6, <2>7, <3>2
    <2>11. PICK reply : reply = ReplyTo(c)
      OBVIOUS
    <2>12. reply \in Seq(Nested(c)) /\ <<Head(d)>> \in Seq(Nested(c))
      BY <1>6, <2>9, <2>11, OneItem
    <2>13. reply \in Seq(WorkItem) /\ <<Head(d)>> \in Seq(WorkItem)
      BY <2>12, NestedItems
    <2>14. reply \o (<<Head(d)>> \o Tail(d)) = (reply \o <<Head(d)>>) \o Tail(d)
      BY <2>7, <2>13, ConcatAssociative
    <2>15. stack' = (reply \o <<Head(d)>>) \o Tail(d)
      BY <1>4, <2>7, <2>11, <2>14
    <2>16. reply \o <<Head(d)>> \in Seq(Nested(c))
      BY <2>12, ConcatProperties
    <2>. QED BY <1>3, <2>7, <2>10, <2>15, <2>16 DEF Carries
  <1>. QED BY <1>9, <1>10

(* How commands and replies end.                                           *)
Worked ==
    \/ pc' = "failed"
    \/ /\ UNCHANGED pc /\ Running /\ stack # <<>> /\ Top.do \in {"run", "reply"}
       /\ Carries \/ Reports

(* A command that returns or throws.                                       *)
LEMMA CommandWorked ==
    ASSUME TypeOK, NEW cmd, Executing(cmd), NEW nested \in Seq(Nested(Top.client)),
           Finish(nested) \/ Throw
    PROVE  Worked
  <1>1. Running /\ stack # <<>> /\ Top.do = "run"
    BY DEF Executing, Pending
  <1>2. CASE Finish(nested)
    <2>1. UNCHANGED pc /\ Carries
      BY <1>2, FinishCarries DEF TypeOK, Finish, loopVars
    <2>. QED BY <1>1, <2>1 DEF Worked
  <1>3. CASE Throw /\ pc = "commands"
    <2>1. stack' = ReplyTo(Top.client) /\ UNCHANGED pc
      BY <1>3 DEF Throw, loopVars
    <2>2. Top.client \in Clients
      BY <1>1, TopType DEF TypeOK, WorkItem
    <2>3. Reports
      BY <1>3, <2>1, <2>2, ReplyNested DEF Reports
    <2>. QED BY <1>1, <2>1, <2>3 DEF Worked
  <1>4. CASE Throw /\ pc # "commands"
    BY <1>4 DEF Throw, Die, Worked
  <1>. QED BY <1>2, <1>3, <1>4

(* Every command on devices.                                               *)
LEMMA DeviceCommandWorked ==
    ASSUME TypeOK, DeviceCommand
    PROVE  Worked
  <1>1. <<>> \in Seq(Nested(Top.client))
    BY EmptySeq
  <1>2. PICK cmd : Executing(cmd) /\ (Finish(<<>>) \/ Throw)
    <2>1. ASSUME NEW d \in Devices,
                 addDevice(d) \/ addDeviceFails(d) \/ addDeviceRefused(d) \/ removeDevice(d)
                   \/ renameDevice(d)
          PROVE  \E cmd : Executing(cmd) /\ (Finish(<<>>) \/ Throw)
      BY <2>1 DEF addDevice, addDeviceFails, addDeviceRefused, removeDevice, renameDevice
    <2>2. ASSUME NEW d \in Devices, NEW b \in BOOLEAN, setPersistent(d, b)
          PROVE  \E cmd : Executing(cmd) /\ (Finish(<<>>) \/ Throw)
      BY <2>2 DEF setPersistent
    <2>3. ASSUME NEW d \in Devices, NEW k \in Keys,
                 removeHotkey(d, k) \/ \E t \in Texts : addHotkey(d, k, t)
          PROVE  \E cmd : Executing(cmd) /\ (Finish(<<>>) \/ Throw)
      BY <2>3 DEF removeHotkey, addHotkey
    <2>. QED BY <2>1, <2>2, <2>3 DEF DeviceCommand
  <1>. QED BY <1>1, <1>2, CommandWorked

(* Every command on outputs.                                               *)
LEMMA OutputCommandWorked ==
    ASSUME TypeOK, OutputCommand
    PROVE  Worked
  <1>1. <<>> \in Seq(Nested(Top.client))
    BY EmptySeq
  <1>2. ASSUME NEW o \in Outputs, NEW resume \in BOOLEAN,
               addOutput(o, resume) \/ addOutputFails(o, resume)
        PROVE  \E cmd : Executing(cmd) /\ (Finish(<<>>) \/ Throw)
    BY <1>2 DEF addOutput, addOutputFails
  <1>3. ASSUME NEW o \in Outputs, removeOutput(o)
        PROVE  \E cmd : Executing(cmd) /\ (Finish(<<>>) \/ Throw)
    BY <1>3 DEF removeOutput
  <1>4. ASSUME NEW o \in Outputs, useOutput(o)
        PROVE  Worked
    <2>1. Executing(Use(o)) /\ (Finish(fireEvent(Top.client, "output-changed")) \/ Throw)
      BY <1>4 DEF useOutput
    <2>2. Top.client \in Clients
      BY <2>1, TopType DEF Executing, Pending, TypeOK, WorkItem
    <2>3. fireEvent(Top.client, "output-changed") \in Seq(Nested(Top.client))
      BY <2>2, FireNested DEF TypeOK, Events
    <2>. QED BY <2>1, <2>3, CommandWorked
  <1>. QED BY <1>1, <1>2, <1>3, <1>4, CommandWorked DEF OutputCommand

(* Every other command.                                                    *)
LEMMA OtherCommandWorked ==
    ASSUME TypeOK, OtherCommand
    PROVE  Worked
  <1>1. <<>> \in Seq(Nested(Top.client))
    BY EmptySeq
  <1>2. ASSUME NEW cmd, Executing(cmd)
        PROVE  /\ Running /\ stack # <<>> /\ Top.do = "run" /\ Top \in WorkItem
               /\ Top.client \in Clients
    BY <1>2, TopType DEF Executing, Pending, TypeOK, WorkItem
  <1>3. ASSUME NEW x \in States, writeEvents(x) \/ grabDevices(x)
        PROVE  Worked
    <2>1. CASE writeEvents(x)
      <3>1. Executing(WriteEvents(x)) /\ Finish(fireEvent(Top.client, "write-changed"))
        BY <2>1 DEF writeEvents
      <3>2. fireEvent(Top.client, "write-changed") \in Seq(Nested(Top.client))
        BY <1>2, <3>1, FireNested DEF TypeOK, Events
      <3>. QED BY <3>1, <3>2, CommandWorked
    <2>2. CASE grabDevices(x)
      <3>1. /\ Executing(GrabDevices(x))
            /\ Finish(fireEvent(Top.client, "grab-changed")) \/ Throw
        BY <2>2 DEF grabDevices, grab
      <3>2. fireEvent(Top.client, "grab-changed") \in Seq(Nested(Top.client))
        BY <1>2, <3>1, FireNested DEF TypeOK, Events
      <3>. QED BY <3>1, <3>2, CommandWorked
    <2>. QED BY <1>3, <2>1, <2>2
  <1>4. ASSUME NEW x \in States, grabBoth(x)
        PROVE  Worked
    <2>. DEFINE nested == fireEvent(Top.client, "grab-changed")
                            \o Run(Top.client, "none", <<WriteEvents(x)>>)
    <2>1. Executing(Grab(x)) /\ (Finish(nested) \/ Throw)
      BY <1>4 DEF grabBoth, grab
    <2>2. WriteEvents(x) \in Command
      BY <1>4 DEF WriteEvents, Command
    <2>3. fireEvent(Top.client, "grab-changed") \in Seq(Nested(Top.client))
      BY <1>2, <2>1, FireNested DEF TypeOK, Events
    <2>4. Run(Top.client, "none", <<WriteEvents(x)>>) \in Seq(Nested(Top.client))
      BY <1>2, <2>1, <2>2, OneItem, RunNested
    <2>5. nested \in Seq(Nested(Top.client))
      BY <2>3, <2>4, ConcatProperties
    <2>. HIDE DEF nested
    <2>. QED BY <2>1, <2>5, CommandWorked
  <1>5. ASSUME NEW e \in Events, removeAction(e) \/ \E t \in Texts : setAction(e, t)
        PROVE  Worked
    <2>1. PICK cmd : Executing(cmd) /\ (Finish(<<>>) \/ FinishDamaging(e))
      BY <1>5 DEF removeAction, setAction
    <2>2. CASE FinishDamaging(e)
      <3>1. UNCHANGED pc /\ Carries
        BY <2>1, <2>2, DamagingCarries DEF FinishDamaging, TypeOK, loopVars
      <3>. QED BY <1>2, <2>1, <3>1 DEF Worked
    <2>. QED BY <1>1, <2>1, <2>2, CommandWorked
  <1>6. ASSUME NEW t \in Texts, sourceCommandFile(t)
        PROVE  Worked
    <2>1. PICK commands \in Sourced(t) :
            Executing(Source(t)) /\ Finish(Run(Top.client, "none", commands))
      BY <1>6 DEF sourceCommandFile
    <2>2. Bad \in Command
      BY DEF Bad, Command
    <2>3. commands \in Seq(Command)
      BY <2>2, SourcedLines, TextAssumption
    <2>4. Run(Top.client, "none", commands) \in Seq(Nested(Top.client))
      BY <1>2, <2>1, <2>3, RunNested
    <2>. QED BY <2>1, <2>4, CommandWorked
  <1>7. CASE quit
    <2>1. Executing(Quit) /\ stack' = ReplyTo(Top.client) \o AfterCommand /\ UNCHANGED pc
      BY <1>7 DEF quit
    <2>2. ReplyTo(Top.client) \in Seq(Nested(Top.client))
      BY <1>2, <2>1, ReplyNested
    <2>3. Carries
      BY <2>1, <2>2, CarriesAfter DEF TypeOK
    <2>. QED BY <1>2, <2>1, <2>3 DEF Worked
  <1>8. CASE nop
    BY <1>1, <1>8, CommandWorked DEF nop
  <1>9. CASE unknownCommand
    BY <1>1, <1>9, CommandWorked DEF unknownCommand
  <1>10. CASE toClient
    <2>1. Pending("reply") /\ stack' = Tail(stack) /\ UNCHANGED pc
      BY <1>10 DEF toClient, loopVars
    <2>2. stack # <<>> /\ Running /\ Top.do = "reply"
      BY <2>1 DEF Pending
    <2>3. Carries
      BY <2>1, <2>2, PopCarries DEF TypeOK
    <2>. QED BY <2>1, <2>2, <2>3 DEF Worked
  <1>11. CASE stackOverflow
    BY <1>11 DEF stackOverflow, Die, Worked
  <1>. QED BY <1>3, <1>4, <1>5, <1>6, <1>7, <1>8, <1>9, <1>10, <1>11 DEF OtherCommand

-----------------------------------------------------------------------------
(* Each phase has its work.                                                *)

(* Clients are answered while commands run, callbacks are called while     *)
(* events are dispatched, outputs are erased in the sweep.                 *)
FitsIn(w, phase, clients) ==
    /\ w.client # None => phase = "commands" /\ w.client \in clients
    /\ w.do = "reply" => w.client # None
    /\ w.do \in {"onError", "onHUP", "onRead", "close"} => phase = "dispatch"
    /\ w.do = "erase" => phase = "remove"
    /\ w.do = "lost grab" => phase \in {"dispatch", "remove"}
Fitting(phase, clients) == {w \in WorkItem : FitsIn(w, phase, clients)}

WorkFits == Alive => stack \in Seq(Fitting(pc, gCommandClients))

(* What is nested in fitting work fits.                                    *)
LEMMA NestedFits ==
    ASSUME NEW p, NEW C, NEW c, c # None => p = "commands" /\ c \in C
    PROVE  \A s \in Seq(Nested(c)) : s \in Seq(Fitting(p, C))
  <1>. TAKE s \in Seq(Nested(c))
  <1>1. \A w \in Nested(c) : w \in Fitting(p, C) BY DEF Nested, Fitting, FitsIn
  <1>2. \A i \in 1..Len(s) : s[i] \in Fitting(p, C) BY <1>1, ElementOfSeq
  <1>3. s \in [1..Len(s) -> Fitting(p, C)] /\ Len(s) \in Nat BY <1>2, LenProperties
  <1>. QED BY <1>3, IsASeq

(* The same tasks fit.                                                     *)
LEMMA SameTasksFit ==
    ASSUME NEW p, NEW C, NEW t \in Seq(Fitting(p, C)), NEW s \in Seq(WorkItem), SameTasks(s, t)
    PROVE  s \in Seq(Fitting(p, C))
  <1>1. Len(s) = Len(t) /\ \A i \in 1..Len(t) : SameTask(s[i], t[i])
    BY DEF SameTasks
  <1>2. \A i \in 1..Len(s) : s[i] \in Fitting(p, C)
    <2>. TAKE i \in 1..Len(s)
    <2>1. t[i] \in Fitting(p, C) /\ s[i] \in WorkItem /\ SameTask(s[i], t[i])
      BY <1>1, ElementOfSeq
    <2>. QED BY <2>1 DEF SameTask, Fitting, FitsIn
  <1>3. s \in [1..Len(s) -> Fitting(p, C)] /\ Len(s) \in Nat BY <1>2, LenProperties
  <1>. QED BY <1>3, IsASeq

(* What fits in goes on fitting.                                           *)
LEMMA CarriedFits ==
    ASSUME NEW p, NEW C, stack \in Seq(Fitting(p, C)), stack # <<>>, Carries \/ Reports
    PROVE  stack' \in Seq(Fitting(p, C))
  <1>1. PICK c, below : c = Top.client /\ below = Tail(stack)
    OBVIOUS
  <1>2. Top \in Fitting(p, C) /\ below \in Seq(Fitting(p, C))
    BY <1>1, HeadTailProperties DEF Top
  <1>3. c # None => p = "commands" /\ c \in C
    BY <1>1, <1>2 DEF Fitting, FitsIn
  <1>4. CASE Reports
    BY <1>1, <1>3, <1>4, NestedFits DEF Reports
  <1>5. CASE Carries
    <2>1. PICK new \in Seq(Nested(c)), old \in Seq(WorkItem) :
             SameTasks(old, below) /\ stack' = new \o old
      BY <1>1, <1>5 DEF Carries
    <2>2. new \in Seq(Fitting(p, C)) /\ old \in Seq(Fitting(p, C))
      BY <1>2, <1>3, <2>1, NestedFits, SameTasksFit
    <2>. QED BY <2>1, <2>2, ConcatProperties
  <1>. QED BY <1>4, <1>5

(* A task of the daemon itself.                                            *)
LEMMA TaskItem ==
    ASSUME NEW do \in Works, NEW fd \in Clients
    PROVE  Work(do, None, fd, "none", <<>>) \in WorkItem
  <1>1. None \in Clients BY DEF Clients
  <1>. QED BY <1>1 DEF Work, WorkItem

(* It fits in its phase.                                                   *)
LEMMA TaskFits ==
    ASSUME NEW p, NEW C, NEW do \in Works \ {"reply"}, NEW fd \in Clients,
           do \in {"onError", "onHUP", "onRead", "close"} => p = "dispatch",
           do = "erase" => p = "remove", do = "lost grab" => p \in {"dispatch", "remove"}
    PROVE  Task(do, fd) \in Seq(Fitting(p, C))
  <1>1. None \in Clients BY DEF Clients
  <1>2. Work(do, None, fd, "none", <<>>) \in Fitting(p, C)
    <2>1. Work(do, None, fd, "none", <<>>) \in WorkItem
      BY TaskItem
    <2>. PICK w : w = Work(do, None, fd, "none", <<>>) OBVIOUS
    <2>2. w \in WorkItem /\ w.do = do /\ w.client = None
      BY <2>1 DEF Work
    <2>3. FitsIn(w, p, C)
      BY <2>2 DEF FitsIn
    <2>. QED BY <2>2, <2>3 DEF Fitting
  <1>. QED BY <1>2, OneItem DEF Task

(* The loss of the current output.                                         *)
LEMMA LostFits ==
    ASSUME TypeOK, NEW p \in {"dispatch", "remove"}, NEW C,
           NEW after \in Seq(Fitting(p, C)), lostCurrentOutput(after)
    PROVE  stack' \in Seq(Fitting(p, C))
  <1>1. None \in Clients /\ "lost grab" \in Works
    BY DEF Clients, Works
  <1>2. PICK new : new = IF gWrite THEN fireEvent(None, "write-changed") ELSE <<>>
    OBVIOUS
  <1>3. new \in Seq(Nested(None))
    BY <1>1, <1>2, EmptySeq, FireNested DEF TypeOK, Events
  <1>4. new \in Seq(Fitting(p, C)) /\ LostGrab \in Seq(Fitting(p, C))
    BY <1>1, <1>3, NestedFits, TaskFits DEF LostGrab
  <1>5. stack' = new \o LostGrab \o after
    BY <1>2 DEF lostCurrentOutput
  <1>. QED BY <1>4, <1>5, ConcatProperties

(* Callbacks are called while events are dispatched.                       *)
LEMMA CallbackPhase ==
    ASSUME TypeOK, WorkFits, NEW do \in {"onError", "onHUP", "onRead", "close"}, Pending(do)
    PROVE  pc = "dispatch" /\ stack # <<>>
  <1>1. stack # <<>> /\ Top.do = do /\ Alive
    BY DEF Pending, Running, Alive
  <1>2. Top \in Fitting(pc, gCommandClients)
    BY <1>1, HeadTailProperties DEF WorkFits, Top
  <1>. QED BY <1>1, <1>2 DEF Fitting, FitsIn

(* How callbacks end.                                                      *)
LEMMA CallbackWorked ==
    ASSUME TypeOK, WorkFits, Callback
    PROVE  \/ pc' = "failed"
           \/ /\ pc = "dispatch" /\ UNCHANGED pc /\ stack # <<>>
              /\ Top.do \in {"onError", "onHUP", "onRead", "close"}
              /\ \/ Carries
                 \/ \E fd \in Fds : deviceLost(fd)
                 \/ \E fd \in Fds, k \in Keys : forwardFails(fd, k)
  <1>1. ASSUME NEW do \in {"onError", "onHUP", "onRead", "close"}, Pending(do)
        PROVE  /\ pc = "dispatch" /\ stack # <<>>
               /\ Top.do \in {"onError", "onHUP", "onRead", "close"}
               /\ stack' = Tail(stack) => Carries
    <2>1. Top.do = do /\ pc = "dispatch" /\ stack # <<>>
      BY <1>1, CallbackPhase DEF Pending
    <2>. QED BY <2>1, PopCarries DEF TypeOK
  <1>2. CASE acceptClient
    <2>1. Pending("onRead") /\ (Throw \/ (stack' = Tail(stack) /\ UNCHANGED pc))
      BY <1>2 DEF acceptClient, Called, loopVars
    <2>2. pc = "dispatch"
      BY <1>1, <2>1
    <2>. QED BY <1>1, <2>1, <2>2 DEF Throw, Die
  <1>3. CASE closeDevice
    BY <1>1, <1>3 DEF closeDevice, loopVars
  <1>4. ASSUME NEW fd \in Fds,
               \/ \E t \in ClientTexts : readCommand(fd, t)
               \/ disconnectClient(fd) \/ readFails(fd)
               \/ \E k \in Keys : tryHotkey(fd, k) \/ forwardEvent(fd, k)
        PROVE  /\ \E do \in {"onHUP", "onRead"} : Pending(do)
               /\ stack' = Tail(stack) /\ UNCHANGED pc
    BY <1>4 DEF readCommand, disconnectClient, readFails, tryHotkey, forwardEvent, Reads,
                Called, loopVars
  <1>5. ASSUME NEW fd \in Fds, deviceLost(fd)
        PROVE  (Pending("onError") \/ Pending("onHUP")) /\ UNCHANGED pc
    BY <1>5 DEF deviceLost, Called, loopVars
  <1>6. ASSUME NEW fd \in Fds, NEW k \in Keys, forwardFails(fd, k)
        PROVE  Pending("onRead") /\ UNCHANGED pc
    BY <1>6 DEF forwardFails, Reads, Called, lostCurrentOutput, loopVars
  <1>. QED BY <1>1, <1>2, <1>3, <1>4, <1>5, <1>6 DEF Callback

(* Which clients there are matters to the commands only.                   *)
LEMMA FittingPhase ==
    ASSUME NEW p, p # "commands", NEW C, NEW D
    PROVE  Fitting(p, C) = Fitting(p, D)
  BY DEF Fitting, FitsIn

(* Commands leave the clients and their lines alone.                       *)
LEMMA CommandsKeepClients ==
    ASSUME DeviceCommand \/ OutputCommand \/ OtherCommand
    PROVE  UNCHANGED <<gCommandClients, gCommandQueue>>
  <1>1. ASSUME Throw PROVE UNCHANGED gCommandQueue
    BY <1>1 DEF Throw, Die, loopVars
  <1>2. ASSUME NEW nested, Finish(nested) PROVE UNCHANGED gCommandQueue
    BY <1>2 DEF Finish, loopVars
  <1>3. CASE DeviceCommand
    BY <1>1, <1>2, <1>3
       DEF DeviceCommand, addDevice, addDeviceFails, addDeviceRefused, removeDevice,
       renameDevice, setPersistent, removeHotkey, addHotkey, fdVars
  <1>4. CASE OutputCommand
    BY <1>1, <1>2, <1>4
       DEF OutputCommand, addOutput, addOutputFails, removeOutput, useOutput, fdVars
  <1>5. CASE OtherCommand
    <2>1. ASSUME NEW x \in States, writeEvents(x) \/ grabDevices(x) \/ grabBoth(x)
          PROVE  UNCHANGED <<gCommandClients, gCommandQueue>>
      BY <1>1, <1>2, <2>1 DEF writeEvents, grabDevices, grabBoth, grab, fdVars
    <2>2. ASSUME NEW e \in Events, removeAction(e) \/ \E t \in Texts : setAction(e, t)
          PROVE  UNCHANGED <<gCommandClients, gCommandQueue>>
      BY <1>1, <1>2, <2>2 DEF removeAction, setAction, FinishDamaging, fdVars, loopVars
    <2>3. ASSUME \/ \E t \in Texts : sourceCommandFile(t)
                 \/ quit \/ nop \/ unknownCommand \/ toClient \/ stackOverflow
          PROVE  UNCHANGED <<gCommandClients, gCommandQueue>>
      BY <1>1, <1>2, <2>3 DEF sourceCommandFile, quit, nop, unknownCommand, toClient,
         stackOverflow, Die, fdVars, loopVars
    <2>. QED BY <1>5, <2>1, <2>2, <2>3 DEF OtherCommand
  <1>. QED BY <1>3, <1>4, <1>5

(* The callbacks, one of which takes in a client.                          *)
LEMMA CallbacksStayFit ==
    ASSUME TypeOK, WorkFits, Callback
    PROVE  WorkFits'
  <1>. SUFFICES ASSUME Alive' PROVE stack' \in Seq(Fitting(pc', gCommandClients'))
    BY DEF WorkFits
  <1>1. /\ pc = "dispatch" /\ UNCHANGED pc /\ stack # <<>>
        /\ \/ Carries
           \/ \E fd \in Fds : deviceLost(fd)
           \/ \E fd \in Fds, k \in Keys : forwardFails(fd, k)
    BY CallbackWorked DEF Alive
  <1>2. PICK F : F = Fitting("dispatch", gCommandClients) /\ F = Fitting("dispatch", gCommandClients')
    BY FittingPhase
  <1>3. stack \in Seq(F)
    BY <1>1, <1>2 DEF WorkFits, Alive
  <1>4. Tail(stack) \in Seq(F)
    BY <1>1, <1>3, HeadTailProperties
  <1>5. CASE Carries
    BY <1>1, <1>2, <1>3, <1>5, CarriedFits
  <1>6. ASSUME NEW fd \in Fds, deviceLost(fd) PROVE stack' \in Seq(F)
    <2>1. stack' = fireEvent(None, "device-lost") \o Task("close", fd) \o Tail(stack)
      BY <1>6 DEF deviceLost
    <2>2. None \in Clients /\ fd \in Clients /\ "close" \in Works
      BY DEF Clients, Works
    <2>3. fireEvent(None, "device-lost") \in Seq(Nested(None))
      BY <2>2, FireNested DEF TypeOK, Events
    <2>4. fireEvent(None, "device-lost") \in Seq(F) /\ Task("close", fd) \in Seq(F)
      BY <1>2, <2>2, <2>3, NestedFits, TaskFits
    <2>. QED BY <1>4, <2>1, <2>4, ConcatProperties
  <1>7. ASSUME NEW fd \in Fds, NEW k \in Keys, forwardFails(fd, k) PROVE stack' \in Seq(F)
    BY <1>2, <1>4, <1>7, LostFits DEF forwardFails
  <1>. QED BY <1>1, <1>2, <1>5, <1>6, <1>7

(* The sweep.                                                              *)
LEMMA RemovalsStayFit ==
    ASSUME TypeOK, WorkFits, Removal
    PROVE  WorkFits'
  <1>. SUFFICES ASSUME Alive' PROVE stack' \in Seq(Fitting(pc', gCommandClients'))
    BY DEF WorkFits
  <1>1. ASSUME NEW fd \in Fds, finishClientRemoval(fd) \/ finishDeviceRemoval(fd)
        PROVE  stack' = <<>>
    BY <1>1 DEF finishClientRemoval, finishDeviceRemoval, Removing
  <1>2. ASSUME NEW fd \in Fds, finishOutputRemoval(fd)
        PROVE  stack' \in Seq(Fitting(pc', gCommandClients'))
    <2>1. pc = "remove" /\ UNCHANGED <<pc, gCommandClients>>
          /\ (lostCurrentOutput(Task("erase", fd)) \/ stack' = Task("erase", fd))
      BY <1>2 DEF finishOutputRemoval, Removing, lostCurrentOutput, loopVars, fdVars
    <2>2. fd \in Clients /\ "erase" \in Works
      BY DEF Clients, Works
    <2>3. Task("erase", fd) \in Seq(Fitting("remove", gCommandClients))
      BY <2>2, TaskFits
    <2>. QED BY <2>1, <2>3, LostFits
  <1>3. ASSUME Pending("erase") \/ Pending("lost grab"), UNCHANGED <<pc, gCommandClients>>
        PROVE  /\ stack # <<>> /\ stack \in Seq(Fitting(pc', gCommandClients'))
               /\ stack' = Tail(stack) => stack' \in Seq(Fitting(pc', gCommandClients'))
    <2>1. Alive /\ stack # <<>>
      BY <1>3 DEF Pending, Running, Alive
    <2>2. stack \in Seq(Fitting(pc, gCommandClients))
      BY <2>1 DEF WorkFits
    <2>. QED BY <1>3, <2>1, <2>2, HeadTailProperties
  <1>4. CASE eraseOutput
    <2>1. UNCHANGED gCommandClients /\ Pending("erase")
      BY <1>4 DEF eraseOutput
    <2>2. UNCHANGED pc /\ stack' = Tail(stack)
      BY <1>4 DEF eraseOutput, Die, Alive, loopVars
    <2>. QED BY <1>3, <2>1, <2>2
  <1>5. CASE FinishLostOutput
    <2>1. UNCHANGED gCommandClients /\ Pending("lost grab") /\ stack # <<>> /\ Top.do = "lost grab"
      BY <1>5 DEF FinishLostOutput, Pending, fdVars
    <2>2. pc \in {"dispatch", "remove"}
      <3>1. Alive /\ Top \in Fitting(pc, gCommandClients)
        BY <2>1, HeadTailProperties DEF WorkFits, Top, Pending, Running, Alive
      <3>. QED BY <2>1, <3>1 DEF Fitting, FitsIn
    <2>3. \/ UNCHANGED pc /\ stack' = fireEvent(None, "grab-changed") \o Tail(stack)
          \/ UNCHANGED pc /\ stack' = Tail(stack)
      BY <1>5, <2>2 DEF FinishLostOutput, grab, Throw, Die, Alive, loopVars
    <2>4. None \in Clients
      BY DEF Clients
    <2>5. fireEvent(None, "grab-changed") \in Seq(Nested(None))
      BY <2>4, FireNested DEF TypeOK, Events
    <2>6. fireEvent(None, "grab-changed") \in Seq(Fitting(pc, gCommandClients))
      BY <2>5, NestedFits
    <2>7. Tail(stack) \in Seq(Fitting(pc, gCommandClients))
      BY <1>3, <2>1, <2>3, HeadTailProperties
    <2>. QED BY <2>1, <2>3, <2>6, <2>7, ConcatProperties
  <1>6. CASE removeUnknown \/ removeDangling
    BY <1>6 DEF removeUnknown, removeDangling, Die, Alive
  <1>. QED BY <1>1, <1>2, <1>4, <1>5, <1>6, EmptySeq DEF Removal

(* The lines of a client that is taken off have all been run.              *)
LinesFit ==
    Alive => /\ gCommandQueue \in Seq([client : gCommandClients \cup {None}, text : Texts])
             /\ pc = "remove" => gCommandQueue = <<>>

(* Every step keeps each phase its work.                                   *)
LEMMA WorkStaysFit ==
    ASSUME TypeOK, WorkFits, LinesFit, [Next]_vars
    PROVE  WorkFits'
  <1>. SUFFICES ASSUME Alive' PROVE stack' \in Seq(Fitting(pc', gCommandClients'))
    BY DEF WorkFits
  <1>1. Alive /\ stack \in Seq(Fitting(pc, gCommandClients))
    BY NoRevival DEF WorkFits
  <1>2. ASSUME stack' = <<>>
        PROVE  stack' \in Seq(Fitting(pc', gCommandClients'))
    BY <1>2, EmptySeq
  <1>3. CASE DeviceCommand \/ OutputCommand \/ OtherCommand
    <2>1. Worked
      BY <1>3, DeviceCommandWorked, OutputCommandWorked, OtherCommandWorked
    <2>2. UNCHANGED <<pc, gCommandClients>> /\ stack # <<>> /\ (Carries \/ Reports)
      BY <1>3, <2>1, CommandsKeepClients DEF Worked, Alive
    <2>. QED BY <1>1, <2>2, CarriedFits
  <1>4. CASE Callback
    BY <1>4, CallbacksStayFit DEF WorkFits
  <1>5. CASE Removal
    BY <1>5, RemovalsStayFit DEF WorkFits
  <1>6. CASE processCommandQueue
    <2>1. PICK command : command = Head(gCommandQueue)
      OBVIOUS
    <2>2. /\ pc = "commands" /\ gCommandQueue # <<>> /\ UNCHANGED <<pc, gCommandClients>>
          /\ stack' = Run(command.client, "none", Text[command.text])
      BY <1>6, <2>1 DEF processCommandQueue, Idle, fdVars
    <2>3. command \in [client : gCommandClients \cup {None}, text : Texts]
      BY <1>1, <2>1, <2>2, HeadTailProperties DEF LinesFit
    <2>4. command.client \in Clients /\ Text[command.text] \in Seq(Command)
      BY <2>3, TextAssumption DEF TypeOK, FdType, Clients
    <2>. QED BY <2>2, <2>3, <2>4, RunNested, NestedFits
  <1>7. ASSUME NEW fd \in Fds, dispatch(fd)
        PROVE  stack' \in Seq(Fitting(pc', gCommandClients'))
    <2>1. pc = "dispatch" /\ stack = <<>> /\ UNCHANGED gCommandClients
      BY <1>7 DEF dispatch, Idle, fdVars
    <2>2. CASE fd \in DOMAIN gFDCBs
      <3>1. PICK error, hup, read :
              /\ error = IF "onError" \in revents[fd] THEN Task("onError", fd) ELSE <<>>
              /\ hup = IF "onHUP" \in revents[fd] THEN Task("onHUP", fd) ELSE <<>>
              /\ read = IF "onRead" \in revents[fd] THEN Task("onRead", fd) ELSE <<>>
        OBVIOUS
      <3>2. stack' = error \o hup \o read /\ UNCHANGED pc
        BY <1>7, <2>2, <3>1 DEF dispatch
      <3>3. {"onError", "onHUP", "onRead"} \subseteq Works /\ fd \in Clients
        BY DEF Works, Clients
      <3>4. \A do \in {"onError", "onHUP", "onRead"} :
              Task(do, fd) \in Seq(Fitting("dispatch", gCommandClients))
        BY <3>3, TaskFits
      <3>5. \A q \in {error, hup, read} : q \in Seq(Fitting("dispatch", gCommandClients))
        BY <3>1, <3>4, EmptySeq
      <3>. QED BY <2>1, <3>2, <3>5, ConcatProperties
    <2>3. CASE fd \notin DOMAIN gFDCBs
      BY <1>7, <2>3 DEF dispatch, Alive
    <2>. QED BY <2>2, <2>3
  <1>8. CASE started \/ processRemoveQueue \/ sweepDone \/ dispatchDone \/ dispatchBreak
    BY <1>2, <1>8 DEF started, processRemoveQueue, sweepDone, dispatchDone, dispatchBreak, Idle
  <1>9. CASE shutdown
    BY <1>9 DEF shutdown, Alive
  <1>10. CASE Wake
    BY <1>2, <1>10 DEF Wake, poll, pollInterrupted, Idle
  <1>11. CASE World \/ UNCHANGED vars
    <2>1. UNCHANGED <<pc, stack, gCommandClients>>
      BY <1>11 DEF World, signull, unplug, vars, fdVars, loopVars
    <2>. QED BY <1>1, <2>1
  <1>. QED BY <1>3, <1>4, <1>5, <1>6, <1>7, <1>8, <1>9, <1>10, <1>11 DEF Next, Step, Loop, Ended

-----------------------------------------------------------------------------
(* Replies.                                                                *)

(* A sequence over a set is one over a larger set.                         *)
LEMMA SeqOfMore ==
    ASSUME NEW S, NEW T, S \subseteq T
    PROVE  \A q \in Seq(S) : q \in Seq(T)
  <1>. TAKE q \in Seq(S)
  <1>1. \A i \in 1..Len(q) : q[i] \in T BY ElementOfSeq
  <1>2. q \in [1..Len(q) -> T] /\ Len(q) \in Nat
    BY <1>1, LenProperties
  <1>. QED BY <1>2, IsASeq

(* A queue fits more clients as well.                                      *)
LEMMA LinesOfMore ==
    ASSUME NEW S, NEW T, S \subseteq T
    PROVE  \A q \in Seq([client : S, text : Texts]) : q \in Seq([client : T, text : Texts])
  <1>1. [client : S, text : Texts] \subseteq [client : T, text : Texts] OBVIOUS
  <1>2. PICK few, more : few = [client : S, text : Texts] /\ more = [client : T, text : Texts]
    OBVIOUS
  <1>3. \A q \in Seq(few) : q \in Seq(more) BY <1>1, <1>2, SeqOfMore
  <1>. QED BY <1>2, <1>3, Zenon

(* A queue with one more line.                                             *)
LEMMA Longer ==
    ASSUME NEW S, NEW q \in Seq(S), NEW r, r = q \/ \E x \in S : r = Append(q, x)
    PROVE  r \in Seq(S)
  BY AppendProperties

(* Only callbacks add lines.                                               *)
LEMMA CallbacksAddLines ==
    ASSUME TypeOK, WorkFits, LinesFit, OwnersAgree, Callback
    PROVE  LinesFit'
  <1>. DEFINE Lines == [client : gCommandClients \cup {None}, text : Texts]
  <1>. SUFFICES ASSUME Alive'
                PROVE  /\ gCommandQueue' \in Seq([client : gCommandClients' \cup {None}, text : Texts])
                       /\ pc' # "remove"
    BY DEF LinesFit
  <1>1. pc = "dispatch" /\ UNCHANGED pc
    BY CallbackWorked DEF Alive
  <1>2. gCommandQueue \in Seq(Lines)
    BY <1>1 DEF LinesFit, Alive
  <1>3. gCommandClients \subseteq gCommandClients'
    BY DEF Callback, acceptClient, closeDevice, readCommand, disconnectClient, deviceLost,
       readFails, tryHotkey, forwardEvent, forwardFails, fdVars
  <1>4. \/ UNCHANGED gCommandQueue
        \/ \E line \in Lines : gCommandQueue' = Append(gCommandQueue, line)
    <2>1. ASSUME NEW fd \in Fds, NEW t \in ClientTexts, readCommand(fd, t)
          PROVE  \E line \in Lines : gCommandQueue' = Append(gCommandQueue, line)
      <3>1. fd \in DOMAIN gFDCBs /\ gFDCBs[fd].kind = "client"
        BY <2>1 DEF readCommand, Called
      <3>2. fd \in gCommandClients
        BY <1>1, <3>1 DEF OwnersAgree, Alive, KindsAgree, ClientsOwn
      <3>3. [client |-> fd, text |-> t] \in Lines
        BY <3>2, DaemonAssumption
      <3>. QED BY <2>1, <3>3 DEF readCommand
    <2>2. ASSUME NEW fd \in Fds, NEW k \in Keys, tryHotkey(fd, k)
          PROVE  \/ UNCHANGED gCommandQueue
                 \/ \E line \in Lines : gCommandQueue' = Append(gCommandQueue, line)
      <3>1. PICK key : key = <<gFDCBs[fd].id, k>>
        OBVIOUS
      <3>2. CASE key \in DOMAIN gHotkeys
        <4>1. gHotkeys[key] \in Texts
          BY <3>2 DEF TypeOK, TextType, Table
        <4>2. [client |-> None, text |-> gHotkeys[key]] \in Lines
          BY <4>1
        <4>. QED BY <2>2, <3>1, <3>2, <4>2 DEF tryHotkey
      <3>3. CASE key \notin DOMAIN gHotkeys
        BY <2>2, <3>1, <3>3 DEF tryHotkey
      <3>. QED BY <3>2, <3>3
    <2>3. ASSUME \/ acceptClient \/ closeDevice
                 \/ \E fd \in Fds : \/ disconnectClient(fd) \/ deviceLost(fd) \/ readFails(fd)
                                    \/ \E k \in Keys : forwardEvent(fd, k) \/ forwardFails(fd, k)
          PROVE  UNCHANGED gCommandQueue
      BY <2>3 DEF acceptClient, Throw, Die, closeDevice, disconnectClient, deviceLost, readFails,
         forwardEvent, forwardFails, lostCurrentOutput, loopVars
    <2>. QED BY <2>1, <2>2, <2>3 DEF Callback
  <1>5. gCommandQueue' \in Seq(Lines)
    <2>. HIDE DEF Lines
    <2>. QED BY <1>2, <1>4, Longer
  <1>6. gCommandClients \cup {None} \subseteq gCommandClients' \cup {None}
    BY <1>3
  <1>7. gCommandQueue' \in Seq([client : gCommandClients' \cup {None}, text : Texts])
    BY <1>5, <1>6, LinesOfMore, Zenon
  <1>. QED BY <1>1, <1>7

(* Every step keeps the lines those of clients.                            *)
LEMMA LinesStayFit ==
    ASSUME TypeOK, WorkFits, LinesFit, OwnersAgree, [Next]_vars
    PROVE  LinesFit'
  <1>. SUFFICES ASSUME Alive'
                PROVE  /\ gCommandQueue' \in Seq([client : gCommandClients' \cup {None}, text : Texts])
                       /\ pc' = "remove" => gCommandQueue' = <<>>
    BY DEF LinesFit
  <1>1. /\ Alive /\ gCommandQueue \in Seq([client : gCommandClients \cup {None}, text : Texts])
        /\ pc = "remove" => gCommandQueue = <<>>
    BY NoRevival DEF LinesFit
  <1>2. ASSUME UNCHANGED <<gCommandClients, gCommandQueue>>, pc' \in {pc} \cup (Phases \ {"remove"})
        PROVE  LinesFit'
    BY <1>1, <1>2 DEF LinesFit
  <1>3. CASE DeviceCommand \/ OutputCommand \/ OtherCommand
    <2>1. Worked
      BY <1>3, DeviceCommandWorked, OutputCommandWorked, OtherCommandWorked
    <2>2. UNCHANGED pc
      BY <2>1 DEF Worked, Alive
    <2>. QED BY <1>2, <1>3, <2>2, CommandsKeepClients DEF LinesFit
  <1>4. CASE Callback
    BY <1>4, CallbacksAddLines DEF LinesFit
  <1>5. CASE Removal
    <2>1. ASSUME NEW fd \in Fds, finishClientRemoval(fd)
          PROVE  gCommandQueue' = <<>>
      BY <1>1, <2>1 DEF finishClientRemoval, Removing, loopVars
    <2>2. ASSUME \/ eraseOutput \/ FinishLostOutput \/ removeUnknown \/ removeDangling
                 \/ \E fd \in Fds : finishDeviceRemoval(fd) \/ finishOutputRemoval(fd)
          PROVE  UNCHANGED <<pc, gCommandClients, gCommandQueue>>
      <3>1. ASSUME Throw PROVE UNCHANGED <<pc, gCommandQueue>>
        BY <3>1 DEF Throw, Die, Alive, loopVars
      <3>2. CASE FinishLostOutput
        BY <3>1, <3>2 DEF FinishLostOutput, grab, fdVars, loopVars
      <3>3. CASE eraseOutput \/ removeUnknown \/ removeDangling
        BY <3>3 DEF eraseOutput, removeUnknown, removeDangling, Die, Alive, fdVars, loopVars
      <3>4. ASSUME NEW fd \in Fds, finishDeviceRemoval(fd) \/ finishOutputRemoval(fd)
            PROVE  UNCHANGED <<pc, gCommandClients, gCommandQueue>>
        BY <3>4 DEF finishDeviceRemoval, finishOutputRemoval, lostCurrentOutput, fdVars, loopVars
      <3>. QED BY <2>2, <3>2, <3>3, <3>4
    <2>. QED BY <1>2, <1>5, <2>1, <2>2, EmptySeq DEF Removal, LinesFit
  <1>6. CASE processCommandQueue
    <2>1. /\ pc = "commands" /\ gCommandQueue # <<>> /\ UNCHANGED <<pc, gCommandClients>>
          /\ gCommandQueue' = Tail(gCommandQueue)
      BY <1>6 DEF processCommandQueue, Idle, fdVars
    <2>. QED BY <1>1, <2>1, HeadTailProperties
  <1>7. CASE processRemoveQueue
    BY <1>1, <1>7 DEF processRemoveQueue, CommandsDone
  <1>8. CASE Loop /\ ~processCommandQueue /\ ~processRemoveQueue
    <2>1. CASE shutdown
      BY <2>1 DEF shutdown, Alive
    <2>2. CASE ~shutdown
      <3>1. UNCHANGED <<gCommandClients, gCommandQueue>> /\ pc' \in {pc} \cup (Phases \ {"remove"})
        BY <1>8, <2>2 DEF Loop, started, sweepDone, dispatch, dispatchDone, dispatchBreak, NextRound,
           AfterSweep, Phases, fdVars
      <3>. QED BY <1>2, <3>1 DEF LinesFit
    <2>. QED BY <2>1, <2>2
  <1>9. CASE Wake \/ World \/ UNCHANGED vars
    <2>1. UNCHANGED <<gCommandClients, gCommandQueue>> /\ pc' \in {pc} \cup (Phases \ {"remove"})
      BY <1>9 DEF Wake, poll, pollInterrupted, World, signull, unplug, AfterEINTR, NextRound, Phases, vars,
         fdVars, loopVars
    <2>. QED BY <1>2, <2>1 DEF LinesFit
  <1>. QED BY <1>3, <1>4, <1>5, <1>6, <1>7, <1>8, <1>9 DEF Next, Step, Ended

(* The start.                                                              *)
LEMMA InitWork == Init => WorkFits /\ LinesFit
  <1>. SUFFICES ASSUME Init PROVE WorkFits /\ LinesFit
    OBVIOUS
  <1>1. None \in Clients /\ Startup \in Texts /\ Text[Startup] \in Seq(Command)
    BY DaemonAssumption, TextAssumption DEF Clients
  <1>2. Run(None, "none", Text[Startup]) \in Seq(Nested(None))
    BY <1>1, RunNested
  <1>3. Run(None, "none", Text[Startup]) \in Seq(Fitting(pc, gCommandClients))
    BY <1>2, NestedFits
  <1>. QED BY <1>3, EmptySeq DEF Init, WorkFits, LinesFit

(* No answer is written to a descriptor that belongs to somebody else than *)
(* the client of the line: whoever disconnects is taken off after the      *)
(* queue has been run, so neither a line nor what is left of one refers    *)
(* to a closed descriptor (processCommandQueue before processRemoveQueue). *)
THEOREM RepliesToTheAsking == Spec => []RepliesReachTheirClient
  <1>. DEFINE WInv == TypeOK /\ OwnersAgree /\ WorkFits /\ LinesFit
  <1>1. Init => WInv
    BY InitTypes, InitOwners, InitWork
  <1>2. WInv /\ [Next]_vars => WInv'
    BY StepTypes, StepOwners, WorkStaysFit, LinesStayFit
  <1>3. WInv => RepliesReachTheirClient
    <2>. SUFFICES ASSUME WInv, Alive
                  PROVE  /\ \A i \in DOMAIN gCommandQueue :
                              gCommandQueue[i].client \in gCommandClients \cup {None}
                         /\ \A i \in DOMAIN stack : stack[i].client \in gCommandClients \cup {None}
      BY DEF RepliesReachTheirClient
    <2>1. gCommandQueue \in Seq([client : gCommandClients \cup {None}, text : Texts])
          /\ stack \in Seq(Fitting(pc, gCommandClients))
      BY DEF WorkFits, LinesFit
    <2>2. /\ \A i \in DOMAIN gCommandQueue :
               gCommandQueue[i] \in [client : gCommandClients \cup {None}, text : Texts]
          /\ \A i \in DOMAIN stack : stack[i] \in Fitting(pc, gCommandClients)
      BY <2>1, ElementOfSeq, LenProperties
    <2>3. \A i \in DOMAIN stack : stack[i].client \in gCommandClients \cup {None}
      BY <2>2 DEF Fitting, FitsIn
    <2>. QED BY <2>2, <2>3
  <1>. QED BY <1>1, <1>2, <1>3, PTL DEF Spec

=============================================================================
