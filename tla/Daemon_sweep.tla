---------------------------- MODULE Daemon_sweep ----------------------------
(***************************************************************************)
(* What a pass of the loop has still to do, and its sweeps. While no sweep *)
(* makes an output current, the current output is open, the finish handlers*)
(* find what they close and the callback map is complete; and no sweep does*)
(* if no action has a `use` in it. An output that breaks is dropped unless *)
(* it breaks in the sweep, and the devices are released when the current   *)
(* output is lost.                                                         *)
(***************************************************************************)
EXTENDS Daemon_proofs

-----------------------------------------------------------------------------
(* Where the items of the stack come from and go to.                       *)

(* The i-th item was there already, as far from the bottom.                *)
CarriedAt(i) == \E j \in 1..Len(stack) : /\ SameTask(stack'[i], stack[j])
                                         /\ Len(stack') - i = Len(stack) - j

(* The items below the top are still there.                                *)
RestKept == \A j \in 2..Len(stack) : \E i \in 1..Len(stack') : SameTask(stack'[i], stack[j])

(* Work on top of what was below the top.                                  *)
LEMMA StackedOnRest ==
    ASSUME StackType, stack # <<>>, NEW N, NEW new \in Seq(N), NEW old \in Seq(WorkItem),
           SameTasks(old, Tail(stack)), stack' = new \o old
    PROVE  /\ \A i \in 1..Len(stack') : stack'[i] \in N \/ CarriedAt(i)
           /\ RestKept
  <1>1. PICK below : below = Tail(stack)
    OBVIOUS
  <1>2. /\ below \in Seq(WorkItem) /\ Len(stack) \in Nat /\ Len(stack) > 0
        /\ Len(below) = Len(stack) - 1
        /\ \A j \in 1..Len(below) : below[j] = stack[j + 1]
    BY <1>1 DEF StackType
  <1>3. Len(old) = Len(below) /\ \A j \in 1..Len(below) : SameTask(old[j], below[j])
    BY <1>1 DEF SameTasks
  <1>4. /\ Len(new) \in Nat /\ Len(stack') = Len(new) + Len(old)
        /\ \A i \in 1..Len(new) : stack'[i] = new[i] /\ new[i] \in N
        /\ \A j \in 1..Len(old) : stack'[Len(new) + j] = old[j]
    OBVIOUS
  <1>5. ASSUME NEW i \in 1..Len(stack') PROVE stack'[i] \in N \/ CarriedAt(i)
    <2>1. CASE i <= Len(new)
      BY <1>4, <1>5, <2>1
    <2>2. CASE ~(i <= Len(new))
      <3>1. PICK j \in 1..Len(old) : i = Len(new) + j
        <4>1. i - Len(new) \in 1..Len(old) /\ i = Len(new) + (i - Len(new))
          BY <1>2, <1>3, <1>4, <1>5, <2>2
        <4>. QED BY <4>1
      <3>2. SameTask(stack'[i], stack[j + 1])
        BY <1>2, <1>3, <1>4, <3>1
      <3>3. j + 1 \in 1..Len(stack) /\ Len(stack') - i = Len(stack) - (j + 1)
        BY <1>2, <1>3, <1>4, <3>1
      <3>. QED BY <3>2, <3>3 DEF CarriedAt
    <2>. QED BY <2>1, <2>2
  <1>6. ASSUME NEW j \in 2..Len(stack)
        PROVE  \E i \in 1..Len(stack') : SameTask(stack'[i], stack[j])
    <2>1. PICK k \in 1..Len(below) : j = k + 1
      <3>1. j - 1 \in 1..Len(below) /\ j = (j - 1) + 1
        BY <1>2, <1>6
      <3>. QED BY <3>1
    <2>2. Len(new) + k \in 1..Len(stack') /\ SameTask(stack'[Len(new) + k], stack[j])
      BY <1>2, <1>3, <1>4, <2>1
    <2>. QED BY <2>2
  <1>. QED BY <1>5, <1>6 DEF RestKept

(* A stack that is left alone.                                             *)
LEMMA LeftAlone ==
    ASSUME StackType, UNCHANGED stack
    PROVE  \A i \in 1..Len(stack') : CarriedAt(i) /\ SameTask(stack'[i], stack[i])
  BY DEF CarriedAt, SameTask, StackType

(* The items of a sequence.                                                *)
LEMMA ItemsOfSeq ==
    ASSUME NEW S, NEW s \in Seq(S)
    PROVE  \A i \in 1..Len(s) : s[i] \in S
  OBVIOUS

(* Where new items come from.                                              *)
Passing(w) == w.do \notin {"erase", "close"}
Closing(w) == \E fd \in Fds : deviceLost(fd) /\ w.do = "close" /\ w.fd = fd
Erasing(i) == \E fd \in Fds : /\ finishOutputRemoval(fd) /\ i = Len(stack')
                              /\ stack'[i].do = "erase" /\ stack'[i].fd = fd
Accounted(i) == Passing(stack'[i]) \/ CarriedAt(i) \/ Closing(stack'[i]) \/ Erasing(i)
PassingWork == {w \in WorkItem : Passing(w)}

(* What a command leaves above what was below it is of that kind.          *)
LEMMA NestedPassing ==
    ASSUME NEW c
    PROVE  \A s \in Seq(Nested(c)) : s \in Seq(PassingWork)
  <1>1. Nested(c) \subseteq PassingWork
    BY DEF Nested, PassingWork, Passing
  <1>. QED BY <1>1, SeqOfMore

(* The top of the stack is done and new work is above the rest.            *)
LEMMA DoneAccounted ==
    ASSUME StackType, stack # <<>>, NEW new \in Seq(PassingWork),
           stack' = new \o Tail(stack)
    PROVE  /\ \A i \in 1..Len(stack') : Accounted(i)
           /\ RestKept
  <1>1. PICK below : below = Tail(stack)
    OBVIOUS
  <1>2. below \in Seq(WorkItem) /\ SameTasks(below, Tail(stack)) /\ stack' = new \o below
    BY <1>1, TopType, SameItself
  <1>3. /\ \A i \in 1..Len(stack') : stack'[i] \in PassingWork \/ CarriedAt(i)
        /\ RestKept
    BY <1>2, StackedOnRest
  <1>. QED BY <1>3 DEF Accounted, PassingWork

(* The top of the stack is done.                                           *)
LEMMA PopAccounted ==
    ASSUME StackType, stack # <<>>, stack' = Tail(stack)
    PROVE  /\ \A i \in 1..Len(stack') : Accounted(i)
           /\ RestKept
  <1>1. Tail(stack) = <<>> \o Tail(stack) /\ <<>> \in Seq(PassingWork)
    BY TopType, EmptySeq, ConcatEmptySeq
  <1>. QED BY <1>1, DoneAccounted

(* A command or callback carries on with what was below it.                *)
LEMMA CarriesAccounted ==
    ASSUME StackType, stack # <<>>, Carries
    PROVE  /\ \A i \in 1..Len(stack') : Accounted(i)
           /\ RestKept
  <1>1. PICK new \in Seq(Nested(Top.client)), old \in Seq(WorkItem) :
          SameTasks(old, Tail(stack)) /\ stack' = new \o old
    BY DEF Carries
  <1>2. new \in Seq(PassingWork)
    BY <1>1, NestedPassing
  <1>3. /\ \A i \in 1..Len(stack') : stack'[i] \in PassingWork \/ CarriedAt(i)
        /\ RestKept
    BY <1>1, <1>2, StackedOnRest
  <1>. QED BY <1>3 DEF Accounted, PassingWork

(* A task of the daemon itself that is not one of those two.               *)
LEMMA TaskPassing ==
    ASSUME NEW do \in Works \ {"erase", "close"}, NEW fd \in Clients
    PROVE  Task(do, fd) \in Seq(PassingWork)
  <1>1. PICK w : w = Work(do, None, fd, "none", <<>>)
    OBVIOUS
  <1>2. w \in WorkItem /\ w.do = do
    BY <1>1, TaskItem DEF Work
  <1>3. w \in PassingWork
    BY <1>2 DEF PassingWork, Passing
  <1>. QED BY <1>1, <1>3, OneItem DEF Task

(* The last item of a sequence.                                            *)
LEMMA LastItem ==
    ASSUME NEW S, NEW q \in Seq(S), NEW w \in S
    PROVE  (q \o <<w>>)[Len(q) + 1] = w /\ Len(q) + 1 \in 1..Len(q \o <<w>>)
  OBVIOUS

(* What losing the current output pushes.                                  *)
LEMMA LostPushes ==
    ASSUME TypeOK, NEW after, lostCurrentOutput(after)
    PROVE  \E new \in Seq(PassingWork) : /\ stack' = new \o after
                                         /\ \E i \in 1..Len(new) : new[i].do = "lost grab"
  <1>1. None \in Clients /\ "lost grab" \in Works
    BY DEF Clients, Works
  <1>2. PICK new : new = IF gWrite THEN fireEvent(None, "write-changed") ELSE <<>>
    OBVIOUS
  <1>3. new \in Seq(Nested(None))
    BY <1>1, <1>2, EmptySeq, FireNested DEF TypeOK, Events
  <1>4. new \in Seq(PassingWork) /\ LostGrab \in Seq(PassingWork)
    BY <1>1, <1>3, NestedPassing, TaskPassing DEF LostGrab
  <1>5. stack' = new \o LostGrab \o after
    BY <1>2 DEF lostCurrentOutput
  <1>. PICK w : w = Work("lost grab", None, None, "none", <<>>)
    OBVIOUS
  <1>6. LostGrab = <<w>> /\ w.do = "lost grab" /\ w \in PassingWork
    BY <1>1, TaskItem DEF LostGrab, Task, Work, PassingWork, Passing
  <1>7. new \o <<w>> \in Seq(PassingWork)
    BY <1>4, <1>6, ConcatProperties
  <1>8. (new \o <<w>>)[Len(new) + 1] = w /\ Len(new) + 1 \in 1..Len(new \o <<w>>)
    BY <1>4, <1>6, LastItem
  <1>. QED BY <1>5, <1>6, <1>7, <1>8

(* What finishOutputRemoval leaves to do.                                  *)
LEMMA ErasePushed ==
    ASSUME TypeOK, NEW fd \in Fds, finishOutputRemoval(fd)
    PROVE  \E new \in Seq(PassingWork) : stack' = new \o Task("erase", fd)
  <1>1. CASE IsCurrent(fd)
    BY <1>1, LostPushes DEF finishOutputRemoval
  <1>2. CASE ~IsCurrent(fd)
    <2>1. stack' = Task("erase", fd)
      BY <1>2 DEF finishOutputRemoval
    <2>2. <<>> \o Task("erase", fd) = Task("erase", fd)
      BY ConcatEmptySeq DEF Task
    <2>. QED BY <2>1, <2>2, EmptySeq
  <1>. QED BY <1>1, <1>2

(* New items at the bottom.                                                *)
LEMMA ErasingAccounted ==
    ASSUME TypeOK, NEW fd \in Fds, finishOutputRemoval(fd)
    PROVE  \A i \in 1..Len(stack') : Accounted(i)
  <1>1. PICK new \in Seq(PassingWork) : stack' = new \o Task("erase", fd)
    BY ErasePushed
  <1>2. PICK w : w = Work("erase", None, fd, "none", <<>>)
    OBVIOUS
  <1>3. w.do = "erase" /\ w.fd = fd /\ stack' = new \o <<w>>
    BY <1>1, <1>2 DEF Work, Task
  <1>4. ASSUME NEW i \in 1..Len(stack') PROVE Accounted(i)
    <2>1. /\ Len(new) \in Nat /\ Len(stack') = Len(new) + 1
          /\ stack'[Len(new) + 1] = w /\ \A j \in 1..Len(new) : stack'[j] = new[j]
      BY <1>3
    <2>2. CASE i \in 1..Len(new)
      <3>1. new[i] \in PassingWork
        BY <2>2, ItemsOfSeq
      <3>. QED BY <2>1, <2>2, <3>1 DEF Accounted, PassingWork
    <2>3. CASE i \notin 1..Len(new)
      <3>1. i = Len(new) + 1
        BY <1>4, <2>1, <2>3
      <3>. QED BY <1>3, <2>1, <3>1 DEF Accounted, Erasing
    <2>. QED BY <2>2, <2>3
  <1>. QED BY <1>4

(* New items in the middle: the second half of a device's loss.            *)
LEMMA LossAccounted ==
    ASSUME TypeOK, NEW fd \in Fds, deviceLost(fd)
    PROVE  /\ \A i \in 1..Len(stack') : Accounted(i)
           /\ RestKept
  <1>1. None \in Clients /\ fd \in Clients /\ "close" \in Works /\ stack # <<>>
    BY DEF Clients, Works, deviceLost, Called, Pending
  <1>2. PICK w : w = Work("close", None, fd, "none", <<>>)
    OBVIOUS
  <1>3. w.do = "close" /\ w.fd = fd /\ Task("close", fd) = <<w>>
    BY <1>2 DEF Work, Task
  <1>4. Closing(w)
    BY <1>3 DEF Closing
  <1>. DEFINE N == PassingWork \cup {w}
  <1>5. fireEvent(None, "device-lost") \in Seq(N) /\ <<w>> \in Seq(N)
    <2>1. fireEvent(None, "device-lost") \in Seq(Nested(None))
      BY <1>1, FireNested DEF TypeOK, Events
    <2>2. PassingWork \subseteq N /\ w \in N
      OBVIOUS
    <2>. HIDE DEF N
    <2>3. fireEvent(None, "device-lost") \in Seq(PassingWork)
      BY <2>1, NestedPassing
    <2>. QED BY <2>2, <2>3, SeqOfMore, OneItem
  <1>6. \A v \in N : Passing(v) \/ Closing(v)
    BY <1>4 DEF PassingWork
  <1>. HIDE DEF N
  <1>7. PICK new, below : new = fireEvent(None, "device-lost") \o <<w>> /\ below = Tail(stack)
    OBVIOUS
  <1>8. new \in Seq(N)
    BY <1>5, <1>7, ConcatProperties
  <1>9. stack' = new \o below
    BY <1>3, <1>7 DEF deviceLost
  <1>10. below \in Seq(WorkItem) /\ SameTasks(below, Tail(stack))
    BY <1>1, <1>7, TopType, SameItself DEF TypeOK
  <1>11. /\ \A i \in 1..Len(stack') : stack'[i] \in N \/ CarriedAt(i)
         /\ RestKept
    BY <1>1, <1>8, <1>9, <1>10, StackedOnRest DEF TypeOK
  <1>. QED BY <1>6, <1>11 DEF Accounted

(* Every step accounts for what is on the stack after it.                  *)
LEMMA StackAccounted ==
    ASSUME TypeOK, WorkFits, LinesFit, [Next]_vars, Alive'
    PROVE  \A i \in 1..Len(stack') : Accounted(i)
  <1>. DEFINE Goal == \A i \in 1..Len(stack') : Accounted(i)
  <1>1. Alive
    BY NoRevival
  <1>2. CASE stack' = <<>>
    BY <1>2
  <1>3. CASE UNCHANGED stack
    BY <1>3, LeftAlone DEF Accounted, TypeOK
  <1>4. ASSUME stack' \in Seq(PassingWork) PROVE Goal
    BY <1>4, ItemsOfSeq DEF Accounted, PassingWork
  <1>5. CASE DeviceCommand \/ OutputCommand \/ OtherCommand
    <2>1. Worked
      BY <1>5, DeviceCommandWorked, OutputCommandWorked, OtherCommandWorked
    <2>2. stack # <<>> /\ (Carries \/ Reports)
      BY <2>1 DEF Worked, Alive
    <2>3. CASE Reports
      BY <1>4, <2>3, NestedPassing DEF Reports
    <2>. QED BY <2>2, <2>3, CarriesAccounted DEF TypeOK
  <1>6. CASE Callback
    <2>1. /\ stack # <<>>
          /\ \/ Carries
             \/ \E fd \in Fds : deviceLost(fd)
             \/ \E fd \in Fds, k \in Keys : forwardFails(fd, k)
      BY <1>6, CallbackWorked DEF Alive
    <2>2. ASSUME NEW fd \in Fds, NEW k \in Keys, forwardFails(fd, k) PROVE Goal
      <3>1. PICK new \in Seq(PassingWork) : stack' = new \o Tail(stack)
        BY <2>2, LostPushes DEF forwardFails
      <3>. QED BY <2>1, <3>1, DoneAccounted DEF TypeOK
    <2>. QED BY <2>1, <2>2, CarriesAccounted, LossAccounted DEF TypeOK
  <1>7. CASE Removal
    <2>1. CASE FinishLostOutput
      <3>1. stack # <<>> /\ Top \in WorkItem
        BY <2>1, TopType DEF FinishLostOutput, Pending, TypeOK
      <3>2. \/ stack' = fireEvent(None, "grab-changed") \o Tail(stack)
            \/ stack' = Tail(stack)
            \/ Throw
        BY <2>1 DEF FinishLostOutput, grab
      <3>3. None \in Clients /\ Top.client \in Clients
        BY <3>1 DEF Clients, WorkItem
      <3>4. fireEvent(None, "grab-changed") \in Seq(PassingWork)
        BY <3>3, FireNested, NestedPassing DEF TypeOK, Events
      <3>5. CASE Throw
        <4>1. stack' = ReplyTo(Top.client) \/ stack' = <<>>
          BY <3>5 DEF Throw, Die
        <4>2. ReplyTo(Top.client) \in Seq(PassingWork)
          BY <3>3, ReplyNested, NestedPassing
        <4>. QED BY <1>2, <1>4, <4>1, <4>2
      <3>. QED BY <3>1, <3>2, <3>4, <3>5, DoneAccounted, PopAccounted DEF TypeOK
    <2>2. CASE eraseOutput
      <3>1. stack # <<>> /\ (stack' = Tail(stack) \/ stack' = <<>>)
        BY <2>2 DEF eraseOutput, Pending, Die
      <3>. QED BY <1>2, <3>1, PopAccounted DEF TypeOK
    <2>3. CASE removeUnknown \/ removeDangling
      BY <1>2, <2>3 DEF removeUnknown, removeDangling, Die
    <2>4. ASSUME NEW fd \in Fds, finishClientRemoval(fd) \/ finishDeviceRemoval(fd)
          PROVE  Goal
      BY <1>3, <2>4 DEF finishClientRemoval, finishDeviceRemoval
    <2>. QED BY <1>7, <2>1, <2>2, <2>3, <2>4, ErasingAccounted DEF Removal
  <1>8. CASE processCommandQueue
    <2>1. PICK command : command = Head(gCommandQueue)
      OBVIOUS
    <2>2. gCommandQueue # <<>> /\ stack' = Run(command.client, "none", Text[command.text])
      BY <1>8, <2>1 DEF processCommandQueue
    <2>3. command \in [client : gCommandClients \cup {None}, text : Texts]
      BY <1>1, <2>1, <2>2, HeadTailProperties DEF LinesFit
    <2>4. command.client \in Clients /\ Text[command.text] \in Seq(Command)
      BY <2>3, TextAssumption DEF TypeOK, FdType, Clients
    <2>5. Run(command.client, "none", Text[command.text]) \in Seq(Nested(command.client))
      BY <2>4, RunNested
    <2>. QED BY <1>4, <2>2, <2>5, NestedPassing
  <1>9. ASSUME NEW fd \in Fds, dispatch(fd) PROVE Goal
    <2>1. CASE fd \in DOMAIN gFDCBs
      <3>1. PICK error, hup, read :
              /\ error = IF "onError" \in revents[fd] THEN Task("onError", fd) ELSE <<>>
              /\ hup = IF "onHUP" \in revents[fd] THEN Task("onHUP", fd) ELSE <<>>
              /\ read = IF "onRead" \in revents[fd] THEN Task("onRead", fd) ELSE <<>>
        OBVIOUS
      <3>2. stack' = error \o hup \o read
        BY <1>9, <2>1, <3>1 DEF dispatch
      <3>3. {"onError", "onHUP", "onRead"} \subseteq Works \ {"erase", "close"} /\ fd \in Clients
        BY DEF Works, Clients
      <3>4. \A do \in {"onError", "onHUP", "onRead"} : Task(do, fd) \in Seq(PassingWork)
        BY <3>3, TaskPassing
      <3>5. \A q \in {error, hup, read} : q \in Seq(PassingWork)
        BY <3>1, <3>4, EmptySeq
      <3>6. stack' \in Seq(PassingWork)
        BY <3>2, <3>5, ConcatProperties
      <3>. QED BY <1>4, <3>6
    <2>2. CASE fd \notin DOMAIN gFDCBs
      BY <1>3, <1>9, <2>2 DEF dispatch
    <2>. QED BY <2>1, <2>2
  <1>10. CASE Loop /\ ~processCommandQueue /\ \A fd \in Fds : ~dispatch(fd)
    BY <1>2, <1>3, <1>10 DEF Loop, started, processRemoveQueue, sweepDone, dispatchDone,
       dispatchBreak, shutdown
  <1>11. CASE Wake \/ World \/ UNCHANGED vars
    BY <1>3, <1>11 DEF Wake, World, poll, pollInterrupted, signull, unplug, vars
  <1>. QED BY <1>5, <1>6, <1>7, <1>8, <1>9, <1>10, <1>11 DEF Next, Step, Loop, Ended

(* The second half of lostCurrentOutput and of finishOutputRemoval.        *)
Pledge(w) == w.do \in {"erase", "lost grab"}

(* It stays on the stack until it runs, unless the loop ends.              *)
LEMMA PledgesKept ==
    ASSUME TypeOK, WorkFits, LinesFit, [Next]_vars, Alive', pc' # "quitting",
           NEW j \in 1..Len(stack), Pledge(stack[j])
    PROVE  \/ \E i \in 1..Len(stack') : SameTask(stack'[i], stack[j])
           \/ j = 1 /\ (eraseOutput \/ FinishLostOutput)
  <1>. DEFINE Stays == \E i \in 1..Len(stack') : SameTask(stack'[i], stack[j])
  <1>1. Alive
    BY NoRevival
  <1>2. stack # <<>> /\ Top = stack[1] /\ (j = 1 \/ j \in 2..Len(stack))
    <2>1. stack \in Seq(WorkItem) /\ Len(stack) \in Nat
      BY DEF TypeOK, StackType
    <2>2. stack # <<>> /\ Top = stack[1]
      BY <2>1 DEF Top
    <2>3. j = 1 \/ j \in 2..Len(stack)
      BY <2>1
    <2>. QED BY <2>2, <2>3
  <1>3. pc \in {"dispatch", "remove"}
    <2>1. stack[j] \in Fitting(pc, gCommandClients)
      BY <1>1, ItemsOfSeq DEF WorkFits
    <2>. QED BY <2>1 DEF Fitting, FitsIn, Pledge
  <1>4. CASE UNCHANGED stack
    BY <1>4 DEF SameTask
  <1>5. ASSUME RestKept, j # 1 PROVE Stays
    BY <1>2, <1>5 DEF RestKept
  <1>6. CASE DeviceCommand \/ OutputCommand \/ OtherCommand
    <2>1. Worked
      BY <1>6, DeviceCommandWorked, OutputCommandWorked, OtherCommandWorked
    <2>2. Top.do \in {"run", "reply"} /\ Carries
      BY <1>3, <2>1 DEF Worked, Reports, Alive
    <2>3. RestKept /\ j # 1
      BY <1>2, <2>2, CarriesAccounted DEF TypeOK, Pledge
    <2>. QED BY <1>5, <2>3
  <1>7. CASE Callback
    <2>1. /\ Top.do \in {"onError", "onHUP", "onRead", "close"}
          /\ \/ Carries
             \/ \E fd \in Fds : deviceLost(fd)
             \/ \E fd \in Fds, k \in Keys : forwardFails(fd, k)
      BY <1>7, CallbackWorked DEF Alive
    <2>2. j # 1
      BY <1>2, <2>1 DEF Pledge
    <2>3. ASSUME NEW fd \in Fds, NEW k \in Keys, forwardFails(fd, k) PROVE RestKept
      <3>1. PICK new \in Seq(PassingWork) : stack' = new \o Tail(stack)
        BY <2>3, LostPushes DEF forwardFails
      <3>. QED BY <1>2, <3>1, DoneAccounted DEF TypeOK
    <2>4. RestKept
      BY <1>2, <2>1, <2>3, CarriesAccounted, LossAccounted DEF TypeOK
    <2>. QED BY <1>5, <2>2, <2>4
  <1>8. CASE FinishLostOutput
    <2>1. \/ stack' = fireEvent(None, "grab-changed") \o Tail(stack)
          \/ stack' = Tail(stack)
      BY <1>3, <1>8 DEF FinishLostOutput, grab, Throw, Die, Alive
    <2>2. None \in Clients
      BY DEF Clients
    <2>3. fireEvent(None, "grab-changed") \in Seq(PassingWork)
      BY <2>2, FireNested, NestedPassing DEF TypeOK, Events
    <2>4. RestKept
      BY <1>2, <2>1, <2>3, DoneAccounted, PopAccounted DEF TypeOK
    <2>. QED BY <1>5, <1>8, <2>4
  <1>9. CASE eraseOutput
    <2>1. stack' = Tail(stack)
      BY <1>9 DEF eraseOutput, Die, Alive
    <2>2. RestKept
      BY <1>2, <2>1, PopAccounted DEF TypeOK
    <2>. QED BY <1>5, <1>9, <2>2
  <1>10. ASSUME NEW fd \in Fds,
                finishClientRemoval(fd) \/ finishDeviceRemoval(fd) \/ finishOutputRemoval(fd)
         PROVE  FALSE
    BY <1>2, <1>10 DEF finishClientRemoval, finishDeviceRemoval, finishOutputRemoval, Removing
  <1>11. CASE removeUnknown \/ removeDangling
    BY <1>2, <1>11 DEF removeUnknown, removeDangling
  <1>12. CASE Loop
    BY <1>2, <1>3, <1>12 DEF Loop, started, processCommandQueue, processRemoveQueue, sweepDone,
       dispatch, dispatchDone, dispatchBreak, shutdown, Idle
  <1>13. CASE Wake \/ World \/ UNCHANGED vars
    BY <1>2, <1>4, <1>13 DEF Wake, World, poll, pollInterrupted, signull, unplug, vars, Idle
  <1>. QED BY <1>6, <1>7, <1>8, <1>9, <1>10, <1>11, <1>12, <1>13 DEF Next, Step, Removal, Ended

-----------------------------------------------------------------------------
(* Which descriptors steps open and close.                                 *)

(* The callbacks there were are still there.                               *)
CallbacksKept(S) == \A fd \in S : fd \in DOMAIN gFDCBs' /\ gFDCBs'[fd].kind = gFDCBs[fd].kind

Opening(fd) ==
    /\ fd \notin DOMAIN files /\ DOMAIN files' = DOMAIN files \cup {fd}
    /\ CallbacksKept(DOMAIN gFDCBs)
    /\ \/ UNCHANGED gFDAddQueue
       \/ /\ gFDAddQueue' = gFDAddQueue \cup {fd}
          /\ fd \in DOMAIN gFDCBs' /\ gFDCBs'[fd].kind # "output"
    /\ UNCHANGED <<pfds, todo>>

Shutting(fd) ==
    /\ pc = "remove" /\ fd \in DOMAIN files /\ DOMAIN files' = DOMAIN files \ {fd}
    /\ CallbacksKept(DOMAIN gFDCBs \ {fd})
    /\ \/ fd \in todo /\ gFDCBs[fd].kind # "output" /\ todo' = todo \ {fd}
       \/ eraseOutput /\ fd = Top.fd /\ fd \in OutputFds /\ UNCHANGED todo
    /\ UNCHANGED <<pfds, gFDAddQueue>>

Steady == UNCHANGED <<files, gFDCBs, pfds, gFDAddQueue>> /\ todo' \subseteq todo

(* Opening and closing, of the files and their callbacks alike.            *)
LEMMA EnteredKept ==
    ASSUME KindsAgree, NEW fd, fd \notin DOMAIN files, NEW kind, NEW d, NEW id,
           files' = Put(files, fd, kind),
           gFDCBs' = Put(gFDCBs, fd, CallbacksOf(kind, d, id))
    PROVE  /\ DOMAIN files' = DOMAIN files \cup {fd}
           /\ CallbacksKept(DOMAIN gFDCBs)
           /\ fd \in DOMAIN gFDCBs' /\ gFDCBs'[fd].kind = kind
  <1>1. /\ KindsAgree'
        /\ DOMAIN files' = DOMAIN files \cup {fd}
        /\ gFDCBs'[fd] = CallbacksOf(kind, d, id)
        /\ \A f \in DOMAIN files : gFDCBs'[f] = gFDCBs[f]
    BY KindsEntered
  <1>. QED BY <1>1 DEF KindsAgree, CallbacksKept, CallbacksOf

(* A finish handler closes one descriptor and keeps the others' callbacks. *)
LEMMA ClosedKept ==
    ASSUME KindsAgree, NEW fd, Close(fd)
    PROVE  /\ DOMAIN files' = DOMAIN files \ {fd}
           /\ CallbacksKept(DOMAIN gFDCBs \ {fd})
  <1>1. /\ KindsAgree'
        /\ DOMAIN files' = DOMAIN files \ {fd}
        /\ \A f \in DOMAIN files \ {fd} : gFDCBs'[f] = gFDCBs[f]
    BY KindsClosed
  <1>. QED BY <1>1 DEF KindsAgree, CallbacksKept

(* Every step of a living daemon.                                          *)
LEMMA StepsOnFiles ==
    ASSUME TypeOK, OwnersAgree, WorkFits, [Next]_vars, Alive'
    PROVE  \/ \E fd \in Fds : Opening(fd)
           \/ \E fd \in Fds : Shutting(fd)
           \/ processRemoveQueue
           \/ Steady
  <1>. DEFINE Goal == \/ \E fd \in Fds : Opening(fd)
                      \/ \E fd \in Fds : Shutting(fd)
                      \/ processRemoveQueue
                      \/ Steady
  <1>1. Alive /\ KindsAgree /\ OutputsOwn
    BY NoRevival DEF OwnersAgree
  <1>2. ASSUME NEW d \in Devices, addDevice(d) PROVE Goal
    <2>1. PICK fd \in Fds :
            /\ Opens(fd) /\ files' = Put(files, fd, "device")
            /\ gFDCBs' = Put(gFDCBs, fd, CallbacksOf("device", d, getNextInputID))
            /\ gFDAddQueue' = gFDAddQueue \cup {fd}
      BY <1>2 DEF addDevice
    <2>2. UNCHANGED <<pfds, todo>>
      BY <1>2 DEF addDevice, Finish, loopVars
    <2>3. fd \notin DOMAIN files
      BY <2>1 DEF Opens, FreeFds
    <2>. QED BY <1>1, <2>1, <2>2, <2>3, EnteredKept DEF Opening
  <1>3. ASSUME NEW o \in Outputs, NEW resume \in BOOLEAN, addOutput(o, resume) PROVE Goal
    <2>1. PICK fd \in Fds :
            /\ Opens(fd) /\ files' = Put(files, fd, "output")
            /\ gFDCBs' = Put(gFDCBs, fd, CallbacksOf("output", NoName, None))
      BY <1>3 DEF addOutput
    <2>2. UNCHANGED <<pfds, todo, gFDAddQueue>>
      BY <1>3 DEF addOutput, Finish, loopVars
    <2>3. fd \notin DOMAIN files
      BY <2>1 DEF Opens, FreeFds
    <2>. QED BY <1>1, <2>1, <2>2, <2>3, EnteredKept DEF Opening
  <1>4. CASE acceptClient
    <2>1. CASE Throw /\ UNCHANGED fdVars
      BY <1>4, <2>1 DEF acceptClient, Throw, Die, fdVars, loopVars, Steady
    <2>2. ASSUME NEW fd \in Fds, Opens(fd), files' = Put(files, fd, "client"),
                 gFDCBs' = Put(gFDCBs, fd, CallbacksOf("client", NoName, None)),
                 gFDAddQueue' = gFDAddQueue \cup {fd}, UNCHANGED pfds
          PROVE  Goal
      <3>1. fd \notin DOMAIN files
        BY <2>2 DEF Opens, FreeFds
      <3>2. UNCHANGED <<pfds, todo>>
        BY <1>4, <2>2 DEF acceptClient
      <3>. QED BY <1>1, <2>2, <3>1, <3>2, EnteredKept DEF Opening
    <2>. QED BY <1>4, <2>1, <2>2 DEF acceptClient, loopVars
  <1>5. ASSUME NEW fd \in Fds, finishClientRemoval(fd) \/ finishDeviceRemoval(fd) PROVE Goal
    <2>1. /\ pc = "remove" /\ fd \in todo /\ todo' = todo \ {fd} /\ fd \in DOMAIN gFDCBs
          /\ gFDCBs[fd].kind # "output" /\ Close(fd) /\ UNCHANGED <<pfds, gFDAddQueue>>
      BY <1>5 DEF finishClientRemoval, finishDeviceRemoval, Removing, loopVars
    <2>2. fd \in DOMAIN files
      BY <1>1, <2>1 DEF KindsAgree
    <2>. QED BY <1>1, <2>1, <2>2, ClosedKept DEF Shutting
  <1>6. CASE eraseOutput
    <2>1. PICK fd : fd = Top.fd
      OBVIOUS
    <2>2. CASE fd \in OutputFds
      <3>1. Close(fd) /\ UNCHANGED <<pfds, gFDAddQueue, todo>>
        BY <1>6, <2>1, <2>2 DEF eraseOutput, loopVars
      <3>2. pc = "remove"
        <4>1. stack # <<>> /\ Top.do = "erase"
          BY <1>6 DEF eraseOutput, Pending
        <4>2. Top \in Fitting(pc, gCommandClients)
          BY <1>1, <4>1, HeadTailProperties DEF WorkFits, Top
        <4>. QED BY <4>1, <4>2 DEF Fitting, FitsIn
      <3>3. fd \in DOMAIN files /\ fd \in Fds
        BY <1>1, <2>2 DEF OutputsOwn, TypeOK, FdType, Table
      <3>. QED BY <1>1, <1>6, <2>1, <2>2, <3>1, <3>2, <3>3, ClosedKept DEF Shutting
    <2>3. CASE fd \notin OutputFds
      BY <1>6, <2>1, <2>3 DEF eraseOutput, Die, Alive
    <2>. QED BY <2>2, <2>3
  <1>7. CASE DeviceCommand /\ \A d \in Devices : ~addDevice(d)
    <2>1. ASSUME NEW d \in Devices,
                 \/ addDeviceFails(d) \/ addDeviceRefused(d) \/ removeDevice(d) \/ renameDevice(d)
          PROVE  Steady
      BY <2>1 DEF addDeviceFails, addDeviceRefused, removeDevice, renameDevice, Finish, Throw,
         Die, fdVars, loopVars, Steady
    <2>2. ASSUME NEW d \in Devices,
                 \/ \E b \in BOOLEAN : setPersistent(d, b)
                 \/ \E k \in Keys : removeHotkey(d, k) \/ \E t \in Texts : addHotkey(d, k, t)
          PROVE  Steady
      BY <2>2 DEF setPersistent, removeHotkey, addHotkey, Finish, Throw, Die, fdVars, loopVars,
         Steady
    <2>. QED BY <1>7, <2>1, <2>2 DEF DeviceCommand
  <1>8. CASE OutputCommand /\ \A o \in Outputs, resume \in BOOLEAN : ~addOutput(o, resume)
    BY <1>8 DEF OutputCommand, addOutputFails, removeOutput, useOutput, Finish, Throw, Die,
       fdVars, loopVars, Steady
  <1>9. CASE OtherCommand
    <2>1. ASSUME \/ \E x \in States : writeEvents(x)
                 \/ \E e \in Events : removeAction(e) \/ \E t \in Texts : setAction(e, t)
                 \/ \E t \in Texts : sourceCommandFile(t)
                 \/ quit \/ nop \/ unknownCommand \/ toClient \/ stackOverflow
          PROVE  Steady
      BY <2>1 DEF writeEvents, removeAction, setAction, FinishDamaging, sourceCommandFile,
         quit, nop, unknownCommand, toClient, stackOverflow, Finish, Throw, Die, fdVars,
         loopVars, Steady
    <2>2. ASSUME NEW x \in States, grabDevices(x) \/ grabBoth(x) PROVE Steady
      BY <2>2 DEF grabDevices, grabBoth, grab, Finish, Throw, Die, fdVars, loopVars, Steady
    <2>. QED BY <1>9, <2>1, <2>2 DEF OtherCommand
  <1>10. CASE Callback /\ ~acceptClient
    <2>1. UNCHANGED <<todo, fdVars>>
      BY <1>10 DEF Callback, closeDevice, readCommand, disconnectClient, deviceLost, readFails,
         tryHotkey, forwardEvent, forwardFails
    <2>2. UNCHANGED pfds
      BY <1>10 DEF Callback, closeDevice, readCommand, disconnectClient, deviceLost, readFails,
         tryHotkey, forwardEvent, forwardFails, lostCurrentOutput, loopVars
    <2>. QED BY <2>1, <2>2 DEF fdVars, Steady
  <1>11. CASE FinishLostOutput \/ removeUnknown \/ removeDangling
    BY <1>11 DEF FinishLostOutput, grab, removeUnknown, removeDangling, Throw, Die, fdVars,
       loopVars, Steady
  <1>12. ASSUME NEW fd \in Fds, finishOutputRemoval(fd) PROVE Goal
    BY <1>12 DEF finishOutputRemoval, lostCurrentOutput, fdVars, loopVars, Steady
  <1>13. CASE Loop /\ ~processRemoveQueue
    <2>1. CASE shutdown
      BY <2>1 DEF shutdown, Alive
    <2>2. CASE ~shutdown
      BY <1>13, <2>2 DEF Loop, started, processCommandQueue, sweepDone, dispatch, dispatchDone,
         dispatchBreak, fdVars, Steady
    <2>. QED BY <2>1, <2>2
  <1>14. CASE Wake \/ World \/ UNCHANGED vars
    BY <1>14 DEF Wake, poll, pollInterrupted, World, signull, unplug, vars, fdVars, loopVars, Steady
  <1>. QED BY <1>2, <1>3, <1>4, <1>5, <1>6, <1>7, <1>8, <1>9, <1>10, <1>11, <1>12, <1>13, <1>14
       DEF Next, Step, Removal, Ended

(* The loop moves from phase to phase, everything else stays in its own.   *)
LEMMA StepsOnPhase ==
    ASSUME TypeOK, WorkFits, [Next]_vars, Alive'
    PROVE  /\ \/ UNCHANGED pc
              \/ started \/ processRemoveQueue \/ sweepDone \/ poll \/ pollInterrupted
              \/ dispatchDone \/ dispatchBreak
           /\ UNCHANGED revents \/ poll \/ dispatchBreak \/ \E fd \in Fds : dispatch(fd)
  <1>1. Alive
    BY NoRevival
  <1>2. CASE DeviceCommand
    BY <1>2 DEF DeviceCommand, addDevice, addDeviceFails, addDeviceRefused, removeDevice,
       renameDevice, setPersistent, removeHotkey, addHotkey, Finish, Throw, Die, Alive, loopVars
  <1>3. CASE OutputCommand
    BY <1>3 DEF OutputCommand, addOutput, addOutputFails, removeOutput, useOutput, Finish, Throw,
       Die, Alive, loopVars
  <1>4. CASE OtherCommand
    <2>1. ASSUME \/ \E x \in States : writeEvents(x)
                 \/ \E e \in Events : removeAction(e) \/ \E t \in Texts : setAction(e, t)
                 \/ \E t \in Texts : sourceCommandFile(t)
                 \/ quit \/ nop \/ unknownCommand \/ toClient \/ stackOverflow
          PROVE  UNCHANGED <<pc, revents>>
      BY <2>1 DEF writeEvents, removeAction, setAction, FinishDamaging, sourceCommandFile,
         quit, nop, unknownCommand, toClient, stackOverflow, Finish, Throw, Die, Alive, loopVars
    <2>2. ASSUME NEW x \in States, grabDevices(x) \/ grabBoth(x)
          PROVE  UNCHANGED <<pc, revents>>
      BY <2>2 DEF grabDevices, grabBoth, grab, Finish, Throw, Die, Alive, loopVars
    <2>. QED BY <1>4, <2>1, <2>2 DEF OtherCommand
  <1>5. CASE Callback
    BY <1>5 DEF Callback, acceptClient, closeDevice, readCommand, disconnectClient, deviceLost,
       readFails, tryHotkey, forwardEvent, forwardFails, lostCurrentOutput, Throw, Die, Alive,
       loopVars
  <1>6. CASE Removal
    BY <1>6 DEF Removal, finishClientRemoval, finishDeviceRemoval, finishOutputRemoval,
       eraseOutput, FinishLostOutput, grab, removeUnknown, removeDangling, lostCurrentOutput,
       Throw, Die, Alive, loopVars
  <1>7. CASE Loop
    BY <1>7 DEF Loop, started, processCommandQueue, processRemoveQueue, sweepDone, dispatch,
       dispatchDone, dispatchBreak, shutdown, Alive
  <1>8. CASE Wake \/ World \/ UNCHANGED vars
    BY <1>8 DEF Wake, pollInterrupted, poll, World, signull, unplug, vars, loopVars
  <1>. QED BY <1>2, <1>3, <1>4, <1>5, <1>6, <1>7, <1>8 DEF Next, Step, Ended

-----------------------------------------------------------------------------
(* Sweeps that only lose the current output.                               *)

(* No output is made current while a sweep goes on.                        *)
OnlyLosesCurrent ==
    pc = "remove" => gCurrentOutput'.fd \in {gCurrentOutput.fd, None}

(* What is polled, or will be, has callbacks, and they are no output's.    *)
PolledKnown ==
    Alive => \A fd \in pfds \cup gFDAddQueue : fd \in DOMAIN gFDCBs /\ gFDCBs[fd].kind # "output"
ReportsPolled == pc = "dispatch" => DOMAIN revents \subseteq pfds

(* What removeFD was called on is open until its finish handler runs, and  *)
(* no longer polled once the sweep has begun.                              *)
QueueOpen ==
    /\ Alive /\ pc # "remove" => gFDRemoveQueue \subseteq DOMAIN files
    /\ pc = "remove" => todo \subseteq DOMAIN files /\ todo \cap (pfds \cup gFDAddQueue) = {}

(* A handler that is cut in two finds in its second half what it left.     *)
CloseOpen ==
    Alive => \A i \in 1..Len(stack) : stack[i].do = "close" => stack[i].fd \in DOMAIN files
EraseOpen ==
    Alive => \A i \in 1..Len(stack) : stack[i].do = "erase" =>
               /\ i = Len(stack)
               /\ stack[i].fd \in OutputFds
               /\ stack[i].fd \notin todo /\ stack[i].fd # gCurrentOutput.fd

(* Nothing polled is closed.                                               *)
LEMMA PolledStayKnown ==
    ASSUME TypeOK, OwnersAgree, WorkFits, PolledKnown, QueueOpen, [Next]_vars
    PROVE  PolledKnown'
  <1>. SUFFICES ASSUME Alive', NEW fd \in (pfds \cup gFDAddQueue)'
                PROVE  fd \in DOMAIN gFDCBs' /\ gFDCBs'[fd].kind # "output"
    BY DEF PolledKnown
  <1>1. Alive /\ KindsAgree /\ OutputsOwn
        /\ \A f \in pfds \cup gFDAddQueue : f \in DOMAIN gFDCBs /\ gFDCBs[f].kind # "output"
    BY NoRevival DEF OwnersAgree, PolledKnown
  <1>2. ASSUME NEW f \in Fds, Opening(f)
        PROVE  fd \in DOMAIN gFDCBs' /\ gFDCBs'[fd].kind # "output"
    BY <1>1, <1>2 DEF Opening, CallbacksKept
  <1>3. ASSUME NEW f \in Fds, Shutting(f)
        PROVE  fd \in DOMAIN gFDCBs' /\ gFDCBs'[fd].kind # "output"
    <2>1. fd \in pfds \cup gFDAddQueue
      BY <1>3 DEF Shutting
    <2>2. fd # f
      <3>1. CASE f \in todo
        BY <1>3, <2>1, <3>1 DEF Shutting, QueueOpen
      <3>2. CASE f \in OutputFds
        <4>1. gFDCBs[f].kind = "output"
          BY <1>1, <3>2 DEF KindsAgree, OutputsOwn
        <4>. QED BY <1>1, <2>1, <4>1
      <3>. QED BY <1>3, <3>1, <3>2 DEF Shutting
    <2>. QED BY <1>1, <1>3, <2>1, <2>2 DEF Shutting, CallbacksKept
  <1>4. CASE processRemoveQueue
    BY <1>1, <1>4 DEF processRemoveQueue, Polled
  <1>5. CASE Steady
    BY <1>1, <1>5 DEF Steady
  <1>. QED BY <1>2, <1>3, <1>4, <1>5, StepsOnFiles

(* What is reported is polled.                                             *)
LEMMA ReportsStayPolled ==
    ASSUME TypeOK, OwnersAgree, WorkFits, ReportsPolled, [Next]_vars
    PROVE  ReportsPolled'
  <1>. SUFFICES ASSUME pc' = "dispatch" PROVE DOMAIN revents' \subseteq pfds'
    BY DEF ReportsPolled
  <1>1. Alive'
    BY DEF Alive
  <1>2. pfds' = pfds
    BY <1>1, StepsOnFiles DEF Opening, Shutting, processRemoveQueue, Steady
  <1>3. CASE poll
    BY <1>2, <1>3 DEF poll, GoneFds
  <1>4. ~dispatchBreak /\ (poll \/ UNCHANGED pc)
    BY <1>1, StepsOnPhase DEF started, processRemoveQueue, sweepDone, AfterSweep, pollInterrupted,
       dispatchDone, dispatchBreak, AfterEINTR, NextRound
  <1>5. ASSUME NEW fd \in Fds, dispatch(fd), UNCHANGED pc
        PROVE  DOMAIN revents' \subseteq pfds'
    <2>1. DOMAIN revents' = DOMAIN revents \ {fd}
      BY <1>5, WithoutDomain DEF dispatch
    <2>. QED BY <1>2, <1>5, <2>1 DEF ReportsPolled
  <1>. QED BY <1>1, <1>2, <1>3, <1>4, <1>5, StepsOnPhase DEF ReportsPolled

(* What removeFD is called on outside of a sweep is open.                  *)
LEMMA QueuedOpen ==
    ASSUME TypeOK, OwnersAgree, WorkFits, CurrentOutputOpen, CloseOpen, [Next]_vars, Alive',
           pc # "remove"
    PROVE  gFDRemoveQueue' \subseteq gFDRemoveQueue \cup DOMAIN files'
  <1>. DEFINE Goal == gFDRemoveQueue' \subseteq gFDRemoveQueue \cup DOMAIN files'
  <1>1. Alive /\ KindsAgree /\ ClientsOwn /\ OutputsOwn /\ DevicesOwn
    BY NoRevival DEF OwnersAgree
  <1>2. DOMAIN files \subseteq DOMAIN files'
    BY StepsOnFiles DEF Opening, Shutting, processRemoveQueue, Steady
  <1>3. /\ OutputFds \subseteq DOMAIN files /\ BreakableFds \subseteq DOMAIN files
        /\ gCommandClients \subseteq DOMAIN files
        /\ \A d \in DOMAIN gInputs : gInputs[d].fd \in DOMAIN files
        /\ \A o \in DOMAIN gOutputs : gOutputs[o] \in DOMAIN files
    BY <1>1 DEF ClientsOwn, OutputsOwn, DevicesOwn, OutputFds, BreakableFds
  <1>4. ASSUME NEW S \in SUBSET DOMAIN files', removeFD(S) PROVE Goal
    BY <1>4 DEF removeFD
  <1>5. CASE UNCHANGED queueVars
    BY <1>5 DEF queueVars
  <1>6. CASE DeviceCommand
    <2>1. ASSUME NEW d \in Devices, addDevice(d) PROVE Goal
      <3>1. PICK failed \in SUBSET BreakableFds : removeFD(failed)
        BY <2>1 DEF addDevice, announceDevice
      <3>. QED BY <1>2, <1>3, <1>4, <3>1
    <2>2. ASSUME NEW d \in Devices, removeDevice(d) PROVE Goal
      BY <1>2, <1>3, <1>4, <1>5, <2>2 DEF removeDevice
    <2>3. CASE \A d \in Devices : ~addDevice(d) /\ ~removeDevice(d)
      BY <1>5, <1>6, <2>3 DEF DeviceCommand, addDeviceFails, addDeviceRefused, renameDevice,
         setPersistent, removeHotkey, addHotkey
    <2>. QED BY <2>1, <2>2, <2>3
  <1>7. CASE OutputCommand
    <2>1. ASSUME NEW o \in Outputs, NEW resume \in BOOLEAN, addOutput(o, resume) PROVE Goal
      <3>1. PICK fd \in Fds : files' = Put(files, fd, "output")
                              /\ (removeFD({fd}) \/ UNCHANGED queueVars)
        BY <2>1 DEF addOutput
      <3>2. DOMAIN files' = DOMAIN files \cup {fd}
        BY <3>1, PutDomain
      <3>. QED BY <1>4, <1>5, <3>1, <3>2
    <2>2. ASSUME NEW o \in Outputs, removeOutput(o) PROVE Goal
      BY <1>2, <1>3, <1>4, <1>5, <2>2 DEF removeOutput
    <2>3. CASE /\ \A o \in Outputs : ~removeOutput(o)
               /\ \A o \in Outputs, resume \in BOOLEAN : ~addOutput(o, resume)
      BY <1>5, <1>7, <2>3 DEF OutputCommand, addOutputFails, useOutput
    <2>. QED BY <2>1, <2>2, <2>3
  <1>8. CASE OtherCommand
    <2>1. CASE toClient
      <3>1. stack # <<>> /\ Top.do = "reply"
        BY <2>1 DEF toClient, Pending
      <3>2. Top \in Fitting(pc, gCommandClients)
        BY <1>1, <3>1, HeadTailProperties DEF WorkFits, Top
      <3>3. Top.client \in gCommandClients
        BY <3>1, <3>2 DEF Fitting, FitsIn
      <3>. QED BY <1>2, <1>3, <1>4, <1>5, <2>1, <3>3 DEF toClient
    <2>2. CASE ~toClient
      BY <1>5, <1>8, <2>2 DEF OtherCommand, writeEvents, grabDevices, grabBoth, removeAction,
         setAction, sourceCommandFile, quit, nop, unknownCommand, stackOverflow
    <2>. QED BY <2>1, <2>2
  <1>9. CASE Callback
    <2>1. CASE closeDevice
      <3>1. stack # <<>> /\ Top.do = "close" /\ removeFD({Top.fd})
        BY <2>1 DEF closeDevice, Pending
      <3>2. Top = stack[1] /\ 1 \in 1..Len(stack)
        BY <3>1 DEF Top, TypeOK, StackType
      <3>3. Top.fd \in DOMAIN files
        BY <1>1, <3>1, <3>2 DEF CloseOpen
      <3>. QED BY <1>2, <1>4, <3>1, <3>3
    <2>2. ASSUME NEW fd \in Fds, disconnectClient(fd) \/ readFails(fd) PROVE Goal
      <3>1. fd \in DOMAIN gFDCBs /\ removeFD({fd})
        BY <2>2 DEF disconnectClient, readFails, Called
      <3>. QED BY <1>1, <1>2, <1>4, <3>1 DEF KindsAgree
    <2>3. ASSUME NEW fd \in Fds, NEW k \in Keys, forwardFails(fd, k) PROVE Goal
      <3>1. gCurrentOutput.fd # None /\ removeFD({gCurrentOutput.fd})
        BY <2>3 DEF forwardFails, Forwards, Dropped
      <3>2. gCurrentOutput.fd \in DOMAIN files
        BY <1>1, <1>3, <3>1 DEF CurrentOutputOpen
      <3>. QED BY <1>2, <1>4, <3>1, <3>2
    <2>4. CASE /\ ~closeDevice /\ \A fd \in Fds : ~disconnectClient(fd) /\ ~readFails(fd)
               /\ \A fd \in Fds, k \in Keys : ~forwardFails(fd, k)
      BY <1>5, <1>9, <2>4
         DEF Callback, acceptClient, readCommand, deviceLost, tryHotkey, forwardEvent
    <2>. QED BY <2>1, <2>2, <2>3, <2>4
  <1>10. CASE Removal
    <2>1. CASE FinishLostOutput
      BY <1>5, <2>1 DEF FinishLostOutput
    <2>2. CASE eraseOutput
      BY <1>5, <2>2 DEF eraseOutput
    <2>. QED BY <1>10, <2>1, <2>2 DEF Removal, finishClientRemoval, finishDeviceRemoval,
                finishOutputRemoval, removeUnknown, removeDangling, Removing
  <1>11. CASE Loop
    BY <1>5, <1>11 DEF Loop, started, processCommandQueue, processRemoveQueue, sweepDone, dispatch,
       dispatchDone, dispatchBreak, shutdown, Idle
  <1>12. CASE Wake \/ World \/ UNCHANGED vars
    BY <1>5, <1>12 DEF Wake, poll, pollInterrupted, World, signull, unplug, vars
  <1>. QED BY <1>6, <1>7, <1>8, <1>9, <1>10, <1>11, <1>12 DEF Next, Step, Ended

(* Queued descriptors stay open.                                           *)
LEMMA QueueStaysOpen ==
    ASSUME TypeOK, OwnersAgree, WorkFits, CurrentOutputOpen, CloseOpen, EraseOpen, QueueOpen,
           [Next]_vars
    PROVE  QueueOpen'
  <1>. SUFFICES ASSUME Alive'
                PROVE  /\ pc' # "remove" => gFDRemoveQueue' \subseteq DOMAIN files'
                       /\ pc' = "remove" => /\ todo' \subseteq DOMAIN files'
                                            /\ todo' \cap (pfds \cup gFDAddQueue)' = {}
    BY DEF QueueOpen, Alive
  <1>1. Alive
    BY NoRevival
  <1>2. CASE pc = "remove" /\ pc' = "remove"
    <2>1. todo \subseteq DOMAIN files /\ todo \cap (pfds \cup gFDAddQueue) = {}
      BY <1>2 DEF QueueOpen
    <2>2. ASSUME NEW fd \in Fds, Opening(fd)
          PROVE  todo' \subseteq DOMAIN files' /\ todo' \cap (pfds \cup gFDAddQueue)' = {}
      BY <2>1, <2>2 DEF Opening
    <2>3. ASSUME NEW fd \in Fds, Shutting(fd)
          PROVE  todo' \subseteq DOMAIN files' /\ todo' \cap (pfds \cup gFDAddQueue)' = {}
      <3>1. CASE todo' = todo \ {fd}
        BY <2>1, <2>3, <3>1 DEF Shutting
      <3>2. CASE eraseOutput /\ fd = Top.fd /\ UNCHANGED todo
        <4>1. stack # <<>> /\ Top.do = "erase"
          BY <3>2 DEF eraseOutput, Pending
        <4>2. Top = stack[1] /\ 1 \in 1..Len(stack)
          BY <4>1 DEF Top, TypeOK, StackType
        <4>3. fd \notin todo
          BY <1>1, <3>2, <4>1, <4>2 DEF EraseOpen
        <4>. QED BY <2>1, <2>3, <3>2, <4>3 DEF Shutting
      <3>. QED BY <2>3, <3>1, <3>2 DEF Shutting
    <2>4. ~processRemoveQueue
      BY <1>2 DEF processRemoveQueue, Idle
    <2>5. ASSUME Steady
          PROVE  todo' \subseteq DOMAIN files' /\ todo' \cap (pfds \cup gFDAddQueue)' = {}
      BY <2>1, <2>5 DEF Steady
    <2>. QED BY <1>2, <2>2, <2>3, <2>4, <2>5, StepsOnFiles
  <1>3. CASE pc = "remove" /\ pc' # "remove"
    BY <1>3, StepsOnPhase DEF started, processRemoveQueue, sweepDone, poll, pollInterrupted,
       dispatchDone, dispatchBreak, Idle
  <1>4. CASE pc # "remove" /\ pc' = "remove"
    <2>1. processRemoveQueue
      BY <1>4, StepsOnPhase DEF started, sweepDone, AfterSweep, poll, pollInterrupted,
         dispatchDone, dispatchBreak, AfterEINTR, NextRound, Idle
    <2>. QED BY <1>1, <1>4, <2>1 DEF processRemoveQueue, Sweep, Polled, QueueOpen
  <1>5. CASE pc # "remove" /\ pc' # "remove"
    <2>1. gFDRemoveQueue \subseteq DOMAIN files
      BY <1>1, <1>5 DEF QueueOpen
    <2>2. DOMAIN files \subseteq DOMAIN files'
      BY <1>5, StepsOnFiles DEF Opening, Shutting, processRemoveQueue, Steady
    <2>. QED BY <1>5, <2>1, <2>2, QueuedOpen
  <1>. QED BY <1>2, <1>3, <1>4, <1>5

(* The second half of a callback finds its descriptor open.                *)
LEMMA CloseStaysOpen ==
    ASSUME TypeOK, OwnersAgree, WorkFits, LinesFit, CloseOpen, [Next]_vars
    PROVE  CloseOpen'
  <1>. SUFFICES ASSUME Alive', NEW i \in 1..Len(stack'), stack'[i].do = "close"
                PROVE  stack'[i].fd \in DOMAIN files'
    BY DEF CloseOpen
  <1>1. Alive /\ KindsAgree
    BY NoRevival DEF OwnersAgree
  <1>2. Accounted(i)
    BY StackAccounted
  <1>3. ASSUME NEW fd \in Fds, deviceLost(fd), stack'[i].fd = fd
        PROVE  stack'[i].fd \in DOMAIN files'
    <2>1. fd \in DOMAIN gFDCBs /\ UNCHANGED files
      BY <1>3 DEF deviceLost, Called, fdVars
    <2>. QED BY <1>1, <1>3, <2>1 DEF KindsAgree
  <1>4. CASE CarriedAt(i)
    <2>1. PICK j \in 1..Len(stack) : SameTask(stack'[i], stack[j])
      BY <1>4 DEF CarriedAt
    <2>2. stack[j].do = "close" /\ stack'[i].fd = stack[j].fd
      BY <2>1 DEF SameTask
    <2>3. stack[j] \in Fitting(pc, gCommandClients)
      BY <1>1, ItemsOfSeq DEF WorkFits
    <2>4. pc = "dispatch"
      BY <2>2, <2>3 DEF Fitting, FitsIn
    <2>5. DOMAIN files \subseteq DOMAIN files'
      BY <2>4, StepsOnFiles DEF Opening, Shutting, processRemoveQueue, Idle, Steady
    <2>. QED BY <1>1, <2>2, <2>5 DEF CloseOpen
  <1>. QED BY <1>2, <1>3, <1>4 DEF Accounted, Passing, Closing, Erasing

-----------------------------------------------------------------------------
(* The current output.                                                     *)

(* Every step that has to do with it.                                      *)
LEMMA StepsOnCurrent ==
    ASSUME [Next]_vars
    PROVE  \/ \E o \in Outputs, resume \in BOOLEAN : addOutput(o, resume)
           \/ \E o \in Outputs : useOutput(o)
           \/ \E fd \in Fds, k \in Keys : forwardFails(fd, k)
           \/ \E fd \in Fds : finishOutputRemoval(fd)
           \/ eraseOutput
           \/ UNCHANGED <<gOutputs, gCurrentOutput>>
  <1>1. CASE DeviceCommand
    BY <1>1 DEF DeviceCommand, addDevice, addDeviceFails, addDeviceRefused, removeDevice,
       renameDevice, setPersistent, removeHotkey, addHotkey, outputVars
  <1>2. CASE OutputCommand
    BY <1>2 DEF OutputCommand, addOutputFails, removeOutput, outputVars
  <1>3. CASE OtherCommand
    BY <1>3 DEF OtherCommand, writeEvents, grabDevices, grabBoth, removeAction, setAction,
       sourceCommandFile, quit, nop, unknownCommand, toClient, stackOverflow, outputVars
  <1>4. CASE Callback
    BY <1>4 DEF Callback, acceptClient, closeDevice, readCommand, disconnectClient,
       deviceLost, readFails, tryHotkey, forwardEvent, outputVars
  <1>5. CASE Removal
    BY <1>5 DEF Removal, finishClientRemoval, finishDeviceRemoval, FinishLostOutput,
       removeUnknown, removeDangling, outputVars
  <1>6. CASE Loop
    BY <1>6 DEF Loop, started, processCommandQueue, processRemoveQueue, sweepDone, dispatch,
       dispatchDone, dispatchBreak, shutdown, outputVars
  <1>7. CASE Wake \/ World \/ UNCHANGED vars
    BY <1>7 DEF Wake, World, poll, pollInterrupted, signull, unplug, vars, outputVars
  <1>. QED BY <1>1, <1>2, <1>3, <1>4, <1>5, <1>6, <1>7 DEF Next, Step, Ended

(* What a new output and a dropped one change.                             *)
LEMMA OutputEntered ==
    ASSUME NEW o \in Outputs, NEW resume \in BOOLEAN, addOutput(o, resume)
    PROVE  /\ UNCHANGED gCurrentOutput /\ OutputFds \subseteq OutputFds'
           /\ \A p \in DOMAIN gOutputs : p \in DOMAIN gOutputs' /\ gOutputs'[p] = gOutputs[p]
  <1>1. PICK fd : gOutputs' = Put(gOutputs, o, fd)
    BY DEF addOutput
  <1>2. o \notin DOMAIN gOutputs /\ UNCHANGED gCurrentOutput
    BY DEF addOutput
  <1>3. \A p \in DOMAIN gOutputs : p \in DOMAIN gOutputs' /\ gOutputs'[p] = gOutputs[p]
    BY <1>1, <1>2 DEF Put
  <1>. QED BY <1>2, <1>3 DEF OutputFds

(* What dropping an output leaves of the table of outputs.                 *)
LEMMA OutputErased ==
    ASSUME TypeOK, eraseOutput, Alive'
    PROVE  /\ UNCHANGED gCurrentOutput /\ stack' = Tail(stack) /\ Top.fd \in OutputFds
           /\ \A p \in DOMAIN gOutputs : gOutputs[p] # Top.fd
                => p \in DOMAIN gOutputs' /\ gOutputs'[p] = gOutputs[p]
  <1>1. PICK fd : fd = Top.fd
    OBVIOUS
  <1>2. fd \in OutputFds
    BY <1>1 DEF eraseOutput, Die, Alive
  <1>3. /\ gOutputs' = Without(gOutputs, {o \in DOMAIN gOutputs : gOutputs[o] = fd})
        /\ stack' = Tail(stack) /\ UNCHANGED gCurrentOutput
    BY <1>1, <1>2 DEF eraseOutput
  <1>4. \A p \in DOMAIN gOutputs : gOutputs[p] # fd
          => p \in DOMAIN gOutputs' /\ gOutputs'[p] = gOutputs[p]
    BY <1>3 DEF Without, Restrict
  <1>. QED BY <1>1, <1>2, <1>3, <1>4

(* The current output is dropped only after it is not current any more.    *)
LEMMA CurrentStaysOpen ==
    ASSUME TypeOK, EraseOpen, CurrentOutputOpen, [Next]_vars
    PROVE  CurrentOutputOpen'
  <1>. SUFFICES ASSUME Alive', gCurrentOutput'.fd # None
                PROVE  /\ gCurrentOutput'.name \in DOMAIN gOutputs'
                       /\ gOutputs'[gCurrentOutput'.name] = gCurrentOutput'.fd
    BY DEF CurrentOutputOpen
  <1>1. Alive
    BY NoRevival
  <1>2. ASSUME NEW o \in Outputs, NEW resume \in BOOLEAN, addOutput(o, resume)
        PROVE  CurrentOutputOpen'
    BY <1>1, <1>2, OutputEntered DEF CurrentOutputOpen
  <1>3. ASSUME NEW o \in Outputs, useOutput(o)
        PROVE  CurrentOutputOpen'
    <2>1. /\ UNCHANGED gOutputs
          /\ \/ gCurrentOutput' = [fd |-> gOutputs[o], name |-> o] /\ o \in DOMAIN gOutputs
             \/ UNCHANGED gCurrentOutput
      BY <1>3 DEF useOutput
    <2>. QED BY <1>1, <2>1 DEF CurrentOutputOpen
  <1>4. ASSUME NEW after, lostCurrentOutput(after)
        PROVE  FALSE
    BY <1>4 DEF lostCurrentOutput, LostOutput
  <1>5. ASSUME NEW fd \in Fds, finishOutputRemoval(fd)
        PROVE  UNCHANGED <<gOutputs, gCurrentOutput>>
    BY <1>4, <1>5 DEF finishOutputRemoval, outputVars
  <1>6. CASE eraseOutput
    <2>1. stack # <<>> /\ Top.do = "erase"
      BY <1>6 DEF eraseOutput, Pending
    <2>2. Top = stack[1] /\ 1 \in 1..Len(stack)
      BY <2>1 DEF Top, TypeOK, StackType
    <2>3. Top.fd # gCurrentOutput.fd
      BY <1>1, <2>1, <2>2 DEF EraseOpen
    <2>. QED BY <1>1, <1>6, <2>3, OutputErased DEF CurrentOutputOpen
  <1>7. CASE UNCHANGED <<gOutputs, gCurrentOutput>>
    BY <1>1, <1>7 DEF CurrentOutputOpen
  <1>. QED BY <1>2, <1>3, <1>4, <1>5, <1>6, <1>7, StepsOnCurrent DEF forwardFails, CurrentOutputOpen

(* An output that is about to be dropped does not come back.               *)
LEMMA EraseStaysOpen ==
    ASSUME TypeOK, OwnersAgree, WorkFits, LinesFit, EraseOpen, [Next]_vars, OnlyLosesCurrent
    PROVE  EraseOpen'
  <1>. SUFFICES ASSUME Alive', NEW i \in 1..Len(stack'), stack'[i].do = "erase"
                PROVE  /\ i = Len(stack')
                       /\ stack'[i].fd \in OutputFds'
                       /\ stack'[i].fd \notin todo' /\ stack'[i].fd # gCurrentOutput'.fd
    BY DEF EraseOpen
  <1>1. Alive /\ KindsAgree /\ OutputsOwn
    BY NoRevival DEF OwnersAgree
  <1>2. Accounted(i)
    BY StackAccounted
  <1>3. OutputFds \subseteq Fds /\ None \notin Fds
    <2>1. OutputFds \subseteq Fds
      BY DEF TypeOK, OutputType, Table, OutputFds
    <2>2. None \notin Fds
      BY DaemonAssumption DEF Fds, None
    <2>. QED BY <2>1, <2>2
  <1>4. ASSUME NEW fd \in Fds, finishOutputRemoval(fd), i = Len(stack'), stack'[i].fd = fd
        PROVE  /\ stack'[i].fd \in OutputFds'
               /\ stack'[i].fd \notin todo' /\ stack'[i].fd # gCurrentOutput'.fd
    <2>1. /\ fd \in DOMAIN gFDCBs /\ gFDCBs[fd].kind = "output"
          /\ todo' = todo \ {fd} /\ UNCHANGED gOutputs
      BY <1>4 DEF finishOutputRemoval, Removing, lostCurrentOutput, outputVars
    <2>2. fd \in OutputFds /\ UNCHANGED OutputFds
      BY <1>1, <2>1 DEF KindsAgree, OutputsOwn, OutputFds
    <2>3. gCurrentOutput'.fd # fd
      <3>1. CASE IsCurrent(fd)
        BY <1>3, <1>4, <3>1 DEF finishOutputRemoval, lostCurrentOutput, LostOutput
      <3>2. CASE ~IsCurrent(fd)
        BY <1>4, <3>2 DEF finishOutputRemoval, IsCurrent, outputVars
      <3>. QED BY <3>1, <3>2
    <2>. QED BY <1>4, <2>1, <2>2, <2>3
  <1>5. CASE CarriedAt(i)
    <2>1. PICK j \in 1..Len(stack) : /\ SameTask(stack'[i], stack[j])
                                     /\ Len(stack') - i = Len(stack) - j
      BY <1>5 DEF CarriedAt
    <2>2. stack[j].do = "erase" /\ stack'[i].fd = stack[j].fd
      BY <2>1 DEF SameTask
    <2>3. /\ j = Len(stack) /\ stack[j].fd \in OutputFds
          /\ stack[j].fd \notin todo /\ stack[j].fd # gCurrentOutput.fd
      BY <1>1, <2>2 DEF EraseOpen
    <2>4. stack \in Seq(WorkItem) /\ stack' \in Seq(WorkItem)
      BY StepTypes DEF TypeOK, StackType
    <2>5. i = Len(stack') /\ Len(stack) \in Nat /\ Len(stack) > 0
      BY <2>1, <2>3, <2>4
    <2>6. pc = "remove"
      <3>1. stack[j] \in Fitting(pc, gCommandClients)
        BY <1>1, ItemsOfSeq DEF WorkFits
      <3>. QED BY <2>2, <3>1 DEF Fitting, FitsIn
    <2>7. todo' \subseteq todo
      BY <2>6, StepsOnFiles DEF Opening, Shutting, processRemoveQueue, Idle, Steady
    <2>8. gCurrentOutput'.fd # stack[j].fd
      BY <1>3, <2>3, <2>6 DEF OnlyLosesCurrent
    <2>9. ~eraseOutput
      <3>. SUFFICES ASSUME eraseOutput PROVE FALSE
        OBVIOUS
      <3>1. stack # <<>> /\ Top.do = "erase"
        BY DEF eraseOutput, Pending
      <3>2. Top = stack[1] /\ 1 \in 1..Len(stack)
        BY <2>5, <3>1 DEF Top
      <3>3. Len(stack) = 1
        BY <1>1, <3>1, <3>2 DEF EraseOpen
      <3>4. Len(stack') = 0
        <4>1. stack' = Tail(stack)
          BY OutputErased
        <4>. QED BY <2>4, <3>1, <3>3, <4>1, HeadTailProperties
      <3>. QED BY <3>4
    <2>10. OutputFds \subseteq OutputFds'
      BY <2>9, StepsOnCurrent, OutputEntered DEF useOutput, forwardFails, finishOutputRemoval,
         lostCurrentOutput, OutputFds, outputVars
    <2>. QED BY <2>2, <2>3, <2>5, <2>7, <2>8, <2>10
  <1>. QED BY <1>2, <1>4, <1>5 DEF Accounted, Passing, Closing, Erasing

-----------------------------------------------------------------------------
(* What a sweep, and the loop, rely on.                                    *)

(* Every step that may end the process because of what it finds.           *)
LEMMA StepsOnFailure ==
    ASSUME [Next]_vars
    PROVE  \/ failure' \in {failure, "uncaught exception", "stack overflow", "dangling iterator"}
           \/ removeUnknown \/ eraseOutput \/ dispatchDone \/ \E fd \in Fds : dispatch(fd)
  <1>1. CASE DeviceCommand
    BY <1>1 DEF DeviceCommand, addDevice, addDeviceFails, addDeviceRefused, removeDevice,
       renameDevice, setPersistent, removeHotkey, addHotkey, Finish, Throw, Die, loopVars
  <1>2. CASE OutputCommand
    BY <1>2 DEF OutputCommand, addOutput, addOutputFails, removeOutput, useOutput, Finish, Throw,
       Die, loopVars
  <1>3. CASE OtherCommand
    <2>1. ASSUME \/ \E x \in States : writeEvents(x)
                 \/ \E e \in Events : removeAction(e) \/ \E t \in Texts : setAction(e, t)
                 \/ \E t \in Texts : sourceCommandFile(t)
                 \/ quit \/ nop \/ unknownCommand \/ toClient \/ stackOverflow
          PROVE  failure' \in {failure, "uncaught exception", "stack overflow"}
      BY <2>1 DEF writeEvents, removeAction, setAction, FinishDamaging, sourceCommandFile,
         quit, nop, unknownCommand, toClient, stackOverflow, Finish, Throw, Die, loopVars
    <2>2. ASSUME NEW x \in States, grabDevices(x) \/ grabBoth(x)
          PROVE  failure' \in {failure, "uncaught exception"}
      BY <2>2 DEF grabDevices, grabBoth, grab, Finish, Throw, Die, loopVars
    <2>. QED BY <1>3, <2>1, <2>2 DEF OtherCommand
  <1>4. CASE Callback
    BY <1>4 DEF Callback, acceptClient, closeDevice, readCommand, disconnectClient, deviceLost,
       readFails, tryHotkey, forwardEvent, forwardFails, lostCurrentOutput, Throw, Die, loopVars
  <1>5. CASE Removal
    BY <1>5 DEF Removal, finishClientRemoval, finishDeviceRemoval, finishOutputRemoval,
       FinishLostOutput, grab, removeDangling, lostCurrentOutput, Throw, Die, loopVars
  <1>6. CASE Loop
    BY <1>6 DEF Loop, started, processCommandQueue, processRemoveQueue, sweepDone,
       dispatchBreak, shutdown
  <1>7. CASE Wake \/ World \/ UNCHANGED vars
    BY <1>7 DEF Wake, pollInterrupted, poll, World, signull, unplug, vars, loopVars
  <1>. QED BY <1>1, <1>2, <1>3, <1>4, <1>5, <1>6, <1>7 DEF Next, Step, Ended

(* None of the internal checks of the loop has failed.                     *)
NoCheckFailed ==
    failure \notin {"callback map broken", "FD without cleanup callback", "failed to find fd"}

(* No check of processRemoveQueue, of the dispatch loop or of the finish   *)
(* handlers finds what it throws for.                                      *)
LEMMA ChecksSucceed ==
    ASSUME TypeOK, OwnersAgree, PolledKnown, ReportsPolled, QueueOpen, EraseOpen,
           NoCheckFailed, [Next]_vars
    PROVE  NoCheckFailed'
  <1>1. CASE removeUnknown
    <2>1. pc = "remove" /\ Alive
      BY <1>1 DEF removeUnknown, Alive
    <2>2. KindsAgree /\ ClientsOwn /\ DevicesOwn /\ todo \subseteq DOMAIN files
      BY <2>1 DEF OwnersAgree, QueueOpen
    <2>3. PICK fd \in todo : fd \in DOMAIN gFDCBs => ~Found(fd)
      BY <1>1 DEF removeUnknown
    <2>4. Found(fd)
      BY <2>2 DEF KindsAgree, ClientsOwn, DevicesOwn, Found
    <2>. QED BY <2>2, <2>3, <2>4 DEF KindsAgree
  <1>2. CASE eraseOutput
    <2>1. stack # <<>> /\ Top.do = "erase" /\ Alive
      BY <1>2 DEF eraseOutput, Pending, Running, Alive
    <2>2. Top = stack[1] /\ 1 \in 1..Len(stack)
      BY <2>1 DEF Top, TypeOK, StackType
    <2>3. Top.fd \in OutputFds
      BY <2>1, <2>2 DEF EraseOpen
    <2>4. UNCHANGED failure
      BY <1>2, <2>3 DEF eraseOutput, loopVars
    <2>. QED BY <2>4 DEF NoCheckFailed
  <1>3. CASE dispatchDone
    BY <1>3 DEF dispatchDone, Idle, PolledKnown, Alive, NoCheckFailed
  <1>4. ASSUME NEW fd \in Fds, dispatch(fd) PROVE NoCheckFailed'
    BY <1>4 DEF dispatch, Idle, ReportsPolled, PolledKnown, Alive, NoCheckFailed
  <1>. QED BY <1>1, <1>2, <1>3, <1>4, StepsOnFailure DEF NoCheckFailed

SweepInv ==
    /\ CurrentOutputOpen /\ PolledKnown /\ ReportsPolled /\ QueueOpen /\ CloseOpen /\ EraseOpen
    /\ NoCheckFailed

(* The start.                                                              *)
LEMMA InitSweep == Init => SweepInv
  <1>. SUFFICES ASSUME Init PROVE SweepInv
    OBVIOUS
  <1>1. /\ pc = "startup" /\ failure = "none" /\ pfds = {Server} /\ gFDAddQueue = {}
        /\ gFDRemoveQueue = {} /\ gCurrentOutput.fd = None
        /\ gFDCBs = [fd \in {Server} |-> CallbacksOf("server", NoName, None)]
        /\ stack = Run(None, "none", Text[Startup])
    BY DEF Init
  <1>2. \A i \in 1..Len(stack) : Passing(stack[i])
    <2>1. None \in Clients /\ Startup \in Texts /\ Text[Startup] \in Seq(Command)
      BY DaemonAssumption, TextAssumption DEF Clients
    <2>2. stack \in Seq(Nested(None))
      BY <1>1, <2>1, RunNested
    <2>3. stack \in Seq(PassingWork)
      BY <2>2, NestedPassing
    <2>4. \A i \in 1..Len(stack) : stack[i] \in PassingWork
      BY <2>3, ItemsOfSeq
    <2>. QED BY <2>4 DEF PassingWork
  <1>3. PolledKnown
    BY <1>1 DEF PolledKnown, CallbacksOf
  <1>. QED BY <1>1, <1>2, <1>3 DEF SweepInv, CurrentOutputOpen, ReportsPolled, QueueOpen, CloseOpen,
              EraseOpen, NoCheckFailed, Passing

(* The inductive invariant.                                                *)
LEMMA SweepStep ==
    ASSUME TypeOK, OwnersAgree, WorkFits, LinesFit, SweepInv, [Next]_vars, OnlyLosesCurrent
    PROVE  SweepInv'
  BY PolledStayKnown, ReportsStayPolled, QueueStaysOpen, CloseStaysOpen, CurrentStaysOpen,
     EraseStaysOpen, ChecksSucceed DEF SweepInv

(* The work on the stack always fits its phase.                            *)
LEMMA WorkAlwaysFits == Spec => [](WorkFits /\ LinesFit)
  <1>. DEFINE WInv == TypeOK /\ OwnersAgree /\ WorkFits /\ LinesFit
  <1>1. Init => WInv
    BY InitTypes, InitOwners, InitWork
  <1>2. WInv /\ [Next]_vars => WInv'
    BY StepTypes, StepOwners, WorkStaysFit, LinesStayFit
  <1>. QED BY <1>1, <1>2, PTL DEF Spec

(* The sweep's invariant holds as long as no sweep makes an output current.*)
LEMMA SweepsSound == Spec /\ [][OnlyLosesCurrent]_vars => []SweepInv
  <1>1. TypeOK /\ OwnersAgree /\ WorkFits /\ LinesFit /\ SweepInv /\ [Next]_vars
          /\ [OnlyLosesCurrent]_vars => SweepInv'
    <2>1. CASE UNCHANGED vars /\ SweepInv
      BY <2>1 DEF vars, loopVars, queueVars, fdVars, outputVars, SweepInv, CurrentOutputOpen,
         PolledKnown, ReportsPolled, QueueOpen, CloseOpen, EraseOpen, NoCheckFailed, OutputFds, Alive
    <2>. QED BY <2>1, SweepStep
  <1>. QED BY <1>1, InitSweep, TypeCorrect, DescriptorsOwned, WorkAlwaysFits, PTL DEF Spec

(* As long as no action makes an output current while processRemoveQueue   *)
(* is sweeping (useOutput from write-changed or grab-changed), events are  *)
(* written to the descriptor of the output that `use` named: it is neither *)
(* closed nor reused under gCurrentOutput, whatever breaks or is removed.  *)
THEOREM CurrentStays == Spec /\ [][OnlyLosesCurrent]_vars => []CurrentOutputOpen
  <1>1. SweepInv => CurrentOutputOpen
    BY DEF SweepInv
  <1>. QED BY <1>1, SweepsSound, PTL

(* Under the same condition processRemoveQueue finds the callbacks of every*)
(* descriptor in the queue, and each finish handler finds its client, device*)
(* or output, however often removeFD was called and by whom.               *)
THEOREM OwnersFound == Spec /\ [][OnlyLosesCurrent]_vars => []CleanupFound
  <1>1. SweepInv => CleanupFound
    BY DEF SweepInv, NoCheckFailed, CleanupFound
  <1>. QED BY <1>1, SweepsSound, PTL

(* Under the same condition every descriptor that is polled, or will be, has*)
(* its callbacks: the loop never throws "internal: callback map broken".   *)
THEOREM CallbacksFound == Spec /\ [][OnlyLosesCurrent]_vars => []CallbackMapComplete
  <1>1. SweepInv => CallbackMapComplete
    BY DEF SweepInv, NoCheckFailed, PolledKnown, CallbackMapComplete
  <1>. QED BY <1>1, SweepsSound, PTL

-----------------------------------------------------------------------------
(* Actions that are safe in a sweep.                                       *)

(* Commands that set no action outside of A, and those that, besides, make *)
(* no output current and source nothing outside of A.                      *)
Setting(A)  == {c \in Command : c.op = "action set" => c.text \in A}
Harmless(A) == {c \in Setting(A) : c.op # "use" /\ (c.op = "source" => c.text \in A)}

(* Whatever is executed only ever makes the texts in A actions, and these  *)
(* can be run at any time.                                                 *)
QuietActions(A) ==
    /\ A \subseteq Texts
    /\ \A t \in Texts : Text[t] \in Seq(Setting(A))
    /\ \A t \in A : Text[t] \in Seq(Harmless(A))

(* Work whose text is made of commands in L.                               *)
Lined(L) == {w \in WorkItem : w.rest \in Seq(L)}

(* Commands in L lead to commands in L only.                               *)
Permits(L) ==
    /\ L \subseteq Command /\ Bad \in L /\ \A x \in States : WriteEvents(x) \in L
    /\ \A t \in Texts : Source(t) \in L => Text[t] \in Seq(L)
    /\ \A e \in DOMAIN gEventCommands : Text[gEventCommands[e]] \in Seq(L)

(* What Run pushes.                                                        *)
LEMMA RunLined ==
    ASSUME NEW L, L \subseteq Command, NEW client \in Clients, NEW e \in Events \cup {"none"},
           NEW commands \in Seq(L)
    PROVE  Run(client, e, commands) \in Seq(Lined(L))
  <1>1. None \in Clients /\ commands \in Seq(Command)
    BY SeqOfMore DEF Clients
  <1>2. Work("run", client, None, e, commands) \in Lined(L)
    BY <1>1 DEF Work, WorkItem, Works, Lined
  <1>. QED BY <1>2, OneItem, EmptySeq DEF Run

(* What a reply pushes.                                                    *)
LEMMA ReplyLined ==
    ASSUME NEW L, NEW c \in Clients
    PROVE  ReplyTo(c) \in Seq(Lined(L))
  <1>1. None \in Clients /\ <<>> \in Seq(L) /\ <<>> \in Seq(Command)
    BY EmptySeq DEF Clients
  <1>2. Work("reply", c, None, "none", <<>>) \in Lined(L)
    BY <1>1 DEF Work, WorkItem, Works, Lined
  <1>. QED BY <1>2, OneItem, EmptySeq DEF ReplyTo

(* What a task of the daemon itself is made of.                            *)
LEMMA TaskLined ==
    ASSUME NEW L, NEW do \in Works, NEW fd \in Clients
    PROVE  Task(do, fd) \in Seq(Lined(L))
  <1>1. None \in Clients /\ <<>> \in Seq(L) /\ <<>> \in Seq(Command)
    BY EmptySeq DEF Clients
  <1>2. Work(do, None, fd, "none", <<>>) \in Lined(L)
    BY <1>1 DEF Work, WorkItem, Lined
  <1>. QED BY <1>2, OneItem DEF Task

(* What an event pushes.                                                   *)
LEMMA FireLined ==
    ASSUME NEW L, Permits(L), NEW client \in Clients, NEW e \in Events
    PROVE  fireEvent(client, e) \in Seq(Lined(L))
  <1>1. CASE e \in DOMAIN gEventCommands
    <2>1. Text[gEventCommands[e]] \in Seq(L)
      BY <1>1 DEF Permits
    <2>. QED BY <1>1, <2>1, RunLined DEF fireEvent, Permits
  <1>2. CASE e \notin DOMAIN gEventCommands
    BY <1>2, EmptySeq DEF fireEvent
  <1>. QED BY <1>1, <1>2

(* The top of the stack and what is below it.                              *)
LEMMA TopLined ==
    ASSUME NEW L, stack \in Seq(Lined(L)), stack # <<>>
    PROVE  /\ Tail(stack) \in Seq(Lined(L))
           /\ Top \in WorkItem /\ Top.rest \in Seq(L) /\ Top.client \in Clients
  <1>1. Top \in Lined(L) /\ Tail(stack) \in Seq(Lined(L))
    BY HeadTailProperties DEF Top
  <1>. QED BY <1>1 DEF Lined, WorkItem

(* The command being executed, and what is left after it.                  *)
LEMMA AfterLined ==
    ASSUME NEW L, L \subseteq Command, stack \in Seq(Lined(L)), NEW cmd, Executing(cmd)
    PROVE  /\ cmd \in L /\ Top.client \in Clients
           /\ ReplyTo(Top.client) \in Seq(Lined(L))
           /\ AfterCommand \in Seq(Lined(L))
  <1>1. stack # <<>> /\ Top.rest # <<>> /\ cmd = Head(Top.rest)
    BY DEF Executing, Pending
  <1>2. /\ Tail(stack) \in Seq(Lined(L)) /\ Top.rest \in Seq(L)
        /\ Top.client \in Clients /\ Top.from \in Events \cup {"none"}
    BY <1>1, TopLined DEF WorkItem
  <1>3. cmd \in L /\ Tail(Top.rest) \in Seq(L)
    BY <1>1, <1>2, HeadTailProperties
  <1>4. Run(Top.client, Top.from, Tail(Top.rest)) \in Seq(Lined(L))
    BY <1>2, <1>3, RunLined
  <1>. QED BY <1>2, <1>3, <1>4, ReplyLined, ConcatProperties DEF AfterCommand

(* A command that returns or throws.                                       *)
LEMMA FinishLined ==
    ASSUME NEW L, L \subseteq Command, stack \in Seq(Lined(L)), NEW cmd, Executing(cmd),
           NEW nested \in Seq(Lined(L)), Finish(nested) \/ Throw
    PROVE  stack' \in Seq(Lined(L))
  <1>1. ReplyTo(Top.client) \in Seq(Lined(L)) /\ AfterCommand \in Seq(Lined(L))
    BY AfterLined
  <1>2. nested \o ReplyTo(Top.client) \o AfterCommand \in Seq(Lined(L))
    BY <1>1, ConcatProperties
  <1>. QED BY <1>1, <1>2, EmptySeq DEF Finish, Throw, Die

(* A command that frees its text: rubbish is no command.                   *)
LEMMA DamagingLined ==
    ASSUME NEW L, L \subseteq Command, Bad \in L, stack \in Seq(Lined(L)),
           NEW cmd, Executing(cmd), NEW e, FinishDamaging(e)
    PROVE  stack' \in Seq(Lined(L))
  <1>1. PICK after, reply : after = AfterCommand /\ reply = ReplyTo(Top.client)
    OBVIOUS
  <1>2. reply \in Seq(Lined(L)) /\ after \in Seq(Lined(L))
    BY <1>1, AfterLined
  <1>3. PICK rubbish \in BOOLEAN :
          stack' = reply \o [i \in DOMAIN after |->
                               IF rubbish /\ after[i].from = e
                               THEN [after[i] EXCEPT !.rest = <<Bad>>] ELSE after[i]]
    BY <1>1 DEF FinishDamaging
  <1>. DEFINE damaged == [i \in DOMAIN after |->
                            IF rubbish /\ after[i].from = e
                            THEN [after[i] EXCEPT !.rest = <<Bad>>] ELSE after[i]]
  <1>4. damaged \in Seq(Lined(L))
    <2>1. <<Bad>> \in Seq(L) /\ <<Bad>> \in Seq(Command)
      BY OneItem
    <2>2. \A w \in Lined(L) : [w EXCEPT !.rest = <<Bad>>] \in Lined(L)
      BY <2>1 DEF Lined, WorkItem
    <2>3. DOMAIN after = 1..Len(after) /\ Len(after) \in Nat
      BY <1>2, LenProperties
    <2>4. \A i \in 1..Len(after) : damaged[i] \in Lined(L)
      <3>. TAKE i \in 1..Len(after)
      <3>1. after[i] \in Lined(L)
        BY <1>2, ElementOfSeq
      <3>. QED BY <2>2, <2>3, <3>1
    <2>5. damaged \in [1..Len(after) -> Lined(L)]
      BY <2>3, <2>4
    <2>. QED BY <2>3, <2>5, IsASeq
  <1>. HIDE DEF damaged
  <1>. QED BY <1>2, <1>3, <1>4, ConcatProperties DEF damaged

(* Every command.                                                          *)
LEMMA CommandsLined ==
    ASSUME NEW L, Permits(L), stack \in Seq(Lined(L)),
           DeviceCommand \/ OutputCommand \/ OtherCommand
    PROVE  stack' \in Seq(Lined(L))
  <1>. DEFINE Goal == stack' \in Seq(Lined(L))
  <1>1. <<>> \in Seq(Lined(L)) /\ L \subseteq Command /\ Bad \in L
    BY EmptySeq DEF Permits
  <1>2. ASSUME NEW cmd, Executing(cmd), Finish(<<>>) \/ Throw PROVE Goal
    BY <1>1, <1>2, FinishLined
  <1>3. ASSUME NEW cmd, Executing(cmd), NEW e \in Events,
               \/ Finish(fireEvent(Top.client, e)) \/ Throw
               \/ \E x \in States : Finish(fireEvent(Top.client, e)
                                             \o Run(Top.client, "none", <<WriteEvents(x)>>))
        PROVE  Goal
    <2>1. Top.client \in Clients
      BY <1>1, <1>3, AfterLined
    <2>2. fireEvent(Top.client, e) \in Seq(Lined(L))
      BY <2>1, FireLined
    <2>3. ASSUME NEW x \in States
          PROVE  fireEvent(Top.client, e) \o Run(Top.client, "none", <<WriteEvents(x)>>)
                   \in Seq(Lined(L))
      <3>1. <<WriteEvents(x)>> \in Seq(L)
        BY OneItem DEF Permits
      <3>2. Run(Top.client, "none", <<WriteEvents(x)>>) \in Seq(Lined(L))
        BY <1>1, <2>1, <3>1, RunLined
      <3>. QED BY <2>2, <3>2, ConcatProperties
    <2>. QED BY <1>1, <1>3, <2>2, <2>3, FinishLined
  <1>4. CASE DeviceCommand
    <2>1. ASSUME NEW d \in Devices,
                 addDevice(d) \/ addDeviceFails(d) \/ addDeviceRefused(d) \/ removeDevice(d)
                   \/ renameDevice(d)
          PROVE  Goal
      BY <1>2, <2>1 DEF addDevice, addDeviceFails, addDeviceRefused, removeDevice, renameDevice
    <2>2. ASSUME NEW d \in Devices, NEW b \in BOOLEAN, setPersistent(d, b) PROVE Goal
      BY <1>2, <2>2 DEF setPersistent
    <2>3. ASSUME NEW d \in Devices, NEW k \in Keys,
                 removeHotkey(d, k) \/ \E t \in Texts : addHotkey(d, k, t)
          PROVE  Goal
      BY <1>2, <2>3 DEF removeHotkey, addHotkey
    <2>. QED BY <1>4, <2>1, <2>2, <2>3 DEF DeviceCommand
  <1>5. CASE OutputCommand
    <2>1. ASSUME NEW o \in Outputs, NEW resume \in BOOLEAN,
                 addOutput(o, resume) \/ addOutputFails(o, resume)
          PROVE  Goal
      BY <1>2, <2>1 DEF addOutput, addOutputFails
    <2>2. ASSUME NEW o \in Outputs, removeOutput(o) PROVE Goal
      BY <1>2, <2>2 DEF removeOutput
    <2>3. ASSUME NEW o \in Outputs, useOutput(o) PROVE Goal
      BY <1>3, <2>3 DEF useOutput, Events
    <2>. QED BY <1>5, <2>1, <2>2, <2>3 DEF OutputCommand
  <1>6. CASE OtherCommand
    <2>1. ASSUME NEW x \in States, writeEvents(x) \/ grabDevices(x) \/ grabBoth(x) PROVE Goal
      <3>1. /\ "write-changed" \in Events /\ "grab-changed" \in Events
        BY DEF Events
      <3>. QED BY <1>3, <2>1, <3>1 DEF writeEvents, grabDevices, grabBoth, grab
    <2>2. ASSUME NEW e \in Events, removeAction(e) \/ \E t \in Texts : setAction(e, t)
          PROVE  Goal
      <3>1. PICK cmd : Executing(cmd) /\ (Finish(<<>>) \/ FinishDamaging(e))
        BY <2>2 DEF removeAction, setAction
      <3>. QED BY <1>1, <1>2, <3>1, DamagingLined
    <2>3. ASSUME NEW t \in Texts, sourceCommandFile(t) PROVE Goal
      <3>1. PICK commands \in Sourced(t) :
              Executing(Source(t)) /\ Finish(Run(Top.client, "none", commands))
        BY <2>3 DEF sourceCommandFile
      <3>2. Source(t) \in L /\ Top.client \in Clients
        BY <1>1, <3>1, AfterLined
      <3>3. commands \in Seq(L)
        BY <3>2, SourcedLines DEF Permits
      <3>4. Run(Top.client, "none", commands) \in Seq(Lined(L))
        BY <1>1, <3>2, <3>3, RunLined
      <3>. QED BY <1>1, <3>1, <3>4, FinishLined
    <2>4. CASE quit
      <3>1. Executing(Quit) /\ stack' = ReplyTo(Top.client) \o AfterCommand
        BY <2>4 DEF quit
      <3>. QED BY <1>1, <3>1, AfterLined, ConcatProperties
    <2>5. CASE nop \/ unknownCommand
      BY <1>2, <2>5 DEF nop, unknownCommand
    <2>6. CASE toClient
      BY <2>6, TopLined DEF toClient, Pending
    <2>7. CASE stackOverflow
      BY <1>1, <2>7 DEF stackOverflow, Die
    <2>. QED BY <1>6, <2>1, <2>2, <2>3, <2>4, <2>5, <2>6, <2>7 DEF OtherCommand
  <1>. QED BY <1>4, <1>5, <1>6

(* Losing the current output.                                              *)
LEMMA LostLined ==
    ASSUME NEW L, Permits(L), NEW after \in Seq(Lined(L)), lostCurrentOutput(after)
    PROVE  stack' \in Seq(Lined(L))
  <1>1. PICK new : new = IF gWrite THEN fireEvent(None, "write-changed") ELSE <<>>
    OBVIOUS
  <1>2. None \in Clients /\ "lost grab" \in Works /\ "write-changed" \in Events
    BY DEF Clients, Works, Events
  <1>3. new \in Seq(Lined(L)) /\ LostGrab \in Seq(Lined(L))
    BY <1>1, <1>2, EmptySeq, FireLined, TaskLined DEF LostGrab
  <1>4. stack' = new \o LostGrab \o after
    BY <1>1 DEF lostCurrentOutput
  <1>. QED BY <1>3, <1>4, ConcatProperties

(* Every callback and removal handler.                                     *)
LEMMA HandlersLined ==
    ASSUME NEW L, Permits(L), stack \in Seq(Lined(L)), Callback \/ Removal
    PROVE  stack' \in Seq(Lined(L))
  <1>. DEFINE Goal == stack' \in Seq(Lined(L))
  <1>1. None \in Clients /\ Fds \subseteq Clients /\ {"close", "erase"} \subseteq Works
    BY DEF Clients, Works
  <1>2. ASSUME stack' = <<>> PROVE Goal
    BY <1>2, EmptySeq
  <1>3. ASSUME stack # <<>>, stack' = Tail(stack) PROVE Goal
    BY <1>3, TopLined
  <1>4. ASSUME stack # <<>>, Throw PROVE Goal
    <2>1. Top.client \in Clients
      BY <1>4, TopLined
    <2>2. ReplyTo(Top.client) \in Seq(Lined(L))
      BY <2>1, ReplyLined
    <2>. QED BY <1>2, <1>4, <2>2 DEF Throw, Die
  <1>5. CASE Callback
    <2>1. ASSUME \/ acceptClient \/ closeDevice
                 \/ \E fd \in Fds :
                      \/ \E t \in ClientTexts : readCommand(fd, t)
                      \/ disconnectClient(fd) \/ readFails(fd)
                      \/ \E k \in Keys : tryHotkey(fd, k) \/ forwardEvent(fd, k)
          PROVE  stack # <<>> /\ (stack' = Tail(stack) \/ Throw)
      BY <2>1 DEF acceptClient, closeDevice, readCommand, disconnectClient, readFails,
         tryHotkey, forwardEvent, Reads, Called, Pending
    <2>2. ASSUME NEW fd \in Fds, deviceLost(fd) PROVE Goal
      <3>1. /\ stack # <<>>
            /\ stack' = fireEvent(None, "device-lost") \o Task("close", fd) \o Tail(stack)
        BY <2>2 DEF deviceLost, Called, Pending
      <3>2. fireEvent(None, "device-lost") \in Seq(Lined(L))
        BY <1>1, FireLined DEF Events
      <3>3. Task("close", fd) \in Seq(Lined(L)) /\ Tail(stack) \in Seq(Lined(L))
        BY <1>1, <3>1, TaskLined, TopLined
      <3>. QED BY <3>1, <3>2, <3>3, ConcatProperties
    <2>3. ASSUME NEW fd \in Fds, NEW k \in Keys, forwardFails(fd, k) PROVE Goal
      <3>1. stack # <<>> /\ lostCurrentOutput(Tail(stack))
        BY <2>3 DEF forwardFails, Reads, Called, Pending
      <3>. QED BY <3>1, TopLined, LostLined
    <2>. QED BY <1>3, <1>4, <1>5, <2>1, <2>2, <2>3 DEF Callback
  <1>6. CASE Removal
    <2>1. ASSUME NEW fd \in Fds, finishClientRemoval(fd) \/ finishDeviceRemoval(fd)
          PROVE  Goal
      BY <2>1 DEF finishClientRemoval, finishDeviceRemoval
    <2>2. ASSUME NEW fd \in Fds, finishOutputRemoval(fd) PROVE Goal
      <3>1. lostCurrentOutput(Task("erase", fd)) \/ stack' = Task("erase", fd)
        BY <2>2 DEF finishOutputRemoval
      <3>2. Task("erase", fd) \in Seq(Lined(L))
        BY <1>1, TaskLined
      <3>. QED BY <3>1, <3>2, LostLined
    <2>3. CASE eraseOutput
      <3>1. stack # <<>> /\ (stack' = Tail(stack) \/ stack' = <<>>)
        BY <2>3 DEF eraseOutput, Pending, Die
      <3>. QED BY <1>2, <1>3, <3>1
    <2>4. CASE FinishLostOutput
      <3>1. /\ stack # <<>>
            /\ \/ stack' = fireEvent(None, "grab-changed") \o Tail(stack)
               \/ stack' = Tail(stack) \/ Throw
        BY <2>4 DEF FinishLostOutput, grab, Pending
      <3>2. fireEvent(None, "grab-changed") \in Seq(Lined(L)) /\ Tail(stack) \in Seq(Lined(L))
        BY <1>1, <3>1, FireLined, TopLined DEF Events
      <3>. QED BY <1>3, <1>4, <3>1, <3>2, ConcatProperties
    <2>5. CASE removeUnknown \/ removeDangling
      BY <1>2, <2>5 DEF removeUnknown, removeDangling, Die
    <2>. QED BY <1>6, <2>1, <2>2, <2>3, <2>4, <2>5 DEF Removal
  <1>. QED BY <1>5, <1>6

(* What the work of a phase may be made of.                                *)
Allowed(A, phase) == IF phase = "remove" THEN Harmless(A) ELSE Setting(A)

ActionsQuiet(A) ==
    Alive => /\ \A e \in DOMAIN gEventCommands : gEventCommands[e] \in A
             /\ stack \in Seq(Lined(Allowed(A, pc)))

(* As long as the actions are in A.                                        *)
LEMMA QuietPermits ==
    ASSUME NEW A, QuietActions(A), ActionsQuiet(A), Alive
    PROVE  Permits(Allowed(A, pc))
  <1>1. Harmless(A) \subseteq Setting(A) /\ Setting(A) \subseteq Command
    BY DEF Harmless, Setting
  <1>2. \A L \in {Harmless(A), Setting(A)} : Bad \in L /\ \A x \in States : WriteEvents(x) \in L
    BY DEF Harmless, Setting, Command, Bad, WriteEvents
  <1>3. \A t \in A : Text[t] \in Seq(Harmless(A)) /\ Text[t] \in Seq(Setting(A))
    BY <1>1, SeqOfMore DEF QuietActions
  <1>4. \A e \in DOMAIN gEventCommands : gEventCommands[e] \in A
    BY DEF ActionsQuiet
  <1>5. \A t \in Texts : Source(t) \in Harmless(A) => t \in A
    BY DEF Harmless, Source
  <1>6. \A t \in Texts : Text[t] \in Seq(Setting(A))
    BY DEF QuietActions
  <1>7. CASE pc = "remove"
    BY <1>1, <1>2, <1>3, <1>4, <1>5, <1>7 DEF Permits, Allowed
  <1>8. CASE pc # "remove"
    BY <1>1, <1>2, <1>3, <1>4, <1>6, <1>8 DEF Permits, Allowed
  <1>. QED BY <1>7, <1>8

(* Only action sets and removals change the actions.                       *)
LEMMA ActionsStayIn ==
    ASSUME NEW A, QuietActions(A), ActionsQuiet(A), Alive, [Next]_vars
    PROVE  \A e \in DOMAIN gEventCommands' : gEventCommands'[e] \in A
  <1>. DEFINE Goal == \A e \in DOMAIN gEventCommands' : gEventCommands'[e] \in A
  <1>1. /\ \A e \in DOMAIN gEventCommands : gEventCommands[e] \in A
        /\ stack \in Seq(Lined(Allowed(A, pc))) /\ Allowed(A, pc) \subseteq Setting(A)
    BY DEF ActionsQuiet, Allowed, Harmless
  <1>2. ASSUME UNCHANGED gEventCommands PROVE Goal
    BY <1>1, <1>2
  <1>3. ASSUME NEW e \in Events, NEW t \in Texts, setAction(e, t) PROVE Goal
    <2>1. Allowed(A, pc) \subseteq Command
      BY <1>1 DEF Setting
    <2>2. ActionSet(e, t) \in Setting(A)
      BY <1>1, <1>3, <2>1, AfterLined DEF setAction
    <2>3. t \in A
      BY <2>2 DEF Setting, ActionSet
    <2>4. gEventCommands' = Put(gEventCommands, e, t)
      BY <1>3 DEF setAction
    <2>. QED BY <1>1, <2>3, <2>4 DEF Put
  <1>4. ASSUME NEW e \in Events, removeAction(e) PROVE Goal
    <2>1. gEventCommands' = Without(gEventCommands, {e})
      BY <1>4 DEF removeAction
    <2>. QED BY <1>1, <2>1 DEF Without, Restrict
  <1>5. CASE DeviceCommand
    BY <1>2, <1>5 DEF DeviceCommand, addDevice, addDeviceFails, addDeviceRefused, removeDevice,
       renameDevice, setPersistent, removeHotkey, addHotkey, textVars
  <1>6. CASE OutputCommand
    BY <1>2, <1>6 DEF OutputCommand, addOutput, addOutputFails, removeOutput, useOutput, textVars
  <1>7. CASE OtherCommand
    BY <1>2, <1>3, <1>4, <1>7 DEF OtherCommand, writeEvents, grabDevices, grabBoth,
       sourceCommandFile, quit, nop, unknownCommand, toClient, stackOverflow, textVars
  <1>8. CASE Callback
    BY <1>2, <1>8 DEF Callback, acceptClient, closeDevice, readCommand, disconnectClient,
       deviceLost, readFails, tryHotkey, forwardEvent, forwardFails, textVars
  <1>9. CASE Removal
    BY <1>2, <1>9 DEF Removal, finishClientRemoval, finishDeviceRemoval, finishOutputRemoval,
       eraseOutput, FinishLostOutput, removeUnknown, removeDangling, textVars
  <1>10. CASE Loop
    BY <1>2, <1>10 DEF Loop, started, processCommandQueue, processRemoveQueue, sweepDone, dispatch,
       dispatchDone, dispatchBreak, shutdown, textVars
  <1>11. CASE Wake \/ World \/ UNCHANGED vars
    BY <1>2, <1>11 DEF Wake, World, poll, pollInterrupted, signull, unplug, vars, textVars
  <1>. QED BY <1>5, <1>6, <1>7, <1>8, <1>9, <1>10, <1>11 DEF Next, Step, Ended

(* Every step keeps the actions, and the work of its phase, quiet.         *)
LEMMA ActionsStayQuiet ==
    ASSUME NEW A, QuietActions(A), TypeOK, WorkFits, LinesFit, ActionsQuiet(A), [Next]_vars
    PROVE  ActionsQuiet(A)'
  <1>. SUFFICES ASSUME Alive' PROVE stack' \in Seq(Lined(Allowed(A, pc')))
    BY NoRevival, ActionsStayIn DEF ActionsQuiet
  <1>1. Alive /\ stack \in Seq(Lined(Allowed(A, pc))) /\ Permits(Allowed(A, pc))
    BY NoRevival, QuietPermits DEF ActionsQuiet
  <1>2. CASE stack' = <<>>
    BY <1>2, EmptySeq
  <1>3. CASE UNCHANGED <<pc, stack>>
    BY <1>1, <1>3
  <1>4. CASE UNCHANGED pc /\ (DeviceCommand \/ OutputCommand \/ OtherCommand \/ Callback \/ Removal)
    BY <1>1, <1>4, CommandsLined, HandlersLined
  <1>5. CASE processCommandQueue
    <2>1. PICK command : command = Head(gCommandQueue)
      OBVIOUS
    <2>2. /\ pc = "commands" /\ gCommandQueue # <<>> /\ UNCHANGED pc
          /\ stack' = Run(command.client, "none", Text[command.text])
      BY <1>5, <2>1 DEF processCommandQueue, Idle
    <2>3. command \in [client : gCommandClients \cup {None}, text : Texts]
      BY <1>1, <2>1, <2>2, HeadTailProperties DEF LinesFit
    <2>4. command.client \in Clients /\ Text[command.text] \in Seq(Setting(A))
      BY <2>3 DEF TypeOK, FdType, Clients, QuietActions
    <2>5. Setting(A) \subseteq Command
      BY DEF Setting
    <2>. QED BY <2>2, <2>4, <2>5, RunLined DEF Allowed
  <1>6. ASSUME NEW fd \in Fds, dispatch(fd) PROVE stack' \in Seq(Lined(Allowed(A, pc')))
    <2>1. fd \in DOMAIN gFDCBs
      BY <1>6 DEF dispatch, Alive
    <2>2. PICK error, hup, read :
            /\ error = IF "onError" \in revents[fd] THEN Task("onError", fd) ELSE <<>>
            /\ hup = IF "onHUP" \in revents[fd] THEN Task("onHUP", fd) ELSE <<>>
            /\ read = IF "onRead" \in revents[fd] THEN Task("onRead", fd) ELSE <<>>
      OBVIOUS
    <2>3. stack' = error \o hup \o read
      BY <1>6, <2>1, <2>2 DEF dispatch
    <2>4. {"onError", "onHUP", "onRead"} \subseteq Works /\ fd \in Clients
      BY DEF Works, Clients
    <2>5. PICK N : N = Lined(Allowed(A, pc'))
      OBVIOUS
    <2>6. \A do \in {"onError", "onHUP", "onRead"} : Task(do, fd) \in Seq(N)
      BY <2>4, <2>5, TaskLined
    <2>7. \A q \in {error, hup, read} : q \in Seq(N)
      BY <2>2, <2>6, EmptySeq
    <2>. QED BY <2>3, <2>5, <2>7, ConcatProperties
  <1>7. CASE started \/ processRemoveQueue \/ sweepDone \/ dispatchDone \/ dispatchBreak
    BY <1>2, <1>7 DEF started, processRemoveQueue, sweepDone, dispatchDone, dispatchBreak, Idle
  <1>8. CASE shutdown
    BY <1>8 DEF shutdown, Alive
  <1>9. CASE Wake \/ World \/ UNCHANGED vars
    BY <1>2, <1>3, <1>9 DEF Wake, World, poll, pollInterrupted, Idle, signull, unplug, vars, loopVars
  <1>10. CASE DeviceCommand \/ OutputCommand \/ OtherCommand \/ Callback \/ Removal
    BY <1>4, <1>7, <1>9, <1>10, StepsOnPhase DEF Wake
  <1>. QED BY <1>5, <1>6, <1>7, <1>8, <1>9, <1>10 DEF Next, Step, Loop, Ended

(* The start.                                                              *)
LEMMA InitQuiet ==
    ASSUME NEW A, QuietActions(A), Init
    PROVE  ActionsQuiet(A)
  <1>1. None \in Clients /\ Startup \in Texts /\ Setting(A) \subseteq Command
    BY DaemonAssumption DEF Clients, Setting
  <1>2. Text[Startup] \in Seq(Setting(A))
    BY <1>1 DEF QuietActions
  <1>3. Run(None, "none", Text[Startup]) \in Seq(Lined(Setting(A)))
    BY <1>1, <1>2, RunLined
  <1>. QED BY <1>3 DEF Init, ActionsQuiet, Allowed, NoEntries

(* `use` is not executed in a sweep, and nothing else sets an output.      *)
LEMMA QuietKeepsCurrent ==
    ASSUME NEW A, QuietActions(A), ActionsQuiet(A), [Next]_vars
    PROVE  OnlyLosesCurrent
  <1>. SUFFICES ASSUME pc = "remove" PROVE gCurrentOutput'.fd \in {gCurrentOutput.fd, None}
    BY DEF OnlyLosesCurrent
  <1>1. stack \in Seq(Lined(Harmless(A))) /\ Harmless(A) \subseteq Command
    BY DEF ActionsQuiet, Allowed, Alive, Harmless, Setting
  <1>2. ASSUME NEW o \in Outputs, useOutput(o) PROVE FALSE
    <2>1. Executing(Use(o))
      BY <1>2 DEF useOutput
    <2>2. Use(o) \in Harmless(A)
      BY <1>1, <2>1, AfterLined
    <2>. QED BY <2>2 DEF Harmless, Use
  <1>3. ASSUME NEW after, lostCurrentOutput(after) PROVE gCurrentOutput'.fd = None
    BY <1>3 DEF lostCurrentOutput, LostOutput
  <1>. QED BY <1>2, <1>3, StepsOnCurrent DEF addOutput, forwardFails, finishOutputRemoval,
              eraseOutput, outputVars

(* If no text that becomes an action has a `use` in it, or in what it      *)
(* sources, no sweep makes an output current, whatever clients and hotkeys *)
(* do otherwise: the condition of the theorems above is one on texts.      *)
THEOREM QuietSweeps ==
    ASSUME NEW A, QuietActions(A)
    PROVE  Spec => [][OnlyLosesCurrent]_vars
  <1>1. Init => ActionsQuiet(A)
    BY InitQuiet
  <1>2. TypeOK /\ WorkFits /\ LinesFit /\ ActionsQuiet(A) /\ [Next]_vars => ActionsQuiet(A)'
    BY ActionsStayQuiet
  <1>3. ActionsQuiet(A) /\ [Next]_vars => [OnlyLosesCurrent]_vars
    BY QuietKeepsCurrent
  <1>. QED BY <1>1, <1>2, <1>3, TypeCorrect, WorkAlwaysFits, PTL DEF Spec

(* For such texts the loop never meets what its own checks throw for, and  *)
(* events go to the output that `use` named.                               *)
THEOREM QuietDaemon ==
    ASSUME NEW A, QuietActions(A)
    PROVE  Spec => [](CurrentOutputOpen /\ CleanupFound /\ CallbackMapComplete)
  BY QuietSweeps, CurrentStays, OwnersFound, CallbacksFound, PTL

-----------------------------------------------------------------------------
(* Outputs that a write has failed on.                                     *)

(* removeFD only adds to the queue, and a sweep empties it at its end.     *)
LEMMA QueueGrows ==
    ASSUME [Next]_vars, Alive'
    PROVE  gFDRemoveQueue \subseteq gFDRemoveQueue' \/ sweepDone
  <1>. DEFINE Grows == gFDRemoveQueue \subseteq gFDRemoveQueue'
  <1>1. ASSUME NEW S, removeFD(S) PROVE Grows
    BY <1>1 DEF removeFD
  <1>2. ASSUME UNCHANGED queueVars PROVE Grows
    BY <1>2 DEF queueVars
  <1>3. CASE DeviceCommand
    <2>1. ASSUME NEW d \in Devices, addDevice(d) PROVE Grows
      BY <1>1, <2>1 DEF addDevice, announceDevice
    <2>2. ASSUME NEW d \in Devices, removeDevice(d) PROVE Grows
      <3>1. removeFD({gInputs[d].fd}) \/ UNCHANGED queueVars
        BY <2>2 DEF removeDevice
      <3>. QED BY <1>1, <1>2, <3>1
    <2>3. CASE \A d \in Devices : ~addDevice(d) /\ ~removeDevice(d)
      BY <1>2, <1>3, <2>3 DEF DeviceCommand, addDeviceFails, addDeviceRefused, renameDevice,
         setPersistent, removeHotkey, addHotkey
    <2>. QED BY <2>1, <2>2, <2>3
  <1>4. CASE OutputCommand
    <2>1. ASSUME NEW o \in Outputs, NEW resume \in BOOLEAN, addOutput(o, resume) PROVE Grows
      BY <1>1, <1>2, <2>1 DEF addOutput, queueVars
    <2>2. ASSUME NEW o \in Outputs, removeOutput(o) PROVE Grows
      <3>1. removeFD({gOutputs[o]}) \/ UNCHANGED queueVars
        BY <2>2 DEF removeOutput
      <3>. QED BY <1>1, <1>2, <3>1
    <2>3. CASE /\ \A o \in Outputs : ~removeOutput(o)
               /\ \A o \in Outputs, resume \in BOOLEAN : ~addOutput(o, resume)
      BY <1>2, <1>4, <2>3 DEF OutputCommand, addOutputFails, useOutput
    <2>. QED BY <2>1, <2>2, <2>3
  <1>5. CASE OtherCommand
    <2>1. CASE toClient
      BY <1>1, <1>2, <2>1 DEF toClient
    <2>2. CASE ~toClient
      BY <1>2, <1>5, <2>2 DEF OtherCommand, writeEvents, grabDevices, grabBoth, removeAction,
         setAction, sourceCommandFile, quit, nop, unknownCommand, stackOverflow
    <2>. QED BY <2>1, <2>2
  <1>6. CASE Callback
    <2>1. ASSUME NEW fd \in Fds,
                 \/ disconnectClient(fd) \/ readFails(fd)
                 \/ \E k \in Keys : forwardFails(fd, k)
          PROVE  Grows
      BY <1>1, <2>1 DEF disconnectClient, readFails, forwardFails
    <2>2. CASE closeDevice
      BY <1>1, <2>2 DEF closeDevice
    <2>3. CASE /\ ~closeDevice /\ \A fd \in Fds : ~disconnectClient(fd) /\ ~readFails(fd)
               /\ \A fd \in Fds, k \in Keys : ~forwardFails(fd, k)
      BY <1>2, <1>6, <2>3
         DEF Callback, acceptClient, readCommand, deviceLost, tryHotkey, forwardEvent
    <2>. QED BY <2>1, <2>2, <2>3
  <1>7. CASE Removal
    <2>1. ASSUME NEW fd \in Fds, finishDeviceRemoval(fd) PROVE Grows
      <3>1. CASE UNCHANGED queueVars
        BY <1>2, <3>1
      <3>2. CASE ~UNCHANGED queueVars
        <4>1. PICK failed \in SUBSET BreakableFds : removeFD(failed)
          BY <2>1, <3>2 DEF finishDeviceRemoval, announceDeviceRemoval
        <4>. QED BY <1>1, <4>1
      <3>. QED BY <3>1, <3>2
    <2>2. CASE \A fd \in Fds : ~finishDeviceRemoval(fd)
      BY <1>2, <1>7, <2>2 DEF Removal, finishClientRemoval, finishOutputRemoval, eraseOutput,
         FinishLostOutput, removeUnknown, removeDangling
    <2>. QED BY <2>1, <2>2
  <1>8. CASE Loop
    <2>1. CASE shutdown
      BY <2>1 DEF shutdown, Alive
    <2>2. CASE ~shutdown
      BY <1>2, <1>8, <2>2 DEF Loop, started, processCommandQueue, processRemoveQueue, dispatch,
         dispatchDone, dispatchBreak
    <2>. QED BY <2>1, <2>2
  <1>9. CASE Wake \/ World \/ UNCHANGED vars
    BY <1>2, <1>9 DEF Wake, poll, pollInterrupted, World, signull, unplug, vars
  <1>. QED BY <1>3, <1>4, <1>5, <1>6, <1>7, <1>8, <1>9 DEF Next, Step, Ended

(* A write fails on the outputs in S: removeFD is called on each of them.  *)
Tears(S) == /\ torn' = torn \cup S
            /\ OutputFds \cup S \subseteq OutputFds'
            /\ S \subseteq gFDRemoveQueue'

(* No other step changes which outputs there are and which are torn.       *)
LEMMA StepsOnTorn ==
    ASSUME TypeOK, [Next]_vars, Alive'
    PROVE  eraseOutput \/ \E S \in SUBSET Fds : Tears(S)
  <1>. DEFINE Goal == \E S \in SUBSET Fds : Tears(S)
  <1>1. BreakableFds \subseteq OutputFds /\ OutputFds \subseteq Fds
    BY DEF BreakableFds, OutputFds, TypeOK, OutputType, Table
  <1>2. ASSUME NEW S, removeFD(S) PROVE S \subseteq gFDRemoveQueue'
    BY <1>2 DEF removeFD
  <1>3. ASSUME NEW S \in SUBSET OutputFds, UNCHANGED gOutputs, torn' = torn \cup S,
               S \subseteq gFDRemoveQueue'
        PROVE  Goal
    <2>1. UNCHANGED OutputFds
      BY <1>3 DEF OutputFds
    <2>. QED BY <1>1, <1>3, <2>1 DEF Tears
  <1>4. ASSUME UNCHANGED <<torn, gOutputs>> PROVE Goal
    <2>1. {} \in SUBSET OutputFds /\ torn' = torn \cup {} /\ {} \subseteq gFDRemoveQueue'
      BY <1>4
    <2>. QED BY <1>3, <1>4, <2>1
  <1>5. ASSUME NEW d \in Devices, addDevice(d) PROVE Goal
    <2>1. PICK failed \in SUBSET BreakableFds : torn' = torn \cup failed /\ removeFD(failed)
      BY <1>5 DEF addDevice, announceDevice
    <2>2. UNCHANGED gOutputs
      BY <1>5 DEF addDevice, outputVars
    <2>. QED BY <1>1, <1>2, <1>3, <2>1, <2>2
  <1>6. ASSUME NEW o \in Outputs, NEW resume \in BOOLEAN, addOutput(o, resume) PROVE Goal
    <2>1. PICK fd \in Fds : /\ gOutputs' = Put(gOutputs, o, fd)
                            /\ \/ removeFD({fd}) /\ torn' = torn \cup {fd}
                               \/ UNCHANGED torn
      BY <1>6 DEF addOutput
    <2>2. o \notin DOMAIN gOutputs
      BY <1>6 DEF addOutput
    <2>3. OutputFds \cup {fd} \subseteq OutputFds'
      BY <2>1, <2>2 DEF Put, OutputFds
    <2>4. CASE removeFD({fd}) /\ torn' = torn \cup {fd}
      <3>1. {fd} \subseteq gFDRemoveQueue'
        BY <1>2, <2>4
      <3>. QED BY <2>3, <2>4, <3>1 DEF Tears
    <2>5. CASE UNCHANGED torn
      <3>1. Tears({})
        BY <2>3, <2>5 DEF Tears
      <3>. QED BY <3>1
    <2>. QED BY <2>1, <2>4, <2>5
  <1>7. ASSUME NEW fd \in Fds, NEW k \in Keys, forwardFails(fd, k) PROVE Goal
    <2>1. /\ torn' = torn \cup ({gCurrentOutput.fd} \cap OutputFds)
          /\ removeFD({gCurrentOutput.fd}) /\ UNCHANGED gOutputs
      BY <1>7 DEF forwardFails, Dropped, lostCurrentOutput
    <2>2. {gCurrentOutput.fd} \cap OutputFds \subseteq gFDRemoveQueue'
      BY <1>2, <2>1
    <2>. QED BY <1>3, <2>1, <2>2
  <1>8. ASSUME NEW fd \in Fds, NEW k \in Keys, forwardEvent(fd, k) PROVE Goal
    <2>1. UNCHANGED <<torn, gOutputs>>
      BY <1>8 DEF forwardEvent, outputVars
    <2>. QED BY <1>4, <2>1
  <1>9. ASSUME NEW fd \in Fds, finishDeviceRemoval(fd) PROVE Goal
    <2>1. UNCHANGED gOutputs
      BY <1>9 DEF finishDeviceRemoval, outputVars
    <2>2. CASE UNCHANGED torn
      BY <1>4, <2>1, <2>2
    <2>3. CASE ~UNCHANGED torn
      <3>1. PICK failed \in SUBSET BreakableFds : torn' = torn \cup failed /\ removeFD(failed)
        BY <1>9, <2>3 DEF finishDeviceRemoval, announceDeviceRemoval, readerVars
      <3>2. failed \in SUBSET OutputFds /\ failed \subseteq gFDRemoveQueue'
        BY <1>1, <1>2, <3>1
      <3>. QED BY <1>3, <2>1, <3>1, <3>2
    <2>. QED BY <2>2, <2>3
  <1>. QED BY <1>4, <1>5, <1>6, <1>7, <1>8, <1>9, StepsOnReaders DEF readerVars

-----------------------------------------------------------------------------
(* Sweeps in which no write fails.                                         *)

(* No output breaks while a sweep writes to it.                            *)
NoneTornInSweep == pc = "remove" => torn' \subseteq torn

(* What is yet to be visited is taken from the queue at the start only.    *)
LEMMA StepsOnTodo ==
    ASSUME [Next]_vars, pc = "remove", Alive'
    PROVE  \/ UNCHANGED todo
           \/ \E fd \in Fds : /\ finishClientRemoval(fd) \/ finishDeviceRemoval(fd)
                                   \/ finishOutputRemoval(fd)
                              /\ todo' = todo \ {fd}
  <1>1. CASE DeviceCommand
    BY <1>1 DEF DeviceCommand, addDevice, addDeviceFails, addDeviceRefused, removeDevice,
       renameDevice, setPersistent, removeHotkey, addHotkey
  <1>2. CASE OutputCommand
    BY <1>2 DEF OutputCommand, addOutput, addOutputFails, removeOutput, useOutput
  <1>3. CASE OtherCommand
    BY <1>3 DEF OtherCommand, writeEvents, grabDevices, grabBoth, removeAction, setAction,
       sourceCommandFile, quit, nop, unknownCommand, toClient, stackOverflow
  <1>4. CASE Callback
    BY <1>4 DEF Callback, acceptClient, closeDevice, readCommand, disconnectClient,
       deviceLost, readFails, tryHotkey, forwardEvent, forwardFails
  <1>5. CASE eraseOutput \/ FinishLostOutput \/ removeUnknown \/ removeDangling
    BY <1>5 DEF eraseOutput, FinishLostOutput, removeUnknown, removeDangling
  <1>6. ASSUME NEW fd \in Fds,
               finishClientRemoval(fd) \/ finishDeviceRemoval(fd) \/ finishOutputRemoval(fd)
        PROVE  todo' = todo \ {fd}
    BY <1>6 DEF finishClientRemoval, finishDeviceRemoval, finishOutputRemoval
  <1>7. CASE Loop
    BY <1>7 DEF Loop, started, processCommandQueue, processRemoveQueue, sweepDone, dispatch,
       dispatchDone, dispatchBreak, shutdown, Idle
  <1>8. CASE Wake \/ World \/ UNCHANGED vars
    BY <1>8 DEF Wake, World, poll, pollInterrupted, signull, unplug, vars
  <1>. QED BY <1>1, <1>2, <1>3, <1>4, <1>5, <1>6, <1>7, <1>8 DEF Next, Step, Removal, Ended

(* An output that a write has failed on is queued for removal; the sweep   *)
(* has yet to visit it or is about to drop it.                             *)
Dropping(fd) == \E i \in 1..Len(stack) : stack[i].do = "erase" /\ stack[i].fd = fd
TornQueued ==
    /\ Alive => torn \subseteq OutputFds
    /\ Alive /\ pc # "remove" => torn \subseteq gFDRemoveQueue
    /\ pc = "remove" => \A fd \in torn : fd \in todo \/ Dropping(fd)
    /\ pc = "poll" => torn = {}

(* Nothing is written while the loop sleeps.                               *)
LEMMA IdleInPoll ==
    ASSUME [Next]_vars, pc = "poll", pc' = "poll"
    PROVE  UNCHANGED <<torn, gCurrentOutput, gInputs, gGrab>>
  <1>1. CASE DeviceCommand
    BY <1>1 DEF DeviceCommand, addDevice, addDeviceFails, addDeviceRefused, removeDevice,
       renameDevice, setPersistent, removeHotkey, addHotkey, Executing, Pending, Running
  <1>2. CASE OutputCommand
    BY <1>2 DEF OutputCommand, addOutput, addOutputFails, removeOutput, useOutput, Executing,
       Pending, Running
  <1>3. CASE OtherCommand
    BY <1>3 DEF OtherCommand, writeEvents, grabDevices, grabBoth, removeAction, setAction,
       sourceCommandFile, quit, nop, unknownCommand, toClient, stackOverflow, Executing,
       Pending, Running
  <1>4. CASE Callback
    BY <1>4 DEF Callback, acceptClient, closeDevice, readCommand, disconnectClient,
       deviceLost, readFails, tryHotkey, forwardEvent, forwardFails, Reads, Called, Pending,
       Running
  <1>5. CASE Removal
    BY <1>5 DEF Removal, finishClientRemoval, finishDeviceRemoval, finishOutputRemoval, Removing,
       eraseOutput, FinishLostOutput, removeUnknown, removeDangling, Pending, Running
  <1>6. CASE Loop
    BY <1>6 DEF Loop, started, processCommandQueue, processRemoveQueue, sweepDone, dispatch,
       dispatchDone, dispatchBreak, shutdown, Idle
  <1>7. CASE Wake \/ World \/ UNCHANGED vars
    BY <1>7 DEF Wake, World, poll, pollInterrupted, signull, unplug, vars, readerVars, outputVars,
       deviceVars
  <1>. QED BY <1>1, <1>2, <1>3, <1>4, <1>5, <1>6, <1>7 DEF Next, Step, Ended

(* The sweep visits what it has begun with.                                *)
LEMMA TodoKept ==
    ASSUME TypeOK, OwnersAgree, WorkFits, [Next]_vars, Alive', pc = "remove", NEW fd \in todo,
           fd \in OutputFds
    PROVE  fd \in todo' \/ Dropping(fd)'
  <1>1. gFDCBs[fd].kind = "output"
    BY DEF OwnersAgree, KindsAgree, OutputsOwn, Alive
  <1>2. ASSUME NEW f \in Fds, finishClientRemoval(f) \/ finishDeviceRemoval(f)
        PROVE  f # fd
    BY <1>1, <1>2 DEF finishClientRemoval, finishDeviceRemoval, Removing
  <1>3. ASSUME NEW f \in Fds, finishOutputRemoval(f)
        PROVE  Dropping(f)'
    <2>1. PICK new \in Seq(PassingWork) : stack' = new \o Task("erase", f)
      BY <1>3, ErasePushed
    <2>2. PICK w : w = Work("erase", None, f, "none", <<>>)
      OBVIOUS
    <2>3. w.do = "erase" /\ w.fd = f /\ stack' = new \o <<w>>
      BY <2>1, <2>2 DEF Work, Task
    <2>4. (new \o <<w>>)[Len(new) + 1] = w /\ Len(new) + 1 \in 1..Len(new \o <<w>>)
      OBVIOUS
    <2>. QED BY <2>3, <2>4 DEF Dropping
  <1>. QED BY <1>2, <1>3, StepsOnTodo

(* An output that is being dropped is dropped or still to be.              *)
LEMMA DroppingKept ==
    ASSUME TypeOK, WorkFits, LinesFit, [Next]_vars, Alive', pc = "remove", pc' = "remove",
           NEW fd \in torn, fd \in torn', Dropping(fd)
    PROVE  Dropping(fd)'
  <1>1. PICK j \in 1..Len(stack) : stack[j].do = "erase" /\ stack[j].fd = fd
    BY DEF Dropping
  <1>2. CASE \E i \in 1..Len(stack') : SameTask(stack'[i], stack[j])
    BY <1>1, <1>2 DEF Dropping, SameTask
  <1>3. CASE j = 1 /\ (eraseOutput \/ FinishLostOutput)
    <2>1. Top = stack[1] /\ stack # <<>>
      BY <1>3 DEF Top, TypeOK, StackType
    <2>2. eraseOutput /\ Top.fd = fd
      BY <1>1, <1>3, <2>1 DEF FinishLostOutput, Pending
    <2>3. torn' = torn \ {fd}
      BY <2>2 DEF eraseOutput, Die, Alive
    <2>. QED BY <2>3
  <1>4. Pledge(stack[j])
    BY <1>1 DEF Pledge
  <1>. QED BY <1>2, <1>3, <1>4, PledgesKept

(* While no sweep writes to an output that breaks, all of them are dropped.*)
LEMMA TornStayQueued ==
    ASSUME TypeOK, OwnersAgree, WorkFits, LinesFit, TornQueued, [Next]_vars, NoneTornInSweep
    PROVE  TornQueued'
  <1>. SUFFICES ASSUME Alive' PROVE TornQueued'
    <2>1. ~Alive' => pc' \notin {"remove", "poll"}
      BY DEF Alive
    <2>. QED BY <2>1 DEF TornQueued
  <1>1. Alive
    BY NoRevival
  <1>2. torn' \subseteq OutputFds'
    <2>1. CASE eraseOutput
      BY <1>1, <2>1, ErasedOutputs DEF TornQueued, OutputFds
    <2>. QED BY <1>1, <2>1, StepsOnTorn DEF Tears, TornQueued
  <1>3. CASE pc # "remove"
    <2>1. ~eraseOutput /\ ~sweepDone
      <3>1. ASSUME eraseOutput PROVE FALSE
        <4>1. stack # <<>> /\ Top.do = "erase"
          BY <3>1 DEF eraseOutput, Pending
        <4>2. Top \in Fitting(pc, gCommandClients)
          BY <1>1, <4>1, HeadTailProperties DEF WorkFits, Top
        <4>. QED BY <1>3, <4>1, <4>2 DEF Fitting, FitsIn
      <3>2. ASSUME sweepDone PROVE FALSE
        BY <1>3, <3>2 DEF sweepDone, Idle
      <3>. QED BY <3>1, <3>2
    <2>2. torn' \subseteq gFDRemoveQueue'
      BY <1>1, <1>3, <2>1, StepsOnTorn, QueueGrows DEF Tears, TornQueued
    <2>3. pc' = "poll" => torn' = {}
      <3>. SUFFICES ASSUME pc' = "poll" PROVE torn' = {}
        OBVIOUS
      <3>1. pc = "poll"
        BY <1>3, StepsOnPhase DEF started, AfterEINTR, NextRound, processRemoveQueue, sweepDone, poll,
           pollInterrupted, dispatchDone, dispatchBreak, Idle
      <3>2. UNCHANGED torn
        BY <3>1, IdleInPoll
      <3>. QED BY <3>1, <3>2 DEF TornQueued
    <2>4. pc' = "remove" => torn' \subseteq todo'
      <3>. SUFFICES ASSUME pc' = "remove" PROVE torn' \subseteq todo'
        OBVIOUS
      <3>1. processRemoveQueue
        BY <1>3, StepsOnPhase DEF started, AfterEINTR, NextRound, sweepDone, poll, pollInterrupted,
           dispatchDone, dispatchBreak, Idle
      <3>2. pc = "commands" /\ UNCHANGED torn /\ todo' = gFDRemoveQueue
        BY <3>1 DEF processRemoveQueue, Idle, Sweep, readerVars
      <3>. QED BY <1>1, <3>2 DEF TornQueued
    <2>. QED BY <1>2, <2>2, <2>3, <2>4 DEF TornQueued
  <1>4. CASE pc = "remove"
    <2>1. CASE sweepDone
      <3>1. /\ stack = <<>> /\ todo = {} /\ UNCHANGED <<torn, stack, todo>>
            /\ pc' \in {"quitting", "poll"}
        BY <2>1 DEF sweepDone, Idle, AfterSweep, readerVars
      <3>2. torn = {}
        <4>1. \A fd : ~Dropping(fd)
          BY <3>1 DEF Dropping
        <4>. QED BY <1>4, <3>1, <4>1 DEF TornQueued
      <3>. QED BY <1>2, <3>1, <3>2 DEF TornQueued
    <2>2. CASE ~sweepDone
      <3>1. pc' = "remove"
        BY <1>4, <2>2, StepsOnPhase DEF started, processRemoveQueue, poll, pollInterrupted,
           dispatchDone, dispatchBreak, Idle
      <3>2. ASSUME NEW fd \in torn' PROVE fd \in todo' \/ Dropping(fd)'
        <4>1. fd \in torn /\ fd \in OutputFds /\ fd \in Fds
          BY <1>1, <1>4, <3>2 DEF NoneTornInSweep, TornQueued, TypeOK, ReaderType
        <4>2. CASE fd \in todo
          BY <1>1, <1>4, <3>1, <4>1, <4>2, TodoKept
        <4>3. CASE Dropping(fd)
          BY <1>4, <3>1, <3>2, <4>1, <4>3, DroppingKept
        <4>. QED BY <1>4, <4>1, <4>2, <4>3 DEF TornQueued
      <3>. QED BY <1>2, <3>1, <3>2 DEF TornQueued
    <2>. QED BY <2>1, <2>2
  <1>. QED BY <1>3, <1>4

(* An output that a write has failed on is gone before the next poll, as   *)
(* long as no write fails during the sweep itself (announceDeviceRemoval): *)
(* such a failure is forgotten by the clear() at its end.                  *)
THEOREM BrokenAreDropped == Spec /\ [][NoneTornInSweep]_vars => []FailedOutputsDropped
  <1>1. Init => TornQueued
    BY DEF Init, TornQueued
  <1>2. TypeOK /\ OwnersAgree /\ WorkFits /\ LinesFit /\ TornQueued /\ [Next]_vars
          /\ [NoneTornInSweep]_vars => TornQueued'
    <2>1. CASE UNCHANGED vars /\ TornQueued
      BY <2>1 DEF vars, loopVars, queueVars, outputVars, readerVars, TornQueued, Dropping, OutputFds,
         Alive
    <2>. QED BY <2>1, TornStayQueued
  <1>3. TornQueued => FailedOutputsDropped
    BY DEF TornQueued, FailedOutputsDropped
  <1>. QED BY <1>1, <1>2, <1>3, TypeCorrect, DescriptorsOwned, WorkAlwaysFits, PTL DEF Spec

-----------------------------------------------------------------------------
(* Devices are grabbed for an output.                                      *)

Grabbed == {d \in DOMAIN gInputs : gInputs[d].grabbed}

(* The loop over the devices sets the flag of some of them, and releases   *)
(* all of them when it is to release them.                                 *)
LEMMA ReleasesAll ==
    ASSUME TypeOK, gone = {},
           \E held \in SUBSET MayBeHeld(FALSE) :
             LET refused == held \cup gone IN
             \/ /\ refused = {}
                /\ gInputs' = [d \in DOMAIN gInputs |-> [gInputs[d] EXCEPT !.grabbed = FALSE]]
             \/ refused # {}
    PROVE  Grabbed' = {}
  <1>1. MayBeHeld(FALSE) = {}
    BY DEF MayBeHeld
  <1>2. gInputs' = [d \in DOMAIN gInputs |-> [gInputs[d] EXCEPT !.grabbed = FALSE]]
    BY <1>1
  <1>3. DOMAIN gInputs' = DOMAIN gInputs
    BY <1>2
  <1>4. \A d \in DOMAIN gInputs : gInputs[d] \in Input
    BY DEF TypeOK, DeviceType, Table
  <1>5. \A d \in DOMAIN gInputs : ~gInputs'[d].grabbed
    BY <1>2, <1>4 DEF Input
  <1>. QED BY <1>3, <1>5 DEF Grabbed

(* Which steps there are on the devices and the flag.                      *)
LEMMA StepsOnGrab ==
    ASSUME [Next]_vars
    PROVE  \/ \E d \in Devices : addDevice(d) \/ \E b \in BOOLEAN : setPersistent(d, b)
           \/ \E x \in States : grabDevices(x) \/ grabBoth(x)
           \/ \E fd \in Fds : finishDeviceRemoval(fd)
           \/ FinishLostOutput
           \/ UNCHANGED <<gInputs, gGrab>>
  <1>1. CASE DeviceCommand
    BY <1>1 DEF DeviceCommand, addDeviceFails, addDeviceRefused, removeDevice, renameDevice,
       removeHotkey, addHotkey, deviceVars, outputVars
  <1>2. CASE OutputCommand
    BY <1>2 DEF OutputCommand, addOutput, addOutputFails, removeOutput, useOutput, deviceVars,
       outputVars
  <1>3. CASE OtherCommand
    BY <1>3 DEF OtherCommand, writeEvents, removeAction, setAction, sourceCommandFile, quit, nop,
       unknownCommand, toClient, stackOverflow, deviceVars, outputVars
  <1>4. CASE Callback
    BY <1>4 DEF Callback, acceptClient, closeDevice, readCommand, disconnectClient,
       deviceLost, readFails, tryHotkey, forwardEvent, forwardFails, lostCurrentOutput,
       deviceVars, outputVars
  <1>5. CASE Removal
    BY <1>5 DEF Removal, finishClientRemoval, finishOutputRemoval, lostCurrentOutput, eraseOutput,
       removeUnknown, removeDangling, deviceVars, outputVars
  <1>6. CASE Loop
    BY <1>6 DEF Loop, started, processCommandQueue, processRemoveQueue, sweepDone, dispatch,
       dispatchDone, dispatchBreak, shutdown, deviceVars, outputVars
  <1>7. CASE Wake \/ World \/ UNCHANGED vars
    BY <1>7 DEF Wake, World, poll, pollInterrupted, signull, unplug, vars, deviceVars, outputVars
  <1>. QED BY <1>1, <1>2, <1>3, <1>4, <1>5, <1>6, <1>7 DEF Next, Step, Ended

(* Every step that grabs a device leaves gGrab set.                        *)
LEMMA StepsOnGrabbed ==
    ASSUME TypeOK, gone = {}, Grabbed # {} => gGrab, [Next]_vars
    PROVE  /\ Grabbed' # {} => gGrab'
           /\ FinishLostOutput => Grabbed' = {}
  <1>1. ASSUME NEW x \in States, grabDevices(x) PROVE Grabbed' # {} => gGrab'
    <2>1. PICK on : on = Selected(x, gGrab)
      OBVIOUS
    <2>2. on \in BOOLEAN /\ gGrab' = on
      BY <1>1, <2>1, SelectedType DEF grabDevices, TypeOK, OutputType
    <2>3. CASE on = FALSE
      <3>1. grab(FALSE, Finish(fireEvent(Top.client, "grab-changed")))
        BY <1>1, <2>1, <2>3 DEF grabDevices
      <3>2. Grabbed' = {}
        BY <3>1, ReleasesAll DEF grab
      <3>. QED BY <3>2
    <2>. QED BY <2>2, <2>3
  <1>2. ASSUME NEW x \in States, grabBoth(x) PROVE Grabbed' # {} => gGrab'
    <2>1. PICK on : on = Selected(x, gGrab)
      OBVIOUS
    <2>2. on \in BOOLEAN /\ gGrab' = on
      BY <1>2, <2>1, SelectedType DEF grabBoth, TypeOK, OutputType
    <2>3. CASE on = FALSE
      <3>1. grab(FALSE, Finish(fireEvent(Top.client, "grab-changed")
                               \o Run(Top.client, "none", <<WriteEvents(x)>>)))
        BY <1>2, <2>1, <2>3 DEF grabBoth
      <3>2. Grabbed' = {}
        BY <3>1, ReleasesAll DEF grab
      <3>. QED BY <3>2
    <2>. QED BY <2>2, <2>3
  <1>3. ASSUME FinishLostOutput PROVE Grabbed' = {}
    <2>1. CASE HeldOnLoss
      <3>1. grab(FALSE, /\ stack' = fireEvent(None, "grab-changed") \o Tail(stack)
                        /\ UNCHANGED loopVars)
        BY <1>3, <2>1 DEF FinishLostOutput
      <3>2. Grabbed' = {}
        BY <3>1, ReleasesAll DEF grab
      <3>. QED BY <3>2
    <2>2. CASE ~HeldOnLoss
      <3>1. UNCHANGED gInputs /\ Grabbed = {}
        BY <1>3, <2>2 DEF FinishLostOutput, HeldOnLoss
      <3>. QED BY <3>1 DEF Grabbed
    <2>. QED BY <2>1, <2>2
  <1>4. ASSUME Grabbed' \subseteq Grabbed, UNCHANGED gGrab PROVE Grabbed' # {} => gGrab'
    BY <1>4
  <1>5. ASSUME NEW d \in Devices, addDevice(d) PROVE Grabbed' # {} => gGrab'
    <2>1. PICK fd : gInputs' = Put(gInputs, d, NewInput(getNextInputID, fd))
      BY <1>5 DEF addDevice
    <2>2. UNCHANGED gGrab
      BY <1>5 DEF addDevice, outputVars
    <2>3. Grabbed' \subseteq Grabbed
      BY <2>1 DEF Put, NewInput, Grabbed
    <2>. QED BY <1>4, <2>2, <2>3
  <1>6. ASSUME NEW d \in Devices, NEW b \in BOOLEAN, setPersistent(d, b)
        PROVE  Grabbed' # {} => gGrab'
    <2>1. \/ gInputs' = [gInputs EXCEPT ![d].persistent = b] \/ UNCHANGED gInputs
      BY <1>6 DEF setPersistent
    <2>2. UNCHANGED gGrab
      BY <1>6 DEF setPersistent, outputVars
    <2>3. Grabbed' \subseteq Grabbed
      BY <2>1 DEF Grabbed, TypeOK, DeviceType, Table, Input
    <2>. QED BY <1>4, <2>2, <2>3
  <1>7. ASSUME NEW fd \in Fds, finishDeviceRemoval(fd) PROVE Grabbed' # {} => gGrab'
    <2>1. PICK d : gInputs' = Without(gInputs, {d})
      BY <1>7 DEF finishDeviceRemoval
    <2>2. UNCHANGED gGrab
      BY <1>7 DEF finishDeviceRemoval, outputVars
    <2>3. Grabbed' \subseteq Grabbed
      BY <2>1 DEF Without, Restrict, Grabbed
    <2>. QED BY <1>4, <2>2, <2>3
  <1>8. ASSUME UNCHANGED <<gInputs, gGrab>> PROVE Grabbed' # {} => gGrab'
    BY <1>8 DEF Grabbed
  <1>9. Grabbed' # {} => gGrab'
    BY <1>1, <1>2, <1>3, <1>5, <1>6, <1>7, <1>8, StepsOnGrab
  <1>. QED BY <1>3, <1>9

(* No device is grabbed while there is no current output.                  *)
GrabsForOutput == gCurrentOutput.fd = None => Grabbed' \subseteq Grabbed

(* Without an output the devices are released, or lostCurrentOutput has    *)
(* its second half still to do.                                            *)
LostGrabDue == \E i \in 1..Len(stack) : stack[i].do = "lost grab"
GrabsReleased ==
    /\ Grabbed # {} => gGrab
    /\ (Alive /\ pc # "quitting" /\ gCurrentOutput.fd = None) => Grabbed = {} \/ LostGrabDue

(* Losing the current output leaves that to do.                            *)
LEMMA LosingIsDue ==
    ASSUME TypeOK, NEW after \in Seq(WorkItem), lostCurrentOutput(after)
    PROVE  LostGrabDue'
  <1>1. PICK new \in Seq(PassingWork) : /\ stack' = new \o after
                                        /\ \E i \in 1..Len(new) : new[i].do = "lost grab"
    BY LostPushes
  <1>2. PICK i \in 1..Len(new) : new[i].do = "lost grab"
    BY <1>1
  <1>3. i \in 1..Len(new \o after) /\ (new \o after)[i] = new[i]
    OBVIOUS
  <1>. QED BY <1>1, <1>2, <1>3 DEF LostGrabDue

(* It is done before anything else is.                                     *)
LEMMA GrabsStayReleased ==
    ASSUME TypeOK, WorkFits, LinesFit, gone = {}, GrabsReleased, [Next]_vars, GrabsForOutput
    PROVE  GrabsReleased'
  <1>1. /\ Grabbed' # {} => gGrab'
        /\ FinishLostOutput => Grabbed' = {}
    BY StepsOnGrabbed DEF GrabsReleased
  <1>. SUFFICES ASSUME Alive', pc' # "quitting", gCurrentOutput'.fd = None, Grabbed' # {}
                PROVE  LostGrabDue'
    BY <1>1 DEF GrabsReleased
  <1>2. Alive /\ pc # "quitting"
    <2>1. Alive
      BY NoRevival
    <2>2. pc # "quitting"
      BY StepsOnPhase DEF started, processRemoveQueue, sweepDone, poll, pollInterrupted,
         dispatchDone, dispatchBreak, Idle
    <2>. QED BY <2>1, <2>2
  <1>3. CASE gCurrentOutput.fd = None
    <2>1. LostGrabDue
      BY <1>2, <1>3 DEF GrabsForOutput, GrabsReleased
    <2>2. PICK j \in 1..Len(stack) : stack[j].do = "lost grab"
      BY <2>1 DEF LostGrabDue
    <2>3. Pledge(stack[j])
      BY <2>2 DEF Pledge
    <2>4. CASE \E i \in 1..Len(stack') : SameTask(stack'[i], stack[j])
      BY <2>2, <2>4 DEF LostGrabDue, SameTask
    <2>5. CASE j = 1 /\ (eraseOutput \/ FinishLostOutput)
      <3>1. Top = stack[1]
        BY <2>5 DEF Top, TypeOK, StackType
      <3>2. ~eraseOutput
        BY <2>2, <2>5, <3>1 DEF eraseOutput, Pending
      <3>. QED BY <1>1, <2>5, <3>2
    <2>. QED BY <2>3, <2>4, <2>5, PledgesKept
  <1>4. CASE gCurrentOutput.fd # None
    <2>1. None \notin Fds /\ \A o \in DOMAIN gOutputs : gOutputs[o] \in Fds
      <3>1. None \notin Fds
        BY DaemonAssumption DEF Fds, None
      <3>. QED BY <3>1 DEF TypeOK, OutputType, Table
    <2>2. ASSUME NEW o \in Outputs, useOutput(o) PROVE FALSE
      <3>1. \/ gCurrentOutput' = [fd |-> gOutputs[o], name |-> o] /\ o \in DOMAIN gOutputs
            \/ UNCHANGED gCurrentOutput
        BY <2>2 DEF useOutput
      <3>. QED BY <1>4, <2>1, <3>1
    <2>3. ASSUME NEW o \in Outputs, NEW resume \in BOOLEAN, addOutput(o, resume) PROVE FALSE
      BY <1>4, <2>3 DEF addOutput
    <2>4. ASSUME NEW fd \in Fds, NEW k \in Keys, forwardFails(fd, k) PROVE LostGrabDue'
      <3>1. stack # <<>> /\ lostCurrentOutput(Tail(stack))
        BY <2>4 DEF forwardFails, Reads, Called, Pending
      <3>2. Tail(stack) \in Seq(WorkItem)
        BY <3>1, TopType DEF TypeOK
      <3>. QED BY <3>1, <3>2, LosingIsDue
    <2>5. ASSUME NEW fd \in Fds, finishOutputRemoval(fd) PROVE LostGrabDue'
      <3>1. CASE IsCurrent(fd)
        <4>1. lostCurrentOutput(Task("erase", fd))
          BY <2>5, <3>1 DEF finishOutputRemoval
        <4>2. fd \in Clients /\ "erase" \in Works
          BY DEF Clients, Works
        <4>3. Work("erase", None, fd, "none", <<>>) \in WorkItem
          BY <4>2, TaskItem
        <4>4. Task("erase", fd) \in Seq(WorkItem)
          BY <4>3, OneItem DEF Task
        <4>. QED BY <4>1, <4>4, LosingIsDue
      <3>2. CASE ~IsCurrent(fd)
        BY <1>4, <2>5, <3>2 DEF finishOutputRemoval, outputVars
      <3>. QED BY <3>1, <3>2
    <2>6. ~eraseOutput /\ ~UNCHANGED <<gOutputs, gCurrentOutput>>
      BY <1>4 DEF eraseOutput
    <2>. QED BY <2>2, <2>3, <2>4, <2>5, <2>6, StepsOnCurrent
  <1>. QED BY <1>3, <1>4

(* No device is held for an output that is gone when the loop goes to      *)
(* sleep: lostCurrentOutput releases them all, when no device disappears   *)
(* meanwhile (releasing it would fail) and none is grabbed by a command    *)
(* that is given when there is no output.                                  *)
THEOREM GrabsEndWithOutput ==
    Spec /\ [](gone = {}) /\ [][GrabsForOutput]_vars => []GrabHasOutput
  <1>1. Init => GrabsReleased
    BY DEF Init, GrabsReleased, Grabbed, NoEntries
  <1>2. TypeOK /\ WorkFits /\ LinesFit /\ gone = {} /\ GrabsReleased /\ [Next]_vars
          /\ [GrabsForOutput]_vars => GrabsReleased'
    <2>1. CASE UNCHANGED vars /\ GrabsReleased
      BY <2>1 DEF vars, loopVars, deviceVars, outputVars, GrabsReleased, LostGrabDue, Grabbed, Alive
    <2>. QED BY <2>1, GrabsStayReleased
  <1>3. GrabsReleased => GrabHasOutput
    <2>. SUFFICES ASSUME GrabsReleased, Idle("poll"), gCurrentOutput.fd = None
                  PROVE  \A d \in DOMAIN gInputs : ~gInputs[d].grabbed
      BY DEF GrabHasOutput
    <2>1. ~LostGrabDue
      BY DEF Idle, LostGrabDue
    <2>2. Grabbed = {}
      BY <2>1 DEF GrabsReleased, Idle, Alive
    <2>. QED BY <2>2 DEF Grabbed
  <1>. QED BY <1>1, <1>2, <1>3, TypeCorrect, WorkAlwaysFits, PTL DEF Spec

=============================================================================
