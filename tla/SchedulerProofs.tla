--------------------------- MODULE SchedulerProofs ---------------------------
(***************************************************************************)
(* Proofs about Scheduler for every number of Logo threads, slots and      *)
(* tasks.                                                                  *)
(***************************************************************************)
EXTENDS Scheduler, TLAPS

(* What the loop's local variables hold at each point of a tick.           *)
LoopShape ==
  \A h \in Live :
    /\ thread[h].pc \in {"wake", "tick", "take"} =>
         thread[h].todo = {} /\ thread[h].kept = {} /\ thread[h].task = None
    /\ thread[h].pc = "run" => thread[h].task = None
    /\ thread[h].pc \in {"lock", "wait"} => thread[h].task \in Tasks

Inv == TypeOK /\ OneThread /\ NothingStranded /\ HeldOnce /\ LoopShape

(* A live thread executes a loop state.                                    *)
LEMMA LiveType ==
  ASSUME TypeOK, NEW h \in Live
  PROVE  h \in Threads /\ thread[h] \in Loop
  BY DEF TypeOK, Live

(* ensure_running keeps the flag and the threads well typed.               *)
LEMMA SpawnType ==
  ASSUME TypeOK, EnsureRunning
  PROVE  running' \in BOOLEAN /\ thread' \in [Threads -> Loop \cup {None}]
  <1>1. Start \in Loop
    BY DEF Start, Loop
  <1> QED
    BY <1>1 DEF TypeOK, EnsureRunning

(* What a Logo thread can be in is well typed.                             *)
LEMMA CallTypes ==
  /\ Idle \in Call
  /\ \A s \in Slots, flash \in BOOLEAN :
       /\ [Idle EXCEPT !.pc = "adding", !.slot = s] \in Call
       /\ [Idle EXCEPT !.pc = "removing", !.slot = s] \in Call
       /\ [pc |-> "sent", slot |-> s, flash |-> flash] \in Call
  /\ \A call \in Call : call.pc # "idle" => call.slot \in Slots
  /\ \A call \in Call : call.pc = "sent" => [call EXCEPT !.pc = "answered"] \in Call
  <1> DEFINE Busy == [pc : {"adding", "removing", "sent", "answered"},
                      slot : Slots, flash : BOOLEAN]
  <1>1. \A call \in Call : call.pc # "idle" => call \in Busy
    BY DEF Idle, Call
  <1>2. \A call \in Busy : [call EXCEPT !.pc = "answered"] \in Busy
    OBVIOUS
  <1>3. Call = {Idle} \cup Busy /\ Idle \in Call
    BY DEF Call
  <1>4. \A call \in Call : call.pc = "sent" => [call EXCEPT !.pc = "answered"] \in Call
    BY <1>1, <1>2, <1>3
  <1>5. \A s \in Slots, flash \in BOOLEAN :
          /\ [Idle EXCEPT !.pc = "adding", !.slot = s] \in Busy
          /\ [Idle EXCEPT !.pc = "removing", !.slot = s] \in Busy
          /\ [pc |-> "sent", slot |-> s, flash |-> flash] \in Busy
    BY DEF Idle
  <1> QED
    BY <1>1, <1>3, <1>4, <1>5

(* A step of a Logo thread keeps the types.                                *)
LEMMA ClientTypeOK ==
  ASSUME TypeOK, NEW c \in Clients, ClientStep(c)
  PROVE  TypeOK'
  <1>1. ASSUME NEW s \in Slots, RegisterSlot(c, s)
        PROVE  TypeOK'
    BY <1>1, SpawnType, CallTypes DEF RegisterSlot, TypeOK
  <1>2. ASSUME NEW s \in Slots, RemoveDevice(c, s)
        PROVE  TypeOK'
    BY <1>2, CallTypes DEF RemoveDevice, TypeOK, FlashesOf
  <1>3. ASSUME NEW s \in Slots, NEW flash \in BOOLEAN, Send(c, s, flash)
        PROVE  TypeOK'
    <2>1. queue' \in [Slots -> SUBSET Callers]
      <3>1. queue[s] \cup {c} \in SUBSET Callers
        BY DEF TypeOK, Callers
      <3>2. queue' = [queue EXCEPT ![s] = queue[s] \cup {c}] \/ queue' = queue
        BY <1>3 DEF Send
      <3> QED
        BY <3>1, <3>2 DEF TypeOK
    <2>2. client' \in [Clients -> Call]
      <3>1. [pc |-> "sent", slot |-> s, flash |-> flash] \in Call
        BY CallTypes
      <3> QED
        BY <1>3, <3>1 DEF Send, TypeOK
    <2>3. pm' \in Clients \cup Threads \cup {None} /\ cancelled' \subseteq Tasks
      BY <1>3 DEF Send, TypeOK, FlashesOf
    <2> QED
      BY <1>3, <2>1, <2>2, <2>3 DEF Send, TypeOK, hardware
  <1>4. CASE AddDevice(c)
    <2>1. client[c].slot \in Slots
      BY <1>4, CallTypes DEF AddDevice, TypeOK
    <2> QED
      BY <1>4, <2>1, CallTypes DEF AddDevice, TypeOK
  <1>5. CASE DeregisterSlot(c)
    <2>1. client[c].slot \in Slots
      BY <1>5, CallTypes DEF DeregisterSlot, TypeOK
    <2> QED
      BY <1>5, <2>1, CallTypes DEF DeregisterSlot, TypeOK
  <1>6. CASE TimeOut(c) \/ Finish(c)
    BY <1>6, CallTypes DEF TimeOut, Finish, TypeOK, hardware
  <1>7. ASSUME NEW t \in Tasks, RegisterTask(c, t)
        PROVE  TypeOK'
    <2>1. client[c].slot \in Slots
      BY <1>7, CallTypes DEF RegisterTask, TypeOK
    <2>2. running' \in BOOLEAN /\ thread' \in [Threads -> Loop \cup {None}]
      BY <1>7, SpawnType DEF RegisterTask
    <2> QED
      BY <1>7, <2>1, <2>2, CallTypes DEF RegisterTask, TypeOK, hardware
  <1> QED
    BY <1>1, <1>2, <1>3, <1>4, <1>5, <1>6, <1>7 DEF ClientStep

(* A step of the scheduler thread keeps the types.                         *)
LEMMA LoopTypeOK ==
  ASSUME TypeOK, LoopShape, NEW h \in Threads, LoopStep(h)
  PROVE  TypeOK'
  <1>0. h \in Live /\ thread[h] \in Loop
    BY DEF LoopStep, ReapSlots, TickEnd, TakeTasks, LockDevice, ToggleTimeOut, MergeTasks,
       TickSlot, CallTask, At, Live, TypeOK
  <1>1. CASE ReapSlots(h)
    BY <1>0, <1>1, CallTypes DEF ReapSlots, TypeOK, Loop, hardware, Drained
  <1>2. ASSUME NEW s \in Slots, TickSlot(h, s)
        PROVE  TypeOK'
    BY <1>0, <1>2, CallTypes DEF TickSlot, TypeOK, Loop, hardware, Drained, Answered
  <1>3. CASE TickEnd(h)
    BY <1>0, <1>3 DEF TickEnd, TypeOK, Loop, hardware
  <1>4. CASE TakeTasks(h)
    BY <1>0, <1>4 DEF TakeTasks, TypeOK, Loop, hardware
  <1>5. ASSUME NEW t \in Tasks, CallTask(h, t)
        PROVE  TypeOK'
    <2>1. thread' \in [Threads -> Loop \cup {None}]
      BY <1>0, <1>5 DEF CallTask, TypeOK, Loop
    <2>2. flashing' \in [Tasks -> Slots \cup {None}]
      BY <1>5 DEF CallTask, TypeOK
    <2> QED
      BY <1>5, <2>1, <2>2 DEF CallTask, TypeOK, hardware
  <1>6. CASE LockDevice(h)
    <2>1. thread[h].task \in Tasks
      BY <1>0, <1>6 DEF LockDevice, LoopShape, At
    <2>2. thread' \in [Threads -> Loop \cup {None}] /\ pm' \in Clients \cup Threads \cup {None}
      BY <1>0, <1>6 DEF LockDevice, TypeOK, Loop
    <2>3. flashing' \in [Tasks -> Slots \cup {None}] /\ queue' \in [Slots -> SUBSET Callers]
      BY <1>6, <2>1 DEF LockDevice, TypeOK, Callers
    <2> QED
      BY <1>6, <2>2, <2>3 DEF LockDevice, TypeOK, hardware
  <1>7. CASE ToggleTimeOut(h)
    <2>1. thread[h].task \in Tasks
      BY <1>0, <1>7 DEF ToggleTimeOut, LoopShape, At
    <2>2. thread' \in [Threads -> Loop \cup {None}]
      BY <1>0, <1>7, <2>1 DEF ToggleTimeOut, TypeOK, Loop
    <2> QED
      BY <1>7, <2>2 DEF ToggleTimeOut, TypeOK, hardware
  <1>8. CASE MergeTasks(h)
    <2>1. tasks' \subseteq Tasks
      BY <1>0, <1>8 DEF MergeTasks, TypeOK, Loop
    <2>2. thread' \in [Threads -> Loop \cup {None}] /\ running' \in BOOLEAN
      <3>1. Start \in Loop
        BY DEF Start, Loop
      <3> QED
        BY <1>8, <3>1 DEF MergeTasks, TypeOK
    <2> QED
      BY <1>8, <2>1, <2>2 DEF MergeTasks, TypeOK, hardware
  <1> QED
    BY <1>1, <1>2, <1>3, <1>4, <1>5, <1>6, <1>7, <1>8 DEF LoopStep

(* A running thread is the only one.                                       *)
LEMMA Solo ==
  ASSUME TypeOK, OneThread, NEW h \in Live
  PROVE  Live = {h} /\ running = TRUE /\ h \in Threads /\ thread[h] \in Loop
  BY LiveType DEF OneThread, TypeOK

(* Only a live scheduler thread takes a step.                              *)
LEMMA LoopIsLive ==
  ASSUME NEW h \in Threads, LoopStep(h)
  PROVE  h \in Live
  BY DEF LoopStep, ReapSlots, TickEnd, TakeTasks, LockDevice, ToggleTimeOut, MergeTasks,
     TickSlot, CallTask, At, Live

(* A step of the loop before the merge leaves the thread alive and moves   *)
(* its tasks about.                                                        *)
LEMMA LoopFields ==
  ASSUME TypeOK, OneThread, LoopShape, NEW h \in Threads, LoopStep(h), ~MergeTasks(h)
  PROVE  LET now == thread'[h]
             was == thread[h]
         IN /\ Live' = {h} /\ running' = running /\ slots' \subseteq slots
            /\ \/ /\ tasks' = tasks /\ flashing' = flashing
                  /\ now.todo = was.todo /\ now.kept = was.kept /\ now.task = was.task
                  /\ \/ was.pc \in {"wake", "tick"} /\ now.pc \in {"tick", "take"}
                     \/ was.pc = "lock" /\ now.pc = "wait"
               \/ /\ was.pc = "take" /\ now.pc = "run" /\ flashing' = flashing
                  /\ tasks' = {} /\ now.todo = tasks /\ now.kept = {} /\ now.task = was.task
               \/ /\ was.pc = "run" /\ tasks' = tasks
                  /\ \E t \in was.todo :
                       /\ now.todo = was.todo \ {t}
                       /\ \/ /\ now.kept = was.kept /\ now.task = was.task /\ now.pc = "run"
                             /\ flashing' = [flashing EXCEPT ![t] = None]
                          \/ /\ now.kept = was.kept \cup {t} /\ now.task = was.task
                             /\ now.pc = "run" /\ flashing' = flashing
                          \/ /\ now.kept = was.kept /\ now.task = t /\ now.pc = "lock"
                             /\ flashing' = flashing
               \/ /\ was.pc = "lock" /\ now.pc = "run" /\ tasks' = tasks /\ now.todo = was.todo
                  /\ now.kept = was.kept /\ now.task = None
                  /\ flashing' = [flashing EXCEPT ![was.task] = None]
               \/ /\ was.pc = "wait" /\ now.pc = "run" /\ tasks' = tasks /\ now.todo = was.todo
                  /\ now.kept = was.kept \cup {was.task} /\ now.task = None
                  /\ flashing' = flashing
  <1>1. Live = {h} /\ running = TRUE /\ thread[h] \in Loop
    BY LoopIsLive, Solo
  <1>2. CASE ReapSlots(h)
    BY <1>1, <1>2, SchedulerAssumption DEF ReapSlots, TypeOK, Loop, Live, At
  <1>3. CASE \E s \in Slots : TickSlot(h, s)
    <2>1. PICK s \in Slots : TickSlot(h, s)
      BY <1>3
    <2> QED
      BY <1>1, <2>1, SchedulerAssumption DEF TickSlot, TypeOK, Loop, Live, At
  <1>4. CASE TickEnd(h)
    BY <1>1, <1>4, SchedulerAssumption DEF TickEnd, TypeOK, Loop, Live, At
  <1>5. CASE TakeTasks(h)
    BY <1>1, <1>5, SchedulerAssumption DEF TakeTasks, TypeOK, Loop, Live, At
  <1>6. CASE \E t \in Tasks : CallTask(h, t)
    BY <1>1, <1>6, SchedulerAssumption DEF CallTask, TypeOK, Loop, Live, At
  <1>7. CASE LockDevice(h)
    BY <1>1, <1>7, SchedulerAssumption DEF LockDevice, TypeOK, Loop, Live, At
  <1>8. CASE ToggleTimeOut(h)
    BY <1>1, <1>8, SchedulerAssumption DEF ToggleTimeOut, TypeOK, Loop, Live, At
  <1> QED
    BY Zenon, <1>2, <1>3, <1>4, <1>5, <1>6, <1>7, <1>8 DEF LoopStep

(* A step of the scheduler thread keeps the invariant.                     *)
LEMMA LoopPreserves ==
  ASSUME Inv, NEW h \in Threads, LoopStep(h)
  PROVE  (OneThread /\ NothingStranded /\ HeldOnce /\ LoopShape)'
  <1>1. Live = {h} /\ running = TRUE /\ thread[h] \in Loop
    BY LoopIsLive, Solo DEF Inv
  <1>2. CASE MergeTasks(h)
    <2>1. /\ thread[h].todo = {} /\ thread[h].task = None
          /\ tasks' = thread[h].kept \cup tasks
          /\ flashing' = flashing /\ slots' = slots
      BY <1>1, <1>2 DEF MergeTasks, At, Inv, LoopShape
    <2>2. \A t \in Tasks : flashing'[t] # None <=> t \in tasks'
      BY <1>1, <2>1 DEF Inv, HeldOnce, Carried
    <2>3. CASE slots = {} /\ tasks' = {}
      <3>1. running' = FALSE /\ Live' = {}
        BY <1>1, <1>2, <2>3 DEF MergeTasks, Live, Inv, TypeOK
      <3> QED
        BY <2>1, <2>2, <2>3, <3>1 DEF OneThread, NothingStranded, HeldOnce, LoopShape
    <2>4. CASE ~(slots = {} /\ tasks' = {})
      <3>1. running' = TRUE /\ Live' = {h} /\ thread'[h] = Start
        <4>1. thread' = [thread EXCEPT ![h] = Start] /\ running' = running
          BY <1>2, <2>1, <2>4 DEF MergeTasks
        <4>2. Start # None
          BY SchedulerAssumption DEF Start, Loop
        <4> QED
          BY <1>1, <4>1, <4>2 DEF Live, Inv, TypeOK
      <3>2. Carried(h)' = {}
        BY <3>1 DEF Carried, Start
      <3> QED
        BY <2>2, <3>1, <3>2 DEF OneThread, NothingStranded, HeldOnce, LoopShape, Start
    <2> QED
      BY <2>3, <2>4
  <1>3. CASE ~MergeTasks(h)
    <2>1. Live' = {h} /\ running' = TRUE
      BY <1>1, <1>3, LoopFields DEF Inv
    <2>2. (OneThread /\ NothingStranded)'
      BY <2>1 DEF OneThread, NothingStranded
    <2>3. LoopShape'
      BY <1>1, <1>3, <2>1, LoopFields DEF Inv, LoopShape, Loop
    <2>4. HeldOnce'
      BY <1>1, <1>3, <2>1, LoopFields, SchedulerAssumption
         DEF Inv, HeldOnce, Carried, LoopShape, Loop, TypeOK
    <2> QED
      BY <2>2, <2>3, <2>4
  <1> QED
    BY <1>2, <1>3

(* A new thread starts with empty hands.                                   *)
LEMMA SpawnPreserves ==
  ASSUME Inv, EnsureRunning
  PROVE  /\ OneThread' /\ Live' # {} /\ LoopShape'
         /\ \A h \in Live' :
              \/ h \in Live /\ thread'[h] = thread[h]
              \/ Live = {} /\ Live' = {h} /\ thread'[h] = Start
  <1>1. CASE running /\ UNCHANGED <<running, thread>>
    <2>1. Live' = Live /\ thread' = thread /\ running' = running /\ Live # {}
      BY <1>1 DEF Live, Inv, OneThread
    <2>2. OneThread' /\ LoopShape'
      BY <2>1 DEF Inv, OneThread, LoopShape
    <2>3. \A h \in Live' : h \in Live /\ thread'[h] = thread[h]
      BY <2>1
    <2> QED
      BY <2>1, <2>2, <2>3
  <1>2. CASE ~running
    <2>1. Live = {}
      BY <1>2 DEF Inv, OneThread
    <2>2. PICK h \in Threads : thread' = [thread EXCEPT ![h] = Start] /\ running' = TRUE
      BY <1>2 DEF EnsureRunning
    <2>3. Start # None
      BY SchedulerAssumption DEF Start, Loop
    <2>4. Live' = {h} /\ thread'[h] = Start
      BY <2>1, <2>2, <2>3 DEF Live, Inv, TypeOK
    <2> QED
      BY <2>1, <2>2, <2>4 DEF OneThread, LoopShape, Start
  <1> QED
    BY <1>1, <1>2 DEF EnsureRunning

(* A step of a Logo thread keeps the invariant.                            *)
LEMMA ClientPreserves ==
  ASSUME Inv, NEW c \in Clients, ClientStep(c)
  PROVE  (OneThread /\ NothingStranded /\ HeldOnce /\ LoopShape)'
  <1>1. CASE UNCHANGED <<running, thread, tasks, flashing>> /\ slots' \subseteq slots
    <2>1. Live' = Live
      BY <1>1 DEF Live
    <2>2. \A h : Carried(h)' = Carried(h)
      BY <1>1 DEF Carried
    <2> QED
      BY <1>1, <2>1, <2>2 DEF Inv, OneThread, NothingStranded, HeldOnce, LoopShape
  <1>2. ASSUME NEW s \in Slots, RegisterSlot(c, s)
        PROVE  (OneThread /\ NothingStranded /\ HeldOnce /\ LoopShape)'
    <2>1. EnsureRunning /\ UNCHANGED <<tasks, flashing>>
      BY <1>2 DEF RegisterSlot
    <2>2. \A h \in Live' :
            \/ h \in Live /\ Carried(h)' = Carried(h) /\ thread'[h] = thread[h]
            \/ Live = {} /\ Live' = {h} /\ Carried(h)' = {} /\ thread'[h] = Start
      BY <2>1, SpawnPreserves DEF Carried, Start
    <2>3. HeldOnce'
      BY <2>1, <2>2, SpawnPreserves DEF Inv, HeldOnce, OneThread, Start
    <2> QED
      BY <2>1, <2>3, SpawnPreserves DEF NothingStranded
  <1>3. ASSUME NEW t \in Tasks, RegisterTask(c, t)
        PROVE  (OneThread /\ NothingStranded /\ HeldOnce /\ LoopShape)'
    <2>1. /\ EnsureRunning /\ tasks' = tasks \cup {t} /\ flashing[t] = None
          /\ flashing' = [flashing EXCEPT ![t] = client[c].slot]
          /\ client[c].slot \in Slots
      BY <1>3, CallTypes DEF RegisterTask, Inv, TypeOK
    <2>2. \A h \in Live' :
            \/ h \in Live /\ Carried(h)' = Carried(h) /\ thread'[h] = thread[h]
            \/ Live = {} /\ Live' = {h} /\ Carried(h)' = {} /\ thread'[h] = Start
      BY <2>1, SpawnPreserves DEF Carried, Start
    <2>3. HeldOnce'
      BY <2>1, <2>2, SpawnPreserves, SchedulerAssumption
         DEF Inv, HeldOnce, OneThread, Start, TypeOK
    <2> QED
      BY <2>1, <2>3, SpawnPreserves DEF NothingStranded
  <1> QED
    BY <1>1, <1>2, <1>3
       DEF ClientStep, AddDevice, DeregisterSlot, TimeOut, Finish, RemoveDevice, Send

(* One thread, nothing stranded and no closure lost or held twice, together *)
(* with the shape of the loop that makes them inductive.                   *)
THEOREM InvHolds == Spec => []Inv
  <1>1. Init => Inv
    BY CallTypes DEF Init, Inv, TypeOK, OneThread, NothingStranded, HeldOnce, LoopShape, Live
  <1>2. Inv /\ [Next]_vars => Inv'
    <2> SUFFICES ASSUME Inv, [Next]_vars PROVE Inv'
      OBVIOUS
    <2>1. ASSUME NEW c \in Clients, ClientStep(c)
          PROVE  Inv'
      BY <2>1, ClientTypeOK, ClientPreserves DEF Inv
    <2>2. ASSUME NEW h \in Threads, LoopStep(h)
          PROVE  Inv'
      BY <2>2, LoopTypeOK, LoopPreserves DEF Inv
    <2>3. CASE (\E s \in Slots : LinkLost(s)) \/ UNCHANGED vars
      <3>1. UNCHANGED <<pm, mutex, slots, tasks, running, thread, devices, flashing,
                        cancelled, queue, client>> /\ alive' \subseteq alive
        BY <2>3 DEF LinkLost, vars
      <3>2. Live' = Live /\ \A h : Carried(h)' = Carried(h)
        BY <3>1 DEF Live, Carried
      <3> QED
        BY <3>1, <3>2 DEF Inv, TypeOK, OneThread, NothingStranded, HeldOnce, LoopShape
    <2> QED
      BY <2>1, <2>2, <2>3 DEF Next
  <1> QED
    BY <1>1, <1>2, PTL DEF Spec

(* Whatever the threads do, the scheduler's lists, the two mutexes and the *)
(* loop's locals have their types.                                         *)
THEOREM TypeCorrect == Spec => []TypeOK
  BY InvHolds, PTL DEF Inv

(* There is never a second scheduler thread, and thread_running is exact.  *)
THEOREM SingleThread == Spec => []OneThread
  BY InvHolds, PTL DEF Inv

(* No slot or task is registered without a thread that serves it.          *)
THEOREM NoStrandedWork == Spec => []NothingStranded
  BY InvHolds, PTL DEF Inv

(* The task list moved out for a tick and the one that grows meanwhile     *)
(* hold every closure that has not retired, once.                          *)
THEOREM NoTaskLost == Spec => []HeldOnce
  BY InvHolds, PTL DEF Inv
=============================================================================
