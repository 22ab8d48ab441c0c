------------------------------ MODULE Scheduler ------------------------------
(***************************************************************************)
(* The 60 Hz scheduler (crates/bricklogo-hal/src/scheduler.rs) between the *)
(* threads that run Logo code and the slot-based adapters.                 *)
(*                                                                         *)
(* Three things meet here.  The SCHEDULER mutex guards the registered      *)
(* slots and periodic tasks and is held while the slots are ticked.  The   *)
(* PortManager mutex is held by a Logo command for as long as the command  *)
(* runs, which for a slot-based adapter includes the wait for the reply of *)
(* its slot.  The scheduler thread, spawned on demand, ticks the slots,    *)
(* which drain their command queues and reply, and calls the flash         *)
(* closures, which take the PortManager mutex and then wait for a slot     *)
(* that only this thread can tick.                                         *)
(*                                                                         *)
(* A slot's tick is hardware I/O: the model keeps that it answers every    *)
(* queued command.  Timeouts can fire at any moment of a wait.             *)
(***************************************************************************)
EXTENDS Integers, FiniteSets

CONSTANTS
  Clients,   (* threads that run Logo commands                             *)
  Threads,   (* identities for the scheduler threads that get spawned      *)
  Slots,     (* adapters, each with its device slot                        *)
  Tasks,     (* identities of the periodic tasks alive at one time         *)
  None

Callers == Clients \cup Tasks

Loop == [pc : {"wake", "tick", "take", "run", "lock", "wait"},
         ticks : SUBSET Slots,   (* slots still to tick                    *)
         todo : SUBSET Tasks,    (* tasks taken and not called yet         *)
         kept : SUBSET Tasks,    (* tasks called that stay scheduled       *)
         task : Tasks \cup {None}]  (* the task in its closure             *)

Idle == [pc |-> "idle", slot |-> None, flash |-> FALSE]
Call == {Idle} \cup [pc : {"adding", "removing", "sent", "answered"},
                     slot : Slots, flash : BOOLEAN]

Start == [pc |-> "wake", ticks |-> {}, todo |-> {}, kept |-> {}, task |-> None]

ASSUME SchedulerAssumption ==
  /\ None \notin Clients /\ None \notin Threads /\ None \notin Slots
  /\ None \notin Tasks /\ None \notin Loop
  /\ Clients \cap Tasks = {} /\ Clients \cap Threads = {}

VARIABLES
  pm,         (* the holder of the PortManager mutex                       *)
  mutex,      (* the holder of the SCHEDULER mutex                         *)
  slots,      (* sched.slots                                               *)
  tasks,      (* sched.tasks                                               *)
  running,    (* sched.thread_running                                      *)
  thread,     (* the scheduler threads: what each executes                 *)
  alive,      (* the slots whose is_alive is true                          *)
  devices,    (* the adapters the PortManager holds                        *)
  flashing,   (* flashing[t]: the slot that closure t flashes, or None     *)
  cancelled,  (* the closures whose cancel flag is raised                  *)
  queue,      (* queue[s]: the callers whose commands wait in slot s       *)
  client      (* the Logo threads: what each executes                      *)

vars == <<pm, mutex, slots, tasks, running, thread, alive, devices, flashing,
          cancelled, queue, client>>
hardware == <<alive, devices>>

TypeOK ==
  /\ pm \in Clients \cup Threads \cup {None}
  /\ mutex \in Threads \cup {None}
  /\ slots \subseteq Slots /\ tasks \subseteq Tasks /\ running \in BOOLEAN
  /\ thread \in [Threads -> Loop \cup {None}]
  /\ alive \subseteq Slots /\ devices \subseteq Slots
  /\ flashing \in [Tasks -> Slots \cup {None}] /\ cancelled \subseteq Tasks
  /\ queue \in [Slots -> SUBSET Callers]
  /\ client \in [Clients -> Call]

Live == {h \in Threads : thread[h] # None}
At(h, pc) == thread[h] # None /\ thread[h].pc = pc

(* Mutant of EnsureRunning: every registration spawns a thread.            *)
SpawnAlways ==
  /\ running' = TRUE
  /\ \E h \in Threads \ Live : thread' = [thread EXCEPT ![h] = Start]

(* ensure_running: a thread is spawned unless the flag says there is one.  *)
EnsureRunning ==
  \/ running /\ UNCHANGED <<running, thread>>
  \/ /\ ~running /\ running' = TRUE
     /\ \E h \in Threads \ Live : thread' = [thread EXCEPT ![h] = Start]

----------------------------------------------------------------------------
(* Logo threads.                                                           *)

FlashesOf(s) == {t \in Tasks : flashing[t] = s}

(* An adapter's connect: register_slot, without the PortManager mutex.     *)
RegisterSlot(c, s) ==
  /\ client[c] = Idle /\ mutex = None
  /\ s \notin slots \cup devices /\ \A d \in Clients : client[d].slot # s
  /\ slots' = slots \cup {s}
  /\ alive' = alive \cup {s}
  /\ queue' = [queue EXCEPT ![s] = {}]
  /\ EnsureRunning
  /\ client' = [client EXCEPT ![c] = [Idle EXCEPT !.pc = "adding", !.slot = s]]
  /\ UNCHANGED <<pm, mutex, tasks, devices, flashing, cancelled>>

(* add_device, under the PortManager mutex.                                *)
AddDevice(c) ==
  /\ client[c].pc = "adding" /\ pm = None
  /\ devices' = devices \cup {client[c].slot}
  /\ client' = [client EXCEPT ![c] = Idle]
  /\ UNCHANGED <<pm, mutex, slots, tasks, running, thread, alive, flashing,
                 cancelled, queue>>

(* remove_device: the flashes are cancelled under the PortManager mutex,   *)
(* which is kept while deregister_slot waits for the SCHEDULER mutex.  A   *)
(* dead adapter is not disconnected: the scheduler reaps its slot.         *)
RemoveDevice(c, s) ==
  /\ client[c] = Idle /\ pm = None /\ s \in devices
  /\ cancelled' = cancelled \cup FlashesOf(s)
  /\ IF s \in alive
     THEN /\ pm' = c
          /\ client' = [client EXCEPT ![c] = [Idle EXCEPT !.pc = "removing", !.slot = s]]
          /\ UNCHANGED devices
     ELSE devices' = devices \ {s} /\ UNCHANGED <<pm, client>>
  /\ UNCHANGED <<mutex, slots, tasks, running, thread, alive, flashing, queue>>

DeregisterSlot(c) ==
  /\ client[c].pc = "removing" /\ mutex = None
  /\ slots' = slots \ {client[c].slot}
  /\ devices' = devices \ {client[c].slot}
  /\ queue' = [queue EXCEPT ![client[c].slot] = {}]
  /\ pm' = None
  /\ client' = [client EXCEPT ![c] = Idle]
  /\ UNCHANGED <<mutex, tasks, running, thread, alive, flashing, cancelled>>

(* A motor command, or a flash that will start: the port's flash is        *)
(* cancelled and a command goes to the slot's queue, whose reply is        *)
(* awaited with the mutex held.  The command fails at once when the slot   *)
(* was reaped.  Tasks bounds how many closures exist.                      *)
Send(c, s, flash) ==
  /\ client[c] = Idle /\ pm = None /\ s \in devices
  /\ flash => \E t \in Tasks : flashing[t] = None
  /\ cancelled' = cancelled \cup FlashesOf(s)
  /\ IF s \in slots
     THEN /\ pm' = c
          /\ queue' = [queue EXCEPT ![s] = @ \cup {c}]
          /\ client' = [client EXCEPT ![c] = [pc |-> "sent", slot |-> s, flash |-> flash]]
     ELSE UNCHANGED <<pm, queue, client>>
  /\ UNCHANGED <<mutex, slots, tasks, running, thread, hardware, flashing>>

(* Mutant of TimeOut: recv instead of recv_timeout.                        *)
RecvForEver(c) == FALSE /\ client[c].pc = "sent" /\ UNCHANGED vars

(* The wait ends without an answer: the command stays in the queue, and    *)
(* the Logo command fails.                                                 *)
TimeOut(c) ==
  /\ client[c].pc = "sent"
  /\ client' = [client EXCEPT ![c] = Idle]
  /\ pm' = None
  /\ UNCHANGED <<mutex, slots, tasks, running, thread, hardware, flashing,
                 cancelled, queue>>

(* The command returns, or flash registers its closure before it does.     *)
Finish(c) ==
  /\ client[c].pc = "answered" /\ ~client[c].flash
  /\ client' = [client EXCEPT ![c] = Idle]
  /\ pm' = None
  /\ UNCHANGED <<mutex, slots, tasks, running, thread, hardware, flashing,
                 cancelled, queue>>

RegisterTask(c, t) ==
  /\ client[c].pc = "answered" /\ client[c].flash /\ mutex = None
  /\ flashing[t] = None
  /\ flashing' = [flashing EXCEPT ![t] = client[c].slot]
  /\ cancelled' = cancelled \ {t}
  /\ tasks' = tasks \cup {t}
  /\ EnsureRunning
  /\ client' = [client EXCEPT ![c] = Idle]
  /\ pm' = None
  /\ UNCHANGED <<mutex, slots, hardware, queue>>

----------------------------------------------------------------------------
(* scheduler_loop.                                                         *)

(* The callers of a command of S that are waiting: answered, or refused    *)
(* because the slot is dropped with its queue.                             *)
Answered(S) == [c \in Clients |->
  IF client[c].pc = "sent" /\ \E s \in S : c \in queue[s]
  THEN [client[c] EXCEPT !.pc = "answered"] ELSE client[c]]
Refused(S) == {c \in Clients : client[c].pc = "sent" /\ client[c].slot \in S}
Drained(S) == [s \in Slots |-> IF s \in S THEN {} ELSE queue[s]]

(* Mutant of ReapSlots: dead slots stay registered.                        *)
KeepDeadSlots(h) ==
  /\ At(h, "wake") /\ mutex = None
  /\ mutex' = h
  /\ thread' = [thread EXCEPT ![h].pc = "tick", ![h].ticks = slots]
  /\ UNCHANGED <<pm, slots, tasks, running, hardware, flashing, cancelled, queue, client>>

(* The mutex is taken and the dead slots dropped.                          *)
ReapSlots(h) ==
  /\ At(h, "wake") /\ mutex = None
  /\ mutex' = h
  /\ slots' = slots \cap alive
  /\ queue' = Drained(slots \ alive)
  /\ LET refused == Refused(slots \ alive)
     IN /\ client' = [c \in Clients |-> IF c \in refused THEN Idle ELSE client[c]]
        /\ pm' = IF pm \in refused THEN None ELSE pm
  /\ thread' = [thread EXCEPT ![h].pc = "tick", ![h].ticks = slots \cap alive]
  /\ UNCHANGED <<tasks, running, hardware, flashing, cancelled>>

(* slot.tick(): the queue is drained and every command in it answered.     *)
TickSlot(h, s) ==
  /\ At(h, "tick") /\ s \in thread[h].ticks
  /\ thread' = [thread EXCEPT ![h].ticks = @ \ {s}]
  /\ queue' = Drained({s})
  /\ client' = Answered({s})
  /\ UNCHANGED <<pm, mutex, slots, tasks, running, hardware, flashing, cancelled>>

TickEnd(h) ==
  /\ At(h, "tick") /\ thread[h].ticks = {}
  /\ mutex' = None
  /\ thread' = [thread EXCEPT ![h].pc = "take"]
  /\ UNCHANGED <<pm, slots, tasks, running, hardware, flashing, cancelled, queue, client>>

(* Mutant of TakeTasks: the list is copied, not moved.                     *)
CopyTasks(h) ==
  /\ At(h, "take") /\ mutex = None
  /\ thread' = [thread EXCEPT ![h].pc = "run", ![h].todo = tasks, ![h].kept = {}]
  /\ UNCHANGED <<pm, mutex, slots, tasks, running, hardware, flashing, cancelled,
                 queue, client>>

(* The task list is moved out, to be run without the SCHEDULER mutex.      *)
TakeTasks(h) ==
  /\ At(h, "take") /\ mutex = None
  /\ thread' = [thread EXCEPT ![h].pc = "run", ![h].todo = tasks, ![h].kept = {}]
  /\ tasks' = {}
  /\ UNCHANGED <<pm, mutex, slots, running, hardware, flashing, cancelled, queue, client>>

(* Mutant of CallTask: the closure never looks at its flag.                *)
IgnoreFlag(h, t) ==
  /\ At(h, "run") /\ t \in thread[h].todo
  /\ \/ thread' = [thread EXCEPT ![h].todo = @ \ {t}, ![h].kept = @ \cup {t}]
     \/ thread' = [thread EXCEPT ![h].todo = @ \ {t}, ![h].task = t, ![h].pc = "lock"]
  /\ UNCHANGED <<pm, mutex, slots, tasks, running, hardware, flashing, cancelled,
                 queue, client>>

(* A closure whose flag is raised returns false; one whose toggle time has *)
(* not come returns true; one that is due goes for the PortManager mutex.  *)
CallTask(h, t) ==
  /\ At(h, "run") /\ t \in thread[h].todo
  /\ \/ /\ t \in cancelled
        /\ thread' = [thread EXCEPT ![h].todo = @ \ {t}]
        /\ flashing' = [flashing EXCEPT ![t] = None]
     \/ /\ t \notin cancelled
        /\ thread' = [thread EXCEPT ![h].todo = @ \ {t}, ![h].kept = @ \cup {t}]
        /\ UNCHANGED flashing
     \/ /\ t \notin cancelled
        /\ thread' = [thread EXCEPT ![h].todo = @ \ {t}, ![h].task = t, ![h].pc = "lock"]
        /\ UNCHANGED flashing
  /\ UNCHANGED <<pm, mutex, slots, tasks, running, hardware, cancelled, queue, client>>

(* The mutex is taken: the device is gone or dead and the closure retires, *)
(* or the adapter is called and the reply awaited with the mutex held.     *)
LockDevice(h) ==
  /\ At(h, "lock") /\ pm = None
  /\ LET t == thread[h].task
         s == flashing[t]
     IN \/ /\ s \notin devices \cap alive
           /\ thread' = [thread EXCEPT ![h].task = None, ![h].pc = "run"]
           /\ flashing' = [flashing EXCEPT ![t] = None]
           /\ UNCHANGED <<pm, queue>>
        \/ /\ s \in devices \cap alive
           /\ pm' = h
           /\ queue' = [queue EXCEPT ![s] = @ \cup {t}]
           /\ thread' = [thread EXCEPT ![h].pc = "wait"]
           /\ UNCHANGED flashing
  /\ UNCHANGED <<mutex, slots, tasks, running, hardware, cancelled, client>>

(* Mutant of ToggleTimeOut: the task in hand is cleared before it is kept. *)
ClearThenKeep(h) ==
  /\ At(h, "wait")
  /\ thread' = [thread EXCEPT ![h].pc = "run", ![h].task = None, ![h].kept = @ \cup {None}]
  /\ pm' = None
  /\ UNCHANGED <<mutex, slots, tasks, running, hardware, flashing, cancelled,
                 queue, client>>

(* The closure's wait: only this thread ticks the slot, so only the        *)
(* timeout ends it.  The result is ignored.                                *)
ToggleTimeOut(h) ==
  /\ At(h, "wait")
  /\ thread' = [thread EXCEPT ![h].pc = "run", ![h].task = None,
                              ![h].kept = @ \cup {thread[h].task}]
  /\ pm' = None
  /\ UNCHANGED <<mutex, slots, tasks, running, hardware, flashing, cancelled,
                 queue, client>>

(* Mutant of MergeTasks: the decision to end ignores the tasks registered  *)
(* during the tick.                                                        *)
EndOnOwnTasks(h) ==
  /\ At(h, "run") /\ thread[h].todo = {} /\ mutex = None
  /\ tasks' = thread[h].kept \cup tasks
  /\ IF slots = {} /\ thread[h].kept = {}
     THEN running' = FALSE /\ thread' = [thread EXCEPT ![h] = None]
     ELSE thread' = [thread EXCEPT ![h] = Start] /\ UNCHANGED running
  /\ UNCHANGED <<pm, mutex, slots, hardware, flashing, cancelled, queue, client>>

(* Mutant of MergeTasks: the thread never ends.                            *)
NeverEnd(h) ==
  /\ At(h, "run") /\ thread[h].todo = {} /\ mutex = None
  /\ tasks' = thread[h].kept \cup tasks
  /\ thread' = [thread EXCEPT ![h] = Start]
  /\ UNCHANGED <<pm, mutex, slots, running, hardware, flashing, cancelled, queue, client>>

(* The kept tasks and those registered meanwhile become the task list; the *)
(* thread ends when nothing is left to serve.                              *)
MergeTasks(h) ==
  /\ At(h, "run") /\ thread[h].todo = {} /\ mutex = None
  /\ tasks' = thread[h].kept \cup tasks
  /\ IF slots = {} /\ tasks' = {}
     THEN running' = FALSE /\ thread' = [thread EXCEPT ![h] = None]
     ELSE thread' = [thread EXCEPT ![h] = Start] /\ UNCHANGED running
  /\ UNCHANGED <<pm, mutex, slots, hardware, flashing, cancelled, queue, client>>

(* The hardware goes away: is_alive and connected() turn false.            *)
LinkLost(s) ==
  /\ s \in alive
  /\ alive' = alive \ {s}
  /\ UNCHANGED <<pm, mutex, slots, tasks, running, thread, devices, flashing,
                 cancelled, queue, client>>

----------------------------------------------------------------------------
Init ==
  /\ pm = None /\ mutex = None
  /\ slots = {} /\ tasks = {} /\ running = FALSE
  /\ thread = [h \in Threads |-> None]
  /\ alive = {} /\ devices = {}
  /\ flashing = [t \in Tasks |-> None] /\ cancelled = {}
  /\ queue = [s \in Slots |-> {}]
  /\ client = [c \in Clients |-> Idle]

ClientStep(c) ==
  \/ AddDevice(c) \/ DeregisterSlot(c) \/ TimeOut(c) \/ Finish(c)
  \/ \E t \in Tasks : RegisterTask(c, t)
  \/ \E s \in Slots : RegisterSlot(c, s) \/ RemoveDevice(c, s)
  \/ \E s \in Slots, flash \in BOOLEAN : Send(c, s, flash)

LoopStep(h) ==
  \/ ReapSlots(h) \/ TickEnd(h) \/ TakeTasks(h) \/ LockDevice(h)
  \/ ToggleTimeOut(h) \/ MergeTasks(h)
  \/ \E s \in Slots : TickSlot(h, s)
  \/ \E t \in Tasks : CallTask(h, t)

Next ==
  \/ \E c \in Clients : ClientStep(c)
  \/ \E h \in Threads : LoopStep(h)
  \/ \E s \in Slots : LinkLost(s)

Spec == Init /\ [][Next]_vars

(* The scheduler thread and the blocked Logo threads make progress, and a  *)
(* thread waiting for a mutex that keeps being released gets it.           *)
Fairness ==
  /\ \A h \in Threads : WF_vars(LoopStep(h)) /\ SF_vars(LockDevice(h))
  /\ \A c \in Clients :
       /\ SF_vars(AddDevice(c)) /\ SF_vars(DeregisterSlot(c)) /\ WF_vars(Finish(c))
       /\ SF_vars(\E t \in Tasks : RegisterTask(c, t))

(* recv_timeout returns.                                                   *)
TimeOuts == \A c \in Clients : WF_vars(TimeOut(c))

FairSpec == Spec /\ Fairness /\ TimeOuts
----------------------------------------------------------------------------
(* Properties.                                                             *)

(* There is a scheduler thread exactly when thread_running says so, and    *)
(* never a second one, which would tick a slot's hardware concurrently.    *)
OneThread ==
  /\ \A g, h \in Live : g = h
  /\ running <=> Live # {}

(* Whatever is registered has a thread to serve it: a slot or task added   *)
(* while the thread was about to end is not stranded.                      *)
NothingStranded == slots # {} \/ tasks # {} => Live # {}

Carried(h) == thread[h].todo \cup thread[h].kept \cup ({thread[h].task} \ {None})

(* A closure that has not retired is held exactly once: the list moved out *)
(* for a tick and the one that grew meanwhile lose and duplicate nothing.  *)
HeldOnce ==
  /\ \A t \in Tasks :
       flashing[t] # None <=> t \in tasks \/ \E h \in Live : t \in Carried(h)
  /\ \A h \in Live :
       /\ Carried(h) \cap tasks = {} /\ thread[h].todo \cap thread[h].kept = {}
       /\ thread[h].task \notin thread[h].todo \cup thread[h].kept

(* Every Logo command returns, whatever the slots, tasks and other threads *)
(* do: nobody waits on anybody for ever.                                   *)
CallsReturn == \A c \in Clients : client[c] # Idle ~> client[c] = Idle

(* A cancelled closure retires.                                            *)
CancelledRetire ==
  \A t \in Tasks : (flashing[t] # None /\ t \in cancelled) ~> flashing[t] = None

(* A dead slot is dropped.                                                 *)
DeadSlotsAreReaped == \A s \in Slots : s \in slots \ alive ~> s \notin slots \ alive

Quiet == slots = {} /\ \A t \in Tasks : flashing[t] = None

(* The thread ends when both lists stay empty.                             *)
ThreadEnds == []<>(~Quiet \/ ~running)
=============================================================================
