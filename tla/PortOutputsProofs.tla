-------------------------- MODULE PortOutputsProofs --------------------------
(***************************************************************************)
(* Proofs about PortOutputs for every set of devices, ports and closures.  *)
(***************************************************************************)
EXTENDS PortOutputs, TLAPS

(* The device of an output is a device.                                    *)
LEMMA DevType == \A o \in Outputs : Dev(o) \in Devices
  BY DEF Outputs, Dev

(* What a state makes the hardware do is within the device's power range.  *)
LEMMA SpeedRange ==
  ASSUME NEW w \in PortState
  PROVE  Drive(w) \in Speeds /\ Speed(w) \in Speeds
  BY PortOutputsAssumption DEF PortState, Directions, Drive, Speed, Speeds

(* So are the speed maps the commands drive towards.                       *)
LEMMA SpeedMaps ==
  ASSUME NEW w \in [Outputs -> PortState]
  PROVE  /\ Driven(w) \in [Outputs -> Speeds]
         /\ Implied(w) \in [Outputs -> Speeds]
         /\ Stopped \in [Outputs -> Speeds]
  <1>1. 0 \in Speeds
    BY PortOutputsAssumption DEF Speeds
  <1> QED
    BY <1>1, SpeedRange DEF Driven, Implied, Stopped

(* Ports that obey get a speed in range, the others keep theirs.           *)
LEMMA ObeyedType ==
  ASSUME NEW m \in [Outputs -> Speeds \cup {None}], NEW f \in [Outputs -> Speeds], NEW S
  PROVE  Obeyed(m, f, S) \in [Outputs -> Speeds \cup {None}]
  BY DEF Obeyed

(* Recording what was sent keeps last_sent well formed.                    *)
LEMMA RecordedType ==
  ASSUME NEW s \in [Outputs -> PortState \cup {None}],
         NEW w \in [Outputs -> PortState], NEW S
  PROVE  Recorded(s, w, S) \in [Outputs -> PortState \cup {None}]
  BY DEF Recorded

(* Cancelling timers keeps closures well formed and only raises flags.     *)
LEMMA CancelledType ==
  ASSUME TypeOK, NEW T
  PROVE  /\ Cancelled(T) \in [TaskIds -> FlashTask \cup {None}]
         /\ \A t \in TaskIds :
              /\ Cancelled(T)[t] = None <=> task[t] = None
              /\ task[t] # None =>
                   /\ Cancelled(T)[t].out = task[t].out
                   /\ Cancelled(T)[t].cancelled <=> (task[t].cancelled \/ t \in T)
  <1>1. ASSUME NEW t \in TaskIds, task[t] # None
        PROVE  /\ [task[t] EXCEPT !.cancelled = TRUE] \in FlashTask
               /\ [task[t] EXCEPT !.cancelled = TRUE].out = task[t].out
               /\ [task[t] EXCEPT !.cancelled = TRUE].cancelled = TRUE
               /\ task[t].cancelled \in BOOLEAN
    BY <1>1 DEF TypeOK, FlashTask
  <1>2. \A t \in TaskIds : [task[t] EXCEPT !.cancelled = TRUE] = None => task[t] = None
    BY <1>1, PortOutputsAssumption
  <1> QED
    BY <1>1, <1>2 DEF TypeOK, Cancelled

(* cancel_flash keeps flash_timers and the closures well formed.           *)
LEMMA CancelFlashType ==
  ASSUME TypeOK, NEW S, CancelFlash(S)
  PROVE  /\ flag' \in [Outputs -> TaskIds \cup {None}]
         /\ task' \in [TaskIds -> FlashTask \cup {None}]
  BY CancelledType DEF CancelFlash, Unflagged, TypeOK

(* Dropping a record leaves a well-formed last_sent.                       *)
LEMMA ForgottenType ==
  ASSUME TypeOK, NEW S
  PROVE  Forgotten(S) \in [Outputs -> PortState \cup {None}]
  BY DEF Forgotten, TypeOK

(* The wanted states the commands compute.                                 *)
LEMMA WantUpdates ==
  ASSUME TypeOK, NEW o \in Outputs
  PROVE  /\ \A b \in BOOLEAN : [want[o] EXCEPT !.running = b] \in PortState
         /\ \A d \in Directions : [want[o] EXCEPT !.dir = d] \in PortState
         /\ [want[o] EXCEPT !.dir = Opposite(@)] \in PortState
         /\ \A l \in 0 .. MaxPower :
              [want[o] EXCEPT !.power = l, !.running = @ /\ l # 0] \in PortState
  BY DEF TypeOK, PortState, Directions, Opposite

(* The state of a fresh port is a port state (half the maximum power).     *)
LEMMA FreshType == Fresh \in PortState
  <1>1. MaxPower \div 2 \in 0 .. MaxPower
    BY PortOutputsAssumption
  <1> QED
    BY <1>1 DEF Fresh, PortState, Directions

----------------------------------------------------------------------------
(* Type correctness, one lemma per group of actions.                       *)

(* sync_ports records and drives well-formed values.                       *)
LEMMA SyncPortsType ==
  ASSUME TypeOK, NEW S, NEW w \in [Outputs -> PortState], SyncPorts(S, w)
  PROVE  /\ sent' \in [Outputs -> PortState \cup {None}]
         /\ motor' \in [Outputs -> Speeds \cup {None}]
  <1>1. (\E R : sent' = Recorded(sent, w, R)) /\ (\E D : motor' = Obeyed(motor, Implied(w), D))
    BY Zenon DEF SyncPorts
  <1>2. sent \in [Outputs -> PortState \cup {None}] /\ motor \in [Outputs -> Speeds \cup {None}]
    BY DEF TypeOK, Speeds
  <1> QED
    BY <1>1, <1>2, SpeedMaps, ObeyedType, RecordedType

(* on.                                                                     *)
LEMMA OnType ==
  ASSUME TypeOK, NEW S, On(S)
  PROVE  TypeOK'
  <1> DEFINE w == [o \in Outputs |->
                     IF o \in S THEN [want[o] EXCEPT !.running = TRUE] ELSE want[o]]
             changed == {o \in S : NeedsSend(Forgotten(S), w, o)}
  <1>1. w \in [Outputs -> PortState]
    BY WantUpdates DEF TypeOK
  <1>2. PICK halted \in BestEffort(Halting(S)), call \in CallOutcomes(changed) :
          /\ motor' = Obeyed(Obeyed(motor, Stopped, halted), Driven(w), call.done)
          /\ sent' = IF call.ok THEN Recorded(Forgotten(S), w, changed) ELSE Forgotten(S)
    BY DEF On
  <1>3. want' = w /\ CancelFlash(S) /\ link' = link
    BY DEF On
  <1>4. motor' \in [Outputs -> Speeds \cup {None}]
    BY <1>1, <1>2, SpeedMaps, ObeyedType DEF TypeOK, Speeds
  <1>5. sent' \in [Outputs -> PortState \cup {None}]
    BY <1>1, <1>2, ForgottenType, RecordedType
  <1> QED
    BY <1>1, <1>3, <1>4, <1>5, CancelFlashType DEF TypeOK, Speeds

(* off.                                                                    *)
LEMMA OffType ==
  ASSUME TypeOK, NEW S, Off(S)
  PROVE  TypeOK'
  <1> DEFINE w == [o \in Outputs |->
                     IF o \in S THEN [want[o] EXCEPT !.running = FALSE] ELSE want[o]]
             toStop == {o \in S : SentRunning(Forgotten(S), o)}
  <1>1. w \in [Outputs -> PortState]
    BY WantUpdates DEF TypeOK
  <1>2. PICK ok \in BOOLEAN : OffReturning(S, ok)
    BY DEF Off
  <1>3. PICK halted \in BestEffort(Halting(S)), call \in CallOutcomes(toStop) :
          /\ motor' = Obeyed(Obeyed(motor, Stopped, halted), Stopped, call.done)
          /\ sent' = IF ok THEN Recorded(Forgotten(S), w, S) ELSE Forgotten(S)
    BY <1>2 DEF OffReturning
  <1>4. want' = w /\ CancelFlash(S) /\ link' = link
    BY <1>2 DEF OffReturning
  <1>5. motor' \in [Outputs -> Speeds \cup {None}]
    BY <1>1, <1>3, SpeedMaps, ObeyedType DEF TypeOK, Speeds
  <1>6. sent' \in [Outputs -> PortState \cup {None}]
    BY <1>1, <1>3, ForgottenType, RecordedType
  <1> QED
    BY <1>1, <1>4, <1>5, <1>6, CancelFlashType DEF TypeOK, Speeds

(* onfor and the rotations.                                                *)
LEMMA RunAndStopType ==
  ASSUME TypeOK, NEW S, RunAndStop(S)
  PROVE  TypeOK'
  <1> DEFINE w == [o \in Outputs |->
                     IF o \in S THEN [want[o] EXCEPT !.running = FALSE] ELSE want[o]]
  <1>1. w \in [Outputs -> PortState]
    BY WantUpdates DEF TypeOK
  <1>2. want' = w /\ CancelFlash(S) /\ link' = link /\ sent' = Recorded(sent, w, S)
    BY DEF RunAndStop
  <1>3. PICK halted \in BestEffort(Halting(S)), call \in CallOutcomes(S) :
          \/ motor' = Obeyed(Obeyed(motor, Stopped, halted), Stopped, S)
          \/ \E stopped \in SUBSET call.done :
               motor' = Obeyed(Obeyed(Obeyed(motor, Stopped, halted), Driven(want), call.done),
                               Stopped, stopped)
    BY DEF RunAndStop
  <1>4. Obeyed(motor, Stopped, halted) \in [Outputs -> Speeds \cup {None}]
    BY <1>1, SpeedMaps, ObeyedType DEF TypeOK, Speeds
  <1>5. motor' \in [Outputs -> Speeds \cup {None}]
    <2>1. want \in [Outputs -> PortState]
      BY DEF TypeOK
    <2>2. Obeyed(Obeyed(motor, Stopped, halted), Driven(want), call.done)
            \in [Outputs -> Speeds \cup {None}]
      BY <1>4, <2>1, SpeedMaps, ObeyedType
    <2> QED
      BY <1>3, <1>4, <2>1, <2>2, SpeedMaps, ObeyedType
  <1>6. sent' \in [Outputs -> PortState \cup {None}]
    BY <1>1, <1>2, RecordedType DEF TypeOK
  <1> QED
    BY <1>1, <1>2, <1>5, <1>6, CancelFlashType DEF TypeOK, Speeds

(* seteven, setodd, reverse and setpower.                                  *)
LEMMA SettingType ==
  ASSUME TypeOK, NEW S,
         \/ ReverseDirection(S)
         \/ \E dir \in Directions : SetDirection(S, dir)
         \/ \E level \in 0 .. MaxPower : SetPower(S, level)
  PROVE  TypeOK'
  <1>1. CASE ReverseDirection(S)
    <2> DEFINE w == [o \in Outputs |->
                       IF o \in S THEN [want[o] EXCEPT !.dir = Opposite(@)] ELSE want[o]]
    <2>1. w \in [Outputs -> PortState]
      BY WantUpdates DEF TypeOK
    <2>2. want' = w /\ SyncPorts(S, w) /\ UNCHANGED <<link, flag, task>>
      BY <1>1 DEF ReverseDirection
    <2> QED
      BY <2>1, <2>2, SyncPortsType DEF TypeOK, Speeds
  <1>2. ASSUME NEW dir \in Directions, SetDirection(S, dir)
        PROVE  TypeOK'
    <2> DEFINE w == [o \in Outputs |->
                       IF o \in S THEN [want[o] EXCEPT !.dir = dir] ELSE want[o]]
    <2>1. w \in [Outputs -> PortState]
      BY WantUpdates DEF TypeOK
    <2>2. /\ want' = w /\ UNCHANGED <<link, flag, task>>
          /\ \E done : motor' = Obeyed(motor, Implied(w), done)
          /\ \E R : sent' = Recorded(sent, w, R)
      BY <1>2 DEF SetDirection
    <2>3. motor' \in [Outputs -> Speeds \cup {None}]
      <3>1. motor \in [Outputs -> Speeds \cup {None}]
        BY DEF TypeOK, Speeds
      <3>2. Implied(w) \in [Outputs -> Speeds]
        BY <2>1, SpeedMaps
      <3> QED
        BY <2>2, <3>1, <3>2, ObeyedType
    <2>4. sent' \in [Outputs -> PortState \cup {None}]
      <3>1. sent \in [Outputs -> PortState \cup {None}]
        BY DEF TypeOK
      <3>2. PICK R : sent' = Recorded(sent, w, R)
        BY <2>2
      <3> HIDE DEF w
      <3> QED
        BY <2>1, <3>1, <3>2, RecordedType
    <2> QED
      BY <2>1, <2>2, <2>3, <2>4 DEF TypeOK, Speeds
  <1>3. ASSUME NEW level \in 0 .. MaxPower, SetPower(S, level)
        PROVE  TypeOK'
    <2> DEFINE w == [o \in Outputs |->
                       IF o \in S THEN [want[o] EXCEPT !.power = level,
                                                       !.running = @ /\ level # 0]
                                  ELSE want[o]]
    <2>1. w \in [Outputs -> PortState]
      BY WantUpdates DEF TypeOK
    <2>2. want' = w /\ SyncPorts(S, w) /\ UNCHANGED <<link, flag, task>>
      BY <1>3 DEF SetPower
    <2> QED
      BY <2>1, <2>2, SyncPortsType DEF TypeOK, Speeds
  <1> QED
    BY <1>1, <1>2, <1>3

(* The effect of flash, whole or cut short.                                *)
LEMMA BeginFlashType ==
  ASSUME TypeOK, NEW T, NEW A, A \subseteq Outputs, NEW id \in [A -> FreeIds],
         NEW halted, NEW driven, BeginFlash(T, A, id, halted, driven),
         UNCHANGED <<link, want>>
  PROVE  TypeOK'
  <1>1. flag' \in [Outputs -> TaskIds \cup {None}]
    BY DEF BeginFlash, TypeOK, Unflagged, FreeIds
  <1>2. task' \in [TaskIds -> FlashTask \cup {None}]
    <2>1. ASSUME NEW t \in TaskIds, \E o \in A : id[o] = t
          PROVE  [out |-> CHOOSE o \in A : id[o] = t,
                  on |-> TRUE, cancelled |-> FALSE, pc |-> "waiting"] \in FlashTask
      <3>1. (CHOOSE o \in A : id[o] = t) \in Outputs
        BY <2>1
      <3> QED
        BY <3>1 DEF FlashTask
    <2> QED
      BY <2>1, CancelledType DEF BeginFlash
  <1>3. sent' \in [Outputs -> PortState \cup {None}]
    BY ForgottenType DEF BeginFlash
  <1>4. motor' \in [Outputs -> Speeds \cup {None}]
    <2>1. motor \in [Outputs -> Speeds \cup {None}] /\ want \in [Outputs -> PortState]
      BY DEF TypeOK, Speeds
    <2> QED
      BY <2>1, SpeedMaps, ObeyedType DEF BeginFlash
  <1> QED
    BY <1>1, <1>2, <1>3, <1>4 DEF TypeOK, Speeds

(* flash.                                                                  *)
LEMMA FlashType ==
  ASSUME TypeOK, NEW S, Flash(S)
  PROVE  TypeOK'
  <1>1. S \subseteq Outputs
    BY DEF Flash, Selections
  <1> QED
    BY <1>1, BeginFlashType DEF Flash

(* alloff.                                                                 *)
LEMMA AllOffType ==
  ASSUME TypeOK, AllOff
  PROVE  TypeOK'
  <1>1. motor' \in [Outputs -> Speeds \cup {None}]
    <2>1. motor \in [Outputs -> Speeds \cup {None}] /\ want \in [Outputs -> PortState]
      BY DEF TypeOK, Speeds
    <2>2. \E done : motor' = Obeyed(motor, Stopped, done)
      BY DEF AllOff
    <2> QED
      BY <2>1, <2>2, SpeedMaps, ObeyedType
  <1>2. want' \in [Outputs -> PortState]
    BY WantUpdates DEF AllOff, TypeOK
  <1>3. sent' \in [Outputs -> PortState \cup {None}]
    BY DEF AllOff, TypeOK
  <1>4. link' = link /\ CancelFlash(Outputs)
    BY DEF AllOff
  <1> QED
    BY <1>1, <1>2, <1>3, <1>4, CancelFlashType DEF TypeOK, Speeds

(* A call of a flash closure.                                              *)
LEMMA FlashCallType ==
  ASSUME TypeOK, NEW t \in TaskIds, FlashCall(t)
  PROVE  TypeOK'
  <1>1. CASE FlashRetire(t) \/ FlashAbandon(t)
    BY <1>1 DEF FlashRetire, FlashAbandon, TypeOK
  <1>2. CASE FlashDue(t)
    <2>1. [task[t] EXCEPT !.pc = "due"] \in FlashTask
      BY <1>2 DEF FlashDue, TypeOK, FlashTask
    <2> QED
      BY <1>2, <2>1 DEF FlashDue, TypeOK
  <1>3. CASE FlashToggle(t)
    <2>1. [task[t] EXCEPT !.pc = "waiting", !.on = ~@] \in FlashTask
      BY <1>3 DEF FlashToggle, TypeOK, FlashTask
    <2>2. task' = [task EXCEPT ![t] = [task[t] EXCEPT !.pc = "waiting", !.on = ~@]]
      BY <1>3 DEF FlashToggle, TypeOK
    <2>3. motor' \in [Outputs -> Speeds \cup {None}]
      <3> DEFINE speed == [p \in Outputs |-> IF task[t].on THEN 0 ELSE Drive(want[p])]
      <3>1. /\ motor \in [Outputs -> Speeds \cup {None}]
            /\ want \in [Outputs -> PortState] /\ 0 \in Speeds
        BY PortOutputsAssumption DEF TypeOK, Speeds
      <3>2. speed \in [Outputs -> Speeds]
        BY <3>1, SpeedRange
      <3>3. \E done : motor' = Obeyed(motor, speed, done)
        BY <1>3 DEF FlashToggle
      <3> QED
        BY <3>1, <3>2, <3>3, ObeyedType
    <2> QED
      BY <1>3, <2>1, <2>2, <2>3 DEF FlashToggle, TypeOK, Speeds
  <1> QED
    BY <1>1, <1>2, <1>3 DEF FlashCall

(* Devices that are added, removed or lost.                                *)
LEMMA DeviceChangeType ==
  ASSUME TypeOK, DeviceChange
  PROVE  TypeOK'
  <1>1. ASSUME NEW D, LeftAlone(D)
        PROVE  motor' \in [Outputs -> Speeds \cup {None}]
    BY <1>1 DEF LeftAlone, TypeOK
  <1>2. ASSUME NEW D, RemoveDevices(D)
        PROVE  TypeOK'
    <2>1. CancelFlash(DevOuts(D)) /\ LeftAlone(D)
      BY <1>2 DEF RemoveDevices
    <2> QED
      BY <1>1, <1>2, <2>1, CancelFlashType, FreshType DEF RemoveDevices, TypeOK
  <1>3. ASSUME NEW d \in Devices, AddDevice(d)
        PROVE  TypeOK'
    <2>1. PICK found \in [DevOuts({d}) -> Speeds] :
            motor' = [o \in Outputs |-> IF Dev(o) = d THEN found[o] ELSE motor[o]]
      BY <1>3 DEF AddDevice
    <2>2. motor' \in [Outputs -> Speeds \cup {None}]
      BY <2>1 DEF DevOuts, TypeOK
    <2> QED
      BY <1>3, <2>2, FreshType DEF AddDevice, TypeOK
  <1>4. ASSUME NEW d \in Devices, LinkLost(d)
        PROVE  TypeOK'
    BY <1>1, <1>4 DEF LinkLost, TypeOK
  <1> QED
    BY <1>2, <1>3, <1>4 DEF DeviceChange, RemoveDevice, RemoveAll

(* Every reachable state of the output half of PortManager is well typed.  *)
THEOREM TypeCorrect == Spec => []TypeOK
  <1>1. Init => TypeOK
    BY FreshType DEF Init, TypeOK
  <1>2. TypeOK /\ [Next]_vars => TypeOK'
    <2> SUFFICES ASSUME TypeOK, [Next]_vars PROVE TypeOK'
      OBVIOUS
    <2>1. ASSUME NEW S, SelectionCommand(S)
          PROVE  TypeOK'
      BY <2>1, OnType, OffType, RunAndStopType, SettingType, FlashType DEF SelectionCommand
    <2>2. CASE UNCHANGED vars
      BY <2>2 DEF vars, TypeOK
    <2> QED
      BY <2>1, <2>2, AllOffType, FlashCallType, DeviceChangeType DEF Next, Command
  <1> QED
    BY <1>1, <1>2, PTL DEF Spec

----------------------------------------------------------------------------
(* Every closure that is not cancelled is its port's timer.                *)

(* A closure that survives cancel_flash keeps its timer.                   *)
LEMMA CancelFlashSole ==
  ASSUME TypeOK, SoleTimer, NEW S, CancelFlash(S)
  PROVE  SoleTimer'
  <1> SUFFICES ASSUME NEW t \in TaskIds, task'[t] # None, ~task'[t].cancelled
               PROVE  flag'[task'[t].out] = t
    BY DEF SoleTimer
  <1>1. task[t] # None /\ task'[t].out = task[t].out
        /\ ~task[t].cancelled /\ t \notin Timers(S)
    BY CancelledType DEF CancelFlash
  <1>2. task[t].out \in Outputs /\ flag[task[t].out] = t /\ t # None
    BY <1>1, PortOutputsAssumption DEF SoleTimer, TypeOK, FlashTask
  <1>3. task[t].out \notin S
    BY <1>1, <1>2 DEF Timers, Flashing
  <1> QED
    BY <1>1, <1>2, <1>3 DEF CancelFlash, Unflagged

(* flash gives each new closure the timer of its port.                     *)
LEMMA BeginFlashSole ==
  ASSUME TypeOK, SoleTimer, NEW T, NEW A, A \subseteq Outputs, A \subseteq T,
         NEW id \in [A -> FreeIds], \A o, p \in A : id[o] = id[p] => o = p,
         NEW halted, NEW driven, BeginFlash(T, A, id, halted, driven)
  PROVE  SoleTimer'
  <1> SUFFICES ASSUME NEW t \in TaskIds, task'[t] # None, ~task'[t].cancelled
               PROVE  flag'[task'[t].out] = t
    BY DEF SoleTimer
  <1>1. CASE \E o \in A : id[o] = t
    <2>1. PICK o \in A : id[o] = t
      BY <1>1
    <2>2. (CHOOSE p \in A : id[p] = t) = o
      BY <2>1
    <2> QED
      BY <1>1, <2>1, <2>2 DEF BeginFlash
  <1>2. CASE ~\E o \in A : id[o] = t
    <2>1. task'[t] = Cancelled(Timers(T))[t]
      BY <1>2 DEF BeginFlash
    <2>2. task[t] # None /\ task'[t].out = task[t].out
          /\ ~task[t].cancelled /\ t \notin Timers(T)
      BY <2>1, CancelledType
    <2>3. task[t].out \in Outputs /\ flag[task[t].out] = t /\ t # None
      BY <2>2, PortOutputsAssumption DEF SoleTimer, TypeOK, FlashTask
    <2>4. task[t].out \notin T
      BY <2>2, <2>3 DEF Timers, Flashing
    <2> QED
      BY <2>2, <2>3, <2>4 DEF BeginFlash, Unflagged
  <1> QED
    BY <1>1, <1>2

(* No step leaves an uncancelled closure without its timer.                *)
LEMMA SoleTimerStep ==
  ASSUME TypeOK, SoleTimer, [Next]_vars
  PROVE  SoleTimer'
  <1>1. ASSUME NEW S, Flash(S)
        PROVE  SoleTimer'
    <2>1. S \subseteq Outputs
      BY <1>1 DEF Flash, Selections
    <2> QED
      BY <1>1, <2>1, BeginFlashSole DEF Flash
  <1>2. ASSUME NEW S, SelectionCommand(S)
        PROVE  SoleTimer'
    <2>1. CASE CancelFlash(S)
      BY <2>1, CancelFlashSole
    <2>2. CASE UNCHANGED <<flag, task>>
      BY <2>2 DEF SoleTimer
    <2> QED
      BY <1>1, <1>2, <2>1, <2>2 DEF SelectionCommand, On, Off, OffReturning, RunAndStop,
         ReverseDirection, SetDirection, SetPower
  <1>3. ASSUME NEW t \in TaskIds, FlashCall(t)
        PROVE  SoleTimer'
    BY <1>3 DEF FlashCall, FlashRetire, FlashDue, FlashToggle, FlashAbandon,
       SoleTimer, TypeOK, FlashTask
  <1>4. CASE DeviceChange
    BY <1>4, CancelFlashSole DEF DeviceChange, RemoveAll, RemoveDevice, RemoveDevices,
       AddDevice, LinkLost, SoleTimer
  <1>5. CASE AllOff
    BY <1>5, CancelFlashSole DEF AllOff
  <1>6. CASE UNCHANGED vars
    BY <1>6 DEF vars, SoleTimer
  <1> QED
    BY <1>2, <1>3, <1>4, <1>5, <1>6 DEF Next, Command

(* No flash ever runs that its port's timer cannot cancel, whatever the    *)
(* adapters and links do.                                                  *)
THEOREM EveryFlashCanBeCancelled == Spec => []SoleTimer
  <1>1. Init => SoleTimer
    BY DEF Init, SoleTimer
  <1>2. TypeOK /\ SoleTimer /\ [Next]_vars => SoleTimer'
    BY SoleTimerStep
  <1> QED
    BY <1>1, <1>2, TypeCorrect, PTL DEF Spec

----------------------------------------------------------------------------
(* When a skipped command is the right decision.                           *)

(* What the outcomes of a call can be.                                     *)
LEMMA CallDone ==
  ASSUME NEW C, NEW call \in CallOutcomes(C)
  PROVE  call.done \subseteq C
  <1> DEFINE reachable == {o \in C : Up(o)}
  <1>1. \/ call \in [ok : {FALSE}, done : SUBSET reachable]
        \/ call = [ok |-> TRUE, done |-> C]
    BY DEF CallOutcomes
  <1>2. ASSUME call \in [ok : {FALSE}, done : SUBSET reachable]
        PROVE  call.done \subseteq C
    <2>1. call.done \in SUBSET reachable
      BY <1>2
    <2> QED
      BY <2>1
  <1>3. ASSUME call = [ok |-> TRUE, done |-> C]
        PROVE  call.done \subseteq C
    BY <1>3
  <1> QED
    BY <1>1, <1>2, <1>3

(* On connected devices that do not fail, a call does what it is asked.    *)
LEMMA CallExact ==
  ASSUME AdapterErrors = FALSE, NEW C, \A o \in C : Up(o), NEW call \in CallOutcomes(C)
  PROVE  call.ok = TRUE /\ call.done = C
  <1>1. {o \in C : Up(o)} = C
    OBVIOUS
  <1>2. call = [ok |-> TRUE, done |-> C]
    BY <1>1 DEF CallOutcomes
  <1> QED
    BY <1>2

(* So does a call whose result is ignored.                                 *)
LEMMA BestEffortExact ==
  ASSUME NEW C, NEW done \in BestEffort(C)
  PROVE  /\ done \subseteq C
         /\ AdapterErrors = FALSE => done = {o \in C : Up(o)}
  BY PortOutputsAssumption DEF BestEffort

(* The speed a port state stands for.                                      *)
LEMMA SpeedFacts ==
  ASSUME NEW w \in PortState
  PROVE  /\ w.running \in BOOLEAN
         /\ w.running => Speed(w) = Drive(w)
         /\ ~w.running => Speed(w) = 0
  BY DEF PortState, Speed

(* A command that does not name the port, or that fails with it, aside.    *)
LEMMA SharedFailureFact ==
  ASSUME NEW S \in Selections, NEW o \in S, SelectionCommand(S), ~SharedFailure(o)
  PROVE  \A p \in S : Up(p)
  BY DEF SharedFailure

(* on keeps a port trusted.                                                *)
LEMMA OnTrusted ==
  ASSUME TypeOK, AdapterErrors = FALSE, NEW o \in Outputs, Trusted(o), NEW S, On(S),
         o \in S => \A p \in S : Up(p)
  PROVE  Trusted(o)'
  <1> DEFINE w == [p \in Outputs |->
                     IF p \in S THEN [want[p] EXCEPT !.running = TRUE] ELSE want[p]]
             s == Forgotten(S)
             changed == {p \in S : NeedsSend(s, w, p)}
  <1>1. PICK halted \in BestEffort(Halting(S)), call \in CallOutcomes(changed) :
          /\ motor' = Obeyed(Obeyed(motor, Stopped, halted), Driven(w), call.done)
          /\ sent' = IF call.ok THEN Recorded(s, w, changed) ELSE s
    BY DEF On
  <1>2. want' = w /\ flag' = Unflagged(S) /\ link' = link /\ S \subseteq Outputs
    BY DEF On, CancelFlash, Selections
  <1>3. halted \subseteq Halting(S) /\ halted = {p \in Halting(S) : Up(p)}
    BY BestEffortExact
  <1>4. halted \subseteq S /\ call.done \subseteq changed
    BY <1>3, CallDone DEF Halting
  <1>5. CASE o \notin S
    BY <1>1, <1>2, <1>4, <1>5 DEF Trusted, Up, Flashing, Unflagged, Obeyed, Forgotten,
       Halting, Recorded
  <1>6. CASE o \in S
    <2>1. call.ok = TRUE /\ call.done = changed
      BY <1>6, CallExact
    <2>2. w[o] \in PortState /\ w[o].running = TRUE /\ want[o] \in PortState
      BY <1>6, WantUpdates DEF TypeOK, PortState
    <2>3. sent'[o] = w[o]
      BY <1>1, <1>6, <2>1 DEF Recorded, NeedsSend
    <2>4. motor'[o] = Speed(w[o])
      <3>1. CASE o \in changed
        BY <1>1, <2>1, <2>2, <3>1, SpeedFacts DEF Obeyed, Driven
      <3>2. CASE o \notin changed
        <4>1. s[o] = w[o]
          BY <1>6, <3>2 DEF NeedsSend
        <4>2. ~Flashing(o) /\ sent[o] = w[o]
          BY <1>6, <2>2, <4>1, PortOutputsAssumption DEF Forgotten, Halting
        <4>3. motor[o] = Speed(w[o])
          BY <1>6, <2>2, <4>2, PortOutputsAssumption DEF Trusted
        <4>4. o \notin halted
          BY <1>3, <4>2 DEF Halting
        <4> QED
          BY <1>1, <2>1, <3>2, <4>3, <4>4 DEF Obeyed
      <3> QED
        BY <3>1, <3>2
    <2> QED
      BY <1>2, <2>2, <2>3, <2>4, PortOutputsAssumption DEF Trusted
  <1> QED
    BY <1>5, <1>6

(* off keeps a port trusted.                                               *)
LEMMA OffTrusted ==
  ASSUME TypeOK, AdapterErrors = FALSE, NEW o \in Outputs, Trusted(o), NEW S, Off(S),
         o \in S => \A p \in S : Up(p)
  PROVE  Trusted(o)'
  <1> DEFINE w == [p \in Outputs |->
                     IF p \in S THEN [want[p] EXCEPT !.running = FALSE] ELSE want[p]]
             s == Forgotten(S)
             toStop == {p \in S : SentRunning(s, p)}
  <1>0. PICK ok \in BOOLEAN : OffReturning(S, ok)
    BY DEF Off
  <1>1. PICK halted \in BestEffort(Halting(S)), call \in CallOutcomes(toStop) :
          /\ call.ok = ok
          /\ motor' = Obeyed(Obeyed(motor, Stopped, halted), Stopped, call.done)
          /\ sent' = IF ok THEN Recorded(s, w, S) ELSE s
    BY <1>0 DEF OffReturning
  <1>2. want' = w /\ flag' = Unflagged(S) /\ link' = link /\ S \subseteq Outputs
    BY <1>0 DEF OffReturning, CancelFlash, Selections
  <1>3. halted \subseteq Halting(S) /\ halted = {p \in Halting(S) : Up(p)}
    BY BestEffortExact
  <1>4. halted \subseteq S /\ call.done \subseteq toStop
    BY <1>3, CallDone DEF Halting
  <1>5. CASE o \notin S
    BY <1>1, <1>2, <1>4, <1>5 DEF Trusted, Up, Flashing, Unflagged, Obeyed, Forgotten,
       Halting, Recorded
  <1>6. CASE o \in S
    <2>1. ok = TRUE /\ call.done = toStop
      BY <1>1, <1>6, CallExact
    <2>2. w[o] \in PortState /\ w[o].running = FALSE /\ want[o] \in PortState
      BY <1>6, WantUpdates DEF TypeOK, PortState
    <2>3. sent'[o] = w[o]
      BY <1>1, <1>6, <2>1 DEF Recorded
    <2>4. motor'[o] = 0
      <3>1. CASE o \in toStop \/ o \in halted
        BY <1>1, <2>1, <3>1 DEF Obeyed, Stopped
      <3>2. CASE o \notin toStop /\ o \notin halted
        <4>1. ~Flashing(o)
          BY <1>3, <1>6, <3>2 DEF Halting
        <4>2. ~SentRunning(sent, o)
          BY <1>6, <3>2, <4>1 DEF SentRunning, Forgotten, Halting
        <4>3. motor[o] = 0
          BY <1>6, <2>2, <4>1, <4>2, SpeedFacts DEF Trusted, SentRunning
        <4> QED
          BY <1>1, <2>1, <3>2, <4>3 DEF Obeyed
      <3> QED
        BY <3>1, <3>2
    <2> QED
      BY <1>2, <2>2, <2>3, <2>4, SpeedFacts, PortOutputsAssumption DEF Trusted
  <1> QED
    BY <1>5, <1>6

(* onfor and the rotations keep a port trusted, and make those trusted     *)
(* that they drive.                                                        *)
LEMMA RunAndStopTrusted ==
  ASSUME TypeOK, AdapterErrors = FALSE, NEW o \in Outputs, NEW S, RunAndStop(S),
         o \notin S => Trusted(o), o \in S => \A p \in S : Up(p)
  PROVE  Trusted(o)'
  <1> DEFINE w == [p \in Outputs |->
                     IF p \in S THEN [want[p] EXCEPT !.running = FALSE] ELSE want[p]]
  <1>1. PICK halted \in BestEffort(Halting(S)), call \in CallOutcomes(S) :
          IF call.ok THEN motor' = Obeyed(Obeyed(motor, Stopped, halted), Stopped, S)
          ELSE \E stopped \in SUBSET call.done :
                 motor' = Obeyed(Obeyed(Obeyed(motor, Stopped, halted), Driven(want), call.done),
                                 Stopped, stopped)
    BY DEF RunAndStop
  <1>2. want' = w /\ flag' = Unflagged(S) /\ link' = link /\ S \subseteq Outputs
        /\ sent' = Recorded(sent, w, S)
    BY DEF RunAndStop, CancelFlash, Selections
  <1>3. halted \subseteq S /\ call.done \subseteq S
    BY CallDone, BestEffortExact DEF Halting
  <1>4. CASE o \notin S
    <2>1. motor'[o] = motor[o]
      BY <1>1, <1>3, <1>4 DEF Obeyed
    <2> QED
      BY <1>2, <1>4, <2>1 DEF Trusted, Up, Flashing, Unflagged, Recorded
  <1>5. CASE o \in S
    <2>1. w[o] \in PortState /\ w[o].running = FALSE
      BY <1>5, WantUpdates DEF TypeOK, PortState
    <2>2. motor'[o] = 0
      BY <1>1, <1>5, CallExact DEF Obeyed, Stopped
    <2> QED
      BY <1>2, <1>5, <2>1, <2>2, SpeedFacts, PortOutputsAssumption DEF Trusted, Recorded
  <1> QED
    BY <1>4, <1>5

(* sync_ports, with every port of S reachable or o outside S.              *)
LEMMA SyncTrusted ==
  ASSUME TypeOK, AdapterErrors = FALSE, NEW o \in Outputs, Trusted(o),
         NEW S, S \subseteq Outputs, o \in S => \A p \in S : Up(p),
         NEW w \in [Outputs -> PortState], SyncPorts(S, w), want' = w,
         o \notin S => w[o] = want[o],
         o \in S => w[o].running \in {want[o].running, FALSE},
         UNCHANGED <<link, flag, task>>
  PROVE  Trusted(o)'
  <1> DEFINE changed == {p \in S : NeedsSend(sent, w, p)}
             calls(D) == {p \in changed : Dev(p) \in D /\ (w[p].running \/ SentRunning(sent, p))}
             devs == {Dev(p) : p \in changed}
  <1>1. PICK D \in SUBSET devs :
          /\ sent' = Recorded(sent, w, {p \in changed : Dev(p) \in D})
          /\ \/ D = devs /\ motor' = Obeyed(motor, Implied(w), calls(D))
             \/ \E d \in devs \ D : \E call \in CallOutcomes(calls({d})) :
                  /\ ~call.ok
                  /\ motor' = Obeyed(motor, Implied(w), calls(D) \cup call.done)
    BY Zenon DEF SyncPorts
  <1>2. CASE o \notin S
    <2>1. sent'[o] = sent[o]
      BY <1>1, <1>2 DEF Recorded
    <2>2. \A d : \A call \in CallOutcomes(calls({d})) : call.done \subseteq changed
      BY CallDone
    <2>3. motor'[o] = motor[o]
      BY <1>1, <1>2, <2>2 DEF Obeyed
    <2> QED
      BY <1>2, <2>1, <2>3 DEF Trusted, Up, Flashing
  <1>3. CASE o \in S
    <2>1. \A d : \A call \in CallOutcomes(calls({d})) : call.ok = TRUE
      <3> SUFFICES ASSUME NEW d, NEW call \in CallOutcomes(calls({d}))
                   PROVE  call.ok = TRUE
        OBVIOUS
      <3>1. \A p \in calls({d}) : Up(p)
        BY <1>3
      <3> QED
        BY <3>1, CallExact
    <2>2. D = devs /\ motor' = Obeyed(motor, Implied(w), calls(devs))
      BY <1>1, <2>1
    <2>3. sent'[o] = w[o]
      BY <1>1, <1>3, <2>2 DEF Recorded, NeedsSend
    <2>4. ~Flashing(o) => motor'[o] = Speed(w[o])
      <3> SUFFICES ASSUME ~Flashing(o) PROVE motor'[o] = Speed(w[o])
        OBVIOUS
      <3>0. w[o] \in PortState /\ want[o] \in PortState
        BY DEF TypeOK
      <3>1. CASE o \in calls(devs)
        BY <2>2, <3>1 DEF Obeyed, Implied
      <3>2. CASE o \notin calls(devs)
        <4>1. motor'[o] = Speed(want[o])
          BY <1>3, <2>2, <3>2 DEF Obeyed, Trusted
        <4>2. CASE o \notin changed
          BY <1>3, <3>0, <4>1, <4>2, PortOutputsAssumption DEF Trusted, NeedsSend
        <4>3. CASE o \in changed
          <5>1. ~w[o].running /\ ~SentRunning(sent, o)
            BY <3>2, <4>3
          <5>2. ~want[o].running
            BY <1>3, <5>1 DEF Trusted, SentRunning
          <5> QED
            BY <3>0, <4>1, <5>1, <5>2, SpeedFacts
        <4> QED
          BY <4>2, <4>3
      <3> QED
        BY <3>1, <3>2
    <2> QED
      BY <1>3, <2>3, <2>4, PortOutputsAssumption DEF Trusted, Flashing
  <1> QED
    BY <1>2, <1>3

(* seteven, setodd, reverse and setpower keep a port trusted.              *)
LEMMA SettingTrusted ==
  ASSUME TypeOK, AdapterErrors = FALSE, NEW o \in Outputs, Trusted(o),
         NEW S \in Selections, o \in S => \A p \in S : Up(p),
         \/ ReverseDirection(S)
         \/ \E dir \in Directions : SetDirection(S, dir)
         \/ \E level \in 0 .. MaxPower : SetPower(S, level)
  PROVE  Trusted(o)'
  <1>0. S \subseteq Outputs /\ want[o] \in PortState
    BY DEF Selections, TypeOK
  <1>1. CASE ReverseDirection(S)
    <2> DEFINE w == [p \in Outputs |->
                       IF p \in S THEN [want[p] EXCEPT !.dir = Opposite(@)] ELSE want[p]]
    <2>1. w \in [Outputs -> PortState]
      BY WantUpdates DEF TypeOK
    <2>2. want' = w /\ SyncPorts(S, w) /\ UNCHANGED <<link, flag, task>>
      BY <1>1 DEF ReverseDirection
    <2>3. o \in S => w[o].running = want[o].running
      BY <1>0 DEF PortState
    <2> QED
      BY <1>0, <2>1, <2>2, <2>3, SyncTrusted
  <1>2. ASSUME NEW level \in 0 .. MaxPower, SetPower(S, level)
        PROVE  Trusted(o)'
    <2> DEFINE w == [p \in Outputs |->
                       IF p \in S THEN [want[p] EXCEPT !.power = level,
                                                       !.running = @ /\ level # 0]
                                  ELSE want[p]]
    <2>1. w \in [Outputs -> PortState]
      BY WantUpdates DEF TypeOK
    <2>2. want' = w /\ SyncPorts(S, w) /\ UNCHANGED <<link, flag, task>>
      BY <1>2 DEF SetPower
    <2>3. o \in S => w[o].running \in {want[o].running, FALSE}
      BY <1>0 DEF PortState
    <2> QED
      BY <1>0, <2>1, <2>2, <2>3, SyncTrusted
  <1>3. ASSUME NEW dir \in Directions, SetDirection(S, dir)
        PROVE  Trusted(o)'
    <2> DEFINE w == [p \in Outputs |->
                       IF p \in S THEN [want[p] EXCEPT !.dir = dir] ELSE want[p]]
               changed == {p \in S : NeedsSend(sent, w, p)}
               calls == {p \in changed : w[p].running \/ SentRunning(sent, p)}
    <2>1. PICK acked \in BestEffort(calls), done \in BestEffort(calls) :
            /\ acked \subseteq done
            /\ motor' = Obeyed(motor, Implied(w), done)
            /\ sent' = Recorded(sent, w, (changed \ calls) \cup acked)
      BY <1>3 DEF SetDirection
    <2>2. want' = w /\ UNCHANGED <<link, flag, task>>
      BY <1>3 DEF SetDirection
    <2>3. /\ acked \subseteq calls /\ done \subseteq calls
          /\ acked = {p \in calls : Up(p)} /\ done = {p \in calls : Up(p)}
      BY BestEffortExact
    <2>4. CASE o \notin S
      BY <2>1, <2>2, <2>3, <2>4 DEF Trusted, Up, Flashing, Recorded, Obeyed
    <2>5. CASE o \in S
      <3>1. acked = calls /\ done = calls
        BY <2>3, <2>5
      <3>2. w[o] \in PortState /\ w[o].running = want[o].running
        BY <1>0, <2>5 DEF PortState
      <3>3. sent'[o] = w[o]
        BY <2>1, <2>5, <3>1 DEF Recorded, NeedsSend
      <3>4. ~Flashing(o) => motor'[o] = Speed(w[o])
        <4> SUFFICES ASSUME ~Flashing(o) PROVE motor'[o] = Speed(w[o])
          OBVIOUS
        <4>1. CASE o \in calls
          BY <2>1, <3>1, <4>1 DEF Obeyed, Implied
        <4>2. CASE o \notin calls
          <5>1. motor'[o] = Speed(want[o])
            BY <2>1, <2>5, <3>1, <4>2 DEF Obeyed, Trusted
          <5>2. CASE o \notin changed
            BY <2>5, <3>2, <5>1, <5>2, PortOutputsAssumption DEF Trusted, NeedsSend
          <5>3. CASE o \in changed
            <6>1. ~w[o].running
              BY <4>2, <5>3
            <6> QED
              BY <1>0, <3>2, <5>1, <6>1, SpeedFacts
          <5> QED
            BY <5>2, <5>3
        <4> QED
          BY <4>1, <4>2
      <3> QED
        BY <2>2, <2>5, <3>2, <3>3, <3>4, PortOutputsAssumption DEF Trusted, Flashing
    <2> QED
      BY <2>4, <2>5
  <1> QED
    BY <1>1, <1>2, <1>3

(* flash: a port is left alone, or left flashing.                          *)
LEMMA FlashTrusted ==
  ASSUME TypeOK, AdapterErrors = FALSE, NEW o \in Outputs, Trusted(o), NEW S, Flash(S),
         o \in S => \A p \in S : Up(p)
  PROVE  Trusted(o)'
  <1> DEFINE Outcome(A, id) ==
        \/ /\ A = S
           /\ \E halted \in BestEffort(Halting(S)) : BeginFlash(S, S, id, halted, S)
        \/ \E p \in S \ A : \E call \in CallOutcomes({p}) :
             /\ ~call.ok
             /\ \E halted \in BestEffort(Halting(A \cup {p})) :
                  BeginFlash(A \cup {p}, A, id, halted, A \cup call.done)
  <1>0. PICK A \in SUBSET S : \E id \in [A -> FreeIds] : Outcome(A, id)
    BY Zenon DEF Flash
  <1>1. PICK id \in [A -> FreeIds] : Outcome(A, id)
    BY <1>0
  <1>2. UNCHANGED <<link, want>> /\ S \subseteq Outputs
    BY DEF Flash, Selections
  <1>3. ASSUME NEW T \in SUBSET S, A \subseteq T, NEW halted \in BestEffort(Halting(T)),
               NEW driven \in SUBSET T, BeginFlash(T, A, id, halted, driven), o \notin S
        PROVE  Trusted(o)'
    <2>1. halted \subseteq Halting(T)
      BY BestEffortExact
    <2>2. o \notin T /\ o \notin A /\ o \notin halted /\ o \notin driven
      BY <1>3, <2>1 DEF Halting
    <2>3. motor'[o] = motor[o] /\ sent'[o] = sent[o] /\ flag'[o] = flag[o]
      BY <1>3, <2>2 DEF BeginFlash, Obeyed, Forgotten, Halting, Unflagged
    <2> QED
      BY <1>2, <2>3 DEF Trusted, Up, Flashing
  <1>4. CASE o \notin S
    <2>1. ASSUME NEW p \in S \ A, NEW call \in CallOutcomes({p}),
                 NEW halted \in BestEffort(Halting(A \cup {p})),
                 BeginFlash(A \cup {p}, A, id, halted, A \cup call.done)
          PROVE  Trusted(o)'
      <3>1. A \cup {p} \in SUBSET S /\ A \cup call.done \in SUBSET (A \cup {p})
        BY CallDone
      <3> QED
        BY <1>3, <1>4, <2>1, <3>1
    <2>2. ASSUME A = S, NEW halted \in BestEffort(Halting(S)),
                 BeginFlash(S, S, id, halted, S)
          PROVE  Trusted(o)'
      BY <1>3, <1>4, <2>2
    <2> QED
      BY Zenon, <1>1, <2>1, <2>2
  <1>5. CASE o \in S
    <2>1. \A p \in S \ A : \A call \in CallOutcomes({p}) : call.ok = TRUE
      BY <1>5, CallExact
    <2>2. PICK halted \in BestEffort(Halting(S)) : BeginFlash(S, S, id, halted, S) /\ A = S
      BY <1>1, <2>1
    <2>3. flag'[o] = id[o] /\ id[o] \in TaskIds
      BY <1>5, <2>2 DEF BeginFlash, FreeIds
    <2>4. sent'[o] \in {None, sent[o]}
      BY <1>5, <2>2 DEF BeginFlash, Forgotten
    <2> QED
      BY <1>2, <2>3, <2>4, PortOutputsAssumption DEF Trusted, Up, Flashing
  <1> QED
    BY <1>4, <1>5

(* alloff makes every port trusted.                                        *)
LEMMA AllOffTrusted ==
  ASSUME TypeOK, AdapterErrors = FALSE, NEW o \in Outputs, AllOff
  PROVE  Trusted(o)'
  <1> SUFFICES ASSUME Up(o)' PROVE Trusted(o)'
    BY DEF Trusted
  <1> DEFINE ups == {p \in Outputs : Up(p)}
  <1>1. o \in ups
    BY DEF AllOff, Up
  <1>2. PICK done \in BestEffort(ups) : motor' = Obeyed(motor, Stopped, done)
    BY DEF AllOff
  <1>3. done = {p \in ups : Up(p)}
    BY BestEffortExact
  <1>4. motor'[o] = 0
    BY <1>1, <1>2, <1>3 DEF Obeyed, Stopped
  <1>5. want'[o] = [want[o] EXCEPT !.running = FALSE] /\ sent'[o] = None
    BY <1>1 DEF AllOff
  <1>6. want'[o] \in PortState /\ ~want'[o].running
    BY <1>5, WantUpdates DEF TypeOK, PortState
  <1> QED
    BY <1>4, <1>5, <1>6, SpeedFacts DEF Trusted

(* A closure that is not cancelled toggles a port that is flashing.        *)
LEMMA FlashCallTrusted ==
  ASSUME TypeOK, SoleTimer, NEW o \in Outputs, Trusted(o),
         NEW t \in TaskIds, FlashCall(t), ~StaleToggle(o)
  PROVE  Trusted(o)'
  <1>1. CASE FlashRetire(t) \/ FlashDue(t) \/ FlashAbandon(t)
    BY <1>1 DEF FlashRetire, FlashDue, FlashAbandon, Trusted, Up, Flashing
  <1>2. CASE FlashToggle(t)
    <2>1. UNCHANGED <<link, want, sent, flag>> /\ task[t] # None
      BY <1>2 DEF FlashToggle
    <2>2. CASE task[t].out = o
      <3>1. ~task[t].cancelled
        BY <1>2, <2>1, <2>2 DEF StaleToggle
      <3>2. flag[o] = t
        BY <2>1, <2>2, <3>1 DEF SoleTimer
      <3> QED
        BY <2>1, <3>2, PortOutputsAssumption DEF Trusted, Up, Flashing
    <2>3. CASE task[t].out # o
      <3>1. PICK done \in BestEffort({task[t].out}) : \E speed : motor' = Obeyed(motor, speed, done)
        BY <1>2 DEF FlashToggle
      <3>2. o \notin done
        BY <2>3 DEF BestEffort
      <3>3. motor'[o] = motor[o]
        BY <3>1, <3>2 DEF Obeyed
      <3> QED
        BY <2>1, <3>3 DEF Trusted, Up, Flashing
    <2> QED
      BY <2>2, <2>3
  <1> QED
    BY <1>1, <1>2 DEF FlashCall

(* A device that comes or goes keeps the ports trusted, unless its hub is  *)
(* driving them when it comes.                                             *)
LEMMA DeviceChangeTrusted ==
  ASSUME TypeOK, NEW o \in Outputs, Trusted(o), DeviceChange, ~FoundRunning(o)
  PROVE  Trusted(o)'
  <1>0. ASSUME NEW D, LeftAlone(D), Dev(o) \notin D
        PROVE  motor'[o] = motor[o]
    BY <1>0 DEF LeftAlone
  <1>1. ASSUME NEW D, RemoveDevices(D)
        PROVE  Trusted(o)'
    <2>1. CASE Dev(o) \in D
      BY <1>1, <2>1, DevType DEF RemoveDevices, Trusted, Up
    <2>2. CASE Dev(o) \notin D
      <3>1. motor'[o] = motor[o]
        BY <1>0, <1>1, <2>2 DEF RemoveDevices
      <3> QED
        BY <1>1, <2>2, <3>1, DevType DEF RemoveDevices, Trusted, Up, Flashing, CancelFlash,
           Unflagged, DevOuts
    <2> QED
      BY <2>1, <2>2
  <1>2. ASSUME NEW d \in Devices, AddDevice(d)
        PROVE  Trusted(o)'
    <2>1. CASE Dev(o) = d
      <3>1. want'[o] = Fresh /\ sent'[o] = None
        BY <1>2, <2>1 DEF AddDevice
      <3>2. motor'[o] = 0
        BY <1>2, <2>1 DEF FoundRunning
      <3> QED
        BY <3>1, <3>2 DEF Trusted, Fresh, Speed
    <2>2. CASE Dev(o) # d
      <3>1. motor'[o] = motor[o]
        BY <1>2, <2>2 DEF AddDevice
      <3> QED
        BY <1>2, <2>2, <3>1, DevType DEF AddDevice, Trusted, Up, Flashing, TypeOK
    <2> QED
      BY <2>1, <2>2
  <1>3. ASSUME NEW d \in Devices, LinkLost(d)
        PROVE  Trusted(o)'
    <2>1. CASE Dev(o) = d
      BY <1>3, <2>1, DevType DEF LinkLost, Trusted, Up, TypeOK
    <2>2. CASE Dev(o) # d
      <3>1. motor'[o] = motor[o]
        BY <1>0, <1>3, <2>2 DEF LinkLost
      <3> QED
        BY <1>3, <2>2, <3>1, DevType DEF LinkLost, Trusted, Up, Flashing, TypeOK
    <2> QED
      BY <2>1, <2>2
  <1> QED
    BY <1>1, <1>2, <1>3 DEF DeviceChange, RemoveDevice, RemoveAll

(* The commands that are always sent make a port trusted, whatever was     *)
(* believed of it before.                                                  *)
LEMMA AlwaysSentTrusted ==
  ASSUME TypeOK, AdapterErrors = FALSE, NEW o \in Outputs, AlwaysSent(o)
  PROVE  Trusted(o)'
  BY AllOffTrusted, RunAndStopTrusted DEF AlwaysSent

(* With adapters that do not fail on a connected device, PortManager's     *)
(* decision to skip a command is wrong only after a stale toggle of the    *)
(* port's own flash, a command the port shared with a dead device, or a    *)
(* connection to a hub that drives the port already; and it is right again   *)
(* after alloff, onfor or a rotation of connected ports.                   *)
THEOREM SkippingIsSound ==
  ASSUME AdapterErrors = FALSE
  PROVE  Spec => TrustIsLostInThreeWaysAndRegained
  <1> DEFINE Step == \A o \in Outputs :
               ~Trusted(o)' =>
                 /\ ~AlwaysSent(o)
                 /\ Trusted(o) => FoundRunning(o) \/ StaleToggle(o) \/ SharedFailure(o)
  <1>1. TypeOK /\ SoleTimer /\ [Next]_vars => [Step]_vars
    <2>1. ASSUME TypeOK, SoleTimer, Next, NEW o \in Outputs, Trusted(o),
                 ~StaleToggle(o), ~SharedFailure(o), ~FoundRunning(o)
          PROVE  Trusted(o)'
      <3>1. ASSUME NEW S \in Selections, SelectionCommand(S)
            PROVE  Trusted(o)'
        <4>1. o \in S => \A p \in S : Up(p)
          BY <2>1, <3>1, SharedFailureFact
        <4> QED
          BY <2>1, <3>1, <4>1, OnTrusted, OffTrusted, RunAndStopTrusted, SettingTrusted,
             FlashTrusted DEF SelectionCommand
      <3> QED
        BY <2>1, <3>1, AllOffTrusted, FlashCallTrusted, DeviceChangeTrusted DEF Next, Command
    <2>2. ASSUME TypeOK, NEW o \in Outputs, AlwaysSent(o)
          PROVE  Trusted(o)'
      BY <2>2, AlwaysSentTrusted
    <2> QED
      BY <2>1, <2>2, Zenon DEF Step
  <1> QED
    BY <1>1, TypeCorrect, EveryFlashCanBeCancelled, PTL
       DEF Spec, TrustIsLostInThreeWaysAndRegained
=============================================================================
