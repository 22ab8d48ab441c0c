----------------------------- MODULE PortOutputs -----------------------------
(***************************************************************************)
(* The output half of PortManager (crates/bricklogo-hal/src/               *)
(* port_manager.rs): what the program wants each motor port to do, what it *)
(* remembers having sent, the flash timers, and the hardware itself.       *)
(*                                                                         *)
(* Every Logo motor command runs under the PortManager mutex, so each is   *)
(* one action.  A flash timer is a closure the scheduler thread calls: it  *)
(* reads its cancel flag BEFORE it takes that mutex, so a call that finds  *)
(* its toggle time come is two actions, FlashDue and FlashToggle, with any *)
(* motor command possible in between.                                      *)
(*                                                                         *)
(* Adapters are external.  A batch call on connected devices either        *)
(* succeeds on every port, or (with AdapterErrors) returns an error after  *)
(* an arbitrary part of the ports obeyed; on a device whose link is down   *)
(* it always errors.  What a hub drives while no adapter is linked to it   *)
(* is not known: some adapters stop it when they disconnect, some send     *)
(* nothing, a hub whose link drops drives on, and anyone can switch it off *)
(* or run it by other means.  So a connection finds it in any state.       *)
(***************************************************************************)
EXTENDS Integers, FiniteSets

CONSTANTS
  Devices,        (* device names                                          *)
  Ports,          (* output port names of a device                         *)
  MaxPower,       (* the adapters' native maximum power                    *)
  TaskIds,        (* identities of the flash closures alive at one time    *)
  AdapterErrors,  (* whether a call on a connected device may fail         *)
  MaxDown,        (* bound on the devices whose lost link is still listed  *)
  None            (* no record, no timer, no closure                       *)

Outputs == Devices \X Ports
Dev(o)  == o[1]

Directions == {"even", "odd"}
PortState  == [dir : Directions, power : 0 .. MaxPower, running : BOOLEAN]
FlashTask  == [out : Outputs, on : BOOLEAN, cancelled : BOOLEAN,
               pc : {"waiting", "due"}]

Speeds == -MaxPower .. MaxPower

ASSUME PortOutputsAssumption ==
  /\ MaxPower \in Nat \ {0}
  /\ MaxDown \in Nat
  /\ AdapterErrors \in BOOLEAN
  /\ None \notin PortState /\ None \notin TaskIds /\ None \notin FlashTask
  /\ None \notin Speeds

VARIABLES
  link,   (* link[d]: "absent" (no entry), "up", or "down" (entry kept,    *)
          (* adapter no longer connected)                                  *)
  want,   (* port_states                                                   *)
  sent,   (* last_sent, None where there is no record                      *)
  flag,   (* flash_timers: the closure whose cancel flag is in the map     *)
  task,   (* the flash closures the scheduler holds, None for a free id    *)
  motor   (* the speed the hardware drives: negative is "odd", None while  *)
          (* no adapter is linked to it                                    *)

vars == <<link, want, sent, flag, task, motor>>

TypeOK ==
  /\ link \in [Devices -> {"absent", "up", "down"}]
  /\ want \in [Outputs -> PortState]
  /\ sent \in [Outputs -> PortState \cup {None}]
  /\ flag \in [Outputs -> TaskIds \cup {None}]
  /\ task \in [TaskIds -> FlashTask \cup {None}]
  /\ motor \in [Outputs -> Speeds \cup {None}]

(* Mutant of Fresh: the old eight-step default power on every device.      *)
FixedDefaultPower == [dir |-> "even", power |-> 4, running |-> FALSE]
Fresh == [dir |-> "even", power |-> MaxPower \div 2, running |-> FALSE]

Present(o)  == link[Dev(o)] # "absent"
Up(o)       == link[Dev(o)] = "up"
Flashing(o) == flag[o] # None

(* What start_port makes a motor do, and what a recorded state implies.    *)
Drive(w) == IF w.dir = "even" THEN w.power ELSE -w.power
Speed(w) == IF w.running THEN Drive(w) ELSE 0

SentRunning(s, o) == s[o] # None /\ s[o].running
NeedsSend(s, w, o) == s[o] # w[o]

(* The last_sent map after the ports of S are recorded.                    *)
Recorded(s, w, S) == [o \in Outputs |-> IF o \in S THEN w[o] ELSE s[o]]
(* The hardware after the ports of S obey speed f.                         *)
Obeyed(m, f, S)   == [o \in Outputs |-> IF o \in S THEN f[o] ELSE m[o]]
Driven(w)  == [o \in Outputs |-> Drive(w[o])]
Stopped    == [o \in Outputs |-> 0]
Implied(w) == [o \in Outputs |-> Speed(w[o])]

(* Port selections a command is given: resolved, validated ports.          *)
Selections == (SUBSET {o \in Outputs : Present(o)}) \ {{}}

(* The outcomes of one adapter call on the ports of C.                     *)
CallOutcomes(C) ==
  LET reachable == {o \in C : Up(o)}
      failures  == [ok : {FALSE}, done : SUBSET reachable]
  IN IF C = {} THEN {[ok |-> TRUE, done |-> C]}
     ELSE IF reachable # C THEN failures
     ELSE {[ok |-> TRUE, done |-> C]} \cup (IF AdapterErrors THEN failures ELSE {})

(* The ports that obey when the result of each of C's calls is ignored.    *)
BestEffort(C) ==
  LET reachable == {o \in C : Up(o)}
  IN IF AdapterErrors THEN SUBSET reachable ELSE {reachable}

----------------------------------------------------------------------------
(* Flash timers.                                                           *)

Cancelled(T) ==
  [t \in TaskIds |-> IF t \in T /\ task[t] # None
                     THEN [task[t] EXCEPT !.cancelled = TRUE] ELSE task[t]]
Timers(S) == {flag[o] : o \in {p \in S : Flashing(p)}}

(* cancel_flash on every port of S: the timer leaves the map with its flag *)
(* raised, the port is stopped (result ignored) if its device is still     *)
(* connected, and its record is dropped.                                   *)
Halting(S)      == {o \in S : Flashing(o)}
Unflagged(S)    == [o \in Outputs |-> IF o \in S THEN None ELSE flag[o]]
(* Mutant of Forgotten: a cancelled flash leaves the port's record.        *)
RecordKept(S)   == [o \in Outputs |-> sent[o]]
Forgotten(S)    == [o \in Outputs |-> IF o \in S /\ Flashing(o) THEN None ELSE sent[o]]
(* Mutant of CancelFlash: the timer leaves the map, its flag is not raised.*)
OnlyUnmapped(S) == flag' = Unflagged(S) /\ UNCHANGED task
CancelFlash(S)  == flag' = Unflagged(S) /\ task' = Cancelled(Timers(S))

----------------------------------------------------------------------------
(* Motor commands.                                                         *)

(* on: cancel flashes, want the ports running, and start in one batch the  *)
(* ports whose record differs; record them only if the whole batch is ok.  *)
On(S) ==
  LET w == [o \in Outputs |-> IF o \in S THEN [want[o] EXCEPT !.running = TRUE]
                                         ELSE want[o]]
      s == Forgotten(S)
      changed == {o \in S : NeedsSend(s, w, o)}
  IN /\ S \in Selections
     /\ CancelFlash(S)
     /\ want' = w
     /\ \E halted \in BestEffort(Halting(S)), call \in CallOutcomes(changed) :
          /\ motor' = Obeyed(Obeyed(motor, Stopped, halted), Driven(w), call.done)
          /\ sent' = IF call.ok THEN Recorded(s, w, changed) ELSE s
     /\ UNCHANGED link

(* off: only ports recorded as running are stopped on the wire; then the   *)
(* whole selection is recorded, unless the batch failed.  ok is the result *)
(* the caller sees.                                                        *)
OffReturning(S, ok) ==
  LET w == [o \in Outputs |-> IF o \in S THEN [want[o] EXCEPT !.running = FALSE]
                                         ELSE want[o]]
      s == Forgotten(S)
      toStop == {o \in S : SentRunning(s, o)}
  IN /\ S \in Selections
     /\ CancelFlash(S)
     /\ want' = w
     /\ \E halted \in BestEffort(Halting(S)), call \in CallOutcomes(toStop) :
          /\ call.ok = ok
          /\ motor' = Obeyed(Obeyed(motor, Stopped, halted), Stopped, call.done)
          /\ sent' = IF ok THEN Recorded(s, w, S) ELSE s
     /\ UNCHANGED link

Off(S) == \E ok \in BOOLEAN : OffReturning(S, ok)

(* onfor, rotate, rotateto and rotatetoabs: drive, wait, stop.  Wanted and *)
(* recorded as stopped whatever the result.  A failed run leaves each port *)
(* untouched, still driven, or stopped.                                    *)
RunAndStop(S) ==
  LET w == [o \in Outputs |-> IF o \in S THEN [want[o] EXCEPT !.running = FALSE]
                                         ELSE want[o]]
  IN /\ S \in Selections
     /\ CancelFlash(S)
     /\ want' = w
     /\ sent' = Recorded(sent, w, S)
     /\ \E halted \in BestEffort(Halting(S)), call \in CallOutcomes(S) :
          LET m == Obeyed(motor, Stopped, halted)
          IN IF call.ok THEN motor' = Obeyed(m, Stopped, S)
             ELSE \E stopped \in SUBSET call.done :
                    motor' = Obeyed(Obeyed(m, Driven(want), call.done), Stopped, stopped)
     /\ UNCHANGED link

(* sync_ports towards the wanted state w: device by device, stopping at    *)
(* the first device whose call fails; a device's ports are recorded when   *)
(* all of its calls were ok.                                               *)
SyncPorts(S, w) ==
  LET changed == {o \in S : NeedsSend(sent, w, o)}
      calls(D) == {o \in changed : Dev(o) \in D /\ (w[o].running \/ SentRunning(sent, o))}
      devs == {Dev(o) : o \in changed}
  IN \E D \in SUBSET devs :
       /\ \A o \in calls(D) : Up(o)
       /\ sent' = Recorded(sent, w, {o \in changed : Dev(o) \in D})
       /\ \/ D = devs /\ motor' = Obeyed(motor, Implied(w), calls(D))
          \/ \E d \in devs \ D : \E call \in CallOutcomes(calls({d})) :
               /\ ~call.ok
               /\ motor' = Obeyed(motor, Implied(w), calls(D) \cup call.done)

(* seteven and setodd: sync_port on each port in turn, results ignored.    *)
SetDirection(S, dir) ==
  LET w == [o \in Outputs |-> IF o \in S THEN [want[o] EXCEPT !.dir = dir] ELSE want[o]]
      changed == {o \in S : NeedsSend(sent, w, o)}
      calls == {o \in changed : w[o].running \/ SentRunning(sent, o)}
  IN /\ S \in Selections
     /\ want' = w
     /\ \E acked \in BestEffort(calls) : \E done \in BestEffort(calls) :
          /\ acked \subseteq done
          /\ motor' = Obeyed(motor, Implied(w), done)
          /\ sent' = Recorded(sent, w, (changed \ calls) \cup acked)
     /\ UNCHANGED <<link, flag, task>>

Opposite(dir) == IF dir = "even" THEN "odd" ELSE "even"

(* rd (reverse): toggle every port, then one sync_ports, result ignored.   *)
ReverseDirection(S) ==
  LET w == [o \in Outputs |-> IF o \in S THEN [want[o] EXCEPT !.dir = Opposite(@)]
                                         ELSE want[o]]
  IN /\ S \in Selections
     /\ want' = w
     /\ SyncPorts(S, w)
     /\ UNCHANGED <<link, flag, task>>

(* setpower: level 0 also means stopped.  Flashes are left running.        *)
SetPower(S, level) ==
  LET w == [o \in Outputs |->
              IF o \in S THEN [want[o] EXCEPT !.power = level,
                                              !.running = @ /\ level # 0]
                         ELSE want[o]]
  IN /\ S \in Selections
     /\ want' = w
     /\ SyncPorts(S, w)
     /\ UNCHANGED <<link, flag, task>>

(* Identities not held by the scheduler nor by a timer left in the map.    *)
FreeIds == {t \in TaskIds : task[t] = None /\ \A o \in Outputs : flag[o] # t}

(* What flash has done when it has cancelled the timers of T and given the *)
(* ports of A new ones: id maps A to new closures, the ports of halted and *)
(* then of driven obeyed.                                                  *)
BeginFlash(T, A, id, halted, driven) ==
  /\ flag' = [o \in Outputs |-> IF o \in A THEN id[o] ELSE Unflagged(T)[o]]
  /\ task' = [t \in TaskIds |->
       IF \E o \in A : id[o] = t
       THEN [out |-> CHOOSE o \in A : id[o] = t,
             on |-> TRUE, cancelled |-> FALSE, pc |-> "waiting"]
       ELSE Cancelled(Timers(T))[t]]
  /\ sent' = Forgotten(T)
  /\ motor' = Obeyed(Obeyed(motor, Stopped, halted), Driven(want), driven)

(* flash: port by port, cancel, start, put a new timer in the map and      *)
(* register its closure; the first start_port error ends the command with  *)
(* the earlier ports flashing and the failed one cancelled.  TaskIds       *)
(* bounds how many closures exist at once.                                 *)
Flash(S) ==
  /\ S \in Selections
  /\ \E A \in SUBSET S : \E id \in [A -> FreeIds] :
       /\ \A o, p \in A : id[o] = id[p] => o = p
       /\ \A o \in A : Up(o)
       /\ \/ /\ A = S
             /\ \E halted \in BestEffort(Halting(S)) : BeginFlash(S, S, id, halted, S)
          \/ \E o \in S \ A : \E call \in CallOutcomes({o}) :
               /\ ~call.ok
               /\ \E halted \in BestEffort(Halting(A \cup {o})) :
                    BeginFlash(A \cup {o}, A, id, halted, A \cup call.done)
  /\ UNCHANGED <<link, want>>

(* alloff: every timer is cancelled; every port of every connected device  *)
(* is wanted stopped, forgotten and told to stop, results ignored.         *)
AllOff ==
  LET ups == {o \in Outputs : Up(o)}
  IN /\ CancelFlash(Outputs)
     /\ want' = [o \in Outputs |-> IF o \in ups THEN [want[o] EXCEPT !.running = FALSE]
                                                ELSE want[o]]
     /\ sent' = [o \in Outputs |-> IF o \in ups THEN None ELSE sent[o]]
     /\ \E done \in BestEffort(ups) : motor' = Obeyed(motor, Stopped, done)
     /\ UNCHANGED link

----------------------------------------------------------------------------
(* A flash closure's call on the scheduler thread, which makes one call at *)
(* a time.                                                                 *)

NoneDue == \A t \in TaskIds : task[t] # None => task[t].pc = "waiting"

(* Mutant of FlashRetire: the flag counts only while the port is dark.     *)
RetireWhenDark(t) ==
  /\ task[t] # None /\ NoneDue /\ task[t].cancelled /\ ~task[t].on
  /\ task' = [task EXCEPT ![t] = None]
  /\ UNCHANGED <<link, want, sent, flag, motor>>

(* The flag is read: a cancelled closure retires.                          *)
FlashRetire(t) ==
  /\ task[t] # None /\ NoneDue /\ task[t].cancelled
  /\ task' = [task EXCEPT ![t] = None]
  /\ UNCHANGED <<link, want, sent, flag, motor>>

(* The flag is read as not raised and the toggle time has come.            *)
FlashDue(t) ==
  /\ task[t] # None /\ NoneDue /\ ~task[t].cancelled
  /\ task' = [task EXCEPT ![t].pc = "due"]
  /\ UNCHANGED <<link, want, sent, flag, motor>>

(* Mutant of FlashToggle: is_on is not cleared after the stop.             *)
ToggleStaysOn(t) ==
  /\ task[t] # None /\ task[t].pc = "due"
  /\ LET o == task[t].out
     IN /\ Up(o)
        /\ task' = [task EXCEPT ![t].pc = "waiting"]
        /\ \E done \in BestEffort({o}) : motor' = Obeyed(motor, Stopped, done)
  /\ UNCHANGED <<link, want, sent, flag>>

(* The mutex is taken and the port toggled, the adapter's result ignored.  *)
FlashToggle(t) ==
  /\ task[t] # None /\ task[t].pc = "due"
  /\ LET o == task[t].out
         speed == [p \in Outputs |-> IF task[t].on THEN 0 ELSE Drive(want[p])]
     IN /\ Up(o)
        /\ task' = [task EXCEPT ![t].pc = "waiting", ![t].on = ~@]
        /\ \E done \in BestEffort({o}) : motor' = Obeyed(motor, speed, done)
  /\ UNCHANGED <<link, want, sent, flag>>

(* The mutex is taken and the device is gone or not connected: the closure *)
(* retires, its timer stays in the map.                                    *)
FlashAbandon(t) ==
  /\ task[t] # None /\ task[t].pc = "due" /\ ~Up(task[t].out)
  /\ task' = [task EXCEPT ![t] = None]
  /\ UNCHANGED <<link, want, sent, flag, motor>>

----------------------------------------------------------------------------
(* Devices come and go.                                                    *)

DevOuts(D) == {o \in Outputs : Dev(o) \in D}

(* disconnect of the adapters of D (RCX, CyberMaster, Control Lab, WeDo    *)
(* and Build HAT send nothing, the others stop the motors or try to), or   *)
(* their links gone: what the motors do from here on is not known.         *)
LeftAlone(D) == motor' = [o \in Outputs |-> IF Dev(o) \in D THEN None ELSE motor[o]]

(* add_device under a name that has no connected device: a dead entry is   *)
(* overwritten, and its timers are left as they are.  Nothing is sent: the *)
(* hub goes on with what it is found doing.                                *)
AddDevice(d) ==
  /\ link[d] # "up"
  /\ link' = [link EXCEPT ![d] = "up"]
  /\ want' = [o \in Outputs |-> IF Dev(o) = d THEN Fresh ELSE want[o]]
  /\ sent' = [o \in Outputs |-> IF Dev(o) = d THEN None ELSE sent[o]]
  /\ \E found \in [DevOuts({d}) -> Speeds] :
       motor' = [o \in Outputs |-> IF Dev(o) = d THEN found[o] ELSE motor[o]]
  /\ UNCHANGED <<flag, task>>

(* remove_device, by disconnect or by the watchdog, and remove_all on the  *)
(* way out: the devices of D lose their timers and their entries.          *)
RemoveDevices(D) ==
  /\ \A d \in D : link[d] # "absent"
  /\ link' = [d \in Devices |-> IF d \in D THEN "absent" ELSE link[d]]
  /\ CancelFlash(DevOuts(D))
  /\ want' = [o \in Outputs |-> IF Dev(o) \in D THEN Fresh ELSE want[o]]
  /\ sent' = [o \in Outputs |-> IF Dev(o) \in D THEN None ELSE sent[o]]
  /\ LeftAlone(D)

RemoveDevice(d) == RemoveDevices({d})
RemoveAll == RemoveDevices({d \in Devices : link[d] # "absent"})

(* The link drops: adapter.connected() turns false.                        *)
LinkLost(d) ==
  /\ link[d] = "up" /\ Cardinality({e \in Devices : link[e] = "down"}) < MaxDown
  /\ link' = [link EXCEPT ![d] = "down"]
  /\ LeftAlone({d})
  /\ UNCHANGED <<want, sent, flag, task>>

----------------------------------------------------------------------------
Init ==
  /\ link = [d \in Devices |-> "absent"]
  /\ want = [o \in Outputs |-> Fresh]
  /\ sent = [o \in Outputs |-> None]
  /\ flag = [o \in Outputs |-> None]
  /\ task = [t \in TaskIds |-> None]
  /\ motor = [o \in Outputs |-> None]

SelectionCommand(S) ==
  \/ On(S) \/ Off(S) \/ RunAndStop(S) \/ ReverseDirection(S) \/ Flash(S)
  \/ \E dir \in Directions : SetDirection(S, dir)
  \/ \E level \in 0 .. MaxPower : SetPower(S, level)

Command == AllOff \/ \E S \in Selections : SelectionCommand(S)

FlashCall(t) == FlashRetire(t) \/ FlashDue(t) \/ FlashToggle(t) \/ FlashAbandon(t)

DeviceChange ==
  \/ RemoveAll
  \/ \E d \in Devices : AddDevice(d) \/ RemoveDevice(d) \/ LinkLost(d)

Next == Command \/ (\E t \in TaskIds : FlashCall(t)) \/ DeviceChange

Spec == Init /\ [][Next]_vars

(* The scheduler thread calls every closure it holds on every tick, and a  *)
(* closure blocked on the mutex gets it.                                   *)
Fairness ==
  \A t \in TaskIds :
    /\ SF_vars(FlashRetire(t)) /\ SF_vars(FlashDue(t))
    /\ WF_vars(FlashToggle(t) \/ FlashAbandon(t))

FairSpec == Spec /\ Fairness
----------------------------------------------------------------------------
(* Properties.                                                             *)

(* A closure that is not cancelled is the one its port's timer can cancel: *)
(* no flash runs that off, on, alloff or disconnect could not stop, and no *)
(* port has two.                                                           *)
SoleTimer ==
  \A t \in TaskIds : task[t] # None /\ ~task[t].cancelled => flag[task[t].out] = t

(* What PortManager relies on to skip a command: last_sent agrees with     *)
(* port_states, a port with neither record nor timer is not wanted         *)
(* running, and the hardware of a port that is not flashing does what the  *)
(* program wants.  (Asked of connected devices only.)                      *)
Trusted(o) == Up(o) =>
  /\ sent[o] \in {None, want[o]}
  /\ ~Flashing(o) => /\ sent[o] = None => ~want[o].running
                     /\ motor[o] = Speed(want[o])

(* The toggle of a closure that was cancelled after it read its flag.      *)
StaleToggle(o) ==
  \E t \in TaskIds : /\ task[t] # None /\ task[t].out = o /\ task[t].cancelled
                     /\ FlashToggle(t)

(* A command naming the port together with one of an unreachable device.   *)
SharedFailure(o) ==
  \E S \in Selections : /\ o \in S /\ \E p \in S : ~Up(p)
                        /\ SelectionCommand(S)

(* A device added whose motor turns, from a connection before or by itself.*)
FoundRunning(o) == AddDevice(Dev(o)) /\ motor[o]' # 0

(* A timed run or rotation of connected ports, or alloff: commands sent    *)
(* whatever last_sent says.                                                *)
AlwaysSent(o) ==
  \/ AllOff
  \/ \E S \in SUBSET {p \in Outputs : Up(p)} : o \in S /\ RunAndStop(S)

(* With adapters that do not fail on a connected device, a connected port  *)
(* stops being trusted in three ways only: a stale toggle of its own       *)
(* flash, a command it shares with a dead device, and a connection to a    *)
(* hub that drives the port already.  No other order of on, off, onfor,      *)
(* setpower, seteven, reverse, flash, alloff, reconnection, link loss and  *)
(* removal makes a skipped command the wrong decision, and however trust   *)
(* was lost, alloff and onfor bring it back.                               *)
TrustIsLostInThreeWaysAndRegained ==
  [][\A o \in Outputs :
       ~Trusted(o)' =>
         /\ ~AlwaysSent(o)
         /\ Trusted(o) => FoundRunning(o) \/ StaleToggle(o) \/ SharedFailure(o)]_vars

(* A connected port with no timer that is wanted stopped.                  *)
Resting(o) == Up(o) /\ ~Flashing(o) /\ ~want[o].running

(* alloff is documented to stop all motors and cancel all flashes, off to  *)
(* stop the selected ones: a connected port that is stopped and wanted     *)
(* stopped, with no timer, is not started while it is wanted so.           *)
StoppedStaysStopped ==
  [][\A o \in Outputs :
       Resting(o) /\ motor[o] = 0 /\ Resting(o)' => motor[o]' = 0]_vars

Blinking(t, phase) ==
  task[t] # None /\ ~task[t].cancelled /\ task[t].on = phase

(* A flash keeps alternating until it is cancelled or its device is lost.  *)
FlashAlternates ==
  \A t \in TaskIds : \A phase \in BOOLEAN :
    Blinking(t, phase) ~> ~Blinking(t, phase)

(* A cancelled closure leaves the scheduler, also when it was cancelled    *)
(* between its flag check and its toggle.                                  *)
CancelledRetires ==
  \A t \in TaskIds : (task[t] # None /\ task[t].cancelled) ~> task[t] = None
=============================================================================
