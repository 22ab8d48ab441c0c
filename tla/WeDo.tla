--------------------------------- MODULE WeDo ---------------------------------
(***************************************************************************)
(* The WeDo hub: the adapter's calls and its slot (crates/bricklogo-hal/   *)
(* src/adapters/wedo_adapter.rs).  A message sets every motor at once: a   *)
(* call changes the adapter's motor_values and queues all of them, and the *)
(* slot writes the command queued last only.  The hub reports its sensors  *)
(* all the time; the slot keeps the last sample of each type and port.     *)
(*                                                                         *)
(* A power is 0 or 1, and so is a sample's value.  The hub is external.    *)
(***************************************************************************)
EXTENDS Integers, FiniteSets, Sequences

CONSTANTS
  Ports,
  MaxLate,     (* bound on the commands queued when another is             *)
  MaxUp,       (* bound on the reports nobody has read                     *)
  MaxMishaps,  (* bound on what the environment does                       *)
  None

Types   == {"distance", "tilt"}
Powers  == [Ports -> 0 .. 1]
Command == [want : Powers, own : BOOLEAN]
Sample  == [type : Types \cup {None}, value : 0 .. 1]
Report  == [Ports -> Sample]

VARIABLES
  call,     (* phase, the powers to set, one message after the other       *)
  open,     (* the adapter holds the slot's channel                        *)
  link,     (* the hub is plugged in                                       *)
  slot,     (* None, or the slot's motor_values                            *)
  queue,    (* the channel                                                 *)
  cache,    (* the adapter's motor_values; last_payloads, None: no such    *)
  up,       (* the reports in the HID device's buffer                      *)
  hw,       (* the hub: its motors, its sensors; told: reported as they    *)
            (* are                                                         *)
  mishaps,
  ran,      (* history: the hub carried out the command issued last        *)
  misled    (* history: a command was answered though never sent           *)

vars == <<call, open, link, slot, queue, cache, up, hw, mishaps, ran, misled>>

TypeOK ==
  /\ call \in [phase : {"idle", "waiting", "ok", "failed"}, todo : Seq(Powers)]
  /\ open \in BOOLEAN /\ link \in BOOLEAN
  /\ slot \in Powers \cup {None} /\ queue \in Seq(Command)
  /\ cache \in [want : Powers, payload : [Ports -> [Types -> 0 .. 1 \cup {None}]]]
  /\ up \in Seq(Report)
  /\ hw \in [motor : Powers, sensor : Report, told : SUBSET Ports]
  /\ mishaps \in Nat /\ ran \in BOOLEAN /\ misled \in BOOLEAN

Still   == [p \in Ports |-> 0]
NoCall  == [phase |-> "idle", todo |-> <<>>]
NoCache == [want |-> Still, payload |-> [p \in Ports |-> [t \in Types |-> None]]]
Over    == call.phase # "waiting" /\ call.todo = <<>>
Mishap  == mishaps < MaxMishaps /\ mishaps' = mishaps + 1

Init ==
  /\ call = NoCall /\ open = FALSE /\ link = TRUE /\ slot = None /\ queue = <<>> /\ cache = NoCache
  /\ up = <<>>
  /\ hw \in [motor : {Still}, sensor : [Ports -> [type : Types \cup {None}, value : {0}]], told : {{}}]
  /\ mishaps = 0 /\ ran = FALSE /\ misled = FALSE

(* connect takes the motors for stopped and tells them nothing.            *)
Connect ==
  /\ Over /\ ~open /\ link
  /\ open' = TRUE /\ slot' = Still /\ queue' = <<>> /\ up' = <<>> /\ cache' = NoCache
  /\ hw' = [hw EXCEPT !.told = {}]
  /\ call' = NoCall /\ ran' = FALSE /\ misled' = FALSE
  /\ UNCHANGED <<link, mishaps>>

(* disconnect only drops the slot: the motors run on.                      *)
Disconnect ==
  /\ Over /\ open
  /\ open' = FALSE /\ slot' = None /\ queue' = <<>> /\ up' = <<>> /\ cache' = [cache EXCEPT !.want = Still]
  /\ call' = NoCall /\ ran' = FALSE /\ misled' = FALSE
  /\ UNCHANGED <<link, hw, mishaps>>

----------------------------------------------------------------------------
(* start_port(s), stop_port(s), run_port(s)_for_time: the motors in S go   *)
(* to a power each; the last stops them once the time is over.             *)
Set(S, f) == [p \in Ports |-> IF p \in S THEN f[p] ELSE cache.want[p]]
Begin ==
  /\ Over /\ open
  /\ \E S \in (SUBSET Ports) \ {{}}, f \in Powers, timed \in BOOLEAN :
       call' = [call EXCEPT !.todo = IF timed THEN <<Set(S, f), Set(S, Still)>> ELSE <<Set(S, f)>>]
  /\ UNCHANGED <<open, link, slot, queue, cache, up, hw, mishaps, ran, misled>>

(* Mutant of Wanted: the adapter remembers what the hub was told only.     *)
WantedIfOk(f) == cache.want
Wanted(f) == f
(* send_motor_state.                                                       *)
Issue ==
  /\ call.phase # "waiting" /\ call.todo # <<>> /\ Len(queue) <= MaxLate
  /\ cache' = [cache EXCEPT !.want = Wanted(Head(call.todo))]
  /\ queue' = Append([i \in DOMAIN queue |-> [queue[i] EXCEPT !.own = FALSE]],
                     [want |-> Head(call.todo), own |-> TRUE])
  /\ call' = [phase |-> "waiting", todo |-> Tail(call.todo)]
  /\ ran' = FALSE /\ misled' = FALSE
  /\ UNCHANGED <<open, link, slot, up, hw, mishaps>>

Answer(ok) == call' = IF call.phase # "waiting" THEN call
                      ELSE IF ok THEN [call EXCEPT !.phase = "ok"]
                      ELSE [phase |-> "failed", todo |-> <<>>]

TimeOut ==
  /\ call.phase = "waiting" /\ Mishap /\ Answer(FALSE)
  /\ UNCHANGED <<open, link, slot, queue, cache, up, hw, ran, misled>>

----------------------------------------------------------------------------
(* The slot.                                                               *)

(* A report: the samples of the types known.                               *)
TakeReport ==
  /\ slot # None /\ up # <<>>
  /\ up' = Tail(up)
  /\ cache' = [cache EXCEPT !.payload = [p \in Ports |-> [t \in Types |->
                 IF Head(up)[p].type = t THEN Head(up)[p].value ELSE @[p][t]]]]
  /\ UNCHANGED <<call, open, link, slot, queue, hw, mishaps, ran, misled>>

(* The whole queue: all but the last are answered Ok unsent.               *)
Execute ==
  /\ slot # None /\ queue # <<>>
  /\ queue' = <<>>
  /\ LET last == queue[Len(queue)]
         skipped == \E i \in 1 .. Len(queue) - 1 : queue[i].own
     IN /\ slot' = last.want
        /\ hw' = IF link THEN [hw EXCEPT !.motor = last.want] ELSE hw
        /\ misled' = (misled \/ skipped) /\ ran' = (ran \/ (last.own /\ link))
        /\ IF last.own \/ skipped THEN Answer(skipped \/ link) ELSE UNCHANGED call
  /\ UNCHANGED <<open, link, cache, up, mishaps>>

----------------------------------------------------------------------------
(* The hub.                                                                *)

Sends ==
  /\ open /\ link /\ hw.told # Ports /\ Len(up) < MaxUp
  /\ up' = Append(up, hw.sensor) /\ hw' = [hw EXCEPT !.told = Ports]
  /\ UNCHANGED <<call, open, link, slot, queue, cache, mishaps, ran, misled>>

(* A value changes, or the sensor is exchanged.                            *)
Sense ==
  /\ link /\ Mishap
  /\ \E p \in Ports, s \in Sample :
       /\ s # hw.sensor[p] /\ hw' = [hw EXCEPT !.sensor[p] = s, !.told = @ \ {p}]
  /\ UNCHANGED <<call, open, link, slot, queue, cache, up, ran, misled>>

LinkDrops ==
  /\ link /\ Mishap /\ link' = FALSE /\ hw' = [hw EXCEPT !.motor = Still]
  /\ UNCHANGED <<call, open, slot, queue, cache, up, ran, misled>>
LinkReturns ==
  /\ ~link /\ ~open /\ link' = TRUE
  /\ UNCHANGED <<call, open, slot, queue, cache, up, hw, mishaps, ran, misled>>

Tick == TakeReport \/ Execute
Next == \/ Connect \/ Disconnect \/ Begin \/ Issue \/ TimeOut \/ Tick \/ Sends \/ Sense
        \/ LinkDrops \/ LinkReturns
Spec == Init /\ [][Next]_vars

----------------------------------------------------------------------------
(* After an Ok all the motors are at the powers the adapter holds, those   *)
(* of a command that failed included; and a payload of the type plugged in *)
(* is the sensor's, once reported and read (that of another type stays     *)
(* for ever, wedo_adapter.rs:81).                                          *)
CacheFollowsHub ==
  /\ (open /\ link /\ call.phase = "ok") => hw.motor = cache.want
  /\ \A p \in hw.told : LET s == hw.sensor[p]
                        IN (open /\ up = <<>> /\ s.type # None) => cache.payload[p][s.type] = s.value

(* The call waits for a hub that is gone.                                  *)
Stranded == call.phase = "waiting" /\ ~link
=============================================================================
