------------------------------ MODULE ControlLab ------------------------------
(***************************************************************************)
(* The Control Lab: the adapter's calls and its slot (crates/bricklogo-hal *)
(* /src/adapters/controllab_adapter.rs, crates/rust-controllab).  A call   *)
(* queues a command for every power it needs and waits for the first       *)
(* answer; a tick parses the reports, merges what is queued by power,      *)
(* writes the groups in the order of a HashMap and answers.  The device    *)
(* reports its inputs all the time, and with them how far each turned.     *)
(*                                                                         *)
(* A power is 0 or 1, and so is an input.  The device is external.         *)
(***************************************************************************)
EXTENDS Integers, FiniteSets, Sequences, SequencesExt, FiniteSetsExt

CONSTANTS
  Ports,       (* the outputs                                              *)
  Inputs,
  MaxLate,     (* bound on the commands queued when another call is made   *)
  MaxUp,       (* bound on the reports nobody has read                     *)
  MaxMishaps,  (* bound on what the environment does                       *)
  None

Powers  == 0 .. 1
Types   == {"touch", "rotation"}
Group   == [power : Powers, mask : SUBSET Ports]
Command == [power : Powers, mask : SUBSET Ports, own : BOOLEAN]
Report  == [Inputs -> [value : 0 .. 1, delta : 0 .. MaxMishaps]]

VARIABLES
  call,     (* phase; the batches to send, the one being sent, its answer  *)
  open,     (* the adapter holds the slot's channel                        *)
  link,     (* the serial port works                                       *)
  slot,     (* the slot is registered                                      *)
  queue,    (* the channel                                                 *)
  cache,    (* sensor_types, rotation_values, last_payloads of touch;      *)
            (* history: the powers asked                                   *)
  up,       (* the reports in the serial buffer                            *)
  hw,       (* the device: motors, inputs, turns not reported; told: the   *)
            (* input is reported as it is, under its type; history: turns  *)
            (* since the type was set, and whether a report was lost       *)
  mishaps,
  ran,      (* history: the device was told all of the batch issued last   *)
  misled,   (* history: its Ok came before that                            *)
  raced     (* history: outputs two commands of one tick set differently   *)

vars == <<call, open, link, slot, queue, cache, up, hw, mishaps, ran, misled, raced>>

TypeOK ==
  /\ call \in [phase : {"idle", "waiting", "ok", "failed"}, todo : Seq(Seq(Group)),
               sending : Seq(Group), reply : BOOLEAN \cup {None}]
  /\ open \in BOOLEAN /\ link \in BOOLEAN /\ slot \in BOOLEAN /\ queue \in Seq(Command)
  /\ cache \in [type : [Inputs -> Types \cup {None}], turns : [Inputs -> Nat],
                touch : [Inputs -> 0 .. 1 \cup {None}], asked : [Ports -> Powers]]
  /\ up \in Seq(Report)
  /\ hw \in [motor : [Ports -> Powers], value : [Inputs -> 0 .. 1], delta : [Inputs -> Nat],
             told : SUBSET Inputs, turns : [Inputs -> Nat], lost : BOOLEAN]
  /\ mishaps \in 0 .. MaxMishaps /\ ran \in BOOLEAN /\ misled \in BOOLEAN /\ raced \subseteq Ports

Still  == [p \in Ports |-> 0]
Zero   == [p \in Inputs |-> 0]
NoCache == [type |-> [p \in Inputs |-> None], turns |-> Zero, touch |-> [p \in Inputs |-> None],
            asked |-> Still]
NoCall == [phase |-> "idle", todo |-> <<>>, sending |-> <<>>, reply |-> None]
Over   == call.phase # "waiting" /\ call.todo = <<>>
Mishap == mishaps < MaxMishaps /\ mishaps' = mishaps + 1

Init ==
  /\ call = NoCall /\ open = FALSE /\ link = TRUE /\ slot = FALSE /\ queue = <<>> /\ up = <<>>
  /\ cache = NoCache
  /\ hw = [motor |-> Still, value |-> Zero, delta |-> Zero, told |-> {}, turns |-> Zero, lost |-> FALSE]
  /\ mishaps = 0 /\ ran = FALSE /\ misled = FALSE /\ raced = {}

(* connect shakes hands; the motors are left as they are.                  *)
Connect ==
  /\ Over /\ ~open /\ link
  /\ open' = TRUE /\ slot' = TRUE /\ queue' = <<>> /\ up' = <<>>
  /\ cache' = [NoCache EXCEPT !.asked = hw.motor]
  /\ hw' = [hw EXCEPT !.told = {}, !.turns = hw.delta, !.lost = FALSE]
  /\ call' = NoCall /\ ran' = FALSE /\ misled' = FALSE /\ raced' = {}
  /\ UNCHANGED <<link, mishaps>>

(* disconnect only drops the slot: the motors run on.                      *)
Disconnect ==
  /\ Over /\ open
  /\ open' = FALSE /\ slot' = FALSE /\ queue' = <<>> /\ up' = <<>>
  /\ call' = NoCall /\ ran' = FALSE /\ misled' = FALSE
  /\ UNCHANGED <<link, cache, hw, mishaps, raced>>

----------------------------------------------------------------------------
(* start_ports: one command for every power, in any order.                 *)
Batches(S, f) == SetToSeqs({[power |-> f[p], mask |-> {q \in S : f[q] = f[p]}] : p \in S})
Off(S) == <<[power |-> 0, mask |-> S]>>
(* start_ports, stop_ports and run_ports_for_time; those of a single port. *)
Begin ==
  /\ Over /\ open
  /\ \E S \in (SUBSET Ports) \ {{}} : \E f \in [S -> Powers] : \E b \in Batches(S, f), t \in BOOLEAN :
       call' = [call EXCEPT !.todo = IF t THEN <<b, Off(S)>> ELSE <<b>>]
  /\ UNCHANGED <<open, link, slot, queue, cache, up, hw, mishaps, ran, misled, raced>>

(* One command goes into the channel; a tick may come before the next one. *)
Send(g) ==
  /\ queue' = Append(IF call.phase = "waiting" THEN queue
                     ELSE [i \in DOMAIN queue |-> [queue[i] EXCEPT !.own = FALSE]],
                     [power |-> g.power, mask |-> g.mask, own |-> TRUE])
  /\ cache' = [cache EXCEPT !.asked = [p \in Ports |-> IF p \in g.mask THEN g.power ELSE @[p]]]
Issue ==
  /\ call.phase # "waiting" /\ call.todo # <<>> /\ Len(queue) <= MaxLate
  /\ Send(Head(Head(call.todo)))
  /\ call' = [phase |-> "waiting", todo |-> Tail(call.todo), sending |-> Tail(Head(call.todo)), reply |-> None]
  /\ ran' = FALSE /\ misled' = FALSE
  /\ UNCHANGED <<open, link, slot, up, hw, mishaps, raced>>
SendNext ==
  /\ call.phase = "waiting" /\ call.sending # <<>>
  /\ Send(Head(call.sending))
  /\ call' = [call EXCEPT !.sending = Tail(@)]
  /\ UNCHANGED <<open, link, slot, up, hw, mishaps, ran, misled, raced>>

(* The first answer is that of the call.                                   *)
Return ==
  /\ call.phase = "waiting" /\ call.sending = <<>> /\ call.reply # None
  /\ call' = [call EXCEPT !.phase = IF call.reply THEN "ok" ELSE "failed", !.reply = None,
                          !.todo = IF call.reply THEN @ ELSE <<>>]
  /\ misled' = (call.reply /\ ~ran)
  /\ UNCHANGED <<open, link, slot, queue, cache, up, hw, mishaps, ran, raced>>
TimeOut ==
  /\ call.phase = "waiting" /\ call.sending = <<>> /\ Mishap
  /\ call' = [call EXCEPT !.phase = "failed", !.reply = None, !.todo = <<>>]
  /\ UNCHANGED <<open, link, slot, queue, cache, up, hw, ran, misled, raced>>

(* read_sensor with a mode: another type starts a new count, which takes   *)
(* in what turned before and is not parsed yet.                            *)
Unread(p) == hw.delta[p] + FoldLeft(LAMBDA n, r : n + r[p].delta, 0, up)
(* Mutant of SetType: the count goes on.                                   *)
KeepCount(p, t) ==
  /\ cache' = [cache EXCEPT !.type[p] = t]
  /\ hw' = [hw EXCEPT !.told = @ \ {p}, !.turns[p] = Unread(p)]
SetType(p, t) ==
  /\ cache' = [cache EXCEPT !.type[p] = t, !.turns[p] = 0]
  /\ hw' = [hw EXCEPT !.told = @ \ {p}, !.turns[p] = Unread(p)]
ReadSensor ==
  /\ Over /\ open
  /\ \E p \in Inputs, t \in Types : t # cache.type[p] /\ SetType(p, t)
  /\ UNCHANGED <<call, open, link, slot, queue, up, mishaps, ran, misled, raced>>

----------------------------------------------------------------------------
(* The slot.                                                               *)

(* process_sensor_data: a report.                                          *)
TakeReport ==
  /\ slot /\ up # <<>>
  /\ up' = Tail(up)
  /\ cache' = [cache EXCEPT
       !.turns = [p \in Inputs |-> @[p] + Head(up)[p].delta],
       !.touch = [p \in Inputs |-> IF cache.type[p] = "touch" THEN Head(up)[p].value ELSE @[p]]]
  /\ UNCHANGED <<call, open, link, slot, queue, hw, mishaps, ran, misled, raced>>
(* A report whose checksum is wrong: all that is buffered goes.            *)
DropReports ==
  /\ slot /\ up # <<>> /\ Mishap
  /\ up' = <<>> /\ hw' = [hw EXCEPT !.lost = TRUE, !.told = {}]
  /\ UNCHANGED <<call, open, link, slot, queue, cache, ran, misled, raced>>

Queued(p) == {c \in ToSet(queue) : p \in c.mask}
(* The powers, written in the order s, of the commands drained.            *)
Write(s) == [p \in Ports |->
              LET is == {i \in DOMAIN s : \E c \in Queued(p) : c.power = s[i]}
              IN IF is = {} THEN hw.motor[p] ELSE s[Max(is)]]
Execute ==
  /\ slot /\ queue # <<>>
  /\ queue' = <<>>
  /\ LET own == \E c \in ToSet(queue) : c.own
         powers(p) == {c.power : c \in Queued(p)}
     IN /\ \E s \in SetToSeqs({c.power : c \in ToSet(queue)}) :
             hw' = IF link THEN [hw EXCEPT !.motor = Write(s)] ELSE hw
        /\ raced' = (raced \ {p \in Ports : Cardinality(powers(p)) = 1})
                    \cup {p \in Ports : Cardinality(powers(p)) > 1}
        /\ call' = IF own /\ call.phase = "waiting" /\ call.reply = None THEN [call EXCEPT !.reply = link] ELSE call
        /\ ran' = (ran \/ (own /\ link /\ (call.phase = "waiting" => call.sending = <<>>)))
  /\ UNCHANGED <<open, link, slot, cache, up, mishaps, misled>>

----------------------------------------------------------------------------
(* The device.                                                             *)

Sends ==
  /\ open /\ link /\ hw.told # Inputs /\ Len(up) < MaxUp
  /\ up' = Append(up, [p \in Inputs |-> [value |-> hw.value[p], delta |-> hw.delta[p]]])
  /\ hw' = [hw EXCEPT !.told = Inputs, !.delta = Zero]
  /\ UNCHANGED <<call, open, link, slot, queue, cache, mishaps, ran, misled, raced>>

(* An input changes, or its wheel turns.                                   *)
Sense ==
  /\ link /\ Mishap
  /\ \E p \in Inputs :
       \/ hw' = [hw EXCEPT !.value[p] = 1 - @, !.told = @ \ {p}]
       \/ hw' = [hw EXCEPT !.delta[p] = @ + 1, !.turns[p] = @ + 1, !.told = @ \ {p}]
  /\ UNCHANGED <<call, open, link, slot, queue, cache, up, ran, misled, raced>>

LinkDrops ==
  /\ link /\ Mishap /\ link' = FALSE /\ hw' = [hw EXCEPT !.motor = Still]
  /\ UNCHANGED <<call, open, slot, queue, cache, up, ran, misled, raced>>
LinkReturns ==
  /\ ~link /\ ~open /\ link' = TRUE
  /\ UNCHANGED <<call, open, slot, queue, cache, up, hw, mishaps, ran, misled, raced>>

Tick == TakeReport \/ Execute
Caller == SendNext \/ Return
Next == \/ Connect \/ Disconnect \/ Begin \/ Issue \/ TimeOut \/ ReadSensor
        \/ Caller \/ Tick \/ DropReports \/ Sends \/ Sense \/ LinkDrops \/ LinkReturns

----------------------------------------------------------------------------
(* Once nothing is queued, the motors have the powers asked last, those of *)
(* commands that timed out included; but not those that two commands       *)
(* drained in one tick set differently (controllab_adapter.rs:115).  Every *)
(* turn since the type was set is counted once, unless a report was lost;  *)
(* and a touch input reported is known.                                    *)
CacheFollowsHub ==
  /\ (open /\ link /\ queue = <<>>) => \A p \in Ports \ raced : hw.motor[p] = cache.asked[p]
  /\ \A p \in hw.told : (open /\ up = <<>>) =>
        /\ ~hw.lost => cache.turns[p] = hw.turns[p]
        /\ cache.type[p] = "touch" => cache.touch[p] = hw.value[p]

(* The call waits for a device that is gone.                               *)
Stranded == call.phase = "waiting" /\ ~link
=============================================================================
