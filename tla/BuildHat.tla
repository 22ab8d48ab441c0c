------------------------------- MODULE BuildHat -------------------------------
(***************************************************************************)
(* The Raspberry Pi Build HAT: the adapter's calls and its slot (crates/   *)
(* bricklogo-hal/src/adapters/buildhat_adapter.rs), which share a record   *)
(* per port: the device, the mode selected, the last data of each mode and *)
(* a flag that a pulse or a ramp is done.  The slot takes the HAT's lines  *)
(* into the record, initialises a device a second after it was attached,   *)
(* and writes the commands of the calls; a call that moves a motor clears  *)
(* the flag and watches it.                                                *)
(*                                                                         *)
(* A sensor has two modes or more; the combination of modes set up for a   *)
(* motor is filed under the key of the first.  Speeds, positions and the   *)
(* values are left out; data is known by the kind of device it came from.  *)
(* The HAT is external.                                                    *)
(***************************************************************************)
EXTENDS Integers, FiniteSets, Sequences, SequencesExt

CONSTANTS
  Ports, Modes,
  MaxLate,     (* bound on the commands queued when another is             *)
  MaxUp,       (* bound on the lines under way                             *)
  MaxMishaps,  (* bound on what the environment does                       *)
  None

Types   == {"none", "tacho", "basic", "sensor"}
Combi   == CHOOSE m \in Modes : TRUE
Ops     == {"set", "coast", "run", "preset", "select"}
Command == [op : Ops, port : Ports, mode : Modes \cup {None}, own : BOOLEAN]
(* The ways a call goes on: queue and wait for the answer, queue only, run *)
(* the motors of a set and watch their flags, read.                        *)
Step    == [how : {"ask", "tell"}, op : Ops, port : Ports]
           \cup [how : {"run"}, ports : SUBSET Ports]
           \cup [how : {"read"}, port : Ports, mode : Modes]
Line    == [kind : {"data"}, port : Ports, mode : Modes, type : Types]
           \cup [kind : {"done"}, port : Ports, own : BOOLEAN]
           \cup [kind : {"device"}, port : Ports, type : Types]
Jobs    == {"idle", "on", "own", "old"}

VARIABLES
  call,     (* phase, the steps to come, the one under way                 *)
  open,     (* the adapter holds the slot's channel                        *)
  link,     (* the serial line works                                       *)
  slot,     (* None, or the initialisations due                            *)
  queue,    (* the channel                                                 *)
  cache,    (* shared: per port the type, selected mode, data, and         *)
            (* completion flag, "own" or "old" (history) when set          *)
  up,       (* lines under way                                             *)
  hw,       (* the HAT: per port the device, its mode, what it does        *)
  mishaps,
  ran,      (* history: the HAT carried out the command issued last        *)
  misled,   (* history: an older completion was taken for the command's    *)
  raced     (* history: ports whose device was exchanged between the       *)
            (* decision to set a mode and the command, or where a late     *)
            (* initialisation set a mode over the one selected             *)

vars == <<call, open, link, slot, queue, cache, up, hw, mishaps, ran, misled, raced>>

TypeOK ==
  /\ call \in [phase : {"idle", "waiting", "ok", "failed"}, todo : Seq(Step),
               now : Step \cup {None}]
  /\ open \in BOOLEAN /\ link \in BOOLEAN
  /\ slot \in {None} \cup SUBSET [port : Ports, type : Types]
  /\ queue \in Seq(Command)
  /\ cache \in [Ports -> [type : Types, mode : Modes \cup {None},
                          data : [Modes -> Types], done : {"no", "own", "old"}]]
  /\ up \in Seq(Line)
  /\ hw \in [Ports -> [type : Types, mode : Modes \cup {None}, job : Jobs]]
  /\ mishaps \in 0 .. MaxMishaps /\ ran \in BOOLEAN /\ misled \in BOOLEAN /\ raced \subseteq Ports

NoCall  == [phase |-> "idle", todo |-> <<>>, now |-> None]
Unknown == [type |-> "none", mode |-> None, data |-> [m \in Modes |-> "none"], done |-> "no"]
Failed  == [phase |-> "failed", todo |-> <<>>, now |-> None]
Over    == call.phase # "waiting" /\ call.todo = <<>> /\ call.now = None
Mishap  == mishaps < MaxMishaps /\ mishaps' = mishaps + 1

Init ==
  /\ call = NoCall /\ open = FALSE /\ link = TRUE /\ slot = None /\ queue = <<>>
  /\ cache = [p \in Ports |-> Unknown] /\ up = <<>>
  /\ hw \in [Ports -> [type : Types, mode : {None}, job : {"idle"}]]
  /\ mishaps = 0 /\ ran = FALSE /\ misled = FALSE /\ raced = {}

(* connect: the HAT has listed its devices; init_devices queues what they  *)
(* need.                                                                   *)
Motors == {p \in Ports : hw[p].type = "tacho"}
Queued(op, p, m, own) == [op |-> op, port |-> p, mode |-> m, own |-> own]
Connect ==
  /\ Over /\ ~open /\ link
  /\ open' = TRUE /\ slot' = {} /\ up' = <<>>
  /\ cache' = [p \in Ports |-> [Unknown EXCEPT !.type = hw[p].type]]
  /\ LET s == SetToSeq(Motors)
     IN queue' = [i \in DOMAIN s |-> Queued("select", s[i], Combi, FALSE)]
  /\ hw' = [p \in Ports |-> [hw[p] EXCEPT !.mode = None]]
  /\ call' = NoCall /\ ran' = FALSE /\ misled' = FALSE /\ raced' = {}
  /\ UNCHANGED <<link, mishaps>>

(* disconnect only drops the slot: the motors run on.                      *)
Older == [p \in Ports |-> [hw[p] EXCEPT !.job = IF @ = "own" THEN "old" ELSE @]]
Disconnect ==
  /\ Over /\ open
  /\ open' = FALSE /\ slot' = None /\ queue' = <<>> /\ up' = <<>> /\ hw' = Older
  /\ call' = NoCall /\ ran' = FALSE /\ misled' = FALSE /\ raced' = {}
  /\ cache' = [p \in Ports |-> Unknown]
  /\ UNCHANGED <<link, mishaps>>

----------------------------------------------------------------------------
(* The calls.                                                              *)
Each(how, op, S) == LET s == SetToSeq(S)
                    IN [i \in DOMAIN s |-> [how |-> how, op |-> op, port |-> s[i]]]
Run(S)  == IF S = {} THEN <<>> ELSE <<[how |-> "run", ports |-> S]>>
Reads(S, m) == LET s == SetToSeq(S)
               IN [i \in DOMAIN s |-> [how |-> "read", port |-> s[i], mode |-> m]]
Is(S, T) == \A p \in S : cache[p].type \in T
Programs(S) ==
  (IF Is(S, {"tacho", "basic"}) THEN {Each("ask", "set", S), Each("ask", "coast", S)} ELSE {})
  (* onfor: default run_ports_for_time, or run_port_for_time.              *)
  \cup (IF Is(S, {"basic"}) \/ (Cardinality(S) > 1 /\ Is(S, {"tacho", "basic"}))
        THEN {Each("ask", "set", S) \o Each("ask", "coast", S)} ELSE {})
  \cup (IF Is(S, {"tacho"})
        (* A rotation to a position reads first, and turns those not there. *)
        THEN {Run(S), Each("tell", "preset", S)} \cup {Reads(S, Combi) \o Run(D) : D \in SUBSET S}
        ELSE {})
  \cup (IF Is(S, {"sensor"}) THEN {Reads(S, m) : m \in Modes} ELSE {})

Begin ==
  /\ Over /\ open
  /\ \E S \in (SUBSET Ports) \ {{}} : \E t \in Programs(S) \ {<<>>} : call' = [call EXCEPT !.todo = t]
  /\ UNCHANGED <<open, link, slot, queue, cache, up, hw, mishaps, ran, misled, raced>>

Fresh(c) == [c EXCEPT !.own = FALSE]
Room     == Len(queue) <= MaxLate
Advance(s, phase) == [phase |-> phase, todo |-> Tail(call.todo), now |-> s]

(* send_cmd_wait; or the flags of all motors are cleared and their pulses  *)
(* or ramps are queued.                                                    *)
Issue ==
  /\ call.phase # "waiting" /\ call.now = None /\ call.todo # <<>> /\ Room
  /\ LET s == Head(call.todo)
         q == [i \in DOMAIN queue |-> Fresh(queue[i])]
     IN /\ s.how \in {"ask", "run"}
        /\ call' = Advance(s, "waiting")
        /\ \/ /\ s.how = "ask" /\ queue' = Append(q, Queued(s.op, s.port, None, TRUE))
              /\ UNCHANGED cache
           \/ /\ s.how = "run"
              /\ LET t == SetToSeq(s.ports)
                 IN queue' = q \o [i \in DOMAIN t |-> Queued("run", t[i], None, TRUE)]
              /\ cache' = [p \in Ports |-> IF p \in s.ports THEN [cache[p] EXCEPT !.done = "no"]
                                           ELSE cache[p]]
  /\ up' = [i \in DOMAIN up |-> IF up[i].kind = "done" THEN Fresh(up[i]) ELSE up[i]]
  /\ hw' = Older /\ ran' = FALSE /\ misled' = FALSE
  /\ UNCHANGED <<open, link, slot, mishaps, raced>>

(* reset_port_zero waits for nothing.                                      *)
Tell ==
  /\ call.phase # "waiting" /\ call.now = None /\ call.todo # <<>> /\ Room
  /\ LET s == Head(call.todo)
     IN /\ s.how = "tell" /\ queue' = Append(queue, Queued(s.op, s.port, None, FALSE))
        /\ call' = Advance(None, call.phase)
  /\ UNCHANGED <<open, link, slot, cache, up, hw, mishaps, ran, misled, raced>>

(* Mutant of Select: the data of the mode stays.                           *)
KeepData(p, m) == [cache EXCEPT ![p].mode = m]
(* read_sensor: a motor's combination is set up already; selecting another *)
(* mode forgets its data.                                                  *)
Select(p, m) == [cache EXCEPT ![p].mode = m, ![p].data[m] = "none"]
Read ==
  /\ call.phase # "waiting" /\ call.now = None /\ call.todo # <<>> /\ Room
  /\ LET s == Head(call.todo)
     IN /\ s.how = "read" /\ call' = Advance(s, call.phase)
        /\ IF cache[s.port].type = "tacho" \/ cache[s.port].mode = s.mode THEN UNCHANGED <<cache, queue>>
           ELSE /\ cache' = Select(s.port, s.mode)
                /\ queue' = Append(queue, Queued("select", s.port, s.mode, FALSE))
  /\ UNCHANGED <<open, link, slot, up, hw, mishaps, ran, misled, raced>>

(* A poll of the record finds data, or every flag set.                     *)
Found ==
  /\ call.now # None
  /\ \/ /\ call.now.how = "read" /\ cache[call.now.port].data[call.now.mode] # "none"
        /\ call' = [call EXCEPT !.now = None] /\ UNCHANGED <<ran, misled>>
     \/ /\ call.phase = "waiting" /\ call.now.how = "run"
        /\ \A p \in call.now.ports : cache[p].done # "no"
        /\ misled' = (\E p \in call.now.ports : cache[p].done = "old")
        /\ call' = [call EXCEPT !.now = None, !.phase = "ok"] /\ UNCHANGED ran
  /\ UNCHANGED <<open, link, slot, queue, cache, up, hw, mishaps, raced>>

(* A deadline: of a run or a read, which the HAT may let pass.             *)
GiveUp == /\ call' = Failed
          /\ IF call.phase = "waiting" THEN UNCHANGED <<ran, misled>>
             ELSE ran' = FALSE /\ misled' = FALSE
Deadline ==
  /\ call.now # None /\ (link => Mishap) /\ (~link => UNCHANGED mishaps) /\ GiveUp
  /\ UNCHANGED <<open, link, slot, queue, cache, up, hw, raced>>

----------------------------------------------------------------------------
(* The slot.                                                               *)

(* A line.  A device that differs from the one recorded is to be set up.   *)
TakeLine ==
  /\ slot # None /\ link /\ up # <<>>
  /\ up' = Tail(up)
  /\ LET l == Head(up)
     IN CASE l.kind = "data" -> /\ cache' = [cache EXCEPT ![l.port].data[l.mode] = l.type]
                                /\ UNCHANGED slot
          [] l.kind = "done" -> /\ cache' = [cache EXCEPT ![l.port].done = IF l.own THEN "own" ELSE "old"]
                                /\ UNCHANGED slot
          [] l.kind = "device" /\ l.type = "none" ->
                /\ cache' = [cache EXCEPT ![l.port].type = "none", ![l.port].mode = None]
                /\ UNCHANGED slot
          [] OTHER ->
                /\ cache' = [cache EXCEPT ![l.port].type = l.type]
                /\ slot' = IF cache[l.port].type = l.type THEN slot
                           ELSE slot \cup {[port |-> l.port, type |-> l.type]}
  /\ UNCHANGED <<call, open, link, queue, hw, mishaps, ran, misled, raced>>

(* A second after the line: whatever is plugged in by now.                 *)
InitDevice ==
  /\ slot # None
  /\ \E i \in slot :
       /\ slot' = slot \ {i}
       /\ hw' = IF link /\ i.type = "tacho" /\ hw[i.port].type # "none"
                THEN [hw EXCEPT ![i.port].mode = Combi] ELSE hw
       /\ raced' = IF i.type = "tacho" /\ (hw[i.port].type # i.type \/ cache[i.port].mode \notin {None, Combi})
                   THEN raced \cup {i.port} ELSE raced
  /\ UNCHANGED <<call, open, link, queue, cache, up, mishaps, ran, misled>>

(* A command is written; only "set" and "coast" tell whether they were.    *)
Execute ==
  /\ slot # None /\ queue # <<>>
  /\ queue' = Tail(queue)
  /\ LET c == Head(queue)
         asked == c.op \in {"set", "coast"} /\ c.own /\ call.phase = "waiting"
         there == link /\ hw[c.port].type # "none"
     IN /\ call' = IF asked THEN (IF link THEN [call EXCEPT !.phase = "ok", !.now = None] ELSE Failed)
                   ELSE call
        /\ cache' = IF c.op = "run" THEN [cache EXCEPT ![c.port].done = "no"] ELSE cache
        /\ ran' = (ran \/ (c.own /\ link /\ c.op \in {"set", "coast"}))
        /\ hw' = CASE ~there -> hw
                   [] c.op = "set"    -> [hw EXCEPT ![c.port].job = "on"]
                   [] c.op = "coast"  -> [hw EXCEPT ![c.port].job = "idle"]
                   [] c.op = "run"    -> [hw EXCEPT ![c.port].job = IF c.own THEN "own" ELSE "old"]
                   [] c.op = "select" -> [hw EXCEPT ![c.port].mode = c.mode]
                   [] OTHER -> hw
        /\ raced' = IF c.op # "select" THEN raced ELSE IF there THEN raced \ {c.port}
                    ELSE raced \cup {c.port}
  /\ UNCHANGED <<open, link, slot, up, mishaps, misled>>

----------------------------------------------------------------------------
(* The HAT.                                                                *)

JobEnds ==
  /\ link /\ Len(up) < MaxUp
  /\ \E p \in Ports :
       /\ hw[p].job \in {"own", "old"} /\ hw' = [hw EXCEPT ![p].job = "idle"]
       /\ up' = IF open THEN Append(up, [kind |-> "done", port |-> p, own |-> hw[p].job = "own"]) ELSE up
       /\ ran' = (ran \/ (hw[p].job = "own" /\ (\A q \in Ports : hw'[q].job # "own")
                          /\ \A i \in DOMAIN queue : ~queue[i].own))
  /\ UNCHANGED <<call, open, link, slot, queue, cache, mishaps, misled, raced>>

Data ==
  /\ open /\ link /\ Len(up) < MaxUp
  /\ \E p \in Ports :
       /\ hw[p].mode # None /\ \A i \in DOMAIN up : up[i].kind # "data"
       /\ up' = Append(up, [kind |-> "data", port |-> p, mode |-> hw[p].mode, type |-> hw[p].type])
  /\ UNCHANGED <<call, open, link, slot, queue, cache, hw, mishaps, ran, misled, raced>>

(* A device is pulled out or plugged in.                                   *)
Plug ==
  /\ link /\ Mishap /\ Len(up) < MaxUp
  /\ \E p \in Ports, t \in Types :
       /\ (t = "none") # (hw[p].type = "none") /\ hw[p].job # "own"
       /\ hw' = [hw EXCEPT ![p] = [type |-> t, mode |-> None, job |-> "idle"]]
       /\ up' = IF open THEN Append(up, [kind |-> "device", port |-> p, type |-> t]) ELSE up
  /\ UNCHANGED <<call, open, link, slot, queue, cache, ran, misled, raced>>

LinkDrops ==
  /\ link /\ Mishap /\ link' = FALSE /\ up' = <<>> /\ hw' = Older
  /\ UNCHANGED <<call, open, slot, queue, cache, ran, misled, raced>>
LinkReturns ==
  /\ ~link /\ ~open /\ link' = TRUE
  /\ UNCHANGED <<call, open, slot, queue, cache, up, hw, mishaps, ran, misled, raced>>

Lost == ~link /\ Deadline
Tick == TakeLine \/ InitDevice \/ Execute
Next == \/ Connect \/ Disconnect \/ Begin \/ Issue \/ Tell \/ Read \/ Found \/ Deadline
        \/ Tick \/ JobEnds \/ Data \/ Plug \/ LinkDrops \/ LinkReturns

----------------------------------------------------------------------------
(* Once the lines of a port have been taken in and nothing is queued for   *)
(* it, the device recorded is the one plugged in; the mode recorded is the *)
(* one it is in and its data is its own, unless a late initialisation, or  *)
(* the selection of a mode, crossed an exchange of devices                 *)
(* (buildhat_adapter.rs:178, 971).                                         *)
CacheFollowsHub ==
  \A p \in Ports :
    (/\ open /\ link /\ \A i \in DOMAIN up : up[i].port # p
     /\ \A i \in DOMAIN queue : queue[i].port # p)
      => /\ cache[p].type = hw[p].type
         /\ (cache[p].mode # None /\ p \notin raced) =>
              cache[p].mode = hw[p].mode /\ cache[p].data[cache[p].mode] \in {"none", hw[p].type}

(* The call waits for a HAT that is gone.                                  *)
Stranded == call.phase = "waiting" /\ ~link
=============================================================================
