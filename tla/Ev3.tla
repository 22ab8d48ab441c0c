--------------------------------- MODULE Ev3 ---------------------------------
(***************************************************************************)
(* The EV3 brick: the adapter's calls and its slot (crates/bricklogo-hal/  *)
(* src/adapters/ev3_adapter.rs) and the numbered requests of crates/       *)
(* rust-ev3/src/ev3.rs.  Motor commands ask for no reply; a rotation or a  *)
(* timed run is over when the brick, asked again and again, says that none *)
(* of its motors is busy.  A reply that came too late for its request is   *)
(* told by its counter and skipped.                                        *)
(*                                                                         *)
(* One sensor port stands for the four; Modes are the types of sensors.    *)
(* Powers, angles and readings are left out.  The brick is external.       *)
(***************************************************************************)
EXTENDS Integers, FiniteSets, Sequences, SequencesExt

CONSTANTS
  Ports, Modes,
  MaxRid,      (* the counters, 65535 in the code                          *)
  MaxLate,     (* bound on the commands under way when another is issued   *)
  MaxMishaps,  (* bound on what the environment does                       *)
  None

Asks    == {"count", "type", "read"}
Ops     == {"on", "off", "step", "zero"} \cup Asks
(* "step" stands for the timed runs, too.                                  *)
Command == [op : Ops, ports : SUBSET Ports, own : BOOLEAN]
(* A request, of a command or about the motors of a run (busy).            *)
Request == [op : Asks \cup {"busy"}, ports : SUBSET Ports, own : BOOLEAN, rid : 1 .. MaxRid]
Answers == BOOLEAN \cup Modes \cup {None}
(* Of a port: none, until told otherwise, a run, of the last command or of *)
(* an older one.                                                           *)
Jobs    == {"idle", "on", "own", "old"}

VARIABLES
  call,     (* phase, the commands to come, the one that is waited for     *)
  open,     (* the adapter holds the slot's channel                        *)
  link,     (* the transport works                                         *)
  slot,     (* None, or its runs, the request it waits in, the counter     *)
  queue,    (* the channel                                                 *)
  cache,    (* sensor_types                                                *)
  down,     (* requests the brick has not answered                         *)
  up,       (* replies under way                                           *)
  hw,       (* the brick: what its motors do, the sensor plugged in        *)
  mishaps,
  ran,      (* history: the brick carried out the command issued last      *)
  stale     (* history: the sensor was exchanged since the brick was asked *)

vars == <<call, open, link, slot, queue, cache, down, up, hw, mishaps, ran, stale>>
brick == <<down, up, hw, stale>>

TypeOK ==
  /\ call \in [phase : {"idle", "waiting", "ok", "failed"}, todo : Seq(Command),
               now : Command \cup {None}, closing : BOOLEAN]
  /\ open \in BOOLEAN /\ link \in BOOLEAN
  /\ slot \in [runs : SUBSET [ports : SUBSET Ports, own : BOOLEAN],
               asking : Request \cup {None}, rid : 0 .. MaxRid] \cup {None}
  /\ queue \in Seq(Command) /\ cache \in Modes \cup {None}
  /\ down \in Seq(Request) /\ up \in Seq([rid : 1 .. MaxRid, answer : Answers])
  /\ hw \in [job : [Ports -> Jobs], sensor : Modes \cup {None}]
  /\ mishaps \in 0 .. MaxMishaps /\ ran \in BOOLEAN /\ stale \in BOOLEAN

NoCall == [phase |-> "idle", todo |-> <<>>, now |-> None, closing |-> FALSE]
Over   == call.phase # "waiting" /\ call.todo = <<>> /\ ~call.closing
Mishap == mishaps < MaxMishaps /\ mishaps' = mishaps + 1

Init ==
  /\ call = NoCall /\ open = FALSE /\ link = TRUE /\ slot = None /\ queue = <<>>
  /\ cache = None /\ down = <<>> /\ up = <<>>
  /\ \E t \in Modes \cup {None} : hw = [job |-> [p \in Ports |-> "idle"], sensor |-> t]
  /\ mishaps = 0 /\ ran = FALSE /\ stale = FALSE

Connect ==
  /\ Over /\ ~open /\ link
  /\ open' = TRUE /\ slot' = [runs |-> {}, asking |-> None, rid |-> 0] /\ queue' = <<>>
  /\ call' = NoCall /\ ran' = FALSE
  /\ UNCHANGED <<link, cache, brick, mishaps>>

Older == [hw EXCEPT !.job = [p \in Ports |-> IF @[p] = "own" THEN "old" ELSE @[p]]]

(* disconnect queues a stop and drops the slot, which sends it only if a   *)
(* tick comes in between.                                                  *)
Cmd(op, S) == <<[op |-> op, ports |-> S, own |-> FALSE]>>
Disconnect ==
  /\ Over /\ open
  /\ queue' = queue \o Cmd("off", Ports) /\ call' = [call EXCEPT !.closing = TRUE]
  /\ UNCHANGED <<open, link, slot, cache, brick, mishaps, ran>>
Close ==
  /\ call.closing /\ slot.asking = None
  /\ call' = NoCall /\ open' = FALSE /\ slot' = None /\ queue' = <<>> /\ cache' = None
  /\ down' = <<>> /\ up' = <<>> /\ hw' = Older /\ ran' = FALSE
  /\ UNCHANGED <<link, mishaps, stale>>

----------------------------------------------------------------------------
(* The calls.  Motors of one signed power share a message.                 *)
Each(op, S) == LET s == SetToSeq(S)
               IN [i \in DOMAIN s |-> [op |-> op, ports |-> {s[i]}, own |-> FALSE]]
(* rotate_ports_to_position: the motors in D are not there yet.            *)
RotateTo(S) == {Each("count", S) \o (IF D = {} THEN <<>> ELSE Cmd("step", D)) : D \in SUBSET S}
(* read_sensor: the type is asked for once.                                *)
ReadSensor  == (IF cache = None THEN Cmd("type", {}) ELSE <<>>) \o Cmd("read", {})
Programs(S) == {Cmd("on", S), Each("on", S), Cmd("off", S), Each("zero", S), Each("count", S),
                Cmd("step", S), ReadSensor} \cup RotateTo(S)

Begin ==
  /\ Over /\ open
  /\ \E S \in (SUBSET Ports) \ {{}} : \E t \in Programs(S) : call' = [call EXCEPT !.todo = t]
  /\ UNCHANGED <<open, link, slot, queue, cache, brick, mishaps, ran>>

Disown(c) == [c EXCEPT !.own = FALSE]
(* send_and_wait.                                                          *)
Issue ==
  /\ call.phase # "waiting" /\ call.todo # <<>>
  /\ Len(queue) + Cardinality(slot.runs) <= MaxLate
  /\ call' = [call EXCEPT !.phase = "waiting", !.todo = Tail(@), !.now = Head(call.todo)]
  /\ queue' = Append([i \in DOMAIN queue |-> Disown(queue[i])], [Head(call.todo) EXCEPT !.own = TRUE])
  /\ slot' = [slot EXCEPT !.runs = {Disown(e) : e \in @},
                          !.asking = IF @ = None THEN None ELSE Disown(@)]
  /\ down' = [i \in DOMAIN down |-> Disown(down[i])]
  /\ hw' = Older /\ ran' = FALSE
  /\ UNCHANGED <<open, link, cache, up, mishaps, stale>>

(* The answer to the caller, if it still waits for it; the caller keeps    *)
(* the type, unless there is no sensor.                                    *)
Answer(own, ok, t) ==
  IF own /\ call.phase = "waiting"
  THEN LET good == ok /\ ~(call.now.op = "type" /\ t = None)
       IN /\ call' = IF good THEN [call EXCEPT !.phase = "ok", !.now = None]
                     ELSE [call EXCEPT !.phase = "failed", !.now = None, !.todo = <<>>]
          /\ cache' = IF good /\ call.now.op = "type" THEN t ELSE cache
  ELSE UNCHANGED <<call, cache>>

TimeOut ==
  /\ call.phase = "waiting" /\ Mishap
  /\ call' = [call EXCEPT !.phase = "failed", !.now = None, !.todo = <<>>]
  /\ UNCHANGED <<open, link, slot, queue, cache, brick, ran>>

----------------------------------------------------------------------------
(* The slot.                                                               *)

NextCounter == (slot.rid % MaxRid) + 1
Ask(op, S, own) == [op |-> op, ports |-> S, own |-> own, rid |-> NextCounter]
Send(r) == /\ slot' = [slot EXCEPT !.asking = r, !.rid = r.rid]
           /\ down' = Append(down, r)

(* A command is written; one that asks keeps the slot until the reply.     *)
Execute ==
  /\ slot # None /\ slot.asking = None /\ queue # <<>>
  /\ queue' = Tail(queue)
  /\ LET c == Head(queue)
     IN \/ /\ ~link /\ Answer(c.own, FALSE, None) /\ UNCHANGED <<slot, brick, ran>>
        \/ /\ link /\ c.op \in Asks /\ Send(Ask(c.op, c.ports, c.own))
           /\ UNCHANGED <<call, cache, up, hw, ran, stale>>
        \/ /\ link /\ c.op = "step"
           /\ slot' = [slot EXCEPT !.runs = @ \cup {[ports |-> c.ports, own |-> c.own]}]
           /\ hw' = [hw EXCEPT !.job = [p \in Ports |-> IF p \notin c.ports THEN @[p]
                                          ELSE IF c.own THEN "own" ELSE "old"]]
           /\ UNCHANGED <<call, cache, down, up, ran, stale>>
        \/ /\ link /\ c.op \in {"on", "off", "zero"}
           /\ hw' = [hw EXCEPT !.job = [p \in Ports |-> IF p \in c.ports /\ c.op = "on" THEN "on"
                                          ELSE IF p \in c.ports /\ c.op = "off" THEN "idle" ELSE @[p]]]
           /\ ran' = (ran \/ c.own) /\ Answer(c.own, TRUE, None)
           /\ UNCHANGED <<slot, down, up, stale>>
  /\ UNCHANGED <<open, link, mishaps>>

(* test_busy of a run.                                                     *)
AskBusy ==
  /\ slot # None /\ slot.asking = None
  /\ \E e \in slot.runs :
       IF link THEN Send(Ask("busy", e.ports, e.own)) /\ UNCHANGED <<call, cache>>
       ELSE /\ slot' = [slot EXCEPT !.runs = @ \ {e}] /\ Answer(e.own, FALSE, None)
            /\ UNCHANGED down
  /\ UNCHANGED <<open, link, queue, up, hw, mishaps, ran, stale>>

(* The request is over: a run goes on while the brick is busy with it.     *)
Return(r, ok, a) ==
  LET e == [ports |-> r.ports, own |-> r.own]
      on == r.op = "busy" /\ ok /\ a = TRUE
  IN /\ slot' = [slot EXCEPT !.asking = None,
                             !.runs = IF r.op = "busy" /\ ~on THEN @ \ {e} ELSE @]
     /\ Answer(r.own /\ ~on, ok, IF r.op = "type" THEN a ELSE None)

(* Mutant of Mine: the counter is not looked at.                           *)
AnyReply(f) == TRUE
Mine(f) == f.rid = slot.asking.rid
(* One round of request's loop.                                            *)
Receive ==
  /\ slot # None /\ slot.asking # None /\ up # <<>>
  /\ up' = Tail(up)
  /\ IF Mine(Head(up)) THEN Return(slot.asking, TRUE, Head(up).answer)
     ELSE UNCHANGED <<slot, call, cache>>
  /\ UNCHANGED <<open, link, queue, down, hw, mishaps, ran, stale>>

(* No reply within half a second, or the transport is gone.                *)
NoReply ==
  /\ slot # None /\ slot.asking # None
  /\ \/ ~link /\ up = <<>> /\ UNCHANGED mishaps
     \/ link /\ Mishap
  /\ Return(slot.asking, FALSE, None)
  /\ UNCHANGED <<open, link, queue, brick, ran>>

----------------------------------------------------------------------------
(* The brick.                                                              *)

Reply ==
  /\ link /\ down # <<>>
  /\ LET r == Head(down)
         busy == \E p \in r.ports : hw.job[p] \in {"own", "old"}
     IN /\ up' = Append(up, [rid |-> r.rid, answer |-> CASE r.op = "busy" -> busy
                                                         [] r.op = "type" -> hw.sensor
                                                         [] OTHER -> None])
        /\ ran' = (ran \/ (r.own /\ r.op \in Asks))
        /\ stale' = IF r.op = "type" /\ r.own THEN FALSE ELSE stale
  /\ down' = Tail(down)
  /\ UNCHANGED <<call, open, link, slot, queue, cache, hw, mishaps>>

JobEnds ==
  /\ \E p \in Ports :
       /\ hw.job[p] \in {"own", "old"} /\ hw' = [hw EXCEPT !.job[p] = "idle"]
       /\ ran' = (ran \/ (hw.job[p] = "own" /\ \A q \in Ports : hw'.job[q] # "own"))
  /\ UNCHANGED <<call, open, link, slot, queue, cache, down, up, mishaps, stale>>

Plug ==
  /\ Mishap
  /\ \E t \in (Modes \cup {None}) \ {hw.sensor} : hw' = [hw EXCEPT !.sensor = t]
  /\ stale' = TRUE
  /\ UNCHANGED <<call, open, link, slot, queue, cache, down, up, ran>>

LinkDrops ==
  /\ link /\ Mishap /\ link' = FALSE /\ down' = <<>> /\ up' = <<>>
  /\ UNCHANGED <<call, open, slot, queue, cache, hw, ran, stale>>
LinkReturns ==
  /\ ~link /\ ~open /\ link' = TRUE
  /\ UNCHANGED <<call, open, slot, queue, cache, brick, mishaps, ran>>

Tick == Execute \/ AskBusy \/ Receive \/ NoReply
Runs == Execute \/ AskBusy \/ Receive \/ (~link /\ NoReply)
Next == \/ Connect \/ Disconnect \/ Close \/ Begin \/ Issue \/ TimeOut \/ Tick
        \/ Reply \/ JobEnds \/ Plug \/ LinkDrops \/ LinkReturns
Spec == Init /\ [][Next]_vars

----------------------------------------------------------------------------
(* The type remembered for a sensor port is that of the sensor plugged in, *)
(* unless the sensor was exchanged since: nothing asks again               *)
(* (ev3_adapter.rs:266).                                                   *)
CacheFollowsHub == (open /\ cache # None /\ ~stale) => cache = hw.sensor

(* The call waits for a brick that is gone.                                *)
Stranded == call.phase = "waiting" /\ ~link
=============================================================================
