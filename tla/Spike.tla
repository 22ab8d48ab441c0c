------------------------------- MODULE Spike -------------------------------
(***************************************************************************)
(* The SPIKE Prime hub: the adapter's calls and its slot (crates/          *)
(* bricklogo-hal/src/adapters/spike_adapter.rs), the agent program it      *)
(* starts on the hub (crates/rust-spike/src/agent.rs) and the link between *)
(* them.  A call, made under the PortManager mutex, issues its requests    *)
(* one at a time; the slot writes them to the hub and matches the replies  *)
(* by request id; the agent carries them out in order and, beside that,    *)
(* reports every port whose device changed.                                *)
(*                                                                         *)
(* Speeds, angles and the values read are left out.  The devices plugged   *)
(* into the hub, and the link, are external.                               *)
(***************************************************************************)
EXTENDS Integers, FiniteSets, Sequences, SequencesExt

CONSTANTS
  Ports,
  MaxRid,     (* the request ids, 65535 in the code                        *)
  MaxLate,    (* bound on the requests in flight when another is issued    *)
  MaxUp,      (* bound on the frames on their way to the adapter           *)
  MaxMishaps, (* bound on the mishaps: what the environment does           *)
  None

Types == {"none", "absolute", "light"}
Rids  == 1 .. MaxRid
Ops   == {"on", "off", "run", "pwm", "halt", "dark", "time", "turn", "zero", "read", "types"}
(* A request.  "on" and "off" choose their opcode when they are issued;    *)
(* rid is what the wire carries, tag (history) tells requests apart.       *)
Request == [op : Ops, ports : SUBSET Ports, rid : 0 .. MaxRid, tag : 0 .. MaxRid]
Frame   == [kind : {"reply"}, rid : Rids, tag : Rids, ok : BOOLEAN,
            types : [Ports -> Types] \cup {None}]
           \cup [kind : {"event"}, port : Ports, type : Types]
           \cup [kind : {"exit"}]

VARIABLES
  call,     (* the call: its requests to come, and the one it waits for    *)
  open,     (* the adapter holds the slot's channel (tx)                   *)
  slot,     (* None, or whether it lives and the replies it expects        *)
  queue,    (* the channel                                                 *)
  cache,    (* port_types                                                  *)
  down,     (* requests written and not yet carried out                    *)
  up,       (* frames on their way back                                    *)
  agent,    (* the program on the hub: whether it runs, what it awaits,    *)
            (* and what its port watcher saw last                          *)
  plugged,  (* the devices on the ports                                    *)
  power,    (* the ports the hub drives                                    *)
  link,     (* the link to the hub works                                   *)
  stale,    (* the slot has parsed nothing for HEARTBEAT_TIMEOUT           *)
  mishaps,  (* so far                                                      *)
  ran,      (* history: the agent carried out the request issued last      *)
  raced     (* history: ports whose event the snapshot overwrote              *)

vars == <<call, open, slot, queue, cache, down, up, agent, plugged, power, link,
          stale, mishaps, ran, raced>>
hub  == <<agent, plugged, power>>

TypeOK ==
  /\ call \in [phase : {"idle", "waiting", "ok", "failed"}, todo : Seq(Request),
               rid : 0 .. MaxRid, tag : 0 .. MaxRid,
               types : [Ports -> Types] \cup {None}, closing : BOOLEAN]
  /\ open \in BOOLEAN /\ link \in BOOLEAN /\ stale \in BOOLEAN
  /\ slot \in [alive : BOOLEAN, pending : SUBSET [rid : Rids, tag : Rids]] \cup {None}
  /\ queue \in Seq(Request \cup {None})
  /\ cache \in [Ports -> Types \cup {"unknown"}]
  /\ down \in Seq(Request) /\ up \in Seq(Frame)
  /\ agent \in [on : BOOLEAN, busy : Request \cup {None}, seen : [Ports -> Types \cup {None}]]
  /\ plugged \in [Ports -> Types] /\ power \subseteq Ports
  /\ mishaps \in 0 .. MaxMishaps /\ ran \in BOOLEAN /\ raced \subseteq Ports

Req(op, S) == [op |-> op, ports |-> S, rid |-> 0, tag |-> 0]
NoCall     == [phase |-> "idle", todo |-> <<>>, rid |-> 0, tag |-> 0,
               types |-> None, closing |-> FALSE]
NoAgent    == [on |-> FALSE, busy |-> None, seen |-> [p \in Ports |-> None]]
Alive      == slot # None /\ slot.alive
Over       == call.phase # "waiting" /\ call.todo = <<>> /\ ~call.closing

Init ==
  /\ call = NoCall
  /\ open = FALSE /\ slot = None /\ queue = <<>> /\ link = TRUE /\ stale = FALSE
  /\ cache = [p \in Ports |-> "unknown"]
  /\ down = <<>> /\ up = <<>> /\ agent = NoAgent
  /\ plugged \in [Ports -> Types] /\ power = {}
  /\ mishaps = 0 /\ ran = FALSE /\ raced = {}

----------------------------------------------------------------------------
Mishap == mishaps < MaxMishaps /\ mishaps' = mishaps + 1

(* connect, once the agent has said it is ready: a new slot, an empty      *)
(* cache, and the request for the types of all ports.                      *)
Connect ==
  /\ Over /\ ~open /\ link
  /\ open' = TRUE /\ slot' = [alive |-> TRUE, pending |-> {}] /\ stale' = FALSE
  /\ agent' = [NoAgent EXCEPT !.on = TRUE] /\ power' = {}
  /\ queue' = <<>> /\ down' = <<>> /\ up' = <<>>
  /\ cache' = [p \in Ports |-> "unknown"]
  /\ call' = [NoCall EXCEPT !.todo = <<Req("types", Ports)>>]
  /\ ran' = FALSE /\ raced' = {}
  /\ UNCHANGED <<plugged, link, mishaps>>

(* The types in the reply to a connecting caller, stored by that caller.   *)
StoreSnapshot ==
  /\ call.types # None
  /\ cache' = call.types
  /\ raced' = {p \in Ports : cache[p] \notin {"unknown", call.types[p]}}
  /\ call' = [call EXCEPT !.types = None]
  /\ UNCHANGED <<open, slot, queue, down, up, agent, plugged, power, link, stale, mishaps, ran>>

(* validate_output_port, by PortManager, and require_absolute_motor.       *)
IsOutput(p)  == cache[p] # "none"
MayRotate(p) == cache[p] \in {"unknown", "absolute"}
Regulated(p) == cache[p] = "absolute"

InOrder(op, S) == LET s == SetToSeq(S) IN [i \in DOMAIN s |-> Req(op, {s[i]})]

(* The requests a call makes, on the ports S.  start_port and stop_port.    *)
Steady(S) == {InOrder("on", S), InOrder("off", S)}

(* onfor: the hub times it if there is one motor or all are regulated.     *)
Timed(S) ==
  IF (\A p \in S : Regulated(p)) \/ Cardinality(S) = 1
  THEN {<<Req("time", S)>>}
  ELSE {InOrder("on", S) \o InOrder("off", S)}

(* reset_port_zero and the rotations: by an angle, or to a position, which *)
(* first reads where each motor is, then turns those (D) not there yet.    *)
Rotations(S) ==
  {<<Req("turn", S)>>, InOrder("zero", S)}
  \cup {InOrder("read", S) \o (IF D = {} THEN <<>> ELSE <<Req("turn", D)>>) : D \in SUBSET S}

Calls(S) ==
  {<<Req("read", {p})>> : p \in S}
  \cup (IF \A p \in S : IsOutput(p)  THEN Steady(S) \cup Timed(S) ELSE {})
  \cup (IF \A p \in S : MayRotate(p) THEN Rotations(S) ELSE {})

Begin ==
  /\ Over /\ open /\ call.types = None
  /\ \E S \in (SUBSET Ports) \ {{}} : \E c \in Calls(S) : call' = [call EXCEPT !.todo = c]
  /\ UNCHANGED <<open, slot, queue, cache, down, up, hub, link, stale, mishaps, ran, raced>>

(* start_port and stop_port take the motor path for regulated motors.      *)
Opcode(r) == CASE r.op = "on"  -> IF \A p \in r.ports : Regulated(p) THEN "run" ELSE "pwm"
               [] r.op = "off" -> IF \A p \in r.ports : Regulated(p) THEN "halt" ELSE "dark"
               [] OTHER -> r.op

(* Mutants of NextRid: the id runs on past its width; it never advances.   *)
NoWrap(r)  == r + 1
SameRid(r) == 1
NextRid(r) == (r % MaxRid) + 1

InFlight == Cardinality(IF slot = None THEN {} ELSE slot.pending) + Len(queue)

(* begin_request and dispatch.                                             *)
Issue ==
  /\ call.phase # "waiting" /\ call.todo # <<>> /\ call.types = None
  /\ LET r == [Head(call.todo) EXCEPT !.op = Opcode(Head(call.todo)),
                                      !.rid = NextRid(call.rid), !.tag = (call.tag % MaxRid) + 1]
     IN IF Alive
        THEN /\ InFlight <= MaxLate /\ queue' = Append(queue, r)
             /\ call' = [call EXCEPT !.phase = "waiting", !.todo = Tail(@),
                                     !.rid = r.rid, !.tag = r.tag]
        ELSE /\ UNCHANGED queue
             /\ call' = [call EXCEPT !.phase = "failed", !.todo = <<>>]
  /\ ran' = FALSE
  /\ UNCHANGED <<open, slot, cache, down, up, hub, link, stale, mishaps, raced>>

Answered(ok) == [call EXCEPT !.phase = IF ok THEN "ok" ELSE "failed",
                             !.todo = IF ok THEN @ ELSE <<>>]

(* recv_timeout.                                                           *)
TimeOut ==
  /\ call.phase = "waiting" /\ Mishap
  /\ call' = Answered(FALSE)
  /\ UNCHANGED <<open, slot, queue, cache, down, up, hub, link, stale, ran, raced>>

----------------------------------------------------------------------------
(* The slot.                                                               *)

(* The call when the slot lets go of the replies in P and of queue q.      *)
Awaits(P, q) ==
  /\ call.phase = "waiting"
  /\ \/ \E r \in P : r.tag = call.tag
     \/ \E i \in DOMAIN q : q[i] # None /\ q[i].tag = call.tag
Dropping(P, q) == IF Awaits(P, q) THEN Answered(FALSE) ELSE call

(* Mutant of MarkDead: the replies it expects stay pending.                *)
DeadKeepsPending ==
  /\ slot' = [slot EXCEPT !.alive = FALSE]
  /\ UNCHANGED call
MarkDead ==
  /\ slot' = [alive |-> FALSE, pending |-> {}]
  /\ call' = Dropping(slot.pending, <<>>)

(* A read fails, or no frame came for too long.  The age is looked at      *)
(* before the bytes just read are parsed.                                  *)
LoseHub ==
  /\ Alive /\ (~link \/ stale)
  /\ MarkDead
  /\ UNCHANGED <<open, queue, cache, down, up, hub, link, stale, mishaps, ran, raced>>

(* Mutant of TakeReply: the reply is taken for that of the caller.         *)
AnyReply(f) ==
  /\ slot' = [slot EXCEPT !.pending = {r \in @ : r.rid # f.rid}]
  /\ call' = IF call.phase = "waiting" THEN [Answered(f.ok) EXCEPT !.types = f.types]
             ELSE call
(* A reply goes to whoever waits under its rid; a caller that timed out    *)
(* has left its entry behind.                                              *)
TakeReply(f) ==
  LET mine == {r \in slot.pending : r.rid = f.rid}
  IN /\ slot' = [slot EXCEPT !.pending = @ \ mine]
     /\ call' = IF Awaits(mine, <<>>) THEN [Answered(f.ok) EXCEPT !.types = f.types]
                ELSE call

(* Mutant of PortEvent: only ports of unknown type are updated.            *)
FirstEventOnly(f) ==
  /\ cache' = IF cache[f.port] = "unknown" THEN [cache EXCEPT ![f.port] = f.type] ELSE cache
  /\ raced' = raced \ {f.port} /\ UNCHANGED <<slot, call>>
PortEvent(f) ==
  /\ cache' = [cache EXCEPT ![f.port] = f.type]
  /\ raced' = raced \ {f.port} /\ UNCHANGED <<slot, call>>

(* The frames of one tick, one at a time.                                  *)
Receive ==
  /\ slot # None /\ link /\ ~stale /\ up # <<>>
  /\ up' = Tail(up)
  /\ LET f == Head(up)
     IN \/ f.kind = "reply" /\ TakeReply(f) /\ UNCHANGED <<cache, raced>>
        \/ f.kind = "event" /\ PortEvent(f)
        \/ f.kind = "exit" /\ MarkDead /\ UNCHANGED <<cache, raced>>
  /\ UNCHANGED <<open, queue, down, hub, link, stale, mishaps, ran>>

(* The channel is drained in the tick that found the hub gone, too: what   *)
(* is written then is pending in a slot about to be dropped.               *)
Transmit ==
  /\ slot # None /\ queue # <<>> /\ Head(queue) # None
  /\ queue' = Tail(queue)
  /\ LET r == Head(queue)
     IN IF link
        THEN /\ down' = IF agent.on THEN Append(down, r) ELSE down
             /\ slot' = [slot EXCEPT !.pending = @ \cup {[rid |-> r.rid, tag |-> r.tag]}]
             /\ UNCHANGED call
        ELSE /\ call' = Dropping({[rid |-> r.rid, tag |-> r.tag]}, <<>>)
             /\ UNCHANGED <<down, slot>>
  /\ UNCHANGED <<open, cache, up, hub, link, stale, mishaps, ran, raced>>

(* StopAgent: the hub ends the program, and drives nothing any more.       *)
StopAgent ==
  /\ slot # None /\ queue # <<>> /\ Head(queue) = None
  /\ queue' = Tail(queue)
  /\ IF link THEN agent' = NoAgent /\ power' = {} /\ down' = <<>>
             ELSE UNCHANGED <<agent, power, down>>
  /\ MarkDead
  /\ UNCHANGED <<open, cache, up, plugged, link, stale, mishaps, ran, raced>>

(* Mutant of Reap: the scheduler keeps the dead slot.                      *)
KeepDead == FALSE /\ UNCHANGED vars
(* The scheduler drops a dead slot, and the channel with it.               *)
Reap ==
  /\ slot # None /\ ~slot.alive
  /\ slot' = None /\ queue' = <<>>
  /\ call' = Dropping(slot.pending, queue)
  /\ UNCHANGED <<open, cache, down, up, hub, link, stale, mishaps, ran, raced>>

(* disconnect: ask for the stop, wait a little, and drop the slot and,     *)
(* with the device, the adapter.                                           *)
Disconnect ==
  /\ Over /\ open /\ call.types = None
  /\ call' = [call EXCEPT !.closing = TRUE]
  /\ queue' = IF slot = None THEN queue ELSE Append(queue, None)
  /\ UNCHANGED <<open, slot, cache, down, up, hub, link, stale, mishaps, ran, raced>>

Close ==
  /\ call.closing
  /\ call' = NoCall /\ ran' = FALSE
  /\ open' = FALSE /\ slot' = None /\ queue' = <<>> /\ up' = <<>> /\ stale' = FALSE
  /\ cache' = [p \in Ports |-> "unknown"] /\ raced' = {}
  /\ UNCHANGED <<down, hub, link, mishaps>>

----------------------------------------------------------------------------
(* The agent.                                                              *)

Accepts(r) ==
  \A p \in r.ports : \/ r.op = "types"
                     \/ plugged[p] = "absolute"
                     \/ plugged[p] = "light" /\ r.op \in {"pwm", "dark", "read"}

Reply(r, ok) == [kind |-> "reply", rid |-> r.rid, tag |-> r.tag, ok |-> ok,
                 types |-> IF r.op = "types" THEN plugged ELSE None]
Ran(r) == ran' = (ran \/ r.tag = call.tag)

(* _main takes the next command and _exec carries it out; a timed run or a *)
(* rotation is awaited.  A parallel timed run that fails has started some  *)
(* of its motors, and does not stop them.                                  *)
Execute ==
  /\ agent.on /\ agent.busy = None /\ down # <<>> /\ Len(up) < MaxUp
  /\ down' = Tail(down)
  /\ LET r == Head(down)
     IN \/ /\ Accepts(r) /\ r.op \in {"time", "turn"}
           /\ agent' = [agent EXCEPT !.busy = r] /\ power' = power \cup r.ports
           /\ UNCHANGED <<up, ran>>
        \/ /\ Accepts(r) /\ r.op \notin {"time", "turn"}
           /\ up' = Append(up, Reply(r, TRUE)) /\ Ran(r)
           /\ power' = CASE r.op \in {"run", "pwm"}   -> power \cup r.ports
                         [] r.op \in {"halt", "dark"} -> power \ r.ports
                         [] OTHER -> power
           /\ UNCHANGED agent
        \/ /\ ~Accepts(r)
           /\ up' = Append(up, Reply(r, FALSE)) /\ UNCHANGED <<agent, ran>>
           /\ \E X \in SUBSET {p \in r.ports : plugged[p] = "absolute"} :
                power' = IF r.op = "time" THEN power \cup X ELSE power
  /\ UNCHANGED <<call, open, slot, queue, cache, plugged, link, stale, mishaps, raced>>

Finish ==
  /\ agent.on /\ agent.busy # None /\ Len(up) < MaxUp
  /\ agent' = [agent EXCEPT !.busy = None]
  /\ power' = power \ agent.busy.ports
  /\ up' = Append(up, Reply(agent.busy, TRUE)) /\ Ran(agent.busy)
  /\ UNCHANGED <<call, open, slot, queue, cache, down, plugged, link, stale, mishaps, raced>>

(* _port_watcher: an event for every port that changed since the last poll.*)
Poll ==
  LET new == {p \in Ports : agent.seen[p] # plugged[p]}
      s   == SetToSeq(new)
  IN /\ agent.on /\ new # {} /\ Len(up) + Len(s) <= MaxUp
     /\ up' = up \o [i \in DOMAIN s |-> [kind |-> "event", port |-> s[i], type |-> plugged[s[i]]]]
     /\ agent' = [agent EXCEPT !.seen = plugged]
     /\ UNCHANGED <<call, open, slot, queue, cache, down, plugged, power, link, stale,
                    mishaps, ran, raced>>

(* The user stops the program on the hub.                                  *)
AgentExits ==
  /\ agent.on /\ Len(up) < MaxUp /\ Mishap
  /\ agent' = NoAgent /\ power' = {} /\ down' = <<>>
  /\ up' = Append(up, [kind |-> "exit"])
  /\ UNCHANGED <<call, open, slot, queue, cache, plugged, link, stale, ran, raced>>

----------------------------------------------------------------------------
(* The environment.                                                        *)

Plug ==
  /\ Mishap
  /\ \E p \in Ports, t \in Types :
       plugged' = [plugged EXCEPT ![p] = t] /\ power' = power \ {p}
  /\ UNCHANGED <<call, open, slot, queue, cache, down, up, agent, link, stale, ran, raced>>

LinkDrops ==
  /\ link /\ Mishap /\ link' = FALSE /\ up' = <<>> /\ down' = <<>>
  /\ UNCHANGED <<call, open, slot, queue, cache, hub, stale, ran, raced>>

LinkReturns ==
  /\ ~link /\ ~open /\ link' = TRUE
  /\ UNCHANGED <<call, open, slot, queue, cache, down, up, hub, stale, mishaps, ran, raced>>

(* Five seconds without a frame: the agent is gone.                        *)
Silence ==
  /\ slot # None /\ ~stale /\ up = <<>> /\ ~agent.on
  /\ stale' = TRUE
  /\ UNCHANGED <<call, open, slot, queue, cache, down, up, hub, link, mishaps, ran, raced>>

(* Five seconds without a tick: the scheduler thread is held up elsewhere. *)
Stall ==
  /\ slot # None /\ ~stale /\ Mishap /\ stale' = TRUE
  /\ UNCHANGED <<call, open, slot, queue, cache, down, up, hub, link, ran, raced>>

Tick == LoseHub \/ Receive \/ Transmit \/ StopAgent \/ Reap
Next == \/ Connect \/ StoreSnapshot \/ Begin \/ Issue \/ TimeOut \/ Disconnect \/ Close
        \/ Tick
        \/ Execute \/ Finish \/ Poll \/ AgentExits
        \/ Plug \/ LinkDrops \/ LinkReturns \/ Silence \/ Stall


----------------------------------------------------------------------------
(* The cache of port types agrees with the hub once the agent has reported *)
(* what it sees and the slot has taken it in, except on a port whose event *)
(* the connect-time snapshot overwrote (spike_adapter.rs:722).             *)
CacheFollowsHub ==
  (/\ Alive /\ link /\ agent.on /\ agent.seen = plugged /\ up = <<>> /\ call.types = None)
    => \A p \in Ports \ raced : cache[p] = plugged[p]

(* The call waits for a hub that is gone.  It is told, and need not wait   *)
(* for its timeout.                                                        *)
Stranded == call.phase = "waiting" /\ (~agent.on \/ ~link)
=============================================================================
