--------------------------------- MODULE Nxt ---------------------------------
(***************************************************************************)
(* The NXT brick: the adapter's calls and its slot (crates/bricklogo-hal/  *)
(* src/adapters/nxt_adapter.rs).  A call queues commands for the slot and  *)
(* waits for the answer, or not, to all of a batch but its last.  The slot *)
(* does a round trip on the transport for each; a rotation or a timed run  *)
(* is started without an end on the brick, and the slot brakes the motor   *)
(* itself, once the tacho count or the clock says so.                      *)
(*                                                                         *)
(* One sensor port stands for the four, which share nothing.  Speeds,      *)
(* counts and sensor values are left out.  The brick is external.          *)
(***************************************************************************)
EXTENDS Integers, FiniteSets, Sequences, SequencesExt

CONSTANTS
  Ports,       (* the motors                                               *)
  Modes,       (* of the sensor                                            *)
  MaxLate,     (* bound on the commands under way when another is issued   *)
  MaxMishaps,  (* bound on what the environment does                       *)
  None

Ops     == {"on", "off", "step", "time", "zero", "count", "mode", "read"}
(* wait: the call waits for the answer; own: it is of the call's command.  *)
Command == [op : Ops, ports : SUBSET Ports, mode : Modes \cup {None}, wait : BOOLEAN,
            own : BOOLEAN]
(* PendingStep and PendingTime: the motors yet to be braked; astray: a     *)
(* brake of it that was sent did not reach the brick.                      *)
Pending == [op : {"step", "time"}, left : SUBSET Ports, own : BOOLEAN, astray : BOOLEAN]

VARIABLES
  call,     (* phase, the commands to come, the mode being set             *)
  open,     (* the adapter holds the slot's channel                        *)
  link,     (* the transport works                                         *)
  slot,     (* None, or whether it is alive and its pending runs           *)
  queue,    (* the channel                                                 *)
  cache,    (* sensor_modes                                                *)
  hw,       (* the brick: the motors it drives, its sensor's mode          *)
  mishaps,
  ran,      (* history: the brick carried out the command issued last      *)
  misled,   (* history: a rotation or a timed run was said to be over when *)
            (* the brick could not be told to brake                        *)
  raced     (* history: a mode nobody waited for any more was set          *)

vars == <<call, open, link, slot, queue, cache, hw, mishaps, ran, misled, raced>>

TypeOK ==
  /\ call \in [phase : {"idle", "waiting", "ok", "failed"}, todo : Seq(Command),
               now : Command \cup {None}, closing : BOOLEAN]
  /\ open \in BOOLEAN /\ link \in BOOLEAN
  /\ slot \in [alive : BOOLEAN, pending : SUBSET Pending] \cup {None}
  /\ queue \in Seq(Command) /\ cache \in Modes \cup {None}
  /\ hw \in [drives : SUBSET Ports, mode : Modes \cup {None}]
  /\ mishaps \in 0 .. MaxMishaps /\ ran \in BOOLEAN /\ misled \in BOOLEAN /\ raced \in BOOLEAN

NoCall == [phase |-> "idle", todo |-> <<>>, now |-> None, closing |-> FALSE]
Over   == call.phase # "waiting" /\ call.todo = <<>> /\ ~call.closing
Mishap == mishaps < MaxMishaps /\ mishaps' = mishaps + 1

Init ==
  /\ call = NoCall /\ open = FALSE /\ link = TRUE /\ slot = None /\ queue = <<>>
  /\ cache = None /\ hw = [drives |-> {}, mode |-> None]
  /\ mishaps = 0 /\ ran = FALSE /\ misled = FALSE /\ raced = FALSE

Connect ==
  /\ Over /\ ~open /\ link
  /\ open' = TRUE /\ slot' = [alive |-> TRUE, pending |-> {}] /\ queue' = <<>>
  /\ call' = NoCall /\ ran' = FALSE /\ misled' = FALSE /\ raced' = FALSE
  /\ UNCHANGED <<link, cache, hw, mishaps>>

(* disconnect queues the stops and drops the slot at once: they are sent   *)
(* only if a tick comes in between.                                        *)
Cmd(op, S, w) == [op |-> op, ports |-> S, mode |-> None, wait |-> w, own |-> FALSE]
Stops == LET s == SetToSeq(Ports) IN [i \in DOMAIN s |-> Cmd("off", {s[i]}, FALSE)]
Disconnect ==
  /\ Over /\ open
  /\ queue' = IF slot = None THEN queue ELSE queue \o Stops
  /\ call' = [call EXCEPT !.closing = TRUE]
  /\ UNCHANGED <<open, link, slot, cache, hw, mishaps, ran, misled, raced>>
Close ==
  /\ call.closing
  /\ call' = NoCall /\ open' = FALSE /\ slot' = None /\ queue' = <<>> /\ cache' = None
  /\ ran' = FALSE /\ misled' = FALSE /\ raced' = FALSE
  /\ UNCHANGED <<link, hw, mishaps>>

----------------------------------------------------------------------------
(* The calls.  A batch of starts or stops waits for its last only.         *)
Batch(op, S) == LET s == SetToSeq(S)
                IN [i \in DOMAIN s |-> Cmd(op, {s[i]}, i = Len(s))]
Each(op, S)  == LET s == SetToSeq(S) IN [i \in DOMAIN s |-> Cmd(op, {s[i]}, TRUE)]
(* rotate_ports_to_position: the motors in D are not there yet.            *)
RotateTo(S)  == {Each("count", S) \o (IF D = {} THEN <<>> ELSE <<Cmd("step", D, TRUE)>>)
                   : D \in SUBSET S}
ReadSensor(m) == (IF cache # m THEN <<[Cmd("mode", {}, TRUE) EXCEPT !.mode = m]>> ELSE <<>>)
                 \o <<[Cmd("read", {}, TRUE) EXCEPT !.mode = m]>>
Programs(S) == {Batch("on", S), Batch("off", S), Each("zero", S), Each("count", S),
                <<Cmd("step", S, TRUE)>>, <<Cmd("time", S, TRUE)>>}
               \cup RotateTo(S) \cup {ReadSensor(m) : m \in Modes}

Begin ==
  /\ Over /\ open
  /\ \E S \in (SUBSET Ports) \ {{}} : \E t \in Programs(S) : call' = [call EXCEPT !.todo = t]
  /\ UNCHANGED <<open, link, slot, queue, cache, hw, mishaps, ran, misled, raced>>

Disown(c) == [c EXCEPT !.own = FALSE]
(* send, or send_and_wait.                                                 *)
Issue ==
  /\ call.phase # "waiting" /\ call.todo # <<>>
  /\ LET c == Head(call.todo)
     IN /\ IF slot = None
           THEN /\ call' = [call EXCEPT !.phase = "failed", !.todo = <<>>]
                /\ ran' = FALSE /\ misled' = FALSE /\ UNCHANGED <<slot, queue>>
           ELSE /\ Len(queue) + Cardinality(slot.pending) <= MaxLate
                /\ IF c.wait
                   THEN /\ call' = [call EXCEPT !.phase = "waiting", !.todo = Tail(@), !.now = c]
                        /\ ran' = FALSE /\ misled' = FALSE
                        /\ slot' = [slot EXCEPT !.pending = {Disown(e) : e \in @}]
                        /\ queue' = Append([i \in DOMAIN queue |-> Disown(queue[i])],
                                           [c EXCEPT !.own = TRUE])
                   ELSE /\ call' = [call EXCEPT !.todo = Tail(@)] /\ queue' = Append(queue, c)
                        /\ UNCHANGED <<slot, ran, misled>>
  /\ UNCHANGED <<open, link, cache, hw, mishaps, raced>>

(* Mutant of Answer: the mode is remembered though the brick refused it.   *)
RememberAnyway(own, ok) ==
  IF own /\ call.phase = "waiting"
  THEN /\ call' = IF ok THEN [call EXCEPT !.phase = "ok", !.now = None]
                  ELSE [call EXCEPT !.phase = "failed", !.now = None, !.todo = <<>>]
       /\ cache' = IF call.now.op = "mode" THEN call.now.mode ELSE cache
  ELSE UNCHANGED <<call, cache>>
(* The answer to c, if the caller still waits for it; a mode that was set  *)
(* is remembered by the caller.                                            *)
Answer(own, ok) ==
  IF own /\ call.phase = "waiting"
  THEN /\ call' = IF ok THEN [call EXCEPT !.phase = "ok", !.now = None]
                  ELSE [call EXCEPT !.phase = "failed", !.now = None, !.todo = <<>>]
       /\ cache' = IF ok /\ call.now.op = "mode" THEN call.now.mode ELSE cache
  ELSE UNCHANGED <<call, cache>>

TimeOut ==
  /\ call.phase = "waiting" /\ Mishap
  /\ call' = [call EXCEPT !.phase = "failed", !.now = None, !.todo = <<>>]
  /\ UNCHANGED <<open, link, slot, queue, cache, hw, ran, misled, raced>>

----------------------------------------------------------------------------
(* The slot.                                                               *)

(* Mutant of FailTransport: the pending runs are not told.                 *)
KeepPending(X) == slot' = [slot EXCEPT !.alive = FALSE] /\ UNCHANGED <<call, cache>>
(* fail_transport, X being told of the error as well: a second failure     *)
(* finds nothing left to do.                                               *)
FailTransport(X) ==
  /\ slot' = [alive |-> FALSE, pending |-> IF slot.alive THEN {} ELSE slot.pending \ X]
  /\ Answer(\E e \in X \cup (IF slot.alive THEN slot.pending ELSE {}) : e.own, FALSE)

Starts(c) == c.op \in {"step", "time"}
(* One command.  The brick may refuse it.                                  *)
Execute ==
  /\ slot # None /\ queue # <<>>
  /\ queue' = Tail(queue)
  /\ LET c == Head(queue)
     IN \/ /\ ~link /\ FailTransport({c}) /\ UNCHANGED <<hw, mishaps, ran, raced>>
        \/ /\ link /\ ~Starts(c)
           /\ hw' = CASE c.op = "on"   -> [hw EXCEPT !.drives = @ \cup c.ports]
                      [] c.op = "off"  -> [hw EXCEPT !.drives = @ \ c.ports]
                      [] c.op = "mode" -> [hw EXCEPT !.mode = c.mode]
                      [] OTHER -> hw
           /\ raced' = IF c.op # "mode" THEN raced ELSE ~(c.own /\ call.phase = "waiting")
           /\ ran' = (ran \/ c.own)
           /\ Answer(c.own, TRUE) /\ UNCHANGED <<slot, mishaps>>
        \/ /\ link /\ Starts(c)
           /\ hw' = [hw EXCEPT !.drives = @ \cup c.ports]
           /\ slot' = [slot EXCEPT !.pending =
                         @ \cup {[op |-> c.op, left |-> c.ports, own |-> c.own, astray |-> FALSE]}]
           /\ UNCHANGED <<call, cache, mishaps, ran, raced>>
        \/ /\ link /\ c.op # "time" /\ Mishap /\ Answer(c.own, FALSE) /\ UNCHANGED <<slot, hw, ran, raced>>
  /\ UNCHANGED <<open, link, misled>>

(* Brakes are sent to the motors S, without a reply, and whether they went *)
(* out is not looked at: those of the motors in stopped arrive.            *)
Brake(S, stopped) ==
  /\ hw' = [hw EXCEPT !.drives = @ \ stopped]
  /\ \/ link /\ stopped = S /\ UNCHANGED <<link, mishaps>>
     \/ link /\ stopped # S /\ Mishap /\ link' \in BOOLEAN
     \/ ~link /\ stopped = {} /\ UNCHANGED <<link, mishaps>>

(* The caller is told Ok all the same.                                     *)
Finish(e, astray) ==
  /\ slot' = [slot EXCEPT !.pending = @ \ {e}]
  /\ ran' = (ran \/ (e.own /\ ~astray)) /\ misled' = (misled \/ (e.own /\ astray))
  /\ Answer(e.own, TRUE)

(* A rotation's motor is polled, and braked if it has gone far enough.  A  *)
(* refused poll drops the rotation, and the motor stays on.                *)
PollStep ==
  /\ slot # None
  /\ \E e \in slot.pending :
       /\ e.op = "step"
       /\ \/ /\ ~link /\ FailTransport({e}) /\ UNCHANGED <<link, hw, mishaps, ran, misled>>
          \/ \E p \in e.left : \E stopped \in SUBSET {p} :
               LET astray == e.astray \/ stopped = {}
                   rest   == [e EXCEPT !.left = @ \ {p}, !.astray = astray]
               IN /\ link /\ Brake({p}, stopped)
                  /\ \/ e.left = {p} /\ Finish(e, astray)
                     \/ /\ e.left # {p}
                        /\ slot' = [slot EXCEPT !.pending = (@ \ {e}) \cup {rest}]
                        /\ UNCHANGED <<call, cache, ran, misled>>
          \/ /\ link /\ Mishap
             /\ slot' = [slot EXCEPT !.pending = @ \ {e}] /\ Answer(e.own, FALSE)
             /\ UNCHANGED <<link, hw, ran, misled>>
  /\ UNCHANGED <<open, queue, raced>>

(* A timed run's deadline.                                                 *)
EndTime ==
  /\ slot # None
  /\ \E e \in slot.pending : \E stopped \in SUBSET e.left :
       /\ e.op = "time"
       /\ Brake(e.left, stopped) /\ Finish(e, stopped # e.left)
  /\ UNCHANGED <<open, queue, raced>>

(* The scheduler drops the dead slot, and with it the channel.             *)
Reap ==
  /\ slot # None /\ ~slot.alive
  /\ slot' = None /\ queue' = <<>>
  /\ Answer((\E e \in slot.pending : e.own) \/ (\E i \in DOMAIN queue : queue[i].own), FALSE)
  /\ UNCHANGED <<open, link, hw, mishaps, ran, misled, raced>>

LinkDrops ==
  /\ link /\ Mishap /\ link' = FALSE
  /\ UNCHANGED <<call, open, slot, queue, cache, hw, ran, misled, raced>>
LinkReturns ==
  /\ ~link /\ ~open /\ link' = TRUE
  /\ UNCHANGED <<call, open, slot, queue, cache, hw, mishaps, ran, misled, raced>>

Tick == Execute \/ PollStep \/ EndTime \/ Reap
Next == \/ Connect \/ Disconnect \/ Close \/ Begin \/ Issue \/ TimeOut
        \/ Tick \/ LinkDrops \/ LinkReturns
Spec == Init /\ [][Next]_vars

----------------------------------------------------------------------------
(* The brick's sensor is in the mode the next read takes it to be in,      *)
(* unless a mode whose caller had given up was set late.                   *)
CacheFollowsHub == (open /\ cache # None /\ ~raced) => hw.mode = cache

(* The call waits for a brick that is gone.                                *)
Stranded == call.phase = "waiting" /\ ~link
=============================================================================
