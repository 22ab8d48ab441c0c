---------------------------- MODULE BrickInterface ----------------------------
(***************************************************************************)
(* The BrickInterface: one serial device behind two adapters, Interface A  *)
(* and Power Functions (crates/bricklogo-hal/src/adapters/                 *)
(* interfacea_adapter.rs, powerfunctions_adapter.rs, shared_brick_         *)
(* interface.rs), and its driver (crates/rust-brickinterface/src/          *)
(* device.rs).  There is no slot: the caller writes a frame and reads on   *)
(* until one that is not an event.  An infrared burst is accepted at once  *)
(* and ends with an event; the next one has to wait for it.  Replies are   *)
(* not matched by sequence number: one that came too late is the next      *)
(* command's, until somebody waits for a burst.                            *)
(*                                                                         *)
(* The motors of one Power Functions channel; a power is 0 or 1.  The      *)
(* device is external.                                                     *)
(***************************************************************************)
EXTENDS Integers, FiniteSets, Sequences, FiniteSetsExt

CONSTANTS
  Ports,       (* the outputs of Interface A                               *)
  MaxLate,     (* bound on the replies that came too late                  *)
  MaxMishaps,  (* bound on what the environment does                       *)
  None

Kinds == {"ia", "pf"}
Sides == {"red", "blue"}
Ops   == {"outputs", "inputs", "count", "single", "combo", "abort"}
Step  == [op : Ops, set : UNION {[X -> 0 .. 1] : X \in SUBSET (Ports \cup Sides)}]
Reply == {"ok", "inputs", "counts", "accepted", "refused"}
Frame == [reply : Reply, own : BOOLEAN] \cup [reply : {"done"}]
Burst == [Sides -> 0 .. 1 \cup {None}]

VARIABLES
  call,     (* phase; the commands to send, the one sent, and by whom;     *)
            (* closing: it ends in disconnect                              *)
  open,     (* the adapters in use                                         *)
  link,     (* the device is plugged in, and was since it was opened       *)
  slot,     (* None, or the pooled connection's ir_pending                 *)
  down, up, (* the command under way, and the frames on their way back     *)
  hw,       (* the device: outputs, the burst sent, the motors told;       *)
            (* history: outputs and motors asked                           *)
  mishaps,
  ran,      (* history: the device carried out the command sent last       *)
  misled,   (* history: a reply to another one was taken for its own       *)
  raced     (* history: a reply came too late, or never                    *)

vars == <<call, open, link, slot, down, up, hw, mishaps, ran, misled, raced>>

TypeOK ==
  /\ call \in [phase : {"idle", "waiting", "ok", "failed"}, who : Kinds \cup {None},
               todo : Seq(Step), now : Step \cup {None}, closing : BOOLEAN]
  /\ open \subseteq Kinds /\ link \in BOOLEAN /\ slot \in [pending : BOOLEAN] \cup {None}
  /\ down \in Seq([step : Step, own : BOOLEAN]) /\ up \in Seq(Frame)
  /\ hw \in [out : [Ports -> 0 .. 1], burst : Burst \cup {None}, motor : [Sides -> 0 .. 1],
             asked : [Ports \cup Sides -> 0 .. 1]]
  /\ mishaps \in 0 .. MaxMishaps /\ ran \in BOOLEAN /\ misled \in BOOLEAN /\ raced \in BOOLEAN

NoCall == [phase |-> "idle", who |-> None, todo |-> <<>>, now |-> None, closing |-> FALSE]
Over   == call.phase # "waiting" /\ call.todo = <<>> /\ ~call.closing
Mishap == mishaps < MaxMishaps /\ mishaps' = mishaps + 1
Zero(S) == [x \in S |-> 0]
Set(f, g) == [x \in DOMAIN f |-> IF x \in DOMAIN g THEN g[x] ELSE f[x]]

Init ==
  /\ call = NoCall /\ open = {} /\ link = TRUE /\ slot = None /\ down = <<>> /\ up = <<>>
  /\ hw = [out |-> Zero(Ports), burst |-> None, motor |-> Zero(Sides), asked |-> Zero(Ports \cup Sides)]
  /\ mishaps = 0 /\ ran = FALSE /\ misled = FALSE /\ raced = FALSE

(* allocate_brickinterface: the pooled connection, dead or alive, or a new *)
(* one; the pool never lets go of it.                                      *)
Connect ==
  /\ Over
  /\ \E k \in Kinds \ open : open' = open \cup {k}
  /\ \/ slot # None /\ UNCHANGED slot
     \/ slot = None /\ link /\ slot' = [pending |-> FALSE]
  /\ UNCHANGED <<call, link, down, up, hw, mishaps, ran, misled, raced>>

----------------------------------------------------------------------------
Do(op, f) == [op |-> op, set |-> f]
(* Interface A: one frame for all outputs named; "a" is two of them.       *)
InterfaceA == {<<Do("outputs", f)>> : f \in UNION {[X -> 0 .. 1] : X \in (SUBSET Ports) \ {{}}}}
              \cup {<<Do("inputs", Zero({}))>>, <<Do("count", Zero({}))>>}
(* apply_steps: both sides at once, and then each that runs once more, for *)
(* what it is told alone outlasts the infrared signal.                     *)
Latch(f) == (IF f["red"] # 0 THEN <<Do("single", [x \in {"red"} |-> f[x]])>> ELSE <<>>)
            \o (IF f["blue"] # 0 THEN <<Do("single", [x \in {"blue"} |-> f[x]])>> ELSE <<>>)
Functions == {<<Do("single", f)>> : f \in UNION {[{s} -> 0 .. 1] : s \in Sides}}
             \cup {<<Do("combo", f)>> \o Latch(f) : f \in [Sides -> 0 .. 1]}
Begin ==
  /\ Over
  /\ \/ /\ "ia" \in open /\ \E t \in InterfaceA : call' = [call EXCEPT !.who = "ia", !.todo = t]
     \/ /\ "pf" \in open /\ \E t \in Functions : call' = [call EXCEPT !.who = "pf", !.todo = t]
  /\ UNCHANGED <<open, link, slot, down, up, hw, mishaps, ran, misled, raced>>
(* disconnect: all outputs off, or the burst aborted.                      *)
Disconnect ==
  /\ Over
  /\ \/ /\ "ia" \in open
        /\ call' = [call EXCEPT !.who = "ia", !.closing = TRUE, !.todo = <<Do("outputs", Zero(Ports))>>]
     \/ /\ "pf" \in open
        /\ call' = [call EXCEPT !.who = "pf", !.closing = TRUE, !.todo = <<Do("abort", Zero({}))>>]
  /\ UNCHANGED <<open, link, slot, down, up, hw, mishaps, ran, misled, raced>>

(* Whether its reply was ok or not.  An abort that went well drops what    *)
(* comes up to the event, and takes nothing to be pending then.            *)
Disowned == [i \in DOMAIN down |-> [down[i] EXCEPT !.own = FALSE]]
Drained == LET ds == {i \in DOMAIN up : up[i].reply = "done"}
           IN IF ds = {} THEN <<>> ELSE SubSeq(up, Min(ds) + 1, Len(up))
Close ==
  /\ call.closing /\ call.phase # "waiting" /\ call.todo = <<>>
  /\ IF call.who = "pf" /\ call.phase = "ok" /\ slot.pending
     THEN slot' = [pending |-> FALSE] /\ up' = Drained
     ELSE UNCHANGED <<slot, up>>
  /\ open' = open \ {call.who} /\ call' = NoCall /\ down' = Disowned /\ ran' = FALSE /\ misled' = FALSE
  /\ UNCHANGED <<link, hw, mishaps, raced>>

Fail == call' = [call EXCEPT !.phase = "failed", !.todo = <<>>, !.now = None]

(* Mutant of MustWait: it is only looked at for a combination.             *)
ComboWaits(op) == op = "combo" /\ slot.pending
MustWait(op) == op \in {"single", "combo"} /\ slot.pending
(* send_recv: the write.                                                   *)
Issue ==
  /\ call.phase # "waiting" /\ call.todo # <<>> /\ ~MustWait(Head(call.todo).op)
  /\ Len(down) + Len(up) <= MaxLate
  /\ LET s == Head(call.todo)
     IN /\ call' = [call EXCEPT !.phase = IF link THEN "waiting" ELSE "failed", !.now = IF link THEN s ELSE None,
                                !.todo = IF link THEN Tail(@) ELSE <<>>]
        /\ down' = IF link THEN Append(Disowned, [step |-> s, own |-> TRUE])
                   ELSE down
        /\ up' = [i \in DOMAIN up |-> IF up[i].reply = "done" THEN up[i] ELSE [up[i] EXCEPT !.own = FALSE]]
        /\ hw' = IF link THEN [hw EXCEPT !.asked = Set(@, s.set)] ELSE hw
  /\ ran' = FALSE /\ misled' = FALSE
  /\ UNCHANGED <<open, link, slot, mishaps, raced>>

Due(op) == CASE op \in {"outputs", "abort"} -> "ok"
             [] op = "inputs" -> "inputs"
             [] op = "count"  -> "counts"
             [] OTHER -> "accepted"
(* recv_reply: an event is noted, and whatever comes next is the reply.    *)
TakeReply ==
  /\ call.phase = "waiting" /\ up # <<>>
  /\ up' = Tail(up)
  /\ LET f  == Head(up)
         ok == f.reply = Due(call.now.op)
     IN \/ f.reply = "done" /\ slot' = [pending |-> FALSE] /\ UNCHANGED <<call, misled>>
        \/ /\ f.reply # "done"
           /\ slot' = IF ok /\ f.reply = "accepted" THEN [pending |-> TRUE] ELSE slot
           /\ misled' = (misled \/ (ok /\ ~f.own))
           /\ IF ok THEN call' = [call EXCEPT !.phase = "ok", !.now = None] ELSE Fail
  /\ UNCHANGED <<open, link, down, hw, mishaps, ran, raced>>
(* No reply in time, or the port is gone.                                  *)
NoReply ==
  /\ call.phase = "waiting" /\ Fail
  /\ \/ link /\ Mishap /\ raced' = TRUE
     \/ ~link /\ UNCHANGED <<mishaps, raced>>
  /\ UNCHANGED <<open, link, slot, down, up, hw, ran, misled>>

(* send_pf: wait_ir_done reads up to the event; other frames are dropped.  *)
AwaitDone ==
  /\ call.phase # "waiting" /\ call.todo # <<>> /\ MustWait(Head(call.todo).op)
  /\ \/ /\ up # <<>> /\ up' = Tail(up)
        /\ slot' = IF Head(up).reply = "done" THEN [pending |-> FALSE] ELSE slot
        /\ UNCHANGED <<call, mishaps>>
     \/ /\ up = <<>> /\ (link => Mishap) /\ (~link => UNCHANGED mishaps) /\ Fail /\ UNCHANGED <<slot, up>>
  /\ ran' = IF call'.phase = "failed" THEN FALSE ELSE ran
  /\ misled' = IF call'.phase = "failed" THEN FALSE ELSE misled
  /\ UNCHANGED <<open, link, down, hw, raced>>

----------------------------------------------------------------------------
(* The device: it sends one burst at a time, and ends one early when told. *)

Busy(s) == s.op \in {"single", "combo"} /\ hw.burst # None
Aired == Set(hw.motor, [x \in {y \in Sides : hw.burst[y] # None} |-> hw.burst[x]])
Effect(s) ==
  CASE s.op = "outputs" -> hw' = [hw EXCEPT !.out = Set(@, s.set)]
    [] s.op \in {"single", "combo"} /\ ~Busy(s)
         -> hw' = [hw EXCEPT !.burst = Set([x \in Sides |-> None], s.set)]
    [] s.op = "abort" /\ hw.burst # None
         -> \E f \in {hw.motor, Aired} : hw' = [hw EXCEPT !.burst = None, !.motor = f, !.asked = Set(@, f)]
    [] OTHER -> UNCHANGED hw
Carry ==
  /\ link /\ down # <<>>
  /\ LET s == Head(down).step
         r == [reply |-> IF Busy(s) THEN "refused" ELSE Due(s.op), own |-> Head(down).own]
     IN /\ Effect(s)
        /\ up' = up \o IF s.op = "abort" /\ hw.burst # None THEN <<r, [reply |-> "done"]>> ELSE <<r>>
        /\ ran' = (ran \/ (r.own /\ r.reply # "refused"))
  /\ down' = Tail(down)
  /\ UNCHANGED <<call, open, link, slot, mishaps, misled, raced>>
BurstEnds ==
  /\ link /\ hw.burst # None
  /\ hw' = [hw EXCEPT !.burst = None, !.motor = Aired]
  /\ up' = Append(up, [reply |-> "done"])
  /\ UNCHANGED <<call, open, link, slot, down, mishaps, ran, misled, raced>>

(* The pooled connection does not work again (bridge.rs:268).              *)
LinkDrops ==
  /\ link /\ Mishap /\ link' = FALSE /\ down' = <<>> /\ up' = <<>>
  /\ UNCHANGED <<call, open, slot, hw, ran, misled, raced>>

Caller == TakeReply \/ NoReply \/ AwaitDone
Next == Connect \/ Begin \/ Disconnect \/ Close \/ Issue \/ Caller \/ Carry \/ BurstEnds \/ LinkDrops

----------------------------------------------------------------------------
(* Until a reply comes too late: nobody thinks the transmitter idle while  *)
(* a burst is in the air, and once nothing is under way the outputs and    *)
(* the motors are as asked last, through both adapters.                    *)
CacheFollowsHub ==
  (slot # None /\ link /\ ~raced /\ down = <<>>) =>
     /\ hw.burst # None => slot.pending \/ call.phase = "waiting"
     /\ \A p \in Ports : hw.out[p] = hw.asked[p]
     /\ hw.burst = None => \A s \in Sides : hw.motor[s] = hw.asked[s]

(* The call waits for a device that is gone.                               *)
Stranded == call.phase = "waiting" /\ ~link
=============================================================================
