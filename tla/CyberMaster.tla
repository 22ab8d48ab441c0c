----------------------------- MODULE CyberMaster -----------------------------
(***************************************************************************)
(* The CyberMaster: the adapter's calls and its slot (crates/bricklogo-hal *)
(* /src/adapters/cybermaster_adapter.rs).  The slot sends a command up to  *)
(* Retries times until an answer comes; the brick takes a message with the *)
(* opcode and toggle bit of the one before for that one sent again, and    *)
(* answers without carrying it out.  An answer that comes too late stays   *)
(* in the serial buffer and may be taken for the next one's.               *)
(*                                                                         *)
(* Directions, powers and values are left out.  The tower and the brick    *)
(* are external.                                                           *)
(***************************************************************************)
EXTENDS Integers, FiniteSets, Sequences

CONSTANTS
  Ports,       (* the motors, and as many inputs                           *)
  Retries,     (* COMMAND_RETRIES                                          *)
  MaxLate,     (* bound on the commands queued when another is             *)
  MaxMishaps,  (* bound on what the environment does                       *)
  None

Ops     == {"direction", "power", "on", "off", "mode", "read"}
Command == [op : Ops, mask : SUBSET Ports, wait : BOOLEAN, own : BOOLEAN]

VARIABLES
  call,     (* phase and the commands to send                              *)
  open,     (* the adapter holds the slot's channel                        *)
  link,     (* the tower is plugged in                                     *)
  slot,     (* None, or the toggle, and how often the command was sent     *)
  queue,    (* the channel                                                 *)
  cache,    (* sensor_modes; history: the motors asked to run              *)
  up,       (* an answer that came too late is in the serial buffer        *)
  hw,       (* the brick: whether it is unlocked, the message heard last,  *)
            (* the motors running, the inputs set to raw                   *)
  mishaps,
  ran,      (* history: the brick carried out the command issued last      *)
  misled,   (* history: it was answered Ok though it was not               *)
  raced     (* history: a command was given up on, or answered too late    *)

vars == <<call, open, link, slot, queue, cache, up, hw, mishaps, ran, misled, raced>>

TypeOK ==
  /\ call \in [phase : {"idle", "waiting", "ok", "failed"}, todo : Seq(Command)]
  /\ open \in BOOLEAN /\ link \in BOOLEAN /\ up \in BOOLEAN
  /\ slot \in [toggle : BOOLEAN, tries : 0 .. Retries - 1] \cup {None}
  /\ queue \in Seq(Command)
  /\ cache \in [modes : SUBSET Ports, asked : SUBSET Ports]
  /\ hw \in [unlocked : BOOLEAN, last : (Ops \X BOOLEAN) \cup {None},
             on : SUBSET Ports, raw : SUBSET Ports]
  /\ mishaps \in 0 .. MaxMishaps /\ ran \in BOOLEAN /\ misled \in BOOLEAN /\ raced \in BOOLEAN

NoCall == [phase |-> "idle", todo |-> <<>>]
Over   == call.phase # "waiting" /\ call.todo = <<>>
Mishap == mishaps < MaxMishaps /\ mishaps' = mishaps + 1

Init ==
  /\ call = NoCall /\ open = FALSE /\ link = TRUE /\ slot = None /\ queue = <<>> /\ up = FALSE
  /\ cache = [modes |-> {}, asked |-> {}]
  /\ hw = [unlocked |-> FALSE, last |-> None, on |-> {}, raw |-> {}]
  /\ mishaps = 0 /\ ran = FALSE /\ misled = FALSE /\ raced = FALSE

(* connect: the unlock may not be heard, and nobody looks.                 *)
Connect ==
  /\ Over /\ ~open /\ link
  /\ \/ hw' = [hw EXCEPT !.unlocked = TRUE, !.last = None] /\ UNCHANGED mishaps
     \/ hw' = [hw EXCEPT !.last = None] /\ Mishap
  /\ open' = TRUE /\ slot' = [toggle |-> FALSE, tries |-> 0] /\ queue' = <<>> /\ up' = FALSE
  /\ cache' = [modes |-> {}, asked |-> hw.on]
  /\ call' = NoCall /\ ran' = FALSE /\ misled' = FALSE /\ raced' = FALSE
  /\ UNCHANGED link

(* disconnect only drops the slot: the motors run on.                      *)
Disconnect ==
  /\ Over /\ open
  /\ open' = FALSE /\ slot' = None /\ queue' = <<>> /\ up' = FALSE
  /\ call' = NoCall /\ ran' = FALSE /\ misled' = FALSE
  /\ UNCHANGED <<link, cache, hw, mishaps, raced>>

----------------------------------------------------------------------------
Cmd(op, S) == [op |-> op, mask |-> S, wait |-> op # "mode", own |-> FALSE]
Each(op, S) == {s \in [1 .. Cardinality(S) -> {Cmd(op, {p}) : p \in S}] :
                  \A i, j \in DOMAIN s : i # j => s[i] # s[j]}
(* start_ports: a direction each, the power of all or each, and on.        *)
Starts(S) == {d \o p \o <<Cmd("on", S)>> : d \in Each("direction", S),
                                          p \in {<<Cmd("power", S)>>} \cup Each("power", S)}
Stop(S)   == <<Cmd("power", S), Cmd("off", S)>>
(* read_sensor: the mode of an input is set before it is read first; a     *)
(* rotation needs none.                                                    *)
Reads(p)  == {IF p \in cache.modes THEN <<Cmd("read", {p})>> ELSE <<Cmd("mode", {p}), Cmd("read", {p})>>,
              <<Cmd("read", {p})>>}
Begin ==
  /\ Over /\ open
  /\ \E S \in (SUBSET Ports) \ {{}} :
       \E t \in Starts(S) \cup {Stop(S)} \cup {s \o Stop(S) : s \in Starts(S)}
                \cup (IF Cardinality(S) = 1 THEN Reads(CHOOSE p \in S : TRUE) ELSE {}) :
          call' = [call EXCEPT !.todo = t]
  /\ UNCHANGED <<open, link, slot, queue, cache, up, hw, mishaps, ran, misled, raced>>

(* send_cmd_wait, or send_cmd: the mode counts as set at once.             *)
Issue ==
  /\ call.phase # "waiting" /\ call.todo # <<>> /\ Len(queue) <= MaxLate
  /\ LET c == Head(call.todo)
     IN /\ queue' = Append([i \in DOMAIN queue |-> [queue[i] EXCEPT !.own = FALSE]], [c EXCEPT !.own = c.wait])
        /\ call' = [phase |-> IF c.wait THEN "waiting" ELSE call.phase, todo |-> Tail(call.todo)]
        /\ IF c.wait THEN ran' = FALSE /\ misled' = FALSE ELSE UNCHANGED <<ran, misled>>
        /\ cache' = CASE c.op = "mode" -> [cache EXCEPT !.modes = @ \cup c.mask]
                      [] c.op = "on"   -> [cache EXCEPT !.asked = @ \cup c.mask]
                      [] c.op = "off"  -> [cache EXCEPT !.asked = @ \ c.mask]
                      [] OTHER -> cache
  /\ UNCHANGED <<open, link, slot, up, hw, mishaps, raced>>

Answer(own, ok) == call' = IF ~own \/ call.phase # "waiting" THEN call
                           ELSE IF ok THEN [call EXCEPT !.phase = "ok"]
                           ELSE [phase |-> "failed", todo |-> <<>>]
TimeOut ==
  /\ call.phase = "waiting" /\ Mishap /\ Answer(TRUE, FALSE)
  /\ UNCHANGED <<open, link, slot, queue, cache, up, hw, ran, misled, raced>>

----------------------------------------------------------------------------
(* The slot: a request, of which the brick may hear nothing, and of whose  *)
(* answer the tower may hear nothing.                                      *)

(* Mutant of NextToggle: the toggle stays.                                 *)
SameToggle(t) == t
NextToggle(t) == ~t
Limit(c) == IF c.op = "read" THEN 1 ELSE Retries

Repeated(c) == hw.last = <<c.op, slot.toggle>>
Heard(c) ==
  hw' = [hw EXCEPT !.last = <<c.op, slot.toggle>>,
                   !.on  = IF Repeated(c) THEN @ ELSE IF c.op = "on" THEN @ \cup c.mask
                           ELSE IF c.op = "off" THEN @ \ c.mask ELSE @,
                   !.raw = IF ~Repeated(c) /\ c.op = "mode" THEN @ \cup c.mask ELSE @]
(* The brick carries it out: to read twice is to read.                     *)
Runs(c) == c.own /\ (~Repeated(c) \/ c.op = "read")

Finish(c, ok, done) ==
  /\ queue' = Tail(queue) /\ slot' = [toggle |-> NextToggle(slot.toggle), tries |-> 0]
  /\ Answer(c.own, ok)
  /\ misled' = (misled \/ (c.own /\ ok /\ ~done))
GiveUp(c) ==
  IF slot.tries + 1 = Limit(c) THEN Finish(c, FALSE, FALSE)
  ELSE slot' = [slot EXCEPT !.tries = @ + 1] /\ UNCHANGED <<queue, call, misled>>

Ready == slot # None /\ queue # <<>>
(* It is heard and answered in time.                                       *)
Exchange ==
  /\ Ready /\ link /\ hw.unlocked
  /\ LET c == Head(queue)
     IN Heard(c) /\ ran' = (ran \/ Runs(c)) /\ Finish(c, TRUE, ran')
  /\ up' = FALSE
  /\ UNCHANGED <<open, link, cache, mishaps, raced>>
(* It is not heard, or the answer is lost, or comes too late.              *)
NoAnswer ==
  /\ Ready /\ (link /\ hw.unlocked => Mishap) /\ (~(link /\ hw.unlocked) => UNCHANGED mishaps)
  /\ LET c == Head(queue)
     IN /\ \/ UNCHANGED <<hw, ran, up>>
           \/ link /\ hw.unlocked /\ Heard(c) /\ ran' = (ran \/ Runs(c)) /\ up' \in BOOLEAN
        /\ GiveUp(c)
        /\ raced' = (raced \/ up' \/ slot.tries + 1 = Limit(c))
  /\ UNCHANGED <<open, link, cache>>
(* What came too late, or the echo behind it, is taken for the answer.     *)
StaleAnswer ==
  /\ Ready /\ link /\ up
  /\ LET c == Head(queue)
     IN /\ \/ UNCHANGED <<hw, ran, mishaps>> /\ up' = FALSE
           \/ hw.unlocked /\ Heard(c) /\ ran' = (ran \/ Runs(c)) /\ up' = TRUE /\ UNCHANGED mishaps
        /\ Finish(c, TRUE, ran')
  /\ UNCHANGED <<open, link, cache, raced>>

----------------------------------------------------------------------------
LinkDrops ==
  /\ link /\ Mishap /\ link' = FALSE
  /\ UNCHANGED <<call, open, slot, queue, cache, up, hw, ran, misled, raced>>
LinkReturns ==
  /\ ~link /\ ~open /\ link' = TRUE
  /\ UNCHANGED <<call, open, slot, queue, cache, up, hw, mishaps, ran, misled, raced>>

Tick == Exchange \/ NoAnswer \/ StaleAnswer
Next == Connect \/ Disconnect \/ Begin \/ Issue \/ TimeOut \/ Tick \/ LinkDrops \/ LinkReturns

----------------------------------------------------------------------------
(* Until a command is given up on, or an answer comes too late: the motors *)
(* run as asked once nothing is queued, those of calls that timed out      *)
(* included, an input known to be raw is set to it, and an Ok was earned.  *)
(* The modes are remembered whatever becomes of the command                *)
(* (cybermaster_adapter.rs:317).                                           *)
CacheFollowsHub ==
  (open /\ link /\ ~raced) =>
     /\ queue = <<>> => hw.on = cache.asked /\ cache.modes \subseteq hw.raw
     /\ ~misled

(* The call waits for a tower that is gone.                                *)
Stranded == call.phase = "waiting" /\ ~link
=============================================================================
