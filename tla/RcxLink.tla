------------------------------- MODULE RcxLink -------------------------------
(***************************************************************************)
(* The infrared link to an RCX brick (crates/bricklogo-hal/src/adapters/   *)
(* rcx_adapter.rs): motor and sensor calls, the slot that sends their      *)
(* commands one by one with retries, and the toggle bit by which the brick *)
(* tells a retransmission from a new command (crates/rust-rcx/src/         *)
(* protocol.rs).                                                           *)
(*                                                                         *)
(* Calls come one at a time, under the PortManager mutex, and wait for     *)
(* each of their commands; a call that gives up waiting leaves its command *)
(* with the slot.  The brick and the infrared light are external: a        *)
(* request may be lost, and so may its reply; a reply may also come after  *)
(* its timeout and wait in the tower for whoever reads next.               *)
(***************************************************************************)
EXTENDS Integers, FiniteSets, Sequences

CONSTANTS
  Ports,      (* the motors                                                *)
  Settings,   (* what start_ports is asked for: a direction and a power    *)
  MaxPower,   (* MAX_POWER                                                 *)
  Retries,    (* COMMAND_RETRIES                                           *)
  MaxQueue,   (* bound on the commands in the channel when a call begins   *)
  MaxUnread,  (* bound on the late replies waiting in the tower            *)
  None

Directions == {"even", "odd"}
Bit        == {0, 1}
Kinds      == {"direction", "power", "state", "type", "mode", "value"}
Motor      == [dir : Directions, power : 0 .. MaxPower, on : BOOLEAN]

(* A command sets one aspect (its kind) of the motors of its mask.  on and *)
(* off are one kind: they share an opcode.                                 *)
Command == [kind : Kinds, mask : SUBSET Ports, to : Motor]
(* What a call is to achieve: the motors of DOMAIN set on as set, or off.  *)
Goal    == [on : BOOLEAN, set : UNION {[S -> Settings] : S \in SUBSET Ports}]
(* A call: the commands it has not issued, whether it waits for the one    *)
(* before them, and (history) whether the brick executed each of those it  *)
(* has waited for.                                                         *)
Call    == [todo : Seq(Command), waiting : BOOLEAN, goal : Goal, executed : BOOLEAN]
Item    == [cmd : Command, awaited : BOOLEAN]
(* The command being sent: its toggle, the attempts made, and (history)    *)
(* how often the brick received and executed it.                           *)
Sending == [cmd : Command, awaited : BOOLEAN, toggle : Bit,
            tries : 0 .. Retries, got : 0 .. Retries, ran : 0 .. Retries]
Opcode  == [kind : Kinds, toggle : Bit]

ASSUME RcxLinkAssumption ==
  /\ IsFiniteSet(Ports) /\ Settings # {}
  /\ MaxPower \in Nat /\ Retries \in Nat \ {0}
  /\ Settings \subseteq [dir : Directions, power : 0 .. MaxPower]
  /\ MaxQueue \in Nat /\ MaxUnread \in Nat
  /\ None \notin Call /\ None \notin Goal /\ None \notin Sending /\ None \notin Opcode

VARIABLES
  call,      (* the call in progress, or None                              *)
  queue,     (* the commands in the channel                                *)
  sending,   (* the command the slot is sending, or None                   *)
  toggle,    (* RcxSlot.toggle                                             *)
  unread,    (* late replies in the tower                                  *)
  seen,      (* the opcode byte the brick received last, or None           *)
  motor,     (* what the brick's motors are set to                         *)
  lapsed,    (* history: the brick did not receive the command the slot    *)
             (* dealt with last, or the slot is new                        *)
  returned   (* history: the call that returned Ok last, until the next    *)

vars == <<call, queue, sending, toggle, unread, seen, motor, lapsed, returned>>

TypeOK ==
  /\ call \in Call \cup {None}
  /\ queue \in Seq(Item)
  /\ sending \in Sending \cup {None}
  /\ toggle \in Bit /\ lapsed \in BOOLEAN
  /\ unread \in 0 .. MaxUnread
  /\ seen \in Opcode \cup {None}
  /\ motor \in [Ports -> Motor]
  /\ returned \in [goal : Goal, executed : BOOLEAN] \cup {None}

----------------------------------------------------------------------------
(* The commands of a call.                                                 *)

AtRest == [dir |-> "even", power |-> 0, on |-> FALSE]
Cmd(kind, S) == [kind |-> kind, mask |-> S, to |-> AtRest]

SetDirection(S, d) == [Cmd("direction", S) EXCEPT !.to.dir = d]
SetPower(S, p)     == [Cmd("power", S) EXCEPT !.to.power = p]
SetState(S, b)     == [Cmd("state", S) EXCEPT !.to.on = b]

(* The ports of S in the order the caller lists them.                      *)
Orders(S) == {s \in [1 .. Cardinality(S) -> S] :
                \A i, j \in DOMAIN s : s[i] = s[j] => i = j}

SamePower(set) == \A p, q \in DOMAIN set : set[p].power = set[q].power

(* Mutant of StartCommands: one power for the whole batch.                 *)
OnePower(set, s) ==
  [i \in DOMAIN s |-> SetDirection({s[i]}, set[s[i]].dir)]
  \o <<SetPower(DOMAIN set, set[s[1]].power), SetState(DOMAIN set, TRUE)>>
(* start_ports: each direction, the powers together if they are equal, and *)
(* one motor-on.  start_port is the batch of one.                          *)
StartCommands(set, s) ==
  [i \in DOMAIN s |-> SetDirection({s[i]}, set[s[i]].dir)]
  \o (IF SamePower(set)
      THEN <<SetPower(DOMAIN set, set[s[1]].power)>>
      ELSE [i \in DOMAIN s |-> SetPower({s[i]}, set[s[i]].power)])
  \o <<SetState(DOMAIN set, TRUE)>>

AnySetting == CHOOSE s \in Settings : TRUE
StopCommands(S) == <<SetPower(S, 0), SetState(S, FALSE)>>

Begin(todo, goal) ==
  /\ call = None /\ Len(queue) <= MaxQueue
  /\ call' = [todo |-> todo, waiting |-> FALSE, goal |-> goal, executed |-> TRUE]
  /\ returned' = None
  /\ UNCHANGED <<queue, sending, toggle, unread, seen, motor, lapsed>>

StartPorts ==
  \E S \in (SUBSET Ports) \ {{}} : \E set \in [S -> Settings], s \in Orders(S) :
    Begin(StartCommands(set, s), [on |-> TRUE, set |-> set])

StopPorts ==
  \E S \in (SUBSET Ports) \ {{}} :
    Begin(StopCommands(S), [on |-> FALSE, set |-> [p \in S |-> AnySetting]])

(* read_sensor: type and mode (left out when no mode is given, or for a    *)
(* rotation sensor already set) are queued with nobody waiting.            *)
ReadSensor ==
  /\ call = None /\ Len(queue) <= MaxQueue
  /\ \E setup \in {<<>>, <<Cmd("type", {}), Cmd("mode", {})>>} :
       queue' = queue \o [i \in DOMAIN setup |-> [cmd |-> setup[i], awaited |-> FALSE]]
  /\ call' = [todo |-> <<Cmd("value", {})>>, waiting |-> FALSE,
              goal |-> [on |-> FALSE, set |-> [p \in {} |-> AnySetting]],
              executed |-> TRUE]
  /\ returned' = None
  /\ UNCHANGED <<sending, toggle, unread, seen, motor, lapsed>>

----------------------------------------------------------------------------
(* The caller's side of a command (send_cmd_wait).                         *)

Issue ==
  /\ call # None /\ ~call.waiting /\ call.todo # <<>>
  /\ queue' = Append(queue, [cmd |-> Head(call.todo), awaited |-> TRUE])
  /\ call' = [call EXCEPT !.todo = Tail(@), !.waiting = TRUE]
  /\ UNCHANGED <<sending, toggle, unread, seen, motor, lapsed, returned>>

(* The call goes on after an Ok reply (and returns Ok after its last       *)
(* command), and returns the error otherwise.                              *)
Answered(ok, executed) ==
  LET c == [call EXCEPT !.waiting = FALSE, !.executed = @ /\ executed]
  IN IF ok /\ call.todo # <<>>
     THEN call' = c /\ UNCHANGED returned
     ELSE /\ call' = None
          /\ returned' = IF ok THEN [goal |-> c.goal, executed |-> c.executed] ELSE None

(* recv_timeout expires: the scheduler thread has other slots to serve, so *)
(* this may happen before a single attempt is made.  Nobody awaits the     *)
(* command any more; the slot still sends it.                              *)
TimeOut ==
  /\ call # None /\ call.waiting
  /\ call' = None
  /\ queue' = [i \in DOMAIN queue |-> [queue[i] EXCEPT !.awaited = FALSE]]
  /\ sending' = IF sending = None THEN None ELSE [sending EXCEPT !.awaited = FALSE]
  /\ UNCHANGED <<toggle, unread, seen, motor, lapsed, returned>>

----------------------------------------------------------------------------
(* The slot.                                                               *)

(* Mutant of NextToggle: the stored bit is handed out and never flipped.   *)
StuckToggle == toggle
(* Mutant of NextToggle: a message counter that is never wrapped.          *)
CountedToggle == toggle + 1
NextToggle  == 1 - toggle

Take ==
  /\ sending = None /\ queue # <<>>
  /\ sending' = [cmd |-> Head(queue).cmd, awaited |-> Head(queue).awaited,
                 toggle |-> toggle, tries |-> 0, got |-> 0, ran |-> 0]
  /\ queue' = Tail(queue)
  /\ toggle' = NextToggle
  /\ UNCHANGED <<call, unread, seen, motor, lapsed, returned>>

(* Mutant of SentOpcode: a new toggle for every attempt.                   *)
FreshEachTry == [kind |-> sending.cmd.kind,
                 toggle |-> (sending.toggle + sending.tries) % 2]
SentOpcode   == [kind |-> sending.cmd.kind, toggle |-> sending.toggle]

(* The brick re-acknowledges a repeated opcode byte without executing it.  *)
Executes == seen # SentOpcode
Done(c)  == [p \in Ports |->
  IF p \notin c.mask THEN motor[p]
  ELSE CASE c.kind = "direction" -> [motor[p] EXCEPT !.dir = c.to.dir]
         [] c.kind = "power"     -> [motor[p] EXCEPT !.power = c.to.power]
         [] c.kind = "state"     -> [motor[p] EXCEPT !.on = c.to.on]
         [] OTHER                -> motor[p]]

(* What the brick does with a request that reaches it, or does not.        *)
BrickSide(got) ==
  IF got
  THEN /\ seen' = SentOpcode
       /\ motor' = IF Executes THEN Done(sending.cmd) ELSE motor
  ELSE UNCHANGED <<seen, motor>>

(* What becomes of the reply to a request that was received, or was not.   *)
Replies(got) == IF got THEN {"prompt", "late", "lost"} ELSE {"lost"}

(* Replies are not matched with requests.  One still in a USB tower is     *)
(* taken for the answer to this request (and makes no sense if a value was *)
(* asked for); a serial tower drops it with the echo it skips.             *)
Answers(reply) == IF unread > 0 THEN BOOLEAN ELSE {reply = "prompt"}

(* What waits in the tower afterwards.  What arrived together may be read  *)
(* together, and all but one reply dropped.                                *)
Waiting(reply) ==
  IF unread > 0 THEN 0 .. (unread - 1 + (IF reply = "lost" THEN 0 ELSE 1))
  ELSE {IF reply = "late" THEN 1 ELSE 0}

Tries(c) == IF c.kind = "value" THEN 1 ELSE Retries

(* The command after one more attempt.                                     *)
Counted(b) == IF b THEN 1 ELSE 0
After(got) == [sending EXCEPT !.tries = @ + 1, !.got = @ + Counted(got),
                              !.ran = @ + Counted(got /\ Executes)]

(* send_with_retry ends with the first answer or the last attempt; then    *)
(* the caller, if it still waits, gets the result.                         *)
Ends(s, ok) ==
  /\ ok \/ s.tries = Tries(s.cmd)
  /\ sending' = None
  /\ lapsed' = (s.got = 0)
  /\ IF s.awaited THEN Answered(ok, s.ran > 0) ELSE UNCHANGED <<call, returned>>

Repeats(s, ok) ==
  /\ ~ok /\ s.tries < Tries(s.cmd)
  /\ sending' = s
  /\ UNCHANGED <<lapsed, call, returned>>

Attempt ==
  /\ sending # None
  /\ \E got \in BOOLEAN : \E reply \in Replies(got) : \E ok \in Answers(reply) :
       /\ unread' \in Waiting(reply) /\ unread' <= MaxUnread
       /\ BrickSide(got)
       /\ Ends(After(got), ok) \/ Repeats(After(got), ok)
  /\ UNCHANGED <<queue, toggle>>

(* disconnect and connect: a new slot and channel; the brick is not told,  *)
(* and opening the tower may or may not drop what waits in it.             *)
Reconnect ==
  /\ call = None /\ sending = None
  /\ queue' = <<>> /\ toggle' = 0 /\ lapsed' = TRUE
  /\ unread' \in 0 .. unread
  /\ returned' = None
  /\ UNCHANGED <<call, sending, seen, motor>>

----------------------------------------------------------------------------
Init ==
  /\ call = None /\ queue = <<>> /\ sending = None /\ returned = None
  /\ toggle = 0 /\ lapsed = TRUE /\ unread = 0
  /\ seen = None
  /\ motor = [p \in Ports |-> AtRest]

Next ==
  \/ StartPorts \/ StopPorts \/ ReadSensor
  \/ Issue \/ TimeOut
  \/ Take \/ Attempt
  \/ Reconnect

Spec == Init /\ [][Next]_vars

----------------------------------------------------------------------------
(* However often send_with_retry sends it, the brick executes a command at *)
(* most once: what it executed it will take for a repetition.              *)
AtMostOnce == sending # None /\ sending.ran > 0 => ~Executes

(* The toggle does its work: a new command that reaches the brick is taken *)
(* for a retransmission only if the brick never received the command       *)
(* before it, or the slot has just been registered (next_toggle).          *)
IgnoredOnlyAfterLapse ==
  sending # None /\ sending.got = 0 /\ ~lapsed => Executes

Achieved(goal) ==
  \A p \in DOMAIN goal.set :
    /\ motor[p].on = goal.on
    /\ goal.on => /\ motor[p].dir = goal.set[p].dir
                  /\ motor[p].power = goal.set[p].power

(* A call whose commands the brick executed leaves the motors as asked,    *)
(* whatever earlier calls left in the channel when they gave up.           *)
OkMeansDoneIfExecuted ==
  returned # None /\ returned.executed => Achieved(returned.goal)

(* What the comment on RcxSlot.toggle promises: an Ok is never the brick's *)
(* acknowledgement of a command it took for a repetition.                  *)
OkMeansDone == returned # None => Achieved(returned.goal)
=============================================================================
