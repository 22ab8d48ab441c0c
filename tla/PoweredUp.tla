------------------------------ MODULE PoweredUp ------------------------------
(***************************************************************************)
(* A Powered UP or WeDo 2.0 hub: the adapter's calls (crates/              *)
(* bricklogo-hal/src/adapters/poweredup_adapter.rs), which write to the    *)
(* hub themselves and, for a rotation or a timed run, read the channel of  *)
(* command feedback until every port has reported (crates/rust-poweredup/  *)
(* src/ble.rs); and the task that takes the hub's notifications one by one *)
(* into the record of attached devices (hub.rs) and into that channel.     *)
(*                                                                         *)
(* Speeds, angles and values are left out; a reading is known by the mode  *)
(* it was made in.  The hub is external.                                   *)
(***************************************************************************)
EXTENDS Integers, FiniteSets, Sequences, SequencesExt

CONSTANTS
  Ports, Modes,
  MaxNotices,  (* bound on the notifications under way                     *)
  MaxFeedback, (* bound on the feedback nobody has read                    *)
  MaxMishaps,  (* bound on what the environment and an impatient user do   *)
  None

Types == {"none", "tacho", "basic"}
(* A port's job: none, running until told otherwise, or a command with an  *)
(* end, of the request being waited for or of an older one.                *)
Jobs  == {"idle", "on", "own", "old"}
Command == [op : {"on", "off", "zero", "request", "subscribe"}, ports : SUBSET Ports,
            mode : Modes \cup {None}]
Feedback == [kind : {"feedback"}, port : Ports, own : BOOLEAN]
Notice == Feedback \cup [kind : {"value"}, port : Ports, mode : Modes]
          \cup [kind : {"io"}, port : Ports, type : Types]
(* AttachedDevice.                                                         *)
Attached == [type : Types \ {"none"}, mode : Modes \cup {None}, reading : Modes \cup {None}]

VARIABLES
  call,     (* phase and stage of the command being sent, the commands to  *)
            (* come, the ports whose feedback is awaited                   *)
  open,     (* the peripheral and the feedback channel are there           *)
  link,     (* the hub is in reach                                         *)
  devices,  (* Hub.devices                                                 *)
  notices,  (* notifications sent and not processed                        *)
  feedback, (* the channel                                                 *)
  hw,       (* the hub's ports: what is plugged in, its mode, its job      *)
  mishaps,
  ran,      (* history: the hub is done with the command sent last         *)
  misled,   (* history: older feedback was taken for that of the request   *)
  crossed   (* history: ports whose mode was recorded after the device was *)
            (* exchanged or with a value of another mode under way         *)

vars == <<call, open, link, devices, notices, feedback, hw, mishaps, ran, misled, crossed>>

TypeOK ==
  /\ call \in [phase : {"idle", "waiting", "ok", "failed"},
               stage : {"none", "written", "taken", "reading"}, todo : Seq(Command),
               now : Command \cup {None}, pending : SUBSET Ports]
  /\ open \in BOOLEAN /\ link \in BOOLEAN
  /\ devices \in [Ports -> Attached \cup {None}]
  /\ notices \in Seq(Notice) /\ feedback \in Seq(Feedback)
  /\ hw \in [Ports -> [type : Types, mode : Modes \cup {None}, job : Jobs]]
  /\ mishaps \in 0 .. MaxMishaps /\ ran \in BOOLEAN /\ misled \in BOOLEAN
  /\ crossed \subseteq Ports

Cmd(op, S)   == [op |-> op, ports |-> S, mode |-> None]
Sub(p, m)    == [op |-> "subscribe", ports |-> {p}, mode |-> m]
NoCall       == [phase |-> "idle", stage |-> "none", todo |-> <<>>, now |-> None,
                 pending |-> {}]
Over         == call.stage = "none" /\ (call.todo = <<>> \/ call.phase = "failed")
Report(p, o) == [kind |-> "feedback", port |-> p, own |-> o]
Mishap       == mishaps < MaxMishaps /\ mishaps' = mishaps + 1

Init ==
  /\ call = NoCall /\ open = FALSE /\ link = TRUE
  /\ devices = [p \in Ports |-> None] /\ notices = <<>> /\ feedback = <<>>
  /\ hw \in [Ports -> [type : Types, mode : {None}, job : {"idle"}]]
  /\ mishaps = 0 /\ ran = FALSE /\ misled = FALSE /\ crossed = {}

(* connect: a new Hub, a new channel, and the hub announces its devices.   *)
Connect ==
  /\ Over /\ ~open /\ link
  /\ open' = TRUE /\ call' = NoCall /\ ran' = FALSE /\ misled' = FALSE
  /\ LET s == SetToSeq({p \in Ports : hw[p].type # "none"})
     IN notices' = [i \in DOMAIN s |-> [kind |-> "io", port |-> s[i], type |-> hw[s[i]].type]]
  /\ feedback' = <<>> /\ devices' = [p \in Ports |-> None] /\ crossed' = {}
  /\ UNCHANGED <<link, hw, mishaps>>

Disconnect ==
  /\ Over /\ open
  /\ open' = FALSE /\ call' = NoCall /\ ran' = FALSE /\ misled' = FALSE
  /\ notices' = <<>> /\ feedback' = <<>>
  /\ devices' = [p \in Ports |-> None] /\ crossed' = {}
  /\ hw' = [p \in Ports |-> [hw[p] EXCEPT !.mode = None, !.job = "idle"]]
  /\ UNCHANGED <<link, mishaps>>

----------------------------------------------------------------------------
(* The calls.                                                              *)

Is(p, t) == devices[p] # None /\ devices[p].type = t
Each(op, S) == LET s == SetToSeq(S) IN [i \in DOMAIN s |-> Cmd(op, {s[i]})]
IfAny(op, S) == IF S = {} THEN <<>> ELSE <<Cmd(op, S)>>

(* run_port(s)_for_time: the motors without an encoder run while the hub   *)
(* times the others.                                                       *)
TimedRun(S) ==
  LET basic == {p \in S : ~Is(p, "tacho")}
  IN Each("on", basic) \o IfAny("request", S \ basic) \o Each("off", basic)

(* read_sensor asks for a mode the port is not in; a rotation to a         *)
(* position reads every port, then turns those (D) that are not there.     *)
Reads(S, m) == LET s == SetToSeq(S) IN [i \in DOMAIN s |-> Sub(s[i], m)]

Programs(S) ==
  {Each("on", S), Each("off", S), Each("zero", S), TimedRun(S), <<Cmd("request", S)>>}
  \cup {Reads(S, m) : m \in Modes}
  \cup {Reads(S, m) \o IfAny("request", D) : m \in Modes, D \in SUBSET S}

Begin ==
  /\ Over /\ open
  /\ \E S \in (SUBSET Ports) \ {{}} :
       /\ \A p \in S : devices[p] # None
       /\ \E t \in Programs(S) : call' = [NoCall EXCEPT !.todo = t]
  /\ ran' = FALSE /\ misled' = FALSE
  /\ UNCHANGED <<open, link, devices, notices, feedback, hw, mishaps, crossed>>

Aged(s) == [i \in DOMAIN s |-> IF s[i].kind = "feedback" THEN [s[i] EXCEPT !.own = FALSE]
                               ELSE s[i]]
Failed == [call EXCEPT !.phase = "failed", !.stage = "none", !.todo = <<>>, !.now = None,
                       !.pending = {}]

(* A read of a port that is in the mode asked for returns its last reading *)
(* at once; one of a port nothing is plugged into fails.                   *)
ReadKnown ==
  /\ call.stage = "none" /\ call.todo # <<>>
  /\ LET c == Head(call.todo)
     IN /\ c.op = "subscribe"
        /\ \E p \in c.ports :
             \/ devices[p] = None /\ call' = Failed
             \/ devices[p] # None /\ devices[p].mode = c.mode
                /\ call' = [call EXCEPT !.todo = Tail(@)]
  /\ ran' = (IF call' = Failed THEN FALSE ELSE ran)
  /\ UNCHANGED <<open, link, devices, notices, feedback, hw, mishaps, misled, crossed>>

(* send: the write, which fails if the hub is gone.                        *)
Write ==
  /\ call.stage = "none" /\ call.todo # <<>>
  /\ LET c == Head(call.todo)
     IN /\ c.op = "subscribe" => \A p \in c.ports : devices[p] # None /\ devices[p].mode # c.mode
        /\ IF link THEN call' = [call EXCEPT !.phase = "waiting", !.stage = "written",
                                             !.todo = Tail(@), !.now = c]
                   ELSE call' = Failed
  /\ ran' = FALSE /\ misled' = FALSE
  /\ notices' = Aged(notices) /\ feedback' = Aged(feedback)
  /\ hw' = [p \in Ports |-> [hw[p] EXCEPT !.job = IF @ = "own" THEN "old" ELSE @]]
  /\ UNCHANGED <<open, link, devices, mishaps, crossed>>

(* The write returns: a plain command is over, a subscription is recorded, *)
(* a request waits for the feedback of its ports.  The record is wrong if  *)
(* the device was exchanged since, or a value of another mode is to come.  *)
Crossing(p, m) == \/ hw[p].mode # m
                  \/ \E i \in DOMAIN notices : /\ notices[i].kind = "value"
                                               /\ notices[i].port = p /\ notices[i].mode # m
(* Mutant of SetMode: the old reading is kept.                             *)
KeepReading(p, m) == [devices EXCEPT ![p] = IF @ = None THEN @ ELSE [@ EXCEPT !.mode = m]]
SetMode(p, m) ==
  [devices EXCEPT ![p] = IF @ = None THEN @
                         ELSE [@ EXCEPT !.reading = IF devices[p].mode = m THEN @ ELSE None,
                                        !.mode = m]]
Written ==
  /\ call.stage = "taken"
  /\ \/ /\ call.now.op \in {"on", "off", "zero"}
        /\ call' = [call EXCEPT !.phase = "ok", !.stage = "none", !.now = None]
        /\ UNCHANGED <<devices, crossed>>
     \/ /\ call.now.op = "request"
        /\ call' = [call EXCEPT !.stage = "reading", !.pending = call.now.ports]
        /\ UNCHANGED <<devices, crossed>>
     \/ /\ call.now.op = "subscribe"
        /\ \E p \in call.now.ports :
             /\ devices' = SetMode(p, call.now.mode)
             /\ crossed' = IF Crossing(p, call.now.mode) THEN crossed \cup {p} ELSE crossed \ {p}
        /\ call' = [call EXCEPT !.phase = "ok", !.stage = "none", !.now = None]
  /\ UNCHANGED <<open, link, notices, feedback, hw, mishaps, ran, misled>>

(* Mutant of Settles: the feedback of any port will do.                    *)
AnyPort(f) == call.pending
Settles(f) == call.pending \cap {f.port}

(* request and request_all: one round of the loop.                         *)
TakeFeedback ==
  /\ call.stage = "reading" /\ call.pending # {} /\ feedback # <<>>
  /\ LET f == Head(feedback)
     IN /\ call' = [call EXCEPT !.pending = @ \ Settles(f)]
        /\ misled' = (misled \/ (f.port \in call.pending /\ ~f.own))
  /\ feedback' = Tail(feedback)
  /\ UNCHANGED <<open, link, devices, notices, hw, mishaps, ran, crossed>>

Return ==
  /\ call.stage = "reading" /\ call.pending = {}
  /\ call' = [call EXCEPT !.phase = "ok", !.stage = "none", !.now = None]
  /\ UNCHANGED <<open, link, devices, notices, feedback, hw, mishaps, ran, misled, crossed>>

(* The stream of a lost hub has ended and the channel is empty.            *)
Disconnected ==
  /\ call.stage \in {"written", "taken", "reading"} /\ ~link
  /\ call.stage = "reading" => call.pending # {} /\ feedback = <<>>
  /\ call' = Failed
  /\ UNCHANGED <<open, link, devices, notices, feedback, hw, mishaps, ran, misled, crossed>>

(* Escape, or half a minute.                                               *)
Cancelled ==
  /\ call.stage = "reading" /\ call.pending # {} /\ Mishap
  /\ call' = Failed
  /\ UNCHANGED <<open, link, devices, notices, feedback, hw, ran, misled, crossed>>

----------------------------------------------------------------------------
(* The notification task (Hub::process_message).                           *)

(* Mutant of Attach: the device keeps the mode recorded for the port.      *)
AttachOver(p, t) == IF t = "none" THEN None
                    ELSE IF devices[p] # None THEN [devices[p] EXCEPT !.type = t]
                    ELSE [type |-> t, mode |-> None, reading |-> None]
Attach(p, t) == IF t = "none" THEN None ELSE [type |-> t, mode |-> None, reading |-> None]

Process ==
  /\ open /\ notices # <<>>
  /\ notices' = Tail(notices)
  /\ LET n == Head(notices)
     IN \/ /\ n.kind = "io" /\ devices' = [devices EXCEPT ![n.port] = Attach(n.port, n.type)]
           /\ crossed' = crossed \ {n.port} /\ UNCHANGED feedback
        \/ /\ n.kind = "value" /\ UNCHANGED feedback
           /\ IF devices[n.port] = None \/ devices[n.port].mode = None
              THEN UNCHANGED <<devices, crossed>>
              ELSE /\ devices' = [devices EXCEPT ![n.port].reading = n.mode]
                   /\ crossed' = IF devices[n.port].mode = n.mode THEN crossed \ {n.port}
                                 ELSE crossed
        \/ /\ n.kind = "feedback" /\ feedback' = Append(feedback, n)
           /\ UNCHANGED <<devices, crossed>>
  /\ UNCHANGED <<call, open, link, hw, mishaps, ran, misled>>

----------------------------------------------------------------------------
(* The hub.  A new command ends the port's old one, which is reported as   *)
(* discarded; one without an end is reported as completed at once.         *)

Room(n) == Len(notices) + n <= MaxNotices /\ Len(feedback) <= MaxFeedback
Ended(S, sched) == LET s == SetToSeq({p \in S : sched[p].job \in {"own", "old"}})
                   IN [i \in DOMAIN s |-> Report(s[i], sched[s[i]].job = "own")]

HubTakes ==
  /\ call.stage = "written" /\ link
  /\ LET c == call.now
         s == SetToSeq(c.ports)
     IN \/ /\ c.op = "subscribe" /\ ran' = TRUE /\ UNCHANGED notices
           /\ hw' = [p \in Ports |-> IF p \in c.ports THEN [hw[p] EXCEPT !.mode = c.mode] ELSE hw[p]]
        \/ /\ c.op \in {"on", "off", "zero"} /\ Room(2 * Len(s)) /\ ran' = TRUE
           /\ notices' = notices \o Ended(c.ports, hw) \o [i \in DOMAIN s |-> Report(s[i], TRUE)]
           /\ hw' = [p \in Ports |-> IF p \in c.ports
                       THEN [hw[p] EXCEPT !.job = IF c.op = "on" THEN "on" ELSE "idle"] ELSE hw[p]]
        \/ /\ c.op = "request" /\ Room(Len(s)) /\ UNCHANGED ran
           /\ notices' = notices \o Ended(c.ports, hw)
           /\ hw' = [p \in Ports |-> IF p \in c.ports THEN [hw[p] EXCEPT !.job = "own"] ELSE hw[p]]
  /\ call' = [call EXCEPT !.stage = "taken"]
  /\ UNCHANGED <<open, link, devices, feedback, mishaps, misled, crossed>>

JobEnds ==
  /\ link /\ Room(1)
  /\ \E p \in Ports :
       /\ hw[p].job \in {"own", "old"}
       /\ hw' = [hw EXCEPT ![p].job = "idle"]
       /\ notices' = IF open THEN Append(notices, Report(p, hw[p].job = "own")) ELSE notices
       /\ ran' = (ran \/ (call.now # None /\ \A q \in call.now.ports : hw'[q].job # "own"
                          /\ hw[p].job = "own"))
  /\ UNCHANGED <<call, open, link, devices, feedback, mishaps, misled, crossed>>

HubValue ==
  /\ open /\ link /\ Room(1)
  /\ \E p \in Ports :
       /\ hw[p].mode # None /\ hw[p].type # "none"
       /\ \A i \in DOMAIN notices : notices[i].kind # "value"
       /\ notices' = Append(notices, [kind |-> "value", port |-> p, mode |-> hw[p].mode])
  /\ UNCHANGED <<call, open, link, devices, feedback, hw, mishaps, ran, misled, crossed>>

(* A device is exchanged; the one plugged in has no mode and no job.       *)
Plug ==
  /\ Mishap /\ Room(1) /\ link
  /\ \E p \in Ports, t \in Types :
       /\ t # hw[p].type /\ hw[p].job # "own"
       /\ hw' = [hw EXCEPT ![p] = [type |-> t, mode |-> None, job |-> "idle"]]
       /\ notices' = IF open THEN Append(notices, [kind |-> "io", port |-> p, type |-> t])
                     ELSE notices
  /\ UNCHANGED <<call, open, link, devices, feedback, ran, misled, crossed>>

LinkDrops ==
  /\ link /\ Mishap /\ link' = FALSE /\ notices' = <<>>
  /\ hw' = [p \in Ports |-> [hw[p] EXCEPT !.mode = None, !.job = "idle"]]
  /\ UNCHANGED <<call, open, devices, feedback, ran, misled, crossed>>

LinkReturns ==
  /\ ~link /\ ~open /\ link' = TRUE
  /\ UNCHANGED <<call, open, devices, notices, feedback, hw, mishaps, ran, misled, crossed>>

Caller == ReadKnown \/ Write \/ Written \/ TakeFeedback \/ Return \/ Disconnected
Next   == \/ Connect \/ Disconnect \/ Begin \/ Caller \/ Cancelled \/ Process
          \/ HubTakes \/ JobEnds \/ HubValue \/ Plug \/ LinkDrops \/ LinkReturns

----------------------------------------------------------------------------
Subscribing(p) == call.now # None /\ call.now.op = "subscribe" /\ p \in call.now.ports

(* The adapter's view of a port agrees with the hub when nothing about the *)
(* port is under way: the device type, the mode it believes subscribed and *)
(* the mode of the cached reading; but for a mode recorded too late, after *)
(* the subscription's write and the task that processes notifications      *)
(* crossed (ble.rs:414).                                                   *)
CacheFollowsHub ==
  \A p \in Ports :
    (open /\ link /\ \A i \in DOMAIN notices : notices[i].port # p)
      => /\ devices[p] = None <=> hw[p].type = "none"
         /\ devices[p] # None => devices[p].type = hw[p].type
         /\ (devices[p] # None /\ p \notin crossed /\ ~Subscribing(p)) =>
              /\ devices[p].mode \in {None, hw[p].mode}
              /\ devices[p].reading \in {None, devices[p].mode}

(* The call waits for a hub that is gone.                                  *)
Stranded == call.phase = "waiting" /\ ~link
=============================================================================
