-------------------------------- MODULE Coral --------------------------------
(***************************************************************************)
(* A LEGO Education Science device: the adapter's calls (crates/           *)
(* bricklogo-hal/src/adapters/coral_adapter.rs), which address motors by   *)
(* bit masks, one or several in a message, and the BLE client (crates/     *)
(* rust-coral/src/ble.rs), whose channel of notifications nobody reads but *)
(* the calls themselves: a sensor read drains it, and a request looks in   *)
(* it for the results of its own messages.                                 *)
(*                                                                         *)
(* Speeds and angles are left out; a position is 0 or 1.  The device is    *)
(* external.                                                               *)
(***************************************************************************)
EXTENDS Integers, FiniteSets, Sequences, SequencesExt

CONSTANTS
  Ports,
  MaxNotices,  (* bound on the notifications nobody has read               *)
  MaxMishaps,  (* bound on what the environment and an impatient user do   *)
  None

Masks   == (SUBSET Ports) \ {{}}
Timed   == {"time", "turn"}
Ops     == {"speed", "run", "stop", "zero", "poll"} \cup Timed
(* One message for each mask; those of a timed command are all sent before *)
(* the first result is waited for (request, request_all).                  *)
Command == [op : Ops, masks : SUBSET Masks]
Result  == [kind : {"result"}, op : Ops, mask : Masks, own : BOOLEAN]
Notice  == Result \cup [kind : {"value"}, port : Ports, at : 0 .. 1]
(* A port's job on the device; own: it is of the command sent last.        *)
Job     == [op : {"idle", "run"} \cup Timed, mask : SUBSET Ports, own : BOOLEAN]
Idle    == [op |-> "idle", mask |-> {}, own |-> FALSE]

VARIABLES
  call,     (* phase and stage of the command being sent, the commands to  *)
            (* come, the masks whose results are awaited                   *)
  open,     (* there are a peripheral and a channel                        *)
  link,     (* the device is in reach                                      *)
  notices,  (* the channel                                                 *)
  cache,    (* last_payloads: the motors' positions                        *)
  hw,       (* the device: per port its job, position, whether it has told *)
  mishaps,
  ran,      (* history: the device is done with the command sent last      *)
  misled    (* history: an older result was taken for that of the request  *)

vars == <<call, open, link, notices, cache, hw, mishaps, ran, misled>>

TypeOK ==
  /\ call \in [phase : {"idle", "waiting", "ok", "failed"},
               stage : {"none", "written", "taken", "reading"}, todo : Seq(Command),
               now : Command \cup {None}, pending : SUBSET Masks]
  /\ open \in BOOLEAN /\ link \in BOOLEAN /\ notices \in Seq(Notice)
  /\ cache \in [Ports -> 0 .. 1 \cup {None}]
  /\ hw \in [Ports -> [job : Job, at : 0 .. 1, told : BOOLEAN]]
  /\ mishaps \in 0 .. MaxMishaps /\ ran \in BOOLEAN /\ misled \in BOOLEAN

NoCall == [phase |-> "idle", stage |-> "none", todo |-> <<>>, now |-> None, pending |-> {}]
Failed == [NoCall EXCEPT !.phase = "failed"]
Over   == call.stage = "none" /\ call.todo = <<>>
Mishap == mishaps < MaxMishaps /\ mishaps' = mishaps + 1
Halted == [p \in Ports |-> [hw[p] EXCEPT !.job = Idle]]

Init ==
  /\ call = NoCall /\ open = FALSE /\ link = TRUE
  /\ notices = <<>> /\ cache = [p \in Ports |-> None]
  /\ hw = [p \in Ports |-> [job |-> Idle, at |-> 0, told |-> FALSE]]
  /\ mishaps = 0 /\ ran = FALSE /\ misled = FALSE

(* on_connected: no payloads; the device notifies what it has.             *)
Connect ==
  /\ Over /\ ~open /\ link
  /\ open' = TRUE /\ call' = NoCall /\ ran' = FALSE /\ misled' = FALSE
  /\ notices' = <<>> /\ cache' = [p \in Ports |-> None]
  /\ hw' = [p \in Ports |-> [hw[p] EXCEPT !.told = FALSE]]
  /\ UNCHANGED <<link, mishaps>>

Disconnect ==
  /\ Over /\ open
  /\ open' = FALSE /\ call' = NoCall /\ ran' = FALSE /\ misled' = FALSE
  /\ notices' = <<>> /\ cache' = [p \in Ports |-> None] /\ hw' = Halted
  /\ UNCHANGED <<link, mishaps>>

----------------------------------------------------------------------------
(* The calls.                                                              *)

Cmd(op, X) == <<[op |-> op, masks |-> X]>>
Single(S)  == {{p} : p \in S}
(* Motors that get the same speed or direction share a message.            *)
Start(S)   == {Cmd("speed", X) \o Cmd("run", Y) : X, Y \in {{S}, Single(S)}}
TimedRun(S) == {Cmd("speed", Single(S)) \o Cmd("time", X) : X \in {{S}, Single(S)}}
Rotate(S)  == Cmd("speed", Single(S)) \o Cmd("turn", Single(S))
(* A rotation to a position reads first, and turns those (D) not there.    *)
RotateTo(S) == {Cmd("poll", {}) \o (IF D = {} THEN <<>> ELSE Rotate(D)) : D \in SUBSET S}

Programs(S) ==
  Start(S) \cup TimedRun(S) \cup RotateTo(S)
  \cup {Cmd("stop", {S}), Cmd("zero", Single(S)), Rotate(S), Cmd("poll", {})}

Begin ==
  /\ Over /\ open
  /\ \E S \in Masks : \E t \in Programs(S) : call' = [call EXCEPT !.todo = t]
  /\ UNCHANGED <<open, link, notices, cache, hw, mishaps, ran, misled>>

Aged(s) == [i \in DOMAIN s |-> IF s[i].kind = "result" THEN [s[i] EXCEPT !.own = FALSE]
                               ELSE s[i]]

(* send.                                                                   *)
Write ==
  /\ call.stage = "none" /\ call.todo # <<>> /\ Head(call.todo).op # "poll"
  /\ call' = IF link THEN [call EXCEPT !.phase = "waiting", !.stage = "written",
                                       !.todo = Tail(@), !.now = Head(call.todo)]
                     ELSE Failed
  /\ ran' = FALSE /\ misled' = FALSE /\ notices' = Aged(notices)
  /\ hw' = [p \in Ports |-> [hw[p] EXCEPT !.job.own = FALSE]]
  /\ UNCHANGED <<open, link, cache, mishaps>>

Written ==
  /\ call.stage = "taken"
  /\ call' = IF call.now.op \in Timed
             THEN [call EXCEPT !.stage = "reading", !.pending = call.now.masks]
             ELSE [call EXCEPT !.phase = "ok", !.stage = "none", !.now = None]
  /\ UNCHANGED <<open, link, notices, cache, hw, mishaps, ran, misled>>

(* Mutant of Payloads: the first value stays.                              *)
FirstPayload(n) == IF n.kind = "value" /\ cache[n.port] = None
                   THEN [cache EXCEPT ![n.port] = n.at] ELSE cache
(* process_notification: whoever reads the channel keeps the payloads.     *)
Payloads(n) == IF n.kind = "value" THEN [cache EXCEPT ![n.port] = n.at] ELSE cache

Settles(n) == IF n.kind = "result" /\ n.op = call.now.op THEN {n.mask} ELSE {}

(* One round of request's or request_all's loop.  The status in the result *)
(* is not looked at.                                                       *)
TakeNotice ==
  /\ call.stage = "reading" /\ call.pending # {} /\ notices # <<>>
  /\ LET n == Head(notices)
     IN /\ call' = [call EXCEPT !.pending = @ \ Settles(n)]
        /\ misled' = (misled \/ (Settles(n) \cap call.pending # {} /\ ~n.own))
        /\ cache' = Payloads(n)
  /\ notices' = Tail(notices)
  /\ UNCHANGED <<open, link, hw, mishaps, ran>>

Return ==
  /\ call.stage = "reading" /\ call.pending = {}
  /\ call' = [call EXCEPT !.phase = "ok", !.stage = "none", !.now = None]
  /\ UNCHANGED <<open, link, notices, cache, hw, mishaps, ran, misled>>

(* poll, on behalf of read_sensor, which never fails.                      *)
Poll ==
  /\ call.stage = "none" /\ call.todo # <<>> /\ Head(call.todo).op = "poll"
  /\ IF notices # <<>>
     THEN /\ cache' = Payloads(Head(notices)) /\ notices' = Tail(notices)
          /\ UNCHANGED call
     ELSE /\ call' = [call EXCEPT !.todo = Tail(@)] /\ UNCHANGED <<cache, notices>>
  /\ UNCHANGED <<open, link, hw, mishaps, ran, misled>>

(* The stream has ended and the channel is empty; or a write failed.       *)
Disconnected ==
  /\ ~link /\ call.phase = "waiting"
  /\ \/ call.stage \in {"written", "taken"}
     \/ call.stage = "reading" /\ call.pending # {} /\ notices = <<>>
  /\ call' = Failed
  /\ UNCHANGED <<open, link, notices, cache, hw, mishaps, ran, misled>>

(* Escape, or half a minute.                                               *)
Cancelled ==
  /\ call.stage = "reading" /\ call.pending # {} /\ Mishap
  /\ call' = Failed
  /\ UNCHANGED <<open, link, notices, cache, hw, ran, misled>>

----------------------------------------------------------------------------
(* The device.  A new command ends the jobs of the motors it names; every  *)
(* message gets a result.                                                  *)

Room == Len(notices) <= MaxNotices
TimedJobs(S) == {hw[p].job : p \in {q \in Ports : hw[q].job.op \in Timed
                                                  /\ hw[q].job.mask \cap S # {}}}
Results(X) == LET s == SetToSeq(X)
              IN [i \in DOMAIN s |-> [kind |-> "result", op |-> s[i].op,
                                      mask |-> s[i].mask, own |-> s[i].own]]
JobOf(c, m) == [op |-> c.op, mask |-> m, own |-> TRUE]

DeviceTakes ==
  /\ call.stage = "written" /\ link /\ Room
  /\ LET c == call.now
         S == UNION c.masks
         ended == IF c.op \in {"speed", "zero"} THEN {} ELSE TimedJobs(S)
         gone  == UNION {j.mask : j \in ended}
         job(p) == IF c.op \in Timed \cup {"run"} /\ p \in S
                   THEN JobOf(c, CHOOSE m \in c.masks : p \in m)
                   ELSE IF (c.op = "stop" /\ p \in S) \/ p \in gone THEN Idle ELSE hw[p].job
     IN /\ hw' = [p \in Ports |->
                    IF c.op = "zero" /\ p \in S
                    THEN [hw[p] EXCEPT !.at = 0, !.told = @ /\ hw[p].at = 0]
                    ELSE [hw[p] EXCEPT !.job = job(p)]]
        /\ notices' = notices \o Results(ended)
                      \o (IF c.op \in Timed THEN <<>> ELSE Results({JobOf(c, m) : m \in c.masks}))
        /\ ran' = (c.op \notin Timed)
  /\ call' = [call EXCEPT !.stage = "taken"]
  /\ UNCHANGED <<open, link, cache, mishaps, misled>>

(* A timed job ends, having moved its motors or not.                       *)
JobEnds ==
  /\ link /\ Room
  /\ \E j \in TimedJobs(Ports), at \in 0 .. 1 :
       /\ hw' = [p \in Ports |-> IF p \in j.mask
                   THEN [job |-> Idle, at |-> at, told |-> hw[p].told /\ at = hw[p].at]
                   ELSE hw[p]]
       /\ notices' = IF open THEN notices \o Results({j}) ELSE notices
       /\ ran' = (ran \/ (j.own /\ \A p \in Ports : ~hw'[p].job.own))
  /\ UNCHANGED <<call, open, link, cache, mishaps, misled>>

(* The periodic notification.                                              *)
Notify ==
  /\ open /\ link /\ Room
  /\ \E p \in Ports :
       /\ ~hw[p].told /\ hw' = [hw EXCEPT ![p].told = TRUE]
       /\ notices' = Append(notices, [kind |-> "value", port |-> p, at |-> hw[p].at])
  /\ UNCHANGED <<call, open, link, cache, mishaps, ran, misled>>

LinkDrops ==
  /\ link /\ Mishap /\ link' = FALSE /\ hw' = Halted
  /\ UNCHANGED <<call, open, notices, cache, ran, misled>>

LinkReturns ==
  /\ ~link /\ ~open /\ link' = TRUE
  /\ UNCHANGED <<call, open, notices, cache, hw, mishaps, ran, misled>>

Caller == Write \/ Written \/ TakeNotice \/ Return \/ Poll \/ Disconnected
Next   == \/ Connect \/ Disconnect \/ Begin \/ Caller \/ Cancelled
          \/ DeviceTakes \/ JobEnds \/ Notify \/ LinkDrops \/ LinkReturns

----------------------------------------------------------------------------
(* A motor's cached position is the device's once what it notified has     *)
(* been read, whoever read it: a sensor read or a request that was looking *)
(* for its result.                                                         *)
CacheFollowsHub ==
  \A p \in Ports :
    (/\ open /\ hw[p].told
     /\ \A i \in DOMAIN notices : ~(notices[i].kind = "value" /\ notices[i].port = p))
      => cache[p] = hw[p].at

(* The call waits for a device that is gone.                               *)
Stranded == call.phase = "waiting" /\ ~link
=============================================================================
