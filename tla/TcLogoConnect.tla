---------------------------- MODULE TcLogoConnect ----------------------------
(***************************************************************************)
(* TC Logo Connect: the adapter's calls and its slot (crates/bricklogo-hal *)
(* /src/adapters/tclogoconnect_adapter.rs) on its serial device (crates/   *)
(* rust-tclogoconnect/src/device.rs).  Every tick applies what is queued   *)
(* and writes all the outputs, which feeds the device's watchdog; then it  *)
(* walks the input reports, which the device sends when an input changes   *)
(* and never else, and counts presses; then it answers, whatever became of *)
(* the write.                                                              *)
(*                                                                         *)
(* A duty is 0 or 1: the PWM frames that carry it are left out.  The       *)
(* device is external.                                                     *)
(***************************************************************************)
EXTENDS Integers, FiniteSets, Sequences, FiniteSetsExt, SequencesExt

CONSTANTS
  Ports,       (* the outputs, and as many inputs                          *)
  MaxLate,     (* bound on the commands queued when another is             *)
  MaxUp,       (* bound on the reports nobody has read                     *)
  MaxMishaps,  (* bound on what the environment does                       *)
  None

Duties  == [Ports -> 0 .. 1]
Command == [entries : UNION {[S -> 0 .. 1] : S \in SUBSET Ports}, own : BOOLEAN]
Inputs  == SUBSET Ports

VARIABLES
  call,     (* phase, the entries to send, whether it ends in disconnect   *)
  open,     (* the adapter holds the slot's channel                        *)
  link,     (* the serial port works                                       *)
  slot,     (* None, or the duties                                         *)
  queue,    (* the channel                                                 *)
  cache,    (* TcState: last_input and edge_counts                         *)
  up,       (* the input reports in the serial buffer                      *)
  hw,       (* the device: outputs, whether they were fed since its        *)
            (* watchdog went off, the inputs pressed, whether reported;     *)
            (* history: duties asked, presses since the counter was reset  *)
  mishaps,
  ran,      (* history: the device was told the command issued last        *)
  misled,   (* history: it was answered Ok though it was not               *)
  raced     (* history: inputs that were pressed when the device was       *)
            (* opened                                                      *)

vars == <<call, open, link, slot, queue, cache, up, hw, mishaps, ran, misled, raced>>

TypeOK ==
  /\ call \in [phase : {"idle", "waiting", "ok", "failed"},
               todo : Seq({c.entries : c \in Command}), closing : BOOLEAN]
  /\ open \in BOOLEAN /\ link \in BOOLEAN
  /\ slot \in Duties \cup {None} /\ queue \in Seq(Command) /\ up \in Seq(Inputs)
  /\ cache \in [input : Inputs, counts : [Ports -> Nat]]
  /\ hw \in [out : Duties, fed : BOOLEAN, pressed : Inputs, told : BOOLEAN, asked : Duties,
             presses : [Ports -> Nat]]
  /\ mishaps \in 0 .. MaxMishaps /\ ran \in BOOLEAN /\ misled \in BOOLEAN /\ raced \in Inputs

Off    == [p \in Ports |-> 0]
NoCall == [phase |-> "idle", todo |-> <<>>, closing |-> FALSE]
Over   == call.phase # "waiting" /\ call.todo = <<>> /\ ~call.closing
Mishap == mishaps < MaxMishaps /\ mishaps' = mishaps + 1
Apply(duties, entries) == [p \in Ports |-> IF p \in DOMAIN entries THEN entries[p] ELSE duties[p]]

Init ==
  /\ call = NoCall /\ open = FALSE /\ link = TRUE /\ slot = None /\ queue = <<>> /\ up = <<>>
  /\ cache = [input |-> {}, counts |-> Off]
  /\ hw \in [out : {Off}, fed : {FALSE}, pressed : Inputs, told : {FALSE}, asked : {Off}, presses : {Off}]
  /\ mishaps = 0 /\ ran = FALSE /\ misled = FALSE /\ raced = {}

(* Device::open; a new TcState, which knows nothing of what was reported   *)
(* during the handshake.                                                   *)
Connect ==
  /\ Over /\ ~open /\ link
  /\ open' = TRUE /\ slot' = Off /\ queue' = <<>> /\ up' = <<>>
  /\ cache' = [input |-> {}, counts |-> Off]
  /\ hw' = [hw EXCEPT !.told = FALSE, !.asked = Off, !.presses = Off, !.fed = FALSE]
  /\ raced' = hw.pressed
  /\ call' = NoCall /\ ran' = FALSE /\ misled' = FALSE
  /\ UNCHANGED <<link, mishaps>>

(* disconnect asks for zeros and waits, then drops the slot.               *)
Disconnect ==
  /\ Over /\ open
  /\ call' = [call EXCEPT !.todo = <<Off>>, !.closing = TRUE]
  /\ UNCHANGED <<open, link, slot, queue, cache, up, hw, mishaps, ran, misled, raced>>
Close ==
  /\ call.closing /\ call.phase # "waiting" /\ call.todo = <<>>
  /\ open' = FALSE /\ slot' = None /\ queue' = <<>> /\ up' = <<>>
  /\ call' = NoCall /\ ran' = FALSE /\ misled' = FALSE
  /\ UNCHANGED <<link, cache, hw, mishaps, raced>>

----------------------------------------------------------------------------
(* start_port(s), stop_port(s), run_port(s)_for_time; "a" is two outputs.  *)
Zeros(S) == [p \in S |-> 0]
Begin ==
  /\ Over /\ open
  /\ \E S \in (SUBSET Ports) \ {{}} : \E f \in [S -> 0 .. 1], timed \in BOOLEAN :
       call' = [call EXCEPT !.todo = IF timed THEN <<f, Zeros(S)>> ELSE <<f>>]
  /\ UNCHANGED <<open, link, slot, queue, cache, up, hw, mishaps, ran, misled, raced>>

(* send_and_wait.                                                          *)
Issue ==
  /\ call.phase # "waiting" /\ call.todo # <<>> /\ Len(queue) <= MaxLate
  /\ queue' = Append([i \in DOMAIN queue |-> [queue[i] EXCEPT !.own = FALSE]],
                     [entries |-> Head(call.todo), own |-> TRUE])
  /\ hw' = [hw EXCEPT !.asked = Apply(@, Head(call.todo))]
  /\ call' = [call EXCEPT !.phase = "waiting", !.todo = Tail(@)]
  /\ ran' = FALSE /\ misled' = FALSE
  /\ UNCHANGED <<open, link, slot, cache, up, mishaps, raced>>

TimeOut ==
  /\ call.phase = "waiting" /\ Mishap
  /\ call' = [call EXCEPT !.phase = "failed", !.todo = <<>>]
  /\ UNCHANGED <<open, link, slot, queue, cache, up, hw, ran, misled, raced>>

(* reset_counter: presses that were not read yet count still.              *)
Presses(from, masks, p) ==
  Cardinality({i \in DOMAIN masks : p \in masks[i] /\ p \notin (IF i = 1 THEN from ELSE masks[i - 1])})
ResetCounter ==
  /\ Over /\ open
  /\ \E p \in Ports :
       /\ cache' = [cache EXCEPT !.counts[p] = 0]
       /\ hw' = [hw EXCEPT !.presses[p] = Presses(cache.input, up, p)]
  /\ UNCHANGED <<call, open, link, slot, queue, up, mishaps, ran, misled, raced>>

----------------------------------------------------------------------------
(* A tick: what is queued is applied in order, all outputs are written,    *)
(* the reports are walked, the answers are sent.  (One with nothing new    *)
(* writes the same outputs again.)                                         *)
(* Mutant of Counted: the last report is compared with the one read before.*)
CountedOnce(p) == IF up # <<>> /\ p \in Last(up) \ cache.input THEN 1 ELSE 0
Counted(p) == Presses(cache.input, up, p)
(* Each output is where the last command that names it puts it.            *)
NewDuties ==
  [p \in Ports |-> LET naming == {i \in DOMAIN queue : p \in DOMAIN queue[i].entries}
                   IN  IF naming = {} THEN slot[p] ELSE queue[Max(naming)].entries[p]]
Tick ==
  /\ slot # None /\ (queue # <<>> \/ up # <<>> \/ (link /\ ~hw.fed))
  /\ slot' = NewDuties /\ queue' = <<>> /\ up' = <<>>
  /\ hw' = IF link THEN [hw EXCEPT !.out = NewDuties, !.fed = TRUE] ELSE hw
  /\ cache' = IF up = <<>> THEN cache
              ELSE [input |-> Last(up), counts |-> [p \in Ports |-> cache.counts[p] + Counted(p)]]
  /\ LET own == \E i \in DOMAIN queue : queue[i].own
     IN /\ call' = IF own /\ call.phase = "waiting" THEN [call EXCEPT !.phase = "ok"] ELSE call
        /\ ran' = (ran \/ (own /\ link)) /\ misled' = (misled \/ (own /\ ~link))
  /\ UNCHANGED <<open, link, mishaps, raced>>

----------------------------------------------------------------------------
(* The device.                                                             *)

(* An input changes.                                                       *)
Press ==
  /\ link /\ open /\ Len(up) < MaxUp /\ Mishap
  /\ \E p \in Ports :
       LET now == (hw.pressed \cup {p}) \ (hw.pressed \cap {p})
       IN /\ hw' = [hw EXCEPT !.pressed = now, !.told = TRUE,
                              !.presses[p] = IF p \in now THEN @ + 1 ELSE @]
          /\ up' = Append(up, now)
  /\ UNCHANGED <<call, open, link, slot, queue, cache, ran, misled, raced>>

(* No frame for half a second: the scheduler was held up, or is done.      *)
Watchdog ==
  /\ (hw.fed \/ hw.out # Off) /\ (open => Mishap) /\ (~open => UNCHANGED mishaps)
  /\ hw' = [hw EXCEPT !.out = Off, !.fed = FALSE]
  /\ UNCHANGED <<call, open, link, slot, queue, cache, up, ran, misled, raced>>

LinkDrops ==
  /\ link /\ Mishap /\ link' = FALSE /\ up' = <<>>
  /\ UNCHANGED <<call, open, slot, queue, cache, hw, ran, misled, raced>>
LinkReturns ==
  /\ ~link /\ ~open /\ link' = TRUE
  /\ UNCHANGED <<call, open, slot, queue, cache, up, hw, mishaps, ran, misled, raced>>

Next == \/ Connect \/ Disconnect \/ Close \/ Begin \/ Issue \/ TimeOut \/ ResetCounter \/ Tick
        \/ Press \/ Watchdog \/ LinkDrops \/ LinkReturns

Spec == Init /\ [][Next]_vars

----------------------------------------------------------------------------
(* The outputs are as the calls asked, in their order, those that timed    *)
(* out included, unless the watchdog was not fed.  Every press is counted, *)
(* however fast, and once; but an input held when the device was opened is *)
(* not known to be, and counts with the next report                        *)
(* (tclogoconnect_adapter.rs:270).                                         *)
CacheFollowsHub ==
  (open /\ link) =>
     /\ (hw.fed /\ queue = <<>>) => hw.out = hw.asked
     /\ (hw.told /\ up = <<>>) => cache.input = hw.pressed
     /\ up = <<>> => \A p \in Ports \ raced : cache.counts[p] = hw.presses[p]

(* The call waits for a device that is gone.                               *)
Stranded == call.phase = "waiting" /\ ~link
=============================================================================
