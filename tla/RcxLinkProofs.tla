---------------------------- MODULE RcxLinkProofs ----------------------------
(***************************************************************************)
(* Proofs about RcxLink for every set of motors and number of retries.     *)
(***************************************************************************)
EXTENDS RcxLink, FiniteSetTheorems, SequenceTheorems, TLAPS

(* What the toggle bit knows: while a command is being sent, the next      *)
(* toggle is the opposite of its own; once the brick received it, the      *)
(* brick's last opcode is its own; before that, unless the brick missed    *)
(* the previous command, the brick's last opcode has the other toggle.     *)
ToggleKnows ==
  /\ sending # None =>
       /\ sending.tries < Tries(sending.cmd)
       /\ sending.got <= sending.tries
       /\ sending.ran <= 1
       /\ toggle = 1 - sending.toggle
       /\ sending.got > 0 => seen = SentOpcode
       /\ sending.got = 0 => sending.ran = 0
       /\ sending.got = 0 /\ ~lapsed => seen # None /\ seen.toggle = 1 - sending.toggle
  /\ sending = None /\ ~lapsed => seen # None /\ seen.toggle = 1 - toggle

(* A reply has one taker: a call that waits, for one command, which is the *)
(* one being sent or one in the channel.                                   *)
AwaitedOnce ==
  /\ sending # None /\ sending.awaited =>
       call # None /\ call.waiting /\ \A i \in 1 .. Len(queue) : ~queue[i].awaited
  /\ \A i \in 1 .. Len(queue) : queue[i].awaited =>
       /\ call # None /\ call.waiting
       /\ \A j \in 1 .. Len(queue) : queue[j].awaited => j = i

Inv == TypeOK /\ ToggleKnows /\ AwaitedOnce

----------------------------------------------------------------------------
(* A function over 1 .. n is a sequence.                                    *)
LEMMA FunctionIsSeq ==
  ASSUME NEW T, NEW n \in Nat, NEW f \in [1 .. n -> T]
  PROVE  f \in Seq(T)
  OBVIOUS

(* A sequence of one element.                                              *)
LEMMA SingletonIsSeq ==
  ASSUME NEW T, NEW e \in T
  PROVE  <<e>> \in Seq(T)
  OBVIOUS

(* A sequence of two elements.                                             *)
LEMMA PairIsSeq ==
  ASSUME NEW T, NEW e \in T, NEW f \in T
  PROVE  <<e, f>> \in Seq(T)
  OBVIOUS

(* The constructors of commands build commands.                            *)
LEMMA CmdTypes ==
  /\ \A kind \in Kinds, S \in SUBSET Ports : Cmd(kind, S) \in Command
  /\ \A S \in SUBSET Ports, d \in Directions : SetDirection(S, d) \in Command
  /\ \A S \in SUBSET Ports, p \in 0 .. MaxPower : SetPower(S, p) \in Command
  /\ \A S \in SUBSET Ports, b \in BOOLEAN : SetState(S, b) \in Command
  <1>1. AtRest \in Motor
    BY RcxLinkAssumption DEF AtRest, Motor, Directions
  <1>2. \A kind \in Kinds, S \in SUBSET Ports : Cmd(kind, S) \in Command
    BY <1>1 DEF Cmd, Command
  <1>3. \A c \in Command, d \in Directions : [c EXCEPT !.to.dir = d] \in Command
    BY DEF Command, Motor
  <1>4. \A c \in Command, p \in 0 .. MaxPower : [c EXCEPT !.to.power = p] \in Command
    BY DEF Command, Motor
  <1>5. \A c \in Command, b \in BOOLEAN : [c EXCEPT !.to.on = b] \in Command
    BY DEF Command, Motor
  <1>6. "direction" \in Kinds /\ "power" \in Kinds /\ "state" \in Kinds
    BY DEF Kinds
  <1> QED
    BY <1>2, <1>3, <1>4, <1>5, <1>6 DEF SetDirection, SetPower, SetState

(* start_ports issues a sequence of commands.                              *)
LEMMA StartCommandsType ==
  ASSUME NEW S \in SUBSET Ports, S # {}, NEW set \in [S -> Settings],
         NEW s \in Orders(S)
  PROVE  StartCommands(set, s) \in Seq(Command)
  <1> DEFINE n == Cardinality(S)
  <1>1. n \in Nat /\ n # 0
    BY RcxLinkAssumption, FS_Subset, FS_CardinalityType, FS_EmptySet
  <1>2. s \in [1 .. n -> S] /\ DOMAIN s = 1 .. n /\ s[1] \in S /\ DOMAIN set = S
    BY <1>1 DEF Orders
  <1>3. \A p \in S : /\ {p} \in SUBSET Ports
                     /\ set[p].dir \in Directions /\ set[p].power \in 0 .. MaxPower
    BY RcxLinkAssumption
  <1> DEFINE dirs == [i \in 1 .. n |-> SetDirection({s[i]}, set[s[i]].dir)]
             powers == [i \in 1 .. n |-> SetPower({s[i]}, set[s[i]].power)]
  <1>4. dirs \in Seq(Command)
    <2>1. \A i \in 1 .. n : SetDirection({s[i]}, set[s[i]].dir) \in Command
      <3> SUFFICES ASSUME NEW i \in 1 .. n
                   PROVE  SetDirection({s[i]}, set[s[i]].dir) \in Command
        OBVIOUS
      <3>1. s[i] \in S
        BY <1>2
      <3> QED
        BY <3>1, <1>3, CmdTypes
    <2>2. dirs \in [1 .. n -> Command]
      BY <2>1
    <2> QED
      BY <1>1, <2>2, FunctionIsSeq
  <1>5. powers \in Seq(Command)
    <2>1. \A i \in 1 .. n : SetPower({s[i]}, set[s[i]].power) \in Command
      <3> SUFFICES ASSUME NEW i \in 1 .. n
                   PROVE  SetPower({s[i]}, set[s[i]].power) \in Command
        OBVIOUS
      <3>1. s[i] \in S
        BY <1>2
      <3> QED
        BY <3>1, <1>3, CmdTypes
    <2>2. powers \in [1 .. n -> Command]
      BY <2>1
    <2> QED
      BY <1>1, <2>2, FunctionIsSeq
  <1>6. /\ <<SetPower(DOMAIN set, set[s[1]].power)>> \in Seq(Command)
        /\ <<SetState(DOMAIN set, TRUE)>> \in Seq(Command)
    <2>1. set[s[1]].power \in 0 .. MaxPower /\ TRUE \in BOOLEAN
      BY <1>2, <1>3
    <2>2. SetPower(S, set[s[1]].power) \in Command /\ SetState(S, TRUE) \in Command
      BY <2>1, CmdTypes
    <2>3. DOMAIN set = S
      BY <1>2
    <2> QED
      BY <2>2, <2>3, SingletonIsSeq
  <1> DEFINE middle == IF SamePower(set)
                       THEN <<SetPower(DOMAIN set, set[s[1]].power)>> ELSE powers
  <1>7. middle \in Seq(Command)
    BY <1>5, <1>6
  <1>8. StartCommands(set, s) = dirs \o middle \o <<SetState(DOMAIN set, TRUE)>>
    BY <1>2 DEF StartCommands
  <1> HIDE DEF dirs, middle
  <1>9. dirs \o middle \in Seq(Command)
    BY <1>4, <1>7, ConcatProperties
  <1> QED
    BY <1>6, <1>8, <1>9, ConcatProperties

(* A new call is well typed.                                               *)
LEMMA BeginType ==
  ASSUME TypeOK, NEW todo \in Seq(Command), NEW goal \in Goal, Begin(todo, goal)
  PROVE  TypeOK'
  BY DEF TypeOK, Begin, Call

(* An Ok or error reply keeps the call well typed.                         *)
LEMMA AnsweredType ==
  ASSUME TypeOK, call # None, NEW ok \in BOOLEAN, NEW executed \in BOOLEAN,
         Answered(ok, executed)
  PROVE  /\ call' \in Call \cup {None}
         /\ returned' \in [goal : Goal, executed : BOOLEAN] \cup {None}
  <1> DEFINE c == [call EXCEPT !.waiting = FALSE, !.executed = @ /\ executed]
  <1>1. call \in Call
    BY DEF TypeOK
  <1>2. c \in Call /\ c.goal \in Goal /\ c.executed \in BOOLEAN
    BY <1>1 DEF Call
  <1>3. [goal |-> c.goal, executed |-> c.executed] \in [goal : Goal, executed : BOOLEAN]
    BY <1>2
  <1>4. \/ call' = c /\ returned' = returned
        \/ call' = None /\ returned' \in {[goal |-> c.goal, executed |-> c.executed], None}
    BY DEF Answered
  <1> HIDE DEF c
  <1> QED
    BY <1>2, <1>3, <1>4 DEF TypeOK

(* A call that is begun leaves the slot and the brick alone.               *)
LEMMA BeginKeeps ==
  ASSUME Inv, NEW todo \in Seq(Command), NEW goal \in Goal, Begin(todo, goal)
  PROVE  Inv'
  <1>1. TypeOK'
    BY BeginType DEF Inv
  <1> QED
    BY <1>1 DEF Inv, ToggleKnows, AwaitedOnce, Begin, SentOpcode

(* start_ports begins a call.                                              *)
LEMMA StartPortsKeeps ==
  ASSUME Inv, StartPorts
  PROVE  Inv'
  <1>1. PICK S \in (SUBSET Ports) \ {{}} : \E set \in [S -> Settings], s \in Orders(S) :
               Begin(StartCommands(set, s), [on |-> TRUE, set |-> set])
    BY DEF StartPorts
  <1>2. PICK set \in [S -> Settings], s \in Orders(S) :
               Begin(StartCommands(set, s), [on |-> TRUE, set |-> set])
    BY <1>1
  <1>3. StartCommands(set, s) \in Seq(Command)
    <2>1. S \in SUBSET Ports /\ S # {}
      OBVIOUS
    <2> QED
      BY <2>1, StartCommandsType
  <1>4. [on |-> TRUE, set |-> set] \in Goal
    BY DEF Goal
  <1> QED
    BY <1>2, <1>3, <1>4, BeginKeeps

(* There is a setting to fill a goal with.                                 *)
LEMMA EmptyGoal ==
  ASSUME NEW S \in SUBSET Ports
  PROVE  [on |-> FALSE, set |-> [p \in S |-> AnySetting]] \in Goal
  <1>1. AnySetting \in Settings
    BY RcxLinkAssumption DEF AnySetting
  <1>2. [p \in S |-> AnySetting] \in [S -> Settings]
    BY <1>1
  <1> QED
    BY <1>2 DEF Goal

(* stop_ports begins a call.                                               *)
LEMMA StopPortsKeeps ==
  ASSUME Inv, StopPorts
  PROVE  Inv'
  <1>1. PICK S \in (SUBSET Ports) \ {{}} :
          Begin(StopCommands(S), [on |-> FALSE, set |-> [p \in S |-> AnySetting]])
    BY DEF StopPorts
  <1>2. SetPower(S, 0) \in Command /\ SetState(S, FALSE) \in Command
    <2>1. S \in SUBSET Ports /\ 0 \in 0 .. MaxPower /\ FALSE \in BOOLEAN
      BY RcxLinkAssumption
    <2> QED
      BY <2>1, CmdTypes
  <1>3. StopCommands(S) \in Seq(Command)
    <2> HIDE DEF Command
    <2> QED
      BY <1>2, PairIsSeq DEF StopCommands
  <1> QED
    BY <1>1, <1>3, EmptyGoal, BeginKeeps

(* read_sensor begins a call and queues at most two commands.              *)
LEMMA ReadSensorKeeps ==
  ASSUME Inv, ReadSensor
  PROVE  Inv'
  <1> DEFINE Entries(setup) == [i \in DOMAIN setup |-> [cmd |-> setup[i], awaited |-> FALSE]]
             Setup == <<Cmd("type", {}), Cmd("mode", {})>>
             goal == [on |-> FALSE, set |-> [p \in {} |-> AnySetting]]
  <1>1. Cmd("type", {}) \in Command /\ Cmd("mode", {}) \in Command /\ Cmd("value", {}) \in Command
    BY CmdTypes DEF Kinds
  <1>2. Entries(<<>>) \in Seq(Item)
    OBVIOUS
  <1>3. Entries(Setup) \in Seq(Item)
    <2>1. Entries(Setup) \in [1 .. 2 -> Item]
      BY <1>1 DEF Item
    <2> QED
      BY <2>1, FunctionIsSeq
  <1>4. PICK setup \in {<<>>, Setup} : queue' = queue \o Entries(setup)
    BY DEF ReadSensor
  <1>5. Entries(setup) \in Seq(Item)
    BY <1>2, <1>3
  <1> HIDE DEF Entries, Setup
  <1>6. queue' \in Seq(Item)
    BY <1>4, <1>5, ConcatProperties DEF Inv, TypeOK
  <1>7. call' \in Call
    <2>1. goal \in Goal
      BY EmptyGoal
    <2>2. <<Cmd("value", {})>> \in Seq(Command)
      BY <1>1, SingletonIsSeq
    <2> QED
      BY <2>1, <2>2 DEF ReadSensor, Call
  <1>8. TypeOK'
    BY <1>6, <1>7 DEF Inv, TypeOK, ReadSensor
  <1> QED
    <2>1. ToggleKnows'
      BY DEF Inv, ToggleKnows, ReadSensor, SentOpcode
    <2>2. \A i \in 1 .. Len(Entries(setup)) : ~Entries(setup)[i].awaited
      BY <1>1 DEF Entries, Setup
    <2>3. AwaitedOnce'
      <3>1. \A i \in 1 .. Len(queue) : ~queue[i].awaited
        BY DEF Inv, AwaitedOnce, ReadSensor
      <3>2. \A i \in 1 .. Len(queue') : ~queue'[i].awaited
        BY <3>1, <2>2, <1>4, <1>5, ConcatProperties DEF Inv, TypeOK
      <3> QED
        BY <3>2 DEF AwaitedOnce, Inv, ReadSensor
    <2> QED
      BY <1>8, <2>1, <2>3 DEF Inv

(* A command put into the channel is well typed.                           *)
LEMMA IssueKeeps ==
  ASSUME Inv, Issue
  PROVE  Inv'
  <1>1. call \in Call /\ call.todo \in Seq(Command) /\ call.todo # <<>>
    BY DEF Inv, TypeOK, Issue, Call
  <1>2. Head(call.todo) \in Command /\ Tail(call.todo) \in Seq(Command)
    BY <1>1
  <1>3. call' \in Call
    BY <1>1, <1>2 DEF Issue, Call
  <1>4. [cmd |-> Head(call.todo), awaited |-> TRUE] \in Item
    BY <1>2 DEF Item
  <1>5. queue' \in Seq(Item)
    BY <1>4 DEF Issue, Inv, TypeOK
  <1>6. TypeOK'
    BY <1>3, <1>5 DEF Inv, TypeOK, Issue
  <1> QED
    <2>1. ToggleKnows'
      BY DEF Inv, ToggleKnows, Issue, SentOpcode
    <2>2. ~(sending # None /\ sending.awaited) /\ \A i \in 1 .. Len(queue) : ~queue[i].awaited
      BY DEF Inv, AwaitedOnce, Issue
    <2>3. /\ Len(queue) \in Nat /\ Len(queue') = Len(queue) + 1
          /\ \A i \in 1 .. Len(queue) : queue'[i] = queue[i]
      BY <1>4 DEF Issue, Inv, TypeOK
    <2>4. call' # None /\ call'.waiting
      BY <1>1, <1>3, RcxLinkAssumption DEF Issue, Call
    <2>5. AwaitedOnce'
      BY <2>2, <2>3, <2>4 DEF AwaitedOnce, Issue
    <2> QED
      BY <1>6, <2>1, <2>5 DEF Inv

(* A call that gives up waiting changes only who awaits its command.       *)
LEMMA TimeOutKeeps ==
  ASSUME Inv, TimeOut
  PROVE  Inv'
  <1>1. queue' \in Seq(Item)
    <2>1. queue' \in [1 .. Len(queue) -> Item]
      <3>1. \A item \in Item : [item EXCEPT !.awaited = FALSE] \in Item
        BY DEF Item
      <3>2. Len(queue) \in Nat /\ DOMAIN queue = 1 .. Len(queue)
        BY DEF Inv, TypeOK
      <3>3. \A i \in 1 .. Len(queue) : queue[i] \in Item
        BY DEF Inv, TypeOK
      <3> QED
        BY <3>1, <3>2, <3>3 DEF TimeOut
    <2> QED
      BY <2>1, FunctionIsSeq DEF Inv, TypeOK
  <1>2. sending' \in Sending \cup {None}
    BY DEF TimeOut, Inv, TypeOK, Sending
  <1>3. sending # None => /\ sending' # None
                          /\ sending'.cmd = sending.cmd
                          /\ sending'.toggle = sending.toggle
                          /\ sending'.tries = sending.tries
                          /\ sending'.got = sending.got
                          /\ sending'.ran = sending.ran
    <2>1. ASSUME sending # None
          PROVE  /\ sending \in Sending
                 /\ sending' = [sending EXCEPT !.awaited = FALSE]
      BY <2>1 DEF TimeOut, Inv, TypeOK
    <2>2. ASSUME sending # None PROVE sending' \in Sending
      BY <2>1, <2>2 DEF Sending
    <2> QED
      BY <2>1, <2>2, RcxLinkAssumption DEF Sending
  <1>4. sending = None => sending' = None
    BY DEF TimeOut
  <1>5. TypeOK'
    BY <1>1, <1>2 DEF Inv, TypeOK, TimeOut
  <1> QED
    <2>1. ToggleKnows'
      BY <1>3, <1>4 DEF Inv, ToggleKnows, TimeOut, SentOpcode
    <2>2. sending' # None => ~sending'.awaited
      BY DEF TimeOut, Inv, TypeOK, Sending
    <2>3. \A i \in 1 .. Len(queue') : ~queue'[i].awaited
      BY DEF TimeOut, Inv, TypeOK, Item
    <2>4. AwaitedOnce'
      BY <2>2, <2>3 DEF AwaitedOnce
    <2> QED
      BY <1>5, <2>1, <2>4 DEF Inv

(* A new command gets the bit the slot has stored, and leaves the other.   *)
LEMMA TakeKeeps ==
  ASSUME Inv, Take
  PROVE  Inv'
  <1>1. queue \in Seq(Item) /\ queue # <<>> /\ toggle \in Bit
    BY DEF Take, Inv, TypeOK
  <1>2. Head(queue) \in Item /\ Tail(queue) \in Seq(Item)
    BY <1>1
  <1>3. Head(queue).cmd \in Command /\ Head(queue).awaited \in BOOLEAN
    BY <1>2 DEF Item
  <1>4. sending' \in Sending
    BY <1>1, <1>3, RcxLinkAssumption DEF Take, Sending
  <1>5. TypeOK'
    BY <1>2, <1>4 DEF Take, NextToggle, Bit, Inv, TypeOK
  <1>6. 0 < Tries(Head(queue).cmd)
    BY RcxLinkAssumption DEF Tries
  <1>7. /\ sending' # None
        /\ sending'.tries = 0 /\ sending'.got = 0 /\ sending'.ran = 0
        /\ sending'.toggle = toggle /\ sending'.cmd = Head(queue).cmd
        /\ toggle' = 1 - toggle /\ seen' = seen /\ lapsed' = lapsed
    BY <1>4, RcxLinkAssumption DEF Take, NextToggle
  <1>8. ~lapsed => seen # None /\ seen.toggle = 1 - toggle
    BY DEF Take, Inv, ToggleKnows
  <1> QED
    <2>1. ToggleKnows'
      BY <1>6, <1>7, <1>8 DEF ToggleKnows
    <2>2. /\ Len(queue) \in Nat \ {0} /\ queue[1] = Head(queue)
          /\ Len(queue') = Len(queue) - 1
          /\ \A i \in 1 .. Len(queue') : queue'[i] = queue[i + 1]
      BY <1>1 DEF Take
    <2>3. sending'.awaited = queue[1].awaited /\ call' = call /\ sending = None
      BY <2>2 DEF Take
    <2>4. \A i \in 1 .. Len(queue') : i + 1 \in 1 .. Len(queue) /\ i + 1 # 1
      BY <2>2
    <2>5. AwaitedOnce'
      <3>1. queue[1].awaited =>
              /\ call # None /\ call.waiting
              /\ \A j \in 1 .. Len(queue) : queue[j].awaited => j = 1
        BY <2>2 DEF Inv, AwaitedOnce
      <3>2. sending'.awaited =>
              call' # None /\ call'.waiting /\ \A i \in 1 .. Len(queue') : ~queue'[i].awaited
        BY <3>1, <2>2, <2>3, <2>4
      <3>3. \A i \in 1 .. Len(queue') : queue'[i].awaited =>
              /\ call' # None /\ call'.waiting
              /\ \A j \in 1 .. Len(queue') : queue'[j].awaited => j = i
        <4> SUFFICES ASSUME NEW i \in 1 .. Len(queue'), queue'[i].awaited
                     PROVE  /\ call' # None /\ call'.waiting
                            /\ \A j \in 1 .. Len(queue') : queue'[j].awaited => j = i
          OBVIOUS
        <4>1. i + 1 \in 1 .. Len(queue) /\ queue[i + 1].awaited
          BY <2>2, <2>4
        <4>2. /\ call # None /\ call.waiting
              /\ \A j \in 1 .. Len(queue) : queue[j].awaited => j = i + 1
          BY <4>1 DEF Inv, AwaitedOnce
        <4>3. \A j \in 1 .. Len(queue') : queue'[j].awaited => j + 1 = i + 1
          BY <4>2, <2>2, <2>4
        <4> QED
          BY <4>2, <4>3, <2>2, <2>3
      <3> QED
        BY <3>2, <3>3 DEF AwaitedOnce
    <2> QED
      BY <1>5, <2>1, <2>5 DEF Inv

(* What the brick does with a request keeps its state well typed.          *)
LEMMA BrickSideType ==
  ASSUME TypeOK, sending \in Sending, NEW got \in BOOLEAN, BrickSide(got)
  PROVE  seen' \in Opcode \cup {None} /\ motor' \in [Ports -> Motor]
  <1>1. SentOpcode \in Opcode
    BY DEF SentOpcode, Sending, Command, Opcode
  <1>2. sending.cmd.to \in Motor
    BY DEF Sending, Command
  <1>3. \A m \in Motor, n \in Motor : /\ [m EXCEPT !.dir = n.dir] \in Motor
                                    /\ [m EXCEPT !.power = n.power] \in Motor
                                    /\ [m EXCEPT !.on = n.on] \in Motor
    BY DEF Motor
  <1>4. \A p \in Ports : motor[p] \in Motor
    BY DEF TypeOK
  <1>5. Done(sending.cmd) \in [Ports -> Motor]
    <2> HIDE DEF Motor
    <2> QED
      BY <1>2, <1>3, <1>4 DEF Done
  <1> QED
    BY <1>1, <1>5 DEF BrickSide, TypeOK

(* What an attempt adds to the command's books.                            *)
LEMMA AfterType ==
  ASSUME Inv, sending # None, NEW got \in BOOLEAN
  PROVE  LET s == After(got)
         IN /\ s \in Sending
            /\ s.tries = sending.tries + 1 /\ s.got = sending.got + Counted(got)
            /\ s.ran = sending.ran + Counted(got /\ Executes) /\ s.cmd = sending.cmd
            /\ s.toggle = sending.toggle /\ s.awaited = sending.awaited
            /\ s.tries \in 0 .. Retries /\ s.tries <= Tries(sending.cmd)
            /\ s.got \in 0 .. Retries /\ s.got <= s.tries
            /\ s.ran <= 1 /\ s.ran \in 0 .. Retries /\ (s.got = 0 => s.ran = 0)
  <1> DEFINE s == After(got)
  <1>2. sending # None /\ sending \in Sending
    BY DEF Inv, TypeOK
  <1>3. /\ sending.tries \in Nat /\ sending.got \in Nat /\ sending.ran \in Nat
        /\ sending.tries < Tries(sending.cmd) /\ sending.got <= sending.tries
        /\ sending.ran <= 1
        /\ sending.got > 0 => seen = SentOpcode
        /\ sending.got = 0 => sending.ran = 0
        /\ toggle = 1 - sending.toggle /\ sending.toggle \in Bit
    BY <1>2, RcxLinkAssumption DEF Inv, ToggleKnows, Sending
  <1>4. Tries(sending.cmd) \in Nat /\ Tries(sending.cmd) <= Retries
    BY RcxLinkAssumption DEF Tries
  <1>5. /\ s.tries = sending.tries + 1 /\ s.got = sending.got + Counted(got)
        /\ s.ran = sending.ran + Counted(got /\ Executes) /\ s.cmd = sending.cmd
        /\ s.toggle = sending.toggle /\ s.awaited = sending.awaited
    BY <1>2 DEF Sending, After
  <1>6. /\ s.tries \in 0 .. Retries /\ s.tries <= Tries(sending.cmd)
        /\ s.got \in 0 .. Retries /\ s.got <= s.tries
    <2> HIDE DEF s
    <2> QED
      BY <1>3, <1>4, <1>5, RcxLinkAssumption DEF Counted
  <1>7. s.ran <= 1 /\ s.ran \in 0 .. Retries /\ (s.got = 0 => s.ran = 0)
    <2> HIDE DEF s
    <2>1. CASE sending.got > 0
      BY <2>1, <1>3, <1>5, RcxLinkAssumption DEF Executes, Counted
    <2>2. CASE sending.got = 0
      BY <2>2, <1>3, <1>5, RcxLinkAssumption DEF Counted
    <2> QED
      BY <1>3, <2>1, <2>2
  <1>8. s \in Sending
    <2>1. \A a \in 0 .. Retries, b \in 0 .. Retries, c \in 0 .. Retries :
            [sending EXCEPT !.tries = a, !.got = b, !.ran = c] \in Sending
      BY <1>2 DEF Sending
    <2>2. s = [sending EXCEPT !.tries = s.tries, !.got = s.got, !.ran = s.ran]
      BY <1>5 DEF After
    <2> HIDE DEF s
    <2> QED
      <3>1. [sending EXCEPT !.tries = s.tries, !.got = s.got, !.ran = s.ran] \in Sending
        BY <2>1, <1>6, <1>7
      <3> QED
        BY <3>1, <2>2
  <1> QED
    BY <1>5, <1>6, <1>7, <1>8

(* One attempt: the brick executes the command the first time it receives  *)
(* it and acknowledges it again after that; the link's books stay right.   *)
LEMMA AttemptKeeps ==
  ASSUME Inv, Attempt
  PROVE  Inv'
  <1>1. PICK got \in BOOLEAN, reply \in {"prompt", "late", "lost"}, ok \in BOOLEAN :
          /\ unread' \in Waiting(reply) /\ unread' <= MaxUnread
          /\ BrickSide(got)
          /\ Ends(After(got), ok) \/ Repeats(After(got), ok)
    BY DEF Attempt, Replies, Answers
  <1> DEFINE s == After(got)
  <1>2. sending # None /\ sending \in Sending
    BY DEF Attempt, Inv, TypeOK
  <1>3. /\ sending.tries \in Nat /\ sending.got \in Nat /\ sending.ran \in Nat
        /\ sending.tries < Tries(sending.cmd) /\ sending.got <= sending.tries
        /\ sending.ran <= 1
        /\ sending.got > 0 => seen = SentOpcode
        /\ sending.got = 0 => sending.ran = 0
        /\ toggle = 1 - sending.toggle /\ sending.toggle \in Bit
    BY <1>2, RcxLinkAssumption DEF Inv, ToggleKnows, Sending
  <1>5. /\ s.tries = sending.tries + 1 /\ s.got = sending.got + Counted(got)
        /\ s.ran = sending.ran + Counted(got /\ Executes) /\ s.cmd = sending.cmd
        /\ s.toggle = sending.toggle /\ s.awaited = sending.awaited
    BY <1>2, AfterType
  <1>6. s.got \in 0 .. Retries /\ s.got <= s.tries
    BY <1>2, AfterType
  <1>7. s.ran <= 1 /\ s.ran \in 0 .. Retries /\ (s.got = 0 => s.ran = 0)
    BY <1>2, AfterType
  <1>8. s \in Sending
    BY <1>2, AfterType
  <1>9. s.got > 0 => seen' = SentOpcode
    BY <1>1, <1>3, <1>5 DEF BrickSide, Counted
  <1>10. s.got = 0 => seen' = seen
    BY <1>1, <1>3, <1>5 DEF BrickSide, Counted
  <1>11. SentOpcode \in Opcode /\ SentOpcode # None /\ SentOpcode.toggle = sending.toggle
    BY <1>2, RcxLinkAssumption DEF SentOpcode, Sending, Command, Opcode
  <1>12. queue' = queue /\ toggle' = toggle
    BY DEF Attempt
  <1>13. seen' \in Opcode \cup {None} /\ motor' \in [Ports -> Motor]
    BY <1>1, <1>2, BrickSideType DEF Inv
  <1>14. unread' \in 0 .. MaxUnread
    BY <1>1, RcxLinkAssumption DEF Waiting, Inv, TypeOK
  <1>15. CASE Ends(s, ok)
    <2>1. sending' = None /\ lapsed' = (s.got = 0)
      BY <1>15 DEF Ends
    <2>2. /\ call' \in Call \cup {None}
          /\ returned' \in [goal : Goal, executed : BOOLEAN] \cup {None}
      <3>1. CASE s.awaited
        <4>1. Answered(ok, s.ran > 0)
          BY <3>1, <1>15 DEF Ends
        <4>2. call # None
          BY <3>1, <1>5, <1>2 DEF Inv, AwaitedOnce
        <4> QED
          <5> DEFINE executed == s.ran > 0
          <5>1. executed \in BOOLEAN /\ TypeOK /\ Answered(ok, executed)
            BY <4>1, <1>7 DEF Inv
          <5> HIDE DEF executed
          <5> QED
            BY <5>1, <4>2, AnsweredType
      <3>2. CASE ~s.awaited
        BY <3>2, <1>15 DEF Ends, Inv, TypeOK
      <3> QED
        BY <3>1, <3>2
    <2>3. TypeOK'
      BY <2>1, <2>2, <1>12, <1>13, <1>14 DEF Inv, TypeOK
    <2>4. ~lapsed' => seen' # None /\ seen'.toggle = 1 - toggle'
      <3>1. s.got # 0 => s.got > 0
        BY <1>6, RcxLinkAssumption
      <3>2. sending.toggle = 1 - toggle
        BY <1>3 DEF Bit
      <3> HIDE DEF s
      <3>3. ~lapsed' => seen' = SentOpcode
        BY <3>1, <2>1, <1>9
      <3> QED
        BY <3>2, <3>3, <1>11, <1>12
    <2>5. AwaitedOnce'
      <3>1. CASE s.awaited
        <4>1. \A i \in 1 .. Len(queue) : ~queue[i].awaited
          BY <3>1, <1>5, <1>2 DEF Inv, AwaitedOnce
        <4> QED
          BY <4>1, <2>1, <1>12 DEF AwaitedOnce
      <3>2. CASE ~s.awaited
        BY <3>2, <1>15, <2>1, <1>12 DEF Ends, Inv, AwaitedOnce
      <3> QED
        BY <3>1, <3>2
    <2> QED
      BY <2>1, <2>3, <2>4, <2>5 DEF Inv, ToggleKnows
  <1>16. CASE Repeats(s, ok)
    <2>1. sending' = s /\ lapsed' = lapsed /\ call' = call /\ returned' = returned
      BY <1>16 DEF Repeats
    <2>2. TypeOK'
      BY <2>1, <1>8, <1>12, <1>13, <1>14 DEF Inv, TypeOK
    <2>3. SentOpcode' = SentOpcode
      BY <2>1, <1>5 DEF SentOpcode
    <2>4. s.got = 0 /\ ~lapsed => seen' # None /\ seen'.toggle = 1 - s.toggle
      <3>1. s.got = 0 => sending.got = 0
        BY <1>3, <1>5 DEF Counted
      <3> HIDE DEF s
      <3> QED
        BY <3>1, <1>2, <1>5, <1>10 DEF Inv, ToggleKnows
    <2>5. s.tries < Tries(s.cmd)
      BY <1>16 DEF Repeats
    <2> HIDE DEF s
    <2>0. sending' # None
      BY <2>1, <1>8, RcxLinkAssumption
    <2>6. ToggleKnows'
      BY <2>0, <2>1, <2>3, <2>4, <2>5, <1>2, <1>3, <1>5, <1>6, <1>7, <1>9, <1>12
      DEF ToggleKnows
    <2>7. AwaitedOnce'
      BY <2>1, <1>2, <1>5, <1>12 DEF Inv, AwaitedOnce
    <2> QED
      BY <2>2, <2>6, <2>7, <2>1 DEF Inv
  <1> QED
    BY <1>1, <1>15, <1>16

(* A new slot starts over.                                                 *)
LEMMA ReconnectKeeps ==
  ASSUME Inv, Reconnect
  PROVE  Inv'
  <1>1. TypeOK'
    BY RcxLinkAssumption DEF Reconnect, Inv, TypeOK, Bit
  <1> QED
    BY <1>1 DEF Reconnect, Inv, ToggleKnows, AwaitedOnce

----------------------------------------------------------------------------
(* The invariant holds initially.                                          *)
LEMMA InitInv == Init => Inv
  <1> SUFFICES ASSUME Init PROVE Inv
    OBVIOUS
  <1>1. AtRest \in Motor
    BY RcxLinkAssumption DEF AtRest, Motor, Directions
  <1> QED
    BY <1>1, RcxLinkAssumption DEF Init, Inv, TypeOK, ToggleKnows, AwaitedOnce, Bit

(* Every step keeps it.                                                    *)
LEMMA NextInv == Inv /\ [Next]_vars => Inv'
  <1> SUFFICES ASSUME Inv, [Next]_vars PROVE Inv'
    OBVIOUS
  <1>1. CASE StartPorts
    BY <1>1, StartPortsKeeps
  <1>2. CASE StopPorts
    BY <1>2, StopPortsKeeps
  <1>3. CASE ReadSensor
    BY <1>3, ReadSensorKeeps
  <1>4. CASE Issue
    BY <1>4, IssueKeeps
  <1>5. CASE TimeOut
    BY <1>5, TimeOutKeeps
  <1>6. CASE Take
    BY <1>6, TakeKeeps
  <1>7. CASE Attempt
    BY <1>7, AttemptKeeps
  <1>8. CASE Reconnect
    BY <1>8, ReconnectKeeps
  <1>9. CASE UNCHANGED vars
    BY <1>9 DEF vars, Inv, TypeOK, ToggleKnows, AwaitedOnce, SentOpcode
  <1> QED
    BY <1>1, <1>2, <1>3, <1>4, <1>5, <1>6, <1>7, <1>8, <1>9 DEF Next

(* Type correctness, and what the toggle bit knows.                        *)
THEOREM Invariant == Spec => []Inv
  BY InitInv, NextInv, PTL DEF Spec

(* Whatever is lost or late, the call, the slot and the brick have their   *)
(* types.                                                                  *)
THEOREM TypeCorrect == Spec => []TypeOK
  BY Invariant, PTL DEF Inv

(* However often send_with_retry sends a command, the brick executes it at *)
(* most once.                                                              *)
THEOREM ExecutedAtMostOnce == Spec => []AtMostOnce
  <1>1. Inv => AtMostOnce
    <2> SUFFICES ASSUME Inv, sending # None, sending.ran > 0
                 PROVE  seen = SentOpcode
      BY DEF AtMostOnce, Executes
    <2>1. sending \in Sending
      BY DEF Inv, TypeOK
    <2>2. sending.got # 0
      BY DEF Inv, ToggleKnows
    <2> QED
      BY <2>1, <2>2, RcxLinkAssumption DEF Inv, ToggleKnows, Sending
  <1> QED
    BY <1>1, Invariant, PTL

(* A new command that reaches the brick is ignored only after a command    *)
(* the brick never received, or on a slot just registered.                 *)
THEOREM NewCommandsAreNew == Spec => []IgnoredOnlyAfterLapse
  <1>1. Inv => IgnoredOnlyAfterLapse
    <2> SUFFICES ASSUME Inv, sending # None, sending.got = 0, ~lapsed
                 PROVE  Executes
      BY DEF IgnoredOnlyAfterLapse
    <2>1. sending.toggle \in Bit /\ seen.toggle = 1 - sending.toggle
      BY DEF Inv, TypeOK, Sending, ToggleKnows
    <2> QED
      BY <2>1 DEF Executes, SentOpcode, Bit
  <1> QED
    BY <1>1, Invariant, PTL

----------------------------------------------------------------------------
(* What a call's Ok is worth.  AwaitedOnce is not enough for it: the proof *)
(* follows what a call is to achieve, aspect by aspect of each motor, from *)
(* the commands it has not issued through the channel and the slot to the  *)
(* brick, past what earlier calls left in the channel.                     *)

(* What a call is to set of each motor: a stop only its state.             *)
Aspects(goal) == IF goal.on THEN {"direction", "power", "state"} ELSE {"state"}
Right(goal, p, k, m) ==
  /\ k = "direction" => m.dir = goal.set[p].dir
  /\ k = "power" => m.power = goal.set[p].power
  /\ k = "state" => m.on = goal.on
Covers(c, p, k) == c.kind = k /\ p \in c.mask
Agrees(c, goal) ==
  \A p \in DOMAIN goal.set, k \in Aspects(goal) : Covers(c, p, k) => Right(goal, p, k, c.to)

(* A command a call waits for is the last of the channel, or was.          *)
AwaitedLast ==
  /\ \A i \in 1 .. Len(queue) : queue[i].awaited => i = Len(queue)
  /\ sending # None /\ sending.awaited => queue = <<>>

(* No command nobody waits for is ahead of the call's.                     *)
Clear ==
  /\ sending # None => sending.awaited
  /\ \A i \in 1 .. Len(queue) : queue[i].awaited

(* Every command of a call is for what the call is to achieve, ...         *)
CallAgrees ==
  call # None =>
    /\ \A c \in Range(call.todo) : Agrees(c, call.goal)
    /\ \A i \in 1 .. Len(queue) : queue[i].awaited => Agrees(queue[i].cmd, call.goal)
    /\ sending # None /\ sending.awaited => Agrees(sending.cmd, call.goal)

Ahead(p, k) ==
  \/ \E c \in Range(call.todo) : Covers(c, p, k)
  \/ \E i \in 1 .. Len(queue) : queue[i].awaited /\ Covers(queue[i].cmd, p, k)
  \/ sending # None /\ sending.awaited /\ sending.ran = 0 /\ Covers(sending.cmd, p, k)

(* ... and what it is to achieve of a motor is so for good or is still to  *)
(* come.                                                                   *)
CallAchieves ==
  call # None /\ call.executed =>
    \A p \in DOMAIN call.goal.set, k \in Aspects(call.goal) :
      Ahead(p, k) \/ (Clear /\ Right(call.goal, p, k, motor[p]))

(* Nothing moves between a call's Ok and the next call.                    *)
RestsAfterOk ==
  returned # None =>
    /\ call = None /\ sending = None /\ queue = <<>>
    /\ returned.executed =>
         \A p \in DOMAIN returned.goal.set, k \in Aspects(returned.goal) :
           Right(returned.goal, p, k, motor[p])

CallInv == AwaitedLast /\ CallAgrees /\ CallAchieves /\ RestsAfterOk

(* What a sequence holds is its head and what its tail holds.              *)
LEMMA RangeOfTail ==
  ASSUME NEW T, NEW s \in Seq(T), s # <<>>
  PROVE  Range(s) = {Head(s)} \cup Range(Tail(s))
  <1>5. /\ Tail(s) \in Seq(T) /\ Range(s) = {s[i] : i \in 1 .. Len(s)}
        /\ Range(Tail(s)) = {Tail(s)[i] : i \in 1 .. Len(Tail(s))}
    BY HeadTailProperties, RangeEquality
  <1>1. /\ Len(s) \in Nat \ {0} /\ Head(s) = s[1] /\ Len(Tail(s)) = Len(s) - 1
        /\ \A i \in 1 .. Len(s) - 1 : Tail(s)[i] = s[i + 1]
    BY HeadTailProperties
  <1>2. ASSUME NEW i \in 1 .. Len(s)
        PROVE  s[i] \in {Head(s)} \cup Range(Tail(s))
    <2>1. CASE i = 1
      BY <1>1, <2>1
    <2>2. CASE i # 1
      <3>1. i - 1 \in 1 .. Len(s) - 1 /\ (i - 1) + 1 = i
        BY <1>1, <2>2
      <3>2. Tail(s)[i - 1] = s[i]
        BY <1>1, <3>1
      <3> QED
        BY <1>1, <1>5, <3>1, <3>2
    <2> QED
      BY <2>1, <2>2
  <1>3. s[1] \in Range(s)
    BY <1>1, <1>5
  <1>4. \A i \in 1 .. Len(s) - 1 : Tail(s)[i] \in Range(s)
    BY <1>1, <1>5
  <1> QED
    BY <1>1, <1>2, <1>3, <1>4, <1>5

(* Every motor of a batch has its place in its order.                      *)
LEMMA OrdersAreOnto ==
  ASSUME NEW S \in SUBSET Ports, NEW s \in Orders(S)
  PROVE  \A p \in S : \E i \in 1 .. Cardinality(S) : s[i] = p
  <1> DEFINE n == Cardinality(S)
  <1>1. IsFiniteSet(S) /\ n \in Nat
    BY RcxLinkAssumption, FS_Subset, FS_CardinalityType
  <1>2. s \in [1 .. n -> S] /\ \A i, j \in 1 .. n : s[i] = s[j] => i = j
    BY <1>1 DEF Orders
  <1>3. s \in Injection(1 .. n, S)
    BY <1>2 DEF Injection, IsInjective
  <1>4. Cardinality(1 .. n) = n
    BY <1>1, FS_Interval
  <1>5. s \in Surjection(1 .. n, S)
    BY <1>1, <1>3, <1>4, FS_Injection
  <1> QED
    BY <1>5 DEF Surjection

(* A sequence of one element holds it.                                     *)
LEMMA SingletonRange ==
  ASSUME NEW e
  PROVE  Range(<<e>>) = {e}
  BY DEF Range

(* Three sequences, one after the other, hold what each of them holds.     *)
LEMMA RangeOfThree ==
  ASSUME NEW T, NEW a \in Seq(T), NEW b \in Seq(T), NEW c \in Seq(T)
  PROVE  Range(a \o b \o c) = Range(a) \cup Range(b) \cup Range(c)
  <1>1. a \o b \in Seq(T) /\ Range(a \o b) = Range(a) \cup Range(b)
    BY ConcatProperties, RangeConcatenation
  <1>2. \A s \in Seq(T) : Range(s \o c) = Range(s) \cup Range(c)
    BY RangeConcatenation
  <1> QED
    BY <1>1, <1>2

(* The kinds of the constructors' commands.                                *)
LEMMA CmdFields ==
  ASSUME NEW S, NEW x
  PROVE  /\ SetDirection(S, x).kind = "direction" /\ SetDirection(S, x).mask = S
         /\ SetDirection(S, x).to.dir = x
         /\ SetPower(S, x).kind = "power" /\ SetPower(S, x).mask = S
         /\ SetPower(S, x).to.power = x
  BY DEF SetDirection, SetPower, Cmd, AtRest

(* Those of the state command, whose argument is a truth value.            *)
LEMMA StateFields ==
  ASSUME NEW S
  PROVE  /\ SetState(S, TRUE).kind = "state" /\ SetState(S, TRUE).mask = S
         /\ SetState(S, TRUE).to.on = TRUE
         /\ SetState(S, FALSE).kind = "state" /\ SetState(S, FALSE).mask = S
         /\ SetState(S, FALSE).to.on = FALSE
  BY DEF SetState, Cmd, AtRest

(* A command agrees with a goal if what it sets does.                      *)
LEMMA AgreesIf ==
  ASSUME NEW c, NEW goal,
         \A p \in c.mask \cap DOMAIN goal.set :
           /\ c.kind = "direction" => c.to.dir = goal.set[p].dir
           /\ c.kind = "power" => c.to.power = goal.set[p].power
           /\ c.kind = "state" => c.to.on = goal.on
  PROVE  Agrees(c, goal)
  BY DEF Agrees, Covers, Right

(* start_ports sets the direction, the power and the state of every motor  *)
(* it was given, each as it was given.                                     *)
LEMMA StartCommandsAim ==
  ASSUME NEW S \in SUBSET Ports, S # {}, NEW set \in [S -> Settings], NEW s \in Orders(S)
  PROVE  LET goal == [on |-> TRUE, set |-> set]
             commands == Range(StartCommands(set, s))
         IN /\ \A c \in commands : Agrees(c, goal)
            /\ \A p \in S, k \in Aspects(goal) : \E c \in commands : Covers(c, p, k)
  <1> DEFINE n == Cardinality(S)
             goal == [on |-> TRUE, set |-> set]
             commands == Range(StartCommands(set, s))
             dirs == [i \in 1 .. n |-> SetDirection({s[i]}, set[s[i]].dir)]
             powers == [i \in 1 .. n |-> SetPower({s[i]}, set[s[i]].power)]
             one == <<SetPower(S, set[s[1]].power)>>
             middle == IF SamePower(set) THEN one ELSE powers
             last == <<SetState(S, TRUE)>>
  <1>1. n \in Nat /\ n # 0 /\ 1 \in 1 .. n
    BY RcxLinkAssumption, FS_Subset, FS_CardinalityType, FS_EmptySet
  <1>2. s \in [1 .. n -> S] /\ DOMAIN s = 1 .. n /\ s[1] \in S /\ DOMAIN set = S
    BY <1>1 DEF Orders
  <1>3. \A p \in S : /\ {p} \in SUBSET Ports
                     /\ set[p].dir \in Directions /\ set[p].power \in 0 .. MaxPower
    BY RcxLinkAssumption
  <1>4. /\ \A i \in 1 .. n : SetDirection({s[i]}, set[s[i]].dir) \in Command
        /\ \A i \in 1 .. n : SetPower({s[i]}, set[s[i]].power) \in Command
        /\ SetPower(S, set[s[1]].power) \in Command /\ SetState(S, TRUE) \in Command
    <2>1. \A i \in 1 .. n : s[i] \in S
      BY <1>2
    <2> QED
      BY <2>1, <1>1, <1>2, <1>3, CmdTypes
  <1>5. /\ dirs \in [1 .. n -> Command] /\ powers \in [1 .. n -> Command]
        /\ one \in Seq(Command) /\ last \in Seq(Command)
    BY <1>4, SingletonIsSeq
  <1>6. dirs \in Seq(Command) /\ powers \in Seq(Command)
    BY <1>1, <1>5, FunctionIsSeq
  <1>7. /\ Range(dirs) = {dirs[i] : i \in 1 .. n} /\ Range(powers) = {powers[i] : i \in 1 .. n}
        /\ Range(one) = {SetPower(S, set[s[1]].power)} /\ Range(last) = {SetState(S, TRUE)}
    <2>1. Range(one) = {SetPower(S, set[s[1]].power)} /\ Range(last) = {SetState(S, TRUE)}
      BY SingletonRange
    <2> HIDE DEF dirs, powers
    <2> QED
      BY <1>1, <1>5, <2>1 DEF Range
  <1>8. StartCommands(set, s) = dirs \o middle \o last
    BY <1>2 DEF StartCommands
  <1>9. commands = Range(dirs) \cup Range(middle) \cup Range(last)
    <2> HIDE DEF dirs, one, powers, last
    <2>1. middle \in Seq(Command) /\ dirs \o middle \in Seq(Command)
      BY <1>5, <1>6, ConcatProperties
    <2> HIDE DEF middle
    <2>2. Range(dirs \o middle \o last) = Range(dirs) \cup Range(middle) \cup Range(last)
      BY <1>5, <1>6, <2>1, RangeOfThree
    <2> QED
      BY <1>8, <2>2
  <1>10. \A i \in 1 .. n : /\ dirs[i].kind = "direction" /\ dirs[i].mask = {s[i]}
                          /\ dirs[i].to.dir = set[s[i]].dir
                          /\ powers[i].kind = "power" /\ powers[i].mask = {s[i]}
                          /\ powers[i].to.power = set[s[i]].power
    BY CmdFields
  <1>11. /\ SetState(S, TRUE).kind = "state" /\ SetState(S, TRUE).mask = S
         /\ SetState(S, TRUE).to.on = TRUE
         /\ SetPower(S, set[s[1]].power).kind = "power" /\ SetPower(S, set[s[1]].power).mask = S
         /\ SetPower(S, set[s[1]].power).to.power = set[s[1]].power
    <2>1. /\ SetState(S, TRUE).kind = "state" /\ SetState(S, TRUE).mask = S
          /\ SetState(S, TRUE).to.on = TRUE
      BY StateFields
    <2>2. /\ SetPower(S, set[s[1]].power).kind = "power"
          /\ SetPower(S, set[s[1]].power).mask = S
          /\ SetPower(S, set[s[1]].power).to.power = set[s[1]].power
      BY CmdFields
    <2> QED
      BY <2>1, <2>2
  <1>12. SamePower(set) => \A p \in S : set[p].power = set[s[1]].power
    BY <1>2 DEF SamePower
  <1>13. \A p \in S : \E i \in 1 .. n : s[i] = p
    BY OrdersAreOnto
  <1>14. Aspects(goal) = {"direction", "power", "state"} /\ goal.set = set /\ goal.on = TRUE
    BY DEF Aspects
  <1> HIDE DEF dirs, powers, goal, commands
  <1>15. \A c \in commands : Agrees(c, goal)
    <2>0. \A i \in 1 .. n : s[i] \in S
      BY <1>2
    <2>1. /\ \A i \in 1 .. n : Agrees(dirs[i], goal) /\ Agrees(powers[i], goal)
          /\ Agrees(SetState(S, TRUE), goal)
      <3>1. ASSUME NEW i \in 1 .. n PROVE Agrees(dirs[i], goal) /\ Agrees(powers[i], goal)
        BY <1>10, <1>14, AgreesIf
      <3>2. Agrees(SetState(S, TRUE), goal)
        BY <1>11, <1>14, AgreesIf
      <3> QED
        BY <3>1, <3>2
    <2>2. SamePower(set) => Agrees(SetPower(S, set[s[1]].power), goal)
      BY <1>11, <1>12, <1>14, AgreesIf
    <2> QED
      BY <1>7, <1>9, <2>1, <2>2
  <1>16. ASSUME NEW p \in S, NEW k \in Aspects(goal) PROVE \E c \in commands : Covers(c, p, k)
    <2>1. PICK i \in 1 .. n : s[i] = p
      BY <1>13
    <2>2. /\ Covers(dirs[i], p, "direction") /\ Covers(powers[i], p, "power")
          /\ Covers(SetState(S, TRUE), p, "state")
          /\ Covers(SetPower(S, set[s[1]].power), p, "power")
      BY <1>10, <1>11, <2>1 DEF Covers
    <2> QED
      BY <1>7, <1>9, <1>14, <2>2
  <1> QED
    BY <1>15, <1>16 DEF goal, commands

(* stop_ports stops every motor it was given.                              *)
LEMMA StopCommandsAim ==
  ASSUME NEW S \in SUBSET Ports
  PROVE  LET goal == [on |-> FALSE, set |-> [p \in S |-> AnySetting]]
             commands == Range(StopCommands(S))
         IN /\ StopCommands(S) \in Seq(Command)
            /\ \A c \in commands : Agrees(c, goal)
            /\ \A p \in S, k \in Aspects(goal) : \E c \in commands : Covers(c, p, k)
  <1> DEFINE goal == [on |-> FALSE, set |-> [p \in S |-> AnySetting]]
  <1>0. S \in SUBSET Ports /\ 0 \in 0 .. MaxPower /\ FALSE \in BOOLEAN
    BY RcxLinkAssumption
  <1>1. SetPower(S, 0) \in Command /\ SetState(S, FALSE) \in Command
    BY <1>0, CmdTypes
  <1>2. /\ StopCommands(S) \in Seq(Command)
        /\ Range(StopCommands(S)) = {SetPower(S, 0), SetState(S, FALSE)}
    <2> DEFINE a == SetPower(S, 0)
               b == SetState(S, FALSE)
    <2>1. StopCommands(S) = <<a, b>>
      BY DEF StopCommands
    <2>2. a \in Command /\ b \in Command
      BY <1>1
    <2> HIDE DEF a, b
    <2>3. <<a, b>> \in Seq(Command) /\ Range(<<a, b>>) = {a, b}
      BY <2>2, PairIsSeq DEF Range
    <2> QED
      BY <2>1, <2>3 DEF a, b
  <1>3. /\ SetPower(S, 0).kind = "power" /\ SetState(S, FALSE).kind = "state"
        /\ SetState(S, FALSE).mask = S /\ SetState(S, FALSE).to.on = FALSE
    <2>1. SetPower(S, 0).kind = "power"
      BY CmdFields
    <2>2. /\ SetState(S, FALSE).kind = "state" /\ SetState(S, FALSE).mask = S
          /\ SetState(S, FALSE).to.on = FALSE
      BY StateFields
    <2> QED
      BY <2>1, <2>2
  <1>4. Aspects(goal) = {"state"} /\ goal.on = FALSE /\ DOMAIN goal.set = S
    BY DEF Aspects
  <1> HIDE DEF goal
  <1>5. \A c \in Range(StopCommands(S)) : Agrees(c, goal)
    BY <1>2, <1>3, <1>4 DEF Agrees, Covers, Right
  <1>6. \A p \in S, k \in Aspects(goal) : \E c \in Range(StopCommands(S)) : Covers(c, p, k)
    BY <1>2, <1>3, <1>4 DEF Covers
  <1> QED
    BY <1>2, <1>5, <1>6 DEF goal

----------------------------------------------------------------------------
(* A call that is begun has everything to do still ahead of it.            *)
LEMMA BeginAims ==
  ASSUME Inv, CallInv, NEW todo \in Seq(Command), NEW goal \in Goal, Begin(todo, goal),
         \A c \in Range(todo) : Agrees(c, goal),
         \A p \in DOMAIN goal.set, k \in Aspects(goal) : \E c \in Range(todo) : Covers(c, p, k)
  PROVE  CallInv'
  <1>1. /\ sending # None => ~sending.awaited
        /\ \A i \in 1 .. Len(queue) : ~queue[i].awaited
    BY DEF Begin, Inv, AwaitedOnce
  <1>2. call'.todo = todo /\ call'.goal = goal
    BY DEF Begin
  <1>3. queue' = queue /\ sending' = sending /\ returned' = None
    BY DEF Begin
  <1>4. AwaitedLast'
    BY <1>1, <1>3 DEF AwaitedLast
  <1>5. CallAgrees'
    BY <1>1, <1>2, <1>3 DEF CallAgrees
  <1>6. CallAchieves'
    BY <1>2 DEF CallAchieves, Ahead
  <1>7. RestsAfterOk'
    BY <1>3 DEF RestsAfterOk
  <1> QED
    BY <1>4, <1>5, <1>6, <1>7 DEF CallInv

(* start_ports begins a call for what it was given.                        *)
LEMMA StartPortsAims ==
  ASSUME Inv, CallInv, StartPorts
  PROVE  CallInv'
  <1>1. PICK S \in (SUBSET Ports) \ {{}} : \E set \in [S -> Settings], s \in Orders(S) :
               Begin(StartCommands(set, s), [on |-> TRUE, set |-> set])
    BY DEF StartPorts
  <1>2. PICK set \in [S -> Settings], s \in Orders(S) :
               Begin(StartCommands(set, s), [on |-> TRUE, set |-> set])
    BY <1>1
  <1> DEFINE goal == [on |-> TRUE, set |-> set]
             todo == StartCommands(set, s)
  <1>3. todo \in Seq(Command)
    BY StartCommandsType
  <1>4. goal \in Goal /\ DOMAIN goal.set = S
    BY DEF Goal
  <1>5. /\ \A c \in Range(todo) : Agrees(c, goal)
        /\ \A p \in S, k \in Aspects(goal) : \E c \in Range(todo) : Covers(c, p, k)
    BY StartCommandsAim
  <1>6. Begin(todo, goal)
    BY <1>2
  <1> HIDE DEF goal, todo
  <1> QED
    BY <1>3, <1>4, <1>5, <1>6, BeginAims

(* stop_ports begins a call for what it was given.                         *)
LEMMA StopPortsAims ==
  ASSUME Inv, CallInv, StopPorts
  PROVE  CallInv'
  <1>1. PICK S \in (SUBSET Ports) \ {{}} :
          Begin(StopCommands(S), [on |-> FALSE, set |-> [p \in S |-> AnySetting]])
    BY DEF StopPorts
  <1> DEFINE goal == [on |-> FALSE, set |-> [p \in S |-> AnySetting]]
             todo == StopCommands(S)
  <1>2. goal \in Goal /\ DOMAIN goal.set = S
    BY EmptyGoal
  <1>3. /\ todo \in Seq(Command)
        /\ \A c \in Range(todo) : Agrees(c, goal)
        /\ \A p \in S, k \in Aspects(goal) : \E c \in Range(todo) : Covers(c, p, k)
    BY StopCommandsAim
  <1>4. Begin(todo, goal)
    BY <1>1
  <1> HIDE DEF goal, todo
  <1> QED
    BY <1>2, <1>3, <1>4, BeginAims

(* read_sensor sets no motor.                                              *)
LEMMA ReadSensorAims ==
  ASSUME Inv, CallInv, ReadSensor
  PROVE  CallInv'
  <1>1. PICK setup \in {<<>>, <<Cmd("type", {}), Cmd("mode", {})>>} :
          queue' = queue \o [i \in DOMAIN setup |-> [cmd |-> setup[i], awaited |-> FALSE]]
    BY DEF ReadSensor
  <1>2. setup \in Seq(Command)
    <2>1. Cmd("type", {}) \in Command /\ Cmd("mode", {}) \in Command
      BY CmdTypes DEF Kinds
    <2> HIDE DEF Cmd
    <2>2. /\ <<Cmd("type", {}), Cmd("mode", {})>> \in Seq(Command)
          /\ <<>> \in Seq(Command)
      BY <2>1, PairIsSeq
    <2> QED
      BY <2>2
  <1> DEFINE new == [i \in DOMAIN setup |-> [cmd |-> setup[i], awaited |-> FALSE]]
  <1>3. \A i \in 1 .. Len(setup) : setup[i] \in Command
    BY <1>2
  <1>4. new \in Seq(Item) /\ Len(new) = Len(setup) /\ \A i \in 1 .. Len(new) : ~new[i].awaited
    <2>1. new \in [1 .. Len(setup) -> Item]
      BY <1>2, <1>3 DEF Item
    <2>2. \A i \in 1 .. Len(setup) : new[i].awaited = FALSE
      BY <1>2
    <2>3. Len(setup) \in Nat
      BY <1>2
    <2> HIDE DEF new
    <2>4. new \in Seq(Item) /\ Len(new) = Len(setup)
      BY <2>1, <2>3, FunctionIsSeq
    <2> QED
      BY <2>2, <2>4
  <1>5. /\ call = None /\ queue \in Seq(Item)
        /\ sending' = sending /\ returned' = None
        /\ call'.todo = <<Cmd("value", {})>>
        /\ call'.goal = [on |-> FALSE, set |-> [p \in {} |-> AnySetting]]
    BY DEF ReadSensor, Inv, TypeOK
  <1>6. /\ sending # None => ~sending.awaited
        /\ \A i \in 1 .. Len(queue) : ~queue[i].awaited
    BY <1>5 DEF Inv, AwaitedOnce
  <1>7. \A i \in 1 .. Len(queue') : ~queue'[i].awaited
    <2>1. queue' = queue \o new
      BY <1>1
    <2> HIDE DEF new
    <2>2. /\ Len(queue') = Len(queue) + Len(new)
          /\ \A i \in 1 .. Len(queue') :
               queue'[i] = IF i <= Len(queue) THEN queue[i] ELSE new[i - Len(queue)]
      BY <1>4, <1>5, <2>1
    <2>3. Len(queue) \in Nat /\ Len(new) \in Nat
      BY <1>4, <1>5
    <2> SUFFICES ASSUME NEW i \in 1 .. Len(queue') PROVE ~queue'[i].awaited
      OBVIOUS
    <2>4. CASE i <= Len(queue)
      BY <2>2, <2>3, <2>4, <1>6
    <2>5. CASE ~(i <= Len(queue))
      <3>1. i - Len(queue) \in 1 .. Len(new)
        BY <2>2, <2>3, <2>5
      <3> QED
        BY <2>2, <2>5, <3>1, <1>4
    <2> QED
      BY <2>4, <2>5
  <1>8. DOMAIN call'.goal.set = {}
    BY <1>5
  <1>9. AwaitedLast'
    BY <1>5, <1>6, <1>7 DEF AwaitedLast
  <1>10. CallAgrees'
    BY <1>8 DEF CallAgrees, Agrees
  <1>11. CallAchieves'
    BY <1>8 DEF CallAchieves
  <1>12. RestsAfterOk'
    BY <1>5 DEF RestsAfterOk
  <1> QED
    BY <1>9, <1>10, <1>11, <1>12 DEF CallInv

(* A command that is issued is the last of the channel.                    *)
LEMMA IssueAims ==
  ASSUME Inv, CallInv, Issue
  PROVE  CallInv'
  <1>1. call # None /\ call \in Call /\ ~call.waiting /\ call.todo # <<>>
    BY DEF Issue, Inv, TypeOK
  <1>2. /\ call.todo \in Seq(Command) /\ queue \in Seq(Item) /\ Len(queue) \in Nat
    BY <1>1 DEF Call, Inv, TypeOK
  <1> DEFINE c == Head(call.todo)
  <1>3. c \in Command /\ Range(call.todo) = {c} \cup Range(Tail(call.todo))
    BY <1>1, <1>2, RangeOfTail
  <1>4. /\ sending # None => ~sending.awaited
        /\ \A i \in 1 .. Len(queue) : ~queue[i].awaited
    BY <1>1 DEF Inv, AwaitedOnce
  <1>5. /\ Len(queue') = Len(queue) + 1
        /\ \A i \in 1 .. Len(queue) : queue'[i] = queue[i]
        /\ queue'[Len(queue) + 1] = [cmd |-> c, awaited |-> TRUE]
    <2>1. [cmd |-> c, awaited |-> TRUE] \in Item
      BY <1>3 DEF Item
    <2> QED
      BY <1>2, <2>1 DEF Issue
  <1>6. /\ call'.todo = Tail(call.todo) /\ call'.goal = call.goal
        /\ call'.executed = call.executed
        /\ sending' = sending /\ motor' = motor /\ returned' = returned
    BY <1>1 DEF Issue, Call
  <1>7. \A i \in 1 .. Len(queue') : queue'[i].awaited => i = Len(queue')
    <2> SUFFICES ASSUME NEW i \in 1 .. Len(queue'), queue'[i].awaited PROVE i = Len(queue')
      OBVIOUS
    <2>1. i \in 1 .. Len(queue) \/ i = Len(queue) + 1
      BY <1>2, <1>5
    <2> QED
      BY <1>4, <1>5, <2>1
  <1>8. AwaitedLast'
    BY <1>4, <1>6, <1>7 DEF AwaitedLast
  <1>9. /\ queue'[Len(queue')].awaited /\ queue'[Len(queue')].cmd = c
        /\ Len(queue') \in 1 .. Len(queue')
    BY <1>2, <1>5
  <1> HIDE DEF c
  <1>10. \A d \in Range(call.todo) : Agrees(d, call.goal)
    BY <1>1 DEF CallInv, CallAgrees
  <1>11. CallAgrees'
    <2>1. \A i \in 1 .. Len(queue') : queue'[i].awaited => Agrees(queue'[i].cmd, call.goal)
      BY <1>3, <1>7, <1>9, <1>10
    <2> QED
      BY <2>1, <1>3, <1>4, <1>6, <1>10 DEF CallAgrees
  <1>12. CallAchieves'
    <2> SUFFICES ASSUME call'.executed,
                        NEW p \in DOMAIN call.goal.set, NEW k \in Aspects(call.goal)
                 PROVE  Ahead(p, k)' \/ (Clear' /\ Right(call.goal, p, k, motor[p]))
      BY <1>6 DEF CallAchieves
    <2>1. Ahead(p, k) \/ (Clear /\ Right(call.goal, p, k, motor[p]))
      BY <1>1, <1>6 DEF CallInv, CallAchieves
    <2>2. CASE Clear /\ Right(call.goal, p, k, motor[p])
      <3>1. sending = None /\ Len(queue) = 0
        <4>1. \A i \in 1 .. Len(queue) : FALSE
          BY <2>2, <1>4 DEF Clear
        <4>2. ~(0 < Len(queue))
          BY <4>1, <1>2
        <4> QED
          BY <2>2, <1>2, <1>4, <4>2 DEF Clear
      <3>2. Clear'
        BY <3>1, <1>5, <1>6, <1>9 DEF Clear
      <3> QED
        BY <3>2, <2>2
    <2>3. CASE Ahead(p, k)
      <3>1. \E d \in Range(call.todo) : Covers(d, p, k)
        BY <2>3, <1>4 DEF Ahead
      <3>2. CASE Covers(c, p, k)
        BY <3>2, <1>9 DEF Ahead
      <3>3. CASE \E d \in Range(Tail(call.todo)) : Covers(d, p, k)
        BY <3>3, <1>6 DEF Ahead
      <3> QED
        BY <1>3, <3>1, <3>2, <3>3
    <2> QED
      BY <2>1, <2>2, <2>3
  <1>13. RestsAfterOk'
    BY <1>1, <1>6 DEF CallInv, RestsAfterOk
  <1> QED
    BY <1>8, <1>11, <1>12, <1>13 DEF CallInv

(* A call that gives up leaves a command nobody waits for.                 *)
LEMMA TimeOutAims ==
  ASSUME Inv, CallInv, TimeOut
  PROVE  CallInv'
  <1>1. call # None /\ call' = None /\ returned' = returned /\ returned = None
    BY DEF TimeOut, CallInv, RestsAfterOk
  <1>2. \A i \in 1 .. Len(queue') : ~queue'[i].awaited
    BY DEF TimeOut, Inv, TypeOK, Item
  <1>3. sending' # None => ~sending'.awaited
    BY DEF TimeOut, Inv, TypeOK, Sending
  <1> QED
    BY <1>1, <1>2, <1>3 DEF CallInv, AwaitedLast, CallAgrees, CallAchieves, RestsAfterOk

(* The slot takes the call's command when there is no other.               *)
LEMMA TakeAims ==
  ASSUME Inv, CallInv, Take
  PROVE  CallInv'
  <1>1. /\ queue \in Seq(Item) /\ queue # <<>> /\ sending = None
        /\ call' = call /\ motor' = motor /\ returned' = returned
    BY DEF Take, Inv, TypeOK
  <1>2. /\ Len(queue) \in Nat \ {0} /\ queue[1] = Head(queue)
        /\ Len(queue') = Len(queue) - 1
        /\ \A i \in 1 .. Len(queue') : queue'[i] = queue[i + 1]
        /\ queue' \in Seq(Item)
    BY <1>1 DEF Take
  <1>3. \A i \in 1 .. Len(queue') : i + 1 \in 1 .. Len(queue)
    BY <1>2
  <1>4. /\ sending' # None /\ sending'.cmd = queue[1].cmd
        /\ sending'.awaited = queue[1].awaited /\ sending'.ran = 0
    <2>1. queue[1] \in Item /\ toggle \in Bit
      BY <1>1, <1>2 DEF Inv, TypeOK
    <2>2. sending' \in Sending
      BY <2>1, <1>2, RcxLinkAssumption DEF Take, Sending, Item
    <2> QED
      BY <2>2, <1>2, RcxLinkAssumption DEF Take
  <1>5. AwaitedLast'
    <2>1. \A i \in 1 .. Len(queue) : queue[i].awaited => i = Len(queue)
      BY DEF CallInv, AwaitedLast
    <2>2. \A i \in 1 .. Len(queue') : queue'[i].awaited => i = Len(queue')
      <3> SUFFICES ASSUME NEW i \in 1 .. Len(queue'), queue'[i].awaited PROVE i = Len(queue')
        OBVIOUS
      <3>1. i + 1 = Len(queue)
        BY <1>2, <1>3, <2>1
      <3> QED
        BY <3>1, <1>2
    <2>3. queue[1].awaited => queue' = <<>>
      <3> HAVE queue[1].awaited
      <3>1. Len(queue) = 1
        BY <2>1, <1>2
      <3> QED
        BY <3>1, <1>2
    <2> QED
      BY <2>2, <2>3, <1>4 DEF AwaitedLast
  <1>6. CallAgrees'
    <2> SUFFICES ASSUME call # None PROVE CallAgrees'
      BY <1>1 DEF CallAgrees
    <2>1. \A i \in 1 .. Len(queue) : queue[i].awaited => Agrees(queue[i].cmd, call.goal)
      BY DEF CallInv, CallAgrees
    <2>2. \A i \in 1 .. Len(queue') : queue'[i].awaited => Agrees(queue'[i].cmd, call.goal)
      BY <2>1, <1>2, <1>3
    <2>3. sending'.awaited => Agrees(sending'.cmd, call.goal)
      BY <2>1, <1>2, <1>4
    <2> QED
      BY <2>2, <2>3, <1>1 DEF CallAgrees, CallInv
  <1>7. CallAchieves'
    <2> SUFFICES ASSUME call # None, call.executed,
                        NEW p \in DOMAIN call.goal.set, NEW k \in Aspects(call.goal)
                 PROVE  Ahead(p, k)' \/ (Clear' /\ Right(call.goal, p, k, motor[p]))
      BY <1>1 DEF CallAchieves
    <2>1. Ahead(p, k) \/ (Clear /\ Right(call.goal, p, k, motor[p]))
      BY DEF CallInv, CallAchieves
    <2>2. CASE Clear /\ Right(call.goal, p, k, motor[p])
      <3>1. Clear'
        BY <2>2, <1>2, <1>3, <1>4 DEF Clear
      <3> QED
        BY <3>1, <2>2
    <2>3. CASE \E d \in Range(call.todo) : Covers(d, p, k)
      BY <2>3, <1>1 DEF Ahead
    <2>4. ASSUME NEW i \in 1 .. Len(queue), queue[i].awaited, Covers(queue[i].cmd, p, k)
          PROVE  Ahead(p, k)'
      <3>1. CASE i = 1
        BY <2>4, <3>1, <1>4 DEF Ahead
      <3>2. CASE i # 1
        <4>1. i - 1 \in 1 .. Len(queue') /\ (i - 1) + 1 = i
          BY <3>2, <1>2
        <4>2. queue'[i - 1] = queue[i]
          BY <4>1, <1>2
        <4> QED
          BY <2>4, <4>1, <4>2 DEF Ahead
      <3> QED
        BY <3>1, <3>2
    <2> QED
      BY <2>1, <2>2, <2>3, <2>4, <1>1 DEF Ahead
  <1>8. RestsAfterOk'
    BY <1>1 DEF CallInv, RestsAfterOk
  <1> QED
    BY <1>5, <1>6, <1>7, <1>8 DEF CallInv

(* Reconnecting finds no call in progress.                                 *)
LEMMA ReconnectAims ==
  ASSUME Inv, CallInv, Reconnect
  PROVE  CallInv'
  BY DEF Reconnect, CallInv, AwaitedLast, CallAgrees, CallAchieves, RestsAfterOk

(* What the brick executes of a goal makes more of it so, and undoes none. *)
LEMMA DoneIsRight ==
  ASSUME TypeOK, NEW c \in Command, NEW goal \in Goal, Agrees(c, goal),
         NEW p \in DOMAIN goal.set, NEW k \in Aspects(goal),
         Right(goal, p, k, motor[p]) \/ Covers(c, p, k)
  PROVE  Right(goal, p, k, Done(c)[p])
  <1>1. p \in Ports /\ motor[p] \in Motor
    BY DEF Goal, TypeOK
  <1>2. k \in {"direction", "power", "state"}
    BY DEF Aspects
  <1>3. Covers(c, p, k) => Right(goal, p, k, c.to)
    BY DEF Agrees
  <1>4. CASE p \notin c.mask
    <2>1. Done(c)[p] = motor[p]
      BY <1>1, <1>4 DEF Done
    <2> QED
      BY <2>1, <1>4 DEF Covers
  <1>5. CASE p \in c.mask /\ c.kind = "direction"
    <2>1. Done(c)[p] = [motor[p] EXCEPT !.dir = c.to.dir]
      BY <1>1, <1>5 DEF Done
    <2> QED
      BY <2>1, <1>1, <1>2, <1>3, <1>5 DEF Covers, Right, Motor
  <1>6. CASE p \in c.mask /\ c.kind = "power"
    <2>1. Done(c)[p] = [motor[p] EXCEPT !.power = c.to.power]
      BY <1>1, <1>6 DEF Done
    <2> QED
      BY <2>1, <1>1, <1>2, <1>3, <1>6 DEF Covers, Right, Motor
  <1>7. CASE p \in c.mask /\ c.kind = "state"
    <2>1. Done(c)[p] = [motor[p] EXCEPT !.on = c.to.on]
      BY <1>1, <1>7 DEF Done
    <2> QED
      BY <2>1, <1>1, <1>2, <1>3, <1>7 DEF Covers, Right, Motor
  <1>8. CASE p \in c.mask /\ c.kind \notin {"direction", "power", "state"}
    <2>1. Done(c)[p] = motor[p]
      BY <1>1, <1>8 DEF Done
    <2> QED
      BY <2>1, <1>2, <1>8 DEF Covers
  <1> QED
    BY <1>4, <1>5, <1>6, <1>7, <1>8

(* An attempt executes the call's command or leaves it ahead; a command    *)
(* nobody waits for may undo what the call has yet to do, and no more.     *)
LEMMA AttemptAims ==
  ASSUME Inv, CallInv, Attempt
  PROVE  CallInv'
  <1>1. PICK got \in BOOLEAN, reply \in {"prompt", "late", "lost"}, ok \in BOOLEAN :
          /\ BrickSide(got)
          /\ Ends(After(got), ok) \/ Repeats(After(got), ok)
    BY DEF Attempt, Replies, Answers
  <1> DEFINE s == After(got)
             ran == got /\ Executes
  <1>2. sending # None /\ sending \in Sending /\ TypeOK
    BY DEF Attempt, Inv, TypeOK
  <1>3. /\ s.cmd = sending.cmd /\ s.awaited = sending.awaited
        /\ s.ran = sending.ran + Counted(ran)
    BY <1>2 DEF Sending, After
  <1>4. sending.ran \in Nat
    BY <1>2, RcxLinkAssumption DEF Sending
  <1>5. s.ran > 0 => sending.ran > 0 \/ ran
    <2> HIDE DEF s, ran
    <2> QED
      BY <1>3, <1>4 DEF Counted
  <1>6. motor' = IF ran THEN Done(sending.cmd) ELSE motor
    BY <1>1 DEF BrickSide
  <1>7. queue' = queue /\ returned = None
    BY <1>2 DEF Attempt, CallInv, RestsAfterOk
  <1>8. sending.cmd \in Command
    BY <1>2 DEF Sending
  <1>9. s \in Sending
    BY <1>2, AfterType
  <1> HIDE DEF s, ran
  <1>10. CASE ~sending.awaited
    <2>1. call' = call /\ returned' = None /\ (sending' = None \/ sending' = s)
      BY <1>1, <1>3, <1>7, <1>10 DEF Ends, Repeats, s
    <2>2. ~Clear
      BY <1>2, <1>10 DEF Clear
    <2>3. AwaitedLast'
      BY <1>3, <1>7, <1>10, <2>1 DEF CallInv, AwaitedLast
    <2>4. CallAgrees'
      BY <1>3, <1>7, <1>10, <2>1 DEF CallInv, CallAgrees
    <2>5. CallAchieves'
      <3> SUFFICES ASSUME call # None, call.executed,
                          NEW p \in DOMAIN call.goal.set, NEW k \in Aspects(call.goal)
                   PROVE  Ahead(p, k)'
        BY <2>1 DEF CallAchieves
      <3>1. Ahead(p, k)
        BY <2>2 DEF CallInv, CallAchieves
      <3> QED
        BY <3>1, <1>7, <1>10, <2>1 DEF Ahead
    <2>6. RestsAfterOk'
      BY <2>1 DEF RestsAfterOk
    <2> QED
      BY <2>3, <2>4, <2>5, <2>6 DEF CallInv
  <1>11. CASE sending.awaited
    <2>1. queue = <<>> /\ call # None /\ call \in Call
      BY <1>2, <1>11 DEF Inv, TypeOK, AwaitedOnce, CallInv, AwaitedLast
    <2>2. \A i \in 1 .. Len(queue) : FALSE
      BY <2>1
    <2>3. call.goal \in Goal /\ call.todo \in Seq(Command)
      BY <2>1 DEF Call
    <2>4. Agrees(sending.cmd, call.goal)
      BY <1>2, <1>11, <2>1 DEF CallInv, CallAgrees
    <2>5. ASSUME call.executed, NEW p \in DOMAIN call.goal.set, NEW k \in Aspects(call.goal)
          PROVE  \/ \E d \in Range(call.todo) : Covers(d, p, k)
                 \/ Right(call.goal, p, k, motor'[p])
                 \/ s.ran = 0 /\ Covers(sending.cmd, p, k)
      <3>1. Ahead(p, k) \/ Right(call.goal, p, k, motor[p])
        BY <2>1, <2>5 DEF CallInv, CallAchieves
      <3>2. CASE \E d \in Range(call.todo) : Covers(d, p, k)
        BY <3>2
      <3>3. CASE Right(call.goal, p, k, motor[p])
        BY <3>3, <1>2, <1>6, <1>8, <2>3, <2>4, DoneIsRight
      <3>4. CASE sending.ran = 0 /\ Covers(sending.cmd, p, k)
        <4>1. CASE ran
          BY <4>1, <3>4, <1>2, <1>6, <1>8, <2>3, <2>4, DoneIsRight
        <4>2. CASE ~ran
          BY <4>2, <3>4, <1>3 DEF Counted
        <4> QED
          BY <4>1, <4>2
      <3> QED
        BY <3>1, <3>2, <3>3, <3>4, <2>2 DEF Ahead
    <2>6. CASE Repeats(After(got), ok)
      <3>1. sending' = s /\ call' = call /\ returned' = None
        BY <1>7, <2>6 DEF Repeats, s
      <3>2. Clear'
        BY <1>3, <1>7, <1>11, <2>2, <3>1 DEF Clear
      <3>3. CallAchieves'
        <4> SUFFICES ASSUME call.executed,
                            NEW p \in DOMAIN call.goal.set, NEW k \in Aspects(call.goal)
                     PROVE  Ahead(p, k)' \/ Right(call.goal, p, k, motor'[p])
          BY <3>1, <3>2 DEF CallAchieves
        <4>1. CASE s.ran = 0 /\ Covers(sending.cmd, p, k)
          <5>1. s # None
            BY <1>9, RcxLinkAssumption
          <5> QED
            BY <4>1, <5>1, <1>3, <1>11, <3>1 DEF Ahead
        <4> QED
          BY <4>1, <2>5, <3>1 DEF Ahead
      <3>4. AwaitedLast'
        BY <1>7, <2>1, <2>2 DEF AwaitedLast
      <3>5. CallAgrees'
        BY <1>3, <1>7, <2>1, <2>2, <2>4, <3>1 DEF CallInv, CallAgrees
      <3>6. RestsAfterOk'
        BY <3>1 DEF RestsAfterOk
      <3> QED
        BY <3>3, <3>4, <3>5, <3>6 DEF CallInv
    <2>7. CASE Ends(After(got), ok)
      <3>1. sending' = None /\ Answered(ok, s.ran > 0)
        BY <1>3, <1>11, <2>7 DEF Ends, s
      <3> DEFINE c == [call EXCEPT !.waiting = FALSE, !.executed = @ /\ s.ran > 0]
      <3>2. /\ c.todo = call.todo /\ c.goal = call.goal
            /\ c.executed = (call.executed /\ s.ran > 0)
        BY <2>1 DEF Call
      <3>3. /\ ok /\ call.todo # <<>> => call' = c /\ returned' = None
            /\ ~(ok /\ call.todo # <<>>) => call' = None
            /\ ok /\ call.todo = <<>> =>
                 returned' = [goal |-> c.goal, executed |-> c.executed]
            /\ ~ok => returned' = None
        BY <1>7, <3>1 DEF Answered
      <3> HIDE DEF c
      <3>4. Clear' /\ AwaitedLast'
        BY <1>7, <2>2, <3>1 DEF Clear, AwaitedLast
      <3>5. ASSUME c.executed, NEW p \in DOMAIN call.goal.set, NEW k \in Aspects(call.goal)
            PROVE  \/ \E d \in Range(call.todo) : Covers(d, p, k)
                   \/ Right(call.goal, p, k, motor'[p])
        <4>1. call.executed /\ s.ran > 0
          BY <3>2, <3>5
        <4>2. s.ran # 0
          BY <4>1
        <4> QED
          BY <4>1, <4>2, <2>5
      <3>6. CASE ok /\ call.todo # <<>>
        <4>1. call' = c /\ returned' = None
          BY <3>3, <3>6
        <4>2. CallAgrees'
          BY <1>7, <2>1, <2>2, <3>1, <3>2, <4>1 DEF CallInv, CallAgrees
        <4>3. CallAchieves'
          <5> SUFFICES ASSUME c.executed,
                              NEW p \in DOMAIN call.goal.set, NEW k \in Aspects(call.goal)
                       PROVE  Ahead(p, k)' \/ Right(call.goal, p, k, motor'[p])
            BY <3>2, <3>4, <4>1 DEF CallAchieves
          <5> QED
            BY <3>2, <3>5, <4>1 DEF Ahead
        <4>4. RestsAfterOk'
          BY <4>1 DEF RestsAfterOk
        <4> QED
          BY <3>4, <4>2, <4>3, <4>4 DEF CallInv
      <3>7. CASE ok /\ call.todo = <<>>
        <4>1. call' = None /\ returned' = [goal |-> c.goal, executed |-> c.executed]
          BY <3>3, <3>7
        <4>2. Range(call.todo) = {}
          BY <3>7 DEF Range
        <4>3. RestsAfterOk'
          <5>1. returned'.goal = call.goal /\ returned'.executed = c.executed
            BY <3>2, <4>1
          <5>2. ASSUME c.executed, NEW p \in DOMAIN call.goal.set, NEW k \in Aspects(call.goal)
                PROVE  Right(call.goal, p, k, motor'[p])
            BY <5>2, <3>5, <4>2
          <5>3. returned'.executed =>
                  \A p \in DOMAIN returned'.goal.set, k \in Aspects(returned'.goal) :
                    Right(returned'.goal, p, k, motor'[p])
            BY <5>1, <5>2
          <5> QED
            BY <1>7, <2>1, <3>1, <4>1, <5>3 DEF RestsAfterOk
        <4> QED
          BY <3>4, <4>1, <4>3 DEF CallInv, CallAgrees, CallAchieves
      <3>8. CASE ~ok
        BY <3>3, <3>4, <3>8 DEF CallInv, CallAgrees, CallAchieves, RestsAfterOk
      <3> QED
        BY <3>6, <3>7, <3>8
    <2> QED
      BY <1>1, <2>6, <2>7
  <1> QED
    BY <1>2, <1>10, <1>11 DEF Sending

(* No call is in progress initially.                                       *)
LEMMA InitAims == Init => CallInv
  BY DEF Init, CallInv, AwaitedLast, CallAgrees, CallAchieves, RestsAfterOk

(* Every step keeps what is known of the call.                             *)
LEMMA NextAims == Inv /\ CallInv /\ [Next]_vars => CallInv'
  <1> SUFFICES ASSUME Inv, CallInv, [Next]_vars PROVE CallInv'
    OBVIOUS
  <1>1. CASE StartPorts
    BY <1>1, StartPortsAims
  <1>2. CASE StopPorts
    BY <1>2, StopPortsAims
  <1>3. CASE ReadSensor
    BY <1>3, ReadSensorAims
  <1>4. CASE Issue
    BY <1>4, IssueAims
  <1>5. CASE TimeOut
    BY <1>5, TimeOutAims
  <1>6. CASE Take
    BY <1>6, TakeAims
  <1>7. CASE Attempt
    BY <1>7, AttemptAims
  <1>8. CASE Reconnect
    BY <1>8, ReconnectAims
  <1>9. CASE UNCHANGED vars
    BY <1>9 DEF vars, CallInv, AwaitedLast, CallAgrees, CallAchieves, RestsAfterOk, Ahead, Clear
  <1> QED
    BY <1>1, <1>2, <1>3, <1>4, <1>5, <1>6, <1>7, <1>8, <1>9 DEF Next

(* Whatever earlier calls left in the channel, an Ok for commands the      *)
(* brick executed finds the motors as the call was to set them.            *)
THEOREM OkMeansDoneHolds == Spec => []OkMeansDoneIfExecuted
  <1>1. CallInv => OkMeansDoneIfExecuted
    <2> SUFFICES ASSUME CallInv, returned # None, returned.executed
                 PROVE  Achieved(returned.goal)
      BY DEF OkMeansDoneIfExecuted
    <2> SUFFICES ASSUME NEW p \in DOMAIN returned.goal.set
                 PROVE  /\ motor[p].on = returned.goal.on
                        /\ returned.goal.on =>
                             /\ motor[p].dir = returned.goal.set[p].dir
                             /\ motor[p].power = returned.goal.set[p].power
      BY DEF Achieved
    <2>1. \A k \in Aspects(returned.goal) : Right(returned.goal, p, k, motor[p])
      BY DEF CallInv, RestsAfterOk
    <2>2. /\ "state" \in Aspects(returned.goal)
          /\ returned.goal.on => {"direction", "power"} \subseteq Aspects(returned.goal)
      BY DEF Aspects
    <2> QED
      BY <2>1, <2>2 DEF Right
  <1> QED
    BY <1>1, Invariant, InitAims, NextAims, PTL DEF Spec
=============================================================================
