# A TLA+ model of BrickLogo

BrickLogo is a Logo interpreter that drives LEGO hardware. This directory
holds its verification project: TLA+ modules translated from the Rust code under
`src/crates`, TLC configurations that check them on small instances, and TLAPS
proofs that hold for every instance. `PROJECT.json` maps each definition to the
lines it stands for.

## The system

| Part | State it keeps | Operations | Talks to |
|---|---|---|---|
| **PortManager** (`bricklogo-hal/port_manager.rs`) | per device: adapter, `port_states` (what the program wants), `last_sent` (what was last sent); `device_order`, `mru`, `active_device`; `flash_timers` | `on`, `off`, `onfor`, rotations, `setpower`, `seteven`/`setodd`, `rd`, `flash`, `alloff`, sensors, add/remove/select device | adapters (calls), scheduler (registers flash closures); one mutex shared by every Logo thread, the UI, the watchdog and the flash closures |
| **Scheduler** (`scheduler.rs`) | slots, periodic tasks, `thread_running` | register/deregister, a 60 Hz loop on its own thread | ticks the slots with its mutex held, calls the tasks without it |
| **Health watchdog** (`health.rs`) | none between passes | lists dead devices, reports, removes each | PortManager |
| **Adapters** (`adapters/*.rs`), 14 of them | a command channel, reply channels, a cache of what the hub's ports are and read | `start_port(s)`, `stop_port(s)`, timed runs, rotations, sensors | SPIKE, NXT, EV3, Build HAT, WeDo, ToyPad, TC Logo Connect, Control Lab, CyberMaster and RCX through a slot the scheduler ticks; Powered UP and Coral through BLE clients with notifications; Interface A and Power Functions directly, over one shared BrickInterface |
| **Evaluator** (`bricklogo-lang/evaluator.rs`) | globals, procedures, a stop flag, launched tasks | evaluate, `launch`, `kill`, `waitfor`, loops | PortManager through the primitives of `bridge.rs`; network through a channel |
| **Network** (`bricklogo-net`) | host: client list and channels; client: connection | broadcast, snapshot, set, reconnect | shared `global_vars` |
| **Text** (`tokenizer.rs`, `parser.rs`, `check.rs`, `unparse.rs`) | none | tokenize, parse, check whether an input is complete, write procedures back as text | App (check), evaluator (parse), `save`/`load` |
| **App/REPL** (`bricklogo-tui`, `bricklogo`) | evaluator hand-over, `busy`, history, multi-line input, the line and its cursor | keys, execute, tick, stop, quit | evaluator threads, PortManager |
| **Device crates** (`rust-*`) | none, or a parser buffer | encoders, decoders, transports | adapters |

What is hard in it:

* **Threads.** Logo code runs on the evaluation thread and on one thread per
  `launch`. The scheduler, the watchdog, the UI and the network have their own.
  The PortManager mutex serialises them, but three operations span several
  critical sections: a flash closure (flag, then mutex), `connectto` (check,
  connect, add) and the watchdog (list, remove).
* **A cache of the hardware.** `last_sent` decides whether a command is sent at
  all. Whatever changes a motor behind it makes a later `off` a no-op.
* **Partial failure.** A command on several devices can fail on one of them;
  links drop at any time and are noticed by polling.
* **Two mutexes and a wait.** A command on a slot-based adapter holds the
  PortManager mutex while it waits for the scheduler thread, and that thread
  takes the PortManager mutex in flash closures.
* **A lossy link.** The RCX tower loses requests and replies; retries must not
  execute a command twice, nor a toggle bit swallow a new one.
* **Stop signals.** Anyone may raise anyone's stop flag; the evaluator lowers it
  when it sees it, and unwinds by the same exception that ends a procedure.
* **Hubs that answer late, twice or never.** Each adapter has its own rule for
  which reply belongs to which command, what a timeout means for a command that
  is still queued, and what it believes of the hub's ports while devices are
  plugged and unplugged.
* **Text that is parsed twice.** The prompt decides by a check whether a program
  is complete; the evaluator parses it again; `save` writes what `load` reads.
* **Shared variables.** Host and clients each write their own copy, exchange the
  changes over channels that can fill up and connections that break, and join
  in the middle of it.

What makes each part correct: PortManager skips a command only if the hardware
already does what is wanted, and a stop command stops; no flash escapes
cancellation; the active device exists; there is one scheduler thread as long
as there is work, and it loses no task; every command returns. Evaluator: a
stop signal ends its task. Network: host and clients end up with equal
variables. Adapters: an acknowledged command was executed, once; what the
adapter believes of its hub is so; no call waits for a hub that is gone. Prompt:
the cursor stays in the line, an unfinished program can be finished, what was
taken is run (unless the evaluator died in a panic, after which every line is dropped), a
saved page reads back. The hazards at their lines are in
`PROJECT.json`.

## Modules

| Module | Models | Depends on |
|---|---|---|
| `PortOutputs` | the output half of PortManager, its flash closures and the motors | |
| `PortOutputsProofs` | theorems about it | `PortOutputs`, TLAPS |
| `Scheduler` | the scheduler loop, the two mutexes, callers waiting for a slot, flash closures | |
| `SchedulerProofs` | theorems about it | `Scheduler`, TLAPS |
| `DeviceRegistry` | device names, the active device, `connectto` and the watchdog | |
| `DeviceRegistryProofs` | theorems about it | `DeviceRegistry`, TLAPS |
| `RcxLink` | calls, commands, retries and the toggle bit of the RCX adapter, with the brick and the infrared light | |
| `RcxLinkProofs` | theorems about it | `RcxLink`, TLAPS |
| `Tasks` | evaluators, `launch`, `kill`, `killall`, `waitfor`, `prune_finished`, stop flags, the App's hand-over | |
| `TasksProofs` | theorems about it | `Tasks`, TLAPS |
| `NetSync` | host and clients that share a global variable | |
| `NetSyncProofs` | theorems about it | `NetSync`, TLAPS |
| `HubCall` | the abstract specification of an adapter's command | |
| `Spike`, `PoweredUp`, `Coral`, `Nxt`, `Ev3`, `BuildHat`, `WeDo`, `TcLogoConnect`, `ToyPad`, `ControlLab`, `CyberMaster`, `BrickInterface` | an adapter each, with its hub | |
| `RcxUpload`, `HatUpload`, `DfuUpload` | `bricklogo --firmware`: an upload each, with the brick, the HAT or the hub in its boot loader | |
| `AdapterProofs` | that `WeDo`, `Nxt`, `Ev3` and `TcLogoConnect` implement `HubCall`, what their caches promise, and that turns land | `WeDo`, `Nxt`, `Ev3`, `TcLogoConnect`, `HubCall`, `Rotations`, TLAPS |
| `Rotations` | the turns of `rotateto` and `rotatetoabs` | |
| `Syntax` | the text of programs: tokens, parser, input check, unparser | |
| `Session` | the prompt, the evaluation of a line, procedures and pages; the grammar is a parameter | |
| `LineEditor` | the line being typed, history and keys | |
| `PromptProofs` | theorems about `LineEditor` and `Session` | `LineEditor`, `Session`, TLAPS |
| `Codecs` | COBS frames, network messages | |
| `MCHubs` | all adapters and uploads: a behaviour is that of one of them | the adapters, the uploads, `HubCall` |
| `MCPrograms` | what is entered, the text, the conversions | `LineEditor`, `Session`, `Syntax`, `Codecs`, `Rotations` |
| other `MC*` | the modules TLC runs, with the symmetry sets where a run uses them | |

The first three models look at overlapping code with different questions.
`PortOutputs` takes every command as atomic, which the mutex makes it, and asks
what state it leaves. `Scheduler` forgets that state and opens the command up
into send, wait and return. `DeviceRegistry` keeps only the names.

### PortOutputs

| Variable | Code |
|---|---|
| `link[d]` | no `DeviceEntry` / entry with `connected()` true / false |
| `want[o]` | `port_states` |
| `sent[o]` | `last_sent`, `None` where there is no record |
| `flag[o]` | `flash_timers`: the closure whose `AtomicBool` is under the port's key |
| `task[t]` | a closure the scheduler holds: port, `is_on`, the flag, and whether it is between its flag check and the lock |
| `motor[o]` | the hardware (external): signed speed, `None` (not known) while no adapter is linked to it |

One action per command: `On`, `Off`, `RunAndStop` (onfor and the three
rotations, which differ only in the adapter call), `SetDirection`,
`ReverseDirection`, `SetPower`, `Flash`, `AllOff`. Each includes the whole
handler: `cancel_flash` on every port, the batch or per-port adapter calls, and
what is recorded on success and on failure. A flash closure is `FlashRetire`,
`FlashDue` (flag read, mutex not yet taken), `FlashToggle` and `FlashAbandon`.
Devices come and go by `AddDevice`, `RemoveDevice`, `RemoveAll`, `LinkLost`.

Adapters are external, and their calls are described by outcome. A call on
connected devices succeeds on all its ports, or (constant `AdapterErrors`)
errors after an arbitrary part of them obeyed. A call that names a device whose
link is down always errors. What a hub drives while nobody is linked to it is
left open: an adapter's `disconnect` stops the motors, tries to, or (RCX,
CyberMaster, Control Lab, WeDo, Build HAT) sends nothing; a hub whose link drops
drives on; anyone may switch it off. So `RemoveDevices` and `LinkLost` make
`motor` unknown, and `AddDevice`, which sends nothing either, finds it at any
speed. The time a closure waits for its toggle is arbitrary. An `AddDevice` over a live entry,
which two racing `connectto` can cause, is left to `DeviceRegistry`.

### Scheduler

`pm` and `mutex` hold the two lock owners. `slots`, `tasks`, `running` are
`SchedulerInner`; `thread[h]` is one incarnation of `scheduler_loop` with its
program counter and its locals: slots still to tick, tasks still to call
(`todo`), tasks kept by `retain_mut` (`kept`) and the closure it is in.
`client[c]` is a Logo thread inside `connectto`, `disconnect`, a motor command
or `flash`. `flashing[t]` exists until closure `t` is dropped, and `cancelled`
holds the raised flags.

A slot's tick is hardware I/O; what stays is that it drains its queue and
answers. A caller's wait (`recv_timeout`) can time out at any moment, and so
does the wait inside a flash closure, which nothing else can end: only this
thread ticks the slot.

### DeviceRegistry

`devices`, `mru`, `active` are PortManager's fields; `shown[n]` says how often
`device_order` lists a name (its order matters to the device bar only); `config`
is the owner of the configuration mutex that `connectto` keeps while it
connects; `client[c]` says where a thread is in `connectto`, with the history
field `rival` (another thread registered or began to register its name
meanwhile); `reported` is the list the watchdog made in its first critical section, each name with the adapter it had then
(history).

`LiveDevicesStay` says the only ways a live adapter leaves the registry: a
command about the active device or about all, the watchdog when it had reported
another adapter of that name dead, and the second of two racing `connectto`. The
last two are races of the code; the property shows there is no third.

### RcxLink

| Variable | Code |
|---|---|
| `call` | the adapter call that holds the PortManager mutex: its commands still to issue, whether it waits in `recv_timeout` |
| `queue` | the `mpsc` channel to the slot, with whether somebody awaits each command |
| `sending` | the command in `tick`: its message's toggle and the attempts made |
| `toggle` | `RcxSlot.toggle` |
| `unread` | replies in the tower's input that came after their request's timeout |
| `seen`, `motor` | the brick (external): the last opcode byte it received, its motors |
| `lapsed`, `returned`, and the fields `got`, `ran`, `executed` | history, for the properties only |

`StartPorts`, `StopPorts` and `ReadSensor` build a call's commands in the order
of the code; `start_port` and `stop_port` are their case of one port. `Issue`,
`Answered` and `TimeOut` are the caller's side of `send_cmd_wait`, `Take` and
`Attempt` the slot's. An attempt sends the same message and chooses whether the
brick receives it and whether the reply comes in time, late or never. The brick
follows the doc comment of `protocol.rs:69-73`: it acknowledges a repeated opcode
byte, toggle included, without executing it. `Reconnect` is a disconnect followed
by a connect, which resets the toggle and drops the channel.

### Tasks

| Variable | Code |
|---|---|
| `thread[e]` | the thread that owns evaluator `e`: where it is, how many procedure calls deep, and the task it is launching or waiting for; 0 is the main evaluator |
| `stop[e]` | `stop_requested` |
| `launched` | `launched_tasks`, as a set of ids |
| `next` | `next_task_id` |
| `reported` | the panics `prune_finished` reported (history) |

A program is any sequence of nodes. `CheckStop` begins each (`eval_node`, and
each round of a loop); the node is then a procedure call, a task primitive, one
that fails or panics, or anything else (`PlainNode`). `Leave` is what Stop,
Output and the end of a body do: the innermost procedure returns. `Raise` is an
error, caught by a `carefully` at this depth or further out, or by none.
`launch` is two actions, since the id is allocated before the mutex is taken.
`Live` stands for `Arc::strong_count(&stop) >= 2`. `Submit`, `Begin`, `Escape` and
`Tick` are the App's side.

### NetSync

| Variable | Code |
|---|---|
| `val[s]` | the variable in `global_vars` of site `s` |
| `writing[<<s, w>>]` | worker `w` is in `set_global`, past the lock and before the send |
| `outbox[s]` | the `var_broadcast` channel |
| `client[c]`, `started` | the client: disconnected, awaiting hi or the snapshot, in `run_loop`, or exited with its program; whether its first join succeeded |
| `handler[c]`, `relay[c]` | the host's thread for the connection, and a Set it applied and has not fanned out |
| `listed`, `chan[c]` | `ClientList` and the bounded channel of each entry |
| `up[c]`, `down[c]` | the connection, first in, first out |
| `writes`, `breaks`, `raced`, `online` | bounds and history |

One variable is enough because a Set names one variable and no handler looks at
two together. A message is a value: encoding is not modelled, nor are passwords.
A break loses what was on its way to the client and any tail of what was on its
way to the host. `GiveUp` is what a failed attempt does: the thread of a client that
has joined once connects again, but the first join is made before there is a thread or
a session, and its failure ends the program (client.rs:142, app.rs:152, repl.rs:288;
docs/04-advanced.md:191). Whoever starts it again is a new client.

### The adapters

`HubCall` is what an adapter promises of one command: the caller waits, the hub
carries it out at most once, Ok is said only after that, and a command given up on
may still be carried out. Each adapter's module has the adapter's calls
(`Connect`, `Begin`, `Issue`, `TimeOut`, ...), its slot or notification task
(`Tick`, `Process`), and the hub (external: it takes what is sent to it, ends its
jobs, reports what is plugged in, loses its link). They share names:

| Variable | Code |
|---|---|
| `call` | the call that holds the PortManager mutex: what it still has to do, its phase |
| `slot`, `queue` | the `DeviceSlot` and its command channel |
| `cache` | what the adapter believes: port types, modes, positions, counts, powers |
| `down`, `up`, `notices`, `feedback` | what is on its way to the hub and back |
| `open`, `link`, `hw` | the adapter's handle, the connection, the hub |
| `ran`, `misled`, `raced` | history: the command was carried out; it was answered Ok unsent, or, in `Nxt`, though a brake did not reach the brick; one of the races the module names happened |

What is particular to each: `Spike` request ids that wrap, a connect-time snapshot
against port events, an agent on the hub; `PoweredUp` feedback per port and
subscriptions recorded after their write; `Coral` a notification channel that
only its callers read; `Nxt` batches of which only the last is awaited, and
motors the slot itself must brake, by commands whose result it drops
(`Brake`, `Finish`); `Ev3` numbered replies and polling;
`BuildHat` devices initialised a second late; `WeDo` commands superseded in the
queue; `TcLogoConnect` a watchdog fed by the tick, and press counting; `ToyPad`
tags read by an index that can change; `ControlLab` commands merged by power and
written in hash order; `CyberMaster` a toggle bit as in `RcxLink`;
`BrickInterface` unnumbered replies and one infrared burst at a time, shared by
two adapters.

The uploads are commands of the same kind, `ran` being that the new firmware is
installed. In `RcxUpload` each message is sent until an answer comes, `Takes` being
what `upload_firmware` makes of one; in `HatUpload` `wait_for_prompt` is satisfied by
a prompt left over from before, and the state asked for at the end decides; in
`DfuUpload` the commands of an image are computed as `download` does (`Erases`,
`Chunks`) and their effect on the flash is followed byte by byte, over attempts that
fail and are repeated.

`CacheFollowsHub` states for each what its cache promises, with the exceptions
the code has (each named, at its line, above the property). `Stranded` is a call
that waits for a hub that is gone.

### The prompt

`LineEditor` has the line as bytes (a wide character is two), the cursor, history,
completion and keys of `repl.rs`; `Session` what becomes of a line: `EnterLine` is
`App::execute` with the input check, `Evaluate` one step of the evaluator's thread
(parse, define, run, erase, save, load, fail, panic), `Tick`, `RequestStop` (Escape), `Quit`
and `Restart` the App's. `Syntax` is the parser and what goes with it as operators on
lexemes: what blanks separate; letters do not matter to it. `Session` takes the parser,
the page `save` writes and the end of a line as constants (`ParseOf`, `PageOf`, `LineEnd`),
to which `programs.cfg` gives those of `Syntax`. `Codecs` and `Rotations` hold conversions, each with the round trip or the reference it is compared with.

## Runs

| Run | Instance | Checks | Result |
|---|---|---|---|
| `outputs_exact` | 2 devices, 1 port each, 1 closure, power 0..1, adapters that do not fail while connected | `TypeOK`, `TrustIsLostInThreeWaysAndRegained` | holds |
| `outputs_flash` | 1 device, 1 port, 2 closures, adapters that fail | `SoleTimer`, `FlashAlternates`, `CancelledRetires` | holds |
| `outputs_alloff` | 1 device, 1 port, 1 closure | `StoppedStaysStopped` | violated (finding) |
| `sched` | 2 Logo threads, 1 slot, 2 closures, 2 thread identities | 4 invariants, 4 liveness properties | holds |
| `registry` | 2 names, 3 adapters, 2 Logo threads, a name shown up to twice | 2 invariants, 1 action property, 2 liveness properties | holds |
| `rcx` | 2 motors, 2 settings that differ in direction and power, 2 attempts, 1 late reply | 4 invariants | holds |
| `rcx_ok` | the same without late replies | `OkMeansDone` | violated (finding) |
| `tasks` | main evaluator, 2 tasks, 1 call deep | 3 invariants, 1 action property, 2 liveness properties | holds |
| `tasks_kill` | main evaluator, 1 task | `KilledEnds` | violated (finding) |
| `net` | host, 2 clients, 1 worker each, 2 values, channels of 1, 2 writes, 1 break | 2 invariants, 2 liveness properties | holds |
| `hubs` | 13 adapters in 12 modules, 1 or 2 ports, 1 or 2 mishaps | `TypeOK`, `CacheFollowsHub`, `GoneHubFailsCalls` (liveness), `ImplementsHubCall` (refinement) | holds |
| `programs` | lines of 3 bytes over a letter, blanks and wide characters with 2 lines of history, sessions over 11 lines, every procedure of 5 lexemes, every frame of 7 bytes | `LineIsSound`, `OpenWantsMore`, `TakenIsRun`, `ReadsBack` | holds |

The runs of `Tasks` and `NetSync` do not check for deadlock: once the main
evaluator died in a panic and the tasks are over nothing moves (`App::execute`
drops every command), and with bounded writes and breaks the network comes to
rest. Nor do `hubs` and `programs`: an adapter whose hub is gone may have
nothing to do, the prompt is quit or dies, and a conversion ends. The other runs check it.

**Bounds.** Two devices are enough for a command that fails on one and works on
the other, and one port each because ports of one device only share batch calls,
whose partial outcomes the two devices already show (they are the only
interaction between ports). `MaxDown` = 1 is one device at a time whose link is
lost and that the watchdog has not removed: with both down no command reaches
anything. Power 0..1 keeps "power 0 but running" apart from "driving". `TaskIds` bounds the closures alive at one time: two cover a
cancelled one beside its successor on the same port; `Flash` is not enabled when
none is free. In `sched`, two thread identities let a second thread appear if
the code allowed it, and two closures let one be registered while the other
runs. In `registry`, three adapters let a name be reconnected while another
connect is under way; `MaxShown` bounds how often `device_order` holds a name,
which grows by one each time a dead entry is replaced: two is one duplicate. In `rcx`, two motors and two
settings give batches with equal and with different powers and directions; two
attempts (the code makes three) are enough for a lost reply and its repetition;
`MaxQueue` = 0 starts a call only on an empty channel or behind the command being
sent, and a sensor read still queues three commands. In `tasks`, `MaxTask` = 2
gives two tasks that launch, kill and wait for each other and for the main one,
and `MaxDepth` = 1 a procedure, which is all that matters to a Stop. In `net`, two
clients make a sender and a bystander, `Cap` = 1 fills a channel with one Set, and
two writes (`MaxWrites`) overlap or follow each other around the one break
(`MaxBreaks`).

In `hubs` a behaviour is that of one adapter or upload (881,553 states, about 90 s). A
mishap (`MaxMishaps`) is a timeout, a loss, an exchange of devices or a dropped
link: with one, each of them meets every state of a fault-free run; the smaller
adapters have two (`MaxMishaps + 1` in `MCHubs`), so that one can follow
another. Two ports where ports interact (batches of `Nxt`, powers of `WeDo`, pads
of `ToyPad`, groups of `ControlLab`), else one. `MaxRid` = 3 lets request ids and
counters wrap; `MaxLate` = 1 leaves one abandoned command in a queue when the next
comes; `MaxUp`, `MaxNotices` and `MaxFeedback` bound what is unread: two show
reordering against what is in between. The uploads have three mishaps, so that
one attempt can fail and the next be disturbed; three blocks (`RcxUpload`) tell the
first, a middle and the last one apart; the flash of `DfuUpload` has six bytes in
four sectors, the first protected, and images that begin inside a sector, share
one, reach into the protected one or past the end. With two mishaps for the nine smaller adapters the
space has 2.86 million states; that was run once, without an error, and is more
than a run should cost.

In `programs` (482,910 states, about 90 s): `MaxInput` = 3 and `MaxHistory` = 2 put a
wide character before, behind or between narrow ones and make a history to go up and
down in (with two letters there are 2.2 million states more; that was run once, without
an error); `MaxMulti` = 2 a line that neither begins nor ends what is gathered;
`MaxProcedures` = 2 a procedure that uses another; `MaxBody` = 5 lexemes nest a
bracket in a call or an operator between two numbers; `MaxData` = 7 with
`MaxBlock` = 3 (84 in the code) fills a COBS block and starts the next; `Lengths` =
4 (65,536 in the code) is a length that no longer fits.

**Fairness.** The scheduler thread runs for ever while it has work, so its
steps are weakly fair. A closure's individual steps are strongly fair in
`PortOutputs`, because the loop calls every closure on every tick. A thread
blocked on a mutex that is released again and again gets it (strong fairness on
the acquiring actions): `std::sync::Mutex` does not promise it, but every holder
sleeps or returns to the user between commands. Timeouts do expire.
The watchdog wakes every three seconds, and connect calls return. In `Tasks`, every evaluator's thread goes on: `waitfor`
polls, and no node blocks for ever. In `NetSync`, each loop reads and sends in turn,
messages of a connection that holds arrive, and a client that has joined once tries again
every five seconds; nobody has to write. In `MCHubs`, `Served` is weakly fair: the
scheduler's thread ticks an adapter's slot 60 times a second, also when its hub
is gone, and an adapter without a slot looks for its answer in the caller's own
loop until its deadline. The hub owes nothing. Nothing makes
a user type a command, a link drop or a flash be cancelled.

**What the violated runs show.**

* `outputs_alloff`: the closure passes its flag check, `alloff` takes the mutex,
  stops and forgets the port, and the closure then starts it again. It retires
  at its next call, and the motor stays on with nothing that remembers it.
* `rcx_ok`: a start gets as far as its direction, the power command is lost three
  times and the call fails. The next start's direction command carries the toggle
  of the first one, and the brick, which has seen nothing since, acknowledges it
  without executing it. `IgnoredOnlyAfterLapse` is the other side: without a lost
  command or a new slot this cannot happen.

* `tasks_kill`: the task calls a procedure, is killed, and sees the flag inside it:
  the flag goes down, the procedure returns, and the task goes on. `StopIsNoticed`
  is what does hold: the flag is seen, but only the innermost procedure ends.

`TrustIsLostInThreeWaysAndRegained` is the other side of the first: in any order of
commands, toggles, link losses and connections, what a skipped command relies on
is lost by a stale toggle, by a command shared with a dead device, or by connecting to
a hub that drives the port already, and alloff, onfor and the rotations bring it back
each time. The last two ways are worth knowing. `on` over two devices, one with its link
down, starts the other's motor, fails and records nothing, and a later `off` of that
motor alone finds no running record, sends nothing and succeeds. And after
`disconnect` and `connectto` a motor of an RCX, CyberMaster, Control Lab, WeDo or Build
HAT that was on still turns, is taken for stopped, and `off` does nothing, whereas
docs/04-advanced.md:86 says of the way out that motors stop. The property names
the three, since the code has them, and so forbids only others: it is the finding's run
that shows the first.

`EventuallyJoined` says that a client gets joined and stays so, or exits at its first
join because of a write or a lost connection. The write is a case of its own: a client
is on the host's list before it asks for the snapshot (host.rs:168), and a Set that
reaches it first counts as a protocol error, so a program can exit although the host is
there. A client that joined before tries again.

`SequentialWritesConverge` has three exceptions in its statement, which are how the
program behaves: writes that overlap can leave host and client with each
other's value for good; a write made without a connection stays in the channel
and is sent after the host's snapshot was taken, although docs/04-advanced.md:240
says it is not sent; and a client that was dropped from the list because its
channel was full receives nothing until its connection breaks.

**Observations.** While modelling, these behaviours were met that no run singles
out; the modules contain those they are about.

* Scheduler: a command that holds the PortManager mutex is not served while the
  scheduler's thread is in a flash closure waiting for that mutex; it times out
  although the hardware is there.
* Registry: a device listed as dead and reconnected under its name before the
  watchdog removes that name is removed alive (health.rs:57). A name added over a
  dead entry is shown twice in the device bar (port_manager.rs:88).
* Pages: parentheses round an expression are not written, so `1 + (2 * 3)` reads
  back as `(1 + 2) * 3` and `print (-3)` not at all; a word with a blank comes back
  as two; procedures are written in hash order, and one that uses a later one's
  inputs is misread in a new session. `ReadsBack` names these exceptions.
* Prompt: a number with two dots panics in `parse().unwrap()`, at the prompt in the
  UI thread, in a page in the evaluator's, after which `execute` drops every line.
  Typing on after a wide character panics in `String::insert`, and the terminal
  stays raw. Escape between the hand-over and evaluator.rs:511 is lost.
* Network codec: lengths over 16 bits are truncated silently.
* Spike: the connect-time snapshot overwrites newer port events; a scheduler that
  stalls 5 s kills a live hub. Powered UP: a subscription recorded after its write
  crosses the notification task. Coral: result codes are ignored.
* NXT: an LCP error while polling leaves the motor on; so does a link that goes between
  the poll and the brake, and the rotation is answered Ok; a stale step brakes the
  motor of a newer command. EV3: a sensor's type is never asked again. Build HAT: a late
  initialisation overrides a mode selected meanwhile.
* Control Lab: a multi-group start is answered by its first group, possibly before
  the others are written; one bad checksum clears the whole read buffer.
  CyberMaster: as `rcx_ok`. ToyPad: a UID read by index can find another tag; a
  failed read is never retried. TC Logo Connect: an input held when the device is
  opened counts as a press later.
* RCX upload: after a late answer each message is acknowledged by the answer to the
  one before, the answer to the unlock is not looked at, and "Done" can be printed
  though the last block was not heard. DFU: an image that reaches into a protected
  sector is refused only after the others are erased; an error status after leaving
  counts as success, by when the image is in the flash.
* BrickInterface: replies are not matched by sequence number; the pool keeps a dead
  connection, so that nothing connects again after an unplug (bridge.rs:276).

## Proofs

`PortOutputsProofs`, from `PortOutputsAssumption` (a positive maximum power,
`None` outside the data) and for every set of devices, ports and closures:

* `TypeCorrect`: `TypeOK` is inductive as it stands. One lemma per group of
  actions, over lemmas on the speed and record maps the actions share.
* `EveryFlashCanBeCancelled`: `SoleTimer` is inductive together with `TypeOK`.
  The two facts that carry it: a closure that survives `cancel_flash` still
  finds its timer in the map, and `flash` gives fresh identities to its ports.
* `SkippingIsSound`: the action property, with `AdapterErrors = FALSE` and nothing
  assumed of hubs that are not connected. Each action keeps `Trusted(o)` or is one
  of the three exceptions; the toggle of a closure that is not cancelled needs
  `SoleTimer` to know its port is flashing. That alloff, onfor and the rotations
  make a port trusted again needs nothing of the state before
  (`AlwaysSentTrusted`).

`SchedulerProofs`, from `SchedulerAssumption`: `OneThread`, `NothingStranded`
and `HeldOnce` are not inductive alone. `Inv` adds `TypeOK` and `LoopShape`:
outside the part of the loop that calls tasks, the locals `todo`, `kept` and
`task` are empty, so that taking the list and ending the thread lose nothing.
`InvHolds` proves `Inv`; the three theorems follow from it.

`RcxLinkProofs`, from `RcxLinkAssumption` (finitely many motors, at least one
setting and one attempt): `ExecutedAtMostOnce` and `NewCommandsAreNew` follow from
`Inv`, which adds two things to the types. `ToggleKnows` says what the stored
toggle bit knows of the brick: once the brick received the command being sent, its
last opcode is that command's; before that, unless the previous command was
missed, its last opcode has the other toggle. `AwaitedOnce` says a reply has one
taker, a call that waits; without it a reply could arrive for a call that is gone.
The proof of `AttemptKeeps` is the core: one attempt, received or not, that ends
the command or repeats it. `OkMeansDoneHolds` needs more, since a call is up to three
commands that later calls may follow: `CallInv` relates each aspect of a motor
(power, direction, on or off) to the commands of the call that are done, under way
and still to come. What is done and was executed agrees with what the call is for
(`CallAgrees`), every aspect the call covers has a command behind or ahead of it
(`CallAchieves`, `Ahead`), and after the Ok nothing touches it before the next call
(`RestsAfterOk`). TLC checked `CallInv` on 1,610,216 states first.

`TasksProofs`, from `TasksAssumption`, for every number of tasks and depth of calls.
The inductive invariant is `TypeOK`, `LiveAreListed`, `PanicsAreReported` and `Fresh`: an
id that is not allocated has no thread and is not listed, and an id that is
allocated and not yet spawned belongs to one launch only. Without `Fresh` a launch
could reuse an id of a running task. `WaitforWaits` needs `LiveAreListed`: what
`waitfor` does not find in the pruned list does not run.

`DeviceRegistryProofs`: `ActiveIsRegistered`, `RecencyIsExact` and
`OnlyRacesLoseLiveDevices` follow from `Inv`, which adds to the types and the two
invariants that a thread in `connectto` whose name no rival took would replace a
dead device at most (`ReplacesNoLive`), and that what the watchdog listed stays
dead, since an adapter is connected once (`ListedAreDead`). The lemmas about
`mru` say what dropping and touching a name leave of a sequence without
repetitions.

`NetSyncProofs`, from `NetSyncAssumption`: `TypeCorrect`, which includes that no
client's channel exceeds its bound, needs that only served clients are listed
(`ListedAreServed`). `WritesConverge` is about what is on its way: a write must
reach everybody although it is applied, queued, sent, read and fanned out in
separate steps, beside a snapshot that was taken before or after it. `SyncInv`, its
inductive invariant, follows the one writer there may be (`Bearing`) through the
channels: every message that travels carries the last value written (`OneValue`),
whoever does not hold that value yet has it coming from the host or in the
snapshot they join with (`Coming`), and if the host does not hold it the writer's
message is still going there (`Going`). With nothing on its way, these say that all
hold one value. TLC checked `SyncInv` on instances of up to three writes and two
breaks before it was proved.

`SchedulerProofs` and `RcxLinkProofs` also state `TypeCorrect`.

`AdapterProofs` shows for four adapters what `hubs` checks for all, the refinement
of `HubCall` and what their caches promise, and one thing about turns. It instantiates the
adapters, so that their names do not clash, and has a part for each.

The WeDo (`WeDoImplements`, `WeDoCacheIsHub`), for every set of ports and every bound.
`WeDoInv` says of the command issued last that it is in the queue at most once, at
its end, unanswered and not carried out (`WeDoOwnPending`), that a caller who waits
has it there (`WeDoWaitersQueue`), that the message queued last is what the adapter
remembers (`WeDoLastWanted`), that an Ok came with an empty queue
(`WeDoOkMeansWritten`) and that the sensors' last report is on its way or kept
(`WeDoTellsLast`). From `WeDoOwnPending` follows that a tick never answers the caller
for a command it skips.

The NXT (`NxtImplements`, `NxtCacheIsHub`), for every finite set of motors, every set of
modes and every natural bound on mishaps (`NxtBounded`, a hypothesis of the theorems).
The command issued last moves from the queue to the runs the slot ends later, and a
failure of the transport answers all of them. `NxtInv` says that it is in one of these
places and once (`NxtOwnOnce`), that its caller was not told Ok while it is there
(`NxtOwnOpen`), that it is the command the caller waits for, so that the mode
remembered is the one that was set (`NxtOwnIsNow`), that what is still to be issued
is nobody's (`NxtUnissued`), and what a closed adapter and one being closed do not have
(`NxtClosed`). Every step of the slot is brought to one form, an answer to the
owner or to nobody (`NxtAnswers`), from which both the invariant (`NxtSlotKeeps`) and the
step of `HubCall` follow. The brakes at the end of a rotation or a timed run are sent
without looking at the result: `ran` stands for a run all of whose brakes reached the
brick, `misled` for one that was answered Ok all the same, and the refinement
admits either. TLC checked `NxtInv` on 372,134 states (two mishaps) first.

The EV3 (`Ev3Implements`, `Ev3CacheIsHub`), for every finite set of motors, every set of
sensor types and every bound with `Ev3Bounded`: fewer mishaps than reply counters, the
code having 65535 of them before they come round, each of which takes a reply that did not
come in time. The slot asks the brick again and again whether a motor still turns, gives up
on a reply after a while, and takes a late one for an answer if the counter fits. So the core
is a statement about counters: the requests given up on and the one waited in, answered or
not, bear the counters up to the slot's own without a gap, and are at most one more than the
mishaps (`Ev3Counters`). From it follows (`Ev3NumbersMine`) that a reply with the
request's counter is the last there is, and `Ev3Last` says that what the brick said in
that one is still so: the command was carried out, or the motors still turn, or the sensor is
of that type unless it was exchanged since. The rest says where the command issued
last can be (`Ev3Owners`: queued behind all others; in a request; a run some of whose
motors still turn; and while its caller waits for it nothing else is queued), what a call
still has to issue (`Ev3Todo`) and what a closed adapter does not have (`Ev3Closed`). TLC
checked `Ev3Inv` on 4,299,264 states first.

TC Logo Connect (`TcImplements`, `TcCacheIsHub`), for every set of ports and every bound on
mishaps that is a number (`TcBounded`). A tick takes all that is queued, writes all outputs
once and reads all reports, so `TcInv` says where each thing is until then: the duty asked of an
output in the last queued command that names it or, when none does, in the slot (`TcAsked`); each press in the
count or in a report nobody has read (`TcCounted`, which needs `TcKnown`: what the
device told last is what is pressed, also before it told anything, except of inputs
held when it was opened). TLC checked `TcInv` on 1,256,468 states first.

`TurnsLand` is the part of `ReadsBack` that is about turns, for all integers: wherever a
motor stands, `rotateto` and `rotatetoabs` end at the angle, the way that was asked
for, by less than a full turn. The integers are unbounded, so this is about differences an
i32 holds.

`PromptProofs` has two parts. `EditsAreSound`, from `LineEditorAssumption` (names are made of
letters): the two halves of `LineIsSound` are proved together, for they need each
other. That a completion begins between characters is so because a word follows a
blank and texts are whole; that texts are whole is so because what is cut begins and
ends at places `is_char_boundary` accepts. The lemmas are about the operations of a
String: where a run of bytes ends, what `trim` leaves, that a longest common prefix
exists, and that cutting at boundaries and joining keep a text whole.

`OpenBufferWantsMore` and `TakenTextsAreRun` are about `Session`, for every `ParseOf`, so that
nothing is assumed of the grammar. The check of a line uses the procedures of the one
evaluator when the App has it, and none otherwise; the thread parses with that evaluator's.
They agree because, by `SInv`, lines are gathered only while there is no thread
(`SGathered`), and the App is busy exactly while there is one, which then has the
evaluator (`STaken`): between the check and the parse nothing else can define, erase or load.

Only model-checked: every liveness property (flashes alternating and retiring,
calls returning, slots reaped, the thread ending, dead devices removed,
`connectto` returning, clients joined, Sets dying out, calls to a gone hub
failing), which needs fairness and ENABLED, out of the prover's reach; the adapters
other than WeDo, NXT, EV3 and TC Logo Connect; and of `programs` that texts, pages, frames and messages read back
(`ReadsBack`): `Syntax` parses with recursive operators, and what a conversion in `Codecs`
computes for every input would need induction over data.

## Plan

Done: the modules and proofs above. What would add most next:

1. Refinement proofs of `HubCall` for further adapters, `Spike` first (request
   ids, as in `Ev3`).
2. `PortOutputs` as an implementation of motors without a cache, but for the three
   known mechanisms.
3. The upload of the SPIKE agent (`atlantis.rs`), and the values: sensor conversions against reference definitions.

## Not modelled, and why

Drawing, argument parsing and the script runner are sequential I/O with little
state. Of the firmware uploads, image files and checksums are left out, and of the
DFU client the discovery of devices. Light, sound and sensor commands of PortManager
keep no state of their own. Serial, USB and BLE transports appear only by what their
callers can observe. Of the adapters, the numbers are left out: speeds, angles, PWM
frames, conversions of readings, the byte layout of messages; what they decide
(which reply, which mode, which port) is kept. Of the network, passwords, the JSON
encoding and the choice between the two; of the evaluator, values, scopes and the
loops other than `forever`; of the text, paths and the formatting of numbers.
