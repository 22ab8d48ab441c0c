----------------------------- MODULE DfuUpload -----------------------------
(***************************************************************************)
(* bricklogo --firmware spike: run_spike (crates/bricklogo/src/firmware.rs)*)
(* and the DFU download it starts (crates/rust-stm32dfu/src/dfu.rs).  The  *)
(* sectors under the image that may be written are erased; then each chunk *)
(* is written to the address it was given; then the hub is told to start.  *)
(* Every command is followed by status polls until the hub is ready.       *)
(*                                                                         *)
(* The file is what dfuse.rs reads: elements, an address and a size each.  *)
(* The boot loader of the hub is external: it does a command when it is    *)
(* not in the middle of one, and needs a CLRSTATUS after an error.         *)
(***************************************************************************)
EXTENDS Integers, Sequences, SequencesExt

CONSTANTS
  Layout,        (* sectors from address 0 up: [size, writable] each       *)
  Images,        (* sequences of elements [address, size]                  *)
  TransferSize,  (* the largest chunk                                      *)
  MaxMishaps,    (* bound on what the environment does                     *)
  None

----------------------------------------------------------------------------
(* Which addresses a sector and an element hold.                           *)
SectorStart(i) == FoldLeft(LAMBDA sum, sector : sum + sector.size, 0, SubSeq(Layout, 1, i - 1))
Sector(i)      == SectorStart(i) .. SectorStart(i) + Layout[i].size - 1
Bytes          == UNION {Sector(i) : i \in DOMAIN Layout}
Span(element)  == element.address .. element.address + element.size - 1
Covered(image) == UNION {Span(image[i]) : i \in DOMAIN image}

(* pages_in: the sectors under an element that are not read-only.          *)
PagesIn(element) ==
  SelectSeq([i \in DOMAIN Layout |-> i], LAMBDA i : Layout[i].writable /\ Sector(i) \cap Span(element) # {})

(* The sectors to erase, each once, and the chunks to write.               *)
Erases(image) ==
  LET add(pages, element) == pages \o SelectSeq(PagesIn(element), LAMBDA i : ~Contains(pages, i))
  IN  FoldLeft(add, <<>>, image)
Chunks(element) ==
  [k \in 1 .. (element.size + TransferSize - 1) \div TransferSize |->
     LET offset == (k - 1) * TransferSize
         left   == element.size - offset
     IN  [address |-> element.address + offset, size |-> IF left < TransferSize THEN left ELSE TransferSize]]

(* download, as commands: what it erases, addresses, writes, and leave.    *)
Cmd(op, address, size) == [op |-> op, address |-> address, size |-> size]
Write(chunk) == <<Cmd("address", chunk.address, 0), Cmd("block", 0, chunk.size)>>
Commands(image) ==
  [k \in DOMAIN Erases(image) |-> Cmd("erase", SectorStart(Erases(image)[k]), 0)]
    \o FlattenSeq([i \in DOMAIN image |->
         FlattenSeq([k \in DOMAIN Chunks(image[i]) |-> Write(Chunks(image[i])[k])])])
    \o <<Cmd("leave", 0, 0)>>

----------------------------------------------------------------------------
VARIABLES
  call,     (* phase, the image and the commands to come                   *)
  link,     (* the hub is plugged in, in its boot loader                   *)
  hw,       (* the hub: the state of its boot loader, the address it was   *)
            (* given, and what each byte of its flash holds                *)
  mishaps,
  ran       (* history: the image of this call is in the flash             *)

vars == <<call, link, hw, mishaps, ran>>

TypeOK ==
  /\ call \in [phase : {"idle", "waiting", "ok", "failed"}, image : Images \cup {None},
               todo : Seq([op : {"erase", "address", "block", "leave"}, address : Nat, size : Nat])]
  /\ link \in BOOLEAN
  /\ hw \in [state : {"idle", "busy", "ready", "error"}, at : Nat,
             flash : [Bytes -> {"old", "erased", "new", "bad"}]]
  /\ mishaps \in 0 .. MaxMishaps /\ ran \in BOOLEAN

Over   == call.phase # "waiting"
Mishap == mishaps < MaxMishaps /\ mishaps' = mishaps + 1
Holds(image, flash) == \A b \in Covered(image) : b \in Bytes /\ flash[b] = "new"

Init ==
  /\ call = [phase |-> "idle", image |-> None, todo |-> <<>>] /\ link = TRUE
  /\ hw = [state |-> "idle", at |-> 0, flash |-> [b \in Bytes |-> "old"]]
  /\ mishaps = 0 /\ ran = FALSE

(* run_spike_dfu and the start of download: what is not idle is aborted,   *)
(* an error cleared, if the hub tells its state and is not busy.  Whatever *)
(* is in the flash is old now.                                             *)
Begin ==
  /\ Over /\ link
  /\ \E image \in Images : call' = [phase |-> "waiting", image |-> image, todo |-> Commands(image)]
  /\ \E state \in {hw.state, "idle"} :
       /\ hw' = [hw EXCEPT !.state = state, !.flash = [b \in Bytes |-> "old"]]
       /\ IF state = "idle" THEN hw.state # "busy" /\ UNCHANGED mishaps
          ELSE IF hw.state = "busy" THEN UNCHANGED mishaps ELSE Mishap
  /\ ran' = FALSE /\ UNCHANGED link

(* No image, or no hub in its boot loader.                                 *)
Refuse ==
  /\ Over
  /\ call' = [call EXCEPT !.phase = "failed", !.todo = <<>>]
  /\ ran' = FALSE /\ UNCHANGED <<link, hw, mishaps>>

----------------------------------------------------------------------------
(* The hub: what it does with a command, of which it refuses to write what *)
(* it protects or what is no sector.  A byte that was not erased is not    *)
(* written as it should be.                                                *)
Sectors(bytes) == {i \in DOMAIN Layout : Sector(i) \cap bytes # {}}
Written == hw.at .. hw.at + Head(call.todo).size - 1
Erased  == UNION {Sector(i) : i \in Sectors({Head(call.todo).address})}
Done ==
  LET c == Head(call.todo)
  IN  CASE c.op = "erase" ->
             [hw EXCEPT !.state = "ready",
                        !.flash = [b \in Bytes |-> IF b \in Erased THEN "erased" ELSE @[b]]]
        [] c.op = "address" -> [hw EXCEPT !.state = "ready", !.at = c.address]
        [] c.op = "block" ->
             IF Written \subseteq Bytes /\ \A i \in Sectors(Written) : Layout[i].writable
             THEN [hw EXCEPT !.state = "ready",
                             !.flash = [b \in Bytes |-> IF b \notin Written THEN @[b]
                                                        ELSE IF @[b] = "erased" THEN "new" ELSE "bad"]]
             ELSE [hw EXCEPT !.state = "error"]
        [] c.op = "leave" -> [hw EXCEPT !.state = "idle"]

Sending == call.phase = "waiting"
Accepts == link /\ hw.state \in {"idle", "ready"}
Leaving == Head(call.todo).op = "leave"
Goes  == call' = [call EXCEPT !.todo = Tail(@), !.phase = IF Leaving THEN "ok" ELSE "waiting"]
Fails == call' = [call EXCEPT !.todo = <<>>, !.phase = "failed"]
Stored == ran' = (ran \/ Holds(call.image, hw'.flash))

(* The command is done, and wait_until sees it: the hub is ready, or in    *)
(* its error state.  One that leaves is there no more.                     *)
Command ==
  /\ Sending /\ Accepts
  /\ hw' = Done /\ Stored
  /\ IF hw'.state = "error" THEN Fails ELSE Goes
  /\ link' = ~Leaving
  /\ UNCHANGED mishaps

(* The transfer or a poll fails, or the hub is busy for 128 polls, whether *)
(* it does the command or not.  leave takes what it sees of the hub, an    *)
(* error too, for a hub that has gone.                                     *)
Trouble ==
  /\ Sending /\ Accepts /\ Mishap
  /\ hw' \in {hw, Done, [Done EXCEPT !.state = "busy"], [hw EXCEPT !.state = "error"]} /\ Stored
  /\ Fails \/ (Leaving /\ Goes)
  /\ link' \in {TRUE, ~Leaving}

(* A hub that is busy, in error or gone takes no command.                  *)
Stalled ==
  /\ Sending /\ ~Accepts
  /\ hw' \in {hw, [hw EXCEPT !.state = "error"]} /\ Fails
  /\ UNCHANGED <<link, mishaps, ran>>

(* It is done at last.                                                     *)
Settles ==
  /\ link /\ hw.state = "busy" /\ hw' = [hw EXCEPT !.state = "ready"]
  /\ UNCHANGED <<call, link, mishaps, ran>>

(* The cable is pulled; the hub is put into its boot loader again.         *)
LinkDrops ==
  /\ link /\ Mishap /\ link' = FALSE
  /\ UNCHANGED <<call, hw, ran>>
LinkReturns ==
  /\ ~link /\ Over /\ link' = TRUE /\ hw' = [hw EXCEPT !.state = "idle"]
  /\ UNCHANGED <<call, mishaps, ran>>

Tick == Command \/ Trouble \/ Stalled
Next == Begin \/ Refuse \/ Tick \/ Settles \/ LinkDrops \/ LinkReturns

----------------------------------------------------------------------------
(* Ok, even of a hub that did not start it, means that the whole image is  *)
(* in the flash; and of the flash nothing else than the sectors under it   *)
(* that may be written was touched, nor anything written unerased.         *)
CacheFollowsHub ==
  /\ call.phase = "ok" => Holds(call.image, hw.flash)
  /\ \A b \in Bytes : hw.flash[b] # "old" =>
       /\ hw.flash[b] # "bad"
       /\ \A i \in Sectors({b}) : Layout[i].writable /\ i \in Sectors(Covered(call.image))

(* The call waits for a hub that is gone.                                  *)
Stranded == call.phase = "waiting" /\ ~link
=============================================================================
