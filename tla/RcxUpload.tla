----------------------------- MODULE RcxUpload -----------------------------
(***************************************************************************)
(* bricklogo --firmware rcx: run_rcx (crates/bricklogo/src/firmware.rs)    *)
(* and the upload it starts (crates/rust-rcx/src/firmware.rs).  The old    *)
(* firmware is deleted, the download announced, the blocks are sent, the   *)
(* last one under index 0, and the new firmware is unlocked.  Each message *)
(* is sent until an answer comes, any answer: one that comes too late is   *)
(* taken for the next message's.  The brick takes a message with the       *)
(* opcode and toggle bit of the one before for that one sent again.        *)
(*                                                                         *)
(* Addresses, checksums and bytes are left out.  Tower and brick are       *)
(* external: of a download out of turn the brick reports an error.         *)
(***************************************************************************)
EXTENDS Integers, Sequences

CONSTANTS
  Blocks,      (* how many the image has                                   *)
  Retries,     (* FIRMWARE_MAX_RETRIES                                     *)
  MaxUp,       (* bound on the answers that came too late                  *)
  MaxMishaps,  (* bound on what the environment does                       *)
  None

(* The messages in their order.                                            *)
Unlock == Blocks + 3
Op(n)  == CASE n = 1 -> "delete" [] n = 2 -> "start" [] n = Unlock -> "unlock" [] OTHER -> "block"

VARIABLES
  call,     (* phase, the message that is sent, how often it was           *)
  link,     (* the tower is plugged in                                     *)
  up,       (* the answers in the tower's buffer                           *)
  hw,       (* the brick: its firmware, None or the blocks it has of the   *)
            (* new one, the message heard last and the answer to it        *)
  mishaps,
  ran,      (* history: the brick runs what this call uploads              *)
  misled,   (* history: it was answered Ok though it does not              *)
  raced     (* history: an answer came too late                            *)

vars == <<call, link, up, hw, mishaps, ran, misled, raced>>

Answers == {"ok", "bad"}
TypeOK ==
  /\ call \in [phase : {"idle", "waiting", "ok", "failed"}, at : 1 .. Unlock, tries : 0 .. Retries - 1]
  /\ link \in BOOLEAN /\ up \in Seq(Answers)
  /\ hw \in [firmware : {"old", "none", "new"}, got : {None} \cup 0 .. Blocks,
             last : ({"delete", "start", "block", "unlock"} \X BOOLEAN) \cup {None}, said : Answers]
  /\ mishaps \in 0 .. MaxMishaps /\ ran \in BOOLEAN /\ misled \in BOOLEAN /\ raced \in BOOLEAN

Over   == call.phase # "waiting"
Mishap == mishaps < MaxMishaps /\ mishaps' = mishaps + 1
At(phase, at, tries) == [phase |-> phase, at |-> at, tries |-> tries]

Init ==
  /\ call = At("idle", 1, 0) /\ link = TRUE /\ up = <<>>
  /\ hw = [firmware |-> "old", got |-> None, last |-> None, said |-> "ok"]
  /\ mishaps = 0 /\ ran = FALSE /\ misled = FALSE /\ raced = FALSE

(* run_rcx.  What was uploaded before is what is old now; what the tower   *)
(* still has of answers its reset drops, a serial port may not.            *)
Begin ==
  /\ Over /\ link
  /\ call' = At("waiting", 1, 0) /\ up' \in {<<>>, up}
  /\ hw' = [hw EXCEPT !.firmware = IF @ = "new" THEN "old" ELSE @]
  /\ ran' = FALSE /\ misled' = FALSE /\ raced' = (up' # <<>>)
  /\ UNCHANGED <<link, mishaps>>

(* No image, or no tower.                                                  *)
Refuse ==
  /\ Over
  /\ call' = At("failed", 1, 0) /\ ran' = FALSE /\ misled' = FALSE
  /\ UNCHANGED <<link, up, hw, mishaps, raced>>

----------------------------------------------------------------------------
(* The brick.                                                              *)

Toggle(n) == n % 2 = 0
Repeated  == hw.last = <<Op(call.at), Toggle(call.at)>>

(* What message n does to its firmware, and what it answers.               *)
Did(n) ==
  CASE n = 1 -> [hw EXCEPT !.firmware = "none", !.got = None, !.said = "ok"]
    [] n = 2 /\ hw.firmware = "none" -> [hw EXCEPT !.got = 0, !.said = "ok"]
    [] Op(n) = "block" /\ hw.got = n - 3 -> [hw EXCEPT !.got = n - 2, !.said = "ok"]
    [] n = Unlock /\ hw.got = Blocks -> [hw EXCEPT !.firmware = "new", !.got = None, !.said = "ok"]
    [] OTHER -> [hw EXCEPT !.said = "bad"]
Hears(n) ==
  /\ hw' = IF Repeated THEN hw ELSE [Did(n) EXCEPT !.last = <<Op(n), Toggle(n)>>]
  /\ ran' = (ran \/ hw'.firmware = "new")

----------------------------------------------------------------------------
(* upload_firmware.                                                        *)

(* The answers to the start and to a block are looked at.                  *)
Takes(answer, n) ==
  /\ call' = CASE Op(n) \in {"start", "block"} /\ answer = "bad" -> At("failed", n, 0)
               [] n = Unlock -> At("ok", n, 0)
               [] OTHER -> At("waiting", n + 1, 0)
  /\ misled' = (call'.phase = "ok" /\ ~ran')

(* send_with_retry.                                                        *)
Again ==
  /\ call' = IF call.tries + 1 = Retries THEN At("failed", call.at, 0)
             ELSE [call EXCEPT !.tries = @ + 1]
  /\ UNCHANGED misled

(* The message is heard, and its answer is in time: the first there is, is *)
(* taken; what is read with it is lost.                                    *)
Exchange ==
  /\ call.phase = "waiting" /\ link
  /\ Hears(call.at)
  /\ LET answers == Append(up, hw'.said)
     IN Takes(Head(answers), call.at) /\ up' \in {<<>>, Tail(answers)}
  /\ UNCHANGED <<link, mishaps, raced>>

(* It is not heard, or its answer is lost, or comes too late.              *)
Missed ==
  /\ call.phase = "waiting" /\ link /\ Mishap
  /\ \/ UNCHANGED <<hw, ran, raced>> /\ up' = IF up = <<>> THEN up ELSE Tail(up)
     \/ /\ Hears(call.at)
        /\ LET left == IF up = <<>> THEN up ELSE Tail(up)
           IN \/ up' = left /\ UNCHANGED raced
              \/ Len(left) < MaxUp /\ up' = Append(left, hw'.said) /\ raced' = TRUE
  /\ IF up = <<>> THEN Again ELSE Takes(Head(up), call.at)
  /\ UNCHANGED link

(* Without a tower the write fails.                                        *)
Unplugged ==
  /\ call.phase = "waiting" /\ ~link /\ Again
  /\ UNCHANGED <<link, up, hw, mishaps, ran, raced>>

LinkDrops ==
  /\ link /\ Mishap /\ link' = FALSE /\ up' = <<>>
  /\ UNCHANGED <<call, hw, ran, misled, raced>>
LinkReturns ==
  /\ ~link /\ Over /\ link' = TRUE
  /\ UNCHANGED <<call, up, hw, mishaps, ran, misled, raced>>

Tick == Exchange \/ Missed \/ Unplugged
Next == Begin \/ Refuse \/ Tick \/ LinkDrops \/ LinkReturns

----------------------------------------------------------------------------
(* Unless an answer came too late, the brick has what was answered, and no *)
(* more than the message that is sent; after Ok it runs the new firmware.  *)
CacheFollowsHub ==
  ~raced =>
    /\ ~misled
    /\ call.phase = "waiting" =>
         /\ call.at = 2 => hw.firmware = "none"
         /\ Op(call.at) = "block" => hw.got \in {call.at - 3, call.at - 2}
         /\ call.at = Unlock => hw.got = Blocks \/ hw.firmware = "new"

(* The call waits for a tower that is gone.                                *)
Stranded == call.phase = "waiting" /\ ~link
=============================================================================
