----------------------------- MODULE HatUpload -----------------------------
(***************************************************************************)
(* bricklogo --firmware buildhat: run_buildhat (crates/bricklogo/src/      *)
(* firmware.rs) and the upload it starts (crates/rust-buildhat/src/        *)
(* firmware.rs).  The HAT must be in its boot loader; it is cleared, given *)
(* the image and the signature, a prompt awaited after each, and rebooted. *)
(* Nothing but a prompt is looked for in what the HAT writes, and one that *)
(* is left over counts: what says whether the upload worked is the state   *)
(* that is asked for at the end.                                           *)
(*                                                                         *)
(* The HAT is external; bytes and checksums are left out.                  *)
(***************************************************************************)
EXTENDS Integers

CONSTANTS
  MaxMishaps,  (* bound on what the environment does                       *)
  None

VARIABLES
  call,     (* phase, and the step the upload is at                        *)
  link,     (* the HAT is on the Pi, with power                            *)
  up,       (* a prompt nobody waited for is in the serial buffer          *)
  hw,       (* the HAT: the program it is in, and the image and the        *)
            (* signature the boot loader has                               *)
  mishaps,
  ran       (* history: the HAT started the firmware of this call          *)

vars == <<call, link, up, hw, mishaps, ran>>

Steps == {"detect", "clear", "load", "signature", "reboot", "verify"}
After == [detect |-> "clear", clear |-> "load", load |-> "signature", signature |-> "reboot",
          reboot |-> "verify"]

TypeOK ==
  /\ call \in [phase : {"idle", "waiting", "ok", "failed"}, step : Steps]
  /\ link \in BOOLEAN /\ up \in BOOLEAN
  /\ hw \in [in : {"bootloader", "booting", "firmware"}, image : {None, "bad", "good"}, signed : BOOLEAN]
  /\ mishaps \in 0 .. MaxMishaps /\ ran \in BOOLEAN

Over     == call.phase # "waiting"
Mishap   == mishaps < MaxMishaps /\ mishaps' = mishaps + 1
InStep(S) == call.phase = "waiting" /\ call.step \in S
Goes     == call' = [call EXCEPT !.step = After[call.step]]
Ends(phase) == call' = [call EXCEPT !.phase = phase]
PowerOn  == [in |-> "bootloader", image |-> None, signed |-> FALSE]

Init ==
  /\ call = [phase |-> "idle", step |-> "detect"] /\ link = TRUE /\ up = FALSE
  /\ hw \in {PowerOn, [PowerOn EXCEPT !.in = "firmware"]} /\ mishaps = 0 /\ ran = FALSE

(* run_buildhat, with an image and its signature, or without.              *)
Begin ==
  /\ Over
  /\ call' = [phase |-> "waiting", step |-> "detect"]
  /\ ran' = FALSE /\ UNCHANGED <<link, up, hw, mishaps>>
Refuse ==
  /\ Over
  /\ call' = [phase |-> "failed", step |-> "detect"]
  /\ ran' = FALSE /\ UNCHANGED <<link, up, hw, mishaps>>

(* detect_state asks for the version, five times if need be: what a boot   *)
(* loader writes after the line that is recognised stays unread.  The      *)
(* firmware is left alone.                                                 *)
Detect ==
  /\ InStep({"detect"}) /\ link
  /\ \/ hw.in = "bootloader" /\ Goes /\ up' \in BOOLEAN
     \/ hw.in = "firmware" /\ Ends("failed") /\ UNCHANGED up
  /\ UNCHANGED <<link, hw, mishaps, ran>>

(* What a HAT in its boot loader does in a step: an image or a signature   *)
(* that something happens to on the way is bad.                            *)
Did(image, signed) ==
  CASE call.step = "clear" -> [hw EXCEPT !.image = None, !.signed = FALSE]
    [] call.step = "load" -> [hw EXCEPT !.image = image]
    [] call.step = "signature" -> [hw EXCEPT !.signed = signed]

(* wait_for_prompt: the prompt of the step comes, or one is left over; in  *)
(* that case the step's own may be left over next.                         *)
Prompted ==
  /\ InStep({"clear", "load", "signature"}) /\ link
  /\ \/ hw' = Did("good", TRUE) /\ UNCHANGED mishaps
     \/ hw' = Did("bad", FALSE) /\ Mishap
  /\ up' \in {FALSE, up} /\ Goes
  /\ UNCHANGED <<link, ran>>

(* The step is not heard, or no prompt comes back.                         *)
NoPrompt ==
  /\ InStep({"clear", "load", "signature"})
  /\ \/ link /\ Mishap /\ hw' \in {hw, Did("good", TRUE)}
     \/ ~link /\ UNCHANGED <<mishaps, hw>>
  /\ up' = FALSE
  /\ IF up THEN Goes ELSE Ends("failed")
  /\ UNCHANGED <<link, ran>>

(* The reboot, if it is heard: a good image starts, in the time allowed or *)
(* later; the upload goes on in any case.                                  *)
Reboot ==
  /\ InStep({"reboot"})
  /\ \/ link /\ UNCHANGED mishaps
        /\ hw' = IF hw.image = "good" /\ hw.signed THEN [hw EXCEPT !.in = "booting"] ELSE PowerOn
     \/ link /\ Mishap /\ UNCHANGED hw
     \/ ~link /\ UNCHANGED <<mishaps, hw>>
  /\ Goes /\ up' = FALSE
  /\ UNCHANGED <<link, ran>>
Boots ==
  /\ link /\ hw.in = "booting"
  /\ hw' = [hw EXCEPT !.in = "firmware"]
  /\ ran' = (ran \/ call.step = "verify")
  /\ UNCHANGED <<call, link, up, mishaps>>

(* detect_state again decides.                                             *)
Verify ==
  /\ InStep({"verify"}) /\ link /\ hw.in # "booting"
  /\ Ends(IF hw.in = "firmware" THEN "ok" ELSE "failed")
  /\ up' \in {FALSE, hw.in = "bootloader"}
  /\ UNCHANGED <<link, hw, mishaps, ran>>

(* No HAT answers, or it still boots.                                      *)
Silent == ~link \/ hw.in = "booting"
NoAnswer ==
  /\ InStep({"detect", "verify"}) /\ (~Silent => Mishap) /\ (Silent => UNCHANGED mishaps)
  /\ Ends("failed")
  /\ UNCHANGED <<link, up, hw, ran>>

(* The HAT comes off the Pi, and is put back: it is in its boot loader.    *)
LinkDrops ==
  /\ link /\ Mishap /\ link' = FALSE /\ hw' = PowerOn
  /\ call' = IF Over THEN [phase |-> "idle", step |-> "detect"] ELSE call
  /\ ran' = (ran /\ ~Over) /\ UNCHANGED up
LinkReturns ==
  /\ ~link /\ Over /\ link' = TRUE /\ UNCHANGED <<call, up, hw, mishaps, ran>>

Tick == Detect \/ Prompted \/ NoPrompt \/ Reboot \/ Verify \/ NoAnswer
Next == Begin \/ Refuse \/ Tick \/ Boots \/ LinkDrops \/ LinkReturns

----------------------------------------------------------------------------
(* Prompts left over or not, Ok means that the HAT runs the firmware; and  *)
(* what is sent to a boot loader is never sent to a firmware.              *)
CacheFollowsHub ==
  /\ call.phase = "ok" => hw.in = "firmware" /\ ran
  /\ InStep({"clear", "load", "signature", "reboot"}) => hw.in = "bootloader"

(* The call waits for a HAT that is gone.                                  *)
Stranded == call.phase = "waiting" /\ ~link
=============================================================================
