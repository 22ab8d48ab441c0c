------------------------------ MODULE HubCall ------------------------------
(***************************************************************************)
(* What an adapter promises of one command it sends to its hub: the caller *)
(* waits for it, the hub carries it out at most once, the caller is told   *)
(* Ok only after that, and a command given up on may still be carried out. *)
(* The adapters' modules implement this specification.                     *)
(***************************************************************************)
VARIABLES
  phase,   (* of the command issued last                                   *)
  ran      (* the hub carried it out                                       *)

vars   == <<phase, ran>>
Phases == {"idle", "waiting", "ok", "failed"}
TypeOK == phase \in Phases /\ ran \in BOOLEAN

Init == phase = "idle" /\ ran = FALSE

(* A command is issued when the one before it is over.                     *)
Issue   == phase # "waiting" /\ phase' = "waiting" /\ ran' = FALSE
(* It is refused without being sent.                                       *)
Refuse  == phase # "waiting" /\ phase' = "failed" /\ ran' = FALSE
(* The hub carries it out, perhaps after the caller gave up.               *)
Execute == phase \in {"waiting", "failed"} /\ ~ran /\ ran' = TRUE /\ UNCHANGED phase
(* Ok: it has been carried out, now at the latest.                         *)
Succeed == phase = "waiting" /\ phase' = "ok" /\ ran' = TRUE
(* A failure says nothing about whether it has been.                       *)
Fail    == phase = "waiting" /\ phase' = "failed" /\ ran' \in {ran, TRUE}
(* The device is forgotten and a new one is called.                        *)
Forget  == phase # "waiting" /\ phase' = "idle" /\ ran' = FALSE

Next == Issue \/ Refuse \/ Execute \/ Succeed \/ Fail \/ Forget
Spec == Init /\ [][Next]_vars
=============================================================================
