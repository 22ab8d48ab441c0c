------------------------------ MODULE Rotations ------------------------------
(***************************************************************************)
(* Turns of a motor to an angle: rotateto_delta and rotate_abs_delta of    *)
(* crates/bricklogo-hal/src/adapter.rs, from the count or the absolute     *)
(* angle of the motor, the way its direction says.  The integers are those *)
(* whose difference an i32 holds.                                          *)
(***************************************************************************)
EXTENDS Integers

(* Mutant of RotateTo: backwards is what forwards leaves of the circle.    *)
RotateRound(current, target, direction) ==
  LET raw == (target - (current % 360)) % 360
  IN  IF direction = "Even" THEN raw ELSE raw - 360

(* rotateto_delta; rem_euclid is %.                                        *)
RotateTo(current, target, direction) ==
  LET raw == (target - (current % 360)) % 360
  IN  IF direction = "Even" \/ raw = 0 THEN raw ELSE raw - 360

(* rotate_abs_delta.                                                       *)
RotateAbs(apos, target, direction) ==
  IF direction = "Even" THEN (target - apos) % 360 ELSE -((apos - target) % 360)

(* The motor ends at the target, having gone its way, less than a turn.    *)
Lands(from, target, direction, delta) ==
  /\ (from + delta - target) % 360 = 0
  /\ IF direction = "Even" THEN delta \in 0 .. 359 ELSE delta \in -359 .. 0
TurnLands(from, target) ==
  \A direction \in {"Even", "Odd"} :
    /\ Lands(from, target, direction, RotateTo(from, target, direction))
    /\ Lands(from, target, direction, RotateAbs(from, target, direction))
=============================================================================
