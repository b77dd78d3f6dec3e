---------------------------- MODULE MCAlarmWatch ----------------------------
(* AlarmWatch with measurements on both sides of zero, of the threshold and  *)
(* of the multiples of 256; the low four bits of a register carry nothing.   *)
EXTENDS AlarmWatch

MCAxes == {"x", "y"}

(* The registers of a measurement. *)
Encode(v) == (IF v < 0 THEN v + 4096 ELSE v) * 16
MCRegisters == {Encode(v) : v \in {0, 110, 111, 256, -1, -2048}}
=============================================================================
