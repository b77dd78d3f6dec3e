----------------------------- MODULE RelayCycle -----------------------------
(***************************************************************************)
(* What RELAYService promises: one activation is one complete cycle of the *)
(* cut-off relay.  The 12 V converter is switched on (leadIn), the relay   *)
(* is energised no sooner than CtrTime later, stays energised for at least *)
(* RelayTime, and the converter is switched off no sooner than CtrTime     *)
(* after the relay was released (leadOut).  A request that arrives during  *)
(* a cycle changes nothing: it neither restarts nor prolongs it.           *)
(*                                                                         *)
(* Time is counted in units of CTR12V_TIME; elapsed is the time spent in   *)
(* the current phase and stops counting at the phase's minimum.            *)
(***************************************************************************)
EXTENDS Naturals

CONSTANTS CtrTime,    (* CTR12V_TIME *)
          RelayTime   (* RELAY_TIME  *)

VARIABLES phase,   (* "idle", "leadIn", "energised" or "leadOut" *)
          elapsed  (* 0..Minimum(phase)                        *)

cycleVars == <<phase, elapsed>>

(* How long a phase lasts at least. *)
Minimum(p) == IF p = "idle" THEN 0
              ELSE IF p = "energised" THEN RelayTime ELSE CtrTime

CycleInit == phase = "idle" /\ elapsed = 0

Move(from, to) == /\ phase = from
                  /\ elapsed >= Minimum(from)
                  /\ phase' = to
                  /\ elapsed' = 0

Start    == Move("idle", "leadIn")
Energise == Move("leadIn", "energised")
Release  == Move("energised", "leadOut")
Finish   == Move("leadOut", "idle")

Elapse == /\ elapsed < Minimum(phase)
          /\ elapsed' = elapsed + 1
          /\ UNCHANGED phase

TimerStep == Energise \/ Release \/ Finish

CycleNext == Start \/ TimerStep \/ Elapse

(* The cycle that has begun runs to its end: the timer keeps firing. *)
CycleSpec == /\ CycleInit
             /\ [][CycleNext]_cycleVars
             /\ WF_cycleVars(Elapse)
             /\ WF_cycleVars(TimerStep)
=============================================================================
