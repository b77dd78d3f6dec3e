----------------------------- MODULE PowerGauges -----------------------------
(***************************************************************************)
(* The analog inputs the main loop reads in turn, and what it derives from *)
(* them (main.cpp, InternalValuesService.h, BatteryService.h): the battery *)
(* level and its calibration, the charger's state, and how many runs of    *)
(* the body ("program cycles") were counted in each state of the charger.  *)
(*                                                                         *)
(* One run of the body reads one input.  A reading is r/Resolution of full *)
(* scale.  batteryLevelConstant, a float, is kept as the batteryLevel it   *)
(* was calibrated with: it is 100 * 100/fullLevel, infinite when that is   *)
(* 0.  The rounding of floats is left out.                                 *)
(***************************************************************************)
EXTENDS Naturals

CONSTANTS Resolution,   (* steps of a reading in full scale                  *)
          MaxCycles     (* bound: the charger is found to have left a state  *)
                        (* once MaxCycles runs were counted in it            *)

ASSUME GaugeBounds == Resolution \in Nat \ {0} /\ MaxCycles \in Nat

VARIABLES
  selectedAnalogIn,
  batteryLevel,              (* uint8_t, also the value of the characteristic *)
  batteryLevelCalibration, fullLevel,
  lipoChargerState,          (* 0 below 0.4 of full scale, 1 above 0.9, else 2 *)
  cycles,                    (* chargeProgramCycles, dischargeProgramCycles   *)
  reported                   (* the values of their characteristics           *)

vars == <<selectedAnalogIn, batteryLevel, batteryLevelCalibration, fullLevel,
          lipoChargerState, cycles, reported>>

AnalogIns == 3

Byte == 0..255

(* Which state of the charger is counted by which counter. *)
Counters == {"charge", "discharge"}
CountedIn(q) == IF q = "charge" THEN 0 ELSE 1

-----------------------------------------------------------------------------
(* Faults a change to the source could introduce; no action uses them. *)
WideLevels(r) == IF fullLevel = 0 THEN Byte ELSE {(r * 10000) \div (Resolution * fullLevel)}

CountInOldState(kept, state) ==
  cycles' = [q \in Counters |-> IF lipoChargerState = CountedIn(q) THEN kept[q] + 1 ELSE kept[q]]

(* (uint8_t)(batteryCharge.read()*batteryLevelConstant): undefined, so any *)
(* byte, when the product is not a number or does not fit.                 *)
Levels(r) == IF fullLevel = 0 \/ r * 10000 >= 256 * Resolution * fullLevel
               THEN Byte
               ELSE {(r * 10000) \div (Resolution * fullLevel)}

(* The increment at the end of every run, in the state it leaves. *)
CountCycles(kept, state) ==
  cycles' = [q \in Counters |-> IF state = CountedIn(q) THEN kept[q] + 1 ELSE kept[q]]

(* A counter is reported, and reset, when the state changes from its own   *)
(* to the other's; by way of state 2 it is not.                            *)
Reports(q, state) == /\ lipoChargerState = CountedIn(q)
                     /\ state \in {0, 1} \ {CountedIn(q)}

Kept(state) == [q \in Counters |-> IF Reports(q, state) THEN 0 ELSE cycles[q]]

(* batteryLevelConstant *= 100/batteryLevel, once, when found full. *)
Calibrate(state) ==
  IF ~batteryLevelCalibration /\ state = 1
    THEN batteryLevelCalibration' = TRUE /\ fullLevel' = batteryLevel
    ELSE UNCHANGED <<batteryLevelCalibration, fullLevel>>

-----------------------------------------------------------------------------
NextInput == selectedAnalogIn' = (selectedAnalogIn + 1) % AnalogIns

ReadBattery ==
  /\ selectedAnalogIn = 0
  /\ \E r \in 0..Resolution : batteryLevel' \in Levels(r)
  /\ CountCycles(cycles, lipoChargerState)
  /\ NextInput
  /\ UNCHANGED <<batteryLevelCalibration, fullLevel, lipoChargerState, reported>>

ReadCharger(state) ==
  /\ selectedAnalogIn = 1
  /\ \A q \in Counters : state = CountedIn(q) => cycles[q] < MaxCycles
  /\ reported' = [q \in Counters |-> IF Reports(q, state) THEN cycles[q] ELSE reported[q]]
  /\ Calibrate(state)
  /\ lipoChargerState' = state
  /\ CountCycles(Kept(state), state)
  /\ NextInput
  /\ UNCHANGED batteryLevel

(* What the contact is for is modelled in ImobSession. *)
ReadContact ==
  /\ selectedAnalogIn = 2
  /\ CountCycles(cycles, lipoChargerState)
  /\ NextInput
  /\ UNCHANGED <<batteryLevel, batteryLevelCalibration, fullLevel, lipoChargerState, reported>>

Init == /\ selectedAnalogIn = 0
        /\ batteryLevel = 0
        /\ batteryLevelCalibration = FALSE
        /\ fullLevel = 100
        /\ lipoChargerState = 2
        /\ cycles = [q \in Counters |-> 0]
        /\ reported = [q \in Counters |-> 0]

Next == ReadBattery \/ (\E state \in 0..2 : ReadCharger(state)) \/ ReadContact

Spec == Init /\ [][Next]_vars

-----------------------------------------------------------------------------
(* The type invariant; the levels fit the byte of the characteristic.      *)
TypeOK == /\ selectedAnalogIn \in 0..(AnalogIns - 1)
          /\ {batteryLevel, fullLevel} \subseteq Byte
          /\ batteryLevelCalibration \in BOOLEAN
          /\ lipoChargerState \in 0..2
          /\ cycles \in [Counters -> 0..(MaxCycles + AnalogIns)]
          /\ reported \in [Counters -> 0..(MaxCycles + AnalogIns)]

(* The charger is read in every third run only, and the counter of its     *)
(* state runs on until then: whatever is reported counts whole rounds of   *)
(* the inputs, at least one.                                               *)
ReportsWholeRounds ==
  [][\A q \in Counters :
       Reports(q, lipoChargerState') =>
         reported'[q] >= AnalogIns /\ reported'[q] % AnalogIns = 0]_vars

(* BatteryService::updateBatteryLevel(): "Valid values lie between 0 and   *)
(* 100, anything outside this range will be ignored."                      *)
OnlyPercentages == batteryLevel \in 0..100
=============================================================================
