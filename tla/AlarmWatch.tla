----------------------------- MODULE AlarmWatch -----------------------------
(***************************************************************************)
(* The movement alarm (AccelSensor, AccelSensorService.h, ALARMService.h   *)
(* and the part of main.cpp that joins them).  The acceleration is         *)
(* measured in every run of the main loop; the alarm is raised only in the *)
(* runs that read the charger, and lowered by the central's writes.  How   *)
(* the authentication and the activation change is modelled in             *)
(* ImobSession; here they change at any time between the loop's runs.      *)
(***************************************************************************)
EXTENDS Integers

CONSTANTS Axes,
          Registers,    (* the 16 bits read for an axis, 12 of them its value *)
          AlarmStates   (* the bytes a central writes to the alarm            *)

ASSUME AlarmInputs == /\ \A raw \in Registers : raw \in Nat /\ raw < 65536
                      /\ 0 \in AlarmStates /\ AlarmStates \subseteq 0..255

VARIABLES
  accel,             (* the bytes kept of the last measurement               *)
  accelDetection,    (* the detection characteristic                         *)
  alarmState,
  activated, authenticated,
  selectedAnalogIn,
  (* history: the last two measurements in full, and for how many runs the   *)
  (* device has been on guard, off charge, moving and left alone             *)
  sample, before, streak

vars == <<accel, accelDetection, alarmState, activated, authenticated,
          selectedAnalogIn, sample, before, streak>>

AnalogIns == 3
ACCEL_DETECTION_THRESHOLD == 110

Distance(x, y) == IF x > y THEN x - y ELSE y - x

-----------------------------------------------------------------------------
(* AccelSensor::readData(): the registers are left aligned, the value is   *)
(* made negative by hand.                                                  *)
Decode(raw) == IF raw \div 256 > 127 THEN (raw \div 16) - 4096 ELSE raw \div 16

(* Faults a change to the source could introduce; no action uses them. *)
NarrowHigh(value) == (value \div 16) % 256
MeasureWhenCharging(new) == IF selectedAnalogIn = 1 THEN new ELSE accel
FourInputs == (selectedAnalogIn + 1) % (AnalogIns + 1)

(* accel[i] = (uint8_t)aux_accel[i] *)
Narrow(value) == value % 256

(* updateAccel() keeps the new bytes, whatever comes of them. *)
Baseline(new) == new

Measured(raw) == [a \in Axes |-> Narrow(Decode(raw[a]))]

Moved(old, new) == \E a \in Axes : Distance(old[a], new[a]) > ACCEL_DETECTION_THRESHOLD

(* The alarm after a run that finds the charger in a state; 2 is neither   *)
(* charging nor full.                                                      *)
Alarm(charger, moved) == IF charger = 2 /\ activated /\ moved THEN 1 ELSE alarmState

NextInput == (selectedAnalogIn + 1) % AnalogIns

(* One run of the loop's body. *)
Run(raw, charger) ==
  LET new   == Measured(raw)
      moved == Moved(accel, new)
  IN
  /\ accel' = Baseline(new)
  /\ accelDetection' = IF moved THEN 1 ELSE 0
  /\ alarmState' = IF selectedAnalogIn = 1 THEN Alarm(charger, moved) ELSE alarmState
  /\ selectedAnalogIn' = NextInput
  /\ sample' = [a \in Axes |-> Decode(raw[a])]
  /\ before' = sample
  /\ streak' = IF activated /\ charger = 2 /\ moved
                 THEN IF streak < AnalogIns THEN streak + 1 ELSE streak
                 ELSE 0
  /\ UNCHANGED <<activated, authenticated>>

(* ALARMService::onDataWritten(): called for a write to any characteristic. *)
onDataWritten(toAlarm, len, data) ==
  /\ alarmState' = IF toAlarm /\ len = 1 /\ authenticated THEN data ELSE 0
  /\ streak' = 0
  /\ UNCHANGED <<accel, accelDetection, activated, authenticated, selectedAnalogIn, sample, before>>

Session(active, auth) ==
  /\ activated' = active /\ authenticated' = auth
  /\ streak' = 0
  /\ UNCHANGED <<accel, accelDetection, alarmState, selectedAnalogIn, sample, before>>

Init ==
  /\ \E raw \in [Axes -> Registers] :
       /\ accel = Measured(raw)
       /\ sample = [a \in Axes |-> Decode(raw[a])]
  /\ before = sample
  /\ accelDetection = 0 /\ alarmState = 0
  /\ activated = FALSE /\ authenticated = FALSE
  /\ selectedAnalogIn = 0 /\ streak = 0

Next ==
  \/ \E raw \in [Axes -> Registers], charger \in 0..2 : Run(raw, charger)
  \/ \E toAlarm \in BOOLEAN, len \in 0..2, data \in AlarmStates : onDataWritten(toAlarm, len, data)
  \/ \E active, auth \in BOOLEAN : Session(active, auth)

Spec == Init /\ [][Next]_vars

-----------------------------------------------------------------------------
(* The type invariant; a measurement is a signed number of 12 bits.        *)
TypeOK ==
  /\ accel \in [Axes -> 0..255]
  /\ {sample, before} \subseteq [Axes -> -2048..2047]
  /\ accelDetection \in {0, 1} /\ alarmState \in AlarmStates \cup {1}
  /\ {activated, authenticated} \subseteq BOOLEAN
  /\ selectedAnalogIn \in 0..(AnalogIns - 1) /\ streak \in 0..AnalogIns

(* Narrowing loses which multiple of 256 a value lies above, no more: a    *)
(* detection is a change beyond the threshold between the last two runs,   *)
(* unless the change crossed a multiple of 256.                            *)
Crossed(a) == before[a] \div 256 # sample[a] \div 256
DetectionIsMovement ==
  /\ accelDetection = 1 =>
       \E a \in Axes : Crossed(a) \/ Distance(before[a], sample[a]) > ACCEL_DETECTION_THRESHOLD
  /\ accelDetection = 0 =>
       \A a \in Axes : Crossed(a) \/ Distance(before[a], sample[a]) <= ACCEL_DETECTION_THRESHOLD

(* Movement is looked at in one run of three: a device on guard that is    *)
(* moved in three runs in a row has raised the alarm.                      *)
AlarmWithinRound == streak = AnalogIns => alarmState # 0

(* The alarm is raised by a movement of the very run that raises it.       *)
AlarmIsFresh ==
  [][(alarmState = 0 /\ alarmState' = 1 /\ selectedAnalogIn' # selectedAnalogIn)
       => /\ activated
          /\ \E a \in Axes : \/ sample[a] \div 256 # sample'[a] \div 256
                             \/ Distance(sample[a], sample'[a]) > ACCEL_DETECTION_THRESHOLD]_vars
=============================================================================
