-------------------------- MODULE AlarmWatchProofs --------------------------
(***************************************************************************)
(* Proofs about AlarmWatch for any axes and any measurements of 12 bits.   *)
(*                                                                         *)
(* The strengthening: the bytes kept are those of the last measurement     *)
(* (Kept), the detection is what was found between the bytes of the last   *)
(* two (Detected), and an unbroken streak has raised the alarm as soon as  *)
(* one of its runs read the charger (Watched).                             *)
(***************************************************************************)
EXTENDS AlarmWatch, TLAPS

Value12 == {v \in Int : -2048 <= v /\ v < 2048}

Typed ==
  /\ accel \in [Axes -> 0..255]
  /\ sample \in [Axes -> Value12] /\ before \in [Axes -> Value12]
  /\ accelDetection \in {0, 1} /\ alarmState \in AlarmStates \cup {1}
  /\ selectedAnalogIn \in 0..2 /\ streak \in 0..3

Kept == \A a \in Axes : accel[a] = sample[a] % 256

Detected ==
  /\ accelDetection = 1 =>
       \E a \in Axes : Distance(before[a] % 256, sample[a] % 256) > ACCEL_DETECTION_THRESHOLD
  /\ accelDetection = 0 =>
       \A a \in Axes : Distance(before[a] % 256, sample[a] % 256) <= ACCEL_DETECTION_THRESHOLD

Watched == \/ alarmState # 0
           \/ streak = 0
           \/ streak = 1 /\ selectedAnalogIn \in {0, 1}
           \/ streak = 2 /\ selectedAnalogIn = 1

IInv == Typed /\ Kept /\ Detected /\ Watched

-----------------------------------------------------------------------------
(* What is decoded is a signed number of 12 bits, what is kept is a byte.  *)
LEMMA Decoding == ASSUME NEW raw \in Registers PROVE Decode(raw) \in Value12
<1>1. raw \in Nat /\ raw < 65536
  BY AlarmInputs
<1>2. /\ raw \div 256 \in Int /\ raw \div 16 \in Int
      /\ 0 <= raw \div 16 /\ raw \div 16 < 4096
      /\ raw \div 256 > 127 => raw \div 16 >= 2048
      /\ ~(raw \div 256 > 127) => raw \div 16 <= 2047
  BY <1>1
<1> QED
  BY <1>2 DEF Decode, Value12

LEMMA Measuring ==
  ASSUME NEW raw \in [Axes -> Registers]
  PROVE  /\ [a \in Axes |-> Decode(raw[a])] \in [Axes -> Value12]
         /\ Measured(raw) \in [Axes -> 0..255]
         /\ \A a \in Axes : Measured(raw)[a] = [b \in Axes |-> Decode(raw[b])][a] % 256
<1>1. \A a \in Axes : Decode(raw[a]) \in Value12
  BY Decoding
<1>2. \A v \in Value12 : v % 256 \in 0..255
  BY DEF Value12
<1> QED
  BY <1>1, <1>2 DEF Measured, Narrow

(* The bytes of two values differ as the values do, unless a multiple of   *)
(* 256 lies between them.                                                  *)
LEMMA Narrowing ==
  ASSUME NEW x \in Value12, NEW y \in Value12, x \div 256 = y \div 256
  PROVE  Distance(x % 256, y % 256) = Distance(x, y)
<1>1. x = 256 * (x \div 256) + (x % 256) /\ y = 256 * (y \div 256) + (y % 256)
  BY DEF Value12
<1>2. /\ x \in Int /\ x % 256 \in Int /\ x \div 256 \in Int
      /\ y \in Int /\ y % 256 \in Int /\ y \div 256 \in Int
  BY DEF Value12
<1> QED
  BY <1>1, <1>2 DEF Distance

-----------------------------------------------------------------------------
LEMMA Initially == Init => IInv
<1> SUFFICES ASSUME Init PROVE IInv
  OBVIOUS
<1>1. PICK raw \in [Axes -> Registers] :
        accel = Measured(raw) /\ sample = [a \in Axes |-> Decode(raw[a])]
  BY DEF Init
<1>2. Typed
  BY <1>1, Measuring, AlarmInputs DEF Init, Typed
<1>3. Kept
  BY <1>1, Measuring DEF Kept
<1>4. Detected
  <2>1. before = sample /\ accelDetection = 0
    BY DEF Init
  <2>2. ASSUME NEW a \in Axes PROVE sample[a] % 256 \in Int
    BY <1>2 DEF Typed, Value12
  <2>3. \A n \in Int : Distance(n, n) = 0
    BY DEF Distance
  <2>4. \A a \in Axes : Distance(before[a] % 256, sample[a] % 256) = 0
    BY <2>1, <2>2, <2>3
  <2> QED
    BY <2>1, <2>4 DEF Detected, ACCEL_DETECTION_THRESHOLD
<1> QED
  BY <1>2, <1>3, <1>4 DEF Init, IInv, Watched

LEMMA RunStep ==
  ASSUME IInv, NEW raw \in [Axes -> Registers], NEW charger \in 0..2, Run(raw, charger)
  PROVE  IInv'
<1> DEFINE moved == Moved(accel, Measured(raw))
<1>1. /\ accel' = Measured(raw) /\ sample' = [a \in Axes |-> Decode(raw[a])]
      /\ before' = sample
      /\ accelDetection' = IF moved THEN 1 ELSE 0
      /\ alarmState' = IF selectedAnalogIn = 1 THEN Alarm(charger, moved) ELSE alarmState
      /\ selectedAnalogIn' = (selectedAnalogIn + 1) % 3
      /\ streak' = IF activated /\ charger = 2 /\ moved
                     THEN IF streak < 3 THEN streak + 1 ELSE streak
                     ELSE 0
  BY DEF Run, Baseline, NextInput, AnalogIns
<1>2. Typed'
  BY <1>1, Measuring DEF IInv, Typed, Alarm
<1>3. Kept'
  BY <1>1, Measuring DEF Kept
<1>4. Detected'
  <2>1. moved <=> \E a \in Axes : Distance(before'[a] % 256, sample'[a] % 256) > ACCEL_DETECTION_THRESHOLD
    BY <1>1, <1>3 DEF IInv, Kept, Moved
  <2>2. \A a \in Axes : Distance(before'[a] % 256, sample'[a] % 256) \in Int
    BY <1>2 DEF Typed, Value12, Distance
  <2> QED
    BY <1>1, <2>1, <2>2 DEF Detected, ACCEL_DETECTION_THRESHOLD
<1>5. Watched'
  <2>1. CASE activated /\ charger = 2 /\ moved
    BY <1>1, <2>1 DEF IInv, Typed, Watched, Alarm
  <2>2. CASE ~(activated /\ charger = 2 /\ moved)
    BY <1>1, <2>2 DEF Watched
  <2> QED
    BY <2>1, <2>2
<1> QED
  BY <1>2, <1>3, <1>4, <1>5 DEF IInv

LEMMA WriteStep ==
  ASSUME IInv, NEW toAlarm \in BOOLEAN, NEW len \in 0..2, NEW data \in AlarmStates,
         onDataWritten(toAlarm, len, data)
  PROVE  IInv'
<1>1. alarmState' \in AlarmStates
  BY AlarmInputs DEF onDataWritten
<1> QED
  BY <1>1 DEF onDataWritten, IInv, Typed, Kept, Detected, Watched

LEMMA SessionStep ==
  ASSUME IInv, NEW active \in BOOLEAN, NEW auth \in BOOLEAN, Session(active, auth)
  PROVE  IInv'
BY DEF Session, IInv, Typed, Kept, Detected, Watched

LEMMA Step == ASSUME IInv, [Next]_vars PROVE IInv'
<1>1. CASE UNCHANGED vars
  BY <1>1 DEF vars, IInv, Typed, Kept, Detected, Watched
<1> QED
  BY <1>1, RunStep, WriteStep, SessionStep DEF Next

(* The inductive invariant of the watch. *)
THEOREM WatchKept == Spec => []IInv
<1>1. IInv /\ [Next]_vars => IInv'
  BY Step
<1> QED
  BY Initially, <1>1, PTL DEF Spec

-----------------------------------------------------------------------------
(* A detection is a change beyond the threshold, unless it crossed a       *)
(* multiple of 256: for any measurements, on any number of axes.           *)
THEOREM DetectionMeans == Spec => []DetectionIsMovement
<1>1. IInv => DetectionIsMovement
  <2> SUFFICES ASSUME IInv PROVE DetectionIsMovement
    OBVIOUS
  <2>1. \A a \in Axes : ~Crossed(a) =>
          Distance(before[a] % 256, sample[a] % 256) = Distance(before[a], sample[a])
    BY Narrowing DEF Crossed, IInv, Typed
  <2> QED
    BY <2>1 DEF DetectionIsMovement, IInv, Detected
<1> QED
  BY <1>1, WatchKept, PTL

(* Movement on guard through three runs in a row has raised the alarm.     *)
THEOREM RoundRaises == Spec => []AlarmWithinRound
<1>1. IInv => AlarmWithinRound
  BY DEF IInv, Watched, AlarmWithinRound, AnalogIns
<1> QED
  BY <1>1, WatchKept, PTL

LEMMA RaisedByMovement ==
  ASSUME IInv, [Next]_vars, alarmState = 0, alarmState' = 1, selectedAnalogIn' # selectedAnalogIn
  PROVE  /\ activated
         /\ \E a \in Axes : \/ sample[a] \div 256 # sample'[a] \div 256
                            \/ Distance(sample[a], sample'[a]) > ACCEL_DETECTION_THRESHOLD
<1>1. PICK raw \in [Axes -> Registers], charger \in 0..2 : Run(raw, charger)
  BY DEF Next, vars, onDataWritten, Session
<1>2. activated /\ Moved(accel, Measured(raw)) /\ accel' = Measured(raw)
  BY <1>1 DEF Run, Baseline, Alarm
<1>3. Kept' /\ Typed'
  BY Step DEF IInv
<1>4. PICK a \in Axes : Distance(sample[a] % 256, sample'[a] % 256) > ACCEL_DETECTION_THRESHOLD
  BY <1>2, <1>3 DEF IInv, Kept, Moved
<1>5. sample[a] \in Value12 /\ sample'[a] \in Value12
  BY <1>3 DEF IInv, Typed
<1> QED
  BY <1>2, <1>4, <1>5, Narrowing

(* The alarm is raised by a movement of the very run that raises it.       *)
THEOREM RaisedFresh == Spec => AlarmIsFresh
<1>1. IInv /\ [Next]_vars =>
        [(alarmState = 0 /\ alarmState' = 1 /\ selectedAnalogIn' # selectedAnalogIn)
           => /\ activated
              /\ \E a \in Axes : \/ sample[a] \div 256 # sample'[a] \div 256
                                 \/ Distance(sample[a], sample'[a]) > ACCEL_DETECTION_THRESHOLD]_vars
  BY RaisedByMovement
<1> QED
  BY <1>1, WatchKept, PTL DEF Spec, AlarmIsFresh
=============================================================================
