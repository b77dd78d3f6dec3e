-------------------------- MODULE PowerGaugesProofs --------------------------
(***************************************************************************)
(* Proofs about PowerGauges for any resolution and any bound on cycles.    *)
(*                                                                         *)
(* Rounds is the strengthening: while the charger is in a counter's state, *)
(* the counter is ahead of a whole number of rounds by the inputs read     *)
(* since the charger; otherwise it is a whole number of rounds.            *)
(***************************************************************************)
EXTENDS PowerGauges, Integers, TLAPS

(* The inputs read since the charger, itself included, when q counts. *)
Ahead(q) == IF lipoChargerState = CountedIn(q) THEN (selectedAnalogIn + 2) % AnalogIns ELSE 0

Rounds == \A q \in Counters :
            /\ cycles[q] % AnalogIns = Ahead(q)
            /\ lipoChargerState = CountedIn(q) => cycles[q] > 0

Typed == /\ selectedAnalogIn \in 0..2
         /\ lipoChargerState \in 0..2
         /\ cycles \in [Counters -> Nat]

IInv == Typed /\ Rounds

LEMMA CounterStates ==
  /\ Counters = {"charge", "discharge"}
  /\ CountedIn("charge") = 0 /\ CountedIn("discharge") = 1
  /\ \A q \in Counters : CountedIn(q) \in {0, 1}
BY DEF Counters, CountedIn

LEMMA Initially == Init => IInv
BY CounterStates DEF Init, IInv, Typed, Rounds, Ahead, AnalogIns

(* Reading the battery or the contact leaves the charger's state alone. *)
LEMMA OtherInputs ==
  ASSUME IInv, selectedAnalogIn \in {0, 2}, UNCHANGED lipoChargerState,
         CountCycles(cycles, lipoChargerState), NextInput
  PROVE  IInv'
<1>1. Typed'
  BY DEF IInv, Typed, CountCycles, NextInput, AnalogIns
<1>2. ASSUME NEW q \in Counters
      PROVE  /\ cycles'[q] % AnalogIns = Ahead(q)'
             /\ lipoChargerState' = CountedIn(q) => cycles'[q] > 0
  <2>1. cycles[q] \in Nat /\ cycles[q] % 3 = Ahead(q)
    BY DEF IInv, Typed, Rounds, AnalogIns
  <2>2. CASE lipoChargerState = CountedIn(q)
    <3>1. cycles'[q] = cycles[q] + 1
      BY <2>2 DEF CountCycles
    <3> QED
      BY <2>1, <2>2, <3>1 DEF Ahead, NextInput, AnalogIns
  <2>3. CASE lipoChargerState # CountedIn(q)
    BY <2>1, <2>3 DEF Ahead, CountCycles, AnalogIns
  <2> QED
    BY <2>2, <2>3
<1> QED
  BY <1>1, <1>2 DEF IInv, Rounds

LEMMA Charger == ASSUME IInv, NEW state \in 0..2, ReadCharger(state) PROVE IInv'
<1>1. Typed'
  BY DEF IInv, Typed, ReadCharger, CountCycles, Kept, NextInput, AnalogIns
<1>2. ASSUME NEW q \in Counters
      PROVE  /\ cycles'[q] % AnalogIns = Ahead(q)'
             /\ lipoChargerState' = CountedIn(q) => cycles'[q] > 0
  <2>1. /\ cycles[q] \in Nat /\ cycles[q] % 3 = 0
        /\ selectedAnalogIn' = 2 /\ lipoChargerState' = state
    BY DEF IInv, Typed, Rounds, Ahead, AnalogIns, ReadCharger, NextInput
  <2>2. Kept(state)[q] \in Nat /\ Kept(state)[q] % 3 = 0
    BY <2>1 DEF Kept
  <2>3. CASE state = CountedIn(q)
    <3>1. cycles'[q] = Kept(state)[q] + 1
      BY <2>3 DEF ReadCharger, CountCycles
    <3> QED
      BY <2>1, <2>2, <2>3, <3>1 DEF Ahead, AnalogIns
  <2>4. CASE state # CountedIn(q)
    <3>1. cycles'[q] = Kept(state)[q]
      BY <2>4 DEF ReadCharger, CountCycles
    <3> QED
      BY <2>1, <2>2, <2>4, <3>1 DEF Ahead, AnalogIns
  <2> QED
    BY <2>3, <2>4
<1> QED
  BY <1>1, <1>2 DEF IInv, Rounds

LEMMA Preserved == IInv /\ [Next]_vars => IInv'
<1> SUFFICES ASSUME IInv, [Next]_vars PROVE IInv'
  OBVIOUS
<1>1. CASE ReadBattery
  BY <1>1, OtherInputs DEF ReadBattery
<1>2. CASE \E state \in 0..2 : ReadCharger(state)
  BY <1>2, Charger
<1>3. CASE ReadContact
  BY <1>3, OtherInputs DEF ReadContact
<1>4. CASE UNCHANGED vars
  BY <1>4 DEF vars, IInv, Typed, Rounds, Ahead
<1> QED
  BY <1>1, <1>2, <1>3, <1>4 DEF Next

(* Each counter is ahead of whole rounds by what was read since the charger. *)
THEOREM RoundsKept == Spec => []IInv
BY Initially, Preserved, PTL DEF Spec

LEMMA ReportIsWhole ==
  ASSUME IInv, [Next]_vars, NEW q \in Counters, Reports(q, lipoChargerState')
  PROVE  reported'[q] >= AnalogIns /\ reported'[q] % AnalogIns = 0
<1>1. lipoChargerState' # lipoChargerState
  BY CounterStates DEF Reports
<1>2. PICK state \in 0..2 : ReadCharger(state)
  BY <1>1 DEF Next, ReadBattery, ReadContact, vars
<1>3. reported'[q] = cycles[q] /\ lipoChargerState = CountedIn(q) /\ selectedAnalogIn = 1
  BY <1>2 DEF ReadCharger, Reports
<1>4. cycles[q] \in Nat /\ cycles[q] % 3 = 0 /\ cycles[q] > 0
  BY <1>3 DEF IInv, Typed, Rounds, Ahead, AnalogIns
<1> QED
  BY <1>3, <1>4 DEF AnalogIns

(* Whatever is reported counts whole rounds of the inputs, at least one.   *)
THEOREM WholeRounds == Spec => ReportsWholeRounds
<1>1. IInv /\ [Next]_vars =>
        [\A q \in Counters : Reports(q, lipoChargerState') =>
           reported'[q] >= AnalogIns /\ reported'[q] % AnalogIns = 0]_vars
  BY ReportIsWhole
<1> QED
  BY <1>1, RoundsKept, PTL DEF Spec, ReportsWholeRounds

-----------------------------------------------------------------------------
(* Types.  A counter that runs has at most the bound and the inputs read   *)
(* since the charger; one that rests may be behind by a whole round.       *)
Limit(q) == IF lipoChargerState = CountedIn(q) THEN MaxCycles + ((selectedAnalogIn + 1) % AnalogIns)
                                               ELSE MaxCycles + 2

Counted == /\ cycles \in [Counters -> Nat]
           /\ \A q \in Counters : cycles[q] <= Limit(q)

TInv == TypeOK /\ Counted

LEMMA Quotient == ASSUME NEW a \in Nat, NEW b \in Nat \ {0}, a < 256 * b
                  PROVE  a \div b \in Byte
<1>1. a \div b \in Int /\ a = b * (a \div b) + (a % b) /\ a % b \in 0..(b - 1)
  OBVIOUS
<1>2. a \div b >= 0
  BY <1>1
<1>3. CASE a \div b >= 256
  <2>1. b * (a \div b) >= b * 256
    BY <1>1, <1>3
  <2> QED
    BY <1>1, <2>1
<1> QED
  BY <1>1, <1>2, <1>3 DEF Byte

LEMMA LevelsAreBytes == ASSUME NEW r \in 0..Resolution, fullLevel \in Byte PROVE Levels(r) \subseteq Byte
<1>1. CASE fullLevel = 0 \/ r * 10000 >= 256 * Resolution * fullLevel
  BY <1>1 DEF Levels
<1>2. CASE fullLevel # 0 /\ r * 10000 < 256 * Resolution * fullLevel
  <2>1. Resolution \in Nat \ {0} /\ fullLevel \in Nat \ {0}
    BY <1>2, GaugeBounds DEF Byte
  <2>2. /\ r * 10000 \in Nat /\ Resolution * fullLevel \in Nat \ {0}
        /\ 256 * Resolution * fullLevel = 256 * (Resolution * fullLevel)
    BY <2>1
  <2>3. (r * 10000) \div (Resolution * fullLevel) \in Byte
    BY <1>2, <2>2, Quotient
  <2> QED
    BY <1>2, <2>1, <2>2, <2>3 DEF Levels
<1> QED
  BY <1>1, <1>2, GaugeBounds DEF Byte

LEMMA TypesInitially == Init => TInv
<1> SUFFICES ASSUME Init PROVE TInv
  OBVIOUS
<1>1. batteryLevelCalibration \in BOOLEAN
  BY ZenonT(10) DEF Init
<1>2. {batteryLevel, fullLevel} \subseteq Byte
  BY DEF Init, Byte
<1>3. Counted
  BY GaugeBounds DEF Init, Counted, Limit, AnalogIns
<1>4. /\ cycles \in [Counters -> 0..(MaxCycles + AnalogIns)]
      /\ reported \in [Counters -> 0..(MaxCycles + AnalogIns)]
  BY GaugeBounds DEF Init, AnalogIns
<1>5. selectedAnalogIn \in 0..(AnalogIns - 1) /\ lipoChargerState \in 0..2
  BY DEF Init, AnalogIns
<1> QED
  BY <1>1, <1>2, <1>3, <1>4, <1>5 DEF TInv, TypeOK

(* The two inputs that leave the charger alone. *)
LEMMA CountsOn ==
  ASSUME TInv, selectedAnalogIn \in {0, 2}, UNCHANGED lipoChargerState,
         CountCycles(cycles, lipoChargerState), NextInput
  PROVE  /\ selectedAnalogIn' \in 0..(AnalogIns - 1) /\ Counted'
         /\ cycles' \in [Counters -> 0..(MaxCycles + AnalogIns)]
<1>1. ASSUME NEW q \in Counters PROVE cycles'[q] \in Nat /\ cycles'[q] <= Limit(q)'
  <2>1. cycles[q] \in Nat /\ cycles[q] <= Limit(q) /\ MaxCycles \in Nat
    BY GaugeBounds DEF TInv, Counted
  <2>2. CASE lipoChargerState = CountedIn(q)
    <3>1. cycles'[q] = cycles[q] + 1
      BY <2>2 DEF CountCycles
    <3> QED
      BY <2>1, <2>2, <3>1 DEF Limit, NextInput, AnalogIns
  <2>3. CASE lipoChargerState # CountedIn(q)
    BY <2>1, <2>3 DEF Limit, CountCycles
  <2> QED
    BY <2>2, <2>3
<1>2. cycles' \in [Counters -> Nat]
  BY <1>1 DEF CountCycles
<1>3. cycles' \in [Counters -> 0..(MaxCycles + AnalogIns)]
  BY <1>1, <1>2, GaugeBounds DEF Limit, NextInput, AnalogIns
<1> QED
  BY <1>1, <1>2, <1>3 DEF Counted, NextInput, AnalogIns

LEMMA ChargerCounts ==
  ASSUME TInv, NEW state \in 0..2, ReadCharger(state)
  PROVE  /\ selectedAnalogIn' \in 0..(AnalogIns - 1) /\ Counted'
         /\ cycles' \in [Counters -> 0..(MaxCycles + AnalogIns)]
<1>1. ASSUME NEW q \in Counters PROVE cycles'[q] \in Nat /\ cycles'[q] <= Limit(q)'
  <2>1. /\ cycles[q] \in Nat /\ cycles[q] <= MaxCycles + 2 /\ MaxCycles \in Nat
        /\ selectedAnalogIn' = 2 /\ lipoChargerState' = state
    BY GaugeBounds DEF TInv, Counted, Limit, ReadCharger, NextInput, AnalogIns
  <2>2. Kept(state)[q] \in Nat /\ Kept(state)[q] <= cycles[q]
    BY <2>1 DEF Kept
  <2>3. CASE state = CountedIn(q)
    <3>1. cycles'[q] = Kept(state)[q] + 1 /\ cycles[q] < MaxCycles
      BY <2>3 DEF ReadCharger, CountCycles
    <3> QED
      BY <2>1, <2>2, <2>3, <3>1 DEF Limit, AnalogIns
  <2>4. CASE state # CountedIn(q)
    <3>1. cycles'[q] = Kept(state)[q]
      BY <2>4 DEF ReadCharger, CountCycles
    <3> QED
      BY <2>1, <2>2, <2>4, <3>1 DEF Limit
  <2> QED
    BY <2>3, <2>4
<1>2. cycles' \in [Counters -> Nat]
  BY <1>1 DEF ReadCharger, CountCycles
<1>3. cycles' \in [Counters -> 0..(MaxCycles + AnalogIns)]
  BY <1>1, <1>2, GaugeBounds DEF Limit, ReadCharger, NextInput, AnalogIns
<1> QED
  BY <1>1, <1>2, <1>3 DEF Counted, ReadCharger, NextInput, TInv, TypeOK, AnalogIns

LEMMA TypesPreserved == TInv /\ [Next]_vars => TInv'
<1> SUFFICES ASSUME TInv, [Next]_vars PROVE TInv'
  OBVIOUS
<1>1. CASE ReadBattery
  <2>1. /\ selectedAnalogIn' \in 0..(AnalogIns - 1) /\ Counted'
        /\ cycles' \in [Counters -> 0..(MaxCycles + AnalogIns)]
    BY <1>1, CountsOn DEF ReadBattery
  <2>2. batteryLevel' \in Byte
    BY <1>1, LevelsAreBytes DEF ReadBattery, TInv, TypeOK
  <2>3. batteryLevelCalibration' \in BOOLEAN
    BY <1>1, ZenonT(10) DEF ReadBattery, TInv, TypeOK
  <2>4. fullLevel' \in Byte /\ lipoChargerState' \in 0..2
    BY <1>1 DEF ReadBattery, TInv, TypeOK
  <2>5. reported' \in [Counters -> 0..(MaxCycles + AnalogIns)]
    BY <1>1 DEF ReadBattery, TInv, TypeOK
  <2> QED
    BY <2>1, <2>2, <2>3, <2>4, <2>5 DEF TInv, TypeOK
<1>2. ASSUME NEW state \in 0..2, ReadCharger(state) PROVE TInv'
  <2>1. /\ selectedAnalogIn' \in 0..(AnalogIns - 1) /\ Counted'
        /\ cycles' \in [Counters -> 0..(MaxCycles + AnalogIns)]
    BY <1>2, ChargerCounts
  <2>2. reported' \in [Counters -> 0..(MaxCycles + AnalogIns)]
    BY <1>2 DEF ReadCharger, TInv, TypeOK
  <2>3. batteryLevelCalibration' \in BOOLEAN
    BY <1>2, ZenonT(10) DEF ReadCharger, Calibrate, TInv, TypeOK
  <2>4. {batteryLevel', fullLevel'} \subseteq Byte /\ lipoChargerState' \in 0..2
    BY <1>2 DEF ReadCharger, Calibrate, TInv, TypeOK
  <2> QED
    BY <2>1, <2>2, <2>3, <2>4 DEF TInv, TypeOK
<1>3. CASE ReadContact
  <2>1. /\ selectedAnalogIn' \in 0..(AnalogIns - 1) /\ Counted'
        /\ cycles' \in [Counters -> 0..(MaxCycles + AnalogIns)]
    BY <1>3, CountsOn DEF ReadContact
  <2>2. batteryLevelCalibration' \in BOOLEAN
    BY <1>3, ZenonT(10) DEF ReadContact, TInv, TypeOK
  <2>3. {batteryLevel', fullLevel'} \subseteq Byte /\ lipoChargerState' \in 0..2
    BY <1>3 DEF ReadContact, TInv, TypeOK
  <2>4. reported' \in [Counters -> 0..(MaxCycles + AnalogIns)]
    BY <1>3 DEF ReadContact, TInv, TypeOK
  <2> QED
    BY <2>1, <2>2, <2>3, <2>4 DEF TInv, TypeOK
<1>4. CASE UNCHANGED vars
  BY <1>4 DEF vars, TInv, TypeOK, Counted, Limit
<1> QED
  BY <1>1, <1>2, <1>3, <1>4 DEF Next

(* Levels fit their byte, and the counters their bound. *)
THEOREM GaugeTypes == Spec => []TypeOK
<1>1. TInv => TypeOK
  BY DEF TInv
<1> QED
  BY TypesInitially, TypesPreserved, <1>1, PTL DEF Spec
=============================================================================
