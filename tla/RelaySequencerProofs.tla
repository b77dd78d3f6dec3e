------------------------ MODULE RelaySequencerProofs ------------------------
(***************************************************************************)
(* Proofs about RelaySequencer for all durations CtrTime and RelayTime.    *)
(*                                                                         *)
(* The invariants are not inductive one by one: that the interrupt finds   *)
(* the right callback attached depends on how far activate() has got, and  *)
(* the other way round.  IInv lists the situations the sequencer can be    *)
(* in.  Each action leads from one of them to one of them, and so does one *)
(* step of RelayCycle: the same lemmas give the invariants and the         *)
(* refinement.                                                             *)
(***************************************************************************)
EXTENDS RelaySequencer, TLAPS

Ticker(f, armed, delay, remaining) ==
  [function |-> f, armed |-> armed, delay |-> delay, remaining |-> remaining]

(* No cycle under way, or activate() entered and nothing written yet. *)
AtRest == /\ pc \in {"idle", "toggle"}
          /\ relayState = 0 /\ Ctr12v = 0
          /\ activation_in_progress = FALSE
          /\ waitTicker = Detached

(* The converter is on and activate() has still to say so. *)
Unmarked == /\ pc = "mark"
            /\ relayState = 0 /\ Ctr12v = 1
            /\ activation_in_progress = FALSE
            /\ waitTicker = Detached

(* activate() has set the flag, then the callback; the timer is not set up. *)
Marked == /\ pc = "setFunction"
          /\ relayState = 0 /\ Ctr12v = 1
          /\ activation_in_progress = TRUE
          /\ waitTicker = Detached

Prepared == /\ pc = "setup"
            /\ relayState = 0 /\ Ctr12v = 1
            /\ activation_in_progress = TRUE
            /\ waitTicker = Ticker("internalUpdateRelaystate", FALSE, 0, 0)

(* The interrupt carries the cycle: what it will call, and in r time units. *)
Timed(state, callback, delay, r) ==
  /\ pc = "idle"
  /\ relayState = state /\ Ctr12v = 1
  /\ activation_in_progress = TRUE
  /\ r \in 0..delay
  /\ waitTicker = Ticker(callback, TRUE, delay, r)

LeadingIn(r)  == Timed(0, "internalUpdateRelaystate", CtrTime, r)
Energised(r)  == Timed(1, "internalUpdateRelaystate", RelayTime, r)
LeadingOut(r) == Timed(0, "flipCtr12v", CtrTime, r)

InCycle(r) == LeadingIn(r) \/ Energised(r) \/ LeadingOut(r)

Entering == Unmarked \/ Marked \/ Prepared

IInv == \/ AtRest
        \/ Entering
        \/ \E r \in Nat : InCycle(r)

LEMMA WholeDelay == CtrTime \in 0..CtrTime /\ RelayTime \in 0..RelayTime
BY TimesAreDurations

-----------------------------------------------------------------------------
(* IInv implies the invariants the runs check.                             *)

LEMMA TickerTyped ==
  ASSUME NEW f \in Callbacks \cup {Unset}, NEW armed \in BOOLEAN,
         NEW delay \in {0, CtrTime, RelayTime}, NEW r \in 0..delay
  PROVE  Ticker(f, armed, delay, r) \in Tickers
BY TimesAreDurations DEF Ticker, Tickers

LEMMA IInvImpliesTypeOK == IInv => TypeOK
<1> SUFFICES ASSUME IInv PROVE TypeOK
  OBVIOUS
<1>1. /\ relayState \in Bit /\ Ctr12v \in Bit
      /\ activation_in_progress \in BOOLEAN
      /\ pc \in {"idle", "toggle", "mark", "setFunction", "setup"}
  BY DEF IInv, AtRest, Entering, Unmarked, Marked, Prepared, InCycle, LeadingIn,
         Energised, LeadingOut, Timed, Bit
<1>2. waitTicker \in Tickers
  <2>1. CASE waitTicker = Detached
    <3>1. Ticker(Unset, FALSE, 0, 0) \in Tickers
      BY TickerTyped, FALSE \in BOOLEAN, 0 \in 0..0
    <3> QED BY <2>1, <3>1 DEF Detached, Ticker
  <2>2. CASE Prepared
    <3>1. Ticker("internalUpdateRelaystate", FALSE, 0, 0) \in Tickers
      BY TickerTyped, FALSE \in BOOLEAN, 0 \in 0..0 DEF Callbacks
    <3> QED BY <2>2, <3>1 DEF Prepared
  <2>3. ASSUME NEW state, NEW callback \in Callbacks, NEW delay \in {CtrTime, RelayTime},
               NEW r \in Nat, Timed(state, callback, delay, r)
        PROVE  waitTicker \in Tickers
    BY <2>3, TimesAreDurations DEF Timed, Ticker, Tickers
  <2>4. CASE \E r \in Nat : InCycle(r)
    BY <2>3, <2>4 DEF InCycle, LeadingIn, Energised, LeadingOut, Callbacks
  <2> QED
    BY <2>1, <2>2, <2>4 DEF IInv, AtRest, Entering, Unmarked, Marked
<1> QED BY <1>1, <1>2 DEF TypeOK

LEMMA IInvImpliesSafety ==
  IInv => NoInterruptInsideActivate /\ RelayOnlyWithSupply /\ FlagHasTimer
<1> USE DEF IInv, AtRest, Entering, Unmarked, Marked, Prepared, InCycle, LeadingIn,
            Energised, LeadingOut, Timed, Ticker, Detached
<1>1. IInv => NoInterruptInsideActivate  BY DEF NoInterruptInsideActivate
<1>2. IInv => RelayOnlyWithSupply        BY DEF RelayOnlyWithSupply
<1>3. IInv => FlagHasTimer               BY DEF FlagHasTimer
<1> QED BY <1>1, <1>2, <1>3

-----------------------------------------------------------------------------
(* What each action leads from and to.                                     *)

LEMMA MainThreadSteps ==
  ASSUME IInv
  PROVE  /\ Activate     => AtRest   /\ AtRest'
         /\ ToggleSupply => AtRest   /\ Unmarked'
         /\ MarkProgress => Unmarked /\ Marked'
         /\ SetFunction  => Marked   /\ Prepared'
         /\ SetupTimer   => Prepared /\ LeadingIn(CtrTime)'
<1>1. /\ pc = "idle" /\ activation_in_progress = FALSE => AtRest
      /\ pc = "toggle"      => AtRest
      /\ pc = "mark"        => Unmarked
      /\ pc = "setFunction" => Marked
      /\ pc = "setup"       => Prepared
  BY DEF IInv, AtRest, Entering, Unmarked, Marked, Prepared, InCycle, LeadingIn,
         Energised, LeadingOut, Timed
<1>2. ASSUME Activate PROVE AtRest /\ AtRest'
  <2>1. activation_in_progress = FALSE
    BY <1>2, IInvImpliesTypeOK DEF Activate, MayActivate, TypeOK
  <2> QED BY <1>1, <1>2, <2>1 DEF Activate, AtRest, Detached
<1>3. ASSUME ToggleSupply PROVE AtRest /\ Unmarked'
  BY <1>1, <1>3 DEF ToggleSupply, Flip, AtRest, Unmarked, Detached
<1>4. ASSUME MarkProgress PROVE Unmarked /\ Marked'
  <2>1. activation_in_progress' = TRUE
    <3>1. activation_in_progress' = (Ctr12v = 1)  BY <1>4 DEF MarkProgress
    <3>2. (Ctr12v = 1) = TRUE                       BY <1>1, <1>4 DEF MarkProgress, Unmarked
    <3> QED BY <3>1, <3>2, Zenon
  <2>2. waitTicker' = Detached
    BY <1>1, <1>4 DEF MarkProgress, SupplyTicker, Unmarked
  <2> QED BY <1>1, <1>4, <2>1, <2>2 DEF MarkProgress, Unmarked, Marked
<1>5. ASSUME SetFunction PROVE Marked /\ Prepared'
  <2>1. Marked
    BY <1>1, <1>5 DEF SetFunction
  <2>2. waitTicker' = Ticker("internalUpdateRelaystate", FALSE, 0, 0)
    BY <1>5, <2>1 DEF SetFunction, Marked, Ticker, Detached, Unset
  <2> QED BY <1>5, <2>1, <2>2 DEF SetFunction, Marked, Prepared
<1>6. ASSUME SetupTimer PROVE Prepared /\ LeadingIn(CtrTime)'
  <2>1. waitTicker' = Ticker("internalUpdateRelaystate", TRUE, CtrTime, CtrTime)
    <3>1. waitTicker.function = "internalUpdateRelaystate"
      BY <1>1, <1>6 DEF SetupTimer, Prepared, Ticker
    <3> QED BY <1>6, <3>1 DEF SetupTimer, Ticker, Attached
  <2> QED
    BY <1>1, <1>6, <2>1, WholeDelay DEF SetupTimer, Prepared, LeadingIn, Timed
<1> QED BY <1>2, <1>3, <1>4, <1>5, <1>6

(* The interrupt and the passing of time act on an armed Ticker only. *)
LEMMA ArmedInCycle ==
  ASSUME IInv, waitTicker.armed
  PROVE  \E r \in Nat : InCycle(r)
BY DEF IInv, AtRest, Entering, Unmarked, Marked, Prepared, Detached, Ticker

LEMMA RelaySteps ==
  ASSUME IInv, internalUpdateRelaystate
  PROVE  \/ LeadingIn(0) /\ Energised(RelayTime)'
         \/ Energised(0) /\ LeadingOut(CtrTime)'
<1>1. PICK r \in Nat : InCycle(r)
  BY ArmedInCycle DEF internalUpdateRelaystate, Due
<1>2. r = 0 /\ (LeadingIn(0) \/ Energised(0))
  BY <1>1 DEF internalUpdateRelaystate, Due, InCycle, LeadingIn, Energised, LeadingOut,
              Timed, Ticker
<1>3. CASE LeadingIn(0)
  <2>1. waitTicker' = Ticker("internalUpdateRelaystate", TRUE, RelayTime, RelayTime)
    BY <1>3 DEF internalUpdateRelaystate, OtherRelayState, AttachAfter, Attached, Ticker,
                LeadingIn, Timed
  <2>2. Energised(RelayTime)'
    BY <1>3, <2>1, WholeDelay DEF internalUpdateRelaystate, OtherRelayState, LeadingIn,
                                  Energised, Timed
  <2> QED BY <1>3, <2>2
<1>4. CASE Energised(0)
  <2>1. waitTicker' = Ticker("flipCtr12v", TRUE, CtrTime, CtrTime)
    BY <1>4 DEF internalUpdateRelaystate, OtherRelayState, AttachAfter, Attached, Ticker,
                Energised, Timed
  <2>2. LeadingOut(CtrTime)'
    BY <1>4, <2>1, WholeDelay DEF internalUpdateRelaystate, OtherRelayState, Energised,
                                  LeadingOut, Timed
  <2> QED BY <1>4, <2>2
<1> QED BY <1>2, <1>3, <1>4

LEMMA SupplySteps ==
  ASSUME IInv, flipCtr12v
  PROVE  LeadingOut(0) /\ AtRest'
<1>1. PICK r \in Nat : InCycle(r)
  BY ArmedInCycle DEF flipCtr12v, Due
<1>2. LeadingOut(0)
  BY <1>1 DEF flipCtr12v, Due, InCycle, LeadingIn, Energised, LeadingOut, Timed, Ticker
<1>3. Ctr12v' = 0
  BY <1>2 DEF flipCtr12v, Flip, LeadingOut, Timed
<1>4. waitTicker' = Detached
  BY <1>3, Zenon DEF flipCtr12v, SupplyTicker
<1>5. activation_in_progress' = FALSE
  <2>1. activation_in_progress' = (Ctr12v' = 1)  BY DEF flipCtr12v
  <2>2. (Ctr12v' = 1) = FALSE                     BY <1>3
  <2> QED BY <2>1, <2>2, Zenon
<1> QED BY <1>2, <1>3, <1>4, <1>5 DEF flipCtr12v, LeadingOut, Timed, AtRest, Detached

LEMMA TickSteps ==
  ASSUME IInv, Tick
  PROVE  \E r \in Nat \ {0} : \/ LeadingIn(r)  /\ LeadingIn(r - 1)'
                              \/ Energised(r)  /\ Energised(r - 1)'
                              \/ LeadingOut(r) /\ LeadingOut(r - 1)'
<1>1. PICK r \in Nat : InCycle(r)
  BY ArmedInCycle DEF Tick
<1>2. r # 0
  BY <1>1 DEF Tick, InCycle, LeadingIn, Energised, LeadingOut, Timed, Ticker
<1>3. ASSUME NEW state, NEW callback, NEW delay \in Nat, Timed(state, callback, delay, r)
      PROVE  Timed(state, callback, delay, r - 1)'
  <2>1. r - 1 \in 0..delay
    BY <1>2, <1>3 DEF Timed
  <2>2. waitTicker' = Ticker(callback, TRUE, delay, r - 1)
    BY <1>3 DEF Tick, Timed, Ticker
  <2> QED BY <1>3, <2>1, <2>2 DEF Tick, Timed
<1> QED BY <1>1, <1>2, <1>3, TimesAreDurations DEF InCycle, LeadingIn, Energised, LeadingOut

-----------------------------------------------------------------------------
(* The invariants.                                                         *)

(* The sequencer is always in one of the situations. *)
THEOREM Situations == Spec => []IInv
<1>1. Init => IInv
  BY DEF Init, IInv, AtRest
<1>2. IInv /\ [Next]_vars => IInv'
  <2> SUFFICES ASSUME IInv, [Next]_vars PROVE IInv'
    OBVIOUS
  <2>1. CASE Activate \/ ActivateStep
    BY <2>1, MainThreadSteps, WholeDelay, TimesAreDurations
       DEF ActivateStep, IInv, Entering, InCycle
  <2>2. CASE TimerInterrupt
    BY <2>2, RelaySteps, SupplySteps, WholeDelay, TimesAreDurations
       DEF TimerInterrupt, IInv, InCycle
  <2>3. CASE Tick
    <3>1. PICK r \in Nat \ {0} : InCycle(r - 1)'
      BY <2>3, TickSteps DEF InCycle
    <3>2. r - 1 \in Nat
      OBVIOUS
    <3> QED BY <3>1, <3>2 DEF IInv
  <2>4. CASE UNCHANGED vars
    BY <2>4 DEF vars, IInv, AtRest, Entering, Unmarked, Marked, Prepared, InCycle,
                LeadingIn, Energised, LeadingOut, Timed, Detached, Ticker
  <2> QED BY <2>1, <2>2, <2>3, <2>4 DEF Next
<1> QED BY <1>1, <1>2, PTL DEF Spec

(* Every variable of RELAYService holds a value the program can give it. *)
THEOREM TypeCorrect == Spec => []TypeOK
BY Situations, IInvImpliesTypeOK, PTL

(* The timer interrupt never finds the main thread inside activate(). *)
THEOREM NoOverlap == Spec => []NoInterruptInsideActivate
BY Situations, IInvImpliesSafety, PTL

(* The relay is energised only while the 12 V converter is on. *)
THEOREM RelaySupplied == Spec => []RelayOnlyWithSupply
BY Situations, IInvImpliesSafety, PTL

(* activation_in_progress agrees with the converter pin and has a timer    *)
(* behind it whenever the main thread is outside activate().               *)
THEOREM FlagBacked == Spec => []FlagHasTimer
BY Situations, IInvImpliesSafety, PTL

-----------------------------------------------------------------------------
(* The refinement of RelayCycle.                                           *)

PhaseFacts ==
  /\ AtRest   => Phase = "idle"   /\ Elapsed = 0
  /\ Entering => Phase = "leadIn" /\ Elapsed = 0
  /\ \A r \in Nat : /\ LeadingIn(r)  => Phase = "leadIn"    /\ Elapsed = CtrTime - r
                    /\ Energised(r)  => Phase = "energised" /\ Elapsed = RelayTime - r
                    /\ LeadingOut(r) => Phase = "leadOut"   /\ Elapsed = CtrTime - r

LEMMA PhaseOf == PhaseFacts
BY DEF PhaseFacts, Phase, Elapsed, AtRest, Entering, Unmarked, Marked, Prepared, LeadingIn,
       Energised, LeadingOut, Timed, Ticker, Detached, Unset

LEMMA PhaseOfNext == PhaseFacts'
BY PhaseOf, PTL

(* A step of the sequencer is a step of the cycle or does not show in it. *)
LEMMA StepRefines ==
  ASSUME IInv, [Next]_vars
  PROVE  [Cycle!CycleNext]_(Cycle!cycleVars)
<1> USE TimesAreDurations, PhaseOf, PhaseOfNext DEF PhaseFacts
<1> USE DEF Cycle!CycleNext, Cycle!cycleVars, Cycle!Move, Cycle!Minimum
<1>1. CASE Activate
  BY <1>1, MainThreadSteps
<1>2. CASE ToggleSupply
  BY <1>2, MainThreadSteps DEF Entering, Cycle!Start
<1>3. CASE MarkProgress \/ SetFunction \/ SetupTimer
  BY <1>3, MainThreadSteps DEF Entering
<1>4. CASE internalUpdateRelaystate
  BY <1>4, RelaySteps DEF Cycle!TimerStep, Cycle!Energise, Cycle!Release
<1>5. CASE flipCtr12v
  BY <1>5, SupplySteps DEF Cycle!TimerStep, Cycle!Finish
<1>6. CASE Tick
  <2>1. PICK r \in Nat \ {0} : \/ LeadingIn(r)  /\ LeadingIn(r - 1)'
                               \/ Energised(r)  /\ Energised(r - 1)'
                               \/ LeadingOut(r) /\ LeadingOut(r - 1)'
    BY <1>6, TickSteps
  <2>2. r - 1 \in Nat
    OBVIOUS
  <2> QED BY <2>1, <2>2 DEF Cycle!Elapse
<1>7. CASE UNCHANGED vars
  BY <1>7 DEF vars, Phase, Elapsed
<1> QED
  BY <1>1, <1>2, <1>3, <1>4, <1>5, <1>6, <1>7 DEF Next, ActivateStep, TimerInterrupt

(* Whatever the durations, the sequencer does what RelayCycle allows: the  *)
(* order of the phases and their minimum times.                            *)
THEOREM RefinesRelayCycle ==
  Spec => Cycle!CycleInit /\ [][Cycle!CycleNext]_(Cycle!cycleVars)
<1>1. Init => Cycle!CycleInit
  BY DEF Init, Cycle!CycleInit, Phase, Elapsed, Detached
<1> QED BY <1>1, Situations, StepRefines, PTL DEF Spec
=============================================================================
