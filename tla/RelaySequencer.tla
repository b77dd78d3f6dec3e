--------------------------- MODULE RelaySequencer ---------------------------
(***************************************************************************)
(* RELAYService (src/RELAYService.h): the cut-off relay, the converter     *)
(* that feeds it and the Ticker that sequences them.                       *)
(*                                                                         *)
(* Two threads of control touch this state without a lock.  activate() is  *)
(* called by the main thread only (the main loop, or a BLE callback, which *)
(* the main thread runs from waitForEvent()), one step here per access to  *)
(* shared state.  The Ticker callbacks run in the timer interrupt: one     *)
(* atomic step that may come between any two steps of the main thread.     *)
(*                                                                         *)
(* Of the mbed Ticker the repository has the header (attach, attach_us);   *)
(* setup, detach and the handler are external, modelled from how           *)
(* RELAYService uses them.  The interrupt may be late by any amount of     *)
(* time, never early.                                                      *)
(***************************************************************************)
EXTENDS Naturals

CONSTANTS CtrTime,    (* CTR12V_TIME, in time units *)
          RelayTime   (* RELAY_TIME, in time units  *)

ASSUME TimesAreDurations == CtrTime \in Nat \ {0} /\ RelayTime \in Nat \ {0}

VARIABLES
  relayState,            (* the member, also the value of actuatedRelay (P0_10) *)
  Ctr12v,                (* DigitalOut P0_3                                     *)
  activation_in_progress,
  waitTicker,            (* [function, armed, delay, remaining]                 *)
  pc                     (* where the main thread is inside activate()          *)

vars == <<relayState, Ctr12v, activation_in_progress, waitTicker, pc>>

Callbacks == {"internalUpdateRelaystate", "flipCtr12v"}
Unset     == "unset"

Detached == [function |-> Unset, armed |-> FALSE, delay |-> 0, remaining |-> 0]
Attached(f, t) == [function |-> f, armed |-> TRUE, delay |-> t, remaining |-> t]

Flip(bit) == 1 - bit

(* Faults a change to the source could introduce; no action uses them. *)
MayAlwaysActivate == TRUE

NextRelayState(state) == state + 1

KeptTicker(supply, ticker) == ticker

SupplyAfterRelay(state) ==
  IF state = 1 THEN Attached("flipCtr12v", CtrTime)
               ELSE Attached("internalUpdateRelaystate", RelayTime)

RelayTimeAsLeadOut(state) ==
  IF state = 1 THEN Attached("internalUpdateRelaystate", CtrTime)
               ELSE Attached("flipCtr12v", RelayTime)

NoLeadOut(state) ==
  IF state = 1 THEN Attached("internalUpdateRelaystate", RelayTime) ELSE Detached

(* if (!activation_in_progress) *)
MayActivate == ~activation_in_progress

(* updateRelayState(): the member, the pin and the characteristic together. *)
OtherRelayState(state) == IF state # 0 THEN 0 ELSE 1

(* What flipCtr12v() leaves of the Ticker: off means detached. *)
SupplyTicker(supply, ticker) == IF supply = 0 THEN Detached ELSE ticker

(* The attach that internalUpdateRelaystate() ends with. *)
AttachAfter(state) ==
  IF state = 1 THEN Attached("internalUpdateRelaystate", RelayTime)
               ELSE Attached("flipCtr12v", CtrTime)

-----------------------------------------------------------------------------
(* The main thread, in activate().                                         *)

(* if (!activation_in_progress): a cycle under way makes activate() return. *)
Activate == /\ pc = "idle"
            /\ MayActivate
            /\ pc' = "toggle"
            /\ UNCHANGED <<relayState, Ctr12v, activation_in_progress, waitTicker>>

(* flipCtr12v(): Ctr12v = !Ctr12v *)
ToggleSupply == /\ pc = "toggle"
                /\ Ctr12v' = Flip(Ctr12v)
                /\ pc' = "mark"
                /\ UNCHANGED <<relayState, activation_in_progress, waitTicker>>

(* flipCtr12v(): the test of the pin that was just written *)
MarkProgress == /\ pc = "mark"
                /\ activation_in_progress' = (Ctr12v = 1)
                /\ waitTicker' = SupplyTicker(Ctr12v, waitTicker)
                /\ pc' = "setFunction"
                /\ UNCHANGED <<relayState, Ctr12v>>

(* Ticker::attach_us(): _function = func, before the timer is set up *)
SetFunction == /\ pc = "setFunction"
               /\ waitTicker' = [waitTicker EXCEPT !.function = "internalUpdateRelaystate"]
               /\ pc' = "setup"
               /\ UNCHANGED <<relayState, Ctr12v, activation_in_progress>>

(* Ticker::attach_us(): setup(t) *)
SetupTimer == /\ pc = "setup"
              /\ waitTicker' = Attached(waitTicker.function, CtrTime)
              /\ pc' = "idle"
              /\ UNCHANGED <<relayState, Ctr12v, activation_in_progress>>

-----------------------------------------------------------------------------
(* The timer interrupt.                                                    *)

Due == waitTicker.armed /\ waitTicker.remaining = 0

(* updateRelayState(aux_relayState), then the attach the new state calls for *)
internalUpdateRelaystate ==
  /\ Due
  /\ waitTicker.function = "internalUpdateRelaystate"
  /\ relayState' = OtherRelayState(relayState)
  /\ waitTicker' = AttachAfter(relayState')
  /\ UNCHANGED <<Ctr12v, activation_in_progress, pc>>

(* As a Ticker callback: the Ticker has re-armed itself before the call, so *)
(* that it fires again unless the callback detaches it.                     *)
flipCtr12v ==
  /\ Due
  /\ waitTicker.function = "flipCtr12v"
  /\ Ctr12v' = Flip(Ctr12v)
  /\ activation_in_progress' = (Ctr12v' = 1)
  /\ waitTicker' = SupplyTicker(Ctr12v', Attached(waitTicker.function, waitTicker.delay))
  /\ UNCHANGED <<relayState, pc>>

TimerInterrupt == internalUpdateRelaystate \/ flipCtr12v

(* Time passes; remaining stops at 0 and the interrupt is then pending. *)
Tick == /\ waitTicker.armed
        /\ waitTicker.remaining > 0
        /\ waitTicker' = [waitTicker EXCEPT !.remaining = @ - 1]
        /\ UNCHANGED <<relayState, Ctr12v, activation_in_progress, pc>>

-----------------------------------------------------------------------------
(* The members and pins after RELAYService's constructor. *)
Init == /\ relayState = 0
        /\ Ctr12v = 0
        /\ activation_in_progress = FALSE
        /\ waitTicker = Detached
        /\ pc = "idle"

ActivateStep == ToggleSupply \/ MarkProgress \/ SetFunction \/ SetupTimer

Next == Activate \/ ActivateStep \/ TimerInterrupt \/ Tick

(* The main thread runs on once it is inside activate(), time passes and   *)
(* a pending interrupt is taken.  Nobody is obliged to call activate().    *)
Spec == /\ Init
        /\ [][Next]_vars
        /\ WF_vars(ActivateStep)
        /\ WF_vars(TimerInterrupt)
        /\ WF_vars(Tick)

-----------------------------------------------------------------------------
Bit == {0, 1}

Tickers == [function: Callbacks \cup {Unset}, armed: BOOLEAN,
            delay: {0, CtrTime, RelayTime}, remaining: 0..(CtrTime + RelayTime)]

(* Every variable holds a value the program can give it. *)
TypeOK ==
  /\ relayState \in Bit
  /\ Ctr12v \in Bit
  /\ activation_in_progress \in BOOLEAN
  /\ waitTicker \in Tickers
  /\ pc \in {"idle", "toggle", "mark", "setFunction", "setup"}

(* activate() and the Ticker callbacks share the converter pin, the flag   *)
(* and the Ticker without masking the interrupt.  That is safe because the *)
(* timer is never armed while the main thread is inside activate(): the    *)
(* guard on activation_in_progress excludes the interrupt.                 *)
NoInterruptInsideActivate == pc # "idle" => ~waitTicker.armed

(* The relay is only energised while the converter that feeds it is on. *)
RelayOnlyWithSupply == relayState = 1 => Ctr12v = 1

(* The flag that guards activate() and the pin it stands for agree except  *)
(* inside activate() itself, and a set flag always has a timer behind it   *)
(* that will clear it: otherwise activate() would refuse for ever.         *)
FlagHasTimer ==
  pc = "idle" => /\ activation_in_progress <=> (Ctr12v = 1)
                 /\ activation_in_progress <=> waitTicker.armed

(* The sequencer implements the abstract cycle, its minimum times included. *)
Phase == IF Ctr12v = 0 THEN "idle"
         ELSE IF relayState = 1 THEN "energised"
         ELSE IF waitTicker.function = "flipCtr12v" THEN "leadOut"
         ELSE "leadIn"

Elapsed == IF waitTicker.armed THEN waitTicker.delay - waitTicker.remaining ELSE 0

Cycle == INSTANCE RelayCycle WITH phase <- Phase, elapsed <- Elapsed

ImplementsRelayCycle == Cycle!CycleSpec

(* Every activation ends: the relay does not stay energised and the next   *)
(* activate() is not refused for ever.                                     *)
CycleEnds == (Ctr12v = 1) ~> (Ctr12v = 0 /\ relayState = 0 /\ ~activation_in_progress)
=============================================================================
