----------------------------- MODULE EventPump ------------------------------
(***************************************************************************)
(* How events of the SoftDevice reach the application's callbacks.         *)
(*                                                                         *)
(* The SoftDevice queues system (soc) and BLE events and raises an         *)
(* interrupt.  The interrupt handler pulls nothing: signalEvent() only     *)
(* raises isEventsSignaled.  The main thread, in nRF5xn::waitForEvent(),   *)
(* tests and clears the flag, drains both queues alternately in            *)
(* intern_softdevice_events_execute(), sleeps in sd_app_evt_wait() until   *)
(* some interrupt has been taken, runs the body of the main loop, and      *)
(* comes back.  Nothing masks the interrupt, so it may come between any    *)
(* two of those steps.                                                     *)
(***************************************************************************)
EXTENDS Naturals

CONSTANT MaxEvents   (* bound: events the SoftDevice posts to each queue *)

ASSUME BoundedPosting == MaxEvents \in Nat

VARIABLES
  posted, handled,    (* per queue: events so far; the difference is queued  *)
  irqPending,         (* SOFTDEVICE_EVT_IRQ is pending                       *)
  isEventsSignaled,   (* btle.cpp                                            *)
  eventRegister,      (* an interrupt was taken since sd_app_evt_wait() last *)
                      (* returned                                            *)
  noMore,             (* per queue: no_more_soc_evts, no_more_ble_evts       *)
  pc                  (* where the main thread is                            *)

vars == <<posted, handled, irqPending, isEventsSignaled, eventRegister, noMore, pc>>

Queues == {"soc", "ble"}

-----------------------------------------------------------------------------
(* The SoftDevice and the interrupts.                                      *)

Post(q) == /\ posted[q] < MaxEvents
           /\ posted' = [posted EXCEPT ![q] = @ + 1]
           /\ irqPending' = TRUE
           /\ UNCHANGED <<handled, isEventsSignaled, eventRegister, noMore, pc>>

(* m_evt_schedule_func() is signalEvent(). *)
SOFTDEVICE_EVT_IRQHandler ==
  /\ irqPending
  /\ irqPending' = FALSE
  /\ isEventsSignaled' = TRUE
  /\ eventRegister' = TRUE
  /\ UNCHANGED <<posted, handled, noMore, pc>>

(* A Ticker, or any other interrupt of the application: it wakes the main  *)
(* thread and signals nothing.                                             *)
OtherInterrupt ==
  /\ eventRegister' = TRUE
  /\ UNCHANGED <<posted, handled, irqPending, isEventsSignaled, noMore, pc>>

-----------------------------------------------------------------------------
(* The main thread.                                                        *)

(* Faults a change to the source could introduce; no action uses them. *)
ClearSignalOnly ==
  /\ pc = "clear"
  /\ isEventsSignaled' = FALSE
  /\ pc' = "soc"
  /\ UNCHANGED <<posted, handled, irqPending, eventRegister, noMore>>

PullUnchecked(q) == /\ ~noMore[q]
                    /\ handled' = [handled EXCEPT ![q] = @ + 1]
                    /\ UNCHANGED noMore

ClearAfterDrain ==
  /\ pc = "check"
  /\ pc' = IF \A q \in Queues : noMore[q] THEN "sleep" ELSE "soc"
  /\ isEventsSignaled' = FALSE
  /\ UNCHANGED <<posted, handled, irqPending, eventRegister, noMore>>

BodyThenSleep ==
        /\ pc = "body"
        /\ pc' = "sleep"
        /\ UNCHANGED <<posted, handled, irqPending, isEventsSignaled, eventRegister, noMore>>

(* processEvents(): if (isEventsSignaled) *)
TestSignal ==
  /\ pc = "test"
  /\ pc' = IF isEventsSignaled THEN "clear" ELSE "sleep"
  /\ UNCHANGED <<posted, handled, irqPending, isEventsSignaled, eventRegister, noMore>>

(* isEventsSignaled = false, and the locals of the drain that then starts *)
ClearSignal ==
  /\ pc = "clear"
  /\ isEventsSignaled' = FALSE
  /\ noMore' = [q \in Queues |-> FALSE]
  /\ pc' = "soc"
  /\ UNCHANGED <<posted, handled, irqPending, eventRegister>>

After(q) == IF q = "soc" THEN "ble" ELSE "check"

(* One turn of the loop at queue q: the event pulled is handled at once; a *)
(* queue once found empty is not looked at again in this drain.            *)
PullOne(q) == /\ ~noMore[q]
              /\ handled[q] < posted[q]
              /\ handled' = [handled EXCEPT ![q] = @ + 1]
              /\ UNCHANGED noMore

FindEmpty(q) == /\ ~noMore[q]
                /\ handled[q] = posted[q]
                /\ noMore' = [noMore EXCEPT ![q] = TRUE]
                /\ UNCHANGED handled

Skip(q) == noMore[q] /\ UNCHANGED <<handled, noMore>>

Pull(q) == /\ pc = q
           /\ PullOne(q) \/ FindEmpty(q) \/ Skip(q)
           /\ pc' = After(q)
           /\ UNCHANGED <<posted, irqPending, isEventsSignaled, eventRegister>>

(* The end of the loop's body: break only when both queues were found empty. *)
DrainCheck ==
  /\ pc = "check"
  /\ pc' = IF \A q \in Queues : noMore[q] THEN "sleep" ELSE "soc"
  /\ UNCHANGED <<posted, handled, irqPending, isEventsSignaled, eventRegister, noMore>>

(* sd_app_evt_wait() returns at once when an interrupt was taken meanwhile. *)
Wake == /\ pc = "sleep"
        /\ eventRegister
        /\ eventRegister' = FALSE
        /\ pc' = "body"
        /\ UNCHANGED <<posted, handled, irqPending, isEventsSignaled, noMore>>

(* The body of main()'s loop, then waitForEvent() again. *)
Body == /\ pc = "body"
        /\ pc' = "test"
        /\ UNCHANGED <<posted, handled, irqPending, isEventsSignaled, eventRegister, noMore>>

MainThread == TestSignal \/ ClearSignal \/ (\E q \in Queues : Pull(q))
                \/ DrainCheck \/ Wake \/ Body

-----------------------------------------------------------------------------
Init == /\ posted = [q \in Queues |-> 0]
        /\ handled = [q \in Queues |-> 0]
        /\ irqPending = FALSE
        /\ isEventsSignaled = FALSE
        /\ eventRegister = FALSE
        /\ noMore = [q \in Queues |-> FALSE]
        /\ pc = "test"

Next == \/ \E q \in Queues : Post(q)
        \/ SOFTDEVICE_EVT_IRQHandler
        \/ OtherInterrupt
        \/ MainThread

(* The main thread runs whenever it can and a pending interrupt is taken.  *)
(* Nothing is assumed of the tickers: no event may depend on one to wake   *)
(* the main thread.                                                        *)
Spec == Init /\ [][Next]_vars /\ WF_vars(MainThread) /\ WF_vars(SOFTDEVICE_EVT_IRQHandler)

-----------------------------------------------------------------------------
(* The type invariant; no queue yields more events than were posted to it. *)
TypeOK == /\ posted \in [Queues -> 0..MaxEvents]
          /\ handled \in [Queues -> 0..MaxEvents]
          /\ \A q \in Queues : handled[q] <= posted[q]
          /\ irqPending \in BOOLEAN
          /\ isEventsSignaled \in BOOLEAN
          /\ eventRegister \in BOOLEAN
          /\ noMore \in [Queues -> BOOLEAN]
          /\ pc \in {"test", "clear", "check", "sleep", "body"} \cup Queues

Draining == pc \in Queues \cup {"check"}

(* A queued event is never forgotten: the interrupt that announces it is   *)
(* still pending, or the flag is up, or the drain in progress has still to *)
(* look at its queue.  This is what clearing the flag before the drain is  *)
(* for: an event that arrives behind the drain's back raises it again.     *)
NoStrandedEvent ==
  \A q \in Queues : handled[q] < posted[q] =>
    irqPending \/ isEventsSignaled \/ (Draining /\ ~noMore[q])

(* The main thread does not sleep over a raised flag: the interrupt that   *)
(* raised it after the test makes sd_app_evt_wait() return at once.        *)
NoSleepOnSignal == pc = "sleep" /\ isEventsSignaled => eventRegister

(* Every event posted is handled, without the help of another interrupt.   *)
EveryEventHandled ==
  \A q \in Queues : \A n \in 1..MaxEvents : posted[q] >= n ~> handled[q] >= n
=============================================================================
