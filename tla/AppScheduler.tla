---------------------------- MODULE AppScheduler ----------------------------
(***************************************************************************)
(* The event queue of app_scheduler.c: interrupts of several priorities,   *)
(* and the main thread itself, put events; the main thread takes and       *)
(* handles them.  An event's slot is claimed in a critical region and      *)
(* filled outside it; the main thread moves the start index past a slot    *)
(* before it uses what is in it.                                           *)
(*                                                                         *)
(* A context runs while none of a higher level is active.  The header and  *)
(* the data of an event are one value.                                     *)
(***************************************************************************)
EXTENDS Naturals, Sequences

CONSTANTS Events, NoEvent,
          QueueSize,           (* m_queue_size; there is one more slot        *)
          Levels               (* interrupt priorities; level 0 is the main   *)
                               (* thread                                      *)

(* The indices are bytes: with a queue of more than 255, which             *)
(* app_sched_init() lets pass, next_index() would not reach all slots.     *)
ASSUME SchedulerConstants == /\ NoEvent \notin Events
                             /\ QueueSize \in 0..255 /\ Levels \in Nat

VARIABLES
  start, end,    (* m_queue_start_index, m_queue_end_index                   *)
  slots,
  claimed,       (* by level: the slot app_sched_event_put() is about to     *)
  putting,       (* fill, or NoSlot, and the event it was given              *)
  handling       (* the slot of the event being handled, or NoSlot           *)

vars == <<start, end, slots, claimed, putting, handling>>

Slots == 0..QueueSize
NoSlot == QueueSize + 1
Contexts == 0..Levels

-----------------------------------------------------------------------------
(* Faults a change to the source could introduce; no action uses them. *)
FullWhenLapped == end = start /\ slots[end] # NoEvent
ClaimLate(c) == claimed' = [claimed EXCEPT ![c] = end] /\ UNCHANGED end

next_index(index) == IF index < QueueSize THEN index + 1 ELSE 0

app_sched_queue_full == next_index(end) = start
app_sched_queue_empty == end = start

Running(c) == \A d \in Contexts : d > c => claimed[d] = NoSlot

-----------------------------------------------------------------------------
(* The critical region. *)
Claim(c) == claimed' = [claimed EXCEPT ![c] = end] /\ end' = next_index(end)

(* app_sched_event_put(), when there is room; else nothing changes. *)
Put(c, e) ==
  /\ Running(c) /\ claimed[c] = NoSlot
  /\ ~app_sched_queue_full
  /\ Claim(c)
  /\ putting' = [putting EXCEPT ![c] = e]
  /\ UNCHANGED <<start, slots, handling>>

(* The rest of it, with interrupts enabled again. *)
Fill(c) ==
  /\ Running(c) /\ claimed[c] # NoSlot
  /\ slots' = [slots EXCEPT ![claimed[c]] = putting[c]]
  /\ claimed' = [claimed EXCEPT ![c] = NoSlot]
  /\ UNCHANGED <<start, end, putting, handling>>

(* app_sched_execute(): app_sched_event_get(), when its handler may be     *)
(* called, ... *)
Get ==
  /\ Running(0) /\ claimed[0] = NoSlot
  /\ handling = NoSlot /\ ~app_sched_queue_empty
  /\ handling' = start
  /\ start' = next_index(start)
  /\ UNCHANGED <<end, slots, claimed, putting>>

(* ... and the return of the handler. *)
HandlerReturns ==
  /\ Running(0) /\ claimed[0] = NoSlot
  /\ handling # NoSlot
  /\ handling' = NoSlot
  /\ UNCHANGED <<start, end, slots, claimed, putting>>

Init ==
  /\ start = 0 /\ end = 0
  /\ slots = [k \in Slots |-> NoEvent]
  /\ claimed = [c \in Contexts |-> NoSlot]
  /\ putting = [c \in Contexts |-> NoEvent]
  /\ handling = NoSlot

Next ==
  \/ Get \/ HandlerReturns
  \/ \E c \in Contexts : Fill(c) \/ \E e \in Events : Put(c, e)

(* Interrupts return and leave the main thread time; its loop keeps        *)
(* calling app_sched_execute().                                            *)
Fairness == /\ \A c \in Contexts : WF_vars(Fill(c))
            /\ SF_vars(Get) /\ SF_vars(HandlerReturns)

Spec == Init /\ [][Next]_vars /\ Fairness

-----------------------------------------------------------------------------
(* The type invariant. *)
TypeOK ==
  /\ start \in Slots /\ end \in Slots
  /\ slots \in [Slots -> Events \cup {NoEvent}]
  /\ claimed \in [Contexts -> Slots \cup {NoSlot}]
  /\ putting \in [Contexts -> Events \cup {NoEvent}]
  /\ handling \in Slots \cup {NoSlot}

(* The slots from index s up to, not including, index e: how many they     *)
(* are, and which is the j-th.                                             *)
Span(s, e) == IF e >= s THEN e - s ELSE (e + QueueSize + 1) - s
Ahead(s, j) == IF s + j <= QueueSize + 1 THEN s + j - 1 ELSE s + j - QueueSize - 2

(* A claimed slot counts as filled already. *)
Content(cl, pu, sl, k) == IF \E c \in Contexts : cl[c] = k
                            THEN pu[CHOOSE c \in Contexts : cl[c] = k]
                            ELSE sl[k]

Waiting == [j \in 1..Span(start, end) |-> Content(claimed, putting, slots, Ahead(start, j))]
Current == IF handling = NoSlot THEN NoEvent ELSE slots[handling]

Queue == INSTANCE FifoQueue WITH Capacity <- QueueSize, waiting <- Waiting, current <- Current

(* However the interrupts fall, accepted events are handled in order, each *)
(* once, and eventually; what is handled is not overwritten by the events  *)
(* put meanwhile, although its slot has been given up: the spare slot      *)
(* keeps it ("it will never interrupt app_sched_event_put()").             *)
ImplementsQueue == Queue!Spec

(* No two contexts fill the same slot, and none fills the one in use. *)
ClaimsApart ==
  \A c \in Contexts : claimed[c] # NoSlot =>
    /\ claimed[c] # handling
    /\ \A d \in Contexts \ {c} : claimed[d] # claimed[c]
=============================================================================
