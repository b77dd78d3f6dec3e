------------------------- MODULE AppSchedulerProofs -------------------------
(***************************************************************************)
(* Proofs about AppScheduler for every size of the queue up to 255, every  *)
(* number of interrupt levels and every set of events.                     *)
(*                                                                         *)
(* Shape is the strengthening: the slot in use lies just behind the queue, *)
(* claimed slots lie in it, and every other slot of it holds an event.     *)
(***************************************************************************)
EXTENDS AppScheduler, SequenceTheorems, TLAPS

(* Slot k is in use: from start up to, not including, end. *)
InQueue(k) == IF start <= end THEN start <= k /\ k < end
              ELSE (start <= k /\ k <= QueueSize) \/ (0 <= k /\ k < end)

Shape ==
  /\ handling # NoSlot => start = next_index(handling) /\ slots[handling] \in Events
  /\ \A c \in Contexts : claimed[c] # NoSlot => InQueue(claimed[c]) /\ putting[c] \in Events
  /\ \A k \in Slots : InQueue(k) => slots[k] \in Events \/ \E c \in Contexts : claimed[c] = k

IInv == TypeOK /\ ClaimsApart /\ Shape

USE SchedulerConstants

LEMMA Indices ==
  /\ \A k \in Slots : next_index(k) \in Slots /\ k \in Nat /\ k # NoSlot
  /\ \A k, l \in Slots : next_index(k) = next_index(l) => k = l
  /\ NoSlot \in Nat /\ QueueSize \in Nat /\ 0 \in Contexts
BY DEF Slots, next_index, NoSlot, Contexts

LEMMA Initially == Init => IInv
<1> SUFFICES ASSUME Init PROVE IInv
  OBVIOUS
<1>1. TypeOK /\ ClaimsApart
  BY Indices DEF Init, TypeOK, ClaimsApart, Slots
<1>2. Shape
  BY Indices DEF Init, Shape, InQueue, Slots
<1> QED
  BY <1>1, <1>2 DEF IInv

(* A put extends the queue by the slot at its end, which is in nobody's    *)
(* use.                                                                    *)
LEMMA PutSlot ==
  ASSUME IInv, NEW c \in Contexts, NEW e \in Events, Put(c, e)
  PROVE  /\ end \in Slots /\ ~InQueue(end) /\ end # handling
         /\ \A d \in Contexts : claimed[d] # end
         /\ \A k \in Slots : InQueue(k)' <=> InQueue(k) \/ k = end
<1>1. /\ start \in Slots /\ end \in Slots /\ next_index(end) # start
      /\ end' = next_index(end) /\ start' = start
  BY DEF IInv, TypeOK, Put, Claim, app_sched_queue_full
<1>2. ~InQueue(end)
  BY <1>1, Indices DEF InQueue, Slots
<1>3. end # handling
  BY <1>1, Indices DEF IInv, Shape
<1>4. \A d \in Contexts : claimed[d] # end
  BY <1>1, <1>2, Indices DEF IInv, Shape
<1>5. ASSUME NEW k \in Slots PROVE InQueue(k)' <=> InQueue(k) \/ k = end
  BY <1>1, Indices DEF InQueue, Slots, next_index
<1> QED
  BY <1>1, <1>2, <1>3, <1>4, <1>5

LEMMA PutStep == ASSUME IInv, NEW c \in Contexts, NEW e \in Events, Put(c, e) PROVE IInv'
<1>1. /\ claimed' = [claimed EXCEPT ![c] = end] /\ putting' = [putting EXCEPT ![c] = e]
      /\ end' = next_index(end) /\ claimed[c] = NoSlot
      /\ UNCHANGED <<start, slots, handling>>
  BY DEF Put, Claim
<1>2. TypeOK'
  BY <1>1, Indices DEF IInv, TypeOK
<1>3. ClaimsApart'
  BY <1>1, PutSlot, Indices DEF IInv, TypeOK, ClaimsApart
<1>4. Shape'
  <2>1. (handling # NoSlot => start = next_index(handling) /\ slots[handling] \in Events)'
    BY <1>1 DEF IInv, Shape, next_index, NoSlot
  <2>2. ASSUME NEW d \in Contexts, claimed'[d] # NoSlot
        PROVE  InQueue(claimed[d])' /\ putting'[d] \in Events
    <3>1. CASE d = c
      <4>1. claimed'[d] = end /\ putting'[d] = e
        BY <1>1, <3>1 DEF IInv, TypeOK
      <4>2. start \in Slots /\ end \in Slots /\ next_index(end) # start
        BY DEF IInv, TypeOK, Put, app_sched_queue_full
      <4> QED
        BY <1>1, <4>1, <4>2, Indices DEF InQueue, Slots, next_index
    <3>2. CASE d # c
      <4>1. claimed'[d] = claimed[d] /\ putting'[d] = putting[d]
        BY <1>1, <3>2 DEF IInv, TypeOK
      <4>2. InQueue(claimed[d]) /\ putting[d] \in Events /\ claimed[d] \in Slots
        BY <4>1, <2>2 DEF IInv, TypeOK, Shape
      <4>3. start \in Slots /\ end \in Slots /\ next_index(end) # start
        BY DEF IInv, TypeOK, Put, app_sched_queue_full
      <4> QED
        BY <1>1, <4>1, <4>2, <4>3, Indices DEF InQueue, Slots, next_index
    <3> QED
      BY <3>1, <3>2
  <2>3. ASSUME NEW k \in Slots, InQueue(k)'
        PROVE  slots'[k] \in Events \/ \E d \in Contexts : claimed'[d] = k
    <3>1. CASE k = end
      BY <1>1, <3>1 DEF IInv, TypeOK
    <3>2. CASE k # end
      <4>1. slots[k] \in Events \/ \E d \in Contexts : claimed[d] = k
        BY <2>3, <3>2, PutSlot DEF IInv, Shape
      <4>2. \A d \in Contexts : claimed[d] = k => claimed'[d] = k
        BY <1>1, Indices DEF IInv, TypeOK
      <4> QED
        BY <1>1, <4>1, <4>2
    <3> QED
      BY <3>1, <3>2
  <2>4. Slots' = Slots /\ Contexts' = Contexts /\ NoSlot' = NoSlot
    BY DEF Slots, Contexts, NoSlot
  <2> QED
    BY <2>1, <2>2, <2>3, <2>4 DEF Shape
<1> QED
  BY <1>2, <1>3, <1>4 DEF IInv

LEMMA FillStep == ASSUME IInv, NEW c \in Contexts, Fill(c) PROVE IInv'
<1>1. /\ slots' = [slots EXCEPT ![claimed[c]] = putting[c]]
      /\ claimed' = [claimed EXCEPT ![c] = NoSlot]
      /\ claimed[c] # NoSlot /\ claimed[c] \in Slots /\ putting[c] \in Events
      /\ claimed[c] # handling
      /\ UNCHANGED <<start, end, putting, handling>>
  BY DEF IInv, TypeOK, Shape, ClaimsApart, Fill
<1>2. TypeOK'
  BY <1>1, Indices DEF IInv, TypeOK
<1>3. ClaimsApart'
  BY <1>1 DEF IInv, TypeOK, ClaimsApart
<1>4. Shape'
  <2>1. (handling # NoSlot => start = next_index(handling) /\ slots[handling] \in Events)'
    BY <1>1 DEF IInv, TypeOK, Shape, next_index, NoSlot
  <2>2. ASSUME NEW d \in Contexts, claimed'[d] # NoSlot
        PROVE  InQueue(claimed[d])' /\ putting'[d] \in Events
    <3>1. claimed'[d] = claimed[d] /\ claimed[d] # NoSlot
      BY <1>1, <2>2 DEF IInv, TypeOK
    <3> QED
      BY <1>1, <3>1 DEF IInv, Shape, InQueue
  <2>3. ASSUME NEW k \in Slots, InQueue(k)'
        PROVE  slots'[k] \in Events \/ \E d \in Contexts : claimed'[d] = k
    <3>1. InQueue(k)
      BY <1>1, <2>3 DEF InQueue
    <3>2. CASE k = claimed[c]
      BY <1>1, <3>2 DEF IInv, TypeOK
    <3>3. CASE k # claimed[c]
      BY <1>1, <3>1, <3>3 DEF IInv, TypeOK, Shape
    <3> QED
      BY <3>2, <3>3
  <2>4. Slots' = Slots /\ Contexts' = Contexts /\ NoSlot' = NoSlot
    BY DEF Slots, Contexts, NoSlot
  <2> QED
    BY <2>1, <2>2, <2>3, <2>4 DEF Shape
<1> QED
  BY <1>2, <1>3, <1>4 DEF IInv

(* While the main thread takes an event, no put is under way. *)
LEMMA NoPutUnderWay ==
  ASSUME IInv, Running(0), claimed[0] = NoSlot
  PROVE  \A c \in Contexts : claimed[c] = NoSlot
BY DEF IInv, TypeOK, Running, Contexts

LEMMA GetStep == ASSUME IInv, Get PROVE IInv'
<1>1. /\ handling = NoSlot /\ end # start /\ handling' = start /\ start' = next_index(start)
      /\ UNCHANGED <<end, slots, claimed, putting>>
      /\ start \in Slots /\ end \in Slots
      /\ \A c \in Contexts : claimed[c] = NoSlot
  BY NoPutUnderWay DEF Get, IInv, TypeOK, app_sched_queue_empty
<1>2. TypeOK' /\ ClaimsApart'
  BY <1>1, Indices DEF IInv, TypeOK, ClaimsApart
<1>3. InQueue(start) /\ \A k \in Slots : InQueue(k)' => InQueue(k)
  BY <1>1, Indices DEF InQueue, Slots, next_index
<1>4. Shape'
  <2>1. slots[start] \in Events
    BY <1>1, <1>3, Indices DEF IInv, Shape
  <2> QED
    BY <1>1, <1>3, <2>1, Indices DEF IInv, Shape, next_index, Slots, Contexts, NoSlot
<1> QED
  BY <1>2, <1>4 DEF IInv

LEMMA ReturnStep == ASSUME IInv, HandlerReturns PROVE IInv'
<1>1. /\ handling' = NoSlot /\ UNCHANGED <<start, end, slots, claimed, putting>>
  BY DEF HandlerReturns
<1>2. TypeOK' /\ ClaimsApart'
  BY <1>1, Indices DEF IInv, TypeOK, ClaimsApart
<1>3. Shape'
  BY <1>1 DEF IInv, Shape, InQueue, NoSlot, Slots, Contexts
<1> QED
  BY <1>2, <1>3 DEF IInv

LEMMA Step == ASSUME IInv, [Next]_vars PROVE IInv'
<1>1. CASE UNCHANGED vars
  BY <1>1 DEF vars, IInv, TypeOK, ClaimsApart, Shape, InQueue, next_index, NoSlot, Slots, Contexts
<1> QED
  BY <1>1, PutStep, FillStep, GetStep, ReturnStep DEF Next

THEOREM Kept == Spec => []IInv
<1>1. IInv /\ [Next]_vars => IInv'
  BY Step
<1> QED
  BY Initially, <1>1, PTL DEF Spec

(* The indices of app_scheduler.c stay within the buffer for every size    *)
(* of the queue.                                                           *)
THEOREM SchedulerTypes == Spec => []TypeOK
<1>1. IInv => TypeOK
  BY DEF IInv
<1> QED
  BY Kept, <1>1, PTL

(* app_sched_event_put() never fills a slot that another put, or a handler *)
(* on the main thread, is using, at whatever levels they run.              *)
THEOREM PutsApart == Spec => []ClaimsApart
<1>1. IInv => ClaimsApart
  BY DEF IInv
<1> QED
  BY Kept, <1>1, PTL

-----------------------------------------------------------------------------
(* The queue of the scheduler is the abstract one, seen from start.        *)

Held == Events \cup {NoEvent}

LEMMA Spans ==
  ASSUME NEW s \in Slots, NEW e \in Slots
  PROVE  /\ Span(s, e) \in Nat /\ Span(s, e) <= QueueSize /\ (Span(s, e) = 0 <=> s = e)
         /\ \A j \in 1..Span(s, e) : Ahead(s, j) \in Slots /\ Ahead(s, j) # e
BY Indices DEF Span, Ahead, Slots

(* One slot more at the end, ... *)
LEMMA SpanGrows ==
  ASSUME NEW s \in Slots, NEW e \in Slots, next_index(e) # s
  PROVE  /\ Span(s, next_index(e)) = Span(s, e) + 1 /\ Span(s, e) < QueueSize
         /\ Ahead(s, Span(s, e) + 1) = e
BY Indices DEF Span, Ahead, Slots, next_index

(* ... and one less at the start. *)
LEMMA SpanShrinks ==
  ASSUME NEW s \in Slots, NEW e \in Slots, s # e
  PROVE  /\ Span(next_index(s), e) = Span(s, e) - 1 /\ Ahead(s, 1) = s
         /\ \A j \in 1..Span(next_index(s), e) : Ahead(next_index(s), j) = Ahead(s, j + 1)
BY Indices DEF Span, Ahead, Slots, next_index

(* A slot's content is the claimant's event, or what the slot holds. *)
LEMMA ContentClaimed ==
  ASSUME NEW cl, NEW pu, NEW sl, NEW k, NEW c \in Contexts, cl[c] = k,
         \A d \in Contexts : cl[d] = k => d = c
  PROVE  Content(cl, pu, sl, k) = pu[c]
<1>1. (CHOOSE d \in Contexts : cl[d] = k) = c
  OBVIOUS
<1> QED
  BY <1>1 DEF Content

LEMMA ContentFree ==
  ASSUME NEW cl, NEW pu, NEW sl, NEW k, \A d \in Contexts : cl[d] # k
  PROVE  Content(cl, pu, sl, k) = sl[k]
BY DEF Content

LEMMA ContentHeld ==
  ASSUME IInv, NEW k \in Slots
  PROVE  Content(claimed, putting, slots, k) \in Held
<1>1. CASE \E c \in Contexts : claimed[c] = k
  <2>1. PICK c \in Contexts : claimed[c] = k
    BY <1>1
  <2>2. \A d \in Contexts : claimed[d] = k => d = c
    BY <2>1, Indices DEF IInv, ClaimsApart
  <2>3. Content(claimed, putting, slots, k) = putting[c]
    BY <2>1, <2>2, ContentClaimed
  <2>4. putting \in [Contexts -> Held]
    BY DEF IInv, TypeOK, Held
  <2> QED
    BY <2>3, <2>4
<1>2. CASE ~\E c \in Contexts : claimed[c] = k
  BY <1>2, ContentFree DEF IInv, TypeOK, Held
<1> QED
  BY <1>1, <1>2

LEMMA WaitingIsSeq ==
  ASSUME IInv
  PROVE  Waiting \in Seq(Held) /\ Len(Waiting) = Span(start, end)
<1>1. start \in Slots /\ end \in Slots
  BY DEF IInv, TypeOK
<1>2. \A j \in 1..Span(start, end) : Content(claimed, putting, slots, Ahead(start, j)) \in Held
  BY <1>1, Spans, ContentHeld
<1>3. Waiting \in [1..Span(start, end) -> Held] /\ Span(start, end) \in Nat
  BY <1>1, <1>2, Spans DEF Waiting
<1> QED
  BY <1>3

LEMMA Appended ==
  ASSUME NEW S, NEW q \in Seq(S), NEW e \in S
  PROVE  Append(q, e) = [j \in 1..(Len(q) + 1) |-> IF j = Len(q) + 1 THEN e ELSE q[j]]
<1> DEFINE a == Append(q, e)
<1>1. /\ a \in Seq(S) /\ Len(a) = Len(q) + 1 /\ a[Len(q) + 1] = e
      /\ \A j \in 1..Len(q) : a[j] = q[j]
  BY AppendProperties
<1>2. a \in [1..Len(a) -> S] /\ Len(q) \in Nat
  BY <1>1, LenProperties
<1> HIDE DEF a
<1>3. \A j \in 1..(Len(q) + 1) : a[j] = IF j = Len(q) + 1 THEN e ELSE q[j]
  BY <1>1, <1>2
<1>4. a = [j \in 1..(Len(q) + 1) |-> IF j = Len(q) + 1 THEN e ELSE q[j]]
  BY <1>1, <1>2, <1>3
<1> QED
  BY <1>4 DEF a

LEMMA Shortened ==
  ASSUME NEW S, NEW q \in Seq(S), q # <<>>
  PROVE  Tail(q) = [j \in 1..(Len(q) - 1) |-> q[j + 1]]
<1> DEFINE t == Tail(q)
<1>1. t \in Seq(S) /\ Len(t) = Len(q) - 1 /\ \A j \in 1..Len(t) : t[j] = q[j + 1]
  BY HeadTailProperties
<1>2. t \in [1..Len(t) -> S]
  BY <1>1, LenProperties
<1> HIDE DEF t
<1>3. t = [j \in 1..(Len(q) - 1) |-> q[j + 1]]
  BY <1>1, <1>2
<1> QED
  BY <1>3 DEF t

LEMMA InitRefines == Init => Queue!Init
<1> SUFFICES ASSUME Init PROVE Queue!Init
  OBVIOUS
<1>1. Span(start, end) = 0 /\ handling = NoSlot
  BY DEF Init, Span
<1>2. Waiting = <<>>
  BY <1>1 DEF Waiting
<1> QED
  BY <1>1, <1>2 DEF Queue!Init, Current

LEMMA PutRefines ==
  ASSUME IInv, NEW c \in Contexts, NEW e \in Events, Put(c, e)
  PROVE  Queue!Accept(e)
<1> DEFINE n == Span(start, end)
<1>1. /\ claimed' = [claimed EXCEPT ![c] = end] /\ putting' = [putting EXCEPT ![c] = e]
      /\ end' = next_index(end) /\ claimed[c] = NoSlot /\ next_index(end) # start
      /\ start' = start /\ slots' = slots /\ handling' = handling
      /\ start \in Slots /\ end \in Slots
  BY DEF Put, Claim, app_sched_queue_full, IInv, TypeOK
<1>2. n \in Nat /\ n < QueueSize /\ Span(start, end') = n + 1 /\ Ahead(start, n + 1) = end
  BY <1>1, SpanGrows, Spans
<1>3. Content(claimed', putting', slots, end) = e
  <2>1. claimed'[c] = end /\ putting'[c] = e
    BY <1>1 DEF IInv, TypeOK
  <2>2. \A d \in Contexts : claimed'[d] = end => d = c
    BY <1>1, PutSlot DEF IInv, TypeOK
  <2> QED
    BY <2>1, <2>2, ContentClaimed
<1>4. ASSUME NEW k \in Slots, k # end
      PROVE  Content(claimed', putting', slots, k) = Content(claimed, putting, slots, k)
  <2>1. \A d \in Contexts : claimed'[d] = k <=> claimed[d] = k
    BY <1>1, <1>4, Indices DEF IInv, TypeOK
  <2>2. CASE \E d \in Contexts : claimed[d] = k
    <3>1. PICK d \in Contexts : claimed[d] = k
      BY <2>2
    <3>2. \A f \in Contexts : claimed[f] = k => f = d
      BY <3>1, Indices DEF IInv, ClaimsApart
    <3>3. putting'[d] = putting[d]
      BY <1>1, <3>1, Indices DEF IInv, TypeOK
    <3> QED
      BY <2>1, <3>1, <3>2, <3>3, ContentClaimed
  <2>3. CASE ~\E d \in Contexts : claimed[d] = k
    BY <2>1, <2>3, ContentFree
  <2> QED
    BY <2>2, <2>3
<1>5. Waiting' = [j \in 1..(n + 1) |-> Content(claimed', putting', slots, Ahead(start, j))]
  BY <1>1, <1>2 DEF Waiting
<1>6. Waiting = [j \in 1..n |-> Content(claimed, putting, slots, Ahead(start, j))]
  BY DEF Waiting
<1>7. \A j \in 1..n : Ahead(start, j) \in Slots /\ Ahead(start, j) # end
  BY <1>1, Spans
<1>8. Waiting \in Seq(Held) /\ Len(Waiting) = n /\ e \in Held
  BY WaitingIsSeq DEF Held
<1> HIDE DEF n
<1>9. Append(Waiting, e) = [j \in 1..(n + 1) |-> IF j = n + 1 THEN e ELSE Waiting[j]]
  BY <1>8, Appended
<1>10. Waiting' = Append(Waiting, e)
  <2>1. ASSUME NEW j \in 1..(n + 1)
        PROVE  Content(claimed', putting', slots, Ahead(start, j)) = IF j = n + 1 THEN e ELSE Waiting[j]
    <3>1. CASE j = n + 1
      BY <1>2, <1>3, <3>1
    <3>2. CASE j # n + 1
      <4>1. j \in 1..n
        BY <1>2, <3>2
      <4> QED
        BY <1>4, <1>6, <1>7, <3>2, <4>1
    <3> QED
      BY <3>1, <3>2
  <2> QED
    BY <1>5, <1>9, <2>1
<1>11. Current' = Current
  BY <1>1 DEF Current, NoSlot
<1> QED
  BY <1>2, <1>8, <1>10, <1>11 DEF Queue!Accept

(* The filling of a claimed slot is a stutter. *)
LEMMA FillRefines ==
  ASSUME IInv, NEW c \in Contexts, Fill(c)
  PROVE  UNCHANGED <<Waiting, Current>>
<1>1. /\ slots' = [slots EXCEPT ![claimed[c]] = putting[c]]
      /\ claimed' = [claimed EXCEPT ![c] = NoSlot]
      /\ claimed[c] # NoSlot /\ claimed[c] \in Slots /\ claimed[c] # handling
      /\ start' = start /\ end' = end /\ putting' = putting /\ handling' = handling
      /\ start \in Slots /\ end \in Slots
  BY DEF IInv, TypeOK, ClaimsApart, Fill
<1>2. ASSUME NEW k \in Slots
      PROVE  Content(claimed', putting, slots', k) = Content(claimed, putting, slots, k)
  <2>1. CASE k = claimed[c]
    <3>1. \A d \in Contexts : claimed[d] = k => d = c
      BY <1>1, <2>1 DEF IInv, ClaimsApart
    <3>2. \A d \in Contexts : claimed'[d] # k
      BY <1>1, <2>1, <3>1, Indices DEF IInv, TypeOK
    <3>3. slots'[k] = putting[c]
      BY <1>1, <2>1 DEF IInv, TypeOK
    <3> QED
      BY <2>1, <3>1, <3>2, <3>3, ContentClaimed, ContentFree
  <2>2. CASE k # claimed[c]
    <3>1. \A d \in Contexts : claimed'[d] = k <=> claimed[d] = k
      BY <1>1, <2>2, Indices DEF IInv, TypeOK
    <3>2. slots'[k] = slots[k]
      BY <1>1, <2>2 DEF IInv, TypeOK
    <3>3. CASE \E d \in Contexts : claimed[d] = k
      <4>1. PICK d \in Contexts : claimed[d] = k
        BY <3>3
      <4>2. \A f \in Contexts : claimed[f] = k => f = d
        BY <4>1, Indices DEF IInv, ClaimsApart
      <4> QED
        BY <3>1, <4>1, <4>2, ContentClaimed
    <3>4. CASE ~\E d \in Contexts : claimed[d] = k
      BY <3>1, <3>2, <3>4, ContentFree
    <3> QED
      BY <3>3, <3>4
  <2> QED
    BY <2>1, <2>2
<1>3. \A j \in 1..Span(start, end) : Ahead(start, j) \in Slots
  BY <1>1, Spans
<1>4. Waiting' = [j \in 1..Span(start, end) |-> Content(claimed', putting, slots', Ahead(start, j))]
  BY <1>1 DEF Waiting
<1>5. Waiting' = Waiting
  BY <1>2, <1>3, <1>4 DEF Waiting
<1>6. Current' = Current
  BY <1>1, Indices DEF Current, NoSlot, IInv, TypeOK
<1> QED
  BY <1>5, <1>6

LEMMA GetRefines == ASSUME IInv, Get PROVE Queue!Take
<1> DEFINE n == Span(start, end)
<1>1. /\ handling = NoSlot /\ handling' = start /\ start' = next_index(start) /\ start # end
      /\ end' = end /\ slots' = slots /\ claimed' = claimed /\ putting' = putting
      /\ start \in Slots /\ end \in Slots
      /\ \A c \in Contexts : claimed[c] = NoSlot
  BY NoPutUnderWay DEF Get, IInv, TypeOK, app_sched_queue_empty
<1>2. /\ n \in Nat /\ n # 0 /\ Span(start', end) = n - 1 /\ Ahead(start, 1) = start
      /\ \A j \in 1..(n - 1) : Ahead(start', j) = Ahead(start, j + 1)
  BY <1>1, Spans, SpanShrinks
<1>3. Waiting \in Seq(Held) /\ Len(Waiting) = n
  BY WaitingIsSeq
<1>4. Waiting = [j \in 1..n |-> Content(claimed, putting, slots, Ahead(start, j))]
  BY DEF Waiting
<1>5. Waiting' = [j \in 1..(n - 1) |-> Content(claimed, putting, slots, Ahead(start', j))]
  BY <1>1, <1>2 DEF Waiting
<1> HIDE DEF n
<1>6. Tail(Waiting) = [j \in 1..(n - 1) |-> Waiting[j + 1]]
  BY <1>2, <1>3, Shortened
<1>7. Waiting' = Tail(Waiting)
  <2>1. ASSUME NEW j \in 1..(n - 1)
        PROVE  Content(claimed, putting, slots, Ahead(start', j)) = Waiting[j + 1]
    <3>1. j + 1 \in 1..n
      BY <1>2
    <3> QED
      BY <1>2, <1>4, <3>1
  <2> QED
    BY <1>5, <1>6, <2>1
<1>8. Head(Waiting) = slots[start]
  <2>1. Waiting[1] = Content(claimed, putting, slots, start)
    BY <1>2, <1>4
  <2>2. \A d \in Contexts : claimed[d] # start
    BY <1>1, Indices
  <2> QED
    BY <1>2, <1>3, <2>1, <2>2, ContentFree
<1>9. Current = NoEvent /\ Current' = slots[start]
  BY <1>1, Indices DEF Current, NoSlot
<1>10. Waiting # <<>>
  BY <1>2, <1>3
<1> QED
  BY <1>7, <1>8, <1>9, <1>10 DEF Queue!Take

LEMMA ReturnRefines == ASSUME IInv, HandlerReturns PROVE Queue!Finish
<1>1. /\ handling # NoSlot /\ handling' = NoSlot
      /\ start' = start /\ end' = end /\ slots' = slots
      /\ claimed' = claimed /\ putting' = putting
  BY DEF HandlerReturns
<1>2. Waiting' = Waiting
  BY <1>1 DEF Waiting
<1>3. Current # NoEvent /\ Current' = NoEvent
  BY <1>1 DEF IInv, Shape, Current, NoSlot
<1> QED
  BY <1>2, <1>3 DEF Queue!Finish

LEMMA StepRefines == ASSUME IInv, [Next]_vars PROVE [Queue!Next]_<<Waiting, Current>>
<1>1. CASE UNCHANGED vars
  BY <1>1 DEF vars, Waiting, Current, NoSlot
<1>2. ASSUME NEW c \in Contexts, Fill(c) PROVE [Queue!Next]_<<Waiting, Current>>
  BY <1>2, FillRefines
<1>3. ASSUME NEW c \in Contexts, NEW e \in Events, Put(c, e) PROVE Queue!Next
  BY <1>3, PutRefines DEF Queue!Next
<1>4. ASSUME Get PROVE Queue!Next
  BY <1>4, GetRefines DEF Queue!Next
<1>5. ASSUME HandlerReturns PROVE Queue!Next
  BY <1>5, ReturnRefines DEF Queue!Next
<1> QED
  BY <1>1, <1>2, <1>3, <1>4, <1>5 DEF Next

(* However the puts of the interrupt levels fall between the steps of the  *)
(* main thread, app_scheduler.c is a queue: what it accepts is handled in  *)
(* that order, once, and unchanged.                                        *)
THEOREM SchedulerIsQueue == Spec => Queue!Init /\ [][Queue!Next]_<<Waiting, Current>>
<1>1. IInv /\ [Next]_vars => [Queue!Next]_<<Waiting, Current>>
  BY StepRefines
<1> QED
  BY InitRefines, Kept, <1>1, PTL DEF Spec
=============================================================================
