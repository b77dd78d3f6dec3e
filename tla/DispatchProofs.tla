---------------------------- MODULE DispatchProofs ---------------------------
(***************************************************************************)
(* Proofs about how an event reaches the callbacks and what they meet      *)
(* there: EventPump for any number of events, CallChain for any callbacks, *)
(* and NonceGenerate, the loop a callback waits in, for every split of the *)
(* block and any pool.                                                     *)
(***************************************************************************)
EXTENDS EventPump, CallChain, NonceGenerate, SequenceTheorems, TLAPS

(***************************************************************************)
(* EventPump.  NoStrandedEvent is not inductive by itself: the test of the *)
(* flag and its clearing are two steps, so the invariant has to say that   *)
(* the flag is still up in between, and the end of the drain has to know   *)
(* that it is left only with both queues found empty.  NoSleepOnSignal     *)
(* needs the event register from the moment the flag was last looked at,   *)
(* not only in the sleep itself.                                           *)
(***************************************************************************)
SignalStaysUp == pc = "clear" => isEventsSignaled

(* The flag was looked at or cleared and the main thread has yet to sleep. *)
Committed == Draining \/ pc = "sleep"

SignalWakes == Committed /\ isEventsSignaled => eventRegister

PumpInv == TypeOK /\ NoStrandedEvent /\ SignalStaysUp /\ SignalWakes

LEMMA TypePreserved ==
  ASSUME TypeOK, [Next]_vars
  PROVE  TypeOK'
<1> USE BoundedPosting DEF TypeOK, Queues
<1>1. CASE \E q \in Queues : Post(q)
  BY <1>1 DEF Post
<1>2. CASE SOFTDEVICE_EVT_IRQHandler \/ OtherInterrupt
  BY <1>2 DEF SOFTDEVICE_EVT_IRQHandler, OtherInterrupt
<1>3. CASE TestSignal \/ ClearSignal \/ DrainCheck \/ Wake \/ Body
  BY <1>3 DEF TestSignal, ClearSignal, DrainCheck, Wake, Body
<1>4. ASSUME NEW q \in Queues, Pull(q)
      PROVE  TypeOK'
  <2>1. pc' \in {"ble", "check"}
    BY <1>4 DEF Pull, After
  <2>2. CASE PullOne(q)
    BY <1>4, <2>1, <2>2 DEF Pull, PullOne
  <2>3. CASE FindEmpty(q)
    BY <1>4, <2>1, <2>3 DEF Pull, FindEmpty
  <2>4. CASE Skip(q)
    BY <1>4, <2>1, <2>4 DEF Pull, Skip
  <2> QED BY <1>4, <2>2, <2>3, <2>4 DEF Pull
<1>5. CASE UNCHANGED vars
  BY <1>5 DEF vars
<1> QED BY <1>1, <1>2, <1>3, <1>4, <1>5 DEF Next, MainThread

LEMMA NoEventStranded ==
  ASSUME PumpInv, [Next]_vars
  PROVE  NoStrandedEvent'
<1> SUFFICES ASSUME NEW q \in Queues, (handled[q] < posted[q])'
             PROVE  (irqPending \/ isEventsSignaled \/ (Draining /\ ~noMore[q]))'
  BY DEF NoStrandedEvent
<1> USE DEF PumpInv, TypeOK, NoStrandedEvent, Draining, Queues
<1>1. CASE \E p \in Queues : Post(p)
  BY <1>1 DEF Post
<1>2. CASE SOFTDEVICE_EVT_IRQHandler \/ OtherInterrupt
  BY <1>2 DEF SOFTDEVICE_EVT_IRQHandler, OtherInterrupt
<1>3. CASE TestSignal
  BY <1>3 DEF TestSignal
<1>4. CASE ClearSignal
  BY <1>4 DEF ClearSignal
<1>5. ASSUME NEW p \in Queues, Pull(p)
      PROVE  (irqPending \/ isEventsSignaled \/ (Draining /\ ~noMore[q]))'
  <2>1. /\ pc' \in {"ble", "check"}
        /\ UNCHANGED <<posted, irqPending, isEventsSignaled>>
        /\ pc \in Queues
    BY <1>5 DEF Pull, After
  <2>2. CASE PullOne(p)
    BY <1>5, <2>1, <2>2 DEF PullOne
  <2>3. CASE FindEmpty(p)
    BY <1>5, <2>1, <2>3 DEF FindEmpty
  <2>4. CASE Skip(p)
    BY <1>5, <2>1, <2>4 DEF Skip
  <2> QED BY <1>5, <2>2, <2>3, <2>4 DEF Pull
<1>6. CASE DrainCheck
  BY <1>6 DEF DrainCheck
<1>7. CASE Wake \/ Body
  BY <1>7 DEF Wake, Body
<1>8. CASE UNCHANGED vars
  BY <1>8 DEF vars
<1> QED BY <1>1, <1>2, <1>3, <1>4, <1>5, <1>6, <1>7, <1>8 DEF Next, MainThread

LEMMA SignalKept ==
  ASSUME PumpInv, [Next]_vars
  PROVE  SignalStaysUp' /\ SignalWakes'
<1> USE DEF PumpInv, TypeOK, SignalStaysUp, SignalWakes, Committed, Draining, Queues
<1>1. CASE \E q \in Queues : Post(q)
  BY <1>1 DEF Post
<1>2. CASE SOFTDEVICE_EVT_IRQHandler \/ OtherInterrupt
  BY <1>2 DEF SOFTDEVICE_EVT_IRQHandler, OtherInterrupt
<1>3. CASE TestSignal \/ ClearSignal \/ DrainCheck \/ Wake \/ Body
  BY <1>3 DEF TestSignal, ClearSignal, DrainCheck, Wake, Body
<1>4. CASE \E q \in Queues : Pull(q)
  BY <1>4 DEF Pull, After
<1>5. CASE UNCHANGED vars
  BY <1>5 DEF vars
<1> QED BY <1>1, <1>2, <1>3, <1>4, <1>5 DEF Next, MainThread

-----------------------------------------------------------------------------
(* The inductive invariant holds in every behaviour. *)
THEOREM Invariance == Spec => []PumpInv
<1>1. Init => PumpInv
  <2> USE DEF Init
  <2>1. Init => TypeOK
    <3>1. Init => noMore \in [Queues -> BOOLEAN]
      BY Zenon
    <3>2. Init => /\ posted \in [Queues -> 0..MaxEvents]
                  /\ handled \in [Queues -> 0..MaxEvents]
                  /\ \A q \in Queues : handled[q] <= posted[q]
      BY BoundedPosting
    <3>3. Init => /\ irqPending \in BOOLEAN
                  /\ isEventsSignaled \in BOOLEAN
                  /\ eventRegister \in BOOLEAN
                  /\ pc \in {"test", "clear", "check", "sleep", "body"} \cup Queues
      OBVIOUS
    <3> QED BY <3>1, <3>2, <3>3 DEF TypeOK
  <2>2. Init => NoStrandedEvent
    BY DEF NoStrandedEvent
  <2>3. Init => SignalStaysUp /\ SignalWakes
    BY DEF SignalStaysUp, SignalWakes
  <2> QED BY <2>1, <2>2, <2>3 DEF PumpInv
<1>2. PumpInv /\ [Next]_vars => PumpInv'
  BY TypePreserved, NoEventStranded, SignalKept DEF PumpInv
<1> QED BY <1>1, <1>2, PTL DEF Spec

(* Every variable of the event pump holds a value the program can give it. *)
THEOREM TypeCorrect == Spec => []TypeOK
BY Invariance, PTL DEF PumpInv

(* No event queued by the SoftDevice is ever forgotten, however the        *)
(* interrupt falls between the steps of waitForEvent().                    *)
THEOREM NothingStranded == Spec => []NoStrandedEvent
BY Invariance, PTL DEF PumpInv

(* waitForEvent() never sleeps while events are signaled. *)
THEOREM NeverSleepsOnSignal == Spec => []NoSleepOnSignal
<1>1. PumpInv => NoSleepOnSignal
  BY DEF PumpInv, SignalWakes, Committed, NoSleepOnSignal
<1> QED BY <1>1, Invariance, PTL

-----------------------------------------------------------------------------
(***************************************************************************)
(* NonceGenerate.  Meeting is the strengthening: what is left to fetch is  *)
(* what is left of the block behind the index.                             *)
(***************************************************************************)
Meeting == i + remaining = COUNTER_BYTE_LEN + NONCE_RAND_BYTE_LEN

NonceInv == NonceTypeOK /\ OncePerByte /\ Meeting

USE NonceBounds

LEMMA NonceInitially == NonceInit => NonceInv
BY DEF NonceInit, NonceInv, NonceTypeOK, OncePerByte, Meeting, Block

(* An iteration sets the bytes from the index up to the new index. *)
LEMMA Iteration == ASSUME NonceInv, Iterate PROVE NonceInv'
<1> DEFINE n == Available(pool)
<1>1. n \in Nat /\ n <= remaining /\ n <= pool /\ remaining \in Nat /\ i \in Nat /\ pool \in Nat
  BY DEF NonceInv, NonceTypeOK, Available
<1>2. i' = i + n /\ remaining' = remaining - n /\ pool' = pool - n
  BY DEF Iterate, Advance
<1>3. filled' = [k \in Block |-> IF k \in Region(n) THEN filled[k] + 1 ELSE filled[k]]
  BY DEF Iterate
<1> HIDE DEF n
<1>4. NonceTypeOK' /\ Meeting'
  <2>1. Block' = Block
    BY DEF Block
  <2>2. filled' \in [Block -> Nat]
    BY <1>3 DEF NonceInv, NonceTypeOK
  <2> QED
    BY <1>1, <1>2, <2>1, <2>2 DEF NonceInv, NonceTypeOK, Meeting
<1>5. OncePerByte'
  <2> SUFFICES ASSUME NEW k \in Block
               PROVE  filled'[k] = IF COUNTER_BYTE_LEN <= k /\ k < i' THEN 1 ELSE 0
    BY DEF OncePerByte, Block
  <2>1. k \in Nat /\ COUNTER_BYTE_LEN <= i
    BY DEF Block, NonceInv, NonceTypeOK
  <2>2. filled[k] = IF COUNTER_BYTE_LEN <= k /\ k < i THEN 1 ELSE 0
    BY DEF NonceInv, OncePerByte
  <2>3. k \in Region(n) <=> (i <= k /\ k < i + n)
    BY DEF Region
  <2> QED
    BY <1>1, <1>2, <1>3, <2>1, <2>2, <2>3
<1> QED
  BY <1>4, <1>5 DEF NonceInv

LEMMA NonceStep == ASSUME NonceInv, [NonceNext]_nonceVars PROVE NonceInv'
<1>1. CASE Iterate
  BY <1>1, Iteration
<1>2. CASE Refill
  BY <1>2 DEF Refill, NonceInv, NonceTypeOK, OncePerByte, Meeting, Block
<1>3. CASE UNCHANGED nonceVars
  BY <1>3 DEF nonceVars, NonceInv, NonceTypeOK, OncePerByte, Meeting, Block
<1> QED
  BY <1>1, <1>2, <1>3 DEF NonceNext

THEOREM Collected == NonceSpec => []NonceInv
<1>1. NonceInv /\ [NonceNext]_nonceVars => NonceInv'
  BY NonceStep
<1> QED
  BY NonceInitially, <1>1, PTL DEF NonceSpec

(* The type invariant holds for every split of the block: nonce_generate() *)
(* never passes its end.                                                   *)
THEOREM NonceTypes == NonceSpec => []NonceTypeOK
<1>1. NonceInv => NonceTypeOK
  BY DEF NonceInv
<1> QED
  BY Collected, <1>1, PTL

(* Every byte behind the counter is set once, in order, and no other: the  *)
(* index and the remainder of nonce_generate() move together.              *)
THEOREM SetOnce == NonceSpec => []OncePerByte
<1>1. NonceInv => OncePerByte
  BY DEF NonceInv
<1> QED
  BY Collected, <1>1, PTL

(* When nonce_generate() returns, the whole nonce is random. *)
THEOREM WholeNonce == NonceSpec => []NonceComplete
<1>1. NonceInv => NonceComplete
  BY DEF NonceInv, NonceTypeOK, OncePerByte, Meeting, NonceComplete, Block
<1> QED
  BY Collected, <1>1, PTL

HIDE NonceBounds

-----------------------------------------------------------------------------
(***************************************************************************)
(* CallChain.  Traversed says what has been called by where it stands in   *)
(* the list: nothing behind the current object, and everything at or       *)
(* before it that has been there all along.  For it to be kept, detach()   *)
(* must step currentCalled back to exactly the object in front, or to NULL *)
(* in front of the head.                                                   *)
(***************************************************************************)
ChainTyped ==
  /\ chain \in Seq(Callbacks)
  /\ \A j, k \in 1..Len(chain) : chain[j] = chain[k] => j = k
  /\ currentCalled \in Callbacks \cup {None}
  /\ calling \in BOOLEAN
  /\ called \in [Callbacks -> 0..1]
  /\ staying \subseteq Attached

(* Those at or before the current one, and those after it. *)
Passed(k) == calling = FALSE \/ \E p \in k..Len(chain) : chain[p] = currentCalled

Traversed ==
  /\ calling = FALSE => currentCalled = None
  /\ \A k \in 1..Len(chain) :
       IF Passed(k) THEN chain[k] \in staying => called[chain[k]] = 1
                    ELSE called[chain[k]] = 0

ChainInv == ChainTyped /\ CurrentIsAttached /\ Traversed

USE Chain

LEMMA AttachedAt ==
  ASSUME NEW S, NEW s \in Seq(S)
  PROVE  ToSet(s) = {s[k] : k \in 1..Len(s)}
BY LenProperties DEF ToSet

LEMMA Indexing ==
  ASSUME ChainTyped, NEW k \in 1..Len(chain)
  PROVE  IndexOf(chain[k]) = k
<1>1. \A j \in 1..Len(chain) : chain[j] = chain[k] => j = k
  BY DEF ChainTyped
<1> QED
  BY <1>1 DEF IndexOf

LEMMA Places ==
  ASSUME ChainTyped
  PROVE  /\ Len(chain) \in Nat
         /\ \A k \in 1..Len(chain) : chain[k] \in Callbacks
         /\ Attached = {chain[k] : k \in 1..Len(chain)}
         /\ \A x : x \in Attached <=> \E k \in 1..Len(chain) : x = chain[k]
         /\ chain = <<>> => Len(chain) = 0
         /\ chain # <<>> => Len(chain) > 0 /\ ChainHead = chain[1]
<1>1. chain \in Seq(Callbacks)
  BY DEF ChainTyped
<1>2. Attached = {chain[k] : k \in 1..Len(chain)}
  BY <1>1, AttachedAt DEF Attached
<1> QED
  BY <1>1, <1>2, LenProperties, ElementOfSeq, EmptySeq DEF ChainHead

(* getNext() of the object at a place, and the one that is called after it. *)
LEMMA NextPlace ==
  ASSUME ChainInv, calling = TRUE
  PROVE  \E p \in 0..Len(chain) :
           /\ IF p = 0 THEN currentCalled = None ELSE chain[p] = currentCalled
           /\ Following = IF p = Len(chain) THEN None ELSE chain[p + 1]
           /\ \A k \in 1..Len(chain) : Passed(k) <=> k <= p
<1>1. CASE currentCalled = None
  <2>1. Following = IF 0 = Len(chain) THEN None ELSE chain[0 + 1]
    BY <1>1, Places DEF ChainInv, Following, ChainHead
  <2>2. \A k \in 1..Len(chain) : Passed(k) <=> k <= 0
    BY <1>1, Places DEF ChainInv, Passed
  <2> QED
    BY <1>1, <2>1, <2>2, Places DEF ChainInv
<1>2. CASE currentCalled # None
  <2>1. PICK p \in 1..Len(chain) : chain[p] = currentCalled
    BY <1>2, Places DEF ChainInv, CurrentIsAttached
  <2>2. Following = IF p = Len(chain) THEN None ELSE chain[p + 1]
    BY <1>2, <2>1, Indexing DEF ChainInv, Following, GetNext
  <2>3. \A k \in 1..Len(chain) : Passed(k) <=> k <= p
    BY <2>1, Places DEF ChainInv, ChainTyped, Passed
  <2> QED
    BY <1>2, <2>1, <2>2, <2>3, Places DEF ChainInv
<1> QED
  BY <1>1, <1>2

(* What is passed, from the place of the current one, 0 for none. *)
LEMMA Reached ==
  ASSUME NEW s \in Seq(Callbacks), \A j, k \in 1..Len(s) : s[j] = s[k] => j = k,
         NEW c, NEW p \in 0..Len(s), IF p = 0 THEN c = None ELSE s[p] = c
  PROVE  \A k \in 1..Len(s) : (\E n \in k..Len(s) : s[n] = c) <=> k <= p
<1>1. Len(s) \in Nat /\ \A k \in 1..Len(s) : s[k] # None
  BY LenProperties, ElementOfSeq
<1> QED
  BY <1>1

LEMMA CallStep == ASSUME ChainInv, Call PROVE ChainInv'
<1>1. /\ chain' = chain /\ currentCalled' = ChainHead /\ calling' = (ChainHead # None)
      /\ called' = [x \in Callbacks |-> IF x = ChainHead THEN 1 ELSE 0]
      /\ staying' = Attached /\ Attached' = Attached
  BY DEF Call, Enter, Attached
<1>2. CASE chain = <<>>
  <2>1. ChainHead = None /\ Len(chain) = 0 /\ Attached = {}
    BY <1>2, Places DEF ChainInv, ChainHead
  <2> QED
    BY <1>1, <1>2, <2>1 DEF ChainInv, ChainTyped, CurrentIsAttached, Traversed
<1>3. CASE chain # <<>>
  <2>1. ChainHead = chain[1] /\ 1 \in 1..Len(chain) /\ chain[1] \in Callbacks
    BY <1>3, Places DEF ChainInv
  <2>2. calling' = TRUE
    BY <1>1, <2>1
  <2>3. ChainTyped' /\ CurrentIsAttached'
    BY <1>1, <2>1, <2>2, Places DEF ChainInv, ChainTyped, CurrentIsAttached
  <2>4. \A k \in 1..Len(chain) : Passed(k)' <=> k = 1
    BY <1>1, <2>1, <2>2, Places DEF ChainInv, ChainTyped, Passed
  <2>5. \A k \in 1..Len(chain) : called'[chain[k]] = IF k = 1 THEN 1 ELSE 0
    BY <1>1, <2>1, Places DEF ChainInv, ChainTyped
  <2> QED
    BY <1>1, <2>2, <2>3, <2>4, <2>5 DEF ChainInv, Traversed
<1> QED
  BY <1>2, <1>3

LEMMA ReturnStep == ASSUME ChainInv, Return PROVE ChainInv'
<1>1. calling = TRUE
  BY DEF Return, ChainInv, ChainTyped
<1>2. PICK p \in 0..Len(chain) :
           /\ IF p = 0 THEN currentCalled = None ELSE chain[p] = currentCalled
           /\ Following = IF p = Len(chain) THEN None ELSE chain[p + 1]
           /\ \A k \in 1..Len(chain) : Passed(k) <=> k <= p
  BY <1>1, NextPlace
<1>3. /\ chain' = chain /\ staying' = staying /\ Attached' = Attached
      /\ currentCalled' = Following /\ calling' = (Following # None)
      /\ called' = [x \in Callbacks |-> IF x = Following THEN Again(called[x]) ELSE called[x]]
  BY DEF Return, Enter, Attached
<1>4. CASE p = Len(chain)
  <2>1. currentCalled' = None /\ calling' = FALSE
    BY <1>2, <1>3, <1>4
  <2>2. called' = called
    BY <1>2, <1>3, <1>4 DEF ChainInv, ChainTyped
  <2>3. \A k \in 1..Len(chain) : chain[k] \in staying => called[chain[k]] = 1
    BY <1>2, <1>4, Places DEF ChainInv, Traversed
  <2> QED
    BY <1>3, <2>1, <2>2, <2>3 DEF ChainInv, ChainTyped, CurrentIsAttached, Traversed, Passed
<1>5. CASE p # Len(chain)
  <2>1. /\ p + 1 \in 1..Len(chain) /\ Following = chain[p + 1]
        /\ Following \in Callbacks /\ Following \in Attached
    BY <1>2, <1>5, Places DEF ChainInv
  <2>2. calling' = TRUE
    BY <1>3, <2>1
  <2>3. called[Following] = 0
    BY <1>2, <2>1, Places DEF ChainInv, Traversed
  <2>4. called' = [x \in Callbacks |-> IF x = Following THEN 1 ELSE called[x]]
    BY <1>3, <2>3 DEF Again
  <2>5. ChainTyped' /\ CurrentIsAttached'
    BY <1>3, <2>1, <2>2, <2>4 DEF ChainInv, ChainTyped, CurrentIsAttached
  <2>6. \A k \in 1..Len(chain) : Passed(k)' <=> k <= p + 1
    BY <1>3, <2>1, <2>2, Places DEF ChainInv, ChainTyped, Passed
  <2>7. \A k \in 1..Len(chain) : called'[chain[k]] = IF k = p + 1 THEN 1 ELSE called[chain[k]]
    BY <2>1, <2>4, Places DEF ChainInv, ChainTyped
  <2>8. \A k \in 1..Len(chain) :
          IF k <= p THEN chain[k] \in staying => called[chain[k]] = 1 ELSE called[chain[k]] = 0
    BY <1>2 DEF ChainInv, Traversed
  <2>9. \A k \in 1..Len(chain) :
          IF k <= p + 1 THEN chain[k] \in staying => called'[chain[k]] = 1
                        ELSE called'[chain[k]] = 0
    BY <2>7, <2>8, Places DEF ChainInv
  <2> QED
    BY <1>3, <2>2, <2>5, <2>6, <2>9 DEF ChainInv, Traversed
<1> QED
  BY <1>4, <1>5

LEMMA AddStep ==
  ASSUME ChainInv, NEW x \in Callbacks, Add(x)
  PROVE  ChainInv'
<1>1. /\ x \notin Attached /\ chain' = <<x>> \o chain
      /\ called' = [called EXCEPT ![x] = 0]
      /\ UNCHANGED <<currentCalled, calling, staying>>
  BY DEF Add, common_add
<1>2. /\ chain' \in Seq(Callbacks) /\ Len(chain') = Len(chain) + 1 /\ Len(chain) \in Nat
      /\ chain'[1] = x
      /\ \A k \in 2..Len(chain) + 1 : chain'[k] = chain[k - 1]
      /\ \A k \in 1..Len(chain) : chain'[k + 1] = chain[k]
  <2>1. chain \in Seq(Callbacks) /\ <<x>> \in Seq(Callbacks) /\ Len(<<x>>) = 1 /\ <<x>>[1] = x
    BY DEF ChainInv, ChainTyped
  <2>2. Len(chain) \in Nat
    BY <2>1, LenProperties
  <2> QED
    BY <1>1, <2>1, <2>2, ConcatProperties
<1>3. \A k \in 1..Len(chain) : chain[k] # x /\ chain[k] \in Callbacks
  BY <1>1, Places DEF ChainInv
<1>4. \A j, k \in 1..Len(chain') : chain'[j] = chain'[k] => j = k
  <2> SUFFICES ASSUME NEW j \in 1..Len(chain'), NEW k \in 1..Len(chain'), chain'[j] = chain'[k]
               PROVE  j = k
    OBVIOUS
  <2> j \in Int /\ k \in Int
    BY <1>2
  <2>1. CASE j = 1 \/ k = 1
    <3>1. \A n \in 2..Len(chain) + 1 : n - 1 \in 1..Len(chain)
      BY <1>2
    <3>2. \A n \in 2..Len(chain) + 1 : chain'[n] # x
      BY <1>2, <1>3, <3>1
    <3>3. ASSUME NEW n \in 1..Len(chain'), n # 1 PROVE n \in 2..Len(chain) + 1
      BY <1>2, <3>3
    <3> QED
      BY <1>2, <2>1, <3>2, <3>3
  <2>2. CASE j # 1 /\ k # 1
    <3>1. j - 1 \in 1..Len(chain) /\ k - 1 \in 1..Len(chain)
      BY <1>2, <2>2
    <3>2. chain[j - 1] = chain[k - 1]
      BY <1>2, <2>2
    <3>3. j - 1 = k - 1
      BY <3>1, <3>2 DEF ChainInv, ChainTyped
    <3> QED
      BY <3>3
  <2> QED
    BY <2>1, <2>2
<1>5. Attached \subseteq Attached'
  <2>1. Attached' = {chain'[k] : k \in 1..Len(chain')}
    BY <1>2, AttachedAt DEF Attached
  <2> QED
    BY <1>2, <2>1, Places DEF ChainInv
<1>6. called' \in [Callbacks -> 0..1]
  BY <1>1 DEF ChainInv, ChainTyped
<1>7. ChainTyped' /\ CurrentIsAttached'
  BY <1>1, <1>2, <1>4, <1>5, <1>6 DEF ChainInv, ChainTyped, CurrentIsAttached
<1>8. \A k \in 1..Len(chain) : Passed(k + 1)' <=> Passed(k)
  <2> SUFFICES ASSUME NEW k \in 1..Len(chain)
               PROVE  (\E p \in (k + 1)..Len(chain') : chain'[p] = currentCalled)
                        <=> (\E p \in k..Len(chain) : chain[p] = currentCalled)
    BY <1>1 DEF Passed
  <2>1. \A p \in k..Len(chain) : p + 1 \in (k + 1)..Len(chain') /\ chain'[p + 1] = chain[p]
    BY <1>2
  <2>2. \A p \in (k + 1)..Len(chain') : p - 1 \in k..Len(chain) /\ chain'[p] = chain[p - 1]
    BY <1>2
  <2> QED
    BY <2>1, <2>2
<1>9. Traversed'
  <2> SUFFICES ASSUME NEW k \in 1..Len(chain')
               PROVE  IF Passed(k)' THEN chain'[k] \in staying => called'[chain'[k]] = 1
                                    ELSE called'[chain'[k]] = 0
    BY <1>1 DEF ChainInv, Traversed
  <2>1. CASE k = 1
    BY <1>1, <1>2, <2>1 DEF ChainInv, ChainTyped
  <2>2. CASE k # 1
    <3>1. k - 1 \in 1..Len(chain) /\ chain'[k] = chain[k - 1] /\ (k - 1) + 1 = k
      BY <1>2, <2>2
    <3>2. called'[chain'[k]] = called[chain[k - 1]]
      BY <1>1, <1>3, <3>1 DEF ChainInv, ChainTyped
    <3>3. Passed(k)' <=> Passed(k - 1)
      BY <1>8, <3>1
    <3> QED
      BY <3>1, <3>2, <3>3 DEF ChainInv, Traversed
  <2> QED
    BY <2>1, <2>2
<1> QED
  BY <1>7, <1>9 DEF ChainInv

LEMMA DetachStep ==
  ASSUME ChainInv, NEW x \in Callbacks, Detach(x)
  PROVE  ChainInv'
<1>1. PICK p \in 1..Len(chain) : chain[p] = x
  BY Places DEF Detach, ChainInv
<1>2. /\ chain' = RemoveAt(chain, p) /\ staying' = staying \ {x}
      /\ currentCalled' = IF currentCalled # x THEN currentCalled
                         ELSE IF p = 1 THEN None ELSE chain[p - 1]
      /\ UNCHANGED <<calling, called>>
  <2>1. IndexOf(x) = p
    BY <1>1, Indexing DEF ChainInv
  <2>2. x = ChainHead <=> p = 1
    BY <1>1, Places DEF ChainInv, ChainTyped
  <2> QED
    BY <2>1, <2>2 DEF Detach, Without, CurrentWithout, Previous
<1> DEFINE old(k) == IF k < p THEN k ELSE k + 1
<1>3. /\ chain \in Seq(Callbacks) /\ Len(chain) \in Nat /\ p \in Nat
      /\ \A j, k \in 1..Len(chain) : chain[j] = chain[k] => j = k
  BY Places DEF ChainInv, ChainTyped
<1>4. /\ chain' \in Seq(Callbacks) /\ Len(chain') = Len(chain) - 1
      /\ \A k \in 1..Len(chain) - 1 : chain'[k] = chain[old(k)]
  <2> DEFINE front == SubSeq(chain, 1, p - 1)
             back  == SubSeq(chain, p + 1, Len(chain))
  <2>1. /\ front \in Seq(Callbacks) /\ Len(front) = p - 1
        /\ \A k \in 1..p - 1 : front[k] = chain[k]
    <3>1. \A k \in 1..p - 1 : chain[k] \in Callbacks
      BY <1>3, Places DEF ChainInv
    <3> QED
      BY <1>3, <3>1, SubSeqProperties
  <2>2. /\ back \in Seq(Callbacks) /\ Len(back) = Len(chain) - p
        /\ \A k \in 1..Len(chain) - p : back[k] = chain[p + k]
    <3>1. \A k \in (p + 1)..Len(chain) : chain[k] \in Callbacks
      BY <1>3, Places DEF ChainInv
    <3>2. p + 1 \in Int /\ Len(chain) \in Int /\ Len(chain) - (p + 1) + 1 = Len(chain) - p
      BY <1>3
    <3>3. \A k \in 1..Len(chain) - p : (p + 1) + k - 1 = p + k
      BY <1>3
    <3>4. /\ back \in Seq(Callbacks)
          /\ Len(back) = IF p + 1 <= Len(chain) THEN Len(chain) - (p + 1) + 1 ELSE 0
          /\ \A k \in 1..Len(chain) - (p + 1) + 1 : back[k] = chain[(p + 1) + k - 1]
      BY <3>1, <3>2, SubSeqProperties
    <3> HIDE DEF back
    <3>5. Len(back) = Len(chain) - p
      BY <1>3, <3>4
    <3>6. ASSUME NEW k \in 1..Len(chain) - p PROVE back[k] = chain[p + k]
      <4>1. k \in 1..Len(chain) - (p + 1) + 1 /\ (p + 1) + k - 1 = p + k
        BY <3>2, <3>3
      <4> QED
        BY <3>4, <4>1
    <3> QED
      BY <3>4, <3>5, <3>6
  <2> HIDE DEF front, back
  <2>3. chain' = front \o back
    BY <1>2 DEF RemoveAt, front, back
  <2>4. /\ front \o back \in Seq(Callbacks) /\ Len(front \o back) = Len(front) + Len(back)
        /\ \A k \in 1..Len(front) + Len(back) :
             (front \o back)[k] = IF k <= Len(front) THEN front[k] ELSE back[k - Len(front)]
    BY <2>1, <2>2, ConcatProperties
  <2>5. Len(front) + Len(back) = Len(chain) - 1
    BY <1>3, <2>1, <2>2
  <2>6. ASSUME NEW k \in 1..Len(chain) - 1 PROVE chain'[k] = chain[old(k)]
    <3>1. CASE k < p
      BY <1>3, <2>1, <2>3, <2>4, <2>5, <3>1
    <3>2. CASE ~(k < p)
      <4>1. chain'[k] = back[k - (p - 1)] /\ k - (p - 1) \in 1..Len(chain) - p
        BY <1>3, <2>1, <2>3, <2>4, <2>5, <3>2
      <4>2. p + (k - (p - 1)) = k + 1
        BY <1>3
      <4> QED
        BY <2>2, <3>2, <4>1, <4>2
    <3> QED
      BY <3>1, <3>2
  <2> QED
    BY <2>3, <2>4, <2>5, <2>6
<1>5. ASSUME NEW k \in 1..Len(chain')
      PROVE  /\ old(k) \in 1..Len(chain) /\ old(k) # p /\ chain'[k] = chain[old(k)]
             /\ chain'[k] # x /\ chain'[k] \in Callbacks /\ k \in Nat
  <2>1. k \in 1..Len(chain) - 1
    BY <1>4
  <2>2. old(k) \in 1..Len(chain) /\ old(k) # p
    BY <1>3, <2>1
  <2> HIDE DEF old
  <2> QED
    BY <1>1, <1>3, <1>4, <2>1, <2>2, Places DEF ChainInv
<1>6. \A j, k \in 1..Len(chain') : chain'[j] = chain'[k] => j = k
  <2> SUFFICES ASSUME NEW j \in 1..Len(chain'), NEW k \in 1..Len(chain'), chain'[j] = chain'[k]
               PROVE  j = k
    OBVIOUS
  <2>1. old(j) \in 1..Len(chain) /\ old(k) \in 1..Len(chain) /\ chain[old(j)] = chain[old(k)]
    BY <1>5
  <2>2. old(j) = old(k)
    BY <1>3, <2>1
  <2> QED
    BY <1>3, <1>5, <2>2
<1>7. Attached' = Attached \ {x}
  <2>1. Attached' = {chain'[k] : k \in 1..Len(chain')}
    BY <1>4, AttachedAt DEF Attached
  <2>2. ASSUME NEW n \in 1..Len(chain), n # p
        PROVE  \E k \in 1..Len(chain') : chain'[k] = chain[n]
    <3>1. CASE n < p
      BY <1>3, <1>4, <1>5, <3>1
    <3>2. CASE n > p
      <4>1. n - 1 \in 1..Len(chain') /\ old(n - 1) = n
        BY <1>3, <1>4, <3>2
      <4> QED
        BY <1>5, <4>1
    <3> QED
      BY <1>3, <2>2, <3>1, <3>2
  <2> HIDE DEF old
  <2> QED
    BY <1>1, <1>5, <2>1, <2>2, Places DEF ChainInv
<1>8. ASSUME NEW k \in 1..Len(chain') PROVE Passed(k)' <=> Passed(old(k))
  <2>1. CASE calling = FALSE
    BY <1>2, <2>1 DEF Passed
  <2>2. CASE calling = TRUE
    <3>1. PICK q \in 0..Len(chain) :
            /\ IF q = 0 THEN currentCalled = None ELSE chain[q] = currentCalled
            /\ \A n \in 1..Len(chain) : Passed(n) <=> n <= q
      BY <2>2, NextPlace
    <3> DEFINE r == IF q >= p THEN q - 1 ELSE q
    <3>2. r \in 0..Len(chain')
      BY <1>3, <1>4
    <3>3. IF r = 0 THEN currentCalled' = None ELSE chain'[r] = currentCalled'
      <4>1. CASE q = p
        BY <1>1, <1>2, <1>3, <1>4, <3>1, <4>1
      <4>2. CASE q # p
        <5>1. currentCalled' = currentCalled
          BY <1>1, <1>2, <1>3, <3>1, <4>2
        <5>2. q # 0 => r # 0 /\ r \in 1..Len(chain) - 1 /\ old(r) = q
          BY <1>3, <4>2
        <5>3. q = 0 => r = 0
          BY <1>3
        <5> HIDE DEF old, r
        <5> QED
          BY <1>4, <3>1, <5>1, <5>2, <5>3
      <4> QED
        BY <4>1, <4>2
    <3>4. k <= r <=> old(k) <= q
      BY <1>3, <1>5
    <3> HIDE DEF r, old
    <3>5. (\E n \in k..Len(chain') : chain'[n] = currentCalled') <=> k <= r
      BY <1>4, <1>6, <3>2, <3>3, Reached
    <3> QED
      BY <1>2, <1>5, <2>2, <3>1, <3>4, <3>5 DEF Passed
  <2> QED
    BY <2>1, <2>2 DEF ChainInv, ChainTyped
<1>9. currentCalled' \in Attached' \cup {None} /\ (calling = FALSE => currentCalled' = currentCalled)
  <2>1. CASE currentCalled # x
    BY <1>2, <1>7, <2>1 DEF ChainInv, CurrentIsAttached
  <2>2. CASE currentCalled = x
    <3>1. p # 1 => chain[p - 1] \in Attached /\ chain[p - 1] # x
      <4> SUFFICES ASSUME p # 1 PROVE chain[p - 1] \in Attached /\ chain[p - 1] # x
        OBVIOUS
      <4>1. p - 1 \in 1..Len(chain) /\ p - 1 # p
        BY <1>3
      <4> QED
        BY <1>1, <1>3, <4>1, Places DEF ChainInv
    <3> QED
      BY <1>2, <1>7, <2>2, <3>1 DEF ChainInv, Traversed
  <2> QED
    BY <2>1, <2>2
<1> HIDE DEF old
<1>10. ChainTyped'
  BY <1>2, <1>4, <1>6, <1>7, <1>9, Places DEF ChainInv, ChainTyped
<1>11. Traversed'
  BY <1>2, <1>5, <1>8, <1>9 DEF ChainInv, Traversed
<1> QED
  BY <1>9, <1>10, <1>11 DEF ChainInv, CurrentIsAttached

LEMMA ClearStep == ASSUME ChainInv, Clear PROVE ChainInv'
<1>1. /\ calling = FALSE /\ chain' = <<>> /\ staying' = {}
      /\ UNCHANGED <<currentCalled, calling, called>>
  BY DEF Clear, ChainInv, ChainTyped
<1>2. currentCalled = None
  BY <1>1 DEF ChainInv, Traversed
<1>3. chain' \in Seq(Callbacks) /\ Len(chain') = 0
  BY <1>1
<1> QED
  BY <1>1, <1>2, <1>3 DEF ChainInv, ChainTyped, CurrentIsAttached, Traversed

LEMMA ChainInitially == ChainInit => ChainInv
<1> SUFFICES ASSUME ChainInit PROVE ChainInv
  OBVIOUS
<1>1. chain \in Seq(Callbacks) /\ Len(chain) = 0
  BY DEF ChainInit
<1>2. called \in [Callbacks -> 0..1]
  BY DEF ChainInit
<1>3. currentCalled = None /\ calling = FALSE /\ staying = {}
  BY DEF ChainInit
<1>4. ChainTyped
  <2>1. calling \in BOOLEAN
    BY <1>3, Zenon
  <2> QED
    BY <1>1, <1>2, <1>3, <2>1 DEF ChainTyped
<1>5. CurrentIsAttached /\ Traversed
  BY <1>1, <1>3 DEF CurrentIsAttached, Traversed
<1> QED
  BY <1>4, <1>5 DEF ChainInv

LEMMA ChainStep == ASSUME ChainInv, [ChainNext]_chainVars PROVE ChainInv'
<1>1. CASE UNCHANGED chainVars
  <2>1. \A k : Passed(k)' <=> Passed(k)
    BY <1>1 DEF chainVars, Passed
  <2> QED
    BY <1>1, <2>1 DEF chainVars, ChainInv, ChainTyped, CurrentIsAttached, Traversed, Attached
<1> QED
  BY <1>1, CallStep, ReturnStep, AddStep, DetachStep, ClearStep DEF ChainNext

(* The inductive invariant of the call chain. *)
THEOREM ChainKept == ChainSpec => []ChainInv
<1>1. ChainInv /\ [ChainNext]_chainVars => ChainInv'
  BY ChainStep
<1> QED
  BY ChainInitially, <1>1, PTL DEF ChainSpec

(* Whatever is detached while the chain is called, call() goes on from an  *)
(* object of the chain.                                                    *)
THEOREM CurrentStaysAttached == ChainSpec => []CurrentIsAttached
<1>1. ChainInv => CurrentIsAttached
  BY DEF ChainInv
<1> QED
  BY ChainKept, <1>1, PTL

(* However many callbacks there are and however the chain changes, none is *)
(* called twice in a traversal and those that stay are called, in order.   *)
THEOREM CalledOnce == ChainSpec => []EachOnce
<1>1. ChainInv => EachOnce
  <2> SUFFICES ASSUME ChainInv PROVE EachOnce
    OBVIOUS
  <2>1. \A x \in Callbacks : called[x] <= 1
    BY DEF ChainInv, ChainTyped
  <2>2. \A x \in staying : x \in Callbacks /\ IndexOf(x) \in 1..Len(chain) /\ chain[IndexOf(x)] = x
    BY Places, Indexing DEF ChainInv, ChainTyped
  <2>3. ~calling => \A x \in staying : called[x] = 1
    BY <2>2 DEF ChainInv, ChainTyped, Traversed, Passed
  <2>4. ASSUME NEW x \in staying, NEW y \in staying, IndexOf(x) < IndexOf(y), called[y] = 1
        PROVE  called[x] = 1
    <3>1. Passed(IndexOf(y))
      BY <2>2, <2>4 DEF ChainInv, Traversed
    <3>2. Passed(IndexOf(x))
      BY <2>2, <2>4, <3>1, Places DEF ChainInv, Passed
    <3> QED
      BY <2>2, <3>2 DEF ChainInv, Traversed
  <2> QED
    BY <2>1, <2>3, <2>4 DEF EachOnce
<1> QED
  BY ChainKept, <1>1, PTL
=============================================================================
