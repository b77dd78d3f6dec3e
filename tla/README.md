# I-Mob: models and proofs

I-Mob is an immobiliser for a vehicle: an nRF51822 with a Bluetooth LE
peripheral that the owner's phone connects to, a relay that cuts the vehicle
off, and inputs for the ignition contact, the battery, its charger and an
accelerometer. This directory holds TLA+ modules translated from its source
under `src/`, TLC configurations that check them on small instances, and
theorems about them that TLAPS proves for every value of the constants.

`PROJECT.json` maps every definition to the lines it translates and lists the
runs, the mutants (one deliberate fault for every property, which the property
must notice), the hazards and the theorems.

## 1. The system

### How it runs

There are two threads of control. The **main thread** runs `main()`: it calls
`ble.waitForEvent()`, which drains the SoftDevice's events and runs the
application's callbacks for each, then sleeps until any interrupt has been
taken; then it runs the body of the loop once and comes back. The **timer
interrupt** runs the callbacks of mbed `Ticker`s: the relay's sequencer and an
80 ms blinker which, among other things, wakes the main thread. The
**SoftDevice** (radio stack, a binary) queues events and raises an interrupt
whose handler only sets a flag.

There are no locks anywhere. What keeps the program right is the order of
things: flags that are tested and cleared in the right order, one flag that
keeps the main thread and the interrupt apart, and the order of callbacks on a
chain, which is the reverse of the order in which they were registered.

### Components

| Component | State | Operations | Interacts with | Hard part | Correct when | Status |
|---|---|---|---|---|---|---|
| `RELAYService.h` | relayState (and pin), Ctr12v pin, activation_in_progress, waitTicker | activate, internalUpdateRelaystate, flipCtr12v, onDataWritten, onDisconnectionFilter | main loop and BLE callbacks call activate(); Ticker interrupt runs the rest; resets ImobStateService | two threads, one re-used self-re-arming Ticker | one activation is one complete cycle; no request is refused for ever | modelled |
| `ImobStateService.h` | authenticated, activated, userIsConnected, initial_activation, passUpdated, nonceUpdated, pass, nonce, recentMac | onConnectionFilter, onDataWritten, onDisconnectionFilter, resetAuthenticationValues, updateActivationValue | callbacks of the Gap and GattServer chains; read by relay, alarm and main loop | state of one session must not reach the next | authentication belongs to its session; protection is turned off by its owner only | modelled |
| `crypt.h` | m_ecb_data (key, nonce, counter) | ctr_init, crypt, nonce_generate | used by ImobStateService | shared counter; waiting for random bytes | encryption and decryption use the same blocks; a nonce is random in all its bytes | modelled |
| `main.cpp` | round robin, counters of forced disconnection and activation, calibration | body of the loop, disconnectionCallback, bleInitComplete | everything | runs between callbacks, only when no event is left | see the properties of ImobSession, PowerGauges and AlarmWatch | partly |
| event dispatch (`nRF5xn.cpp`, `btle.cpp`, `softdevice_handler.c`) | isEventsSignaled, both queues, the drain's locals | interrupt handler, waitForEvent, drain, btle_handler | SoftDevice, callback chains | interrupt between any two steps | no event is forgotten, no sleep over one | partly |
| Gap, GattServer, CallChain of `BLE_API` | chains, Gap state | registration, dispatch, detach during a call | services register, btle_handler dispatches | order of callbacks; a list that changes under its traversal | see WalkAway, ClosedBeforeAdvertising, EachOnce | partly |
| `InternalValuesService.h`, `BatteryService.h` | charger state, cycle counters, level | update and increment functions | called by the main loop only | numeric edges, rounds | counts are of whole rounds; levels are percentages | partly |
| `ALARMService.h`, `AccelSensorService.h`, `AccelSensor` | alarmState, last acceleration | updateAlarmState, onDataWritten, updateAccelDetection | main loop, writes | narrowing to a byte; lost detections | movement under protection raises the alarm, and nothing else does | alarm modelled, accelerometer partly |
| `nRF5xGattServer`, `nRF5xGap` | attribute table, connection handle | write, hwCallback, startAdvertising, disconnect | all services | notification fails, table keeps the old value | peers read what the program last wrote; what was reported as sent arrives | partly |
| `pstorage` (SDK) | command queue, state of the current command, flash and swap page | store, update, clear, events of flash operations, init | SoftDevice flash; application callback | swap and restore, retries, other users of the flash | what is notified is stored, nothing else changes | partly |
| `app_scheduler` (SDK) | ring buffer with two indices | put, execute | interrupts and main thread | slots filled outside the critical region | it is a queue | scheduler modelled |
| GATT client, security manager, device_manager, fstorage, fds, peer_manager, HCI pool | - | - | SDK code; unused by this program or without effect in it | - | - | not modelled |
| mbed, mbed TLS, SoftDevice images, bootloader | - | - | platform headers and binaries | - | - | not modelled |

## 2. The modules

| Module | What it is |
|---|---|
| `RelayCycle` | abstract: what one activation of the relay promises |
| `RelaySequencer` | RELAYService, interrupt and main thread interleaved; implements RelayCycle |
| `RelaySequencerProofs` | theorems about it |
| `EventPump` | from the SoftDevice's queues to the callbacks: flag, drain, sleep |
| `CtrCrypt` | the counter-mode cipher of crypt.h |
| `ImobStateService` | the state of a session and its callbacks, as operators |
| `ImobSession` | composes ImobStateService, the relay (RelayCycle without times), the callback chains, the main loop and the radio |
| `ImobSessionProofs` | theorems about it |
| `PowerGauges` | battery, charger and cycle counters of the main loop |
| `PowerGaugesProofs` | theorems about it |
| `GattTable` | one write of a characteristic: attribute, notification, and the SoftDevice's refusals |
| `GattTableProofs` | theorems about it |
| `AlarmWatch` | accelerometer, detection and alarm |
| `AlarmWatchProofs` | theorems about it |
| `NonceGenerate` | the loop that collects a nonce |
| `CallChain` | the list of callbacks, changed while it is called |
| `DispatchProofs` | theorems about EventPump, CallChain and NonceGenerate |
| `Pstorage` | the flash storage of the SDK |
| `PstorageProofs` | theorems about it |
| `FifoQueue` | abstract: a bounded queue with one event in hand |
| `AppScheduler` | the SDK's event queue with interrupts; implements FifoQueue |
| `AppSchedulerProofs` | theorems about it |
| `MC*` | the instances for TLC |

In each module a section "Faults a change to the source could introduce" holds
the operators the mutants put in the place of others. No action uses them.

### RelayCycle and RelaySequencer

`RelayCycle` has a phase (`idle`, `leadIn`, `energised`, `leadOut`) and the
time spent in it. A phase ends no sooner than its minimum; a request during a
cycle changes nothing. In particular it is dropped, not remembered.

`RelaySequencer` has the variables of the class. `activate()` is one step per
access to shared state, five in all: the guard, the supply's pin, the flag,
the Ticker's function, the Ticker's timer. `internalUpdateRelaystate` and
`flipCtr12v`, as Ticker callbacks, are one atomic step each, because the main
thread cannot interrupt the timer interrupt. A Ticker that fires has already
re-armed itself; it may be late by any time but never early. The refinement
mapping reads the phase off the pins and the Ticker's function (`Phase`) and
the time off the Ticker (`Elapsed`).

### EventPump

One step per test or assignment of `waitForEvent()` and of the drain; the
SoftDevice may post and both kinds of interrupt may be taken between any two.
`eventRegister` is the hardware's memory of an interrupt that makes
`sd_app_evt_wait()` return at once (`nrf_soc.h:678-701`). `noMore` holds the
drain's two locals: a queue once found empty is not looked at again.

### ImobStateService, CtrCrypt and ImobSession

`ImobStateService` has one operator per callback, as the part of an action
that changes its variables. A write of the wrong length fails every test of a
length and counts as a write to another characteristic. `CtrCrypt` keeps of a
buffer its text and the set of key-stream blocks still XORed in: XORing the
same block twice removes it. A decryption therefore yields the text only if it
uses the block of the encryption.

`ImobSession` keeps apart what the radio knows (`link`) and what the
application has been told (`evq`, the events that wait). An event is pulled
(`PullEvent`), its chain of callbacks is run one callback per step in the
reverse order of registration, then the next is pulled. When none is left,
`QueueEmpty` and `Body` follow, and events may arrive before the body runs:
`Body` decides on what the application knows, not on the link. A drain that
missed an event because it looked at the queue too early is the same as that
event arriving after `QueueEmpty`. `presented` is history: the peer has
written the correct password since it connected.

Left out here are the characteristics, which mirror the state (what a write to
one does is GattTable), and ALARMService, which reads some of the state and
changes none (AlarmWatch): its callback for writes runs before the two that are
modelled.

### PowerGauges

One run of the body reads one of three inputs. A reading is an integer part of
full scale and the calibration constant is kept as the level it was taken at.
A conversion to a byte that C++ leaves undefined (infinite, not a number, too
large) may give any byte. Float rounding is left out.

### GattTable

The attributes, the link and the transmit buffers belong to the SoftDevice and
run ahead of the program, whose `m_connectionHandle` follows the events. One
`Write` is one call of `nRF5xGattServer::write()`: `HvxError` is the
SoftDevice's answer, `AfterHvx` what that answer does to the attribute (both
external, from `ble_gatts.h:495-498`), `Stored` and `ReturnValue` what the
switch of the program makes of it. For an error the switch does not name it
sets the attribute by itself, with the handle that was just refused; the
SoftDevice may refuse that too when the connection is gone (`ble_gatts.h:459`,
`Refusals`), and then the attribute stays as it was and `write()` returns
`BLE_ERROR_PARAM_OUT_OF_RANGE`. No handle at all is accepted
(`ble_gatts.h:447`). Characteristics without notification take the branch of a
local write. A service may write in answer to a write or from the main loop.
Setting the system attributes may be refused for want of time
(`ble_gatts.h:597`); the program ignores that (`nRF5xGattServer.cpp:412`), and
`attrsBusy` remembers it. `latest` (without refused writes), `byServer`,
`told` and `attrsBusy` are history.

### AlarmWatch

One `Run` is the part of the loop's body from `readData()` to the alarm. The
decoding of registers (left aligned, made negative by hand) and the narrowing
to a byte are done as the code does them. Authentication and activation change
at any time between runs: ImobSession says how. `sample`, `before` and
`streak` are history.

### NonceGenerate and CallChain

One step of `NonceGenerate` is one iteration of the loop; the SoftDevice's pool
may fill between any two. `CallChain` is the traversal of
`CallChainOfFunctionPointersWithContext` with `currentCalled`: while a callback
runs, it may attach and detach callbacks, itself and the next one included.

### FifoQueue and AppScheduler

`AppScheduler` runs `app_sched_event_put()` in two steps, the critical region
that claims a slot and the filling outside it, in every interrupt level and in
the main thread; a context runs only while no higher one is inside. The
refinement mapping counts a claimed slot as filled (`Content`), because nobody
can take it before its owner has come back. The event being handled stays in
its slot although the start index has passed it.

### Pstorage

The static variables of `pstorage.c` are the record `m`, with the flash
operation the SoftDevice is at. An entry action issues an operation or, when
another user's operation is under way, leaves the busy mark. The operators
have the transitions of the functions they are mapped to, one for one:
`SwapEntry`, `AfterDataPageErase`, `AfterHeadRestore`, `TailWords`. Flash words
hold which command wrote them; a write over a word that is not erased mixes the
two, and a word knows its place, so that a restore to the wrong page shows. A
failed operation could not be started and leaves the flash as it was. A notified
application may enqueue the next command from inside its callback.

The end of an operation and its event are two steps, whoever asked for it.
`OperationEnds` is the SoftDevice's: the flash is free again and exactly one
event is posted (`nrf_soc.h:845-848`). `PullEnd` is the main thread's: it pulls
the oldest waiting event and runs `pstorage_sys_event_handler()` on it.
Anything may happen between the two: others begin and end operations, the
application asks for more. An event does not say whose operation ended; `own`
in `ends` knows it, and only history depends on it.

So the model shows what the code cannot tell apart. After another's operation
has ended, and before its event is pulled, a request of the module is accepted
at once and leaves no busy mark; the event that waits is then taken for the
end of the module's own operation. A success notifies a store that is not done
yet, although `pstorage.h:81-82` says that the event tells whether the
operation succeeded; a failure costs a try; and a swap page that was to be
erased may be written unerased. `overtaken` is history: it becomes true when a
request is accepted with another's event waiting. What is claimed of the
contents of the flash, and of tries, is claimed for runs in which it is false;
that commands end, and the ranges of the variables, in all runs. In this
program it is always false, because nobody but pstorage calls the flash
functions of the SoftDevice (`fstorage.c` is never called). Refusals other than
busy (`pstorage.c:344-347`: a wrong length, an address that does not exist or
is protected) are left out.

## 3. The runs

| Run | Question | Instance and bounds |
|---|---|---|
| `relay_sequencer` | Is one activation one complete cycle that ends, however the interrupt falls? | 100 ms and 120 s in units of 100 ms: CtrTime 1, RelayTime 1200, the values of the source |
| `event_pump` | Is an event ever forgotten or slept over? | 4 events in each queue: enough for events before, during and after a drain of either queue, with a second wake-up |
| `session_safety` | Who is authenticated, what does the next peer find, when does the relay start? | 2 peers, a correct and a wrong password, 1 generated nonce, both times 1 run, a peer writes while fewer than 2 events wait |
| `session_liveness` | Advertising, walk-away, forced disconnection and activation | 1 peer, writes while no event waits |
| `power_gauges` | Do levels fit, do reports count whole rounds? | readings in quarters, at most 6 cycles counted before the charger is found elsewhere |
| `battery_level` | Is the level a percentage? It is not | as above, 3 cycles |
| `gatt_table` | Does every update reach the attribute, and every accepted one the central? | 1 notified and 1 indicated characteristic, 2 values, 1 transmit buffer, 2 events not yet handled |
| `alarm_watch` | What does a detection say, and when is the alarm raised? | 2 axes, 6 measurements on both sides of 0, of the threshold and of a multiple of 256 |
| `nonce_generate` | Is a nonce random in every byte, and once? | 12 bytes of the source, a pool of 8: it must be asked more than once |
| `call_chain` | May callbacks detach while the chain is called? | 4 callbacks, 4 changes in one traversal |
| `app_scheduler` | Is the ring buffer a queue? | 3 events and the spare slot, 2 interrupt levels above the main thread |
| `pstorage` | Is what was notified stored, and is everything else kept? | 3 pages of 6 words, 8 blocks of 2, queue of 2, 2 tries, 2 commands of 9 kinds, others begin while fewer than 2 events wait |

Why the bounds of the session suffice: a second peer is needed for the nonce
that outlives a session; two queued writes plus a disconnection put a write
both before and after every callback; a time of one run of the body lets both
counters reach their limit, pass it and restart. The proofs of section 5 hold
for any values of these constants. One buffer and one indication in
flight are what makes the SoftDevice refuse; four callbacks let one be removed
before, at and after the current one while one stays. Three pages of pstorage
make room for a page with a head, one erased whole and one with a tail, and the
last one is not full; of two commands the second is enqueued while the first
waits, works, or is being notified; two events that wait let the event of
another's operation stand before or behind the module's own, or two of another's
stand in a row; two tries instead of the source's three are one repetition and
the giving up. Run `pstorage` compares states by the view `MCView`: once a
request was overtaken, no property reads the flash, what was promised of it or
what was counted of notices and failures, and no step's guard does; states that
differ in nothing else are taken for one.

Every run but `battery_level` passes. **Properties worth naming:**

- `NoInterruptInsideActivate`: shared state needs no lock, because a timer is
  never armed while the main thread is inside `activate()`.
- `FlagHasTimer`: the flag that refuses requests has a timer behind it that
  will clear it.
- `ImplementsRelayCycle`: the sequencer implements the abstract cycle with its
  times and its fairness.
- `NoStrandedEvent`, `NoSleepOnSignal`, `EveryEventHandled`: events are
  announced until they are handled, and need no help of another interrupt.
- `AuthenticationIsOfThisSession`: an authenticated peer is connected, and
  presented the password since it connected.
- `ClosedBeforeAdvertising`: the next peer can only connect when every event of
  the last session is handled and its state is reset. This is due to the main
  program's callback being registered first, and so called last.
- `WalkAway`: when an authenticated peer's link goes down with the protection
  on and the relay at rest, the relay is energised. This is due to the relay's
  callback running before that of ImobStateService.
- `ReportsWholeRounds`: a reported cycle count is a positive multiple of three.
- `WritesLand`, `NothingLostSilently`: most callers ignore what `write()`
  returns. The attribute is set whatever the SoftDevice answers, but for one
  case: on a link that broke before the program knows, a write may be refused
  twice. It then returns `BLE_ERROR_PARAM_OUT_OF_RANGE`, the callers do not
  look, and the attribute keeps the older value until the next write. Callers
  that look can rely on it: what was accepted and not overwritten has reached
  the central or is about to.
- `AskingIsAnswered`: a central that writes a CCCD too early is answered, unless
  the SoftDevice was busy when it was to set the system attributes; nothing
  repeats that call.
- `DetectionIsMovement`, `AlarmIsFresh`, `AlarmWithinRound`: narrowing to a byte
  confuses values on both sides of a multiple of 256, and nothing else; the
  alarm is raised by a movement of that very run; and although two runs in
  three are not looked at, movement in three runs in a row is noticed.
- `CurrentIsAttached`, `EachOnce`: a traversal never goes on from a callback
  that has been removed, calls none twice, and misses none that stays.
- `ImplementsQueue`: events are handled in order, each once, unchanged, although
  interrupts claim and fill slots outside each other's critical regions.
- `KeptInFlash`: while pages are erased, everything the command does not cover
  is on its page or in the swap page. `NotifiedIsStored`: when the application
  is told of a success, the flash holds exactly what the commands in their order
  make of it, whatever was retried. `GivenUpAfterTries`: another user of the
  flash that is served first, or fails, costs no try. These three hold as long
  as no request was overtaken (section 2). `EveryCommandEnds` has no such
  condition: whosever events the module takes for its own, a command ends or is
  given up, if others leave the flash free now and then.

**One finding.** `BatteryService.h:48-49` says of levels: "Valid values lie
between 0 and 100, anything outside this range will be ignored." The function
stores and publishes whatever it is given, and after the calibration in
`main.cpp:191` any reading above the one taken when the charger first said
"full" gives more than 100. Run `battery_level` shows the shortest such case.

## 4. Fairness

- RelaySequencer: the main thread runs on once it is inside `activate()`, time
  passes, a pending timer interrupt is taken. Nobody has to call `activate()`.
- EventPump: the main thread runs whenever it can and the SoftDevice's interrupt
  is taken. Nothing is assumed of other interrupts.
- ImobSession: the main thread runs (it is woken at least every 80 ms by the
  ticker of `main.cpp:130`, so that the body follows a drain that ends), the
  relay's timer fires, and a link that the application asked to close goes
  down (the SoftDevice's supervision timeout at the latest). Nothing is
  assumed of peers.
- GattTable: the program handles the events that wait, and the SoftDevice
  completes a central's request once it can.
- NonceGenerate: the loop runs on, and the generator keeps producing.
- CallChain: callbacks return.
- AppScheduler: an interrupt that put an event runs on, and interrupts leave the
  main thread time to get and to finish an event (strong fairness, since they
  take it away again and again).
- Pstorage: the SoftDevice ends the operations it accepts, in success or failure,
  and the program pulls the events that wait (EventPump).

A peer that writes without pause can keep the drain from ending, so two
liveness properties state their condition: `UnauthenticatedPeerIsCut` holds if
the body runs again and again, `ActivatedAtLast` if it does so without a user.
Nothing keeps another user of the flash from beginning an operation whenever
one ends, so `EveryCommandEnds` states `OthersYield`: the flash is found free at
the pull of an event again and again, or others stop using it.
`AskingIsAnswered` excepts a connection whose system attributes were refused by
a busy SoftDevice. What these conditions exclude, the code does not survive.
The times of `DISCONNECTION_TIME` and `AUTHENTICATION_TIME` count runs of the
body, and any interrupt causes one: they are upper bounds in seconds only when
nothing but the 80 ms ticker wakes the device.

## 5. The proofs

All theorems hold for any constants that satisfy the named assumptions
(`TimesAreDurations`, `BoundedPosting`, `SessionValues`, `SessionBounds`,
`GaugeBounds`, `Tables`, `AlarmInputs`, `NonceBounds`, `SchedulerConstants`,
`Layout`, `ValidRequests`).

**RelaySequencerProofs.** The properties are not inductive: nothing in
`NoInterruptInsideActivate` says why a timer cannot be armed by the time the
main thread is at the next step. `IInv` enumerates the *situations* the
program can be in (at rest, at each step of activate(), in each phase of the
cycle) with the values of all variables in each; every action leads from one
situation to another. From it follow `TypeCorrect`, `NoOverlap`,
`RelaySupplied`, `FlagBacked`, and `RefinesRelayCycle`: initial states map to
initial states and every step to a step of the abstract cycle or a stutter.

**ImobSessionProofs.** That authentication is local to a session depends on
what is on its way: a connection may wait in the queue while callbacks of the
last session run only if the program advertised too early. `IInv` therefore
says that a connection is always first in the queue and finds the session
closed, that a disconnection is always last and the link is down, and which
callbacks are left on the chain, with what those before them have done. From
it follow `AuthenticationIsLocal`, `ClosedFirst`, `ForcedOnce`, `OwnerOnly`
and `CutOffWhenActivated`. `OwnerIsLetIn` needs no invariant but the lemma
`RoundTrip` about the cipher. `TypeCorrect` is separate, by itself inductive,
and bounds both counters of the main loop.

**PowerGaugesProofs.** `Rounds` says how far a counter is ahead of whole rounds:
by the inputs read since the charger, while the charger is in its state, and
not at all otherwise. A report is made when the charger is read, where the
counter of the state that ends is exactly at a whole round (`WholeRounds`).

`GaugeTypes` needs a bound on each counter that depends on where the loop is in
its round (`Limit`), and that a quotient below 256 is a byte (`Quotient`).

**GattTableProofs.** `WritesLand` is nearly inductive: its core is
`StoredOrRefused`, that the SoftDevice or the fallback sets the attribute or
else `write()` says that neither did.
`NothingLostSilently` is not: an older update might be received after the
newest. `Assured` says of the updates on their way that the *newest* carries
the value; `SendingIt`, `SendingAnother` and `Receiving` say what appending to
and taking from the queue do to that. `Landed` and `Delivered` follow.

**AlarmWatchProofs.** `IInv` relates the bytes to the full measurements (`Kept`),
the detection to the bytes of the last two (`Detected`), and says after how
many runs of a streak, and at which input, the alarm must be up (`Watched`).
The lemma `Narrowing` is the arithmetic: with the same quotient by 256, values
differ as their bytes do. `DetectionMeans`, `RoundRaises` and `RaisedFresh`
follow, for any axes and any measurements.

**DispatchProofs.** Of EventPump: `PumpInv` adds two facts to the properties: the flag stays up
between its test and its clearing, which are two steps (`SignalStaysUp`), and
from the moment the flag was looked at until the sleep, whoever raises it also
leaves the mark that ends the sleep (`SignalWakes`). From it follow
`TypeCorrect`, `NothingStranded` and `NeverSleepsOnSignal`, for any number of
events.

Of CallChain: that the traversal stands at an attached object says nothing of
what it has left behind or has before it. `Traversed` says what has been called
by where it stands in the list: nothing behind the current object, and
everything at or before it that has been there since the traversal began. For
it to be kept, `detach()` has to step `currentCalled` back to exactly the
object in front, and to none in front of the head, and an attached callback has
to become the head. `CurrentStaysAttached` and `CalledOnce` follow, for any
number of callbacks and changes.

Of NonceGenerate: index and remainder add up to the end of the block
(`Meeting`), so that the regions set by the iterations follow each other:
`NonceTypes`, `SetOnce`, `WholeNonce`.

**AppSchedulerProofs.** For any queue of up to 255 events: `next_index()` returns
a byte, so the indices of a longer queue would wrap. `Shape` says that the slot in use lies just behind the
queue, that claimed slots lie in it, and that every other slot of it holds an
event; with it `PutsApart` is inductive. `SchedulerIsQueue` shows every step to
be one of the abstract queue or a stutter: a put appends (`Appended`), a fill
changes nothing that counts (`FillRefines`), a get takes the head
(`Shortened`).

**PstorageProofs.** Whether an erase loses a word depends on what was copied
two operations before, and on whether five variables still say where the copy
belongs; so neither `KeptInFlash` nor `NotifiedIsStored` is inductive. `PInv`
says, of every state of the machine:

- `Control`: the page, the head and tail still to be restored and the two flags,
  as functions of the command and of the sub-state;
- `Holds`: which words of the area are done (`Done`), untouched (`Intact`),
  erased (`Blank`), and which are in the swap page instead (`Saved`);
- `Ready`: a queued store finds its words erased by what is ahead of it;
- `Issued`: the operation under way is the one this state asks for *with what the
  flash holds now*, or the busy mark is set and the flash is free or somebody
  else's. This is why a repeated operation repeats the same thing;
- `Waits`: between the end of the module's operation and the pull of its event,
  some earlier flash made the first three true (`Settled`), and the flash is what
  the operation made of it, or that same one after a failure;
- `Agree`: either the first waiting event is the module's own, all others are not,
  and `Waits` holds, or none is, and `Issued` holds; an operation of the module is
  only under way with no event waiting;
- `Tries`: retries and failures agree.

All of this but `Control` is lost when a request is overtaken, and is claimed
only for `overtaken = FALSE`. What remains in every run is `Coherent`: ranges,
`Control` and that a machine at work has an operation under way or an event to
come. It does not depend on what the flash holds, so it is not proved a second
time: every step is compared with the step of a *twin*, the same machine on a
blank flash, to which the lemmas about the seven operations apply (`Twins`,
`BareTwin`).

The lemmas are in the order of the argument: where a command's words lie, by
page, head and tail (`Geometry`, `TailGeometry`, `HeadGeometry`; this is where
`Layout` enters, blocks that do not cross pages); what an operation makes of the
words (`ErasedPage`, `WrittenWords`, `CopiedWords`); that the entry of each state
issues an operation its `Holds` is true for (`EnterGoes`, `SwapGoes`,
`ProcessGoes`); what follows each of the seven operations (`AfterEach`); that the
queue stays ready (`ReadyAppend`, `ReadyTail`). `Step` puts them together for the
actions. Erasing one page with a swap is the long case: a page may have a head, a
tail, both or neither, be the first, the last or the only one of the command, and
the last page of the area may not be full. From `PInv` follow `NeighboursKept`,
`SuccessIsTrue` and `TriesCounted`, as long as no request was overtaken, and
`MachineTyped`, which bounds the variables in every run and says that no word is
programmed over another value before a request was overtaken. They hold for any size of
pages and blocks, any length of the queue, any number of tries and any valid
requests, in particular for the 256 words and the single data page of this
program, which no run can enumerate. `PInv` was checked on the instance of run
`pstorage` before it was proved.

`EveryCommandEnds` itself needs fairness and stays with TLC, but what it rests
on is proved, whosever events the module takes for its own: `OperationUnderWay`,
that the module at work has an operation under way, its own or another's, or an
event to pull; and `OperationsAdvance`, that an event taken for a success ends
the command or raises its `Position`, which counts pages and the operations on a
page and is bounded by `LastPosition`, and that no other step moves it. A
command takes at most `5 * NumPages + 6` events for successes, and fewer than
`SD_CMD_MAX_TRIES` for failures (`PstorageKept`), or is given up.

Only model-checked: everything temporal that needs fairness
(`CycleEnds`, the fairness part of `ImplementsRelayCycle` and of
`ImplementsQueue`, `EveryEventHandled`, `AdvertisesAgain`, `WalkAway`,
`UnauthenticatedPeerIsCut`, `ActivatedAtLast`, `AskingIsAnswered`, `NonceEnds`,
`TraversalEnds`, `EveryCommandEnds`), which is out of the prover's reach. Every
invariant and every action property that a passing run checks is proved.

## 6. Not modelled

Of what the program runs: start-up (the models begin with advertising and the
main loop), failures inside the SoftDevice other than those of section 2, calls
into the SoftDevice from the timer interrupt (its rules for nested calls are
not in the repository), the accelerometer's registers and modes, float
rounding, Gap's connection counter, and the building of the attribute table. A
failing `startAdvertising()` (`main.cpp:60` ignores it, and nothing calls it
again) and the error returns of `crypt()` (`crypt.h:95-104`, which
cannot happen after a `ctr_init()` with the SoftDevice enabled) are among them.

Of what is in the tree but not run by the program:

- GATT client and service discovery: the device is a peripheral and never
  discovers anything; on a disconnection there is nothing to terminate.
- Security manager, device_manager, peer_manager: security is never
  initialised, so there is no bond for `dm_ble_evt_handler` to find.
- fstorage and fds: nothing calls them and no event reaches them (only pstorage
  is told of flash events, in `btle.cpp:55`).
- HCI memory pool: no HCI packets are received.
- Of pstorage: raw mode (not compiled in), several registered modules, blocks
  that cross pages (the configuration has one page; `pstorage.c:425` computes
  whether a command stays within a page without its offset, which is only right
  for other blocks), refusals other than busy, `pstorage_load()`, and a
  power loss between two operations, from which the code does not recover. An
  application is taken to call `pstorage_init()` after the notification of an
  error has returned: inside the callback it would be undone by the change to
  `STATE_ERROR` that follows (`pstorage.c:322-323`).
- mbed TLS is a third-party library that nothing calls; mbed's drivers, CMSIS
  headers, device headers, SoftDevice images and the bootloader are platform.

By lines these parts, chiefly mbed TLS and headers, are nearly all of the tree:
the application and the modules it runs on are a few thousand lines.

## 7. Order of work

The modules were written in this order, the most important behaviour first:
RelayCycle, RelaySequencer, EventPump, CtrCrypt, ImobStateService, ImobSession,
PowerGauges; then GattTable, AlarmWatch, NonceGenerate, CallChain, FifoQueue,
AppScheduler, Pstorage. Worth doing next, in order of importance:

1. `GapState`: connection counter and advertising flag of Gap against the link,
   as a refinement of the link of ImobSession.
2. The relay of ImobSession as an instance of RelayCycle with its times.
