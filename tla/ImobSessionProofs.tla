-------------------------- MODULE ImobSessionProofs -------------------------
(***************************************************************************)
(* Proofs about ImobSession for any peers, passwords, nonces and times.    *)
(*                                                                         *)
(* That an authentication belongs to its session, and that advertising     *)
(* restarts only when the session is closed, depend on the order in which  *)
(* events and callbacks are handled.  IInv says where in the queue a       *)
(* connection and a disconnection can be, what the callbacks that run have *)
(* already done, and that whoever can write is known to be connected or    *)
(* about to be.                                                            *)
(***************************************************************************)
EXTENDS ImobSession, TLAPS

Handling(kind) == chain # <<>> /\ current.kind = kind

Closed == authenticated = FALSE /\ userIsConnected = FALSE

(* The connection is still to be handled, or is being handled. *)
Announced == \/ evq # <<>> /\ evq[1].kind = "connected"
             \/ Handling("connected")

(* A connection comes first and finds the last session closed; a           *)
(* disconnection comes last and the link is down; a write comes from a     *)
(* peer that is connected or announced.                                    *)
QueueShape ==
  \A i \in 1..Len(evq) :
    /\ evq[i].kind \in {"connected", "written", "disconnected"}
    /\ evq[i].kind = "connected" => i = 1 /\ Closed /\ chain = <<>>
    /\ evq[i].kind = "disconnected" => i = Len(evq) /\ link = "off"
    /\ evq[i].kind = "written" => userIsConnected \/ Announced

(* Which callbacks are left, and what those before them have done. *)
ChainShape ==
  \/ chain = <<>>
  \/ /\ current.kind = "connected"
     /\ chain = <<"ImobState">>
     /\ Closed
  \/ /\ current.kind = "written"
     /\ chain \in {<<"RELAY", "ImobState">>, <<"ImobState">>}
     /\ userIsConnected
  \/ /\ current.kind = "disconnected"
     /\ chain \in {<<"RELAY", "ImobState", "main">>, <<"ImobState", "main">>, <<"main">>}
     /\ chain = <<"main">> => Closed
     /\ evq = <<>>
     /\ link = "off"

LinkShape ==
  /\ link \in {"off", "advertising", "connected", "closing"}
  /\ link = "advertising" => Closed /\ evq = <<>> /\ chain = <<>>
  /\ Linked => userIsConnected \/ Announced

SessionShape ==
  /\ authenticated \in BOOLEAN /\ passUpdated = authenticated
  /\ userIsConnected \in BOOLEAN /\ nonceUpdated \in BOOLEAN /\ presented \in BOOLEAN
  /\ activated \in BOOLEAN /\ initial_activation \in BOOLEAN
  /\ authenticated => /\ userIsConnected /\ presented /\ nonceUpdated
                      /\ pass = Plain(CorrectPass)

IInv == /\ evq \in Seq(Events)
        /\ QueueShape
        /\ ChainShape
        /\ LinkShape
        /\ SessionShape
        /\ ForcedActivationIsOver

-----------------------------------------------------------------------------
(* The order in which the registered callbacks are called. *)
LEMMA CallOrders ==
  /\ CallOrder(Registered("connected")) = <<"ImobState">>
  /\ CallOrder(Registered("written")) = <<"RELAY", "ImobState">>
  /\ CallOrder(Registered("disconnected")) = <<"RELAY", "ImobState", "main">>
BY DEF CallOrder, Registered

(* What is left of those chains after a callback. *)
LEMMA Tails ==
  /\ Tail(<<"ImobState">>) = <<>> /\ Tail(<<"main">>) = <<>>
  /\ Tail(<<"RELAY", "ImobState">>) = <<"ImobState">>
  /\ Tail(<<"RELAY", "ImobState", "main">>) = <<"ImobState", "main">>
  /\ Tail(<<"ImobState", "main">>) = <<"main">>
OBVIOUS

(* The cipher round trip gives back the text that was written, whatever the *)
(* nonce: both blocks are those of the counter at 0.                        *)
LEMMA RoundTrip == ASSUME NEW text, NEW n PROVE AsDecrypted(text, n) = Plain(text)
BY DEF AsDecrypted, crypt, restart, ctr_init, XorBlock, Increment, Plain

(* Two texts are the same if their buffers are. *)
LEMMA PlainInjective == ASSUME NEW t, NEW u, Plain(t) = Plain(u) PROVE t = u
BY DEF Plain

LEMMA Initially == Init => IInv
<1> SUFFICES ASSUME Init PROVE IInv
  OBVIOUS
<1> USE DEF Init, SessionInit
<1>1. evq \in Seq(Events) /\ Len(evq) = 0 /\ chain = <<>>
  OBVIOUS
<1>2. QueueShape
  BY <1>1 DEF QueueShape
<1>3. ChainShape
  BY DEF ChainShape
<1>4. LinkShape
  BY DEF LinkShape, Closed, Linked
<1>5. SessionShape
  BY DEF SessionShape
<1>6. ForcedActivationIsOver
  BY DEF ForcedActivationIsOver
<1> QED
  BY <1>1, <1>2, <1>3, <1>4, <1>5, <1>6 DEF IInv

-----------------------------------------------------------------------------
(* The dispatch of events. *)

LEMMA PullEventPreserves == ASSUME IInv, PullEvent PROVE IInv'
<1> USE DEF IInv
<1> DEFINE e == Head(evq)
<1>1. /\ e = evq[1] /\ Len(evq) \in Nat /\ Len(evq) >= 1
      /\ evq' \in Seq(Events) /\ Len(evq') = Len(evq) - 1
      /\ \A i \in 1..Len(evq') : evq'[i] = evq[i + 1]
  BY DEF PullEvent
<1>2. UNCHANGED <<sessionVars, link>> /\ current' = e /\ chain = <<>>
      /\ chain' = CallOrder(Registered(e.kind)) /\ link # "advertising"
  BY DEF PullEvent, LinkShape
<1>3. /\ e.kind \in {"connected", "written", "disconnected"}
      /\ e.kind = "connected" => Closed
      /\ e.kind = "disconnected" => Len(evq) = 1 /\ link = "off"
      /\ e.kind = "written" => userIsConnected
  BY <1>1, <1>2 DEF QueueShape, Announced, Handling
<1>4. chain' # <<>>
  <2>1. chain' \in {<<"ImobState">>, <<"RELAY", "ImobState">>, <<"RELAY", "ImobState", "main">>}
    BY <1>2, <1>3, CallOrders
  <2> QED
    BY <2>1
<1>5. Announced => e.kind = "connected" /\ Announced'
  BY <1>1, <1>2, <1>4 DEF Announced, Handling
<1>6. QueueShape'
  <2> SUFFICES ASSUME NEW i \in 1..Len(evq')
               PROVE  /\ evq'[i].kind \in {"connected", "written", "disconnected"}
                      /\ evq'[i].kind # "connected"
                      /\ evq'[i].kind = "disconnected" => i = Len(evq') /\ link' = "off"
                      /\ evq'[i].kind = "written" => (userIsConnected \/ Announced)'
    BY DEF QueueShape
  <2>1. i + 1 \in 1..Len(evq) /\ evq'[i] = evq[i + 1] /\ i + 1 # 1
    BY <1>1
  <2> QED
    BY <1>1, <1>2, <1>5, <2>1 DEF QueueShape, sessionVars
<1>7. ChainShape'
  <2>1. CASE e.kind = "connected"
    BY <1>2, <1>3, <2>1, CallOrders DEF ChainShape, Closed, sessionVars
  <2>2. CASE e.kind = "written"
    BY <1>2, <1>3, <2>2, CallOrders DEF ChainShape, sessionVars
  <2>3. CASE e.kind = "disconnected"
    <3>1. evq' = <<>>
      BY <1>1, <1>3, <2>3
    <3>2. chain' = <<"RELAY", "ImobState", "main">> /\ chain' # <<"main">>
      BY <1>2, <2>3, CallOrders
    <3> QED
      BY <1>2, <1>3, <2>3, <3>1, <3>2 DEF ChainShape
  <2> QED
    BY <1>3, <2>1, <2>2, <2>3
<1>8. LinkShape'
  BY <1>2, <1>5 DEF LinkShape, Linked, sessionVars
<1>9. SessionShape'
  <2>1. presented' = presented \/ authenticated = FALSE
    BY <1>3 DEF PullEvent, SessionShape, Closed
  <2>2. presented' \in BOOLEAN
    BY DEF PullEvent
  <2> QED
    BY <1>2, <2>1, <2>2 DEF SessionShape, sessionVars
<1>10. ForcedActivationIsOver'
  BY <1>2 DEF ForcedActivationIsOver, sessionVars
<1> QED
  BY <1>1, <1>6, <1>7, <1>8, <1>9, <1>10

LEMMA QueueEmptyPreserves == ASSUME IInv, QueueEmpty PROVE IInv'
<1>1. UNCHANGED <<sessionVars, link, evq, current, chain, presented>>
  BY DEF QueueEmpty, radioVars, dispatchVars
<1> QED
  BY <1>1 DEF IInv, QueueShape, ChainShape, LinkShape, SessionShape, ForcedActivationIsOver,
              Closed, Announced, Handling, Linked, sessionVars

-----------------------------------------------------------------------------
(* The callbacks. *)

(* While callbacks run, no connection waits in the queue. *)
LEMMA NoConnectionWaits ==
  ASSUME IInv, chain # <<>>
  PROVE  /\ \A i \in 1..Len(evq) : evq[i].kind # "connected"
         /\ Announced => current.kind = "connected"
<1>1. \A i \in 1..Len(evq) : evq[i].kind # "connected"
  BY DEF IInv, QueueShape
<1>2. evq # <<>> => 1 \in 1..Len(evq)
  BY DEF IInv
<1> QED
  BY <1>1, <1>2 DEF Announced, Handling

(* Each callback finds the chain as those before it have left it. *)
LEMMA WhoRuns ==
  ASSUME IInv
  PROVE  /\ Running("ImobState", "connected") => chain = <<"ImobState">> /\ Closed
         /\ Running("RELAY", "written") => chain = <<"RELAY", "ImobState">> /\ userIsConnected
         /\ Running("ImobState", "written") => chain = <<"ImobState">> /\ userIsConnected
         /\ Running("RELAY", "disconnected") =>
              chain = <<"RELAY", "ImobState", "main">> /\ evq = <<>> /\ link = "off"
         /\ Running("ImobState", "disconnected") =>
              chain = <<"ImobState", "main">> /\ evq = <<>> /\ link = "off"
         /\ Running("main", "disconnected") =>
              chain = <<"main">> /\ Closed /\ evq = <<>> /\ link = "off"
BY DEF IInv, ChainShape, Running

(* A callback for a write: what it may do to the session is left to show. *)
LEMMA WrittenCallback ==
  ASSUME IInv, chain # <<>>, current.kind = "written",
         userIsConnected = TRUE, userIsConnected' = TRUE, UNCHANGED radioVars, Returns,
         chain' \in {<<"ImobState">>, <<>>},
         SessionShape', ForcedActivationIsOver'
  PROVE  IInv'
<1>1. link # "advertising" /\ UNCHANGED <<link, evq>>
  BY DEF IInv, LinkShape, radioVars
<1>2. QueueShape'
  BY <1>1, NoConnectionWaits DEF IInv, QueueShape
<1>3. ChainShape'
  BY DEF ChainShape, Returns
<1>4. LinkShape'
  BY <1>1 DEF IInv, LinkShape
<1> QED
  BY <1>1, <1>2, <1>3, <1>4 DEF IInv

LEMMA RelayDataWrittenPreserves == ASSUME IInv, RelayDataWritten PROVE IInv'
<1>1. chain = <<"RELAY", "ImobState">> /\ userIsConnected = TRUE
  BY WhoRuns DEF RelayDataWritten, IInv, SessionShape
<1>2. chain' = <<"ImobState">> /\ UNCHANGED radioVars /\ Returns /\ UNCHANGED presented
      /\ current.kind = "written" /\ chain # <<>>
  BY <1>1, Tails DEF RelayDataWritten, Returns, Running
<1>3. SessionShape' /\ ForcedActivationIsOver' /\ userIsConnected' = TRUE
  <2>1. CASE UNCHANGED sessionVars
    BY <1>1, <1>2, <2>1 DEF IInv, SessionShape, ForcedActivationIsOver, sessionVars
  <2>2. CASE /\ authenticated /\ resetAuthenticationValues /\ activated' = TRUE
             /\ UNCHANGED <<userIsConnected, initial_activation, nonceUpdated, nonce, recentMac>>
    BY <1>1, <1>2, <2>2
    DEF IInv, SessionShape, ForcedActivationIsOver, resetAuthenticationValues
  <2> QED
    BY <2>1, <2>2 DEF RelayDataWritten
<1> QED
  BY <1>1, <1>2, <1>3, WrittenCallback

(* What CheckPass() makes of the buffer. *)
LEMMA PassChecked ==
  ASSUME IInv, NEW updated \in BOOLEAN, NEW buffer, CheckPass(updated, buffer),
         updated = FALSE => authenticated = FALSE
  PROVE  \/ authenticated' = FALSE /\ passUpdated' = FALSE /\ UNCHANGED initial_activation
         \/ /\ updated /\ buffer = Plain(CorrectPass)
            /\ authenticated' = TRUE /\ passUpdated' = TRUE /\ pass' = buffer
            /\ initial_activation' = TRUE
BY DEF CheckPass, resetAuthenticationValues, IInv, SessionShape

LEMMA StateDataWrittenPreserves == ASSUME IInv, StateDataWritten PROVE IInv'
<1> DEFINE w == current.arg
<1>1. chain = <<"ImobState">> /\ userIsConnected = TRUE
  BY WhoRuns DEF StateDataWritten, IInv, SessionShape
<1>2. chain' = <<>> /\ UNCHANGED radioVars /\ Returns /\ userIsConnected' = TRUE
      /\ current.kind = "written" /\ chain # <<>>
  BY <1>1, Tails DEF StateDataWritten, Returns, Running, onDataWritten
<1>3. presented' \in BOOLEAN /\ (presented => presented')
  BY DEF StateDataWritten
<1>4. SessionShape' /\ ForcedActivationIsOver'
  <2>1. CASE WritePass(w)
    <3>1. CheckPass(TRUE, Plain(w.data)) /\ UNCHANGED <<activated, nonceUpdated>> /\ nonceUpdated
      BY <2>1, RoundTrip DEF WritePass
    <3>2. Plain(w.data) = Plain(CorrectPass) => presented'
      BY <2>1, PlainInjective DEF StateDataWritten, WritesCorrectPass, WritePass
    <3> QED
      BY <1>2, <1>3, <3>1, <3>2, PassChecked DEF IInv, SessionShape, ForcedActivationIsOver
  <2>2. CASE WriteNonce(w)
    BY <1>2, <1>3, <2>2, PassChecked DEF WriteNonce, IInv, SessionShape, ForcedActivationIsOver
  <2>3. CASE WriteActivation(w)
    <3>1. activated' \in BOOLEAN
      BY <2>3, Zenon DEF WriteActivation, updateActivationValue
    <3>2. authenticated /\ CheckPass(passUpdated, pass) /\ UNCHANGED nonceUpdated
      BY <2>3 DEF WriteActivation
    <3>3. initial_activation = TRUE /\ initial_activation' = TRUE
      <4>1. initial_activation = TRUE
        BY <3>2 DEF IInv, SessionShape, ForcedActivationIsOver
      <4> QED
        BY <3>2, <4>1 DEF CheckPass
    <3>4. SessionShape'
      BY <1>2, <1>3, <3>1, <3>2, <3>3
      DEF IInv, SessionShape, CheckPass, resetAuthenticationValues
    <3> QED
      BY <3>3, <3>4 DEF ForcedActivationIsOver
  <2>4. CASE WriteIgnored(w)
    BY <1>2, <1>3, <2>4, PassChecked DEF WriteIgnored, IInv, SessionShape, ForcedActivationIsOver
  <2> QED
    BY <2>1, <2>2, <2>3, <2>4 DEF StateDataWritten, onDataWritten
<1> QED
  BY <1>1, <1>2, <1>4, WrittenCallback

LEMMA StateConnectedPreserves == ASSUME IInv, StateConnected PROVE IInv'
<1>1. chain = <<"ImobState">> /\ authenticated = FALSE /\ current.kind = "connected"
  BY WhoRuns DEF StateConnected, Running, Closed
<1>2. /\ chain' = <<>> /\ userIsConnected' = TRUE /\ chain # <<>>
      /\ UNCHANGED <<authenticated, activated, initial_activation, passUpdated, pass,
                     link, evq, presented>>
  BY <1>1, Tails DEF StateConnected, Returns, onConnectionFilter, radioVars
<1>3. nonceUpdated' \in BOOLEAN
  BY Zenon DEF StateConnected, onConnectionFilter
<1>4. QueueShape'
  BY <1>2, NoConnectionWaits DEF IInv, QueueShape
<1>5. ChainShape' /\ LinkShape'
  BY <1>2 DEF IInv, ChainShape, LinkShape, Linked
<1>6. SessionShape' /\ ForcedActivationIsOver'
  BY <1>1, <1>2, <1>3 DEF IInv, SessionShape, ForcedActivationIsOver
<1> QED
  BY <1>2, <1>4, <1>5, <1>6 DEF IInv

(* A callback for a disconnection: the queue is empty and the link down. *)
LEMMA DisconnectedCallback ==
  ASSUME IInv, chain # <<>>, current.kind = "disconnected", UNCHANGED evq, evq = <<>>,
         \/ link' = "off" /\ current' = current
            /\ chain' \in {<<"ImobState", "main">>, <<"main">>}
         \/ link' = "advertising" /\ chain' = <<>>,
         chain' \in {<<>>, <<"main">>} => Closed',
         SessionShape', ForcedActivationIsOver'
  PROVE  IInv'
<1>1. QueueShape'
  BY DEF QueueShape
<1>2. ChainShape'
  BY DEF ChainShape
<1>3. LinkShape'
  BY DEF LinkShape, Linked
<1> QED
  BY <1>1, <1>2, <1>3 DEF IInv

LEMMA RelayDisconnectedPreserves == ASSUME IInv, RelayDisconnected PROVE IInv'
<1>1. chain = <<"RELAY", "ImobState", "main">> /\ evq = <<>> /\ link = "off"
      /\ current.kind = "disconnected"
  BY WhoRuns DEF RelayDisconnected, Running
<1>2. chain' = <<"ImobState", "main">> /\ UNCHANGED <<link, evq, current, presented>>
  BY <1>1, Tails DEF RelayDisconnected, Returns, radioVars
<1>3. chain # <<>> /\ chain' \notin {<<>>, <<"main">>}
  BY <1>1, <1>2
<1>4. SessionShape' /\ ForcedActivationIsOver'
  <2>1. CASE UNCHANGED sessionVars
    BY <1>2, <2>1 DEF IInv, SessionShape, ForcedActivationIsOver, sessionVars
  <2>2. CASE /\ authenticated /\ resetAuthenticationValues
             /\ UNCHANGED <<activated, userIsConnected, initial_activation, nonceUpdated>>
    BY <1>2, <2>2 DEF IInv, SessionShape, ForcedActivationIsOver, resetAuthenticationValues
  <2> QED
    BY <2>1, <2>2 DEF RelayDisconnected
<1> QED
  BY <1>1, <1>2, <1>3, <1>4, DisconnectedCallback

LEMMA StateDisconnectedPreserves == ASSUME IInv, StateDisconnected PROVE IInv'
<1>1. chain = <<"ImobState", "main">> /\ evq = <<>> /\ link = "off"
      /\ current.kind = "disconnected"
  BY WhoRuns DEF StateDisconnected, Running
<1>2. chain' = <<"main">> /\ UNCHANGED <<link, evq, current, presented>>
  BY <1>1, Tails DEF StateDisconnected, Returns, radioVars
<1>3. SessionShape' /\ ForcedActivationIsOver' /\ Closed'
  BY <1>2 DEF StateDisconnected, onDisconnectionFilter, resetAuthenticationValues,
              IInv, SessionShape, ForcedActivationIsOver, Closed
<1>4. chain # <<>>
  BY <1>1
<1> QED
  BY <1>1, <1>2, <1>3, <1>4, DisconnectedCallback

LEMMA MainDisconnectedPreserves == ASSUME IInv, MainDisconnected PROVE IInv'
<1>1. chain = <<"main">> /\ Closed /\ evq = <<>> /\ link = "off"
      /\ current.kind = "disconnected"
  BY WhoRuns DEF MainDisconnected, Running
<1>2. chain' = <<>> /\ link' = "advertising" /\ UNCHANGED <<evq, sessionVars, presented>>
  BY <1>1, Tails DEF MainDisconnected, Returns, startAdvertising
<1>3. SessionShape' /\ ForcedActivationIsOver' /\ Closed'
  BY <1>1, <1>2 DEF IInv, SessionShape, ForcedActivationIsOver, sessionVars, Closed
<1>4. chain # <<>>
  BY <1>1
<1> QED
  BY <1>1, <1>2, <1>3, <1>4, DisconnectedCallback

-----------------------------------------------------------------------------
(* The body of the main loop. *)

LEMMA BodyPreserves == ASSUME IInv, Body PROVE IInv'
<1>1. UNCHANGED <<authenticated, userIsConnected, passUpdated, nonceUpdated, pass, evq,
                  current, chain, presented>>
  BY DEF Body, dispatchVars
<1>2. link' = link \/ (link = "connected" /\ link' = "closing")
  BY DEF Body, ForceDisconnection
<1>3. /\ activated' \in BOOLEAN /\ initial_activation' \in BOOLEAN
      /\ initial_activation => initial_activation'
      /\ activated' = activated \/ initial_activation' = TRUE
  <2>1. CASE UNCHANGED <<activated, initial_activation>>
    BY <2>1 DEF IInv, SessionShape
  <2>2. CASE activated' = TRUE /\ initial_activation' = TRUE
    BY <2>2
  <2> QED
    BY <2>1, <2>2 DEF Body, ForceActivation
<1>4. QueueShape' /\ ChainShape'
  BY <1>1, <1>2 DEF IInv, QueueShape, ChainShape, Closed, Announced, Handling
<1>5. LinkShape'
  BY <1>1, <1>2 DEF IInv, LinkShape, Closed, Linked, Announced, Handling
<1>6. SessionShape' /\ ForcedActivationIsOver'
  BY <1>1, <1>3 DEF IInv, SessionShape, ForcedActivationIsOver
<1> QED
  BY <1>1, <1>4, <1>5, <1>6 DEF IInv

-----------------------------------------------------------------------------
(* The radio and the relay's timer. *)

(* An event appended to the queue leaves what is queued where it is. *)
LEMMA Appended ==
  ASSUME evq \in Seq(Events), NEW e \in Events, evq' = Append(evq, e)
  PROVE  /\ evq' \in Seq(Events) /\ evq' # <<>>
         /\ Len(evq) \in Nat /\ Len(evq') = Len(evq) + 1
         /\ \A i \in 1..Len(evq) : evq'[i] = evq[i]
         /\ evq'[Len(evq) + 1] = e
OBVIOUS

LEMMA ConnectPreserves ==
  ASSUME IInv, NEW mac \in Macs, Connect(mac),
         UNCHANGED <<sessionVars, dispatchVars, phase, loopVars, presented>>
  PROVE  IInv'
<1> DEFINE e == Connected(mac)
<1>1. /\ link = "advertising" /\ link' = "connected" /\ evq = <<>> /\ chain = <<>> /\ Closed
      /\ evq' = Append(evq, e) /\ e \in Events /\ e.kind = "connected"
      /\ chain' = <<>> /\ Closed'
  BY DEF Connect, IInv, LinkShape, Events, Connected, Closed, sessionVars, dispatchVars
<1>2. evq' \in Seq(Events) /\ evq' # <<>> /\ Len(evq') = 1 /\ evq'[1] = e
  <2>1. Len(evq) = 0
    BY <1>1
  <2> HIDE DEF e
  <2> QED
    BY <1>1, <2>1, Appended DEF IInv
<1>3. QueueShape'
  BY <1>1, <1>2 DEF QueueShape
<1>4. ChainShape' /\ LinkShape'
  BY <1>1, <1>2 DEF ChainShape, LinkShape, Announced
<1>5. SessionShape' /\ ForcedActivationIsOver'
  BY DEF IInv, SessionShape, ForcedActivationIsOver, sessionVars
<1> QED
  BY <1>2, <1>3, <1>4, <1>5 DEF IInv

(* A write or a disconnection, on a link that is up. *)
LEMMA LinkedAppend ==
  ASSUME IInv, Linked, NEW e \in Events, evq' = Append(evq, e),
         UNCHANGED <<sessionVars, dispatchVars, phase, loopVars, presented>>,
         \/ e.kind = "written" /\ UNCHANGED link
         \/ e.kind = "disconnected" /\ link' = "off"
  PROVE  IInv'
<1>1. /\ link \in {"connected", "closing"} /\ (userIsConnected \/ Announced)
      /\ UNCHANGED <<userIsConnected, authenticated, chain, current>>
  BY DEF IInv, LinkShape, Linked, sessionVars, dispatchVars
<1>2. evq \in Seq(Events)
  BY DEF IInv
<1>3. /\ evq' \in Seq(Events) /\ evq' # <<>>
      /\ Len(evq) \in Nat /\ Len(evq') = Len(evq) + 1
      /\ \A i \in 1..Len(evq) : evq'[i] = evq[i]
      /\ evq'[Len(evq) + 1] = e
  BY <1>2, Appended
<1>4. Announced => Announced'
  <2>1. evq # <<>> => 1 \in 1..Len(evq)
    BY <1>2
  <2> QED
    BY <1>1, <1>3, <2>1 DEF Announced, Handling
<1>5. QueueShape'
  <2> SUFFICES ASSUME NEW i \in 1..Len(evq')
               PROVE  /\ evq'[i].kind \in {"connected", "written", "disconnected"}
                      /\ evq'[i].kind = "connected" => i = 1 /\ Closed' /\ chain' = <<>>
                      /\ evq'[i].kind = "disconnected" => i = Len(evq') /\ link' = "off"
                      /\ evq'[i].kind = "written" => (userIsConnected \/ Announced)'
    BY DEF QueueShape
  <2>1. CASE i = Len(evq) + 1
    BY <1>1, <1>3, <1>4, <2>1
  <2>2. CASE i \in 1..Len(evq)
    <3>1. evq[i].kind # "disconnected" /\ evq'[i] = evq[i]
      BY <1>1, <1>3, <2>2 DEF IInv, QueueShape
    <3> QED
      BY <1>1, <1>4, <2>2, <3>1 DEF IInv, QueueShape, Closed
  <2> QED
    BY <1>3, <2>1, <2>2
<1>6. ChainShape'
  BY <1>1 DEF IInv, ChainShape, Closed
<1>7. LinkShape'
  BY <1>1, <1>4 DEF LinkShape
<1>8. SessionShape' /\ ForcedActivationIsOver'
  BY DEF IInv, SessionShape, ForcedActivationIsOver, sessionVars
<1> QED
  BY <1>3, <1>5, <1>6, <1>7, <1>8 DEF IInv

LEMMA RadioPreserves == ASSUME IInv, Radio PROVE IInv'
<1>1. UNCHANGED <<sessionVars, dispatchVars, phase, loopVars, presented>>
  BY DEF Radio
<1>2. CASE \E mac \in Macs : Connect(mac)
  BY <1>1, <1>2, ConnectPreserves
<1>3. CASE \E w \in Writes : PeerWrites(w)
  <2>1. PICK w \in Writes : PeerWrites(w)
    BY <1>3
  <2>2. Written(w) \in Events /\ Written(w).kind = "written"
    BY DEF Events, Written
  <2> QED
    BY <1>1, <2>1, <2>2, LinkedAppend DEF PeerWrites
<1>4. CASE LinkDown
  <2>1. Disconnected \in Events /\ Disconnected.kind = "disconnected"
    BY DEF Events, Disconnected
  <2> QED
    BY <1>1, <1>4, <2>1, LinkedAppend DEF LinkDown
<1> QED
  BY <1>2, <1>3, <1>4 DEF Radio

(* The relay's timer, and a step that changes nothing, leave it all alone. *)
LEMMA UntouchedPreserves ==
  ASSUME IInv, UNCHANGED <<sessionVars, radioVars, dispatchVars, presented>> PROVE IInv'
<1>1. UNCHANGED <<link, evq, current, chain, authenticated, userIsConnected>>
  BY DEF radioVars, dispatchVars, sessionVars
<1>2. QueueShape' /\ ChainShape' /\ LinkShape'
  BY <1>1 DEF IInv, QueueShape, ChainShape, LinkShape, Closed, Announced, Handling, Linked
<1>3. SessionShape' /\ ForcedActivationIsOver'
  BY DEF IInv, SessionShape, ForcedActivationIsOver, sessionVars
<1> QED
  BY <1>1, <1>2, <1>3 DEF IInv

-----------------------------------------------------------------------------
LEMMA Preserved == IInv /\ [Next]_vars => IInv'
<1> SUFFICES ASSUME IInv, [Next]_vars PROVE IInv'
  OBVIOUS
<1>1. CASE PullEvent
  BY <1>1, PullEventPreserves
<1>2. CASE QueueEmpty
  BY <1>2, QueueEmptyPreserves
<1>3. CASE Callback
  BY <1>3, RelayDataWrittenPreserves, RelayDisconnectedPreserves, StateConnectedPreserves,
     StateDataWrittenPreserves, StateDisconnectedPreserves, MainDisconnectedPreserves
  DEF Callback
<1>4. CASE Body
  BY <1>4, BodyPreserves
<1>5. CASE Radio
  BY <1>5, RadioPreserves
<1>6. CASE RelayTimer
  BY <1>6, UntouchedPreserves DEF RelayTimer
<1>7. CASE UNCHANGED vars
  BY <1>7, UntouchedPreserves DEF vars
<1> QED
  BY <1>1, <1>2, <1>3, <1>4, <1>5, <1>6, <1>7 DEF Next, MainThread

(* Events, callbacks and session are always in one of the situations that  *)
(* IInv describes.                                                         *)
THEOREM Situations == Spec => []IInv
BY Initially, Preserved, PTL DEF Spec

(* Whatever peers do and whenever links drop: authentication belongs to    *)
(* the session in which the correct password was written.                  *)
THEOREM AuthenticationIsLocal == Spec => []AuthenticationIsOfThisSession
<1>1. IInv => AuthenticationIsOfThisSession
  BY DEF IInv, SessionShape, AuthenticationIsOfThisSession
<1> QED
  BY <1>1, Situations, PTL

(* After an authentication the protection is never forced on. *)
THEOREM ForcedOnce == Spec => []ForcedActivationIsOver
<1>1. IInv => ForcedActivationIsOver
  BY DEF IInv
<1> QED
  BY <1>1, Situations, PTL

(* Whoever connects next finds no event and no state of the last session. *)
THEOREM ClosedFirst == Spec => []ClosedBeforeAdvertising
<1>1. IInv => ClosedBeforeAdvertising
  BY DEF IInv, LinkShape, SessionShape, Closed, ClosedBeforeAdvertising
<1> QED
  BY <1>1, Situations, PTL

-----------------------------------------------------------------------------
(* What a step may do. *)

LEMMA OnlyOwnerTurnsOff ==
  ASSUME IInv, [Next]_vars PROVE activated /\ ~activated' => authenticated /\ presented
<1> SUFFICES ASSUME activated, ~activated' PROVE authenticated /\ presented
  OBVIOUS
<1>1. authenticated => presented
  BY DEF IInv, SessionShape
<1>2. ~UNCHANGED activated
  OBVIOUS
<1>3. ~(PullEvent \/ QueueEmpty \/ Radio \/ RelayTimer \/ UNCHANGED vars)
  BY <1>2 DEF PullEvent, QueueEmpty, Radio, RelayTimer, vars, sessionVars
<1>4. ~(RelayDisconnected \/ StateConnected \/ StateDisconnected \/ MainDisconnected)
  BY <1>2 DEF RelayDisconnected, StateConnected, StateDisconnected, MainDisconnected,
              onConnectionFilter, onDisconnectionFilter, sessionVars
<1>5. ~RelayDataWritten
  BY <1>2 DEF RelayDataWritten, sessionVars
<1>6. ~Body
  BY <1>2 DEF Body, ForceActivation
<1>7. StateDataWritten
  BY <1>3, <1>4, <1>5, <1>6 DEF Next, MainThread, Callback
<1>8. WriteActivation(current.arg)
  BY <1>2, <1>7 DEF StateDataWritten, onDataWritten, WritePass, WriteNonce, WriteIgnored
<1> QED
  BY <1>1, <1>8 DEF WriteActivation

(* Nobody but an authenticated peer turns the protection off. *)
THEOREM OwnerOnly == Spec => TurnedOffByOwner
<1>1. IInv /\ [Next]_vars => [activated /\ ~activated' => authenticated /\ presented]_vars
  BY OnlyOwnerTurnsOff
<1> QED
  BY <1>1, Situations, PTL DEF Spec, TurnedOffByOwner

LEMMA StartsOnlyActivated ==
  ASSUME IInv, [Next]_vars PROVE phase = "idle" /\ phase' # "idle" => activated'
<1> SUFFICES ASSUME phase = "idle", phase' # "idle" PROVE activated'
  OBVIOUS
<1>1. ~UNCHANGED phase
  OBVIOUS
<1>2. ~(PullEvent \/ QueueEmpty \/ Radio \/ UNCHANGED vars)
  BY <1>1 DEF PullEvent, QueueEmpty, Radio, vars
<1>3. ~(StateConnected \/ StateDataWritten \/ StateDisconnected \/ MainDisconnected)
  BY <1>1 DEF StateConnected, StateDataWritten, StateDisconnected, MainDisconnected
<1>4. ~RelayTimer
  BY DEF RelayTimer, Relay!TimerStep, Relay!Energise, Relay!Release, Relay!Finish, Relay!Move
<1>5. CASE RelayDataWritten
  BY <1>1, <1>5 DEF RelayDataWritten
<1>6. CASE RelayDisconnected
  BY <1>1, <1>6 DEF RelayDisconnected
<1>7. CASE Body
  BY <1>1, <1>7 DEF Body, ReadContact, ForceActivation
<1> QED
  BY <1>2, <1>3, <1>4, <1>5, <1>6, <1>7 DEF Next, MainThread, Callback

(* The vehicle is cut off only while the protection is on. *)
THEOREM CutOffWhenActivated == Spec => RelayStartsActivated
<1>1. IInv /\ [Next]_vars => [phase = "idle" /\ phase' # "idle" => activated']_vars
  BY StartsOnlyActivated
<1> QED
  BY <1>1, Situations, PTL DEF Spec, RelayStartsActivated

(* The correct password, written after a nonce, authenticates: the two     *)
(* passes of the cipher in updateAuthenticationPassValues() cancel out.    *)
THEOREM OwnerIsLetIn == Spec => CorrectPassAuthenticates
<1>1. ASSUME StateDataWritten, nonceUpdated, WritesCorrectPass(current.arg)
      PROVE  authenticated'
  <2>1. WritePass(current.arg)
    BY <1>1 DEF StateDataWritten, onDataWritten, WritesCorrectPass,
                WriteNonce, WriteActivation, WriteIgnored
  <2>2. CheckPass(TRUE, Plain(CorrectPass))
    BY <1>1, <2>1, RoundTrip DEF WritePass, WritesCorrectPass
  <2> QED
    BY <2>2 DEF CheckPass
<1> QED
  BY <1>1, PTL DEF CorrectPassAuthenticates

-----------------------------------------------------------------------------
(* Types. *)

Buffers == {Plain(DefaultPass), Plain(CorrectPass)}

FlagsTyped == {authenticated, activated, userIsConnected, initial_activation, passUpdated,
               nonceUpdated, presented} \subseteq BOOLEAN

SessionTyped == /\ FlagsTyped
                /\ pass \in Buffers
                /\ nonce \in Nonces \cup {DefaultNonce}
                /\ recentMac \in Macs \cup {DefaultMac}

DispatchTyped == /\ link \in {"off", "advertising", "connected", "closing"}
                 /\ evq \in Seq(Events)
                 /\ current \in Events \cup {None}
                 /\ chain \in Seq(Callbacks)

LoopTyped == /\ phase \in {"idle", "leadIn", "energised", "leadOut"}
             /\ pc \in {"drain", "body"}
             /\ selectedAnalogIn \in 0..(AnalogIns - 1)
             /\ forceDisconnectionCounter \in 0..(DisconnectionTime + 1)
             /\ forceActivationCounter \in 0..(AuthenticationTime + 1)

LEMMA TypeParts == TypeOK <=> SessionTyped /\ DispatchTyped /\ LoopTyped
BY DEF TypeOK, SessionTyped, DispatchTyped, LoopTyped, FlagsTyped, Buffers

LEMMA ArgTypes == ASSUME NEW e \in Events PROVE e.kind = "connected" => e.arg \in Macs
BY DEF Events, Connected, Written, Disconnected

LEMMA RelayTyped ==
  ASSUME phase \in {"idle", "leadIn", "energised", "leadOut"},
         activate \/ Relay!TimerStep \/ UNCHANGED phase
  PROVE  phase' \in {"idle", "leadIn", "energised", "leadOut"}
BY DEF activate, Relay!TimerStep, Relay!Start, Relay!Energise, Relay!Release, Relay!Finish,
       Relay!Move

LEMMA PassTyped ==
  ASSUME TypeOK, NEW updated \in BOOLEAN, NEW buffer, CheckPass(updated, buffer),
         updated \/ buffer = pass
  PROVE  pass' \in Buffers /\ authenticated' \in BOOLEAN /\ passUpdated' \in BOOLEAN
         /\ initial_activation' \in BOOLEAN
BY DEF TypeOK, CheckPass, resetAuthenticationValues, Buffers

LEMMA InitTyped == Init => TypeOK
<1> SUFFICES ASSUME Init PROVE SessionTyped /\ DispatchTyped /\ LoopTyped
  BY TypeParts
<1>1. SessionTyped
  BY DEF Init, SessionInit, SessionTyped, FlagsTyped, Buffers
<1>2. DispatchTyped
  BY DEF Init, DispatchTyped
<1>3. LoopTyped
  BY SessionBounds DEF Init, LoopTyped, AnalogIns
<1> QED
  BY <1>1, <1>2, <1>3

LEMMA SessionStepTyped == ASSUME TypeOK, [Next]_vars PROVE SessionTyped'
<1> SUFFICES FlagsTyped' /\ pass' \in Buffers /\ nonce' \in Nonces \cup {DefaultNonce}
             /\ recentMac' \in Macs \cup {DefaultMac}
  BY DEF SessionTyped
<1> USE TypeParts DEF SessionTyped, FlagsTyped
<1>1. CASE UNCHANGED sessionVars
  <2>1. presented' \in BOOLEAN
    BY <1>1, Zenon DEF Next, MainThread, Callback, PullEvent, QueueEmpty, RelayDataWritten,
       RelayDisconnected, StateConnected, StateDataWritten, StateDisconnected, MainDisconnected,
       Body, Radio, RelayTimer, vars
  <2> QED
    BY <1>1, <2>1 DEF sessionVars
<1>2. CASE RelayDataWritten \/ RelayDisconnected
  BY <1>2 DEF RelayDataWritten, RelayDisconnected, resetAuthenticationValues, Buffers, sessionVars
<1>3. CASE StateConnected
  <2>1. current.arg \in Macs
    BY <1>3, ArgTypes DEF StateConnected, Running, DispatchTyped, None
  <2>2. nonceUpdated' \in BOOLEAN
    BY <1>3, Zenon DEF StateConnected, onConnectionFilter
  <2> QED
    BY <1>3, <2>1, <2>2 DEF StateConnected, onConnectionFilter
<1>4. CASE StateDataWritten
  <2> DEFINE w == current.arg
  <2>1. presented' \in BOOLEAN /\ UNCHANGED <<userIsConnected, recentMac>>
    BY <1>4 DEF StateDataWritten, onDataWritten
  <2>2. CASE WritePass(w)
    <3>1. CheckPass(TRUE, AsDecrypted(w.data, nonce)) /\ UNCHANGED <<activated, nonceUpdated, nonce>>
      BY <2>2 DEF WritePass
    <3> QED
      BY <2>1, <3>1, PassTyped
  <2>3. CASE ~WritePass(w)
    <3>1. CheckPass(passUpdated, pass) /\ nonceUpdated' \in BOOLEAN
          /\ nonce' \in Nonces \cup {DefaultNonce}
      BY <1>4, <2>3
      DEF StateDataWritten, onDataWritten, WriteNonce, WriteActivation, WriteIgnored
    <3>2. activated' \in BOOLEAN
      <4>1. CASE UNCHANGED activated
        BY <4>1
      <4>2. CASE WriteActivation(w)
        BY <4>2, Zenon DEF WriteActivation, updateActivationValue
      <4> QED
        BY <1>4, <2>3, <4>1, <4>2 DEF StateDataWritten, onDataWritten, WriteNonce, WriteIgnored
    <3>3. pass' \in Buffers /\ {authenticated', passUpdated', initial_activation'} \subseteq BOOLEAN
      BY <3>1 DEF CheckPass, resetAuthenticationValues, Buffers
    <3> QED
      BY <2>1, <3>1, <3>2, <3>3
  <2> QED
    BY <2>2, <2>3
<1>5. CASE StateDisconnected
  BY <1>5 DEF StateDisconnected, onDisconnectionFilter, resetAuthenticationValues, Buffers
<1>6. CASE Body
  BY <1>6 DEF Body, ForceActivation
<1> QED
  BY <1>1, <1>2, <1>3, <1>4, <1>5, <1>6
  DEF Next, MainThread, Callback, PullEvent, QueueEmpty, MainDisconnected, Radio, RelayTimer, vars

LEMMA DispatchStepTyped == ASSUME TypeOK, [Next]_vars PROVE DispatchTyped'
<1> USE TypeParts DEF DispatchTyped
<1>1. CASE PullEvent
  <2> DEFINE k == Head(evq).kind
  <2>1. Registered(k) \in {Registered("connected"), Registered("written"),
                           Registered("disconnected")}
    BY DEF Registered
  <2>2. /\ chain' = CallOrder(Registered(k))
        /\ current' \in Events /\ evq' \in Seq(Events) /\ UNCHANGED link
    BY <1>1 DEF PullEvent
  <2>3. chain' \in {<<"ImobState">>, <<"RELAY", "ImobState">>, <<"RELAY", "ImobState", "main">>}
    BY <2>1, <2>2, CallOrders
  <2>4. chain' \in Seq(Callbacks)
    <3>1. <<"ImobState">> \in Seq(Callbacks)
      BY DEF Callbacks
    <3>2. <<"RELAY", "ImobState">> \in Seq(Callbacks)
      BY DEF Callbacks
    <3>3. <<"RELAY", "ImobState", "main">> \in Seq(Callbacks)
      BY DEF Callbacks
    <3> QED
      BY <2>3, <3>1, <3>2, <3>3
  <2> QED
    BY <2>2, <2>4
<1>2. CASE UNCHANGED <<link, evq>> /\ Returns /\ chain # <<>>
  BY <1>2 DEF Returns
<1>3. CASE MainDisconnected
  BY <1>3 DEF MainDisconnected, Returns, Running, startAdvertising
<1>4. CASE UNCHANGED dispatchVars /\ UNCHANGED evq /\ link' \in {link, "closing"}
  BY <1>4 DEF dispatchVars
<1>5. CASE Radio
  <2>1. \A mac \in Macs : Connected(mac) \in Events
    BY DEF Events
  <2>2. \A w \in Writes : Written(w) \in Events
    BY DEF Events
  <2>3. Disconnected \in Events
    BY DEF Events
  <2>4. PICK e \in Events : evq' = Append(evq, e) /\ link' \in {link, "connected", "off"}
    BY <1>5, <2>1, <2>2, <2>3, Zenon DEF Radio, Connect, PeerWrites, LinkDown
  <2> QED
    BY <1>5, <2>4 DEF Radio, dispatchVars
<1>6. CASE Callback /\ ~MainDisconnected
  BY <1>2, <1>6
  DEF Callback, RelayDataWritten, RelayDisconnected, StateConnected, StateDataWritten,
      StateDisconnected, Running, radioVars
<1> QED
  BY <1>1, <1>3, <1>4, <1>5, <1>6
  DEF Next, MainThread, QueueEmpty, Body, ForceDisconnection, RelayTimer, radioVars, vars

LEMMA LoopStepTyped == ASSUME TypeOK, [Next]_vars PROVE LoopTyped'
<1> USE TypeParts DEF LoopTyped
<1>1. phase' \in {"idle", "leadIn", "energised", "leadOut"}
  BY RelayTyped
  DEF Next, MainThread, PullEvent, QueueEmpty, Callback, RelayDataWritten, RelayDisconnected,
      StateConnected, StateDataWritten, StateDisconnected, MainDisconnected, Body, ReadContact,
      Radio, RelayTimer, vars
<1>2. CASE Body
  <2>1. forceDisconnectionCounter' \in 0..(DisconnectionTime + 1)
    BY <1>2, SessionBounds DEF Body, ForceDisconnection
  <2>2. forceActivationCounter' \in 0..(AuthenticationTime + 1)
    BY <1>2, SessionBounds DEF Body, ForceActivation
  <2>3. selectedAnalogIn' \in 0..(AnalogIns - 1) /\ pc' = "drain"
    BY <1>2 DEF Body, AnalogIns
  <2> QED
    BY <1>1, <2>1, <2>2, <2>3
<1>3. CASE ~Body
  BY <1>1, <1>3
  DEF Next, MainThread, PullEvent, QueueEmpty, Callback, RelayDataWritten, RelayDisconnected,
      StateConnected, StateDataWritten, StateDisconnected, MainDisconnected,
      Radio, RelayTimer, loopVars, vars
<1> QED
  BY <1>2, <1>3

(* Every variable keeps its type: in particular the two counters of the    *)
(* main loop stop one above their times, for any times.                    *)
THEOREM TypeCorrect == Spec => []TypeOK
<1>1. TypeOK /\ [Next]_vars => TypeOK'
  BY SessionStepTyped, DispatchStepTyped, LoopStepTyped, TypeParts, PTL
<1> QED
  BY <1>1, InitTyped, PTL DEF Spec
=============================================================================
