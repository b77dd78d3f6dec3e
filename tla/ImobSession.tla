----------------------------- MODULE ImobSession ----------------------------
(***************************************************************************)
(* The I-Mob application: a peer's connection, the callbacks it causes,    *)
(* the relay and the main loop (main.cpp, ImobStateService.h,              *)
(* RELAYService.h).                                                        *)
(*                                                                         *)
(* The radio and the application see a connection at different times.      *)
(* link is what the SoftDevice knows; what happens on it reaches the       *)
(* application as events in evq, which the main thread takes one by one    *)
(* when it drains the queue in waitForEvent() (module EventPump).  Each    *)
(* event runs a chain of callbacks, then the next one is taken; when the   *)
(* queue is found empty the body of the main loop runs once.               *)
(*                                                                         *)
(* The relay is the abstract cycle of RelayCycle, which RelaySequencer     *)
(* implements, without its times.  The callbacks of the other services     *)
(* (ALARMService) and the characteristics touch none of this state and are *)
(* left out.                                                               *)
(***************************************************************************)
EXTENDS ImobStateService, Sequences

CONSTANTS DisconnectionTime,   (* DISCONNECTION_TIME, in runs of the body    *)
          AuthenticationTime,  (* AUTHENTICATION_TIME, in runs of the body   *)
          MaxQueue             (* bound: a peer writes only while fewer than *)
                               (* MaxQueue events wait                       *)

ASSUME SessionBounds == /\ DisconnectionTime \in Nat
                        /\ AuthenticationTime \in Nat
                        /\ MaxQueue \in Nat

VARIABLES
  link,      (* "off", "advertising", "connected", or "closing": connected   *)
             (* and told to disconnect                                       *)
  evq,       (* the SoftDevice's queue of BLE events                         *)
  current,   (* the event whose callbacks run                                *)
  chain,     (* the callbacks still to run, in order                         *)
  phase,     (* of the relay's cycle, see RelayCycle                         *)
  pc,        (* "drain" or "body"                                            *)
  selectedAnalogIn, forceDisconnectionCounter, forceActivationCounter,
  presented  (* history: the peer wrote the correct password in this session *)

radioVars    == <<link, evq>>
dispatchVars == <<current, chain>>
loopVars     == <<pc, selectedAnalogIn, forceDisconnectionCounter, forceActivationCounter>>
vars == <<sessionVars, radioVars, dispatchVars, phase, loopVars, presented>>

Relay == INSTANCE RelayCycle WITH CtrTime <- 0, RelayTime <- 0, elapsed <- 0

None == [kind |-> "none", arg |-> "any"]
Connected(mac) == [kind |-> "connected", arg |-> mac]
Written(w)     == [kind |-> "written", arg |-> w]
Disconnected   == [kind |-> "disconnected", arg |-> "any"]

-----------------------------------------------------------------------------
(* The callback chains.                                                    *)

(* In the order of registration in bleInitComplete(). *)
Registered(kind) ==
  IF kind = "connected" THEN <<"ImobState">>
  ELSE IF kind = "written" THEN <<"ImobState", "RELAY">>
  ELSE <<"main", "ImobState", "RELAY">>

(* Faults a change to the source could introduce; no action uses them. *)
InOrder(s) == s

NeverCut == UNCHANGED <<link, forceDisconnectionCounter>>

CountsOn == /\ forceDisconnectionCounter' = IF authenticated \/ ~userIsConnected
                                               THEN 0 ELSE forceDisconnectionCounter + 1
            /\ UNCHANGED link

ActivatesOnly ==
  IF initial_activation \/ userIsConnected \/ forceActivationCounter <= AuthenticationTime
    THEN /\ forceActivationCounter' = IF initial_activation \/ userIsConnected
                                        THEN forceActivationCounter
                                        ELSE forceActivationCounter + 1
         /\ UNCHANGED <<activated, initial_activation>>
    ELSE /\ activated' = TRUE
         /\ forceActivationCounter' = 0
         /\ UNCHANGED initial_activation

VisitsRestartCount ==
  IF initial_activation \/ userIsConnected
    THEN forceActivationCounter' = 0 /\ UNCHANGED <<activated, initial_activation>>
    ELSE IF forceActivationCounter > AuthenticationTime
      THEN activated' = TRUE /\ initial_activation' = TRUE /\ forceActivationCounter' = 0
      ELSE /\ forceActivationCounter' = forceActivationCounter + 1
           /\ UNCHANGED <<activated, initial_activation>>

ContactAlone == \/ selectedAnalogIn = 2 /\ ~authenticated /\ Relay!Start
                \/ UNCHANGED phase

NoAdvertising == UNCHANGED link

(* common_add() puts a callback at the head of its chain. *)
CallOrder(s) == [i \in 1..Len(s) |-> s[Len(s) + 1 - i]]

(* The next event is pulled and its first callback is next. *)
PullEvent ==
  /\ pc = "drain" /\ chain = <<>> /\ evq # <<>>
  /\ current' = Head(evq)
  /\ evq' = Tail(evq)
  /\ chain' = CallOrder(Registered(Head(evq).kind))
  /\ presented' = (presented /\ Head(evq).kind # "connected")
  /\ UNCHANGED <<sessionVars, link, phase, loopVars>>

(* Both queues were found empty: waitForEvent() returns. *)
QueueEmpty ==
  /\ pc = "drain" /\ chain = <<>> /\ evq = <<>>
  /\ pc' = "body"
  /\ UNCHANGED <<sessionVars, radioVars, dispatchVars, phase, presented,
                 selectedAnalogIn, forceDisconnectionCounter, forceActivationCounter>>

Running(callback, kind) == /\ chain # <<>>
                           /\ Head(chain) = callback
                           /\ current.kind = kind

Returns == /\ chain' = Tail(chain)
           /\ current' = IF Len(chain) = 1 THEN None ELSE current

(* RELAYService::activate() *)
activate == \/ Relay!Start
            \/ phase # "idle" /\ UNCHANGED phase

-----------------------------------------------------------------------------
(* The callbacks.                                                          *)

(* RELAYService::onDataWritten() *)
RelayDataWritten ==
  /\ Running("RELAY", "written")
  /\ \/ /\ current.arg.char = "relay"
        /\ authenticated
        /\ activate
        /\ resetAuthenticationValues
        /\ activated' = TRUE
        /\ UNCHANGED <<userIsConnected, initial_activation, nonceUpdated, nonce, recentMac>>
     \/ /\ current.arg.char # "relay" \/ ~authenticated
        /\ UNCHANGED <<sessionVars, phase>>
  /\ Returns
  /\ UNCHANGED <<radioVars, loopVars, presented>>

(* RELAYService::onDisconnectionFilter() *)
RelayDisconnected ==
  /\ Running("RELAY", "disconnected")
  /\ \/ /\ authenticated /\ activated
        /\ activate
        /\ resetAuthenticationValues
        /\ UNCHANGED <<activated, userIsConnected, initial_activation, nonceUpdated,
                       nonce, recentMac>>
     \/ /\ ~(authenticated /\ activated)
        /\ UNCHANGED <<sessionVars, phase>>
  /\ Returns
  /\ UNCHANGED <<radioVars, loopVars, presented>>

StateConnected ==
  /\ Running("ImobState", "connected")
  /\ onConnectionFilter(current.arg)
  /\ Returns
  /\ UNCHANGED <<radioVars, phase, loopVars, presented>>

WritesCorrectPass(w) == w.char = "pass" /\ w.data = CorrectPass

StateDataWritten ==
  /\ Running("ImobState", "written")
  /\ onDataWritten(current.arg)
  /\ presented' = (presented \/ WritesCorrectPass(current.arg))
  /\ Returns
  /\ UNCHANGED <<radioVars, phase, loopVars>>

StateDisconnected ==
  /\ Running("ImobState", "disconnected")
  /\ onDisconnectionFilter
  /\ Returns
  /\ UNCHANGED <<radioVars, phase, loopVars, presented>>

(* sd_ble_gap_adv_start() fails unless the link is down. *)
startAdvertising == link' = IF link = "off" THEN "advertising" ELSE link

(* disconnectionCallback() of main.cpp *)
MainDisconnected ==
  /\ Running("main", "disconnected")
  /\ startAdvertising
  /\ Returns
  /\ UNCHANGED <<sessionVars, evq, phase, loopVars, presented>>

Callback == \/ RelayDataWritten \/ RelayDisconnected
            \/ StateConnected \/ StateDataWritten \/ StateDisconnected
            \/ MainDisconnected

-----------------------------------------------------------------------------
(* The body of the main loop.                                              *)

AnalogIns == 3

(* The contact is read in every third run of the body. *)
ReadContact == \/ /\ selectedAnalogIn = 2
                  /\ ~authenticated /\ activated
                  /\ activate
               \/ UNCHANGED phase

(* An unauthenticated peer is cut off after DISCONNECTION_TIME; a link that *)
(* is down already makes sd_ble_gap_disconnect() fail, which is ignored.    *)
ForceDisconnection ==
  IF authenticated \/ ~userIsConnected
    THEN forceDisconnectionCounter' = 0 /\ UNCHANGED link
    ELSE IF forceDisconnectionCounter > DisconnectionTime
      THEN /\ forceDisconnectionCounter' = 0
           /\ link' = IF link = "connected" THEN "closing" ELSE link
      ELSE /\ forceDisconnectionCounter' = forceDisconnectionCounter + 1
           /\ UNCHANGED link

(* Nobody authenticated and nobody is connected for AUTHENTICATION_TIME. *)
ForceActivation ==
  IF initial_activation \/ userIsConnected
    THEN UNCHANGED <<activated, initial_activation, forceActivationCounter>>
    ELSE IF forceActivationCounter > AuthenticationTime
      THEN /\ activated' = TRUE
           /\ initial_activation' = TRUE
           /\ forceActivationCounter' = 0
      ELSE /\ forceActivationCounter' = forceActivationCounter + 1
           /\ UNCHANGED <<activated, initial_activation>>

Body ==
  /\ pc = "body"
  /\ pc' = "drain"
  /\ ReadContact
  /\ selectedAnalogIn' = (selectedAnalogIn + 1) % AnalogIns
  /\ ForceDisconnection
  /\ ForceActivation
  /\ UNCHANGED <<authenticated, userIsConnected, passUpdated, nonceUpdated, pass, nonce,
                 recentMac, evq, dispatchVars, presented>>

MainThread == PullEvent \/ QueueEmpty \/ Callback \/ Body

-----------------------------------------------------------------------------
(* The radio: what a peer, or the loss of one, does to the link.           *)

Linked == link \in {"connected", "closing"}

Connect(mac) == /\ link = "advertising"
                /\ link' = "connected"
                /\ evq' = Append(evq, Connected(mac))

PeerWrites(w) == /\ Linked
                 /\ Len(evq) < MaxQueue
                 /\ evq' = Append(evq, Written(w))
                 /\ UNCHANGED link

(* The peer disconnects or is lost, or the disconnection asked for is done. *)
LinkDown == /\ Linked
            /\ link' = "off"
            /\ evq' = Append(evq, Disconnected)

Radio == /\ \/ \E mac \in Macs : Connect(mac)
            \/ \E w \in Writes : PeerWrites(w)
            \/ LinkDown
         /\ UNCHANGED <<sessionVars, dispatchVars, phase, loopVars, presented>>

(* The link goes down once the application asked for it. *)
LinkCloses == link = "closing" /\ Radio /\ link' = "off"

RelayTimer == /\ Relay!TimerStep
              /\ UNCHANGED <<sessionVars, radioVars, dispatchVars, loopVars, presented>>

-----------------------------------------------------------------------------
(* After bleInitComplete(): advertising, the main loop about to begin. *)
Init == /\ SessionInit
        /\ link = "advertising"
        /\ evq = <<>>
        /\ current = None
        /\ chain = <<>>
        /\ phase = "idle"
        /\ pc = "drain"
        /\ selectedAnalogIn = 0
        /\ forceDisconnectionCounter = 0
        /\ forceActivationCounter = 0
        /\ presented = FALSE

Next == MainThread \/ Radio \/ RelayTimer

Spec == /\ Init /\ [][Next]_vars
        /\ WF_vars(MainThread)
        /\ WF_vars(LinkCloses)
        /\ WF_vars(RelayTimer)

-----------------------------------------------------------------------------
Callbacks == {"main", "ImobState", "RELAY"}

Events == {Connected(mac) : mac \in Macs} \cup {Written(w) : w \in Writes} \cup {Disconnected}

(* Every variable holds a value the program can give it. *)
TypeOK ==
  /\ {authenticated, activated, userIsConnected, initial_activation, passUpdated,
      nonceUpdated, presented} \subseteq BOOLEAN
  /\ pass \in {Plain(DefaultPass), Plain(CorrectPass)}
  /\ nonce \in Nonces \cup {DefaultNonce}
  /\ recentMac \in Macs \cup {DefaultMac}
  /\ link \in {"off", "advertising", "connected", "closing"}
  /\ evq \in Seq(Events)
  /\ current \in Events \cup {None}
  /\ chain \in Seq(Callbacks)
  /\ phase \in {"idle", "leadIn", "energised", "leadOut"}
  /\ pc \in {"drain", "body"}
  /\ selectedAnalogIn \in 0..(AnalogIns - 1)
  /\ forceDisconnectionCounter \in 0..(DisconnectionTime + 1)
  /\ forceActivationCounter \in 0..(AuthenticationTime + 1)

(* Authentication belongs to the session it was obtained in: the peer is    *)
(* connected, wrote a nonce, and wrote the correct password since it        *)
(* connected.  It survives neither a disconnection nor a reset of the       *)
(* password.                                                                *)
AuthenticationIsOfThisSession ==
  authenticated => /\ userIsConnected /\ presented
                   /\ nonceUpdated /\ passUpdated
                   /\ pass = Plain(CorrectPass)

(* Once anybody has authenticated or the protection is on, the activation   *)
(* that is forced when nobody shows up is over for good.                    *)
ForcedActivationIsOver == authenticated \/ activated => initial_activation

(* The next peer can only connect when the last session is over: its        *)
(* events are handled and its state is reset before advertising restarts.   *)
ClosedBeforeAdvertising ==
  link = "advertising" => /\ ~userIsConnected /\ ~authenticated /\ ~passUpdated
                          /\ evq = <<>> /\ chain = <<>>

(* The relay only starts a cycle when the protection is on.                 *)
RelayStartsActivated == [][phase = "idle" /\ phase' # "idle" => activated']_vars

(* Only a peer that has authenticated in this session turns it off.         *)
TurnedOffByOwner == [][activated /\ ~activated' => authenticated /\ presented]_vars

(* The cipher round trip keeps the password: the correct one, written after *)
(* a nonce, authenticates.                                                  *)
CorrectPassAuthenticates ==
  [][(/\ StateDataWritten
      /\ nonceUpdated
      /\ WritesCorrectPass(current.arg)) => authenticated']_vars

(* After every connection the device can be connected to again.             *)
AdvertisesAgain == (link = "off") ~> (link = "advertising")

(* When the peer of an authenticated session goes away with the protection  *)
(* on and the relay at rest, the relay is energised.                        *)
WalkAway ==
  (/\ evq # <<>> /\ Head(evq) = Disconnected /\ chain = <<>>
   /\ authenticated /\ activated /\ phase = "idle") ~> (phase = "energised")

(* A peer that does not authenticate is disconnected, provided it does not  *)
(* keep the main thread draining events for ever.                           *)
UnauthenticatedPeerIsCut ==
  []<><<Body>>_vars =>
    ((userIsConnected /\ ~authenticated) ~> (authenticated \/ ~userIsConnected))

(* The body runs without a user often enough: the protection is turned on   *)
(* or somebody has authenticated.  Short visits do not restart the count.   *)
ActivatedAtLast ==
  []<><<Body /\ ~userIsConnected>>_vars => <>initial_activation
=============================================================================
