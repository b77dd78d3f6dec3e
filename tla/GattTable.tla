------------------------------ MODULE GattTable ------------------------------
(***************************************************************************)
(* Writing a characteristic (nRF5xGattServer::write, hwCallback): one call *)
(* both sets the attribute and tells the central, and the SoftDevice may   *)
(* refuse the second half in several ways, some of which leave the         *)
(* attribute as it was (ble_gatts.h:495-498).  There write() sets it by    *)
(* itself, which may be refused too if the connection is gone (459).       *)
(*                                                                         *)
(* The SoftDevice's side (link, attributes, buffers) runs ahead of the     *)
(* program's: m_connectionHandle follows the events, which are handled in  *)
(* order.  The central's requests are those of one connection at a time.   *)
(***************************************************************************)
EXTENDS Naturals, Sequences, FiniteSets

CONSTANTS Notified, Indicated, Plain, (* characteristics by their properties  *)
          Values,
          MaxTx,                      (* the SoftDevice's transmit buffers    *)
          MaxEvents,                  (* bound on events not yet handled      *)
          None

ASSUME Tables == /\ Notified \cap Indicated = {} /\ Plain \cap (Notified \cup Indicated) = {}
                 /\ {MaxTx, MaxEvents} \subseteq Nat
                 /\ None \notin Values \cup Notified \cup Indicated \cup Plain

Chars == Notified \cup Indicated \cup Plain

VARIABLES
  table,       (* attribute values                                           *)
  link,        (* a central is connected                                     *)
  sysAttrs,    (* this connection's system attributes are set                *)
  subscribed,  (* the characteristics whose updates the central enabled      *)
  asking,      (* the CCCD the central is writing, or None                   *)
  attrsBusy,   (* history: the call to set this connection's system          *)
               (* attributes was refused                                     *)
  inFlight,    (* updates queued, not yet received                           *)
  events,      (* events not yet handled                                     *)
  handle,      (* m_connectionHandle is valid                                *)
  accepted,    (* the last write() of each was to be sent and returned NONE  *)
  (* history: the service's value, without the writes that write() reported  *)
  (* as refused; whether it was written last; what the central was told last *)
  latest, byServer, told

stack == <<link, sysAttrs, subscribed, asking, attrsBusy>>
vars == <<table, stack, inFlight, events, handle, accepted, latest, byServer, told>>

-----------------------------------------------------------------------------
InFlight(S) == {i \in 1..Len(inFlight) : inFlight[i].char \in S}

(* sd_ble_gatts_hvx() *)
HvxError(c) ==
  CASE ~handle \/ ~link                              -> "INVALID_CONN_HANDLE"
    [] handle /\ link /\ ~sysAttrs                   -> "SYS_ATTR_MISSING"
    [] handle /\ link /\ sysAttrs /\ c \notin subscribed -> "INVALID_STATE"
    [] OTHER ->
         IF c \in Notified /\ Cardinality(InFlight(Notified)) >= MaxTx THEN "NO_TX_BUFFERS"
         ELSE IF c \in Indicated /\ InFlight(Indicated) # {} THEN "BUSY"
         ELSE "SUCCESS"

(* It updates the attribute, though nothing is sent, with these errors. *)
AfterHvx(c, v, error) ==
  IF error \in {"SUCCESS", "INVALID_STATE", "BUSY", "SYS_ATTR_MISSING", "NO_TX_BUFFERS"}
    THEN v ELSE table[c]

(* Faults a change to the source could introduce; no action uses them. *)
BusyIsFine(error, refused) ==
  IF error \in {"SUCCESS", "NO_TX_BUFFERS"} THEN "NONE"
  ELSE IF refused THEN "PARAM_OUT_OF_RANGE" ELSE "STACK_BUSY"
NoFallback(c, v, error, refused) == AfterHvx(c, v, error)
KeepMissing == UNCHANGED <<sysAttrs, attrsBusy>>

(* The attribute is set by hvx except for an error the switch does not     *)
(* name: there sd_ble_gatts_value_set() sets it, with the same handle.  No *)
(* handle will do, one whose connection is gone may be refused.            *)
Named == {"SUCCESS", "NO_TX_BUFFERS", "BUSY", "INVALID_STATE", "SYS_ATTR_MISSING"}
Refusals(error) == IF error \in Named \/ ~handle THEN {FALSE} ELSE BOOLEAN
Stored(c, v, error, refused) ==
  IF error \in Named THEN AfterHvx(c, v, error) ELSE IF refused THEN table[c] ELSE v

(* write()'s return value for each answer of hvx, and of value_set *)
ReturnValue(error, refused) ==
  CASE error = "SUCCESS"                               -> "NONE"
    [] error \in {"INVALID_STATE", "SYS_ATTR_MISSING"} -> "INVALID_STATE"
    [] error \notin Named /\ refused                   -> "PARAM_OUT_OF_RANGE"
    [] OTHER                                           -> "STACK_BUSY"

Sent(c, localOnly, error) == c \notin Plain /\ ~localOnly /\ error = "SUCCESS"

(* nRF5xGattServer::write() *)
Write(c, v, localOnly) ==
  LET error == IF localOnly \/ c \in Plain THEN "SUCCESS" ELSE HvxError(c) IN
  \E refused \in Refusals(error) :
    LET result == ReturnValue(error, refused) IN
    /\ table' = [table EXCEPT ![c] = Stored(c, v, error, refused)]
    /\ accepted' = [accepted EXCEPT ![c] = ~localOnly /\ result = "NONE"]
    /\ inFlight' = IF Sent(c, localOnly, error)
                     THEN Append(inFlight, [char |-> c, value |-> v])
                     ELSE inFlight
    /\ IF result = "PARAM_OUT_OF_RANGE"
         THEN UNCHANGED <<latest, byServer>>
         ELSE latest' = [latest EXCEPT ![c] = v] /\ byServer' = [byServer EXCEPT ![c] = TRUE]

-----------------------------------------------------------------------------
(* The SoftDevice and the central. *)
Post(event) == Len(events) < MaxEvents /\ events' = Append(events, event)

(* Advertising only restarts once the program has seen the disconnection. *)
Connect ==
  /\ ~link /\ ~handle /\ events = <<>>
  /\ Post([kind |-> "connected"])
  /\ link' = TRUE /\ sysAttrs' = FALSE /\ attrsBusy' = FALSE /\ subscribed' = {}
  /\ accepted' = [c \in Chars |-> FALSE]
  /\ told' = [c \in Chars |-> None]
  /\ UNCHANGED <<table, asking, inFlight, handle, latest, byServer>>

Disconnect ==
  /\ link
  /\ Post([kind |-> "disconnected"])
  /\ link' = FALSE /\ asking' = None /\ inFlight' = <<>>
  /\ UNCHANGED <<table, sysAttrs, attrsBusy, subscribed, handle, accepted, latest, byServer, told>>

AskForUpdates(c) ==
  /\ link /\ asking = None
  /\ asking' = c
  /\ IF sysAttrs THEN UNCHANGED events ELSE Post([kind |-> "missing"])
  /\ UNCHANGED <<table, link, sysAttrs, attrsBusy, subscribed, inFlight, handle, accepted, latest,
                 byServer, told>>

EnableUpdates ==
  /\ asking # None /\ sysAttrs
  /\ subscribed' = subscribed \cup {asking}
  /\ asking' = None
  /\ UNCHANGED <<table, link, sysAttrs, attrsBusy, inFlight, events, handle, accepted, latest,
                 byServer, told>>

CentralWrites(c, v) ==
  /\ link /\ asking = None
  /\ Post([kind |-> "written", char |-> c, value |-> v])
  /\ table' = [table EXCEPT ![c] = v]
  /\ byServer' = [byServer EXCEPT ![c] = FALSE]
  /\ UNCHANGED <<stack, inFlight, handle, accepted, latest, told>>

Receive ==
  /\ inFlight # <<>>
  /\ told' = [told EXCEPT ![Head(inFlight).char] = Head(inFlight).value]
  /\ inFlight' = Tail(inFlight)
  /\ UNCHANGED <<table, stack, events, handle, accepted, latest, byServer>>

-----------------------------------------------------------------------------
(* The program.  btle_handler(), hwCallback() on the next event. *)
Handling(kind) == events # <<>> /\ Head(events).kind = kind /\ events' = Tail(events)

HandleConnection(up) ==
  /\ Handling(IF up THEN "connected" ELSE "disconnected")
  /\ handle' = up
  /\ UNCHANGED <<table, stack, inFlight, accepted, latest, byServer, told>>

(* sd_ble_gatts_sys_attr_set(conn_handle, NULL, 0, 0).  The stack may be   *)
(* busy (ble_gatts.h:597); nobody looks at the result.                     *)
SetAttributes ==
  \/ sysAttrs' = (sysAttrs \/ link) /\ UNCHANGED attrsBusy
  \/ link /\ attrsBusy' = TRUE /\ UNCHANGED sysAttrs

HandleMissing ==
  /\ Handling("missing")
  /\ SetAttributes
  /\ UNCHANGED <<table, link, subscribed, asking, inFlight, handle, accepted, latest, byServer, told>>

(* DATA_WRITTEN: the service takes the value, sets another one (the alarm  *)
(* is lowered by any other write) or does nothing.                         *)
HandleWritten ==
  /\ Handling("written")
  /\ \/ \E c \in Chars, v \in Values : Write(c, v, FALSE) /\ UNCHANGED <<stack, handle, told>>
     \/ UNCHANGED <<table, stack, inFlight, handle, accepted, latest, byServer, told>>

(* A service updates its characteristic from the main loop. *)
Update(c, v, localOnly) ==
  /\ Write(c, v, localOnly)
  /\ UNCHANGED <<stack, events, handle, told>>

Init ==
  /\ link = FALSE /\ sysAttrs = FALSE /\ attrsBusy = FALSE /\ subscribed = {} /\ asking = None
  /\ inFlight = <<>> /\ events = <<>> /\ handle = FALSE
  /\ table \in [Chars -> Values] /\ latest = table
  /\ byServer = [c \in Chars |-> TRUE]
  /\ accepted = [c \in Chars |-> FALSE] /\ told = [c \in Chars |-> None]

Handle == (\E up \in BOOLEAN : HandleConnection(up)) \/ HandleMissing \/ HandleWritten

Next ==
  \/ Connect \/ Disconnect \/ EnableUpdates \/ Receive \/ Handle
  \/ \E c \in Notified \cup Indicated : AskForUpdates(c)
  \/ \E c \in Chars, v \in Values :
       CentralWrites(c, v) \/ (\E localOnly \in BOOLEAN : Update(c, v, localOnly))

(* waitForEvent() drains the events; the SoftDevice answers the central. *)
Fairness == WF_vars(Handle) /\ WF_vars(EnableUpdates)

Spec == Init /\ [][Next]_vars /\ Fairness

-----------------------------------------------------------------------------
(* The type invariant; the buffers of the SoftDevice are never exceeded.   *)
TypeOK ==
  /\ table \in [Chars -> Values] /\ latest \in [Chars -> Values]
  /\ {link, sysAttrs, attrsBusy, handle} \subseteq BOOLEAN
  /\ subscribed \subseteq Chars /\ asking \in Chars \cup {None}
  /\ Cardinality(InFlight(Notified)) <= MaxTx /\ Cardinality(InFlight(Indicated)) <= 1
  /\ Len(events) <= MaxEvents

(* However the SoftDevice answers, also for a connection that is gone or   *)
(* not yet known, and though most callers ignore what write() returns: the *)
(* attribute holds the service's value unless the central wrote it since.  *)
(* Only a write that returned BLE_ERROR_PARAM_OUT_OF_RANGE is lost: on a   *)
(* link that broke, before the program knows.                              *)
WritesLand == \A c \in Chars : byServer[c] => table[c] = latest[c]

(* A service can tell from the return value that its update must be sent   *)
(* again ("the return value can be used for resending notifications"):     *)
(* after BLE_ERROR_NONE the central has been told, or is about to be.      *)
NothingLostSilently ==
  \A c \in Notified \cup Indicated :
    (link /\ byServer[c] /\ accepted[c]) =>
      \/ told[c] = latest[c]
      \/ \E i \in InFlight({c}) : inFlight[i].value = latest[c]

(* A central that asks for updates before the system attributes are set is *)
(* not kept waiting for the answer, unless the SoftDevice was busy when it *)
(* was to set them: hwCallback() does not try again.                       *)
AskingIsAnswered == (asking # None) ~> (asking = None \/ attrsBusy)
=============================================================================
