--------------------------- MODULE GattTableProofs ---------------------------
(***************************************************************************)
(* Proofs about GattTable for any characteristics, values, buffers and     *)
(* bound on events.                                                        *)
(*                                                                         *)
(* The strengthening is Assured: of a characteristic whose last write was  *)
(* accepted, the newest update on its way carries its value, or none is    *)
(* on its way and the central has it.  NothingLostSilently alone would     *)
(* allow an older update to be received after the newest.                  *)
(***************************************************************************)
EXTENDS GattTable, SequenceTheorems, TLAPS

Updates == [char : Chars, value : Values]

(* No update of c is in q; the newest of them carries v. *)
Quiet(q, c) == \A i \in 1..Len(q) : q[i].char # c
Newest(q, c, v) == \E i \in 1..Len(q) :
                     /\ q[i].char = c /\ q[i].value = v
                     /\ \A j \in 1..Len(q) : j > i => q[j].char # c

Typed ==
  /\ table \in [Chars -> Values] /\ latest \in [Chars -> Values]
  /\ byServer \in [Chars -> BOOLEAN] /\ accepted \in [Chars -> BOOLEAN]
  /\ told \in [Chars -> Values \cup {None}]
  /\ inFlight \in Seq(Updates)

Assured ==
  \A c \in Notified \cup Indicated :
    link /\ accepted[c] =>
      \/ Newest(inFlight, c, latest[c])
      \/ Quiet(inFlight, c) /\ told[c] = latest[c]

IInv == Typed /\ WritesLand /\ Assured

-----------------------------------------------------------------------------
(* Updates are sent at one end and received at the other.                  *)
LEMMA SendingIt ==
  ASSUME NEW q \in Seq(Updates), NEW u \in Updates
  PROVE  Newest(Append(q, u), u.char, u.value)
<1>1. /\ Len(Append(q, u)) = Len(q) + 1 /\ Len(q) \in Nat
      /\ Append(q, u)[Len(q) + 1] = u
  BY AppendProperties, LenProperties
<1> QED
  BY <1>1 DEF Newest

LEMMA SendingAnother ==
  ASSUME NEW q \in Seq(Updates), NEW u \in Updates, NEW c, u.char # c
  PROVE  /\ \A v : Newest(q, c, v) => Newest(Append(q, u), c, v)
         /\ Quiet(q, c) => Quiet(Append(q, u), c)
<1>1. /\ Len(Append(q, u)) = Len(q) + 1 /\ Len(q) \in Nat
      /\ Append(q, u)[Len(q) + 1] = u
      /\ \A i \in 1..Len(q) : Append(q, u)[i] = q[i]
  BY AppendProperties, LenProperties
<1>2. \A i \in 1..(Len(q) + 1) : i \in 1..Len(q) \/ i = Len(q) + 1
  BY <1>1
<1> QED
  BY <1>1, <1>2 DEF Newest, Quiet

LEMMA Receiving ==
  ASSUME NEW q \in Seq(Updates), q # <<>>, NEW c
  PROVE  /\ \A v : Newest(q, c, v) =>
              \/ Newest(Tail(q), c, v)
              \/ Head(q).char = c /\ Head(q).value = v /\ Quiet(Tail(q), c)
         /\ Quiet(q, c) => Head(q).char # c /\ Quiet(Tail(q), c)
<1>1. /\ Len(q) \in Nat /\ Len(q) > 0 /\ Len(Tail(q)) = Len(q) - 1
      /\ Head(q) = q[1]
      /\ \A i \in 1..(Len(q) - 1) : Tail(q)[i] = q[i + 1]
  BY HeadTailProperties, LenProperties, EmptySeq
<1>2. \A i \in 1..Len(q) : i = 1 \/ i - 1 \in 1..(Len(q) - 1)
  BY <1>1
<1>3. ASSUME NEW v, Newest(q, c, v)
      PROVE  \/ Newest(Tail(q), c, v)
             \/ Head(q).char = c /\ Head(q).value = v /\ Quiet(Tail(q), c)
  <2>1. PICK i \in 1..Len(q) : /\ q[i].char = c /\ q[i].value = v
                               /\ \A j \in 1..Len(q) : j > i => q[j].char # c
    BY <1>3 DEF Newest
  <2>2. CASE i = 1
    <3>1. \A j \in 1..(Len(q) - 1) : j + 1 \in 1..Len(q) /\ j + 1 > 1
      BY <1>1
    <3> QED
      BY <1>1, <2>1, <2>2, <3>1 DEF Quiet
  <2>3. CASE i # 1
    <3>1. i - 1 \in 1..(Len(q) - 1) /\ Tail(q)[i - 1] = q[i]
      BY <1>1, <1>2, <2>3
    <3>2. \A j \in 1..(Len(q) - 1) : j > i - 1 => Tail(q)[j].char # c
      BY <1>1, <2>1
    <3> QED
      BY <1>1, <2>1, <3>1, <3>2 DEF Newest
  <2> QED
    BY <2>2, <2>3
<1>4. ASSUME Quiet(q, c) PROVE Head(q).char # c /\ Quiet(Tail(q), c)
  BY <1>1, <1>4 DEF Quiet
<1> QED
  BY <1>3, <1>4

-----------------------------------------------------------------------------
(* What write() set the attribute to, or left it at, by what it returned. *)
LEMMA StoredOrRefused ==
  ASSUME NEW c \in Chars, NEW v \in Values, NEW localOnly \in BOOLEAN, NEW refused \in BOOLEAN,
         NEW error, error = IF localOnly \/ c \in Plain THEN "SUCCESS" ELSE HvxError(c)
  PROVE  Stored(c, v, error, refused) =
           IF ReturnValue(error, refused) = "PARAM_OUT_OF_RANGE" THEN table[c] ELSE v
<1>1. error \in Named \/ error = "INVALID_CONN_HANDLE"
  BY DEF Named, HvxError
<1>2. CASE error \in Named
  BY <1>2 DEF Stored, AfterHvx, ReturnValue, Named
<1>3. CASE error = "INVALID_CONN_HANDLE"
  <2>1. error \notin Named /\ error # "SUCCESS" /\ error \notin {"INVALID_STATE", "SYS_ATTR_MISSING"}
    BY <1>3 DEF Named
  <2>2. ReturnValue(error, refused) = IF refused THEN "PARAM_OUT_OF_RANGE" ELSE "STACK_BUSY"
    BY <2>1 DEF ReturnValue
  <2>3. Stored(c, v, error, refused) = IF refused THEN table[c] ELSE v
    BY <2>1 DEF Stored
  <2> QED
    BY <2>2, <2>3
<1> QED
  BY <1>1, <1>2, <1>3

(* What is accepted is sent. *)
LEMMA AcceptedIsSent ==
  ASSUME NEW c \in Notified \cup Indicated, NEW error, NEW refused,
         ReturnValue(error, refused) = "NONE"
  PROVE  Sent(c, FALSE, error)
<1>1. error = "SUCCESS"
  BY DEF ReturnValue
<1>2. c \notin Plain
  BY Tables
<1> QED
  BY <1>1, <1>2 DEF Sent

LEMMA WriteStep ==
  ASSUME IInv, NEW c \in Chars, NEW v \in Values, NEW localOnly \in BOOLEAN,
         Write(c, v, localOnly), UNCHANGED <<link, told>>
  PROVE  IInv'
<1> DEFINE error == IF localOnly \/ c \in Plain THEN "SUCCESS" ELSE HvxError(c)
           u == [char |-> c, value |-> v]
<1>0. PICK refused \in Refusals(error) :
        LET result == ReturnValue(error, refused) IN
        /\ table' = [table EXCEPT ![c] = Stored(c, v, error, refused)]
        /\ accepted' = [accepted EXCEPT ![c] = ~localOnly /\ result = "NONE"]
        /\ inFlight' = IF Sent(c, localOnly, error) THEN Append(inFlight, u) ELSE inFlight
        /\ IF result = "PARAM_OUT_OF_RANGE"
             THEN UNCHANGED <<latest, byServer>>
             ELSE latest' = [latest EXCEPT ![c] = v] /\ byServer' = [byServer EXCEPT ![c] = TRUE]
  BY DEF Write
<1> DEFINE result == ReturnValue(error, refused)
           lost == result = "PARAM_OUT_OF_RANGE"
<1>1. /\ table' = [table EXCEPT ![c] = IF lost THEN table[c] ELSE v]
      /\ lost => latest' = latest /\ byServer' = byServer
      /\ ~lost => /\ latest' = [latest EXCEPT ![c] = v]
                  /\ byServer' = [byServer EXCEPT ![c] = TRUE]
      /\ inFlight' = IF Sent(c, localOnly, error) THEN Append(inFlight, u) ELSE inFlight
  <2>1. refused \in BOOLEAN
    BY DEF Refusals
  <2>2. Stored(c, v, error, refused) = IF lost THEN table[c] ELSE v
    BY <2>1, StoredOrRefused
  <2> QED
    BY <1>0, <2>2
<1>2. accepted' = [accepted EXCEPT ![c] = ~localOnly /\ result = "NONE"] /\ (result = "NONE" => ~lost)
  BY <1>0
<1>3. u \in Updates /\ u.char = c /\ u.value = v
  BY DEF Updates
<1>4. inFlight \in Seq(Updates)
  BY DEF IInv, Typed
<1>5. Typed'
  <2>1. inFlight' \in Seq(Updates)
    BY <1>1, <1>3, <1>4, AppendProperties
  <2>2. table' \in [Chars -> Values] /\ latest' \in [Chars -> Values]
    <3> HIDE DEF lost
    <3> QED
      BY <1>1 DEF IInv, Typed
  <2>3. byServer' \in [Chars -> BOOLEAN]
    <3> HIDE DEF lost
    <3>1. byServer \in [Chars -> BOOLEAN]
      BY DEF IInv, Typed
    <3>2. CASE lost
      BY <1>1, <3>1, <3>2
    <3>3. CASE ~lost
      BY <1>1, <3>1, <3>3, ZenonT(10)
    <3> QED
      BY <3>2, <3>3
  <2>4. accepted' \in [Chars -> BOOLEAN]
    <3>1. (~localOnly /\ result = "NONE") \in BOOLEAN
      OBVIOUS
    <3> HIDE DEF result
    <3> QED
      BY <1>2, <3>1, ZenonT(10) DEF IInv, Typed
  <2> QED
    BY <2>1, <2>2, <2>3, <2>4 DEF IInv, Typed
<1>6. WritesLand'
  <2>1. ASSUME NEW d \in Chars, byServer'[d] PROVE table'[d] = latest'[d]
    <3> HIDE DEF lost
    <3>1. table \in [Chars -> Values] /\ latest \in [Chars -> Values]
      BY DEF IInv, Typed
    <3>2. CASE lost
      <4>1. byServer[d] /\ latest' = latest /\ table' = [table EXCEPT ![c] = table[c]]
        BY <1>1, <2>1, <3>2
      <4>2. table[d] = latest[d]
        BY <4>1 DEF IInv, WritesLand
      <4> QED
        BY <3>1, <4>1, <4>2
    <3>3. CASE ~lost /\ d = c
      BY <1>1, <3>1, <3>3
    <3>4. CASE ~lost /\ d # c
      <4>1. byServer[d]
        BY <1>1, <2>1, <3>4, ZenonT(10) DEF IInv, Typed
      <4>2. table[d] = latest[d]
        BY <4>1 DEF IInv, WritesLand
      <4> QED
        BY <1>1, <3>1, <3>4, <4>2
    <3> QED
      BY <3>2, <3>3, <3>4
  <2> QED
    BY <2>1 DEF WritesLand
<1>7. Assured'
  <2> SUFFICES ASSUME NEW d \in Notified \cup Indicated, link', accepted'[d]
               PROVE  \/ Newest(inFlight', d, latest'[d])
                      \/ Quiet(inFlight', d) /\ told'[d] = latest'[d]
    BY DEF Assured
  <2>1. d \in Chars
    BY DEF Chars
  <2>2. CASE d = c
    <3>1. ~localOnly /\ result = "NONE"
      <4> HIDE DEF result
      <4> QED
        BY <1>2, <2>1, <2>2, ZenonT(10) DEF IInv, Typed
    <3>2. Sent(c, localOnly, error)
      BY <2>2, <3>1, AcceptedIsSent
    <3>3. inFlight' = Append(inFlight, u) /\ latest'[c] = v
      BY <1>1, <1>2, <3>1, <3>2 DEF IInv, Typed
    <3> QED
      BY <1>3, <1>4, <2>2, <3>3, SendingIt
  <2>3. CASE d # c
    <3>1. accepted[d]
      <4> HIDE DEF result
      <4> QED
        BY <1>2, <2>1, <2>3, ZenonT(10) DEF IInv, Typed
    <3>2. latest'[d] = latest[d] /\ told' = told /\ link
      <4> HIDE DEF lost
      <4> QED
        BY <1>1, <2>1, <2>3 DEF IInv, Typed
    <3>3. \/ Newest(inFlight, d, latest[d])
          \/ Quiet(inFlight, d) /\ told[d] = latest[d]
      BY <3>1, <3>2 DEF IInv, Assured
    <3> QED
      BY <1>1, <1>3, <1>4, <2>3, <3>2, <3>3, SendingAnother
  <2> QED
    BY <2>2, <2>3
<1> QED
  BY <1>5, <1>6, <1>7 DEF IInv

-----------------------------------------------------------------------------
(* The steps that write no attribute and send nothing. *)
LEMMA QuietStep ==
  ASSUME IInv, UNCHANGED <<table, latest, byServer, accepted, told, inFlight, link>>
  PROVE  IInv'
BY DEF IInv, Typed, WritesLand, Assured

LEMMA ConnectStep == ASSUME IInv, Connect PROVE IInv'
<1>1. \A c \in Chars : accepted'[c] = FALSE
  BY DEF Connect
<1>2. Typed'
  <2>1. told' \in [Chars -> Values \cup {None}]
    BY DEF Connect
  <2>2. accepted' \in [Chars -> BOOLEAN]
    BY DEF Connect
  <2>3. byServer' \in [Chars -> BOOLEAN]
    BY DEF Connect, IInv, Typed
  <2> QED
    BY <2>1, <2>2, <2>3 DEF Connect, IInv, Typed
<1>3. WritesLand'
  BY DEF Connect, IInv, WritesLand
<1>4. Assured'
  BY <1>1 DEF Assured, Chars
<1> QED
  BY <1>2, <1>3, <1>4 DEF IInv

LEMMA DisconnectStep == ASSUME IInv, Disconnect PROVE IInv'
<1>1. Typed'
  BY EmptySeq DEF Disconnect, IInv, Typed
<1>2. WritesLand'
  BY DEF Disconnect, IInv, WritesLand
<1>3. Assured'
  BY DEF Disconnect, Assured
<1> QED
  BY <1>1, <1>2, <1>3 DEF IInv

LEMMA CentralStep ==
  ASSUME IInv, NEW c \in Chars, NEW v \in Values, CentralWrites(c, v)
  PROVE  IInv'
<1>1. Typed'
  <2>1. table' \in [Chars -> Values] /\ latest' \in [Chars -> Values]
    BY DEF CentralWrites, IInv, Typed
  <2>2. byServer' \in [Chars -> BOOLEAN] /\ accepted' \in [Chars -> BOOLEAN]
    BY ZenonT(10) DEF CentralWrites, IInv, Typed
  <2>3. told' \in [Chars -> Values \cup {None}] /\ inFlight' \in Seq(Updates)
    BY DEF CentralWrites, IInv, Typed
  <2> QED
    BY <2>1, <2>2, <2>3 DEF Typed
<1>2. WritesLand'
  <2>1. ASSUME NEW d \in Chars, byServer'[d] PROVE table'[d] = latest'[d]
    <3>1. d # c /\ byServer[d]
      BY <2>1, ZenonT(10) DEF CentralWrites, IInv, Typed
    <3> QED
      BY <3>1 DEF CentralWrites, IInv, Typed, WritesLand
  <2> QED
    BY <2>1 DEF WritesLand
<1>3. Assured'
  BY DEF CentralWrites, stack, IInv, Assured
<1> QED
  BY <1>1, <1>2, <1>3 DEF IInv

LEMMA ReceiveStep == ASSUME IInv, Receive PROVE IInv'
<1> DEFINE u == Head(inFlight)
<1>1. /\ inFlight \in Seq(Updates) /\ inFlight # <<>>
      /\ told' = [told EXCEPT ![u.char] = u.value] /\ inFlight' = Tail(inFlight)
      /\ UNCHANGED <<table, link, accepted, latest, byServer>>
  BY DEF Receive, stack, IInv, Typed
<1>2. u \in Updates /\ inFlight' \in Seq(Updates)
  BY <1>1, HeadTailProperties
<1>3. u.char \in Chars /\ u.value \in Values
  BY <1>2 DEF Updates
<1>4. Typed'
  <2>1. told' \in [Chars -> Values \cup {None}]
    BY <1>1, <1>3 DEF IInv, Typed
  <2> QED
    BY <1>1, <1>2, <2>1 DEF IInv, Typed
<1>5. WritesLand'
  BY <1>1 DEF IInv, WritesLand
<1>6. Assured'
  <2> SUFFICES ASSUME NEW d \in Notified \cup Indicated, link', accepted'[d]
               PROVE  \/ Newest(inFlight', d, latest'[d])
                      \/ Quiet(inFlight', d) /\ told'[d] = latest'[d]
    BY DEF Assured
  <2>1. d \in Chars
    BY DEF Chars
  <2>2. CASE Newest(inFlight, d, latest[d])
    <3>1. CASE Newest(Tail(inFlight), d, latest[d])
      BY <1>1, <3>1
    <3>2. CASE u.char = d /\ u.value = latest[d] /\ Quiet(Tail(inFlight), d)
      BY <1>1, <2>1, <3>2 DEF IInv, Typed
    <3> QED
      BY <1>1, <2>2, <3>1, <3>2, Receiving
  <2>3. CASE Quiet(inFlight, d) /\ told[d] = latest[d]
    <3>1. u.char # d /\ Quiet(Tail(inFlight), d)
      BY <1>1, <2>3, Receiving
    <3> QED
      BY <1>1, <2>1, <2>3, <3>1 DEF IInv, Typed
  <2> QED
    BY <1>1, <2>2, <2>3 DEF IInv, Assured
<1> QED
  BY <1>4, <1>5, <1>6 DEF IInv

LEMMA WrittenStep == ASSUME IInv, HandleWritten PROVE IInv'
<1>1. CASE \E c \in Chars, v \in Values : Write(c, v, FALSE) /\ UNCHANGED <<stack, handle, told>>
  BY <1>1, WriteStep DEF stack
<1>2. CASE UNCHANGED <<table, stack, inFlight, handle, accepted, latest, byServer, told>>
  BY <1>2, QuietStep DEF stack
<1> QED
  BY <1>1, <1>2 DEF HandleWritten

LEMMA Initially == Init => IInv
<1> SUFFICES ASSUME Init PROVE IInv
  OBVIOUS
<1>1. Typed
  <2>1. byServer \in [Chars -> BOOLEAN] /\ accepted \in [Chars -> BOOLEAN]
    BY DEF Init
  <2>2. inFlight \in Seq(Updates)
    BY EmptySeq DEF Init
  <2> QED
    BY <2>1, <2>2 DEF Init, Typed
<1>2. WritesLand /\ Assured
  BY DEF Init, WritesLand, Assured
<1> QED
  BY <1>1, <1>2 DEF IInv

LEMMA Step == ASSUME IInv, [Next]_vars PROVE IInv'
<1>1. CASE UNCHANGED vars
  BY <1>1, QuietStep DEF vars, stack
<1>2. CASE EnableUpdates
  BY <1>2, QuietStep DEF EnableUpdates
<1>3. CASE Handle
  <2>1. CASE \E up \in BOOLEAN : HandleConnection(up)
    BY <2>1, QuietStep DEF HandleConnection, stack
  <2>2. CASE HandleMissing
    BY <2>2, QuietStep DEF HandleMissing
  <2>3. CASE HandleWritten
    BY <2>3, WrittenStep
  <2> QED
    BY <1>3, <2>1, <2>2, <2>3 DEF Handle
<1>4. CASE \E c \in Notified \cup Indicated : AskForUpdates(c)
  BY <1>4, QuietStep DEF AskForUpdates
<1>5. ASSUME NEW c \in Chars, NEW v \in Values, NEW localOnly \in BOOLEAN, Update(c, v, localOnly)
      PROVE  IInv'
  BY <1>5, WriteStep DEF Update, stack
<1> QED
  BY <1>1, <1>2, <1>3, <1>4, <1>5, ConnectStep, DisconnectStep, ReceiveStep, CentralStep DEF Next

(* The inductive invariant of attributes and updates. *)
THEOREM TableKept == Spec => []IInv
<1>1. IInv /\ [Next]_vars => IInv'
  BY Step
<1> QED
  BY Initially, <1>1, PTL DEF Spec

(* The attribute holds what the program last wrote, unless the central     *)
(* wrote it since, however sd_ble_gatts_hvx() answered; a write that       *)
(* sd_ble_gatts_value_set() refused too left it alone and said so.         *)
THEOREM Landed == Spec => []WritesLand
<1>1. IInv => WritesLand
  BY DEF IInv
<1> QED
  BY <1>1, TableKept, PTL

(* What write() reported as sent has reached the central or is about to.   *)
THEOREM Delivered == Spec => []NothingLostSilently
<1>1. IInv => NothingLostSilently
  <2> SUFFICES ASSUME IInv, NEW c \in Notified \cup Indicated, link, accepted[c]
               PROVE  \/ told[c] = latest[c]
                      \/ \E i \in InFlight({c}) : inFlight[i].value = latest[c]
    BY DEF NothingLostSilently
  <2>1. CASE Newest(inFlight, c, latest[c])
    BY <2>1 DEF Newest, InFlight
  <2> QED
    BY <2>1 DEF IInv, Assured
<1> QED
  BY <1>1, TableKept, PTL
=============================================================================
