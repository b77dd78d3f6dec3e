-------------------------- MODULE ImobStateService --------------------------
(***************************************************************************)
(* ImobStateService (src/ImobStateService.h): the state of a session and   *)
(* the callbacks that change it.  The operators below are the callbacks    *)
(* and the functions they call, as parts of an action: each says what      *)
(* becomes of this module's variables.  ImobSession makes them actions.    *)
(*                                                                         *)
(* Only complete writes matter here: a write of another length fails every *)
(* test of its length and is a write to "other".                           *)
(***************************************************************************)
EXTENDS CtrCrypt

CONSTANTS Macs,          (* addresses a peer may connect from                *)
          DefaultMac,    (* defaultMac, all zero                             *)
          Passwords,     (* passwords a peer may write                       *)
          CorrectPass,   (* correctPass, set from the device id              *)
          DefaultPass,   (* defaultPass, all zero                            *)
          Nonces,        (* what nonce_generate() may return                 *)
          DefaultNonce   (* the nonce filled from defaultPass                *)

ASSUME SessionValues == /\ DefaultMac \notin Macs
                        /\ CorrectPass \in Passwords
                        /\ DefaultPass # CorrectPass
                        /\ Nonces # {}
                        /\ DefaultNonce \notin Nonces

VARIABLES authenticated, activated, userIsConnected, initial_activation,
          passUpdated, nonceUpdated, pass, nonce, recentMac

sessionVars == <<authenticated, activated, userIsConnected, initial_activation,
                 passUpdated, nonceUpdated, pass, nonce, recentMac>>

Writes == [char: {"pass"}, data: Passwords]
            \cup [char: {"activation"}, data: {"one", "notOne"}]
            \cup [char: {"nonce", "relay", "other"}, data: {"any"}]

SessionInit == /\ authenticated = FALSE
               /\ activated = FALSE
               /\ userIsConnected = FALSE
               /\ initial_activation = FALSE
               /\ passUpdated = FALSE
               /\ nonceUpdated = FALSE
               /\ pass = Plain(DefaultPass)
               /\ nonce = DefaultNonce
               /\ recentMac = DefaultMac

-----------------------------------------------------------------------------
(* Faults a change to the source could introduce; no action uses them. *)
AsDecryptedOnOneCounter(text, n) ==
  crypt(crypt([buffer |-> Plain(text), ecb |-> ctr_init(n)])).buffer

KeepAuthenticated == /\ UNCHANGED authenticated
                     /\ passUpdated' = FALSE
                     /\ pass' = Plain(DefaultPass)

WriteActivationUnchecked(w) == /\ w.char = "activation"
                               /\ activated' = (w.data = "one")
                               /\ UNCHANGED <<authenticated, initial_activation, passUpdated,
                                              pass, nonceUpdated, nonce>>

(* updateAuthenticationPassValues(): for the tests the text is encrypted   *)
(* here, with the counter at 0, and decrypted with the counter at 0 again. *)
AsDecrypted(text, n) ==
  crypt(restart(n, crypt([buffer |-> Plain(text), ecb |-> ctr_init(n)]))).buffer

resetAuthenticationValues == /\ authenticated' = FALSE
                             /\ passUpdated' = FALSE
                             /\ pass' = Plain(DefaultPass)

updateActivationValue(data) == activated' = (data = "one")

(* The end of onDataWritten(), whatever was written: if (passUpdated) ... *)
CheckPass(updated, buffer) ==
  \/ /\ ~updated
     /\ passUpdated' = FALSE
     /\ pass' = buffer
     /\ UNCHANGED <<authenticated, initial_activation>>
  \/ /\ updated
     /\ buffer = Plain(CorrectPass)
     /\ authenticated' = TRUE
     /\ initial_activation' = TRUE
     /\ passUpdated' = TRUE
     /\ pass' = buffer
  \/ /\ updated
     /\ buffer # Plain(CorrectPass)
     /\ resetAuthenticationValues
     /\ UNCHANGED initial_activation

WritePass(w) == /\ w.char = "pass"
                /\ nonceUpdated
                /\ CheckPass(TRUE, AsDecrypted(w.data, nonce))
                /\ UNCHANGED <<activated, nonceUpdated, nonce>>

(* updateAuthenticationNonceValues(): the nonce written is not used. *)
WriteNonce(w) == /\ w.char = "nonce"
                 /\ nonceUpdated' = TRUE
                 /\ nonce' \in Nonces
                 /\ CheckPass(passUpdated, pass)
                 /\ UNCHANGED activated

WriteActivation(w) == /\ w.char = "activation"
                      /\ authenticated
                      /\ updateActivationValue(w.data)
                      /\ CheckPass(passUpdated, pass)
                      /\ UNCHANGED <<nonceUpdated, nonce>>

WriteIgnored(w) == /\ w.char = "pass" => ~nonceUpdated
                   /\ w.char # "nonce"
                   /\ w.char = "activation" => ~authenticated
                   /\ CheckPass(passUpdated, pass)
                   /\ UNCHANGED <<activated, nonceUpdated, nonce>>

onDataWritten(w) ==
  /\ WritePass(w) \/ WriteNonce(w) \/ WriteActivation(w) \/ WriteIgnored(w)
  /\ UNCHANGED <<userIsConnected, recentMac>>

onDisconnectionFilter ==
  /\ resetAuthenticationValues
  /\ userIsConnected' = FALSE
  /\ UNCHANGED <<activated, initial_activation, nonceUpdated, nonce, recentMac>>

(* A peer with another address than the last one has to write a nonce anew. *)
onConnectionFilter(mac) ==
  /\ userIsConnected' = TRUE
  /\ recentMac' = mac
  /\ nonceUpdated' = (nonceUpdated /\ mac = recentMac)
  /\ nonce' = IF mac = recentMac THEN nonce ELSE DefaultNonce
  /\ UNCHANGED <<authenticated, activated, initial_activation, passUpdated, pass>>
=============================================================================
