---------------------------- MODULE NonceGenerate ----------------------------
(***************************************************************************)
(* nonce_generate() of crypt.h: the random half of a counter block is      *)
(* collected from the SoftDevice's pool, which fills while the function    *)
(* waits inside a BLE callback, and may hold any number of bytes when it   *)
(* is asked.                                                               *)
(***************************************************************************)
EXTENDS Naturals

CONSTANTS COUNTER_BYTE_LEN, NONCE_RAND_BYTE_LEN, (* 4 and 12                 *)
          PoolSize                               (* capacity of the pool     *)

ASSUME NonceBounds == /\ {COUNTER_BYTE_LEN, NONCE_RAND_BYTE_LEN} \subseteq Nat
                      /\ PoolSize \in Nat \ {0}

VARIABLES i, remaining,  (* locals of the function                           *)
          pool,          (* random bytes the SoftDevice holds                *)
          filled         (* history: how often each byte of p_buf was set    *)

nonceVars == <<i, remaining, pool, filled>>

Block == 0..(COUNTER_BYTE_LEN + NONCE_RAND_BYTE_LEN - 1)

-----------------------------------------------------------------------------
(* Faults a change to the source could introduce; no action uses them. *)
FromStart(n) == {k \in Block : COUNTER_BYTE_LEN <= k /\ k < COUNTER_BYTE_LEN + n}
AllAtOnce(n) == IF n < remaining THEN 0 ELSE remaining

Available(n) == IF n > remaining THEN remaining ELSE n

(* The bytes sd_rand_application_vector_get(p_buf + i, n) sets. *)
Region(n) == {k \in Block : i <= k /\ k < i + n}

Advance(n) == i' = i + n /\ remaining' = remaining - n

(* One iteration of the loop, its delay left out. *)
Iterate ==
  LET available == Available(pool) IN
  /\ remaining # 0
  /\ filled' = [k \in Block |-> IF k \in Region(available) THEN filled[k] + 1 ELSE filled[k]]
  /\ Advance(available)
  /\ pool' = pool - available

Refill == pool < PoolSize /\ pool' = pool + 1 /\ UNCHANGED <<i, remaining, filled>>

NonceInit == /\ i = COUNTER_BYTE_LEN /\ remaining = NONCE_RAND_BYTE_LEN
             /\ pool \in 0..PoolSize
             /\ filled = [k \in Block |-> 0]

NonceNext == Iterate \/ Refill

(* The loop runs on, and the generator keeps producing. *)
NonceSpec == /\ NonceInit /\ [][NonceNext]_nonceVars
             /\ WF_nonceVars(Iterate) /\ WF_nonceVars(Refill)

-----------------------------------------------------------------------------
(* The type invariant; the uint8_t counters never pass the end of a block. *)
NonceTypeOK == /\ i \in COUNTER_BYTE_LEN..(COUNTER_BYTE_LEN + NONCE_RAND_BYTE_LEN)
               /\ remaining \in 0..NONCE_RAND_BYTE_LEN
               /\ pool \in 0..PoolSize
               /\ filled \in [Block -> Nat]

(* However the pool doles them out, every byte before the index, and none  *)
(* behind it, has been set, once; the counter's bytes are never touched.   *)
OncePerByte ==
  \A k \in Block : filled[k] = IF COUNTER_BYTE_LEN <= k /\ k < i THEN 1 ELSE 0

(* When the loop ends the whole nonce is random. *)
NonceComplete ==
  remaining = 0 => \A k \in Block : k >= COUNTER_BYTE_LEN => filled[k] = 1

(* A peer that connects is not left waiting: the loop ends. *)
NonceEnds == <>(remaining = 0)
=============================================================================
