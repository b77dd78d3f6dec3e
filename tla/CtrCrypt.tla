------------------------------ MODULE CtrCrypt ------------------------------
(***************************************************************************)
(* The counter-mode cipher of crypt.h, down to what decides whether a      *)
(* decryption undoes an encryption: which block of the key stream a call   *)
(* to crypt() has XORed into the buffer.                                   *)
(*                                                                         *)
(* A buffer is a text and the set of blocks still XORed into it: XORing    *)
(* the same block twice leaves the text as it was.  A block is determined  *)
(* by the cleartext it encrypts, the nonce and the counter (the key never  *)
(* changes).  The 32-bit counter is not given its width: every use starts  *)
(* with ctr_init(), so that it never counts beyond 2.                      *)
(***************************************************************************)
EXTENDS Naturals

Plain(text) == [text |-> text, mask |-> {}]

(* m_ecb_data.cleartext after ctr_init(): the nonce, the counter zeroed. *)
ctr_init(nonce) == [nonce |-> nonce, counter |-> 0]

Increment(ecb) == [ecb EXCEPT !.counter = @ + 1]

XorBlock(buffer, block) ==
  [buffer EXCEPT !.mask = (@ \ {block}) \cup ({block} \ @)]

(* crypt() XORs the block of the current counter, then increments it.  Its *)
(* error returns are left out: every use comes after a ctr_init(), and     *)
(* sd_ecb_block_encrypt() fails only while the SoftDevice is not enabled   *)
(* (crypt.h:127); it is enabled before the first connection.               *)
crypt(state) == [buffer |-> XorBlock(state.buffer, state.ecb), ecb |-> Increment(state.ecb)]

(* ctr_init() again, on whatever crypt() left. *)
restart(nonce, state) == [state EXCEPT !.ecb = ctr_init(nonce)]
=============================================================================
