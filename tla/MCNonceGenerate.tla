--------------------------- MODULE MCNonceGenerate ---------------------------
(* NonceGenerate with the sizes of the source and a pool smaller than a nonce. *)
EXTENDS NonceGenerate
=============================================================================
