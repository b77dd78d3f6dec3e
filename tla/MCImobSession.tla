---------------------------- MODULE MCImobSession ---------------------------
(* ImobSession with one or two peers, a correct and a wrong password, one  *)
(* generated nonce, and times of one run of the body.                      *)
EXTENDS ImobSession

CONSTANTS m0, m1, m2, good, bad, zero, n0, n1   (* model values *)
=============================================================================
