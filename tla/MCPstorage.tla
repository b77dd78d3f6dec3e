----------------------------- MODULE MCPstorage -----------------------------
(* Pstorage with three pages of six words and eight blocks of two: the last  *)
(* page is not full.  The requests reach every shape of a head, of erased    *)
(* pages in between and of a tail, and the two cases that need no swap.      *)
EXTENDS Pstorage

Request(op, block, size, offset) == [op |-> op, block |-> block, size |-> size, offset |-> offset]

MCRequests ==
  { Request("update", 0, 2, 0), Request("update", 2, 1, 1),
    Request("clear", 0, 6, 0), Request("clear", 0, 8, 0), Request("clear", 2, 12, 0),
    Request("clear", 4, 4, 0), Request("clear", 4, 12, 0), Request("clear", 12, 4, 0),
    Request("store", 4, 2, 0) }

(* No property, and no step but what it writes, depends on the contents of   *)
(* the flash once a request was overtaken: states that differ in nothing     *)
(* else are then taken for one.                                              *)
MCView ==
  IF overtaken THEN <<[m EXCEPT !.flashOp = @.kind], [k \in 1..Len(ends) |-> ends[k].ok], accepted>>
               ELSE <<vars>>
=============================================================================
