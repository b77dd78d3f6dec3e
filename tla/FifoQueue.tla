------------------------------ MODULE FifoQueue ------------------------------
(***************************************************************************)
(* What the event scheduler promises: events wait in the order in which    *)
(* they were accepted, at most Capacity of them, and are handled one at a  *)
(* time; the event being handled does not change.                          *)
(***************************************************************************)
EXTENDS Naturals, Sequences

CONSTANTS Events, Capacity, NoEvent

VARIABLES waiting, current

Accept(e) == /\ Len(waiting) < Capacity
             /\ waiting' = Append(waiting, e)
             /\ UNCHANGED current

Take == /\ current = NoEvent /\ waiting # <<>>
        /\ current' = Head(waiting)
        /\ waiting' = Tail(waiting)

Finish == /\ current # NoEvent
          /\ current' = NoEvent
          /\ UNCHANGED waiting

Init == waiting = <<>> /\ current = NoEvent

Next == (\E e \in Events : Accept(e)) \/ Take \/ Finish

Spec == /\ Init /\ [][Next]_<<waiting, current>>
        /\ WF_<<waiting, current>>(Take) /\ WF_<<waiting, current>>(Finish)
=============================================================================
