------------------------------ MODULE CallChain ------------------------------
(***************************************************************************)
(* CallChainOfFunctionPointersWithContext: the list of callbacks behind    *)
(* every event of the BLE API, the newest first, and its traversal while   *)
(* the callbacks themselves attach and detach.                             *)
(*                                                                         *)
(* The linked list is a sequence of distinct objects; currentCalled is one *)
(* of them, or None for NULL.  An object added again counts as a new one.  *)
(***************************************************************************)
EXTENDS Naturals, Sequences, SequencesExt

CONSTANTS Callbacks, None,
          MaxChanges       (* bound: attachments and removals in a traversal  *)

ASSUME Chain == None \notin Callbacks /\ MaxChanges \in Nat

VARIABLES
  chain,           (* from chainHead                                         *)
  currentCalled,
  calling,         (* a callback is being executed                           *)
  changes,
  (* history: which objects the current, or last, traversal has called, how  *)
  (* often, and which have been there all along                              *)
  called, staying

chainVars == <<chain, currentCalled, calling, changes, called, staying>>

ChainHead == IF chain = <<>> THEN None ELSE Head(chain)
Attached == ToSet(chain)
IndexOf(x) == CHOOSE k \in 1..Len(chain) : chain[k] = x
GetNext(x) == IF IndexOf(x) = Len(chain) THEN None ELSE chain[IndexOf(x) + 1]
Previous(x) == IF x = ChainHead THEN None ELSE chain[IndexOf(x) - 1]

-----------------------------------------------------------------------------
(* Faults a change to the source could introduce; no action uses them. *)
KeepCurrent(x) == currentCalled
OnToNext(x) == IF currentCalled = x THEN GetNext(x) ELSE currentCalled
SameAgain == IF currentCalled = None THEN ChainHead ELSE currentCalled

Without(x) == RemoveAt(chain, IndexOf(x))

(* detach() steps currentCalled back when it removes the object it is at,  *)
(* to NULL when that is the head.                                          *)
CurrentWithout(x) == IF currentCalled = x THEN Previous(x) ELSE currentCalled

(* call(): what is called when a callback returns. *)
Following == IF currentCalled = None THEN ChainHead ELSE GetNext(currentCalled)

common_add(x) == chain' = <<x>> \o chain

(* Counted up to "more than once". *)
Again(n) == IF n = 0 THEN 1 ELSE 2

Enter(x) ==
  /\ currentCalled' = x
  /\ calling' = (x # None)

-----------------------------------------------------------------------------
Call ==
  /\ ~calling
  /\ Enter(ChainHead)
  /\ called' = [x \in Callbacks |-> IF x = ChainHead THEN 1 ELSE 0]
  /\ staying' = Attached /\ changes' = 0
  /\ UNCHANGED chain

(* A callback returns. *)
Return ==
  /\ calling
  /\ Enter(Following)
  /\ called' = [x \in Callbacks |-> IF x = Following THEN Again(called[x]) ELSE called[x]]
  /\ UNCHANGED <<chain, changes, staying>>

(* Changes, by the callback that is called or between traversals. *)
Counted == IF calling THEN changes < MaxChanges /\ changes' = changes + 1 ELSE UNCHANGED changes

Add(x) ==
  /\ x \notin Attached
  /\ common_add(x)
  /\ called' = [called EXCEPT ![x] = 0]
  /\ Counted
  /\ UNCHANGED <<currentCalled, calling, staying>>

Detach(x) ==
  /\ x \in Attached
  /\ currentCalled' = CurrentWithout(x)
  /\ chain' = Without(x)
  /\ staying' = staying \ {x}
  /\ Counted
  /\ UNCHANGED <<calling, called>>

(* clear() is part of resetting the BLE objects, outside any traversal. *)
Clear ==
  /\ ~calling
  /\ chain' = <<>> /\ staying' = {}
  /\ UNCHANGED <<currentCalled, calling, changes, called>>

ChainInit ==
  /\ chain = <<>> /\ currentCalled = None /\ calling = FALSE
  /\ changes = 0 /\ staying = {}
  /\ called = [x \in Callbacks |-> 0]

ChainNext == Call \/ Return \/ Clear \/ \E x \in Callbacks : Add(x) \/ Detach(x)

(* A callback returns. *)
ChainSpec == ChainInit /\ [][ChainNext]_chainVars /\ WF_chainVars(Return)

-----------------------------------------------------------------------------
(* "It is safe to remove a function pointer while the chain is traversed": *)
(* whatever is removed, call() goes on from an object that is not deleted. *)
CurrentIsAttached == currentCalled # None => currentCalled \in Attached

(* However the list changes, a traversal calls no callback twice; when it  *)
(* is over it has called every callback that was attached all the time,    *)
(* and before that the older ones wait for the newer: the order the        *)
(* services of this program rely on.                                       *)
EachOnce ==
  /\ \A x \in Callbacks : called[x] <= 1
  /\ ~calling => \A x \in staying : called[x] = 1
  /\ \A x, y \in staying : IndexOf(x) < IndexOf(y) /\ called[y] = 1 => called[x] = 1

(* A traversal ends if its callbacks do and change the list finitely often. *)
TraversalEnds == calling ~> ~calling
=============================================================================
