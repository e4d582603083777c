----------------------------- MODULE TupleSource -----------------------------
(***************************************************************************)
(* What the loops of generated request methods rely on of xcb.Iterator:    *)
(* however the items of an argument are nested, the loop gets them         *)
(* groupsize at a time until all are gone, and hears of it when the last   *)
(* ones do not make a whole tuple.  FlatIter implements this; Marshal      *)
(* builds on it.                                                           *)
(***************************************************************************)
EXTENDS Integers

VARIABLES
  items,       \* how many items the argument has
  groupsize,   \* items to a tuple
  taken,       \* items handed out
  state        \* of the loop

vars == << items, groupsize, taken, state >>

Init ==
  /\ items \in Nat
  /\ groupsize \in Nat \ {0}
  /\ taken = 0
  /\ state = "going"

\* The next tuple, which is whole.
Tuple ==
  /\ state = "going"
  /\ taken + groupsize <= items
  /\ taken' = taken + groupsize
  /\ UNCHANGED << items, groupsize, state >>

\* The loop ends when nothing is left.
Exhausted ==
  /\ state = "going"
  /\ taken = items
  /\ state' = "ended"
  /\ UNCHANGED << items, groupsize, taken >>

\* Items are left, too few for a tuple.
Short ==
  /\ state = "going"
  /\ taken < items /\ items < taken + groupsize
  /\ state' = "short"
  /\ UNCHANGED << items, groupsize, taken >>

\* An iterator of the program fails, or there is no end to an item.
Fail ==
  /\ state = "going"
  /\ state' = "failed"
  /\ UNCHANGED << items, groupsize, taken >>

Next == Tuple \/ Exhausted \/ Short \/ Fail

Spec == Init /\ [][Next]_vars
=============================================================================
