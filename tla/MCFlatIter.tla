----------------------------- MODULE MCFlatIter -----------------------------
(***************************************************************************)
(* Instances of FlatIter: every argument of up to three items, each an     *)
(* atom or a sequence of up to two atoms, some that nest deeper, and some  *)
(* with strings.  Deep is so small that three sequences between two items  *)
(* exhaust the stack.                                                      *)
(***************************************************************************)
EXTENDS FlatIter, SequencesExt

CONSTANTS a, b, x

MCAtoms == {a, b}
MCTexts == {x}
Pairs   == BoundedSeq(MCAtoms, 2)
Shallow == BoundedSeq(MCAtoms \union Pairs, 2)

MCInputs == BoundedSeq(MCAtoms \union Pairs, 3)
              \union { << s >> : s \in Shallow }
              \union { << a, s, b >> : s \in Shallow }
              \union MCTexts \union BoundedSeq({ a, x, << >>, << a >>, << x, x >> }, 2)

\* The items of an argument, and what iterators of them may have left.
RECURSIVE Parts(_)
Parts(item) ==
  {item} \union
    IF item \in MCAtoms THEN {}
    ELSE IF item \in MCTexts THEN { << item >>, << >> }
    ELSE IF item = << >> THEN {}
    ELSE Parts(Head(item)) \union Parts(Tail(item))

RECURSIVE Flatten(_)
Flatten(item) ==
  IF item \in MCAtoms \union MCTexts THEN << item >>
  ELSE FlattenSeq([i \in 1 .. Len(item) |-> Flatten(item[i])])

MCItems == UNION { Parts(l) : l \in MCInputs }
MCFlat  == [ item \in MCItems |-> Flatten(item) ]

-----------------------------------------------------------------------------
(* Properties that count or collect through the nesting of sequences.      *)

\* At every point the tuples handed out, the one being filled and what the
\* iterators on the stack have still to produce, the innermost first, are the
\* flattened argument: no nesting loses, repeats or reorders an item.
NothingLost ==
  status \in { "idle", "popping" } =>
    given \o tuple \o Flatten(Reverse(stack)) = Flat[list]

HasText == \E i \in 1 .. Len(Flat[list]) : Flat[list][i] \in Texts

\* The sequences in an item.
RECURSIVE SequencesIn(_)
SequencesIn(item) ==
  IF item \in Leaves THEN 0
  ELSE 1 + FoldSeq(+, 0, [i \in 1 .. Len(item) |-> SequencesIn(item[i])])

\* A string anywhere in the argument exhausts the stack unless an iterator raises
\* before it is reached, for it is neither an item nor has an end.  Sequences do
\* only if half as many as there can be calls lie between two items.
OverflowsOnlyWhen ==
  /\ status = "overflow" => HasText \/ 2 * (SequencesIn(list) - 1) > Deep
  /\ status \in { "stop", "incomplete" } => ~HasText
=============================================================================
