------------------------------ MODULE FlatIter ------------------------------
(***************************************************************************)
(* xcb.Iterator (iter.c): the object through which a generated request     *)
(* method reads a list or structure argument.  It flattens the nested      *)
(* sequences a program passed and hands their items out in tuples of       *)
(* groupsize items, one structure of the wire format each (py_client.py).  *)
(*                                                                         *)
(* An item is an element of Atoms, a sequence of items, or an element of   *)
(* Texts: a string of one character, which is a sequence of itself; longer *)
(* strings are sequences of those, and so is an xcb.Struct.  A Python      *)
(* iterator is the sequence of what it has still to produce.  The for loop *)
(* of the generated code is the caller: it makes the Iterator, calls       *)
(* __iter__ and then next() until one raises.  The recursive calls of      *)
(* xpybIter_pop are steps of their own, because Python code runs in them.  *)
(***************************************************************************)
EXTENDS Integers, Sequences

CONSTANTS
  Atoms,       \* items that are not sequences
  Texts,       \* strings of one character
  Inputs,      \* the arguments programs pass
  Flat,        \* the atoms and strings of each item from left to right
  GroupSizes,  \* the numbers of items a structure has
  Deep         \* calls of xpybIter_pop inside one another that exhaust the stack

Items     == DOMAIN Flat
Leaves    == Atoms \union Texts
Sequences == Items \ Leaves

ASSUME ConstantsAssumption ==
  /\ GroupSizes \subseteq Nat \ {0}
  /\ Inputs \subseteq Items \ Atoms
  /\ Atoms \intersect Texts = {}
  /\ Deep \in Nat \ {0}

\* What it is to flatten: there is no other Flat for the same items.
ASSUME FlatAssumption ==
  /\ Flat \in [Items -> Seq(Leaves)]
  /\ \A x \in Items \intersect Leaves : Flat[x] = << x >>
  /\ \A x \in Items \intersect Texts : << x >> \in Sequences
  /\ \A s \in Sequences :
       /\ s \in Seq(Items)
       /\ s = << >> => Flat[s] = << >>
       /\ s # << >> => /\ Tail(s) \in Sequences
                      /\ Flat[s] = Flat[Head(s)] \o Flat[Tail(s)]

VARIABLES
  list,        \* the argument
  groupsize,   \* items to a tuple
  is_list,     \* a list of structures is expected, rather than one structure
  stack,       \* the iterators in use, the innermost last
  top,         \* index of the innermost, counted from 0
  calls,       \* calls of xpybIter_pop that are waiting for another one
  tuple,       \* what xpybIter_next has collected for the tuple it returns
  given,       \* (history) the items handed out in tuples since __iter__
  status       \* where the caller and the Iterator are

vars == << list, groupsize, is_list, stack, top, calls, tuple, given, status >>

TypeOK ==
  /\ list \in Inputs
  /\ groupsize \in GroupSizes
  /\ is_list \in BOOLEAN
  /\ stack \in Seq(Sequences) /\ top = Len(stack) - 1
  /\ status \notin { "new", "raised" } => top >= 0
  /\ calls \in 0 .. Deep
  /\ tuple \in Seq(Atoms) /\ Len(tuple) <= groupsize
  /\ given \in Seq(Atoms) /\ Len(given) % groupsize = 0
  /\ status \in { "new", "idle", "popping", "stop", "incomplete", "raised", "overflow" }

Init ==
  /\ list \in Inputs
  /\ groupsize \in GroupSizes
  /\ is_list \in BOOLEAN
  /\ stack = << >> /\ top = -1 /\ calls = 0
  /\ tuple = << >> /\ given = << >>
  /\ status = "new"

args == << list, groupsize, is_list >>

-----------------------------------------------------------------------------
\* What the iterator of an item produces.
Produces(item) == IF item \in Texts THEN << item >> ELSE item

\* xpybIter_get: __iter__ starts from the beginning.
Get ==
  /\ status = "new"
  /\ stack' = << Produces(list) >>
  /\ top' = 0
  /\ status' = "idle"
  /\ UNCHANGED << args, calls, tuple, given >>

\* xpybIter_get: no iterator can be had of the argument (a number, or an __iter__
\* that raises), and its exception goes through; the stack has an empty slot.
NotIterable ==
  /\ status = "new"
  /\ status' = "raised"
  /\ UNCHANGED << args, calls, stack, top, tuple, given >>

\* The caller calls next().
Begin ==
  /\ status = "idle"
  /\ status' = "popping"
  /\ UNCHANGED << args, calls, stack, top, tuple, given >>

\* An iterator the program passed raises an exception, which goes through.
Raise ==
  /\ status = "popping"
  /\ Len(tuple) < groupsize
  /\ status' = "raised"
  /\ tuple' = << >>
  /\ UNCHANGED << args, calls, stack, top, given >>

\* The innermost iterator, and what is left of it when it has produced an item.
Cur == stack[top + 1]
Advanced == [stack EXCEPT ![top + 1] = Tail(@)]

\* xpybIter_pop ends in a call of itself.
Recurse == calls < Deep /\ calls' = calls + 1

Popping == status = "popping" /\ Len(tuple) < groupsize

FaultyDropLevel == stack' = SubSeq(stack, 1, top) /\ UNCHANGED top

\* The slot of the innermost iterator is deleted.
DropLevel == stack' = SubSeq(stack, 1, top) /\ top' = top - 1

\* xpybIter_pop with an exhausted inner iterator goes on with the one outside.
Ascend ==
  /\ Popping
  /\ Cur = << >> /\ top >= 1
  /\ Recurse
  /\ DropLevel
  /\ UNCHANGED << args, tuple, given, status >>

\* It takes the place of the one that produced the item.
FaultyPush(item) == stack' = [stack EXCEPT ![top + 1] = item] /\ UNCHANGED top

\* An iterator is its own iterator.
AliasPush(item) == stack' = Append(Advanced, Tail(Cur)) /\ top' = top + 1

\* The iterator of the item goes on top.
Push(item) == stack' = Append(Advanced, item) /\ top' = top + 1

\* xpybIter_pop with an item that is a sequence goes on inside it.
Descend ==
  /\ Popping
  /\ Cur # << >> /\ Head(Cur) \notin Atoms
  /\ Recurse
  /\ Push(Produces(Head(Cur)))
  /\ UNCHANGED << args, tuple, given, status >>

\* Either, when the stack is exhausted: the process dies.  A compiler may turn the
\* last calls into a loop; then a string goes on until memory is exhausted.
Overflow ==
  /\ Popping
  /\ IF Cur = << >> THEN top >= 1 ELSE Head(Cur) \notin Atoms
  /\ calls = Deep
  /\ status' = "overflow"
  /\ tuple' = << >>
  /\ UNCHANGED << args, stack, top, calls, given >>

\* xpybIter_pop returns an item and xpybIter_next puts it in the tuple.
Pop ==
  /\ Popping
  /\ Cur # << >> /\ Head(Cur) \in Atoms
  /\ tuple' = Append(tuple, Head(Cur))
  /\ stack' = Advanced
  /\ calls' = 0
  /\ UNCHANGED << args, top, given, status >>

\* xpybIter_next returns a full tuple.
Return ==
  /\ status = "popping"
  /\ Len(tuple) = groupsize
  /\ given' = given \o tuple
  /\ tuple' = << >>
  /\ status' = "idle"
  /\ UNCHANGED << args, stack, top, calls >>

FaultyIncomplete == Len(tuple) > 1

\* xpybIter_next: i > 0 when the items ran out.
Incomplete == Len(tuple) > 0

\* The end is a value like any other.
FaultyOutcome == IF Incomplete THEN "incomplete" ELSE "idle"

\* NULL with the exception of xpybIter_err, or without one.
Outcome == IF Incomplete THEN "incomplete" ELSE "stop"

\* Everything is exhausted: the end of the loop, or xpybIter_err.  What was
\* collected for an incomplete tuple is thrown away.
End ==
  /\ Popping
  /\ Cur = << >> /\ top = 0
  /\ status' = Outcome
  /\ tuple' = << >>
  /\ UNCHANGED << args, stack, top, calls, given >>

Step == Get \/ Begin \/ Ascend \/ Descend \/ Overflow \/ Pop \/ Return \/ End

Next == Step \/ NotIterable \/ Raise

Spec == Init /\ [][Next]_vars

\* A function that is running goes on, and the loop calls next() again; nothing
\* obliges an iterator to raise.
FairSpec == Spec /\ WF_vars(Step)

-----------------------------------------------------------------------------
(* Properties.                                                             *)

\* The loop ends silently exactly when every item of the argument was handed
\* out in whole tuples, and with the complaint of xpybIter_err exactly when the
\* items do not make whole tuples.
EndsExactly ==
  /\ status = "stop" => given = Flat[list]
  /\ status = "incomplete" =>
       /\ Len(Flat[list]) % groupsize # 0
       /\ Len(given) + (Len(Flat[list]) % groupsize) = Len(Flat[list])

\* The loop over any argument comes to an end.
Terminates == <>(status \in { "stop", "incomplete", "raised", "overflow" })

Source ==
  INSTANCE TupleSource
    WITH items <- Len(Flat[list]),
         taken <- Len(given),
         state <- CASE status = "stop"       -> "ended"
                    [] status = "incomplete" -> "short"
                    [] status \in { "raised", "overflow" } -> "failed"
                    [] OTHER -> "going"

\* The Iterator is a TupleSource: nesting, recursion and the stack of iterators
\* make no difference to what the generated loops see.
SourceSpec == Source!Spec

\* iter.c:17-19 complains of an argument for one structure: "Too few items in
\* '%s' list (expect %d)."  So the loop never ends silently with too few.
TooFewReported ==
  status = "stop" /\ ~is_list => Len(Flat[list]) >= groupsize
=============================================================================
