-------------------------- MODULE FlatIter_proofs --------------------------
(***************************************************************************)
(* Proofs about FlatIter, for arguments of any size and nesting and        *)
(* structures of any size: the Iterator loses no item, ends exactly and is *)
(* a TupleSource.                                                          *)
(*                                                                         *)
(* What the iterators on the stack have still to produce is a sum over the *)
(* stack.  To reason about it without recursion it is described by what is *)
(* left from each level outwards: Left says that there are such sequences. *)
(***************************************************************************)
EXTENDS FlatIter, SequenceTheorems, TLAPS

\* rest[i] is what the iterators st[i], st[i - 1], ... st[1] have still to produce.
IsRest(rest, st) ==
  /\ rest \in [0 .. Len(st) -> Seq(Leaves)]
  /\ rest[0] = << >>
  /\ \A i \in 1 .. Len(st) : rest[i] = Flat[st[i]] \o rest[i - 1]

\* The iterators st have still to produce r, the innermost first.
Left(st, r) == \E rest : IsRest(rest, st) /\ rest[Len(st)] = r

-----------------------------------------------------------------------------
(* Flattening and the stack.                                               *)

\* Flattening yields sequences of leaves.
LEMMA FlatType == \A item \in Items : Flat[item] \in Seq(Leaves)
BY FlatAssumption

\* What is left of a sequence after its first item.
LEMMA FlatStep ==
  ASSUME NEW s \in Sequences, s # << >>
  PROVE  /\ Head(s) \in Items /\ Tail(s) \in Sequences
         /\ Flat[s] = Flat[Head(s)] \o Flat[Tail(s)]
<1>1. s \in Seq(Items)
  BY FlatAssumption
<1> QED BY <1>1, FlatAssumption, HeadTailProperties

\* The iterator of a string of one character produces the string.
LEMMA FlatProduces ==
  ASSUME NEW item \in Items, item \notin Atoms
  PROVE  Produces(item) \in Sequences /\ Flat[Produces(item)] = Flat[item]
<1>1. CASE item \in Texts
  <2>1. << item >> \in Sequences /\ << item >> # << >>
    BY <1>1, FlatAssumption
  <2>2. Head(<< item >>) = item /\ Tail(<< item >>) = << >>
    OBVIOUS
  <2>3. Flat[<< item >>] = Flat[item] \o Flat[<< >>] /\ << >> \in Sequences
    BY <2>1, <2>2, FlatStep
  <2>4. Flat[<< >>] = << >>
    BY <2>3, FlatAssumption
  <2>5. Flat[item] \o << >> = Flat[item]
    BY FlatType, ConcatEmptySeq
  <2> QED BY <1>1, <2>1, <2>3, <2>4, <2>5 DEF Produces
<1>2. CASE item \notin Texts
  BY <1>2 DEF Produces, Sequences, Leaves
<1> QED BY <1>1, <1>2

\* Nothing is in an empty sequence.
LEMMA FlatEmpty == ASSUME << >> \in Sequences PROVE Flat[<< >>] = << >>
BY FlatAssumption

\* Concatenation in the form the proofs below need.
LEMMA Regroup == \A p, q, u \in Seq(Leaves) : (p \o q) \o u = p \o (q \o u)
BY ConcatAssociative

\* One iterator, just made.
LEMMA LeftOne ==
  ASSUME NEW s \in Sequences
  PROVE  Left(<< s >>, Flat[s])
<1> DEFINE rest == [i \in 0 .. 1 |-> IF i = 0 THEN << >> ELSE Flat[s]]
<1>0. Flat[s] \in Seq(Leaves) /\ << >> \in Seq(Leaves)
  BY FlatType, EmptySeq DEF Sequences
<1>1. Flat[s] \o << >> = Flat[s]
  BY <1>0, ConcatEmptySeq
<1>2. rest \in [0 .. 1 -> Seq(Leaves)] /\ rest[0] = << >> /\ rest[1] = Flat[s]
  BY <1>0
<1>3. Len(<< s >>) = 1 /\ << s >>[1] = s
  OBVIOUS
<1> HIDE DEF rest
<1>4. IsRest(rest, << s >>)
  <2>1. ASSUME NEW i \in 1 .. 1 PROVE rest[i] = Flat[<< s >>[i]] \o rest[i - 1]
    <3>1. i = 1 /\ i - 1 = 0
      OBVIOUS
    <3>2. Flat[<< s >>[i]] = Flat[s]
      BY <1>3, <3>1
    <3> QED BY <1>1, <1>2, <3>1, <3>2
  <2> QED BY <1>2, <1>3, <2>1 DEF IsRest
<1> QED BY <1>2, <1>3, <1>4 DEF Left

\* One iterator that is exhausted has nothing left.
LEMMA LeftNothing ==
  ASSUME NEW st \in Seq(Sequences), Len(st) = 1, st[1] = << >>, NEW r, Left(st, r)
  PROVE  r = << >>
<1>1. PICK rest : IsRest(rest, st) /\ rest[Len(st)] = r
  BY DEF Left
<1>2. rest[1] = Flat[st[1]] \o rest[0] /\ rest[0] = << >>
  <2>1. 1 \in 1 .. Len(st) /\ 1 - 1 = 0
    OBVIOUS
  <2>2. rest[1] = Flat[st[1]] \o rest[1 - 1]
    BY <1>1, <2>1, Zenon DEF IsRest
  <2> QED BY <1>1, <2>1, <2>2 DEF IsRest
<1>3. Flat[<< >>] = << >>
  <2>1. 1 \in 1 .. Len(st)
    OBVIOUS
  <2>2. st[1] \in Sequences
    BY <2>1, ElementOfSeq, Zenon
  <2> QED BY <2>2, FlatEmpty
<1>4. << >> \o << >> = << >>
  BY EmptySeq, ConcatEmptySeq
<1> QED BY <1>1, <1>2, <1>3, <1>4

\* Dropping an exhausted iterator loses nothing.
LEMMA LeftDrop ==
  ASSUME NEW st \in Seq(Sequences), Len(st) >= 2, st[Len(st)] = << >>,
         NEW r, Left(st, r)
  PROVE  Left(SubSeq(st, 1, Len(st) - 1), r)
<1> DEFINE n == Len(st) - 1
           low == SubSeq(st, 1, n)
<1>1. PICK rest : IsRest(rest, st) /\ rest[Len(st)] = r
  BY DEF Left
<1> DEFINE rest2 == [i \in 0 .. n |-> rest[i]]
<1>2. n \in Nat /\ n >= 1 /\ Len(st) = n + 1
  BY LenProperties
<1>3. Len(low) = n /\ \A i \in 1 .. n : low[i] = st[i]
  BY <1>2
<1>4. rest \in [0 .. n + 1 -> Seq(Leaves)] /\ rest[0] = << >>
      /\ \A i \in 1 .. n + 1 : rest[i] = Flat[st[i]] \o rest[i - 1]
  BY <1>1, <1>2 DEF IsRest
<1>5. rest[n + 1] = rest[n]
  <2>1. rest[n + 1] = Flat[<< >>] \o rest[n]
    <3>1. n + 1 \in 1 .. n + 1 /\ (n + 1) - 1 = n
      BY <1>2
    <3>2. rest[n + 1] = Flat[st[n + 1]] \o rest[(n + 1) - 1]
      BY <1>4, <3>1, Zenon
    <3>3. st[n + 1] = << >>
      BY <1>2
    <3> QED BY <3>1, <3>2, <3>3
  <2>2. Flat[<< >>] = << >>
    <3>1. st[Len(st)] \in Sequences
      BY <1>2, ElementOfSeq
    <3> QED BY <3>1, FlatEmpty
  <2> QED BY <1>2, <1>4, <2>1, <2>2, ConcatEmptySeq
<1> HIDE DEF n, low
<1>6. rest2 \in [0 .. n -> Seq(Leaves)] /\ \A i \in 0 .. n : rest2[i] = rest[i]
  BY <1>2, <1>4
<1> HIDE DEF rest2
<1>7. IsRest(rest2, low)
  <2>1. rest2[0] = << >>
    BY <1>2, <1>4, <1>6
  <2>2. ASSUME NEW i \in 1 .. n PROVE rest2[i] = Flat[low[i]] \o rest2[i - 1]
    <3>1. i \in 1 .. n + 1 /\ i \in 0 .. n /\ i - 1 \in 0 .. n
      BY <1>2
    <3>2. rest[i] = Flat[st[i]] \o rest[i - 1]
      BY <1>4, <3>1, Zenon
    <3>3. rest2[i] = rest[i] /\ rest2[i - 1] = rest[i - 1] /\ low[i] = st[i]
      BY <1>3, <1>6, <3>1
    <3> QED BY <3>2, <3>3
  <2> QED BY <1>3, <1>6, <2>1, <2>2 DEF IsRest
<1>8. rest2[Len(low)] = r
  BY <1>1, <1>2, <1>3, <1>5, <1>6
<1>9. Left(low, r)
  BY <1>7, <1>8 DEF Left
<1> QED BY <1>9 DEF low, n

\* The innermost iterator produces an item: the rest is left.
LEMMA LeftAdvance ==
  ASSUME NEW st \in Seq(Sequences), Len(st) >= 1, st[Len(st)] # << >>,
         NEW r, Left(st, r)
  PROVE  \E r2 \in Seq(Leaves) :
           /\ Left([st EXCEPT ![Len(st)] = Tail(@)], r2)
           /\ r = Flat[Head(st[Len(st)])] \o r2
<1> DEFINE n == Len(st)
           cur == st[n]
           st2 == [st EXCEPT ![n] = Tail(@)]
<1>1. PICK rest : IsRest(rest, st) /\ rest[Len(st)] = r
  BY DEF Left
<1>2. n \in Nat /\ n >= 1 /\ n - 1 \in 0 .. n
  BY LenProperties
<1>3. cur \in Sequences /\ cur # << >>
  BY <1>2, ElementOfSeq
<1>4. /\ Head(cur) \in Items /\ Tail(cur) \in Sequences
      /\ Flat[cur] = Flat[Head(cur)] \o Flat[Tail(cur)]
  BY <1>3, FlatStep
<1>5. Len(st2) = n /\ st2[n] = Tail(cur) /\ \A i \in 1 .. n : i # n => st2[i] = st[i]
  BY <1>2, <1>4, ExceptSeq
<1>6. rest \in [0 .. n -> Seq(Leaves)] /\ rest[0] = << >>
      /\ \A i \in 1 .. n : rest[i] = Flat[st[i]] \o rest[i - 1]
  BY <1>1 DEF IsRest
<1> DEFINE r2 == Flat[Tail(cur)] \o rest[n - 1]
           rest2 == [rest EXCEPT ![n] = r2]
<1>7. /\ Flat[Head(cur)] \in Seq(Leaves) /\ Flat[Tail(cur)] \in Seq(Leaves)
      /\ rest[n - 1] \in Seq(Leaves)
  BY <1>2, <1>4, <1>6, FlatType DEF Sequences
<1>8. r2 \in Seq(Leaves)
  BY <1>7, ConcatProperties
<1>9. r = Flat[Head(cur)] \o r2
  <2>1. r = Flat[cur] \o rest[n - 1]
    <3>1. n \in 1 .. n
      BY <1>2
    <3> QED BY <1>1, <1>6, <3>1, Zenon
  <2>2. (Flat[Head(cur)] \o Flat[Tail(cur)]) \o rest[n - 1]
          = Flat[Head(cur)] \o (Flat[Tail(cur)] \o rest[n - 1])
    BY <1>7, Regroup, Zenon
  <2> QED BY <1>4, <2>1, <2>2
<1> HIDE DEF n, cur, st2, r2
<1>10. /\ rest2 \in [0 .. n -> Seq(Leaves)]
       /\ rest2[n] = r2 /\ \A i \in 0 .. n : i # n => rest2[i] = rest[i]
  BY <1>2, <1>6, <1>8
<1> HIDE DEF rest2
<1>11. IsRest(rest2, st2)
  <2>1. rest2[0] = << >>
    BY <1>2, <1>6, <1>10
  <2>2. ASSUME NEW i \in 1 .. n PROVE rest2[i] = Flat[st2[i]] \o rest2[i - 1]
    <3>1. i - 1 \in 0 .. n /\ i - 1 # n
      BY <1>2
    <3>2. CASE i = n
      BY <1>5, <1>10, <3>1, <3>2 DEF r2
    <3>3. CASE i # n
      <4>1. rest[i] = Flat[st[i]] \o rest[i - 1]
        BY <1>6, Zenon
      <4>2. rest2[i] = rest[i] /\ rest2[i - 1] = rest[i - 1] /\ st2[i] = st[i]
        BY <1>2, <1>5, <1>10, <3>1, <3>3
      <4> QED BY <4>1, <4>2
    <3> QED BY <3>2, <3>3
  <2> QED BY <1>5, <1>10, <2>1, <2>2 DEF IsRest
<1>12. Left(st2, r2)
  BY <1>5, <1>10, <1>11 DEF Left
<1> QED BY <1>8, <1>9, <1>12 DEF n, cur, st2

\* The iterator of a sequence goes on top.
LEMMA LeftPush ==
  ASSUME NEW st \in Seq(Sequences), NEW s \in Sequences, NEW r, Left(st, r)
  PROVE  Left(Append(st, s), Flat[s] \o r)
<1> DEFINE n == Len(st)
           st2 == Append(st, s)
<1>1. PICK rest : IsRest(rest, st) /\ rest[Len(st)] = r
  BY DEF Left
<1>2. n \in Nat
  BY LenProperties
<1>3. Len(st2) = n + 1 /\ st2[n + 1] = s /\ \A i \in 1 .. n : st2[i] = st[i]
  OBVIOUS
<1>4. rest \in [0 .. n -> Seq(Leaves)] /\ rest[0] = << >>
      /\ \A i \in 1 .. n : rest[i] = Flat[st[i]] \o rest[i - 1]
  BY <1>1 DEF IsRest
<1> DEFINE r3 == Flat[s] \o r
<1> DEFINE rest2 == [i \in 0 .. n + 1 |-> IF i <= n THEN rest[i] ELSE r3]
<1>5. r3 \in Seq(Leaves)
  BY <1>1, <1>2, <1>4, FlatType, ConcatProperties DEF Sequences
<1> HIDE DEF n, st2, r3
<1>6. /\ rest2 \in [0 .. n + 1 -> Seq(Leaves)]
      /\ rest2[n + 1] = r3 /\ \A i \in 0 .. n : rest2[i] = rest[i]
  BY <1>2, <1>4, <1>5
<1> HIDE DEF rest2
<1>7. IsRest(rest2, st2)
  <2>1. rest2[0] = << >>
    BY <1>2, <1>4, <1>6
  <2>2. ASSUME NEW i \in 1 .. n + 1 PROVE rest2[i] = Flat[st2[i]] \o rest2[i - 1]
    <3>1. i - 1 \in 0 .. n
      BY <1>2
    <3>2. CASE i = n + 1
      <4>1. rest[n] = r
        BY <1>1 DEF n
      <4>2. rest2[i] = r3 /\ rest2[i - 1] = rest[n] /\ st2[i] = s
        BY <1>2, <1>3, <1>6, <3>1, <3>2
      <4> QED BY <4>1, <4>2 DEF r3
    <3>3. CASE i # n + 1
      <4>0. i \in 1 .. n /\ i \in 0 .. n
        BY <1>2, <3>3
      <4>1. rest[i] = Flat[st[i]] \o rest[i - 1]
        BY <1>4, <4>0, Zenon
      <4>2. rest2[i] = rest[i] /\ rest2[i - 1] = rest[i - 1] /\ st2[i] = st[i]
        BY <1>3, <1>6, <3>1, <4>0
      <4> QED BY <4>1, <4>2
    <3> QED BY <3>2, <3>3
  <2> QED BY <1>3, <1>6, <2>1, <2>2 DEF IsRest
<1>8. Left(st2, r3)
  BY <1>3, <1>6, <1>7 DEF Left
<1> QED BY <1>8 DEF st2, r3
-----------------------------------------------------------------------------
(* The inductive invariant.                                                *)

\* Nothing has been handed out before __iter__.
Fresh == status = "new" => given = << >> /\ tuple = << >>

\* NothingLost of MCFlatIter without the recursion: the tuples handed out, the
\* one being filled and what is left on the stack are the flattened argument.
NoItemLost ==
  status \in { "idle", "popping" } =>
    \E r \in Seq(Leaves) : Left(stack, r) /\ given \o tuple \o r = Flat[list]

IInv == TypeOK /\ Fresh /\ NoItemLost /\ EndsExactly

\* Atoms are among the leaves, and so are sequences of them.
LEMMA AtomSequences == Seq(Atoms) \subseteq Seq(Leaves)
<1>1. Atoms \subseteq Leaves
  BY DEF Leaves
<1>2. \A q \in Seq(Atoms) : q \in Seq(Leaves)
  BY <1>1
<1> QED BY <1>2

\* The argument can be iterated, and can be flattened.
LEMMA ArgumentType ==
  ASSUME TypeOK
  PROVE  /\ list \in Items /\ list \notin Atoms
         /\ Flat[list] \in Seq(Leaves)
         /\ Len(Flat[list]) \in Nat
         /\ groupsize \in Nat /\ groupsize > 0
<1>1. list \in Items /\ list \notin Atoms
  BY ConstantsAssumption DEF TypeOK
<1>2. Flat[list] \in Seq(Leaves)
  BY <1>1, FlatType
<1> QED BY <1>1, <1>2, ConstantsAssumption DEF TypeOK

\* The innermost iterator is the last of the stack.
LEMMA Innermost ==
  ASSUME TypeOK, status \notin { "new", "raised" }
  PROVE  /\ Len(stack) \in Nat /\ Len(stack) >= 1 /\ top + 1 = Len(stack)
         /\ Cur = stack[Len(stack)] /\ Cur \in Sequences
         /\ Advanced = [stack EXCEPT ![Len(stack)] = Tail(@)]
<1>1. stack \in Seq(Sequences) /\ top = Len(stack) - 1 /\ top >= 0
  BY DEF TypeOK
<1>2. Len(stack) \in Nat /\ Len(stack) >= 1 /\ top + 1 = Len(stack)
  BY <1>1, LenProperties
<1>3. stack[Len(stack)] \in Sequences
  BY <1>1, <1>2, ElementOfSeq
<1> QED BY <1>2, <1>3 DEF Cur, Advanced

\* The stack after its innermost iterator has produced an item.
LEMMA AdvancedType ==
  ASSUME TypeOK, status \notin { "new", "raised" }, Cur # << >>
  PROVE  /\ Advanced \in Seq(Sequences) /\ Len(Advanced) = Len(stack)
         /\ Head(Cur) \in Items
<1>1. /\ Len(stack) \in Nat /\ Len(stack) >= 1 /\ Cur = stack[Len(stack)]
      /\ Cur \in Sequences /\ Advanced = [stack EXCEPT ![Len(stack)] = Tail(@)]
  BY Innermost
<1>2. Head(Cur) \in Items /\ Tail(Cur) \in Sequences
  BY <1>1, FlatStep
<1>3. stack \in Seq(Sequences)
  BY DEF TypeOK
<1>4. Advanced = [stack EXCEPT ![Len(stack)] = Tail(Cur)]
  BY <1>1
<1> QED BY <1>1, <1>2, <1>3, <1>4, ExceptSeq

\* What is left over of whole tuples and less than one more.
LEMMA Remainder ==
  ASSUME NEW g \in Nat, g > 0, NEW q \in Nat, NEW k \in 0 .. g - 1
  PROVE  (q * g + k) % g = k
OBVIOUS

\* Whole tuples stay whole with one more, and with less than one more there is
\* that much left over.
LEMMA WholeTuples ==
  ASSUME NEW g \in Nat, g > 0, NEW n \in Nat, n % g = 0
  PROVE  /\ (n + g) % g = 0
         /\ \A k \in 0 .. g - 1 : (n + k) % g = k
<1>1. PICK q \in Nat : n = q * g
  OBVIOUS
<1>2. (n + g) % g = 0
  <2>1. n + g = (q + 1) * g + 0
    BY <1>1
  <2>2. ((q + 1) * g + 0) % g = 0
    BY Remainder
  <2> QED BY <2>1, <2>2
<1>3. ASSUME NEW k \in 0 .. g - 1 PROVE (n + k) % g = k
  BY <1>1, Remainder
<1> QED BY <1>2, <1>3

-----------------------------------------------------------------------------
(* One lemma for each action that touches the items.                       *)

\* __iter__ puts all items of the argument in the only iterator.
LEMMA GetKeeps == ASSUME IInv, Get PROVE IInv'
<1>1. /\ list \in Items /\ list \notin Atoms /\ Flat[list] \in Seq(Leaves)
      /\ groupsize \in Nat /\ groupsize > 0
  BY ArgumentType DEF IInv
<1>2. Produces(list) \in Sequences /\ Flat[Produces(list)] = Flat[list]
  BY <1>1, FlatProduces
<1>3. /\ given = << >> /\ tuple = << >>
      /\ stack' = << Produces(list) >> /\ top' = 0 /\ status' = "idle"
      /\ list' = list /\ groupsize' = groupsize /\ is_list' = is_list
      /\ calls' = calls /\ tuple' = tuple /\ given' = given
  BY DEF IInv, Fresh, Get, args
<1>4. Left(stack', Flat[list])
  BY <1>2, <1>3, LeftOne
<1>5. given' \o tuple' \o Flat[list] = Flat[list']
  BY <1>1, <1>3, ConcatEmptySeq, EmptySeq
<1>6. NoItemLost'
  BY <1>1, <1>3, <1>4, <1>5 DEF NoItemLost
<1>7. TypeOK'
  BY <1>2, <1>3 DEF IInv, TypeOK
<1> QED BY <1>3, <1>6, <1>7 DEF IInv, Fresh, EndsExactly

\* Leaving an exhausted sequence.
LEMMA AscendKeeps == ASSUME IInv, Ascend PROVE IInv'
<1>1. /\ Len(stack) \in Nat /\ top + 1 = Len(stack) /\ Cur = stack[Len(stack)]
      /\ stack \in Seq(Sequences) /\ top \in Nat
  BY Innermost DEF IInv, Ascend, Popping, TypeOK
<1>2. /\ Len(stack) >= 2 /\ stack[Len(stack)] = << >>
      /\ stack' = SubSeq(stack, 1, Len(stack) - 1) /\ top' = top - 1
      /\ status = "popping" /\ status' = "popping" /\ calls' \in 0 .. Deep
      /\ list' = list /\ groupsize' = groupsize /\ is_list' = is_list
      /\ tuple' = tuple /\ given' = given
  <2>1. top >= 1 /\ top = Len(stack) - 1
    BY <1>1 DEF Ascend
  <2>2. calls' \in 0 .. Deep
    BY ConstantsAssumption DEF Ascend, Recurse, IInv, TypeOK
  <2> QED BY <1>1, <2>1, <2>2 DEF Ascend, Popping, DropLevel, args
<1>3. PICK r \in Seq(Leaves) : Left(stack, r) /\ given \o tuple \o r = Flat[list]
  BY <1>2 DEF IInv, NoItemLost
<1>4. Left(stack', r)
  BY <1>1, <1>2, <1>3, LeftDrop
<1>5. NoItemLost'
  BY <1>2, <1>3, <1>4 DEF NoItemLost
<1>6. stack' \in Seq(Sequences) /\ Len(stack') = Len(stack) - 1
  BY <1>1, <1>2, SubSeqProperties
<1>7. TypeOK'
  BY <1>1, <1>2, <1>6 DEF IInv, TypeOK
<1> QED BY <1>2, <1>5, <1>7 DEF IInv, Fresh, EndsExactly

\* Going on inside a sequence.
LEMMA DescendKeeps == ASSUME IInv, Descend PROVE IInv'
<1>1. /\ stack \in Seq(Sequences) /\ Len(stack) \in Nat /\ Len(stack) >= 1
      /\ top + 1 = Len(stack) /\ Cur = stack[Len(stack)]
      /\ Advanced = [stack EXCEPT ![Len(stack)] = Tail(@)]
  BY Innermost DEF IInv, Descend, Popping, TypeOK
<1>2. /\ Advanced \in Seq(Sequences) /\ Len(Advanced) = Len(stack)
      /\ Head(Cur) \in Items
  BY AdvancedType DEF IInv, Descend, Popping
<1>3. /\ stack' = Append(Advanced, Produces(Head(Cur))) /\ top' = top + 1
      /\ Head(Cur) \notin Atoms /\ Cur # << >>
      /\ status = "popping" /\ status' = "popping" /\ calls' \in 0 .. Deep
      /\ list' = list /\ groupsize' = groupsize /\ is_list' = is_list
      /\ tuple' = tuple /\ given' = given
  <2>1. calls' \in 0 .. Deep
    BY ConstantsAssumption DEF Descend, Recurse, IInv, TypeOK
  <2> QED BY <2>1 DEF Descend, Popping, Push, args
<1>4. /\ Produces(Head(Cur)) \in Sequences
      /\ Flat[Produces(Head(Cur))] = Flat[Head(Cur)]
  BY <1>2, <1>3, FlatProduces
<1>5. PICK r \in Seq(Leaves) : Left(stack, r) /\ given \o tuple \o r = Flat[list]
  BY <1>3 DEF IInv, NoItemLost
<1>6. PICK r2 \in Seq(Leaves) : Left(Advanced, r2) /\ r = Flat[Head(Cur)] \o r2
  BY <1>1, <1>3, <1>5, LeftAdvance
<1>7. Left(stack', r)
  BY <1>2, <1>3, <1>4, <1>6, LeftPush
<1>8. NoItemLost'
  BY <1>3, <1>5, <1>7 DEF NoItemLost
<1>9. stack' \in Seq(Sequences) /\ Len(stack') = Len(stack) + 1
  BY <1>2, <1>3, <1>4, AppendProperties
<1>10. TypeOK'
  BY <1>1, <1>3, <1>9 DEF IInv, TypeOK
<1> QED BY <1>3, <1>8, <1>10 DEF IInv, Fresh, EndsExactly

\* An item goes into the tuple.
LEMMA PopKeeps == ASSUME IInv, Pop PROVE IInv'
<1>1. /\ stack \in Seq(Sequences) /\ Len(stack) \in Nat /\ Len(stack) >= 1
      /\ top + 1 = Len(stack) /\ Cur = stack[Len(stack)]
      /\ Advanced = [stack EXCEPT ![Len(stack)] = Tail(@)]
  BY Innermost DEF IInv, Pop, Popping, TypeOK
<1>2. Advanced \in Seq(Sequences) /\ Len(Advanced) = Len(stack)
  BY AdvancedType DEF IInv, Pop, Popping
<1> DEFINE h == Head(Cur)
<1>3. /\ stack' = Advanced /\ top' = top /\ Cur # << >> /\ h \in Atoms
      /\ tuple' = Append(tuple, h) /\ Len(tuple) < groupsize
      /\ status = "popping" /\ status' = "popping" /\ calls' = 0
      /\ list' = list /\ groupsize' = groupsize /\ is_list' = is_list
      /\ given' = given
  BY DEF Pop, Popping, args
<1>4. h \in Items /\ Flat[h] = << h >>
  <2>1. h \in Items
    BY <1>3, AdvancedType DEF IInv
  <2> QED BY <1>3, <2>1, FlatAssumption DEF Leaves
<1>5. PICK r \in Seq(Leaves) : Left(stack, r) /\ given \o tuple \o r = Flat[list]
  BY <1>3 DEF IInv, NoItemLost
<1>6. PICK r2 \in Seq(Leaves) : Left(Advanced, r2) /\ r = Flat[h] \o r2
  BY <1>1, <1>3, <1>5, LeftAdvance
<1>7. tuple \in Seq(Atoms) /\ given \in Seq(Atoms)
  BY DEF IInv, TypeOK
<1>8. given \o Append(tuple, h) \o r2 = given \o tuple \o r
  <2>1. given \in Seq(Leaves) /\ tuple \in Seq(Leaves) /\ << h >> \in Seq(Leaves)
    BY <1>3, <1>7, AtomSequences DEF Leaves
  <2>2. Append(tuple, h) = tuple \o << h >>
    BY <1>3, <1>7, AppendIsConcat
  <2>3. given \o tuple \in Seq(Leaves)
    BY <2>1, ConcatProperties
  <2>4. given \o (tuple \o << h >>) = (given \o tuple) \o << h >>
    BY <2>1, Regroup, ZenonT(40)
  <2>5. ((given \o tuple) \o << h >>) \o r2 = (given \o tuple) \o (<< h >> \o r2)
    BY <2>1, <2>3, <1>6, Regroup, ZenonT(40)
  <2> HIDE DEF h
  <2> QED BY <1>4, <1>6, <2>2, <2>4, <2>5, Zenon
<1>9. NoItemLost'
  BY <1>3, <1>5, <1>6, <1>8 DEF NoItemLost
<1>10. tuple' \in Seq(Atoms) /\ Len(tuple') = Len(tuple) + 1
  BY <1>3, <1>7, AppendProperties
<1>11. TypeOK'
  <2>1. groupsize \in Nat
    BY ArgumentType DEF IInv
  <2> QED BY <1>1, <1>2, <1>3, <1>7, <1>10, <2>1, LenProperties, ConstantsAssumption DEF IInv, TypeOK
<1> QED BY <1>3, <1>9, <1>11 DEF IInv, Fresh, EndsExactly

\* A full tuple is handed out.
LEMMA ReturnKeeps ==
  ASSUME IInv, Return
  PROVE  IInv' /\ Len(given') = Len(given) + groupsize /\ Len(given') <= Len(Flat[list])
<1>1. /\ given' = given \o tuple /\ tuple' = << >> /\ Len(tuple) = groupsize
      /\ status = "popping" /\ status' = "idle" /\ stack' = stack /\ top' = top
      /\ calls' = calls /\ list' = list /\ groupsize' = groupsize
      /\ is_list' = is_list
  BY DEF Return, args
<1>2. PICK r \in Seq(Leaves) : Left(stack, r) /\ given \o tuple \o r = Flat[list]
  BY <1>1 DEF IInv, NoItemLost
<1>3. tuple \in Seq(Atoms) /\ given \in Seq(Atoms) /\ Len(given) % groupsize = 0
  BY DEF IInv, TypeOK
<1>4. groupsize \in Nat /\ groupsize > 0
  BY ArgumentType DEF IInv
<1>5. given' \in Seq(Atoms) /\ Len(given') = Len(given) + groupsize
  BY <1>1, <1>3, ConcatProperties
<1>6. given' \o tuple' = given'
  BY <1>1, <1>5, ConcatEmptySeq, Zenon
<1>7. NoItemLost'
  <2>1. given' \o tuple' \o r = Flat[list']
    BY <1>1, <1>2, <1>6
  <2> QED BY <1>1, <1>2, <2>1 DEF NoItemLost
<1>8. Len(given') % groupsize' = 0
  <2>1. Len(given) \in Nat
    BY <1>3, LenProperties
  <2>2. (Len(given) + groupsize) % groupsize = 0
    BY <1>3, <1>4, <2>1, WholeTuples
  <2> QED BY <1>1, <1>5, <2>2
<1>9. TypeOK'
  <2>1. tuple' \in Seq(Atoms) /\ Len(tuple') = 0
    BY <1>1, EmptySeq
  <2> QED BY <1>1, <1>4, <1>5, <1>8, <2>1 DEF IInv, TypeOK
<1>10. Len(given') <= Len(Flat[list])
  <2>1. given' \in Seq(Leaves) /\ given' \o r = Flat[list]
    BY <1>1, <1>2, <1>5, AtomSequences
  <2>2. Len(Flat[list]) = Len(given') + Len(r) /\ Len(r) \in Nat /\ Len(given') \in Nat
    BY <1>2, <2>1, ConcatProperties, LenProperties
  <2> QED BY <2>2
<1> QED BY <1>1, <1>5, <1>7, <1>9, <1>10 DEF IInv, Fresh, EndsExactly

\* The end: nothing is left of the argument but the incomplete tuple.
LEMMA AllTaken ==
  ASSUME IInv, End
  PROVE  /\ given \o tuple = Flat[list]
         /\ Len(Flat[list]) = Len(given) + Len(tuple)
         /\ Len(tuple) \in 0 .. groupsize - 1 /\ Len(given) \in Nat
<1>1. /\ stack \in Seq(Sequences) /\ Len(stack) = 1 /\ stack[Len(stack)] = << >>
      /\ status = "popping" /\ Len(tuple) < groupsize
  <2>1. top = 0 /\ status = "popping" /\ Cur = << >> /\ Len(tuple) < groupsize
    BY DEF End, Popping
  <2>2. top + 1 = Len(stack) /\ Cur = stack[Len(stack)]
    BY <2>1, Innermost DEF IInv
  <2> QED BY <2>1, <2>2 DEF IInv, TypeOK
<1>2. PICK r \in Seq(Leaves) : Left(stack, r) /\ given \o tuple \o r = Flat[list]
  BY <1>1 DEF IInv, NoItemLost
<1>3. r = << >>
  BY <1>1, <1>2, LeftNothing
<1>4. tuple \in Seq(Atoms) /\ given \in Seq(Atoms)
  BY DEF IInv, TypeOK
<1>5. /\ given \o tuple \in Seq(Atoms)
      /\ Len(given \o tuple) = Len(given) + Len(tuple)
      /\ Len(tuple) \in Nat /\ Len(given) \in Nat
  BY <1>4, ConcatProperties, LenProperties
<1>6. given \o tuple = Flat[list]
  BY <1>2, <1>3, <1>5, ConcatEmptySeq
<1>7. groupsize \in Nat
  BY ArgumentType DEF IInv
<1> QED BY <1>1, <1>5, <1>6, <1>7

\* The loop ends, or hears that the items do not make whole tuples.
LEMMA EndKeeps == ASSUME IInv, End PROVE IInv'
<1>1. /\ given \o tuple = Flat[list]
      /\ Len(Flat[list]) = Len(given) + Len(tuple)
      /\ Len(tuple) \in 0 .. groupsize - 1 /\ Len(given) \in Nat
  BY AllTaken
<1>2. /\ status' = (IF Len(tuple) > 0 THEN "incomplete" ELSE "stop")
      /\ tuple' = << >> /\ stack' = stack /\ top' = top /\ calls' = calls
      /\ given' = given /\ list' = list /\ groupsize' = groupsize
      /\ is_list' = is_list /\ status = "popping"
  BY DEF End, Popping, Outcome, Incomplete, args
<1>3. /\ groupsize \in Nat /\ groupsize > 0 /\ Len(given) % groupsize = 0
      /\ given \in Seq(Atoms) /\ tuple \in Seq(Atoms)
  BY ArgumentType DEF IInv, TypeOK
<1>4. Len(Flat[list]) % groupsize = Len(tuple)
  <2>1. (Len(given) + Len(tuple)) % groupsize = Len(tuple)
    BY <1>1, <1>3, WholeTuples
  <2> QED BY <1>1, <2>1
<1>5. EndsExactly'
  <2>1. CASE Len(tuple) > 0
    <3>1. status' = "incomplete"
      BY <1>2, <2>1
    <3>2. Len(Flat[list]) % groupsize # 0
      BY <1>1, <1>4, <2>1
    <3>3. Len(given) + (Len(Flat[list]) % groupsize) = Len(Flat[list])
      BY <1>1, <1>4
    <3> QED BY <1>2, <3>1, <3>2, <3>3 DEF EndsExactly
  <2>2. CASE Len(tuple) = 0
    <3>1. tuple = << >>
      BY <1>3, <2>2, EmptySeq
    <3>2. given = Flat[list]
      BY <1>1, <1>3, <3>1, ConcatEmptySeq
    <3>3. status' = "stop"
      BY <1>2, <2>2
    <3> QED BY <1>2, <3>2, <3>3 DEF EndsExactly
  <2> QED BY <1>1, <2>1, <2>2
<1>6. TypeOK'
  <2>1. tuple' \in Seq(Atoms) /\ Len(tuple') = 0
    BY <1>2, EmptySeq
  <2> QED BY <1>2, <1>3, <2>1 DEF IInv, TypeOK
<1> QED BY <1>2, <1>5, <1>6 DEF IInv, Fresh, NoItemLost

\* An exception, or the end of the process: nothing more is promised.
LEMMA FailKeeps == ASSUME IInv, Raise \/ Overflow PROVE IInv'
<1>1. /\ status = "popping" /\ status' \in { "raised", "overflow" }
      /\ tuple' = << >> /\ stack' = stack /\ top' = top /\ calls' = calls
      /\ given' = given /\ list' = list /\ groupsize' = groupsize
      /\ is_list' = is_list
  BY DEF Raise, Overflow, Popping, args
<1>2. groupsize \in Nat
  BY ArgumentType DEF IInv
<1>3. tuple' \in Seq(Atoms) /\ Len(tuple') = 0
  BY <1>1, EmptySeq
<1>4. TypeOK'
  BY <1>1, <1>2, <1>3 DEF IInv, TypeOK
<1> QED BY <1>1, <1>4 DEF IInv, Fresh, NoItemLost, EndsExactly

\* An argument without an iterator: nothing was taken, and nothing will be.
LEMMA NotIterableKeeps == ASSUME IInv, NotIterable PROVE IInv'
<1>1. /\ status = "new" /\ status' = "raised"
      /\ tuple' = tuple /\ stack' = stack /\ top' = top /\ calls' = calls
      /\ given' = given /\ list' = list /\ groupsize' = groupsize
      /\ is_list' = is_list
  BY DEF NotIterable, args
<1>2. TypeOK'
  BY <1>1 DEF IInv, TypeOK
<1> QED BY <1>1, <1>2 DEF IInv, Fresh, NoItemLost, EndsExactly

\* Calling next() takes nothing.
LEMMA BeginKeeps == ASSUME IInv, Begin PROVE IInv'
<1>1. /\ status = "idle" /\ status' = "popping"
      /\ tuple' = tuple /\ stack' = stack /\ top' = top /\ calls' = calls
      /\ given' = given /\ list' = list /\ groupsize' = groupsize
      /\ is_list' = is_list
  BY DEF Begin, args
<1>2. TypeOK'
  BY <1>1 DEF IInv, TypeOK
<1>3. NoItemLost'
  BY <1>1 DEF IInv, NoItemLost
<1> QED BY <1>1, <1>2, <1>3 DEF IInv, Fresh, EndsExactly
-----------------------------------------------------------------------------
(* The theorems.                                                           *)

\* The invariant holds at first.
LEMMA InitHolds == Init => IInv
<1> SUFFICES ASSUME Init PROVE IInv
  OBVIOUS
<1>1. /\ list \in Inputs /\ groupsize \in GroupSizes /\ is_list \in BOOLEAN
      /\ stack = << >> /\ top = -1 /\ calls = 0 /\ tuple = << >> /\ given = << >>
      /\ status = "new"
  BY DEF Init
<1>2. groupsize \in Nat /\ groupsize > 0
  BY <1>1, ConstantsAssumption
<1>3. Len(<< >>) % groupsize = 0
  <2>1. Len(<< >>) = 0 * groupsize + 0
    BY <1>2, EmptySeq
  <2> QED BY <1>2, <2>1, Remainder
<1>4. stack \in Seq(Sequences) /\ Len(stack) = 0 /\ tuple \in Seq(Atoms)
      /\ Len(tuple) = 0 /\ given \in Seq(Atoms)
  BY <1>1, EmptySeq
<1>5. TypeOK
  BY <1>1, <1>2, <1>3, <1>4, ConstantsAssumption DEF TypeOK
<1> QED BY <1>1, <1>5 DEF IInv, Fresh, NoItemLost, EndsExactly

\* And no step disturbs it.
LEMMA StepKeeps == IInv /\ [Next]_vars => IInv'
<1> SUFFICES ASSUME IInv, [Next]_vars PROVE IInv'
  OBVIOUS
<1>1. CASE UNCHANGED vars
  <2>1. TypeOK'
    BY <1>1 DEF vars, IInv, TypeOK
  <2>2. NoItemLost'
    BY <1>1 DEF vars, IInv, NoItemLost
  <2>3. Fresh' /\ EndsExactly'
    BY <1>1 DEF vars, IInv, Fresh, EndsExactly
  <2> QED BY <2>1, <2>2, <2>3 DEF IInv
<1> QED
  BY <1>1, GetKeeps, BeginKeeps, AscendKeeps, DescendKeeps, FailKeeps,
     NotIterableKeeps, PopKeeps, ReturnKeeps, EndKeeps DEF Next, Step

\* The invariant of xpybIter_next and xpybIter_pop (iter.c): the stack has as
\* many iterators as top says, and what they have still to produce continues
\* what was handed out.
THEOREM Inductive == Spec => []IInv
BY InitHolds, StepKeeps, PTL DEF Spec

\* The stack holds iterators, top is the index of the innermost and tuples are
\* never larger than groupsize.
THEOREM TypeCorrect == Spec => []TypeOK
<1>1. IInv => TypeOK
  BY DEF IInv
<1> QED BY <1>1, Inductive, PTL

\* However the items are nested, xpybIter_pop loses, repeats and reorders none:
\* the tuples handed out so far begin the flattened argument.
THEOREM NothingIsLost == Spec => []NoItemLost
<1>1. IInv => NoItemLost
  BY DEF IInv
<1> QED BY <1>1, Inductive, PTL

\* The generated loop ends silently exactly when every item was handed out, and
\* with the complaint of xpybIter_err exactly when they make no whole tuples.
THEOREM EndsWhenAllTaken == Spec => []EndsExactly
<1>1. IInv => EndsExactly
  BY DEF IInv
<1> QED BY <1>1, Inductive, PTL

\* The numbers and the outcome that a TupleSource sees.
LEMMA SourceInit == Init => Source!Init
<1> SUFFICES ASSUME Init PROVE Source!Init
  OBVIOUS
<1>1. Len(Flat[list]) \in Nat /\ groupsize \in Nat /\ groupsize > 0
  BY InitHolds, ArgumentType DEF IInv
<1>2. Len(given) = 0 /\ status = "new"
  BY EmptySeq DEF Init
<1> QED BY <1>1, <1>2 DEF Source!Init

\* A full tuple is a Tuple of the TupleSource, the end is the loop being
\* Exhausted or Short, failures are its Fail, and the loop hears of nothing else.
LEMMA SourceStep == IInv /\ [Next]_vars => [Source!Next]_(Source!vars)
<1> SUFFICES ASSUME IInv, [Next]_vars PROVE [Source!Next]_(Source!vars)
  OBVIOUS
<1>1. Len(Flat[list]) \in Nat /\ groupsize \in Nat /\ groupsize > 0
  BY ArgumentType DEF IInv
<1>2. CASE Get \/ Begin \/ Ascend \/ Descend \/ Pop
  <2>1. /\ status \in { "new", "idle", "popping" }
        /\ status' \in { "idle", "popping" }
        /\ list' = list /\ groupsize' = groupsize /\ given' = given
    BY <1>2 DEF Get, Begin, Ascend, Descend, Pop, Popping, args
  <2> QED BY <2>1 DEF Source!vars
<1>3. CASE Return
  <2>1. Len(given') = Len(given) + groupsize /\ Len(given') <= Len(Flat[list])
    BY <1>3, ReturnKeeps
  <2>2. /\ status = "popping" /\ status' = "idle"
        /\ list' = list /\ groupsize' = groupsize
    BY <1>3 DEF Return, args
  <2>3. Source!Tuple
    BY <2>1, <2>2 DEF Source!Tuple
  <2> QED BY <2>3 DEF Source!Next
<1>4. CASE End
  <2>1. /\ Len(Flat[list]) = Len(given) + Len(tuple)
        /\ Len(tuple) \in 0 .. groupsize - 1 /\ Len(given) \in Nat
    BY <1>4, AllTaken
  <2>2. /\ status' = (IF Len(tuple) > 0 THEN "incomplete" ELSE "stop")
        /\ status = "popping"
        /\ list' = list /\ groupsize' = groupsize /\ given' = given
    BY <1>4 DEF End, Popping, Outcome, Incomplete, args
  <2>3. CASE Len(tuple) = 0
    <3>1. Source!Exhausted
      BY <1>1, <2>1, <2>2, <2>3 DEF Source!Exhausted
    <3> QED BY <3>1 DEF Source!Next
  <2>4. CASE Len(tuple) > 0
    <3>1. Source!Short
      BY <1>1, <2>1, <2>2, <2>4 DEF Source!Short
    <3> QED BY <3>1 DEF Source!Next
  <2> QED BY <2>1, <2>3, <2>4
<1>5. CASE Raise \/ Overflow \/ NotIterable
  <2>1. /\ status \in { "new", "popping" } /\ status' \in { "raised", "overflow" }
        /\ list' = list /\ groupsize' = groupsize /\ given' = given
    BY <1>5 DEF Raise, Overflow, NotIterable, Popping, args
  <2>2. Source!Fail
    BY <2>1 DEF Source!Fail
  <2> QED BY <2>2 DEF Source!Next
<1>6. CASE UNCHANGED vars
  BY <1>6 DEF vars, Source!vars
<1> QED BY <1>2, <1>3, <1>4, <1>5, <1>6 DEF Next, Step

\* The Iterator implements a TupleSource: its loop gets the items groupsize at a
\* time until all are gone, whatever the nesting, the stack and the recursion do.
THEOREM IsTupleSource == Spec => SourceSpec
BY SourceInit, SourceStep, Inductive, PTL DEF Spec, SourceSpec, Source!Spec
=============================================================================
