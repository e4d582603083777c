---------------------------- MODULE Layout_proofs ----------------------------
(***************************************************************************)
(* For every regular description, a generated constructor reads each field *)
(* from its place, sizes what it reads and never fails on a whole message. *)
(***************************************************************************)
EXTENDS RegularLayout, Sums_proofs

-----------------------------------------------------------------------------
(* Alignment.                                                              *)

\* Aligning moves forward, and nothing that is aligned.
LEMMA AlignUpForward ==
  ASSUME NEW x \in Int, NEW t \in { 1, 2, 4, 8 }
  PROVE  /\ AlignUp(x, t) \in Int /\ AlignUp(x, t) >= x
         /\ AlignUp(x, 1) = x
         /\ x % t = 0 => AlignUp(x, t) = x
<1>1. CASE t = 1
  BY <1>1 DEF AlignUp
<1>2. CASE t = 2
  BY <1>2 DEF AlignUp
<1>3. CASE t = 4
  BY <1>3 DEF AlignUp
<1>4. CASE t = 8
  BY <1>4 DEF AlignUp
<1> QED BY <1>1, <1>2, <1>3, <1>4

\* type_pad, computed with a mask, is the distance to the next multiple of t, or
\* of 4 if t is greater.
LEMMA TypePadAligns ==
  ASSUME NEW x \in Int, NEW t \in Nat, t > 0, t # 3
  PROVE  x + TypePad(t, x) = AlignUp(x, IF t > 4 THEN 4 ELSE t)
<1>1. CASE t = 1
  BY <1>1 DEF TypePad, And, AlignUp
<1>2. CASE t = 2
  BY <1>2 DEF TypePad, And, AlignUp
<1>3. CASE t >= 4
  <2>1. TypePad(t, x) = And(-x, 3)
    BY <1>3 DEF TypePad
  <2>2. \A y \in Int : And(y, 3) = y % 4
    <3> SUFFICES ASSUME NEW y \in Int
                 PROVE  (y % 2) + 2 * ((y % 4) \div 2) = y % 4
      BY DEF And
    <3>1. y % 2 = (y % 4) % 2
      OBVIOUS
    <3>2. y % 4 \in { 0, 1, 2, 3 }
      OBVIOUS
    <3>3. \A z \in { 0, 1, 2, 3 } : (z % 2) + 2 * (z \div 2) = z
      OBVIOUS
    <3> QED BY <3>1, <3>2, <3>3
  <2>3. -x \in Int
    OBVIOUS
  <2>4. TypePad(t, x) = (-x) % 4
    BY <2>1, <2>2, <2>3
  <2>5. (IF t > 4 THEN 4 ELSE t) = 4
    BY <1>3
  <2> QED BY <2>4, <2>5 DEF AlignUp
<1> QED BY <1>1, <1>2, <1>3

-----------------------------------------------------------------------------
(* Functions that are defined from one element to the next.                *)

\* There is a function that starts at b and goes on by the steps F.
LEMMA Recursion ==
  ASSUME NEW m \in Nat, NEW b \in Int, NEW F \in [1 .. m -> [Int -> Int]]
  PROVE  \E t \in [1 .. m + 1 -> Int] :
           t[1] = b /\ \A j \in 1 .. m : t[j + 1] = F[j][t[j]]
<1> DEFINE Q(n, t) == t[1] = b /\ \A j \in 1 .. n : t[j + 1] = F[j][t[j]]
           P == { n \in Nat : n <= m => \E t \in [1 .. n + 1 -> Int] : Q(n, t) }
<1>1. 0 \in P
  <2>1. [i \in 1 .. 1 |-> b] \in [1 .. 0 + 1 -> Int] /\ Q(0, [i \in 1 .. 1 |-> b])
    OBVIOUS
  <2> QED BY <2>1
<1>2. ASSUME NEW n \in Nat, n \in P PROVE n + 1 \in P
  <2> SUFFICES ASSUME n + 1 <= m
               PROVE  \E t \in [1 .. (n + 1) + 1 -> Int] : Q(n + 1, t)
    <3> HIDE DEF Q
    <3> QED OBVIOUS
  <2>1. PICK t \in [1 .. n + 1 -> Int] : Q(n, t)
    <3> HIDE DEF Q
    <3>1. n <= m
      OBVIOUS
    <3> QED BY <1>2, <3>1
  <2>2. n + 1 \in 1 .. m /\ t[n + 1] \in Int
    OBVIOUS
  <2>3. F[n + 1] \in [Int -> Int]
    BY <2>2
  <2>4. PICK v \in Int : v = F[n + 1][t[n + 1]]
    BY <2>2, <2>3
  <2> DEFINE t2 == [i \in 1 .. (n + 1) + 1 |-> IF i <= n + 1 THEN t[i] ELSE v]
  <2>5. /\ t2 \in [1 .. (n + 1) + 1 -> Int]
        /\ t2[(n + 1) + 1] = v
        /\ \A i \in 1 .. n + 1 : t2[i] = t[i]
    <3>1. ASSUME NEW i \in 1 .. (n + 1) + 1 PROVE (IF i <= n + 1 THEN t[i] ELSE v) \in Int
      <4>1. i <= n + 1 => i \in 1 .. n + 1
        OBVIOUS
      <4> QED BY <4>1
    <3>2. (n + 1) + 1 \in 1 .. (n + 1) + 1 /\ ~((n + 1) + 1 <= n + 1)
      OBVIOUS
    <3>3. \A i \in 1 .. n + 1 : i \in 1 .. (n + 1) + 1 /\ i <= n + 1
      OBVIOUS
    <3> QED BY <3>1, <3>2, <3>3, Zenon
  <2> HIDE DEF t2
  <2>6. ASSUME NEW j \in 1 .. n + 1 PROVE t2[j + 1] = F[j][t2[j]]
    <3>1. CASE j = n + 1
      BY <2>4, <2>5, <3>1
    <3>2. CASE j # n + 1
      <4>1. j \in 1 .. n /\ j + 1 \in 1 .. n + 1
        BY <3>2
      <4>2. t[j + 1] = F[j][t[j]]
        BY <2>1, <4>1
      <4> QED BY <2>5, <4>1, <4>2
    <3> QED BY <3>1, <3>2
  <2>7. t2[1] = b
    BY <2>1, <2>5
  <2> QED BY <2>5, <2>6, <2>7
<1> HIDE DEF P
<1>3. \A n \in Nat : n \in P
  BY <1>1, <1>2, Induction
<1>4. m \in P
  BY <1>3
<1> QED BY <1>4 DEF P

\* What goes on from one number to the next stays a number.
LEMMA Typed ==
  ASSUME NEW m \in Nat, NEW p, p[1] \in Int,
         \A j \in 1 .. m : p[j] \in Int => p[j + 1] \in Int
  PROVE  \A j \in 1 .. m + 1 : p[j] \in Int
<1> DEFINE P == { n \in Nat : n <= m => p[n + 1] \in Int }
<1>1. 0 \in P
  OBVIOUS
<1>2. ASSUME NEW n \in Nat, n \in P PROVE n + 1 \in P
  <2> SUFFICES ASSUME n + 1 <= m PROVE p[(n + 1) + 1] \in Int
    OBVIOUS
  <2>1. n + 1 \in 1 .. m /\ p[n + 1] \in Int
    BY <1>2
  <2> QED BY <2>1
<1> HIDE DEF P
<1>3. \A n \in Nat : n \in P
  BY <1>1, <1>2, Induction
<1>4. ASSUME NEW j \in 1 .. m + 1 PROVE p[j] \in Int
  <2>1. j - 1 \in Nat /\ j - 1 <= m /\ (j - 1) + 1 = j
    OBVIOUS
  <2>2. j - 1 \in P
    BY <1>3, <2>1
  <2>3. p[(j - 1) + 1] \in Int
    BY <2>1, <2>2 DEF P
  <2> QED BY <2>1, <2>3
<1> QED BY <1>4

\* What holds of 1 and with each of the next holds of all.
LEMMA UpTo ==
  ASSUME NEW m \in Nat, NEW Q, 1 \in Q, \A j \in 1 .. m : j \in Q => j + 1 \in Q
  PROVE  \A j \in 1 .. m + 1 : j \in Q
<1> DEFINE P == { n \in Nat : n <= m => n + 1 \in Q }
<1>1. 0 \in P
  OBVIOUS
<1>2. ASSUME NEW n \in Nat, n \in P PROVE n + 1 \in P
  <2> SUFFICES ASSUME n + 1 <= m PROVE (n + 1) + 1 \in Q
    OBVIOUS
  <2>1. n + 1 \in 1 .. m /\ n + 1 \in Q
    BY <1>2
  <2> QED BY <2>1
<1> HIDE DEF P
<1>3. \A n \in Nat : n \in P
  BY <1>1, <1>2, Induction
<1>4. ASSUME NEW j \in 1 .. m + 1 PROVE j \in Q
  <2>1. j - 1 \in Nat /\ j - 1 <= m /\ (j - 1) + 1 = j
    OBVIOUS
  <2>2. j - 1 \in P
    BY <1>3, <2>1
  <2>3. (j - 1) + 1 \in Q
    BY <2>1, <2>2 DEF P
  <2> QED BY <2>1, <2>3
<1> QED BY <1>4

\* What grows from one to the next grows.
LEMMA Grows ==
  ASSUME NEW m \in Nat, NEW p, \A j \in 1 .. m + 1 : p[j] \in Int,
         \A j \in 1 .. m : p[j] <= p[j + 1]
  PROVE  \A i, j \in 1 .. m + 1 : i <= j => p[i] <= p[j]
<1> SUFFICES ASSUME NEW i \in 1 .. m + 1 PROVE \A j \in 1 .. m + 1 : i <= j => p[i] <= p[j]
  OBVIOUS
<1> DEFINE P == { n \in Nat : i + n <= m + 1 => p[i] <= p[i + n] }
<1>1. 0 \in P
  <2>1. i + 0 = i /\ p[i] \in Int
    OBVIOUS
  <2> QED BY <2>1
<1>2. ASSUME NEW n \in Nat, n \in P PROVE n + 1 \in P
  <2> SUFFICES ASSUME i + (n + 1) <= m + 1 PROVE p[i] <= p[i + (n + 1)]
    OBVIOUS
  <2>1. i + n \in 1 .. m /\ i + n \in 1 .. m + 1 /\ (i + n) + 1 \in 1 .. m + 1
        /\ i + (n + 1) = (i + n) + 1 /\ p[i] <= p[i + n]
    BY <1>2
  <2>2. p[i + n] <= p[(i + n) + 1]
    BY <2>1, Zenon
  <2>3. p[i] \in Int /\ p[i + n] \in Int /\ p[(i + n) + 1] \in Int
    BY <2>1, Zenon
  <2> QED BY <2>1, <2>2, <2>3
<1> HIDE DEF P
<1>3. \A n \in Nat : n \in P
  BY <1>1, <1>2, Induction
<1>4. ASSUME NEW j \in 1 .. m + 1, i <= j PROVE p[i] <= p[j]
  <2>1. j - i \in Nat /\ i + (j - i) = j
    BY <1>4
  <2>2. j - i \in P
    BY <1>3, <2>1
  <2>3. i + (j - i) <= m + 1 => p[i] <= p[i + (j - i)]
    BY <2>2 DEF P
  <2> QED BY <2>1, <2>3
<1> QED BY <1>4

-----------------------------------------------------------------------------
(* Positions on the wire.                                                  *)

\* What is known of a field of a regular description.
LEMMA FieldFacts ==
  ASSUME NEW fs \in Seq(Field), Usual(fs), NEW i \in 1 .. Len(fs)
  PROVE  /\ fs[i] \in Field /\ fs[i].kind \in Kinds /\ fs[i].size \in Int
         /\ fs[i].len \in Nat /\ fs[i].elements \in Seq(Nat)
         /\ fs[i].kind # "list" => fs[i].size \in Nat
         /\ ~IsObject(fs[i]) => fs[i].size \in Nat
         /\ Bytes(fs[i]) \in Nat
         /\ ~IsObject(fs[i]) => Bytes(fs[i]) = fs[i].size
<1>1. fs[i] \in Field
  OBVIOUS
<1>2. /\ fs[i].kind \in Kinds /\ fs[i].size \in Int /\ fs[i].len \in Nat
      /\ fs[i].elements \in Seq(Nat)
  BY <1>1 DEF Field
<1>3. /\ fs[i].kind \in { "auto", "pad", "var" } => fs[i].size >= 0
      /\ fs[i].kind = "simple" => fs[i].size \in { 1, 2, 4, 8 }
      /\ fs[i].kind = "fixed" => fs[i].size > 0 /\ fs[i].size # 3
  BY DEF Usual
<1>4. fs[i].kind # "list" => fs[i].size \in Nat
  BY <1>2, <1>3 DEF Kinds
<1>5. SumOf(fs[i].elements) \in Nat
  BY <1>2, SumBounds
<1> QED BY <1>1, <1>2, <1>4, <1>5 DEF Bytes, IsObject

\* Lists and structures have an alignment.
LEMMA AlignSizeFacts ==
  ASSUME NEW fs \in Seq(Field), Usual(fs), NEW i \in 1 .. Len(fs), IsObject(fs[i])
  PROVE  /\ AlignSize(fs[i]) \in Nat /\ AlignSize(fs[i]) > 0 /\ AlignSize(fs[i]) # 3
         /\ (IF AlignSize(fs[i]) > 4 THEN 4 ELSE AlignSize(fs[i])) \in { 1, 2, 4 }
<1>1. fs[i].size \in Int
  BY FieldFacts
<1>2. /\ fs[i].kind = "fixed" => fs[i].size > 0 /\ fs[i].size # 3
      /\ fs[i].kind = "list" => fs[i].size = -1 \/ (fs[i].size > 0 /\ fs[i].size # 3)
  BY DEF Usual
<1>3. fs[i].kind \in { "list", "fixed", "var" }
  BY DEF IsObject
<1>4. AlignSize(fs[i]) \in Nat /\ AlignSize(fs[i]) > 0 /\ AlignSize(fs[i]) # 3
  BY <1>1, <1>2, <1>3 DEF AlignSize
<1> HIDE DEF AlignSize
<1> QED BY <1>4

LEMMA UnitFacts ==
  ASSUME NEW fs \in Seq(Field), Usual(fs), NEW i \in 1 .. Len(fs) + 1
  PROVE  Unit(fs, i) \in { 1, 2, 4 }
<1>1. CASE i <= Len(fs) /\ IsObject(fs[i])
  <2>1. i \in 1 .. Len(fs)
    BY <1>1
  <2> QED BY <1>1, <2>1, AlignSizeFacts DEF Unit
<1>2. CASE ~(i <= Len(fs) /\ IsObject(fs[i]))
  BY <1>2 DEF Unit
<1> QED BY <1>1, <1>2

\* What WirePositions returns.
LEMMA WireDefined ==
  ASSUME NEW fs \in Seq(Field), Usual(fs), NEW b \in Nat
  PROVE  /\ \A i \in 1 .. Len(fs) + 1 : WireAt(fs, b, i) \in Int
         /\ WireAt(fs, b, 1) = b
         /\ \A i \in 1 .. Len(fs) :
              WireAt(fs, b, i + 1) = AlignUp(WireAt(fs, b, i) + Bytes(fs[i]), Unit(fs, i + 1))
<1> DEFINE m == Len(fs)
           G(j, x) == AlignUp(x + Bytes(fs[j]), Unit(fs, j + 1))
           F == [j \in 1 .. m |-> [x \in Int |-> G(j, x)]]
           Def(u) == [j \in 1 .. Len(fs) + 1 |->
                        IF j = 1 THEN b
                        ELSE AlignUp(u[j - 1] + Bytes(fs[j - 1]), Unit(fs, j))]
           p == WirePositions(fs, b)
<1>0. m \in Nat /\ b \in Int
  OBVIOUS
<1>1. ASSUME NEW j \in 1 .. m, NEW x \in Int PROVE G(j, x) \in Int
  <2>1. Bytes(fs[j]) \in Nat
    BY FieldFacts
  <2>2. Unit(fs, j + 1) \in { 1, 2, 4, 8 }
    <3>1. j + 1 \in 1 .. Len(fs) + 1
      OBVIOUS
    <3> QED BY <3>1, UnitFacts
  <2>3. x + Bytes(fs[j]) \in Int
    BY <2>1
  <2> QED BY <2>2, <2>3, AlignUpForward
<1>2. F \in [1 .. m -> [Int -> Int]]
  <2> HIDE DEF G
  <2> QED BY <1>1
<1>3. PICK t \in [1 .. m + 1 -> Int] : t[1] = b /\ \A j \in 1 .. m : t[j + 1] = F[j][t[j]]
  <2> HIDE DEF F, m
  <2> QED BY <1>0, <1>2, Recursion
<1>4. \A j \in 1 .. m : t[j + 1] = G(j, t[j])
  <2> HIDE DEF G
  <2>1. \A j \in 1 .. m : t[j] \in Int
    BY <1>0
  <2> QED BY <1>3, <2>1
<1>5. t = Def(t)
  <2>1. ASSUME NEW j \in 1 .. m + 1
        PROVE  t[j] = IF j = 1 THEN b
                      ELSE AlignUp(t[j - 1] + Bytes(fs[j - 1]), Unit(fs, j))
    <3>1. CASE j = 1
      BY <1>3, <3>1
    <3>2. CASE j # 1
      <4>1. j - 1 \in 1 .. m /\ (j - 1) + 1 = j
        BY <3>2
      <4>2. t[(j - 1) + 1] = G(j - 1, t[j - 1])
        BY <1>4, <4>1
      <4> QED BY <3>2, <4>1, <4>2
    <3> QED BY <3>1, <3>2
  <2> QED BY <2>1
<1>6. p = CHOOSE u : u = Def(u)
  BY DEF WirePositions
<1>7. p = Def(p)
  BY <1>5, <1>6
<1> HIDE DEF p
<1>8. \A j \in 1 .. m + 1 :
        p[j] = IF j = 1 THEN b ELSE AlignUp(p[j - 1] + Bytes(fs[j - 1]), Unit(fs, j))
  BY <1>7
<1>9. p[1] = b
  BY <1>0, <1>8
<1>10. ASSUME NEW j \in 1 .. m PROVE p[j + 1] = G(j, p[j])
  <2>1. j + 1 \in 1 .. m + 1 /\ j + 1 # 1 /\ (j + 1) - 1 = j
    OBVIOUS
  <2>2. p[j + 1] = AlignUp(p[(j + 1) - 1] + Bytes(fs[(j + 1) - 1]), Unit(fs, j + 1))
    BY <1>8, <2>1
  <2> QED BY <2>1, <2>2
<1>11. \A j \in 1 .. m + 1 : p[j] \in Int
  <2> HIDE DEF G, m
  <2>1. \A j \in 1 .. m : p[j] \in Int => p[j + 1] \in Int
    BY <1>1, <1>10
  <2>2. p[1] \in Int
    BY <1>0, <1>9
  <2> QED BY <1>0, <2>1, <2>2, Typed
<1> QED BY <1>9, <1>10, <1>11 DEF p, WireAt

\* Fields follow one another.
LEMMA WireGrows ==
  ASSUME NEW fs \in Seq(Field), Usual(fs), NEW b \in Nat
  PROVE  /\ \A i \in 1 .. Len(fs) + 1 : WireAt(fs, b, i) \in Nat /\ WireAt(fs, b, i) >= b
         /\ \A i \in 1 .. Len(fs) : WireAt(fs, b, i) + Bytes(fs[i]) <= WireAt(fs, b, Len(fs) + 1)
<1> DEFINE W == WirePositions(fs, b)
<1>1. /\ \A i \in 1 .. Len(fs) + 1 : W[i] \in Int
      /\ W[1] = b
      /\ \A i \in 1 .. Len(fs) : W[i + 1] = AlignUp(W[i] + Bytes(fs[i]), Unit(fs, i + 1))
  BY WireDefined DEF WireAt
<1> HIDE DEF W
<1>2. ASSUME NEW i \in 1 .. Len(fs) PROVE W[i] + Bytes(fs[i]) <= W[i + 1] /\ W[i] <= W[i + 1]
  <2>1. Bytes(fs[i]) \in Nat
    BY FieldFacts
  <2>2. i + 1 \in 1 .. Len(fs) + 1 /\ i \in 1 .. Len(fs) + 1
    OBVIOUS
  <2>3. Unit(fs, i + 1) \in { 1, 2, 4, 8 }
    BY <2>2, UnitFacts
  <2>4. W[i] + Bytes(fs[i]) \in Int /\ W[i] \in Int /\ W[i + 1] \in Int
    BY <1>1, <2>1, <2>2
  <2>5. AlignUp(W[i] + Bytes(fs[i]), Unit(fs, i + 1)) >= W[i] + Bytes(fs[i])
    BY <2>3, <2>4, AlignUpForward
  <2>6. W[i + 1] = AlignUp(W[i] + Bytes(fs[i]), Unit(fs, i + 1))
    BY <1>1
  <2> HIDE DEF Bytes, AlignUp, Unit
  <2> QED BY <2>1, <2>4, <2>5, <2>6
<1>3. \A i, j \in 1 .. Len(fs) + 1 : i <= j => W[i] <= W[j]
  <2>1. Len(fs) \in Nat
    OBVIOUS
  <2> QED BY <1>1, <1>2, <2>1, Grows
<1>4. ASSUME NEW i \in 1 .. Len(fs) + 1 PROVE W[i] \in Nat /\ W[i] >= b
  <2>1. 1 \in 1 .. Len(fs) + 1 /\ 1 <= i
    OBVIOUS
  <2> QED BY <1>1, <1>3, <2>1
<1>5. ASSUME NEW i \in 1 .. Len(fs) PROVE W[i] + Bytes(fs[i]) <= W[Len(fs) + 1]
  <2>1. i + 1 \in 1 .. Len(fs) + 1 /\ Len(fs) + 1 \in 1 .. Len(fs) + 1 /\ i + 1 <= Len(fs) + 1
        /\ i \in 1 .. Len(fs) + 1
    OBVIOUS
  <2>2. W[i + 1] <= W[Len(fs) + 1]
    BY <1>3, <2>1
  <2>3. Bytes(fs[i]) \in Nat
    BY FieldFacts
  <2> DEFINE x == W[i]
             y == W[i + 1]
             z == W[Len(fs) + 1]
             v == Bytes(fs[i])
  <2>4. x \in Int /\ y \in Int /\ z \in Int /\ v \in Nat
    BY <1>1, <2>1, <2>3
  <2>5. x + v <= y /\ y <= z
    BY <1>2, <2>2
  <2> HIDE DEF x, y, z, v
  <2>6. x + v <= z
    BY <2>4, <2>5
  <2> QED BY <2>6 DEF x, y, z, v
<1> QED BY <1>4, <1>5 DEF W, WireAt

-----------------------------------------------------------------------------
(* Runs of fields that wait together.                                      *)

LEMMA SizesDefined ==
  ASSUME NEW fs \in Seq(Field)
  PROVE  /\ \A i \in 0 .. Len(fs) : Sizes(fs)[i] \in Int
         /\ \A i \in 1 .. Len(fs) : Sizes(fs)[i] = Sizes(fs)[i - 1] + fs[i].size
<1> DEFINE q == [k \in 1 .. Len(fs) |-> fs[k].size]
<1>1. q \in Seq(Int) /\ Len(q) = Len(fs)
  <2>1. \A k \in 1 .. Len(fs) : fs[k] \in Field
    OBVIOUS
  <2>2. \A k \in 1 .. Len(fs) : fs[k].size \in Int
    BY <2>1 DEF Field
  <2> QED BY <2>2
<1>2. \A k \in 1 .. Len(fs) : q[k] = fs[k].size
  OBVIOUS
<1>3. Sizes(fs) = PartialSums(q)
  BY DEF Sizes
<1> HIDE DEF q
<1>4. /\ PartialSums(q) \in [0 .. Len(q) -> Int]
      /\ \A n \in 1 .. Len(q) : PartialSums(q)[n] = PartialSums(q)[n - 1] + q[n]
  BY <1>1, SumsDefined
<1> QED BY <1>1, <1>2, <1>3, <1>4

LEMMA SpanFacts ==
  ASSUME NEW s \in Nat, s >= 1, NEW e \in Nat, e >= s - 1
  PROVE  /\ Span(s, e) \in Seq(Nat) /\ Len(Span(s, e)) = e - s + 1
         /\ \A k \in 1 .. e - s + 1 : Span(s, e)[k] = s + k - 1
<1>1. e - s + 1 \in Nat /\ \A k \in 1 .. e - s + 1 : s + k - 1 \in Nat
  OBVIOUS
<1> QED BY <1>1 DEF Span

LEMMA SpanGrows ==
  ASSUME NEW s \in Nat, s >= 1, NEW e \in Nat, e >= s - 1
  PROVE  Append(Span(s, e), e + 1) = Span(s, e + 1)
<1> DEFINE p == Span(s, e)
           q == Span(s, e + 1)
           m == e - s + 1
<1>1. m \in Nat /\ s + (m + 1) - 1 = e + 1 /\ (e + 1) - s + 1 = m + 1 /\ e + 1 >= s - 1
  OBVIOUS
<1>2. p \in Seq(Nat) /\ Len(p) = m /\ \A k \in 1 .. m : p[k] = s + k - 1
  BY SpanFacts
<1>3. q \in Seq(Nat) /\ Len(q) = m + 1 /\ \A k \in 1 .. m + 1 : q[k] = s + k - 1
  <2>1. /\ Span(s, e + 1) \in Seq(Nat) /\ Len(Span(s, e + 1)) = (e + 1) - s + 1
        /\ \A k \in 1 .. (e + 1) - s + 1 : Span(s, e + 1)[k] = s + k - 1
    <3>1. e + 1 \in Nat /\ e + 1 >= s - 1
      OBVIOUS
    <3> QED BY <3>1, SpanFacts, Zenon
  <2> QED BY <1>1, <2>1
<1> HIDE DEF p, q, m
<1>4. /\ Append(p, e + 1) \in Seq(Nat) /\ Len(Append(p, e + 1)) = m + 1
      /\ Append(p, e + 1)[m + 1] = e + 1 /\ \A k \in 1 .. m : Append(p, e + 1)[k] = p[k]
  BY <1>1, <1>2
<1>5. ASSUME NEW k \in 1 .. m + 1 PROVE Append(p, e + 1)[k] = q[k]
  <2>1. CASE k = m + 1
    BY <1>1, <1>3, <1>4, <2>1
  <2>2. CASE k # m + 1
    <3>1. k \in 1 .. m
      BY <1>1, <2>2
    <3> QED BY <1>2, <1>3, <1>4, <3>1
  <2> QED BY <2>1, <2>2
<1>6. Append(p, e + 1) = q
  BY <1>3, <1>4, <1>5
<1> QED BY <1>6 DEF p, q

\* Within a run nothing is aligned.
LEMMA UnitInRun ==
  ASSUME NEW fs, Len(fs) \in Nat, NEW i \in 2 .. Len(fs) + 1, ~IsObject(fs[i - 1]),
         i <= Len(fs) => ~IsObject(fs[i])
  PROVE  Unit(fs, i) = 1
BY DEF Unit

\* What does not change from one to the next does not change.
LEMMA Steady ==
  ASSUME NEW s \in Nat, NEW e \in Nat, NEW D, \A i \in s .. e - 1 : D[i + 1] = D[i]
  PROVE  \A i \in s .. e : D[i] = D[s]
<1> DEFINE P == { n \in Nat : s + n <= e => D[s + n] = D[s] }
<1>1. 0 \in P
  OBVIOUS
<1>2. ASSUME NEW n \in Nat, n \in P PROVE n + 1 \in P
  <2> SUFFICES ASSUME s + (n + 1) <= e PROVE D[s + (n + 1)] = D[s]
    OBVIOUS
  <2>1. s + n \in s .. e - 1 /\ s + (n + 1) = (s + n) + 1 /\ D[s + n] = D[s]
    BY <1>2
  <2> QED BY <2>1
<1> HIDE DEF P
<1>3. \A n \in Nat : n \in P
  BY <1>1, <1>2, Induction
<1>4. ASSUME NEW i \in s .. e PROVE D[i] = D[s]
  <2>1. i - s \in Nat /\ s + (i - s) = i /\ i <= e
    OBVIOUS
  <2>2. i - s \in P
    BY <1>3, <2>1
  <2>3. s + (i - s) <= e => D[s + (i - s)] = D[s]
    BY <2>2 DEF P
  <2> QED BY <2>1, <2>3
<1> QED BY <1>4

\* Positions in a run differ by sizes.
LEMMA RunPositions ==
  ASSUME NEW fs \in Seq(Field), Usual(fs), NEW b \in Nat,
         NEW s \in 1 .. Len(fs), NEW e \in s .. Len(fs), Run(fs, s, e)
  PROVE  /\ \A i \in s .. e : WireAt(fs, b, i) - Sizes(fs)[i - 1]
                                = WireAt(fs, b, s) - Sizes(fs)[s - 1]
         /\ WireAt(fs, b, e) + Bytes(fs[e]) - Sizes(fs)[e]
              = WireAt(fs, b, s) - Sizes(fs)[s - 1]
<1> DEFINE W == WirePositions(fs, b)
           S == Sizes(fs)
           D == [i \in s .. e |-> W[i] - S[i - 1]]
<1>1. /\ \A i \in 1 .. Len(fs) + 1 : W[i] \in Int
      /\ \A i \in 1 .. Len(fs) : W[i + 1] = AlignUp(W[i] + Bytes(fs[i]), Unit(fs, i + 1))
  BY WireDefined DEF WireAt
<1>2. /\ \A i \in 0 .. Len(fs) : S[i] \in Int
      /\ \A i \in 1 .. Len(fs) : S[i] = S[i - 1] + fs[i].size
  BY SizesDefined
<1>3. Len(fs) \in Nat /\ s \in Nat /\ e \in Nat /\ s >= 1 /\ s <= e /\ e <= Len(fs)
  OBVIOUS
<1>4. ASSUME NEW i \in s .. e
      PROVE  /\ i \in 1 .. Len(fs) /\ ~IsObject(fs[i]) /\ fs[i].size \in Nat
             /\ Bytes(fs[i]) = fs[i].size
  <2>1. i \in 1 .. Len(fs) /\ ~IsObject(fs[i])
    BY DEF Run
  <2> QED BY <2>1, FieldFacts
<1> HIDE DEF W, S
<1>5. ASSUME NEW i \in s .. e
      PROVE  /\ W[i] \in Int /\ S[i - 1] \in Int /\ S[i] \in Int /\ fs[i].size \in Int
             /\ S[i] = S[i - 1] + fs[i].size
  <2>1. i \in 1 .. Len(fs) + 1 /\ i - 1 \in 0 .. Len(fs) /\ i \in 0 .. Len(fs)
        /\ i \in 1 .. Len(fs)
    BY <1>3
  <2>2. fs[i].size \in Int
    BY <1>4
  <2>3. W[i] \in Int /\ S[i - 1] \in Int /\ S[i] \in Int
    BY <1>1, <1>2, <2>1
  <2>4. S[i] = S[i - 1] + fs[i].size
    BY <1>2, <2>1, Zenon
  <2> QED BY <2>2, <2>3, <2>4
<1>6. ASSUME NEW i \in s .. e - 1 PROVE D[i + 1] = D[i]
  <2>1. /\ i \in s .. e /\ i + 1 \in s .. e /\ i + 1 \in 2 .. Len(fs) + 1
        /\ i \in 1 .. Len(fs) /\ (i + 1) - 1 = i
    BY <1>3
  <2>2. Unit(fs, i + 1) = 1
    BY <1>3, <1>4, <2>1, UnitInRun
  <2>3. W[i + 1] = AlignUp(W[i] + Bytes(fs[i]), Unit(fs, i + 1))
    BY <1>1, <2>1, Zenon
  <2>4. Bytes(fs[i]) = fs[i].size
    BY <1>4, <2>1
  <2>5. /\ W[i] \in Int /\ S[i - 1] \in Int /\ S[i] \in Int /\ fs[i].size \in Int
        /\ S[i] = S[i - 1] + fs[i].size
    BY <1>5, <2>1
  <2>6. AlignUp(W[i] + fs[i].size, 1) = W[i] + fs[i].size
    <3>1. W[i] + fs[i].size \in Int /\ 1 \in { 1, 2, 4, 8 }
      BY <2>5
    <3> QED BY <3>1, AlignUpForward
  <2>7. W[i + 1] = W[i] + fs[i].size
    BY <2>2, <2>3, <2>4, <2>6
  <2>8. W[i + 1] - S[i] = W[i] - S[i - 1]
    BY <2>5, <2>7
  <2>9. D[i] = W[i] - S[i - 1] /\ D[i + 1] = W[i + 1] - S[(i + 1) - 1]
    BY <2>1
  <2> QED BY <2>1, <2>8, <2>9
<1>7. \A i \in s .. e : D[i] = D[s]
  <2> HIDE DEF D
  <2> QED BY <1>3, <1>6, Steady
<1>8. s \in s .. e /\ e \in s .. e
  BY <1>3
<1>9. \A i \in s .. e : W[i] - S[i - 1] = W[s] - S[s - 1]
  BY <1>7, <1>8
<1>10. W[e] + Bytes(fs[e]) - S[e] = W[s] - S[s - 1]
  <2>1. W[e] - S[e - 1] = W[s] - S[s - 1]
    BY <1>8, <1>9
  <2>2. Bytes(fs[e]) = fs[e].size
    BY <1>4, <1>8
  <2>3. /\ W[e] \in Int /\ S[e - 1] \in Int /\ S[e] \in Int /\ fs[e].size \in Int
        /\ S[e] = S[e - 1] + fs[e].size
    BY <1>5, <1>8
  <2>4. W[e] + fs[e].size - S[e] = W[e] - S[e - 1]
    BY <2>3
  <2> QED BY <2>1, <2>2, <2>4
<1> QED BY <1>9, <1>10 DEF W, S, WireAt

\* The generator's size of a run is the sum of its sizes.
LEMMA SpanSum ==
  ASSUME NEW fs \in Seq(Field), NEW s \in 1 .. Len(fs) + 1, NEW e \in s - 1 .. Len(fs)
  PROVE  SumOf([k \in 1 .. Len(Span(s, e)) |-> fs[Span(s, e)[k]].size])
           = Sizes(fs)[e] - Sizes(fs)[s - 1]
<1> DEFINE m == e - s + 1
           q == [k \in 1 .. m |-> fs[s + k - 1].size]
           S == Sizes(fs)
<1>1. m \in Nat /\ s \in Nat /\ e \in Nat /\ s >= 1 /\ e <= Len(fs) /\ Len(fs) \in Nat
      /\ e >= s - 1
  OBVIOUS
<1>2. [k \in 1 .. Len(Span(s, e)) |-> fs[Span(s, e)[k]].size] = q
  <2>1. Len(Span(s, e)) = m /\ \A k \in 1 .. m : Span(s, e)[k] = s + k - 1
    BY <1>1, SpanFacts
  <2> QED BY <2>1
<1>3. \A k \in 1 .. m : s + k - 1 \in 1 .. Len(fs)
  BY <1>1
<1>4. \A k \in 1 .. m : fs[s + k - 1].size \in Int
  <2>1. \A i \in 1 .. Len(fs) : fs[i] \in Field
    OBVIOUS
  <2>2. \A i \in 1 .. Len(fs) : fs[i].size \in Int
    BY <2>1 DEF Field
  <2> QED BY <1>3, <2>2
<1>5. q \in Seq(Int) /\ Len(q) = m /\ \A k \in 1 .. m : q[k] = fs[s + k - 1].size
  <2> HIDE DEF m
  <2> QED BY <1>1, <1>4
<1>6. /\ \A i \in 0 .. Len(fs) : S[i] \in Int
      /\ \A i \in 1 .. Len(fs) : S[i] = S[i - 1] + fs[i].size
  BY SizesDefined
<1> HIDE DEF q, S
<1> DEFINE p == PartialSums(q)
<1>7. /\ p \in [0 .. m -> Int] /\ p[0] = 0
      /\ \A n \in 1 .. m : p[n] = p[n - 1] + q[n]
  BY <1>5, SumsDefined
<1>8. SumOf(q) = p[m]
  BY <1>5 DEF SumOf
<1> HIDE DEF p
<1> DEFINE P == { n \in Nat : n <= m => p[n] = S[s + n - 1] - S[s - 1] }
<1>9. 0 \in P
  <2>1. s - 1 \in 0 .. Len(fs) /\ s + 0 - 1 = s - 1
    BY <1>1
  <2>2. S[s - 1] \in Int
    BY <1>6, <2>1
  <2> QED BY <1>7, <2>1, <2>2
<1>10. ASSUME NEW n \in Nat, n \in P PROVE n + 1 \in P
  <2> SUFFICES ASSUME n + 1 <= m
               PROVE  p[n + 1] = S[s + (n + 1) - 1] - S[s - 1]
    OBVIOUS
  <2>1. /\ n + 1 \in 1 .. m /\ (n + 1) - 1 = n /\ n \in 0 .. m
        /\ s + (n + 1) - 1 = s + n /\ s + n \in 1 .. Len(fs) /\ s + n \in 0 .. Len(fs)
        /\ s + n - 1 \in 0 .. Len(fs) /\ s - 1 \in 0 .. Len(fs)
    BY <1>1
  <2>2. p[n] = S[s + n - 1] - S[s - 1]
    BY <1>10, <2>1
  <2> HIDE DEF m
  <2>3. p[n + 1] = p[n] + q[n + 1]
    BY <1>7, <2>1
  <2>4. q[n + 1] = fs[s + n].size
    BY <1>5, <2>1
  <2>5. S[s + n] = S[s + n - 1] + fs[s + n].size
    BY <1>6, <2>1
  <2>6. fs[s + n].size \in Int
    BY <1>4, <2>1
  <2>7. S[s + n] \in Int /\ S[s + n - 1] \in Int /\ S[s - 1] \in Int
    BY <1>6, <2>1
  <2> DEFINE x == S[s + n - 1]
             y == S[s - 1]
             z == fs[s + n].size
  <2>8. x \in Int /\ y \in Int /\ z \in Int
    BY <2>6, <2>7
  <2>9. p[n + 1] = (x - y) + z
    BY <2>2, <2>3, <2>4, <2>1
  <2>10. S[s + (n + 1) - 1] = x + z
    BY <2>1, <2>5
  <2> HIDE DEF x, z
  <2>11. (x - y) + z = (x + z) - y
    BY <2>8
  <2> QED BY <2>9, <2>10, <2>11
<1> HIDE DEF P
<1>11. \A n \in Nat : n \in P
  BY <1>9, <1>10, Induction
<1>12. p[m] = S[s + m - 1] - S[s - 1]
  BY <1>1, <1>11 DEF P
<1>13. s + m - 1 = e
  BY <1>1
<1> QED BY <1>2, <1>8, <1>12, <1>13 DEF S

\* In a batch in which every number is at a multiple of its size, native alignment
\* inserts nothing.
LEMMA NativeRun ==
  ASSUME NEW fs \in Seq(Field), Usual(fs), Natural(fs),
         NEW s \in 1 .. Len(fs), NEW e \in s .. Len(fs), Run(fs, s, e), StartsRun(fs, s)
  PROVE  \A k \in 1 .. e - s + 2 :
           Native(fs, Span(s, e))[k] = Sizes(fs)[s + k - 2] - Sizes(fs)[s - 1]
<1> DEFINE m == e - s + 1
           items == Span(s, e)
           S == Sizes(fs)
           G(j, x) == LET end == x + fs[items[j - 1]].size
                      IN  IF j <= Len(items) /\ fs[items[j]].kind = "simple"
                          THEN AlignUp(end, fs[items[j]].size) ELSE end
           Def(u) == [j \in 1 .. Len(items) + 1 |-> IF j = 1 THEN 0 ELSE G(j, u[j - 1])]
           t == [j \in 1 .. m + 1 |-> S[s + j - 2] - S[s - 1]]
           p == Native(fs, items)
<1>1. m \in Nat /\ s \in Nat /\ e \in Nat /\ s >= 1 /\ s <= e /\ e <= Len(fs) /\ Len(fs) \in Nat
  OBVIOUS
<1>2. Len(items) = m /\ \A k \in 1 .. m : items[k] = s + k - 1
  BY <1>1, SpanFacts
<1>3. /\ \A i \in 0 .. Len(fs) : S[i] \in Int
      /\ \A i \in 1 .. Len(fs) : S[i] = S[i - 1] + fs[i].size
  BY SizesDefined
<1>4. ASSUME NEW i \in s .. e, fs[i].kind = "simple"
      PROVE  fs[i].size \in { 1, 2, 4, 8 } /\ (S[i - 1] - S[s - 1]) % fs[i].size = 0
  <2>1. i \in 1 .. Len(fs) /\ s \in 1 .. Len(fs) /\ s <= i /\ Run(fs, s, i)
    BY <1>1 DEF Run
  <2>2. (S[i - 1] - S[s - 1]) % fs[i].size = 0
    BY <1>4, <2>1 DEF Natural
  <2>3. fs[i].size \in { 1, 2, 4, 8 }
    BY <1>4, <2>1 DEF Usual
  <2> QED BY <2>2, <2>3
<1> HIDE DEF S
<1>5. S[s - 1] \in Int
  <2>1. s - 1 \in 0 .. Len(fs)
    BY <1>1
  <2> QED BY <1>3, <2>1
<1>6. t[1] = 0
  <2>1. 1 \in 1 .. m + 1 /\ s + 1 - 2 = s - 1
    BY <1>1
  <2> QED BY <1>5, <2>1
<1>7. ASSUME NEW j \in 2 .. m + 1 PROVE t[j] = G(j, t[j - 1])
  <2> DEFINE i == s + j - 1
  <2>1. /\ j \in 1 .. m + 1 /\ j - 1 \in 1 .. m + 1 /\ j - 1 \in 1 .. m
        /\ s + (j - 1) - 2 = i - 2 /\ s + j - 2 = i - 1 /\ s + (j - 1) - 1 = i - 1
        /\ i - 1 \in 1 .. Len(fs) /\ i - 1 \in 0 .. Len(fs) /\ i - 2 \in 0 .. Len(fs)
        /\ (i - 1) - 1 = i - 2
        /\ (j <= m => j \in 1 .. m /\ i \in s .. e)
    BY <1>1
  <2>2. /\ t[j] = S[i - 1] - S[s - 1] /\ t[j - 1] = S[i - 2] - S[s - 1]
    BY <2>1
  <2>3. items[j - 1] = i - 1 /\ (j <= m => items[j] = i)
    BY <1>2, <2>1
  <2> HIDE DEF i, m, t, items
  <2>4. S[i - 1] = S[(i - 1) - 1] + fs[i - 1].size
    BY <1>3, <2>1, Zenon
  <2>5. fs[i - 1].size \in Int
    <3>1. fs[i - 1] \in Field
      BY <2>1
    <3> QED BY <3>1 DEF Field
  <2>6. S[i - 1] \in Int /\ S[i - 2] \in Int
    BY <1>3, <2>1
  <2>7. t[j - 1] + fs[items[j - 1]].size = S[i - 1] - S[s - 1]
    <3>1. S[i - 1] = S[i - 2] + fs[i - 1].size
      BY <2>1, <2>4
    <3>2. (S[i - 2] - S[s - 1]) + fs[i - 1].size = S[i - 1] - S[s - 1]
      BY <1>5, <2>5, <2>6, <3>1
    <3> QED BY <2>2, <2>3, <3>2, Zenon
  <2>8. CASE j <= m /\ fs[i].kind = "simple"
    <3>1. fs[i].size \in { 1, 2, 4, 8 } /\ (S[i - 1] - S[s - 1]) % fs[i].size = 0
      BY <1>4, <2>1, <2>8
    <3>2. S[i - 1] - S[s - 1] \in Int
      BY <1>5, <2>6
    <3>3. AlignUp(S[i - 1] - S[s - 1], fs[i].size) = S[i - 1] - S[s - 1]
      BY <3>1, <3>2, AlignUpForward
    <3> QED BY <1>2, <2>2, <2>3, <2>7, <2>8, <3>3
  <2>9. CASE ~(j <= m /\ fs[i].kind = "simple")
    BY <1>2, <2>2, <2>3, <2>7, <2>9
  <2> QED BY <2>8, <2>9
<1> HIDE DEF G
<1>8. t = Def(t)
  <2>1. ASSUME NEW j \in 1 .. m + 1 PROVE t[j] = IF j = 1 THEN 0 ELSE G(j, t[j - 1])
    <3>1. CASE j = 1
      BY <1>6, <3>1
    <3>2. CASE j # 1
      <4>1. j \in 2 .. m + 1
        BY <3>2, <1>1
      <4> QED BY <1>7, <3>2, <4>1
    <3> QED BY <3>1, <3>2
  <2> QED BY <1>2, <2>1
<1>9. p = CHOOSE u : u = Def(u)
  BY DEF Native, G
<1>10. p = Def(p)
  BY <1>8, <1>9
<1> HIDE DEF p, items, t
<1>11. \A j \in 1 .. m + 1 : p[j] = IF j = 1 THEN 0 ELSE G(j, p[j - 1])
  BY <1>2, <1>10
<1>12. \A j \in 1 .. m + 1 : p[j] = t[j]
  <2>1. p[1] = t[1]
    <3>1. 1 \in 1 .. m + 1
      BY <1>1
    <3> QED BY <1>6, <1>11, <3>1
  <2>2. ASSUME NEW j \in 1 .. m, p[j] = t[j] PROVE p[j + 1] = t[j + 1]
    <3>1. j + 1 \in 1 .. m + 1 /\ j + 1 \in 2 .. m + 1 /\ (j + 1) - 1 = j /\ j + 1 # 1
      BY <1>1
    <3>2. p[j + 1] = G(j + 1, p[(j + 1) - 1])
      BY <1>11, <3>1, Zenon
    <3>3. t[j + 1] = G(j + 1, t[(j + 1) - 1])
      BY <1>7, <3>1, Zenon
    <3> QED BY <2>2, <3>1, <3>2, <3>3
  <2> DEFINE Q == { j \in 1 .. m + 1 : p[j] = t[j] }
  <2>3. 1 \in Q /\ \A j \in 1 .. m : j \in Q => j + 1 \in Q
    BY <1>1, <2>1, <2>2
  <2> HIDE DEF m, Q
  <2>4. \A j \in 1 .. m + 1 : j \in Q
    BY <1>1, <2>3, UpTo
  <2> QED BY <2>4 DEF Q
<1>13. ASSUME NEW k \in 1 .. e - s + 2 PROVE p[k] = S[s + k - 2] - S[s - 1]
  <2>1. k \in 1 .. m + 1
    BY <1>1
  <2> QED BY <1>12, <2>1 DEF t
<1> QED BY <1>13 DEF p, items, S

-----------------------------------------------------------------------------
(* The variable offset.                                                    *)

LEMMA MovesForward ==
  ASSUME NEW fs \in Seq(Field), Usual(fs), NEW s \in Statement(Len(fs)), NEW at \in Nat
  PROVE  Moves(fs, s, at) \in Nat
<1>1. s.op \in { "unpack", "add", "align", "object", "member", "addlen" } /\ s.n \in Nat
      /\ (s.op = "addlen" => s.n \in 1 .. Len(fs))
  BY DEF Statement
<1>2. s.op = "addlen" => Bytes(fs[s.n]) \in Nat
  BY <1>1, FieldFacts
<1>3. \A x, m \in Int : And(x, m) \in Nat
  BY DEF And
<1>4. -at \in Int /\ (IF s.n > 4 THEN 3 ELSE s.n - 1) \in Int
  BY <1>1
<1>5. TypePad(s.n, at) \in Nat
  BY <1>3, <1>4 DEF TypePad
<1> HIDE DEF TypePad, Bytes
<1> QED BY <1>1, <1>2, <1>5 DEF Moves

\* What Offsets returns.
LEMMA OffsetsDefined ==
  ASSUME NEW fs \in Seq(Field), Usual(fs), NEW b \in Nat, NEW c \in Seq(Statement(Len(fs)))
  PROVE  /\ \A p \in 1 .. Len(c) + 1 : Offsets(fs, b, c)[p] \in Nat
         /\ \A p \in 1 .. Len(c) + 1 : Offsets(fs, b, c)[p] >= b
         /\ Offsets(fs, b, c)[1] = b
         /\ \A p \in 1 .. Len(c) :
              Offsets(fs, b, c)[p + 1]
                = Offsets(fs, b, c)[p] + Moves(fs, c[p], Offsets(fs, b, c)[p])
<1> DEFINE m == Len(c)
           Go(j, x) == IF x \in Nat THEN x + Moves(fs, c[j], x) ELSE 0
           F == [j \in 1 .. m |-> [x \in Int |-> Go(j, x)]]
           Def(u) == [p \in 1 .. Len(c) + 1 |->
                        IF p = 1 THEN b ELSE u[p - 1] + Moves(fs, c[p - 1], u[p - 1])]
           o == Offsets(fs, b, c)
<1>0. m \in Nat /\ b \in Int
  OBVIOUS
<1>1. ASSUME NEW j \in 1 .. m, NEW x \in Nat
      PROVE  Moves(fs, c[j], x) \in Nat
  <2>1. c[j] \in Statement(Len(fs))
    OBVIOUS
  <2> QED BY <2>1, MovesForward
<1>2. F \in [1 .. m -> [Int -> Int]]
  <2>1. ASSUME NEW j \in 1 .. m, NEW x \in Int PROVE Go(j, x) \in Int
    <3>1. CASE x \in Nat
      BY <1>1, <3>1
    <3>2. CASE x \notin Nat
      BY <3>2
    <3> QED BY <3>1, <3>2
  <2> HIDE DEF Go
  <2> QED BY <2>1
<1>3. PICK t \in [1 .. m + 1 -> Int] : t[1] = b /\ \A j \in 1 .. m : t[j + 1] = F[j][t[j]]
  <2> HIDE DEF F, m
  <2> QED BY <1>0, <1>2, Recursion
<1>4. \A j \in 1 .. m : t[j + 1] = Go(j, t[j])
  <2> HIDE DEF Go
  <2>1. \A j \in 1 .. m : t[j] \in Int
    BY <1>0
  <2> QED BY <1>3, <2>1
<1>5. ASSUME NEW j \in 1 .. m, t[j] \in Nat
      PROVE  t[j + 1] = t[j] + Moves(fs, c[j], t[j]) /\ t[j + 1] \in Nat
  <2>1. t[j + 1] = Go(j, t[j])
    BY <1>4
  <2>2. Go(j, t[j]) = t[j] + Moves(fs, c[j], t[j])
    BY <1>5, Zenon
  <2>3. Moves(fs, c[j], t[j]) \in Nat
    BY <1>1, <1>5
  <2> HIDE DEF Go
  <2>4. t[j] + Moves(fs, c[j], t[j]) \in Nat
    BY <1>5, <2>3
  <2> QED BY <2>1, <2>2, <2>4
<1>6. \A j \in 1 .. m + 1 : t[j] \in Nat
  <2> DEFINE P == { n \in Nat : n <= m => t[n + 1] \in Nat }
  <2>1. 0 \in P
    BY <1>3
  <2>2. ASSUME NEW n \in Nat, n \in P PROVE n + 1 \in P
    <3> SUFFICES ASSUME n + 1 <= m PROVE t[(n + 1) + 1] \in Nat
      OBVIOUS
    <3>1. n + 1 \in 1 .. m /\ t[n + 1] \in Nat
      BY <2>2, <1>0
    <3> QED BY <1>5, <3>1
  <2> HIDE DEF P
  <2>3. \A n \in Nat : n \in P
    BY <2>1, <2>2, Induction
  <2>4. ASSUME NEW j \in 1 .. m + 1 PROVE t[j] \in Nat
    <3>1. j - 1 \in Nat /\ j - 1 <= m /\ (j - 1) + 1 = j
      BY <1>0
    <3>2. j - 1 \in P
      BY <2>3, <3>1
    <3>3. t[(j - 1) + 1] \in Nat
      BY <3>1, <3>2 DEF P
    <3> QED BY <3>1, <3>3
  <2> QED BY <2>4
<1>7. t = Def(t)
  <2>1. ASSUME NEW p \in 1 .. m + 1
        PROVE  t[p] = IF p = 1 THEN b ELSE t[p - 1] + Moves(fs, c[p - 1], t[p - 1])
    <3>1. CASE p = 1
      BY <1>3, <3>1
    <3>2. CASE p # 1
      <4>1. p - 1 \in 1 .. m /\ (p - 1) + 1 = p /\ p - 1 \in 1 .. m + 1
        BY <3>2, <1>0
      <4>2. t[(p - 1) + 1] = t[p - 1] + Moves(fs, c[p - 1], t[p - 1])
        BY <1>5, <1>6, <4>1
      <4> QED BY <3>2, <4>1, <4>2
    <3> QED BY <3>1, <3>2
  <2> QED BY <2>1
<1>8. o = CHOOSE u : u = Def(u)
  BY DEF Offsets
<1>9. o = Def(o)
  BY <1>7, <1>8
<1> HIDE DEF o
<1>10. \A p \in 1 .. m + 1 : o[p] = IF p = 1 THEN b ELSE o[p - 1] + Moves(fs, c[p - 1], o[p - 1])
  BY <1>9
<1>11. o[1] = b
  BY <1>0, <1>10
<1>12. ASSUME NEW p \in 1 .. m PROVE o[p + 1] = o[p] + Moves(fs, c[p], o[p])
  <2>1. p + 1 \in 1 .. m + 1 /\ p + 1 # 1 /\ (p + 1) - 1 = p
    BY <1>0
  <2>2. o[p + 1] = o[(p + 1) - 1] + Moves(fs, c[(p + 1) - 1], o[(p + 1) - 1])
    BY <1>10, <2>1
  <2> QED BY <2>1, <2>2
<1>13. \A p \in 1 .. m + 1 : o[p] = t[p]
  <2>1. ASSUME NEW p \in 1 .. m, o[p] = t[p] PROVE o[p + 1] = t[p + 1]
    <3>1. t[p] \in Nat
      BY <1>6, <1>0
    <3>2. t[p + 1] = t[p] + Moves(fs, c[p], t[p])
      BY <1>5, <3>1
    <3> QED BY <1>12, <2>1, <3>2
  <2>2. o[1] = t[1]
    BY <1>3, <1>11
  <2> DEFINE Q == { p \in 1 .. m + 1 : o[p] = t[p] }
  <2>3. 1 \in Q /\ \A p \in 1 .. m : p \in Q => p + 1 \in Q
    BY <1>0, <2>1, <2>2
  <2> HIDE DEF m, Q
  <2>4. \A p \in 1 .. m + 1 : p \in Q
    BY <1>0, <2>3, UpTo
  <2> QED BY <2>4 DEF Q
<1>14. \A p \in 1 .. m + 1 : o[p] \in Nat
  BY <1>6, <1>13
<1>15. \A p \in 1 .. m + 1 : o[p] >= b
  <2>1. ASSUME NEW p \in 1 .. m PROVE o[p] <= o[p + 1]
    <3>0. p \in 1 .. m + 1
      BY <1>0
    <3>1. o[p] \in Nat /\ Moves(fs, c[p], o[p]) \in Nat
      BY <1>1, <1>14, <3>0
    <3>2. o[p + 1] = o[p] + Moves(fs, c[p], o[p])
      BY <1>12
    <3> HIDE DEF Moves
    <3> QED BY <3>1, <3>2
  <2>2. \A p \in 1 .. m + 1 : o[p] \in Int
    BY <1>14
  <2>3. \A i, j \in 1 .. m + 1 : i <= j => o[i] <= o[j]
    <3> HIDE DEF m
    <3> QED BY <1>0, <2>1, <2>2, Grows
  <2>4. 1 \in 1 .. m + 1 /\ \A p \in 1 .. m + 1 : 1 <= p
    BY <1>0
  <2>5. \A p \in 1 .. m + 1 : o[1] <= o[p]
    BY <2>3, <2>4
  <2> QED BY <1>11, <2>2, <2>5
<1> QED BY <1>11, <1>12, <1>14, <1>15 DEF o

\* They depend on the statements before.
LEMMA OffsetsAgree ==
  ASSUME NEW fs \in Seq(Field), Usual(fs), NEW b \in Nat,
         NEW c \in Seq(Statement(Len(fs))), NEW d \in Seq(Statement(Len(fs))),
         NEW m \in Nat, m <= Len(c), m <= Len(d), \A p \in 1 .. m : c[p] = d[p]
  PROVE  \A p \in 1 .. m + 1 : Offsets(fs, b, c)[p] = Offsets(fs, b, d)[p]
<1> DEFINE o == Offsets(fs, b, c)
           u == Offsets(fs, b, d)
<1>1. o[1] = b /\ \A p \in 1 .. Len(c) : o[p + 1] = o[p] + Moves(fs, c[p], o[p])
  BY OffsetsDefined
<1>2. u[1] = b /\ \A p \in 1 .. Len(d) : u[p + 1] = u[p] + Moves(fs, d[p], u[p])
  BY OffsetsDefined
<1> HIDE DEF o, u
<1>3. ASSUME NEW p \in 1 .. m, o[p] = u[p] PROVE o[p + 1] = u[p + 1]
  <2>1. p \in 1 .. Len(c) /\ p \in 1 .. Len(d) /\ c[p] = d[p]
    OBVIOUS
  <2>2. o[p + 1] = o[p] + Moves(fs, c[p], o[p]) /\ u[p + 1] = u[p] + Moves(fs, d[p], u[p])
    BY <1>1, <1>2, <2>1
  <2> QED BY <1>3, <2>1, <2>2
<1>4. o[1] = u[1]
  BY <1>1, <1>2
<1>5. \A p \in 1 .. m + 1 : o[p] = u[p]
  <2> DEFINE Q == { p \in 1 .. m + 1 : o[p] = u[p] }
  <2>1. 1 \in Q /\ \A p \in 1 .. m : p \in Q => p + 1 \in Q
    BY <1>3, <1>4
  <2> HIDE DEF Q
  <2>2. \A p \in 1 .. m + 1 : p \in Q
    BY <2>1, UpTo
  <2> QED BY <2>2 DEF Q
<1> QED BY <1>5 DEF o, u

-----------------------------------------------------------------------------
(* One more statement.                                                     *)

LEMMA OneMore ==
  ASSUME NEW T, NEW c \in Seq(T), NEW x \in T
  PROVE  /\ c \o << x >> \in Seq(T) /\ Len(c \o << x >>) = Len(c) + 1
         /\ (c \o << x >>)[Len(c) + 1] = x
         /\ \A p \in 1 .. Len(c) : (c \o << x >>)[p] = c[p]
OBVIOUS

\* The statements c are sound and leave the variable offset at at.
Reaches(fs, sh, b, c, at) ==
  c \in Seq(Statement(Len(fs))) /\ Sound(fs, sh, b, c)
    /\ Offsets(fs, b, c)[Len(c) + 1] = at

\* The first statements of sound ones are sound.
LEMMA SoundPrefix ==
  ASSUME NEW fs \in Seq(Field), Usual(fs), NEW sh, NEW b \in Nat,
         NEW c \in Seq(Statement(Len(fs))), NEW d \in Seq(Statement(Len(fs))),
         Sound(fs, sh, b, c), Len(d) <= Len(c), \A p \in 1 .. Len(d) : d[p] = c[p]
  PROVE  Sound(fs, sh, b, d)
<1>1. Len(c) \in Nat /\ Len(d) \in Nat
  OBVIOUS
<1>2. \A p \in 1 .. Len(d) + 1 : Offsets(fs, b, c)[p] = Offsets(fs, b, d)[p]
  <2>1. Len(d) <= Len(d) /\ \A p \in 1 .. Len(d) : c[p] = d[p]
    BY <1>1
  <2> QED BY <1>1, <2>1, OffsetsAgree, Zenon
<1>3. ASSUME NEW p \in 1 .. Len(d) PROVE Fits(fs, sh, b, d[p], Offsets(fs, b, d)[p])
  <2>1. p \in 1 .. Len(c) /\ p \in 1 .. Len(d) + 1 /\ d[p] = c[p]
    BY <1>1
  <2>2. Offsets(fs, b, c)[p] = Offsets(fs, b, d)[p]
    BY <1>2, <2>1
  <2>3. Fits(fs, sh, b, c[p], Offsets(fs, b, c)[p])
    BY <2>1 DEF Sound
  <2> QED BY <2>1, <2>2, <2>3
<1>4. ASSUME NEW p \in 1 .. Len(d), d[p].op = "addlen"
      PROVE  p > 1 /\ d[p - 1].op = "object" /\ d[p - 1].n = d[p].n
  <2>1. p \in 1 .. Len(c) /\ d[p] = c[p]
    BY <1>1
  <2>2. p > 1 /\ c[p - 1].op = "object" /\ c[p - 1].n = c[p].n
    BY <1>4, <2>1 DEF Sound, LengthsAdded
  <2>3. p - 1 \in 1 .. Len(d)
    BY <1>1, <2>2
  <2> QED BY <2>1, <2>2, <2>3
<1>5. NumbersFirst(fs, sh, d)
  <2> SUFFICES ASSUME sh # "union", NEW p \in 1 .. Len(d), d[p].op = "object",
                      NEW i \in 1 .. d[p].n - 1, fs[i].kind = "simple"
               PROVE  \E q \in 1 .. p - 1 : Covers(d[q], i)
    BY DEF NumbersFirst
  <2>1. p \in 1 .. Len(c) /\ d[p] = c[p]
    BY <1>1
  <2>2. PICK q \in 1 .. p - 1 : Covers(c[q], i)
    BY <2>1 DEF Sound, NumbersFirst
  <2>3. q \in 1 .. Len(d)
    BY <1>1
  <2> QED BY <2>2, <2>3
<1> QED BY <1>3, <1>4, <1>5 DEF Sound, LengthsAdded

\* A statement that fits, with what has to come before it, keeps the code sound.
LEMMA Emit ==
  ASSUME NEW fs \in Seq(Field), Usual(fs), NEW sh, NEW b \in Nat, NEW c, NEW at,
         Reaches(fs, sh, b, c, at),
         NEW x \in Statement(Len(fs)), Fits(fs, sh, b, x, at),
         x.op = "addlen" => c # << >> /\ c[Len(c)].op = "object" /\ c[Len(c)].n = x.n,
         sh # "union" /\ x.op = "object" =>
           \A i \in 1 .. x.n - 1 : fs[i].kind = "simple" => \E q \in 1 .. Len(c) : Covers(c[q], i)
  PROVE  Reaches(fs, sh, b, c \o << x >>, at + Moves(fs, x, at))
<1> DEFINE d == c \o << x >>
<1>1. c \in Seq(Statement(Len(fs))) /\ Sound(fs, sh, b, c) /\ Offsets(fs, b, c)[Len(c) + 1] = at
  BY DEF Reaches
<1>2. /\ d \in Seq(Statement(Len(fs))) /\ Len(d) = Len(c) + 1 /\ d[Len(c) + 1] = x
      /\ \A p \in 1 .. Len(c) : d[p] = c[p]
  <2> HIDE DEF Statement
  <2> QED BY <1>1, OneMore
<1>3. Len(c) \in Nat /\ (c # << >> => Len(c) > 0)
  BY <1>1
<1> HIDE DEF d
<1>4. \A p \in 1 .. Len(c) + 1 : Offsets(fs, b, c)[p] = Offsets(fs, b, d)[p]
  <2>1. Len(c) <= Len(d) /\ Len(c) <= Len(c) /\ \A p \in 1 .. Len(c) : c[p] = d[p]
    BY <1>2, <1>3
  <2> QED BY <1>1, <1>2, <1>3, <2>1, OffsetsAgree
<1>5. Offsets(fs, b, d)[Len(c) + 1] = at
  <2>1. Len(c) + 1 \in 1 .. Len(c) + 1
    BY <1>3
  <2> QED BY <1>1, <1>4, <2>1
<1>6. Offsets(fs, b, d)[Len(d) + 1] = at + Moves(fs, x, at)
  <2>1. Len(c) + 1 \in 1 .. Len(d) /\ (Len(c) + 1) + 1 = Len(d) + 1
    BY <1>2, <1>3
  <2>2. Offsets(fs, b, d)[(Len(c) + 1) + 1]
          = Offsets(fs, b, d)[Len(c) + 1] + Moves(fs, d[Len(c) + 1], Offsets(fs, b, d)[Len(c) + 1])
    BY <1>2, <2>1, OffsetsDefined
  <2> QED BY <1>2, <1>5, <2>1, <2>2
<1>7. ASSUME NEW p \in 1 .. Len(d) PROVE p \in 1 .. Len(c) \/ p = Len(c) + 1
  BY <1>2, <1>3
<1>8. ASSUME NEW p \in 1 .. Len(d) PROVE Fits(fs, sh, b, d[p], Offsets(fs, b, d)[p])
  <2>1. CASE p \in 1 .. Len(c)
    <3>1. Fits(fs, sh, b, c[p], Offsets(fs, b, c)[p])
      BY <1>1, <2>1 DEF Sound
    <3>2. d[p] = c[p] /\ Offsets(fs, b, c)[p] = Offsets(fs, b, d)[p]
      <4>1. p \in 1 .. Len(c) + 1
        BY <1>3, <2>1
      <4> QED BY <1>2, <1>4, <2>1, <4>1
    <3> QED BY <3>1, <3>2
  <2>2. CASE p = Len(c) + 1
    BY <1>2, <1>5, <2>2
  <2> QED BY <1>7, <2>1, <2>2
<1>9. ASSUME NEW p \in 1 .. Len(d), d[p].op = "addlen"
      PROVE  p > 1 /\ d[p - 1].op = "object" /\ d[p - 1].n = d[p].n
  <2>1. CASE p \in 1 .. Len(c)
    <3>1. p > 1 /\ c[p - 1].op = "object" /\ c[p - 1].n = c[p].n
      BY <1>1, <1>2, <1>9, <2>1 DEF Sound, LengthsAdded
    <3>2. p - 1 \in 1 .. Len(c)
      BY <1>3, <2>1, <3>1
    <3> QED BY <1>2, <2>1, <3>1, <3>2
  <2>2. CASE p = Len(c) + 1
    <3>1. Len(c) > 0 /\ c[Len(c)].op = "object" /\ c[Len(c)].n = x.n
      BY <1>2, <1>3, <1>9, <2>2
    <3>2. p - 1 = Len(c) /\ p - 1 \in 1 .. Len(c)
      BY <1>3, <2>2, <3>1
    <3> QED BY <1>2, <2>2, <3>1, <3>2
  <2> QED BY <1>7, <2>1, <2>2
<1>10. NumbersFirst(fs, sh, d)
  <2> SUFFICES ASSUME sh # "union", NEW p \in 1 .. Len(d), d[p].op = "object",
                      NEW i \in 1 .. d[p].n - 1, fs[i].kind = "simple"
               PROVE  \E q \in 1 .. p - 1 : Covers(d[q], i)
    BY DEF NumbersFirst
  <2>1. CASE p \in 1 .. Len(c)
    <3>1. PICK q \in 1 .. p - 1 : Covers(c[q], i)
      BY <1>1, <1>2, <2>1 DEF Sound, NumbersFirst
    <3>2. q \in 1 .. Len(c)
      BY <1>3, <2>1
    <3> QED BY <1>2, <3>1, <3>2
  <2>2. CASE p = Len(c) + 1
    <3>1. PICK q \in 1 .. Len(c) : Covers(c[q], i)
      BY <1>2, <2>2
    <3>2. q \in 1 .. p - 1
      BY <1>3, <2>2
    <3> QED BY <1>2, <3>1, <3>2
  <2> QED BY <1>7, <2>1, <2>2
<1>11. Sound(fs, sh, b, d)
  BY <1>8, <1>9, <1>10 DEF Sound, LengthsAdded
<1>12. d \in Seq(Statement(Len(fs))) /\ Offsets(fs, b, d)[Len(d) + 1] = at + Moves(fs, x, at)
  BY <1>2, <1>6
<1> QED BY <1>11, <1>12 DEF Reaches, d

\* What was covered stays covered.
LEMMA StaysCovered ==
  ASSUME NEW T, NEW c \in Seq(T), NEW x \in T, NEW i,
         \E p \in 1 .. Len(c) : Covers(c[p], i)
  PROVE  \E p \in 1 .. Len(c \o << x >>) : Covers((c \o << x >>)[p], i)
<1> DEFINE d == c \o << x >>
<1>1. PICK p \in 1 .. Len(c) : Covers(c[p], i)
  OBVIOUS
<1>2. Len(d) = Len(c) + 1 /\ d[p] = c[p] /\ Len(c) \in Nat
  BY OneMore
<1> HIDE DEF d
<1>3. p \in 1 .. Len(d) /\ Covers(d[p], i)
  BY <1>1, <1>2
<1> QED BY <1>3 DEF d

LEMMA CoveredEmit ==
  ASSUME NEW fs, NEW T, NEW c \in Seq(T), NEW x \in T, NEW n \in Nat, Covered(fs, c, n)
  PROVE  Covered(fs, c \o << x >>, n)
<1> SUFFICES ASSUME NEW i \in 1 .. n, IsAttribute(fs[i])
             PROVE  \E p \in 1 .. Len(c \o << x >>) : Covers((c \o << x >>)[p], i)
  BY DEF Covered
<1>1. \E p \in 1 .. Len(c) : Covers(c[p], i)
  BY DEF Covered
<1> QED BY <1>1, StaysCovered

\* Where the offset stands when list or structure i comes: what waits is at its
\* place, and with it and the alignment behind it the offset is at the place of i.
LEMMA BeforeObject ==
  ASSUME NEW fs \in Seq(Field), Usual(fs), NEW b \in Nat, Padded(fs, b),
         NEW i \in 1 .. Len(fs), IsObject(fs[i]),
         NEW s \in 1 .. i, Run(fs, s, i - 1), StartsRun(fs, s)
  PROVE  LET X == EndBefore(fs, b, s) + (Sizes(fs)[i - 1] - Sizes(fs)[s - 1])
         IN  /\ X \in Nat /\ EndBefore(fs, b, s) \in Nat
             /\ s < i => EndBefore(fs, b, s) = WireAt(fs, b, s)
             /\ (\E j \in 1 .. i - 1 : IsObject(fs[j])) =>
                  AlignUp(X, IF AlignSize(fs[i]) > 4 THEN 4 ELSE AlignSize(fs[i])) = WireAt(fs, b, i)
             /\ ~(\E j \in 1 .. i - 1 : IsObject(fs[j])) => X = WireAt(fs, b, i)
<1> DEFINE E == EndBefore(fs, b, s)
           D == Sizes(fs)[i - 1] - Sizes(fs)[s - 1]
           t == IF AlignSize(fs[i]) > 4 THEN 4 ELSE AlignSize(fs[i])
<1>1. /\ \A j \in 1 .. Len(fs) + 1 : WireAt(fs, b, j) \in Nat
      /\ WireAt(fs, b, 1) = b
      /\ \A j \in 1 .. Len(fs) :
           WireAt(fs, b, j + 1) = AlignUp(WireAt(fs, b, j) + Bytes(fs[j]), Unit(fs, j + 1))
  BY WireDefined, WireGrows
<1>2. i \in Nat /\ s \in Nat /\ Len(fs) \in Nat /\ 1 <= s /\ s <= i /\ i <= Len(fs)
  OBVIOUS
<1>3. E \in Nat
  <2>1. CASE s = 1
    BY <2>1 DEF EndBefore
  <2>2. CASE s # 1
    <3>1. s - 1 \in 1 .. Len(fs) /\ s - 1 \in 1 .. Len(fs) + 1
      BY <1>2, <2>2
    <3>2. WireAt(fs, b, s - 1) \in Nat /\ Bytes(fs[s - 1]) \in Nat
      BY <1>1, <3>1, FieldFacts
    <3> QED BY <2>2, <3>2 DEF EndBefore
  <2> QED BY <2>1, <2>2
<1>4. ASSUME s < i PROVE E = WireAt(fs, b, s)
  <2>1. CASE s = 1
    BY <1>1, <2>1 DEF EndBefore
  <2>2. CASE s # 1
    <3>1. s \in 2 .. Len(fs) /\ IsObject(fs[s - 1])
      BY <1>2, <2>2 DEF StartsRun
    <3>2. \E k \in s .. Len(fs) : IsObject(fs[k])
      BY <1>2
    <3>3. ~IsObject(fs[s])
      <4>1. s \in s .. i - 1
        BY <1>2, <1>4
      <4> QED BY <4>1 DEF Run
    <3>4. WireAt(fs, b, s) = WireAt(fs, b, s - 1) + Bytes(fs[s - 1])
      BY <3>1, <3>2, <3>3 DEF Padded
    <3> QED BY <2>2, <3>4 DEF EndBefore
  <2> QED BY <2>1, <2>2
<1>5. ASSUME i > 1
      PROVE  E + D \in Nat /\ WireAt(fs, b, i) = AlignUp(E + D, Unit(fs, i))
  <2>1. i - 1 \in 1 .. Len(fs) /\ i - 1 \in 1 .. Len(fs) + 1 /\ (i - 1) + 1 = i
    BY <1>2, <1>5
  <2>2. WireAt(fs, b, (i - 1) + 1)
          = AlignUp(WireAt(fs, b, i - 1) + Bytes(fs[i - 1]), Unit(fs, (i - 1) + 1))
    BY <1>1, <2>1
  <2>3. WireAt(fs, b, i - 1) \in Nat /\ Bytes(fs[i - 1]) \in Nat
    BY <1>1, <2>1, FieldFacts
  <2>4. E + D = WireAt(fs, b, i - 1) + Bytes(fs[i - 1])
    <3>1. CASE s = i
      <4>1. D = 0
        <5>1. i - 1 \in 0 .. Len(fs)
          BY <1>2
        <5>2. Sizes(fs)[i - 1] \in Int
          BY <5>1, SizesDefined
        <5> QED BY <3>1, <5>2
      <4>2. E = WireAt(fs, b, i - 1) + Bytes(fs[i - 1])
        BY <1>5, <3>1 DEF EndBefore
      <4> HIDE DEF E, D
      <4> QED BY <1>3, <4>1, <4>2
    <3>2. CASE s < i
      <4>1. s \in 1 .. Len(fs) /\ i - 1 \in s .. Len(fs)
        BY <1>2, <3>2
      <4>2. WireAt(fs, b, i - 1) + Bytes(fs[i - 1]) - Sizes(fs)[i - 1]
              = WireAt(fs, b, s) - Sizes(fs)[s - 1]
        BY <4>1, RunPositions
      <4>3. Sizes(fs)[i - 1] \in Int /\ Sizes(fs)[s - 1] \in Int
        <5>1. i - 1 \in 0 .. Len(fs) /\ s - 1 \in 0 .. Len(fs)
          BY <1>2
        <5> QED BY <5>1, SizesDefined
      <4>4. E = WireAt(fs, b, s)
        BY <1>4, <3>2
      <4>5. WireAt(fs, b, s) \in Nat
        BY <1>3, <4>4
      <4>8. WireAt(fs, b, s) + (Sizes(fs)[i - 1] - Sizes(fs)[s - 1])
              = WireAt(fs, b, i - 1) + Bytes(fs[i - 1])
        <5> DEFINE u == WireAt(fs, b, i - 1)
                   y == Bytes(fs[i - 1])
                   v == WireAt(fs, b, s)
                   p == Sizes(fs)[i - 1]
                   q == Sizes(fs)[s - 1]
        <5>1. u \in Int /\ y \in Int /\ v \in Int /\ p \in Int /\ q \in Int
          BY <2>3, <4>3, <4>5
        <5>2. u + y - p = v - q
          BY <4>2
        <5> HIDE DEF u, y, v, p, q
        <5>3. v + (p - q) = u + y
          BY <5>1, <5>2
        <5> QED BY <5>3 DEF u, y, v, p, q
      <4> QED BY <4>4, <4>8
    <3> QED BY <1>2, <3>1, <3>2
  <2> HIDE DEF E, D
  <2>5. WireAt(fs, b, i - 1) + Bytes(fs[i - 1]) \in Nat
    BY <2>3
  <2> QED BY <2>1, <2>2, <2>4, <2>5
<1>6. ASSUME i = 1 PROVE E + D \in Nat /\ WireAt(fs, b, i) = E + D
  <2>1. s = 1 /\ i - 1 = 0 /\ s - 1 = 0 /\ 0 \in 0 .. Len(fs)
    BY <1>2, <1>6
  <2>2. Sizes(fs)[0] \in Int
    BY <2>1, SizesDefined
  <2>3. D = 0
    BY <2>1, <2>2
  <2>4. E = WireAt(fs, b, 1)
    BY <1>1, <2>1 DEF EndBefore
  <2> HIDE DEF E, D
  <2> QED BY <1>3, <1>6, <2>3, <2>4
<1>7. E + D \in Nat
  <2> HIDE DEF E, D
  <2> QED BY <1>2, <1>5, <1>6
<1>8. ASSUME NEW j \in 1 .. i - 1, IsObject(fs[j]) PROVE AlignUp(E + D, t) = WireAt(fs, b, i)
  <2>1. i > 1
    BY <1>2
  <2>2. Unit(fs, i) = t
    BY <1>2, <1>8 DEF Unit
  <2> HIDE DEF E, D, t
  <2> QED BY <1>5, <2>1, <2>2
<1>9. ASSUME \A j \in 1 .. i - 1 : ~IsObject(fs[j]) PROVE E + D = WireAt(fs, b, i)
  <2>1. Unit(fs, i) = 1
    BY <1>9 DEF Unit
  <2> HIDE DEF E, D
  <2>2. ASSUME i > 1 PROVE AlignUp(E + D, 1) = E + D
    <3>1. E + D \in Int /\ 1 \in { 1, 2, 4, 8 }
      BY <1>7
    <3> QED BY <3>1, AlignUpForward
  <2>3. CASE i > 1
    BY <1>5, <2>1, <2>2, <2>3
  <2>4. CASE i = 1
    BY <1>6, <2>4
  <2> QED BY <1>2, <2>3, <2>4
<1> HIDE DEF E, D, t
<1> QED BY <1>3, <1>4, <1>7, <1>8, <1>9 DEF E, D, t

\* What waits is read when it is unpacked.
LEMMA RunCovered ==
  ASSUME NEW fs \in Seq(Field), NEW T, NEW c \in Seq(T), NEW x \in T, x.op = "unpack",
         NEW s, NEW e, Waits(fs, x.batch, s, e), Covered(fs, c, s - 1)
  PROVE  Covered(fs, c \o << x >>, e)
<1>1. s \in Nat /\ e \in Nat /\ s >= 1 /\ e >= s - 1 /\ x.batch = Span(s, e)
  BY DEF Waits
<1>2. Len(Span(s, e)) = e - s + 1 /\ \A k \in 1 .. e - s + 1 : Span(s, e)[k] = s + k - 1
  BY <1>1, SpanFacts
<1> SUFFICES ASSUME NEW i \in 1 .. e, IsAttribute(fs[i])
             PROVE  \E p \in 1 .. Len(c \o << x >>) : Covers((c \o << x >>)[p], i)
  BY DEF Covered
<1>3. CASE i <= s - 1
  <2>1. i \in 1 .. s - 1
    BY <1>1, <1>3
  <2>2. \E p \in 1 .. Len(c) : Covers(c[p], i)
    BY <2>1 DEF Covered
  <2> QED BY <2>2, StaysCovered
<1>4. CASE i > s - 1
  <2> DEFINE d == c \o << x >>
  <2>1. i - s + 1 \in 1 .. e - s + 1 /\ s + (i - s + 1) - 1 = i
    BY <1>1, <1>4
  <2>2. x.batch[i - s + 1] = i /\ i - s + 1 \in 1 .. Len(x.batch)
    BY <1>1, <1>2, <2>1
  <2>3. Covers(x, i)
    BY <2>2 DEF Covers
  <2>4. Len(d) = Len(c) + 1 /\ d[Len(c) + 1] = x /\ Len(c) \in Nat
    BY OneMore
  <2> HIDE DEF d
  <2>5. Len(c) + 1 \in 1 .. Len(d) /\ Covers(d[Len(c) + 1], i)
    BY <2>3, <2>4
  <2> QED BY <2>5 DEF d
<1>5. i <= s - 1 \/ i > s - 1
  BY <1>1
<1> QED BY <1>3, <1>4, <1>5

\* Padding need not be read.
LEMMA NothingToRead ==
  ASSUME NEW fs \in Seq(Field), NEW c, NEW items, NEW s, NEW e,
         Waits(fs, items, s, e), Covered(fs, c, s - 1),
         \A k \in 1 .. Len(items) : fs[items[k]].kind # "simple"
  PROVE  Covered(fs, c, e)
<1>1. s \in Nat /\ e \in Nat /\ s >= 1 /\ e >= s - 1 /\ e <= Len(fs) /\ items = Span(s, e)
      /\ Run(fs, s, e)
  BY DEF Waits
<1>2. Len(Span(s, e)) = e - s + 1 /\ \A k \in 1 .. e - s + 1 : Span(s, e)[k] = s + k - 1
  BY <1>1, SpanFacts
<1> SUFFICES ASSUME NEW i \in 1 .. e, IsAttribute(fs[i])
             PROVE  \E p \in 1 .. Len(c) : Covers(c[p], i)
  BY DEF Covered
<1>3. CASE i <= s - 1
  <2>1. i \in 1 .. s - 1
    BY <1>1, <1>3
  <2> QED BY <2>1 DEF Covered
<1>4. CASE i > s - 1
  <2>1. i - s + 1 \in 1 .. e - s + 1 /\ s + (i - s + 1) - 1 = i /\ i \in s .. e
        /\ i \in 1 .. Len(fs)
    BY <1>1, <1>4
  <2>2. fs[items[i - s + 1]].kind # "simple" /\ items[i - s + 1] = i
    BY <1>1, <1>2, <2>1
  <2>3. ~IsObject(fs[i])
    BY <1>1, <2>1 DEF Run
  <2>4. fs[i].kind \in Kinds
    <3>1. fs[i] \in Field
      BY <2>1
    <3> QED BY <3>1 DEF Field
  <2>5. FALSE
    BY <2>2, <2>3, <2>4 DEF Kinds, IsObject, IsAttribute
  <2> QED BY <2>5
<1>5. i <= s - 1 \/ i > s - 1
  BY <1>1
<1> QED BY <1>3, <1>4, <1>5

\* Unpacking what waits, when there is a number in it, at its place.
LEMMA UnpackFits ==
  ASSUME NEW fs \in Seq(Field), NEW sh, sh # "union", NEW b, NEW at,
         NEW s, NEW e, NEW x, x.op = "unpack", Waits(fs, x.batch, s, e),
         s <= e => at = WireAt(fs, b, s),
         NEW k \in 1 .. Len(x.batch)
  PROVE  Fits(fs, sh, b, x, at)
<1>1. s \in Nat /\ e \in Nat /\ s >= 1 /\ e >= s - 1 /\ e <= Len(fs) /\ x.batch = Span(s, e)
  BY DEF Waits
<1>2. Len(x.batch) = e - s + 1
  BY <1>1, SpanFacts
<1>3. s \in 1 .. Len(fs) /\ e \in 1 .. Len(fs) /\ s <= e
  BY <1>1, <1>2
<1> QED BY <1>3 DEF Fits

\* Emitting what only moves the offset.
LEMMA EmitMove ==
  ASSUME NEW fs \in Seq(Field), Usual(fs), NEW sh, sh # "union", NEW b \in Nat, NEW c, NEW at,
         Reaches(fs, sh, b, c, at), NEW n \in Nat, Covered(fs, c, n),
         NEW op \in { "add", "align" }, NEW m \in Nat, op = "align" => m > 0
  PROVE  /\ Reaches(fs, sh, b, c \o Stmt(op, m), at + (IF op = "add" THEN m ELSE TypePad(m, at)))
         /\ Covered(fs, c \o Stmt(op, m), n)
<1> DEFINE x == [op |-> op, n |-> m, batch |-> << >>]
<1>1. x \in Statement(Len(fs)) /\ x.op = op /\ x.n = m
  BY DEF Statement
<1>2. Stmt(op, m) = << x >>
  BY DEF Stmt
<1> HIDE DEF x
<1>3. Fits(fs, sh, b, x, at)
  BY <1>1 DEF Fits
<1>4. Moves(fs, x, at) = IF op = "add" THEN m ELSE TypePad(m, at)
  <2> HIDE DEF TypePad
  <2> QED BY <1>1 DEF Moves
<1>5. Reaches(fs, sh, b, c \o << x >>, at + Moves(fs, x, at))
  BY <1>1, <1>3, Emit
<1>6. c \in Seq(Statement(Len(fs)))
  BY DEF Reaches
<1>7. Covered(fs, c \o << x >>, n)
  BY <1>1, <1>6, CoveredEmit
<1> QED BY <1>2, <1>4, <1>5, <1>7

\* Emitting an unpack of what waits.
LEMMA EmitUnpack ==
  ASSUME NEW fs \in Seq(Field), Usual(fs), NEW sh, sh # "union", NEW b \in Nat, NEW c, NEW at,
         Reaches(fs, sh, b, c, at), NEW items, NEW s, NEW e, Waits(fs, items, s, e),
         Covered(fs, c, s - 1), s <= e => at = WireAt(fs, b, s),
         NEW k \in 1 .. Len(items),
         NEW x, x = [op |-> "unpack", n |-> 0, batch |-> items]
  PROVE  Reaches(fs, sh, b, c \o << x >>, at) /\ Covered(fs, c \o << x >>, e)
<1>1. s \in Nat /\ e \in Nat /\ s >= 1 /\ e >= s - 1 /\ items = Span(s, e)
  BY DEF Waits
<1>2. items \in Seq(Nat)
  BY <1>1, SpanFacts
<1>3. x \in Statement(Len(fs)) /\ x.op = "unpack" /\ x.batch = items
  BY <1>2 DEF Statement
<1>4. Fits(fs, sh, b, x, at)
  BY <1>3, UnpackFits
<1>5. Moves(fs, x, at) = 0
  BY <1>3 DEF Moves
<1>6. Reaches(fs, sh, b, c \o << x >>, at + Moves(fs, x, at))
  BY <1>3, <1>4, Emit
<1>7. c \in Seq(Statement(Len(fs))) /\ at \in Nat
  <2>1. c \in Seq(Statement(Len(fs))) /\ Offsets(fs, b, c)[Len(c) + 1] = at
    BY DEF Reaches
  <2>2. Len(c) + 1 \in 1 .. Len(c) + 1
    BY <2>1
  <2> QED BY <2>1, <2>2, OffsetsDefined
<1>8. at + 0 = at
  BY <1>7
<1>9. Covered(fs, c \o << x >>, e)
  BY <1>3, <1>7, RunCovered
<1> QED BY <1>5, <1>6, <1>8, <1>9

LEMMA AllButLast ==
  ASSUME NEW T, NEW c \in Seq(T), Len(c) >= 1
  PROVE  /\ SubSeq(c, 1, Len(c) - 1) \in Seq(T) /\ Len(SubSeq(c, 1, Len(c) - 1)) = Len(c) - 1
         /\ \A p \in 1 .. Len(SubSeq(c, 1, Len(c) - 1)) : SubSeq(c, 1, Len(c) - 1)[p] = c[p]
<1> DEFINE n == Len(c) - 1
           d == SubSeq(c, 1, n)
<1>1. n \in Nat /\ n <= Len(c)
  OBVIOUS
<1> HIDE DEF n
<1>2. \A p \in 1 .. n : p \in 1 .. Len(c)
  BY <1>1
<1>3. d \in Seq(T) /\ Len(d) = n
  BY <1>1, <1>2
<1>4. \A p \in 1 .. n : d[p] = c[p]
  BY <1>1, <1>2
<1> HIDE DEF d
<1>5. d \in Seq(T) /\ Len(d) = n /\ \A p \in 1 .. Len(d) : d[p] = c[p]
  BY <1>3, <1>4
<1> QED BY <1>5 DEF d, n

LEMMA NothingMore == ASSUME NEW T, NEW c \in Seq(T) PROVE c \o << >> = c
OBVIOUS

\* What _py_complex has emitted with list or structure i, when c was emitted and
\* items wait.
Emitted(fs, items, c, i) ==
  LET size == SumOf([k \in 1 .. Len(items) |-> fs[items[k]].size])
  IN  c \o When(\E k \in 1 .. Len(items) : fs[items[k]].kind = "simple",
                << [op |-> "unpack", n |-> 0, batch |-> items] >>)
        \o When(size > 0, Stmt("add", size))
        \o When(\E j \in 1 .. i - 1 : IsObject(fs[j]), Stmt("align", AlignSize(fs[i])))
        \o Stmt("object", i)
        \o Stmt("addlen", i)

\* The statements d cover the fields up to the list or structure i and end behind it.
Through(fs, sh, b, d, i) ==
  /\ Reaches(fs, sh, b, d, EndBefore(fs, b, i + 1)) /\ Covered(fs, d, i)
  /\ d # << >> /\ d[Len(d)].op = "addlen"

LEMMA EmitObject ==
  ASSUME NEW fs \in Seq(Field), Usual(fs), NEW sh, sh # "union", NEW b \in Nat, Padded(fs, b),
         NEW i \in 1 .. Len(fs), IsObject(fs[i]),
         NEW items, NEW s, Waits(fs, items, s, i - 1),
         NEW c, Reaches(fs, sh, b, c, EndBefore(fs, b, s)), Covered(fs, c, s - 1)
  PROVE  Through(fs, sh, b, Emitted(fs, items, c, i), i)
<1> DEFINE d == Emitted(fs, items, c, i)
           names == \E k \in 1 .. Len(items) : fs[items[k]].kind = "simple"
           size == SumOf([k \in 1 .. Len(items) |-> fs[items[k]].size])
           al == \E j \in 1 .. i - 1 : IsObject(fs[j])
           T  == Statement(Len(fs))
           E  == EndBefore(fs, b, s)
           D  == Sizes(fs)[i - 1] - Sizes(fs)[s - 1]
           A  == AlignSize(fs[i])
           w  == WireAt(fs, b, i)
           x4 == [op |-> "object", n |-> i, batch |-> << >>]
           x5 == [op |-> "addlen", n |-> i, batch |-> << >>]
           c1 == c \o When(names, << [op |-> "unpack", n |-> 0, batch |-> items] >>)
           c2 == c1 \o When(size > 0, Stmt("add", size))
           c3 == c2 \o When(al, Stmt("align", A))
           c4 == c3 \o << x4 >>
<1>1. /\ s \in Nat /\ s >= 1 /\ s <= i /\ i \in Nat /\ i - 1 \in Nat /\ s \in 1 .. i
      /\ s \in 1 .. Len(fs) + 1 /\ i - 1 \in s - 1 .. Len(fs)
      /\ items = Span(s, i - 1) /\ Run(fs, s, i - 1) /\ StartsRun(fs, s)
  BY DEF Waits
<1>2. /\ E + D \in Nat /\ E \in Nat
      /\ s < i => E = WireAt(fs, b, s)
      /\ al => AlignUp(E + D, IF A > 4 THEN 4 ELSE A) = w
      /\ ~al => E + D = w
  BY <1>1, BeforeObject
<1>3. size = D
  BY <1>1, SpanSum
<1>4. size \in Nat
  <2> DEFINE q == [k \in 1 .. Len(items) |-> fs[items[k]].size]
  <2>1. Len(items) = i - 1 - s + 1 /\ \A k \in 1 .. i - 1 - s + 1 : items[k] = s + k - 1
    <3>1. i - 1 >= s - 1
      BY <1>1
    <3> QED BY <1>1, <3>1, SpanFacts, Zenon
  <2>2. ASSUME NEW k \in 1 .. Len(items) PROVE fs[items[k]].size \in Nat
    <3>1. items[k] = s + k - 1 /\ s + k - 1 \in s .. i - 1 /\ s + k - 1 \in 1 .. Len(fs)
      BY <1>1, <2>1
    <3>2. ~IsObject(fs[s + k - 1])
      BY <1>1, <3>1 DEF Run
    <3>3. fs[s + k - 1].size \in Nat
      BY <3>1, <3>2, FieldFacts
    <3> QED BY <3>1, <3>3
  <2>3. Len(items) \in Nat
    BY <1>1, <2>1
  <2>4. q \in Seq(Nat)
    BY <2>2, <2>3
  <2> HIDE DEF q
  <2> QED BY <2>4, SumBounds DEF q
<1>5. c \in Seq(T)
  BY DEF Reaches
<1>6. A \in Nat /\ A > 0 /\ A # 3
  BY AlignSizeFacts
<1>7. d = c4 \o << x5 >>
  BY DEF Stmt, Emitted
<1> HIDE DEF T, E, D, A, w, d
<1>8. Reaches(fs, sh, b, c1, E) /\ Covered(fs, c1, i - 1)
  <2>1. CASE names
    <3>1. PICK k \in 1 .. Len(items) : fs[items[k]].kind = "simple"
      BY <2>1
    <3>2. s <= i - 1 => E = WireAt(fs, b, s)
      BY <1>1, <1>2
    <3>3. c1 = c \o << [op |-> "unpack", n |-> 0, batch |-> items] >>
      BY <2>1 DEF When
    <3>4. Reaches(fs, sh, b, c, E)
      BY DEF E
    <3> HIDE DEF c1
    <3> QED BY <3>2, <3>3, <3>4, EmitUnpack
  <2>2. CASE ~names
    <3>1. c1 = c
      BY <1>5, <2>2, NothingMore DEF When
    <3>2. \A k \in 1 .. Len(items) : fs[items[k]].kind # "simple"
      BY <2>2
    <3>3. Covered(fs, c, i - 1)
      BY <3>2, NothingToRead
    <3>4. Reaches(fs, sh, b, c, E)
      BY DEF E
    <3> HIDE DEF c1
    <3> QED BY <3>1, <3>3, <3>4
  <2> QED BY <2>1, <2>2
<1> HIDE DEF c1
<1>9. Reaches(fs, sh, b, c2, E + D) /\ Covered(fs, c2, i - 1)
  <2>1. CASE size > 0
    <3>1. c2 = c1 \o Stmt("add", size)
      BY <2>1 DEF When
    <3>2. Reaches(fs, sh, b, c1 \o Stmt("add", size),
                  E + (IF "add" = "add" THEN size ELSE TypePad(size, E)))
          /\ Covered(fs, c1 \o Stmt("add", size), i - 1)
      BY <1>1, <1>4, <1>8, EmitMove
    <3> QED BY <1>3, <3>1, <3>2
  <2>2. CASE ~(size > 0)
    <3>1. c1 \in Seq(T)
      BY <1>8 DEF Reaches, T
    <3>2. c2 = c1
      BY <2>2, <3>1, NothingMore DEF When
    <3>3. D = 0 /\ E + D = E
      BY <1>2, <1>3, <1>4, <2>2
    <3> QED BY <1>8, <3>2, <3>3
  <2> QED BY <2>1, <2>2
<1> HIDE DEF c2
<1>10. Reaches(fs, sh, b, c3, w) /\ Covered(fs, c3, i - 1)
  <2>1. CASE al
    <3>1. c3 = c2 \o Stmt("align", A)
      BY <2>1 DEF When
    <3>2. Reaches(fs, sh, b, c2 \o Stmt("align", A),
                  (E + D) + (IF "align" = "add" THEN A ELSE TypePad(A, E + D)))
          /\ Covered(fs, c2 \o Stmt("align", A), i - 1)
      BY <1>1, <1>6, <1>9, EmitMove
    <3>3. (E + D) + TypePad(A, E + D) = w
      <4>1. E + D \in Int
        BY <1>2
      <4>2. (E + D) + TypePad(A, E + D) = AlignUp(E + D, IF A > 4 THEN 4 ELSE A)
        BY <1>6, <4>1, TypePadAligns
      <4> QED BY <1>2, <2>1, <4>2
    <3> QED BY <3>1, <3>2, <3>3
  <2>2. CASE ~al
    <3>1. c2 \in Seq(T)
      BY <1>9 DEF Reaches, T
    <3>2. c3 = c2
      BY <2>2, <3>1, NothingMore DEF When
    <3> QED BY <1>2, <1>9, <2>2, <3>2
  <2> QED BY <2>1, <2>2
<1> HIDE DEF c3
<1>11. w \in Nat
  <2>1. i \in 1 .. Len(fs) + 1
    OBVIOUS
  <2> QED BY <2>1, WireGrows DEF w
<1>12. c3 \in Seq(T)
  BY <1>10 DEF Reaches, T
<1>13. x4 \in T /\ x4.op = "object" /\ x4.n = i /\ x5 \in T /\ x5.op = "addlen" /\ x5.n = i
  BY DEF T, Statement
<1> HIDE DEF x4, x5
<1>14. Reaches(fs, sh, b, c4, w)
  <2>1. Fits(fs, sh, b, x4, w)
    BY <1>13 DEF Fits, w
  <2>2. Moves(fs, x4, w) = 0
    BY <1>13 DEF Moves
  <2>3. \A j \in 1 .. x4.n - 1 : fs[j].kind = "simple" => \E q \in 1 .. Len(c3) : Covers(c3[q], j)
    BY <1>10, <1>13 DEF Covered, IsAttribute
  <2>4. Reaches(fs, sh, b, c3 \o << x4 >>, w + Moves(fs, x4, w))
    BY <1>10, <1>13, <2>1, <2>3, Emit DEF T
  <2>5. w + 0 = w
    BY <1>11
  <2> QED BY <2>2, <2>4, <2>5
<1>15. /\ Len(c4) = Len(c3) + 1 /\ c4 \in Seq(T) /\ c4[Len(c3) + 1] = x4
       /\ Len(c3) \in Nat
  BY <1>12, <1>13, OneMore
<1>16. Covered(fs, c4, i)
  <2>1. Covered(fs, c4, i - 1)
    BY <1>1, <1>10, <1>12, <1>13, CoveredEmit
  <2>2. Len(c4) \in 1 .. Len(c4) /\ Covers(c4[Len(c4)], i)
    BY <1>13, <1>15 DEF Covers
  <2> HIDE DEF c4
  <2> SUFFICES ASSUME NEW j \in 1 .. i, IsAttribute(fs[j])
               PROVE  \E p \in 1 .. Len(c4) : Covers(c4[p], j)
    BY DEF Covered
  <2>3. CASE j = i
    BY <2>2, <2>3
  <2>4. CASE j # i
    <3>1. j \in 1 .. i - 1
      BY <1>1, <2>4
    <3> QED BY <2>1, <3>1 DEF Covered
  <2> QED BY <2>3, <2>4
<1> HIDE DEF c4
<1>17. Reaches(fs, sh, b, d, w + Bytes(fs[i]))
  <2>1. Fits(fs, sh, b, x5, w)
    BY <1>13 DEF Fits
  <2>2. Moves(fs, x5, w) = Bytes(fs[i])
    BY <1>13 DEF Moves
  <2>3. c4 # << >> /\ c4[Len(c4)].op = "object" /\ c4[Len(c4)].n = x5.n
    BY <1>13, <1>15
  <2>4. Reaches(fs, sh, b, c4 \o << x5 >>, w + Moves(fs, x5, w))
    BY <1>13, <1>14, <2>1, <2>3, Emit DEF T
  <2> QED BY <1>7, <2>2, <2>4
<1>18. EndBefore(fs, b, i + 1) = w + Bytes(fs[i])
  <2>1. i + 1 # 1 /\ (i + 1) - 1 = i
    BY <1>1
  <2> QED BY <2>1 DEF EndBefore, w
<1>19. Covered(fs, d, i)
  BY <1>1, <1>7, <1>13, <1>15, <1>16, CoveredEmit
<1>20. d # << >> /\ d[Len(d)].op = "addlen"
  <2>1. d[Len(c4) + 1] = x5 /\ Len(d) = Len(c4) + 1 /\ Len(c4) \in Nat
    BY <1>7, <1>13, <1>15, OneMore
  <2>2. Len(d) # 0
    BY <2>1
  <2> QED BY <1>13, <2>1, <2>2
<1> QED BY <1>17, <1>18, <1>19, <1>20 DEF d, Through

\* Where the offset stands when the last fields, which wait, are unpacked.
LEMMA BeforeEnd ==
  ASSUME NEW fs \in Seq(Field), Usual(fs), NEW b \in Nat,
         NEW s \in 1 .. Len(fs), Run(fs, s, Len(fs)), StartsRun(fs, s),
         NEW k \in s .. Len(fs), fs[k].kind = "simple"
  PROVE  /\ WireAt(fs, b, s) = IF s = 1 THEN b ELSE AlignUp(EndBefore(fs, b, s), 4)
         /\ WireAt(fs, b, s) + (Sizes(fs)[Len(fs)] - Sizes(fs)[s - 1]) = WireAt(fs, b, Len(fs) + 1)
<1> DEFINE n == Len(fs)
<1>1. n \in Nat /\ s \in Nat /\ s >= 1 /\ s <= n /\ n \in 1 .. Len(fs) /\ n \in s .. Len(fs)
      /\ n + 1 \in 2 .. Len(fs) + 1 /\ (n + 1) - 1 = n /\ n + 1 \in 1 .. Len(fs) + 1
  OBVIOUS
<1>2. /\ \A j \in 1 .. Len(fs) + 1 : WireAt(fs, b, j) \in Nat
      /\ WireAt(fs, b, 1) = b
      /\ \A j \in 1 .. Len(fs) :
           WireAt(fs, b, j + 1) = AlignUp(WireAt(fs, b, j) + Bytes(fs[j]), Unit(fs, j + 1))
  BY WireDefined, WireGrows
<1>3. \A j \in s .. Len(fs) : ~IsObject(fs[j])
  BY DEF Run
<1>4. ASSUME s # 1 PROVE WireAt(fs, b, s) = AlignUp(EndBefore(fs, b, s), 4)
  <2>1. s - 1 \in 1 .. Len(fs) /\ (s - 1) + 1 = s /\ IsObject(fs[s - 1]) /\ s - 1 \in 1 .. s - 1
    BY <1>1, <1>4 DEF StartsRun
  <2>2. ~IsObject(fs[s])
    BY <1>1, <1>3
  <2>3. \A j \in s .. k : ~IsObject(fs[j])
    BY <1>1, <1>3
  <2>4. Unit(fs, s) = 4
    BY <2>1, <2>2, <2>3 DEF Unit
  <2>5. WireAt(fs, b, (s - 1) + 1)
          = AlignUp(WireAt(fs, b, s - 1) + Bytes(fs[s - 1]), Unit(fs, (s - 1) + 1))
    BY <1>2, <2>1, Zenon
  <2>6. EndBefore(fs, b, s) = WireAt(fs, b, s - 1) + Bytes(fs[s - 1])
    BY <1>4 DEF EndBefore
  <2> QED BY <2>1, <2>4, <2>5, <2>6
<1>5. WireAt(fs, b, n + 1) = WireAt(fs, b, n) + Bytes(fs[n])
  <2>1. Unit(fs, n + 1) = 1
    <3>1. ~IsObject(fs[(n + 1) - 1])
      BY <1>1, <1>3
    <3>2. ~(n + 1 <= Len(fs))
      BY <1>1
    <3> QED BY <1>1, <3>1, <3>2, UnitInRun
  <2>2. WireAt(fs, b, n + 1) = AlignUp(WireAt(fs, b, n) + Bytes(fs[n]), Unit(fs, n + 1))
    BY <1>1, <1>2, Zenon
  <2>3. WireAt(fs, b, n) + Bytes(fs[n]) \in Int /\ 1 \in { 1, 2, 4, 8 }
    <3>1. Bytes(fs[n]) \in Nat
      BY <1>1, FieldFacts
    <3>2. WireAt(fs, b, n) \in Nat
      BY <1>1, <1>2
    <3> QED BY <3>1, <3>2
  <2> QED BY <2>1, <2>2, <2>3, AlignUpForward
<1>6. WireAt(fs, b, n) + Bytes(fs[n]) - Sizes(fs)[n] = WireAt(fs, b, s) - Sizes(fs)[s - 1]
  BY <1>1, RunPositions
<1>7. WireAt(fs, b, s) + (Sizes(fs)[n] - Sizes(fs)[s - 1]) = WireAt(fs, b, n) + Bytes(fs[n])
  <2> DEFINE u == WireAt(fs, b, n)
             y == Bytes(fs[n])
             v == WireAt(fs, b, s)
             p == Sizes(fs)[n]
             q == Sizes(fs)[s - 1]
  <2>1. n \in 0 .. Len(fs) /\ s - 1 \in 0 .. Len(fs) /\ s \in 1 .. Len(fs) + 1
    BY <1>1
  <2>2. u \in Int /\ v \in Int /\ y \in Int /\ p \in Int /\ q \in Int
    <3>1. u \in Nat /\ v \in Nat
      BY <1>1, <1>2, <2>1
    <3>2. y \in Nat
      BY <1>1, FieldFacts
    <3>3. p \in Int /\ q \in Int
      BY <2>1, SizesDefined
    <3> HIDE DEF u, v, y, p, q
    <3> QED BY <3>1, <3>2, <3>3
  <2>3. u + y - p = v - q
    BY <1>6
  <2> HIDE DEF u, v, y, p, q
  <2>4. v + (p - q) = u + y
    BY <2>2, <2>3
  <2> QED BY <2>4 DEF u, v, y, p, q
<1> QED BY <1>2, <1>4, <1>5, <1>7

\* What _py_complex has emitted in the end, when c was emitted and the fields from s on
\* wait in items.
Closed(fs, items, c, s) ==
  LET names == \E k \in 1 .. Len(items) : fs[items[k]].kind = "simple"
      size  == SumOf([k \in 1 .. Len(items) |-> fs[items[k]].size])
  IN  c \o When(names /\ s # 1, Stmt("align", 4))
        \o When(names, << [op |-> "unpack", n |-> 0, batch |-> items] >>)
        \o When(names, Stmt("add", size))

\* The statements d cover all fields and end where the object does, if that does
\* not end in padding; what PopsLast drops reads nothing.
Whole(fs, sh, b, d) ==
  /\ d \in Seq(Statement(Len(fs))) /\ Sound(fs, sh, b, d) /\ Covered(fs, d, Len(fs))
  /\ d # << >> => d[Len(d)].op \in { "add", "addlen" }
  /\ NoTrail(fs) /\ (\E i \in 1 .. Len(fs) : IsObject(fs[i])) =>
       Offsets(fs, b, d)[Len(d) + 1] = WireAt(fs, b, Len(fs) + 1)

LEMMA EmitEnd ==
  ASSUME NEW fs \in Seq(Field), Usual(fs), NEW sh, sh # "union", NEW b \in Nat,
         NEW items, NEW s, Waits(fs, items, s, Len(fs)),
         NEW c, Reaches(fs, sh, b, c, EndBefore(fs, b, s)), Covered(fs, c, s - 1),
         c # << >> => c[Len(c)].op = "addlen"
  PROVE  Whole(fs, sh, b, Closed(fs, items, c, s))
<1> DEFINE d == Closed(fs, items, c, s)
           al == s # 1
           size == SumOf([k \in 1 .. Len(items) |-> fs[items[k]].size])
           T  == Statement(Len(fs))
           E  == EndBefore(fs, b, s)
           w  == WireAt(fs, b, s)
           x  == [op |-> "unpack", n |-> 0, batch |-> items]
           n  == Len(fs)
<1>1. /\ s \in Nat /\ s >= 1 /\ s <= n + 1 /\ n \in Nat /\ s \in 1 .. Len(fs) + 1
      /\ n \in s - 1 .. Len(fs) /\ n >= s - 1
      /\ items = Span(s, n) /\ Run(fs, s, n) /\ StartsRun(fs, s)
  BY DEF Waits
<1>2. Len(items) = n - s + 1 /\ \A k \in 1 .. n - s + 1 : items[k] = s + k - 1
  BY <1>1, SpanFacts, Zenon
<1>3. c \in Seq(T) /\ Len(c) \in Nat /\ Offsets(fs, b, c)[Len(c) + 1] = E
  BY DEF Reaches
<1>4. E \in Nat
  <2>1. Len(c) + 1 \in 1 .. Len(c) + 1
    BY <1>3
  <2> QED BY <1>3, <2>1, OffsetsDefined
<1>5. CASE \E k \in 1 .. Len(items) : fs[items[k]].kind = "simple"
  <2> DEFINE c1 == c \o When(al, Stmt("align", 4))
             c2 == c1 \o << x >>
             c3 == c2 \o Stmt("add", size)
  <2>1. PICK k \in 1 .. Len(items) : fs[items[k]].kind = "simple"
    BY <1>5
  <2>2. items[k] \in s .. n /\ s \in 1 .. Len(fs) /\ s \in 1 .. Len(fs) + 1 /\ s <= n
    BY <1>1, <1>2
  <2>3. /\ w = IF s = 1 THEN b ELSE AlignUp(E, 4)
        /\ w + (Sizes(fs)[n] - Sizes(fs)[s - 1]) = WireAt(fs, b, n + 1)
    BY <1>1, <2>1, <2>2, BeforeEnd
  <2>4. size = Sizes(fs)[n] - Sizes(fs)[s - 1]
    BY <1>1, SpanSum
  <2>5. size \in Nat
    <3> DEFINE q == [j \in 1 .. Len(items) |-> fs[items[j]].size]
    <3>1. ASSUME NEW j \in 1 .. Len(items) PROVE fs[items[j]].size \in Nat
      <4>1. items[j] = s + j - 1 /\ s + j - 1 \in s .. n /\ s + j - 1 \in 1 .. Len(fs)
        BY <1>1, <1>2
      <4>2. ~IsObject(fs[s + j - 1])
        BY <1>1, <4>1 DEF Run
      <4>3. fs[s + j - 1].size \in Nat
        BY <4>1, <4>2, FieldFacts
      <4> QED BY <4>1, <4>3
    <3>2. Len(items) \in Nat
      BY <1>1, <1>2
    <3>3. q \in Seq(Nat)
      BY <3>1, <3>2
    <3> HIDE DEF q
    <3> QED BY <3>3, SumBounds DEF q
  <2>6. d = c3
    BY <1>5, Zenon DEF Closed, When
  <2> HIDE DEF d, size, E, w, x, n
  <2>7. Reaches(fs, sh, b, c1, w) /\ Covered(fs, c1, s - 1)
    <3>1. CASE al
      <4>1. c1 = c \o Stmt("align", 4)
        BY <3>1, Zenon DEF When
      <4>2. Reaches(fs, sh, b, c \o Stmt("align", 4),
                    E + (IF "align" = "add" THEN 4 ELSE TypePad(4, E)))
            /\ Covered(fs, c \o Stmt("align", 4), s - 1)
        <5>1. s - 1 \in Nat /\ 4 \in Nat /\ 4 > 0
          BY <1>1
        <5> QED BY <5>1, EmitMove DEF E
      <4>3. E + TypePad(4, E) = AlignUp(E, IF 4 > 4 THEN 4 ELSE 4)
        BY <1>4, TypePadAligns
      <4>4. E + TypePad(4, E) = w
        BY <2>3, <3>1, <4>3
      <4> HIDE DEF c1
      <4> QED BY <4>1, <4>2, <4>4
    <3>2. CASE ~al
      <4>1. c1 = c
        BY <1>3, <3>2, NothingMore, Zenon DEF When
      <4>2. E = w
        BY <2>3, <3>2 DEF E, EndBefore
      <4> HIDE DEF c1
      <4>3. Reaches(fs, sh, b, c, E)
        BY DEF E
      <4> QED BY <4>1, <4>2, <4>3
    <3> QED BY <3>1, <3>2
  <2> HIDE DEF c1
  <2>8. Reaches(fs, sh, b, c2, w) /\ Covered(fs, c2, n)
    <3>1. Waits(fs, items, s, n)
      BY DEF n
    <3>2. s <= n => w = WireAt(fs, b, s)
      BY DEF w
    <3> QED BY <2>7, <3>1, <3>2, EmitUnpack DEF x
  <2> HIDE DEF c2
  <2>9. Reaches(fs, sh, b, c3, w + size) /\ Covered(fs, c3, n)
    <3>1. Reaches(fs, sh, b, c2 \o Stmt("add", size),
                  w + (IF "add" = "add" THEN size ELSE TypePad(size, w)))
          /\ Covered(fs, c2 \o Stmt("add", size), n)
      BY <1>1, <2>5, <2>8, EmitMove
    <3> QED BY <3>1
  <2>10. c3 # << >> /\ c3[Len(c3)].op = "add"
    <3> DEFINE y == [op |-> "add", n |-> size, batch |-> << >>]
    <3>1. y \in T /\ y.op = "add"
      BY <2>5 DEF Statement
    <3>2. c2 \in Seq(T)
      BY <2>8 DEF Reaches
    <3>3. c3 = c2 \o << y >>
      BY DEF Stmt
    <3> HIDE DEF c3, y, T
    <3>4. Len(c3) = Len(c2) + 1 /\ c3[Len(c2) + 1] = y /\ Len(c2) \in Nat
      BY <3>1, <3>2, <3>3, OneMore
    <3>5. Len(c3) # 0
      BY <3>4
    <3> QED BY <3>1, <3>4, <3>5
  <2> HIDE DEF c3
  <2>11. Offsets(fs, b, d)[Len(d) + 1] = WireAt(fs, b, Len(fs) + 1)
    BY <2>3, <2>4, <2>6, <2>9 DEF Reaches, n
  <2> QED BY <2>6, <2>9, <2>10, <2>11 DEF Reaches, Whole, d, n
<1>6. CASE ~\E k \in 1 .. Len(items) : fs[items[k]].kind = "simple"
  <2>1. d = c
    BY <1>3, <1>6, NothingMore, Zenon DEF Closed, When
  <2>2. Covered(fs, c, n)
    BY <1>6, NothingToRead
  <2>3. ASSUME NoTrail(fs), NEW i \in 1 .. Len(fs), IsObject(fs[i])
        PROVE  E = WireAt(fs, b, Len(fs) + 1)
    <3>1. n \in 1 .. Len(fs) /\ fs # << >>
      BY <1>1
    <3>2. fs[n].kind \notin { "auto", "pad" }
      BY <2>3, <3>1 DEF NoTrail
    <3>3. s = n + 1
      <4> SUFFICES ASSUME s # n + 1 PROVE FALSE
        OBVIOUS
      <4>1. n \in s .. n /\ n - s + 1 \in 1 .. n - s + 1 /\ s + (n - s + 1) - 1 = n
        BY <1>1
      <4>2. items[n - s + 1] = n /\ n - s + 1 \in 1 .. Len(items)
        BY <1>2, <4>1
      <4>3. fs[n].kind # "simple"
        BY <1>6, <4>2
      <4>4. ~IsObject(fs[n])
        BY <1>1, <4>1 DEF Run
      <4>5. fs[n].kind \in Kinds
        BY <3>1, FieldFacts
      <4> QED BY <3>2, <4>3, <4>4, <4>5 DEF Kinds, IsObject
    <3>4. IsObject(fs[n]) /\ s # 1
      BY <1>1, <3>1, <3>3 DEF StartsRun
    <3>5. Unit(fs, n + 1) = 1
      <4>1. n \in 1 .. (n + 1) - 1 /\ ~(n + 1 <= Len(fs)) /\ \A j \in n + 1 .. Len(fs) : FALSE
        BY <1>1, <3>1
      <4> QED BY <3>4, <4>1 DEF Unit
    <3>6. WireAt(fs, b, n + 1) = AlignUp(WireAt(fs, b, n) + Bytes(fs[n]), Unit(fs, n + 1))
      BY <3>1, WireDefined, Zenon
    <3>7. E = WireAt(fs, b, n) + Bytes(fs[n])
      <4>1. s - 1 = n
        BY <1>1, <3>3
      <4> QED BY <3>4, <4>1 DEF EndBefore
    <3>8. E \in Int /\ 1 \in { 1, 2, 4, 8 }
      BY <1>4
    <3>9. AlignUp(E, 1) = E
      <4> HIDE DEF E
      <4> QED BY <3>8, AlignUpForward
    <3> QED BY <3>5, <3>6, <3>7, <3>9
  <2> HIDE DEF d, E
  <2>4. Sound(fs, sh, b, c)
    BY DEF Reaches
  <2> QED BY <1>3, <2>1, <2>2, <2>3, <2>4 DEF Whole, d
<1> QED BY <1>5, <1>6

-----------------------------------------------------------------------------
(* The generator.                                                          *)

\* What is known of the description.
LEMMA Given ==
  ASSUME TypeOK, InputInv
  PROVE  /\ fields \in Seq(Field) /\ Usual(fields) /\ base \in Nat /\ shape \in Shapes
         /\ N \in Nat /\ N = Len(fields)
         /\ shape # "union" => Natural(fields) /\ Padded(fields, base)
         /\ shape = "struct" => NoTrail(fields)
         /\ shape = "union" =>
              \A i \in 1 .. N : fields[i].kind \notin { "auto", "pad" } /\ fields[i].len = 0
         /\ code \in Seq(Statement(N))
BY ConstantsAssumption DEF TypeOK, InputInv, Regular, N

LEMMA InitHolds == Init => IInv
<1> SUFFICES ASSUME Init PROVE IInv
  OBVIOUS
<1>1. PICK d \in Descriptions : fields = d.fields /\ shape = d.shape
  BY DEF Init
<1>2. /\ base \in StartsAt(shape) /\ next = 1 /\ batch = << >> /\ align = FALSE
      /\ code = << >> /\ pc = 1 /\ offset = base /\ cut = -1
      /\ objlen = [i \in 1 .. N |-> 0] /\ reads = {} /\ status = "generate"
  BY DEF Init
<1>3. d \in [fields : Seq(Field), shape : Shapes] /\ WellFormed(d.fields)
  BY ConstantsAssumption
<1>4. fields \in Seq(Field) /\ shape \in Shapes /\ Len(fields) \in Nat
  BY <1>1, <1>3
<1>5. base \in Bases /\ base \in Nat
  BY <1>2, ConstantsAssumption DEF StartsAt
<1>6. InputInv
  BY <1>1, <1>2, <1>3, RegularAssumption DEF InputInv
<1>7. TypeOK
  <2>1. code \in Seq(Statement(N)) /\ Len(code) = 0
    BY <1>2
  <2>2. batch \in Seq(1 .. next - 1)
    BY <1>2
  <2>3. next \in 1 .. N + 1
    BY <1>2, <1>4 DEF N
  <2>4. offset >= base
    BY <1>2, <1>5
  <2>5. objlen \in [1 .. N -> Nat]
    BY <1>2
  <2>6. pc \in 1 .. Len(code) + 1
    BY <1>2, <2>1
  <2> QED BY <1>2, <1>4, <1>5, <2>1, <2>2, <2>3, <2>4, <2>5, <2>6 DEF TypeOK
<1>8. /\ fields \in Seq(Field) /\ Usual(fields) /\ base \in Nat /\ N = Len(fields)
      /\ << >> \in Seq(Statement(Len(fields)))
  BY <1>6, <1>7, Given
<1>9. Offsets(fields, base, << >>)[1] = base /\ Len(<< >>) = 0
  BY <1>8, OffsetsDefined
<1>10. Sound(fields, shape, base, code)
  BY <1>2, <1>9 DEF Sound, LengthsAdded, NumbersFirst
<1>11. GeneratorInv
  <2>1. next - 1 = 0 /\ Len(code) + 1 = 1 /\ next - Len(batch) = 1 /\ 1 - 1 = 0
    BY <1>2, <1>9
  <2>2. Covered(fields, code, 0)
    BY DEF Covered
  <2>3. Offsets(fields, base, code)[Len(code) + 1] = base
    BY <1>2, <1>9
  <2>4. EndBefore(fields, base, 1) = base
    BY DEF EndBefore
  <2>5. Waits(fields, batch, 1, 0)
    <3>1. Span(1, 0) = << >>
      BY DEF Span
    <3> QED BY <1>2, <1>4, <3>1 DEF Waits, Run, StartsRun
  <2>6. align = \E i \in 1 .. 0 : IsObject(fields[i])
    <3>1. 1 .. 0 = {}
      OBVIOUS
    <3> QED BY <1>2, <3>1, Zenon
  <2> QED BY <1>2, <2>1, <2>2, <2>3, <2>4, <2>5, <2>6 DEF GeneratorInv
<1>12. RunInv
  BY <1>2, <1>9 DEF RunInv
<1> QED BY <1>2, <1>6, <1>7, <1>10, <1>11, <1>12 DEF IInv, CodeInv, NeverRaises, SizeRight

\* What the generator leaves alone.
LEMMA GeneratorStep ==
  ASSUME IInv, status = "generate", status' \in { "generate", "run" },
         UNCHANGED << input, pc, offset, cut, objlen, reads >>,
         code' \in Seq(Statement(N)), next' \in 1 .. N + 1, batch' \in Seq(1 .. next' - 1),
         align' \in BOOLEAN, status' # "generate" => batch' = << >>
  PROVE  TypeOK' /\ InputInv' /\ RunInv' /\ NeverRaises' /\ SizeRight'
<1>1. TypeOK /\ InputInv /\ GeneratorInv
  BY DEF IInv
<1>2. /\ fields' = fields /\ shape' = shape /\ base' = base /\ pc' = pc /\ offset' = offset
      /\ cut' = cut /\ objlen' = objlen /\ reads' = reads
  BY DEF input
<1>3. N' = N
  BY <1>2 DEF N
<1>4. pc = 1 /\ offset = base /\ cut = -1 /\ reads = {}
  BY <1>1 DEF GeneratorInv
<1>5. TypeOK'
  <2>1. Len(code') \in Nat
    OBVIOUS
  <2>2. pc' \in 1 .. Len(code') + 1
    BY <1>2, <1>4, <2>1
  <2>3. status' \in { "generate", "run", "done", "raised" }
    OBVIOUS
  <2> QED BY <1>1, <1>2, <1>3, <2>2, <2>3 DEF TypeOK
<1>6. InputInv'
  BY <1>1, <1>2 DEF InputInv
<1>7. RunInv'
  <2>1. Offsets(fields, base, code')[1] = base
    <3>1. fields \in Seq(Field) /\ Usual(fields) /\ base \in Nat /\ N = Len(fields)
      BY <1>1, Given
    <3> QED BY <3>1, OffsetsDefined
  <2> QED BY <1>2, <1>4, <2>1 DEF RunInv
<1>8. NeverRaises' /\ SizeRight'
  BY DEF NeverRaises, SizeRight
<1> QED BY <1>5, <1>6, <1>7, <1>8

\* What is known while fields are taken, of anything but a union.
LEMMA Waiting ==
  ASSUME IInv, status = "generate", shape # "union",
         NEW s, s = next - Len(batch)
  PROVE  /\ Waits(fields, batch, s, next - 1) /\ Covered(fields, code, s - 1)
         /\ align = \E i \in 1 .. next - 1 : IsObject(fields[i])
         /\ Reaches(fields, shape, base, code, EndBefore(fields, base, s))
         /\ code # << >> => code[Len(code)].op = "addlen"
         /\ Len(batch) \in Nat /\ next \in Nat /\ s \in Nat /\ s >= 1 /\ s <= next
<1>1. TypeOK /\ InputInv /\ GeneratorInv /\ Sound(fields, shape, base, code)
  BY DEF IInv, CodeInv
<1>2. /\ Waits(fields, batch, s, next - 1) /\ Covered(fields, code, s - 1)
      /\ align = \E i \in 1 .. next - 1 : IsObject(fields[i])
      /\ Offsets(fields, base, code)[Len(code) + 1] = EndBefore(fields, base, s)
      /\ code # << >> => code[Len(code)].op = "addlen"
  BY <1>1, Zenon DEF GeneratorInv
<1>3. code \in Seq(Statement(Len(fields)))
  BY <1>1, Given
<1>4. Len(batch) \in Nat /\ next \in Nat
  BY <1>1, Given DEF TypeOK
<1>5. s \in Nat /\ s >= 1 /\ s <= next
  BY <1>2, <1>4 DEF Waits
<1> QED BY <1>1, <1>2, <1>3, <1>4, <1>5 DEF Reaches

LEMMA GenerateFixedKeeps == IInv /\ GenerateFixed => IInv'
<1> SUFFICES ASSUME IInv, GenerateFixed PROVE IInv'
  OBVIOUS
<1> DEFINE s == next - Len(batch)
<1>1. /\ status = "generate" /\ next <= N /\ ~IsObject(fields[next]) /\ shape # "union"
      /\ batch' = Append(batch, next) /\ next' = next + 1
      /\ UNCHANGED << input, align, code, pc, offset, cut, objlen, reads, status >>
  BY DEF GenerateFixed
<1>2. TypeOK /\ InputInv /\ GeneratorInv /\ CodeInv
  BY DEF IInv
<1>3. /\ Waits(fields, batch, s, next - 1) /\ Covered(fields, code, s - 1)
      /\ align = \E i \in 1 .. next - 1 : IsObject(fields[i])
      /\ Reaches(fields, shape, base, code, EndBefore(fields, base, s))
      /\ code # << >> => code[Len(code)].op = "addlen"
      /\ Len(batch) \in Nat /\ next \in Nat /\ s \in Nat /\ s >= 1 /\ s <= next
  BY <1>1, Waiting
<1>4. fields \in Seq(Field) /\ N = Len(fields) /\ N \in Nat /\ code \in Seq(Statement(N))
  BY <1>2, Given
<1>5. next' - 1 = next /\ next - 1 \in Nat /\ (next - 1) + 1 = next
      /\ next \in 1 .. Len(fields)
  BY <1>1, <1>3, <1>4
<1>6. batch \in Seq(1 .. next) /\ next \in 1 .. next
  <2>1. batch \in Seq(1 .. next - 1)
    BY <1>2 DEF TypeOK
  <2> QED BY <1>3, <1>5, <2>1
<1>7. Append(batch, next) \in Seq(1 .. next) /\ Len(Append(batch, next)) = Len(batch) + 1
  BY <1>6
<1>8. next' - Len(batch') = s
  BY <1>1, <1>3, <1>7
<1>9. Append(batch, next) = Span(s, next)
  <2>1. batch = Span(s, next - 1)
    BY <1>3 DEF Waits
  <2>2. next - 1 >= s - 1
    BY <1>3, <1>5
  <2>3. Append(Span(s, next - 1), (next - 1) + 1) = Span(s, (next - 1) + 1)
    BY <1>3, <1>5, <2>2, SpanGrows, Zenon
  <2> QED BY <1>5, <2>1, <2>3
<1>10. Waits(fields, Append(batch, next), s, next)
  <2>1. Run(fields, s, next)
    <3> SUFFICES ASSUME NEW k \in s .. next PROVE ~IsObject(fields[k])
      BY DEF Run
    <3>1. k = next \/ k \in s .. next - 1
      BY <1>3
    <3>2. Run(fields, s, next - 1)
      BY <1>3 DEF Waits
    <3> QED BY <1>1, <3>1, <3>2 DEF Run
  <2>2. s \in 1 .. Len(fields) + 1 /\ next \in s - 1 .. Len(fields)
    BY <1>1, <1>3, <1>4
  <2>3. StartsRun(fields, s)
    BY <1>3 DEF Waits
  <2> QED BY <1>9, <2>1, <2>2, <2>3 DEF Waits
<1>11. (\E i \in 1 .. next - 1 : IsObject(fields[i])) <=> (\E i \in 1 .. next : IsObject(fields[i]))
  <2>1. \A i \in 1 .. next : i = next \/ i \in 1 .. next - 1
    BY <1>3
  <2>2. \A i \in 1 .. next - 1 : i \in 1 .. next
    BY <1>3
  <2> QED BY <1>1, <2>1, <2>2
<1>12. /\ fields' = fields /\ shape' = shape /\ base' = base /\ pc' = pc /\ offset' = offset
       /\ cut' = cut /\ objlen' = objlen /\ reads' = reads /\ align' = align /\ code' = code
       /\ status' = status
  BY <1>1 DEF input
<1> HIDE DEF s
<1>13. GeneratorInv'
  <2>1. pc = 1 /\ offset = base /\ cut = -1 /\ reads = {}
    BY <1>1, <1>2 DEF GeneratorInv
  <2>2. align = \E i \in 1 .. next : IsObject(fields[i])
    BY <1>3, <1>11, Zenon
  <2>3. Offsets(fields, base, code)[Len(code) + 1] = EndBefore(fields, base, s)
    BY <1>3 DEF Reaches
  <2>4. /\ Waits(fields', batch', next' - Len(batch'), next' - 1)
        /\ Covered(fields', code', (next' - Len(batch')) - 1)
        /\ Offsets(fields', base', code')[Len(code') + 1]
             = EndBefore(fields', base', next' - Len(batch'))
        /\ align' = \E i \in 1 .. next' - 1 : IsObject(fields'[i])
        /\ code' # << >> => code'[Len(code')].op = "addlen"
    BY <1>1, <1>3, <1>5, <1>8, <1>10, <1>12, <2>2, <2>3, Zenon
  <2> QED BY <1>1, <1>12, <2>1, <2>4, Zenon DEF GeneratorInv
<1>14. CodeInv'
  BY <1>1, <1>2, <1>12 DEF CodeInv
<1>15. TypeOK' /\ InputInv' /\ RunInv' /\ NeverRaises' /\ SizeRight'
  <2>1. next' \in 1 .. N + 1 /\ batch' \in Seq(1 .. next' - 1)
    BY <1>1, <1>4, <1>5, <1>7
  <2>2. align' \in BOOLEAN /\ code' \in Seq(Statement(N))
    BY <1>2, <1>4, <1>12 DEF TypeOK
  <2> QED BY <1>1, <2>1, <2>2, GeneratorStep
<1> QED BY <1>13, <1>14, <1>15 DEF IInv

LEMMA GenerateObjectKeeps == IInv /\ GenerateObject => IInv'
<1> SUFFICES ASSUME IInv, GenerateObject PROVE IInv'
  OBVIOUS
<1> DEFINE s == next - Len(batch)
           d == Emitted(fields, batch, code, next)
<1>1. /\ status = "generate" /\ next <= N /\ IsObject(fields[next]) /\ shape # "union"
      /\ batch' = << >> /\ next' = next + 1 /\ align' = TRUE
      /\ UNCHANGED << input, pc, offset, cut, objlen, reads, status >>
  BY DEF GenerateObject, Flush
<1>2. TypeOK /\ InputInv /\ GeneratorInv
  BY DEF IInv
<1>3. /\ Waits(fields, batch, s, next - 1) /\ Covered(fields, code, s - 1)
      /\ align = \E i \in 1 .. next - 1 : IsObject(fields[i])
      /\ Reaches(fields, shape, base, code, EndBefore(fields, base, s))
      /\ Len(batch) \in Nat /\ next \in Nat /\ s \in Nat /\ s >= 1 /\ s <= next
  BY <1>1, Waiting
<1>4. /\ fields \in Seq(Field) /\ N = Len(fields) /\ N \in Nat /\ Usual(fields) /\ base \in Nat
      /\ Padded(fields, base)
  BY <1>1, <1>2, Given
<1>5. code' = d
  <2>1. code' = code \o When(HasNames, Unpack)
                     \o When(Size > 0, Stmt("add", Size))
                     \o When(align, Stmt("align", AlignSize(fields[next])))
                     \o Stmt("object", next)
                     \o Stmt("addlen", next)
    BY DEF GenerateObject
  <2>2. When(align, Stmt("align", AlignSize(fields[next])))
          = When(\E j \in 1 .. next - 1 : IsObject(fields[j]),
                 Stmt("align", AlignSize(fields[next])))
    BY <1>3, Zenon DEF When
  <2>3. When(HasNames, Unpack)
          = When(\E k \in 1 .. Len(batch) : fields[batch[k]].kind = "simple",
                 << [op |-> "unpack", n |-> 0, batch |-> batch] >>)
    BY Zenon DEF When, HasNames, Unpack
  <2>4. Size = SumOf([k \in 1 .. Len(batch) |-> fields[batch[k]].size])
    BY Zenon DEF Size
  <2> QED BY <2>1, <2>2, <2>3, <2>4, Zenon DEF Emitted
<1> HIDE DEF s, d
<1>6. next \in 1 .. Len(fields)
  BY <1>1, <1>3, <1>4
<1>7. /\ Reaches(fields, shape, base, d, EndBefore(fields, base, next + 1))
      /\ Covered(fields, d, next) /\ d # << >> /\ d[Len(d)].op = "addlen"
  <2>1. /\ shape # "union" /\ IsObject(fields[next]) /\ Waits(fields, batch, s, next - 1)
        /\ Covered(fields, code, s - 1)
        /\ Reaches(fields, shape, base, code, EndBefore(fields, base, s))
    BY <1>1, <1>3
  <2>2. Through(fields, shape, base, Emitted(fields, batch, code, next), next)
    BY <1>4, <1>6, <2>1, EmitObject, Zenon
  <2> QED BY <2>2 DEF d, Through
<1>8. /\ next' - 1 = next /\ next' - Len(batch') = next + 1 /\ (next + 1) - 1 = next
  <2>1. Len(<< >>) = 0
    OBVIOUS
  <2> QED BY <1>1, <1>3, <2>1
<1>9. Waits(fields, << >>, next + 1, next)
  <2>1. next + 1 \in 1 .. Len(fields) + 1 /\ next \in (next + 1) - 1 .. Len(fields)
        /\ next - (next + 1) + 1 = 0 /\ next + 1 # 1
    BY <1>3, <1>6
  <2>2. Span(next + 1, next) = << >>
    BY <2>1 DEF Span
  <2>3. Run(fields, next + 1, next)
    BY <1>3 DEF Run
  <2>4. StartsRun(fields, next + 1)
    BY <1>1, <1>8 DEF StartsRun
  <2> QED BY <2>1, <2>2, <2>3, <2>4 DEF Waits
<1>10. \E i \in 1 .. next : IsObject(fields[i])
  <2>1. next \in 1 .. next
    BY <1>6
  <2> QED BY <1>1, <2>1
<1>11. /\ fields' = fields /\ shape' = shape /\ base' = base /\ pc' = pc /\ offset' = offset
       /\ cut' = cut /\ objlen' = objlen /\ reads' = reads /\ status' = status
  BY <1>1 DEF input
<1>12. GeneratorInv'
  <2>1. pc = 1 /\ offset = base /\ cut = -1 /\ reads = {}
    BY <1>1, <1>2 DEF GeneratorInv
  <2>2. align' = \E i \in 1 .. next : IsObject(fields[i])
    BY <1>1, <1>10, Zenon
  <2>3. Offsets(fields, base, d)[Len(d) + 1] = EndBefore(fields, base, next + 1)
    BY <1>7 DEF Reaches
  <2>4. /\ Waits(fields', batch', next' - Len(batch'), next' - 1)
        /\ Covered(fields', code', (next' - Len(batch')) - 1)
        /\ Offsets(fields', base', code')[Len(code') + 1]
             = EndBefore(fields', base', next' - Len(batch'))
        /\ align' = \E i \in 1 .. next' - 1 : IsObject(fields'[i])
        /\ code' # << >> => code'[Len(code')].op = "addlen"
    BY <1>1, <1>5, <1>7, <1>8, <1>9, <1>11, <2>2, <2>3, Zenon
  <2> QED BY <1>1, <1>11, <2>1, <2>4, Zenon DEF GeneratorInv
<1>13. CodeInv'
  <2>1. Sound(fields, shape, base, d)
    BY <1>7 DEF Reaches
  <2> QED BY <1>1, <1>5, <1>11, <2>1 DEF CodeInv
<1>14. TypeOK' /\ InputInv' /\ RunInv' /\ NeverRaises' /\ SizeRight'
  <2>1. next' \in 1 .. N + 1 /\ batch' \in Seq(1 .. next' - 1)
    BY <1>1, <1>3, <1>4
  <2>2. align' \in BOOLEAN /\ code' \in Seq(Statement(N))
    <3>1. d \in Seq(Statement(Len(fields)))
      BY <1>7 DEF Reaches
    <3> QED BY <1>1, <1>4, <1>5, <3>1
  <2> QED BY <1>1, <2>1, <2>2, GeneratorStep
<1> QED BY <1>12, <1>13, <1>14 DEF IInv

LEMMA GenerateMemberKeeps == IInv /\ GenerateMember => IInv'
<1> SUFFICES ASSUME IInv, GenerateMember PROVE IInv'
  OBVIOUS
<1> DEFINE op == IF IsObject(fields[next]) THEN "object" ELSE "member"
           x == [op |-> op, n |-> next, batch |-> << >>]
           d == code \o << x >>
<1>1. /\ status = "generate" /\ next <= N /\ shape = "union"
      /\ code' = d /\ next' = next + 1
      /\ UNCHANGED << input, batch, align, pc, offset, cut, objlen, reads, status >>
  BY DEF GenerateMember, Stmt
<1>2. TypeOK /\ InputInv /\ GeneratorInv /\ Sound(fields, shape, base, code)
  BY DEF IInv, CodeInv
<1>3. /\ pc = 1 /\ offset = base /\ cut = -1 /\ reads = {}
      /\ batch = << >> /\ Covered(fields, code, next - 1)
      /\ Offsets(fields, base, code)[Len(code) + 1] = base
  BY <1>1, <1>2 DEF GeneratorInv
<1>4. /\ fields \in Seq(Field) /\ N = Len(fields) /\ N \in Nat /\ Usual(fields) /\ base \in Nat
      /\ code \in Seq(Statement(Len(fields)))
  BY <1>2, Given
<1>5. next \in Nat /\ next - 1 \in Nat /\ next \in 1 .. Len(fields) /\ (next + 1) - 1 = next
  BY <1>1, <1>2, <1>4 DEF TypeOK
<1>6. Reaches(fields, shape, base, code, base)
  BY <1>2, <1>3, <1>4 DEF Reaches
<1>7. x \in Statement(Len(fields)) /\ x.op \in { "object", "member" } /\ x.n = next
  BY <1>5 DEF Statement
<1>8. Fits(fields, shape, base, x, base)
  <2>1. CASE IsObject(fields[next])
    <3>1. x.op = "object" /\ x.n = next
      BY <2>1
    <3> HIDE DEF x
    <3> QED BY <1>1, <2>1, <3>1 DEF Fits
  <2>2. CASE ~IsObject(fields[next])
    <3>1. x.op = "member" /\ x.n = next
      BY <2>2
    <3> HIDE DEF x
    <3> QED BY <1>1, <2>2, <3>1 DEF Fits
  <2> QED BY <2>1, <2>2
<1> HIDE DEF x
<1>9. Reaches(fields, shape, base, d, base)
  <2>1. Moves(fields, x, base) = 0
    BY <1>7 DEF Moves
  <2>2. Reaches(fields, shape, base, code \o << x >>, base + Moves(fields, x, base))
    BY <1>1, <1>4, <1>6, <1>7, <1>8, Emit
  <2>3. base + 0 = base
    BY <1>4
  <2> QED BY <2>1, <2>2, <2>3
<1>10. Covered(fields, d, next)
  <2>1. Covered(fields, d, next - 1)
    BY <1>3, <1>4, <1>5, <1>7, CoveredEmit
  <2>2. Len(d) \in 1 .. Len(d) /\ d[Len(d)] = x
    BY <1>4, <1>7
  <2>3. Covers(x, next)
    BY <1>7 DEF Covers
  <2> HIDE DEF d
  <2> SUFFICES ASSUME NEW j \in 1 .. next, IsAttribute(fields[j])
               PROVE  \E p \in 1 .. Len(d) : Covers(d[p], j)
    BY DEF Covered
  <2>4. CASE j = next
    BY <2>2, <2>3, <2>4
  <2>5. CASE j # next
    <3>1. j \in 1 .. next - 1
      BY <1>5, <2>5
    <3> QED BY <2>1, <3>1 DEF Covered
  <2> QED BY <2>4, <2>5
<1> HIDE DEF d
<1>11. /\ fields' = fields /\ shape' = shape /\ base' = base /\ pc' = pc /\ offset' = offset
       /\ cut' = cut /\ objlen' = objlen /\ reads' = reads /\ status' = status
       /\ batch' = batch /\ align' = align
  BY <1>1 DEF input
<1>12. GeneratorInv'
  <2>1. Covered(fields', code', next' - 1)
    BY <1>1, <1>5, <1>10, <1>11
  <2>2. Offsets(fields', base', code')[Len(code') + 1] = base'
    BY <1>1, <1>9, <1>11 DEF Reaches
  <2> QED BY <1>1, <1>3, <1>11, <2>1, <2>2 DEF GeneratorInv
<1>13. CodeInv'
  <2>1. Sound(fields, shape, base, d)
    BY <1>9 DEF Reaches
  <2> QED BY <1>1, <1>11, <2>1 DEF CodeInv
<1>14. TypeOK' /\ InputInv' /\ RunInv' /\ NeverRaises' /\ SizeRight'
  <2>1. next' \in 1 .. N + 1 /\ batch' \in Seq(1 .. next' - 1)
    BY <1>1, <1>3, <1>4, <1>5, <1>11
  <2>2. align' \in BOOLEAN /\ code' \in Seq(Statement(N))
    <3>1. d \in Seq(Statement(Len(fields)))
      BY <1>9 DEF Reaches
    <3> QED BY <1>1, <1>2, <1>4, <1>11, <3>1 DEF TypeOK
  <2> QED BY <1>1, <1>3, <1>11, <2>1, <2>2, GeneratorStep
<1> QED BY <1>12, <1>13, <1>14 DEF IInv

LEMMA GenerateEndKeeps == IInv /\ GenerateEnd => IInv'
<1> SUFFICES ASSUME IInv, GenerateEnd PROVE IInv'
  OBVIOUS
<1> DEFINE s == next - Len(batch)
           all == code \o When(HasNames /\ align, Stmt("align", 4))
                       \o When(HasNames, Unpack)
                       \o When(HasNames, Stmt("add", Size))
<1>1. /\ status = "generate" /\ next = N + 1 /\ batch' = << >> /\ status' = "run"
      /\ code' = IF PopsLast THEN SubSeq(all, 1, Len(all) - 1) ELSE all
      /\ UNCHANGED << input, next, align, pc, offset, cut, objlen, reads >>
  BY DEF GenerateEnd, Flush
<1>2. TypeOK /\ InputInv /\ GeneratorInv /\ Sound(fields, shape, base, code)
  BY DEF IInv, CodeInv
<1>3. /\ fields \in Seq(Field) /\ N = Len(fields) /\ N \in Nat /\ Usual(fields) /\ base \in Nat
      /\ code \in Seq(Statement(Len(fields))) /\ (shape = "struct" => NoTrail(fields))
  BY <1>2, Given
<1>4. /\ fields' = fields /\ shape' = shape /\ base' = base /\ pc' = pc /\ offset' = offset
      /\ cut' = cut /\ objlen' = objlen /\ reads' = reads /\ next' = next /\ align' = align
  BY <1>1 DEF input
<1>5. next - 1 = N
  BY <1>1, <1>3
<1>6. /\ code' \in Seq(Statement(N)) /\ Sound(fields, shape, base, code')
      /\ Covered(fields, code', N)
      /\ shape = "struct" /\ ~FixedSize =>
           Offsets(fields, base, code')[Len(code') + 1] = WireAt(fields, base, N + 1)
  <2>1. CASE shape = "union"
    <3>1. batch = << >> /\ Covered(fields, code, next - 1)
      BY <1>1, <1>2, <2>1 DEF GeneratorInv
    <3>2. ~HasNames /\ ~PopsLast
      BY <2>1, <3>1 DEF HasNames, PopsLast
    <3>3. all = code
      BY <1>3, <3>2, NothingMore, Zenon DEF When
    <3>4. code' = code
      BY <1>1, <3>2, <3>3
    <3> QED BY <1>2, <1>3, <1>5, <2>1, <3>1, <3>4
  <2>2. CASE shape # "union"
    <3>1. /\ Waits(fields, batch, s, next - 1) /\ Covered(fields, code, s - 1)
          /\ align = \E i \in 1 .. next - 1 : IsObject(fields[i])
          /\ Reaches(fields, shape, base, code, EndBefore(fields, base, s))
          /\ code # << >> => code[Len(code)].op = "addlen"
          /\ Len(batch) \in Nat /\ next \in Nat /\ s \in Nat /\ s >= 1 /\ s <= next
      BY <1>1, <2>2, Waiting
    <3> HIDE DEF s
    <3>2. align <=> s # 1
      <4>1. StartsRun(fields, s) /\ Run(fields, s, next - 1)
        BY <3>1 DEF Waits
      <4>2. ASSUME s # 1 PROVE \E i \in 1 .. next - 1 : IsObject(fields[i])
        <5>1. s - 1 \in 1 .. next - 1 /\ IsObject(fields[s - 1])
          BY <3>1, <4>1, <4>2 DEF StartsRun
        <5> QED BY <5>1
      <4>3. ASSUME s = 1 PROVE ~\E i \in 1 .. next - 1 : IsObject(fields[i])
        BY <4>1, <4>3 DEF Run
      <4> QED BY <3>1, <4>2, <4>3, Zenon
    <3>3. all = Closed(fields, batch, code, s)
      <4>1. When(HasNames /\ align, Stmt("align", 4)) = When(HasNames /\ s # 1, Stmt("align", 4))
        BY <3>2, Zenon DEF When
      <4>2. all = code \o When(HasNames /\ s # 1, Stmt("align", 4))
                       \o When(HasNames, Unpack)
                       \o When(HasNames, Stmt("add", Size))
        BY <4>1, Zenon
      <4> QED BY <4>2, Zenon DEF Closed, HasNames, Size, Unpack
    <3> HIDE DEF all
    <3>4. /\ all \in Seq(Statement(Len(fields))) /\ Sound(fields, shape, base, all)
          /\ Covered(fields, all, Len(fields))
          /\ all # << >> => all[Len(all)].op \in { "add", "addlen" }
          /\ NoTrail(fields) /\ (\E i \in 1 .. Len(fields) : IsObject(fields[i])) =>
               Offsets(fields, base, all)[Len(all) + 1] = WireAt(fields, base, Len(fields) + 1)
      <4>1. Waits(fields, batch, s, Len(fields))
        BY <1>3, <1>5, <3>1
      <4>2. /\ Covered(fields, code, s - 1)
            /\ Reaches(fields, shape, base, code, EndBefore(fields, base, s))
            /\ code # << >> => code[Len(code)].op = "addlen"
        BY <3>1
      <4>3. fields \in Seq(Field) /\ Usual(fields) /\ base \in Nat
        BY <1>3
      <4>4. Whole(fields, shape, base, Closed(fields, batch, code, s))
        BY <2>2, <4>1, <4>2, <4>3, EmitEnd, Zenon
      <4> QED BY <3>3, <4>4 DEF Whole
    <3>5. ~FixedSize => \E i \in 1 .. Len(fields) : IsObject(fields[i])
      <4> SUFFICES ASSUME NEW i \in 1 .. N, fields[i].kind \notin { "auto", "pad", "simple", "fixed" }
                   PROVE  IsObject(fields[i])
        BY <1>3 DEF FixedSize
      <4>1. fields[i].kind \in Kinds
        BY <1>3, FieldFacts
      <4> QED BY <4>1 DEF Kinds, IsObject
    <3>6. CASE ~PopsLast
      BY <1>1, <1>3, <3>4, <3>5, <3>6
    <3>7. CASE PopsLast
      <4> DEFINE d == SubSeq(all, 1, Len(all) - 1)
      <4>1. code' = d
        BY <1>1, <3>7
      <4>2. CASE all = << >>
        <5>1. d = << >>
          BY <4>2
        <5>2. ~(shape = "struct" /\ ~FixedSize)
          BY <3>7 DEF PopsLast
        <5> QED BY <1>3, <3>4, <4>1, <4>2, <5>1, <5>2
      <4>3. CASE all # << >>
        <5>1. Len(all) \in Nat /\ Len(all) >= 1
          BY <3>4, <4>3
        <5>2. /\ d \in Seq(Statement(Len(fields))) /\ Len(d) = Len(all) - 1
              /\ \A p \in 1 .. Len(d) : d[p] = all[p]
          <6> HIDE DEF Statement
          <6> QED BY <3>4, <5>1, AllButLast
        <5> HIDE DEF d
        <5>3. Sound(fields, shape, base, d)
          <6>1. Len(d) <= Len(all)
            BY <5>1, <5>2
          <6> QED BY <1>3, <3>4, <5>2, <6>1, SoundPrefix
        <5>4. Covered(fields, d, Len(fields))
          <6> SUFFICES ASSUME NEW i \in 1 .. Len(fields), IsAttribute(fields[i])
                       PROVE  \E p \in 1 .. Len(d) : Covers(d[p], i)
            BY DEF Covered
          <6>1. PICK p \in 1 .. Len(all) : Covers(all[p], i)
            BY <3>4 DEF Covered
          <6>2. all[Len(all)].op \in { "add", "addlen" }
            BY <3>4, <4>3
          <6>3. p # Len(all)
            BY <6>1, <6>2 DEF Covers
          <6>4. p \in 1 .. Len(d)
            BY <5>1, <5>2, <6>3
          <6> QED BY <5>2, <6>1, <6>4
        <5>5. ~(shape = "struct" /\ ~FixedSize)
          BY <3>7 DEF PopsLast
        <5> QED BY <1>3, <4>1, <5>2, <5>3, <5>4, <5>5
      <4> QED BY <4>2, <4>3
    <3> QED BY <3>6, <3>7
  <2> QED BY <2>1, <2>2
<1> HIDE DEF s, all
<1>7. N' = N /\ (FixedSize' <=> FixedSize)
  BY <1>4 DEF N, FixedSize
<1>8. shape = "struct" => DataLen' = WireAt(fields, base, N + 1)
  BY <1>4, <1>7 DEF DataLen
<1>9. CodeInv'
  BY <1>4, <1>6, <1>7, <1>8 DEF CodeInv
<1>10. GeneratorInv'
  BY <1>1 DEF GeneratorInv
<1>11. TypeOK' /\ InputInv' /\ RunInv' /\ NeverRaises' /\ SizeRight'
  <2>1. next' \in 1 .. N + 1 /\ batch' \in Seq(1 .. next' - 1) /\ align' \in BOOLEAN
    BY <1>1, <1>2, <1>4 DEF TypeOK
  <2> QED BY <1>1, <1>4, <1>6, <2>1, GeneratorStep
<1> QED BY <1>9, <1>10, <1>11 DEF IInv

-----------------------------------------------------------------------------
(* The constructor.                                                        *)

\* Elements of one size.
LEMMA SameSizes ==
  ASSUME NEW s \in Seq(Nat), NEW c \in Nat, \A e \in 1 .. Len(s) : s[e] = c
  PROVE  SumOf(s) = Len(s) * c
<1> DEFINE p == PartialSums(s)
           m == Len(s)
           P == { n \in Nat : n <= m => p[n] = n * c }
<1>1. m \in Nat /\ s \in Seq(Int)
  OBVIOUS
<1>2. /\ p \in [0 .. m -> Int] /\ p[0] = 0
      /\ \A n \in 1 .. m : p[n] = p[n - 1] + s[n]
  BY <1>1, SumsDefined
<1>3. SumOf(s) = p[m]
  BY DEF SumOf
<1> HIDE DEF p
<1>4. 0 \in P
  BY <1>2
<1>5. ASSUME NEW n \in Nat, n \in P PROVE n + 1 \in P
  <2> SUFFICES ASSUME n + 1 <= m PROVE p[n + 1] = (n + 1) * c
    OBVIOUS
  <2>1. n + 1 \in 1 .. m /\ (n + 1) - 1 = n /\ p[n] = n * c
    BY <1>1, <1>5
  <2>2. p[n + 1] = n * c + c
    <3>1. p[n + 1] = p[(n + 1) - 1] + s[n + 1]
      BY <1>2, <2>1, Zenon
    <3>2. s[n + 1] = c
      BY <2>1
    <3> QED BY <2>1, <3>1, <3>2
  <2>3. n * c + c = (n + 1) * c
    OBVIOUS
  <2> QED BY <2>2, <2>3
<1> HIDE DEF P
<1>6. \A n \in Nat : n \in P
  BY <1>4, <1>5, Induction
<1>7. p[m] = m * c
  BY <1>1, <1>6 DEF P
<1> QED BY <1>3, <1>7

\* The elements before another.
LEMMA SumBefore ==
  ASSUME NEW s \in Seq(Nat), NEW e \in 1 .. Len(s) + 1
  PROVE  SumOf(SubSeq(s, 1, e - 1)) \in Nat
<1>1. SubSeq(s, 1, e - 1) \in Seq(Nat)
  OBVIOUS
<1> QED BY <1>1, SumBounds

\* The largest of n numbers, and of 0.
LEMMA LargestOf ==
  ASSUME NEW n \in Nat, NEW f \in [1 .. n -> Nat],
         NEW S, S = {0} \union { f[i] : i \in 1 .. n }
  PROVE  Max(S) \in S /\ Max(S) \in Nat /\ \A i \in 1 .. n : f[i] <= Max(S)
<1> DEFINE T(m) == {0} \union { f[i] : i \in 1 .. m }
           P == { m \in Nat : m <= n => \E x \in T(m) : \A y \in T(m) : x >= y }
<1>1. 0 \in P
  <2>1. T(0) = {0}
    OBVIOUS
  <2> QED BY <2>1
<1>2. ASSUME NEW m \in Nat, m \in P PROVE m + 1 \in P
  <2> SUFFICES ASSUME m + 1 <= n
               PROVE  \E x \in T(m + 1) : \A y \in T(m + 1) : x >= y
    <3> HIDE DEF T
    <3> QED OBVIOUS
  <2>1. PICK x \in T(m) : \A y \in T(m) : x >= y
    <3> HIDE DEF T
    <3> QED BY <1>2
  <2>2. f[m + 1] \in Nat /\ m + 1 \in 1 .. m + 1
    OBVIOUS
  <2>3. \A y \in T(m + 1) : y \in T(m) \/ y = f[m + 1]
    <3>1. \A i \in 1 .. m + 1 : i = m + 1 \/ i \in 1 .. m
      OBVIOUS
    <3> QED BY <3>1
  <2>4. f[m + 1] \in T(m + 1) /\ x \in T(m + 1) /\ T(m) \subseteq T(m + 1)
    <3>1. \A i \in 1 .. m : i \in 1 .. m + 1
      OBVIOUS
    <3>2. T(m) \subseteq T(m + 1)
      BY <3>1
    <3> QED BY <2>1, <2>2, <3>2
  <2>5. \A y \in T(m) : y \in Nat
    <3>1. \A i \in 1 .. m : i \in 1 .. n
      OBVIOUS
    <3> QED BY <3>1
  <2> HIDE DEF T
  <2>6. CASE f[m + 1] >= x
    <3>1. \A y \in T(m + 1) : f[m + 1] >= y
      BY <2>1, <2>2, <2>3, <2>5, <2>6
    <3> QED BY <2>4, <3>1
  <2>7. CASE ~(f[m + 1] >= x)
    <3>1. \A y \in T(m + 1) : x >= y
      BY <2>1, <2>2, <2>3, <2>5, <2>7
    <3> QED BY <2>4, <3>1
  <2> QED BY <2>6, <2>7
<1> HIDE DEF P
<1>3. \A m \in Nat : m \in P
  BY <1>1, <1>2, Induction
<1>4. S = T(n)
  OBVIOUS
<1>5. \E x \in S : \A y \in S : x >= y
  <2> HIDE DEF T
  <2>1. \E x \in T(n) : \A y \in T(n) : x >= y
    BY <1>3 DEF P
  <2> QED BY <1>4, <2>1
<1>6. Max(S) \in S /\ \A y \in S : Max(S) >= y
  BY <1>5, Zenon DEF Max
<1>7. \A y \in S : y \in Nat
  OBVIOUS
<1>8. \A i \in 1 .. n : f[i] \in S
  OBVIOUS
<1> HIDE DEF T
<1> QED BY <1>6, <1>7, <1>8

\* Fields do not reach beyond the message.
LEMMA InMessage ==
  ASSUME TypeOK, InputInv, NEW i \in 1 .. N
  PROVE  /\ DataLen \in Nat
         /\ (IF shape = "union" THEN base ELSE WireAt(fields, base, i)) + Bytes(fields[i]) <= DataLen
<1>1. /\ fields \in Seq(Field) /\ Usual(fields) /\ base \in Nat /\ N \in Nat /\ N = Len(fields)
  BY Given
<1>2. CASE shape = "union"
  <2> DEFINE f == [j \in 1 .. N |-> Bytes(fields[j])]
             S == {0} \union { Bytes(fields[j]) : j \in 1 .. Len(fields) }
  <2>1. f \in [1 .. N -> Nat]
    BY <1>1, FieldFacts
  <2>2. S = {0} \union { f[j] : j \in 1 .. N }
    BY <1>1
  <2>3. f[i] = Bytes(fields[i])
    OBVIOUS
  <2>4. Largest(fields) = Max(S)
    BY DEF Largest
  <2> HIDE DEF f, S
  <2>5. Max(S) \in Nat /\ f[i] <= Max(S)
    BY <1>1, <2>1, <2>2, LargestOf
  <2>6. DataLen = base + Max(S)
    BY <1>2, <2>4 DEF DataLen
  <2>7. Bytes(fields[i]) \in Nat
    BY <1>1, FieldFacts
  <2> HIDE DEF Bytes, Max
  <2> QED BY <1>1, <1>2, <2>3, <2>5, <2>6, <2>7
<1>3. CASE shape # "union"
  <2>1. N + 1 \in 1 .. Len(fields) + 1
    BY <1>1
  <2> QED BY <1>1, <1>3, <2>1, WireGrows DEF DataLen
<1> QED BY <1>2, <1>3

\* The statement that comes next.
LEMMA Running ==
  ASSUME IInv, NEW op, At(op)
  PROVE  /\ TypeOK /\ InputInv
         /\ status = "run" /\ pc \in 1 .. Len(code) /\ code[pc] \in Statement(N)
         /\ code[pc].op = op /\ Fits(fields, shape, base, code[pc], offset)
         /\ offset \in Nat /\ offset >= base
<1>1. TypeOK /\ InputInv /\ Sound(fields, shape, base, code) /\ RunInv
  BY DEF IInv, CodeInv
<1>2. /\ fields \in Seq(Field) /\ Usual(fields) /\ base \in Nat /\ N = Len(fields)
      /\ code \in Seq(Statement(N))
  BY <1>1, Given
<1>3. status = "run" /\ pc \in 1 .. Len(code) /\ code[pc].op = op /\ Len(code) \in Nat
  BY <1>1, <1>2 DEF At, TypeOK
<1>4. offset = Offsets(fields, base, code)[pc] /\ pc \in 1 .. Len(code) + 1
  BY <1>1, <1>3 DEF RunInv
<1>5. offset \in Nat /\ offset >= base
  BY <1>2, <1>4, OffsetsDefined
<1>6. Fits(fields, shape, base, code[pc], offset)
  BY <1>1, <1>3, <1>4 DEF Sound
<1>7. code[pc] \in Statement(N)
  <2> HIDE DEF Statement
  <2> QED BY <1>2, <1>3
<1> QED BY <1>1, <1>3, <1>5, <1>6, <1>7

\* What field i has to leave in rs when it has been read.
Complete(i, rs) ==
  \A e \in 1 .. (IF fields[i].kind = "list" THEN Len(fields[i].elements) ELSE 1) :
    \E r \in rs : r.field = i /\ r.element = e

\* A statement that moves the offset as Moves says, reads what it covers from its
\* place and notes lengths that are right keeps the invariant.
LEMMA RunStep ==
  ASSUME IInv, status = "run", pc \in 1 .. Len(code), Done(pc), status' = status, cut' = cut,
         offset' = offset + Moves(fields, code[pc], offset),
         reads \subseteq reads',
         \A r \in reads' : r \in reads \/ (/\ r.field \in 1 .. N /\ r.at >= base
                                          /\ r.at = ElementAt(r.field, r.element)),
         objlen' \in [1 .. N -> Nat],
         \A i \in 1 .. N : objlen'[i] = objlen[i] \/ objlen'[i] = Bytes(fields[i]),
         \A i \in 1 .. N : Covers(code[pc], i) /\ IsAttribute(fields[i]) => Complete(i, reads'),
         code[pc].op \in { "object", "member" } =>
           objlen'[code[pc].n] = Bytes(fields[code[pc].n])
  PROVE  IInv'
<1>1. TypeOK /\ InputInv /\ CodeInv /\ RunInv
  BY DEF IInv
<1>2. /\ fields \in Seq(Field) /\ Usual(fields) /\ base \in Nat /\ N = Len(fields)
      /\ code \in Seq(Statement(N)) /\ Len(code) \in Nat
  BY <1>1, Given
<1>3. /\ fields' = fields /\ shape' = shape /\ base' = base /\ next' = next /\ batch' = batch
      /\ align' = align /\ code' = code /\ pc' = pc + 1
  BY DEF Done, input
<1>4. N' = N /\ (FixedSize' <=> FixedSize) /\ DataLen' = DataLen
  BY <1>3 DEF N, FixedSize, DataLen
<1>5. offset' = Offsets(fields, base, code)[pc + 1] /\ offset' >= base
  <2>1. offset = Offsets(fields, base, code)[pc]
    BY <1>1 DEF RunInv
  <2>2. Offsets(fields, base, code)[pc + 1]
          = Offsets(fields, base, code)[pc]
              + Moves(fields, code[pc], Offsets(fields, base, code)[pc])
    BY <1>2, OffsetsDefined
  <2>3. offset' = Offsets(fields, base, code)[pc + 1]
    BY <2>1, <2>2
  <2>4. pc + 1 \in 1 .. Len(code) + 1
    BY <1>2
  <2> QED BY <1>2, <2>3, <2>4, OffsetsDefined
<1>6. TypeOK'
  <2>1. pc' \in 1 .. Len(code') + 1
    BY <1>2, <1>3
  <2>2. \A r \in reads' : r.field \in 1 .. N' /\ r.at >= base'
    BY <1>1, <1>3, <1>4 DEF TypeOK
  <2>3. cut' \in Nat \union {-1} /\ objlen' \in [1 .. N' -> Nat]
    BY <1>1, <1>4 DEF TypeOK
  <2> QED BY <1>1, <1>3, <1>4, <1>5, <2>1, <2>2, <2>3 DEF TypeOK
<1>7. InputInv'
  BY <1>1, <1>3 DEF InputInv
<1>8. GeneratorInv' /\ NeverRaises' /\ SizeRight'
  BY DEF GeneratorInv, NeverRaises, SizeRight
<1>9. CodeInv'
  BY <1>1, <1>3, <1>4 DEF CodeInv
<1>10. RunInv'
  <2>1. offset' = Offsets(fields', base', code')[pc']
    BY <1>3, <1>5
  <2>2. ASSUME NEW p \in 1 .. pc PROVE Executed(code[p])'
    <3>1. ASSUME NEW i \in 1 .. N, Covers(code[p], i), IsAttribute(fields[i])
          PROVE  Complete(i, reads')
      <4>1. CASE p = pc
        BY <3>1, <4>1
      <4>2. CASE p # pc
        <5>1. p \in 1 .. pc - 1
          BY <1>2, <4>2
        <5>2. Executed(code[p])
          BY <1>1, <5>1 DEF RunInv
        <5> QED BY <3>1, <5>2 DEF Executed, Complete
      <4> QED BY <4>1, <4>2
    <3>2. ASSUME code[p].op \in { "object", "member" }
          PROVE  objlen'[code[p].n] = Bytes(fields[code[p].n])
      <4>1. CASE p = pc
        BY <3>2, <4>1
      <4>2. CASE p # pc
        <5>1. p \in 1 .. pc - 1 /\ p \in 1 .. Len(code)
          BY <1>2, <4>2
        <5>2. Executed(code[p])
          BY <1>1, <5>1 DEF RunInv
        <5>3. objlen[code[p].n] = Bytes(fields[code[p].n])
          BY <3>2, <5>2 DEF Executed
        <5>4. code[p].n \in 1 .. N
          <6>1. code[p] \in Statement(N)
            <7> HIDE DEF Statement
            <7> QED BY <1>2, <5>1
          <6> QED BY <3>2, <6>1 DEF Statement
        <5> QED BY <5>3, <5>4
      <4> QED BY <4>1, <4>2
    <3> QED BY <1>3, <1>4, <3>1, <3>2, Zenon DEF Executed, Complete
  <2>3. \A p \in 1 .. pc' - 1 : Executed(code[p])'
    <3>1. pc' - 1 = pc
      BY <1>2, <1>3
    <3> QED BY <2>2, <3>1
  <2>4. \A r \in reads' : r.at = ElementAt(r.field, r.element)
    BY <1>1 DEF RunInv
  <2>5. \A r \in reads' : r.at = ElementAt(r.field, r.element)'
    BY <1>3, <2>4 DEF ElementAt
  <2> QED BY <1>3, <2>1, <2>3, <2>5 DEF RunInv
<1> QED BY <1>6, <1>7, <1>8, <1>9, <1>10 DEF IInv

\* Statements that read nothing.
LEMMA QuietStep ==
  ASSUME IInv, NEW op \in { "add", "align", "addlen" }, At(op), Done(pc), status' = status,
         cut' = cut, offset' = offset + Moves(fields, code[pc], offset),
         reads' = reads, objlen' = objlen
  PROVE  IInv'
<1>1. TypeOK /\ status = "run" /\ pc \in 1 .. Len(code) /\ code[pc].op = op
  BY Running
<1>2. \A i \in 1 .. N : ~Covers(code[pc], i)
  BY <1>1 DEF Covers
<1>3. objlen' \in [1 .. N -> Nat] /\ \A i \in 1 .. N : objlen'[i] = objlen[i]
  BY <1>1 DEF TypeOK
<1>4. code[pc].op \notin { "object", "member" }
  BY <1>1
<1>5. reads \subseteq reads' /\ \A r \in reads' : r \in reads
  OBVIOUS
<1> QED BY <1>1, <1>2, <1>3, <1>4, <1>5, RunStep

LEMMA DoAddKeeps == IInv /\ DoAdd => IInv'
<1> SUFFICES ASSUME IInv, DoAdd PROVE IInv'
  OBVIOUS
<1>1. /\ At("add") /\ offset' = offset + code[pc].n /\ Done(pc)
      /\ UNCHANGED << cut, objlen, reads, status >>
  BY DEF DoAdd
<1>2. code[pc].op = "add"
  BY <1>1, Running
<1>3. Moves(fields, code[pc], offset) = code[pc].n
  BY <1>2 DEF Moves
<1> QED BY <1>1, <1>3, QuietStep

LEMMA DoAlignKeeps == IInv /\ DoAlign => IInv'
<1> SUFFICES ASSUME IInv, DoAlign PROVE IInv'
  OBVIOUS
<1>1. /\ At("align") /\ offset' = offset + TypePad(code[pc].n, offset) /\ Done(pc)
      /\ UNCHANGED << cut, objlen, reads, status >>
  BY DEF DoAlign
<1>2. code[pc].op = "align"
  BY <1>1, Running
<1>3. Moves(fields, code[pc], offset) = TypePad(code[pc].n, offset)
  <2> HIDE DEF TypePad
  <2> QED BY <1>2 DEF Moves
<1> QED BY <1>1, <1>3, QuietStep

LEMMA DoAddLenKeeps == IInv /\ DoAddLen => IInv'
<1> SUFFICES ASSUME IInv, DoAddLen PROVE IInv'
  OBVIOUS
<1>1. /\ At("addlen") /\ offset' = offset + objlen[code[pc].n] /\ Done(pc)
      /\ UNCHANGED << cut, objlen, reads, status >>
  BY DEF DoAddLen
<1>2. code[pc].op = "addlen" /\ pc \in 1 .. Len(code)
  BY <1>1, Running
<1>3. pc > 1 /\ code[pc - 1].op = "object" /\ code[pc - 1].n = code[pc].n
  BY <1>2 DEF IInv, CodeInv, Sound, LengthsAdded
<1>4. objlen[code[pc].n] = Bytes(fields[code[pc].n])
  <2>1. pc - 1 \in 1 .. pc - 1
    BY <1>2, <1>3
  <2>2. Executed(code[pc - 1])
    BY <2>1 DEF IInv, RunInv
  <2> QED BY <1>3, <2>2 DEF Executed
<1>5. Moves(fields, code[pc], offset) = Bytes(fields[code[pc].n])
  BY <1>2 DEF Moves
<1> QED BY <1>1, <1>4, <1>5, QuietStep

LEMMA DoUnpackKeeps == IInv /\ DoUnpack => IInv'
<1> SUFFICES ASSUME IInv, DoUnpack PROVE IInv'
  OBVIOUS
<1> DEFINE items == code[pc].batch
           new == { Read(items[k], 1, offset + Native(fields, items)[k]) :
                      k \in { j \in 1 .. Len(items) : fields[items[j]].kind = "simple" } }
<1>1. /\ At("unpack") /\ reads' = reads \union new /\ Done(pc)
      /\ status' = IF offset + Native(fields, items)[Len(items) + 1] > DataLen
                   THEN "raised" ELSE status
      /\ UNCHANGED << offset, cut, objlen >>
  BY DEF DoUnpack
<1>2. /\ TypeOK /\ InputInv /\ status = "run" /\ pc \in 1 .. Len(code)
      /\ code[pc].op = "unpack" /\ Fits(fields, shape, base, code[pc], offset) /\ offset \in Nat
  BY <1>1, Running
<1>3. PICK s, e \in 1 .. Len(fields) :
        s <= e /\ Waits(fields, items, s, e) /\ offset = WireAt(fields, base, s)
  BY <1>2 DEF Fits
<1>4. shape # "union"
  BY <1>2 DEF Fits
<1>5. /\ fields \in Seq(Field) /\ Usual(fields) /\ base \in Nat /\ N = Len(fields)
      /\ Natural(fields) /\ N \in Nat
  BY <1>2, <1>4, Given
<1>6. /\ s \in Nat /\ e \in Nat /\ 1 <= s /\ s <= e /\ e <= N /\ e \in s .. Len(fields) /\ e >= s - 1
      /\ items = Span(s, e) /\ Run(fields, s, e) /\ StartsRun(fields, s)
  BY <1>3, <1>5 DEF Waits
<1>7. Len(items) = e - s + 1 /\ \A k \in 1 .. e - s + 1 : items[k] = s + k - 1
  BY <1>6, SpanFacts, Zenon
<1>8. \A k \in 1 .. e - s + 2 :
        Native(fields, items)[k] = Sizes(fields)[s + k - 2] - Sizes(fields)[s - 1]
  BY <1>5, <1>6, NativeRun, Zenon
<1>9. /\ \A i \in s .. e : WireAt(fields, base, i) - Sizes(fields)[i - 1]
                             = WireAt(fields, base, s) - Sizes(fields)[s - 1]
      /\ WireAt(fields, base, e) + Bytes(fields[e]) - Sizes(fields)[e]
           = WireAt(fields, base, s) - Sizes(fields)[s - 1]
  BY <1>5, <1>6, RunPositions, Zenon
<1>10. /\ \A i \in 0 .. N : Sizes(fields)[i] \in Int
       /\ \A i \in 1 .. N + 1 : WireAt(fields, base, i) \in Nat /\ WireAt(fields, base, i) >= base
  BY <1>5, SizesDefined, WireGrows, Zenon
<1> DEFINE W == WirePositions(fields, base)
           S == Sizes(fields)
           nat == Native(fields, items)
<1> HIDE DEF items, new, W, S, nat
<1>11. ASSUME NEW k \in 1 .. Len(items)
       PROVE  /\ items[k] \in 1 .. N /\ items[k] \in s .. e
              /\ offset + nat[k] = W[items[k]]
  <2>1. k \in 1 .. e - s + 2 /\ items[k] = s + k - 1 /\ s + k - 1 \in s .. e
        /\ s + k - 1 \in 1 .. N + 1 /\ s + k - 1 \in 1 .. N /\ (s + k - 1) - 1 = s + k - 2
        /\ s + k - 2 \in 0 .. N /\ s - 1 \in 0 .. N /\ s \in 1 .. N + 1
    BY <1>5, <1>6, <1>7
  <2>2. nat[k] = S[s + k - 2] - S[s - 1]
    BY <1>8, <2>1 DEF nat, S
  <2>3. W[s + k - 1] - S[s + k - 2] = W[s] - S[s - 1]
    BY <1>9, <2>1 DEF W, S, WireAt
  <2>4. offset = W[s]
    BY <1>3 DEF W, WireAt
  <2>5. S[s + k - 2] \in Int /\ S[s - 1] \in Int /\ W[s + k - 1] \in Int /\ W[s] \in Int
    BY <1>10, <2>1 DEF S, W, WireAt
  <2>6. W[s] + (S[s + k - 2] - S[s - 1]) = W[s + k - 1]
    <3> DEFINE x == S[s + k - 2]
               y == S[s - 1]
               z == W[s + k - 1]
               w == W[s]
    <3>1. x \in Int /\ y \in Int /\ z \in Int /\ w \in Int /\ z - x = w - y
      BY <2>3, <2>5
    <3> HIDE DEF x, y, z, w
    <3>2. w + (x - y) = z
      BY <3>1
    <3> QED BY <3>2 DEF x, y, z, w
  <2> QED BY <2>1, <2>2, <2>4, <2>6
<1>12. offset + nat[Len(items) + 1] <= DataLen
  <2>1. e - s + 2 \in 1 .. e - s + 2 /\ s + (e - s + 2) - 2 = e /\ Len(items) + 1 = e - s + 2
        /\ e \in 0 .. N /\ s - 1 \in 0 .. N /\ s \in 1 .. N + 1 /\ e \in 1 .. N + 1
        /\ e \in 1 .. Len(fields)
    BY <1>5, <1>6, <1>7
  <2>2. nat[Len(items) + 1] = S[e] - S[s - 1]
    BY <1>8, <2>1 DEF nat, S
  <2>3. W[e] + Bytes(fields[e]) - S[e] = W[s] - S[s - 1]
    BY <1>9 DEF W, S, WireAt
  <2>4. offset = W[s]
    BY <1>3 DEF W, WireAt
  <2>5. S[e] \in Int /\ S[s - 1] \in Int /\ W[e] \in Int /\ W[s] \in Int
    BY <1>10, <2>1 DEF S, W, WireAt
  <2>6. Bytes(fields[e]) \in Nat
    BY <1>5, <2>1, FieldFacts
  <2>7. W[s] + (S[e] - S[s - 1]) = W[e] + Bytes(fields[e])
    <3> DEFINE x == S[e]
               y == S[s - 1]
               z == W[e]
               w == W[s]
               v == Bytes(fields[e])
    <3>1. x \in Int /\ y \in Int /\ z \in Int /\ w \in Int /\ v \in Int /\ z + v - x = w - y
      BY <2>3, <2>5, <2>6
    <3> HIDE DEF x, y, z, w, v
    <3>2. w + (x - y) = z + v
      BY <3>1
    <3> QED BY <3>2 DEF x, y, z, w, v
  <2>8. W[e] + Bytes(fields[e]) <= DataLen
    BY <1>2, <1>4, <1>5, <2>1, InMessage DEF W, WireAt
  <2> QED BY <2>2, <2>4, <2>7, <2>8
<1>13. status' = status
  <2>1. offset + nat[Len(items) + 1] \in Int /\ DataLen \in Int
    <3>1. s \in 1 .. N
      BY <1>5
    <3>2. DataLen \in Nat
      BY <1>2, <3>1, InMessage
    <3>3. e - s + 2 \in 1 .. e - s + 2 /\ s + (e - s + 2) - 2 = e /\ Len(items) + 1 = e - s + 2
          /\ e \in 0 .. N /\ s - 1 \in 0 .. N
      BY <1>5, <1>6, <1>7
    <3>4. nat[Len(items) + 1] = S[e] - S[s - 1] /\ S[e] \in Int /\ S[s - 1] \in Int
      BY <1>8, <1>10, <3>3 DEF nat, S
    <3> QED BY <1>2, <3>2, <3>4
  <2>2. ~(offset + nat[Len(items) + 1] > DataLen)
    BY <1>12, <2>1
  <2> QED BY <1>1, <2>2 DEF nat
<1>14. ASSUME NEW r \in new
       PROVE  r.field \in 1 .. N /\ r.at >= base /\ r.at = ElementAt(r.field, r.element)
  <2>1. PICK k \in 1 .. Len(items) :
          fields[items[k]].kind = "simple" /\ r = Read(items[k], 1, offset + nat[k])
    BY DEF new, nat
  <2>2. r.field = items[k] /\ r.at = W[items[k]]
    BY <1>11, <2>1 DEF Read
  <2>3. items[k] \in 1 .. N /\ items[k] \in 1 .. N + 1
    BY <1>5, <1>11
  <2>4. W[items[k]] \in Nat /\ W[items[k]] >= base
    BY <1>10, <2>3 DEF W, WireAt
  <2>5. ElementAt(items[k], r.element) = W[items[k]] + 0
    BY <1>4, <2>1 DEF ElementAt, W, WireAt
  <2> QED BY <2>2, <2>3, <2>4, <2>5
<1>15. ASSUME NEW i \in 1 .. N, Covers(code[pc], i), IsAttribute(fields[i])
       PROVE  Complete(i, reads')
  <2>1. PICK k \in 1 .. Len(items) : items[k] = i
    BY <1>2, <1>15 DEF Covers, items
  <2>2. ~IsObject(fields[i])
    BY <1>6, <1>11, <2>1 DEF Run
  <2>3. fields[i].kind \in Kinds
    BY <1>5, FieldFacts
  <2>4. fields[i].kind = "simple"
    BY <1>15, <2>2, <2>3 DEF Kinds, IsObject, IsAttribute
  <2>5. Read(i, 1, offset + nat[k]) \in new
    BY <2>1, <2>4 DEF new, nat
  <2>6. Read(i, 1, offset + nat[k]).field = i /\ Read(i, 1, offset + nat[k]).element = 1
    BY DEF Read
  <2>7. \E r \in reads' : r.field = i /\ r.element = 1
    BY <1>1, <2>5, <2>6
  <2> QED BY <2>4, <2>7 DEF Complete
<1>16. offset' = offset + Moves(fields, code[pc], offset)
  <2>1. Moves(fields, code[pc], offset) = 0
    BY <1>2 DEF Moves
  <2> QED BY <1>1, <1>2, <2>1
<1>17. objlen' \in [1 .. N -> Nat] /\ \A i \in 1 .. N : objlen'[i] = objlen[i]
  BY <1>1, <1>2 DEF TypeOK
<1>18. code[pc].op \notin { "object", "member" }
  BY <1>2
<1>19. /\ reads \subseteq reads'
       /\ \A r \in reads' : r \in reads \/ (/\ r.field \in 1 .. N /\ r.at >= base
                                           /\ r.at = ElementAt(r.field, r.element))
  BY <1>1, <1>14
<1> QED BY <1>1, <1>2, <1>13, <1>15, <1>16, <1>17, <1>18, <1>19, RunStep

\* A statement about one field is executed where the field is.
LEMMA AtField ==
  ASSUME IInv, NEW op \in { "object", "member" }, At(op), NEW i, i = code[pc].n
  PROVE  /\ i \in 1 .. N /\ (op = "object" <=> IsObject(fields[i]))
         /\ offset = IF shape = "union" THEN base ELSE WireAt(fields, base, i)
         /\ offset \in Nat /\ offset >= base /\ Bytes(fields[i]) \in Nat /\ DataLen \in Nat
         /\ offset + Bytes(fields[i]) <= DataLen
<1>1. /\ TypeOK /\ InputInv /\ code[pc] \in Statement(N) /\ code[pc].op = op
      /\ Fits(fields, shape, base, code[pc], offset) /\ offset \in Nat /\ offset >= base
  BY Running
<1>2. i \in 1 .. N
  BY <1>1 DEF Statement
<1>3. op = "object" => /\ IsObject(fields[i])
                       /\ offset = IF shape = "union" THEN base ELSE WireAt(fields, base, i)
  BY <1>1 DEF Fits
<1>4. op = "member" => shape = "union" /\ ~IsObject(fields[i]) /\ offset = base
  BY <1>1 DEF Fits
<1>5. Bytes(fields[i]) \in Nat
  <2>1. fields \in Seq(Field) /\ Usual(fields) /\ N = Len(fields)
    BY <1>1, Given
  <2> QED BY <1>2, <2>1, FieldFacts
<1>6. /\ DataLen \in Nat
      /\ (IF shape = "union" THEN base ELSE WireAt(fields, base, i)) + Bytes(fields[i]) <= DataLen
  BY <1>1, <1>2, InMessage
<1>7. offset = IF shape = "union" THEN base ELSE WireAt(fields, base, i)
  BY <1>3, <1>4
<1>8. offset + Bytes(fields[i]) <= DataLen
  BY <1>6, <1>7
<1>9. op = "object" <=> IsObject(fields[i])
  BY <1>3, <1>4
<1> QED BY <1>1, <1>2, <1>5, <1>6, <1>7, <1>8, <1>9

LEMMA ReadStep ==
  ASSUME IInv, NEW op \in { "object", "member" }, At(op), NEW i, i = code[pc].n,
         Done(pc), status' = status, cut' = cut, offset' = offset,
         NEW new, reads' = reads \union new, Complete(i, new),
         \A r \in new : r.field = i /\ r.at >= base /\ r.at = ElementAt(i, r.element),
         objlen' = [objlen EXCEPT ![i] = Bytes(fields[i])]
  PROVE  IInv'
<1>1. /\ TypeOK /\ status = "run" /\ pc \in 1 .. Len(code) /\ code[pc].op = op
  BY Running
<1>2. i \in 1 .. N /\ Bytes(fields[i]) \in Nat /\ offset \in Nat
  BY AtField
<1>3. objlen \in [1 .. N -> Nat]
  BY <1>1 DEF TypeOK
<1>4. /\ objlen' \in [1 .. N -> Nat] /\ objlen'[i] = Bytes(fields[i])
      /\ \A j \in 1 .. N : objlen'[j] = objlen[j] \/ objlen'[j] = Bytes(fields[j])
  <2> DEFINE b == Bytes(fields[i])
  <2>1. b \in Nat
    BY <1>2
  <2>2. objlen' = [objlen EXCEPT ![i] = b]
    OBVIOUS
  <2> HIDE DEF b
  <2>3. objlen' \in [1 .. N -> Nat] /\ objlen'[i] = b
        /\ \A j \in 1 .. N : j = i \/ objlen'[j] = objlen[j]
    BY <1>2, <1>3, <2>1, <2>2
  <2> QED BY <2>3 DEF b
<1>5. ASSUME NEW j \in 1 .. N, Covers(code[pc], j) PROVE Complete(j, reads')
  <2>1. j = i
    BY <1>1, <1>5 DEF Covers
  <2> QED BY <2>1 DEF Complete
<1>6. offset' = offset + Moves(fields, code[pc], offset)
  <2>1. Moves(fields, code[pc], offset) = 0
    BY <1>1 DEF Moves
  <2> QED BY <1>2, <2>1
<1>7. /\ reads \subseteq reads'
      /\ \A r \in reads' : r \in reads \/ (/\ r.field \in 1 .. N /\ r.at >= base
                                          /\ r.at = ElementAt(r.field, r.element))
  BY <1>2
<1> QED BY <1>1, <1>4, <1>5, <1>6, <1>7, RunStep

LEMMA DoMemberKeeps == IInv /\ DoMember => IInv'
<1> SUFFICES ASSUME IInv, DoMember PROVE IInv'
  OBVIOUS
<1> DEFINE i == code[pc].n
           new == { Read(i, 1, offset) }
<1>1. /\ At("member") /\ reads' = reads \union new
      /\ objlen' = [objlen EXCEPT ![i] = fields[i].size]
      /\ Done(pc) /\ UNCHANGED << offset, cut, status >>
  BY DEF DoMember
<1> HIDE DEF i
<1>2. /\ i \in 1 .. N /\ ~IsObject(fields[i]) /\ offset \in Nat /\ offset >= base
      /\ offset = IF shape = "union" THEN base ELSE WireAt(fields, base, i)
  BY <1>1, AtField DEF i
<1>3. fields[i].kind # "list" /\ Bytes(fields[i]) = fields[i].size
  BY <1>2 DEF IsObject, Bytes
<1>4. Complete(i, new)
  BY <1>3 DEF Complete, Read
<1>5. ElementAt(i, 1) = offset
  BY <1>2, <1>3 DEF ElementAt
<1>6. \A r \in new : r.field = i /\ r.at >= base /\ r.at = ElementAt(i, r.element)
  BY <1>2, <1>5 DEF Read
<1> HIDE DEF new
<1> QED BY <1>1, <1>3, <1>4, <1>6, ReadStep DEF i

LEMMA DoStructKeeps == IInv /\ DoStruct => IInv'
<1> SUFFICES ASSUME IInv, DoStruct PROVE IInv'
  OBVIOUS
<1> DEFINE i == code[pc].n
           new == { Read(i, 1, offset) }
<1>1. /\ At("object") /\ fields[i].kind \in { "fixed", "var" } /\ reads' = reads \union new
      /\ objlen' = [objlen EXCEPT ![i] = fields[i].size]
      /\ status' = IF offset + fields[i].size > DataLen THEN "raised" ELSE status
      /\ Done(pc) /\ UNCHANGED << offset, cut >>
  BY DEF DoStruct
<1> HIDE DEF i
<1>2. /\ i \in 1 .. N /\ offset \in Nat /\ offset >= base
      /\ offset = IF shape = "union" THEN base ELSE WireAt(fields, base, i)
      /\ Bytes(fields[i]) \in Nat /\ DataLen \in Nat
      /\ offset + Bytes(fields[i]) <= DataLen
  BY <1>1, AtField DEF i
<1>3. fields[i].kind # "list" /\ Bytes(fields[i]) = fields[i].size
  BY <1>1 DEF Bytes
<1>4. Complete(i, new)
  BY <1>3 DEF Complete, Read
<1>5. ElementAt(i, 1) = offset
  BY <1>2, <1>3 DEF ElementAt
<1>6. \A r \in new : r.field = i /\ r.at >= base /\ r.at = ElementAt(i, r.element)
  BY <1>2, <1>5 DEF Read
<1>7. status' = status
  <2>1. ~(offset + fields[i].size > DataLen)
    BY <1>2, <1>3
  <2> QED BY <1>1, <2>1
<1> HIDE DEF new
<1> QED BY <1>1, <1>3, <1>4, <1>6, <1>7, ReadStep DEF i

LEMMA DoListKeeps == IInv /\ DoList => IInv'
<1> SUFFICES ASSUME IInv, DoList PROVE IInv'
  OBVIOUS
<1> DEFINE i == code[pc].n
           f == fields[i]
           cur(e) == offset + SumOf(SubSeq(f.elements, 1, e - 1))
           new == { Read(i, e, cur(e)) : e \in 1 .. Len(f.elements) }
<1>1. /\ At("object") /\ f.kind = "list"
      /\ IF TooShort(f) \/ ~LengthKnown(f)
         THEN status' = "raised" /\ UNCHANGED << objlen, reads >>
         ELSE /\ reads' = reads \union new
              /\ objlen' = [objlen EXCEPT ![i] = cur(Len(f.elements) + 1) - offset]
              /\ UNCHANGED status
      /\ Done(pc) /\ UNCHANGED << offset, cut >>
  BY DEF DoList
<1>2. /\ TypeOK /\ InputInv /\ pc \in 1 .. Len(code) /\ code[pc].op = "object"
  BY <1>1, Running
<1>3. /\ fields \in Seq(Field) /\ Usual(fields) /\ N = Len(fields) /\ base \in Nat
  BY <1>2, Given
<1> HIDE DEF i
<1>4. /\ i \in 1 .. N /\ offset \in Nat /\ offset >= base
      /\ offset = IF shape = "union" THEN base ELSE WireAt(fields, base, i)
      /\ Bytes(f) \in Nat /\ DataLen \in Nat /\ offset + Bytes(f) <= DataLen
  BY <1>1, AtField DEF i
<1>5. /\ f \in Field /\ f.size \in Int /\ f.elements \in Seq(Nat) /\ f.len \in Nat
      /\ Len(f.elements) \in Nat /\ Bytes(f) = SumOf(f.elements)
  <2>1. f \in Field /\ f.size \in Int /\ f.elements \in Seq(Nat) /\ f.len \in Nat
    BY <1>3, <1>4, FieldFacts
  <2> QED BY <1>1, <2>1 DEF Bytes
<1>6. ~TooShort(f)
  <2> SUFFICES ASSUME f.size > 0 PROVE ~(Len(f.elements) * f.size + offset > DataLen)
    BY DEF TooShort
  <2>1. \A e \in 1 .. Len(f.elements) : f.elements[e] = f.size
    BY <1>1, <1>2, <1>3, <1>4 DEF InputInv, WellFormed
  <2>2. f.size \in Nat
    BY <1>5
  <2>3. SumOf(f.elements) = Len(f.elements) * f.size
    BY <1>5, <2>1, <2>2, SameSizes
  <2>4. Len(f.elements) * f.size = Bytes(f)
    BY <1>5, <2>3
  <2> HIDE DEF f
  <2> QED BY <1>4, <2>4
<1>7. LengthKnown(f)
  <2> SUFFICES ASSUME f.len # 0 PROVE \E r \in reads : r.field = f.len
    BY DEF LengthKnown
  <2>1. f.len > 0 /\ f.len < i
    BY <1>2, <1>3, <1>4, <1>5 DEF InputInv, WellFormed
  <2>2. shape # "union"
    BY <1>2, <1>4, Given
  <2>3. fields[f.len].kind = "simple"
    BY <1>1, <1>3, <1>4, <2>1 DEF Usual
  <2>4. f.len \in 1 .. i - 1 /\ f.len \in 1 .. N
    BY <1>3, <1>4, <1>5, <2>1
  <2>5. NumbersFirst(fields, shape, code)
    BY DEF IInv, CodeInv, Sound
  <2>6. PICK q \in 1 .. pc - 1 : Covers(code[q], f.len)
    BY <1>2, <2>2, <2>3, <2>4, <2>5 DEF NumbersFirst, i
  <2>7. Executed(code[q])
    BY DEF IInv, RunInv
  <2>8. IsAttribute(fields[f.len])
    BY <2>3 DEF IsAttribute
  <2>9. \A e \in 1 .. 1 : \E r \in reads : r.field = f.len /\ r.element = e
    BY <2>3, <2>4, <2>6, <2>7, <2>8 DEF Executed
  <2>10. 1 \in 1 .. 1
    OBVIOUS
  <2> QED BY <2>9, <2>10
<1>8. /\ reads' = reads \union new /\ status' = status
      /\ objlen' = [objlen EXCEPT ![i] = cur(Len(f.elements) + 1) - offset]
  <2> HIDE DEF new, f, cur
  <2> QED BY <1>1, <1>6, <1>7
<1>9. ASSUME NEW e \in 1 .. Len(f.elements) + 1
      PROVE  SumOf(SubSeq(f.elements, 1, e - 1)) \in Nat
  BY <1>5, SumBefore
<1>10. cur(Len(f.elements) + 1) - offset = Bytes(f)
  <2>1. (Len(f.elements) + 1) - 1 = Len(f.elements)
    BY <1>5
  <2>2. SubSeq(f.elements, 1, Len(f.elements)) = f.elements
    BY <1>5
  <2>3. cur(Len(f.elements) + 1) = offset + Bytes(f)
    BY <1>5, <2>1, <2>2
  <2> HIDE DEF cur, f
  <2> QED BY <1>4, <2>3
<1>11. Complete(i, new)
  <2>1. ASSUME NEW e \in 1 .. Len(f.elements) PROVE \E r \in new : r.field = i /\ r.element = e
    <3>1. Read(i, e, cur(e)) \in new
      OBVIOUS
    <3>2. Read(i, e, cur(e)).field = i /\ Read(i, e, cur(e)).element = e
      BY DEF Read
    <3> HIDE DEF new, cur, f
    <3> QED BY <3>1, <3>2
  <2> HIDE DEF new
  <2> QED BY <1>1, <2>1 DEF Complete
<1>12. ASSUME NEW r \in new
       PROVE  r.field = i /\ r.at >= base /\ r.at = ElementAt(i, r.element)
  <2>1. PICK e \in 1 .. Len(f.elements) : r = Read(i, e, cur(e))
    OBVIOUS
  <2>2. r.field = i /\ r.element = e /\ r.at = cur(e)
    BY <2>1 DEF Read
  <2>3. ElementAt(i, e) = offset + SumOf(SubSeq(f.elements, 1, e - 1))
    BY <1>1, <1>4 DEF ElementAt
  <2>4. e \in 1 .. Len(f.elements) + 1
    BY <1>5
  <2>5. SumOf(SubSeq(f.elements, 1, e - 1)) \in Nat
    BY <1>9, <2>4
  <2>6. cur(e) = ElementAt(i, e)
    BY <2>3
  <2>7. cur(e) >= base
    BY <1>3, <1>4, <2>5
  <2> QED BY <2>2, <2>6, <2>7
<1> HIDE DEF new, cur
<1>13. objlen' = [objlen EXCEPT ![i] = Bytes(fields[i])]
  BY <1>8, <1>10
<1> QED BY <1>1, <1>8, <1>11, <1>12, <1>13, ReadStep DEF i

LEMMA FinishKeeps == IInv /\ Finish => IInv'
<1> SUFFICES ASSUME IInv, Finish PROVE IInv'
  OBVIOUS
<1>1. /\ status = "run" /\ pc = Len(code) + 1 /\ status' = "done"
      /\ cut' = IF FixedSize \/ shape \in { "reply", "event" } THEN -1 ELSE Used
      /\ UNCHANGED << input, next, batch, align, code, pc, offset, objlen, reads >>
  BY DEF Finish
<1>2. TypeOK /\ InputInv /\ CodeInv /\ RunInv
  BY DEF IInv
<1>3. /\ fields \in Seq(Field) /\ Usual(fields) /\ base \in Nat /\ N = Len(fields) /\ N \in Nat
      /\ code \in Seq(Statement(N)) /\ Len(code) \in Nat
      /\ shape = "union" => \A i \in 1 .. N : fields[i].kind \notin { "auto", "pad" }
  BY <1>2, Given
<1>4. /\ fields' = fields /\ shape' = shape /\ base' = base /\ next' = next /\ batch' = batch
      /\ align' = align /\ code' = code /\ pc' = pc /\ offset' = offset /\ objlen' = objlen
      /\ reads' = reads
  BY <1>1 DEF input
<1>5. N' = N /\ (FixedSize' <=> FixedSize) /\ DataLen' = DataLen
  BY <1>4 DEF N, FixedSize, DataLen
<1>6. offset \in Nat /\ offset >= base /\ offset = Offsets(fields, base, code)[Len(code) + 1]
  <2>1. offset = Offsets(fields, base, code)[pc]
    BY <1>2 DEF RunInv
  <2>2. pc \in 1 .. Len(code) + 1
    BY <1>1, <1>3
  <2> QED BY <1>1, <1>3, <2>1, <2>2, OffsetsDefined
<1>7. ASSUME shape = "union" PROVE Used \in Nat /\ base + Used = DataLen
  <2> DEFINE S == {0} \union { objlen[i] : i \in 1 .. N }
  <2>1. objlen \in [1 .. N -> Nat]
    BY <1>2 DEF TypeOK
  <2>2. ASSUME NEW i \in 1 .. N PROVE objlen[i] = Bytes(fields[i])
    <3>1. IsAttribute(fields[i])
      BY <1>3, <1>7 DEF IsAttribute
    <3>2. PICK p \in 1 .. Len(code) : Covers(code[p], i)
      BY <1>1, <1>2, <3>1 DEF CodeInv, Covered
    <3>3. code[p].op # "unpack"
      <4>1. Fits(fields, shape, base, code[p], Offsets(fields, base, code)[p])
        BY <1>2 DEF CodeInv, Sound
      <4> QED BY <1>7, <4>1 DEF Fits
    <3>4. code[p].op \in { "object", "member" } /\ code[p].n = i
      BY <3>2, <3>3 DEF Covers
    <3>5. p \in 1 .. pc - 1
      BY <1>1, <1>3
    <3>6. Executed(code[p])
      BY <1>2, <3>5 DEF RunInv
    <3> QED BY <3>4, <3>6 DEF Executed
  <2>3. S = {0} \union { Bytes(fields[i]) : i \in 1 .. Len(fields) }
    BY <1>3, <2>2
  <2>4. Used = Max(S)
    BY <1>7 DEF Used
  <2>5. Largest(fields) = Max(S)
    BY <2>3 DEF Largest
  <2>6. S = {0} \union { objlen[i] : i \in 1 .. N }
    OBVIOUS
  <2> HIDE DEF S
  <2>7. Max(S) \in Nat
    BY <1>3, <2>1, <2>6, LargestOf
  <2>8. DataLen = base + Largest(fields)
    BY <1>7 DEF DataLen
  <2> QED BY <2>4, <2>5, <2>7, <2>8
<1>8. ASSUME shape # "union" PROVE Used = offset - base /\ Used \in Nat
  <2>1. Used = offset - base
    BY <1>8 DEF Used
  <2> QED BY <1>3, <1>6, <2>1
<1>9. TypeOK'
  <2>1. cut' \in Nat \union {-1}
    BY <1>1, <1>7, <1>8
  <2> QED BY <1>1, <1>2, <1>4, <1>5, <2>1 DEF TypeOK
<1>10. InputInv'
  BY <1>2, <1>4 DEF InputInv
<1>11. CodeInv'
  BY <1>1, <1>2, <1>4, <1>5 DEF CodeInv
<1>12. RunInv'
  <2>1. \A p \in 1 .. pc' - 1 : Executed(code[p])'
    BY <1>2, <1>4, <1>5 DEF RunInv, Executed
  <2>2. \A r \in reads' : r.at = ElementAt(r.field, r.element)'
    BY <1>2, <1>4 DEF RunInv, ElementAt
  <2>3. offset' = Offsets(fields', base', code')[pc']
    BY <1>2, <1>4 DEF RunInv
  <2> QED BY <1>1, <1>4, <2>1, <2>2, <2>3 DEF RunInv
<1>13. GeneratorInv' /\ NeverRaises'
  BY <1>1 DEF GeneratorInv, NeverRaises
<1>14. SizeRight'
  <2> SUFFICES ASSUME ~FixedSize, shape \in { "struct", "union" } PROVE base + cut' = DataLen
    BY <1>4, <1>5 DEF SizeRight
  <2>1. cut' = Used
    BY <1>1
  <2>2. CASE shape = "union"
    BY <1>7, <2>1, <2>2
  <2>3. CASE shape = "struct"
    <3>1. offset = DataLen
      BY <1>1, <1>2, <1>6, <2>3 DEF CodeInv
    <3>2. Used = offset - base
      BY <1>8, <2>3
    <3> HIDE DEF DataLen
    <3> QED BY <1>3, <1>6, <2>1, <3>1, <3>2
  <2> QED BY <2>2, <2>3
<1> QED BY <1>9, <1>10, <1>11, <1>12, <1>13, <1>14 DEF IInv

LEMMA StutterKeeps == IInv /\ UNCHANGED vars => IInv'
<1> SUFFICES ASSUME IInv, UNCHANGED vars PROVE IInv'
  OBVIOUS
<1>1. /\ fields' = fields /\ shape' = shape /\ base' = base /\ next' = next /\ batch' = batch
      /\ align' = align /\ code' = code /\ pc' = pc /\ offset' = offset /\ objlen' = objlen
      /\ reads' = reads /\ cut' = cut /\ status' = status
  BY DEF vars
<1>2. N' = N /\ (FixedSize' <=> FixedSize) /\ DataLen' = DataLen
  BY <1>1 DEF N, FixedSize, DataLen
<1>3. TypeOK' /\ InputInv' /\ NeverRaises' /\ SizeRight'
  BY <1>1, <1>2 DEF IInv, TypeOK, InputInv, NeverRaises, SizeRight
<1>4. GeneratorInv' /\ CodeInv'
  BY <1>1, <1>2 DEF IInv, GeneratorInv, CodeInv
<1>5. RunInv'
  BY <1>1, <1>2 DEF IInv, RunInv, Executed, ElementAt
<1> QED BY <1>3, <1>4, <1>5 DEF IInv

-----------------------------------------------------------------------------
(* The theorems.                                                           *)

\* What ties the generated statements to the description, and the constructor's
\* state to the statements, always holds: whatever _py_complex and py_union emit
\* finds its fields on the wire when it is executed.
THEOREM Inductive == Spec => []IInv
<1>1. IInv /\ Next => IInv'
  BY GenerateFixedKeeps, GenerateObjectKeeps, GenerateMemberKeeps, GenerateEndKeeps,
     DoUnpackKeeps, DoAddKeeps, DoAlignKeeps, DoListKeeps, DoStructKeeps, DoMemberKeeps,
     DoAddLenKeeps, FinishKeeps DEF Next
<1>2. IInv /\ [Next]_vars => IInv'
  BY <1>1, StutterKeeps
<1> QED BY InitHolds, <1>2, PTL DEF Spec

\* The variables of the generator and of the constructor have their types.
THEOREM TypeCorrect == Spec => []TypeOK
<1>1. IInv => TypeOK
  BY DEF IInv
<1> QED BY Inductive, <1>1, PTL

\* struct.unpack_from, xcb.List and nested constructors get the bytes of the field
\* they are for, and nothing is left out by the time a constructor returns.
THEOREM AttributesRight == Spec => []ReadsRight
<1>1. IInv => ReadsRight
  <2> SUFFICES ASSUME IInv, status = "done", NEW i \in 1 .. N, IsAttribute(fields[i])
               PROVE  Complete(i, reads)
    BY DEF IInv, RunInv, ReadsRight, IsAttribute, Complete
  <2>1. /\ Covered(fields, code, N) /\ pc = Len(code) + 1
        /\ \A p \in 1 .. pc - 1 : Executed(code[p])
    BY DEF IInv, CodeInv, RunInv
  <2>2. PICK p \in 1 .. Len(code) : Covers(code[p], i)
    BY <2>1 DEF Covered
  <2>3. Len(code) \in Nat
    BY Given DEF IInv
  <2>4. p \in 1 .. pc - 1
    BY <2>1, <2>3
  <2> QED BY <2>1, <2>2, <2>4 DEF Executed, Complete
<1> QED BY Inductive, <1>1, PTL

\* xcb._resize_obj cuts a structure or union to its size on the wire.
THEOREM SizedRight == Spec => []SizeRight
<1>1. IInv => SizeRight
  BY DEF IInv
<1> QED BY Inductive, <1>1, PTL

\* A constructor does not raise on a whole message.
THEOREM NeverFails == Spec => []NeverRaises
<1>1. IInv => NeverRaises
  BY DEF IInv
<1> QED BY Inductive, <1>1, PTL
=============================================================================
