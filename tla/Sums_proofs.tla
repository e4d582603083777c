----------------------------- MODULE Sums_proofs -----------------------------
(***************************************************************************)
(* Induction over the natural numbers, and facts about sums of sequences   *)
(* of any length that follow by it.                                        *)
(***************************************************************************)
EXTENDS Sums, FiniteSetTheorems, TLAPS

\* Induction for a set: one that holds 0 and with every number the next holds
\* them all.  If it lacked x, adding 1 would map its numbers up to x one to one
\* to those without 0, which are one fewer.
LEMMA Induction ==
  ASSUME NEW P, 0 \in P, \A n \in Nat : n \in P => n + 1 \in P
  PROVE  \A n \in Nat : n \in P
<1> SUFFICES ASSUME NEW x \in Nat, x \notin P PROVE FALSE
  OBVIOUS
<1> DEFINE I == { n \in 0 .. x : n \in P }
           J == I \ {0}
           up == [n \in I |-> n + 1]
<1>1. IsFiniteSet(0 .. x)
  BY FS_Interval
<1>2. I \in SUBSET (0 .. x)
  OBVIOUS
<1>3. IsFiniteSet(I)
  BY <1>1, <1>2, FS_Subset
<1>4. 0 \in I
  OBVIOUS
<1>5. IsFiniteSet(J) /\ Cardinality(J) = Cardinality(I) - 1
  BY <1>3, <1>4, FS_RemoveElement
<1>6. Cardinality(I) \in Nat
  BY <1>3, FS_CardinalityType
<1>7. up \in [I -> J]
  <2> SUFFICES ASSUME NEW n \in I PROVE n + 1 \in J
    OBVIOUS
  <2>1. n \in 0 .. x /\ n \in P /\ n + 1 \in P
    OBVIOUS
  <2>2. n # x
    BY <2>1
  <2> QED BY <2>1, <2>2
<1>8. Cardinality(J) < Cardinality(I)
  BY <1>5, <1>6
<1>9. \E m, n \in I : m # n /\ up[m] = up[n]
  <2> HIDE DEF I, J, up
  <2> QED BY <1>3, <1>5, <1>7, <1>8, FS_PigeonHole
<1> QED BY <1>9

\* There are partial sums.
LEMMA SumsExist ==
  ASSUME NEW s \in Seq(Int)
  PROVE  \E t \in [0 .. Len(s) -> Int] :
           t[0] = 0 /\ \A n \in 1 .. Len(s) : t[n] = t[n - 1] + s[n]
<1> DEFINE Q(m, t) == t[0] = 0 /\ \A n \in 1 .. m : t[n] = t[n - 1] + s[n]
           P == { m \in Nat : m <= Len(s) => \E t \in [0 .. m -> Int] : Q(m, t) }
<1>1. 0 \in P
  <2>1. [i \in 0 .. 0 |-> 0] \in [0 .. 0 -> Int] /\ Q(0, [i \in 0 .. 0 |-> 0])
    OBVIOUS
  <2> QED BY <2>1
<1>2. ASSUME NEW m \in Nat, m \in P PROVE m + 1 \in P
  <2> SUFFICES ASSUME m + 1 <= Len(s) PROVE \E t \in [0 .. m + 1 -> Int] : Q(m + 1, t)
    <3> HIDE DEF Q
    <3> QED OBVIOUS
  <2>0. m <= Len(s) /\ m + 1 \in 1 .. Len(s)
    OBVIOUS
  <2>1. PICK t \in [0 .. m -> Int] : Q(m, t)
    <3> HIDE DEF Q
    <3> QED BY <1>2, <2>0
  <2> DEFINE t2 == [i \in 0 .. m + 1 |-> IF i <= m THEN t[i] ELSE t[m] + s[m + 1]]
  <2>2. s[m + 1] \in Int /\ t[m] \in Int
    OBVIOUS
  <2>3. t2 \in [0 .. m + 1 -> Int] /\ t2[m + 1] = t[m] + s[m + 1]
        /\ \A i \in 0 .. m : t2[i] = t[i]
    BY <2>2
  <2> HIDE DEF t2
  <2>4. ASSUME NEW n \in 1 .. m + 1 PROVE t2[n] = t2[n - 1] + s[n]
    <3>1. CASE n = m + 1
      <4>1. n - 1 = m /\ m \in 0 .. m
        BY <3>1
      <4> QED BY <2>3, <3>1, <4>1
    <3>2. CASE n # m + 1
      <4>1. n \in 1 .. m /\ n \in 0 .. m /\ n - 1 \in 0 .. m
        BY <3>2
      <4>2. t[n] = t[n - 1] + s[n]
        BY <2>1, <4>1
      <4> QED BY <2>3, <4>1, <4>2
    <3> QED BY <3>1, <3>2
  <2>5. t2[0] = 0
    BY <2>1, <2>3
  <2> QED BY <2>3, <2>4, <2>5
<1> HIDE DEF P
<1>3. \A m \in Nat : m \in P
  BY <1>1, <1>2, Induction
<1>4. Len(s) \in P
  BY <1>3
<1> QED BY <1>4 DEF P

\* What PartialSums returns.
LEMMA SumsDefined ==
  ASSUME NEW s \in Seq(Int)
  PROVE  /\ PartialSums(s) \in [0 .. Len(s) -> Int]
         /\ PartialSums(s)[0] = 0
         /\ \A n \in 1 .. Len(s) : PartialSums(s)[n] = PartialSums(s)[n - 1] + s[n]
<1> DEFINE Def(t) == [n \in 0 .. Len(s) |-> IF n = 0 THEN 0 ELSE t[n - 1] + s[n]]
<1>1. PICK t \in [0 .. Len(s) -> Int] :
        t[0] = 0 /\ \A n \in 1 .. Len(s) : t[n] = t[n - 1] + s[n]
  BY SumsExist
<1>2. t = Def(t)
  <2>1. ASSUME NEW n \in 0 .. Len(s)
        PROVE  t[n] = IF n = 0 THEN 0 ELSE t[n - 1] + s[n]
    <3>1. n = 0 \/ n \in 1 .. Len(s)
      OBVIOUS
    <3> QED BY <1>1, <3>1
  <2> QED BY <2>1
<1>3. PartialSums(s) = CHOOSE u : u = Def(u)
  BY DEF PartialSums
<1>4. PartialSums(s) = Def(PartialSums(s))
  BY <1>2, <1>3
<1> DEFINE p == PartialSums(s)
<1> HIDE DEF p
<1>5. p = Def(p)
  BY <1>4 DEF p
<1>6. \A n \in 0 .. Len(s) : p[n] = IF n = 0 THEN 0 ELSE p[n - 1] + s[n]
  BY <1>5
<1>7. p[0] = 0 /\ \A n \in 1 .. Len(s) : p[n] = p[n - 1] + s[n]
  BY <1>6
<1>8. \A n \in Nat : n \in { m \in Nat : m <= Len(s) => p[m] = t[m] }
  <2> DEFINE P == { m \in Nat : m <= Len(s) => p[m] = t[m] }
  <2>1. 0 \in P
    BY <1>1, <1>7
  <2>2. ASSUME NEW m \in Nat, m \in P PROVE m + 1 \in P
    <3> SUFFICES ASSUME m + 1 <= Len(s) PROVE p[m + 1] = t[m + 1]
      OBVIOUS
    <3>1. m + 1 \in 1 .. Len(s) /\ (m + 1) - 1 = m /\ p[m] = t[m]
      BY <2>2
    <3>2. p[m + 1] = p[(m + 1) - 1] + s[m + 1] /\ t[m + 1] = t[(m + 1) - 1] + s[m + 1]
      BY <1>1, <1>7, <3>1, Zenon
    <3> QED BY <3>1, <3>2
  <2> HIDE DEF P
  <2>3. \A n \in Nat : n \in P
    BY <2>1, <2>2, Induction
  <2> QED BY <2>3 DEF P
<1>9. \A n \in 0 .. Len(s) : p[n] = t[n]
  BY <1>8
<1>10. p \in [0 .. Len(s) -> Int]
  <2>1. p = [n \in 0 .. Len(s) |-> t[n]]
    BY <1>5, <1>9
  <2> QED BY <2>1
<1> QED BY <1>7, <1>10 DEF p

\* Nothing sums up to nothing.
LEMMA SumEmpty == SumOf(<< >>) = 0
<1>1. << >> \in Seq(Int) /\ Len(<< >>) = 0
  OBVIOUS
<1>2. PartialSums(<< >>)[0] = 0
  BY <1>1, SumsDefined
<1> QED BY <1>1, <1>2 DEF SumOf

\* Sums of natural numbers grow.
LEMMA SumsGrow ==
  ASSUME NEW s \in Seq(Nat)
  PROVE  /\ PartialSums(s) \in [0 .. Len(s) -> Nat]
         /\ \A m, n \in 0 .. Len(s) : m <= n => PartialSums(s)[m] <= PartialSums(s)[n]
         /\ \A n \in 1 .. Len(s) : PartialSums(s)[n] = PartialSums(s)[n - 1] + s[n]
<1> DEFINE p == PartialSums(s)
           P == { n \in Nat : n <= Len(s) =>
                    p[n] \in Nat /\ \A m \in 0 .. n : p[m] <= p[n] }
<1>1. s \in Seq(Int) /\ Len(s) \in Nat
  OBVIOUS
<1>2. /\ p \in [0 .. Len(s) -> Int] /\ p[0] = 0
      /\ \A n \in 1 .. Len(s) : p[n] = p[n - 1] + s[n]
  BY <1>1, SumsDefined
<1> HIDE DEF p
<1>3. 0 \in P
  BY <1>2
<1>4. ASSUME NEW n \in Nat, n \in P PROVE n + 1 \in P
  <2> SUFFICES ASSUME n + 1 <= Len(s)
               PROVE  p[n + 1] \in Nat /\ \A m \in 0 .. n + 1 : p[m] <= p[n + 1]
    OBVIOUS
  <2>1. n + 1 \in 1 .. Len(s) /\ (n + 1) - 1 = n /\ n \in 0 .. Len(s)
    BY <1>1
  <2>2. p[n + 1] = p[(n + 1) - 1] + s[n + 1]
    BY <1>2, <2>1, Zenon
  <2>3. s[n + 1] \in Nat
    BY <2>1
  <2>4. p[n] \in Nat /\ \A m \in 0 .. n : p[m] <= p[n]
    BY <1>4, <2>1
  <2>5. p[n + 1] \in Nat /\ p[n] <= p[n + 1]
    BY <2>1, <2>2, <2>3, <2>4
  <2>6. ASSUME NEW m \in 0 .. n + 1 PROVE p[m] <= p[n + 1]
    <3>1. CASE m = n + 1
      BY <2>5, <3>1
    <3>2. CASE m # n + 1
      <4>1. m \in 0 .. n /\ m \in 0 .. Len(s)
        BY <1>1, <2>1, <3>2
      <4>2. p[m] \in Int /\ p[m] <= p[n]
        BY <1>2, <2>4, <4>1
      <4> QED BY <2>4, <2>5, <4>2
    <3> QED BY <3>1, <3>2
  <2> QED BY <2>5, <2>6
<1> HIDE DEF P
<1>5. \A n \in Nat : n \in P
  BY <1>3, <1>4, Induction
<1>6. \A n \in 0 .. Len(s) : p[n] \in Nat /\ \A m \in 0 .. n : p[m] <= p[n]
  BY <1>1, <1>5 DEF P
<1> QED BY <1>1, <1>2, <1>6 DEF p

\* A sum of natural numbers is at least any three of them.
LEMMA SumBounds ==
  ASSUME NEW s \in Seq(Nat)
  PROVE  /\ SumOf(s) \in Nat
         /\ \A i \in 1 .. Len(s) : SumOf(s) >= s[i]
         /\ \A i, j, k \in 1 .. Len(s) :
              i < j /\ j < k => SumOf(s) >= s[i] + s[j] + s[k]
<1> DEFINE p == PartialSums(s)
<1>1. Len(s) \in Nat /\ \A n \in 1 .. Len(s) : s[n] \in Nat
  OBVIOUS
<1>2. /\ p \in [0 .. Len(s) -> Nat]
      /\ \A m, n \in 0 .. Len(s) : m <= n => p[m] <= p[n]
      /\ \A n \in 1 .. Len(s) : p[n] = p[n - 1] + s[n]
  BY SumsGrow
<1>3. SumOf(s) = p[Len(s)]
  BY DEF SumOf
<1> HIDE DEF p
<1>4. SumOf(s) \in Nat
  BY <1>1, <1>2, <1>3
<1>5. ASSUME NEW i \in 1 .. Len(s)
      PROVE  p[i] \in Nat /\ p[i] <= SumOf(s) /\ p[i] >= s[i]
  <2>1. i \in 0 .. Len(s) /\ i - 1 \in 0 .. Len(s) /\ Len(s) \in 0 .. Len(s)
        /\ i <= Len(s)
    BY <1>1
  <2>2. p[i] \in Nat /\ p[i - 1] \in Nat /\ s[i] \in Nat
    BY <1>1, <1>2, <2>1
  <2>3. p[i] = p[i - 1] + s[i]
    BY <1>2, Zenon
  <2>4. p[i] <= p[Len(s)]
    BY <1>2, <2>1
  <2> QED BY <1>3, <2>2, <2>3, <2>4
<1>6. ASSUME NEW i \in 1 .. Len(s), NEW j \in 1 .. Len(s), i < j
      PROVE  p[j] >= p[i] + s[j]
  <2>1. i \in 0 .. Len(s) /\ j - 1 \in 0 .. Len(s) /\ i <= j - 1
    BY <1>1, <1>6
  <2>2. p[i] <= p[j - 1] /\ p[i] \in Nat /\ p[j - 1] \in Nat
    BY <1>2, <2>1
  <2>3. p[j] = p[j - 1] + s[j]
    BY <1>2, Zenon
  <2> QED BY <1>1, <2>2, <2>3
<1>7. \A i \in 1 .. Len(s) : SumOf(s) >= s[i]
  BY <1>1, <1>4, <1>5
<1>8. ASSUME NEW i \in 1 .. Len(s), NEW j \in 1 .. Len(s), NEW k \in 1 .. Len(s),
             i < j, j < k
      PROVE  SumOf(s) >= s[i] + s[j] + s[k]
  <2>1. p[i] >= s[i] /\ p[j] >= p[i] + s[j] /\ p[k] >= p[j] + s[k]
    BY <1>5, <1>6, <1>8
  <2>2. p[i] \in Nat /\ p[j] \in Nat /\ p[k] \in Nat /\ p[k] <= SumOf(s)
    BY <1>5
  <2>3. s[i] \in Nat /\ s[j] \in Nat /\ s[k] \in Nat
    BY <1>1
  <2>4. p[k] >= s[i] + s[j] + s[k]
    <3>1. \A a, b, c, x, y, z \in Nat :
            x >= a /\ y >= x + b /\ z >= y + c => z >= a + b + c
      OBVIOUS
    <3> QED BY <2>1, <2>2, <2>3, <3>1, Zenon
  <2>5. p[k] \in Nat /\ SumOf(s) \in Nat
    BY <1>4, <2>2
  <2>6. \A a, b, c, x, y \in Nat : x >= a + b + c /\ x <= y => y >= a + b + c
    OBVIOUS
  <2> QED BY <2>2, <2>3, <2>4, <2>5, <2>6, Zenon
<1> QED BY <1>4, <1>7, <1>8
=============================================================================
