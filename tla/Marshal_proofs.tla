--------------------------- MODULE Marshal_proofs ---------------------------
(***************************************************************************)
(* Proofs about Marshal, for requests of any number of fields and          *)
(* arguments of any size: nothing is left out or written twice, everything *)
(* is in its order, libxcb gets whole units, exactly the unfit calls are   *)
(* refused and the methods do what their names say.                        *)
(***************************************************************************)
EXTENDS Marshal, Sums_proofs, SequenceTheorems

-----------------------------------------------------------------------------
(* What is on the wire.                                                    *)

\* Two pieces of the buffer hold what each of them holds.
LEMMA ElementsConcat ==
  ASSUME NEW S, NEW s \in Seq(S), NEW u \in Seq(S)
  PROVE  Elements(s \o u) = Elements(s) \union Elements(u)
<1>1. /\ Len(s \o u) = Len(s) + Len(u) /\ Len(s) \in Nat /\ Len(u) \in Nat
      /\ \A k \in 1 .. Len(s) : (s \o u)[k] = s[k]
      /\ \A k \in 1 .. Len(u) : (s \o u)[Len(s) + k] = u[k]
  OBVIOUS
<1>2. ASSUME NEW x \in Elements(s \o u) PROVE x \in Elements(s) \union Elements(u)
  <2>1. PICK k \in 1 .. Len(s) + Len(u) : x = (s \o u)[k]
    BY <1>1 DEF Elements
  <2>2. CASE k <= Len(s)
    BY <1>1, <2>1, <2>2 DEF Elements
  <2>3. CASE k > Len(s)
    <3>1. k - Len(s) \in 1 .. Len(u) /\ Len(s) + (k - Len(s)) = k
      BY <1>1, <2>3
    <3> QED BY <1>1, <2>1, <3>1 DEF Elements
  <2> QED BY <1>1, <2>2, <2>3
<1>3. ASSUME NEW x \in Elements(s) PROVE x \in Elements(s \o u)
  BY <1>1 DEF Elements
<1>4. ASSUME NEW x \in Elements(u) PROVE x \in Elements(s \o u)
  <2>1. PICK k \in 1 .. Len(u) : x = u[k]
    BY DEF Elements
  <2>2. Len(s) + k \in 1 .. Len(s \o u)
    BY <1>1
  <2> QED BY <1>1, <2>1, <2>2 DEF Elements
<1> QED BY <1>2, <1>3, <1>4

\* They are in order if each is and the second comes after the first.
LEMMA OrderedConcat ==
  ASSUME NEW S, NEW s \in Seq(S), NEW u \in Seq(S), Ordered(s), Ordered(u),
         \A x \in Elements(s), y \in Elements(u) : Before(x, y)
  PROVE  Ordered(s \o u)
<1>1. /\ Len(s \o u) = Len(s) + Len(u) /\ Len(s) \in Nat /\ Len(u) \in Nat
      /\ \A k \in 1 .. Len(s) : (s \o u)[k] = s[k] /\ s[k] \in Elements(s)
      /\ \A k \in 1 .. Len(u) : (s \o u)[Len(s) + k] = u[k] /\ u[k] \in Elements(u)
  BY DEF Elements
<1>2. ASSUME NEW j \in 1 .. Len(s) + Len(u), NEW k \in 1 .. Len(s) + Len(u), j < k
      PROVE  Before((s \o u)[j], (s \o u)[k])
  <2>1. CASE k <= Len(s)
    BY <1>1, <1>2, <2>1 DEF Ordered
  <2>2. CASE j > Len(s)
    <3> DEFINE a == j - Len(s)
               b == k - Len(s)
    <3>1. a \in 1 .. Len(u) /\ b \in 1 .. Len(u) /\ a < b
          /\ j = Len(s) + a /\ k = Len(s) + b
      BY <1>1, <1>2, <2>2
    <3>2. Before(u[a], u[b])
      BY <3>1 DEF Ordered
    <3> HIDE DEF a, b
    <3> QED BY <1>1, <3>1, <3>2
  <2>3. CASE j <= Len(s) /\ k > Len(s)
    <3> DEFINE b == k - Len(s)
    <3>1. j \in 1 .. Len(s) /\ b \in 1 .. Len(u) /\ k = Len(s) + b
      BY <1>1, <2>3
    <3> HIDE DEF b
    <3> QED BY <1>1, <3>1
  <2> QED BY <1>1, <2>1, <2>2, <2>3
<1> QED BY <1>1, <1>2 DEF Ordered

\* Nothing, and one unit.
LEMMA SmallBuffers ==
  ASSUME NEW e
  PROVE  /\ Elements(<< >>) = {} /\ Ordered(<< >>)
         /\ Elements(<< e >>) = {e} /\ Ordered(<< e >>)
<1>1. Len(<< >>) = 0 /\ Len(<< e >>) = 1 /\ << e >>[1] = e
  OBVIOUS
<1>2. Elements(<< >>) = {} /\ Ordered(<< >>)
  BY <1>1 DEF Elements, Ordered
<1>3. Elements(<< e >>) = {e}
  BY <1>1 DEF Elements
<1>4. Ordered(<< e >>)
  BY <1>1 DEF Ordered
<1> QED BY <1>2, <1>3, <1>4

\* The fields before the first take no place.
LEMMA WireNone == ASSUME NEW fs PROVE Wire(fs, 0) = {}
BY DEF Wire

\* One field more.
LEMMA WireNext ==
  ASSUME NEW fs, NEW n \in Nat \ {0}
  PROVE  Wire(fs, n) = Wire(fs, n - 1) \union Part(fs, n, Written(fs[n]))
<1>1. 1 .. n = (1 .. n - 1) \union {n}
  OBVIOUS
<1> QED BY <1>1 DEF Wire

\* What the first n fields put on the wire belongs to them.
LEMMA WireFields ==
  ASSUME NEW fs, NEW n \in Nat, NEW x \in Wire(fs, n)
  PROVE  x[1] \in 1 .. n
BY DEF Wire, Part

\* Fields that waited together.
LEMMA WireBatch ==
  ASSUME NEW fs, NEW n \in Nat \ {0}, NEW items \in Seq(Nat),
         Stands(fs, items, n)
  PROVE  Wire(fs, n + Len(items) - 1) =
           Wire(fs, n - 1)
             \union { << items[k], 1, fs[items[k]].size >> : k \in 1 .. Len(items) }
<1> DEFINE m == n + Len(items) - 1
           W == { << items[k], 1, fs[items[k]].size >> : k \in 1 .. Len(items) }
<1>1. Len(items) \in Nat /\ m \in Nat /\ n - 1 \in Nat /\ n - 1 <= m
  OBVIOUS
<1>2. \A i \in n .. m : /\ i - n + 1 \in 1 .. Len(items)
                        /\ items[i - n + 1] = i
  BY <1>1 DEF Stands
<1>3. \A k \in 1 .. Len(items) : items[k] \in n .. m /\ Written(fs[items[k]]) = 1
  <2> SUFFICES ASSUME NEW k \in 1 .. Len(items)
               PROVE  items[k] \in n .. m /\ Written(fs[items[k]]) = 1
    OBVIOUS
  <2>1. items[k] = n + k - 1 /\ fs[items[k]].kind \in Batched
    BY DEF Stands
  <2>2. items[k] \in n .. m
    BY <1>1, <2>1
  <2>3. fs[items[k]].kind \notin Tuples /\ fs[items[k]].kind # "array"
    BY <2>1 DEF Batched, Tuples
  <2> QED BY <2>2, <2>3 DEF Written
<1> HIDE DEF m
<1>4. ASSUME NEW x \in Wire(fs, m) PROVE x \in Wire(fs, n - 1) \union W
  <2>1. PICK i \in 1 .. m : x \in Part(fs, i, Written(fs[i]))
    BY DEF Wire
  <2>2. CASE i \in 1 .. n - 1
    BY <2>1, <2>2 DEF Wire
  <2>3. CASE i \in n .. m
    <3> DEFINE k == i - n + 1
    <3>1. k \in 1 .. Len(items) /\ items[k] = i
      BY <1>2, <2>3
    <3> HIDE DEF k
    <3>2. Written(fs[i]) = 1
      BY <1>3, <3>1
    <3>3. x = << items[k], 1, fs[items[k]].size >>
      BY <2>1, <3>1, <3>2 DEF Part
    <3> QED BY <3>1, <3>3
  <2> QED BY <1>1, <2>2, <2>3
<1>5. ASSUME NEW x \in Wire(fs, n - 1) PROVE x \in Wire(fs, m)
  <2>1. PICK i \in 1 .. n - 1 : x \in Part(fs, i, Written(fs[i]))
    BY DEF Wire
  <2>2. i \in 1 .. m
    BY <1>1
  <2> QED BY <2>1, <2>2 DEF Wire
<1>6. ASSUME NEW k \in 1 .. Len(items)
      PROVE  << items[k], 1, fs[items[k]].size >> \in Wire(fs, m)
  <2>1. items[k] \in 1 .. m /\ Written(fs[items[k]]) = 1
    BY <1>1, <1>3
  <2>2. << items[k], 1, fs[items[k]].size >> \in Part(fs, items[k], 1)
    BY DEF Part
  <2> QED BY <2>1, <2>2 DEF Wire
<1> QED BY <1>4, <1>5, <1>6 DEF m

-----------------------------------------------------------------------------
(* What the generator emits.                                               *)

\* The field after those of a statement, and after those of all.
LEMMA UptoType ==
  /\ \A s \in Statements : After(s) \in Nat
  /\ \A c \in Seq(Statements) : Upto(c) \in Nat
<1>1. ASSUME NEW s \in Statements PROVE After(s) \in Nat
  <2>1. s.n \in Nat /\ s.batch \in Seq(Nat)
    BY DEF Statements
  <2>2. Len(s.batch) \in Nat
    BY <2>1, LenProperties
  <2> QED BY <2>1, <2>2 DEF After
<1>2. ASSUME NEW c \in Seq(Statements) PROVE Upto(c) \in Nat
  <2>1. CASE c = << >>
    BY <2>1 DEF Upto
  <2>2. CASE c # << >>
    <3>1. Len(c) \in 1 .. Len(c)
      BY <2>2, EmptySeq, LenProperties
    <3>2. c[Len(c)] \in Statements
      BY <3>1, ElementOfSeq
    <3> QED BY <1>1, <2>2, <3>2 DEF Upto
  <2> QED BY <2>1, <2>2
<1> QED BY <1>1, <1>2

\* A statement goes on where the last one stops.
LEMMA ChainAppend ==
  ASSUME NEW fs, NEW c \in Seq(Statements), NEW s \in Statements,
         Chain(fs, c), Fitting(fs, s), s.n = Upto(c),
         c # << >> => c[Len(c)].op # "send"
  PROVE  /\ Append(c, s) \in Seq(Statements) /\ Append(c, s) # << >>
         /\ Len(Append(c, s)) = Len(c) + 1 /\ Append(c, s)[Len(c) + 1] = s
         /\ Chain(fs, Append(c, s)) /\ Upto(Append(c, s)) = After(s)
<1> DEFINE d == Append(c, s)
<1>1. /\ d \in Seq(Statements) /\ d # << >> /\ Len(d) = Len(c) + 1
      /\ d[Len(c) + 1] = s /\ Len(c) \in Nat
      /\ \A k \in 1 .. Len(c) : d[k] = c[k]
  BY AppendProperties, LenProperties
<1> HIDE DEF d
<1>2. Upto(d) = After(s)
  BY <1>1 DEF Upto
<1>3. \A k \in 1 .. Len(d) : Fitting(fs, d[k])
  <2> SUFFICES ASSUME NEW k \in 1 .. Len(d) PROVE Fitting(fs, d[k])
    OBVIOUS
  <2>1. CASE k = Len(c) + 1
    BY <1>1, <2>1
  <2>2. CASE k # Len(c) + 1
    <3>1. k \in 1 .. Len(c)
      BY <1>1, <2>2
    <3> QED BY <1>1, <3>1 DEF Chain
  <2> QED BY <2>1, <2>2
<1>4. d[1].n = 1
  <2>1. CASE c = << >>
    BY <1>1, <2>1 DEF Upto
  <2>2. CASE c # << >>
    <3>1. 1 \in 1 .. Len(c)
      BY <1>1, <2>2, EmptySeq
    <3> QED BY <1>1, <2>2, <3>1 DEF Chain
  <2> QED BY <2>1, <2>2
<1>5. \A k \in 1 .. Len(d) - 1 : d[k].op # "send" /\ d[k + 1].n = After(d[k])
  <2> SUFFICES ASSUME NEW k \in 1 .. Len(c)
               PROVE  d[k].op # "send" /\ d[k + 1].n = After(d[k])
    BY <1>1
  <2>1. CASE k = Len(c)
    <3>1. c # << >> /\ d[k] = c[k] /\ d[k + 1] = s
      BY <1>1, <2>1, EmptySeq
    <3> QED BY <2>1, <3>1 DEF Upto
  <2>2. CASE k # Len(c)
    <3>1. k \in 1 .. Len(c) - 1 /\ k + 1 \in 1 .. Len(c)
      BY <1>1, <2>2
    <3> QED BY <1>1, <3>1 DEF Chain
  <2> QED BY <2>1, <2>2
<1>6. Chain(fs, d)
  BY <1>1, <1>3, <1>4, <1>5 DEF Chain
<1> QED BY <1>1, <1>2, <1>6 DEF d

\* The invariant, and that the call is one the program makes.
Inv == fields \in Calls /\ IInv

\* The fields of a request.
LEMMA FieldTypes ==
  ASSUME Inv
  PROVE  /\ fields \in Seq(Fields) /\ Len(fields) \in Nat /\ Len(fields) >= 3
         /\ \A i \in 1 .. Len(fields) :
              /\ fields[i] \in Fields
              /\ fields[i].kind \in Kinds /\ fields[i].size \in Nat \ {0}
              /\ fields[i].items \in Nat /\ fields[i].fits \in BOOLEAN
              /\ fields[i].nested \in BOOLEAN
              /\ fields[i].inner \in Seq(Nat \union {-1})
<1>1. fields \in Seq(Fields) /\ Len(fields) >= 3 /\ Len(fields) \in Nat
  BY ConstantsAssumption, HeaderAssumption, LenProperties DEF Inv
<1>2. \A i \in 1 .. Len(fields) : fields[i] \in Fields
  BY <1>1, ElementOfSeq
<1> QED BY <1>1, <1>2 DEF Fields

\* The numbers of a structure, and that there are some if their number is fixed.
LEMMA GroupSize ==
  ASSUME NEW f \in Fields, \E k \in 1 .. Len(f.inner) : f.inner[k] # 0
  PROVE  /\ Varies(f) => FormatLen(f) = -1
         /\ ~Varies(f) => FormatLen(f) = Numbers(f) /\ Numbers(f) \in Nat \ {0}
<1>1. f.inner \in Seq(Nat \union {-1})
  BY DEF Fields
<1>2. \A k \in 1 .. Len(f.inner) : f.inner[k] \in Nat \union {-1}
  BY <1>1, ElementOfSeq
<1>3. Varies(f) <=> \E k \in 1 .. Len(f.inner) : f.inner[k] < 0
  BY <1>2 DEF Varies
<1>4. ASSUME ~Varies(f) PROVE Numbers(f) \in Nat \ {0}
  <2>1. \A k \in 1 .. Len(f.inner) : f.inner[k] \in Nat
    BY <1>2, <1>4 DEF Varies
  <2>2. f.inner \in Seq(Nat)
    BY <1>1, <2>1
  <2>3. PICK k \in 1 .. Len(f.inner) : f.inner[k] # 0
    OBVIOUS
  <2>4. SumOf(f.inner) \in Nat /\ SumOf(f.inner) >= f.inner[k]
    BY <2>2, SumBounds
  <2> QED BY <2>1, <2>3, <2>4 DEF Numbers
<1> QED BY <1>3, <1>4 DEF FormatLen, Numbers

\* A function on 1 .. m is a sequence.
LEMMA FunctionsAreSequences ==
  ASSUME NEW S, NEW m \in Nat, NEW s \in [1 .. m -> S]
  PROVE  s \in Seq(S) /\ Len(s) = m
OBVIOUS

\* Sizes are positive, so that there is something to pack if any field waits.
LEMMA PendingIff ==
  ASSUME Inv PROVE Pending <=> batch # << >>
<1> DEFINE z == [i \in 1 .. Len(batch) |-> fields[batch[i]].size]
<1>1. batch \in Seq(1 .. next - 1) /\ next \in 1 .. Len(fields) + 1
      /\ Len(batch) \in Nat /\ Len(fields) \in Nat
  BY FieldTypes, LenProperties DEF Inv, IInv, TypeOK
<1>2. \A i \in 1 .. Len(batch) : batch[i] \in 1 .. Len(fields)
  <2> SUFFICES ASSUME NEW i \in 1 .. Len(batch) PROVE batch[i] \in 1 .. Len(fields)
    OBVIOUS
  <2>1. batch[i] \in 1 .. next - 1
    BY <1>1, ElementOfSeq
  <2> QED BY <1>1, <2>1
<1>3. \A i \in 1 .. Len(batch) : fields[batch[i]].size \in Nat \ {0}
  BY <1>2, FieldTypes
<1>4. /\ z \in Seq(Nat) /\ Len(z) = Len(batch)
      /\ \A i \in 1 .. Len(batch) : z[i] > 0
  <2>1. \A i \in 1 .. Len(batch) : z[i] \in Nat /\ z[i] > 0
    BY <1>3
  <2>2. z \in [1 .. Len(batch) -> Nat]
    BY <2>1
  <2> HIDE DEF z
  <2> QED BY <1>1, <2>1, <2>2, FunctionsAreSequences
<1>5. Sizes(batch) = SumOf(z)
  BY DEF Sizes
<1> HIDE DEF z
<1>6. CASE batch = << >>
  <2>1. Len(z) = 0 /\ z = << >>
    BY <1>4, <1>6, EmptySeq
  <2>2. SumOf(z) = 0
    BY <2>1, SumEmpty
  <2> QED BY <1>5, <1>6, <2>2 DEF Pending
<1>7. CASE batch # << >>
  <2>1. 1 \in 1 .. Len(batch)
    BY <1>1, <1>7, EmptySeq
  <2>2. SumOf(z) \in Nat /\ SumOf(z) >= z[1] /\ z[1] \in Nat /\ z[1] > 0
    BY <1>4, <2>1, SumBounds, ElementOfSeq
  <2> QED BY <1>5, <1>7, <2>2 DEF Pending
<1> QED BY <1>6, <1>7

\* A statement that comes after what has waited.
LEMMA Emitted ==
  ASSUME Inv, status = "generate", NEW s \in Statements,
         s.n = next, s.op # "pack", Fitting(fields, s)
  PROVE  LET c == code \o Pack \o << s >> IN
           /\ c \in Seq(Statements) /\ c # << >>
           /\ c[Len(c)] = s /\ Upto(c) = next + 1 /\ Chain(fields, c)
<1> DEFINE c == code \o Pack \o << s >>
           p == [op |-> "pack", n |-> batch[1], batch |-> batch]
<1>1. /\ code \in Seq(Statements) /\ Chain(fields, code)
      /\ next = Upto(code) + Len(batch) /\ Stands(fields, batch, Upto(code))
      /\ code # << >> => code[Len(code)].op # "send"
      /\ batch \in Seq(1 .. next - 1) /\ next \in Nat
  BY FieldTypes DEF Inv, IInv, TypeOK, CodeInv
<1>2. After(s) = next + 1
  BY DEF After
<1>3. CASE batch = << >>
  <2>1. Pack = << >>
    BY <1>3, PendingIff DEF Pack
  <2>2. code \o << >> = code
    BY <1>1, ConcatEmptySeq
  <2>3. c = Append(code, s)
    BY <1>1, <2>1, <2>2, AppendIsConcat
  <2>4. s.n = Upto(code)
    <3>1. Len(batch) = 0
      BY <1>3, EmptySeq
    <3>2. Upto(code) \in Int
      BY <1>1, UptoType
    <3> QED BY <1>1, <3>1, <3>2
  <2> HIDE DEF c
  <2>5. /\ Append(code, s) \in Seq(Statements) /\ Append(code, s) # << >>
        /\ Len(Append(code, s)) = Len(code) + 1
        /\ Append(code, s)[Len(code) + 1] = s
        /\ Chain(fields, Append(code, s)) /\ Upto(Append(code, s)) = After(s)
    BY <1>1, <2>4, ChainAppend
  <2> QED BY <1>2, <2>3, <2>5 DEF c
<1>4. CASE batch # << >>
  <2>1. Pack = << p >>
    BY <1>4, PendingIff DEF Pack
  <2>2. Len(batch) \in Nat /\ 1 \in 1 .. Len(batch)
    BY <1>1, <1>4, EmptySeq, LenProperties
  <2>3. batch[1] = Upto(code) /\ batch[1] \in Nat
    <3>1. batch[1] \in 1 .. next - 1 /\ batch[1] = Upto(code) + 1 - 1
      BY <1>1, <2>2, ElementOfSeq DEF Stands
    <3>2. Upto(code) \in Int
      BY <1>1, UptoType
    <3> QED BY <3>1, <3>2
  <2>4. batch \in Seq(Nat)
    BY <1>1
  <2>5. /\ p \in Statements /\ Fitting(fields, p) /\ p.n = Upto(code)
        /\ After(p) = next /\ p.op # "send"
    BY <1>1, <1>4, <2>2, <2>3, <2>4 DEF Statements, Fitting, After
  <2> DEFINE d == Append(code, p)
  <2>6. c = Append(d, s)
    <3>1. c = (code \o << p >>) \o << s >>
      BY <2>1
    <3> HIDE DEF c, p
    <3>2. Append(code, p) = code \o << p >> /\ Append(code, p) \in Seq(Statements)
      BY <1>1, <2>5, AppendIsConcat, AppendProperties
    <3>3. Append(d, s) = d \o << s >>
      BY <3>2, AppendIsConcat
    <3> QED BY <3>1, <3>2, <3>3
  <2> HIDE DEF c, p, d
  <2>7. /\ d \in Seq(Statements) /\ d # << >> /\ Len(d) = Len(code) + 1
        /\ d[Len(d)] = p /\ Chain(fields, d) /\ Upto(d) = After(p)
    BY <1>1, <2>5, ChainAppend DEF d
  <2>8. /\ Append(d, s) \in Seq(Statements) /\ Append(d, s) # << >>
        /\ Len(Append(d, s)) = Len(d) + 1 /\ Append(d, s)[Len(d) + 1] = s
        /\ Chain(fields, Append(d, s)) /\ Upto(Append(d, s)) = After(s)
    BY <2>5, <2>7, ChainAppend
  <2> QED BY <1>2, <2>6, <2>8 DEF c
<1> QED BY <1>3, <1>4

\* A field waits.
LEMMA BatchedKeeps == ASSUME Inv, GenerateBatched PROVE Inv'
<1>1. /\ status = "generate" /\ next <= Len(fields) /\ fields[next].kind \in Batched
      /\ batch' = Append(batch, next) /\ next' = next + 1
      /\ fields' = fields /\ void' = void /\ regular' = regular /\ code' = code
      /\ pc' = pc /\ taken' = taken /\ buf' = buf /\ status' = status
      /\ request' = request
  BY DEF GenerateBatched, input
<1>2. /\ next \in 1 .. Len(fields) /\ Len(fields) \in Nat
      /\ batch \in Seq(1 .. next - 1) /\ Len(batch) \in Nat
      /\ next = Upto(code) + Len(batch) /\ Stands(fields, batch, Upto(code))
      /\ Upto(code) \in Nat
  BY <1>1, FieldTypes, LenProperties, UptoType DEF Inv, IInv, TypeOK, CodeInv
<1> DEFINE b == Append(batch, next)
<1>3. b \in Seq(1 .. next)
  <2>1. batch \in Seq(1 .. next)
    BY <1>2
  <2> QED BY <1>2, <2>1, AppendProperties
<1>4. /\ Len(b) = Len(batch) + 1 /\ b[Len(batch) + 1] = next
      /\ \A k \in 1 .. Len(batch) : b[k] = batch[k]
  BY <1>2, AppendProperties
<1> HIDE DEF b
<1>5. Stands(fields, b, Upto(code))
  <2> SUFFICES ASSUME NEW k \in 1 .. Len(b)
               PROVE  /\ b[k] = Upto(code) + k - 1 /\ b[k] \in 1 .. Len(fields)
                      /\ fields[b[k]].kind \in Batched
    BY DEF Stands
  <2>1. CASE k = Len(batch) + 1
    BY <1>1, <1>2, <1>4, <2>1
  <2>2. CASE k # Len(batch) + 1
    <3>1. k \in 1 .. Len(batch) /\ b[k] = batch[k]
      BY <1>2, <1>4, <2>2
    <3> QED BY <1>2, <3>1 DEF Stands
  <2> QED BY <2>1, <2>2
<1>6. TypeOK'
  <2>1. next' \in 1 .. Len(fields) + 1 /\ next' - 1 = next
    <3>1. next' = next + 1 /\ next \in 1 .. Len(fields) /\ Len(fields) \in Nat
      BY <1>1, <1>2
    <3> QED BY <3>1
  <2>2. batch' \in Seq(1 .. next' - 1)
    BY <1>1, <1>3, <2>1 DEF b
  <2> QED BY <1>1, <2>1, <2>2 DEF Inv, IInv, TypeOK
<1>7. CodeInv'
  <2>1. next' = Upto(code) + Len(b)
    BY <1>1, <1>2, <1>4
  <2> QED BY <1>1, <1>5, <2>1 DEF Inv, IInv, CodeInv, b
<1>8. RunInv'
  BY <1>1 DEF Inv, IInv, RunInv
<1> QED
  BY <1>1, <1>6, <1>7, <1>8
     DEF Inv, IInv, NothingLost, WholeUnits, RefusesExactly, MethodsAsNamed

\* A field is written by a statement of its own.
LEMMA WriteKeeps == ASSUME Inv, GenerateWrite PROVE Inv'
<1> DEFINE s == Stmt(fields[next].kind, next)
           c == code \o Pack \o << s >>
<1>1. /\ status = "generate" /\ next <= Len(fields) /\ fields[next].kind \notin Batched
      /\ code' = c /\ batch' = << >> /\ next' = next + 1
      /\ fields' = fields /\ void' = void /\ regular' = regular
      /\ pc' = pc /\ taken' = taken /\ buf' = buf /\ status' = status
      /\ request' = request
  BY DEF GenerateWrite, Flush, input
<1>2. next \in 1 .. Len(fields) /\ Len(fields) \in Nat /\ fields[next].kind \in Kinds
  BY <1>1, FieldTypes DEF Inv, IInv, TypeOK
<1>3. /\ s \in Statements /\ s.n = next /\ s.op = fields[next].kind
      /\ s.op # "pack" /\ s.op # "send" /\ Fitting(fields, s)
  <2>1. s.n = next /\ s.op = fields[next].kind /\ s.batch = << >>
    BY DEF Stmt
  <2>2. s.op # "pack" /\ s.op # "send"
    BY <1>2, <2>1 DEF Kinds, Batched, Tuples
  <2>3. s \in Statements
    <3>1. << >> \in Seq(Nat)
      BY EmptySeq
    <3> QED BY <1>1, <1>2, <3>1 DEF Stmt, Statements
  <2>4. Fitting(fields, s)
    BY <1>2, <2>1, <2>2 DEF Fitting
  <2> QED BY <2>1, <2>2, <2>3, <2>4
<1> HIDE DEF s
<1>4. /\ c \in Seq(Statements) /\ c # << >>
      /\ c[Len(c)] = s /\ Upto(c) = next + 1 /\ Chain(fields, c)
  BY <1>1, <1>3, Emitted
<1> HIDE DEF c
<1>5. Len(<< >>) = 0 /\ \A S : << >> \in Seq(S)
  BY EmptySeq
<1>6. TypeOK'
  <2>1. pc = 1
    BY <1>1 DEF Inv, IInv, RunInv
  <2>2. pc' \in 1 .. Len(code') + 1
    BY <1>1, <1>4, <2>1, LenProperties
  <2> QED BY <1>1, <1>2, <1>4, <1>5, <2>2 DEF Inv, IInv, TypeOK
<1>7. CodeInv'
  <2>1. next' = Upto(c) + Len(<< >>)
    BY <1>1, <1>2, <1>4, <1>5
  <2>2. Stands(fields, << >>, Upto(c))
    BY <1>5 DEF Stands
  <2> QED BY <1>1, <1>3, <1>4, <2>1, <2>2 DEF CodeInv
<1>8. RunInv'
  BY <1>1 DEF Inv, IInv, RunInv
<1> QED
  BY <1>1, <1>6, <1>7, <1>8
     DEF Inv, IInv, NothingLost, WholeUnits, RefusesExactly, MethodsAsNamed

\* The method is complete and may be called: nothing has been written.
LEMMA GeneratedKeeps == ASSUME Inv, GenerateEnd PROVE Inv'
<1> DEFINE s == Stmt("send", next)
           c == code \o Pack \o << s >>
<1>1. /\ status = "generate" /\ next = Len(fields) + 1
      /\ code' = c /\ batch' = << >> /\ next' = next
      /\ fields' = fields /\ void' = void /\ regular' = regular
      /\ pc' = pc /\ taken' = taken /\ buf' = buf /\ status' = "run"
      /\ request' = request
  BY DEF GenerateEnd, Flush, input
<1>2. next \in Nat /\ Len(fields) \in Nat
  BY <1>1, FieldTypes
<1>3. /\ s \in Statements /\ s.n = next /\ s.op = "send" /\ Fitting(fields, s)
  <2>1. << >> \in Seq(Nat)
    BY EmptySeq
  <2>2. s \in Statements /\ s.n = next /\ s.op = "send"
    BY <1>2, <2>1 DEF Stmt, Statements
  <2> QED BY <1>1, <2>2 DEF Fitting
<1> HIDE DEF s
<1>4. /\ c \in Seq(Statements) /\ c # << >>
      /\ c[Len(c)] = s /\ Upto(c) = next + 1 /\ Chain(fields, c)
  BY <1>1, <1>3, Emitted
<1> HIDE DEF c
<1>5. \A S : << >> \in Seq(S)
  BY EmptySeq
<1>6. pc = 1 /\ taken = 0 /\ buf = << >> /\ Len(c) \in Nat /\ Len(c) >= 1
  BY <1>1, <1>4, EmptySeq, LenProperties DEF Inv, IInv, RunInv
<1>7. TypeOK'
  BY <1>1, <1>4, <1>5, <1>6 DEF Inv, IInv, TypeOK
<1>8. CodeInv'
  BY <1>1, <1>3, <1>4 DEF CodeInv
<1>9. RunInv'
  <2>1. c[1].n = 1
    BY <1>4 DEF Chain
  <2>2. Elements(<< >>) = Wire(fields, 1 - 1) /\ Ordered(<< >>)
    <3>1. 1 - 1 = 0
      OBVIOUS
    <3> QED BY <3>1, WireNone, SmallBuffers
  <2>3. ~ \E i \in 1 .. 1 - 1 : TRUE
    OBVIOUS
  <2> QED BY <1>1, <1>6, <2>1, <2>2, <2>3 DEF RunInv
<1> QED
  BY <1>1, <1>7, <1>8, <1>9
     DEF Inv, IInv, NothingLost, WholeUnits, RefusesExactly, MethodsAsNamed

-----------------------------------------------------------------------------
(* What the method does.                                                   *)

\* What is in the buffer: field, item and size.
Triples == (1 .. Len(fields)) \X (Nat \ {0}) \X (Nat \ {0})

\* One unit.
LEMMA IsTriple ==
  ASSUME NEW i \in 1 .. Len(fields), NEW k \in Nat \ {0}, NEW z \in Nat \ {0}
  PROVE  << i, k, z >> \in Triples
BY DEF Triples

\* Its parts are numbers.
LEMMA TripleParts ==
  ASSUME Len(fields) \in Nat, NEW e \in Triples
  PROVE  e[1] \in Nat /\ e[2] \in Nat /\ e[3] \in Nat
BY DEF Triples

\* The statement a method is at, and the one after it.
LEMMA Running ==
  ASSUME Inv, status = "run"
  PROVE  /\ pc \in 1 .. Len(code) /\ Len(code) \in Nat
         /\ code[pc] \in Statements /\ Fitting(fields, code[pc])
         /\ code[pc].n \in Nat \ {0} /\ After(code[pc]) \in Nat
         /\ buf \in Seq(Triples) /\ taken \in Nat
         /\ code[pc].op # "send" =>
              pc + 1 \in 1 .. Len(code) /\ code[pc + 1].n = After(code[pc])
         /\ code[pc].op \notin Tuples =>
              taken = 0 /\ Elements(buf) = Wire(fields, code[pc].n - 1)
         /\ Ordered(buf)
<1>1. /\ pc \in 1 .. Len(code) /\ Len(code) \in Nat /\ code \in Seq(Statements)
      /\ buf \in Seq(Triples) /\ taken \in Nat
  BY LenProperties DEF Inv, IInv, TypeOK, RunInv, Triples
<1>2. code[pc] \in Statements /\ Fitting(fields, code[pc])
  BY <1>1, ElementOfSeq DEF Inv, IInv, CodeInv, Chain
<1>3. code[pc].n \in Nat /\ After(code[pc]) \in Nat
  BY <1>2, UptoType DEF Statements
<1>4. code[pc].n # 0
  <2>1. CASE code[pc].op = "pack"
    <3> DEFINE items == code[pc].batch
    <3>1. items # << >> /\ Stands(fields, items, code[pc].n) /\ items \in Seq(Nat)
      BY <1>2, <2>1 DEF Fitting, Statements
    <3>2. 1 \in 1 .. Len(items)
      BY <3>1, EmptySeq, LenProperties
    <3> HIDE DEF items
    <3>3. items[1] = code[pc].n + 1 - 1 /\ items[1] \in 1 .. Len(fields)
      BY <3>1, <3>2 DEF Stands
    <3> QED BY <1>3, <3>3
  <2>2. CASE code[pc].op = "send"
    <3>1. code[pc].n = Len(fields) + 1
      BY <1>2, <2>2 DEF Fitting
    <3> QED BY <3>1, FieldTypes
  <2>3. CASE code[pc].op \notin { "pack", "send" }
    <3>1. code[pc].n \in 1 .. Len(fields)
      BY <1>2, <2>3 DEF Fitting
    <3> QED BY <3>1
  <2> QED BY <2>1, <2>2, <2>3
<1>5. ASSUME code[pc].op # "send"
      PROVE  pc + 1 \in 1 .. Len(code) /\ code[pc + 1].n = After(code[pc])
  <2>1. code[Len(code)].op = "send" /\ Chain(fields, code)
    BY DEF Inv, IInv, CodeInv
  <2>2. pc \in 1 .. Len(code) - 1
    BY <1>1, <1>5, <2>1
  <2> QED BY <1>1, <2>1, <2>2 DEF Chain
<1>6. code[pc].op \notin Tuples => taken = 0 /\ Elements(buf) = Wire(fields, code[pc].n - 1)
  BY DEF Inv, IInv, RunInv
<1>7. Ordered(buf)
  BY DEF Inv, IInv, RunInv
<1> QED BY <1>1, <1>2, <1>3, <1>4, <1>5, <1>6, <1>7

\* A method goes on to its next statement when the fields of this one are written.
LEMMA MovesOn ==
  ASSUME Inv, status = "run", code[pc].op # "send",
         \A i \in code[pc].n .. After(code[pc]) - 1 : ~Unfit(fields[i]),
         buf' \in Seq(Triples), Ordered(buf'),
         Elements(buf') = Wire(fields, After(code[pc]) - 1),
         pc' = pc + 1, taken' = 0, status' = "run",
         UNCHANGED << input, next, batch, code, request >>
  PROVE  Inv'
<1>1. /\ pc \in 1 .. Len(code) /\ Len(code) \in Nat
      /\ pc + 1 \in 1 .. Len(code) /\ code[pc + 1].n = After(code[pc])
      /\ code[pc].n \in Nat /\ After(code[pc]) \in Nat
  BY Running
<1>2. /\ fields' = fields /\ void' = void /\ regular' = regular /\ next' = next
      /\ batch' = batch /\ code' = code /\ request' = request
  BY DEF input
<1>3. TypeOK'
  BY <1>1, <1>2 DEF Inv, IInv, TypeOK, Triples
<1>4. CodeInv'
  BY <1>2 DEF Inv, IInv, CodeInv
<1>5. \A i \in 1 .. After(code[pc]) - 1 : ~Unfit(fields[i])
  <2>1. \A i \in 1 .. code[pc].n - 1 : ~Unfit(fields[i])
    BY DEF Inv, IInv, RunInv
  <2> QED BY <1>1, <2>1
<1>6. RunInv'
  BY <1>1, <1>2, <1>5 DEF RunInv
<1> QED
  BY <1>2, <1>3, <1>4, <1>6
     DEF Inv, IInv, NothingLost, WholeUnits, RefusesExactly, MethodsAsNamed

\* A method that raises has an argument it cannot pack.
LEMMA Refused ==
  ASSUME Inv, status = "run", status' = "raised",
         \E i \in 1 .. Len(fields) : Unfit(fields[i]),
         buf' = buf, pc' \in 1 .. Len(code) + 1, taken' \in Nat,
         UNCHANGED << input, next, batch, code, request >>
  PROVE  Inv'
<1>1. /\ fields' = fields /\ void' = void /\ regular' = regular /\ next' = next
      /\ batch' = batch /\ code' = code /\ request' = request
  BY DEF input
<1>2. TypeOK'
  BY <1>1 DEF Inv, IInv, TypeOK
<1>3. CodeInv'
  BY <1>1 DEF Inv, IInv, CodeInv
<1>4. RunInv'
  BY <1>1 DEF RunInv
<1>5. RefusesExactly'
  BY <1>1 DEF RefusesExactly
<1> QED
  BY <1>1, <1>2, <1>3, <1>4, <1>5 DEF Inv, IInv, NothingLost, WholeUnits, MethodsAsNamed

\* What a statement other than a loop writes comes after what is there.
LEMMA Appended ==
  ASSUME Inv, status = "run", code[pc].op \notin Tuples,
         NEW u \in Seq(Triples), Ordered(u),
         \A e \in Elements(u) : e[1] >= code[pc].n
  PROVE  /\ buf \o u \in Seq(Triples) /\ Ordered(buf \o u)
         /\ Elements(buf \o u) = Wire(fields, code[pc].n - 1) \union Elements(u)
<1>1. /\ buf \in Seq(Triples) /\ Ordered(buf) /\ code[pc].n \in Nat \ {0}
      /\ Elements(buf) = Wire(fields, code[pc].n - 1)
  BY Running
<1>2. ASSUME NEW e \in Elements(u) PROVE e[1] \in Nat
  <2>1. PICK k \in 1 .. Len(u) : e = u[k]
    BY DEF Elements
  <2>2. e \in Triples
    BY <2>1, ElementOfSeq
  <2>3. Len(fields) \in Nat
    BY FieldTypes
  <2> QED BY <2>2, <2>3 DEF Triples
<1>3. ASSUME NEW x \in Elements(buf), NEW y \in Elements(u) PROVE Before(x, y)
  <2>1. x[1] \in 1 .. code[pc].n - 1
    BY <1>1, WireFields
  <2>2. y[1] \in Nat /\ y[1] >= code[pc].n
    BY <1>2
  <2> QED BY <1>1, <2>1, <2>2 DEF Before
<1>4. Ordered(buf \o u)
  BY <1>1, <1>3, OrderedConcat
<1>5. Elements(buf \o u) = Elements(buf) \union Elements(u)
  BY <1>1, ElementsConcat
<1> QED BY <1>1, <1>4, <1>5, ConcatProperties

\* The fields that waited are packed, or one of their numbers is out of range.
LEMMA PackKeeps == ASSUME Inv, DoPack PROVE Inv'
<1> DEFINE items == code[pc].batch
           n == code[pc].n
           u == [k \in 1 .. Len(items) |-> Unit(items[k], 1)]
<1>1. status = "run" /\ code[pc].op = "pack" /\ taken' = taken /\ pc' = pc + 1
      /\ UNCHANGED << input, next, batch, code, request >>
  BY DEF DoPack, At, Write
<1>2. /\ pc \in 1 .. Len(code) /\ pc + 1 \in 1 .. Len(code) + 1
      /\ n \in Nat \ {0} /\ taken = 0
      /\ items \in Seq(Nat) /\ Len(items) \in Nat /\ Stands(fields, items, n)
      /\ After(code[pc]) = n + Len(items)
  <2>1. pc \in 1 .. Len(code) /\ Len(code) \in Nat /\ code[pc] \in Statements
        /\ n \in Nat \ {0} /\ taken = 0 /\ Fitting(fields, code[pc])
    BY <1>1, Running DEF Tuples
  <2>2. items \in Seq(Nat) /\ Stands(fields, items, n) /\ After(code[pc]) = n + Len(items)
    BY <1>1, <2>1 DEF Statements, Fitting, After
  <2> QED BY <2>1, <2>2, LenProperties
<1>3. \A k \in 1 .. Len(items) :
        /\ items[k] = n + k - 1 /\ items[k] \in 1 .. Len(fields)
        /\ fields[items[k]].kind \in Batched
  BY <1>2 DEF Stands
<1> DEFINE ok == \A k \in 1 .. Len(items) :
                   fields[items[k]].kind = "simple" => fields[items[k]].fits
<1>4. IF ok THEN buf' = buf \o u /\ status' = status
            ELSE status' = "raised" /\ buf' = buf
  BY DEF DoPack, Write
<1>5. CASE ~ok
  <2>1. PICK k \in 1 .. Len(items) :
          fields[items[k]].kind = "simple" /\ ~fields[items[k]].fits
    BY <1>5
  <2>2. items[k] \in 1 .. Len(fields) /\ Unfit(fields[items[k]])
    BY <1>3, <2>1 DEF Unfit, OutOfRange
  <2> HIDE DEF items, u, ok
  <2> QED BY <1>1, <1>2, <1>4, <1>5, <2>2, Refused
<1>6. CASE ok
  <2>1. \A k \in 1 .. Len(items) :
          u[k] = << items[k], 1, fields[items[k]].size >> /\ u[k] \in Triples
    <3> SUFFICES ASSUME NEW k \in 1 .. Len(items)
                 PROVE  << items[k], 1, fields[items[k]].size >> \in Triples
      BY DEF Unit
    <3>1. items[k] \in 1 .. Len(fields) /\ fields[items[k]].size \in Nat \ {0}
      BY <1>3, FieldTypes
    <3> HIDE DEF items
    <3>2. 1 \in Nat \ {0}
      OBVIOUS
    <3> QED BY <3>1, <3>2, IsTriple, Zenon
  <2>2. u \in Seq(Triples) /\ Len(u) = Len(items)
    <3>1. u \in [1 .. Len(items) -> Triples]
      BY <2>1
    <3> HIDE DEF u
    <3> QED BY <1>2, <3>1, FunctionsAreSequences
  <2> HIDE DEF u
  <2>3. Elements(u) = { << items[k], 1, fields[items[k]].size >> : k \in 1 .. Len(items) }
    BY <2>1, <2>2 DEF Elements
  <2>4. Ordered(u)
    <3> SUFFICES ASSUME NEW j \in 1 .. Len(items), NEW k \in 1 .. Len(items), j < k
                 PROVE  Before(u[j], u[k])
      BY <2>2 DEF Ordered
    <3>1. items[j] < items[k]
      BY <1>2, <1>3
    <3>2. u[j][1] = items[j] /\ u[k][1] = items[k]
      BY <2>1
    <3> QED BY <3>1, <3>2 DEF Before
  <2>5. \A e \in Elements(u) : e[1] >= n
    <3> SUFFICES ASSUME NEW k \in 1 .. Len(items)
                 PROVE  items[k] >= n
      BY <2>3
    <3>1. items[k] = n + k - 1 /\ k \in 1 .. Len(items)
      BY <1>3
    <3> HIDE DEF items
    <3> QED BY <1>2, <3>1
  <2>6. /\ buf \o u \in Seq(Triples) /\ Ordered(buf \o u)
        /\ Elements(buf \o u) = Wire(fields, n - 1) \union Elements(u)
    BY <1>1, <2>2, <2>4, <2>5, Appended DEF Tuples
  <2>7. Elements(buf \o u) = Wire(fields, After(code[pc]) - 1)
    <3>1. Wire(fields, n + Len(items) - 1) =
            Wire(fields, n - 1)
              \union { << items[k], 1, fields[items[k]].size >> : k \in 1 .. Len(items) }
      BY <1>2, WireBatch
    <3>2. After(code[pc]) - 1 = n + Len(items) - 1
      BY <1>2
    <3> HIDE DEF n, items
    <3> QED BY <2>3, <2>6, <3>1, <3>2
  <2>8. \A i \in n .. After(code[pc]) - 1 : ~Unfit(fields[i])
    <3> SUFFICES ASSUME NEW i \in n .. After(code[pc]) - 1 PROVE ~Unfit(fields[i])
      OBVIOUS
    <3> DEFINE k == i - n + 1
    <3> HIDE DEF n, items
    <3>1. k \in 1 .. Len(items) /\ n + k - 1 = i
      BY <1>2
    <3> HIDE DEF k
    <3>3. items[k] = i
      BY <1>3, <3>1
    <3>2. fields[i].kind \in Batched /\ (fields[i].kind = "simple" => fields[i].fits)
      BY <1>3, <1>6, <3>1, <3>3
    <3> QED BY <3>2 DEF Unfit, OutOfRange, Ungrouped, NestedList, Batched, Tuples
  <2>9. code[pc].op # "send" /\ status' = "run" /\ buf' = buf \o u /\ taken' = 0
    BY <1>1, <1>2, <1>4, <1>6
  <2> HIDE DEF items, n, ok
  <2> QED BY <1>1, <2>6, <2>7, <2>8, <2>9, MovesOn DEF n
<1> QED BY <1>4, <1>5, <1>6

\* A number the method computes is written.
LEMMA ExprKeeps == ASSUME Inv, DoExpr PROVE Inv'
<1> DEFINE n == code[pc].n
           e == Unit(n, 1)
<1>1. /\ status = "run" /\ code[pc].op = "expr" /\ taken' = taken /\ pc' = pc + 1
      /\ IF fields[n].fits THEN buf' = buf \o << e >> /\ status' = status
         ELSE status' = "raised" /\ buf' = buf
      /\ UNCHANGED << input, next, batch, code, request >>
  BY DEF DoExpr, At, Write
<1>2. /\ n \in 1 .. Len(fields) /\ n \in Nat \ {0} /\ fields[n].kind = "expr"
      /\ taken = 0 /\ After(code[pc]) = n + 1 /\ pc + 1 \in 1 .. Len(code) + 1
  <2>1. Fitting(fields, code[pc]) /\ taken = 0 /\ n \in Nat \ {0}
        /\ pc \in 1 .. Len(code) /\ Len(code) \in Nat
    BY <1>1, Running DEF Tuples
  <2> QED BY <1>1, <2>1 DEF Fitting, After
<1>3. e = << n, 1, fields[n].size >> /\ << e >> \in Seq(Triples)
  <2>1. fields[n].size \in Nat \ {0}
    BY <1>2, FieldTypes
  <2>2. e \in Triples
    BY <1>2, <2>1 DEF Unit, Triples
  <2> QED BY <2>2 DEF Unit
<1> HIDE DEF e
<1>4. Elements(<< e >>) = {e} /\ Ordered(<< e >>)
  BY SmallBuffers
<1>5. \A d \in Elements(<< e >>) : d[1] >= n
  <2>1. e[1] = n
    BY <1>3
  <2> QED BY <1>2, <1>4, <2>1
<1>6. /\ buf \o << e >> \in Seq(Triples) /\ Ordered(buf \o << e >>)
      /\ Elements(buf \o << e >>) = Wire(fields, n - 1) \union {e}
  BY <1>1, <1>3, <1>4, <1>5, Appended DEF Tuples
<1>7. Wire(fields, n) = Wire(fields, n - 1) \union {e}
  <2>1. Written(fields[n]) = 1
    BY <1>2 DEF Written, Tuples
  <2>2. Part(fields, n, 1) = {e}
    BY <1>3 DEF Part
  <2> QED BY <1>2, <2>1, <2>2, WireNext
<1>8. CASE ~fields[n].fits
  <2>1. Unfit(fields[n])
    BY <1>2, <1>8 DEF Unfit, OutOfRange
  <2>2. status' = "raised" /\ buf' = buf /\ taken' \in Nat
    BY <1>1, <1>2, <1>8
  <2> QED BY <1>1, <1>2, <2>1, <2>2, Refused
<1>9. CASE fields[n].fits
  <2>1. \A i \in n .. n : ~Unfit(fields[i])
    BY <1>2, <1>9 DEF Unfit, OutOfRange, Ungrouped, NestedList, Tuples
  <2>2. After(code[pc]) - 1 = n /\ code[pc].op # "send" /\ status' = "run" /\ taken' = 0
    BY <1>1, <1>2, <1>9
  <2>3. \A i \in code[pc].n .. After(code[pc]) - 1 : ~Unfit(fields[i])
    BY <2>1, <2>2
  <2>4. buf' \in Seq(Triples) /\ Ordered(buf') /\ Elements(buf') = Wire(fields, After(code[pc]) - 1)
    BY <1>1, <1>6, <1>7, <1>9, <2>2
  <2> HIDE DEF n
  <2> QED BY <1>1, <2>2, <2>3, <2>4, MovesOn
<1> QED BY <1>8, <1>9

\* A list of numbers is written, or array.array refuses it.
LEMMA ArrayKeeps == ASSUME Inv, DoArray PROVE Inv'
<1> DEFINE n == code[pc].n
           f == fields[n]
           u == [k \in 1 .. f.items |-> Unit(n, k)]
<1>1. /\ status = "run" /\ code[pc].op = "array" /\ taken' = taken /\ pc' = pc + 1
      /\ IF f.fits /\ ~f.nested THEN buf' = buf \o u /\ status' = status
         ELSE status' = "raised" /\ buf' = buf
      /\ UNCHANGED << input, next, batch, code, request >>
  BY DEF DoArray, At, Write
<1>2. /\ n \in 1 .. Len(fields) /\ n \in Nat \ {0} /\ f.kind = "array"
      /\ taken = 0 /\ After(code[pc]) = n + 1 /\ pc + 1 \in 1 .. Len(code) + 1
      /\ f.items \in Nat /\ f.size \in Nat \ {0}
  <2>1. Fitting(fields, code[pc]) /\ taken = 0 /\ n \in Nat \ {0}
        /\ pc \in 1 .. Len(code) /\ Len(code) \in Nat
    BY <1>1, Running DEF Tuples
  <2>2. n \in 1 .. Len(fields) /\ f.kind = "array" /\ After(code[pc]) = n + 1
    BY <1>1, <2>1 DEF Fitting, After
  <2> QED BY <2>1, <2>2, FieldTypes
<1>3. CASE ~(f.fits /\ ~f.nested)
  <2>1. Unfit(f)
    BY <1>2, <1>3 DEF Unfit, OutOfRange, NestedList
  <2>2. status' = "raised" /\ buf' = buf /\ taken' \in Nat
    BY <1>1, <1>2, <1>3
  <2> HIDE DEF u
  <2> QED BY <1>1, <1>2, <2>1, <2>2, Refused
<1>4. CASE f.fits /\ ~f.nested
  <2>1. \A k \in 1 .. f.items : u[k] = << n, k, f.size >> /\ u[k] \in Triples
    <3> SUFFICES ASSUME NEW k \in 1 .. f.items PROVE << n, k, f.size >> \in Triples
      BY DEF Unit
    <3>1. k \in Nat \ {0}
      OBVIOUS
    <3> QED BY <1>2, <3>1, IsTriple
  <2>2. u \in Seq(Triples) /\ Len(u) = f.items
    <3>1. u \in [1 .. f.items -> Triples] /\ f.items \in Nat
      BY <1>2, <2>1
    <3> HIDE DEF u, f
    <3> QED BY <3>1, FunctionsAreSequences
  <2>3. status' = "run" /\ buf' = buf \o u /\ taken' = 0 /\ code[pc].op # "send"
    BY <1>1, <1>2, <1>4
  <2> HIDE DEF u
  <2>4. Elements(u) = Part(fields, n, f.items)
    BY <2>1, <2>2 DEF Elements, Part
  <2>5. Ordered(u)
    <3> SUFFICES ASSUME NEW j \in 1 .. f.items, NEW k \in 1 .. f.items, j < k
                 PROVE  Before(u[j], u[k])
      BY <2>2 DEF Ordered
    <3>1. u[j][1] = n /\ u[k][1] = n /\ u[j][2] = j /\ u[k][2] = k
      BY <2>1
    <3> QED BY <3>1 DEF Before
  <2>6. \A e \in Elements(u) : e[1] >= n
    BY <1>2, <2>4 DEF Part
  <2>7. /\ buf \o u \in Seq(Triples) /\ Ordered(buf \o u)
        /\ Elements(buf \o u) = Wire(fields, n - 1) \union Elements(u)
    BY <1>1, <2>2, <2>5, <2>6, Appended DEF Tuples
  <2>8. Wire(fields, n) = Wire(fields, n - 1) \union Elements(u)
    <3>1. Written(f) = f.items
      BY <1>2 DEF Written, Tuples
    <3> QED BY <1>2, <2>4, <3>1, WireNext
  <2>9. \A i \in n .. n : ~Unfit(fields[i])
    BY <1>2, <1>4 DEF Unfit, OutOfRange, Ungrouped, NestedList, Tuples
  <2>10. After(code[pc]) - 1 = n
    BY <1>2
  <2>11. \A i \in code[pc].n .. After(code[pc]) - 1 : ~Unfit(fields[i])
    BY <2>9, <2>10
  <2>12. buf' \in Seq(Triples) /\ Ordered(buf') /\ Elements(buf') = Wire(fields, After(code[pc]) - 1)
    BY <2>3, <2>7, <2>8, <2>10
  <2>13. /\ status = "run" /\ pc' = pc + 1
         /\ UNCHANGED << input, next, batch, code, request >>
    BY <1>1
  <2> HIDE DEF n, f
  <2> QED BY <2>3, <2>11, <2>12, <2>13, MovesOn
<1> QED BY <1>3, <1>4

-----------------------------------------------------------------------------
(* The loop over the Iterator.                                             *)

\* Multiples of the number of items a structure takes.
LEMMA Multiples ==
  ASSUME NEW g \in Nat \ {0}, NEW t \in Nat
  PROVE  /\ t * g \in Nat /\ (t * g) \div g = t /\ (t * g) % g = 0
         /\ t * g + g = (t + 1) * g /\ (t + 1) * g >= t + 1
         /\ \A m \in Nat : t * g < m /\ m - t * g < g => m % g # 0
<1>1. t * g \in Nat /\ t * g + g = (t + 1) * g
  OBVIOUS
<1>2. (t * g) \div g = t /\ (t * g) % g = 0
  OBVIOUS
<1>3. (t + 1) * g >= t + 1
  OBVIOUS
<1>4. \A k \in 0 .. g - 1 : (t * g + k) % g = k
  OBVIOUS
<1>5. ASSUME NEW m \in Nat, t * g < m, m - t * g < g PROVE m % g # 0
  <2> DEFINE k == m - t * g
  <2>1. k \in 1 .. g - 1 /\ m = t * g + k
    BY <1>1, <1>5
  <2> HIDE DEF k
  <2>2. k \in 0 .. g - 1 /\ k # 0
    BY <2>1
  <2> QED BY <1>4, <2>1, <2>2
<1> QED BY <1>1, <1>2, <1>3, <1>5

\* What the method knows in a loop: how many structures it has packed.
LEMMA InLoop ==
  ASSUME Inv, status = "run", code[pc].op \in Tuples
  PROVE  LET n == code[pc].n
             f == fields[n]
         IN  /\ n \in 1 .. Len(fields) /\ n \in Nat \ {0}
             /\ f \in Fields /\ f.kind \in Tuples /\ f.items \in Nat
             /\ f.fits \in BOOLEAN /\ f.size \in Nat \ {0}
             /\ code[pc].op # "send" /\ After(code[pc]) = n + 1
             /\ Varies(f) => FormatLen(f) = -1
             /\ ~Varies(f) => FormatLen(f) = Numbers(f) /\ Numbers(f) \in Nat \ {0}
             /\ \E t \in Nat :
                  /\ Elements(buf) = Wire(fields, n - 1) \union Part(fields, n, t)
                  /\ IF t = 0 THEN taken = 0
                     ELSE /\ f.fits /\ FormatLen(f) > 0
                          /\ taken = t * FormatLen(f) /\ taken <= f.items
<1> DEFINE n == code[pc].n
           f == fields[n]
<1>1. /\ n \in 1 .. Len(fields) /\ n \in Nat \ {0} /\ f.kind \in Tuples
      /\ code[pc].op # "send" /\ After(code[pc]) = n + 1
  <2>1. Fitting(fields, code[pc]) /\ n \in Nat \ {0}
    BY Running
  <2>2. code[pc].op # "send" /\ code[pc].op # "pack"
    BY DEF Tuples
  <2> QED BY <2>1, <2>2 DEF Fitting, After
<1>2. /\ f \in Fields /\ f.items \in Nat /\ f.fits \in BOOLEAN /\ f.size \in Nat \ {0}
      /\ fields \in Calls
  BY <1>1, FieldTypes DEF Inv
<1>3. \E k \in 1 .. Len(f.inner) : f.inner[k] # 0
  BY <1>1, <1>2, ConstantsAssumption
<1> HIDE DEF f
<1>4. /\ Varies(f) => FormatLen(f) = -1
      /\ ~Varies(f) => FormatLen(f) = Numbers(f) /\ Numbers(f) \in Nat \ {0}
  BY <1>2, <1>3, GroupSize
<1>5. \E t \in Nat :
        /\ Elements(buf) = Wire(fields, n - 1) \union Part(fields, n, t)
        /\ IF t = 0 THEN taken = 0
           ELSE /\ f.fits /\ FormatLen(f) > 0
                /\ taken = t * FormatLen(f) /\ taken <= f.items
  <2>1. \/ taken = 0 /\ Elements(buf) = Wire(fields, n - 1)
        \/ /\ f.fits /\ FormatLen(f) > 0
           /\ \E t \in 1 .. f.items :
                /\ taken = t * FormatLen(f) /\ taken <= f.items
                /\ Elements(buf) = Wire(fields, n - 1) \union Part(fields, n, t)
    BY DEF Inv, IInv, RunInv, f
  <2>2. CASE taken = 0 /\ Elements(buf) = Wire(fields, n - 1)
    <3>1. Part(fields, n, 0) = {}
      BY DEF Part
    <3> HIDE DEF n
    <3>2. Elements(buf) = Wire(fields, n - 1) \union Part(fields, n, 0)
      BY <2>2, <3>1
    <3> QED BY <2>2, <3>2
  <2>3. CASE /\ f.fits /\ FormatLen(f) > 0
             /\ \E t \in 1 .. f.items :
                  /\ taken = t * FormatLen(f) /\ taken <= f.items
                  /\ Elements(buf) = Wire(fields, n - 1) \union Part(fields, n, t)
    <3>1. PICK t \in 1 .. f.items :
            /\ taken = t * FormatLen(f) /\ taken <= f.items
            /\ Elements(buf) = Wire(fields, n - 1) \union Part(fields, n, t)
      BY <2>3
    <3>2. t \in Nat /\ t # 0
      BY <1>2
    <3> QED BY <2>3, <3>1, <3>2
  <2> QED BY <2>1, <2>2, <2>3
<1> QED BY <1>1, <1>2, <1>4, <1>5 DEF f

\* The method packs a structure, or meets one it cannot pack.
LEMMA TupleKeeps == ASSUME Inv, DoTuple PROVE Inv'
<1> DEFINE n == code[pc].n
           f == fields[n]
           group == FormatLen(f)
           e == Unit(n, (taken \div group) + 1)
           ok == group > 0 /\ ~Incomplete(f) /\ f.fits
<1>1. /\ status = "run" /\ code[pc].op \in Tuples /\ pc' = pc
      /\ f.items > taken \/ group < 0 \/ ~f.fits
      /\ IF ok THEN buf' = buf \o << e >> /\ status' = status
         ELSE status' = "raised" /\ buf' = buf
      /\ taken' = IF status' = "raised" THEN taken ELSE taken + group
      /\ UNCHANGED << input, next, batch, code, request >>
  BY DEF DoTuple, At, Write
<1> HIDE DEF e
<1>2. /\ n \in 1 .. Len(fields) /\ n \in Nat \ {0}
      /\ f \in Fields /\ f.kind \in Tuples /\ f.items \in Nat
      /\ f.fits \in BOOLEAN /\ f.size \in Nat \ {0}
      /\ Varies(f) => group = -1
      /\ ~Varies(f) => group = Numbers(f) /\ Numbers(f) \in Nat \ {0}
  BY <1>1, InLoop
<1>3. PICK t \in Nat :
        /\ Elements(buf) = Wire(fields, n - 1) \union Part(fields, n, t)
        /\ IF t = 0 THEN taken = 0
           ELSE f.fits /\ group > 0 /\ taken = t * group /\ taken <= f.items
  BY <1>1, InLoop
<1>4. /\ pc \in 1 .. Len(code) /\ Len(code) \in Nat /\ taken \in Nat
      /\ buf \in Seq(Triples) /\ Ordered(buf)
  BY <1>1, Running
<1>5. ~Varies(f) => taken = t * group
  <2>1. 0 * Numbers(f) = 0 \/ Varies(f)
    BY <1>2
  <2> HIDE DEF group, f
  <2> QED BY <1>2, <1>3, <2>1
<1>6. CASE ~ok
  <2>1. Unfit(f)
    <3>1. CASE Varies(f)
      BY <1>2, <3>1 DEF Unfit, Ungrouped
    <3>2. CASE ~f.fits
      BY <1>2, <3>2 DEF Unfit, OutOfRange, Tuples
    <3>3. CASE ~Varies(f) /\ f.fits
      <4>1. Incomplete(f)
        BY <1>2, <1>6, <3>3
      <4>2. taken < f.items /\ f.items - taken < group
        BY <4>1 DEF Incomplete
      <4>3. f.items % group # 0
        <5> HIDE DEF group, f
        <5> QED BY <1>2, <1>5, <3>3, <4>2, Multiples
      <4> QED BY <1>2, <3>3, <4>3 DEF Unfit, Ungrouped
    <3> QED BY <1>2, <3>1, <3>2, <3>3
  <2>2. status' = "raised" /\ buf' = buf /\ taken' = taken
    BY <1>1, <1>6
  <2>3. pc' \in 1 .. Len(code) + 1
    BY <1>1, <1>4
  <2> HIDE DEF ok, group
  <2> QED BY <1>1, <1>2, <1>4, <2>1, <2>2, <2>3, Refused
<1>7. CASE ok
  <2>1. /\ ~Varies(f) /\ group \in Nat \ {0} /\ group = Numbers(f)
        /\ f.fits /\ status' = "run" /\ buf' = buf \o << e >>
        /\ taken' = taken + group /\ f.items > taken /\ ~Incomplete(f)
    <3>1. ~Varies(f) /\ group \in Nat \ {0} /\ group = Numbers(f)
      BY <1>2, <1>7
    <3>2. f.fits /\ ~Incomplete(f) /\ status' = "run" /\ buf' = buf \o << e >>
      BY <1>1, <1>7
    <3> HIDE DEF ok
    <3>3. taken' = taken + group /\ f.items > taken
      BY <1>1, <3>1, <3>2
    <3> QED BY <3>1, <3>2, <3>3
  <2>2. taken = t * group /\ f.items >= taken + group
    <3>1. ~(taken < f.items /\ f.items - taken < group)
      BY <2>1 DEF Incomplete
    <3> HIDE DEF group, f
    <3>2. f.items > taken /\ taken \in Nat /\ f.items \in Nat /\ group \in Nat
      BY <1>2, <1>4, <2>1
    <3>3. \A m, x, g \in Nat : m > x /\ ~(x < m /\ m - x < g) => m >= x + g
      OBVIOUS
    <3>4. f.items >= taken + group
      BY <3>1, <3>2, <3>3
    <3> QED BY <1>5, <2>1, <3>4
  <2> HIDE DEF ok
  <2>3. /\ taken' = (t + 1) * group /\ taken' \in Nat /\ taken' <= f.items
        /\ t + 1 \in 1 .. f.items /\ (taken \div group) + 1 = t + 1
    <3> HIDE DEF group, f
    <3>1. /\ (t * group) \div group = t /\ t * group + group = (t + 1) * group
          /\ t * group \in Nat /\ (t + 1) * group >= t + 1
      BY <2>1, Multiples
    <3>2. taken + group = (t + 1) * group
      BY <2>2, <3>1
    <3>3. taken + group \in Nat /\ taken + group <= f.items
      <4>1. taken \in Nat /\ group \in Nat /\ f.items \in Nat
        BY <1>2, <1>4, <2>1
      <4>2. f.items >= taken + group
        BY <2>2
      <4> QED BY <4>1, <4>2
    <3>4. taken' = (t + 1) * group /\ taken' \in Nat /\ taken' <= f.items
      BY <2>1, <3>2, <3>3
    <3>5. t + 1 <= f.items
      <4>1. \A x, y, z \in Int : x >= y /\ x <= z => y <= z
        OBVIOUS
      <4> QED BY <1>2, <3>1, <3>4, <4>1
    <3>6. (taken \div group) + 1 = t + 1
      BY <2>2, <3>1
    <3> QED BY <1>2, <3>4, <3>5, <3>6
  <2>4. e = << n, t + 1, f.size >>
    BY <2>3 DEF e, Unit
  <2>5. << e >> \in Seq(Triples)
    <3>1. e \in Triples
      BY <1>2, <2>4 DEF Triples
    <3> QED BY <3>1
  <2> HIDE DEF group, f, n
  <2>6. Elements(<< e >>) = {e} /\ Ordered(<< e >>)
    BY SmallBuffers
  <2>7. \A x \in Elements(buf) : Before(x, e)
    <3> SUFFICES ASSUME NEW x \in Elements(buf) PROVE Before(x, e)
      OBVIOUS
    <3>1. e[1] = n /\ e[2] = t + 1
      BY <2>4
    <3>2. CASE x \in Wire(fields, n - 1)
      <4>1. x[1] \in 1 .. n - 1
        BY <1>2, <3>2, WireFields
      <4> QED BY <1>2, <3>1, <4>1 DEF Before
    <3>3. CASE x \in Part(fields, n, t)
      <4>1. PICK k \in 1 .. t : x = << n, k, fields[n].size >>
        BY <3>3 DEF Part
      <4> QED BY <3>1, <4>1 DEF Before
    <3> QED BY <1>3, <3>2, <3>3
  <2>8. buf' \in Seq(Triples) /\ Ordered(buf')
    BY <1>4, <2>1, <2>5, <2>6, <2>7, OrderedConcat, ConcatProperties
  <2>9. Elements(buf') = Wire(fields, n - 1) \union Part(fields, n, t + 1)
    <3>1. Elements(buf') = Elements(buf) \union {e}
      <4>1. Elements(buf \o << e >>) = Elements(buf) \union Elements(<< e >>)
        <5>1. \A s, u \in Seq(Triples) :
                Elements(s \o u) = Elements(s) \union Elements(u)
          BY ElementsConcat
        <5> QED BY <1>4, <2>5, <5>1, Zenon
      <4> QED BY <2>1, <2>6, <4>1
    <3>2. Part(fields, n, t + 1) = Part(fields, n, t) \union {e}
      <4>1. 1 .. t + 1 = (1 .. t) \union {t + 1}
        OBVIOUS
      <4> QED BY <2>4, <4>1 DEF Part, f
    <3> QED BY <1>3, <3>1, <3>2
  <2>10. /\ fields' = fields /\ void' = void /\ regular' = regular /\ next' = next
         /\ batch' = batch /\ code' = code /\ request' = request /\ pc' = pc
    BY <1>1 DEF input
  <2>11. TypeOK'
    BY <1>1, <2>1, <2>3, <2>8, <2>10 DEF Inv, IInv, TypeOK, Triples
  <2>12. CodeInv'
    BY <1>1, <2>1, <2>10 DEF Inv, IInv, CodeInv
  <2>13. RunInv'
    <3>1. /\ fields[n].fits /\ FormatLen(fields[n]) > 0
          /\ taken' = (t + 1) * FormatLen(fields[n]) /\ taken' <= fields[n].items
          /\ t + 1 \in 1 .. fields[n].items
      BY <2>1, <2>3 DEF f, group
    <3>2. \A i \in 1 .. n - 1 : ~Unfit(fields[i])
      BY <1>1 DEF Inv, IInv, RunInv, n
    <3>3. pc <= Len(code)
      BY <1>4
    <3> QED BY <1>1, <2>1, <2>8, <2>9, <2>10, <3>1, <3>2, <3>3 DEF RunInv, n
  <2> QED
    BY <2>1, <2>10, <2>11, <2>12, <2>13
       DEF Inv, IInv, NothingLost, WholeUnits, RefusesExactly, MethodsAsNamed
<1> QED BY <1>6, <1>7

\* The loop ends when every number is packed.
LEMMA EndTuplesKeeps == ASSUME Inv, EndTuples PROVE Inv'
<1> DEFINE n == code[pc].n
           f == fields[n]
           group == FormatLen(f)
<1>1. /\ status = "run" /\ code[pc].op \in Tuples
      /\ group > 0 /\ f.items <= taken /\ f.fits
      /\ pc' = pc + 1 /\ taken' = 0 /\ buf' = buf /\ status' = status
      /\ UNCHANGED << input, next, batch, code, request >>
  BY DEF EndTuples, At
<1>2. /\ n \in 1 .. Len(fields) /\ n \in Nat \ {0}
      /\ f \in Fields /\ f.kind \in Tuples /\ f.items \in Nat /\ f.fits \in BOOLEAN
      /\ code[pc].op # "send" /\ After(code[pc]) = n + 1
      /\ ~Varies(f) /\ group = Numbers(f) /\ group \in Nat \ {0}
  BY <1>1, InLoop
<1>3. PICK t \in Nat :
        /\ Elements(buf) = Wire(fields, n - 1) \union Part(fields, n, t)
        /\ IF t = 0 THEN taken = 0
           ELSE f.fits /\ group > 0 /\ taken = t * group /\ taken <= f.items
  BY <1>1, InLoop
<1> HIDE DEF group
<1>4. f.items = t * group
  <2>1. CASE t = 0
    <3>1. f.items = 0 /\ 0 * group = 0
      BY <1>1, <1>2, <1>3, <2>1
    <3> QED BY <2>1, <3>1
  <2>2. CASE t # 0
    <3>1. f.items <= taken /\ taken <= f.items
      BY <1>1, <1>3, <2>2
    <3>2. taken \in Nat /\ f.items \in Nat
      BY <1>1, <1>2, Running
    <3> HIDE DEF f
    <3>3. taken = f.items
      BY <3>1, <3>2
    <3> QED BY <1>3, <2>2, <3>3
  <2> QED BY <2>1, <2>2
<1>5. f.items % group = 0 /\ f.items \div group = t
  <2> HIDE DEF f
  <2>1. (t * group) \div group = t /\ (t * group) % group = 0
    BY <1>2, Multiples
  <2> QED BY <1>4, <2>1
<1>6. ~Unfit(f)
  BY <1>1, <1>2, <1>5 DEF Unfit, OutOfRange, Ungrouped, NestedList, Tuples
<1>7. Written(f) = t
  BY <1>2, <1>5 DEF Written, Tuples
<1>8. Elements(buf) = Wire(fields, n)
  BY <1>2, <1>3, <1>7, WireNext
<1>9. After(code[pc]) - 1 = n /\ \A i \in n .. n : ~Unfit(fields[i])
  BY <1>2, <1>6
<1>10. buf' \in Seq(Triples) /\ Ordered(buf')
  BY <1>1, Running
<1>11. Elements(buf') = Wire(fields, After(code[pc]) - 1) /\ status' = "run"
  BY <1>1, <1>8, <1>9
<1>12. \A i \in code[pc].n .. After(code[pc]) - 1 : ~Unfit(fields[i])
  BY <1>9
<1> QED BY <1>1, <1>2, <1>10, <1>11, <1>12, MovesOn

-----------------------------------------------------------------------------
(* The request is sent.                                                    *)

\* The opcode, the byte after it and the length are in the buffer, in that order,
\* so it is never too short for libxcb.
LEMMA HeaderThere ==
  ASSUME Inv, buf \in Seq(Triples), Ordered(buf),
         Elements(buf) = Wire(fields, Len(fields))
  PROVE  LET size == SumOf([i \in 1 .. Len(buf) |-> buf[i][3]])
         IN  size \in Nat /\ size >= 4
<1> DEFINE sizes == [i \in 1 .. Len(buf) |-> buf[i][3]]
<1>1. Len(buf) \in Nat /\ \A i \in 1 .. Len(buf) : buf[i] \in Triples
  BY ElementOfSeq, LenProperties
<1>2. \A i \in 1 .. Len(buf) : buf[i][1] \in Nat /\ buf[i][2] \in Nat /\ buf[i][3] \in Nat
  <2>1. Len(fields) \in Nat
    BY FieldTypes
  <2> QED BY <1>1, <2>1, TripleParts
<1>3. sizes \in Seq(Nat) /\ Len(sizes) = Len(buf)
  <2>1. sizes \in [1 .. Len(buf) -> Nat]
    BY <1>2
  <2> HIDE DEF sizes
  <2> QED BY <1>1, <2>1, FunctionsAreSequences
<1>4. \A i \in 1 .. Len(buf) : sizes[i] = buf[i][3]
  OBVIOUS
<1>5. /\ Len(fields) \in Nat /\ Len(fields) >= 3
      /\ fields[1].kind \in Batched /\ fields[2].kind \in Batched
      /\ fields[3].kind \in Batched
      /\ fields[1].size = 1 /\ fields[2].size = 1 /\ fields[3].size = 2
  BY FieldTypes, HeaderAssumption DEF Inv
<1>6. \A i \in 1 .. 3 : << i, 1, fields[i].size >> \in Elements(buf)
  <2> SUFFICES ASSUME NEW i \in 1 .. 3
               PROVE  << i, 1, fields[i].size >> \in Wire(fields, Len(fields))
    OBVIOUS
  <2>1. fields[i].kind \in Batched
    BY <1>5
  <2>2. Written(fields[i]) = 1
    BY <2>1 DEF Written, Batched, Tuples
  <2>3. << i, 1, fields[i].size >> \in Part(fields, i, 1)
    BY DEF Part
  <2>4. i \in 1 .. Len(fields)
    BY <1>5
  <2> QED BY <2>2, <2>3, <2>4 DEF Wire
<1>7. PICK a \in 1 .. Len(buf) : << 1, 1, 1 >> = buf[a]
  BY <1>5, <1>6 DEF Elements
<1>8. PICK b \in 1 .. Len(buf) : << 2, 1, 1 >> = buf[b]
  BY <1>5, <1>6 DEF Elements
<1>9. PICK c \in 1 .. Len(buf) : << 3, 1, 2 >> = buf[c]
  BY <1>5, <1>6 DEF Elements
<1>10. ASSUME NEW i \in 1 .. Len(buf), NEW j \in 1 .. Len(buf), buf[i][1] < buf[j][1]
       PROVE  i < j
  <2>1. CASE j < i
    <3>1. Before(buf[j], buf[i])
      BY <2>1 DEF Ordered
    <3> QED BY <1>2, <1>10, <3>1 DEF Before
  <2>2. CASE j = i
    BY <1>2, <1>10, <2>2
  <2> QED BY <1>1, <2>1, <2>2
<1>11. /\ buf[a][1] = 1 /\ buf[b][1] = 2 /\ buf[c][1] = 3
       /\ buf[a][3] = 1 /\ buf[b][3] = 1 /\ buf[c][3] = 2
  BY <1>7, <1>8, <1>9
<1>12. a < b /\ b < c
  BY <1>10, <1>11
<1> HIDE DEF sizes
<1>13. SumOf(sizes) \in Nat /\ SumOf(sizes) >= sizes[a] + sizes[b] + sizes[c]
  BY <1>3, <1>12, SumBounds
<1>14. sizes[a] = 1 /\ sizes[b] = 1 /\ sizes[c] = 2
  BY <1>4, <1>11
<1>15. SumOf(sizes) \in Nat /\ SumOf(sizes) >= 4
  BY <1>13, <1>14
<1> QED BY <1>15 DEF sizes

\* Zeros fill the buffer up to a multiple of four.
LEMMA PaddingFills ==
  ASSUME NEW size \in Nat
  PROVE  Padding(size) \in 0 .. 3 /\ (size + Padding(size)) % 4 = 0
<1>1. (-size) % 4 \in 0 .. 3 /\ (size + ((-size) % 4)) % 4 = 0
  OBVIOUS
<1> QED BY <1>1 DEF Padding

\* What the wire holds of one field.
LEMMA WireOf ==
  ASSUME NEW fs, NEW n \in Nat, NEW i \in 1 .. n
  PROVE  { x \in Wire(fs, n) : x[1] = i } = Part(fs, i, Written(fs[i]))
<1>1. ASSUME NEW x \in Part(fs, i, Written(fs[i])) PROVE x \in Wire(fs, n) /\ x[1] = i
  BY DEF Wire, Part
<1>2. ASSUME NEW x \in Wire(fs, n), x[1] = i PROVE x \in Part(fs, i, Written(fs[i]))
  <2>1. PICK j \in 1 .. n : x \in Part(fs, j, Written(fs[j]))
    BY DEF Wire
  <2>2. x[1] = j
    BY <2>1 DEF Part
  <2> QED BY <1>2, <2>1, <2>2
<1> QED BY <1>1, <1>2

\* A structure whose argument has the numbers of one is written once.
LEMMA WrittenOnce ==
  ASSUME Inv, NEW i \in 1 .. Len(fields), ~Unfit(fields[i]), Counted(fields[i])
  PROVE  Written(fields[i]) = ItemsOf(fields[i])
<1> DEFINE f == fields[i]
<1>1. CASE f.kind # "struct"
  BY <1>1 DEF Written, ItemsOf, Tuples
<1>2. CASE f.kind = "struct"
  <2>1. f \in Fields /\ f.kind \in Tuples /\ fields \in Calls
    BY <1>2, FieldTypes DEF Inv, Tuples
  <2>2. \E k \in 1 .. Len(f.inner) : f.inner[k] # 0
    BY <2>1, ConstantsAssumption
  <2>3. ~Varies(f) /\ f.items = Numbers(f)
    BY <1>2, <2>1 DEF Unfit, Ungrouped, Counted
  <2> HIDE DEF f
  <2>4. Numbers(f) \in Nat \ {0}
    BY <2>1, <2>2, <2>3, GroupSize
  <2>5. \A m \in Nat \ {0} : m \div m = 1
    OBVIOUS
  <2>6. Written(f) = 1 /\ ItemsOf(f) = 1
    BY <1>2, <2>3, <2>4, <2>5 DEF Written, ItemsOf, Tuples, f
  <2> QED BY <2>6 DEF f
<1> QED BY <1>1, <1>2

\* What libxcb is given is the whole request.
LEMMA SendKeeps == ASSUME Inv, Send PROVE Inv'
<1> DEFINE size == SumOf([i \in 1 .. Len(buf) |-> buf[i][3]])
<1>1. /\ status = "run" /\ code[pc].op = "send" /\ pc' = pc + 1
      /\ IF TooShort(size)
         THEN status' = "raised" /\ request' = request
         ELSE /\ status' = "sent"
              /\ request' = [isvoid |-> void, checked |-> Checked, padding |-> Padding(size)]
      /\ UNCHANGED << input, next, batch, code, taken, buf >>
  BY DEF Send, At
<1> HIDE DEF size
<1>2. /\ fields' = fields /\ void' = void /\ regular' = regular /\ next' = next
      /\ batch' = batch /\ code' = code /\ taken' = taken /\ buf' = buf
  BY <1>1 DEF input
<1>3. /\ pc \in 1 .. Len(code) /\ Len(code) \in Nat /\ code[pc].n = Len(fields) + 1
      /\ buf \in Seq(Triples) /\ Ordered(buf)
      /\ Elements(buf) = Wire(fields, code[pc].n - 1)
  BY <1>1, Running DEF Fitting, Tuples
<1>4. Len(fields) \in Nat /\ code[pc].n - 1 = Len(fields)
  BY <1>3, FieldTypes
<1>5. Elements(buf) = Wire(fields, Len(fields))
  BY <1>3, <1>4
<1>6. size \in Nat /\ size >= 4
  BY <1>3, <1>5, HeaderThere DEF size
<1>7. /\ status' = "sent"
      /\ request' = [isvoid |-> void, checked |-> Checked, padding |-> Padding(size)]
  BY <1>1, <1>6 DEF TooShort
<1>8. Padding(size) \in 0 .. 3 /\ (size + Padding(size)) % 4 = 0
  BY <1>6, PaddingFills
<1>9. void \in BOOLEAN /\ regular \in BOOLEAN /\ Checked \in BOOLEAN
  BY DEF Inv, IInv, TypeOK, Checked
<1>10. /\ request'.isvoid = void /\ request'.checked = Checked
       /\ request'.padding = Padding(size)
  BY <1>7
<1>11. TypeOK'
  <2>1. request' \in [isvoid : BOOLEAN, checked : BOOLEAN, padding : -1 .. 3]
    BY <1>7, <1>8, <1>9
  <2> QED BY <1>1, <1>2, <1>3, <1>7, <2>1 DEF Inv, IInv, TypeOK
<1>12. CodeInv'
  BY <1>1, <1>2, <1>7 DEF Inv, IInv, CodeInv
<1>13. RunInv'
  BY <1>7 DEF RunInv
<1>14. NothingLost'
  <2>1. ASSUME NEW i \in 1 .. Len(fields), Counted(fields[i])
        PROVE  { x \in Elements(buf) : x[1] = i } = Part(fields, i, ItemsOf(fields[i]))
    <3>1. \A j \in 1 .. code[pc].n - 1 : ~Unfit(fields[j])
      BY <1>1 DEF Inv, IInv, RunInv
    <3>2. Written(fields[i]) = ItemsOf(fields[i])
      BY <1>4, <2>1, <3>1, WrittenOnce
    <3> QED BY <1>4, <1>5, <3>2, WireOf
  <2> QED BY <1>2, <1>3, <2>1 DEF NothingLost
<1>15. WholeUnits'
  <2>1. size = SumOf([i \in 1 .. Len(buf') |-> buf'[i][3]])
    BY <1>2 DEF size
  <2> QED BY <1>8, <1>10, <2>1 DEF WholeUnits
<1>16. RefusesExactly'
  <2>1. \A i \in 1 .. code[pc].n - 1 : ~Unfit(fields[i])
    BY <1>1 DEF Inv, IInv, RunInv
  <2> QED BY <1>2, <1>4, <1>7, <2>1 DEF RefusesExactly
<1>17. MethodsAsNamed'
  <2>1. /\ ~request'.isvoid <=> ~void'
        /\ (request'.isvoid /\ request'.checked) <=> (void' /\ ~regular')
        /\ ~request'.checked <=> (void' <=> regular')
    BY <1>2, <1>9, <1>10, Zenon DEF Checked
  <2> QED BY <2>1 DEF MethodsAsNamed
<1> QED
  BY <1>2, <1>11, <1>12, <1>13, <1>14, <1>15, <1>16, <1>17 DEF Inv, IInv

-----------------------------------------------------------------------------
(* The theorems.                                                           *)

\* Before the first field is looked at.
LEMMA InitHolds == Init => Inv
<1> SUFFICES ASSUME Init PROVE Inv
  OBVIOUS
<1>1. /\ fields \in Calls /\ void \in BOOLEAN /\ regular \in BOOLEAN
      /\ next = 1 /\ batch = << >> /\ code = << >>
      /\ pc = 1 /\ taken = 0 /\ buf = << >> /\ status = "generate" /\ request = None
  BY DEF Init
<1>2. fields \in Seq(Fields) /\ Len(fields) \in Nat
  BY <1>1, ConstantsAssumption, LenProperties
<1>3. Len(<< >>) = 0 /\ \A S : << >> \in Seq(S)
  OBVIOUS
<1>4. None \in [isvoid : BOOLEAN, checked : BOOLEAN, padding : -1 .. 3]
  BY DEF None
<1>5. TypeOK
  BY <1>1, <1>2, <1>3, <1>4 DEF TypeOK
<1>6. CodeInv
  BY <1>1, <1>3 DEF CodeInv, Chain, Upto, Stands
<1>7. RunInv
  BY <1>1 DEF RunInv
<1> QED
  BY <1>1, <1>5, <1>6, <1>7
     DEF Inv, IInv, NothingLost, WholeUnits, RefusesExactly, MethodsAsNamed

\* Every step keeps the invariant.
LEMMA StepKeeps == Inv /\ [Next]_vars => Inv'
<1> SUFFICES ASSUME Inv, [Next]_vars PROVE Inv'
  OBVIOUS
<1>1. CASE GenerateBatched
  BY <1>1, BatchedKeeps
<1>2. CASE GenerateWrite
  BY <1>2, WriteKeeps
<1>3. CASE GenerateEnd
  BY <1>3, GeneratedKeeps
<1>4. CASE DoPack
  BY <1>4, PackKeeps
<1>5. CASE DoExpr
  BY <1>5, ExprKeeps
<1>6. CASE DoArray
  BY <1>6, ArrayKeeps
<1>7. CASE DoTuple
  BY <1>7, TupleKeeps
<1>8. CASE EndTuples
  BY <1>8, EndTuplesKeeps
<1>9. CASE Send
  BY <1>9, SendKeeps
<1>10. CASE UNCHANGED vars
  BY <1>10
     DEF vars, Inv, IInv, TypeOK, CodeInv, RunInv, NothingLost, WholeUnits,
         RefusesExactly, MethodsAsNamed, Checked
<1> QED
  BY <1>1, <1>2, <1>3, <1>4, <1>5, <1>6, <1>7, <1>8, <1>9, <1>10 DEF Next

\* At every step, of the generator and of the method it generates, the statements
\* cover the fields taken so far without gap or overlap, and the buffer holds
\* exactly what the statements before the present one write.
THEOREM Inductive == Spec => []IInv
<1>1. Inv => IInv
  BY DEF Inv
<1> QED BY <1>1, InitHolds, StepKeeps, PTL DEF Spec

\* Every variable has its type.
THEOREM TypeCorrect == Spec => []TypeOK
<1>1. IInv => TypeOK
  BY DEF IInv
<1> QED BY <1>1, Inductive, PTL

\* A request that is sent holds every field and every item of its arguments once,
\* in the order of the description, whatever the description is: the fields that
\* wait are never overtaken or left behind.  It says nothing of a structure whose
\* argument is empty or as long as several: none, or several, are sent.
THEOREM EverythingWritten == Spec => []NothingLost
<1>1. IInv => NothingLost
  BY DEF IInv
<1> QED BY <1>1, Inductive, PTL

\* send_request gives libxcb a multiple of four bytes, with at most three of padding.
THEOREM UnitsWhole == Spec => []WholeUnits
<1>1. IInv => WholeUnits
  BY DEF IInv
<1> QED BY <1>1, Inductive, PTL

\* The method raises only for an argument it cannot pack, and sends nothing if
\* there is one, even if it is a later one in a loop.
THEOREM RefusedExactly == Spec => []RefusesExactly
<1>1. IInv => RefusesExactly
  BY DEF IInv
<1> QED BY <1>1, Inductive, PTL

\* Plain, Checked and Unchecked methods give the Cookie the rights in their names.
THEOREM FlagsAsNamed == Spec => []MethodsAsNamed
<1>1. IInv => MethodsAsNamed
  BY DEF IInv
<1> QED BY <1>1, Inductive, PTL
=============================================================================
