---------------------------- MODULE RegularLayout ----------------------------
(***************************************************************************)
(* Layout for the descriptions the generator is made for, and the          *)
(* inductive invariant that shows it right for them.                       *)
(***************************************************************************)
EXTENDS Layout

\* Descriptions have the sizes, the padding and the order of fields that the
\* descriptions of the protocol have.
ASSUME RegularAssumption ==
  \A d \in Descriptions : \A b \in StartsAt(d.shape) : Regular(d.fields, d.shape, b)

-----------------------------------------------------------------------------
(* The value of the variable offset before each statement c of a           *)
(* constructor, and after the last.                                        *)

Moves(fs, s, at) ==
  CASE s.op = "add"    -> s.n
    [] s.op = "align"  -> TypePad(s.n, at)
    [] s.op = "addlen" -> Bytes(fs[s.n])
    [] OTHER           -> 0

Offsets(fs, b, c) ==
  LET at[p \in 1 .. Len(c) + 1] ==
        IF p = 1 THEN b ELSE at[p - 1] + Moves(fs, c[p - 1], at[p - 1])
  IN  at

-----------------------------------------------------------------------------
(* The code.                                                               *)

Span(s, e) == [k \in 1 .. e - s + 1 |-> s + k - 1]

\* The fields s .. e are a whole run up to e, and wait in items.
Waits(fs, items, s, e) ==
  /\ s \in 1 .. Len(fs) + 1 /\ e \in s - 1 .. Len(fs)
  /\ items = Span(s, e)
  /\ Run(fs, s, e) /\ StartsRun(fs, s)

\* Statement s, executed with the variable offset at at, finds its fields there.
Fits(fs, sh, b, s, at) ==
  CASE s.op = "unpack" ->
         /\ sh # "union"
         /\ \E i, e \in 1 .. Len(fs) :
              i <= e /\ Waits(fs, s.batch, i, e) /\ at = WireAt(fs, b, i)
    [] s.op = "object" ->
         /\ IsObject(fs[s.n])
         /\ at = IF sh = "union" THEN b ELSE WireAt(fs, b, s.n)
    [] s.op = "member" -> sh = "union" /\ ~IsObject(fs[s.n]) /\ at = b
    [] s.op = "align"  -> sh # "union" /\ s.n > 0
    [] OTHER           -> sh # "union"

\* The length of a list or structure is added when it has been read.
LengthsAdded(c) ==
  \A p \in 1 .. Len(c) : c[p].op = "addlen" =>
    p > 1 /\ c[p - 1].op = "object" /\ c[p - 1].n = c[p].n

\* Statement s reads field i.
Covers(s, i) ==
  \/ s.op = "unpack" /\ \E k \in 1 .. Len(s.batch) : s.batch[k] = i
  \/ s.op \in { "object", "member" } /\ s.n = i

IsAttribute(f) == f.kind \notin { "auto", "pad" }

\* The attributes among the first n fields are read.
Covered(fs, c, n) ==
  \A i \in 1 .. n : IsAttribute(fs[i]) => \E p \in 1 .. Len(c) : Covers(c[p], i)

\* Numbers are read before the lists that may need them.
NumbersFirst(fs, sh, c) ==
  sh # "union" =>
    \A p \in 1 .. Len(c) : c[p].op = "object" =>
      \A i \in 1 .. c[p].n - 1 : fs[i].kind = "simple" =>
        \E q \in 1 .. p - 1 : Covers(c[q], i)

Sound(fs, sh, b, c) ==
  /\ \A p \in 1 .. Len(c) : Fits(fs, sh, b, c[p], Offsets(fs, b, c)[p])
  /\ LengthsAdded(c)
  /\ NumbersFirst(fs, sh, c)

\* Where the last list or nested structure before field s ends.
EndBefore(fs, b, s) ==
  IF s = 1 THEN b ELSE WireAt(fs, b, s - 1) + Bytes(fs[s - 1])

-----------------------------------------------------------------------------
(* The inductive invariant.                                                *)

InputInv == WellFormed(fields) /\ Regular(fields, shape, base)

\* While fields are taken: what was generated covers the fields that do not wait
\* and ends where the last list or nested structure does.
GeneratorInv ==
  status = "generate" =>
    /\ pc = 1 /\ offset = base /\ cut = -1 /\ reads = {}
    /\ shape = "union" =>
         /\ batch = << >> /\ Covered(fields, code, next - 1)
         /\ Offsets(fields, base, code)[Len(code) + 1] = base
    /\ shape # "union" =>
         LET s == next - Len(batch) IN
           /\ Waits(fields, batch, s, next - 1)
           /\ align = \E i \in 1 .. next - 1 : IsObject(fields[i])
           /\ Covered(fields, code, s - 1)
           /\ Offsets(fields, base, code)[Len(code) + 1] = EndBefore(fields, base, s)
           /\ code # << >> => code[Len(code)].op = "addlen"

CodeInv ==
  /\ Sound(fields, shape, base, code)
  /\ status # "generate" =>
       /\ Covered(fields, code, N)
       /\ shape = "struct" /\ ~FixedSize =>
            Offsets(fields, base, code)[Len(code) + 1] = DataLen

\* What statement s leaves behind.
Executed(s) ==
  /\ \A i \in 1 .. N : Covers(s, i) /\ IsAttribute(fields[i]) =>
       \A e \in 1 .. (IF fields[i].kind = "list" THEN Len(fields[i].elements) ELSE 1) :
         \E r \in reads : r.field = i /\ r.element = e
  /\ s.op \in { "object", "member" } => objlen[s.n] = Bytes(fields[s.n])

RunInv ==
  /\ offset = Offsets(fields, base, code)[pc]
  /\ \A p \in 1 .. pc - 1 : Executed(code[p])
  /\ \A r \in reads : r.at = ElementAt(r.field, r.element)
  /\ status = "done" => pc = Len(code) + 1

IInv ==
  /\ TypeOK /\ InputInv /\ GeneratorInv /\ CodeInv /\ RunInv
  /\ NeverRaises /\ SizeRight
=============================================================================
