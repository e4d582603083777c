------------------------------- MODULE Layout -------------------------------
(***************************************************************************)
(* Where the objects xpyb builds from the bytes of a response find their   *)
(* fields.  py_client.py generates a constructor from the description of a *)
(* reply, event, error or structure (_py_complex), or of a union           *)
(* (py_union); the constructor walks the bytes with struct.unpack_from,    *)
(* xcb.type_pad (module.c), xcb.List (list.c) and the constructors of      *)
(* nested structures, and a structure or union of variable size is cut to  *)
(* what it used (xcb._resize_obj).                                         *)
(*                                                                         *)
(* First the generator takes the fields one by one and emits statements,   *)
(* then the constructor executes them on a message.  A description carries *)
(* the lengths its lists have in that message; values are left out, except *)
(* that a length must have been read when a list needs it.                 *)
(***************************************************************************)
EXTENDS Integers, Sequences, FiniteSetsExt, Sums

CONSTANTS
  Descriptions,   \* the descriptions, each with the message it is read from
  Bases           \* the offsets at which objects start in their message

\* What is described; an event or an error is laid out like a structure and is not
\* cut to size.
Shapes == { "struct", "union", "reply", "event" }

\* auto and pad: size bytes that are skipped.  simple: a number of size bytes.
\* list: elements of the given sizes, all equal to size unless it is -1, whose
\* number is constant (len = 0) or the value of field len.  fixed and var: a
\* nested structure, which takes size bytes.
Kinds == { "auto", "pad", "simple", "list", "fixed", "var" }

\* Replies and events start where their message does.
StartsAt(sh) == IF sh \in { "reply", "event" } THEN Bases \intersect {0} ELSE Bases

Field == [kind : Kinds, size : Int, len : Nat, elements : Seq(Nat)]

\* A list comes after its length, and its elements have the size it gives.
WellFormed(fs) ==
  \A i \in 1 .. Len(fs) :
    /\ fs[i].len < i
    /\ fs[i].kind = "list" /\ fs[i].size > 0 =>
         \A e \in 1 .. Len(fs[i].elements) : fs[i].elements[e] = fs[i].size

ASSUME ConstantsAssumption ==
  /\ Bases \subseteq Nat
  /\ Descriptions \subseteq [fields : Seq(Field), shape : Shapes]
  /\ \A d \in Descriptions : WellFormed(d.fields)

VARIABLES
  fields,      \* the description
  shape,       \* what they describe
  base,        \* where the object starts
  next,        \* generator: the next field
  batch,       \* generator: _py_fmt_fmt, the fields that wait to be unpacked
  align,       \* generator: need_alignment
  code,        \* the statements of the constructor
  pc,          \* constructor: the next statement
  offset,      \* constructor: the variable offset
  cut,         \* constructor: the size the object is cut to, -1 if to none
  objlen,      \* constructor: the length of each list and nested structure
  reads,       \* (history) [field, element, at] of everything read
  status

vars == << fields, shape, base, next, batch, align, code, pc, offset, cut,
           objlen, reads, status >>
input == << fields, shape, base >>

N == Len(fields)

IsObject(f) == f.kind \in { "list", "fixed", "var" }

FixedSize ==
  \A i \in 1 .. N : \/ fields[i].kind \in { "auto", "pad", "simple", "fixed" }
                    \/ fields[i].kind = "list" /\ fields[i].len = 0
                         /\ fields[i].size > 0

\* The bytes a field takes in the message.
Bytes(f) == IF f.kind = "list" THEN SumOf(f.elements) ELSE f.size

\* A statement, with the field or the number it is about or the batch it unpacks.
Statement(n) ==
  { s \in [op : { "unpack", "add", "align", "object", "member", "addlen" },
           n : Nat, batch : Seq(Nat)] :
      s.op \in { "object", "member", "addlen" } => s.n \in 1 .. n }

TypeOK ==
  /\ fields \in Seq(Field)
  /\ shape \in Shapes
  /\ base \in Bases /\ offset >= base
  /\ next \in 1 .. N + 1
  /\ batch \in Seq(1 .. next - 1)
  /\ align \in BOOLEAN
  /\ code \in Seq(Statement(N))
  /\ pc \in 1 .. Len(code) + 1
  /\ cut \in Nat \union {-1}
  /\ objlen \in [1 .. N -> Nat]
  /\ \A r \in reads : r.field \in 1 .. N /\ r.at >= base
  /\ status \in { "generate", "run", "done", "raised" }
  /\ status # "generate" => batch = << >>

Init ==
  /\ \E d \in Descriptions : fields = d.fields /\ shape = d.shape
  /\ base \in StartsAt(shape)
  /\ next = 1 /\ batch = << >> /\ align = FALSE /\ code = << >>
  /\ pc = 1 /\ offset = base /\ cut = -1
  /\ objlen = [i \in 1 .. N |-> 0]
  /\ reads = {}
  /\ status = "generate"

-----------------------------------------------------------------------------
(* The generator: _py_complex.                                             *)

HasNames == \E i \in 1 .. Len(batch) : fields[batch[i]].kind = "simple"
Size  == SumOf([i \in 1 .. Len(batch) |-> fields[batch[i]].size])

Stmt(op, n)   == << [op |-> op, n |-> n, batch |-> << >>] >>
Unpack        == << [op |-> "unpack", n |-> 0, batch |-> batch] >>
When(c, s)    == IF c THEN s ELSE << >>

\* _py_push_format and _py_push_pad.
GenerateFixed ==
  /\ status = "generate" /\ next <= N
  /\ ~IsObject(fields[next]) /\ shape # "union"
  /\ batch' = Append(batch, next)
  /\ next' = next + 1
  /\ UNCHANGED << input, align, code, pc, offset, cut, objlen, reads, status >>

FaultyFlush == UNCHANGED batch

\* _py_flush_format starts a new batch.
Flush == batch' = << >>

\* _py_type_alignsize.
AlignSize(f) == IF f.kind = "var" \/ f.size < 0 THEN 4 ELSE f.size

\* A list or a nested structure: what is waiting is unpacked before it.
GenerateObject ==
  /\ status = "generate" /\ next <= N
  /\ IsObject(fields[next]) /\ shape # "union"
  /\ code' = code \o When(HasNames, Unpack)
                  \o When(Size > 0, Stmt("add", Size))
                  \o When(align, Stmt("align", AlignSize(fields[next])))
                  \o Stmt("object", next)
                  \o Stmt("addlen", next)
  /\ Flush
  /\ align' = TRUE
  /\ next' = next + 1
  /\ UNCHANGED << input, pc, offset, cut, objlen, reads, status >>

\* py_union: every field is read at the start.
GenerateMember ==
  /\ status = "generate" /\ next <= N
  /\ shape = "union"
  /\ code' = code \o Stmt(IF IsObject(fields[next]) THEN "object" ELSE "member", next)
  /\ next' = next + 1
  /\ UNCHANGED << input, batch, align, pc, offset, cut, objlen, reads, status >>

FaultyPopsLast == TRUE

\* The last addition to offset is dropped where nobody will look at it.
PopsLast ==
  /\ FixedSize \/ shape = "reply"
  /\ shape # "union"
  /\ \E i \in 1 .. N : fields[i].kind \notin { "auto", "pad" }

GenerateEnd ==
  /\ status = "generate" /\ next = N + 1
  /\ LET all == code \o When(HasNames /\ align, Stmt("align", 4))
                     \o When(HasNames, Unpack)
                     \o When(HasNames, Stmt("add", Size))
     IN  code' = IF PopsLast THEN SubSeq(all, 1, Len(all) - 1) ELSE all
  /\ Flush
  /\ status' = "run"
  /\ UNCHANGED << input, next, align, pc, offset, cut, objlen, reads >>

-----------------------------------------------------------------------------
(* The constructor.                                                        *)

At(op) == status = "run" /\ pc <= Len(code) /\ code[pc].op = op
Done(i) == pc' = i + 1 /\ UNCHANGED << input, next, batch, align, code >>

\* The two low bits of x, masked with m.
And(x, m) ==
  (IF m % 2 = 1 THEN x % 2 ELSE 0) + (IF m >= 2 THEN 2 * ((x % 4) \div 2) ELSE 0)

FaultyTypePad(t, i) == And(i, IF t > 4 THEN 3 ELSE t - 1)

\* xpyb_type_pad: -i & (t > 4 ? 3 : t - 1).
TypePad(t, i) == And(-i, IF t > 4 THEN 3 ELSE t - 1)

Read(i, e, at) == [field |-> i, element |-> e, at |-> at]

AlignUp(x, t) == x + ((-x) % t)

\* The alignment of field i on the wire.  What comes before the first list or
\* nested structure is laid out by its pads alone; from then on a list or nested
\* structure has its own alignment, at most 4, and numbers that follow one start
\* at a multiple of 4.
Unit(fs, i) ==
  IF \A j \in 1 .. i - 1 : ~IsObject(fs[j]) THEN 1
  ELSE IF i <= Len(fs) /\ IsObject(fs[i])
       THEN IF AlignSize(fs[i]) > 4 THEN 4 ELSE AlignSize(fs[i])
  ELSE IF /\ IsObject(fs[i - 1])
          /\ \E j \in i .. Len(fs) : /\ fs[j].kind = "simple"
                                    /\ \A k \in i .. j : ~IsObject(fs[k])
       THEN 4 ELSE 1

\* The positions on the wire of the fields of an object at b, and of its end.
WirePositions(fs, b) ==
  LET at[j \in 1 .. Len(fs) + 1] ==
        IF j = 1 THEN b
        ELSE AlignUp(at[j - 1] + Bytes(fs[j - 1]), Unit(fs, j))
  IN  at

WireAt(fs, b, i) == WirePositions(fs, b)[i]

\* The largest member of a union.
Largest(fs) == Max({0} \union { Bytes(fs[i]) : i \in 1 .. Len(fs) })

\* The message ends with the object that is described.
DataLen ==
  IF shape = "union" THEN base + Largest(fields) ELSE WireAt(fields, base, N + 1)

\* struct.unpack_from with native alignment: the places of the items of a format,
\* and of its end, counted from the start of the format.
Native(fs, items) ==
  LET at[j \in 1 .. Len(items) + 1] ==
        IF j = 1 THEN 0
        ELSE LET end == at[j - 1] + fs[items[j - 1]].size
             IN  IF j <= Len(items) /\ fs[items[j]].kind = "simple"
                 THEN AlignUp(end, fs[items[j]].size) ELSE end
  IN  at

DoUnpack ==
  /\ At("unpack")
  /\ LET items == code[pc].batch IN
       reads' = reads \union
         { Read(items[k], 1, offset + Native(fields, items)[k]) :
             k \in { j \in 1 .. Len(items) : fields[items[j]].kind = "simple" } }
  /\ status' = IF offset + Native(fields, code[pc].batch)[Len(code[pc].batch) + 1]
                    > DataLen
               THEN "raised" ELSE status
  /\ Done(pc)
  /\ UNCHANGED << offset, cut, objlen >>

DoAdd ==
  /\ At("add")
  /\ offset' = offset + code[pc].n
  /\ Done(pc)
  /\ UNCHANGED << cut, objlen, reads, status >>

DoAlign ==
  /\ At("align")
  /\ offset' = offset + TypePad(code[pc].n, offset)
  /\ Done(pc)
  /\ UNCHANGED << cut, objlen, reads, status >>

FaultyTooShort(f) == f.size > 0 /\ Len(f.elements) * f.size + offset >= DataLen

\* xpybList_init checks what it can when the elements have one size.
TooShort(f) == f.size > 0 /\ Len(f.elements) * f.size + offset > DataLen

\* The number of elements is an attribute that has been set.
LengthKnown(f) == f.len = 0 \/ \E r \in reads : r.field = f.len

\* xpybList_init: elements lie one behind the other, each as long as size says
\* or, without a size, as its own object turns out to be.
DoList ==
  /\ At("object")
  /\ LET i == code[pc].n
         f == fields[i]
         cur(e) == offset + SumOf(SubSeq(f.elements, 1, e - 1))
     IN  /\ f.kind = "list"
         /\ IF TooShort(f) \/ ~LengthKnown(f)
            THEN status' = "raised" /\ UNCHANGED << objlen, reads >>
            ELSE /\ reads' = reads \union
                      { Read(i, e, cur(e)) :
                          e \in 1 .. Len(f.elements) }
                 /\ objlen' = [objlen EXCEPT ![i] =
                                 cur(Len(f.elements) + 1) - offset]
                 /\ UNCHANGED status
  /\ Done(pc)
  /\ UNCHANGED << offset, cut >>

\* The constructor of a nested structure, which does to its part of the message
\* what this one does to the whole.
DoStruct ==
  /\ At("object")
  /\ LET i == code[pc].n
         f == fields[i]
     IN  /\ f.kind \in { "fixed", "var" }
         /\ reads' = reads \union { Read(i, 1, offset) }
         /\ objlen' = [objlen EXCEPT ![i] = f.size]
         /\ status' = IF offset + f.size > DataLen THEN "raised" ELSE status
  /\ Done(pc)
  /\ UNCHANGED << offset, cut >>

\* A number in a union.
DoMember ==
  /\ At("member")
  /\ LET i == code[pc].n IN
       /\ reads' = reads \union { Read(i, 1, offset) }
       /\ objlen' = [objlen EXCEPT ![i] = fields[i].size]
  /\ Done(pc)
  /\ UNCHANGED << offset, cut, status >>

DoAddLen ==
  /\ At("addlen")
  /\ offset' = offset + objlen[code[pc].n]
  /\ Done(pc)
  /\ UNCHANGED << cut, objlen, reads, status >>

\* What the constructor has used: for a union, the size of the longest member.
Used ==
  IF shape = "union" THEN Max({0} \union { objlen[i] : i \in 1 .. N })
  ELSE offset - base

\* The constructor ends; what is of variable size and has something behind it is
\* resized.
Finish ==
  /\ status = "run" /\ pc = Len(code) + 1
  /\ status' = "done"
  /\ cut' = IF FixedSize \/ shape \in { "reply", "event" } THEN -1 ELSE Used
  /\ UNCHANGED << input, next, batch, align, code, pc, offset, objlen, reads >>

Next ==
  \/ GenerateFixed \/ GenerateObject \/ GenerateMember \/ GenerateEnd
  \/ DoUnpack \/ DoAdd \/ DoAlign \/ DoList \/ DoStruct \/ DoMember \/ DoAddLen
  \/ Finish

Spec == Init /\ [][Next]_vars

-----------------------------------------------------------------------------
(* Properties.                                                             *)

\* Where an element of a field is on the wire.
ElementAt(i, e) ==
  (IF shape = "union" THEN base ELSE WireAt(fields, base, i))
    + (IF fields[i].kind = "list" THEN SumOf(SubSeq(fields[i].elements, 1, e - 1)) ELSE 0)

\* Every attribute is read from the bytes of its field, although fields are
\* unpacked in batches and lists shift what follows them; when the constructor
\* is through, no field and no list element has been left out.
ReadsRight ==
  /\ \A r \in reads : r.at = ElementAt(r.field, r.element)
  /\ status = "done" =>
       \A i \in 1 .. N : fields[i].kind \notin { "auto", "pad" } =>
         \A e \in 1 .. (IF fields[i].kind = "list" THEN Len(fields[i].elements) ELSE 1) :
           \E r \in reads : r.field = i /\ r.element = e

\* The size a structure or union of variable size is cut to is the size it has
\* on the wire, on which the position of what follows it depends.
SizeRight ==
  status = "done" /\ ~FixedSize /\ shape \in { "struct", "union" } =>
    base + cut = DataLen

\* A constructor never fails on a message that holds exactly what is described.
NeverRaises == status # "raised"

\* XcbPythonBinding.txt:79: "Reply, event, and error objects have attributes
\* corresponding to each structure field."  So a number is read from where its
\* field is, and that does not depend on what follows it in the description.
AttributesCorrespond ==
  \A r \in reads : r.at = ElementAt(r.field, r.element)

-----------------------------------------------------------------------------
(* The descriptions the generator is made for.                             *)

\* Fields s .. e are neither lists nor nested structures: they wait together.
Run(fs, s, e) == \A k \in s .. e : ~IsObject(fs[k])
StartsRun(fs, s) == s = 1 \/ IsObject(fs[s - 1])

Sizes(fs) == PartialSums([k \in 1 .. Len(fs) |-> fs[k].size])

\* Sizes are those of the protocol.  An object of 3 bytes has no alignment, and
\* the length of a list is a number.
Usual(fs) ==
  \A i \in 1 .. Len(fs) :
    /\ fs[i].kind \in { "auto", "pad", "var" } => fs[i].size >= 0
    /\ fs[i].kind = "simple" => fs[i].size \in { 1, 2, 4, 8 }
    /\ fs[i].kind = "fixed" => fs[i].size > 0 /\ fs[i].size # 3
    /\ fs[i].kind = "list" =>
         /\ fs[i].size = -1 \/ (fs[i].size > 0 /\ fs[i].size # 3)
         /\ fs[i].len > 0 => fs[fs[i].len].kind = "simple"

\* A number is at a multiple of its size, counted from the start of its run.
Natural(fs) ==
  \A s, i \in 1 .. Len(fs) :
    s <= i /\ Run(fs, s, i) /\ StartsRun(fs, s) /\ fs[i].kind = "simple" =>
      (Sizes(fs)[i - 1] - Sizes(fs)[s - 1]) % fs[i].size = 0

\* No padding has to be inserted before numbers that stand between lists.
Padded(fs, b) ==
  \A i \in 2 .. Len(fs) :
    IsObject(fs[i - 1]) /\ (\E k \in i .. Len(fs) : IsObject(fs[k])) /\ ~IsObject(fs[i]) =>
      WireAt(fs, b, i) = WireAt(fs, b, i - 1) + Bytes(fs[i - 1])

\* A structure of variable size does not end in padding.
NoTrail(fs) ==
  \/ fs = << >>
  \/ fs[Len(fs)].kind \notin { "auto", "pad" }
  \/ \A i \in 1 .. Len(fs) : ~IsObject(fs[i])

Regular(fs, sh, b) ==
  /\ Usual(fs)
  /\ sh = "union" => \A i \in 1 .. Len(fs) :
                       fs[i].kind \notin { "auto", "pad" } /\ fs[i].len = 0
  /\ sh # "union" => Natural(fs) /\ Padded(fs, b)
  /\ sh = "struct" => NoTrail(fs)
=============================================================================
