------------------------------ MODULE Marshal ------------------------------
(***************************************************************************)
(* How a request gets from the arguments of a Python call to libxcb.       *)
(* py_client.py generates two methods for each request in the description  *)
(* (py_request, _py_request_helper); a method packs its arguments into a   *)
(* buffer, makes an xcb.Request of it (request.c) and passes that to       *)
(* send_request (ext.c), which fills it up to whole units of four bytes.   *)
(*                                                                         *)
(* First the generator takes the fields one by one and emits statements,   *)
(* then the method executes them.  A description carries the arguments of  *)
(* one call: how many items there are and whether they can be packed.      *)
(* Values are left out.  The loop over xcb.Iterator takes tuples from a    *)
(* TupleSource, which is what FlatIter shows the Iterator to be.           *)
(***************************************************************************)
EXTENDS Integers, Sequences, Sums

CONSTANT Calls   \* descriptions of requests, each with the arguments of a call

\* auto and pad: size bytes of zeros, of which the auto ones are libxcb's to fill.
\* simple: a number of size bytes.  expr: a number the method computes.
\* array: a list of numbers.  struct: a structure of size bytes; structs: a list
\* of them.
Batched == { "auto", "pad", "simple" }
Tuples  == { "struct", "structs" }
Kinds   == Batched \union Tuples \union { "expr", "array" }

\* items: how many numbers the argument has, all nesting removed; nested: it
\* contains sequences; fits: it is a number or a sequence, as is wanted, and every
\* number in it (or computed from it) is in the range of its format; inner gives
\* for each field of a structure the numbers it is packed from: 0 for padding, n
\* for a list of n, -1 if it varies.
Fields == [ kind : Kinds, size : Nat \ {0}, items : Nat, nested : BOOLEAN,
            fits : BOOLEAN, inner : Seq(Nat \union {-1}) ]

\* A structure has a field besides padding.
ASSUME ConstantsAssumption ==
  \A fs \in Calls :
    /\ fs \in Seq(Fields)
    /\ \A i \in 1 .. Len(fs) : fs[i].kind \in Tuples =>
         \E k \in 1 .. Len(fs[i].inner) : fs[i].inner[k] # 0

\* Every request begins with its opcode, a byte of its own and its length.
ASSUME HeaderAssumption ==
  \A fs \in Calls :
    /\ Len(fs) >= 3
    /\ fs[1].kind \in Batched /\ fs[2].kind \in Batched /\ fs[3].kind \in Batched
    /\ fs[1].size = 1 /\ fs[2].size = 1 /\ fs[3].size = 2

VARIABLES
  fields,      \* the fields of the request, with the arguments
  void,        \* it has no reply
  regular,     \* the method with the name of the request, not the second one
  next,        \* generator: the next field
  batch,       \* generator: _py_fmt_fmt, the fields that wait to be packed
  code,        \* the statements of the method
  pc,          \* method: the next statement
  taken,       \* method: numbers the Iterator in use has handed out
  buf,         \* method: what is in the buffer, << field, item, size >> each
  status,
  request      \* what libxcb is given: flags and padding

vars == << fields, void, regular, next, batch, code, pc, taken, buf, status, request >>
input == << fields, void, regular >>

None == [isvoid |-> FALSE, checked |-> FALSE, padding |-> -1]

\* The statements of a method: the first field it writes, and those that wait.
Statements ==
  [ op : (Kinds \ Batched) \union { "pack", "send" }, n : Nat, batch : Seq(Nat) ]

TypeOK ==
  /\ fields \in Seq(Fields)
  /\ void \in BOOLEAN /\ regular \in BOOLEAN
  /\ next \in 1 .. Len(fields) + 1
  /\ batch \in Seq(1 .. next - 1)
  /\ status # "generate" => batch = << >>
  /\ code \in Seq(Statements)
  /\ pc \in 1 .. Len(code) + 1
  /\ taken \in Nat
  /\ buf \in Seq((1 .. Len(fields)) \X (Nat \ {0}) \X (Nat \ {0}))
  /\ status \in { "generate", "run", "raised", "sent" }
  /\ request \in [isvoid : BOOLEAN, checked : BOOLEAN, padding : -1 .. 3]

Init ==
  /\ fields \in Calls
  /\ void \in BOOLEAN /\ regular \in BOOLEAN
  /\ next = 1 /\ batch = << >> /\ code = << >>
  /\ pc = 1 /\ taken = 0 /\ buf = << >>
  /\ status = "generate"
  /\ request = None

-----------------------------------------------------------------------------
(* Helpers.  A definition named Faulty... is a plausible mistake in the    *)
(* definition that follows it; nothing else uses it.                       *)

Sizes(items) == SumOf([i \in 1 .. Len(items) |-> fields[items[i]].size])

Stmt(op, n) == [op |-> op, n |-> n, batch |-> << >>]

FaultyPending == \E i \in 1 .. Len(batch) : fields[batch[i]].kind = "simple"

\* There is something to pack: numbers, or only padding.
Pending == Sizes(batch) > 0

FaultyFlush == UNCHANGED batch

\* _py_flush_format starts a new batch.
Flush == batch' = << >>

\* The statement that packs what has waited, which is named by its first field.
Pack == IF Pending THEN << [op |-> "pack", n |-> batch[1], batch |-> batch] >> ELSE << >>

FaultyChecked == ~regular

\* func_flags: errors come to the Cookie rather than to the event queue.
Checked == (void /\ ~regular) \/ (~void /\ regular)

FaultyPadding(size) == 4 - (size % 4)

\* send_request's -size & 3.
Padding(size) == (-size) % 4

\* xpybRequest_init wants room for what libxcb fills in.
TooShort(size) == size < 4

FaultyFormatLen(f) == SumOf(f.inner)

\* _py_type_setup's py_format_len of a structure, by which the Iterator groups.
FormatLen(f) ==
  IF \E k \in 1 .. Len(f.inner) : f.inner[k] < 0 THEN -1 ELSE SumOf(f.inner)

FaultyIncomplete(f) == FALSE

\* The Iterator runs out in the middle of a tuple, and complains.
Incomplete(f) == taken < f.items /\ f.items - taken < FormatLen(f)

-----------------------------------------------------------------------------
(* The generator: _py_request_helper.                                      *)

GenerateBatched ==
  /\ status = "generate" /\ next <= Len(fields)
  /\ fields[next].kind \in Batched
  /\ batch' = Append(batch, next)
  /\ next' = next + 1
  /\ UNCHANGED << input, code, pc, taken, buf, status, request >>

\* Whatever is written by a statement of its own comes after what has waited.
GenerateWrite ==
  /\ status = "generate" /\ next <= Len(fields)
  /\ fields[next].kind \notin Batched
  /\ code' = code \o Pack \o << Stmt(fields[next].kind, next) >>
  /\ Flush
  /\ next' = next + 1
  /\ UNCHANGED << input, pc, taken, buf, status, request >>

GenerateEnd ==
  /\ status = "generate" /\ next = Len(fields) + 1
  /\ code' = code \o Pack \o << Stmt("send", next) >>
  /\ Flush
  /\ status' = "run"
  /\ UNCHANGED << input, next, pc, taken, buf, request >>

-----------------------------------------------------------------------------
(* The method.                                                             *)

At(ops) == status = "run" /\ code[pc].op \in ops
Unit(i, item) == << i, item, fields[i].size >>

\* A statement that writes units, or raises because an argument is unfit.
Write(ok, units) ==
  /\ IF ok THEN buf' = buf \o units /\ UNCHANGED status
     ELSE status' = "raised" /\ UNCHANGED buf
  /\ UNCHANGED << input, next, batch, code, request >>

\* pack raises for a number that is out of range.
DoPack ==
  /\ At({ "pack" })
  /\ LET items == code[pc].batch IN
       Write(\A k \in 1 .. Len(items) :
               fields[items[k]].kind = "simple" => fields[items[k]].fits,
             [k \in 1 .. Len(items) |-> Unit(items[k], 1)])
  /\ pc' = pc + 1
  /\ UNCHANGED taken

\* The expression is computed from other arguments, and packed.
DoExpr ==
  /\ At({ "expr" })
  /\ Write(fields[code[pc].n].fits, << Unit(code[pc].n, 1) >>)
  /\ pc' = pc + 1
  /\ UNCHANGED taken

\* array.array takes a flat sequence of numbers.
DoArray ==
  /\ At({ "array" })
  /\ LET i == code[pc].n
         f == fields[i]
     IN  Write(f.fits /\ ~f.nested, [k \in 1 .. f.items |-> Unit(i, k)])
  /\ pc' = pc + 1
  /\ UNCHANGED taken

\* One round of the loop over xcb.Iterator: a tuple is packed.  There are no
\* tuples of -1 items, and none of what is no sequence.
DoTuple ==
  /\ At(Tuples)
  /\ LET i == code[pc].n
         f == fields[i]
         group == FormatLen(f)
     IN  /\ f.items > taken \/ group < 0 \/ ~f.fits
         /\ Write(group > 0 /\ ~Incomplete(f) /\ f.fits,
                  << Unit(i, (taken \div group) + 1) >>)
         /\ taken' = IF status' = "raised" THEN taken ELSE taken + group
  /\ UNCHANGED pc

\* The loop ends.
EndTuples ==
  /\ At(Tuples)
  /\ LET f == fields[code[pc].n] IN FormatLen(f) > 0 /\ f.items <= taken /\ f.fits
  /\ pc' = pc + 1
  /\ taken' = 0
  /\ UNCHANGED << input, next, batch, code, buf, status, request >>

\* xcb.Request and send_request.
Send ==
  /\ At({ "send" })
  /\ LET size == SumOf([i \in 1 .. Len(buf) |-> buf[i][3]]) IN
       IF TooShort(size)
       THEN status' = "raised" /\ UNCHANGED request
       ELSE /\ status' = "sent"
            /\ request' = [isvoid |-> void, checked |-> Checked, padding |-> Padding(size)]
  /\ pc' = pc + 1
  /\ UNCHANGED << input, next, batch, code, taken, buf >>

Next ==
  \/ GenerateBatched \/ GenerateWrite \/ GenerateEnd
  \/ DoPack \/ DoExpr \/ DoArray \/ DoTuple \/ EndTuples \/ Send

Spec == Init /\ [][Next]_vars

-----------------------------------------------------------------------------
(* Properties.                                                             *)

\* A structure whose size varies, and the numbers of one whose size does not.
Varies(f) == -1 \in { f.inner[k] : k \in 1 .. Len(f.inner) }
Numbers(f) == SumOf(f.inner)

\* How many items of a field belong on the wire: a structure is one, a list has
\* those of the argument.
ItemsOf(f) ==
  CASE f.kind = "array"   -> f.items
    [] f.kind = "structs" -> f.items \div Numbers(f)
    [] OTHER              -> 1

\* An argument for a structure has the numbers of one structure.
Counted(f) == f.kind = "struct" => f.items = Numbers(f)

\* The first m items of field i.
Part(fs, i, m) == { << i, k, fs[i].size >> : k \in 1 .. m }

Elements(s) == { s[k] : k \in 1 .. Len(s) }

\* The order on the wire: by field, and by item within a field.
Before(u, v) == u[1] < v[1] \/ (u[1] = v[1] /\ u[2] < v[2])
Ordered(s) == \A j, k \in 1 .. Len(s) : j < k => Before(s[j], s[k])

\* A request that is sent holds every field and every item of its argument once,
\* in the order of the description, padding included, although some fields wait
\* for others and some are written by loops.  Not so a structure whose
\* argument has the numbers of none or of several: the code writes none or several.
NothingLost ==
  status = "sent" =>
    /\ Ordered(buf)
    /\ \A i \in 1 .. Len(fields) :
         Counted(fields[i]) =>
           { x \in Elements(buf) : x[1] = i } = Part(fields, i, ItemsOf(fields[i]))

\* libxcb gets whole units of four bytes, and no unit more than the fields take:
\* the length it puts into the request counts units.
WholeUnits ==
  status = "sent" =>
    LET size == SumOf([i \in 1 .. Len(buf) |-> buf[i][3]])
    IN  (size + request.padding) % 4 = 0 /\ request.padding \in 0 .. 3

\* The arguments a method cannot pack: what is not in range or not a number; for a
\* structure, a number of items it cannot be made of; and for a list of numbers,
\* contrary to what the documentation says (NestingAccepted), a nested sequence.
OutOfRange(f) == f.kind \notin { "auto", "pad" } /\ ~f.fits
Ungrouped(f)  == f.kind \in Tuples /\ (Varies(f) \/ f.items % Numbers(f) # 0)
NestedList(f) == f.kind = "array" /\ f.nested
Unfit(f)      == OutOfRange(f) \/ Ungrouped(f) \/ NestedList(f)

\* Every unfit argument, wherever it stands, keeps the request from being sent,
\* and nothing else does.
RefusesExactly ==
  /\ status = "raised" => \E i \in 1 .. Len(fields) : Unfit(fields[i])
  /\ status = "sent" => \A i \in 1 .. Len(fields) : ~Unfit(fields[i])

\* cookie.c lets check() through for void and checked requests and reply() for
\* the others.  So the Checked method of a request without reply returns a Cookie
\* that can be checked and its plain method one whose error becomes an event; with
\* a reply the plain method has the error raised by reply() and the Unchecked one
\* leaves it to the event queue.
MethodsAsNamed ==
  status = "sent" =>
    LET mayCheck == request.isvoid /\ request.checked
        mayReply == ~request.isvoid
        toQueue  == ~request.checked
    IN  /\ mayReply <=> ~void
        /\ mayCheck <=> void /\ ~regular
        /\ toQueue <=> (void <=> regular)

-----------------------------------------------------------------------------
(* Why the safety properties hold: parts of the inductive invariant.       *)

\* How many items of a field its statement writes: in a loop, as many as the
\* Iterator has tuples.
Written(f) ==
  CASE f.kind = "array"  -> f.items
    [] f.kind \in Tuples -> f.items \div Numbers(f)
    [] OTHER             -> 1

\* What is written for the first n fields.
Wire(fs, n) == UNION { Part(fs, i, Written(fs[i])) : i \in 1 .. n }

\* The field after those a statement writes.
After(s) == IF s.op = "pack" THEN s.n + Len(s.batch) ELSE s.n + 1

\* The first field no statement of c writes.
Upto(c) == IF c = << >> THEN 1 ELSE After(c[Len(c)])

\* Fields wait together only if they stand together.
Stands(fs, items, n) ==
  \A k \in 1 .. Len(items) :
    /\ items[k] = n + k - 1 /\ items[k] \in 1 .. Len(fs)
    /\ fs[items[k]].kind \in Batched

\* A statement is right for the fields it writes.
Fitting(fs, s) ==
  CASE s.op = "pack" -> s.batch # << >> /\ Stands(fs, s.batch, s.n)
    [] s.op = "send" -> s.n = Len(fs) + 1
    [] OTHER         -> s.n \in 1 .. Len(fs) /\ fs[s.n].kind = s.op

\* Statements go on where the one before them stops, and only the last sends.
Chain(fs, c) ==
  /\ \A k \in 1 .. Len(c) : Fitting(fs, c[k])
  /\ c # << >> => c[1].n = 1
  /\ \A k \in 1 .. Len(c) - 1 : c[k].op # "send" /\ c[k + 1].n = After(c[k])

\* The generator leaves no field out.
CodeInv ==
  /\ Chain(fields, code)
  /\ status = "generate" =>
       /\ next = Upto(code) + Len(batch)
       /\ Stands(fields, batch, Upto(code))
       /\ code # << >> => code[Len(code)].op # "send"
  /\ status # "generate" => code # << >> /\ code[Len(code)].op = "send"

\* The method has written the fields before its statement and, in a loop, as many
\* items as it has taken tuples from the Iterator.
RunInv ==
  /\ status = "generate" => pc = 1 /\ taken = 0 /\ buf = << >>
  /\ status = "run" =>
       /\ pc <= Len(code)
       /\ LET n == code[pc].n IN
            /\ \A i \in 1 .. n - 1 : ~Unfit(fields[i])
            /\ Ordered(buf)
            /\ \/ taken = 0 /\ Elements(buf) = Wire(fields, n - 1)
               \/ /\ code[pc].op \in Tuples
                  /\ fields[n].fits /\ FormatLen(fields[n]) > 0
                  /\ \E t \in 1 .. fields[n].items :
                       /\ taken = t * FormatLen(fields[n]) /\ taken <= fields[n].items
                       /\ Elements(buf) = Wire(fields, n - 1) \union Part(fields, n, t)

IInv ==
  /\ TypeOK /\ CodeInv /\ RunInv
  /\ NothingLost /\ WholeUnits /\ RefusesExactly /\ MethodsAsNamed

-----------------------------------------------------------------------------
(* What the documentation says.                                            *)

\* XcbPythonBinding.txt:71: "any lists or internal sub-structures must be passed as
\* sequences of cardinal values".  So structures can be passed, whatever their
\* size depends on.
StructuresSent ==
  status = "raised" =>
    \E i \in 1 .. Len(fields) : ~Varies(fields[i]) /\ Unfit(fields[i])

\* XcbPythonBinding.txt:71 goes on: "These lists can contain arbitrary internal
\* nesting."  So no list is refused for its nesting.
NestingAccepted ==
  status = "raised" =>
    \E i \in 1 .. Len(fields) : OutOfRange(fields[i]) \/ Ungrouped(fields[i])
=============================================================================
