----------------------------- MODULE MCMarshal -----------------------------
(***************************************************************************)
(* Instances of Marshal: the header of a request and up to three fields,   *)
(* numbers, lists and structures of odd and even sizes, with arguments     *)
(* that are empty, whole, incomplete, nested and out of range.             *)
(***************************************************************************)
EXTENDS Marshal, SequencesExt

Field(kind, size) ==
  [kind |-> kind, size |-> size, items |-> 0, inner |-> << >>, nested |-> FALSE, fits |-> TRUE]
Bad(f) == [f EXCEPT !.fits = FALSE]
Array(size, items) == [Field("array", size) EXCEPT !.items = items]
Structs(kind, size, inner, items) ==
  [Field(kind, size) EXCEPT !.inner = inner, !.items = items]

Choice == {
  Field("pad", 2), Field("simple", 1), Field("simple", 4), Bad(Field("simple", 2)),
  Field("expr", 1), Bad(Field("expr", 1)),
  Array(1, 3), Array(4, 0), Array(2, 1), Bad(Array(2, 1)),
  [Array(4, 2) EXCEPT !.nested = TRUE],
  Structs("struct", 3, << 1, 1 >>, 2), Structs("struct", 3, << 1, 1 >>, 0),
  Structs("struct", 2, << 1, 1 >>, 4), Structs("structs", 8, << 1, 3 >>, 8),
  Structs("structs", 6, << 1, 0, 1 >>, 3), Structs("structs", 4, << 2 >>, 0),
  Bad(Structs("structs", 4, << 1, 1 >>, 2)), Structs("structs", 1, << 1, -1, 1 >>, 2) }

\* Opcode and length are libxcb's; the byte between them is the request's.
Header(f) == << Field("auto", 1), f, Field("auto", 2) >>

MCCalls ==
  { Header(f) \o rest : f \in { Field("pad", 1), Field("simple", 1) },
                        rest \in BoundedSeq(Choice, 3) }
=============================================================================
