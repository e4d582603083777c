--------------------------- MODULE LayoutExamples ---------------------------
(***************************************************************************)
(* How the instances of Layout for TLC write descriptions.                 *)
(***************************************************************************)
EXTENDS Layout, SequencesExt

Plain(kind, size) == [kind |-> kind, size |-> size, len |-> 0, elements |-> << >>]
List(size, elements) ==
  [kind |-> "list", size |-> size, len |-> 0, elements |-> elements]

\* A list takes its length from the last number before it, if there is one.
WithLengths(fs) ==
  [ i \in 1 .. Len(fs) |->
      IF fs[i].kind # "list" THEN fs[i]
      ELSE [fs[i] EXCEPT !.len =
              Max({0} \union { j \in 1 .. i - 1 : fs[j].kind = "simple" })] ]

\* Whatever but unions the fields may belong to.
Describe(fieldsets) ==
  [fields : { WithLengths(fs) : fs \in fieldsets }, shape : Shapes \ {"union"}]
=============================================================================
