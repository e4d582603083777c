------------------------------ MODULE MCLayout ------------------------------
(***************************************************************************)
(* An instance of Layout: every regular description of up to three fields, *)
(* of four over fewer choices, and unions of up to three members.          *)
(***************************************************************************)
EXTENDS RegularLayout, LayoutExamples

Choice == {
  Plain("auto", 1), Plain("pad", 1), Plain("pad", 2),
  Plain("simple", 1), Plain("simple", 2), Plain("simple", 4),
  List(1, << 1, 1, 1 >>), List(2, << 2 >>), List(4, << 4, 4 >>),
  List(-1, << 3, 2 >>), List(1, << >>),
  Plain("fixed", 6), Plain("var", 5) }

FewChoices == {
  Plain("auto", 1), Plain("pad", 2), Plain("simple", 1), Plain("simple", 4),
  List(1, << 1, 1, 1 >>), List(-1, << 3, 2 >>), Plain("fixed", 6) }

Unions == [fields : BoundedSeq(Choice, 3), shape : {"union"}]

MCDescriptions ==
  { d \in Unions \union Describe(BoundedSeq(Choice, 3) \union [1 .. 4 -> FewChoices]) :
      \A b \in StartsAt(d.shape) : Regular(d.fields, d.shape, b) }
=============================================================================
