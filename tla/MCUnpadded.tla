----------------------------- MODULE MCUnpadded -----------------------------
(***************************************************************************)
(* An instance of Layout in which numbers of four bytes follow lists of    *)
(* three, without padding between them.                                    *)
(***************************************************************************)
EXTENDS LayoutExamples

MCDescriptions ==
  Describe(BoundedSeq({ Plain("simple", 4), List(1, << 1, 1, 1 >>) }, 4))
=============================================================================
