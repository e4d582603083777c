-------------------------------- MODULE Sums --------------------------------
(***************************************************************************)
(* Sums of sequences of numbers, as a recursive function, so that they can *)
(* be reasoned about.                                                      *)
(***************************************************************************)
EXTENDS Integers, Sequences

\* The sums of the first 0, 1, ... Len(s) elements of s.
PartialSums(s) ==
  LET sum[n \in 0 .. Len(s)] == IF n = 0 THEN 0 ELSE sum[n - 1] + s[n]
  IN  sum

SumOf(s) == PartialSums(s)[Len(s)]
=============================================================================
