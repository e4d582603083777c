-------------------------- MODULE MCCookieProtocol --------------------------
(***************************************************************************)
(* Instances of CookieProtocol for TLC.  Threads and Cookies are sets of   *)
(* model values; permuting them changes nothing in the specification, so   *)
(* the runs that check an invariant alone use Symmetry.                    *)
(***************************************************************************)
EXTENDS CookieProtocol, TLC

Symmetry == Permutations(Threads) \union Permutations(Cookies)
=============================================================================
