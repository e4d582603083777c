----------------------------- MODULE MCLifetime -----------------------------
(***************************************************************************)
(* An instance of GetSetup: two Connections, each with a core Extension    *)
(* and one more, and two xcb_connection_t objects, one of them foreign, so *)
(* that the same program has a connection of its own and a wrapped one.    *)
(***************************************************************************)
EXTENDS GetSetup, TLC

CONSTANTS c1, c2, k1, k2, t1, t2, render, own, other

MCConns   == { c1, c2 }
MCCookies == { k1, k2 }
MCKeys    == { render }
MCHandles == { own, other }
MCForeign == { other }
MCThreads == { t1, t2 }
MCAsked   == { c1 }

Symmetry ==
  Permutations(MCCookies) \union Permutations(MCThreads)
=============================================================================
