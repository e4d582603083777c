------------------------------ MODULE GetSetup ------------------------------
(***************************************************************************)
(* Connection.get_setup (conn.c) beside everything else that is done to    *)
(* Connections (Lifetime).  The Setup object is made of libxcb's memory,   *)
(* which is freed with the xcb_connection_t, and is cached in the field    *)
(* setup.  Its class is Python code: between the look at the cache and the *)
(* filling of it the interpreter may run other threads.                    *)
(*                                                                         *)
(* The Setup objects of a Connection are counted together.                 *)
(***************************************************************************)
EXTENDS Lifetime

CONSTANTS
  Threads,
  Asked        \* the Connections whose Setup is asked for (bounds the model)

ASSUME AskedAssumption == Asked \subseteq Conns

ASSUME ThreadsAssumption == IsFiniteSet(Threads)

VARIABLES
  setup,       \* the Connections whose field setup is not NULL
  srefs,       \* ob_refcnt of the Setup objects of each Connection, in sum
  mysetups,    \* references to them in the program's variables
  building,    \* the Connection a thread is making a Setup for, or Null
  overlapped   \* (history) Connections for which two threads did so at once

setupvars == << setup, srefs, mysetups, building, overlapped >>
allvars   == << vars, setupvars >>

SetupTypeOK ==
  /\ setup \subseteq Conns
  /\ srefs \in [Conns -> Nat]
  /\ mysetups \in [Conns -> 0 .. MaxRefs]
  /\ building \in [Threads -> Conns \union {Null}]
  /\ overlapped \subseteq Conns

SetupInit ==
  /\ Init
  /\ setup = {}
  /\ srefs = [c \in Conns |-> 0]
  /\ mysetups = [c \in Conns |-> 0]
  /\ building = [t \in Threads |-> Null]
  /\ overlapped = {}

-----------------------------------------------------------------------------
Builders(c) == { t \in Threads : building[t] = c }

\* Everything else, between two steps of get_setup.  A Connection that is
\* deallocated lets go of its Setup.
Otherwise ==
  /\ Next
  /\ LET gone == { c \in setup : conn'[c] = "freed" } IN
       /\ setup' = setup \ gone
       /\ srefs' = [c \in Conns |-> IF c \in gone THEN srefs[c] - 1 ELSE srefs[c]]
  /\ UNCHANGED << mysetups, building, overlapped >>

FaultyCachedGives == 0

\* References get_setup makes of the one the Connection has.
CachedGives == 1

\* get_setup() with a Setup in the cache.
GetCached(c) ==
  /\ Has(c) /\ Valid(c)
  /\ c \in setup
  /\ mysetups[c] < MaxRefs
  /\ mysetups' = [mysetups EXCEPT ![c] = @ + 1]
  /\ srefs' = [srefs EXCEPT ![c] = @ + CachedGives]
  /\ UNCHANGED << vars, setup, building, overlapped >>

\* get_setup() with an empty cache calls the class.  The call refers to the
\* Connection until it is over.  At most MaxRefs Setups are lost (bounds the
\* model).
BeginSetup(t, c) ==
  /\ building[t] = Null
  /\ c \in Asked
  /\ Has(c) /\ Valid(c)
  /\ c \notin setup
  /\ srefs[c] = mysetups[c]
  /\ building' = [building EXCEPT ![t] = c]
  /\ refs' = [refs EXCEPT ![c] = @ + 1]
  /\ overlapped' = IF Builders(c) = {} THEN overlapped ELSE overlapped \union {c}
  /\ UNCHANGED << handle, conn, ptr, wrapped, erefs, kept, attrs, unset, cookie,
                  myconns, myexts, setup, srefs, mysetups >>

\* The class returns a Setup, or raises.  What is in the cache by now is
\* overwritten, by NULL if the class raised, and its reference is lost.
EndSetup(t, made) ==
  LET c == building[t] IN
    /\ c # Null
    /\ building' = [building EXCEPT ![t] = Null]
    /\ IF made
       THEN /\ mysetups[c] < MaxRefs
            /\ setup' = setup \union {c}
            /\ srefs' = [srefs EXCEPT ![c] = @ + 1 + CachedGives]
            /\ mysetups' = [mysetups EXCEPT ![c] = @ + 1]
       ELSE setup' = setup \ {c} /\ UNCHANGED << srefs, mysetups >>
    /\ Release(c, 1, erefs)
    /\ UNCHANGED << ptr, wrapped, unset, cookie, myconns, myexts, overlapped >>

DropSetup(c) ==
  /\ mysetups[c] > 0
  /\ mysetups' = [mysetups EXCEPT ![c] = @ - 1]
  /\ srefs' = [srefs EXCEPT ![c] = @ - 1]
  /\ UNCHANGED << vars, setup, building, overlapped >>

SetupNext ==
  \/ Otherwise
  \/ \E c \in Conns : GetCached(c) \/ DropSetup(c)
  \/ \E t \in Threads : \/ \E c \in Conns : BeginSetup(t, c)
                        \/ \E made \in BOOLEAN : EndSetup(t, made)

SetupSpec == SetupInit /\ [][SetupNext]_allvars

-----------------------------------------------------------------------------
(* Properties.                                                             *)

\* Every count is the number of references there are: nothing is freed while
\* something refers to it, and what leaks leaks through references.  A Setup has
\* references that nobody holds only if two threads were making one at once.
RefsExact ==
  /\ RefsExactWith([c \in Conns |-> Cardinality(Builders(c))])
  /\ \A c \in Conns :
       LET held == mysetups[c] + (IF c \in setup THEN 1 ELSE 0) IN
         IF c \in overlapped THEN srefs[c] >= held ELSE srefs[c] = held

\* The memory a Setup reads, as long as the program holds it and while its class
\* reads it for the first time, is freed by nothing but disconnect(): although
\* a Setup refers neither to the memory nor to the Connection, no other reference
\* to the Connection need be kept.
SetupReadable ==
  \A c \in Conns :
    mysetups[c] > 0 \/ Builders(c) # {} => ptr[c] = Null \/ handle[ptr[c]] = "open"

-----------------------------------------------------------------------------
(* Why the safety properties hold: the inductive invariant.                *)

\* A thread that makes the Setup of a Connection alone finds the cache as empty
\* as it was when it looked.
BuildersInv ==
  /\ \A c \in setup : conn[c] = "alive"
  /\ \A t \in Threads : building[t] # Null =>
       /\ conn[building[t]] = "alive"
       /\ building[t] \notin overlapped =>
            building[t] \notin setup /\ Builders(building[t]) = {t}

\* Together these are preserved by every step and imply the safety properties.
IInv ==
  /\ TypeOK
  /\ SetupTypeOK
  /\ CacheInv
  /\ PointerInv
  /\ BuildersInv
  /\ RefsExact
  /\ NothingUnset
=============================================================================
