-------------------------- MODULE Dispatch_proofs --------------------------
(***************************************************************************)
(* Proofs about Dispatch for any modules, numbers, servers, connections    *)
(* and width of a code.                                                    *)
(***************************************************************************)
EXTENDS Dispatch, FiniteSetTheorems, TLAPS

-----------------------------------------------------------------------------
(* The operators the tables are filled with.                               *)

\* A set of numbers up to b that is not empty has a largest element.
LEMMA MaxOfBounded ==
  ASSUME NEW b \in Nat, NEW S \in SUBSET (0 .. b), S # {}
  PROVE  Max(S) \in S /\ \A x \in S : x <= Max(S)
<1> DEFINE T == { b - x : x \in S }
       R == { p \in Nat \X Nat : p[1] < p[2] }
<1>1. T \subseteq Nat /\ T # {}
  <2>1. ASSUME NEW x \in S PROVE b - x \in Nat
    BY x \in 0 .. b
  <2>2. T \subseteq Nat
    BY <2>1
  <2>3. PICK x \in S : TRUE
    OBVIOUS
  <2>4. b - x \in T
    OBVIOUS
  <2> QED
    BY <2>2, <2>4
<1>2. IsWellFoundedOn(R, Nat)
  BY NatLessThanWellFounded, Zenon DEF OpToRel
<1>3. PICK t \in T : \A u \in T : ~(<< u, t >> \in R)
  <2> HIDE DEF T, R
  <2> QED
    BY <1>1, <1>2, WFMin, Zenon
<1>4. PICK m \in S : t = b - m
  OBVIOUS
<1>5. \A u \in T : t <= u
  <2>1. ASSUME NEW u \in T PROVE t <= u
    <3>1. u \in Nat /\ t \in Nat
      BY <1>1
    <3>2. ~(u < t)
      BY <1>3, <3>1
    <3> QED
      BY <3>1, <3>2
  <2> QED
    BY <2>1
<1>6. ASSUME NEW x \in S PROVE m >= x
  <2>1. b - x \in T /\ x \in 0 .. b /\ m \in 0 .. b
    OBVIOUS
  <2>2. b - m <= b - x
    BY <1>4, <1>5, <2>1
  <2> QED
    BY <2>1, <2>2
<1> QED
  BY <1>4, <1>6 DEF Max

\* A number below m is its own remainder, with m added or not.
LEMMA Remainder ==
  ASSUME NEW m \in Nat \ {0}, NEW n \in 0 .. m - 1
  PROVE  n % m = n /\ (n + m) % m = n
OBVIOUS

\* A code fits in an unsigned char.
LEMMA CodeType ==
  ASSUME NEW first \in Codes, NEW n \in Codes
  PROVE  Code(first, n) \in Codes
BY ConstantsAssumption DEF Code, Codes

\* The length of a table is the number of its slots.
LEMMA TableLength ==
  ASSUME NEW tab
  PROVE  /\ IsTable(tab) => /\ Cardinality(DOMAIN tab) \in 0 .. Byte
                            /\ DOMAIN tab = 0 .. Cardinality(DOMAIN tab) - 1
         /\ DOMAIN tab = {} => IsTable(tab)
<1> USE ConstantsAssumption
<1>1. ASSUME NEW len \in 0 .. Byte, DOMAIN tab = 0 .. len - 1
      PROVE  Cardinality(DOMAIN tab) = len
  BY <1>1, FS_Interval, 0 \in Int, len - 1 \in Int
<1>2. ASSUME DOMAIN tab = {} PROVE IsTable(tab)
  BY <1>2, 0 \in 0 .. Byte, 0 .. 0 - 1 = {} DEF IsTable
<1> QED
  BY <1>1, <1>2 DEF IsTable

\* The codes of the registered numbers have slots with their classes; the other
\* slots have what they had or, new ones, are cleared.
Fills(tab, first, nums, k, full) ==
  LET used == { Code(first, n) : n \in nums }
  IN  /\ IsTable(full)
      /\ DOMAIN tab \union used \subseteq DOMAIN full
      /\ \A i \in used : \E n \in nums : Code(first, n) = i /\ full[i] = << k, n >>
      /\ \A i \in DOMAIN full \ used :
           full[i] = IF i \in DOMAIN tab THEN tab[i] ELSE Generic

\* That is what Fill makes of a table.
LEMMA FillTable ==
  ASSUME NEW tab, IsTable(tab), NEW first \in Codes, NEW nums \in SUBSET Codes, NEW k
  PROVE  Fills(tab, first, nums, k, Fill(tab, first, nums, k))
<1> DEFINE used == { Code(first, n) : n \in nums }
           full == Fill(tab, first, nums, k)
           len  == Cardinality(DOMAIN tab)
           ends == { len } \union { i + 1 : i \in used }
<1>1. len \in 0 .. Byte /\ DOMAIN tab = 0 .. len - 1
  BY TableLength
<1>2. used \subseteq 0 .. Byte - 1 /\ Byte \in Nat \ {0}
  BY CodeType, ConstantsAssumption DEF Codes
<1>3. ends \subseteq 0 .. Byte /\ ends # {}
  <2>1. ASSUME NEW i \in used PROVE i + 1 \in 0 .. Byte
    <3>1. i \in 0 .. Byte - 1
      BY <1>2
    <3> QED
      BY <1>2, <3>1
  <2> QED
    BY <1>1, <2>1
<1>4. PICK size \in 0 .. Byte : size = Max(ends) /\ \A x \in ends : x <= size
  <2> HIDE DEF ends
  <2> QED
    BY <1>2, <1>3, MaxOfBounded
<1>5. len <= size /\ \A i \in used : i + 1 <= size
  BY <1>4
<1>6. full = [ i \in 0 .. size - 1 |->
                 IF i \in used THEN << k, CHOOSE n \in nums : Code(first, n) = i >>
                 ELSE IF i \in DOMAIN tab THEN tab[i]
                 ELSE Generic ]
  BY <1>4 DEF Fill
<1>7. DOMAIN full = 0 .. size - 1
  BY <1>6
<1>8. used \subseteq DOMAIN full
  <2>1. ASSUME NEW i \in used PROVE i \in 0 .. size - 1
    BY <1>2, <1>5
  <2> HIDE DEF used, full
  <2> QED
    BY <1>7, <2>1
<1>9. DOMAIN tab \subseteq DOMAIN full
  <2>1. 0 .. len - 1 \subseteq 0 .. size - 1
    BY <1>1, <1>5
  <2> QED
    BY <1>1, <1>7, <2>1
<1>10. ASSUME NEW i \in used
       PROVE  \E n \in nums : Code(first, n) = i /\ full[i] = << k, n >>
  <2>1. \E n \in nums : Code(first, n) = i
    OBVIOUS
  <2>2. full[i] = << k, CHOOSE n \in nums : Code(first, n) = i >>
    BY <1>6, <1>7, <1>8
  <2> QED
    BY <2>1, <2>2
<1>11. ASSUME NEW i \in DOMAIN full, i \notin used
       PROVE  full[i] = IF i \in DOMAIN tab THEN tab[i] ELSE Generic
  BY <1>6, <1>7, <1>11
<1>12. IsTable(full)
  BY <1>4, <1>7 DEF IsTable
<1> HIDE DEF used, full
<1>13. /\ DOMAIN tab \union used \subseteq DOMAIN full
       /\ \A i \in DOMAIN full \ used :
            full[i] = IF i \in DOMAIN tab THEN tab[i] ELSE Generic
  BY <1>8, <1>9, <1>11
<1> QED
  BY <1>10, <1>12, <1>13 DEF Fills, used, full

\* The classes a module k with these numbers and this base has for a code.
ClassesAt(k, first, nums, code) ==
  { << k, n >> : n \in { m \in nums : Code(first, m) = code } }

\* If a table has the right class for a code, it has after a module was entered,
\* when the classes of that module are right as well.
LEMMA FillFits ==
  ASSUME NEW tab, IsTable(tab), NEW first \in Codes, NEW nums \in SUBSET Codes, NEW k,
         NEW code \in Codes, NEW claims, Fits(LookUp(tab, code), claims)
  PROVE  Fits(LookUp(Fill(tab, first, nums, k), code),
              claims \union ClassesAt(k, first, nums, code))
<1> DEFINE used == { Code(first, n) : n \in nums }
           full == Fill(tab, first, nums, k)
           new  == ClassesAt(k, first, nums, code)
<1>1. /\ DOMAIN tab \union used \subseteq DOMAIN full
      /\ \A i \in used : \E n \in nums : Code(first, n) = i /\ full[i] = << k, n >>
      /\ \A i \in DOMAIN full \ used :
           full[i] = IF i \in DOMAIN tab THEN tab[i] ELSE Generic
  <2>1. Fills(tab, first, nums, k, full)
    BY FillTable
  <2> HIDE DEF full
  <2> QED
    BY <2>1, Zenon DEF Fills
<1>2. ASSUME code \in used PROVE Fits(LookUp(full, code), claims \union new)
  <2>1. full[code] \in new /\ code \in DOMAIN full
    BY <1>1, <1>2 DEF ClassesAt
  <2> HIDE DEF new, full
  <2> QED
    BY <2>1 DEF Fits, LookUp
<1>3. ASSUME code \notin used PROVE Fits(LookUp(full, code), claims \union new)
  <2>1. new = {}
    BY <1>3 DEF ClassesAt
  <2> HIDE DEF new, used, full
  <2>2. LookUp(full, code) = LookUp(tab, code)
    BY <1>1, <1>3 DEF LookUp
  <2> QED
    BY <2>1, <2>2
<1>4. Fits(LookUp(full, code), claims \union new)
  BY <1>2, <1>3
<1> QED
  BY <1>4

-----------------------------------------------------------------------------
(* Types and shapes.                                                       *)

\* Loading an extension makes one Extension object and caches it, and touches
\* no other connection or key.
LEMMA LoadEffect ==
  ASSUME ShapeInv, NEW c \in Conns, NEW k \in Keys, LoadExt(c, k)
  PROVE  /\ DOMAIN extcache' = Conns /\ \A d \in Conns : DOMAIN extcache'[d] = Keys
         /\ objects' \in [Conns -> [Keys -> Nat]]
         /\ objects'[c][k] = objects[c][k] + 1
         /\ extcache'[c][k] = [ present     |-> server[k].present,
                                first_event |-> server[k].first_event,
                                first_error |-> server[k].first_error,
                                id          |-> objects[c][k] + 1 ]
         /\ \A d \in Conns, j \in Keys :
              d # c \/ j # k => UNCHANGED << objects[d][j], extcache[d][j] >>
<1>1. objects' = [objects EXCEPT ![c][k] = objects[c][k] + 1]
  BY DEF LoadExt
<1>2. extcache' = [extcache EXCEPT ![c][k] =
                     [ present     |-> server[k].present,
                       first_event |-> server[k].first_event,
                       first_error |-> server[k].first_error,
                       id          |-> objects[c][k] + 1 ]]
  BY DEF LoadExt, Remember
<1>3. /\ objects' \in [Conns -> [Keys -> Nat]]
      /\ objects'[c][k] = objects[c][k] + 1
      /\ \A d \in Conns, j \in Keys : d # c \/ j # k => objects'[d][j] = objects[d][j]
  BY <1>1 DEF ShapeInv
<1> QED
  BY <1>2, <1>3 DEF ShapeInv

\* The numbers the server gives are codes, and so are the registered ones.
LEMMA NumberTypes ==
  ASSUME server \in Servers
  PROVE  /\ \A k \in Keys : /\ server[k].present \in BOOLEAN
                            /\ server[k].first_event \in Codes
                            /\ server[k].first_error \in Codes
         /\ \A k \in Modules : EventNums[k] \subseteq Codes /\ ErrorNums[k] \subseteq Codes
         /\ Core \in Modules /\ Keys \subseteq Modules /\ 0 \in Codes
BY ConstantsAssumption DEF Info, Modules, Codes

\* Filling a table for a connection leaves the other tables alone.
LEMMA FillShapes ==
  ASSUME TypeOK, ShapeInv, NEW c \in Conns,
         NEW n \in SUBSET Codes, NEW m \in SUBSET Codes,
         NEW a \in Codes, NEW b \in Codes, NEW k,
         \/ /\ events' = [events EXCEPT ![c] = Fill(@, a, n, k)]
            /\ errors' = [errors EXCEPT ![c] = Fill(@, b, m, k)]
         \/ /\ events' = [events EXCEPT ![c] = Fill(Empty, a, n, k)]
            /\ errors' = [errors EXCEPT ![c] = Fill(Empty, b, m, k)]
  PROVE  /\ DOMAIN events' = Conns /\ DOMAIN errors' = Conns
         /\ \A d \in Conns : IsTable(events'[d]) /\ IsTable(errors'[d])
         /\ \A d \in Conns : d # c => UNCHANGED << events[d], errors[d] >>
<1>1. IsTable(events[c]) /\ IsTable(errors[c]) /\ IsTable(Empty)
  BY TableLength DEF TypeOK, Empty
<1>2. /\ IsTable(Fill(events[c], a, n, k)) /\ IsTable(Fill(errors[c], b, m, k))
      /\ IsTable(Fill(Empty, a, n, k)) /\ IsTable(Fill(Empty, b, m, k))
  BY <1>1, FillTable DEF Fills
<1>3. \A d \in Conns : d # c => UNCHANGED << events[d], errors[d] >>
  BY DEF ShapeInv
<1>4. /\ events'[c] \in { Fill(events[c], a, n, k), Fill(Empty, a, n, k) }
      /\ errors'[c] \in { Fill(errors[c], b, m, k), Fill(Empty, b, m, k) }
  BY DEF ShapeInv
<1>5. \A d \in Conns : IsTable(events'[d]) /\ IsTable(errors'[d])
  BY <1>2, <1>3, <1>4 DEF TypeOK
<1>6. DOMAIN events' = Conns /\ DOMAIN errors' = Conns
  BY DEF ShapeInv
<1> QED
  BY <1>3, <1>5, <1>6

\* Every step keeps the types and the shapes.
LEMMA TypeStep ==
  ASSUME TypeOK, ShapeInv, CacheInv, [Next]_vars
  PROVE  TypeOK' /\ ShapeInv'
<1> USE DEF ShapeInv
<1>1. CASE UNCHANGED << server, registry, phase, lost, known, todo, caches, tables, crashed >>
  BY <1>1 DEF TypeOK, registry, caches, tables
<1>2. ASSUME AddCore \/ \E k \in Keys, entries \in 1 .. 3 : AddExt(k, entries)
      PROVE  TypeOK' /\ ShapeInv'
  <2>1. /\ UNCHANGED << server, phase, lost, known, todo, caches, tables, crashed >>
        /\ core' \in BOOLEAN
    BY <1>2 DEF AddCore, AddExt, TypeOK
  <2>2. /\ ext_errors' \subseteq ext_events' /\ ext_events' \subseteq extdict'
        /\ extdict' \subseteq Keys
    <3>1. CASE AddCore
      BY <3>1 DEF AddCore, TypeOK
    <3>2. ASSUME NEW k \in Keys, NEW entries \in 1 .. 3, AddExt(k, entries)
          PROVE  /\ ext_errors' \subseteq ext_events' /\ ext_events' \subseteq extdict'
                 /\ extdict' \subseteq Keys
      <4>1. /\ extdict' = extdict \union {k}
            /\ ext_events' = ext_events \/ ext_events' = ext_events \union {k}
            /\ \/ ext_errors' = ext_errors
               \/ /\ ext_errors' = ext_errors \union {k}
                  /\ ext_events' = ext_events \union {k}
        BY <3>2 DEF AddExt
      <4> QED
        BY <4>1 DEF TypeOK
    <3> QED
      BY <1>2, <3>1, <3>2
  <2> QED
    BY <2>1, <2>2 DEF TypeOK, caches, tables
<1>3. ASSUME UNCHANGED << server, registry, caches, tables >>,
             phase' \in [Conns -> { "none", "setup", "ready", "failed" }],
             lost' \subseteq Conns,
             known' = known,
             todo' \in [Conns -> SUBSET Keys],
             crashed' \in { "no", "unknown key", "no reply", "overrun" }
      PROVE  TypeOK' /\ ShapeInv'
  BY <1>3 DEF TypeOK, registry, caches, tables
<1>4. ASSUME NEW c \in Conns, Fail(c)
      PROVE  /\ phase' \in [Conns -> { "none", "setup", "ready", "failed" }]
             /\ todo' \in [Conns -> SUBSET Keys]
  BY <1>4 DEF Fail, TypeOK
<1>5. ASSUME NEW c \in Conns, BeginSetup(c), lost' \subseteq Conns
      PROVE  TypeOK' /\ ShapeInv'
  <2>1. /\ DOMAIN events' = Conns /\ DOMAIN errors' = Conns
        /\ \A d \in Conns : IsTable(events'[d]) /\ IsTable(errors'[d])
    <3>1. /\ EventNums[Core] \in SUBSET Codes /\ ErrorNums[Core] \in SUBSET Codes
          /\ 0 \in Codes
      BY NumberTypes DEF TypeOK
    <3>2. /\ events' = [events EXCEPT ![c] = Fill(Empty, 0, EventNums[Core], Core)]
          /\ errors' = [errors EXCEPT ![c] = Fill(Empty, 0, ErrorNums[Core], Core)]
      BY <1>5 DEF BeginSetup
    <3> QED
      BY <3>1, <3>2, FillShapes
  <2>2. /\ phase' \in [Conns -> { "none", "setup", "ready", "failed" }]
        /\ known' \in [Conns -> SUBSET Keys] /\ todo' \in [Conns -> SUBSET Keys]
    BY <1>5 DEF BeginSetup, TypeOK
  <2> QED
    BY <1>5, <2>1, <2>2 DEF BeginSetup, TypeOK, registry, caches
<1>6. ASSUME NEW c \in Conns, NEW k \in Keys, LoadExt(c, k)
      PROVE  /\ \A d \in Conns, j \in Keys : extcache'[d][j].id \in 0 .. objects'[d][j]
             /\ DOMAIN extcache' = Conns /\ \A d \in Conns : DOMAIN extcache'[d] = Keys
             /\ objects' \in [Conns -> [Keys -> Nat]]
  <2>0. ShapeInv
    OBVIOUS
  <2> HIDE DEF ShapeInv
  <2>1. /\ DOMAIN extcache' = Conns /\ \A d \in Conns : DOMAIN extcache'[d] = Keys
        /\ objects' \in [Conns -> [Keys -> Nat]]
        /\ objects'[c][k] = objects[c][k] + 1
        /\ extcache'[c][k] = [ present     |-> server[k].present,
                               first_event |-> server[k].first_event,
                               first_error |-> server[k].first_error,
                               id          |-> objects[c][k] + 1 ]
        /\ \A d \in Conns, j \in Keys :
             d # c \/ j # k => UNCHANGED << objects[d][j], extcache[d][j] >>
    BY <1>6, <2>0, LoadEffect
  <2>2. extcache'[c][k].id = objects'[c][k] /\ objects'[c][k] \in Nat
    BY <2>1
  <2>3. ASSUME NEW d \in Conns, NEW j \in Keys
        PROVE  extcache'[d][j].id \in 0 .. objects'[d][j]
    <3>1. CASE d # c \/ j # k
      BY <2>1, <3>1 DEF TypeOK
    <3>2. CASE d = c /\ j = k
      BY <2>2, <3>2
    <3> QED
      BY <3>1, <3>2
  <2> QED
    BY <2>1, <2>3
<1>7. ASSUME NEW c \in Conns, NEW k \in Keys, SetupNext(c, k)
      PROVE  TypeOK' /\ ShapeInv'
  <2>1. /\ DOMAIN events' = Conns /\ DOMAIN errors' = Conns
        /\ \A d \in Conns : IsTable(events'[d]) /\ IsTable(errors'[d])
    <3>1. CASE server[k].present
      <4>1. /\ EventNums[k] \in SUBSET Codes /\ RegisteredErrors(k) \in SUBSET Codes
            /\ server[k].first_event \in Codes /\ server[k].first_error \in Codes
        BY NumberTypes DEF TypeOK, RegisteredErrors, Modules
      <4>2. /\ events' = [events EXCEPT ![c] =
                            Fill(@, server[k].first_event, EventNums[k], k)]
            /\ errors' = [errors EXCEPT ![c] =
                            Fill(@, server[k].first_error, RegisteredErrors(k), k)]
        BY <1>7, <3>1 DEF SetupNext, Enter
      <4> QED
        BY <4>1, <4>2, FillShapes
    <3>2. CASE ~server[k].present
      BY <1>7, <3>2 DEF SetupNext, TypeOK, tables
    <3> QED
      BY <3>1, <3>2
  <2>2. todo' \in [Conns -> SUBSET Keys]
    BY <1>7 DEF SetupNext, TypeOK
  <2> QED
    BY <1>6, <1>7, <2>1, <2>2 DEF SetupNext, TypeOK, registry
<1>8. ASSUME NEW c \in Conns, NEW k \in Keys, SetupOverruns(c, k)
      PROVE  TypeOK' /\ ShapeInv'
  <2>1. /\ phase' \in [Conns -> { "none", "setup", "ready", "failed" }]
        /\ todo' \in [Conns -> SUBSET Keys]
    BY <1>4, <1>8 DEF SetupOverruns, TypeOK
  <2> QED
    BY <1>6, <1>8, <2>1 DEF SetupOverruns, TypeOK, registry, tables
<1>9. ASSUME NEW c \in Conns, NEW k \in Keys, CallLoads(c, k)
      PROVE  TypeOK' /\ ShapeInv'
  BY <1>6, <1>9 DEF CallLoads, TypeOK, registry, tables
<1>10. ASSUME NEW c \in Conns, NEW k \in Keys,
              \/ SetupMisses(c, k) \/ SetupWithoutReply(c, k)
              \/ CallWithoutReply(c, k) \/ CallUnknown(c, k)
      PROVE  TypeOK' /\ ShapeInv'
  BY <1>3, <1>4, <1>10
     DEF SetupMisses, SetupWithoutReply, CallWithoutReply, CallUnknown, TypeOK
<1>11. ASSUME NEW c \in Conns, ConnectFails(c) \/ SetupDone(c) \/ Lose(c)
      PROVE  TypeOK' /\ ShapeInv'
  BY <1>3, <1>4, <1>11 DEF ConnectFails, SetupDone, Lose, TypeOK
<1>12. CASE UNCHANGED vars
  BY <1>1, <1>12 DEF vars
<1> QED
  BY <1>2, <1>5, <1>7, <1>8, <1>9, <1>10, <1>11, <1>12
     DEF Next, Connect, Wrap, TypeOK

-----------------------------------------------------------------------------
(* The Extension objects.                                                  *)

\* Loading an extension that was not loaded keeps the cache right.
LEMMA LoadCache ==
  ASSUME TypeOK, ShapeInv, CacheInv, NEW c \in Conns, NEW k \in Keys, LoadExt(c, k),
         objects[c][k] = 0, server' = server, crashed = "no",
         phase[c] # "none", \A d \in Conns : phase'[d] = "none" => phase[d] = "none",
         \A d \in Conns : todo'[d] \subseteq todo[d],
         crashed' = "no" => k \notin todo'[c]
  PROVE  CacheInv'
<1>1. /\ objects'[c][k] = 1
      /\ extcache'[c][k] = [ present     |-> server[k].present,
                             first_event |-> server[k].first_event,
                             first_error |-> server[k].first_error,
                             id          |-> 1 ]
      /\ \A d \in Conns, j \in Keys :
           d # c \/ j # k => UNCHANGED << objects[d][j], extcache[d][j] >>
  BY LoadEffect
<1>2. /\ extcache'[c][k].id = 1
      /\ \A f \in { "present", "first_event", "first_error" } :
           extcache'[c][k][f] = server[k][f]
  BY <1>1
<1>3. OneExtension'
  <2> SUFFICES ASSUME NEW d \in Conns, NEW j \in Keys
               PROVE  /\ objects'[d][j] <= 1
                      /\ extcache'[d][j].id = 1 =>
                           \A f \in { "present", "first_event", "first_error" } :
                             extcache'[d][j][f] = server[j][f]
    BY DEF OneExtension
  <2>1. CASE d # c \/ j # k
    BY <1>1, <2>1 DEF CacheInv, OneExtension
  <2>2. CASE d = c /\ j = k
    BY <1>1, <1>2, <2>2
  <2> QED
    BY <2>1, <2>2
<1>4. ASSUME NEW d \in Conns, NEW j \in Keys
      PROVE  /\ extcache'[d][j].id = objects'[d][j]
             /\ phase'[d] = "none" => objects'[d][j] = 0
             /\ crashed' = "no" /\ j \in todo'[d] => objects'[d][j] = 0
  <2>1. CASE d # c \/ j # k
    BY <1>1, <2>1 DEF CacheInv
  <2>2. CASE d = c /\ j = k
    BY <1>1, <1>2, <2>2
  <2> QED
    BY <2>1, <2>2
<1> QED
  BY <1>3, <1>4 DEF CacheInv

\* Every step keeps the cache right.
LEMMA CacheStep ==
  ASSUME TypeOK, ShapeInv, CacheInv, TableInv, [Next]_vars
  PROVE  CacheInv'
<1>1. ASSUME UNCHANGED << server, caches >>, crashed = "no" \/ crashed' # "no",
             \A d \in Conns : /\ phase'[d] = "none" => phase[d] = "none"
                              /\ todo'[d] \subseteq todo[d]
      PROVE  CacheInv'
  BY <1>1 DEF CacheInv, OneExtension, caches
<1>2. ASSUME NEW c \in Conns, Fail(c)
      PROVE  \A d \in Conns : /\ phase'[d] = "none" => phase[d] = "none"
                              /\ todo'[d] \subseteq todo[d]
  BY <1>2 DEF Fail, TypeOK
<1>3. ASSUME NEW c \in Conns, BeginSetup(c) PROVE CacheInv'
  <2>1. /\ phase[c] = "none" /\ UNCHANGED << server, extcache, objects, crashed >>
        /\ \A d \in Conns : d # c => UNCHANGED << phase[d], todo[d] >>
        /\ phase'[c] = "setup"
    BY <1>3 DEF BeginSetup, caches, TypeOK
  <2> QED
    BY <2>1 DEF CacheInv, OneExtension
<1>4. ASSUME NEW c \in Conns, NEW k \in Keys, SetupNext(c, k) PROVE CacheInv'
  <2>1. /\ LoadExt(c, k) /\ crashed = "no" /\ phase[c] = "setup"
        /\ UNCHANGED << server, phase >>
        /\ k \in todo[c] /\ todo' = [todo EXCEPT ![c] = @ \ {k}]
    BY <1>4 DEF SetupNext
  <2>2. objects[c][k] = 0
    BY <2>1 DEF CacheInv
  <2>3. k \notin todo'[c] /\ \A d \in Conns : todo'[d] \subseteq todo[d]
    BY <2>1 DEF TypeOK
  <2> QED
    BY <2>1, <2>2, <2>3, LoadCache
<1>5. ASSUME NEW c \in Conns, NEW k \in Keys, SetupOverruns(c, k) PROVE CacheInv'
  <2>1. /\ LoadExt(c, k) /\ crashed = "no" /\ phase[c] = "setup" /\ k \in todo[c]
        /\ server' = server
        /\ Fail(c) \/ (crashed' = "overrun" /\ UNCHANGED << phase, todo >>)
    BY <1>5 DEF SetupOverruns
  <2>2. objects[c][k] = 0
    BY <2>1 DEF CacheInv
  <2>3. /\ \A d \in Conns : /\ phase'[d] = "none" => phase[d] = "none"
                            /\ todo'[d] \subseteq todo[d]
        /\ crashed' = "no" => k \notin todo'[c]
    BY <1>2, <2>1 DEF Fail, TypeOK
  <2> QED
    BY <2>1, <2>2, <2>3, LoadCache
<1>6. ASSUME NEW c \in Conns, NEW k \in Keys, CallLoads(c, k) PROVE CacheInv'
  <2>1. /\ LoadExt(c, k) /\ crashed = "no" /\ phase[c] = "ready"
        /\ extcache[c][k].id = 0
        /\ UNCHANGED << server, phase, todo, crashed >>
    BY <1>6 DEF CallLoads, MayCall, Quiet
  <2>2. objects[c][k] = 0 /\ todo[c] = {}
    BY <2>1 DEF CacheInv, TableInv
  <2> QED
    BY <2>1, <2>2, LoadCache
<1>7. ASSUME NEW c \in Conns, NEW k \in Keys,
             \/ SetupMisses(c, k) \/ SetupWithoutReply(c, k)
             \/ CallWithoutReply(c, k) \/ CallUnknown(c, k)
      PROVE  CacheInv'
  BY <1>1, <1>2, <1>7
     DEF SetupMisses, SetupWithoutReply, CallWithoutReply, CallUnknown
<1>8. ASSUME NEW c \in Conns, ConnectFails(c) \/ SetupDone(c) \/ Lose(c)
      PROVE  CacheInv'
  <2>1. CASE SetupDone(c)
    <3>1. \A d \in Conns : phase'[d] = "none" => phase[d] = "none"
      BY <2>1 DEF SetupDone, TypeOK
    <3> QED
      BY <1>1, <2>1, <3>1 DEF SetupDone
  <2> QED
    BY <1>1, <1>2, <1>8, <2>1 DEF ConnectFails, Lose, Quiet
<1>9. ASSUME AddCore \/ \E k \in Keys, entries \in 1 .. 3 : AddExt(k, entries)
      PROVE  CacheInv'
  BY <1>1, <1>9 DEF AddCore, AddExt
<1>10. CASE UNCHANGED vars
  BY <1>1, <1>10 DEF vars
<1> QED
  BY <1>3, <1>4, <1>5, <1>6, <1>7, <1>8, <1>9, <1>10 DEF Next, Connect, Wrap

-----------------------------------------------------------------------------
(* The tables.                                                             *)

\* The classes of the table of events and of the table of errors of c are right
\* for the modules in mods.
TablesFit(c, mods) ==
  \A code \in Codes :
    /\ Fits(LookUp(events[c], code), Claims(mods, EventNums, EventBase, code))
    /\ Fits(LookUp(errors[c], code), Claims(mods, ErrorNums, ErrorBase, code))

\* Entering a module adds its classes to those a code may stand for.
LEMMA ClaimsGrow ==
  ASSUME NEW mods \in SUBSET Keys, NEW k \in Keys, NEW base \in [Keys -> Codes],
         NEW nums \in [Modules -> SUBSET Codes], NEW code
  PROVE  Claims(mods \union {k}, nums, base, code) =
           Claims(mods, nums, base, code)
             \union ClassesAt(k, base[k], nums[k], code)
<1> DEFINE old == Claims(mods, nums, base, code)
           all == Claims(mods \union {k}, nums, base, code)
           new == ClassesAt(k, base[k], nums[k], code)
<1>1. ASSUME NEW class \in new PROVE class \in all
  <2>1. PICK n \in nums[k] : class = << k, n >> /\ Code(base[k], n) = code
    BY DEF ClassesAt
  <2>2. class \in Modules \X Codes /\ class[1] = k /\ class[2] = n
    BY <2>1 DEF Modules
  <2> QED
    BY <2>1, <2>2 DEF Claims
<1>2. ASSUME NEW class \in all, class \notin old PROVE class \in new
  <2>1. /\ class \in Modules \X Codes /\ class[1] = k /\ class[2] \in nums[k]
        /\ Code(base[k], class[2]) = code
    BY <1>2 DEF Claims
  <2>2. class = << k, class[2] >>
    BY <2>1
  <2> QED
    BY <2>1, <2>2 DEF ClassesAt
<1>3. old \subseteq all
  BY DEF Claims
<1>4. all = old \union new
  <2> HIDE DEF old, all, new
  <2> QED
    BY <1>1, <1>2, <1>3
<1> QED
  BY <1>4

\* The core classes are all there is when no other module was entered.
LEMMA CoreClaims ==
  ASSUME NEW nums \in [Modules -> SUBSET Codes], NEW base, NEW code \in Codes
  PROVE  Claims({}, nums, base, code) =
           {} \union ClassesAt(Core, 0, nums[Core], code)
<1> DEFINE all == Claims({}, nums, base, code)
           new == ClassesAt(Core, 0, nums[Core], code)
<1>1. ASSUME NEW n \in nums[Core] PROVE Code(0, n) = n /\ n \in Codes
  <2>1. n \in 0 .. Byte - 1 /\ Byte \in Nat \ {0}
    BY ConstantsAssumption DEF Modules, Codes
  <2> QED
    BY <2>1, Remainder DEF Code, Codes
<1>2. ASSUME NEW class \in new PROVE class \in all
  <2>1. PICK n \in nums[Core] : class = << Core, n >> /\ Code(0, n) = code
    BY DEF ClassesAt
  <2>2. class \in Modules \X Codes /\ class[1] = Core /\ class[2] = n /\ n = code
    BY <1>1, <2>1 DEF Modules
  <2> QED
    BY <2>1, <2>2 DEF Claims
<1>3. ASSUME NEW class \in all PROVE class \in new
  <2>1. /\ class \in Modules \X Codes /\ class[1] = Core
        /\ class[2] \in nums[Core] /\ class[2] = code
    BY <1>3 DEF Claims
  <2>2. class = << Core, class[2] >> /\ Code(0, class[2]) = code
    BY <1>1, <2>1
  <2> QED
    BY <2>1, <2>2 DEF ClassesAt
<1>4. all = {} \union new
  <2> HIDE DEF all, new
  <2> QED
    BY <1>2, <1>3
<1> QED
  BY <1>4

\* The numbers of this server, in the form Claims wants them.
LEMMA Bases ==
  ASSUME TypeOK, NEW k \in Keys
  PROVE  /\ EventBase \in [Keys -> Codes] /\ ErrorBase \in [Keys -> Codes]
         /\ EventBase[k] = server[k].first_event /\ ErrorBase[k] = server[k].first_error
         /\ server[k].first_event \in Codes /\ server[k].first_error \in Codes
         /\ EventNums \in [Modules -> SUBSET Codes] /\ ErrorNums \in [Modules -> SUBSET Codes]
         /\ k \in Modules /\ Core \in Modules
BY NumberTypes, ConstantsAssumption DEF TypeOK, EventBase, ErrorBase, Modules

\* After a module was entered the tables are right for it, too.
LEMMA EnterFits ==
  ASSUME TypeOK, ShapeInv, NEW c \in Conns, NEW k \in Keys, NEW mods \in SUBSET Keys,
         TablesFit(c, mods), HasErrors(k), Enter(c, k), server' = server
  PROVE  TablesFit(c, mods \union {k})'
<1> DEFINE a == server[k].first_event
           b == server[k].first_error
<1>1. /\ events'[c] = Fill(events[c], a, EventNums[k], k)
      /\ errors'[c] = Fill(errors[c], b, ErrorNums[k], k)
      /\ EventBase' = EventBase /\ ErrorBase' = ErrorBase
  <2>1. RegisteredErrors(k) = ErrorNums[k]
    BY DEF RegisteredErrors, HasErrors
  <2> QED
    BY <2>1 DEF Enter, ShapeInv, EventBase, ErrorBase
<1>2. /\ EventBase[k] = a /\ ErrorBase[k] = b /\ a \in Codes /\ b \in Codes
      /\ EventBase \in [Keys -> Codes] /\ ErrorBase \in [Keys -> Codes]
      /\ EventNums \in [Modules -> SUBSET Codes] /\ ErrorNums \in [Modules -> SUBSET Codes]
      /\ EventNums[k] \in SUBSET Codes /\ ErrorNums[k] \in SUBSET Codes
      /\ IsTable(events[c]) /\ IsTable(errors[c])
  BY Bases DEF TypeOK
<1> SUFFICES ASSUME NEW code \in Codes
             PROVE  /\ Fits(LookUp(events'[c], code),
                            Claims(mods \union {k}, EventNums, EventBase, code))
                    /\ Fits(LookUp(errors'[c], code),
                            Claims(mods \union {k}, ErrorNums, ErrorBase, code))
  BY <1>1 DEF TablesFit
<1>3. /\ Fits(LookUp(events[c], code), Claims(mods, EventNums, EventBase, code))
      /\ Fits(LookUp(errors[c], code), Claims(mods, ErrorNums, ErrorBase, code))
  BY DEF TablesFit
<1> HIDE DEF a, b
<1>4. Fits(LookUp(Fill(events[c], a, EventNums[k], k), code),
           Claims(mods, EventNums, EventBase, code)
             \union ClassesAt(k, a, EventNums[k], code))
  BY <1>2, <1>3, FillFits
<1>5. Fits(LookUp(Fill(errors[c], b, ErrorNums[k], k), code),
           Claims(mods, ErrorNums, ErrorBase, code)
             \union ClassesAt(k, b, ErrorNums[k], code))
  BY <1>2, <1>3, FillFits
<1>6. Claims(mods \union {k}, EventNums, EventBase, code) =
        Claims(mods, EventNums, EventBase, code)
          \union ClassesAt(k, EventBase[k], EventNums[k], code)
  BY <1>2, ClaimsGrow
<1>7. Claims(mods \union {k}, ErrorNums, ErrorBase, code) =
        Claims(mods, ErrorNums, ErrorBase, code)
          \union ClassesAt(k, ErrorBase[k], ErrorNums[k], code)
  BY <1>2, ClaimsGrow
<1>8. Fits(LookUp(events'[c], code), Claims(mods \union {k}, EventNums, EventBase, code))
  BY <1>1, <1>2, <1>4, <1>6
<1>9. Fits(LookUp(errors'[c], code), Claims(mods \union {k}, ErrorNums, ErrorBase, code))
  BY <1>1, <1>2, <1>5, <1>7
<1> QED
  BY <1>8, <1>9

\* The tables start out right: they have the core classes.
LEMMA BeginFits ==
  ASSUME TypeOK, ShapeInv, NEW c \in Conns, BeginSetup(c)
  PROVE  TablesFit(c, {})'
<1>1. /\ events'[c] = Fill(Empty, 0, EventNums[Core], Core)
      /\ errors'[c] = Fill(Empty, 0, ErrorNums[Core], Core)
      /\ EventBase' = EventBase /\ ErrorBase' = ErrorBase
  BY DEF BeginSetup, ShapeInv, EventBase, ErrorBase
<1>2. /\ EventNums[Core] \in SUBSET Codes /\ ErrorNums[Core] \in SUBSET Codes
      /\ 0 \in Codes /\ IsTable(Empty)
  BY NumberTypes, TableLength DEF TypeOK, Empty
<1> SUFFICES ASSUME NEW code \in Codes
             PROVE  /\ Fits(LookUp(events'[c], code), Claims({}, EventNums, EventBase, code))
                    /\ Fits(LookUp(errors'[c], code), Claims({}, ErrorNums, ErrorBase, code))
  BY <1>1 DEF TablesFit
<1>3. Fits(LookUp(Empty, code), {})
  BY DEF Fits, LookUp, Empty
<1>4. Fits(LookUp(Fill(Empty, 0, EventNums[Core], Core), code),
           {} \union ClassesAt(Core, 0, EventNums[Core], code))
  BY <1>2, <1>3, FillFits
<1>5. Fits(LookUp(Fill(Empty, 0, ErrorNums[Core], Core), code),
           {} \union ClassesAt(Core, 0, ErrorNums[Core], code))
  BY <1>2, <1>3, FillFits
<1>6. Claims({}, EventNums, EventBase, code) =
        {} \union ClassesAt(Core, 0, EventNums[Core], code)
  BY ConstantsAssumption, CoreClaims
<1>7. Claims({}, ErrorNums, ErrorBase, code) =
        {} \union ClassesAt(Core, 0, ErrorNums[Core], code)
  BY ConstantsAssumption, CoreClaims
<1> QED
  BY <1>1, <1>4, <1>5, <1>6, <1>7

\* What TableInv says of one connection.
ConnInv(c) ==
  /\ todo[c] \subseteq known[c]
  /\ phase[c] = "ready" => todo[c] = {}
  /\ phase[c] \in { "setup", "ready" } => TablesFit(c, Entered(c) \ todo[c])

\* A connection to which a step does nothing stays right.
LEMMA ConnSame ==
  ASSUME NEW c \in Conns, ConnInv(c), server' = server,
         UNCHANGED << events[c], errors[c], known[c], todo[c] >>,
         phase'[c] = phase[c] \/ (phase'[c] = "ready" /\ phase[c] = "setup" /\ todo[c] = {})
  PROVE  ConnInv(c)'
BY DEF ConnInv, TablesFit, Entered, EventBase, ErrorBase

\* A connection that cannot be used has no table to be right about.
LEMMA ConnFailed ==
  ASSUME TypeOK, ShapeInv, NEW c \in Conns, Fail(c), known' = known
  PROVE  /\ ConnInv(c)'
         /\ \A d \in Conns : d # c => UNCHANGED << phase[d], todo[d] >>
BY DEF ConnInv, Fail, TypeOK

\* Every step keeps the tables right.
LEMMA TableStep ==
  ASSUME TypeOK, ShapeInv, TableInv, [Next]_vars
  PROVE  TableInv'
<1>1. \A d \in Conns : ConnInv(d)
  BY DEF TableInv, ConnInv, TablesFit
<1>2. SUFFICES \A d \in Conns : ConnInv(d)'
  BY DEF TableInv, ConnInv, TablesFit
<1>3. CASE UNCHANGED << server, tables, known, todo, phase >>
  BY <1>1, <1>3, ConnSame DEF tables
<1>4. ASSUME NEW c \in Conns, Fail(c), UNCHANGED << server, known, tables >>
      PROVE  \A d \in Conns : ConnInv(d)'
  BY <1>1, <1>4, ConnFailed, ConnSame DEF tables
<1>5. ASSUME NEW c \in Conns, BeginSetup(c) PROVE \A d \in Conns : ConnInv(d)'
  <2>1. \A d \in Conns : d # c =>
          UNCHANGED << events[d], errors[d], known[d], todo[d], phase[d] >>
    BY <1>5 DEF BeginSetup, TypeOK, ShapeInv
  <2>2. server' = server /\ todo'[c] = known'[c] /\ phase'[c] = "setup"
    BY <1>5 DEF BeginSetup, TypeOK
  <2>3. (Entered(c) \ todo[c])' = {}
    BY <2>2 DEF Entered
  <2>4. ConnInv(c)'
    BY <1>5, <2>2, <2>3, BeginFits DEF ConnInv
  <2> QED
    BY <1>1, <2>1, <2>2, <2>4, ConnSame
<1>6. ASSUME NEW c \in Conns, NEW k \in Keys, SetupNext(c, k)
      PROVE  \A d \in Conns : ConnInv(d)'
  <2>1. /\ UNCHANGED << server, phase, known >> /\ phase[c] = "setup" /\ k \in todo[c]
        /\ todo'[c] = todo[c] \ {k}
        /\ \A d \in Conns : d # c => UNCHANGED << events[d], errors[d], todo[d] >>
    BY <1>6 DEF SetupNext, Enter, TypeOK, ShapeInv, tables
  <2>2. PICK mods \in SUBSET Keys : mods = Entered(c) \ todo[c]
    BY DEF Entered, TypeOK
  <2>3. TablesFit(c, mods) /\ k \in known[c] /\ todo[c] \subseteq known[c]
    BY <1>1, <2>1, <2>2 DEF ConnInv
  <2>4. TablesFit(c, Entered(c) \ todo[c])'
    <3>1. CASE server[k].present
      <4>1. Enter(c, k) /\ HasErrors(k)
        BY <1>6, <3>1 DEF SetupNext
      <4>2. TablesFit(c, mods \union {k})'
        BY <2>1, <2>3, <4>1, EnterFits
      <4>3. (Entered(c) \ todo[c])' = mods \union {k}
        BY <2>1, <2>2, <2>3, <3>1 DEF Entered
      <4> QED
        BY <4>2, <4>3
    <3>2. CASE ~server[k].present
      <4>1. UNCHANGED << events, errors >>
        BY <1>6, <3>2 DEF SetupNext, tables
      <4>2. (Entered(c) \ todo[c])' = mods
        BY <2>1, <2>2, <2>3, <3>2 DEF Entered
      <4>3. TablesFit(c, mods)'
        BY <2>1, <2>3, <4>1 DEF TablesFit, EventBase, ErrorBase
      <4> QED
        BY <4>2, <4>3
    <3> QED
      BY <3>1, <3>2
  <2>5. ConnInv(c)'
    BY <2>1, <2>3, <2>4 DEF ConnInv
  <2> QED
    BY <1>1, <2>1, <2>5, ConnSame
<1>7. ASSUME NEW c \in Conns, SetupDone(c) PROVE \A d \in Conns : ConnInv(d)'
  BY <1>1, <1>7, ConnSame DEF SetupDone, tables, TypeOK
<1>8. ASSUME NEW c \in Conns, NEW k \in Keys, SetupOverruns(c, k)
      PROVE  \A d \in Conns : ConnInv(d)'
  BY <1>3, <1>4, <1>8 DEF SetupOverruns, tables
<1>9. ASSUME NEW c \in Conns, NEW k \in Keys,
             \/ SetupMisses(c, k) \/ SetupWithoutReply(c, k) \/ CallLoads(c, k)
             \/ CallWithoutReply(c, k) \/ CallUnknown(c, k)
      PROVE  \A d \in Conns : ConnInv(d)'
  BY <1>3, <1>4, <1>9
     DEF SetupMisses, SetupWithoutReply, CallLoads, CallWithoutReply, CallUnknown
<1>10. ASSUME NEW c \in Conns, ConnectFails(c) \/ Lose(c)
       PROVE  \A d \in Conns : ConnInv(d)'
  BY <1>3, <1>4, <1>10 DEF ConnectFails, Lose
<1>11. ASSUME AddCore \/ \E k \in Keys, entries \in 1 .. 3 : AddExt(k, entries)
       PROVE  \A d \in Conns : ConnInv(d)'
  BY <1>3, <1>11 DEF AddCore, AddExt
<1>12. CASE UNCHANGED vars
  BY <1>3, <1>12 DEF vars
<1> QED
  BY <1>5, <1>6, <1>7, <1>8, <1>9, <1>10, <1>11, <1>12 DEF Next, Connect, Wrap

-----------------------------------------------------------------------------
(* The theorems.                                                           *)

\* Types, caches and tables stay right together.
THEOREM Inductive == Spec => []IInv
<1>1. Init => IInv
  <2> SUFFICES ASSUME Init PROVE IInv
    OBVIOUS
  <2> USE DEF Init
  <2>1. TypeOK
    <3>1. IsTable(Empty)
      BY TableLength DEF Empty
    <3>2. \A c \in Conns, k \in Keys : extcache[c][k].id = 0 /\ objects[c][k] = 0
      BY DEF None
    <3>3. /\ \A c \in Conns, k \in Keys : extcache[c][k].id \in 0 .. objects[c][k]
          /\ \A c \in Conns : IsTable(events[c]) /\ IsTable(errors[c])
      BY <3>1, <3>2
    <3>4. /\ phase \in [Conns -> { "none", "setup", "ready", "failed" }]
          /\ known \in [Conns -> SUBSET Keys] /\ todo \in [Conns -> SUBSET Keys]
      OBVIOUS
    <3> QED
      BY <3>3, <3>4 DEF TypeOK
  <2>2. ShapeInv
    BY DEF ShapeInv
  <2>3. CacheInv
    <3>1. \A c \in Conns, k \in Keys :
            extcache[c][k].id = 0 /\ objects[c][k] = 0 /\ todo[c] = {}
      BY DEF None
    <3> HIDE DEF Init
    <3> QED
      BY <3>1 DEF CacheInv, OneExtension
  <2>4. TableInv
    BY DEF TableInv
  <2> QED
    BY <2>1, <2>2, <2>3, <2>4 DEF IInv
<1>2. IInv /\ [Next]_vars => IInv'
  BY TypeStep, CacheStep, TableStep DEF IInv
<1> QED
  BY <1>1, <1>2, PTL DEF Spec

\* Every variable keeps its type; no table has more slots than there are codes.
THEOREM TypeCorrect == Spec => []TypeOK
<1>1. IInv => TypeOK
  BY DEF IInv
<1> QED
  BY <1>1, Inductive, PTL

\* A connection never makes a second Extension for a key.
THEOREM ExtensionsCached == Spec => []OneExtension
<1>1. IInv => OneExtension
  BY DEF IInv, CacheInv
<1> QED
  BY <1>1, Inductive, PTL

\* Every error is given a class that was registered for it, whatever modules are
\* imported, whatever numbers the server gives them, whenever it is connected.
THEOREM ErrorsFindTheirClass == Spec => []ErrorsDispatched
<1>1. IInv => ErrorsDispatched
  BY DEF IInv, TableInv, ErrorsDispatched, ErrorClass
<1> QED
  BY <1>1, Inductive, PTL

\* Every event as well, whether the server or a client sent it.
THEOREM EventsFindTheirClass == Spec => []EventsDispatched
<1>1. IInv => EventsDispatched
  <2> DEFINE half == Byte \div 2
  <2> SUFFICES ASSUME IInv, NEW c \in Conns, phase[c] = "ready",
                      NEW code \in 0 .. half - 1, NEW sent \in { 0, half }
               PROVE  Fits(EventClass(c, code + sent),
                           Claims(Entered(c), EventNums, EventBase, code))
    BY DEF EventsDispatched
  <2>1. half \in Nat \ {0} /\ code \in Codes
    <3>1. half \in Nat /\ half <= Byte
      BY ConstantsAssumption
    <3> HIDE DEF half
    <3> QED
      BY <3>1, ConstantsAssumption DEF Codes
  <2>2. (code + sent) % half = code
    <3> HIDE DEF half
    <3> QED
      BY <2>1, Remainder
  <2>3. EventClass(c, code + sent) = LookUp(events[c], code)
    BY <2>2 DEF EventClass
  <2>4. Fits(LookUp(events[c], code), Claims(Entered(c), EventNums, EventBase, code))
    BY <2>1 DEF IInv, TableInv
  <2> QED
    BY <2>3, <2>4
<1> QED
  BY <1>1, Inductive, PTL

-----------------------------------------------------------------------------
(* What the process dies of.                                               *)

\* Only the last code is at or beyond the end of the table made for it, and no
\* table reaches beyond the codes.
LEMMA OverrunByLast ==
  ASSUME NEW tab, NEW first \in Codes, NEW nums \in SUBSET Codes,
         Overruns(tab, first, nums)
  PROVE  \E n \in nums : (first + n) % Byte = Byte - 1
<1>1. PICK n \in nums : Code(first, n) >= NewLen(Code(first, n))
  BY DEF Overruns
<1>2. PICK code \in 0 .. Byte - 1 : code = Code(first, n)
  BY CodeType DEF Codes
<1>3. ASSUME code # Byte - 1 PROVE FALSE
  <2>1. code + 1 \in 0 .. Byte - 1
    BY <1>3, ConstantsAssumption
  <2>2. (code + 1) % Byte = code + 1
    BY <2>1, ConstantsAssumption, Remainder
  <2> QED
    BY <1>1, <1>2, <2>2 DEF NewLen
<1> QED
  BY <1>2, <1>3 DEF Code

\* An overrun of either table of a connection is one by a last code.
LEMMA TableOverrunByLast ==
  ASSUME TypeOK, NEW c \in Conns, NEW k \in Keys, TableOverrun(c, k)
  PROVE  LastCode(k)
<1>1. /\ server[k].first_event \in Codes /\ server[k].first_error \in Codes
      /\ EventNums[k] \in SUBSET Codes /\ ErrorNums[k] \in SUBSET Codes
      /\ RegisteredErrors(k) \in SUBSET Codes /\ RegisteredErrors(k) \subseteq ErrorNums[k]
  BY NumberTypes DEF TypeOK, RegisteredErrors, Modules
<1>2. CASE Overruns(events[c], server[k].first_event, EventNums[k])
  BY <1>1, <1>2, OverrunByLast DEF TableOverrun, LastCode
<1>3. CASE Overruns(errors[c], server[k].first_error, RegisteredErrors(k))
  BY <1>1, <1>3, OverrunByLast DEF TableOverrun, LastCode
<1> QED
  BY <1>2, <1>3 DEF TableOverrun

\* The step that kills the process shows what it died of; a dead process does
\* nothing any more.
LEMMA DeathStep ==
  ASSUME IInv, DiesOnlyWhen, [Next]_vars
  PROVE  DiesOnlyWhen'
<1>1. CASE UNCHANGED vars
  BY <1>1 DEF vars, registry, caches, DiesOnlyWhen, LastCode
<1>2. CASE Next /\ crashed # "no"
  BY <1>2 DEF Next, AddCore, AddExt, ConnectFails, Connect, Wrap, BeginSetup, SetupDone,
              Lose, SetupMisses, SetupNext, SetupWithoutReply, SetupOverruns, CallLoads,
              CallWithoutReply, CallUnknown, MayCall, Quiet
<1>3. CASE crashed' = "no"
  BY <1>3 DEF DiesOnlyWhen
<1>4. CASE Next /\ crashed = "no" /\ crashed' # "no"
  <2>1. PICK c \in Conns, k \in Keys :
          \/ SetupWithoutReply(c, k) \/ SetupOverruns(c, k)
          \/ CallWithoutReply(c, k) \/ CallUnknown(c, k)
    <3>1. ~AddCore /\ \A k \in Keys, entries \in 1 .. 3 : ~AddExt(k, entries)
      BY <1>4 DEF AddCore, AddExt
    <3>2. \A c \in Conns : /\ ~ConnectFails(c) /\ ~Connect(c) /\ ~Wrap(c)
                          /\ ~SetupDone(c) /\ ~Lose(c)
      BY <1>4 DEF Connect, Wrap, BeginSetup, ConnectFails, SetupDone, Lose
    <3>3. \A c \in Conns, k \in Keys :
            ~SetupMisses(c, k) /\ ~SetupNext(c, k) /\ ~CallLoads(c, k)
      BY <1>4 DEF SetupNext, SetupMisses, CallLoads
    <3> QED
      BY <1>4, <3>1, <3>2, <3>3 DEF Next
  <2>2. CASE SetupOverruns(c, k)
    <3>1. /\ crashed' = "overrun" /\ k \in todo[c] /\ TableOverrun(c, k)
          /\ UNCHANGED << server, todo >>
      BY <1>4, <2>2 DEF SetupOverruns
    <3>2. LastCode(k)'
      BY <3>1, TableOverrunByLast DEF IInv, LastCode
    <3> QED
      BY <3>1, <3>2 DEF DiesOnlyWhen
  <2>3. CASE SetupWithoutReply(c, k)
    <3>1. /\ crashed' = "no reply" /\ c \in lost /\ k \in todo[c] /\ k \in extdict
          /\ UNCHANGED << lost, extdict, extcache >>
      BY <2>3 DEF SetupWithoutReply, HasErrors, IInv, TypeOK, registry, caches
    <3>2. extcache[c][k].id = 0
      <4>1. /\ extcache[c][k].id = objects[c][k]
            /\ crashed = "no" /\ k \in todo[c] => objects[c][k] = 0
        BY Zenon DEF IInv, CacheInv
      <4> QED
        BY <1>4, <3>1, <4>1
    <3> QED
      BY <3>1, <3>2 DEF DiesOnlyWhen
  <2>4. CASE CallWithoutReply(c, k)
    <3>1. /\ crashed' = "no reply" /\ c \in lost' /\ k \in extdict
          /\ extcache[c][k].id = 0 /\ UNCHANGED << extdict, extcache >>
      BY <2>4 DEF CallWithoutReply, registry, caches
    <3> QED
      BY <3>1 DEF DiesOnlyWhen
  <2>5. CASE CallUnknown(c, k)
    BY <2>5 DEF CallUnknown, MayCall, registry, DiesOnlyWhen
  <2> QED
    BY <2>1, <2>2, <2>3, <2>4, <2>5
<1> QED
  BY <1>1, <1>2, <1>3, <1>4

\* The process dies of the last code, of the loss of a connection that lacks a
\* registered extension, or of an unregistered key, and of nothing else.
THEOREM Dies == Spec => []DiesOnlyWhen
<1>1. Init => DiesOnlyWhen
  BY DEF Init, DiesOnlyWhen
<1>2. IInv /\ DiesOnlyWhen /\ [Next]_vars => DiesOnlyWhen'
  BY DeathStep
<1> QED
  BY <1>1, <1>2, Inductive, PTL DEF Spec
=============================================================================
