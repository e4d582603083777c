-------------------------- MODULE GetSetup_proofs --------------------------
(***************************************************************************)
(* Proofs about GetSetup, and with it about Lifetime: whatever numbers of  *)
(* Connections, Cookies, Extensions and threads there are, the reference   *)
(* counts are exact, nothing in use is freed and dropping references       *)
(* closes no connection.  The counts are cardinalities of sets of things   *)
(* that refer to a Connection, hence the lemmas about those first.         *)
(***************************************************************************)
EXTENDS GetSetup, FiniteSetTheorems, TLAPS

\* The Cookies and the cached Extensions of a Connection.
CookiesOf(c) == { k \in Cookies : cookie[k] = c }
KeptOf(c)    == { e \in Exts : e[1] = c /\ e \in kept }

\* The count of one Connection.
Counted(c) ==
  conn[c] = "alive" =>
    refs[c] = myconns[c] + Cardinality(Builders(c)) + Cardinality(KeptOf(c))
                + Cardinality(CookiesOf(c))

\* The count of the Setup objects of one Connection.
SetupCounted(c) ==
  LET held == mysetups[c] + (IF c \in setup THEN 1 ELSE 0) IN
    IF c \in overlapped THEN srefs[c] >= held ELSE srefs[c] = held

\* The bound of the counts.
LEMMA MaxIsNat == MaxRefs \in Nat /\ MaxRefs > 0
BY ConstantsAssumption

\* Counting up below the bound stays within it.
LEMMA OneMore ==
  ASSUME NEW S, NEW f \in [S -> 0 .. MaxRefs], NEW x \in S, f[x] < MaxRefs
  PROVE  [f EXCEPT ![x] = @ + 1] \in [S -> 0 .. MaxRefs]
BY ConstantsAssumption

\* Counting down above zero stays within it.
LEMMA OneLess ==
  ASSUME NEW S, NEW f \in [S -> 0 .. MaxRefs], NEW x \in S, f[x] > 0
  PROVE  [f EXCEPT ![x] = @ - 1] \in [S -> 0 .. MaxRefs]
BY ConstantsAssumption

\* What a Connection counts is finite: its Extensions, Cookies and threads.
LEMMA FiniteCounts ==
  ASSUME NEW c \in Conns
  PROVE  /\ IsFiniteSet(KeptOf(c)) /\ IsFiniteSet(KeptOf(c)')
         /\ IsFiniteSet(CookiesOf(c)) /\ IsFiniteSet(CookiesOf(c)')
         /\ IsFiniteSet(Builders(c)) /\ IsFiniteSet(Builders(c)')
         /\ Cardinality(KeptOf(c)) \in Nat
         /\ Cardinality(CookiesOf(c)) \in Nat
         /\ Cardinality(Builders(c)) \in Nat
<1>1. IsFiniteSet({c} \X (Keys \union {Core}))
  <2>1. IsFiniteSet(Keys \union {Core}) /\ IsFiniteSet({c})
    BY FS_Singleton, FS_Union, ConstantsAssumption
  <2> QED BY <2>1, FS_Product
<1>2. KeptOf(c) \subseteq {c} \X (Keys \union {Core})
  BY DEF KeptOf, Exts
<1>3. KeptOf(c)' \subseteq {c} \X (Keys \union {Core})
  BY DEF KeptOf, Exts
<1>4. IsFiniteSet(KeptOf(c)) /\ IsFiniteSet(KeptOf(c)')
  BY <1>1, <1>2, <1>3, FS_Subset
<1>5. CookiesOf(c) \subseteq Cookies /\ CookiesOf(c)' \subseteq Cookies
  BY DEF CookiesOf
<1>6. IsFiniteSet(CookiesOf(c)) /\ IsFiniteSet(CookiesOf(c)')
  BY <1>5, ConstantsAssumption, FS_Subset
<1>7. Builders(c) \subseteq Threads /\ Builders(c)' \subseteq Threads
  BY DEF Builders
<1>8. IsFiniteSet(Builders(c)) /\ IsFiniteSet(Builders(c)')
  BY <1>7, ThreadsAssumption, FS_Subset
<1> QED BY <1>4, <1>6, <1>8, FS_CardinalityType

\* Only cached Extensions have references, so that RefsExact can be stated for
\* one Connection at a time.
LEMMA CountsApart ==
  ASSUME TypeOK, CacheInv
  PROVE  RefsExact <=> \A c \in Conns : Counted(c) /\ SetupCounted(c)
<1>1. \A e \in Exts : erefs[e] > 0 <=> e \in kept
  BY DEF TypeOK, CacheInv, Held
<1>2. \A c \in Conns : { e \in Exts : e[1] = c /\ erefs[e] > 0 } = KeptOf(c)
  BY <1>1 DEF KeptOf
<1>3. \A e \in Exts : erefs[e] = myexts[e] + Held(e)
  BY DEF CacheInv
<1> QED
  BY <1>2, <1>3 DEF RefsExact, RefsExactWith, Counted, SetupCounted, CookiesOf

\* The same after a step.
LEMMA CountsApartNext ==
  ASSUME TypeOK', CacheInv'
  PROVE  RefsExact' <=> \A c \in Conns : Counted(c)' /\ SetupCounted(c)'
<1>1. \A e \in Exts : erefs'[e] > 0 <=> e \in kept'
  BY DEF TypeOK, CacheInv, Held
<1>2. \A c \in Conns : { e \in Exts : e[1] = c /\ erefs'[e] > 0 } = KeptOf(c)'
  BY <1>1 DEF KeptOf
<1>3. \A e \in Exts : erefs'[e] = myexts'[e] + Held(e)'
  BY DEF CacheInv
<1> QED
  BY <1>2, <1>3 DEF RefsExact, RefsExactWith, Counted, SetupCounted, CookiesOf

\* A Connection that was set up and has a reference besides that of its core
\* Extension does not lose its last one: Release only counts.
LEMMA NeverTheLast ==
  ASSUME IInv, NEW c \in Conns, conn[c] = "alive",
         \/ myconns[c] > 0
         \/ \E t \in Threads : building[t] = c
         \/ \E k \in Cookies : cookie[k] = c
  PROVE  refs[c] > 1
<1>1. Counted(c)
  BY CountsApart DEF IInv
<1>2. Cardinality(KeptOf(c)) # 0
  <2>1. << c, Core >> \in KeptOf(c)
    BY DEF IInv, CacheInv, TypeOK, KeptOf, Exts
  <2> QED BY <2>1, FiniteCounts, FS_EmptySet
<1>3. \/ myconns[c] > 0
      \/ Cardinality(Builders(c)) # 0
      \/ Cardinality(CookiesOf(c)) # 0
  <2>1. CASE \E t \in Threads : building[t] = c
    <3>1. Builders(c) # {} BY <2>1 DEF Builders
    <3> QED BY <3>1, FiniteCounts, FS_EmptySet
  <2>2. CASE \E k \in Cookies : cookie[k] = c
    <3>1. CookiesOf(c) # {} BY <2>2 DEF CookiesOf
    <3> QED BY <3>1, FiniteCounts, FS_EmptySet
  <2> QED BY <2>1, <2>2
<1>4. myconns[c] \in Nat
  BY DEF IInv, TypeOK
<1> QED BY <1>1, <1>2, <1>3, <1>4, FiniteCounts DEF Counted

\* An Extension the program holds is cached, so that its reference is not the
\* last one either.
LEMMA CacheHasIt ==
  ASSUME IInv, NEW e \in Exts, myexts[e] > 0
  PROVE  /\ e \in kept /\ erefs[e] > 1
         /\ e[1] \in Conns /\ conn[e[1]] = "alive"
<1>1. e \in kept /\ conn[e[1]] = "alive"
  BY DEF IInv, TypeOK, CacheInv
<1>2. erefs[e] = myexts[e] + Held(e) /\ Held(e) >= 1
  BY <1>1 DEF IInv, TypeOK, CacheInv, Held
<1>3. e[1] \in Conns
  BY DEF Exts
<1>4. myexts[e] \in Nat /\ Held(e) \in Nat
  BY DEF IInv, TypeOK, Held
<1> QED BY <1>1, <1>2, <1>3, <1>4

-----------------------------------------------------------------------------
(* What the actions that drop a reference come to.                         *)

\* Release without deallocation.
OnlyCounts(c, er) ==
  /\ refs' = [refs EXCEPT ![c] = @ - 1]
  /\ erefs' = er
  /\ UNCHANGED << conn, handle, kept, attrs >>

\* The program drops a Connection.
LEMMA DropConnCounts ==
  ASSUME IInv, NEW c \in Conns, DropConn(c)
  PROVE  OnlyCounts(c, erefs) /\ refs[c] > 1
<1>1. refs[c] > 1
  BY NeverTheLast DEF DropConn, Has
<1> QED BY <1>1 DEF DropConn, Release, OnlyCounts

\* The program drops an Extension, which stays in the cache.
LEMMA DropExtCounts ==
  ASSUME IInv, NEW e \in Exts, DropExt(e)
  PROVE  /\ erefs' = [erefs EXCEPT ![e] = @ - 1]
         /\ UNCHANGED << refs, conn, handle, kept, attrs >>
<1>1. erefs[e] > 1
  BY CacheHasIt DEF DropExt
<1>2. erefs \in [Exts -> Nat]
  BY DEF IInv, TypeOK
<1>3. [erefs EXCEPT ![e] = @ - 1][e] > 0
  BY <1>1, <1>2
<1> QED BY <1>3 DEF DropExt

\* A Cookie is deallocated.
LEMMA DropCookieCounts ==
  ASSUME IInv, NEW k \in Cookies, DropCookie(k)
  PROVE  /\ cookie[k] \in Conns /\ conn[cookie[k]] = "alive"
         /\ OnlyCounts(cookie[k], erefs) /\ refs[cookie[k]] > 1
<1>1. cookie[k] \in Conns /\ conn[cookie[k]] = "alive"
  BY DEF DropCookie, IInv, TypeOK, CacheInv
<1>2. refs[cookie[k]] > 1
  BY <1>1, NeverTheLast
<1> QED BY <1>1, <1>2 DEF DropCookie, Release, OnlyCounts, CookieHolds

\* The call of get_setup returns.
LEMMA EndSetupCounts ==
  ASSUME IInv, NEW t \in Threads, NEW made \in BOOLEAN, EndSetup(t, made)
  PROVE  /\ building[t] \in Conns /\ conn[building[t]] = "alive"
         /\ OnlyCounts(building[t], erefs) /\ refs[building[t]] > 1
<1>1. building[t] \in Conns /\ conn[building[t]] = "alive"
  BY DEF EndSetup, IInv, SetupTypeOK, BuildersInv
<1>2. refs[building[t]] > 1
  BY <1>1, NeverTheLast
<1> QED BY <1>1, <1>2 DEF EndSetup, Release, OnlyCounts

-----------------------------------------------------------------------------
(* What an action leaves alone.                                            *)

\* Actions that change references only: the parts of the invariant about the
\* pointers, the threads in get_setup and the fields are not touched.
LEMMA OnlyReferences ==
  ASSUME IInv, UNCHANGED << conn, handle, ptr, unset, setupvars >>
  PROVE  SetupTypeOK' /\ PointerInv' /\ BuildersInv' /\ NothingUnset'
<1>1. SetupTypeOK' /\ BuildersInv'
  BY DEF IInv, setupvars, SetupTypeOK, BuildersInv, Builders
<1>2. PointerInv'
  BY DEF IInv, PointerInv
<1>3. NothingUnset'
  BY DEF IInv, NothingUnset
<1> QED BY <1>1, <1>2, <1>3

\* Counts stay exact in a step without a new Extension, Cookie or call if the
\* program's variables account for the change of every count.
LEMMA SameReferrers ==
  ASSUME IInv, TypeOK', CacheInv', UNCHANGED << kept, cookie, setupvars >>,
         \A c \in Conns : conn'[c] = "alive" =>
           conn[c] = "alive" /\ refs'[c] + myconns[c] = refs[c] + myconns'[c]
  PROVE  RefsExact'
<1> SUFFICES ASSUME NEW c \in Conns PROVE Counted(c)' /\ SetupCounted(c)'
  BY CountsApartNext
<1>1. Counted(c) /\ SetupCounted(c)
  BY CountsApart DEF IInv
<1>2. KeptOf(c)' = KeptOf(c) /\ CookiesOf(c)' = CookiesOf(c) /\ Builders(c)' = Builders(c)
  BY DEF KeptOf, CookiesOf, Builders, setupvars
<1>3. SetupCounted(c)'
  BY <1>1 DEF SetupCounted, setupvars
<1>4. ASSUME conn'[c] = "alive"
      PROVE  refs'[c] = myconns'[c] + Cardinality(Builders(c)) + Cardinality(KeptOf(c))
                          + Cardinality(CookiesOf(c))
  <2>1. refs[c] = myconns[c] + Cardinality(Builders(c)) + Cardinality(KeptOf(c))
                    + Cardinality(CookiesOf(c))
    BY <1>1, <1>4 DEF Counted
  <2>2. refs'[c] + myconns[c] = refs[c] + myconns'[c]
    BY <1>4
  <2>3. /\ refs[c] \in Nat /\ myconns[c] \in Nat
        /\ refs'[c] \in Nat /\ myconns'[c] \in Nat
    BY DEF IInv, TypeOK
  <2> QED BY <2>1, <2>2, <2>3, FiniteCounts
<1>5. Counted(c)'
  BY <1>2, <1>4 DEF Counted
<1> QED BY <1>3, <1>5

-----------------------------------------------------------------------------
(* References to Extensions.                                               *)

\* The attribute core.
LEMMA TakeCoreSafe ==
  ASSUME IInv, NEW c \in Conns, TakeCore(c), UNCHANGED setupvars
  PROVE  IInv'
<1>0. PICK e \in Exts :
        /\ e \in kept /\ myexts[e] < MaxRefs
        /\ myexts' = [myexts EXCEPT ![e] = @ + 1]
        /\ erefs' = [erefs EXCEPT ![e] = @ + 1]
        /\ UNCHANGED << conn, kept, attrs, cookie >>
  <2>1. << c, Core >> \in Exts /\ << c, Core >> \in kept
    BY DEF IInv, CacheInv, TakeCore, Has, Exts
  <2> QED BY <2>1 DEF TakeCore
<1>1. TypeOK'
  <2>1. myexts' \in [Exts -> 0 .. MaxRefs]
    BY <1>0, OneMore DEF IInv, TypeOK
  <2> QED BY <1>0, <2>1 DEF IInv, TypeOK, TakeCore
<1>2. CacheInv'
  <2>1. /\ erefs' = [d \in Exts |-> IF d = e THEN erefs[d] + 1 ELSE erefs[d]]
        /\ myexts' = [d \in Exts |-> IF d = e THEN myexts[d] + 1 ELSE myexts[d]]
    BY <1>0 DEF IInv, TypeOK
  <2>2. \A d \in Exts : erefs[d] \in Nat /\ myexts[d] \in Nat
    BY MaxIsNat DEF IInv, TypeOK
  <2> QED BY <1>0, <2>1, <2>2 DEF IInv, CacheInv, Held
<1>3. RefsExact'
  BY <1>1, <1>2, SameReferrers DEF TakeCore
<1> QED BY <1>1, <1>2, <1>3, OnlyReferences DEF IInv, TakeCore

\* The program drops an Extension.
LEMMA DropExtSafe ==
  ASSUME IInv, NEW e \in Exts, DropExt(e), UNCHANGED setupvars
  PROVE  IInv'
<1>0. /\ myexts[e] > 0 /\ e \in kept /\ erefs[e] > 1
      /\ erefs' = [erefs EXCEPT ![e] = @ - 1]
      /\ myexts' = [myexts EXCEPT ![e] = @ - 1]
      /\ UNCHANGED << refs, conn, handle, kept, attrs, unset, ptr, wrapped, cookie, myconns >>
  BY DropExtCounts, CacheHasIt DEF DropExt
<1>1. TypeOK'
  <2>1. erefs' \in [Exts -> Nat]
    BY <1>0 DEF IInv, TypeOK
  <2>2. myexts' \in [Exts -> 0 .. MaxRefs]
    BY <1>0, OneLess DEF IInv, TypeOK
  <2> QED BY <1>0, <2>1, <2>2 DEF IInv, TypeOK
<1>2. CacheInv'
  BY <1>0 DEF IInv, TypeOK, CacheInv, Held
<1>3. RefsExact'
  BY <1>0, <1>1, <1>2, SameReferrers
<1> QED BY <1>0, <1>1, <1>2, <1>3, OnlyReferences DEF IInv

\* An Extension becomes an attribute.
LEMMA SetAttrSafe ==
  ASSUME IInv, NEW e \in Exts, SetAttr(e), UNCHANGED setupvars
  PROVE  IInv'
<1>0. e \in kept
  BY CacheHasIt DEF SetAttr
<1>1. TypeOK'
  BY DEF IInv, TypeOK, SetAttr
<1>2. CacheInv'
  BY <1>0 DEF IInv, TypeOK, CacheInv, SetAttr, Held
<1>3. RefsExact'
  BY <1>1, <1>2, SameReferrers DEF SetAttr
<1> QED BY <1>1, <1>2, <1>3, OnlyReferences DEF IInv, SetAttr

\* An attribute is deleted.
LEMMA DelAttrSafe ==
  ASSUME IInv, NEW e \in Exts, DelAttr(e), UNCHANGED setupvars
  PROVE  IInv'
<1>0. e \in kept /\ e \in attrs /\ erefs[e] > 0
  BY DEF IInv, TypeOK, CacheInv, DelAttr, Held
<1>1. TypeOK'
  BY <1>0 DEF IInv, TypeOK, DelAttr
<1>2. CacheInv'
  BY <1>0 DEF IInv, TypeOK, CacheInv, DelAttr, Held
<1>3. RefsExact'
  BY <1>1, <1>2, SameReferrers DEF DelAttr
<1> QED BY <1>1, <1>2, <1>3, OnlyReferences DEF IInv, DelAttr

\* An attribute is read.
LEMMA TakeAttrSafe ==
  ASSUME IInv, NEW e \in Exts, TakeAttr(e), UNCHANGED setupvars
  PROVE  IInv'
<1>0. e \in kept
  BY DEF IInv, CacheInv, TakeAttr
<1>1. TypeOK'
  BY OneMore DEF IInv, TypeOK, TakeAttr, DictGives
<1>2. CacheInv'
  BY <1>0 DEF IInv, TypeOK, CacheInv, TakeAttr, Held, DictGives
<1>3. RefsExact'
  BY <1>1, <1>2, SameReferrers DEF TakeAttr
<1> QED BY <1>1, <1>2, <1>3, OnlyReferences DEF IInv, TakeAttr

\* conn(key): from the cache, or new.
LEMMA CallSafe ==
  ASSUME IInv, NEW c \in Conns, NEW k \in Keys, NEW n \in 0 .. 1, Call(c, k, n),
         UNCHANGED setupvars
  PROVE  IInv'
<1>0. PICK e \in Exts : e = << c, k >>
  BY DEF Exts
<1>1. /\ conn[c] = "alive" /\ e[1] = c
      /\ myexts[e] + n <= MaxRefs
      /\ myexts' = [myexts EXCEPT ![e] = @ + n]
      /\ kept' = kept \union {e}
      /\ erefs' = [erefs EXCEPT ![e] = IF e \in kept THEN @ + n ELSE 1 + n]
      /\ UNCHANGED << attrs, unset, handle, conn, ptr, wrapped, cookie, myconns >>
  <2>1. CASE e \in kept
    <3>1. erefs' = [erefs EXCEPT ![e] = @ + 1 - (1 - n)]
      BY <1>0, <2>1 DEF Call, CacheGives
    <3>2. erefs[e] + 1 - (1 - n) = erefs[e] + n
      BY DEF IInv, TypeOK
    <3> QED BY <1>0, <2>1, <3>1, <3>2 DEF Call, Has
  <2>2. CASE e \notin kept
    BY <1>0, <2>2 DEF Call, Has
  <2> QED BY <2>1, <2>2
<1>2. refs' = IF e \in kept THEN refs ELSE [refs EXCEPT ![c] = @ + 1]
  BY <1>0 DEF Call, ExtHolds
<1>3. TypeOK'
  <2>1. erefs' \in [Exts -> Nat]
    BY <1>1 DEF IInv, TypeOK
  <2>2. myexts' \in [Exts -> 0 .. MaxRefs]
    BY <1>1, MaxIsNat DEF IInv, TypeOK
  <2>3. refs' \in [Conns -> Nat]
    BY <1>2 DEF IInv, TypeOK
  <2> QED BY <1>1, <2>1, <2>2, <2>3 DEF IInv, TypeOK
<1>4. CacheInv'
  <2>1. ASSUME NEW d \in Exts
        PROVE  /\ erefs'[d] = myexts'[d] + Held(d)'
               /\ d \in kept' => conn'[d[1]] = "alive"
               /\ d \notin kept' => myexts'[d] = 0 /\ d \notin attrs'
    <3>1. /\ erefs[d] = myexts[d] + Held(d)
          /\ d \in kept => conn[d[1]] = "alive"
          /\ d \notin kept => myexts[d] = 0 /\ d \notin attrs
      BY DEF IInv, CacheInv
    <3>2. erefs[d] \in Nat /\ myexts[d] \in Nat
      BY MaxIsNat DEF IInv, TypeOK
    <3>3. CASE d = e
      <4>1. /\ myexts'[e] = myexts[e] + n
            /\ erefs'[e] = IF e \in kept THEN erefs[e] + n ELSE 1 + n
        BY <1>1 DEF IInv, TypeOK
      <4> QED BY <1>1, <3>1, <3>2, <3>3, <4>1 DEF Held
    <3>4. CASE d # e
      <4>1. myexts'[d] = myexts[d] /\ erefs'[d] = erefs[d]
        BY <1>1, <3>4 DEF IInv, TypeOK
      <4> QED BY <1>1, <3>1, <3>4, <4>1 DEF Held
    <3> QED BY <3>3, <3>4
  <2>2. \A d \in Conns : conn'[d] = "alive" => << d, Core >> \in kept'
    BY <1>1 DEF IInv, CacheInv
  <2>3. \A x \in Cookies : cookie'[x] # Null => conn'[cookie'[x]] = "alive"
    BY <1>1 DEF IInv, CacheInv
  <2> QED BY <2>1, <2>2, <2>3 DEF CacheInv
<1>5. RefsExact'
  <2>1. CASE e \in kept
    BY <1>1, <1>2, <1>3, <1>4, <2>1, SameReferrers DEF IInv, TypeOK
  <2>2. CASE e \notin kept
    <3> SUFFICES ASSUME NEW d \in Conns PROVE Counted(d)' /\ SetupCounted(d)'
      BY <1>3, <1>4, CountsApartNext
    <3>1. Counted(d) /\ SetupCounted(d)
      BY CountsApart DEF IInv
    <3>2. CookiesOf(d)' = CookiesOf(d) /\ Builders(d)' = Builders(d)
      BY <1>1 DEF CookiesOf, Builders, setupvars
    <3>3. SetupCounted(d)'
      BY <3>1 DEF SetupCounted, setupvars
    <3>4. CASE d = c
      <4>1. KeptOf(c)' = KeptOf(c) \union {e} /\ e \notin KeptOf(c)
        BY <1>1, <2>2 DEF KeptOf
      <4>2. Cardinality(KeptOf(c)') = Cardinality(KeptOf(c)) + 1
        BY <4>1, FiniteCounts, FS_AddElement
      <4>3. refs'[c] = refs[c] + 1 /\ refs[c] \in Nat /\ myconns[c] \in Nat
        BY <1>2, <2>2 DEF IInv, TypeOK
      <4> QED BY <1>1, <3>1, <3>2, <3>3, <3>4, <4>2, <4>3, FiniteCounts DEF Counted
    <3>5. CASE d # c
      <4>1. KeptOf(d)' = KeptOf(d)
        BY <1>1, <3>5 DEF KeptOf
      <4>2. refs'[d] = refs[d]
        BY <1>2, <3>5 DEF IInv, TypeOK
      <4> QED BY <1>1, <3>1, <3>2, <3>3, <4>1, <4>2 DEF Counted
    <3> QED BY <3>4, <3>5
  <2> QED BY <2>1, <2>2
<1> QED BY <1>1, <1>3, <1>4, <1>5, OnlyReferences DEF IInv

-----------------------------------------------------------------------------
(* References to Connections.                                              *)

\* The attribute conn of an Extension.
LEMMA TakeConnSafe ==
  ASSUME IInv, NEW e \in Exts, TakeConn(e), UNCHANGED setupvars
  PROVE  IInv'
<1>0. PICK c \in Conns : c = e[1] /\ conn[c] = "alive"
  BY CacheHasIt DEF TakeConn
<1>1. TypeOK'
  <2>1. myconns' \in [Conns -> 0 .. MaxRefs]
    BY <1>0, OneMore DEF IInv, TypeOK, TakeConn
  <2> QED BY <1>0, <2>1 DEF IInv, TypeOK, TakeConn
<1>2. CacheInv'
  BY DEF IInv, CacheInv, TakeConn, Held
<1>3. RefsExact'
  <2>1. \A d \in Conns : refs'[d] + myconns[d] = refs[d] + myconns'[d]
    BY <1>0, MaxIsNat DEF IInv, TypeOK, TakeConn
  <2> QED BY <1>1, <1>2, <2>1, SameReferrers DEF TakeConn
<1> QED BY <1>1, <1>2, <1>3, OnlyReferences DEF IInv, TakeConn

\* The program drops a Connection.
LEMMA DropConnSafe ==
  ASSUME IInv, NEW c \in Conns, DropConn(c), UNCHANGED setupvars
  PROVE  IInv'
<1>0. /\ myconns[c] > 0 /\ refs[c] > 1
      /\ myconns' = [myconns EXCEPT ![c] = @ - 1]
      /\ refs' = [refs EXCEPT ![c] = @ - 1]
      /\ UNCHANGED << conn, handle, kept, attrs, erefs, unset, ptr, wrapped, cookie, myexts >>
  BY DropConnCounts DEF DropConn, Has, OnlyCounts
<1>1. TypeOK'
  <2>1. myconns' \in [Conns -> 0 .. MaxRefs]
    BY <1>0, OneLess DEF IInv, TypeOK
  <2>2. refs' \in [Conns -> Nat]
    BY <1>0 DEF IInv, TypeOK
  <2> QED BY <1>0, <2>1, <2>2 DEF IInv, TypeOK
<1>2. CacheInv'
  BY <1>0 DEF IInv, CacheInv, Held
<1>3. RefsExact'
  <2>1. \A d \in Conns : refs'[d] + myconns[d] = refs[d] + myconns'[d]
    BY <1>0, MaxIsNat DEF IInv, TypeOK
  <2> QED BY <1>0, <1>1, <1>2, <2>1, SameReferrers
<1> QED BY <1>0, <1>1, <1>2, <1>3, OnlyReferences DEF IInv

\* A request: a new Cookie refers to the Connection.
LEMMA SendSafe ==
  ASSUME IInv, NEW e \in Exts, NEW k \in Cookies, Send(e, k), UNCHANGED setupvars
  PROVE  IInv'
<1>0. PICK c \in Conns : c = e[1] /\ conn[c] = "alive"
  BY CacheHasIt DEF Send
<1>1. /\ cookie[k] = Null /\ c # Null
      /\ cookie' = [cookie EXCEPT ![k] = c]
      /\ refs' = [refs EXCEPT ![c] = @ + 1]
      /\ UNCHANGED << attrs, unset, handle, conn, ptr, wrapped, erefs, kept, myconns, myexts >>
  BY <1>0, ConstantsAssumption DEF Send, CookieHolds
<1>2. TypeOK'
  BY <1>1 DEF IInv, TypeOK
<1>3. CacheInv'
  BY <1>0, <1>1 DEF IInv, TypeOK, CacheInv, Held
<1>4. RefsExact'
  <2> SUFFICES ASSUME NEW d \in Conns PROVE Counted(d)' /\ SetupCounted(d)'
    BY <1>2, <1>3, CountsApartNext
  <2>1. Counted(d) /\ SetupCounted(d)
    BY CountsApart DEF IInv
  <2>2. KeptOf(d)' = KeptOf(d) /\ Builders(d)' = Builders(d)
    BY <1>1 DEF KeptOf, Builders, setupvars
  <2>3. SetupCounted(d)'
    BY <2>1 DEF SetupCounted, setupvars
  <2>4. CASE d = c
    <3>1. CookiesOf(c)' = CookiesOf(c) \union {k} /\ k \notin CookiesOf(c)
      BY <1>1 DEF CookiesOf, IInv, TypeOK
    <3>2. Cardinality(CookiesOf(c)') = Cardinality(CookiesOf(c)) + 1
      BY <3>1, FiniteCounts, FS_AddElement
    <3>3. refs'[c] = refs[c] + 1 /\ refs[c] \in Nat /\ myconns[c] \in Nat
      BY <1>1 DEF IInv, TypeOK
    <3> QED BY <1>1, <2>1, <2>2, <2>3, <2>4, <3>2, <3>3, FiniteCounts DEF Counted
  <2>5. CASE d # c
    <3>1. CookiesOf(d)' = CookiesOf(d)
      <4>1. d # Null BY ConstantsAssumption
      <4> QED BY <1>1, <2>5, <4>1 DEF CookiesOf, IInv, TypeOK
    <3>2. refs'[d] = refs[d]
      BY <1>1, <2>5 DEF IInv, TypeOK
    <3> QED BY <1>1, <2>1, <2>2, <2>3, <3>1, <3>2 DEF Counted
  <2> QED BY <2>4, <2>5
<1> QED BY <1>1, <1>2, <1>3, <1>4, OnlyReferences DEF IInv

\* A Cookie is deallocated.
LEMMA DropCookieSafe ==
  ASSUME IInv, NEW k \in Cookies, DropCookie(k), UNCHANGED setupvars
  PROVE  IInv'
<1>0. PICK c \in Conns : c = cookie[k] /\ conn[c] = "alive" /\ c # Null
  BY DropCookieCounts, ConstantsAssumption
<1>1. /\ refs[c] > 1
      /\ cookie' = [cookie EXCEPT ![k] = Null]
      /\ refs' = [refs EXCEPT ![c] = @ - 1]
      /\ UNCHANGED << attrs, unset, handle, conn, ptr, wrapped, erefs, kept, myconns, myexts >>
  BY <1>0, DropCookieCounts DEF DropCookie, OnlyCounts
<1>2. TypeOK'
  <2>1. refs' \in [Conns -> Nat]
    BY <1>1 DEF IInv, TypeOK
  <2> QED BY <1>1, <2>1 DEF IInv, TypeOK
<1>3. CacheInv'
  BY <1>0, <1>1 DEF IInv, TypeOK, CacheInv, Held
<1>4. RefsExact'
  <2> SUFFICES ASSUME NEW d \in Conns PROVE Counted(d)' /\ SetupCounted(d)'
    BY <1>2, <1>3, CountsApartNext
  <2>1. Counted(d) /\ SetupCounted(d)
    BY CountsApart DEF IInv
  <2>2. KeptOf(d)' = KeptOf(d) /\ Builders(d)' = Builders(d)
    BY <1>1 DEF KeptOf, Builders, setupvars
  <2>3. SetupCounted(d)'
    BY <2>1 DEF SetupCounted, setupvars
  <2>4. CASE d = c
    <3>1. CookiesOf(c)' = CookiesOf(c) \ {k} /\ k \in CookiesOf(c)
      BY <1>0, <1>1 DEF CookiesOf, IInv, TypeOK
    <3>2. Cardinality(CookiesOf(c)') = Cardinality(CookiesOf(c)) - 1
      BY <3>1, FiniteCounts, FS_RemoveElement
    <3>3. refs'[c] = refs[c] - 1 /\ refs[c] \in Nat /\ myconns[c] \in Nat
      BY <1>1 DEF IInv, TypeOK
    <3> QED BY <1>1, <2>1, <2>2, <2>3, <2>4, <3>2, <3>3, FiniteCounts DEF Counted
  <2>5. CASE d # c
    <3>1. CookiesOf(d)' = CookiesOf(d)
      <4>1. d # Null BY ConstantsAssumption
      <4> QED BY <1>0, <1>1, <2>5, <4>1 DEF CookiesOf, IInv, TypeOK
    <3>2. refs'[d] = refs[d]
      BY <1>1, <2>5 DEF IInv, TypeOK
    <3> QED BY <1>1, <2>1, <2>2, <2>3, <3>1, <3>2 DEF Counted
  <2> QED BY <2>4, <2>5
<1> QED BY <1>1, <1>2, <1>3, <1>4, OnlyReferences DEF IInv

-----------------------------------------------------------------------------
(* Closing and making connections.                                         *)

\* What get_setup relies on stays as it is while Connections that were set up
\* stay so.
LEMMA OutsideGetSetup ==
  ASSUME IInv, UNCHANGED setupvars,
         \A c \in Conns : conn[c] = "alive" => conn'[c] = "alive"
  PROVE  SetupTypeOK' /\ BuildersInv'
<1>1. SetupTypeOK'
  BY DEF IInv, SetupTypeOK, setupvars
<1>2. \A c \in setup' : conn'[c] = "alive"
  BY DEF IInv, SetupTypeOK, BuildersInv, setupvars
<1>3. \A t \in Threads : building[t] # Null => building[t] \in Conns
  BY DEF IInv, SetupTypeOK
<1>4. building' = building /\ overlapped' = overlapped /\ setup' = setup
  BY DEF setupvars
<1>5. \A c : Builders(c)' = Builders(c)
  BY <1>4 DEF Builders
<1>6. ASSUME NEW t \in Threads, building[t] # Null
      PROVE  /\ conn'[building[t]] = "alive"
             /\ building[t] \notin overlapped =>
                  building[t] \notin setup /\ Builders(building[t]) = {t}
  BY <1>3, <1>6 DEF IInv, BuildersInv
<1>7. BuildersInv'
  BY <1>2, <1>4, <1>6 DEF BuildersInv, Builders
<1> QED BY <1>1, <1>7

\* disconnect() closes what one Connection points to and no other does.
LEMMA DisconnectSafe ==
  ASSUME IInv, NEW c \in Conns, Disconnect(c), UNCHANGED setupvars
  PROVE  IInv'
<1>0. PICK h \in Handles :
        /\ h = ptr[c] /\ h # Null
        /\ handle' = [handle EXCEPT ![h] = "closed"]
        /\ ptr' = [ptr EXCEPT ![c] = Null]
        /\ UNCHANGED << attrs, unset, conn, wrapped, refs, erefs, kept, cookie, myconns, myexts >>
  BY DEF IInv, TypeOK, Disconnect, Valid, Reset
<1>1. TypeOK'
  BY <1>0 DEF IInv, TypeOK
<1>2. CacheInv'
  BY <1>0 DEF IInv, CacheInv, Held
<1>3. PointerInv'
  BY <1>0 DEF IInv, TypeOK, PointerInv
<1>4. RefsExact'
  BY <1>0, <1>1, <1>2, SameReferrers DEF IInv, TypeOK
<1>5. NothingUnset'
  BY <1>0 DEF IInv, NothingUnset
<1> QED BY <1>0, <1>1, <1>2, <1>3, <1>4, <1>5, OutsideGetSetup DEF IInv

\* The owner closes a connection that nobody points to.
LEMMA OwnerClosesSafe ==
  ASSUME IInv, NEW h \in Handles, OwnerCloses(h), UNCHANGED setupvars
  PROVE  IInv'
<1>1. TypeOK'
  BY DEF IInv, TypeOK, OwnerCloses
<1>2. CacheInv'
  BY DEF IInv, CacheInv, Held, OwnerCloses
<1>3. PointerInv'
  BY DEF IInv, TypeOK, PointerInv, OwnerCloses
<1>4. RefsExact'
  BY <1>1, <1>2, SameReferrers DEF IInv, TypeOK, OwnerCloses
<1>5. NothingUnset'
  BY DEF IInv, NothingUnset, OwnerCloses
<1> QED BY <1>1, <1>2, <1>3, <1>4, <1>5, OutsideGetSetup DEF IInv, OwnerCloses

\* The Extensions setup leaves.
NewExts(c, ks) == { << c, k >> : k \in ks \union {Core} }

\* Setup caches each of them, once.
LEMMA NewExtsCounted ==
  ASSUME NEW c \in Conns, NEW ks \in SUBSET Keys
  PROVE  /\ NewExts(c, ks) \subseteq Exts /\ << c, Core >> \in NewExts(c, ks)
         /\ \A e \in NewExts(c, ks) : e[1] = c
         /\ Cardinality(NewExts(c, ks)) \in Nat
<1>1. NewExts(c, ks) \subseteq {c} \X (Keys \union {Core})
  BY DEF NewExts
<1>2. IsFiniteSet({c} \X (Keys \union {Core}))
  <2>1. IsFiniteSet(Keys \union {Core}) /\ IsFiniteSet({c})
    BY FS_Singleton, FS_Union, ConstantsAssumption
  <2> QED BY <2>1, FS_Product
<1>3. Cardinality(NewExts(c, ks)) \in Nat
  BY <1>1, <1>2, FS_Subset, FS_CardinalityType
<1>4. NewExts(c, ks) \subseteq Exts /\ \A e \in NewExts(c, ks) : e[1] = c
  BY <1>1 DEF Exts
<1>5. << c, Core >> \in NewExts(c, ks)
  BY DEF NewExts
<1> QED BY <1>3, <1>4, <1>5

\* What setup does, in terms of those.
LEMMA SetUpCaches ==
  ASSUME NEW c \in Conns, NEW ks \in SUBSET Keys, SetUp(c, ks)
  PROVE  /\ kept' = kept \union NewExts(c, ks)
         /\ erefs' = [e \in Exts |-> IF e \in NewExts(c, ks) THEN 1 ELSE erefs[e]]
         /\ refs' = [refs EXCEPT ![c] = 1 + Cardinality(NewExts(c, ks))]
<1>1. kept' = kept \union NewExts(c, ks)
  BY DEF SetUp, NewExts
<1>2. erefs' = [e \in Exts |-> IF e \in NewExts(c, ks) THEN 1 ELSE erefs[e]]
  BY DEF SetUp, NewExts
<1>3. refs' = [refs EXCEPT ![c] = 1 + Cardinality(NewExts(c, ks)) * ExtHolds]
  BY DEF SetUp, NewExts
<1>4. Cardinality(NewExts(c, ks)) * ExtHolds = Cardinality(NewExts(c, ks))
  <2>1. \A n \in Nat : n * ExtHolds = n
    BY DEF ExtHolds
  <2> QED BY <2>1, NewExtsCounted
<1> QED BY <1>1, <1>2, <1>3, <1>4

\* What Connect and Wrap have in common.
Made(c, h, ks) ==
  /\ conn[c] = "none" /\ conn' = [conn EXCEPT ![c] = "alive"]
  /\ \A d \in Conns : ptr[d] # h
  /\ ptr' = [ptr EXCEPT ![c] = h]
  /\ handle' = [handle EXCEPT ![h] = "open"]
  /\ wrapped' \in [Conns -> BOOLEAN]
  /\ \E u \in SUBSET {"pref_screen"} : unset' = [unset EXCEPT ![c] = u]
  /\ kept' = kept \union NewExts(c, ks)
  /\ erefs' = [e \in Exts |-> IF e \in NewExts(c, ks) THEN 1 ELSE erefs[e]]
  /\ refs' = [refs EXCEPT ![c] = 1 + Cardinality(NewExts(c, ks))]
  /\ myconns' = [myconns EXCEPT ![c] = 1]
  /\ UNCHANGED << attrs, cookie, myexts >>

\* Nothing refers to an object that is not a Connection yet, so that the first
\* counts are right.
LEMMA MadeSafe ==
  ASSUME IInv, NEW c \in Conns, NEW h \in Handles, NEW ks \in SUBSET Keys,
         Made(c, h, ks), UNCHANGED setupvars
  PROVE  IInv'
<1> DEFINE new == NewExts(c, ks)
<1>0. /\ new \subseteq Exts /\ << c, Core >> \in new /\ \A e \in new : e[1] = c
      /\ Cardinality(new) \in Nat
      /\ c # Null /\ h # Null
  BY NewExtsCounted, ConstantsAssumption
<1>1. /\ conn[c] = "none" /\ conn' = [conn EXCEPT ![c] = "alive"]
      /\ \A d \in Conns : ptr[d] # h
      /\ ptr' = [ptr EXCEPT ![c] = h]
      /\ handle' = [handle EXCEPT ![h] = "open"]
      /\ wrapped' \in [Conns -> BOOLEAN]
      /\ kept' = kept \union new
      /\ erefs' = [e \in Exts |-> IF e \in new THEN 1 ELSE erefs[e]]
      /\ refs' = [refs EXCEPT ![c] = 1 + Cardinality(new)]
      /\ myconns' = [myconns EXCEPT ![c] = 1]
      /\ UNCHANGED << attrs, cookie, myexts >>
  BY DEF Made
<1>2. PICK u \in SUBSET {"pref_screen"} : unset' = [unset EXCEPT ![c] = u]
  BY DEF Made
<1> HIDE DEF new
<1>3. \A e \in Exts : e[1] = c => e \notin kept /\ myexts[e] = 0 /\ e \notin attrs
  BY <1>1 DEF IInv, CacheInv
<1>4. TypeOK'
  <2>1. handle' \in [Handles -> { "none", "open", "closed" }] /\ ptr' \in [Conns -> Handles \union {Null}]
        /\ conn' \in [Conns -> { "none", "alive", "lost", "freed" }]
    BY <1>1 DEF IInv, TypeOK
  <2>2. refs' \in [Conns -> Nat] /\ erefs' \in [Exts -> Nat]
    BY <1>0, <1>1 DEF IInv, TypeOK
  <2>3. kept' \subseteq Exts
    BY <1>0, <1>1 DEF IInv, TypeOK
  <2>4. unset' \in [Conns -> SUBSET Fields]
    BY <1>2 DEF IInv, TypeOK, Fields
  <2>5. myconns' \in [Conns -> 0 .. MaxRefs]
    BY <1>1, MaxIsNat DEF IInv, TypeOK
  <2> QED BY <1>1, <2>1, <2>2, <2>3, <2>4, <2>5 DEF IInv, TypeOK
<1>5. CacheInv'
  <2>1. \A e \in Exts : /\ erefs'[e] = myexts'[e] + Held(e)'
                        /\ e \in kept' => conn'[e[1]] = "alive"
                        /\ e \notin kept' => myexts'[e] = 0 /\ e \notin attrs'
    <3> SUFFICES ASSUME NEW e \in Exts
                 PROVE  /\ erefs'[e] = myexts'[e] + Held(e)'
                        /\ e \in kept' => conn'[e[1]] = "alive"
                        /\ e \notin kept' => myexts'[e] = 0 /\ e \notin attrs'
      OBVIOUS
    <3>1. /\ erefs[e] = myexts[e] + Held(e)
          /\ e \in kept => conn[e[1]] = "alive"
          /\ e \notin kept => myexts[e] = 0 /\ e \notin attrs
      BY DEF IInv, CacheInv
    <3>2. e[1] \in Conns
      BY DEF Exts
    <3>3. conn[e[1]] = "alive" => conn'[e[1]] = "alive"
      BY <1>1, <3>2 DEF IInv, TypeOK
    <3>4. CASE e \in new
      <4>1. e \in kept' /\ e \notin attrs' /\ erefs'[e] = 1 /\ myexts'[e] = 0
        BY <1>0, <1>1, <1>3, <3>4
      <4>2. conn'[e[1]] = "alive"
        BY <1>0, <1>1, <3>4 DEF IInv, TypeOK
      <4> QED BY <4>1, <4>2 DEF Held
    <3>5. CASE e \notin new
      BY <1>1, <3>1, <3>3, <3>5 DEF Held
    <3> QED BY <3>4, <3>5
  <2>2. \A d \in Conns : conn'[d] = "alive" => << d, Core >> \in kept'
    BY <1>0, <1>1 DEF IInv, TypeOK, CacheInv
  <2>3. \A k \in Cookies : cookie'[k] # Null => conn'[cookie'[k]] = "alive"
    BY <1>1 DEF IInv, TypeOK, CacheInv
  <2> QED BY <2>1, <2>2, <2>3 DEF CacheInv
<1>6. PointerInv'
  BY <1>0, <1>1 DEF IInv, TypeOK, PointerInv
<1>7. NothingUnset'
  <2>1. \A d \in Conns : d # c => conn'[d] = conn[d] /\ unset'[d] = unset[d]
    BY <1>1, <1>2 DEF IInv, TypeOK
  <2>2. conn'[c] = "alive" /\ unset'[c] \subseteq { "pref_screen" }
    BY <1>1, <1>2 DEF IInv, TypeOK
  <2> QED BY <2>1, <2>2 DEF IInv, NothingUnset
<1>8. RefsExact'
  <2> SUFFICES ASSUME NEW d \in Conns PROVE Counted(d)' /\ SetupCounted(d)'
    BY <1>4, <1>5, CountsApartNext
  <2>1. Counted(d) /\ SetupCounted(d)
    BY CountsApart DEF IInv
  <2>2. CookiesOf(d)' = CookiesOf(d) /\ Builders(d)' = Builders(d)
    BY <1>1 DEF CookiesOf, Builders, setupvars
  <2>3. SetupCounted(d)'
    BY <2>1 DEF SetupCounted, setupvars
  <2>4. CASE d = c
    <3>1. KeptOf(c)' = new
      BY <1>0, <1>1, <1>3 DEF KeptOf
    <3>2. CookiesOf(c) = {} /\ Builders(c) = {}
      BY <1>0, <1>1 DEF CookiesOf, Builders, IInv, CacheInv, BuildersInv
    <3>3. Cardinality(CookiesOf(c)') = 0 /\ Cardinality(Builders(c)') = 0
      <4>1. CookiesOf(c)' = {} /\ Builders(c)' = {}
        BY <2>2, <2>4, <3>2
      <4> QED BY <4>1, FS_EmptySet
    <3>4. refs'[c] = 1 + Cardinality(new) /\ myconns'[c] = 1
      BY <1>1 DEF IInv, TypeOK
    <3>5. Counted(c)'
      <4>1. refs'[c] = myconns'[c] + 0 + Cardinality(new) + 0
        BY <1>0, <3>4
      <4>2. refs'[c] = myconns'[c] + Cardinality(Builders(c)') + Cardinality(KeptOf(c)')
                         + Cardinality(CookiesOf(c)')
        BY <3>1, <3>3, <4>1
      <4> QED BY <4>2 DEF Counted
    <3> QED BY <2>3, <2>4, <3>5
  <2>5. CASE d # c
    <3>1. KeptOf(d)' = KeptOf(d)
      BY <1>0, <1>1, <2>5 DEF KeptOf
    <3>2. refs'[d] = refs[d] /\ myconns'[d] = myconns[d] /\ conn'[d] = conn[d]
      BY <1>1, <2>5 DEF IInv, TypeOK
    <3> QED BY <2>1, <2>2, <2>3, <3>1, <3>2 DEF Counted
  <2> QED BY <2>4, <2>5
<1>9. \A d \in Conns : conn[d] = "alive" => conn'[d] = "alive"
  BY <1>1 DEF IInv, TypeOK
<1> QED BY <1>4, <1>5, <1>6, <1>7, <1>8, <1>9, OutsideGetSetup DEF IInv

\* xcb.connect and xcb.Connection.
LEMMA ConnectSafe ==
  ASSUME IInv, NEW c \in Conns, NEW h \in Handles, NEW ks \in SUBSET Keys,
         NEW zeroed \in BOOLEAN, NEW fd \in BOOLEAN, Connect(c, h, ks, zeroed, fd),
         UNCHANGED setupvars
  PROVE  IInv'
<1>1. \A d \in Conns : ptr[d] # h
  BY ConstantsAssumption DEF Connect, IInv, PointerInv
<1>2. (Allocated(zeroed) \ Connects(fd)) \ InitStruct \in SUBSET {"pref_screen"}
  BY DEF Allocated, Connects, InitStruct, Fields
<1>3. wrapped' \in [Conns -> BOOLEAN]
  BY DEF Connect, IInv, TypeOK
<1>4. /\ kept' = kept \union NewExts(c, ks)
      /\ erefs' = [e \in Exts |-> IF e \in NewExts(c, ks) THEN 1 ELSE erefs[e]]
      /\ refs' = [refs EXCEPT ![c] = 1 + Cardinality(NewExts(c, ks))]
  BY SetUpCaches DEF Connect
<1>5. Made(c, h, ks)
  BY <1>1, <1>2, <1>3, <1>4 DEF Connect, Made
<1> QED BY <1>5, MadeSafe

\* xcb.wrap.
LEMMA WrapSafe ==
  ASSUME IInv, NEW c \in Conns, NEW h \in Handles, NEW ks \in SUBSET Keys,
         Wrap(c, h, ks), UNCHANGED setupvars
  PROVE  IInv'
<1>1. (Allocated(FALSE) \ InitStruct) \ {"conn"} \in SUBSET {"pref_screen"}
  BY DEF Allocated, InitStruct, Fields
<1>2. wrapped' \in [Conns -> BOOLEAN] /\ handle' = [handle EXCEPT ![h] = "open"]
  BY DEF Wrap, IInv, TypeOK
<1>3. /\ kept' = kept \union NewExts(c, ks)
      /\ erefs' = [e \in Exts |-> IF e \in NewExts(c, ks) THEN 1 ELSE erefs[e]]
      /\ refs' = [refs EXCEPT ![c] = 1 + Cardinality(NewExts(c, ks))]
  BY SetUpCaches DEF Wrap
<1>4. Made(c, h, ks)
  BY <1>1, <1>2, <1>3 DEF Wrap, Made
<1> QED BY <1>4, MadeSafe

\* Making a Connection fails: the object is deallocated only if it was zeroed,
\* and a connection that fails was open to nobody.
LEMMA AbandonSafe ==
  ASSUME IInv, NEW c \in Conns, NEW n \in Nat, NEW left \in SUBSET Fields,
         n = 0 => left = {}, Abandon(c, n, left), UNCHANGED setupvars,
         handle' \in [Handles -> { "none", "open", "closed" }],
         \A h \in Handles : handle[h] # "none" => handle'[h] = handle[h]
  PROVE  IInv'
<1>0. /\ conn[c] = "none"
      /\ conn' = [conn EXCEPT ![c] = IF n = 0 THEN "freed" ELSE "lost"]
      /\ unset' = [unset EXCEPT ![c] = IF n = 0 THEN left ELSE {}]
      /\ UNCHANGED << ptr, wrapped, refs, erefs, kept, attrs, cookie, myconns, myexts >>
  BY DEF Abandon
<1>1. TypeOK'
  BY <1>0 DEF IInv, TypeOK
<1>2. \A d \in Conns : conn[d] = "alive" <=> conn'[d] = "alive"
  BY <1>0 DEF IInv, TypeOK
<1>3. CacheInv'
  <2>1. \A e \in Exts : e[1] \in Conns
    BY DEF Exts
  <2>2. \A k \in Cookies : cookie[k] # Null => cookie[k] \in Conns
    BY DEF IInv, TypeOK
  <2> QED BY <1>0, <1>2, <2>1, <2>2 DEF IInv, CacheInv, Held
<1>4. PointerInv'
  <2>1. \A d \in Conns : ptr[d] # Null => ptr[d] \in Handles
    BY DEF IInv, TypeOK
  <2> QED BY <1>0, <1>2, <2>1 DEF IInv, PointerInv
<1>5. NothingUnset'
  <2>1. \A d \in Conns : d # c => conn'[d] = conn[d] /\ unset'[d] = unset[d]
    BY <1>0 DEF IInv, TypeOK
  <2>2. conn'[c] # "alive" /\ unset'[c] = {}
    BY <1>0 DEF IInv, TypeOK
  <2> QED BY <2>1, <2>2 DEF IInv, NothingUnset
<1>6. RefsExact'
  <2>1. \A d \in Conns : refs'[d] + myconns[d] = refs[d] + myconns'[d]
    BY <1>0, MaxIsNat DEF IInv, TypeOK
  <2> QED BY <1>0, <1>1, <1>2, <1>3, <2>1, SameReferrers
<1> QED BY <1>1, <1>2, <1>3, <1>4, <1>5, <1>6, OutsideGetSetup DEF IInv

\* No core protocol, bad arguments.
LEMMA ConnectRefusedSafe ==
  ASSUME IInv, NEW c \in Conns, NEW zeroed \in BOOLEAN, ConnectRefused(c, zeroed),
         UNCHANGED setupvars
  PROVE  IInv'
<1>1. /\ Owner(zeroed) \in Nat /\ Allocated(zeroed) \in SUBSET Fields
      /\ Owner(zeroed) = 0 => Allocated(zeroed) = {}
  BY DEF Owner, Allocated
<1>2. handle' \in [Handles -> { "none", "open", "closed" }] /\ handle' = handle
  BY DEF ConnectRefused, IInv, TypeOK
<1> QED BY <1>1, <1>2, AbandonSafe DEF ConnectRefused

\* The xcb_connection_t has an error from the start.
LEMMA ConnectFailsSafe ==
  ASSUME IInv, NEW c \in Conns, NEW h \in Handles, NEW zeroed \in BOOLEAN,
         ConnectFails(c, h, zeroed), UNCHANGED setupvars
  PROVE  IInv'
<1>1. /\ Owner(zeroed) \in Nat /\ Allocated(zeroed) \ {"conn"} \in SUBSET Fields
      /\ Owner(zeroed) = 0 => Allocated(zeroed) \ {"conn"} = {}
  BY DEF Owner, Allocated
<1>2. /\ handle' \in [Handles -> { "none", "open", "closed" }]
      /\ \A x \in Handles : handle[x] # "none" => handle'[x] = handle[x]
  BY DEF ConnectFails, IInv, TypeOK
<1> QED BY <1>1, <1>2, AbandonSafe DEF ConnectFails

\* Setup fails.
LEMMA ConnectLostSafe ==
  ASSUME IInv, NEW c \in Conns, NEW h \in Handles, NEW zeroed \in BOOLEAN,
         NEW fd \in BOOLEAN, ConnectLost(c, h, zeroed, fd), UNCHANGED setupvars
  PROVE  IInv'
<1> DEFINE left == (Allocated(zeroed) \ Connects(fd)) \ InitStruct
<1>1. Owner(zeroed) + ExtHolds \in Nat /\ Owner(zeroed) + ExtHolds # 0
  BY DEF Owner, ExtHolds
<1>2. left \in SUBSET Fields
  BY DEF Allocated
<1>3. /\ handle' \in [Handles -> { "none", "open", "closed" }]
      /\ \A x \in Handles : handle[x] # "none" => handle'[x] = handle[x]
  BY DEF ConnectLost, IInv, TypeOK
<1>4. Abandon(c, Owner(zeroed) + ExtHolds, left)
  BY DEF ConnectLost
<1> QED BY <1>1, <1>2, <1>3, <1>4, AbandonSafe

\* A bad pointer, or setup fails.
LEMMA WrapLostSafe ==
  ASSUME IInv, NEW c \in Conns, NEW set \in SUBSET {"conn"}, WrapLost(c, set),
         UNCHANGED setupvars
  PROVE  IInv'
<1> DEFINE left == (Allocated(FALSE) \ InitStruct) \ set
<1>1. ExtHolds \in Nat /\ ExtHolds # 0
  BY DEF ExtHolds
<1>2. left \in SUBSET Fields
  BY DEF Allocated
<1>3. handle' \in [Handles -> { "none", "open", "closed" }] /\ handle' = handle
  BY DEF WrapLost, IInv, TypeOK
<1>4. Abandon(c, ExtHolds, left)
  BY DEF WrapLost
<1> QED BY <1>1, <1>2, <1>3, <1>4, AbandonSafe

\* No step deallocates a Connection that was set up.
LEMMA NextKeepsAlive ==
  ASSUME IInv, Next, NEW c \in Conns, conn[c] = "alive"
  PROVE  conn'[c] = "alive"
<1>1. CASE \E d \in Conns : Make(d)
  <2>1. PICK d \in Conns : Make(d)
    BY <1>1
  <2>2. conn[d] = "none" /\ \E v : conn' = [conn EXCEPT ![d] = v]
    BY <2>1, Zenon DEF Make, Connect, Wrap, ConnectRefused, ConnectFails,
                       ConnectLost, WrapLost, Abandon
  <2> QED BY <2>2 DEF IInv, TypeOK
<1>2. CASE \E d \in Conns : \E k \in Keys, n \in 0 .. 1 : Call(d, k, n)
  BY <1>2 DEF Call
<1>3. CASE \E d \in Conns : TakeCore(d) \/ DropConn(d) \/ Disconnect(d)
  BY <1>3, DropConnCounts DEF TakeCore, OnlyCounts, Disconnect
<1>4. CASE \E e \in Exts : \/ TakeConn(e) \/ DropExt(e)
                           \/ SetAttr(e) \/ DelAttr(e) \/ TakeAttr(e)
                           \/ \E k \in Cookies : Send(e, k)
  BY <1>4, DropExtCounts DEF TakeConn, SetAttr, DelAttr, TakeAttr, Send
<1>5. CASE \E k \in Cookies : DropCookie(k)
  BY <1>5, DropCookieCounts DEF OnlyCounts
<1>6. CASE \E h \in Handles : OwnerCloses(h)
  BY <1>6 DEF OwnerCloses
<1> QED BY <1>1, <1>2, <1>3, <1>4, <1>5, <1>6 DEF Next

\* Everything but get_setup: one case for each action.
LEMMA NextSafe ==
  ASSUME IInv, Next, UNCHANGED setupvars
  PROVE  IInv'
<1>1. CASE \E c \in Conns : Make(c)
  <2>1. PICK c \in Conns : Make(c)
    BY <1>1
  <2>2. CASE \E h \in Handles, ks \in SUBSET Keys :
               \/ \E zeroed, fd \in BOOLEAN : Connect(c, h, ks, zeroed, fd)
               \/ Wrap(c, h, ks)
    BY <2>2, ConnectSafe, WrapSafe
  <2>3. CASE \E zeroed \in BOOLEAN :
               \/ ConnectRefused(c, zeroed)
               \/ \E h \in Handles :
                    \/ ConnectFails(c, h, zeroed)
                    \/ \E fd \in BOOLEAN : ConnectLost(c, h, zeroed, fd)
    BY <2>3, ConnectRefusedSafe, ConnectFailsSafe, ConnectLostSafe
  <2>4. CASE \E set \in SUBSET {"conn"} : WrapLost(c, set)
    BY <2>4, WrapLostSafe
  <2> QED BY <2>1, <2>2, <2>3, <2>4 DEF Make
<1>2. CASE \E c \in Conns : \E k \in Keys, n \in 0 .. 1 : Call(c, k, n)
  BY <1>2, CallSafe
<1>3. CASE \E c \in Conns : TakeCore(c) \/ DropConn(c) \/ Disconnect(c)
  BY <1>3, TakeCoreSafe, DropConnSafe, DisconnectSafe
<1>4. CASE \E e \in Exts : \/ TakeConn(e) \/ DropExt(e)
                           \/ SetAttr(e) \/ DelAttr(e) \/ TakeAttr(e)
                           \/ \E k \in Cookies : Send(e, k)
  BY <1>4, TakeConnSafe, DropExtSafe, SetAttrSafe, DelAttrSafe, TakeAttrSafe, SendSafe
<1>5. CASE \E k \in Cookies : DropCookie(k)
  BY <1>5, DropCookieSafe
<1>6. CASE \E h \in Handles : OwnerCloses(h)
  BY <1>6, OwnerClosesSafe
<1> QED BY <1>1, <1>2, <1>3, <1>4, <1>5, <1>6 DEF Next

-----------------------------------------------------------------------------
(* get_setup.                                                              *)

\* No Connection that was set up is deallocated in any step, so that its Setup
\* stays in its field.
LEMMA OtherwiseKeepsSetups ==
  ASSUME IInv, Otherwise
  PROVE  Next /\ UNCHANGED setupvars
<1> DEFINE gone == { c \in setup : conn'[c] = "freed" }
<1>1. ASSUME NEW c \in Conns, conn[c] = "alive" PROVE conn'[c] # "freed"
  BY <1>1, NextKeepsAlive DEF Otherwise
<1>2. gone = {}
  BY <1>1 DEF IInv, SetupTypeOK, BuildersInv
<1>3. /\ setup' = setup \ gone
      /\ srefs' = [c \in Conns |-> IF c \in gone THEN srefs[c] - 1 ELSE srefs[c]]
      /\ Next /\ UNCHANGED << mysetups, building, overlapped >>
  BY DEF Otherwise
<1>4. srefs' = srefs /\ setup' = setup
  BY <1>2, <1>3 DEF IInv, SetupTypeOK
<1> QED BY <1>3, <1>4 DEF setupvars

\* get_setup() with a Setup in the cache.
LEMMA GetCachedSafe ==
  ASSUME IInv, NEW c \in Conns, GetCached(c)
  PROVE  IInv'
<1>0. UNCHANGED << vars, setup, building, overlapped >>
  BY DEF GetCached
<1>1. TypeOK' /\ CacheInv' /\ PointerInv' /\ NothingUnset'
  BY <1>0 DEF IInv, vars, TypeOK, CacheInv, Held, PointerInv, NothingUnset
<1>2. SetupTypeOK'
  BY OneMore DEF IInv, SetupTypeOK, GetCached, CachedGives
<1>3. BuildersInv'
  BY <1>0 DEF IInv, BuildersInv, Builders, vars
<1>4. RefsExact'
  <2> SUFFICES ASSUME NEW d \in Conns PROVE Counted(d)' /\ SetupCounted(d)'
    BY <1>1, CountsApartNext
  <2>1. Counted(d) /\ SetupCounted(d)
    BY CountsApart DEF IInv
  <2>2. Counted(d)'
    BY <1>0, <2>1 DEF Counted, KeptOf, CookiesOf, Builders, vars
  <2>3. SetupCounted(d)'
    BY <1>0, <2>1, MaxIsNat DEF SetupCounted, GetCached, CachedGives, IInv, SetupTypeOK
  <2> QED BY <2>2, <2>3
<1> QED BY <1>1, <1>2, <1>3, <1>4 DEF IInv

\* The program drops a Setup.
LEMMA DropSetupSafe ==
  ASSUME IInv, NEW c \in Conns, DropSetup(c)
  PROVE  IInv'
<1>0. UNCHANGED << vars, setup, building, overlapped >>
  BY DEF DropSetup
<1>1. TypeOK' /\ CacheInv' /\ PointerInv' /\ NothingUnset'
  BY <1>0 DEF IInv, vars, TypeOK, CacheInv, Held, PointerInv, NothingUnset
<1>2. /\ mysetups[c] > 0 /\ mysetups[c] \in Nat /\ srefs[c] \in Nat
      /\ mysetups' = [mysetups EXCEPT ![c] = @ - 1]
      /\ srefs' = [srefs EXCEPT ![c] = @ - 1]
  BY MaxIsNat DEF DropSetup, IInv, SetupTypeOK
<1>3. SetupTypeOK'
  <2>1. SetupCounted(c)
    BY CountsApart DEF IInv
  <2>2. srefs[c] > 0
    BY <1>2, <2>1 DEF SetupCounted
  <2>3. srefs' \in [Conns -> Nat]
    BY <1>2, <2>2 DEF IInv, SetupTypeOK
  <2>4. mysetups' \in [Conns -> 0 .. MaxRefs]
    BY <1>2, OneLess DEF IInv, SetupTypeOK
  <2> QED BY <1>0, <2>3, <2>4 DEF IInv, SetupTypeOK
<1>4. BuildersInv'
  BY <1>0 DEF IInv, BuildersInv, Builders, vars
<1>5. RefsExact'
  <2> SUFFICES ASSUME NEW d \in Conns PROVE Counted(d)' /\ SetupCounted(d)'
    BY <1>1, CountsApartNext
  <2>1. Counted(d) /\ SetupCounted(d)
    BY CountsApart DEF IInv
  <2>2. Counted(d)'
    BY <1>0, <2>1 DEF Counted, KeptOf, CookiesOf, Builders, vars
  <2>3. SetupCounted(d)'
    BY <1>0, <1>2, <2>1, MaxIsNat DEF SetupCounted, IInv, SetupTypeOK
  <2> QED BY <2>2, <2>3
<1> QED BY <1>1, <1>3, <1>4, <1>5 DEF IInv

\* get_setup() calls the class of the Setup, and refers to the Connection.
LEMMA BeginSetupSafe ==
  ASSUME IInv, NEW t \in Threads, NEW c \in Conns, BeginSetup(t, c)
  PROVE  IInv'
<1>0. /\ building[t] = Null /\ conn[c] = "alive" /\ c \notin setup /\ c # Null
      /\ building' = [building EXCEPT ![t] = c]
      /\ refs' = [refs EXCEPT ![c] = @ + 1]
      /\ overlapped' = IF Builders(c) = {} THEN overlapped ELSE overlapped \union {c}
      /\ srefs[c] = mysetups[c]
      /\ UNCHANGED << handle, conn, ptr, wrapped, erefs, kept, attrs, unset, cookie,
                      myconns, myexts, setup, srefs, mysetups >>
  BY ConstantsAssumption DEF BeginSetup, Has
<1>1. TypeOK'
  BY <1>0 DEF IInv, TypeOK
<1>2. CacheInv' /\ PointerInv' /\ NothingUnset'
  BY <1>0 DEF IInv, CacheInv, Held, PointerInv, NothingUnset
<1>3. SetupTypeOK'
  BY <1>0 DEF IInv, SetupTypeOK
<1>4. Builders(c)' = Builders(c) \union {t} /\ t \notin Builders(c)
  BY <1>0 DEF Builders, IInv, SetupTypeOK
<1>5. ASSUME NEW d \in Conns, d # c PROVE Builders(d)' = Builders(d)
  <2>1. d # Null BY ConstantsAssumption
  <2> QED BY <1>0, <1>5, <2>1 DEF Builders, IInv, SetupTypeOK
<1>6. BuildersInv'
  <2>1. \A d \in setup' : conn'[d] = "alive"
    BY <1>0 DEF IInv, BuildersInv
  <2> SUFFICES ASSUME NEW u \in Threads, building'[u] # Null
               PROVE  /\ conn'[building'[u]] = "alive"
                      /\ building'[u] \notin overlapped' =>
                           /\ building'[u] \notin setup'
                           /\ { x \in Threads : building'[x] = building'[u] } = {u}
    BY <2>1 DEF BuildersInv, Builders
  <2>2. PICK d \in Conns : d = building'[u]
    BY <1>3 DEF SetupTypeOK
  <2>3. CASE d = c
    <3>1. conn'[d] = "alive" /\ d \notin setup'
      BY <1>0, <2>3
    <3>2. ASSUME d \notin overlapped' PROVE Builders(d)' = {u}
      <4>1. Builders(c) = {}
        BY <1>0, <2>3, <3>2
      <4>2. Builders(d)' = {t}
        BY <1>4, <2>3, <4>1
      <4>3. u \in Builders(d)'
        BY <2>2 DEF Builders
      <4> QED BY <4>2, <4>3
    <3> QED BY <2>2, <3>1, <3>2 DEF Builders
  <2>4. CASE d # c
    <3>1. building[u] = d
      BY <1>0, <2>2, <2>4 DEF IInv, SetupTypeOK
    <3>2. /\ conn[d] = "alive"
          /\ d \notin overlapped => d \notin setup /\ Builders(d) = {u}
      BY <2>2, <3>1 DEF IInv, BuildersInv
    <3>3. d \notin overlapped' => d \notin overlapped
      BY <1>0
    <3>4. Builders(d)' = Builders(d)
      BY <1>5, <2>4
    <3> QED BY <1>0, <2>2, <3>2, <3>3, <3>4 DEF Builders
  <2> QED BY <2>3, <2>4
<1>7. RefsExact'
  <2> SUFFICES ASSUME NEW d \in Conns PROVE Counted(d)' /\ SetupCounted(d)'
    BY <1>1, <1>2, CountsApartNext
  <2>1. Counted(d) /\ SetupCounted(d)
    BY CountsApart DEF IInv
  <2>2. KeptOf(d)' = KeptOf(d) /\ CookiesOf(d)' = CookiesOf(d)
    BY <1>0 DEF KeptOf, CookiesOf
  <2>3. SetupCounted(d)'
    <3>1. srefs[c] = mysetups[c] + 0 /\ srefs[c] >= mysetups[c] + 0
      BY <1>0, MaxIsNat DEF IInv, SetupTypeOK
    <3>2. CASE d = c
      BY <1>0, <3>1, <3>2 DEF SetupCounted
    <3>3. CASE d # c
      <4>1. d \in overlapped' <=> d \in overlapped
        BY <1>0, <3>3
      <4> QED BY <1>0, <2>1, <4>1 DEF SetupCounted
    <3> QED BY <3>2, <3>3
  <2>4. CASE d = c
    <3>1. Cardinality(Builders(c)') = Cardinality(Builders(c)) + 1
      BY <1>4, FiniteCounts, FS_AddElement
    <3>2. refs'[c] = refs[c] + 1 /\ refs[c] \in Nat /\ myconns[c] \in Nat
      BY <1>0 DEF IInv, TypeOK
    <3> QED BY <1>0, <2>1, <2>2, <2>3, <2>4, <3>1, <3>2, FiniteCounts DEF Counted
  <2>5. CASE d # c
    <3>1. refs'[d] = refs[d]
      BY <1>0, <2>5 DEF IInv, TypeOK
    <3> QED BY <1>0, <1>5, <2>1, <2>2, <2>3, <2>5, <3>1 DEF Counted
  <2> QED BY <2>4, <2>5
<1> QED BY <1>1, <1>2, <1>3, <1>6, <1>7 DEF IInv

\* The class returns a Setup, or raises; the reference of the call is dropped.
LEMMA EndSetupSafe ==
  ASSUME IInv, NEW t \in Threads, NEW made \in BOOLEAN, EndSetup(t, made)
  PROVE  IInv'
<1>0. PICK c \in Conns : c = building[t] /\ conn[c] = "alive" /\ c # Null
  BY EndSetupCounts, ConstantsAssumption
<1>1. /\ refs[c] > 1
      /\ building' = [building EXCEPT ![t] = Null]
      /\ refs' = [refs EXCEPT ![c] = @ - 1]
      /\ UNCHANGED << handle, conn, ptr, wrapped, erefs, kept, attrs, unset, cookie,
                      myconns, myexts, overlapped >>
  BY <1>0, EndSetupCounts DEF EndSetup, OnlyCounts
<1>2. \/ /\ mysetups[c] < MaxRefs
         /\ setup' = setup \union {c}
         /\ srefs' = [srefs EXCEPT ![c] = @ + 2]
         /\ mysetups' = [mysetups EXCEPT ![c] = @ + 1]
      \/ /\ setup' = setup \ {c}
         /\ srefs' = srefs /\ mysetups' = mysetups
  <2>1. \A n \in Nat : n + 1 + CachedGives = n + 2
    BY DEF CachedGives
  <2>2. srefs[c] \in Nat
    BY DEF IInv, SetupTypeOK
  <2> QED BY <1>0, <2>1, <2>2 DEF EndSetup
<1>3. TypeOK'
  <2>1. refs' \in [Conns -> Nat]
    BY <1>1 DEF IInv, TypeOK
  <2> QED BY <1>1, <2>1 DEF IInv, TypeOK
<1>4. CacheInv' /\ PointerInv' /\ NothingUnset'
  BY <1>1 DEF IInv, CacheInv, Held, PointerInv, NothingUnset
<1>5. SetupTypeOK'
  <2>1. setup' \subseteq Conns /\ srefs' \in [Conns -> Nat]
    BY <1>2 DEF IInv, SetupTypeOK
  <2>2. mysetups' \in [Conns -> 0 .. MaxRefs]
    BY <1>2, OneMore DEF IInv, SetupTypeOK
  <2>3. building' \in [Threads -> Conns \union {Null}] /\ overlapped' \subseteq Conns
    BY <1>1 DEF IInv, SetupTypeOK
  <2> QED BY <2>1, <2>2, <2>3 DEF SetupTypeOK
<1>6. Builders(c)' = Builders(c) \ {t} /\ t \in Builders(c)
  BY <1>0, <1>1 DEF Builders, IInv, SetupTypeOK
<1>7. ASSUME NEW d \in Conns, d # c PROVE Builders(d)' = Builders(d)
  <2>1. d # Null BY ConstantsAssumption
  <2> QED BY <1>0, <1>1, <1>7, <2>1 DEF Builders, IInv, SetupTypeOK
<1>8. c \notin overlapped => c \notin setup /\ Builders(c) = {t}
  BY <1>0 DEF IInv, BuildersInv
<1>9. BuildersInv'
  <2>1. \A d \in setup' : conn'[d] = "alive"
    BY <1>0, <1>1, <1>2 DEF IInv, BuildersInv
  <2> SUFFICES ASSUME NEW u \in Threads, building'[u] # Null
               PROVE  /\ conn'[building'[u]] = "alive"
                      /\ building'[u] \notin overlapped' =>
                           /\ building'[u] \notin setup'
                           /\ { x \in Threads : building'[x] = building'[u] } = {u}
    BY <2>1 DEF BuildersInv, Builders
  <2>2. PICK d \in Conns : d = building'[u]
    BY <1>5 DEF SetupTypeOK
  <2>3. u # t /\ building[u] = d
    BY <1>1, <2>2 DEF IInv, SetupTypeOK
  <2>4. /\ conn[d] = "alive"
        /\ d \notin overlapped => d \notin setup /\ Builders(d) = {u}
    BY <2>2, <2>3 DEF IInv, BuildersInv
  <2>5. ASSUME d \notin overlapped' PROVE d \notin setup' /\ Builders(d)' = {u}
    <3>1. d \notin setup /\ Builders(d) = {u}
      BY <1>1, <2>4, <2>5
    <3>2. d # c
      BY <1>6, <2>3, <3>1
    <3> QED BY <1>2, <1>7, <3>1, <3>2
  <2> QED BY <1>1, <2>2, <2>4, <2>5 DEF Builders
<1>10. RefsExact'
  <2> SUFFICES ASSUME NEW d \in Conns PROVE Counted(d)' /\ SetupCounted(d)'
    BY <1>3, <1>4, CountsApartNext
  <2>1. Counted(d) /\ SetupCounted(d)
    BY CountsApart DEF IInv
  <2>2. KeptOf(d)' = KeptOf(d) /\ CookiesOf(d)' = CookiesOf(d)
    BY <1>1 DEF KeptOf, CookiesOf
  <2>3. mysetups[d] \in Nat /\ srefs[d] \in Nat
    BY MaxIsNat DEF IInv, SetupTypeOK
  <2>4. CASE d = c
    <3>1. Cardinality(Builders(c)') = Cardinality(Builders(c)) - 1
      BY <1>6, FiniteCounts, FS_RemoveElement
    <3>2. refs'[c] = refs[c] - 1 /\ refs[c] \in Nat /\ myconns[c] \in Nat
      BY <1>1 DEF IInv, TypeOK
    <3>3. Counted(d)'
      BY <1>1, <2>1, <2>2, <2>4, <3>1, <3>2, FiniteCounts DEF Counted
    <3>4. SetupCounted(d)'
      <4>1. CASE /\ setup' = setup \union {c}
                 /\ srefs' = [srefs EXCEPT ![c] = @ + 2]
                 /\ mysetups' = [mysetups EXCEPT ![c] = @ + 1]
        <5>1. c \in setup' /\ srefs'[c] = srefs[c] + 2 /\ mysetups'[c] = mysetups[c] + 1
          BY <4>1 DEF IInv, SetupTypeOK
        <5> QED BY <1>1, <1>8, <2>1, <2>3, <2>4, <5>1 DEF SetupCounted
      <4>2. CASE setup' = setup \ {c} /\ srefs' = srefs /\ mysetups' = mysetups
        BY <1>1, <1>8, <2>1, <2>3, <2>4, <4>2 DEF SetupCounted
      <4> QED BY <1>2, <4>1, <4>2
    <3> QED BY <3>3, <3>4
  <2>5. CASE d # c
    <3>1. refs'[d] = refs[d]
      BY <1>1, <2>5 DEF IInv, TypeOK
    <3>2. srefs'[d] = srefs[d] /\ mysetups'[d] = mysetups[d] /\ (d \in setup' <=> d \in setup)
      BY <1>2, <2>5 DEF IInv, SetupTypeOK
    <3>3. Counted(d)'
      BY <1>1, <1>7, <2>1, <2>2, <2>5, <3>1 DEF Counted
    <3>4. SetupCounted(d)'
      BY <1>1, <2>1, <3>2 DEF SetupCounted
    <3> QED BY <3>3, <3>4
  <2> QED BY <2>4, <2>5
<1> QED BY <1>3, <1>4, <1>5, <1>9, <1>10 DEF IInv

-----------------------------------------------------------------------------
(* The theorems.                                                           *)

\* Before anything is made nothing refers to anything.
LEMMA InitHolds == SetupInit => IInv
<1> SUFFICES ASSUME SetupInit PROVE IInv
  OBVIOUS
<1>1. TypeOK
  BY MaxIsNat DEF SetupInit, Init, TypeOK
<1>2. SetupTypeOK
  BY MaxIsNat DEF SetupInit, SetupTypeOK
<1>3. CacheInv
  BY DEF SetupInit, Init, CacheInv, Held
<1>4. PointerInv /\ NothingUnset /\ BuildersInv
  BY DEF SetupInit, Init, PointerInv, NothingUnset, BuildersInv
<1>5. RefsExact
  BY <1>1, <1>3, CountsApart DEF SetupInit, Init, Counted, SetupCounted
<1> QED BY <1>1, <1>2, <1>3, <1>4, <1>5 DEF IInv

\* A step that changes nothing.
LEMMA StutterSafe == IInv /\ UNCHANGED allvars => IInv'
<1> SUFFICES ASSUME IInv, UNCHANGED allvars PROVE IInv'
  OBVIOUS
<1>1. TypeOK' /\ CacheInv' /\ PointerInv' /\ NothingUnset'
  BY DEF allvars, vars, IInv, TypeOK, CacheInv, Held, PointerInv, NothingUnset
<1>2. SetupTypeOK' /\ BuildersInv'
  BY DEF allvars, setupvars, vars, IInv, SetupTypeOK, BuildersInv, Builders
<1>3. RefsExact'
  BY <1>1, SameReferrers DEF allvars, vars, IInv, TypeOK
<1> QED BY <1>1, <1>2, <1>3 DEF IInv

\* Every step preserves the invariant.
LEMMA StepHolds == IInv /\ [SetupNext]_allvars => IInv'
<1> SUFFICES ASSUME IInv, SetupNext PROVE IInv'
  BY StutterSafe
<1>1. CASE Otherwise
  BY <1>1, OtherwiseKeepsSetups, NextSafe
<1>2. CASE \E c \in Conns : GetCached(c) \/ DropSetup(c)
  BY <1>2, GetCachedSafe, DropSetupSafe
<1>3. CASE \E t \in Threads, c \in Conns : BeginSetup(t, c)
  BY <1>3, BeginSetupSafe
<1>4. CASE \E t \in Threads, made \in BOOLEAN : EndSetup(t, made)
  BY <1>4, EndSetupSafe
<1> QED BY <1>1, <1>2, <1>3, <1>4 DEF SetupNext

\* The strengthened invariant holds in every state the program reaches.
THEOREM Inductive == SetupSpec => []IInv
BY InitHolds, StepHolds, PTL DEF SetupSpec

\* The variables of Lifetime keep their types: no count falls below zero.
THEOREM TypeCorrect == SetupSpec => []TypeOK
<1>1. IInv => TypeOK
  BY DEF IInv
<1> QED BY <1>1, Inductive, PTL

\* So do those of get_setup().
THEOREM SetupTypeCorrect == SetupSpec => []SetupTypeOK
<1>1. IInv => SetupTypeOK
  BY DEF IInv
<1> QED BY <1>1, Inductive, PTL

\* The reference counts that conn.c, ext.c and cookie.c keep by hand are those
\* of the references there are; a Setup leaks only if two threads made it.
THEOREM CountsExact == SetupSpec => []RefsExact
<1>1. IInv => RefsExact
  BY DEF IInv
<1> QED BY <1>1, Inductive, PTL

\* A Cookie or Extension in use has its Connection, and no Connection points to
\* a connection that was closed.
THEOREM NothingFreedInUse == SetupSpec => []NoUseAfterFree
<1>1. IInv => NoUseAfterFree
  <2> SUFFICES ASSUME IInv, NEW c \in Conns
               PROVE  /\ (\E k \in Cookies : cookie[k] = c)
                            \/ (\E e \in Exts : e[1] = c /\ myexts[e] > 0)
                              => conn[c] = "alive"
                      /\ conn[c] = "alive" /\ ptr[c] # Null => handle[ptr[c]] = "open"
    BY DEF NoUseAfterFree
  <2>1. ASSUME NEW k \in Cookies, cookie[k] = c PROVE conn[c] = "alive"
    BY <2>1, ConstantsAssumption DEF IInv, CacheInv
  <2>2. ASSUME NEW e \in Exts, e[1] = c, myexts[e] > 0 PROVE conn[c] = "alive"
    BY <2>2, CacheHasIt
  <2>3. ptr[c] # Null => handle[ptr[c]] = "open"
    BY DEF IInv, PointerInv
  <2> QED BY <2>1, <2>2, <2>3
<1> QED BY <1>1, Inductive, PTL

\* Deallocation and the program read no field of a Connection that nobody set,
\* although xcb.connect and xcb.wrap do not clear what they allocate.
THEOREM FieldsSet == SetupSpec => []NothingUnset
<1>1. IInv => NothingUnset
  BY DEF IInv
<1> QED BY <1>1, Inductive, PTL

\* A Setup in use reads memory that is there until disconnect().
THEOREM SetupMemoryThere == SetupSpec => []SetupReadable
<1>1. IInv => SetupReadable
  BY DEF IInv, PointerInv, SetupReadable
<1> QED BY <1>1, Inductive, PTL

\* Whatever references are dropped, in whatever order, only disconnect() and the
\* owner of a wrapped connection close one.
THEOREM DroppingClosesNothing == SetupSpec => ClosedOnlyByDisconnect
<1> DEFINE Closing(h) == handle[h] = "open" /\ handle'[h] = "closed"
           Allowed(h) == \/ \E c \in Conns : ptr[c] = h /\ ptr'[c] = Null
                         \/ h \in Foreign /\ \A c \in Conns : ptr[c] # h
<1>1. ASSUME IInv, [SetupNext]_allvars, NEW h \in Handles, Closing(h) PROVE Allowed(h)
  <2>1. handle' # handle
    BY <1>1
  <2>2. CASE Otherwise
    <3>1. CASE \E c \in Conns : Make(c)
      <4>1. ASSUME handle'[h] = "closed", handle[h] = "open" PROVE FALSE
        <5>1. PICK c \in Conns : Make(c)
          BY <3>1
        <5>2. handle \in [Handles -> { "none", "open", "closed" }]
          BY <1>1 DEF IInv, TypeOK
        <5>3. \/ handle' = handle
              \/ \E x \in Handles, v \in { "open", "closed" } :
                   handle[x] = "none" /\ handle' = [handle EXCEPT ![x] = v]
          BY <5>1, Zenon DEF Make, Connect, Wrap, ConnectRefused, ConnectFails,
                             ConnectLost, WrapLost
        <5> QED BY <4>1, <5>2, <5>3
      <4> QED BY <1>1, <4>1
    <3>2. CASE \E c \in Conns : \E k \in Keys, n \in 0 .. 1 : Call(c, k, n)
      BY <2>1, <3>2 DEF Call
    <3>3. CASE \E c \in Conns : TakeCore(c) \/ DropConn(c)
      BY <1>1, <2>1, <3>3, DropConnCounts DEF TakeCore, OnlyCounts
    <3>4. CASE \E c \in Conns : Disconnect(c)
      <4>1. PICK c \in Conns : Disconnect(c)
        BY <3>4
      <4>2. /\ handle' = [handle EXCEPT ![ptr[c]] = "closed"]
            /\ ptr' = [ptr EXCEPT ![c] = Null]
        BY <4>1 DEF Disconnect, Reset
      <4>3. ptr[c] = h
        BY <1>1, <4>2 DEF IInv, TypeOK
      <4>4. ptr'[c] = Null
        BY <1>1, <4>2 DEF IInv, TypeOK
      <4> QED BY <4>3, <4>4
    <3>5. CASE \E e \in Exts : \/ TakeConn(e) \/ DropExt(e)
                               \/ SetAttr(e) \/ DelAttr(e) \/ TakeAttr(e)
                               \/ \E k \in Cookies : Send(e, k)
      BY <1>1, <2>1, <3>5, DropExtCounts DEF TakeConn, SetAttr, DelAttr, TakeAttr, Send
    <3>6. CASE \E k \in Cookies : DropCookie(k)
      BY <1>1, <2>1, <3>6, DropCookieCounts DEF OnlyCounts
    <3>7. CASE \E x \in Handles : OwnerCloses(x)
      <4>1. PICK x \in Handles : OwnerCloses(x)
        BY <3>7
      <4>2. x = h
        BY <1>1, <4>1 DEF OwnerCloses, IInv, TypeOK
      <4> QED BY <4>1, <4>2 DEF OwnerCloses
    <3> QED BY <2>2, <3>1, <3>2, <3>3, <3>4, <3>5, <3>6, <3>7 DEF Otherwise, Next
  <2>3. CASE \E c \in Conns : GetCached(c) \/ DropSetup(c)
    BY <2>1, <2>3 DEF GetCached, DropSetup, vars
  <2>4. CASE \E t \in Threads, c \in Conns : BeginSetup(t, c)
    BY <2>1, <2>4 DEF BeginSetup
  <2>5. CASE \E t \in Threads, made \in BOOLEAN : EndSetup(t, made)
    BY <1>1, <2>1, <2>5, EndSetupCounts DEF OnlyCounts
  <2>6. CASE UNCHANGED allvars
    BY <2>1, <2>6 DEF allvars, vars
  <2> QED BY <1>1, <2>2, <2>3, <2>4, <2>5, <2>6 DEF SetupNext
<1> HIDE DEF Closing, Allowed
<1>2. IInv /\ [SetupNext]_allvars => \A h \in Handles : Closing(h) => Allowed(h)
  BY <1>1
<1>3. IInv /\ [SetupNext]_allvars
        => [ \A h \in Handles : handle[h] = "open" /\ handle'[h] = "closed" =>
               \/ \E c \in Conns : ptr[c] = h /\ ptr'[c] = Null
               \/ h \in Foreign /\ \A c \in Conns : ptr[c] # h ]_vars
  BY <1>2 DEF Closing, Allowed
<1> QED BY <1>3, Inductive, PTL DEF SetupSpec, ClosedOnlyByDisconnect
=============================================================================
