------------------------------ MODULE Lifetime ------------------------------
(***************************************************************************)
(* Who keeps whom alive in xpyb, and who closes the connection to the X    *)
(* server.  A Connection (conn.c) holds its core Extension and a cache of  *)
(* others; an Extension (ext.c) and a Cookie (cookie.c) hold their         *)
(* Connection; none of these types takes part in Python's cyclic garbage   *)
(* collection.  The xcb_connection_t a Connection points to is its own or, *)
(* after xcb.wrap (module.c), somebody else's.                             *)
(*                                                                         *)
(* The Extension of connection c for key k is << c, k >>.  Counts are      *)
(* those of ob_refcnt; taking or dropping a reference is one step with the *)
(* deallocations that follow from it.                                      *)
(***************************************************************************)
EXTENDS Naturals, FiniteSets

CONSTANTS
  Conns,       \* Connection objects
  Cookies,     \* Cookie objects
  Keys,        \* registered ExtensionKey objects
  Core,        \* stands for the core protocol
  Handles,     \* xcb_connection_t objects
  Foreign,     \* those that belong to another library
  Null,
  MaxRefs      \* references to one object a program holds (bounds the model)

Exts == Conns \X (Keys \union {Core})

ASSUME ConstantsAssumption ==
  /\ Core \notin Keys
  /\ Foreign \subseteq Handles /\ Null \notin Handles
  /\ Null \notin Conns
  /\ MaxRefs \in Nat \ {0}
  /\ IsFiniteSet(Keys) /\ IsFiniteSet(Cookies)

VARIABLES
  handle,      \* each xcb_connection_t
  conn,        \* each Connection; "lost" if nothing refers to it any more and
               \* nobody is going to find out
  ptr,         \* self->conn of a Connection
  wrapped,     \* self->wrapped
  refs,        \* ob_refcnt of a Connection
  erefs,       \* ob_refcnt of an Extension, 0 if there is none
  kept,        \* Extensions in the core and extcache fields of Connections
  attrs,       \* Extensions the program has made attributes of their Connection
  unset,       \* fields of a Connection that hold whatever its memory held
  cookie,      \* the Connection of a Cookie that has one, or Null
  myconns,     \* references to each Connection in the program's variables
  myexts       \* and to each Extension

vars == << handle, conn, ptr, wrapped, refs, erefs, kept, attrs, unset, cookie,
           myconns, myexts >>

\* The fields of an xpybConn.
Fields == { "core", "dict", "extcache", "wrapped", "setup", "tables", "conn",
            "pref_screen" }

TypeOK ==
  /\ handle \in [Handles -> { "none", "open", "closed" }]
  /\ conn \in [Conns -> { "none", "alive", "lost", "freed" }]
  /\ ptr \in [Conns -> Handles \union {Null}]
  /\ wrapped \in [Conns -> BOOLEAN]
  /\ refs \in [Conns -> Nat]
  /\ erefs \in [Exts -> Nat]
  /\ kept \subseteq Exts
  /\ attrs \subseteq Exts
  /\ unset \in [Conns -> SUBSET Fields]
  /\ cookie \in [Cookies -> Conns \union {Null}]
  /\ myconns \in [Conns -> 0 .. MaxRefs]
  /\ myexts \in [Exts -> 0 .. MaxRefs]

Init ==
  /\ handle = [h \in Handles |-> IF h \in Foreign THEN "open" ELSE "none"]
  /\ conn = [c \in Conns |-> "none"]
  /\ ptr = [c \in Conns |-> Null]
  /\ wrapped = [c \in Conns |-> FALSE]
  /\ refs = [c \in Conns |-> 0]
  /\ erefs = [e \in Exts |-> 0]
  /\ kept = {}
  /\ attrs = {}
  /\ unset = [c \in Conns |-> {}]
  /\ cookie = [k \in Cookies |-> Null]
  /\ myconns = [c \in Conns |-> 0]
  /\ myexts = [e \in Exts |-> 0]

-----------------------------------------------------------------------------
(* Helpers.  A definition named Faulty... is a plausible mistake in the    *)
(* definition that follows it; nothing else uses it.                       *)

FaultyInitStruct == Fields \ { "conn", "pref_screen", "setup" }

\* The fields xpybConn_init_struct sets, and those xpybConn_dealloc reads.
InitStruct   == Fields \ { "conn", "pref_screen" }
DeallocReads == Fields \ { "pref_screen" }

FaultyExtHolds == 0

\* References to its Connection a new Extension takes: xpybExt_init.
ExtHolds == 1

FaultyCookieHolds == 0

\* References to its Connection a Cookie takes in send_request.
CookieHolds == 1

\* xpybConn_dealloc leaves a wrapped connection open.
Closes(c) == ptr[c] # Null /\ ~wrapped[c]

\* References to e in the core, extcache and dict fields of its Connection.
Held(e) == (IF e \in kept THEN 1 ELSE 0) + (IF e \in attrs THEN 1 ELSE 0)

\* n references to c go away, when the Extensions have er references.  With the
\* last one c is deallocated, and lets go of its core, its cache and its dict.
Release(c, n, er) ==
  /\ refs' = [refs EXCEPT ![c] = @ - n]
  /\ IF refs[c] > n
     THEN UNCHANGED << conn, handle, kept, attrs >> /\ erefs' = er
     ELSE /\ conn' = [conn EXCEPT ![c] = "freed"]
          /\ kept' = { e \in kept : e[1] # c }
          /\ attrs' = { e \in attrs : e[1] # c }
          /\ erefs' = [e \in Exts |-> IF e[1] = c THEN er[e] - Held(e) ELSE er[e]]
          /\ handle' = IF Closes(c) THEN [handle EXCEPT ![ptr[c]] = "closed"]
                       ELSE handle

\* The program has the Connection in a variable and it is usable.
Has(c) == conn[c] = "alive" /\ myconns[c] > 0
Valid(c) == ptr[c] # Null

\* What setup leaves: the core Extension and one for each key in ks.
SetUp(c, ks) ==
  LET new == { << c, k >> : k \in ks \union {Core} } IN
    /\ kept' = kept \union new
    /\ erefs' = [e \in Exts |-> IF e \in new THEN 1 ELSE erefs[e]]
    /\ refs' = [refs EXCEPT ![c] = 1 + Cardinality(new) * ExtHolds]

-----------------------------------------------------------------------------
(* Making connections.                                                     *)

\* xcb.connect allocates with PyObject_New, which sets no field; to make an
\* xcb.Connection, PyType_GenericNew sets all to zero.
Allocated(zeroed) == IF zeroed THEN {} ELSE Fields

\* Connecting sets the pointer, and the screen unless it is given a descriptor.
Connects(fd) == IF fd THEN {"conn"} ELSE { "conn", "pref_screen" }

\* xcb.connect or xcb.Connection succeeds.
Connect(c, h, ks, zeroed, fd) ==
  /\ conn[c] = "none"
  /\ handle[h] = "none"
  /\ handle' = [handle EXCEPT ![h] = "open"]
  /\ conn' = [conn EXCEPT ![c] = "alive"]
  /\ ptr' = [ptr EXCEPT ![c] = h]
  /\ unset' = [unset EXCEPT ![c] = (Allocated(zeroed) \ Connects(fd)) \ InitStruct]
  /\ SetUp(c, ks)
  /\ myconns' = [myconns EXCEPT ![c] = 1]
  /\ UNCHANGED << wrapped, attrs, cookie, myexts >>

\* Making c fails when n references to it are left, with the fields in left never
\* set: without a reference it is deallocated, otherwise it is there for good.
Abandon(c, n, left) ==
  /\ conn[c] = "none"
  /\ conn' = [conn EXCEPT ![c] = IF n = 0 THEN "freed" ELSE "lost"]
  /\ unset' = [unset EXCEPT ![c] = IF n = 0 THEN left ELSE {}]
  /\ UNCHANGED << ptr, wrapped, refs, erefs, kept, attrs, cookie, myconns, myexts >>

\* xcb.connect forgets the object it allocated when anything fails; the
\* interpreter drops an xcb.Connection whose initialisation fails.
Owner(zeroed) == IF zeroed THEN 0 ELSE 1

\* No core protocol, bad arguments, or an authorization string without a colon.
ConnectRefused(c, zeroed) ==
  /\ Abandon(c, Owner(zeroed), Allocated(zeroed))
  /\ UNCHANGED handle

\* The xcb_connection_t has an error from the start.
ConnectFails(c, h, zeroed) ==
  /\ handle[h] = "none"
  /\ Abandon(c, Owner(zeroed), Allocated(zeroed) \ {"conn"})
  /\ handle' = [handle EXCEPT ![h] = IF Owner(zeroed) = 0 THEN "closed" ELSE "open"]

\* Setup fails, when the core Extension refers to the object.
ConnectLost(c, h, zeroed, fd) ==
  /\ handle[h] = "none"
  /\ LET n == Owner(zeroed) + ExtHolds IN
       /\ Abandon(c, n, (Allocated(zeroed) \ Connects(fd)) \ InitStruct)
       /\ handle' = [handle EXCEPT ![h] = IF n = 0 THEN "closed" ELSE "open"]

\* xcb.wrap: the program wraps a connection once, while it is open.
Wrap(c, h, ks) ==
  /\ conn[c] = "none"
  /\ h \in Foreign /\ handle[h] = "open"
  /\ \A d \in Conns : ptr[d] # h
  /\ conn' = [conn EXCEPT ![c] = "alive"]
  /\ ptr' = [ptr EXCEPT ![c] = h]
  /\ wrapped' = [wrapped EXCEPT ![c] = TRUE]
  /\ unset' = [unset EXCEPT ![c] = (Allocated(FALSE) \ InitStruct) \ {"conn"}]
  /\ SetUp(c, ks)
  /\ myconns' = [myconns EXCEPT ![c] = 1]
  /\ UNCHANGED << handle, attrs, cookie, myexts >>

\* A bad pointer, or setup fails when the pointer is set: xcb.wrap drops its
\* reference, and the core Extension holds the object.
WrapLost(c, set) ==
  /\ set \subseteq {"conn"}
  /\ Abandon(c, ExtHolds, (Allocated(FALSE) \ InitStruct) \ set)
  /\ UNCHANGED handle

-----------------------------------------------------------------------------
(* References the program takes and drops.                                 *)

FaultyCacheGives == 0

\* References load_ext makes of the one PyDict_GetItem lends it.
CacheGives == 1

\* conn(key): the cached Extension or a new one, which goes into the cache.  If
\* the server has no such extension (n = 0) it stays there, and the caller gets an
\* exception instead (n = 1 otherwise).
Call(c, k, n) ==
  LET e == << c, k >> IN
    /\ Has(c) /\ Valid(c)
    /\ myexts[e] + n <= MaxRefs
    /\ myexts' = [myexts EXCEPT ![e] = @ + n]
    /\ IF e \in kept
       THEN /\ erefs' = [erefs EXCEPT ![e] = @ + CacheGives - (1 - n)]
            /\ UNCHANGED << kept, refs >>
       ELSE /\ kept' = kept \union {e}
            /\ erefs' = [erefs EXCEPT ![e] = 1 + n]
            /\ refs' = [refs EXCEPT ![c] = @ + ExtHolds]
    /\ UNCHANGED << attrs, unset, handle, conn, ptr, wrapped, cookie, myconns >>

\* The attribute core of a Connection.
TakeCore(c) ==
  /\ Has(c)
  /\ myexts[<< c, Core >>] < MaxRefs
  /\ myexts' = [myexts EXCEPT ![<< c, Core >>] = @ + 1]
  /\ erefs' = [erefs EXCEPT ![<< c, Core >>] = @ + 1]
  /\ UNCHANGED << attrs, unset, handle, conn, ptr, wrapped, refs, kept, cookie, myconns >>

\* The attribute conn of an Extension.
TakeConn(e) ==
  /\ myexts[e] > 0
  /\ myconns[e[1]] < MaxRefs
  /\ myconns' = [myconns EXCEPT ![e[1]] = @ + 1]
  /\ refs' = [refs EXCEPT ![e[1]] = @ + 1]
  /\ UNCHANGED << attrs, unset, handle, conn, ptr, wrapped, erefs, kept, cookie, myexts >>

DropConn(c) ==
  /\ Has(c)
  /\ myconns' = [myconns EXCEPT ![c] = @ - 1]
  /\ Release(c, 1, erefs)
  /\ UNCHANGED << unset, ptr, wrapped, cookie, myexts >>

\* With its last reference an Extension is deallocated: xpybExt_dealloc.
DropExt(e) ==
  /\ myexts[e] > 0
  /\ myexts' = [myexts EXCEPT ![e] = @ - 1]
  /\ LET er == [erefs EXCEPT ![e] = @ - 1] IN
       IF er[e] > 0 THEN erefs' = er /\ UNCHANGED << refs, conn, handle, kept, attrs >>
       ELSE Release(e[1], ExtHolds, er)
  /\ UNCHANGED << unset, ptr, wrapped, cookie, myconns >>

\* A generated method: send_request ties a new Cookie to the Connection.
Send(e, k) ==
  /\ myexts[e] > 0 /\ Valid(e[1])
  /\ cookie[k] = Null
  /\ cookie' = [cookie EXCEPT ![k] = e[1]]
  /\ refs' = [refs EXCEPT ![e[1]] = @ + CookieHolds]
  /\ UNCHANGED << attrs, unset, handle, conn, ptr, wrapped, erefs, kept, myconns, myexts >>

\* xpybCookie_dealloc.  The Cookie object may be used again in the model.
DropCookie(k) ==
  /\ cookie[k] # Null
  /\ cookie' = [cookie EXCEPT ![k] = Null]
  /\ Release(cookie[k], CookieHolds, erefs)
  /\ UNCHANGED << unset, ptr, wrapped, myconns, myexts >>

\* An attribute that is neither a method nor a member goes into the instance
\* dictionary: conn.render = e.
SetAttr(e) ==
  /\ Has(e[1]) /\ myexts[e] > 0 /\ e[2] \in Keys
  /\ e \notin attrs
  /\ attrs' = attrs \union {e}
  /\ erefs' = [erefs EXCEPT ![e] = @ + 1]
  /\ UNCHANGED << handle, conn, ptr, wrapped, refs, kept, unset, cookie, myconns, myexts >>

\* del conn.render.  The Extension itself stays in the cache.
DelAttr(e) ==
  /\ Has(e[1])
  /\ e \in attrs
  /\ attrs' = attrs \ {e}
  /\ erefs' = [erefs EXCEPT ![e] = @ - 1]
  /\ UNCHANGED << handle, conn, ptr, wrapped, refs, kept, unset, cookie, myconns, myexts >>

\* References xpybConn_getattro makes of the one PyDict_GetItem lends it.
DictGives == 1

\* The program reads conn.render.
TakeAttr(e) ==
  /\ Has(e[1])
  /\ e \in attrs
  /\ myexts[e] < MaxRefs
  /\ myexts' = [myexts EXCEPT ![e] = @ + 1]
  /\ erefs' = [erefs EXCEPT ![e] = @ + DictGives]
  /\ UNCHANGED << handle, conn, ptr, wrapped, refs, kept, attrs, unset, cookie, myconns >>

FaultyReset(c) == UNCHANGED ptr
Reset(c) == ptr' = [ptr EXCEPT ![c] = Null]

\* Connection.disconnect closes any connection, wrapped or not.
Disconnect(c) ==
  /\ Has(c) /\ Valid(c)
  /\ handle' = [handle EXCEPT ![ptr[c]] = "closed"]
  /\ Reset(c)
  /\ UNCHANGED << attrs, unset, conn, wrapped, refs, erefs, kept, cookie, myconns, myexts >>

\* The owner closes a connection that nobody wraps any more.
OwnerCloses(h) ==
  /\ h \in Foreign /\ handle[h] = "open"
  /\ \A c \in Conns : ptr[c] # h
  /\ handle' = [handle EXCEPT ![h] = "closed"]
  /\ UNCHANGED << attrs, unset, conn, ptr, wrapped, refs, erefs, kept, cookie, myconns, myexts >>

Make(c) ==
  \/ \E h \in Handles, ks \in SUBSET Keys :
       \/ \E zeroed, fd \in BOOLEAN : Connect(c, h, ks, zeroed, fd)
       \/ Wrap(c, h, ks)
  \/ \E zeroed \in BOOLEAN :
       \/ ConnectRefused(c, zeroed)
       \/ \E h \in Handles :
            \/ ConnectFails(c, h, zeroed)
            \/ \E fd \in BOOLEAN : ConnectLost(c, h, zeroed, fd)
  \/ \E set \in SUBSET {"conn"} : WrapLost(c, set)

Next ==
  \/ \E c \in Conns :
       \/ Make(c)
       \/ \E k \in Keys, n \in 0 .. 1 : Call(c, k, n)
       \/ TakeCore(c) \/ DropConn(c) \/ Disconnect(c)
  \/ \E e \in Exts : \/ TakeConn(e) \/ DropExt(e)
                     \/ SetAttr(e) \/ DelAttr(e) \/ TakeAttr(e)
                     \/ \E k \in Cookies : Send(e, k)
  \/ \E k \in Cookies : DropCookie(k)
  \/ \E h \in Handles : OwnerCloses(h)

Spec == Init /\ [][Next]_vars

-----------------------------------------------------------------------------
(* Properties.                                                             *)

\* The counts of Connections and Extensions are the references there are, where
\* calls[c] are those of calls in progress.
RefsExactWith(calls) ==
  \A c \in Conns : conn[c] = "alive" =>
    /\ refs[c] = myconns[c] + calls[c]
                   + Cardinality({ e \in Exts : e[1] = c /\ erefs[e] > 0 })
                   + Cardinality({ k \in Cookies : cookie[k] = c })
    /\ \A e \in Exts : e[1] = c => erefs[e] = myexts[e] + Held(e)

\* Whatever a program still holds works on memory that is there: a Cookie or
\* an Extension has a Connection that was not deallocated, and the pointer of
\* such a Connection is reset or points to an open connection, although
\* disconnect() may be called through any other reference.
NoUseAfterFree ==
  \A c \in Conns :
    /\ (\E k \in Cookies : cookie[k] = c) \/ (\E e \in Exts : e[1] = c /\ myexts[e] > 0)
         => conn[c] = "alive"
    /\ conn[c] = "alive" /\ ptr[c] # Null => handle[ptr[c]] = "open"

\* No field is used that was never set.  xcb.connect and xcb.wrap do not clear
\* the object they allocate, so that an early failure leaves it unfit for
\* deallocation: it never comes to that, because xcb.connect never drops the
\* object and the core Extension holds the one of xcb.wrap.  In a Connection the
\* program gets only pref_screen may be unset.
NothingUnset ==
  \A c \in Conns :
    /\ conn[c] = "freed" => unset[c] \intersect DeallocReads = {}
    /\ conn[c] = "alive" => unset[c] \subseteq { "pref_screen" }

\* Dropping references never closes a connection: a Connection that was set up
\* and its core Extension keep each other alive, so that only disconnect() (or
\* the owner of a wrapped one) closes it.
ClosedOnlyByDisconnect ==
  [][ \A h \in Handles : handle[h] = "open" /\ handle'[h] = "closed" =>
        \/ \E c \in Conns : ptr[c] = h /\ ptr'[c] = Null
        \/ h \in Foreign /\ \A c \in Conns : ptr[c] # h ]_vars

-----------------------------------------------------------------------------
(* Why the safety properties hold: parts of the inductive invariant.       *)

\* An Extension is in the cache of its Connection as long as there are references
\* to it, and a Connection that was set up is never deallocated: the reference
\* its core Extension has is never the last but always one more.  Whatever
\* has a Connection has one that was set up.
CacheInv ==
  /\ \A e \in Exts :
       /\ erefs[e] = myexts[e] + Held(e)
       /\ e \in kept => conn[e[1]] = "alive"
       /\ e \notin kept => myexts[e] = 0 /\ e \notin attrs
  /\ \A c \in Conns : conn[c] = "alive" => << c, Core >> \in kept
  /\ \A k \in Cookies : cookie[k] # Null => conn[cookie[k]] = "alive"

\* No two Connections point to the same xcb_connection_t, which is open.
PointerInv ==
  \A c \in Conns : ptr[c] # Null =>
    /\ conn[c] = "alive"
    /\ handle[ptr[c]] = "open"
    /\ \A d \in Conns : ptr[d] = ptr[c] => d = c
=============================================================================
