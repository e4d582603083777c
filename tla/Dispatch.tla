------------------------------ MODULE Dispatch ------------------------------
(***************************************************************************)
(* How xpyb gets from a response code to a Python class.  Generated        *)
(* modules register their classes with _add_core and _add_ext (module.c);  *)
(* connecting walks the registered extensions, asks the server for their   *)
(* numbers and fills two tables indexed by an unsigned char (conn.c);      *)
(* xpybEvent_create and xpybError_set look codes up in them (event.c,      *)
(* error.c); calling a Connection with a key returns the cached Extension. *)
(*                                                                         *)
(* The class a module registers for number n of extension k is << k, n >>. *)
(* The functions modelled hold the interpreter lock throughout, so only    *)
(* the loss of the connection can fall between two iterations of the loop  *)
(* in xpybConn_setup; the order of the loop is that of a Python dict.      *)
(***************************************************************************)
EXTENDS Naturals, FiniteSets, FiniteSetsExt

CONSTANTS
  Keys,        \* ExtensionKey objects of the generated modules
  Core,        \* stands for the core protocol, which has no key
  Conns,       \* Connection objects
  Byte,        \* number of values of an unsigned char
  EventNums,   \* the event numbers each module registers a class for
  ErrorNums,   \* the error numbers each module registers a class for
  Servers,     \* the servers to connect to: what they say of each key
  Generic      \* the class of a response nothing was registered for

Modules == Keys \union {Core}
Codes   == 0 .. Byte - 1
Info    == [present : BOOLEAN, first_event : Codes, first_error : Codes]

ASSUME ConstantsAssumption ==
  /\ Core \notin Keys
  /\ Byte \in Nat \ {0}
  /\ EventNums \in [Modules -> SUBSET Codes]
  /\ ErrorNums \in [Modules -> SUBSET Codes]
  /\ Servers \subseteq [Keys -> Info]
  /\ Byte - 1 \notin EventNums[Core] \union ErrorNums[Core]

VARIABLES
  server,      \* what this server says of each key
  core,        \* xpybModule_core has been set
  extdict,     \* keys of xpybModule_extdict
  ext_events,  \* keys of xpybModule_ext_events
  ext_errors,  \* keys of xpybModule_ext_errors
  phase,       \* each Connection: not made, in xpybConn_setup, ready, failed
  lost,        \* connections libxcb has put in error
  known,       \* (history) keys that were registered when it was connected
  todo,        \* keys the loop of xpybConn_setup has still to visit
  extcache,    \* the Extension object cached for each key, or None
  events,      \* the event table: a function on 0 .. events_len - 1
  errors,      \* the error table
  objects,     \* (history) Extension objects made for each connection and key
  crashed      \* why the process went into undefined behaviour, or "no"

registry == << core, extdict, ext_events, ext_errors >>
tables   == << events, errors >>
caches   == << extcache, objects >>
vars == << server, registry, phase, lost, known, todo, caches, tables, crashed >>

None  == [present |-> FALSE, first_event |-> 0, first_error |-> 0, id |-> 0]
Empty == [i \in {} |-> Generic]

\* A table has a slot for each code below its length.
IsTable(tab) == \E len \in 0 .. Byte : DOMAIN tab = 0 .. len - 1

TypeOK ==
  /\ server \in Servers
  /\ core \in BOOLEAN
  /\ ext_errors \subseteq ext_events /\ ext_events \subseteq extdict
  /\ extdict \subseteq Keys
  /\ phase \in [Conns -> { "none", "setup", "ready", "failed" }]
  /\ lost \subseteq Conns
  /\ known \in [Conns -> SUBSET Keys]
  /\ todo \in [Conns -> SUBSET Keys]
  /\ \A c \in Conns, k \in Keys : extcache[c][k].id \in 0 .. objects[c][k]
  /\ \A c \in Conns : IsTable(events[c]) /\ IsTable(errors[c])
  /\ crashed \in { "no", "unknown key", "no reply", "overrun" }

Init ==
  /\ server \in Servers
  /\ core = FALSE
  /\ extdict = {} /\ ext_events = {} /\ ext_errors = {}
  /\ phase = [c \in Conns |-> "none"]
  /\ lost = {}
  /\ known = [c \in Conns |-> {}]
  /\ todo = [c \in Conns |-> {}]
  /\ extcache = [c \in Conns |-> [k \in Keys |-> None]]
  /\ events = [c \in Conns |-> Empty]
  /\ errors = [c \in Conns |-> Empty]
  /\ objects = [c \in Conns |-> [k \in Keys |-> 0]]
  /\ crashed = "no"

-----------------------------------------------------------------------------
(* The tables.  A definition named Faulty... is a plausible mistake in the *)
(* definition that follows it; nothing else uses it.                       *)

\* opcode = ext->first_... + num, in an unsigned char.
Code(first, n) == (first + n) % Byte

\* The table ends before the slot of the code.
FaultyNewLen(code) == code

\* newlen = opcode + 1, in an unsigned char too.
NewLen(code) == (code + 1) % Byte

\* The slot of a code the table is too short for lies outside the memory of the
\* new length: clearing or writing it is out of bounds.
Overruns(tab, first, nums) ==
  \E n \in nums :
    LET code == Code(first, n)
    IN  code >= Cardinality(DOMAIN tab) /\ code >= NewLen(code)

\* The table has slots for the codes that are entered and no others.
FaultyFill(tab, first, nums, k) ==
  LET used == { Code(first, n) : n \in nums }
  IN  [ i \in DOMAIN tab \union used |->
          IF i \in used THEN << k, CHOOSE n \in nums : Code(first, n) = i >>
          ELSE tab[i] ]

\* One loop of xpybConn_setup_helper that does not overrun: the table grows to
\* hold each code, new slots are cleared, and the code's slot gets its class.
Fill(tab, first, nums, k) ==
  LET used == { Code(first, n) : n \in nums }
      size == Max({Cardinality(DOMAIN tab)} \union { i + 1 : i \in used })
  IN  [ i \in 0 .. size - 1 |->
          IF i \in used THEN << k, CHOOSE n \in nums : Code(first, n) = i >>
          ELSE IF i \in DOMAIN tab THEN tab[i]
          ELSE Generic ]

FaultyLookUp(tab, code) ==
  IF code <= Cardinality(DOMAIN tab) - 2 THEN tab[code] ELSE Generic

\* opcode < len && table[opcode] != NULL, or the generic class.
LookUp(tab, code) == IF code \in DOMAIN tab THEN tab[code] ELSE Generic

\* xpybEvent_create drops the bit that marks an event sent by a client.
EventClass(c, response_type) == LookUp(events[c], response_type % (Byte \div 2))

\* xpybError_set.
ErrorClass(c, error_code) == LookUp(errors[c], error_code)

-----------------------------------------------------------------------------
(* Importing generated modules.                                            *)

\* The interpreter lock: no function runs while xpybConn_setup does.
Quiet == crashed = "no" /\ \A c \in Conns : phase[c] # "setup"

\* xcb._add_core: the first core protocol registered stays.
AddCore ==
  /\ Quiet
  /\ core' = TRUE
  /\ UNCHANGED << server, extdict, ext_events, ext_errors, phase, lost, known,
                  todo, caches, tables, crashed >>

\* xcb._add_ext makes three entries; an insertion may fail, and what was
\* inserted before it stays.
AddExt(k, entries) ==
  /\ Quiet
  /\ extdict' = extdict \union {k}
  /\ ext_events' = IF entries >= 2 THEN ext_events \union {k} ELSE ext_events
  /\ ext_errors' = IF entries >= 3 THEN ext_errors \union {k} ELSE ext_errors
  /\ UNCHANGED << server, core, phase, lost, known, todo, caches, tables, crashed >>

-----------------------------------------------------------------------------
(* Connecting and wrapping: xpybConn_init, xpyb_wrap, xpybConn_init_struct *)
(* and xpybConn_setup.                                                     *)

Fail(c) ==
  /\ phase' = [phase EXCEPT ![c] = "failed"]
  /\ todo' = [todo EXCEPT ![c] = {}]

\* No core protocol has been imported, there is no server, or xcb.wrap is given
\* what is not a pointer.
ConnectFails(c) ==
  /\ Quiet
  /\ phase[c] = "none"
  /\ Fail(c)
  /\ UNCHANGED << server, registry, lost, known, caches, tables, crashed >>

\* The tables start with the core classes, whose numbers count from zero.
BeginSetup(c) ==
  /\ Quiet
  /\ core
  /\ phase[c] = "none"
  /\ phase' = [phase EXCEPT ![c] = "setup"]
  /\ known' = [known EXCEPT ![c] = ext_events]
  /\ todo' = [todo EXCEPT ![c] = ext_events]
  /\ events' = [events EXCEPT ![c] = Fill(Empty, 0, EventNums[Core], Core)]
  /\ errors' = [errors EXCEPT ![c] = Fill(Empty, 0, ErrorNums[Core], Core)]
  /\ UNCHANGED << server, registry, caches, crashed >>

\* A connection that was made without an error.
Connect(c) == BeginSetup(c) /\ UNCHANGED lost

\* xcb.wrap does not ask whether the connection it is given is in error.
Wrap(c) == BeginSetup(c) /\ lost' \in { lost, lost \union {c} }

FaultyRemember(c, k, ext) == UNCHANGED extcache

Remember(c, k, ext) == extcache' = [extcache EXCEPT ![c][k] = ext]

\* xpybConn_load_ext for a registered key that is not in the cache: a new
\* Extension object gets the server's numbers and goes into the cache.
LoadExt(c, k) ==
  LET id == objects[c][k] + 1
  IN  /\ objects' = [objects EXCEPT ![c][k] = id]
      /\ Remember(c, k, [ present     |-> server[k].present,
                          first_event |-> server[k].first_event,
                          first_error |-> server[k].first_error,
                          id          |-> id ])

\* The errors registered for a module; PyDict_Next finds none in a missing
\* dictionary.
RegisteredErrors(k) == { n \in ErrorNums[k] : k \in ext_errors }

\* The errors are entered from the base of the events.
FaultyEnter(c, k) ==
  /\ events' = [events EXCEPT ![c] =
                  Fill(@, server[k].first_event, EventNums[k], k)]
  /\ errors' = [errors EXCEPT ![c] =
                  Fill(@, server[k].first_event, RegisteredErrors(k), k)]

\* xpybConn_setup_helper for an extension the server has.
Enter(c, k) ==
  /\ events' = [events EXCEPT ![c] =
                  Fill(@, server[k].first_event, EventNums[k], k)]
  /\ errors' = [errors EXCEPT ![c] =
                  Fill(@, server[k].first_error, RegisteredErrors(k), k)]

TableOverrun(c, k) ==
  /\ server[k].present
  /\ \/ Overruns(events[c], server[k].first_event, EventNums[k])
     \/ Overruns(errors[c], server[k].first_error, RegisteredErrors(k))

\* The errors are looked up in another dictionary.
FaultyHasErrors(k) == FALSE

\* Nobody looks whether errors were registered.
LaxHasErrors(k) == TRUE

HasErrors(k) == k \in ext_errors

\* The loop finds no errors registered for the key: -1 without an exception.
SetupMisses(c, k) ==
  /\ phase[c] = "setup" /\ crashed = "no"
  /\ k \in todo[c]
  /\ ~HasErrors(k)
  /\ Fail(c)
  /\ UNCHANGED << server, registry, lost, known, caches, tables, crashed >>

SetupNext(c, k) ==
  /\ phase[c] = "setup" /\ crashed = "no"
  /\ k \in todo[c]
  /\ HasErrors(k)
  /\ c \notin lost
  /\ ~TableOverrun(c, k)
  /\ LoadExt(c, k)
  /\ IF server[k].present THEN Enter(c, k) ELSE UNCHANGED tables
  /\ todo' = [todo EXCEPT ![c] = @ \ {k}]
  /\ UNCHANGED << server, registry, phase, lost, known, crashed >>

\* libxcb has no reply to give for a connection in error.
SetupWithoutReply(c, k) ==
  /\ phase[c] = "setup" /\ crashed = "no"
  /\ k \in todo[c]
  /\ HasErrors(k)
  /\ c \in lost
  /\ crashed' = "no reply"
  /\ UNCHANGED << server, registry, phase, lost, known, todo, caches, tables >>

\* A table is too short for a code that is entered, which it is for the last
\* code: realloc to nothing may fail and be reported, or the table is overrun.
SetupOverruns(c, k) ==
  /\ phase[c] = "setup" /\ crashed = "no"
  /\ k \in todo[c]
  /\ HasErrors(k)
  /\ c \notin lost
  /\ TableOverrun(c, k)
  /\ LoadExt(c, k)
  /\ \/ Fail(c) /\ UNCHANGED crashed
     \/ crashed' = "overrun" /\ UNCHANGED << phase, todo >>
  /\ UNCHANGED << server, registry, lost, known, tables >>

SetupDone(c) ==
  /\ phase[c] = "setup" /\ crashed = "no"
  /\ todo[c] = {}
  /\ phase' = [phase EXCEPT ![c] = "ready"]
  /\ UNCHANGED << server, registry, lost, known, todo, caches, tables, crashed >>

-----------------------------------------------------------------------------
(* Using a connection: xpybConn_call.                                      *)

\* xpybConn_invalid lets the call through.
MayCall(c) == Quiet /\ phase[c] = "ready" /\ c \notin lost

\* conn(key) for a key not asked for before.  With a key the cache has, or an
\* extension the server lacks, the call changes nothing.
CallLoads(c, k) ==
  /\ MayCall(c)
  /\ extcache[c][k].id = 0
  /\ k \in extdict
  /\ c \notin lost
  /\ LoadExt(c, k)
  /\ UNCHANGED << server, registry, phase, lost, known, todo, tables, crashed >>

\* The connection is in error by the time libxcb is asked for the numbers.
CallWithoutReply(c, k) ==
  /\ MayCall(c)
  /\ extcache[c][k].id = 0
  /\ k \in extdict
  /\ lost' = lost \union {c}
  /\ crashed' = "no reply"
  /\ UNCHANGED << server, registry, phase, known, todo, caches, tables >>

\* xpybConn_load_ext returns NULL, which xpybConn_call dereferences.
CallUnknown(c, k) ==
  /\ MayCall(c)
  /\ extcache[c][k].id = 0
  /\ k \notin extdict
  /\ crashed' = "unknown key"
  /\ UNCHANGED << server, registry, phase, lost, known, todo, caches, tables >>

Lose(c) ==
  /\ crashed = "no"
  /\ phase[c] \in { "setup", "ready" }
  /\ lost' = lost \union {c}
  /\ UNCHANGED << server, registry, phase, known, todo, caches, tables, crashed >>

Next ==
  \/ AddCore
  \/ \E k \in Keys, entries \in 1 .. 3 : AddExt(k, entries)
  \/ \E c \in Conns :
       \/ ConnectFails(c) \/ Connect(c) \/ Wrap(c) \/ SetupDone(c) \/ Lose(c)
       \/ \E k \in Keys :
            \/ SetupMisses(c, k) \/ SetupNext(c, k)
            \/ SetupWithoutReply(c, k) \/ SetupOverruns(c, k)
            \/ CallLoads(c, k) \/ CallWithoutReply(c, k) \/ CallUnknown(c, k)

Spec == Init /\ [][Next]_vars

\* xpybConn_setup goes on while it can: it waits for nobody but libxcb, which
\* returns, with an answer or for want of one.
SetupGoesOn(c) ==
  \/ SetupDone(c)
  \/ \E k \in Keys : \/ SetupMisses(c, k) \/ SetupNext(c, k)
                     \/ SetupWithoutReply(c, k) \/ SetupOverruns(c, k)

FairSpec == Spec /\ \A c \in Conns : WF_vars(SetupGoesOn(c))

-----------------------------------------------------------------------------
(* Properties.                                                             *)

\* The modules that were entered in the tables of a connection.
Entered(c) == { k \in known[c] : server[k].present }

\* The registered classes a code may stand for when the modules in mods are
\* entered, given the numbers and the bases of each module.
Claims(mods, nums, base, code) ==
  { class \in Modules \X Codes :
      LET k == class[1]
          n == class[2]
      IN  /\ n \in nums[k]
          /\ \/ k = Core /\ n = code
             \/ k \in mods /\ Code(base[k], n) = code }

EventBase == [k \in Keys |-> server[k].first_event]
ErrorBase == [k \in Keys |-> server[k].first_error]

Fits(class, claims) == IF claims = {} THEN class = Generic ELSE class \in claims

\* An event gets a class that was registered for its number by a module that
\* the program had imported when it connected and the server knows; it gets
\* the generic class when there is none, as for a module imported later.
EventsDispatched ==
  \A c \in Conns : phase[c] = "ready" =>
    \A code \in 0 .. (Byte \div 2) - 1, sent \in { 0, Byte \div 2 } :
      Fits(EventClass(c, code + sent),
           Claims(Entered(c), EventNums, EventBase, code))

\* The same for errors, whose code is not masked.
ErrorsDispatched ==
  \A c \in Conns : phase[c] = "ready" =>
    \A code \in Codes :
      Fits(ErrorClass(c, code),
           Claims(Entered(c), ErrorNums, ErrorBase, code))

\* However often it is called with a key, a connection gives out one Extension
\* object for it, and that object has the server's numbers.
OneExtension ==
  \A c \in Conns, k \in Keys :
    /\ objects[c][k] <= 1
    /\ extcache[c][k].id = 1 =>
         \A f \in { "present", "first_event", "first_error" } :
           extcache[c][k][f] = server[k][f]

\* Some event or error of the module is given the last code there is.
LastCode(k) ==
  /\ server[k].present
  /\ \/ \E n \in EventNums[k] : (server[k].first_event + n) % Byte = Byte - 1
     \/ \E n \in ErrorNums[k] : (server[k].first_error + n) % Byte = Byte - 1

\* What the process can die of: a table is overrun only by the last code, the
\* loss of a connection is fatal only while a registered extension is not in
\* its cache, and a key only if no module registered it.  A connection that has
\* all its Extensions outlives the loss.
DiesOnlyWhen ==
  /\ crashed = "overrun" => \E c \in Conns : \E k \in todo[c] : LastCode(k)
  /\ crashed = "no reply" =>
       \E c \in lost, k \in extdict : extcache[c][k].id = 0
  /\ crashed = "unknown key" =>
       \E c \in Conns, k \in Keys \ extdict : phase[c] = "ready"

\* Connecting comes to its end: if every module still to be visited was
\* registered in full and has no last code, xpybConn_setup neither fails nor
\* stops, whatever the order of the modules, unless the connection is lost.
SetupCompletes ==
  \A c \in Conns :
    (/\ phase[c] = "setup"
     /\ todo[c] \subseteq ext_errors
     /\ \A k \in todo[c] : ~LastCode(k))
    ~> (phase[c] = "ready" \/ c \in lost)

-----------------------------------------------------------------------------
(* Why the safety properties hold: the inductive invariant.                *)

ShapeInv ==
  /\ DOMAIN events = Conns /\ DOMAIN errors = Conns
  /\ DOMAIN extcache = Conns /\ \A c \in Conns : DOMAIN extcache[c] = Keys
  /\ objects \in [Conns -> [Keys -> Nat]]

\* An Extension is cached as soon as it is made, and none is made before setup,
\* nor for a key that setup has still to visit, unless setup crashed over it.
CacheInv ==
  /\ OneExtension
  /\ \A c \in Conns, k \in Keys :
       /\ extcache[c][k].id = objects[c][k]
       /\ phase[c] = "none" => objects[c][k] = 0
       /\ crashed = "no" /\ k \in todo[c] => objects[c][k] = 0

\* During setup the tables have the classes of the modules visited so far; the
\* loop is over when the connection is ready.
TableInv ==
  \A c \in Conns :
    /\ todo[c] \subseteq known[c]
    /\ phase[c] = "ready" => todo[c] = {}
    /\ phase[c] \in { "setup", "ready" } =>
         \A code \in Codes :
           /\ Fits(LookUp(events[c], code),
                   Claims(Entered(c) \ todo[c], EventNums, EventBase, code))
           /\ Fits(LookUp(errors[c], code),
                   Claims(Entered(c) \ todo[c], ErrorNums, ErrorBase, code))

\* Together these are preserved by every step and imply the safety properties.
IInv ==
  /\ TypeOK
  /\ ShapeInv
  /\ CacheInv
  /\ TableInv

=============================================================================
