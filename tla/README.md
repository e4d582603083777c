# A verification project for xpyb

xpyb is the Python binding of XCB: a C extension (`src/src/*.c`) that exposes
libxcb to Python 2, and a generator (`src/src/py_client.py`) that turns the XML
descriptions of the X protocol into Python modules on top of it.  This
directory holds TLA+ models of its core logic, the TLC runs that check them on
small instances and TLAPS proofs of the most important properties.

Paths below are relative to the repository, which is `src/` here, so
`src/src/conn.c` is its file `src/conn.c`.

## The system

| part | state it keeps | operations | how it meets the others |
|---|---|---|---|
| Connection (`conn.c`) | the `xcb_connection_t` pointer, `wrapped`, the core Extension, the cached Setup, `extcache`, the event and error tables | `connect`, `wrap`, the call with a key, `wait_for_event`, `poll_for_event`, `flush`, `has_error`, `get_setup`, `generate_id`, `disconnect`, deallocation | everything goes through its pointer; `xpybConn_invalid` is the guard of nearly every method |
| Extension (`ext.c`, `extkey.c`) | its Connection, its key, the server's numbers | `send_request` | generated classes derive from it; a Connection caches one per key |
| Request (`request.c`) | the packed bytes, opcode, `is_void`, `is_checked` | constructor | made by a generated method, kept by the Cookie |
| Cookie (`cookie.c`) | its Connection, its Request, the reply class, the sequence number | `check`, `reply`, deallocation | asks libxcb for the answer, tells it to discard what nobody will ask for |
| Event, Error, Reply (`event.c`, `error.c`, `reply.c`, `response.c`) | a buffer with the bytes | look-up of the class, `xpybError_set` | use the tables of the Connection |
| Protocol objects (`protobj.c`, `struct.c`, `union.c`, `list.c`) | a buffer into their parent, the elements of a list | constructors, `_resize_obj`, `type_pad`, sequence methods | called by the generated constructors |
| Iterator (`iter.c`) | a stack of Python iterators | `__iter__`, `next` | read by the generated request methods |
| Module (`module.c`) | the registry of core and extension classes | `_add_core`, `_add_ext`, `connect`, `wrap` | filled by importing generated modules, read when connecting and calling |
| Generator (`py_client.py`) | format being collected, sections of output | one function per kind of declaration | its output runs on all of the above |

What makes it hard:

* **Threads under one lock.**  No function of the extension releases Python's
  global interpreter lock.  `reply()`, `check()` and `wait_for_event()` block
  inside libxcb while they hold it, so every other thread stops; this is also
  all that keeps `disconnect()` from freeing the connection under them.
* **Answers come when they like**: before or after `reply()`, before or after
  the Cookie is deallocated, or never, because the connection broke or was
  disconnected.  An error goes to the Cookie or to the event queue, depending
  on how the request was sent.
* **Registration order.**  Modules may be imported before or after a connection
  is made, and the server assigns the numbers.
* **Arithmetic at boundaries**: unsigned characters in the tables, alignment and
  sizes computed half by the generator and half by the generated code.
* **Partial failure**: an exception between two insertions, a reply that was
  taken and cannot be built, a connection lost between a check and its use.

What makes it correct, part by part: a response is handed over at most once, is
kept as long as it can be asked for and never longer; a blocked thread gets out;
a code is turned into the class registered for it; items of an argument are
neither lost nor repeated; an attribute holds the bytes of its field.

## The modules

| module | models | checked by | proved in |
|---|---|---|---|
| `ResponseLedger` | abstract: what may become of the response of each request | `protocol` | `CookieProtocol_refinement` |
| `TupleSource` | abstract: what the generated loops rely on of an Iterator | `flat_iter` | `FlatIter_proofs` |
| `CookieProtocol` | `conn.c` methods, `send_request`, `cookie.c`, libxcb and the server | `protocol`, `check_reports`, `errors_thrown` | `CookieProtocol_proofs`, `CookieProtocol_refinement` |
| `Dispatch` | registry, tables, look-up, `xpybConn_call` | `dispatch` | `Dispatch_proofs` |
| `FlatIter` | `iter.c` | `flat_iter`, `too_few` | `FlatIter_proofs` |
| `Layout` | `_py_complex`, `py_union` and what they generate, `list.c`, `type_pad`, `_resize_obj` | `layout`, `unpadded` | `Layout_proofs` |
| `RegularLayout` | no code: the descriptions the generator is made for, and the inductive invariant of `Layout` for them | `layout` | `Layout_proofs` |
| `Lifetime` | `connect`, `wrap` and their failures, references between Connection, Extension and Cookie, the instance dictionary, `disconnect`, deallocation | `lifetime`, through `GetSetup` | `GetSetup_proofs` |
| `GetSetup` | extends `Lifetime` by `get_setup` in several threads | `lifetime` | `GetSetup_proofs` |
| `Marshal` | `_py_request_helper` and the methods it generates, `request.c`, the padding of `send_request` | `marshal`, `variable_structs`, `nested_lists` | `Marshal_proofs` |
| `Sums` | no code: the sum of a sequence, as a recursive function | `marshal` and `layout`, through `Marshal` and `Layout` | `Sums_proofs` |

Each `MC*` module instantiates the module of its name for TLC; `MCLifetime`
instantiates `GetSetup`, which composes `Lifetime` with the cache of Setups, `MCLayout`
instantiates `RegularLayout`, and `MCUnpadded` `Layout` itself, with descriptions that
are not regular; `LayoutExamples` is how both write descriptions.  `PROJECT.json`
maps every definition to the lines it stands for.  Operators named `Faulty...`
(and `AliasPush` and `LaxHasErrors`) stand before the definition they differ from and are used
by nothing: each is a plausible mistake, and putting it in the place of the
definition makes the property named in `PROJECT.json` fail.

### CookieProtocol

`conn` is `self->conn` (open or NULL), `xerr` what `xcb_connection_has_error`
says; together they are `xpybConn_invalid`.  `cookie` and `request` are the
Cookie objects and the two flags of their Requests; `gil` and `call` say who is
inside libxcb and in what call.  The rest is libxcb (output buffer, answers,
discarded sequence numbers, event queue) and the server (`wire`), modelled by
what xpyb relies on, and three history variables.

A method is one step, since it holds the interpreter lock; the three blocking
ones are a `Begin` and an `End` step between which the server, and only the
server, moves.  The guards of `Begin` are the early returns of the method; the
alternatives of `End` are the ways libxcb returns: with the answer; without,
because the answer was read before; without, because the connection broke.
Building the Python object may fail after the answer was taken (`built`).
`HasConnection` is the test `xpybCookie_dealloc` makes before it discards: without it
a Cookie dropped after `disconnect()` would act on a connection that is gone, which
`FreedUntouched` rules out for every method and every deallocation.

`ResponseLedger` is what a user may rely on, without threads, locks and buffers:
each response is delivered at most once and dropped only because its Cookie was
deallocated or the connection disconnected.  `LedgerSpec` is the refinement;
`Fate` computes the fate of a response from the detailed state.

### Dispatch

The four registry variables are those of `module.c`; `AddExt` makes one, two or
three of its insertions. Connecting is `Connect` or `Wrap`, which does not ask
whether its connection is in error, a step for each key of the loop of
`xpybConn_setup` in any order (a Python dictionary has its own), and
`SetupDone`. Codes are computed modulo `Byte`, as in an unsigned char; the code
`Byte - 1` makes `newlen` zero (`NewLen`), so that the slot lies outside the table
(`Overruns`), which ends in a failure or in the outcome `overrun`. `Lose` may happen
in the middle of the loop, and `CallWithoutReply` has it happen between the
check at the start of the call and the use of libxcb's reply.

`crashed` is where undefined behaviour begins.  `DiesOnlyWhen` says what state the
process must be in for each kind: a table is overrun only by the last code
(`LastCode`, stated of the sums, not of table lengths), a lost connection is fatal
only if it lacks the Extension of a registered key, and a key only if nobody
registered it.  `SetupCompletes` is the other side: connecting gets to its end if
the modules to visit are registered in full and none has the last code, unless the
connection is lost.  A module whose `_add_ext` failed half-way makes connecting fail;
were it entered without its errors, `ErrorsDispatched` would fail.

### FlatIter

The recursion of `xpybIter_pop` is a loop of steps (`Ascend`, `Descend`, `Pop`)
because the iterators it runs are Python code, which may raise.  `stack` and
`top` are kept apart as in the code.  Arguments are nested sequences over `Atoms`
and `Texts`, strings of one character: iterating over one gives itself, so the
Iterator descends without end.  `calls` counts the calls of `xpybIter_pop` that
wait for one another, and at `Deep` of them the stack is exhausted (`Overflow`).
`NotIterable` is an argument whose `__iter__` raises.  Going up recurses as well as going down, so that many empty sequences in a row
have the same effect; `OverflowsOnlyWhen` bounds how many it takes.  A compiler
that turns the last call into a loop removes the bound for those and leaves
strings without end; the model is the build that does not.

What the items of an argument are is computed by a recursive operator, `Flatten`
of `MCFlatIter`, which holds the two properties that need it (`NothingLost` and
`OverflowsOnlyWhen`).  `FlatIter` itself takes the relation between an argument and
its items as the constant `Flat`, of which `FlatAssumption` says only what one
level of nesting adds; TLC evaluates that assumption for `Flatten`.  `given` remembers
the argument, and the tuples are compared with its items.

`TupleSource` is what the loops of generated methods rely on: the items in whole
tuples, then the end, or a complaint if some are left, or a failure.  `FlatIter`
implements it (`SourceSpec`), and the loop of `Marshal` takes from it.

### Layout

The generator takes the fields one by one and emits statements, and the
constructor executes them on the message the description was paired with.
Values are left out; the position of each read is what matters.  `WireAt` is the
reference the positions are compared with: fields follow one another; after the
first list or nested structure, lists and structures are aligned to their size
(at most 4) and numbers that follow one start at a multiple of 4.  The members of
a union all start where it starts, and a union of variable size is as long as its
longest member.  `cut` is the size given to `_resize_obj`.  Nested structures are taken
at their size: their constructors are instances of the same algorithm.

Positions are recursive functions over the fields (`WirePositions`, `Native`) and over
the statements (`Offsets`), not recursive operators, so that theorems can be stated
about them.

The generator is not right for every description it accepts.  It takes the sum of
the sizes for the length of a batch, where `unpack_from` inserts padding before a
number that is not at a multiple of its size; it aligns numbers only behind the last
list; and it drops what is left over when a batch has no numbers.  The protocol's
descriptions are padded by hand so that none of this matters, and `Regular` says
what that means:

* `Usual`: numbers have 1, 2, 4 or 8 bytes; nothing `type_pad` has to align has 3, for
  which its mask is none; the length of a list is a number;
* `Natural`: within a run of fields without lists, each number is at a multiple of its
  size;
* `Padded`: numbers between two lists need no padding before them;
* `NoTrail`: a structure of variable size does not end in padding;
* members of a union are lists whose length is constant, structures and numbers.

`RegularAssumption` asks it of every description and of every offset the object may
start at.  `MCLayout` gives TLC all regular descriptions over its choice of fields.
`unpadded` shows what happens without `Padded`; without `NoTrail`, `SizeRight` fails.

### Lifetime

`refs` and `erefs` are `ob_refcnt` of Connections and Extensions; `kept` is what
the fields `core` and `extcache` hold, `cookie` what Cookies hold, and `myconns`
and `myexts` what the program has in variables.  Taking or dropping a reference
is one step with the deallocations that follow.  `attrs` are the Extensions a program
has stored as attributes of their own Connection (`conn.render = ...`), which go
into its instance dictionary and make another cycle.  A Connection that failed to
be set up is `lost`: its core Extension holds it, or `xcb.connect` returned without
giving it back, and nobody is left to close its connection; an `xcb.Connection` the
interpreter makes (`zeroed`) is deallocated if it failed before it had a core.
`unset` are the fields that hold whatever the allocated memory held:
`xcb.connect` and `xcb.wrap` use `PyObject_New`, which clears nothing.
`NothingUnset` states that deallocation never meets such a field, which is so only
because the failing paths of these two functions leak the object.  The model shows why
deallocation never closes anything: `Release` can reach `Closes`, but the core
Extension always holds a reference, so the branch is taken only in the mutants.
The owner of a wrapped connection is assumed to close it only when no Connection
points to it.

### GetSetup

`get_setup()` looks at the cache, calls the Setup class, which is Python code, and
stores the result.  `BeginSetup` and `EndSetup` are its two halves; between them any
step of `Lifetime` (`Otherwise`) and of other threads may happen, among them
`disconnect()`, deallocation by other references, and a second `get_setup()`.  The
Setup objects of a Connection are counted together; `overlapped` remembers the
Connections for which two threads made one at once, the only ones that leak a
Setup (`RefsExact`).  `SetupReadable` is about libxcb's memory, which a Setup reads
without holding anything that keeps it there.

### Marshal

As in `Layout`, the generator takes the wire fields one by one and the method
executes the statements, here on the arguments of a call.  An argument is how
many numbers it has, whether it is nested, and whether they are in range; what
`xcb.Iterator` does with the nesting is `FlatIter`'s concern.  How many numbers a
structure is packed from is computed from its fields as `_py_type_setup` does
(`FormatLen`), with -1 for a structure whose size varies.  The buffer is a
sequence of field, item and size.

`NothingLost` compares the buffer with the call: its units of each field are those
the description and the argument ask for (`Part`, `ItemsOf`: one structure for a
field that is one, however many numbers it was given), in the order they have on the
wire (`Ordered`).  It says nothing of a field that is one structure when its argument
has the numbers of none or of several (`Counted`), because then the code writes none
or several; `too_few` shows an argument of none.  `RefusesExactly` says which arguments are
refused: a number, an element or the value of an expression that is out of range
(`OutOfRange`), items that make no whole structures (`Ungrouped`), and a list of
numbers that is nested (`NestedList`).  The last is what the code does and not what
the documentation says; `nested_lists` shows the disagreement.
`Wire`, which `IInv` and the proofs use, is the same as a sequence of units, as the
code writes them.  `HeaderAssumption` is what every description of a request starts with, whether it
belongs to the core protocol or to an extension: two fields of one byte and the
length in two.  `Sums` adds up sizes by a recursive function, not by a fold, so
that facts about sums can be proved.

## The runs

| run | question | bounds | result |
|---|---|---|---|
| `protocol` | is a response ever lost, duplicated, kept too long or misreported, who can be in a freed connection or do anything to it, is that what the ledger promises, do blocked `reply()` and `check()` return, and what keeps `wait_for_event()`? | 2 threads, 2 cookies, 1 event | holds |
| `check_reports` | does `check()` raise every error? | 1 thread, 2 cookies | violated |
| `errors_thrown` | is every error thrown? | 1 thread, 2 cookies | violated |
| `dispatch` | does every code get its class, a key one Extension; does connecting complete; what can the process die of? | 2 connections, 2 keys, 16 codes, 6 servers | holds |
| `flat_iter` | are items lost, repeated or misgrouped; does the loop end, and when by exhausting the stack? | arguments of up to 3 items, nesting up to 4, some with strings, groups of 1 to 3, a stack of 5 calls | holds |
| `too_few` | is an argument that is too short reported? | same | violated |
| `layout` | is each field read from its place, is the size right, does a constructor ever fail? | regular descriptions of up to 3 fields of 13 kinds, of 4 over 7; unions of up to 3 members; objects at 0 and 4 | holds |
| `unpadded` | is that so for numbers between lists without padding? | up to 4 fields: lists of bytes, CARD32 | violated |
| `lifetime` | are counts exact, is anything used after it was freed or before it was set, and what closes a connection? | 2 connections, 2 cookies, 1 key, 2 handles, 1 reference to an object in the program's variables, 2 threads in `get_setup()` of one connection; symmetric in cookies and threads | holds |
| `marshal` | is every item written once and in order, padded, with the right flags; what is refused? | a header and up to 3 fields of 16 kinds | holds |
| `variable_structs` | can structures of variable size be passed? | same | violated |
| `nested_lists` | is a nested list of numbers accepted? | same | violated |

Why the bounds are enough: a hazard of the protocol involves at most two actors
and two requests (the one asked for and one before or behind it in a queue), and
the proofs hold for any number.  Two connections and two keys give every order
of imports, connects and calls; the tables' arithmetic depends on codes only
relative to `Byte`.  The servers include one that lacks an extension, one whose
extensions overlap, because it has an older version of one, one whose two
keys name the same extension (keys are compared by identity, so that a module
imported twice registers two), and one that uses the last code.  Three items, one of them nested, put an empty or exhausted
sequence at every place of an outer one and the end at every place of a tuple.
Three fields have a batch before, between and after lists.
Two connections, one of them possibly wrapped, with two Extensions each, two
Cookies and a Setup give every order in which the last reference of each kind
goes; a second reference in a variable would only delay it.  The run has no
temporal property but `ClosedOnlyByDisconnect`, which names no Cookie and no
thread, so the symmetry is sound.  A stack of five calls is exhausted by three
sequences in a row and by every string.

Deadlock is not checked: the program may stop calling, and after a disconnect
there is nothing left to do.

Fairness: `protocol` assumes, for `ReplyReturns`, that the server answers what it has received
(`Answer`) and that a call inside libxcb returns when what it waits for is there
(`EndReply`, `EndCheck`, `EndWaitForEvent`); both are what xpyb relies on when it
blocks.  It does
not assume that the program calls anything, that the server sends events or that
the connection stays whole; a thread may therefore stay in `wait_for_event()`, and
`WaitReturns` says that it does so only while no event is queued, the connection is
whole and the server owes no answer.  `dispatch` assumes, for `SetupCompletes`, that
`xpybConn_setup` goes on (`SetupGoesOn`): it is one C function that waits for
libxcb only, and libxcb comes back with the extension's data or, on a broken
connection, without.  `flat_iter` assumes that a running function and the
`for` loop of the generated code go on.

## What the violations show

* `check_reports`: a NULL from `xcb_request_check` is success for `check()`, also
  when the connection broke first.
* `errors_thrown`: deallocating a Cookie discards errors too, even of unchecked
  requests, which would otherwise have come out of the event queue.
* `too_few`: an empty argument for a structure is accepted and the structure is
  left out of the request.
* `unpadded`: numbers between two lists are not aligned, numbers after the last
  list are.
* `variable_structs`: a structure of variable size has `py_format_len` -1, and no
  Iterator makes tuples of -1 items.
* `nested_lists`: a list of numbers goes to `array`, which takes flat ones only, while
  `XcbPythonBinding.txt:71` says of lists that they "can contain arbitrary internal
  nesting"; only lists of structures are flattened.

Other disagreements are part of what passing runs state and have no run of
their own.

* `DiesOnlyWhen` names the three ways the process dies.  `xpybConn_call` reads through
  the NULL that `xpybConn_load_ext` returns for an unregistered key, although
  `conn.c:134` has set the exception "No extension found for that key."  libxcb has no
  extension data for a connection in error, and `conn.c:145` reads it: a connection may
  break in setup or after the check at the start of a call, or be broken when it is
  wrapped.  And the last code makes `newlen` zero.
* `NothingLost` leaves out a structure whose argument has the numbers of several: the
  loop that writes one structure writes every tuple, and the request is sent with all.
* `ReportsJustified` allows what the code does when a second `reply()`, and
  a `reply()` to an unchecked request that failed, raise "I/O error on X server
  connection." on a working connection.

## The proofs

A theorem says of every value of the constants what a run says of a few.  The
assumptions are the ones the modules name, each evaluated by TLC in the runs.
Safety properties are seldom inductive; each module has an `IInv` that is, with a
lemma per action (or per conjunct) that shows it preserved, `Inductive`, and the other theorems by implication.
Where `IInv` belongs to the module it is also an invariant of its run; it has the type
invariants of its modules as conjuncts.

* **`CookieProtocol_proofs`**, for any sets of threads and cookies and any number of
  events (`ConstantsAssumption`).  That no orphan answer arrives, say, depends on
  libxcb's being told of every Cookie that died before its answer, and that on a
  request's being somewhere on its way until it is answered.  `IInv` adds `PathInv`
  (a request is on its way once, until its answer is read), `PlaceInv` (a response
  exists after that only, in one place, and an error in the queue belongs to an
  unchecked request that failed), `DiscardInv` (every Cookie that died early is
  marked), `LockInv` (who is in libxcb holds the lock, an open connection and a live
  Cookie), `FreedUntouched` (a freed connection is left alone) and `ReportInv`.  Lemmas about queues come first.
* **`CookieProtocol_refinement`**: `Spec => LedgerSpec`.  Under `IInv` each action
  leaves `Fate` alone for every cookie or changes it for one in the way a step of
  `ResponseLedger` does; `disconnect()` is the ledger's step for all of them.  A
  broken connection changes no fate.  One more invariant is needed, `AnswerInv`: a
  request without reply has an answer only if the server rejected it.
* **`Dispatch_proofs`**, for any connections, keys, codes and servers.  `TableInv`: an
  entry of a table is the claim of an extension set up on that connection;
  `CacheInv`: an Extension is in the cache as soon as it is made, and none is made for
  a key that setup has still to visit; `ShapeInv`: what the tables and caches are
  functions on.  `Dies` proves `DiesOnlyWhen`: a table that is extended for a code of
  less than `Byte - 1` is long enough for it (`OverrunByLast`), and a key that setup has
  still to visit, or a call loads, is not in the cache.
* **`GetSetup_proofs`**, about `Lifetime` and `GetSetup` together, for finite sets
  of Cookies, keys and threads and any positive bound of counts.  The counts are cardinalities of sets of
  referring things, so the proof is mostly about what one step adds to or takes
  from such a set.  `CacheInv` (an Extension with references is in the cache of a live Connection, and
  every Connection that was set up has its core Extension there), `PointerInv` (two
  Connections never share an `xcb_connection_t`, and the one they have is open) and
  `BuildersInv` (a thread in `get_setup()` keeps its Connection alive and, if it is
  alone there, finds the cache as it left it) are the strengthening.  That dropping references closes no connection is a
  consequence of exact counts: the core Extension is always one of them.
* **`FlatIter_proofs`**, for any arguments and nesting that satisfy `FlatAssumption`
  and any depth of the stack.
  The invariant is that the items of what was handed out, of what is collected and
  of what is left on the levels of the stack, the innermost first, are
  those of the argument (`NoItemLost`).  Items
  of the rest of a stack are defined by a relation (`Left`), since nothing
  can be proved of a recursive operator.  `IsTupleSource` is the
  refinement of `TupleSource`.
* **`Sums_proofs`**: the library's theorem of induction over the naturals takes an
  operator and cannot be used here, but its form for sets can be derived from the
  theorems about finite sets (`Induction`).  With it `PartialSums` is shown to
  exist and to be what its recursive definition says, and a sum to be at least each term and at least any
  three of them.  `Layout_proofs` builds on it too.
* **`Marshal_proofs`**, for any descriptions and arguments that satisfy the two
  assumptions.  `CodeInv`: the statements generated so far cover the fields
  before `next` without gap or overlap, fields that wait stand together, and
  the last statement sends.  `RunInv`: the buffer holds what belongs to the fields
  before the current statement and, in a loop, one structure for each tuple taken.
  `EverythingWritten` goes from that to the units of each field (`WrittenOnce`).
  `EverythingWritten`, `RefusedExactly` and `UnitsWhole` then hold when the last statement is reached;
  that the request is never too short for libxcb uses the three fields of the header.
* **`Layout_proofs`**, for any number of fields, any sizes and lengths, and any offsets,
  with `ConstantsAssumption` and `RegularAssumption`.  The generator and the code it
  emits run one after the other, so the invariant has to say of statements that have
  not run yet that they will be right.  `Offsets` is the value the variable `offset` will
  have before each statement, and `Fits` says that the statement finds its fields
  there.  `GeneratorInv`: what waits is a whole run of fields, back to the last list or
  structure, the code so far covers the fields before it, and it leaves `offset` where that list
  or structure ends.  `CodeInv`: every statement fits, a length is added right after it was
  read, numbers are read before the lists that may need them, and a structure of
  variable size leaves `offset` at its end.  `RunInv`: `offset` is what `Offsets`
  says, and the statements before the present one have read all they cover
  (`Executed`).  The lemmas below it: `type_pad`'s mask is the distance to the next multiple (`TypePadAligns`);
  wire positions never decrease (`WireGrows`) and within a run differ by sizes
  (`RunPositions`); in a run that is `Natural`, `unpack_from` inserts no padding
  (`NativeRun`); appending a statement changes nothing said of those before it
  (`Emit`).

Only model-checked:

* `WaitReturns`, `ReplyReturns`, `SetupCompletes` and `Terminates`: liveness, out of the prover's reach.
* `NothingLost` and `OverflowsOnlyWhen` of `MCFlatIter`, which use recursive operators;
  `NothingIsLost` proves the first in its relational form.
* The six violations, each a counterexample.

## Not modelled

* Buffers shared by response objects, and references to classes, keys and Requests.
* The values of fields: that a number in a union becomes a tuple of one number, as
  `unpack_from` returns it, changes no position.
* What the owner of a wrapped connection suffers when `disconnect()` closes it.
* A message that is cut short: messages are whole in `Layout`, so only a length check
  that is too strict would show, not one that is too lax.
* Changes a program makes to an `xcb.List`, whose bytes stay as they were, and the
  sequence methods that call through the tables of Python's own types.
* The length of a list against the argument that gives it and the padding after a
  list in a request, which the binding leaves to the program and the description.
* Class and method names, enumerations, argument parsing, type
  definitions, module initialisation: no state of interest or pure text.
* Allocation failures, except where an answer has been taken and in `_add_ext`.
* Memory that is merely leaked (the event and error structures of libxcb).

## Plan

1. `CookieProtocol`, `ResponseLedger`, their runs and proofs (done).
2. `Dispatch`, `FlatIter`, `Layout` and their runs (done).
3. `Lifetime`, `Marshal` and their runs (done).
4. `GetSetup`, failures and unset memory in `Lifetime`, unions in `Layout`, strings
   and `TupleSource` in `FlatIter`, `WaitReturns` (done).
5. Proofs: `Spec => LedgerSpec`; inductive invariants of `Dispatch`, of `Lifetime` with
   `GetSetup`, of `FlatIter` with its refinement, and of `Marshal` (done).
6. Proofs about `Layout`: `ReadsRight`, `SizeRight` and `NeverRaises`, by an invariant
   that ties `offset` to `WireAt` (done).
7. Left open: a round trip: what `Marshal` writes of a structure, read back by `Layout`; the
   buffers of response objects.
