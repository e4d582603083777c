--------------------------- MODULE CookieProtocol ---------------------------
(***************************************************************************)
(* The request / cookie / response protocol of xpyb: Connection methods    *)
(* (src/src/conn.c), Extension.send_request (ext.c) and the Cookie object  *)
(* (cookie.c), called by Python threads, over libxcb and an X server that  *)
(* answers requests in the order they were sent.                           *)
(*                                                                         *)
(* No function of the extension releases Python's global interpreter lock, *)
(* so a method is one step, except that wait_for_event, reply and check    *)
(* block in libxcb *holding* the lock: each is a Begin step and an End     *)
(* step with "gil" held in between, while the server goes on.              *)
(*                                                                         *)
(* libxcb and the server are external: they are modelled by what xpyb's    *)
(* calls rely on.  An answer read for a request goes to the slot of its    *)
(* cookie, except that an error of an unchecked request goes to the event  *)
(* queue; an answer of a request whose cookie was discarded is freed.      *)
(***************************************************************************)
EXTENDS Naturals, Sequences

CONSTANTS
  Threads,     \* Python threads
  Cookies,     \* Cookie objects; generated code makes one per request
  MaxEvents,   \* how many events the server sends (bounds the model)
  NoThread,    \* nobody holds the interpreter lock in libxcb
  NoCookie     \* the subject of a call or an event that has no cookie

ASSUME ConstantsAssumption ==
  /\ NoThread \notin Threads
  /\ NoCookie \notin Cookies
  /\ MaxEvents \in Nat

VARIABLES
  conn,        \* the xcb_connection_t pointer of the Connection: open or NULL
  xerr,        \* xcb_connection_has_error
  out,         \* requests in libxcb's output buffer
  wire,        \* requests the server has received and not answered
  answer,      \* libxcb: the reply or error waiting for a cookie
  done,        \* requests whose answer, if any, has been read
  discard,     \* requests whose answer libxcb was told to throw away
  events,      \* libxcb's event queue: events and errors
  nevents,     \* events the server has sent
  cookie,      \* the life of each Cookie object
  request,     \* is_void and is_checked of the request a Cookie stands for
  gil,         \* the thread blocked in libxcb with the interpreter lock
  call,        \* the blocking call each thread is in
  failed,      \* (history) requests the server rejected
  handed,      \* (history) times a cookie's response was given to Python
  outcome      \* (history) what check() and reply() of a cookie have reported

xcbvars  == << xerr, out, wire, answer, done, discard, events, nevents >>
pyvars   == << conn, cookie, request, gil, call >>
histvars == << failed, handed, outcome >>
vars     == << xcbvars, pyvars, histvars >>

Requests == [void : BOOLEAN, checked : BOOLEAN]
Calls    == [op : { "idle", "reply", "check", "event" },
             of : Cookies \union {NoCookie}]
Idle     == [op |-> "idle", of |-> NoCookie]
Event    == [type |-> "event", of |-> NoCookie]
Error(c) == [type |-> "error", of |-> c]
Items    == {Event} \union { Error(c) : c \in Cookies }
Outcomes == { "reply", "error", "ok", "ioerror", "unbuilt" }

TypeOK ==
  /\ conn \in { "open", "null" }
  /\ xerr \in BOOLEAN
  /\ out \in Seq(Cookies)
  /\ wire \in Seq(Cookies)
  /\ answer \in [Cookies -> { "none", "reply", "error" }]
  /\ done \subseteq Cookies
  /\ discard \subseteq Cookies
  /\ events \in Seq(Items)
  /\ nevents \in 0 .. MaxEvents
  /\ cookie \in [Cookies -> { "new", "live", "dead" }]
  /\ request \in [Cookies -> Requests]
  /\ gil \in Threads \union {NoThread}
  /\ call \in [Threads -> Calls]
  /\ failed \subseteq Cookies
  /\ handed \in [Cookies -> Nat]
  /\ outcome \in [Cookies -> SUBSET Outcomes]

Init ==
  /\ conn = "open"
  /\ xerr = FALSE
  /\ out = << >>
  /\ wire = << >>
  /\ answer = [c \in Cookies |-> "none"]
  /\ done = {}
  /\ discard = {}
  /\ events = << >>
  /\ nevents = 0
  /\ cookie = [c \in Cookies |-> "new"]
  /\ request = [c \in Cookies |-> [void |-> FALSE, checked |-> FALSE]]
  /\ gil = NoThread
  /\ call = [t \in Threads |-> Idle]
  /\ failed = {}
  /\ handed = [c \in Cookies |-> 0]
  /\ outcome = [c \in Cookies |-> {}]

-----------------------------------------------------------------------------
(* Helpers of the handlers.  A definition named Faulty... is a plausible   *)
(* mistake in the definition that follows it; nothing else uses it.        *)

\* xpybConn_invalid: the guard of every method but has_error and disconnect.
Invalid == conn = "null" \/ xerr

\* A thread runs Python code: nobody is in libxcb with the lock.
Running(t) == gil = NoThread /\ call[t] = Idle

\* The lock is given up for the length of the call.
FaultyBlock(t, op, c) ==
  /\ call' = [call EXCEPT ![t] = [op |-> op, of |-> c]]
  /\ gil' = NoThread

\* A thread enters libxcb and keeps the interpreter lock while it is there.
Block(t, op, c) ==
  /\ call' = [call EXCEPT ![t] = [op |-> op, of |-> c]]
  /\ gil' = t

Return(t) ==
  /\ call' = [call EXCEPT ![t] = Idle]
  /\ gil' = NoThread

InSeq(c, s) == \E i \in 1 .. Len(s) : s[i] = c

Written == out' = << >> /\ wire' = wire \o out

FaultyFlushFor(needed) == UNCHANGED << out, wire >>

\* Waiting for an answer first writes the output buffer.
FlushFor(needed) ==
  IF needed THEN Written ELSE UNCHANGED << out, wire >>

\* The error taken from the queue is not raised.
FaultyTakeEvent ==
  /\ events # << >>
  /\ events' = Tail(events)
  /\ UNCHANGED << handed, outcome >>

FaultyTakeAnswer(c, built) ==
  /\ handed' = [handed EXCEPT ![c] = @ + 1]
  /\ outcome' = [outcome EXCEPT ![c] =
                   @ \union { IF built THEN answer[c] ELSE "unbuilt" }]
  /\ UNCHANGED answer

\* The answer kept for a cookie is taken out of libxcb and given to Python:
\* a Reply object or a raised ProtocolException.  When the Reply or Error
\* object cannot be built another exception is raised and the answer is gone.
TakeAnswer(c, built) ==
  /\ handed' = [handed EXCEPT ![c] = @ + 1]
  /\ outcome' = [outcome EXCEPT ![c] =
                   @ \union { IF built THEN answer[c] ELSE "unbuilt" }]
  /\ answer' = [answer EXCEPT ![c] = "none"]

\* The call ends without an answer, and reports what the code makes of it.
Report(c, what) ==
  /\ outcome' = [outcome EXCEPT ![c] = @ \union {what}]
  /\ UNCHANGED << answer, handed >>

\* xpybError_set or xpybEvent_create on the head of the event queue.
TakeEvent ==
  /\ events # << >>
  /\ events' = Tail(events)
  /\ IF Head(events).type = "error"
     THEN handed' = [handed EXCEPT ![Head(events).of] = @ + 1]
     ELSE UNCHANGED handed
  /\ UNCHANGED outcome

-----------------------------------------------------------------------------
(* Methods of Python objects, called by a thread.                          *)

\* Extension.send_request: the request is queued and a fresh cookie is tied
\* to it.  libxcb writes its buffer when it runs full.
SendRequest(t, c, r) ==
  /\ Running(t)
  /\ ~Invalid
  /\ cookie[c] = "new"
  /\ cookie' = [cookie EXCEPT ![c] = "live"]
  /\ request' = [request EXCEPT ![c] = r]
  /\ \/ out' = Append(out, c) /\ UNCHANGED wire
     \/ out' = << >> /\ wire' = wire \o Append(out, c)
  /\ UNCHANGED << conn, xerr, answer, done, discard, events, nevents,
                  gil, call, histvars >>

\* Cookie.reply: refused for a void request; otherwise blocks.
BeginReply(t, c) ==
  /\ Running(t)
  /\ cookie[c] = "live"
  /\ ~request[c].void
  /\ ~Invalid
  /\ Block(t, "reply", c)
  /\ FlushFor(InSeq(c, out))
  /\ UNCHANGED << conn, xerr, answer, done, discard, events, nevents,
                  cookie, request, histvars >>

\* xcb_wait_for_reply returns: the answer; nothing, because every answer of
\* the request was read already; or nothing, because the connection broke.
EndReply(t, c) ==
  /\ call[t] = [op |-> "reply", of |-> c]
  /\ \/ /\ answer[c] # "none"
        /\ \E built \in BOOLEAN : TakeAnswer(c, built)
     \/ /\ c \in done /\ answer[c] = "none"
        /\ Report(c, "ioerror")
     \/ /\ xerr /\ answer[c] = "none"
        /\ Report(c, "ioerror")
  /\ Return(t)
  /\ UNCHANGED << conn, xerr, out, wire, done, discard, events, nevents,
                  cookie, request, failed >>

FaultyMayCheck(c) == TRUE

MayCheck(c) == request[c].void /\ request[c].checked

\* Cookie.check: refused unless the request is void and checked.
BeginCheck(t, c) ==
  /\ Running(t)
  /\ cookie[c] = "live"
  /\ MayCheck(c)
  /\ ~Invalid
  /\ Block(t, "check", c)
  /\ FlushFor(c \notin done)
  /\ UNCHANGED << conn, xerr, answer, done, discard, events, nevents,
                  cookie, request, histvars >>

\* xcb_request_check returns an error or nothing; nothing is success.
EndCheck(t, c) ==
  /\ call[t] = [op |-> "check", of |-> c]
  /\ \/ /\ answer[c] # "none"
        /\ \E built \in BOOLEAN : TakeAnswer(c, built)
     \/ /\ c \in done /\ answer[c] = "none"
        /\ Report(c, "ok")
     \/ /\ xerr /\ answer[c] = "none"
        /\ Report(c, "ok")
  /\ Return(t)
  /\ UNCHANGED << conn, xerr, out, wire, done, discard, events, nevents,
                  cookie, request, failed >>

\* Connection.wait_for_event: blocks without writing the output buffer.
BeginWaitForEvent(t) ==
  /\ Running(t)
  /\ ~Invalid
  /\ Block(t, "event", NoCookie)
  /\ UNCHANGED << xcbvars, conn, cookie, request, histvars >>

FaultyGivesUp == FALSE

\* xcb_wait_for_event returned nothing: the connection is in error.
GivesUp == xerr

\* The next event or error; or IOError.
EndWaitForEvent(t) ==
  /\ call[t].op = "event"
  /\ \/ TakeEvent
     \/ GivesUp /\ UNCHANGED << events, handed, outcome >>
  /\ Return(t)
  /\ UNCHANGED << conn, xerr, out, wire, answer, done, discard, nevents,
                  cookie, request, failed >>

\* Connection.poll_for_event; with an empty queue it returns None.
PollForEvent(t) ==
  /\ Running(t)
  /\ ~Invalid
  /\ TakeEvent
  /\ UNCHANGED << conn, xerr, out, wire, answer, done, discard, nevents,
                  cookie, request, gil, call, failed >>

\* Connection.flush.
Flush(t) ==
  /\ Running(t)
  /\ ~Invalid
  /\ out # << >>
  /\ Written
  /\ UNCHANGED << conn, xerr, answer, done, discard, events, nevents,
                  cookie, request, gil, call, histvars >>

\* xcb_discard_reply is not called.
FaultyDiscardReply(c) == UNCHANGED << answer, discard >>

\* xcb_discard_reply: what has been read is freed, what is to come is
\* marked; nothing happens on a connection in error.
DiscardReply(c) ==
  IF xerr THEN UNCHANGED << answer, discard >>
  ELSE /\ answer' = [answer EXCEPT ![c] = "none"]
       /\ discard' = IF c \in done THEN discard ELSE discard \union {c}

FaultyHasConnection == TRUE

\* The test of the pointer in xpybCookie_dealloc.
HasConnection == conn = "open"

\* The last reference to a Cookie goes away: xpybCookie_dealloc.  A method
\* of the cookie that is running holds a reference.
DropCookie(t, c) ==
  /\ Running(t)
  /\ cookie[c] = "live"
  /\ \A u \in Threads : call[u].of # c
  /\ cookie' = [cookie EXCEPT ![c] = "dead"]
  /\ IF HasConnection THEN DiscardReply(c) ELSE UNCHANGED << answer, discard >>
  /\ UNCHANGED << conn, xerr, out, wire, done, events, nevents,
                  request, gil, call, histvars >>

\* disconnect() resets the pointer it has just freed.
Disconnected == "null"

\* Connection.disconnect: the connection and all libxcb holds is freed; the
\* output buffer is not written.
Disconnect(t) ==
  /\ Running(t)
  /\ conn = "open"
  /\ conn' = Disconnected
  /\ xerr' = FALSE
  /\ out' = << >>
  /\ wire' = << >>
  /\ answer' = [c \in Cookies |-> "none"]
  /\ discard' = {}
  /\ events' = << >>
  /\ UNCHANGED << done, nevents, cookie, request, gil, call, histvars >>

-----------------------------------------------------------------------------
(* libxcb and the X server.                                                *)

\* Where the error of a request goes: its cookie when the request was sent
\* with XCB_REQUEST_CHECKED, the event queue otherwise.
Store(c, what) ==
  IF c \in discard \/ (what = "reply" /\ request[c].void)
  THEN UNCHANGED << answer, events >>
  ELSE IF what = "error" /\ ~request[c].checked
       THEN events' = Append(events, Error(c)) /\ UNCHANGED answer
       ELSE answer' = [answer EXCEPT ![c] = what] /\ UNCHANGED events

\* The server answers the oldest request and libxcb reads the answer.
Answer ==
  /\ conn = "open" /\ ~xerr
  /\ wire # << >>
  /\ LET c == Head(wire) IN
       /\ wire' = Tail(wire)
       /\ done' = done \union {c}
       /\ discard' = discard \ {c}
       /\ \E what \in { "reply", "error" } :
            /\ Store(c, what)
            /\ failed' = IF what = "error" THEN failed \union {c} ELSE failed
  /\ UNCHANGED << xerr, out, nevents, pyvars, handed, outcome >>

SendEvent ==
  /\ conn = "open" /\ ~xerr
  /\ nevents < MaxEvents
  /\ nevents' = nevents + 1
  /\ events' = Append(events, Event)
  /\ UNCHANGED << xerr, out, wire, answer, done, discard, pyvars, histvars >>

\* The connection breaks: xcb_connection_has_error is true from here on.  The
\* server may have rejected requests whose answer will now never be read.
Break ==
  /\ conn = "open" /\ ~xerr
  /\ xerr' = TRUE
  /\ \E lost \in SUBSET { c \in Cookies : InSeq(c, wire) } :
       failed' = failed \union lost
  /\ UNCHANGED << out, wire, answer, done, discard, events, nevents,
                  pyvars, handed, outcome >>

-----------------------------------------------------------------------------
Methods(t) ==
  \/ \E c \in Cookies :
       \/ \E r \in Requests : SendRequest(t, c, r)
       \/ BeginReply(t, c) \/ EndReply(t, c)
       \/ BeginCheck(t, c) \/ EndCheck(t, c)
       \/ DropCookie(t, c)
  \/ BeginWaitForEvent(t) \/ EndWaitForEvent(t)
  \/ PollForEvent(t) \/ Flush(t) \/ Disconnect(t)

Next ==
  \/ \E t \in Threads : Methods(t)
  \/ Answer \/ SendEvent \/ Break

Spec == Init /\ [][Next]_vars

\* The server answers what it has received, and a libxcb call whose condition
\* holds returns.  Nothing obliges a program to make a call, the server to
\* send an event, or the connection to break.
Fairness ==
  /\ WF_vars(Answer)
  /\ \A t \in Threads, c \in Cookies :
       WF_vars(EndReply(t, c)) /\ WF_vars(EndCheck(t, c))
  /\ \A t \in Threads : WF_vars(EndWaitForEvent(t))

FairSpec == Spec /\ Fairness

-----------------------------------------------------------------------------
(* Properties.                                                             *)

Queued(c) == InSeq(Error(c), events)

\* The places a response can be in: at most one of them holds it.
Copies(c) ==
  handed[c] + (IF answer[c] = "none" THEN 0 ELSE 1)
            + (IF Queued(c) THEN 1 ELSE 0)

\* The response of a request is handed to Python at most once, whichever of
\* reply(), check(), wait_for_event() and poll_for_event() are called on it
\* and however often, and what has been handed is kept nowhere else.
HandedOnce == \A c \in Cookies : Copies(c) <= 1

\* As long as a program keeps the Cookie and the connection, a response that
\* has arrived and has not been handed over can still be asked for: it is kept
\* for the cookie or, the error of an unchecked request, in the event queue.
KeptWhileReferenced ==
  \A c \in done :
    (/\ conn = "open" /\ cookie[c] = "live" /\ handed[c] = 0
     /\ (c \in failed \/ ~request[c].void))
    => (answer[c] # "none" \/ Queued(c))

\* xpybCookie_dealloc leaves no response behind: while the connection works,
\* libxcb holds answers only for Cookies that still exist, whether an answer
\* is read before or after its Cookie is deallocated.
NoOrphanAnswers ==
  ~xerr => \A c \in Cookies : answer[c] # "none" => cookie[c] = "live"

\* disconnect() frees the connection although other threads use it.  Nobody is
\* inside libxcb with the freed pointer, because whoever is in a blocking call
\* holds the interpreter lock.
NobodyInFreedConnection ==
  conn # "open" => \A t \in Threads : call[t] = Idle

\* Cookies outlive disconnect() and are deallocated later.  No method, and no
\* deallocation, does anything to the connection that was freed: nothing is
\* buffered, queued, kept or to be discarded in it any more.
FreedUntouched ==
  conn # "open" =>
    /\ out = << >> /\ wire = << >> /\ events = << >> /\ discard = {}
    /\ \A c \in Cookies : answer[c] = "none"

\* A thread that holds the interpreter lock for the answer to a request is
\* never waiting for a request that still sits in the output buffer.
NeverWaitsForUnsent ==
  \A t \in Threads :
    call[t].op \in { "reply", "check" } => ~InSeq(call[t].of, out)

\* What check() and reply() report without an answer is justified: check()
\* says nothing about a rejected request, and reply() raises IOError, only when
\* the answer was handed over before, when the connection was lost or, for
\* reply(), when the request was unchecked.
ReportsJustified ==
  \A c \in Cookies :
    (handed[c] = 0 /\ conn = "open" /\ ~xerr) =>
      /\ "ok" \in outcome[c] => c \notin failed
      /\ "ioerror" \in outcome[c] => ~request[c].checked /\ c \in failed

\* A thread in reply() or check() gets out of it, and so the other threads run
\* again, provided the server answers what it has received.
ReplyReturns ==
  \A t \in Threads :
    (call[t].op \in { "reply", "check" }) ~> (call[t].op = "idle")

\* A thread that stays in wait_for_event() for good, with the interpreter lock
\* and so with every other thread, waits for the server alone or for requests
\* nobody has flushed: no event or error is queued, the connection is whole, and
\* the server has answered all that was written.
WaitReturns ==
  \A t \in Threads :
    \/ []<>(call[t].op # "event")
    \/ <>[](events = << >> /\ ~xerr /\ wire = << >>)

-----------------------------------------------------------------------------
(* Why the safety properties hold: the inductive invariant.                *)

\* No element of s occurs twice.
Distinct(s) == \A i, j \in 1 .. Len(s) : s[i] = s[j] => i = j

\* No error occurs twice in the event queue q.
ErrorsOnce(q) ==
  \A i, j \in 1 .. Len(q) : q[i] = q[j] /\ q[i].type = "error" => i = j

Pending(c) == InSeq(c, out) \/ InSeq(c, wire)

\* A request goes its way to the server once, and on an open connection it is
\* on that way until its answer has been read.
PathInv ==
  /\ Distinct(out) /\ Distinct(wire)
  /\ \A c \in Cookies :
       /\ ~(InSeq(c, out) /\ InSeq(c, wire))
       /\ Pending(c) => c \notin done /\ cookie[c] # "new"
       /\ conn = "open" /\ cookie[c] # "new" => c \in done \/ Pending(c)

\* A response exists once its answer has been read, in one place only.
PlaceInv ==
  /\ HandedOnce
  /\ \A c \in Cookies :
       /\ answer[c] # "none" \/ Queued(c) \/ handed[c] > 0 => c \in done
       /\ Queued(c) => c \in failed /\ ~request[c].checked
       /\ c \in done \union failed => cookie[c] # "new"
  /\ ErrorsOnce(events)

\* libxcb knows of every deallocated Cookie whose answer is still to come.
DiscardInv ==
  /\ NoOrphanAnswers
  /\ \A c \in Cookies :
       /\ c \in discard => cookie[c] = "dead"
       /\ conn = "open" /\ ~xerr /\ cookie[c] = "dead"
            => c \in done \/ c \in discard
       /\ conn # "open" => answer[c] = "none" /\ ~Queued(c) /\ ~Pending(c)

\* Who is in libxcb holds the lock, an open connection and a live Cookie.
LockInv ==
  \A t \in Threads :
    /\ call[t] # Idle => gil = t /\ conn = "open"
    /\ call[t].op \in { "reply", "check" } =>
         /\ call[t].of \in Cookies
         /\ cookie[call[t].of] = "live"
         /\ ~InSeq(call[t].of, out)
         /\ call[t].op = "reply" => ~request[call[t].of].void
         /\ call[t].op = "check" => MayCheck(call[t].of)

\* On a working connection only a request whose answer was read has failed or
\* is reported on.
ReportInv ==
  /\ ReportsJustified
  /\ (conn = "open" /\ ~xerr) =>
       \A c \in Cookies :
         c \in failed \/ "ok" \in outcome[c] \/ "ioerror" \in outcome[c] => c \in done

\* Together these are preserved by every step and imply the safety properties.
IInv ==
  /\ TypeOK
  /\ PathInv
  /\ PlaceInv
  /\ DiscardInv
  /\ LockInv
  /\ FreedUntouched
  /\ KeptWhileReferenced
  /\ ReportInv

-----------------------------------------------------------------------------
(* The abstract specification of the responses.                            *)

Fate(c) ==
  IF cookie[c] = "new" THEN "unsent"
  ELSE IF handed[c] > 0 THEN "delivered"
  ELSE IF answer[c] # "none" THEN "held"
  ELSE IF Queued(c) THEN "queued"
  ELSE IF InSeq(c, out) \/ InSeq(c, wire) THEN "waiting"
  ELSE IF c \in done /\ c \notin failed /\ request[c].void THEN "silent"
  ELSE "dropped"

Ledger ==
  INSTANCE ResponseLedger
    WITH fate  <- [c \in Cookies |-> Fate(c)],
         alive <- { c \in Cookies : cookie[c] # "dead" },
         open  <- conn = "open"

\* The protocol implements the ledger of responses: a response is dropped only
\* because its Cookie was deallocated or the connection was disconnected, and
\* no step moves it anywhere else than the ledger allows.
LedgerSpec == Ledger!Spec

-----------------------------------------------------------------------------
(* What the repository says and the code does not do; see the README.      *)

\* cookie.c:115 says of check(): "Raise an error if one occurred on the
\* request."  So a check() that returns None means that none occurred.
CheckReportsError ==
  \A c \in Cookies : "ok" \in outcome[c] => c \notin failed

\* XcbPythonBinding.txt:62: "Protocol errors are always thrown as exceptions
\* to the client."  So on a working connection an error that arrived has been
\* thrown, or waits to be.
ErrorsAlwaysThrown ==
  (conn = "open" /\ ~xerr) =>
    \A c \in failed : handed[c] > 0 \/ answer[c] # "none" \/ Queued(c)
=============================================================================
