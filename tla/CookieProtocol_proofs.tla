----------------------- MODULE CookieProtocol_proofs -----------------------
(***************************************************************************)
(* Proofs about CookieProtocol for any threads, cookies and MaxEvents.     *)
(***************************************************************************)
EXTENDS CookieProtocol, SequenceTheorems, TLAPS

-----------------------------------------------------------------------------
(* Membership in the queues.                                               *)

\* Appending adds exactly one element.
LEMMA InSeqAppend ==
  ASSUME NEW S, NEW s \in Seq(S), NEW e \in S, NEW c
  PROVE  InSeq(c, Append(s, e)) <=> (InSeq(c, s) \/ c = e)
BY DEF InSeq

\* A concatenation holds what its parts hold.
LEMMA InSeqConcat ==
  ASSUME NEW S, NEW s \in Seq(S), NEW u \in Seq(S), NEW c
  PROVE  InSeq(c, s \o u) <=> (InSeq(c, s) \/ InSeq(c, u))
<1> USE DEF InSeq
<1>0. /\ Len(s) \in Nat /\ Len(u) \in Nat
      /\ Len(s \o u) = Len(s) + Len(u)
      /\ \A i \in 1 .. Len(s) + Len(u) :
           (s \o u)[i] = IF i <= Len(s) THEN s[i] ELSE u[i - Len(s)]
  BY ConcatProperties
<1>1. ASSUME NEW i \in 1 .. Len(s \o u), (s \o u)[i] = c
      PROVE  InSeq(c, s) \/ InSeq(c, u)
  <2>1. CASE i <= Len(s)
    BY <1>0, <1>1, <2>1
  <2>2. CASE i > Len(s)
    BY <1>0, <1>1, <2>2, i - Len(s) \in 1 .. Len(u)
  <2> QED
    BY <1>0, <2>1, <2>2
<1>2. ASSUME NEW i \in 1 .. Len(s), s[i] = c
      PROVE  InSeq(c, s \o u)
  BY <1>0, <1>2
<1>3. ASSUME NEW i \in 1 .. Len(u), u[i] = c
      PROVE  InSeq(c, s \o u)
  <2> DEFINE k == i + Len(s)
  <2>1. k \in 1 .. Len(s \o u) /\ (s \o u)[k] = c
    BY <1>0, <1>3
  <2> QED
    BY <2>1
<1> QED
  BY <1>1, <1>2, <1>3

\* The tail holds nothing new, and only the head may be missing.
LEMMA InSeqTail ==
  ASSUME NEW S, NEW s \in Seq(S), s # << >>, NEW c
  PROVE  /\ InSeq(Head(s), s)
         /\ InSeq(c, Tail(s)) => InSeq(c, s)
         /\ InSeq(c, s) => InSeq(c, Tail(s)) \/ c = Head(s)
<1>0. /\ Len(s) \in Nat /\ Len(s) > 0 /\ Head(s) = s[1]
      /\ Len(Tail(s)) = Len(s) - 1
      /\ \A i \in 1 .. Len(s) - 1 : Tail(s)[i] = s[i + 1]
  BY HeadTailProperties, EmptySeq
<1>1. InSeq(Head(s), s)
  BY <1>0 DEF InSeq
<1>2. ASSUME NEW i \in 1 .. Len(Tail(s)), Tail(s)[i] = c
      PROVE  InSeq(c, s)
  BY <1>0, <1>2, i + 1 \in 1 .. Len(s) DEF InSeq
<1>3. ASSUME NEW i \in 1 .. Len(s), s[i] = c, c # Head(s)
      PROVE  InSeq(c, Tail(s))
  <2>1. i - 1 \in 1 .. Len(Tail(s)) /\ Tail(s)[i - 1] = c
    BY <1>0, <1>3
  <2> QED
    BY <2>1 DEF InSeq
<1> QED
  BY <1>1, <1>2, <1>3 DEF InSeq

\* Nothing is in the empty sequence.
LEMMA InSeqEmpty == ASSUME NEW c PROVE ~InSeq(c, << >>)
BY DEF InSeq

\* A request that was not in a buffer can be appended to it.
LEMMA DistinctAppend ==
  ASSUME NEW S, NEW s \in Seq(S), NEW e \in S, Distinct(s), ~InSeq(e, s)
  PROVE  Distinct(Append(s, e))
BY DEF InSeq, Distinct

\* Taking the head leaves a buffer without repetition, and the head is gone.
LEMMA DistinctTail ==
  ASSUME NEW S, NEW s \in Seq(S), s # << >>, Distinct(s)
  PROVE  Distinct(Tail(s)) /\ ~InSeq(Head(s), Tail(s))
BY DEF InSeq, Distinct

\* Writing one buffer behind another repeats nothing if they share nothing.
LEMMA DistinctConcat ==
  ASSUME NEW S, NEW s \in Seq(S), NEW u \in Seq(S), Distinct(s), Distinct(u),
         \A c \in S : ~(InSeq(c, s) /\ InSeq(c, u))
  PROVE  Distinct(s \o u)
<1>0. /\ Len(s) \in Nat /\ Len(u) \in Nat
      /\ Len(s \o u) = Len(s) + Len(u)
      /\ \A i \in 1 .. Len(s) + Len(u) :
           (s \o u)[i] = IF i <= Len(s) THEN s[i] ELSE u[i - Len(s)]
  BY ConcatProperties
<1>1. ASSUME NEW i \in 1 .. Len(s \o u), NEW j \in 1 .. Len(s \o u), i < j,
             (s \o u)[i] = (s \o u)[j]
      PROVE FALSE
  <2>1. CASE j <= Len(s)
    BY <1>0, <1>1, <2>1 DEF Distinct
  <2>2. CASE i > Len(s)
    BY <1>0, <1>1, <2>2, i - Len(s) \in 1 .. Len(u), j - Len(s) \in 1 .. Len(u) DEF Distinct
  <2>3. CASE i <= Len(s) /\ j > Len(s)
    <3>1. i \in 1 .. Len(s) /\ j - Len(s) \in 1 .. Len(u) /\ s[i] = u[j - Len(s)]
      BY <1>0, <1>1, <2>3
    <3>2. s[i] \in S
      BY <3>1, ElementOfSeq
    <3> QED
      BY <3>1, <3>2 DEF InSeq
  <2> QED
    BY <1>0, <2>1, <2>2, <2>3
<1> QED
  BY <1>0, <1>1 DEF Distinct

-----------------------------------------------------------------------------
\* Entering and leaving libxcb keep the types of the interpreter lock.
LEMMA LockTypes ==
  ASSUME TypeOK, NEW t \in Threads, NEW c \in Cookies \union {NoCookie},
         NEW op \in { "idle", "reply", "check", "event" },
         Block(t, op, c) \/ Return(t) \/ UNCHANGED << call, gil >>
  PROVE  call' \in [Threads -> Calls] /\ gil' \in Threads \union {NoThread}
BY DEF TypeOK, Block, Return, Calls, Idle

\* What is written and what is queued keep the types of the two buffers.
LEMMA BufferTypes ==
  ASSUME TypeOK, Written \/ UNCHANGED << out, wire >>
  PROVE  out' \in Seq(Cookies) /\ wire' \in Seq(Cookies)
<1>1. out \in Seq(Cookies) /\ wire \in Seq(Cookies)
  BY DEF TypeOK
<1>2. << >> \in Seq(Cookies) /\ wire \o out \in Seq(Cookies)
  BY <1>1, EmptySeq, ConcatProperties
<1> QED
  BY <1>1, <1>2 DEF Written

\* Handing an answer over or reporting keep the types of what they touch.
LEMMA ReportTypes ==
  ASSUME TypeOK, NEW c \in Cookies, NEW built \in BOOLEAN,
         \/ TakeAnswer(c, built) /\ answer[c] # "none"
         \/ Report(c, "ok") \/ Report(c, "ioerror")
  PROVE  /\ answer' \in [Cookies -> { "none", "reply", "error" }]
         /\ handed' \in [Cookies -> Nat]
         /\ outcome' \in [Cookies -> SUBSET Outcomes]
<1>1. answer' \in [Cookies -> { "none", "reply", "error" }]
  BY DEF TypeOK, TakeAnswer, Report
<1>2. handed' \in [Cookies -> Nat]
  BY DEF TypeOK, TakeAnswer, Report
<1>3. PICK x \in Outcomes : outcome' = [outcome EXCEPT ![c] = @ \union {x}]
  <2>1. answer[c] \in { "none", "reply", "error" }
    BY DEF TypeOK
  <2> QED
    BY <2>1 DEF TakeAnswer, Report, Outcomes
<1>4. outcome' \in [Cookies -> SUBSET Outcomes]
  BY <1>3 DEF TypeOK
<1> QED
  BY <1>1, <1>2, <1>4

\* Every step keeps the types.
LEMMA TypeStep == TypeOK /\ [Next]_vars => TypeOK'
<1> SUFFICES ASSUME TypeOK, [Next]_vars PROVE TypeOK'
  OBVIOUS
<1> USE ConstantsAssumption
<1>1. ASSUME NEW t \in Threads, NEW c \in Cookies, NEW r \in Requests,
             SendRequest(t, c, r)
      PROVE  TypeOK'
  <2>1. out' \in Seq(Cookies) /\ wire' \in Seq(Cookies)
    <3>1. out \in Seq(Cookies) /\ wire \in Seq(Cookies)
      BY DEF TypeOK
    <3>2. << >> \in Seq(Cookies) /\ Append(out, c) \in Seq(Cookies)
      BY <3>1, EmptySeq, AppendProperties
    <3>3. wire \o Append(out, c) \in Seq(Cookies)
      BY <3>1, <3>2, ConcatProperties
    <3> QED
      BY <1>1, <3>1, <3>2, <3>3 DEF SendRequest
  <2> QED
    BY <1>1, <2>1 DEF SendRequest, histvars, TypeOK
<1>2. ASSUME NEW t \in Threads, NEW c \in Cookies, BeginReply(t, c)
      PROVE  TypeOK'
  <2>1. out' \in Seq(Cookies) /\ wire' \in Seq(Cookies)
    BY <1>2, BufferTypes DEF BeginReply, FlushFor
  <2>2. call' \in [Threads -> Calls] /\ gil' \in Threads \union {NoThread}
    BY <1>2, LockTypes DEF BeginReply
  <2> QED
    BY <1>2, <2>1, <2>2 DEF BeginReply, histvars, TypeOK
<1>3. ASSUME NEW t \in Threads, NEW c \in Cookies, EndReply(t, c)
      PROVE  TypeOK'
  <2>1. call' \in [Threads -> Calls] /\ gil' \in Threads \union {NoThread}
    BY <1>3, LockTypes DEF EndReply
  <2>2. /\ answer' \in [Cookies -> { "none", "reply", "error" }]
        /\ handed' \in [Cookies -> Nat]
        /\ outcome' \in [Cookies -> SUBSET Outcomes]
    BY <1>3, ReportTypes DEF EndReply
  <2> QED
    BY <1>3, <2>1, <2>2 DEF EndReply, TypeOK
<1>4. ASSUME NEW t \in Threads, NEW c \in Cookies, BeginCheck(t, c)
      PROVE  TypeOK'
  <2>1. out' \in Seq(Cookies) /\ wire' \in Seq(Cookies)
    BY <1>4, BufferTypes DEF BeginCheck, FlushFor
  <2>2. call' \in [Threads -> Calls] /\ gil' \in Threads \union {NoThread}
    BY <1>4, LockTypes DEF BeginCheck
  <2> QED
    BY <1>4, <2>1, <2>2 DEF BeginCheck, histvars, TypeOK
<1>5. ASSUME NEW t \in Threads, NEW c \in Cookies, EndCheck(t, c)
      PROVE  TypeOK'
  <2>1. call' \in [Threads -> Calls] /\ gil' \in Threads \union {NoThread}
    BY <1>5, LockTypes DEF EndCheck
  <2>2. /\ answer' \in [Cookies -> { "none", "reply", "error" }]
        /\ handed' \in [Cookies -> Nat]
        /\ outcome' \in [Cookies -> SUBSET Outcomes]
    BY <1>5, ReportTypes DEF EndCheck
  <2> QED
    BY <1>5, <2>1, <2>2 DEF EndCheck, TypeOK
<1>6. ASSUME NEW t \in Threads, NEW c \in Cookies, DropCookie(t, c)
      PROVE  TypeOK'
  BY <1>6 DEF DropCookie, HasConnection, DiscardReply, histvars, TypeOK
<1>7. ASSUME NEW t \in Threads, BeginWaitForEvent(t) PROVE TypeOK'
  <2>1. call' \in [Threads -> Calls] /\ gil' \in Threads \union {NoThread}
    BY <1>7, LockTypes DEF BeginWaitForEvent
  <2> QED
    BY <1>7, <2>1 DEF BeginWaitForEvent, xcbvars, histvars, TypeOK
<1>8. ASSUME TakeEvent PROVE events' \in Seq(Items) /\ handed' \in [Cookies -> Nat]
  <2>1. Head(events) \in Items /\ Tail(events) \in Seq(Items)
    BY <1>8, HeadTailProperties DEF TakeEvent, TypeOK
  <2>2. Head(events).type = "error" => Head(events).of \in Cookies
    BY <2>1 DEF Items, Event, Error
  <2>3. events' \in Seq(Items)
    BY <1>8, <2>1 DEF TakeEvent
  <2>4. handed \in [Cookies -> Nat]
    BY DEF TypeOK
  <2>5. handed' \in [Cookies -> Nat]
    BY <1>8, <2>2, <2>4 DEF TakeEvent
  <2> QED
    BY <2>3, <2>5
<1>9. ASSUME NEW t \in Threads, EndWaitForEvent(t) PROVE TypeOK'
  <2>1. call' \in [Threads -> Calls] /\ gil' \in Threads \union {NoThread}
    BY <1>9, LockTypes DEF EndWaitForEvent
  <2>2. events' \in Seq(Items) /\ handed' \in [Cookies -> Nat]
    BY <1>8, <1>9 DEF EndWaitForEvent, TypeOK
  <2> QED
    BY <1>9, <2>1, <2>2 DEF EndWaitForEvent, TakeEvent, TypeOK
<1>10. ASSUME NEW t \in Threads, PollForEvent(t) PROVE TypeOK'
  BY <1>8, <1>10 DEF PollForEvent, TakeEvent, TypeOK
<1>11. ASSUME NEW t \in Threads, Flush(t) PROVE TypeOK'
  BY <1>11, BufferTypes DEF Flush, histvars, TypeOK
<1>12. ASSUME NEW t \in Threads, Disconnect(t) PROVE TypeOK'
  BY <1>12, EmptySeq DEF Disconnect, Disconnected, histvars, TypeOK
<1>13. ASSUME Answer PROVE TypeOK'
  <2> DEFINE c == Head(wire)
  <2>1. c \in Cookies /\ Tail(wire) \in Seq(Cookies)
    BY <1>13, HeadTailProperties DEF Answer, TypeOK
  <2>2. PICK what \in { "reply", "error" } :
          /\ Store(c, what)
          /\ failed' = IF what = "error" THEN failed \union {c} ELSE failed
    BY <1>13 DEF Answer
  <2>3. answer' \in [Cookies -> { "none", "reply", "error" }]
    BY <2>1, <2>2 DEF Store, TypeOK
  <2>4. events' \in Seq(Items)
    <3>1. Error(c) \in Items
      BY <2>1 DEF Items
    <3>2. events \in Seq(Items)
      BY DEF TypeOK
    <3>3. Append(events, Error(c)) \in Seq(Items)
      BY <3>1, <3>2, AppendProperties
    <3> QED
      BY <2>2, <3>2, <3>3 DEF Store
  <2> QED
    BY <1>13, <2>1, <2>2, <2>3, <2>4 DEF Answer, pyvars, TypeOK
<1>14. ASSUME SendEvent PROVE TypeOK'
  <2>1. events' \in Seq(Items)
    BY <1>14, AppendProperties DEF SendEvent, Items, TypeOK
  <2> QED
    BY <1>14, <2>1 DEF SendEvent, pyvars, histvars, TypeOK
<1>15. ASSUME Break PROVE TypeOK'
  BY <1>15 DEF Break, pyvars, TypeOK
<1>16. ASSUME UNCHANGED vars PROVE TypeOK'
  BY <1>16 DEF vars, xcbvars, pyvars, histvars, TypeOK
<1> QED
  BY <1>1, <1>2, <1>3, <1>4, <1>5, <1>6, <1>7, <1>9, <1>10, <1>11, <1>12,
     <1>13, <1>14, <1>15, <1>16 DEF Next, Methods

\* The initial state has the types.
LEMMA InitTypes == Init => TypeOK
<1> SUFFICES ASSUME Init PROVE TypeOK
  OBVIOUS
<1> USE DEF Init
<1>1. out \in Seq(Cookies) /\ wire \in Seq(Cookies) /\ events \in Seq(Items)
  BY EmptySeq
<1>2. request \in [Cookies -> Requests]
  BY DEF Requests
<1>3. call \in [Threads -> Calls]
  BY DEF Calls, Idle
<1>4. nevents \in 0 .. MaxEvents /\ gil \in Threads \union {NoThread}
  BY ConstantsAssumption
<1>5. /\ answer \in [Cookies -> { "none", "reply", "error" }]
      /\ cookie \in [Cookies -> { "new", "live", "dead" }]
      /\ handed \in [Cookies -> Nat]
      /\ outcome \in [Cookies -> SUBSET Outcomes]
  OBVIOUS
<1>6. /\ conn \in { "open", "null" } /\ xerr \in BOOLEAN
      /\ done \subseteq Cookies /\ discard \subseteq Cookies
      /\ failed \subseteq Cookies
  OBVIOUS
<1> QED
  BY <1>1, <1>2, <1>3, <1>4, <1>5, <1>6 DEF TypeOK

\* Every variable keeps its type: the queues hold requests and their errors,
\* and only threads and cookies of the program are in calls.
THEOREM TypeCorrect == Spec => []TypeOK
  BY InitTypes, TypeStep, PTL DEF Spec

-----------------------------------------------------------------------------
(* The inductive invariant, one conjunct at a time.                        *)

\* Writing the output buffer moves every request in it to the server.
LEMMA WrittenEffect ==
  ASSUME TypeOK, PathInv, Written
  PROVE  /\ Distinct(out') /\ Distinct(wire')
         /\ \A d \in Cookies : /\ ~InSeq(d, out')
                               /\ InSeq(d, wire') <=> Pending(d)
<1>1. out \in Seq(Cookies) /\ wire \in Seq(Cookies)
  BY DEF TypeOK
<1>2. Distinct(wire \o out)
  BY <1>1, DistinctConcat DEF PathInv
<1>3. Distinct(<< >>)
  BY EmptySeq DEF Distinct
<1>4. \A d \in Cookies : InSeq(d, wire \o out) <=> Pending(d)
  BY <1>1, InSeqConcat DEF Pending
<1> QED
  BY <1>2, <1>3, <1>4, InSeqEmpty DEF Written

\* Sending adds the request at the end of its way to the server.
LEMMA SendEffect ==
  ASSUME TypeOK, PathInv, NEW t \in Threads, NEW c \in Cookies,
         NEW r \in Requests, SendRequest(t, c, r)
  PROVE  /\ Distinct(out') /\ Distinct(wire')
         /\ \A d \in Cookies : /\ ~(InSeq(d, out') /\ InSeq(d, wire'))
                               /\ Pending(d)' => Pending(d) \/ d = c
                               /\ Pending(d) \/ d = c => Pending(d)'
                               /\ InSeq(d, out') => InSeq(d, out) \/ d = c
<1>1. out \in Seq(Cookies) /\ wire \in Seq(Cookies)
  BY DEF TypeOK
<1>2. ~InSeq(c, out) /\ ~InSeq(c, wire)
  BY DEF PathInv, Pending, SendRequest
<1> DEFINE o == Append(out, c)
<1>3. o \in Seq(Cookies) /\ Distinct(o)
  BY <1>1, <1>2, AppendProperties, DistinctAppend DEF PathInv
<1>4. \A d \in Cookies : InSeq(d, o) <=> InSeq(d, out) \/ d = c
  BY <1>1, InSeqAppend
<1>5. \A d \in Cookies : ~(InSeq(d, wire) /\ InSeq(d, o))
  BY <1>2, <1>4 DEF PathInv
<1> HIDE DEF o
<1>6. CASE out' = o /\ wire' = wire
  BY <1>3, <1>4, <1>5, <1>6 DEF PathInv, Pending
<1>7. CASE out' = << >> /\ wire' = wire \o o
  <2>1. Distinct(wire \o o) /\ Distinct(<< >>)
    <3>1. Distinct(wire \o o)
      BY <1>1, <1>3, <1>5, DistinctConcat DEF PathInv
    <3>2. Distinct(<< >>)
      BY EmptySeq DEF Distinct
    <3> QED BY <3>1, <3>2
  <2>2. \A d \in Cookies :
          InSeq(d, wire \o o) <=> InSeq(d, wire) \/ InSeq(d, o)
    BY <1>1, <1>3, InSeqConcat
  <2> QED
    BY <1>4, <1>7, <2>1, <2>2, InSeqEmpty DEF Pending
<1> QED
  BY <1>6, <1>7 DEF SendRequest, o

\* No step of a method, of libxcb or of the server puts a request on its way
\* twice, or loses one before its answer is read.
LEMMA PathStep ==
  ASSUME TypeOK, PathInv, PlaceInv, [Next]_vars
  PROVE  PathInv'
<1>1. CASE UNCHANGED << out, wire, done, cookie, conn >>
  BY <1>1 DEF PathInv, Pending
<1>2. ASSUME NEW t \in Threads, NEW c \in Cookies, NEW r \in Requests,
             SendRequest(t, c, r)
      PROVE  PathInv'
  <2>1. /\ Distinct(out') /\ Distinct(wire')
        /\ \A d \in Cookies :
             /\ ~(InSeq(d, out') /\ InSeq(d, wire'))
             /\ Pending(d)' => Pending(d) \/ d = c
             /\ Pending(d) \/ d = c => Pending(d)'
    BY <1>2, SendEffect
  <2>2. /\ c \notin done /\ done' = done /\ conn' = conn
        /\ \A d \in Cookies :
             cookie'[d] = IF d = c THEN "live" ELSE cookie[d]
    <3>1. c \notin done
      BY <1>2 DEF SendRequest, PlaceInv
    <3> QED
      BY <1>2, <3>1 DEF SendRequest, TypeOK
  <2>3. ASSUME NEW d \in Cookies
        PROVE  /\ ~(InSeq(d, out') /\ InSeq(d, wire'))
               /\ Pending(d)' => d \notin done' /\ cookie'[d] # "new"
               /\ conn' = "open" /\ cookie'[d] # "new" => d \in done' \/ Pending(d)'
    <3>1. /\ Pending(d) => d \notin done /\ cookie[d] # "new"
          /\ conn = "open" /\ cookie[d] # "new" => d \in done \/ Pending(d)
      BY DEF PathInv
    <3> QED
      BY <2>1, <2>2, <3>1
  <2> QED
    BY <2>1, <2>3 DEF PathInv
<1>3. CASE (Written \/ UNCHANGED << out, wire >>) /\ UNCHANGED << done, cookie, conn >>
  BY <1>1, <1>3, WrittenEffect DEF PathInv, Pending
<1>4. ASSUME NEW t \in Threads, NEW c \in Cookies, DropCookie(t, c)
      PROVE  PathInv'
  BY <1>4 DEF DropCookie, PathInv, Pending, TypeOK
<1>5. ASSUME NEW t \in Threads, Disconnect(t) PROVE PathInv'
  BY <1>5, InSeqEmpty, EmptySeq
     DEF Disconnect, Disconnected, PathInv, Pending, Distinct
<1>6. ASSUME Answer PROVE PathInv'
  <2>1. wire \in Seq(Cookies) /\ wire # << >> /\ Distinct(wire)
    BY <1>6 DEF Answer, TypeOK, PathInv
  <2>2. Head(wire) \in Cookies /\ InSeq(Head(wire), wire)
    BY <2>1, InSeqTail, HeadTailProperties
  <2>3. Distinct(Tail(wire)) /\ ~InSeq(Head(wire), Tail(wire))
    BY <2>1, DistinctTail
  <2>4. \A d \in Cookies :
          /\ InSeq(d, Tail(wire)) => InSeq(d, wire)
          /\ InSeq(d, wire) => InSeq(d, Tail(wire)) \/ d = Head(wire)
    BY <2>1, InSeqTail
  <2> QED
    BY <1>6, <2>2, <2>3, <2>4 DEF Answer, pyvars, PathInv, Pending
<1>7. QED
  <2>1. ASSUME NEW t \in Threads, Methods(t) PROVE PathInv'
    BY <2>1, <1>1, <1>2, <1>3, <1>4, <1>5
       DEF Methods, BeginReply, EndReply, BeginCheck, EndCheck, FlushFor,
           BeginWaitForEvent, EndWaitForEvent, PollForEvent, Flush, xcbvars
  <2>2. CASE SendEvent \/ Break \/ UNCHANGED vars
    BY <2>2, <1>1 DEF SendEvent, Break, vars, xcbvars, pyvars
  <2> QED
    BY <1>6, <2>1, <2>2 DEF Next

\* Errors of different requests differ, and none is an event.
LEMMA ErrorFacts ==
  /\ \A c, d : Error(c) = Error(d) => c = d
  /\ \A c : Error(c) # Event /\ Error(c).type = "error" /\ Error(c).of = c
  /\ Event.type = "event"
  /\ \A e \in Items :
       e.type = "error" => e.of \in Cookies /\ e = Error(e.of)
BY DEF Error, Event, Items

\* What appending to the event queue does.
LEMMA QueueAppend ==
  ASSUME TypeOK, NEW e \in Items, ErrorsOnce(events),
         e.type = "error" => ~InSeq(e, events),
         events' = Append(events, e)
  PROVE  /\ ErrorsOnce(events')
         /\ \A c \in Cookies : /\ Queued(c) => Queued(c)'
                               /\ Queued(c)' => Queued(c) \/ e = Error(c)
<1>1. events \in Seq(Items)
  BY DEF TypeOK
<1>2. ErrorsOnce(events')
  BY <1>1, AppendProperties DEF ErrorsOnce, InSeq
<1>3. \A c \in Cookies : InSeq(Error(c), Append(events, e))
                         <=> InSeq(Error(c), events) \/ Error(c) = e
  BY <1>1, InSeqAppend
<1> QED
  BY <1>2, <1>3 DEF Queued

\* What taking the head of the event queue does.
LEMMA QueueTail ==
  ASSUME TypeOK, ErrorsOnce(events), events # << >>, events' = Tail(events)
  PROVE  /\ Head(events) \in Items
         /\ ErrorsOnce(events')
         /\ \A c \in Cookies : /\ Queued(c)' => Queued(c)
                               /\ Queued(c) => Queued(c)' \/ Head(events) = Error(c)
                               /\ Head(events) = Error(c) => Queued(c) /\ ~Queued(c)'
<1>1. events \in Seq(Items)
  BY DEF TypeOK
<1>2. /\ Len(events) \in Nat /\ Len(events) > 0 /\ Head(events) = events[1]
      /\ Len(events') = Len(events) - 1
      /\ \A i \in 1 .. Len(events) - 1 : events'[i] = events[i + 1]
      /\ Head(events) \in Items
  BY <1>1, HeadTailProperties, EmptySeq
<1>3. ErrorsOnce(events')
  <2>1. ASSUME NEW i \in 1 .. Len(events'), NEW j \in 1 .. Len(events'),
               events'[i] = events'[j], events'[i].type = "error"
        PROVE  i = j
    <3>1. i + 1 \in 1 .. Len(events) /\ j + 1 \in 1 .. Len(events)
      BY <1>2
    <3>2. events[i + 1] = events[j + 1] /\ events[i + 1].type = "error"
      BY <1>2, <2>1
    <3> QED
      BY <3>1, <3>2 DEF ErrorsOnce
  <2> QED
    BY <2>1 DEF ErrorsOnce
<1>4. ASSUME NEW c \in Cookies, Head(events) = Error(c)
      PROVE  ~InSeq(Error(c), events')
  <2>1. ASSUME NEW i \in 1 .. Len(events'), events'[i] = Error(c)
        PROVE  FALSE
    <3>1. /\ i + 1 \in 1 .. Len(events) /\ 1 \in 1 .. Len(events)
          /\ events[i + 1] = events[1] /\ events[i + 1].type = "error"
      BY <1>2, <1>4, <2>1, ErrorFacts
    <3>2. i + 1 = 1
      BY <3>1 DEF ErrorsOnce
    <3> QED
      BY <3>2
  <2> QED
    BY <2>1 DEF InSeq
<1>5. ASSUME NEW c \in Cookies
      PROVE  /\ InSeq(Head(events), events)
             /\ InSeq(Error(c), events') => InSeq(Error(c), events)
             /\ InSeq(Error(c), events)
                  => InSeq(Error(c), events') \/ Error(c) = Head(events)
  BY <1>1, InSeqTail
<1> QED
  BY <1>2, <1>3, <1>4, <1>5 DEF Queued

\* Every step leaves each response in one place at most: TakeAnswer and
\* TakeEvent remove what they hand over, and Answer stores in one place.
LEMMA PlaceStep ==
  ASSUME TypeOK, PathInv, PlaceInv, [Next]_vars
  PROVE  PlaceInv'
<1> USE DEF HandedOnce, Copies
<1>1. CASE UNCHANGED << handed, answer, events, done, failed, request, cookie >>
  BY <1>1 DEF PlaceInv, Queued
<1>2. ASSUME NEW t \in Threads, NEW c \in Cookies, NEW r \in Requests,
             SendRequest(t, c, r)
      PROVE  PlaceInv'
  BY <1>2 DEF SendRequest, histvars, PlaceInv, Queued, TypeOK
<1>3. ASSUME NEW c \in Cookies, NEW built \in BOOLEAN, TakeAnswer(c, built),
             answer[c] # "none",
             UNCHANGED << events, done, failed, request, cookie >>
      PROVE  PlaceInv'
  <2>1. handed[c] = 0 /\ ~Queued(c)
    BY <1>3 DEF PlaceInv, TypeOK
  <2> QED
    BY <1>3, <2>1 DEF TakeAnswer, PlaceInv, Queued, TypeOK
<1>4. ASSUME TakeEvent, UNCHANGED << answer, done, failed, request, cookie >>
      PROVE  PlaceInv'
  <2>1. /\ Head(events) \in Items /\ ErrorsOnce(events')
        /\ \A c \in Cookies :
             /\ Queued(c)' => Queued(c)
             /\ Head(events) = Error(c) => Queued(c) /\ ~Queued(c)'
    BY <1>4, QueueTail DEF TakeEvent, PlaceInv
  <2>2. \A c \in Cookies :
          handed'[c] = IF Head(events) = Error(c) THEN handed[c] + 1 ELSE handed[c]
    BY <1>4, <2>1, ErrorFacts DEF TakeEvent, TypeOK
  <2> HIDE DEF Copies, HandedOnce
  <2>3. ASSUME NEW c \in Cookies
        PROVE  /\ Copies(c)' <= 1
               /\ answer'[c] # "none" \/ Queued(c)' \/ handed'[c] > 0 => c \in done'
               /\ Queued(c)' => c \in failed' /\ ~request'[c].checked
               /\ c \in done' \union failed' => cookie'[c] # "new"
    <3>1. /\ Copies(c) <= 1 /\ handed[c] \in Nat
          /\ answer[c] # "none" \/ Queued(c) \/ handed[c] > 0 => c \in done
          /\ Queued(c) => c \in failed /\ ~request[c].checked
          /\ c \in done \union failed => cookie[c] # "new"
      BY DEF PlaceInv, HandedOnce, TypeOK
    <3> QED
      BY <1>4, <2>1, <2>2, <3>1 DEF Copies
  <2> QED
    BY <2>1, <2>3 DEF PlaceInv, HandedOnce
<1>5. ASSUME NEW t \in Threads, NEW c \in Cookies, DropCookie(t, c)
      PROVE  PlaceInv'
  <2>1. /\ \A d \in Cookies :
             /\ answer'[d] # "none" => answer'[d] = answer[d]
             /\ cookie'[d] = "new" => cookie[d] = "new"
        /\ UNCHANGED << handed, events, done, failed, request >>
    BY <1>5 DEF DropCookie, HasConnection, DiscardReply, histvars, TypeOK
  <2>2. \A d \in Cookies : handed[d] \in Nat
    BY DEF TypeOK
  <2> QED
    BY <2>1, <2>2 DEF PlaceInv, Queued
<1>6. ASSUME NEW t \in Threads, Disconnect(t) PROVE PlaceInv'
  <2>1. ErrorsOnce(<< >>) /\ \A c : ~InSeq(Error(c), << >>)
    BY InSeqEmpty, EmptySeq DEF ErrorsOnce
  <2> QED
    <3>1. /\ \A d \in Cookies : answer'[d] = "none" /\ ~Queued(d)'
          /\ ErrorsOnce(events')
          /\ UNCHANGED << handed, done, failed, request, cookie >>
      BY <1>6, <2>1 DEF Disconnect, histvars, Queued
    <3>2. \A d \in Cookies : handed[d] \in Nat
      BY DEF TypeOK
    <3> QED
      BY <3>1, <3>2 DEF PlaceInv
<1>7. ASSUME Answer PROVE PlaceInv'
  <2>1. PICK c \in Cookies : c = Head(wire) /\ InSeq(c, wire)
    BY <1>7, InSeqTail, HeadTailProperties DEF Answer, TypeOK
  <2>2. c \notin done /\ cookie[c] # "new"
    BY <2>1 DEF PathInv, Pending
  <2>3. answer[c] = "none" /\ ~Queued(c) /\ handed[c] = 0
    BY <2>1, <2>2 DEF PlaceInv, TypeOK
  <2>4. PICK what \in { "reply", "error" } :
          /\ Store(c, what)
          /\ failed' = IF what = "error" THEN failed \union {c} ELSE failed
    BY <1>7, <2>1 DEF Answer
  <2>5. done' = done \union {c} /\ UNCHANGED << request, cookie, handed >>
    BY <1>7, <2>1 DEF Answer, pyvars
  <2>6. /\ ErrorsOnce(events')
        /\ \A d \in Cookies :
             /\ d # c => answer'[d] = answer[d] /\ (Queued(d)' => Queued(d))
             /\ Queued(c)' => answer'[c] = "none" /\ what = "error" /\ ~request[c].checked
    <3>1. CASE UNCHANGED events /\ (UNCHANGED answer \/ answer' = [answer EXCEPT ![c] = what])
      <4>1. /\ ErrorsOnce(events') /\ ~Queued(c)'
            /\ \A d \in Cookies : Queued(d)' => Queued(d)
        BY <2>3, <3>1 DEF PlaceInv, Queued
      <4>2. \A d \in Cookies : d # c => answer'[d] = answer[d]
        BY <3>1 DEF TypeOK
      <4> QED
        BY <4>1, <4>2
    <3>2. CASE /\ what = "error" /\ ~request[c].checked
               /\ events' = Append(events, Error(c)) /\ UNCHANGED answer
      <4>1. Error(c) \in Items
        BY <2>1 DEF Items
      <4> QED
        BY <2>3, <3>2, <4>1, QueueAppend, ErrorFacts DEF PlaceInv, Queued
    <3> QED
      BY <2>4, <3>1, <3>2 DEF Store
  <2> HIDE DEF Copies, HandedOnce
  <2>7. ASSUME NEW d \in Cookies
        PROVE  /\ Copies(d)' <= 1
               /\ answer'[d] # "none" \/ Queued(d)' \/ handed'[d] > 0 => d \in done'
               /\ Queued(d)' => d \in failed' /\ ~request'[d].checked
               /\ d \in done' \union failed' => cookie'[d] # "new"
    <3>1. /\ Copies(d) <= 1 /\ handed[d] \in Nat
          /\ answer[d] # "none" \/ Queued(d) \/ handed[d] > 0 => d \in done
          /\ Queued(d) => d \in failed /\ ~request[d].checked
          /\ d \in done \union failed => cookie[d] # "new"
      BY DEF PlaceInv, HandedOnce, TypeOK
    <3>2. CASE d = c
      <4>1. handed'[c] = 0 /\ c \in done' /\ cookie'[c] # "new"
        BY <2>2, <2>3, <2>5
      <4>2. Queued(c)' => answer'[c] = "none" /\ c \in failed' /\ ~request'[c].checked
        BY <2>4, <2>5, <2>6
      <4>3. Copies(c)' <= 1
        BY <4>1, <4>2 DEF Copies
      <4> QED
        BY <3>2, <4>1, <4>2, <4>3
    <3>3. CASE d # c
      BY <2>4, <2>5, <2>6, <3>1, <3>3 DEF Copies
    <3> QED
      BY <3>2, <3>3
  <2> QED
    BY <2>6, <2>7 DEF PlaceInv, HandedOnce
<1>8. ASSUME SendEvent PROVE PlaceInv'
  <2>1. Event \in Items
    BY DEF Items
  <2>2. ErrorsOnce(events') /\ \A d \in Cookies : Queued(d)' => Queued(d)
    BY <1>8, <2>1, QueueAppend, ErrorFacts DEF SendEvent, PlaceInv
  <2> QED
    BY <1>8, <2>2 DEF SendEvent, pyvars, histvars, PlaceInv, TypeOK
<1>9. ASSUME Break PROVE PlaceInv'
  BY <1>9 DEF Break, pyvars, PathInv, Pending, PlaceInv, Queued, TypeOK
<1>10. QED
  <2>1. ASSUME NEW t \in Threads, Methods(t) PROVE PlaceInv'
    BY <2>1, <1>1, <1>2, <1>3, <1>4, <1>5, <1>6
       DEF Methods, BeginReply, EndReply, BeginCheck, EndCheck, Report,
           BeginWaitForEvent, EndWaitForEvent, PollForEvent, Flush, xcbvars,
           histvars
  <2>2. CASE UNCHANGED vars
    BY <2>2, <1>1 DEF vars, xcbvars, pyvars, histvars
  <2> QED
    BY <1>7, <1>8, <1>9, <2>1, <2>2 DEF Next

\* While a thread runs Python code, or leaves libxcb, no other is in libxcb.
LEMMA LockExcludes ==
  ASSUME TypeOK, LockInv
  PROVE  /\ \A t, u \in Threads : call[t] # Idle /\ u # t => call[u] = Idle
         /\ \A t, u \in Threads : Running(t) => call[u] = Idle
BY ConstantsAssumption DEF LockInv, Running

\* Every step keeps whoever is in libxcb in possession of the interpreter
\* lock, an open connection, and a live Cookie that is not in the buffer.
LEMMA LockStep ==
  ASSUME TypeOK, PathInv, LockInv, [Next]_vars
  PROVE  LockInv'
<1>0. Idle.op = "idle"
  BY DEF Idle
<1>1. CASE UNCHANGED << call, gil, conn, cookie, out, request >>
  BY <1>1 DEF LockInv, MayCheck
<1>2. ASSUME \A u \in Threads : call'[u] = Idle
      PROVE  LockInv'
  BY <1>0, <1>2 DEF LockInv
<1>3. ASSUME NEW t \in Threads, Running(t), UNCHANGED call PROVE LockInv'
  BY <1>2, <1>3, LockExcludes
<1>4. ASSUME NEW t \in Threads, call[t] # Idle, Return(t) PROVE LockInv'
  <2>1. \A u \in Threads : call'[u] = Idle
    BY <1>4, LockExcludes DEF Return, TypeOK
  <2> QED
    BY <1>2, <2>1
<1>5. ASSUME NEW t \in Threads, NEW op \in { "reply", "check", "event" },
             NEW c \in Cookies \union {NoCookie},
             Running(t), conn = "open", Block(t, op, c),
             UNCHANGED << conn, cookie, request >>,
             op # "event" => c \in Cookies /\ cookie[c] = "live" /\ ~InSeq(c, out'),
             op = "reply" => ~request[c].void,
             op = "check" => MayCheck(c)
      PROVE  LockInv'
  <2>1. call'[t] = [op |-> op, of |-> c] /\ gil' = t
    BY <1>5 DEF Block, TypeOK
  <2>2. \A u \in Threads : u # t => call'[u] = Idle
    BY <1>5, LockExcludes DEF Block, TypeOK
  <2>3. MayCheck(c)' <=> MayCheck(c)
    BY <1>5 DEF MayCheck
  <2>4. ASSUME NEW u \in Threads
        PROVE  /\ call'[u] # Idle => gil' = u /\ conn' = "open"
               /\ call'[u].op \in { "reply", "check" } =>
                    /\ call'[u].of \in Cookies
                    /\ cookie'[call'[u].of] = "live"
                    /\ ~InSeq(call'[u].of, out')
                    /\ call'[u].op = "reply" => ~request'[call'[u].of].void
                    /\ call'[u].op = "check" =>
                          request'[call'[u].of].void /\ request'[call'[u].of].checked
    <3>1. CASE u = t
      BY <1>5, <2>1, <3>1 DEF MayCheck
    <3>2. CASE u # t
      BY <1>0, <2>2, <3>2
    <3> QED
      BY <3>1, <3>2
  <2> QED
    BY <2>4 DEF LockInv, MayCheck
<1>6. ASSUME NEW c \in Cookies, Written PROVE ~InSeq(c, out')
  BY <1>6, InSeqEmpty DEF Written
<1>7. ASSUME NEW t \in Threads, NEW c \in Cookies, BeginReply(t, c) PROVE LockInv'
  <2>1. ~InSeq(c, out')
    BY <1>6, <1>7 DEF BeginReply, FlushFor
  <2> QED
    BY <1>5, <1>7, <2>1 DEF BeginReply, Invalid, TypeOK
<1>8. ASSUME NEW t \in Threads, NEW c \in Cookies, BeginCheck(t, c) PROVE LockInv'
  <2>1. ~InSeq(c, out')
    BY <1>6, <1>8 DEF BeginCheck, FlushFor, PathInv, Pending
  <2> QED
    BY <1>5, <1>8, <2>1 DEF BeginCheck, Invalid, TypeOK
<1>9. ASSUME NEW t \in Threads, BeginWaitForEvent(t) PROVE LockInv'
  BY <1>5, <1>9 DEF BeginWaitForEvent, Invalid, TypeOK
<1>10. ASSUME NEW t \in Threads, NEW c \in Cookies, EndReply(t, c) \/ EndCheck(t, c)
       PROVE  LockInv'
  BY <1>0, <1>4, <1>10 DEF EndReply, EndCheck
<1>11. ASSUME NEW t \in Threads, EndWaitForEvent(t) PROVE LockInv'
  BY <1>0, <1>4, <1>11 DEF EndWaitForEvent
<1> QED
  <2>1. ASSUME NEW t \in Threads, Methods(t) PROVE LockInv'
    BY <2>1, <1>3, <1>7, <1>8, <1>9, <1>10, <1>11
       DEF Methods, SendRequest, DropCookie, PollForEvent, Flush, Disconnect
  <2>2. CASE Answer \/ SendEvent \/ Break \/ UNCHANGED vars
    BY <2>2, <1>1 DEF Answer, SendEvent, Break, vars, xcbvars, pyvars
  <2> QED
    BY <2>1, <2>2 DEF Next

\* Every step keeps libxcb informed of the Cookies deallocated before their
\* answer was read, and disconnect() leaves nothing in libxcb.
LEMMA DiscardStep ==
  ASSUME TypeOK, PathInv, PlaceInv, DiscardInv, LockInv, [Next]_vars
  PROVE  DiscardInv'
<1> USE DEF NoOrphanAnswers
<1>1. CASE UNCHANGED << xerr, conn, answer, discard, done, events, cookie, out, wire >>
  BY <1>1 DEF DiscardInv, Queued, Pending
<1>2. ASSUME conn = "open", UNCHANGED << xerr, conn, discard, done, cookie >>,
             \A c \in Cookies : answer'[c] # "none" => answer[c] # "none"
      PROVE  DiscardInv'
  BY <1>2 DEF DiscardInv
<1>3. ASSUME NEW t \in Threads, NEW c \in Cookies, NEW r \in Requests,
             SendRequest(t, c, r)
      PROVE  DiscardInv'
  BY <1>3 DEF SendRequest, Invalid, DiscardInv, TypeOK
<1>4. ASSUME NEW c \in Cookies, NEW built \in BOOLEAN,
             TakeAnswer(c, built) \/ Report(c, "ok") \/ Report(c, "ioerror"),
             conn = "open", UNCHANGED << xerr, conn, discard, done, cookie >>
      PROVE  DiscardInv'
  BY <1>2, <1>4 DEF TakeAnswer, Report, TypeOK
<1>5. ASSUME NEW t \in Threads, NEW c \in Cookies, EndReply(t, c) \/ EndCheck(t, c)
      PROVE  DiscardInv'
  <2>1. conn = "open"
    BY <1>5 DEF EndReply, EndCheck, LockInv, Idle
  <2> QED
    BY <1>4, <1>5, <2>1 DEF EndReply, EndCheck
<1>6. ASSUME NEW t \in Threads, EndWaitForEvent(t) PROVE DiscardInv'
  <2>1. conn = "open"
    BY <1>6 DEF EndWaitForEvent, LockInv, Idle
  <2> QED
    BY <1>2, <1>6, <2>1 DEF EndWaitForEvent
<1>7. ASSUME NEW t \in Threads,
             \/ \E c \in Cookies : BeginReply(t, c) \/ BeginCheck(t, c)
             \/ PollForEvent(t) \/ Flush(t) \/ BeginWaitForEvent(t)
      PROVE  DiscardInv'
  BY <1>2, <1>7
     DEF BeginReply, BeginCheck, PollForEvent, Flush, BeginWaitForEvent,
         Invalid, xcbvars, TypeOK
<1>8. ASSUME NEW t \in Threads, NEW c \in Cookies, DropCookie(t, c)
      PROVE  DiscardInv'
  <2>1. /\ cookie' = [cookie EXCEPT ![c] = "dead"] /\ cookie[c] = "live"
        /\ UNCHANGED << conn, xerr, out, wire, done, events >>
        /\ IF conn = "open" THEN DiscardReply(c) ELSE UNCHANGED << answer, discard >>
    BY <1>8 DEF DropCookie, HasConnection
  <2>2. \A d \in Cookies : cookie'[d] = IF d = c THEN "dead" ELSE cookie[d]
    BY <2>1 DEF TypeOK
  <2>3. CASE conn = "open" /\ ~xerr
    <3>1. /\ \A d \in Cookies : answer'[d] = IF d = c THEN "none" ELSE answer[d]
          /\ discard' = IF c \in done THEN discard ELSE discard \union {c}
      BY <2>1, <2>3 DEF DiscardReply, TypeOK
    <3> QED
      BY <2>1, <2>2, <2>3, <3>1 DEF DiscardInv
  <2>4. CASE conn # "open" \/ xerr
    <3>1. UNCHANGED << answer, discard >>
      BY <2>1, <2>4 DEF DiscardReply
    <3> QED
      BY <2>1, <2>2, <2>4, <3>1 DEF DiscardInv, Queued, Pending
  <2> QED
    BY <2>3, <2>4
<1>9. ASSUME NEW t \in Threads, Disconnect(t) PROVE DiscardInv'
  BY <1>9, InSeqEmpty
     DEF Disconnect, Disconnected, DiscardInv, Queued, Pending
<1>10. ASSUME Answer PROVE DiscardInv'
  <2>1. PICK c \in Cookies : c = Head(wire) /\ InSeq(c, wire)
    BY <1>10, InSeqTail, HeadTailProperties DEF Answer, TypeOK
  <2>2. c \notin done
    BY <2>1 DEF PathInv, Pending
  <2>3. PICK what \in { "reply", "error" } : Store(c, what)
    BY <1>10, <2>1 DEF Answer
  <2>4. /\ done' = done \union {c} /\ discard' = discard \ {c}
        /\ conn = "open" /\ ~xerr /\ UNCHANGED << xerr, conn, cookie >>
    BY <1>10, <2>1 DEF Answer, pyvars
  <2>5. /\ \A d \in Cookies : d # c => answer'[d] = answer[d]
        /\ answer'[c] # "none" => c \notin discard \/ answer[c] # "none"
    BY <2>3 DEF Store, TypeOK
  <2>6. cookie[c] # "new" /\ (c \notin discard => cookie[c] = "live")
    BY <2>1, <2>2, <2>4 DEF DiscardInv, PathInv, Pending, TypeOK
  <2> QED
    BY <2>4, <2>5, <2>6 DEF DiscardInv
<1>11. ASSUME SendEvent PROVE DiscardInv'
  BY <1>2, <1>11 DEF SendEvent, pyvars
<1>12. ASSUME Break PROVE DiscardInv'
  BY <1>12 DEF Break, pyvars, DiscardInv
<1> QED
  <2>1. ASSUME NEW t \in Threads, Methods(t) PROVE DiscardInv'
    BY <2>1, <1>3, <1>5, <1>6, <1>7, <1>8, <1>9 DEF Methods
  <2>2. CASE UNCHANGED vars
    BY <2>2, <1>1 DEF vars, xcbvars, pyvars
  <2> QED
    BY <1>10, <1>11, <1>12, <2>1, <2>2 DEF Next

\* No step loses a response whose Cookie the program still holds.
LEMMA KeptStep ==
  ASSUME TypeOK, PathInv, PlaceInv, DiscardInv, LockInv, KeptWhileReferenced,
         ReportInv, [Next]_vars
  PROVE  KeptWhileReferenced'
<1>1. CASE UNCHANGED << conn, cookie, handed, failed, request, done, answer, events >>
  BY <1>1 DEF KeptWhileReferenced, Queued
<1>2. ASSUME NEW c \in Cookies, UNCHANGED << conn, failed, request, done, events >>,
             \A d \in Cookies : d # c => UNCHANGED << cookie[d], handed[d], answer[d] >>,
             c \notin done \/ cookie'[c] # "live" \/ handed'[c] # 0
      PROVE  KeptWhileReferenced'
  <2>1. ASSUME NEW d \in done', conn' = "open", cookie'[d] = "live", handed'[d] = 0,
               d \in failed' \/ ~request'[d].void
        PROVE  answer'[d] # "none" \/ Queued(d)'
    <3>1. d # c /\ d \in Cookies /\ d \in done
      BY <1>2, <2>1 DEF TypeOK
    <3> QED
      BY <1>2, <2>1, <3>1 DEF KeptWhileReferenced, Queued
  <2> QED
    BY <2>1 DEF KeptWhileReferenced
<1>3. ASSUME NEW t \in Threads, NEW c \in Cookies, NEW r \in Requests,
             SendRequest(t, c, r)
      PROVE  KeptWhileReferenced'
  <2>1. c \notin done
    BY <1>3 DEF SendRequest, PlaceInv
  <2>2. \A d \in Cookies : d # c => cookie'[d] = cookie[d] /\ request'[d] = request[d]
    BY <1>3 DEF SendRequest, TypeOK
  <2>3. UNCHANGED << conn, failed, done, answer, events, handed >> /\ done \subseteq Cookies
    BY <1>3 DEF SendRequest, histvars, TypeOK
  <2> QED
    BY <2>1, <2>2, <2>3 DEF KeptWhileReferenced, Queued
<1>4. ASSUME NEW c \in Cookies, NEW built \in BOOLEAN, TakeAnswer(c, built),
             UNCHANGED << conn, cookie, failed, request, done, events >>
      PROVE  KeptWhileReferenced'
  BY <1>2, <1>4 DEF TakeAnswer, TypeOK
<1>5. ASSUME TakeEvent, UNCHANGED << conn, cookie, failed, request, done, answer >>
      PROVE  KeptWhileReferenced'
  <2>1. /\ Head(events) \in Items
        /\ \A c \in Cookies : Queued(c) => Queued(c)' \/ Head(events) = Error(c)
    BY <1>5, QueueTail DEF TakeEvent, PlaceInv
  <2>2. /\ \A d \in Cookies :
             handed'[d] = IF Head(events) = Error(d) THEN handed[d] + 1 ELSE handed[d]
        /\ \A d \in Cookies : handed[d] \in Nat
        /\ done \subseteq Cookies
    BY <1>5, <2>1, ErrorFacts DEF TakeEvent, TypeOK
  <2>3. \A d \in Cookies : handed'[d] = 0 => handed[d] = 0 /\ Head(events) # Error(d)
    BY <2>2
  <2> QED
    BY <1>5, <2>1, <2>2, <2>3 DEF KeptWhileReferenced
<1>6. ASSUME NEW t \in Threads, NEW c \in Cookies, DropCookie(t, c)
      PROVE  KeptWhileReferenced'
  BY <1>2, <1>6 DEF DropCookie, HasConnection, DiscardReply, histvars, TypeOK
<1>7. ASSUME NEW t \in Threads, Disconnect(t) PROVE KeptWhileReferenced'
  BY <1>7 DEF Disconnect, Disconnected, KeptWhileReferenced
<1>8. ASSUME Answer PROVE KeptWhileReferenced'
  <2>1. PICK c \in Cookies : c = Head(wire) /\ InSeq(c, wire)
    BY <1>8, InSeqTail, HeadTailProperties DEF Answer, TypeOK
  <2>2. PICK what \in { "reply", "error" } :
          /\ Store(c, what)
          /\ failed' = IF what = "error" THEN failed \union {c} ELSE failed
    BY <1>8, <2>1 DEF Answer
  <2>3. done' = done \union {c} /\ UNCHANGED << conn, cookie, request, handed >>
    BY <1>8, <2>1 DEF Answer, pyvars
  <2>4. c \notin done
    BY <2>1 DEF PathInv, Pending
  <2>5. \A d \in Cookies : d # c =>
             answer'[d] = answer[d] /\ (Queued(d) => Queued(d)')
    <3>1. CASE UNCHANGED events
      BY <2>2, <3>1 DEF Store, Queued, TypeOK
    <3>2. CASE events' = Append(events, Error(c)) /\ UNCHANGED answer
      <4>1. Error(c) \in Items /\ events \in Seq(Items)
        BY DEF Items, TypeOK
      <4> QED
        BY <3>2, <4>1, InSeqAppend DEF Queued
    <3> QED
      BY <2>2, <3>1, <3>2 DEF Store
  <2>6. ASSUME cookie[c] = "live", c \in failed' \/ ~request[c].void
        PROVE  answer'[c] # "none" \/ Queued(c)'
    <3>1. c \notin discard /\ c \notin failed
      BY <1>8, <2>4, <2>6, <2>1 DEF DiscardInv, ReportInv, Answer
    <3>2. CASE events' = Append(events, Error(c))
      <4>1. Error(c) \in Items /\ events \in Seq(Items)
        BY DEF Items, TypeOK
      <4> QED
        BY <3>2, <4>1, InSeqAppend DEF Queued
    <3>3. CASE answer' = [answer EXCEPT ![c] = what]
      BY <3>3 DEF TypeOK
    <3> QED
      BY <2>2, <2>6, <3>1, <3>2, <3>3 DEF Store
  <2> QED
    BY <2>2, <2>3, <2>5, <2>6 DEF KeptWhileReferenced, TypeOK
<1>9. ASSUME SendEvent PROVE KeptWhileReferenced'
  <2>1. Event \in Items /\ events \in Seq(Items) /\ done \subseteq Cookies
    BY DEF Items, TypeOK
  <2>2. \A d \in Cookies : Queued(d) => Queued(d)'
    BY <1>9, <2>1, InSeqAppend DEF SendEvent, Queued
  <2> QED
    BY <1>9, <2>1, <2>2 DEF SendEvent, pyvars, histvars, KeptWhileReferenced
<1>10. ASSUME Break PROVE KeptWhileReferenced'
  <2>1. \A c \in done : c \in failed' => c \in failed
    BY <1>10 DEF Break, PathInv, Pending, TypeOK
  <2> QED
    BY <1>10, <2>1 DEF Break, pyvars, KeptWhileReferenced, Queued
<1> QED
  <2>1. ASSUME NEW t \in Threads, Methods(t) PROVE KeptWhileReferenced'
    BY <2>1, <1>1, <1>3, <1>4, <1>5, <1>6, <1>7
       DEF Methods, BeginReply, EndReply, BeginCheck, EndCheck, Report,
           BeginWaitForEvent, EndWaitForEvent, PollForEvent, Flush, xcbvars, histvars
  <2>2. CASE UNCHANGED vars
    BY <2>2, <1>1 DEF vars, xcbvars, pyvars, histvars
  <2> QED
    BY <1>8, <1>9, <1>10, <2>1, <2>2 DEF Next

\* After disconnect() no step of a method or of libxcb does anything to the
\* connection: they require an open one, and disconnect() itself empties it.
LEMMA FreedStep ==
  ASSUME TypeOK, LockInv, FreedUntouched, [Next]_vars
  PROVE  FreedUntouched'
<1>1. CASE UNCHANGED << conn, out, wire, events, discard, answer >>
  BY <1>1 DEF FreedUntouched
<1>2. ASSUME conn' = "open" PROVE FreedUntouched'
  BY <1>2 DEF FreedUntouched
<1>3. ASSUME conn = "open", UNCHANGED conn PROVE FreedUntouched'
  BY <1>2, <1>3
<1>4. ASSUME NEW t \in Threads, Methods(t) PROVE FreedUntouched'
  <2>1. ASSUME NEW c \in Cookies, EndReply(t, c) \/ EndCheck(t, c)
        PROVE  FreedUntouched'
    BY <2>1, <1>3 DEF EndReply, EndCheck, LockInv, Idle
  <2>2. CASE EndWaitForEvent(t)
    BY <2>2, <1>3 DEF EndWaitForEvent, LockInv, Idle
  <2>3. ASSUME NEW c \in Cookies, DropCookie(t, c) PROVE FreedUntouched'
    BY <2>3, <1>1, <1>3 DEF DropCookie, HasConnection
  <2>4. CASE Disconnect(t)
    BY <2>4 DEF Disconnect, Disconnected, FreedUntouched
  <2>5. ASSUME NEW c \in Cookies,
               \/ \E r \in Requests : SendRequest(t, c, r)
               \/ BeginReply(t, c) \/ BeginCheck(t, c)
        PROVE  FreedUntouched'
    BY <2>5, <1>3 DEF SendRequest, BeginReply, BeginCheck, Invalid, TypeOK
  <2>6. CASE BeginWaitForEvent(t) \/ PollForEvent(t) \/ Flush(t)
    BY <2>6, <1>3 DEF BeginWaitForEvent, PollForEvent, Flush, Invalid, TypeOK
  <2> QED
    BY <1>4, <2>1, <2>2, <2>3, <2>4, <2>5, <2>6 DEF Methods
<1>5. CASE Answer \/ SendEvent \/ Break
  BY <1>5, <1>3 DEF Answer, SendEvent, Break, pyvars
<1>6. CASE UNCHANGED vars
  BY <1>1, <1>6 DEF vars, xcbvars, pyvars
<1> QED
  BY <1>4, <1>5, <1>6 DEF Next

\* What a step makes check() or reply() report is justified by what has been
\* read so far, and stays justified.
LEMMA ReportStep ==
  ASSUME TypeOK, PathInv, PlaceInv, DiscardInv, LockInv, KeptWhileReferenced,
         ReportInv, [Next]_vars
  PROVE  ReportInv'
<1> USE DEF ReportsJustified
<1>1. CASE UNCHANGED << handed, conn, xerr, outcome, failed, request, done >>
  BY <1>1 DEF ReportInv
<1>2. ASSUME UNCHANGED << conn, xerr, outcome, failed, request, done >>,
             \A d \in Cookies : handed'[d] = 0 => handed[d] = 0
      PROVE  ReportInv'
  BY <1>2 DEF ReportInv
<1>3. ASSUME NEW t \in Threads, NEW c \in Cookies, NEW r \in Requests,
             SendRequest(t, c, r)
      PROVE  ReportInv'
  <2>1. c \notin done /\ conn = "open" /\ ~xerr
    BY <1>3 DEF SendRequest, Invalid, PlaceInv, TypeOK
  <2>2. \A d \in Cookies : d # c => request'[d] = request[d]
    BY <1>3 DEF SendRequest, TypeOK
  <2>3. UNCHANGED << conn, xerr, failed, done, handed, outcome >>
    BY <1>3 DEF SendRequest, histvars
  <2>4. c \notin failed /\ "ok" \notin outcome[c] /\ "ioerror" \notin outcome[c]
    BY <2>1 DEF ReportInv
  <2> QED
    BY <2>1, <2>2, <2>3, <2>4 DEF ReportInv
<1>4. ASSUME NEW c \in Cookies, NEW built \in BOOLEAN, TakeAnswer(c, built),
             answer[c] # "none", UNCHANGED << conn, xerr, failed, request, done >>
      PROVE  ReportInv'
  <2>1. c \in done /\ handed[c] \in Nat
    BY <1>4 DEF PlaceInv, TypeOK
  <2>2. handed'[c] # 0 /\ \A d \in Cookies :
          d # c => handed'[d] = handed[d] /\ outcome'[d] = outcome[d]
    BY <1>4, <2>1 DEF TakeAnswer, TypeOK
  <2> QED
    BY <1>4, <2>1, <2>2 DEF ReportInv
<1>5. ASSUME NEW t \in Threads, NEW c \in Cookies, answer[c] = "none",
             UNCHANGED << conn, xerr, failed, request, done >>,
             \/ call[t] = [op |-> "reply", of |-> c] /\ Report(c, "ioerror")
             \/ call[t] = [op |-> "check", of |-> c] /\ Report(c, "ok"),
             c \in done \/ xerr
      PROVE  ReportInv'
  <2>1. /\ conn = "open" /\ cookie[c] = "live"
        /\ call[t].op = "reply" => ~request[c].void
        /\ call[t].op = "check" => request[c].checked
    BY <1>5 DEF LockInv, MayCheck, Idle
  <2>2. UNCHANGED handed /\ \A d \in Cookies : d # c => outcome'[d] = outcome[d]
    BY <1>5 DEF Report, TypeOK
  <2>3. CASE xerr
    BY <1>5, <2>3 DEF ReportInv
  <2>4. CASE ~xerr
    <3>1. c \in done
      BY <1>5, <2>4
    <3>2. handed[c] = 0 /\ (c \in failed \/ ~request[c].void) => Queued(c)
      BY <1>5, <2>1, <3>1 DEF KeptWhileReferenced
    <3>3. Queued(c) => c \in failed /\ ~request[c].checked
      BY DEF PlaceInv
    <3>4. handed[c] = 0 =>
            /\ "ok" \in outcome'[c] => c \notin failed
            /\ "ioerror" \in outcome'[c] => ~request[c].checked /\ c \in failed
      <4>1. CASE call[t].op = "reply" /\ outcome'[c] = outcome[c] \union { "ioerror" }
        BY <1>5, <2>1, <2>4, <3>2, <3>3, <4>1 DEF ReportInv
      <4>2. CASE call[t].op = "check" /\ outcome'[c] = outcome[c] \union { "ok" }
        BY <1>5, <2>1, <2>4, <3>2, <3>3, <4>2 DEF ReportInv
      <4> QED
        BY <1>5, <4>1, <4>2 DEF Report, TypeOK
    <3> QED
      BY <1>5, <2>1, <2>2, <2>4, <3>1, <3>4 DEF ReportInv
  <2> QED
    BY <2>3, <2>4
<1>6. ASSUME NEW t \in Threads, NEW c \in Cookies, EndReply(t, c) \/ EndCheck(t, c)
      PROVE  ReportInv'
  BY <1>4, <1>5, <1>6 DEF EndReply, EndCheck, TypeOK
<1>7. ASSUME TakeEvent PROVE \A d \in Cookies : handed'[d] = 0 => handed[d] = 0
  <2>1. \A d \in Cookies : handed[d] \in Nat
    BY DEF TypeOK
  <2> QED
    BY <1>7, <2>1 DEF TakeEvent, TypeOK
<1>8. ASSUME NEW t \in Threads, EndWaitForEvent(t) \/ PollForEvent(t)
      PROVE  ReportInv'
  BY <1>2, <1>7, <1>8 DEF EndWaitForEvent, PollForEvent, TakeEvent
<1>9. ASSUME NEW t \in Threads, Disconnect(t) PROVE ReportInv'
  BY <1>9 DEF Disconnect, Disconnected, ReportInv
<1>10. ASSUME Answer PROVE ReportInv'
  <2>1. PICK c \in Cookies : c = Head(wire) /\ InSeq(c, wire)
    BY <1>10, InSeqTail, HeadTailProperties DEF Answer, TypeOK
  <2>2. c \notin done
    BY <2>1 DEF PathInv, Pending
  <2>3. /\ done' = done \union {c} /\ failed' \subseteq failed \union {c}
        /\ failed \subseteq failed'
        /\ conn = "open" /\ ~xerr
        /\ UNCHANGED << conn, xerr, request, handed, outcome >>
    BY <1>10, <2>1 DEF Answer, pyvars
  <2>4. c \notin failed /\ "ok" \notin outcome[c] /\ "ioerror" \notin outcome[c]
    BY <2>2, <2>3 DEF ReportInv
  <2> QED
    BY <2>3, <2>4 DEF ReportInv
<1>11. ASSUME Break PROVE ReportInv'
  BY <1>11 DEF Break, pyvars, ReportInv
<1> QED
  <2>1. ASSUME NEW t \in Threads, Methods(t) PROVE ReportInv'
    BY <2>1, <1>1, <1>3, <1>6, <1>8, <1>9
       DEF Methods, BeginReply, BeginCheck, BeginWaitForEvent, Flush,
           DropCookie, xcbvars, histvars
  <2>2. CASE SendEvent \/ UNCHANGED vars
    BY <2>2, <1>1 DEF SendEvent, vars, xcbvars, pyvars, histvars
  <2> QED
    BY <1>10, <1>11, <2>1, <2>2 DEF Next

-----------------------------------------------------------------------------
\* The strengthening holds at the start and is preserved by every step.
THEOREM Inductive == Spec => []IInv
<1>1. Init => IInv
  <2> SUFFICES ASSUME Init PROVE IInv
    OBVIOUS
  <2>1. TypeOK
    BY InitTypes
  <2>2. /\ Distinct(<< >>) /\ ErrorsOnce(<< >>)
        /\ \A c : ~InSeq(c, << >>)
    BY InSeqEmpty, EmptySeq DEF Distinct, ErrorsOnce
  <2>3. PathInv
    BY <2>2 DEF Init, PathInv, Pending
  <2>4. PlaceInv
    BY <2>2 DEF Init, PlaceInv, HandedOnce, Copies, Queued
  <2>5. DiscardInv
    BY <2>2 DEF Init, DiscardInv, NoOrphanAnswers, Queued, Pending
  <2>6. LockInv
    BY DEF Init, LockInv, Idle
  <2>7. KeptWhileReferenced /\ FreedUntouched
    BY DEF Init, KeptWhileReferenced, FreedUntouched
  <2>8. ReportInv
    BY DEF Init, ReportInv, ReportsJustified
  <2> QED
    BY <2>1, <2>3, <2>4, <2>5, <2>6, <2>7, <2>8 DEF IInv
<1>2. IInv /\ [Next]_vars => IInv'
  BY TypeStep, PathStep, PlaceStep, DiscardStep, LockStep, FreedStep, KeptStep,
     ReportStep
     DEF IInv
<1> QED
  BY <1>1, <1>2, PTL DEF Spec

\* No response is handed to Python twice, by whatever methods in whatever order.
THEOREM ResponsesHandedOnce == Spec => []HandedOnce
<1>1. IInv => HandedOnce
  BY DEF IInv, PlaceInv
<1> QED
  BY <1>1, Inductive, PTL

\* Keeping the Cookie is enough to keep the response that was not yet handed.
THEOREM ResponsesKept == Spec => []KeptWhileReferenced
<1>1. IInv => KeptWhileReferenced
  BY DEF IInv
<1> QED
  BY <1>1, Inductive, PTL

\* A deallocated Cookie leaves no answer in libxcb, early or late.
THEOREM NothingOrphaned == Spec => []NoOrphanAnswers
<1>1. IInv => NoOrphanAnswers
  BY DEF IInv, DiscardInv
<1> QED
  BY <1>1, Inductive, PTL

\* Nobody is inside a blocking call when the connection is freed.
THEOREM FreedWhenUnused == Spec => []NobodyInFreedConnection
<1>1. IInv => NobodyInFreedConnection
  BY DEF IInv, LockInv, NobodyInFreedConnection
<1> QED
  BY <1>1, Inductive, PTL

\* Nothing is done to a freed connection, by Cookies deallocated after it either.
THEOREM FreedLeftAlone == Spec => []FreedUntouched
<1>1. IInv => FreedUntouched
  BY DEF IInv
<1> QED
  BY <1>1, Inductive, PTL

\* Nobody blocks, with the lock, on a request that was never written.
THEOREM WaitsForWritten == Spec => []NeverWaitsForUnsent
<1>1. IInv => NeverWaitsForUnsent
  BY DEF IInv, LockInv, NeverWaitsForUnsent
<1> QED
  BY <1>1, Inductive, PTL

\* A first check() or reply() on a working connection tells the truth.
THEOREM ReportsTrue == Spec => []ReportsJustified
<1>1. IInv => ReportsJustified
  BY DEF IInv, ReportInv
<1> QED
  BY <1>1, Inductive, PTL
=============================================================================
