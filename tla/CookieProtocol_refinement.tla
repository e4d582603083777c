--------------------- MODULE CookieProtocol_refinement ---------------------
(***************************************************************************)
(* Proof that CookieProtocol implements ResponseLedger, for any threads,   *)
(* cookies and MaxEvents.  Each step of the protocol is a step of the      *)
(* ledger or leaves all of it alone.                                       *)
(***************************************************************************)
EXTENDS CookieProtocol_proofs

\* The variables of the ledger, as the protocol implements them.
FateOf == [c \in Cookies |-> Fate(c)]
Alive  == { c \in Cookies : cookie[c] # "dead" }

-----------------------------------------------------------------------------
(* What an answer kept for a cookie is the answer to.                      *)

\* A request without a reply has an answer only if the server rejected it.
AnswerInv ==
  \A c \in Cookies : answer[c] # "none" => c \in failed \/ ~request[c].void

\* Every step keeps it: only Answer stores an answer, and SendRequest ties a
\* request to a fresh cookie, for which nothing is stored.
LEMMA AnswerStep ==
  ASSUME IInv, AnswerInv, [Next]_vars
  PROVE  AnswerInv'
<1> USE DEF AnswerInv
<1>0. TypeOK /\ PlaceInv
  BY DEF IInv
<1>1. CASE /\ request' = request /\ failed \subseteq failed'
           /\ \A d \in Cookies : answer'[d] = answer[d] \/ answer'[d] = "none"
  BY <1>1
<1>2. ASSUME NEW t \in Threads, NEW c \in Cookies, NEW r \in Requests,
             SendRequest(t, c, r)
      PROVE  AnswerInv'
  <2>1. answer[c] = "none" /\ \A d \in Cookies : d # c => request'[d] = request[d]
    BY <1>0, <1>2 DEF SendRequest, PlaceInv, TypeOK
  <2> QED
    BY <1>2, <2>1 DEF SendRequest, histvars
<1>3. ASSUME Answer PROVE AnswerInv'
  <2> DEFINE c == Head(wire)
  <2>1. c \in Cookies
    BY <1>0, <1>3, HeadTailProperties DEF Answer, TypeOK
  <2>2. PICK what \in { "reply", "error" } :
          /\ Store(c, what)
          /\ failed' = IF what = "error" THEN failed \union {c} ELSE failed
    BY <1>3 DEF Answer
  <2>3. request' = request
    BY <1>3 DEF Answer, pyvars
  <2>4. \A d \in Cookies : d # c => answer'[d] = answer[d]
    BY <1>0, <2>1, <2>2 DEF Store, TypeOK
  <2>5. answer'[c] # "none" => \/ answer[c] # "none"
                               \/ what = "error"
                               \/ ~request[c].void
    BY <1>0, <2>1, <2>2 DEF Store, TypeOK
  <2> QED
    BY <2>1, <2>2, <2>3, <2>4, <2>5
<1>4. ASSUME NEW t \in Threads, NEW c \in Cookies, EndReply(t, c) \/ EndCheck(t, c)
      PROVE  AnswerInv'
  <2>1. \A d \in Cookies : answer'[d] = answer[d] \/ answer'[d] = "none"
    BY <1>0, <1>4 DEF EndReply, EndCheck, TakeAnswer, Report, TypeOK
  <2> QED
    BY <1>1, <1>4, <2>1 DEF EndReply, EndCheck
<1>5. ASSUME NEW t \in Threads, NEW c \in Cookies, DropCookie(t, c)
      PROVE  AnswerInv'
  <2>1. \A d \in Cookies : answer'[d] = answer[d] \/ answer'[d] = "none"
    BY <1>0, <1>5 DEF DropCookie, HasConnection, DiscardReply, TypeOK
  <2> QED
    BY <1>1, <1>5, <2>1 DEF DropCookie, histvars
<1>6. ASSUME NEW t \in Threads, Disconnect(t) PROVE AnswerInv'
  BY <1>1, <1>6 DEF Disconnect, histvars
<1>7. CASE UNCHANGED << request, answer, failed >>
  BY <1>1, <1>7
<1>8. ASSUME Break PROVE AnswerInv'
  BY <1>1, <1>8 DEF Break, pyvars
<1> QED
  BY <1>2, <1>3, <1>4, <1>5, <1>6, <1>7, <1>8
     DEF Next, Methods, BeginReply, BeginCheck, BeginWaitForEvent,
         EndWaitForEvent, PollForEvent, Flush, SendEvent,
         xcbvars, pyvars, histvars, vars

\* An answer that is kept is a reply of a request that has one, or an error of
\* a request the server rejected.
LEMMA AnswersFit == Spec => []AnswerInv
<1>1. Init => AnswerInv
  BY DEF Init, AnswerInv
<1>2. IInv /\ AnswerInv /\ [Next]_vars => AnswerInv'
  BY AnswerStep
<1> QED
  BY <1>1, <1>2, Inductive, PTL DEF Spec

-----------------------------------------------------------------------------
(* What a step does to the variables of the ledger.                        *)

\* If nothing the fate of a response is made of changes, the fate does not.
LEMMA FateSame ==
  ASSUME NEW c \in Cookies,
         UNCHANGED << cookie[c], handed[c], answer[c], request[c] >>,
         Queued(c)' <=> Queued(c), Pending(c)' <=> Pending(c),
         c \in done' <=> c \in done, c \in failed' <=> c \in failed
  PROVE  Fate(c)' = Fate(c)
BY DEF Fate, Pending

\* A step that changes no fate, no life and not the connection is a stutter.
LEMMA Stutters ==
  ASSUME \A c \in Cookies : Fate(c)' = Fate(c),
         \A c \in Cookies : cookie'[c] = "dead" <=> cookie[c] = "dead",
         conn' = conn
  PROVE  UNCHANGED Ledger!vars
BY DEF Ledger!vars

\* A step that changes one fate is one of the actions of the ledger, provided
\* that action allows the change.
LEMMA OneMoves ==
  ASSUME NEW c \in Cookies, NEW f, Fate(c)' = f,
         \A d \in Cookies : d # c => Fate(d)' = Fate(d)
  PROVE  FateOf' = [FateOf EXCEPT ![c] = f]
BY DEF FateOf

\* Sending a request: it waits for the server.
LEMMA SendMaps ==
  ASSUME IInv, NEW t \in Threads, NEW c \in Cookies, NEW r \in Requests,
         SendRequest(t, c, r)
  PROVE  Ledger!Send(c)
<1>0. TypeOK /\ PathInv /\ PlaceInv
  BY DEF IInv
<1>1. /\ conn = "open" /\ conn' = conn
      /\ cookie[c] = "new" /\ cookie' = [cookie EXCEPT ![c] = "live"]
      /\ request' = [request EXCEPT ![c] = r]
      /\ UNCHANGED << handed, answer, events, done, failed >>
  BY <1>0 DEF SendRequest, Invalid, histvars, TypeOK
<1>2. \A d \in Cookies : /\ Pending(d)' => Pending(d) \/ d = c
                         /\ Pending(d) \/ d = c => Pending(d)'
  BY <1>0, SendEffect
<1>3. \A d \in Cookies : d # c => /\ cookie'[d] = cookie[d]
                                  /\ request'[d] = request[d]
  BY <1>0, <1>1 DEF TypeOK
<1>4. cookie'[c] = "live"
  BY <1>0, <1>1 DEF TypeOK
<1>5. \A d \in Cookies : d # c => Fate(d)' = Fate(d)
  BY <1>1, <1>2, <1>3 DEF Fate, Pending, Queued
<1>6. Fate(c)' = "waiting"
  <2>1. answer[c] = "none" /\ ~Queued(c) /\ ~(handed[c] > 0)
    BY <1>0, <1>1 DEF PlaceInv
  <2> QED
    BY <1>1, <1>2, <1>4, <2>1 DEF Fate, Pending, Queued
<1>7. FateOf' = [FateOf EXCEPT ![c] = "waiting"]
  BY <1>5, <1>6, OneMoves
<1>8. FateOf[c] = "unsent"
  BY <1>1 DEF FateOf, Fate
<1>9. Alive' = Alive /\ c \in Alive
  BY <1>1, <1>3, <1>4 DEF Alive
<1> QED
  BY <1>1, <1>7, <1>8, <1>9 DEF Ledger!Send, FateOf, Alive

\* Reading an answer: it is kept, queued, or dropped if its Cookie is dead.
LEMMA AnswerMaps ==
  ASSUME IInv, Answer
  PROVE  \E c \in Cookies : Ledger!Settle(c)
<1>0. TypeOK /\ PathInv /\ PlaceInv /\ DiscardInv /\ ReportInv
  BY DEF IInv
<1>c. PICK c \in Cookies : c = Head(wire)
  BY <1>0, HeadTailProperties DEF Answer, TypeOK
<1>1. /\ conn = "open" /\ ~xerr /\ wire # << >> /\ wire \in Seq(Cookies)
      /\ wire' = Tail(wire) /\ done' = done \union {c}
      /\ UNCHANGED << out, conn, cookie, request, handed >>
  BY <1>0, <1>c DEF Answer, pyvars, TypeOK
<1>2. /\ Pending(c) /\ ~Pending(c)'
      /\ \A d \in Cookies : d # c => (Pending(d)' <=> Pending(d))
  <2>2. InSeq(c, wire) /\ ~InSeq(c, Tail(wire))
    BY <1>0, <1>1, <1>c, InSeqTail, DistinctTail DEF PathInv
  <2>3. \A d \in Cookies : d # c => (InSeq(d, Tail(wire)) <=> InSeq(d, wire))
    BY <1>1, <1>c, InSeqTail
  <2>4. ~InSeq(c, out)
    BY <1>0, <2>2 DEF PathInv
  <2> QED
    BY <1>1, <2>2, <2>3, <2>4 DEF Pending
<1>3. PICK what \in { "reply", "error" } :
        /\ Store(c, what)
        /\ failed' = IF what = "error" THEN failed \union {c} ELSE failed
  BY <1>c DEF Answer
<1>4. /\ c \notin done /\ c \notin failed /\ cookie[c] # "new"
      /\ answer[c] = "none" /\ ~Queued(c) /\ ~(handed[c] > 0)
      /\ c \notin discard => cookie[c] # "dead"
      /\ c \in discard => cookie[c] = "dead"
  BY <1>0, <1>1, <1>2 DEF PathInv, PlaceInv, DiscardInv, ReportInv
<1>5. FateOf[c] = "waiting"
  BY <1>2, <1>4 DEF FateOf, Fate, Pending
<1>6. \A d \in Cookies : d # c => /\ answer'[d] = answer[d]
                                  /\ Queued(d)' <=> Queued(d)
                                  /\ d \in failed' <=> d \in failed
  <2>1. CASE c \in discard \/ (what = "reply" /\ request[c].void)
    BY <1>3, <2>1 DEF Store, Queued
  <2>2. CASE /\ ~(c \in discard \/ (what = "reply" /\ request[c].void))
             /\ what = "error" /\ ~request[c].checked
    <3>1. events' = Append(events, Error(c)) /\ answer' = answer
      BY <1>3, <2>2 DEF Store
    <3>2. events \in Seq(Items) /\ Error(c) \in Items
      BY <1>0, <1>2 DEF TypeOK, Items
    <3>3. \A d \in Cookies : d # c => (Queued(d)' <=> Queued(d))
      BY <3>1, <3>2, InSeqAppend, ErrorFacts DEF Queued
    <3> QED
      BY <1>3, <3>1, <3>3
  <2>3. CASE /\ ~(c \in discard \/ (what = "reply" /\ request[c].void))
             /\ ~(what = "error" /\ ~request[c].checked)
    <3>1. answer' = [answer EXCEPT ![c] = what] /\ events' = events
      BY <1>3, <2>3 DEF Store
    <3> QED
      BY <1>0, <1>3, <3>1 DEF Queued, TypeOK
  <2> QED
    BY <2>1, <2>2, <2>3
<1>7. \A d \in Cookies : d # c => Fate(d)' = Fate(d)
  BY <1>1, <1>2, <1>6, FateSame
<1>8. /\ cookie[c] = "dead" => Fate(c)' \in { "silent", "dropped" }
      /\ cookie[c] # "dead" => Fate(c)' \in { "held", "queued", "silent" }
  <2>1. CASE c \in discard \/ (what = "reply" /\ request[c].void)
    <3>1. answer' = answer /\ (Queued(c)' <=> Queued(c))
      BY <1>3, <2>1 DEF Store, Queued
    <3>2. Fate(c)' = IF c \notin failed' /\ request[c].void THEN "silent" ELSE "dropped"
      BY <1>1, <1>2, <1>4, <3>1 DEF Fate, Pending
    <3> QED
      BY <1>3, <1>4, <2>1, <3>2
  <2>2. CASE /\ ~(c \in discard \/ (what = "reply" /\ request[c].void))
             /\ what = "error" /\ ~request[c].checked
    <3>1. events' = Append(events, Error(c)) /\ answer' = answer
      BY <1>3, <2>2 DEF Store
    <3>2. events \in Seq(Items) /\ Error(c) \in Items
      BY <1>0, <1>2 DEF TypeOK, Items
    <3>3. Queued(c)'
      BY <3>1, <3>2, InSeqAppend DEF Queued
    <3>4. Fate(c)' = "queued"
      BY <1>1, <1>4, <3>1, <3>3 DEF Fate
    <3> QED
      BY <1>4, <2>2, <3>4
  <2>3. CASE /\ ~(c \in discard \/ (what = "reply" /\ request[c].void))
             /\ ~(what = "error" /\ ~request[c].checked)
    <3>1. answer'[c] = what
      BY <1>0, <1>2, <1>3, <2>3 DEF Store, TypeOK
    <3>2. Fate(c)' = "held"
      BY <1>1, <1>4, <3>1 DEF Fate
    <3> QED
      BY <1>4, <2>3, <3>2
  <2> QED
    BY <2>1, <2>2, <2>3
<1>9. FateOf' = [FateOf EXCEPT ![c] = Fate(c)']
  BY <1>2, <1>7, OneMoves
<1>10. Alive' = Alive /\ (c \in Alive <=> cookie[c] # "dead")
  BY <1>1, <1>2 DEF Alive
<1>11. Ledger!Settle(c)
  <2>1. /\ Fate(c)' \in { "held", "queued", "silent", "dropped" }
        /\ Fate(c)' \in { "held", "queued" } => c \in Alive
        /\ Fate(c)' = "dropped" => c \notin Alive
    BY <1>8, <1>10
  <2> QED
    BY <1>1, <1>5, <1>9, <1>10, <2>1 DEF Ledger!Settle, FateOf, Alive
<1> QED
  BY <1>2, <1>11

\* reply() and check() return: the answer is delivered, or nothing happens.
LEMMA ReturnMaps ==
  ASSUME IInv, NEW t \in Threads, NEW c \in Cookies,
         EndReply(t, c) \/ EndCheck(t, c)
  PROVE  Ledger!Deliver(c) \/ UNCHANGED Ledger!vars
<1>0. TypeOK /\ PlaceInv /\ LockInv
  BY DEF IInv
<1>1. /\ conn = "open" /\ cookie[c] = "live"
      /\ UNCHANGED << conn, out, wire, done, events, cookie, request, failed >>
  <2>1. /\ call[t].op \in { "reply", "check" } /\ call[t].of = c
        /\ call[t] # Idle
    BY DEF EndReply, EndCheck, Idle
  <2> QED
    BY <1>0, <2>1 DEF EndReply, EndCheck, LockInv
<1>2. CASE UNCHANGED << answer, handed >>
  <2>1. \A d \in Cookies : Fate(d)' = Fate(d)
    BY <1>1, <1>2, FateSame DEF Queued, Pending
  <2> QED
    BY <1>1, <2>1, Stutters
<1>3. ASSUME NEW built \in BOOLEAN, answer[c] # "none", TakeAnswer(c, built)
      PROVE  Ledger!Deliver(c)
  <2>1. /\ handed'[c] = handed[c] + 1
        /\ \A d \in Cookies : d # c => UNCHANGED << handed[d], answer[d] >>
    BY <1>0, <1>3 DEF TakeAnswer, TypeOK
  <2>2. handed[c] \in Nat /\ ~(handed[c] > 0)
    <3>1. handed[c] \in Nat /\ Copies(c) <= 1
      BY <1>0 DEF PlaceInv, HandedOnce, TypeOK
    <3> QED
      BY <1>3, <3>1 DEF Copies
  <2>3. FateOf[c] = "held"
    BY <1>1, <1>3, <2>2 DEF FateOf, Fate
  <2>4. Fate(c)' = "delivered"
    BY <1>1, <2>1, <2>2 DEF Fate
  <2>5. \A d \in Cookies : d # c => Fate(d)' = Fate(d)
    BY <1>1, <2>1, FateSame DEF Queued, Pending
  <2>6. FateOf' = [FateOf EXCEPT ![c] = "delivered"]
    BY <2>4, <2>5, OneMoves
  <2> QED
    BY <1>1, <2>3, <2>6 DEF Ledger!Deliver, FateOf
<1> QED
  BY <1>2, <1>3 DEF EndReply, EndCheck, Report

\* Taking the head of the event queue: an error is delivered, an event is not
\* the response of any request.
LEMMA TakeEventMaps ==
  ASSUME IInv, TakeEvent,
         UNCHANGED << conn, out, wire, answer, done, cookie, request, failed >>
  PROVE  (\E c \in Cookies : Ledger!Deliver(c)) \/ UNCHANGED Ledger!vars
<1>0. TypeOK /\ PlaceInv /\ DiscardInv
  BY DEF IInv
<1>1. /\ events # << >> /\ events' = Tail(events)
      /\ IF Head(events).type = "error"
         THEN handed' = [handed EXCEPT ![Head(events).of] = @ + 1]
         ELSE handed' = handed
  BY DEF TakeEvent
<1>2. /\ Head(events) \in Items
      /\ \A c \in Cookies : /\ Queued(c)' => Queued(c)
                            /\ Queued(c) => Queued(c)' \/ Head(events) = Error(c)
                            /\ Head(events) = Error(c) => Queued(c) /\ ~Queued(c)'
  BY <1>0, <1>1, QueueTail DEF PlaceInv
<1>3. CASE Head(events).type # "error"
  <2>1. \A d \in Cookies : Queued(d)' <=> Queued(d)
    BY <1>2, <1>3, ErrorFacts
  <2>2. \A d \in Cookies : Fate(d)' = Fate(d)
    BY <1>1, <1>3, <2>1, FateSame DEF Pending
  <2> QED
    BY <2>2, Stutters
<1>4. CASE Head(events).type = "error"
  <2>1. PICK c \in Cookies : Head(events) = Error(c)
    BY <1>2, <1>4, ErrorFacts
  <2>2. /\ Queued(c) /\ ~Queued(c)'
        /\ handed' = [handed EXCEPT ![c] = @ + 1]
        /\ \A d \in Cookies : d # c => (Queued(d)' <=> Queued(d))
    BY <1>1, <1>2, <1>4, <2>1, ErrorFacts
  <2>3. /\ handed[c] \in Nat /\ ~(handed[c] > 0)
        /\ answer[c] = "none" /\ cookie[c] # "new"
    BY <1>0, <2>2 DEF PlaceInv, HandedOnce, Copies, TypeOK
  <2>4. /\ handed'[c] = handed[c] + 1
        /\ \A d \in Cookies : d # c => handed'[d] = handed[d]
    BY <1>0, <2>2 DEF TypeOK
  <2>5. FateOf[c] = "queued"
    BY <2>2, <2>3 DEF FateOf, Fate
  <2>6. Fate(c)' = "delivered"
    BY <2>3, <2>4 DEF Fate
  <2>7. \A d \in Cookies : d # c => Fate(d)' = Fate(d)
    BY <2>2, <2>4, FateSame DEF Pending
  <2>8. FateOf' = [FateOf EXCEPT ![c] = "delivered"]
    BY <2>6, <2>7, OneMoves
  <2>9. conn = "open"
    BY <1>0, <2>2 DEF DiscardInv
  <2> QED
    BY <2>5, <2>8, <2>9 DEF Ledger!Deliver, FateOf
<1> QED
  BY <1>3, <1>4

\* Deallocating a Cookie: what libxcb kept for it goes with it.
LEMMA DropMaps ==
  ASSUME IInv, AnswerInv, NEW t \in Threads, NEW c \in Cookies, DropCookie(t, c)
  PROVE  Ledger!Release(c)
<1>0. TypeOK /\ PathInv /\ PlaceInv
  BY DEF IInv
<1>1. /\ cookie[c] = "live" /\ cookie'[c] = "dead"
      /\ \A d \in Cookies : d # c => UNCHANGED << cookie[d], answer[d] >>
      /\ answer'[c] \in { answer[c], "none" }
      /\ UNCHANGED << conn, out, wire, done, events, request, handed, failed >>
  BY <1>0 DEF DropCookie, HasConnection, DiscardReply, histvars, TypeOK
<1>2. \A d \in Cookies : d # c => Fate(d)' = Fate(d)
  BY <1>1, FateSame DEF Queued, Pending
<1>3. Alive' = Alive \ {c} /\ c \in Alive
  BY <1>1 DEF Alive
<1>4. CASE Fate(c)' = Fate(c)
  <2>1. FateOf' = FateOf
    BY <1>2, <1>4 DEF FateOf
  <2> QED
    BY <1>1, <1>3, <2>1 DEF Ledger!Release, FateOf, Alive
<1>5. CASE Fate(c)' # Fate(c)
  <2>1. ~(handed[c] > 0) /\ answer[c] # "none" /\ answer'[c] = "none"
    BY <1>1, <1>5 DEF Fate, Queued, Pending
  <2>2. c \in done /\ ~Queued(c) /\ ~Pending(c)
    BY <1>0, <2>1 DEF PathInv, PlaceInv, HandedOnce, Copies, TypeOK
  <2>3. c \in failed \/ ~request[c].void
    BY <2>1 DEF AnswerInv
  <2>4. FateOf[c] = "held" /\ Fate(c)' = "dropped"
    BY <1>1, <2>1, <2>2, <2>3 DEF FateOf, Fate, Queued, Pending
  <2>5. FateOf' = [FateOf EXCEPT ![c] = "dropped"]
    BY <1>2, <2>4, OneMoves
  <2> QED
    BY <1>1, <1>3, <2>4, <2>5 DEF Ledger!Release, FateOf, Alive
<1> QED
  BY <1>4, <1>5

\* disconnect(): whatever was on its way, kept or queued is dropped.
LEMMA DisconnectMaps ==
  ASSUME IInv, AnswerInv, NEW t \in Threads, Disconnect(t)
  PROVE  Ledger!Close
<1>0. TypeOK /\ PathInv /\ PlaceInv
  BY DEF IInv
<1>1. /\ conn = "open" /\ conn' = "null"
      /\ out' = << >> /\ wire' = << >> /\ events' = << >>
      /\ answer' = [d \in Cookies |-> "none"]
      /\ UNCHANGED << done, cookie, request, handed, failed >>
  BY DEF Disconnect, Disconnected, histvars
<1>2. \A d \in Cookies : ~Queued(d)' /\ ~Pending(d)' /\ answer'[d] = "none"
  BY <1>1, InSeqEmpty DEF Queued, Pending
<1>3. ASSUME NEW d \in Cookies
      PROVE  Fate(d)' = IF FateOf[d] \in { "waiting", "held", "queued" }
                        THEN "dropped" ELSE FateOf[d]
  <2>1. /\ Pending(d) => d \notin done
        /\ answer[d] # "none" => d \in failed \/ ~request[d].void
        /\ Queued(d) => d \in failed
    BY <1>0 DEF PathInv, PlaceInv, AnswerInv
  <2> QED
    BY <1>1, <1>2, <2>1 DEF FateOf, Fate, Pending, Queued
<1>4. FateOf' = [d \in Cookies |->
                   IF FateOf[d] \in { "waiting", "held", "queued" }
                   THEN "dropped" ELSE FateOf[d]]
  BY <1>3 DEF FateOf
<1>5. Alive' = Alive
  BY <1>1 DEF Alive
<1> QED
  BY <1>1, <1>4, <1>5 DEF Ledger!Close, FateOf, Alive

\* Writing requests to the server leaves all of them waiting.
LEMMA WriteMaps ==
  ASSUME IInv, Written,
         UNCHANGED << conn, answer, done, events, cookie, request, failed, handed >>
  PROVE  UNCHANGED Ledger!vars
<1>1. \A d \in Cookies : Pending(d)' <=> Pending(d)
  BY WrittenEffect DEF IInv, Pending
<1>2. \A d \in Cookies : Fate(d)' = Fate(d)
  BY <1>1, FateSame DEF Queued
<1> QED
  BY <1>2, Stutters

\* An event that arrives is no response.
LEMMA EventMaps ==
  ASSUME IInv, SendEvent
  PROVE  UNCHANGED Ledger!vars
<1>0. events \in Seq(Items) /\ Event \in Items
  BY DEF IInv, TypeOK, Items
<1>1. /\ events' = Append(events, Event)
      /\ UNCHANGED << conn, out, wire, answer, done, cookie, request, failed, handed >>
  BY DEF SendEvent, pyvars, histvars
<1>2. \A d \in Cookies : Queued(d)' <=> Queued(d)
  BY <1>0, <1>1, InSeqAppend, ErrorFacts DEF Queued
<1>3. \A d \in Cookies : Fate(d)' = Fate(d)
  BY <1>1, <1>2, FateSame DEF Pending
<1> QED
  BY <1>1, <1>3, Stutters

\* A connection that breaks leaves every response where it is: the requests the
\* server rejected unheard are still on their way.
LEMMA BreakMaps ==
  ASSUME IInv, Break
  PROVE  UNCHANGED Ledger!vars
<1>1. /\ UNCHANGED << conn, out, wire, answer, done, events, cookie, request, handed >>
      /\ \A d \in Cookies : (d \in failed' <=> d \in failed) \/ InSeq(d, wire)
  BY DEF Break, pyvars
<1>2. \A d \in Cookies : Fate(d)' = Fate(d)
  BY <1>1 DEF Fate, Queued
<1> QED
  BY <1>1, <1>2, Stutters

\* Every step of the protocol is a step of the ledger or leaves it alone.
LEMMA StepMaps ==
  ASSUME IInv, AnswerInv, [Next]_vars
  PROVE  [Ledger!Next]_(Ledger!vars)
<1>1. ASSUME UNCHANGED << conn, out, wire, answer, done, events, cookie,
                          request, failed, handed >>
      PROVE  UNCHANGED Ledger!vars
  <2>1. \A d \in Cookies : Fate(d)' = Fate(d)
    BY <1>1, FateSame DEF Queued, Pending
  <2> QED
    BY <1>1, <2>1, Stutters
<1>2. ASSUME NEW t \in Threads, NEW c \in Cookies, NEW r \in Requests,
             SendRequest(t, c, r)
      PROVE  Ledger!Next
  BY <1>2, SendMaps DEF Ledger!Next
<1>3. ASSUME NEW t \in Threads, NEW c \in Cookies,
             BeginReply(t, c) \/ BeginCheck(t, c)
      PROVE  UNCHANGED Ledger!vars
  BY <1>1, <1>3, WriteMaps DEF BeginReply, BeginCheck, FlushFor, histvars
<1>4. ASSUME NEW t \in Threads, NEW c \in Cookies, EndReply(t, c) \/ EndCheck(t, c)
      PROVE  [Ledger!Next]_(Ledger!vars)
  BY <1>4, ReturnMaps DEF Ledger!Next
<1>5. ASSUME NEW t \in Threads, NEW c \in Cookies, DropCookie(t, c)
      PROVE  Ledger!Next
  BY <1>5, DropMaps DEF Ledger!Next
<1>6. ASSUME NEW t \in Threads, EndWaitForEvent(t) \/ PollForEvent(t)
      PROVE  [Ledger!Next]_(Ledger!vars)
  <2>1. CASE TakeEvent
    BY <1>6, <2>1, TakeEventMaps DEF EndWaitForEvent, PollForEvent, Ledger!Next
  <2>2. CASE ~TakeEvent
    BY <1>1, <1>6, <2>2 DEF EndWaitForEvent, PollForEvent
  <2> QED
    BY <2>1, <2>2
<1>7. ASSUME NEW t \in Threads, BeginWaitForEvent(t) PROVE UNCHANGED Ledger!vars
  BY <1>1, <1>7 DEF BeginWaitForEvent, xcbvars, histvars
<1>8. ASSUME NEW t \in Threads, Flush(t) PROVE UNCHANGED Ledger!vars
  BY <1>8, WriteMaps DEF Flush, histvars
<1>9. ASSUME NEW t \in Threads, Disconnect(t) PROVE Ledger!Next
  BY <1>9, DisconnectMaps DEF Ledger!Next
<1>10. ASSUME Answer PROVE Ledger!Next
  BY <1>10, AnswerMaps DEF Ledger!Next
<1>11. CASE UNCHANGED vars
  BY <1>1, <1>11 DEF vars, xcbvars, pyvars, histvars
<1> QED
  BY <1>2, <1>3, <1>4, <1>5, <1>6, <1>7, <1>8, <1>9, <1>10, <1>11,
     EventMaps, BreakMaps DEF Next, Methods

\* The protocol implements the ledger of responses: a response is handed over
\* at most once, and is thrown away only because its Cookie was deallocated or
\* the connection was disconnected.
THEOREM ImplementsLedger == Spec => LedgerSpec
<1>1. Init => Ledger!Init
  <2> SUFFICES ASSUME Init PROVE Ledger!Init
    OBVIOUS
  <2>1. \A c \in Cookies : Fate(c) = "unsent" /\ cookie[c] # "dead"
    BY DEF Init, Fate
  <2>2. conn = "open"
    BY DEF Init
  <2> QED
    BY <2>1, <2>2 DEF Ledger!Init
<1>2. IInv /\ AnswerInv /\ [Next]_vars => [Ledger!Next]_(Ledger!vars)
  BY StepMaps
<1> QED
  BY <1>1, <1>2, Inductive, AnswersFit, PTL DEF Spec, LedgerSpec, Ledger!Spec
=============================================================================
