--------------------------- MODULE ResponseLedger ---------------------------
(***************************************************************************)
(* What xpyb promises about the response (reply or protocol error) of each *)
(* request a program makes through a Connection:                           *)
(*                                                                         *)
(*   - it is handed to Python at most once;                                *)
(*   - it is thrown away only because the request's Cookie was deallocated *)
(*     or because the Connection was disconnected: holding on to the       *)
(*     Cookie is enough to keep the response;                              *)
(*   - an error that went to the event queue outlives its Cookie.          *)
(*                                                                         *)
(* CookieProtocol implements this specification.                           *)
(***************************************************************************)

CONSTANT Cookies     \* one Cookie object per request

VARIABLES
  fate,              \* what became of the response of each request
  alive,             \* the Cookie objects that have not been deallocated
  open               \* TRUE until disconnect()

vars == << fate, alive, open >>

Fates == { "unsent",     \* no request was made
           "waiting",    \* the server has not answered
           "held",       \* kept for the Cookie
           "queued",     \* an error in the event queue
           "silent",     \* the request succeeded and has no reply
           "delivered",  \* handed to Python
           "dropped" }   \* thrown away

TypeOK ==
  /\ fate \in [Cookies -> Fates]
  /\ alive \subseteq Cookies
  /\ open \in BOOLEAN

Init ==
  /\ fate = [c \in Cookies |-> "unsent"]
  /\ alive = Cookies
  /\ open = TRUE

Send(c) ==
  /\ open
  /\ c \in alive
  /\ fate[c] = "unsent"
  /\ fate' = [fate EXCEPT ![c] = "waiting"]
  /\ UNCHANGED << alive, open >>

\* The server's answer is read: only a dead Cookie's response is dropped.
Settle(c) ==
  /\ open
  /\ fate[c] = "waiting"
  /\ \E f \in { "held", "queued", "silent", "dropped" } :
       /\ f \in { "held", "queued" } => c \in alive
       /\ f = "dropped" => c \notin alive
       /\ fate' = [fate EXCEPT ![c] = f]
  /\ UNCHANGED << alive, open >>

Deliver(c) ==
  /\ open
  /\ fate[c] \in { "held", "queued" }
  /\ fate' = [fate EXCEPT ![c] = "delivered"]
  /\ UNCHANGED << alive, open >>

\* The Cookie is deallocated, and the response kept for it goes with it; on
\* a connection in error the response may stay where it is.
Release(c) ==
  /\ c \in alive
  /\ alive' = alive \ {c}
  /\ \/ /\ fate[c] = "held"
        /\ fate' = [fate EXCEPT ![c] = "dropped"]
     \/ fate' = fate
  /\ UNCHANGED open

Close ==
  /\ open
  /\ open' = FALSE
  /\ fate' = [c \in Cookies |->
                IF fate[c] \in { "waiting", "held", "queued" }
                THEN "dropped" ELSE fate[c]]
  /\ UNCHANGED alive

Next ==
  \/ \E c \in Cookies : Send(c) \/ Settle(c) \/ Deliver(c) \/ Release(c)
  \/ Close

Spec == Init /\ [][Next]_vars
=============================================================================
