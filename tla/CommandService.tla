--------------------------- MODULE CommandService ---------------------------
(***************************************************************************)
(* What sending commands over one connection promises the application:     *)
(* a call either fails or returns one of the board's replies, unchanged;   *)
(* replies are returned in the order of their requests and never twice;    *)
(* one that belongs to an earlier session, or that the board gave after    *)
(* none was asked for, is never returned; a call begun without a session   *)
(* fails.  It is not promised that a call returns the reply to its own     *)
(* request: the frames carry nothing that would tell.  A call that fails   *)
(* may cut one of the replies not yet returned: that one is lost, and what *)
(* is returned in its place, if anything, are frames hidden in its frame.  *)
(* Nor is anything promised of the replies of a session once another       *)
(* reader took some of its bytes.                                          *)
(***************************************************************************)
EXTENDS Integers

CONSTANTS
  Bodies,  \* what a reply may say
  Hidden   \* of each of them, what the frames inside its frame say

VARIABLES
  link,     \* "closed", "up" or "lost"
  calls,    \* how many requests were sent, in all sessions
  asked,    \* the requests of this session the board may still answer
  waiting,  \* whether a call waits for a reply
  replies,  \* the replies of this session, each with its request
  cut,      \* the reply that was cut, if any (a set of one, or empty)
  robbed,   \* whether bytes of this session went to another reader
  given     \* the last reply of this session returned to the application

Nothing == [to |-> 0, body |-> <<>>]

Init ==
  /\ link = "closed" /\ calls = 0 /\ asked = {} /\ ~waiting
  /\ replies = {} /\ cut = {} /\ robbed = FALSE /\ given = Nothing

Open ==
  /\ link = "closed" /\ link' = "up" /\ asked' = {} /\ replies' = {}
  /\ cut' = {} /\ robbed' = FALSE /\ given' = Nothing /\ UNCHANGED <<calls, waiting>>

Close ==
  /\ link = "up" /\ ~waiting /\ link' = "closed" /\ asked' = {}
  /\ UNCHANGED <<calls, waiting, replies, cut, robbed, given>>

Lose ==
  /\ link = "up" /\ link' = "lost"
  /\ UNCHANGED <<calls, asked, waiting, replies, cut, robbed, given>>

Ask ==
  /\ link = "up" /\ ~waiting /\ waiting' = TRUE
  /\ calls' = calls + 1 /\ asked' = asked \cup {calls + 1}
  /\ UNCHANGED <<link, replies, cut, robbed, given>>

(* The board replies to its requests in order; it may leave some out.      *)
Reply ==
  /\ \E n \in asked : \E b \in Bodies :
       /\ asked' = {m \in asked : m > n}
       /\ replies' = replies \cup {[to |-> n, body |-> b]}
  /\ UNCHANGED <<link, calls, waiting, cut, robbed, given>>

Give ==
  /\ waiting /\ waiting' = FALSE
  /\ \/ \E r \in replies \ cut : r.to > given.to /\ given' = r
     \/ \E r \in cut : r.to >= given.to /\ \E b \in Hidden[r.body] :
          given' = [to |-> r.to, body |-> b]
     \/ robbed
  /\ UNCHANGED <<link, calls, asked, replies, cut, robbed>>

Rob ==
  /\ link = "up" /\ robbed' = TRUE
  /\ UNCHANGED <<link, calls, asked, waiting, replies, cut, given>>

Fail ==
  /\ waiting /\ waiting' = FALSE
  /\ \/ cut' = {}
     \/ \E r \in replies : (r.to > given.to \/ r \in cut \/ robbed) /\ cut' = {r}
  /\ UNCHANGED <<link, calls, asked, replies, robbed, given>>

Next == Open \/ Close \/ Lose \/ Ask \/ Reply \/ Rob \/ Give \/ Fail

vars == <<link, calls, asked, waiting, replies, cut, robbed, given>>

Spec == Init /\ [][Next]_vars
=============================================================================
