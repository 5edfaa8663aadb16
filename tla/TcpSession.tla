----------------------------- MODULE TcpSession -----------------------------
(***************************************************************************)
(* What one TCPTransport object promises over its lifetime, seen from the  *)
(* application: a session is opened, and then either closed in order and   *)
(* opened again, or lost.  A lost session is final: the object can only be *)
(* left behind, and whoever reconnects or destroys it takes the whole      *)
(* process down.  TcpTransport implements this specification, with         *)
(* receivers on it or without.  How long a phase lasts is not part of it:  *)
(* that is Receivers.CallsReturn.                                          *)
(***************************************************************************)

VARIABLE
  session  \* the phase the object is in, one of Phases

Phases ==
  { "closed",    \* no connection and no reader thread
    "up",        \* connected, the reader thread is in its loop
    "closing",   \* disconnect() is stopping the reader thread
    "lost",      \* the reader thread left its loop unasked
    "released",  \* the object was destroyed
    "aborted" }  \* the process died

SessionTypeOK == session \in Phases

Init == session = "closed"

Step(from, to) == session \in from /\ session' = to

Open    == Step({"closed"}, "up")
Close   == Step({"up"}, "closing")
Closed  == Step({"closing"}, "closed")
Lose    == Step({"up"}, "lost")
Release == Step({"closed"}, "released")
Abort   == Step({"up", "closing", "lost"}, "aborted")

Next == Open \/ Close \/ Closed \/ Lose \/ Release \/ Abort

Spec == Init /\ [][Next]_session
=============================================================================
