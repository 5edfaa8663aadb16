---------------------------- MODULE FrameScanner ----------------------------
(***************************************************************************)
(* What cutting frames out of a byte stream should come to: a scanner that *)
(* reads the stream from its beginning and knows nothing of the pieces in  *)
(* which it arrives.  It passes bytes that begin no frame, gives up one    *)
(* STX whose frame does not end in an ETX, and takes the others whole.  At *)
(* each place it can do one of the three, so that the frames it takes are  *)
(* a function of the stream.  Reassembly implements this specification.    *)
(***************************************************************************)
EXTENDS McbProtocol

VARIABLES
  stream,  \* all the bytes so far
  passed,  \* how many of them the scanner has passed
  taken    \* the frames it took, by their places in the stream

scanner == <<stream, passed, taken>>

(* A frame that begins at a place says in its second byte where it ends.   *)
LastOf(first) == first + stream[first + 1] + 3

Init == stream = <<>> /\ passed = 0 /\ taken = {}

Grow ==
  /\ Len(stream') >= Len(stream)
  /\ \A i \in 1 .. Len(stream) : stream'[i] = stream[i]
  /\ UNCHANGED <<passed, taken>>

Skip ==
  /\ \E next \in passed + 1 .. Len(stream) :
       (\A i \in passed + 1 .. next : stream[i] # STX) /\ passed' = next
  /\ UNCHANGED <<stream, taken>>

(* The next byte is an STX, and all of the frame it begins is there.       *)
WholeAt(first) ==
  /\ first < Len(stream) /\ stream[first] = STX
  /\ LastOf(first) <= Len(stream)

GiveUp ==
  /\ WholeAt(passed + 1) /\ stream[LastOf(passed + 1)] # ETX
  /\ passed' = passed + 1
  /\ UNCHANGED <<stream, taken>>

Take ==
  /\ WholeAt(passed + 1) /\ stream[LastOf(passed + 1)] = ETX
  /\ passed' = LastOf(passed + 1)
  /\ taken' = taken \cup {[first |-> passed + 1, last |-> passed']}
  /\ UNCHANGED stream

Next == Grow \/ Skip \/ GiveUp \/ Take

Spec == Init /\ [][Next]_scanner
=============================================================================
