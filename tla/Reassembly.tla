----------------------------- MODULE Reassembly -----------------------------
(***************************************************************************)
(* The subscribed callback of the programs in tests/: it appends what one  *)
(* recv() returned to a static buffer and cuts frames from its front,      *)
(* looking for the next STX wherever no frame ends in an ETX.  The loop is *)
(* written out six times; five of the copies look at the size again once   *)
(* they have dropped what is before an STX, that of teste_esteira.cpp does *)
(* not.  The callback runs on one thread and shares the buffer with no     *)
(* other, so a step is one way through the body of the loop, or half of it *)
(* where bytes were dropped in front of an STX.                            *)
(***************************************************************************)
EXTENDS McbProtocol, FiniteSets

CONSTANTS
  Frames,      \* the frames the board sends
  NoiseBytes,  \* what else appears on the line
  MaxFrames,   \* bound: how many intact frames the board sends
  MaxNoise     \* bound: how many other bytes

ASSUME StreamAssumption ==
  /\ \A f \in Frames : f \in Seq(Byte) /\ Delimited(f) /\ SizeAgrees(f)
  /\ NoiseBytes \subseteq Byte
  /\ MaxFrames \in Nat /\ MaxNoise \in Nat

VARIABLES
  rechecks,  \* whether this copy looks at the size again (immutable)
  stream,    \* history: all the bytes the connection carried
  intact,    \* history: the frames the board sent, by their places in stream
  noise,     \* history: how many other bytes there are in it
  heard,     \* how many of the bytes recv() has returned
  buffer,    \* the static buffer
  pc,        \* "idle", or where the callback is: "loop" or "measure"
  passed,    \* history: how many bytes were erased from the buffer
  taken      \* history: the frames cut from it, by their places in stream

line == <<rechecks, stream, intact, noise>>
vars == <<line, heard, buffer, pc, passed, taken>>

Init ==
  /\ rechecks \in BOOLEAN
  /\ stream = <<>> /\ intact = {} /\ noise = 0 /\ heard = 0
  /\ buffer = <<>> /\ pc = "idle" /\ passed = 0 /\ taken = {}

Place(first, size) == [first |-> first, last |-> first + size - 1]

-----------------------------------------------------------------------------
(* The board and the line (external).                                      *)

SendFrame ==
  /\ Cardinality(intact) < MaxFrames
  /\ \E f \in Frames :
       /\ stream' = stream \o f
       /\ intact' = intact \cup {Place(Len(stream) + 1, Len(f))}
  /\ UNCHANGED <<rechecks, noise, heard, buffer, pc, passed, taken>>

SendNoise ==
  /\ noise < MaxNoise /\ noise' = noise + 1
  /\ \E b \in NoiseBytes : stream' = Append(stream, b)
  /\ UNCHANGED <<rechecks, intact, heard, buffer, pc, passed, taken>>

-----------------------------------------------------------------------------
(* The callback.                                                           *)

(* buffer.erase() of the first bytes.                                      *)
Erase(n) ==
  /\ buffer' = SubSeq(buffer, n + 1, Len(buffer))
  /\ passed' = passed + n

Chunk(n) == SubSeq(stream, heard + 1, heard + n)

(* Mutant: a buffer that is not static.                                    *)
Deliver_Fresh ==
  /\ pc = "idle" /\ pc' = "loop"
  /\ \E n \in 1 .. Len(stream) - heard : buffer' = Chunk(n) /\ heard' = heard + n
  /\ passed' = heard
  /\ UNCHANGED <<line, taken>>

(* Mutant: the same bytes are appended again.                              *)
Deliver_Twice ==
  /\ pc = "idle" /\ pc' = "loop"
  /\ \E n \in 1 .. Len(stream) - heard : buffer' = buffer \o Chunk(n)
  /\ UNCHANGED <<line, heard, passed, taken>>

(* One recv() returned some of the bytes that are there.                   *)
Deliver ==
  /\ pc = "idle" /\ pc' = "loop"
  /\ \E n \in 1 .. Len(stream) - heard :
       buffer' = buffer \o Chunk(n) /\ heard' = heard + n
  /\ UNCHANGED <<line, passed, taken>>

LoopEnds ==
  /\ pc = "loop" /\ Len(buffer) < MCB_MIN_FRAME_SIZE
  /\ pc' = "idle"
  /\ UNCHANGED <<line, heard, buffer, passed, taken>>

InLoop == pc = "loop" /\ Len(buffer) >= MCB_MIN_FRAME_SIZE

DropAll ==
  /\ InLoop /\ \A i \in 1 .. Len(buffer) : buffer[i] # STX
  /\ Erase(Len(buffer)) /\ pc' = "idle"
  /\ UNCHANGED <<line, heard, taken>>

SkipToStx ==
  /\ InLoop /\ buffer[1] # STX
  /\ \E next \in 2 .. Len(buffer) :
       /\ buffer[next] = STX /\ \A i \in 1 .. next - 1 : buffer[i] # STX
       /\ Erase(next - 1)
  /\ pc' = IF rechecks /\ Len(buffer') < MCB_MIN_FRAME_SIZE THEN "idle" ELSE "measure"
  /\ UNCHANGED <<line, heard, taken>>

(***************************************************************************)
(* The second half of the body, with the length byte: buffer[1] of the     *)
(* code.  Where the buffer holds one byte only, that is read beyond its    *)
(* end and may be anything.                                                *)
(***************************************************************************)
Measuring == pc = "measure" \/ (InLoop /\ buffer[1] = STX)

LengthsRead == IF Len(buffer) > 1 THEN {buffer[2]} ELSE Byte

AwaitRest ==
  /\ Measuring /\ \E length \in LengthsRead : Len(buffer) < length + 4
  /\ pc' = "idle"
  /\ UNCHANGED <<line, heard, buffer, passed, taken>>

(* Mutant: all of what the false STX announced is dropped.                 *)
DropByte_AsAFrame ==
  /\ Measuring
  /\ \E length \in LengthsRead :
       /\ Len(buffer) >= length + 4 /\ buffer[length + 4] # ETX
       /\ Erase(length + 4)
  /\ pc' = "loop"
  /\ UNCHANGED <<line, heard, taken>>

(* Mutant: the STX stays where it is.                                      *)
DropByte_Stuck ==
  /\ Measuring
  /\ \E length \in LengthsRead :
       Len(buffer) >= length + 4 /\ buffer[length + 4] # ETX
  /\ pc' = "loop"
  /\ UNCHANGED <<line, heard, buffer, passed, taken>>

DropByte ==
  /\ Measuring
  /\ \E length \in LengthsRead :
       Len(buffer) >= length + 4 /\ buffer[length + 4] # ETX
  /\ Erase(1) /\ pc' = "loop"
  /\ UNCHANGED <<line, heard, taken>>

(* Mutant: one frame for each callback.                                    *)
CutFrame_Once ==
  /\ Measuring
  /\ \E length \in LengthsRead :
       /\ Len(buffer) >= length + 4 /\ buffer[length + 4] = ETX
       /\ Erase(length + 4)
       /\ taken' = taken \cup {Place(passed + 1, length + 4)}
  /\ pc' = "idle"
  /\ UNCHANGED <<line, heard>>

(* Mutant: the ETX stays in the buffer.                                    *)
CutFrame_LeavesEtx ==
  /\ Measuring
  /\ \E length \in LengthsRead :
       /\ Len(buffer) >= length + 4 /\ buffer[length + 4] = ETX
       /\ Erase(length + 3)
       /\ taken' = taken \cup {Place(passed + 1, length + 4)}
  /\ pc' = "loop"
  /\ UNCHANGED <<line, heard>>

CutFrame ==
  /\ Measuring
  /\ \E length \in LengthsRead :
       /\ Len(buffer) >= length + 4 /\ buffer[length + 4] = ETX
       /\ Erase(length + 4)
       /\ taken' = taken \cup {Place(passed + 1, length + 4)}
  /\ pc' = "loop"
  /\ UNCHANGED <<line, heard>>

-----------------------------------------------------------------------------
Callback == LoopEnds \/ DropAll \/ SkipToStx \/ AwaitRest \/ DropByte \/ CutFrame

Next == SendFrame \/ SendNoise \/ Deliver \/ Callback

Spec == Init /\ [][Next]_vars

(* The thread that runs the callback is scheduled.                         *)
FairSpec == Spec /\ WF_vars(Callback)

-----------------------------------------------------------------------------
(* Type invariant.                                                         *)

TypeOK ==
  /\ rechecks \in BOOLEAN
  /\ stream \in Seq(Byte)
  /\ intact \subseteq [first : 1 .. Len(stream), last : 1 .. Len(stream)]
  /\ noise \in 0 .. MaxNoise
  /\ heard \in 0 .. Len(stream)
  /\ buffer \in Seq(Byte)
  /\ pc \in {"idle", "loop", "measure"}
  /\ passed \in 0 .. heard
  /\ taken \subseteq [first : 1 .. passed, last : 1 .. passed]

-----------------------------------------------------------------------------
(* Safety.                                                                 *)

(***************************************************************************)
(* What a callback leaves in the static buffer is less than a frame: fewer *)
(* bytes than the shortest has, or fewer than the one at its front says.   *)
(***************************************************************************)
KeepsLessThanAFrame ==
  pc = "idle" =>
    \/ Len(buffer) < MCB_MIN_FRAME_SIZE
    \/ buffer[1] = STX /\ Len(buffer) < buffer[2] + 4

(***************************************************************************)
(* Resynchronisation: whatever else is on the line, an intact frame whose  *)
(* bytes were all received has been handed on when the callback returns,   *)
(* unless a false STX before it began a frame that swallowed some of it,   *)
(* or one that is still waiting for its end.                               *)
(***************************************************************************)
Swallowed(frame) == \E f \in taken : f.first < frame.first /\ frame.first <= f.last

BehindFalseStart(frame) ==
  /\ passed + 1 < frame.first
  /\ stream[passed + 1] = STX /\ heard < passed + stream[passed + 2] + 4

IntactFramesArrive ==
  pc = "idle" =>
    \A frame \in intact :
      frame.last <= heard => frame \in taken \/ Swallowed(frame) \/ BehindFalseStart(frame)

(***************************************************************************)
(* Where there is nothing on the line but frames, the callback hands on    *)
(* those and no others, each as soon as its last byte was received, in     *)
(* whatever pieces recv() returned them.                                   *)
(***************************************************************************)
CleanStreamArrives ==
  (pc = "idle" /\ noise = 0) => taken = {frame \in intact : frame.last <= heard}

(***************************************************************************)
(* The pieces do not matter: the buffer cuts from the stream what a        *)
(* scanner of the whole stream would take.  (That holds of teste_esteira   *)
(* also, whatever it reads beyond the end of the buffer.)                  *)
(***************************************************************************)
Scanner == INSTANCE FrameScanner
ImplementsScanner == Scanner!Spec

-----------------------------------------------------------------------------
(***************************************************************************)
(* Liveness: the loop ends.  The callback runs on the reader thread of the *)
(* transport, and disconnect() waits for that.                             *)
(***************************************************************************)
CallbackReturns == pc # "idle" ~> pc = "idle"
=============================================================================
