------------------------------- MODULE McbLink -------------------------------
(***************************************************************************)
(* One frame on its way through the code: buildFrame() on one side, a line *)
(* that may damage one byte, receive() and parseFrame() on the other.      *)
(***************************************************************************)
EXTENDS McbProtocol

CONSTANTS
  Cmds,       \* the command bytes to send
  Payloads,   \* the payloads to send
  NoiseBytes  \* what a damaged byte may turn into

VARIABLES
  phase,    \* "idle", "sent", "read" or "parsed"
  cmd,      \* the command of the frame
  payload,  \* its payload
  wire,     \* the bytes on the line
  damaged,  \* whether the line changed one of them
  chunk,    \* what receive() returned
  parsed    \* what parseFrame() made of it

vars == <<phase, cmd, payload, wire, damaged, chunk, parsed>>

ASSUME LinkAssumption ==
  /\ Cmds \subseteq Byte
  /\ Payloads \subseteq Seq(Byte)
  /\ NoiseBytes \subseteq Byte

Init ==
  /\ phase = "idle" /\ cmd \in Cmds /\ payload \in Payloads
  /\ wire = <<>> /\ damaged = FALSE /\ chunk = <<>> /\ parsed = Rejected

Send ==
  /\ phase = "idle" /\ phase' = "sent"
  /\ wire' = buildFrame(cmd, payload)
  /\ UNCHANGED <<cmd, payload, damaged, chunk, parsed>>

(* The line (external) delivers one byte wrong.                            *)
Damage ==
  /\ phase = "sent" /\ ~damaged /\ damaged' = TRUE
  /\ \E i \in 1 .. Len(wire) : \E b \in NoiseBytes \ {wire[i]} :
       wire' = [wire EXCEPT ![i] = b]
  /\ UNCHANGED <<phase, cmd, payload, chunk, parsed>>

Read ==
  /\ phase = "sent" /\ phase' = "read"
  /\ chunk' = receive(wire)
  /\ UNCHANGED <<cmd, payload, wire, damaged, parsed>>

Parse ==
  /\ phase = "read" /\ phase' = "parsed"
  /\ parsed' = parseFrame(chunk)
  /\ UNCHANGED <<cmd, payload, wire, damaged, chunk>>

Done == phase = "parsed" /\ UNCHANGED vars

Next == Send \/ Damage \/ Read \/ Parse \/ Done

Spec == Init /\ [][Next]_vars

-----------------------------------------------------------------------------
(***************************************************************************)
(* parseFrame() never indexes outside the buffer it was given: whenever    *)
(* its first two checks let it go on, the command, the payload and the     *)
(* checksum it reads lie between the delimiters.                           *)
(***************************************************************************)
ReadsInsideBuffer(buffer) ==
  (Delimited(buffer) /\ SizeAgrees(buffer)) =>
    /\ 3 < Len(buffer)
    /\ buffer[2] + 3 \in 4 .. Len(buffer) - 1
    /\ buffer[2] >= 1

ParseStaysInside == phase \in {"read", "parsed"} => ReadsInsideBuffer(chunk)

(***************************************************************************)
(* A frame of a command parseFrame() knows that is damaged in one byte is  *)
(* not taken for another one: what is accepted is the command and the      *)
(* payload that were sent.  There is one exception, because nothing checks *)
(* the length byte and receive() stops at any ETX: the length may be       *)
(* damaged to what is left up to an ETX inside the frame, and the byte     *)
(* before that may be the checksum of what is left.  That is then a front  *)
(* of the payload.                                                         *)
(* (For the other commands the checksum is computed as if the command were *)
(* UNKNOWN, so that of a frame of theirs some damaged copies are accepted, *)
(* and the undamaged one is not.)                                          *)
(***************************************************************************)
ShortenedTo(n) ==
  /\ n < Len(payload) /\ wire[2] = n + 1 /\ wire[n + 5] = ETX
  /\ payload[n + 1] = calculateChecksum(cmd, SubSeq(payload, 1, n))

DamageIsDetected ==
  (phase = "parsed" /\ cmd \in Recognised /\ Len(payload) <= MaxPayload /\ parsed.ok) =>
    /\ parsed.command = cmd
    /\ \/ ~damaged /\ parsed.data = payload
       \/ /\ damaged
          /\ \E n \in 0 .. Len(payload) :
               ShortenedTo(n) /\ parsed.data = SubSeq(payload, 1, n)

(***************************************************************************)
(* An undamaged frame of a command parseFrame() knows arrives, as long as  *)
(* none of its inner bytes (size, command, payload, checksum) is an ETX    *)
(* and its payload fits the length byte.                                   *)
(***************************************************************************)
Transparent == \A i \in 2 .. Len(wire) - 1 : wire[i] # ETX

KnownFramesArrive ==
  (phase = "parsed" /\ ~damaged /\ cmd \in Recognised /\ Transparent
     /\ Len(payload) <= MaxPayload) => parsed.ok

-----------------------------------------------------------------------------
(***************************************************************************)
(* i_protocol.h:19, of parseFrame(): it "parses a received frame and       *)
(* returns the useful payload".  Of every frame buildFrame() builds for a  *)
(* command of the enumeration, that is its payload.                        *)
(***************************************************************************)
EveryCommandParses ==
  (phase = "sent" /\ ~damaged /\ cmd \in MCBCommand /\ Len(payload) <= MaxPayload)
    => parseFrame(wire).ok

(***************************************************************************)
(* i_transport.h:35, of receive(): it reads synchronously "to the end of   *)
(* the frame".  What it returns is the whole frame.                        *)
(***************************************************************************)
WholeFrameReceived == (phase = "read" /\ ~damaged) => chunk = wire
=============================================================================
