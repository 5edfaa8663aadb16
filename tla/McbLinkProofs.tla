---------------------------- MODULE McbLinkProofs ----------------------------
(***************************************************************************)
(* Proofs about a frame on a line that damages one byte, for every payload *)
(* and every command byte.  What is known of frames, of the checksum and   *)
(* of receive() is in McbProtocolProofs.                                   *)
(***************************************************************************)
EXTENDS McbLink, McbProtocolProofs

(***************************************************************************)
(* parseFrame() indexes only inside the buffer, whatever bytes it is given *)
(* (mcb_keyboard_protocol.cpp:58-97).                                      *)
(***************************************************************************)
THEOREM ParserReadsInside ==
  ASSUME NEW S, NEW buffer \in Seq(S), buffer[2] \in Byte
  PROVE  ReadsInsideBuffer(buffer)
<1> DEFINE n == Len(buffer)
           v == buffer[2]
<1>1. n \in Nat /\ v \in Byte
  OBVIOUS
<1>2. Delimited(buffer) => n >= 5
  BY DEF Delimited, MCB_MIN_FRAME_SIZE
<1>3. SizeAgrees(buffer) => n = v + 4
  BY DEF SizeAgrees
<1> HIDE DEF n, v
<1>4. (n >= 5 /\ n = v + 4) => 3 < n /\ v + 3 \in 4 .. n - 1 /\ v >= 1
  BY <1>1 DEF Byte
<1> QED
  BY <1>2, <1>3, <1>4 DEF ReadsInsideBuffer, n, v

(***************************************************************************)
(* What receive() returns is empty or a prefix of what was on the line.    *)
(***************************************************************************)
LEMMA ReceivedPrefix ==
  ASSUME NEW S, NEW s \in Seq(S), s[2] \in Byte
  PROVE  /\ receive(s) \in Seq(S)
         /\ Len(receive(s)) >= MCB_MIN_FRAME_SIZE => receive(s)[2] \in Byte
<1>1. CASE EtxAt(s) = {}
  <2>1. receive(s) = <<>>
    BY <1>1 DEF receive
  <2> QED
    BY <2>1 DEF MCB_MIN_FRAME_SIZE
<1>2. CASE EtxAt(s) # {}
  <2>1. PICK i \in EtxAt(s) : receive(s) = SubSeq(s, 1, i)
    BY <1>2, ReceiveShape
  <2>2. i \in 1 .. Len(s) /\ \A k \in 1 .. Len(s) : s[k] \in S
    BY <1>2 DEF EtxAt
  <2>3. /\ SubSeq(s, 1, i) \in Seq(S)
        /\ Len(SubSeq(s, 1, i)) = i
        /\ \A k \in 1 .. i : SubSeq(s, 1, i)[k] = s[k]
    BY <2>2, SubSeqProperties
  <2>4. i >= 5 => SubSeq(s, 1, i)[2] = s[2]
    BY <2>2, <2>3
  <2> QED
    BY <2>1, <2>3, <2>4 DEF MCB_MIN_FRAME_SIZE
<1> QED
  BY <1>1, <1>2

-----------------------------------------------------------------------------
(***************************************************************************)
(* The inductive invariant of McbLink: what is on the line is the frame,   *)
(* or the frame with one byte changed, and what was read and parsed is     *)
(* computed from it.                                                       *)
(***************************************************************************)
OnTheLine ==
  phase # "idle" =>
    /\ wire \in Seq(Byte) /\ Len(wire) = Len(payload) + 5
    /\ \E d \in 1 .. Len(wire) : \A i \in 1 .. Len(wire) :
         i # d => wire[i] = buildFrame(cmd, payload)[i]
    /\ ~damaged => wire = buildFrame(cmd, payload)
    /\ damaged => wire # buildFrame(cmd, payload)

ReadFromLine == phase \in {"read", "parsed"} => chunk = receive(wire)

ParsedFromChunk == phase = "parsed" => parsed = parseFrame(chunk)

LinkInv ==
  /\ phase \in {"idle", "sent", "read", "parsed"}
  /\ cmd \in Cmds /\ payload \in Payloads /\ (phase = "idle" => ~damaged)
  /\ OnTheLine /\ ReadFromLine /\ ParsedFromChunk

LEMMA LinkInit == Init => LinkInv
  BY DEF Init, LinkInv, OnTheLine, ReadFromLine, ParsedFromChunk

LEMMA LinkStep == LinkInv /\ [Next]_vars => LinkInv'
<1> SUFFICES ASSUME LinkInv, [Next]_vars  PROVE LinkInv'
  OBVIOUS
<1> USE DEF LinkInv
<1>1. CASE Send
  <2>1. cmd \in Byte /\ payload \in Seq(Byte) /\ Len(payload) \in Nat
    BY LinkAssumption
  <2>2. PICK f : f = buildFrame(cmd, payload)
    OBVIOUS
  <2>3. f \in Seq(Byte) /\ Len(f) = Len(payload) + 5
    BY <2>1, <2>2, FrameShape
  <2>4. 1 \in 1 .. Len(f)
    BY <2>1, <2>3
  <2>5. /\ wire' = f /\ phase = "idle" /\ phase' = "sent"
        /\ UNCHANGED <<cmd, payload, damaged, chunk, parsed>>
    BY <1>1, <2>2 DEF Send
  <2>6. OnTheLine'
    BY <2>2, <2>3, <2>4, <2>5 DEF OnTheLine
  <2> QED
    BY <2>5, <2>6 DEF ReadFromLine, ParsedFromChunk
<1>2. CASE Damage
  <2> DEFINE f == buildFrame(cmd, payload)
  <2>1. /\ wire \in Seq(Byte) /\ Len(wire) = Len(payload) + 5 /\ wire = f /\ damaged'
        /\ UNCHANGED <<phase, cmd, payload, chunk, parsed>> /\ phase = "sent"
    BY <1>2 DEF Damage, OnTheLine
  <2>2. PICK d \in 1 .. Len(wire) : \E b \in NoiseBytes \ {wire[d]} :
          wire' = [wire EXCEPT ![d] = b]
    BY <1>2 DEF Damage
  <2>3. PICK b \in NoiseBytes \ {wire[d]} : wire' = [wire EXCEPT ![d] = b]
    BY <2>2
  <2>4. b \in Byte /\ b # wire[d]
    BY <2>3, LinkAssumption
  <2> HIDE DEF f
  <2>5. wire' \in Seq(Byte) /\ Len(wire') = Len(wire)
    BY <2>1, <2>3, <2>4, ExceptSeq
  <2>6. wire'[d] = b /\ \A i \in 1 .. Len(wire) : i # d => wire'[i] = wire[i]
    BY <2>1, <2>3, <2>4, ExceptSeq
  <2>7. wire' # f
    BY <2>1, <2>4, <2>6
  <2>8. \A i \in 1 .. Len(wire') : i # d => wire'[i] = f[i]
    BY <2>1, <2>5, <2>6
  <2>9. f' = f
    BY <2>1 DEF f
  <2>10. OnTheLine'
    BY <2>1, <2>5, <2>7, <2>8, <2>9 DEF OnTheLine, f
  <2> QED
    BY <2>1, <2>10 DEF ReadFromLine, ParsedFromChunk
<1>3. CASE Read
  BY <1>3 DEF Read, OnTheLine, ReadFromLine, ParsedFromChunk
<1>4. CASE Parse
  BY <1>4 DEF Parse, OnTheLine, ReadFromLine, ParsedFromChunk
<1>5. CASE Done \/ UNCHANGED vars
  <2>1. UNCHANGED <<phase, cmd, payload, wire, damaged, chunk, parsed>>
    BY <1>5 DEF Done, vars
  <2>2. OnTheLine'
    <3>1. buildFrame(cmd, payload)' = buildFrame(cmd, payload)
      BY <2>1
    <3> QED
      BY <2>1, <3>1, Zenon DEF OnTheLine
  <2> QED
    BY <2>1, <2>2 DEF ReadFromLine, ParsedFromChunk
<1> QED
  BY <1>1, <1>2, <1>3, <1>4, <1>5 DEF Next

THEOREM LinkInvariance == Spec => []LinkInv
  BY LinkInit, LinkStep, PTL DEF Spec

(***************************************************************************)
(* parseFrame() reads inside the buffer receive() gave it, for every       *)
(* command, payload and damaged byte.                                      *)
(***************************************************************************)
THEOREM ParseIsSafe == Spec => []ParseStaysInside
<1>1. LinkInv => ParseStaysInside
  <2> SUFFICES ASSUME LinkInv, phase \in {"read", "parsed"}
               PROVE  ReadsInsideBuffer(chunk)
    BY DEF ParseStaysInside
  <2>1. wire \in Seq(Byte) /\ chunk = receive(wire) /\ Len(wire) >= 5
    BY LinkAssumption DEF LinkInv, OnTheLine, ReadFromLine
  <2>2. wire[2] \in Byte
    BY <2>1
  <2>3. /\ chunk \in Seq(Byte)
        /\ Len(chunk) >= MCB_MIN_FRAME_SIZE => chunk[2] \in Byte
    BY <2>1, <2>2, ReceivedPrefix
  <2>4. CASE Len(chunk) >= MCB_MIN_FRAME_SIZE
    BY <2>3, <2>4, ParserReadsInside
  <2>5. CASE ~ (Len(chunk) >= MCB_MIN_FRAME_SIZE)
    BY <2>5 DEF ReadsInsideBuffer, Delimited
  <2> QED
    BY <2>4, <2>5
<1> QED
  BY <1>1, LinkInvariance, PTL

(***************************************************************************)
(* A frame of a known command that is damaged nowhere and holds no inner   *)
(* ETX goes all the way through receive() and parseFrame().                *)
(***************************************************************************)
THEOREM KnownFramesGoThrough == Spec => []KnownFramesArrive
<1>1. LinkInv => KnownFramesArrive
  <2> SUFFICES ASSUME LinkInv, phase = "parsed", ~damaged, cmd \in Recognised,
                      Transparent, Len(payload) <= MaxPayload
               PROVE  parsed.ok
    BY DEF KnownFramesArrive
  <2>1. /\ wire = buildFrame(cmd, payload) /\ chunk = receive(wire)
        /\ parsed = parseFrame(chunk)
        /\ cmd \in Byte /\ payload \in Seq(Byte) /\ Len(payload) \in Nat
    BY LinkAssumption DEF LinkInv, OnTheLine, ReadFromLine, ParsedFromChunk
  <2>2. /\ wire \in Seq(Byte) /\ Len(wire) = Len(payload) + 5
        /\ wire[1] = STX /\ wire[Len(payload) + 5] = ETX
    BY <2>1, FrameShape
  <2>3. Len(wire) >= 5 /\ wire[Len(wire)] = ETX
    BY <2>1, <2>2
  <2>4. chunk = wire
    BY <2>1, <2>2, <2>3, WholeWhenTransparent DEF Transparent
  <2>5. parsed = [ok |-> TRUE, command |-> cmd, data |-> payload]
    BY <2>1, <2>4, RoundTrip
  <2> QED
    BY <2>5
<1> QED
  BY <1>1, LinkInvariance, PTL

(***************************************************************************)
(* Of a frame of a known command that is damaged in any one byte, nothing  *)
(* is accepted but, where its length byte is hit and there is an ETX       *)
(* inside, a front of its payload.                                         *)
(***************************************************************************)
THEOREM DamageDoesNotPass == Spec => []DamageIsDetected
<1>1. LinkInv => DamageIsDetected
  <2> SUFFICES ASSUME LinkInv, phase = "parsed", cmd \in Recognised,
                      Len(payload) <= MaxPayload, parsed.ok
               PROVE  /\ parsed.command = cmd
                      /\ \/ ~damaged /\ parsed.data = payload
                         \/ /\ damaged
                            /\ \E n \in 0 .. Len(payload) :
                                 ShortenedTo(n) /\ parsed.data = SubSeq(payload, 1, n)
    BY DEF DamageIsDetected
  <2> DEFINE f == buildFrame(cmd, payload)
  <2>1. /\ chunk = receive(wire) /\ parsed = parseFrame(chunk)
        /\ payload \in Seq(Byte) /\ Len(payload) \in Nat
        /\ wire \in Seq(Byte) /\ Len(wire) = Len(payload) + 5
        /\ ~damaged => wire = f
        /\ damaged => wire # f
    BY LinkAssumption DEF LinkInv, OnTheLine, ReadFromLine, ParsedFromChunk
  <2>2. PICK d \in 1 .. Len(wire) : \A i \in 1 .. Len(wire) : i # d => wire[i] = f[i]
    BY DEF LinkInv, OnTheLine
  <2>3. Accepts(receive(wire))
    BY <2>1 DEF parseFrame, Rejected
  <2>4. \/ wire = f /\ receive(wire) = wire
        \/ \E n \in 0 .. Len(payload) :
             /\ CutTo(n, wire, cmd, payload)
             /\ parsed = [ok |-> TRUE, command |-> cmd, data |-> SubSeq(payload, 1, n)]
    BY <2>1, <2>2, <2>3, DamagedFrame
  <2>5. CASE wire = f /\ receive(wire) = wire
    <3>1. parsed = [ok |-> TRUE, command |-> cmd, data |-> payload]
      BY <2>1, <2>5, RoundTrip
    <3> QED
      BY <2>1, <2>5, <3>1
  <2>6. ASSUME NEW n \in 0 .. Len(payload), CutTo(n, wire, cmd, payload),
               parsed = [ok |-> TRUE, command |-> cmd, data |-> SubSeq(payload, 1, n)]
        PROVE  /\ damaged /\ ShortenedTo(n) /\ parsed.command = cmd
               /\ parsed.data = SubSeq(payload, 1, n)
    <3>1. ShortenedTo(n)
      BY <2>6 DEF CutTo, ShortenedTo
    <3>2. wire # f
      <4>1. cmd \in Byte
        BY DEF Recognised, Byte
      <4>2. f[2] = (1 + Len(payload)) % 256
        BY <2>1, <4>1, FrameShape DEF LengthByte
      <4>3. f[2] = 1 + Len(payload)
        BY <2>1, <4>2 DEF MaxPayload
      <4>4. wire[2] = n + 1 /\ n < Len(payload)
        BY <2>6 DEF CutTo
      <4> QED
        BY <2>1, <4>3, <4>4
    <3> QED
      BY <2>1, <2>6, <3>1, <3>2
  <2> QED
    BY <2>4, <2>5, <2>6
<1> QED
  BY <1>1, LinkInvariance, PTL
=============================================================================
