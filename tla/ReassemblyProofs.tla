-------------------------- MODULE ReassemblyProofs --------------------------
(***************************************************************************)
(* Proofs about Reassembly, for any frames, any noise and any pieces.  The *)
(* buffer is a window on the stream, from the bytes passed to those heard, *)
(* so that what the callback does with it can be said of the stream alone: *)
(* each way through the loop is a step of FrameScanner, or none.           *)
(***************************************************************************)
EXTENDS Reassembly, SequenceTheorems, TLAPS

(* The buffer holds the bytes that were heard and not yet passed.          *)
Window ==
  /\ stream \in Seq(Byte) /\ buffer \in Seq(Byte)
  /\ passed \in Nat /\ heard \in Nat /\ passed <= heard /\ heard <= Len(stream)
  /\ Len(buffer) = heard - passed
  /\ \A i \in 1 .. heard - passed : buffer[i] = stream[passed + i]

(* Where the callback is, and what it knows of the front of the buffer.    *)
Front ==
  /\ rechecks \in BOOLEAN /\ pc \in {"idle", "loop", "measure"}
  /\ pc = "measure" =>
       /\ Len(buffer) > 0 /\ buffer[1] = STX
       /\ rechecks => Len(buffer) >= MCB_MIN_FRAME_SIZE
  /\ KeepsLessThanAFrame

CallbackInv == Window /\ Front

-----------------------------------------------------------------------------
LEMMA ByteIsNatural == \A b \in Byte : b \in Nat
  BY DEF Byte

(* What lies between two places of a sequence, and what is behind another. *)
LEMMA Cutting ==
  ASSUME NEW S, NEW s \in Seq(S), NEW low \in Nat, NEW size \in Nat, low + size <= Len(s)
  PROVE  /\ SubSeq(s, low + 1, low + size) \in Seq(S)
         /\ Len(SubSeq(s, low + 1, low + size)) = size
         /\ \A i \in 1 .. size : SubSeq(s, low + 1, low + size)[i] = s[low + i]
<1> DEFINE first == low + 1
           last  == low + size
<1>1. first \in Int /\ last \in Int /\ \A i \in first .. last : s[i] \in S
  OBVIOUS
<1> HIDE DEF first, last
<1>2. /\ SubSeq(s, first, last) \in Seq(S)
      /\ Len(SubSeq(s, first, last)) = IF first <= last THEN last - first + 1 ELSE 0
      /\ \A i \in 1 .. last - first + 1 : SubSeq(s, first, last)[i] = s[first + i - 1]
  BY <1>1, SubSeqProperties
<1>3. last - first + 1 = size /\ (first <= last <=> size >= 1)
  BY DEF first, last
<1>4. \A i \in 1 .. size : s[first + i - 1] = s[low + i]
  BY DEF first
<1> QED
  BY <1>2, <1>3, <1>4 DEF first, last

(* The sequence c is a followed by b.                                      *)
Joined(c, a, b) ==
  /\ c \in Seq(Byte) /\ Len(c) = Len(a) + Len(b)
  /\ \A i \in 1 .. Len(a) : c[i] = a[i]
  /\ \A i \in 1 .. Len(b) : c[Len(a) + i] = b[i]

LEMMA Joining ==
  ASSUME NEW a \in Seq(Byte), NEW b \in Seq(Byte)
  PROVE  Joined(a \o b, a, b)
  BY DEF Joined

(* Erasing from the front moves the window.                                *)
LEMMA ErasingMoves ==
  ASSUME Window, NEW n \in 1 .. Len(buffer), Erase(n), UNCHANGED <<stream, heard>>
  PROVE  Window' /\ passed' = passed + n /\ Len(buffer') = Len(buffer) - n
<1>1. n \in Nat /\ Len(buffer) \in Nat /\ n <= Len(buffer) /\ n >= 1
  BY DEF Window
<1>2. buffer' = SubSeq(buffer, n + 1, n + (Len(buffer) - n)) /\ passed' = passed + n
  BY <1>1 DEF Erase
<1>3. Len(buffer) - n \in Nat /\ n + (Len(buffer) - n) <= Len(buffer) /\ buffer \in Seq(Byte)
  BY <1>1 DEF Window
<1>4. /\ buffer' \in Seq(Byte) /\ Len(buffer') = Len(buffer) - n
      /\ \A i \in 1 .. Len(buffer) - n : buffer'[i] = buffer[n + i]
  BY <1>1, <1>2, <1>3, Cutting
<1>5. passed' \in Nat /\ passed' <= heard' /\ heard' <= Len(stream') /\ heard' \in Nat
  BY <1>1, <1>2 DEF Window
<1>6. Len(buffer') = heard' - passed'
  BY <1>1, <1>2, <1>4 DEF Window
<1>7. ASSUME NEW i \in 1 .. heard' - passed'
      PROVE  buffer'[i] = stream'[passed' + i]
  <2>1. i \in 1 .. Len(buffer) - n /\ i \in Nat /\ n + i \in 1 .. heard - passed
    BY <1>1, <1>2 DEF Window
  <2>2. buffer'[i] = buffer[n + i] /\ passed' + i = passed + (n + i)
    BY <1>1, <1>2, <1>4, <2>1 DEF Window
  <2> QED
    BY <2>1, <2>2 DEF Window
<1> QED
  BY <1>2, <1>4, <1>5, <1>6, <1>7 DEF Window

(* More bytes lengthen it.                                                 *)
LEMMA DeliveringLengthens ==
  ASSUME Window, Deliver
  PROVE  Window'
<1>1. PICK n \in 1 .. Len(stream) - heard :
        buffer' = buffer \o Chunk(n) /\ heard' = heard + n
  BY DEF Deliver
<1>2. n \in Nat /\ n >= 1 /\ heard + n <= Len(stream) /\ UNCHANGED <<stream, passed>>
  BY <1>1 DEF Deliver, Window, line
<1>3. /\ Chunk(n) \in Seq(Byte) /\ Len(Chunk(n)) = n
      /\ \A i \in 1 .. n : Chunk(n)[i] = stream[heard + i]
  <2>1. stream \in Seq(Byte) /\ heard \in Nat
    BY DEF Window
  <2> QED
    BY <1>2, <2>1, Cutting DEF Chunk
<1>4. /\ buffer' \in Seq(Byte) /\ Len(buffer') = Len(buffer) + n
      /\ \A i \in 1 .. Len(buffer) : buffer'[i] = buffer[i]
      /\ \A i \in 1 .. n : buffer'[Len(buffer) + i] = stream[heard + i]
  <2> DEFINE b == Chunk(n)
  <2> HIDE DEF b
  <2>1. buffer \in Seq(Byte)
    BY DEF Window
  <2>2. b \in Seq(Byte) /\ Len(b) = n /\ \A i \in 1 .. n : b[i] = stream[heard + i]
    BY <1>3 DEF b
  <2>3. Joined(buffer', buffer, b)
    BY <1>1, <2>1, <2>2, Joining, Zenon DEF b
  <2> QED
    BY <2>2, <2>3 DEF Joined
<1>5. Len(buffer) = heard - passed /\ Len(buffer) \in Nat
  BY DEF Window
<1>6. Len(buffer') = heard' - passed'
  BY <1>1, <1>2, <1>4, <1>5 DEF Window
<1>7. ASSUME NEW i \in 1 .. heard' - passed'
      PROVE  buffer'[i] = stream'[passed' + i]
  <2>1. i \in 1 .. Len(buffer) + n /\ i \in Nat
    BY <1>1, <1>2, <1>5 DEF Window
  <2>2. CASE i <= Len(buffer)
    <3>1. buffer'[i] = buffer[i] /\ i \in 1 .. heard - passed
      BY <1>4, <1>5, <2>1, <2>2
    <3> QED
      BY <1>2, <3>1 DEF Window
  <2>3. CASE i > Len(buffer)
    <3> DEFINE j == i - Len(buffer)
    <3>1. j \in 1 .. n /\ i = Len(buffer) + j /\ heard + j = passed + i
      BY <1>2, <1>5, <2>1, <2>3 DEF Window
    <3>2. buffer'[Len(buffer) + j] = stream[heard + j]
      BY <1>4, <3>1
    <3> QED
      BY <1>2, <3>1, <3>2
  <2> QED
    BY <1>5, <2>1, <2>2, <2>3
<1> QED
  BY <1>1, <1>2, <1>4, <1>6, <1>7 DEF Window

-----------------------------------------------------------------------------
(* What is at the front of the buffer is in the stream behind what passed. *)
LEMMA FrontInStream ==
  ASSUME Window, Len(buffer) > 0
  PROVE  /\ buffer[1] = stream[passed + 1] /\ passed + 1 \in 1 .. Len(stream)
         /\ stream[passed + 1] \in Byte
         /\ Len(buffer) > 1 =>
              buffer[2] = stream[passed + 2] /\ stream[passed + 2] \in Byte
<1>1. 1 \in 1 .. heard - passed /\ passed + 1 \in 1 .. Len(stream)
  BY DEF Window
<1>2. Len(buffer) > 1 => 2 \in 1 .. heard - passed /\ passed + 2 \in 1 .. Len(stream)
  BY DEF Window
<1> QED
  BY <1>1, <1>2 DEF Window

(* Where there are enough bytes for a frame, its length byte was read.     *)
LEMMA LengthWasRead ==
  ASSUME CallbackInv, Measuring, NEW length \in LengthsRead, Len(buffer) >= length + 4
  PROVE  /\ length \in Byte /\ length = stream[passed + 2] /\ buffer[1] = STX
         /\ stream[passed + 1] = STX /\ passed + 1 < Len(stream)
         /\ length + 4 \in 1 .. Len(buffer)
         /\ buffer[length + 4] = stream[passed + (length + 4)]
         /\ passed + (length + 4) <= heard
<1>1. Len(buffer) > 0 /\ buffer[1] = STX
  BY DEF Measuring, InLoop, CallbackInv, Front, MCB_MIN_FRAME_SIZE
<1>2. length \in Byte
  BY <1>1, FrontInStream DEF LengthsRead, CallbackInv
<1>3. Len(buffer) > 1 /\ length + 4 \in 1 .. Len(buffer)
  BY <1>2 DEF Byte, CallbackInv, Window
<1>4. length = buffer[2]
  BY <1>3 DEF LengthsRead
<1>5. passed + 1 < Len(stream) /\ length + 4 \in 1 .. heard - passed
  BY <1>3 DEF CallbackInv, Window
<1>6. buffer[length + 4] = stream[passed + (length + 4)]
  BY <1>5 DEF CallbackInv, Window
<1>7. passed + (length + 4) <= heard
  BY <1>2, <1>3 DEF CallbackInv, Window, Byte
<1>8. stream[passed + 1] = STX /\ length = stream[passed + 2]
  BY <1>1, <1>3, <1>4, FrontInStream DEF CallbackInv
<1> QED
  BY <1>1, <1>2, <1>3, <1>5, <1>6, <1>7, <1>8

(***************************************************************************)
(* A way through the loop, as a step of the scanner of the whole stream.   *)
(***************************************************************************)
Scans ==
  \/ UNCHANGED <<passed, taken>>
  \/ Scanner!Skip
  \/ Scanner!GiveUp /\ passed' = passed + 1 /\ Scanner!LastOf(passed + 1) <= heard
  \/ Scanner!Take /\ passed' <= heard

Through == CallbackInv' /\ Scans /\ UNCHANGED <<line, heard>>

LEMMA LoopEndsShape == CallbackInv /\ LoopEnds => Through
  BY DEF CallbackInv, Window, Front, KeepsLessThanAFrame, LoopEnds, Through, Scans, line,
         MCB_MIN_FRAME_SIZE

LEMMA DropAllShape == CallbackInv /\ DropAll => Through
<1> SUFFICES ASSUME CallbackInv, DropAll  PROVE Through
  OBVIOUS
<1>1. Len(buffer) \in 1 .. Len(buffer) /\ UNCHANGED <<line, heard, taken>> /\ pc' = "idle"
  BY DEF DropAll, InLoop, MCB_MIN_FRAME_SIZE, CallbackInv, Window
<1>2. Window' /\ passed' = passed + Len(buffer) /\ Len(buffer') = Len(buffer) - Len(buffer)
  <2>1. Window /\ Erase(Len(buffer)) /\ UNCHANGED <<stream, heard>>
    BY <1>1 DEF DropAll, CallbackInv, line
  <2> QED
    BY <1>1, <2>1, ErasingMoves
<1>3. Len(buffer') = 0 /\ passed' = heard /\ passed' \in passed + 1 .. Len(stream)
  BY <1>1, <1>2 DEF CallbackInv, Window, line
<1>4. \A i \in passed + 1 .. passed' : stream[i] # STX
  <2> SUFFICES ASSUME NEW i \in passed + 1 .. passed'  PROVE stream[i] # STX
    OBVIOUS
  <2>1. i - passed \in 1 .. heard - passed /\ passed + (i - passed) = i
    BY <1>3 DEF CallbackInv, Window
  <2>2. buffer[i - passed] = stream[passed + (i - passed)] /\ i - passed \in 1 .. Len(buffer)
    BY <2>1 DEF CallbackInv, Window
  <2> QED
    BY <2>1, <2>2 DEF DropAll
<1>5. Scanner!Skip
  BY <1>1, <1>3, <1>4 DEF Scanner!Skip, Scanner!STX, STX, line
<1>6. Front'
  BY <1>1, <1>3 DEF Front, CallbackInv, KeepsLessThanAFrame, MCB_MIN_FRAME_SIZE, line
<1> QED
  BY <1>1, <1>2, <1>5, <1>6 DEF Through, CallbackInv, Scans

LEMMA SkipShape == CallbackInv /\ SkipToStx => Through
<1> SUFFICES ASSUME CallbackInv, SkipToStx  PROVE Through
  OBVIOUS
<1>1. PICK next \in 2 .. Len(buffer) :
        /\ buffer[next] = STX /\ \A i \in 1 .. next - 1 : buffer[i] # STX
        /\ Erase(next - 1)
  BY DEF SkipToStx
<1>2. UNCHANGED <<line, heard, taken>>
  BY DEF SkipToStx
<1>3. next - 1 \in 1 .. Len(buffer) /\ next \in 1 .. heard - passed
  BY DEF CallbackInv, Window
<1>4. Window' /\ passed' = passed + (next - 1) /\ Len(buffer') = Len(buffer) - (next - 1)
  <2>1. Window /\ UNCHANGED <<stream, heard>>
    BY <1>2 DEF CallbackInv, line
  <2> QED
    BY <1>1, <1>3, <2>1, ErasingMoves
<1>5. passed' \in passed + 1 .. Len(stream) /\ passed' + 1 = passed + next
  BY <1>3, <1>4 DEF CallbackInv, Window
<1>6. \A i \in passed + 1 .. passed' : stream[i] # STX
  <2> SUFFICES ASSUME NEW i \in passed + 1 .. passed'  PROVE stream[i] # STX
    OBVIOUS
  <2>1. /\ i - passed \in 1 .. heard - passed /\ passed + (i - passed) = i
        /\ i - passed \in 1 .. next - 1
    BY <1>3, <1>4, <1>5 DEF CallbackInv, Window
  <2>2. buffer[i - passed] = stream[passed + (i - passed)]
    BY <2>1 DEF CallbackInv, Window
  <2> QED
    BY <1>1, <2>1, <2>2
<1>7. Scanner!Skip
  BY <1>2, <1>5, <1>6 DEF Scanner!Skip, Scanner!STX, STX, line
<1>8. Len(buffer') > 0 /\ buffer'[1] = STX
  <2>1. Len(buffer') > 0 /\ 1 \in 1 .. heard' - passed'
    <3>1. Len(buffer) \in Nat /\ next \in Nat /\ next <= Len(buffer)
      BY DEF CallbackInv, Window
    <3>2. Len(buffer') > 0
      BY <1>4, <3>1
    <3>3. Len(buffer') = heard' - passed' /\ Len(buffer') \in Nat
      BY <1>4 DEF Window
    <3> QED
      BY <3>2, <3>3
  <2>2. buffer'[1] = stream'[passed' + 1]
    BY <1>4, <2>1 DEF Window
  <2>3. buffer[next] = stream[passed + next]
    BY <1>3 DEF CallbackInv, Window
  <2> QED
    BY <1>1, <1>2, <1>5, <2>1, <2>2, <2>3 DEF line
<1>9. Front'
  <2>1. pc' = IF rechecks /\ Len(buffer') < MCB_MIN_FRAME_SIZE THEN "idle" ELSE "measure"
    BY DEF SkipToStx
  <2>2. Len(buffer') \in Nat /\ rechecks' \in BOOLEAN /\ rechecks' = rechecks
    BY <1>2, <1>4 DEF Window, CallbackInv, Front, line
  <2> QED
    BY <1>8, <2>1, <2>2 DEF Front, KeepsLessThanAFrame, MCB_MIN_FRAME_SIZE
<1> QED
  BY <1>2, <1>4, <1>7, <1>9 DEF Through, CallbackInv, Scans

LEMMA AwaitShape == CallbackInv /\ AwaitRest => Through
<1> SUFFICES ASSUME CallbackInv, AwaitRest  PROVE Through
  OBVIOUS
<1>1. UNCHANGED <<line, heard, buffer, passed, taken>> /\ pc' = "idle"
  BY DEF AwaitRest
<1>2. Window' /\ rechecks' = rechecks
  BY <1>1 DEF CallbackInv, Window, line
<1>3. KeepsLessThanAFrame'
  <2>1. CASE Len(buffer) > 1
    <3>1. LengthsRead = {buffer[2]} /\ Measuring
      BY <2>1 DEF LengthsRead, AwaitRest
    <3>2. buffer[1] = STX
      BY <3>1 DEF Measuring, InLoop, CallbackInv, Front
    <3>3. Len(buffer) < buffer[2] + 4
      BY <3>1 DEF AwaitRest
    <3> QED
      BY <1>1, <3>2, <3>3 DEF KeepsLessThanAFrame
  <2>2. CASE ~(Len(buffer) > 1)
    <3>1. Len(buffer) < MCB_MIN_FRAME_SIZE
      BY <2>2 DEF CallbackInv, Window, MCB_MIN_FRAME_SIZE
    <3> QED
      BY <1>1, <3>1 DEF KeepsLessThanAFrame
  <2> QED
    BY <2>1, <2>2
<1> QED
  BY <1>1, <1>2, <1>3 DEF Through, CallbackInv, Front, Scans

LEMMA DropByteShape == CallbackInv /\ DropByte => Through
<1> SUFFICES ASSUME CallbackInv, DropByte  PROVE Through
  OBVIOUS
<1>1. Measuring /\ UNCHANGED <<line, heard, taken>> /\ Erase(1) /\ pc' = "loop"
  BY DEF DropByte
<1>2. PICK length \in LengthsRead :
        Len(buffer) >= length + 4 /\ buffer[length + 4] # ETX
  BY DEF DropByte
<1>3. /\ length \in Byte /\ length = stream[passed + 2] /\ stream[passed + 1] = STX
      /\ passed + 1 < Len(stream) /\ length + 4 \in 1 .. Len(buffer)
      /\ stream[passed + (length + 4)] # ETX /\ passed + (length + 4) <= heard
  BY <1>1, <1>2, LengthWasRead
<1>4. 1 \in 1 .. Len(buffer)
  BY <1>3 DEF CallbackInv, Window, Byte
<1>5. Window' /\ passed' = passed + 1
  <2>1. Window /\ UNCHANGED <<stream, heard>>
    BY <1>1 DEF CallbackInv, line
  <2> QED
    BY <1>1, <1>4, <2>1, ErasingMoves
<1>6. Scanner!LastOf(passed + 1) = passed + (length + 4)
  <2>1. passed \in Nat /\ length \in Nat
    <3>1. passed \in Nat
      BY DEF CallbackInv, Window
    <3>2. length \in Nat
      BY <1>3, ByteIsNatural
    <3> QED
      BY <3>1, <3>2
  <2>2. passed + 1 + 1 = passed + 2 /\ passed + 1 + length + 3 = passed + (length + 4)
    BY <2>1
  <2> QED
    BY <1>3, <2>2 DEF Scanner!LastOf
<1>7. Scanner!WholeAt(passed + 1)
  BY <1>3, <1>6 DEF Scanner!WholeAt, Scanner!STX, STX, CallbackInv, Window, Byte
<1>8. Scanner!GiveUp
  BY <1>1, <1>3, <1>5, <1>6, <1>7 DEF Scanner!GiveUp, Scanner!ETX, ETX, line
<1>9. Front'
  BY <1>1 DEF Front, CallbackInv, KeepsLessThanAFrame, line
<1> QED
  BY <1>1, <1>3, <1>5, <1>6, <1>8, <1>9 DEF Through, CallbackInv, Scans

LEMMA CutShape == CallbackInv /\ CutFrame => Through
<1> SUFFICES ASSUME CallbackInv, CutFrame  PROVE Through
  OBVIOUS
<1>1. Measuring /\ UNCHANGED <<line, heard>> /\ pc' = "loop"
  BY DEF CutFrame
<1>2. PICK length \in LengthsRead :
        /\ Len(buffer) >= length + 4 /\ buffer[length + 4] = ETX
        /\ Erase(length + 4)
        /\ taken' = taken \cup {Place(passed + 1, length + 4)}
  BY DEF CutFrame
<1>3. /\ length \in Byte /\ length = stream[passed + 2] /\ stream[passed + 1] = STX
      /\ passed + 1 < Len(stream) /\ length + 4 \in 1 .. Len(buffer)
      /\ stream[passed + (length + 4)] = ETX /\ passed + (length + 4) <= heard
  BY <1>1, <1>2, LengthWasRead
<1>5. Window' /\ passed' = passed + (length + 4)
  <2>1. Window /\ UNCHANGED <<stream, heard>>
    BY <1>1 DEF CallbackInv, line
  <2> QED
    BY <1>2, <1>3, <2>1, ErasingMoves
<1>6. /\ Scanner!LastOf(passed + 1) = passed + (length + 4)
      /\ Place(passed + 1, length + 4) = [first |-> passed + 1, last |-> passed']
  <2>1. passed \in Nat /\ length \in Nat
    <3>1. passed \in Nat
      BY DEF CallbackInv, Window
    <3>2. length \in Nat
      BY <1>3, ByteIsNatural
    <3> QED
      BY <3>1, <3>2
  <2>2. /\ passed + 1 + 1 = passed + 2 /\ passed + 1 + length + 3 = passed + (length + 4)
        /\ passed + 1 + (length + 4) - 1 = passed + (length + 4)
    BY <2>1
  <2> QED
    BY <1>3, <1>5, <2>2 DEF Scanner!LastOf, Place
<1>7. Scanner!WholeAt(passed + 1)
  BY <1>3, <1>6 DEF Scanner!WholeAt, Scanner!STX, STX, CallbackInv, Window, Byte
<1>8. Scanner!Take
  BY <1>1, <1>2, <1>3, <1>5, <1>6, <1>7 DEF Scanner!Take, Scanner!ETX, ETX, line
<1>9. Front'
  BY <1>1 DEF Front, CallbackInv, KeepsLessThanAFrame, line
<1> QED
  BY <1>1, <1>3, <1>5, <1>8, <1>9 DEF Through, CallbackInv, Scans

LEMMA CallbackShape == CallbackInv /\ Callback => Through
  BY LoopEndsShape, DropAllShape, SkipShape, AwaitShape, DropByteShape, CutShape DEF Callback

-----------------------------------------------------------------------------
(* The board and the line only add to the stream.                          *)

(* A frame of the board, where it is in the stream.                        *)
WellPlaced(f) ==
  /\ f \in [first : 1 .. Len(stream), last : 1 .. Len(stream)]
  /\ stream[f.first] = STX /\ stream[f.last] = ETX
  /\ f.first + 4 <= f.last /\ f.last = f.first + stream[f.first + 1] + 3

Longer ==
  /\ stream' \in Seq(Byte) /\ Len(stream') >= Len(stream)
  /\ \A i \in 1 .. Len(stream) : stream'[i] = stream[i]
  /\ UNCHANGED <<rechecks, heard, buffer, pc, passed, taken>>

(* What a frame is, and what it adds.                                      *)
LEMMA FrameSize ==
  ASSUME NEW f \in Seq(Byte), Delimited(f), SizeAgrees(f)
  PROVE  /\ Len(f) \in Nat /\ Len(f) >= 5 /\ f[1] = STX /\ f[Len(f)] = ETX
         /\ f[2] = Len(f) - 4
<1>1. Len(f) \in Nat /\ Len(f) >= 5 /\ f[1] = STX /\ f[Len(f)] = ETX
  BY DEF Delimited, MCB_MIN_FRAME_SIZE
<1>2. f[2] \in Nat
  BY <1>1, ByteIsNatural
<1>3. Len(f) = f[2] + 4
  BY DEF SizeAgrees
<1> QED
  BY <1>1, <1>2, <1>3

LEMMA FrameShape ==
  ASSUME Window, NEW f \in Frames, stream' = stream \o f
  PROVE  /\ Joined(stream', stream, f) /\ f \in Seq(Byte) /\ Len(f) \in Nat
         /\ Len(f) >= 5 /\ f[1] = STX /\ f[2] = Len(f) - 4 /\ f[Len(f)] = ETX
<1>1. f \in Seq(Byte) /\ Delimited(f) /\ SizeAgrees(f)
  BY StreamAssumption
<1>2. Joined(stream', stream, f)
  BY <1>1, Joining, Zenon DEF Window
<1> QED
  BY <1>1, <1>2, FrameSize, Zenon

LEMMA SendFrameLengthens == Window /\ SendFrame => Longer
<1> SUFFICES ASSUME Window, SendFrame  PROVE Longer
  OBVIOUS
<1>1. PICK f \in Frames : stream' = stream \o f
  BY DEF SendFrame
<1>2. Joined(stream', stream, f) /\ Len(f) \in Nat
  BY <1>1, FrameShape
<1>3. Len(stream) \in Nat
  BY DEF Window
<1> QED
  BY <1>2, <1>3 DEF Longer, Joined, SendFrame

LEMMA SendNoiseLengthens == Window /\ SendNoise => Longer
<1> SUFFICES ASSUME Window, SendNoise  PROVE Longer
  OBVIOUS
<1>1. PICK b \in NoiseBytes : stream' = Append(stream, b)
  BY DEF SendNoise
<1>2. b \in Byte /\ stream \in Seq(Byte)
  BY StreamAssumption DEF Window
<1>3. /\ stream' \in Seq(Byte) /\ Len(stream') = Len(stream) + 1
      /\ \A i \in 1 .. Len(stream) : stream'[i] = stream[i]
  BY <1>1, <1>2, AppendProperties
<1> QED
  BY <1>2, <1>3 DEF Longer, SendNoise

LEMMA LongerKeeps == CallbackInv /\ Longer => CallbackInv'
<1> SUFFICES ASSUME CallbackInv, Longer  PROVE CallbackInv'
  OBVIOUS
<1>1. \A i \in 1 .. heard - passed : passed + i \in 1 .. Len(stream)
  BY DEF CallbackInv, Window
<1>2. Window'
  BY <1>1 DEF CallbackInv, Window, Longer
<1> QED
  BY <1>2 DEF CallbackInv, Front, KeepsLessThanAFrame, Longer

LEMMA DeliverKeeps == CallbackInv /\ Deliver => CallbackInv'
<1> SUFFICES ASSUME CallbackInv, Deliver  PROVE CallbackInv'
  OBVIOUS
<1>1. Window'
  BY DeliveringLengthens DEF CallbackInv
<1>2. Front'
  BY DEF Deliver, CallbackInv, Front, KeepsLessThanAFrame, line
<1> QED
  BY <1>1, <1>2 DEF CallbackInv

LEMMA CallbackInit == Init => CallbackInv
  BY DEF Init, CallbackInv, Window, Front, KeepsLessThanAFrame, MCB_MIN_FRAME_SIZE

LEMMA CallbackStep == CallbackInv /\ [Next]_vars => CallbackInv'
<1> SUFFICES ASSUME CallbackInv, [Next]_vars  PROVE CallbackInv'
  OBVIOUS
<1>1. CASE SendFrame
  BY <1>1, SendFrameLengthens, LongerKeeps DEF CallbackInv
<1>2. CASE SendNoise
  BY <1>2, SendNoiseLengthens, LongerKeeps DEF CallbackInv
<1>3. CASE Deliver
  BY <1>3, DeliverKeeps
<1>4. CASE Callback
  BY <1>4, CallbackShape DEF Through
<1>5. CASE UNCHANGED vars
  BY <1>5 DEF vars, line, CallbackInv, Window, Front, KeepsLessThanAFrame
<1> QED
  BY <1>1, <1>2, <1>3, <1>4, <1>5 DEF Next

(***************************************************************************)
(* The invariant of the callback, for any stream and any pieces.           *)
(***************************************************************************)
THEOREM BufferInvariance == Spec => []CallbackInv
  BY CallbackInit, CallbackStep, PTL DEF Spec

(* What a callback leaves in the buffer is less than a frame.              *)
THEOREM LeavesLessThanAFrame == Spec => []KeepsLessThanAFrame
<1>1. CallbackInv => KeepsLessThanAFrame
  BY DEF CallbackInv, Front
<1> QED
  BY <1>1, BufferInvariance, PTL

(***************************************************************************)
(* The pieces do not matter: every step is one of the scanner of the whole *)
(* stream, or none.                                                        *)
(***************************************************************************)
THEOREM ScannerRefined == Spec => ImplementsScanner
<1>1. Init => Scanner!Init
  BY DEF Init, Scanner!Init
<1>2. CallbackInv /\ [Next]_vars => [Scanner!Next]_Scanner!scanner
  <2> SUFFICES ASSUME CallbackInv, [Next]_vars
               PROVE  [Scanner!Next]_Scanner!scanner
    OBVIOUS
  <2>1. CASE SendFrame \/ SendNoise
    <3>1. Longer
      BY <2>1, SendFrameLengthens, SendNoiseLengthens DEF CallbackInv
    <3> QED
      BY <3>1 DEF Longer, Scanner!Next, Scanner!Grow
  <2>2. CASE Deliver
    BY <2>2 DEF Deliver, line, Scanner!scanner
  <2>3. CASE Callback
    BY <2>3, CallbackShape DEF Through, Scans, Scanner!Next, Scanner!scanner, line
  <2>4. CASE UNCHANGED vars
    BY <2>4 DEF vars, line, Scanner!scanner
  <2> QED
    BY <2>1, <2>2, <2>3, <2>4 DEF Next
<1> QED
  BY <1>1, <1>2, BufferInvariance, PTL DEF Spec, ImplementsScanner, Scanner!Spec

-----------------------------------------------------------------------------
(***************************************************************************)
(* The frames of the board.  They lie apart; the scanner has taken every   *)
(* one whose beginning it passed, or a frame it took swallowed that; and   *)
(* where there is nothing else on the line they fill it, and the scanner   *)
(* is always between two of them.                                          *)
(***************************************************************************)
Apart == \A f, g \in intact : f = g \/ f.last < g.first \/ g.last < f.first

TakenPlaces == taken \subseteq [first : 1 .. passed, last : 1 .. passed]

PassedTaken == \A f \in intact : f.first <= passed => f \in taken \/ Swallowed(f)

Between(p) == p = Len(stream) \/ \E f \in intact : f.first = p + 1

Filled ==
  noise = 0 =>
    /\ Between(passed) /\ \A f \in intact : Between(f.last)
    /\ \A f \in intact : passed < f.first \/ f.last <= passed
    /\ taken = {f \in intact : f.last <= passed}

IInv ==
  /\ CallbackInv
  /\ \A f \in intact : WellPlaced(f)
  /\ noise \in 0 .. MaxNoise
  /\ Apart /\ TakenPlaces /\ PassedTaken /\ Filled

LEMMA PlacedNumbers ==
  ASSUME Window, NEW f, WellPlaced(f)
  PROVE  /\ f.first \in Nat /\ f.last \in Nat /\ f.first >= 1 /\ f.last <= Len(stream)
         /\ f.first + 4 <= f.last /\ Len(stream) \in Nat
         /\ stream[f.first + 1] \in Byte /\ f.last = f.first + stream[f.first + 1] + 3
         /\ f = [first |-> f.first, last |-> f.last]
<1>1. f \in [first : 1 .. Len(stream), last : 1 .. Len(stream)] /\ Len(stream) \in Nat
  BY DEF WellPlaced, Window
<1>2. /\ f.first \in Nat /\ f.last \in Nat /\ f.first >= 1 /\ f.last <= Len(stream)
      /\ f = [first |-> f.first, last |-> f.last]
  BY <1>1
<1>3. f.first + 4 <= f.last /\ f.last = f.first + stream[f.first + 1] + 3
  BY DEF WellPlaced
<1>4. f.first + 1 \in 1 .. Len(stream)
  BY <1>1, <1>2, <1>3
<1>5. stream[f.first + 1] \in Byte
  BY <1>4 DEF Window
<1> QED
  BY <1>1, <1>2, <1>3, <1>5

(* A frame at the front has not all arrived when the callback returns.     *)
LEMMA FrontFrameWaits ==
  ASSUME CallbackInv, pc = "idle", NEW f, WellPlaced(f), f.first = passed + 1
  PROVE  heard < f.last
<1> SUFFICES ASSUME f.last <= heard  PROVE FALSE
  BY PlacedNumbers DEF CallbackInv, Window
<1>1. /\ f.first \in Nat /\ f.last \in Nat /\ f.first + 4 <= f.last
      /\ stream[f.first + 1] \in Byte /\ f.last = f.first + stream[f.first + 1] + 3
      /\ passed \in Nat /\ heard \in Nat /\ Len(buffer) = heard - passed
  BY PlacedNumbers DEF CallbackInv, Window
<1>2. Len(buffer) >= 5
  BY <1>1
<1>3. buffer[2] = stream[passed + 2] /\ Len(buffer) < buffer[2] + 4
  BY <1>1, <1>2, FrontInStream
     DEF CallbackInv, Front, KeepsLessThanAFrame, MCB_MIN_FRAME_SIZE
<1>4. passed + 2 = f.first + 1 /\ stream[f.first + 1] \in Nat
  BY <1>1, ByteIsNatural
<1> QED
  BY <1>1, <1>3, <1>4

LEMMA LongerPlaced ==
  ASSUME Window, Longer, NEW f, WellPlaced(f)
  PROVE  WellPlaced(f)'
<1>1. /\ f.first \in Nat /\ f.last \in Nat /\ f.first >= 1 /\ f.last <= Len(stream)
      /\ f.first + 4 <= f.last /\ Len(stream) \in Nat
  BY PlacedNumbers
<1>2. Len(stream') \in Nat /\ Len(stream') >= Len(stream)
  BY DEF Longer
<1>3. f.first \in 1 .. Len(stream) /\ f.first + 1 \in 1 .. Len(stream) /\ f.last \in 1 .. Len(stream)
  BY <1>1
<1>4. /\ stream'[f.first] = stream[f.first] /\ stream'[f.last] = stream[f.last]
      /\ stream'[f.first + 1] = stream[f.first + 1]
  BY <1>3 DEF Longer
<1>5. f \in [first : 1 .. Len(stream'), last : 1 .. Len(stream')]
  BY <1>1, <1>2 DEF WellPlaced
<1> QED
  BY <1>4, <1>5 DEF WellPlaced

(* Where the board puts a frame.                                           *)
LEMMA NewFrame ==
  ASSUME Window, SendFrame
  PROVE  \E f : /\ intact' = intact \cup {f} /\ WellPlaced(f)'
               /\ f.first = Len(stream) + 1 /\ f.last = Len(stream')
<1>1. PICK f \in Frames :
        /\ stream' = stream \o f
        /\ \E p \in {Place(Len(stream) + 1, Len(f))} : intact' = intact \cup {p}
  BY DEF SendFrame
<1>2. /\ Joined(stream', stream, f) /\ f \in Seq(Byte) /\ Len(f) \in Nat
      /\ Len(f) >= 5 /\ f[1] = STX /\ f[2] = Len(f) - 4 /\ f[Len(f)] = ETX
  BY <1>1, FrameShape, Zenon
<1> DEFINE n == Len(stream)
<1>0. PICK p \in {Place(n + 1, Len(f))} : intact' = intact \cup {p}
  BY <1>1
<1>3. n \in Nat
  BY DEF Window
<1>4. Len(stream') = n + Len(f) /\ \A i \in 1 .. Len(f) : stream'[n + i] = f[i]
  BY <1>2 DEF Joined
<1>5. /\ p = [first |-> n + 1, last |-> n + Len(f)]
      /\ p.first = n + 1 /\ p.last = n + Len(f)
  <2>1. p = Place(n + 1, Len(f)) /\ n + 1 + Len(f) - 1 = n + Len(f)
    BY <1>2, <1>3
  <2> QED
    BY <2>1 DEF Place
<1> HIDE DEF n
<1>6. /\ stream'[p.first] = STX /\ stream'[p.last] = ETX
      /\ stream'[p.first + 1] = Len(f) - 4
  <2>1. 1 \in 1 .. Len(f) /\ 2 \in 1 .. Len(f) /\ Len(f) \in 1 .. Len(f)
    BY <1>2
  <2>2. p.first + 1 = n + 2
    BY <1>3, <1>5
  <2> QED
    BY <1>2, <1>4, <1>5, <2>1, <2>2
<1>7. p \in [first : 1 .. Len(stream'), last : 1 .. Len(stream')]
  BY <1>2, <1>3, <1>4, <1>5
<1>8. p.first + 4 <= p.last /\ p.last = p.first + (Len(f) - 4) + 3
  BY <1>2, <1>3, <1>5
<1>9. WellPlaced(p)'
  BY <1>6, <1>7, <1>8 DEF WellPlaced
<1> QED
  BY <1>0, <1>4, <1>5, <1>9 DEF n

LEMMA FramesInit == Init => IInv
<1> SUFFICES ASSUME Init  PROVE IInv
  OBVIOUS
<1>1. Len(stream) = 0 /\ noise \in 0 .. MaxNoise
  BY StreamAssumption DEF Init
<1> QED
  BY <1>1, CallbackInit
     DEF Init, IInv, Apart, TakenPlaces, PassedTaken, Filled, Between

LEMMA SendFrameStep == IInv /\ SendFrame => IInv'
<1> SUFFICES ASSUME IInv, SendFrame  PROVE IInv'
  OBVIOUS
<1>1. /\ Window /\ Longer /\ CallbackInv'
  BY SendFrameLengthens, LongerKeeps DEF IInv, CallbackInv
<1>2. PICK new : /\ intact' = intact \cup {new} /\ WellPlaced(new)'
                 /\ new.first = Len(stream) + 1 /\ new.last = Len(stream')
  BY <1>1, NewFrame
<1>3. \A f \in intact : WellPlaced(f)
  BY DEF IInv
<1>4. \A f \in intact' : WellPlaced(f)'
  BY <1>1, <1>2, <1>3, LongerPlaced
<1>5. \A f \in intact : /\ f.first \in Nat /\ f.last \in Nat /\ f.last <= Len(stream)
                        /\ f.first + 4 <= f.last
  BY <1>1, <1>3, PlacedNumbers
<1>6. /\ passed \in Nat /\ Len(stream) \in Nat /\ passed <= Len(stream)
      /\ Len(stream') \in Nat /\ Len(stream') >= Len(stream)
  BY <1>1 DEF Window, Longer
<1>7. Apart'
  <2>1. \A f \in intact : f.last < new.first
    BY <1>2, <1>5, <1>6
  <2> QED
    BY <1>2, <2>1 DEF Apart, IInv
<1>8. PassedTaken'
  <2>1. ~(new.first <= passed)
    BY <1>2, <1>6
  <2> QED
    BY <1>1, <1>2, <2>1 DEF PassedTaken, Swallowed, IInv, Longer
<1>9. noise' = noise /\ passed' = passed /\ taken' = taken
  BY DEF SendFrame
<1>10. Filled'
  <2> SUFFICES ASSUME noise = 0  PROVE Filled'
    BY <1>9 DEF Filled
  <2>1. /\ Between(passed) /\ \A f \in intact : Between(f.last)
        /\ \A f \in intact : passed < f.first \/ f.last <= passed
        /\ taken = {f \in intact : f.last <= passed}
    BY DEF IInv, Filled
  <2>2. ASSUME NEW p, Between(p)
        PROVE  Between(p)'
    BY <1>2, <2>2 DEF Between
  <2>3. Between(passed)' /\ \A f \in intact : Between(f.last)'
    <3>1. Between(passed)'
      <4>1. PICK p : p = passed /\ p = passed'
        BY <1>9
      <4>2. Between(p)'
        BY <2>1, <2>2, <4>1
      <4> QED
        BY <4>1, <4>2 DEF Between
    <3> QED
      BY <2>1, <2>2, <3>1
  <2>4. Between(new.last)'
    BY <1>2 DEF Between
  <2>5. passed < new.first /\ ~(new.last <= passed)
    <3>1. new.last \in Nat /\ new.first <= new.last
      BY <1>1, <1>2, <1>6 DEF WellPlaced, Longer
    <3> QED
      BY <1>2, <1>6, <3>1
  <2> QED
    BY <1>2, <1>9, <2>1, <2>3, <2>4, <2>5 DEF Filled
<1> QED
  BY <1>1, <1>4, <1>7, <1>8, <1>9, <1>10 DEF IInv, TakenPlaces

LEMMA SendNoiseStep == IInv /\ SendNoise => IInv'
<1> SUFFICES ASSUME IInv, SendNoise  PROVE IInv'
  OBVIOUS
<1>1. /\ Window /\ Longer /\ CallbackInv'
  BY SendNoiseLengthens, LongerKeeps DEF IInv, CallbackInv
<1>2. intact' = intact /\ passed' = passed /\ taken' = taken
  BY DEF SendNoise
<1>3. noise' \in 0 .. MaxNoise /\ noise' # 0
  BY StreamAssumption DEF SendNoise, IInv
<1>4. \A f \in intact' : WellPlaced(f)'
  BY <1>1, <1>2, LongerPlaced DEF IInv
<1> QED
  BY <1>1, <1>2, <1>3, <1>4
     DEF IInv, Apart, TakenPlaces, PassedTaken, Swallowed, Filled

LEMMA DeliverStep == IInv /\ Deliver => IInv'
<1> SUFFICES ASSUME IInv, Deliver  PROVE IInv'
  OBVIOUS
<1>1. CallbackInv' /\ UNCHANGED <<line, passed, taken>>
  BY DeliverKeeps DEF IInv, Deliver
<1> QED
  BY <1>1 DEF IInv, Apart, TakenPlaces, PassedTaken, Swallowed, Filled, Between, WellPlaced, line

(* The frame in front of the scanner, if nothing else is on the line.      *)
LEMMA NothingSkipped ==
  ASSUME IInv, noise = 0, passed < Len(stream)
  PROVE  \E f \in intact : f.first = passed + 1 /\ Scanner!LastOf(passed + 1) = f.last
<1>1. PICK f \in intact : f.first = passed + 1
  BY DEF IInv, Filled, Between, CallbackInv, Window
<1>2. /\ f.last = f.first + stream[f.first + 1] + 3
  BY DEF IInv, WellPlaced
<1> QED
  BY <1>1, <1>2 DEF Scanner!LastOf

LEMMA SkippedStep ==
  ASSUME IInv, Through, Scanner!Skip
  PROVE  PassedTaken' /\ TakenPlaces' /\ Filled'
<1>1. UNCHANGED <<line, taken>>
  BY DEF Through, Scanner!Skip
<1>2. /\ passed \in Nat /\ passed' \in passed + 1 .. Len(stream)
      /\ \A i \in passed + 1 .. passed' : stream[i] # STX
  BY DEF IInv, CallbackInv, Window, Scanner!Skip, Scanner!STX, STX
<1>3. \A f \in intact : f.first \in Nat /\ stream[f.first] = STX
  BY PlacedNumbers DEF IInv, CallbackInv, WellPlaced
<1>4. \A f \in intact : f.first <= passed' => f.first <= passed
  BY <1>2, <1>3
<1>5. PassedTaken'
  BY <1>1, <1>4 DEF PassedTaken, Swallowed, IInv, line
<1>6. TakenPlaces'
  BY <1>1, <1>2 DEF TakenPlaces, IInv
<1>7. Filled'
  <2>1. ASSUME noise = 0  PROVE FALSE
    <3>1. passed < Len(stream)
      BY <1>2 DEF IInv, CallbackInv, Window
    <3>2. PICK f \in intact : f.first = passed + 1
      BY <2>1, <3>1, NothingSkipped
    <3> QED
      BY <1>2, <1>3, <3>2
  <2> QED
    BY <1>1, <2>1 DEF Filled, line
<1> QED
  BY <1>5, <1>6, <1>7

LEMMA GivenUpStep ==
  ASSUME IInv, Through, Scanner!GiveUp, passed' = passed + 1
  PROVE  PassedTaken' /\ TakenPlaces' /\ Filled'
<1>1. UNCHANGED <<line, taken>>
  BY DEF Through, Scanner!GiveUp
<1>2. /\ passed \in Nat /\ passed + 1 < Len(stream)
      /\ stream[Scanner!LastOf(passed + 1)] # ETX
  BY DEF IInv, CallbackInv, Window, Scanner!GiveUp, Scanner!WholeAt, Scanner!ETX, ETX
<1>3. \A f \in intact : /\ f.first \in Nat /\ stream[f.last] = ETX
                        /\ f.last = f.first + stream[f.first + 1] + 3
  BY PlacedNumbers DEF IInv, CallbackInv, WellPlaced
<1>4. \A f \in intact : f.first # passed + 1
  BY <1>2, <1>3 DEF Scanner!LastOf
<1>5. PassedTaken'
  <2>1. \A f \in intact : f.first <= passed' => f.first <= passed
    BY <1>2, <1>3, <1>4
  <2> QED
    BY <1>1, <2>1 DEF PassedTaken, Swallowed, IInv, line
<1>6. TakenPlaces'
  BY <1>1, <1>2 DEF TakenPlaces, IInv
<1>7. Filled'
  <2>1. ASSUME noise = 0  PROVE FALSE
    <3>1. passed < Len(stream)
      BY <1>2 DEF IInv, CallbackInv, Window
    <3> QED
      BY <1>4, <2>1, <3>1, NothingSkipped
  <2> QED
    BY <1>1, <2>1 DEF Filled, line
<1> QED
  BY <1>5, <1>6, <1>7

LEMMA TakenStep ==
  ASSUME IInv, Through, Scanner!Take
  PROVE  PassedTaken' /\ TakenPlaces' /\ Filled'
<1>1. UNCHANGED line
  BY DEF Through
<1>2. PICK t : /\ t = [first |-> passed + 1, last |-> Scanner!LastOf(passed + 1)]
               /\ taken' = taken \cup {t} /\ passed' = t.last
  <2>1. passed' = Scanner!LastOf(passed + 1)
    BY DEF Scanner!Take
  <2>2. taken' = taken \cup {[first |-> passed + 1, last |-> passed']}
    BY DEF Scanner!Take
  <2>3. PICK r : r = [first |-> passed + 1, last |-> Scanner!LastOf(passed + 1)]
    OBVIOUS
  <2>4. r.last = passed' /\ taken' = taken \cup {r}
    BY <2>1, <2>2, <2>3
  <2> QED
    BY <2>3, <2>4
<1>3. /\ passed \in Nat /\ passed + 1 < Len(stream) /\ Len(stream) \in Nat
      /\ t.first = passed + 1 /\ t.last \in Nat /\ t.first <= t.last
      /\ t.last <= Len(stream)
  <2>1. passed \in Nat /\ passed + 1 < Len(stream) /\ Len(stream) \in Nat
    BY DEF IInv, CallbackInv, Window, Scanner!Take, Scanner!WholeAt
  <2>2. stream[passed + 1 + 1] \in Nat
    <3>1. passed + 1 + 1 \in 1 .. Len(stream)
      BY <2>1
    <3> QED
      BY <3>1, ByteIsNatural DEF IInv, CallbackInv, Window
  <2>3. t.first = passed + 1 /\ t.last = passed + 1 + stream[passed + 1 + 1] + 3
    BY <1>2 DEF Scanner!LastOf
  <2>4. Scanner!LastOf(passed + 1) <= Len(stream)
    BY DEF Scanner!Take, Scanner!WholeAt
  <2> QED
    BY <1>2, <2>1, <2>2, <2>3, <2>4
<1>4. \A f \in intact : /\ f.first \in Nat /\ f.last \in Nat /\ f.first <= f.last
                        /\ f.last = f.first + stream[f.first + 1] + 3
                        /\ f = [first |-> f.first, last |-> f.last]
  BY PlacedNumbers DEF IInv, CallbackInv
<1>5. \A f \in intact : f.first = passed + 1 => f = t
  BY <1>2, <1>4 DEF Scanner!LastOf
<1>6. PassedTaken'
  <2> SUFFICES ASSUME NEW f \in intact, f.first <= passed'
               PROVE  f \in taken' \/ Swallowed(f)'
    BY <1>1 DEF PassedTaken, line
  <2>1. CASE f.first <= passed
    BY <1>2, <2>1 DEF IInv, PassedTaken, Swallowed
  <2>2. CASE f.first = passed + 1
    BY <1>2, <1>5, <2>2
  <2>3. CASE f.first > passed + 1
    BY <1>2, <1>3, <2>3 DEF Swallowed
  <2> QED
    BY <1>3, <1>4, <2>1, <2>2, <2>3
<1>7. TakenPlaces'
  <2>1. t \in [first : 1 .. passed', last : 1 .. passed']
    BY <1>2, <1>3
  <2>2. taken \subseteq [first : 1 .. passed', last : 1 .. passed']
    BY <1>2, <1>3 DEF TakenPlaces, IInv
  <2> QED
    BY <1>2, <2>1, <2>2 DEF TakenPlaces
<1>8. Filled'
  <2> SUFFICES ASSUME noise = 0  PROVE Filled'
    BY <1>1 DEF Filled, line
  <2>1. t \in intact
    <3>1. passed < Len(stream)
      BY <1>3
    <3> QED
      BY <1>5, <3>1, NothingSkipped
  <2>2. /\ \A f \in intact : Between(f.last)
        /\ \A f \in intact : passed < f.first \/ f.last <= passed
        /\ taken = {f \in intact : f.last <= passed}
    BY DEF IInv, Filled
  <2>3. \A f \in intact : f = t \/ f.last < t.first \/ t.last < f.first
    BY <2>1 DEF Apart, IInv
  <2>4. \A f \in intact : passed' < f.first \/ f.last <= passed'
    BY <1>2, <1>3, <1>4, <2>3
  <2>5. \A f \in intact : f.last <= passed' <=> f = t \/ f.last <= passed
    BY <1>2, <1>3, <1>4, <2>3
  <2>6. taken' = {f \in intact : f.last <= passed'}
    BY <1>2, <2>1, <2>2, <2>5
  <2>7. /\ intact' = intact /\ stream' = stream /\ Between(t.last)
    BY <1>1, <2>1, <2>2 DEF line
  <2>8. Between(passed)' /\ \A f \in intact' : Between(f.last)'
    BY <1>2, <2>2, <2>7 DEF Between
  <2> QED
    BY <2>4, <2>6, <2>7, <2>8 DEF Filled
<1> QED
  BY <1>6, <1>7, <1>8

LEMMA CallbackFrames == IInv /\ Callback => IInv'
<1> SUFFICES ASSUME IInv, Callback  PROVE IInv'
  OBVIOUS
<1>1. Through
  BY CallbackShape DEF IInv
<1>2. CallbackInv' /\ UNCHANGED line
  BY <1>1 DEF Through
<1>3. PassedTaken' /\ TakenPlaces' /\ Filled'
  <2>1. CASE UNCHANGED <<passed, taken>>
    BY <1>2, <2>1
       DEF line, PassedTaken, TakenPlaces, Filled, Swallowed, Between, IInv
  <2> QED
    BY <1>1, <2>1, SkippedStep, GivenUpStep, TakenStep DEF Through, Scans
<1>4. (\A f \in intact : WellPlaced(f))' /\ (noise \in 0 .. MaxNoise)' /\ Apart'
  BY <1>2 DEF IInv, WellPlaced, Apart, line
<1> QED
  BY <1>2, <1>3, <1>4 DEF IInv

(***************************************************************************)
(* The inductive invariant.  That an intact frame has been handed on is    *)
(* not inductive: it needs that the scanner can neither skip nor give up   *)
(* the place where one begins, and for a line with nothing else on it that *)
(* the frames fill it.                                                     *)
(***************************************************************************)
THEOREM Invariance == Spec => []IInv
<1>1. IInv /\ [Next]_vars => IInv'
  <2> SUFFICES ASSUME IInv, UNCHANGED vars  PROVE IInv'
    BY SendFrameStep, SendNoiseStep, DeliverStep, CallbackFrames DEF Next
  <2> QED
    BY DEF vars, line, IInv, CallbackInv, Window, Front, KeepsLessThanAFrame, WellPlaced,
           Apart, TakenPlaces, PassedTaken, Filled, Swallowed, Between
<1> QED
  BY <1>1, FramesInit, PTL DEF Spec

(* The types of the state, for any stream.                                 *)
THEOREM TypeCorrect == Spec => []TypeOK
<1>1. IInv => TypeOK
  <2> SUFFICES ASSUME IInv  PROVE TypeOK
    OBVIOUS
  <2>1. \A f \in intact : f \in [first : 1 .. Len(stream), last : 1 .. Len(stream)]
    BY DEF IInv, WellPlaced
  <2> QED
    BY <2>1 DEF IInv, CallbackInv, Window, Front, TakenPlaces, TypeOK
<1> QED
  BY <1>1, Invariance, PTL

(***************************************************************************)
(* Resynchronisation, whatever is on the line: an intact frame that was    *)
(* received has been handed on when the callback returns, or a false start *)
(* before it explains why not.                                             *)
(***************************************************************************)
THEOREM Resynchronises == Spec => []IntactFramesArrive
<1>1. IInv => IntactFramesArrive
  <2> SUFFICES ASSUME IInv, pc = "idle", NEW f \in intact, f.last <= heard,
                      f \notin taken, ~Swallowed(f)
               PROVE  BehindFalseStart(f)
    BY DEF IntactFramesArrive
  <2>1. Window /\ WellPlaced(f) /\ ~(f.first <= passed)
    BY DEF IInv, CallbackInv, PassedTaken
  <2>2. /\ f.first \in Nat /\ f.last \in Nat /\ f.first + 4 <= f.last
        /\ passed \in Nat /\ heard \in Nat /\ Len(buffer) = heard - passed
    BY <2>1, PlacedNumbers DEF Window
  <2>3. f.first # passed + 1
    BY <2>1, <2>2, FrontFrameWaits DEF IInv
  <2>4. passed + 1 < f.first /\ Len(buffer) >= 5
    BY <2>1, <2>2, <2>3
  <2>5. buffer[1] = STX /\ Len(buffer) < buffer[2] + 4
    BY <2>2, <2>4 DEF IInv, CallbackInv, Front, KeepsLessThanAFrame, MCB_MIN_FRAME_SIZE
  <2>6. /\ buffer[1] = stream[passed + 1] /\ buffer[2] = stream[passed + 2]
        /\ stream[passed + 2] \in Nat
    BY <2>1, <2>2, <2>4, FrontInStream, ByteIsNatural
  <2>7. heard < passed + stream[passed + 2] + 4
    BY <2>2, <2>5, <2>6
  <2> QED
    BY <2>4, <2>5, <2>6, <2>7 DEF BehindFalseStart
<1> QED
  BY <1>1, Invariance, PTL

(***************************************************************************)
(* Where there is nothing on the line but frames, exactly those that were  *)
(* received are handed on, in whatever pieces they came.                   *)
(***************************************************************************)
THEOREM CleanStreamsAreCut == Spec => []CleanStreamArrives
<1>1. IInv => CleanStreamArrives
  <2> SUFFICES ASSUME IInv, pc = "idle", noise = 0
               PROVE  taken = {f \in intact : f.last <= heard}
    BY DEF CleanStreamArrives
  <2>1. /\ taken = {f \in intact : f.last <= passed} /\ passed <= heard
        /\ passed \in Nat /\ heard \in Nat /\ heard <= Len(stream) /\ Len(stream) \in Nat
    BY DEF IInv, Filled, CallbackInv, Window
  <2>2. ASSUME NEW f \in intact, f.last <= heard
        PROVE  f.last <= passed
    <3> SUFFICES ASSUME passed < f.last  PROVE FALSE
      BY <2>1, PlacedNumbers DEF IInv, CallbackInv
    <3>1. passed < Len(stream)
      BY <2>1, <2>2, PlacedNumbers DEF IInv, CallbackInv
    <3>2. PICK g \in intact : g.first = passed + 1
      BY <3>1, NothingSkipped
    <3>3. heard < g.last
      BY <3>2, FrontFrameWaits DEF IInv
    <3>4. /\ f.first \in Nat /\ f.last \in Nat /\ f.first <= f.last
          /\ g.first \in Nat /\ g.last \in Nat
      BY PlacedNumbers DEF IInv, CallbackInv
    <3>5. passed < f.first
      BY <2>1, <3>4 DEF IInv, Filled
    <3>6. f = g \/ f.last < g.first \/ g.last < f.first
      BY DEF IInv, Apart
    <3> QED
      BY <2>1, <2>2, <3>2, <3>3, <3>4, <3>5, <3>6
  <2>3. \A f \in intact : f.last <= passed => f.last <= heard
    BY <2>1, PlacedNumbers DEF IInv, CallbackInv
  <2> QED
    BY <2>1, <2>2, <2>3
<1> QED
  BY <1>1, Invariance, PTL
=============================================================================
