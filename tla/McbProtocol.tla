----------------------------- MODULE McbProtocol -----------------------------
(***************************************************************************)
(* The framing of protocols::mcb_keyboard::MCBProtocol, as operators on    *)
(* sequences of bytes:                                                     *)
(*                                                                         *)
(*   STX, 1 + size of payload, command, payload, checksum, ETX             *)
(*                                                                         *)
(* Sequences count from 1 where the vectors of the code count from 0.      *)
(* A name with a suffix (SizeAgrees_Loose) is a broken variant of the      *)
(* definition that follows it, used to check that a property can fail.     *)
(***************************************************************************)
EXTENDS Integers, Sequences

Byte == 0 .. 255

STX == 2
ETX == 3
MCB_MIN_FRAME_SIZE == 5

(* The largest payload whose size still fits the length byte.              *)
MaxPayload == 254

UNKNOWN == 255

(* The enumeration MCBCommand, without UNKNOWN: reads 0x51-0x56, 0x5A-0x5F, *)
(* writes 0x61-0x6F, keyboard 0x70-0x72 and 0x78-0x7B.                     *)
MCBCommand == (81 .. 86) \cup (90 .. 95) \cup (97 .. 111) \cup (112 .. 114) \cup (120 .. 123)

(* Those of them toMCBCommand has a case for: READ_FIRMWARE, READ_STATUS,  *)
(* READ_ANALOG_INPUT, READ_CHAVE_LIGA, READ_DATA_HORA, WRITE_DIGITAL_OUT.  *)
Recognised == {81, 82, 84, 90, 91, 99}

toMCBCommand(b) == IF b \in Recognised THEN b ELSE UNKNOWN

(* The sum of the bytes of a payload (a uint32_t, far from overflowing).    *)
SumOf(payload) ==
  LET sum[n \in 0 .. Len(payload)] == IF n = 0 THEN 0 ELSE sum[n - 1] + payload[n]
  IN  sum[Len(payload)]

calculateChecksum_NoCommand(cmd, payload) == SumOf(payload) % 256

calculateChecksum(cmd, payload) == (cmd + SumOf(payload)) % 256

LengthByte_NoCommand(payload) == Len(payload) % 256

LengthByte(payload) == (1 + Len(payload)) % 256

buildFrame(cmd, payload) ==
  <<STX, LengthByte(payload), cmd>> \o payload
    \o <<calculateChecksum(cmd, payload), ETX>>

-----------------------------------------------------------------------------
(* parseFrame()                                                            *)

Delimited(buffer) ==
  /\ Len(buffer) >= MCB_MIN_FRAME_SIZE
  /\ buffer[1] = STX /\ buffer[Len(buffer)] = ETX

SizeAgrees_Loose(buffer) == Len(buffer) >= buffer[2] + 3

SizeAgrees(buffer) == Len(buffer) = buffer[2] + 4

DataOf(buffer) == SubSeq(buffer, 4, buffer[2] + 2)

ChecksumAgrees(buffer) ==
  buffer[buffer[2] + 3] = calculateChecksum(toMCBCommand(buffer[3]), DataOf(buffer))

Accepts(buffer) == Delimited(buffer) /\ SizeAgrees(buffer) /\ ChecksumAgrees(buffer)

Rejected == [ok |-> FALSE, command |-> UNKNOWN, data |-> <<>>]

parseFrame(buffer) ==
  IF Accepts(buffer)
    THEN [ok |-> TRUE, command |-> toMCBCommand(buffer[3]), data |-> DataOf(buffer)]
    ELSE Rejected

-----------------------------------------------------------------------------
(***************************************************************************)
(* receive() of the transport cuts the byte stream after the first ETX,    *)
(* whatever that byte is part of; without one it ends in an exception.     *)
(***************************************************************************)
EtxAt(stream) == {i \in 1 .. Len(stream) : stream[i] = ETX}

receive(stream) ==
  IF EtxAt(stream) = {} THEN <<>>
  ELSE SubSeq(stream, 1, CHOOSE i \in EtxAt(stream) : \A j \in EtxAt(stream) : i <= j)
=============================================================================
