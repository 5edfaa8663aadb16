------------------------------ MODULE Commands ------------------------------
(***************************************************************************)
(* The commands of src/libraries/command: what each one sends, which       *)
(* values it refuses, how much of a reply it asks for and what it makes of *)
(* it.  They share one connection.  Its frames carry nothing that would    *)
(* tell which request a reply belongs to (module Exchange), so that a call *)
(* takes the first reply there is, perhaps that to an earlier call which   *)
(* gave up waiting.                                                        *)
(*                                                                         *)
(* The value of a setting, given to a command or returned by one, is the   *)
(* sequence of the fields of the struct or of the parameters, flags as 0   *)
(* and 1.  A setting is named by the command that reads it, or by the one  *)
(* that writes it if none does, and by its address, 0 if it has none.      *)
(*                                                                         *)
(* Sequences count from 1 where the vectors of the code count from 0.  A   *)
(* name with a suffix (ReadDataHora_Shifted) is a broken variant of the    *)
(* definition that follows it, used to check that a property can fail.     *)
(***************************************************************************)
EXTENDS Integers, Sequences

CONSTANTS
  MaxCalls,    \* bound: how many calls are sent
  MaxChanges,  \* bound: how often the board changes by itself
  Factory,     \* the values of the board's settings at first
  Others,      \* of each setting the board changes by itself, other values
  Ports,       \* the addresses used
  Octets,      \* the one-byte values used
  Words,       \* the two-byte values used
  Clocks       \* the dates used: second, minute, hour, weekday, day, month,
               \* year, control

Byte == 0 .. 255
Word == {n \in Nat : n < 65536}
Keys == 0 .. 127

(* The command codes.                                                      *)
MCB == [
  READ_FIRMWARE |-> 81, READ_STATUS |-> 82, READ_INPUT_DIGITAL |-> 83,
  READ_ANALOG_INPUT |-> 84, READ_SENSOR_DISTANCE |-> 85, READ_STATUS_SPECIAL |-> 86,
  READ_CHAVE_LIGA |-> 90, READ_DATA_HORA |-> 91, READ_MAC_PC |-> 92,
  READ_INFO1 |-> 93, READ_INFO2 |-> 94, READ_INFO3 |-> 95,
  WRITE_SPECIAL |-> 97, WRITE_CONFIG |-> 98, WRITE_DIGITAL_OUT |-> 99,
  WRITE_ANALOG_OUT |-> 100, WRITE_NETWORK_CONFIG |-> 101, WRITE_MAC |-> 102,
  WRITE_BAUD_UART1 |-> 103, WRITE_BAUD_UART2 |-> 104, WRITE_DIGITAL_TIMER |-> 105,
  DESLIGA_MCB |-> 106, WRITE_DATA_HORA |-> 107, WRITE_MAC_PC |-> 108,
  WRITE_INFO1 |-> 109, WRITE_INFO2 |-> 110, WRITE_INFO3 |-> 111,
  CMD_KEY_PRESSED |-> 112, CMD_VERSION |-> 113, CMD_KEY_RELEASED |-> 114,
  CMD_LED_TECLA |-> 120, CMD_BUZZER |-> 121, CMD_BEEP_TECLA |-> 122]

Addressed ==
  {MCB.READ_INPUT_DIGITAL, MCB.READ_ANALOG_INPUT, MCB.READ_SENSOR_DISTANCE,
   MCB.WRITE_SPECIAL, MCB.WRITE_CONFIG, MCB.WRITE_DIGITAL_OUT, MCB.WRITE_ANALOG_OUT,
   MCB.WRITE_DIGITAL_TIMER, MCB.CMD_LED_TECLA}

(* Those that write what the command 16 below reads.                       *)
Paired == MCB.WRITE_DATA_HORA .. MCB.WRITE_INFO3

Infos == MCB.READ_INFO1 .. MCB.READ_INFO3

Settings == DOMAIN Factory
Power    == <<MCB.DESLIGA_MCB, 0>>
Switch   == <<MCB.READ_CHAVE_LIGA, 0>>
Clock    == <<MCB.READ_DATA_HORA, 0>>

(* The settings the commands are about.                                    *)
Named ==
  {<<code, p>> : code \in Addressed \ {MCB.READ_SENSOR_DISTANCE}, p \in Ports}
    \cup {MCB.READ_SENSOR_DISTANCE} \X {0, 1}
    \cup {<<MCB[name], 0>> : name \in {x \in DOMAIN MCB : MCB[x] \notin Addressed \cup Paired}}

(* Where the year is in a date; it is the only field of 16 bits.           *)
Year == 7

(* What the board may tell of a setting, named by the code that reads it.  *)
Values(code) ==
  CASE code = MCB.READ_STATUS -> [1 .. 16 -> {0, 1}]
    [] code = MCB.READ_STATUS_SPECIAL -> [1 .. 2 -> {0, 1}]
    [] code \in {MCB.READ_INPUT_DIGITAL, MCB.READ_CHAVE_LIGA} -> [1 .. 1 -> {0, 1}]
    [] code \in {MCB.READ_ANALOG_INPUT, MCB.READ_SENSOR_DISTANCE} -> [1 .. 1 -> Word]
    [] code = MCB.READ_FIRMWARE -> [1 .. 3 -> Byte]
    [] code = MCB.READ_DATA_HORA -> [1 .. 8 -> Byte]
    [] code = MCB.READ_MAC_PC -> [1 .. 6 -> Byte]
    [] code \in Infos -> [1 .. 15 -> Byte]
    [] code = MCB.CMD_KEY_PRESSED -> {v \in [1 .. 2 -> Keys] : v[2] <= 1}
    [] code = MCB.CMD_KEY_RELEASED -> [1 .. 1 -> Keys]
    [] code = MCB.CMD_VERSION -> [1 .. 2 -> Byte]
    [] OTHER -> Seq(Nat)

ASSUME CommandsAssumption ==
  /\ MaxCalls \in Nat /\ MaxChanges \in Nat
  /\ Factory \in [Settings -> Seq(Nat)] /\ Named \subseteq Settings
  /\ \A k \in Settings : Factory[k] \in Values(k[1])
  /\ DOMAIN Others \subseteq Settings \ {Power}
  /\ \A k \in DOMAIN Others : Others[k] \subseteq Values(k[1])
  /\ Ports \subseteq Byte /\ Octets \subseteq Byte /\ Words \subseteq Word
  /\ \A d \in Clocks :
       d \in [1 .. 8 -> Word] /\ \A i \in 1 .. 8 : i = Year \/ d[i] \in Byte

VARIABLES
  board,     \* the values of the board's settings
  changes,   \* history: how often it changed by itself
  requests,  \* the requests the board has yet to look at
  replies,   \* the replies on their way, or waiting in the receive buffer
  call,      \* the call in progress: its number, setting, value and code
  calls,     \* history: how many requests were sent
  since,     \* history: how many of them before the connection was opened
  exact,     \* history: whether no call has failed since then
  got        \* history: the last call that returned, with what it returned

vars == <<board, changes, requests, replies, call, calls, since, exact, got>>

NoCall == [n |-> 0, of |-> <<>>, want |-> <<>>, code |-> 0]

(* A reply parseFrame() rejects, or accepts as empty.                      *)
Unreadable == [to |-> 0, data |-> <<>>, value |-> <<>>]

Init ==
  /\ board = Factory /\ changes = 0 /\ requests = <<>> /\ replies = <<>>
  /\ call = NoCall /\ calls = 0 /\ since = 0 /\ exact = TRUE
  /\ got = [n |-> 0, of |-> <<>>, value |-> <<>>]

-----------------------------------------------------------------------------
(* sendCommand() and the ends of execute()                                 *)

(***************************************************************************)
(* A command object is made and executed, and its request is sent.  If the *)
(* constructor throws, or send() fails, nothing has happened: that is no   *)
(* step and not counted as a call that failed.  want is what the setting   *)
(* `of' is to become, <<>> if it is only read.                             *)
(***************************************************************************)
Ask(code, payload, of, want) ==
  /\ call = NoCall /\ calls < MaxCalls
  /\ calls' = calls + 1
  /\ call' = [n |-> calls', of |-> of, want |-> want, code |-> code]
  /\ requests' = Append(requests,
       [n |-> calls', of |-> of, want |-> want, code |-> code, payload |-> payload])
  /\ UNCHANGED <<board, changes, replies, since, exact, got>>

Return(value) ==
  /\ got' = [n |-> call.n, of |-> call.of, value |-> value]
  /\ call' = NoCall /\ UNCHANGED <<exact, calls>>

Throw == call' = NoCall /\ exact' = FALSE /\ UNCHANGED <<got, calls>>

(* A call of the command takes the next reply, and throws if that has less *)
(* than the bytes it needs.                                                *)
Take(code, least, Decode(_)) ==
  /\ call.code = code /\ replies # <<>> /\ Head(replies) # Unreadable
  /\ replies' = Tail(replies)
  /\ LET data == Head(replies).data IN
       IF Len(data) >= least THEN Return(Decode(data)) ELSE Throw
  /\ UNCHANGED <<board, changes, requests, since>>

(* The bytes as they are, the first n of them.                             *)
First(n, data) == SubSeq(data, 1, n)

(* 1 or 0: whether the bit of the mask is set.                             *)
Bit(byte, mask) == (byte \div mask) % 2

Masks == <<1, 2, 4, 8, 16, 32, 64, 128>>

Flags(byte, n) == [i \in 1 .. n |-> Bit(byte, Masks[i])]

(* 500 ms without a reply, or one parseFrame() rejects.                    *)
CallThrows ==
  /\ call # NoCall
  /\ \/ replies = <<>> /\ replies' = <<>>
     \/ replies # <<>> /\ Head(replies) = Unreadable /\ replies' = Tail(replies)
  /\ Throw /\ UNCHANGED <<board, changes, requests, since>>

(* Mutant: what was received before is kept.                               *)
Reopen_KeepsReplies ==
  /\ call = NoCall /\ since < calls
  /\ since' = calls /\ exact' = TRUE
  /\ UNCHANGED <<board, changes, requests, replies, call, calls, got>>

(* disconnect() and connect().  What was sent before may still reach the   *)
(* board; no reply to it can reach the application.                        *)
Reopen ==
  /\ call = NoCall /\ since < calls
  /\ since' = calls /\ exact' = TRUE /\ replies' = <<>>
  /\ UNCHANGED <<board, changes, requests, call, calls, got>>

-----------------------------------------------------------------------------
(* The commands that read                                                  *)

Read(code, payload, of) == Ask(code, payload, of, <<>>)

ReadFirmware ==
  \/ Read(MCB.READ_FIRMWARE, <<>>, <<MCB.READ_FIRMWARE, 0>>)
  \/ Take(MCB.READ_FIRMWARE, 3, LAMBDA data : First(3, data))

ReadStatus ==
  \/ Read(MCB.READ_STATUS, <<>>, <<MCB.READ_STATUS, 0>>)
  \/ Take(MCB.READ_STATUS, 2, LAMBDA data : Flags(data[1], 8) \o Flags(data[2], 8))

ReadInputDigital ==
  \/ \E p \in Ports : Read(MCB.READ_INPUT_DIGITAL, <<p>>, <<MCB.READ_INPUT_DIGITAL, p>>)
  \/ Take(MCB.READ_INPUT_DIGITAL, 1, LAMBDA data : <<IF data[1] # 0 THEN 1 ELSE 0>>)

ReadAnalogInput ==
  \/ \E p \in Ports : Read(MCB.READ_ANALOG_INPUT, <<p>>, <<MCB.READ_ANALOG_INPUT, p>>)
  \/ Take(MCB.READ_ANALOG_INPUT, 2, LAMBDA data : <<data[1] * 256 + data[2]>>)

(* Mutant: the bytes are signed.                                           *)
ReadSensorDistance_Signed ==
  \/ \E mode \in {0, 1} :
       Read(MCB.READ_SENSOR_DISTANCE, <<mode>>, <<MCB.READ_SENSOR_DISTANCE, mode>>)
  \/ Take(MCB.READ_SENSOR_DISTANCE, 2,
          LAMBDA data : <<(IF data[1] > 127 THEN data[1] - 256 ELSE data[1]) * 256 + data[2]>>)

ReadSensorDistance ==
  \/ \E mode \in {0, 1} :
       Read(MCB.READ_SENSOR_DISTANCE, <<mode>>, <<MCB.READ_SENSOR_DISTANCE, mode>>)
  \/ Take(MCB.READ_SENSOR_DISTANCE, 2, LAMBDA data : <<data[1] * 256 + data[2]>>)

ReadStatusSpecial ==
  \/ Read(MCB.READ_STATUS_SPECIAL, <<>>, <<MCB.READ_STATUS_SPECIAL, 0>>)
  \/ Take(MCB.READ_STATUS_SPECIAL, 1, LAMBDA data : Flags(data[1], 2))

ReadChaveLiga ==
  \/ Read(MCB.READ_CHAVE_LIGA, <<>>, Switch)
  \/ Take(MCB.READ_CHAVE_LIGA, 1, LAMBDA data : <<IF data[1] # 0 THEN 1 ELSE 0>>)

(* Mutant: from the first byte on, the reserved one.                       *)
ReadDataHora_Shifted ==
  \/ Read(MCB.READ_DATA_HORA, <<>>, Clock)
  \/ Take(MCB.READ_DATA_HORA, 9, LAMBDA data : First(8, data))

ReadDataHora ==
  \/ Read(MCB.READ_DATA_HORA, <<>>, Clock)
  \/ Take(MCB.READ_DATA_HORA, 9, LAMBDA data : Tail(First(9, data)))

ReadMacPc ==
  \/ Read(MCB.READ_MAC_PC, <<>>, <<MCB.READ_MAC_PC, 0>>)
  \/ Take(MCB.READ_MAC_PC, 6, LAMBDA data : First(6, data))

ReadInfo1 ==
  \/ Read(MCB.READ_INFO1, <<>>, <<MCB.READ_INFO1, 0>>)
  \/ Take(MCB.READ_INFO1, 15, LAMBDA data : First(15, data))

ReadInfo2 ==
  \/ Read(MCB.READ_INFO2, <<>>, <<MCB.READ_INFO2, 0>>)
  \/ Take(MCB.READ_INFO2, 15, LAMBDA data : First(15, data))

ReadInfo3 ==
  \/ Read(MCB.READ_INFO3, <<>>, <<MCB.READ_INFO3, 0>>)
  \/ Take(MCB.READ_INFO3, 15, LAMBDA data : First(15, data))

(* The code of the key, and whether shift was held.                        *)
ReadKeyPressed ==
  \/ Read(MCB.CMD_KEY_PRESSED, <<>>, <<MCB.CMD_KEY_PRESSED, 0>>)
  \/ Take(MCB.CMD_KEY_PRESSED, 1, LAMBDA data : <<data[1] % 128, Bit(data[1], 128)>>)

ReadKeyReleased ==
  \/ Read(MCB.CMD_KEY_RELEASED, <<>>, <<MCB.CMD_KEY_RELEASED, 0>>)
  \/ Take(MCB.CMD_KEY_RELEASED, 1, LAMBDA data : <<data[1] % 128>>)

ReadVersion ==
  \/ Read(MCB.CMD_VERSION, <<>>, <<MCB.CMD_VERSION, 0>>)
  \/ Take(MCB.CMD_VERSION, 2, LAMBDA data : First(2, data))

-----------------------------------------------------------------------------
(* The commands that write                                                 *)

(* Most settings that are written take their bytes as they are.            *)
Write(code, of, want) == Ask(code, want, of, want)
WriteAt(code, address, want) == Ask(code, <<address>> \o want, <<code, address>>, want)

High(word) == word \div 256
Low(word)  == word % 256

(* n different bytes, or n zeros.                                          *)
Block(n, octet) == [i \in 1 .. n |-> IF octet = 0 THEN 0 ELSE (octet + i) % 256]
AllZero(block)  == \A i \in DOMAIN block : block[i] = 0

WriteSpecial ==
  \E p \in Ports, v \in Octets : WriteAt(MCB.WRITE_SPECIAL, p, <<v>>)

WriteConfig ==
  \E p \in Ports : \E v \in {Block(n, 7) : n \in 0 .. 3} :
    Len(v) \in 1 .. 2 /\ WriteAt(MCB.WRITE_CONFIG, p, v)

WriteDigitalOut ==
  \E p \in Ports, v \in Octets : v <= 1 /\ WriteAt(MCB.WRITE_DIGITAL_OUT, p, <<v>>)

WriteAnalogOut ==
  \E p \in Ports, v \in Octets : WriteAt(MCB.WRITE_ANALOG_OUT, p, <<v>>)

(* ip, mask, gateway and dns.                                              *)
WriteNetworkConfig ==
  \E v \in Octets :
    Write(MCB.WRITE_NETWORK_CONFIG, <<MCB.WRITE_NETWORK_CONFIG, 0>>, Block(16, v))

WriteMac == \E v \in Octets : Write(MCB.WRITE_MAC, <<MCB.WRITE_MAC, 0>>, Block(6, v))

WriteBaudUart1 ==
  \E speed, parity \in Octets :
    /\ speed <= 8 /\ parity <= 3
    /\ Write(MCB.WRITE_BAUD_UART1, <<MCB.WRITE_BAUD_UART1, 0>>, <<speed, parity>>)

WriteBaudUart2 ==
  \E speed, parity \in Octets :
    /\ speed <= 8 /\ parity <= 3
    /\ Write(MCB.WRITE_BAUD_UART2, <<MCB.WRITE_BAUD_UART2, 0>>, <<speed, parity>>)

WriteDigitalTimer ==
  \E p \in Ports, t \in Words :
    Ask(MCB.WRITE_DIGITAL_TIMER, <<p, High(t), Low(t)>>, <<MCB.WRITE_DIGITAL_TIMER, p>>, <<t>>)

DesligaMcb == Ask(MCB.DESLIGA_MCB, <<>>, Power, <<0>>)

(* Mutant: a year that does not fit is the largest that does.              *)
WriteDataHora_Saturates ==
  \E d \in Clocks :
    Ask(MCB.WRITE_DATA_HORA, <<0>> \o [d EXCEPT ![Year] = IF @ > 255 THEN 255 ELSE @], Clock, d)

(* The reserved byte, then the fields, the year cut to a byte.             *)
WriteDataHora ==
  \E d \in Clocks :
    Ask(MCB.WRITE_DATA_HORA, <<0>> \o [d EXCEPT ![Year] = @ % 256], Clock, d)

WriteMacPc == \E v \in Octets : Write(MCB.WRITE_MAC_PC, <<MCB.READ_MAC_PC, 0>>, Block(6, v))

(* Mutant: zeros are not refused.                                          *)
WriteInfo1_AnyData ==
  \E v \in Octets : Write(MCB.WRITE_INFO1, <<MCB.READ_INFO1, 0>>, Block(15, v))

WriteInfo1 ==
  \E v \in Octets :
    /\ ~AllZero(Block(15, v))
    /\ Write(MCB.WRITE_INFO1, <<MCB.READ_INFO1, 0>>, Block(15, v))

WriteInfo2 ==
  \E v \in Octets :
    /\ ~AllZero(Block(15, v))
    /\ Write(MCB.WRITE_INFO2, <<MCB.READ_INFO2, 0>>, Block(15, v))

WriteInfo3 ==
  \E v \in Octets :
    /\ ~AllZero(Block(15, v))
    /\ Write(MCB.WRITE_INFO3, <<MCB.READ_INFO3, 0>>, Block(15, v))

(* The key is the address.                                                 *)
WriteLedTecla == \E p \in Ports, on \in {0, 1} : WriteAt(MCB.CMD_LED_TECLA, p, <<on>>)

WriteBuzzer ==
  \E t \in Words :
    /\ t <= 16000
    /\ Ask(MCB.CMD_BUZZER, <<High(t), Low(t)>>, <<MCB.CMD_BUZZER, 0>>, <<t>>)

WriteBeepTecla ==
  \E on \in {0, 1} : Write(MCB.CMD_BEEP_TECLA, <<MCB.CMD_BEEP_TECLA, 0>>, <<on>>)

(* Any reply will do for them; execute() returns nothing.                  *)
WriteReturns == call.want # <<>> /\ Take(call.code, 1, LAMBDA data : <<>>)

-----------------------------------------------------------------------------
(* The board, as the headers of the commands describe it (external)        *)

(* The setting a request is about.                                         *)
Target(code, payload) ==
  IF code \in Addressed THEN <<code, payload[1]>>
  ELSE <<IF code \in Paired THEN code - 16 ELSE code, 0>>

(* The value a request carries.                                            *)
Carried(code, payload) ==
  LET bytes == IF code \in Addressed THEN Tail(payload) ELSE payload IN
  CASE code \in {MCB.WRITE_DIGITAL_TIMER, MCB.CMD_BUZZER} -> <<bytes[1] * 256 + bytes[2]>>
    [] code = MCB.WRITE_DATA_HORA -> Tail(bytes)
    [] OTHER -> bytes

(* Bit 0 first.                                                            *)
Packed(flags) ==
  LET bit(i) == IF i \in DOMAIN flags THEN flags[i] * Masks[i] ELSE 0
  IN  bit(1) + bit(2) + bit(3) + bit(4) + bit(5) + bit(6) + bit(7) + bit(8)

(* The payload of a reply that tells the value of a setting.               *)
Told(code, value) ==
  CASE code = MCB.READ_STATUS -> <<Packed(SubSeq(value, 1, 8)), Packed(SubSeq(value, 9, 16))>>
    [] code = MCB.READ_STATUS_SPECIAL -> <<Packed(value)>>
    [] code \in {MCB.READ_ANALOG_INPUT, MCB.READ_SENSOR_DISTANCE} ->
         <<High(value[1]), Low(value[1])>>
    [] code = MCB.READ_DATA_HORA -> <<0>> \o value
    [] code = MCB.CMD_KEY_PRESSED -> <<value[1] + 128 * value[2]>>
    [] code \in Infos /\ AllZero(value) -> <<>>
    [] OTHER -> value

(* What a request makes of the board.  It stays on while its switch is on. *)
Obeyed(r) ==
  IF r.want = <<>> THEN board
  ELSE IF r.code = MCB.DESLIGA_MCB
    THEN IF board[Switch] = <<1>> THEN board ELSE [board EXCEPT ![Power] = <<0>>]
  ELSE [board EXCEPT ![Target(r.code, r.payload)] = Carried(r.code, r.payload)]

(* The payload of its reply.  That of switching off is the switch, if it   *)
(* was on, and otherwise empty; that of the others that write is not       *)
(* described, and may be empty as well.                                    *)
Said(r) ==
  IF r.want = <<>> THEN Told(r.code, board[Target(r.code, r.payload)])
  ELSE IF r.code = MCB.DESLIGA_MCB /\ board[Switch] # <<1>> THEN <<>>
  ELSE <<1>>

(***************************************************************************)
(* What becomes of the reply: it is not given or comes too late to be      *)
(* received in this session; or it arrives; or an ETX among its bytes cuts *)
(* it in pieces parseFrame() rejects, or it is rejected in one piece.      *)
(***************************************************************************)
Arrivals(r, value) ==
  {<<>>, <<Unreadable>>, <<Unreadable, Unreadable>>}
    \cup {<<[to |-> r.n, data |-> d, value |-> value]>> : d \in {Said(r)} \ {<<>>}}

BoardActs ==
  /\ requests # <<>> /\ board[Power] = <<1>>
  /\ LET r == Head(requests) IN
       /\ board' = Obeyed(r)
       /\ \E arrived \in (IF r.n > since THEN Arrivals(r, board'[r.of]) ELSE {<<>>}) :
            replies' = replies \o arrived
  /\ requests' = Tail(requests)
  /\ UNCHANGED <<changes, call, calls, since, exact, got>>

BoardIgnores ==
  /\ requests # <<>> /\ requests' = Tail(requests)
  /\ UNCHANGED <<board, changes, replies, call, calls, since, exact, got>>

BoardChanges ==
  /\ changes < MaxChanges /\ board[Power] = <<1>>
  /\ changes' = changes + 1
  /\ \E k \in DOMAIN Others : \E v \in Others[k] : board' = [board EXCEPT ![k] = v]
  /\ UNCHANGED <<requests, replies, call, calls, since, exact, got>>

-----------------------------------------------------------------------------
Reads ==
  \/ ReadFirmware \/ ReadStatus \/ ReadInputDigital \/ ReadAnalogInput
  \/ ReadSensorDistance \/ ReadStatusSpecial \/ ReadChaveLiga \/ ReadDataHora
  \/ ReadMacPc \/ ReadInfo1 \/ ReadInfo2 \/ ReadInfo3
  \/ ReadKeyPressed \/ ReadKeyReleased \/ ReadVersion

Writes ==
  \/ WriteSpecial \/ WriteConfig \/ WriteDigitalOut \/ WriteAnalogOut
  \/ WriteNetworkConfig \/ WriteMac \/ WriteBaudUart1 \/ WriteBaudUart2
  \/ WriteDigitalTimer \/ DesligaMcb \/ WriteDataHora \/ WriteMacPc
  \/ WriteInfo1 \/ WriteInfo2 \/ WriteInfo3
  \/ WriteLedTecla \/ WriteBuzzer \/ WriteBeepTecla

Next ==
  \/ Reads \/ Writes \/ WriteReturns \/ CallThrows \/ Reopen
  \/ BoardActs \/ BoardIgnores \/ BoardChanges

Spec == Init /\ [][Next]_vars

-----------------------------------------------------------------------------
Calls    == [n : Nat, of : Settings \cup {<<>>}, want : Seq(Nat), code : Nat]
Requests == [n : Nat, of : Settings, want : Seq(Nat), code : Nat, payload : Seq(Byte)]
Replies  == [to : Nat, data : Seq(Byte), value : Seq(Nat)]

(* The type of the state; requests go out in the order of their calls.     *)
TypeOK ==
  /\ board \in [Settings -> Seq(Nat)] /\ changes \in 0 .. MaxChanges
  /\ requests \in Seq(Requests) /\ replies \in Seq(Replies)
  /\ call \in Calls /\ calls \in 0 .. MaxCalls /\ since \in 0 .. calls
  /\ exact \in BOOLEAN /\ got \in [n : Nat, of : Settings \cup {<<>>}, value : Seq(Nat)]
  /\ \A i \in DOMAIN requests : requests[i].n \in i .. calls

(***************************************************************************)
(* As long as no call has failed since the connection was opened, nothing  *)
(* of an earlier call is under way in it: between calls there is nothing   *)
(* to receive and nothing to be answered, and during a call nothing but    *)
(* its own request or its own reply, and not both.  A single failed call   *)
(* may put all later ones out of step, for the frames do not say what they *)
(* reply to and nothing empties the receive buffer but a new connection.   *)
(***************************************************************************)
Owed == {i \in DOMAIN requests : requests[i].n > since}

InStep ==
  exact =>
    /\ \A i \in Owed : requests[i].n = call.n
    /\ \A i \in DOMAIN replies : replies[i].to \in {call.n, 0}
    /\ call = NoCall => Owed = {} /\ replies = <<>>
    /\ replies # <<>> => Owed = {}

-----------------------------------------------------------------------------
(***************************************************************************)
(* The values a constructor must refuse, because its header says they are  *)
(* not to be set and the class checks them.  A year above 99 is not among  *)
(* them: write_data_hora_command.h:25 gives 00-99, and the constructor     *)
(* checks nothing, so that a year of 2025 is set, as 233 (Cut).            *)
(***************************************************************************)
Illegal(of, want) ==
  \/ of[1] = MCB.WRITE_CONFIG /\ want # <<>> /\ Len(want) > 2
  \/ of[1] = MCB.WRITE_DIGITAL_OUT /\ want # <<>> /\ want[1] > 1
  \/ of[1] \in {MCB.WRITE_BAUD_UART1, MCB.WRITE_BAUD_UART2} /\ (want[1] > 8 \/ want[2] > 3)
  \/ of[1] \in Infos /\ want # <<>> /\ AllZero(want)
  \/ of[1] = MCB.CMD_BUZZER /\ want[1] > 16000

(***************************************************************************)
(* What is left of a value once it is set: of a year, the low byte.  This  *)
(* is what the class does and no document promises; BoardControl takes it  *)
(* for what setting a clock means.                                         *)
(***************************************************************************)
Cut(of, want) == IF of = Clock THEN [want EXCEPT ![Year] = @ % 256] ELSE want

Answers == {i \in DOMAIN replies : call # NoCall /\ replies[i].to = call.n}

Control == INSTANCE BoardControl WITH
  Sensed  <- DOMAIN Others,
  Refused <- Illegal,
  Kept    <- Cut,
  values  <- board,
  pending <- {[n |-> requests[i].n, of |-> requests[i].of, want |-> requests[i].want] :
                i \in DOMAIN requests},
  call    <- [n |-> call.n, of |-> call.of, want |-> call.want],
  answer  <- IF Answers = {} THEN <<>>
             ELSE LET i == CHOOSE i \in Answers : TRUE IN <<replies[i].value>>

(***************************************************************************)
(* The commands do what BoardControl promises: what is set and read is     *)
(* what was asked for, bit by bit and byte by byte but for the century,    *)
(* late replies and requests carried out late included.                    *)
(***************************************************************************)
ImplementsControl == Control!Spec
=============================================================================
