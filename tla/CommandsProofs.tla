--------------------------- MODULE CommandsProofs ---------------------------
(***************************************************************************)
(* Proofs about Commands, for any settings, values and number of calls.    *)
(*                                                                         *)
(* A session in which no call has failed is in step.  What the requests    *)
(* and replies say plays no part in that, so that of their types only      *)
(* being sequences is needed.                                              *)
(*                                                                         *)
(* Then what they say: what every command makes of the bytes of a reply is *)
(* the value the board told with them, bit by bit and byte by byte; what   *)
(* every command sends, the board takes for what was asked.  From there    *)
(* the type of the state, and that the commands implement BoardControl.    *)
(***************************************************************************)
EXTENDS Commands, SequenceTheorems, TLAPS

IsSequence(s) == \E S : s \in Seq(S)

(* Appending, and taking the first away, in terms of the elements.         *)
LEMMA Appending ==
  ASSUME NEW s, NEW x, IsSequence(s)
  PROVE  /\ IsSequence(Append(s, x))
         /\ DOMAIN s = 1 .. Len(s) /\ Len(s) \in Nat
         /\ DOMAIN Append(s, x) = 1 .. Len(s) + 1
         /\ \A i \in 1 .. Len(s) : Append(s, x)[i] = s[i]
         /\ Append(s, x)[Len(s) + 1] = x
<1>1. PICK S : s \in Seq(S)  BY DEF IsSequence
<1>2. s \in Seq(S \cup {x})  BY <1>1
<1>3. Append(s, x) \in Seq(S \cup {x})  BY <1>2
<1> QED  BY <1>2, <1>3 DEF IsSequence

LEMMA TakingFirst ==
  ASSUME NEW s, IsSequence(s), s # <<>>
  PROVE  /\ IsSequence(Tail(s)) /\ Len(s) \in Nat \ {0}
         /\ DOMAIN s = 1 .. Len(s) /\ DOMAIN Tail(s) = 1 .. Len(s) - 1
         /\ \A i \in 1 .. Len(s) - 1 : Tail(s)[i] = s[i + 1]
         /\ Head(s) = s[1] /\ (Len(s) = 1 => Tail(s) = <<>>)
<1>1. PICK S : s \in Seq(S)  BY DEF IsSequence
<1>2. Tail(s) \in Seq(S) /\ Len(s) \in Nat \ {0} /\ Len(Tail(s)) = Len(s) - 1  BY <1>1
<1> QED  BY <1>1, <1>2 DEF IsSequence

LEMMA EmptySequence == IsSequence(<<>>) /\ DOMAIN <<>> = {}
<1>1. <<>> \in Seq({})  OBVIOUS
<1> QED  BY <1>1 DEF IsSequence

-----------------------------------------------------------------------------
(***************************************************************************)
(* The inductive invariant.  InStep alone is not one: that a call's own    *)
(* request is the only one owed needs that the numbers of the requests     *)
(* grow, and that nothing is left once its reply is taken needs that a     *)
(* readable reply came alone.                                              *)
(***************************************************************************)
Sequences == IsSequence(requests) /\ IsSequence(replies)

Counted ==
  /\ calls \in Nat /\ since \in 0 .. calls /\ call.n \in 0 .. calls
  /\ \A i \in DOMAIN requests : requests[i].n \in 1 .. calls

Growing ==
  \A i, j \in DOMAIN requests : i < j => requests[i].n < requests[j].n

Alone ==
  exact => (Len(replies) <= 1 \/ Head(replies) = Unreadable)

IInv == Sequences /\ Counted /\ Growing /\ Alone /\ InStep

-----------------------------------------------------------------------------
(***************************************************************************)
(* What every command does to the queues, whatever it sends and decodes.   *)
(***************************************************************************)
AskStep ==
  /\ call = NoCall /\ calls' = calls + 1 /\ call'.n = calls'
  /\ \E r : r.n = calls' /\ requests' = Append(requests, r)
  /\ UNCHANGED <<replies, since, exact>>

TakeStep ==
  /\ replies # <<>> /\ Head(replies) # Unreadable /\ replies' = Tail(replies)
  /\ call' = NoCall /\ (exact' = exact \/ exact' = FALSE)
  /\ UNCHANGED <<requests, calls, since>>

LEMMA AskShape ==
  ASSUME NEW code, NEW payload, NEW of, NEW want, Ask(code, payload, of, want)
  PROVE  AskStep
BY DEF Ask, AskStep

LEMMA ReadsShape == Reads => AskStep \/ TakeStep
<1> USE AskShape DEF Read, Take, Return, Throw, TakeStep
<1>1. ReadFirmware => AskStep \/ TakeStep  BY DEF ReadFirmware
<1>2. ReadStatus => AskStep \/ TakeStep  BY DEF ReadStatus
<1>3. ReadInputDigital => AskStep \/ TakeStep  BY DEF ReadInputDigital
<1>4. ReadAnalogInput => AskStep \/ TakeStep  BY DEF ReadAnalogInput
<1>5. ReadSensorDistance => AskStep \/ TakeStep  BY DEF ReadSensorDistance
<1>6. ReadStatusSpecial => AskStep \/ TakeStep  BY DEF ReadStatusSpecial
<1>7. ReadChaveLiga => AskStep \/ TakeStep  BY DEF ReadChaveLiga
<1>8. ReadDataHora => AskStep \/ TakeStep  BY DEF ReadDataHora
<1>9. ReadMacPc => AskStep \/ TakeStep  BY DEF ReadMacPc
<1>10. ReadInfo1 => AskStep \/ TakeStep  BY DEF ReadInfo1
<1>11. ReadInfo2 => AskStep \/ TakeStep  BY DEF ReadInfo2
<1>12. ReadInfo3 => AskStep \/ TakeStep  BY DEF ReadInfo3
<1>13. ReadKeyPressed => AskStep \/ TakeStep  BY DEF ReadKeyPressed
<1>14. ReadKeyReleased => AskStep \/ TakeStep  BY DEF ReadKeyReleased
<1>15. ReadVersion => AskStep \/ TakeStep  BY DEF ReadVersion
<1> QED
  BY <1>1, <1>2, <1>3, <1>4, <1>5, <1>6, <1>7, <1>8, <1>9, <1>10, <1>11, <1>12, <1>13, <1>14, <1>15
     DEF Reads

LEMMA WritesShape == Writes => AskStep
<1> USE AskShape DEF Write, WriteAt
<1>1. WriteSpecial => AskStep  BY DEF WriteSpecial
<1>2. WriteConfig => AskStep  BY DEF WriteConfig
<1>3. WriteDigitalOut => AskStep  BY DEF WriteDigitalOut
<1>4. WriteAnalogOut => AskStep  BY DEF WriteAnalogOut
<1>5. WriteNetworkConfig => AskStep  BY DEF WriteNetworkConfig
<1>6. WriteMac => AskStep  BY DEF WriteMac
<1>7. WriteBaudUart1 => AskStep  BY DEF WriteBaudUart1
<1>8. WriteBaudUart2 => AskStep  BY DEF WriteBaudUart2
<1>9. WriteDigitalTimer => AskStep  BY DEF WriteDigitalTimer
<1>10. DesligaMcb => AskStep  BY DEF DesligaMcb
<1>11. WriteDataHora => AskStep  BY DEF WriteDataHora
<1>12. WriteMacPc => AskStep  BY DEF WriteMacPc
<1>13. WriteInfo1 => AskStep  BY DEF WriteInfo1
<1>14. WriteInfo2 => AskStep  BY DEF WriteInfo2
<1>15. WriteInfo3 => AskStep  BY DEF WriteInfo3
<1>16. WriteLedTecla => AskStep  BY DEF WriteLedTecla
<1>17. WriteBuzzer => AskStep  BY DEF WriteBuzzer
<1>18. WriteBeepTecla => AskStep  BY DEF WriteBeepTecla
<1> QED
  BY <1>1, <1>2, <1>3, <1>4, <1>5, <1>6, <1>7, <1>8, <1>9, <1>10, <1>11, <1>12, <1>13, <1>14, <1>15, <1>16, <1>17, <1>18
     DEF Writes

LEMMA WriteReturnsShape == WriteReturns => TakeStep
BY DEF WriteReturns, Take, Return, Throw, TakeStep

-----------------------------------------------------------------------------
(* A new call finds nothing of an earlier one under way.                   *)
LEMMA AskKeeps == IInv /\ AskStep => IInv'
<1> SUFFICES ASSUME IInv, AskStep  PROVE IInv'  OBVIOUS
<1> DEFINE m == Len(requests)
<1>1. PICK r : r.n = calls' /\ requests' = Append(requests, r)  BY DEF AskStep
<1>2. IsSequence(requests) /\ IsSequence(replies)  BY DEF IInv, Sequences
<1>3. /\ IsSequence(requests') /\ m \in Nat /\ DOMAIN requests = 1 .. m
      /\ DOMAIN requests' = 1 .. m + 1 /\ requests'[m + 1] = r
      /\ \A i \in 1 .. m : requests'[i] = requests[i]
  BY <1>1, <1>2, Appending
<1>4. /\ calls' = calls + 1 /\ call'.n = calls' /\ call = NoCall
      /\ replies' = replies /\ since' = since /\ exact' = exact
  BY DEF AskStep
<1>5. /\ calls \in Nat /\ since \in 0 .. calls
      /\ \A i \in 1 .. m : requests[i].n \in 1 .. calls
  BY <1>3 DEF IInv, Counted
<1>6. Sequences'  BY <1>2, <1>3, <1>4 DEF Sequences
<1>7. Counted'  BY <1>1, <1>3, <1>4, <1>5 DEF Counted
<1>8. Growing'
  <2>1. \A i, j \in 1 .. m : i < j => requests[i].n < requests[j].n
    BY <1>3 DEF IInv, Growing
  <2> QED  BY <2>1, <1>1, <1>3, <1>4, <1>5 DEF Growing
<1>9. Alone'  BY <1>4 DEF IInv, Alone
<1>10. InStep'
  <2> SUFFICES ASSUME exact  PROVE InStep'  BY <1>4 DEF InStep
  <2>1. replies = <<>> /\ \A i \in 1 .. m : ~(requests[i].n > since)
    BY <1>3, <1>4 DEF IInv, InStep, Owed
  <2>2. \A i \in Owed' : requests'[i].n = call'.n
    BY <2>1, <1>1, <1>3, <1>4 DEF Owed
  <2>3. DOMAIN replies' = {} /\ replies' = <<>>  BY <2>1, <1>4, EmptySequence
  <2>4. call' # NoCall  BY <1>4, <1>5 DEF NoCall
  <2> QED  BY <2>2, <2>3, <2>4 DEF InStep
<1> QED  BY <1>6, <1>7, <1>8, <1>9, <1>10 DEF IInv

(* A reply that can be read came alone: nothing is left once it is taken.  *)
LEMMA TakeKeeps == IInv /\ TakeStep => IInv'
<1> SUFFICES ASSUME IInv, TakeStep  PROVE IInv'  OBVIOUS
<1>1. /\ replies # <<>> /\ Head(replies) # Unreadable /\ replies' = Tail(replies)
      /\ call' = NoCall /\ (exact' = exact \/ exact' = FALSE)
      /\ requests' = requests /\ calls' = calls /\ since' = since
  BY DEF TakeStep
<1>2. IsSequence(replies') /\ (Len(replies) = 1 => replies' = <<>>) /\ Len(replies) \in Nat \ {0}
  BY <1>1, TakingFirst DEF IInv, Sequences
<1>3. Sequences'  BY <1>1, <1>2 DEF IInv, Sequences
<1>4. Counted'  BY <1>1 DEF IInv, Counted, NoCall
<1>5. Growing'  BY <1>1 DEF IInv, Growing
<1>6. exact' => replies' = <<>> /\ Owed' = {}
  <2> SUFFICES ASSUME exact'  PROVE replies' = <<>> /\ Owed' = {}  OBVIOUS
  <2>1. exact  BY <1>1
  <2>2. replies' = <<>>  BY <2>1, <1>1, <1>2 DEF IInv, Alone
  <2>3. Owed = {}  BY <2>1, <1>1 DEF IInv, InStep
  <2> QED  BY <2>2, <2>3, <1>1 DEF Owed
<1>7. Alone'  BY <1>6, <1>1, EmptySequence DEF Alone
<1>8. InStep'  BY <1>6, EmptySequence DEF InStep
<1> QED  BY <1>3, <1>4, <1>5, <1>7, <1>8 DEF IInv

LEMMA ThrowKeeps == IInv /\ CallThrows => IInv'
<1> SUFFICES ASSUME IInv, CallThrows  PROVE IInv'  OBVIOUS
<1>1. /\ call' = NoCall /\ exact' = FALSE
      /\ requests' = requests /\ calls' = calls /\ since' = since
  BY DEF CallThrows, Throw
<1>2. IsSequence(replies')
  BY TakingFirst, EmptySequence DEF CallThrows, IInv, Sequences
<1>3. Sequences'  BY <1>1, <1>2 DEF IInv, Sequences
<1>4. Counted'  BY <1>1 DEF IInv, Counted, NoCall
<1>5. Growing'  BY <1>1 DEF IInv, Growing
<1>6. Alone' /\ InStep'  BY <1>1 DEF Alone, InStep
<1> QED  BY <1>3, <1>4, <1>5, <1>6 DEF IInv

(* All that was sent before belongs to the sessions before.                *)
LEMMA ReopenKeeps == IInv /\ Reopen => IInv'
<1> SUFFICES ASSUME IInv, Reopen  PROVE IInv'  OBVIOUS
<1>1. /\ call' = call /\ since' = calls /\ replies' = <<>>
      /\ requests' = requests /\ calls' = calls
  BY DEF Reopen
<1>2. Sequences'  BY <1>1, EmptySequence DEF IInv, Sequences
<1>3. Counted'  BY <1>1 DEF IInv, Counted
<1>4. Growing'  BY <1>1 DEF IInv, Growing
<1>5. Owed' = {}  BY <1>1 DEF IInv, Counted, Owed
<1>6. Alone' /\ InStep'  BY <1>1, <1>5, EmptySequence DEF Alone, InStep
<1> QED  BY <1>2, <1>3, <1>4, <1>6 DEF IInv

-----------------------------------------------------------------------------
(***************************************************************************)
(* What the board does to the queues: it removes the first request, and,   *)
(* if that is one of this session, may add to the replies.                 *)
(***************************************************************************)
Arrived ==
  \/ replies' = replies
  \/ /\ Head(requests).n > since
     /\ \E r : /\ replies' = replies \o r
               /\ \/ r = <<Unreadable>> \/ r = <<Unreadable, Unreadable>>
                  \/ \E d, v : r = <<[to |-> Head(requests).n, data |-> d, value |-> v]>>

BoardStep ==
  /\ requests # <<>> /\ requests' = Tail(requests) /\ Arrived
  /\ UNCHANGED <<call, calls, since, exact>>

LEMMA NothingAppended ==
  ASSUME NEW s, IsSequence(s)  PROVE s \o <<>> = s
BY DEF IsSequence

LEMMA BoardShape == Sequences /\ (BoardActs \/ BoardIgnores) => BoardStep
<1>1. ASSUME Sequences, BoardActs  PROVE BoardStep
  <2> DEFINE q == Head(requests)
  <2>1. PICK a \in (IF q.n > since THEN Arrivals(q, board'[q.of]) ELSE {<<>>}) :
          replies' = replies \o a
    BY <1>1 DEF BoardActs
  <2>2. a = <<>> => replies' = replies
    BY <2>1, <1>1, NothingAppended DEF Sequences
  <2>3. a # <<>> => /\ q.n > since
                    /\ \/ a = <<Unreadable>> \/ a = <<Unreadable, Unreadable>>
                       \/ \E d, v : a = <<[to |-> q.n, data |-> d, value |-> v]>>
    BY <2>1 DEF Arrivals
  <2>4. Arrived  BY <2>1, <2>2, <2>3 DEF Arrived
  <2> QED  BY <1>1, <2>4 DEF BoardActs, BoardStep
<1>2. ASSUME BoardIgnores  PROVE BoardStep  BY <1>2 DEF BoardIgnores, BoardStep, Arrived
<1> QED  BY <1>1, <1>2

(* The reply to a call that is in step: the only thing there then.         *)
LEMMA BoardKeeps == IInv /\ BoardStep => IInv'
<1> SUFFICES ASSUME IInv, BoardStep  PROVE IInv'  OBVIOUS
<1> DEFINE m == Len(requests)
<1>1. /\ requests # <<>> /\ requests' = Tail(requests) /\ Arrived
      /\ call' = call /\ calls' = calls /\ since' = since /\ exact' = exact
  BY DEF BoardStep
<1>2. /\ IsSequence(requests') /\ m \in Nat \ {0} /\ DOMAIN requests = 1 .. m
      /\ DOMAIN requests' = 1 .. m - 1 /\ Head(requests) = requests[1]
      /\ \A i \in 1 .. m - 1 : requests'[i] = requests[i + 1]
  BY <1>1, TakingFirst DEF IInv, Sequences
<1>3. /\ calls \in Nat /\ since \in 0 .. calls /\ call.n \in 0 .. calls
      /\ \A i \in 1 .. m : requests[i].n \in 1 .. calls
  BY <1>2 DEF IInv, Counted
<1>4. \A i, j \in 1 .. m : i < j => requests[i].n < requests[j].n
  BY <1>2 DEF IInv, Growing
<1>5. IsSequence(replies')
  <2>1. PICK S : replies \in Seq(S)  BY DEF IInv, Sequences, IsSequence
  <2>2. ASSUME NEW r, IsSequence(r)  PROVE IsSequence(replies \o r)
    <3>1. PICK R : r \in Seq(R)  BY <2>2 DEF IsSequence
    <3>2. replies \in Seq(S \cup R) /\ r \in Seq(S \cup R)  BY <2>1, <3>1
    <3>3. replies \o r \in Seq(S \cup R)  BY <3>2
    <3> QED  BY <3>3 DEF IsSequence
  <2>3. ASSUME NEW x  PROVE IsSequence(<<x>>) /\ IsSequence(<<x, x>>)
    <3>1. <<x>> \in Seq({x}) /\ <<x, x>> \in Seq({x})  OBVIOUS
    <3> QED  BY <3>1 DEF IsSequence
  <2> QED  BY <1>1, <2>1, <2>2, <2>3 DEF Arrived, IsSequence
<1>6. Sequences'  BY <1>2, <1>5 DEF Sequences
<1>7. Counted'  BY <1>1, <1>2, <1>3 DEF Counted
<1>8. Growing'  BY <1>2, <1>4 DEF Growing
<1>9. \A i \in Owed' : i + 1 \in Owed  BY <1>1, <1>2 DEF Owed
<1>10. CASE replies' = replies
  <2>1. Alone'  BY <1>10, <1>1 DEF IInv, Alone
  <2>2. \A i \in Owed' : requests'[i].n = requests[i + 1].n  BY <1>2 DEF Owed
  <2>3. Owed = {} => Owed' = {}  BY <1>9
  <2>4. InStep'  BY <1>10, <1>1, <1>9, <2>2, <2>3 DEF IInv, InStep
  <2> QED  BY <1>6, <1>7, <1>8, <2>1, <2>4 DEF IInv
<1>11. CASE replies' # replies
  <2> SUFFICES ASSUME exact  PROVE Alone' /\ InStep'
    BY <1>1, <1>6, <1>7, <1>8 DEF IInv, Alone, InStep
  <2>1. requests[1].n > since /\ 1 \in Owed  BY <1>1, <1>2, <1>11 DEF Arrived, Owed
  <2>2. requests[1].n = call.n /\ replies = <<>> /\ call # NoCall
    BY <2>1 DEF IInv, InStep
  <2>3. Owed' = {}
    <3> SUFFICES ASSUME NEW i \in Owed'  PROVE FALSE  OBVIOUS
    <3>1. i \in 1 .. m - 1 /\ i + 1 \in Owed  BY <1>2, <1>9 DEF Owed
    <3>2. requests[i + 1].n = call.n  BY <3>1 DEF IInv, InStep
    <3>3. requests[1].n < requests[i + 1].n  BY <1>2, <1>4, <3>1
    <3> QED  BY <2>2, <3>2, <3>3, <1>3
  <2>4. PICK r : /\ replies' = replies \o r
                 /\ \/ r = <<Unreadable>> \/ r = <<Unreadable, Unreadable>>
                    \/ \E d, v : r = <<[to |-> call.n, data |-> d, value |-> v]>>
    BY <1>1, <1>2, <1>11, <2>2 DEF Arrived
  <2>5. replies' = r  BY <2>2, <2>4
  <2>6. CASE r = <<Unreadable>>
    BY <2>3, <2>5, <2>6, <2>2, <1>1 DEF Alone, InStep, Unreadable
  <2>7. CASE r = <<Unreadable, Unreadable>>
    BY <2>3, <2>5, <2>7, <2>2, <1>1 DEF Alone, InStep, Unreadable
  <2>8. CASE \E d, v : r = <<[to |-> call.n, data |-> d, value |-> v]>>
    BY <2>3, <2>5, <2>8, <2>2, <1>1 DEF Alone, InStep
  <2> QED  BY <2>4, <2>6, <2>7, <2>8
<1> QED  BY <1>10, <1>11

LEMMA ChangesKeep == IInv /\ BoardChanges => IInv'
<1> SUFFICES ASSUME IInv, BoardChanges  PROVE IInv'  OBVIOUS
<1>1. UNCHANGED <<requests, replies, call, calls, since, exact>>  BY DEF BoardChanges
<1> QED  BY <1>1 DEF IInv, Sequences, Counted, Growing, Alone, InStep, Owed

-----------------------------------------------------------------------------
(***************************************************************************)
(* Whatever the commands send and the board answers, late, in pieces or    *)
(* not at all: the invariant holds for any number of calls and of sessions *)
(* (protocol_controller.cpp and the commands that call it).                *)
(***************************************************************************)
THEOREM CommandsInvariance == Spec => []IInv
<1>1. Init => IInv
  <2> SUFFICES ASSUME Init  PROVE IInv  OBVIOUS
  <2>1. Sequences  BY EmptySequence DEF Init, Sequences
  <2>2. Counted /\ Growing  BY EmptySequence DEF Init, Counted, Growing, NoCall
  <2>3. Owed = {}  BY EmptySequence DEF Init, Owed
  <2>4. Alone /\ InStep  BY <2>3, EmptySequence DEF Init, Alone, InStep
  <2> QED  BY <2>1, <2>2, <2>4 DEF IInv
<1>2. IInv /\ [Next]_vars => IInv'
  <2> SUFFICES ASSUME IInv, [Next]_vars  PROVE IInv'  OBVIOUS
  <2>1. CASE Reads  BY <2>1, ReadsShape, AskKeeps, TakeKeeps
  <2>2. CASE Writes  BY <2>2, WritesShape, AskKeeps
  <2>3. CASE WriteReturns  BY <2>3, WriteReturnsShape, TakeKeeps
  <2>4. CASE CallThrows  BY <2>4, ThrowKeeps
  <2>5. CASE Reopen  BY <2>5, ReopenKeeps
  <2>6. CASE BoardActs \/ BoardIgnores  BY <2>6, BoardShape, BoardKeeps DEF IInv
  <2>7. CASE BoardChanges  BY <2>7, ChangesKeep
  <2>8. CASE UNCHANGED vars
    BY <2>8 DEF vars, IInv, Sequences, Counted, Growing, Alone, InStep, Owed
  <2> QED  BY <2>1, <2>2, <2>3, <2>4, <2>5, <2>6, <2>7, <2>8 DEF Next
<1> QED  BY <1>1, <1>2, PTL DEF Spec

(***************************************************************************)
(* As long as no call has failed since the connection was opened, there is *)
(* no reply but the one to the call in progress.                           *)
(***************************************************************************)
THEOREM StaysInStep == Spec => []InStep
BY CommandsInvariance, PTL DEF IInv

-----------------------------------------------------------------------------
(***************************************************************************)
(* The command codes as numbers, and the values the settings may have.     *)
(***************************************************************************)
(* The codes of mcb_port_addresses.h and of the commands, as numbers.      *)
LEMMA CodeValues ==
  /\ MCB.READ_FIRMWARE = 81 /\ MCB.READ_STATUS = 82 /\ MCB.READ_INPUT_DIGITAL = 83
  /\ MCB.READ_ANALOG_INPUT = 84 /\ MCB.READ_SENSOR_DISTANCE = 85 /\ MCB.READ_STATUS_SPECIAL = 86
  /\ MCB.READ_CHAVE_LIGA = 90 /\ MCB.READ_DATA_HORA = 91 /\ MCB.READ_MAC_PC = 92
  /\ MCB.READ_INFO1 = 93 /\ MCB.READ_INFO2 = 94 /\ MCB.READ_INFO3 = 95
  /\ MCB.WRITE_SPECIAL = 97 /\ MCB.WRITE_CONFIG = 98 /\ MCB.WRITE_DIGITAL_OUT = 99
  /\ MCB.WRITE_ANALOG_OUT = 100 /\ MCB.WRITE_NETWORK_CONFIG = 101 /\ MCB.WRITE_MAC = 102
  /\ MCB.WRITE_BAUD_UART1 = 103 /\ MCB.WRITE_BAUD_UART2 = 104 /\ MCB.WRITE_DIGITAL_TIMER = 105
  /\ MCB.DESLIGA_MCB = 106 /\ MCB.WRITE_DATA_HORA = 107 /\ MCB.WRITE_MAC_PC = 108
  /\ MCB.WRITE_INFO1 = 109 /\ MCB.WRITE_INFO2 = 110 /\ MCB.WRITE_INFO3 = 111
  /\ MCB.CMD_KEY_PRESSED = 112 /\ MCB.CMD_VERSION = 113 /\ MCB.CMD_KEY_RELEASED = 114
  /\ MCB.CMD_LED_TECLA = 120 /\ MCB.CMD_BUZZER = 121 /\ MCB.CMD_BEEP_TECLA = 122
BY DEF MCB

(* The sets of codes and the settings with a name of their own.            *)
LEMMA CodeSets ==
  /\ Addressed = {83, 84, 85, 97, 98, 99, 100, 105, 120}
  /\ Paired = 107 .. 111 /\ Infos = 93 .. 95
  /\ Power = <<106, 0>> /\ Switch = <<90, 0>> /\ Clock = <<91, 0>>
BY CodeValues DEF Addressed, Paired, Infos, Power, Switch, Clock

(* The codes that name a setting without an address.                       *)
Whole == {81, 82, 86, 112, 113, 114, 121, 122} \cup 90 .. 95 \cup {101, 102, 103, 104, 106}

(* All the commands are about settings there are.                          *)
LEMMA WholeNamed == \A code \in Whole : <<code, 0>> \in Settings
<1>1. \A name \in DOMAIN MCB : MCB[name] \notin Addressed \cup Paired => <<MCB[name], 0>> \in Named
  BY DEF Named
<1>2. \A code \in Whole : code \notin Addressed \cup Paired
  BY CodeSets DEF Whole
<1>3. \A code \in Whole : \E name \in DOMAIN MCB : code = MCB[name]
  BY DEF Whole, MCB
<1>4. Named \subseteq Settings
  BY CommandsAssumption, Zenon
<1> QED
  BY <1>1, <1>2, <1>3, <1>4

LEMMA AddressedNamed ==
  /\ \A p \in Ports : \A code \in Addressed : code # 85 => <<code, p>> \in Settings
  /\ \A mode \in {0, 1} : <<85, mode>> \in Settings
<1>1. Named \subseteq Settings
  BY CommandsAssumption, Zenon
<1>2. \A p \in Ports : \A code \in Addressed : code # 85 => <<code, p>> \in Named
  BY CodeValues DEF Named
<1>3. \A mode \in {0, 1} : <<85, mode>> \in Named
  BY CodeValues DEF Named
<1> QED
  BY <1>1, <1>2, <1>3

LEMMA ValuesAre ==
  /\ Values(82) = [1 .. 16 -> {0, 1}] /\ Values(86) = [1 .. 2 -> {0, 1}]
  /\ Values(83) = [1 .. 1 -> {0, 1}] /\ Values(90) = [1 .. 1 -> {0, 1}]
  /\ Values(84) = [1 .. 1 -> Word] /\ Values(85) = [1 .. 1 -> Word]
  /\ Values(81) = [1 .. 3 -> Byte] /\ Values(91) = [1 .. 8 -> Byte] /\ Values(92) = [1 .. 6 -> Byte]
  /\ Values(93) = [1 .. 15 -> Byte] /\ Values(94) = [1 .. 15 -> Byte] /\ Values(95) = [1 .. 15 -> Byte]
  /\ Values(112) = {v \in [1 .. 2 -> Keys] : v[2] <= 1}
  /\ Values(114) = [1 .. 1 -> Keys] /\ Values(113) = [1 .. 2 -> Byte]
BY CodeValues, CodeSets DEF Values

LEMMA ValuesOfOthers ==
  ASSUME NEW code, code \notin {81, 82, 83, 84, 85, 86, 90, 91, 92, 93, 94, 95, 112, 113, 114}
  PROVE  Values(code) = Seq(Nat)
<1>1. code \notin Infos
  BY CodeSets
<1> QED
  BY <1>1, CodeValues DEF Values

(* Functions on 1 .. n are the sequences of length n.                      *)
LEMMA FixedShape ==
  ASSUME NEW n \in Nat, NEW S, NEW v \in [1 .. n -> S]
  PROVE  v \in Seq(S) /\ Len(v) = n /\ \A i \in 1 .. n : v[i] \in S
<1>1. v \in Seq(S)
  BY SeqDef
<1>2. DOMAIN v = 1 .. n /\ DOMAIN v = 1 .. Len(v) /\ Len(v) \in Nat
  BY <1>1, LenProperties
<1>3. Len(v) = n
  <2>1. PICK m \in Nat : m = Len(v) /\ 1 .. m = 1 .. n
    BY <1>2
  <2>2. m <= n /\ n <= m
    <3>1. m = 0 \/ m \in 1 .. n
      BY <2>1
    <3>2. n = 0 \/ n \in 1 .. m
      BY <2>1
    <3> QED
      BY <3>1, <3>2
  <2> QED
    BY <2>1, <2>2
<1> QED
  BY <1>1, <1>3

LEMMA FixedSequences ==
  \A n \in Nat : \A S : S \subseteq Nat => [1 .. n -> S] \subseteq Seq(Nat)
<1> SUFFICES ASSUME NEW n \in Nat, NEW S, S \subseteq Nat, NEW v \in [1 .. n -> S]
             PROVE  v \in Seq(Nat)
  OBVIOUS
<1> QED
  BY FixedShape

(* The fields of any value are numbers.                                    *)
LEMMA ValuesAreSequences == \A code : Values(code) \subseteq Seq(Nat)
<1> SUFFICES ASSUME NEW code  PROVE Values(code) \subseteq Seq(Nat)
  OBVIOUS
<1>1. /\ {0, 1} \subseteq Nat /\ Byte \subseteq Nat /\ Word \subseteq Nat /\ Keys \subseteq Nat
  BY DEF Byte, Word, Keys
<1>2. /\ 1 \in Nat /\ 2 \in Nat /\ 3 \in Nat /\ 6 \in Nat /\ 8 \in Nat /\ 15 \in Nat /\ 16 \in Nat
  OBVIOUS
<1>3. /\ [1 .. 16 -> {0, 1}] \subseteq Seq(Nat) /\ [1 .. 2 -> {0, 1}] \subseteq Seq(Nat)
      /\ [1 .. 1 -> {0, 1}] \subseteq Seq(Nat) /\ [1 .. 1 -> Word] \subseteq Seq(Nat)
      /\ [1 .. 3 -> Byte] \subseteq Seq(Nat) /\ [1 .. 8 -> Byte] \subseteq Seq(Nat)
      /\ [1 .. 6 -> Byte] \subseteq Seq(Nat) /\ [1 .. 15 -> Byte] \subseteq Seq(Nat)
      /\ [1 .. 2 -> Keys] \subseteq Seq(Nat) /\ [1 .. 1 -> Keys] \subseteq Seq(Nat)
      /\ [1 .. 2 -> Byte] \subseteq Seq(Nat)
  BY <1>1, <1>2, FixedSequences, Zenon
<1>4. {v \in [1 .. 2 -> Keys] : v[2] <= 1} \subseteq Seq(Nat)
  BY <1>3, Zenon
<1>5. CASE code \notin {81, 82, 83, 84, 85, 86, 90, 91, 92, 93, 94, 95, 112, 113, 114}
  BY <1>5, ValuesOfOthers, Zenon
<1>6. CASE code \in {82, 83, 86, 90}
  BY <1>6, <1>3, ValuesAre
<1>7. CASE code \in {84, 85, 114}
  BY <1>7, <1>3, ValuesAre
<1>8. CASE code \in {81, 91, 92, 93, 94, 95, 113}
  BY <1>8, <1>3, ValuesAre
<1>9. CASE code = 112
  BY <1>9, <1>4, ValuesAre
<1> QED
  BY <1>5, <1>6, <1>7, <1>8, <1>9

-----------------------------------------------------------------------------
(* What the board tells is the value, but for these.                       *)
LEMMA ToldCases ==
  ASSUME NEW code, NEW v
  PROVE  /\ code \in {81, 83, 90, 92, 113, 114} => Told(code, v) = v
         /\ code \in {93, 94, 95} => Told(code, v) = IF AllZero(v) THEN <<>> ELSE v
         /\ code = 82 => Told(code, v) = <<Packed(SubSeq(v, 1, 8)), Packed(SubSeq(v, 9, 16))>>
         /\ code = 86 => Told(code, v) = <<Packed(v)>>
         /\ code \in {84, 85} => Told(code, v) = <<High(v[1]), Low(v[1])>>
         /\ code = 91 => Told(code, v) = <<0>> \o v
         /\ code = 112 => Told(code, v) = <<v[1] + 128 * v[2]>>
<1>1. /\ MCB.READ_STATUS = 82 /\ MCB.READ_STATUS_SPECIAL = 86 /\ MCB.READ_ANALOG_INPUT = 84
      /\ MCB.READ_SENSOR_DISTANCE = 85 /\ MCB.READ_DATA_HORA = 91 /\ MCB.CMD_KEY_PRESSED = 112
  BY CodeValues
<1>2. ASSUME code \in {82, 84, 85, 86, 91, 112}
      PROVE  /\ code = 82 => Told(code, v) = <<Packed(SubSeq(v, 1, 8)), Packed(SubSeq(v, 9, 16))>>
             /\ code = 86 => Told(code, v) = <<Packed(v)>>
             /\ code \in {84, 85} => Told(code, v) = <<High(v[1]), Low(v[1])>>
             /\ code = 91 => Told(code, v) = <<0>> \o v
             /\ code = 112 => Told(code, v) = <<v[1] + 128 * v[2]>>
  <2>1. code \notin Infos
    BY <1>2, CodeSets
  <2> QED
    BY <2>1, <1>1, <1>2 DEF Told
<1>3. ASSUME code \in {93, 94, 95}
      PROVE  Told(code, v) = IF AllZero(v) THEN <<>> ELSE v
  <2>1. code \in Infos
    BY <1>3, CodeSets
  <2> QED
    BY <2>1, <1>1, <1>3 DEF Told, AllZero
<1>4. ASSUME code \in {81, 83, 90, 92, 113, 114}
      PROVE  Told(code, v) = v
  <2>1. code \notin Infos
    BY <1>4, CodeSets
  <2> QED
    BY <2>1, <1>1, <1>4 DEF Told
<1> QED
  BY <1>2, <1>3, <1>4

(* The bits of a byte, packed and taken apart again.                       *)
LEMMA Bits ==
  \A a, b, c, d, e, f, g, h \in {0, 1} :
    LET n == a * 1 + b * 2 + c * 4 + d * 8 + e * 16 + f * 32 + g * 64 + h * 128 IN
    /\ n \in Nat /\ n <= 255
    /\ (n \div 1) % 2 = a /\ (n \div 2) % 2 = b /\ (n \div 4) % 2 = c /\ (n \div 8) % 2 = d
    /\ (n \div 16) % 2 = e /\ (n \div 32) % 2 = f /\ (n \div 64) % 2 = g /\ (n \div 128) % 2 = h
OBVIOUS

-----------------------------------------------------------------------------
(***************************************************************************)
(* Reading: what each command decodes is the value the board told,         *)
(* whatever that is, and fit for a value even if the reply was another.    *)
(***************************************************************************)
(* What a command makes of a reply: fit for a value, and the value if that *)
(* is what the board told.                                                 *)
Tells(code, data, value) ==
  /\ value \in Seq(Nat)
  /\ \A v \in Values(code) : data = Told(code, v) => value = v

(* Bytes, words and keys by their bounds, for the provers not to list      *)
(* them.                                                                   *)
LEMMA ByteIs ==
  /\ \A x \in Nat : x <= 255 => x \in Byte
  /\ \A x \in Byte : x \in Nat /\ x <= 255
BY DEF Byte

LEMMA WordIs ==
  /\ \A x \in Nat : x <= 65535 => x \in Word
  /\ \A x \in Word : x \in Nat /\ x <= 65535
BY DEF Word

LEMMA KeysAre ==
  /\ \A x \in Nat : x <= 127 => x \in Keys
  /\ \A x \in Keys : x \in Nat /\ x <= 127
BY DEF Keys

(* A sequence with an element before it.                                   *)
LEMMA AfterOne ==
  ASSUME NEW S, NEW x \in S, NEW v \in Seq(S)
  PROVE  /\ <<x>> \o v \in Seq(S) /\ Len(<<x>> \o v) = Len(v) + 1 /\ (<<x>> \o v)[1] = x
         /\ \A i \in 1 .. Len(v) : (<<x>> \o v)[i + 1] = v[i]
         /\ Tail(<<x>> \o v) = v
<1>1. <<x>> \in Seq(S) /\ Len(<<x>>) = 1 /\ <<x>>[1] = x
  OBVIOUS
<1>2. /\ <<x>> \o v \in Seq(S) /\ Len(<<x>> \o v) = Len(v) + 1 /\ (<<x>> \o v)[1] = x
      /\ \A i \in 1 .. Len(v) : (<<x>> \o v)[i + 1] = v[i]
  BY <1>1
<1>3. PICK w \in Seq(S) : w = <<x>> \o v /\ Len(w) = Len(v) + 1 /\ \A i \in 1 .. Len(v) : w[i + 1] = v[i]
  BY <1>2
<1>4. w # <<>> /\ Tail(w) \in Seq(S) /\ Len(Tail(w)) = Len(v) /\ \A i \in 1 .. Len(v) : Tail(w)[i] = w[i + 1]
  BY <1>3, HeadTailProperties
<1>5. Tail(w) = v
  BY <1>3, <1>4, SeqEqual
<1> QED
  BY <1>2, <1>3, <1>5

(* The first bytes, and what they tell where a value is sent as it is.     *)
LEMMA FirstIs ==
  ASSUME NEW n \in Nat, NEW S, NEW data \in Seq(S), Len(data) >= n
  PROVE  /\ First(n, data) \in Seq(S) /\ Len(First(n, data)) = n
         /\ \A i \in 1 .. n : First(n, data)[i] = data[i]
<1>1. SubSeq(data, 1, n) \in Seq(S) /\ Len(SubSeq(data, 1, n)) = n
      /\ \A i \in 1 .. n : SubSeq(data, 1, n)[i] = data[i]
  BY SubSeqProperties
<1> QED
  BY <1>1 DEF First

LEMMA FirstTells ==
  ASSUME NEW n \in Nat, NEW code, Values(code) = [1 .. n -> Byte],
         NEW data \in Seq(Byte), Len(data) >= n,
         \A v \in Values(code) : data = Told(code, v) => data = v
  PROVE  Tells(code, data, First(n, data))
<1>1. /\ First(n, data) \in Seq(Byte) /\ Len(First(n, data)) = n
      /\ \A i \in 1 .. n : First(n, data)[i] = data[i]
  BY FirstIs
<1>2. First(n, data) \in Seq(Nat)
  BY <1>1, ByteIs
<1>3. ASSUME NEW v \in Values(code), data = Told(code, v)  PROVE First(n, data) = v
  <2>1. data = v /\ v \in Seq(Byte) /\ Len(v) = n
    BY <1>3, FixedShape
  <2> QED
    BY <2>1, <1>1, SeqEqual
<1> QED
  BY <1>2, <1>3 DEF Tells

LEMMA BytesTold ==
  ASSUME NEW data \in Seq(Byte)
  PROVE  /\ Len(data) >= 3 => Tells(81, data, First(3, data))
         /\ Len(data) >= 6 => Tells(92, data, First(6, data))
         /\ Len(data) >= 2 => Tells(113, data, First(2, data))
<1>1. \A v : Told(81, v) = v /\ Told(92, v) = v /\ Told(113, v) = v
  BY ToldCases
<1>2. /\ Values(81) = [1 .. 3 -> Byte] /\ Values(92) = [1 .. 6 -> Byte]
      /\ Values(113) = [1 .. 2 -> Byte]
  BY ValuesAre
<1>3. ASSUME Len(data) >= 3  PROVE Tells(81, data, First(3, data))
  BY <1>1, <1>2, <1>3, FirstTells
<1>4. ASSUME Len(data) >= 6  PROVE Tells(92, data, First(6, data))
  BY <1>1, <1>2, <1>4, FirstTells
<1>5. ASSUME Len(data) >= 2  PROVE Tells(113, data, First(2, data))
  BY <1>1, <1>2, <1>5, FirstTells
<1> QED
  BY <1>3, <1>4, <1>5

LEMMA InfoTold ==
  ASSUME NEW data \in Seq(Byte), Len(data) >= 15, NEW code \in {93, 94, 95}
  PROVE  Tells(code, data, First(15, data))
<1>1. \A v : Told(code, v) = <<>> \/ Told(code, v) = v
  BY ToldCases, SMTT(30)
<1>2. data # <<>>
  OBVIOUS
<1>3. Values(code) = [1 .. 15 -> Byte]
  BY ValuesAre
<1>4. \A v \in Values(code) : data = Told(code, v) => data = v
  BY <1>1, <1>2
<1>5. PICK n \in Nat : n = 15
  OBVIOUS
<1>6. Values(code) = [1 .. n -> Byte] /\ Len(data) >= n
  BY <1>3, <1>5
<1>7. Tells(code, data, First(n, data))
  BY <1>4, <1>6, FirstTells
<1> QED
  BY <1>5, <1>7

(* A sequence of n, by its elements.                                       *)
LEMMA OneIs ==
  ASSUME NEW S, NEW v \in [1 .. 1 -> S]
  PROVE  v[1] \in S /\ v = <<v[1]>>
<1>1. v \in Seq(S) /\ Len(v) = 1
  BY FixedShape
<1> QED
  BY <1>1

LEMMA FlagTold ==
  ASSUME NEW data \in Seq(Byte), Len(data) >= 1, NEW code \in {83, 90}
  PROVE  Tells(code, data, <<IF data[1] # 0 THEN 1 ELSE 0>>)
<1>1. ASSUME NEW v \in Values(code), data = Told(code, v)
      PROVE  <<IF data[1] # 0 THEN 1 ELSE 0>> = v
  <2>1. v \in [1 .. 1 -> {0, 1}] /\ data = v
    BY <1>1, ValuesAre, ToldCases, SMTT(30)
  <2>2. v[1] \in {0, 1} /\ v = <<v[1]>>
    BY <2>1, OneIs
  <2>3. (IF data[1] # 0 THEN 1 ELSE 0) = v[1]
    BY <2>1, <2>2
  <2> QED
    BY <2>2, <2>3
<1>2. <<IF data[1] # 0 THEN 1 ELSE 0>> \in Seq(Nat)
  OBVIOUS
<1> QED
  BY <1>1, <1>2 DEF Tells

(* A word is its two bytes.                                                *)
LEMMA HighLow == \A n \in Nat : n <= 65535 => /\ n = (n \div 256) * 256 + (n % 256)
                                              /\ n \div 256 \in Nat /\ n \div 256 <= 255
                                              /\ n % 256 \in Nat /\ n % 256 <= 255
OBVIOUS

LEMMA WordTold ==
  ASSUME NEW data \in Seq(Byte), Len(data) >= 2, NEW code \in {84, 85}
  PROVE  Tells(code, data, <<data[1] * 256 + data[2]>>)
<1>1. data[1] \in Nat /\ data[2] \in Nat
  BY ByteIs
<1>2. ASSUME NEW v \in Values(code), data = Told(code, v)
      PROVE  <<data[1] * 256 + data[2]>> = v
  <2>1. v \in [1 .. 1 -> Word] /\ data = <<High(v[1]), Low(v[1])>>
    BY <1>2, ValuesAre, ToldCases, SMTT(30)
  <2>2. v[1] \in Word /\ v = <<v[1]>>
    BY <2>1, OneIs
  <2>3. data[1] = v[1] \div 256 /\ data[2] = v[1] % 256
    BY <2>1 DEF High, Low
  <2>4. data[1] * 256 + data[2] = v[1]
    BY <2>2, <2>3, WordIs, HighLow
  <2> QED
    BY <2>2, <2>4
<1>3. <<data[1] * 256 + data[2]>> \in Seq(Nat)
  BY <1>1
<1> QED
  BY <1>2, <1>3 DEF Tells

LEMMA FirstAfterOne ==
  ASSUME NEW x \in Byte, NEW v \in Seq(Byte), NEW n \in Nat, n = Len(v) + 1
  PROVE  Tail(First(n, <<x>> \o v)) = v
<1>1. <<x>> \o v \in Seq(Byte) /\ Len(<<x>> \o v) = Len(v) + 1 /\ Tail(<<x>> \o v) = v
  BY AfterOne
<1>2. PICK w \in Seq(Byte) : w = <<x>> \o v /\ Len(w) = n /\ Tail(w) = v
  BY <1>1
<1>3. First(n, w) \in Seq(Byte) /\ Len(First(n, w)) = n /\ \A i \in 1 .. n : First(n, w)[i] = w[i]
  <2>1. Len(w) >= n
    BY <1>2
  <2> QED
    BY <2>1, FirstIs, Zenon
<1>4. First(n, w) = w
  <2>1. Len(First(n, w)) = Len(w)
    BY <1>2, <1>3
  <2> QED
    BY <1>2, <1>3, <2>1, SeqEqual
<1> QED
  BY <1>2, <1>4

(* The date follows a reserved byte.                                       *)
LEMMA ClockTold ==
  ASSUME NEW data \in Seq(Byte), Len(data) >= 9
  PROVE  Tells(91, data, Tail(First(9, data)))
<1>1. First(9, data) \in Seq(Byte) /\ First(9, data) # <<>>
  BY FirstIs
<1>2. Tail(First(9, data)) \in Seq(Byte)
  BY <1>1
<1>3. Tail(First(9, data)) \in Seq(Nat)
  BY <1>2, ByteIs
<1>4. ASSUME NEW v \in Values(91), data = Told(91, v)  PROVE Tail(First(9, data)) = v
  <2>1. Told(91, v) = <<0>> \o v
    BY ToldCases
  <2>2. PICK m, n \in Nat : m = 8 /\ n = 9 /\ n = m + 1
    OBVIOUS
  <2>3. Values(91) = [1 .. m -> Byte]
    BY <2>2, ValuesAre
  <2>4. v \in Seq(Byte) /\ n = Len(v) + 1
    BY <2>2, <2>3, FixedShape
  <2>5. 0 \in Byte
    BY ByteIs
  <2>6. Tail(First(n, <<0>> \o v)) = v
    BY <2>4, <2>5, FirstAfterOne, Zenon
  <2> QED
    BY <1>4, <2>1, <2>2, <2>6, Zenon
<1> QED
  BY <1>3, <1>4 DEF Tells

LEMMA KeyArithmetic ==
  /\ \A k, s \in Nat : k <= 127 /\ s <= 1 => /\ (k + 128 * s) % 128 = k /\ ((k + 128 * s) \div 128) % 2 = s
                                             /\ k + 128 * s <= 255 /\ k % 128 = k
  /\ \A d \in Nat : d % 128 \in Nat /\ (d \div 128) % 2 \in Nat
OBVIOUS

(* A key is in the low seven bits, shift in the highest.                   *)
LEMMA KeyTold ==
  ASSUME NEW data \in Seq(Byte), Len(data) >= 1
  PROVE  /\ Tells(112, data, <<data[1] % 128, Bit(data[1], 128)>>)
         /\ Tells(114, data, <<data[1] % 128>>)
<1>1. data[1] \in Nat
  BY ByteIs
<1>2. <<data[1] % 128, Bit(data[1], 128)>> \in Seq(Nat) /\ <<data[1] % 128>> \in Seq(Nat)
  BY <1>1, KeyArithmetic DEF Bit
<1>3. ASSUME NEW v \in Values(112), data = Told(112, v)
      PROVE  <<data[1] % 128, Bit(data[1], 128)>> = v
  <2>1. v \in [1 .. 2 -> Keys] /\ v[2] <= 1 /\ data = <<v[1] + 128 * v[2]>>
    BY <1>3, ValuesAre, ToldCases
  <2>2. v \in Seq(Keys) /\ Len(v) = 2 /\ v[1] \in Keys /\ v[2] \in Keys
    BY <2>1, FixedShape
  <2>3. PICK k, s \in Nat : k = v[1] /\ s = v[2] /\ k <= 127 /\ s <= 1
    BY <2>1, <2>2, KeysAre
  <2>4. data[1] % 128 = k /\ Bit(data[1], 128) = s
    BY <2>1, <2>3, KeyArithmetic DEF Bit
  <2> QED
    BY <2>2, <2>3, <2>4
<1>4. ASSUME NEW v \in Values(114), data = Told(114, v)
      PROVE  <<data[1] % 128>> = v
  <2>1. v \in [1 .. 1 -> Keys] /\ data = v
    BY <1>4, ValuesAre, ToldCases
  <2>2. v[1] \in Keys /\ v = <<v[1]>>
    BY <2>1, OneIs
  <2>3. PICK k \in Nat : k = v[1] /\ k <= 127
    BY <2>2, KeysAre
  <2>4. data[1] % 128 = k
    BY <2>1, <2>3, KeyArithmetic
  <2> QED
    BY <2>2, <2>3, <2>4
<1> QED
  BY <1>2, <1>3, <1>4 DEF Tells

(* The flags of a byte, in the order they are packed in.                   *)
LEMMA EightFlags ==
  ASSUME NEW s \in [1 .. 8 -> {0, 1}]
  PROVE  Packed(s) \in Byte /\ Flags(Packed(s), 8) = s
<1>1. PICK a, b, c, d, e, f, g, h \in {0, 1} :
        /\ s[1] = a /\ s[2] = b /\ s[3] = c /\ s[4] = d
        /\ s[5] = e /\ s[6] = f /\ s[7] = g /\ s[8] = h
  <2>1. /\ s[1] \in {0, 1} /\ s[2] \in {0, 1} /\ s[3] \in {0, 1} /\ s[4] \in {0, 1}
        /\ s[5] \in {0, 1} /\ s[6] \in {0, 1} /\ s[7] \in {0, 1} /\ s[8] \in {0, 1}
    OBVIOUS
  <2> QED
    BY <2>1, ZenonT(60)
<1>2. Masks[1] = 1 /\ Masks[2] = 2 /\ Masks[3] = 4 /\ Masks[4] = 8
      /\ Masks[5] = 16 /\ Masks[6] = 32 /\ Masks[7] = 64 /\ Masks[8] = 128
  BY DEF Masks
<1>3. DOMAIN s = 1 .. 8
  OBVIOUS
<1>4. Packed(s) = a * 1 + b * 2 + c * 4 + d * 8 + e * 16 + f * 32 + g * 64 + h * 128
  BY <1>1, <1>2, <1>3 DEF Packed
<1>5. PICK n \in Nat :
        /\ n = Packed(s) /\ n <= 255
        /\ (n \div 1) % 2 = a /\ (n \div 2) % 2 = b /\ (n \div 4) % 2 = c /\ (n \div 8) % 2 = d
        /\ (n \div 16) % 2 = e /\ (n \div 32) % 2 = f /\ (n \div 64) % 2 = g /\ (n \div 128) % 2 = h
  BY <1>4, Bits
<1>6. \A i \in 1 .. 8 : Bit(n, Masks[i]) = s[i]
  <2>1. /\ Bit(n, 1) = s[1] /\ Bit(n, 2) = s[2] /\ Bit(n, 4) = s[3] /\ Bit(n, 8) = s[4]
        /\ Bit(n, 16) = s[5] /\ Bit(n, 32) = s[6] /\ Bit(n, 64) = s[7] /\ Bit(n, 128) = s[8]
    BY <1>1, <1>5 DEF Bit
  <2> QED
    BY <2>1, <1>2
<1>7. Flags(n, 8) = [i \in 1 .. 8 |-> s[i]]
  BY <1>6 DEF Flags
<1>8. s = [i \in 1 .. 8 |-> s[i]]
  BY <1>3
<1> QED
  BY <1>5, <1>7, <1>8, ByteIs

LEMMA TwoFlags ==
  ASSUME NEW v \in [1 .. 2 -> {0, 1}]
  PROVE  Packed(v) \in Byte /\ Flags(Packed(v), 2) = v
<1>1. PICK a, b \in {0, 1} : v[1] = a /\ v[2] = b
  OBVIOUS
<1>2. Masks[1] = 1 /\ Masks[2] = 2
  BY DEF Masks
<1>3. Packed(v) = a * 1 + b * 2
  BY <1>1, <1>2 DEF Packed
<1>4. PICK n \in Nat : n = Packed(v) /\ n <= 255 /\ (n \div 1) % 2 = a /\ (n \div 2) % 2 = b
  BY <1>3
<1>5. \A i \in 1 .. 2 : Bit(n, Masks[i]) = v[i]
  BY <1>1, <1>2, <1>4 DEF Bit
<1>6. Flags(n, 2) = [i \in 1 .. 2 |-> v[i]]
  BY <1>5 DEF Flags
<1> QED
  BY <1>4, <1>6, ByteIs

LEMMA FlagsAre ==
  ASSUME NEW n \in Nat, NEW byte \in Nat, n <= 8
  PROVE  Flags(byte, n) \in Seq(Nat) /\ Len(Flags(byte, n)) = n
<1>1. \A i \in 1 .. 8 : Masks[i] \in Nat /\ Masks[i] > 0
  BY DEF Masks
<1>2. \A mask \in Nat : mask > 0 => (byte \div mask) % 2 \in Nat
  OBVIOUS
<1>3. Flags(byte, n) \in [1 .. n -> Nat]
  BY <1>1, <1>2 DEF Flags, Bit
<1> QED
  BY <1>3, FixedShape

LEMMA OfLength ==
  ASSUME NEW S, NEW s \in Seq(S)
  PROVE  s \in [1 .. Len(s) -> S]
BY LenProperties

(* A sequence is its two halves.                                           *)
LEMMA Halves ==
  ASSUME NEW n \in Nat, NEW S, NEW v \in [1 .. n + n -> S]
  PROVE  /\ SubSeq(v, 1, n) \in [1 .. n -> S] /\ SubSeq(v, n + 1, n + n) \in [1 .. n -> S]
         /\ SubSeq(v, 1, n) \o SubSeq(v, n + 1, n + n) = v
<1>1. v \in Seq(S) /\ Len(v) = n + n
  BY FixedShape
<1>2. SubSeq(v, 1, n) \in Seq(S) /\ Len(SubSeq(v, 1, n)) = n
  BY <1>1, SubSeqProperties
<1>3. SubSeq(v, n + 1, n + n) \in Seq(S) /\ Len(SubSeq(v, n + 1, n + n)) = n
  BY <1>1, SubSeqProperties
<1>4. SubSeq(v, 1, n) \in [1 .. n -> S] /\ SubSeq(v, n + 1, n + n) \in [1 .. n -> S]
  BY <1>2, <1>3, OfLength
<1>5. SubSeq(v, 1, n) \o SubSeq(v, n + 1, n + n) = SubSeq(v, 1, n + n)
  BY <1>1, ConcatAdjacentSubSeq
<1>6. SubSeq(v, 1, n + n) = v
  BY <1>1, SubSeqFull
<1> QED
  BY <1>4, <1>5, <1>6

(* The sixteen flags of READ_STATUS, in two bytes.                         *)
LEMMA SixteenFlags ==
  ASSUME NEW v \in Values(82)
  PROVE  /\ SubSeq(v, 1, 8) \in [1 .. 8 -> {0, 1}] /\ SubSeq(v, 9, 16) \in [1 .. 8 -> {0, 1}]
         /\ SubSeq(v, 1, 8) \o SubSeq(v, 9, 16) = v
<1>1. PICK n \in Nat : n = 8 /\ n + 1 = 9 /\ n + n = 16
  OBVIOUS
<1>2. v \in [1 .. n + n -> {0, 1}]
  BY <1>1, ValuesAre, Zenon
<1>3. /\ SubSeq(v, 1, n) \in [1 .. n -> {0, 1}] /\ SubSeq(v, n + 1, n + n) \in [1 .. n -> {0, 1}]
      /\ SubSeq(v, 1, n) \o SubSeq(v, n + 1, n + n) = v
  BY <1>2, Halves
<1> QED
  BY <1>1, <1>3, Zenon

LEMMA StatusTold ==
  ASSUME NEW data \in Seq(Byte)
  PROVE  /\ Len(data) >= 2 => Tells(82, data, Flags(data[1], 8) \o Flags(data[2], 8))
         /\ Len(data) >= 1 => Tells(86, data, Flags(data[1], 2))
<1>1. PICK two, eight \in Nat : two = 2 /\ eight = 8
  OBVIOUS
<1>2. \A byte \in Nat : Flags(byte, two) \in Seq(Nat) /\ Flags(byte, eight) \in Seq(Nat)
  BY <1>1, FlagsAre
<1>3. ASSUME Len(data) >= 2  PROVE Tells(82, data, Flags(data[1], 8) \o Flags(data[2], 8))
  <2>1. data[1] \in Nat /\ data[2] \in Nat
    BY <1>3, ByteIs
  <2>2. Flags(data[1], eight) \o Flags(data[2], eight) \in Seq(Nat)
    <3>1. PICK f, g \in Seq(Nat) : f = Flags(data[1], eight) /\ g = Flags(data[2], eight)
      BY <2>1, <1>2
    <3>2. f \o g \in Seq(Nat)
      OBVIOUS
    <3> QED
      BY <3>1, <3>2
  <2>3. ASSUME NEW v \in Values(82), data = Told(82, v)
        PROVE  Flags(data[1], 8) \o Flags(data[2], 8) = v
    <3>1. data = <<Packed(SubSeq(v, 1, 8)), Packed(SubSeq(v, 9, 16))>>
      BY <2>3, ToldCases
    <3>2. data[1] = Packed(SubSeq(v, 1, 8)) /\ data[2] = Packed(SubSeq(v, 9, 16))
      BY <3>1
    <3>3. Flags(Packed(SubSeq(v, 1, 8)), 8) = SubSeq(v, 1, 8)
          /\ Flags(Packed(SubSeq(v, 9, 16)), 8) = SubSeq(v, 9, 16)
      BY SixteenFlags, EightFlags, Zenon
    <3> QED
      BY <3>2, <3>3, SixteenFlags, Zenon
  <2> QED
    BY <1>1, <2>2, <2>3, Zenon DEF Tells
<1>4. ASSUME Len(data) >= 1  PROVE Tells(86, data, Flags(data[1], 2))
  <2>1. data[1] \in Nat
    BY <1>4, ByteIs
  <2>2. Flags(data[1], two) \in Seq(Nat)
    BY <2>1, <1>2
  <2>3. ASSUME NEW v \in Values(86), data = Told(86, v)
        PROVE  Flags(data[1], 2) = v
    <3>1. v \in [1 .. 2 -> {0, 1}]
      BY ValuesAre
    <3>2. data = <<Packed(v)>>
      BY <2>3, ToldCases
    <3> QED
      BY <3>1, <3>2, TwoFlags
  <2> QED
    BY <1>1, <2>2, <2>3, Zenon DEF Tells
<1> QED
  BY <1>3, <1>4

(* The codes that read a setting, and what the board answers them.         *)
ReadCodes == {81, 82, 83, 84, 85, 86, 90, 91, 92, 93, 94, 95, 112, 113, 114}

LEMMA BytesAre ==
  /\ \A n \in Nat : [1 .. n -> Byte] \subseteq Seq(Byte)
  /\ Values(91) \subseteq Seq(Byte) /\ Values(81) \subseteq Seq(Byte)
  /\ Values(92) \subseteq Seq(Byte) /\ Values(113) \subseteq Seq(Byte)
  /\ Values(93) \subseteq Seq(Byte) /\ Values(94) \subseteq Seq(Byte)
  /\ Values(95) \subseteq Seq(Byte)
<1>1. \A n \in Nat : [1 .. n -> Byte] \subseteq Seq(Byte)
  BY FixedShape
<1>2. 2 \in Nat /\ 3 \in Nat /\ 6 \in Nat /\ 8 \in Nat /\ 15 \in Nat
  OBVIOUS
<1> QED
  BY <1>1, <1>2, ValuesAre, Zenon

(* Whatever value is told, bytes are sent.                                 *)
LEMMA ToldBytes ==
  ASSUME NEW code \in ReadCodes, NEW v \in Values(code)
  PROVE  Told(code, v) \in Seq(Byte)
<1>1. ASSUME NEW x \in Byte  PROVE <<x>> \in Seq(Byte) /\ \A y \in Byte : <<x, y>> \in Seq(Byte)
  OBVIOUS
<1>2. CASE code \in {83, 90}
  <2>1. v[1] \in {0, 1} /\ v = <<v[1]>>
    BY <1>2, ValuesAre, OneIs
  <2>2. v[1] \in Byte
    BY <2>1, ByteIs
  <2>3. Told(code, v) = v
    BY <1>2, ToldCases
  <2> QED
    BY <1>1, <2>1, <2>2, <2>3, Zenon
<1>3. CASE code \in {84, 85}
  <2>1. v[1] \in Word
    BY <1>3, ValuesAre, OneIs
  <2>2. High(v[1]) \in Byte /\ Low(v[1]) \in Byte
    BY <2>1, WordIs, ByteIs, HighLow DEF High, Low
  <2>3. Told(code, v) = <<High(v[1]), Low(v[1])>>
    BY <1>3, ToldCases
  <2> QED
    BY <1>1, <2>2, <2>3, Zenon
<1>4. CASE code \in {81, 92, 113}
  <2>1. Told(code, v) = v
    BY <1>4, ToldCases
  <2> QED
    BY <1>4, <2>1, BytesAre
<1>5. CASE code \in {93, 94, 95}
  <2>1. Told(code, v) = v \/ Told(code, v) = <<>>
    BY <1>5, ToldCases
  <2>2. v \in Seq(Byte) /\ <<>> \in Seq(Byte)
    BY <1>5, BytesAre
  <2> QED
    BY <2>1, <2>2, Zenon
<1>6. CASE code = 91
  <2>1. v \in Seq(Byte) /\ 0 \in Byte
    BY <1>6, BytesAre, ByteIs
  <2>2. <<0>> \o v \in Seq(Byte)
    BY <2>1, AfterOne, Zenon
  <2>3. Told(code, v) = <<0>> \o v
    BY <1>6, ToldCases
  <2> QED
    BY <2>2, <2>3, Zenon
<1>7. CASE code = 82
  <2>1. Packed(SubSeq(v, 1, 8)) \in Byte /\ Packed(SubSeq(v, 9, 16)) \in Byte
    BY <1>7, SixteenFlags, EightFlags
  <2>2. Told(code, v) = <<Packed(SubSeq(v, 1, 8)), Packed(SubSeq(v, 9, 16))>>
    BY <1>7, ToldCases
  <2> QED
    BY <1>1, <2>1, <2>2, Zenon
<1>8. CASE code = 86
  <2>1. Packed(v) \in Byte
    BY <1>8, ValuesAre, TwoFlags
  <2>2. Told(code, v) = <<Packed(v)>>
    BY <1>8, ToldCases
  <2> QED
    BY <1>1, <2>1, <2>2, Zenon
<1>9. CASE code = 112
  <2>1. v \in [1 .. 2 -> Keys] /\ v[2] <= 1
    BY <1>9, ValuesAre
  <2>2. PICK k, s \in Nat : k = v[1] /\ s = v[2] /\ k <= 127 /\ s <= 1
    BY <2>1, KeysAre
  <2>3. v[1] + 128 * v[2] \in Byte
    BY <2>2, KeyArithmetic, ByteIs
  <2>4. Told(code, v) = <<v[1] + 128 * v[2]>>
    BY <1>9, ToldCases
  <2> QED
    BY <1>1, <2>3, <2>4, Zenon
<1>10. CASE code = 114
  <2>1. v[1] \in Keys /\ v = <<v[1]>>
    BY <1>10, ValuesAre, OneIs
  <2>2. v[1] \in Byte
    BY <2>1, KeysAre, ByteIs
  <2>3. Told(code, v) = v
    BY <1>10, ToldCases
  <2> QED
    BY <1>1, <2>1, <2>2, <2>3, Zenon
<1> QED
  BY <1>2, <1>3, <1>4, <1>5, <1>6, <1>7, <1>8, <1>9, <1>10 DEF ReadCodes

-----------------------------------------------------------------------------
(***************************************************************************)
(* Sending: what each command sends is what the board takes for the value  *)
(* asked for, and none of the values the headers rule out.                 *)
(***************************************************************************)
(* What every command asks for: a setting there is, and a value that is    *)
(* not refused, carried by the payload as the board takes it.              *)
Proper(code, payload, of, want) ==
  /\ code \in Nat /\ code > 0 /\ payload \in Seq(Byte) /\ of \in Settings /\ want \in Seq(Nat)
  /\ ~Illegal(of, want)
  /\ \/ /\ want = <<>> /\ code \in ReadCodes /\ of[1] = code /\ of # Power
        /\ Target(code, payload) = of
     \/ code = MCB.DESLIGA_MCB /\ of = Power /\ want = <<0>>
     \/ /\ want # <<>> /\ code # MCB.DESLIGA_MCB /\ of # Power
        /\ Target(code, payload) = of
        /\ Carried(code, payload) = Cut(of, want) /\ Cut(of, want) \in Values(of[1])

(* The time the buzzer is not to exceed.                                   *)
Bearable(t) == t <= 16000

(* What of a value is enough for it not to be ruled out.                   *)
LEMMA LegalIs ==
  ASSUME NEW of, NEW want,
         of[1] = 98 /\ want # <<>> => Len(want) <= 2,
         of[1] = 99 /\ want # <<>> => want[1] \in Int /\ want[1] <= 1,
         of[1] \in {103, 104} => want[1] \in Int /\ want[1] <= 8 /\ want[2] \in Int /\ want[2] <= 3,
         of[1] \in {93, 94, 95} /\ want # <<>> => ~AllZero(want),
         of[1] = 121 => want[1] \in Int /\ Bearable(want[1]),
         want \in Seq(Nat)
  PROVE  ~Illegal(of, want)
<1>1. /\ MCB.WRITE_CONFIG = 98 /\ MCB.WRITE_DIGITAL_OUT = 99 /\ MCB.WRITE_BAUD_UART1 = 103
      /\ MCB.WRITE_BAUD_UART2 = 104 /\ MCB.CMD_BUZZER = 121
  BY CodeValues
<1>2. Infos = {93, 94, 95}
  BY CodeSets
<1>3. ~(of[1] = MCB.WRITE_CONFIG /\ want # <<>> /\ Len(want) > 2)
  BY <1>1
<1>4. ~(of[1] = MCB.WRITE_DIGITAL_OUT /\ want # <<>> /\ want[1] > 1)
  BY <1>1
<1>5. ~(of[1] \in {MCB.WRITE_BAUD_UART1, MCB.WRITE_BAUD_UART2} /\ (want[1] > 8 \/ want[2] > 3))
  BY <1>1
<1>6. ~(of[1] \in Infos /\ want # <<>> /\ AllZero(want))
  BY <1>2
<1>7. ~(of[1] = MCB.CMD_BUZZER /\ want[1] > 16000)
  BY <1>1 DEF Bearable
<1> QED
  BY <1>3, <1>4, <1>5, <1>6, <1>7 DEF Illegal

LEMMA LegalPlain ==
  ASSUME NEW of, NEW want, of[1] \notin {93, 94, 95, 98, 99, 103, 104, 121}
  PROVE  ~Illegal(of, want)
<1>1. /\ MCB.WRITE_CONFIG = 98 /\ MCB.WRITE_DIGITAL_OUT = 99 /\ MCB.WRITE_BAUD_UART1 = 103
      /\ MCB.WRITE_BAUD_UART2 = 104 /\ MCB.CMD_BUZZER = 121
  BY CodeValues
<1>2. Infos = {93, 94, 95}
  BY CodeSets
<1> QED
  BY <1>1, <1>2 DEF Illegal

LEMMA LegalToRead ==
  ASSUME NEW of, of[1] \notin {103, 104, 121}
  PROVE  ~Illegal(of, <<>>)
<1>1. MCB.WRITE_BAUD_UART1 = 103 /\ MCB.WRITE_BAUD_UART2 = 104 /\ MCB.CMD_BUZZER = 121
  BY CodeValues
<1> QED
  BY <1>1 DEF Illegal

(* How the board takes a request: its setting, and the value it carries.   *)
LEMMA TargetIs ==
  ASSUME NEW code \in Nat, NEW payload
  PROVE  /\ code \in Addressed => Target(code, payload) = <<code, payload[1]>>
         /\ code \in Whole => Target(code, payload) = <<code, 0>>
         /\ code \in 107 .. 111 => Target(code, payload) = <<code - 16, 0>>
<1>1. code \in Whole => code \notin Addressed /\ code \notin Paired
  BY CodeSets DEF Whole
<1>2. code \in 107 .. 111 => code \notin Addressed /\ code \in Paired
  BY CodeSets
<1> QED
  BY <1>1, <1>2 DEF Target

LEMMA CarriedIs ==
  ASSUME NEW code \in Nat, NEW payload
  PROVE  /\ code \in Addressed \ {105} => Carried(code, payload) = Tail(payload)
         /\ code = 121 => Carried(code, payload) = <<payload[1] * 256 + payload[2]>>
         /\ code = 107 => Carried(code, payload) = Tail(payload)
         /\ code \notin Addressed \cup {121, 107} => Carried(code, payload) = payload
<1>1. MCB.WRITE_DIGITAL_TIMER = 105 /\ MCB.CMD_BUZZER = 121 /\ MCB.WRITE_DATA_HORA = 107
  BY CodeValues
<1>2. Addressed = {83, 84, 85, 97, 98, 99, 100, 105, 120}
  BY CodeSets
<1>3. code \in Addressed \ {105} => Carried(code, payload) = Tail(payload)
  BY <1>1, <1>2 DEF Carried
<1>4. code = 121 => Carried(code, payload) = <<payload[1] * 256 + payload[2]>>
  BY <1>1, <1>2 DEF Carried
<1>5. code = 107 => Carried(code, payload) = Tail(payload)
  BY <1>1, <1>2 DEF Carried
<1>6. code \notin Addressed \cup {121, 107} => Carried(code, payload) = payload
  BY <1>1, <1>2 DEF Carried
<1> QED
  BY <1>3, <1>4, <1>5, <1>6

LEMMA CarriedTimer ==
  ASSUME NEW payload
  PROVE  Carried(105, payload) = <<Tail(payload)[1] * 256 + Tail(payload)[2]>>
<1>1. MCB.WRITE_DIGITAL_TIMER = 105 /\ MCB.WRITE_DATA_HORA = 107 /\ 105 \in Addressed
  BY CodeValues, CodeSets
<1>2. MCB.WRITE_DIGITAL_TIMER \in Addressed /\ MCB.WRITE_DIGITAL_TIMER # MCB.WRITE_DATA_HORA
  BY <1>1
<1>3. Carried(MCB.WRITE_DIGITAL_TIMER, payload) = <<Tail(payload)[1] * 256 + Tail(payload)[2]>>
  BY <1>2 DEF Carried
<1> QED
  BY <1>1, <1>3

(* Only a date loses something.                                            *)
LEMMA CutIs ==
  ASSUME NEW code, NEW p, NEW want, code # 91
  PROVE  Cut(<<code, p>>, want) = want
<1>1. Clock = <<91, 0>>
  BY CodeSets
<1>2. <<code, p>> # Clock
  BY <1>1
<1> QED
  BY <1>2 DEF Cut

-----------------------------------------------------------------------------
(* Each kind of request is proper.                                         *)
LEMMA ReadProper ==
  ASSUME NEW code \in ReadCodes \ {83, 84, 85}
  PROVE  Proper(code, <<>>, <<code, 0>>, <<>>)
<1>1. code \in Nat /\ code > 0 /\ code \in Whole /\ code \in ReadCodes /\ code # 106
      /\ code \notin {98, 99, 103, 104, 121}
  BY DEF ReadCodes, Whole
<1>2. <<code, 0>> \in Settings
  BY <1>1, WholeNamed
<1>3. Target(code, <<>>) = <<code, 0>>
  BY <1>1, TargetIs
<1>4. <<code, 0>>[1] = code /\ <<code, 0>> # Power
  BY <1>1, CodeSets
<1>5. ~Illegal(<<code, 0>>, <<>>)
  BY <1>1, <1>4, LegalToRead
<1> QED
  BY <1>1, <1>2, <1>3, <1>4, <1>5 DEF Proper

LEMMA ReadAtProper ==
  ASSUME NEW code \in {83, 84, 85}, NEW p \in Byte, <<code, p>> \in Settings
  PROVE  Proper(code, <<p>>, <<code, p>>, <<>>)
<1>1. code \in Nat /\ code > 0 /\ code \in ReadCodes /\ code # 106
      /\ code \notin {93, 94, 95, 98, 99, 103, 104, 121}
  BY DEF ReadCodes
<1>2. code \in Addressed
  BY CodeSets
<1>3. <<p>> \in Seq(Byte) /\ <<p>>[1] = p
  OBVIOUS
<1>4. Target(code, <<p>>) = <<code, p>>
  BY <1>1, <1>2, <1>3, TargetIs
<1>5. <<code, p>>[1] = code /\ <<code, p>> # Power
  BY <1>1, CodeSets
<1>6. ~Illegal(<<code, p>>, <<>>)
  BY <1>1, <1>5, LegalToRead
<1> QED
  BY <1>1, <1>3, <1>4, <1>5, <1>6 DEF Proper

LEMMA ProperWrite ==
  ASSUME NEW code \in Nat, code > 0, code # 106, NEW payload \in Seq(Byte),
         NEW of \in Settings, of # Power, NEW want \in Seq(Nat), want # <<>>, ~Illegal(of, want),
         Target(code, payload) = of, Carried(code, payload) = Cut(of, want),
         Cut(of, want) \in Values(of[1])
  PROVE  Proper(code, payload, of, want)
<1>1. code # MCB.DESLIGA_MCB
  BY CodeValues
<1> QED
  BY <1>1 DEF Proper

(* A value that is sent as it is.                                          *)
LEMMA WriteProper ==
  ASSUME NEW code \in {101, 102, 103, 104, 122} \cup 108 .. 111, NEW p,
         NEW want \in Seq(Byte), want # <<>>,
         p = (IF code \in 108 .. 111 THEN code - 16 ELSE code),
         want \in Values(p), ~Illegal(<<p, 0>>, want)
  PROVE  Proper(code, want, <<p, 0>>, want)
<1>1. code \in Nat /\ code > 0 /\ code # 106 /\ code # 121 /\ code # 107 /\ p # 106 /\ p # 91
      /\ p \in Whole /\ (code \in Whole \/ code \in 107 .. 111)
  BY DEF Whole
<1>2. <<p, 0>> \in Settings
  BY <1>1, WholeNamed
<1>3. Target(code, want) = <<p, 0>>
  BY <1>1, TargetIs
<1>4. code \notin Addressed
  BY CodeSets
<1>5. Carried(code, want) = want
  BY <1>1, <1>4, CarriedIs
<1>6. Cut(<<p, 0>>, want) = want
  BY <1>1, CutIs
<1>7. <<p, 0>>[1] = p /\ <<p, 0>> # Power /\ MCB.DESLIGA_MCB = 106
  BY <1>1, CodeSets, CodeValues
<1>8. want \in Seq(Nat)
  BY ByteIs
<1> QED
  BY <1>1, <1>2, <1>3, <1>5, <1>6, <1>7, <1>8 DEF Proper

LEMMA WriteAtProper ==
  ASSUME NEW code \in {97, 98, 99, 100, 120}, NEW p \in Ports,
         NEW want \in Seq(Byte), want # <<>>, ~Illegal(<<code, p>>, want)
  PROVE  Proper(code, <<p>> \o want, <<code, p>>, want)
<1>1. code \in Nat /\ code > 0 /\ code # 106 /\ code # 91 /\ code # 85 /\ code # 105
      /\ code \notin {81, 82, 83, 84, 85, 86, 90, 91, 92, 93, 94, 95, 112, 113, 114}
  OBVIOUS
<1>2. code \in Addressed
  BY CodeSets
<1>3. <<code, p>> \in Settings
  BY <1>1, <1>2, AddressedNamed
<1>4. p \in Byte
  BY CommandsAssumption
<1>5. <<p>> \o want \in Seq(Byte) /\ (<<p>> \o want)[1] = p /\ Tail(<<p>> \o want) = want
  BY <1>4, AfterOne
<1>6. Target(code, <<p>> \o want) = <<code, p>> /\ Carried(code, <<p>> \o want) = want
  <2>1. PICK payload : payload = <<p>> \o want
    OBVIOUS
  <2>2. payload[1] = p
    BY <1>5, <2>1, Zenon
  <2>3. Tail(payload) = want
    BY <1>5, <2>1, Zenon
  <2>4. Target(code, payload) = <<code, p>>
    BY <1>1, <1>2, <2>2, TargetIs
  <2>5. Carried(code, payload) = Tail(payload)
    BY <1>1, <1>2, CarriedIs
  <2>6. Carried(code, payload) = want
    BY <2>3, <2>5, Zenon
  <2> QED
    BY <2>1, <2>4, <2>6, Zenon
<1>7. Cut(<<code, p>>, want) = want
  BY <1>1, CutIs
<1>8. <<code, p>>[1] = code /\ <<code, p>> # Power /\ MCB.DESLIGA_MCB = 106
  BY <1>1, CodeSets, CodeValues
<1>9. want \in Seq(Nat)
  BY ByteIs
<1>10. Values(code) = Seq(Nat)
  BY <1>1, ValuesOfOthers
<1> QED
  BY <1>1, <1>3, <1>5, <1>6, <1>7, <1>8, <1>9, <1>10 DEF Proper

(* The words of two bytes.                                                 *)
LEMMA WordBytes ==
  ASSUME NEW t \in Word
  PROVE  /\ t \in Nat /\ High(t) \in Byte /\ Low(t) \in Byte /\ High(t) * 256 + Low(t) = t
<1>1. t \in Nat /\ t <= 65535
  BY WordIs
<1> QED
  BY <1>1, HighLow, ByteIs DEF High, Low

LEMMA TimerProper ==
  ASSUME NEW p \in Ports, NEW t \in Words
  PROVE  Proper(105, <<p, High(t), Low(t)>>, <<105, p>>, <<t>>)
<1>1. PICK code \in Nat :
        code = 105 /\ code > 0 /\ code # 106 /\ code \notin {85, 91, 93, 94, 95, 98, 99, 103, 104, 121}
  OBVIOUS
<1>2. t \in Word /\ p \in Byte
  BY CommandsAssumption
<1>3. t \in Nat /\ High(t) \in Byte /\ Low(t) \in Byte /\ High(t) * 256 + Low(t) = t
  BY <1>2, WordBytes
<1>4. PICK h, l \in Byte : h = High(t) /\ l = Low(t) /\ h * 256 + l = t
  BY <1>3
<1>5. PICK payload : payload = <<p, h, l>>
  OBVIOUS
<1>6. payload \in Seq(Byte) /\ payload[1] = p /\ Tail(payload)[1] = h /\ Tail(payload)[2] = l
  BY <1>2, <1>5
<1>7. code \in Addressed
  BY <1>1, CodeSets
<1>8. PICK of \in Settings : of = <<code, p>> /\ of[1] = code
  <2>1. code # 85
    BY <1>1
  <2>2. <<code, p>> \in Settings
    BY <2>1, <1>7, AddressedNamed, Zenon
  <2>3. <<code, p>>[1] = code
    OBVIOUS
  <2> QED
    BY <2>2, <2>3, Zenon
<1>9. Target(code, payload) = of
  BY <1>6, <1>7, <1>8, TargetIs
<1>10. PICK want \in Seq(Nat) : want = <<t>> /\ want # <<>>
  <2>1. t \in Nat
    BY <1>3
  <2>2. <<t>> \in Seq(Nat) /\ <<t>> # <<>>
    BY <2>1
  <2> QED
    BY <2>2, Zenon
<1>11. Carried(code, payload) = want
  <2>1. Carried(code, payload) = <<Tail(payload)[1] * 256 + Tail(payload)[2]>>
    <3>1. code = 105
      BY <1>1
    <3> QED
      BY <3>1, CarriedTimer
  <2> QED
    BY <2>1, <1>4, <1>6, <1>10
<1>12. Cut(of, want) = want
  BY <1>1, <1>8, CutIs
<1>13. of # Power
  BY <1>1, <1>8, CodeSets
<1>14. want \in Values(of[1])
  BY <1>1, <1>8, ValuesOfOthers
<1>15. ~Illegal(of, want)
  <2>1. of[1] \notin {93, 94, 95, 98, 99, 103, 104, 121}
    BY <1>1, <1>8
  <2> QED
    BY <2>1, LegalPlain
<1>16. Proper(code, payload, of, want)
  <2>1. code > 0 /\ code # 106
    BY <1>1
  <2>2. payload \in Seq(Byte) /\ want # <<>> /\ Carried(code, payload) = Cut(of, want)
        /\ Cut(of, want) \in Values(of[1])
    BY <1>6, <1>10, <1>11, <1>12, <1>14, Zenon
  <2> QED
    BY <2>1, <2>2, <1>9, <1>13, <1>15, ProperWrite
<1> QED
  BY <1>1, <1>4, <1>5, <1>8, <1>10, <1>16, Zenon

LEMMA BuzzerProper ==
  ASSUME NEW t \in Words, Bearable(t)
  PROVE  Proper(121, <<High(t), Low(t)>>, <<121, 0>>, <<t>>)
<1>1. PICK code \in Nat :
        code = 121 /\ code > 0 /\ code # 106 /\ code \notin {91, 93, 94, 95, 98, 99, 103, 104}
  OBVIOUS
<1>2. t \in Word
  BY CommandsAssumption
<1>3. t \in Nat /\ High(t) \in Byte /\ Low(t) \in Byte /\ High(t) * 256 + Low(t) = t
  BY <1>2, WordBytes
<1>4. PICK h, l \in Byte : h = High(t) /\ l = Low(t) /\ h * 256 + l = t
  BY <1>3
<1>5. PICK payload : payload = <<h, l>>
  OBVIOUS
<1>6. payload \in Seq(Byte) /\ payload[1] = h /\ payload[2] = l
  BY <1>5
<1>7. code \in Whole
  BY <1>1 DEF Whole
<1>8. PICK of \in Settings : of = <<code, 0>> /\ of[1] = code
  <2>1. <<code, 0>> \in Settings
    BY <1>7, WholeNamed
  <2>2. <<code, 0>>[1] = code
    OBVIOUS
  <2> QED
    BY <2>1, <2>2, Zenon
<1>9. Target(code, payload) = of
  BY <1>7, <1>8, TargetIs
<1>10. PICK want \in Seq(Nat) : want = <<t>> /\ want # <<>> /\ want[1] = t
  <2>1. t \in Nat
    BY <1>3
  <2>2. <<t>> \in Seq(Nat) /\ <<t>> # <<>> /\ <<t>>[1] = t
    BY <2>1
  <2> QED
    BY <2>2, Zenon
<1>11. Carried(code, payload) = want
  <2>1. Carried(code, payload) = <<payload[1] * 256 + payload[2]>>
    BY <1>1, CarriedIs
  <2> QED
    BY <2>1, <1>4, <1>6, <1>10
<1>12. Cut(of, want) = want
  BY <1>1, <1>8, CutIs
<1>13. of # Power
  BY <1>1, <1>8, CodeSets
<1>14. want \in Values(of[1])
  <2>1. of[1] \notin {81, 82, 83, 84, 85, 86, 90, 91, 92, 93, 94, 95, 112, 113, 114}
    BY <1>1, <1>8
  <2> QED
    BY <2>1, ValuesOfOthers
<1>15. ~Illegal(of, want)
  <2>1. of[1] = 121 /\ want[1] = t /\ t \in Int
    BY <1>1, <1>3, <1>8, <1>10
  <2> QED
    BY <2>1, LegalIs
<1>16. Proper(code, payload, of, want)
  <2>1. code > 0 /\ code # 106
    BY <1>1
  <2>2. payload \in Seq(Byte) /\ want # <<>> /\ Carried(code, payload) = Cut(of, want)
        /\ Cut(of, want) \in Values(of[1])
    BY <1>6, <1>10, <1>11, <1>12, <1>14, Zenon
  <2> QED
    BY <2>1, <2>2, <1>9, <1>13, <1>15, ProperWrite
<1> QED
  BY <1>1, <1>4, <1>5, <1>8, <1>10, <1>16, Zenon

LEMMA OffProper == Proper(106, <<>>, Power, <<0>>)
<1>1. 106 \in Whole
  BY DEF Whole
<1>2. Power = <<106, 0>> /\ Power[1] = 106 /\ MCB.DESLIGA_MCB = 106
  BY CodeSets, CodeValues
<1>3. Power \in Settings
  BY <1>1, <1>2, WholeNamed
<1>4. <<0>> \in Seq(Nat)
  OBVIOUS
<1>5. ~Illegal(Power, <<0>>)
  BY <1>2, LegalPlain
<1> QED
  BY <1>2, <1>3, <1>4, <1>5 DEF Proper

(* A date, but for its century.                                            *)
LEMMA DateProper ==
  ASSUME NEW d \in Clocks
  PROVE  Proper(107, <<0>> \o [d EXCEPT ![Year] = @ % 256], Clock, d)
<1>1. PICK n \in Nat : n = 8
  OBVIOUS
<1>2. d \in [1 .. n -> Word] /\ \A i \in 1 .. n : i = Year \/ d[i] \in Byte
  BY <1>1, CommandsAssumption, Zenon
<1>3. Word \subseteq Nat
  BY WordIs
<1>4. d \in Seq(Nat) /\ Len(d) = n
  BY <1>2, <1>3, FixedShape
<1>5. PICK e : e = [d EXCEPT ![Year] = @ % 256]
  OBVIOUS
<1>6. e \in [1 .. n -> Byte]
  <2>1. DOMAIN d = 1 .. n /\ \A i \in 1 .. n : d[i] \in Nat
    BY <1>2, <1>3
  <2>2. \A m \in Nat : m % 256 \in Byte
    <3>1. \A m \in Nat : m % 256 \in Nat /\ m % 256 <= 255
      OBVIOUS
    <3> QED
      BY <3>1, ByteIs
  <2>3. e = [i \in 1 .. n |-> IF i = Year THEN d[i] % 256 ELSE d[i]]
    BY <2>1, <1>5
  <2>4. \A i \in 1 .. n : (IF i = Year THEN d[i] % 256 ELSE d[i]) \in Byte
    BY <2>1, <2>2, <1>2
  <2> QED
    BY <2>3, <2>4
<1>7. e \in Seq(Byte)
  BY <1>6, FixedShape
<1>8. 0 \in Byte
  BY ByteIs
<1>9. <<0>> \o e \in Seq(Byte) /\ Tail(<<0>> \o e) = e
  BY <1>7, <1>8, AfterOne, Zenon
<1>10. PICK code \in Nat : code = 107 /\ code > 0 /\ code # 106 /\ code \in 107 .. 111 /\ code - 16 = 91
  OBVIOUS
<1>11. PICK payload \in Seq(Byte) : payload = <<0>> \o e /\ Tail(payload) = e
  BY <1>9, Zenon
<1>12. Clock = <<91, 0>> /\ Clock[1] = 91 /\ Clock # Power /\ 91 \in Whole
  BY CodeSets DEF Whole
<1>13. Target(code, payload) = Clock
  BY <1>10, <1>12, TargetIs
<1>14. Carried(code, payload) = e
  <2>1. Carried(code, payload) = Tail(payload)
    BY <1>10, CarriedIs
  <2> QED
    BY <2>1, <1>11, Zenon
<1>15. Cut(Clock, d) = e
  BY <1>5 DEF Cut
<1>16. e \in Values(91)
  <2>1. Values(91) = [1 .. n -> Byte]
    BY <1>1, ValuesAre
  <2> QED
    BY <2>1, <1>6, Zenon
<1>17. Clock \in Settings
  BY <1>12, WholeNamed
<1>18. d # <<>>
  <2>1. n # 0
    BY <1>1
  <2> QED
    BY <2>1, <1>4
<1>19. ~Illegal(Clock, d)
  BY <1>12, LegalPlain
<1>20. Proper(code, payload, Clock, d)
  <2>1. code > 0 /\ code # 106
    BY <1>10
  <2>2. d \in Seq(Nat) /\ Clock # Power /\ Cut(Clock, d) \in Values(Clock[1])
        /\ Carried(code, payload) = Cut(Clock, d)
    BY <1>4, <1>12, <1>14, <1>15, <1>16, Zenon
  <2> QED
    BY <2>1, <2>2, <1>13, <1>17, <1>18, <1>19, ProperWrite
<1> QED
  BY <1>5, <1>10, <1>11, <1>20, Zenon

-----------------------------------------------------------------------------
(***************************************************************************)
(* What every command does, said once: it asks properly, or it takes a     *)
(* reply and throws, or returns what that tells.                           *)
(***************************************************************************)
AskProper == \E code, payload, of, want : Proper(code, payload, of, want) /\ Ask(code, payload, of, want)

Received == Head(replies).data

TakeWell ==
  /\ replies # <<>> /\ Head(replies) # Unreadable /\ replies' = Tail(replies) /\ call # NoCall
  /\ \/ Throw
     \/ \E value \in Seq(Nat) : Return(value) /\ (call.want = <<>> => Tells(call.code, Received, value))
  /\ UNCHANGED <<board, changes, requests, since>>

(* Take, with what it makes of the reply.                                  *)
Took(code, least, value) ==
  /\ call.code = code /\ replies # <<>> /\ Head(replies) # Unreadable
  /\ replies' = Tail(replies)
  /\ IF Len(Received) >= least THEN Return(value) ELSE Throw
  /\ UNCHANGED <<board, changes, requests, since>>

LEMMA TookWell ==
  ASSUME NEW code \in Nat, code > 0, NEW least, NEW value, Took(code, least, value),
         Len(Received) >= least => Tells(code, Received, value)
  PROVE  TakeWell
<1>1. call # NoCall
  BY DEF Took, NoCall
<1>2. call.code = code
  BY DEF Took
<1>3. Len(Received) >= least => value \in Seq(Nat) /\ Tells(call.code, Received, value)
  BY <1>2 DEF Tells
<1> QED
  BY <1>1, <1>3 DEF Took, TakeWell

LEMMA ReadAsks ==
  /\ \A code \in ReadCodes \ {83, 84, 85} : Read(code, <<>>, <<code, 0>>) => AskProper
  /\ \A code \in {83, 84} : \A p \in Ports : Read(code, <<p>>, <<code, p>>) => AskProper
  /\ \A mode \in {0, 1} : Read(85, <<mode>>, <<85, mode>>) => AskProper
<1>1. ASSUME NEW code \in ReadCodes \ {83, 84, 85}, Read(code, <<>>, <<code, 0>>)
      PROVE  AskProper
  BY <1>1, ReadProper, Zenon DEF Read, AskProper
<1>2. ASSUME NEW code \in {83, 84}, NEW p \in Ports, Read(code, <<p>>, <<code, p>>)
      PROVE  AskProper
  <2>1. p \in Byte /\ code \in {83, 84, 85} /\ code # 85
    BY CommandsAssumption
  <2>2. code \in Addressed
    BY CodeSets
  <2>3. <<code, p>> \in Settings
    BY <2>1, <2>2, AddressedNamed
  <2>4. Proper(code, <<p>>, <<code, p>>, <<>>)
    BY <2>1, <2>3, ReadAtProper
  <2> QED
    BY <1>2, <2>4, Zenon DEF Read, AskProper
<1>3. ASSUME NEW mode \in {0, 1}, Read(85, <<mode>>, <<85, mode>>)
      PROVE  AskProper
  <2>1. mode \in Byte
    BY ByteIs
  <2>2. <<85, mode>> \in Settings
    BY AddressedNamed
  <2>3. Proper(85, <<mode>>, <<85, mode>>, <<>>)
    BY <2>1, <2>2, ReadAtProper
  <2> QED
    BY <1>3, <2>3, Zenon DEF Read, AskProper
<1> QED
  BY <1>1, <1>2, <1>3

(* The commands that read, one by one.                                     *)
LEMMA ReadsWell ==
  ASSUME replies # <<>> => Received \in Seq(Byte), Reads
  PROVE  AskProper \/ TakeWell
<1>1. ASSUME NEW code \in Nat, NEW least, NEW value, Took(code, least, value)
      PROVE  Received \in Seq(Byte)
  BY <1>1 DEF Took
<1>2. CASE ReadFirmware
  <2>1. (Read(81, <<>>, <<81, 0>>)) \/ Took(81, 3, First(3, Received))
    BY <1>2, CodeValues DEF ReadFirmware, Take, Took, Received
  <2>2. CASE Read(81, <<>>, <<81, 0>>)
    BY <2>2, ReadAsks DEF ReadCodes
  <2>3. CASE Took(81, 3, First(3, Received))
    <3>1. Len(Received) >= 3 => Tells(81, Received, First(3, Received))
      BY <2>3, <1>1, BytesTold
    <3> QED
      BY <2>3, <3>1, TookWell
  <2> QED
    BY <2>1, <2>2, <2>3
<1>3. CASE ReadStatus
  <2>1. (Read(82, <<>>, <<82, 0>>)) \/ Took(82, 2, Flags(Received[1], 8) \o Flags(Received[2], 8))
    BY <1>3, CodeValues DEF ReadStatus, Take, Took, Received
  <2>2. CASE Read(82, <<>>, <<82, 0>>)
    BY <2>2, ReadAsks DEF ReadCodes
  <2>3. CASE Took(82, 2, Flags(Received[1], 8) \o Flags(Received[2], 8))
    <3>1. Len(Received) >= 2 => Tells(82, Received, Flags(Received[1], 8) \o Flags(Received[2], 8))
      BY <2>3, <1>1, StatusTold
    <3> QED
      BY <2>3, <3>1, TookWell
  <2> QED
    BY <2>1, <2>2, <2>3
<1>4. CASE ReadStatusSpecial
  <2>1. (Read(86, <<>>, <<86, 0>>)) \/ Took(86, 1, Flags(Received[1], 2))
    BY <1>4, CodeValues DEF ReadStatusSpecial, Take, Took, Received
  <2>2. CASE Read(86, <<>>, <<86, 0>>)
    BY <2>2, ReadAsks DEF ReadCodes
  <2>3. CASE Took(86, 1, Flags(Received[1], 2))
    <3>1. Len(Received) >= 1 => Tells(86, Received, Flags(Received[1], 2))
      BY <2>3, <1>1, StatusTold
    <3> QED
      BY <2>3, <3>1, TookWell
  <2> QED
    BY <2>1, <2>2, <2>3
<1>5. CASE ReadChaveLiga
  <2>1. (Read(90, <<>>, <<90, 0>>)) \/ Took(90, 1, <<IF Received[1] # 0 THEN 1 ELSE 0>>)
    BY <1>5, CodeValues DEF ReadChaveLiga, Take, Took, Received, Switch
  <2>2. CASE Read(90, <<>>, <<90, 0>>)
    BY <2>2, ReadAsks DEF ReadCodes
  <2>3. CASE Took(90, 1, <<IF Received[1] # 0 THEN 1 ELSE 0>>)
    <3>1. Len(Received) >= 1 => Tells(90, Received, <<IF Received[1] # 0 THEN 1 ELSE 0>>)
      BY <2>3, <1>1, FlagTold
    <3> QED
      BY <2>3, <3>1, TookWell
  <2> QED
    BY <2>1, <2>2, <2>3
<1>6. CASE ReadDataHora
  <2>1. (Read(91, <<>>, <<91, 0>>)) \/ Took(91, 9, Tail(First(9, Received)))
    BY <1>6, CodeValues DEF ReadDataHora, Take, Took, Received, Clock
  <2>2. CASE Read(91, <<>>, <<91, 0>>)
    BY <2>2, ReadAsks DEF ReadCodes
  <2>3. CASE Took(91, 9, Tail(First(9, Received)))
    <3>1. Len(Received) >= 9 => Tells(91, Received, Tail(First(9, Received)))
      BY <2>3, <1>1, ClockTold
    <3> QED
      BY <2>3, <3>1, TookWell
  <2> QED
    BY <2>1, <2>2, <2>3
<1>7. CASE ReadMacPc
  <2>1. (Read(92, <<>>, <<92, 0>>)) \/ Took(92, 6, First(6, Received))
    BY <1>7, CodeValues DEF ReadMacPc, Take, Took, Received
  <2>2. CASE Read(92, <<>>, <<92, 0>>)
    BY <2>2, ReadAsks DEF ReadCodes
  <2>3. CASE Took(92, 6, First(6, Received))
    <3>1. Len(Received) >= 6 => Tells(92, Received, First(6, Received))
      BY <2>3, <1>1, BytesTold
    <3> QED
      BY <2>3, <3>1, TookWell
  <2> QED
    BY <2>1, <2>2, <2>3
<1>8. CASE ReadInfo1
  <2>1. (Read(93, <<>>, <<93, 0>>)) \/ Took(93, 15, First(15, Received))
    BY <1>8, CodeValues DEF ReadInfo1, Take, Took, Received
  <2>2. CASE Read(93, <<>>, <<93, 0>>)
    BY <2>2, ReadAsks DEF ReadCodes
  <2>3. CASE Took(93, 15, First(15, Received))
    <3>1. Len(Received) >= 15 => Tells(93, Received, First(15, Received))
      BY <2>3, <1>1, InfoTold
    <3> QED
      BY <2>3, <3>1, TookWell
  <2> QED
    BY <2>1, <2>2, <2>3
<1>9. CASE ReadInfo2
  <2>1. (Read(94, <<>>, <<94, 0>>)) \/ Took(94, 15, First(15, Received))
    BY <1>9, CodeValues DEF ReadInfo2, Take, Took, Received
  <2>2. CASE Read(94, <<>>, <<94, 0>>)
    BY <2>2, ReadAsks DEF ReadCodes
  <2>3. CASE Took(94, 15, First(15, Received))
    <3>1. Len(Received) >= 15 => Tells(94, Received, First(15, Received))
      BY <2>3, <1>1, InfoTold
    <3> QED
      BY <2>3, <3>1, TookWell
  <2> QED
    BY <2>1, <2>2, <2>3
<1>10. CASE ReadInfo3
  <2>1. (Read(95, <<>>, <<95, 0>>)) \/ Took(95, 15, First(15, Received))
    BY <1>10, CodeValues DEF ReadInfo3, Take, Took, Received
  <2>2. CASE Read(95, <<>>, <<95, 0>>)
    BY <2>2, ReadAsks DEF ReadCodes
  <2>3. CASE Took(95, 15, First(15, Received))
    <3>1. Len(Received) >= 15 => Tells(95, Received, First(15, Received))
      BY <2>3, <1>1, InfoTold
    <3> QED
      BY <2>3, <3>1, TookWell
  <2> QED
    BY <2>1, <2>2, <2>3
<1>11. CASE ReadKeyPressed
  <2>1. (Read(112, <<>>, <<112, 0>>)) \/ Took(112, 1, <<Received[1] % 128, Bit(Received[1], 128)>>)
    BY <1>11, CodeValues DEF ReadKeyPressed, Take, Took, Received
  <2>2. CASE Read(112, <<>>, <<112, 0>>)
    BY <2>2, ReadAsks DEF ReadCodes
  <2>3. CASE Took(112, 1, <<Received[1] % 128, Bit(Received[1], 128)>>)
    <3>1. Len(Received) >= 1 => Tells(112, Received, <<Received[1] % 128, Bit(Received[1], 128)>>)
      BY <2>3, <1>1, KeyTold
    <3> QED
      BY <2>3, <3>1, TookWell
  <2> QED
    BY <2>1, <2>2, <2>3
<1>12. CASE ReadKeyReleased
  <2>1. (Read(114, <<>>, <<114, 0>>)) \/ Took(114, 1, <<Received[1] % 128>>)
    BY <1>12, CodeValues DEF ReadKeyReleased, Take, Took, Received
  <2>2. CASE Read(114, <<>>, <<114, 0>>)
    BY <2>2, ReadAsks DEF ReadCodes
  <2>3. CASE Took(114, 1, <<Received[1] % 128>>)
    <3>1. Len(Received) >= 1 => Tells(114, Received, <<Received[1] % 128>>)
      BY <2>3, <1>1, KeyTold
    <3> QED
      BY <2>3, <3>1, TookWell
  <2> QED
    BY <2>1, <2>2, <2>3
<1>13. CASE ReadVersion
  <2>1. (Read(113, <<>>, <<113, 0>>)) \/ Took(113, 2, First(2, Received))
    BY <1>13, CodeValues DEF ReadVersion, Take, Took, Received
  <2>2. CASE Read(113, <<>>, <<113, 0>>)
    BY <2>2, ReadAsks DEF ReadCodes
  <2>3. CASE Took(113, 2, First(2, Received))
    <3>1. Len(Received) >= 2 => Tells(113, Received, First(2, Received))
      BY <2>3, <1>1, BytesTold
    <3> QED
      BY <2>3, <3>1, TookWell
  <2> QED
    BY <2>1, <2>2, <2>3
<1>14. CASE ReadInputDigital
  <2>1. (\E p \in Ports : Read(83, <<p>>, <<83, p>>)) \/ Took(83, 1, <<IF Received[1] # 0 THEN 1 ELSE 0>>)
    BY <1>14, CodeValues DEF ReadInputDigital, Take, Took, Received
  <2>2. CASE \E p \in Ports : Read(83, <<p>>, <<83, p>>)
    BY <2>2, ReadAsks
  <2>3. CASE Took(83, 1, <<IF Received[1] # 0 THEN 1 ELSE 0>>)
    <3>1. Len(Received) >= 1 => Tells(83, Received, <<IF Received[1] # 0 THEN 1 ELSE 0>>)
      BY <2>3, <1>1, FlagTold
    <3> QED
      BY <2>3, <3>1, TookWell
  <2> QED
    BY <2>1, <2>2, <2>3
<1>15. CASE ReadAnalogInput
  <2>1. (\E p \in Ports : Read(84, <<p>>, <<84, p>>)) \/ Took(84, 2, <<Received[1] * 256 + Received[2]>>)
    BY <1>15, CodeValues DEF ReadAnalogInput, Take, Took, Received
  <2>2. CASE \E p \in Ports : Read(84, <<p>>, <<84, p>>)
    BY <2>2, ReadAsks
  <2>3. CASE Took(84, 2, <<Received[1] * 256 + Received[2]>>)
    <3>1. Len(Received) >= 2 => Tells(84, Received, <<Received[1] * 256 + Received[2]>>)
      BY <2>3, <1>1, WordTold
    <3> QED
      BY <2>3, <3>1, TookWell
  <2> QED
    BY <2>1, <2>2, <2>3
<1>16. CASE ReadSensorDistance
  <2>1. (\E mode \in {0, 1} : Read(85, <<mode>>, <<85, mode>>)) \/ Took(85, 2, <<Received[1] * 256 + Received[2]>>)
    BY <1>16, CodeValues DEF ReadSensorDistance, Take, Took, Received
  <2>2. CASE \E mode \in {0, 1} : Read(85, <<mode>>, <<85, mode>>)
    BY <2>2, ReadAsks
  <2>3. CASE Took(85, 2, <<Received[1] * 256 + Received[2]>>)
    <3>1. Len(Received) >= 2 => Tells(85, Received, <<Received[1] * 256 + Received[2]>>)
      BY <2>3, <1>1, WordTold
    <3> QED
      BY <2>3, <3>1, TookWell
  <2> QED
    BY <2>1, <2>2, <2>3
<1> QED
  BY <1>2, <1>3, <1>4, <1>5, <1>6, <1>7, <1>8, <1>9, <1>10, <1>11, <1>12, <1>13, <1>14, <1>15, <1>16 DEF Reads

(* What the commands that write are given.                                 *)
(* The blocks of bytes.                                                    *)
LEMMA BlockIs ==
  ASSUME NEW n \in Nat, NEW octet \in Byte
  PROVE  /\ Block(n, octet) \in [1 .. n -> Byte] /\ Block(n, octet) \in Seq(Byte)
         /\ Len(Block(n, octet)) = n
<1>1. \A i \in 1 .. n : (IF octet = 0 THEN 0 ELSE (octet + i) % 256) \in Byte
  <2> SUFFICES ASSUME NEW i \in 1 .. n  PROVE (IF octet = 0 THEN 0 ELSE (octet + i) % 256) \in Byte
    OBVIOUS
  <2>1. octet + i \in Nat
    BY ByteIs
  <2>2. \A m \in Nat : m % 256 \in Nat /\ m % 256 <= 255
    OBVIOUS
  <2> QED
    BY <2>1, <2>2, ByteIs
<1>2. Block(n, octet) \in [1 .. n -> Byte]
  BY <1>1 DEF Block
<1> QED
  BY <1>2, FixedShape

(* The values the commands send.                                           *)
LEMMA SentBytes ==
  /\ \A v \in Octets : v \in Nat /\ <<v>> \in Seq(Byte) /\ <<v>> # <<>> /\ <<v>>[1] = v
  /\ \A v, w \in Octets : <<v, w>> \in Seq(Byte) /\ <<v, w>> # <<>> /\ <<v, w>>[1] = v /\ <<v, w>>[2] = w
  /\ \A v \in {0, 1} : <<v>> \in Seq(Byte) /\ <<v>> # <<>>
<1>1. \A v \in Octets : v \in Byte
  BY CommandsAssumption
<1>2. \A v \in {0, 1} : v \in Byte
  BY ByteIs
<1>3. \A v \in Octets : v \in Nat /\ <<v>> \in Seq(Byte) /\ <<v>> # <<>> /\ <<v>>[1] = v
  BY <1>1, ByteIs
<1>4. \A v, w \in Octets : <<v, w>> \in Seq(Byte) /\ <<v, w>> # <<>> /\ <<v, w>>[1] = v /\ <<v, w>>[2] = w
  BY <1>1
<1>5. \A v \in {0, 1} : <<v>> \in Seq(Byte) /\ <<v>> # <<>>
  BY <1>2
<1> QED
  BY <1>3, <1>4, <1>5

LEMMA WriteAsks ==
  ASSUME NEW code, NEW of, NEW want, Proper(code, want, of, want), Write(code, of, want)
  PROVE  AskProper
BY Zenon DEF Write, AskProper

LEMMA WriteAtAsks ==
  ASSUME NEW code, NEW p, NEW want, Proper(code, <<p>> \o want, <<code, p>>, want),
         WriteAt(code, p, want)
  PROVE  AskProper
BY Zenon DEF WriteAt, AskProper

(* The commands that write, one by one: those that send an address first,  *)
(* those that set a speed, those that send a block, and those with a form  *)
(* of their own.                                                           *)
LEMMA AddressedWrites ==
  WriteSpecial \/ WriteConfig \/ WriteDigitalOut \/ WriteAnalogOut \/ WriteLedTecla => AskProper
<1>1. ASSUME NEW code \in {97, 100, 120}, NEW p \in Ports, NEW want \in Seq(Byte), want # <<>>,
             WriteAt(code, p, want)
      PROVE  AskProper
  <2>1. <<code, p>>[1] \notin {93, 94, 95, 98, 99, 103, 104, 121}
    OBVIOUS
  <2>2. ~Illegal(<<code, p>>, want)
    BY <2>1, LegalPlain
  <2>3. Proper(code, <<p>> \o want, <<code, p>>, want)
    BY <1>1, <2>2, WriteAtProper
  <2> QED
    BY <1>1, <2>3, WriteAtAsks
<1>2. ASSUME WriteSpecial  PROVE AskProper
  <2>1. PICK p \in Ports, v \in Octets : WriteAt(97, p, <<v>>)
    BY <1>2, CodeValues DEF WriteSpecial
  <2>2. PICK want \in Seq(Byte) : want = <<v>> /\ want # <<>>
    <3>1. <<v>> \in Seq(Byte) /\ <<v>> # <<>>
      BY SentBytes, Zenon
    <3> QED
      BY <3>1, Zenon
  <2>3. WriteAt(97, p, want)
    BY <2>1, <2>2, Zenon
  <2>4. 97 \in {97, 100, 120} /\ want # <<>>
    BY <2>2
  <2> QED
    BY <2>3, <2>4, <1>1, ZenonT(60)
<1>3. ASSUME WriteAnalogOut  PROVE AskProper
  <2>1. PICK p \in Ports, v \in Octets : WriteAt(100, p, <<v>>)
    BY <1>3, CodeValues DEF WriteAnalogOut
  <2>2. PICK want \in Seq(Byte) : want = <<v>> /\ want # <<>>
    <3>1. <<v>> \in Seq(Byte) /\ <<v>> # <<>>
      BY SentBytes, Zenon
    <3> QED
      BY <3>1, Zenon
  <2>3. WriteAt(100, p, want)
    BY <2>1, <2>2, Zenon
  <2>4. 100 \in {97, 100, 120} /\ want # <<>>
    BY <2>2
  <2> QED
    BY <2>3, <2>4, <1>1, Zenon
<1>4. ASSUME WriteLedTecla  PROVE AskProper
  <2>1. PICK p \in Ports, on \in {0, 1} : WriteAt(120, p, <<on>>)
    BY <1>4, CodeValues DEF WriteLedTecla
  <2>2. PICK want \in Seq(Byte) : want = <<on>> /\ want # <<>>
    <3>1. <<on>> \in Seq(Byte) /\ <<on>> # <<>>
      BY SentBytes, Zenon
    <3> QED
      BY <3>1, Zenon
  <2>3. WriteAt(120, p, want)
    BY <2>1, <2>2, Zenon
  <2>4. 120 \in {97, 100, 120} /\ want # <<>>
    BY <2>2
  <2> QED
    BY <2>3, <2>4, <1>1, ZenonT(60)
<1>5. ASSUME WriteDigitalOut  PROVE AskProper
  <2>1. PICK p \in Ports, v \in Octets : v <= 1 /\ WriteAt(99, p, <<v>>)
    BY <1>5, CodeValues DEF WriteDigitalOut
  <2>2. PICK want \in Seq(Byte) : want = <<v>> /\ want # <<>> /\ want[1] = v
    <3>1. <<v>> \in Seq(Byte) /\ <<v>> # <<>> /\ <<v>>[1] = v
      BY SentBytes, Zenon
    <3> QED
      BY <3>1, Zenon
  <2>3. want \in Seq(Nat)
    BY ByteIs
  <2>4. PICK of : of = <<99, p>> /\ of[1] = 99
    <3>1. <<99, p>>[1] = 99
      OBVIOUS
    <3> QED
      BY <3>1, Zenon
  <2>5. ~Illegal(<<99, p>>, want)
    <3>1. want[1] \in Int /\ want[1] <= 1
      BY <2>1, <2>2, SentBytes
    <3>2. of[1] \notin {93, 94, 95, 98, 103, 104, 121}
      BY <2>4
    <3>3. ~Illegal(of, want)
      BY <3>1, <3>2, <2>3, LegalIs
    <3> QED
      BY <2>4, <3>3, Zenon
  <2>6. Proper(99, <<p>> \o want, <<99, p>>, want)
    BY <2>2, <2>5, WriteAtProper
  <2> QED
    BY <2>1, <2>2, <2>6, WriteAtAsks
<1>6. ASSUME WriteConfig  PROVE AskProper
  <2>1. PICK p \in Ports, n \in 0 .. 3 : Len(Block(n, 7)) \in 1 .. 2 /\ WriteAt(98, p, Block(n, 7))
    BY <1>6, CodeValues DEF WriteConfig
  <2>2. n \in Nat /\ 7 \in Byte
    BY ByteIs
  <2>3. PICK want \in Seq(Byte) : want = Block(n, 7) /\ Len(want) = n
    BY <2>2, BlockIs
  <2>4. n \in 1 .. 2
    BY <2>1, <2>3
  <2>5. want \in Seq(Nat)
    BY ByteIs
  <2>6. want # <<>> /\ Len(want) <= 2
    BY <2>3, <2>4
  <2>7. PICK of : of = <<98, p>> /\ of[1] = 98
    <3>1. <<98, p>>[1] = 98
      OBVIOUS
    <3> QED
      BY <3>1, Zenon
  <2>8. ~Illegal(<<98, p>>, want)
    <3>1. of[1] \notin {93, 94, 95, 99, 103, 104, 121}
      BY <2>7
    <3>2. ~Illegal(of, want)
      BY <3>1, <2>5, <2>6, LegalIs
    <3> QED
      BY <2>7, <3>2, Zenon
  <2>9. Proper(98, <<p>> \o want, <<98, p>>, want)
    BY <2>6, <2>8, WriteAtProper
  <2> QED
    BY <2>1, <2>3, <2>9, WriteAtAsks
<1> QED
  BY <1>2, <1>3, <1>4, <1>5, <1>6

LEMMA BaudWrites == WriteBaudUart1 \/ WriteBaudUart2 => AskProper
<1>1. ASSUME NEW code \in {103, 104}, NEW speed \in Octets, NEW parity \in Octets,
             speed <= 8, parity <= 3, Write(code, <<code, 0>>, <<speed, parity>>)
      PROVE  AskProper
  <2>1. speed \in Nat /\ parity \in Nat
    BY SentBytes
  <2>2. PICK want \in Seq(Byte) :
          want = <<speed, parity>> /\ want # <<>> /\ want[1] = speed /\ want[2] = parity
    <3>1. /\ <<speed, parity>> \in Seq(Byte) /\ <<speed, parity>> # <<>>
          /\ <<speed, parity>>[1] = speed /\ <<speed, parity>>[2] = parity
      BY SentBytes, ZenonT(60)
    <3> QED
      BY <3>1, Zenon
  <2>3. want \in Seq(Nat)
    BY ByteIs
  <2>4. want[1] \in Int /\ want[1] <= 8 /\ want[2] \in Int /\ want[2] <= 3
    BY <1>1, <2>1, <2>2
  <2>5. ~Illegal(<<code, 0>>, want)
    <3>1. PICK of : of = <<code, 0>> /\ of[1] = code
      <4>1. <<code, 0>>[1] = code
        OBVIOUS
      <4> QED
        BY <4>1, Zenon
    <3>2. of[1] \notin {93, 94, 95, 98, 99, 121}
      BY <3>1
    <3>3. ~Illegal(of, want)
      BY <3>2, <2>3, <2>4, LegalIs
    <3> QED
      BY <3>1, <3>3, Zenon
  <2>6. want \in Values(code)
    BY <2>3, ValuesOfOthers, SMTT(30)
  <2>7. Proper(code, want, <<code, 0>>, want)
    <3>1. code \in {101, 102, 103, 104, 122} \cup 108 .. 111
      OBVIOUS
    <3>2. code = (IF code \in 108 .. 111 THEN code - 16 ELSE code)
      OBVIOUS
    <3>3. want # <<>>
      BY <2>2
    <3> QED
      BY <3>1, <3>2, <3>3, <2>5, <2>6, WriteProper, Zenon
  <2> QED
    BY <1>1, <2>2, <2>7, WriteAsks
<1>2. ASSUME WriteBaudUart1  PROVE AskProper
  <2>1. PICK speed, parity \in Octets :
          speed <= 8 /\ parity <= 3 /\ Write(103, <<103, 0>>, <<speed, parity>>)
    BY <1>2, CodeValues DEF WriteBaudUart1
  <2> QED
    BY <2>1, <1>1
<1>3. ASSUME WriteBaudUart2  PROVE AskProper
  <2>1. PICK speed, parity \in Octets :
          speed <= 8 /\ parity <= 3 /\ Write(104, <<104, 0>>, <<speed, parity>>)
    BY <1>3, CodeValues DEF WriteBaudUart2
  <2> QED
    BY <2>1, <1>1
<1> QED
  BY <1>2, <1>3

LEMMA BlockWrites ==
  WriteNetworkConfig \/ WriteMac \/ WriteMacPc \/ WriteInfo1 \/ WriteInfo2 \/ WriteInfo3 \/ WriteBeepTecla
    => AskProper
<1>1. ASSUME NEW code \in {101, 102, 108, 109, 110, 111, 122}, NEW of, NEW want \in Seq(Byte), want # <<>>,
             of = (IF code \in 108 .. 111 THEN code - 16 ELSE code),
             want \in Values(of), of \in {93, 94, 95} => ~AllZero(want), Write(code, <<of, 0>>, want)
      PROVE  AskProper
  <2>1. <<of, 0>>[1] = of /\ of \notin {98, 99, 103, 104, 121}
    BY <1>1
  <2>2. want \in Seq(Nat)
    BY ByteIs
  <2>3. ~Illegal(<<of, 0>>, want)
    BY <1>1, <2>1, <2>2, LegalIs
  <2>4. code \in {101, 102, 103, 104, 122} \cup 108 .. 111
    OBVIOUS
  <2>5. Proper(code, want, <<of, 0>>, want)
    BY <1>1, <2>3, <2>4, WriteProper
  <2> QED
    BY <1>1, <2>5, WriteAsks
<1>2. ASSUME NEW n \in Nat, n > 0, NEW v \in Octets
      PROVE  Block(n, v) \in [1 .. n -> Byte] /\ Block(n, v) \in Seq(Byte) /\ Block(n, v) # <<>>
  <2>1. v \in Byte
    BY CommandsAssumption
  <2>2. Block(n, v) \in Seq(Byte) /\ Len(Block(n, v)) = n /\ Block(n, v) \in [1 .. n -> Byte]
    BY <2>1, BlockIs
  <2> QED
    BY <1>2, <2>2
<1>3. ASSUME NEW want \in Seq(Byte)  PROVE want \in Values(101) /\ want \in Values(102) /\ want \in Values(122)
  <2>1. want \in Seq(Nat)
    BY ByteIs
  <2> QED
    BY <2>1, ValuesOfOthers, SMTT(30)
<1>4. PICK six, fifteen, sixteen \in Nat :
        /\ six = 6 /\ fifteen = 15 /\ sixteen = 16 /\ six > 0 /\ fifteen > 0 /\ sixteen > 0
  OBVIOUS
<1>5. ASSUME WriteNetworkConfig  PROVE AskProper
  <2>1. PICK v \in Octets : Write(101, <<101, 0>>, Block(sixteen, v))
    BY <1>4, <1>5, CodeValues DEF WriteNetworkConfig
  <2>2. Block(sixteen, v) \in Seq(Byte) /\ Block(sixteen, v) # <<>>
    BY <1>2, <1>4
  <2> QED
    BY <2>1, <2>2, <1>1, <1>3
<1>6. ASSUME WriteMac  PROVE AskProper
  <2>1. PICK v \in Octets : Write(102, <<102, 0>>, Block(six, v))
    BY <1>4, <1>6, CodeValues DEF WriteMac
  <2>2. Block(six, v) \in Seq(Byte) /\ Block(six, v) # <<>>
    BY <1>2, <1>4
  <2> QED
    BY <2>1, <2>2, <1>1, <1>3
<1>7. ASSUME WriteBeepTecla  PROVE AskProper
  <2>1. PICK on \in {0, 1} : Write(122, <<122, 0>>, <<on>>)
    BY <1>7, CodeValues DEF WriteBeepTecla
  <2>2. PICK want \in Seq(Byte) : want = <<on>> /\ want # <<>>
    <3>1. <<on>> \in Seq(Byte) /\ <<on>> # <<>>
      BY SentBytes, Zenon
    <3> QED
      BY <3>1, Zenon
  <2>3. Write(122, <<122, 0>>, want)
    BY <2>1, <2>2, Zenon
  <2>4. want # <<>> /\ want \in Values(122)
    BY <2>2, <1>3, ZenonT(60)
  <2> QED
    BY <2>3, <2>4, <1>1
<1>8. ASSUME WriteMacPc  PROVE AskProper
  <2>1. PICK v \in Octets : Write(108, <<92, 0>>, Block(six, v))
    BY <1>4, <1>8, CodeValues DEF WriteMacPc
  <2>2. Values(92) = [1 .. six -> Byte]
    BY <1>4, ValuesAre
  <2>3. Block(six, v) \in Seq(Byte) /\ Block(six, v) # <<>> /\ Block(six, v) \in Values(92)
    BY <2>2, <1>2, <1>4
  <2> QED
    BY <2>1, <2>3, <1>1
<1>9. Values(93) = [1 .. fifteen -> Byte] /\ Values(94) = [1 .. fifteen -> Byte]
      /\ Values(95) = [1 .. fifteen -> Byte]
  BY <1>4, ValuesAre
<1>10. ASSUME WriteInfo1  PROVE AskProper
  <2>1. PICK v \in Octets : ~AllZero(Block(fifteen, v)) /\ Write(109, <<93, 0>>, Block(fifteen, v))
    BY <1>4, <1>10, CodeValues DEF WriteInfo1
  <2>2. Block(fifteen, v) \in Seq(Byte) /\ Block(fifteen, v) # <<>> /\ Block(fifteen, v) \in Values(93)
    BY <1>2, <1>4, <1>9
  <2> QED
    BY <2>1, <2>2, <1>1
<1>11. ASSUME WriteInfo2  PROVE AskProper
  <2>1. PICK v \in Octets : ~AllZero(Block(fifteen, v)) /\ Write(110, <<94, 0>>, Block(fifteen, v))
    BY <1>4, <1>11, CodeValues DEF WriteInfo2
  <2>2. Block(fifteen, v) \in Seq(Byte) /\ Block(fifteen, v) # <<>> /\ Block(fifteen, v) \in Values(94)
    BY <1>2, <1>4, <1>9
  <2> QED
    BY <2>1, <2>2, <1>1
<1>12. ASSUME WriteInfo3  PROVE AskProper
  <2>1. PICK v \in Octets : ~AllZero(Block(fifteen, v)) /\ Write(111, <<95, 0>>, Block(fifteen, v))
    BY <1>4, <1>12, CodeValues DEF WriteInfo3
  <2>2. Block(fifteen, v) \in Seq(Byte) /\ Block(fifteen, v) # <<>> /\ Block(fifteen, v) \in Values(95)
    BY <1>2, <1>4, <1>9
  <2> QED
    BY <2>1, <2>2, <1>1
<1> QED
  BY <1>5, <1>6, <1>7, <1>8, <1>10, <1>11, <1>12

LEMMA OwnWrites == WriteDigitalTimer \/ WriteBuzzer \/ DesligaMcb \/ WriteDataHora => AskProper
<1>1. ASSUME WriteDigitalTimer  PROVE AskProper
  <2>1. PICK p \in Ports, t \in Words : Ask(105, <<p, High(t), Low(t)>>, <<105, p>>, <<t>>)
    BY <1>1, CodeValues DEF WriteDigitalTimer
  <2> QED
    BY <2>1, TimerProper DEF AskProper
<1>2. ASSUME WriteBuzzer  PROVE AskProper
  <2>1. PICK t \in Words : Bearable(t) /\ Ask(121, <<High(t), Low(t)>>, <<121, 0>>, <<t>>)
    BY <1>2, CodeValues DEF WriteBuzzer, Bearable
  <2> QED
    BY <2>1, BuzzerProper DEF AskProper
<1>3. ASSUME DesligaMcb  PROVE AskProper
  <2>1. Ask(106, <<>>, Power, <<0>>)
    BY <1>3, CodeValues DEF DesligaMcb
  <2> QED
    BY <2>1, OffProper DEF AskProper
<1>4. ASSUME WriteDataHora  PROVE AskProper
  <2>1. PICK d \in Clocks : Ask(107, <<0>> \o [d EXCEPT ![Year] = @ % 256], Clock, d)
    BY <1>4, CodeValues DEF WriteDataHora
  <2> QED
    BY <2>1, DateProper DEF AskProper
<1> QED
  BY <1>1, <1>2, <1>3, <1>4

(* All of them.                                                            *)
LEMMA WritesWell == Writes => AskProper
<1>1. WriteSpecial => AskProper  BY AddressedWrites, Zenon
<1>2. WriteConfig => AskProper  BY AddressedWrites, Zenon
<1>3. WriteDigitalOut => AskProper  BY AddressedWrites, Zenon
<1>4. WriteAnalogOut => AskProper  BY AddressedWrites, Zenon
<1>5. WriteLedTecla => AskProper  BY AddressedWrites, Zenon
<1>6. WriteBaudUart1 => AskProper  BY BaudWrites, Zenon
<1>7. WriteBaudUart2 => AskProper  BY BaudWrites, Zenon
<1>8. WriteNetworkConfig => AskProper  BY BlockWrites, Zenon
<1>9. WriteMac => AskProper  BY BlockWrites, Zenon
<1>10. WriteMacPc => AskProper  BY BlockWrites, Zenon
<1>11. WriteInfo1 => AskProper  BY BlockWrites, Zenon
<1>12. WriteInfo2 => AskProper  BY BlockWrites, Zenon
<1>13. WriteInfo3 => AskProper  BY BlockWrites, Zenon
<1>14. WriteBeepTecla => AskProper  BY BlockWrites, Zenon
<1>15. WriteDigitalTimer => AskProper  BY OwnWrites, Zenon
<1>16. WriteBuzzer => AskProper  BY OwnWrites, Zenon
<1>17. DesligaMcb => AskProper  BY OwnWrites, Zenon
<1>18. WriteDataHora => AskProper  BY OwnWrites, Zenon
<1> QED
  BY <1>1, <1>2, <1>3, <1>4, <1>5, <1>6, <1>7, <1>8, <1>9, <1>10, <1>11, <1>12, <1>13, <1>14, <1>15, <1>16, <1>17, <1>18
     DEF Writes

(* Only the commands that write are content with any reply.                *)
LEMMA WriteReturnsWell == WriteReturns => TakeWell
<1> SUFFICES ASSUME WriteReturns  PROVE TakeWell
  OBVIOUS
<1>1. call.want # <<>>
  BY DEF WriteReturns
<1>2. call # NoCall
  BY <1>1 DEF NoCall
<1>3. <<>> \in Seq(Nat)
  OBVIOUS
<1>4. Throw \/ Return(<<>>)
  BY DEF WriteReturns, Take
<1>5. /\ replies # <<>> /\ Head(replies) # Unreadable /\ replies' = Tail(replies)
      /\ UNCHANGED <<board, changes, requests, since>>
  BY DEF WriteReturns, Take
<1>6. Throw \/ \E value \in Seq(Nat) : Return(value) /\ (call.want = <<>> => Tells(call.code, Received, value))
  BY <1>1, <1>3, <1>4, Zenon
<1> QED
  BY <1>2, <1>5, <1>6, Zenon DEF TakeWell

-----------------------------------------------------------------------------
(* Sequences of elements of a type, in terms of the elements.              *)
LEMMA Appended ==
  ASSUME NEW S, NEW s \in Seq(S), NEW x \in S
  PROVE  /\ Append(s, x) \in Seq(S) /\ Len(s) \in Nat /\ DOMAIN s = 1 .. Len(s)
         /\ DOMAIN Append(s, x) = 1 .. Len(s) + 1 /\ Append(s, x)[Len(s) + 1] = x
         /\ \A i \in 1 .. Len(s) : Append(s, x)[i] = s[i]
OBVIOUS

LEMMA FirstTaken ==
  ASSUME NEW S, NEW s \in Seq(S), s # <<>>
  PROVE  /\ Head(s) \in S /\ Tail(s) \in Seq(S) /\ Len(s) \in Nat \ {0}
         /\ DOMAIN s = 1 .. Len(s) /\ DOMAIN Tail(s) = 1 .. Len(s) - 1 /\ Head(s) = s[1]
         /\ \A i \in 1 .. Len(s) - 1 : Tail(s)[i] = s[i + 1]
OBVIOUS

LEMMA Joined ==
  ASSUME NEW S, NEW s \in Seq(S), NEW a \in Seq(S)
  PROVE  /\ s \o a \in Seq(S) /\ Len(s) \in Nat /\ Len(a) \in Nat
         /\ DOMAIN s = 1 .. Len(s) /\ DOMAIN a = 1 .. Len(a)
         /\ DOMAIN (s \o a) = 1 .. Len(s) + Len(a)
         /\ \A i \in 1 .. Len(s) : (s \o a)[i] = s[i]
         /\ \A i \in 1 .. Len(a) : (s \o a)[Len(s) + i] = a[i]
<1>1. s \o a \in Seq(S) /\ Len(s \o a) = Len(s) + Len(a)
  OBVIOUS
<1>2. \A i \in 1 .. Len(s) : (s \o a)[i] = s[i]
  OBVIOUS
<1>3. \A i \in 1 .. Len(a) : (s \o a)[Len(s) + i] = a[i]
  OBVIOUS
<1> QED
  BY <1>1, <1>2, <1>3

-----------------------------------------------------------------------------
(***************************************************************************)
(* What is true of the values: those the board has can be told, requests   *)
(* are proper and stand for the call in progress, and a reply to that call *)
(* tells what its setting was.                                             *)
(***************************************************************************)
Requested(r) == Proper(r.code, r.payload, r.of, r.want)

Own(r, c) == r.n = c.n => r.of = c.of /\ r.want = c.want /\ r.code = c.code

Answered(reply, c) ==
  /\ c.want = <<>> => reply.value \in Values(c.code) /\ reply.data = Told(c.code, reply.value)
  /\ c.of = Power => reply.value # c.want

Typed ==
  /\ board \in [Settings -> Seq(Nat)] /\ changes \in 0 .. MaxChanges
  /\ requests \in Seq(Requests) /\ replies \in Seq(Replies)
  /\ call \in Calls /\ calls \in 0 .. MaxCalls
  /\ exact \in BOOLEAN /\ got \in [n : Nat, of : Settings \cup {<<>>}, value : Seq(Nat)]

Numbered == \A i \in DOMAIN requests : requests[i].n \in i .. calls

AllProper == \A i \in DOMAIN requests : Requested(requests[i]) /\ Own(requests[i], call)

BoardRight == \A k \in Settings : board[k] \in Values(k[1])

CallRight == call = NoCall \/ (call.n = calls /\ calls > 0)

RepliesRight ==
  \A i \in DOMAIN replies :
    /\ replies[i].to \in 0 .. calls /\ (replies[i] # Unreadable => replies[i].to > 0)
    /\ call # NoCall /\ replies[i].to = call.n => Answered(replies[i], call)

Unanswered ==
  \A i \in DOMAIN replies : \A j \in DOMAIN requests : replies[i].to # requests[j].n

VInv ==
  Typed /\ Numbered /\ AllProper /\ BoardRight /\ CallRight /\ RepliesRight /\ Unanswered

-----------------------------------------------------------------------------
LEMMA VInit == Init => VInv
<1> SUFFICES ASSUME Init  PROVE VInv
  OBVIOUS
<1>1. board \in [Settings -> Seq(Nat)] /\ BoardRight
  BY CommandsAssumption DEF Init, BoardRight
<1>2. /\ MaxCalls \in Nat /\ MaxChanges \in Nat
  BY CommandsAssumption
<1>3. requests = <<>> /\ replies = <<>> /\ call = NoCall /\ calls = 0 /\ changes = 0 /\ exact = TRUE
      /\ got = [n |-> 0, of |-> <<>>, value |-> <<>>]
  BY DEF Init
<1>4. NoCall \in Calls
  BY DEF NoCall, Calls
<1>5. Typed
  BY <1>1, <1>2, <1>3, <1>4 DEF Typed
<1>6. DOMAIN requests = {} /\ DOMAIN replies = {}
  BY <1>3, EmptySequence
<1>7. Numbered /\ AllProper /\ RepliesRight /\ Unanswered
  BY <1>6 DEF Numbered, AllProper, RepliesRight, Unanswered
<1>8. CallRight
  BY <1>3 DEF CallRight
<1> QED
  BY <1>1, <1>5, <1>7, <1>8 DEF VInv

(* The new request is proper and stands for its call; no reply is to it    *)
(* yet.                                                                    *)
LEMMA AskKeepsValues ==
  ASSUME VInv, AskProper
  PROVE  VInv'
<1>1. PICK code, payload, of, want : Proper(code, payload, of, want) /\ Ask(code, payload, of, want)
  BY DEF AskProper
<1> DEFINE r == [n |-> calls', of |-> of, want |-> want, code |-> code, payload |-> payload]
           m == Len(requests)
<1>2. /\ calls' = calls + 1 /\ calls < MaxCalls /\ call = NoCall
      /\ call' = [n |-> calls', of |-> of, want |-> want, code |-> code]
      /\ requests' = Append(requests, r)
      /\ board' = board /\ changes' = changes /\ replies' = replies /\ since' = since
      /\ exact' = exact /\ got' = got
  BY <1>1 DEF Ask
<1>3. /\ code \in Nat /\ payload \in Seq(Byte) /\ of \in Settings /\ want \in Seq(Nat)
  BY <1>1 DEF Proper
<1>4. calls \in Nat /\ calls' \in 0 .. MaxCalls /\ calls' \in Nat /\ MaxCalls \in Nat
  BY <1>2, CommandsAssumption DEF VInv, Typed
<1>5. r \in Requests /\ call' \in Calls
  BY <1>2, <1>3, <1>4 DEF Requests, Calls
<1>6. /\ requests' \in Seq(Requests) /\ m \in Nat /\ DOMAIN requests = 1 .. m
      /\ DOMAIN requests' = 1 .. m + 1 /\ requests'[m + 1] = r
      /\ \A i \in 1 .. m : requests'[i] = requests[i]
  <2>1. requests \in Seq(Requests)
    BY DEF VInv, Typed
  <2> HIDE DEF r
  <2> QED
    BY <1>2, <1>5, <2>1, Appended
<1>7. Typed'
  BY <1>2, <1>4, <1>5, <1>6 DEF VInv, Typed
<1>8. \A i \in 1 .. m : requests[i].n \in i .. calls
  BY <1>6 DEF VInv, Numbered
<1>9. r.n = calls' /\ Requested(r) /\ Own(r, call')
  BY <1>1, <1>2 DEF Requested, Own
<1> HIDE DEF r
<1>10. Numbered'
  <2>1. m <= calls
    BY <1>4, <1>6, <1>8
  <2> QED
    BY <2>1, <1>2, <1>4, <1>6, <1>8, <1>9 DEF Numbered
<1>11. AllProper'
  <2> SUFFICES ASSUME NEW i \in 1 .. m + 1
               PROVE  Requested(requests'[i]) /\ Own(requests'[i], call')
    BY <1>6 DEF AllProper
  <2>1. CASE i = m + 1
    BY <2>1, <1>6, <1>9
  <2>2. CASE i \in 1 .. m
    <3>1. requests'[i] = requests[i] /\ Requested(requests[i])
      BY <2>2, <1>6 DEF VInv, AllProper
    <3>2. requests[i].n # call'.n
      BY <2>2, <1>2, <1>4, <1>8
    <3> QED
      BY <3>1, <3>2 DEF Own
  <2> QED
    BY <2>1, <2>2, <1>6
<1>12. BoardRight'
  BY <1>2 DEF VInv, BoardRight
<1>13. CallRight'
  BY <1>2, <1>4 DEF CallRight
<1>14. RepliesRight'
  <2> SUFFICES ASSUME NEW i \in DOMAIN replies
               PROVE  /\ replies[i].to \in 0 .. calls + 1 /\ (replies[i] # Unreadable => replies[i].to > 0)
                      /\ replies[i].to # call'.n
    BY <1>2 DEF RepliesRight
  <2>1. replies[i].to \in 0 .. calls /\ (replies[i] # Unreadable => replies[i].to > 0)
    BY DEF VInv, RepliesRight
  <2> QED
    BY <2>1, <1>2, <1>4
<1>15. Unanswered'
  <2> SUFFICES ASSUME NEW i \in DOMAIN replies, NEW j \in 1 .. m + 1
               PROVE  replies[i].to # requests'[j].n
    BY <1>2, <1>6 DEF Unanswered
  <2>1. CASE j = m + 1
    <3>1. replies[i].to \in 0 .. calls
      BY DEF VInv, RepliesRight
    <3> QED
      BY <2>1, <3>1, <1>2, <1>4, <1>6, <1>9
  <2>2. CASE j \in 1 .. m
    BY <2>2, <1>6 DEF VInv, Unanswered
  <2> QED
    BY <2>1, <2>2, <1>6
<1> QED
  BY <1>7, <1>10, <1>11, <1>12, <1>13, <1>14, <1>15 DEF VInv

(* A call that ends, with or without a value; nothing it left behind is    *)
(* taken for an answer to it.                                              *)
LEMMA EndKeepsValues ==
  ASSUME VInv, call' = NoCall, replies' \in Seq(Replies),
         \A i \in DOMAIN replies' : \E j \in DOMAIN replies : replies'[i] = replies[j],
         UNCHANGED <<board, changes, requests, calls>>,
         exact' \in BOOLEAN, got' \in [n : Nat, of : Settings \cup {<<>>}, value : Seq(Nat)]
  PROVE  VInv'
<1>1. NoCall \in Calls /\ NoCall.n = 0
  BY DEF NoCall, Calls
<1>2. Typed'
  BY <1>1 DEF VInv, Typed
<1>3. Numbered'
  BY DEF VInv, Numbered
<1>4. AllProper'
  <2> SUFFICES ASSUME NEW i \in DOMAIN requests
               PROVE  Requested(requests[i]) /\ Own(requests[i], call')
    BY DEF AllProper
  <2>1. requests \in Seq(Requests)
    BY DEF VInv, Typed
  <2>2. i \in Nat \ {0}
    BY <2>1
  <2>3. requests[i].n # 0
    BY <2>2 DEF VInv, Numbered
  <2> QED
    BY <2>3, <1>1 DEF VInv, AllProper, Own
<1>5. BoardRight'
  BY DEF VInv, BoardRight
<1>6. CallRight'
  BY DEF CallRight
<1>7. RepliesRight'
  BY DEF VInv, RepliesRight
<1>8. Unanswered'
  BY DEF VInv, Unanswered
<1> QED
  BY <1>2, <1>3, <1>4, <1>5, <1>6, <1>7, <1>8 DEF VInv

LEMMA TailIsPart ==
  ASSUME NEW S, NEW s \in Seq(S), s # <<>>
  PROVE  Tail(s) \in Seq(S) /\ \A i \in DOMAIN Tail(s) : \E j \in DOMAIN s : Tail(s)[i] = s[j]
<1>1. \A i \in DOMAIN Tail(s) : i + 1 \in DOMAIN s /\ Tail(s)[i] = s[i + 1]
  BY FirstTaken
<1> QED
  BY <1>1, FirstTaken

(* A call that takes a reply.                                              *)
LEMMA TakeKeepsValues ==
  ASSUME VInv, TakeWell
  PROVE  VInv'
<1>1. /\ replies # <<>> /\ replies' = Tail(replies)
      /\ UNCHANGED <<board, changes, requests>> /\ call' = NoCall /\ calls' = calls
      /\ (exact' = FALSE \/ exact' = exact)
      /\ (got' = got \/ \E value \in Seq(Nat) : got' = [n |-> call.n, of |-> call.of, value |-> value])
  BY DEF TakeWell, Throw, Return
<1>2. replies \in Seq(Replies) /\ exact \in BOOLEAN /\ call \in Calls
      /\ got \in [n : Nat, of : Settings \cup {<<>>}, value : Seq(Nat)]
  BY DEF VInv, Typed
<1>3. replies' \in Seq(Replies) /\ \A i \in DOMAIN replies' : \E j \in DOMAIN replies : replies'[i] = replies[j]
  BY <1>1, <1>2, TailIsPart, Zenon
<1>4. call.n \in Nat /\ call.of \in Settings \cup {<<>>}
  BY <1>2 DEF Calls
<1>5. got' \in [n : Nat, of : Settings \cup {<<>>}, value : Seq(Nat)]
  BY <1>1, <1>2, <1>4
<1>6. exact' \in BOOLEAN
  BY <1>1, <1>2
<1> QED
  BY <1>1, <1>3, <1>5, <1>6, EndKeepsValues, Zenon

(* A call that has no reply it can read.                                   *)
LEMMA ThrowKeepsValues ==
  ASSUME VInv, CallThrows
  PROVE  VInv'
<1>1. /\ UNCHANGED <<board, changes, requests, calls, got>> /\ call' = NoCall /\ exact' = FALSE
      /\ \/ replies' = replies
         \/ replies # <<>> /\ replies' = Tail(replies)
  BY DEF CallThrows, Throw
<1>2. replies \in Seq(Replies) /\ got \in [n : Nat, of : Settings \cup {<<>>}, value : Seq(Nat)]
  BY DEF VInv, Typed
<1>3. CASE replies' = replies
  BY <1>1, <1>2, <1>3, EndKeepsValues
<1>4. CASE replies # <<>> /\ replies' = Tail(replies)
  <2>1. replies' \in Seq(Replies) /\ \A i \in DOMAIN replies' : \E j \in DOMAIN replies : replies'[i] = replies[j]
    BY <1>4, <1>2, TailIsPart, Zenon
  <2> QED
    BY <1>1, <1>2, <2>1, EndKeepsValues
<1> QED
  BY <1>1, <1>3, <1>4

(* A new connection.                                                       *)
LEMMA ReopenKeepsValues ==
  ASSUME VInv, Reopen
  PROVE  VInv'
<1>1. /\ UNCHANGED <<board, changes, requests, calls, got>> /\ call = NoCall /\ call' = NoCall
      /\ exact' = TRUE /\ replies' = <<>>
  BY DEF Reopen
<1>2. <<>> \in Seq(Replies) /\ DOMAIN <<>> = {}
  OBVIOUS
<1>3. got \in [n : Nat, of : Settings \cup {<<>>}, value : Seq(Nat)]
  BY DEF VInv, Typed
<1> QED
  BY <1>1, <1>2, <1>3, EndKeepsValues

-----------------------------------------------------------------------------
(* What a proper request can make of the board, and its reply.             *)
AsRead(r) ==
  /\ r.want = <<>> /\ Obeyed(r) = board /\ Said(r) = Told(r.code, board[r.of])
  /\ r.code \in ReadCodes /\ r.of[1] = r.code /\ r.of # Power

StayedOn(r) == r.of = Power /\ r.want = <<0>> /\ Obeyed(r) = board /\ Said(r) = <<1>>

WentOff(r) ==
  /\ r.of = Power /\ r.want = <<0>> /\ Obeyed(r) = [board EXCEPT ![Power] = <<0>>]
  /\ Said(r) = <<>>

WasSet(r) ==
  /\ r.want # <<>> /\ r.of # Power /\ Cut(r.of, r.want) \in Values(r.of[1])
  /\ Obeyed(r) = [board EXCEPT ![r.of] = Cut(r.of, r.want)] /\ Said(r) = <<1>>

LEMMA Outcomes ==
  ASSUME NEW r, Requested(r)
  PROVE  AsRead(r) \/ StayedOn(r) \/ WentOff(r) \/ WasSet(r)
<1>1. <<0>> # <<>>
  OBVIOUS
<1>2. CASE /\ r.want = <<>> /\ r.code \in ReadCodes /\ r.of[1] = r.code /\ r.of # Power
           /\ Target(r.code, r.payload) = r.of
  BY <1>2 DEF AsRead, Obeyed, Said
<1>3. CASE r.code = MCB.DESLIGA_MCB /\ r.of = Power /\ r.want = <<0>>
  <2>1. CASE board[Switch] = <<1>>
    BY <1>1, <1>3, <2>1, Zenon DEF StayedOn, Obeyed, Said
  <2>2. CASE board[Switch] # <<1>>
    BY <1>1, <1>3, <2>2, Zenon DEF WentOff, Obeyed, Said
  <2> QED
    BY <2>1, <2>2
<1>4. CASE /\ r.want # <<>> /\ r.code # MCB.DESLIGA_MCB /\ r.of # Power
           /\ Target(r.code, r.payload) = r.of
           /\ Carried(r.code, r.payload) = Cut(r.of, r.want) /\ Cut(r.of, r.want) \in Values(r.of[1])
  BY <1>4, Zenon DEF WasSet, Obeyed, Said
<1> QED
  BY <1>2, <1>3, <1>4 DEF Requested, Proper

(* Whatever is set is a value that can be told.                            *)
LEMMA ObeyedRight ==
  ASSUME NEW r, Requested(r), board \in [Settings -> Seq(Nat)], BoardRight
  PROVE  Obeyed(r) \in [Settings -> Seq(Nat)] /\ \A k \in Settings : Obeyed(r)[k] \in Values(k[1])
<1>1. r.of \in Settings /\ r.want \in Seq(Nat)
  BY DEF Requested, Proper
<1>2. CASE Obeyed(r) = board
  BY <1>2 DEF BoardRight
<1>3. CASE WentOff(r)
  <2>1. Values(106) = Seq(Nat)
    BY ValuesOfOthers
  <2>2. Power[1] = 106 /\ Power \in Settings /\ <<0>> \in Seq(Nat)
    BY <1>1, <1>3, CodeSets DEF WentOff
  <2>3. <<0>> \in Values(Power[1])
    BY <2>1, <2>2
  <2>4. Obeyed(r) = [board EXCEPT ![Power] = <<0>>]
    BY <1>3 DEF WentOff
  <2>5. PICK z : z = <<0>>
    OBVIOUS
  <2> QED
    BY <2>2, <2>3, <2>4, <2>5 DEF BoardRight
<1>4. CASE WasSet(r)
  <2>1. PICK kept : kept = Cut(r.of, r.want)
    OBVIOUS
  <2>2. kept \in Values(r.of[1]) /\ Obeyed(r) = [board EXCEPT ![r.of] = kept]
    BY <1>4, <2>1 DEF WasSet
  <2>3. kept \in Seq(Nat)
    BY <2>2, ValuesAreSequences
  <2> QED
    BY <1>1, <2>2, <2>3 DEF BoardRight
<1> QED
  BY <1>2, <1>3, <1>4, Outcomes DEF AsRead, StayedOn

(* What an answer tells.                                                   *)
SwitchedOn == board[Power] = <<1>>

LEMMA AnswerRight ==
  ASSUME NEW r, Requested(r), board \in [Settings -> Seq(Nat)], BoardRight, SwitchedOn,
         Said(r) # <<>>
  PROVE  /\ Said(r) \in Seq(Byte) /\ Obeyed(r)[r.of] \in Seq(Nat)
         /\ Answered([to |-> r.n, data |-> Said(r), value |-> Obeyed(r)[r.of]], r)
<1>1. r.of \in Settings
  BY DEF Requested, Proper
<1>2. Obeyed(r)[r.of] \in Seq(Nat)
  BY <1>1, ObeyedRight
<1>3. PICK value, data : value = Obeyed(r)[r.of] /\ data = Said(r)
  OBVIOUS
<1>4. /\ [to |-> r.n, data |-> data, value |-> value].data = data
      /\ [to |-> r.n, data |-> data, value |-> value].value = value
  OBVIOUS
<1>5. CASE AsRead(r)
  <2>1. value = board[r.of] /\ data = Told(r.code, value) /\ r.of # Power /\ r.code \in ReadCodes
    BY <1>3, <1>5 DEF AsRead
  <2>2. value \in Values(r.code)
    BY <1>1, <1>5, <2>1 DEF AsRead, BoardRight
  <2>3. data \in Seq(Byte)
    BY <2>1, <2>2, ToldBytes
  <2> QED
    BY <1>2, <1>3, <1>4, <2>1, <2>2, <2>3, Zenon DEF Answered
<1>6. CASE StayedOn(r)
  <2>1. value = <<1>> /\ data = <<1>> /\ r.want = <<0>>
    BY <1>3, <1>6 DEF StayedOn, SwitchedOn
  <2>2. <<1>> # <<0>> /\ <<0>> # <<>>
    OBVIOUS
  <2>3. <<1>> \in Seq(Byte)
    BY DEF Byte
  <2>4. value # r.want /\ r.want # <<>> /\ data \in Seq(Byte)
    BY <2>1, <2>2, <2>3, Zenon
  <2> QED
    BY <1>2, <1>3, <1>4, <2>4, Zenon DEF Answered
<1>7. CASE WasSet(r)
  <2>1. data = <<1>> /\ r.want # <<>> /\ r.of # Power
    BY <1>3, <1>7 DEF WasSet
  <2>2. <<1>> \in Seq(Byte)
    BY DEF Byte
  <2>3. data \in Seq(Byte)
    BY <2>1, <2>2, Zenon
  <2> QED
    BY <1>2, <1>3, <1>4, <2>1, <2>3, Zenon DEF Answered
<1> QED
  BY <1>5, <1>6, <1>7, Outcomes DEF WentOff

-----------------------------------------------------------------------------
(* Whatever becomes of the oldest request, those after it stay in order.   *)
LEMMA DropKeepsValues ==
  ASSUME VInv, requests # <<>>, requests' = Tail(requests), UNCHANGED <<call, calls>>
  PROVE  /\ requests' \in Seq(Requests) /\ Numbered' /\ AllProper' /\ CallRight'
         /\ \A i \in DOMAIN replies : \A j \in DOMAIN requests' : replies[i].to # requests'[j].n
<1> DEFINE m == Len(requests)
<1>1. requests \in Seq(Requests)
  BY DEF VInv, Typed
<1>2. /\ requests' \in Seq(Requests) /\ m \in Nat \ {0} /\ DOMAIN requests = 1 .. m
      /\ DOMAIN requests' = 1 .. m - 1 /\ \A i \in 1 .. m - 1 : requests'[i] = requests[i + 1]
  BY <1>1, FirstTaken
<1>3. calls \in Nat
  BY DEF VInv, Typed
<1>4. Numbered'
  BY <1>2, <1>3 DEF VInv, Numbered
<1>5. AllProper'
  <2> SUFFICES ASSUME NEW i \in 1 .. m - 1
               PROVE  Requested(requests'[i]) /\ Own(requests'[i], call)
    BY <1>2 DEF AllProper
  <2>1. i + 1 \in DOMAIN requests /\ requests'[i] = requests[i + 1]
    BY <1>2
  <2> QED
    BY <2>1 DEF VInv, AllProper
<1>6. CallRight'
  BY DEF VInv, CallRight
<1>7. ASSUME NEW i \in DOMAIN replies, NEW j \in DOMAIN requests'  PROVE replies[i].to # requests'[j].n
  <2>1. j + 1 \in DOMAIN requests /\ requests'[j] = requests[j + 1]
    BY <1>2
  <2> QED
    BY <2>1 DEF VInv, Unanswered
<1> QED
  BY <1>2, <1>4, <1>5, <1>6, <1>7

LEMMA IgnoreKeepsValues ==
  ASSUME VInv, BoardIgnores
  PROVE  VInv'
<1>1. /\ requests # <<>> /\ requests' = Tail(requests)
      /\ UNCHANGED <<board, changes, replies, call, calls, since, exact, got>>
  BY DEF BoardIgnores
<1>2. requests' \in Seq(Requests) /\ Numbered' /\ AllProper' /\ CallRight'
  BY <1>1, DropKeepsValues
<1>3. Typed' /\ BoardRight' /\ RepliesRight' /\ Unanswered'
  BY <1>1, <1>2, DropKeepsValues DEF VInv, Typed, BoardRight, RepliesRight, Unanswered
<1> QED
  BY <1>2, <1>3 DEF VInv

LEMMA ChangesKeepValues ==
  ASSUME VInv, BoardChanges
  PROVE  VInv'
<1>0. PICK k \in DOMAIN Others : \E v \in Others[k] : board' = [board EXCEPT ![k] = v]
  BY DEF BoardChanges
<1>1. PICK v \in Others[k] : board' = [board EXCEPT ![k] = v]
  BY <1>0
<1>2. /\ changes' = changes + 1 /\ changes < MaxChanges
      /\ UNCHANGED <<requests, replies, call, calls, since, exact, got>>
  BY DEF BoardChanges
<1>3. MaxChanges \in Nat /\ k \in Settings /\ v \in Values(k[1])
  BY CommandsAssumption
<1>4. v \in Seq(Nat)
  BY <1>3, ValuesAreSequences
<1>5. board \in [Settings -> Seq(Nat)] /\ changes \in 0 .. MaxChanges
  BY DEF VInv, Typed
<1>6. board' \in [Settings -> Seq(Nat)] /\ changes' \in 0 .. MaxChanges
  BY <1>1, <1>2, <1>3, <1>4, <1>5
<1>7. BoardRight'
  BY <1>1, <1>3, <1>5 DEF VInv, BoardRight
<1>8. Typed' /\ Numbered' /\ AllProper' /\ CallRight' /\ RepliesRight' /\ Unanswered'
  BY <1>2, <1>6 DEF VInv, Typed, Numbered, AllProper, CallRight, RepliesRight, Unanswered
<1> QED
  BY <1>7, <1>8 DEF VInv

-----------------------------------------------------------------------------
Reply(r) == [to |-> r.n, data |-> Said(r), value |-> Obeyed(r)[r.of]]

Oldest == Head(requests)

(* The step of the board, in the terms of the lemmas.                      *)
LEMMA ActShape ==
  ASSUME VInv, BoardActs
  PROVE  /\ requests # <<>> /\ requests' = Tail(requests) /\ board' = Obeyed(Oldest) /\ board[Power] = <<1>>
         /\ UNCHANGED <<changes, call, calls, since, exact, got>>
         /\ Requested(Oldest) /\ Own(Oldest, call) /\ Oldest.n \in 1 .. calls /\ Oldest.n \in Nat
         /\ \E a : /\ replies' = replies \o a
                   /\ \/ a = <<>> \/ a = <<Unreadable>> \/ a = <<Unreadable, Unreadable>>
                      \/ Said(Oldest) # <<>> /\ a = <<Reply(Oldest)>>
<1>1. /\ requests # <<>> /\ requests' = Tail(requests) /\ board' = Obeyed(Oldest) /\ board[Power] = <<1>>
      /\ UNCHANGED <<changes, call, calls, since, exact, got>>
  BY DEF BoardActs, Oldest
<1>2. requests \in Seq(Requests) /\ calls \in Nat
  BY DEF VInv, Typed
<1>3. 1 \in DOMAIN requests /\ Oldest = requests[1]
  BY <1>1, <1>2, FirstTaken DEF Oldest
<1>4. Requested(Oldest) /\ Own(Oldest, call)
  BY <1>3 DEF VInv, AllProper
<1>5. Oldest.n \in 1 .. calls
  BY <1>3 DEF VInv, Numbered
<1>6. PICK a \in (IF Oldest.n > since THEN Arrivals(Oldest, board'[Oldest.of]) ELSE {<<>>}) :
        replies' = replies \o a
  BY DEF BoardActs, Oldest
<1>7. a \in Arrivals(Oldest, Obeyed(Oldest)[Oldest.of]) \/ a = <<>>
  BY <1>1, <1>6
<1>8. \/ a = <<>> \/ a = <<Unreadable>> \/ a = <<Unreadable, Unreadable>>
      \/ Said(Oldest) # <<>> /\ a = <<Reply(Oldest)>>
  BY <1>7 DEF Arrivals, Reply
<1>9. \E x : /\ replies' = replies \o x
             /\ \/ x = <<>> \/ x = <<Unreadable>> \/ x = <<Unreadable, Unreadable>>
                \/ Said(Oldest) # <<>> /\ x = <<Reply(Oldest)>>
  BY <1>6, <1>8, Zenon
<1>10. Oldest.n \in Nat
  BY <1>2, <1>5
<1> QED
  BY <1>1, <1>4, <1>5, <1>9, <1>10, Zenon

LEMMA UnreadableIs ==
  /\ Unreadable \in Replies /\ Unreadable.to = 0
  /\ <<Unreadable>> \in Seq(Replies) /\ <<Unreadable, Unreadable>> \in Seq(Replies)
<1>1. Unreadable \in Replies /\ Unreadable.to = 0
  BY DEF Unreadable, Replies
<1> QED
  BY <1>1

LEMMA NumbersAre ==
  ASSUME NEW s \in Seq(Requests), NEW i \in DOMAIN s
  PROVE  s[i].n \in Nat
<1>1. s[i] \in Requests
  OBVIOUS
<1> QED
  BY <1>1 DEF Requests

(* The board carries a request out, and its reply arrives or not.          *)
LEMMA ActKeepsValues ==
  ASSUME VInv, IInv, BoardActs
  PROVE  VInv'
<1>1. /\ requests # <<>> /\ requests' = Tail(requests) /\ board' = Obeyed(Oldest) /\ board[Power] = <<1>>
      /\ UNCHANGED <<changes, call, calls, since, exact, got>>
      /\ Requested(Oldest) /\ Own(Oldest, call) /\ Oldest.n \in 1 .. calls /\ Oldest.n \in Nat
  BY ActShape
<1>2. PICK a : /\ replies' = replies \o a
               /\ \/ a = <<>> \/ a = <<Unreadable>> \/ a = <<Unreadable, Unreadable>>
                  \/ Said(Oldest) # <<>> /\ a = <<Reply(Oldest)>>
  BY ActShape
<1>3. requests' \in Seq(Requests) /\ Numbered' /\ AllProper' /\ CallRight'
  BY <1>1, DropKeepsValues
<1>4. board \in [Settings -> Seq(Nat)] /\ BoardRight /\ replies \in Seq(Replies) /\ calls \in Nat
  BY DEF VInv, Typed
<1>5. board' \in [Settings -> Seq(Nat)] /\ \A k \in Settings : board'[k] \in Values(k[1])
  BY <1>1, <1>4, ObeyedRight
<1>6. BoardRight'
  BY <1>5 DEF BoardRight
<1>7. ASSUME Said(Oldest) # <<>>
      PROVE  /\ Reply(Oldest) \in Replies /\ Reply(Oldest).to = Oldest.n
             /\ Oldest.n = call.n => Answered(Reply(Oldest), call)
  <2>1. /\ Said(Oldest) \in Seq(Byte) /\ Obeyed(Oldest)[Oldest.of] \in Seq(Nat)
        /\ Answered([to |-> Oldest.n, data |-> Said(Oldest), value |-> Obeyed(Oldest)[Oldest.of]], Oldest)
    BY <1>1, <1>4, <1>7, AnswerRight DEF SwitchedOn
  <2>2. Reply(Oldest) \in Replies /\ Reply(Oldest).to = Oldest.n /\ Answered(Reply(Oldest), Oldest)
    BY <2>1, <1>1 DEF Reply, Replies
  <2>3. Oldest.n = call.n => Answered(Reply(Oldest), call)
    BY <2>2, <1>1 DEF Answered, Own
  <2> QED
    BY <2>2, <2>3
<1>8. a \in Seq(Replies) /\ \A i \in DOMAIN a : a[i] = Unreadable \/ (Said(Oldest) # <<>> /\ a[i] = Reply(Oldest))
  <2>1. CASE a = <<>>
    BY <2>1
  <2>2. CASE a = <<Unreadable>> \/ a = <<Unreadable, Unreadable>>
    <3>1. PICK u \in Replies : u = Unreadable
      BY UnreadableIs, Zenon
    <3>2. a = <<u>> \/ a = <<u, u>>
      BY <2>2, <3>1, Zenon
    <3>3. a \in Seq(Replies) /\ \A i \in DOMAIN a : a[i] = u
      <4>1. <<u>> \in Seq(Replies) /\ \A i \in DOMAIN <<u>> : <<u>>[i] = u
        OBVIOUS
      <4>2. <<u, u>> \in Seq(Replies) /\ \A i \in DOMAIN <<u, u>> : <<u, u>>[i] = u
        OBVIOUS
      <4> QED
        BY <3>2, <4>1, <4>2, Zenon
    <3> QED
      BY <3>1, <3>3, Zenon
  <2>3. CASE Said(Oldest) # <<>> /\ a = <<Reply(Oldest)>>
    <3>1. PICK p \in Replies : p = Reply(Oldest)
      BY <2>3, <1>7
    <3> QED
      BY <2>3, <3>1
  <2> QED
    BY <1>2, <2>1, <2>2, <2>3
<1>9. PICK n, o \in Nat : n = Len(replies) /\ o = Len(a)
  BY <1>4, <1>8, Joined
<1>10. /\ replies' \in Seq(Replies) /\ DOMAIN replies = 1 .. n /\ DOMAIN a = 1 .. o /\ DOMAIN replies' = 1 .. n + o
       /\ \A i \in 1 .. n : replies'[i] = replies[i]
       /\ \A i \in 1 .. o : replies'[n + i] = a[i]
  BY <1>2, <1>4, <1>8, <1>9, Joined
<1>11. RepliesRight'
  <2> SUFFICES ASSUME NEW i \in 1 .. n + o
               PROVE  /\ replies'[i].to \in 0 .. calls /\ (replies'[i] # Unreadable => replies'[i].to > 0)
                      /\ call # NoCall /\ replies'[i].to = call.n => Answered(replies'[i], call)
    BY <1>1, <1>10 DEF RepliesRight
  <2>1. CASE i \in 1 .. n
    BY <2>1, <1>10 DEF VInv, RepliesRight
  <2>2. CASE i \notin 1 .. n
    <3>1. i - n \in 1 .. o /\ i = n + (i - n)
      BY <2>2
    <3>2. replies'[i] = Unreadable \/ (Said(Oldest) # <<>> /\ replies'[i] = Reply(Oldest))
      BY <3>1, <1>8, <1>10
    <3>3. CASE replies'[i] = Unreadable
      <4>1. call # NoCall => call.n # 0
        BY DEF VInv, CallRight
      <4> QED
        BY <3>3, <4>1, <1>4, UnreadableIs
    <3>4. CASE Said(Oldest) # <<>> /\ replies'[i] = Reply(Oldest)
      BY <3>4, <1>1, <1>7
    <3> QED
      BY <3>2, <3>3, <3>4
  <2> QED
    BY <2>1, <2>2
<1>12. Typed'
  BY <1>1, <1>3, <1>5, <1>10 DEF VInv, Typed
<1>13. Unanswered'
  <2>1. \A j \in DOMAIN requests' : Oldest.n < requests'[j].n /\ requests'[j].n > 0
    <3> SUFFICES ASSUME NEW j \in DOMAIN requests'
                 PROVE  Oldest.n < requests'[j].n /\ requests'[j].n > 0
      OBVIOUS
    <3>1. requests \in Seq(Requests)
      BY DEF VInv, Typed
    <3>2. /\ 1 \in DOMAIN requests /\ j + 1 \in DOMAIN requests /\ 1 < j + 1
          /\ Oldest = requests[1] /\ requests'[j] = requests[j + 1]
      BY <3>1, <1>1, FirstTaken DEF Oldest
    <3>3. requests[1].n < requests[j + 1].n
      BY <3>2 DEF IInv, Growing
    <3>4. requests[j + 1].n \in Nat
      BY <3>1, <3>2, NumbersAre
    <3> QED
      BY <3>2, <3>3, <3>4, <1>1
  <2> SUFFICES ASSUME NEW i \in 1 .. n + o, NEW j \in DOMAIN requests'
               PROVE  replies'[i].to # requests'[j].n
    BY <1>10 DEF Unanswered
  <2>2. CASE i \in 1 .. n
    BY <2>2, <1>1, <1>10, DropKeepsValues
  <2>3. CASE i \notin 1 .. n
    <3>1. i - n \in 1 .. o /\ i = n + (i - n)
      BY <2>3
    <3>2. replies'[i] = Unreadable \/ (Said(Oldest) # <<>> /\ replies'[i] = Reply(Oldest))
      BY <3>1, <1>8, <1>10
    <3>3. replies'[i].to = 0 \/ replies'[i].to = Oldest.n
      BY <3>2, <1>7, UnreadableIs
    <3>4. Oldest.n < requests'[j].n /\ requests'[j].n > 0
      BY <2>1
    <3>5. requests'[j].n \in Nat
      BY <1>3, NumbersAre
    <3> QED
      BY <3>3, <3>4, <3>5, <1>1
  <2> QED
    BY <2>2, <2>3
<1> QED
  BY <1>3, <1>6, <1>11, <1>12, <1>13 DEF VInv

-----------------------------------------------------------------------------
LEMMA ReceivedBytes == VInv => (replies # <<>> => Received \in Seq(Byte))
<1> SUFFICES ASSUME VInv, replies # <<>>  PROVE Received \in Seq(Byte)
  OBVIOUS
<1>1. replies \in Seq(Replies)
  BY DEF VInv, Typed
<1>2. Head(replies) \in Replies
  BY <1>1, FirstTaken
<1> QED
  BY <1>2 DEF Received, Replies

(* Every step is one of seven.                                             *)
LEMMA StepShape ==
  ASSUME VInv, Next
  PROVE  \/ AskProper \/ TakeWell \/ CallThrows \/ Reopen \/ BoardActs \/ BoardIgnores \/ BoardChanges
<1>1. Reads => AskProper \/ TakeWell
  BY ReceivedBytes, ReadsWell
<1> QED
  BY <1>1, WritesWell, WriteReturnsWell DEF Next

(***************************************************************************)
(* Whatever the commands are given and the board answers: what is sent is  *)
(* proper, what the board has can be told, and a reply to the call in      *)
(* progress tells what its setting was (the commands of                    *)
(* src/libraries/command/mcb and src/libraries/command/keyboard).          *)
(***************************************************************************)
THEOREM ValuesInvariance == Spec => []VInv
<1>1. VInv /\ IInv /\ [Next]_vars => VInv'
  <2> SUFFICES ASSUME VInv, IInv, [Next]_vars  PROVE VInv'
    OBVIOUS
  <2>1. CASE AskProper
    BY <2>1, AskKeepsValues
  <2>2. CASE TakeWell
    BY <2>2, TakeKeepsValues
  <2>3. CASE CallThrows
    BY <2>3, ThrowKeepsValues
  <2>4. CASE Reopen
    BY <2>4, ReopenKeepsValues
  <2>5. CASE BoardActs
    BY <2>5, ActKeepsValues
  <2>6. CASE BoardIgnores
    BY <2>6, IgnoreKeepsValues
  <2>7. CASE BoardChanges
    BY <2>7, ChangesKeepValues
  <2>8. CASE UNCHANGED vars
    BY <2>8 DEF vars, VInv, Typed, Numbered, AllProper, BoardRight, CallRight, RepliesRight,
                   Unanswered
  <2> QED
    BY <2>1, <2>2, <2>3, <2>4, <2>5, <2>6, <2>7, <2>8, StepShape
<1> QED
  BY <1>1, VInit, CommandsInvariance, PTL DEF Spec

(***************************************************************************)
(* The state has its type, for any settings, values and number of calls:   *)
(* what is sent are bytes, what is decoded from any bytes are numbers that *)
(* fit, and the requests are numbered in the order of their calls (the     *)
(* commands of src/libraries/command and protocol_controller.cpp).         *)
(***************************************************************************)
THEOREM CommandsTypes == Spec => []TypeOK
<1>1. VInv /\ IInv => TypeOK
  BY DEF VInv, Typed, Numbered, IInv, Counted, TypeOK
<1> QED
  BY <1>1, ValuesInvariance, CommandsInvariance, PTL

-----------------------------------------------------------------------------
(* The state of the board and of the calls, as BoardControl sees them.     *)
Asked(r) == [n |-> r.n, of |-> r.of, want |-> r.want]

Pending == {Asked(requests[i]) : i \in DOMAIN requests}

Calling == [n |-> call.n, of |-> call.of, want |-> call.want]

AnswerAmong(them, those) ==
  IF those = {} THEN <<>> ELSE LET i == CHOOSE i \in those : TRUE IN <<them[i].value>>

Answer == AnswerAmong(replies, Answers)

Nobody == [n |-> 0, of |-> <<>>, want |-> <<>>]

LEMMA PendingIs ==
  Pending = {[n |-> requests[i].n, of |-> requests[i].of, want |-> requests[i].want] : i \in DOMAIN requests}
BY DEF Pending, Asked

(* Between calls there is none.                                            *)
LEMMA CallingIs ==
  /\ call = NoCall => Calling = Nobody
  /\ VInv /\ call # NoCall => Calling # Nobody /\ call.n > 0
<1>1. call = NoCall => Calling = Nobody
  BY DEF NoCall, Calling, Nobody
<1>2. ASSUME VInv, call # NoCall  PROVE Calling # Nobody /\ call.n > 0
  <2>1. call.n > 0
    BY <1>2 DEF VInv, CallRight
  <2> QED
    BY <2>1 DEF Calling, Nobody
<1> QED
  BY <1>1, <1>2

LEMMA NoAnswer == call = NoCall => Answer = <<>> /\ Answers = {}
BY DEF Answer, AnswerAmong, Answers

LEMMA AnswerIs ==
  \/ Answers = {} /\ Answer = <<>>
  \/ \E i \in Answers : Answer = <<replies[i].value>>
<1>1. CASE Answers = {}
  BY <1>1 DEF Answer, AnswerAmong
<1>2. CASE Answers # {}
  <2>1. (CHOOSE i \in Answers : TRUE) \in Answers
    BY <1>2
  <2> QED
    BY <1>2, <2>1 DEF Answer, AnswerAmong
<1> QED
  BY <1>1, <1>2

(* It depends on the replies to the call alone.                            *)
LEMMA AnswerKept ==
  /\ UNCHANGED <<replies, call>> => Answer' = Answer
  /\ call' = NoCall => Answer' = <<>>
<1>1. ASSUME UNCHANGED <<replies, call>>  PROVE Answer' = Answer
  <2>1. replies' = replies /\ Answers' = Answers
    BY <1>1 DEF Answers
  <2> QED
    BY <2>1, Zenon DEF Answer
<1>2. ASSUME call' = NoCall  PROVE Answer' = <<>>
  <2>1. Answers' = {}
    BY <1>2 DEF Answers
  <2> QED
    BY <2>1 DEF Answer, AnswerAmong
<1> QED
  BY <1>1, <1>2

-----------------------------------------------------------------------------
(* Step by step: what each does in the terms of BoardControl.              *)
LEMMA AskBegins ==
  ASSUME VInv, AskProper
  PROVE  Control!Begin
<1>1. PICK code, payload, of, want : Proper(code, payload, of, want) /\ Ask(code, payload, of, want)
  BY DEF AskProper
<1> DEFINE r == [n |-> calls', of |-> of, want |-> want, code |-> code, payload |-> payload]
           m == Len(requests)
<1>2. /\ calls' = calls + 1 /\ call = NoCall
      /\ call' = [n |-> calls', of |-> of, want |-> want, code |-> code]
      /\ requests' = Append(requests, r)
      /\ board' = board /\ replies' = replies /\ exact' = exact /\ got' = got
  BY <1>1 DEF Ask
<1>3. calls \in Nat /\ requests \in Seq(Requests)
  BY DEF VInv, Typed
<1>4. r \in Requests /\ r.n = calls' /\ r.of = of /\ r.want = want
  BY <1>1, <1>2, <1>3 DEF Proper, Requests
<1> HIDE DEF r
<1>5. /\ m \in Nat /\ DOMAIN requests = 1 .. m /\ DOMAIN requests' = 1 .. m + 1
      /\ requests'[m + 1] = r /\ \A i \in 1 .. m : requests'[i] = requests[i]
  BY <1>2, <1>3, <1>4, Appended
<1>6. Calling = Nobody /\ Calling' = Asked(r) /\ Calling'.n = calls' /\ Calling'.of = of /\ Calling'.want = want
  BY <1>2, <1>4, CallingIs DEF Calling, Asked
<1>7. Pending' = Pending \cup {Calling'}
  <2>1. Pending' = {Asked(requests'[i]) : i \in 1 .. m + 1}
    BY <1>5 DEF Pending
  <2>2. Pending = {Asked(requests[i]) : i \in 1 .. m}
    BY <1>5 DEF Pending
  <2>3. 1 .. m + 1 = (1 .. m) \cup {m + 1}
    BY <1>5
  <2>4. \A i \in 1 .. m : Asked(requests'[i]) = Asked(requests[i])
    BY <1>5
  <2> QED
    BY <2>1, <2>2, <2>3, <2>4, <1>5, <1>6
<1>8. \A p \in Pending : p.n < calls'
  BY <1>2, <1>3, <1>5 DEF VInv, Numbered, Pending, Asked
<1>9. Answer' = Answer
  <2>1. Answers = {} /\ Answer = <<>>
    BY <1>2, NoAnswer
  <2>2. Answers' = {}
    <3> SUFFICES ASSUME NEW i \in DOMAIN replies  PROVE replies[i].to # call'.n
      BY <1>2 DEF Answers
    <3>1. replies[i].to \in 0 .. calls
      BY DEF VInv, RepliesRight
    <3> QED
      BY <3>1, <1>2, <1>3
  <2> QED
    BY <2>1, <2>2 DEF Answer, AnswerAmong
<1>10. ~Illegal(of, want) /\ calls' > 0
  BY <1>1, <1>2, <1>3 DEF Proper
<1>11. /\ Calling = Nobody /\ Calling'.n > 0 /\ \A p \in Pending : p.n < Calling'.n
       /\ ~Illegal(Calling'.of, Calling'.want) /\ Pending' = Pending \cup {Calling'}
       /\ board' = board /\ Answer' = Answer /\ exact' = exact /\ got' = got
  BY <1>2, <1>6, <1>7, <1>8, <1>9, <1>10
<1> QED
  BY <1>11, Zenon DEF Control!Begin, Control!NoCall, Nobody, Calling, Pending, Asked, Answer, AnswerAmong

(* Any end of a call.                                                      *)
LEMMA EndShape ==
  ASSUME VInv, call # NoCall, call' = NoCall, UNCHANGED <<board, requests>>
  PROVE  /\ Calling # Nobody /\ Calling' = Nobody /\ Answer' = <<>>
         /\ board' = board /\ Pending' = Pending
<1>1. Calling' = Nobody
  BY DEF NoCall, Calling, Nobody
<1> QED
  BY <1>1, CallingIs, AnswerKept DEF Pending

LEMMA ThrowFails ==
  ASSUME VInv, call # NoCall, Throw, UNCHANGED <<board, requests>>
  PROVE  Control!Fails
<1>1. /\ Calling # Nobody /\ Calling' = Nobody /\ Answer' = <<>>
      /\ board' = board /\ Pending' = Pending
  BY EndShape DEF Throw
<1>2. exact' = FALSE /\ got' = got
  BY DEF Throw
<1> QED
  BY <1>1, <1>2, Zenon DEF Control!Fails, Control!NoCall, Nobody, Calling, Pending, Asked, Answer, AnswerAmong

(* The reply that was taken was the answer, if no call has failed.         *)
LEMMA InStepAnswer ==
  ASSUME VInv, IInv, exact, call # NoCall, replies # <<>>, Head(replies) # Unreadable
  PROVE  Answer = <<Head(replies).value>> /\ Answered(Head(replies), call)
<1>1. replies \in Seq(Replies)
  BY DEF VInv, Typed
<1>2. Len(replies) = 1 /\ DOMAIN replies = {1} /\ Head(replies) = replies[1]
  <2>1. Len(replies) \in Nat \ {0} /\ DOMAIN replies = 1 .. Len(replies) /\ Head(replies) = replies[1]
    BY <1>1, FirstTaken
  <2>2. Len(replies) <= 1
    BY DEF IInv, Alone
  <2>3. Len(replies) = 1
    BY <2>1, <2>2
  <2> QED
    BY <2>1, <2>3
<1>3. replies[1].to > 0 /\ replies[1].to \in {call.n, 0}
  BY <1>2 DEF VInv, RepliesRight, IInv, InStep
<1>4. replies[1].to = call.n
  BY <1>3
<1>5. Answers = {1}
  BY <1>2, <1>4 DEF Answers
<1>6. Answer = <<replies[1].value>>
  BY <1>5, AnswerIs
<1>7. Answered(replies[1], call)
  BY <1>2, <1>4 DEF VInv, RepliesRight
<1> QED
  BY <1>2, <1>6, <1>7

LEMMA TakeEnds ==
  ASSUME VInv, IInv, TakeWell
  PROVE  Control!Returns \/ Control!Fails
<1>1. call # NoCall /\ replies # <<>> /\ Head(replies) # Unreadable /\ UNCHANGED <<board, requests>>
  BY DEF TakeWell
<1>2. CASE Throw
  BY <1>1, <1>2, ThrowFails
<1>3. CASE \E value \in Seq(Nat) : Return(value) /\ (call.want = <<>> => Tells(call.code, Received, value))
  <2>1. PICK value \in Seq(Nat) : Return(value) /\ (call.want = <<>> => Tells(call.code, Received, value))
    BY <1>3
  <2>2. /\ call' = NoCall /\ exact' = exact /\ got' = [n |-> call.n, of |-> call.of, value |-> value]
    BY <2>1 DEF Return
  <2>3. /\ Calling # Nobody /\ Calling' = Nobody /\ Answer' = <<>>
        /\ board' = board /\ Pending' = Pending
    BY <1>1, <2>2, EndShape
  <2>4. got'.n = Calling.n /\ got'.of = Calling.of /\ Calling.want = call.want /\ Calling.of = call.of
        /\ got'.value = value
    BY <2>2 DEF Calling
  <2>5. ASSUME exact
        PROVE  /\ Answer # <<>>
               /\ Calling.of = Power => Answer[1] # Calling.want
               /\ Calling.want = <<>> => got'.value = Answer[1]
    <3>1. PICK told : told = Head(replies).value /\ Answer = <<told>>
      BY <1>1, <2>5, InStepAnswer
    <3>2. Answered(Head(replies), call)
      BY <1>1, <2>5, InStepAnswer
    <3>3. Answer # <<>> /\ Answer[1] = told
      BY <3>1
    <3>4. call.of = Power => told # call.want
      BY <3>1, <3>2 DEF Answered
    <3>5. ASSUME call.want = <<>>  PROVE value = told
      <4>1. told \in Values(call.code) /\ Received = Told(call.code, told)
        BY <3>1, <3>2, <3>5 DEF Answered, Received
      <4>2. Tells(call.code, Received, value)
        BY <2>1, <3>5
      <4> QED
        BY <4>1, <4>2, Zenon DEF Tells
    <3> QED
      BY <2>4, <3>3, <3>4, <3>5
  <2>6. Control!Returns
    BY <2>2, <2>3, <2>4, <2>5, Zenon DEF Control!Returns, Control!NoCall, Nobody, Calling, Pending, Asked, Answer, AnswerAmong
  <2> QED
    BY <2>6
<1> QED
  BY <1>2, <1>3 DEF TakeWell

LEMMA ReopenReopens ==
  ASSUME Reopen
  PROVE  Control!Reopens
<1>1. call = NoCall /\ call' = NoCall /\ exact' = TRUE /\ UNCHANGED <<board, requests, call, got>>
  BY DEF Reopen
<1>2. Calling = Nobody /\ Calling' = Calling /\ Answer' = <<>> /\ Answer = <<>> /\ Pending' = Pending
  BY <1>1, CallingIs, NoAnswer, AnswerKept DEF Calling, Pending
<1>3. Answer' = Answer
  BY <1>2
<1> QED
  BY <1>1, <1>2, <1>3, Zenon DEF Control!Reopens, Control!NoCall, Nobody, Calling, Pending, Asked, Answer, AnswerAmong

LEMMA ChangesChange ==
  ASSUME VInv, BoardChanges
  PROVE  Control!Changes
<1>1. PICK k \in DOMAIN Others : \E v \in Others[k] : board' = [board EXCEPT ![k] = v]
  BY DEF BoardChanges
<1>2. PICK v \in Others[k] : board' = [board EXCEPT ![k] = v]
  BY <1>1
<1>3. UNCHANGED <<requests, replies, call, exact, got>>
  BY DEF BoardChanges
<1>4. board \in [Settings -> Seq(Nat)] /\ k \in Settings
  BY CommandsAssumption DEF VInv, Typed
<1>5. board' = [board EXCEPT ![k] = board'[k]]
  BY <1>2, <1>4
<1>6. Answer' = Answer /\ Pending' = Pending /\ Calling' = Calling
  BY <1>3, AnswerKept DEF Pending, Calling
<1> QED
  BY <1>3, <1>5, <1>6, Zenon DEF Control!Changes, Calling, Pending, Asked, Answer, AnswerAmong

-----------------------------------------------------------------------------
(* Of what is pending, the oldest request goes, and the order says which   *)
(* that is.                                                                *)
LEMMA OldestGoes ==
  ASSUME VInv, IInv, requests # <<>>, requests' = Tail(requests)
  PROVE  /\ Asked(Oldest) \in Pending
         /\ Pending' = {q \in Pending : q.n > Asked(Oldest).n}
<1> DEFINE m == Len(requests)
<1>1. requests \in Seq(Requests)
  BY DEF VInv, Typed
<1>2. /\ m \in Nat \ {0} /\ DOMAIN requests = 1 .. m /\ DOMAIN requests' = 1 .. m - 1
      /\ Oldest = requests[1] /\ \A i \in 1 .. m - 1 : requests'[i] = requests[i + 1]
  BY <1>1, FirstTaken DEF Oldest
<1>3. \A i \in 1 .. m : requests[i].n \in Nat /\ Asked(requests[i]).n = requests[i].n
  <2>1. \A i \in 1 .. m : requests[i] \in Requests
    BY <1>1, <1>2
  <2> QED
    BY <2>1 DEF Requests, Asked
<1>4. \A i, j \in 1 .. m : i < j => requests[i].n < requests[j].n
  BY <1>2 DEF IInv, Growing
<1>5. Asked(Oldest) \in Pending
  BY <1>2 DEF Pending
<1>6. ASSUME NEW q \in Pending'  PROVE q \in Pending /\ q.n > Asked(Oldest).n
  <2>1. PICK i \in 1 .. m - 1 : q = Asked(requests[i + 1])
    BY <1>2 DEF Pending
  <2>2. i + 1 \in 1 .. m /\ 1 \in 1 .. m /\ 1 < i + 1
    BY <1>2
  <2>3. requests[1].n < requests[i + 1].n
    BY <2>2, <1>4
  <2> QED
    BY <2>1, <2>2, <2>3, <1>2, <1>3 DEF Pending
<1>7. ASSUME NEW q \in Pending, q.n > Asked(Oldest).n  PROVE q \in Pending'
  <2>1. PICK i \in 1 .. m : q = Asked(requests[i])
    BY <1>2 DEF Pending
  <2>2. i # 1
    BY <2>1, <1>2, <1>3, <1>7
  <2>3. i - 1 \in 1 .. m - 1 /\ requests'[i - 1] = requests[i]
    BY <2>1, <2>2, <1>2
  <2> QED
    BY <2>1, <2>3, <1>2 DEF Pending
<1> QED
  BY <1>5, <1>6, <1>7

LEMMA IgnoreIgnores ==
  ASSUME VInv, IInv, BoardIgnores
  PROVE  Control!Ignores
<1>1. requests # <<>> /\ requests' = Tail(requests) /\ UNCHANGED <<board, replies, call, exact, got>>
  BY DEF BoardIgnores
<1>2. Asked(Oldest) \in Pending /\ Pending' = {q \in Pending : q.n > Asked(Oldest).n}
  BY <1>1, OldestGoes
<1>3. \E p \in Pending : Pending' = {q \in Pending : q.n > p.n}
  BY <1>2, Zenon
<1>4. Answer' = Answer /\ Calling' = Calling
  BY <1>1, AnswerKept DEF Calling
<1> QED
  BY <1>1, <1>3, <1>4, Zenon DEF Control!Ignores, Calling, Pending, Asked, Answer, AnswerAmong

(* What the board did to the values, in the abstract's two cases.          *)
LEMMA ObeyedKept ==
  ASSUME NEW r, Requested(r)
  PROVE  \/ Obeyed(r) = board /\ (r.want = <<>> \/ r.of = Power)
         \/ r.want # <<>> /\ Obeyed(r) = [board EXCEPT ![r.of] = Cut(r.of, r.want)]
<1>1. CASE AsRead(r) \/ StayedOn(r)
  BY <1>1 DEF AsRead, StayedOn
<1>2. CASE WentOff(r)
  <2>1. Power # Clock /\ <<0>> # <<>>
    BY CodeSets
  <2>2. Cut(r.of, r.want) = <<0>>
    BY <2>1, <1>2, Zenon DEF WentOff, Cut
  <2> QED
    BY <2>1, <2>2, <1>2, Zenon DEF WentOff
<1>3. CASE WasSet(r)
  BY <1>3 DEF WasSet
<1> QED
  BY <1>1, <1>2, <1>3, Outcomes

(* The answer stays, or becomes that to the request carried out.           *)
LEMMA AnswerAdded ==
  ASSUME VInv, BoardActs
  PROVE  Answer' = Answer \/ (Oldest.n = call.n /\ Answer' = <<board'[Oldest.of]>>)
<1>1. /\ board' = Obeyed(Oldest) /\ UNCHANGED <<call>> /\ Oldest.n \in 1 .. calls
  BY ActShape
<1>2. PICK a : /\ replies' = replies \o a
               /\ \/ a = <<>> \/ a = <<Unreadable>> \/ a = <<Unreadable, Unreadable>>
                  \/ Said(Oldest) # <<>> /\ a = <<Reply(Oldest)>>
  BY ActShape
<1>3. CASE call = NoCall
  BY <1>1, <1>3, NoAnswer, AnswerKept
<1>4. CASE call # NoCall
  <2>1. call.n > 0
    BY <1>4 DEF VInv, CallRight
  <2>2. PICK S : replies \in Seq(S) /\ a \in Seq(S) /\ \A i \in DOMAIN a : a[i] = Unreadable \/ (a = <<Reply(Oldest)>> /\ a[i] = Reply(Oldest))
    <3>1. replies \in Seq(Replies)
      BY DEF VInv, Typed
    <3>2. PICK R : R = Replies \cup {Reply(Oldest), Unreadable}
      OBVIOUS
    <3>3. replies \in Seq(R)
      BY <3>1, <3>2
    <3>4. PICK u, p \in R : u = Unreadable /\ p = Reply(Oldest)
      BY <3>2
    <3>5. a = <<>> \/ a = <<u>> \/ a = <<u, u>> \/ a = <<p>>
      BY <1>2, <3>4, Zenon
    <3>6. a \in Seq(R) /\ \A i \in DOMAIN a : a[i] = u \/ (a = <<p>> /\ a[i] = p)
      <4>1. CASE a = <<>>
        BY <4>1
      <4>2. CASE a = <<u>>
        BY <4>2
      <4>3. CASE a = <<u, u>>
        BY <4>3
      <4>4. CASE a = <<p>>
        BY <4>4
      <4> QED
        BY <3>5, <4>1, <4>2, <4>3, <4>4
    <3> QED
      BY <3>3, <3>4, <3>6, Zenon
  <2>3. PICK n, o \in Nat : n = Len(replies) /\ o = Len(a)
    BY <2>2, Joined
  <2>4. /\ DOMAIN replies = 1 .. n /\ DOMAIN a = 1 .. o /\ DOMAIN replies' = 1 .. n + o
        /\ \A i \in 1 .. n : replies'[i] = replies[i]
        /\ \A i \in 1 .. o : replies'[n + i] = a[i]
    BY <1>2, <2>2, <2>3, Joined
  <2>5. \A i \in 1 .. n + o : i \in 1 .. n \/ (i - n \in 1 .. o /\ replies'[i] = a[i - n])
    <3> SUFFICES ASSUME NEW i \in 1 .. n + o, i \notin 1 .. n
                 PROVE  i - n \in 1 .. o /\ replies'[i] = a[i - n]
      OBVIOUS
    <3>1. i - n \in 1 .. o /\ i = n + (i - n)
      OBVIOUS
    <3> QED
      BY <3>1, <2>4
  <2>6. \A i \in 1 .. n + o : i \notin 1 .. n /\ replies'[i].to = call.n
          => replies'[i] = Reply(Oldest) /\ Oldest.n = call.n
    <3> SUFFICES ASSUME NEW i \in 1 .. n + o, i \notin 1 .. n, replies'[i].to = call.n
                 PROVE  replies'[i] = Reply(Oldest) /\ Oldest.n = call.n
      OBVIOUS
    <3>1. replies'[i] = Unreadable \/ replies'[i] = Reply(Oldest)
      BY <2>2, <2>4, <2>5
    <3>2. replies'[i] # Unreadable
      BY <2>1, UnreadableIs
    <3>3. Reply(Oldest).to = Oldest.n
      BY DEF Reply
    <3> QED
      BY <3>1, <3>2, <3>3
  <2>7. Answers = {i \in 1 .. n : replies[i].to = call.n}
    BY <1>4, <2>4 DEF Answers
  <2>8. Answers' = {i \in 1 .. n + o : replies'[i].to = call.n}
    BY <1>1, <1>4, <2>4 DEF Answers
  <2>9. CASE Oldest.n # call.n
    <3>1. Answers' = Answers
      BY <2>4, <2>6, <2>7, <2>8, <2>9
    <3>2. CASE Answers = {}
      BY <3>1, <3>2 DEF Answer, AnswerAmong
    <3>3. CASE Answers # {}
      <4>1. PICK c \in Answers : c = CHOOSE i \in Answers : TRUE
        BY <3>3
      <4>2. replies'[c] = replies[c]
        BY <2>4, <2>7
      <4> QED
        BY <3>1, <3>3, <4>1, <4>2 DEF Answer, AnswerAmong
    <3> QED
      BY <3>2, <3>3
  <2>10. CASE Oldest.n = call.n
    <3>1. Answers = {}
      <4>1. requests \in Seq(Requests) /\ requests # <<>>
        BY ActShape DEF VInv, Typed
      <4>2. 1 \in DOMAIN requests /\ Oldest = requests[1]
        BY <4>1, FirstTaken DEF Oldest
      <4>3. \A i \in 1 .. n : replies[i].to # requests[1].n
        BY <2>4, <4>2 DEF VInv, Unanswered
      <4> QED
        BY <2>7, <2>10, <4>2, <4>3
    <3>2. Answer = <<>>
      BY <3>1 DEF Answer, AnswerAmong
    <3>3. CASE Answers' = {}
      BY <3>2, <3>3 DEF Answer, AnswerAmong
    <3>4. CASE Answers' # {}
      <4>1. PICK c \in Answers' : Answer' = <<replies'[c].value>>
        <5>1. (CHOOSE i \in Answers' : TRUE) \in Answers'
          BY <3>4
        <5> QED
          BY <3>4, <5>1 DEF Answer, AnswerAmong
      <4>2. c \notin 1 .. n
        BY <2>4, <2>7, <2>8, <3>1
      <4>3. replies'[c] = Reply(Oldest)
        BY <2>6, <2>8, <4>2
      <4>4. Reply(Oldest).value = board'[Oldest.of]
        BY <1>1 DEF Reply
      <4> QED
        BY <4>1, <4>3, <4>4, <2>10
    <3> QED
      BY <3>3, <3>4
  <2> QED
    BY <2>9, <2>10
<1> QED
  BY <1>3, <1>4

LEMMA ActActs ==
  ASSUME VInv, IInv, BoardActs
  PROVE  Control!Acts
<1>1. /\ requests # <<>> /\ requests' = Tail(requests) /\ board' = Obeyed(Oldest) /\ Requested(Oldest)
      /\ UNCHANGED <<call, exact, got>>
  BY ActShape
<1>2. Asked(Oldest) \in Pending /\ Pending' = {q \in Pending : q.n > Asked(Oldest).n}
  BY <1>1, OldestGoes
<1>3. \/ board' = board /\ (Oldest.want = <<>> \/ Oldest.of = Power)
      \/ Oldest.want # <<>> /\ board' = [board EXCEPT ![Oldest.of] = Cut(Oldest.of, Oldest.want)]
  BY <1>1, ObeyedKept
<1>4. /\ Asked(Oldest).n = Oldest.n /\ Asked(Oldest).of = Oldest.of /\ Asked(Oldest).want = Oldest.want
  BY DEF Asked
<1>5. PICK p \in Pending : p = Asked(Oldest)
  BY <1>2
<1>6. Pending' = {q \in Pending : q.n > p.n}
  BY <1>2, <1>5, Zenon
<1>7. \/ board' = board /\ (p.want = <<>> \/ p.of = Power)
      \/ p.want # <<>> /\ board' = [board EXCEPT ![p.of] = Cut(p.of, p.want)]
  BY <1>3, <1>4, <1>5
<1>8. Calling' = Calling /\ Calling.n = call.n
  BY <1>1 DEF Calling
<1>9. Answer' \in {Answer} \cup (IF p.n = Calling.n THEN {<<board'[p.of]>>} ELSE {})
  BY <1>4, <1>5, <1>8, AnswerAdded
<1>10. \E q \in Pending :
         /\ Pending' = {t \in Pending : t.n > q.n}
         /\ \/ board' = board /\ (q.want = <<>> \/ q.of = Power)
            \/ q.want # <<>> /\ board' = [board EXCEPT ![q.of] = Cut(q.of, q.want)]
         /\ Answer' \in {Answer} \cup (IF q.n = Calling.n THEN {<<board'[q.of]>>} ELSE {})
  BY <1>6, <1>7, <1>9, Zenon
<1> QED
  BY <1>1, <1>8, <1>10, Zenon DEF Control!Acts, Calling, Pending, Asked, Answer, AnswerAmong

-----------------------------------------------------------------------------
LEMMA StutterAllowed ==
  UNCHANGED <<board, requests, replies, call, exact, got>> => UNCHANGED Control!vars
<1> SUFFICES ASSUME UNCHANGED <<board, requests, replies, call, exact, got>>
             PROVE  UNCHANGED Control!vars
  OBVIOUS
<1>1. Answer' = Answer /\ Pending' = Pending /\ Calling' = Calling
  BY AnswerKept DEF Pending, Calling
<1>2. board' = board /\ exact' = exact /\ got' = got
  OBVIOUS
<1> QED
  BY <1>1, <1>2, Zenon DEF Control!vars, Calling, Pending, Asked, Answer, AnswerAmong

LEMMA InitAllowed == Init => Control!Init
<1> SUFFICES ASSUME Init  PROVE Control!Init
  OBVIOUS
<1>1. call = NoCall /\ requests = <<>> /\ exact = TRUE /\ got = [n |-> 0, of |-> <<>>, value |-> <<>>]
  BY DEF Init
<1>2. Pending = {}
  BY <1>1, EmptySequence DEF Pending
<1>3. Calling = Nobody /\ Answer = <<>>
  BY <1>1, CallingIs, NoAnswer
<1> QED
  BY <1>1, <1>2, <1>3, Zenon DEF Control!Init, Control!NoCall, Nobody, Calling, Pending, Asked, Answer, AnswerAmong

(***************************************************************************)
(* The commands implement BoardControl: no call changes another setting    *)
(* than its own or gives it another value, and in a session in which no    *)
(* call has failed, one that returns was carried out and returns a value   *)
(* the board had meanwhile, decoded without loss from what the board sent  *)
(* (the commands of src/libraries/command over protocol_controller.cpp).   *)
(***************************************************************************)
THEOREM ControlImplemented == Spec => ImplementsControl
<1>1. VInv /\ IInv /\ [Next]_vars => [Control!Next]_(Control!vars)
  <2> SUFFICES ASSUME VInv, IInv, [Next]_vars  PROVE [Control!Next]_(Control!vars)
    OBVIOUS
  <2>1. CASE AskProper
    BY <2>1, AskBegins DEF Control!Next
  <2>2. CASE TakeWell
    BY <2>2, TakeEnds DEF Control!Next
  <2>3. CASE CallThrows
    <3>1. call # NoCall /\ Throw /\ UNCHANGED <<board, requests>>
      BY <2>3 DEF CallThrows
    <3> QED
      BY <3>1, ThrowFails DEF Control!Next
  <2>4. CASE Reopen
    BY <2>4, ReopenReopens DEF Control!Next
  <2>5. CASE BoardActs
    BY <2>5, ActActs DEF Control!Next
  <2>6. CASE BoardIgnores
    BY <2>6, IgnoreIgnores DEF Control!Next
  <2>7. CASE BoardChanges
    BY <2>7, ChangesChange DEF Control!Next
  <2>8. CASE UNCHANGED vars
    <3>1. UNCHANGED <<board, requests, replies, call, exact, got>>
      BY <2>8 DEF vars
    <3> QED
      BY <3>1, StutterAllowed
  <2> QED
    BY <2>1, <2>2, <2>3, <2>4, <2>5, <2>6, <2>7, <2>8, StepShape
<1> QED
  BY <1>1, InitAllowed, ValuesInvariance, CommandsInvariance, PTL DEF Spec, ImplementsControl, Control!Spec
=============================================================================
