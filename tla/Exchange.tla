------------------------------ MODULE Exchange ------------------------------
(***************************************************************************)
(* A command and its reply, through all layers: the application calls      *)
(* ProtocolController::sendCommand(), which sends a frame and has the      *)
(* awaiter read the reply from the transport, byte by byte up to ETX.      *)
(* The reader thread of the transport (module TcpTransport) reads the same *)
(* socket: each byte goes to whoever asks the kernel first, and what the   *)
(* reader gets is dropped, because ControllerFactory subscribes nobody.    *)
(*                                                                         *)
(* Bytes are those of McbProtocol.  A byte on its way carries two tags     *)
(* that the program cannot see: the reply it is of and its place in the    *)
(* frame of that reply.  The state of the connection is that of module     *)
(* TcpSession, "closing" and the ends of the process left out.             *)
(***************************************************************************)
EXTENDS McbProtocol

CONSTANTS
  MaxCalls,     \* bound: how many requests are sent
  MaxSessions,  \* bound: how often the application connects
  MaxTakes,     \* bound: how often the reader takes bytes of a session
  Bodies,       \* what a reply may say
  Command       \* the command byte of every frame

ASSUME ExchangeAssumption ==
  /\ MaxCalls \in Nat
  /\ MaxSessions \in Nat
  /\ MaxTakes \in Nat
  /\ \A body \in Bodies : body \in Seq(Byte) /\ Len(body) \in 1 .. MaxPayload
  /\ Command \in Recognised

VARIABLES
  session,   \* "closed", "up", or "lost" once the reader has noticed
  hasFd,     \* whether sockfd_ is a descriptor
  wire,      \* the bytes in the kernel's receive buffer
  sending,   \* the bytes the board has yet to send
  asked,     \* the requests of this session the board has yet to look at
  replies,   \* history: the board's replies of this session
  taken,     \* history: how often the reader took bytes of this session
  calls,     \* history: how many requests were sent
  sessions,  \* history: how often a session was opened
  pc,        \* where the application is in sendCommand()
  chunk,     \* the buffer of receive()
  cut,       \* history: the reply whose frame the last call to give up has left
             \* in the middle, if any (a set of one, or empty)
  given      \* history: the last reply returned in this session, and the call
             \* that got it

connection == <<session, hasFd, sessions>>
board      == <<wire, sending, asked, replies, taken>>
caller     == <<calls, pc, chunk, cut, given>>
vars       == <<connection, board, caller>>

(* The bytes of the frames of the replies R, as they travel.               *)
Tagged(R) == [value : Byte, of : R, at : Nat \ {0}]

(* The frame of reply r.                                                   *)
FrameOf(r) ==
  LET frame == buildFrame(Command, r.body) IN
  [i \in 1 .. Len(frame) |-> [value |-> frame[i], of |-> r, at |-> i]]

(* What the program sees of them.                                          *)
Values(bytes) == [i \in 1 .. Len(bytes) |-> bytes[i].value]

(* The reply in the middle of whose frame they begin, if any.              *)
Torn(bytes) == IF bytes # <<>> /\ bytes[1].at > 1 THEN {bytes[1].of} ELSE {}

(***************************************************************************)
(* What parseFrame() makes of the pieces of a frame that begin after its   *)
(* first byte: with an STX inside, a piece can pass for a frame itself.    *)
(***************************************************************************)
Hidden ==
  [body \in Bodies |->
     LET frame == buildFrame(Command, body) IN
     {parseFrame(SubSeq(frame, i, j)).data : i \in 2 .. Len(frame), j \in 1 .. Len(frame)}
       \ {<<>>}]

Nothing == [to |-> 0, body |-> <<>>, call |-> 0]

-----------------------------------------------------------------------------
Init ==
  /\ session = "closed" /\ hasFd = FALSE /\ sessions = 0
  /\ wire = <<>> /\ sending = <<>> /\ asked = {} /\ replies = {}
  /\ taken = 0
  /\ calls = 0 /\ pc = "idle" /\ chunk = <<>> /\ cut = {} /\ given = Nothing

(* DeviceController::connect(), a successful one, from closed.             *)
Connect ==
  /\ pc = "idle" /\ session = "closed" /\ sessions < MaxSessions
  /\ session' = "up" /\ hasFd' = TRUE /\ sessions' = sessions + 1
  /\ wire' = <<>> /\ sending' = <<>> /\ asked' = {} /\ replies' = {}
  /\ taken' = 0 /\ cut' = {} /\ given' = Nothing /\ UNCHANGED <<calls, pc, chunk>>

(* DeviceController::disconnect(), of a session that is up.                *)
Disconnect ==
  /\ pc = "idle" /\ session = "up"
  /\ session' = "closed" /\ hasFd' = FALSE
  /\ wire' = <<>> /\ sending' = <<>> /\ asked' = {}
  /\ UNCHANGED <<sessions, replies, taken, caller>>

-----------------------------------------------------------------------------
(* sendCommand()                                                           *)

(* Mutant: the status is not looked at.                                    *)
Send_AnyStatus ==
  /\ pc = "idle" /\ calls < MaxCalls
  /\ pc' = "enter" /\ chunk' = <<>>
  /\ calls' = calls + 1
  /\ asked' = asked \cup {calls'}
  /\ UNCHANGED <<connection, wire, sending, replies, taken, cut, given>>

(***************************************************************************)
(* send() wrote the frame.  When it fails, because the status or the       *)
(* socket is not what it should be, sendCommand() throws and nothing has   *)
(* changed, so that is not a step.                                         *)
(***************************************************************************)
Send ==
  /\ pc = "idle" /\ calls < MaxCalls /\ session = "up" /\ hasFd
  /\ pc' = "enter" /\ chunk' = <<>>
  /\ calls' = calls + 1
  /\ asked' = asked \cup {calls'}
  /\ UNCHANGED <<connection, wire, sending, replies, taken, cut, given>>

(* receive() or the awaiter throws: what was read is lost, the rest stays.  *)
Throw ==
  /\ pc' = "idle" /\ chunk' = <<>> /\ UNCHANGED <<calls, given>>
  /\ cut' = Torn(wire \o sending)

(* ::recv(sockfd_, &byte, 1, 0): the call keeps the socket it began with.  *)
ReceiveEnter ==
  /\ pc = "enter"
  /\ IF hasFd THEN pc' = "recv" /\ UNCHANGED <<calls, chunk, cut, given>> ELSE Throw
  /\ UNCHANGED <<connection, board>>

ReceiveByte ==
  /\ pc = "recv" /\ wire # <<>>
  /\ chunk' = Append(chunk, Head(wire)) /\ wire' = Tail(wire)
  /\ pc' = IF Head(wire).value = ETX THEN "parse" ELSE "enter"
  /\ UNCHANGED <<connection, sending, asked, replies, taken, calls, cut, given>>

(* Mutant: no SO_RCVTIMEO.                                                 *)
ReceiveFails_Never == FALSE /\ UNCHANGED vars

(* 500 ms without a byte, or the connection is gone: receive() throws.     *)
ReceiveFails ==
  /\ pc = "recv" /\ wire = <<>> /\ Throw
  /\ UNCHANGED <<connection, board>>

(***************************************************************************)
(* MCBFrameAwaiter::waitForFrame(): parseFrame(), and what it returns must *)
(* not be empty.  Its first byte goes through frame.command and back.      *)
(***************************************************************************)
Parse ==
  /\ pc = "parse"
  /\ LET parsed == parseFrame(Values(chunk)) IN
       IF parsed.ok /\ parsed.data # <<>>
         THEN /\ given' = [to |-> chunk[1].of.to, body |-> parsed.data, call |-> calls]
              /\ pc' = "idle" /\ chunk' = <<>> /\ UNCHANGED <<calls, cut>>
         ELSE Throw
  /\ UNCHANGED <<connection, board>>

-----------------------------------------------------------------------------
(* read_loop()                                                             *)

(* recv returns what there is; receive_callback_ is empty.                 *)
ReaderTakes ==
  /\ session = "up" /\ wire # <<>>
  /\ taken < MaxTakes /\ wire' = <<>> /\ taken' = taken + 1
  /\ UNCHANGED <<connection, sending, asked, replies, caller>>

(* 500 ms without a byte, or the board closed the connection.              *)
ReaderLoses ==
  /\ session = "up" /\ wire = <<>>
  /\ session' = "lost"
  /\ UNCHANGED <<hasFd, sessions, board, caller>>

(* Mutant: the socket is closed before the loss is marked in status_.      *)
ReaderCloses_Early ==
  /\ session # "closed" /\ hasFd /\ hasFd' = FALSE
  /\ UNCHANGED <<session, sessions, board, caller>>

ReaderCloses ==
  /\ session = "lost" /\ hasFd /\ hasFd' = FALSE
  /\ UNCHANGED <<session, sessions, board, caller>>

-----------------------------------------------------------------------------
(* The board (external).                                                   *)

(* It takes a request, none of those before it is answered any more.       *)
BoardReplies ==
  /\ session # "closed"
  /\ \E n \in asked : \E body \in Bodies :
       LET reply == [to |-> n, body |-> body] IN
       /\ asked' = {m \in asked : m > n}
       /\ sending' = sending \o FrameOf(reply)
       /\ replies' = replies \cup {reply}
  /\ UNCHANGED <<connection, wire, taken, caller>>

BoardSends ==
  /\ session # "closed"
  /\ \E k \in 1 .. Len(sending) :
       /\ wire' = wire \o SubSeq(sending, 1, k)
       /\ sending' = SubSeq(sending, k + 1, Len(sending))
  /\ UNCHANGED <<connection, asked, replies, taken, caller>>

-----------------------------------------------------------------------------
SendCommand == Send \/ ReceiveEnter \/ ReceiveByte \/ ReceiveFails \/ Parse

Application == Connect \/ Disconnect \/ SendCommand

Reader == ReaderTakes \/ ReaderLoses \/ ReaderCloses

Board == BoardReplies \/ BoardSends

Next == Application \/ Reader \/ Board

(***************************************************************************)
(* A call that was made is executed, and a recv ends: with a byte, or by   *)
(* SO_RCVTIMEO.  Nothing is assumed of the board or of the reader.         *)
(***************************************************************************)
Fairness == WF_vars(ReceiveEnter \/ ReceiveByte \/ ReceiveFails \/ Parse)

Spec == Init /\ [][Next]_vars /\ Fairness

-----------------------------------------------------------------------------
(* Type invariant.                                                         *)
TypeOK ==
  /\ session \in {"closed", "up", "lost"} /\ hasFd \in BOOLEAN
  /\ session = "up" => hasFd
  /\ sessions \in 0 .. MaxSessions /\ calls \in 0 .. MaxCalls /\ taken \in 0 .. MaxTakes
  /\ asked \subseteq 1 .. calls
  /\ replies \subseteq [to : 1 .. calls, body : Bodies] /\ cut \subseteq replies
  /\ wire \in Seq(Tagged(replies)) /\ sending \in Seq(Tagged(replies))
  /\ chunk \in Seq(Tagged(replies))
  /\ pc \in {"idle", "enter", "recv", "parse"}
  /\ given \in [to : 0 .. calls, body : Seq(Byte), call : 0 .. calls]

(***************************************************************************)
(* The exchange is a CommandService: wherever a timeout or an ETX inside a *)
(* frame cuts the stream, a call that returns returns a reply the board    *)
(* gave in this session, whole, in order and only once, as long as the     *)
(* reader took nothing of the session.  There is one exception: behind a   *)
(* call that gave up in the middle of a frame, a frame hidden in the rest  *)
(* of it is taken for a reply.                                             *)
(***************************************************************************)
Service == INSTANCE CommandService WITH
  link <- session,
  robbed <- (taken > 0),
  waiting <- (pc # "idle"),
  given <- [to |-> given.to, body |-> given.body]

ImplementsService == Service!Spec

(***************************************************************************)
(* Every call ends, whatever the board sends or fails to send and the      *)
(* reader takes: each recv of receive() is bounded by SO_RCVTIMEO, and the *)
(* board answers a request once.                                           *)
(***************************************************************************)
EveryCallEnds == (pc # "idle") ~> (pc = "idle")

-----------------------------------------------------------------------------
(***************************************************************************)
(* i_receiver.h:22: IFrameAwaiter waits for "the response"; its caller     *)
(* sendCommand() is what a command gets its reply from.  A call returns    *)
(* the reply to its own request.                                           *)
(***************************************************************************)
AnswerIsOwn == given.to = given.call

(***************************************************************************)
(* i_receiver.h:29, of waitForFrame(): it waits for "a complete, decoded   *)
(* frame".  What a call returns is what some reply of the board says.      *)
(***************************************************************************)
ReplyIsGenuine == given.call > 0 => given.body \in Bodies
=============================================================================
