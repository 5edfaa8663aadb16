---------------------------- MODULE TcpTransport ----------------------------
(***************************************************************************)
(* TCPTransport::Impl of libraries/transport/network/tcp_transport.cpp:    *)
(* the thread that owns the object and calls connect(), disconnect(),      *)
(* send(), subscribe(), receive() and the destructor, and the reader       *)
(* thread that read_loop() runs.  The two share the plain members status_, *)
(* running_, sockfd_ and receive_callback_ with no lock, so every access   *)
(* to one of them is a step of its own; the accesses of one thread take    *)
(* effect in program order.  A socket is a number of Socks that is never   *)
(* reused, so closing, leaking or reading the wrong one is visible.  The   *)
(* bytes themselves are abstracted; the kernel and the peer are external.  *)
(***************************************************************************)
EXTENDS Integers

CONSTANTS
  MaxSocks,                \* bound: how many sockets ::socket ever hands out
  FrameUnits,              \* bound: into how many ::send a frame can be split
  SpawnMayFail,            \* whether std::thread may fail to start a thread
  SubscribeWhileConnected  \* whether the application calls subscribe() while
                           \* get_status() is Connected

ASSUME BoundsAssumption ==
  /\ MaxSocks \in Nat \ {0}
  /\ FrameUnits \in Nat \ {0}
  /\ SpawnMayFail \in BOOLEAN
  /\ SubscribeWhileConnected \in BOOLEAN

VARIABLES
  addrOk,    \* whether config_.ip is an IPv4 address (immutable)
  status,    \* status_
  running,   \* running_
  sockfd,    \* sockfd_
  joinable,  \* read_thread_.joinable()
  callback,  \* receive_callback_: "none", "set", or "torn" while it is assigned
  conn,      \* what the kernel knows of each socket
  opc,       \* where the owner is
  dying,     \* the owner is inside ~Impl
  left,      \* how much of the frame send() still has to write
  ret,       \* how the owner's last call ended
  rpc,       \* where the reader is
  rfd,       \* the socket the reader's recv was called with
  proc,      \* "running", or what killed the process
  redialed,  \* history: connect() ran while a lost reader was not joined
  misclosed  \* history: ::close was called on a socket already closed

object == <<addrOk, status, running, sockfd, joinable, callback>>
owner  == <<opc, dying, left, ret>>
reader == <<rpc, rfd>>
vars   == <<object, conn, owner, reader, proc, redialed, misclosed>>

-----------------------------------------------------------------------------
(* The values of the variables.                                            *)

NoFd == -1
Socks == 1 .. MaxSocks

Statuses == {"Disconnected", "Connecting", "Connected", "Error"}

(***************************************************************************)
(* A socket: not yet created, created, established, closed by the peer     *)
(* (recv returns 0), reset by the peer, reset and already reported by one  *)
(* recv (recv then returns 0), closed by this process.                     *)
(***************************************************************************)
ConnStates ==
  {"unused", "fresh", "up", "fin", "rst", "broken", "closed"}

Established == {"up", "fin", "rst", "broken"}
OpenSocks == {s \in Socks : conn[s] \in Established \cup {"fresh"}}

ConnectPcs ==
  {"socket", "check", "announce", "dial", "undo", "clear", "fail",
   "publish", "arm", "spawn"}
DisconnectPcs == {"d_stop", "d_join", "d_close", "d_clear", "d_done"}
OtherPcs == {"idle", "free", "gone", "s_fd", "s_write", "swap", "r_recv"}

Looping  == {"test", "enter", "recv", "cbtest", "incb"}
Noticing == {"eof", "err"}
Leaving  == {"stop", "fdtest", "close", "clear", "final", "mark", "ended"}

-----------------------------------------------------------------------------
(* The constructor of Impl.                                                *)

Init ==
  /\ addrOk \in BOOLEAN
  /\ status = "Disconnected" /\ running = FALSE /\ sockfd = NoFd
  /\ joinable = FALSE /\ callback = "none"
  /\ conn = [s \in Socks |-> "unused"]
  /\ opc = "idle" /\ dying = FALSE /\ left = 0 /\ ret = "none"
  /\ rpc = "none" /\ rfd = NoFd
  /\ proc = "running" /\ redialed = FALSE /\ misclosed = FALSE

(* A call ends: control is back at the application, or in ~Impl.           *)
Return(outcome) ==
  /\ opc' = IF dying THEN "free" ELSE "idle"
  /\ ret' = outcome

Call(entry) == opc = "idle" /\ opc' = entry /\ ret' = "none"

(* ::close(sockfd_); closing -1 is an EBADF that nothing notices.          *)
CloseSock ==
  /\ conn' = [s \in Socks |-> IF s = sockfd THEN "closed" ELSE conn[s]]
  /\ misclosed' = (misclosed \/ \E s \in Socks : s = sockfd /\ conn[s] = "closed")

At(pc) == opc = pc
Goto(pc) == opc' = pc /\ UNCHANGED <<dying, left, ret>>
OwnerOnly == UNCHANGED <<reader, proc>>

-----------------------------------------------------------------------------
(* connect()                                                               *)

ConnectBegin ==
  /\ IF status = "Connected"
       THEN At("idle") /\ Return("connected") /\ UNCHANGED redialed
       ELSE Call("socket") /\ redialed' = (redialed \/ joinable)
  /\ UNCHANGED <<dying, left, object, conn, misclosed>> /\ OwnerOnly

(* ::socket and setsockopt; no descriptor is left once Socks is used up.   *)
ConnectSocket ==
  /\ At("socket") /\ Goto("check")
  /\ \/ \E s \in Socks :
          /\ conn[s] = "unused"
          /\ conn' = [conn EXCEPT ![s] = "fresh"]
          /\ sockfd' = s
     \/ sockfd' = NoFd /\ UNCHANGED conn
  /\ UNCHANGED <<addrOk, status, running, joinable, callback, redialed, misclosed>>
  /\ OwnerOnly

(* sockfd_ < 0, then inet_pton.                                            *)
ConnectCheck ==
  /\ At("check")
  /\ Goto(IF sockfd = NoFd THEN "fail" ELSE IF addrOk THEN "announce" ELSE "undo")
  /\ UNCHANGED <<object, conn, redialed, misclosed>> /\ OwnerOnly

ConnectAnnounce ==
  /\ At("announce") /\ Goto("dial")
  /\ status' = "Connecting"
  /\ UNCHANGED <<addrOk, running, sockfd, joinable, callback, conn, redialed, misclosed>>
  /\ OwnerOnly

(* ::connect; it can only succeed on a socket that is still open.          *)
ConnectDial ==
  /\ At("dial")
  /\ \/ /\ sockfd # NoFd /\ conn[sockfd] = "fresh"
        /\ conn' = [conn EXCEPT ![sockfd] = "up"]
        /\ Goto("publish")
     \/ Goto("undo") /\ UNCHANGED conn
  /\ UNCHANGED <<object, redialed, misclosed>> /\ OwnerOnly

(* Mutant: the failed socket is forgotten instead of closed.               *)
ConnectUndo_Forgets ==
  /\ At("undo") /\ Goto("clear")
  /\ UNCHANGED <<object, conn, redialed, misclosed>> /\ OwnerOnly

ConnectUndo ==
  /\ At("undo") /\ Goto("clear")
  /\ CloseSock
  /\ UNCHANGED <<object, redialed>> /\ OwnerOnly

ConnectClear ==
  /\ At("clear") /\ Goto("fail")
  /\ sockfd' = NoFd
  /\ UNCHANGED <<addrOk, status, running, joinable, callback, conn, redialed, misclosed>>
  /\ OwnerOnly

ConnectFail ==
  /\ At("fail") /\ Return("refused")
  /\ status' = "Error"
  /\ UNCHANGED <<addrOk, running, sockfd, joinable, callback, dying, left, conn,
                 redialed, misclosed>>
  /\ OwnerOnly

ConnectPublish ==
  /\ At("publish") /\ Goto("arm")
  /\ status' = "Connected"
  /\ UNCHANGED <<addrOk, running, sockfd, joinable, callback, conn, redialed, misclosed>>
  /\ OwnerOnly

ConnectArm ==
  /\ At("arm") /\ Goto("spawn")
  /\ running' = TRUE
  /\ UNCHANGED <<addrOk, status, sockfd, joinable, callback, conn, redialed, misclosed>>
  /\ OwnerOnly

(***************************************************************************)
(* read_thread_ = std::thread(...): assigning over a thread that was not   *)
(* joined calls std::terminate.                                            *)
(***************************************************************************)
ConnectSpawn ==
  /\ At("spawn")
  /\ IF joinable
       THEN proc' = "terminated" /\ UNCHANGED <<joinable, rpc, opc, ret>>
       ELSE joinable' = TRUE /\ rpc' = "test" /\ Return("connected") /\ UNCHANGED proc
  /\ UNCHANGED <<addrOk, status, running, sockfd, callback, conn, dying, left, rfd,
                 redialed, misclosed>>

(* The constructor of std::thread throws std::system_error.                *)
ConnectSpawnFails ==
  /\ SpawnMayFail /\ At("spawn") /\ Return("thrown")
  /\ UNCHANGED <<object, conn, dying, left, redialed, misclosed>> /\ OwnerOnly

-----------------------------------------------------------------------------
(* disconnect() and the destructor                                         *)

DisconnectEntry ==
  IF status \in {"Disconnected", "Error"} THEN Return("disconnected")
                                          ELSE opc' = "d_stop" /\ ret' = "none"

DisconnectBegin ==
  /\ At("idle") /\ DisconnectEntry
  /\ UNCHANGED <<dying, left, object, conn, redialed, misclosed>> /\ OwnerOnly

(* ~Impl calls disconnect() first.                                         *)
DestroyBegin ==
  /\ At("idle") /\ ~dying
  /\ dying' = TRUE
  /\ IF status \in {"Disconnected", "Error"} THEN opc' = "free" ELSE opc' = "d_stop"
  /\ ret' = "none"
  /\ UNCHANGED <<left, object, conn, redialed, misclosed>> /\ OwnerOnly

(* Mutant: the join is forgotten.                                          *)
DisconnectStop_NoJoin ==
  /\ At("d_stop") /\ Goto("d_close")
  /\ running' = FALSE
  /\ UNCHANGED <<addrOk, status, sockfd, joinable, callback, conn, redialed, misclosed>>
  /\ OwnerOnly

DisconnectStop ==
  /\ At("d_stop") /\ Goto("d_join")
  /\ running' = FALSE
  /\ UNCHANGED <<addrOk, status, sockfd, joinable, callback, conn, redialed, misclosed>>
  /\ OwnerOnly

(* join() waits for the reader to return.                                  *)
DisconnectJoin ==
  /\ At("d_join") /\ Goto("d_close")
  /\ joinable => rpc = "ended"
  /\ joinable' = FALSE /\ rpc' = "none"
  /\ UNCHANGED <<addrOk, status, running, sockfd, callback, conn, rfd, proc,
                 redialed, misclosed>>

(* Mutant: closing is left to the reader.                                  *)
DisconnectClose_Never ==
  /\ At("d_close") /\ Goto("d_done")
  /\ UNCHANGED <<object, conn, redialed, misclosed>> /\ OwnerOnly

DisconnectClose ==
  /\ At("d_close")
  /\ IF sockfd # NoFd THEN CloseSock /\ Goto("d_clear")
                      ELSE Goto("d_done") /\ UNCHANGED <<conn, misclosed>>
  /\ UNCHANGED <<object, redialed>> /\ OwnerOnly

DisconnectClear ==
  /\ At("d_clear") /\ Goto("d_done")
  /\ sockfd' = NoFd
  /\ UNCHANGED <<addrOk, status, running, joinable, callback, conn, redialed, misclosed>>
  /\ OwnerOnly

(* Mutant: the status is left as it was.                                   *)
DisconnectDone_KeepsStatus ==
  /\ At("d_done") /\ Return("disconnected")
  /\ UNCHANGED <<object, dying, left, conn, redialed, misclosed>> /\ OwnerOnly

DisconnectDone ==
  /\ At("d_done") /\ Return("disconnected")
  /\ status' = "Disconnected"
  /\ UNCHANGED <<addrOk, running, sockfd, joinable, callback, dying, left, conn,
                 redialed, misclosed>>
  /\ OwnerOnly

(* The members are destroyed: ~thread of a joinable thread terminates.     *)
Free ==
  /\ At("free")
  /\ IF joinable THEN proc' = "terminated" /\ UNCHANGED opc
                 ELSE opc' = "gone" /\ UNCHANGED proc
  /\ UNCHANGED <<object, conn, dying, left, ret, reader, redialed, misclosed>>

-----------------------------------------------------------------------------
(* send(), subscribe() and receive()                                       *)

SendBegin ==
  /\ IF status # "Connected"
       THEN At("idle") /\ Return("unsent") /\ UNCHANGED left
       ELSE Call("s_fd") /\ left' = FrameUnits
  /\ UNCHANGED <<dying, object, conn, redialed, misclosed>> /\ OwnerOnly

SendCheckFd ==
  /\ At("s_fd")
  /\ IF sockfd = NoFd THEN Return("unsent") /\ left' = 0
                      ELSE opc' = "s_write" /\ UNCHANGED <<ret, left>>
  /\ UNCHANGED <<dying, object, conn, redialed, misclosed>> /\ OwnerOnly

(***************************************************************************)
(* One ::send of the loop, on whatever sockfd_ holds by now.  The kernel   *)
(* takes part of the frame, or fails; a connection the peer has reset      *)
(* raises SIGPIPE, which nothing here ignores.                             *)
(***************************************************************************)
SendWrite ==
  /\ At("s_write")
  /\ \/ \E n \in 1 .. left :
          /\ sockfd # NoFd /\ conn[sockfd] \in {"up", "fin"}
          /\ left' = left - n
          /\ IF n = left THEN Return("sent") ELSE UNCHANGED <<opc, ret>>
          /\ UNCHANGED proc
     \/ left' = 0 /\ Return("unsent") /\ UNCHANGED proc
     \/ /\ sockfd # NoFd /\ conn[sockfd] \in {"rst", "broken"}
        /\ proc' = "sigpipe" /\ UNCHANGED <<opc, ret, left>>
  /\ UNCHANGED <<dying, object, conn, reader, redialed, misclosed>>

(***************************************************************************)
(* receive_callback_ = std::move(callback): the assignment is not atomic,  *)
(* and it destroys the function the reader may be executing.               *)
(***************************************************************************)
SubscribeBegin ==
  /\ SubscribeWhileConnected \/ status # "Connected"
  /\ Call("swap")
  /\ callback' = "torn"
  /\ \/ UNCHANGED proc
     \/ rpc = "incb" /\ proc' = "badcall"
  /\ UNCHANGED <<addrOk, status, running, sockfd, joinable, dying, left, conn, reader,
                 redialed, misclosed>>

SubscribeEnd ==
  /\ At("swap") /\ Return("subscribed")
  /\ callback' = "set"
  /\ UNCHANGED <<addrOk, status, running, sockfd, joinable, dying, left, conn,
                 redialed, misclosed>>
  /\ OwnerOnly

ReceiveBegin ==
  /\ Call("r_recv")
  /\ UNCHANGED <<dying, left, object, conn, redialed, misclosed>> /\ OwnerOnly

(* What a recv that reports the reset leaves of the connection.            *)
Reported(s) == [conn EXCEPT ![s] = IF @ = "rst" THEN "broken" ELSE @]

(***************************************************************************)
(* One ::recv of receive(), in competition with the reader: the byte that  *)
(* ends a frame, any other byte (the loop goes on), or an exception.       *)
(***************************************************************************)
ReceiveByte ==
  /\ At("r_recv")
  /\ \/ /\ sockfd # NoFd /\ conn[sockfd] = "up"
        /\ Return("frame") /\ UNCHANGED conn
     \/ /\ Return("thrown")
        /\ conn' = IF sockfd # NoFd THEN Reported(sockfd) ELSE conn
  /\ UNCHANGED <<dying, left, object, redialed, misclosed>> /\ OwnerOnly

-----------------------------------------------------------------------------
(* read_loop()                                                             *)

ReaderAt(pc) == rpc = pc
ReaderGoto(pc) == rpc' = pc /\ UNCHANGED rfd
ReaderOnly == UNCHANGED <<owner, redialed>>

(* Mutant: while (true).                                                   *)
ReaderTest_Forever ==
  /\ ReaderAt("test") /\ ReaderGoto("enter")
  /\ UNCHANGED <<object, conn, proc, misclosed>> /\ ReaderOnly

ReaderTest ==
  /\ ReaderAt("test") /\ ReaderGoto(IF running THEN "enter" ELSE "stop")
  /\ UNCHANGED <<object, conn, proc, misclosed>> /\ ReaderOnly

ReaderEnter ==
  /\ ReaderAt("enter") /\ rpc' = "recv" /\ rfd' = sockfd
  /\ UNCHANGED <<object, conn, proc, misclosed>> /\ ReaderOnly

(* ::recv returned bytes.                                                  *)
ReaderData ==
  /\ ReaderAt("recv") /\ rfd # NoFd /\ conn[rfd] = "up"
  /\ ReaderGoto("cbtest")
  /\ UNCHANGED <<object, conn, proc, misclosed>> /\ ReaderOnly

(* ::recv returned 0.                                                      *)
ReaderEof ==
  /\ ReaderAt("recv") /\ rfd # NoFd /\ conn[rfd] \in {"fin", "broken"}
  /\ ReaderGoto("eof")
  /\ UNCHANGED <<object, conn, proc, misclosed>> /\ ReaderOnly

(* ::recv returned -1: a reset, a bad descriptor, or 500 ms of silence.    *)
ReaderError ==
  /\ ReaderAt("recv")
  /\ \/ rfd = NoFd /\ UNCHANGED conn
     \/ rfd # NoFd /\ conn[rfd] \notin {"fin", "broken"} /\ conn' = Reported(rfd)
  /\ ReaderGoto("err")
  /\ UNCHANGED <<object, proc, misclosed>> /\ ReaderOnly

(* if (receive_callback_): bytes nobody subscribed to are dropped.         *)
ReaderTestCallback ==
  /\ ReaderAt("cbtest")
  /\ \/ callback \in {"none", "torn"} /\ ReaderGoto("test") /\ UNCHANGED proc
     \/ callback \in {"set", "torn"} /\ ReaderGoto("incb") /\ UNCHANGED proc
     \/ callback = "torn" /\ proc' = "badcall" /\ UNCHANGED reader
  /\ UNCHANGED <<object, conn, misclosed>> /\ ReaderOnly

ReaderCallbackReturns ==
  /\ ReaderAt("incb") /\ ReaderGoto("test")
  /\ UNCHANGED <<object, conn, proc, misclosed>> /\ ReaderOnly

(***************************************************************************)
(* A callback that sends a request and receives its reply (as those of     *)
(* module Receivers do) uses the connection on the reader thread: a send() *)
(* may raise SIGPIPE, a recv may report the reset before the loop does.    *)
(***************************************************************************)
ReaderCallbackTransfers ==
  /\ ReaderAt("incb") /\ UNCHANGED reader
  /\ \/ /\ status = "Connected" /\ sockfd # NoFd /\ conn[sockfd] \in {"rst", "broken"}
        /\ proc' = "sigpipe" /\ UNCHANGED conn
     \/ conn' = (IF sockfd # NoFd THEN Reported(sockfd) ELSE conn) /\ UNCHANGED proc
  /\ UNCHANGED <<object, misclosed>> /\ ReaderOnly

(* Mutant: the status is not updated when recv fails.                      *)
ReaderNotice_Silent ==
  /\ ReaderAt("eof") \/ ReaderAt("err")
  /\ ReaderGoto("stop")
  /\ UNCHANGED <<object, conn, proc, misclosed>> /\ ReaderOnly

(* Mutant: a failed recv is reported, but the break is missing.            *)
ReaderNotice_NoBreak ==
  /\ \/ ReaderAt("eof") /\ status' = "Disconnected"
     \/ ReaderAt("err") /\ status' = "Error"
  /\ ReaderGoto("test")
  /\ UNCHANGED <<addrOk, running, sockfd, joinable, callback, conn, proc, misclosed>>
  /\ ReaderOnly

ReaderNotice ==
  /\ \/ ReaderAt("eof") /\ status' = "Disconnected"
     \/ ReaderAt("err") /\ status' = "Error"
  /\ ReaderGoto("stop")
  /\ UNCHANGED <<addrOk, running, sockfd, joinable, callback, conn, proc, misclosed>>
  /\ ReaderOnly

ReaderStop ==
  /\ ReaderAt("stop") /\ ReaderGoto("fdtest")
  /\ running' = FALSE
  /\ UNCHANGED <<addrOk, status, sockfd, joinable, callback, conn, proc, misclosed>>
  /\ ReaderOnly

ReaderTestFd ==
  /\ ReaderAt("fdtest") /\ ReaderGoto(IF sockfd # NoFd THEN "close" ELSE "final")
  /\ UNCHANGED <<object, conn, proc, misclosed>> /\ ReaderOnly

ReaderClose ==
  /\ ReaderAt("close") /\ ReaderGoto("clear")
  /\ CloseSock
  /\ UNCHANGED <<object, proc>> /\ ReaderOnly

(* Mutant: sockfd_ is reset to 0 instead of -1.                            *)
ReaderClear_Zero ==
  /\ ReaderAt("clear") /\ ReaderGoto("final")
  /\ sockfd' = 0
  /\ UNCHANGED <<addrOk, status, running, joinable, callback, conn, proc, misclosed>>
  /\ ReaderOnly

(* Mutant: sockfd_ keeps the closed descriptor.                            *)
ReaderClear_KeepsFd ==
  /\ ReaderAt("clear") /\ ReaderGoto("final")
  /\ UNCHANGED <<object, conn, proc, misclosed>> /\ ReaderOnly

ReaderClear ==
  /\ ReaderAt("clear") /\ ReaderGoto("final")
  /\ sockfd' = NoFd
  /\ UNCHANGED <<addrOk, status, running, joinable, callback, conn, proc, misclosed>>
  /\ ReaderOnly

ReaderFinal ==
  /\ ReaderAt("final") /\ ReaderGoto(IF status = "Error" THEN "ended" ELSE "mark")
  /\ UNCHANGED <<object, conn, proc, misclosed>> /\ ReaderOnly

ReaderMark ==
  /\ ReaderAt("mark") /\ ReaderGoto("ended")
  /\ status' = "Disconnected"
  /\ UNCHANGED <<addrOk, running, sockfd, joinable, callback, conn, proc, misclosed>>
  /\ ReaderOnly

-----------------------------------------------------------------------------
(* The peer (external): it may close or reset an established connection.   *)

PeerCloses ==
  /\ \E s \in Socks : conn[s] = "up" /\ conn' = [conn EXCEPT ![s] = "fin"]
  /\ UNCHANGED <<object, owner, reader, proc, redialed, misclosed>>

PeerResets ==
  /\ \E s \in Socks :
       conn[s] \in {"up", "fin"} /\ conn' = [conn EXCEPT ![s] = "rst"]
  /\ UNCHANGED <<object, owner, reader, proc, redialed, misclosed>>

-----------------------------------------------------------------------------
OwnerCalls ==
  \/ ConnectBegin \/ DisconnectBegin \/ DestroyBegin
  \/ SendBegin \/ SubscribeBegin \/ ReceiveBegin

ConnectStep ==
  \/ ConnectSocket \/ ConnectCheck \/ ConnectAnnounce \/ ConnectDial
  \/ ConnectUndo \/ ConnectClear \/ ConnectFail
  \/ ConnectPublish \/ ConnectArm \/ ConnectSpawn \/ ConnectSpawnFails

DisconnectStep ==
  \/ DisconnectStop \/ DisconnectJoin \/ DisconnectClose \/ DisconnectClear
  \/ DisconnectDone \/ Free

TransferStep == SendCheckFd \/ SendWrite \/ SubscribeEnd \/ ReceiveByte

(* read_loop() but for what happens around the callback.                   *)
ReaderLoop ==
  \/ ReaderTest \/ ReaderEnter \/ ReaderData \/ ReaderEof \/ ReaderError
  \/ ReaderNotice \/ ReaderStop \/ ReaderTestFd \/ ReaderClose \/ ReaderClear
  \/ ReaderFinal \/ ReaderMark

ReaderStep ==
  \/ ReaderLoop
  \/ ReaderTestCallback \/ ReaderCallbackTransfers \/ ReaderCallbackReturns

PeerStep == PeerCloses \/ PeerResets

Step ==
  /\ proc = "running"
  /\ OwnerCalls \/ ConnectStep \/ DisconnectStep \/ TransferStep
     \/ ReaderStep \/ PeerStep

(* The process is dead, or the object is gone: nothing left to do.         *)
Halted == proc # "running" \/ opc = "gone"
Rest == Halted /\ UNCHANGED vars

Next == Step \/ Rest

Spec == Init /\ [][Next]_vars

-----------------------------------------------------------------------------
(* Type invariant.                                                         *)

TypeOK ==
  /\ addrOk \in BOOLEAN
  /\ status \in Statuses
  /\ running \in BOOLEAN
  /\ sockfd \in Socks \cup {NoFd}
  /\ joinable \in BOOLEAN
  /\ callback \in {"none", "torn", "set"}
  /\ conn \in [Socks -> ConnStates]
  /\ opc \in ConnectPcs \cup DisconnectPcs \cup OtherPcs
  /\ dying \in BOOLEAN
  /\ left \in 0 .. FrameUnits
  /\ ret \in {"none", "connected", "refused", "thrown", "disconnected", "sent",
              "unsent", "subscribed", "frame"}
  /\ rpc \in Looping \cup Noticing \cup Leaving \cup {"none"}
  /\ rfd \in Socks \cup {NoFd}
  /\ proc \in {"running", "terminated", "sigpipe", "badcall"}
  /\ redialed \in BOOLEAN
  /\ misclosed \in BOOLEAN

-----------------------------------------------------------------------------
(* Safety.                                                                 *)

(***************************************************************************)
(* When the application is not inside a call and get_status() says         *)
(* Connected, there is a connection behind it: sockfd_ names a socket that *)
(* is established and not closed, and a reader thread still in its loop    *)
(* will notice when it breaks.  Where std::thread may fail, a connection    *)
(* can be left without a reader, and nothing is promised of one dialled    *)
(* over a lost one.                                                        *)
(***************************************************************************)
ConnectedIsLive ==
  (proc = "running" /\ opc = "idle" /\ status = "Connected") =>
    \/ /\ sockfd # NoFd /\ conn[sockfd] \in Established
       /\ \/ joinable /\ running /\ rpc \in Looping \cup Noticing
          \/ ~joinable /\ SpawnMayFail
    \/ redialed /\ SpawnMayFail

(***************************************************************************)
(* The reader never reads from a descriptor that was closed under it, or   *)
(* from another connection than the current one: whoever closes or         *)
(* replaces sockfd_ has joined the reader first, or is the reader.         *)
(***************************************************************************)
ReaderOwnsItsSocket ==
  (proc = "running" /\ rpc = "recv") => rfd = sockfd /\ rfd # NoFd /\ conn[rfd] # "closed"

(***************************************************************************)
(* Between them, connect(), disconnect() and the reader close every        *)
(* descriptor exactly once and forget none: a second close could hit a     *)
(* descriptor the process has opened meanwhile.  The exception is a        *)
(* connect() that overtakes the reader of a lost connection.               *)
(***************************************************************************)
ClosedExactlyOnce == ~redialed => ~misclosed /\ OpenSocks \subseteq {sockfd}

(***************************************************************************)
(* A destructor that returns leaves nothing behind: the reader thread is   *)
(* joined and every socket the object ever opened is closed (but for those *)
(* a connect() over a lost reader left behind; unless std::thread fails,   *)
(* such an object never gets as far as being destroyed).                   *)
(***************************************************************************)
DestroyedClean ==
  (opc = "gone") => rpc = "none" /\ ~joinable /\ (redialed \/ OpenSocks = {})

(***************************************************************************)
(* An application that only subscribes while get_status() is not Connected *)
(* never assigns receive_callback_ under the reader's feet: the reader     *)
(* publishes the end of the connection after its last look at the callback *)
(* and connect() starts it after subscribe() has returned.                 *)
(***************************************************************************)
CallbackNeverTorn == (proc = "badcall") => SubscribeWhileConnected

(***************************************************************************)
(* The object implements TcpSession: in particular a reader that leaves    *)
(* its loop on its own (the peer closed or reset, or was silent for half a *)
(* second) makes the object unusable for good.  (Only the std::thread that *)
(* fails to start can save an application that reconnects: it throws       *)
(* before the assignment terminates.  So this is claimed of ~SpawnMayFail.) *)
(***************************************************************************)
session ==
  IF proc # "running" THEN "aborted"
  ELSE IF opc = "gone" THEN "released"
  ELSE IF joinable /\ opc \in {"d_stop", "d_join"} THEN "closing"
  ELSE IF joinable THEN IF rpc \in Leaving THEN "lost" ELSE "up"
  ELSE "closed"

Session == INSTANCE TcpSession
ImplementsSession == Session!Spec

-----------------------------------------------------------------------------
(* What the comments of the code say, and the code does not do.            *)

(***************************************************************************)
(* tests/mcb_testArray.cpp:26-40: a program whose commands failed catches  *)
(* the exceptions, disconnects, destroys the controller and returns 0.     *)
(* Destroying the object does not take the process down.                   *)
(***************************************************************************)
ShutdownSurvives == dying => proc # "terminated"
=============================================================================
