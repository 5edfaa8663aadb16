------------------------- MODULE TcpTransportProofs -------------------------
(***************************************************************************)
(* Proofs about TcpTransport for any number of sockets, any splitting of   *)
(* a frame, and either value of the two flags.  The inductive invariant    *)
(* IInv says, for every pair of places the two threads can be at, what     *)
(* status_, running_ and sockfd_ hold and in which state that socket is.   *)
(***************************************************************************)
EXTENDS TcpTransport, TLAPS

InLoop == rpc \in Looping \cup Noticing

SockIs(states) == sockfd # NoFd /\ conn[sockfd] \in states

Idling == {"idle", "swap", "r_recv", "s_fd", "s_write", "free", "gone"}

(* While the reader loops, nobody else changes the connection.             *)
LoopInv ==
  InLoop =>
    /\ opc \in {"idle", "swap", "r_recv", "s_fd", "s_write", "d_stop", "d_join"}
    /\ status = "Connected"
    /\ opc # "d_join" => running
    /\ SockIs(Established)
    /\ rpc = "recv" => rfd = sockfd

(* Once the reader has left its loop, the status says so.                  *)
LeftInv ==
  rpc \in Leaving =>
    /\ opc \notin {"d_close", "d_clear", "d_done", "gone"}
    /\ \/ opc \in ConnectPcs \cup {"d_stop", "d_join"}
       \/ status \in {"Disconnected", "Error"}
       \/ redialed /\ SpawnMayFail

(* Without a reader, the owner alone decides what sockfd_ is.              *)
NoReaderInv ==
  rpc = "none" =>
    /\ opc \in Idling /\ status = "Connected" =>
         SpawnMayFail /\ opc \notin {"free", "gone"} /\ SockIs(Established)
    /\ opc \in Idling /\ status # "Connected" => sockfd = NoFd
    /\ opc \in {"socket", "fail", "d_done"} => sockfd = NoFd
    /\ opc = "check" => sockfd = NoFd \/ SockIs({"fresh"})
    /\ opc \in {"announce", "dial", "undo"} => SockIs({"fresh"})
    /\ opc = "clear" => SockIs({"closed"})
    /\ opc \in {"publish", "arm", "spawn"} => SockIs(Established)
    /\ opc \in {"arm", "spawn"} => status = "Connected"
    /\ opc = "spawn" => running
    /\ opc \in {"d_stop", "d_join"} => SpawnMayFail /\ SockIs(Established)

ThreadInv ==
  /\ joinable <=> rpc # "none"
  /\ dying => opc \in DisconnectPcs \cup {"free", "gone"}
  /\ rpc # "none" /\ opc \in ConnectPcs => redialed
  /\ status = "Connecting" => opc \in ConnectPcs \ {"arm", "spawn"}
  /\ callback = "torn" => opc = "swap"
  /\ LoopInv /\ LeftInv /\ NoReaderInv

(* Which sockets are open, while no connect() has overtaken a lost reader. *)
SocketInv ==
  ~redialed =>
    /\ ~misclosed
    /\ OpenSocks \subseteq {sockfd}
    /\ rpc \in {"stop", "fdtest", "close"} => SockIs(Established)
    /\ rpc = "clear" => SockIs({"closed"})
    /\ rpc \in {"final", "mark", "ended"} => sockfd = NoFd
    /\ opc = "d_close" => sockfd = NoFd \/ SockIs(Established)
    /\ opc = "d_clear" => SockIs({"closed"})

IInv == TypeOK /\ ThreadInv /\ SocketInv

-----------------------------------------------------------------------------
(* Every step keeps the types. *)
LEMMA TypeStep ==
  ASSUME TypeOK, [Next]_vars
  PROVE  TypeOK'
<1> USE BoundsAssumption DEF object, owner, reader, vars, NoFd, Socks, Statuses,
      ConnStates, ConnectPcs, DisconnectPcs, OtherPcs, Looping, Noticing, Leaving,
      Established, At, Goto, Call, Return, OwnerOnly, ReaderOnly, ReaderAt, ReaderGoto,
      TypeOK
<1>1. CASE OwnerCalls
  <2>1. CASE ConnectBegin
    BY <2>1 DEF ConnectBegin
  <2>2. CASE DisconnectBegin
    BY <2>2 DEF DisconnectBegin, DisconnectEntry
  <2>3. CASE DestroyBegin
    BY <2>3 DEF DestroyBegin
  <2>4. CASE SendBegin
    BY <2>4 DEF SendBegin
  <2>5. CASE SubscribeBegin
    BY <2>5 DEF SubscribeBegin
  <2>6. CASE ReceiveBegin
    BY <2>6 DEF ReceiveBegin
  <2> QED
    BY <1>1, <2>1, <2>2, <2>3, <2>4, <2>5, <2>6 DEF OwnerCalls
<1>2. CASE ConnectStep
  <2>1. CASE ConnectSocket
    BY <2>1 DEF ConnectSocket
  <2>2. CASE ConnectCheck
    BY <2>2 DEF ConnectCheck
  <2>3. CASE ConnectAnnounce
    BY <2>3 DEF ConnectAnnounce
  <2>4. CASE ConnectDial
    BY <2>4 DEF ConnectDial
  <2>5. CASE ConnectUndo
    BY <2>5 DEF ConnectUndo, CloseSock
  <2>6. CASE ConnectClear
    BY <2>6 DEF ConnectClear
  <2>7. CASE ConnectFail
    BY <2>7 DEF ConnectFail
  <2>8. CASE ConnectPublish
    BY <2>8 DEF ConnectPublish
  <2>9. CASE ConnectArm
    BY <2>9 DEF ConnectArm
  <2>10. CASE ConnectSpawn
    <3>1. joinable' \in BOOLEAN
      BY <2>10, Zenon DEF ConnectSpawn
    <3> QED
      BY <2>10, <3>1 DEF ConnectSpawn
  <2>11. CASE ConnectSpawnFails
    BY <2>11 DEF ConnectSpawnFails
  <2> QED
    BY <1>2, <2>1, <2>2, <2>3, <2>4, <2>5, <2>6, <2>7, <2>8, <2>9, <2>10, <2>11 DEF ConnectStep
<1>3. CASE DisconnectStep
  <2>1. CASE DisconnectStop
    <3>1. running' \in BOOLEAN
      BY <2>1, Zenon DEF DisconnectStop
    <3> QED
      BY <2>1, <3>1 DEF DisconnectStop
  <2>2. CASE DisconnectJoin
    <3>1. joinable' \in BOOLEAN
      BY <2>2, Zenon DEF DisconnectJoin
    <3> QED
      BY <2>2, <3>1 DEF DisconnectJoin
  <2>3. CASE DisconnectClose
    <3>1. misclosed' \in BOOLEAN
      BY <2>3, Zenon DEF DisconnectClose, CloseSock
    <3> QED
      BY <2>3, <3>1 DEF DisconnectClose, CloseSock
  <2>4. CASE DisconnectClear
    BY <2>4 DEF DisconnectClear
  <2>5. CASE DisconnectDone
    BY <2>5 DEF DisconnectDone
  <2>6. CASE Free
    BY <2>6 DEF Free
  <2> QED
    BY <1>3, <2>1, <2>2, <2>3, <2>4, <2>5, <2>6 DEF DisconnectStep
<1>4. CASE TransferStep
  <2>1. CASE SendCheckFd
    BY <2>1 DEF SendCheckFd
  <2>2. CASE SendWrite
    BY <2>2 DEF SendWrite
  <2>3. CASE SubscribeEnd
    BY <2>3 DEF SubscribeEnd
  <2>4. CASE ReceiveByte
    BY <2>4 DEF ReceiveByte, Reported
  <2> QED
    BY <1>4, <2>1, <2>2, <2>3, <2>4 DEF TransferStep
<1>5. CASE ReaderStep
  <2>1. CASE ReaderTest
    BY <2>1 DEF ReaderTest
  <2>2. CASE ReaderEnter
    BY <2>2 DEF ReaderEnter
  <2>3. CASE ReaderData
    BY <2>3 DEF ReaderData
  <2>4. CASE ReaderEof
    BY <2>4 DEF ReaderEof
  <2>5. CASE ReaderError
    BY <2>5 DEF ReaderError, Reported
  <2>6. CASE ReaderTestCallback
    BY <2>6 DEF ReaderTestCallback
  <2>7. CASE ReaderCallbackReturns
    BY <2>7 DEF ReaderCallbackReturns
  <2>15. CASE ReaderCallbackTransfers
    BY <2>15 DEF ReaderCallbackTransfers, Reported
  <2>8. CASE ReaderNotice
    BY <2>8 DEF ReaderNotice
  <2>9. CASE ReaderStop
    <3>1. running' \in BOOLEAN
      BY <2>9, Zenon DEF ReaderStop
    <3> QED
      BY <2>9, <3>1 DEF ReaderStop
  <2>10. CASE ReaderTestFd
    BY <2>10 DEF ReaderTestFd
  <2>11. CASE ReaderClose
    BY <2>11 DEF ReaderClose, CloseSock
  <2>12. CASE ReaderClear
    BY <2>12 DEF ReaderClear
  <2>13. CASE ReaderFinal
    BY <2>13 DEF ReaderFinal
  <2>14. CASE ReaderMark
    BY <2>14 DEF ReaderMark
  <2> QED
    BY <1>5, <2>1, <2>2, <2>3, <2>4, <2>5, <2>6, <2>7, <2>8, <2>9, <2>10, <2>11, <2>12, <2>13, <2>14, <2>15 DEF ReaderStep, ReaderLoop
<1>6. CASE PeerStep
  <2>1. CASE PeerCloses
    BY <2>1 DEF PeerCloses
  <2>2. CASE PeerResets
    BY <2>2 DEF PeerResets
  <2> QED
    BY <1>6, <2>1, <2>2 DEF PeerStep
<1>7. CASE UNCHANGED vars
  BY <1>7
<1> QED
  BY <1>1, <1>2, <1>3, <1>4, <1>5, <1>6, <1>7 DEF Next, Step, Rest

(* Every step keeps the threads' invariant. *)
LEMMA ThreadStep ==
  ASSUME TypeOK, ThreadInv, [Next]_vars
  PROVE  ThreadInv'
<1> USE BoundsAssumption DEF object, owner, reader, vars, NoFd, Socks, Statuses,
      ConnStates, ConnectPcs, DisconnectPcs, OtherPcs, Looping, Noticing, Leaving,
      Established, At, Goto, Call, Return, OwnerOnly, ReaderOnly, ReaderAt, ReaderGoto,
      TypeOK, ThreadInv, LoopInv, LeftInv, NoReaderInv, InLoop, SockIs, Idling
<1>1. CASE OwnerCalls
  <2>1. CASE ConnectBegin
    BY <2>1 DEF ConnectBegin
  <2>2. CASE DisconnectBegin
    BY <2>2 DEF DisconnectBegin, DisconnectEntry
  <2>3. CASE DestroyBegin
    BY <2>3 DEF DestroyBegin
  <2>4. CASE SendBegin
    BY <2>4 DEF SendBegin
  <2>5. CASE SubscribeBegin
    BY <2>5 DEF SubscribeBegin
  <2>6. CASE ReceiveBegin
    BY <2>6 DEF ReceiveBegin
  <2> QED
    BY <1>1, <2>1, <2>2, <2>3, <2>4, <2>5, <2>6 DEF OwnerCalls
<1>2. CASE ConnectStep
  <2>1. CASE ConnectSocket
    BY <2>1 DEF ConnectSocket
  <2>2. CASE ConnectCheck
    BY <2>2 DEF ConnectCheck
  <2>3. CASE ConnectAnnounce
    BY <2>3 DEF ConnectAnnounce
  <2>4. CASE ConnectDial
    BY <2>4 DEF ConnectDial
  <2>5. CASE ConnectUndo
    BY <2>5 DEF ConnectUndo, CloseSock
  <2>6. CASE ConnectClear
    BY <2>6 DEF ConnectClear
  <2>7. CASE ConnectFail
    BY <2>7 DEF ConnectFail
  <2>8. CASE ConnectPublish
    BY <2>8 DEF ConnectPublish
  <2>9. CASE ConnectArm
    BY <2>9 DEF ConnectArm
  <2>10. CASE ConnectSpawn
    BY <2>10 DEF ConnectSpawn
  <2>11. CASE ConnectSpawnFails
    BY <2>11 DEF ConnectSpawnFails
  <2> QED
    BY <1>2, <2>1, <2>2, <2>3, <2>4, <2>5, <2>6, <2>7, <2>8, <2>9, <2>10, <2>11 DEF ConnectStep
<1>3. CASE DisconnectStep
  <2>1. CASE DisconnectStop
    BY <2>1 DEF DisconnectStop
  <2>2. CASE DisconnectJoin
    BY <2>2 DEF DisconnectJoin
  <2>3. CASE DisconnectClose
    BY <2>3 DEF DisconnectClose, CloseSock
  <2>4. CASE DisconnectClear
    BY <2>4 DEF DisconnectClear
  <2>5. CASE DisconnectDone
    BY <2>5 DEF DisconnectDone
  <2>6. CASE Free
    BY <2>6 DEF Free
  <2> QED
    BY <1>3, <2>1, <2>2, <2>3, <2>4, <2>5, <2>6 DEF DisconnectStep
<1>4. CASE TransferStep
  <2>1. CASE SendCheckFd
    BY <2>1 DEF SendCheckFd
  <2>2. CASE SendWrite
    BY <2>2 DEF SendWrite
  <2>3. CASE SubscribeEnd
    BY <2>3 DEF SubscribeEnd
  <2>4. CASE ReceiveByte
    BY <2>4 DEF ReceiveByte, Reported
  <2> QED
    BY <1>4, <2>1, <2>2, <2>3, <2>4 DEF TransferStep
<1>5. CASE ReaderStep
  <2>1. CASE ReaderTest
    BY <2>1 DEF ReaderTest
  <2>2. CASE ReaderEnter
    BY <2>2 DEF ReaderEnter
  <2>3. CASE ReaderData
    BY <2>3 DEF ReaderData
  <2>4. CASE ReaderEof
    BY <2>4 DEF ReaderEof
  <2>5. CASE ReaderError
    BY <2>5 DEF ReaderError, Reported
  <2>6. CASE ReaderTestCallback
    BY <2>6 DEF ReaderTestCallback
  <2>7. CASE ReaderCallbackReturns
    BY <2>7 DEF ReaderCallbackReturns
  <2>15. CASE ReaderCallbackTransfers
    BY <2>15 DEF ReaderCallbackTransfers, Reported
  <2>8. CASE ReaderNotice
    BY <2>8 DEF ReaderNotice
  <2>9. CASE ReaderStop
    BY <2>9 DEF ReaderStop
  <2>10. CASE ReaderTestFd
    BY <2>10 DEF ReaderTestFd
  <2>11. CASE ReaderClose
    BY <2>11 DEF ReaderClose, CloseSock
  <2>12. CASE ReaderClear
    BY <2>12 DEF ReaderClear
  <2>13. CASE ReaderFinal
    BY <2>13 DEF ReaderFinal
  <2>14. CASE ReaderMark
    BY <2>14 DEF ReaderMark
  <2> QED
    BY <1>5, <2>1, <2>2, <2>3, <2>4, <2>5, <2>6, <2>7, <2>8, <2>9, <2>10, <2>11, <2>12, <2>13, <2>14, <2>15 DEF ReaderStep, ReaderLoop
<1>6. CASE PeerStep
  <2>1. CASE PeerCloses
    BY <2>1 DEF PeerCloses
  <2>2. CASE PeerResets
    BY <2>2 DEF PeerResets
  <2> QED
    BY <1>6, <2>1, <2>2 DEF PeerStep
<1>7. CASE UNCHANGED vars
  BY <1>7
<1> QED
  BY <1>1, <1>2, <1>3, <1>4, <1>5, <1>6, <1>7 DEF Next, Step, Rest

(* Every step keeps the sockets' invariant. *)
LEMMA SocketStep ==
  ASSUME TypeOK, ThreadInv, SocketInv, [Next]_vars
  PROVE  SocketInv'
<1> USE BoundsAssumption DEF object, owner, reader, vars, NoFd, Socks, Statuses,
      ConnStates, ConnectPcs, DisconnectPcs, OtherPcs, Looping, Noticing, Leaving,
      Established, At, Goto, Call, Return, OwnerOnly, ReaderOnly, ReaderAt, ReaderGoto,
      TypeOK, ThreadInv, LoopInv, LeftInv, NoReaderInv, InLoop, SockIs, Idling,
      SocketInv, OpenSocks
<1>1. CASE OwnerCalls
  <2>1. CASE ConnectBegin
    BY <2>1 DEF ConnectBegin
  <2>2. CASE DisconnectBegin
    BY <2>2 DEF DisconnectBegin, DisconnectEntry
  <2>3. CASE DestroyBegin
    BY <2>3 DEF DestroyBegin
  <2>4. CASE SendBegin
    BY <2>4 DEF SendBegin
  <2>5. CASE SubscribeBegin
    BY <2>5 DEF SubscribeBegin
  <2>6. CASE ReceiveBegin
    BY <2>6 DEF ReceiveBegin
  <2> QED
    BY <1>1, <2>1, <2>2, <2>3, <2>4, <2>5, <2>6 DEF OwnerCalls
<1>2. CASE ConnectStep
  <2>1. CASE ConnectSocket
    BY <2>1 DEF ConnectSocket
  <2>2. CASE ConnectCheck
    BY <2>2 DEF ConnectCheck
  <2>3. CASE ConnectAnnounce
    BY <2>3 DEF ConnectAnnounce
  <2>4. CASE ConnectDial
    BY <2>4 DEF ConnectDial
  <2>5. CASE ConnectUndo
    BY <2>5 DEF ConnectUndo, CloseSock
  <2>6. CASE ConnectClear
    BY <2>6 DEF ConnectClear
  <2>7. CASE ConnectFail
    BY <2>7 DEF ConnectFail
  <2>8. CASE ConnectPublish
    BY <2>8 DEF ConnectPublish
  <2>9. CASE ConnectArm
    BY <2>9 DEF ConnectArm
  <2>10. CASE ConnectSpawn
    BY <2>10 DEF ConnectSpawn
  <2>11. CASE ConnectSpawnFails
    BY <2>11 DEF ConnectSpawnFails
  <2> QED
    BY <1>2, <2>1, <2>2, <2>3, <2>4, <2>5, <2>6, <2>7, <2>8, <2>9, <2>10, <2>11 DEF ConnectStep
<1>3. CASE DisconnectStep
  <2>1. CASE DisconnectStop
    BY <2>1 DEF DisconnectStop
  <2>2. CASE DisconnectJoin
    BY <2>2 DEF DisconnectJoin
  <2>3. CASE DisconnectClose
    BY <2>3 DEF DisconnectClose, CloseSock
  <2>4. CASE DisconnectClear
    BY <2>4 DEF DisconnectClear
  <2>5. CASE DisconnectDone
    BY <2>5 DEF DisconnectDone
  <2>6. CASE Free
    BY <2>6 DEF Free
  <2> QED
    BY <1>3, <2>1, <2>2, <2>3, <2>4, <2>5, <2>6 DEF DisconnectStep
<1>4. CASE TransferStep
  <2>1. CASE SendCheckFd
    BY <2>1 DEF SendCheckFd
  <2>2. CASE SendWrite
    BY <2>2 DEF SendWrite
  <2>3. CASE SubscribeEnd
    BY <2>3 DEF SubscribeEnd
  <2>4. CASE ReceiveByte
    BY <2>4 DEF ReceiveByte, Reported
  <2> QED
    BY <1>4, <2>1, <2>2, <2>3, <2>4 DEF TransferStep
<1>5. CASE ReaderStep
  <2>1. CASE ReaderTest
    BY <2>1 DEF ReaderTest
  <2>2. CASE ReaderEnter
    BY <2>2 DEF ReaderEnter
  <2>3. CASE ReaderData
    BY <2>3 DEF ReaderData
  <2>4. CASE ReaderEof
    BY <2>4 DEF ReaderEof
  <2>5. CASE ReaderError
    BY <2>5 DEF ReaderError, Reported
  <2>6. CASE ReaderTestCallback
    BY <2>6 DEF ReaderTestCallback
  <2>7. CASE ReaderCallbackReturns
    BY <2>7 DEF ReaderCallbackReturns
  <2>15. CASE ReaderCallbackTransfers
    BY <2>15 DEF ReaderCallbackTransfers, Reported
  <2>8. CASE ReaderNotice
    BY <2>8 DEF ReaderNotice
  <2>9. CASE ReaderStop
    BY <2>9 DEF ReaderStop
  <2>10. CASE ReaderTestFd
    BY <2>10 DEF ReaderTestFd
  <2>11. CASE ReaderClose
    BY <2>11 DEF ReaderClose, CloseSock
  <2>12. CASE ReaderClear
    BY <2>12 DEF ReaderClear
  <2>13. CASE ReaderFinal
    BY <2>13 DEF ReaderFinal
  <2>14. CASE ReaderMark
    BY <2>14 DEF ReaderMark
  <2> QED
    BY <1>5, <2>1, <2>2, <2>3, <2>4, <2>5, <2>6, <2>7, <2>8, <2>9, <2>10, <2>11, <2>12, <2>13, <2>14, <2>15 DEF ReaderStep, ReaderLoop
<1>6. CASE PeerStep
  <2>1. CASE PeerCloses
    BY <2>1 DEF PeerCloses
  <2>2. CASE PeerResets
    BY <2>2 DEF PeerResets
  <2> QED
    BY <1>6, <2>1, <2>2 DEF PeerStep
<1>7. CASE UNCHANGED vars
  BY <1>7
<1> QED
  BY <1>1, <1>2, <1>3, <1>4, <1>5, <1>6, <1>7 DEF Next, Step, Rest

-----------------------------------------------------------------------------
(* The constructor gives every member a value of its type.                 *)
LEMMA InitTypeOK == Init => TypeOK
<1> SUFFICES ASSUME Init PROVE TypeOK
  OBVIOUS
<1>1. /\ addrOk \in BOOLEAN /\ running \in BOOLEAN /\ joinable \in BOOLEAN
      /\ dying \in BOOLEAN /\ redialed \in BOOLEAN /\ misclosed \in BOOLEAN
  BY Zenon DEF Init
<1>2. /\ sockfd \in Socks \cup {NoFd} /\ rfd \in Socks \cup {NoFd}
      /\ conn \in [Socks -> ConnStates] /\ left \in 0 .. FrameUnits
  BY BoundsAssumption DEF Init, ConnStates
<1>3. /\ status \in Statuses /\ opc \in OtherPcs /\ ret = "none"
      /\ rpc = "none" /\ callback = "none" /\ proc = "running"
  BY DEF Init, Statuses, OtherPcs
<1> QED
  BY <1>1, <1>2, <1>3 DEF TypeOK

(* The type invariant, for any bounds. *)
THEOREM TypeCorrect == Spec => []TypeOK
<1>1. Init => TypeOK
  BY InitTypeOK
<1> QED
  BY <1>1, TypeStep, PTL DEF Spec

(* The inductive invariant holds in every reachable state.                 *)
THEOREM Invariance == Spec => []IInv
<1>1. Init => IInv
  BY InitTypeOK
  DEF Init, IInv, ThreadInv, LoopInv, LeftInv, NoReaderInv, SocketInv, InLoop,
      Idling, OpenSocks, NoFd, Socks, Statuses, ConnStates, OtherPcs, Established,
      Looping, Noticing, Leaving, ConnectPcs, DisconnectPcs
<1>2. IInv /\ [Next]_vars => IInv'
  BY TypeStep, ThreadStep, SocketStep DEF IInv
<1> QED
  BY <1>1, <1>2, PTL DEF Spec

(* A transport that says Connected is connected, and is being watched. *)
THEOREM ConnectedMeansLive == Spec => []ConnectedIsLive
<1>1. IInv => ConnectedIsLive
  <2> SUFFICES ASSUME IInv, opc = "idle", status = "Connected",
                      ~(redialed /\ SpawnMayFail)
               PROVE  /\ SockIs(Established)
                      /\ \/ joinable /\ running /\ InLoop
                         \/ ~joinable /\ SpawnMayFail
    BY DEF ConnectedIsLive, SockIs, InLoop
  <2> USE DEF IInv, ThreadInv
  <2>1. CASE InLoop
    BY <2>1 DEF LoopInv, InLoop, Looping, Noticing
  <2>2. CASE rpc = "none"
    BY <2>2 DEF NoReaderInv, Idling
  <2>3. rpc \notin Leaving
    BY DEF LeftInv, ConnectPcs
  <2> QED
    BY <2>1, <2>2, <2>3 DEF TypeOK, InLoop
<1> QED
  BY <1>1, Invariance, PTL

(* The reader's recv is never on a closed or replaced descriptor. *)
THEOREM ReaderReadsItsSocket == Spec => []ReaderOwnsItsSocket
<1>1. IInv => ReaderOwnsItsSocket
  BY DEF IInv, ThreadInv, LoopInv, InLoop, Looping, SockIs, Established, ReaderOwnsItsSocket
<1> QED
  BY <1>1, Invariance, PTL

(* No descriptor is closed twice and none is forgotten. *)
THEOREM SocketsClosedOnce == Spec => []ClosedExactlyOnce
<1>1. IInv => ClosedExactlyOnce
  BY DEF IInv, SocketInv, ClosedExactlyOnce
<1> QED
  BY <1>1, Invariance, PTL

(* A destructor that returned left no thread and no open socket. *)
THEOREM DestructionIsClean == Spec => []DestroyedClean
<1>1. IInv => DestroyedClean
  <2> SUFFICES ASSUME IInv, opc = "gone"
               PROVE  rpc = "none" /\ ~joinable /\ (redialed \/ OpenSocks = {})
    BY DEF DestroyedClean
  <2> USE DEF IInv, ThreadInv
  <2>1. rpc = "none" /\ ~joinable
    BY DEF TypeOK, LoopInv, LeftInv, InLoop
  <2>2. sockfd = NoFd
    BY <2>1 DEF NoReaderInv, Idling
  <2>3. redialed \/ OpenSocks = {}
    BY <2>2 DEF SocketInv, OpenSocks, NoFd, Socks
  <2> QED
    BY <2>1, <2>3
<1> QED
  BY <1>1, Invariance, PTL

-----------------------------------------------------------------------------
(* A careful application is never inside subscribe() while the reader      *)
(* loops.                                                                  *)
CallbackInv ==
  /\ opc = "swap" => SubscribeWhileConnected \/ ~InLoop
  /\ CallbackNeverTorn

(* Every step keeps the callback's invariant. *)
LEMMA CallbackStep ==
  ASSUME TypeOK, ThreadInv, CallbackInv, [Next]_vars
  PROVE  CallbackInv'
<1> USE BoundsAssumption DEF object, owner, reader, vars, NoFd, Socks, Statuses,
      ConnStates, ConnectPcs, DisconnectPcs, OtherPcs, Looping, Noticing, Leaving,
      Established, At, Goto, Call, Return, OwnerOnly, ReaderOnly, ReaderAt, ReaderGoto,
      TypeOK, ThreadInv, LoopInv, InLoop, CallbackInv, CallbackNeverTorn
<1>1. CASE OwnerCalls
  <2>1. CASE ConnectBegin
    BY <2>1 DEF ConnectBegin
  <2>2. CASE DisconnectBegin
    BY <2>2 DEF DisconnectBegin, DisconnectEntry
  <2>3. CASE DestroyBegin
    BY <2>3 DEF DestroyBegin
  <2>4. CASE SendBegin
    BY <2>4 DEF SendBegin
  <2>5. CASE SubscribeBegin
    BY <2>5 DEF SubscribeBegin
  <2>6. CASE ReceiveBegin
    BY <2>6 DEF ReceiveBegin
  <2> QED
    BY <1>1, <2>1, <2>2, <2>3, <2>4, <2>5, <2>6 DEF OwnerCalls
<1>2. CASE ConnectStep
  <2>1. CASE ConnectSocket
    BY <2>1 DEF ConnectSocket
  <2>2. CASE ConnectCheck
    BY <2>2 DEF ConnectCheck
  <2>3. CASE ConnectAnnounce
    BY <2>3 DEF ConnectAnnounce
  <2>4. CASE ConnectDial
    BY <2>4 DEF ConnectDial
  <2>5. CASE ConnectUndo
    BY <2>5 DEF ConnectUndo, CloseSock
  <2>6. CASE ConnectClear
    BY <2>6 DEF ConnectClear
  <2>7. CASE ConnectFail
    BY <2>7 DEF ConnectFail
  <2>8. CASE ConnectPublish
    BY <2>8 DEF ConnectPublish
  <2>9. CASE ConnectArm
    BY <2>9 DEF ConnectArm
  <2>10. CASE ConnectSpawn
    BY <2>10 DEF ConnectSpawn
  <2>11. CASE ConnectSpawnFails
    BY <2>11 DEF ConnectSpawnFails
  <2> QED
    BY <1>2, <2>1, <2>2, <2>3, <2>4, <2>5, <2>6, <2>7, <2>8, <2>9, <2>10, <2>11 DEF ConnectStep
<1>3. CASE DisconnectStep
  <2>1. CASE DisconnectStop
    BY <2>1 DEF DisconnectStop
  <2>2. CASE DisconnectJoin
    BY <2>2 DEF DisconnectJoin
  <2>3. CASE DisconnectClose
    BY <2>3 DEF DisconnectClose, CloseSock
  <2>4. CASE DisconnectClear
    BY <2>4 DEF DisconnectClear
  <2>5. CASE DisconnectDone
    BY <2>5 DEF DisconnectDone
  <2>6. CASE Free
    BY <2>6 DEF Free
  <2> QED
    BY <1>3, <2>1, <2>2, <2>3, <2>4, <2>5, <2>6 DEF DisconnectStep
<1>4. CASE TransferStep
  <2>1. CASE SendCheckFd
    BY <2>1 DEF SendCheckFd
  <2>2. CASE SendWrite
    BY <2>2 DEF SendWrite
  <2>3. CASE SubscribeEnd
    BY <2>3 DEF SubscribeEnd
  <2>4. CASE ReceiveByte
    BY <2>4 DEF ReceiveByte, Reported
  <2> QED
    BY <1>4, <2>1, <2>2, <2>3, <2>4 DEF TransferStep
<1>5. CASE ReaderStep
  <2>1. CASE ReaderTest
    BY <2>1 DEF ReaderTest
  <2>2. CASE ReaderEnter
    BY <2>2 DEF ReaderEnter
  <2>3. CASE ReaderData
    BY <2>3 DEF ReaderData
  <2>4. CASE ReaderEof
    BY <2>4 DEF ReaderEof
  <2>5. CASE ReaderError
    BY <2>5 DEF ReaderError, Reported
  <2>6. CASE ReaderTestCallback
    BY <2>6 DEF ReaderTestCallback
  <2>7. CASE ReaderCallbackReturns
    BY <2>7 DEF ReaderCallbackReturns
  <2>15. CASE ReaderCallbackTransfers
    BY <2>15 DEF ReaderCallbackTransfers, Reported
  <2>8. CASE ReaderNotice
    BY <2>8 DEF ReaderNotice
  <2>9. CASE ReaderStop
    BY <2>9 DEF ReaderStop
  <2>10. CASE ReaderTestFd
    BY <2>10 DEF ReaderTestFd
  <2>11. CASE ReaderClose
    BY <2>11 DEF ReaderClose, CloseSock
  <2>12. CASE ReaderClear
    BY <2>12 DEF ReaderClear
  <2>13. CASE ReaderFinal
    BY <2>13 DEF ReaderFinal
  <2>14. CASE ReaderMark
    BY <2>14 DEF ReaderMark
  <2> QED
    BY <1>5, <2>1, <2>2, <2>3, <2>4, <2>5, <2>6, <2>7, <2>8, <2>9, <2>10, <2>11, <2>12, <2>13, <2>14, <2>15 DEF ReaderStep, ReaderLoop
<1>6. CASE PeerStep
  <2>1. CASE PeerCloses
    BY <2>1 DEF PeerCloses
  <2>2. CASE PeerResets
    BY <2>2 DEF PeerResets
  <2> QED
    BY <1>6, <2>1, <2>2 DEF PeerStep
<1>7. CASE UNCHANGED vars
  BY <1>7
<1> QED
  BY <1>1, <1>2, <1>3, <1>4, <1>5, <1>6, <1>7 DEF Next, Step, Rest

(* Subscribing only while not Connected is enough to rule the race out. *)
THEOREM CallbackIsSafe == Spec => []CallbackNeverTorn
<1>1. Init => CallbackInv
  BY DEF Init, CallbackInv, CallbackNeverTorn
<1>2. TypeOK /\ ThreadInv /\ CallbackInv /\ [Next]_vars => CallbackInv'
  BY CallbackStep
<1>3. IInv => TypeOK /\ ThreadInv
  BY DEF IInv
<1>4. CallbackInv => CallbackNeverTorn
  BY DEF CallbackInv
<1> QED
  BY <1>1, <1>2, <1>3, <1>4, Invariance, PTL DEF Spec

-----------------------------------------------------------------------------
(* Every step is a step of the session, or leaves its phase alone. *)
LEMMA SessionStep ==
  ASSUME ~SpawnMayFail, IInv, [Next]_vars
  PROVE  [Session!Next]_session
<1> USE BoundsAssumption DEF object, owner, reader, vars, NoFd, Socks, Statuses,
      ConnStates, ConnectPcs, DisconnectPcs, OtherPcs, Looping, Noticing, Leaving,
      Established, At, Goto, Call, Return, OwnerOnly, ReaderOnly, ReaderAt, ReaderGoto,
      TypeOK, IInv, ThreadInv, LoopInv, LeftInv, NoReaderInv, InLoop, SockIs,
      Idling, session, Session!Next, Session!Step, Session!Open, Session!Close,
      Session!Closed, Session!Lose, Session!Release, Session!Abort
<1>1. CASE OwnerCalls
  <2>1. CASE ConnectBegin
    BY <2>1 DEF ConnectBegin
  <2>2. CASE DisconnectBegin
    BY <2>2 DEF DisconnectBegin, DisconnectEntry
  <2>3. CASE DestroyBegin
    BY <2>3 DEF DestroyBegin
  <2>4. CASE SendBegin
    BY <2>4 DEF SendBegin
  <2>5. CASE SubscribeBegin
    BY <2>5 DEF SubscribeBegin
  <2>6. CASE ReceiveBegin
    BY <2>6 DEF ReceiveBegin
  <2> QED
    BY <1>1, <2>1, <2>2, <2>3, <2>4, <2>5, <2>6 DEF OwnerCalls
<1>2. CASE ConnectStep
  <2>1. CASE ConnectSocket
    BY <2>1 DEF ConnectSocket
  <2>2. CASE ConnectCheck
    BY <2>2 DEF ConnectCheck
  <2>3. CASE ConnectAnnounce
    BY <2>3 DEF ConnectAnnounce
  <2>4. CASE ConnectDial
    BY <2>4 DEF ConnectDial
  <2>5. CASE ConnectUndo
    BY <2>5 DEF ConnectUndo, CloseSock
  <2>6. CASE ConnectClear
    BY <2>6 DEF ConnectClear
  <2>7. CASE ConnectFail
    BY <2>7 DEF ConnectFail
  <2>8. CASE ConnectPublish
    BY <2>8 DEF ConnectPublish
  <2>9. CASE ConnectArm
    BY <2>9 DEF ConnectArm
  <2>10. CASE ConnectSpawn
    BY <2>10 DEF ConnectSpawn
  <2>11. CASE ConnectSpawnFails
    BY <2>11 DEF ConnectSpawnFails
  <2> QED
    BY <1>2, <2>1, <2>2, <2>3, <2>4, <2>5, <2>6, <2>7, <2>8, <2>9, <2>10, <2>11 DEF ConnectStep
<1>3. CASE DisconnectStep
  <2>1. CASE DisconnectStop
    BY <2>1 DEF DisconnectStop
  <2>2. CASE DisconnectJoin
    BY <2>2 DEF DisconnectJoin
  <2>3. CASE DisconnectClose
    BY <2>3 DEF DisconnectClose, CloseSock
  <2>4. CASE DisconnectClear
    BY <2>4 DEF DisconnectClear
  <2>5. CASE DisconnectDone
    BY <2>5 DEF DisconnectDone
  <2>6. CASE Free
    BY <2>6 DEF Free
  <2> QED
    BY <1>3, <2>1, <2>2, <2>3, <2>4, <2>5, <2>6 DEF DisconnectStep
<1>4. CASE TransferStep
  <2>1. CASE SendCheckFd
    BY <2>1 DEF SendCheckFd
  <2>2. CASE SendWrite
    BY <2>2 DEF SendWrite
  <2>3. CASE SubscribeEnd
    BY <2>3 DEF SubscribeEnd
  <2>4. CASE ReceiveByte
    BY <2>4, SMTT(30) DEF ReceiveByte, Reported
  <2> QED
    BY <1>4, <2>1, <2>2, <2>3, <2>4 DEF TransferStep
<1>5. CASE ReaderStep
  <2>1. CASE ReaderTest
    BY <2>1 DEF ReaderTest
  <2>2. CASE ReaderEnter
    BY <2>2 DEF ReaderEnter
  <2>3. CASE ReaderData
    BY <2>3 DEF ReaderData
  <2>4. CASE ReaderEof
    BY <2>4 DEF ReaderEof
  <2>5. CASE ReaderError
    BY <2>5 DEF ReaderError, Reported
  <2>6. CASE ReaderTestCallback
    BY <2>6 DEF ReaderTestCallback
  <2>7. CASE ReaderCallbackReturns
    BY <2>7 DEF ReaderCallbackReturns
  <2>15. CASE ReaderCallbackTransfers
    BY <2>15 DEF ReaderCallbackTransfers, Reported
  <2>8. CASE ReaderNotice
    BY <2>8 DEF ReaderNotice
  <2>9. CASE ReaderStop
    BY <2>9 DEF ReaderStop
  <2>10. CASE ReaderTestFd
    BY <2>10 DEF ReaderTestFd
  <2>11. CASE ReaderClose
    BY <2>11 DEF ReaderClose, CloseSock
  <2>12. CASE ReaderClear
    BY <2>12 DEF ReaderClear
  <2>13. CASE ReaderFinal
    BY <2>13 DEF ReaderFinal
  <2>14. CASE ReaderMark
    BY <2>14 DEF ReaderMark
  <2> QED
    BY <1>5, <2>1, <2>2, <2>3, <2>4, <2>5, <2>6, <2>7, <2>8, <2>9, <2>10, <2>11, <2>12, <2>13, <2>14, <2>15 DEF ReaderStep, ReaderLoop
<1>6. CASE PeerStep
  <2>1. CASE PeerCloses
    BY <2>1 DEF PeerCloses
  <2>2. CASE PeerResets
    BY <2>2 DEF PeerResets
  <2> QED
    BY <1>6, <2>1, <2>2 DEF PeerStep
<1>7. CASE UNCHANGED vars
  BY <1>7
<1> QED
  BY <1>1, <1>2, <1>3, <1>4, <1>5, <1>6, <1>7 DEF Next, Step, Rest

(* The transport implements the session: a lost one stays lost. *)
THEOREM SessionRefined ==
  ASSUME ~SpawnMayFail
  PROVE  Spec => ImplementsSession
<1>1. Init => Session!Init
  BY DEF Init, Session!Init, session
<1>2. IInv /\ [Next]_vars => [Session!Next]_session
  BY SessionStep
<1> QED
  BY <1>1, <1>2, Invariance, PTL DEF Spec, ImplementsSession, Session!Spec
=============================================================================
