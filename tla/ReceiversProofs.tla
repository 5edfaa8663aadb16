--------------------------- MODULE ReceiversProofs ---------------------------
(***************************************************************************)
(* Proofs about Receivers, for any number of receivers and sockets.  What  *)
(* is proved of the transport holds under its receivers as well, for every *)
(* step of the composition is one of the transport or none.  On top of its *)
(* invariant, that of the receivers: while the reader loops, the callback  *)
(* points to a receiver that exists, and nobody touches that.              *)
(***************************************************************************)
EXTENDS Receivers, TcpTransportProofs

(* The steps of the transport that have no part in the receivers.          *)
Elsewhere ==
  \/ ConnectStep \/ DisconnectStep \/ ReaderLoop \/ DestroyBegin
  \/ DisconnectBegin \/ SendBegin \/ ReceiveBegin
  \/ SendCheckFd \/ SendWrite \/ ReceiveByte \/ PeerStep

(* The reader loops, or connect() is about to start it.                    *)
Served == InLoop \/ opc \in ConnectPcs

(* What they leave alone.                                                  *)
Spared ==
  /\ callback' = callback /\ (rpc = "incb" <=> rpc' = "incb")
  /\ opc = "swap" <=> opc' = "swap"

LEMMA ElsewhereSpares ==
  ASSUME IInv, Elsewhere
  PROVE  Spared /\ (Served' => Served)
<1> USE BoundsAssumption DEF object, owner, reader, vars, NoFd,
      ConnectPcs, DisconnectPcs, OtherPcs, Looping, Noticing, Leaving,
      At, Goto, Call, Return, OwnerOnly, ReaderOnly, ReaderAt, ReaderGoto,
      TypeOK, IInv, ThreadInv, LoopInv, InLoop, Served, Spared
<1>1. CASE ConnectStep
  <2>1. CASE ConnectSocket
    BY <2>1 DEF ConnectSocket
  <2>2. CASE ConnectCheck
    BY <2>2 DEF ConnectCheck
  <2>3. CASE ConnectAnnounce
    BY <2>3 DEF ConnectAnnounce
  <2>4. CASE ConnectDial
    BY <2>4 DEF ConnectDial
  <2>5. CASE ConnectUndo
    BY <2>5 DEF ConnectUndo, CloseSock
  <2>6. CASE ConnectClear
    BY <2>6 DEF ConnectClear
  <2>7. CASE ConnectFail
    BY <2>7 DEF ConnectFail
  <2>8. CASE ConnectPublish
    BY <2>8 DEF ConnectPublish
  <2>9. CASE ConnectArm
    BY <2>9 DEF ConnectArm
  <2>10. CASE ConnectSpawn
    BY <2>10 DEF ConnectSpawn
  <2>11. CASE ConnectSpawnFails
    BY <2>11 DEF ConnectSpawnFails
  <2> QED
    BY <1>1, <2>1, <2>2, <2>3, <2>4, <2>5, <2>6, <2>7, <2>8, <2>9, <2>10, <2>11 DEF ConnectStep
<1>2. CASE DisconnectStep
  <2>1. CASE DisconnectStop
    BY <2>1 DEF DisconnectStop
  <2>2. CASE DisconnectJoin
    BY <2>2 DEF DisconnectJoin
  <2>3. CASE DisconnectClose
    BY <2>3 DEF DisconnectClose, CloseSock
  <2>4. CASE DisconnectClear
    BY <2>4 DEF DisconnectClear
  <2>5. CASE DisconnectDone
    BY <2>5 DEF DisconnectDone
  <2>6. CASE Free
    BY <2>6 DEF Free
  <2> QED
    BY <1>2, <2>1, <2>2, <2>3, <2>4, <2>5, <2>6 DEF DisconnectStep
<1>3. CASE ReaderLoop
  <2>1. CASE ReaderTest
    BY <2>1 DEF ReaderTest
  <2>2. CASE ReaderEnter
    BY <2>2 DEF ReaderEnter
  <2>3. CASE ReaderData
    BY <2>3 DEF ReaderData
  <2>4. CASE ReaderEof
    BY <2>4 DEF ReaderEof
  <2>5. CASE ReaderError
    BY <2>5 DEF ReaderError
  <2>6. CASE ReaderNotice
    BY <2>6 DEF ReaderNotice
  <2>7. CASE ReaderStop
    BY <2>7 DEF ReaderStop
  <2>8. CASE ReaderTestFd
    BY <2>8 DEF ReaderTestFd
  <2>9. CASE ReaderClose
    BY <2>9 DEF ReaderClose, CloseSock
  <2>10. CASE ReaderClear
    BY <2>10 DEF ReaderClear
  <2>11. CASE ReaderFinal
    BY <2>11 DEF ReaderFinal
  <2>12. CASE ReaderMark
    BY <2>12 DEF ReaderMark
  <2> QED
    BY <1>3, <2>1, <2>2, <2>3, <2>4, <2>5, <2>6, <2>7, <2>8, <2>9, <2>10, <2>11, <2>12 DEF ReaderLoop
<1>5. CASE DestroyBegin
  BY <1>5 DEF DestroyBegin
<1>6. CASE DisconnectBegin
  BY <1>6 DEF DisconnectBegin, DisconnectEntry
<1>7. CASE SendBegin
  BY <1>7 DEF SendBegin
<1>8. CASE ReceiveBegin
  BY <1>8 DEF ReceiveBegin
<1>9. CASE SendCheckFd
  BY <1>9 DEF SendCheckFd
<1>10. CASE SendWrite
  BY <1>10 DEF SendWrite
<1>11. CASE ReceiveByte
  BY <1>11 DEF ReceiveByte
<1>12. CASE PeerStep
  BY <1>12 DEF PeerStep, PeerCloses, PeerResets
<1> QED
  BY <1>1, <1>2, <1>3, <1>5, <1>6, <1>7, <1>8, <1>9, <1>10, <1>11, <1>12 DEF Elsewhere

-----------------------------------------------------------------------------
(* A step of the composition is a step of the transport, or leaves it be.  *)
LEMMA SysStepIsAStep == SysNext => [Next]_vars
<1>1. SysStep => [Next]_vars
  <2> SUFFICES ASSUME SysStep  PROVE [Next]_vars
    OBVIOUS
  <2>1. proc = "running"
    BY DEF SysStep
  <2>2. CASE SysConnectBegin \/ SysDestroyBegin
    BY <2>1, <2>2 DEF SysConnectBegin, SysDestroyBegin, OwnerCalls, Step, Next
  <2>3. CASE ListenerStep
    BY <2>1, <2>3
       DEF ListenerStep, ConstructBegin, SetHandler, Destroy, ConstructEnd, OwnerCalls,
           TransferStep, Step, Next
  <2>4. CASE SysConnect \/ SysDisconnect \/ Undisturbed
    BY <2>1, <2>4
       DEF SysConnect, SysDisconnect, Undisturbed, OwnerCalls, TransferStep, Step, Next
  <2>5. CASE SysReader
    BY <2>1, <2>5
       DEF SysReader, EnterCallback, DispatchIgnores, DispatchAsks, DispatchSends,
           DispatchReceives, DispatchReadsOn, DispatchNotifies, DispatchEnds,
           LeaveCallback, ReaderStep,
           Step, Next
  <2> QED
    BY <2>2, <2>3, <2>4, <2>5 DEF SysStep
<1>2. SysRest => [Next]_vars
  BY DEF SysRest, sysvars
<1> QED
  BY <1>1, <1>2 DEF SysNext

(***************************************************************************)
(* With its receivers the transport is still the transport: dispatch() on  *)
(* the reader thread does nothing that a callback might not do.            *)
(***************************************************************************)
THEOREM TransportRefined == SysSpec => Spec
<1>1. SysInit => Init
  BY DEF SysInit
<1>2. [SysNext]_sysvars => [Next]_vars
  BY SysStepIsAStep DEF sysvars
<1> QED
  BY <1>1, <1>2, PTL DEF SysSpec, Spec

(* So its invariants hold, and a careful application is never inside       *)
(* subscribe() while the reader loops.                                     *)
LEMMA TransportInvariance == SysSpec => [](IInv /\ CallbackInv)
<1>1. Init => CallbackInv
  BY DEF Init, CallbackInv, CallbackNeverTorn
<1>2. TypeOK /\ ThreadInv /\ CallbackInv /\ [Next]_vars => CallbackInv'
  BY CallbackStep
<1>3. IInv => TypeOK /\ ThreadInv
  BY DEF IInv
<1> QED
  BY <1>1, <1>2, <1>3, Invariance, TransportRefined, PTL DEF Spec

(* The reader calls no function that is being assigned.                    *)
THEOREM CallbackIsSafeUnderReceivers == SysSpec => []CallbackNeverTorn
  BY CallbackIsSafe, TransportRefined, PTL

(* What the receivers do on the reader thread leaves the session what it   *)
(* is: also under them a lost one stays lost.                              *)
THEOREM SessionRefinedUnderReceivers ==
  ASSUME ~SpawnMayFail
  PROVE  SysSpec => ImplementsSession
BY SessionRefined, TransportRefined, PTL

-----------------------------------------------------------------------------
(* What the transport's callback points to is there.                       *)
Subscribed ==
  /\ building # Nobody <=> opc = "swap"
  /\ callback = "set" => target # Nobody

(***************************************************************************)
(* Of a careful application: while the reader loops or is about to, the    *)
(* callback points to a receiver that exists, the reader is in none but    *)
(* that, and a handler it has tested is there until it has called it.      *)
(***************************************************************************)
Careful ==
  ~SubscribeWhileConnected =>
    /\ Served => target \in alive \cup {Nobody}
    /\ rpc = "incb" => serving = target
    /\ dpc \in {"send", "receive", "more", "notify"} => handler[serving]
    /\ ~misled

SysInv == SysTypeOK /\ Subscribed /\ Careful

(* What is known of the transport.                                         *)
Known == IInv /\ CallbackInv

LEMMA SysInitInv == SysInit => SysInv
<1> SUFFICES ASSUME SysInit  PROVE SysInv
  OBVIOUS
<1>1. /\ alive = {} /\ target = Nobody /\ building = Nobody
      /\ handler = [l \in Listeners |-> FALSE]
      /\ serving = Nobody /\ dpc = "none" /\ misled = FALSE
      /\ opc = "idle" /\ rpc = "none" /\ callback = "none"
  BY DEF SysInit, Init
<1> QED
  BY <1>1 DEF SysInv, SysTypeOK, Subscribed, Careful, Served, InLoop, Looping, Noticing, ConnectPcs

(* The reader is not in its loop while get_status() is not Connected.      *)
LEMMA QuietMeansNoLoop ==
  ASSUME IInv, ~SubscribeWhileConnected, Quiet
  PROVE  ~InLoop /\ ~Served
  BY DEF Quiet, IInv, ThreadInv, LoopInv, Served, ConnectPcs

(* Steps that leave the receivers alone. *)
LEMMA ElsewhereKeeps ==
  ASSUME SysInv, Spared, UNCHANGED <<listening, dispatching>>,
         Served' => Served \/ SubscribeWhileConnected \/ target \in alive \cup {Nobody}
  PROVE  SysInv'
<1>1. Spared
  OBVIOUS
<1>2. UNCHANGED <<alive, target, building, handler, serving, dpc, misled>>
  BY DEF listening, dispatching
<1>3. SysTypeOK'
  BY <1>1, <1>2 DEF SysInv, SysTypeOK, Spared
<1>4. Subscribed'
  BY <1>1, <1>2 DEF SysInv, Subscribed, Spared
<1>5. Careful'
  BY <1>1, <1>2 DEF SysInv, Careful, Spared
<1> QED
  BY <1>3, <1>4, <1>5 DEF SysInv

LEMMA ListenerKeeps ==
  ASSUME Known, SysInv, ListenerStep
  PROVE  SysInv'
<1> USE ListenersAssumption
<1>1. ASSUME NEW l \in Listeners, ConstructBegin(l)
      PROVE  SysInv'
  <2>1. /\ l \notin alive /\ alive' = alive \cup {l} /\ building' = l
        /\ handler' = [handler EXCEPT ![l] = FALSE]
        /\ UNCHANGED <<target, serving, dpc, misled>>
        /\ opc = "idle" /\ opc' = "swap" /\ callback' = "torn" /\ rpc' = rpc
        /\ SubscribeWhileConnected \/ status # "Connected"
    BY <1>1 DEF ConstructBegin, SubscribeBegin, Call, dispatching, reader
  <2>2. SysTypeOK'
    <3>1. handler' \in [Listeners -> BOOLEAN]
      BY <2>1 DEF SysInv, SysTypeOK
    <3> QED
      BY <2>1, <3>1 DEF SysInv, SysTypeOK
  <2>3. Subscribed'
    BY <2>1 DEF Subscribed
  <2>4. Careful'
    <3> SUFFICES ASSUME ~SubscribeWhileConnected
                 PROVE  /\ ~Served' /\ rpc' # "incb" /\ dpc' = "none" /\ ~misled'
      BY DEF Careful
    <3>1. ~InLoop
      BY <2>1, QuietMeansNoLoop DEF Known, Quiet
    <3>2. rpc # "incb" /\ ~Served'
      BY <2>1, <3>1 DEF InLoop, Looping, Served, ConnectPcs
    <3> QED
      BY <2>1, <3>2 DEF SysInv, SysTypeOK, Careful
  <2> QED
    BY <2>2, <2>3, <2>4 DEF SysInv
<1>2. CASE ConstructEnd
  <2>1. /\ target' = building /\ building' = Nobody
        /\ UNCHANGED <<alive, handler, serving, dpc, misled>>
        /\ opc = "swap" /\ opc' \in {"idle", "free"} /\ callback' = "set" /\ rpc' = rpc
    BY <1>2 DEF ConstructEnd, SubscribeEnd, At, Return, OwnerOnly, dispatching, reader
  <2>2. SysTypeOK'
    BY <2>1 DEF SysInv, SysTypeOK
  <2>3. Subscribed'
    BY <2>1 DEF Subscribed, SysInv
  <2>4. Careful'
    <3> SUFFICES ASSUME ~SubscribeWhileConnected
                 PROVE  /\ ~Served' /\ rpc' # "incb" /\ dpc' = "none" /\ ~misled'
      BY DEF Careful
    <3>1. ~InLoop
      BY <2>1 DEF Known, CallbackInv
    <3>2. rpc # "incb" /\ ~Served'
      BY <2>1, <3>1 DEF InLoop, Looping, Served, ConnectPcs
    <3> QED
      BY <2>1, <3>2 DEF SysInv, SysTypeOK, Careful
  <2> QED
    BY <2>2, <2>3, <2>4 DEF SysInv
<1>3. ASSUME NEW l \in Listeners, SetHandler(l)
      PROVE  SysInv'
  <2>1. /\ Quiet /\ handler' = [handler EXCEPT ![l] = ~handler[l]]
        /\ misled' \in {misled, misled \/ (serving = l /\ dpc \in {"test", "notify"})}
        /\ UNCHANGED <<opc, rpc, callback, alive, target, building, serving, dpc>>
    BY <1>3 DEF SetHandler, vars, object, owner, reader
  <2>2. SysTypeOK'
    <3>1. handler' \in [Listeners -> BOOLEAN]
      BY <2>1 DEF SysInv, SysTypeOK
    <3>2. misled' \in BOOLEAN
      BY <2>1, Zenon DEF SysInv, SysTypeOK
    <3> QED
      BY <2>1, <3>1, <3>2 DEF SysInv, SysTypeOK
  <2>3. Subscribed'
    BY <2>1 DEF Subscribed, SysInv
  <2>4. Careful'
    <3> SUFFICES ASSUME ~SubscribeWhileConnected
                 PROVE  /\ ~Served' /\ rpc' # "incb" /\ dpc' = "none" /\ ~misled'
      BY DEF Careful
    <3>1. ~InLoop /\ ~Served
      BY <2>1, QuietMeansNoLoop DEF Known
    <3>2. rpc # "incb" /\ ~Served'
      BY <2>1, <3>1 DEF InLoop, Looping, Served, ConnectPcs
    <3>3. dpc = "none" /\ ~misled
      BY <3>2 DEF SysInv, SysTypeOK, Careful
    <3> QED
      BY <2>1, <3>2, <3>3
  <2> QED
    BY <2>2, <2>3, <2>4 DEF SysInv
<1>4. ASSUME NEW l \in Listeners, Destroy(l)
      PROVE  SysInv'
  <2>1. /\ Quiet /\ alive' = alive \ {l}
        /\ UNCHANGED <<opc, rpc, callback, target, building, handler, serving, dpc, misled>>
    BY <1>4 DEF Destroy, vars, object, owner, reader, dispatching
  <2>2. SysTypeOK'
    BY <2>1 DEF SysInv, SysTypeOK
  <2>3. Subscribed'
    BY <2>1 DEF Subscribed, SysInv
  <2>4. Careful'
    <3> SUFFICES ASSUME ~SubscribeWhileConnected
                 PROVE  /\ ~Served' /\ rpc' # "incb" /\ dpc' = "none" /\ ~misled'
      BY DEF Careful
    <3>1. ~InLoop /\ ~Served
      BY <2>1, QuietMeansNoLoop DEF Known
    <3>2. rpc # "incb" /\ ~Served'
      BY <2>1, <3>1 DEF InLoop, Looping, Served, ConnectPcs
    <3> QED
      BY <2>1, <3>2 DEF SysInv, SysTypeOK, Careful
  <2> QED
    BY <2>2, <2>3, <2>4 DEF SysInv
<1> QED
  BY <1>1, <1>2, <1>3, <1>4 DEF ListenerStep

(* In a callback the reader does not stop looping. *)
LEMMA EnterKeeps ==
  ASSUME Known, SysInv, EnterCallback
  PROVE  SysInv'
<1> USE ListenersAssumption
<1>1. /\ UNCHANGED <<alive, target, building, handler, opc, callback>>
      /\ rpc = "cbtest" /\ rpc' \in {"cbtest", "test", "incb"}
  BY DEF EnterCallback, ReaderTestCallback, ReaderAt, ReaderGoto, ReaderOnly, listening,
         object, owner, reader
<1>2. Served' <=> Served
  BY <1>1 DEF Served, InLoop, Looping
<1>3. Subscribed'
  BY <1>1 DEF Subscribed, SysInv
<1>4. CASE rpc' = "incb"
  <2>1. /\ serving' \in Captured /\ dpc' = "test"
        /\ misled' = (misled \/ serving' \notin alive)
    BY <1>4 DEF EnterCallback
  <2>2. callback \in {"set", "torn"}
    BY <1>1, <1>4 DEF EnterCallback, ReaderTestCallback, ReaderGoto, reader
  <2>3. serving' \in Listeners
    <3>1. callback = "torn" => opc = "swap" /\ building # Nobody
      BY DEF Known, IInv, ThreadInv, SysInv, Subscribed
    <3> QED
      BY <2>1, <2>2, <3>1 DEF Captured, SysInv, SysTypeOK, Subscribed
  <2>4. SysTypeOK'
    <3>1. misled' \in BOOLEAN
      BY <2>1, Zenon DEF SysInv, SysTypeOK
    <3> QED
      BY <1>1, <1>4, <2>1, <2>3, <3>1 DEF SysInv, SysTypeOK
  <2>5. Careful'
    <3> SUFFICES ASSUME ~SubscribeWhileConnected
                 PROVE  /\ target' \in alive' \cup {Nobody} /\ serving' = target'
                        /\ dpc' = "test" /\ ~misled'
      BY DEF Careful
    <3>1. InLoop
      BY <1>1 DEF InLoop, Looping
    <3>2. callback = "set"
      BY <2>2, <3>1 DEF Known, CallbackInv, IInv, ThreadInv
    <3>3. serving' = target /\ target # Nobody /\ target \in alive \cup {Nobody} /\ ~misled
      BY <2>1, <3>1, <3>2 DEF Captured, SysInv, Subscribed, Careful, Served
    <3> QED
      BY <1>1, <2>1, <3>3
  <2> QED
    BY <1>3, <2>4, <2>5 DEF SysInv
<1>5. CASE rpc' # "incb"
  <2>1. UNCHANGED <<serving, dpc, misled>>
    BY <1>5 DEF EnterCallback, dispatching
  <2>2. SysTypeOK'
    BY <1>1, <1>5, <2>1 DEF SysInv, SysTypeOK
  <2>3. Careful'
    BY <1>1, <1>2, <1>5, <2>1 DEF SysInv, SysTypeOK, Careful
  <2> QED
    BY <1>3, <2>2, <2>3 DEF SysInv
<1> QED
  BY <1>4, <1>5

LEMMA LeaveKeeps ==
  ASSUME SysInv, LeaveCallback
  PROVE  SysInv'
<1>1. /\ UNCHANGED <<alive, target, building, handler, opc, callback, misled>>
      /\ rpc = "incb" /\ rpc' = "test" /\ serving' = Nobody /\ dpc' = "none"
  BY DEF LeaveCallback, ReaderCallbackReturns, ReaderAt, ReaderGoto, ReaderOnly, listening,
         object, owner, reader
<1>2. Served' <=> Served
  BY <1>1 DEF Served, InLoop, Looping
<1>3. SysTypeOK'
  BY <1>1 DEF SysInv, SysTypeOK
<1> QED
  BY <1>1, <1>2, <1>3 DEF SysInv, Subscribed, Careful

(* The steps of dispatch() within one callback. *)
LEMMA DispatchKeeps ==
  ASSUME SysInv, DispatchAsks \/ DispatchSends \/ DispatchReceives \/ DispatchReadsOn
         \/ DispatchNotifies
  PROVE  SysInv'
<1>1. /\ UNCHANGED <<alive, target, building, handler, opc, callback, serving, rpc>>
      /\ rpc = "incb" /\ dpc # "none"
      /\ dpc' \in {"send", "receive", "more", "notify", "catch", dpc}
  BY DEF DispatchAsks, DispatchSends, DispatchReceives, DispatchReadsOn, DispatchNotifies,
         DispatchAt, ReaderAt, ReaderCallbackTransfers, ReaderOnly, listening, vars, object, owner, reader
<1>2. (Served' <=> Served) /\ Served
  BY <1>1 DEF Served, InLoop, Looping
<1>3. misled' \in BOOLEAN
  BY Zenon
  DEF DispatchAsks, DispatchSends, DispatchReceives, DispatchReadsOn, DispatchNotifies,
      SysInv, SysTypeOK
<1>4. SysTypeOK'
  BY <1>1, <1>3 DEF SysInv, SysTypeOK
<1>5. Subscribed'
  BY <1>1 DEF SysInv, Subscribed
<1>6. Careful'
  <2> SUFFICES ASSUME ~SubscribeWhileConnected
               PROVE  /\ dpc' \in {"send", "receive", "more", "notify"} => handler[serving]
                      /\ ~misled'
    BY <1>1, <1>2 DEF Careful, SysInv
  <2>1. /\ serving = target /\ target \in alive \cup {Nobody} /\ serving # Nobody /\ ~misled
        /\ dpc \in {"send", "receive", "more", "notify"} => handler[serving]
    BY <1>1, <1>2 DEF Careful, SysInv, SysTypeOK
  <2>2. CASE DispatchAsks
    BY <2>1, <2>2 DEF DispatchAsks
  <2>3. CASE DispatchSends
    BY <2>1, <2>3 DEF DispatchSends, DispatchAt
  <2>4. CASE DispatchReceives
    BY <2>1, <2>4 DEF DispatchReceives, DispatchAt
  <2>5. CASE DispatchReadsOn
    BY <2>1, <2>5 DEF DispatchReadsOn, DispatchAt
  <2>6. CASE DispatchNotifies
    BY <2>1, <2>6 DEF DispatchNotifies, DispatchAt
  <2> QED
    BY <2>2, <2>3, <2>4, <2>5, <2>6
<1> QED
  BY <1>4, <1>5, <1>6 DEF SysInv

LEMMA SysInvStep == Known /\ SysInv /\ [SysNext]_sysvars => SysInv'
<1> SUFFICES ASSUME Known, SysInv, [SysNext]_sysvars  PROVE SysInv'
  OBVIOUS
<1>1. CASE SysConnectBegin
  <2>1. /\ ConnectBegin /\ UNCHANGED <<listening, dispatching>>
        /\ SubscribeWhileConnected \/ target \in alive \cup {Nobody}
    BY <1>1 DEF SysConnectBegin
  <2>2. Spared
    BY <2>1 DEF ConnectBegin, Call, At, Return, OwnerOnly, object, reader, Spared
  <2> QED
    BY <2>1, <2>2, ElsewhereKeeps
<1>2. CASE SysDestroyBegin \/ SysConnect \/ SysDisconnect \/ Undisturbed
           \/ (ReaderLoop /\ UNCHANGED <<listening, dispatching>>)
  <2>1. Elsewhere /\ UNCHANGED <<listening, dispatching>>
    BY <1>2 DEF SysDestroyBegin, SysConnect, SysDisconnect, Undisturbed, Elsewhere
  <2> QED
    BY <2>1, ElsewhereSpares, ElsewhereKeeps DEF Known
<1>3. CASE ListenerStep
  BY <1>3, ListenerKeeps
<1>4. CASE EnterCallback
  BY <1>4, EnterKeeps
<1>5. CASE DispatchIgnores \/ DispatchEnds
  BY <1>5, LeaveKeeps DEF DispatchIgnores, DispatchEnds
<1>6. CASE DispatchAsks \/ DispatchSends \/ DispatchReceives \/ DispatchReadsOn
         \/ DispatchNotifies
  BY <1>6, DispatchKeeps
<1>7. CASE UNCHANGED sysvars
  <2>1. Spared /\ UNCHANGED <<listening, dispatching>> /\ (Served' => Served)
    BY <1>7 DEF sysvars, vars, object, owner, reader, Spared, Served, InLoop
  <2> QED
    BY <2>1, ElsewhereKeeps
<1> QED
  BY <1>1, <1>2, <1>3, <1>4, <1>5, <1>6, <1>7 DEF SysNext, SysStep, SysReader, SysRest

(***************************************************************************)
(* The inductive invariant of the receivers, on top of the transport's.    *)
(***************************************************************************)
THEOREM ReceiversInvariance == SysSpec => []SysInv
  BY SysInitInv, SysInvStep, TransportInvariance, PTL DEF SysSpec, Known

(* The types, and the two accounts of the reader's being in a callback.    *)
THEOREM SysTypeCorrect == SysSpec => []SysTypeOK
<1>1. SysInv => SysTypeOK
  BY DEF SysInv
<1> QED
  BY <1>1, ReceiversInvariance, PTL

(* A careful application is never called back where nobody is.             *)
THEOREM NobodyIsMisled == SysSpec => []NobodyMisled
<1>1. SysInv => NobodyMisled
  BY DEF SysInv, Careful, NobodyMisled
<1> QED
  BY <1>1, ReceiversInvariance, PTL

(* The receiver constructed last is the only one the reader is in.         *)
THEOREM TheLastIsServed == SysSpec => []LastIsServed
<1>1. SysInv /\ Known => LastIsServed
  <2> SUFFICES ASSUME SysInv, Known, rpc = "incb", ~SubscribeWhileConnected
               PROVE  serving = target /\ building = Nobody
    BY DEF LastIsServed
  <2>1. InLoop
    BY DEF InLoop, Looping
  <2> QED
    BY <2>1 DEF SysInv, Careful, Subscribed, Known, CallbackInv
<1> QED
  BY <1>1, ReceiversInvariance, TransportInvariance, PTL DEF Known
=============================================================================
