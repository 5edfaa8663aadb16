------------------------------ MODULE Receivers ------------------------------
(***************************************************************************)
(* McbReceiver and KeyboardReceiver on a TCPTransport (module TcpTransport, *)
(* which this one extends).  The constructor subscribes a callback that    *)
(* holds a bare this; the transport keeps one callback, so the receiver    *)
(* constructed last replaces the one before; nothing is ever unsubscribed. *)
(* dispatch() runs on the reader thread: it tests a handler, sends a       *)
(* request of its own, receives the reply on that same thread, and calls   *)
(* the handler, while the owner may construct, destroy and equip receivers *)
(* and use the transport.                                                  *)
(*                                                                         *)
(* The two classes differ in the commands they dispatch on only.  One      *)
(* handler stands for the two or three of a class, and whether a chunk     *)
(* begins with a command of the class is a choice.  The commands are not   *)
(* linked at this commit; as in module Commands they are taken to reach    *)
(* sendCommand() of the controller, so send() and receive().               *)
(***************************************************************************)
EXTENDS TcpTransport

CONSTANTS
  Listeners,  \* the receiver objects
  Nobody      \* none of them

ASSUME ListenersAssumption == Nobody \notin Listeners

VARIABLES
  alive,     \* the receivers that exist
  target,    \* the one receive_callback_ points to
  building,  \* the one whose constructor is inside subscribe()
  handler,   \* which receivers have a handler
  serving,   \* the one whose callback the reader is in
  dpc,       \* where the reader is in it
  misled     \* history: a destroyed receiver or a missing handler was called

listening == <<alive, target, building, handler>>
dispatching == <<serving, dpc, misled>>
sysvars == <<vars, listening, dispatching>>

SysInit ==
  /\ Init
  /\ alive = {} /\ target = Nobody /\ building = Nobody
  /\ handler = [l \in Listeners |-> FALSE]
  /\ serving = Nobody /\ dpc = "none" /\ misled = FALSE

-----------------------------------------------------------------------------
(* The owner.                                                              *)

(***************************************************************************)
(* A careful application changes what the reader calls, and destroys it,   *)
(* only while get_status() is not Connected.                               *)
(***************************************************************************)
Quiet == opc = "idle" /\ (SubscribeWhileConnected \/ status # "Connected")

ConstructBegin(l) ==
  /\ l \notin alive
  /\ SubscribeBegin
  /\ alive' = alive \cup {l} /\ building' = l
  /\ handler' = [handler EXCEPT ![l] = FALSE]
  /\ UNCHANGED <<target, dispatching>>

(* Mutant: the callback holds weak_from_this() instead of this, which is    *)
(* empty while the object is under construction.                           *)
ConstructEnd_EmptyWeak ==
  /\ SubscribeEnd
  /\ target' = Nobody /\ building' = Nobody
  /\ UNCHANGED <<alive, handler, dispatching>>

ConstructEnd ==
  /\ SubscribeEnd
  /\ target' = building /\ building' = Nobody
  /\ UNCHANGED <<alive, handler, dispatching>>

(***************************************************************************)
(* set...Handler(), to an object or to nothing.  The std::shared_ptr is    *)
(* assigned without a lock, under a reader that may be looking at it.      *)
(***************************************************************************)
SetHandler(l) ==
  /\ Quiet /\ l \in alive
  /\ handler' = [handler EXCEPT ![l] = ~handler[l]]
  /\ misled' \in {misled, misled \/ (serving = l /\ dpc \in {"test", "notify"})}
  /\ UNCHANGED <<vars, alive, target, building, serving, dpc>>

(* The destructor is the default one: the callback stays subscribed.       *)
Destroy(l) ==
  /\ Quiet /\ l \in alive
  /\ alive' = alive \ {l}
  /\ UNCHANGED <<vars, target, building, handler, dispatching>>

(* There is no unsubscribing: a careful application that destroyed its     *)
(* receiver constructs another before it connects.                         *)
SysConnectBegin ==
  /\ ConnectBegin
  /\ SubscribeWhileConnected \/ target \in alive \cup {Nobody}
  /\ UNCHANGED <<listening, dispatching>>

(* A receiver holds the protocol, and that the transport.                  *)
SysDestroyBegin ==
  /\ DestroyBegin /\ alive = {}
  /\ UNCHANGED <<listening, dispatching>>

ListenerStep ==
  \/ \E l \in Listeners : ConstructBegin(l) \/ SetHandler(l) \/ Destroy(l)
  \/ ConstructEnd

-----------------------------------------------------------------------------
(* The reader.                                                             *)

(* What a callback that is just being assigned points to.                  *)
Captured == IF callback = "torn" THEN {target, building} \ {Nobody} ELSE {target}

EnterCallback ==
  /\ ReaderTestCallback
  /\ IF rpc' = "incb"
       THEN /\ serving' \in Captured /\ dpc' = "test"
            /\ misled' = (misled \/ serving' \notin alive)
       ELSE UNCHANGED dispatching
  /\ UNCHANGED listening

DispatchAt(pc) == ReaderAt("incb") /\ dpc = pc

(* dispatch() returns, or its exception is caught and logged.              *)
LeaveCallback ==
  /\ ReaderCallbackReturns
  /\ serving' = Nobody /\ dpc' = "none"
  /\ UNCHANGED <<listening, misled>>

(* A chunk that is too short or begins with something else, or no handler. *)
DispatchIgnores == DispatchAt("test") /\ LeaveCallback

(* Mutant: the handler is not tested.                                      *)
DispatchAsks_Untested ==
  /\ DispatchAt("test") /\ dpc' = "send"
  /\ UNCHANGED <<vars, listening, serving, misled>>

DispatchAsks ==
  /\ DispatchAt("test") /\ handler[serving] /\ dpc' = "send"
  /\ UNCHANGED <<vars, listening, serving, misled>>

(* The command's send(): it goes through, fails, or raises SIGPIPE.        *)
DispatchSends ==
  /\ DispatchAt("send")
  /\ \/ /\ status = "Connected" /\ sockfd # NoFd /\ conn[sockfd] \in {"up", "fin"}
        /\ dpc' = "receive" /\ UNCHANGED vars
     \/ dpc' = "catch" /\ UNCHANGED vars
     \/ ReaderCallbackTransfers /\ proc' # proc /\ UNCHANGED dpc
  /\ UNCHANGED <<listening, serving, misled>>

(* Mutant: no timeout, and a recv that fails is tried again.               *)
DispatchReceives_Retries ==
  /\ DispatchAt("receive")
  /\ \/ sockfd # NoFd /\ conn[sockfd] = "up" /\ dpc' = "notify"
     \/ UNCHANGED dpc
  /\ UNCHANGED <<vars, listening, serving, misled>>

(***************************************************************************)
(* Its receive() comes to an end: with the byte that ends a frame, in a    *)
(* reply the command accepts or one it rejects, or with the end of the     *)
(* connection, or with 500 ms of silence.                                  *)
(***************************************************************************)
DispatchReceives ==
  /\ DispatchAt("receive")
  /\ \/ /\ sockfd # NoFd /\ conn[sockfd] = "up"
        /\ dpc' = "notify" /\ UNCHANGED vars
     \/ ReaderCallbackTransfers /\ proc' = proc /\ dpc' = "catch"
  /\ UNCHANGED <<listening, serving, misled>>

(***************************************************************************)
(* Or it does not: any other byte is appended, and the loop waits for the  *)
(* next.  SO_RCVTIMEO bounds that wait and not the loop, so a line that    *)
(* brings such bytes can keep the reader here for as long as it likes.     *)
(***************************************************************************)
DispatchReadsOn ==
  /\ \/ /\ DispatchAt("receive") /\ sockfd # NoFd /\ conn[sockfd] = "up"
        /\ dpc' = "more"
     \/ DispatchAt("more") /\ dpc' = "receive"
  /\ UNCHANGED <<vars, listening, serving, misled>>

(* handler_->onReceive(), which is taken to return.                        *)
DispatchNotifies ==
  /\ DispatchAt("notify") /\ dpc' = "catch"
  /\ misled' = (misled \/ serving \notin alive \/ ~handler[serving])
  /\ UNCHANGED <<vars, listening, serving>>

DispatchEnds == DispatchAt("catch") /\ LeaveCallback

SysReader ==
  \/ ReaderLoop /\ UNCHANGED <<listening, dispatching>>
  \/ EnterCallback \/ DispatchIgnores \/ DispatchAsks \/ DispatchSends
  \/ DispatchReceives \/ DispatchReadsOn \/ DispatchNotifies \/ DispatchEnds

-----------------------------------------------------------------------------
(* The rest of the transport is as it was.                                 *)
Undisturbed ==
  /\ \/ DisconnectBegin \/ SendBegin \/ ReceiveBegin
     \/ SendCheckFd \/ SendWrite \/ ReceiveByte \/ PeerStep
  /\ UNCHANGED <<listening, dispatching>>

SysConnect == ConnectStep /\ UNCHANGED <<listening, dispatching>>
SysDisconnect == DisconnectStep /\ UNCHANGED <<listening, dispatching>>

SysStep ==
  /\ proc = "running"
  /\ \/ SysConnectBegin \/ SysDestroyBegin \/ ListenerStep
     \/ SysConnect \/ SysDisconnect \/ Undisturbed \/ SysReader

SysRest == Halted /\ UNCHANGED sysvars

SysNext == SysStep \/ SysRest

(***************************************************************************)
(* A request of dispatch() on a connection whose peer is there may block   *)
(* in ::send for as long as the peer takes nothing.                        *)
(***************************************************************************)
MayBlock == DispatchAt("send") /\ sockfd # NoFd /\ conn[sockfd] = "up"

(***************************************************************************)
(* The threads are scheduled, and SO_RCVTIMEO bounds every single recv of  *)
(* the reader.  Nothing more: not that a ::send comes back, nor that       *)
(* receive() does, for its step may be to read on again and again; nothing *)
(* of the application's calls, nor of the peer.                            *)
(***************************************************************************)
SysFairness ==
  /\ WF_sysvars(proc = "running" /\ SysReader /\ ~MayBlock)
  /\ WF_sysvars(proc = "running" /\ SysDisconnect)
  /\ WF_sysvars(proc = "running" /\ SysConnect)

SysSpec == SysInit /\ [][SysNext]_sysvars

FairSysSpec == SysSpec /\ SysFairness

-----------------------------------------------------------------------------
SysTypeOK ==
  /\ alive \subseteq Listeners
  /\ target \in Listeners \cup {Nobody}
  /\ building \in Listeners \cup {Nobody}
  /\ handler \in [Listeners -> BOOLEAN]
  /\ serving \in Listeners \cup {Nobody}
  /\ dpc \in {"none", "test", "send", "receive", "more", "notify", "catch"}
  /\ misled \in BOOLEAN
  /\ dpc # "none" <=> rpc = "incb"
  /\ serving # Nobody <=> rpc = "incb"

(***************************************************************************)
(* The reader never calls a destroyed receiver, nor a handler that was     *)
(* taken away between dispatch()'s test and its use of it, a request and a *)
(* reply later, as long as the application is careful.                     *)
(***************************************************************************)
NobodyMisled == misled => SubscribeWhileConnected

(***************************************************************************)
(* Of two receivers on one transport the one constructed last is served,   *)
(* and the other is not even finishing what it was doing.                  *)
(***************************************************************************)
LastIsServed ==
  (proc = "running" /\ rpc = "incb") =>
    SubscribeWhileConnected \/ (serving = target /\ building = Nobody)

-----------------------------------------------------------------------------
(* Liveness.                                                               *)

(***************************************************************************)
(* The peer keeps a request that dispatch() has made going for ever: it    *)
(* takes nothing of it, or it answers with bytes that never end a frame.   *)
(***************************************************************************)
KeptBusy == <>[]MayBlock \/ []<><<DispatchReadsOn>>_sysvars

(***************************************************************************)
(* connect() and disconnect() come back: the join in disconnect() waits    *)
(* for a reader that sees running_ within one receive timeout, after it    *)
(* has finished a callback that may be asking the device something.  Only  *)
(* a peer that keeps such a request going for ever can hold them up; with  *)
(* no receiver on the transport nothing the peer does can.                 *)
(***************************************************************************)
CallsReturn ==
  \/ KeptBusy
  \/ (opc \in ConnectPcs \cup DisconnectPcs) ~> (Halted \/ opc = "idle")

(***************************************************************************)
(* A connection the peer closed or reset does not stay Connected: the      *)
(* reader notices, from inside a callback too, says so in get_status() and *)
(* closes the socket (unless a connect() overtook it and replaced          *)
(* sockfd_).                                                               *)
(***************************************************************************)
LossIsNoticed ==
  (joinable /\ sockfd # NoFd /\ conn[sockfd] \in {"fin", "rst", "broken"}) ~>
    \/ proc # "running"
    \/ /\ status # "Connected" /\ rpc \in {"none", "ended"}
       /\ redialed \/ OpenSocks = {}
=============================================================================
