--------------------------- MODULE SerialTransport ---------------------------
(***************************************************************************)
(* Serial ports: SerialTransport::Impl of libraries/transport/serial/      *)
(* serial_transport.cpp, and rs232_transport.cpp and rs485_transport.cpp,  *)
(* whose Impl differ from it in their log messages only.  A set of such    *)
(* objects, each used by one thread, shares the descriptors of the         *)
(* process, which the kernel hands out lowest first and reuses at once: an *)
(* object that closed a descriptor twice, or kept one it had closed, would *)
(* close or write to the port of another.  Each system call is a step.     *)
(***************************************************************************)
EXTENDS Integers

CONSTANTS
  Objects,        \* the transports, each with a device of its own
  MaxDescriptors  \* how many descriptors the process may have open

ASSUME DescriptorsAssumption == MaxDescriptors \in Nat

VARIABLES
  status,   \* status_ of each object
  fd,       \* fd_ of each object
  pc,       \* where each object's thread is
  dying,    \* the objects whose destructor runs, or has run
  table,    \* the descriptor table: who opened each, and is it configured
  answer,   \* what the last call on each object returned
  retried   \* history: the objects whose connect() ran while fd_ was open

object == <<status, fd, answer>>
vars   == <<object, pc, dying, table, retried>>

(* 0, 1 and 2 are the standard streams.                                    *)
NoFd == -1
Descriptors == 3 .. 2 + MaxDescriptors

Statuses == {"Disconnected", "Connected", "Error"}

Nobody == "nobody"
ASSUME NobodyAssumption == Nobody \notin Objects

Free == [by |-> Nobody, ready |-> FALSE]
Opened(o) == [by |-> o, ready |-> FALSE]
Ready(o) == [by |-> o, ready |-> TRUE]

Cells == [by : Objects \cup {Nobody}, ready : BOOLEAN]

FreeDescriptors == {d \in Descriptors : table[d] = Free}

Init ==
  /\ status = [o \in Objects |-> "Disconnected"]
  /\ fd = [o \in Objects |-> NoFd]
  /\ pc = [o \in Objects |-> "idle"]
  /\ dying = {}
  /\ table = [d \in Descriptors |-> Free]
  /\ answer = [o \in Objects |-> "none"]
  /\ retried = {}

At(o, place) == pc[o] = place
Goto(o, place) == pc' = [pc EXCEPT ![o] = place]
Return(o, value) == answer' = [answer EXCEPT ![o] = value]
Become(o, s) == status' = [status EXCEPT ![o] = s]
Hold(o, d) == fd' = [fd EXCEPT ![o] = d]
NoteRetry(o) == retried' = IF fd[o] # NoFd THEN retried \cup {o} ELSE retried

-----------------------------------------------------------------------------
(* connect()                                                               *)

ConnectAlready(o) ==
  /\ At(o, "idle") /\ status[o] = "Connected" /\ Return(o, "true")
  /\ UNCHANGED <<status, fd, pc, dying, table, retried>>

(* Mutant: a port whose configuration failed counts as connected.          *)
ConnectOpens_Trusts(o) ==
  /\ At(o, "idle") /\ status[o] # "Connected"
  /\ \E d \in FreeDescriptors :
       /\ \A e \in FreeDescriptors : d <= e
       /\ Hold(o, d) /\ table' = [table EXCEPT ![d] = Opened(o)]
  /\ Become(o, "Connected") /\ Return(o, "true")
  /\ NoteRetry(o)
  /\ UNCHANGED <<pc, dying>>

(* ::open.  Whatever fd_ held before is overwritten.                       *)
ConnectOpens(o) ==
  /\ At(o, "idle") /\ status[o] # "Connected" /\ Goto(o, "configure")
  /\ \E d \in FreeDescriptors :
       /\ \A e \in FreeDescriptors : d <= e
       /\ Hold(o, d) /\ table' = [table EXCEPT ![d] = Opened(o)]
  /\ NoteRetry(o)
  /\ UNCHANGED <<status, answer, dying>>

(* There is no such device, it is busy, or no descriptor is left.          *)
ConnectFails(o) ==
  /\ At(o, "idle") /\ status[o] # "Connected"
  /\ Hold(o, NoFd) /\ Become(o, "Error") /\ Return(o, "false")
  /\ NoteRetry(o)
  /\ UNCHANGED <<pc, dying, table>>

(* tcgetattr, cfsetospeed, 8N1 and tcsetattr.                              *)
ConnectConfigures(o) ==
  /\ At(o, "configure") /\ Goto(o, "idle")
  /\ table' = [table EXCEPT ![fd[o]] = Ready(o)]
  /\ Become(o, "Connected") /\ Return(o, "true")
  /\ UNCHANGED <<fd, dying, retried>>

(* Either fails: the descriptor stays open, and in fd_.                    *)
ConnectCannotConfigure(o) ==
  /\ At(o, "configure") /\ Goto(o, "idle")
  /\ Become(o, "Error") /\ Return(o, "false")
  /\ UNCHANGED <<fd, dying, table, retried>>

-----------------------------------------------------------------------------
(* disconnect() and the destructor, which calls it.                        *)

(* Mutant: an object in Error is not closed.                               *)
DisconnectBegin_OnlyConnected(o) ==
  /\ At(o, "idle") /\ dying' \in {dying, dying \cup {o}}
  /\ IF fd[o] # NoFd /\ status[o] = "Connected"
       THEN Goto(o, "reset") /\ table' = [table EXCEPT ![fd[o]] = Free]
       ELSE Goto(o, "mark") /\ UNCHANGED table
  /\ UNCHANGED <<object, retried>>

(* ::close, if there is something to close.                                *)
DisconnectBegin(o) ==
  /\ At(o, "idle") /\ dying' \in {dying, dying \cup {o}}
  /\ IF fd[o] # NoFd
       THEN Goto(o, "reset") /\ table' = [table EXCEPT ![fd[o]] = Free]
       ELSE Goto(o, "mark") /\ UNCHANGED table
  /\ UNCHANGED <<object, retried>>

(* Mutant: fd_ keeps the closed descriptor.                                *)
DisconnectReset_KeepsFd(o) ==
  /\ At(o, "reset") /\ Goto(o, "mark")
  /\ UNCHANGED <<object, dying, table, retried>>

(* Mutant: fd_ is reset to 0.                                              *)
DisconnectReset_Zero(o) ==
  /\ At(o, "reset") /\ Goto(o, "mark") /\ Hold(o, 0)
  /\ UNCHANGED <<status, answer, dying, table, retried>>

DisconnectReset(o) ==
  /\ At(o, "reset") /\ Goto(o, "mark") /\ Hold(o, NoFd)
  /\ UNCHANGED <<status, answer, dying, table, retried>>

DisconnectMarks(o) ==
  /\ At(o, "mark") /\ Goto(o, IF o \in dying THEN "gone" ELSE "idle")
  /\ Become(o, "Disconnected") /\ Return(o, "true")
  /\ UNCHANGED <<fd, dying, table, retried>>

-----------------------------------------------------------------------------
(***************************************************************************)
(* send(): one ::write, which must take all of the data; the status does   *)
(* not change when it does not, or when the device has been unplugged.     *)
(***************************************************************************)
Send(o) ==
  /\ At(o, "idle")
  /\ \/ status[o] = "Connected" /\ fd[o] >= 0 /\ \E a \in {"true", "false"} : Return(o, a)
     \/ ~(status[o] = "Connected" /\ fd[o] >= 0) /\ Return(o, "false")
  /\ UNCHANGED <<status, fd, pc, dying, table, retried>>

-----------------------------------------------------------------------------
Call(o) ==
  \/ ConnectAlready(o) \/ ConnectOpens(o) \/ ConnectFails(o)
  \/ ConnectConfigures(o) \/ ConnectCannotConfigure(o)
  \/ DisconnectBegin(o) \/ DisconnectReset(o) \/ DisconnectMarks(o) \/ Send(o)

(* Every object has been destroyed.                                        *)
Rest == (\A o \in Objects : At(o, "gone")) /\ UNCHANGED vars

Next == (\E o \in Objects : Call(o)) \/ Rest

Spec == Init /\ [][Next]_vars

-----------------------------------------------------------------------------
Places == {"idle", "configure", "reset", "mark", "gone"}

(* Type invariant.                                                         *)
TypeOK ==
  /\ status \in [Objects -> Statuses]
  /\ fd \in [Objects -> Descriptors \cup {NoFd}]
  /\ pc \in [Objects -> Places] /\ dying \subseteq Objects
  /\ table \in [Descriptors -> Cells]
  /\ answer \in [Objects -> {"none", "true", "false"}]
  /\ retried \subseteq Objects

(***************************************************************************)
(* An object that says Connected has a descriptor of its own, open and     *)
(* configured, whatever the other objects open and close: what send()      *)
(* writes goes out on the right port with the right baud rate.             *)
(***************************************************************************)
ConnectedIsConfigured ==
  \A o \in Objects :
    At(o, "idle") /\ status[o] = "Connected" =>
      fd[o] # NoFd /\ table[fd[o]] = Ready(o)

(***************************************************************************)
(* disconnect() and the destructor never close another object's port: the  *)
(* descriptor in fd_ is open and was opened by this object, from ::open    *)
(* until ::close.                                                          *)
(***************************************************************************)
HoldsItsOwn ==
  \A o \in Objects :
    fd[o] # NoFd /\ ~At(o, "reset") => table[fd[o]].by = o

(***************************************************************************)
(* Descriptors are forgotten in one way only: connect() called once more   *)
(* after the port could be opened and not configured.  Otherwise every     *)
(* open descriptor is in the fd_ of the object that opened it, which still *)
(* exists, so that disconnect() or the destructor will close it.           *)
(***************************************************************************)
ForgottenOnlyByRetry ==
  \A d \in Descriptors :
    table[d] = Free \/ table[d].by \in retried
      \/ \E o \in Objects : table[d].by = o /\ fd[o] = d /\ ~At(o, "gone")
=============================================================================
