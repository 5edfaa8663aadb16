------------------------ MODULE SerialTransportProofs ------------------------
(***************************************************************************)
(* Proofs about SerialTransport, for any set of objects and any limit on   *)
(* descriptors.                                                            *)
(***************************************************************************)
EXTENDS SerialTransport, TLAPS

(***************************************************************************)
(* What is known of one object wherever its thread is: between ::open and  *)
(* ::close the descriptor in fd_ is its own, between ::close and the reset *)
(* of fd_ it is not, because it is free or another object has it by now.   *)
(***************************************************************************)
Keeps(o) ==
  /\ At(o, "idle") /\ status[o] = "Connected" => fd[o] # NoFd /\ table[fd[o]] = Ready(o)
  /\ fd[o] # NoFd /\ ~At(o, "reset") => table[fd[o]].by = o
  /\ At(o, "reset") => fd[o] # NoFd /\ table[fd[o]].by # o
  /\ At(o, "configure") => fd[o] # NoFd
  /\ At(o, "mark") \/ At(o, "gone") => fd[o] = NoFd

SerialInv == TypeOK /\ (\A o \in Objects : Keeps(o)) /\ ForgottenOnlyByRetry

-----------------------------------------------------------------------------
(* What may stand in the descriptor table.                                 *)
LEMMA CellsHold ==
  Free \in Cells /\ \A p \in Objects : Opened(p) \in Cells /\ Ready(p) \in Cells
BY DEF Free, Opened, Ready, Cells

(* The invariant holds of the initial state.                               *)
LEMMA SerialInit == Init => SerialInv
<1> SUFFICES ASSUME Init PROVE SerialInv
  OBVIOUS
<1>1. TypeOK
  BY CellsHold DEF Init, TypeOK, Statuses, Places
<1>2. ASSUME NEW o \in Objects PROVE Keeps(o)
  BY DEF Init, Keeps, At
<1>3. ForgottenOnlyByRetry
  BY DEF Init, ForgottenOnlyByRetry
<1> QED BY <1>1, <1>2, <1>3 DEF SerialInv

(* A descriptor an object has is in the table.                             *)
LEMMA InTable ==
  ASSUME TypeOK, NEW p \in Objects, fd[p] # NoFd
  PROVE  fd[p] \in Descriptors
BY DEF TypeOK

(* One step of one object's thread keeps the types.                        *)
LEMMA TypeStep ==
  ASSUME TypeOK, NEW p \in Objects, Keeps(p), Call(p)
  PROVE  TypeOK'
<1>0. Free \in Cells /\ Opened(p) \in Cells /\ Ready(p) \in Cells
  BY CellsHold
<1>t. /\ status \in [Objects -> Statuses] /\ fd \in [Objects -> Descriptors \cup {NoFd}]
      /\ pc \in [Objects -> Places] /\ dying \subseteq Objects
      /\ table \in [Descriptors -> Cells]
      /\ answer \in [Objects -> {"none", "true", "false"}] /\ retried \subseteq Objects
  BY DEF TypeOK
<1> SUFFICES /\ (status \in [Objects -> Statuses])'
             /\ (fd \in [Objects -> Descriptors \cup {NoFd}])'
             /\ (pc \in [Objects -> Places])' /\ (dying \subseteq Objects)'
             /\ (table \in [Descriptors -> Cells])'
             /\ (answer \in [Objects -> {"none", "true", "false"}])'
             /\ (retried \subseteq Objects)'
  BY DEF TypeOK
<1> USE <1>0, <1>t DEF Goto, Return, Become, Hold, NoteRetry, Statuses, Places
<1>1. CASE ConnectAlready(p)
  BY <1>1 DEF ConnectAlready
<1>2. CASE ConnectOpens(p)
  BY <1>2 DEF ConnectOpens, FreeDescriptors
<1>3. CASE ConnectFails(p)
  BY <1>3 DEF ConnectFails
<1>4. CASE ConnectConfigures(p)
  BY <1>4 DEF ConnectConfigures
<1>5. CASE ConnectCannotConfigure(p)
  BY <1>5 DEF ConnectCannotConfigure
<1>6. CASE DisconnectBegin(p)
  BY <1>6 DEF DisconnectBegin, object
<1>7. CASE DisconnectReset(p)
  BY <1>7 DEF DisconnectReset
<1>8. CASE DisconnectMarks(p)
  BY <1>8 DEF DisconnectMarks
<1>9. CASE Send(p)
  BY <1>9 DEF Send
<1> QED BY <1>1, <1>2, <1>3, <1>4, <1>5, <1>6, <1>7, <1>8, <1>9 DEF Call

(* What a step does to the object whose thread takes it.                   *)
LEMMA OwnStep ==
  ASSUME TypeOK, \A o \in Objects : Keeps(o), NEW p \in Objects, Call(p)
  PROVE  Keeps(p)'
<1>0. fd[p] # NoFd => fd[p] \in Descriptors
  BY InTable
<1> USE NobodyAssumption, <1>0 DEF TypeOK, Keeps, At, Goto, Return, Become, Hold, NoteRetry,
        Free, Opened, Ready
<1>1. CASE ConnectAlready(p)
  BY <1>1 DEF ConnectAlready
<1>2. CASE ConnectOpens(p)
  BY <1>2 DEF ConnectOpens, FreeDescriptors, Descriptors, NoFd
<1>3. CASE ConnectFails(p)
  BY <1>3 DEF ConnectFails
<1>4. CASE ConnectConfigures(p)
  BY <1>4 DEF ConnectConfigures
<1>5. CASE ConnectCannotConfigure(p)
  BY <1>5 DEF ConnectCannotConfigure
<1>6. CASE DisconnectBegin(p)
  BY <1>6 DEF DisconnectBegin, object
<1>7. CASE DisconnectReset(p)
  BY <1>7 DEF DisconnectReset
<1>8. CASE DisconnectMarks(p)
  BY <1>8 DEF DisconnectMarks
<1>9. CASE Send(p)
  BY <1>9 DEF Send
<1> QED BY <1>1, <1>2, <1>3, <1>4, <1>5, <1>6, <1>7, <1>8, <1>9 DEF Call

(***************************************************************************)
(* A step of one thread changes a descriptor only while nobody has it, or  *)
(* while the thread's own object has it.                                   *)
(***************************************************************************)
LEMMA TableStep ==
  ASSUME TypeOK, \A o \in Objects : Keeps(o), NEW p \in Objects, Call(p),
         NEW d \in Descriptors
  PROVE  \/ table'[d] = table[d]
         \/ table[d] = Free /\ table'[d] = Opened(p)
         \/ table[d].by = p /\ fd[p] = d /\ table'[d] \in {Ready(p), Free}
<1> USE DEF TypeOK, Keeps, At
<1>1. CASE ConnectOpens(p)
  BY <1>1 DEF ConnectOpens, FreeDescriptors
<1>2. CASE ConnectConfigures(p)
  BY <1>2 DEF ConnectConfigures
<1>3. CASE DisconnectBegin(p)
  BY <1>3 DEF DisconnectBegin
<1>4. CASE ~ConnectOpens(p) /\ ~ConnectConfigures(p) /\ ~DisconnectBegin(p)
  BY <1>4 DEF Call, ConnectAlready, ConnectFails, ConnectCannotConfigure, DisconnectReset,
              DisconnectMarks, Send
<1> QED BY <1>1, <1>2, <1>3, <1>4

(* A step of one thread changes the variables of its own object only.      *)
LEMMA OthersRest ==
  ASSUME TypeOK, NEW p \in Objects, Call(p), NEW q \in Objects, q # p
  PROVE  status'[q] = status[q] /\ fd'[q] = fd[q] /\ pc'[q] = pc[q]
BY DEF TypeOK, Call, ConnectAlready, ConnectOpens, ConnectFails, ConnectConfigures,
   ConnectCannotConfigure, DisconnectBegin, DisconnectReset, DisconnectMarks, Send,
   At, Goto, Return, Become, Hold, object

(* What a step does to the other objects: nothing.                         *)
LEMMA OtherStep ==
  ASSUME TypeOK, \A o \in Objects : Keeps(o), NEW p \in Objects, Call(p),
         NEW q \in Objects, q # p
  PROVE  Keeps(q)'
<1>1. status'[q] = status[q] /\ fd'[q] = fd[q] /\ pc'[q] = pc[q]
  BY OthersRest
<1>2. Keeps(q)
  OBVIOUS
<1>3. CASE fd[q] = NoFd
  BY <1>1, <1>2, <1>3 DEF Keeps, At
<1>4. CASE fd[q] # NoFd
  <2>1. fd[q] \in Descriptors
    BY <1>4 DEF TypeOK
  <2>2. \/ table'[fd[q]] = table[fd[q]]
        \/ table[fd[q]] = Free /\ table'[fd[q]] = Opened(p)
        \/ table[fd[q]].by = p /\ table'[fd[q]] \in {Ready(p), Free}
    BY <2>1, TableStep
  <2>3. table'[fd[q]] = table[fd[q]] \/ (At(q, "reset") /\ table'[fd[q]].by # q)
    <3>1. q # Nobody /\ p # Nobody
      BY NobodyAssumption
    <3>2. Free.by = Nobody /\ Opened(p).by = p /\ Ready(p).by = p
      BY DEF Free, Opened, Ready
    <3>3. ~At(q, "reset") => table[fd[q]].by = q
      BY <1>2, <1>4 DEF Keeps
    <3>4. CASE table[fd[q]] = Free /\ table'[fd[q]] = Opened(p)
      BY <3>1, <3>2, <3>3, <3>4
    <3>5. CASE table[fd[q]].by = p /\ table'[fd[q]] \in {Ready(p), Free}
      <4>1. At(q, "reset")
        BY <3>3, <3>5
      <4>2. table'[fd[q]].by # q
        BY <3>1, <3>2, <3>5
      <4> QED BY <4>1, <4>2
    <3> QED BY <2>2, <3>4, <3>5
  <2> QED BY <1>1, <1>2, <1>4, <2>3 DEF Keeps, At
<1> QED BY <1>3, <1>4

(* A step forgets a descriptor in the one way only.                        *)
LEMMA ForgetStep ==
  ASSUME TypeOK, \A o \in Objects : Keeps(o), ForgottenOnlyByRetry,
         NEW p \in Objects, Call(p)
  PROVE  ForgottenOnlyByRetry'
<1> SUFFICES ASSUME NEW d \in Descriptors, table'[d] # Free, table'[d].by \notin retried'
             PROVE  \E o \in Objects : table'[d].by = o /\ fd'[o] = d /\ ~At(o, "gone")'
  BY DEF ForgottenOnlyByRetry
<1>1. retried \subseteq retried' /\ (fd'[p] = fd[p] \/ fd[p] = NoFd \/ p \in retried' \/ At(p, "reset"))
  BY DEF TypeOK, Call, ConnectAlready, ConnectOpens, ConnectFails, ConnectConfigures,
     ConnectCannotConfigure, DisconnectBegin, DisconnectReset, DisconnectMarks, Send,
     At, Hold, NoteRetry, object
<1>2. CASE table'[d].by = p /\ table[d] = Free
  <2>1. table'[d] # table[d]
    BY <1>2, NobodyAssumption DEF Free
  <2>2. ~ConnectConfigures(p) /\ ~DisconnectBegin(p)
    <3>1. ASSUME ConnectConfigures(p) PROVE FALSE
      <4>1. table' = [table EXCEPT ![fd[p]] = Ready(p)] /\ fd[p] # NoFd /\ At(p, "configure")
        BY <3>1 DEF ConnectConfigures, Keeps
      <4>2. fd[p] = d
        BY <2>1, <4>1 DEF TypeOK
      <4> QED BY <1>2, <4>1, <4>2, NobodyAssumption DEF Keeps, At, Free
    <3>2. ASSUME DisconnectBegin(p) PROVE FALSE
      BY <1>2, <2>1, <3>2 DEF DisconnectBegin, TypeOK
    <3> QED BY <3>1, <3>2
  <2>3. ConnectOpens(p)
    BY <2>1, <2>2 DEF Call, ConnectAlready, ConnectFails, ConnectCannotConfigure,
       DisconnectReset, DisconnectMarks, Send
  <2>4. fd'[p] = d /\ pc'[p] = "configure"
    BY <2>1, <2>3 DEF TypeOK, ConnectOpens, Goto, Hold
  <2> QED BY <1>2, <2>4 DEF At
<1>3. CASE ~(table'[d].by = p /\ table[d] = Free)
  <2>1. table[d] # Free /\ table'[d].by = table[d].by
    <3>1. p # Nobody /\ Free.by = Nobody /\ Opened(p).by = p /\ Ready(p).by = p
      BY NobodyAssumption DEF Free, Opened, Ready
    <3>2. \/ table'[d] = table[d]
          \/ table[d] = Free /\ table'[d] = Opened(p)
          \/ table[d].by = p /\ table'[d] \in {Ready(p), Free}
      BY TableStep
    <3> QED BY <1>3, <3>1, <3>2
  <2>2. PICK o \in Objects : table[d].by = o /\ fd[o] = d /\ ~At(o, "gone")
    BY <1>1, <2>1 DEF ForgottenOnlyByRetry
  <2>3. CASE o # p
    BY <2>1, <2>2, <2>3, OthersRest DEF At
  <2>4. CASE o = p
    <3>1. ~At(p, "reset") /\ ~At(p, "mark") /\ fd[p] # NoFd
      BY <2>2, <2>4 DEF Keeps, Descriptors, NoFd
    <3>2. fd'[p] = d
      BY <1>1, <2>1, <2>2, <2>4, <3>1
    <3>3. ~At(p, "gone")'
      BY <2>2, <2>4, <3>1 DEF TypeOK, Call, ConnectAlready, ConnectOpens, ConnectFails,
         ConnectConfigures, ConnectCannotConfigure, DisconnectBegin, DisconnectReset,
         DisconnectMarks, Send, At, Goto
    <3> QED BY <2>1, <2>2, <2>4, <3>2, <3>3
  <2> QED BY <2>3, <2>4
<1> QED BY <1>2, <1>3

(* The invariant is inductive.                                             *)
THEOREM SerialInvariance == Spec => []SerialInv
<1>1. Init => SerialInv
  BY SerialInit
<1>2. SerialInv /\ [Next]_vars => SerialInv'
  <2> SUFFICES ASSUME SerialInv, [Next]_vars
               PROVE  SerialInv'
    OBVIOUS
  <2>1. ASSUME NEW p \in Objects, Call(p)
        PROVE  SerialInv'
    <3>1. TypeOK'
      BY <2>1, TypeStep DEF SerialInv
    <3>2. ASSUME NEW q \in Objects PROVE Keeps(q)'
      BY <2>1, OwnStep, OtherStep DEF SerialInv
    <3>3. ForgottenOnlyByRetry'
      BY <2>1, ForgetStep DEF SerialInv
    <3> QED BY <3>1, <3>2, <3>3 DEF SerialInv
  <2>2. CASE UNCHANGED vars
    BY <2>2 DEF SerialInv, TypeOK, Keeps, ForgottenOnlyByRetry, At, vars, object
  <2> QED BY <2>1, <2>2 DEF Next, Rest
<1> QED BY <1>1, <1>2, PTL DEF Spec

-----------------------------------------------------------------------------
(* Every variable keeps its type.                                          *)
THEOREM SerialTypeCorrect == Spec => []TypeOK
BY SerialInvariance, PTL DEF SerialInv

(* connect() that returned true leaves a configured port of the object's   *)
(* own behind, until its own disconnect().                                 *)
THEOREM ConnectedPortIsOwn == Spec => []ConnectedIsConfigured
<1>1. SerialInv => ConnectedIsConfigured
  BY DEF SerialInv, Keeps, ConnectedIsConfigured
<1> QED BY <1>1, SerialInvariance, PTL

(* ::close and ::write are never given another object's descriptor.        *)
THEOREM DescriptorIsOwn == Spec => []HoldsItsOwn
<1>1. SerialInv => HoldsItsOwn
  BY DEF SerialInv, Keeps, HoldsItsOwn
<1> QED BY <1>1, SerialInvariance, PTL

(* The one way to forget a descriptor is connect() after a configuration   *)
(* that failed.                                                            *)
THEOREM ForgottenOneWay == Spec => []ForgottenOnlyByRetry
BY SerialInvariance, PTL DEF SerialInv
=============================================================================
