-------------------------- MODULE LogServerProofs --------------------------
(***************************************************************************)
(* What the log server keeps, proved for any number of clients, slots and  *)
(* tasks that log: no descriptor is lost and none is used after its close. *)
(***************************************************************************)
EXTENDS LogServer, TLAPS

\* The slots are touched by one task at a time, the one that holds the mutex.
OneInside ==
  /\ \A t \in Logger : hook[t] = "send" => mutex = t
  /\ acceptor \in {"place", "log", "give"} => mutex = Acceptor

\* Apart from its first line the accepting task logs only under the mutex, and its own
\* hook never gets to send that line.
OwnLineLost ==
  /\ hook[Acceptor] = "send" => acceptor \in {"accept", "deleted"}
  /\ hook[Acceptor] = "take" => acceptor \in {"accept", "deleted", "log"}

InSlot(c) == \E i \in LogSlot : fds[i] = c

\* What the accepting task has in hand, and whether it is in a slot too.
InHand ==
  /\ acceptor \in {"start", "accept", "deleted"} => fd = Nobody
  /\ acceptor \in {"take", "place", "refuse"} => fd # Nobody /\ ~InSlot(fd)
  /\ acceptor = "log" => placed
  /\ acceptor = "place" => ~placed
  /\ acceptor \in {"log", "give"} => fd # Nobody /\ (InSlot(fd) <=> placed)

IInv == LogTypeOK /\ OneInside /\ OwnLineLost /\ InHand /\ SocketsAccounted

LEMMA LogInitOK == LogInit => IInv
  <1> SUFFICES ASSUME LogInit PROVE IInv
    OBVIOUS
  <1>1. LogTypeOK
    BY DEF LogInit, LogTypeOK
  <1>2. OneInside /\ OwnLineLost
    BY LogAssumption DEF LogInit, OneInside, OwnLineLost, Logger
  <1>3. InHand /\ SocketsAccounted
    BY LogAssumption DEF LogInit, InHand, InSlot, SocketsAccounted
  <1> QED BY <1>1, <1>2, <1>3 DEF IInv

\* Steps of a hook that touch no slot: a line begins, is given the mutex, or is given up.
LEMMA HookWaitsOK ==
  ASSUME IInv, NEW t \in Logger, TaskLogs(t) \/ HookTakes(t) \/ HookTimesOut(t)
  PROVE  IInv'
  <1>1. /\ UNCHANGED <<fds, acceptor, fd, placed, sock, peer>>
        /\ \E step \in {"idle", "take", "send"} : hook' = [hook EXCEPT ![t] = step]
    BY DEF TaskLogs, HookTakes, HookTimesOut, HookOnly, Logs
  <1>2. LogTypeOK'
    BY <1>1 DEF IInv, LogTypeOK, TaskLogs, HookTakes, HookTimesOut
  <1>3. OneInside'
    BY <1>1, LogAssumption DEF IInv, OneInside, LogTypeOK, Logger, TaskLogs, Logs, HookTakes, HookTimesOut
  <1>4. OwnLineLost'
    BY <1>1, LogAssumption
    DEF IInv, OwnLineLost, OneInside, LogTypeOK, Logger, TaskLogs, Logs, HookTakes, HookTimesOut
  <1>5. InHand' /\ SocketsAccounted'
    BY <1>1 DEF IInv, InHand, InSlot, SocketsAccounted
  <1> QED BY <1>2, <1>3, <1>4, <1>5 DEF IInv

\* A line is sent: the sockets that fail are closed and their slots are free.
LEMMA HookSendsOK == ASSUME IInv, NEW t \in Logger, HookSends(t) PROVE IInv'
  <1>1. PICK failed \in SUBSET Connected :
          /\ fds' = [i \in LogSlot |-> IF i \in failed THEN Nobody ELSE fds[i]]
          /\ sock' = [c \in Client |-> IF \E i \in failed : fds[i] = c THEN "closed" ELSE sock[c]]
    BY DEF HookSends, ClearSlots
  <1>2. /\ hook[t] = "send" /\ mutex = t
        /\ hook' = [hook EXCEPT ![t] = "idle"] /\ mutex' = Nobody
        /\ UNCHANGED <<acceptor, fd, placed, peer>>
        /\ acceptor \notin {"place", "log", "give"}
    BY LogAssumption DEF HookSends, HookOnly, IInv, OneInside, OwnLineLost
  <1>3. failed \subseteq LogSlot /\ \A i \in failed : fds[i] # Nobody
    BY DEF Connected
  <1>4. LogTypeOK'
    BY <1>1, <1>2 DEF IInv, LogTypeOK, Logger
  <1>5. OneInside' /\ OwnLineLost'
    BY <1>2 DEF IInv, OneInside, OwnLineLost, LogTypeOK
  <1>6. InHand'
    BY <1>1, <1>2 DEF IInv, InHand, InSlot
  <1>7. ASSUME NEW c \in Client
        PROVE  sock'[c] = "open" <=> (fd' = c \/ \E i \in LogSlot : fds'[i] = c)
    <2>1. CASE \E i \in failed : fds[i] = c
      <3>1. sock'[c] = "closed"
        BY <1>1, <2>1
      <3>2. \A i \in LogSlot : fds'[i] # c
        BY <1>1, <1>3, <2>1, LogAssumption DEF IInv, SocketsAccounted
      <3>3. fd # c
        BY <1>2, <1>3, <2>1, LogAssumption DEF IInv, InHand, InSlot, LogTypeOK
      <3> QED BY <3>1, <3>2, <3>3, <1>2
    <2>2. CASE ~\E i \in failed : fds[i] = c
      <3>1. sock'[c] = sock[c] /\ fd' = fd
        BY <1>1, <1>2, <2>2
      <3>2. \A i \in LogSlot : fds'[i] = c <=> fds[i] = c
        BY <1>1, <2>2, LogAssumption
      <3> QED BY <3>1, <3>2 DEF IInv, SocketsAccounted
    <2> QED BY <2>1, <2>2
  <1>8. \A i, j \in LogSlot : fds'[i] = fds'[j] /\ fds'[i] # Nobody => i = j
    BY <1>1 DEF IInv, SocketsAccounted
  <1> QED BY <1>4, <1>5, <1>6, <1>7, <1>8 DEF IInv, SocketsAccounted

\* The first free slot takes the client in hand.
LEMMA PlacesOK == ASSUME IInv, Places PROVE IInv'
  <1>1. PICK i \in LogSlot : fds[i] = Nobody /\ fds' = [fds EXCEPT ![i] = fd]
    BY DEF Places, Connected
  <1>2. /\ acceptor = "place" /\ acceptor' = "log" /\ placed' = TRUE
        /\ hook[Acceptor] = "idle" /\ hook' = [hook EXCEPT ![Acceptor] = "take"]
        /\ UNCHANGED <<mutex, fd, sock, peer>>
    BY DEF Places, AcceptorGoes, Logs
  <1>3. fd \in Client /\ \A j \in LogSlot : fds[j] # fd
    BY <1>2 DEF IInv, InHand, InSlot, LogTypeOK
  <1>4. \A j \in LogSlot : fds'[j] = IF j = i THEN fd ELSE fds[j]
    BY <1>1 DEF IInv, LogTypeOK
  <1>5. LogTypeOK'
    BY <1>1, <1>2, <1>3 DEF IInv, LogTypeOK
  <1>6. OneInside' /\ OwnLineLost'
    BY <1>2, LogAssumption DEF IInv, OneInside, OwnLineLost, LogTypeOK, Logger
  <1>7. InHand'
    BY <1>1, <1>2, <1>3, <1>4, LogAssumption DEF InHand, InSlot
  <1>8. SocketsAccounted'
    BY <1>1, <1>2, <1>3, <1>4, LogAssumption DEF IInv, SocketsAccounted
  <1> QED BY <1>5, <1>6, <1>7, <1>8 DEF IInv

\* The accepting task listens, or ends, and says so.
LEMMA ListensOK == ASSUME IInv, Listens PROVE IInv'
  <1>1. /\ acceptor = "start" /\ acceptor' \in {"accept", "deleted"}
        /\ hook[Acceptor] = "idle" /\ hook' = [hook EXCEPT ![Acceptor] = "take"]
        /\ UNCHANGED <<fds, mutex, fd, placed, sock, peer>>
    BY DEF Listens, Logs
  <1>2. LogTypeOK'
    BY <1>1 DEF IInv, LogTypeOK
  <1>3. OneInside' /\ OwnLineLost'
    BY <1>1, LogAssumption DEF IInv, OneInside, OwnLineLost, LogTypeOK, Logger
  <1>4. InHand' /\ SocketsAccounted'
    BY <1>1 DEF IInv, InHand, InSlot, SocketsAccounted
  <1> QED BY <1>2, <1>3, <1>4 DEF IInv

\* The other steps of the accepting task leave the slots alone.
LEMMA AcceptorOK ==
  ASSUME IInv, Accepts \/ AcceptorTakes \/ FindsNoSlot \/ LogReturns \/ AcceptorGives \/ Refuses
  PROVE  IInv'
  <1>1. UNCHANGED <<fds, hook, peer>>
    BY DEF Accepts, AcceptorTakes, FindsNoSlot, LogReturns, AcceptorGives, Refuses
  <1>2. CASE AcceptorTakes \/ FindsNoSlot \/ LogReturns
    <2>1. UNCHANGED <<fd, sock>> /\ SocketsAccounted'
      BY <1>1, <1>2 DEF AcceptorTakes, FindsNoSlot, LogReturns, IInv, SocketsAccounted
    <2>2. CASE AcceptorTakes
      <3>1. /\ acceptor = "take" /\ acceptor' = "place" /\ mutex = Nobody /\ mutex' = Acceptor
            /\ placed' = FALSE
        BY <2>2 DEF AcceptorTakes, AcceptorGoes
      <3>2. \A t \in Logger : hook[t] # "send"
        BY <3>1, LogAssumption DEF IInv, OneInside, Logger
      <3> QED
        BY <1>1, <2>1, <3>1, <3>2
        DEF IInv, LogTypeOK, OneInside, OwnLineLost, InHand, InSlot, Logger
    <2>3. CASE FindsNoSlot
      <3>1. acceptor = "place" /\ acceptor' = "give" /\ UNCHANGED <<mutex, placed>>
        BY <2>3 DEF FindsNoSlot, AcceptorGoes
      <3> QED
        BY <1>1, <2>1, <3>1 DEF IInv, LogTypeOK, OneInside, OwnLineLost, InHand, InSlot
    <2>4. CASE LogReturns
      <3>1. /\ acceptor = "log" /\ acceptor' = "give" /\ hook[Acceptor] = "idle"
            /\ UNCHANGED <<mutex, placed>>
        BY <2>4 DEF LogReturns, AcceptorGoes
      <3> QED
        BY <1>1, <2>1, <3>1 DEF IInv, LogTypeOK, OneInside, OwnLineLost, InHand, InSlot
    <2> QED BY <1>2, <2>2, <2>3, <2>4
  <1>3. CASE Accepts
    <2>1. PICK c \in Client : sock[c] = "backlog" /\ fd' = c /\ sock' = [sock EXCEPT ![c] = "open"]
      BY <1>3 DEF Accepts
    <2>2. /\ acceptor = "accept" /\ acceptor' = "take" /\ hook[Acceptor] = "idle"
          /\ UNCHANGED <<mutex, placed>>
      BY <1>3 DEF Accepts, AcceptorGoes
    <2>3. ~InSlot(c) /\ fd = Nobody
      BY <2>1, <2>2 DEF IInv, SocketsAccounted, InSlot, InHand
    <2>4. LogTypeOK' /\ OneInside' /\ OwnLineLost' /\ InHand'
      BY <1>1, <2>1, <2>2, <2>3, LogAssumption
      DEF IInv, LogTypeOK, OneInside, OwnLineLost, InHand, InSlot
    <2>5. SocketsAccounted'
      BY <1>1, <2>1, <2>2, <2>3, LogAssumption DEF IInv, LogTypeOK, SocketsAccounted, InSlot
    <2> QED BY <2>4, <2>5 DEF IInv
  <1>4. CASE AcceptorGives
    <2>1. /\ acceptor = "give" /\ mutex' = Nobody /\ UNCHANGED <<placed, sock>>
          /\ \/ placed /\ acceptor' = "accept" /\ fd' = Nobody
             \/ ~placed /\ acceptor' = "refuse" /\ fd' = fd
      BY <1>4 DEF AcceptorGives
    <2>2. LogTypeOK' /\ OneInside' /\ OwnLineLost' /\ InHand'
      BY <1>1, <2>1, LogAssumption DEF IInv, LogTypeOK, OneInside, OwnLineLost, InHand, InSlot, Logger
    <2>3. SocketsAccounted'
      BY <1>1, <2>1, LogAssumption DEF IInv, InHand, InSlot, SocketsAccounted
    <2> QED BY <2>2, <2>3 DEF IInv
  <1>5. CASE Refuses
    <2>1. /\ acceptor = "refuse" /\ acceptor' = "accept" /\ fd' = Nobody
          /\ sock' = [sock EXCEPT ![fd] = "closed"] /\ UNCHANGED <<mutex, placed>>
      BY <1>5 DEF Refuses, AcceptorGoes, ClosesFd
    <2>2. fd \in Client /\ ~InSlot(fd)
      BY <2>1 DEF IInv, InHand, LogTypeOK
    <2>3. LogTypeOK' /\ OneInside' /\ OwnLineLost' /\ InHand'
      BY <1>1, <2>1, <2>2, LogAssumption DEF IInv, LogTypeOK, OneInside, OwnLineLost, InHand, InSlot
    <2>4. SocketsAccounted'
      BY <1>1, <2>1, <2>2, LogAssumption DEF IInv, LogTypeOK, SocketsAccounted, InSlot
    <2> QED BY <2>3, <2>4 DEF IInv
  <1> QED BY <1>2, <1>3, <1>4, <1>5

\* A client's connection waits for accept, or its end goes away.
LEMMA ClientOK == ASSUME IInv, NEW c \in Client, Dials(c) \/ HangsUp(c) PROVE IInv'
  <1>1. UNCHANGED <<fds, mutex, hook, acceptor, fd, placed>>
    BY DEF Dials, HangsUp
  <1>2. CASE HangsUp(c)
    BY <1>1, <1>2
    DEF HangsUp, IInv, LogTypeOK, OneInside, OwnLineLost, InHand, InSlot, SocketsAccounted
  <1>3. CASE Dials(c)
    <2>1. /\ sock[c] = "none" /\ sock' = [sock EXCEPT ![c] = "backlog"]
          /\ peer' = [peer EXCEPT ![c] = "there"]
      BY <1>3 DEF Dials
    <2>2. LogTypeOK' /\ OneInside' /\ OwnLineLost' /\ InHand'
      BY <1>1, <2>1 DEF IInv, LogTypeOK, OneInside, OwnLineLost, InHand, InSlot
    <2>3. SocketsAccounted'
      BY <1>1, <2>1 DEF IInv, LogTypeOK, SocketsAccounted
    <2> QED BY <2>2, <2>3 DEF IInv
  <1> QED BY <1>2, <1>3

LEMMA LogStepOK == IInv /\ [LogNext]_logVars => IInv'
  <1> SUFFICES ASSUME IInv, [LogNext]_logVars PROVE IInv'
    OBVIOUS
  <1>1. CASE UNCHANGED logVars
    BY <1>1 DEF logVars, IInv, LogTypeOK, OneInside, OwnLineLost, InHand, InSlot, SocketsAccounted
  <1>2. CASE \E t \in Logger : TaskLogs(t) \/ HookStep(t)
    BY <1>2, HookWaitsOK, HookSendsOK DEF HookStep
  <1>3. CASE AcceptorStep
    BY <1>3, PlacesOK, ListensOK, AcceptorOK DEF AcceptorStep
  <1>4. CASE \E c \in Client : Dials(c) \/ HangsUp(c)
    BY <1>4, ClientOK
  <1> QED BY <1>1, <1>2, <1>3, <1>4 DEF LogNext

LEMMA LogInductive == LogSpec => []IInv
  BY LogInitOK, LogStepOK, PTL DEF LogSpec

\* The log server's state is always well typed.
THEOREM LogTypes == LogSpec => []LogTypeOK
  BY LogInductive, PTL DEF IInv

\* No descriptor is lost, in two slots, or used after its close, although any task that
\* logs may close it.
THEOREM NoDescriptorLost == LogSpec => []SocketsAccounted
  BY LogInductive, PTL DEF IInv
=============================================================================
