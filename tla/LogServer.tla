----------------------------- MODULE LogServer -----------------------------
(***************************************************************************)
(* The TCP log server (main/log_server.c): every log line of every task    *)
(* goes through a hook that sends it to the connected clients, and one     *)
(* task accepts them.  Both use the slots under one mutex; the accepting   *)
(* task logs while it holds it, through the same hook.                     *)
(***************************************************************************)
EXTENDS Naturals, FiniteSets

CONSTANTS
  Client,     (* clients, each connects once                               *)
  Task,       (* the tasks that log                                        *)
  Acceptor,   (* log_server_task                                           *)
  Nobody,     (* no client in a slot or at hand, no owner of the mutex     *)
  MaxClients  (* MAX_CLIENTS                                               *)

ASSUME LogAssumption ==
  /\ Nobody \notin Client /\ Acceptor \notin Task /\ Nobody \notin Task \cup {Acceptor}
  /\ MaxClients \in Nat \ {0}

LogSlot == 1..MaxClients
Logger  == Task \cup {Acceptor}

VARIABLES
  fds,       (* s_client_fds                                               *)
  mutex,     (* s_mutex: who holds it                                      *)
  hook,      (* where each task stands in log_vprintf_hook                 *)
  acceptor,  (* where log_server_task stands                               *)
  fd,        (* its client_fd                                              *)
  placed,    (* its placed                                                 *)
  sock,      (* the unit's end of each client's connection                 *)
  peer       (* the client's end                                           *)

logVars == <<fds, mutex, hook, acceptor, fd, placed, sock, peer>>

LogTypeOK ==
  /\ fds \in [LogSlot -> Client \cup {Nobody}]
  /\ mutex \in Logger \cup {Nobody}
  /\ hook \in [Logger -> {"idle", "take", "send"}]
  /\ acceptor \in {"start", "accept", "take", "place", "log", "give", "refuse", "deleted"}
  /\ fd \in Client \cup {Nobody} /\ placed \in BOOLEAN
  /\ sock \in [Client -> {"none", "backlog", "open", "closed"}]
  /\ peer \in [Client -> {"away", "there", "gone"}]

LogInit ==
  /\ fds = [i \in LogSlot |-> Nobody] /\ mutex = Nobody
  /\ hook = [t \in Logger |-> "idle"]
  /\ acceptor = "start" /\ fd = Nobody /\ placed = FALSE
  /\ sock = [c \in Client |-> "none"] /\ peer = [c \in Client |-> "away"]

-----------------------------------------------------------------------------
(* log_vprintf_hook.                                                        *)
HookOnly == UNCHANGED <<acceptor, fd, placed, peer>>

\* A line goes to the UART first, then waits for the mutex.
Logs(t) ==
  /\ hook[t] = "idle" /\ hook' = [hook EXCEPT ![t] = "take"]

TaskLogs(t) == t \in Task /\ Logs(t) /\ HookOnly /\ UNCHANGED <<fds, mutex, sock>>

HookTakes(t) ==
  /\ hook[t] = "take" /\ mutex = Nobody
  /\ hook' = [hook EXCEPT ![t] = "send"] /\ mutex' = t
  /\ HookOnly /\ UNCHANGED <<fds, sock>>

\* Mutant: the hook waits for the mutex without a limit.
NeverGivesUp(t) == FALSE

\* 10 ms are over; whoever logs under the mutex waits them out in vain.
GivesUp(t) == mutex # Nobody

\* The line is lost for the clients.
HookTimesOut(t) ==
  /\ hook[t] = "take" /\ GivesUp(t)
  /\ hook' = [hook EXCEPT ![t] = "idle"]
  /\ HookOnly /\ UNCHANGED <<fds, mutex, sock>>

Connected == {i \in LogSlot : fds[i] # Nobody}

\* Mutant: a slot is not cleared when its socket is closed.
LeavesSlot(failed) == fds

\* Mutant: a free slot is 0, which is a descriptor.
ClearsToZero(failed) == [i \in LogSlot |-> IF i \in failed THEN 0 ELSE fds[i]]

ClearSlots(failed) == [i \in LogSlot |-> IF i \in failed THEN Nobody ELSE fds[i]]

\* send does not block; it fails for a lost peer, at the latest when the socket's buffer is
\* full, and for a slow one then.  A socket that fails is closed.
HookSends(t) ==
  /\ hook[t] = "send"
  /\ \E failed \in SUBSET Connected :
       /\ fds' = ClearSlots(failed)
       /\ sock' = [c \in Client |-> IF \E i \in failed : fds[i] = c THEN "closed" ELSE sock[c]]
  /\ hook' = [hook EXCEPT ![t] = "idle"] /\ mutex' = Nobody
  /\ HookOnly

-----------------------------------------------------------------------------
(* log_server_task.                                                         *)
AcceptorGoes(from, to) == acceptor = from /\ acceptor' = to

\* socket, bind and listen, and a line about it; the task ends if one of them fails.
Listens ==
  /\ acceptor = "start" /\ acceptor' \in {"accept", "deleted"}
  /\ Logs(Acceptor)
  /\ UNCHANGED <<fds, mutex, fd, placed, sock, peer>>

Accepts ==
  /\ AcceptorGoes("accept", "take") /\ hook[Acceptor] = "idle"
  /\ \E c \in Client :
       sock[c] = "backlog" /\ fd' = c /\ sock' = [sock EXCEPT ![c] = "open"]
  /\ UNCHANGED <<fds, mutex, hook, placed, peer>>

AcceptorTakes ==
  /\ AcceptorGoes("take", "place") /\ mutex = Nobody /\ mutex' = Acceptor
  /\ placed' = FALSE
  /\ UNCHANGED <<fds, hook, fd, sock, peer>>

\* The first free slot, and a line about it.
Places ==
  /\ AcceptorGoes("place", "log")
  /\ \E i \in LogSlot \ Connected :
       (\A j \in LogSlot \ Connected : i <= j) /\ fds' = [fds EXCEPT ![i] = fd]
  /\ placed' = TRUE /\ Logs(Acceptor)
  /\ UNCHANGED <<mutex, fd, sock, peer>>

FindsNoSlot ==
  /\ AcceptorGoes("place", "give") /\ Connected = LogSlot
  /\ UNCHANGED <<fds, mutex, hook, fd, placed, sock, peer>>

LogReturns ==
  /\ AcceptorGoes("log", "give") /\ hook[Acceptor] = "idle"
  /\ UNCHANGED <<fds, mutex, hook, fd, placed, sock, peer>>

AcceptorGives ==
  /\ acceptor = "give" /\ mutex' = Nobody
  /\ IF placed THEN acceptor' = "accept" /\ fd' = Nobody ELSE acceptor' = "refuse" /\ UNCHANGED fd
  /\ UNCHANGED <<fds, hook, placed, sock, peer>>

ClosesFd == sock' = [sock EXCEPT ![fd] = "closed"]

\* "Max log clients reached".
Refuses ==
  /\ AcceptorGoes("refuse", "accept")
  /\ ClosesFd /\ fd' = Nobody
  /\ UNCHANGED <<fds, mutex, hook, placed, peer>>

-----------------------------------------------------------------------------
(* The clients.                                                             *)
Dials(c) ==
  /\ acceptor \notin {"start", "deleted"} /\ sock[c] = "none"
  /\ peer' = [peer EXCEPT ![c] = "there"] /\ sock' = [sock EXCEPT ![c] = "backlog"]
  /\ UNCHANGED <<fds, mutex, hook, acceptor, fd, placed>>

\* A client goes away; the unit notices when a send fails.
HangsUp(c) ==
  /\ peer[c] = "there" /\ peer' = [peer EXCEPT ![c] = "gone"]
  /\ UNCHANGED <<fds, mutex, hook, acceptor, fd, placed, sock>>

HookStep(t)  == HookTakes(t) \/ HookTimesOut(t) \/ HookSends(t)
AcceptorStep ==
  \/ Listens \/ Accepts \/ AcceptorTakes \/ Places \/ FindsNoSlot \/ LogReturns
  \/ AcceptorGives \/ Refuses

LogNext ==
  \/ \E t \in Logger : TaskLogs(t) \/ HookStep(t)
  \/ AcceptorStep
  \/ \E c \in Client : Dials(c) \/ HangsUp(c)

\* Every task runs, and a mutex is given to the task that waits for it without a limit.
LogFair ==
  /\ \A t \in Logger : WF_logVars(HookStep(t))
  /\ WF_logVars(AcceptorStep) /\ SF_logVars(AcceptorTakes)

LogSpec     == LogInit /\ [][LogNext]_logVars
LogFairSpec == LogSpec /\ LogFair

-----------------------------------------------------------------------------
(* Properties.                                                              *)

\* Each accepted socket that is open is in one slot or in the acceptor's hand, and no
\* slot names a closed one: no descriptor is lost, and none is used after its close,
\* although lines that fail close sockets in the middle of any task.
SocketsAccounted ==
  /\ \A c \in Client : sock[c] = "open" <=> (fd = c \/ \E i \in LogSlot : fds[i] = c)
  /\ \A i, j \in LogSlot : fds[i] = fds[j] /\ fds[i] # Nobody => i = j

\* The accepting task waits for itself when it logs under the mutex, but never for
\* ever: it always gets back to accept.
AcceptsAgain == acceptor = "take" ~> acceptor = "accept"
=============================================================================
