---------------------------- MODULE WsRegistry ----------------------------
(***************************************************************************)
(* The registry of connected units in server/voice_server.py: ws_handler   *)
(* coroutines, one per connection, that share _clients under               *)
(* _clients_lock.  A step is the stretch of a coroutine between two        *)
(* awaits; asyncio runs it whole.  A unit sends one hello per connection   *)
(* (ws_client.c sends it when it connects); wake, state, env and presence  *)
(* frames change nothing here and are left out.                            *)
(***************************************************************************)
EXTENDS Naturals, Sequences

CONSTANTS
  Conn,   (* WebSocket connections, each accepted at most once             *)
  Unit,   (* unit_ids                                                      *)
  None    (* Python's None                                                 *)

ASSUME RegistryAssumption == None \notin Conn /\ None \notin Unit

VARIABLES
  clients,  (* _clients                                                    *)
  lockq,    (* _clients_lock: who holds it, then who waits, in turn        *)
  pc,       (* where each ws_handler stands                                *)
  new_id,   (* the unit_id of the hello it has received                    *)
  unit_id,  (* its local unit_id, set once it is registered                *)
  closed    (* ws.closed of each connection                                *)

regVars == <<clients, lockq, pc, new_id, unit_id, closed>>

RegTypeOK ==
  /\ clients \in [Unit -> Conn \cup {None}]
  /\ lockq \in Seq(Conn)
  /\ pc \in [Conn -> {"new", "read", "lock", "closing", "ack", "exit", "exitlock", "done"}]
  /\ new_id \in [Conn -> Unit \cup {None}] /\ unit_id \in [Conn -> Unit \cup {None}]
  /\ closed \in [Conn -> BOOLEAN]

RegInit ==
  /\ clients = [u \in Unit |-> None] /\ lockq = <<>>
  /\ pc = [c \in Conn |-> "new"]
  /\ new_id = [c \in Conn |-> None] /\ unit_id = [c \in Conn |-> None]
  /\ closed = [c \in Conn |-> FALSE]

-----------------------------------------------------------------------------
Goes(c, from, to) == pc[c] = from /\ pc' = [pc EXCEPT ![c] = to]

\* The lock is granted in the order of the requests.
Holds(c) == lockq # <<>> /\ Head(lockq) = c
Asks(c)  == lockq' = Append(lockq, c)
Releases == lockq' = Tail(lockq)

\* ws.prepare.
Accept(c) ==
  /\ Goes(c, "new", "read")
  /\ UNCHANGED <<clients, lockq, new_id, unit_id, closed>>

\* A hello frame asks for the lock.
Hello(c, u) ==
  /\ Goes(c, "read", "lock") /\ ~closed[c] /\ new_id[c] = None
  /\ new_id' = [new_id EXCEPT ![c] = u]
  /\ Asks(c)
  /\ UNCHANGED <<clients, unit_id, closed>>

\* A hello without a unit_id closes the connection; nothing was registered.
HelloRejected(c) ==
  /\ Goes(c, "read", "done") /\ ~closed[c] /\ new_id[c] = None
  /\ closed' = [closed EXCEPT ![c] = TRUE]
  /\ UNCHANGED <<clients, lockq, new_id, unit_id>>

Prev(c) == clients[new_id[c]]
\* Mutant: the newer connection just takes the entry over.
TakesOver(c) == FALSE
\* An open predecessor has to be closed first.
MustClose(c) == Prev(c) # None /\ ~closed[Prev(c)]

\* With the lock: an open predecessor is closed first, and awaited.
Supersede(c) ==
  /\ Goes(c, "lock", "closing") /\ Holds(c) /\ MustClose(c)
  /\ UNCHANGED <<clients, lockq, new_id, unit_id, closed>>

\* prev.close() marks the socket closed at some point before it returns.
CloseMarks(c) ==
  /\ pc[c] = "closing" /\ ~closed[Prev(c)]
  /\ closed' = [closed EXCEPT ![Prev(c)] = TRUE]
  /\ UNCHANGED <<clients, lockq, pc, new_id, unit_id>>

\* Mutant: closing a connection waits for its handler to finish.
CloseJoins(c) == pc[Prev(c)] = "done"

\* prev.close() waits for the peer, or its timeout, never for the handler.
CloseReturns(c) == closed[Prev(c)]

\* The entry is written, the lock released, and unit_id set, in one stretch.
Register(c) ==
  /\ \/ Goes(c, "lock", "ack") /\ Holds(c) /\ ~MustClose(c)
     \/ Goes(c, "closing", "ack") /\ CloseReturns(c)
  /\ clients' = [clients EXCEPT ![new_id[c]] = c]
  /\ unit_id' = [unit_id EXCEPT ![c] = new_id[c]]
  /\ Releases
  /\ UNCHANGED <<new_id, closed>>

\* hello_ack goes out, or the send raises and the handler leaves its loop.
AckSent(c) ==
  /\ Goes(c, "ack", "read") /\ ~closed[c]
  /\ UNCHANGED <<clients, lockq, new_id, unit_id, closed>>
AckRaises(c) ==
  /\ Goes(c, "ack", "exit")
  /\ UNCHANGED <<clients, lockq, new_id, unit_id, closed>>

\* The transport is lost, or the heartbeat gets no pong.
Lost(c) ==
  /\ pc[c] \notin {"new", "done"} /\ ~closed[c]
  /\ closed' = [closed EXCEPT ![c] = TRUE]
  /\ UNCHANGED <<clients, lockq, pc, new_id, unit_id>>

\* The message loop ends on a closed socket.
Leave(c) ==
  /\ Goes(c, "read", "exit") /\ closed[c]
  /\ UNCHANGED <<clients, lockq, new_id, unit_id, closed>>

\* finally: a registered handler asks for the lock, another just returns.
ExitUnregistered(c) ==
  /\ Goes(c, "exit", "done") /\ unit_id[c] = None
  /\ UNCHANGED <<clients, lockq, new_id, unit_id, closed>>
ExitAsks(c) ==
  /\ Goes(c, "exit", "exitlock") /\ unit_id[c] # None
  /\ Asks(c)
  /\ UNCHANGED <<clients, new_id, unit_id, closed>>

\* Mutant: the slot is cleared whoever owns it by now.
AnyOwner(c) == TRUE

\* Mutant: a closed connection is taken to be gone from the registry already.
OwnsOpen(c) == clients[unit_id[c]] = c /\ ~closed[c]

\* Only a handler that still owns the slot clears it.
Owns(c) == clients[unit_id[c]] = c
Remove(c) ==
  /\ Goes(c, "exitlock", "done") /\ Holds(c)
  /\ clients' = IF Owns(c) THEN [clients EXCEPT ![unit_id[c]] = None] ELSE clients
  /\ Releases
  /\ closed' = [closed EXCEPT ![c] = TRUE]
  /\ UNCHANGED <<new_id, unit_id>>

\* What a handler does on its own once its frame or its end has come.
HandlerStep(c) ==
  \/ Supersede(c) \/ CloseMarks(c) \/ Register(c) \/ AckSent(c) \/ AckRaises(c)
  \/ Leave(c) \/ ExitUnregistered(c) \/ ExitAsks(c) \/ Remove(c)

\* What the network does.
PeerStep(c) ==
  \/ Accept(c) \/ HelloRejected(c) \/ Lost(c)
  \/ \E u \in Unit : Hello(c, u)

RegStep == \E c \in Conn : HandlerStep(c) \/ PeerStep(c)

RegNext == RegStep

\* asyncio runs every ready coroutine, and prev.close() has a timeout.
RegFair == \A c \in Conn : WF_regVars(HandlerStep(c))

RegSpec == RegInit /\ [][RegNext]_regVars /\ RegFair

-----------------------------------------------------------------------------
(* Properties.                                                              *)

\* A unit whose hello was acknowledged, and whose connection is open, is found in
\* the registry under that connection: no cleanup of an older connection and no
\* other hello removes it while it is open.
LiveUnitRegistered ==
  \A c \in Conn : pc[c] = "read" /\ unit_id[c] # None /\ ~closed[c] =>
    clients[unit_id[c]] = c

\* A handler that has returned left nothing in the registry.
RegistryClean == \A c \in Conn : pc[c] = "done" => \A u \in Unit : clients[u] # c

\* Of all connections that registered for one unit, at most one is open.
OneOpenPerUnit ==
  \A c, d \in Conn : c # d /\ unit_id[c] = unit_id[d] /\ unit_id[c] # None =>
    closed[c] \/ closed[d]

\* A hello does not wait for ever: the lock, held across the close of the older
\* connection, is always given back.
HelloServed == \A c \in Conn : pc[c] = "lock" ~> pc[c] \in {"read", "done"}
=============================================================================
