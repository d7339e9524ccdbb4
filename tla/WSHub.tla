------------------------------- MODULE WSHub --------------------------------
(***************************************************************************)
(* The WebSocket hub: handlers register connections, Run serves the three  *)
(* channels of the hub one message at a time, each connection has a writer *)
(* (writePump) that empties its send channel and a reader (readPump) that  *)
(* unregisters it, and any goroutine may broadcast to a session or to all. *)
(*                                                                         *)
(* A send channel is its number of buffered messages: channels are first   *)
(* in, first out.  h.mu is held for writing only inside single steps of    *)
(* Run, and for reading by BroadcastToAll over its whole loop.             *)
(***************************************************************************)
EXTENDS Integers, Sequences, FiniteSets

CONSTANTS
  Clients,       \* connections; each one is opened once
  Sessions,
  SessionOf,     \* the session of each client
  Callers,       \* goroutines that broadcast
  SendCap,       \* capacity of client.send (256)
  BroadcastCap,  \* capacity of h.broadcast (256)
  MaxMessages,   \* bound: BroadcastToSession calls
  MaxSweeps      \* bound: BroadcastToAll calls

ASSUME SessionOfType == SessionOf \in [Clients -> Sessions]
ASSUME CapType == SendCap \in Nat \ {0} /\ BroadcastCap \in Nat \ {0}
ASSUME BoundType == MaxMessages \in Nat /\ MaxSweeps \in Nat

VARIABLES
  reader,     \* per client: handleWebSocket, then readPump
  writer,     \* per client: writePump
  clients,    \* h.clients, all sessions together
  closed,     \* clients whose send channel is closed
  buf,        \* per client: messages in client.send
  last,       \* per client: its session's last message put in client.send,
              \* or the last one before it was registered
  taken,      \* per session: messages Run has taken from h.broadcast
  bcast,      \* h.broadcast: the sessions of the messages in it
  run,        \* Run's loop over the clients of a session: those left
  call,       \* per caller: what it does; a sweep holds h.mu for reading
  count,      \* calls so far
  panic       \* a goroutine sent on or closed a closed channel

vars == <<reader, writer, clients, closed, buf, last, taken, bcast, run, call, count, panic>>

Idle     == [op |-> "idle"]
Locked   == \E p \in Callers : call[p].op = "sweep"  \* h.mu cannot be locked for writing

Init ==
  /\ reader = [c \in Clients |-> "new"]
  /\ writer = [c \in Clients |-> "off"]
  /\ clients = {}
  /\ closed = {}
  /\ buf = [c \in Clients |-> 0]
  /\ last = [c \in Clients |-> 0]
  /\ taken = [s \in Sessions |-> 0]
  /\ bcast = <<>>
  /\ run = {}
  /\ call = [p \in Callers |-> Idle]
  /\ count = [messages |-> 0, sweeps |-> 0]
  /\ panic = FALSE

-----------------------------------------------------------------------------
(* Connections.                                                            *)

\* handleWebSocket: blocked on h.register until Run takes the client.
Connect(c) ==
  /\ reader[c] = "new"
  /\ reader' = [reader EXCEPT ![c] = "registering"]
  /\ UNCHANGED <<writer, clients, closed, buf, last, taken, bcast, run, call, count, panic>>

\* readPump: ReadMessage fails, because the peer left, the writer closed the
\* connection or no pong came for 60 s.
StopReading(c) ==
  /\ reader[c] = "up"
  /\ reader' = [reader EXCEPT ![c] = "leaving"]
  /\ UNCHANGED <<writer, clients, closed, buf, last, taken, bcast, run, call, count, panic>>

\* writePump writes a buffered message.
Write(c) ==
  /\ writer[c] = "on" /\ buf[c] > 0
  /\ buf' = [buf EXCEPT ![c] = @ - 1]
  /\ UNCHANGED <<reader, writer, clients, closed, last, taken, bcast, run, call, count, panic>>

\* writePump ends: a write fails, or the channel is closed and empty.
StopWriting(c) ==
  /\ writer[c] = "on"
  /\ writer' = [writer EXCEPT ![c] = "ended"]
  /\ UNCHANGED <<reader, clients, closed, buf, last, taken, bcast, run, call, count, panic>>

-----------------------------------------------------------------------------
(* Run.                                                                    *)

\* close(client.send) panics on a closed channel.
Close(c) ==
  /\ closed' = closed \cup {c}
  /\ panic' = (panic \/ c \in closed)

\* So does a send; the buffer has room.
Send(c) ==
  /\ buf' = [buf EXCEPT ![c] = @ + 1]
  /\ panic' = (panic \/ c \in closed)

Full(c) == buf[c] >= SendCap

Register(c) ==
  /\ run = {} /\ ~Locked
  /\ reader[c] = "registering"
  /\ reader' = [reader EXCEPT ![c] = "up"]
  /\ writer' = [writer EXCEPT ![c] = "on"]
  /\ clients' = clients \cup {c}
  /\ last' = [last EXCEPT ![c] = taken[SessionOf[c]]]
  /\ UNCHANGED <<closed, buf, taken, bcast, run, call, count, panic>>

\* Mutant: the channel stays open.
MutUnregisterOpen(c) ==
  /\ run = {} /\ ~Locked
  /\ reader[c] = "leaving"
  /\ reader' = [reader EXCEPT ![c] = "gone"]
  /\ clients' = clients \ {c}
  /\ UNCHANGED <<writer, closed, buf, last, taken, bcast, run, call, count, panic>>

\* Mutant: a client leaves only once its buffer is empty.
MutUnregisterDrained(c) ==
  /\ run = {} /\ ~Locked
  /\ reader[c] = "leaving" /\ buf[c] = 0
  /\ reader' = [reader EXCEPT ![c] = "gone"]
  /\ IF c \in clients
     THEN clients' = clients \ {c} /\ Close(c)
     ELSE UNCHANGED <<clients, closed, panic>>
  /\ UNCHANGED <<writer, buf, last, taken, bcast, run, call, count>>

\* A client that Run has dropped is not in the map any more.
Unregister(c) ==
  /\ run = {} /\ ~Locked
  /\ reader[c] = "leaving"
  /\ reader' = [reader EXCEPT ![c] = "gone"]
  /\ IF c \in clients
     THEN clients' = clients \ {c} /\ Close(c)
     ELSE UNCHANGED <<clients, closed, panic>>
  /\ UNCHANGED <<writer, buf, last, taken, bcast, run, call, count>>

TakeMessage ==
  LET s == Head(bcast)
  IN /\ run = {} /\ bcast # <<>>
     /\ bcast' = Tail(bcast)
     /\ taken' = [taken EXCEPT ![s] = @ + 1]
     /\ run' = {c \in clients : SessionOf[c] = s}
     /\ UNCHANGED <<reader, writer, clients, closed, buf, last, call, count, panic>>

Deliver(c) ==
  /\ c \in run /\ ~Full(c)
  /\ Send(c)
  /\ last' = [last EXCEPT ![c] = taken[SessionOf[c]]]
  /\ run' = run \ {c}
  /\ UNCHANGED <<reader, writer, clients, closed, taken, bcast, call, count>>

\* Mutant: the dropped client stays in the map.
MutDropKeeps(c) ==
  /\ c \in run /\ Full(c) /\ ~Locked
  /\ Close(c)
  /\ run' = run \ {c}
  /\ UNCHANGED <<reader, writer, clients, buf, last, taken, bcast, call, count>>

\* Mutant: a slow client is passed over.
MutDropSkips(c) ==
  /\ c \in run /\ Full(c) /\ ~Locked
  /\ run' = run \ {c}
  /\ UNCHANGED <<reader, writer, clients, closed, buf, last, taken, bcast, call, count, panic>>

\* Mutant: Run waits for the client to have room.
MutDropWaits(c) == Deliver(c)

\* The default branch of Run: a client that cannot keep up is dropped.
Drop(c) ==
  /\ c \in run /\ Full(c) /\ ~Locked
  /\ clients' = clients \ {c}
  /\ Close(c)
  /\ run' = run \ {c}
  /\ UNCHANGED <<reader, writer, buf, last, taken, bcast, call, count>>

-----------------------------------------------------------------------------
(* Broadcasts.                                                             *)

\* BroadcastToSession is called: it waits for room in h.broadcast.
BroadcastToSession(p, s) ==
  /\ call[p] = Idle
  /\ count.messages < MaxMessages
  /\ count' = [count EXCEPT !.messages = @ + 1]
  /\ call' = [call EXCEPT ![p] = [op |-> "send", to |-> s]]
  /\ UNCHANGED <<reader, writer, clients, closed, buf, last, taken, bcast, run, panic>>

Enqueue(p) ==
  /\ call[p].op = "send"
  /\ Len(bcast) < BroadcastCap
  /\ bcast' = Append(bcast, call[p].to)
  /\ call' = [call EXCEPT ![p] = Idle]
  /\ UNCHANGED <<reader, writer, clients, closed, buf, last, taken, run, count, panic>>

\* BroadcastToAll takes h.mu for reading and goes over the clients.
BroadcastToAll(p) ==
  /\ call[p] = Idle
  /\ count.sweeps < MaxSweeps
  /\ count' = [count EXCEPT !.sweeps = @ + 1]
  /\ call' = [call EXCEPT ![p] = [op |-> "sweep", left |-> clients]]
  /\ UNCHANGED <<reader, writer, clients, closed, buf, last, taken, bcast, run, panic>>

\* Mutant: the room in the buffer is not looked at.
MutSweepUnchecked(p, c) ==
  /\ call[p].op = "sweep" /\ c \in call[p].left
  /\ Send(c)
  /\ call' = [call EXCEPT ![p] = [op |-> "sweep", left |-> call[p].left \ {c}]]
  /\ UNCHANGED <<reader, writer, clients, closed, last, taken, bcast, run, count>>

\* A client whose buffer is full is passed over.
Sweep(p, c) ==
  /\ call[p].op = "sweep" /\ c \in call[p].left
  /\ IF Full(c) THEN UNCHANGED <<buf, panic>> ELSE Send(c)
  /\ call' = [call EXCEPT ![p] = [op |-> "sweep", left |-> call[p].left \ {c}]]
  /\ UNCHANGED <<reader, writer, clients, closed, last, taken, bcast, run, count>>

EndSweep(p) ==
  /\ call[p].op = "sweep" /\ call[p].left = {}
  /\ call' = [call EXCEPT ![p] = Idle]
  /\ UNCHANGED <<reader, writer, clients, closed, buf, last, taken, bcast, run, count, panic>>

-----------------------------------------------------------------------------
RunStep == \/ TakeMessage
           \/ \E c \in Clients : Register(c) \/ Unregister(c) \/ Deliver(c) \/ Drop(c)

Next ==
  \/ RunStep
  \/ \E c \in Clients : Connect(c) \/ StopReading(c) \/ Write(c) \/ StopWriting(c)
  \/ \E p \in Callers : \/ \E s \in Sessions : BroadcastToSession(p, s)
                        \/ Enqueue(p) \/ BroadcastToAll(p) \/ EndSweep(p)
                        \/ \E c \in Clients : Sweep(p, c)

Spec == Init /\ [][Next]_vars

\* Run's loop and running callers go on.  Go queues the senders that wait for a
\* channel and select picks at random among the channels that are ready, so a
\* waiting sender gets its turn.  Nothing is assumed of the connections: a writer
\* may stop for good.
Fairness ==
  /\ WF_vars(RunStep)
  /\ \A c \in Clients : SF_vars(Unregister(c))
  /\ \A p \in Callers : /\ SF_vars(Enqueue(p))
                        /\ WF_vars(EndSweep(p) \/ \E c \in Clients : Sweep(p, c))

FairSpec == Spec /\ Fairness

-----------------------------------------------------------------------------
(* Properties.                                                             *)

Calls == {Idle} \cup [op : {"send"}, to : Sessions] \cup [op : {"sweep"}, left : SUBSET Clients]

\* Type invariant.
TypeOK ==
  /\ reader \in [Clients -> {"new", "registering", "up", "leaving", "gone"}]
  /\ writer \in [Clients -> {"off", "on", "ended"}]
  /\ clients \subseteq Clients /\ closed \subseteq Clients /\ run \subseteq Clients
  /\ buf \in [Clients -> 0..SendCap]
  /\ last \in [Clients -> Nat] /\ taken \in [Sessions -> Nat]
  /\ bcast \in Seq(Sessions)
  /\ call \in [Callers -> Calls]
  /\ panic \in BOOLEAN

\* No goroutine ever sends on a closed channel or closes one twice, although Run
\* closes a client both when it is slow and when its reader leaves, and although
\* BroadcastToAll sends to the clients outside Run (Run, BroadcastToAll).
NoPanic == ~panic

\* A registered client has been given every message of its session since it was
\* registered, but the one Run is delivering: one it cannot take costs it its
\* registration, so what a connection shows never has a hole (Run).
NoHole ==
  \A c \in clients :
    last[c] = taken[SessionOf[c]] - (IF c \in run THEN 1 ELSE 0)

\* A client that is not registered and not on its way in is closed: its writer is
\* told to end, whoever found out first that the client was gone (Run).
GoneIsClosed ==
  \A c \in Clients : reader[c] \in {"up", "leaving", "gone"} => c \in clients \/ c \in closed

\* BroadcastToSession and BroadcastToAll return, even if no client reads
\* anything any more (the default branches of Run and BroadcastToAll).
CallsReturn == \A p \in Callers : call[p] # Idle ~> call[p] = Idle

\* A connection whose reader has stopped leaves the hub for good.
LeavesHub == \A c \in Clients : reader[c] = "leaving" ~> (reader[c] = "gone" /\ c \notin clients)
=============================================================================
