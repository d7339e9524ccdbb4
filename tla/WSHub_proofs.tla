---------------------------- MODULE WSHub_proofs ----------------------------
(***************************************************************************)
(* Proofs about WSHub, for any connections, sessions, callers, buffer      *)
(* sizes and bounds.                                                       *)
(*                                                                         *)
(* That no step sends on a closed channel needs to be known of every place *)
(* a step takes a client from: the map, Run's loop and the loops of the    *)
(* BroadcastToAll calls hold open clients only.                            *)
(***************************************************************************)
EXTENDS WSHub, TLAPS

\* The clients a step may send to or close are registered, and a registered
\* client is open.
OpenClients ==
  /\ clients \cap closed = {}
  /\ run \subseteq clients
  /\ \A p \in Callers : call[p].op = "sweep" => call[p].left \subseteq clients

\* A client that Run has not taken yet is not in its maps.
Fresh == \A c \in Clients : reader[c] \in {"new", "registering"} => c \notin clients \cup closed

IInv == TypeOK /\ NoPanic /\ NoHole /\ GoneIsClosed /\ OpenClients /\ Fresh

\* Types of the values that calls can have.
LEMMA CallTypes ==
  ASSUME NEW x \in Calls
  PROVE  /\ x.op \in {"idle", "send", "sweep"}
         /\ x.op = "send" => x.to \in Sessions
         /\ x.op = "sweep" => x.left \in SUBSET Clients
         /\ x = Idle => x.op = "idle"
BY DEF Calls, Idle

LEMMA CallValues ==
  /\ Idle \in Calls /\ Idle.op = "idle"
  /\ \A s \in Sessions : [op |-> "send", to |-> s] \in Calls
  /\ \A S \in SUBSET Clients : [op |-> "sweep", left |-> S] \in Calls
BY DEF Calls, Idle

LEMMA InitIInv == Init => IInv
<1> SUFFICES ASSUME Init PROVE IInv
  OBVIOUS
<1>1. TypeOK
  <2>1. 0 \in 0..SendCap /\ <<>> \in Seq(Sessions)
    BY CapType
  <2> QED BY <2>1, CallValues DEF Init, TypeOK
<1>2. NoPanic /\ NoHole /\ GoneIsClosed /\ OpenClients /\ Fresh
  BY CallValues DEF Init, NoPanic, NoHole, GoneIsClosed, OpenClients, Fresh
<1> QED BY <1>1, <1>2 DEF IInv

\* A client's own steps change nothing that Run and the callers look at but
\* how full its buffer is.
LEMMA ClientStep ==
  ASSUME IInv, NEW c \in Clients, Connect(c) \/ StopReading(c) \/ Write(c) \/ StopWriting(c)
  PROVE  IInv'
<1>1. TypeOK'
  <2>1. CASE Write(c)
    <3>1. buf[c] \in 0..SendCap /\ buf[c] > 0
      BY <2>1 DEF Write, IInv, TypeOK
    <3>2. buf[c] - 1 \in 0..SendCap
      BY <3>1, CapType
    <3> QED BY <2>1, <3>2 DEF Write, IInv, TypeOK
  <2>2. CASE Connect(c) \/ StopReading(c) \/ StopWriting(c)
    BY <2>2 DEF Connect, StopReading, StopWriting, IInv, TypeOK
  <2> QED BY <2>1, <2>2
<1>2. UNCHANGED <<clients, closed, run, call, last, taken, panic>>
  BY DEF Connect, StopReading, Write, StopWriting
<1>3. NoPanic' /\ NoHole' /\ OpenClients'
  BY <1>2 DEF IInv, NoPanic, NoHole, OpenClients
<1>4. GoneIsClosed' /\ Fresh'
  BY <1>2 DEF IInv, TypeOK, GoneIsClosed, Fresh, Connect, StopReading, Write, StopWriting
<1> QED BY <1>1, <1>3, <1>4 DEF IInv

LEMMA RegisterStep ==
  ASSUME IInv, NEW c \in Clients, Register(c)
  PROVE  IInv'
<1>1. TypeOK'
  BY SessionOfType DEF Register, IInv, TypeOK
<1>2. NoPanic' /\ OpenClients' /\ Fresh' /\ GoneIsClosed'
  BY DEF Register, IInv, TypeOK, NoPanic, OpenClients, Fresh, GoneIsClosed
<1>3. NoHole'
  <2> SUFFICES ASSUME NEW d \in clients'
               PROVE  last'[d] = taken[SessionOf[d]] - 0
    BY DEF Register, NoHole
  <2>1. d \in Clients /\ taken[SessionOf[d]] \in Nat
    BY SessionOfType DEF Register, IInv, TypeOK
  <2>2. d # c => last[d] = taken[SessionOf[d]] - 0
    BY DEF Register, IInv, NoHole
  <2> QED BY <2>1, <2>2 DEF Register, IInv, TypeOK
<1> QED BY <1>1, <1>2, <1>3 DEF IInv

\* No call of BroadcastToAll is in its loop while h.mu is locked for writing.
LEMMA UnregisterStep ==
  ASSUME IInv, NEW c \in Clients, Unregister(c)
  PROVE  IInv'
<1> USE DEF Unregister, Close, Locked
<1>1. TypeOK'
  <2>1. clients' \subseteq Clients /\ closed' \subseteq Clients
    BY DEF IInv, TypeOK
  <2>2. panic' \in BOOLEAN
    <3>1. CASE c \in clients
      BY <3>1 DEF IInv
    <3>2. CASE c \notin clients
      BY <3>2 DEF IInv, TypeOK
    <3> QED BY <3>1, <3>2
  <2>3. reader' \in [Clients -> {"new", "registering", "up", "leaving", "gone"}]
    BY DEF IInv, TypeOK
  <2> QED BY <2>1, <2>2, <2>3 DEF IInv, TypeOK
<1>2. NoPanic' /\ OpenClients'
  BY DEF IInv, NoPanic, OpenClients
<1>3. Fresh' /\ GoneIsClosed'
  BY DEF IInv, TypeOK, Fresh, GoneIsClosed
<1>4. NoHole'
  BY DEF IInv, NoHole
<1> QED BY <1>1, <1>2, <1>3, <1>4 DEF IInv

LEMMA TakeStep ==
  ASSUME IInv, TakeMessage
  PROVE  IInv'
<1> DEFINE s == Head(bcast)
<1>1. s \in Sessions /\ bcast # <<>> /\ Tail(bcast) \in Seq(Sessions)
  BY DEF TakeMessage, IInv, TypeOK
<1>2. TypeOK'
  BY <1>1 DEF TakeMessage, IInv, TypeOK
<1>3. NoPanic' /\ OpenClients' /\ Fresh' /\ GoneIsClosed'
  BY DEF TakeMessage, IInv, NoPanic, OpenClients, Fresh, GoneIsClosed
<1>4. NoHole'
  <2> SUFFICES ASSUME NEW d \in clients
               PROVE  last[d] = taken'[SessionOf[d]] - (IF d \in run' THEN 1 ELSE 0)
    BY DEF TakeMessage, NoHole
  <2>1. d \in Clients /\ SessionOf[d] \in Sessions /\ taken[SessionOf[d]] \in Nat
    BY SessionOfType DEF IInv, TypeOK
  <2>2. last[d] = taken[SessionOf[d]]
    BY <2>1 DEF IInv, NoHole, TakeMessage
  <2> QED BY <1>1, <2>1, <2>2 DEF TakeMessage, IInv, TypeOK
<1> QED BY <1>2, <1>3, <1>4 DEF IInv

LEMMA DeliverStep ==
  ASSUME IInv, NEW c \in Clients, Deliver(c)
  PROVE  IInv'
<1>1. buf[c] + 1 \in 0..SendCap
  BY CapType DEF Deliver, Full, IInv, TypeOK
<1>2. TypeOK'
  BY <1>1, SessionOfType DEF Deliver, Send, IInv, TypeOK
<1>3. NoPanic' /\ OpenClients' /\ Fresh' /\ GoneIsClosed'
  BY DEF Deliver, Send, IInv, NoPanic, OpenClients, Fresh, GoneIsClosed
<1>4. NoHole'
  <2> SUFFICES ASSUME NEW d \in clients
               PROVE  last'[d] = taken[SessionOf[d]] - (IF d \in run' THEN 1 ELSE 0)
    BY DEF Deliver, NoHole
  <2>1. d \in Clients /\ SessionOf[d] \in Sessions /\ taken[SessionOf[d]] \in Nat
    BY SessionOfType DEF IInv, TypeOK
  <2> QED BY <2>1 DEF Deliver, IInv, TypeOK, NoHole
<1> QED BY <1>2, <1>3, <1>4 DEF IInv

LEMMA DropStep ==
  ASSUME IInv, NEW c \in Clients, Drop(c)
  PROVE  IInv'
<1> USE DEF Drop, Close, Locked
<1>1. TypeOK'
  BY DEF IInv, TypeOK
<1>2. NoPanic' /\ OpenClients'
  BY DEF IInv, NoPanic, OpenClients
<1>3. Fresh' /\ GoneIsClosed'
  BY DEF IInv, TypeOK, OpenClients, Fresh, GoneIsClosed
<1>4. NoHole'
  BY DEF IInv, NoHole
<1> QED BY <1>1, <1>2, <1>3, <1>4 DEF IInv

\* A call that starts, ends or waits touches no client; one that sends takes
\* its clients from the map.
LEMMA CallStep ==
  ASSUME IInv, NEW p \in Callers,
         \/ \E s \in Sessions : BroadcastToSession(p, s)
         \/ Enqueue(p) \/ BroadcastToAll(p) \/ EndSweep(p)
  PROVE  IInv'
<1>0. call \in [Callers -> Calls] /\ bcast \in Seq(Sessions) /\ clients \in SUBSET Clients
  BY DEF IInv, TypeOK
<1>1. call' \in [Callers -> Calls]
  BY <1>0, CallValues DEF BroadcastToSession, Enqueue, BroadcastToAll, EndSweep
<1>2. bcast' \in Seq(Sessions)
  BY <1>0, CallTypes DEF BroadcastToSession, Enqueue, BroadcastToAll, EndSweep
<1>3. UNCHANGED <<reader, writer, clients, closed, buf, last, taken, run, panic>>
  BY DEF BroadcastToSession, Enqueue, BroadcastToAll, EndSweep
<1>4. TypeOK'
  BY <1>1, <1>2, <1>3 DEF IInv, TypeOK
<1>5. NoPanic' /\ NoHole' /\ Fresh' /\ GoneIsClosed'
  BY <1>3 DEF IInv, NoPanic, NoHole, Fresh, GoneIsClosed
<1>6. OpenClients'
  <2>1. \/ call'[p].op # "sweep"
        \/ call'[p].left \subseteq clients
    BY <1>0, CallValues DEF BroadcastToSession, Enqueue, BroadcastToAll, EndSweep
  <2>2. \A q \in Callers \ {p} : call'[q] = call[q]
    BY <1>0 DEF BroadcastToSession, Enqueue, BroadcastToAll, EndSweep
  <2> QED BY <1>3, <2>1, <2>2 DEF IInv, OpenClients
<1> QED BY <1>4, <1>5, <1>6 DEF IInv

LEMMA SweepStep ==
  ASSUME IInv, NEW p \in Callers, NEW c \in Clients, Sweep(p, c)
  PROVE  IInv'
<1> DEFINE rest == call[p].left \ {c}
<1>0. /\ call \in [Callers -> Calls] /\ call[p].op = "sweep"
      /\ call[p].left \subseteq clients /\ c \in clients /\ c \notin closed
      /\ clients \in SUBSET Clients
  BY DEF Sweep, IInv, TypeOK, OpenClients
<1>1. call' = [call EXCEPT ![p] = [op |-> "sweep", left |-> rest]]
  BY DEF Sweep
<1>2. call' \in [Callers -> Calls]
  BY <1>0, <1>1, CallValues
<1>3. buf' \in [Clients -> 0..SendCap]
  <2>1. CASE Full(c)
    BY <2>1 DEF Sweep, IInv, TypeOK
  <2>2. CASE ~Full(c)
    <3>1. buf[c] + 1 \in 0..SendCap
      BY <2>2, CapType DEF Full, IInv, TypeOK
    <3> QED BY <2>2, <3>1 DEF Sweep, Send, IInv, TypeOK
  <2> QED BY <2>1, <2>2
<1>4. panic' = panic
  BY <1>0 DEF Sweep, Send, IInv, TypeOK
<1>5. UNCHANGED <<reader, writer, clients, closed, last, taken, bcast, run>>
  BY DEF Sweep
<1>6. TypeOK'
  BY <1>2, <1>3, <1>4, <1>5 DEF IInv, TypeOK
<1>7. NoPanic' /\ NoHole' /\ Fresh' /\ GoneIsClosed'
  BY <1>4, <1>5 DEF IInv, NoPanic, NoHole, Fresh, GoneIsClosed
<1>8. OpenClients'
  BY <1>0, <1>1, <1>5 DEF IInv, OpenClients
<1> QED BY <1>6, <1>7, <1>8 DEF IInv

LEMMA StepIInv == IInv /\ [Next]_vars => IInv'
<1> SUFFICES ASSUME IInv, [Next]_vars PROVE IInv'
  OBVIOUS
<1>1. CASE TakeMessage
  BY <1>1, TakeStep
<1>2. CASE \E c \in Clients : Register(c) \/ Unregister(c) \/ Deliver(c) \/ Drop(c)
  BY <1>2, RegisterStep, UnregisterStep, DeliverStep, DropStep
<1>3. CASE \E c \in Clients : Connect(c) \/ StopReading(c) \/ Write(c) \/ StopWriting(c)
  BY <1>3, ClientStep
<1>4. CASE \E p \in Callers : \/ \E s \in Sessions : BroadcastToSession(p, s)
                              \/ Enqueue(p) \/ BroadcastToAll(p) \/ EndSweep(p)
  BY <1>4, CallStep
<1>5. CASE \E p \in Callers : \E c \in Clients : Sweep(p, c)
  BY <1>5, SweepStep
<1>6. CASE UNCHANGED vars
  BY <1>6 DEF vars, IInv, TypeOK, NoPanic, NoHole, GoneIsClosed, OpenClients, Fresh
<1> QED BY <1>1, <1>2, <1>3, <1>4, <1>5, <1>6 DEF Next, RunStep

\* The invariant above holds in every reachable state of the hub.
THEOREM Invariance == Spec => []IInv
<1>1. Init => IInv
  BY InitIInv
<1>2. IInv /\ [Next]_vars => IInv'
  BY StepIInv
<1> QED BY <1>1, <1>2, PTL DEF Spec

\* Type correctness of the hub, for any buffer sizes: no buffer overflows.
THEOREM TypeCorrect == Spec => []TypeOK
<1>1. IInv => TypeOK
  BY DEF IInv
<1> QED BY <1>1, Invariance, PTL

\* No goroutine sends on a closed channel or closes a channel twice (Run,
\* BroadcastToAll).
THEOREM NoGoroutinePanics == Spec => []NoPanic
<1>1. IInv => NoPanic
  BY DEF IInv
<1> QED BY <1>1, Invariance, PTL

\* A registered client has been given every message of its session since it
\* registered, but the one being delivered (Run).
THEOREM StreamHasNoHole == Spec => []NoHole
<1>1. IInv => NoHole
  BY DEF IInv
<1> QED BY <1>1, Invariance, PTL

\* A connection that is no longer registered has its channel closed, so that
\* its writer ends (Run).
THEOREM GoneClientsAreClosed == Spec => []GoneIsClosed
<1>1. IInv => GoneIsClosed
  BY DEF IInv
<1> QED BY <1>1, Invariance, PTL
=============================================================================
