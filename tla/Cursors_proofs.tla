--------------------------- MODULE Cursors_proofs ---------------------------
(***************************************************************************)
(* Proofs about Cursors, for one API server, any number of workers, any    *)
(* token estimates, thresholds and bounds.                                 *)
(*                                                                         *)
(* Until a session is sealed there is one session, which the API server    *)
(* alone appends to.  Its events are numbered from 1 without a gap; every  *)
(* copy of it, on disk, in a load and in a worker's memory, is a part of   *)
(* it, and is the whole of it up to the EndEventNo of the copy's record    *)
(* unless that record counts more events than the copy has.  That is       *)
(* Unsealed, and what a prompt shows follows from it.                      *)
(***************************************************************************)
EXTENDS Cursors, ChainStorage_proofs

\* A part, without a gap, of the first n events of the chain.
InOrder(q, n) ==
  /\ q \in Seq(Event)
  /\ \A i \in DOMAIN q : q[i].no \in 1..n /\ q[i].msg = q[i].no
  /\ \A i, j \in DOMAIN q : q[j].no - q[i].no = j - i

\* All of it up to the EndEventNo of the record.
Complete(r, q) == \A i \in 1..r.end : i \in DOMAIN q /\ q[i].no = i

\* A file that is written shows the first events only.
Copy(r, q, n) == InOrder(q, n) /\ (Len(q) < r.count \/ Complete(r, q))

\* A chain with one session at most.
IsFirst(c, n) ==
  /\ c.meta.active <= 1 /\ c.meta.count <= 1
  /\ 1 \in DOMAIN c.sess => Copy(c.sess[1], c.evts[1], n)

FirstFiles ==
  /\ disk.meta # Unreadable => disk.meta.active <= 1 /\ disk.meta.count <= 1
  /\ disk.md[1] # Unreadable => Copy(disk.md[1].rec, disk.md[1].evts, sent)

\* Before the API server writes the session, workers can only have put a chain
\* that was just made into the file that it truncated.
Opened ==
  open[Main] = "yes" =>
    /\ writes[Main] # <<>>
    /\ Head(writes[Main]) = 1 /\ disk.md[1] # Unreadable => disk.md[1].evts = <<>>

\* The API server has every event.
AllSent ==
  /\ mem[Main].meta.total = sent
  /\ 1 \in DOMAIN mem[Main].sess =>
       /\ Len(mem[Main].evts[1]) = sent
       /\ mem[Main].sess[1].end = sent /\ mem[Main].sess[1].count = sent
  /\ ~loading[Main].on

Copies == \A p \in Procs : /\ IsFirst(mem[p], sent)
                           /\ loading[p].on => IsFirst(loading[p].got, sent)

InPrompt(w) == IF task[w] = "agent" THEN {e.msg : e \in prompt[w].events} ELSE {}

\* As long as it moved behind whole sessions only, what its agent was told reaches
\* to the cursor, and with the prompt of the task to where the cursor will move.
Agent(w) ==
  /\ writes[w] # <<>> => ~Known(w)
  /\ cursor[w] = NoCursor \/ (cursor[w].session = 1 /\ cursor[w].no \in Nat)
  /\ ~short[w] => \A n \in 1..cursor[w].no : n \in told[w]
  /\ prompt[w].on =>
       /\ ~loading[w].on /\ task[w] \in {"agent", "check", "seal", "idle"}
       /\ ~short[w] /\ mem[w].meta.active = 1 /\ 1 \in DOMAIN mem[w].sess /\ ~ReadInPart(mem[w], 1) =>
            \A n \in 1..mem[w].sess[1].end : n \in told[w] \cup InPrompt(w)

AgentType ==
  /\ prompt = [w \in Workers |-> prompt[w]]
  /\ cursor = [w \in Workers |-> cursor[w]]
  /\ told = [w \in Workers |-> told[w]]
  /\ short = [w \in Workers |-> short[w]]

OneSession == AllSent /\ FirstFiles /\ Opened /\ Copies /\ \A w \in Workers : Agent(w)

Unsealed == faults.deletes = 0 /\ ~sealed => OneSession

CInv == AgentType /\ Unsealed

USE DEF NoChain, FirstMeta

-----------------------------------------------------------------------------
(* Every behaviour is one of ChainStorage.                                 *)

LEMMA StepIsStorage == [CursorsNext]_<<vars, agentVars>> => [Next]_vars
<1> SUFFICES ASSUME CursorsNext \/ UNCHANGED <<vars, agentVars>> PROVE Next \/ UNCHANGED vars
  OBVIOUS
<1>1. CASE UNCHANGED <<vars, agentVars>>
  BY <1>1
<1>2. CASE ChainStep
  BY <1>2 DEF ChainStep, Next
<1>3. ASSUME NEW w \in Workers, \/ StartTask(w) \/ AgentAnswers(w) \/ AgentFails(w) \/ SealSession(w)
      PROVE  Next
  <2>1. ReloadThread(w) \/ EnsureAgain(w) \/ TaskFails(w) \/ SealActiveSession(w)
    BY <1>3 DEF StartTask, AgentAnswers, AgentFails, SealSession
  <2> QED BY <2>1 DEF Next
<1>4. ASSUME NEW w \in Workers, BuildPrompt(w) \/ UpdateCursor(w) PROVE UNCHANGED vars
  BY <1>4 DEF BuildPrompt, UpdateCursor
<1> QED BY <1>1, <1>2, <1>3, <1>4 DEF CursorsNext

\* The worker with prompts and cursors is the worker of ChainStorage.
THEOREM CursorsImplementStorage == CursorsSpec => Spec
<1>1. CursorsInit => Init
  BY DEF CursorsInit
<1> QED BY <1>1, StepIsStorage, PTL DEF CursorsSpec, Spec

-----------------------------------------------------------------------------
(* Copies of the session.                                                  *)

LEMMA LongerOrder ==
  ASSUME NEW n \in Nat, NEW c, IsFirst(c, n) PROVE IsFirst(c, n + 1)
BY DEF IsFirst, Copy, InOrder

\* All of the first n events: event i is the i-th.
LEMMA WholeOrder ==
  ASSUME NEW n \in Nat, NEW q, InOrder(q, n), Len(q) = n
  PROVE  DOMAIN q = 1..n /\ \A i \in 1..n : q[i].no = i
<1>1. DOMAIN q = 1..n
  BY LenProperties DEF InOrder
<1>2. ASSUME NEW i \in 1..n PROVE q[i].no = i
  <2>1. 1 \in DOMAIN q /\ n \in DOMAIN q /\ i \in DOMAIN q
    BY <1>1, <1>2
  <2>2. q[1].no \in 1..n /\ q[n].no \in 1..n /\ q[i].no \in 1..n
    BY <2>1 DEF InOrder
  <2>3. q[n].no - q[1].no = n - 1 /\ q[i].no - q[1].no = i - 1
    BY <2>1 DEF InOrder
  <2> QED BY <2>2, <2>3
<1> QED BY <1>1, <1>2

LEMMA AppendOrdered ==
  ASSUME NEW n \in Nat, NEW q, InOrder(q, n), Len(q) = n,
         NEW e, e = [no |-> n + 1, msg |-> n + 1]
  PROVE  /\ InOrder(Append(q, e), n + 1) /\ Len(Append(q, e)) = n + 1
         /\ \A i \in 1..(n + 1) : i \in DOMAIN Append(q, e) /\ Append(q, e)[i].no = i
<1>1. DOMAIN q = 1..n /\ \A i \in 1..n : q[i].no = i
  BY WholeOrder
<1>2. q \in Seq(Event) /\ e \in Event
  BY DEF InOrder, Event
<1>3. /\ Append(q, e) \in Seq(Event) /\ Len(Append(q, e)) = n + 1
      /\ \A i \in 1..n : Append(q, e)[i] = q[i]
      /\ Append(q, e)[n + 1] = e
  BY <1>2, AppendProperties
<1>4. DOMAIN Append(q, e) = 1..(n + 1)
  BY <1>3, LenProperties
<1> DEFINE a == Append(q, e)
<1>5. ASSUME NEW i \in 1..(n + 1) PROVE a[i].no = i /\ a[i].msg = i
  <2>1. CASE i \in 1..n
    BY <1>1, <1>3, <2>1 DEF InOrder
  <2>2. CASE i = n + 1
    BY <1>3, <2>2
  <2> QED BY <2>1, <2>2
<1> HIDE DEF a
<1>6. InOrder(a, n + 1)
  BY <1>3, <1>4, <1>5 DEF InOrder, a
<1> QED BY <1>3, <1>4, <1>5, <1>6 DEF a

\* A record that was just made ends before the first event.
LEMMA FreshIsFirst ==
  ASSUME NEW n \in Nat
  PROVE  /\ IsFirst(Fresh, n) /\ Fresh.meta.total = 0 /\ Fresh.sess[1].end = 0
         /\ Fresh.sess[1].count = 0 /\ Fresh.evts[1] = <<>> /\ Len(Fresh.evts[1]) = 0
<1>1. Fresh.meta = FirstMeta /\ Fresh.evts[1] = <<>>
  BY FreshIsChain
<1>2. Fresh.sess[1] = NewSession(0)
  BY DEF Fresh, Put
<1>3. Fresh.sess[1].end = 0 /\ Fresh.sess[1].count = 0
  BY <1>2 DEF NewSession
<1>4. InOrder(<<>>, n)
  <2>1. <<>> \in Seq(Event) /\ DOMAIN <<>> = {}
    OBVIOUS
  <2> QED BY <2>1 DEF InOrder
<1>5. Complete(Fresh.sess[1], Fresh.evts[1])
  BY <1>3 DEF Complete
<1> QED BY <1>1, <1>3, <1>4, <1>5 DEF IsFirst, Copy

LEMMA NoneIsFirst == ASSUME NEW n \in Nat, NEW c, c.sess = <<>>, c.meta.active <= 1, c.meta.count <= 1
                     PROVE  IsFirst(c, n)
BY DEF IsFirst

\* A part of a part.
LEMMA RestOrder ==
  ASSUME NEW n \in Nat, NEW q, InOrder(q, n), NEW k \in 1..(Len(q) + 1)
  PROVE  InOrder(SubSeq(q, k, Len(q)), n)
<1> DEFINE r == SubSeq(q, k, Len(q))
<1>1. q \in Seq(Event) /\ Len(q) \in Nat /\ DOMAIN q = 1..Len(q) /\ \A i \in 1..Len(q) : q[i] \in Event
  BY LenProperties, ElementOfSeq DEF InOrder
<1>2. /\ r \in Seq(Event)
      /\ \A i \in 1..(Len(q) - k + 1) : r[i] = q[k + i - 1]
      /\ Len(r) = IF k <= Len(q) THEN Len(q) - k + 1 ELSE 0
  <2>1. k \in Int /\ Len(q) \in Int /\ \A i \in k..Len(q) : q[i] \in Event
    BY <1>1
  <2> QED BY <2>1, SubSeqProperties
<1> HIDE DEF r
<1>3. DOMAIN r = 1..(Len(q) - k + 1)
  BY <1>1, <1>2, LenProperties
<1>4. ASSUME NEW i \in DOMAIN r PROVE r[i] = q[k + i - 1] /\ k + i - 1 \in DOMAIN q
  BY <1>1, <1>2, <1>3
<1>5. ASSUME NEW i \in DOMAIN r, NEW j \in DOMAIN r PROVE r[j].no - r[i].no = j - i
  <2>1. r[i] = q[k + i - 1] /\ r[j] = q[k + j - 1] /\ k + i - 1 \in DOMAIN q /\ k + j - 1 \in DOMAIN q
    BY <1>4
  <2>2. q[k + j - 1].no - q[k + i - 1].no = (k + j - 1) - (k + i - 1)
    BY <2>1 DEF InOrder
  <2>3. (k + j - 1) - (k + i - 1) = j - i
    BY <1>3
  <2> QED BY <2>1, <2>2, <2>3
<1>6. InOrder(r, n)
  BY <1>2, <1>4, <1>5 DEF InOrder
<1> QED BY <1>6 DEF r

LEMMA OrderBound == ASSUME NEW n \in Nat, NEW q, InOrder(q, n) PROVE Len(q) <= n
<1>1. Len(q) \in Nat /\ DOMAIN q = 1..Len(q)
  BY LenProperties DEF InOrder
<1>2. CASE Len(q) # 0
  <2>1. 1 \in DOMAIN q /\ Len(q) \in DOMAIN q
    BY <1>1, <1>2
  <2>2. q[1].no \in 1..n /\ q[Len(q)].no \in 1..n /\ q[Len(q)].no - q[1].no = Len(q) - 1
    BY <2>1 DEF InOrder
  <2> QED BY <1>1, <2>2
<1> QED BY <1>1, <1>2

LEMMA SessionOverlay ==
  ASSUME NEW f \in Nat, f # 0, NEW c, NEW d \in Overlays(f, c), d # c
  PROVE  /\ disk.md[f] # Unreadable
         /\ \E k \in (Len(c.evts) + 1)..(Len(disk.md[f].evts) + 1) :
              d = [c EXCEPT !.evts = Spliced(c.evts, disk.md[f].evts, k)]
BY DEF Overlays, FileOn, Spliced

\* What is left behind a chain that was just made is a part of the chain; nothing
\* is left behind the API server's own copy, which is the longest, or where there
\* was nothing.
LEMMA OverlaidCopy ==
  ASSUME NEW n \in Nat, NEW c \in File, Copy(c.rec, c.evts, n),
         \/ c.evts = <<>> /\ c.rec.end = 0
         \/ Len(c.evts) = n
         \/ disk.md[1] # Unreadable => disk.md[1].evts = <<>>,
         disk.md[1] # Unreadable => disk.md[1] \in File /\ Copy(disk.md[1].rec, disk.md[1].evts, n),
         NEW d \in Overlays(1, c)
  PROVE  Copy(d.rec, d.evts, n)
<1>1. CASE d = c
  BY <1>1
<1>2. CASE d # c
  <2> DEFINE old == disk.md[1].evts
  <2>1. disk.md[1] # Unreadable
    BY <1>2, SessionOverlay
  <2>2. PICK k \in (Len(c.evts) + 1)..(Len(old) + 1) :
             d = [c EXCEPT !.evts = Spliced(c.evts, old, k)]
    BY <1>2, SessionOverlay
  <2>3. old \in Seq(Event) /\ InOrder(old, n) /\ Len(old) \in Nat /\ c.evts \in Seq(Event) /\ Len(c.evts) \in Nat
    BY <2>1, LenProperties DEF File, Copy
  <2>4. d.rec = c.rec /\ d.evts = c.evts \o SubSeq(old, k, Len(old))
    BY <2>2 DEF File, Spliced
  <2> HIDE DEF old
  <2>5. SubSeq(old, k, Len(old)) \in Seq(Event) /\ InOrder(SubSeq(old, k, Len(old)), n)
    <3>1. k \in 1..(Len(old) + 1)
      BY <2>3
    <3>2. InOrder(SubSeq(old, k, Len(old)), n)
      BY <2>3, <3>1, RestOrder
    <3> QED BY <3>2 DEF InOrder
  <2>6. CASE c.evts = <<>> /\ c.rec.end = 0
    <3>1. c.evts \o SubSeq(old, k, Len(old)) = SubSeq(old, k, Len(old))
      BY <2>5, <2>6, ConcatEmptySeq
    <3> QED BY <2>4, <2>5, <2>6, <3>1 DEF Copy, Complete
  <2>7. CASE Len(c.evts) = n
    <3>1. Len(old) = n /\ k = n + 1
      BY <2>3, <2>7, OrderBound
    <3>2. SubSeq(old, k, Len(old)) = <<>>
      BY <2>3, <3>1, SubSeqEmpty
    <3>3. c.evts \o <<>> = c.evts
      BY <2>3, ConcatEmptySeq
    <3> QED BY <2>4, <3>2, <3>3
  <2>8. CASE disk.md[1].evts = <<>>
    <3>1. SubSeq(old, k, Len(old)) = <<>>
      <4>1. old = <<>> /\ Len(old) = 0
        BY <2>8 DEF old
      <4>2. k > Len(old) /\ k \in Int
        BY <2>3, <4>1
      <4> QED BY <2>3, <4>2, SubSeqEmpty
    <3>2. c.evts \o <<>> = c.evts
      BY <2>3, ConcatEmptySeq
    <3> QED BY <2>4, <3>1, <3>2
  <2> QED BY <2>1, <2>6, <2>7, <2>8
<1> QED BY <1>1, <1>2

-----------------------------------------------------------------------------
(* The steps of the chain.                                                 *)

LEMMA SameAgent ==
  ASSUME NEW w \in Workers, Agent(w), mem'[w] = mem[w], task'[w] = task[w],
         writes'[w] = writes[w] \/ writes'[w] = <<>>, loading'[w].on => loading[w].on,
         UNCHANGED <<prompt, cursor, told, short>>
  PROVE  Agent(w)'
BY DEF Agent, Known, InPrompt

LEMMA SameChains ==
  ASSUME AllSent, Copies, UNCHANGED <<mem, loading, sent>> PROVE AllSent' /\ Copies'
BY DEF AllSent, Copies

LEMMA SameFiles == ASSUME FirstFiles, UNCHANGED <<disk, sent>> PROVE FirstFiles'
BY DEF FirstFiles

LEMMA SameOpened ==
  ASSUME Opened, disk' = disk,
         \/ open'[Main] # "yes"
         \/ open' = open /\ (writes'[Main] = writes[Main] \/ writes[Main] = <<>>)
  PROVE  Opened'
BY DEF Opened

\* Steps that change no chain, no file and no prompt.
LEMMA SameSession ==
  ASSUME OneSession, UNCHANGED <<mem, disk, loading, sent, task, prompt, cursor, told, short>>, Opened',
         \A w \in Workers : writes'[w] = writes[w] \/ writes'[w] = <<>>
  PROVE  OneSession'
BY SameAgent, SameChains, SameFiles DEF OneSession

LEMMA TruncateKeeps ==
  ASSUME OneServer, IInv, OneSession, NEW p \in Procs, Truncate(p), UNCHANGED agentVars
  PROVE  OneSession'
<1>1. PICK g \in 0..MaxSessions : g = Head(writes[p])
  <2>1. Head(writes[p]) \in 0..MaxSessions
    BY ImageType DEF Truncate
  <2> QED BY <2>1
<1>2. /\ disk' = WithFile(g, Unreadable)
      /\ UNCHANGED <<mem, writes, loading, sent, task, prompt, cursor, told, short>>
  BY <1>1 DEF Truncate, agentVars
<1>3. /\ disk'.meta = disk.meta \/ disk'.meta = Unreadable
      /\ disk'.md[1] = disk.md[1] \/ disk'.md[1] = Unreadable
  <2>1. disk = [meta |-> disk.meta, md |-> disk.md] /\ 1 \in DOMAIN disk.md
    BY BoundType DEF IInv, DiskType
  <2> QED BY <1>1, <1>2, <2>1 DEF WithFile
<1>4. FirstFiles'
  BY <1>2, <1>3 DEF OneSession, FirstFiles
<1>5. Opened'
  <2>1. CASE p = Main
    <3>1. writes'[Main] # <<>> /\ Head(writes'[Main]) = g
      BY <1>1, <1>2, <2>1 DEF Truncate
    <3>2. g = 1 => disk'.md[1] = Unreadable
      <4>1. 1 \in DOMAIN disk.md
        BY BoundType DEF IInv, DiskType
      <4> QED BY <1>2, <4>1 DEF WithFile
    <3> QED BY <3>1, <3>2 DEF Opened
  <2>2. CASE p # Main
    <3>1. open'[Main] = open[Main]
      BY <2>2 DEF Truncate, IInv, WriteType, OneServer, Procs
    <3> QED BY <1>2, <1>3, <3>1 DEF OneSession, Opened
  <2> QED BY <2>1, <2>2
<1> QED BY <1>2, <1>4, <1>5, SameAgent, SameChains DEF OneSession

\* Only the API server's method writes a chain that is in memory.
LEMMA WrittenImage ==
  ASSUME OneServer, IInv, OneSession, NEW p \in Procs, writes[p] # <<>>
  PROVE  LET f == Head(writes[p]) c == Image(p, f)
         IN /\ f \in {0, 1}
            /\ f = 0 => c.active <= 1 /\ c.count <= 1
            /\ f = 1 => /\ c \in File /\ Copy(c.rec, c.evts, sent)
                        /\ \/ c.evts = <<>> /\ c.rec.end = 0
                           \/ p = Main /\ Len(c.evts) = sent /\ c.rec.count = sent
<1> DEFINE f == Head(writes[p])
<1>1. f = 0 \/ f \in (IF Known(p) THEN DOMAIN mem[p].sess ELSE {1})
  <2>1. writes[p] \in Seq(0..MaxSessions)
    BY DEF IInv, WriteType
  <2>2. 1 \in DOMAIN writes[p] /\ writes[p][1] = Head(writes[p])
    BY <2>1, LenProperties, EmptySeq
  <2> QED BY <2>2 DEF IInv, WriteType
<1>2. IsFirst(mem[p], sent) /\ IsChain(mem[p])
  BY DEF OneSession, Copies, IInv, MemType
<1>3. f \in {0, 1}
  <2>1. DOMAIN mem[p].sess \subseteq 1..mem[p].meta.count /\ mem[p].meta.count \in Nat
        /\ mem[p].meta.count <= 1
    BY <1>2 DEF IsFirst, IsChain, Meta
  <2>2. DOMAIN mem[p].sess \subseteq {1}
    BY <2>1
  <2> QED BY <1>1, <2>2
<1>4. f # 0 => Image(p, f) \in File
  BY ImageType
<1>5. sent \in Nat
  BY DEF IInv, RestType
<1>6. CASE Known(p)
  <2>1. p = Main
    BY <1>6 DEF OneServer, Procs, OneSession, Agent
  <2>2. f = 1 => /\ 1 \in DOMAIN mem[p].sess
                 /\ Image(p, f) = [rec |-> mem[p].sess[1], evts |-> mem[p].evts[1]]
    BY <1>1, <1>6 DEF Image
  <2>3. f = 0 => Image(p, f) = mem[p].meta
    BY <1>6 DEF Image
  <2> QED BY <1>2, <1>3, <1>4, <2>1, <2>2, <2>3 DEF IsFirst, OneSession, AllSent
<1>7. CASE ~Known(p)
  <2>1. f = 1 => Image(p, f) = [rec |-> Fresh.sess[1], evts |-> Fresh.evts[1]]
    BY <1>7 DEF Image
  <2>2. f = 0 => Image(p, f) = Fresh.meta
    BY <1>7 DEF Image
  <2>3. IsFirst(Fresh, sent) /\ Fresh.sess[1].end = 0
    BY <1>5, FreshIsFirst
  <2> QED BY <1>3, <1>4, <2>1, <2>2, <2>3, FreshIsChain DEF IsFirst
<1> QED BY <1>6, <1>7

\* What a worker writes into the file that the API server truncated has no events.
LEMMA WorkerOpens ==
  ASSUME IInv, OneSession, NEW g \in {0, 1}, NEW c, NEW d \in Overlays(g, c),
         g = 1 => c \in File /\ c.evts = <<>>,
         disk' = WithFile(g, d), open'[Main] = open[Main], writes'[Main] = writes[Main]
  PROVE  Opened'
<1>1. CASE g = 0
  <2>1. disk'.md = disk.md
    BY <1>1 DEF WithFile, IInv, DiskType
  <2> QED BY <2>1 DEF OneSession, Opened
<1>2. CASE g = 1
  <2>1. disk'.md[1] = d
    BY <1>2, BoundType DEF WithFile, IInv, DiskType
  <2>2. SUFFICES ASSUME open[Main] = "yes", Head(writes[Main]) = 1 PROVE d.evts = <<>>
    BY <2>1 DEF OneSession, Opened
  <2>3. disk.md[1] # Unreadable => disk.md[1].evts = <<>>
    BY <2>2 DEF OneSession, Opened
  <2>4. CASE d = c
    BY <1>2, <2>4
  <2>5. CASE d # c
    <3>1. /\ disk.md[1] # Unreadable
          /\ \E k \in (Len(c.evts) + 1)..(Len(disk.md[1].evts) + 1) :
               d = [c EXCEPT !.evts = Spliced(c.evts, disk.md[1].evts, k)]
      BY <1>2, <2>5, SessionOverlay
    <3>2. disk.md[1].evts = <<>> /\ c.evts = <<>> /\ Len(<<>>) = 0
      BY <1>2, <2>3, <3>1
    <3>3. PICK k \in 1..1 : d = [c EXCEPT !.evts = Spliced(<<>>, <<>>, k)]
      BY <3>1, <3>2
    <3>4. Spliced(<<>>, <<>>, k) = <<>>
      <4>1. SubSeq(<<>>, k, Len(<<>>)) = <<>>
        BY SubSeqEmpty
      <4>2. <<>> \o <<>> = <<>>
        BY ConcatEmptySeq
      <4> QED BY <4>1, <4>2 DEF Spliced
    <3> QED BY <1>2, <3>3, <3>4 DEF File
  <2> QED BY <2>4, <2>5
<1> QED BY <1>1, <1>2

LEMMA StoreKeeps ==
  ASSUME OneServer, IInv, OneSession, NEW p \in Procs, Store(p), UNCHANGED agentVars
  PROVE  OneSession'
<1>0. writes[p] # <<>> /\ sent \in Nat /\ writes[p] \in Seq(0..MaxSessions)
  BY DEF Store, IInv, RestType, WriteType
<1>1. PICK g \in {0, 1} : g = Head(writes[p])
  BY <1>0, WrittenImage
<1>2. PICK c : /\ c = Image(p, g)
               /\ g = 0 => c.active <= 1 /\ c.count <= 1
               /\ g = 1 => /\ c \in File /\ Copy(c.rec, c.evts, sent)
                           /\ \/ c.evts = <<>> /\ c.rec.end = 0
                              \/ p = Main /\ Len(c.evts) = sent /\ c.rec.count = sent
  BY <1>0, <1>1, WrittenImage
<1>3. FirstFiles'
  <2>1. ASSUME open[p] # "unlinked" PROVE FirstFiles'
    <3>1. PICK d \in Overlays(g, c) : disk' = WithFile(g, d)
      BY <1>1, <1>2, <2>1 DEF Store
    <3>2. CASE g = 0
      <4>1. d = c \/ d = Unreadable
        BY <3>2 DEF Overlays
      <4>2. disk'.meta = d /\ disk'.md = disk.md /\ sent' = sent
        BY <3>1, <3>2 DEF WithFile, IInv, DiskType, Store
      <4> QED BY <1>2, <3>2, <4>1, <4>2 DEF FirstFiles, OneSession
    <3>3. CASE g = 1
      <4>1. disk.md[1] # Unreadable => disk.md[1] \in File /\ Copy(disk.md[1].rec, disk.md[1].evts, sent)
        BY BoundType DEF IInv, DiskType, OneSession, FirstFiles
      <4>2. Copy(d.rec, d.evts, sent)
        BY <1>0, <1>2, <3>3, <4>1, OverlaidCopy
      <4>3. disk'.meta = disk.meta /\ disk'.md[1] = d /\ sent' = sent
        BY <3>1, <3>3, BoundType DEF WithFile, IInv, DiskType, Store
      <4> QED BY <4>2, <4>3 DEF FirstFiles, OneSession
    <3> QED BY <3>2, <3>3
  <2>2. CASE open[p] = "unlinked"
    BY <2>2, SameFiles DEF Store, OneSession
  <2> QED BY <2>1, <2>2
<1>o. Opened'
  <2>1. CASE p = Main
    BY <2>1 DEF Store, IInv, WriteType, Opened
  <2>2. CASE p # Main
    <3>1. Main \in Procs
      BY DEF OneServer, Procs
    <3>2. open'[Main] = open[Main] /\ writes'[Main] = writes[Main]
      BY <2>2, <3>1 DEF Store, IInv, WriteType
    <3>3. CASE disk' = disk
      BY <3>2, <3>3 DEF OneSession, Opened
    <3>4. CASE disk' # disk
      <4>1. PICK d \in Overlays(g, c) : disk' = WithFile(g, d)
        BY <1>1, <1>2, <3>4 DEF Store
      <4> QED BY <1>2, <2>2, <3>2, <4>1, WorkerOpens
    <3> QED BY <3>3, <3>4
  <2> QED BY <2>1, <2>2
<1>4. /\ UNCHANGED <<loading, sent, task, prompt, cursor, told, short>>
      /\ \A q \in Procs : q # p => mem'[q] = mem[q] /\ writes'[q] = writes[q]
  BY DEF Store, IInv, MemType, WriteType, agentVars
<1>5. \/ mem'[p] = mem[p]
      \/ mem'[p] = Fresh /\ ~Known(p) /\ writes'[p] = <<>>
  BY <1>0, TailType DEF Store, IInv, MemType, WriteType
<1>6. Copies'
  BY <1>0, <1>4, <1>5, FreshIsFirst DEF OneSession, Copies
<1>7. AllSent'
  <2>1. ~Known(Main) => sent = 0
    BY DEF Known, OneSession, AllSent
  <2>2. Main \in Procs
    BY DEF OneServer, Procs
  <2>3. CASE mem'[Main] = mem[Main]
    BY <1>4, <2>3 DEF OneSession, AllSent
  <2>4. CASE mem'[Main] # mem[Main]
    <3>1. mem'[Main] = Fresh /\ sent = 0
      BY <1>4, <1>5, <2>1, <2>2, <2>4
    <3> QED BY <1>4, <3>1, FreshIsFirst DEF OneSession, AllSent
  <2> QED BY <2>3, <2>4
<1>8. ASSUME NEW w \in Workers PROVE Agent(w)'
  <2>1. w \in Procs /\ Agent(w)
    BY DEF Procs, OneSession
  <2>2. CASE w = p /\ mem'[p] # mem[p]
    <3>1. mem'[w] = Fresh /\ writes'[w] = <<>> /\ mem'[w].sess[1].end = 0
      BY <1>0, <1>5, <2>2, FreshIsFirst
    <3> QED BY <1>4, <2>1, <3>1 DEF Agent, InPrompt
  <2>3. CASE w = p /\ mem'[p] = mem[p]
    <3>1. writes[w] # <<>> => ~Known(w)
      BY <2>1 DEF Agent
    <3> QED BY <1>0, <1>4, <2>1, <2>3, <3>1 DEF Agent, InPrompt, Known
  <2>4. CASE w # p
    BY <1>4, <2>1, <2>4, SameAgent
  <2> QED BY <2>2, <2>3, <2>4
<1> QED BY <1>3, <1>o, <1>6, <1>7, <1>8 DEF OneSession

\* The first events of the API server's copy are in order, and fewer than its
\* record counts unless they are all.
LEMMA CutCopy ==
  ASSUME NEW n \in Nat, NEW c \in File, Copy(c.rec, c.evts, n), Len(c.evts) = n, c.rec.count = n,
         NEW k \in 0..Len(c.evts)
  PROVE  Copy(Cut(c, k).rec, Cut(c, k).evts, n)
<1>1. PICK h : h = Cut(c, k) /\ h \in File /\ h.rec = c.rec /\ Len(h.evts) = k /\ DOMAIN h.evts = 1..k
               /\ \A i \in 1..k : i \in DOMAIN c.evts /\ h.evts[i] = c.evts[i]
  BY CutType
<1>2. InOrder(h.evts, n)
  BY <1>1 DEF File, Copy, InOrder
<1>3. CASE k = n
  <2>1. DOMAIN c.evts = 1..n
    BY WholeOrder DEF Copy
  <2>2. Complete(c.rec, c.evts)
    BY DEF Copy
  <2>3. Complete(h.rec, h.evts)
    BY <1>1, <1>3, <2>1, <2>2 DEF Complete
  <2> QED BY <1>1, <1>2, <2>3 DEF Copy
<1>4. CASE k # n
  <2>1. Len(h.evts) < h.rec.count
    BY <1>1, <1>4
  <2> QED BY <1>1, <1>2, <2>1 DEF Copy
<1> QED BY <1>3, <1>4

LEMMA WritePartKeeps ==
  ASSUME OneServer, IInv, OneSession, NEW p \in Procs, WritePart(p), UNCHANGED agentVars
  PROVE  OneSession'
<1>0. writes[p] # <<>> /\ sent \in Nat /\ open[p] = "yes"
  BY DEF WritePart, IInv, RestType
<1>1. PICK f \in 1..MaxSessions, c \in File, k \in Nat :
         /\ f = Head(writes[p]) /\ c = Image(p, f) /\ k \in 0..Len(c.evts)
         /\ \E d \in Overlays(f, Cut(c, k)) : disk' = WithFile(f, d)
  BY PartWritten
<1>2. /\ f = 1 /\ Copy(c.rec, c.evts, sent)
      /\ \/ c.evts = <<>> /\ c.rec.end = 0
         \/ p = Main /\ Len(c.evts) = sent /\ c.rec.count = sent
  BY <1>0, <1>1, WrittenImage
<1>3. PICK h : h = Cut(c, k)
  OBVIOUS
<1>4. /\ h \in File /\ Copy(h.rec, h.evts, sent)
      /\ (h.evts = <<>> /\ h.rec.end = 0) \/ p = Main
  <2>1. h \in File /\ h.rec = c.rec /\ Len(h.evts) = k /\ k <= Len(c.evts)
    BY <1>1, <1>3, CutType
  <2>2. CASE c.evts = <<>> /\ c.rec.end = 0
    <3>1. h.evts = <<>>
      <4>1. Len(h.evts) = 0 /\ h.evts \in Seq(Event)
        BY <1>1, <2>1, <2>2 DEF File
      <4> QED BY <4>1, EmptySeq
    <3>2. h.evts = c.evts
      BY <2>2, <3>1
    <3> QED BY <1>2, <2>1, <2>2, <3>1, <3>2
  <2>3. CASE p = Main /\ Len(c.evts) = sent /\ c.rec.count = sent
    <3>1. Copy(h.rec, h.evts, sent)
      BY <1>0, <1>1, <1>2, <1>3, <2>3, CutCopy
    <3> QED BY <2>1, <2>3, <3>1
  <2> QED BY <1>2, <2>2, <2>3
<1>5. PICK d \in Overlays(1, h) : disk' = WithFile(1, d)
  BY <1>1, <1>2, <1>3
<1>6. /\ UNCHANGED <<mem, loading, sent, task, writes, prompt, cursor, told, short>>
      /\ disk'.meta = disk.meta /\ disk'.md[1] = d
  BY <1>5, BoundType DEF WritePart, WithFile, IInv, DiskType, agentVars
<1>7. Copy(d.rec, d.evts, sent)
  <2>1. disk.md[1] # Unreadable => disk.md[1] \in File /\ Copy(disk.md[1].rec, disk.md[1].evts, sent)
    BY BoundType DEF IInv, DiskType, OneSession, FirstFiles
  <2>2. p = Main => (disk.md[1] # Unreadable => disk.md[1].evts = <<>>)
    BY <1>0, <1>1, <1>2 DEF OneSession, Opened
  <2> QED BY <1>0, <1>4, <1>5, <2>1, <2>2, OverlaidCopy
<1>8. FirstFiles'
  BY <1>6, <1>7 DEF FirstFiles, OneSession
<1>9. Opened'
  <2>1. CASE p = Main
    BY <2>1 DEF WritePart, IInv, WriteType, Opened
  <2>2. CASE p # Main
    <3>1. open'[Main] = open[Main] /\ writes'[Main] = writes[Main]
      BY <2>2 DEF WritePart, IInv, WriteType, OneServer, Procs
    <3> QED BY <1>4, <1>5, <2>2, <3>1, WorkerOpens
  <2> QED BY <2>1, <2>2
<1> QED BY <1>6, <1>8, <1>9, SameAgent, SameChains DEF OneSession

LEMMA ReadKeeps ==
  ASSUME OneServer, IInv, OneSession, NEW p \in Procs, ReadSession(p), UNCHANGED agentVars PROVE OneSession'
<1> DEFINE l == loading[p]
           s == l.next
<1>1. l.on /\ s \in 1..l.got.meta.count /\ IsChain(l.got) /\ IsFirst(l.got, sent)
  BY DEF ReadSession, IInv, LoadType, IsLoad, IsChain, Meta, OneSession, Copies
<1>2. s = 1
  <2>1. l.got.meta.count \in Nat /\ l.got.meta.count <= 1
    BY <1>1 DEF IsChain, IsFirst, Meta
  <2> QED BY <1>1, <2>1
<1>3. PICK g : /\ loading' = [loading EXCEPT ![p] = [l EXCEPT !.next = s + 1, !.got = g]]
               /\ g = IF disk.md[1] = Unreadable THEN l.got
                      ELSE [l.got EXCEPT !.sess = Put(l.got.sess, 1, disk.md[1].rec),
                                         !.evts = Put(l.got.evts, 1, disk.md[1].evts)]
  BY <1>2 DEF ReadSession
<1>4. IsFirst(g, sent)
  <2>1. CASE disk.md[1] = Unreadable
    BY <1>1, <1>3, <2>1
  <2>2. CASE disk.md[1] # Unreadable
    <3>1. Copy(disk.md[1].rec, disk.md[1].evts, sent)
      BY <2>2 DEF OneSession, FirstFiles
    <3>2. /\ g.meta = l.got.meta /\ g.sess = Put(l.got.sess, 1, disk.md[1].rec)
          /\ g.evts = Put(l.got.evts, 1, disk.md[1].evts)
      BY <1>1, <1>3, <2>2 DEF IsChain
    <3>3. g.sess[1] = disk.md[1].rec /\ g.evts[1] = disk.md[1].evts
      BY <3>2 DEF Put
    <3> QED BY <1>1, <3>1, <3>2, <3>3 DEF IsFirst
  <2> QED BY <2>1, <2>2
<1>5. /\ UNCHANGED <<mem, disk, sent, task, writes, prompt, cursor, told, short>>
      /\ \A q \in Procs : q # p => loading'[q] = loading[q]
      /\ loading'[p].got = g /\ loading'[p].on = l.on
  <2>1. loading = [q \in Procs |-> loading[q]] /\ DOMAIN l = {"on", "next", "got"}
    BY DEF IInv, LoadType, IsLoad
  <2>2. UNCHANGED <<mem, disk, sent, task, writes, prompt, cursor, told, short>>
    BY DEF ReadSession, agentVars
  <2> HIDE DEF s
  <2>3. loading'[p] = [l EXCEPT !.next = s + 1, !.got = g]
    BY <1>3, <2>1
  <2> QED BY <1>3, <2>1, <2>2, <2>3
<1>6. Copies'
  BY <1>4, <1>5 DEF OneSession, Copies
<1>7. AllSent'
  <2>1. p # Main /\ Main \in Procs
    BY <1>1 DEF OneSession, AllSent, OneServer, Procs
  <2> QED BY <1>5, <2>1 DEF OneSession, AllSent
<1>8. ASSUME NEW w \in Workers PROVE Agent(w)'
  <2>1. w \in Procs /\ (loading'[w].on => loading[w].on) /\ Agent(w)
    BY <1>1, <1>5 DEF Procs, OneSession
  <2> QED BY <1>5, <2>1, SameAgent
<1>9. Opened'
  BY <1>5, SameOpened DEF ReadSession, OneSession
<1> QED BY <1>5, <1>6, <1>7, <1>8, <1>9, SameFiles DEF OneSession

LEMMA EndLoadKeeps ==
  ASSUME OneServer, IInv, OneSession, NEW p \in Procs, EndLoad(p), UNCHANGED agentVars
  PROVE  OneSession'
<1>1. /\ loading[p].on /\ mem'[p] = loading[p].got /\ ~loading'[p].on
      /\ \A q \in Procs : q # p => /\ loading'[q] = loading[q] /\ mem'[q] = mem[q]
                                   /\ task'[q] = task[q]
      /\ UNCHANGED <<disk, sent, writes, prompt, cursor, told, short>>
  <2>1. /\ mem = [q \in Procs |-> mem[q]] /\ loading = [q \in Procs |-> loading[q]]
        /\ task = [q \in Procs |-> task[q]]
    BY DEF IInv, MemType, LoadType, RestType
  <2> QED BY <2>1 DEF EndLoad, agentVars, NotLoading
<1>2. p # Main /\ p \in Workers /\ Main \in Procs
  BY <1>1 DEF OneSession, AllSent, OneServer, Procs
<1>3. Copies'
  BY <1>1 DEF OneSession, Copies
<1>4. AllSent'
  BY <1>1, <1>2 DEF OneSession, AllSent
<1>5. ASSUME NEW w \in Workers PROVE Agent(w)'
  <2>1. CASE w = p
    <3>1. writes'[w] = <<>> /\ ~prompt[w].on
      BY <1>1, <1>2, <2>1 DEF OneSession, Agent, IInv, LoadType
    <3>2. Agent(w)
      BY DEF OneSession
    <3> QED BY <1>1, <3>1, <3>2 DEF Agent
  <2>2. CASE w # p
    <3>1. w \in Procs /\ Agent(w)
      BY DEF Procs, OneSession
    <3> QED BY <1>1, <2>2, <3>1, SameAgent
  <2> QED BY <2>1, <2>2
<1>6. Opened'
  BY <1>1, SameOpened DEF EndLoad, OneSession
<1> QED BY <1>1, <1>3, <1>4, <1>5, <1>6, SameFiles DEF OneSession

LEMMA AppendKeeps ==
  ASSUME OneServer, IInv, OneSession, AppendEvent(Main), UNCHANGED agentVars PROVE OneSession'
<1> DEFINE m == mem[Main]
           n == m.meta.total + 1
           w == EstimateTokens(sent + 1)
           e == [no |-> n, msg |-> sent + 1]
<1>1. Main \in Procs /\ sent \in Nat /\ m.meta.total = sent /\ IsChain(m) /\ IsFirst(m, sent)
  <2>1. Main \in Procs
    BY DEF OneServer, Procs
  <2>2. sent \in Nat
    BY DEF IInv, RestType
  <2>3. IsChain(m)
    BY <2>1 DEF IInv, MemType
  <2> QED BY <2>1, <2>2, <2>3 DEF OneSession, AllSent, Copies
<1>2. m.meta.active = 1 /\ 1 \in DOMAIN m.sess
  <2>1. m.meta.active \in DOMAIN m.sess /\ m.meta.active \in Nat /\ m.meta.active <= 1
    BY <1>1 DEF AppendEvent, IsFirst, IsChain, Meta
  <2>2. 0 \notin DOMAIN m.sess
    BY <1>1 DEF IsChain, Meta
  <2> QED BY <2>1, <2>2
<1>3. /\ mem'[Main].meta = [m.meta EXCEPT !.total = n]
      /\ mem'[Main].sess = [m.sess EXCEPT ![1] = WithEvent(m.sess[1], n, w)]
      /\ mem'[Main].evts = [m.evts EXCEPT ![1] = Append(m.evts[1], e)]
      /\ sent' = sent + 1
      /\ \A q \in Procs : q # Main => mem'[q] = mem[q] /\ writes'[q] = writes[q]
      /\ UNCHANGED <<disk, loading, task, prompt, cursor, told, short>>
  BY <1>1, <1>2 DEF AppendEvent, IInv, MemType, WriteType, agentVars
<1>4. /\ Len(m.evts[1]) = sent /\ m.sess[1].count = sent /\ InOrder(m.evts[1], sent)
      /\ m.sess[1] \in Record /\ DOMAIN m.evts = DOMAIN m.sess
  BY <1>1, <1>2 DEF OneSession, AllSent, IsFirst, Copy, IsChain
<1>5. e = [no |-> sent + 1, msg |-> sent + 1]
  BY <1>1
<1>6. /\ InOrder(Append(m.evts[1], e), sent + 1) /\ Len(Append(m.evts[1], e)) = sent + 1
      /\ \A i \in 1..(sent + 1) : i \in DOMAIN Append(m.evts[1], e) /\ Append(m.evts[1], e)[i].no = i
  BY <1>1, <1>4, <1>5, AppendOrdered
<1>7. WithEvent(m.sess[1], n, w).end = n /\ WithEvent(m.sess[1], n, w).count = sent + 1
  BY <1>4 DEF WithEvent, Record
<1>8. /\ mem'[Main].sess[1].end = sent + 1 /\ mem'[Main].sess[1].count = sent + 1
      /\ mem'[Main].evts[1] = Append(m.evts[1], e)
      /\ mem'[Main].meta.total = sent + 1
      /\ mem'[Main].meta.active = m.meta.active /\ mem'[Main].meta.count = m.meta.count
  BY <1>1, <1>2, <1>3, <1>4, <1>7 DEF IsChain, Meta
<1> HIDE DEF m, n, w, e
<1>9. IsFirst(mem'[Main], sent + 1)
  BY <1>1, <1>6, <1>8 DEF IsFirst, Copy, Complete
<1>10. Copies'
  <2>1. ASSUME NEW q \in Procs
        PROVE  IsFirst(mem[q], sent + 1) /\ (loading[q].on => IsFirst(loading[q].got, sent + 1))
    BY <1>1, LongerOrder DEF OneSession, Copies
  <2> QED BY <1>3, <1>9, <2>1 DEF Copies
<1>11. AllSent'
  BY <1>3, <1>6, <1>8 DEF AllSent, OneSession
<1>12. FirstFiles'
  <2>1. ASSUME NEW q, InOrder(q, sent) PROVE InOrder(q, sent + 1)
    BY <1>1, <2>1 DEF InOrder
  <2> QED BY <1>3, <2>1 DEF FirstFiles, OneSession, Copy
<1>13. ASSUME NEW v \in Workers PROVE Agent(v)'
  <2>1. v # Main /\ v \in Procs /\ Agent(v)
    BY DEF OneServer, Procs, OneSession
  <2> QED BY <1>3, <2>1, SameAgent
<1>14. Opened'
  <2>1. disk' = disk /\ open' = open /\ writes[Main] = <<>>
    BY DEF AppendEvent, Free
  <2> QED BY <2>1, SameOpened DEF OneSession
<1> QED BY <1>10, <1>11, <1>12, <1>13, <1>14 DEF OneSession

-----------------------------------------------------------------------------
(* The steps of a worker's task.                                           *)

\* Steps of worker w, which change nothing that other workers have.
LEMMA WorkerStep ==
  ASSUME OneServer, IInv, OneSession, NEW w \in Workers, Agent(w)',
         UNCHANGED <<mem, disk, open, loading, sent>>, AgentType,
         \E t : task' = [task EXCEPT ![w] = t],
         writes' = writes \/ \E x : writes' = [writes EXCEPT ![w] = x],
         prompt' = prompt \/ \E x : prompt' = [prompt EXCEPT ![w] = x],
         cursor' = cursor \/ \E x : cursor' = [cursor EXCEPT ![w] = x],
         told' = told \/ \E x : told' = [told EXCEPT ![w] = x],
         short' = short \/ \E x : short' = [short EXCEPT ![w] = x]
  PROVE  OneSession'
<1>1. AllSent' /\ Copies' /\ FirstFiles'
  BY SameChains, SameFiles DEF OneSession
<1>2. ASSUME NEW v \in Workers, v # w PROVE Agent(v)'
  <2>1. v \in Procs /\ Agent(v)
    BY DEF Procs, OneSession
  <2>2. /\ mem'[v] = mem[v] /\ loading'[v] = loading[v]
        /\ task'[v] = task[v] /\ writes'[v] = writes[v]
    BY <1>2, <2>1 DEF IInv, RestType, WriteType
  <2>3. prompt'[v] = prompt[v] /\ cursor'[v] = cursor[v] /\ told'[v] = told[v] /\ short'[v] = short[v]
    BY <1>2 DEF AgentType
  <2> QED BY <2>1, <2>2, <2>3 DEF Agent, Known, InPrompt
<1>3. Opened'
  <2>1. writes'[Main] = writes[Main]
    BY DEF IInv, WriteType, OneServer, Procs
  <2> QED BY <2>1, SameOpened DEF OneSession
<1> QED BY <1>1, <1>2, <1>3 DEF OneSession

\* The numbers that the prompt of a task adds reach to the end of the session.
LEMMA PromptReaches ==
  ASSUME IInv, OneSession, NEW w \in Workers, NEW n \in Nat,
         1 \in DOMAIN mem[w].sess, n \in 1..mem[w].sess[1].end, mem[w].meta.active = 1,
         ~short[w], ~ReadInPart(mem[w], 1)
  PROVE  n \in told[w] \cup {e.msg : e \in IF cursor[w] = NoCursor THEN ActiveEvents(mem[w])
                                             ELSE EventsAfter(mem[w], cursor[w])}
<1> DEFINE m == mem[w]
           new == IF cursor[w] = NoCursor THEN ActiveEvents(m) ELSE EventsAfter(m, cursor[w])
<1>1. w \in Procs /\ Agent(w)
  BY DEF Procs, OneSession
<1>2. /\ Copy(m.sess[1], m.evts[1], sent) /\ DOMAIN m.evts = DOMAIN m.sess
  BY <1>1 DEF OneSession, Copies, IsFirst, IInv, MemType, IsChain
<1>3. PICK e : e = m.evts[1][n] /\ n \in DOMAIN m.evts[1] /\ e.no = n /\ e.msg = n
  BY <1>2 DEF Copy, Complete, InOrder, ReadInPart
<1>4. e \in EventsIn(m, 1)
  BY <1>3 DEF EventsIn
<1>5. CASE cursor[w] = NoCursor
  BY <1>2, <1>3, <1>4, <1>5 DEF ActiveEvents
<1>6. CASE cursor[w] # NoCursor
  <2>1. cursor[w].session = 1 /\ cursor[w].no \in Nat /\ \A i \in 1..cursor[w].no : i \in told[w]
    BY <1>1, <1>6 DEF Agent
  <2>2. CASE n <= cursor[w].no
    BY <2>1, <2>2
  <2>3. CASE ~(n <= cursor[w].no)
    <3>1. e \in EventsAfter(m, cursor[w])
      BY <1>2, <1>3, <1>4, <2>1, <2>3 DEF EventsAfter
    <3> QED BY <1>3, <1>6, <3>1
  <2> QED BY <2>2, <2>3
<1> QED BY <1>5, <1>6

LEMMA BuildKeeps ==
  ASSUME OneServer, IInv, OneSession, AgentType, NEW w \in Workers, BuildPrompt(w) PROVE OneSession'
<1>1. /\ UNCHANGED <<mem, disk, open, loading, sent, task, writes, cursor, told, short>>
      /\ task[w] = "agent" /\ ~loading[w].on /\ w \in Procs /\ Agent(w)
  BY DEF BuildPrompt, vars, Free, Procs, OneSession
<1>2. PICK x : /\ prompt' = [prompt EXCEPT ![w] = x] /\ x.on = TRUE
               /\ x.events = IF cursor[w] = NoCursor THEN ActiveEvents(mem[w])
                                                      ELSE EventsAfter(mem[w], cursor[w])
  <2> DEFINE x == [on |-> TRUE, events |-> IF cursor[w] = NoCursor THEN ActiveEvents(mem[w])
                                            ELSE EventsAfter(mem[w], cursor[w])]
  <2>1. prompt' = [prompt EXCEPT ![w] = x]
    BY DEF BuildPrompt
  <2>2. x.on = TRUE /\ x.events = IF cursor[w] = NoCursor THEN ActiveEvents(mem[w])
                                                          ELSE EventsAfter(mem[w], cursor[w])
    OBVIOUS
  <2> HIDE DEF x
  <2> QED BY <2>1, <2>2
<1>3. prompt'[w] = x
  BY <1>2 DEF AgentType
<1>4. ASSUME mem[w].meta.active = 1, 1 \in DOMAIN mem[w].sess, ~short[w], ~ReadInPart(mem[w], 1),
             NEW n \in 1..mem[w].sess[1].end
      PROVE  n \in told[w] \cup {e.msg : e \in x.events}
  <2>1. mem[w].sess[1].end \in Nat
    BY <1>1, <1>4 DEF IInv, MemType, IsChain, Record
  <2>2. n \in Nat
    BY <2>1
  <2> QED BY <1>2, <1>4, <2>2, PromptReaches
<1>5. InPrompt(w)' = {e.msg : e \in x.events}
  BY <1>1, <1>3 DEF InPrompt
<1>6. Agent(w)'
  BY <1>1, <1>4, <1>5 DEF Agent, Known, ReadInPart
<1>7. task' = [task EXCEPT ![w] = task[w]]
  BY <1>1 DEF IInv, RestType
<1> QED BY <1>1, <1>2, <1>6, <1>7, WorkerStep

LEMMA AnswerKeeps ==
  ASSUME OneServer, IInv, OneSession, AgentType, NEW w \in Workers, AgentAnswers(w) PROVE OneSession'
<1>1. /\ UNCHANGED <<mem, disk, open, loading, sent, prompt, cursor, short>> /\ task[w] = "agent"
      /\ task' = [task EXCEPT ![w] = "check"] /\ ~loading[w].on /\ writes[w] = <<>>
      /\ \/ Known(w) /\ writes' = writes
         \/ ~Known(w) /\ writes' = [writes EXCEPT ![w] = <<0, 1>>]
  BY DEF AgentAnswers, EnsureAgain, Ensure, Free, Create
<1>2. told' = [told EXCEPT ![w] = told[w] \cup {e.msg : e \in prompt[w].events}]
  BY DEF AgentAnswers
<1>3. w \in Procs /\ Agent(w)
  BY DEF Procs, OneSession
<1>4. /\ task'[w] = "check" /\ told'[w] = told[w] \cup InPrompt(w)
      /\ writes'[w] # <<>> => ~Known(w)
  BY <1>1, <1>2, <1>3 DEF AgentType, IInv, RestType, WriteType, InPrompt
<1>5. Agent(w)'
  BY <1>1, <1>3, <1>4 DEF Agent, Known, InPrompt, ReadInPart
<1> QED BY <1>1, <1>2, <1>5, WorkerStep

LEMMA UpdateKeeps ==
  ASSUME OneServer, IInv, OneSession, AgentType, NEW w \in Workers, UpdateCursor(w) PROVE OneSession'
<1> DEFINE s == mem[w].meta.active
<1>1. /\ UNCHANGED <<mem, disk, open, loading, sent, task, writes, told>> /\ task[w] = "idle"
      /\ prompt[w].on /\ prompt' = [prompt EXCEPT ![w] = NoPrompt]
      /\ w \in Procs /\ Agent(w)
  BY DEF UpdateCursor, vars, Procs, OneSession
<1>2. ~prompt'[w].on
  BY <1>1 DEF AgentType, NoPrompt
<1>s. /\ short' = [short EXCEPT ![w] = short[w] \/ (s \in DOMAIN mem[w].sess /\ ReadInPart(mem[w], s))]
      /\ short'[w] = (short[w] \/ (s \in DOMAIN mem[w].sess /\ ReadInPart(mem[w], s)))
  BY DEF UpdateCursor, AgentType
<1>3. /\ s \in DOMAIN mem[w].sess /\ cursor' = [cursor EXCEPT ![w] = [session |-> s, no |-> mem[w].sess[s].end]]
      \/ cursor' = cursor
  BY DEF UpdateCursor
<1>4. CASE cursor' = cursor
  <2>1. Agent(w)'
    BY <1>1, <1>2, <1>s, <1>4 DEF Agent, Known
  <2>2. task' = [task EXCEPT ![w] = task[w]]
    BY <1>1 DEF IInv, RestType
  <2> QED BY <1>1, <1>s, <1>4, <2>1, <2>2, WorkerStep
<1>5. CASE cursor' # cursor
  <2>1. s \in DOMAIN mem[w].sess /\ cursor'[w] = [session |-> s, no |-> mem[w].sess[s].end]
    BY <1>3, <1>5 DEF AgentType
  <2>2. s = 1
    <3>1. IsChain(mem[w]) /\ IsFirst(mem[w], sent)
      BY <1>1 DEF OneSession, Copies, IInv, MemType
    <3>2. s \in 1..mem[w].meta.count /\ mem[w].meta.count \in Nat /\ mem[w].meta.count <= 1
      BY <2>1, <3>1 DEF IsChain, IsFirst, Meta
    <3> QED BY <3>2
  <2>3. mem[w].sess[1].end \in Nat
    BY <1>1, <2>1, <2>2 DEF IInv, MemType, IsChain, Record
  <2>4. ~short'[w] => \A n \in 1..mem[w].sess[1].end : n \in told[w]
    BY <1>1, <1>s, <2>1, <2>2 DEF Agent, InPrompt
  <2>5. cursor'[w].session = 1 /\ cursor'[w].no = mem[w].sess[1].end
    BY <2>1, <2>2
  <2>6. Agent(w)'
    BY <1>1, <1>2, <2>3, <2>4, <2>5 DEF Agent, Known
  <2>7. task' = [task EXCEPT ![w] = task[w]]
    BY <1>1 DEF IInv, RestType
  <2> QED BY <1>1, <1>s, <1>3, <1>5, <2>6, <2>7, WorkerStep
<1> QED BY <1>4, <1>5

LEMMA FailsKeeps ==
  ASSUME OneServer, IInv, OneSession, AgentType, NEW w \in Workers, AgentFails(w) PROVE OneSession'
<1>1. /\ UNCHANGED <<mem, disk, open, loading, sent, writes, told, cursor, short>>
      /\ task' = [task EXCEPT ![w] = "idle"]
      /\ prompt' = [prompt EXCEPT ![w] = NoPrompt] /\ Agent(w)
  BY DEF AgentFails, TaskFails, OneSession
<1>2. ~prompt'[w].on
  BY <1>1 DEF AgentType, NoPrompt
<1>3. Agent(w)'
  BY <1>1, <1>2 DEF Agent, Known
<1> QED BY <1>1, <1>3, WorkerStep

LEMMA EnsureKeeps ==
  ASSUME OneServer, IInv, OneSession, AgentType, NEW w \in Workers, EnsureChain(w), UNCHANGED agentVars
  PROVE  OneSession'
<1>1. /\ UNCHANGED <<mem, disk, open, loading, sent, prompt, cursor, told, short>> /\ task[w] = "ensure"
      /\ task' = [task EXCEPT ![w] = "agent"] /\ writes[w] = <<>>
      /\ \/ Known(w) /\ writes' = writes
         \/ ~Known(w) /\ writes' = [writes EXCEPT ![w] = <<0, 1>>]
  BY DEF EnsureChain, Ensure, Free, Create, agentVars
<1>2. Agent(w) /\ ~prompt[w].on /\ (writes'[w] # <<>> => ~Known(w))
  BY <1>1 DEF OneSession, Agent
<1>3. Agent(w)'
  BY <1>1, <1>2 DEF Agent, Known
<1> QED BY <1>1, <1>3, WorkerStep

LEMMA CheckKeeps ==
  ASSUME OneServer, IInv, OneSession, AgentType, NEW w \in Workers, CheckAndSeal(w) \/ SealRefused(w),
         UNCHANGED agentVars
  PROVE  OneSession'
<1>1. /\ UNCHANGED <<mem, disk, open, loading, sent, writes, prompt, cursor, told, short>>
      /\ task[w] # "agent" /\ w \in Procs
      /\ \E t \in {"seal", "idle"} : task' = [task EXCEPT ![w] = t]
  BY DEF CheckAndSeal, SealRefused, agentVars, Procs
<1>2. task'[w] \in {"seal", "idle"} /\ Agent(w)
  BY <1>1 DEF IInv, RestType, OneSession
<1>3. Agent(w)'
  BY <1>1, <1>2 DEF Agent, Known, InPrompt, ReadInPart
<1> QED BY <1>1, <1>3, WorkerStep

LEMMA StartKeeps ==
  ASSUME OneServer, IInv, OneSession, NEW w \in Workers, StartTask(w) PROVE OneSession'
<1>1. /\ UNCHANGED <<mem, disk, writes, sent, prompt, cursor, told, short>> /\ ~prompt[w].on
      /\ \A v \in Workers : v # w => loading'[v] = loading[v] /\ task'[v] = task[v]
  BY DEF StartTask, ReloadThread, Load, agentVars, IInv, LoadType, RestType, Procs
<1>2. w \in Procs /\ w # Main /\ Main \in Procs
  BY DEF OneServer, Procs
<1>3. /\ \A q \in Procs : q # w => loading'[q] = loading[q]
      /\ loading'[w] = loading[w] \/ (loading'[w] = Begin /\ disk.meta # Unreadable)
  BY <1>2 DEF StartTask, ReloadThread, Load, IInv, LoadType
<1>4. IsFirst(Begin.got, sent) \/ disk.meta = Unreadable
  <2>1. Begin.got.meta = disk.meta /\ Begin.got.sess = <<>>
    BY DEF Begin, None
  <2> QED BY <2>1 DEF IsFirst, OneSession, FirstFiles
<1>5. Copies'
  BY <1>1, <1>3, <1>4 DEF OneSession, Copies
<1>6. AllSent'
  BY <1>1, <1>2, <1>3 DEF OneSession, AllSent
<1>7. ASSUME NEW v \in Workers PROVE Agent(v)'
  <2>1. Agent(v)
    BY DEF OneSession
  <2>2. CASE v = w
    BY <1>1, <2>1, <2>2 DEF Agent, Known
  <2>3. CASE v # w
    BY <1>1, <2>1, <2>3, SameAgent
  <2> QED BY <2>2, <2>3
<1>8. Opened'
  BY <1>1, SameOpened DEF StartTask, ReloadThread, Load, OneSession
<1> QED BY <1>1, <1>5, <1>6, <1>7, <1>8, SameFiles DEF OneSession

-----------------------------------------------------------------------------
(* CInv is inductive.                                                      *)

LEMMA InitCInv == OneServer /\ CursorsInit => CInv
<1> SUFFICES ASSUME OneServer, CursorsInit PROVE AgentType /\ OneSession
  BY DEF CInv, Unsealed
<1>1. Init /\ AgentType
  BY DEF CursorsInit, AgentType
<1>2. \A p \in Procs : mem[p] = None /\ ~loading[p].on /\ writes[p] = <<>>
  BY <1>1 DEF Init, NotLoading
<1>3. None.sess = <<>> /\ None.meta = NoChain /\ DOMAIN None.sess = {}
  BY NoneIsChain
<1>4. sent = 0 /\ disk = NoFiles
  BY <1>1 DEF Init
<1>5. FirstFiles
  BY <1>4, BoundType DEF FirstFiles, NoFiles
<1>6. Copies
  BY <1>2, <1>3 DEF Copies, IsFirst
<1>7. ASSUME NEW w \in Workers PROVE Agent(w)
  <2>1. cursor[w] = NoCursor /\ ~prompt[w].on /\ cursor[w].no = 0 /\ ~short[w]
    BY DEF CursorsInit, NoCursor, NoPrompt
  <2>2. writes[w] = <<>>
    BY <1>2 DEF Procs
  <2> QED BY <2>1, <2>2 DEF Agent
<1>8. AllSent
  BY <1>2, <1>3, <1>4 DEF AllSent, OneServer, Procs
<1>9. Opened
  BY <1>1 DEF Init, Opened, OneServer, Procs
<1> QED BY <1>1, <1>5, <1>6, <1>7, <1>8, <1>9 DEF OneSession

\* Prompts, cursors and what agents were told stay maps of workers; no step takes
\* a delete or a seal back.
LEMMA AgentTypeStep == AgentType /\ [CursorsNext]_<<vars, agentVars>> => AgentType'
<1> SUFFICES ASSUME AgentType, CursorsNext \/ UNCHANGED <<vars, agentVars>> PROVE AgentType'
  OBVIOUS
<1>1. CASE ChainStep \/ UNCHANGED <<vars, agentVars>>
  BY <1>1 DEF ChainStep, agentVars, AgentType
<1>2. ASSUME NEW w \in Workers, StartTask(w) \/ SealSession(w) PROVE AgentType'
  BY <1>2 DEF StartTask, SealSession, agentVars, AgentType
<1>3. ASSUME NEW w \in Workers, BuildPrompt(w) \/ AgentFails(w) PROVE AgentType'
  BY <1>3 DEF BuildPrompt, AgentFails, AgentType
<1>4. ASSUME NEW w \in Workers, AgentAnswers(w) \/ UpdateCursor(w) PROVE AgentType'
  BY <1>4 DEF AgentAnswers, UpdateCursor, AgentType
<1> QED BY <1>1, <1>2, <1>3, <1>4 DEF CursorsNext

LEMMA NothingUndone ==
  IInv /\ [CursorsNext]_<<vars, agentVars>> /\ faults'.deletes = 0 /\ ~sealed'
    => faults.deletes = 0 /\ ~sealed
<1> SUFFICES ASSUME IInv, CursorsNext \/ UNCHANGED <<vars, agentVars>>,
                    faults'.deletes = 0, ~sealed'
             PROVE  faults.deletes = 0 /\ ~sealed
  OBVIOUS
<1>1. faults \in [deletes : Nat, crashes : Nat, errors : Nat]
  BY DEF IInv, RestType
<1>2. CASE UNCHANGED <<vars, agentVars>>
  BY <1>2 DEF vars, agentVars
<1>3. ASSUME NEW p \in Procs, ChainStep,
             \/ Truncate(p) \/ WritePart(p) \/ Store(p) \/ ReadSession(p) \/ EndLoad(p)
             \/ WriteFails(p)
      PROVE  faults.deletes = 0 /\ ~sealed
  <2>1. ~sealed
    BY <1>3 DEF ChainStep, agentVars
  <2>2. CASE WriteFails(p)
    BY <1>1, <2>1, <2>2 DEF WriteFails
  <2>3. CASE ~WriteFails(p)
    BY <1>3, <2>1, <2>3 DEF Truncate, WritePart, Store, ReadSession, EndLoad
  <2> QED BY <2>2, <2>3
<1>4. ASSUME NEW p \in Writers, ChainStep, GetOrCreateChain(p) \/ AppendEvent(p) \/ DeleteChain(p)
      PROVE  faults.deletes = 0 /\ ~sealed
  <2>1. ~sealed
    BY <1>4 DEF ChainStep, agentVars
  <2>2. ~DeleteChain(p)
    BY <1>1 DEF DeleteChain
  <2> QED BY <1>4, <2>1, <2>2 DEF GetOrCreateChain, AppendEvent
<1>5. ASSUME NEW w \in Workers, ChainStep, EnsureChain(w) \/ CheckAndSeal(w) \/ SealRefused(w)
      PROVE  faults.deletes = 0 /\ ~sealed
  BY <1>5 DEF ChainStep, agentVars, EnsureChain, Ensure, CheckAndSeal, SealRefused
<1>6. ASSUME NEW w \in Workers, \/ StartTask(w) \/ BuildPrompt(w) \/ AgentAnswers(w) \/ AgentFails(w)
                                \/ SealSession(w) \/ UpdateCursor(w)
      PROVE  faults.deletes = 0 /\ ~sealed
  BY <1>6 DEF StartTask, ReloadThread, Load, agentVars, BuildPrompt, vars, AgentAnswers, EnsureAgain,
              Ensure, AgentFails, TaskFails, SealSession, UpdateCursor
<1> QED BY <1>2, <1>3, <1>4, <1>5, <1>6 DEF CursorsNext, ChainStep

LEMMA StepCInv == OneServer /\ IInv /\ CInv /\ [CursorsNext]_<<vars, agentVars>> => CInv'
<1> SUFFICES ASSUME OneServer, IInv, CInv, CursorsNext \/ UNCHANGED <<vars, agentVars>>,
                    faults'.deletes = 0, ~sealed'
             PROVE  OneSession'
  BY AgentTypeStep DEF CInv, Unsealed
<1>1. OneSession /\ AgentType
  BY NothingUndone DEF CInv, Unsealed
<1>2. CASE UNCHANGED <<vars, agentVars>>
  <2>1. Opened'
    BY <1>1, <1>2, SameOpened DEF vars, OneSession
  <2> QED BY <1>1, <1>2, <2>1, SameSession DEF vars, agentVars
<1>3. CASE ChainStep
  <2>1. UNCHANGED agentVars /\ UNCHANGED <<prompt, cursor, told, short>>
    BY <1>3 DEF ChainStep, agentVars
  <2>2. ASSUME NEW p \in Procs, WriteFails(p) PROVE OneSession'
    <3>1. \A w \in Workers : writes'[w] = writes[w] \/ writes'[w] = <<>>
      BY <2>2 DEF WriteFails, IInv, WriteType, Procs
    <3>2. Opened'
      <4>1. Main \in Procs /\ disk' = disk
        BY <2>2 DEF OneServer, Procs, WriteFails
      <4>2. CASE p = Main
        BY <2>2, <4>2 DEF WriteFails, IInv, WriteType, Opened
      <4>3. CASE p # Main
        BY <1>1, <2>2, <4>1, <4>3 DEF WriteFails, IInv, WriteType, OneSession, Opened
      <4> QED BY <4>2, <4>3
    <3> QED BY <1>1, <2>1, <2>2, <3>1, <3>2, SameSession DEF WriteFails
  <2>3. ASSUME GetOrCreateChain(Main) PROVE OneSession'
    <3>1. \A w \in Workers : writes'[w] = writes[w]
      BY <2>3 DEF GetOrCreateChain, Create, IInv, WriteType, Procs, OneServer
    <3>2. Opened'
      BY <1>1, <2>3, SameOpened DEF GetOrCreateChain, Create, Free, OneSession
    <3> QED BY <1>1, <2>1, <2>3, <3>1, <3>2, SameSession DEF GetOrCreateChain
  <2>4. ASSUME DeleteChain(Main) PROVE FALSE
    BY <2>4 DEF DeleteChain, IInv, RestType
  <2>5. ASSUME NEW p \in Procs,
               Truncate(p) \/ WritePart(p) \/ Store(p) \/ ReadSession(p) \/ EndLoad(p)
        PROVE  OneSession'
    BY <1>1, <2>1, <2>5, TruncateKeeps, WritePartKeeps, StoreKeeps, ReadKeeps, EndLoadKeeps
  <2>6. ASSUME AppendEvent(Main) PROVE OneSession'
    BY <1>1, <2>1, <2>6, AppendKeeps
  <2>7. ASSUME NEW w \in Workers, EnsureChain(w) \/ CheckAndSeal(w) \/ SealRefused(w)
        PROVE  OneSession'
    BY <1>1, <2>1, <2>7, EnsureKeeps, CheckKeeps
  <2> QED BY <1>3, <2>2, <2>3, <2>4, <2>5, <2>6, <2>7 DEF ChainStep, OneServer
<1>4. ASSUME NEW w \in Workers, StartTask(w) \/ BuildPrompt(w) \/ AgentAnswers(w)
                                \/ AgentFails(w) \/ UpdateCursor(w)
      PROVE  OneSession'
  BY <1>1, <1>4, StartKeeps, BuildKeeps, AnswerKeeps, FailsKeeps, UpdateKeeps
<1>5. ASSUME NEW w \in Workers, SealSession(w) PROVE FALSE
  BY <1>5 DEF SealSession
<1> QED BY <1>2, <1>3, <1>4, <1>5 DEF CursorsNext

LEMMA CursorsInvariance == ASSUME OneServer PROVE CursorsSpec => [](IInv /\ CInv)
<1>1. OneServer /\ IInv /\ CInv /\ [CursorsNext]_<<vars, agentVars>> => CInv'
  BY StepCInv
<1> QED BY <1>1, InitCInv, CursorsImplementStorage, Invariance, PTL DEF CursorsSpec

-----------------------------------------------------------------------------
(* Theorems.                                                               *)

LEMMA ToldEnough == OneServer /\ IInv /\ CInv => CursorToldAll
<1> SUFFICES ASSUME OneServer, IInv, OneSession, NEW w \in Workers, NEW s \in DOMAIN mem[Main].evts,
                    NEW i \in DOMAIN mem[Main].evts[s],
                    ~short[w], cursor[w] # NoCursor, mem[Main].evts[s][i].no <= cursor[w].no
             PROVE  mem[Main].evts[s][i].msg \in told[w]
  BY DEF CursorToldAll, CInv, Unsealed, EventsIn
<1>1. IsFirst(mem[Main], sent) /\ IsChain(mem[Main])
  BY DEF OneServer, Procs, OneSession, Copies, IInv, MemType
<1>2. s = 1
  <2>1. s \in 1..mem[Main].meta.count /\ mem[Main].meta.count \in Nat /\ mem[Main].meta.count <= 1
    BY <1>1 DEF IsChain, IsFirst, Meta
  <2> QED BY <2>1
<1>3. InOrder(mem[Main].evts[1], sent)
  BY <1>1, <1>2 DEF IsFirst, IsChain, Copy
<1>4. /\ mem[Main].evts[s][i].no \in 1..sent
      /\ mem[Main].evts[s][i].msg = mem[Main].evts[s][i].no
  BY <1>2, <1>3 DEF InOrder
<1>5. Agent(w) /\ cursor[w].no \in Nat /\ sent \in Nat
  BY DEF OneSession, Agent, IInv, RestType
<1>6. mem[Main].evts[s][i].no \in 1..cursor[w].no
  BY <1>4, <1>5
<1> QED BY <1>4, <1>5, <1>6 DEF Agent

\* While nothing is deleted or sealed, a cursor that tasks moved behind sessions
\* they had read whole never passes an event that its agent was not told: whatever
\* those and other reloads found half written, GetEventsAfter leaves out nothing.
THEOREM CursorsLoseNothing == ASSUME OneServer PROVE CursorsSpec => []CursorToldAll
<1>1. OneServer /\ IInv /\ CInv => CursorToldAll
  BY ToldEnough
<1> QED BY <1>1, CursorsInvariance, PTL

LEMMA OrderEnough == OneServer /\ IInv /\ CInv => ReadsInOrder
<1> SUFFICES ASSUME IInv, OneSession, NEW w \in Workers, NEW s \in DOMAIN mem[w].evts,
                    NEW i \in DOMAIN mem[w].evts[s], NEW j \in DOMAIN mem[w].evts[s]
             PROVE  mem[w].evts[s][j].msg - mem[w].evts[s][i].msg = j - i
  BY DEF ReadsInOrder, CInv, Unsealed
<1>1. IsFirst(mem[w], sent) /\ IsChain(mem[w])
  BY DEF Procs, OneSession, Copies, IInv, MemType
<1>2. s = 1
  <2>1. s \in 1..mem[w].meta.count /\ mem[w].meta.count \in Nat /\ mem[w].meta.count <= 1
    BY <1>1 DEF IsChain, IsFirst, Meta
  <2> QED BY <2>1
<1>3. InOrder(mem[w].evts[1], sent)
  BY <1>1, <1>2 DEF IsFirst, IsChain, Copy
<1> QED BY <1>2, <1>3 DEF InOrder

\* However a reload interleaves with the API server's writes, a worker's copy of
\* the session is in order, without a gap and without a repeat.
THEOREM CopiesInOrder == ASSUME OneServer PROVE CursorsSpec => []ReadsInOrder
<1>1. OneServer /\ IInv /\ CInv => ReadsInOrder
  BY OrderEnough
<1> QED BY <1>1, CursorsInvariance, PTL

\* What ChainStorage_proofs shows of a worker holds of one with prompts.
THEOREM PromptsAreReal == ASSUME OneServer PROVE CursorsSpec => []ReadsAreReal
BY CursorsImplementStorage, ReadEventsExist, PTL
=============================================================================
