------------------------ MODULE ChainStorage_proofs -------------------------
(***************************************************************************)
(* Proofs about ChainStorage, for any set of workers, any token estimates, *)
(* thresholds and bounds.                                                  *)
(*                                                                         *)
(* The type invariant needs to know that the files a method has still to   *)
(* write are files of sessions its process has in memory, and that what a  *)
(* load has read is a chain at every point of the load.  That is IInv.     *)
(***************************************************************************)
EXTENDS ChainStorage, TLAPS, SequenceTheorems

\* A copy of the chain: sessions that could not be read are missing from both maps.
IsChain(c) ==
  /\ c = [meta |-> c.meta, sess |-> c.sess, evts |-> c.evts]
  /\ c.meta \in Meta
  /\ c.meta.count <= MaxSessions
  /\ DOMAIN c.sess \subseteq 1..c.meta.count
  /\ c.sess \in [DOMAIN c.sess -> Record]
  /\ c.evts \in [DOMAIN c.sess -> Seq(Event)]

File == [rec : Record, evts : Seq(Event)]

MemType == /\ mem = [p \in Procs |-> mem[p]]
           /\ \A p \in Procs : IsChain(mem[p])

DiskType ==
  /\ dir \in BOOLEAN
  /\ disk = [meta |-> disk.meta, md |-> disk.md]
  /\ disk.meta = Unreadable \/ (disk.meta \in Meta /\ disk.meta.count <= MaxSessions)
  /\ disk.md = [s \in 1..MaxSessions |-> disk.md[s]]
  /\ \A s \in 1..MaxSessions : disk.md[s] = Unreadable \/ disk.md[s] \in File

\* The files still to write have a content: GetOrCreateChain writes those of
\* Fresh, every other method those of the chain in memory.
WriteType ==
  /\ writes \in [Procs -> Seq(0..MaxSessions)]
  /\ open \in [Procs -> {"no", "yes", "part", "unlinked"}]
  /\ \A p \in Procs : \A i \in DOMAIN writes[p] :
        writes[p][i] = 0 \/ writes[p][i] \in (IF Known(p) THEN DOMAIN mem[p].sess ELSE {1})

IsLoad(l) ==
  /\ DOMAIN l = {"on", "next", "got"}
  /\ l.on \in BOOLEAN
  /\ l.on => l.next \in Nat \ {0}
  /\ IsChain(l.got)

LoadType ==
  /\ loading = [p \in Procs |-> loading[p]]
  /\ \A p \in Procs : IsLoad(loading[p]) /\ (loading[p].on => writes[p] = <<>>)

RestType ==
  /\ task \in [Procs -> {"start", "idle", "ensure", "agent", "check", "seal"}]
  /\ sent \in 0..MaxMessages
  /\ faults \in [deletes : Nat, crashes : Nat, errors : Nat]

IInv == MemType /\ DiskType /\ WriteType /\ LoadType /\ RestType

USE DEF NoChain, FirstMeta

-----------------------------------------------------------------------------
(* Chains and files.                                                       *)

LEMMA NoneIsChain == IsChain(None) /\ None.sess = <<>> /\ None.evts = <<>> /\ None.meta = NoChain
BY BoundType DEF IsChain, None, Meta

LEMMA NewSessionType == ASSUME NEW n \in Nat PROVE NewSession(n) \in Record
BY DEF NewSession, Record

LEMMA FreshIsChain ==
  /\ IsChain(Fresh) /\ DOMAIN Fresh.sess = {1} /\ DOMAIN Fresh.evts = {1} /\ Fresh.evts[1] = <<>>
  /\ Fresh.meta = FirstMeta
<1>1. /\ Fresh.sess = [s \in {1} |-> NewSession(0)]
      /\ Fresh.evts = [s \in {1} |-> <<>>]
      /\ Fresh.meta = FirstMeta
  BY DEF Fresh, Put
<1>2. NewSession(0) \in Record
  BY NewSessionType
<1>3. <<>> \in Seq(Event)
  OBVIOUS
<1>4. Fresh = [meta |-> Fresh.meta, sess |-> Fresh.sess, evts |-> Fresh.evts]
  BY DEF Fresh
<1> QED BY <1>1, <1>2, <1>3, <1>4, BoundType DEF IsChain, Meta

\* Adding a session to a copy keeps it a copy.
LEMMA PutIsChain ==
  ASSUME NEW c, IsChain(c), NEW s \in 1..c.meta.count, NEW r \in Record, NEW q \in Seq(Event)
  PROVE  /\ IsChain([meta |-> c.meta, sess |-> Put(c.sess, s, r), evts |-> Put(c.evts, s, q)])
         /\ DOMAIN Put(c.evts, s, q) = DOMAIN c.evts \cup {s}
         /\ Put(c.evts, s, q)[s] = q
         /\ \A t \in DOMAIN c.evts : t # s => Put(c.evts, s, q)[t] = c.evts[t]
BY DEF IsChain, Put

\* So does changing a session of it.
LEMMA ExceptIsChain ==
  ASSUME NEW c, IsChain(c), NEW k \in DOMAIN c.sess, NEW n \in Nat, NEW r \in Record,
         NEW q \in Seq(Event)
  PROVE  LET d == [meta |-> [c.meta EXCEPT !.total = n],
                   sess |-> [c.sess EXCEPT ![k] = r],
                   evts |-> [c.evts EXCEPT ![k] = q]]
         IN IsChain(d) /\ DOMAIN d.sess = DOMAIN c.sess /\ d.meta.count = c.meta.count
<1>1. [c.meta EXCEPT !.total = n] \in Meta /\ [c.meta EXCEPT !.total = n].count = c.meta.count
  BY DEF IsChain, Meta
<1> QED BY <1>1 DEF IsChain

LEMMA WithEventType ==
  ASSUME NEW r \in Record, NEW n \in Nat, NEW w \in Nat
  PROVE  WithEvent(r, n, w) \in Record
<1>1. r.count + 1 \in Nat /\ r.tokens + w \in Nat
  BY DEF Record
<1> QED BY <1>1 DEF WithEvent, Record

\* The content a method gives a file is a meta or a session file.
LEMMA ImageType ==
  ASSUME IInv, NEW p \in Procs, writes[p] # <<>>
  PROVE  LET f == Head(writes[p]) c == Image(p, f)
         IN /\ f \in 0..MaxSessions
            /\ f = 0 => c \in Meta /\ c.count <= MaxSessions
            /\ f # 0 => /\ c \in File
                        /\ \/ f \in DOMAIN mem[p].evts /\ c.evts = mem[p].evts[f]
                           \/ c.evts = <<>>
<1> DEFINE f == Head(writes[p])
<1>1. f \in 0..MaxSessions /\ f = writes[p][1] /\ 1 \in DOMAIN writes[p]
  <2>1. writes[p] \in Seq(0..MaxSessions)
    BY DEF IInv, WriteType
  <2>2. Len(writes[p]) \in Nat /\ Len(writes[p]) # 0 /\ DOMAIN writes[p] = 1..Len(writes[p])
    BY <2>1, LenProperties, EmptySeq
  <2>3. Head(writes[p]) \in 0..MaxSessions
    BY <2>1, HeadTailProperties
  <2>4. Head(writes[p]) = writes[p][1]
    BY <2>1, <2>2
  <2> QED BY <2>2, <2>3, <2>4
<1>2. f = 0 \/ f \in (IF Known(p) THEN DOMAIN mem[p].sess ELSE {1})
  BY <1>1 DEF IInv, WriteType
<1>3. IsChain(mem[p])
  BY DEF IInv, MemType
<1>4. CASE Known(p)
  BY <1>1, <1>2, <1>3, <1>4 DEF Image, IsChain, File
<1>5. CASE ~Known(p)
  <2>1. f = 0 \/ f = 1
    BY <1>2, <1>5
  <2>2. f = 0 => Image(p, f) = Fresh.meta
    BY <1>5 DEF Image
  <2>3. f = 1 => Image(p, f) = [rec |-> Fresh.sess[1], evts |-> Fresh.evts[1]]
    BY <1>5 DEF Image
  <2> QED BY <1>1, <2>1, <2>2, <2>3, FreshIsChain, BoundType DEF IsChain, File
<1> QED BY <1>4, <1>5

\* A sequence followed by the end of another has the elements of both.
Spliced(a, b, k) == a \o SubSeq(b, k, Len(b))

LEMMA JoinTail ==
  ASSUME NEW a \in Seq(Event), NEW b \in Seq(Event), NEW k \in Nat, k >= 1
  PROVE  /\ Spliced(a, b, k) \in Seq(Event)
         /\ \A i \in DOMAIN Spliced(a, b, k) :
              \/ \E j \in DOMAIN a : Spliced(a, b, k)[i] = a[j]
              \/ \E j \in DOMAIN b : Spliced(a, b, k)[i] = b[j]
<1> DEFINE rest == SubSeq(b, k, Len(b))
           d == Spliced(a, b, k)
<1>1. /\ Len(a) \in Nat /\ Len(b) \in Nat /\ DOMAIN a = 1..Len(a) /\ DOMAIN b = 1..Len(b)
      /\ \A i \in 1..Len(b) : b[i] \in Event
  BY LenProperties, ElementOfSeq
<1>2. \A i \in k..Len(b) : b[i] \in Event
  BY <1>1
<1>3. /\ rest \in Seq(Event)
      /\ \A i \in 1..(Len(b) - k + 1) : rest[i] = b[k + i - 1]
      /\ Len(rest) = IF k <= Len(b) THEN Len(b) - k + 1 ELSE 0
  <2>1. k \in Int /\ Len(b) \in Int
    BY <1>1
  <2> QED BY <1>2, <2>1, SubSeqProperties
<1> HIDE DEF rest
<1>4. /\ d \in Seq(Event)
      /\ Len(d) = Len(a) + Len(rest)
      /\ \A i \in 1..(Len(a) + Len(rest)) :
            d[i] = IF i <= Len(a) THEN a[i] ELSE rest[i - Len(a)]
  <2>1. d = a \o rest
    BY DEF Spliced, rest
  <2> HIDE DEF d
  <2>2. /\ a \o rest \in Seq(Event)
        /\ Len(a \o rest) = Len(a) + Len(rest)
        /\ \A i \in 1..(Len(a) + Len(rest)) :
              (a \o rest)[i] = IF i <= Len(a) THEN a[i] ELSE rest[i - Len(a)]
    BY <1>3, ConcatProperties
  <2> QED BY <2>1, <2>2, Zenon
<1> HIDE DEF d
<1>5. Len(rest) \in Nat
  BY <1>1, <1>3
<1>6. ASSUME NEW i \in DOMAIN d
      PROVE  \/ \E j \in DOMAIN a : d[i] = a[j]
             \/ \E j \in DOMAIN b : d[i] = b[j]
  <2>1. i \in 1..(Len(a) + Len(rest))
    BY <1>4, LenProperties
  <2>2. CASE i <= Len(a)
    BY <2>1, <2>2, <1>1, <1>4
  <2>3. CASE i > Len(a)
    <3>1. PICK m \in Nat : m = i - Len(a)
      BY <2>1, <2>3, <1>1, <1>5
    <3>2. m \in 1..Len(rest) /\ i = Len(a) + m
      BY <2>1, <2>3, <3>1, <1>1, <1>5
    <3>3. Len(rest) = Len(b) - k + 1
      BY <3>2, <1>1, <1>3
    <3>4. m \in 1..(Len(b) - k + 1) /\ k + m - 1 \in 1..Len(b)
      BY <3>2, <3>3, <1>1
    <3>5. rest[m] = b[k + m - 1]
      BY <3>4, <1>3
    <3>6. d[i] = IF i <= Len(a) THEN a[i] ELSE rest[i - Len(a)]
      BY <2>1, <1>4
    <3>7. ~(i <= Len(a))
      BY <2>1, <2>3, <1>1, <1>5
    <3>8. d[i] = rest[m]
      BY ONLY <3>1, <3>6, <3>7, Zenon
    <3> QED BY <3>4, <3>5, <3>8, <1>1
  <2> QED BY <2>1, <2>2, <2>3, <1>1, <1>5
<1> QED BY <1>4, <1>6 DEF d

\* What a file holds after a write: the content, Unreadable, or a file with events
\* of the content and of the file before.
LEMMA OverlaysType ==
  ASSUME DiskType, NEW f \in 0..MaxSessions, NEW c, NEW d \in Overlays(f, c),
         f = 0 => c \in Meta /\ c.count <= MaxSessions,
         f # 0 => c \in File
  PROVE  /\ f = 0 => d = Unreadable \/ (d \in Meta /\ d.count <= MaxSessions)
         /\ f # 0 => /\ d \in File
                     /\ \A i \in DOMAIN d.evts :
                          \/ \E j \in DOMAIN c.evts : d.evts[i] = c.evts[j]
                          \/ /\ disk.md[f] # Unreadable
                             /\ \E j \in DOMAIN disk.md[f].evts : d.evts[i] = disk.md[f].evts[j]
<1>1. CASE d = c
  BY <1>1 DEF File
<1>2. CASE f = 0
  BY <1>2 DEF Overlays
<1>3. CASE f # 0 /\ d # c
  <2>1. disk.md[f] # Unreadable /\ disk.md[f] \in File
    BY <1>3 DEF Overlays, FileOn, DiskType
  <2> DEFINE old == disk.md[f].evts
  <2>2. PICK k \in (Len(c.evts) + 1)..(Len(old) + 1) :
             d = [c EXCEPT !.evts = Spliced(c.evts, old, k)]
    BY <1>3, <2>1 DEF Overlays, FileOn, Spliced
  <2>3. old \in Seq(Event) /\ c.evts \in Seq(Event) /\ k \in Nat /\ k >= 1
    BY <1>3, <2>1 DEF File
  <2>4. d = [rec |-> c.rec, evts |-> Spliced(c.evts, old, k)] /\ c.rec \in Record
    BY <1>3, <2>2 DEF File
  <2>5. /\ d.evts \in Seq(Event)
        /\ \A i \in DOMAIN d.evts : \/ \E j \in DOMAIN c.evts : d.evts[i] = c.evts[j]
                                    \/ \E j \in DOMAIN old : d.evts[i] = old[j]
    <3> HIDE DEF old
    <3> DEFINE q == Spliced(c.evts, old, k)
    <3>1. /\ q \in Seq(Event)
          /\ \A i \in DOMAIN q : \/ \E j \in DOMAIN c.evts : q[i] = c.evts[j]
                                 \/ \E j \in DOMAIN old : q[i] = old[j]
      BY <2>3, JoinTail
    <3>2. d.evts = q
      BY <2>4
    <3> HIDE DEF q
    <3> QED BY <3>1, <3>2
  <2> QED BY <1>3, <2>1, <2>4, <2>5 DEF File
<1> QED BY <1>1, <1>2, <1>3

\* A session file cut behind its k-th event.
LEMMA CutType ==
  ASSUME NEW c \in File, NEW k \in 0..Len(c.evts)
  PROVE  /\ Cut(c, k) \in File /\ Cut(c, k).rec = c.rec
         /\ Len(Cut(c, k).evts) = k /\ DOMAIN Cut(c, k).evts = 1..k
         /\ k <= Len(c.evts)
         /\ \A i \in 1..k : i \in DOMAIN c.evts /\ Cut(c, k).evts[i] = c.evts[i]
<1>1. c.evts \in Seq(Event) /\ c.rec \in Record
  BY DEF File
<1>2. Len(c.evts) \in Nat /\ DOMAIN c.evts = 1..Len(c.evts) /\ \A i \in 1..Len(c.evts) : c.evts[i] \in Event
  BY <1>1, LenProperties, ElementOfSeq
<1>3. PICK q : q = SubSeq(c.evts, 1, k)
  OBVIOUS
<1>4. q \in Seq(Event) /\ Len(q) = k /\ \A i \in 1..k : q[i] = c.evts[i]
  <2>1. 1 \in Int /\ k \in Int /\ \A i \in 1..k : c.evts[i] \in Event
    BY <1>2
  <2>2. /\ SubSeq(c.evts, 1, k) \in Seq(Event)
        /\ \A i \in 1..(k - 1 + 1) : SubSeq(c.evts, 1, k)[i] = c.evts[1 + i - 1]
        /\ Len(SubSeq(c.evts, 1, k)) = IF 1 <= k THEN k - 1 + 1 ELSE 0
    BY <2>1, SubSeqProperties
  <2>3. Len(q) = k
    BY <1>2, <1>3, <2>2
  <2>4. \A i \in 1..k : 1 + i - 1 = i /\ i \in 1..(k - 1 + 1)
    BY <1>2
  <2> QED BY <1>3, <2>2, <2>3, <2>4
<1>5. Cut(c, k) = [rec |-> c.rec, evts |-> q]
  BY <1>3 DEF Cut, File
<1>6. DOMAIN q = 1..k
  BY <1>4, LenProperties
<1> QED BY <1>1, <1>2, <1>4, <1>5, <1>6 DEF File

-----------------------------------------------------------------------------
(* IInv is inductive.                                                      *)

LEMMA InitIInv == Init => IInv
<1> SUFFICES ASSUME Init PROVE IInv
  OBVIOUS
<1>1. MemType
  BY NoneIsChain DEF Init, MemType
<1>2. DiskType
  BY DEF Init, DiskType, NoFiles
<1>3. WriteType
  BY DEF Init, WriteType
<1>4. LoadType
  BY NoneIsChain DEF Init, LoadType, IsLoad, NotLoading
<1>5. RestType
  BY BoundType DEF Init, RestType
<1> QED BY <1>1, <1>2, <1>3, <1>4, <1>5 DEF IInv

LEMMA TruncateStep == ASSUME IInv, NEW p \in Procs, Truncate(p) PROVE IInv'
<1>1. MemType' /\ LoadType' /\ RestType'
  BY DEF IInv, Truncate, MemType, LoadType, RestType
<1>2. WriteType'
  BY DEF IInv, Truncate, WriteType, Known
<1>3. PICK f \in 0..MaxSessions : f = Head(writes[p])
  <2>1. Head(writes[p]) \in 0..MaxSessions
    BY ImageType DEF Truncate
  <2> QED BY <2>1
<1>4. DiskType'
  <2>1. dir' = dir /\ disk' = WithFile(f, Unreadable)
    BY <1>3 DEF Truncate
  <2> QED BY <1>3, <2>1 DEF IInv, DiskType, WithFile
<1> QED BY <1>1, <1>2, <1>4 DEF IInv

\* The rest of a list of files.
LEMMA TailType ==
  ASSUME NEW w \in Seq(0..MaxSessions), w # <<>>
  PROVE  /\ Tail(w) \in Seq(0..MaxSessions)
         /\ Len(w) = 1 => Tail(w) = <<>>
         /\ \A i \in DOMAIN Tail(w) : i + 1 \in DOMAIN w /\ Tail(w)[i] = w[i + 1]
<1>1. /\ Tail(w) \in Seq(0..MaxSessions)
      /\ Len(Tail(w)) = Len(w) - 1
      /\ \A i \in 1..Len(Tail(w)) : Tail(w)[i] = w[i + 1]
  BY HeadTailProperties
<1>2. /\ Len(w) \in Nat /\ DOMAIN w = 1..Len(w)
      /\ Len(Tail(w)) \in Nat /\ DOMAIN Tail(w) = 1..Len(Tail(w))
  BY <1>1, LenProperties
<1>3. Len(w) = 1 => Tail(w) = <<>>
  <2>1. Len(w) = 1 => Len(Tail(w)) = 0
    BY <1>1, <1>2
  <2> QED BY <1>1, <2>1, EmptySeq
<1> QED BY <1>1, <1>2, <1>3

\* What a file holds while it is written.
LEMMA PartWritten ==
  ASSUME IInv, NEW p \in Procs, WritePart(p)
  PROVE  \E f \in 1..MaxSessions, c \in File, k \in Nat :
           /\ f = Head(writes[p]) /\ c = Image(p, f) /\ k \in 0..Len(c.evts)
           /\ \E d \in Overlays(f, Cut(c, k)) : disk' = WithFile(f, d)
<1>1. writes[p] # <<>> /\ Head(writes[p]) # 0
  BY DEF WritePart
<1>2. PICK f : f = Head(writes[p]) /\ f \in 1..MaxSessions
  <2>1. Head(writes[p]) \in 0..MaxSessions
    BY <1>1, ImageType
  <2> QED BY <1>1, <2>1, BoundType
<1>3. PICK c \in File : c = Image(p, f)
  BY <1>1, <1>2, ImageType
<1>4. PICK k \in 0..Len(c.evts) : \E d \in Overlays(f, Cut(c, k)) : disk' = WithFile(f, d)
  BY <1>2, <1>3 DEF WritePart
<1> QED BY <1>2, <1>3, <1>4

LEMMA WritePartStep == ASSUME IInv, NEW p \in Procs, WritePart(p) PROVE IInv'
<1>1. MemType' /\ LoadType' /\ RestType'
  BY DEF IInv, WritePart, MemType, LoadType, RestType
<1>2. WriteType'
  BY DEF IInv, WritePart, WriteType, Known
<1>3. PICK f \in 1..MaxSessions, c \in File, k \in Nat :
         /\ k \in 0..Len(c.evts)
         /\ \E d \in Overlays(f, Cut(c, k)) : disk' = WithFile(f, d)
  BY PartWritten
<1>4. PICK h : h = Cut(c, k) /\ h \in File
  BY <1>3, CutType
<1>5. PICK d \in Overlays(f, h) : disk' = WithFile(f, d)
  BY <1>3, <1>4
<1>6. d \in File
  <2>1. DiskType /\ f \in 0..MaxSessions /\ f # 0
    BY DEF IInv
  <2> QED BY <1>4, <2>1, OverlaysType
<1>7. DiskType'
  <2>1. dir' = dir /\ f # 0
    BY DEF WritePart
  <2>2. disk' = [meta |-> disk.meta, md |-> [disk.md EXCEPT ![f] = d]]
    BY <1>5, <2>1 DEF WithFile, IInv, DiskType
  <2>3. disk'.meta = disk.meta /\ \A s \in 1..MaxSessions : disk'.md[s] = IF s = f THEN d ELSE disk.md[s]
    BY <2>2 DEF IInv, DiskType
  <2>4. disk' = [meta |-> disk'.meta, md |-> disk'.md] /\ disk'.md = [s \in 1..MaxSessions |-> disk'.md[s]]
    BY <2>2 DEF IInv, DiskType
  <2> QED BY <1>6, <2>1, <2>3, <2>4 DEF IInv, DiskType
<1> QED BY <1>1, <1>2, <1>7 DEF IInv

LEMMA StoreStep == ASSUME IInv, NEW p \in Procs, Store(p) PROVE IInv'
<1> DEFINE f == Head(writes[p])
           c == Image(p, f)
<1>w. writes[p] # <<>> /\ writes[p] \in Seq(0..MaxSessions)
  BY DEF Store, IInv, WriteType
<1>c. f \in 0..MaxSessions /\ (f = 0 => c \in Meta /\ c.count <= MaxSessions) /\ (f # 0 => c \in File)
  BY <1>w, ImageType
<1>1. MemType'
  BY FreshIsChain DEF IInv, Store, MemType
<1>2. DiskType'
  <2>1. CASE open[p] # "unlinked"
    <3>1. PICK d \in Overlays(f, c) : disk' = WithFile(f, d)
      BY <2>1 DEF Store
    <3>2. /\ f = 0 => d = Unreadable \/ (d \in Meta /\ d.count <= MaxSessions)
          /\ f # 0 => d \in File
      BY <1>c, OverlaysType DEF IInv
    <3>3. dir' = dir
      BY DEF Store
    <3> HIDE DEF f, c
    <3> QED BY <1>c, <3>1, <3>2, <3>3 DEF IInv, DiskType, WithFile
  <2>2. CASE open[p] = "unlinked"
    BY <2>2 DEF IInv, Store, DiskType
  <2> QED BY <2>1, <2>2
<1>3. WriteType'
  <2>1. /\ writes' = [writes EXCEPT ![p] = Tail(writes[p])]
        /\ open' = [open EXCEPT ![p] = "no"]
    BY DEF Store
  <2>2. writes' \in [Procs -> Seq(0..MaxSessions)] /\ open' \in [Procs -> {"no", "yes", "part", "unlinked"}]
    BY <2>1, <1>w, TailType DEF IInv, WriteType
  <2>3. ASSUME NEW q \in Procs, NEW i \in DOMAIN writes'[q]
        PROVE  writes'[q][i] = 0 \/ writes'[q][i] \in (IF Known(q)' THEN DOMAIN mem'[q].sess ELSE {1})
    <3>1. CASE q # p
      <4>1. writes'[q] = writes[q] /\ mem'[q] = mem[q]
        BY <3>1, <2>1 DEF Store, IInv, WriteType, MemType
      <4> QED BY <4>1, <2>3 DEF IInv, WriteType, Known
    <3>2. CASE q = p
      <4>1. writes'[p] = Tail(writes[p])
        BY <2>1 DEF IInv, WriteType
      <4>2. Len(writes[p]) # 1 /\ i + 1 \in DOMAIN writes[p] /\ writes'[p][i] = writes[p][i + 1]
        <5>1. i \in DOMAIN Tail(writes[p])
          BY <4>1, <2>3, <3>2
        <5>2. Tail(writes[p]) # <<>>
          BY <5>1
        <5> QED BY <4>1, <5>1, <5>2, <1>w, TailType
      <4>3. mem' = mem
        BY <4>2 DEF Store
      <4> QED BY <3>2, <4>2, <4>3 DEF IInv, WriteType, Known
    <3> QED BY <3>1, <3>2
  <2> QED BY <2>2, <2>3 DEF WriteType
<1>4. LoadType'
  BY <1>w DEF IInv, Store, LoadType, WriteType
<1>5. RestType'
  BY DEF IInv, Store, RestType
<1> QED BY <1>1, <1>2, <1>3, <1>4, <1>5 DEF IInv

LEMMA WriteFailsStep == ASSUME IInv, NEW p \in Procs, WriteFails(p) PROVE IInv'
<1>1. MemType' /\ DiskType'
  BY DEF IInv, WriteFails, MemType, DiskType
<1>2. WriteType'
  BY EmptySeq DEF IInv, WriteFails, WriteType, Known
<1>3. LoadType'
  BY DEF IInv, WriteFails, LoadType, WriteType
<1>4. RestType'
  BY DEF IInv, WriteFails, RestType
<1> QED BY <1>1, <1>2, <1>3, <1>4 DEF IInv

\* GetOrCreateChain of a process that does not know the chain.
LEMMA CreateType ==
  ASSUME IInv, NEW p \in Procs, Create(p), UNCHANGED <<mem, open>>
  PROVE  WriteType' /\ writes'[p] = <<0, 1>> /\ \A q \in Procs : q # p => writes'[q] = writes[q]
<1>1. <<0, 1>> \in Seq(0..MaxSessions)
  BY BoundType
<1>2. writes' = [writes EXCEPT ![p] = <<0, 1>>] /\ ~Known(p)
  BY DEF Create
<1>3. \A q \in Procs : writes'[q] = IF q = p THEN <<0, 1>> ELSE writes[q]
  BY <1>2 DEF IInv, WriteType
<1>4. \A i \in DOMAIN <<0, 1>> : <<0, 1>>[i] = 0 \/ <<0, 1>>[i] = 1
  OBVIOUS
<1>5. writes' \in [Procs -> Seq(0..MaxSessions)]
  BY <1>1, <1>2 DEF IInv, WriteType
<1> HIDE <1>2
<1>6. ASSUME NEW q \in Procs, NEW i \in DOMAIN writes'[q]
      PROVE  writes'[q][i] = 0 \/ writes'[q][i] \in (IF Known(q)' THEN DOMAIN mem'[q].sess ELSE {1})
  <2>1. Known(q)' <=> Known(q)
    BY DEF Known
  <2>2. CASE q = p
    BY <1>2, <1>3, <1>4, <1>6, <2>1, <2>2
  <2>3. CASE q # p
    BY <1>3, <1>6, <2>1, <2>3 DEF IInv, WriteType
  <2> QED BY <2>2, <2>3
<1> QED BY <1>3, <1>5, <1>6 DEF WriteType, IInv

LEMMA CreateStep == ASSUME IInv, NEW p \in Procs, GetOrCreateChain(p) PROVE IInv'
<1>1. MemType' /\ RestType'
  BY DEF IInv, GetOrCreateChain, MemType, RestType
<1>2. DiskType'
  BY DEF IInv, GetOrCreateChain, Create, DiskType
<1>3. WriteType' /\ \A q \in Procs : q # p => writes'[q] = writes[q]
  BY CreateType DEF GetOrCreateChain
<1>4. LoadType'
  BY <1>3 DEF IInv, GetOrCreateChain, Free, LoadType
<1> QED BY <1>1, <1>2, <1>3, <1>4 DEF IInv

LEMMA AppendStepType == ASSUME IInv, NEW p \in Procs, AppendEvent(p) PROVE IInv'
<1> DEFINE m == mem[p]
           k == m.meta.active
           n == m.meta.total + 1
           e == [no |-> n, msg |-> sent + 1]
           w == EstimateTokens(sent + 1)
           m1 == [meta |-> [m.meta EXCEPT !.total = n],
                  sess |-> [m.sess EXCEPT ![k] = WithEvent(m.sess[k], n, w)],
                  evts |-> [m.evts EXCEPT ![k] = Append(m.evts[k], e)]]
<1>1. /\ k \in DOMAIN m.sess /\ sent < MaxMessages /\ sent' = sent + 1
      /\ mem' = [mem EXCEPT ![p] = m1]
      /\ writes' = [writes EXCEPT ![p] = <<k, 0>>]
      /\ Free(p)
      /\ UNCHANGED <<dir, disk, open, loading, task, faults>>
  BY DEF AppendEvent
<1>2. IsChain(m)
  BY DEF IInv, MemType
<1>3. sent \in Nat /\ w \in Nat /\ sent' \in 0..MaxMessages
  <2>1. sent \in Nat /\ sent + 1 \in 1..MaxMessages
    BY <1>1, BoundType DEF IInv, RestType
  <2> QED BY <1>1, <2>1, EstimateType
<1>4. n \in Nat /\ e \in Event
  BY <1>2, <1>3 DEF IsChain, Meta, Event
<1>5. WithEvent(m.sess[k], n, w) \in Record
  <2>1. m.sess[k] \in Record
    BY <1>1, <1>2 DEF IsChain
  <2> HIDE DEF n, w
  <2> QED BY <1>3, <1>4, <2>1, WithEventType
<1>6. Append(m.evts[k], e) \in Seq(Event)
  BY <1>1, <1>2, <1>4 DEF IsChain
<1>7. k \in 0..MaxSessions /\ k \in 1..m.meta.count
  BY <1>1, <1>2, BoundType DEF IsChain, Meta
<1>8. IsChain(m1) /\ DOMAIN m1.sess = DOMAIN m.sess /\ m1.meta # NoChain
  <2> DEFINE r == WithEvent(m.sess[k], n, w)
             q == Append(m.evts[k], e)
  <2>1. r \in Record /\ q \in Seq(Event) /\ n \in Nat /\ k \in DOMAIN m.sess
    BY <1>1, <1>4, <1>5, <1>6
  <2>2. m1 = [meta |-> [m.meta EXCEPT !.total = n],
              sess |-> [m.sess EXCEPT ![k] = r], evts |-> [m.evts EXCEPT ![k] = q]]
    OBVIOUS
  <2> HIDE DEF m, k, n, r, q, m1
  <2>3. IsChain(m1) /\ DOMAIN m1.sess = DOMAIN m.sess /\ m1.meta.count = m.meta.count
    BY <1>2, <2>1, <2>2, ExceptIsChain
  <2>4. m.meta.count # 0
    BY <1>2, <1>7 DEF IsChain, Meta
  <2> QED BY <2>3, <2>4
<1> HIDE DEF k, m1
<1>9. MemType'
  BY <1>1, <1>8 DEF IInv, MemType
<1>10. DiskType'
  BY <1>1 DEF IInv, DiskType
<1>11. WriteType'
  <2>1. <<k, 0>> \in Seq(0..MaxSessions) /\ \A i \in DOMAIN <<k, 0>> : <<k, 0>>[i] \in {k, 0}
    BY <1>7, BoundType
  <2>2. writes' \in [Procs -> Seq(0..MaxSessions)]
    BY <1>1, <2>1 DEF IInv, WriteType
  <2>3. ASSUME NEW q \in Procs, NEW i \in DOMAIN writes'[q]
        PROVE  writes'[q][i] = 0 \/ writes'[q][i] \in (IF Known(q)' THEN DOMAIN mem'[q].sess ELSE {1})
    <3>1. CASE q = p
      <4>1. writes'[q] = <<k, 0>> /\ mem'[q] = m1
        BY <1>1, <3>1 DEF IInv, WriteType, MemType
      <4> QED BY <1>1, <1>8, <2>1, <2>3, <4>1 DEF Known
    <3>2. CASE q # p
      <4>1. writes'[q] = writes[q] /\ mem'[q] = mem[q]
        BY <1>1, <3>2 DEF IInv, WriteType, MemType
      <4> QED BY <2>3, <4>1 DEF IInv, WriteType, Known
    <3> QED BY <3>1, <3>2
  <2> QED BY <1>1, <2>2, <2>3 DEF WriteType, IInv
<1>12. LoadType'
  BY <1>1 DEF IInv, LoadType, Free, WriteType
<1>13. RestType'
  BY <1>1, <1>3 DEF IInv, RestType
<1> QED BY <1>9, <1>10, <1>11, <1>12, <1>13 DEF IInv

LEMMA DeleteStep == ASSUME IInv, NEW p \in Procs, DeleteChain(p) PROVE IInv'
<1>1. MemType'
  BY NoneIsChain DEF IInv, DeleteChain, MemType
<1>2. DiskType'
  BY DEF IInv, DeleteChain, DiskType, NoFiles
<1>3. WriteType'
  <2>1. open' \in [Procs -> {"no", "yes", "part", "unlinked"}]
    BY DEF IInv, DeleteChain, WriteType
  <2>2. \A q \in Procs : q # p => mem'[q] = mem[q]
    BY DEF IInv, DeleteChain, MemType
  <2>3. writes' = writes /\ writes[p] = <<>>
    BY DEF DeleteChain, Free
  <2>4. writes \in [Procs -> Seq(0..MaxSessions)]
    BY DEF IInv, WriteType
  <2>5. ASSUME NEW q \in Procs, NEW i \in DOMAIN writes'[q]
        PROVE  writes'[q][i] = 0 \/ writes'[q][i] \in (IF Known(q)' THEN DOMAIN mem'[q].sess ELSE {1})
    <3>1. q # p
      BY <2>3, <2>5
    <3> QED BY <2>2, <2>3, <2>5, <3>1 DEF IInv, WriteType, Known
  <2> QED BY <2>1, <2>3, <2>4, <2>5 DEF WriteType
<1>4. LoadType' /\ RestType'
  BY DEF IInv, DeleteChain, LoadType, RestType
<1> QED BY <1>1, <1>2, <1>3, <1>4 DEF IInv

LEMMA LoadingType ==
  ASSUME LoadType, NEW p \in Procs, NEW l, IsLoad(l), writes' = writes, writes[p] = <<>>,
         loading' = [loading EXCEPT ![p] = l]
  PROVE  LoadType'
BY DEF LoadType

LEMMA NextLoad ==
  ASSUME NEW l, IsLoad(l), NEW n \in Nat \ {0}, NEW g, IsChain(g)
  PROVE  IsLoad([l EXCEPT !.next = n, !.got = g])
<1> DEFINE k == [l EXCEPT !.next = n, !.got = g]
<1>1. DOMAIN l = {"on", "next", "got"}
  BY DEF IsLoad
<1>2. k.on = l.on /\ k.next = n /\ k.got = g /\ DOMAIN k = DOMAIN l
  BY <1>1
<1> HIDE DEF k
<1>3. IsLoad(k)
  BY <1>1, <1>2 DEF IsLoad
<1> QED BY <1>3 DEF k

LEMMA LoadStep == ASSUME IInv, NEW p \in Procs, NEW from, NEW then, Load(p, from, then),
                         then \in {"idle", "ensure"}
                  PROVE  IInv'
<1>1. MemType' /\ DiskType' /\ WriteType'
  BY DEF IInv, Load, MemType, DiskType, WriteType, Known
<1>2. LoadType'
  <2>1. CASE disk.meta = Unreadable
    BY <2>1 DEF IInv, Load, LoadType
  <2>2. CASE disk.meta # Unreadable
    <3>1. /\ loading' = [loading EXCEPT ![p] = Begin]
          /\ writes[p] = <<>> /\ writes' = writes
      BY <2>2 DEF Load, Free
    <3>2. Begin.got = [meta |-> disk.meta, sess |-> <<>>, evts |-> <<>>]
      BY DEF Begin, None
    <3>3. IsChain(Begin.got)
      BY <2>2, <3>2, BoundType DEF IInv, DiskType, IsChain, Meta
    <3>4. Begin.on = TRUE /\ Begin.next = 1
      BY DEF Begin
    <3>5. IsLoad(Begin)
      <4>1. Begin.on \in BOOLEAN
        BY <3>4, Zenon
      <4>3. Begin.next \in Nat \ {0}
        BY <3>4
      <4>2. DOMAIN Begin = {"on", "next", "got"}
        BY DEF Begin
      <4> QED BY <3>3, <4>1, <4>2, <4>3 DEF IsLoad
    <3> QED BY <3>1, <3>5, LoadingType DEF IInv
  <2> QED BY <2>1, <2>2
<1>3. RestType'
  BY DEF IInv, Load, RestType
<1> QED BY <1>1, <1>2, <1>3 DEF IInv

LEMMA ReadSessionStep == ASSUME IInv, NEW p \in Procs, ReadSession(p) PROVE IInv'
<1> DEFINE l == loading[p]
           s == l.next
<1>1. MemType' /\ DiskType' /\ WriteType' /\ RestType'
  BY DEF IInv, ReadSession, MemType, DiskType, WriteType, RestType, Known
<1>2. /\ l.on /\ s \in 1..l.got.meta.count /\ s \in 1..MaxSessions
      /\ IsChain(l.got)
  BY BoundType DEF IInv, ReadSession, LoadType, IsLoad, IsChain, Meta
<1>3. PICK g : /\ loading' = [loading EXCEPT ![p] = [l EXCEPT !.next = s + 1, !.got = g]]
               /\ g = IF disk.md[s] = Unreadable THEN l.got
                      ELSE [l.got EXCEPT !.sess = Put(l.got.sess, s, disk.md[s].rec),
                                         !.evts = Put(l.got.evts, s, disk.md[s].evts)]
  BY DEF ReadSession
<1>4. IsChain(g)
  <2>1. CASE disk.md[s] = Unreadable
    BY <1>2, <1>3, <2>1
  <2>2. CASE disk.md[s] # Unreadable
    <3>1. disk.md[s].rec \in Record /\ disk.md[s].evts \in Seq(Event)
      BY <1>2, <2>2 DEF IInv, DiskType, File
    <3>2. g = [meta |-> l.got.meta, sess |-> Put(l.got.sess, s, disk.md[s].rec),
               evts |-> Put(l.got.evts, s, disk.md[s].evts)]
      BY <1>2, <1>3, <2>2 DEF IsChain
    <3> HIDE DEF l, s
    <3> QED BY <1>2, <3>1, <3>2, PutIsChain
  <2> QED BY <2>1, <2>2
<1>5. IsLoad([l EXCEPT !.next = s + 1, !.got = g])
  <2> HIDE DEF l
  <2>1. IsLoad(l) /\ s + 1 \in Nat \ {0}
    BY <1>2 DEF IInv, LoadType, IsLoad, l
  <2> QED BY <1>4, <2>1, NextLoad
<1>6. LoadType'
  <2>1. writes' = writes /\ writes[p] = <<>>
    BY <1>2 DEF ReadSession, IInv, LoadType
  <2> HIDE DEF l, s
  <2> QED BY <1>3, <1>5, <2>1, LoadingType DEF IInv
<1> QED BY <1>1, <1>6 DEF IInv

LEMMA EndLoadStep == ASSUME IInv, NEW p \in Procs, EndLoad(p) PROVE IInv'
<1>1. MemType'
  BY DEF IInv, EndLoad, MemType, LoadType, IsLoad
<1>2. DiskType' /\ RestType'
  BY DEF IInv, EndLoad, DiskType, RestType
<1>3. WriteType'
  <2>1. writes' = writes /\ open' = open /\ writes[p] = <<>>
    BY DEF IInv, EndLoad, LoadType
  <2>2. \A q \in Procs : q # p => mem'[q] = mem[q]
    BY DEF IInv, EndLoad, MemType
  <2>3. ASSUME NEW q \in Procs, NEW i \in DOMAIN writes'[q]
        PROVE  writes'[q][i] = 0 \/ writes'[q][i] \in (IF Known(q)' THEN DOMAIN mem'[q].sess ELSE {1})
    <3>1. q # p
      BY <2>1, <2>3
    <3> QED BY <2>1, <2>2, <2>3, <3>1 DEF IInv, WriteType, Known
  <2> QED BY <2>1, <2>3 DEF IInv, WriteType
<1>4. LoadType'
  BY NoneIsChain DEF IInv, EndLoad, LoadType, IsLoad, NotLoading
<1> QED BY <1>1, <1>2, <1>3, <1>4 DEF IInv

LEMMA EnsureStep == ASSUME IInv, NEW p \in Procs, NEW from, NEW then, Ensure(p, from, then),
                           then \in {"agent", "check"}
                    PROVE  IInv'
<1>1. MemType' /\ RestType'
  BY DEF IInv, Ensure, MemType, RestType
<1>2. DiskType'
  BY DEF IInv, Ensure, Create, DiskType
<1>3. WriteType' /\ (writes[p] = <<>> /\ \A q \in Procs : q # p => writes'[q] = writes[q])
  <2>1. CASE Create(p)
    BY <2>1, CreateType DEF Ensure, Free
  <2>2. CASE UNCHANGED <<dir, writes>>
    BY <2>2 DEF IInv, Ensure, Free, WriteType, Known
  <2> QED BY <2>1, <2>2 DEF Ensure
<1>4. LoadType'
  BY <1>3 DEF IInv, Ensure, Free, LoadType
<1> QED BY <1>1, <1>2, <1>3, <1>4 DEF IInv

LEMMA CheckStep ==
  ASSUME IInv, NEW p \in Procs, TaskFails(p) \/ CheckAndSeal(p) \/ SealRefused(p) PROVE IInv'
<1>1. /\ UNCHANGED <<mem, dir, disk, writes, open, loading, sent, faults>>
      /\ \E t \in {"seal", "idle"} : task' = [task EXCEPT ![p] = t]
  BY DEF TaskFails, CheckAndSeal, SealRefused
<1>2. MemType' /\ DiskType' /\ WriteType' /\ LoadType'
  BY <1>1 DEF IInv, MemType, DiskType, WriteType, LoadType, Known
<1>3. RestType'
  BY <1>1 DEF IInv, RestType
<1> QED BY <1>2, <1>3 DEF IInv

LEMMA SealStep == ASSUME IInv, NEW p \in Procs, SealActiveSession(p) PROVE IInv'
<1> DEFINE m == mem[p]
           k == Old(p)
           n == New(p)
           m0 == [meta |-> m.meta, sess |-> [m.sess EXCEPT ![k].status = "compressing"],
                  evts |-> m.evts]
           m1 == [meta |-> [m.meta EXCEPT !.count = n, !.active = n],
                  sess |-> Put([m.sess EXCEPT ![k].status = "compressing"],
                               n, NewSession(m.meta.total)),
                  evts |-> Put(m.evts, n, <<>>)]
<1>1. /\ Free(p) /\ k \in DOMAIN m.sess /\ n <= MaxSessions
      /\ task' = [task EXCEPT ![p] = "idle"]
      /\ mem' = [mem EXCEPT ![p] = m1]
      /\ writes' = [writes EXCEPT ![p] = <<k, n, 0>>]
      /\ UNCHANGED <<dir, disk, open, loading, sent, faults>>
  BY DEF SealActiveSession, Seal
<1>2. IsChain(m)
  BY DEF IInv, MemType
<1>3. k \in 1..m.meta.count /\ n = m.meta.count + 1 /\ m.meta.count \in Nat /\ m.meta.total \in Nat
      /\ m.meta.active \in Nat
  BY <1>1, <1>2 DEF IsChain, Meta, New
<1>4. IsChain(m1) /\ DOMAIN m1.sess = DOMAIN m.sess \cup {n} /\ m1.meta # NoChain
  <2> DEFINE s1 == [m.sess EXCEPT ![k].status = "compressing"]
             r == NewSession(m.meta.total)
             q == [m.meta EXCEPT !.count = n, !.active = n]
  <2>1. s1 \in [DOMAIN m.sess -> Record]
    <3>1. [m.sess[k] EXCEPT !.status = "compressing"] \in Record
      BY <1>1, <1>2 DEF IsChain, Record
    <3> QED BY <1>1, <1>2, <3>1 DEF IsChain
  <2>2. r \in Record /\ <<>> \in Seq(Event)
    BY <1>3, NewSessionType
  <2>3. q \in Meta /\ q.count = n /\ n <= MaxSessions
    <3>1. m.meta \in Meta /\ n \in Nat
      BY <1>2, <1>3 DEF IsChain
    <3> HIDE DEF m, n
    <3> QED BY <1>1, <3>1 DEF Meta
  <2>4. /\ m1 = [meta |-> q, sess |-> Put(s1, n, r), evts |-> Put(m.evts, n, <<>>)]
        /\ m1.meta = q /\ m1.sess = Put(s1, n, r) /\ m1.evts = Put(m.evts, n, <<>>)
    OBVIOUS
  <2> HIDE DEF m1, s1, r, q, n, k, m
  <2>5. DOMAIN Put(s1, n, r) = DOMAIN m.sess \cup {n} /\ Put(s1, n, r) \in [DOMAIN m.sess \cup {n} -> Record]
    BY <2>1, <2>2 DEF Put
  <2>6. Put(m.evts, n, <<>>) \in [DOMAIN m.sess \cup {n} -> Seq(Event)]
    BY <1>2, <2>2 DEF Put, IsChain
  <2>7. DOMAIN m.sess \cup {n} \subseteq 1..n
    BY <1>2, <1>3 DEF IsChain
  <2>8. q # NoChain
    BY <1>3, <2>3
  <2> QED BY <2>3, <2>4, <2>5, <2>6, <2>7, <2>8 DEF IsChain
<1> HIDE DEF m1
<1>5. MemType'
  BY <1>1, <1>4 DEF IInv, MemType
<1>6. DiskType'
  BY <1>1 DEF IInv, DiskType
<1>7. WriteType'
  <2>1. k \in 0..MaxSessions /\ n \in 0..MaxSessions /\ 0 \in 0..MaxSessions
    BY <1>1, <1>3, BoundType
  <2> HIDE DEF k, n
  <2>2. <<k, n, 0>> \in Seq(0..MaxSessions) /\ \A i \in DOMAIN <<k, n, 0>> : <<k, n, 0>>[i] \in {k, n, 0}
    BY <2>1
  <2>3. writes' \in [Procs -> Seq(0..MaxSessions)]
    BY <1>1, <2>2 DEF IInv, WriteType
  <2>4. ASSUME NEW q \in Procs, NEW i \in DOMAIN writes'[q]
        PROVE  writes'[q][i] = 0 \/ writes'[q][i] \in (IF Known(q)' THEN DOMAIN mem'[q].sess ELSE {1})
    <3>1. CASE q = p
      <4>1. writes'[q] = <<k, n, 0>> /\ mem'[q] = m1
        BY <1>1, <3>1 DEF IInv, WriteType, MemType
      <4> QED BY <1>1, <1>4, <2>2, <2>4, <4>1 DEF Known
    <3>2. CASE q # p
      <4>1. writes'[q] = writes[q] /\ mem'[q] = mem[q]
        BY <1>1, <3>2 DEF IInv, WriteType, MemType
      <4> QED BY <2>4, <4>1 DEF IInv, WriteType, Known
    <3> QED BY <3>1, <3>2
  <2> QED BY <1>1, <2>3, <2>4 DEF WriteType, IInv
<1>8. LoadType'
  BY <1>1 DEF IInv, LoadType, Free, WriteType
<1>9. RestType'
  BY <1>1 DEF IInv, RestType
<1> QED BY <1>5, <1>6, <1>7, <1>8, <1>9 DEF IInv

LEMMA CrashStep == ASSUME IInv, NEW p \in Procs, Crash(p) PROVE IInv'
<1>1. MemType'
  BY NoneIsChain DEF IInv, Crash, MemType
<1>2. DiskType'
  BY DEF IInv, Crash, DiskType
<1>3. WriteType'
  <2>1. /\ writes' \in [Procs -> Seq(0..MaxSessions)]
        /\ open' \in [Procs -> {"no", "yes", "part", "unlinked"}]
    BY EmptySeq DEF IInv, Crash, WriteType
  <2>2. \A q \in Procs : q # p => mem'[q] = mem[q] /\ writes'[q] = writes[q]
    BY DEF IInv, Crash, MemType, WriteType
  <2>3. writes'[p] = <<>>
    BY DEF IInv, Crash, WriteType
  <2>4. ASSUME NEW q \in Procs, NEW i \in DOMAIN writes'[q]
        PROVE  writes'[q][i] = 0 \/ writes'[q][i] \in (IF Known(q)' THEN DOMAIN mem'[q].sess ELSE {1})
    <3>1. q # p
      BY <2>3, <2>4
    <3> QED BY <2>2, <2>4, <3>1 DEF IInv, WriteType, Known
  <2> QED BY <2>1, <2>4 DEF WriteType
<1>4. LoadType'
  <2>1. IsLoad(NotLoading) /\ NotLoading.on = FALSE
    <3>1. NotLoading.on = FALSE /\ NotLoading.got = None
      BY DEF NotLoading
    <3>2. DOMAIN NotLoading = {"on", "next", "got"}
      BY DEF NotLoading
    <3> QED BY <3>1, <3>2, NoneIsChain, Zenon DEF IsLoad
  <2>2. \A q \in Procs : q # p => writes'[q] = writes[q]
    BY DEF IInv, Crash, WriteType
  <2> QED BY <2>1, <2>2 DEF IInv, Crash, LoadType
<1>5. RestType'
  BY DEF IInv, Crash, RestType
<1> QED BY <1>1, <1>2, <1>3, <1>4, <1>5 DEF IInv

LEMMA StepIInv == IInv /\ [Next]_vars => IInv'
<1> SUFFICES ASSUME IInv, [Next]_vars PROVE IInv'
  OBVIOUS
<1>1. ASSUME NEW p \in Procs, Truncate(p) PROVE IInv'
  BY <1>1, TruncateStep
<1>2. ASSUME NEW p \in Procs, Store(p) PROVE IInv'
  BY <1>2, StoreStep
<1>3. ASSUME NEW p \in Procs, WriteFails(p) PROVE IInv'
  BY <1>3, WriteFailsStep
<1>4. ASSUME NEW p \in Procs, LoadFromDisk(p) \/ ReloadThread(p) PROVE IInv'
  BY <1>4, LoadStep DEF LoadFromDisk, ReloadThread
<1>5. ASSUME NEW p \in Procs, ReadSession(p) PROVE IInv'
  BY <1>5, ReadSessionStep
<1>6. ASSUME NEW p \in Procs, EndLoad(p) PROVE IInv'
  BY <1>6, EndLoadStep
<1>7. ASSUME NEW p \in Procs, Crash(p) PROVE IInv'
  BY <1>7, CrashStep
<1>8. ASSUME NEW p \in Procs, GetOrCreateChain(p) PROVE IInv'
  BY <1>8, CreateStep
<1>9. ASSUME NEW p \in Procs, AppendEvent(p) PROVE IInv'
  BY <1>9, AppendStepType
<1>10. ASSUME NEW p \in Procs, DeleteChain(p) PROVE IInv'
  BY <1>10, DeleteStep
<1>11. ASSUME NEW p \in Procs, EnsureChain(p) \/ EnsureAgain(p) PROVE IInv'
  BY <1>11, EnsureStep DEF EnsureChain, EnsureAgain
<1>12. ASSUME NEW p \in Procs, TaskFails(p) \/ CheckAndSeal(p) \/ SealRefused(p) PROVE IInv'
  BY <1>12, CheckStep
<1>13. ASSUME NEW p \in Procs, SealActiveSession(p) PROVE IInv'
  BY <1>13, SealStep
<1>14. CASE UNCHANGED vars
  BY <1>14 DEF vars, IInv, MemType, DiskType, WriteType, LoadType, RestType, Known
<1>16. ASSUME NEW p \in Procs, WritePart(p) PROVE IInv'
  BY <1>16, WritePartStep
<1>15. Writers \subseteq Procs /\ Workers \subseteq Procs
  BY DEF Procs
<1> QED
  BY <1>1, <1>2, <1>3, <1>4, <1>5, <1>6, <1>7, <1>8, <1>9, <1>10, <1>11, <1>12, <1>13, <1>14,
     <1>15, <1>16 DEF Next

THEOREM Invariance == Spec => []IInv
<1>1. Init => IInv
  BY InitIInv
<1>2. IInv /\ [Next]_vars => IInv'
  BY StepIInv
<1> QED BY <1>1, <1>2, PTL DEF Spec

\* What a process has in memory, what the directory holds and what a method has
\* still to write have their types, whatever the processes do to one another.
THEOREM TypeCorrect == Spec => []TypeOK
<1>1. IInv => TypeOK
  <2> SUFFICES ASSUME IInv PROVE TypeOK
    OBVIOUS
  <2>1. \A p \in Procs : /\ mem[p].meta \in Meta
                         /\ DOMAIN mem[p].sess = DOMAIN mem[p].evts
                         /\ DOMAIN mem[p].sess \subseteq 1..mem[p].meta.count
                         /\ \A s \in DOMAIN mem[p].sess : /\ mem[p].sess[s] \in Record
                                                          /\ mem[p].evts[s] \in Seq(Event)
    BY DEF IInv, MemType, IsChain
  <2>2. \A p \in Procs : loading[p].on => writes[p] = <<>>
    BY DEF IInv, LoadType
  <2> QED BY <2>1, <2>2 DEF IInv, TypeOK, DiskType, WriteType, RestType, File
<1> QED BY <1>1, Invariance, PTL

-----------------------------------------------------------------------------
(* What processes read exists.  Without a crash or a delete the API server *)
(* never reads its files, so that its memory only grows; every other copy  *)
(* of an event, in memory, in a file or half loaded, is taken from it.     *)

\* The events of c, of the file d of session s, are events of m.
RealOf(c, m) == \A s \in DOMAIN c.evts : \A i \in DOMAIN c.evts[s] :
                   s \in DOMAIN m.evts /\ c.evts[s][i] \in EventsIn(m, s)

RealFile(d, s, m) == \A i \in DOMAIN d.evts : s \in DOMAIN m.evts /\ d.evts[i] \in EventsIn(m, s)

Grows(m, n) == \A s \in DOMAIN m.evts : s \in DOMAIN n.evts /\ EventsIn(m, s) \subseteq EventsIn(n, s)

Quiet == faults.crashes = 0 /\ faults.deletes = 0

MainStays == task[Main] = "idle" /\ ~loading[Main].on

AllReal ==
  Quiet => /\ MainStays
           /\ \A p \in Procs : RealOf(mem[p], mem[Main]) /\ RealOf(loading[p].got, mem[Main])
           /\ \A s \in 1..MaxSessions :
                 disk.md[s] # Unreadable => RealFile(disk.md[s], s, mem[Main])

LEMMA GrowsReal ==
  ASSUME NEW m, NEW n, Grows(m, n)
  PROVE  /\ \A c : RealOf(c, m) => RealOf(c, n)
         /\ \A d, s : RealFile(d, s, m) => RealFile(d, s, n)
BY DEF Grows, RealOf, RealFile

LEMMA GrowsSame == ASSUME NEW m PROVE Grows(m, m)
BY DEF Grows

\* A session with the content of a real file, or none, leaves a copy real.
LEMMA PutReal ==
  ASSUME NEW c, NEW m, RealOf(c, m), NEW s, NEW q, NEW d,
         d.evts = Put(c.evts, s, q),
         \A i \in DOMAIN q : s \in DOMAIN m.evts /\ q[i] \in EventsIn(m, s)
  PROVE  RealOf(d, m)
BY DEF RealOf, Put

\* The steps in which the memory of Main stays as it is and the others' copies
\* change.
LEMMA OthersReal ==
  ASSUME AllReal, UNCHANGED faults, mem'[Main] = mem[Main], UNCHANGED <<task[Main], loading[Main].on>>,
         Quiet =>
           /\ \A p \in Procs : RealOf(mem'[p], mem[Main]) /\ RealOf(loading'[p].got, mem[Main])
           /\ \A s \in 1..MaxSessions :
                 disk'.md[s] # Unreadable => RealFile(disk'.md[s], s, mem[Main])
  PROVE  AllReal'
BY DEF AllReal, Quiet, MainStays

\* The API server alone appends and deletes, and it runs no agent's task.
OneServer == Writers = {Main} /\ Main \notin Workers

LEMMA TruncateReal ==
  ASSUME OneServer, IInv, AllReal, NEW p \in Procs, Truncate(p) PROVE AllReal'
<1>1. PICK f : f \in 0..MaxSessions /\ disk' = WithFile(f, Unreadable)
  <2>1. Head(writes[p]) \in 0..MaxSessions
    BY ImageType DEF Truncate
  <2> QED BY <2>1 DEF Truncate
<1>2. \A s \in 1..MaxSessions : disk'.md[s] # Unreadable => disk'.md[s] = disk.md[s]
  BY <1>1 DEF IInv, DiskType, WithFile
<1>3. UNCHANGED <<mem, loading, task, faults>>
  BY DEF Truncate
<1> QED BY <1>2, <1>3, OthersReal DEF AllReal

\* A file is written from a content that is real, over one that is real.
LEMMA FileReal ==
  ASSUME IInv, AllReal, Quiet, NEW f \in 0..MaxSessions, NEW c,
         f = 0 => c \in Meta /\ c.count <= MaxSessions,
         f # 0 => c \in File /\ RealFile(c, f, mem[Main]),
         \E d \in Overlays(f, c) : disk' = WithFile(f, d)
  PROVE  \A s \in 1..MaxSessions : disk'.md[s] # Unreadable => RealFile(disk'.md[s], s, mem[Main])
<1>1. PICK d \in Overlays(f, c) : disk' = WithFile(f, d)
  OBVIOUS
<1>2. f # 0 => /\ d \in File
               /\ \A i \in DOMAIN d.evts :
                    \/ \E j \in DOMAIN c.evts : d.evts[i] = c.evts[j]
                    \/ /\ disk.md[f] # Unreadable
                       /\ \E j \in DOMAIN disk.md[f].evts : d.evts[i] = disk.md[f].evts[j]
  BY OverlaysType DEF IInv
<1>3. f # 0 => RealFile(d, f, mem[Main])
  <2> SUFFICES ASSUME f # 0, NEW i \in DOMAIN d.evts
               PROVE  f \in DOMAIN mem[Main].evts /\ d.evts[i] \in EventsIn(mem[Main], f)
    BY DEF RealFile
  <2>1. CASE \E j \in DOMAIN c.evts : d.evts[i] = c.evts[j]
    BY <2>1 DEF RealFile
  <2>2. CASE disk.md[f] # Unreadable /\ \E j \in DOMAIN disk.md[f].evts : d.evts[i] = disk.md[f].evts[j]
    <3>1. RealFile(disk.md[f], f, mem[Main])
      BY <2>2 DEF AllReal
    <3> QED BY <2>2, <3>1 DEF RealFile
  <2> QED BY <1>2, <2>1, <2>2
<1>4. \A s \in 1..MaxSessions : disk'.md[s] = IF s = f THEN d ELSE disk.md[s]
  BY <1>1 DEF IInv, DiskType, WithFile
<1> QED BY <1>3, <1>4 DEF AllReal

LEMMA StoreReal ==
  ASSUME OneServer, IInv, AllReal, NEW p \in Procs, Store(p) PROVE AllReal'
<1> SUFFICES ASSUME Quiet' PROVE AllReal'
  BY DEF AllReal
<1> DEFINE f == Head(writes[p])
           c == Image(p, f)
<1>1. UNCHANGED <<loading, task, faults>> /\ Quiet /\ writes[p] # <<>>
  BY DEF Store, Quiet
<1>2. /\ f \in 0..MaxSessions /\ (f = 0 => c \in Meta /\ c.count <= MaxSessions)
      /\ f # 0 => /\ c \in File
                  /\ \/ f \in DOMAIN mem[p].evts /\ c.evts = mem[p].evts[f]
                     \/ c.evts = <<>>
  BY <1>1, ImageType
<1>3. f # 0 => RealFile(c, f, mem[Main])
  BY <1>1, <1>2 DEF AllReal, RealFile, RealOf
<1>4. \A s \in 1..MaxSessions : disk'.md[s] # Unreadable => RealFile(disk'.md[s], s, mem[Main])
  <2>1. CASE open[p] # "unlinked"
    <3>1. \E d \in Overlays(f, c) : disk' = WithFile(f, d)
      BY <2>1 DEF Store
    <3> HIDE DEF f, c
    <3> QED BY <1>1, <1>2, <1>3, <3>1, FileReal
  <2>2. CASE open[p] = "unlinked"
    <3>1. disk' = disk
      BY <2>2 DEF Store
    <3> QED BY <1>1, <3>1 DEF AllReal
  <2> QED BY <2>1, <2>2
<1> HIDE DEF f, c
<1>5. CASE mem' = mem
  BY <1>1, <1>4, <1>5, OthersReal DEF AllReal
<1>6. CASE mem' # mem
  <2>1. ~Known(p) /\ mem' = [mem EXCEPT ![p] = Fresh]
    BY <1>6 DEF Store
  <2>2. DOMAIN mem[p].evts = {}
    BY <2>1 DEF IInv, MemType, IsChain, Known
  <2>3. Grows(mem[Main], mem'[Main])
    BY <2>1, <2>2, GrowsSame DEF Grows, IInv, MemType
  <2>4. \A m : RealOf(Fresh, m)
    BY FreshIsChain DEF RealOf
  <2>5. \A q \in Procs : mem'[q] = mem[q] \/ mem'[q] = Fresh
    BY <2>1 DEF IInv, MemType
  <2>6. \A q \in Procs : RealOf(mem'[q], mem'[Main]) /\ RealOf(loading'[q].got, mem'[Main])
    BY <1>1, <2>3, <2>4, <2>5, GrowsReal DEF AllReal
  <2>7. \A s \in 1..MaxSessions : disk'.md[s] # Unreadable => RealFile(disk'.md[s], s, mem'[Main])
    BY <1>4, <2>3, GrowsReal
  <2> QED BY <1>1, <2>6, <2>7 DEF AllReal, MainStays
<1> QED BY <1>5, <1>6

LEMMA WritePartReal ==
  ASSUME OneServer, IInv, AllReal, NEW p \in Procs, WritePart(p) PROVE AllReal'
<1> SUFFICES ASSUME Quiet' PROVE AllReal'
  BY DEF AllReal
<1>1. UNCHANGED <<mem, loading, task, faults>> /\ Quiet /\ writes[p] # <<>>
  BY DEF WritePart, Quiet
<1>2. PICK f \in 1..MaxSessions, c \in File, k \in Nat :
         /\ f = Head(writes[p]) /\ c = Image(p, f) /\ k \in 0..Len(c.evts)
         /\ \E d \in Overlays(f, Cut(c, k)) : disk' = WithFile(f, d)
  BY PartWritten
<1>3. (f \in DOMAIN mem[p].evts /\ c.evts = mem[p].evts[f]) \/ c.evts = <<>>
  BY <1>1, <1>2, ImageType
<1>4. RealFile(c, f, mem[Main])
  BY <1>1, <1>3 DEF AllReal, RealFile, RealOf
<1>5. PICK h : h = Cut(c, k) /\ h \in File
  BY <1>2, CutType
<1>6. \A i \in DOMAIN h.evts : \E j \in DOMAIN c.evts : h.evts[i] = c.evts[j]
  BY <1>2, <1>5, CutType
<1>7. RealFile(h, f, mem[Main])
  BY <1>4, <1>6 DEF RealFile
<1>8. \A s \in 1..MaxSessions : disk'.md[s] # Unreadable => RealFile(disk'.md[s], s, mem[Main])
  <2>1. f \in 0..MaxSessions /\ f # 0 /\ \E d \in Overlays(f, h) : disk' = WithFile(f, d)
    BY <1>2, <1>5
  <2> QED BY <1>1, <1>5, <1>7, <2>1, FileReal
<1> QED BY <1>1, <1>8, OthersReal DEF AllReal

LEMMA AppendReal ==
  ASSUME OneServer, IInv, AllReal, AppendEvent(Main) PROVE AllReal'
<1> DEFINE m == mem[Main]
           k == m.meta.active
           e == [no |-> m.meta.total + 1, msg |-> sent + 1]
<1>0. Main \in Procs
  BY DEF OneServer, Procs
<1>1. UNCHANGED <<loading, task, faults, disk>> /\ k \in DOMAIN m.sess
  BY DEF AppendEvent
<1>2. mem'[Main].evts = [m.evts EXCEPT ![k] = Append(m.evts[k], e)]
  BY <1>0 DEF AppendEvent, IInv, MemType
<1>3. \A p \in Procs : p # Main => mem'[p] = mem[p]
  BY DEF AppendEvent, IInv, MemType
<1>4. m.evts \in [DOMAIN m.sess -> Seq(Event)]
  BY <1>0 DEF IInv, MemType, IsChain
<1> HIDE DEF m, k, e
<1>5. Grows(m, mem'[Main])
  <2>1. \A i \in DOMAIN m.evts[k] : i \in DOMAIN Append(m.evts[k], e) /\ Append(m.evts[k], e)[i] = m.evts[k][i]
    <3>1. m.evts[k] \in Seq(Event)
      BY <1>1, <1>4
    <3> QED BY <3>1
  <2> QED BY <1>1, <1>2, <1>4, <2>1 DEF Grows, EventsIn
<1>6. RealOf(mem'[Main], mem'[Main])
  BY DEF RealOf, EventsIn
<1>7. \A p \in Procs : Quiet => RealOf(mem'[p], mem'[Main])
  BY <1>3, <1>5, <1>6, GrowsReal DEF AllReal, m
<1> QED BY <1>1, <1>5, <1>7, GrowsReal DEF AllReal, MainStays, Quiet, m

LEMMA LoadReal ==
  ASSUME OneServer, IInv, AllReal, NEW p \in Procs, p # Main, NEW from, NEW then, Load(p, from, then)
  PROVE  AllReal'
<1>1. Main \in Procs
  BY DEF OneServer, Procs
<1>2. UNCHANGED <<mem, disk, faults>> /\ (loading' = loading \/ loading' = [loading EXCEPT ![p] = Begin])
      /\ (task' = task \/ task' = [task EXCEPT ![p] = then])
  BY DEF Load
<1>3. loading'[Main] = loading[Main] /\ task'[Main] = task[Main]
  BY <1>1, <1>2 DEF IInv, LoadType, RestType
<1>4. RealOf(Begin.got, mem[Main])
  BY DEF Begin, None, RealOf
<1>5. \A q \in Procs : loading'[q] = loading[q] \/ loading'[q] = Begin
  BY <1>2 DEF IInv, LoadType
<1>6. \A q \in Procs : Quiet => RealOf(loading'[q].got, mem[Main])
  BY <1>4, <1>5 DEF AllReal
<1> QED BY <1>2, <1>3, <1>6, OthersReal DEF AllReal

LEMMA ReadReal ==
  ASSUME OneServer, IInv, AllReal, NEW p \in Procs, ReadSession(p) PROVE AllReal'
<1> SUFFICES ASSUME Quiet' PROVE AllReal'
  BY DEF AllReal
<1> DEFINE l == loading[p]
           s == l.next
<1>1. UNCHANGED <<mem, disk, task, faults>> /\ Quiet /\ l.on
  BY DEF ReadSession, Quiet
<1>2. p # Main /\ loading'[Main] = loading[Main]
  BY <1>1 DEF AllReal, MainStays, ReadSession, IInv, LoadType, OneServer, Procs
<1>3. s \in 1..MaxSessions /\ IsChain(l.got)
  BY BoundType DEF IInv, ReadSession, LoadType, IsLoad, IsChain, Meta
<1>4. PICK g : /\ loading' = [loading EXCEPT ![p] = [l EXCEPT !.next = s + 1, !.got = g]]
               /\ g = IF disk.md[s] = Unreadable THEN l.got
                      ELSE [l.got EXCEPT !.sess = Put(l.got.sess, s, disk.md[s].rec),
                                         !.evts = Put(l.got.evts, s, disk.md[s].evts)]
  BY DEF ReadSession
<1>5. \A q \in Procs : q # p => loading'[q] = loading[q]
  BY <1>4 DEF IInv, LoadType
<1>6. loading'[p].got = g
  <2>1. loading'[p] = [l EXCEPT !.next = s + 1, !.got = g]
    BY <1>4 DEF IInv, LoadType
  <2>2. DOMAIN l = {"on", "next", "got"}
    BY DEF IInv, LoadType, IsLoad
  <2> QED BY <2>1, <2>2
<1>7. RealOf(g, mem[Main])
  <2>1. CASE disk.md[s] = Unreadable
    BY <1>1, <1>4, <2>1 DEF AllReal
  <2>2. CASE disk.md[s] # Unreadable
    <3>1. g.evts = Put(l.got.evts, s, disk.md[s].evts)
      BY <1>3, <1>4, <2>2 DEF IsChain
    <3>2. RealFile(disk.md[s], s, mem[Main]) /\ RealOf(l.got, mem[Main])
      BY <1>1, <1>3, <2>2 DEF AllReal
    <3> HIDE DEF l, s
    <3> QED BY <3>1, <3>2, PutReal DEF RealFile
  <2> QED BY <2>1, <2>2
<1>8. \A q \in Procs : RealOf(loading'[q].got, mem[Main])
  BY <1>1, <1>5, <1>6, <1>7 DEF AllReal
<1> QED BY <1>1, <1>2, <1>8, OthersReal DEF AllReal

LEMMA EndLoadReal ==
  ASSUME OneServer, IInv, AllReal, NEW p \in Procs, EndLoad(p) PROVE AllReal'
<1> SUFFICES ASSUME Quiet' PROVE AllReal'
  BY DEF AllReal
<1>1. UNCHANGED <<disk, faults>> /\ Quiet /\ loading[p].on
  BY DEF EndLoad, Quiet
<1>2. p # Main /\ loading'[Main] = loading[Main] /\ mem'[Main] = mem[Main] /\ task'[Main] = task[Main]
  BY <1>1 DEF AllReal, MainStays, EndLoad, IInv, LoadType, MemType, RestType, OneServer, Procs
<1>3. NotLoading.got = None
  BY DEF NotLoading
<1>4. \A q \in Procs : /\ mem'[q] = mem[q] \/ mem'[q] = loading[q].got
                       /\ loading'[q] = loading[q] \/ loading'[q] = NotLoading
  BY DEF EndLoad, IInv, MemType, LoadType
<1>5. RealOf(None, mem[Main])
  BY NoneIsChain DEF RealOf
<1>6. \A q \in Procs : RealOf(mem'[q], mem[Main]) /\ RealOf(loading'[q].got, mem[Main])
  BY <1>1, <1>3, <1>4, <1>5 DEF AllReal
<1> QED BY <1>1, <1>2, <1>6, OthersReal DEF AllReal

LEMMA SealReal ==
  ASSUME OneServer, IInv, AllReal, NEW p \in Workers, SealActiveSession(p) PROVE AllReal'
<1>1. p # Main /\ p \in Procs /\ Main \in Procs
  BY DEF OneServer, Procs
<1>2. UNCHANGED <<disk, loading, faults>>
  BY DEF SealActiveSession, Seal
<1>3. mem'[p].evts = Put(mem[p].evts, New(p), <<>>)
  BY <1>1 DEF SealActiveSession, Seal, IInv, MemType
<1>4. \A q \in Procs : q # p => mem'[q] = mem[q]
  BY DEF SealActiveSession, Seal, IInv, MemType
<1>5. task'[Main] = task[Main]
  BY <1>1 DEF SealActiveSession, Seal, IInv, RestType
<1>6. Quiet => RealOf(mem'[p], mem[Main])
  <2>1. Quiet => RealOf(mem[p], mem[Main])
    BY <1>1 DEF AllReal
  <2> QED BY <1>3, <2>1 DEF RealOf, Put
<1> QED BY <1>1, <1>2, <1>4, <1>5, <1>6, OthersReal DEF AllReal

LEMMA RealStep == OneServer /\ IInv /\ AllReal /\ [Next]_vars => AllReal'
<1> SUFFICES ASSUME OneServer, IInv, AllReal, [Next]_vars PROVE AllReal'
  OBVIOUS
<1>0. Procs = {Main} \cup Workers
  BY DEF OneServer, Procs
<1>1. ASSUME NEW p \in Procs, Truncate(p) PROVE AllReal'
  BY <1>1, TruncateReal
<1>2. ASSUME NEW p \in Procs, Store(p) PROVE AllReal'
  BY <1>2, StoreReal
<1>3. ASSUME NEW p \in Procs, WriteFails(p) PROVE AllReal'
  <2>1. UNCHANGED <<mem, disk, loading, task>> /\ Quiet' = Quiet
    BY <1>3 DEF WriteFails, Quiet, IInv, RestType
  <2> QED BY <2>1 DEF AllReal, MainStays
<1>4. ASSUME NEW p \in Procs, LoadFromDisk(p) PROVE AllReal'
  <2> SUFFICES ASSUME Quiet' PROVE AllReal'
    BY DEF AllReal
  <2>1. p # Main
    BY <1>4 DEF LoadFromDisk, Load, AllReal, MainStays, Quiet
  <2> QED BY <1>4, <2>1, LoadReal DEF LoadFromDisk
<1>5. ASSUME NEW p \in Procs, ReadSession(p) PROVE AllReal'
  BY <1>5, ReadReal
<1>6. ASSUME NEW p \in Procs, EndLoad(p) PROVE AllReal'
  BY <1>6, EndLoadReal
<1>7. ASSUME NEW p \in Procs, Crash(p) \/ DeleteChain(p) PROVE AllReal'
  BY <1>7 DEF AllReal, Quiet, Crash, DeleteChain, IInv, RestType
<1>8. CASE GetOrCreateChain(Main)
  BY <1>8 DEF GetOrCreateChain, AllReal, Quiet, MainStays
<1>9. CASE AppendEvent(Main)
  BY <1>9, AppendReal
<1>10. ASSUME NEW p \in Workers, ReloadThread(p) PROVE AllReal'
  BY <1>0, <1>10, LoadReal DEF ReloadThread, OneServer
<1>11. ASSUME NEW p \in Workers, \/ EnsureChain(p) \/ TaskFails(p) \/ EnsureAgain(p)
                                 \/ CheckAndSeal(p) \/ SealRefused(p)
       PROVE  AllReal'
  <2>1. UNCHANGED <<mem, disk, loading, faults>> /\ \E t : task' = [task EXCEPT ![p] = t]
    BY <1>11 DEF EnsureChain, EnsureAgain, Ensure, TaskFails, CheckAndSeal, SealRefused
  <2>2. task'[Main] = task[Main]
    BY <1>0, <2>1 DEF OneServer, IInv, RestType
  <2> QED BY <2>1, <2>2, OthersReal DEF AllReal
<1>12. ASSUME NEW p \in Workers, SealActiveSession(p) PROVE AllReal'
  BY <1>12, SealReal
<1>13. CASE UNCHANGED vars
  BY <1>13 DEF vars, AllReal, Quiet, MainStays
<1>14. Writers = {Main}
  BY DEF OneServer
<1>15. ASSUME NEW p \in Procs, WritePart(p) PROVE AllReal'
  BY <1>15, WritePartReal
<1> QED
  BY <1>0, <1>1, <1>2, <1>3, <1>4, <1>5, <1>6, <1>7, <1>8, <1>9, <1>10, <1>11, <1>12, <1>13, <1>14,
     <1>15
  DEF Next

\* However a worker's reload interleaves with the API server's writes, truncated
\* files and files written over one another, what any process has in memory are
\* events that the API server has, in the same session and under the same number.
THEOREM ReadEventsExist ==
  ASSUME OneServer PROVE Spec => []ReadsAreReal
<1>1. Init => AllReal
  BY NoneIsChain DEF Init, AllReal, MainStays, RealOf, NotLoading, NoFiles, OneServer, Procs
<1>2. IInv /\ AllReal /\ [Next]_vars => AllReal'
  BY RealStep
<1>3. AllReal => ReadsAreReal
  BY DEF AllReal, Quiet, RealOf, ReadsAreReal
<1> QED BY <1>1, <1>2, <1>3, Invariance, PTL DEF Spec

-----------------------------------------------------------------------------
(* The memory of the API server is the chain of SessionChain.              *)

\* Without a crash the API server never starts again, so it never loads.
NeverLoads == faults.crashes = 0 /\ MainStays

LEMMA NeverLoadsStep ==
  OneServer /\ MaxCrashes = 0 /\ IInv /\ NeverLoads /\ [Next]_vars => NeverLoads'
<1> SUFFICES ASSUME OneServer, MaxCrashes = 0, IInv, NeverLoads, [Next]_vars PROVE NeverLoads'
  OBVIOUS
<1>0. /\ Main \in Procs /\ Main \notin Workers /\ Writers = {Main} /\ Procs = {Main} \cup Workers
      /\ loading \in [Procs -> {loading[p] : p \in Procs}]
  BY DEF OneServer, Procs, IInv, LoadType
<1>1. ASSUME NEW p \in Procs, Truncate(p) \/ WritePart(p) \/ Store(p) PROVE NeverLoads'
  BY <1>1 DEF Truncate, WritePart, Store, NeverLoads, MainStays
<1>2. ASSUME NEW p \in Procs, WriteFails(p) PROVE NeverLoads'
  BY <1>2 DEF WriteFails, NeverLoads, MainStays, IInv, RestType
<1>3. ASSUME NEW p \in Procs, NEW from, NEW then, Load(p, from, then), p # Main PROVE NeverLoads'
  BY <1>0, <1>3 DEF Load, NeverLoads, MainStays, IInv, LoadType, RestType
<1>4. ASSUME NEW p \in Procs, ReadSession(p) \/ EndLoad(p) PROVE NeverLoads'
  <2>1. p # Main
    BY <1>4 DEF ReadSession, EndLoad, NeverLoads, MainStays
  <2> QED BY <1>0, <1>4, <2>1 DEF ReadSession, EndLoad, NeverLoads, MainStays, IInv, LoadType, RestType
<1>5. ASSUME NEW p \in Procs, Crash(p) PROVE FALSE
  BY <1>5 DEF Crash, IInv, RestType
<1>6. CASE GetOrCreateChain(Main) \/ AppendEvent(Main) \/ DeleteChain(Main)
  BY <1>6 DEF GetOrCreateChain, AppendEvent, DeleteChain, NeverLoads, MainStays, IInv, RestType
<1>7. ASSUME NEW p \in Workers, \/ EnsureChain(p) \/ TaskFails(p) \/ EnsureAgain(p)
                                \/ CheckAndSeal(p) \/ SealRefused(p) \/ SealActiveSession(p)
      PROVE  NeverLoads'
  <2>1. UNCHANGED <<loading, faults>> /\ \E t : task' = [task EXCEPT ![p] = t]
    BY <1>7 DEF EnsureChain, EnsureAgain, Ensure, TaskFails, CheckAndSeal, SealRefused,
                SealActiveSession, Seal
  <2> QED BY <1>0, <2>1 DEF NeverLoads, MainStays, IInv, RestType
<1>8. CASE UNCHANGED vars
  BY <1>8 DEF vars, NeverLoads, MainStays
<1>9. ASSUME NEW p \in Procs, LoadFromDisk(p) PROVE NeverLoads'
  <2>1. p # Main
    BY <1>9 DEF LoadFromDisk, Load, NeverLoads, MainStays
  <2> QED BY <1>3, <1>9, <2>1 DEF LoadFromDisk
<1>10. ASSUME NEW p \in Workers, ReloadThread(p) PROVE NeverLoads'
  BY <1>0, <1>3, <1>10 DEF ReloadThread
<1> QED BY <1>0, <1>1, <1>2, <1>4, <1>5, <1>6, <1>7, <1>8, <1>9, <1>10 DEF Next

LEMMA InitMaps == OneServer /\ Init => SC!Init
<1> SUFFICES ASSUME OneServer, Init PROVE SC!Init
  OBVIOUS
<1>1. Main \in Procs
  BY DEF OneServer, Procs
<1>2. mem[Main] = None /\ task[Main] = "idle" /\ sent = 0 /\ faults.deletes = 0
  BY <1>1 DEF Init
<1>3. \A v : [a \in {} |-> v] = <<>>
  OBVIOUS
<1> QED BY <1>2, <1>3, NoneIsChain DEF SC!Init, SC!NoChain

\* ChainData's operators are the same in SessionChain.
LEMMA SameData ==
  /\ SC!FirstMeta = FirstMeta /\ SC!NoChain = NoChain
  /\ \A n : SC!NewSession(n) = NewSession(n)
  /\ \A r, n, w : SC!WithEvent(r, n, w) = WithEvent(r, n, w)
  /\ \A f, s, v : SC!Put(f, s, v) = Put(f, s, v)
BY DEF SC!FirstMeta, SC!NoChain, SC!NewSession, NewSession, SC!WithEvent, WithEvent, SC!Put, Put

\* What process Main does to the chain in its memory.
LEMMA StoreMaps ==
  ASSUME IInv, Main \in Procs, NEW p \in Procs, Store(p)
  PROVE  SC!GetOrCreateChain \/ (mem'[Main] = mem[Main] /\ UNCHANGED <<sent, faults, task>>)
<1>1. UNCHANGED <<sent, faults, task>>
  BY DEF Store
<1>2. CASE mem'[Main] # mem[Main]
  <2>1. mem' = [mem EXCEPT ![Main] = Fresh] /\ ~Known(Main)
    <3>1. mem' = [mem EXCEPT ![p] = Fresh] /\ ~Known(p)
      BY <1>2 DEF Store
    <3>2. p = Main
      BY <1>2, <3>1
    <3> QED BY <3>1, <3>2
  <2>2. mem[Main].meta.count = 0 /\ mem'[Main] = Fresh
    BY <2>1 DEF Known, IInv, MemType
  <2>3. /\ Fresh.meta = FirstMeta /\ Fresh.sess = Put(<<>>, 1, NewSession(0))
        /\ Fresh.evts = Put(<<>>, 1, <<>>)
    BY DEF Fresh
  <2> QED BY <1>1, <2>2, <2>3, SameData DEF SC!GetOrCreateChain, SC!Exists
<1> QED BY <1>1, <1>2

LEMMA AppendMaps == ASSUME IInv, Main \in Procs, AppendEvent(Main) PROVE SC!AppendEvent
<1> DEFINE m == mem[Main]
           k == m.meta.active
           n == m.meta.total + 1
           w == EstimateTokens(sent + 1)
           r == WithEvent(m.sess[k], n, w)
           q == Append(m.evts[k], [no |-> n, msg |-> sent + 1])
<1>1. /\ mem'[Main].meta = [m.meta EXCEPT !.total = n]
      /\ mem'[Main].sess = [m.sess EXCEPT ![k] = r]
      /\ mem'[Main].evts = [m.evts EXCEPT ![k] = q]
  BY DEF AppendEvent, IInv, MemType
<1>2. /\ sent < MaxMessages /\ k \in DOMAIN m.sess /\ m.sess[k].status = "active"
      /\ sent' = sent + 1 /\ UNCHANGED <<faults, task>>
  BY DEF AppendEvent
<1>3. SC!WithEvent(m.sess[k], n, w) = r
  BY SameData
<1>4. DOMAIN m.sess = DOMAIN m.evts
  BY DEF IInv, MemType, IsChain
<1>5. /\ mem'[Main].sess = [m.sess EXCEPT ![k] = SC!WithEvent(@, n, w)]
      /\ mem'[Main].evts = [m.evts EXCEPT ![k] = Append(@, [no |-> n, msg |-> sent + 1])]
  BY <1>1, <1>2, <1>3, <1>4
<1> HIDE DEF r, q
<1> QED BY <1>1, <1>2, <1>5 DEF SC!AppendEvent

LEMMA DeleteMaps == ASSUME IInv, Main \in Procs, DeleteChain(Main) PROVE SC!DeleteChain
<1>1. mem'[Main] = None /\ faults'.deletes = faults.deletes + 1
      /\ faults.deletes < MaxDeletes /\ UNCHANGED <<sent, task>>
  BY DEF DeleteChain, IInv, MemType, RestType
<1>2. \A v : [a \in {} |-> v] = <<>>
  OBVIOUS
<1> QED BY <1>1, <1>2, NoneIsChain, SameData DEF SC!DeleteChain

LEMMA StepMaps ==
  OneServer /\ MaxCrashes = 0 /\ IInv /\ NeverLoads /\ [Next]_vars => [SC!Next]_(SC!vars)
<1> SUFFICES ASSUME OneServer, MaxCrashes = 0, IInv, NeverLoads, [Next]_vars
             PROVE  SC!Next \/ UNCHANGED SC!vars
  OBVIOUS
<1> DEFINE Idle == mem'[Main] = mem[Main] /\ (task[Main] = "seal" <=> task'[Main] = "seal")
                   /\ UNCHANGED <<sent, faults.deletes>>
<1>0. /\ Main \in Procs /\ Main \notin Workers /\ Writers = {Main} /\ Procs = {Main} \cup Workers
      /\ task[Main] = "idle" /\ task'[Main] = "idle" /\ ~loading[Main].on
  BY NeverLoadsStep DEF OneServer, Procs, NeverLoads, MainStays
<1>1. Idle => UNCHANGED SC!vars
  BY <1>0 DEF SC!vars
<1>2. ASSUME NEW p \in Procs, Truncate(p) \/ WritePart(p) PROVE Idle
  BY <1>0, <1>2 DEF Truncate, WritePart
<1>3. ASSUME NEW p \in Procs, Store(p) PROVE SC!GetOrCreateChain \/ Idle
  BY <1>0, <1>3, StoreMaps
<1>4. ASSUME NEW p \in Procs, WriteFails(p) PROVE Idle
  BY <1>0, <1>4 DEF WriteFails, IInv, RestType
<1>5. ASSUME NEW p \in Procs, LoadFromDisk(p) \/ ReloadThread(p) \/ ReadSession(p) PROVE Idle
  BY <1>0, <1>5 DEF LoadFromDisk, ReloadThread, Load, ReadSession
<1>6. ASSUME NEW p \in Procs, EndLoad(p) PROVE Idle
  BY <1>0, <1>6 DEF EndLoad, IInv, MemType
<1>7. ASSUME NEW p \in Procs, Crash(p) PROVE FALSE
  BY <1>7 DEF Crash, IInv, RestType
<1>8. ASSUME GetOrCreateChain(Main) PROVE Idle
  BY <1>0, <1>8 DEF GetOrCreateChain
<1>9. ASSUME AppendEvent(Main) PROVE SC!AppendEvent
  BY <1>0, <1>9, AppendMaps
<1>10. ASSUME DeleteChain(Main) PROVE SC!DeleteChain
  BY <1>0, <1>10, DeleteMaps
<1>11. ASSUME NEW p \in Workers, \/ EnsureChain(p) \/ TaskFails(p) \/ EnsureAgain(p)
                                 \/ CheckAndSeal(p) \/ SealRefused(p)
       PROVE  Idle
  BY <1>0, <1>11 DEF EnsureChain, EnsureAgain, Ensure, TaskFails, CheckAndSeal, SealRefused
<1>12. ASSUME NEW p \in Workers, SealActiveSession(p) PROVE Idle
  BY <1>0, <1>12 DEF SealActiveSession, Seal, IInv, MemType
<1>13. ASSUME UNCHANGED vars PROVE Idle
  BY <1>13 DEF vars
<1> HIDE DEF Idle
<1> QED
  BY <1>0, <1>1, <1>2, <1>3, <1>4, <1>5, <1>6, <1>7, <1>8, <1>9, <1>10, <1>11, <1>12, <1>13
  DEF Next, SC!Next

\* The chain in the API server's memory behaves as SessionChain says: neither its
\* own writes nor what workers do to the files show in it.
THEOREM ServerImplementsSessionChain ==
  ASSUME OneServer, MaxCrashes = 0 PROVE Spec => ImplementsSessionChain
<1>1. Init => NeverLoads
  BY DEF Init, NeverLoads, MainStays, NotLoading, OneServer, Procs
<1>2. IInv /\ NeverLoads /\ [Next]_vars => NeverLoads'
  BY NeverLoadsStep
<1>3. Init => SC!Init
  BY InitMaps
<1>4. IInv /\ NeverLoads /\ [Next]_vars => [SC!Next]_(SC!vars)
  BY StepMaps
<1> QED BY <1>1, <1>2, <1>3, <1>4, Invariance, PTL DEF Spec, ImplementsSessionChain, SC!Spec

-----------------------------------------------------------------------------
(* One process, which may crash at any point: until a write fails, the     *)
(* files it has not still to write hold what it has in memory.             *)

Pending(p, f) == \E i \in DOMAIN writes[p] : writes[p][i] = f

\* The chain whose files p has written or is writing.
Kept(p) == IF Known(p) THEN mem[p] ELSE Fresh

\* A file that is open is the one it is writing, and holds the content so far.
Half(p) ==
  /\ open[p] # "unlinked"
  /\ open[p] # "no" => writes[p] # <<>>
  /\ open[p] = "yes" => FileOn(Head(writes[p])) = Unreadable
  /\ open[p] = "part" =>
       LET f == Head(writes[p])
       IN f # 0 /\ \E k \in 0..Len(Image(p, f).evts) : FileOn(f) = Cut(Image(p, f), k)

Mirror(p) ==
  /\ Half(p)
  /\ Known(p) \/ writes[p] # <<>> \/ loading[p].on \/ disk.meta # Unreadable => dir
  /\ Known(p) \/ writes[p] # <<>> =>
       \A f \in {0} \cup DOMAIN Kept(p).sess : ~Pending(p, f) => FileOn(f) = Image(p, f)
  /\ loading[p].on =>
       /\ loading[p].got.meta = disk.meta
       /\ \A s \in DOMAIN loading[p].got.sess :
             disk.md[s] = [rec |-> loading[p].got.sess[s], evts |-> loading[p].got.evts[s]]

Mirrored == faults.errors = 0 => \A p \in Procs : Mirror(p)

Alone(p) == Procs = {p}

LEMMA SameHalf ==
  ASSUME NEW p \in Procs, Half(p), UNCHANGED <<mem, disk, writes, open>> PROVE Half(p)'
<1>1. \A f : FileOn(f)' = FileOn(f) /\ Image(p, f)' = Image(p, f)
  BY DEF FileOn, Image, Known
<1> QED BY <1>1 DEF Half

\* No file is open between two writes, nor between two methods.
LEMMA ClosedHalf == ASSUME NEW p \in Procs, open'[p] = "no" PROVE Half(p)'
BY DEF Half

LEMMA FreeHalf == ASSUME IInv, NEW p \in Procs, Half(p), writes[p] = <<>> PROVE open[p] = "no"
BY DEF Half, IInv, WriteType

\* Behind the whole content nothing of its beginning is left.
LEMMA CutOverlay ==
  ASSUME NEW f \in 1..MaxSessions, NEW c \in File, NEW k \in 0..Len(c.evts),
         disk.md[f] = Cut(c, k), NEW d \in Overlays(f, c)
  PROVE  d = c
<1>1. PICK old \in File : old = Cut(c, k) /\ Len(old.evts) = k /\ k <= Len(c.evts)
  BY CutType
<1>2. c.evts \in Seq(Event) /\ Len(c.evts) \in Nat /\ old.evts \in Seq(Event)
  BY <1>1, LenProperties DEF File
<1>3. \/ d = c
      \/ \E j \in (Len(c.evts) + 1)..(Len(old.evts) + 1) :
            d = [c EXCEPT !.evts = c.evts \o SubSeq(old.evts, j, Len(old.evts))]
  <2>1. f # 0 /\ FileOn(f) = old
    BY <1>1 DEF FileOn
  <2> QED BY <2>1 DEF Overlays
<1>4. ASSUME NEW j \in (Len(c.evts) + 1)..(Len(old.evts) + 1),
             d = [c EXCEPT !.evts = c.evts \o SubSeq(old.evts, j, Len(old.evts))]
      PROVE  d = c
  <2>1. j > Len(old.evts) /\ j \in Int /\ Len(old.evts) \in Int
    BY <1>1, <1>2, <1>4
  <2>2. SubSeq(old.evts, j, Len(old.evts)) = <<>>
    BY <1>2, <2>1, SubSeqEmpty
  <2>3. c.evts \o <<>> = c.evts
    BY <1>2, ConcatEmptySeq
  <2> QED BY <1>4, <2>2, <2>3 DEF File
<1> QED BY <1>3, <1>4

\* A write finds the file as it left it, and gives it the content that is in memory.
LEMMA StoreWrites ==
  ASSUME IInv, NEW p \in Procs, Half(p), Store(p)
  PROVE  /\ disk' = WithFile(Head(writes[p]), Image(p, Head(writes[p])))
         /\ open'[p] = "no" /\ writes'[p] = Tail(writes[p]) /\ writes[p] # <<>>
         /\ UNCHANGED <<dir, loading, task, sent, faults>>
<1>1. PICK f : f = Head(writes[p])
  OBVIOUS
<1>2. PICK c : c = Image(p, f)
  OBVIOUS
<1>3. PICK d \in Overlays(f, c) : disk' = WithFile(f, d)
  BY <1>1, <1>2 DEF Store, Half
<1>4. d = c
  <2>1. CASE open[p] = "yes"
    BY <1>1, <1>3, <2>1 DEF Half, Overlays
  <2>2. CASE open[p] = "part"
    <3>1. writes[p] # <<>> /\ f # 0
      BY <1>1, <2>2 DEF Half
    <3>2. f \in 1..MaxSessions /\ c \in File
      <4>1. f \in 0..MaxSessions /\ (f # 0 => c \in File)
        BY <1>1, <1>2, <3>1, ImageType
      <4> QED BY <3>1, <4>1, BoundType
    <3>3. PICK k \in 0..Len(c.evts) : FileOn(f) = Cut(c, k)
      BY <1>1, <1>2, <2>2 DEF Half
    <3>4. disk.md[f] = Cut(c, k)
      BY <3>1, <3>3 DEF FileOn
    <3> QED BY <1>3, <3>2, <3>4, CutOverlay
  <2> QED BY <2>1, <2>2 DEF Store, Half, IInv, WriteType
<1> QED BY <1>1, <1>2, <1>3, <1>4 DEF Store, IInv, WriteType

\* A file that is written in part holds the beginning of that content.
LEMMA PartWrites ==
  ASSUME IInv, NEW p \in Procs, Half(p), WritePart(p)
  PROVE  /\ \E g \in 1..MaxSessions, c \in File, k \in Nat :
              /\ g = Head(writes[p]) /\ c = Image(p, g) /\ k \in 0..Len(c.evts)
              /\ disk' = WithFile(g, Cut(c, k))
         /\ open'[p] = "part" /\ writes[p] # <<>>
         /\ UNCHANGED <<mem, dir, writes, loading, task, sent, faults>>
<1>1. PICK f \in 1..MaxSessions, c \in File, k \in Nat :
         /\ f = Head(writes[p]) /\ c = Image(p, f) /\ k \in 0..Len(c.evts)
         /\ \E d \in Overlays(f, Cut(c, k)) : disk' = WithFile(f, d)
  BY PartWritten
<1>2. FileOn(f) = Unreadable
  BY <1>1 DEF WritePart, Half
<1>3. disk' = WithFile(f, Cut(c, k))
  BY <1>1, <1>2 DEF Overlays
<1>4. open'[p] = "part" /\ writes[p] # <<>> /\ UNCHANGED <<mem, dir, writes, loading, task, sent, faults>>
  BY DEF WritePart, IInv, WriteType
<1> QED BY <1>1, <1>3, <1>4

LEMMA WithFileReads ==
  ASSUME IInv, NEW g \in 0..MaxSessions, NEW c, disk' = WithFile(g, c)
  PROVE  /\ FileOn(g)' = c
         /\ disk'.meta = IF g = 0 THEN c ELSE disk.meta
         /\ \A h \in 1..MaxSessions : disk'.md[h] = IF h = g THEN c ELSE disk.md[h]
BY BoundType DEF FileOn, WithFile, IInv, DiskType

LEMMA OpenHalf ==
  ASSUME IInv, NEW p \in Procs, Half(p), Truncate(p) \/ WritePart(p)
  PROVE  Half(p)'
<1>1. CASE Truncate(p)
  <2>1. PICK g \in 0..MaxSessions : g = Head(writes[p])
    BY <1>1, ImageType DEF Truncate
  <2>2. open'[p] = "yes" /\ writes' = writes /\ disk' = WithFile(g, Unreadable) /\ writes[p] # <<>>
    BY <1>1, <2>1 DEF Truncate, IInv, WriteType
  <2>3. FileOn(g)' = Unreadable
    BY <2>2, WithFileReads
  <2>4. Head(writes'[p]) = g
    BY <2>1, <2>2
  <2>5. FileOn(Head(writes[p]))' = Unreadable
    BY <2>3, <2>4
  <2> QED BY <2>2, <2>5 DEF Half
<1>2. CASE WritePart(p)
  <2>1. PICK g \in 1..MaxSessions, c \in File, k \in Nat :
           /\ g = Head(writes[p]) /\ c = Image(p, g) /\ k \in 0..Len(c.evts)
           /\ disk' = WithFile(g, Cut(c, k))
    BY <1>2, PartWrites
  <2>2. open'[p] = "part" /\ writes[p] # <<>> /\ UNCHANGED <<mem, writes>>
    BY <1>2, PartWrites
  <2>3. FileOn(g)' = Cut(c, k)
    <3>1. g \in 0..MaxSessions
      OBVIOUS
    <3> QED BY <2>1, <3>1, WithFileReads
  <2>4. Head(writes'[p]) = g /\ Image(p, g)' = c
    BY <2>1, <2>2 DEF Image, Known
  <2>5. g # 0
    OBVIOUS
  <2>6. FileOn(Head(writes[p]))' = Cut(c, k) /\ Image(p, Head(writes[p]))' = c
    BY <2>3, <2>4
  <2> QED BY <2>1, <2>2, <2>4, <2>5, <2>6 DEF Half
<1> QED BY <1>1, <1>2

\* Files that are written as a method begins are pending; the others keep their
\* content and stay what is in memory.
LEMMA BeginMethod ==
  ASSUME IInv, NEW p \in Procs, Mirror(p), Free(p), UNCHANGED <<disk, open, loading>>,
         dir', writes'[p] # <<>>,
         \A f \in {0} \cup DOMAIN Kept(p)'.sess :
            ~Pending(p, f)' => /\ Known(p) /\ f \in {0} \cup DOMAIN mem[p].sess
                               /\ Image(p, f)' = Image(p, f)
  PROVE  Mirror(p)'
<1>1. writes[p] = <<>> /\ ~loading[p].on /\ open[p] = "no" /\ ~loading'[p].on
  BY FreeHalf DEF Mirror, Free
<1>2. \A f : ~Pending(p, f)
  BY <1>1 DEF Pending
<1>3. \A f \in {0} \cup DOMAIN Kept(p)'.sess : ~Pending(p, f)' => FileOn(f)' = Image(p, f)'
  BY <1>2 DEF Mirror, FileOn, Kept
<1>4. Half(p)'
  BY <1>1, ClosedHalf
<1> QED BY <1>1, <1>3, <1>4 DEF Mirror

\* The file that is truncated, or written in part, is pending.
LEMMA TruncateMirror ==
  ASSUME IInv, NEW p \in Procs, Mirror(p), Truncate(p) \/ WritePart(p) PROVE Mirror(p)'
<1>1. PICK g \in 0..MaxSessions : g = Head(writes[p])
  <2>1. Head(writes[p]) \in 0..MaxSessions
    BY ImageType DEF Truncate, WritePart
  <2> QED BY <2>1
<1>2. /\ writes[p] # <<>> /\ dir /\ ~loading[p].on
      /\ \E c : disk' = WithFile(g, c)
      /\ UNCHANGED <<mem, dir, writes, loading>>
  <2>1. CASE Truncate(p)
    BY <1>1, <2>1 DEF Truncate, IInv, LoadType
  <2>2. CASE WritePart(p)
    BY <1>1, <2>2, PartWrites DEF Mirror, IInv, LoadType
  <2> QED BY <2>1, <2>2
<1>3. \A f \in {0} \cup DOMAIN Kept(p).sess : f # g => FileOn(f)' = FileOn(f)
  <2>1. DOMAIN Kept(p).sess \subseteq 1..MaxSessions
    BY FreshIsChain, BoundType DEF Kept, IInv, MemType, IsChain, Meta
  <2> QED BY <1>1, <1>2, <2>1 DEF FileOn, WithFile, IInv, DiskType
<1>4. Pending(p, g)
  <2>1. writes[p] \in Seq(0..MaxSessions)
    BY DEF IInv, WriteType
  <2>2. 1 \in DOMAIN writes[p] /\ writes[p][1] = g
    BY <1>1, <1>2, <2>1, LenProperties, EmptySeq
  <2> QED BY <2>2 DEF Pending
<1>5. \A f \in {0} \cup DOMAIN Kept(p)'.sess : ~Pending(p, f)' => FileOn(f)' = Image(p, f)'
  BY <1>2, <1>3, <1>4 DEF Mirror, Kept, Known, Pending, Image
<1>6. Half(p)'
  BY OpenHalf DEF Mirror
<1> QED BY <1>2, <1>5, <1>6 DEF Mirror

LEMMA StoreMirror ==
  ASSUME IInv, NEW p \in Procs, Mirror(p), Store(p) PROVE Mirror(p)'
<1>1. PICK g \in 0..MaxSessions : g = Head(writes[p])
  <2>1. Head(writes[p]) \in 0..MaxSessions
    BY ImageType DEF Store
  <2> QED BY <2>1
<1>2. /\ writes[p] # <<>> /\ dir /\ dir' /\ ~loading[p].on /\ ~loading'[p].on
      /\ open'[p] = "no" /\ writes'[p] = Tail(writes[p])
  BY <1>1, StoreWrites DEF Mirror, IInv, LoadType
<1>3. disk' = WithFile(g, Image(p, g))
  BY <1>1, StoreWrites DEF Mirror
<1>4. \A f \in {0} \cup DOMAIN Kept(p).sess :
         FileOn(f)' = IF f = g THEN Image(p, g) ELSE FileOn(f)
  <2>1. DOMAIN Kept(p).sess \subseteq 1..MaxSessions
    BY FreshIsChain, BoundType DEF Kept, IInv, MemType, IsChain, Meta
  <2> QED BY <1>1, <1>3, <2>1 DEF FileOn, WithFile, IInv, DiskType
<1>5. writes[p] \in Seq(0..MaxSessions) /\ 1 \in DOMAIN writes[p] /\ writes[p][1] = g
  <2>1. writes[p] \in Seq(0..MaxSessions)
    BY DEF IInv, WriteType
  <2> QED BY <1>1, <1>2, <2>1, LenProperties, EmptySeq
<1>6. \A f : f # g /\ Pending(p, f) => Pending(p, f)'
  <2> SUFFICES ASSUME NEW i \in DOMAIN writes[p], writes[p][i] # g
               PROVE  \E j \in DOMAIN Tail(writes[p]) : Tail(writes[p])[j] = writes[p][i]
    BY <1>2 DEF Pending
  <2>1. /\ DOMAIN writes[p] = 1..Len(writes[p]) /\ Len(writes[p]) \in Nat
        /\ Tail(writes[p]) \in Seq(0..MaxSessions) /\ Len(Tail(writes[p])) = Len(writes[p]) - 1
        /\ DOMAIN Tail(writes[p]) = 1..Len(Tail(writes[p]))
        /\ \A j \in 1..Len(Tail(writes[p])) : Tail(writes[p])[j] = writes[p][j + 1]
    BY <1>2, <1>5, LenProperties, HeadTailProperties
  <2>2. i - 1 \in 1..Len(Tail(writes[p])) /\ (i - 1) + 1 = i
    BY <1>5, <2>1
  <2> QED BY <2>1, <2>2
<1>7. mem'[p] = mem[p] \/ (~Known(p) /\ mem'[p] = Fresh)
  BY DEF Store, IInv, MemType
<1>8. Kept(p)' = Kept(p) /\ \A f : Image(p, f)' = Image(p, f)
  BY <1>7, FreshIsChain DEF Kept, Image, Known
<1>9. \A f \in {0} \cup DOMAIN Kept(p)'.sess : ~Pending(p, f)' => FileOn(f)' = Image(p, f)'
  BY <1>2, <1>4, <1>6, <1>8 DEF Mirror
<1>10. Half(p)'
  BY <1>2, ClosedHalf
<1> QED BY <1>2, <1>9, <1>10 DEF Mirror

LEMMA CreateMirror ==
  ASSUME IInv, NEW p \in Procs, Mirror(p), Free(p), Create(p), UNCHANGED <<mem, disk, open, loading>>
  PROVE  Mirror(p)'
<1>1. dir' /\ writes'[p] = <<0, 1>> /\ ~Known(p)'
  BY DEF Create, IInv, WriteType, Known
<1>2. Pending(p, 0)' /\ Pending(p, 1)'
  <2>1. 1 \in DOMAIN <<0, 1>> /\ 2 \in DOMAIN <<0, 1>> /\ <<0, 1>>[1] = 0 /\ <<0, 1>>[2] = 1
    OBVIOUS
  <2> QED BY <1>1, <2>1 DEF Pending
<1>3. DOMAIN Kept(p)'.sess = {1}
  BY <1>1, FreshIsChain DEF Kept
<1>4. writes'[p] # <<>>
  BY <1>1
<1> QED BY <1>1, <1>2, <1>3, <1>4, BeginMethod

LEMMA AppendMirror ==
  ASSUME IInv, NEW p \in Procs, Mirror(p), AppendEvent(p) PROVE Mirror(p)'
<1> DEFINE m == mem[p]
<1>0. PICK k \in Nat : k = m.meta.active
  BY DEF IInv, MemType, IsChain, Meta
<1>1. /\ Free(p) /\ k \in DOMAIN m.sess /\ writes'[p] = <<k, 0>>
      /\ UNCHANGED <<dir, disk, open, loading>>
  BY <1>0 DEF AppendEvent, IInv, WriteType
<1>2. m.meta # NoChain /\ dir
  BY <1>1 DEF IInv, MemType, IsChain, Meta, Mirror, Known
<1>3. /\ mem'[p].meta # NoChain
      /\ DOMAIN mem'[p].sess = DOMAIN m.sess
      /\ \A f \in DOMAIN m.sess : f # k => /\ mem'[p].sess[f] = m.sess[f]
                                           /\ mem'[p].evts[f] = m.evts[f]
  <2>1. /\ mem'[p].meta = [m.meta EXCEPT !.total = m.meta.total + 1]
        /\ \E r : mem'[p].sess = [m.sess EXCEPT ![k] = r]
        /\ \E q : mem'[p].evts = [m.evts EXCEPT ![k] = q]
    BY <1>0 DEF AppendEvent, IInv, MemType
  <2>2. m.meta \in Meta /\ m.meta.count # 0 /\ DOMAIN m.sess = DOMAIN m.evts
    BY <1>1 DEF IInv, MemType, IsChain, Meta
  <2>3. mem'[p].meta.count # 0
    BY <2>1, <2>2 DEF Meta
  <2> HIDE DEF m
  <2> QED BY <2>1, <2>2, <2>3
<1>4. Pending(p, 0)' /\ Pending(p, k)'
  <2>1. 1 \in DOMAIN <<k, 0>> /\ 2 \in DOMAIN <<k, 0>> /\ <<k, 0>>[1] = k /\ <<k, 0>>[2] = 0
    OBVIOUS
  <2>2. writes'[p] = <<k, 0>>
    BY <1>1
  <2>3. (\E i \in DOMAIN writes[p] : writes[p][i] = k)'
    BY <2>1, <2>2
  <2>4. (\E i \in DOMAIN writes[p] : writes[p][i] = 0)'
    BY <2>1, <2>2
  <2> QED BY <2>3, <2>4 DEF Pending
<1> HIDE DEF m
<1>5. ASSUME NEW f \in {0} \cup DOMAIN Kept(p)'.sess, ~Pending(p, f)'
      PROVE  Known(p) /\ f \in {0} \cup DOMAIN mem[p].sess /\ Image(p, f)' = Image(p, f)
  <2>1. Known(p) /\ Known(p)'
    BY <1>2, <1>3 DEF Known, m
  <2>2. f # 0 /\ f # k
    BY <1>4, <1>5
  <2>3. f \in DOMAIN m.sess
    BY <1>3, <1>5, <2>1, <2>2 DEF Kept
  <2> QED BY <1>3, <2>1, <2>2, <2>3 DEF Image, m
<1>6. dir' /\ writes'[p] # <<>>
  BY <1>1, <1>2
<1> QED BY <1>1, <1>5, <1>6, BeginMethod

LEMMA SealMirror ==
  ASSUME IInv, NEW p \in Procs, Mirror(p), SealActiveSession(p) PROVE Mirror(p)'
<1> DEFINE m == mem[p]
<1>0. PICK k \in Nat, n \in Nat : k = Old(p) /\ n = New(p)
  <2>1. Old(p) \in Nat /\ New(p) \in Nat
    BY DEF IInv, MemType, IsChain, Meta, Old, New
  <2> QED BY <2>1
<1>1. /\ Free(p) /\ k \in DOMAIN m.sess /\ writes'[p] = <<k, n, 0>>
      /\ UNCHANGED <<dir, disk, open, loading>>
  BY <1>0 DEF SealActiveSession, Seal, IInv, WriteType
<1>2. m.meta # NoChain /\ dir /\ n # 0
  BY <1>0, <1>1 DEF IInv, MemType, IsChain, Meta, Mirror, Known, New
<1>3. /\ mem'[p].meta # NoChain
      /\ DOMAIN mem'[p].sess = DOMAIN m.sess \cup {n}
      /\ \A f \in DOMAIN m.sess : f # k /\ f # n => /\ mem'[p].sess[f] = m.sess[f]
                                                    /\ mem'[p].evts[f] = m.evts[f]
  <2>1. /\ mem'[p].meta = [m.meta EXCEPT !.count = n, !.active = n]
        /\ mem'[p].sess = Put([m.sess EXCEPT ![k].status = "compressing"], n, NewSession(m.meta.total))
        /\ mem'[p].evts = Put(m.evts, n, <<>>)
    BY <1>0 DEF SealActiveSession, Seal, IInv, MemType
  <2>2. m.meta \in Meta /\ DOMAIN m.sess = DOMAIN m.evts
    BY <1>1 DEF IInv, MemType, IsChain
  <2> HIDE DEF m
  <2>3. mem'[p].meta.count = n
    BY <2>1, <2>2 DEF Meta
  <2>4. DOMAIN mem'[p].sess = DOMAIN m.sess \cup {n}
    BY <2>1 DEF Put
  <2>5. ASSUME NEW f \in DOMAIN m.sess, f # k, f # n
        PROVE  mem'[p].sess[f] = m.sess[f] /\ mem'[p].evts[f] = m.evts[f]
    BY <2>1, <2>2, <2>5 DEF Put
  <2> QED BY <1>2, <2>3, <2>4, <2>5
<1>4. Pending(p, 0)' /\ Pending(p, k)' /\ Pending(p, n)'
  <2>1. /\ 1 \in DOMAIN <<k, n, 0>> /\ 2 \in DOMAIN <<k, n, 0>> /\ 3 \in DOMAIN <<k, n, 0>>
        /\ <<k, n, 0>>[1] = k /\ <<k, n, 0>>[2] = n /\ <<k, n, 0>>[3] = 0
    OBVIOUS
  <2>2. writes'[p] = <<k, n, 0>>
    BY <1>1
  <2>3. (\E i \in DOMAIN writes[p] : writes[p][i] = k)'
    BY <2>1, <2>2
  <2>4. (\E i \in DOMAIN writes[p] : writes[p][i] = n)'
    BY <2>1, <2>2
  <2>5. (\E i \in DOMAIN writes[p] : writes[p][i] = 0)'
    BY <2>1, <2>2
  <2> QED BY <2>3, <2>4, <2>5 DEF Pending
<1> HIDE DEF m
<1>5. ASSUME NEW f \in {0} \cup DOMAIN Kept(p)'.sess, ~Pending(p, f)'
      PROVE  Known(p) /\ f \in {0} \cup DOMAIN mem[p].sess /\ Image(p, f)' = Image(p, f)
  <2>1. Known(p) /\ Known(p)'
    BY <1>2, <1>3 DEF Known, m
  <2>2. f # 0 /\ f # k /\ f # n
    BY <1>4, <1>5
  <2>3. f \in DOMAIN m.sess
    BY <1>3, <1>5, <2>1, <2>2 DEF Kept
  <2> QED BY <1>3, <2>1, <2>2, <2>3 DEF Image, m
<1>6. dir' /\ writes'[p] # <<>>
  BY <1>1, <1>2
<1> QED BY <1>1, <1>5, <1>6, BeginMethod

LEMMA LoadMirror ==
  ASSUME IInv, NEW p \in Procs, Mirror(p), NEW from, NEW then, Load(p, from, then)
  PROVE  Mirror(p)'
<1>1. UNCHANGED <<mem, dir, disk, writes, open>> /\ writes[p] = <<>>
  BY DEF Load, Free
<1>2. \/ loading' = loading
      \/ disk.meta # Unreadable /\ loading'[p] = Begin
  BY DEF Load, IInv, LoadType
<1>3. Begin.got.meta = disk.meta /\ Begin.got.sess = <<>>
  BY DEF Begin, None
<1>4. \A f : /\ FileOn(f)' = FileOn(f) /\ Image(p, f)' = Image(p, f)
             /\ Kept(p)' = Kept(p) /\ Known(p)' = Known(p) /\ Pending(p, f)' = Pending(p, f)
  BY <1>1 DEF FileOn, Image, Kept, Known, Pending
<1>5. Half(p)'
  BY <1>1, SameHalf DEF Mirror
<1> QED BY <1>1, <1>2, <1>3, <1>4, <1>5 DEF Mirror

LEMMA ReadMirror ==
  ASSUME IInv, NEW p \in Procs, Mirror(p), ReadSession(p) PROVE Mirror(p)'
<1> DEFINE l == loading[p]
           s == l.next
<1>1. UNCHANGED <<mem, dir, disk, writes, open>> /\ l.on /\ writes[p] = <<>>
  BY DEF ReadSession, IInv, LoadType
<1>2. s \in 1..MaxSessions /\ IsChain(l.got)
  BY BoundType DEF IInv, ReadSession, LoadType, IsLoad, IsChain, Meta
<1>3. PICK g : /\ loading'[p] = [l EXCEPT !.next = s + 1, !.got = g]
               /\ g = IF disk.md[s] = Unreadable THEN l.got
                      ELSE [l.got EXCEPT !.sess = Put(l.got.sess, s, disk.md[s].rec),
                                         !.evts = Put(l.got.evts, s, disk.md[s].evts)]
  BY DEF ReadSession, IInv, LoadType
<1>4. loading'[p].got = g
  BY <1>3 DEF IInv, LoadType, IsLoad
<1>5. /\ g.meta = disk.meta
      /\ \A t \in DOMAIN g.sess : disk.md[t] = [rec |-> g.sess[t], evts |-> g.evts[t]]
  <2>1. /\ l.got.meta = disk.meta
        /\ \A t \in DOMAIN l.got.sess : disk.md[t] = [rec |-> l.got.sess[t], evts |-> l.got.evts[t]]
    BY <1>1 DEF Mirror
  <2>2. CASE disk.md[s] = Unreadable
    BY <1>3, <2>1, <2>2
  <2>3. CASE disk.md[s] # Unreadable
    <3>1. disk.md[s] \in File
      BY <1>2, <2>3 DEF IInv, DiskType
    <3>2. disk.md[s] = [rec |-> disk.md[s].rec, evts |-> disk.md[s].evts]
      BY <3>1 DEF File
    <3>3. /\ g.meta = l.got.meta /\ g.sess = Put(l.got.sess, s, disk.md[s].rec)
          /\ g.evts = Put(l.got.evts, s, disk.md[s].evts)
      BY <1>2, <1>3, <2>3 DEF IsChain
    <3>4. DOMAIN l.got.sess = DOMAIN l.got.evts
      BY <1>2 DEF IsChain
    <3> HIDE DEF l, s
    <3> QED BY <2>1, <3>2, <3>3, <3>4 DEF Put
  <2> QED BY <2>2, <2>3
<1>6. \A f : /\ FileOn(f)' = FileOn(f) /\ Image(p, f)' = Image(p, f)
             /\ Kept(p)' = Kept(p) /\ Known(p)' = Known(p) /\ Pending(p, f)' = Pending(p, f)
  BY <1>1 DEF FileOn, Image, Kept, Known, Pending
<1>7. Half(p)'
  BY <1>1, SameHalf DEF Mirror
<1> HIDE DEF l, s
<1>8. dir
  BY <1>1 DEF Mirror, l
<1> QED BY <1>1, <1>4, <1>5, <1>6, <1>7, <1>8 DEF Mirror

LEMMA EndLoadMirror ==
  ASSUME IInv, NEW p \in Procs, Mirror(p), EndLoad(p) PROVE Mirror(p)'
<1>1. /\ loading[p].on /\ mem'[p] = loading[p].got /\ ~loading'[p].on
      /\ UNCHANGED <<dir, disk, writes, open>>
  BY DEF EndLoad, IInv, MemType, LoadType, NotLoading
<1>2. writes[p] = <<>> /\ dir
  BY <1>1 DEF IInv, LoadType, Mirror
<1>3. /\ mem'[p].meta = disk.meta
      /\ \A s \in DOMAIN mem'[p].sess : disk.md[s] = [rec |-> mem'[p].sess[s], evts |-> mem'[p].evts[s]]
  BY <1>1 DEF Mirror
<1>4. Known(p)' => \A f \in {0} \cup DOMAIN Kept(p)'.sess : FileOn(f)' = Image(p, f)'
  <2> SUFFICES ASSUME Known(p)', NEW f \in {0} \cup DOMAIN mem'[p].sess
               PROVE  FileOn(f)' = Image(p, f)'
    BY DEF Kept
  <2>1. 0 \notin DOMAIN mem'[p].sess
    <3>1. IsChain(loading[p].got)
      BY DEF IInv, LoadType, IsLoad
    <3> QED BY <1>1, <3>1 DEF IsChain, Meta
  <2> QED BY <1>1, <1>3, <2>1 DEF FileOn, Image
<1>5. open[p] = "no"
  BY <1>2, FreeHalf DEF Mirror
<1>6. Half(p)'
  BY <1>1, <1>5, ClosedHalf
<1> QED BY <1>1, <1>2, <1>4, <1>6 DEF Mirror

\* Steps that touch no file and no chain.
LEMMA SameMirror ==
  ASSUME NEW p \in Procs, Mirror(p), UNCHANGED <<mem, dir, disk, writes, open, loading>>
  PROVE  Mirror(p)'
<1>1. \A f : /\ FileOn(f)' = FileOn(f) /\ Image(p, f)' = Image(p, f)
             /\ Kept(p)' = Kept(p) /\ Known(p)' = Known(p) /\ Pending(p, f)' = Pending(p, f)
  BY DEF FileOn, Image, Kept, Known, Pending
<1>2. Half(p)'
  BY SameHalf DEF Mirror
<1> QED BY <1>1, <1>2 DEF Mirror

\* A delete or a crash leaves nothing in memory.
LEMMA ForgottenMirror ==
  ASSUME NEW p \in Procs, ~Known(p)', writes'[p] = <<>>, open'[p] = "no", ~loading'[p].on,
         disk.meta' # Unreadable => dir'
  PROVE  Mirror(p)'
BY ClosedHalf DEF Mirror

LEMMA MirroredStep == IInv /\ Mirrored /\ (\E p \in Procs : Alone(p)) /\ [Next]_vars => Mirrored'
<1> SUFFICES ASSUME IInv, Mirrored, NEW p \in Procs, Procs = {p}, [Next]_vars, faults'.errors = 0
             PROVE  Mirror(p)'
  BY DEF Mirrored, Alone
<1>0. faults \in [deletes : Nat, crashes : Nat, errors : Nat]
      /\ (faults'.errors = faults.errors => Mirror(p))
  BY DEF Mirrored, IInv, RestType
<1>1. ASSUME Truncate(p) \/ WritePart(p) PROVE Mirror(p)'
  BY <1>0, <1>1, TruncateMirror DEF Truncate, WritePart
<1>2. ASSUME Store(p) PROVE Mirror(p)'
  BY <1>0, <1>2, StoreMirror DEF Store
<1>3. ASSUME WriteFails(p) PROVE FALSE
  <2>1. writes[p] # <<>>
    BY <1>3 DEF WriteFails
  <2>2. faults' = faults \/ faults'.errors = faults.errors + 1
    BY <1>0, <1>3 DEF WriteFails
  <2>3. faults' = faults /\ ~dir
    BY <1>0, <1>3, <2>2 DEF WriteFails
  <2> QED BY <1>0, <2>1, <2>3 DEF Mirror
<1>4. ASSUME NEW from, NEW then, Load(p, from, then) PROVE Mirror(p)'
  BY <1>0, <1>4, LoadMirror DEF Load
<1>5. ASSUME ReadSession(p) PROVE Mirror(p)'
  BY <1>0, <1>5, ReadMirror DEF ReadSession
<1>6. ASSUME EndLoad(p) PROVE Mirror(p)'
  BY <1>0, <1>6, EndLoadMirror DEF EndLoad
<1>7. ASSUME Crash(p) PROVE Mirror(p)'
  <2>1. faults'.errors = faults.errors /\ disk' = disk /\ dir' = dir
    BY <1>0, <1>7 DEF Crash
  <2>2. mem'[p] = None /\ writes'[p] = <<>> /\ open'[p] = "no" /\ ~loading'[p].on
    BY <1>7 DEF Crash, IInv, MemType, WriteType, LoadType, NotLoading
  <2>3. ~Known(p)'
    BY <2>2 DEF Known, None
  <2>4. disk.meta' # Unreadable => dir'
    BY <1>0, <2>1 DEF Mirror
  <2> QED BY <2>2, <2>3, <2>4, ForgottenMirror
<1>8. ASSUME GetOrCreateChain(p) PROVE Mirror(p)'
  BY <1>0, <1>8, CreateMirror DEF GetOrCreateChain
<1>9. ASSUME AppendEvent(p) PROVE Mirror(p)'
  BY <1>0, <1>9, AppendMirror DEF AppendEvent
<1>10. ASSUME DeleteChain(p) PROVE Mirror(p)'
  <2>1. faults'.errors = faults.errors /\ disk' = NoFiles /\ UNCHANGED <<writes, loading>>
        /\ Free(p)
    BY <1>0, <1>10 DEF DeleteChain
  <2>2. Mirror(p) /\ open[p] = "no"
    <3>1. Mirror(p)
      BY <1>0, <2>1
    <3>2. writes[p] = <<>>
      BY <2>1 DEF Free
    <3> QED BY <3>1, <3>2, FreeHalf DEF Mirror
  <2>3. mem'[p] = None /\ open'[p] = "no" /\ writes'[p] = <<>> /\ ~loading'[p].on
    BY <1>10, <2>1, <2>2 DEF DeleteChain, IInv, MemType, Free
  <2>4. ~Known(p)'
    BY <2>3 DEF Known, None
  <2>5. disk.meta' = Unreadable
    BY <2>1 DEF NoFiles
  <2> QED BY <2>3, <2>4, <2>5, ForgottenMirror
<1>11. ASSUME NEW from, NEW then, Ensure(p, from, then) PROVE Mirror(p)'
  BY <1>0, <1>11, CreateMirror, SameMirror DEF Ensure
<1>12. ASSUME CheckAndSeal(p) \/ SealRefused(p) \/ TaskFails(p) PROVE Mirror(p)'
  BY <1>0, <1>12, SameMirror DEF CheckAndSeal, SealRefused, TaskFails
<1>13. ASSUME SealActiveSession(p) PROVE Mirror(p)'
  BY <1>0, <1>13, SealMirror DEF SealActiveSession, Seal
<1>14. ASSUME UNCHANGED vars PROVE Mirror(p)'
  BY <1>0, <1>14, SameMirror DEF vars
<1> QED
  BY <1>1, <1>2, <1>3, <1>4, <1>5, <1>6, <1>7, <1>8, <1>9, <1>10, <1>11, <1>12, <1>13, <1>14
  DEF Next, Procs, LoadFromDisk, ReloadThread, EnsureChain, EnsureAgain

\* When nothing is in progress no file is still to be written.  Here p may have died
\* any number of times.
AtRest ==
  faults.errors = 0 => \A p \in Procs : Free(p) /\ task[p] # "start" /\ Known(p) => Saved(p)

LEMMA MirroredIsEnough == IInv /\ Mirrored => AtRest
<1> SUFFICES ASSUME IInv, Mirrored, faults.errors = 0,
                    NEW p \in Procs, Free(p), Known(p)
             PROVE  /\ disk.meta = mem[p].meta
                    /\ \A s \in DOMAIN mem[p].sess :
                          disk.md[s] = [rec |-> mem[p].sess[s], evts |-> mem[p].evts[s]]
  BY DEF AtRest, Saved
<1>1. Mirror(p) /\ Kept(p) = mem[p] /\ \A f : ~Pending(p, f)
  BY DEF Mirrored, Kept, Free, Pending
<1>2. \A f \in {0} \cup DOMAIN mem[p].sess : FileOn(f) = Image(p, f)
  BY <1>1 DEF Mirror
<1>3. 0 \notin DOMAIN mem[p].sess
  BY DEF IInv, MemType, IsChain, Meta
<1> QED BY <1>2, <1>3 DEF FileOn, Image

-----------------------------------------------------------------------------
(* The chain of that process, until it crashes or a write fails.           *)

Working == faults.crashes = 0 /\ faults.errors = 0

\* It has all sessions in memory, and what it reads is what it has.
Whole(p) ==
  /\ task[p] # "start"
  /\ mem[p].meta.active = mem[p].meta.count
  /\ DOMAIN mem[p].sess = 1..mem[p].meta.count
  /\ ~Known(p) /\ writes[p] = <<>> => disk.meta = Unreadable
  /\ loading[p].on => /\ Known(p) /\ task[p] = "idle"
                      /\ loading[p].next \in 1..(mem[p].meta.count + 1)
                      /\ DOMAIN loading[p].got.sess = 1..(loading[p].next - 1)

StaysWhole == Working => \A p \in Procs : Whole(p)

\* While no file is pending, meta.json and the sessions' files are the memory.
LEMMA MirrorReads ==
  ASSUME IInv, NEW p \in Procs, Mirror(p), Known(p), writes[p] = <<>>
  PROVE  /\ disk.meta = mem[p].meta
         /\ \A s \in DOMAIN mem[p].sess :
               disk.md[s] = [rec |-> mem[p].sess[s], evts |-> mem[p].evts[s]]
<1>1. Kept(p) = mem[p] /\ \A f : ~Pending(p, f)
  BY DEF Kept, Pending
<1>2. \A f \in {0} \cup DOMAIN mem[p].sess : FileOn(f) = Image(p, f)
  BY <1>1 DEF Mirror
<1>3. 0 \notin DOMAIN mem[p].sess
  BY DEF IInv, MemType, IsChain, Meta
<1> QED BY <1>2, <1>3 DEF FileOn, Image

LEMMA WholeFiles ==
  ASSUME IInv, Mirrored, Working, NEW p \in Procs, Whole(p),
         Truncate(p) \/ WritePart(p) \/ Store(p)
  PROVE  Whole(p)'
<1>1. CASE Truncate(p) \/ WritePart(p)
  <2>1. UNCHANGED <<mem, writes, loading, task>> /\ writes[p] # <<>> /\ ~loading[p].on
    BY <1>1 DEF Truncate, WritePart, IInv, LoadType
  <2> QED BY <2>1 DEF Whole, Known
<1>2. CASE Store(p)
  <2>1. UNCHANGED <<loading, task>> /\ ~loading[p].on /\ writes'[p] = Tail(writes[p])
        /\ writes[p] \in Seq(0..MaxSessions) /\ writes[p] # <<>>
    BY <1>2 DEF Store, IInv, LoadType, WriteType
  <2>2. writes'[p] = <<>> => Len(writes[p]) = 1
    <3>1. Len(Tail(writes[p])) = Len(writes[p]) - 1 /\ Len(writes[p]) \in Nat
      BY <2>1, HeadTailProperties, LenProperties
    <3>2. writes'[p] = <<>> => Len(Tail(writes[p])) = Len(<<>>)
      BY <2>1, Zenon
    <3>3. Len(<<>>) = 0
      BY EmptySeq
    <3> QED BY <3>1, <3>2, <3>3
  <2>3. CASE Len(writes[p]) = 1 /\ ~Known(p)
    <3>1. mem'[p] = Fresh
      BY <1>2, <2>3 DEF Store, IInv, MemType
    <3> QED BY <2>1, <3>1, FreshIsChain DEF Whole, Known
  <2>4. CASE ~(Len(writes[p]) = 1 /\ ~Known(p))
    <3>1. mem' = mem
      BY <1>2, <2>4 DEF Store
    <3> QED BY <2>1, <2>2, <2>4, <3>1 DEF Whole, Known
  <2> QED BY <2>3, <2>4
<1> QED BY <1>1, <1>2

LEMMA WholeLoads ==
  ASSUME IInv, Mirrored, Working, NEW p \in Procs, Whole(p),
         LoadFromDisk(p) \/ ReloadThread(p) \/ ReadSession(p) \/ EndLoad(p)
  PROVE  Whole(p)' /\ mem'[p] = mem[p]
<1>0. Mirror(p) /\ IsChain(mem[p]) /\ IsChain(loading[p].got)
      /\ (loading[p].on => writes[p] = <<>> /\ loading[p].got.meta = mem[p].meta)
      /\ mem[p].meta.count \in Nat /\ mem[p].meta.count <= MaxSessions
  <2>1. Mirror(p) /\ IsChain(mem[p]) /\ IsChain(loading[p].got)
        /\ (loading[p].on => writes[p] = <<>>)
    BY DEF Mirrored, Working, IInv, MemType, LoadType, IsLoad
  <2>2. loading[p].on => loading[p].got.meta = mem[p].meta
    BY <2>1, MirrorReads DEF Whole, Mirror
  <2> QED BY <2>1, <2>2 DEF IsChain, Meta
<1>1. CASE LoadFromDisk(p) \/ ReloadThread(p)
  <2>1. /\ Free(p) /\ task[p] = "idle" /\ UNCHANGED <<mem, disk, writes>>
        /\ IF disk.meta = Unreadable THEN loading'[p] = loading[p] /\ task'[p] = "ensure"
                                     ELSE loading'[p] = Begin /\ task' = task
    BY <1>1 DEF LoadFromDisk, ReloadThread, Load, Whole, IInv, LoadType, RestType
  <2>2. disk.meta # Unreadable => Known(p)
    BY <2>1 DEF Whole, Free
  <2>3. Begin.on /\ Begin.next = 1 /\ Begin.got.sess = <<>>
    BY DEF Begin, None
  <2>4. DOMAIN Begin.got.sess = 1..(Begin.next - 1) /\ Begin.next \in 1..(mem[p].meta.count + 1)
    BY <1>0, <2>3
  <2> QED BY <2>1, <2>2, <2>4 DEF Whole, Known, Free
<1>2. CASE ReadSession(p)
  <2>1. PICK s \in Nat : s = loading[p].next
    BY <1>2 DEF ReadSession, IInv, LoadType, IsLoad
  <2>2. /\ loading[p].on /\ s \in 1..mem[p].meta.count /\ UNCHANGED <<mem, disk, writes, task>>
        /\ Known(p)
    BY <1>0, <1>2, <2>1 DEF ReadSession, Whole
  <2>3. disk.md[s] # Unreadable
    <3>1. disk.md[s] = [rec |-> mem[p].sess[s], evts |-> mem[p].evts[s]]
      BY <1>0, <2>2, MirrorReads DEF Whole
    <3>2. mem[p].sess[s] \in Record /\ mem[p].evts[s] \in Seq(Event)
      BY <1>0, <2>2 DEF Whole, IsChain
    <3> QED BY <3>1, <3>2, UnreadableType
  <2>4. PICK g : /\ loading'[p] = [loading[p] EXCEPT !.next = s + 1, !.got = g]
                 /\ g = [loading[p].got EXCEPT
                           !.sess = Put(loading[p].got.sess, s, disk.md[s].rec),
                           !.evts = Put(loading[p].got.evts, s, disk.md[s].evts)]
    BY <1>2, <2>1, <2>3 DEF ReadSession, IInv, LoadType
  <2>5. loading'[p].next = s + 1 /\ loading'[p].on
        /\ loading'[p].got.sess = Put(loading[p].got.sess, s, disk.md[s].rec)
    <3>1. loading'[p].next = s + 1 /\ loading'[p].on /\ loading'[p].got = g
      BY <2>2, <2>4 DEF IInv, LoadType, IsLoad
    <3>2. g.sess = Put(loading[p].got.sess, s, disk.md[s].rec)
      BY <1>0, <2>4 DEF IsChain
    <3> QED BY <3>1, <3>2
  <2>6. DOMAIN loading'[p].got.sess = DOMAIN loading[p].got.sess \cup {s}
    BY <2>5 DEF Put
  <2>7. DOMAIN loading[p].got.sess = 1..(s - 1)
    BY <2>1, <2>2 DEF Whole
  <2>8. DOMAIN loading'[p].got.sess = 1..(loading'[p].next - 1)
        /\ loading'[p].next \in 1..(mem[p].meta.count + 1)
    BY <1>0, <2>2, <2>5, <2>6, <2>7
  <2> QED BY <2>2, <2>8 DEF Whole, Known
<1>3. CASE EndLoad(p)
  <2>1. PICK s \in Nat : s = loading[p].next
    BY <1>3 DEF EndLoad, IInv, LoadType, IsLoad
  <2>2. /\ loading[p].on /\ s > mem[p].meta.count /\ Known(p) /\ task[p] = "idle"
        /\ mem'[p] = loading[p].got /\ ~loading'[p].on /\ task'[p] = "ensure"
        /\ UNCHANGED <<disk, writes>>
    BY <1>0, <1>3, <2>1 DEF EndLoad, Whole, IInv, MemType, LoadType, RestType, NotLoading
  <2>3. DOMAIN loading[p].got.sess = DOMAIN mem[p].sess
    <3>1. s = mem[p].meta.count + 1
      BY <1>0, <2>1, <2>2 DEF Whole
    <3> QED BY <1>0, <2>1, <2>2, <3>1 DEF Whole
  <2>4. \A t \in DOMAIN mem[p].sess : /\ loading[p].got.sess[t] = mem[p].sess[t]
                                      /\ loading[p].got.evts[t] = mem[p].evts[t]
    <3> SUFFICES ASSUME NEW t \in DOMAIN mem[p].sess
                 PROVE  /\ loading[p].got.sess[t] = mem[p].sess[t]
                        /\ loading[p].got.evts[t] = mem[p].evts[t]
      OBVIOUS
    <3>1. disk.md[t] = [rec |-> mem[p].sess[t], evts |-> mem[p].evts[t]]
      BY <1>0, <2>2, MirrorReads
    <3>2. disk.md[t] = [rec |-> loading[p].got.sess[t], evts |-> loading[p].got.evts[t]]
      BY <1>0, <2>2, <2>3 DEF Mirror
    <3> QED BY <3>1, <3>2
  <2>5. loading[p].got = mem[p]
    <3>1. loading[p].got.sess = mem[p].sess /\ loading[p].got.evts = mem[p].evts
      BY <1>0, <2>3, <2>4 DEF IsChain
    <3> QED BY <1>0, <2>2, <3>1 DEF IsChain
  <2> QED BY <2>2, <2>5 DEF Whole, Known
<1> QED BY <1>1, <1>2, <1>3

LEMMA WholeCalls ==
  ASSUME IInv, Mirrored, Working, NEW p \in Procs, Whole(p),
         \/ GetOrCreateChain(p) \/ AppendEvent(p) \/ DeleteChain(p)
         \/ EnsureChain(p) \/ EnsureAgain(p) \/ TaskFails(p) \/ CheckAndSeal(p) \/ SealRefused(p)
         \/ SealActiveSession(p)
  PROVE  Whole(p)'
<1>0. /\ IsChain(mem[p]) /\ mem[p].meta \in Meta /\ Free(p)
      /\ task \in [Procs -> {"start", "idle", "ensure", "agent", "check", "seal"}]
  BY DEF IInv, MemType, IsChain, RestType, GetOrCreateChain, AppendEvent, DeleteChain, EnsureChain,
         EnsureAgain, Ensure, TaskFails, CheckAndSeal, SealRefused, SealActiveSession, Seal
<1>1. loading' = loading /\ ~loading[p].on /\ task'[p] # "start"
  BY <1>0 DEF Whole, Free, GetOrCreateChain, AppendEvent, DeleteChain, EnsureChain,
         EnsureAgain, Ensure, TaskFails, CheckAndSeal, SealRefused, SealActiveSession, Seal
<1>2. CASE \/ GetOrCreateChain(p) \/ EnsureChain(p) \/ EnsureAgain(p)
           \/ TaskFails(p) \/ CheckAndSeal(p) \/ SealRefused(p)
  <2>1. UNCHANGED <<mem, disk>>
    BY <1>2 DEF GetOrCreateChain, EnsureChain, EnsureAgain, Ensure, TaskFails, CheckAndSeal, SealRefused
  <2>2. writes'[p] = writes[p] \/ writes'[p] = <<0, 1>>
    BY <1>2 DEF GetOrCreateChain, EnsureChain, EnsureAgain, Ensure, Create, TaskFails, CheckAndSeal,
                SealRefused, IInv, WriteType
  <2> QED BY <1>1, <2>1, <2>2 DEF Whole, Known
<1>3. CASE AppendEvent(p)
  <2>1. /\ mem'[p].meta = [mem[p].meta EXCEPT !.total = mem[p].meta.total + 1]
        /\ \E r : mem'[p].sess = [mem[p].sess EXCEPT ![mem[p].meta.active] = r]
        /\ mem[p].meta.active \in DOMAIN mem[p].sess
    BY <1>3 DEF AppendEvent, IInv, MemType
  <2>2. /\ mem'[p].meta.active = mem[p].meta.active /\ mem'[p].meta.count = mem[p].meta.count
        /\ DOMAIN mem'[p].sess = DOMAIN mem[p].sess /\ mem[p].meta.count # 0
    BY <1>0, <2>1 DEF Meta, IsChain
  <2> QED BY <1>1, <2>2 DEF Whole, Known
<1>4. CASE DeleteChain(p)
  <2>1. mem'[p] = None /\ disk'.meta = Unreadable
    BY <1>4 DEF DeleteChain, IInv, MemType, NoFiles
  <2> QED BY <1>1, <2>1, NoneIsChain DEF Whole
<1>5. CASE SealActiveSession(p)
  <2>1. PICK n \in Nat : n = New(p)
    BY <1>0 DEF New, Meta
  <2>2. /\ mem'[p].meta = [mem[p].meta EXCEPT !.count = n, !.active = n]
        /\ mem'[p].sess = Put([mem[p].sess EXCEPT ![Old(p)].status = "compressing"],
                              n, NewSession(mem[p].meta.total))
    BY <1>5, <2>1 DEF SealActiveSession, Seal, IInv, MemType
  <2>3. mem'[p].meta.active = n /\ mem'[p].meta.count = n
    BY <1>0, <2>2 DEF Meta
  <2>4. DOMAIN mem'[p].sess = DOMAIN mem[p].sess \cup {n}
    BY <2>2 DEF Put
  <2>5. mem[p].meta.count + 1 = n /\ mem[p].meta.count \in Nat
    BY <1>0, <2>1 DEF New, Meta
  <2>6. DOMAIN mem'[p].sess = 1..n /\ n # 0
    BY <2>1, <2>4, <2>5 DEF Whole
  <2> QED BY <1>1, <2>3, <2>6 DEF Whole, Known
<1> QED BY <1>2, <1>3, <1>4, <1>5

LEMMA WholeStep ==
  IInv /\ Mirrored /\ StaysWhole /\ (\E p \in Procs : Alone(p)) /\ [Next]_vars => StaysWhole'
<1> SUFFICES ASSUME IInv, Mirrored, StaysWhole, NEW p \in Procs, Procs = {p}, [Next]_vars, Working'
             PROVE  Whole(p)'
  BY DEF StaysWhole, Alone
<1>0. faults \in [deletes : Nat, crashes : Nat, errors : Nat]
  BY DEF IInv, RestType
<1>1. /\ Working => Whole(p) /\ Mirror(p)
      /\ (faults'.crashes = faults.crashes /\ faults'.errors = faults.errors => Working)
  BY DEF Mirrored, StaysWhole, Working
<1>2. ASSUME Truncate(p) \/ WritePart(p) \/ Store(p) PROVE Whole(p)'
  BY <1>1, <1>2, WholeFiles DEF Truncate, WritePart, Store
<1>3. ASSUME WriteFails(p) PROVE FALSE
  <2>1. writes[p] # <<>>
    BY <1>3 DEF WriteFails
  <2>2. faults' = faults \/ faults'.errors = faults.errors + 1
    BY <1>0, <1>3 DEF WriteFails
  <2>3. faults' = faults /\ ~dir
    BY <1>0, <1>3, <2>2 DEF WriteFails, Working
  <2> QED BY <1>1, <2>1, <2>3 DEF Mirror
<1>4. ASSUME LoadFromDisk(p) \/ ReloadThread(p) \/ ReadSession(p) \/ EndLoad(p) PROVE Whole(p)'
  BY <1>1, <1>4, WholeLoads DEF LoadFromDisk, ReloadThread, Load, ReadSession, EndLoad
<1>5. ASSUME Crash(p) PROVE FALSE
  BY <1>0, <1>5 DEF Crash, Working
<1>6. ASSUME \/ GetOrCreateChain(p) \/ AppendEvent(p) \/ DeleteChain(p)
             \/ EnsureChain(p) \/ EnsureAgain(p) \/ TaskFails(p) \/ CheckAndSeal(p)
             \/ SealRefused(p) \/ SealActiveSession(p)
      PROVE  Whole(p)'
  <2>1. Working
    BY <1>0, <1>1, <1>6 DEF GetOrCreateChain, AppendEvent, DeleteChain, EnsureChain,
         EnsureAgain, Ensure, TaskFails, CheckAndSeal, SealRefused, SealActiveSession, Seal
  <2> QED BY <1>1, <1>6, <2>1, WholeCalls
<1>7. ASSUME UNCHANGED vars PROVE Whole(p)'
  BY <1>1, <1>7 DEF vars, Whole, Known
<1> QED BY <1>2, <1>3, <1>4, <1>5, <1>6, <1>7 DEF Next, Procs

\* Every step of the process is a step of SessionChain, or shows nothing there.
LEMMA AloneMaps ==
  ASSUME Procs = {Main}, IInv, Mirrored, StaysWhole, [Next]_vars
  PROVE  SC!Next \/ faults'.crashes + faults'.errors > 0 \/ UNCHANGED SC!vars
<1> DEFINE Same == mem'[Main] = mem[Main] /\ (task[Main] = "seal" <=> task'[Main] = "seal")
                   /\ UNCHANGED <<sent, faults.deletes>>
<1>1. Same => UNCHANGED SC!vars
  BY DEF SC!vars
<1>2. SUFFICES ASSUME ~(faults'.crashes + faults'.errors > 0) PROVE SC!Next \/ Same
  BY <1>1
<1>0. /\ Main \in Procs /\ faults \in [deletes : Nat, crashes : Nat, errors : Nat]
      /\ task \in [Procs -> {"start", "idle", "ensure", "agent", "check", "seal"}]
  BY DEF IInv, RestType
<1>w. faults' = faults => Working /\ Whole(Main)
  BY <1>0, <1>2 DEF StaysWhole, Working
<1> HIDE DEF Same
<1>3. ASSUME Truncate(Main) \/ WritePart(Main) PROVE Same
  BY <1>3 DEF Truncate, WritePart, Same
<1>4. ASSUME Store(Main) PROVE SC!Next \/ Same
  BY <1>0, <1>4, StoreMaps DEF SC!Next, Same
<1>5. ASSUME WriteFails(Main) PROVE Same
  BY <1>0, <1>5 DEF WriteFails, Same
<1>6. ASSUME LoadFromDisk(Main) \/ ReloadThread(Main) \/ ReadSession(Main) \/ EndLoad(Main)
      PROVE  Same
  <2>1. UNCHANGED <<sent, faults>>
    BY <1>6 DEF LoadFromDisk, ReloadThread, Load, ReadSession, EndLoad
  <2>2. mem'[Main] = mem[Main]
    BY <1>0, <1>w, <1>6, <2>1, WholeLoads
  <2>3. task[Main] # "seal" /\ task'[Main] # "seal"
    BY <1>0, <1>w, <1>6, <2>1 DEF LoadFromDisk, ReloadThread, Load, ReadSession, EndLoad, Whole
  <2> QED BY <2>1, <2>2, <2>3 DEF Same
<1>7. ASSUME Crash(Main) PROVE FALSE
  BY <1>0, <1>2, <1>7 DEF Crash
<1>8. ASSUME GetOrCreateChain(Main) \/ EnsureChain(Main) \/ EnsureAgain(Main) \/ TaskFails(Main)
      PROVE  Same
  BY <1>0, <1>8 DEF GetOrCreateChain, EnsureChain, EnsureAgain, Ensure, TaskFails, Same
<1>9. ASSUME AppendEvent(Main) PROVE SC!Next
  BY <1>0, <1>9, AppendMaps DEF SC!Next
<1>10. ASSUME DeleteChain(Main) PROVE SC!Next
  BY <1>0, <1>10, DeleteMaps DEF SC!Next
<1>11. ASSUME Main \in Workers, CheckAndSeal(Main) PROVE SC!Next \/ Same
  BY <1>0, <1>11 DEF CheckAndSeal, SC!CheckAndSeal, SC!Next, Same, Full, SC!Full
<1>12. ASSUME Main \in Workers, SealActiveSession(Main) PROVE SC!Next
  <2> DEFINE m == mem[Main]
             n == m.meta.count + 1
  <2>1. /\ mem'[Main].meta = [m.meta EXCEPT !.count = n, !.active = n]
        /\ mem'[Main].sess = Put([m.sess EXCEPT ![m.meta.active].status = "compressing"],
                                 n, NewSession(m.meta.total))
        /\ mem'[Main].evts = Put(m.evts, n, <<>>)
    BY <1>0, <1>12 DEF SealActiveSession, Seal, Old, New, IInv, MemType
  <2>2. /\ task[Main] = "seal" /\ task'[Main] = "idle" /\ UNCHANGED <<sent, faults>>
        /\ m.meta.active \in DOMAIN m.sess /\ n <= MaxSessions
    BY <1>0, <1>12 DEF SealActiveSession, Seal, Old, New
  <2> HIDE DEF m, n
  <2>3. \A f, s, v : SC!Put(f, s, v) = Put(f, s, v)
    BY SameData
  <2>4. SC!NewSession(m.meta.total) = NewSession(m.meta.total)
    BY SameData
  <2>5. SC!SealActiveSession(Main)
    BY <2>1, <2>2, <2>3, <2>4 DEF SC!SealActiveSession, m, n
  <2> QED BY <1>12, <2>5 DEF SC!Next
<1>13. ASSUME Main \in Workers, SealRefused(Main) PROVE SC!Next
  <2>1. /\ task[Main] = "seal" /\ task'[Main] = "idle" /\ UNCHANGED <<mem, sent, faults>>
        /\ mem[Main].meta.active \notin DOMAIN mem[Main].sess \/ mem[Main].meta.count >= MaxSessions
    BY <1>0, <1>13 DEF SealRefused
  <2>2. /\ mem[Main].meta.active = mem[Main].meta.count /\ mem[Main].meta.count \in Nat
        /\ DOMAIN mem[Main].sess = 1..mem[Main].meta.count
    BY <1>0, <1>w, <2>1 DEF Whole, IInv, MemType, IsChain, Meta
  <2>3. ~(mem[Main].meta.count > 0) \/ mem[Main].meta.count >= MaxSessions
    BY <2>1, <2>2
  <2>4. SC!SealRefused(Main)
    BY <2>1, <2>3 DEF SC!SealRefused, SC!Exists
  <2> QED BY <1>13, <2>4 DEF SC!Next
<1>14. ASSUME UNCHANGED vars PROVE Same
  BY <1>14 DEF vars, Same
<1> QED
  BY <1>3, <1>4, <1>5, <1>6, <1>7, <1>8, <1>9, <1>10, <1>11, <1>12, <1>13, <1>14
  DEF Next, Procs

\* The chain of a process that is alone with its directory behaves as SessionChain
\* says until it crashes or a write fails: what it reloads is what it knew.
THEOREM ProcessImplementsSessionChain ==
  ASSUME Procs = {Main} PROVE Spec => ImplementsUntilCrash
<1>1. Init => Mirrored /\ StaysWhole
  BY NoneIsChain DEF Init, Mirrored, Mirror, Half, Known, None, NotLoading, NoFiles, StaysWhole, Whole
<1>2. IInv /\ Mirrored /\ [Next]_vars => Mirrored'
  BY MirroredStep DEF Alone
<1>3. IInv /\ Mirrored /\ StaysWhole /\ [Next]_vars => StaysWhole'
  BY WholeStep DEF Alone
<1>4. Init => SC!Init
  <2>1. \A v : [a \in {} |-> v] = <<>>
    OBVIOUS
  <2>2. Init => mem[Main] = None /\ task[Main] = "idle" /\ sent = 0 /\ faults.deletes = 0
    BY DEF Init
  <2> QED BY <2>1, <2>2, NoneIsChain DEF SC!Init, SC!NoChain
<1>5. IInv /\ Mirrored /\ StaysWhole /\ [Next]_vars
        => [SC!Next \/ faults'.crashes + faults'.errors > 0]_(SC!vars)
  BY AloneMaps
<1> QED BY <1>1, <1>2, <1>3, <1>4, <1>5, Invariance, PTL DEF Spec, ImplementsUntilCrash

-----------------------------------------------------------------------------
(* One process with at most one failed write: what it has in memory and    *)
(* what a load would give it are in the order in which it was sent.        *)

Before(a, b)  == \A i \in DOMAIN a, j \in DOMAIN b : a[i].msg < b[j].msg
Increasing(a) == \A i, j \in DOMAIN a : i < j => a[i].msg < a[j].msg
UpTo(a, n)    == \A i \in DOMAIN a : a[i].msg <= n

\* The sessions that meta.json names.
Counted == IF disk.meta = Unreadable THEN 0 ELSE disk.meta.count

\* A file in place is one that a load reads, or that will be read without being
\* written before.  The others are behind the last session that meta.json names, and
\* are written again before it names them: they may be of an earlier life.
Placed(p, g) ==
  /\ disk.md[g] # Unreadable
  /\ \/ g <= Counted
     \/ /\ Known(p) /\ g <= mem[p].meta.count /\ ~Pending(p, g)
        /\ g < mem[p].meta.count \/ writes[p] # <<>>

Files == 1..MaxSessions

Each(p) ==
  /\ \A g \in Files : disk.md[g] # Unreadable =>
        Increasing(disk.md[g].evts) /\ UpTo(disk.md[g].evts, sent)
  /\ \A f \in DOMAIN mem[p].evts : Increasing(mem[p].evts[f]) /\ UpTo(mem[p].evts[f], sent)

Across(p) ==
  /\ \A f, g \in DOMAIN mem[p].evts : f < g => Before(mem[p].evts[f], mem[p].evts[g])
  /\ \A g, h \in Files :
        Placed(p, g) /\ Placed(p, h) /\ g < h => Before(disk.md[g].evts, disk.md[h].evts)
  /\ \A f \in DOMAIN mem[p].evts, g \in Files : Placed(p, g) =>
        /\ f < g => Before(mem[p].evts[f], disk.md[g].evts)
        /\ g < f => Before(disk.md[g].evts, mem[p].evts[f])

\* What p has truncated is its own, and what it has read is what is there.
Own(p) ==
  /\ Half(p)
  /\ Known(p) \/ writes[p] # <<>> \/ loading[p].on \/ disk.meta # Unreadable => dir
  /\ loading[p].on =>
       /\ loading[p].got.meta = disk.meta
       /\ \A s \in DOMAIN loading[p].got.sess :
             disk.md[s] = [rec |-> loading[p].got.sess[s], evts |-> loading[p].got.evts[s]]

\* meta.json comes last, and names no more than p knows; until a write has failed it
\* names every sealed session that is still to be written.
Naming(p) ==
  /\ mem[p].meta.active = mem[p].meta.count
  /\ disk.meta # Unreadable => disk.meta.active = disk.meta.count
  /\ Known(p) => \A i \in DOMAIN writes[p] : writes[p][i] = 0 => i = Len(writes[p])
  /\ writes[p] # <<>> => task[p] # "start"
  /\ Known(p) => Counted <= mem[p].meta.count
  /\ ~Known(p) /\ task[p] # "start" => Counted <= 1
  /\ faults.errors = 0 /\ Known(p) =>
       \A g \in 1..(mem[p].meta.count - 1) : Pending(p, g) => g <= Counted

Sorted(p) == Own(p) /\ Naming(p) /\ Each(p) /\ Across(p)

Ordered == faults.errors <= 1 => \A p \in Procs : Sorted(p)

Starts(a, b) == \A i \in DOMAIN a : i \in DOMAIN b /\ a[i] = b[i]

\* Copying keeps the order: a is the content that session f has in place, or the
\* beginning of the one it has in memory, or is empty.
Content(p, f, a) ==
  \/ a = <<>>
  \/ f \in DOMAIN mem[p].evts /\ Starts(a, mem[p].evts[f])
  \/ f \in Files /\ Placed(p, f) /\ a = disk.md[f].evts

LEMMA ContentOrder ==
  ASSUME NEW p, Each(p), Across(p), NEW f, NEW a, Content(p, f, a)
  PROVE  /\ Increasing(a) /\ UpTo(a, sent)
         /\ \A g, b : Content(p, g, b) /\ f < g => Before(a, b)
<1>1. \A b : Increasing(<<>>) /\ UpTo(<<>>, sent) /\ Before(<<>>, b) /\ Before(b, <<>>)
  BY DEF Increasing, UpTo, Before
<1>2. Increasing(a) /\ UpTo(a, sent)
  BY <1>1 DEF Content, Starts, Increasing, UpTo, Each, Placed
<1>3. ASSUME NEW g, NEW b, Content(p, g, b), f < g PROVE Before(a, b)
  <2>1. CASE a = <<>> \/ b = <<>>
    BY <1>1, <2>1
  <2>2. CASE f \in DOMAIN mem[p].evts /\ Starts(a, mem[p].evts[f])
    <3>1. CASE g \in DOMAIN mem[p].evts /\ Starts(b, mem[p].evts[g])
      <4>1. Before(mem[p].evts[f], mem[p].evts[g])
        BY <1>3, <2>2, <3>1 DEF Across
      <4> QED BY <2>2, <3>1, <4>1 DEF Before, Starts
    <3>2. CASE g \in Files /\ Placed(p, g) /\ b = disk.md[g].evts
      <4>1. Before(mem[p].evts[f], disk.md[g].evts)
        BY <1>3, <2>2, <3>2 DEF Across
      <4> QED BY <2>2, <3>2, <4>1 DEF Before, Starts
    <3> QED BY <1>3, <2>1, <3>1, <3>2 DEF Content
  <2>3. CASE f \in Files /\ Placed(p, f) /\ a = disk.md[f].evts
    <3>1. CASE g \in DOMAIN mem[p].evts /\ Starts(b, mem[p].evts[g])
      <4>1. Before(disk.md[f].evts, mem[p].evts[g])
        BY <1>3, <2>3, <3>1 DEF Across
      <4> QED BY <2>3, <3>1, <4>1 DEF Before, Starts
    <3>2. CASE g \in Files /\ Placed(p, g) /\ b = disk.md[g].evts
      BY <1>3, <2>3, <3>2 DEF Across
    <3> QED BY <1>3, <2>1, <3>1, <3>2 DEF Content
  <2> QED BY <2>1, <2>2, <2>3 DEF Content
<1> QED BY <1>2, <1>3

LEMMA OrderKept ==
  ASSUME NEW p, Each(p), Across(p), sent' = sent,
         \A f \in DOMAIN mem'[p].evts : Content(p, f, mem'[p].evts[f]),
         \A g \in Files : disk'.md[g] # Unreadable =>
            /\ Placed(p, g)' => Content(p, g, disk'.md[g].evts)
            /\ Content(p, g, disk'.md[g].evts) \/ disk'.md[g] = disk.md[g]
  PROVE  Each(p)' /\ Across(p)'
<1>1. Each(p)'
  BY ContentOrder DEF Each
<1>2. \A g \in Files : Placed(p, g)' => Content(p, g, disk'.md[g].evts)
  BY DEF Placed
<1>3. Across(p)'
  BY <1>2, ContentOrder DEF Across
<1> QED BY <1>1, <1>3

\* Placed of a step that writes no file of a session.
LEMMA SamePlaces ==
  ASSUME NEW p, Each(p), Across(p), sent' = sent,
         \A f \in DOMAIN mem'[p].evts : f \in DOMAIN mem[p].evts /\ mem'[p].evts[f] = mem[p].evts[f],
         \A g \in Files : disk'.md[g] # Unreadable => disk'.md[g] = disk.md[g],
         \A g \in Files : Placed(p, g)' => Placed(p, g)
  PROVE  Each(p)' /\ Across(p)'
<1>1. \A f \in DOMAIN mem'[p].evts : Content(p, f, mem'[p].evts[f])
  BY DEF Content, Starts
<1>2. \A g \in Files : disk'.md[g] # Unreadable =>
         /\ Placed(p, g)' => Content(p, g, disk'.md[g].evts)
         /\ disk'.md[g] = disk.md[g]
  BY DEF Content, Starts
<1> QED BY <1>1, <1>2, OrderKept

-----------------------------------------------------------------------------
(* The steps of that process.                                              *)

LEMMA OwnFiles ==
  ASSUME IInv, NEW p \in Procs, Own(p), Truncate(p) \/ WritePart(p) \/ Store(p) PROVE Own(p)'
<1>1. writes[p] # <<>> /\ dir /\ ~loading[p].on
  BY DEF Truncate, WritePart, Store, Own, IInv, LoadType
<1>2. CASE Truncate(p) \/ WritePart(p)
  <2>1. UNCHANGED <<mem, dir, writes, loading>>
    BY <1>2 DEF Truncate, WritePart
  <2>2. Half(p)'
    BY <1>2, OpenHalf DEF Own
  <2> QED BY <1>1, <2>1, <2>2 DEF Own
<1>3. CASE Store(p)
  <2>1. open'[p] = "no" /\ UNCHANGED <<dir, loading>>
    BY <1>3, StoreWrites DEF Own
  <2>2. Half(p)'
    BY <2>1, ClosedHalf
  <2> QED BY <1>1, <2>1, <2>2 DEF Own
<1> QED BY <1>2, <1>3

LEMMA OwnLoads ==
  ASSUME IInv, NEW p \in Procs, Own(p),
         LoadFromDisk(p) \/ ReloadThread(p) \/ ReadSession(p) \/ EndLoad(p)
  PROVE  Own(p)'
<1>1. UNCHANGED <<dir, disk, writes, open>> /\ writes[p] = <<>>
  BY DEF LoadFromDisk, ReloadThread, Load, ReadSession, EndLoad, Free, IInv, LoadType
<1>2. open[p] = "no" /\ Half(p)'
  BY <1>1, FreeHalf, ClosedHalf DEF Own
<1>3. CASE LoadFromDisk(p) \/ ReloadThread(p)
  <2>1. \/ loading' = loading
        \/ disk.meta # Unreadable /\ loading'[p] = Begin
    BY <1>3 DEF LoadFromDisk, ReloadThread, Load, IInv, LoadType
  <2>2. Begin.got.meta = disk.meta /\ Begin.got.sess = <<>> /\ mem' = mem
    BY <1>3 DEF Begin, None, LoadFromDisk, ReloadThread, Load
  <2> QED BY <1>1, <1>2, <2>1, <2>2 DEF Own, Known
<1>4. CASE ReadSession(p)
  <2>1. PICK s \in 1..MaxSessions : s = loading[p].next
    <3>1. IsLoad(loading[p]) /\ loading[p].on /\ loading[p].next <= loading[p].got.meta.count
      BY <1>4 DEF ReadSession, IInv, LoadType
    <3>2. /\ loading[p].next \in Nat \ {0} /\ loading[p].got.meta.count \in Nat
          /\ loading[p].got.meta.count <= MaxSessions
      BY <3>1 DEF IsLoad, IsChain, Meta
    <3>3. loading[p].next \in 1..MaxSessions
      BY <3>1, <3>2, BoundType
    <3> QED BY <3>3
  <2>2. PICK g : /\ loading'[p] = [loading[p] EXCEPT !.next = s + 1, !.got = g]
                 /\ g = IF disk.md[s] = Unreadable THEN loading[p].got
                        ELSE [loading[p].got EXCEPT
                                !.sess = Put(loading[p].got.sess, s, disk.md[s].rec),
                                !.evts = Put(loading[p].got.evts, s, disk.md[s].evts)]
    BY <1>4, <2>1 DEF ReadSession, IInv, LoadType
  <2>3. loading'[p].got = g /\ IsChain(loading[p].got) /\ loading[p].on /\ mem' = mem
    BY <1>4, <2>2 DEF ReadSession, IInv, LoadType, IsLoad
  <2>4. /\ loading[p].got.meta = disk.meta
        /\ \A t \in DOMAIN loading[p].got.sess :
              disk.md[t] = [rec |-> loading[p].got.sess[t], evts |-> loading[p].got.evts[t]]
    BY <2>3 DEF Own
  <2>5. /\ g.meta = disk.meta
        /\ \A t \in DOMAIN g.sess : disk.md[t] = [rec |-> g.sess[t], evts |-> g.evts[t]]
    <3>1. CASE disk.md[s] = Unreadable
      BY <2>2, <2>4, <3>1
    <3>2. CASE disk.md[s] # Unreadable
      <4>1. disk.md[s] = [rec |-> disk.md[s].rec, evts |-> disk.md[s].evts]
        BY <3>2 DEF IInv, DiskType, File
      <4>2. /\ g.meta = loading[p].got.meta /\ g.sess = Put(loading[p].got.sess, s, disk.md[s].rec)
            /\ g.evts = Put(loading[p].got.evts, s, disk.md[s].evts)
        BY <2>2, <2>3, <3>2 DEF IsChain
      <4>3. DOMAIN loading[p].got.sess = DOMAIN loading[p].got.evts
        BY <2>3 DEF IsChain
      <4> QED BY <2>4, <4>1, <4>2, <4>3 DEF Put
    <3> QED BY <3>1, <3>2
  <2>6. dir
    BY <2>3 DEF Own
  <2> QED BY <1>1, <1>2, <2>3, <2>5, <2>6 DEF Own
<1>5. CASE EndLoad(p)
  <2>1. ~loading'[p].on /\ dir
    BY <1>5 DEF EndLoad, Own, IInv, LoadType, NotLoading
  <2> QED BY <1>1, <1>2, <2>1 DEF Own
<1> QED BY <1>3, <1>4, <1>5

LEMMA OwnCalls ==
  ASSUME IInv, NEW p \in Procs, Own(p),
         \/ GetOrCreateChain(p) \/ AppendEvent(p) \/ DeleteChain(p)
         \/ EnsureChain(p) \/ EnsureAgain(p) \/ TaskFails(p) \/ CheckAndSeal(p) \/ SealRefused(p)
         \/ SealActiveSession(p)
  PROVE  Own(p)'
<1>1. Free(p) /\ open[p] = "no" /\ loading' = loading
  <2>1. Free(p) /\ loading' = loading
    BY DEF GetOrCreateChain, AppendEvent, DeleteChain, EnsureChain, EnsureAgain, Ensure, TaskFails,
           CheckAndSeal, SealRefused, SealActiveSession, Seal
  <2> QED BY <2>1, FreeHalf DEF Own, Free
<1>2. CASE DeleteChain(p)
  <2>1. /\ mem'[p] = None /\ open'[p] = "no" /\ writes' = writes /\ disk'.meta = Unreadable
    BY <1>1, <1>2 DEF DeleteChain, IInv, MemType, NoFiles
  <2> QED BY <1>1, <2>1, NoneIsChain, ClosedHalf DEF Own, Known, Free
<1>3. CASE ~DeleteChain(p)
  <2>1. open' = open /\ disk' = disk
    BY <1>3 DEF GetOrCreateChain, AppendEvent, EnsureChain, EnsureAgain, Ensure, TaskFails,
           CheckAndSeal, SealRefused, SealActiveSession, Seal
  <2>2. dir' \/ (dir' = dir /\ mem' = mem /\ writes' = writes)
    <3>1. CASE AppendEvent(p) \/ SealActiveSession(p)
      <4>1. mem[p].meta.active \in DOMAIN mem[p].sess /\ dir' = dir
        BY <3>1 DEF AppendEvent, SealActiveSession, Seal, Old
      <4>2. Known(p)
        BY <4>1 DEF Known, IInv, MemType, IsChain, Meta
      <4> QED BY <4>1, <4>2 DEF Own
    <3>2. CASE ~(AppendEvent(p) \/ SealActiveSession(p))
      BY <1>3, <3>2 DEF GetOrCreateChain, EnsureChain, EnsureAgain, Ensure, Create, TaskFails,
                CheckAndSeal, SealRefused
    <3> QED BY <3>1, <3>2
  <2> QED BY <1>1, <2>1, <2>2, ClosedHalf DEF Own, Known, Free
<1> QED BY <1>2, <1>3

\* A write fails only for another reason than that the directory is gone.
LEMMA OwnFaults ==
  ASSUME IInv, NEW p \in Procs, Own(p), WriteFails(p) \/ Crash(p)
  PROVE  Own(p)' /\ (WriteFails(p) => faults'.errors = faults.errors + 1)
<1>1. open'[p] = "no" /\ UNCHANGED <<dir, disk>>
  BY DEF WriteFails, Crash, IInv, WriteType
<1>2. CASE WriteFails(p)
  <2>1. writes[p] # <<>> /\ dir /\ ~loading[p].on /\ loading' = loading
    BY <1>2 DEF WriteFails, Own, IInv, LoadType
  <2>2. faults'.errors = faults.errors + 1
    BY <1>2, <2>1 DEF WriteFails, IInv, RestType
  <2> QED BY <1>1, <2>1, <2>2, ClosedHalf DEF Own
<1>3. ASSUME Crash(p) PROVE Own(p)'
  <2>1. mem'[p] = None /\ writes'[p] = <<>> /\ ~loading'[p].on
    BY <1>3 DEF Crash, IInv, MemType, WriteType, LoadType, NotLoading
  <2> QED BY <1>1, <2>1, NoneIsChain, ClosedHalf DEF Own, Known
<1> QED BY <1>2, <1>3

\* A list of files: the first is done, or all are dropped.
LEMMA TailPending ==
  ASSUME IInv, NEW p \in Procs, writes[p] # <<>>, writes'[p] = Tail(writes[p])
  PROVE  /\ Pending(p, Head(writes[p]))
         /\ \A f : Pending(p, f)' => Pending(p, f)
         /\ \A f : Pending(p, f) => f = Head(writes[p]) \/ Pending(p, f)'
         /\ \A k : (\A i \in DOMAIN writes[p] : writes[p][i] = k => i = Len(writes[p]))
                     => (\A i \in DOMAIN writes'[p] : writes'[p][i] = k => i = Len(writes'[p]))
<1>1. writes[p] \in Seq(0..MaxSessions)
  BY DEF IInv, WriteType
<1>2. /\ DOMAIN writes[p] = 1..Len(writes[p]) /\ Len(writes[p]) \in Nat /\ Len(writes[p]) # 0
      /\ Len(Tail(writes[p])) = Len(writes[p]) - 1 /\ Head(writes[p]) = writes[p][1]
      /\ DOMAIN Tail(writes[p]) = 1..Len(Tail(writes[p]))
      /\ \A j \in 1..Len(Tail(writes[p])) : Tail(writes[p])[j] = writes[p][j + 1]
  <2>1. Tail(writes[p]) \in Seq(0..MaxSessions)
    BY <1>1, HeadTailProperties
  <2> QED BY <1>1, <2>1, HeadTailProperties, LenProperties, EmptySeq
<1>3. Pending(p, Head(writes[p]))
  BY <1>2 DEF Pending
<1>4. ASSUME NEW f, Pending(p, f)' PROVE Pending(p, f)
  <2>1. PICK j \in 1..Len(Tail(writes[p])) : writes[p][j + 1] = f
    BY <1>2, <1>4 DEF Pending
  <2>2. j + 1 \in DOMAIN writes[p]
    BY <1>2
  <2> QED BY <2>1, <2>2 DEF Pending
<1>5. ASSUME NEW f, Pending(p, f), f # Head(writes[p]) PROVE Pending(p, f)'
  <2>1. PICK i \in 1..Len(writes[p]) : writes[p][i] = f
    BY <1>2, <1>5 DEF Pending
  <2>2. i - 1 \in 1..Len(Tail(writes[p])) /\ (i - 1) + 1 = i
    BY <1>2, <1>5, <2>1
  <2>3. \E j \in DOMAIN Tail(writes[p]) : Tail(writes[p])[j] = f
    BY <1>2, <2>1, <2>2
  <2> QED BY <2>3 DEF Pending
<1>6. ASSUME NEW k, \A i \in DOMAIN writes[p] : writes[p][i] = k => i = Len(writes[p]),
             NEW j \in DOMAIN Tail(writes[p]), Tail(writes[p])[j] = k
      PROVE  j = Len(Tail(writes[p]))
  <2>1. j + 1 \in DOMAIN writes[p] /\ writes[p][j + 1] = k
    BY <1>2, <1>6
  <2>2. j + 1 = Len(writes[p])
    BY <1>6, <2>1
  <2> QED BY <1>2, <2>2
<1> QED BY <1>3, <1>4, <1>5, <1>6

\* Of a known chain only meta.json is left when it is its turn.
LEMMA MetaLast ==
  ASSUME IInv, NEW p \in Procs, Naming(p), Known(p), writes[p] # <<>>, Head(writes[p]) = 0
  PROVE  Len(writes[p]) = 1 /\ Tail(writes[p]) = <<>> /\ \A f : Pending(p, f) => f = 0
<1>1. writes[p] \in Seq(0..MaxSessions)
  BY DEF IInv, WriteType
<1>2. /\ DOMAIN writes[p] = 1..Len(writes[p]) /\ Len(writes[p]) \in Nat /\ Len(writes[p]) # 0
      /\ Head(writes[p]) = writes[p][1]
  BY <1>1, HeadTailProperties, LenProperties, EmptySeq
<1>3. Len(writes[p]) = 1
  <2>1. 1 \in DOMAIN writes[p] /\ writes[p][1] = 0
    BY <1>2
  <2> QED BY <2>1 DEF Naming
<1>4. \A f : Pending(p, f) => f = 0
  BY <1>2, <1>3 DEF Pending
<1> QED BY <1>1, <1>3, <1>4, TailType

\* Emptied, a file is not in place.
LEMMA TruncateSorted ==
  ASSUME IInv, NEW p \in Procs, Sorted(p), Truncate(p) PROVE Sorted(p)'
<1>1. PICK g \in 0..MaxSessions : g = Head(writes[p])
  <2>1. Head(writes[p]) \in 0..MaxSessions
    BY ImageType DEF Truncate
  <2> QED BY <2>1
<1>2. /\ disk' = WithFile(g, Unreadable) /\ writes[p] # <<>>
      /\ UNCHANGED <<mem, dir, writes, loading, task, sent, faults>>
  BY <1>1 DEF Truncate
<1>3. /\ disk'.meta = IF g = 0 THEN Unreadable ELSE disk.meta
      /\ \A h \in Files : disk'.md[h] = IF h = g THEN Unreadable ELSE disk.md[h]
  BY <1>2, WithFileReads DEF Files
<1>4. Counted' = IF g = 0 THEN 0 ELSE Counted
  BY <1>3 DEF Counted
<1>5. Counted \in Nat /\ mem[p].meta.count \in Nat
  BY DEF Counted, IInv, DiskType, MemType, IsChain, Meta
<1>6. Each(p)' /\ Across(p)'
  <2>1. \A h \in Files : Placed(p, h)' => Placed(p, h)
    BY <1>2, <1>3, <1>4, <1>5 DEF Placed, Known, Pending, Files
  <2> QED BY <1>2, <1>3, <2>1, SamePlaces DEF Sorted
<1>7. Naming(p)'
  <2>1. UNCHANGED <<writes[p], task[p], mem[p], faults>>
    BY <1>2
  <2>2. ASSUME faults.errors = 0, Known(p), NEW h \in 1..(mem[p].meta.count - 1), Pending(p, h)
        PROVE  h <= Counted'
    <3>1. g # 0
      BY <1>1, <1>2, <1>5, <2>2, MetaLast DEF Sorted
    <3> QED BY <1>4, <2>2, <3>1 DEF Sorted, Naming
  <2>3. disk'.meta # Unreadable => disk'.meta.active = disk'.meta.count
    BY <1>3 DEF Sorted, Naming
  <2>4. Counted' <= Counted
    BY <1>4, <1>5
  <2>5. (Known(p) => Counted' <= mem[p].meta.count) /\ (~Known(p) /\ task[p] # "start" => Counted' <= 1)
    BY <1>4, <1>5, <2>4 DEF Sorted, Naming
  <2> QED BY <1>2, <2>1, <2>2, <2>3, <2>5 DEF Sorted, Naming, Known, Pending
<1>8. Own(p)'
  BY OwnFiles DEF Sorted
<1> QED BY <1>6, <1>7, <1>8 DEF Sorted

LEMMA MemCounts ==
  ASSUME IInv, NEW p \in Procs
  PROVE  /\ IsChain(mem[p]) /\ mem[p].meta \in Meta /\ mem[p].meta.count \in Nat
         /\ DOMAIN mem[p].sess = DOMAIN mem[p].evts
         /\ DOMAIN mem[p].evts \subseteq 1..mem[p].meta.count
         /\ ~Known(p) => mem[p].meta.count = 0 /\ DOMAIN mem[p].evts = {}
         /\ Counted \in Nat
BY DEF IInv, MemType, DiskType, IsChain, Meta, Known, Counted

\* A file is written from memory.
LEMMA KnownStoreSorted ==
  ASSUME IInv, NEW p \in Procs, Sorted(p), Store(p), Known(p) PROVE Naming(p)' /\ Each(p)' /\ Across(p)'
<1>1. PICK g \in 0..MaxSessions : g = Head(writes[p])
  <2>1. Head(writes[p]) \in 0..MaxSessions
    BY ImageType DEF Store
  <2> QED BY <2>1
<1>2. /\ disk' = WithFile(g, Image(p, g)) /\ writes'[p] = Tail(writes[p]) /\ writes[p] # <<>>
      /\ UNCHANGED <<mem, task, sent, faults>>
  <2>1. mem' = mem
    BY DEF Store
  <2> QED BY <1>1, <2>1, StoreWrites DEF Sorted, Own
<1>3. /\ disk'.meta = IF g = 0 THEN Image(p, g) ELSE disk.meta
      /\ \A h \in Files : disk'.md[h] = IF h = g THEN Image(p, g) ELSE disk.md[h]
  BY <1>2, WithFileReads DEF Files
<1>4. /\ mem[p].meta \in Meta /\ mem[p].meta.count \in Nat
      /\ mem[p].meta.active = mem[p].meta.count /\ Counted \in Nat
      /\ Counted <= mem[p].meta.count
  BY MemCounts DEF Sorted, Naming
<1>5. CASE g = 0
  <2>1. disk'.meta = mem[p].meta /\ Counted' = mem[p].meta.count
    BY <1>3, <1>4, <1>5, UnreadableType DEF Image, Counted
  <2>2. writes'[p] = <<>> /\ \A f : Pending(p, f) => f = 0
    BY <1>1, <1>2, <1>5, MetaLast DEF Sorted
  <2>3. \A h \in Files : Placed(p, h)' => Placed(p, h)
    BY <1>2, <1>3, <1>4, <1>5, <2>1, <2>2 DEF Placed, Known, Files
  <2>4. Each(p)' /\ Across(p)'
    BY <1>2, <1>3, <1>5, <2>3, SamePlaces DEF Sorted, Files
  <2>5. \A f : ~Pending(p, f)'
    BY <2>2 DEF Pending
  <2>6. Naming(p)'
    <3>1. \A i \in DOMAIN writes'[p] : FALSE
      BY <2>2
    <3>2. UNCHANGED <<mem, task, faults>>
      BY <1>2
    <3> QED BY <1>4, <2>1, <2>2, <2>5, <3>1, <3>2 DEF Naming, Known
  <2> QED BY <2>4, <2>6
<1>6. CASE g # 0
  <2>1. g \in DOMAIN mem[p].evts
    <3>1. Pending(p, g)
      BY <1>1, <1>2, TailPending
    <3> QED BY <1>6, <3>1, MemCounts DEF Pending, IInv, WriteType
  <2>2. Image(p, g).evts = mem[p].evts[g]
    BY <1>6 DEF Image
  <2>3. disk'.meta = disk.meta /\ Counted' = Counted
    BY <1>3, <1>6 DEF Counted
  <2>4. ASSUME NEW h \in Files, h # g, Placed(p, h)' PROVE Placed(p, h)
    <3>1. ~Pending(p, h)' => ~Pending(p, h)
      BY <1>1, <1>2, <2>4, TailPending
    <3> QED BY <1>2, <1>3, <2>3, <2>4, <3>1 DEF Placed, Known
  <2>5. \A f \in DOMAIN mem'[p].evts : Content(p, f, mem'[p].evts[f])
    BY <1>2 DEF Content, Starts
  <2>6. ASSUME NEW h \in Files, disk'.md[h] # Unreadable
        PROVE  /\ Placed(p, h)' => Content(p, h, disk'.md[h].evts)
               /\ Content(p, h, disk'.md[h].evts) \/ disk'.md[h] = disk.md[h]
    <3>1. CASE h = g
      <4>1. Content(p, h, disk'.md[h].evts)
        BY <1>3, <2>1, <2>2, <3>1 DEF Content, Starts
      <4> QED BY <4>1
    <3>2. CASE h # g
      BY <1>3, <2>4, <3>2 DEF Content, Starts
    <3> QED BY <3>1, <3>2
  <2>7. Each(p)' /\ Across(p)'
    BY <1>2, <2>5, <2>6, OrderKept DEF Sorted
  <2>8. Naming(p)'
    <3>1. \A i \in DOMAIN writes'[p] : writes'[p][i] = 0 => i = Len(writes'[p])
      BY <1>2, TailPending DEF Sorted, Naming
    <3>2. \A f : Pending(p, f)' => Pending(p, f)
      BY <1>2, TailPending
    <3> QED BY <1>2, <2>3, <3>1, <3>2 DEF Sorted, Naming, Known
  <2> QED BY <2>7, <2>8
<1> QED BY <1>5, <1>6

\* The beginning of a file is written from memory.
LEMMA PartSorted ==
  ASSUME IInv, NEW p \in Procs, Sorted(p), WritePart(p) PROVE Sorted(p)'
<1>1. PICK g \in 1..MaxSessions, c \in File, k \in Nat :
         /\ g = Head(writes[p]) /\ c = Image(p, g) /\ k \in 0..Len(c.evts)
         /\ disk' = WithFile(g, Cut(c, k))
  BY PartWrites DEF Sorted, Own
<1>2. UNCHANGED <<mem, dir, writes, loading, task, sent, faults>> /\ writes[p] # <<>>
  BY PartWrites DEF Sorted, Own
<1>3. disk'.meta = disk.meta /\ \A h \in Files : disk'.md[h] = IF h = g THEN Cut(c, k) ELSE disk.md[h]
  <2>1. g \in 0..MaxSessions /\ g # 0
    OBVIOUS
  <2> QED BY <1>1, <2>1, WithFileReads DEF Files
<1>4. Counted' = Counted
  BY <1>3 DEF Counted
<1>5. Content(p, g, Cut(c, k).evts)
  <2>1. (g \in DOMAIN mem[p].evts /\ c.evts = mem[p].evts[g]) \/ c.evts = <<>>
    BY <1>1, <1>2, ImageType
  <2>2. Starts(Cut(c, k).evts, c.evts)
    BY <1>1, CutType DEF Starts
  <2>3. ASSUME c.evts = <<>> PROVE Cut(c, k).evts = <<>>
    <3>1. Len(c.evts) = 0
      BY <2>3
    <3>2. Cut(c, k).evts \in Seq(Event) /\ Len(Cut(c, k).evts) = k /\ k = 0
      BY <1>1, <3>1, CutType DEF File
    <3> QED BY <3>2, EmptySeq
  <2> QED BY <2>1, <2>2, <2>3 DEF Content
<1>6. ASSUME NEW h \in Files, h # g, Placed(p, h)' PROVE Placed(p, h)
  BY <1>2, <1>3, <1>4, <1>6 DEF Placed, Known, Pending
<1>7. Each(p)' /\ Across(p)'
  <2>1. \A f \in DOMAIN mem'[p].evts : Content(p, f, mem'[p].evts[f])
    BY <1>2 DEF Content, Starts
  <2>2. ASSUME NEW h \in Files, disk'.md[h] # Unreadable
        PROVE  /\ Placed(p, h)' => Content(p, h, disk'.md[h].evts)
               /\ Content(p, h, disk'.md[h].evts) \/ disk'.md[h] = disk.md[h]
    BY <1>3, <1>5, <1>6 DEF Content
  <2> QED BY <1>2, <2>1, <2>2, OrderKept DEF Sorted
<1>8. Naming(p)'
  BY <1>2, <1>3, <1>4 DEF Sorted, Naming, Known, Pending
<1>9. Own(p)'
  BY OwnFiles DEF Sorted
<1> QED BY <1>7, <1>8, <1>9 DEF Sorted

\* A new chain has one session without events.
LEMMA FirstStoreSorted ==
  ASSUME IInv, NEW p \in Procs, Sorted(p), Store(p), ~Known(p) PROVE Naming(p)' /\ Each(p)' /\ Across(p)'
<1>1. PICK g \in 0..MaxSessions : g = Head(writes[p])
  <2>1. Head(writes[p]) \in 0..MaxSessions
    BY ImageType DEF Store
  <2> QED BY <2>1
<1>2. /\ disk' = WithFile(g, Image(p, g)) /\ writes'[p] = Tail(writes[p]) /\ writes[p] # <<>>
      /\ UNCHANGED <<task, sent, faults>>
  BY <1>1, StoreWrites DEF Sorted, Own
<1>3. /\ disk'.meta = IF g = 0 THEN Image(p, g) ELSE disk.meta
      /\ \A h \in Files : disk'.md[h] = IF h = g THEN Image(p, g) ELSE disk.md[h]
  BY <1>2, WithFileReads DEF Files
<1>4. \/ mem'[p] = mem[p]
      \/ mem'[p] = Fresh /\ writes'[p] = <<>>
  <2>1. CASE Len(writes[p]) = 1
    <3>1. mem'[p] = Fresh
      BY <2>1 DEF Store, IInv, MemType
    <3>2. Tail(writes[p]) = <<>>
      BY <1>2, <2>1, TailType DEF IInv, WriteType
    <3> QED BY <1>2, <3>1, <3>2
  <2>2. CASE Len(writes[p]) # 1
    BY <2>2 DEF Store
  <2> QED BY <2>1, <2>2
<1>5. (g = 0 => Image(p, g) = FirstMeta) /\ (g # 0 => g = 1 /\ Image(p, g).evts = <<>>)
  <2>1. Pending(p, g)
    BY <1>1, <1>2, TailPending
  <2>2. g # 0 => g = 1
    BY <2>1 DEF Pending, IInv, WriteType
  <2> QED BY <2>2, FreshIsChain DEF Image
<1>6. mem[p].meta = NoChain /\ DOMAIN mem[p].evts = {} /\ Counted \in Nat /\ Counted <= 1
  BY <1>2, MemCounts DEF Sorted, Naming, Known
<1>7. Counted' \in Nat /\ Counted' <= 1 /\ (disk'.meta # Unreadable => disk'.meta.active = disk'.meta.count)
  <2>1. CASE g = 0
    BY <1>3, <1>5, <2>1 DEF Counted
  <2>2. CASE g # 0
    BY <1>3, <1>6, <2>2 DEF Counted, Sorted, Naming
  <2> QED BY <2>1, <2>2
<1>8. /\ mem'[p].meta = NoChain \/ (mem'[p].meta = FirstMeta /\ writes'[p] = <<>>)
      /\ \A f \in DOMAIN mem'[p].evts : f = 1 /\ mem'[p].evts[f] = <<>>
  BY <1>4, <1>6, FreshIsChain
<1>9. \A h \in Files : Placed(p, h)' => h = 1
  BY <1>7, <1>8 DEF Placed, Known, Files
<1>10. Each(p)'
  BY <1>2, <1>3, <1>5, <1>8 DEF Sorted, Each, Increasing, UpTo, Files
<1>11. Across(p)'
  BY <1>8, <1>9 DEF Across
<1>12. Naming(p)'
  BY <1>2, <1>7, <1>8 DEF Sorted, Naming, Known
<1> QED BY <1>10, <1>11, <1>12

\* A failed write leaves the files behind the last one that meta.json names.
LEMMA FailsSorted ==
  ASSUME IInv, NEW p \in Procs, Sorted(p), WriteFails(p), faults'.errors <= 1 PROVE Sorted(p)'
<1>1. writes'[p] = <<>> /\ UNCHANGED <<mem, disk, task, sent>> /\ writes[p] # <<>>
  BY DEF WriteFails, IInv, WriteType
<1>2. Own(p)' /\ faults.errors = 0 /\ faults'.errors = 1
  <2>1. faults.errors \in Nat
    BY DEF IInv, RestType
  <2> QED BY <2>1, OwnFaults DEF Sorted
<1>3. Counted' = Counted /\ \A f : ~Pending(p, f)'
  BY <1>1 DEF Counted, Pending
<1>4. ASSUME NEW g \in Files, Placed(p, g)' PROVE Placed(p, g)
  <2>1. CASE g <= Counted
    BY <1>1, <1>4, <2>1 DEF Placed
  <2>2. CASE ~(g <= Counted)
    <3>1. Known(p) /\ g \in 1..(mem[p].meta.count - 1) /\ disk.md[g] # Unreadable
      BY <1>1, <1>3, <1>4, <2>2, MemCounts DEF Placed, Known, Files
    <3>2. ~Pending(p, g)
      BY <1>2, <2>2, <3>1 DEF Sorted, Naming
    <3> QED BY <1>1, <3>1, <3>2, MemCounts DEF Placed
  <2> QED BY <2>1, <2>2
<1>5. Each(p)' /\ Across(p)'
  BY <1>1, <1>4, SamePlaces DEF Sorted
<1>6. Naming(p)'
  BY <1>1, <1>2, <1>3 DEF Sorted, Naming, Known
<1> QED BY <1>2, <1>5, <1>6 DEF Sorted

\* A load takes what is in place.
LEMMA LoadsSorted ==
  ASSUME IInv, NEW p \in Procs, Sorted(p),
         LoadFromDisk(p) \/ ReloadThread(p) \/ ReadSession(p) \/ EndLoad(p)
  PROVE  Sorted(p)'
<1>1. UNCHANGED <<disk, writes, sent, faults>> /\ writes[p] = <<>> /\ Counted' = Counted
  BY DEF LoadFromDisk, ReloadThread, Load, ReadSession, EndLoad, Free, IInv, LoadType, Counted
<1>2. Own(p)'
  BY OwnLoads DEF Sorted
<1>3. CASE LoadFromDisk(p) \/ ReloadThread(p) \/ ReadSession(p)
  <2>1. mem' = mem
    BY <1>3 DEF LoadFromDisk, ReloadThread, Load, ReadSession
  <2>2. \A g \in Files : Placed(p, g)' => Placed(p, g)
    BY <1>1, <2>1 DEF Placed, Known, Pending
  <2>3. Each(p)' /\ Across(p)'
    BY <1>1, <2>1, <2>2, SamePlaces DEF Sorted
  <2>4. task'[p] # "start" => task[p] # "start" \/ Counted = 0
    BY <1>3 DEF LoadFromDisk, ReloadThread, Load, ReadSession, Counted, IInv, RestType
  <2>5. Naming(p)'
    BY <1>1, <2>1, <2>4 DEF Sorted, Naming, Known, Pending
  <2> QED BY <1>2, <2>3, <2>5 DEF Sorted
<1>4. CASE EndLoad(p)
  <2>1. loading[p].on /\ mem'[p] = loading[p].got /\ IsChain(loading[p].got)
    BY <1>4 DEF EndLoad, IInv, MemType, LoadType, IsLoad
  <2>2. /\ mem'[p].meta = disk.meta
        /\ \A f \in DOMAIN mem'[p].evts : f \in Files /\ f <= disk.meta.count
                                          /\ disk.md[f] = [rec |-> mem'[p].sess[f], evts |-> mem'[p].evts[f]]
    <3>1. /\ loading[p].got.meta = disk.meta
          /\ \A f \in DOMAIN loading[p].got.sess :
                disk.md[f] = [rec |-> loading[p].got.sess[f], evts |-> loading[p].got.evts[f]]
      BY <2>1 DEF Sorted, Own
    <3>2. /\ DOMAIN loading[p].got.evts = DOMAIN loading[p].got.sess
          /\ DOMAIN loading[p].got.sess \subseteq 1..disk.meta.count
          /\ disk.meta.count \in Nat /\ disk.meta.count <= MaxSessions
      BY <2>1, <3>1 DEF IsChain, Meta
    <3> QED BY <2>1, <3>1, <3>2, BoundType DEF Files
  <2>3. disk.meta \in Meta /\ Counted = disk.meta.count
    BY <2>1, <2>2, UnreadableType DEF IsChain, Counted
  <2>4. \A f \in DOMAIN mem'[p].evts : Content(p, f, mem'[p].evts[f])
    <3> SUFFICES ASSUME NEW f \in DOMAIN mem'[p].evts
                 PROVE  f \in Files /\ Placed(p, f) /\ mem'[p].evts[f] = disk.md[f].evts
      BY DEF Content, Starts
    <3>1. mem'[p].sess[f] \in Record /\ mem'[p].evts[f] \in Seq(Event)
      BY <2>1 DEF IsChain
    <3>2. f \in Files /\ f <= disk.meta.count
          /\ disk.md[f] = [rec |-> mem'[p].sess[f], evts |-> mem'[p].evts[f]]
      BY <2>2
    <3>3. [rec |-> mem'[p].sess[f], evts |-> mem'[p].evts[f]] \in [rec : Record, evts : Seq(Event)]
      BY <3>1
    <3>4. disk.md[f] # Unreadable /\ mem'[p].evts[f] = disk.md[f].evts
      BY <3>2, <3>3, UnreadableType
    <3> QED BY <2>3, <3>2, <3>4 DEF Placed
  <2>5. \A g \in Files : Placed(p, g)' => Placed(p, g)
    <3> SUFFICES ASSUME NEW g \in Files, Placed(p, g)' PROVE Placed(p, g)
      OBVIOUS
    <3>1. g <= Counted
      BY <1>1, <2>2, <2>3 DEF Placed
    <3> QED BY <1>1, <3>1 DEF Placed
  <2>6. Each(p)' /\ Across(p)'
    <3>1. \A g \in Files : disk'.md[g] # Unreadable =>
             /\ Placed(p, g)' => Content(p, g, disk'.md[g].evts)
             /\ disk'.md[g] = disk.md[g]
      BY <1>1, <2>5 DEF Content, Starts
    <3> QED BY <1>1, <2>4, <3>1, OrderKept DEF Sorted
  <2>7. Naming(p)'
    <3>1. /\ disk.meta.active = disk.meta.count /\ disk.meta.count \in Nat
          /\ Counted' = disk.meta.count
      BY <1>1, <2>3, UnreadableType DEF Sorted, Naming, Meta
    <3>2. ~Known(p)' => Counted' = 0
      BY <2>2, <3>1 DEF Known
    <3>3. \A i \in DOMAIN writes'[p] : FALSE
      BY <1>1
    <3>4. \A f : ~Pending(p, f)'
      BY <3>3 DEF Pending
    <3> QED BY <1>1, <2>2, <3>1, <3>2, <3>3, <3>4 DEF Sorted, Naming
  <2> QED BY <1>2, <2>6, <2>7 DEF Sorted
<1> QED BY <1>3, <1>4

\* The steps of a task that change no chain, and GetOrCreateChain before it writes.
LEMMA TasksSorted ==
  ASSUME IInv, NEW p \in Procs, Sorted(p),
         \/ GetOrCreateChain(p) \/ EnsureChain(p) \/ EnsureAgain(p)
         \/ TaskFails(p) \/ CheckAndSeal(p) \/ SealRefused(p)
  PROVE  Sorted(p)'
<1>1. /\ UNCHANGED <<mem, disk, sent, faults>> /\ Counted' = Counted
      /\ task[p] # "start" /\ task'[p] # "start"
      /\ writes'[p] = writes[p] \/ ~Known(p)
  BY DEF GetOrCreateChain, EnsureChain, EnsureAgain, Ensure, Create, TaskFails, CheckAndSeal,
         SealRefused, Counted, IInv, RestType
<1>2. Own(p)'
  BY OwnCalls DEF Sorted
<1>3. \A g \in Files : Placed(p, g)' => Placed(p, g)
  BY <1>1 DEF Placed, Known, Pending
<1>4. Each(p)' /\ Across(p)'
  BY <1>1, <1>3, SamePlaces DEF Sorted
<1>5. Naming(p)'
  BY <1>1 DEF Sorted, Naming, Known, Pending
<1> QED BY <1>2, <1>4, <1>5 DEF Sorted

\* After a delete or a crash there is nothing in memory; a crash leaves the files.
LEMMA EndsSorted ==
  ASSUME IInv, NEW p \in Procs, Sorted(p), DeleteChain(p) \/ Crash(p) PROVE Sorted(p)'
<1>0. NoFiles.meta = Unreadable /\ \A g \in Files : NoFiles.md[g] = Unreadable
  BY DEF NoFiles, Files
<1>1. /\ mem'[p] = None /\ sent' = sent /\ writes'[p] = <<>>
      /\ (disk' = disk /\ task'[p] = "start") \/ disk' = NoFiles
  BY DEF DeleteChain, Crash, Free, IInv, MemType, WriteType, RestType
<1>2. Own(p)'
  BY OwnCalls, OwnFaults DEF Sorted
<1>3. ~Known(p)' /\ DOMAIN mem'[p].evts = {} /\ mem'[p].meta.active = mem'[p].meta.count
  BY <1>1, NoneIsChain DEF Known
<1>4. \A g \in Files : disk'.md[g] # Unreadable => disk'.md[g] = disk.md[g]
  BY <1>0, <1>1
<1>5. \A g \in Files : Placed(p, g)' => Placed(p, g)
  <2> SUFFICES ASSUME NEW g \in Files, Placed(p, g)' PROVE Placed(p, g)
    OBVIOUS
  <2>1. disk' = disk
    BY <1>0, <1>1 DEF Placed
  <2> QED BY <1>3, <2>1 DEF Placed, Counted
<1>6. Each(p)' /\ Across(p)'
  BY <1>1, <1>3, <1>4, <1>5, SamePlaces DEF Sorted
<1>7. Naming(p)'
  <2>1. disk'.meta # Unreadable => disk'.meta.active = disk'.meta.count /\ task'[p] = "start"
    BY <1>0, <1>1 DEF Sorted, Naming
  <2>2. task'[p] # "start" => Counted' = 0
    BY <2>1 DEF Counted
  <2> QED BY <1>1, <1>3, <2>1, <2>2 DEF Naming
<1> QED BY <1>2, <1>6, <1>7 DEF Sorted

LEMMA EventNumbers ==
  ASSUME NEW c \in Seq(Event)
  PROVE  DOMAIN c = 1..Len(c) /\ Len(c) \in Nat /\ \A i \in DOMAIN c : c[i].msg \in Nat
<1>1. DOMAIN c = 1..Len(c) /\ Len(c) \in Nat
  BY LenProperties
<1>2. ASSUME NEW i \in DOMAIN c PROVE c[i].msg \in Nat
  <2>1. c[i] \in Event
    BY <1>1, ElementOfSeq
  <2> QED BY <2>1 DEF Event
<1> QED BY <1>1, <1>2

\* The new event is the youngest, and no session in place is behind the active one.
LEMMA AppendSorted ==
  ASSUME IInv, NEW p \in Procs, Sorted(p), AppendEvent(p) PROVE Sorted(p)'
<1>1. PICK k \in Nat : k = mem[p].meta.active
  BY MemCounts DEF Meta
<1>2. /\ UNCHANGED <<disk, task, faults>> /\ sent' = sent + 1 /\ sent \in Nat
      /\ k \in DOMAIN mem[p].sess /\ writes'[p] = <<k, 0>> /\ writes[p] = <<>>
      /\ task[p] # "start"
  BY <1>1, BoundType DEF AppendEvent, Free, IInv, WriteType, RestType
<1>3. PICK e : /\ mem'[p].evts = [mem[p].evts EXCEPT ![k] = Append(mem[p].evts[k], e)]
               /\ e.msg = sent + 1 /\ e \in Event
  <2>1. PICK x : x = [no |-> mem[p].meta.total + 1, msg |-> sent + 1]
    OBVIOUS
  <2>2. mem'[p].evts = [mem[p].evts EXCEPT ![k] = Append(mem[p].evts[k], x)]
    BY <1>1, <2>1 DEF AppendEvent, IInv, MemType
  <2>3. x.msg = sent + 1
    BY <2>1
  <2>4. x \in Event
    BY <1>2, <2>1, MemCounts DEF Event, Meta
  <2> QED BY <2>2, <2>3, <2>4
<1>4. /\ mem'[p].meta.count = mem[p].meta.count /\ mem'[p].meta.active = mem[p].meta.active
      /\ Known(p) /\ Known(p)' /\ k = mem[p].meta.count /\ k \in DOMAIN mem[p].evts /\ k # 0
      /\ Counted' = Counted /\ Counted <= mem[p].meta.count
  <2>1. mem'[p].meta = [mem[p].meta EXCEPT !.total = mem[p].meta.total + 1]
    BY DEF AppendEvent, IInv, MemType
  <2>2. mem'[p].meta.count = mem[p].meta.count /\ mem'[p].meta.active = mem[p].meta.active
    BY <2>1, MemCounts DEF Meta
  <2>3. k \in DOMAIN mem[p].evts /\ k # 0 /\ k = mem[p].meta.count
    BY <1>1, <1>2, MemCounts DEF Sorted, Naming
  <2>4. Known(p) /\ Known(p)'
    BY <2>2, <2>3 DEF Known
  <2> QED BY <1>2, <2>2, <2>3, <2>4 DEF Counted, Sorted, Naming
<1>5. Pending(p, k)' /\ \A f : ~Pending(p, f)
  <2>1. 1 \in DOMAIN <<k, 0>> /\ <<k, 0>>[1] = k
    OBVIOUS
  <2>2. (\E i \in DOMAIN writes[p] : writes[p][i] = k)'
    BY <1>2, <2>1
  <2> QED BY <1>2, <2>2 DEF Pending
<1>6. \A g \in Files : Placed(p, g)' => Placed(p, g) /\ g <= k
  <2> SUFFICES ASSUME NEW g \in Files, Placed(p, g)' PROVE Placed(p, g) /\ g <= k
    OBVIOUS
  <2>1. Counted \in Nat /\ g \in Int
    BY MemCounts DEF Files
  <2>2. disk.md[g] # Unreadable /\ (g <= Counted \/ (g <= k /\ ~Pending(p, g)'))
    BY <1>2, <1>4 DEF Placed
  <2>3. g <= Counted \/ g < k
    <3>1. CASE g = k
      BY <1>5, <2>2, <3>1 DEF Pending
    <3>2. CASE g # k
      BY <2>1, <2>2, <3>2
    <3> QED BY <3>1, <3>2
  <2> QED BY <1>4, <1>5, <2>1, <2>2, <2>3 DEF Placed
<1>7. PICK a : a = mem[p].evts[k] /\ a \in Seq(Event) /\ Increasing(a) /\ UpTo(a, sent)
  <2>1. mem[p].evts[k] \in Seq(Event)
    BY <1>4, MemCounts DEF IsChain
  <2>2. Increasing(mem[p].evts[k]) /\ UpTo(mem[p].evts[k], sent)
    BY <1>4 DEF Sorted, Each
  <2> QED BY <2>1, <2>2
<1>8. PICK b : b = Append(a, e) /\ mem'[p].evts = [mem[p].evts EXCEPT ![k] = b]
  BY <1>3, <1>7
<1>9. \A i \in DOMAIN b : (i \in DOMAIN a /\ b[i] = a[i]) \/ (i = Len(a) + 1 /\ b[i] = e)
  BY <1>3, <1>7, <1>8, AppendProperties, LenProperties
<1>10. DOMAIN a = 1..Len(a) /\ Len(a) \in Nat /\ \A i \in DOMAIN a : a[i].msg \in Nat /\ a[i].msg <= sent
  BY <1>7, EventNumbers DEF UpTo
<1>11. Increasing(b) /\ UpTo(b, sent')
  <2>1. DOMAIN b = 1..(Len(a) + 1)
    BY <1>3, <1>7, <1>8, AppendProperties, LenProperties
  <2>2. \A i \in DOMAIN b : b[i].msg <= sent'
    BY <1>2, <1>3, <1>9, <1>10
  <2>3. ASSUME NEW i \in DOMAIN b, NEW j \in DOMAIN b, i < j PROVE b[i].msg < b[j].msg
    <3>1. i \in DOMAIN a /\ b[i] = a[i]
      BY <1>9, <1>10, <2>1, <2>3
    <3>2. CASE j \in DOMAIN a /\ b[j] = a[j]
      BY <1>7, <2>3, <3>1, <3>2 DEF Increasing
    <3>3. CASE b[j] = e
      BY <1>2, <1>3, <1>10, <3>1, <3>3
    <3> QED BY <1>9, <3>2, <3>3
  <2> QED BY <2>2, <2>3 DEF Increasing, UpTo
<1>12. ASSUME NEW c \in Seq(Event), UpTo(c, sent), Before(c, a) PROVE Before(c, b)
  <2> SUFFICES ASSUME NEW i \in DOMAIN c, NEW j \in DOMAIN b PROVE c[i].msg < b[j].msg
    BY DEF Before
  <2>1. c[i].msg \in Nat /\ c[i].msg <= sent
    BY <1>12, EventNumbers DEF UpTo
  <2>2. CASE j \in DOMAIN a /\ b[j] = a[j]
    BY <1>12, <2>2 DEF Before
  <2>3. CASE b[j] = e
    BY <1>2, <1>3, <2>1, <2>3
  <2> QED BY <1>9, <2>2, <2>3
<1>13. \A f \in DOMAIN mem'[p].evts :
          /\ f \in DOMAIN mem[p].evts /\ f <= k
          /\ mem'[p].evts[f] = IF f = k THEN b ELSE mem[p].evts[f]
  BY <1>4, <1>8, MemCounts
<1>14. Each(p)'
  <2>1. ASSUME NEW c \in Seq(Event), UpTo(c, sent) PROVE UpTo(c, sent')
    BY <1>2, <2>1, EventNumbers DEF UpTo
  <2>2. ASSUME NEW g \in Files, disk.md[g] # Unreadable PROVE UpTo(disk.md[g].evts, sent')
    <3>1. disk.md[g].evts \in Seq(Event)
      BY <2>2 DEF Files, IInv, DiskType, File
    <3>2. UpTo(disk.md[g].evts, sent)
      BY <2>2 DEF Sorted, Each
    <3> QED BY <2>1, <3>1, <3>2
  <2>3. ASSUME NEW f \in DOMAIN mem[p].evts PROVE UpTo(mem[p].evts[f], sent')
    <3>1. mem[p].evts[f] \in Seq(Event)
      BY MemCounts DEF IsChain
    <3>2. UpTo(mem[p].evts[f], sent)
      BY DEF Sorted, Each
    <3> QED BY <2>1, <3>1, <3>2
  <2> QED BY <1>2, <1>11, <1>13, <2>2, <2>3 DEF Sorted, Each
<1>15. Across(p)'
  <2>1. ASSUME NEW f \in DOMAIN mem'[p].evts, NEW g \in DOMAIN mem'[p].evts, f < g
        PROVE  Before(mem'[p].evts[f], mem'[p].evts[g])
    <3>1. f # k /\ Before(mem[p].evts[f], mem[p].evts[g]) /\ UpTo(mem[p].evts[f], sent)
      BY <1>13, <2>1, MemCounts DEF Sorted, Across, Each
    <3>2. mem[p].evts[f] \in Seq(Event)
      BY <1>13, MemCounts DEF IsChain
    <3> QED BY <1>7, <1>12, <1>13, <3>1, <3>2
  <2>2. ASSUME NEW f \in DOMAIN mem'[p].evts, NEW g \in Files, Placed(p, g)'
        PROVE  /\ f < g => Before(mem'[p].evts[f], disk'.md[g].evts)
               /\ g < f => Before(disk'.md[g].evts, mem'[p].evts[f])
    <3>1. /\ f < g => Before(mem[p].evts[f], disk.md[g].evts)
          /\ g < f => Before(disk.md[g].evts, mem[p].evts[f])
          /\ UpTo(disk.md[g].evts, sent)
      BY <1>6, <1>13, <2>2 DEF Sorted, Across, Each, Placed
    <3>2. f < g => f # k
      BY <1>6, <2>2 DEF Files
    <3>3. disk.md[g].evts \in Seq(Event)
      BY <1>6, <2>2 DEF Placed, Files, IInv, DiskType, File
    <3> QED BY <1>2, <1>7, <1>12, <1>13, <3>1, <3>2, <3>3
  <2>3. \A g, h \in Files :
          Placed(p, g)' /\ Placed(p, h)' /\ g < h => Before(disk'.md[g].evts, disk'.md[h].evts)
    BY <1>2, <1>6 DEF Sorted, Across
  <2> QED BY <2>1, <2>2, <2>3 DEF Across
<1>16. Naming(p)'
  <2>1. \A i \in DOMAIN writes'[p] : writes'[p][i] = 0 => i = Len(writes'[p])
    BY <1>2, <1>4
  <2>2. \A f \in 1..(mem[p].meta.count - 1) : ~Pending(p, f)'
    <3> SUFFICES ASSUME NEW f \in 1..(mem[p].meta.count - 1), NEW i \in DOMAIN writes'[p]
                 PROVE  writes'[p][i] # f
      BY DEF Pending
    <3>1. DOMAIN <<k, 0>> = 1..2 /\ <<k, 0>>[1] = k /\ <<k, 0>>[2] = 0
      OBVIOUS
    <3> QED BY <1>2, <1>4, <3>1
  <2> QED BY <1>2, <1>4, <2>1, <2>2 DEF Sorted, Naming
<1>17. Own(p)'
  BY OwnCalls DEF Sorted
<1> QED BY <1>14, <1>15, <1>16, <1>17 DEF Sorted

\* A seal adds a session without events, and writes it before meta.json names it.
LEMMA SealSorted ==
  ASSUME IInv, NEW p \in Procs, Mirrored, Sorted(p), SealActiveSession(p) PROVE Sorted(p)'
<1>1. PICK k \in Nat, n \in Nat : k = Old(p) /\ n = New(p)
  BY MemCounts DEF Old, New, Meta
<1>2. /\ UNCHANGED <<disk, sent, faults>> /\ Counted' = Counted
      /\ k \in DOMAIN mem[p].sess /\ writes'[p] = <<k, n, 0>> /\ writes[p] = <<>>
      /\ task'[p] # "start"
  BY <1>1 DEF SealActiveSession, Seal, Free, Counted, IInv, WriteType, RestType
<1>3. /\ mem'[p].meta = [mem[p].meta EXCEPT !.count = n, !.active = n]
      /\ mem'[p].evts = Put(mem[p].evts, n, <<>>)
  BY <1>1 DEF SealActiveSession, Seal, IInv, MemType
<1>4. /\ mem'[p].meta.count = n /\ mem'[p].meta.active = n /\ k = mem[p].meta.count /\ n = k + 1
      /\ k # 0 /\ Known(p) /\ Known(p)' /\ Counted <= k /\ Counted \in Nat
  <2>1. mem'[p].meta.count = n /\ mem'[p].meta.active = n
    BY <1>3, MemCounts DEF Meta
  <2>2. k = mem[p].meta.count /\ n = k + 1 /\ k # 0
    BY <1>1, <1>2, MemCounts DEF Old, New, Sorted, Naming
  <2>3. Known(p) /\ Known(p)'
    BY <2>1, <2>2 DEF Known
  <2> QED BY <2>1, <2>2, <2>3, MemCounts DEF Sorted, Naming
<1>5. DOMAIN <<k, n, 0>> = 1..3 /\ <<k, n, 0>>[1] = k /\ <<k, n, 0>>[2] = n /\ <<k, n, 0>>[3] = 0
      /\ Len(<<k, n, 0>>) = 3
  OBVIOUS
<1>6. /\ Pending(p, k)' /\ Pending(p, n)'
      /\ \A f : Pending(p, f)' => f \in {k, n, 0}
      /\ \A f : ~Pending(p, f)
  <2>1. (\E i \in DOMAIN writes[p] : writes[p][i] = k)' /\ (\E i \in DOMAIN writes[p] : writes[p][i] = n)'
    BY <1>2, <1>5
  <2>2. \A i \in DOMAIN writes'[p] : writes'[p][i] \in {k, n, 0}
    BY <1>2, <1>5
  <2> QED BY <1>2, <2>1, <2>2 DEF Pending
<1>7. \A f \in DOMAIN mem'[p].evts : Content(p, f, mem'[p].evts[f])
  BY <1>3 DEF Put, Content, Starts
<1>8. \A g \in Files : Placed(p, g)' => Placed(p, g)
  BY <1>2, <1>4, <1>6 DEF Placed, Files
<1>9. Each(p)' /\ Across(p)'
  <2>1. \A g \in Files : disk'.md[g] # Unreadable =>
           /\ Placed(p, g)' => Content(p, g, disk'.md[g].evts)
           /\ disk'.md[g] = disk.md[g]
    BY <1>2, <1>8 DEF Content, Starts
  <2> QED BY <1>2, <1>7, <2>1, OrderKept DEF Sorted
<1>10. Naming(p)'
  <2>1. \A i \in DOMAIN writes'[p] : writes'[p][i] = 0 => i = Len(writes'[p])
    BY <1>2, <1>4, <1>5
  <2>2. ASSUME faults.errors = 0 PROVE Counted = k
    <3>1. disk.meta = mem[p].meta
      BY <1>2, <1>4, <2>2, MirrorReads DEF Mirrored
    <3> QED BY <1>4, <3>1, MemCounts, UnreadableType DEF Counted
  <2>3. \A f \in 1..(n - 1) : Pending(p, f)' => f = k
    BY <1>4, <1>6
  <2> QED BY <1>2, <1>4, <2>1, <2>2, <2>3 DEF Sorted, Naming
<1>11. Own(p)'
  BY OwnCalls DEF Sorted
<1> QED BY <1>9, <1>10, <1>11 DEF Sorted

LEMMA OrderedStep ==
  IInv /\ Mirrored /\ Ordered /\ (\E p \in Procs : Alone(p)) /\ [Next]_vars => Ordered'
<1> SUFFICES ASSUME IInv, Mirrored, Ordered, NEW p \in Procs, Procs = {p}, [Next]_vars,
                    faults'.errors <= 1
             PROVE  Sorted(p)'
  BY DEF Ordered, Alone
<1>0. faults'.errors = faults.errors \/ WriteFails(p) => Sorted(p)
  <2>1. WriteFails(p) => faults'.errors >= faults.errors /\ faults.errors \in Nat
    BY DEF WriteFails, IInv, RestType
  <2>2. faults'.errors = faults.errors \/ WriteFails(p) => faults.errors <= 1
    BY <2>1 DEF WriteFails, IInv, RestType
  <2> QED BY <2>2 DEF Ordered
<1>1. ASSUME Truncate(p) PROVE Sorted(p)'
  BY <1>0, <1>1, TruncateSorted DEF Truncate
<1>2. ASSUME Store(p) PROVE Sorted(p)'
  <2>1. Sorted(p)
    BY <1>0, <1>2 DEF Store
  <2>2. Naming(p)' /\ Each(p)' /\ Across(p)'
    BY <1>2, <2>1, KnownStoreSorted, FirstStoreSorted
  <2>3. Own(p)'
    BY <1>2, <2>1, OwnFiles DEF Sorted
  <2> QED BY <2>2, <2>3 DEF Sorted
<1>3. ASSUME WriteFails(p) PROVE Sorted(p)'
  BY <1>0, <1>3, FailsSorted
<1>4. ASSUME LoadFromDisk(p) \/ ReloadThread(p) \/ ReadSession(p) \/ EndLoad(p) PROVE Sorted(p)'
  <2>1. faults' = faults
    BY <1>4 DEF LoadFromDisk, ReloadThread, Load, ReadSession, EndLoad
  <2> QED BY <1>0, <1>4, <2>1, LoadsSorted
<1>5. ASSUME DeleteChain(p) \/ Crash(p) PROVE Sorted(p)'
  <2>1. faults'.errors = faults.errors
    BY <1>5 DEF DeleteChain, Crash, IInv, RestType
  <2> QED BY <1>0, <1>5, <2>1, EndsSorted
<1>6. ASSUME AppendEvent(p) PROVE Sorted(p)'
  BY <1>0, <1>6, AppendSorted DEF AppendEvent
<1>7. ASSUME SealActiveSession(p) PROVE Sorted(p)'
  BY <1>0, <1>7, SealSorted DEF SealActiveSession, Seal
<1>8. ASSUME \/ GetOrCreateChain(p) \/ EnsureChain(p) \/ EnsureAgain(p)
             \/ TaskFails(p) \/ CheckAndSeal(p) \/ SealRefused(p)
      PROVE  Sorted(p)'
  <2>1. faults' = faults
    BY <1>8 DEF GetOrCreateChain, EnsureChain, EnsureAgain, Ensure, TaskFails, CheckAndSeal, SealRefused
  <2> QED BY <1>0, <1>8, <2>1, TasksSorted
<1>9. ASSUME UNCHANGED vars PROVE Sorted(p)'
  <2>1. Sorted(p)
    BY <1>0, <1>9 DEF vars
  <2>2. Half(p)'
    BY <1>9, <2>1, SameHalf DEF vars, Sorted, Own
  <2> QED BY <1>9, <2>1, <2>2 DEF vars, Sorted, Own, Naming, Each, Across, Placed, Known, Pending, Counted
<1>10. ASSUME WritePart(p) PROVE Sorted(p)'
  BY <1>0, <1>10, PartSorted DEF WritePart
<1> QED
  BY <1>10, <1>1, <1>2, <1>3, <1>4, <1>5, <1>6, <1>7, <1>8, <1>9 DEF Next, Procs

LEMMA InitOrdered == Init => Mirrored /\ Ordered
<1> SUFFICES ASSUME Init PROVE Mirrored /\ Ordered
  OBVIOUS
<1>1. Mirrored
  BY DEF Init, Mirrored, Mirror, Half, Known, None, NotLoading, NoFiles
<1>2. ASSUME NEW p \in Procs PROVE Sorted(p)
  <2>1. /\ mem[p] = None /\ writes[p] = <<>> /\ open[p] = "no" /\ ~loading[p].on
        /\ task[p] = "idle" /\ disk.meta = Unreadable
        /\ \A g \in Files : disk.md[g] = Unreadable
    BY DEF Init, NotLoading, NoFiles, Files
  <2>2. Counted = 0 /\ \A g \in Files : ~Placed(p, g)
    BY <2>1 DEF Counted, Placed
  <2> QED BY <2>1, <2>2, NoneIsChain DEF Sorted, Own, Half, Naming, Each, Across, Known
<1> QED BY <1>1, <1>2 DEF Ordered

\* Whatever a process that is alone with its directory loses to crashes and to one
\* failed write, what it has in memory is in the order in which it was sent.
THEOREM MessagesInOrder == Spec => []AppendOrder
<1>1. CASE Procs = {Main}
  <2>1. Init => Mirrored /\ Ordered
    BY InitOrdered
  <2>2. IInv /\ Mirrored /\ [Next]_vars => Mirrored'
    BY <1>1, MirroredStep DEF Alone
  <2>3. IInv /\ Mirrored /\ Ordered /\ [Next]_vars => Ordered'
    BY <1>1, OrderedStep DEF Alone
  <2>4. IInv /\ Ordered => AppendOrder
    <3> SUFFICES ASSUME IInv, Ordered, faults.errors <= 1, Main \in Procs,
                        NEW s \in DOMAIN mem[Main].evts, NEW t \in DOMAIN mem[Main].evts,
                        NEW i \in DOMAIN mem[Main].evts[s], NEW j \in DOMAIN mem[Main].evts[t],
                        s < t \/ (s = t /\ i < j)
                 PROVE  mem[Main].evts[s][i].msg < mem[Main].evts[t][j].msg
      BY <1>1 DEF AppendOrder
    <3>1. Sorted(Main)
      BY DEF Ordered
    <3> QED BY <3>1 DEF Sorted, Each, Across, Increasing, Before
  <2> QED BY <2>1, <2>2, <2>3, <2>4, Invariance, PTL DEF Spec
<1>2. CASE Procs # {Main}
  <2>1. AppendOrder
    BY <1>2 DEF AppendOrder
  <2> QED BY <2>1, PTL
<1> QED BY <1>1, <1>2

-----------------------------------------------------------------------------
(* What the disk keeps while a method is between two files, or in one.     *)

Keeps(p) == Known(p) => Recoverable(p)

\* Between two methods the files are the memory.
Settled == \A p \in Procs : IInv /\ Mirror(p) /\ writes[p] = <<>> => Keeps(p)

LEMMA SettledKeeps == Settled
<1> SUFFICES ASSUME NEW p \in Procs, IInv, Mirror(p), writes[p] = <<>>, Known(p)
             PROVE  Recoverable(p)
  BY DEF Settled, Keeps
<1>1. \A f \in {0} \cup DOMAIN mem[p].sess : FileOn(f) = Image(p, f)
  BY DEF Mirror, Kept, Pending
<1>2. disk.meta = mem[p].meta /\ disk.meta # Unreadable
  BY <1>1, UnreadableType, MemCounts DEF FileOn, Image
<1>3. ASSUME NEW s \in DOMAIN mem[p].evts
      PROVE  /\ disk.md[s].evts = mem[p].evts[s]
             /\ disk.md[s] # Unreadable /\ s <= disk.meta.count
  <2>1. s \in DOMAIN mem[p].sess /\ s \in 1..mem[p].meta.count
    BY MemCounts
  <2>2. disk.md[s] = [rec |-> mem[p].sess[s], evts |-> mem[p].evts[s]]
    BY <1>1, <2>1, MemCounts DEF FileOn, Image
  <2>3. mem[p].sess[s] \in Record /\ mem[p].evts[s] \in Seq(Event)
    BY <2>1, MemCounts DEF IsChain
  <2> QED BY <1>2, <2>1, <2>2, <2>3, MemCounts, UnreadableType
<1> QED BY <1>2, <1>3 DEF Recoverable, Named

LEMMA SettledAfter == Settled'
BY SettledKeeps, PTL

\* The last file that is written before the chain is in memory.
LEMMA FirstStore ==
  ASSUME IInv, NEW p \in Procs, Store(p), ~Known(p), Known(p)' PROVE writes'[p] = <<>>
<1>1. Len(writes[p]) = 1
  BY DEF Store, Known
<1>2. Tail(writes[p]) = <<>>
  BY <1>1, TailType DEF Store, IInv, WriteType
<1> QED BY <1>2 DEF Store, IInv, WriteType

\* Only the file that is open changes; when it is meta.json, all others are written.
LEMMA KeepsFile ==
  ASSUME IInv, NEW p \in Procs, Mirror(p), Naming(p), Keeps(p), IInv', Mirror(p)',
         Truncate(p) \/ WritePart(p) \/ Store(p)
  PROVE  Keeps(p)'
<1>1. PICK g \in 0..MaxSessions : g = Head(writes[p])
  <2>1. Head(writes[p]) \in 0..MaxSessions
    BY ImageType DEF Truncate, WritePart, Store
  <2> QED BY <2>1
<1>2. writes[p] # <<>> /\ \E c : disk' = WithFile(g, c)
  <2>1. CASE Truncate(p)
    BY <1>1, <2>1 DEF Truncate
  <2>2. CASE WritePart(p)
    BY <1>1, <2>2, PartWrites DEF Mirror
  <2>3. CASE Store(p)
    BY <1>1, <2>3, StoreWrites DEF Mirror
  <2> QED BY <2>1, <2>2, <2>3
<1>3. /\ g # 0 => disk'.meta = disk.meta
      /\ \A s \in 1..MaxSessions : s # g => disk'.md[s] = disk.md[s]
  BY <1>2, WithFileReads
<1>4. CASE ~Known(p)
  <2>1. CASE Store(p)
    BY <1>4, <2>1, FirstStore, SettledAfter DEF Settled, Keeps
  <2>2. CASE Truncate(p) \/ WritePart(p)
    BY <1>4, <2>2 DEF Keeps, Known, Truncate, WritePart
  <2> QED BY <2>1, <2>2
<1>5. ASSUME Known(p), Known(p)' PROVE Recoverable(p)'
  <2>1. mem' = mem /\ Recoverable(p)
    BY <1>5 DEF Truncate, WritePart, Store, Keeps
  <2>2. DOMAIN mem[p].evts \subseteq 1..MaxSessions
    <3>1. mem[p].meta.count <= MaxSessions
      BY DEF IInv, MemType, IsChain
    <3> QED BY <3>1, MemCounts, BoundType
  <2>3. \A f : Written(p, f) => f = g
    BY <1>1 DEF Written
  <2>4. CASE Truncate(p) \/ WritePart(p)
    <3>1. writes' = writes /\ open'[p] # "no"
      BY <2>4 DEF Truncate, WritePart, IInv, WriteType
    <3>2. Written(p, g)'
      BY <1>1, <1>2, <3>1 DEF Written
    <3>3. CASE g # 0
      BY <1>3, <2>1, <2>2, <2>3, <3>2, <3>3 DEF Recoverable, Named
    <3>4. CASE g = 0
      <4>1. \A s \in DOMAIN mem[p].evts : disk.md[s] = [rec |-> mem[p].sess[s], evts |-> mem[p].evts[s]]
        <5>1. \A f : Pending(p, f) => f = 0
          BY <1>1, <1>2, <1>5, <3>4, MetaLast
        <5> QED BY <1>5, <5>1, MemCounts DEF Mirror, Kept, FileOn, Image
      <4>2. ASSUME NEW s \in DOMAIN mem[p].evts
            PROVE  disk'.md[s].evts = mem[p].evts[s] /\ disk'.md[s] # Unreadable
        <5>1. mem[p].sess[s] \in Record /\ mem[p].evts[s] \in Seq(Event)
          BY MemCounts DEF IsChain
        <5>2. disk'.md[s] = disk.md[s]
          BY <1>3, <2>2, <3>4
        <5>3. disk'.md[s] = [rec |-> mem[p].sess[s], evts |-> mem[p].evts[s]]
          BY <4>1, <5>2
        <5> QED BY <5>1, <5>3, UnreadableType
      <4>3. disk'.meta = Unreadable
        BY <1>1, <2>4, <3>4 DEF Truncate, WritePart, WithFile, IInv, DiskType
      <4> QED BY <2>1, <3>2, <3>4, <4>2, <4>3 DEF Recoverable, Named
    <3> QED BY <3>3, <3>4
  <2>5. CASE Store(p)
    <3>1. writes'[p] = Tail(writes[p]) /\ disk' = WithFile(g, Image(p, g)) /\ open'[p] = "no"
      BY <1>1, <2>5, StoreWrites DEF Mirror
    <3>2. CASE g = 0
      <4>1. writes'[p] = <<>>
        BY <1>1, <1>2, <1>5, <3>1, <3>2, MetaLast
      <4> QED BY <1>5, <4>1, SettledAfter DEF Settled, Keeps
    <3>3. CASE g # 0
      <4>1. disk'.md[g] = [rec |-> mem[p].sess[g], evts |-> mem[p].evts[g]]
        BY <1>5, <3>1, <3>3, WithFileReads DEF Image
      <4>2. g \in DOMAIN mem[p].evts
        <5>1. Pending(p, g)
          BY <1>1, <1>2, <3>1, TailPending
        <5> QED BY <1>5, <3>3, <5>1, MemCounts DEF Pending, IInv, WriteType
      <4>3. disk'.md[g] # Unreadable /\ disk'.md[g].evts = mem[p].evts[g]
        <5>1. mem[p].sess[g] \in Record /\ mem[p].evts[g] \in Seq(Event)
          BY <4>2, MemCounts DEF IsChain
        <5> QED BY <4>1, <5>1, UnreadableType
      <4>4. disk'.meta = disk.meta /\ disk.meta # Unreadable
        BY <1>3, <2>1, <2>3, <3>3 DEF Recoverable
      <4> QED BY <1>3, <2>1, <2>2, <2>3, <4>3, <4>4 DEF Recoverable, Named
    <3> QED BY <3>2, <3>3
  <2> QED BY <2>4, <2>5
<1> QED BY <1>4, <1>5 DEF Keeps

LEMMA FrontOfAppend ==
  ASSUME NEW S, NEW a \in Seq(S), NEW e \in S
  PROVE  Append(a, e) # <<>> /\ Last(Append(a, e)) = e /\ Front(Append(a, e)) = a
<1> DEFINE b == Append(a, e)
<1>1. /\ b \in Seq(S) /\ b # <<>> /\ Len(b) = Len(a) + 1 /\ Len(a) \in Nat
      /\ \A i \in 1..Len(a) : b[i] = a[i]
      /\ b[Len(a) + 1] = e
  BY AppendProperties, LenProperties
<1> HIDE DEF b
<1>2. Last(b) = e
  BY <1>1 DEF Last
<1>3. Front(b) = SubSeq(b, 1, Len(a))
  BY <1>1 DEF Front
<1>4. \A i \in 1..Len(a) : b[i] \in S
  BY <1>1, ElementOfSeq
<1>5. /\ Front(b) \in Seq(S) /\ Len(Front(b)) = Len(a)
      /\ \A i \in 1..Len(a) : Front(b)[i] = a[i]
  BY <1>1, <1>3, <1>4, SubSeqProperties
<1>6. Front(b) = a
  BY <1>5, SeqEqual
<1> QED BY <1>1, <1>2, <1>6 DEF b

\* An append is missing from the file of the active session alone.
LEMMA KeepsAppend ==
  ASSUME IInv, NEW p \in Procs, Mirror(p), AppendEvent(p) PROVE Keeps(p)'
<1> DEFINE m == mem[p]
<1>1. PICK k \in Nat : k = m.meta.active
  BY MemCounts DEF Meta
<1>2. PICK e : e = [no |-> m.meta.total + 1, msg |-> sent + 1]
  OBVIOUS
<1>3. /\ disk' = disk /\ k \in DOMAIN m.evts /\ writes[p] = <<>> /\ open'[p] = "no"
      /\ mem'[p].evts = [m.evts EXCEPT ![k] = Append(m.evts[k], e)]
      /\ mem'[p].meta = [m.meta EXCEPT !.total = m.meta.total + 1]
  <2>1. open'[p] = "no"
    BY FreeHalf DEF AppendEvent, Free, Mirror
  <2>2. k \in DOMAIN m.evts
    BY <1>1, MemCounts DEF AppendEvent
  <2> QED BY <1>1, <1>2, <2>1, <2>2 DEF AppendEvent, Free, IInv, MemType
<1>4. Known(p) /\ Recoverable(p)
  <2>1. Known(p)
    BY <1>3, MemCounts
  <2> QED BY <1>3, <2>1, SettledKeeps DEF Settled, Keeps
<1>5. m.meta \in Meta /\ m.evts[k] \in Seq(Event) /\ mem'[p].meta.total = e.no /\ e \in Event
  <2>1. m.evts[k] \in Seq(Event)
    BY <1>3, MemCounts DEF IsChain
  <2>2. sent \in Nat
    BY BoundType DEF IInv, RestType
  <2> QED BY <1>2, <1>3, <2>1, <2>2, MemCounts DEF Meta, Event
<1>6. /\ disk.meta = m.meta
      /\ \A s \in DOMAIN m.evts : disk.md[s] = [rec |-> m.sess[s], evts |-> m.evts[s]]
  BY <1>3, <1>4, MirrorReads, MemCounts
<1> HIDE DEF m
<1>7. mem'[p].evts[k] # <<>> /\ Last(mem'[p].evts[k]) = e /\ Front(mem'[p].evts[k]) = m.evts[k]
  <2>1. mem'[p].evts[k] = Append(m.evts[k], e)
    BY <1>3
  <2> QED BY <1>5, <2>1, FrontOfAppend
<1>8. disk.meta # Unreadable /\ \A s \in DOMAIN m.evts : Named(s) /\ disk.md[s] # Unreadable
  <2>1. disk.meta # Unreadable
    BY <1>5, <1>6, UnreadableType
  <2>2. ASSUME NEW s \in DOMAIN m.evts PROVE Named(s) /\ disk.md[s] # Unreadable
    <3>1. /\ s \in 1..m.meta.count /\ disk.meta = m.meta
          /\ m.sess[s] \in Record /\ m.evts[s] \in Seq(Event)
      <4>1. s \in DOMAIN m.sess /\ s \in 1..m.meta.count
        BY <2>2, MemCounts DEF m
      <4>2. m.sess[s] \in Record /\ m.evts[s] \in Seq(Event)
        BY <2>2, <4>1, MemCounts DEF IsChain, m
      <4> QED BY <1>6, <4>1, <4>2
    <3>2. disk.md[s] = [rec |-> m.sess[s], evts |-> m.evts[s]]
      BY <1>6
    <3> QED BY <3>1, <3>2, UnreadableType DEF Named
  <2> QED BY <2>1, <2>2
<1>9. ASSUME NEW s \in DOMAIN mem'[p].evts
      PROVE  /\ Named(s)' /\ disk'.md[s] # Unreadable
             /\ \/ disk'.md[s].evts = mem'[p].evts[s]
                \/ /\ mem'[p].evts[s] # <<>> /\ Last(mem'[p].evts[s]).no = mem'[p].meta.total
                   /\ disk'.md[s].evts = Front(mem'[p].evts[s])
  <2>1. s \in DOMAIN m.evts
    BY <1>3, <1>9
  <2>2. Named(s)' /\ disk'.md[s] # Unreadable /\ disk'.md[s].evts = m.evts[s]
    <3>1. disk' = disk /\ disk.md[s] = [rec |-> m.sess[s], evts |-> m.evts[s]]
      BY <1>3, <1>6, <2>1
    <3>2. Named(s) /\ disk.md[s] # Unreadable
      BY <1>8, <2>1
    <3>3. disk.md[s].evts = m.evts[s]
      BY <3>1
    <3> QED BY <3>1, <3>2, <3>3 DEF Named
  <2>3. CASE s = k
    BY <1>5, <1>7, <2>2, <2>3
  <2>4. CASE s # k
    BY <1>3, <2>1, <2>2, <2>4
  <2> QED BY <2>2, <2>3, <2>4
<1>10. Recoverable(p)'
  BY <1>3, <1>8, <1>9 DEF Recoverable
<1> QED BY <1>10 DEF Keeps

\* A sealed session has its events on the disk, and the new one has none; meta.json
\* does not name it yet.
LEMMA KeepsSeal ==
  ASSUME IInv, NEW p \in Procs, Mirror(p), SealActiveSession(p) PROVE Keeps(p)'
<1> DEFINE m == mem[p]
<1>1. PICK n \in Nat : n = New(p)
  BY MemCounts DEF New
<1>2. /\ disk' = disk /\ writes[p] = <<>> /\ open'[p] = "no"
      /\ mem'[p].evts = Put(m.evts, n, <<>>)
      /\ DOMAIN m.sess # {}
  <2>1. open'[p] = "no"
    BY FreeHalf DEF SealActiveSession, Seal, Free, Mirror
  <2> QED BY <1>1, <2>1 DEF SealActiveSession, Seal, Free, IInv, MemType
<1>3. Known(p) /\ Recoverable(p)
  <2>1. Known(p)
    BY <1>2, MemCounts
  <2> QED BY <1>2, <2>1, SettledKeeps DEF Settled, Keeps
<1>4. /\ disk.meta = m.meta /\ disk.meta # Unreadable
      /\ \A s \in DOMAIN m.evts : disk.md[s] = [rec |-> m.sess[s], evts |-> m.evts[s]]
  BY <1>2, <1>3, MirrorReads, MemCounts, UnreadableType
<1> HIDE DEF m
<1>5. DOMAIN mem'[p].evts = DOMAIN m.evts \cup {n} /\ mem'[p].evts[n] = <<>>
      /\ \A s \in DOMAIN m.evts : s # n => mem'[p].evts[s] = m.evts[s]
  BY <1>2 DEF Put
<1>6. ASSUME NEW s \in DOMAIN m.evts, s # n
      PROVE  Named(s) /\ disk.md[s] # Unreadable /\ disk.md[s].evts = mem'[p].evts[s]
  <2>1. /\ s \in 1..m.meta.count /\ disk.meta = m.meta
        /\ m.sess[s] \in Record /\ m.evts[s] \in Seq(Event)
    <3>1. s \in DOMAIN m.sess /\ s \in 1..m.meta.count
      BY <1>6, MemCounts DEF m
    <3>2. m.sess[s] \in Record /\ m.evts[s] \in Seq(Event)
      BY <1>6, <3>1, MemCounts DEF IsChain, m
    <3> QED BY <1>4, <3>1, <3>2
  <2>2. disk.md[s] = [rec |-> m.sess[s], evts |-> m.evts[s]]
    BY <1>4, <1>6
  <2> QED BY <1>5, <1>6, <2>1, <2>2, UnreadableType DEF Named
<1>7. ~Named(n)
  BY <1>1, <1>4, MemCounts DEF Named, New, m
<1>8. Recoverable(p)'
  BY <1>2, <1>4, <1>5, <1>6, <1>7 DEF Recoverable, Named
<1> QED BY <1>8 DEF Keeps

\* Steps that leave the files as they are.
LEMMA KeepsSame ==
  ASSUME NEW p \in Procs, Keeps(p), UNCHANGED <<mem, disk, writes, open>> PROVE Keeps(p)'
BY DEF Keeps, Known, Recoverable, Written, Named

Loss == faults.errors = 0 => \A p \in Procs : Keeps(p)

LEMMA LossStep ==
  IInv /\ Mirrored /\ Ordered /\ Loss /\ IInv' /\ Mirrored' /\ (\E p \in Procs : Alone(p)) /\ [Next]_vars
    => Loss'
<1> SUFFICES ASSUME IInv, Mirrored, Ordered, Loss, IInv', Mirrored', NEW p \in Procs, Procs = {p},
                    [Next]_vars, faults'.errors = 0
             PROVE  Keeps(p)'
  BY DEF Loss, Alone
<1>0. /\ Mirror(p)'
      /\ faults'.errors = faults.errors => Mirror(p) /\ Keeps(p) /\ Naming(p)
      /\ faults \in [deletes : Nat, crashes : Nat, errors : Nat]
  BY DEF Mirrored, Loss, Ordered, Sorted, IInv, RestType
<1>1. ASSUME Truncate(p) \/ WritePart(p) \/ Store(p) PROVE Keeps(p)'
  <2>1. faults' = faults
    BY <1>1 DEF Truncate, WritePart, Store
  <2> QED BY <1>0, <1>1, <2>1, KeepsFile
<1>2. ASSUME AppendEvent(p) PROVE Keeps(p)'
  BY <1>0, <1>2, KeepsAppend DEF AppendEvent
<1>3. ASSUME SealActiveSession(p) PROVE Keeps(p)'
  BY <1>0, <1>3, KeepsSeal DEF SealActiveSession, Seal
<1>4. ASSUME WriteFails(p) \/ EndLoad(p) PROVE Keeps(p)'
  <2>1. writes'[p] = <<>>
    BY <1>4 DEF WriteFails, EndLoad, IInv, WriteType, LoadType
  <2> QED BY <1>0, <2>1, SettledAfter DEF Settled
<1>5. ASSUME Crash(p) \/ DeleteChain(p) PROVE Keeps(p)'
  BY <1>5 DEF Crash, DeleteChain, IInv, MemType, Keeps, Known, None
<1>6. ASSUME NEW from, NEW then, Load(p, from, then) PROVE Keeps(p)'
  <2>1. UNCHANGED <<mem, disk, writes, open, faults>>
    BY <1>6 DEF Load
  <2> QED BY <1>0, <2>1, KeepsSame
<1>7. ASSUME \/ ReadSession(p) \/ CheckAndSeal(p) \/ SealRefused(p) \/ TaskFails(p) \/ UNCHANGED vars
      PROVE  Keeps(p)'
  <2>1. UNCHANGED <<mem, disk, writes, open, faults>>
    BY <1>7 DEF ReadSession, CheckAndSeal, SealRefused, TaskFails, vars
  <2> QED BY <1>0, <2>1, KeepsSame
<1>8. ASSUME GetOrCreateChain(p) PROVE Keeps(p)'
  BY <1>8 DEF GetOrCreateChain, Create, Keeps, Known
<1>9. ASSUME NEW from, NEW then, Ensure(p, from, then) PROVE Keeps(p)'
  <2>1. CASE Known(p)
    <3>1. UNCHANGED <<mem, disk, writes, open, faults>>
      BY <1>9, <2>1 DEF Ensure, Create
    <3> QED BY <1>0, <3>1, KeepsSame
  <2>2. CASE ~Known(p)
    BY <1>9, <2>2 DEF Ensure, Keeps, Known
  <2> QED BY <2>1, <2>2
<1> QED
  BY <1>1, <1>2, <1>3, <1>4, <1>5, <1>6, <1>7, <1>8, <1>9
  DEF Next, Procs, LoadFromDisk, ReloadThread, EnsureChain, EnsureAgain

\* A process that has the directory to itself loses, wherever it dies, the session
\* whose file it was writing and the event it was appending, and no more; between two
\* methods nothing, wherever it died before.
THEOREM LossesAreBounded ==
  ASSUME NEW p \in Procs, Alone(p) PROVE Spec => []LossIsBounded
<1>1. Init => Mirrored /\ Ordered /\ Loss
  <2>1. Init => Loss
    BY NoneIsChain DEF Init, Loss, Keeps, Known
  <2> QED BY <2>1, InitOrdered
<1>2. IInv /\ Mirrored /\ [Next]_vars => Mirrored'
  BY MirroredStep
<1>3. IInv /\ Mirrored /\ Ordered /\ [Next]_vars => Ordered'
  BY OrderedStep
<1>4. IInv /\ Mirrored /\ Ordered /\ Loss /\ IInv' /\ Mirrored' /\ [Next]_vars => Loss'
  BY LossStep
<1>5. IInv /\ Mirrored /\ Loss => LossIsBounded
  BY MirroredIsEnough DEF AtRest, Loss, Keeps, LossIsBounded
<1> QED BY <1>1, <1>2, <1>3, <1>4, <1>5, Invariance, PTL DEF Spec
=============================================================================
