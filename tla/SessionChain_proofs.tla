------------------------ MODULE SessionChain_proofs -------------------------
(***************************************************************************)
(* Proofs about SessionChain, for any agents, callers, thresholds, token   *)
(* estimates and bounds.                                                   *)
(*                                                                         *)
(* None of the safety properties is inductive by itself: that event        *)
(* numbers are unique needs the ranges [start, end] of the session records *)
(* to tile 1..TotalEvents in session order, and that needs the newest      *)
(* session to be the active one.  IInv below is the conjunction that is.   *)
(***************************************************************************)
EXTENDS SessionChain, TLAPS

Sids == 1..meta.count

\* The newest session is the active one, and the only one with that status.
Whole ==
  /\ meta.active = meta.count
  /\ meta.count = 0 => meta.total = 0
  /\ \A s \in Sids : sess[s].status = "active" <=> s = meta.count

\* A record counts its events, and the ranges [start, end] of the records
\* follow each other up to TotalEvents.
Tiled ==
  /\ \A s \in Sids : /\ sess[s].start >= 1
                     /\ sess[s].count = Len(evts[s])
                     /\ sess[s].end = sess[s].start + sess[s].count - 1
                     /\ sess[s].end <= meta.total
  /\ \A s, t \in Sids : s < t => sess[s].end < sess[t].start
  /\ meta.count > 0 => sess[meta.count].end = meta.total
  /\ \A n \in 1..meta.total :
       \E s \in Sids : sess[s].start <= n /\ n <= sess[s].end

\* The i-th event of a session has the i-th number of its range.
Numbered ==
  \A s \in Sids : \A i \in 1..Len(evts[s]) : evts[s][i].no = sess[s].start + i - 1

\* A captured position lies in its session or at the end of the one before.
Placed(v) == v.own => /\ v.sid \in Sids
                      /\ sess[v.sid].start <= v.no + 1

JobOK(j) == j.own => /\ j.sid \in Sids
                     /\ sess[j.sid].status # "active"
                     /\ j.seen = Len(evts[j.sid])

Captures ==
  /\ \A a \in Agents : Placed(cursors[a]) /\ Placed(views[a])
  /\ \A c \in Compressors : JobOK(jobs[c])

IInv == TypeOK /\ Whole /\ Tiled /\ Numbered /\ Captures

USE DEF Meta, FirstMeta, NoChain

LEMMA InitIInv == Init => IInv
<1> SUFFICES ASSUME Init PROVE IInv
  OBVIOUS
<1> USE DEF Init, NoChain, NoCursor, NoJob, NoView
<1>1. TypeOK
  BY DEF TypeOK, Captured
<1>2. Whole /\ Tiled /\ Numbered
  BY DEF Whole, Tiled, Numbered, Sids
<1>3. Captures
  BY DEF Captures, Placed, JobOK
<1> QED BY <1>1, <1>2, <1>3 DEF IInv

LEMMA CreateStep == IInv /\ GetOrCreateChain => IInv'
<1> SUFFICES ASSUME IInv, GetOrCreateChain PROVE IInv'
  OBVIOUS
<1> USE DEF GetOrCreateChain, Exists, FirstMeta, Meta
<1>0. meta.count = 0
  BY DEF IInv, TypeOK
<1>1. /\ meta' = FirstMeta
      /\ sess' = [s \in 1..1 |-> NewSession(0)]
      /\ evts' = [s \in 1..1 |-> <<>>]
  BY DEF Put
<1>2. NewSession(0) \in Record
  BY DEF NewSession, Record
<1>3. TypeOK'
  BY <1>1, <1>2 DEF IInv, TypeOK
<1>4. Whole'
  BY <1>1 DEF Whole, Sids, NewSession
<1>5. Tiled' /\ Numbered'
  BY <1>1 DEF Tiled, Numbered, Sids, NewSession
<1>6. Captures'
  BY <1>0 DEF IInv, Captures, Placed, JobOK, Sids
<1> QED BY <1>3, <1>4, <1>5, <1>6 DEF IInv

LEMMA DeleteStep == IInv /\ DeleteChain => IInv'
<1> SUFFICES ASSUME IInv, DeleteChain PROVE IInv'
  OBVIOUS
<1> USE DEF DeleteChain, NoChain
<1>1. TypeOK'
  <2>1. TypeOK /\ meta'.count = 0
    BY DEF IInv
  <2>2. /\ cursors' \in [Agents -> Captured]
        /\ views' \in [Agents -> Captured]
        /\ jobs' \in [Compressors -> [sid : Nat, seen : Nat, own : BOOLEAN]]
    BY <2>1 DEF TypeOK, Captured
  <2>3. /\ sess' \in [1..meta'.count -> Record]
        /\ evts' \in [1..meta'.count -> Seq(Event)]
    BY <2>1
  <2> QED BY <2>1, <2>2, <2>3 DEF TypeOK
<1>2. Whole' /\ Tiled' /\ Numbered'
  BY DEF Whole, Tiled, Numbered, Sids
<1>3. Captures'
  BY DEF IInv, TypeOK, Captured, Captures, Placed, JobOK
<1> QED BY <1>1, <1>2, <1>3 DEF IInv

LEMMA AppendStep == IInv /\ AppendEvent => IInv'
<1> SUFFICES ASSUME IInv, AppendEvent PROVE IInv'
  OBVIOUS
<1> DEFINE k == meta.active
           n == meta.total + 1
           w == EstimateTokens(sent + 1)
           r == sess[k]
           q == WithEvent(r, n, w)
           e == [no |-> n, msg |-> sent + 1]
<1>t. TypeOK
  BY DEF IInv
<1>w. w \in Nat
  <2>1. sent + 1 \in 1..MaxMessages
    BY <1>t, BoundType DEF AppendEvent, TypeOK
  <2> QED BY <2>1, EstimateType
<1>k. k \in Nat /\ k \in 1..k /\ k = meta.count /\ r \in Record /\ evts[k] \in Seq(Event) /\ n \in Nat
  BY <1>t DEF IInv, TypeOK, Whole, AppendEvent
<1>1. /\ meta' = [meta EXCEPT !.total = n]
      /\ sess' = [sess EXCEPT ![k] = q]
      /\ evts' = [evts EXCEPT ![k] = Append(evts[k], e)]
      /\ UNCHANGED <<cursors, sealing, jobs, views, deletes>>
      /\ sent' = sent + 1
  BY <1>k DEF AppendEvent
<1>2. meta'.count = k /\ meta'.active = k /\ meta'.total = n
  BY <1>1, <1>k, <1>t DEF TypeOK
<1>r. /\ q \in Record
      /\ q.status = r.status /\ q.start = r.start
      /\ q.count = r.count + 1 /\ q.end = n
  <2>1. r.count + 1 \in Nat /\ r.tokens + w \in Nat
    BY <1>k, <1>w DEF Record
  <2> QED BY <2>1, <1>k DEF Record, WithEvent
<1>e. e \in Event
  BY <1>k, <1>t DEF Event, TypeOK
<1>3. TypeOK'
  <2>1. meta' \in Meta
    BY <1>1, <1>k, <1>t DEF TypeOK
  <2>2. sess' \in [1..k -> Record]
    BY <1>1, <1>r, <1>k, <1>t DEF TypeOK
  <2>3. evts' \in [1..k -> Seq(Event)]
    <3>1. Append(evts[k], e) \in Seq(Event)
      BY <1>k, <1>e
    <3> QED BY <3>1, <1>1, <1>k, <1>t DEF TypeOK
  <2> QED BY <2>1, <2>2, <2>3, <1>1, <1>2, <1>t DEF TypeOK
<1>4. /\ \A s \in 1..k : /\ sess'[s].status = sess[s].status
                         /\ sess'[s].start = sess[s].start
                         /\ s # k => sess'[s] = sess[s] /\ evts'[s] = evts[s]
      /\ sess'[k].count = r.count + 1
      /\ sess'[k].end = n
  BY <1>1, <1>k, <1>r, <1>t DEF TypeOK
<1>5. /\ Len(evts'[k]) = Len(evts[k]) + 1
      /\ \A i \in 1..Len(evts[k]) : evts'[k][i] = evts[k][i]
      /\ evts'[k][Len(evts[k]) + 1] = e
  BY <1>1, <1>k, <1>t DEF TypeOK
<1>6. Whole'
  BY <1>2, <1>4, <1>k DEF IInv, Whole, Sids
<1>7. Tiled'
  <2> HIDE DEF q, w
  <2>1. \A s \in 1..k : /\ sess'[s].start >= 1
                        /\ sess'[s].count = Len(evts'[s])
                        /\ sess'[s].end = sess'[s].start + sess'[s].count - 1
                        /\ sess'[s].end <= n
    <3> SUFFICES ASSUME NEW s \in 1..k
                 PROVE  /\ sess'[s].start >= 1
                        /\ sess'[s].count = Len(evts'[s])
                        /\ sess'[s].end = sess'[s].start + sess'[s].count - 1
                        /\ sess'[s].end <= n
      OBVIOUS
    <3>0. sess[s] \in Record /\ meta.total \in Nat
      BY <1>k, <1>t DEF TypeOK
    <3>1. /\ sess[s].start >= 1
          /\ sess[s].count = Len(evts[s])
          /\ sess[s].end = sess[s].start + sess[s].count - 1
          /\ sess[s].end <= meta.total
          /\ sess[k].end = meta.total
      BY <1>k DEF IInv, Tiled, Sids
    <3>2. CASE s # k
      <4>1. sess'[s] = sess[s] /\ evts'[s] = evts[s]
        BY <3>2, <1>4
      <4>2. sess[s].end \in Nat
        BY <3>0 DEF Record
      <4> QED BY <4>1, <4>2, <3>0, <3>1
    <3>3. CASE s = k
      <4>1. /\ sess'[s].start = r.start /\ sess'[s].count = r.count + 1
            /\ sess'[s].end = n /\ Len(evts'[s]) = Len(evts[k]) + 1
        BY <3>3, <1>4, <1>5, <1>k
      <4>2. r.start \in Nat /\ r.count \in Nat
        BY <1>k DEF Record
      <4>3. n = r.start + (r.count + 1) - 1
        <5>1. meta.total = r.start + r.count - 1
          BY <3>1, <3>3
        <5> QED BY <5>1, <4>2
      <4> QED BY <4>1, <4>2, <4>3, <3>0, <3>1, <3>3
    <3> QED BY <3>2, <3>3
  <2>2. \A s, t \in 1..k : s < t => sess'[s].end < sess'[t].start
    BY <1>4, <1>k DEF IInv, Tiled, Sids
  <2>3. \A x \in 1..n : \E s \in 1..k : sess'[s].start <= x /\ x <= sess'[s].end
    <3> SUFFICES ASSUME NEW x \in 1..n
                 PROVE  \E s \in 1..k : sess'[s].start <= x /\ x <= sess'[s].end
      OBVIOUS
    <3>1. CASE x = n
      <4>1. r.start <= n
        BY <1>k, <1>t DEF IInv, Tiled, Sids, TypeOK, Record
      <4> QED BY <3>1, <4>1, <1>4, <1>k
    <3>2. CASE x # n
      <4>1. PICK s \in 1..k : sess[s].start <= x /\ x <= sess[s].end
        BY <3>2, <1>k, <1>t DEF IInv, Tiled, Sids, TypeOK
      <4>2. CASE s = k
        BY <4>1, <4>2, <1>4, <1>k
      <4>3. CASE s # k
        BY <4>1, <4>3, <1>4
      <4> QED BY <4>2, <4>3
    <3> QED BY <3>1, <3>2
  <2> QED BY <2>1, <2>2, <2>3, <1>2, <1>4 DEF Tiled, Sids
<1>8. Numbered'
  <2> SUFFICES ASSUME NEW s \in 1..k, NEW i \in 1..Len(evts'[s])
               PROVE  evts'[s][i].no = sess'[s].start + i - 1
    <3>1. Sids' = 1..k
      BY <1>2 DEF Sids
    <3> QED BY <3>1 DEF Numbered
  <2>0. \A j \in 1..Len(evts[s]) : evts[s][j].no = sess[s].start + j - 1
    BY <1>k DEF IInv, Numbered, Sids
  <2>1. CASE s # k
    <3>1. sess'[s] = sess[s] /\ evts'[s] = evts[s]
      BY <2>1, <1>4
    <3> QED BY <3>1, <2>0
  <2>2. CASE s = k /\ i # Len(evts[k]) + 1
    <3>1. Len(evts[k]) \in Nat
      BY <1>k
    <3>2. i \in 1..Len(evts[k])
      BY <2>2, <3>1, <1>5
    <3> QED BY <2>0, <2>2, <3>2, <1>4, <1>5, <1>k
  <2>3. CASE s = k /\ i = Len(evts[k]) + 1
    <3>1. /\ sess[k].count = Len(evts[k])
          /\ sess[k].end = sess[k].start + sess[k].count - 1
          /\ sess[k].end = meta.total
      BY <1>k DEF IInv, Tiled, Sids
    <3>2. sess[k].start \in Nat /\ sess[k].count \in Nat
      BY <1>k DEF Record
    <3>3. e.no = sess[k].start + (Len(evts[k]) + 1) - 1
      BY <3>1, <3>2, <1>k
    <3> QED BY <2>3, <3>3, <1>4, <1>5, <1>k
  <2> QED BY <2>1, <2>2, <2>3
<1>9. Captures'
  BY <1>1, <1>2, <1>4, <1>k DEF IInv, Whole, Captures, Placed, JobOK, Sids
<1> QED BY <1>3, <1>6, <1>7, <1>8, <1>9 DEF IInv

LEMMA SealStep ==
  ASSUME NEW c \in Sealers, IInv, SealActiveSession(c)
  PROVE  IInv'
<1> DEFINE k == meta.active
           n == meta.count + 1
           old == [sess EXCEPT ![k].status = "compressing"]
           new == NewSession(meta.total)
<1>t. TypeOK
  BY DEF IInv
<1>k. /\ k \in Nat /\ k \in 1..k /\ k = meta.count /\ n = k + 1
      /\ meta.total \in Nat
      /\ sess \in [1..k -> Record] /\ evts \in [1..k -> Seq(Event)]
  BY <1>t DEF IInv, TypeOK, Whole, SealActiveSession
<1>1. /\ meta' = [meta EXCEPT !.count = n, !.active = n]
      /\ sess' = Put(old, n, new)
      /\ evts' = Put(evts, n, <<>>)
      /\ sealing' = sealing \ {c}
      /\ UNCHANGED <<cursors, jobs, views, sent, deletes>>
  BY DEF SealActiveSession
<1>2. meta'.count = n /\ meta'.active = n /\ meta'.total = meta.total
  BY <1>1, <1>k, <1>t DEF TypeOK
<1>d. (1..k) \cup {n} = 1..n
  BY <1>k
<1>o. /\ old \in [1..k -> Record]
      /\ \A s \in 1..k : s # k => old[s] = sess[s]
      /\ old[k].status = "compressing"
      /\ \A s \in 1..k : /\ old[s].start = sess[s].start
                         /\ old[s].end = sess[s].end
                         /\ old[s].count = sess[s].count
  BY <1>k DEF Record
<1>n. /\ new \in Record
      /\ new.status = "active" /\ new.start = meta.total + 1 /\ new.end = meta.total
      /\ new.count = 0
  BY <1>k DEF NewSession, Record
<1> HIDE DEF old, new
<1>s. sess' = [s \in 1..n |-> IF s = n THEN new ELSE old[s]]
  BY <1>1, <1>o, <1>d DEF Put
<1>e. evts' = [s \in 1..n |-> IF s = n THEN <<>> ELSE evts[s]]
  BY <1>1, <1>k, <1>d DEF Put
<1>4. /\ n \in 1..n /\ sess'[n] = new /\ evts'[n] = <<>>
      /\ \A s \in 1..n : s # n => s \in 1..k /\ sess'[s] = old[s] /\ evts'[s] = evts[s]
      /\ \A s \in 1..k : s \in 1..n /\ s # n
  BY <1>s, <1>e, <1>k
<1>3. TypeOK'
  <2>1. meta' \in Meta
    <3>1. meta \in Meta /\ n \in Nat
      BY <1>k, <1>t DEF TypeOK
    <3> QED BY <3>1, <1>1
  <2>2. sess' \in [1..n -> Record]
    BY <1>s, <1>o, <1>n, <1>k
  <2>3. evts' \in [1..n -> Seq(Event)]
    BY <1>e, <1>k
  <2> QED BY <2>1, <2>2, <2>3, <1>1, <1>2, <1>t DEF TypeOK
<1>5. Whole'
  <2>1. \A s \in 1..n : sess'[s].status = "active" <=> s = n
    BY <1>4, <1>o, <1>n, <1>k DEF IInv, Whole, Sids
  <2> QED BY <2>1, <1>2, <1>k DEF Whole, Sids
<1>6. Tiled'
  <2>1. \A s \in 1..n : /\ sess'[s].start >= 1
                        /\ sess'[s].count = Len(evts'[s])
                        /\ sess'[s].end = sess'[s].start + sess'[s].count - 1
                        /\ sess'[s].end <= meta.total
    <3> SUFFICES ASSUME NEW s \in 1..n
                 PROVE  /\ sess'[s].start >= 1
                        /\ sess'[s].count = Len(evts'[s])
                        /\ sess'[s].end = sess'[s].start + sess'[s].count - 1
                        /\ sess'[s].end <= meta.total
      OBVIOUS
    <3>1. CASE s = n
      BY <3>1, <1>4, <1>n, <1>k
    <3>2. CASE s # n
      <4>1. /\ s \in 1..k /\ evts'[s] = evts[s] /\ sess'[s].start = sess[s].start
            /\ sess'[s].count = sess[s].count /\ sess'[s].end = sess[s].end
        BY <3>2, <1>4, <1>o
      <4> QED BY <4>1, <1>k DEF IInv, Tiled, Sids
    <3> QED BY <3>1, <3>2
  <2>2. \A s, t \in 1..n : s < t => sess'[s].end < sess'[t].start
    <3> SUFFICES ASSUME NEW s \in 1..n, NEW u \in 1..n, s < u
                 PROVE  sess'[s].end < sess'[u].start
      OBVIOUS
    <3>0. s \in 1..k /\ s # n /\ sess'[s].end = sess[s].end /\ sess[s].end \in Nat
      <4>1. s # n
        BY <1>k
      <4>2. s \in 1..k /\ sess'[s] = old[s]
        BY <4>1, <1>4
      <4> QED BY <4>1, <4>2, <1>o, <1>k DEF Record
    <3>1. CASE u = n
      <4>1. sess[s].end <= meta.total
        BY <3>0, <1>k DEF IInv, Tiled, Sids
      <4> QED BY <3>0, <3>1, <4>1, <1>4, <1>n, <1>k
    <3>2. CASE u # n
      <4>1. u \in 1..k /\ sess'[u].start = sess[u].start
        BY <3>2, <1>4, <1>o
      <4> QED BY <3>0, <4>1, <1>k DEF IInv, Tiled, Sids
    <3> QED BY <3>1, <3>2
  <2>3. \A x \in 1..meta.total : \E s \in 1..n : sess'[s].start <= x /\ x <= sess'[s].end
    <3> SUFFICES ASSUME NEW x \in 1..meta.total
                 PROVE  \E s \in 1..n : sess'[s].start <= x /\ x <= sess'[s].end
      OBVIOUS
    <3>1. PICK s \in 1..k : sess[s].start <= x /\ x <= sess[s].end
      BY <1>k DEF IInv, Tiled, Sids
    <3> QED BY <3>1, <1>4, <1>o
  <2> QED BY <2>1, <2>2, <2>3, <1>2, <1>4, <1>n DEF Tiled, Sids
<1>7. Numbered'
  <2> SUFFICES ASSUME NEW s \in 1..n, NEW i \in 1..Len(evts'[s])
               PROVE  evts'[s][i].no = sess'[s].start + i - 1
    BY <1>2 DEF Numbered, Sids
  <2>1. s # n
    BY <1>4
  <2>2. s \in 1..k /\ evts'[s] = evts[s] /\ sess'[s].start = sess[s].start
    BY <2>1, <1>4, <1>o
  <2> QED BY <2>2, <1>k DEF IInv, Numbered, Sids
<1>8. Captures'
  <2>1. \A v : Placed(v) => Placed(v)'
    BY <1>2, <1>4, <1>o, <1>k DEF Placed, Sids
  <2>2. \A j : JobOK(j) => JobOK(j)'
    <3> SUFFICES ASSUME NEW j, JobOK(j), j.own
                 PROVE  /\ j.sid \in 1..n
                        /\ sess'[j.sid].status # "active"
                        /\ j.seen = Len(evts'[j.sid])
      BY <1>2 DEF JobOK, Sids
    <3>1. j.sid \in 1..k /\ sess[j.sid].status # "active" /\ j.seen = Len(evts[j.sid])
      BY <1>k DEF JobOK, Sids
    <3>2. j.sid # k
      BY <3>1, <1>k DEF IInv, Whole, Sids
    <3> QED BY <3>1, <3>2, <1>4, <1>o
  <2> QED BY <2>1, <2>2, <1>1 DEF IInv, Captures
<1> QED BY <1>3, <1>5, <1>6, <1>7, <1>8 DEF IInv

(* The actions that touch one captured position or one record.             *)

LEMMA CaptureStep ==
  ASSUME IInv,
         \/ \E c \in Sealers : CheckAndSeal(c) \/ SealRefused(c)
         \/ \E c \in Compressors : FailCompress(c)
         \/ \E c \in Compressors, s \in DOMAIN sess : StartCompress(c, s)
         \/ \E a \in Agents : GetActiveSession(a) \/ ReadEndEvent(a) \/ UpdateCursor(a)
  PROVE  IInv'
<1>t. TypeOK /\ Captures /\ meta.count \in Nat
  BY DEF IInv, TypeOK
<1>u. UNCHANGED <<meta, sess, evts>>
  BY DEF CheckAndSeal, SealRefused, FailCompress, StartCompress, GetActiveSession,
         ReadEndEvent, UpdateCursor
<1>e. ASSUME NEW s \in Sids
      PROVE  sess[s].end \in Nat /\ sess[s].start <= sess[s].end + 1
  <2> DEFINE r == sess[s]
  <2>1. r \in Record
    BY <1>e, <1>t DEF TypeOK, Sids
  <2>2. r.end = r.start + r.count - 1
    BY <1>e DEF IInv, Tiled
  <2> HIDE DEF r
  <2>3. r.end \in Nat /\ r.start <= r.end + 1
    BY <2>1, <2>2 DEF Record
  <2> QED BY <2>3 DEF r
<1>1. Whole' /\ Tiled' /\ Numbered'
  BY <1>u DEF IInv, Whole, Tiled, Numbered, Sids
<1>2. ASSUME NEW c \in Sealers, CheckAndSeal(c) \/ SealRefused(c)
      PROVE  TypeOK' /\ Captures'
  BY <1>2, <1>t DEF TypeOK, Captures, Placed, JobOK, Sids, CheckAndSeal, SealRefused
<1>3. ASSUME NEW c \in Compressors, FailCompress(c)
      PROVE  TypeOK' /\ Captures'
  BY <1>3, <1>t DEF TypeOK, Captures, Placed, JobOK, Sids, FailCompress, NoJob
<1>4. ASSUME NEW c \in Compressors, NEW s \in DOMAIN sess, StartCompress(c, s)
      PROVE  TypeOK' /\ Captures'
  <2>1. s \in Sids /\ s \in Nat /\ Len(evts[s]) \in Nat /\ sess[s].status # "active"
    BY <1>4, <1>t DEF TypeOK, Sids, StartCompress
  <2> QED BY <2>1, <1>4, <1>t DEF TypeOK, Captures, Placed, JobOK, Sids, StartCompress
<1>5. ASSUME NEW a \in Agents, GetActiveSession(a)
      PROVE  TypeOK' /\ Captures'
  <2> DEFINE s == meta.active
  <2>1. s \in Sids /\ s \in Nat /\ sess[s] \in Record
    BY <1>5, <1>t DEF TypeOK, Sids, GetActiveSession
  <2>2. sess[s].end \in Nat /\ sess[s].start <= sess[s].end + 1
    BY <2>1, <1>e
  <2> QED BY <2>1, <2>2, <1>5, <1>t
          DEF TypeOK, Captured, Captures, Placed, JobOK, Sids, GetActiveSession
<1>6. ASSUME NEW a \in Agents, UpdateCursor(a)
      PROVE  TypeOK' /\ Captures'
  BY <1>6, <1>t DEF TypeOK, Captured, Captures, Placed, JobOK, Sids, UpdateCursor, NoView
<1>7. ASSUME NEW a \in Agents, ReadEndEvent(a)
      PROVE  TypeOK' /\ Captures'
  <2> DEFINE s == views[a].sid
  <2>1. s \in Sids /\ sess[s] \in Record
    BY <1>7, <1>t DEF TypeOK, Sids, Captures, Placed, ReadEndEvent
  <2>2. sess[s].end \in Nat /\ sess[s].start <= sess[s].end + 1
    BY <2>1, <1>e
  <2> QED BY <2>1, <2>2, <1>7, <1>t
          DEF TypeOK, Captured, Captures, Placed, JobOK, Sids, ReadEndEvent
<1> QED BY <1>1, <1>2, <1>3, <1>4, <1>5, <1>6, <1>7 DEF IInv

LEMMA FinishStep ==
  ASSUME NEW c \in Compressors, IInv, FinishCompress(c)
  PROVE  IInv'
<1> DEFINE s == jobs[c].sid
<1>t. TypeOK /\ meta.count \in Nat
  BY DEF IInv, TypeOK
<1>1. /\ UNCHANGED <<meta, evts, cursors, sealing, views, sent, deletes>>
      /\ jobs' = [jobs EXCEPT ![c] = NoJob]
  BY DEF FinishCompress
<1>2. CASE ~jobs[c].own
  <2>1. sess' = sess
    BY <1>2 DEF FinishCompress
  <2> QED BY <2>1, <1>1, <1>t DEF IInv, TypeOK, Whole, Tiled, Numbered, Captures, Placed,
                                  JobOK, Sids, NoJob
<1>3. CASE jobs[c].own
  <2>1. s \in Sids /\ sess[s].status # "active"
    BY <1>3 DEF IInv, Captures, JobOK
  <2>2. sess' = [sess EXCEPT ![s].status = "sealed", ![s].summary = TRUE]
    BY <1>3 DEF FinishCompress
  <2>3. /\ sess' \in [Sids -> Record]
        /\ \A u \in Sids : /\ u # s => sess'[u] = sess[u]
                           /\ sess'[u].start = sess[u].start
                           /\ sess'[u].end = sess[u].end
                           /\ sess'[u].count = sess[u].count
        /\ sess'[s].status = "sealed"
    <3>1. sess \in [Sids -> Record]
      BY <1>t DEF TypeOK, Sids
    <3> DEFINE q == [sess[s] EXCEPT !.status = "sealed", !.summary = TRUE]
    <3>2. /\ q \in Record /\ q.status = "sealed"
          /\ q.start = sess[s].start /\ q.end = sess[s].end /\ q.count = sess[s].count
      BY <3>1, <2>1 DEF Record
    <3>3. sess' = [sess EXCEPT ![s] = q]
      BY <2>1, <2>2, <3>1
    <3> HIDE DEF q
    <3> QED BY <3>1, <3>2, <3>3, <2>1
  <2>4. TypeOK'
    BY <2>3, <1>1, <1>t DEF TypeOK, Sids, NoJob
  <2>5. Whole'
    BY <2>1, <2>3, <1>1 DEF IInv, Whole, Sids
  <2>6. Tiled'
    <3>1. Sids' = Sids /\ evts' = evts /\ meta' = meta
      BY <1>1 DEF Sids
    <3>2. meta.count > 0 => meta.count \in Sids
      BY <1>t DEF Sids
    <3> QED BY <2>3, <3>1, <3>2 DEF IInv, Tiled
  <2>8. Numbered'
    BY <2>3, <1>1 DEF IInv, Numbered, Sids
  <2>7. Captures'
    <3>1. /\ Sids' = Sids /\ evts' = evts
          /\ cursors' = cursors /\ views' = views
      BY <1>1 DEF Sids
    <3>2. \A v : Placed(v) => Placed(v)'
      BY <2>3, <3>1 DEF Placed
    <3>3. \A u \in Sids : sess[u].status # "active" => sess'[u].status # "active"
      BY <2>3
    <3>4. \A j : JobOK(j) => JobOK(j)'
      BY <3>1, <3>3 DEF JobOK
    <3>5. \A d \in Compressors : jobs'[d] = jobs[d] \/ ~jobs'[d].own
      BY <1>1, <1>t DEF TypeOK, NoJob
    <3> QED BY <3>1, <3>2, <3>4, <3>5, <1>1 DEF IInv, Captures, Placed, JobOK
  <2> QED BY <2>4, <2>5, <2>6, <2>7, <2>8 DEF IInv
<1> QED BY <1>2, <1>3

LEMMA NextIInv == IInv /\ [Next]_vars => IInv'
<1> SUFFICES ASSUME IInv, [Next]_vars PROVE IInv'
  OBVIOUS
<1>1. CASE Next
  BY <1>1, CreateStep, DeleteStep, AppendStep, SealStep, CaptureStep, FinishStep DEF Next
<1>2. CASE UNCHANGED vars
  BY <1>2 DEF vars, IInv, TypeOK, Whole, Tiled, Numbered, Captures, Placed, JobOK, Sids
<1> QED BY <1>1, <1>2

\* The inductive invariant holds in every reachable state.
THEOREM Invariance == Spec => []IInv
BY InitIInv, NextIInv, PTL DEF Spec

\* Every variable has its type; in particular the maps of sessions and events
\* hold exactly the sessions 1..SessionCount.
THEOREM TypeCorrect == Spec => []TypeOK
<1>1. IInv => TypeOK
  BY DEF IInv
<1> QED BY <1>1, Invariance, PTL

LEMMA NumberedOnceHolds == IInv => NumberedOnce
<1> SUFFICES ASSUME IInv PROVE NumberedOnce
  OBVIOUS
<1>1. /\ DOMAIN sess = Sids
      /\ \A s \in Sids : evts[s] \in Seq(Event) /\ sess[s] \in Record
      /\ meta.total \in Nat
  BY DEF IInv, TypeOK, Sids
<1>2. \A s \in Sids : DOMAIN evts[s] = 1..Len(evts[s]) /\ Len(evts[s]) \in Nat
  BY <1>1
<1>3. \A s \in Sids : /\ sess[s].start \in Nat /\ sess[s].end \in Nat
                      /\ sess[s].start >= 1
                      /\ sess[s].end = sess[s].start + Len(evts[s]) - 1
                      /\ sess[s].end <= meta.total
  BY <1>1 DEF IInv, Tiled, Record
<1>4. \A s \in Sids : \A i \in 1..Len(evts[s]) : evts[s][i].no = sess[s].start + i - 1
  BY DEF IInv, Numbered
<1>5. \A s \in Sids : \A i \in 1..Len(evts[s]) :
         evts[s][i].no >= sess[s].start /\ evts[s][i].no <= sess[s].end
  BY <1>2, <1>3, <1>4
<1>6. \A s \in Sids : \A i \in DOMAIN evts[s] : evts[s][i].no \in 1..meta.total
  <2> SUFFICES ASSUME NEW s \in Sids, NEW i \in 1..Len(evts[s])
               PROVE  evts[s][i].no \in 1..meta.total
    BY <1>2
  <2>1. evts[s][i].no = sess[s].start + i - 1
    BY <1>4
  <2>2. evts[s][i].no >= sess[s].start /\ evts[s][i].no <= sess[s].end
    BY <1>5
  <2> QED BY <2>1, <2>2, <1>1, <1>2, <1>3
<1>7. \A s, t \in Sids : \A i \in DOMAIN evts[s] : \A j \in DOMAIN evts[t] :
         evts[t][j].no = evts[s][i].no => t = s /\ j = i
  <2> SUFFICES ASSUME NEW s \in Sids, NEW t \in Sids, NEW i \in 1..Len(evts[s]),
                      NEW j \in 1..Len(evts[t]), evts[t][j].no = evts[s][i].no
               PROVE  t = s /\ j = i
    BY <1>2
  <2>0. s \in Nat /\ t \in Nat
    BY DEF Sids
  <2>1. /\ evts[s][i].no = sess[s].start + i - 1
        /\ evts[t][j].no = sess[t].start + j - 1
    BY <1>4
  <2>2. /\ evts[s][i].no >= sess[s].start /\ evts[s][i].no <= sess[s].end
        /\ evts[t][j].no >= sess[t].start /\ evts[t][j].no <= sess[t].end
    BY <1>5
  <2>3. ~(s < t) /\ ~(t < s)
    <3>1. s < t => sess[s].end < sess[t].start
      BY DEF IInv, Tiled
    <3>2. t < s => sess[t].end < sess[s].start
      BY DEF IInv, Tiled
    <3> QED BY <3>1, <3>2, <2>1, <2>2, <1>2, <1>3
  <2>4. t = s
    BY <2>0, <2>3
  <2> QED BY <2>1, <2>4, <1>2, <1>3
<1>8. \A n \in 1..meta.total : \E s \in Sids : \E i \in DOMAIN evts[s] : evts[s][i].no = n
  <2> SUFFICES ASSUME NEW n \in 1..meta.total
               PROVE  \E s \in Sids : \E i \in DOMAIN evts[s] : evts[s][i].no = n
    OBVIOUS
  <2>1. PICK s \in Sids : sess[s].start <= n /\ n <= sess[s].end
    BY DEF IInv, Tiled
  <2> DEFINE i == n - sess[s].start + 1
  <2>2. i \in 1..Len(evts[s])
    BY <2>1, <1>2, <1>3
  <2>3. evts[s][i].no = sess[s].start + i - 1
    BY <2>2, <1>4
  <2>4. sess[s].start + i - 1 = n
    BY <1>3
  <2> QED BY <2>2, <2>3, <2>4, <1>2
<1>9. ASSUME NEW n \in 1..meta.total
      PROVE  \E s \in Sids : \E i \in DOMAIN evts[s] :
               /\ evts[s][i].no = n
               /\ \A t \in Sids : \A j \in DOMAIN evts[t] :
                     evts[t][j].no = n => t = s /\ j = i
  <2>1. PICK s \in Sids : \E i \in DOMAIN evts[s] : evts[s][i].no = n
    BY <1>8
  <2>2. PICK i \in DOMAIN evts[s] : evts[s][i].no = n
    BY <2>1
  <2> QED BY <2>2, <1>7
<1> QED BY <1>1, <1>6, <1>9 DEF NumberedOnce

\* However appends, seals, compressions and cursor updates interleave, the
\* numbers 1..TotalEvents are each carried by exactly one event.
THEOREM EventNumbering == Spec => []NumberedOnce
BY NumberedOnceHolds, Invariance, PTL

\* At every moment the newest session is the only one that takes events.
THEOREM SingleActive == Spec => []OneActive
<1>1. IInv => OneActive
  BY DEF IInv, TypeOK, Whole, OneActive, Sids
<1> QED BY <1>1, Invariance, PTL

\* A summary covers its session although the compressor reads the events under
\* one lock and stores the summary under another.
THEOREM SummaryComplete == Spec => []SummaryCoversSession
<1>1. IInv => SummaryCoversSession
  BY DEF IInv, TypeOK, Captures, JobOK, SummaryCoversSession, Sids
<1> QED BY <1>1, Invariance, PTL

LEMMA NothingSkippedHolds == IInv => NothingSkipped
<1> SUFFICES ASSUME IInv, NEW a \in Agents, cursors[a].own
             PROVE  EventsAfter(cursors[a].sid, cursors[a].no)
                      = {e \in AllEvents : e.no > cursors[a].no}
  BY DEF NothingSkipped
<1> DEFINE v == cursors[a]
<1>1. /\ DOMAIN sess = Sids
      /\ \A s \in Sids : s \in Nat /\ evts[s] \in Seq(Event) /\ sess[s] \in Record
      /\ v.sid \in Nat /\ v.no \in Nat
  <2>1. TypeOK /\ meta.count \in Nat
    BY DEF IInv, TypeOK
  <2>2. v \in Captured
    BY <2>1 DEF TypeOK
  <2>3. \A s \in Sids : s \in Nat
    BY <2>1 DEF Sids
  <2> QED BY <2>1, <2>2, <2>3 DEF TypeOK, Captured, Sids
<1>2. v.sid \in Sids /\ sess[v.sid].start <= v.no + 1
  BY DEF IInv, Captures, Placed
<1>3. ASSUME NEW t \in Sids, NEW e \in EventsOf(t), e.no > v.no
      PROVE  t >= v.sid
  <2>1. PICK i \in 1..Len(evts[t]) : e = evts[t][i]
    BY <1>1 DEF EventsOf
  <2>2. /\ e.no = sess[t].start + i - 1
        /\ sess[t].end = sess[t].start + Len(evts[t]) - 1
    BY <2>1 DEF IInv, Numbered, Tiled
  <2>3. Len(evts[t]) \in Nat /\ sess[t].start \in Nat /\ sess[t].end \in Nat
        /\ sess[v.sid].start \in Nat
    BY <1>1, <1>2 DEF Record
  <2>4. t < v.sid => sess[t].end < sess[v.sid].start
    BY <1>2 DEF IInv, Tiled
  <2>5. e.no <= sess[t].end
    BY <2>2, <2>3
  <2>6. t < v.sid => e.no <= v.no
    BY <2>2, <2>3, <2>4, <2>5, <1>1, <1>2
  <2> QED BY <2>2, <2>3, <2>6, <1>1, <1>3
<1>4. EventsAfter(v.sid, v.no)
        = {e \in UNION {EventsOf(t) : t \in {u \in Sids : u >= v.sid}} : e.no > v.no}
  BY <1>1, <1>2 DEF EventsAfter
<1> QED BY <1>1, <1>3, <1>4 DEF AllEvents

\* GetEventsAfter returns everything numbered above an agent's cursor, although
\* it never looks at the sessions before the cursor's.
THEOREM CursorComplete == Spec => []NothingSkipped
BY NothingSkippedHolds, Invariance, PTL

LEMMA FrozenHolds == IInv /\ [Next]_vars => [FrozenStep]_vars
<1> SUFFICES ASSUME IInv, Next, meta'.count > 0,
                    NEW s \in DOMAIN sess, sess[s].status # "active"
             PROVE  /\ s \in DOMAIN sess'
                    /\ evts'[s] = evts[s]
                    /\ \/ sess'[s] = sess[s]
                       \/ sess'[s] = [sess[s] EXCEPT !.status = "sealed", !.summary = TRUE]
  BY DEF FrozenStep
<1>0. /\ s \in Sids /\ DOMAIN sess = Sids /\ s # meta.active /\ s \in Nat
      /\ sess \in [Sids -> Record] /\ evts \in [Sids -> Seq(Event)]
      /\ meta.count \in Nat /\ meta.active = meta.count
  BY DEF IInv, TypeOK, Whole, Sids
<1>1. CASE GetOrCreateChain
  BY <1>0, <1>1 DEF GetOrCreateChain, Exists, Sids
<1>2. CASE DeleteChain
  BY <1>2 DEF DeleteChain, NoChain
<1>3. CASE AppendEvent
  BY <1>0, <1>3 DEF AppendEvent
<1>4. ASSUME NEW c \in Sealers, SealActiveSession(c)
      PROVE  s \in DOMAIN sess' /\ evts'[s] = evts[s] /\ sess'[s] = sess[s]
  BY <1>0, <1>4 DEF SealActiveSession, Put, Sids
<1>5. ASSUME NEW c \in Compressors, FinishCompress(c)
      PROVE  /\ s \in DOMAIN sess' /\ evts'[s] = evts[s]
             /\ \/ sess'[s] = sess[s]
                \/ sess'[s] = [sess[s] EXCEPT !.status = "sealed", !.summary = TRUE]
  BY <1>0, <1>5 DEF FinishCompress
<1>6. CASE UNCHANGED <<sess, evts>>
  BY <1>6
<1> QED
  BY <1>1, <1>2, <1>3, <1>4, <1>5, <1>6
     DEF Next, CheckAndSeal, SealRefused, FailCompress, StartCompress, GetActiveSession,
         ReadEndEvent, UpdateCursor

\* No step writes to a session that has stopped being active, except to record
\* that it is sealed and has a summary.
THEOREM SealedStaysFrozen == Spec => SealedFrozen
<1>1. IInv /\ [Next]_vars => [FrozenStep]_vars
  BY FrozenHolds
<1> QED BY <1>1, Invariance, PTL DEF Spec, SealedFrozen

-----------------------------------------------------------------------------
(* One goroutine that checks, as every process has: what it saw full is    *)
(* full when it seals, because nobody else opens a session and events only *)
(* fill the one there is.                                                  *)

OneSealer == \A c, d \in Sealers : c = d

FullEnough ==
  /\ sealing \subseteq Sealers
  /\ deletes = 0 =>
       /\ \A s \in DOMAIN sess : sess[s].status # "active" => Full(sess[s])
       /\ sealing # {} => meta.active \in DOMAIN sess /\ Full(sess[meta.active])

\* An event makes no session less full.
LEMMA FullStays ==
  ASSUME NEW r \in Record, NEW n \in Nat, NEW w \in Nat, Full(r)
  PROVE  Full(WithEvent(r, n, w))
<1>1. /\ WithEvent(r, n, w).tokens = r.tokens + w
      /\ WithEvent(r, n, w).count = r.count + 1
  BY DEF WithEvent, Record
<1> QED BY <1>1, LimitType DEF Full, Record

LEMMA FullEnoughStep ==
  OneSealer /\ IInv /\ FullEnough /\ [Next]_vars => FullEnough'
<1> SUFFICES ASSUME OneSealer, IInv, FullEnough, [Next]_vars PROVE FullEnough'
  OBVIOUS
<1>0. /\ DOMAIN sess = Sids /\ sess \in [Sids -> Record] /\ deletes \in Nat
      /\ meta.count \in Nat /\ meta.active = meta.count /\ meta.total \in Nat /\ sent \in Nat
  BY DEF IInv, TypeOK, Whole, Sids
<1>1. CASE GetOrCreateChain
  <2>1. DOMAIN sess = {}
    BY <1>0, <1>1 DEF GetOrCreateChain, Exists, Sids
  <2>2. deletes = 0 => sealing = {}
    BY <2>1 DEF FullEnough
  <2>3. \A s \in DOMAIN sess' : sess'[s].status = "active"
    BY <1>1 DEF GetOrCreateChain, Put, NewSession
  <2> QED BY <1>1, <2>2, <2>3 DEF GetOrCreateChain, FullEnough
<1>2. CASE DeleteChain
  BY <1>0, <1>2 DEF DeleteChain, FullEnough
<1>3. CASE AppendEvent
  <2> DEFINE s == meta.active
             r == WithEvent(sess[s], meta.total + 1, EstimateTokens(sent + 1))
  <2>1. /\ s \in Sids /\ sess' = [sess EXCEPT ![s] = r] /\ sess[s].status = "active"
        /\ meta'.active = s /\ sealing' = sealing /\ deletes' = deletes /\ sent + 1 \in 1..MaxMessages
    BY <1>0, <1>3, BoundType DEF AppendEvent
  <2>2. r.status = "active"
    BY <1>0, <2>1 DEF WithEvent, Record
  <2>3. Full(sess[s]) => Full(r)
    BY <1>0, <2>1, FullStays, EstimateType
  <2> HIDE DEF r
  <2>4. \A t \in DOMAIN sess' : t \in DOMAIN sess /\ (t # s => sess'[t] = sess[t])
    BY <2>1
  <2>5. sess'[s] = r /\ s \in DOMAIN sess'
    BY <1>0, <2>1
  <2> QED BY <2>1, <2>2, <2>3, <2>4, <2>5 DEF FullEnough
<1>4. ASSUME NEW c \in Sealers, CheckAndSeal(c) PROVE FullEnough'
  BY <1>4 DEF CheckAndSeal, FullEnough
<1>5. ASSUME NEW c \in Sealers, SealActiveSession(c) PROVE FullEnough'
  <2> DEFINE s == meta.active
             n == meta.count + 1
  <2>1. sealing = {c} /\ sealing' = {}
    BY <1>5 DEF SealActiveSession, FullEnough, OneSealer
  <2>2. /\ sess' = Put([sess EXCEPT ![s].status = "compressing"], n, NewSession(meta.total))
        /\ s \in Sids /\ deletes' = deletes
    BY <1>0, <1>5 DEF SealActiveSession
  <2>3. ASSUME deletes = 0, NEW t \in DOMAIN sess', sess'[t].status # "active" PROVE Full(sess'[t])
    <3>1. t \in DOMAIN sess \cup {n}
      BY <2>2 DEF Put
    <3>2. CASE t = n
      BY <2>2, <2>3, <3>2 DEF Put, NewSession
    <3>3. CASE t # n /\ t = s
      <4>1. sess'[t] = [sess[s] EXCEPT !.status = "compressing"]
        BY <1>0, <2>2, <3>1, <3>3 DEF Put
      <4>2. sess'[t].tokens = sess[s].tokens /\ sess'[t].count = sess[s].count
        BY <1>0, <2>2, <4>1 DEF Record
      <4>3. Full(sess[s])
        BY <2>1, <2>3 DEF FullEnough
      <4> QED BY <4>2, <4>3 DEF Full
    <3>4. CASE t # n /\ t # s
      <4>1. sess'[t] = sess[t] /\ t \in DOMAIN sess
        BY <2>2, <3>1, <3>4 DEF Put
      <4> QED BY <2>3, <4>1 DEF FullEnough
    <3> QED BY <3>2, <3>3, <3>4
  <2> QED BY <2>1, <2>2, <2>3 DEF FullEnough
<1>6. ASSUME NEW c \in Sealers, SealRefused(c) PROVE FullEnough'
  BY <1>6 DEF SealRefused, FullEnough
<1>7. ASSUME NEW c \in Compressors, FinishCompress(c) PROVE FullEnough'
  <2>1. /\ \A s \in DOMAIN sess : /\ sess'[s].tokens = sess[s].tokens
                                  /\ sess'[s].count = sess[s].count
                                  /\ sess'[s].status # "active" => sess[s].status # "active"
        /\ DOMAIN sess' = DOMAIN sess
    <3>1. CASE ~jobs[c].own
      BY <1>7, <3>1 DEF FinishCompress
    <3>2. CASE jobs[c].own
      <4>1. JobOK(jobs[c])
        BY DEF IInv, Captures
      <4>2. sess' = [sess EXCEPT ![jobs[c].sid].status = "sealed", ![jobs[c].sid].summary = TRUE]
        BY <1>7, <3>2 DEF FinishCompress
      <4> QED BY <1>0, <3>2, <4>1, <4>2 DEF JobOK, Record
    <3> QED BY <3>1, <3>2
  <2>2. UNCHANGED <<meta, sealing, deletes>>
    BY <1>7 DEF FinishCompress
  <2> QED BY <2>1, <2>2 DEF FullEnough, Full
<1>8. CASE UNCHANGED <<meta, sess, sealing, deletes>>
  BY <1>8 DEF FullEnough
<1> QED
  BY <1>1, <1>2, <1>3, <1>4, <1>5, <1>6, <1>7, <1>8
     DEF Next, vars, FailCompress, StartCompress, GetActiveSession, ReadEndEvent, UpdateCursor

\* CheckAndSeal and SealActiveSession are two locked regions, but a single
\* goroutine that goes through them seals no session before its time.
THEOREM SealsWhenFull == ASSUME OneSealer PROVE Spec => []FullBeforeSeal
<1>1. Init => FullEnough
  BY DEF Init, FullEnough
<1>2. IInv /\ FullEnough /\ [Next]_vars => FullEnough'
  BY FullEnoughStep
<1>3. FullEnough => FullBeforeSeal
  BY DEF FullEnough, FullBeforeSeal
<1> QED BY <1>1, <1>2, <1>3, Invariance, PTL DEF Spec
=============================================================================
