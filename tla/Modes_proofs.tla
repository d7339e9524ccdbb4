---------------------------- MODULE Modes_proofs -----------------------------
(***************************************************************************)
(* Proofs about Modes, for any goroutines, any finite set of sessions and  *)
(* any number of requests.                                                 *)
(*                                                                         *)
(* Until the instance of the mode is made there is no session, so that the *)
(* requests that get as far as GetOrCreate are creations, which hold sm.mu *)
(* from before they look until after they store.  Ok says this of what a   *)
(* goroutine has still to do, of which a step takes away the first.        *)
(***************************************************************************)
EXTENDS Modes, SequenceTheorems, FiniteSetTheorems, TLAPS

Act == [do : {"lock", "rlock", "unlock", "runlock"}, on : Locks]
         \cup [do : {"look", "store", "found", "known", "ctx", "orch", "forget"}]

\* Before step i of q, sm.mu is held: from the beginning (h) or since an earlier step.
Held(q, h, i) ==
  \E j \in 0..(i - 1) :
    /\ IF j = 0 THEN h ELSE q[j] = Lock("sm")
    /\ \A k \in (j + 1)..(i - 1) : q[k] # Unlock("sm")

\* sm.mu is released by who holds it.  GetOrCreate looks while it is held, or where a
\* session was found, or where there is the instance; it will store only if there is none.
Ok(q, h, n) ==
  \A i \in DOMAIN q :
    /\ q[i] = Unlock("sm") => Held(q, h, i)
    /\ q[i].do = "look" => \/ n # 0 \/ Held(q, h, i)
                           \/ \E j \in 1..(i - 1) : q[j].do = "found"
    /\ q[i].do = "store" =>
         /\ n = 0 /\ h
         /\ \A k \in 1..(i - 1) : q[k] # Unlock("sm") /\ q[k].do \notin {"look", "store"}

HasSm(g) == writer["sm"] = g

StateType ==
  /\ todo \in [Goroutines -> Seq(Act)]
  /\ op = [g \in Goroutines |-> op[g]]
  /\ \A g \in Goroutines : todo[g] # <<>> => op[g].on \in Sessions
  /\ writer \in [Locks -> Goroutines \cup {None}]
  /\ announced \in [Locks -> Goroutines \cup {None}]
  /\ \A l \in Locks : announced[l] # None => writer[l] = None
  /\ cached \in Nat /\ made = cached
  /\ got = [g \in Goroutines |-> got[g]]
  /\ ctxMode = [s \in Sessions |-> ctxMode[s]] /\ orchMode = [s \in Sessions |-> orchMode[s]]

IInv ==
  /\ StateType
  /\ \A g \in Goroutines : Ok(todo[g], HasSm(g), cached) /\ got[g] \in {0, cached}
  /\ OneInstance

-----------------------------------------------------------------------------
(* Steps.                                                                  *)

LEMMA Distinct ==
  /\ {"sm", "orch", "reg"} \subseteq Locks /\ Sessions \subseteq Locks
  /\ \A l \in Locks : /\ {Lock(l), RLock(l), Unlock(l), RUnlock(l)} \subseteq Act
                      /\ Lock(l).do = "lock" /\ RLock(l).do = "rlock"
                      /\ Unlock(l).do = "unlock" /\ RUnlock(l).do = "runlock"
                      /\ Unlock(l) = Unlock("sm") => l = "sm"
                      /\ Lock(l) = Lock("sm") => l = "sm"
  /\ \A d : Do(d).do = d
  /\ \A d \in {"look", "store", "found", "known", "ctx", "orch", "forget"} : Do(d) \in Act
  /\ "sm" \notin Sessions
<1>1. "sm" \notin Sessions
  BY SessionsType
<1>2. /\ {"sm", "orch", "reg"} \subseteq Locks /\ Sessions \subseteq Locks
      /\ \A d : Do(d).do = d
      /\ \A d \in {"look", "store", "found", "known", "ctx", "orch", "forget"} : Do(d) \in Act
  BY DEF Locks, Act, Do
<1>3. \A l \in Locks : /\ {Lock(l), RLock(l), Unlock(l), RUnlock(l)} \subseteq Act
                       /\ Lock(l).do = "lock" /\ RLock(l).do = "rlock"
                       /\ Unlock(l).do = "unlock" /\ RUnlock(l).do = "runlock"
                       /\ Unlock(l).on = l /\ Lock(l).on = l
  BY DEF Act, Lock, RLock, Unlock, RUnlock
<1>4. Unlock("sm").on = "sm" /\ Lock("sm").on = "sm"
  BY DEF Lock, Unlock
<1> QED BY <1>1, <1>2, <1>3, <1>4

\* The step that is done goes; the rest is Ok with what the step left.
LEMMA TailHeld ==
  ASSUME NEW q \in Seq(Act), q # <<>>, NEW h \in BOOLEAN, NEW h1 \in BOOLEAN,
         Head(q) = Lock("sm") => h1,
         Head(q) # Lock("sm") /\ Head(q) # Unlock("sm") => (h => h1),
         Head(q) = Lock("sm") => Head(q) # Unlock("sm"),
         NEW i \in 1..Len(Tail(q)), Held(q, h, i + 1)
  PROVE  Held(Tail(q), h1, i)
<1>1. /\ Len(q) \in Nat /\ Len(Tail(q)) = Len(q) - 1 /\ Head(q) = q[1]
      /\ \A k \in 1..Len(Tail(q)) : Tail(q)[k] = q[k + 1]
  BY HeadTailProperties, LenProperties
<1>2. PICK j \in 0..i : /\ IF j = 0 THEN h ELSE q[j] = Lock("sm")
                        /\ \A k \in (j + 1)..i : q[k] # Unlock("sm")
  BY DEF Held
<1>3. CASE j <= 1
  <2>1. h1
    BY <1>1, <1>2, <1>3
  <2>2. \A k \in 1..(i - 1) : Tail(q)[k] # Unlock("sm")
    BY <1>1, <1>2, <1>3
  <2> QED BY <2>1, <2>2 DEF Held
<1>4. CASE j > 1
  <2>1. Tail(q)[j - 1] = Lock("sm") /\ j - 1 \in 0..(i - 1) /\ j - 1 # 0
    BY <1>1, <1>2, <1>4
  <2>2. \A k \in ((j - 1) + 1)..(i - 1) : Tail(q)[k] # Unlock("sm")
    BY <1>1, <1>2, <1>4
  <2> QED BY <2>1, <2>2 DEF Held
<1> QED BY <1>2, <1>3, <1>4

LEMMA TailOk ==
  ASSUME NEW q \in Seq(Act), q # <<>>, NEW h \in BOOLEAN, NEW h1 \in BOOLEAN,
         NEW n \in Nat, NEW n1 \in Nat, Ok(q, h, n),
         Head(q) = Lock("sm") => h1,
         Head(q) # Lock("sm") /\ Head(q) # Unlock("sm") => (h => h1),
         n # 0 => n1 # 0, n1 # n => Head(q).do = "store",
         Head(q).do = "found" => n1 # 0
  PROVE  Tail(q) \in Seq(Act) /\ Ok(Tail(q), h1, n1)
<1>1. /\ Len(q) \in Nat /\ Len(Tail(q)) = Len(q) - 1 /\ Head(q) = q[1] /\ DOMAIN q = 1..Len(q)
      /\ Tail(q) \in Seq(Act) /\ DOMAIN Tail(q) = 1..Len(Tail(q))
      /\ \A k \in 1..Len(Tail(q)) : Tail(q)[k] = q[k + 1] /\ k + 1 \in DOMAIN q
  BY HeadTailProperties, LenProperties
<1>2. Head(q) = Lock("sm") => Head(q) # Unlock("sm")
  BY Distinct
<1>3. ASSUME NEW i \in DOMAIN Tail(q)
      PROVE  /\ Tail(q)[i] = Unlock("sm") => Held(Tail(q), h1, i)
             /\ Tail(q)[i].do = "look" => \/ n1 # 0 \/ Held(Tail(q), h1, i)
                                          \/ \E j \in 1..(i - 1) : Tail(q)[j].do = "found"
             /\ Tail(q)[i].do = "store" =>
                  /\ n1 = 0 /\ h1
                  /\ \A k \in 1..(i - 1) : /\ Tail(q)[k] # Unlock("sm")
                                           /\ Tail(q)[k].do \notin {"look", "store"}
  <2>1. Tail(q)[i] = q[i + 1] /\ i + 1 \in DOMAIN q /\ i \in 1..Len(Tail(q)) /\ i \in Nat
    BY <1>1, <1>3
  <2>2. Held(q, h, i + 1) => Held(Tail(q), h1, i)
    BY <1>2, <2>1, TailHeld
  <2>3. ASSUME Tail(q)[i].do = "look", n1 = 0, ~Held(Tail(q), h1, i)
        PROVE  \E j \in 1..(i - 1) : Tail(q)[j].do = "found"
    <3>1. PICK j \in 1..i : q[j].do = "found"
      BY <2>1, <2>2, <2>3 DEF Ok
    <3>2. j # 1
      BY <1>1, <2>3, <3>1
    <3>3. j - 1 \in 1..(i - 1) /\ Tail(q)[j - 1].do = "found"
      BY <1>1, <2>1, <3>1, <3>2
    <3> QED BY <3>3
  <2>4. ASSUME Tail(q)[i].do = "store"
        PROVE  /\ n1 = 0 /\ h1
               /\ \A k \in 1..(i - 1) : /\ Tail(q)[k] # Unlock("sm")
                                        /\ Tail(q)[k].do \notin {"look", "store"}
    <3>1. /\ n = 0 /\ h
          /\ \A k \in 1..i : q[k] # Unlock("sm") /\ q[k].do \notin {"look", "store"}
      BY <2>1, <2>4 DEF Ok
    <3>2. n1 = 0 /\ h1
      BY <1>1, <2>1, <3>1
    <3>3. ASSUME NEW k \in 1..(i - 1)
          PROVE  Tail(q)[k] # Unlock("sm") /\ Tail(q)[k].do \notin {"look", "store"}
      BY <1>1, <2>1, <3>1
    <3> QED BY <3>2, <3>3
  <2> QED BY <1>1, <2>1, <2>2, <2>3, <2>4 DEF Ok
<1> QED BY <1>1, <1>3 DEF Ok

\* What another goroutine has to do stays Ok when the instance is made without it.
LEMMA OtherOk ==
  ASSUME NEW q, NEW h, NEW n \in Nat, NEW n1 \in Nat, Ok(q, h, n),
         n1 = n \/ (~h /\ n1 # 0)
  PROVE  Ok(q, h, n1)
BY DEF Ok

\* Steps that come before others, and neither take nor release sm.mu.
LEMMA PrefixOk ==
  ASSUME NEW p \in Seq(Act), NEW q \in Seq(Act), NEW h, NEW n \in Nat, Ok(p, h, n), Ok(q, h, n),
         \A i \in DOMAIN p : p[i] # Unlock("sm") /\ p[i].do # "look",
         \A i \in DOMAIN q : q[i].do # "store"
  PROVE  p \o q \in Seq(Act) /\ Ok(p \o q, h, n)
<1> DEFINE r == p \o q
           m == Len(p)
<1>1. /\ r \in Seq(Act) /\ m \in Nat /\ Len(q) \in Nat /\ DOMAIN r = 1..(m + Len(q))
      /\ DOMAIN p = 1..m /\ DOMAIN q = 1..Len(q)
      /\ \A i \in 1..m : r[i] = p[i]
      /\ \A i \in 1..Len(q) : r[m + i] = q[i]
  <2>1. /\ Len(p) \in Nat /\ Len(q) \in Nat /\ DOMAIN p = 1..Len(p) /\ DOMAIN q = 1..Len(q)
    BY LenProperties
  <2>2. r \in Seq(Act) /\ Len(r) = Len(p) + Len(q)
    BY ConcatProperties
  <2>3. DOMAIN r = 1..(Len(p) + Len(q))
    BY <2>2, LenProperties
  <2>4. \A i \in 1..(Len(p) + Len(q)) : r[i] = IF i <= Len(p) THEN p[i] ELSE q[i - Len(p)]
    BY ConcatProperties
  <2> QED BY <2>1, <2>2, <2>3, <2>4
<1> HIDE DEF r, m
<1>2. ASSUME NEW i \in 1..Len(q), Held(q, h, i) PROVE Held(r, h, m + i)
  <2>1. PICK j \in 0..(i - 1) : /\ IF j = 0 THEN h ELSE q[j] = Lock("sm")
                                /\ \A k \in (j + 1)..(i - 1) : q[k] # Unlock("sm")
    BY <1>2 DEF Held
  <2>2. ASSUME NEW k \in 1..(m + i - 1), k > m => k - m \in (j + 1)..(i - 1)
        PROVE  r[k] # Unlock("sm")
    <3>1. CASE k <= m
      BY <1>1, <3>1
    <3>2. CASE k > m
      <4>1. r[m + (k - m)] = q[k - m] /\ m + (k - m) = k
        BY <1>1, <2>2, <3>2
      <4> QED BY <2>1, <2>2, <3>2, <4>1
    <3> QED BY <1>1, <3>1, <3>2
  <2>3. CASE j = 0
    BY <1>1, <2>1, <2>2, <2>3 DEF Held
  <2>4. CASE j # 0
    <3>1. r[m + j] = Lock("sm") /\ m + j \in 1..(m + i - 1)
      BY <1>1, <2>1, <2>4
    <3>2. \A k \in (m + j + 1)..(m + i - 1) : r[k] # Unlock("sm")
      BY <1>1, <2>2, <2>4
    <3> QED BY <1>1, <3>1, <3>2 DEF Held
  <2> QED BY <2>3, <2>4
<1>3. ASSUME NEW i \in DOMAIN r
      PROVE  /\ r[i] = Unlock("sm") => Held(r, h, i)
             /\ r[i].do = "look" => \/ n # 0 \/ Held(r, h, i)
                                    \/ \E j \in 1..(i - 1) : r[j].do = "found"
             /\ r[i].do = "store" =>
                  /\ n = 0 /\ h
                  /\ \A k \in 1..(i - 1) : r[k] # Unlock("sm") /\ r[k].do \notin {"look", "store"}
  <2>1. CASE i \in 1..m
    <3>1. r[i] = p[i] /\ \A k \in 1..(i - 1) : r[k] = p[k]
      BY <1>1, <2>1
    <3> QED BY <1>1, <2>1, <3>1 DEF Ok
  <2>2. CASE i \notin 1..m
    <3>1. i - m \in 1..Len(q) /\ r[i] = q[i - m] /\ m + (i - m) = i
      BY <1>1, <2>2
    <3>2. Held(q, h, i - m) => Held(r, h, i)
      BY <1>2, <3>1
    <3>3. ASSUME NEW j \in 1..(i - m - 1) PROVE r[m + j] = q[j] /\ m + j \in 1..(i - 1)
      BY <1>1, <3>1
    <3> QED BY <1>1, <3>1, <3>2, <3>3 DEF Ok
  <2> QED BY <2>1, <2>2
<1> QED BY <1>1, <1>3 DEF Ok, r

-----------------------------------------------------------------------------
(* What the requests do is Ok from the beginning.                          *)

LEMMA Parts ==
  ASSUME NEW l \in Locks
  PROVE  /\ GetOrCreate \in Seq(Act) /\ Reading(l) \in Seq(Act) /\ LookUp \in Seq(Act)
         /\ <<Lock(l)>> \in Seq(Act) /\ <<RLock(l)>> \in Seq(Act) /\ <<RUnlock(l)>> \in Seq(Act)
         /\ <<Lock(l), Unlock(l)>> \in Seq(Act)
BY Distinct DEF GetOrCreate, Reading, LookUp

LEMMA MissingOk ==
  /\ Missing \in Seq(Act) /\ Ok(Missing, TRUE, 0)
  /\ \A i \in DOMAIN Missing : Missing[i] # Unlock("sm") /\ Missing[i].do # "look"
<1>1. Missing \in Seq(Act) /\ Len(Missing) = 6
  <2>1. <<Lock("reg"), Do("store"), Unlock("reg")>> \in Seq(Act)
    BY Distinct
  <2>2. <<RUnlock("reg")>> \in Seq(Act) /\ Reading("reg") \in Seq(Act)
    BY Distinct, Parts
  <2>3. <<RUnlock("reg")>> \o Reading("reg") \in Seq(Act)
    BY <2>2, ConcatProperties
  <2>4. Missing \in Seq(Act)
    BY <2>1, <2>3, ConcatProperties DEF Missing
  <2>5. Len(Missing) = 6
    BY DEF Missing, Reading
  <2> QED BY <2>4, <2>5
<1>2. /\ Missing[1] = RUnlock("reg") /\ Missing[2] = RLock("reg") /\ Missing[3] = RUnlock("reg")
      /\ Missing[4] = Lock("reg") /\ Missing[5] = Do("store") /\ Missing[6] = Unlock("reg")
  BY DEF Missing, Reading
<1>3. DOMAIN Missing = 1..6
  BY <1>1, LenProperties
<1>4. \A i \in 1..6 : i = 1 \/ i = 2 \/ i = 3 \/ i = 4 \/ i = 5 \/ i = 6
  OBVIOUS
<1>5. ASSUME NEW i \in 1..6
      PROVE  /\ Missing[i] # Unlock("sm") /\ Missing[i].do # "look"
             /\ Missing[i].do = "store" => i = 5
  BY <1>2, <1>4, Distinct
<1>6. Ok(Missing, TRUE, 0)
  <2>1. \A k \in 1..4 : Missing[k] # Unlock("sm") /\ Missing[k].do \notin {"look", "store"}
    BY <1>5
  <2>2. \A i \in DOMAIN Missing :
          /\ Missing[i] # Unlock("sm") /\ Missing[i].do # "look"
          /\ Missing[i].do = "store" =>
               \A k \in 1..(i - 1) : Missing[k] # Unlock("sm") /\ Missing[k].do \notin {"look", "store"}
    BY <1>3, <1>5, <2>1
  <2> QED BY <2>2 DEF Ok
<1> QED BY <1>1, <1>3, <1>5, <1>6

\* A program that looks and releases only where it holds sm.mu or has found a session.
LEMMA ProgramOk ==
  ASSUME NEW q, NEW m \in Nat, DOMAIN q = 1..m,
         \A i \in 1..m : /\ q[i] = Unlock("sm") => Held(q, FALSE, i)
                         /\ q[i].do = "look" => \/ Held(q, FALSE, i)
                                                \/ \E j \in 1..(i - 1) : q[j].do = "found"
                         /\ q[i].do # "store"
  PROVE  \A h \in BOOLEAN, n \in Nat : Ok(q, h, n)
<1>1. \A h \in BOOLEAN : \A i \in 1..m : Held(q, FALSE, i) => Held(q, h, i)
  BY DEF Held
<1> QED BY <1>1 DEF Ok

LEMMA CreateOk ==
  ASSUME NEW s \in Sessions
  PROVE  /\ CreateSession(s) \in Seq(Act)
         /\ \A h \in BOOLEAN, n \in Nat : Ok(CreateSession(s), h, n)
<1> DEFINE q == CreateSession(s)
<1>1. q \in Seq(Act)
  <2>1. <<Lock("sm")>> \in Seq(Act) /\ GetOrCreate \in Seq(Act) /\ <<Do("ctx"), Lock("orch")>> \in Seq(Act)
    BY Distinct, Parts
  <2>2. /\ <<Do("orch"), Unlock("orch"), Unlock("sm")>> \in Seq(Act)
        /\ <<Lock("sm"), Unlock("sm")>> \in Seq(Act)
    BY Distinct
  <2>3. Save(s) \in Seq(Act)
    BY Distinct, Parts, ConcatProperties DEF Save
  <2>4. <<Lock("sm")>> \o GetOrCreate \o <<Do("ctx"), Lock("orch")>> \o GetOrCreate \in Seq(Act)
    BY <2>1, ConcatProperties
  <2> QED BY <2>2, <2>3, <2>4, ConcatProperties DEF CreateSession
<1>2. Len(q) = 16
  BY DEF CreateSession, GetOrCreate, Save, Reading
<1>3. /\ q[1] = Lock("sm") /\ q[2] = RLock("reg") /\ q[3] = Do("look") /\ q[4] = Do("ctx")
      /\ q[5] = Lock("orch") /\ q[6] = RLock("reg") /\ q[7] = Do("look") /\ q[8] = Do("orch")
      /\ q[9] = Unlock("orch") /\ q[10] = Unlock("sm") /\ q[11] = RLock("sm") /\ q[12] = RUnlock("sm")
      /\ q[13] = RLock(s) /\ q[14] = RUnlock(s) /\ q[15] = Lock("sm") /\ q[16] = Unlock("sm")
  BY DEF CreateSession, GetOrCreate, Save, Reading
<1>4. DOMAIN q = 1..16
  BY <1>1, <1>2, LenProperties
<1> HIDE DEF q
<1>5. \A i \in 1..16 : \/ i = 1 \/ i = 2 \/ i = 3 \/ i = 4 \/ i = 5 \/ i = 6 \/ i = 7 \/ i = 8
                       \/ i = 9 \/ i = 10 \/ i = 11 \/ i = 12 \/ i = 13 \/ i = 14 \/ i = 15 \/ i = 16
  OBVIOUS
<1>6. ASSUME NEW i \in 1..16
      PROVE  /\ q[i] = Unlock("sm") => i \in {10, 16}
             /\ q[i].do = "look" => i \in {3, 7}
             /\ q[i].do # "store"
  <2>1. CASE i <= 8
    BY <1>3, <1>5, <2>1, Distinct
  <2>2. CASE i > 8
    BY <1>3, <1>5, <2>2, Distinct
  <2> QED BY <2>1, <2>2
<1>7. \A i \in {3, 7, 10} : Held(q, FALSE, i)
  BY <1>3, <1>6 DEF Held
<1>8. Held(q, FALSE, 16)
  BY <1>3, <1>6 DEF Held
<1> QED BY <1>1, <1>4, <1>6, <1>7, <1>8, ProgramOk DEF q

LEMMA SwitchOk ==
  ASSUME NEW s \in Sessions
  PROVE  /\ SwitchMode(s) \in Seq(Act)
         /\ \A h \in BOOLEAN, n \in Nat : Ok(SwitchMode(s), h, n)
<1> DEFINE q == SwitchMode(s)
<1>1. q \in Seq(Act)
  <2>1. LookUp \in Seq(Act) /\ GetOrCreate \in Seq(Act) /\ <<Lock("orch"), Do("known")>> \in Seq(Act)
    BY Distinct, Parts
  <2>2. /\ <<Do("orch"), Unlock("orch"), Lock(s)>> \in Seq(Act)
        /\ <<Do("ctx"), Unlock(s), Lock(s), Unlock(s)>> \in Seq(Act)
    BY Distinct
  <2>3. LookUp \o <<Lock("orch"), Do("known")>> \o GetOrCreate \in Seq(Act)
    BY <2>1, ConcatProperties
  <2> QED BY <2>1, <2>2, <2>3, ConcatProperties DEF SwitchMode
<1>2. Len(q) = 16
  BY DEF SwitchMode, GetOrCreate, LookUp
<1>3. /\ q[1] = RLock("sm") /\ q[2] = Do("found") /\ q[3] = RUnlock("sm") /\ q[4] = Lock("orch")
      /\ q[5] = Do("known") /\ q[6] = RLock("reg") /\ q[7] = Do("look") /\ q[8] = Do("orch")
      /\ q[9] = Unlock("orch") /\ q[10] = Lock(s) /\ q[11] = RLock("reg") /\ q[12] = Do("look")
      /\ q[13] = Do("ctx") /\ q[14] = Unlock(s) /\ q[15] = Lock(s) /\ q[16] = Unlock(s)
  BY DEF SwitchMode, GetOrCreate, LookUp
<1>4. DOMAIN q = 1..16
  BY <1>1, <1>2, LenProperties
<1> HIDE DEF q
<1>5. \A i \in 1..16 : \/ i = 1 \/ i = 2 \/ i = 3 \/ i = 4 \/ i = 5 \/ i = 6 \/ i = 7 \/ i = 8
                       \/ i = 9 \/ i = 10 \/ i = 11 \/ i = 12 \/ i = 13 \/ i = 14 \/ i = 15 \/ i = 16
  OBVIOUS
<1>6. ASSUME NEW i \in 1..16
      PROVE  q[i] # Unlock("sm") /\ (q[i].do = "look" => i > 2) /\ q[i].do # "store"
  <2>1. CASE i <= 8
    BY <1>3, <1>5, <2>1, Distinct
  <2>2. CASE i > 8
    BY <1>3, <1>5, <2>2, Distinct
  <2> QED BY <2>1, <2>2
<1>7. q[2].do = "found"
  BY <1>3, Distinct
<1>8. \A i \in 1..16 : i > 2 => \E j \in 1..(i - 1) : q[j].do = "found"
  BY <1>7
<1> QED BY <1>1, <1>4, <1>6, <1>8, ProgramOk DEF q

\* The others take no mode from the registry.
LEMMA SendOk ==
  ASSUME NEW s \in Sessions
  PROVE  /\ SendMessage(s) \in Seq(Act)
         /\ \A h \in BOOLEAN, n \in Nat : Ok(SendMessage(s), h, n)
<1> DEFINE q == SendMessage(s)
<1>1. q \in Seq(Act)
  <2>1. LookUp \in Seq(Act)
    BY Distinct, Parts
  <2>2. <<Lock(s), RLock("orch"), Do("known"), RUnlock("orch"), Lock("orch"), Unlock("orch"),
          Unlock(s)>> \in Seq(Act)
    BY Distinct
  <2> QED BY <2>1, <2>2, ConcatProperties DEF SendMessage
<1>2. Len(q) = 10
  BY DEF SendMessage, LookUp
<1>3. /\ q[1] = RLock("sm") /\ q[2] = Do("found") /\ q[3] = RUnlock("sm") /\ q[4] = Lock(s)
      /\ q[5] = RLock("orch") /\ q[6] = Do("known") /\ q[7] = RUnlock("orch") /\ q[8] = Lock("orch")
      /\ q[9] = Unlock("orch") /\ q[10] = Unlock(s)
  BY DEF SendMessage, LookUp
<1>4. DOMAIN q = 1..10
  BY <1>1, <1>2, LenProperties
<1> HIDE DEF q
<1>5. \A i \in 1..10 : \/ i = 1 \/ i = 2 \/ i = 3 \/ i = 4 \/ i = 5 \/ i = 6 \/ i = 7 \/ i = 8
                       \/ i = 9 \/ i = 10
  OBVIOUS
<1>6. \A i \in 1..10 : q[i] # Unlock("sm") /\ q[i].do \notin {"look", "store"}
  BY <1>3, <1>5, Distinct
<1> QED BY <1>1, <1>4, <1>6, ProgramOk DEF q

LEMMA DeleteOk ==
  /\ \A s : DeleteSession(s) \in Seq(Act)
  /\ \A s : \A h \in BOOLEAN, n \in Nat : Ok(DeleteSession(s), h, n)
<1> SUFFICES ASSUME NEW s
             PROVE  /\ DeleteSession(s) \in Seq(Act)
                    /\ \A h \in BOOLEAN, n \in Nat : Ok(DeleteSession(s), h, n)
  OBVIOUS
<1> DEFINE q == DeleteSession(s)
<1>1. q \in Seq(Act)
  BY Distinct DEF DeleteSession
<1>2. /\ Len(q) = 6
      /\ q[1] = Lock("sm") /\ q[2] = Do("found") /\ q[3] = Lock("orch") /\ q[4] = Do("forget")
      /\ q[5] = Unlock("orch") /\ q[6] = Unlock("sm")
  BY DEF DeleteSession
<1>3. DOMAIN q = 1..6
  BY <1>1, <1>2, LenProperties
<1> HIDE DEF q
<1>4. \A i \in 1..6 : i = 1 \/ i = 2 \/ i = 3 \/ i = 4 \/ i = 5 \/ i = 6
  OBVIOUS
<1>5. \A i \in 1..6 : q[i].do \notin {"look", "store"} /\ (q[i] = Unlock("sm") => i = 6)
  BY <1>2, <1>4, Distinct
<1>6. Held(q, FALSE, 6)
  BY <1>2, <1>5 DEF Held
<1> QED BY <1>1, <1>3, <1>5, <1>6, ProgramOk DEF q

LEMMA ReadersOk ==
  ASSUME NEW s \in Sessions
  PROVE  /\ Save(s) \in Seq(Act) /\ ListModes(s) \in Seq(Act)
         /\ \A h \in BOOLEAN, n \in Nat : Ok(Save(s), h, n) /\ Ok(ListModes(s), h, n)
<1> DEFINE p == Save(s)
           q == ListModes(s)
<1>1. p \in Seq(Act) /\ q \in Seq(Act)
  <2>1. <<RLock("reg")>> \o Reading("reg") \in Seq(Act)
    BY Distinct, Parts, ConcatProperties
  <2>2. <<RUnlock("reg")>> \in Seq(Act) /\ Reading("sm") \in Seq(Act) /\ Reading(s) \in Seq(Act)
    BY Distinct, Parts
  <2> QED BY <2>1, <2>2, ConcatProperties DEF Save, ListModes
<1>2. /\ Len(p) = 4 /\ Len(q) = 4
      /\ p[1] = RLock("sm") /\ p[2] = RUnlock("sm") /\ p[3] = RLock(s) /\ p[4] = RUnlock(s)
      /\ q[1] = RLock("reg") /\ q[2] = RLock("reg") /\ q[3] = RUnlock("reg") /\ q[4] = RUnlock("reg")
  BY DEF Save, ListModes, Reading
<1>3. DOMAIN p = 1..4 /\ DOMAIN q = 1..4
  BY <1>1, <1>2, LenProperties
<1> HIDE DEF p, q
<1>4. \A i \in 1..4 : i = 1 \/ i = 2 \/ i = 3 \/ i = 4
  OBVIOUS
<1>5. \A i \in 1..4 : /\ p[i] # Unlock("sm") /\ p[i].do \notin {"look", "store"}
                      /\ q[i] # Unlock("sm") /\ q[i].do \notin {"look", "store"}
  BY <1>2, <1>4, Distinct
<1> QED BY <1>1, <1>3, <1>5, ProgramOk DEF p, q

-----------------------------------------------------------------------------
(* The steps.                                                              *)

LEMMA HasSmType == \A g : HasSm(g) \in BOOLEAN /\ HasSm(g)' \in BOOLEAN
BY DEF HasSm

LEMMA HeadType ==
  ASSUME IInv, NEW g \in Goroutines, todo[g] # <<>>
  PROVE  /\ todo[g] \in Seq(Act) /\ Head(todo[g]) \in Act /\ op[g].on \in Sessions
         /\ Head(todo[g]) = todo[g][1] /\ 1 \in DOMAIN todo[g]
         /\ \A do \in {"lock", "rlock", "unlock", "runlock"} : Must(g, do) =>
               At(g) \in Locks /\ Head(todo[g]) = [do |-> do, on |-> At(g)]
<1>1. todo[g] \in Seq(Act) /\ op[g].on \in Sessions
  BY DEF IInv, StateType
<1>2. Head(todo[g]) \in Act /\ Head(todo[g]) = todo[g][1] /\ 1 \in DOMAIN todo[g]
  BY <1>1, HeadTailProperties, LenProperties, EmptySeq
<1>3. ASSUME NEW do \in {"lock", "rlock", "unlock", "runlock"}, Must(g, do)
      PROVE  At(g) \in Locks /\ Head(todo[g]) = [do |-> do, on |-> At(g)]
  BY <1>2, <1>3 DEF Must, At, Act
<1> QED BY <1>1, <1>2, <1>3

\* g does its first step; the others are where they were.
LEMMA DoneOk ==
  ASSUME IInv, NEW g \in Goroutines, todo[g] # <<>>, Done(g), op' = op, cached' \in Nat,
         Head(todo[g]) = Lock("sm") => HasSm(g)',
         Head(todo[g]) # Lock("sm") /\ Head(todo[g]) # Unlock("sm") => (HasSm(g) => HasSm(g)'),
         \A u \in Goroutines \ {g} : HasSm(u)' = HasSm(u),
         \/ cached' = cached
         \/ /\ Head(todo[g]).do = "store" /\ cached' # 0
            /\ \A u \in Goroutines \ {g} : ~HasSm(u),
         Head(todo[g]).do = "found" => cached' # 0
  PROVE  /\ todo' \in [Goroutines -> Seq(Act)]
         /\ \A u \in Goroutines : /\ todo'[u] # <<>> => op'[u].on \in Sessions
                                  /\ Ok(todo'[u], HasSm(u)', cached')
<1>1. todo[g] \in Seq(Act) /\ Ok(todo[g], HasSm(g), cached) /\ cached \in Nat
  BY HeadType DEF IInv, StateType
<1>2. Tail(todo[g]) \in Seq(Act) /\ Ok(Tail(todo[g]), HasSm(g)', cached')
  <2> DEFINE q == todo[g]
             h == HasSm(g)
             h1 == HasSm(g)'
             n == cached
             n1 == cached'
  <2>1. /\ q \in Seq(Act) /\ q # <<>> /\ h \in BOOLEAN /\ h1 \in BOOLEAN /\ n \in Nat /\ n1 \in Nat
        /\ Ok(q, h, n) /\ (Head(q) = Lock("sm") => h1)
        /\ (Head(q) # Lock("sm") /\ Head(q) # Unlock("sm") => (h => h1))
        /\ (n # 0 => n1 # 0) /\ (n1 # n => Head(q).do = "store")
        /\ (Head(q).do = "found" => n1 # 0)
    BY <1>1, HasSmType
  <2> HIDE DEF q, h, h1, n, n1
  <2>2. Tail(q) \in Seq(Act) /\ Ok(Tail(q), h1, n1)
    BY <2>1, TailOk
  <2> QED BY <2>2 DEF q, h1, n1
<1>3. todo' = [todo EXCEPT ![g] = Tail(todo[g])] /\ todo \in [Goroutines -> Seq(Act)]
  BY DEF Done, IInv, StateType
<1>4. todo' \in [Goroutines -> Seq(Act)]
  BY <1>2, <1>3
<1>5. ASSUME NEW u \in Goroutines PROVE todo'[u] # <<>> => op'[u].on \in Sessions
  BY <1>1, <1>3, HeadType DEF IInv, StateType
<1>6. Ok(todo'[g], HasSm(g)', cached')
  BY <1>2, <1>3
<1>7. ASSUME NEW u \in Goroutines, u # g PROVE Ok(todo'[u], HasSm(u)', cached')
  <2>1. todo'[u] = todo[u] /\ Ok(todo[u], HasSm(u), cached) /\ HasSm(u)' = HasSm(u)
    BY <1>3, <1>7 DEF IInv
  <2>2. cached' = cached \/ (~HasSm(u) /\ cached' # 0)
    BY <1>7
  <2>3. Ok(todo[u], HasSm(u), cached')
    BY <1>1, <2>1, <2>2, OtherOk
  <2> QED BY <2>1, <2>3
<1> QED BY <1>4, <1>5, <1>6, <1>7

LEMMA LockStep ==
  ASSUME IInv, NEW g \in Goroutines, Announce(g) \/ Acquire(g) \/ Release(g) PROVE IInv'
<1> DEFINE l == At(g)
<1>0. /\ writer \in [Locks -> Goroutines \cup {None}] /\ announced \in [Locks -> Goroutines \cup {None}]
      /\ \A k \in Locks : announced[k] # None => writer[k] = None
      /\ None \notin Goroutines /\ "sm" \in Locks /\ cached \in Nat
      /\ \A k \in Locks : (Lock(k) = Lock("sm") <=> k = "sm") /\ (Unlock(k) = Unlock("sm") <=> k = "sm")
  BY GoroutinesType, Distinct DEF IInv, StateType, None
<1>1. CASE Announce(g)
  <2>1. l \in Locks /\ announced' = [announced EXCEPT ![l] = g] /\ writer[l] = None
    BY <1>1, HeadType DEF Announce, Must
  <2>2. UNCHANGED <<todo, op, writer, cached, got, ctxMode, orchMode, made>>
    BY <1>1 DEF Announce
  <2>3. StateType'
    BY <1>0, <2>1, <2>2 DEF IInv, StateType
  <2> QED BY <2>2, <2>3 DEF IInv, HasSm, OneInstance
<1>2. CASE Acquire(g)
  <2>1. /\ l \in Locks /\ Head(todo[g]) = Lock(l) /\ todo[g] # <<>> /\ announced[l] = g
        /\ writer' = [writer EXCEPT ![l] = g] /\ announced' = [announced EXCEPT ![l] = None]
    BY <1>2, HeadType DEF Acquire, Must, Lock
  <2>2. writer[l] = None
    BY <1>0, <2>1
  <2>3. UNCHANGED <<op, cached, got, ctxMode, orchMode, made>> /\ Done(g)
    BY <1>2 DEF Acquire
  <2>4. Head(todo[g]) = Lock("sm") => HasSm(g)'
    BY <1>0, <2>1 DEF HasSm
  <2>5. \A u \in Goroutines \ {g} : HasSm(u)' = HasSm(u)
    BY <1>0, <2>1, <2>2 DEF HasSm
  <2>6. HasSm(g) => HasSm(g)'
    BY <1>0, <2>1 DEF HasSm
  <2>7. Head(todo[g]).do = "lock"
    BY <2>1, Distinct
  <2>8. /\ todo' \in [Goroutines -> Seq(Act)]
        /\ \A u \in Goroutines : /\ todo'[u] # <<>> => op'[u].on \in Sessions
                                 /\ Ok(todo'[u], HasSm(u)', cached')
    BY <1>0, <2>1, <2>3, <2>4, <2>5, <2>6, <2>7, DoneOk
  <2>9. StateType'
    BY <1>0, <2>1, <2>3, <2>8 DEF IInv, StateType
  <2> QED BY <2>3, <2>8, <2>9 DEF IInv, OneInstance
<1>3. CASE Release(g)
  <2>1. /\ l \in Locks /\ Head(todo[g]) = Unlock(l) /\ todo[g] # <<>>
        /\ writer' = [writer EXCEPT ![l] = None]
    BY <1>3, HeadType DEF Release, Must, Unlock
  <2>2. UNCHANGED <<op, announced, cached, got, ctxMode, orchMode, made>> /\ Done(g)
    BY <1>3 DEF Release
  <2>3. l = "sm" => HasSm(g)
    <3>1. l = "sm" => Held(todo[g], HasSm(g), 1)
      BY <2>1, HeadType DEF IInv, Ok
    <3> QED BY <3>1 DEF Held
  <2>4. \A u \in Goroutines \ {g} : HasSm(u)' = HasSm(u)
    BY <1>0, <2>1, <2>3 DEF HasSm
  <2>5. l # "sm" => HasSm(g)' = HasSm(g)
    BY <1>0, <2>1 DEF HasSm
  <2>6. Head(todo[g]).do = "unlock" /\ (l = "sm" <=> Head(todo[g]) = Unlock("sm"))
        /\ Head(todo[g]) # Lock("sm")
    BY <1>0, <2>1, Distinct
  <2>7. /\ todo' \in [Goroutines -> Seq(Act)]
        /\ \A u \in Goroutines : /\ todo'[u] # <<>> => op'[u].on \in Sessions
                                 /\ Ok(todo'[u], HasSm(u)', cached')
    BY <1>0, <2>1, <2>2, <2>4, <2>5, <2>6, DoneOk
  <2>8. StateType'
    BY <1>0, <2>1, <2>2, <2>7 DEF IInv, StateType
  <2> QED BY <2>2, <2>7, <2>8 DEF IInv, OneInstance
<1> QED BY <1>1, <1>2, <1>3

LEMMA ShareStep ==
  ASSUME IInv, NEW g \in Goroutines, Share(g) \/ Unshare(g) PROVE IInv'
<1>1. /\ todo[g] # <<>> /\ Done(g)
      /\ UNCHANGED <<op, writer, announced, cached, got, ctxMode, orchMode, made>>
  BY DEF Share, Unshare, Must
<1>2. Head(todo[g]).do \in {"rlock", "runlock"} /\ Head(todo[g]) # Lock("sm")
  BY Distinct DEF Share, Unshare, Must
<1>3. \A u \in Goroutines : HasSm(u)' = HasSm(u)
  BY <1>1 DEF HasSm
<1>4. cached' \in Nat
  BY <1>1 DEF IInv, StateType
<1>5. /\ todo' \in [Goroutines -> Seq(Act)]
      /\ \A u \in Goroutines : /\ todo'[u] # <<>> => op'[u].on \in Sessions
                               /\ Ok(todo'[u], HasSm(u)', cached')
  BY <1>1, <1>2, <1>3, <1>4, DoneOk
<1> QED BY <1>1, <1>5 DEF IInv, StateType, OneInstance

\* Who looks when there is no instance holds sm.mu, and is the only one to do so.
LEMMA LookStep == ASSUME IInv, NEW g \in Goroutines, Look(g) PROVE IInv'
<1> DEFINE rest == Tail(todo[g])
           new  == IF cached = 0 THEN Missing ELSE <<RUnlock("reg")>>
<1>1. /\ todo[g] # <<>> /\ Head(todo[g]).do = "look"
      /\ todo' = [todo EXCEPT ![g] = new \o rest]
      /\ got' = [got EXCEPT ![g] = cached]
      /\ UNCHANGED <<op, writer, announced, cached, ctxMode, orchMode, made>>
  BY DEF Look, Must
<1>2. /\ todo[g] \in Seq(Act) /\ Ok(todo[g], HasSm(g), cached) /\ cached \in Nat
      /\ Head(todo[g]) = todo[g][1] /\ 1 \in DOMAIN todo[g] /\ op[g].on \in Sessions
  BY <1>1, HeadType DEF IInv, StateType
<1>3. Head(todo[g]) # Lock("sm") /\ Head(todo[g]) # Unlock("sm")
  BY <1>1, Distinct
<1>4. rest \in Seq(Act) /\ Ok(rest, HasSm(g), cached)
  BY <1>1, <1>2, <1>3, HasSmType, TailOk
<1>5. cached = 0 => HasSm(g)
  BY <1>1, <1>2 DEF Ok, Held
<1>6. ASSUME NEW i \in DOMAIN rest PROVE rest[i].do # "store"
  <2>1. i + 1 \in DOMAIN todo[g] /\ rest[i] = todo[g][i + 1] /\ 1 \in 1..((i + 1) - 1) /\ i \in Nat
    BY <1>1, <1>2, <1>4, HeadTailProperties, LenProperties
  <2>2. todo[g][i + 1].do = "store" =>
          \A k \in 1..((i + 1) - 1) : todo[g][k].do \notin {"look", "store"}
    BY <1>2, <2>1 DEF Ok
  <2> QED BY <1>1, <1>2, <2>1, <2>2
<1>7. /\ new \in Seq(Act) /\ Ok(new, HasSm(g), cached)
      /\ \A i \in DOMAIN new : new[i] # Unlock("sm") /\ new[i].do # "look"
  <2>1. CASE cached = 0
    <3>1. HasSm(g) = TRUE
      BY <1>5, <2>1 DEF HasSm
    <3> QED BY <2>1, <3>1, MissingOk
  <2>2. CASE cached # 0
    <3>1. /\ <<RUnlock("reg")>> \in Seq(Act) /\ DOMAIN <<RUnlock("reg")>> = {1}
          /\ <<RUnlock("reg")>>[1].do = "runlock" /\ <<RUnlock("reg")>>[1] # Unlock("sm")
      BY Distinct
    <3>2. Ok(<<RUnlock("reg")>>, HasSm(g), cached)
      BY <3>1 DEF Ok
    <3> QED BY <2>2, <3>1, <3>2
  <2> QED BY <2>1, <2>2
<1> HIDE DEF rest, new
<1>8. new \o rest \in Seq(Act) /\ Ok(new \o rest, HasSm(g), cached)
  BY <1>2, <1>4, <1>6, <1>7, PrefixOk
<1>9. StateType'
  BY <1>1, <1>2, <1>8 DEF IInv, StateType
<1>10. \A u \in Goroutines : Ok(todo'[u], HasSm(u)', cached') /\ got'[u] \in {0, cached'}
  BY <1>1, <1>8 DEF IInv, StateType, HasSm
<1> QED BY <1>1, <1>9, <1>10 DEF IInv, OneInstance

\* So it stores the first instance, when nobody has another.
LEMMA StoreStep == ASSUME IInv, NEW g \in Goroutines, Store(g) PROVE IInv'
<1>1. /\ todo[g] # <<>> /\ Head(todo[g]).do = "store" /\ Done(g)
      /\ made' = made + 1 /\ cached' = made + 1 /\ got' = [got EXCEPT ![g] = made + 1]
      /\ UNCHANGED <<op, writer, announced, ctxMode, orchMode>>
  BY DEF Store, Must
<1>2. cached = 0 /\ HasSm(g) /\ made = 0
  BY <1>1, HeadType DEF IInv, StateType, Ok
<1>3. \A u \in Goroutines \ {g} : ~HasSm(u)
  BY <1>2 DEF HasSm
<1>4. \A u \in Goroutines : HasSm(u)' = HasSm(u)
  BY <1>1 DEF HasSm
<1>5. cached' = 1 /\ Head(todo[g]) # Lock("sm")
  BY <1>1, <1>2, Distinct
<1>6. /\ todo' \in [Goroutines -> Seq(Act)]
      /\ \A u \in Goroutines : /\ todo'[u] # <<>> => op'[u].on \in Sessions
                               /\ Ok(todo'[u], HasSm(u)', cached')
  BY <1>1, <1>3, <1>4, <1>5, DoneOk
<1>7. \A u \in Goroutines : got'[u] \in {0, cached'}
  BY <1>1, <1>2 DEF IInv, StateType
<1>8. StateType'
  <2>1. got' = [u \in Goroutines |-> got'[u]]
    BY <1>1 DEF IInv, StateType
  <2>2. cached' \in Nat /\ made' = cached'
    BY <1>1, <1>5
  <2> QED BY <1>1, <1>6, <2>1, <2>2 DEF IInv, StateType
<1> QED BY <1>1, <1>2, <1>6, <1>7, <1>8 DEF IInv, OneInstance

-----------------------------------------------------------------------------
(* The other steps.                                                        *)

\* What is left of a request that finds no session: it releases what it holds,
\* each lock once.
LEMMA HeldOk ==
  ASSUME NEW g, NEW n \in Nat, NEW S,
         S \subseteq {Unlock(l) : l \in Locks} \cup {RUnlock(l) : l \in Locks},
         Unlock("sm") \in S => HasSm(g)
  PROVE  SetToSeq(S) \in Seq(Act) /\ Ok(SetToSeq(S), HasSm(g), n)
<1> DEFINE q == SetToSeq(S)
<1>1. IsFiniteSet(Locks)
  <2>1. IsFiniteSet({"sm"})
    BY FS_Singleton
  <2>2. IsFiniteSet({"sm"} \cup {"orch"})
    BY <2>1, FS_AddElement
  <2>3. IsFiniteSet(({"sm"} \cup {"orch"}) \cup {"reg"})
    BY <2>2, FS_AddElement
  <2>4. IsFiniteSet((({"sm"} \cup {"orch"}) \cup {"reg"}) \cup Sessions)
    BY <2>3, SessionsType, FS_Union
  <2>5. Locks = (({"sm"} \cup {"orch"}) \cup {"reg"}) \cup Sessions
    BY DEF Locks
  <2> QED BY <2>4, <2>5
<1>2. IsFiniteSet({Unlock(l) : l \in Locks}) /\ IsFiniteSet({RUnlock(l) : l \in Locks})
  <2>1. [l \in Locks |-> Unlock(l)] \in Surjection(Locks, {Unlock(l) : l \in Locks})
    BY DEF Surjection
  <2>2. [l \in Locks |-> RUnlock(l)] \in Surjection(Locks, {RUnlock(l) : l \in Locks})
    BY DEF Surjection
  <2> QED BY <1>1, <2>1, <2>2, FS_Surjection
<1>3. IsFiniteSet(S)
  BY <1>2, FS_Union, FS_Subset
<1>4. Cardinality(S) \in Nat /\ \E f \in [1..Cardinality(S) -> S] : IsInjective(f)
  BY <1>3, FS_CardinalityType DEF ExistsBijection, Bijection, Injection
<1>5. q \in [1..Cardinality(S) -> S] /\ IsInjective(q)
  BY <1>4 DEF SetToSeq
<1> HIDE DEF q
<1>6. \A e \in S : e \in Act /\ e.do \notin {"look", "store"}
  BY Distinct
<1>7. q \in Seq(Act)
  BY <1>4, <1>5, <1>6
<1>8. ASSUME NEW i \in DOMAIN q, q[i] = Unlock("sm") PROVE Held(q, HasSm(g), i)
  <2>1. HasSm(g)
    BY <1>5, <1>8
  <2>2. i \in Nat /\ i >= 1 /\ \A k \in 1..(i - 1) : k \in DOMAIN q /\ k # i
    BY <1>4, <1>5, <1>8
  <2>3. \A k \in 1..(i - 1) : q[k] # Unlock("sm")
    BY <1>5, <1>8, <2>2 DEF IsInjective
  <2> QED BY <2>1, <2>2, <2>3 DEF Held
<1>9. Ok(q, HasSm(g), n)
  BY <1>5, <1>6, <1>8 DEF Ok
<1> QED BY <1>7, <1>9 DEF q

\* A session that is found has a mode, so there is the instance.
LEMMA CheckStep == ASSUME IInv, NEW g \in Goroutines, Check(g) PROVE IInv'
<1> DEFINE s    == op[g].on
           gone == \/ Must(g, "found") /\ ctxMode[s] = 0
                   \/ Must(g, "known") /\ orchMode[s] = 0
           held == {Unlock(l) : l \in {l \in Locks : writer[l] = g}}
                     \cup {RUnlock(l) : l \in {l \in Locks : readers[l][g] > 0}}
<1>1. /\ Must(g, "found") \/ Must(g, "known")
      /\ todo' = [todo EXCEPT ![g] = IF gone THEN SetToSeq(held) ELSE Tail(todo[g])]
      /\ UNCHANGED <<op, writer, announced, readers, cached, got, ctxMode, orchMode, made>>
  BY DEF Check
<1>2. todo[g] # <<>> /\ Head(todo[g]).do \in {"found", "known"} /\ Head(todo[g]) # Lock("sm")
  BY <1>1, Distinct DEF Must
<1>3. \A u \in Goroutines : HasSm(u)' = HasSm(u)
  BY <1>1 DEF HasSm
<1>4. cached' \in Nat /\ cached' = cached /\ todo \in [Goroutines -> Seq(Act)]
  BY <1>1 DEF IInv, StateType
<1>5. /\ todo' \in [Goroutines -> Seq(Act)]
      /\ \A u \in Goroutines : /\ todo'[u] # <<>> => op'[u].on \in Sessions
                               /\ Ok(todo'[u], HasSm(u)', cached')
  <2>1. CASE gone
    <3>1. Unlock("sm") \in held => HasSm(g)
      <4>1. ASSUME Unlock("sm") \in held PROVE HasSm(g)
        <5>1. PICK l \in Locks : \/ Unlock("sm") = Unlock(l) /\ writer[l] = g
                                 \/ Unlock("sm") = RUnlock(l)
          BY <4>1
        <5> QED BY <5>1, Distinct DEF HasSm
      <4> QED BY <4>1
    <3>2. held \subseteq {Unlock(l) : l \in Locks} \cup {RUnlock(l) : l \in Locks}
      OBVIOUS
    <3> HIDE DEF held
    <3>3. SetToSeq(held) \in Seq(Act) /\ Ok(SetToSeq(held), HasSm(g), cached)
      BY <1>4, <3>1, <3>2, HeldOk
    <3>4. todo' = [todo EXCEPT ![g] = SetToSeq(held)]
      BY <1>1, <2>1
    <3>5. op[g].on \in Sessions
      BY <1>2, HeadType
    <3>6. todo' \in [Goroutines -> Seq(Act)]
      BY <1>4, <3>3, <3>4
    <3>7. todo'[g] = SetToSeq(held) /\ \A u \in Goroutines \ {g} : todo'[u] = todo[u]
      BY <1>4, <3>4
    <3>8. Ok(todo'[g], HasSm(g)', cached') /\ op'[g].on \in Sessions
      BY <1>1, <1>3, <1>4, <3>3, <3>5, <3>7
    <3>9. \A u \in Goroutines \ {g} : /\ todo'[u] # <<>> => op'[u].on \in Sessions
                                      /\ Ok(todo'[u], HasSm(u)', cached')
      BY <1>1, <1>3, <1>4, <3>7 DEF IInv, StateType
    <3> QED BY <3>6, <3>8, <3>9
  <2>2. CASE ~gone
    <3>1. Head(todo[g]).do = "found" => cached' # 0
      <4>1. s \in Sessions
        BY <1>2, HeadType
      <4> QED BY <1>1, <1>2, <2>2, <4>1 DEF IInv, OneInstance, Must
    <3>2. Done(g)
      BY <1>1, <2>2 DEF Done
    <3> HIDE DEF gone, held
    <3> QED BY <1>1, <1>2, <1>3, <1>4, <3>1, <3>2, DoneOk
  <2> QED BY <2>1, <2>2
<1>6. StateType'
  BY <1>1, <1>5 DEF IInv, StateType
<1> QED BY <1>1, <1>5, <1>6 DEF IInv, OneInstance

LEMMA ModeStep == ASSUME IInv, NEW g \in Goroutines, SetMode(g) \/ Forget(g) PROVE IInv'
<1>1. /\ todo[g] # <<>> /\ Done(g) /\ Head(todo[g]).do \in {"ctx", "orch", "forget"}
      /\ UNCHANGED <<op, writer, announced, cached, got, made>>
  BY DEF SetMode, Forget, Must
<1>2. Head(todo[g]) # Lock("sm") /\ cached' \in Nat
  BY <1>1, Distinct DEF IInv, StateType
<1>3. \A u \in Goroutines : HasSm(u)' = HasSm(u)
  BY <1>1 DEF HasSm
<1>4. /\ todo' \in [Goroutines -> Seq(Act)]
      /\ \A u \in Goroutines : /\ todo'[u] # <<>> => op'[u].on \in Sessions
                               /\ Ok(todo'[u], HasSm(u)', cached')
  BY <1>1, <1>2, <1>3, DoneOk
<1>5. got[g] \in {0, cached}
  BY DEF IInv
<1>6. ctxMode' = [s \in Sessions |-> ctxMode'[s]] /\ orchMode' = [s \in Sessions |-> orchMode'[s]]
  <2>1. CASE SetMode(g)
    BY <2>1 DEF SetMode, IInv, StateType
  <2>2. CASE Forget(g)
    BY <2>2 DEF Forget, IInv, StateType
  <2> QED BY <2>1, <2>2
<1>7. OneInstance'
  <2>1. CASE SetMode(g)
    BY <1>1, <1>5, <2>1 DEF SetMode, IInv, StateType, OneInstance
  <2>2. CASE Forget(g)
    BY <1>1, <2>2 DEF Forget, IInv, StateType, OneInstance
  <2> QED BY <2>1, <2>2
<1>8. StateType'
  BY <1>1, <1>4, <1>6 DEF IInv, StateType
<1> QED BY <1>1, <1>4, <1>7, <1>8 DEF IInv

LEMMA RequestStep ==
  ASSUME IInv, NEW g \in Goroutines, NEW name \in Names, NEW s \in Sessions, Request(g, name, s)
  PROVE  IInv'
<1>1. /\ todo[g] = <<>>
      /\ op' = [op EXCEPT ![g] = [name |-> name, on |-> s]]
      /\ UNCHANGED <<writer, announced, cached, got, ctxMode, orchMode, made>>
  BY DEF Request
<1>2. PICK q \in Seq(Act) : /\ todo' = [todo EXCEPT ![g] = q]
                            /\ \A h \in BOOLEAN, n \in Nat : Ok(q, h, n)
  <2>1. CASE name = "create"
    BY <2>1, CreateOk DEF Request
  <2>2. CASE name = "switch"
    BY <2>2, SwitchOk DEF Request
  <2>3. CASE name = "send"
    BY <2>3, SendOk DEF Request
  <2>4. CASE name = "save"
    BY <2>4, ReadersOk DEF Request
  <2>5. CASE name = "delete"
    BY <2>5, DeleteOk DEF Request
  <2>6. CASE name = "list"
    BY <2>6, ReadersOk DEF Request
  <2> QED BY <2>1, <2>2, <2>3, <2>4, <2>5, <2>6 DEF Names
<1>3. Ok(q, HasSm(g), cached)
  BY <1>2, HasSmType DEF IInv, StateType
<1>4. \A u \in Goroutines : HasSm(u)' = HasSm(u)
  BY <1>1 DEF HasSm
<1>5. \A u \in Goroutines : Ok(todo'[u], HasSm(u)', cached')
  BY <1>1, <1>2, <1>3, <1>4 DEF IInv, StateType
<1>6. todo' \in [Goroutines -> Seq(Act)]
  BY <1>2 DEF IInv, StateType
<1>7. \A u \in Goroutines : todo'[u] # <<>> => op'[u].on \in Sessions
  <2>1. ASSUME NEW u \in Goroutines, u # g PROVE todo'[u] # <<>> => op'[u].on \in Sessions
    BY <1>1, <1>2, <2>1 DEF IInv, StateType
  <2>2. todo'[g] # <<>> => op'[g].on \in Sessions
    BY <1>1 DEF IInv, StateType
  <2> QED BY <2>1, <2>2
<1>8. StateType'
  BY <1>1, <1>6, <1>7 DEF IInv, StateType
<1> QED BY <1>1, <1>5, <1>8 DEF IInv, OneInstance

LEMMA InitIInv == Init => IInv
<1> SUFFICES ASSUME Init PROVE IInv
  OBVIOUS
<1>1. StateType
  BY DEF Init, StateType
<1>2. \A g \in Goroutines : Ok(todo[g], HasSm(g), cached) /\ got[g] \in {0, cached}
  BY DEF Init, Ok
<1>3. OneInstance
  BY DEF Init, OneInstance
<1> QED BY <1>1, <1>2, <1>3 DEF IInv

LEMMA StepIInv == IInv /\ [Next]_vars => IInv'
<1> SUFFICES ASSUME IInv, [Next]_vars PROVE IInv'
  OBVIOUS
<1>1. CASE UNCHANGED vars
  BY <1>1 DEF vars, IInv, StateType, OneInstance, HasSm
<1>2. ASSUME NEW g \in Goroutines, Step(g) PROVE IInv'
  BY <1>2, LockStep, ShareStep, LookStep, StoreStep, CheckStep, ModeStep DEF Step
<1>3. ASSUME NEW g \in Goroutines, NEW name \in Names, NEW s \in Sessions, Request(g, name, s)
      PROVE  IInv'
  BY <1>3, RequestStep
<1> QED BY <1>1, <1>2, <1>3 DEF Next

\* The inductive invariant: looks and stores are made by whom the locks let in.
THEOREM Invariance == Init /\ [][Next]_vars => []IInv
BY InitIInv, StepIInv, PTL

\* GetOrCreate gives its lock up between the look and the store, yet all sessions
\* share the registry's one instance, whatever requests meet.
THEOREM SharedInstance == Init /\ [][Next]_vars => []OneInstance
<1>1. IInv => OneInstance
  BY DEF IInv
<1> QED BY <1>1, Invariance, PTL
=============================================================================
