------------------------- MODULE TaskStream_proofs -------------------------
(***************************************************************************)
(* Proofs about TaskStream, for any finite set of agents and any bounds.   *)
(*                                                                         *)
(* A task is in one place at a time.  It is early (a goroutine is about to *)
(* send it, or it is in a stream, or its worker has not sent a result yet) *)
(* or late (its result was sent) or given up, and it never goes back.  The *)
(* only place it shares with another is that of a worker that has requeued *)
(* it and has not acknowledged it yet.                                     *)
(***************************************************************************)
EXTENDS TaskStream, SequenceTheorems, FiniteSetTheorems, TLAPS

IdsOf(M) == {m.id : m \in M}

Carrying   == {"run", "failed", "send"}
Doing(P)   == {a \in Agents : work[a].phase \in P}
CarriedIds    == {work[a].task.id : a \in Doing(Carrying)}
DispatchedIds == {work[a].task.id : a \in Doing({"dispatch"})}

OutIds    == IdsOf(outbox)
StreamIds == UNION {IdsOf(ToSet(stream[a])) : a \in Agents}
ResultIds == IdsOf(ToSet(results))
GotIds    == IF api.phase = "read" THEN {api.got.id} ELSE {}
AnswerIds == ToSet(answers)

Early == OutIds \cup StreamIds \cup CarriedIds
Late  == DispatchedIds \cup ResultIds \cup GotIds \cup AnswerIds

Disjoint(S, T) == S \cap T = {}

Apart ==
  /\ Disjoint(OutIds, StreamIds)
  /\ Disjoint(OutIds, CarriedIds)
  /\ Disjoint(StreamIds, CarriedIds)
  /\ Disjoint(ResultIds, GotIds)
  /\ Disjoint(ResultIds, AnswerIds)
  /\ Disjoint(GotIds, AnswerIds)
  /\ Disjoint(Early, Late) /\ Disjoint(Early, dropped) /\ Disjoint(Late, dropped)

\* A message is about an id that was given out, and the agent it was given out for.
Known(m) == m.id \in 1..Asked /\ m.agent = origin[m.id].agent

Home ==
  /\ \A a \in Agents : \A t \in ToSet(stream[a]) \cup pending[a] : t.agent = a /\ Known(t)
  /\ \A m \in outbox \cup ToSet(results) \cup rpending : Known(m)

NoRepeat(s) == \A j, k \in DOMAIN s : s[j].id = s[k].id => j = k

Once ==
  /\ \A t, u \in outbox : t.id = u.id => t = u
  /\ \A a \in Agents : NoRepeat(stream[a])
  /\ NoRepeat(results)

\* A task is run once per try.
Tried ==
  /\ \A a \in Agents : \A t \in ToSet(stream[a]) : runs[t.id] <= t.tries
  /\ \A t \in outbox : runs[t.id] <= t.tries
  /\ \A a \in Doing({"run", "failed"}) : runs[work[a].task.id] <= work[a].task.tries + 1

IInv == TypeOK /\ Home /\ Once /\ Apart /\ Tried /\ AnsweredOnce

-----------------------------------------------------------------------------
(* Sequences of messages and the ids in them.                              *)

LEMMA ToSetProperties ==
  ASSUME NEW S, NEW s \in Seq(S)
  PROVE  /\ ToSet(s) \subseteq S
         /\ \A k \in DOMAIN s : s[k] \in ToSet(s)
         /\ ToSet(<<>>) = {}
BY DEF ToSet

LEMMA AppendIds ==
  ASSUME NEW S, NEW s \in Seq(S), NEW e \in S
  PROVE  /\ Append(s, e) \in Seq(S)
         /\ ToSet(Append(s, e)) = ToSet(s) \cup {e}
         /\ IdsOf(ToSet(Append(s, e))) = IdsOf(ToSet(s)) \cup {e.id}
         /\ NoRepeat(s) /\ e.id \notin IdsOf(ToSet(s)) => NoRepeat(Append(s, e))
<1> DEFINE r == Append(s, e)
<1>1. /\ r \in Seq(S) /\ Len(s) \in Nat /\ DOMAIN s = 1..Len(s) /\ DOMAIN r = 1..(Len(s) + 1)
      /\ \A i \in 1..Len(s) : r[i] = s[i]
      /\ r[Len(s) + 1] = e
  BY AppendProperties, LenProperties
<1> HIDE DEF r
<1>2. ToSet(r) = ToSet(s) \cup {e}
  <2>1. ToSet(r) \subseteq ToSet(s) \cup {e}
    <3> SUFFICES ASSUME NEW i \in DOMAIN r PROVE r[i] \in ToSet(s) \cup {e}
      BY DEF ToSet
    <3>1. i \in DOMAIN s \/ i = Len(s) + 1
      BY <1>1
    <3> QED BY <1>1, <3>1 DEF ToSet
  <2>2. ToSet(s) \subseteq ToSet(r)
    <3> SUFFICES ASSUME NEW i \in DOMAIN s PROVE s[i] \in ToSet(r)
      BY DEF ToSet
    <3>1. i \in DOMAIN r /\ r[i] = s[i]
      BY <1>1
    <3> QED BY <3>1 DEF ToSet
  <2>3. e \in ToSet(r)
    <3>1. Len(s) + 1 \in DOMAIN r
      BY <1>1
    <3> QED BY <1>1, <3>1 DEF ToSet
  <2> QED BY <2>1, <2>2, <2>3
<1>3. IdsOf(ToSet(r)) = IdsOf(ToSet(s)) \cup {e.id}
  BY <1>2 DEF IdsOf
<1>4. ASSUME NoRepeat(s), e.id \notin IdsOf(ToSet(s)), NEW j \in DOMAIN r, NEW k \in DOMAIN r,
             r[j].id = r[k].id
      PROVE  j = k
  <2>1. \A i \in DOMAIN s : s[i].id # e.id
    BY <1>4 DEF IdsOf, ToSet
  <2> QED BY <1>1, <1>4, <2>1 DEF NoRepeat
<1> QED BY <1>1, <1>2, <1>3, <1>4 DEF NoRepeat, r

LEMMA TailIds ==
  ASSUME NEW S, NEW s \in Seq(S), s # <<>>
  PROVE  /\ Head(s) \in S /\ Head(s) \in ToSet(s)
         /\ Tail(s) \in Seq(S) /\ ToSet(Tail(s)) \subseteq ToSet(s)
         /\ NoRepeat(s) => /\ NoRepeat(Tail(s))
                           /\ IdsOf(ToSet(Tail(s))) = IdsOf(ToSet(s)) \ {Head(s).id}
<1> DEFINE r == Tail(s)
<1>1. /\ Len(s) \in Nat \ {0} /\ DOMAIN s = 1..Len(s) /\ Head(s) = s[1] /\ Head(s) \in S
      /\ r \in Seq(S) /\ DOMAIN r = 1..(Len(s) - 1)
      /\ \A i \in 1..(Len(s) - 1) : r[i] = s[i + 1]
  BY HeadTailProperties, LenProperties, EmptySeq
<1> HIDE DEF r
<1>2. \A i \in DOMAIN r : i + 1 \in DOMAIN s /\ i + 1 # 1 /\ r[i] = s[i + 1]
  BY <1>1
<1>3. 1 \in DOMAIN s /\ \A k \in DOMAIN s : k = 1 \/ (k - 1 \in DOMAIN r /\ r[k - 1] = s[k])
  BY <1>1
<1>4. ToSet(r) \subseteq ToSet(s) /\ Head(s) \in ToSet(s)
  BY <1>1, <1>2, <1>3 DEF ToSet
<1>5. ASSUME NoRepeat(s)
      PROVE  NoRepeat(r) /\ IdsOf(ToSet(r)) = IdsOf(ToSet(s)) \ {Head(s).id}
  <2>1. NoRepeat(r)
    BY <1>1, <1>2, <1>5 DEF NoRepeat
  <2>2. IdsOf(ToSet(r)) \subseteq IdsOf(ToSet(s)) \ {Head(s).id}
    <3> SUFFICES ASSUME NEW i \in DOMAIN r PROVE r[i].id \in IdsOf(ToSet(s)) \ {Head(s).id}
      BY DEF IdsOf, ToSet
    <3>1. r[i] \in ToSet(s)
      BY <1>4 DEF ToSet
    <3>2. r[i].id # s[1].id
      BY <1>2, <1>3, <1>5 DEF NoRepeat
    <3> QED BY <1>1, <3>1, <3>2 DEF IdsOf
  <2>3. IdsOf(ToSet(s)) \ {Head(s).id} \subseteq IdsOf(ToSet(r))
    <3> SUFFICES ASSUME NEW k \in DOMAIN s, s[k].id # Head(s).id PROVE s[k].id \in IdsOf(ToSet(r))
      BY DEF IdsOf, ToSet
    <3>1. k - 1 \in DOMAIN r /\ r[k - 1] = s[k]
      BY <1>1, <1>3
    <3> QED BY <3>1 DEF IdsOf, ToSet
  <2> QED BY <2>1, <2>2, <2>3
<1> QED BY <1>1, <1>4, <1>5 DEF r

-----------------------------------------------------------------------------
(* What the parts of a step do to the places of the ids.                   *)

\* The ids of the workers other than a.
Others(a, P) == {work[b].task.id : b \in Doing(P) \ {a}}

LEMMA WorkPhases ==
  ASSUME TypeOK, NEW a \in Agents
  PROVE  /\ work[a] = None <=> At(a, "idle")
         /\ ~At(a, "idle") =>
              /\ work[a] \in Busy
              /\ work[a].task \in pending[a] /\ work[a].left \subseteq work[a].all
BY DEF TypeOK, None, At, Busy

\* A step that changes what worker a does takes its id from one place to another,
\* and no other worker has that id: an id belongs to one agent.
LEMMA WorkChange ==
  ASSUME TypeOK, Home, NEW a \in Agents, NEW w, work' = [work EXCEPT ![a] = w]
  PROVE  /\ CarriedIds = Others(a, Carrying) \cup
              (IF work[a].phase \in Carrying THEN {work[a].task.id} ELSE {})
         /\ CarriedIds' = Others(a, Carrying) \cup
              (IF w.phase \in Carrying THEN {w.task.id} ELSE {})
         /\ DispatchedIds = Others(a, {"dispatch"}) \cup
              (IF work[a].phase = "dispatch" THEN {work[a].task.id} ELSE {})
         /\ DispatchedIds' = Others(a, {"dispatch"}) \cup
              (IF w.phase = "dispatch" THEN {w.task.id} ELSE {})
         /\ \A t : t.agent = a /\ Known(t) =>
              t.id \notin Others(a, Carrying) \cup Others(a, {"dispatch"})
<1>1. /\ CarriedIds = Others(a, Carrying) \cup
           (IF work[a].phase \in Carrying THEN {work[a].task.id} ELSE {})
      /\ DispatchedIds = Others(a, {"dispatch"}) \cup
           (IF work[a].phase = "dispatch" THEN {work[a].task.id} ELSE {})
  BY DEF CarriedIds, DispatchedIds, Others, Doing
<1>2. work'[a] = w /\ \A b \in Agents \ {a} : work'[b] = work[b]
  BY DEF TypeOK
<1>3. /\ CarriedIds' = Others(a, Carrying) \cup
           (IF w.phase \in Carrying THEN {w.task.id} ELSE {})
      /\ DispatchedIds' = Others(a, {"dispatch"}) \cup
           (IF w.phase = "dispatch" THEN {w.task.id} ELSE {})
  BY <1>2 DEF CarriedIds, DispatchedIds, Others, Doing, Carrying
<1>4. ASSUME NEW t, t.agent = a, Known(t), NEW b \in Agents \ {a}, work[b].phase # "idle",
             work[b].task.id = t.id
      PROVE  FALSE
  <2>1. work[b].task \in pending[b]
    BY <1>4, WorkPhases DEF At
  <2>2. work[b].task.agent = b /\ Known(work[b].task)
    BY <2>1 DEF Home
  <2> QED BY <1>4, <2>2 DEF Known
<1>5. \A t : t.agent = a /\ Known(t) => t.id \notin Others(a, Carrying) \cup Others(a, {"dispatch"})
  BY <1>4 DEF Others, Doing, Carrying
<1> QED BY <1>1, <1>3, <1>5

LEMMA StreamAppend ==
  ASSUME TypeOK, Home, NEW t \in Task, t.id \notin StreamIds,
         \A a \in Agents : NoRepeat(stream[a]),
         stream' = [stream EXCEPT ![t.agent] = Append(@, t)]
  PROVE  /\ stream' \in [Agents -> Seq(Task)]
         /\ StreamIds' = StreamIds \cup {t.id}
         /\ \A a \in Agents : NoRepeat(stream'[a])
         /\ \A a \in Agents : ToSet(stream'[a]) \subseteq ToSet(stream[a]) \cup {t}
         /\ \A a \in Agents \ {t.agent} : stream'[a] = stream[a]
<1> DEFINE a == t.agent
<1>1. a \in Agents /\ stream[a] \in Seq(Task)
  BY DEF TypeOK, Task
<1>2. stream'[a] = Append(stream[a], t) /\ \A b \in Agents \ {a} : stream'[b] = stream[b]
  BY <1>1 DEF TypeOK
<1>3. t.id \notin IdsOf(ToSet(stream[a]))
  BY <1>1 DEF StreamIds
<1>4. /\ stream'[a] \in Seq(Task) /\ NoRepeat(stream'[a])
      /\ ToSet(stream'[a]) = ToSet(stream[a]) \cup {t}
      /\ IdsOf(ToSet(stream'[a])) = IdsOf(ToSet(stream[a])) \cup {t.id}
  BY <1>1, <1>2, <1>3, AppendIds
<1>5. StreamIds' = StreamIds \cup {t.id}
  BY <1>1, <1>2, <1>4 DEF StreamIds
<1> QED BY <1>1, <1>2, <1>4, <1>5 DEF TypeOK

LEMMA StreamTail ==
  ASSUME TypeOK, Home, NEW a \in Agents, stream[a] # <<>>,
         \A b \in Agents : NoRepeat(stream[b]),
         stream' = [stream EXCEPT ![a] = Tail(@)]
  PROVE  /\ Head(stream[a]) \in Task /\ Head(stream[a]) \in ToSet(stream[a])
         /\ stream' \in [Agents -> Seq(Task)]
         /\ StreamIds' = StreamIds \ {Head(stream[a]).id}
         /\ Head(stream[a]).id \in StreamIds
         /\ \A b \in Agents : NoRepeat(stream'[b])
         /\ \A b \in Agents : ToSet(stream'[b]) \subseteq ToSet(stream[b])
<1> DEFINE t == Head(stream[a])
<1>1. stream[a] \in Seq(Task)
  BY DEF TypeOK
<1>2. stream'[a] = Tail(stream[a]) /\ \A b \in Agents \ {a} : stream'[b] = stream[b]
  BY DEF TypeOK
<1>3. /\ t \in Task /\ t \in ToSet(stream[a]) /\ stream'[a] \in Seq(Task) /\ NoRepeat(stream'[a])
      /\ ToSet(stream'[a]) \subseteq ToSet(stream[a])
      /\ IdsOf(ToSet(stream'[a])) = IdsOf(ToSet(stream[a])) \ {t.id}
  BY <1>1, <1>2, TailIds
<1>4. ASSUME NEW b \in Agents \ {a} PROVE t.id \notin IdsOf(ToSet(stream[b]))
  <2>1. t.agent = a /\ Known(t)
    BY <1>3 DEF Home
  <2>2. \A u \in ToSet(stream[b]) : u.agent = b /\ Known(u)
    BY <1>4 DEF Home
  <2> QED BY <2>1, <2>2 DEF IdsOf, Known
<1>5. StreamIds' = StreamIds \ {t.id}
  <2>1. \A i : i \in StreamIds <=> \E b \in Agents : i \in IdsOf(ToSet(stream[b]))
    BY DEF StreamIds
  <2>2. \A i : i \in StreamIds' <=> \E b \in Agents : i \in IdsOf(ToSet(stream'[b]))
    BY DEF StreamIds
  <2>3. ASSUME NEW i \in StreamIds' PROVE i \in StreamIds \ {t.id}
    BY <1>2, <1>3, <1>4, <2>1, <2>2
  <2>4. ASSUME NEW i \in StreamIds \ {t.id} PROVE i \in StreamIds'
    BY <1>2, <1>3, <2>1, <2>2
  <2> QED BY <2>3, <2>4
<1>6. t.id \in StreamIds
  BY <1>3 DEF StreamIds, IdsOf
<1> QED BY <1>2, <1>3, <1>5, <1>6 DEF TypeOK

\* An id that is given out keeps its agent.
LEMMA OriginGrows ==
  ASSUME TypeOK, NEW x \in Seq([from : Nat, agent : Agents]), origin' = origin \o x
  PROVE  /\ origin' \in Seq([from : Nat, agent : Agents])
         /\ Asked \in Nat /\ Asked' = Asked + Len(x) /\ 1..Asked \subseteq 1..(Asked')
         /\ \A m : Known(m) => Known(m)'
         /\ \A k \in 1..Len(x) : origin'[Asked + k] = x[k]
<1> DEFINE n == Len(x)
<1>1. /\ origin' \in Seq([from : Nat, agent : Agents])
      /\ Asked \in Nat /\ Asked' = Asked + n /\ n \in Nat
      /\ \A i \in 1..(Asked + n) : origin'[i] = IF i <= Asked THEN origin[i] ELSE x[i - Asked]
  BY ConcatProperties, LenProperties DEF TypeOK, Asked
<1> HIDE DEF n
<1>2. 1..Asked \subseteq 1..(Asked') /\ \A i \in 1..Asked : i \in 1..(Asked + n) /\ i <= Asked
  BY <1>1
<1>3. \A i \in 1..Asked : origin'[i] = origin[i]
  BY <1>1, <1>2
<1>4. \A m : Known(m) => Known(m)'
  BY <1>2, <1>3 DEF Known
<1>6. ASSUME NEW k \in 1..n PROVE origin'[Asked + k] = x[k]
  <2> DEFINE i == Asked + k
  <2>1. i \in 1..(Asked + n) /\ ~(i <= Asked) /\ i - Asked = k
    BY <1>1
  <2> HIDE DEF i
  <2>2. origin'[i] = x[i - Asked]
    BY <1>1, <2>1
  <2>3. origin'[i] = x[k]
    BY <2>1, <2>2
  <2> QED BY <2>3 DEF i
<1> QED BY <1>1, <1>2, <1>4, <1>6 DEF n

\* Every id in a place was given out.
LEMMA IdsKnown ==
  ASSUME TypeOK, Home
  PROVE  /\ Early \subseteq 1..Asked /\ Late \subseteq 1..Asked
         /\ dropped \subseteq 1..Asked
<1>1. OutIds \subseteq 1..Asked /\ StreamIds \subseteq 1..Asked /\ ResultIds \subseteq 1..Asked
  BY DEF Home, OutIds, StreamIds, ResultIds, IdsOf, Known
<1>2. CarriedIds \subseteq 1..Asked /\ DispatchedIds \subseteq 1..Asked
  <2> SUFFICES ASSUME NEW a \in Agents, ~At(a, "idle") PROVE work[a].task.id \in 1..Asked
    BY DEF CarriedIds, DispatchedIds, Doing, Carrying, At
  <2>1. work[a].task \in pending[a]
    BY WorkPhases
  <2> QED BY <2>1 DEF Home, Known
<1>3. GotIds \subseteq 1..Asked
  BY DEF TypeOK, Home, GotIds, Known
<1>4. AnswerIds \subseteq 1..Asked /\ dropped \subseteq 1..Asked
  BY ToSetProperties DEF TypeOK, AnswerIds
<1> QED BY <1>1, <1>2, <1>3, <1>4 DEF Early, Late

LEMMA SameIds ==
  /\ outbox' = outbox => OutIds' = OutIds
  /\ stream' = stream => StreamIds' = StreamIds
  /\ results' = results => ResultIds' = ResultIds
  /\ api'.phase = api.phase /\ api'.got = api.got => GotIds' = GotIds
  /\ answers' = answers => AnswerIds' = AnswerIds
  /\ work' = work => /\ CarriedIds' = CarriedIds
                     /\ DispatchedIds' = DispatchedIds
BY DEF OutIds, StreamIds, ResultIds, GotIds, AnswerIds, CarriedIds, DispatchedIds, Doing, Carrying

\* A busy worker goes on with its task.
LEMMA WorkGoesOn ==
  ASSUME TypeOK, Home, NEW a \in Agents, ~At(a, "idle"), NEW w \in Busy,
         work' = [work EXCEPT ![a] = w], w.task = work[a].task, w.left \subseteq w.all,
         pending' = pending
  PROVE  /\ work' \in [Agents -> {None} \cup Busy]
         /\ \A b \in Agents : work'[b] # None =>
              work'[b].task \in pending'[b] /\ work'[b].left \subseteq work'[b].all
<1>1. work[a].task \in pending[a]
  BY WorkPhases
<1>2. work'[a] = w /\ \A b \in Agents \ {a} : work'[b] = work[b]
  BY DEF TypeOK
<1> QED BY <1>1, <1>2 DEF TypeOK

\* A worker stops: nothing that it had joins a place.
LEMMA WorkStops ==
  ASSUME TypeOK, Home, NEW a \in Agents, work' = [work EXCEPT ![a] = None],
         \/ pending' = [pending EXCEPT ![a] = @ \ {work[a].task}]
         \/ pending' = pending
  PROVE  /\ work' \in [Agents -> {None} \cup Busy]
         /\ pending' \in [Agents -> SUBSET Task]
         /\ \A b \in Agents : pending'[b] \subseteq pending[b]
         /\ \A b \in Agents : work'[b] # None =>
              work'[b].task \in pending'[b] /\ work'[b].left \subseteq work'[b].all
         /\ \A b \in Agents : work'[b] # None => b # a /\ work'[b] = work[b]
<1>1. work'[a] = None /\ \A b \in Agents \ {a} : work'[b] = work[b]
  BY DEF TypeOK
<1>2. /\ pending' \in [Agents -> SUBSET Task]
      /\ \A b \in Agents \ {a} : pending'[b] = pending[b]
      /\ pending'[a] \subseteq pending[a]
  BY DEF TypeOK
<1> QED BY <1>1, <1>2 DEF TypeOK

LEMMA XAddIds ==
  ASSUME TypeOK, Home, Once, NEW t \in Task, t.id \notin StreamIds, XAdd(t)
  PROVE  /\ stream' \in [Agents -> Seq(Task)]
         /\ StreamIds' = StreamIds \/ StreamIds' = StreamIds \cup {t.id}
         /\ \A a \in Agents : NoRepeat(stream'[a])
         /\ \A u : \A a \in Agents : u \in ToSet(stream'[a]) =>
              u \in ToSet(stream[a]) \/ (u = t /\ a = t.agent)
<1>1. CASE stream' = stream
  BY <1>1, SameIds DEF TypeOK, Once
<1>2. CASE stream' = [stream EXCEPT ![t.agent] = Append(@, t)]
  <2>1. \A a \in Agents : NoRepeat(stream[a])
    BY DEF Once
  <2> QED BY <1>2, <2>1, StreamAppend
<1> QED BY <1>1, <1>2 DEF XAdd

\* Ids are given out with no runs.
LEMMA NewIds ==
  ASSUME TypeOK, Home, NEW x \in Seq([from : Nat, agent : Agents]), NEW z \in Seq({0}),
         Len(z) = Len(x), origin' = origin \o x, runs' = runs \o z
  PROVE  /\ origin' \in Seq([from : Nat, agent : Agents])
         /\ runs' \in Seq(0..MaxRetries) /\ Len(runs') = Asked'
         /\ Asked \in Nat /\ Asked' = Asked + Len(x)
         /\ answers \in Seq(1..(Asked')) /\ dropped \subseteq 1..(Asked')
         /\ \A m : Known(m) => Known(m)' /\ runs'[m.id] = runs[m.id]
         /\ \A k \in 1..Len(x) : origin'[Asked + k] = x[k] /\ runs'[Asked + k] = 0
         /\ \A i \in Early \cup Late \cup dropped : i <= Asked
<1> DEFINE n == Len(x)
<1>1. /\ origin' \in Seq([from : Nat, agent : Agents]) /\ n \in Nat
      /\ Asked \in Nat /\ Asked' = Asked + n /\ 1..Asked \subseteq 1..(Asked')
      /\ \A m : Known(m) => Known(m)'
      /\ \A k \in 1..n : origin'[Asked + k] = x[k]
  BY OriginGrows, LenProperties
<1>2. z \in Seq(0..MaxRetries) /\ \A k \in 1..n : z[k] = 0
  <2>1. {0} \subseteq 0..MaxRetries
    BY RetriesType
  <2>2. z \in Seq(0..MaxRetries)
    BY <2>1, SeqMonotonic
  <2>3. ASSUME NEW k \in 1..n PROVE z[k] = 0
    BY ElementOfSeq
  <2> QED BY <2>2, <2>3
<1>3. /\ runs' \in Seq(0..MaxRetries) /\ Len(runs') = Asked + n
      /\ \A i \in 1..(Asked + n) : runs'[i] = IF i <= Asked THEN runs[i] ELSE z[i - Asked]
  <2>1. runs \in Seq(0..MaxRetries) /\ Len(runs) = Asked /\ Len(z) = n
    BY DEF TypeOK
  <2>2. /\ runs \o z \in Seq(0..MaxRetries) /\ Len(runs \o z) = Len(runs) + Len(z)
        /\ \A i \in 1..(Len(runs) + Len(z)) :
             (runs \o z)[i] = IF i <= Len(runs) THEN runs[i] ELSE z[i - Len(runs)]
    BY <1>2, <2>1, ConcatProperties
  <2> QED BY <2>1, <2>2
<1>4. answers \in Seq(1..(Asked')) /\ dropped \subseteq 1..(Asked')
  BY <1>1, SeqMonotonic DEF TypeOK
<1>5. \A i \in Early \cup Late \cup dropped : i <= Asked
  BY <1>1, IdsKnown
<1> HIDE DEF n
<1>6. ASSUME NEW i \in 1..Asked PROVE runs'[i] = runs[i]
  <2>1. i \in 1..(Asked + n) /\ i <= Asked
    BY <1>1
  <2> QED BY <1>3, <2>1
<1>7. ASSUME NEW k \in 1..n PROVE runs'[Asked + k] = 0
  <2> DEFINE i == Asked + k
  <2>1. i \in 1..(Asked + n) /\ ~(i <= Asked) /\ i - Asked = k
    BY <1>1
  <2> HIDE DEF i
  <2>2. runs'[i] = z[k]
    BY <1>3, <2>1
  <2> QED BY <1>2, <2>2 DEF i
<1>8. \A m : Known(m) => runs'[m.id] = runs[m.id]
  BY <1>6 DEF Known
<1> QED BY <1>1, <1>3, <1>4, <1>5, <1>7, <1>8 DEF n

LEMMA OneNewId ==
  ASSUME TypeOK, Home, NEW e \in [from : Nat, agent : Agents],
         origin' = Append(origin, e), runs' = Append(runs, 0)
  PROVE  /\ origin' \in Seq([from : Nat, agent : Agents])
         /\ runs' \in Seq(0..MaxRetries) /\ Len(runs') = Asked'
         /\ Asked \in Nat /\ Asked' = Asked + 1
         /\ answers \in Seq(1..(Asked')) /\ dropped \subseteq 1..(Asked')
         /\ \A m : Known(m) => Known(m)' /\ runs'[m.id] = runs[m.id]
         /\ origin'[Asked + 1] = e /\ runs'[Asked + 1] = 0
         /\ Asked + 1 \notin Early \cup Late \cup dropped
<1>1. origin' = origin \o <<e>> /\ runs' = runs \o <<0>>
  <2>1. 0 \in 0..MaxRetries
    BY RetriesType
  <2> QED BY <2>1, AppendIsConcat DEF TypeOK
<1>2. /\ <<e>> \in Seq([from : Nat, agent : Agents]) /\ <<0>> \in Seq({0})
      /\ Len(<<e>>) = 1 /\ Len(<<0>>) = 1 /\ <<e>>[1] = e /\ 1 \in 1..1
  OBVIOUS
<1> DEFINE x == <<e>>  z == <<0>>
<1> HIDE DEF x, z
<1>3. /\ origin' \in Seq([from : Nat, agent : Agents])
      /\ runs' \in Seq(0..MaxRetries) /\ Len(runs') = Asked'
      /\ Asked \in Nat /\ Asked' = Asked + Len(x)
      /\ answers \in Seq(1..(Asked')) /\ dropped \subseteq 1..(Asked')
      /\ \A m : Known(m) => Known(m)' /\ runs'[m.id] = runs[m.id]
      /\ \A k \in 1..Len(x) : origin'[Asked + k] = x[k] /\ runs'[Asked + k] = 0
      /\ \A i \in Early \cup Late \cup dropped : i <= Asked
  <2>1. /\ x \in Seq([from : Nat, agent : Agents]) /\ z \in Seq({0}) /\ Len(z) = Len(x)
        /\ origin' = origin \o x /\ runs' = runs \o z
    BY <1>1, <1>2 DEF x, z
  <2> QED BY <2>1, NewIds
<1>4. Len(x) = 1 /\ x[1] = e
  BY <1>2 DEF x
<1>5. Asked + 1 \notin Early \cup Late \cup dropped
  BY <1>3
<1> QED BY <1>2, <1>3, <1>4, <1>5

-----------------------------------------------------------------------------
(* The steps of the API server.                                            *)

LEMMA InitIInv == Init => IInv
<1> SUFFICES ASSUME Init PROVE IInv
  OBVIOUS
<1> USE DEF Init, Listening
<1>1. Asked = 0 /\ \A S : <<>> \in Seq(S) /\ DOMAIN (<<>>) = {} /\ ToSet(<<>>) = {}
  BY EmptySeq DEF Asked, ToSet
<1>2. TypeOK
  BY <1>1 DEF TypeOK
<1>3. Home /\ Once /\ AnsweredOnce
  BY <1>1 DEF Home, Once, NoRepeat, AnsweredOnce
<1>4. Doing(Carrying) = {} /\ Doing({"dispatch"}) = {} /\ Doing({"run", "failed"}) = {}
  BY DEF Doing, Carrying, None
<1>5. Tried
  BY <1>1, <1>4 DEF Tried
<1>6. /\ OutIds = {} /\ StreamIds = {} /\ ResultIds = {} /\ GotIds = {} /\ AnswerIds = {}
      /\ CarriedIds = {} /\ DispatchedIds = {}
  BY <1>1, <1>4 DEF OutIds, StreamIds, ResultIds, GotIds, AnswerIds, IdsOf, CarriedIds, DispatchedIds
<1>7. Apart
  BY <1>6 DEF Apart, Disjoint, Early, Late
<1> QED BY <1>2, <1>3, <1>5, <1>7 DEF IInv

LEMMA AskStep ==
  ASSUME IInv, NEW a \in Agents, Ask(a)
  PROVE  IInv'
<1> USE DEF IInv
<1>1. PICK t, e :
        /\ t = [id |-> Asked + 1, agent |-> a, tries |-> 0] /\ e = [from |-> 0, agent |-> a]
        /\ outbox' = outbox \cup {t} /\ origin' = Append(origin, e) /\ runs' = Append(runs, 0)
        /\ UNCHANGED <<stream, pending, work, results, rpending, api, answers, dropped>>
  BY DEF Ask
<1>2. e \in [from : Nat, agent : Agents] /\ e.agent = a
  BY <1>1
<1>3. /\ origin' \in Seq([from : Nat, agent : Agents])
      /\ runs' \in Seq(0..MaxRetries) /\ Len(runs') = Asked'
      /\ Asked \in Nat /\ Asked' = Asked + 1
      /\ answers \in Seq(1..(Asked')) /\ dropped \subseteq 1..(Asked')
      /\ \A m : Known(m) => Known(m)' /\ runs'[m.id] = runs[m.id]
      /\ origin'[Asked + 1] = e /\ runs'[Asked + 1] = 0
      /\ Asked + 1 \notin Early \cup Late \cup dropped
  BY <1>1, <1>2, OneNewId
<1>4. t \in Task /\ t.id = Asked + 1 /\ t.agent = a /\ t.tries = 0
  BY <1>1, <1>3, RetriesType DEF Task
<1>5. TypeOK'
  BY <1>1, <1>3, <1>4 DEF TypeOK
<1>6. Home'
  <2>1. Known(t)'
    BY <1>2, <1>3, <1>4 DEF Known
  <2> QED BY <1>1, <1>3, <2>1 DEF Home
<1>7. Once' /\ AnsweredOnce'
  <2>1. \A u \in outbox : u.id # t.id
    BY <1>3, <1>4 DEF Early, OutIds, IdsOf
  <2> QED BY <1>1, <2>1 DEF Once, AnsweredOnce
<1>8. Apart'
  <2>1. OutIds' = OutIds \cup {t.id}
    BY <1>1 DEF OutIds, IdsOf
  <2>2. /\ StreamIds' = StreamIds /\ ResultIds' = ResultIds /\ GotIds' = GotIds
        /\ AnswerIds' = AnswerIds /\ CarriedIds' = CarriedIds
        /\ DispatchedIds' = DispatchedIds /\ dropped' = dropped
    BY <1>1, SameIds
  <2> QED BY <1>3, <1>4, <2>1, <2>2 DEF Apart, Disjoint, Early, Late
<1>9. Tried'
  <2>1. \A u \in outbox : runs'[u.id] <= u.tries
    BY <1>3 DEF Tried, Home
  <2>2. \A b \in Agents : \A u \in ToSet(stream[b]) : runs'[u.id] <= u.tries
    BY <1>3 DEF Tried, Home
  <2>3. ASSUME NEW b \in Doing({"run", "failed"})
        PROVE  runs'[work[b].task.id] <= work[b].task.tries + 1
    <3>1. Known(work[b].task)
      BY <2>3, WorkPhases DEF Doing, At, Home
    <3> QED BY <1>3, <2>3, <3>1 DEF Tried
  <2>4. runs'[t.id] <= t.tries
    BY <1>3, <1>4
  <2>5. \A u \in outbox' : runs'[u.id] <= u.tries
    BY <1>1, <2>1, <2>4
  <2> QED BY <1>1, <2>2, <2>3, <2>5 DEF Tried, Doing
<1> QED BY <1>5, <1>6, <1>7, <1>8, <1>9

LEMMA SendTaskStep ==
  ASSUME IInv, NEW t \in outbox, SendTask(t)
  PROVE  IInv'
<1> USE DEF IInv
<1>1. /\ outbox' = outbox \ {t} /\ XAdd(t)
      /\ UNCHANGED <<pending, work, results, rpending, api, answers, dropped, runs, origin>>
  BY DEF SendTask
<1>2. t \in Task /\ Known(t) /\ t.id \in OutIds /\ runs[t.id] <= t.tries
  BY DEF TypeOK, Home, OutIds, IdsOf, Tried
<1>3. t.id \notin StreamIds
  BY <1>2 DEF Apart, Disjoint
<1>4. /\ stream' \in [Agents -> Seq(Task)]
      /\ StreamIds' = StreamIds \/ StreamIds' = StreamIds \cup {t.id}
      /\ \A a \in Agents : NoRepeat(stream'[a])
      /\ \A u : \A a \in Agents : u \in ToSet(stream'[a]) =>
           u \in ToSet(stream[a]) \/ (u = t /\ a = t.agent)
  BY <1>1, <1>2, <1>3, XAddIds
<1>5. TypeOK'
  BY <1>1, <1>4 DEF TypeOK, Asked
<1>6. Home'
  BY <1>1, <1>2, <1>4 DEF Home, Known, Asked
<1>7. Once' /\ AnsweredOnce'
  BY <1>1, <1>4 DEF Once, AnsweredOnce
<1>8. Apart'
  <2>1. OutIds' = OutIds \ {t.id}
    BY <1>1 DEF OutIds, IdsOf, Once
  <2>2. /\ ResultIds' = ResultIds /\ GotIds' = GotIds
        /\ AnswerIds' = AnswerIds /\ CarriedIds' = CarriedIds
        /\ DispatchedIds' = DispatchedIds /\ dropped' = dropped
    BY <1>1, SameIds
  <2> QED BY <1>2, <1>4, <2>1, <2>2 DEF Apart, Disjoint, Early, Late
<1>9. Tried'
  BY <1>1, <1>2, <1>4 DEF Tried, Doing
<1> QED BY <1>5, <1>6, <1>7, <1>8, <1>9

LEMMA ReadResultStep ==
  ASSUME IInv, ReadResult
  PROVE  IInv'
<1> DEFINE r == Head(results)
<1> USE DEF IInv
<1>1. /\ api.phase = "idle" /\ results # <<>>
      /\ api' = [api EXCEPT !.phase = "read", !.got = r]
      /\ results' = Tail(results) /\ rpending' = rpending \cup {r}
      /\ UNCHANGED <<stream, pending, work, outbox, answers, dropped, runs, origin>>
  BY DEF ReadResult
<1>2. /\ r \in Result /\ r \in ToSet(results) /\ results' \in Seq(Result)
      /\ ToSet(results') \subseteq ToSet(results) /\ NoRepeat(results')
      /\ ResultIds' = ResultIds \ {r.id}
  BY <1>1, TailIds DEF TypeOK, Once, ResultIds
<1> HIDE DEF r
<1>3. api'.phase = "read" /\ api'.got = r
  BY <1>1 DEF TypeOK
<1>4. TypeOK'
  BY <1>1, <1>2 DEF TypeOK, Asked
<1>5. Home'
  BY <1>1, <1>2 DEF Home, Known, Asked
<1>6. Once' /\ AnsweredOnce'
  BY <1>1, <1>2 DEF Once, AnsweredOnce
<1>7. Apart'
  <2>1. GotIds = {} /\ GotIds' = {r.id} /\ r.id \in ResultIds
    BY <1>1, <1>2, <1>3 DEF GotIds, ResultIds, IdsOf
  <2>2. /\ OutIds' = OutIds /\ StreamIds' = StreamIds
        /\ AnswerIds' = AnswerIds /\ CarriedIds' = CarriedIds
        /\ DispatchedIds' = DispatchedIds /\ dropped' = dropped
    BY <1>1, SameIds
  <2> QED BY <1>2, <2>1, <2>2 DEF Apart, Disjoint, Early, Late
<1>8. Tried'
  BY <1>1 DEF Tried, Doing
<1> QED BY <1>4, <1>5, <1>6, <1>7, <1>8

\* The listener is through with a result, the API server dies or is up again.
LEMMA ListenerStep ==
  ASSUME IInv, RefuseResult \/ AckResult \/ ApiCrash \/ LoadAllSessions
  PROVE  IInv'
<1> USE DEF IInv, RefuseResult, AckResult, ApiCrash, LoadAllSessions, Listening
<1>1. /\ outbox' \subseteq outbox /\ rpending' \subseteq rpending
      /\ UNCHANGED <<stream, pending, work, results, answers, dropped, runs, origin>>
  OBVIOUS
<1>2. TypeOK'
  <2>1. api' \in [loaded : BOOLEAN, phase : {"idle", "read", "done"}, got : Result \cup {<<>>}]
    BY DEF TypeOK
  <2>2. api'.phase = "idle" \/ (api'.phase = api.phase /\ api'.got = api.got /\ rpending' = rpending)
    BY DEF TypeOK
  <2>3. api'.phase # "idle" => api'.got \in rpending'
    BY <2>2 DEF TypeOK
  <2> QED BY <1>1, <2>1, <2>3 DEF TypeOK, Asked
<1>3. Home' /\ Once' /\ AnsweredOnce'
  BY <1>1 DEF Home, Once, AnsweredOnce, Known, Asked
<1>4. Apart'
  <2>1. OutIds' \subseteq OutIds
    BY <1>1 DEF OutIds, IdsOf
  <2>2. GotIds' \subseteq GotIds
    BY DEF GotIds, TypeOK
  <2>3. /\ StreamIds' = StreamIds /\ ResultIds' = ResultIds
        /\ AnswerIds' = AnswerIds /\ CarriedIds' = CarriedIds
        /\ DispatchedIds' = DispatchedIds /\ dropped' = dropped
    BY <1>1, SameIds
  <2> QED BY <2>1, <2>2, <2>3 DEF Apart, Disjoint, Early, Late
<1>5. Tried'
  BY <1>1 DEF Tried, Doing
<1> QED BY <1>2, <1>3, <1>4, <1>5

\* SetToSeq gives each mention a goroutine and an id of its own.
LEMMA MentionsInOrder ==
  ASSUME NEW S \in SUBSET Agents
  PROVE  SetToSeq(S) \in [1..Cardinality(S) -> S] /\ Cardinality(S) \in Nat
<1>1. IsFiniteSet(S) /\ Cardinality(S) \in Nat
  BY AgentsType, FS_Subset, FS_CardinalityType
<1>2. \E f \in [1..Cardinality(S) -> S] : IsInjective(f)
  <2>1. PICK f : f \in Bijection(1..Cardinality(S), S)
    BY <1>1, FS_CardinalityType DEF ExistsBijection
  <2> QED BY <2>1 DEF Bijection, Injection, Surjection, IsInjective
<1> QED BY <1>1, <1>2 DEF SetToSeq

LEMMA HandleResultStep ==
  ASSUME IInv, HandleResult
  PROVE  IInv'
<1> USE DEF IInv
<1>1. PICK r, cats :
        /\ r = api.got /\ cats = SetToSeq(r.mentions) /\ api.phase = "read"
        /\ answers' = Append(answers, r.id)
        /\ outbox' = outbox \cup
             {[id |-> Asked + k, agent |-> cats[k], tries |-> 0] : k \in DOMAIN cats}
        /\ origin' = origin \o [k \in DOMAIN cats |-> [from |-> r.id, agent |-> cats[k]]]
        /\ runs' = runs \o [k \in DOMAIN cats |-> 0]
        /\ api' = [api EXCEPT !.phase = "done"]
        /\ UNCHANGED <<stream, pending, work, results, rpending, dropped>>
  BY DEF HandleResult
<1>2. r \in Result /\ r \in rpending /\ r.mentions \in SUBSET Agents /\ Known(r) /\ r.id \in Nat
  BY <1>1 DEF TypeOK, Home, Result
<1>3. PICK n \in Nat : cats \in [1..n -> Agents] /\ DOMAIN cats = 1..n
  BY <1>1, <1>2, MentionsInOrder
<1> DEFINE x == [k \in 1..n |-> [from |-> r.id, agent |-> cats[k]]]
           z == [k \in 1..n |-> 0]
<1>4. /\ x \in Seq([from : Nat, agent : Agents]) /\ z \in Seq({0}) /\ Len(x) = n /\ Len(z) = n
      /\ \A k \in 1..n : x[k].agent = cats[k]
  BY <1>2, <1>3
<1>5. origin' = origin \o x /\ runs' = runs \o z
  BY <1>1, <1>3
<1> HIDE DEF x, z
<1>6. /\ origin' \in Seq([from : Nat, agent : Agents])
      /\ runs' \in Seq(0..MaxRetries) /\ Len(runs') = Asked'
      /\ Asked \in Nat /\ Asked' = Asked + n
      /\ answers \in Seq(1..(Asked')) /\ dropped \subseteq 1..(Asked')
      /\ \A m : Known(m) => Known(m)' /\ runs'[m.id] = runs[m.id]
      /\ \A k \in 1..n : origin'[Asked + k] = x[k] /\ runs'[Asked + k] = 0
      /\ \A i \in Early \cup Late \cup dropped : i <= Asked
  BY <1>4, <1>5, NewIds
<1>17. PICK new : new = [k \in 1..n |-> [id |-> Asked + k, agent |-> cats[k], tries |-> 0]]
  OBVIOUS
<1>7. /\ outbox' = outbox \cup {new[k] : k \in 1..n}
      /\ \A k \in 1..n : /\ new[k] \in Task /\ new[k].id = Asked + k
                         /\ new[k].agent = cats[k] /\ new[k].tries = 0
  <2>1. ASSUME NEW k \in 1..n
        PROVE  /\ new[k] \in Task /\ new[k].id = Asked + k
               /\ new[k].agent = cats[k] /\ new[k].tries = 0
    <3>1. new[k] = [id |-> Asked + k, agent |-> cats[k], tries |-> 0]
      BY <1>17
    <3>2. Asked + k \in Nat /\ cats[k] \in Agents /\ 0 \in 0..(MaxRetries - 1)
      BY <1>3, <1>6, RetriesType
    <3>3. new[k] \in Task
      BY <3>1, <3>2 DEF Task
    <3> QED BY <3>1, <3>3
  <2>2. {[id |-> Asked + k, agent |-> cats[k], tries |-> 0] : k \in DOMAIN cats} =
        {new[k] : k \in 1..n}
    BY <1>3, <1>17
  <2> QED BY <1>1, <2>1, <2>2
<1>18. ASSUME NEW k \in 1..n
       PROVE  /\ new[k].id \in 1..(Asked') /\ new[k].agent = origin'[new[k].id].agent
              /\ runs'[new[k].id] = 0 /\ new[k].id > Asked
              /\ new[k].id \notin Early \cup Late \cup dropped
  <2>1. new[k].id = Asked + k /\ new[k].agent = cats[k]
    BY <1>7
  <2>2. origin'[Asked + k].agent = cats[k] /\ runs'[Asked + k] = 0
    BY <1>4, <1>6
  <2>3. Asked \in Nat /\ n \in Nat /\ k \in 1..n /\ Asked' = Asked + n
    BY <1>3, <1>6
  <2>4. Asked + k \in 1..(Asked') /\ Asked + k > Asked /\ ~(Asked + k <= Asked)
    BY ONLY <2>3
  <2> QED BY <1>6, <2>1, <2>2, <2>4
<1>8. /\ r.id \in 1..(Asked') /\ answers \in Seq(1..(Asked')) /\ answers' \in Seq(1..(Asked'))
      /\ AnswerIds' = AnswerIds \cup {r.id}
  <2>1. r.id \in 1..(Asked')
    BY <1>2, <1>6 DEF Known
  <2>2. answers' \in Seq(1..(Asked')) /\ ToSet(answers') = ToSet(answers) \cup {r.id}
    <3>1. PICK S : S = 1..(Asked')
      OBVIOUS
    <3>2. answers \in Seq(S) /\ r.id \in S
      BY <1>6, <2>1, <3>1
    <3>3. Append(answers, r.id) \in Seq(S) /\ ToSet(Append(answers, r.id)) = ToSet(answers) \cup {r.id}
      BY <3>2, AppendIds
    <3> QED BY <1>1, <3>1, <3>3
  <2> QED BY <1>6, <2>1, <2>2 DEF AnswerIds
<1>9. api'.phase = "done" /\ api'.got = r
  BY <1>1 DEF TypeOK
<1>10. TypeOK'
  <2>1. outbox \subseteq Task
    BY DEF TypeOK
  <2>2. outbox' \subseteq Task
    <3>1. \A k \in 1..n : new[k] \in Task
      BY <1>7
    <3>2. outbox' = outbox \cup {new[k] : k \in 1..n}
      BY <1>7
    <3> QED BY ONLY <2>1, <3>1, <3>2
  <2> QED BY <1>1, <1>2, <1>6, <1>8, <2>2 DEF TypeOK
<1>11. Home'
  <2>1. \A k \in 1..n : Known(new[k])'
    BY <1>18 DEF Known
  <2>2. \A t \in outbox' : Known(t)'
    BY <1>6, <1>7, <2>1 DEF Home
  <2> QED BY <1>1, <1>6, <2>2 DEF Home
<1>12. Once'
  <2>1. ASSUME NEW k \in 1..n, NEW u \in outbox PROVE u.id # new[k].id
    <3>1. u.id \in Early
      BY DEF Early, OutIds, IdsOf
    <3>2. new[k].id \notin Early
      BY <1>18
    <3> QED BY <3>1, <3>2
  <2>2. ASSUME NEW j \in 1..n, NEW k \in 1..n, new[j].id = new[k].id PROVE j = k
    <3>1. Asked + j = Asked + k
      BY <1>7, <2>2
    <3> QED BY <1>6, <3>1
  <2>3. \A t, u \in outbox' : t.id = u.id => t = u
    BY <1>7, <2>1, <2>2 DEF Once
  <2> QED BY <1>1, <2>3 DEF Once
<1>13. GotIds = {r.id} /\ GotIds' = {}
  BY <1>1, <1>9 DEF GotIds
<1>14. AnsweredOnce'
  <2>1. r.id \notin AnswerIds
    BY <1>13 DEF Apart, Disjoint
  <2>2. /\ Len(answers) \in Nat /\ DOMAIN answers = 1..Len(answers)
        /\ DOMAIN answers' = 1..(Len(answers) + 1) /\ answers'[Len(answers) + 1] = r.id
        /\ \A i \in 1..Len(answers) : answers'[i] = answers[i]
    BY <1>1, <1>6, <1>8, AppendProperties, LenProperties
  <2>3. \A i \in DOMAIN answers : answers[i] # r.id
    BY <2>1 DEF AnswerIds, ToSet
  <2> QED BY <2>2, <2>3 DEF AnsweredOnce
<1>15. Apart'
  <2>1. OutIds' = OutIds \cup {new[k].id : k \in 1..n}
    BY <1>7 DEF OutIds, IdsOf
  <2>2. {new[k].id : k \in 1..n} \cap (Early \cup Late \cup dropped) = {}
    BY <1>18
  <2>3. /\ StreamIds' = StreamIds /\ ResultIds' = ResultIds
        /\ CarriedIds' = CarriedIds
        /\ DispatchedIds' = DispatchedIds /\ dropped' = dropped
    BY <1>1, SameIds
  <2> QED BY <1>8, <1>13, <2>1, <2>2, <2>3 DEF Apart, Disjoint, Early, Late
<1>16. Tried'
  <2>1. \A u \in outbox : runs'[u.id] <= u.tries
    BY <1>6 DEF Tried, Home
  <2>2. \A b \in Agents : \A u \in ToSet(stream[b]) : runs'[u.id] <= u.tries
    BY <1>6 DEF Tried, Home
  <2>3. ASSUME NEW b \in Doing({"run", "failed"})
        PROVE  runs'[work[b].task.id] <= work[b].task.tries + 1
    <3>1. Known(work[b].task)
      BY <2>3, WorkPhases DEF Doing, At, Home
    <3> QED BY <1>6, <2>3, <3>1 DEF Tried
  <2>4. \A k \in 1..n : runs'[new[k].id] <= new[k].tries
    BY <1>7, <1>18
  <2>5. \A u \in outbox' : runs'[u.id] <= u.tries
    BY <1>7, <2>1, <2>4
  <2> QED BY <1>1, <2>2, <2>3, <2>5 DEF Tried, Doing
<1> QED BY <1>10, <1>11, <1>12, <1>14, <1>15, <1>16

-----------------------------------------------------------------------------
(* The steps of the workers.                                               *)

LEMMA ReadTaskStep ==
  ASSUME IInv, NEW a \in Agents, ReadTask(a)
  PROVE  IInv'
<1> USE DEF IInv
<1>1. PICK t, w :
        /\ t = Head(stream[a]) /\ w = [phase |-> "run", task |-> t, all |-> {}, left |-> {}]
        /\ At(a, "idle") /\ stream[a] # <<>>
        /\ stream' = [stream EXCEPT ![a] = Tail(@)]
        /\ pending' = [pending EXCEPT ![a] = @ \cup {t}]
        /\ work' = [work EXCEPT ![a] = w]
        /\ runs' = [runs EXCEPT ![t.id] = @ + 1]
        /\ UNCHANGED <<results, rpending, api, outbox, answers, dropped, origin>>
  BY DEF ReadTask
<1>2. /\ t \in Task /\ t \in ToSet(stream[a]) /\ stream' \in [Agents -> Seq(Task)]
      /\ StreamIds' = StreamIds \ {t.id} /\ t.id \in StreamIds
      /\ \A b \in Agents : NoRepeat(stream'[b])
      /\ \A b \in Agents : ToSet(stream'[b]) \subseteq ToSet(stream[b])
  <2>1. \A b \in Agents : NoRepeat(stream[b])
    BY DEF Once
  <2> QED BY <1>1, <2>1, StreamTail
<1>3. t.agent = a /\ Known(t) /\ runs[t.id] <= t.tries
  BY <1>2 DEF Home, Tried
<1>4. w \in Busy /\ w.phase = "run" /\ w.task = t /\ w.left \subseteq w.all
  BY <1>1, <1>2 DEF Busy
<1>5. /\ runs' \in Seq(0..MaxRetries) /\ Len(runs') = Len(runs)
      /\ \A i \in 1..Asked : runs'[i] = IF i = t.id THEN runs[t.id] + 1 ELSE runs[i]
  <2>1. t.id \in 1..Len(runs)
    BY <1>3 DEF Known, TypeOK
  <2>2. runs[t.id] \in 0..MaxRetries
    BY <2>1, ElementOfSeq DEF TypeOK
  <2>3. t.tries \in 0..(MaxRetries - 1)
    BY <1>2 DEF Task
  <2>4. runs[t.id] + 1 \in 0..MaxRetries
    BY <1>3, <2>2, <2>3, RetriesType
  <2> QED BY <1>1, <2>1, <2>4, ExceptSeq DEF TypeOK
<1>6. TypeOK'
  <2>1. pending' \in [Agents -> SUBSET Task]
    BY <1>1, <1>2 DEF TypeOK
  <2>2. work' \in [Agents -> {None} \cup Busy]
    BY <1>1, <1>4 DEF TypeOK
  <2>3. ASSUME NEW b \in Agents, work'[b] # None
        PROVE  work'[b].task \in pending'[b] /\ work'[b].left \subseteq work'[b].all
    BY <1>1, <1>4, <2>3 DEF TypeOK
  <2> QED BY <1>1, <1>2, <1>5, <2>1, <2>2, <2>3 DEF TypeOK, Asked
<1>7. Home'
  <2>1. \A m : Known(m)' <=> Known(m)
    BY <1>1 DEF Known, Asked
  <2>2. \A u : \A b \in Agents : u \in pending'[b] => u \in pending[b] \/ (b = a /\ u = t)
    BY <1>1 DEF TypeOK
  <2> QED BY <1>1, <1>2, <1>3, <2>1, <2>2 DEF Home
<1>8. Once' /\ AnsweredOnce'
  BY <1>1, <1>2 DEF Once, AnsweredOnce
<1>9. work[a].phase = "idle"
  BY <1>1 DEF At
<1>10. /\ CarriedIds = Others(a, Carrying)
       /\ CarriedIds' = Others(a, Carrying) \cup {t.id}
       /\ DispatchedIds' = DispatchedIds
  <2>1. "run" \in Carrying /\ "idle" \notin Carrying
    BY DEF Carrying
  <2>2. /\ CarriedIds = Others(a, Carrying) \cup
             (IF work[a].phase \in Carrying THEN {work[a].task.id} ELSE {})
        /\ CarriedIds' = Others(a, Carrying) \cup
             (IF w.phase \in Carrying THEN {w.task.id} ELSE {})
    BY <1>1, WorkChange
  <2>3. DispatchedIds' = DispatchedIds
    BY <1>1, <1>4, <1>9, WorkChange
  <2> QED BY <1>4, <1>9, <2>1, <2>2, <2>3
<1>12. Apart'
  <2>1. /\ OutIds' = OutIds /\ ResultIds' = ResultIds /\ GotIds' = GotIds
        /\ AnswerIds' = AnswerIds /\ dropped' = dropped
    BY <1>1, SameIds
  <2> QED BY <1>2, <1>10, <2>1 DEF Apart, Disjoint, Early, Late
<1>13. Tried'
  <2>1. t.id \notin OutIds /\ t.id \notin StreamIds' /\ t.id \notin CarriedIds
    BY <1>2 DEF Apart, Disjoint
  <2>2. \A m : Known(m) /\ m.id # t.id => runs'[m.id] = runs[m.id]
    BY <1>5 DEF Known
  <2>3. ASSUME NEW u \in outbox PROVE runs'[u.id] <= u.tries
    BY <2>1, <2>2 DEF OutIds, IdsOf, Home, Tried
  <2>4. ASSUME NEW b \in Agents, NEW u \in ToSet(stream'[b]) PROVE runs'[u.id] <= u.tries
    <3>1. u.id # t.id
      BY <2>1 DEF StreamIds, IdsOf
    <3> QED BY <1>2, <2>2, <3>1 DEF Home, Tried
  <2>5. runs'[t.id] <= t.tries + 1
    <3>1. t.id \in 1..Asked /\ t.id \in 1..Len(runs)
      BY <1>3 DEF Known, TypeOK
    <3>2. runs[t.id] \in 0..MaxRetries /\ t.tries \in 0..(MaxRetries - 1)
      BY <1>2, <3>1, ElementOfSeq DEF TypeOK, Task
    <3> QED BY <1>3, <1>5, <3>1, <3>2, RetriesType
  <2>6. ASSUME NEW b \in Doing({"run", "failed"}), b # a
        PROVE  runs'[work[b].task.id] <= work[b].task.tries + 1
    <3>1. Known(work[b].task)
      BY <2>6, WorkPhases DEF Doing, At, Home
    <3>2. work[b].task.id \in CarriedIds
      BY <2>6 DEF CarriedIds, DispatchedIds, Doing, Carrying
    <3> QED BY <2>1, <2>2, <2>6, <3>1, <3>2 DEF Tried
  <2>7. \A b \in Agents \ {a} : work'[b] = work[b]
    BY <1>1 DEF TypeOK
  <2>8. work'[a] = w
    BY <1>1 DEF TypeOK
  <2>9. \A b \in Doing({"run", "failed"})' : runs'[work'[b].task.id] <= work'[b].task.tries + 1
    BY <1>4, <2>5, <2>6, <2>7, <2>8 DEF Doing
  <2> QED BY <1>1, <2>3, <2>4, <2>9 DEF Tried
<1> QED BY <1>6, <1>7, <1>8, <1>12, <1>13

\* The agent answers, or its execution fails.
LEMMA ExecuteStep ==
  ASSUME IInv, NEW a \in Agents, ExecuteTask(a) \/ ExecuteFails(a)
  PROVE  IInv'
<1> USE DEF IInv
<1>1. At(a, "run") /\ work[a].phase = "run" /\ work[a] \in Busy
  BY WorkPhases DEF ExecuteTask, ExecuteFails, At
<1>2. PICK w \in Busy : /\ work' = [work EXCEPT ![a] = w]
                        /\ w.phase \in {"send", "failed"} /\ w.task = work[a].task
                        /\ w.left \subseteq w.all
  <2>1. CASE ExecuteTask(a)
    <3>1. PICK all, inline :
            /\ all \in SUBSET (Agents \ {a}) /\ inline \in SUBSET all
            /\ work' = [work EXCEPT ![a] = [@ EXCEPT !.phase = "send", !.all = all, !.left = inline]]
      BY <2>1 DEF ExecuteTask
    <3> DEFINE w == [work[a] EXCEPT !.phase = "send", !.all = all, !.left = inline]
    <3>2. w.phase = "send" /\ w.task = work[a].task /\ w.left = inline /\ w.all = all
      BY <1>1 DEF Busy
    <3>3. all \in SUBSET Agents /\ inline \in SUBSET Agents
      BY <3>1
    <3>4. w \in Busy
      BY <1>1, <3>3 DEF Busy
    <3> HIDE DEF w
    <3>5. work' = [work EXCEPT ![a] = w]
      BY <3>1 DEF w
    <3> QED BY <3>1, <3>2, <3>4, <3>5
  <2>2. CASE ExecuteFails(a)
    <3> DEFINE w == [work[a] EXCEPT !.phase = "failed"]
    <3>1. work' = [work EXCEPT ![a] = w]
      BY <2>2 DEF ExecuteFails, GoTo
    <3>2. w \in Busy /\ w.phase = "failed" /\ w.task = work[a].task
      BY <1>1 DEF Busy
    <3>3. w.left \subseteq w.all
      BY <1>1, WorkPhases DEF At, Busy
    <3> QED BY <3>1, <3>2, <3>3
  <2> QED BY <2>1, <2>2
<1>3. UNCHANGED <<stream, pending, results, rpending, api, outbox, answers, dropped, runs, origin>>
  BY DEF ExecuteTask, ExecuteFails
<1>4. TypeOK'
  <2>1. /\ work' \in [Agents -> {None} \cup Busy]
        /\ \A b \in Agents : work'[b] # None =>
             work'[b].task \in pending'[b] /\ work'[b].left \subseteq work'[b].all
    BY <1>1, <1>2, <1>3, WorkGoesOn DEF At
  <2> QED BY <1>3, <2>1 DEF TypeOK, Asked
<1>5. Home' /\ Once' /\ AnsweredOnce'
  BY <1>3 DEF Home, Once, AnsweredOnce, Known, Asked
<1>6. Apart'
  <2>1. CarriedIds' = CarriedIds
    <3>1. "run" \in Carrying /\ "send" \in Carrying /\ "failed" \in Carrying
      BY DEF Carrying
    <3>2. /\ CarriedIds = Others(a, Carrying) \cup
               (IF work[a].phase \in Carrying THEN {work[a].task.id} ELSE {})
          /\ CarriedIds' = Others(a, Carrying) \cup
               (IF w.phase \in Carrying THEN {w.task.id} ELSE {})
      BY <1>2, WorkChange
    <3> QED BY <1>1, <1>2, <3>1, <3>2
  <2>2. DispatchedIds' = DispatchedIds
    BY <1>1, <1>2, WorkChange
  <2>3. /\ OutIds' = OutIds /\ StreamIds' = StreamIds /\ ResultIds' = ResultIds
        /\ GotIds' = GotIds /\ AnswerIds' = AnswerIds /\ dropped' = dropped
    BY <1>3, SameIds
  <2> QED BY <2>1, <2>2, <2>3 DEF Apart, Disjoint, Early, Late
<1>7. Tried'
  <2>1. work'[a] = w /\ \A b \in Agents \ {a} : work'[b] = work[b]
    BY <1>2 DEF TypeOK
  <2>2. runs[w.task.id] <= w.task.tries + 1
    BY <1>1, <1>2 DEF Tried, Doing
  <2>3. \A b \in Doing({"run", "failed"})' : runs[work'[b].task.id] <= work'[b].task.tries + 1
    BY <2>1, <2>2 DEF Tried, Doing
  <2> QED BY <1>3, <2>3 DEF Tried
<1> QED BY <1>4, <1>5, <1>6, <1>7

LEMMA SendResultStep ==
  ASSUME IInv, NEW a \in Agents, SendResult(a)
  PROVE  IInv'
<1> USE DEF IInv
<1>1. PICK t, r, w :
        /\ t = work[a].task /\ r = [id |-> t.id, agent |-> a, mentions |-> work[a].all]
        /\ w = [work[a] EXCEPT !.phase = "dispatch"]
        /\ At(a, "send") /\ work[a].phase = "send" /\ work' = [work EXCEPT ![a] = w]
        /\ results' = Append(results, r) \/ results' = results
        /\ UNCHANGED <<stream, pending, rpending, api, outbox, answers, dropped, runs, origin>>
  BY DEF SendResult, GoTo, At
<1>2. work[a] \in Busy /\ t \in pending[a] /\ t \in Task /\ work[a].left \subseteq work[a].all
  BY <1>1, WorkPhases DEF At, Busy
<1>3. w \in Busy /\ w.phase = "dispatch" /\ w.task = t /\ w.left \subseteq w.all
  BY <1>1, <1>2 DEF Busy
<1>4. t.agent = a /\ Known(t)
  BY <1>2 DEF Home
<1>5. r \in Result /\ r.id = t.id /\ Known(r)
  BY <1>1, <1>2, <1>4 DEF Result, Task, Busy, Known
<1>6. /\ CarriedIds = Others(a, Carrying) \cup {t.id} /\ CarriedIds' = Others(a, Carrying)
      /\ t.id \notin Others(a, Carrying)
      /\ DispatchedIds = Others(a, {"dispatch"})
      /\ DispatchedIds' = Others(a, {"dispatch"}) \cup {t.id}
  <2>1. /\ CarriedIds = Others(a, Carrying) \cup
             (IF work[a].phase \in Carrying THEN {work[a].task.id} ELSE {})
        /\ CarriedIds' = Others(a, Carrying) \cup
             (IF w.phase \in Carrying THEN {w.task.id} ELSE {})
        /\ DispatchedIds = Others(a, {"dispatch"}) \cup
             (IF work[a].phase = "dispatch" THEN {work[a].task.id} ELSE {})
        /\ DispatchedIds' = Others(a, {"dispatch"}) \cup
             (IF w.phase = "dispatch" THEN {w.task.id} ELSE {})
        /\ t.id \notin Others(a, Carrying) \cup Others(a, {"dispatch"})
    BY <1>1, <1>4, WorkChange
  <2>2. "send" \in Carrying /\ "dispatch" \notin Carrying
    BY DEF Carrying
  <2> QED BY <1>1, <1>3, <2>1, <2>2
<1>7. t.id \notin ResultIds
  BY <1>6 DEF Apart, Disjoint, Early, Late
<1>8. /\ results' \in Seq(Result) /\ NoRepeat(results')
      /\ ToSet(results') \subseteq ToSet(results) \cup {r}
      /\ ResultIds' = ResultIds \/ ResultIds' = ResultIds \cup {t.id}
  <2>1. results \in Seq(Result) /\ NoRepeat(results) /\ r.id \notin IdsOf(ToSet(results))
    BY <1>5, <1>7 DEF TypeOK, Once, ResultIds
  <2>2. CASE results' = Append(results, r)
    BY <1>5, <2>1, <2>2, AppendIds DEF ResultIds
  <2> QED BY <1>1, <2>1, <2>2 DEF ResultIds
<1>9. TypeOK'
  <2>1. /\ work' \in [Agents -> {None} \cup Busy]
        /\ \A b \in Agents : work'[b] # None =>
             work'[b].task \in pending'[b] /\ work'[b].left \subseteq work'[b].all
    BY <1>1, <1>3, WorkGoesOn DEF At
  <2> QED BY <1>1, <1>8, <2>1 DEF TypeOK, Asked
<1>10. Home'
  <2>1. \A m : Known(m)' <=> Known(m)
    BY <1>1 DEF Known, Asked
  <2> QED BY <1>1, <1>5, <1>8, <2>1 DEF Home
<1>11. Once' /\ AnsweredOnce'
  BY <1>1, <1>8 DEF Once, AnsweredOnce
<1>12. Apart'
  <2>1. /\ OutIds' = OutIds /\ StreamIds' = StreamIds
        /\ GotIds' = GotIds /\ AnswerIds' = AnswerIds /\ dropped' = dropped
    BY <1>1, SameIds
  <2> QED BY <1>6, <1>8, <2>1 DEF Apart, Disjoint, Early, Late
<1>13. Tried'
  <2>1. work'[a] = w /\ \A b \in Agents \ {a} : work'[b] = work[b]
    BY <1>1 DEF TypeOK
  <2>2. \A b \in Doing({"run", "failed"})' : runs[work'[b].task.id] <= work'[b].task.tries + 1
    BY <1>3, <2>1 DEF Tried, Doing
  <2> QED BY <1>1, <2>2 DEF Tried
<1> QED BY <1>9, <1>10, <1>11, <1>12, <1>13

LEMMA DispatchStep ==
  ASSUME IInv, NEW a \in Agents, NEW b \in Agents, Dispatch(a, b)
  PROVE  IInv'
<1> USE DEF IInv
<1>1. PICK t, w, e :
        /\ t = [id |-> Asked + 1, agent |-> b, tries |-> 0] /\ XAdd(t)
        /\ w = [work[a] EXCEPT !.left = @ \ {b}] /\ work' = [work EXCEPT ![a] = w]
        /\ e = [from |-> work[a].task.id, agent |-> b] /\ origin' = Append(origin, e)
        /\ runs' = Append(runs, 0)
        /\ At(a, "dispatch") /\ work[a].phase = "dispatch"
        /\ UNCHANGED <<pending, results, rpending, api, outbox, answers, dropped>>
  <2> DEFINE w0 == [work[a] EXCEPT !.left = @ \ {b}]
  <2>1. /\ XAdd([id |-> Asked + 1, agent |-> b, tries |-> 0])
        /\ work' = [work EXCEPT ![a] = w0]
        /\ origin' = Append(origin, [from |-> work[a].task.id, agent |-> b])
        /\ runs' = Append(runs, 0) /\ At(a, "dispatch") /\ work[a].phase = "dispatch"
        /\ UNCHANGED <<pending, results, rpending, api, outbox, answers, dropped>>
    BY DEF Dispatch, At
  <2> HIDE DEF IInv
  <2> QED BY <2>1
<1>2. work[a] \in Busy /\ work[a].task \in Task /\ work[a].left \subseteq work[a].all
  BY <1>1, WorkPhases DEF At, Busy
<1>3. /\ w \in Busy /\ w.phase = "dispatch" /\ w.task = work[a].task /\ w.left \subseteq w.all
  <2>1. /\ w.phase = "dispatch" /\ w.task = work[a].task /\ w.all = work[a].all
        /\ w.left = work[a].left \ {b}
    BY <1>1, <1>2 DEF Busy
  <2>2. work[a].left \ {b} \in SUBSET Agents
    BY <1>2 DEF Busy
  <2>3. w \in Busy
    BY <1>1, <1>2, <2>2 DEF Busy
  <2> QED BY <1>2, <2>1, <2>3
<1>4. e \in [from : Nat, agent : Agents] /\ e.agent = b
  BY <1>1, <1>2 DEF Task
<1>5. /\ origin' \in Seq([from : Nat, agent : Agents])
      /\ runs' \in Seq(0..MaxRetries) /\ Len(runs') = Asked'
      /\ Asked \in Nat /\ Asked' = Asked + 1
      /\ answers \in Seq(1..(Asked')) /\ dropped \subseteq 1..(Asked')
      /\ \A m : Known(m) => Known(m)' /\ runs'[m.id] = runs[m.id]
      /\ origin'[Asked + 1] = e /\ runs'[Asked + 1] = 0
      /\ Asked + 1 \notin Early \cup Late \cup dropped
  BY <1>1, <1>4, OneNewId
<1>6. t \in Task /\ t.id = Asked + 1 /\ t.agent = b /\ t.tries = 0
  BY <1>1, <1>5, RetriesType DEF Task
<1>7. t.id \notin StreamIds
  BY <1>5, <1>6 DEF Early
<1>8. /\ stream' \in [Agents -> Seq(Task)]
      /\ StreamIds' = StreamIds \/ StreamIds' = StreamIds \cup {t.id}
      /\ \A c \in Agents : NoRepeat(stream'[c])
      /\ \A u : \A c \in Agents : u \in ToSet(stream'[c]) =>
           u \in ToSet(stream[c]) \/ (u = t /\ c = t.agent)
  BY <1>1, <1>6, <1>7, XAddIds
<1>9. TypeOK'
  <2>1. /\ work' \in [Agents -> {None} \cup Busy]
        /\ \A c \in Agents : work'[c] # None =>
             work'[c].task \in pending'[c] /\ work'[c].left \subseteq work'[c].all
    BY <1>1, <1>3, WorkGoesOn DEF At
  <2> QED BY <1>1, <1>5, <1>8, <2>1 DEF TypeOK
<1>10. Home'
  <2>1. Known(t)'
    BY <1>4, <1>5, <1>6 DEF Known
  <2> QED BY <1>1, <1>5, <1>6, <1>8, <2>1 DEF Home
<1>11. Once' /\ AnsweredOnce'
  BY <1>1, <1>8 DEF Once, AnsweredOnce
<1>12. Apart'
  <2>1. CarriedIds' = CarriedIds /\ DispatchedIds' = DispatchedIds
    <3>1. /\ CarriedIds = Others(a, Carrying) \cup
               (IF work[a].phase \in Carrying THEN {work[a].task.id} ELSE {})
          /\ CarriedIds' = Others(a, Carrying) \cup
               (IF w.phase \in Carrying THEN {w.task.id} ELSE {})
          /\ DispatchedIds = Others(a, {"dispatch"}) \cup
               (IF work[a].phase = "dispatch" THEN {work[a].task.id} ELSE {})
          /\ DispatchedIds' = Others(a, {"dispatch"}) \cup
               (IF w.phase = "dispatch" THEN {w.task.id} ELSE {})
      BY <1>1, WorkChange
    <3> QED BY <1>1, <1>3, <3>1
  <2>2. /\ OutIds' = OutIds /\ ResultIds' = ResultIds
        /\ GotIds' = GotIds /\ AnswerIds' = AnswerIds /\ dropped' = dropped
    BY <1>1, SameIds
  <2> QED BY <1>5, <1>6, <1>8, <2>1, <2>2 DEF Apart, Disjoint, Early, Late
<1>13. Tried'
  <2>1. \A u \in outbox : runs'[u.id] <= u.tries
    BY <1>5 DEF Tried, Home
  <2>2. ASSUME NEW c \in Agents, NEW u \in ToSet(stream'[c]) PROVE runs'[u.id] <= u.tries
    <3>1. CASE u \in ToSet(stream[c])
      BY <1>5, <3>1 DEF Tried, Home
    <3>2. CASE u = t
      BY <1>5, <1>6, <3>2
    <3> QED BY <1>8, <3>1, <3>2
  <2>3. ASSUME NEW c \in Doing({"run", "failed"})
        PROVE  runs'[work[c].task.id] <= work[c].task.tries + 1
    <3>1. Known(work[c].task)
      BY <2>3, WorkPhases DEF Doing, At, Home
    <3> QED BY <1>5, <2>3, <3>1 DEF Tried
  <2>4. work'[a] = w /\ \A c \in Agents \ {a} : work'[c] = work[c]
    BY <1>1 DEF TypeOK
  <2>5. \A c \in Doing({"run", "failed"})' : runs'[work'[c].task.id] <= work'[c].task.tries + 1
    BY <1>3, <2>3, <2>4 DEF Doing
  <2> QED BY <1>1, <2>1, <2>2, <2>5 DEF Tried
<1> QED BY <1>9, <1>10, <1>11, <1>12, <1>13

LEMMA RequeueStep ==
  ASSUME IInv, NEW a \in Agents, Requeue(a)
  PROVE  IInv'
<1> USE DEF IInv
<1>1. PICK t, w :
        /\ t = Again(work[a].task) /\ t.tries < MaxRetries /\ XAdd(t)
        /\ w = [work[a] EXCEPT !.phase = "requeued"] /\ work' = [work EXCEPT ![a] = w]
        /\ At(a, "failed") /\ work[a].phase = "failed"
        /\ UNCHANGED <<pending, results, rpending, api, outbox, answers, dropped, runs, origin>>
  BY DEF Requeue, GoTo, At
<1>2. /\ work[a] \in Busy /\ work[a].task \in Task /\ work[a].left \subseteq work[a].all
      /\ work[a].task \in pending[a]
  BY <1>1, WorkPhases DEF At, Busy
<1>3. work[a].task.agent = a /\ Known(work[a].task)
  BY <1>2 DEF Home
<1>4. /\ w \in Busy /\ w.phase = "requeued" /\ w.task = work[a].task /\ w.left \subseteq w.all
  BY <1>1, <1>2 DEF Busy
<1>5. /\ t \in Task /\ t.id = work[a].task.id /\ t.agent = a /\ t.tries = work[a].task.tries + 1
      /\ Known(t)
  <2>1. t = [work[a].task EXCEPT !.tries = @ + 1]
    BY <1>1 DEF Again
  <2>2. t.id = work[a].task.id /\ t.agent = a /\ t.tries = work[a].task.tries + 1
    BY <1>2, <1>3, <2>1 DEF Task
  <2>3. t.tries \in 0..(MaxRetries - 1)
    BY <1>1, <1>2, <2>2, RetriesType DEF Task
  <2>4. t \in Task
    BY <1>2, <2>1, <2>2, <2>3 DEF Task
  <2> QED BY <1>3, <2>2, <2>4 DEF Known
<1>6. /\ CarriedIds = Others(a, Carrying) \cup {t.id} /\ CarriedIds' = Others(a, Carrying)
      /\ t.id \notin Others(a, Carrying)
      /\ DispatchedIds' = DispatchedIds
  <2>1. /\ CarriedIds = Others(a, Carrying) \cup
             (IF work[a].phase \in Carrying THEN {work[a].task.id} ELSE {})
        /\ CarriedIds' = Others(a, Carrying) \cup
             (IF w.phase \in Carrying THEN {w.task.id} ELSE {})
        /\ DispatchedIds = Others(a, {"dispatch"}) \cup
             (IF work[a].phase = "dispatch" THEN {work[a].task.id} ELSE {})
        /\ DispatchedIds' = Others(a, {"dispatch"}) \cup
             (IF w.phase = "dispatch" THEN {w.task.id} ELSE {})
        /\ t.id \notin Others(a, Carrying) \cup Others(a, {"dispatch"})
    BY <1>1, <1>5, WorkChange
  <2>2. "failed" \in Carrying /\ "requeued" \notin Carrying
    BY DEF Carrying
  <2> QED BY <1>1, <1>4, <1>5, <2>1, <2>2
<1>7. t.id \notin StreamIds
  BY <1>6 DEF Apart, Disjoint
<1>8. /\ stream' \in [Agents -> Seq(Task)]
      /\ StreamIds' = StreamIds \/ StreamIds' = StreamIds \cup {t.id}
      /\ \A c \in Agents : NoRepeat(stream'[c])
      /\ \A u : \A c \in Agents : u \in ToSet(stream'[c]) =>
           u \in ToSet(stream[c]) \/ (u = t /\ c = t.agent)
  BY <1>1, <1>5, <1>7, XAddIds
<1>9. TypeOK'
  <2>1. /\ work' \in [Agents -> {None} \cup Busy]
        /\ \A c \in Agents : work'[c] # None =>
             work'[c].task \in pending'[c] /\ work'[c].left \subseteq work'[c].all
    BY <1>1, <1>4, WorkGoesOn DEF At
  <2> QED BY <1>1, <1>8, <2>1 DEF TypeOK, Asked
<1>10. Home'
  <2>1. \A m : Known(m)' <=> Known(m)
    BY <1>1 DEF Known, Asked
  <2> QED BY <1>1, <1>5, <1>8, <2>1 DEF Home
<1>11. Once' /\ AnsweredOnce'
  BY <1>1, <1>8 DEF Once, AnsweredOnce
<1>12. Apart'
  <2>1. /\ OutIds' = OutIds /\ ResultIds' = ResultIds
        /\ GotIds' = GotIds /\ AnswerIds' = AnswerIds /\ dropped' = dropped
    BY <1>1, SameIds
  <2> QED BY <1>6, <1>8, <2>1 DEF Apart, Disjoint, Early, Late
<1>13. Tried'
  <2>1. runs[t.id] <= t.tries
    BY <1>1, <1>5 DEF Tried, Doing
  <2>2. \A c \in Agents : \A u \in ToSet(stream'[c]) : runs[u.id] <= u.tries
    BY <1>8, <2>1 DEF Tried
  <2>3. work'[a] = w /\ \A c \in Agents \ {a} : work'[c] = work[c]
    BY <1>1 DEF TypeOK
  <2>4. \A c \in Doing({"run", "failed"})' : runs[work'[c].task.id] <= work'[c].task.tries + 1
    BY <1>4, <2>3 DEF Tried, Doing
  <2> QED BY <1>1, <2>2, <2>4 DEF Tried
<1> QED BY <1>9, <1>10, <1>11, <1>12, <1>13

\* The worker is through with the task, gives it up or dies.
LEMMA StopStep ==
  ASSUME IInv, NEW a \in Agents, AckTask(a) \/ AckRequeued(a) \/ GiveUp(a) \/ WorkerCrash(a)
  PROVE  IInv'
<1> USE DEF IInv
<1>1. /\ ~At(a, "idle") /\ work' = [work EXCEPT ![a] = None]
      /\ \/ pending' = [pending EXCEPT ![a] = @ \ {work[a].task}]
         \/ pending' = pending
      /\ UNCHANGED <<stream, results, rpending, api, outbox, answers, runs, origin>>
  BY DEF AckTask, AckRequeued, GiveUp, WorkerCrash, XAck, At
<1>2. dropped' = dropped \/ (work[a].phase = "failed" /\ dropped' = dropped \cup {work[a].task.id})
  BY DEF AckTask, AckRequeued, GiveUp, WorkerCrash, At
<1>3. /\ work' \in [Agents -> {None} \cup Busy]
      /\ pending' \in [Agents -> SUBSET Task]
      /\ \A b \in Agents : pending'[b] \subseteq pending[b]
      /\ \A b \in Agents : work'[b] # None =>
           work'[b].task \in pending'[b] /\ work'[b].left \subseteq work'[b].all
      /\ \A b \in Agents : work'[b] # None => b # a /\ work'[b] = work[b]
  BY <1>1, WorkStops
<1>4. work[a].task.agent = a /\ Known(work[a].task)
  BY <1>1, WorkPhases DEF Home
<1>5. /\ CarriedIds' \subseteq CarriedIds /\ DispatchedIds' \subseteq DispatchedIds
      /\ work[a].phase = "failed" =>
           /\ CarriedIds' = CarriedIds \ {work[a].task.id} /\ work[a].task.id \in CarriedIds
  <2>1. /\ CarriedIds = Others(a, Carrying) \cup
             (IF work[a].phase \in Carrying THEN {work[a].task.id} ELSE {})
        /\ CarriedIds' = Others(a, Carrying) \cup
             (IF None.phase \in Carrying THEN {None.task.id} ELSE {})
        /\ DispatchedIds = Others(a, {"dispatch"}) \cup
             (IF work[a].phase = "dispatch" THEN {work[a].task.id} ELSE {})
        /\ DispatchedIds' = Others(a, {"dispatch"}) \cup
             (IF None.phase = "dispatch" THEN {None.task.id} ELSE {})
        /\ work[a].task.id \notin Others(a, Carrying) \cup Others(a, {"dispatch"})
    BY <1>1, <1>4, WorkChange
  <2>2. "failed" \in Carrying /\ None.phase \notin Carrying /\ None.phase # "dispatch"
    BY DEF Carrying, None
  <2> QED BY <2>1, <2>2
<1>6. TypeOK'
  <2>1. dropped' \subseteq 1..Asked
    BY <1>2, <1>4 DEF TypeOK, Known
  <2> QED BY <1>1, <1>3, <2>1 DEF TypeOK, Asked
<1>7. Home'
  <2>1. \A m : Known(m)' <=> Known(m)
    BY <1>1 DEF Known, Asked
  <2> QED BY <1>1, <1>3, <2>1 DEF Home
<1>8. Once' /\ AnsweredOnce'
  BY <1>1 DEF Once, AnsweredOnce
<1>9. Apart'
  <2>1. /\ OutIds' = OutIds /\ StreamIds' = StreamIds /\ ResultIds' = ResultIds
        /\ GotIds' = GotIds /\ AnswerIds' = AnswerIds
    BY <1>1, SameIds
  <2> QED BY <1>2, <1>5, <2>1 DEF Apart, Disjoint, Early, Late
<1>10. Tried'
  <2>1. \A b \in Doing({"run", "failed"})' : b \in Doing({"run", "failed"}) /\ work'[b] = work[b]
    <3>1. ASSUME NEW b \in Agents, work'[b].phase \in {"run", "failed"} PROVE work'[b] # None
      BY <3>1 DEF None
    <3> QED BY <1>3, <3>1 DEF Doing
  <2> QED BY <1>1, <2>1 DEF Tried
<1> QED BY <1>6, <1>7, <1>8, <1>9, <1>10

-----------------------------------------------------------------------------
(* The theorems.                                                           *)

LEMMA StepIInv == IInv /\ [Next]_vars => IInv'
<1> SUFFICES ASSUME IInv, [Next]_vars PROVE IInv'
  OBVIOUS
<1>1. CASE \E a \in Agents : Ask(a)
  BY <1>1, AskStep
<1>2. ASSUME NEW a \in Agents, WorkerStep(a) \/ WorkerCrash(a) PROVE IInv'
  BY <1>2, ReadTaskStep, ExecuteStep, SendResultStep, DispatchStep, RequeueStep, StopStep
     DEF WorkerStep
<1>3. CASE \E t \in outbox : SendTask(t)
  BY <1>3, SendTaskStep
<1>4. CASE ApiStep \/ ApiCrash \/ LoadAllSessions
  BY <1>4, ReadResultStep, HandleResultStep, ListenerStep DEF ApiStep
<1>5. CASE UNCHANGED vars
  <2> USE <1>5 DEF vars, IInv
  <2>1. TypeOK'
    BY DEF TypeOK, Asked
  <2>2. Home' /\ Once' /\ AnsweredOnce' /\ Tried'
    BY DEF Home, Known, Once, AnsweredOnce, Tried, Doing, Asked
  <2>3. Apart'
    BY SameIds DEF Apart, Disjoint, Early, Late
  <2> QED BY <2>1, <2>2, <2>3
<1> QED BY <1>1, <1>2, <1>3, <1>4, <1>5 DEF Next

\* The inductive invariant: an id is in one place at a time.
THEOREM Invariance == Spec => []IInv
BY InitIInv, StepIInv, PTL DEF Spec

\* Every message has an agent and an id that was given out, and no task is run
\* more than MaxRetries times (retryMessage, executeTask).
THEOREM TypeCorrect == Spec => []TypeOK
<1>1. IInv => TypeOK
  BY DEF IInv
<1> QED BY <1>1, Invariance, PTL

\* The result of a task joins the conversation at most once (handleResult), whatever
\* fails, dies or is retried.
THEOREM AnswersOnce == Spec => []AnsweredOnce
<1>1. IInv => AnsweredOnce
  BY DEF IInv
<1> QED BY <1>1, Invariance, PTL

\* A task that was answered is not given up (retryMessage, handleResult).
THEOREM AnsweredOrDropped == Spec => []NotBoth
<1>1. IInv => NotBoth
  BY DEF IInv, Apart, Disjoint, Late, AnswerIds, NotBoth
<1> QED BY <1>1, Invariance, PTL

\* No copy of a task waits in a stream while another is run (retryMessage).
THEOREM SingleCopy == Spec => []OneCopy
<1>1. ASSUME IInv, NEW i \in 1..Asked PROVE Cardinality(InStream(i)) <= 1
  <2> USE <1>1 DEF IInv
  <2>1. ASSUME NEW p \in InStream(i), NEW q \in InStream(i) PROVE p = q
    <3>1. PICK a, j : a \in Agents /\ j \in DOMAIN stream[a] /\ p = <<a, j>> /\ stream[a][j].id = i
      BY <2>1 DEF InStream
    <3>2. PICK b, k : b \in Agents /\ k \in DOMAIN stream[b] /\ q = <<b, k>> /\ stream[b][k].id = i
      BY <2>1 DEF InStream
    <3>3. stream[a][j].agent = a /\ Known(stream[a][j]) /\ stream[b][k].agent = b /\ Known(stream[b][k])
      BY <3>1, <3>2 DEF Home, ToSet
    <3>4. a = b
      BY <3>1, <3>2, <3>3 DEF Known
    <3> QED BY <3>1, <3>2, <3>4 DEF Once, NoRepeat
  <2>2. CASE InStream(i) = {}
    BY <2>2, FS_EmptySet
  <2>3. CASE InStream(i) # {}
    <3>1. PICK p : p \in InStream(i)
      BY <2>3
    <3>2. InStream(i) = {p}
      BY <2>1, <3>1
    <3>3. Cardinality({p}) = 1
      BY FS_Singleton
    <3> QED BY <3>2, <3>3
  <2> QED BY <2>2, <2>3
<1>2. ASSUME IInv, NEW i \in 1..Asked, InStream(i) # {}, NEW a \in Agents, work[a] # None,
             work[a].task.id = i
      PROVE  work[a].phase = "requeued"
  <2> USE DEF IInv
  <2>1. i \in StreamIds
    BY <1>2 DEF InStream, StreamIds, IdsOf, ToSet
  <2>2. i \notin CarriedIds /\ i \notin DispatchedIds
    BY <1>2, <2>1 DEF Apart, Disjoint, Early, Late
  <2>3. work[a].phase \in {"run", "failed", "requeued", "send", "dispatch"}
    BY <1>2 DEF TypeOK, Busy
  <2> QED BY <1>2, <2>2, <2>3 DEF CarriedIds, DispatchedIds, Doing, Carrying
<1>3. IInv => OneCopy
  BY <1>1, <1>2 DEF OneCopy
<1> QED BY <1>3, Invariance, PTL
=============================================================================
