--------------------------- MODULE Sessions_proofs ---------------------------
(***************************************************************************)
(* Proofs about Sessions, for any sessions, goroutines and bounds and any  *)
(* finite set of agents.                                                   *)
(*                                                                         *)
(* Core says who may touch a session: a handler and a save work on one     *)
(* that is in the map and not being deleted, or that was deleted under     *)
(* them (raced); they exclude each other by its lock; a load is alone with *)
(* the sessions it has yet to load.  On Core rests an invariant for each   *)
(* pair of places that keep the same thing.                                *)
(***************************************************************************)
EXTENDS Sessions, SequenceTheorems, FiniteSetTheorems, WellFoundedInduction, TLAPS

Call    == [cat : Cats, done : BOOLEAN]
Task    == [no : Nat, id : Ids, cat : Cats]
Context == [name : Nat, summary : Nat, messages : Nat, calls : Seq(Call), joined : SUBSET Cats]
Handled == [step : {"found", "append", "dispatch"}, id : Ids, from : Task \cup {None},
            calls : Seq(Task)]
Saves   == [step : {"found", "sadd"}, id : Ids] \cup [step : {"set"}, id : Ids, data : Context]
Deletes == [step : {"del", "srem", "chain", "unmap"}, id : Ids]
Loaded  == [step : {"mapped"}, id : Ids] \cup [step : {"read"}, id : Ids, length : Nat]
Load    == [step : {"serving", "load", "rebuild"}, todo : SUBSET Ids, at : Loaded \cup {None},
            last : Nat, changed : SUBSET Ids]
Counts  == [messages : Nat, stored : Nat, tasks : Nat, renames : Nat, crashes : Nat,
            failures : Nat, lost : Nat, misses : Nat]

StateType ==
  /\ sessions \subseteq Ids /\ orch \subseteq Ids /\ list \subseteq Ids
  /\ created \subseteq Ids /\ deleted \subseteq Ids /\ raced \subseteq Ids
  /\ ctx \in [Ids -> Context]
  /\ saved \in [Ids -> Context \cup {None}]
  /\ chain \in [Ids -> Seq(Nat)]
  /\ deletion \in Deletes \cup {None}
  /\ handler \in [Threads -> Handled \cup {None}]
  /\ pending \in [Ids -> Nat]
  /\ saver \in [Savers -> Saves \cup {None}]
  /\ load \in Load
  /\ tasks \subseteq Task
  /\ counts \in Counts

-----------------------------------------------------------------------------
(* Data.                                                                   *)

LEMMA NoneIsNew ==
  /\ None.step = "none"
  /\ None \notin Handled /\ None \notin Saves /\ None \notin Deletes /\ None \notin Loaded
  /\ None \notin Context /\ None \notin Task
BY DEF None, Handled, Saves, Deletes, Loaded, Context, Task

LEMMA NewContextType == NewContext \in Context
<1>1. <<>> \in Seq(Call)
  BY EmptySeq
<1> QED BY <1>1 DEF NewContext, Context

LEMMA ServingType == Serving \in Load /\ Serving.at = None /\ Serving.step = "serving"
                     /\ Serving.todo = {} /\ Serving.changed = {} /\ Serving.last = 0
BY DEF Serving, Load

LEMMA ChainType ==
  /\ NoChain \in Seq(Nat) /\ <<>> \in Seq(Nat) /\ <<>> # NoChain
  /\ Len(NoChain) = 1 /\ NoChain[1] = 0 /\ Len(<<>>) = 0 /\ DOMAIN (<<>>) = {}
<1>1. NoChain \in Seq(Nat) /\ Len(NoChain) = 1 /\ NoChain[1] = 0
  BY DEF NoChain
<1>2. <<>> \in Seq(Nat) /\ Len(<<>>) = 0
  BY EmptySeq
<1> QED BY <1>1, <1>2

LEMMA CallsType ==
  ASSUME NEW s \in Ids, NEW m \in SUBSET Cats, NEW n \in Nat
  PROVE  LET new == Calls(s, m, n)
         IN /\ new \in Seq(Task) /\ Cardinality(m) \in Nat
            /\ \A i \in DOMAIN new : /\ i \in 1..Cardinality(m) /\ new[i].id = s /\ new[i].no = n + i
                                     /\ new[i].cat \in m
            /\ \A i, j \in DOMAIN new : new[i].cat = new[j].cat => i = j
<1>1. IsFiniteSet(m) /\ Cardinality(m) \in Nat /\ ExistsBijection(1..Cardinality(m), m)
  BY CatsType, FS_Subset, FS_CardinalityType
<1>2. PICK f : f \in Bijection(1..Cardinality(m), m)
  BY <1>1 DEF ExistsBijection
<1>3. f \in [1..Cardinality(m) -> m] /\ IsInjective(f)
  BY <1>2 DEF Bijection, Injection, IsInjective
<1>4. SetToSeq(m) \in [1..Cardinality(m) -> m] /\ IsInjective(SetToSeq(m))
  BY <1>3 DEF SetToSeq
<1> DEFINE new == Calls(s, m, n)
<1>5. \A i \in 1..Cardinality(m) : [no |-> n + i, id |-> s, cat |-> SetToSeq(m)[i]] \in Task
  BY <1>1, <1>4 DEF Task
<1>6. new \in Seq(Task) /\ DOMAIN new = 1..Cardinality(m)
  <2>1. new \in [1..Cardinality(m) -> Task]
    BY <1>5 DEF Calls
  <2> QED BY <1>1, <2>1
<1>7. \A i \in 1..Cardinality(m) : new[i].id = s /\ new[i].no = n + i /\ new[i].cat = SetToSeq(m)[i]
  BY DEF Calls
<1> HIDE DEF new
<1>8. \A i, j \in DOMAIN new : new[i].cat = new[j].cat => i = j
  BY <1>4, <1>6, <1>7 DEF IsInjective
<1> QED BY <1>1, <1>4, <1>6, <1>7, <1>8 DEF new

LEMMA SentType ==
  ASSUME NEW new \in Seq(Task)
  PROVE  ForAgents(ToSet(new)) \subseteq ToSet(new) /\ ToSet(new) \subseteq Task
<1>1. DOMAIN new = 1..Len(new) /\ \A i \in DOMAIN new : new[i] \in Task
  BY LenProperties, ElementOfSeq
<1>2. ToSet(new) \subseteq Task
  BY <1>1 DEF ToSet
<1> QED BY <1>2 DEF ForAgents

LEMMA AnsweredType ==
  ASSUME NEW calls \in Seq(Call), NEW from
  PROVE  Answered(calls, from) \in Seq(Call)
<1> DEFINE open == {i \in DOMAIN calls : from # None /\ calls[i].cat = from.cat /\ ~calls[i].done}
           k == CHOOSE i \in open : \A j \in open : j <= i
           new == [calls EXCEPT ![k].done = TRUE]
<1>1. CASE k \in DOMAIN calls
  <2>1. calls[k] \in Call /\ k \in 1..Len(calls)
    BY <1>1, LenProperties, ElementOfSeq
  <2> DEFINE e == [calls[k] EXCEPT !.done = TRUE]
  <2>2. e \in Call
    BY <2>1 DEF Call
  <2> HIDE DEF k
  <2>3. new = [calls EXCEPT ![k] = e]
    BY <1>1
  <2> HIDE DEF e, new
  <2>4. new \in Seq(Call)
    BY <2>1, <2>2, <2>3, ExceptSeq
  <2> QED BY <2>4 DEF Answered, new, k
<1>2. CASE k \notin DOMAIN calls
  <2> HIDE DEF k
  <2>1. calls = [i \in 1..Len(calls) |-> calls[i]]
    BY LenProperties
  <2>2. new = calls
    BY <1>2, <2>1
  <2> HIDE DEF new
  <2> QED BY <2>2 DEF Answered, new, k
<1> QED BY <1>1, <1>2

LEMMA ShownType ==
  ASSUME NEW new \in Seq(Task)
  PROVE  /\ Shown(new) \in Seq(Call) /\ Len(Shown(new)) = Len(new)
         /\ \A i \in DOMAIN new : Shown(new)[i].cat = new[i].cat /\ ~Shown(new)[i].done
<1>1. DOMAIN new = 1..Len(new) /\ Len(new) \in Nat /\ \A i \in 1..Len(new) : new[i] \in Task
  BY LenProperties, ElementOfSeq
<1>2. \A i \in 1..Len(new) : [cat |-> new[i].cat, done |-> FALSE] \in Call
  BY <1>1 DEF Task, Call
<1>3. Shown(new) \in [1..Len(new) -> Call]
  BY <1>1, <1>2 DEF Shown
<1>4. Shown(new) \in Seq(Call) /\ Len(Shown(new)) = Len(new)
  BY <1>1, <1>3
<1> QED BY <1>1, <1>4 DEF Shown

LEMMA SpawnType ==
  ASSUME pending \in [Ids -> Nat], NEW S, Spawn(S)
  PROVE  /\ pending' \in [Ids -> Nat]
         /\ \A s \in Ids : pending'[s] >= pending[s] /\ (s \in S => pending'[s] > 0)
BY DEF Spawn

LEMMA CountsType ==
  ASSUME counts \in Counts, NEW x \in Nat, NEW y \in Nat, NEW z \in Nat,
         counts' = [counts EXCEPT !.messages = x, !.tasks = y, !.misses = z]
  PROVE  /\ counts' \in Counts /\ counts'.stored = counts.stored /\ counts'.tasks = y
         /\ counts'.crashes = counts.crashes /\ counts'.failures = counts.failures
         /\ counts'.lost = counts.lost /\ counts'.misses = z
BY DEF Counts

\* Steps that may be the one of which a message or a result is lost.
Lost(what) == counts' = [counts EXCEPT ![what] = @ + 1]

LEMMA LostType ==
  ASSUME counts \in Counts
  PROVE  /\ Lost("lost") =>
              /\ counts' \in Counts /\ counts'.stored = counts.stored /\ counts'.tasks = counts.tasks
              /\ counts'.crashes = counts.crashes /\ counts'.failures = counts.failures
              /\ counts'.lost > 0 /\ counts'.misses = counts.misses
         /\ Lost("misses") =>
              /\ counts' \in Counts /\ counts'.stored = counts.stored /\ counts'.tasks = counts.tasks
              /\ counts'.crashes = counts.crashes /\ counts'.failures = counts.failures
              /\ counts'.lost = counts.lost /\ counts'.misses > 0
<1>1. ASSUME Lost("lost")
      PROVE  /\ counts' \in Counts /\ counts'.stored = counts.stored /\ counts'.tasks = counts.tasks
             /\ counts'.crashes = counts.crashes /\ counts'.failures = counts.failures
             /\ counts'.lost > 0 /\ counts'.misses = counts.misses
  <2>1. counts' = [counts EXCEPT !.lost = counts.lost + 1]
    BY <1>1 DEF Lost
  <2> QED BY <2>1 DEF Counts
<1>2. ASSUME Lost("misses")
      PROVE  /\ counts' \in Counts /\ counts'.stored = counts.stored /\ counts'.tasks = counts.tasks
             /\ counts'.crashes = counts.crashes /\ counts'.failures = counts.failures
             /\ counts'.lost = counts.lost /\ counts'.misses > 0
  <2>1. counts' = [counts EXCEPT !.misses = counts.misses + 1]
    BY <1>2 DEF Lost
  <2> QED BY <2>1 DEF Counts
<1> QED BY <1>1, <1>2

\* Steps that may be the one that fails.
MayFail ==
  /\ counts' \in Counts
  /\ counts'.stored = counts.stored /\ counts'.tasks = counts.tasks
  /\ counts'.crashes = counts.crashes /\ counts'.failures \in {counts.failures, counts.failures + 1}
  /\ counts'.lost = counts.lost /\ counts'.misses = counts.misses

LEMMA MayFailOK == ASSUME counts \in Counts, Fails \/ UNCHANGED counts PROVE MayFail
<1>1. CASE UNCHANGED counts
  BY <1>1 DEF MayFail, Counts
<1>2. CASE Fails
  <2>1. counts' = [counts EXCEPT !.failures = counts.failures + 1]
    BY <1>2 DEF Fails, Event, Count, Counts
  <2> QED BY <2>1 DEF MayFail, Counts
<1> QED BY <1>1, <1>2

-----------------------------------------------------------------------------
(* What the steps do to the state, and its type.                           *)

\* What of a session is in Redis and in the chain too: all but its name.
SameCtx == \A r \in Ids : SameData(ctx'[r], ctx[r])

LEMMA SameCtxOK == ASSUME ctx \in [Ids -> Context], UNCHANGED ctx PROVE SameCtx
BY DEF SameCtx, SameData

LEMMA CtxType ==
  ASSUME ctx \in [Ids -> Context], NEW s \in Ids, NEW e \in Context, ctx' = [ctx EXCEPT ![s] = e]
  PROVE  /\ ctx' \in [Ids -> Context] /\ ctx'[s] = e
         /\ \A r \in Ids : r # s => ctx'[r] = ctx[r]
OBVIOUS

LEMMA HandlerType ==
  ASSUME handler \in [Threads -> Handled \cup {None}], NEW t \in Threads, handler[t].step # "none"
  PROVE  /\ handler[t] \in Handled /\ handler[t].id \in Ids /\ handler[t].calls \in Seq(Task)
         /\ handler[t].from \in Task \cup {None}
<1>1. handler[t] \in Handled
  BY NoneIsNew
<1> QED BY <1>1 DEF Handled

LEMMA DeletionType ==
  ASSUME deletion \in Deletes \cup {None}, deletion # None
  PROVE  deletion \in Deletes /\ deletion.id \in Ids
BY DEF Deletes

LEMMA CreateType ==
  ASSUME StateType, NEW s \in Ids, CreateSession(s)
  PROVE  /\ StateType' /\ ctx'[s] = NewContext
         /\ \A r \in Ids : (r # s => ctx'[r] = ctx[r]) /\ pending'[r] >= pending[r] /\ pending'[s] > 0
<1>1. ctx' \in [Ids -> Context] /\ ctx'[s] = NewContext /\ \A r \in Ids : r # s => ctx'[r] = ctx[r]
  BY CtxType, NewContextType DEF CreateSession, StateType
<1>2. /\ pending' \in [Ids -> Nat]
      /\ \A r \in Ids : pending'[r] >= pending[r] /\ (r \in {s} => pending'[r] > 0)
  BY SpawnType DEF CreateSession, StateType
<1>3. StateType'
  BY <1>1, <1>2 DEF CreateSession, StateType
<1> QED BY <1>1, <1>2, <1>3

LEMMA RenameType ==
  ASSUME StateType, NEW s \in Ids, UpdateSessionName(s)
  PROVE  /\ StateType' /\ SameCtx
         /\ \A r \in Ids : pending'[r] >= pending[r]
         /\ counts'.stored = counts.stored /\ counts'.tasks = counts.tasks
         /\ counts'.crashes = counts.crashes /\ counts'.failures = counts.failures
         /\ counts'.lost = counts.lost /\ counts'.misses = counts.misses
<1> DEFINE e == [ctx[s] EXCEPT !.name = ctx[s].name + 1]
<1>1. e \in Context /\ SameData(e, ctx[s])
  <2>1. ctx[s] \in Context
    BY DEF StateType
  <2> QED BY <2>1 DEF Context, SameData
<1>2. ctx' = [ctx EXCEPT ![s] = e]
  BY DEF UpdateSessionName
<1> HIDE DEF e
<1>3. ctx' \in [Ids -> Context] /\ ctx'[s] = e /\ \A r \in Ids : r # s => ctx'[r] = ctx[r]
  BY <1>1, <1>2, CtxType DEF StateType
<1>4. SameCtx
  BY <1>1, <1>3 DEF SameCtx, SameData
<1>5. /\ pending' \in [Ids -> Nat]
      /\ \A r \in Ids : pending'[r] >= pending[r]
  BY SpawnType DEF UpdateSessionName, StateType
<1>6. counts' = [counts EXCEPT !.renames = counts.renames + 1]
  BY DEF UpdateSessionName, Event, Count, StateType, Counts
<1>7. /\ counts' \in Counts
      /\ counts'.stored = counts.stored /\ counts'.tasks = counts.tasks
      /\ counts'.crashes = counts.crashes /\ counts'.failures = counts.failures
      /\ counts'.lost = counts.lost /\ counts'.misses = counts.misses
  <2>1. counts \in Counts
    BY DEF StateType
  <2> QED BY <1>6, <2>1 DEF Counts
<1>8. StateType'
  BY <1>3, <1>5, <1>7 DEF UpdateSessionName, ghosts, StateType
<1> QED BY <1>4, <1>5, <1>7, <1>8

LEMMA StartDeleteType ==
  ASSUME StateType, NEW s \in Ids, StartDelete(s) PROVE StateType'
BY DEF StartDelete, StateType, Deletes

LEMMA DeleteType ==
  ASSUME StateType, Deletion
  PROVE  /\ StateType' /\ MayFail /\ deletion # None /\ deletion.id \in Ids
         /\ \/ deletion' \in Deletes /\ deletion'.id = deletion.id
            \/ deletion' = None /\ EndDelete
<1>1. deletion \in Deletes /\ deletion # None /\ deletion.id \in Ids
  <2>1. deletion.step # "none"
    BY DEF Deletion, DeleteKey, RemoveFromList, DeleteChain, EndDelete, Deleting
  <2> QED BY <2>1, NoneIsNew, DeletionType DEF StateType
<1>2. MayFail
  BY MayFailOK DEF Deletion, DeleteKey, RemoveFromList, DeleteChain, EndDelete, StateType
<1>3. ASSUME NEW step \in {"srem", "chain", "unmap"}, GoOn(step)
      PROVE  deletion' \in Deletes /\ deletion'.id = deletion.id /\ deletion'.step = step
  BY <1>1, <1>3 DEF GoOn, Deletes
<1>4. CASE DeleteKey
  <2>1. deletion' \in Deletes /\ deletion'.id = deletion.id
    BY <1>3, <1>4 DEF DeleteKey
  <2>2. saved' \in [Ids -> Context \cup {None}]
    BY <1>1, <1>4 DEF DeleteKey, StateType
  <2> QED BY <1>1, <1>2, <1>4, <2>1, <2>2 DEF DeleteKey, ghosts, StateType, MayFail
<1>5. CASE RemoveFromList
  <2>1. deletion' \in Deletes /\ deletion'.id = deletion.id
    BY <1>3, <1>5 DEF RemoveFromList
  <2> QED BY <1>1, <1>2, <1>5, <2>1 DEF RemoveFromList, ghosts, StateType, MayFail
<1>6. CASE DeleteChain
  <2>1. deletion' \in Deletes /\ deletion'.id = deletion.id
    BY <1>3, <1>6 DEF DeleteChain
  <2>2. chain' \in [Ids -> Seq(Nat)]
    BY <1>1, <1>6, ChainType DEF DeleteChain, StateType
  <2> QED BY <1>1, <1>2, <1>6, <2>1, <2>2 DEF DeleteChain, ghosts, StateType
<1>7. CASE EndDelete
  BY <1>1, <1>2, <1>7 DEF EndDelete, StateType
<1> QED BY <1>4, <1>5, <1>6, <1>7 DEF Deletion

\* One handler goes on.
HandlerOnly(t) == \A u \in Threads : u # t => handler'[u] = handler[u]

LEMMA SendType ==
  ASSUME StateType, NEW t \in Threads, NEW s \in Ids, NEW m \in SUBSET Cats, SendMessage(t, s, m)
  PROVE  /\ StateType' /\ HandlerOnly(t) /\ handler'[t] \in Handled
         /\ handler'[t].step = "found" /\ handler'[t].id = s /\ handler'[t].from = None
         /\ handler'[t].calls = Calls(s, m, counts.tasks)
         /\ counts'.stored = counts.stored /\ counts'.tasks = counts.tasks + Cardinality(m)
         /\ counts'.crashes = counts.crashes /\ counts'.failures = counts.failures
         /\ counts'.lost = counts.lost /\ counts'.misses = counts.misses
<1> DEFINE new == Calls(s, m, counts.tasks)
           h == [step |-> "found", id |-> s, from |-> None, calls |-> new]
<1>1. new \in Seq(Task) /\ Cardinality(m) \in Nat
  BY CallsType DEF StateType, Counts
<1> HIDE DEF new
<1>2. h \in Handled
  BY <1>1 DEF Handled
<1>3. handler' = [handler EXCEPT ![t] = h]
  BY DEF SendMessage, new
<1> HIDE DEF h
<1>4. counts' = [counts EXCEPT !.messages = counts.messages + 1, !.tasks = counts.tasks + Cardinality(m),
                               !.misses = counts.misses]
  BY DEF SendMessage, StateType, Counts
<1>5. /\ counts' \in Counts
      /\ counts'.stored = counts.stored /\ counts'.tasks = counts.tasks + Cardinality(m)
      /\ counts'.crashes = counts.crashes /\ counts'.failures = counts.failures
      /\ counts'.lost = counts.lost /\ counts'.misses = counts.misses
  <2>1. counts \in Counts /\ counts.tasks + Cardinality(m) \in Nat /\ counts.misses \in Nat
    BY <1>1 DEF StateType, Counts
  <2>2. counts.messages + 1 \in Nat
    BY <2>1 DEF Counts
  <2> QED BY <1>4, <2>1, <2>2, CountsType
<1>6. handler' \in [Threads -> Handled \cup {None}] /\ handler'[t] = h /\ HandlerOnly(t)
  BY <1>2, <1>3 DEF StateType, HandlerOnly
<1>7. StateType'
  BY <1>5, <1>6 DEF SendMessage, ghosts, StateType
<1> QED BY <1>2, <1>5, <1>6, <1>7 DEF h, new

LEMMA ResultType ==
  ASSUME StateType, NEW k \in tasks, NEW m \in SUBSET Cats, HandleResult(k, m)
  PROVE  /\ StateType' /\ HandlerOnly(Listener) /\ k \in Task /\ Cardinality(m) \in Nat
         /\ IF k.id \notin sessions THEN handler' = handler ELSE
              /\ handler'[Listener] \in Handled
              /\ handler'[Listener].step = "found" /\ handler'[Listener].id = k.id
              /\ handler'[Listener].from \in {k, None}
              /\ counts'.misses = 0 => handler'[Listener].from = k
              /\ handler'[Listener].calls = Calls(k.id, m, counts.tasks + Cardinality(m))
         /\ tasks' = (tasks \ {k}) \cup ForAgents(ToSet(Calls(k.id, m, counts.tasks)))
         /\ counts'.stored = counts.stored /\ counts'.tasks = counts.tasks + 2 * Cardinality(m)
         /\ counts'.crashes = counts.crashes /\ counts'.failures = counts.failures
         /\ counts'.lost = counts.lost /\ (counts'.misses = 0 => counts.misses = 0)
<1>11. PICK from \in {k, None} :
        /\ tasks' = (tasks \ {k}) \cup ForAgents(ToSet(Calls(k.id, m, counts.tasks)))
        /\ counts' = [counts EXCEPT !.messages = @ + 1, !.tasks = @ + 2 * Cardinality(m),
                                    !.misses = IF from = None THEN @ + 1 ELSE @]
        /\ handler' = IF k.id \notin sessions THEN handler ELSE
             [handler EXCEPT ![Listener] =
                [step |-> "found", id |-> k.id, from |-> from,
                 calls |-> Calls(k.id, m, counts.tasks + Cardinality(m))]]
        /\ UNCHANGED <<sessions, orch, ctx, saved, list, chain, deletion, pending, saver, load, ghosts>>
  BY DEF HandleResult
<1> DEFINE n == Cardinality(m)
           new == Calls(k.id, m, counts.tasks + n)
           sent == Calls(k.id, m, counts.tasks)
           misses == IF from = None THEN counts.misses + 1 ELSE counts.misses
           h == [step |-> "found", id |-> k.id, from |-> from, calls |-> new]
<1>1. k \in Task /\ k.id \in Ids /\ counts \in Counts /\ counts.tasks \in Nat /\ Listener \in Threads
  BY DEF StateType, Task, Counts, Threads
<1>2. n \in Nat /\ sent \in Seq(Task)
  BY <1>1, CallsType
<1>3. new \in Seq(Task)
  <2>1. counts.tasks + n \in Nat
    BY <1>1, <1>2
  <2> HIDE DEF n
  <2> QED BY <1>1, <2>1, CallsType
<1>4. /\ tasks' = (tasks \ {k}) \cup ForAgents(ToSet(sent))
      /\ counts' = [counts EXCEPT !.messages = counts.messages + 1, !.tasks = counts.tasks + 2 * n,
                                  !.misses = misses]
      /\ handler' = IF k.id \notin sessions THEN handler ELSE [handler EXCEPT ![Listener] = h]
      /\ UNCHANGED <<sessions, orch, ctx, saved, list, chain, deletion, pending, saver, load, ghosts>>
  BY <1>11, <1>1 DEF Counts
<1>12. misses \in Nat /\ (misses = 0 => from = k /\ counts.misses = 0)
  BY <1>1 DEF Counts
<1> HIDE DEF n, sent, new, misses
<1>5. h \in Handled
  BY <1>1, <1>3 DEF Handled
<1> HIDE DEF h
<1>6. /\ counts' \in Counts
      /\ counts'.stored = counts.stored /\ counts'.tasks = counts.tasks + 2 * n
      /\ counts'.crashes = counts.crashes /\ counts'.failures = counts.failures
      /\ counts'.lost = counts.lost /\ counts'.misses = misses
  <2>1. counts.tasks + 2 * n \in Nat
    BY <1>1, <1>2
  <2>2. counts.messages + 1 \in Nat
    BY <1>1 DEF Counts
  <2> QED BY <1>1, <1>4, <1>12, <2>1, <2>2, CountsType
<1>7. tasks' \subseteq Task
  <2>1. ForAgents(ToSet(sent)) \subseteq Task
    BY <1>2, SentType
  <2> QED BY <1>4, <2>1 DEF StateType
<1>8. /\ handler' \in [Threads -> Handled \cup {None}] /\ HandlerOnly(Listener)
      /\ IF k.id \notin sessions THEN handler' = handler ELSE handler'[Listener] = h
  BY <1>1, <1>4, <1>5 DEF StateType, HandlerOnly
<1>9. StateType'
  BY <1>4, <1>6, <1>7, <1>8 DEF ghosts, StateType
<1>10. h.step = "found" /\ h.id = k.id /\ h.from = from /\ h.calls = new
  BY DEF h
<1> QED BY <1>12, <1>1, <1>2, <1>4, <1>5, <1>6, <1>8, <1>9, <1>10 DEF n, new, sent

LEMMA UnansweredType ==
  ASSUME StateType, NEW k \in tasks, EndUnanswered(k)
  PROVE  /\ StateType' /\ tasks' = tasks \ {k}
         /\ counts'.stored = counts.stored /\ counts'.tasks = counts.tasks
         /\ counts'.crashes = counts.crashes /\ counts'.failures = counts.failures
         /\ counts'.lost = counts.lost /\ counts'.misses > 0
<1>1. counts \in Counts /\ Lost("misses")
  BY DEF EndUnanswered, Event, Count, Lost, StateType
<1>2. /\ counts' \in Counts
      /\ counts'.stored = counts.stored /\ counts'.tasks = counts.tasks
      /\ counts'.crashes = counts.crashes /\ counts'.failures = counts.failures
      /\ counts'.lost = counts.lost /\ counts'.misses > 0
  BY <1>1, LostType
<1> QED BY <1>2 DEF EndUnanswered, ghosts, StateType

LEMMA GetOrCreateType ==
  ASSUME StateType, NEW s \in Ids, GetOrCreateChain(s)
  PROVE  /\ StateType' /\ chain[s] = NoChain /\ chain'[s] = <<>>
         /\ \A r \in Ids : r # s => chain'[r] = chain[r]
<1>1. /\ chain' \in [Ids -> Seq(Nat)] /\ chain[s] = NoChain /\ chain'[s] = <<>>
      /\ \A r \in Ids : r # s => chain'[r] = chain[r]
  BY ChainType DEF GetOrCreateChain, StateType
<1> QED BY <1>1 DEF GetOrCreateChain, ghosts, StateType

LEMMA StepType ==
  ASSUME handler \in [Threads -> Handled \cup {None}], NEW t \in Threads, handler[t] \in Handled,
         NEW x \in {"found", "append", "dispatch"}, handler' = [handler EXCEPT ![t].step = x]
  PROVE  /\ handler' \in [Threads -> Handled \cup {None}] /\ HandlerOnly(t)
         /\ handler'[t] \in Handled /\ handler'[t].step = x /\ handler'[t].id = handler[t].id
         /\ handler'[t].calls = handler[t].calls /\ handler'[t].from = handler[t].from
<1> DEFINE h == [handler[t] EXCEPT !.step = x]
<1>1. handler' = [handler EXCEPT ![t] = h]
  OBVIOUS
<1>2. /\ h \in Handled /\ h.step = x /\ h.id = handler[t].id
      /\ h.calls = handler[t].calls /\ h.from = handler[t].from
  BY DEF Handled
<1> HIDE DEF h
<1> QED BY <1>1, <1>2 DEF HandlerOnly

\* Handler t goes on to step x, and of its session s only.
HandlerGoes(t, s, x) ==
  /\ s \in Ids /\ handler[t].id = s /\ HandlerOnly(t) /\ handler'[t] \in Handled
  /\ handler'[t].step = x /\ handler'[t].id = s
  /\ handler'[t].calls = handler[t].calls /\ handler'[t].from = handler[t].from
  /\ \A r \in Ids : r # s => ctx'[r] = ctx[r] /\ chain'[r] = chain[r]

LEMMA TakeType ==
  ASSUME StateType, NEW t \in Threads, TakeMessage(t), NEW s, s = handler[t].id
  PROVE  /\ StateType' /\ HandlerGoes(t, s, "append") /\ handler[t].step = "found"
         /\ counts'.stored = counts.stored + 1 /\ counts'.tasks = counts.tasks
         /\ counts'.crashes = counts.crashes /\ counts'.failures = counts.failures
         /\ counts'.lost = counts.lost /\ counts'.misses = counts.misses
         /\ ctx'[s].summary = counts.stored + 1 /\ ctx'[s].messages = ctx[s].messages + 1
         /\ ctx'[s].calls = ctx[s].calls
         /\ chain'[s] = IF chain[s] = NoChain THEN <<>> ELSE chain[s]
<1> DEFINE e == [ctx[s] EXCEPT !.messages = ctx[s].messages + 1, !.summary = counts.stored + 1]
<1>1. handler[t] \in Handled /\ s \in Ids /\ handler[t].step = "found"
  BY HandlerType DEF StateType, TakeMessage, At
<1>2. ctx[s] \in Context /\ counts \in Counts /\ counts.stored \in Nat
  BY <1>1 DEF StateType, Counts
<1>3. /\ e \in Context /\ e.summary = counts.stored + 1 /\ e.messages = ctx[s].messages + 1
      /\ e.calls = ctx[s].calls
  <2>1. PICK x : x = ctx[s]
    OBVIOUS
  <2>2. PICK n \in Nat : n = counts.stored + 1
    BY <1>2
  <2>3. x \in Context /\ x.messages + 1 \in Nat
    BY <1>2, <2>1 DEF Context
  <2>4. e = [x EXCEPT !.messages = x.messages + 1, !.summary = n]
    BY <2>1, <2>2
  <2> HIDE DEF e
  <2> QED BY <2>1, <2>2, <2>3, <2>4 DEF Context
<1>4. /\ ctx' = [ctx EXCEPT ![s] = e] /\ handler' = [handler EXCEPT ![t].step = "append"]
      /\ chain' = [chain EXCEPT ![s] = IF @ = NoChain THEN <<>> ELSE @]
      /\ counts' = [counts EXCEPT !.stored = counts.stored + 1]
  BY <1>2 DEF TakeMessage, Count, Counts
<1> HIDE DEF e
<1>5. ctx' \in [Ids -> Context] /\ ctx'[s] = e /\ \A r \in Ids : r # s => ctx'[r] = ctx[r]
  BY <1>1, <1>3, <1>4, CtxType DEF StateType
<1>6. /\ chain' \in [Ids -> Seq(Nat)] /\ chain'[s] = IF chain[s] = NoChain THEN <<>> ELSE chain[s]
      /\ \A r \in Ids : r # s => chain'[r] = chain[r]
  BY <1>1, <1>4, ChainType DEF StateType
<1>7. /\ counts' \in Counts /\ counts'.stored = counts.stored + 1 /\ counts'.tasks = counts.tasks
      /\ counts'.crashes = counts.crashes /\ counts'.failures = counts.failures
      /\ counts'.lost = counts.lost /\ counts'.misses = counts.misses
  BY <1>2, <1>4 DEF Counts
<1>8. /\ handler' \in [Threads -> Handled \cup {None}] /\ HandlerOnly(t)
      /\ handler'[t] \in Handled /\ handler'[t].step = "append" /\ handler'[t].id = handler[t].id
      /\ handler'[t].calls = handler[t].calls /\ handler'[t].from = handler[t].from
  BY <1>1, <1>4, StepType DEF StateType
<1>9. StateType'
  BY <1>5, <1>6, <1>7, <1>8 DEF TakeMessage, ghosts, StateType
<1> QED BY <1>1, <1>3, <1>5, <1>6, <1>7, <1>8, <1>9 DEF HandlerGoes

\* The chain of s gets the summary, if there is a chain, or loses it.
AppendedOrLost(s) ==
  \/ /\ chain'[s] = IF chain[s] = NoChain THEN NoChain ELSE Append(chain[s], ctx[s].summary)
     /\ counts'.lost = counts.lost
  \/ chain' = chain /\ counts'.lost > 0

LEMMA AppendType ==
  ASSUME StateType, NEW t \in Threads, AppendMessage(t), NEW s, s = handler[t].id
  PROVE  /\ StateType' /\ HandlerGoes(t, s, "dispatch") /\ handler[t].step = "append"
         /\ ctx'[s].summary = ctx[s].summary /\ ctx'[s].messages = ctx[s].messages
         /\ ctx'[s].calls = Answered(ctx[s].calls, handler[t].from)
         /\ AppendedOrLost(s)
         /\ counts'.stored = counts.stored /\ counts'.tasks = counts.tasks
         /\ counts'.crashes = counts.crashes /\ counts'.failures = counts.failures
         /\ counts'.misses = counts.misses
         /\ \A r \in Ids : pending'[r] >= pending[r]
         /\ pending'[s] > 0
<1> DEFINE new == Answered(ctx[s].calls, handler[t].from)
           e == [ctx[s] EXCEPT !.calls = new]
<1>1. handler[t] \in Handled /\ s \in Ids /\ handler[t].step = "append"
  BY HandlerType DEF StateType, AppendMessage, At
<1>2. ctx[s] \in Context /\ ctx[s].calls \in Seq(Call) /\ ctx[s].summary \in Nat
  BY <1>1 DEF StateType, Context
<1>3. new \in Seq(Call)
  BY <1>2, AnsweredType
<1>4. ctx' = [ctx EXCEPT ![s] = e] /\ handler' = [handler EXCEPT ![t].step = "dispatch"]
      /\ \/ chain' = [chain EXCEPT ![s] = IF @ = NoChain THEN @ ELSE Append(@, ctx[s].summary)]
            /\ UNCHANGED counts
         \/ chain' = chain /\ Lost("lost")
      /\ Spawn({s})
  BY DEF AppendMessage, Event, Count, Lost
<1> HIDE DEF new
<1>5. /\ e \in Context /\ e.summary = ctx[s].summary /\ e.messages = ctx[s].messages
      /\ e.calls = new
  BY <1>2, <1>3 DEF Context
<1> HIDE DEF e
<1>6. ctx' \in [Ids -> Context] /\ ctx'[s] = e /\ \A r \in Ids : r # s => ctx'[r] = ctx[r]
  BY <1>1, <1>4, <1>5, CtxType DEF StateType
<1>7. /\ chain' \in [Ids -> Seq(Nat)] /\ AppendedOrLost(s)
      /\ \A r \in Ids : r # s => chain'[r] = chain[r]
      /\ counts' \in Counts
      /\ counts'.stored = counts.stored /\ counts'.tasks = counts.tasks
      /\ counts'.crashes = counts.crashes /\ counts'.failures = counts.failures
      /\ counts'.misses = counts.misses
  <2>1. chain \in [Ids -> Seq(Nat)] /\ counts \in Counts
    BY DEF StateType
  <2>2. Append(chain[s], ctx[s].summary) \in Seq(Nat)
    BY <1>1, <1>2, <2>1, AppendProperties
  <2>3. CASE /\ chain' = [chain EXCEPT ![s] = IF @ = NoChain THEN @ ELSE Append(@, ctx[s].summary)]
             /\ UNCHANGED counts
    BY <1>1, <2>1, <2>2, <2>3, ChainType DEF AppendedOrLost
  <2>4. CASE chain' = chain /\ Lost("lost")
    BY <2>1, <2>4, LostType DEF AppendedOrLost
  <2> QED BY <1>4, <2>3, <2>4
<1>8. /\ pending' \in [Ids -> Nat] /\ pending'[s] > 0
      /\ \A r \in Ids : pending'[r] >= pending[r]
  BY <1>1, <1>4, SpawnType DEF StateType
<1>9. /\ handler' \in [Threads -> Handled \cup {None}] /\ HandlerOnly(t)
      /\ handler'[t] \in Handled /\ handler'[t].step = "dispatch" /\ handler'[t].id = handler[t].id
      /\ handler'[t].calls = handler[t].calls /\ handler'[t].from = handler[t].from
  BY <1>1, <1>4, StepType DEF StateType
<1>10. StateType'
  BY <1>6, <1>7, <1>8, <1>9 DEF AppendMessage, ghosts, StateType
<1> QED BY <1>1, <1>5, <1>6, <1>7, <1>8, <1>9, <1>10 DEF HandlerGoes, new

LEMMA DispatchType ==
  ASSUME StateType, NEW t \in Threads, Dispatch(t), NEW s, s = handler[t].id
  PROVE  LET new == IF s \in orch THEN handler[t].calls ELSE <<>>
         IN /\ StateType' /\ s \in Ids /\ MayFail
            /\ handler[t].step = "dispatch" /\ handler'[t] = None /\ HandlerOnly(t)
            /\ \A r \in Ids : r # s => ctx'[r] = ctx[r]
            /\ ctx'[s].summary = ctx[s].summary /\ ctx'[s].messages = ctx[s].messages
            /\ new \in Seq(Task) /\ ctx'[s].calls = ctx[s].calls \o Shown(new)
            /\ tasks \subseteq tasks' /\ tasks' \subseteq tasks \cup ForAgents(ToSet(new))
            /\ counts'.failures = 0 => tasks' = tasks \cup ForAgents(ToSet(new))
<1> DEFINE new == IF s \in orch THEN handler[t].calls ELSE <<>>
           joined == ctx[s].joined \cup {k.cat : k \in ToSet(new)}
           calls == ctx[s].calls \o Shown(new)
           e == [ctx[s] EXCEPT !.joined = joined, !.calls = calls]
<1>1. handler[t] \in Handled /\ s \in Ids /\ handler[t].step = "dispatch" /\ handler[t].calls \in Seq(Task)
  BY HandlerType DEF StateType, Dispatch, At
<1>2. new \in Seq(Task)
  BY <1>1, EmptySeq
<1>3. /\ ctx' = [ctx EXCEPT ![s] = e] /\ SendTasks(new) /\ handler' = [handler EXCEPT ![t] = None]
  BY DEF Dispatch
<1> HIDE DEF new
<1>4. ToSet(new) \subseteq Task /\ ForAgents(ToSet(new)) \subseteq Task
  BY <1>2, SentType
<1>5. ctx[s] \in Context /\ ctx[s].calls \in Seq(Call) /\ ctx[s].joined \subseteq Cats
  BY <1>1 DEF StateType, Context
<1>6. joined \in SUBSET Cats /\ calls \in Seq(Call)
  BY <1>2, <1>4, <1>5, ShownType, ConcatProperties DEF Task
<1>7. /\ e \in Context /\ e.summary = ctx[s].summary /\ e.messages = ctx[s].messages
      /\ e.calls = calls
  <2> HIDE DEF joined, calls
  <2> QED BY <1>5, <1>6 DEF Context
<1> HIDE DEF e
<1>8. ctx' \in [Ids -> Context] /\ ctx'[s] = e /\ \A r \in Ids : r # s => ctx'[r] = ctx[r]
  BY <1>1, <1>3, <1>7, CtxType DEF StateType
<1>9. handler' \in [Threads -> Handled \cup {None}] /\ handler'[t] = None /\ HandlerOnly(t)
  BY <1>3 DEF StateType, HandlerOnly
<1>10. counts \in Counts /\ MayFail
  BY <1>3, MayFailOK DEF SendTasks, StateType
<1>11. /\ tasks \subseteq tasks' /\ tasks' \subseteq tasks \cup ForAgents(ToSet(new))
       /\ counts'.failures = 0 => tasks' = tasks \cup ForAgents(ToSet(new))
  <2>1. CASE tasks' = tasks \cup ForAgents(ToSet(new))
    BY <2>1
  <2>2. CASE (\E k \in ForAgents(ToSet(new)) : tasks' = tasks \cup (ForAgents(ToSet(new)) \ {k})) /\ Fails
    <3>1. counts' = [counts EXCEPT !.failures = counts.failures + 1]
      BY <1>10, <2>2 DEF Fails, Event, Count, Counts
    <3>2. counts'.failures > 0
      BY <1>10, <3>1 DEF Counts
    <3> QED BY <1>10, <2>2, <3>2 DEF MayFail, Counts
  <2> QED BY <1>3, <2>1, <2>2 DEF SendTasks
<1>12. StateType'
  <2>1. counts' \in Counts /\ tasks' \subseteq Task
    BY <1>4, <1>10, <1>11 DEF MayFail, StateType
  <2> QED BY <1>8, <1>9, <2>1 DEF Dispatch, ghosts, StateType
<1> QED BY <1>1, <1>2, <1>7, <1>8, <1>9, <1>10, <1>11, <1>12 DEF new

\* One call of SaveSession goes on.
SaverOnly(v) == \A w \in Savers : w # v => saver'[w] = saver[w]

LEMMA SaverType ==
  ASSUME saver \in [Savers -> Saves \cup {None}], NEW v \in Savers, saver[v].step # "none"
  PROVE  /\ saver[v] \in Saves /\ saver[v].id \in Ids
         /\ saver[v].step = "set" => saver[v].data \in Context
<1>1. saver[v] \in Saves
  BY NoneIsNew
<1> QED BY <1>1 DEF Saves

LEMMA LookUpType ==
  ASSUME StateType, NEW v \in Savers, NEW s \in Ids, LookUp(v, s)
  PROVE  /\ StateType' /\ SaverOnly(v) /\ saver[v] = None
         /\ IF s \in sessions THEN /\ saver'[v] \in Saves /\ saver'[v].step = "found"
                                   /\ saver'[v].id = s
                              ELSE saver' = saver
         /\ \A r \in Ids : r # s => pending'[r] = pending[r]
<1> DEFINE new == [step |-> "found", id |-> s]
<1>1. new \in Saves
  BY DEF Saves
<1>2. /\ saver' \in [Savers -> Saves \cup {None}] /\ SaverOnly(v)
      /\ IF s \in sessions THEN saver'[v] = new ELSE saver' = saver
  BY <1>1 DEF LookUp, StateType, SaverOnly
<1>3. pending' \in [Ids -> Nat] /\ \A r \in Ids : r # s => pending'[r] = pending[r]
  BY DEF LookUp, StateType
<1>4. StateType'
  BY <1>2, <1>3 DEF LookUp, ghosts, StateType
<1> QED BY <1>1, <1>2, <1>3, <1>4 DEF LookUp

LEMMA SnapshotType ==
  ASSUME StateType, NEW v \in Savers, Snapshot(v), NEW s, s = saver[v].id
  PROVE  /\ StateType' /\ SaverOnly(v) /\ s \in Ids /\ saver[v].step = "found" /\ CanRead(s)
         /\ saver'[v] \in Saves /\ saver'[v].step = "set" /\ saver'[v].id = s
         /\ saver'[v].data = ctx[s]
<1> DEFINE new == [step |-> "set", id |-> s, data |-> ctx[s]]
<1>1. s \in Ids /\ saver[v].step = "found" /\ CanRead(s)
  BY SaverType DEF StateType, Snapshot
<1>2. new \in Saves
  BY <1>1 DEF StateType, Saves
<1>3. saver' = [saver EXCEPT ![v] = new]
  BY DEF Snapshot
<1> HIDE DEF new
<1>4. saver' \in [Savers -> Saves \cup {None}] /\ SaverOnly(v) /\ saver'[v] = new
  BY <1>2, <1>3 DEF StateType, SaverOnly
<1>5. StateType'
  BY <1>4 DEF Snapshot, ghosts, StateType
<1> QED BY <1>1, <1>2, <1>4, <1>5 DEF new

LEMMA SetKeyType ==
  ASSUME StateType, NEW v \in Savers, SetKey(v), NEW s, s = saver[v].id
  PROVE  /\ StateType' /\ MayFail /\ SaverOnly(v) /\ s \in Ids /\ saver[v].step = "set"
         /\ saver[v].data \in Context
         /\ \A r \in Ids : r # s => saved'[r] = saved[r]
         /\ \/ /\ saved'[s] = saver[v].data /\ saver'[v] \in Saves
               /\ saver'[v].step = "sadd" /\ saver'[v].id = s
            \/ saved' = saved /\ saver'[v] = None /\ counts'.failures > 0
<1> DEFINE new == [step |-> "sadd", id |-> s]
<1>1. s \in Ids /\ saver[v].step = "set" /\ saver[v].data \in Context /\ counts \in Counts
  BY SaverType DEF StateType, SetKey
<1>2. MayFail
  BY MayFailOK DEF SetKey, StateType
<1>3. new \in Saves
  BY <1>1 DEF Saves
<1>4. \/ saved' = [saved EXCEPT ![s] = saver[v].data] /\ saver' = [saver EXCEPT ![v] = new]
      \/ saved' = saved /\ saver' = [saver EXCEPT ![v] = None] /\ counts'.failures > 0
  <2>1. ASSUME Fails PROVE counts'.failures > 0
    <3>1. counts' = [counts EXCEPT !.failures = counts.failures + 1]
      BY <1>1, <2>1 DEF Fails, Event, Count, Counts
    <3> QED BY <1>1, <3>1 DEF Counts
  <2> QED BY <2>1 DEF SetKey
<1> HIDE DEF new
<1>5. /\ saver' \in [Savers -> Saves \cup {None}] /\ SaverOnly(v)
      /\ saved' \in [Ids -> Context \cup {None}]
      /\ \A r \in Ids : r # s => saved'[r] = saved[r]
      /\ \/ saved'[s] = saver[v].data /\ saver'[v] = new
         \/ saved' = saved /\ saver'[v] = None /\ counts'.failures > 0
  <2>1. saver \in [Savers -> Saves \cup {None}] /\ saved \in [Ids -> Context \cup {None}]
    BY DEF StateType
  <2> QED BY <1>1, <1>3, <1>4, <2>1 DEF SaverOnly
<1>6. StateType'
  BY <1>2, <1>5 DEF SetKey, ghosts, StateType, MayFail
<1> QED BY <1>1, <1>2, <1>3, <1>5, <1>6 DEF new

LEMMA AddToListType ==
  ASSUME StateType, NEW v \in Savers, AddToList(v), NEW s, s = saver[v].id
  PROVE  /\ StateType' /\ MayFail /\ SaverOnly(v) /\ s \in Ids /\ saver[v].step = "sadd"
         /\ saver'[v] = None
         /\ list' = list \cup {s} \/ (list' = list /\ counts'.failures > 0)
<1>1. s \in Ids /\ saver[v].step = "sadd" /\ counts \in Counts
  BY SaverType DEF StateType, AddToList
<1>2. MayFail
  BY MayFailOK DEF AddToList, StateType
<1>3. list' = list \cup {s} \/ (list' = list /\ counts'.failures > 0)
  <2>1. ASSUME Fails PROVE counts'.failures > 0
    <3>1. counts' = [counts EXCEPT !.failures = counts.failures + 1]
      BY <1>1, <2>1 DEF Fails, Event, Count, Counts
    <3> QED BY <1>1, <3>1 DEF Counts
  <2> QED BY <2>1 DEF AddToList
<1>4. saver' \in [Savers -> Saves \cup {None}] /\ SaverOnly(v) /\ saver'[v] = None
  BY DEF AddToList, StateType, SaverOnly
<1>5. StateType'
  BY <1>1, <1>2, <1>3, <1>4 DEF AddToList, ghosts, StateType, MayFail
<1> QED BY <1>1, <1>2, <1>3, <1>4, <1>5

LEMMA DamagedType ==
  ASSUME NEW q \in Seq(Nat), NEW d \in Damaged(q)
  PROVE  d \in Seq(Nat) /\ (d = NoChain \/ ToSet(d) \subseteq ToSet(q))
<1>1. CASE d = NoChain
  BY <1>1, ChainType
<1>2. CASE d # NoChain
  <2>1. PICK i \in 0..Len(q), j \in 0..(Len(q) + 1) :
          j >= i + 2 /\ d = SubSeq(q, 1, i) \o SubSeq(q, j, Len(q))
    <3>1. PICK i \in 0..Len(q) :
            \E j \in (i + 2)..(Len(q) + 1) : d = SubSeq(q, 1, i) \o SubSeq(q, j, Len(q))
      BY <1>2 DEF Damaged
    <3>2. PICK j \in (i + 2)..(Len(q) + 1) : d = SubSeq(q, 1, i) \o SubSeq(q, j, Len(q))
      BY <3>1
    <3>3. Len(q) \in Nat
      BY LenProperties
    <3>4. j \in 0..(Len(q) + 1) /\ j >= i + 2
      BY <3>3
    <3> QED BY <3>2, <3>4
  <2>2. Len(q) \in Nat /\ i \in Nat /\ j \in Nat /\ j >= 1 /\ i <= Len(q)
    BY <2>1, LenProperties
  <2>3. /\ SubSeq(q, 1, i) \in Seq(Nat) /\ ToSet(SubSeq(q, 1, i)) \subseteq ToSet(q)
        /\ SubSeq(q, j, Len(q)) \in Seq(Nat) /\ ToSet(SubSeq(q, j, Len(q))) \subseteq ToSet(q)
    <3>1. ASSUME NEW a \in 1..(Len(q) + 1), NEW b \in 0..Len(q)
          PROVE  SubSeq(q, a, b) \in Seq(Nat) /\ ToSet(SubSeq(q, a, b)) \subseteq ToSet(q)
      <4>1. a \in Int /\ b \in Int /\ \A l \in a..b : l \in 1..Len(q) /\ q[l] \in Nat
        BY <2>2, ElementOfSeq
      <4> DEFINE p == SubSeq(q, a, b)
      <4>2. /\ p \in Seq(Nat) /\ Len(p) = IF a <= b THEN b - a + 1 ELSE 0
            /\ \A l \in 1..(b - a + 1) : p[l] = q[a + l - 1]
        BY <4>1, SubSeqProperties
      <4> HIDE DEF p
      <4>3. DOMAIN p = 1..Len(p) /\ DOMAIN q = 1..Len(q)
        BY <4>2, LenProperties
      <4>4. \A l \in 1..Len(p) : p[l] = q[a + l - 1] /\ a + l - 1 \in a..b
        BY <4>1, <4>2
      <4>5. \A l \in DOMAIN p : p[l] \in ToSet(q)
        BY <4>1, <4>3, <4>4 DEF ToSet
      <4> QED BY <4>2, <4>5 DEF ToSet, p
    <3> QED BY <2>1, <2>2, <3>1
  <2> DEFINE a == SubSeq(q, 1, i)
             b == SubSeq(q, j, Len(q))
  <2> HIDE DEF a, b
  <2>4. a \in Seq(Nat) /\ b \in Seq(Nat) /\ ToSet(a) \subseteq ToSet(q) /\ ToSet(b) \subseteq ToSet(q) /\ d = a \o b
    BY <2>1, <2>3 DEF a, b
  <2>5. d \in Seq(Nat) /\ Len(d) = Len(a) + Len(b)
        /\ \A l \in 1..Len(d) : d[l] = IF l <= Len(a) THEN a[l] ELSE b[l - Len(a)]
    BY <2>4, ConcatProperties
  <2>6. /\ DOMAIN d = 1..Len(d) /\ DOMAIN a = 1..Len(a) /\ DOMAIN b = 1..Len(b)
        /\ Len(a) \in Nat /\ Len(b) \in Nat
    BY <2>4, <2>5, LenProperties
  <2>7. \A l \in 1..Len(d) : d[l] \in ToSet(a) \cup ToSet(b)
    <3> SUFFICES ASSUME NEW l \in 1..Len(d) PROVE d[l] \in ToSet(a) \cup ToSet(b)
      OBVIOUS
    <3>1. CASE l <= Len(a)
      <4>1. l \in DOMAIN a /\ d[l] = a[l]
        BY <2>5, <2>6, <3>1
      <4> QED BY <4>1 DEF ToSet
    <3>2. CASE ~(l <= Len(a))
      <4>1. l - Len(a) \in DOMAIN b /\ d[l] = b[l - Len(a)]
        BY <2>5, <2>6, <3>2
      <4> QED BY <4>1 DEF ToSet
    <3> QED BY <3>1, <3>2
  <2> QED BY <2>4, <2>5, <2>6, <2>7 DEF ToSet
<1> QED BY <1>1, <1>2

\* What a crash may do to the chains.
DamagedAt(s) == \E q \in Reread(s) : chain' = [chain EXCEPT ![s] = q]
SomeDamaged  == \E s \in Ids : DamagedAt(s)
ChainsDamaged ==
  \/ chain' = chain /\ counts'.lost = counts.lost
  \/ SomeDamaged /\ counts'.lost > 0

Fewer(r) == chain[r] # NoChain /\ (chain'[r] = NoChain \/ ToSet(chain'[r]) \subseteq ToSet(chain[r]))
Again(r) == r \in deleted /\ \E n \in 1..counts.stored : chain'[r] = <<n>>

LEMMA RereadType ==
  ASSUME StateType, NEW s \in Ids, NEW q \in Reread(s)
  PROVE  /\ q \in Seq(Nat)
         /\ \/ chain[s] # NoChain /\ (q = NoChain \/ ToSet(q) \subseteq ToSet(chain[s]))
            \/ s \in deleted /\ \E n \in 1..counts.stored : q = <<n>>
<1>1. chain[s] \in Seq(Nat) /\ counts.stored \in Nat
  BY DEF StateType, Counts
<1>2. CASE chain[s] # NoChain /\ q \in Damaged(chain[s])
  BY <1>1, <1>2, DamagedType
<1>3. CASE s \in deleted /\ q \in {<<n>> : n \in 1..counts.stored}
  <2>1. PICK n \in 1..counts.stored : q = <<n>>
    BY <1>3
  <2>2. n \in Nat
    BY <1>1
  <2>3. q \in Seq(Nat)
    BY <2>1, <2>2
  <2> QED BY <1>3, <2>1, <2>3
<1> QED BY <1>2, <1>3 DEF Reread

LEMMA CrashType ==
  ASSUME StateType, Crash
  PROVE  /\ StateType' /\ load'.step = "load" /\ load'.at = None /\ load'.todo = list
         /\ load'.changed = {} /\ load'.last = 0
         /\ counts'.stored = counts.stored /\ counts'.tasks = counts.tasks
         /\ counts'.crashes > 0 /\ counts'.failures = counts.failures
         /\ ChainsDamaged /\ counts'.misses = counts.misses
<1>1. /\ load' \in Load /\ load'.step = "load" /\ load'.at = None /\ load'.todo = list
      /\ load'.changed = {} /\ load'.last = 0
  BY DEF Crash, StateType, Serving, Load
<1>2. counts \in Counts
  BY DEF StateType
<1>3. /\ \/ chain' = chain /\ counts' = [counts EXCEPT !.crashes = counts.crashes + 1]
         \/ /\ SomeDamaged
            /\ counts' = [counts EXCEPT !.crashes = counts.crashes + 1, !.lost = counts.lost + 1]
  BY <1>2 DEF Crash, Count, Counts, DamagedAt, SomeDamaged
<1>4. /\ counts' \in Counts /\ counts'.stored = counts.stored /\ counts'.tasks = counts.tasks
      /\ counts'.crashes > 0 /\ counts'.failures = counts.failures
      /\ ChainsDamaged /\ counts'.misses = counts.misses
  <2>1. CASE chain' = chain /\ counts' = [counts EXCEPT !.crashes = counts.crashes + 1]
    BY <1>2, <2>1 DEF Counts, ChainsDamaged
  <2>2. CASE /\ SomeDamaged
             /\ counts' = [counts EXCEPT !.crashes = counts.crashes + 1, !.lost = counts.lost + 1]
    <3>1. counts' = [counts EXCEPT !.crashes = counts.crashes + 1, !.lost = counts.lost + 1]
      BY <2>2
    <3>2. /\ counts' \in Counts /\ counts'.stored = counts.stored /\ counts'.tasks = counts.tasks
          /\ counts'.crashes > 0 /\ counts'.failures = counts.failures
          /\ counts'.lost > 0 /\ counts'.misses = counts.misses
      <4>1. PICK x \in Nat, y \in Nat : x = counts.crashes + 1 /\ y = counts.lost + 1
        BY <1>2 DEF Counts
      <4>2. counts' = [counts EXCEPT !.crashes = x, !.lost = y] /\ x > 0 /\ y > 0
        BY <1>2, <3>1, <4>1 DEF Counts
      <4> QED BY <1>2, <4>2 DEF Counts
    <3> QED BY <2>2, <3>2 DEF ChainsDamaged
  <2> QED BY <1>3, <2>1, <2>2
<1>7. chain' \in [Ids -> Seq(Nat)]
  <2>1. ASSUME NEW s \in Ids, DamagedAt(s) PROVE chain' \in [Ids -> Seq(Nat)]
    <3>1. PICK q \in Reread(s) : chain' = [chain EXCEPT ![s] = q]
      BY <2>1 DEF DamagedAt
    <3>2. q \in Seq(Nat)
      BY <3>1, RereadType
    <3> QED BY <3>1, <3>2 DEF StateType
  <2> QED BY <1>3, <2>1 DEF StateType, SomeDamaged
<1>5. /\ ctx' \in [Ids -> Context] /\ handler' \in [Threads -> Handled \cup {None}]
      /\ pending' \in [Ids -> Nat] /\ saver' \in [Savers -> Saves \cup {None}]
  BY NewContextType DEF Crash
<1>6. StateType'
  BY <1>1, <1>4, <1>5, <1>7 DEF Crash, ghosts, StateType
<1> QED BY <1>1, <1>4, <1>6

LEMMA CrashChains ==
  ASSUME StateType, Crash, NEW r \in Ids, chain'[r] # chain[r]
  PROVE  chain'[r] \in Seq(Nat) /\ counts'.lost > 0 /\ (Fewer(r) \/ Again(r))
<1>1. PICK s \in Ids : DamagedAt(s)
  BY CrashType DEF ChainsDamaged, SomeDamaged
<1>2. PICK q \in Reread(s) : chain' = [chain EXCEPT ![s] = q]
  BY <1>1 DEF DamagedAt
<1>3. r = s /\ chain'[r] = q
  BY <1>2 DEF StateType
<1>4. /\ q \in Seq(Nat)
      /\ \/ chain[r] # NoChain /\ (q = NoChain \/ ToSet(q) \subseteq ToSet(chain[r]))
         \/ r \in deleted /\ \E n \in 1..counts.stored : q = <<n>>
  BY <1>3, RereadType
<1>5. counts'.lost > 0
  BY CrashType DEF ChainsDamaged
<1> QED BY <1>3, <1>4, <1>5 DEF Fewer, Again

LEMMA LoadType == ASSUME load \in Load PROVE
  /\ load.todo \subseteq Ids /\ load.changed \subseteq Ids /\ load.last \in Nat
  /\ load.at # None => load.at.id \in Ids /\ (load.at.step = "read" => load.at.length \in Nat)
BY DEF Load, Loaded

LEMMA LoadSessionType ==
  ASSUME StateType, NEW s \in Ids, LoadSession(s)
  PROVE  /\ StateType' /\ load.step = "load" /\ load'.step = "load" /\ load.at = None /\ s \in load.todo
         /\ load'.changed = load.changed /\ load'.last = load.last
         /\ \A r \in Ids : r # s => ctx'[r] = ctx[r]
         /\ IF saved[s] = None
            THEN /\ load'.todo = load.todo \ {s} /\ load'.at = None /\ UNCHANGED <<sessions, ctx>>
            ELSE /\ load'.todo = load.todo /\ load'.at \in Loaded /\ load'.at.step = "mapped"
                 /\ load'.at.id = s /\ sessions' = sessions \cup {s} /\ ctx'[s] = saved[s]
<1> DEFINE at == [step |-> "mapped", id |-> s]
<1>1. at \in Loaded
  BY DEF Loaded
<1>2. load \in Load /\ load.step = "load" /\ load.at = None /\ s \in load.todo
  BY DEF LoadSession, StateType
<1>3. /\ load' \in Load /\ load'.step = "load"
      /\ load'.changed = load.changed /\ load'.last = load.last
      /\ IF saved[s] = None THEN load'.todo = load.todo \ {s} /\ load'.at = None
                            ELSE load'.todo = load.todo /\ load'.at = at
  <2>1. load' = IF saved[s] = None THEN [load EXCEPT !.todo = load.todo \ {s}]
                                   ELSE [load EXCEPT !.at = at]
    BY DEF LoadSession
  <2> HIDE DEF at
  <2> QED BY <1>1, <1>2, <2>1 DEF Load
<1>4. /\ ctx' \in [Ids -> Context]
      /\ \A r \in Ids : r # s => ctx'[r] = ctx[r]
      /\ saved[s] # None => ctx'[s] = saved[s] /\ sessions' = sessions \cup {s}
      /\ saved[s] = None => UNCHANGED <<sessions, ctx>>
  <2>1. CASE saved[s] = None
    BY <2>1 DEF LoadSession, StateType
  <2>2. CASE saved[s] # None
    <3>1. saved[s] \in Context
      BY <2>2 DEF StateType
    <3> QED BY <2>2, <3>1, CtxType DEF LoadSession, StateType
  <2> QED BY <2>1, <2>2
<1>5. StateType'
  <2>1. sessions' \subseteq Ids
    BY <1>4 DEF StateType
  <2> QED BY <1>3, <1>4, <2>1 DEF LoadSession, ghosts, StateType
<1> QED BY <1>1, <1>2, <1>3, <1>4, <1>5

LEMMA RegisterType ==
  ASSUME StateType, RegisterLoaded
  PROVE  /\ StateType' /\ load.step = "load" /\ load'.step = "load" /\ load.at # None /\ load'.at = None
         /\ load.at.id \in Ids
         /\ load'.todo = load.todo \ {load.at.id} /\ load'.changed = load.changed
         /\ load'.last = load.last
<1>1. load \in Load /\ load.step = "load" /\ load.at # None /\ load.at.id \in Ids
  BY LoadType DEF RegisterLoaded, StateType
<1>2. /\ load' \in Load /\ load'.step = "load" /\ load'.at = None
      /\ load'.todo = load.todo \ {load.at.id} /\ load'.changed = load.changed
      /\ load'.last = load.last
  BY <1>1 DEF RegisterLoaded, Load
<1>3. StateType'
  BY <1>1, <1>2 DEF RegisterLoaded, ghosts, StateType
<1> QED BY <1>1, <1>2, <1>3

LEMMA StartRebuildType ==
  ASSUME StateType, StartRebuild
  PROVE  /\ StateType' /\ load.step = "load" /\ load'.step = "rebuild" /\ load.at = None
         /\ load'.at = None /\ load.todo = {} /\ load'.todo = sessions
         /\ load'.changed = load.changed /\ load'.last = load.last
<1>1. load \in Load /\ load.step = "load" /\ load.at = None /\ load.todo = {} /\ sessions \subseteq Ids
  BY DEF StartRebuild, StateType
<1>2. /\ load' \in Load /\ load'.step = "rebuild" /\ load'.at = None /\ load'.todo = sessions
      /\ load'.changed = load.changed /\ load'.last = load.last
  BY <1>1 DEF StartRebuild, Load
<1>3. StateType'
  BY <1>2 DEF StartRebuild, ghosts, StateType
<1> QED BY <1>1, <1>2, <1>3

LEMMA ReadLastType ==
  ASSUME StateType, NEW s \in Ids, ReadLast(s)
  PROVE  /\ StateType' /\ load.step = "rebuild" /\ load'.step = "rebuild" /\ load.at = None
         /\ s \in load.todo /\ load'.changed = load.changed
         /\ IF HasMessage(s)
            THEN /\ load'.todo = load.todo /\ load'.last = Last(chain[s]) /\ load'.at \in Loaded
                 /\ load'.at.step = "read" /\ load'.at.id = s /\ load'.at.length = Len(chain[s])
            ELSE load'.todo = load.todo \ {s} /\ load'.last = load.last /\ load'.at = None
<1> DEFINE at == [step |-> "read", id |-> s, length |-> Len(chain[s])]
           last == Last(chain[s])
<1>1. load \in Load /\ load.step = "rebuild" /\ load.at = None /\ s \in load.todo /\ chain[s] \in Seq(Nat)
  BY DEF ReadLast, StateType
<1>2. at \in Loaded
  BY <1>1, LenProperties DEF Loaded
<1>3. HasMessage(s) => last \in Nat
  <2> SUFFICES ASSUME HasMessage(s) PROVE last \in Nat
    OBVIOUS
  <2>1. Len(chain[s]) \in 1..Len(chain[s])
    BY <1>1, EmptySeq DEF HasMessage
  <2> QED BY <1>1, <2>1, ElementOfSeq DEF Last
<1>4. load' = IF HasMessage(s) THEN [load EXCEPT !.at = at, !.last = last]
                               ELSE [load EXCEPT !.todo = load.todo \ {s}]
  BY DEF ReadLast
<1> HIDE DEF at, last
<1>5. /\ load' \in Load /\ load'.step = "rebuild" /\ load'.changed = load.changed
      /\ IF HasMessage(s) THEN load'.todo = load.todo /\ load'.last = last /\ load'.at = at
         ELSE load'.todo = load.todo \ {s} /\ load'.last = load.last /\ load'.at = None
  BY <1>1, <1>2, <1>3, <1>4 DEF Load
<1>6. StateType'
  BY <1>5 DEF ReadLast, ghosts, StateType
<1> QED BY <1>1, <1>2, <1>5, <1>6 DEF at, last

LEMMA RebuildType ==
  ASSUME StateType, RebuildSummary, NEW s, s = load.at.id
  PROVE  /\ StateType' /\ load.step = "rebuild" /\ load'.step = "rebuild" /\ load.at # None
         /\ load'.at = None /\ s \in Ids /\ CanWrite(s)
         /\ load'.todo = load.todo \ {s} /\ load'.last = 0
         /\ \A r \in Ids : r # s => ctx'[r] = ctx[r]
         /\ ctx'[s].summary = load.last /\ ctx'[s].messages = ctx[s].messages
         /\ ctx'[s].calls = ctx[s].calls /\ ctx'[s].joined = ctx[s].joined
         /\ load'.changed = IF ctx[s].summary = load.last THEN load.changed ELSE sessions
<1> DEFINE e == [ctx[s] EXCEPT !.summary = load.last]
           changed == IF ctx[s].summary = load.last THEN load.changed ELSE sessions
<1>1. /\ load \in Load /\ load.step = "rebuild" /\ load.at # None /\ s \in Ids /\ CanWrite(s)
      /\ load.last \in Nat
  BY LoadType DEF RebuildSummary, StateType
<1>2. ctx[s] \in Context
  BY <1>1 DEF StateType
<1>3. /\ e \in Context /\ e.summary = load.last /\ e.messages = ctx[s].messages
      /\ e.calls = ctx[s].calls /\ e.joined = ctx[s].joined
  BY <1>1, <1>2 DEF Context
<1>4. /\ ctx' = [ctx EXCEPT ![s] = e]
      /\ load' = [load EXCEPT !.at = None, !.last = 0, !.todo = load.todo \ {s}, !.changed = changed]
  BY DEF RebuildSummary
<1> HIDE DEF e
<1>5. ctx' \in [Ids -> Context] /\ ctx'[s] = e /\ \A r \in Ids : r # s => ctx'[r] = ctx[r]
  BY <1>1, <1>3, <1>4, CtxType DEF StateType
<1>6. changed \subseteq Ids
  BY <1>1, LoadType DEF StateType
<1> HIDE DEF changed
<1>7. /\ load' \in Load /\ load'.step = "rebuild" /\ load'.at = None
      /\ load'.todo = load.todo \ {s} /\ load'.last = 0 /\ load'.changed = changed
  BY <1>1, <1>4, <1>6 DEF Load
<1>8. StateType'
  BY <1>5, <1>7 DEF RebuildSummary, ghosts, StateType
<1> QED BY <1>1, <1>3, <1>5, <1>7, <1>8 DEF changed

LEMMA EndRebuildType ==
  ASSUME StateType, EndRebuild
  PROVE  /\ StateType' /\ load.step = "rebuild" /\ load.at = None /\ load' = Serving
         /\ \A r \in Ids : pending'[r] >= pending[r] /\ (r \in load.changed => pending'[r] > 0)
<1>1. /\ pending' \in [Ids -> Nat]
      /\ \A r \in Ids : pending'[r] >= pending[r] /\ (r \in load.changed => pending'[r] > 0)
  BY SpawnType DEF EndRebuild, StateType
<1>2. StateType'
  BY <1>1, ServingType DEF EndRebuild, ghosts, StateType
<1> QED BY <1>1, <1>2 DEF EndRebuild

-----------------------------------------------------------------------------
(* Who may touch a session.                                                *)

BeingDeleted(s) == deletion # None /\ deletion.id = s
HalfLoaded(s)   == load.step = "load" /\ load.at # None /\ load.at.id = s
Present(s)      == s \in sessions /\ ~BeingDeleted(s)
Held(s)         == s \in raced \/ Present(s)

Known ==
  /\ sessions \subseteq created /\ list \subseteq created
  /\ deleted \subseteq created /\ raced \subseteq created
  /\ \A s \in Ids \ created : ~HasMessage(s) /\ saved[s] = None
  /\ \A t \in Threads : handler[t] # None =>
       /\ handler[t].id \in created
       /\ \A i \in DOMAIN handler[t].calls : handler[t].calls[i].id = handler[t].id
  /\ \A v \in Savers : saver[v] # None => saver[v].id \in created
  /\ \A k \in tasks : k.id \in created

\* Before the server serves nothing is deleted, and what runs works on sessions
\* that are loaded.
Phase ==
  /\ load.step = "serving" => load = Serving
  /\ load.step # "serving" =>
       /\ deletion = None
       /\ \A t \in Threads : handler[t] # None => handler[t].id \in sessions
       /\ \A v \in Savers : saver[v] # None => saver[v].id \in sessions
  /\ load.step = "load" =>
       /\ load.todo \subseteq list /\ load.changed = {}
       /\ load.at = None => load.todo \cap sessions = {}
       /\ load.at # None => load.at.step = "mapped" /\ load.todo \cap sessions = {load.at.id}
  /\ load.step = "rebuild" =>
       /\ load.todo \subseteq sessions /\ load.changed \subseteq sessions
       /\ load.at # None => load.at.step = "read" /\ load.at.id \in sessions

Registered ==
  /\ orch = {s \in sessions : ~BeingDeleted(s) /\ ~HalfLoaded(s)}
  /\ deletion # None => deletion.id \in sessions

Live ==
  /\ \A t \in Threads : handler[t] # None => Held(handler[t].id)
  /\ \A v \in Savers : saver[v] # None => Held(saver[v].id)

Exclusive ==
  \A s \in Ids, t \in Threads : Holds(t, s) =>
    /\ \A u \in Threads : Holds(u, s) => u = t
    /\ \A v \in Savers : ~Reads(v, s)

Core == Known /\ Phase /\ Registered /\ Live /\ Exclusive

LEMMA NoneIdle ==
  /\ \A t \in Threads : \A s : handler[t] = None => ~Holds(t, s)
  /\ \A v \in Savers : \A s : saver[v] = None => ~Reads(v, s)
BY NoneIsNew DEF Holds, Reads

LEMMA CreateCore == ASSUME StateType, Core, NEW s \in Ids, CreateSession(s) PROVE Core'
<1>1. /\ load.step = "serving" /\ deletion = None /\ sessions' = sessions \cup {s}
      /\ created' = created \cup {s} /\ orch' = orch \cup {s}
      /\ UNCHANGED <<saved, list, chain, deletion, handler, saver, load, tasks, deleted, raced>>
  BY DEF CreateSession, Unlocked
<1>2. Known'
  BY <1>1 DEF Core, Known, HasMessage
<1>3. Phase'
  BY <1>1 DEF Core, Phase
<1>4. Registered'
  BY <1>1 DEF Core, Registered, BeingDeleted, HalfLoaded
<1>5. Live'
  BY <1>1 DEF Core, Live, Held, Present, BeingDeleted
<1>6. Exclusive'
  BY <1>1 DEF Core, Exclusive, Holds, Reads
<1> QED BY <1>2, <1>3, <1>4, <1>5, <1>6 DEF Core

LEMMA StartDeleteCore == ASSUME StateType, Core, NEW s \in Ids, StartDelete(s) PROVE Core'
<1> DEFINE d == [step |-> "del", id |-> s]
<1>1. /\ load.step = "serving" /\ deletion = None /\ s \in sessions
      /\ deletion' = d /\ orch' = orch \ {s}
      /\ UNCHANGED <<sessions, list, saved, chain, handler, saver, load, tasks, deleted, created>>
  BY DEF StartDelete, Unlocked
<1>2. /\ raced \subseteq raced' /\ raced' \subseteq raced \cup {s}
      /\ \A t \in Threads : handler[t] # None /\ handler[t].id = s => s \in raced'
      /\ \A v \in Savers : saver[v] # None /\ saver[v].id = s => s \in raced'
  BY DEF StartDelete
<1>3. d # None /\ d.id = s
  BY NoneIsNew DEF Deletes
<1> HIDE DEF d
<1>4. Known'
  BY <1>1, <1>2 DEF Core, Known, HasMessage
<1>5. Phase'
  BY <1>1 DEF Core, Phase
<1>6. Registered'
  BY <1>1, <1>3 DEF Core, Registered, BeingDeleted, HalfLoaded
<1>7. Live'
  BY <1>1, <1>2, <1>3 DEF Core, Live, Held, Present, BeingDeleted
<1>8. Exclusive'
  BY <1>1 DEF Core, Exclusive, Holds, Reads
<1> QED BY <1>4, <1>5, <1>6, <1>7, <1>8 DEF Core

LEMMA DeleteCore == ASSUME StateType, Core, Deletion PROVE Core'
<1>1. /\ deletion # None /\ deletion.id \in Ids
      /\ \/ deletion' # None /\ deletion'.id = deletion.id /\ UNCHANGED <<sessions, deleted>>
         \/ /\ deletion' = None /\ sessions' = sessions \ {deletion.id}
            /\ deleted' = deleted \cup {deletion.id}
  <2>1. ASSUME ~EndDelete PROVE UNCHANGED <<sessions, deleted>>
    BY <2>1 DEF Deletion, DeleteKey, RemoveFromList, DeleteChain, ghosts
  <2>2. ASSUME EndDelete PROVE /\ deletion' = None /\ sessions' = sessions \ {deletion.id}
                               /\ deleted' = deleted \cup {deletion.id}
    BY <2>2 DEF EndDelete
  <2> QED BY <2>1, <2>2, DeleteType, NoneIsNew
<1>2. UNCHANGED <<orch, ctx, handler, pending, saver, load, tasks, raced, created>>
  BY DEF Deletion, DeleteKey, RemoveFromList, DeleteChain, EndDelete, ghosts
<1>3. /\ list' \subseteq list
      /\ \A r \in Ids : saved'[r] = saved[r] \/ saved'[r] = None
      /\ \A r \in Ids : chain'[r] = chain[r] \/ chain'[r] = NoChain
  BY DEF Deletion, DeleteKey, RemoveFromList, DeleteChain, EndDelete, StateType
<1>4. load.step = "serving" /\ deletion.id \in sessions
  BY <1>1 DEF Core, Phase, Registered
<1>5. Known'
  BY <1>1, <1>2, <1>3, <1>4 DEF Core, Known, HasMessage
<1>6. Phase'
  BY <1>2, <1>4 DEF Core, Phase
<1>7. Registered'
  BY <1>1, <1>2, <1>4 DEF Core, Registered, BeingDeleted, HalfLoaded
<1>8. Live'
  BY <1>1, <1>2 DEF Core, Live, Held, Present, BeingDeleted
<1>9. Exclusive'
  BY <1>2 DEF Core, Exclusive, Holds, Reads
<1> QED BY <1>5, <1>6, <1>7, <1>8, <1>9 DEF Core

\* A handler starts on a session that it has found.
LEMMA FoundCore ==
  ASSUME StateType, Core, NEW t \in Threads, NEW s \in sessions, deletion = None, HandlerOnly(t),
         handler'[t].step = "found", handler'[t].id = s,
         \A i \in DOMAIN handler'[t].calls : handler'[t].calls[i].id = s,
         \A k \in tasks' : k.id \in created,
         UNCHANGED <<sessions, orch, ctx, saved, list, chain, deletion, pending, saver, load, ghosts>>
  PROVE  Core'
<1>1. UNCHANGED <<deleted, raced, created>>
  BY DEF ghosts
<1>2. Known'
  BY <1>1 DEF Core, Known, HandlerOnly, HasMessage
<1>3. Phase'
  BY <1>1 DEF Core, Phase, HandlerOnly
<1>4. Registered'
  BY <1>1 DEF Core, Registered, BeingDeleted, HalfLoaded
<1>5. Live'
  BY <1>1 DEF Core, Live, Held, Present, BeingDeleted, HandlerOnly
<1>6. \A u \in Threads, r \in Ids : Holds(u, r)' => Holds(u, r) /\ u # t
  BY DEF Holds, HandlerOnly
<1>7. \A v \in Savers, r \in Ids : Reads(v, r)' <=> Reads(v, r)
  BY DEF Reads
<1>8. Exclusive'
  BY <1>6, <1>7 DEF Core, Exclusive
<1> QED BY <1>2, <1>3, <1>4, <1>5, <1>8 DEF Core

LEMMA SendCore ==
  ASSUME StateType, Core, NEW t \in Threads, NEW s \in Ids, NEW m \in SUBSET Cats, SendMessage(t, s, m)
  PROVE  Core'
<1>1. \A i \in DOMAIN Calls(s, m, counts.tasks) : Calls(s, m, counts.tasks)[i].id = s
  BY CallsType DEF StateType, Counts
<1>2. /\ s \in sessions /\ deletion = None
      /\ UNCHANGED <<sessions, orch, ctx, saved, list, chain, deletion, pending, saver, load, tasks, ghosts>>
  BY DEF SendMessage, Unlocked
<1>3. \A k \in tasks' : k.id \in created
  BY <1>2 DEF Core, Known, HasMessage
<1> QED BY <1>1, <1>2, <1>3, SendType, FoundCore

LEMMA ResultCore ==
  ASSUME StateType, Core, NEW k \in tasks, NEW m \in SUBSET Cats, HandleResult(k, m)
  PROVE  Core'
<1> DEFINE n == Cardinality(m)
<1>1. counts.tasks \in Nat /\ n \in Nat /\ k.id \in Ids /\ k.id \in created /\ Listener \in Threads
  BY ResultType DEF StateType, Counts, Core, Known, Threads
<1>2. /\ deletion = None
      /\ UNCHANGED <<sessions, orch, ctx, saved, list, chain, deletion, pending, saver, load, ghosts>>
  BY DEF HandleResult, Unlocked
<1>3. \A j \in tasks' : j.id \in created
  <2> DEFINE sent == Calls(k.id, m, counts.tasks)
  <2>1. \A i \in DOMAIN sent : sent[i].id = k.id
    BY <1>1, CallsType
  <2>2. tasks' \subseteq tasks \cup ToSet(sent)
    BY ResultType DEF ForAgents
  <2> HIDE DEF sent
  <2> QED BY <1>1, <2>1, <2>2 DEF ToSet, Core, Known
<1>4. CASE k.id \in sessions
  <2> DEFINE new == Calls(k.id, m, counts.tasks + n)
  <2>1. \A i \in DOMAIN new : new[i].id = k.id
    <3>1. counts.tasks + n \in Nat
      BY <1>1
    <3> HIDE DEF n
    <3> QED BY <1>1, <3>1, CallsType
  <2>2. /\ HandlerOnly(Listener) /\ handler'[Listener].step = "found"
        /\ handler'[Listener].id = k.id /\ handler'[Listener].calls = new
    BY <1>4, ResultType
  <2> HIDE DEF new
  <2> QED BY <1>1, <1>2, <1>3, <1>4, <2>1, <2>2, FoundCore
<1>5. CASE k.id \notin sessions
  <2>1. UNCHANGED handler /\ UNCHANGED <<deleted, raced, created>>
    BY <1>2, <1>5, ResultType DEF ghosts
  <2>2. Known' /\ Phase'
    BY <1>2, <1>3, <2>1 DEF Core, Known, Phase, HasMessage
  <2>3. Registered' /\ Live'
    BY <1>2, <2>1 DEF Core, Registered, Live, Held, Present, BeingDeleted, HalfLoaded
  <2>4. Exclusive'
    BY <1>2, <2>1 DEF Core, Exclusive, Holds, Reads
  <2> QED BY <2>2, <2>3, <2>4 DEF Core
<1> QED BY <1>4, <1>5

\* A handler goes on, or ends.
LEMMA HandlerCore ==
  ASSUME StateType, Core, NEW t \in Threads, handler[t] # None, HandlerOnly(t),
         handler'[t] = None \/ (handler'[t].id = handler[t].id /\ handler'[t].calls = handler[t].calls),
         \A s \in Ids : Holds(t, s)' => Holds(t, s) \/ (handler[t].id = s /\ CanWrite(s)),
         \A s \in Ids : chain'[s] = chain[s] \/ s = handler[t].id,
         \A k \in tasks' : k.id \in created,
         UNCHANGED <<sessions, orch, saved, list, deletion, saver, load, ghosts>>
  PROVE  Core'
<1>1. UNCHANGED <<deleted, raced, created>>
  BY DEF ghosts
<1>2. Known'
  BY <1>1 DEF Core, Known, HandlerOnly, HasMessage
<1>3. Phase'
  BY <1>1 DEF Core, Phase, HandlerOnly
<1>4. Registered'
  BY <1>1 DEF Core, Registered, BeingDeleted, HalfLoaded
<1>5. Live'
  BY <1>1 DEF Core, Live, Held, Present, BeingDeleted, HandlerOnly
<1>6. \A u \in Threads, r \in Ids : u # t => (Holds(u, r)' <=> Holds(u, r))
  BY DEF Holds, HandlerOnly
<1>7. \A v \in Savers, r \in Ids : Reads(v, r)' <=> Reads(v, r)
  BY DEF Reads
<1>8. Exclusive'
  <2> SUFFICES ASSUME NEW s \in Ids, NEW u \in Threads, Holds(u, s)'
               PROVE  /\ \A w \in Threads : Holds(w, s)' => w = u
                      /\ \A v \in Savers : ~Reads(v, s)'
    BY DEF Exclusive
  <2>1. CASE u # t
    BY <1>6, <1>7, <2>1 DEF Core, Exclusive, CanWrite, CanRead
  <2>2. CASE u = t
    BY <1>6, <1>7, <2>2 DEF Core, Exclusive, CanWrite, CanRead
  <2> QED BY <2>1, <2>2
<1> QED BY <1>2, <1>3, <1>4, <1>5, <1>8 DEF Core

LEMMA TakeCore == ASSUME StateType, Core, NEW t \in Threads, TakeMessage(t) PROVE Core'
<1>1. PICK s : s = handler[t].id
  OBVIOUS
<1>2. /\ CanWrite(s)
      /\ UNCHANGED <<sessions, orch, saved, list, deletion, pending, saver, load, tasks, ghosts>>
  BY <1>1 DEF TakeMessage
<1>3. HandlerGoes(t, s, "append") /\ handler[t] # None
  BY <1>1, TakeType, NoneIsNew
<1>4. \A r \in Ids : Holds(t, r)' => r = s
  BY <1>3 DEF Holds, HandlerGoes
<1>5. \A k \in tasks' : k.id \in created
  BY <1>2 DEF Core, Known, HasMessage
<1> QED BY <1>1, <1>2, <1>3, <1>4, <1>5, HandlerCore DEF HandlerGoes

LEMMA AppendCore == ASSUME StateType, Core, NEW t \in Threads, AppendMessage(t) PROVE Core'
<1>1. PICK s : s = handler[t].id
  OBVIOUS
<1>2. UNCHANGED <<sessions, orch, saved, list, deletion, saver, load, tasks, ghosts>>
  BY <1>1 DEF AppendMessage
<1>3. HandlerGoes(t, s, "dispatch") /\ handler[t] # None /\ handler[t].step = "append"
  BY <1>1, AppendType, NoneIsNew
<1>4. \A r \in Ids : Holds(t, r)' => Holds(t, r)
  BY <1>3 DEF Holds, HandlerGoes
<1>5. \A k \in tasks' : k.id \in created
  BY <1>2 DEF Core, Known, HasMessage
<1> QED BY <1>1, <1>2, <1>3, <1>4, <1>5, HandlerCore DEF HandlerGoes

LEMMA DispatchCore == ASSUME StateType, Core, NEW t \in Threads, Dispatch(t) PROVE Core'
<1>1. PICK s : s = handler[t].id
  OBVIOUS
<1>2. UNCHANGED <<sessions, orch, saved, list, chain, deletion, saver, load, ghosts>>
  BY <1>1 DEF Dispatch
<1>3. handler'[t] = None /\ HandlerOnly(t) /\ handler[t].step = "dispatch" /\ handler[t] # None
  BY <1>1, DispatchType, NoneIsNew
<1>4. \A r \in Ids : ~Holds(t, r)'
  BY <1>3, NoneIsNew DEF Holds
<1>5. \A k \in tasks' : k.id \in created
  <2> DEFINE new == IF s \in orch THEN handler[t].calls ELSE <<>>
  <2>1. tasks' \subseteq tasks \cup ToSet(new)
    BY <1>1, DispatchType DEF ForAgents
  <2>2. \A i \in DOMAIN new : new[i].id \in created
    BY <1>3, ChainType DEF Core, Known
  <2> HIDE DEF new
  <2> QED BY <2>1, <2>2 DEF Core, Known, ToSet
<1> QED BY <1>1, <1>2, <1>3, <1>4, <1>5, HandlerCore

\* A save starts on a session that it has found, goes on, or ends.
LEMMA SaverCore ==
  ASSUME StateType, Core, NEW v \in Savers, SaverOnly(v),
         \/ saver'[v] = None
         \/ saver'[v] # None /\ saver[v] # None /\ saver'[v].id = saver[v].id
         \/ saver'[v] # None /\ saver'[v].id \in sessions /\ deletion = None,
         \A s \in Ids : Reads(v, s)' => Reads(v, s) \/ CanRead(s),
         list' \subseteq created /\ list \subseteq list',
         \A s \in Ids \ created : saved'[s] = None,
         UNCHANGED <<sessions, orch, chain, deletion, handler, load, tasks, ghosts>>
  PROVE  Core'
<1>1. UNCHANGED <<deleted, raced, created>>
  BY DEF ghosts
<1>2. Known'
  BY <1>1 DEF Core, Known, SaverOnly, HasMessage
<1>3. Phase'
  BY <1>1 DEF Core, Phase, SaverOnly
<1>4. Registered'
  BY <1>1 DEF Core, Registered, BeingDeleted, HalfLoaded
<1>5. Live'
  BY <1>1 DEF Core, Live, Held, Present, BeingDeleted, SaverOnly
<1>6. \A u \in Threads, r \in Ids : Holds(u, r)' <=> Holds(u, r)
  BY DEF Holds
<1>7. \A w \in Savers, r \in Ids : w # v => (Reads(w, r)' <=> Reads(w, r))
  BY DEF Reads, SaverOnly
<1>8. Exclusive'
  <2> SUFFICES ASSUME NEW s \in Ids, NEW u \in Threads, Holds(u, s)'
               PROVE  /\ \A w \in Threads : Holds(w, s)' => w = u
                      /\ \A w \in Savers : ~Reads(w, s)'
    BY DEF Exclusive
  <2> QED BY <1>6, <1>7 DEF Core, Exclusive, CanRead
<1> QED BY <1>2, <1>3, <1>4, <1>5, <1>8 DEF Core

LEMMA LookUpCore == ASSUME StateType, Core, NEW v \in Savers, NEW s \in Ids, LookUp(v, s) PROVE Core'
<1>1. /\ deletion = None /\ saver[v] = None
      /\ UNCHANGED <<sessions, orch, ctx, saved, list, chain, deletion, handler, load, tasks, ghosts>>
  BY DEF LookUp, Unlocked
<1>2. /\ SaverOnly(v)
      /\ IF s \in sessions THEN saver'[v] \in Saves /\ saver'[v].step = "found" /\ saver'[v].id = s
                           ELSE saver' = saver
  BY LookUpType
<1>3. \A r \in Ids : ~Reads(v, r)'
  BY <1>1, <1>2, NoneIsNew DEF Reads
<1>4. list' \subseteq created /\ list \subseteq list' /\ \A r \in Ids \ created : saved'[r] = None
  BY <1>1 DEF Core, Known, HasMessage
<1>5. CASE s \in sessions
  BY <1>1, <1>2, <1>3, <1>4, <1>5, SaverCore, NoneIsNew
<1>6. CASE s \notin sessions
  BY <1>1, <1>2, <1>3, <1>4, <1>6, SaverCore
<1> QED BY <1>5, <1>6

LEMMA SnapshotCore == ASSUME StateType, Core, NEW v \in Savers, Snapshot(v) PROVE Core'
<1>1. PICK s : s = saver[v].id
  OBVIOUS
<1>2. UNCHANGED <<sessions, orch, ctx, saved, list, chain, deletion, handler, pending, load, tasks, ghosts>>
  BY <1>1 DEF Snapshot
<1>3. /\ SaverOnly(v) /\ saver[v] # None /\ CanRead(s)
      /\ saver'[v] # None /\ saver'[v].id = s
  BY <1>1, SnapshotType, NoneIsNew
<1>4. \A r \in Ids : Reads(v, r)' => CanRead(r)
  BY <1>3 DEF Reads
<1>5. list' \subseteq created /\ list \subseteq list' /\ \A r \in Ids \ created : saved'[r] = None
  BY <1>2 DEF Core, Known, HasMessage
<1> QED BY <1>1, <1>2, <1>3, <1>4, <1>5, SaverCore

LEMMA SetKeyCore == ASSUME StateType, Core, NEW v \in Savers, SetKey(v) PROVE Core'
<1>1. PICK s : s = saver[v].id
  OBVIOUS
<1>2. UNCHANGED <<sessions, orch, ctx, list, chain, deletion, handler, pending, load, tasks, ghosts>>
  BY <1>1 DEF SetKey
<1>3. /\ SaverOnly(v) /\ saver[v] # None /\ saver[v].step = "set"
      /\ \A r \in Ids : r # s => saved'[r] = saved[r]
      /\ saver'[v] = None \/ (saver'[v] # None /\ saver'[v].id = s)
  BY <1>1, SetKeyType, NoneIsNew
<1>4. \A r \in Ids : Reads(v, r)' => Reads(v, r)
  BY <1>1, <1>3, NoneIsNew DEF Reads
<1>5. list' \subseteq created /\ list \subseteq list' /\ \A r \in Ids \ created : saved'[r] = None
  BY <1>1, <1>2, <1>3 DEF Core, Known, HasMessage
<1> QED BY <1>1, <1>2, <1>3, <1>4, <1>5, SaverCore

LEMMA AddToListCore == ASSUME StateType, Core, NEW v \in Savers, AddToList(v) PROVE Core'
<1>1. PICK s : s = saver[v].id
  OBVIOUS
<1>2. UNCHANGED <<sessions, orch, ctx, saved, chain, deletion, handler, pending, load, tasks, ghosts>>
  BY <1>1 DEF AddToList
<1>3. /\ SaverOnly(v) /\ saver[v] # None /\ saver'[v] = None
      /\ list' \subseteq list \cup {s} /\ list \subseteq list'
  BY <1>1, AddToListType, NoneIsNew
<1>4. \A r \in Ids : ~Reads(v, r)'
  BY <1>3, NoneIsNew DEF Reads
<1>5. list' \subseteq created /\ \A r \in Ids \ created : saved'[r] = None
  BY <1>1, <1>2, <1>3 DEF Core, Known, HasMessage
<1> QED BY <1>2, <1>3, <1>4, <1>5, SaverCore

LEMMA CrashCore == ASSUME StateType, Core, Crash PROVE Core'
<1>1. /\ sessions' = {} /\ orch' = {} /\ deletion' = None
      /\ UNCHANGED <<saved, list, tasks, ghosts>>
      /\ \A t \in Threads : handler'[t] = None
      /\ \A v \in Savers : saver'[v] = None
  BY DEF Crash
<1>2. UNCHANGED <<deleted, raced, created>>
  BY <1>1 DEF ghosts
<1>3. Known'
  <2>1. \A s \in Ids \ created : HasMessage(s)' => HasMessage(s)
    <3> SUFFICES ASSUME NEW s \in Ids \ created, HasMessage(s)', chain'[s] # chain[s], chain[s] = <<>>
                 PROVE  FALSE
      BY CrashChains DEF HasMessage, Fewer, Again, Core, Known
    <3>1. chain'[s] \in Seq(Nat) /\ chain'[s] # <<>> /\ ToSet(chain'[s]) \subseteq ToSet(<<>>)
      BY CrashChains DEF HasMessage, Fewer, Again, Core, Known
    <3>2. 1 \in DOMAIN chain'[s]
      BY <3>1, EmptySeq, LenProperties
    <3>3. ToSet(chain'[s]) # {} /\ ToSet(<<>>) = {}
      BY <3>2, ChainType DEF ToSet
    <3> QED BY <3>1, <3>3
  <2> QED BY <1>1, <1>2, <2>1 DEF Core, Known
<1>4. Phase'
  BY <1>1, CrashType DEF Phase
<1>5. Registered' /\ Live'
  BY <1>1 DEF Registered, Live
<1>6. Exclusive'
  BY <1>1, NoneIsNew DEF Exclusive, Holds
<1> QED BY <1>3, <1>4, <1>5, <1>6 DEF Core

LEMMA UnansweredCore == ASSUME StateType, Core, NEW k \in tasks, EndUnanswered(k) PROVE Core'
<1>1. /\ tasks' \subseteq tasks
      /\ UNCHANGED <<sessions, orch, ctx, saved, list, chain, deletion, handler, pending, saver,
                     load, created, deleted, raced>>
  BY DEF EndUnanswered, ghosts
<1>2. Known'
  BY <1>1 DEF Core, Known, HasMessage
<1>3. Phase' /\ Registered'
  BY <1>1 DEF Core, Phase, Registered, BeingDeleted, HalfLoaded
<1>4. Live' /\ Exclusive'
  BY <1>1 DEF Core, Live, Held, Present, BeingDeleted, Exclusive, Holds, Reads
<1> QED BY <1>2, <1>3, <1>4 DEF Core

LEMMA GetOrCreateCore == ASSUME StateType, Core, NEW s \in Ids, GetOrCreateChain(s) PROVE Core'
<1>1. UNCHANGED <<sessions, orch, ctx, saved, list, deletion, handler, pending, saver, load, tasks,
                  created, deleted, raced>>
  BY DEF GetOrCreateChain, ghosts
<1>2. \A r \in Ids : HasMessage(r)' => HasMessage(r)
  BY GetOrCreateType DEF HasMessage
<1>3. Known'
  BY <1>1, <1>2 DEF Core, Known
<1>4. Phase' /\ Registered'
  BY <1>1 DEF Core, Phase, Registered, BeingDeleted, HalfLoaded
<1>5. Live' /\ Exclusive'
  BY <1>1 DEF Core, Live, Held, Present, BeingDeleted, Exclusive, Holds, Reads
<1> QED BY <1>3, <1>4, <1>5 DEF Core

\* LoadAllSessions goes on.
LEMMA LoadCore ==
  ASSUME StateType, Core, load.step # "serving", sessions \subseteq sessions', sessions' \subseteq created,
         Phase', Registered',
         UNCHANGED <<saved, list, chain, deletion, handler, saver, tasks, ghosts>>
  PROVE  Core'
<1>1. UNCHANGED <<deleted, raced, created>>
  BY DEF ghosts
<1>2. Known'
  BY <1>1 DEF Core, Known, HasMessage
<1>3. Live'
  BY <1>1 DEF Core, Live, Held, Present, BeingDeleted
<1>4. Exclusive'
  BY DEF Core, Exclusive, Holds, Reads
<1> QED BY <1>2, <1>3, <1>4 DEF Core

LEMMA LoadSessionCore == ASSUME StateType, Core, NEW s \in Ids, LoadSession(s) PROVE Core'
<1>1. /\ load.step = "load" /\ load'.step = "load" /\ load.at = None /\ s \in load.todo
      /\ load'.changed = load.changed
      /\ IF saved[s] = None
         THEN load'.todo = load.todo \ {s} /\ load'.at = None /\ UNCHANGED <<sessions, ctx>>
         ELSE /\ load'.todo = load.todo /\ load'.at \in Loaded /\ load'.at.step = "mapped"
              /\ load'.at.id = s /\ sessions' = sessions \cup {s}
  BY LoadSessionType
<1>2. UNCHANGED <<orch, saved, list, chain, deletion, handler, pending, saver, tasks, ghosts, counts>>
  BY DEF LoadSession
<1>3. sessions \subseteq sessions' /\ sessions' \subseteq created
  BY <1>1 DEF Core, Known, Phase, HasMessage
<1>4. Phase'
  BY <1>1, <1>2, NoneIsNew DEF Core, Phase
<1>5. Registered'
  BY <1>1, <1>2, NoneIsNew DEF Core, Phase, Registered, BeingDeleted, HalfLoaded
<1> QED BY <1>1, <1>2, <1>3, <1>4, <1>5, LoadCore

LEMMA RegisterCore == ASSUME StateType, Core, RegisterLoaded PROVE Core'
<1>1. /\ load.step = "load" /\ load'.step = "load" /\ load.at # None /\ load'.at = None
      /\ load'.todo = load.todo \ {load.at.id} /\ load'.changed = load.changed
  BY RegisterType
<1>2. /\ orch' = orch \cup {load.at.id}
      /\ UNCHANGED <<sessions, ctx, saved, list, chain, deletion, handler, pending, saver, tasks, ghosts,
                     counts>>
  BY DEF RegisterLoaded
<1>3. sessions \subseteq sessions' /\ sessions' \subseteq created
  BY <1>2 DEF Core, Known, HasMessage
<1>4. Phase'
  BY <1>1, <1>2 DEF Core, Phase
<1>5. Registered'
  BY <1>1, <1>2 DEF Core, Phase, Registered, BeingDeleted, HalfLoaded
<1> QED BY <1>1, <1>2, <1>3, <1>4, <1>5, LoadCore

LEMMA RebuildCore ==
  ASSUME StateType, Core,
         StartRebuild \/ (\E s \in Ids : ReadLast(s)) \/ RebuildSummary \/ EndRebuild
  PROVE  Core'
<1>1. UNCHANGED <<sessions, orch, saved, list, chain, deletion, handler, saver, tasks, ghosts, counts>>
  BY DEF StartRebuild, ReadLast, RebuildSummary, EndRebuild
<1>2. /\ load.step # "serving"
      /\ load.step = "load" => load.at = None
      /\ \/ load' = Serving
         \/ /\ load'.step = "rebuild"
            /\ load'.todo \subseteq load.todo \cup sessions /\ load'.changed \subseteq load.changed \cup sessions
            /\ load.step = "load" => load'.todo \subseteq sessions
            /\ load'.at = None \/ (load'.at.step = "read" /\ load'.at.id \in load.todo /\ load.step = "rebuild")
  <2>1. CASE StartRebuild
    BY <2>1, StartRebuildType
  <2>2. CASE \E s \in Ids : ReadLast(s)
    BY <2>2, ReadLastType
  <2>3. CASE RebuildSummary
    BY <2>3, RebuildType
  <2>4. CASE EndRebuild
    BY <2>4, EndRebuildType
  <2> QED BY <2>1, <2>2, <2>3, <2>4
<1>3. sessions \subseteq sessions' /\ sessions' \subseteq created
  BY <1>1 DEF Core, Known
<1>4. Phase'
  <2>1. CASE load' = Serving
    BY <1>1, <1>2, <2>1, ServingType DEF Core, Phase
  <2>2. CASE load'.step = "rebuild"
    <3>1. load.step \in {"load", "rebuild"}
      BY <1>2 DEF StateType, Load
    <3>2. load'.todo \subseteq sessions /\ load'.changed \subseteq sessions
      BY <1>2, <2>2, <3>1, ServingType DEF Core, Phase
    <3>3. load'.at # None => load'.at.step = "read" /\ load'.at.id \in sessions
      BY <1>2, <2>2, <3>1, ServingType DEF Core, Phase
    <3> QED BY <1>1, <1>2, <2>2, <3>2, <3>3 DEF Core, Phase
  <2> QED BY <1>2, <2>1, <2>2
<1>5. Registered'
  BY <1>1, <1>2, ServingType DEF Core, Registered, BeingDeleted, HalfLoaded
<1>6. load.step # "serving"
  BY <1>2
<1> QED BY <1>1, <1>3, <1>4, <1>5, <1>6, LoadCore

LEMMA RenameCore == ASSUME StateType, Core, NEW s \in Ids, UpdateSessionName(s) PROVE Core'
<1>1. UNCHANGED <<sessions, orch, saved, list, chain, deletion, handler, saver, load, tasks, ghosts>>
  BY DEF UpdateSessionName
<1>2. Known' /\ Phase'
  BY <1>1 DEF Core, Known, Phase, HasMessage, ghosts
<1>3. Registered' /\ Live'
  BY <1>1 DEF Core, Registered, Live, Held, Present, BeingDeleted, HalfLoaded, ghosts
<1>4. Exclusive'
  BY <1>1 DEF Core, Exclusive, Holds, Reads
<1> QED BY <1>2, <1>3, <1>4 DEF Core

LEMMA InitOK == ASSUME Init PROVE StateType /\ Core
<1>1. ctx \in [Ids -> Context] /\ chain \in [Ids -> Seq(Nat)]
  BY NewContextType, ChainType DEF Init
<1>2. load = Serving /\ load \in Load
  BY ServingType DEF Init
<1>3. StateType
  BY <1>1, <1>2 DEF Init, StateType, Counts
<1>4. Known /\ Live
  BY DEF Init, Known, Live, HasMessage
<1>5. Phase
  BY <1>2, ServingType DEF Init, Phase
<1>6. Registered
  BY <1>2, ServingType DEF Init, Registered
<1>7. Exclusive
  BY NoneIdle DEF Init, Exclusive
<1> QED BY <1>3, <1>4, <1>5, <1>6, <1>7 DEF Core

LEMMA StillCore == ASSUME StateType, Core, UNCHANGED vars PROVE StateType' /\ Core'
<1>1. StateType'
  BY DEF vars, ghosts, StateType
<1>2. Known' /\ Phase'
  BY DEF vars, ghosts, Core, Known, Phase, HasMessage
<1>3. Registered' /\ Live'
  BY DEF vars, ghosts, Core, Registered, Live, Held, Present, BeingDeleted, HalfLoaded
<1>4. Exclusive'
  BY DEF vars, Core, Exclusive, Holds, Reads
<1> QED BY <1>1, <1>2, <1>3, <1>4 DEF Core

LEMMA StepCore == ASSUME StateType, Core, [Next]_vars PROVE StateType' /\ Core'
<1>1. CASE \E s \in Ids : CreateSession(s) \/ UpdateSessionName(s) \/ StartDelete(s)
  BY <1>1, CreateType, CreateCore, RenameType, RenameCore, StartDeleteType, StartDeleteCore
<1>2. CASE \E t \in Requests, s \in Ids, m \in SUBSET Cats : SendMessage(t, s, m)
  BY <1>2, SendType, SendCore DEF Threads
<1>3. CASE \E k \in tasks, m \in SUBSET Cats : HandleResult(k, m)
  BY <1>3, ResultType, ResultCore
<1>4. CASE \E t \in Threads : Handling(t)
  BY <1>4, TakeType, TakeCore, AppendType, AppendCore, DispatchType, DispatchCore DEF Handling
<1>5. CASE \E v \in Savers : Saving(v)
  BY <1>5, LookUpType, LookUpCore, SnapshotType, SnapshotCore, SetKeyType, SetKeyCore, AddToListType,
     AddToListCore DEF Saving
<1>6. CASE Deletion
  BY <1>6, DeleteType, DeleteCore
<1>7. CASE Loading
  BY <1>7, LoadSessionType, LoadSessionCore, RegisterType, RegisterCore, StartRebuildType, ReadLastType,
     RebuildType, EndRebuildType, RebuildCore DEF Loading
<1>8. CASE Crash
  BY <1>8, CrashType, CrashCore
<1>9. CASE UNCHANGED vars
  BY <1>9, StillCore
<1>10. CASE \/ \E k \in tasks : EndUnanswered(k)
            \/ \E s \in Ids : GetOrCreateChain(s)
  BY <1>10, UnansweredType, UnansweredCore, GetOrCreateType, GetOrCreateCore
<1> QED BY <1>1, <1>2, <1>3, <1>4, <1>5, <1>6, <1>7, <1>8, <1>9, <1>10 DEF Next

\* StateType and Core hold always.
THEOREM Invariance == Spec => [](StateType /\ Core)
<1> QED BY InitOK, StepCore, PTL DEF Spec

\* Between SessionManager and the orchestrator no session is lost: but for a
\* deletion or LoadSession under way, they know the same ones.
THEOREM SameSessions == Spec => []RegisteredTogether
<1>1. Core => RegisteredTogether
  BY DEF Core, Registered, RegisteredTogether, BeingDeleted, HalfLoaded
<1> QED BY <1>1, Invariance, PTL

-----------------------------------------------------------------------------
(* The numbers of messages: TypeOK.                                        *)

Appending(t, s) == handler[t].step = "append" /\ handler[t].id = s

\* A step that tells nobody of a message: what was appended, saved or read before
\* stays, is deleted or is forgotten.
Quiet ==
  /\ counts'.stored = counts.stored /\ counts'.crashes = counts.crashes
  /\ \A s \in Ids : ctx'[s].summary = ctx[s].summary /\ ctx'[s].messages = ctx[s].messages
  /\ \A s \in Ids : saved'[s] = saved[s] \/ (saved'[s] = None /\ BeingDeleted(s))
  /\ \A s \in Ids : \/ chain'[s] = chain[s]
                    \/ chain'[s] = NoChain /\ BeingDeleted(s)
                    \/ chain'[s] = <<>> /\ chain[s] = NoChain
  /\ \A t \in Threads, s \in Ids : Appending(t, s)' <=> Appending(t, s)
  /\ \A v \in Savers : saver'[v].step = "set" => saver'[v] = saver[v]
  /\ load'.step = "rebuild" /\ load'.at # None => load' = load
  /\ load'.last = load.last \/ load'.last = 0

Aside ==
  \/ \E s \in Ids : UpdateSessionName(s) \/ StartDelete(s)
  \/ Deletion
  \/ \E t \in Requests, s \in Ids, m \in SUBSET Cats : SendMessage(t, s, m)
  \/ \E k \in tasks, m \in SUBSET Cats : HandleResult(k, m)
  \/ \E k \in tasks : EndUnanswered(k)
  \/ \E s \in Ids : GetOrCreateChain(s)
  \/ \E t \in Threads : Dispatch(t)
  \/ \E v \in Savers : (\E s \in Ids : LookUp(v, s)) \/ AddToList(v)
  \/ RegisterLoaded \/ StartRebuild \/ EndRebuild
  \/ UNCHANGED vars

LEMMA NextCases ==
  ASSUME [Next]_vars
  PROVE  \/ Aside \/ Crash \/ RebuildSummary
         \/ \E s \in Ids : CreateSession(s) \/ LoadSession(s) \/ ReadLast(s)
         \/ \E t \in Threads : TakeMessage(t) \/ AppendMessage(t)
         \/ \E v \in Savers : Snapshot(v) \/ SetKey(v)
BY DEF Next, Aside, Handling, Saving, Loading

LEMMA AsideQuiet == ASSUME StateType, Core, Aside PROVE Quiet
<1>1. ASSUME NEW s \in Ids, UpdateSessionName(s) PROVE Quiet
  <2>1. UNCHANGED <<saved, chain, handler, saver, load>>
    BY <1>1 DEF UpdateSessionName
  <2> QED BY <1>1, <2>1, RenameType DEF Quiet, SameCtx, SameData, Appending
<1>2. ASSUME NEW s \in Ids, StartDelete(s) PROVE Quiet
  BY <1>2 DEF StartDelete, Quiet, Appending
<1>3. CASE Deletion
  <2>1. UNCHANGED <<ctx, handler, saver, load>>
    BY <1>3 DEF Deletion, DeleteKey, RemoveFromList, DeleteChain, EndDelete
  <2>2. /\ \A s \in Ids : saved'[s] = saved[s] \/ (saved'[s] = None /\ deletion.id = s)
        /\ \A s \in Ids : chain'[s] = chain[s] \/ (chain'[s] = NoChain /\ deletion.id = s)
    BY <1>3 DEF Deletion, DeleteKey, RemoveFromList, DeleteChain, EndDelete, StateType
  <2> QED BY <1>3, <2>1, <2>2, DeleteType DEF Quiet, MayFail, Appending, BeingDeleted
<1>4. ASSUME NEW t \in Threads, HandlerOnly(t), handler'[t].step = "found", handler[t].step # "append",
             UNCHANGED <<ctx, saved, chain, saver, load>>, counts'.stored = counts.stored,
             counts'.crashes = counts.crashes
      PROVE  Quiet
  BY <1>4 DEF Quiet, Appending, HandlerOnly
<1>5. ASSUME NEW t \in Requests, NEW s \in Ids, NEW m \in SUBSET Cats, SendMessage(t, s, m) PROVE Quiet
  <2>1. t \in Threads /\ handler[t].step # "append" /\ UNCHANGED <<ctx, saved, chain, saver, load>>
    BY <1>5, NoneIsNew DEF SendMessage, Threads
  <2> QED BY <1>4, <1>5, <2>1, SendType
<1>6. ASSUME NEW k \in tasks, NEW m \in SUBSET Cats, HandleResult(k, m) PROVE Quiet
  <2>1. /\ Listener \in Threads /\ handler[Listener].step # "append"
        /\ UNCHANGED <<ctx, saved, chain, saver, load>>
    BY <1>6, NoneIsNew DEF HandleResult, Threads
  <2>2. CASE k.id \in sessions
    BY <1>4, <1>6, <2>1, <2>2, ResultType
  <2>3. CASE k.id \notin sessions
    BY <1>6, <2>1, <2>3, ResultType DEF Quiet, Appending
  <2> QED BY <2>2, <2>3
<1>7. ASSUME NEW t \in Threads, Dispatch(t) PROVE Quiet
  <2>1. PICK s : s = handler[t].id
    OBVIOUS
  <2>2. UNCHANGED <<saved, chain, saver, load>>
    BY <1>7 DEF Dispatch
  <2>3. /\ \A r \in Ids : ctx'[r].summary = ctx[r].summary /\ ctx'[r].messages = ctx[r].messages
        /\ MayFail /\ HandlerOnly(t) /\ handler'[t] = None /\ handler[t].step = "dispatch"
    BY <1>7, <2>1, DispatchType
  <2> QED BY <2>2, <2>3, NoneIsNew DEF Quiet, MayFail, Appending, HandlerOnly
<1>8. ASSUME NEW v \in Savers, NEW s \in Ids, LookUp(v, s) PROVE Quiet
  <2>1. UNCHANGED <<ctx, saved, chain, handler, load, counts>>
    BY <1>8 DEF LookUp
  <2> QED BY <1>8, <2>1, LookUpType DEF Quiet, Appending, SaverOnly
<1>9. ASSUME NEW v \in Savers, AddToList(v) PROVE Quiet
  <2>1. UNCHANGED <<ctx, saved, chain, handler, load>>
    BY <1>9 DEF AddToList
  <2> QED BY <1>9, <2>1, AddToListType, NoneIsNew DEF Quiet, MayFail, Appending, SaverOnly
<1>10. CASE RegisterLoaded
  <2>1. UNCHANGED <<ctx, saved, chain, handler, saver, counts>>
    BY <1>10 DEF RegisterLoaded
  <2> QED BY <1>10, <2>1, RegisterType DEF Quiet, Appending
<1>11. CASE StartRebuild
  <2>1. UNCHANGED <<ctx, saved, chain, handler, saver, counts>>
    BY <1>11 DEF StartRebuild
  <2> QED BY <1>11, <2>1, StartRebuildType DEF Quiet, Appending
<1>12. CASE EndRebuild
  <2>1. UNCHANGED <<ctx, saved, chain, handler, saver, counts>>
    BY <1>12 DEF EndRebuild
  <2> QED BY <1>12, <2>1, EndRebuildType, ServingType DEF Quiet, Appending
<1>13. CASE UNCHANGED vars
  BY <1>13 DEF vars, Quiet, Appending
<1>14. ASSUME NEW k \in tasks, EndUnanswered(k) PROVE Quiet
  <2>1. UNCHANGED <<ctx, saved, chain, handler, saver, load>>
    BY <1>14 DEF EndUnanswered
  <2> QED BY <1>14, <2>1, UnansweredType DEF Quiet, Appending
<1>15. ASSUME NEW s \in Ids, GetOrCreateChain(s) PROVE Quiet
  <2>1. UNCHANGED <<ctx, saved, handler, saver, load, counts>>
    BY <1>15 DEF GetOrCreateChain
  <2> QED BY <1>15, <2>1, GetOrCreateType DEF Quiet, Appending
<1> QED BY <1>1, <1>2, <1>3, <1>5, <1>6, <1>7, <1>8, <1>9, <1>10, <1>11, <1>12, <1>13, <1>14,
           <1>15 DEF Aside

Within(c, n)  == c.summary <= n /\ c.messages <= n
InChain(q, n) == q = NoChain \/ \A i \in 1..Len(q) : 1 <= q[i] /\ q[i] <= n

Bounds ==
  /\ \A s \in Ids : /\ Within(ctx[s], counts.stored)
                    /\ saved[s] # None => Within(saved[s], counts.stored)
                    /\ InChain(chain[s], counts.stored)
  /\ \A t \in Threads, s \in Ids : Appending(t, s) => ctx[s].summary >= 1
  /\ \A v \in Savers : saver[v].step = "set" => Within(saver[v].data, counts.stored)
  /\ load.last <= counts.stored

LEMMA NumberTypes ==
  ASSUME StateType
  PROVE  /\ counts.stored \in Nat /\ load.last \in Nat
         /\ \A s \in Ids : /\ ctx[s].summary \in Nat /\ ctx[s].messages \in Nat
                           /\ saved[s] # None => saved[s].summary \in Nat /\ saved[s].messages \in Nat
                           /\ chain[s] \in Seq(Nat) /\ Len(chain[s]) \in Nat
                           /\ \A i \in 1..Len(chain[s]) : chain[s][i] \in Nat
         /\ \A v \in Savers : saver[v].step = "set" =>
              saver[v].id \in Ids /\ saver[v].data.summary \in Nat /\ saver[v].data.messages \in Nat
<1>1. counts.stored \in Nat /\ load.last \in Nat
  BY DEF StateType, Counts, Load
<1>2. ASSUME NEW s \in Ids
      PROVE  /\ ctx[s].summary \in Nat /\ ctx[s].messages \in Nat
             /\ saved[s] # None => saved[s].summary \in Nat /\ saved[s].messages \in Nat
  <2>1. ctx[s] \in Context /\ saved[s] \in Context \cup {None}
    BY DEF StateType
  <2> QED BY <2>1 DEF Context
<1>3. ASSUME NEW s \in Ids
      PROVE  /\ chain[s] \in Seq(Nat) /\ Len(chain[s]) \in Nat
             /\ \A i \in 1..Len(chain[s]) : chain[s][i] \in Nat
  <2>1. chain[s] \in Seq(Nat)
    BY DEF StateType
  <2> QED BY <2>1, LenProperties, ElementOfSeq
<1>4. ASSUME NEW v \in Savers, saver[v].step = "set"
      PROVE  saver[v].id \in Ids /\ saver[v].data.summary \in Nat /\ saver[v].data.messages \in Nat
  <2>1. saver[v].data \in Context /\ saver[v].id \in Ids
    BY <1>4, SaverType DEF StateType
  <2> QED BY <2>1 DEF Context
<1> QED BY <1>1, <1>2, <1>3, <1>4

\* At most n messages stay at most one more.
LEMMA InChainMore ==
  ASSUME NEW q \in Seq(Nat), NEW n \in Nat, InChain(q, n)
  PROVE  InChain(q, n + 1)
<1>1. \A i \in 1..Len(q) : q[i] \in Nat
  BY ElementOfSeq
<1> QED BY <1>1 DEF InChain

LEMMA InChainAppend ==
  ASSUME NEW q \in Seq(Nat), NEW n \in Nat, NEW x \in 1..n, InChain(q, n), q # NoChain
  PROVE  InChain(Append(q, x), n)
<1>1. /\ Len(q) \in Nat /\ Len(Append(q, x)) = Len(q) + 1 /\ Append(q, x)[Len(q) + 1] = x
      /\ \A i \in 1..Len(q) : Append(q, x)[i] = q[i]
  BY AppendProperties, LenProperties
<1> QED BY <1>1 DEF InChain

LEMMA FewerInChain ==
  ASSUME NEW q \in Seq(Nat), NEW d \in Seq(Nat), NEW n, InChain(q, n), q # NoChain,
         d = NoChain \/ ToSet(d) \subseteq ToSet(q)
  PROVE  InChain(d, n)
<1>1. DOMAIN q = 1..Len(q) /\ DOMAIN d = 1..Len(d)
  BY LenProperties
<1>2. ASSUME NEW i \in 1..Len(d), d # NoChain PROVE 1 <= d[i] /\ d[i] <= n
  <2>1. d[i] \in ToSet(q)
    BY <1>1, <1>2 DEF ToSet
  <2>2. PICK j \in 1..Len(q) : d[i] = q[j]
    BY <1>1, <2>1 DEF ToSet
  <2> QED BY <2>2 DEF InChain
<1> QED BY <1>2 DEF InChain

LEMMA QuietBounds == ASSUME StateType, Bounds, Quiet PROVE Bounds'
<1>1. \A s \in Ids : /\ Within(ctx'[s], counts'.stored)
                     /\ saved'[s] # None => Within(saved'[s], counts'.stored)
  BY DEF Bounds, Quiet, Within
<1>2. \A s \in Ids : InChain(chain'[s], counts'.stored)
  BY ChainType DEF Bounds, Quiet, InChain
<1>3. \A t \in Threads, s \in Ids : Appending(t, s)' => ctx'[s].summary >= 1
  BY DEF Bounds, Quiet
<1>4. \A v \in Savers : saver'[v].step = "set" => Within(saver'[v].data, counts'.stored)
  BY DEF Bounds, Quiet, Within
<1>5. load'.last <= counts'.stored
  BY NumberTypes DEF Bounds, Quiet
<1> QED BY <1>1, <1>2, <1>3, <1>4, <1>5 DEF Bounds

LEMMA StepBounds == ASSUME StateType, Core, Bounds, [Next]_vars PROVE Bounds'
<1>1. CASE Aside
  BY <1>1, AsideQuiet, QuietBounds
<1>2. CASE Crash
  <2>1. /\ \A s \in Ids : ctx'[s] = NewContext
        /\ \A t \in Threads : handler'[t] = None
        /\ \A v \in Savers : saver'[v] = None
        /\ UNCHANGED saved
    BY <1>2 DEF Crash
  <2>2. counts'.stored = counts.stored /\ load'.last = 0
    BY <1>2, CrashType
  <2>3. ASSUME NEW r \in Ids PROVE InChain(chain'[r], counts'.stored)
    <3>1. CASE chain'[r] = chain[r]
      BY <2>2, <3>1 DEF Bounds
    <3>2. CASE chain'[r] # chain[r]
      <4>1. /\ Fewer(r) \/ Again(r)
            /\ chain'[r] \in Seq(Nat) /\ chain[r] \in Seq(Nat)
        BY <1>2, <3>2, CrashChains, NumberTypes
      <4>2. InChain(chain[r], counts'.stored)
        BY <2>2 DEF Bounds
      <4>3. CASE Fewer(r)
        BY <4>1, <4>2, <4>3, FewerInChain DEF Fewer
      <4>4. CASE Again(r)
        <5>1. PICK n \in 1..counts.stored : chain'[r] = <<n>>
          BY <4>4 DEF Again
        <5>2. Len(<<n>>) = 1 /\ <<n>>[1] = n
          OBVIOUS
        <5> QED BY <2>2, <5>1, <5>2, NumberTypes DEF InChain
      <4> QED BY <4>1, <4>3, <4>4
    <3> QED BY <3>1, <3>2
  <2> QED BY <2>1, <2>2, <2>3, NumberTypes, NoneIsNew DEF Bounds, Within, NewContext, Appending
<1>3. CASE RebuildSummary
  <2>1. PICK s : s = load.at.id
    OBVIOUS
  <2>2. UNCHANGED <<saved, chain, handler, saver, counts>>
    BY <1>3 DEF RebuildSummary
  <2>3. /\ s \in Ids /\ CanWrite(s) /\ load'.last = 0
        /\ \A r \in Ids : r # s => ctx'[r] = ctx[r]
        /\ ctx'[s].summary = load.last /\ ctx'[s].messages = ctx[s].messages
    BY <1>3, <2>1, RebuildType
  <2>4. \A t \in Threads : ~Appending(t, s)
    BY <2>3 DEF CanWrite, CanRead, Holds, Appending
  <2> QED BY <2>2, <2>3, <2>4, NumberTypes DEF Bounds, Within, Appending
<1>4. ASSUME NEW s \in Ids, CreateSession(s) PROVE Bounds'
  <2>1. UNCHANGED <<saved, chain, handler, saver, load, counts>> /\ s \notin created
    BY <1>4 DEF CreateSession
  <2>2. ctx'[s] = NewContext /\ \A r \in Ids : r # s => ctx'[r] = ctx[r]
    BY <1>4, CreateType
  <2>3. \A t \in Threads : ~Appending(t, s)
    BY <2>1, NoneIsNew DEF Appending, Core, Known
  <2>4. \A r \in Ids : Within(ctx'[r], counts'.stored)
    BY <2>1, <2>2, NumberTypes DEF Bounds, Within, NewContext
  <2>5. \A t \in Threads, r \in Ids : Appending(t, r)' => ctx'[r].summary >= 1
    BY <2>1, <2>2, <2>3 DEF Bounds, Appending
  <2> QED BY <2>1, <2>4, <2>5 DEF Bounds
<1>5. ASSUME NEW s \in Ids, LoadSession(s) PROVE Bounds'
  <2>1. UNCHANGED <<saved, chain, handler, saver, counts>>
    BY <1>5 DEF LoadSession
  <2>2. /\ load.step = "load" /\ load.at = None /\ s \in load.todo /\ load'.last = load.last
        /\ \A r \in Ids : r # s => ctx'[r] = ctx[r]
        /\ IF saved[s] = None THEN ctx' = ctx ELSE ctx'[s] = saved[s]
    BY <1>5, LoadSessionType
  <2>3. \A t \in Threads : ~Appending(t, s)
    BY <2>2, NoneIsNew DEF Appending, Core, Phase
  <2> QED BY <2>1, <2>2, <2>3 DEF Bounds, Within, Appending
<1>6. ASSUME NEW s \in Ids, ReadLast(s) PROVE Bounds'
  <2>1. UNCHANGED <<ctx, saved, chain, handler, saver, counts>>
    BY <1>6 DEF ReadLast
  <2>2. load'.last = load.last \/ (HasMessage(s) /\ load'.last = Last(chain[s]))
    BY <1>6, ReadLastType
  <2>3. load'.last <= counts.stored
    BY <2>2, NumberTypes, EmptySeq DEF Bounds, InChain, HasMessage, Last
  <2> QED BY <2>1, <2>3 DEF Bounds, Appending
<1>7. ASSUME NEW t \in Threads, TakeMessage(t) PROVE Bounds'
  <2>1. PICK s : s = handler[t].id
    OBVIOUS
  <2>2. UNCHANGED <<saved, saver, load>>
    BY <1>7 DEF TakeMessage
  <2>3. /\ HandlerGoes(t, s, "append") /\ s \in Ids
        /\ counts'.stored = counts.stored + 1
        /\ ctx'[s].summary = counts.stored + 1 /\ ctx'[s].messages = ctx[s].messages + 1
        /\ chain'[s] = IF chain[s] = NoChain THEN <<>> ELSE chain[s]
        /\ \A r \in Ids : r # s => ctx'[r] = ctx[r] /\ chain'[r] = chain[r]
    BY <1>7, <2>1, TakeType DEF HandlerGoes
  <2>4. \A r \in Ids : InChain(chain'[r], counts'.stored)
    BY <2>3, InChainMore, NumberTypes, EmptySeq DEF Bounds, InChain
  <2>5. \A u \in Threads, r \in Ids : Appending(u, r)' => ctx'[r].summary >= 1
    BY <2>3, NumberTypes DEF Bounds, Appending, HandlerGoes, HandlerOnly
  <2>6. \A r \in Ids : /\ Within(ctx'[r], counts'.stored)
                       /\ saved'[r] # None => Within(saved'[r], counts'.stored)
    BY <2>2, <2>3, NumberTypes DEF Bounds, Within
  <2>7. \A v \in Savers : saver'[v].step = "set" => Within(saver'[v].data, counts'.stored)
    BY <2>2, <2>3, NumberTypes DEF Bounds, Within
  <2>8. load'.last <= counts'.stored
    BY <2>2, <2>3, NumberTypes DEF Bounds
  <2> QED BY <2>4, <2>5, <2>6, <2>7, <2>8 DEF Bounds
<1>8. ASSUME NEW t \in Threads, AppendMessage(t) PROVE Bounds'
  <2>1. PICK s : s = handler[t].id
    OBVIOUS
  <2>2. UNCHANGED <<saved, saver, load>> /\ counts'.stored = counts.stored
    BY <1>8, <2>1, AppendType DEF AppendMessage
  <2>3. /\ HandlerGoes(t, s, "dispatch") /\ s \in Ids /\ handler[t].step = "append"
        /\ ctx'[s].summary = ctx[s].summary /\ ctx'[s].messages = ctx[s].messages
        /\ \/ chain'[s] = IF chain[s] = NoChain THEN NoChain ELSE Append(chain[s], ctx[s].summary)
           \/ chain'[s] = chain[s]
        /\ \A r \in Ids : r # s => ctx'[r] = ctx[r] /\ chain'[r] = chain[r]
    BY <1>8, <2>1, AppendType DEF HandlerGoes, AppendedOrLost
  <2>4. ctx[s].summary \in 1..counts.stored
    BY <2>1, <2>3, NumberTypes DEF Bounds, Within, Appending
  <2>5. \A r \in Ids : InChain(chain'[r], counts'.stored)
    <3>1. InChain(chain'[s], counts.stored)
      BY <2>3, <2>4, InChainAppend, NumberTypes DEF Bounds, InChain
    <3> QED BY <2>2, <2>3, <3>1 DEF Bounds
  <2>6. \A u \in Threads, r \in Ids : Appending(u, r)' => ctx'[r].summary >= 1
    BY <2>3, <2>4 DEF Bounds, Appending, HandlerGoes, HandlerOnly
  <2> QED BY <2>2, <2>3, <2>5, <2>6 DEF Bounds, Within
<1>9. ASSUME NEW v \in Savers, Snapshot(v) PROVE Bounds'
  <2>1. PICK s : s = saver[v].id
    OBVIOUS
  <2>2. UNCHANGED <<ctx, saved, chain, handler, load, counts>>
    BY <1>9 DEF Snapshot
  <2>3. SaverOnly(v) /\ s \in Ids /\ saver'[v].data = ctx[s]
    BY <1>9, <2>1, SnapshotType
  <2> QED BY <2>2, <2>3 DEF Bounds, Appending, SaverOnly
<1>10. ASSUME NEW v \in Savers, SetKey(v) PROVE Bounds'
  <2>1. PICK s : s = saver[v].id
    OBVIOUS
  <2>2. UNCHANGED <<ctx, chain, handler, load>>
    BY <1>10 DEF SetKey
  <2>3. /\ MayFail /\ SaverOnly(v) /\ s \in Ids /\ saver[v].step = "set"
        /\ \A r \in Ids : r # s => saved'[r] = saved[r]
        /\ saved'[s] = saver[v].data \/ saved' = saved
        /\ saver'[v].step # "set"
    BY <1>10, <2>1, SetKeyType, NoneIsNew
  <2> QED BY <2>2, <2>3 DEF Bounds, Appending, SaverOnly, MayFail
<1> QED BY <1>1, <1>2, <1>3, <1>4, <1>5, <1>6, <1>7, <1>8, <1>9, <1>10, NextCases

LEMMA InitBounds == ASSUME Init PROVE Bounds
<1>1. /\ \A s \in Ids : ctx[s] = NewContext /\ saved[s] = None /\ chain[s] = NoChain
      /\ \A t \in Threads : handler[t] = None
      /\ \A v \in Savers : saver[v] = None
      /\ load.last = 0 /\ counts.stored = 0
  BY ServingType DEF Init
<1> QED BY <1>1, NoneIsNew DEF Bounds, Within, InChain, NewContext, Appending

\* No number is beyond the messages stored: what memory, Redis and the chain hold
\* are messages that were stored, and calls of agents that exist.
THEOREM TypeCorrect == Spec => []TypeOK
<1>1. Init => Bounds
  BY InitBounds
<1>2. StateType /\ Core /\ Bounds /\ [Next]_vars => Bounds'
  BY StepBounds
<1>3. StateType /\ Core /\ Bounds => TypeOK
  <2> SUFFICES ASSUME StateType, Core, Bounds PROVE TypeOK
    OBVIOUS
  <2>1. ASSUME NEW s \in Ids
        PROVE  /\ ctx[s].joined \subseteq Cats
               /\ ctx[s].summary \in 0..counts.stored /\ ctx[s].messages \in 0..counts.stored
    BY NumberTypes DEF Bounds, Within, StateType, Context
  <2>2. ASSUME NEW s \in Ids PROVE {c.cat : c \in ToSet(ctx[s].calls)} \subseteq Cats
    <3>1. ctx[s].calls \in Seq(Call)
      BY DEF StateType, Context
    <3>2. \A i \in DOMAIN ctx[s].calls : ctx[s].calls[i] \in Call
      BY <3>1, LenProperties, ElementOfSeq
    <3> QED BY <3>2 DEF ToSet, Call
  <2>3. ASSUME NEW s \in Ids PROVE chain[s] = NoChain \/ ToSet(chain[s]) \subseteq 1..counts.stored
    <3>1. chain[s] \in Seq(Nat) /\ DOMAIN chain[s] = 1..Len(chain[s])
      BY NumberTypes, LenProperties
    <3> QED BY <3>1, NumberTypes DEF Bounds, InChain, ToSet
  <2>4. /\ sessions \subseteq Ids /\ orch \subseteq Ids /\ list \subseteq Ids
        /\ \A s \in Ids : pending[s] \in Nat
    BY DEF StateType
  <2> QED BY <2>1, <2>2, <2>3, <2>4 DEF TypeOK, Core, Known
<1> QED BY <1>1, <1>2, <1>3, Invariance, PTL DEF Spec

-----------------------------------------------------------------------------
(* Deletions leave nothing: LeavesNothing.                                 *)

\* Nothing that is counted is forgotten.
LEMMA CountsGrow ==
  ASSUME StateType, [Next]_vars
  PROVE  /\ counts'.failures = 0 => counts.failures = 0
         /\ counts'.crashes = 0 => counts.crashes = 0 /\ ~Crash
         /\ counts'.lost = 0 => counts.lost = 0
         /\ counts'.misses = 0 => counts.misses = 0
         /\ counts'.tasks >= counts.tasks
<1> DEFINE Grow == /\ counts'.failures = 0 => counts.failures = 0
                   /\ counts'.crashes = 0 => counts.crashes = 0 /\ ~Crash
                   /\ counts'.lost = 0 => counts.lost = 0
                   /\ counts'.misses = 0 => counts.misses = 0
                   /\ counts'.tasks >= counts.tasks
<1>1. counts \in Counts /\ (Crash => counts'.crashes > 0)
  BY CrashType DEF StateType
<1>2. ASSUME UNCHANGED counts PROVE Grow
  BY <1>1, <1>2 DEF Counts
<1>3. ASSUME MayFail PROVE Grow
  BY <1>1, <1>3 DEF MayFail, Counts
<1>4. ASSUME counts'.crashes = counts.crashes, counts'.failures = counts.failures,
             counts'.lost = 0 => counts.lost = 0, counts'.misses = 0 => counts.misses = 0,
             counts'.tasks >= counts.tasks
      PROVE  Grow
  BY <1>1, <1>4 DEF Counts
<1>5. counts.tasks \in Nat
  BY <1>1 DEF Counts
<1> HIDE DEF Grow
<1>6. ASSUME NEW s \in Ids, CreateSession(s) \/ StartDelete(s) \/ LoadSession(s) \/ ReadLast(s) PROVE Grow
  BY <1>2, <1>6 DEF CreateSession, StartDelete, LoadSession, ReadLast
<1>7. ASSUME RegisterLoaded \/ StartRebuild \/ RebuildSummary \/ EndRebuild \/ UNCHANGED vars PROVE Grow
  BY <1>2, <1>7 DEF RegisterLoaded, StartRebuild, RebuildSummary, EndRebuild, vars
<1>8. ASSUME NEW s \in Ids, UpdateSessionName(s) PROVE Grow
  BY <1>4, <1>5, <1>8, RenameType
<1>9. ASSUME Deletion PROVE Grow
  BY <1>3, <1>9, DeleteType
<1>10. ASSUME NEW t \in Requests, NEW s \in Ids, NEW m \in SUBSET Cats, SendMessage(t, s, m) PROVE Grow
  <2>1. Cardinality(m) \in Nat
    BY CatsType, FS_Subset, FS_CardinalityType
  <2> QED BY <1>4, <1>5, <1>10, <2>1, SendType DEF Threads
<1>11. ASSUME NEW k \in tasks, NEW m \in SUBSET Cats, HandleResult(k, m) PROVE Grow
  BY <1>4, <1>5, <1>11, ResultType
<1>12. ASSUME NEW t \in Threads, Handling(t) PROVE Grow
  <2>1. CASE TakeMessage(t)
    BY <1>4, <1>5, <2>1, TakeType
  <2>2. CASE AppendMessage(t)
    <3>1. /\ counts'.crashes = counts.crashes /\ counts'.failures = counts.failures
          /\ counts'.misses = counts.misses /\ counts'.tasks = counts.tasks
          /\ counts'.lost = counts.lost \/ counts'.lost > 0
      BY <2>2, AppendType DEF AppendedOrLost
    <3>2. counts'.lost = 0 => counts.lost = 0
      BY <3>1
    <3> QED BY <1>4, <1>5, <3>1, <3>2
  <2>3. CASE Dispatch(t)
    BY <1>3, <2>3, DispatchType
  <2> QED BY <1>12, <2>1, <2>2, <2>3 DEF Handling
<1>13. ASSUME NEW v \in Savers, Saving(v) PROVE Grow
  <2>1. CASE (\E s \in Ids : LookUp(v, s)) \/ Snapshot(v)
    BY <1>2, <2>1 DEF LookUp, Snapshot
  <2>2. CASE SetKey(v)
    BY <1>3, <2>2, SetKeyType
  <2>3. CASE AddToList(v)
    BY <1>3, <2>3, AddToListType
  <2> QED BY <1>13, <2>1, <2>2, <2>3 DEF Saving
<1>14. ASSUME Crash PROVE Grow
  <2>1. /\ counts'.crashes > 0 /\ counts'.failures = counts.failures /\ counts'.tasks = counts.tasks
        /\ counts'.misses = counts.misses /\ (counts'.lost = counts.lost \/ counts'.lost > 0)
    BY <1>14, CrashType DEF ChainsDamaged
  <2> QED BY <1>1, <1>5, <2>1 DEF Grow, Counts
<1>15. ASSUME NEW k \in tasks, EndUnanswered(k) PROVE Grow
  BY <1>1, <1>4, <1>5, <1>15, UnansweredType
<1>16. ASSUME NEW s \in Ids, GetOrCreateChain(s) PROVE Grow
  BY <1>2, <1>16 DEF GetOrCreateChain
<1>17. Grow
  BY <1>6, <1>7, <1>8, <1>9, <1>10, <1>11, <1>12, <1>13, <1>14,
     <1>15, <1>16 DEF Next, Loading
<1> QED BY <1>17 DEF Grow

\* Until a crash, a chain has no message.
Silent(s) == counts.crashes = 0 => ~HasMessage(s)

Emptied ==
  counts.failures = 0 =>
    /\ \A s \in deleted \ raced :
         saved[s] = None /\ s \notin list /\ Silent(s) /\ s \notin sessions
    /\ deletion # None /\ deletion.id \notin raced =>
         /\ deletion.step # "del" => saved[deletion.id] = None
         /\ deletion.step \in {"chain", "unmap"} => deletion.id \notin list
         /\ deletion.step = "unmap" => Silent(deletion.id)

\* Nobody holds a session that is deleted or being deleted.
Gone(s) == s \notin raced /\ ((s \in deleted /\ s \notin sessions) \/ BeingDeleted(s))

Untouched(s) ==
  /\ saved'[s] = saved[s] \/ saved'[s] = None
  /\ Silent(s) => Silent(s)'
  /\ s \in list' => s \in list
  /\ s \in sessions' => s \in sessions

KeepsEmpty ==
  /\ deleted' = deleted /\ raced \subseteq raced'
  /\ deletion' = deletion \/ deletion' = None \/ deletion'.step = "del"
  /\ \A s \in Ids : Gone(s) => Untouched(s)

LEMMA StaysEmpty ==
  ASSUME StateType, Core, Emptied, counts'.failures = 0 => counts.failures = 0,
         counts.failures = 0 => KeepsEmpty
  PROVE  Emptied'
<1> SUFFICES ASSUME counts'.failures = 0, counts.failures = 0, KeepsEmpty
             PROVE  /\ \A s \in deleted' \ raced' :
                         saved'[s] = None /\ s \notin list' /\ Silent(s)' /\ s \notin sessions'
                    /\ deletion' # None /\ deletion'.id \notin raced' =>
                         /\ deletion'.step # "del" => saved'[deletion'.id] = None
                         /\ deletion'.step \in {"chain", "unmap"} => deletion'.id \notin list'
                         /\ deletion'.step = "unmap" => Silent(deletion.id)'
  BY DEF Emptied
<1>1. ASSUME NEW s \in deleted' \ raced'
      PROVE  saved'[s] = None /\ s \notin list' /\ Silent(s)' /\ s \notin sessions'
  <2>1. s \in deleted \ raced /\ s \in Ids
    BY <1>1 DEF KeepsEmpty, StateType
  <2>2. Gone(s) /\ saved[s] = None /\ s \notin list /\ Silent(s) /\ s \notin sessions
    BY <2>1 DEF Emptied, Gone
  <2> QED BY <2>1, <2>2 DEF KeepsEmpty, Untouched
<1>2. ASSUME deletion' # None, deletion'.id \notin raced', deletion' = deletion
      PROVE  /\ deletion'.step # "del" => saved'[deletion'.id] = None
             /\ deletion'.step \in {"chain", "unmap"} => deletion'.id \notin list'
             /\ deletion'.step = "unmap" => Silent(deletion.id)'
  <2>1. PICK s \in Ids : s = deletion.id
    BY <1>2, DeletionType DEF StateType
  <2>2. Gone(s) /\ s \notin raced
    BY <1>2, <2>1 DEF KeepsEmpty, Gone, BeingDeleted
  <2>3. /\ deletion.step # "del" => saved[s] = None
        /\ deletion.step \in {"chain", "unmap"} => s \notin list
        /\ deletion.step = "unmap" => Silent(s)
    BY <1>2, <2>1, <2>2 DEF Emptied
  <2>4. Untouched(s)
    BY <2>2 DEF KeepsEmpty
  <2>5. Silent(s) => Silent(s)'
    BY <2>4 DEF Untouched
  <2>6. deletion'.step = "unmap" => Silent(s)'
    BY <1>2, <2>3, <2>5
  <2> QED BY <1>2, <2>1, <2>3, <2>4, <2>6 DEF Untouched, Silent, HasMessage
<1> QED BY <1>1, <1>2 DEF KeepsEmpty

LEMMA NobodyHolds ==
  ASSUME Core, NEW s, Gone(s)
  PROVE  /\ \A t \in Threads : handler[t] # None => handler[t].id # s
         /\ \A v \in Savers : saver[v] # None => saver[v].id # s
BY DEF Core, Live, Held, Present, Gone

LEMMA StepEmptied == ASSUME StateType, Core, Emptied, [Next]_vars PROVE Emptied'
<1>0. counts'.failures = 0 => counts.failures = 0
  BY CountsGrow
<1>13. ASSUME NEW s \in Ids, HasMessage(s)' => HasMessage(s) PROVE Silent(s) => Silent(s)'
  BY <1>13, CountsGrow DEF Silent
<1>14. ASSUME UNCHANGED chain PROVE \A s \in Ids : Silent(s) => Silent(s)'
  BY <1>13, <1>14 DEF HasMessage
<1>1. ASSUME UNCHANGED <<sessions, saved, list, chain, deletion, ghosts>> PROVE Emptied'
  BY <1>0, <1>1, <1>14, StaysEmpty DEF KeepsEmpty, Untouched, ghosts
<1>2. ASSUME NEW s \in Ids, CreateSession(s) PROVE Emptied'
  <2>1. /\ s \notin created /\ sessions' = sessions \cup {s}
        /\ UNCHANGED <<saved, list, chain, deletion, deleted, raced>>
    BY <1>2 DEF CreateSession
  <2>2. ~Gone(s)
    BY <2>1 DEF Core, Known, Registered, Gone, BeingDeleted
  <2> QED BY <1>0, <1>14, <2>1, <2>2, StaysEmpty DEF KeepsEmpty, Untouched
<1>3. ASSUME NEW s \in Ids, StartDelete(s) PROVE Emptied'
  BY <1>0, <1>3, <1>14, StaysEmpty DEF StartDelete, KeepsEmpty, Untouched
<1>4. ASSUME NEW s \in Ids, LoadSession(s) PROVE Emptied'
  <2>1. /\ UNCHANGED <<saved, list, chain, deletion, deleted, raced>>
        /\ sessions' = sessions \/ (saved[s] # None /\ sessions' = sessions \cup {s})
    BY <1>4 DEF LoadSession, ghosts
  <2>2. deletion = None
    BY <1>4 DEF LoadSession, Core, Phase
  <2>3. counts.failures = 0 /\ Gone(s) => saved[s] = None
    BY <2>2 DEF Gone, BeingDeleted, Emptied
  <2> QED BY <1>0, <1>14, <2>1, <2>3, StaysEmpty DEF KeepsEmpty, Untouched
<1>5. ASSUME NEW t \in Threads, TakeMessage(t) \/ AppendMessage(t) PROVE Emptied'
  <2>1. PICK s : s = handler[t].id
    OBVIOUS
  <2>2. /\ UNCHANGED <<sessions, saved, list, deletion, ghosts>>
        /\ \A r \in Ids : r # s => chain'[r] = chain[r]
        /\ handler[t] # None
    <3>1. UNCHANGED <<sessions, saved, list, deletion, ghosts>>
      BY <1>5 DEF TakeMessage, AppendMessage
    <3>2. CASE TakeMessage(t)
      BY <2>1, <3>1, <3>2, TakeType, NoneIsNew DEF HandlerGoes
    <3>3. CASE AppendMessage(t)
      BY <2>1, <3>1, <3>3, AppendType, NoneIsNew DEF HandlerGoes
    <3> QED BY <1>5, <3>2, <3>3
  <2>3. ~Gone(s)
    BY <2>1, <2>2, NobodyHolds
  <2>4. \A r \in Ids : r # s => (Silent(r) => Silent(r)')
    BY <1>13, <2>2 DEF HasMessage
  <2> QED BY <1>0, <2>2, <2>3, <2>4, StaysEmpty DEF KeepsEmpty, Untouched, ghosts
<1>6. ASSUME NEW v \in Savers, SetKey(v) \/ AddToList(v) PROVE Emptied'
  <2>1. PICK s : s = saver[v].id
    OBVIOUS
  <2>2. /\ UNCHANGED <<sessions, chain, deletion, ghosts>>
        /\ \A r \in Ids : r # s => saved'[r] = saved[r]
        /\ list' \subseteq list \cup {s}
        /\ saver[v] # None
    BY <1>6, <2>1, SetKeyType, AddToListType, NoneIsNew DEF SetKey, AddToList
  <2>3. ~Gone(s)
    BY <2>1, <2>2, NobodyHolds
  <2> QED BY <1>0, <1>14, <2>2, <2>3, StaysEmpty DEF KeepsEmpty, Untouched, ghosts
<1>7. CASE Crash
  <2>1. UNCHANGED <<saved, list, deleted, raced>> /\ deletion' = None /\ sessions' = {}
    BY <1>7 DEF Crash, ghosts
  <2>2. \A s \in Ids : Silent(s)'
    BY <1>7, CountsGrow DEF Silent
  <2> QED BY <1>0, <2>1, <2>2, StaysEmpty DEF KeepsEmpty, Untouched
<1>8. CASE Deletion
  <2>1. /\ deletion \in Deletes /\ deletion # None /\ deletion.id \in Ids /\ counts \in Counts
        /\ deletion.id \in sessions
    BY <1>8, DeleteType, DeletionType DEF StateType, Core, Registered
  <2>2. ASSUME Fails PROVE Emptied'
    <3>1. counts' = [counts EXCEPT !.failures = counts.failures + 1]
      BY <2>1, <2>2 DEF Fails, Event, Count, Counts
    <3>2. counts'.failures # 0
      BY <2>1, <3>1 DEF Counts
    <3> QED BY <3>2 DEF Emptied
  <2>3. ASSUME NEW x \in {"srem", "chain", "unmap"}, GoOn(x)
        PROVE  deletion'.step = x /\ deletion'.id = deletion.id /\ deletion' # None
    BY <2>1, <2>3, NoneIsNew DEF GoOn, Deletes
  <2>4. ASSUME DeleteKey, ~Fails PROVE Emptied'
    <3>1. /\ saved' = [saved EXCEPT ![deletion.id] = None] /\ GoOn("srem")
          /\ UNCHANGED <<sessions, list, chain, deleted, raced, counts>>
      BY <2>4 DEF DeleteKey, ghosts
    <3>2. saved'[deletion.id] = None /\ \A s \in Ids : saved'[s] = saved[s] \/ saved'[s] = None
      BY <2>1, <3>1 DEF StateType
    <3>3. deletion'.step = "srem" /\ deletion'.id = deletion.id /\ deletion' # None
      BY <2>3, <3>1
    <3>4. \A s \in Ids : Silent(s) => Silent(s)'
      BY <1>14, <3>1
    <3> QED BY <3>1, <3>2, <3>3, <3>4 DEF Emptied, StateType
  <2>5. ASSUME RemoveFromList, ~Fails PROVE Emptied'
    <3>1. /\ deletion.step = "srem" /\ list' = list \ {deletion.id} /\ GoOn("chain")
          /\ UNCHANGED <<sessions, saved, chain, deleted, raced, counts>>
      BY <2>5 DEF RemoveFromList, Deleting, ghosts
    <3>2. deletion'.step = "chain" /\ deletion'.id = deletion.id /\ deletion' # None
      BY <2>3, <3>1
    <3>3. \A s \in Ids : Silent(s) => Silent(s)'
      BY <1>14, <3>1
    <3> QED BY <2>1, <3>1, <3>2, <3>3 DEF Emptied, StateType
  <2>6. CASE DeleteChain
    <3>1. /\ deletion.step = "chain" /\ chain' = [chain EXCEPT ![deletion.id] = NoChain] /\ GoOn("unmap")
          /\ UNCHANGED <<sessions, saved, list, deleted, raced, counts>>
      BY <2>6 DEF DeleteChain, Deleting, ghosts
    <3>2. Silent(deletion.id)' /\ \A s \in Ids : Silent(s) => Silent(s)'
      <4>1. \A s \in Ids : ~HasMessage(s)' \/ (chain'[s] = chain[s] /\ s # deletion.id)
        BY <2>1, <3>1 DEF StateType, HasMessage
      <4>2. ~HasMessage(deletion.id)'
        <5>1. PICK s \in Ids : s = deletion.id
          BY <2>1
        <5>2. chain'[deletion.id] = NoChain /\ deletion'.id = deletion.id
          BY <2>1, <2>3, <3>1, <5>1 DEF StateType
        <5> QED BY <5>2 DEF HasMessage
      <4> QED BY <1>13, <4>1, <4>2 DEF Silent, HasMessage
    <3>3. deletion'.step = "unmap" /\ deletion'.id = deletion.id /\ deletion' # None
      BY <2>3, <3>1
    <3> QED BY <2>1, <3>1, <3>2, <3>3 DEF Emptied, StateType
  <2>7. CASE EndDelete
    <3>1. \A s \in Ids : Silent(s) => Silent(s)'
      BY <1>14, <2>7 DEF EndDelete
    <3> QED BY <2>1, <2>7, <3>1 DEF EndDelete, Deleting, Emptied, StateType
  <2> QED BY <1>8, <2>2, <2>4, <2>5, <2>6, <2>7 DEF Deletion
<1>9. CASE Aside
  <2>1. ASSUME NEW s \in Ids, UpdateSessionName(s) PROVE Emptied'
    BY <1>1, <2>1 DEF UpdateSessionName
  <2>2. ASSUME NEW t \in Requests, NEW s \in Ids, NEW m \in SUBSET Cats, SendMessage(t, s, m) PROVE Emptied'
    BY <1>1, <2>2 DEF SendMessage
  <2>3. ASSUME NEW k \in tasks, NEW m \in SUBSET Cats, HandleResult(k, m) PROVE Emptied'
    BY <1>1, <2>3 DEF HandleResult
  <2>4. ASSUME NEW t \in Threads, Dispatch(t) PROVE Emptied'
    BY <1>1, <2>4 DEF Dispatch
  <2>5. ASSUME NEW v \in Savers, NEW s \in Ids, LookUp(v, s) PROVE Emptied'
    BY <1>1, <2>5 DEF LookUp
  <2>6. ASSUME RegisterLoaded \/ StartRebuild \/ EndRebuild PROVE Emptied'
    BY <1>1, <2>6 DEF RegisterLoaded, StartRebuild, EndRebuild
  <2>7. ASSUME UNCHANGED vars PROVE Emptied'
    BY <1>1, <2>7 DEF vars, ghosts
  <2>8. ASSUME NEW k \in tasks, EndUnanswered(k) PROVE Emptied'
    BY <1>1, <2>8 DEF EndUnanswered
  <2>9. ASSUME NEW s \in Ids, GetOrCreateChain(s) PROVE Emptied'
    <3>1. UNCHANGED <<sessions, saved, list, deletion, deleted, raced>>
      BY <2>9 DEF GetOrCreateChain, ghosts
    <3>2. \A r \in Ids : HasMessage(r)' => HasMessage(r)
      BY <2>9, GetOrCreateType DEF HasMessage
    <3> QED BY <1>0, <1>13, <3>1, <3>2, StaysEmpty DEF KeepsEmpty, Untouched
  <2> QED BY <1>3, <1>6, <1>8, <1>9, <2>1, <2>2, <2>3, <2>4, <2>5, <2>6, <2>7, <2>8, <2>9 DEF Aside
<1>10. ASSUME NEW s \in Ids, ReadLast(s) PROVE Emptied'
  BY <1>1, <1>10 DEF ReadLast
<1>11. CASE RebuildSummary
  BY <1>1, <1>11 DEF RebuildSummary
<1>12. ASSUME NEW v \in Savers, Snapshot(v) PROVE Emptied'
  BY <1>1, <1>12 DEF Snapshot
<1> QED BY <1>2, <1>4, <1>5, <1>6, <1>7, <1>9, <1>10, <1>11, <1>12, NextCases

\* What DeleteSession removes is gone from Redis and from the list for ever, and until
\* a crash its chain has no message, unless somebody had looked the session up before.
THEOREM DeletionLeavesNothing == Spec => []LeavesNothing
<1>1. Init => Emptied
  BY DEF Init, Emptied
<1>2. StateType /\ Core /\ Emptied /\ [Next]_vars => Emptied'
  BY StepEmptied
<1>3. Emptied => LeavesNothing
  BY DEF Emptied, LeavesNothing, Silent
<1> QED BY <1>1, <1>2, <1>3, Invariance, PTL DEF Spec

-----------------------------------------------------------------------------
(* The count of the messages and the chain: ChainHasAll.                   *)

Length(s)   == IF chain[s] = NoChain THEN 0 ELSE Len(chain[s])
Clean(s)    == s \notin deleted \cup raced
Emptying(s) == deletion.step \in {"srem", "chain"} /\ deletion.id = s

\* A message that is counted and not yet appended is its handler's.
CountsMessages(s) ==
  IF \E t \in Threads : Appending(t, s)
  THEN /\ chain[s] # NoChain /\ ctx[s].messages <= Length(s) + 1
       /\ counts.crashes = 0 => ctx[s].messages = Length(s) + 1
  ELSE /\ ctx[s].messages <= Length(s)
       /\ counts.crashes = 0 => ctx[s].messages = Length(s)

Counted ==
  /\ \A s \in Ids : Clean(s) /\ Present(s) => CountsMessages(s)
  /\ \A s \in Ids : Clean(s) /\ saved[s] # None => saved[s].messages <= Length(s)
  /\ \A v \in Savers : saver[v].step = "set" /\ Clean(saver[v].id) =>
       saver[v].data.messages <= Length(saver[v].id)
  /\ \A s \in Ids : Clean(s) /\ Emptying(s) => saved[s] = None
  /\ load.step # "serving" => counts.crashes > 0

SameLength(s) == Length(s)' = Length(s) /\ (chain[s] # NoChain => chain'[s] # NoChain)

LEMMA LengthKept ==
  ASSUME NEW s, chain'[s] = chain[s] \/ (chain[s] = NoChain /\ chain'[s] = <<>>)
  PROVE  SameLength(s)
BY ChainType DEF SameLength, Length

LEMMA LengthType == ASSUME StateType PROVE \A s \in Ids : Length(s) \in Nat
BY NumberTypes DEF Length

LEMMA SavesHeld ==
  ASSUME StateType, Core, NEW v \in Savers, saver[v].step # "none", Clean(saver[v].id)
  PROVE  saver[v].id \in Ids /\ Present(saver[v].id)
BY SaverType, NoneIsNew DEF StateType, Core, Live, Held, Clean

\* A step that counts, saves and loads nothing.
LEMMA SameCounted ==
  ASSUME StateType, Core, Counted, counts'.crashes = counts.crashes,
         \A s \in Ids : ctx'[s].messages = ctx[s].messages,
         \A s \in Ids : saved'[s] = saved[s] \/ saved'[s] = None,
         \A s \in Ids : SameLength(s) \/ (BeingDeleted(s) /\ deletion.step = "chain"),
         \A t \in Threads, s \in Ids : Appending(t, s)' <=> Appending(t, s),
         \A v \in Savers : saver'[v].step = "set" => saver'[v] = saver[v],
         load'.step # "serving" => load.step # "serving",
         \A s \in Ids : (Clean(s)' => Clean(s)) /\ (Present(s)' => Present(s)),
         \A s \in Ids : Emptying(s)' => Emptying(s) \/ saved'[s] = None
  PROVE  Counted'
<1>1. ASSUME NEW s \in Ids, Clean(s)', Present(s)' PROVE CountsMessages(s)'
  <2>1. Clean(s) /\ Present(s) /\ SameLength(s) /\ CountsMessages(s)
    BY <1>1 DEF Present, Counted
  <2> QED BY <2>1 DEF CountsMessages, SameLength
<1>2. ASSUME NEW s \in Ids, Clean(s)', saved'[s] # None PROVE saved'[s].messages <= Length(s)'
  <2>1. Clean(s) /\ saved'[s] = saved[s] /\ saved[s] # None
    BY <1>2
  <2>2. SameLength(s)
    BY <2>1 DEF Counted, Emptying, BeingDeleted
  <2> QED BY <2>1, <2>2 DEF Counted, SameLength
<1>3. ASSUME NEW v \in Savers, saver'[v].step = "set", Clean(saver[v].id)'
      PROVE  saver'[v].data.messages <= Length(saver[v].id)'
  <2>1. PICK s : s = saver[v].id
    OBVIOUS
  <2>2. saver'[v] = saver[v] /\ saver[v].step = "set"
    BY <1>3
  <2>3. s \in Ids
    BY <2>1, <2>2, NumberTypes
  <2>4. Clean(s)
    BY <1>3, <2>1, <2>2, <2>3 DEF Clean
  <2>5. SameLength(s)
    BY <2>1, <2>2, <2>3, <2>4, SavesHeld DEF Present
  <2>6. Length(saver[v].id)' = Length(s)'
    BY <2>1, <2>2
  <2> QED BY <2>1, <2>2, <2>4, <2>5, <2>6 DEF Counted, SameLength
<1>4. \A s \in Ids : Clean(s)' /\ Emptying(s)' => saved'[s] = None
  BY DEF Counted
<1>5. load'.step # "serving" => counts'.crashes > 0
  BY DEF Counted
<1> QED BY <1>1, <1>2, <1>3, <1>4, <1>5 DEF Counted

LEMMA AsideKeeps ==
  ASSUME Aside
  PROVE  \/ Deletion \/ \E s \in Ids : StartDelete(s) \/ GetOrCreateChain(s)
         \/ UNCHANGED <<sessions, saved, chain, deletion, deleted, raced>>
<1> DEFINE Keeps == UNCHANGED <<sessions, saved, chain, deletion, deleted, raced>>
<1>1. ASSUME NEW s \in Ids, UpdateSessionName(s) PROVE Keeps
  BY <1>1 DEF UpdateSessionName, ghosts
<1>2. ASSUME NEW t \in Requests, NEW s \in Ids, NEW m \in SUBSET Cats, SendMessage(t, s, m) PROVE Keeps
  BY <1>2 DEF SendMessage, ghosts
<1>3. ASSUME NEW k \in tasks, NEW m \in SUBSET Cats, HandleResult(k, m) PROVE Keeps
  BY <1>3 DEF HandleResult, ghosts
<1>4. ASSUME NEW t \in Threads, Dispatch(t) PROVE Keeps
  BY <1>4 DEF Dispatch, ghosts
<1>5. ASSUME NEW v \in Savers, NEW s \in Ids, LookUp(v, s) PROVE Keeps
  BY <1>5 DEF LookUp, ghosts
<1>6. ASSUME NEW v \in Savers, AddToList(v) PROVE Keeps
  BY <1>6 DEF AddToList, ghosts
<1>7. ASSUME RegisterLoaded \/ StartRebuild \/ EndRebuild PROVE Keeps
  BY <1>7 DEF RegisterLoaded, StartRebuild, EndRebuild, ghosts
<1>8. ASSUME UNCHANGED vars PROVE Keeps
  BY <1>8 DEF vars
<1>9. ASSUME NEW k \in tasks, EndUnanswered(k) PROVE Keeps
  BY <1>9 DEF EndUnanswered, ghosts
<1> QED BY <1>1, <1>2, <1>3, <1>4, <1>5, <1>6, <1>7, <1>8, <1>9 DEF Aside

LEMMA AsideCounted == ASSUME StateType, Core, Counted, Aside PROVE Counted'
<1>1. Quiet
  BY AsideQuiet
<1>2. load'.step # "serving" => load.step # "serving"
  <2>1. ASSUME RegisterLoaded \/ StartRebuild \/ EndRebuild PROVE load.step # "serving"
    BY <2>1 DEF RegisterLoaded, StartRebuild, EndRebuild
  <2>2. ASSUME ~RegisterLoaded, ~StartRebuild, ~EndRebuild PROVE load' = load
    <3>1. ASSUME NEW s \in Ids, UpdateSessionName(s) \/ StartDelete(s) PROVE load' = load
      BY <3>1 DEF UpdateSessionName, StartDelete
    <3>2. ASSUME Deletion PROVE load' = load
      BY <3>2 DEF Deletion, DeleteKey, RemoveFromList, DeleteChain, EndDelete
    <3>3. ASSUME NEW t \in Requests, NEW s \in Ids, NEW m \in SUBSET Cats, SendMessage(t, s, m)
          PROVE  load' = load
      BY <3>3 DEF SendMessage
    <3>4. ASSUME NEW k \in tasks, NEW m \in SUBSET Cats, HandleResult(k, m) PROVE load' = load
      BY <3>4 DEF HandleResult
    <3>5. ASSUME NEW t \in Threads, Dispatch(t) PROVE load' = load
      BY <3>5 DEF Dispatch
    <3>6. ASSUME NEW v \in Savers, (\E s \in Ids : LookUp(v, s)) \/ AddToList(v) PROVE load' = load
      BY <3>6 DEF LookUp, AddToList
    <3>7. ASSUME UNCHANGED vars PROVE load' = load
      BY <3>7 DEF vars
    <3>8. ASSUME NEW k \in tasks, EndUnanswered(k) PROVE load' = load
      BY <3>8 DEF EndUnanswered
    <3>9. ASSUME NEW s \in Ids, GetOrCreateChain(s) PROVE load' = load
      BY <3>9 DEF GetOrCreateChain
    <3> QED BY <2>2, <3>1, <3>2, <3>3, <3>4, <3>5, <3>6, <3>7, <3>8, <3>9 DEF Aside
  <2> QED BY <2>1, <2>2
<1>3. CASE UNCHANGED <<sessions, saved, chain, deletion, deleted, raced>>
  BY <1>1, <1>2, <1>3, LengthKept, SameCounted DEF Quiet, Clean, Present, BeingDeleted, Emptying
<1>4. ASSUME NEW s \in Ids, StartDelete(s) PROVE Counted'
  <2>1. /\ UNCHANGED <<sessions, saved, chain, deleted>> /\ raced \subseteq raced'
        /\ deletion = None /\ deletion'.step = "del"
    BY <1>4 DEF StartDelete, Unlocked
  <2> QED BY <1>1, <1>2, <2>1, LengthKept, SameCounted DEF Quiet, Clean, Present, BeingDeleted, Emptying
<1>5. CASE Deletion
  <2>1. /\ deletion \in Deletes /\ deletion # None /\ deletion.id \in Ids
    BY <1>5, DeleteType, DeletionType DEF StateType
  <2>2. deleted \subseteq deleted' /\ raced \subseteq raced'
    BY <1>5 DEF Deletion, DeleteKey, RemoveFromList, DeleteChain, EndDelete, ghosts
  <2>3. \A r \in Ids : Present(r)' => Present(r)
    <3>1. CASE EndDelete
      BY <2>1, <3>1 DEF EndDelete, Present, BeingDeleted
    <3>2. CASE ~EndDelete
      <4>1. UNCHANGED sessions
        BY <1>5, <3>2 DEF Deletion, DeleteKey, RemoveFromList, DeleteChain
      <4>2. deletion'.id = deletion.id /\ deletion' # None
        BY <1>5, <3>2, DeleteType, NoneIsNew
      <4> QED BY <2>1, <4>1, <4>2 DEF Present, BeingDeleted
    <3> QED BY <3>1, <3>2
  <2>4. \A r \in Ids : SameLength(r) \/ (BeingDeleted(r) /\ deletion.step = "chain")
    <3>1. \A r \in Ids : chain'[r] = chain[r] \/ (BeingDeleted(r) /\ deletion.step = "chain")
      BY <1>5, <2>1 DEF Deletion, DeleteKey, RemoveFromList, DeleteChain, EndDelete, Deleting,
         StateType, BeingDeleted
    <3> QED BY <3>1, LengthKept
  <2>5. \A r \in Ids : Emptying(r)' => Emptying(r) \/ saved'[r] = None
    <3>1. CASE DeleteKey
      BY <2>1, <3>1, NoneIsNew DEF DeleteKey, GoOn, StateType, Deletes, Emptying
    <3>2. CASE RemoveFromList
      BY <2>1, <3>2 DEF RemoveFromList, Deleting, GoOn, Deletes, Emptying
    <3>3. CASE DeleteChain
      BY <2>1, <3>3 DEF DeleteChain, GoOn, Deletes, Emptying
    <3>4. CASE EndDelete
      BY <3>4, NoneIsNew DEF EndDelete, Emptying
    <3> QED BY <1>5, <3>1, <3>2, <3>3, <3>4 DEF Deletion
  <2> QED BY <1>1, <1>2, <2>2, <2>3, <2>4, <2>5, SameCounted DEF Quiet, Clean
<1>6. ASSUME NEW s \in Ids, GetOrCreateChain(s) PROVE Counted'
  <2>1. UNCHANGED <<sessions, saved, deletion, deleted, raced>>
    BY <1>6 DEF GetOrCreateChain, ghosts
  <2>2. \A r \in Ids : SameLength(r)
    BY <1>6, GetOrCreateType, LengthKept
  <2> QED BY <1>1, <1>2, <2>1, <2>2, SameCounted DEF Quiet, Clean, Present, BeingDeleted, Emptying
<1> QED BY <1>3, <1>4, <1>5, <1>6, AsideKeeps

LEMMA TakeCounted == ASSUME StateType, Core, Counted, NEW t \in Threads, TakeMessage(t) PROVE Counted'
<1>1. PICK s : s = handler[t].id
  OBVIOUS
<1>2. UNCHANGED <<sessions, saved, deletion, saver, load, deleted, raced>>
  BY DEF TakeMessage, ghosts
<1>3. /\ HandlerGoes(t, s, "append") /\ s \in Ids /\ counts'.crashes = counts.crashes
      /\ ctx'[s].messages = ctx[s].messages + 1
      /\ chain'[s] = IF chain[s] = NoChain THEN <<>> ELSE chain[s]
      /\ \A r \in Ids : r # s => ctx'[r] = ctx[r] /\ chain'[r] = chain[r]
  BY <1>1, TakeType DEF HandlerGoes
<1>4. /\ Appending(t, s)'
      /\ \A u \in Threads : ~Appending(u, s)
      /\ \A u \in Threads, r \in Ids : r # s => (Appending(u, r)' <=> Appending(u, r))
  <2>1. CanWrite(s) /\ handler[t].step = "found"
    BY <1>1 DEF TakeMessage, At
  <2> QED BY <1>3, <2>1 DEF Appending, HandlerGoes, HandlerOnly, CanWrite, CanRead, Holds
<1>5. /\ chain'[s] # NoChain /\ \A r \in Ids : Length(r)' = Length(r)
      /\ \A r \in Ids : (Clean(r)' <=> Clean(r)) /\ (Present(r)' <=> Present(r))
  BY <1>2, <1>3, ChainType DEF Length, Clean, Present, BeingDeleted
<1>6. ASSUME NEW r \in Ids, Clean(r)', Present(r)' PROVE CountsMessages(r)'
  <2>1. CASE r = s
    <3>1. CountsMessages(s) /\ ctx[s].messages \in Nat /\ Length(s) \in Nat
      BY <1>5, <1>6, <2>1, NumberTypes, LengthType DEF Counted
    <3> QED BY <1>3, <1>4, <1>5, <2>1, <3>1 DEF CountsMessages
  <2>2. CASE r # s
    BY <1>3, <1>4, <1>5, <1>6, <2>2 DEF Counted, CountsMessages
  <2> QED BY <2>1, <2>2
<1>7. \A r \in Ids : Clean(r)' /\ saved'[r] # None => saved'[r].messages <= Length(r)'
  BY <1>2, <1>5 DEF Counted
<1>8. \A v \in Savers : saver'[v].step = "set" /\ Clean(saver[v].id)' =>
        saver'[v].data.messages <= Length(saver[v].id)'
  BY <1>2, <1>5, NumberTypes DEF Counted, Clean
<1>9. \A r \in Ids : Clean(r)' /\ Emptying(r)' => saved'[r] = None
  BY <1>2 DEF Counted, Clean, Emptying
<1> QED BY <1>2, <1>3, <1>6, <1>7, <1>8, <1>9 DEF Counted

LEMMA AppendCounted ==
  ASSUME StateType, Core, Bounds, Counted, counts'.lost = 0, NEW t \in Threads, AppendMessage(t)
  PROVE  Counted'
<1>1. PICK s : s = handler[t].id
  OBVIOUS
<1>2. /\ UNCHANGED <<sessions, saved, deletion, saver, load, deleted, raced>>
      /\ counts'.crashes = counts.crashes
  BY <1>1, AppendType DEF AppendMessage, ghosts
<1>3. /\ HandlerGoes(t, s, "dispatch") /\ s \in Ids /\ handler[t].step = "append"
      /\ ctx'[s].messages = ctx[s].messages
      /\ chain'[s] = IF chain[s] = NoChain THEN NoChain ELSE Append(chain[s], ctx[s].summary)
      /\ \A r \in Ids : r # s => ctx'[r] = ctx[r] /\ chain'[r] = chain[r]
  BY <1>1, AppendType DEF HandlerGoes, AppendedOrLost
<1>4. /\ Appending(t, s)
      /\ \A u \in Threads : ~Appending(u, s)'
      /\ \A u \in Threads, r \in Ids : r # s => (Appending(u, r)' <=> Appending(u, r))
  <2>1. \A u \in Threads : Holds(u, s) => u = t
    BY <1>1, <1>3 DEF Core, Exclusive, Holds
  <2> QED BY <1>1, <1>3, <2>1 DEF Appending, HandlerGoes, HandlerOnly, Holds
<1>5. chain[s] # NoChain => chain'[s] # NoChain /\ Length(s)' = Length(s) + 1
  <2> SUFFICES ASSUME chain[s] # NoChain PROVE chain'[s] # NoChain /\ Length(s)' = Length(s) + 1
    OBVIOUS
  <2>1. chain[s] \in Seq(Nat) /\ ctx[s].summary \in Nat /\ ctx[s].summary >= 1
    BY <1>3, <1>4, NumberTypes DEF Bounds
  <2>2. PICK q : q = Append(chain[s], ctx[s].summary)
    OBVIOUS
  <2>3. /\ Len(chain[s]) \in Nat /\ Len(q) = Len(chain[s]) + 1
        /\ q[Len(q)] = ctx[s].summary
    BY <2>1, <2>2, AppendProperties, LenProperties
  <2>4. q # NoChain
    BY <2>1, <2>3, ChainType
  <2> QED BY <1>3, <2>2, <2>3, <2>4 DEF Length
<1>6. /\ \A r \in Ids : r # s => Length(r)' = Length(r)
      /\ Length(s)' >= Length(s)
      /\ \A r \in Ids : (Clean(r)' <=> Clean(r)) /\ (Present(r)' <=> Present(r))
  BY <1>2, <1>3, <1>5, LengthType DEF Length, Clean, Present, BeingDeleted
<1>7. ASSUME NEW r \in Ids, Clean(r)', Present(r)' PROVE CountsMessages(r)'
  <2>1. CASE r = s
    <3>1. CountsMessages(s) /\ ctx[s].messages \in Nat /\ Length(s) \in Nat
      BY <1>6, <1>7, <2>1, NumberTypes, LengthType DEF Counted
    <3> QED BY <1>2, <1>3, <1>4, <1>5, <2>1, <3>1 DEF CountsMessages
  <2>2. CASE r # s
    BY <1>2, <1>3, <1>4, <1>6, <1>7, <2>2 DEF Counted, CountsMessages
  <2> QED BY <2>1, <2>2
<1>8. \A r \in Ids : Length(r)' >= Length(r) /\ Length(r) \in Nat /\ Length(r)' \in Nat
  <2>1. Length(s)' \in Nat
    BY <1>3, <1>5, <1>6, LengthType DEF Length
  <2> QED BY <1>6, <2>1, LengthType
<1>9. ASSUME NEW r \in Ids, Clean(r)', saved'[r] # None PROVE saved'[r].messages <= Length(r)'
  BY <1>2, <1>6, <1>8, <1>9, NumberTypes DEF Counted
<1>10. ASSUME NEW v \in Savers, saver'[v].step = "set", Clean(saver[v].id)'
       PROVE saver'[v].data.messages <= Length(saver[v].id)'
  <2>1. PICK r : r = saver[v].id
    OBVIOUS
  <2>2. r \in Ids /\ saver[v].data.messages \in Nat /\ saver[v].step = "set"
    BY <1>2, <1>10, <2>1, NumberTypes
  <2>3. saver[v].data.messages <= Length(r)
    BY <1>2, <1>10, <2>1, <2>2 DEF Counted, Clean
  <2> QED BY <1>2, <1>8, <2>1, <2>2, <2>3
<1>11. \A r \in Ids : Clean(r)' /\ Emptying(r)' => saved'[r] = None
  BY <1>2 DEF Counted, Clean, Emptying
<1> QED BY <1>2, <1>7, <1>9, <1>10, <1>11 DEF Counted

LEMMA StepCounted ==
  ASSUME StateType, Core, Bounds, Counted, counts'.lost = 0, [Next]_vars
  PROVE  Counted'
<1>1. CASE Aside
  BY <1>1, AsideCounted
<1>2. CASE Crash
  <2>1. /\ sessions' = {} /\ deletion' = None
        /\ UNCHANGED <<saved, deleted, raced>>
        /\ \A v \in Savers : saver'[v] = None
    BY <1>2 DEF Crash, ghosts
  <2>2. chain' = chain
    BY <1>2, CrashType DEF ChainsDamaged
  <2> QED BY <1>2, <2>1, <2>2, CrashType, NoneIsNew DEF Counted, Present, Clean, Emptying, Length
<1>3. ASSUME RebuildSummary \/ \E s \in Ids : ReadLast(s) PROVE Counted'
  <2>1. UNCHANGED <<sessions, saved, chain, deletion, handler, saver, deleted, raced, counts>>
    BY <1>3 DEF RebuildSummary, ReadLast, ghosts
  <2>2. \A s \in Ids : ctx'[s].messages = ctx[s].messages
    <3>1. CASE RebuildSummary
      BY <3>1, RebuildType
    <3>2. ASSUME NEW s \in Ids, ReadLast(s) PROVE UNCHANGED ctx
      BY <3>2 DEF ReadLast
    <3> QED BY <1>3, <3>1, <3>2
  <2>3. load.step # "serving"
    BY <1>3 DEF RebuildSummary, ReadLast
  <2>4. \A s \in Ids : SameLength(s)
    BY <2>1, LengthKept
  <2> QED BY <2>1, <2>2, <2>3, <2>4, SameCounted DEF Clean, Present, BeingDeleted, Emptying, Appending
<1>4. ASSUME NEW s \in Ids, CreateSession(s) PROVE Counted'
  <2>1. /\ UNCHANGED <<saved, chain, deletion, handler, saver, load, deleted, raced, counts>>
        /\ s \notin created /\ sessions' = sessions \cup {s} /\ load.step = "serving"
    BY <1>4 DEF CreateSession
  <2>2. ctx'[s] = NewContext /\ \A r \in Ids : r # s => ctx'[r] = ctx[r]
    BY <1>4, CreateType
  <2>3. \A t \in Threads : ~Appending(t, s)
    BY <2>1, NoneIsNew DEF Appending, Core, Known
  <2>4. Length(s) = 0
    BY <2>1, ChainType DEF Core, Known, HasMessage, Length
  <2>5. ASSUME NEW r \in Ids, Clean(r)', Present(r)' PROVE CountsMessages(r)'
    <3>1. CASE r = s
      BY <2>1, <2>2, <2>3, <2>4, <3>1 DEF CountsMessages, Appending, Length, NewContext
    <3>2. CASE r # s
      BY <2>1, <2>2, <2>5, <3>2 DEF Counted, CountsMessages, Appending, Length, Clean, Present, BeingDeleted
    <3> QED BY <3>1, <3>2
  <2> QED BY <2>1, <2>5 DEF Counted, Clean, Length, Emptying
<1>5. ASSUME NEW s \in Ids, LoadSession(s) PROVE Counted'
  <2>1. UNCHANGED <<saved, chain, deletion, handler, saver, deleted, raced, counts>>
    BY <1>5 DEF LoadSession, ghosts
  <2>2. /\ load.step = "load" /\ load.at = None /\ s \in load.todo
        /\ \A r \in Ids : r # s => ctx'[r] = ctx[r]
        /\ IF saved[s] = None THEN UNCHANGED <<sessions, ctx>>
           ELSE ctx'[s] = saved[s] /\ sessions' = sessions \cup {s}
    BY <1>5, LoadSessionType
  <2>3. \A t \in Threads : ~Appending(t, s)
    BY <2>2, NoneIsNew DEF Appending, Core, Phase
  <2>4. counts.crashes # 0 /\ s \notin sessions
    <3>1. counts.crashes > 0 /\ s \notin sessions
      BY <2>2 DEF Counted, Core, Phase
    <3>2. counts.crashes \in Nat
      BY DEF StateType, Counts
    <3> QED BY <3>1, <3>2
  <2>5. ASSUME NEW r \in Ids, Clean(r)', Present(r)' PROVE CountsMessages(r)'
    <3>1. CASE r = s
      <4>1. saved[s] # None /\ saved[s].messages <= Length(s)
        BY <2>1, <2>2, <2>4, <2>5, <3>1 DEF Counted, Clean, Present
      <4> QED BY <2>1, <2>2, <2>3, <2>4, <3>1, <4>1 DEF CountsMessages, Appending, Length
    <3>2. CASE r # s
      BY <2>1, <2>2, <2>5, <3>2 DEF Counted, CountsMessages, Appending, Length, Clean, Present, BeingDeleted
    <3> QED BY <3>1, <3>2
  <2> QED BY <2>1, <2>2, <2>5 DEF Counted, Clean, Length, Emptying
<1>6. ASSUME NEW v \in Savers, Snapshot(v) PROVE Counted'
  <2>1. PICK s : s = saver[v].id
    OBVIOUS
  <2>2. UNCHANGED <<sessions, ctx, saved, chain, deletion, handler, load, deleted, raced, counts>>
    BY <1>6 DEF Snapshot, ghosts
  <2>3. /\ SaverOnly(v) /\ s \in Ids /\ saver[v].step = "found" /\ CanRead(s)
        /\ saver'[v].data = ctx[s] /\ saver'[v].id = s
    BY <1>6, <2>1, SnapshotType
  <2>4. \A r \in Ids : Clean(r)' /\ Present(r)' => CountsMessages(r)'
    BY <2>2 DEF Counted, CountsMessages, Appending, Length, Clean, Present, BeingDeleted
  <2>5. Clean(s) => ctx[s].messages <= Length(s)
    <3>1. Clean(s) => Present(s)
      BY <2>1, <2>3, SavesHeld
    <3>2. \A t \in Threads : ~Appending(t, s)
      BY <2>3 DEF CanRead, Holds, Appending
    <3> QED BY <2>3, <3>1, <3>2 DEF Counted, CountsMessages
  <2>6. \A w \in Savers : saver'[w].step = "set" /\ Clean(saver[w].id)' =>
          saver'[w].data.messages <= Length(saver[w].id)'
    BY <2>2, <2>3, <2>5 DEF Counted, Clean, Length, SaverOnly
  <2> QED BY <2>2, <2>4, <2>6 DEF Counted, Clean, Length, Emptying
<1>7. ASSUME NEW v \in Savers, SetKey(v) PROVE Counted'
  <2>1. PICK s : s = saver[v].id
    OBVIOUS
  <2>2. UNCHANGED <<sessions, ctx, chain, deletion, handler, load, deleted, raced>>
    BY <1>7 DEF SetKey, ghosts
  <2>3. /\ MayFail /\ SaverOnly(v) /\ s \in Ids /\ saver[v].step = "set"
        /\ \A r \in Ids : r # s => saved'[r] = saved[r]
        /\ saved'[s] = saver[v].data \/ saved' = saved
        /\ saver'[v].step # "set"
    BY <1>7, <2>1, SetKeyType, NoneIsNew
  <2>4. \A r \in Ids : Clean(r)' /\ Present(r)' => CountsMessages(r)'
    BY <2>2, <2>3 DEF MayFail, Counted, CountsMessages, Appending, Length, Clean, Present, BeingDeleted
  <2>5. \A r \in Ids : Clean(r)' /\ saved'[r] # None => saved'[r].messages <= Length(r)'
    BY <2>1, <2>2, <2>3 DEF Counted, Clean, Length
  <2>6. \A w \in Savers : saver'[w].step = "set" /\ Clean(saver[w].id)' =>
          saver'[w].data.messages <= Length(saver[w].id)'
    BY <2>2, <2>3 DEF Counted, Clean, Length, SaverOnly
  <2>7. \A r \in Ids : Clean(r)' /\ Emptying(r)' => saved'[r] = None
    <3>1. Clean(s) => ~Emptying(s)
      BY <2>1, <2>3, SavesHeld, NoneIsNew DEF Emptying, Present, BeingDeleted
    <3> QED BY <2>2, <2>3, <3>1 DEF Counted, Clean, Emptying
  <2>8. load'.step # "serving" => counts'.crashes > 0
    BY <2>2, <2>3 DEF Counted, MayFail
  <2> QED BY <2>4, <2>5, <2>6, <2>7, <2>8 DEF Counted
<1> QED BY <1>1, <1>2, <1>3, <1>4, <1>5, <1>6, <1>7, TakeCounted, AppendCounted, NextCases

\* The messages a session counts are those of its chain, unless an append was refused
\* or a file lost: as long as the server lives exactly, and never more of them after it
\* has loaded what was saved.
THEOREM ChainHasMessages == Spec => []ChainHasAll
<1> DEFINE IInv == Bounds /\ (counts.lost = 0 => Counted)
<1>1. Init => IInv
  <2> SUFFICES ASSUME Init PROVE Counted
    BY InitBounds
  <2>1. /\ sessions = {} /\ deletion = None /\ load.step = "serving"
        /\ \A s \in Ids : saved[s] = None
        /\ \A v \in Savers : saver[v] = None
    BY ServingType DEF Init
  <2> QED BY <2>1, NoneIsNew DEF Counted, Present, Emptying
<1>2. StateType /\ Core /\ IInv /\ [Next]_vars => IInv'
  <2> SUFFICES ASSUME StateType, Core, IInv, [Next]_vars PROVE IInv'
    OBVIOUS
  <2>1. Bounds /\ Bounds'
    BY StepBounds
  <2>2. ASSUME counts'.lost = 0 PROVE Counted'
    <3>1. Counted
      BY <2>2, CountsGrow
    <3> QED BY <2>1, <2>2, <3>1, StepCounted
  <2> QED BY <2>1, <2>2
<1>3. StateType /\ IInv => ChainHasAll
  <2> SUFFICES ASSUME StateType, IInv, deletion = None, counts.lost = 0,
                      NEW s \in sessions \ (deleted \cup raced), CanRead(s)
               PROVE  LET n == IF chain[s] = NoChain THEN 0 ELSE Len(chain[s])
                      IN ctx[s].messages <= n /\ (counts.crashes = 0 => ctx[s].messages = n)
    BY DEF ChainHasAll
  <2>1. Clean(s) /\ Present(s) /\ s \in Ids /\ Counted
    BY DEF Clean, Present, BeingDeleted, StateType
  <2>2. \A t \in Threads : ~Appending(t, s)
    BY DEF CanRead, Holds, Appending
  <2> QED BY <2>1, <2>2 DEF Counted, CountsMessages, Length
<1> QED BY <1>1, <1>2, <1>3, Invariance, PTL DEF Spec

-----------------------------------------------------------------------------
(* What is saved and what memory holds: SavedCatchesUp.                    *)

Dispatching(t, s) == handler[t].step = "dispatch" /\ handler[t].id = s
SavesIn(v, s, x)  == saver[v].step = x /\ saver[v].id = s

\* A save that has yet to read the session.
SaveComes(s) == pending[s] > 0 \/ \E v \in Savers : SavesIn(v, s, "found")

\* Either somebody will yet save the session, or what is saved is what memory holds.
CaughtUp(s) ==
  /\ \A v \in Savers : SavesIn(v, s, "set") => SameData(saver[v].data, ctx[s])
  /\ \A v \in Savers : SavesIn(v, s, "sadd") => saved[s] # None /\ SameData(saved[s], ctx[s])
  /\ \/ SaveComes(s) \/ s \in load.changed
     \/ \E t \in Threads : Appending(t, s)
     \/ \E v \in Savers : SavesIn(v, s, "set")
     \/ /\ saved[s] # None /\ SameData(saved[s], ctx[s])
        /\ s \in list \/ \E v \in Savers : SavesIn(v, s, "sadd")
  /\ \A t \in Threads : Dispatching(t, s) => SaveComes(s)

Caught == counts.failures = 0 => \A s \in Ids : Present(s) => CaughtUp(s)

\* A step that is not about session r.
Spared(r) ==
  /\ SameData(ctx'[r], ctx[r]) /\ saved'[r] = saved[r]
  /\ pending[r] > 0 => pending'[r] > 0
  /\ r \in list => r \in list'
  /\ r \in load.changed => r \in load'.changed \/ pending'[r] > 0
  /\ \A t \in Threads : /\ Appending(t, r) => Appending(t, r)'
                        /\ Dispatching(t, r)' => Dispatching(t, r)
  /\ \A v \in Savers : \A x \in {"found", "set", "sadd"} :
       SavesIn(v, r, x)' <=> SavesIn(v, r, x)
  /\ \A v \in Savers : SavesIn(v, r, "set")' => saver'[v] = saver[v]

LEMMA SparedCaught == ASSUME NEW r, Spared(r), CaughtUp(r) PROVE CaughtUp(r)'
<1>1. SaveComes(r) => SaveComes(r)'
  BY DEF Spared, SaveComes
<1>2. \A v \in Savers : SavesIn(v, r, "set")' => SameData(saver'[v].data, ctx'[r])
  BY DEF Spared, CaughtUp, SameData
<1>3. \A v \in Savers : SavesIn(v, r, "sadd")' => saved'[r] # None /\ SameData(saved'[r], ctx'[r])
  BY DEF Spared, CaughtUp, SameData
<1>4. \A t \in Threads : Dispatching(t, r)' => SaveComes(r)'
  BY <1>1 DEF Spared, CaughtUp
<1>5. \/ SaveComes(r)' \/ r \in load'.changed
      \/ \E t \in Threads : Appending(t, r)'
      \/ \E v \in Savers : SavesIn(v, r, "set")'
      \/ /\ saved'[r] # None /\ SameData(saved'[r], ctx'[r])
         /\ r \in list' \/ \E v \in Savers : SavesIn(v, r, "sadd")'
  <2>1. CASE SaveComes(r)
    BY <1>1, <2>1
  <2>2. CASE r \in load.changed
    BY <2>2 DEF Spared, SaveComes
  <2>3. CASE \E t \in Threads : Appending(t, r)
    BY <2>3 DEF Spared
  <2>4. CASE \E v \in Savers : SavesIn(v, r, "set")
    BY <2>4 DEF Spared
  <2>5. CASE /\ saved[r] # None /\ SameData(saved[r], ctx[r])
             /\ r \in list \/ \E v \in Savers : SavesIn(v, r, "sadd")
    BY <2>5 DEF Spared, SameData
  <2> QED BY <2>1, <2>2, <2>3, <2>4, <2>5 DEF CaughtUp
<1> QED BY <1>2, <1>3, <1>4, <1>5 DEF CaughtUp

\* A handler or a save of another session goes on.
LEMMA HandlerSpares ==
  ASSUME NEW t \in Threads, NEW s, NEW r, r # s, HandlerOnly(t), handler[t].id = s \/ handler[t] = None,
         handler'[t].id = s \/ handler'[t] = None
  PROVE  \A u \in Threads : /\ Appending(u, r) => Appending(u, r)'
                            /\ Dispatching(u, r)' => Dispatching(u, r)
BY NoneIsNew DEF Appending, Dispatching, HandlerOnly

LEMMA SaverSpares ==
  ASSUME NEW v \in Savers, NEW s, NEW r, r # s, SaverOnly(v), saver[v].id = s \/ saver[v] = None,
         saver'[v].id = s \/ saver'[v] = None
  PROVE  /\ \A w \in Savers : \A x \in {"found", "set", "sadd"} :
              SavesIn(w, r, x)' <=> SavesIn(w, r, x)
         /\ \A w \in Savers : SavesIn(w, r, "set")' => saver'[w] = saver[w]
BY NoneIsNew DEF SavesIn, SaverOnly

\* Who has the session's lock shares it with nobody.
LEMMA LockAlone ==
  ASSUME Core, NEW s \in Ids, NEW t \in Threads, Holds(t, s)
  PROVE  /\ \A v \in Savers : ~SavesIn(v, s, "set") /\ ~SavesIn(v, s, "sadd")
         /\ \A u \in Threads : Appending(u, s) \/ Dispatching(u, s) => u = t
BY DEF Core, Exclusive, Holds, Reads, SavesIn, Appending, Dispatching

LEMMA LockFree ==
  ASSUME NEW s, CanRead(s)
  PROVE  /\ \A t \in Threads : ~Appending(t, s) /\ ~Dispatching(t, s)
         /\ CanWrite(s) => \A v \in Savers : ~SavesIn(v, s, "set") /\ ~SavesIn(v, s, "sadd")
BY DEF CanRead, CanWrite, Holds, Reads, SavesIn, Appending, Dispatching

LEMMA DeletePresent ==
  ASSUME StateType, Deletion, NEW r \in Ids, Present(r)'
  PROVE  Present(r) /\ r # deletion.id
<1>1. /\ deletion # None /\ deletion.id \in Ids
      /\ EndDelete \/ (deletion' # None /\ deletion'.id = deletion.id)
  BY DeleteType, NoneIsNew
<1>2. CASE EndDelete
  BY <1>1, <1>2 DEF EndDelete, Present, BeingDeleted
<1>3. CASE ~EndDelete
  <2>1. UNCHANGED sessions
    BY <1>3 DEF Deletion, DeleteKey, RemoveFromList, DeleteChain
  <2> QED BY <1>1, <1>3, <2>1 DEF Present, BeingDeleted
<1> QED BY <1>2, <1>3

\* Caught, step by step: session r is there after the step, and Redis has not failed.
LEMMA HandlingCaught ==
  ASSUME StateType, Core, NEW r \in Ids, Present(r), CaughtUp(r), NEW t \in Threads, Handling(t)
  PROVE  CaughtUp(r)'
<1>1. PICK s : s = handler[t].id
  OBVIOUS
<1>2. CASE TakeMessage(t)
  <2>1. UNCHANGED <<saved, list, saver, load, pending>> /\ CanWrite(s)
    BY <1>1, <1>2 DEF TakeMessage
  <2>2. HandlerGoes(t, s, "append") /\ s \in Ids
    BY <1>1, <1>2, TakeType DEF HandlerGoes
  <2>3. CASE r # s
    BY <2>1, <2>2, <2>3, HandlerSpares, SparedCaught DEF HandlerGoes, Spared, SameData, SavesIn
  <2>4. CASE r = s
    <3>1. /\ \A u \in Threads : ~Dispatching(u, s)
          /\ \A v \in Savers : ~SavesIn(v, s, "set") /\ ~SavesIn(v, s, "sadd")
      BY <2>1, LockFree DEF CanWrite
    <3>2. Appending(t, s)' /\ \A u \in Threads : ~Dispatching(u, s)'
      BY <2>2, <3>1 DEF HandlerGoes, HandlerOnly, Appending, Dispatching
    <3>3. \A v \in Savers : ~SavesIn(v, s, "set")' /\ ~SavesIn(v, s, "sadd")'
      BY <2>1, <3>1 DEF SavesIn
    <3> QED BY <2>4, <3>2, <3>3 DEF CaughtUp
  <2> QED BY <2>3, <2>4
<1>3. CASE AppendMessage(t)
  <2>1. UNCHANGED <<saved, list, saver, load>>
    BY <1>3 DEF AppendMessage
  <2>2. /\ HandlerGoes(t, s, "dispatch") /\ s \in Ids /\ handler[t].step = "append"
        /\ \A q \in Ids : pending'[q] >= pending[q]
        /\ pending'[s] > 0
    BY <1>1, <1>3, AppendType DEF HandlerGoes
  <2>3. CASE r # s
    <3>1. pending[r] \in Nat /\ pending'[r] >= pending[r] /\ pending'[r] \in Nat
      BY <1>3, <2>2, AppendType DEF StateType
    <3>2. \A u \in Threads : /\ Appending(u, r) => Appending(u, r)'
                             /\ Dispatching(u, r)' => Dispatching(u, r)
      BY <1>1, <2>2, <2>3, HandlerSpares DEF HandlerGoes
    <3>3. ctx'[r] = ctx[r]
      BY <2>2, <2>3 DEF HandlerGoes
    <3> QED BY <2>1, <3>1, <3>2, <3>3, SparedCaught DEF Spared, SameData, SavesIn
  <2>4. CASE r = s
    <3>1. \A v \in Savers : ~SavesIn(v, s, "set") /\ ~SavesIn(v, s, "sadd")
      BY <1>1, <2>2, LockAlone DEF Holds
    <3>2. \A v \in Savers : ~SavesIn(v, s, "set")' /\ ~SavesIn(v, s, "sadd")'
      BY <2>1, <3>1 DEF SavesIn
    <3> QED BY <2>2, <2>4, <3>2 DEF CaughtUp, SaveComes
  <2> QED BY <2>3, <2>4
<1>4. CASE Dispatch(t)
  <2>1. UNCHANGED <<saved, list, saver, load, pending>>
    BY <1>4 DEF Dispatch
  <2>2. /\ handler'[t] = None /\ HandlerOnly(t) /\ s \in Ids /\ handler[t].step = "dispatch"
        /\ \A q \in Ids : q # s => ctx'[q] = ctx[q]
    <3>1. s \in Ids /\ handler'[t] = None /\ HandlerOnly(t) /\ handler[t].step = "dispatch"
      BY <1>1, <1>4, DispatchType
    <3>2. \A q \in Ids : q # s => ctx'[q] = ctx[q]
      BY <1>1, <1>4 DEF Dispatch, StateType
    <3> QED BY <3>1, <3>2
  <2>3. CASE r # s
    BY <1>1, <2>1, <2>2, <2>3, HandlerSpares, SparedCaught DEF Spared, SameData, SavesIn
  <2>4. CASE r = s
    <3>1. \A v \in Savers : ~SavesIn(v, s, "set") /\ ~SavesIn(v, s, "sadd")
      BY <1>1, <2>2, LockAlone DEF Holds
    <3>2. \A v \in Savers : ~SavesIn(v, s, "set")' /\ ~SavesIn(v, s, "sadd")'
      BY <2>1, <3>1 DEF SavesIn
    <3>3. SaveComes(s)'
      BY <1>1, <2>1, <2>2, <2>4 DEF CaughtUp, Dispatching, SaveComes, SavesIn
    <3> QED BY <2>4, <3>2, <3>3 DEF CaughtUp
  <2> QED BY <2>3, <2>4
<1> QED BY <1>2, <1>3, <1>4 DEF Handling

LEMMA SavingCaught ==
  ASSUME StateType, Core, counts'.failures = 0, NEW r \in Ids, Present(r), CaughtUp(r),
         NEW v \in Savers, Saving(v)
  PROVE  CaughtUp(r)'
<1>1. ASSUME NEW s \in Ids, LookUp(v, s) PROVE CaughtUp(r)'
  <2>1. UNCHANGED <<sessions, ctx, saved, list, handler, load>> /\ saver[v] = None
    BY <1>1 DEF LookUp
  <2>2. /\ SaverOnly(v)
        /\ IF s \in sessions THEN saver'[v].step = "found" /\ saver'[v].id = s ELSE saver' = saver
        /\ \A q \in Ids : q # s => pending'[q] = pending[q]
    BY <1>1, LookUpType
  <2>3. CASE r # s
    <3>1. /\ \A w \in Savers : \A x \in {"found", "set", "sadd"} :
               SavesIn(w, r, x)' <=> SavesIn(w, r, x)
          /\ \A w \in Savers : SavesIn(w, r, "set")' => saver'[w] = saver[w]
      <4>1. saver'[v].id = s \/ saver'[v] = None
        BY <2>1, <2>2
      <4> QED BY <2>1, <2>2, <2>3, <4>1, SaverSpares
    <3> QED BY <2>1, <2>2, <2>3, <3>1, SparedCaught DEF Spared, SameData, Appending, Dispatching
  <2>4. CASE r = s
    <3>1. SavesIn(v, s, "found")'
      BY <2>2, <2>4 DEF Present, SavesIn
    <3>2. /\ \A w \in Savers : SavesIn(w, s, "set")' => SavesIn(w, s, "set") /\ saver'[w] = saver[w]
          /\ \A w \in Savers : SavesIn(w, s, "sadd")' => SavesIn(w, s, "sadd")
      BY <2>2, <3>1 DEF SavesIn, SaverOnly
    <3> QED BY <2>1, <2>4, <3>1, <3>2 DEF CaughtUp, SaveComes
  <2> QED BY <2>3, <2>4
<1>2. PICK s : s = saver[v].id
  OBVIOUS
<1>3. CASE Snapshot(v)
  <2>1. UNCHANGED <<ctx, saved, list, handler, load, pending>>
    BY <1>3 DEF Snapshot
  <2>2. /\ SaverOnly(v) /\ s \in Ids /\ CanRead(s)
        /\ saver'[v].step = "set" /\ saver'[v].id = s /\ saver'[v].data = ctx[s]
    BY <1>2, <1>3, SnapshotType
  <2>3. CASE r # s
    <3>1. /\ \A w \in Savers : \A x \in {"found", "set", "sadd"} :
               SavesIn(w, r, x)' <=> SavesIn(w, r, x)
          /\ \A w \in Savers : SavesIn(w, r, "set")' => saver'[w] = saver[w]
      BY <1>2, <2>2, <2>3, SaverSpares
    <3> QED BY <2>1, <2>3, <3>1, SparedCaught DEF Spared, SameData, Appending, Dispatching
  <2>4. CASE r = s
    <3>1. /\ SavesIn(v, s, "set")' /\ \A t \in Threads : ~Dispatching(t, s)'
      BY <2>1, <2>2, LockFree DEF SavesIn, Dispatching
    <3>2. /\ \A w \in Savers : SavesIn(w, s, "set")' =>
               w = v \/ (SavesIn(w, s, "set") /\ saver'[w] = saver[w])
          /\ \A w \in Savers : SavesIn(w, s, "sadd")' => SavesIn(w, s, "sadd")
      BY <2>2 DEF SavesIn, SaverOnly
    <3> QED BY <2>1, <2>2, <2>4, <3>1, <3>2 DEF CaughtUp, SameData
  <2> QED BY <2>3, <2>4
<1>4. CASE SetKey(v)
  <2>1. UNCHANGED <<ctx, list, handler, load, pending>>
    BY <1>4 DEF SetKey
  <2>2. /\ SaverOnly(v) /\ s \in Ids /\ saver[v].step = "set" /\ saver[v].data \in Context
        /\ \A q \in Ids : q # s => saved'[q] = saved[q]
        /\ saved'[s] = saver[v].data /\ saver'[v].step = "sadd" /\ saver'[v].id = s
    BY <1>2, <1>4, SetKeyType
  <2>3. CASE r # s
    <3>1. /\ \A w \in Savers : \A x \in {"found", "set", "sadd"} :
               SavesIn(w, r, x)' <=> SavesIn(w, r, x)
          /\ \A w \in Savers : SavesIn(w, r, "set")' => saver'[w] = saver[w]
      BY <1>2, <2>2, <2>3, SaverSpares
    <3> QED BY <2>1, <2>2, <2>3, <3>1, SparedCaught DEF Spared, SameData, Appending, Dispatching
  <2>4. CASE r = s
    <3>1. saved'[s] # None /\ SameData(saved'[s], ctx'[s]) /\ SavesIn(v, s, "sadd")'
      BY <1>2, <2>1, <2>2, <2>4, NoneIsNew DEF CaughtUp, SavesIn
    <3>2. \A w \in Savers : SavesIn(w, s, "set")' => SavesIn(w, s, "set") /\ saver'[w] = saver[w]
      BY <2>2 DEF SavesIn, SaverOnly
    <3>3. \A t \in Threads : ~Dispatching(t, s)'
      <4>1. Reads(v, s)
        BY <1>2, <2>2 DEF Reads
      <4> QED BY <2>1, <2>2, <4>1 DEF Core, Exclusive, Holds, Dispatching
    <3> QED BY <2>1, <2>4, <3>1, <3>2, <3>3 DEF CaughtUp
  <2> QED BY <2>3, <2>4
<1>5. CASE AddToList(v)
  <2>1. UNCHANGED <<ctx, saved, handler, load, pending>>
    BY <1>5 DEF AddToList
  <2>2. /\ SaverOnly(v) /\ s \in Ids /\ saver[v].step = "sadd" /\ saver'[v] = None
        /\ list' = list \cup {s}
    BY <1>2, <1>5, AddToListType
  <2>3. CASE r # s
    <3>1. /\ \A w \in Savers : \A x \in {"found", "set", "sadd"} :
               SavesIn(w, r, x)' <=> SavesIn(w, r, x)
          /\ \A w \in Savers : SavesIn(w, r, "set")' => saver'[w] = saver[w]
      BY <1>2, <2>2, <2>3, SaverSpares
    <3> QED BY <2>1, <2>2, <2>3, <3>1, SparedCaught DEF Spared, SameData, Appending, Dispatching
  <2>4. CASE r = s
    <3>1. saved'[s] # None /\ SameData(saved'[s], ctx'[s]) /\ s \in list'
      BY <1>2, <2>1, <2>2, <2>4 DEF CaughtUp, SavesIn
    <3>2. /\ \A w \in Savers : SavesIn(w, s, "set")' => SavesIn(w, s, "set") /\ saver'[w] = saver[w]
      BY <2>2, NoneIsNew DEF SavesIn, SaverOnly
    <3>3. \A t \in Threads : ~Dispatching(t, s)'
      <4>1. Reads(v, s)
        BY <1>2, <2>2 DEF Reads
      <4> QED BY <2>1, <2>2, <4>1 DEF Core, Exclusive, Holds, Dispatching
    <3> QED BY <2>1, <2>4, <3>1, <3>2, <3>3 DEF CaughtUp
  <2> QED BY <2>3, <2>4
<1> QED BY <1>1, <1>3, <1>4, <1>5 DEF Saving

LEMMA LoadingCaught ==
  ASSUME StateType, Core, NEW r \in Ids, Present(r)', Present(r) => CaughtUp(r), Loading
  PROVE  CaughtUp(r)'
<1>1. UNCHANGED <<saved, list, deletion, handler, saver>>
  BY DEF Loading, LoadSession, ReadLast, RegisterLoaded, StartRebuild, RebuildSummary, EndRebuild
<1>2. ASSUME ctx'[r] = ctx[r], pending' = pending, load'.changed = load.changed, CaughtUp(r)
      PROVE  CaughtUp(r)'
  BY <1>1, <1>2, SparedCaught DEF Spared, SameData, SavesIn, Appending, Dispatching
<1>3. ASSUME NEW s \in Ids, LoadSession(s) PROVE CaughtUp(r)'
  <2>1. /\ load.step = "load" /\ load.at = None /\ s \in load.todo /\ load'.changed = load.changed
        /\ \A q \in Ids : q # s => ctx'[q] = ctx[q]
        /\ IF saved[s] = None THEN UNCHANGED <<sessions, ctx>>
           ELSE ctx'[s] = saved[s] /\ sessions' = sessions \cup {s}
    BY <1>3, LoadSessionType
  <2>2. UNCHANGED pending
    BY <1>3 DEF LoadSession
  <2>3. s \notin sessions /\ s \in list
    BY <2>1 DEF Core, Phase
  <2>4. CASE r # s
    <3>1. Present(r)
      BY <1>1, <2>1, <2>4 DEF Present, BeingDeleted
    <3> QED BY <1>2, <2>1, <2>2, <2>4, <3>1
  <2>5. CASE r = s
    <3>1. saved[s] # None /\ ctx'[s] = saved[s]
      BY <2>1, <2>3, <2>5 DEF Present
    <3>2. \A v \in Savers : \A x \in {"found", "set", "sadd"} : ~SavesIn(v, s, x)
      BY <2>1, <2>3, NoneIsNew DEF Core, Phase, SavesIn
    <3>3. \A t \in Threads : ~Dispatching(t, s)
      BY <2>1, <2>3, NoneIsNew DEF Core, Phase, Dispatching
    <3> QED BY <1>1, <2>3, <2>5, <3>1, <3>2, <3>3 DEF CaughtUp, SameData, SavesIn, Dispatching
  <2> QED BY <2>4, <2>5
<1>4. ASSUME ~\E s \in Ids : LoadSession(s) PROVE Present(r) /\ CaughtUp(r)
  <2>1. UNCHANGED sessions
    BY <1>4 DEF Loading, ReadLast, RegisterLoaded, StartRebuild, RebuildSummary, EndRebuild
  <2> QED BY <1>1, <2>1 DEF Present, BeingDeleted
<1>5. ASSUME NEW s \in Ids, ReadLast(s), Present(r) /\ CaughtUp(r) PROVE CaughtUp(r)'
  <2>1. UNCHANGED <<ctx, pending>>
    BY <1>5 DEF ReadLast
  <2> QED BY <1>2, <1>5, <2>1, ReadLastType
<1>6. ASSUME RegisterLoaded, Present(r) /\ CaughtUp(r) PROVE CaughtUp(r)'
  <2>1. UNCHANGED <<ctx, pending>>
    BY <1>6 DEF RegisterLoaded
  <2> QED BY <1>2, <1>6, <2>1, RegisterType
<1>7. ASSUME StartRebuild, Present(r) /\ CaughtUp(r) PROVE CaughtUp(r)'
  <2>1. UNCHANGED <<ctx, pending>>
    BY <1>7 DEF StartRebuild
  <2> QED BY <1>2, <1>7, <2>1, StartRebuildType
<1>8. ASSUME RebuildSummary, Present(r) /\ CaughtUp(r) PROVE CaughtUp(r)'
  <2>1. PICK s : s = load.at.id
    OBVIOUS
  <2>2. UNCHANGED <<pending, sessions>>
    BY <1>8 DEF RebuildSummary
  <2>3. /\ s \in Ids /\ CanWrite(s) /\ load.step = "rebuild"
        /\ \A q \in Ids : q # s => ctx'[q] = ctx[q]
        /\ ctx'[s].summary = load.last /\ ctx'[s].messages = ctx[s].messages
        /\ ctx'[s].calls = ctx[s].calls /\ ctx'[s].joined = ctx[s].joined
        /\ load'.changed = IF ctx[s].summary = load.last THEN load.changed ELSE sessions
    BY <1>8, <2>1, RebuildType
  <2>4. r \in sessions /\ load.changed \subseteq sessions
    BY <1>8, <2>3 DEF Core, Phase, Present
  <2>5. CASE r # s \/ ctx[s].summary = load.last
    <3>1. SameData(ctx'[r], ctx[r])
      BY <2>3, <2>5 DEF SameData
    <3>2. r \in load.changed => r \in load'.changed
      BY <2>3, <2>4
    <3> QED BY <1>1, <1>8, <2>2, <3>1, <3>2, SparedCaught DEF Spared, SavesIn, Appending, Dispatching
  <2>6. CASE r = s /\ ctx[s].summary # load.last
    <3>1. /\ \A t \in Threads : ~Dispatching(t, s)
          /\ \A v \in Savers : ~SavesIn(v, s, "set") /\ ~SavesIn(v, s, "sadd")
      BY <2>3, LockFree DEF CanWrite
    <3> QED BY <1>1, <2>3, <2>4, <2>6, <3>1 DEF CaughtUp, SavesIn, Dispatching
  <2> QED BY <2>5, <2>6
<1>9. ASSUME EndRebuild, Present(r) /\ CaughtUp(r) PROVE CaughtUp(r)'
  <2>1. UNCHANGED ctx
    BY <1>9 DEF EndRebuild
  <2>2. pending'[r] >= pending[r] /\ (r \in load.changed => pending'[r] > 0)
    BY <1>9, EndRebuildType
  <2>3. pending[r] \in Nat /\ pending'[r] \in Nat
    BY <1>9, EndRebuildType DEF StateType
  <2> QED BY <1>1, <1>9, <2>1, <2>2, <2>3, SparedCaught
          DEF Spared, SameData, SavesIn, Appending, Dispatching
<1> QED BY <1>3, <1>4, <1>5, <1>6, <1>7, <1>8, <1>9 DEF Loading

LEMMA RequestCaught ==
  ASSUME StateType, Core, NEW r \in Ids, Present(r)', Present(r) => CaughtUp(r),
         \/ \E s \in Ids : CreateSession(s) \/ UpdateSessionName(s) \/ StartDelete(s)
         \/ Deletion
         \/ \E t \in Requests, s \in Ids, m \in SUBSET Cats : SendMessage(t, s, m)
         \/ \E k \in tasks, m \in SUBSET Cats : HandleResult(k, m)
  PROVE  CaughtUp(r)'
<1>1. ASSUME NEW s \in Ids, CreateSession(s) PROVE CaughtUp(r)'
  <2>1. /\ UNCHANGED <<saved, list, deletion, handler, saver, load>>
        /\ sessions' = sessions \cup {s} /\ s \notin created
    BY <1>1 DEF CreateSession
  <2>2. /\ pending[r] \in Nat /\ pending'[r] \in Nat /\ pending'[r] >= pending[r] /\ pending'[s] > 0
        /\ (r # s => ctx'[r] = ctx[r])
    BY <1>1, CreateType DEF StateType
  <2>3. CASE r # s
    <3>1. Present(r)
      BY <2>1, <2>3 DEF Present, BeingDeleted
    <3> QED BY <2>1, <2>2, <2>3, <3>1, SparedCaught DEF Spared, SameData, SavesIn, Appending, Dispatching
  <2>4. CASE r = s
    <3>1. \A v \in Savers : \A x \in {"found", "set", "sadd"} : ~SavesIn(v, s, x)
      BY <2>1, NoneIsNew DEF Core, Known, SavesIn
    <3> QED BY <2>1, <2>2, <2>4, <3>1 DEF CaughtUp, SaveComes, SavesIn
  <2> QED BY <2>3, <2>4
<1>2. ASSUME NEW s \in Ids, UpdateSessionName(s) PROVE CaughtUp(r)'
  <2>1. UNCHANGED <<sessions, saved, list, deletion, handler, saver, load>>
    BY <1>2 DEF UpdateSessionName
  <2>2. /\ pending[r] \in Nat /\ pending'[r] \in Nat /\ pending'[r] >= pending[r]
        /\ SameData(ctx'[r], ctx[r])
    BY <1>2, RenameType DEF StateType, SameCtx
  <2>3. Present(r)
    BY <2>1 DEF Present, BeingDeleted
  <2> QED BY <2>1, <2>2, <2>3, SparedCaught DEF Spared, SavesIn, Appending, Dispatching
<1>3. ASSUME NEW s \in Ids, StartDelete(s) PROVE CaughtUp(r)'
  <2>1. UNCHANGED <<sessions, ctx, saved, list, handler, pending, saver, load>> /\ deletion = None
    BY <1>3 DEF StartDelete, Unlocked
  <2>2. Present(r)
    BY <2>1 DEF Present, BeingDeleted
  <2> QED BY <2>1, <2>2, SparedCaught DEF Spared, SameData, SavesIn, Appending, Dispatching
<1>4. CASE Deletion
  <2>1. Present(r) /\ r # deletion.id
    BY <1>4, DeletePresent
  <2>2. UNCHANGED <<ctx, handler, pending, saver, load>>
    BY <1>4 DEF Deletion, DeleteKey, RemoveFromList, DeleteChain, EndDelete
  <2>3. saved'[r] = saved[r] /\ (r \in list => r \in list')
    BY <1>4, <2>1 DEF Deletion, DeleteKey, RemoveFromList, DeleteChain, EndDelete, StateType
  <2> QED BY <2>1, <2>2, <2>3, SparedCaught DEF Spared, SameData, SavesIn, Appending, Dispatching
<1>5. ASSUME UNCHANGED <<sessions, ctx, saved, list, deletion, pending, saver, load>>,
             NEW t \in Threads, HandlerOnly(t), handler'[t] = handler[t] \/ handler'[t].step = "found",
             handler[t] = None
      PROVE  CaughtUp(r)'
  <2>1. \A u \in Threads : /\ Appending(u, r) => Appending(u, r)'
                           /\ Dispatching(u, r)' => Dispatching(u, r)
    BY <1>5, NoneIsNew DEF HandlerOnly, Appending, Dispatching
  <2>2. Present(r)
    BY <1>5 DEF Present, BeingDeleted
  <2> QED BY <1>5, <2>1, <2>2, SparedCaught DEF Spared, SameData, SavesIn
<1>6. ASSUME NEW t \in Requests, NEW s \in Ids, NEW m \in SUBSET Cats, SendMessage(t, s, m)
      PROVE  CaughtUp(r)'
  <2>1. UNCHANGED <<sessions, ctx, saved, list, deletion, pending, saver, load>> /\ handler[t] = None
    BY <1>6 DEF SendMessage
  <2>2. t \in Threads /\ HandlerOnly(t) /\ handler'[t].step = "found"
    BY <1>6, SendType DEF Threads
  <2> QED BY <1>5, <2>1, <2>2
<1>7. ASSUME NEW k \in tasks, NEW m \in SUBSET Cats, HandleResult(k, m) PROVE CaughtUp(r)'
  <2>1. /\ UNCHANGED <<sessions, ctx, saved, list, deletion, pending, saver, load>>
        /\ handler[Listener] = None /\ Listener \in Threads
    BY <1>7 DEF HandleResult, Threads
  <2>2. /\ HandlerOnly(Listener)
        /\ handler'[Listener] = handler[Listener] \/ handler'[Listener].step = "found"
    BY <1>7, ResultType
  <2> QED BY <1>5, <2>1, <2>2
<1> QED BY <1>1, <1>2, <1>3, <1>4, <1>6, <1>7

LEMMA StepCaught == ASSUME StateType, Core, Caught, [Next]_vars PROVE Caught'
<1> SUFFICES ASSUME counts'.failures = 0, NEW r \in Ids, Present(r)' PROVE CaughtUp(r)'
  BY DEF Caught
<1>1. Present(r) => CaughtUp(r)
  BY CountsGrow DEF Caught
<1>2. ASSUME UNCHANGED <<sessions, deletion>> PROVE Present(r)
  BY <1>2 DEF Present, BeingDeleted
<1>3. ASSUME NEW t \in Threads, Handling(t) PROVE CaughtUp(r)'
  <2>1. UNCHANGED <<sessions, deletion>>
    BY <1>3 DEF Handling, TakeMessage, AppendMessage, Dispatch
  <2> QED BY <1>1, <1>2, <1>3, <2>1, HandlingCaught
<1>4. ASSUME NEW v \in Savers, Saving(v) PROVE CaughtUp(r)'
  <2>1. UNCHANGED <<sessions, deletion>>
    BY <1>4 DEF Saving, LookUp, Snapshot, SetKey, AddToList
  <2> QED BY <1>1, <1>2, <1>4, <2>1, SavingCaught
<1>5. CASE Loading
  BY <1>1, <1>5, LoadingCaught
<1>6. CASE Crash
  BY <1>6 DEF Crash, Present
<1>7. ASSUME UNCHANGED <<sessions, ctx, saved, list, deletion, handler, pending, saver, load>>
      PROVE  CaughtUp(r)'
  <2>1. Present(r)
    BY <1>2, <1>7
  <2> QED BY <1>1, <1>7, <2>1 DEF CaughtUp, SaveComes, SavesIn, Appending, Dispatching
<1>8. CASE UNCHANGED vars \/ (\E k \in tasks : EndUnanswered(k)) \/ \E s \in Ids : GetOrCreateChain(s)
  BY <1>7, <1>8 DEF vars, EndUnanswered, GetOrCreateChain
<1> QED BY <1>1, <1>3, <1>4, <1>5, <1>6, <1>8, RequestCaught DEF Next

\* However the goroutines that save overtake each other: once they are through and
\* nobody works on a session, Redis holds what memory holds of it, and lists it.
THEOREM SavesCatchUp == Spec => []SavedCatchesUp
<1>1. Init => Caught
  BY DEF Init, Caught, Present
<1>2. StateType /\ Core /\ Caught /\ [Next]_vars => Caught'
  BY StepCaught
<1>3. StateType /\ Core /\ Caught => SavedCatchesUp
  <2> SUFFICES ASSUME StateType, Core, Caught, counts.failures = 0, load.step = "serving", deletion = None,
                      NEW s \in sessions, pending[s] = 0, CanRead(s),
                      \A v \in Savers : saver[v] # None => saver[v].id # s
               PROVE  s \in list /\ SameData(saved[s], ctx[s])
    BY DEF SavedCatchesUp
  <2>1. s \in Ids /\ CaughtUp(s)
    BY DEF Caught, Present, BeingDeleted, StateType
  <2>2. \A v \in Savers, x \in {"found", "set", "sadd"} : ~SavesIn(v, s, x)
    BY NoneIsNew DEF SavesIn
  <2>3. s \notin load.changed
    BY ServingType DEF Core, Phase
  <2>4. \A t \in Threads : ~Appending(t, s)
    BY LockFree
  <2> QED BY <2>1, <2>2, <2>3, <2>4 DEF CaughtUp, SaveComes
<1> QED BY <1>1, <1>2, <1>3, Invariance, PTL DEF Spec

-----------------------------------------------------------------------------
(* Summaries: SummaryGoesForward.                                          *)

Newest(s) == Last(chain[s])

\* RebuildSummary has read the newest message of s, and has not used it yet.
Rebuilding(s) == load.step = "rebuild" /\ load.at # None /\ load.at.id = s

ForwardOf(s) ==
  /\ HasMessage(s) =>
       /\ saved[s] # None => saved[s].summary <= Newest(s)
       /\ \A v \in Savers : SavesIn(v, s, "set") => saver[v].data.summary <= Newest(s)
       /\ (\A t \in Threads : ~Appending(t, s)) => ctx[s].summary <= Newest(s)
  /\ \A t \in Threads : Appending(t, s) =>
       /\ saved[s] # None => saved[s].summary <= ctx[s].summary
       /\ HasMessage(s) => Newest(s) <= ctx[s].summary
       /\ Rebuilding(s) => load.last <= ctx[s].summary
  /\ Rebuilding(s) =>
       /\ HasMessage(s) /\ load.at.length <= Len(chain[s]) /\ load.last <= Newest(s)
       /\ load.at.length = Len(chain[s]) => load.last = Newest(s)

Forward == \A s \in Ids : ForwardOf(s)

LEMMA NewestType ==
  ASSUME StateType, Bounds, NEW s \in Ids, HasMessage(s)
  PROVE  Newest(s) \in Nat /\ Newest(s) <= counts.stored
<1>1. chain[s] \in Seq(Nat) /\ Len(chain[s]) \in 1..Len(chain[s])
  BY NumberTypes, EmptySeq DEF HasMessage
<1> QED BY <1>1, NumberTypes DEF Bounds, InChain, HasMessage, Newest, Last

\* A step that is about another session, or tells nobody of a message.
LEMMA SameForward ==
  ASSUME NEW s \in Ids, ForwardOf(s), ctx'[s].summary = ctx[s].summary,
         saved'[s] = saved[s] \/ saved'[s] = None,
         \/ chain'[s] = chain[s]
         \/ chain'[s] = NoChain /\ ~Rebuilding(s)
         \/ chain'[s] = <<>> /\ chain[s] = NoChain,
         \A t \in Threads : Appending(t, s)' <=> Appending(t, s),
         \A v \in Savers : SavesIn(v, s, "set")' => saver'[v] = saver[v],
         Rebuilding(s)' => load' = load
  PROVE  ForwardOf(s)'
<1>1. HasMessage(s)' => HasMessage(s) /\ chain'[s] = chain[s]
  BY DEF HasMessage
<1>2. Rebuilding(s)' => Rebuilding(s) /\ chain'[s] = chain[s] /\ load' = load
  <2>1. Rebuilding(s) => chain[s] # NoChain
    BY DEF ForwardOf, HasMessage
  <2> QED BY <2>1 DEF Rebuilding
<1>3. HasMessage(s)' => Newest(s)' = Newest(s)
  BY <1>1 DEF Newest
<1>4. HasMessage(s)' =>
        /\ saved'[s] # None => saved'[s].summary <= Newest(s)'
        /\ \A v \in Savers : SavesIn(v, s, "set")' => saver'[v].data.summary <= Newest(s)'
        /\ (\A t \in Threads : ~Appending(t, s)') => ctx'[s].summary <= Newest(s)'
  BY <1>1, <1>3 DEF ForwardOf, SavesIn
<1>5. ASSUME NEW t \in Threads, Appending(t, s)'
      PROVE  /\ saved'[s] # None => saved'[s].summary <= ctx'[s].summary
             /\ HasMessage(s)' => Newest(s)' <= ctx'[s].summary
             /\ Rebuilding(s)' => load'.last <= ctx'[s].summary
  BY <1>1, <1>2, <1>3, <1>5 DEF ForwardOf
<1>6. Rebuilding(s)' =>
        /\ HasMessage(s)' /\ load'.at.length <= Len(chain'[s]) /\ load'.last <= Newest(s)'
        /\ load'.at.length = Len(chain'[s]) => load'.last = Newest(s)'
  BY <1>2 DEF ForwardOf, HasMessage, Newest
<1> QED BY <1>4, <1>5, <1>6 DEF ForwardOf

LEMMA AppendForward ==
  ASSUME StateType, Core, Bounds, NEW s \in Ids, ForwardOf(s), NEW t \in Threads, AppendMessage(t),
         counts'.lost = 0
  PROVE  ForwardOf(s)'
<1>1. PICK r : r = handler[t].id
  OBVIOUS
<1>2. UNCHANGED <<saved, saver, load>>
  BY DEF AppendMessage
<1>3. /\ HandlerGoes(t, r, "dispatch") /\ r \in Ids /\ handler[t].step = "append"
      /\ ctx'[r].summary = ctx[r].summary
      /\ chain'[r] = IF chain[r] = NoChain THEN NoChain ELSE Append(chain[r], ctx[r].summary)
  BY <1>1, AppendType DEF HandlerGoes, AppendedOrLost
<1>4. CASE s # r
  <2>1. ctx'[s] = ctx[s] /\ chain'[s] = chain[s]
    BY <1>3, <1>4 DEF HandlerGoes
  <2>2. \A u \in Threads : Appending(u, s)' <=> Appending(u, s)
    BY <1>1, <1>3, <1>4 DEF HandlerGoes, HandlerOnly, Appending
  <2> QED BY <1>2, <2>1, <2>2, SameForward DEF SavesIn, Rebuilding
<1>5. CASE s = r
  <2>1. /\ Appending(t, s) /\ \A u \in Threads : ~Appending(u, s)'
        /\ \A v \in Savers : ~SavesIn(v, s, "set")
    <3>1. Holds(t, s)
      BY <1>1, <1>3, <1>5 DEF Holds
    <3>2. \A u \in Threads : Appending(u, s) => u = t
      BY <3>1, LockAlone
    <3> QED BY <1>1, <1>3, <1>5, <3>1, <3>2, LockAlone DEF HandlerGoes, HandlerOnly, Appending
  <2>2. \A v \in Savers : ~SavesIn(v, s, "set")'
    BY <1>2, <2>1 DEF SavesIn
  <2>3. CASE chain[s] = NoChain
    <3>1. ~HasMessage(s) /\ ~HasMessage(s)'
      BY <1>3, <1>5, <2>3 DEF HasMessage
    <3>2. ~Rebuilding(s)'
      BY <1>2, <3>1 DEF ForwardOf, Rebuilding
    <3> QED BY <2>1, <3>1, <3>2 DEF ForwardOf
  <2>4. CASE chain[s] # NoChain
    <3>1. /\ chain[s] \in Seq(Nat) /\ ctx[s].summary \in Nat
          /\ Len(chain'[s]) = Len(chain[s]) + 1 /\ Len(chain[s]) \in Nat
          /\ chain'[s][Len(chain'[s])] = ctx[s].summary
      BY <1>3, <1>5, <2>4, NumberTypes, AppendProperties
    <3>2. Newest(s)' = ctx[s].summary
      BY <3>1 DEF Newest, Last
    <3>3. Rebuilding(s)' => load'.at.length <= Len(chain[s]) /\ load'.last <= ctx[s].summary
      BY <1>2, <2>1 DEF ForwardOf, Rebuilding
    <3>4. load'.at # None /\ load'.at.step = "read" => load'.at.length \in Nat
      BY <1>2, LoadType DEF StateType
    <3>5. Rebuilding(s)' => HasMessage(s)'
      <4>1. Len(chain'[s]) # 0 /\ ctx[s].summary >= 1
        BY <2>1, <3>1 DEF Bounds
      <4> QED BY <3>1, <4>1, ChainType DEF HasMessage
    <3>6. Rebuilding(s)' => load'.at.length < Len(chain'[s])
      <4>1. Rebuilding(s)' => load'.at.step = "read"
        BY <1>2 DEF Core, Phase, Rebuilding
      <4> QED BY <3>1, <3>3, <3>4, <4>1 DEF Rebuilding
    <3>7. saved'[s] # None => saved'[s].summary <= ctx[s].summary
      BY <1>2, <2>1 DEF ForwardOf
    <3>8. Rebuilding(s)' =>
            /\ HasMessage(s)' /\ load'.at.length <= Len(chain'[s]) /\ load'.last <= Newest(s)'
            /\ load'.at.length = Len(chain'[s]) => load'.last = Newest(s)'
      <4>1. Rebuilding(s)' => load'.at.step = "read" /\ load'.at # None
        BY <1>2 DEF Core, Phase, Rebuilding
      <4> QED BY <3>1, <3>2, <3>3, <3>4, <3>5, <3>6, <4>1
    <3>9. ctx'[s].summary <= Newest(s)'
      BY <1>3, <1>5, <3>1, <3>2
    <3> QED BY <2>1, <2>2, <3>2, <3>7, <3>8, <3>9 DEF ForwardOf
  <2> QED BY <2>3, <2>4
<1> QED BY <1>4, <1>5

LEMMA TakeForward ==
  ASSUME StateType, Core, Bounds, NEW s \in Ids, ForwardOf(s), NEW t \in Threads, TakeMessage(t)
  PROVE  ForwardOf(s)'
<1>1. PICK r : r = handler[t].id
  OBVIOUS
<1>2. UNCHANGED <<saved, saver, load>> /\ CanWrite(r)
  BY <1>1 DEF TakeMessage
<1>3. /\ HandlerGoes(t, r, "append") /\ r \in Ids /\ handler[t].step = "found"
      /\ ctx'[r].summary = counts.stored + 1
      /\ chain'[r] = IF chain[r] = NoChain THEN <<>> ELSE chain[r]
  BY <1>1, TakeType DEF HandlerGoes
<1>4. CASE s # r
  <2>1. ctx'[s] = ctx[s] /\ chain'[s] = chain[s]
    BY <1>3, <1>4 DEF HandlerGoes
  <2>2. \A u \in Threads : Appending(u, s)' <=> Appending(u, s)
    BY <1>1, <1>3, <1>4 DEF HandlerGoes, HandlerOnly, Appending
  <2> QED BY <1>2, <2>1, <2>2, SameForward DEF SavesIn, Rebuilding
<1>5. CASE s = r
  <2>1. /\ Appending(t, s)' /\ \A v \in Savers : ~SavesIn(v, s, "set")'
    BY <1>2, <1>3, <1>5, LockFree DEF CanWrite, HandlerGoes, Appending, SavesIn
  <2>2. /\ HasMessage(s)' => HasMessage(s) /\ chain'[s] = chain[s] /\ Newest(s)' = Newest(s)
        /\ HasMessage(s) => HasMessage(s)' /\ chain'[s] = chain[s] /\ Newest(s)' = Newest(s)
    BY <1>3, <1>5 DEF HasMessage, Newest
  <2>3. HasMessage(s) => Newest(s) <= counts.stored + 1
    BY NewestType, NumberTypes
  <2>4. /\ saved[s] # None => saved[s].summary <= counts.stored + 1
        /\ load.last <= counts.stored + 1
    BY NumberTypes DEF Bounds, Within
  <2>5. HasMessage(s)' /\ saved'[s] # None => saved'[s].summary <= Newest(s)'
    BY <1>2, <2>2 DEF ForwardOf
  <2>6. Rebuilding(s)' =>
          /\ HasMessage(s)' /\ load'.at.length <= Len(chain'[s]) /\ load'.last <= Newest(s)'
          /\ load'.at.length = Len(chain'[s]) => load'.last = Newest(s)'
    BY <1>2, <2>2 DEF ForwardOf, Rebuilding
  <2> QED BY <1>2, <1>3, <1>5, <2>1, <2>2, <2>3, <2>4, <2>5, <2>6 DEF ForwardOf
<1> QED BY <1>4, <1>5

LEMMA SavingForward ==
  ASSUME StateType, Core, NEW s \in Ids, ForwardOf(s), NEW v \in Savers, Snapshot(v) \/ SetKey(v)
  PROVE  ForwardOf(s)'
<1>1. PICK r : r = saver[v].id
  OBVIOUS
<1>2. UNCHANGED <<ctx, chain, handler, load>>
  BY DEF Snapshot, SetKey
<1>3. /\ HasMessage(s)' <=> HasMessage(s)
      /\ Newest(s)' = Newest(s) /\ (Rebuilding(s)' <=> Rebuilding(s))
      /\ \A t \in Threads : Appending(t, s)' <=> Appending(t, s)
  BY <1>2 DEF HasMessage, Newest, Rebuilding, Appending
<1>4. CASE Snapshot(v)
  <2>1. UNCHANGED saved
    BY <1>4 DEF Snapshot
  <2>2. /\ SaverOnly(v) /\ CanRead(r) /\ saver'[v].id = r /\ saver'[v].data = ctx[r]
    BY <1>1, <1>4, SnapshotType
  <2>3. HasMessage(s) => \A w \in Savers : SavesIn(w, s, "set")' => saver'[w].data.summary <= Newest(s)
    <3> SUFFICES ASSUME HasMessage(s), NEW w \in Savers, SavesIn(w, s, "set")'
                 PROVE  saver'[w].data.summary <= Newest(s)
      OBVIOUS
    <3>1. CASE w = v
      <4>1. r = s /\ saver'[w].data = ctx[s]
        BY <2>2, <3>1 DEF SavesIn
      <4>2. \A t \in Threads : ~Appending(t, s)
        BY <2>2, <4>1, LockFree
      <4> QED BY <4>1, <4>2 DEF ForwardOf
    <3>2. CASE w # v
      BY <2>2, <3>2 DEF SaverOnly, SavesIn, ForwardOf
    <3> QED BY <3>1, <3>2
  <2> QED BY <1>2, <1>3, <2>1, <2>3 DEF ForwardOf
<1>5. CASE SetKey(v)
  <2>1. /\ SaverOnly(v) /\ r \in Ids /\ saver[v].step = "set"
        /\ \A q \in Ids : q # r => saved'[q] = saved[q]
        /\ saved'[r] = saver[v].data \/ saved' = saved
        /\ saver'[v].step # "set"
    BY <1>1, <1>5, SetKeyType, NoneIsNew
  <2>2. \A w \in Savers : SavesIn(w, s, "set")' => SavesIn(w, s, "set") /\ saver'[w] = saver[w]
    BY <2>1 DEF SavesIn, SaverOnly
  <2>3. SavesIn(v, r, "set")
    BY <1>1, <2>1 DEF SavesIn
  <2>4. HasMessage(s) /\ saved'[s] # None => saved'[s].summary <= Newest(s)
    <3>1. CASE saved'[s] = saved[s]
      BY <3>1 DEF ForwardOf
    <3>2. CASE s = r /\ saved'[s] = saver[v].data
      BY <2>3, <3>2 DEF ForwardOf
    <3> QED BY <2>1, <3>1, <3>2
  <2>5. ASSUME NEW t \in Threads, Appending(t, s)
        PROVE  saved'[s] # None => saved'[s].summary <= ctx[s].summary
    <3>1. s # r
      BY <2>3, <2>5, LockAlone DEF Appending, Holds
    <3> QED BY <2>1, <2>5, <3>1 DEF ForwardOf
  <2> QED BY <1>2, <1>3, <2>2, <2>4, <2>5 DEF ForwardOf
<1> QED BY <1>4, <1>5

LEMMA LoadingForward ==
  ASSUME StateType, Core, NEW s \in Ids, ForwardOf(s),
         RebuildSummary \/ \E r \in Ids : LoadSession(r) \/ ReadLast(r)
  PROVE  ForwardOf(s)'
<1>1. UNCHANGED <<saved, chain, handler, saver>>
  BY DEF RebuildSummary, LoadSession, ReadLast
<1>2. /\ HasMessage(s)' <=> HasMessage(s)
      /\ Newest(s)' = Newest(s)
      /\ \A t \in Threads : Appending(t, s)' <=> Appending(t, s)
      /\ \A v \in Savers : SavesIn(v, s, "set")' <=> SavesIn(v, s, "set")
  BY <1>1 DEF HasMessage, Newest, Appending, SavesIn
<1>3. ASSUME \A t \in Threads : ~Appending(t, s), ~Rebuilding(s)',
             \/ saved[s] # None /\ ctx'[s].summary = saved[s].summary
             \/ Rebuilding(s) /\ ctx'[s].summary = load.last
      PROVE  ForwardOf(s)'
  BY <1>1, <1>2, <1>3 DEF ForwardOf
<1>4. ASSUME ctx'[s].summary = ctx[s].summary, ~Rebuilding(s)' PROVE ForwardOf(s)'
  BY <1>1, <1>4, SameForward DEF Appending
<1>5. ASSUME NEW r \in Ids, LoadSession(r) PROVE ForwardOf(s)'
  <2>1. /\ load.step = "load" /\ load'.step = "load" /\ load.at = None /\ r \in load.todo
        /\ \A q \in Ids : q # r => ctx'[q] = ctx[q]
        /\ IF saved[r] = None THEN ctx' = ctx ELSE ctx'[r] = saved[r]
    BY <1>5, LoadSessionType
  <2>2. ~Rebuilding(s)'
    BY <2>1 DEF Rebuilding
  <2>3. \A t \in Threads : ~Appending(t, r)
    BY <2>1, NoneIsNew DEF Appending, Core, Phase
  <2>4. CASE s = r /\ saved[r] # None
    <3>1. ctx'[s].summary = saved[s].summary
      BY <2>1, <2>4
    <3> QED BY <1>3, <2>2, <2>3, <2>4, <3>1
  <2>5. CASE s # r \/ saved[r] = None
    BY <1>4, <2>1, <2>2, <2>5
  <2> QED BY <2>4, <2>5
<1>6. CASE RebuildSummary
  <2>1. PICK r : r = load.at.id
    OBVIOUS
  <2>2. /\ r \in Ids /\ CanWrite(r) /\ load.step = "rebuild" /\ load.at # None /\ load'.at = None
        /\ \A q \in Ids : q # r => ctx'[q] = ctx[q]
        /\ ctx'[r].summary = load.last
    BY <1>6, <2>1, RebuildType
  <2>3. ~Rebuilding(s)' /\ Rebuilding(r)
    BY <2>1, <2>2 DEF Rebuilding
  <2>4. \A t \in Threads : ~Appending(t, r)
    BY <2>2, LockFree DEF CanWrite
  <2>5. CASE s = r
    BY <1>3, <2>2, <2>3, <2>4, <2>5
  <2>6. CASE s # r
    BY <1>4, <2>2, <2>3, <2>6
  <2> QED BY <2>5, <2>6
<1>7. ASSUME NEW r \in Ids, ReadLast(r) PROVE ForwardOf(s)'
  <2>1. UNCHANGED ctx
    BY <1>7 DEF ReadLast
  <2>2. /\ load.at = None
        /\ IF HasMessage(r)
           THEN /\ load'.last = Newest(r) /\ load'.at \in Loaded
                /\ load'.at.id = r /\ load'.at.length = Len(chain[r])
           ELSE load'.at = None
    BY <1>7, ReadLastType DEF Newest
  <2>3. CASE ~Rebuilding(s)'
    BY <1>4, <2>1, <2>3
  <2>4. CASE Rebuilding(s)'
    <3>1. s = r /\ HasMessage(s) /\ load'.last = Newest(s) /\ load'.at.length = Len(chain[s])
      BY <2>2, <2>4 DEF Rebuilding
    <3>2. Len(chain[s]) \in Nat /\ Newest(s) \in Nat
      <4>1. chain[s] \in Seq(Nat) /\ Len(chain[s]) \in 1..Len(chain[s])
        BY <3>1, NumberTypes, EmptySeq DEF HasMessage
      <4> QED BY <4>1, NumberTypes DEF Newest, Last
    <3> QED BY <1>1, <1>2, <2>1, <3>1, <3>2 DEF ForwardOf
  <2> QED BY <2>3, <2>4
<1> QED BY <1>5, <1>6, <1>7

LEMMA StepForward ==
  ASSUME StateType, Core, Bounds, Forward, counts'.lost = 0, [Next]_vars
  PROVE  Forward'
<1> SUFFICES ASSUME NEW s \in Ids, ForwardOf(s) PROVE ForwardOf(s)'
  BY DEF Forward
<1>1. CASE Aside
  <2>1. Quiet
    BY <1>1, AsideQuiet
  <2>2. Rebuilding(s) => ~BeingDeleted(s)
    BY DEF Core, Phase, Rebuilding, BeingDeleted
  <2>3. \A v \in Savers : SavesIn(v, s, "set")' => saver'[v] = saver[v]
    BY <2>1 DEF Quiet, SavesIn
  <2>4. Rebuilding(s)' => load' = load
    BY <2>1 DEF Quiet, Rebuilding
  <2> QED BY <2>1, <2>2, <2>3, <2>4, SameForward DEF Quiet
<1>2. CASE Crash
  <2>1. /\ ctx'[s] = NewContext /\ load'.step = "load" /\ UNCHANGED <<saved, chain>>
        /\ \A t \in Threads : handler'[t] = None
        /\ \A v \in Savers : saver'[v] = None
    <3>1. chain' = chain
      BY <1>2, CrashType DEF ChainsDamaged
    <3> QED BY <1>2, <3>1, CrashType DEF Crash
  <2>2. HasMessage(s)' <=> HasMessage(s)
    BY <2>1 DEF HasMessage
  <2>3. HasMessage(s) => Newest(s) \in Nat /\ Newest(s)' = Newest(s)
    BY <2>1, NewestType DEF Newest
  <2>4. /\ \A t \in Threads : ~Appending(t, s)'
        /\ \A v \in Savers : ~SavesIn(v, s, "set")'
        /\ ~Rebuilding(s)'
    BY <2>1, NoneIsNew DEF Appending, SavesIn, Rebuilding
  <2>5. HasMessage(s)' => ctx'[s].summary <= Newest(s)'
    BY <2>1, <2>2, <2>3 DEF NewContext
  <2>6. HasMessage(s)' /\ saved'[s] # None => saved'[s].summary <= Newest(s)'
    BY <2>1, <2>2, <2>3 DEF ForwardOf
  <2> QED BY <2>4, <2>5, <2>6 DEF ForwardOf
<1>3. ASSUME NEW r \in Ids, CreateSession(r) PROVE ForwardOf(s)'
  <2>1. UNCHANGED <<saved, chain, handler, saver, load>> /\ r \notin created
    BY <1>3 DEF CreateSession
  <2>2. CASE r # s
    <3>1. ctx'[s] = ctx[s]
      BY <1>3, <2>2, CreateType
    <3> QED BY <2>1, <3>1, SameForward DEF Appending, SavesIn, Rebuilding
  <2>3. CASE r = s
    <3>1. /\ ~HasMessage(s)' /\ ~HasMessage(s)
          /\ \A t \in Threads : ~Appending(t, s)'
      BY <2>1, <2>3, NoneIsNew DEF Core, Known, HasMessage, Appending
    <3>2. ~Rebuilding(s)'
      BY <2>1, <3>1 DEF ForwardOf, Rebuilding
    <3> QED BY <3>1, <3>2 DEF ForwardOf
  <2> QED BY <2>2, <2>3
<1> QED BY <1>1, <1>2, <1>3, TakeForward, AppendForward, SavingForward, LoadingForward, NextCases

LEMMA BackOnlyInRebuild ==
  ASSUME StateType, Core, Bounds, Forward, [Next]_vars, NEW s \in sessions \cap sessions',
         ctx'[s].summary < ctx[s].summary
  PROVE  load.step = "rebuild" /\ Len(chain[s]) > load.at.length
<1>1. s \in Ids /\ s \in sessions /\ s \in sessions' /\ ctx[s].summary \in Nat
  BY NumberTypes DEF StateType
<1>2. ASSUME ctx'[s].summary = ctx[s].summary PROVE FALSE
  BY <1>1, <1>2
<1>3. CASE Aside
  BY <1>1, <1>2, <1>3, AsideQuiet DEF Quiet
<1>4. CASE Crash
  BY <1>1, <1>4 DEF Crash
<1>5. ASSUME NEW r \in Ids, CreateSession(r) PROVE FALSE
  <2>1. r # s
    BY <1>1, <1>5 DEF CreateSession, Core, Known
  <2> QED BY <1>1, <1>2, <1>5, <2>1, CreateType
<1>6. ASSUME NEW r \in Ids, LoadSession(r) PROVE FALSE
  <2>1. r # s
    BY <1>1, <1>6, LoadSessionType DEF Core, Phase
  <2> QED BY <1>1, <1>2, <1>6, <2>1, LoadSessionType
<1>7. ASSUME NEW r \in Ids, ReadLast(r) PROVE FALSE
  BY <1>2, <1>7 DEF ReadLast
<1>8. ASSUME NEW v \in Savers, Snapshot(v) \/ SetKey(v) PROVE FALSE
  BY <1>2, <1>8 DEF Snapshot, SetKey
<1>9. ASSUME NEW t \in Threads, TakeMessage(t) PROVE FALSE
  <2>1. PICK r : r = handler[t].id
    OBVIOUS
  <2>2. /\ r # s => ctx'[s] = ctx[s]
        /\ ctx'[r].summary = counts.stored + 1
    BY <1>1, <1>9, <2>1, TakeType DEF HandlerGoes
  <2>3. ctx[s].summary <= counts.stored /\ counts.stored \in Nat
    BY <1>1, NumberTypes DEF Bounds, Within
  <2> QED BY <1>1, <1>2, <2>2, <2>3
<1>10. ASSUME NEW t \in Threads, AppendMessage(t) PROVE FALSE
  <2>1. PICK r : r = handler[t].id
    OBVIOUS
  <2>2. /\ r # s => ctx'[s] = ctx[s]
        /\ ctx'[r].summary = ctx[r].summary
    BY <1>1, <1>10, <2>1, AppendType DEF HandlerGoes
  <2> QED BY <1>1, <1>2, <2>2
<1>11. CASE RebuildSummary
  <2>1. PICK r : r = load.at.id
    OBVIOUS
  <2>2. /\ r \in Ids /\ CanWrite(r) /\ load.step = "rebuild" /\ load.at # None
        /\ r # s => ctx'[s] = ctx[s]
        /\ ctx'[r].summary = load.last
    BY <1>1, <1>11, <2>1, RebuildType
  <2>3. r = s /\ load.last < ctx[s].summary
    BY <1>2, <2>2
  <2>4. /\ HasMessage(s) /\ load.at.length <= Len(chain[s])
        /\ load.at.length = Len(chain[s]) => load.last = Newest(s)
    BY <2>1, <2>2, <2>3 DEF Forward, ForwardOf, Rebuilding
  <2>5. ctx[s].summary <= Newest(s)
    <3>1. \A t \in Threads : ~Appending(t, s)
      BY <2>2, <2>3, LockFree DEF CanWrite
    <3> QED BY <1>1, <2>4, <3>1 DEF Forward, ForwardOf
  <2>6. load.at.length \in Nat /\ Len(chain[s]) \in Nat
    BY <1>1, <2>2, NumberTypes, LoadType DEF StateType, Core, Phase
  <2>7. load.last \in Nat /\ Newest(s) \in Nat
    BY <1>1, <2>4, NumberTypes, NewestType
  <2>8. load.at.length # Len(chain[s])
    BY <1>1, <2>3, <2>4, <2>5, <2>7
  <2> QED BY <2>2, <2>4, <2>6, <2>8
<1> QED BY <1>3, <1>4, <1>5, <1>6, <1>7, <1>8, <1>9, <1>10, <1>11, NextCases

\* As long as no append is refused and no file of a chain lost, the summary of a session
\* goes back only where RebuildSummary is overtaken by a result that was stored after it
\* read the newest message.
THEOREM SummariesGoForward == Spec => SummaryGoesForward
<1> DEFINE FInv == Bounds /\ (counts.lost = 0 => Forward)
<1>1. Init => FInv
  <2> SUFFICES ASSUME Init PROVE Forward
    BY InitBounds
  <2>1. /\ \A s \in Ids : chain[s] = NoChain
        /\ \A t \in Threads : handler[t] = None
        /\ load.step = "serving"
    BY ServingType DEF Init
  <2> QED BY <2>1, NoneIsNew DEF Forward, ForwardOf, HasMessage, Appending, Rebuilding
<1>2. StateType /\ Core /\ FInv /\ [Next]_vars => FInv'
  <2> SUFFICES ASSUME StateType, Core, FInv, [Next]_vars PROVE FInv'
    OBVIOUS
  <2>1. ASSUME counts'.lost = 0 PROVE Forward'
    <3>1. counts.lost = 0
      BY <2>1, CountsGrow
    <3> QED BY <2>1, <3>1, StepForward
  <2> QED BY <2>1, StepBounds
<1>3. StateType /\ Core /\ FInv /\ [Next]_vars =>
        [\A s \in sessions \cap sessions' :
           ctx'[s].summary < ctx[s].summary /\ counts.lost = 0 =>
             load.step = "rebuild" /\ Len(chain[s]) > load.at.length]_vars
  BY BackOnlyInRebuild
<1> QED BY <1>1, <1>2, <1>3, Invariance, PTL DEF Spec, SummaryGoesForward

-----------------------------------------------------------------------------
(* Calls without a response and the tasks that will bring one:             *)
(* OpenCallsAwaited.                                                       *)

Open(calls, c) == {i \in DOMAIN calls : calls[i].cat = c /\ ~calls[i].done}
Of(T, s, c)    == {k \in T : k.id = s /\ k.cat = c}

\* The listener handles a result of c, and has not yet written it to a call.
Arrived(s, c) ==
  /\ handler[Listener].step \in {"found", "append"}
  /\ handler[Listener].from.id = s /\ handler[Listener].from.cat = c

Arriving(s, c) == IF Arrived(s, c) THEN 1 ELSE 0

\* Each call has a number of its own: that of a task, or of a handler that will make
\* it a task.  The calls of a handler are of different agents.
NumberedApart(t) ==
  \A i \in DOMAIN handler[t].calls :
    /\ handler[t].calls[i].no <= counts.tasks
    /\ \A k \in tasks : k.no # handler[t].calls[i].no
    /\ \A j \in DOMAIN handler[t].calls : handler[t].calls[i].cat = handler[t].calls[j].cat => i = j
    /\ \A u \in Threads : handler[u] # None /\ u # t =>
         \A j \in DOMAIN handler[u].calls : handler[t].calls[i].no # handler[u].calls[j].no

FromCall(h) == h.from # None /\ h.from.id = h.id

Numbers ==
  /\ IsFiniteSet(tasks)
  /\ \A k \in tasks : k.no <= counts.tasks
  /\ \A t \in Threads : handler[t] # None => NumberedApart(t)
  /\ handler[Listener] # None /\ counts.misses = 0 => FromCall(handler[Listener])

AwaitedIn(s) ==
  \A c \in Agents : Cardinality(Open(ctx[s].calls, c))
                      <= Cardinality(Of(tasks, s, c)) + Arriving(s, c)

\* Every task sent ends with a result that answers a call.
Faultless == counts.crashes = 0 /\ counts.failures = 0 /\ counts.misses = 0

Awaited == Faultless => \A s \in sessions : AwaitedIn(s)

\* A finite set of positions has a last one.
LEMMA LastExists ==
  ASSUME NEW n \in Nat, NEW S \in SUBSET (1..n), S # {}
  PROVE  \E x \in S : \A y \in S : y <= x
<1>1. IsFiniteSet(S)
  <2>1. IsFiniteSet(1..n)
    BY FS_Interval
  <2> QED BY <2>1, FS_Subset
<1> DEFINE Above(x) == {y \in S : y > x}
           T == {Above(x) : x \in S}
<1>2. T \subseteq FiniteSubsetsOf(S) /\ T # {}
  <2>1. \A x \in S : IsFiniteSet(Above(x))
    BY <1>1, FS_Subset
  <2> QED BY <2>1 DEF FiniteSubsetsOf
<1>3. IsWellFoundedOn(StrictSubsetOrdering(S), FiniteSubsetsOf(S))
  BY FS_StrictSubsetOrderingWellFounded
<1>4. PICK A \in T : \A B \in T : <<B, A>> \notin StrictSubsetOrdering(S)
  <2> HIDE DEF T
  <2> QED BY <1>2, <1>3, WFMin
<1>5. PICK x \in S : A = Above(x)
  BY <1>4
<1>6. ASSUME NEW y \in S, y > x PROVE FALSE
  <2>1. Above(y) \subseteq Above(x) /\ y \in Above(x) /\ y \notin Above(y)
    <3>1. \A z \in S : z \in Int
      OBVIOUS
    <3>2. ASSUME NEW z \in S, z > y PROVE z > x
      BY <1>6, <3>1, <3>2
    <3>3. ~(y > y)
      BY <3>1
    <3> QED BY <1>6, <3>2, <3>3
  <2>2. <<Above(y), Above(x)>> \in StrictSubsetOrdering(S)
    BY <2>1 DEF StrictSubsetOrdering
  <2> QED BY <1>4, <1>5, <2>2
<1> QED BY <1>6

LEMMA OpenType ==
  ASSUME NEW calls \in Seq(Call), NEW c
  PROVE  /\ Open(calls, c) \in SUBSET (1..Len(calls)) /\ Len(calls) \in Nat
         /\ IsFiniteSet(Open(calls, c)) /\ Cardinality(Open(calls, c)) \in Nat
<1>1. Open(calls, c) \in SUBSET (1..Len(calls)) /\ Len(calls) \in Nat
  BY LenProperties DEF Open
<1>2. IsFiniteSet(1..Len(calls))
  BY <1>1, FS_Interval
<1> QED BY <1>1, <1>2, FS_Subset, FS_CardinalityType

LEMMA OfType ==
  ASSUME NEW T, IsFiniteSet(T), NEW U \in SUBSET T, NEW s, NEW c
  PROVE  /\ Of(U, s, c) \subseteq Of(T, s, c)
         /\ IsFiniteSet(Of(T, s, c)) /\ Cardinality(Of(T, s, c)) \in Nat
         /\ IsFiniteSet(Of(U, s, c)) /\ Cardinality(Of(U, s, c)) \in Nat
         /\ Cardinality(Of(U, s, c)) <= Cardinality(Of(T, s, c))
<1>1. Of(T, s, c) \in SUBSET T /\ Of(U, s, c) \in SUBSET Of(T, s, c)
  BY DEF Of
<1> QED BY <1>1, FS_Subset, FS_CardinalityType

\* A response closes the newest open call of its agent, and opens none.
LEMMA AnsweredCloses ==
  ASSUME NEW calls \in Seq(Call), NEW from, NEW c
  PROVE  /\ Cardinality(Open(Answered(calls, from), c)) <= Cardinality(Open(calls, c))
         /\ from # None /\ from.cat = c =>
              \/ Cardinality(Open(Answered(calls, from), c)) = 0
              \/ Cardinality(Open(Answered(calls, from), c)) <= Cardinality(Open(calls, c)) - 1
<1> DEFINE open == {i \in DOMAIN calls : from # None /\ calls[i].cat = from.cat /\ ~calls[i].done}
<1>1. CASE open = {}
  <2>1. Answered(calls, from) = calls
    BY <1>1 DEF Answered
  <2>2. from # None /\ from.cat = c => Open(calls, c) = {}
    BY <1>1 DEF Open
  <2> QED BY <2>1, <2>2, OpenType, FS_EmptySet
<1>2. CASE open # {}
  <2>1. open \in SUBSET (1..Len(calls)) /\ Len(calls) \in Nat
    BY LenProperties
  <2>2. PICK k : k = CHOOSE i \in open : \A j \in open : j <= i
    OBVIOUS
  <2>3. k \in open
    <3> HIDE DEF open
    <3>1. \E i \in open : \A j \in open : j <= i
      BY <1>2, <2>1, LastExists
    <3> QED BY <2>2, <3>1
  <2>4. Answered(calls, from) = [calls EXCEPT ![k].done = TRUE]
    BY <1>2, <2>2 DEF Answered
  <2>5. k \in 1..Len(calls) /\ calls[k] \in Call /\ calls[k].cat = from.cat /\ ~calls[k].done /\ from # None
    BY <2>1, <2>3, ElementOfSeq
  <2>6. PICK e : e = [calls[k] EXCEPT !.done = TRUE]
    OBVIOUS
  <2>7. e.cat = calls[k].cat /\ e.done /\ e \in Call
    BY <2>5, <2>6 DEF Call
  <2>8. Answered(calls, from) = [calls EXCEPT ![k] = e]
    BY <2>4, <2>6
  <2>9. Open(Answered(calls, from), c) = Open(calls, c) \ {k}
    <3>1. DOMAIN calls = 1..Len(calls)
      BY LenProperties
    <3>2. \A i \in DOMAIN calls : Answered(calls, from)[i] = IF i = k THEN e ELSE calls[i]
      BY <2>5, <2>8, <3>1
    <3>3. DOMAIN Answered(calls, from) = DOMAIN calls
      BY <2>8
    <3> QED BY <2>7, <3>2, <3>3 DEF Open
  <2>10. c = from.cat => k \in Open(calls, c)
    BY <2>3, <2>5 DEF Open
  <2>11. PICK O, m : O = Open(calls, c) /\ m = Cardinality(O) /\ IsFiniteSet(O) /\ m \in Nat
    BY OpenType
  <2>12. Cardinality(O \ {k}) = IF k \in O THEN m - 1 ELSE m
    BY <2>11, FS_RemoveElement
  <2> QED BY <2>9, <2>10, <2>11, <2>12
<1> QED BY <1>1, <1>2

\* New calls open at most one for each agent.
LEMMA ShownOpens ==
  ASSUME NEW calls \in Seq(Call), NEW new \in Seq(Task), NEW c,
         \A i, j \in DOMAIN new : new[i].cat = new[j].cat => i = j
  PROVE  LET n == Cardinality(Open(calls \o Shown(new), c))
         IN /\ n <= Cardinality(Open(calls, c)) + 1
            /\ (\A i \in DOMAIN new : new[i].cat # c) => n = Cardinality(Open(calls, c))
<1> DEFINE all == calls \o Shown(new)
<1>1. /\ DOMAIN new = 1..Len(new) /\ Len(new) \in Nat /\ Len(calls) \in Nat
      /\ DOMAIN calls = 1..Len(calls)
      /\ Shown(new) \in Seq(Call) /\ Len(Shown(new)) = Len(new)
      /\ \A i \in DOMAIN new : Shown(new)[i].cat = new[i].cat /\ ~Shown(new)[i].done
  BY ShownType, LenProperties
<1>2. /\ DOMAIN all = 1..(Len(calls) + Len(new))
      /\ \A i \in DOMAIN all : all[i] = IF i <= Len(calls) THEN calls[i] ELSE Shown(new)[i - Len(calls)]
  <2>1. PICK w \in Seq(Call) : w = Shown(new) /\ Len(w) = Len(new)
    BY <1>1
  <2>2. /\ calls \o w \in Seq(Call) /\ Len(calls \o w) = Len(calls) + Len(w)
        /\ \A i \in 1..(Len(calls) + Len(w)) :
              (calls \o w)[i] = IF i <= Len(calls) THEN calls[i] ELSE w[i - Len(calls)]
    BY ConcatProperties
  <2>3. DOMAIN (calls \o w) = 1..Len(calls \o w)
    BY <2>2, LenProperties
  <2> QED BY <2>1, <2>2, <2>3
<1> HIDE DEF all
<1>3. \A i \in DOMAIN all : i \notin DOMAIN calls => i - Len(calls) \in DOMAIN new
  BY <1>1, <1>2
<1>4. CASE \A i \in DOMAIN new : new[i].cat # c
  <2>1. ASSUME NEW i \in DOMAIN all, all[i].cat = c PROVE i \in DOMAIN calls /\ all[i] = calls[i]
    <3>1. i \in DOMAIN calls
      BY <1>1, <1>2, <1>3, <1>4, <2>1
    <3> QED BY <1>1, <1>2, <3>1
  <2>2. \A i \in DOMAIN calls : i \in DOMAIN all /\ all[i] = calls[i]
    BY <1>1, <1>2
  <2>3. Open(all, c) = Open(calls, c)
    BY <2>1, <2>2 DEF Open
  <2> QED BY <2>3, OpenType DEF all
<1>5. CASE \E i \in DOMAIN new : new[i].cat = c
  <2>1. PICK i \in DOMAIN new : new[i].cat = c
    BY <1>5
  <2>2. \A j \in DOMAIN new : new[j].cat = c => j = i
    BY <2>1
  <2>3. Open(all, c) = Open(calls, c) \cup {Len(calls) + i}
    <3>1. Len(calls) + i \in DOMAIN all /\ ~(Len(calls) + i <= Len(calls)) /\ (Len(calls) + i) - Len(calls) = i
      BY <1>1, <1>2
    <3>2. Len(calls) + i \in Open(all, c)
      BY <1>1, <1>2, <2>1, <3>1 DEF Open
    <3>3. Open(calls, c) \subseteq Open(all, c)
      BY <1>1, <1>2 DEF Open
    <3>4. ASSUME NEW j \in Open(all, c), j \notin Open(calls, c) PROVE j = Len(calls) + i
      <4>1. j \in DOMAIN all /\ all[j].cat = c
        BY DEF Open
      <4>2. j \notin DOMAIN calls
        BY <1>1, <1>2, <3>4 DEF Open
      <4>3. j - Len(calls) = i
        BY <1>1, <1>2, <1>3, <2>2, <4>1, <4>2
      <4> QED BY <1>1, <1>2, <4>1, <4>3
    <3> QED BY <3>2, <3>3, <3>4
  <2>4. PICK O, n : O = Open(calls, c) /\ n = Cardinality(O) /\ IsFiniteSet(O) /\ n \in Nat
    BY OpenType
  <2>5. Cardinality(O \cup {Len(calls) + i}) = IF Len(calls) + i \in O THEN n ELSE n + 1
    BY <2>4, FS_AddElement
  <2> QED BY <1>5, <2>3, <2>4, <2>5 DEF all
<1> QED BY <1>4, <1>5 DEF all

LEMMA CallsFinite == ASSUME NEW S, NEW q \in Seq(S) PROVE IsFiniteSet(ToSet(q)) /\ \A x \in ToSet(q) : \E i \in DOMAIN q : x = q[i]
<1>1. DOMAIN q = 1..Len(q) /\ Len(q) \in Nat
  BY LenProperties
<1>2. IsFiniteSet(1..Len(q))
  BY <1>1, FS_Interval
<1>3. ToSet(q) = {q[i] : i \in DOMAIN q}
  BY DEF ToSet
<1> DEFINE f == [i \in DOMAIN q |-> q[i]]
<1>4. f \in Surjection(DOMAIN q, ToSet(q))
  BY <1>3 DEF Surjection
<1> HIDE DEF f
<1> QED BY <1>1, <1>2, <1>3, <1>4, FS_Surjection

\* Steps that leave tasks, handlers and calls alone.
Rest ==
  /\ UNCHANGED <<tasks, handler>> /\ sessions' \subseteq sessions
  /\ \A r \in Ids : ctx'[r].calls = ctx[r].calls

LEMMA CallCases ==
  ASSUME StateType, [Next]_vars
  PROVE  \/ Rest \/ Crash
         \/ \E s \in Ids : CreateSession(s) \/ LoadSession(s)
         \/ \E t \in Requests, s \in Ids, m \in SUBSET Cats : SendMessage(t, s, m)
         \/ \E k \in tasks, m \in SUBSET Cats : HandleResult(k, m)
         \/ \E k \in tasks : EndUnanswered(k)
         \/ \E t \in Threads : TakeMessage(t) \/ AppendMessage(t) \/ Dispatch(t)
<1>1. ASSUME NEW s \in Ids, UpdateSessionName(s) PROVE Rest
  <2>1. UNCHANGED <<tasks, handler, sessions>>
    BY <1>1 DEF UpdateSessionName
  <2> QED BY <1>1, <2>1, RenameType DEF Rest, SameCtx, SameData
<1>2. ASSUME NEW s \in Ids, StartDelete(s) \/ ReadLast(s) \/ GetOrCreateChain(s) PROVE Rest
  BY <1>2 DEF StartDelete, ReadLast, GetOrCreateChain, Rest
<1>3. ASSUME Deletion PROVE Rest
  BY <1>3 DEF Deletion, DeleteKey, RemoveFromList, DeleteChain, EndDelete, Rest
<1>4. ASSUME NEW v \in Savers, Saving(v) PROVE Rest
  BY <1>4 DEF Saving, LookUp, Snapshot, SetKey, AddToList, Rest
<1>5. ASSUME RegisterLoaded \/ StartRebuild \/ EndRebuild \/ UNCHANGED vars PROVE Rest
  BY <1>5 DEF RegisterLoaded, StartRebuild, EndRebuild, vars, Rest
<1>6. ASSUME RebuildSummary PROVE Rest
  <2>1. PICK s : s = load.at.id
    OBVIOUS
  <2>2. \A r \in Ids : ctx'[r].calls = ctx[r].calls
    BY <1>6, <2>1, RebuildType
  <2> QED BY <1>6, <2>2 DEF RebuildSummary, Rest
<1> QED
  BY <1>1, <1>2, <1>3, <1>4, <1>5, <1>6 DEF Next, Handling, Loading

-----------------------------------------------------------------------------
(* Calls keep numbers of their own.                                        *)

LEMMA CallTypes ==
  ASSUME StateType
  PROVE  /\ counts.tasks \in Nat /\ tasks \subseteq Task
         /\ \A k \in tasks : k.no \in Nat
         /\ \A t \in Threads : handler[t] # None =>
              /\ handler[t].step # "none"
              /\ handler[t].calls \in Seq(Task)
              /\ \A i \in DOMAIN handler[t].calls :
                   handler[t].calls[i] \in Task /\ handler[t].calls[i].no \in Nat
<1>1. counts.tasks \in Nat /\ tasks \subseteq Task /\ \A k \in tasks : k.no \in Nat
  BY DEF StateType, Counts, Task
<1>2. ASSUME NEW t \in Threads, handler[t] # None
      PROVE  /\ handler[t].step # "none" /\ handler[t].calls \in Seq(Task)
             /\ \A i \in DOMAIN handler[t].calls :
                  handler[t].calls[i] \in Task /\ handler[t].calls[i].no \in Nat
  <2>1. handler[t].step # "none" /\ handler[t].calls \in Seq(Task)
    BY <1>2 DEF StateType, Handled
  <2>2. ASSUME NEW i \in DOMAIN handler[t].calls PROVE handler[t].calls[i] \in Task
    BY <2>1, LenProperties, ElementOfSeq
  <2> QED BY <2>1, <2>2 DEF Task
<1> QED BY <1>1, <1>2

\* Handlers go on with the calls they have, or end; tasks get new numbers.
LEMMA SameNumbers ==
  ASSUME StateType, Numbers, StateType', counts'.tasks >= counts.tasks,
         counts'.misses = 0 => counts.misses = 0,
         IsFiniteSet(tasks'),
         \A k \in tasks' : k \in tasks \/ (counts.tasks < k.no /\ k.no <= counts'.tasks),
         \A t \in Threads : \/ handler'[t] = None
                            \/ /\ handler[t] # None /\ handler'[t].calls = handler[t].calls
                               /\ handler'[t].id = handler[t].id /\ handler'[t].from = handler[t].from
  PROVE  Numbers'
<1>1. counts.tasks \in Nat /\ counts'.tasks \in Nat
  BY CallTypes DEF StateType, Counts
<1>2. \A k \in tasks' : k.no <= counts'.tasks
  BY <1>1, CallTypes DEF Numbers
<1>3. ASSUME NEW t \in Threads, handler'[t] # None PROVE NumberedApart(t)'
  <2>1. handler[t] # None /\ handler'[t].calls = handler[t].calls /\ NumberedApart(t)
    BY <1>3 DEF Numbers
  <2>2. ASSUME NEW i \in DOMAIN handler[t].calls
        PROVE  /\ handler[t].calls[i].no <= counts'.tasks
               /\ \A k \in tasks' : k.no # handler[t].calls[i].no
    <3>1. handler[t].calls[i].no <= counts.tasks /\ handler[t].calls[i].no \in Nat
      BY <2>1, CallTypes DEF NumberedApart
    <3>2. \A k \in tasks : k.no # handler[t].calls[i].no
      BY <2>1 DEF NumberedApart
    <3>3. \A k \in tasks' : k \notin tasks => counts.tasks < k.no /\ k.no \in Nat
      BY DEF StateType, Task
    <3> QED BY <1>1, <3>1, <3>2, <3>3
  <2> QED BY <2>1, <2>2 DEF NumberedApart
<1>4. Listener \in Threads
  BY DEF Threads
<1>5. handler'[Listener] # None /\ counts'.misses = 0 => FromCall(handler'[Listener])
  BY <1>4 DEF Numbers, FromCall
<1> QED BY <1>2, <1>3, <1>5 DEF Numbers

\* A handler starts with calls of new numbers, behind those of new tasks.
LEMMA NewNumbers ==
  ASSUME StateType, Numbers, StateType', IsFiniteSet(tasks'),
         NEW b \in Nat, counts.tasks <= b, b <= counts'.tasks,
         \A k \in tasks' : k \in tasks \/ (counts.tasks < k.no /\ k.no <= b),
         NEW t \in Threads, handler[t] = None, HandlerOnly(t), handler'[t] # None,
         \A i \in DOMAIN handler'[t].calls :
           b < handler'[t].calls[i].no /\ handler'[t].calls[i].no <= counts'.tasks,
         \A i, j \in DOMAIN handler'[t].calls :
           handler'[t].calls[i].cat = handler'[t].calls[j].cat => i = j,
         counts'.misses = 0 => counts.misses = 0,
         t = Listener /\ counts'.misses = 0 => FromCall(handler'[t])
  PROVE  Numbers'
<1>1. counts.tasks \in Nat /\ counts'.tasks \in Nat
  BY CallTypes DEF StateType, Counts
<1>2. \A k \in tasks' : k.no <= b /\ k.no \in Nat
  <2>1. \A k \in tasks' : k.no \in Nat
    BY DEF StateType, Task
  <2> QED BY <1>1, <2>1 DEF Numbers
<1>3. ASSUME NEW i \in DOMAIN handler'[t].calls PROVE handler'[t].calls[i].no \in Nat
  <2>1. handler'[t].calls \in Seq(Task)
    BY DEF StateType, Handled
  <2>2. handler'[t].calls[i] \in Task
    BY <2>1, LenProperties, ElementOfSeq
  <2> QED BY <2>2 DEF Task
<1>4. ASSUME NEW u \in Threads, u # t, handler'[u] # None
      PROVE  /\ handler'[u] = handler[u] /\ NumberedApart(u)
             /\ \A j \in DOMAIN handler[u].calls :
                  /\ handler[u].calls[j].no <= counts.tasks /\ handler[u].calls[j].no \in Nat
                  /\ \A i \in DOMAIN handler'[t].calls : handler'[t].calls[i].no # handler[u].calls[j].no
  <2>1. handler'[u] = handler[u] /\ NumberedApart(u)
    BY <1>4 DEF HandlerOnly, Numbers
  <2>2. ASSUME NEW j \in DOMAIN handler[u].calls
        PROVE  handler[u].calls[j].no <= counts.tasks /\ handler[u].calls[j].no \in Nat
    BY <1>4, <2>1, CallTypes DEF NumberedApart
  <2> QED BY <1>1, <1>3, <2>1, <2>2
<1>5. NumberedApart(t)'
  BY <1>2, <1>3, <1>4 DEF NumberedApart
<1>6. ASSUME NEW u \in Threads, u # t, handler'[u] # None PROVE NumberedApart(u)'
  <2>1. \A j \in DOMAIN handler[u].calls :
          /\ handler[u].calls[j].no <= counts'.tasks
          /\ \A k \in tasks' : k.no # handler[u].calls[j].no
    <3> SUFFICES ASSUME NEW j \in DOMAIN handler[u].calls
                 PROVE  /\ handler[u].calls[j].no <= counts'.tasks
                        /\ \A k \in tasks' : k.no # handler[u].calls[j].no
      OBVIOUS
    <3>1. handler[u].calls[j].no <= counts.tasks /\ handler[u].calls[j].no \in Nat
      BY <1>4, <1>6
    <3>2. \A k \in tasks : k.no # handler[u].calls[j].no
      BY <1>4, <1>6 DEF NumberedApart
    <3> QED BY <1>1, <1>2, <3>1, <3>2
  <2>2. \A j \in DOMAIN handler[u].calls :
          \A x \in Threads : handler'[x] # None /\ x # u =>
            \A i \in DOMAIN handler'[x].calls : handler[u].calls[j].no # handler'[x].calls[i].no
    BY <1>4, <1>6 DEF NumberedApart
  <2> QED BY <1>4, <1>6, <2>1, <2>2 DEF NumberedApart
<1>7. handler'[Listener] # None /\ counts'.misses = 0 => FromCall(handler'[Listener])
  BY DEF Threads, Numbers, HandlerOnly
<1>8. \A k \in tasks' : k.no <= counts'.tasks
  BY <1>1, <1>2
<1> QED BY <1>5, <1>6, <1>7, <1>8 DEF Numbers

\* Calls of session s with numbers above b and up to e, at most one per agent.
CallsOf(q, s, b, e) ==
  /\ \A i \in DOMAIN q : q[i].id = s /\ b < q[i].no /\ q[i].no <= e
  /\ \A i, j \in DOMAIN q : q[i].cat = q[j].cat => i = j

LEMMA NewCalls ==
  ASSUME NEW s \in Ids, NEW m \in SUBSET Cats, NEW n \in Nat
  PROVE  /\ Calls(s, m, n) \in Seq(Task) /\ Cardinality(m) \in Nat
         /\ CallsOf(Calls(s, m, n), s, n, n + Cardinality(m))
<1> DEFINE q == Calls(s, m, n)
<1> HIDE DEF q
<1>1. /\ q \in Seq(Task) /\ Cardinality(m) \in Nat
      /\ \A i, j \in DOMAIN q : q[i].cat = q[j].cat => i = j
  BY CallsType DEF q
<1>2. \A i \in DOMAIN q : i \in 1..Cardinality(m) /\ q[i].id = s /\ q[i].no = n + i
  BY CallsType DEF q
<1>3. CallsOf(q, s, n, n + Cardinality(m))
  BY <1>1, <1>2 DEF CallsOf
<1> QED BY <1>1, <1>3 DEF q

LEMMA ResultNumbers ==
  ASSUME StateType, Core, Numbers, NEW k \in tasks, NEW m \in SUBSET Cats, HandleResult(k, m)
  PROVE  Numbers'
<1>1. PICK n \in Nat : n = Cardinality(m)
  BY ResultType
<1>2. PICK sent : sent = Calls(k.id, m, counts.tasks)
  OBVIOUS
<1>3. /\ StateType' /\ HandlerOnly(Listener) /\ k \in Task /\ counts.tasks \in Nat
      /\ tasks' \subseteq (tasks \ {k}) \cup ToSet(sent) /\ counts'.tasks = counts.tasks + 2 * n
      /\ handler[Listener] = None /\ (counts'.misses = 0 => counts.misses = 0)
  <2>1. handler[Listener] = None
    BY DEF HandleResult
  <2>2. tasks' \subseteq (tasks \ {k}) \cup ToSet(sent)
    BY <1>2, ResultType DEF ForAgents
  <2> QED BY <1>1, <2>1, <2>2, ResultType, CallTypes
<1>4. k.id \in Ids /\ k # None
  BY <1>3, NoneIsNew DEF Task
<1>5. /\ sent \in Seq(Task)
      /\ \A i \in DOMAIN sent : counts.tasks < sent[i].no /\ sent[i].no <= counts.tasks + n
  <2>1. PICK s \in Ids, b \in Nat : s = k.id /\ b = counts.tasks
    BY <1>3, <1>4
  <2>2. sent = Calls(s, m, b)
    BY <1>2, <2>1
  <2>3. sent \in Seq(Task) /\ CallsOf(sent, s, b, b + Cardinality(m))
    BY <2>2, NewCalls
  <2> QED BY <1>1, <2>1, <2>3 DEF CallsOf
<1>6. IsFiniteSet(tasks') /\ \A x \in ToSet(sent) : counts.tasks < x.no /\ x.no <= counts.tasks + n
  <2>1. IsFiniteSet(tasks \ {k}) /\ IsFiniteSet(ToSet(sent))
    BY <1>5, CallsFinite, FS_RemoveElement DEF Numbers
  <2>2. IsFiniteSet(tasks')
    <3>1. IsFiniteSet((tasks \ {k}) \cup ToSet(sent))
      BY <2>1, FS_Union
    <3> QED BY <1>3, <3>1, FS_Subset
  <2>3. \A x \in ToSet(sent) : \E i \in DOMAIN sent : x = sent[i]
    BY <1>5, CallsFinite
  <2> QED BY <1>3, <1>5, <2>2, <2>3
<1>7. CASE k.id \notin sessions
  <2>1. handler' = handler
    BY <1>7, ResultType
  <2>2. \A x \in tasks' : x \in tasks \/ (counts.tasks < x.no /\ x.no <= counts'.tasks)
    <3>1. ASSUME NEW x \in ToSet(sent), x \in tasks' PROVE counts.tasks < x.no /\ x.no <= counts'.tasks
      <4>1. x.no \in Int
        BY <1>3, <3>1 DEF StateType, Task
      <4> QED BY <1>1, <1>3, <1>6, <4>1
    <3> QED BY <1>3, <3>1
  <2> QED BY <1>1, <1>3, <1>6, <2>1, <2>2, SameNumbers
<1>8. CASE k.id \in sessions
  <2>1. PICK new : new = Calls(k.id, m, counts.tasks + n)
    OBVIOUS
  <2>2. /\ handler'[Listener] \in Handled /\ handler'[Listener].id = k.id
        /\ counts'.misses = 0 => handler'[Listener].from = k
        /\ handler'[Listener].calls = new
    BY <1>1, <1>8, <2>1, ResultType
  <2>3. /\ \A i \in DOMAIN new : counts.tasks + n < new[i].no /\ new[i].no <= (counts.tasks + n) + n
        /\ \A i, j \in DOMAIN new : new[i].cat = new[j].cat => i = j
    <3>1. PICK s \in Ids, b \in Nat : s = k.id /\ b = counts.tasks + n
      BY <1>3, <1>4
    <3>2. new = Calls(s, m, b)
      BY <2>1, <3>1
    <3>3. CallsOf(new, s, b, b + Cardinality(m))
      BY <3>2, NewCalls
    <3> QED BY <1>1, <3>1, <3>3 DEF CallsOf
  <2>4. \A i \in DOMAIN new : counts.tasks + n < new[i].no /\ new[i].no <= counts'.tasks
    <3>1. (counts.tasks + n) + n = counts'.tasks
      BY <1>3
    <3> QED BY <2>3, <3>1
  <2>5. counts.tasks + n \in Nat /\ counts.tasks <= counts.tasks + n /\ counts.tasks + n <= counts'.tasks
    BY <1>3
  <2>6. \A x \in tasks' : x \in tasks \/ (counts.tasks < x.no /\ x.no <= counts.tasks + n)
    BY <1>3, <1>6
  <2>7. Listener \in Threads /\ handler'[Listener] # None
    BY <2>2, NoneIsNew DEF Threads
  <2>8. counts'.misses = 0 => FromCall(handler'[Listener])
    BY <1>4, <2>2 DEF FromCall
  <2> QED BY <1>3, <1>4, <1>6, <2>2, <2>3, <2>4, <2>5, <2>6, <2>7, <2>8, NewNumbers
<1> QED BY <1>7, <1>8

LEMMA SendNumbers ==
  ASSUME StateType, Core, Numbers, NEW t \in Requests, NEW s \in Ids, NEW m \in SUBSET Cats,
         SendMessage(t, s, m)
  PROVE  Numbers'
<1>1. PICK new : new = Calls(s, m, counts.tasks)
  OBVIOUS
<1>2. /\ StateType' /\ HandlerOnly(t) /\ handler'[t] \in Handled /\ handler'[t].calls = new
      /\ counts'.tasks = counts.tasks + Cardinality(m) /\ counts.tasks \in Nat
      /\ tasks' = tasks /\ handler[t] = None /\ t # Listener /\ t \in Threads
      /\ counts'.misses = counts.misses
  <2>1. tasks' = tasks /\ handler[t] = None /\ t # Listener /\ t \in Threads
    BY DEF SendMessage, Threads
  <2> QED BY <1>1, <2>1, SendType, CallTypes
<1>3. /\ Cardinality(m) \in Nat
      /\ \A i \in DOMAIN new : counts.tasks < new[i].no /\ new[i].no <= counts.tasks + Cardinality(m)
      /\ \A i, j \in DOMAIN new : new[i].cat = new[j].cat => i = j
  <2>1. PICK b \in Nat : b = counts.tasks
    BY <1>2
  <2>2. Cardinality(m) \in Nat /\ CallsOf(new, s, b, b + Cardinality(m))
    BY <1>1, <2>1, NewCalls
  <2> QED BY <2>1, <2>2 DEF CallsOf
<1>4. \A i \in DOMAIN new : counts.tasks < new[i].no /\ new[i].no <= counts'.tasks
  BY <1>2, <1>3
<1>5. counts.tasks <= counts.tasks /\ counts.tasks <= counts'.tasks
  BY <1>2, <1>3
<1>6. IsFiniteSet(tasks') /\ handler'[t] # None
  BY <1>2, NoneIsNew DEF Numbers
<1> QED BY <1>2, <1>3, <1>4, <1>5, <1>6, NewNumbers

\* What is sent was a handler's, and this handler ends.
LEMMA DispatchNumbers ==
  ASSUME StateType, Core, Numbers, NEW t \in Threads, Dispatch(t) PROVE Numbers'
<1>1. PICK s : s = handler[t].id
  OBVIOUS
<1>2. PICK new : new = IF s \in orch THEN handler[t].calls ELSE <<>>
  OBVIOUS
<1>3. /\ StateType' /\ MayFail /\ handler[t].step = "dispatch" /\ handler'[t] = None /\ HandlerOnly(t)
      /\ new \in Seq(Task) /\ tasks \subseteq tasks' /\ tasks' \subseteq tasks \cup ToSet(new)
  <2>1. /\ StateType' /\ MayFail /\ handler[t].step = "dispatch" /\ handler'[t] = None
        /\ HandlerOnly(t) /\ new \in Seq(Task)
        /\ tasks \subseteq tasks' /\ tasks' \subseteq tasks \cup ForAgents(ToSet(new))
    BY <1>1, <1>2, DispatchType
  <2> QED BY <2>1 DEF ForAgents
<1>4. handler[t] # None /\ counts'.tasks = counts.tasks /\ counts'.misses = counts.misses
  BY <1>3, NoneIsNew DEF MayFail
<1>5. IsFiniteSet(tasks') /\ \A x \in ToSet(new) : \E i \in DOMAIN handler[t].calls : x = handler[t].calls[i]
  <2>1. IsFiniteSet(ToSet(new)) /\ \A x \in ToSet(new) : \E i \in DOMAIN new : x = new[i]
    BY <1>3, CallsFinite
  <2>2. IsFiniteSet(tasks \cup ToSet(new))
    BY <2>1, FS_Union DEF Numbers
  <2>3. \A i \in DOMAIN new : i \in DOMAIN handler[t].calls /\ new[i] = handler[t].calls[i]
    BY <1>2, ChainType
  <2> QED BY <1>3, <2>1, <2>2, <2>3, FS_Subset
<1>6. \A k \in tasks' : k.no <= counts'.tasks
  BY <1>3, <1>4, <1>5 DEF Numbers, NumberedApart
<1>7. ASSUME NEW u \in Threads, handler'[u] # None PROVE NumberedApart(u)'
  <2>1. u # t /\ handler'[u] = handler[u] /\ NumberedApart(u)
    BY <1>3, <1>7 DEF HandlerOnly, Numbers
  <2>2. \A i \in DOMAIN handler[u].calls : \A k \in tasks' : k.no # handler[u].calls[i].no
    BY <1>3, <1>4, <1>5, <2>1 DEF NumberedApart
  <2>3. \A x \in Threads : handler'[x] # None => handler[x] # None /\ handler'[x] = handler[x]
    BY <1>3 DEF HandlerOnly
  <2> QED BY <1>4, <2>1, <2>2, <2>3 DEF NumberedApart
<1>8. handler'[Listener] # None /\ counts'.misses = 0 => FromCall(handler'[Listener])
  BY <1>3, <1>4 DEF Threads, Numbers, HandlerOnly
<1> QED BY <1>5, <1>6, <1>7, <1>8 DEF Numbers

LEMMA StepNumbers == ASSUME StateType, Core, Numbers, [Next]_vars PROVE Numbers'
<1>1. /\ StateType' /\ counts'.tasks >= counts.tasks /\ IsFiniteSet(tasks)
      /\ counts'.misses = 0 => counts.misses = 0
  BY StepCore, CountsGrow DEF Numbers
<1>2. ASSUME UNCHANGED <<tasks, handler>> PROVE Numbers'
  BY <1>1, <1>2, SameNumbers
<1>3. ASSUME NEW s \in Ids, CreateSession(s) \/ LoadSession(s) PROVE Numbers'
  BY <1>2, <1>3 DEF CreateSession, LoadSession
<1>4. ASSUME Crash PROVE Numbers'
  <2>1. tasks' = tasks /\ \A t \in Threads : handler'[t] = None
    BY <1>4 DEF Crash
  <2> QED BY <1>1, <2>1, SameNumbers
<1>5. ASSUME NEW t \in Threads, TakeMessage(t) \/ AppendMessage(t) PROVE Numbers'
  <2>1. PICK s : s = handler[t].id
    OBVIOUS
  <2>2. tasks' = tasks /\ handler[t].step # "none"
    BY <1>5 DEF TakeMessage, AppendMessage, At
  <2>3. HandlerGoes(t, s, "append") \/ HandlerGoes(t, s, "dispatch")
    BY <1>5, <2>1, TakeType, AppendType
  <2>4. handler[t] # None
    BY <2>2, NoneIsNew
  <2>5. \A u \in Threads : \/ handler'[u] = None
                           \/ /\ handler[u] # None /\ handler'[u].calls = handler[u].calls
                              /\ handler'[u].id = handler[u].id /\ handler'[u].from = handler[u].from
    BY <2>3, <2>4 DEF HandlerGoes, HandlerOnly
  <2> QED BY <1>1, <2>2, <2>5, SameNumbers
<1>6. ASSUME NEW k \in tasks, EndUnanswered(k) PROVE Numbers'
  <2>1. UNCHANGED handler /\ tasks' = tasks \ {k}
    BY <1>6 DEF EndUnanswered
  <2>2. IsFiniteSet(tasks')
    BY <1>1, <2>1, FS_RemoveElement
  <2> QED BY <1>1, <2>1, <2>2, SameNumbers
<1> QED
  BY <1>2, <1>3, <1>4, <1>5, <1>6, CallCases, SendNumbers, ResultNumbers, DispatchNumbers DEF Rest

-----------------------------------------------------------------------------
(* Open calls are awaited.                                                 *)

\* Sessions are loaded after a crash only.
LoadsAfterCrash == load.step # "serving" => counts.crashes # 0

LEMMA StepLoads ==
  ASSUME StateType, LoadsAfterCrash, [Next]_vars PROVE LoadsAfterCrash'
<1> SUFFICES ASSUME counts'.crashes = 0 PROVE load'.step = "serving"
  BY DEF LoadsAfterCrash
<1>1. counts.crashes = 0 /\ ~Crash
  BY CountsGrow
<1>2. load.step = "serving"
  BY <1>1 DEF LoadsAfterCrash
<1>3. ~Loading
  BY <1>2 DEF Loading, LoadSession, ReadLast, RegisterLoaded, StartRebuild, RebuildSummary, EndRebuild
<1>4. ASSUME NEW t \in Threads, Handling(t) PROVE UNCHANGED load
  BY <1>4 DEF Handling, TakeMessage, AppendMessage, Dispatch
<1>5. ASSUME NEW v \in Savers, Saving(v) PROVE UNCHANGED load
  BY <1>5 DEF Saving, LookUp, Snapshot, SetKey, AddToList
<1>6. CASE Deletion
  BY <1>2, <1>6 DEF Deletion, DeleteKey, RemoveFromList, DeleteChain, EndDelete
<1>7. ASSUME NEW s \in Ids, CreateSession(s) \/ UpdateSessionName(s) \/ StartDelete(s) \/ GetOrCreateChain(s)
      PROVE  UNCHANGED load
  BY <1>7 DEF CreateSession, UpdateSessionName, StartDelete, GetOrCreateChain
<1>8. ASSUME NEW k \in tasks, EndUnanswered(k) \/ \E m \in SUBSET Cats : HandleResult(k, m)
      PROVE  UNCHANGED load
  BY <1>8 DEF EndUnanswered, HandleResult
<1>9. ASSUME NEW t \in Requests, NEW s \in Ids, NEW m \in SUBSET Cats, SendMessage(t, s, m)
      PROVE  UNCHANGED load
  BY <1>9 DEF SendMessage
<1> QED BY <1>1, <1>2, <1>3, <1>4, <1>5, <1>6, <1>7, <1>8, <1>9 DEF Next, vars

\* More tasks come, and no call is opened.
LEMMA SameAwaited ==
  ASSUME StateType, Awaited, Faultless, IsFiniteSet(tasks'), tasks \subseteq tasks', NEW s \in sessions,
         ctx'[s].calls = ctx[s].calls, \A c \in Agents : Arrived(s, c) => Arrived(s, c)'
  PROVE  AwaitedIn(s)'
<1> SUFFICES ASSUME NEW c \in Agents
             PROVE  Cardinality(Open(ctx'[s].calls, c))
                      <= Cardinality(Of(tasks', s, c)) + Arriving(s, c)'
  BY DEF AwaitedIn
<1>1. PICK n, x, y : /\ n = Cardinality(Open(ctx[s].calls, c)) /\ x = Cardinality(Of(tasks, s, c))
                     /\ y = Cardinality(Of(tasks', s, c))
  OBVIOUS
<1>2. n \in Nat /\ x \in Nat /\ y \in Nat /\ x <= y
  BY <1>1, OfType, OpenType DEF StateType, Context
<1>3. n <= x + Arriving(s, c)
  BY <1>1 DEF Awaited, AwaitedIn, Faultless
<1>4. Arriving(s, c) \in Nat /\ Arriving(s, c)' \in Nat /\ Arriving(s, c) <= Arriving(s, c)'
  BY DEF Arriving
<1>5. n <= y + Arriving(s, c)'
  BY <1>2, <1>3, <1>4
<1> QED BY <1>1, <1>5

\* The result's task is gone, and the listener has it.
LEMMA ResultAwaited ==
  ASSUME StateType, Core, Numbers, Awaited, Faultless, Numbers',
         Faultless', NEW k \in tasks, NEW m \in SUBSET Cats, HandleResult(k, m), NEW s \in sessions
  PROVE  AwaitedIn(s)'
<1>1. PICK sent : sent = ForAgents(ToSet(Calls(k.id, m, counts.tasks)))
  OBVIOUS
<1>2. /\ handler[Listener] = None /\ UNCHANGED <<sessions, ctx>>
      /\ tasks' = (tasks \ {k}) \cup sent /\ IsFiniteSet(tasks')
  BY <1>1 DEF HandleResult, Numbers
<1>3. \A c : ~Arrived(s, c)
  BY <1>2, NoneIsNew DEF Arrived
<1>4. k.id \in sessions => \A c : Arrived(k.id, c)' <=> k.cat = c
  BY ResultType DEF Arrived, Faultless
<1> SUFFICES ASSUME NEW c \in Agents
             PROVE  Cardinality(Open(ctx'[s].calls, c))
                      <= Cardinality(Of(tasks', s, c)) + Arriving(s, c)'
  BY DEF AwaitedIn
<1>5. PICK A, B, x, y, n :
        /\ A = Of(tasks, s, c) /\ B = Of(tasks', s, c) /\ x = Cardinality(A) /\ y = Cardinality(B)
        /\ n = Cardinality(Open(ctx[s].calls, c))
  OBVIOUS
<1>6. IsFiniteSet(A) /\ IsFiniteSet(B) /\ x \in Nat /\ y \in Nat
  BY <1>2, <1>5, OfType DEF Numbers
<1>7. n \in Nat /\ n <= x
  <2>1. n \in Nat
    BY <1>5, OpenType DEF StateType, Context
  <2>2. n <= x + Arriving(s, c)
    BY <1>5 DEF Awaited, AwaitedIn, Faultless
  <2>3. Arriving(s, c) = 0
    BY <1>3 DEF Arriving
  <2> QED BY <1>6, <2>1, <2>2, <2>3
<1>8. CASE k.id = s /\ k.cat = c
  <2>1. k \in A /\ A \ {k} \subseteq B
    BY <1>2, <1>5, <1>8 DEF Of
  <2>2. Cardinality(A \ {k}) = x - 1
    BY <1>5, <1>6, <2>1, FS_RemoveElement
  <2>3. x - 1 <= y
    BY <1>5, <1>6, <2>1, <2>2, FS_Subset
  <2>4. Arriving(s, c)' = 1
    BY <1>4, <1>8 DEF Arriving
  <2>5. n <= y + 1
    BY <1>6, <1>7, <2>3
  <2> QED BY <1>2, <1>5, <2>4, <2>5
<1>9. CASE ~(k.id = s /\ k.cat = c)
  <2>1. A \subseteq B
    BY <1>2, <1>5, <1>9 DEF Of
  <2>2. x <= y
    BY <1>5, <1>6, <2>1, FS_Subset
  <2>3. Arriving(s, c)' \in Nat
    BY DEF Arriving
  <2>4. n <= y + Arriving(s, c)'
    BY <1>6, <1>7, <2>2, <2>3
  <2> QED BY <1>2, <1>5, <2>4
<1> QED BY <1>8, <1>9

\* The response of the listener closes an open call of its agent.
LEMMA AppendAwaited ==
  ASSUME StateType, Core, Numbers, Awaited, Faultless,
         NEW t \in Threads, AppendMessage(t), NEW s \in sessions
  PROVE  AwaitedIn(s)'
<1>1. PICK r : r = handler[t].id
  OBVIOUS
<1>2. tasks' = tasks /\ IsFiniteSet(tasks) /\ s \in Ids /\ Listener \in Threads
  BY DEF AppendMessage, Numbers, StateType, Threads
<1>3. /\ HandlerGoes(t, r, "dispatch") /\ handler[t].step = "append"
      /\ ctx'[r].calls = Answered(ctx[r].calls, handler[t].from)
  BY <1>1, AppendType
<1>4. t # Listener => handler'[Listener] = handler[Listener]
  BY <1>2, <1>3 DEF HandlerGoes, HandlerOnly
<1>5. t = Listener => handler[t].from # None /\ handler[t].from.id = r
  BY <1>1, <1>3, NoneIsNew DEF Numbers, Faultless, FromCall
<1>6. CASE s # r
  <2>1. ctx'[s].calls = ctx[s].calls
    BY <1>2, <1>3, <1>6 DEF HandlerGoes
  <2>2. \A c \in Agents : Arrived(s, c) => Arrived(s, c)'
    BY <1>4, <1>5, <1>6 DEF Arrived
  <2> QED BY <1>2, <2>1, <2>2, SameAwaited
<1>7. CASE s = r
  <2> SUFFICES ASSUME NEW c \in Agents
               PROVE  Cardinality(Open(ctx'[s].calls, c))
                        <= Cardinality(Of(tasks', s, c)) + Arriving(s, c)'
    BY DEF AwaitedIn
  <2>1. PICK old, from, n, n1, x :
          /\ old = ctx[s].calls /\ from = handler[t].from /\ old \in Seq(Call)
          /\ n = Cardinality(Open(old, c)) /\ n1 = Cardinality(Open(Answered(old, from), c))
          /\ x = Cardinality(Of(tasks, s, c))
    BY <1>2 DEF StateType, Context
  <2>2. n \in Nat /\ n1 \in Nat /\ x \in Nat
    BY <1>2, <2>1, OpenType, AnsweredType, OfType
  <2>3. n1 <= n /\ (from # None /\ from.cat = c => n1 = 0 \/ n1 <= n - 1)
    BY <2>1, AnsweredCloses
  <2>4. n <= x + Arriving(s, c) /\ Arriving(s, c) \in {0, 1} /\ Arriving(s, c)' \in {0, 1}
    <3>1. n <= x + Arriving(s, c)
      BY <2>1 DEF Awaited, AwaitedIn, Faultless
    <3> QED BY <3>1 DEF Arriving
  <2>5. n1 <= x + Arriving(s, c)'
    <3>1. CASE t = Listener
      <4>1. Arriving(s, c) = 1 => from # None /\ from.cat = c
        BY <1>5, <2>1, <3>1 DEF Arriving, Arrived
      <4> QED BY <2>2, <2>3, <2>4, <4>1
    <3>2. CASE t # Listener
      <4>1. Arriving(s, c)' = Arriving(s, c)
        BY <1>4, <3>2 DEF Arriving, Arrived
      <4> QED BY <2>2, <2>3, <2>4, <4>1
    <3> QED BY <3>1, <3>2
  <2> QED BY <1>2, <1>3, <1>7, <2>1, <2>5
<1> QED BY <1>6, <1>7

\* Calls are added to one session only.
LEMMA OthersStay ==
  ASSUME StateType, NEW t \in Threads, Dispatch(t), NEW q \in Ids, q # handler[t].id
  PROVE  ctx'[q] = ctx[q]
<1> DEFINE new == IF handler[t].id \in orch THEN handler[t].calls ELSE <<>>
           e == [ctx[handler[t].id] EXCEPT !.joined = ctx[handler[t].id].joined \cup {k.cat : k \in ToSet(new)},
                                           !.calls = ctx[handler[t].id].calls \o Shown(new)]
<1>1. ctx' = [ctx EXCEPT ![handler[t].id] = e]
  BY DEF Dispatch
<1> HIDE DEF e
<1> QED BY <1>1 DEF StateType

\* Each new call has a new task.
LEMMA DispatchAwaited ==
  ASSUME StateType, Core, Numbers, Awaited, Faultless, Numbers', Faultless',
         NEW t \in Threads, Dispatch(t), NEW s \in sessions
  PROVE  AwaitedIn(s)'
<1>1. PICK r : r = handler[t].id
  OBVIOUS
<1>2. PICK new : new = IF r \in orch THEN handler[t].calls ELSE <<>>
  OBVIOUS
<1>3. /\ r \in Ids /\ handler[t].step = "dispatch" /\ handler'[t] = None /\ HandlerOnly(t)
      /\ \A q \in Ids : q # r => ctx'[q] = ctx[q]
      /\ new \in Seq(Task) /\ ctx'[r].calls = ctx[r].calls \o Shown(new)
      /\ tasks' = tasks \cup ForAgents(ToSet(new))
  <2>1. counts'.failures = 0
    BY DEF Faultless
  <2>2. /\ r \in Ids /\ handler[t].step = "dispatch" /\ handler'[t] = None /\ HandlerOnly(t)
        /\ \A q \in Ids : q # r => ctx'[q] = ctx[q]
        /\ new \in Seq(Task)
    <3>1. r \in Ids /\ handler[t].step = "dispatch" /\ handler'[t] = None /\ HandlerOnly(t)
      BY <1>1, DispatchType
    <3>2. \A q \in Ids : q # r => ctx'[q] = ctx[q]
      BY <1>1, OthersStay
    <3>3. handler[t].calls \in Seq(Task)
      BY HandlerType DEF StateType, Dispatch, At
    <3> QED BY <1>2, <3>1, <3>2, <3>3, EmptySeq
  <2>3. ctx'[r].calls = ctx[r].calls \o Shown(new)
    BY <1>1, <1>2, DispatchType
  <2>4. tasks' = tasks \cup ForAgents(ToSet(new))
    BY <1>1, <1>2, <2>1, DispatchType
  <2> QED BY <2>2, <2>3, <2>4
<1>4. s \in Ids /\ IsFiniteSet(tasks') /\ IsFiniteSet(tasks) /\ Listener \in Threads
  BY DEF StateType, Numbers, Threads
<1>5. \A c \in Agents : Arrived(s, c) => Arrived(s, c)'
  BY <1>3, <1>4 DEF Arrived, HandlerOnly
<1>6. CASE s # r
  BY <1>3, <1>4, <1>5, <1>6, SameAwaited
<1>7. CASE s = r
  <2>1. \A i \in DOMAIN new : i \in DOMAIN handler[t].calls /\ new[i] = handler[t].calls[i]
    BY <1>2, ChainType
  <2>2. handler[t] # None /\ NumberedApart(t)
    BY <1>3, NoneIsNew DEF Numbers
  <2>3. \A i \in DOMAIN new : /\ new[i].id = s /\ new[i] \notin tasks
                              /\ new[i].cat \in Agents => new[i] \in tasks'
    <3>1. \A i \in DOMAIN new : new[i].id = s
      BY <1>1, <1>7, <2>1, <2>2 DEF Core, Known
    <3>2. \A i \in DOMAIN new : new[i] \notin tasks
      BY <2>1, <2>2 DEF NumberedApart
    <3>3. \A i \in DOMAIN new : new[i] \in ToSet(new)
      BY DEF ToSet
    <3> QED BY <1>3, <3>1, <3>2, <3>3 DEF ForAgents
  <2>4. \A i, j \in DOMAIN new : new[i].cat = new[j].cat => i = j
    BY <2>1, <2>2 DEF NumberedApart
  <2> SUFFICES ASSUME NEW c \in Agents
               PROVE  Cardinality(Open(ctx'[s].calls, c))
                        <= Cardinality(Of(tasks', s, c)) + Arriving(s, c)'
    BY DEF AwaitedIn
  <2>5. PICK old, n, n1 :
          /\ old = ctx[s].calls /\ old \in Seq(Call)
          /\ n = Cardinality(Open(old, c)) /\ n1 = Cardinality(Open(old \o Shown(new), c))
    BY <1>4 DEF StateType, Context
  <2>6. PICK A, B, x, y : /\ A = Of(tasks, s, c) /\ B = Of(tasks', s, c)
                          /\ x = Cardinality(A) /\ y = Cardinality(B)
    OBVIOUS
  <2>7. /\ n \in Nat /\ n1 \in Nat /\ x \in Nat /\ y \in Nat /\ IsFiniteSet(A) /\ IsFiniteSet(B)
        /\ x <= y /\ A \subseteq B
    <3>1. n \in Nat /\ x \in Nat /\ y \in Nat /\ IsFiniteSet(A) /\ IsFiniteSet(B) /\ x <= y /\ A \subseteq B
      BY <1>3, <1>4, <2>5, <2>6, OpenType, OfType
    <3>2. old \o Shown(new) \in Seq(Call)
      BY <1>3, <2>5, ShownType, ConcatProperties
    <3> QED BY <2>5, <3>1, <3>2, OpenType
  <2>8. n <= x + Arriving(s, c) /\ Arriving(s, c) \in Nat /\ Arriving(s, c)' \in Nat
        /\ Arriving(s, c) <= Arriving(s, c)'
    <3>1. n <= x + Arriving(s, c)
      BY <2>5, <2>6 DEF Awaited, AwaitedIn, Faultless
    <3> QED BY <1>5, <3>1 DEF Arriving
  <2>9. n1 <= n + 1 /\ ((\A i \in DOMAIN new : new[i].cat # c) => n1 = n)
    BY <1>3, <2>4, <2>5, ShownOpens
  <2>10. ASSUME NEW i \in DOMAIN new, new[i].cat = c PROVE x + 1 <= y
    <3>1. A \cup {new[i]} \subseteq B /\ new[i] \notin A
      BY <2>3, <2>6, <2>7, <2>10 DEF Of
    <3>2. Cardinality(A \cup {new[i]}) = x + 1
      BY <2>6, <2>7, <3>1, FS_AddElement
    <3> QED BY <2>6, <2>7, <3>1, <3>2, FS_Subset
  <2>11. n1 - n <= y - x
    BY <2>7, <2>9, <2>10
  <2>12. n1 <= y + Arriving(s, c)'
    BY <2>7, <2>8, <2>11
  <2> QED BY <1>3, <1>7, <2>5, <2>6, <2>12
<1> QED BY <1>6, <1>7

LEMMA StepAwaited ==
  ASSUME StateType, Core, LoadsAfterCrash, Numbers, Awaited, [Next]_vars PROVE Awaited'
<1> SUFFICES ASSUME Faultless', NEW s \in sessions' PROVE AwaitedIn(s)'
  BY DEF Awaited
<1>1. Faultless /\ ~Crash
  BY CountsGrow DEF Faultless
<1>2. Numbers' /\ IsFiniteSet(tasks') /\ IsFiniteSet(tasks) /\ StateType'
  BY StepNumbers, StepCore DEF Numbers
<1>3. s \in Ids
  BY <1>2 DEF StateType
<1>4. ASSUME NEW u \in Ids, LoadSession(u) PROVE FALSE
  <2>1. load.step = "load"
    BY <1>4 DEF LoadSession
  <2> QED BY <1>1, <2>1 DEF LoadsAfterCrash, Faultless
<1>5. ASSUME Rest PROVE AwaitedIn(s)'
  <2>1. tasks' = tasks /\ s \in sessions /\ ctx'[s].calls = ctx[s].calls
    BY <1>3, <1>5 DEF Rest
  <2>2. \A c \in Agents : Arrived(s, c) => Arrived(s, c)'
    BY <1>5 DEF Rest, Arrived
  <2> QED BY <1>1, <1>2, <2>1, <2>2, SameAwaited
<1>6. ASSUME NEW u \in Ids, CreateSession(u) PROVE AwaitedIn(s)'
  <2>1. UNCHANGED <<tasks, handler>> /\ sessions' = sessions \cup {u}
    BY <1>6 DEF CreateSession
  <2>2. ctx'[u] = NewContext /\ \A r \in Ids : r # u => ctx'[r] = ctx[r]
    BY <1>6, CreateType
  <2>3. CASE s = u
    <3>1. ctx'[s].calls = <<>>
      BY <2>2, <2>3 DEF NewContext
    <3>2. \A c : Open(ctx'[s].calls, c) = {}
      BY <3>1, ChainType DEF Open
    <3>3. \A c : Cardinality(Open(ctx'[s].calls, c)) = 0
      BY <3>2, FS_EmptySet
    <3>4. \A c \in Agents : Cardinality(Of(tasks', s, c)) \in Nat /\ Arriving(s, c)' \in Nat
      BY <1>2, OfType DEF Arriving
    <3> QED BY <3>3, <3>4 DEF AwaitedIn
  <2>4. CASE s # u
    <3>1. s \in sessions /\ ctx'[s].calls = ctx[s].calls
      BY <1>3, <2>1, <2>2, <2>4
    <3>2. \A c \in Agents : Arrived(s, c) => Arrived(s, c)'
      BY <2>1 DEF Arrived
    <3> QED BY <1>1, <1>2, <2>1, <3>1, <3>2, SameAwaited
  <2> QED BY <2>3, <2>4
<1>7. ASSUME NEW t \in Requests, NEW u \in Ids, NEW m \in SUBSET Cats, SendMessage(t, u, m)
      PROVE  AwaitedIn(s)'
  <2>1. UNCHANGED <<sessions, ctx, tasks>> /\ t # Listener /\ t \in Threads /\ Listener \in Threads
    BY <1>7 DEF SendMessage, Threads
  <2>2. handler'[Listener] = handler[Listener]
    BY <1>7, <2>1, SendType DEF HandlerOnly
  <2>3. \A c \in Agents : Arrived(s, c) => Arrived(s, c)'
    BY <2>2 DEF Arrived
  <2> QED BY <1>1, <1>2, <2>1, <2>3, SameAwaited
<1>8. ASSUME NEW k \in tasks, NEW m \in SUBSET Cats, HandleResult(k, m) PROVE AwaitedIn(s)'
  <2>1. s \in sessions
    BY <1>8 DEF HandleResult
  <2> QED BY <1>1, <1>2, <1>8, <2>1, ResultAwaited
<1>9. ASSUME NEW t \in Threads, TakeMessage(t) PROVE AwaitedIn(s)'
  <2>1. PICK r : r = handler[t].id
    OBVIOUS
  <2>2. UNCHANGED <<sessions, tasks>> /\ Listener \in Threads
    BY <1>9 DEF TakeMessage, Threads
  <2>3. /\ HandlerGoes(t, r, "append") /\ handler[t].step = "found"
        /\ ctx'[r].calls = ctx[r].calls
    BY <1>9, <2>1, TakeType
  <2>4. ctx'[s].calls = ctx[s].calls
    BY <1>3, <2>3 DEF HandlerGoes
  <2>5. \A c \in Agents : Arrived(s, c) => Arrived(s, c)'
    BY <2>2, <2>3 DEF Arrived, HandlerGoes, HandlerOnly
  <2> QED BY <1>1, <1>2, <2>2, <2>4, <2>5, SameAwaited
<1>10. ASSUME NEW t \in Threads, AppendMessage(t) PROVE AwaitedIn(s)'
  <2>1. s \in sessions
    BY <1>10 DEF AppendMessage
  <2> QED BY <1>1, <1>10, <2>1, AppendAwaited
<1>11. ASSUME NEW t \in Threads, Dispatch(t) PROVE AwaitedIn(s)'
  <2>1. s \in sessions
    BY <1>11 DEF Dispatch
  <2> QED BY <1>1, <1>2, <1>11, <2>1, DispatchAwaited
<1>12. ASSUME NEW k \in tasks, EndUnanswered(k) PROVE FALSE
  BY <1>12, UnansweredType DEF Faultless
<1> QED
  BY <1>1, <1>4, <1>5, <1>6, <1>7, <1>8, <1>9, <1>10, <1>11, <1>12, CallCases

\* As long as the server lives, Redis does not fail and every task ends with a result
\* that is not empty, no call of an agent stays open for ever: there is a task for it,
\* or a result that has come, of the same agent.
THEOREM CallsAreAwaited == Spec => []OpenCallsAwaited
<1>1. Init => LoadsAfterCrash /\ Numbers /\ Awaited
  <2> SUFFICES ASSUME Init PROVE LoadsAfterCrash /\ Numbers /\ Awaited
    OBVIOUS
  <2>1. /\ sessions = {} /\ load.step = "serving" /\ tasks = {}
        /\ \A t \in Threads : handler[t] = None
    BY ServingType DEF Init
  <2>2. Numbers
    BY <2>1, FS_EmptySet DEF Numbers, Threads
  <2> QED BY <2>1, <2>2 DEF Awaited, LoadsAfterCrash
<1>2. StateType /\ Core /\ LoadsAfterCrash /\ Numbers /\ Awaited /\ [Next]_vars
        => LoadsAfterCrash' /\ Numbers' /\ Awaited'
  BY StepLoads, StepNumbers, StepAwaited
<1>3. Awaited => OpenCallsAwaited
  BY DEF Awaited, AwaitedIn, Faultless, OpenCallsAwaited, Open, Of, Arriving, Arrived
<1> QED BY <1>1, <1>2, <1>3, Invariance, PTL DEF Spec
=============================================================================
