------------------------------ MODULE Sessions ------------------------------
(***************************************************************************)
(* The life of a session in the API server (SessionManager, Orchestrator,  *)
(* session_persistence): requests create, rename and delete it, messages   *)
(* and results change it, goroutines save it to Redis, and after a crash   *)
(* the server loads it again while its result listener already runs.       *)
(*                                                                         *)
(* sm.mu protects the map of sessions; a session's own lock (ctx.mu)       *)
(* protects what messages change in it.  A handler looks the session up    *)
(* under sm.mu, lets go of it and then waits for the session's lock; a     *)
(* deletion holds sm.mu throughout and never asks for the session's lock.  *)
(*                                                                         *)
(* A message is its number; the chain of a session is the sequence of the  *)
(* messages saved in it.  What a chain does is SessionChain's matter, what *)
(* becomes of its files ChainStorage's, and the way of a task between call *)
(* and result TaskStream's: here a message may be lost, and a task may end *)
(* without a result.                                                       *)
(***************************************************************************)
EXTENDS Integers, FiniteSets, SequencesExt

CONSTANTS
  Ids,          \* sessions
  Cats,         \* names that a message may mention
  Agents,       \* those of the agents that the scheduler knows
  Requests,     \* goroutines of the HTTP server that handle messages
  Savers,       \* bound: calls of SaveSession that run at a time
  MaxMessages,  \* bound: messages and results
  MaxTasks,     \* bound: calls of agents
  MaxEvents     \* bound: changes of a name, deaths of the server, failing calls to Redis,
                \* lost messages, calls without an answer

ASSUME CatsType   == IsFiniteSet(Cats) /\ Agents \subseteq Cats
ASSUME BoundsType == {MaxMessages, MaxTasks, MaxEvents} \subseteq Nat

VARIABLES
  sessions,  \* ids in sm.sessions
  orch,      \* ids in the orchestrator's sessions
  ctx,       \* per id: the session in memory (a handler may hold a deleted one)
  saved,     \* per id: the value of session:<id> in Redis
  list,      \* sessions:list in Redis
  chain,     \* per id: its Session Chain
  deletion,  \* the deletion that holds sm.mu, or None
  handler,   \* per goroutine: the message or result it handles, or None
  pending,   \* per id: SaveSession calls that have not looked the session up yet
  saver,     \* the SaveSession calls that have
  load,      \* how far LoadAllSessions is
  tasks,     \* calls of agents whose result has not come
  deleted,   \* ids that DeleteSession removed
  raced,     \* ids that a handler or a save had looked up when they were deleted
  created,   \* ids that CreateSession has given out
  counts     \* messages looked up and stored, tasks, renames, crashes, failures, messages
             \* that a chain lost, tasks without an answer so far

vars == <<sessions, orch, ctx, saved, list, chain, deletion, handler, pending, saver, load,
          tasks, deleted, raced, created, counts>>

\* What the program does not keep.
ghosts == <<created, deleted, raced>>

None     == [step |-> "none"]
Listener == "listener"
Threads  == Requests \cup {Listener}

NewContext == [name |-> 0, summary |-> 0, messages |-> 0, calls |-> <<>>, joined |-> {}]
NoChain    == <<0>>     \* no message has this number
Serving    == [step |-> "serving", todo |-> {}, at |-> None, last |-> 0, changed |-> {}]

Init ==
  /\ sessions = {} /\ orch = {} /\ list = {} /\ tasks = {}
  /\ created = {} /\ deleted = {} /\ raced = {}
  /\ ctx = [s \in Ids |-> NewContext]
  /\ saved = [s \in Ids |-> None]
  /\ chain = [s \in Ids |-> NoChain]
  /\ deletion = None
  /\ handler = [t \in Threads |-> None]
  /\ pending = [s \in Ids |-> 0]
  /\ saver = [v \in Savers |-> None]
  /\ load = Serving
  /\ counts = [messages |-> 0, stored |-> 0, tasks |-> 0, renames |-> 0, crashes |-> 0, failures |-> 0,
                lost |-> 0, misses |-> 0]

Room(what, bound, n) == counts[what] + n <= bound
Count(what, n)       == counts' = [counts EXCEPT ![what] = @ + n]
MayHappen            == counts.renames + counts.crashes + counts.failures + counts.lost
                          + counts.misses < MaxEvents
Event(what)          == MayHappen /\ Count(what, 1)
Fails                == Event("failures")

\* Mutant: DeleteSession lets go of sm.mu while it calls Redis.
MutUnlocked == deletion.step # "unmap"

\* sm.mu is free: only a deletion holds it for more than a step.
Unlocked == deletion = None

\* Mutant: SaveSession lets go of the session's lock before it calls Redis.
MutReads(v, s) == FALSE

\* A session's lock is held by one handler, or by the saves that read.
Holds(t, s) == handler[t].step \in {"append", "dispatch"} /\ handler[t].id = s

Reads(v, s) == saver[v].step \in {"set", "sadd"} /\ saver[v].id = s

CanRead(s) == \A t \in Threads : ~Holds(t, s)

CanWrite(s) == CanRead(s) /\ \A v \in Savers : ~Reads(v, s)

Spawn(S) == pending' = [s \in Ids |-> pending[s] + (IF s \in S THEN 1 ELSE 0)]

-----------------------------------------------------------------------------
(* Requests that take sm.mu.                                               *)

\* CreateSession: one region of sm.mu, and a save after it.  Ids are new.
CreateSession(s) ==
  /\ load.step = "serving" /\ Unlocked
  /\ s \notin created
  /\ created' = created \cup {s}
  /\ sessions' = sessions \cup {s}
  /\ orch' = orch \cup {s}
  /\ ctx' = [ctx EXCEPT ![s] = NewContext]
  /\ Spawn({s})
  /\ UNCHANGED <<saved, list, chain, deletion, handler, saver, load, tasks, deleted, raced,
                 counts>>

\* UpdateSessionName writes to the session under sm.mu alone (handleCreateSession
\* sets the workspace in the same way), and saves.
UpdateSessionName(s) ==
  /\ load.step = "serving" /\ Unlocked /\ s \in sessions
  /\ ctx' = [ctx EXCEPT ![s].name = @ + 1]
  /\ Spawn({s})
  /\ Event("renames")
  /\ UNCHANGED <<sessions, orch, saved, list, chain, deletion, handler, saver, load, tasks,
                 ghosts>>

\* DeleteSession: the orchestrator forgets the session first.
StartDelete(s) ==
  /\ load.step = "serving" /\ Unlocked /\ s \in sessions
  /\ deletion' = [step |-> "del", id |-> s]
  /\ orch' = orch \ {s}
  /\ raced' = IF \/ \E t \in Threads : handler[t] # None /\ handler[t].id = s
                 \/ \E v \in Savers : saver[v] # None /\ saver[v].id = s
              THEN raced \cup {s} ELSE raced
  /\ UNCHANGED <<sessions, ctx, saved, list, chain, handler, pending, saver, load, tasks,
                 deleted, created, counts>>

Deleting(step) == deletion.step = step
GoOn(step)     == deletion' = [deletion EXCEPT !.step = step]

\* Mutant: when Redis fails, DeleteSession returns early.
MutDeleteKey ==
  /\ Deleting("del")
  /\ \/ saved' = [saved EXCEPT ![deletion.id] = None] /\ GoOn("srem") /\ UNCHANGED counts
     \/ saved' = saved /\ deletion' = None /\ Fails
  /\ UNCHANGED <<sessions, orch, ctx, list, chain, handler, pending, saver, load, tasks, ghosts>>

\* DeleteSessionFromRedis: Del, SRem, DeleteChain; an error skips the rest.
DeleteKey ==
  /\ Deleting("del")
  /\ \/ saved' = [saved EXCEPT ![deletion.id] = None] /\ GoOn("srem") /\ UNCHANGED counts
     \/ saved' = saved /\ GoOn("unmap") /\ Fails
  /\ UNCHANGED <<sessions, orch, ctx, list, chain, handler, pending, saver, load, tasks,
                 ghosts>>

RemoveFromList ==
  /\ Deleting("srem")
  /\ \/ list' = list \ {deletion.id} /\ GoOn("chain") /\ UNCHANGED counts
     \/ list' = list /\ GoOn("unmap") /\ Fails
  /\ UNCHANGED <<sessions, orch, ctx, saved, chain, handler, pending, saver, load, tasks,
                 ghosts>>

DeleteChain ==
  /\ Deleting("chain")
  /\ chain' = [chain EXCEPT ![deletion.id] = NoChain]
  /\ GoOn("unmap")
  /\ UNCHANGED <<sessions, orch, ctx, saved, list, handler, pending, saver, load, tasks, ghosts,
                 counts>>

EndDelete ==
  /\ Deleting("unmap")
  /\ sessions' = sessions \ {deletion.id}
  /\ deleted' = deleted \cup {deletion.id}
  /\ deletion' = None
  /\ UNCHANGED <<orch, ctx, saved, list, chain, handler, pending, saver, load, tasks, raced,
                 created, counts>>

-----------------------------------------------------------------------------
(* SendMessage and handleResult.                                           *)

\* The calls that mentions of m lead to, numbered from n on.
Calls(s, m, n) == [i \in 1..Cardinality(m) |-> [no |-> n + i, id |-> s, cat |-> SetToSeq(m)[i]]]

\* SendTask refuses an agent that the scheduler does not know.
ForAgents(calls) == {k \in calls : k.cat \in Agents}

\* SendMessage looks the session up; m are the agents the user mentions.
SendMessage(t, s, m) ==
  /\ t # Listener /\ handler[t] = None
  /\ load.step = "serving" /\ Unlocked /\ s \in sessions
  /\ Room("messages", MaxMessages, 1) /\ Room("tasks", MaxTasks, Cardinality(m))
  /\ counts' = [counts EXCEPT !.messages = @ + 1, !.tasks = @ + Cardinality(m)]
  /\ handler' = [handler EXCEPT ![t] =
       [step |-> "found", id |-> s, from |-> None, calls |-> Calls(s, m, counts.tasks)]]
  /\ UNCHANGED <<sessions, orch, ctx, saved, list, chain, deletion, pending, saver, load, tasks,
                 ghosts>>

\* A task is given up, refused by its worker, or lost with it: no result comes.
EndUnanswered(k) ==
  /\ k \in tasks
  /\ tasks' = tasks \ {k}
  /\ Event("misses")
  /\ UNCHANGED <<sessions, orch, ctx, saved, list, chain, deletion, handler, pending, saver,
                 load, ghosts>>

\* handleResult looks the session of a result up, or refuses the result for ever.
\* The agent mentioned m; its worker has called them already (TaskStream).  The
\* result answers a call unless it is empty: an empty Response is an open one.
HandleResult(k, m) ==
  LET n == Cardinality(m)
  IN \E from \in {k, None} :
     /\ handler[Listener] = None /\ Unlocked
     /\ k \in tasks /\ k.cat \notin m
     /\ from = None => m = {} /\ MayHappen
     /\ tasks' = (tasks \ {k}) \cup ForAgents(ToSet(Calls(k.id, m, counts.tasks)))
     /\ Room("messages", MaxMessages, 1) /\ Room("tasks", MaxTasks, 2 * n)
     /\ counts' = [counts EXCEPT !.messages = @ + 1, !.tasks = @ + 2 * n,
                                 !.misses = IF from = None THEN @ + 1 ELSE @]
     /\ handler' = IF k.id \notin sessions THEN handler ELSE
          [handler EXCEPT ![Listener] =
             [step |-> "found", id |-> k.id, from |-> from,
              calls |-> Calls(k.id, m, counts.tasks + n)]]
     /\ UNCHANGED <<sessions, orch, ctx, saved, list, chain, deletion, pending, saver, load,
                    ghosts>>

\* GetOrCreateChain for whatever id handleGetChainStatus or a worker has.
GetOrCreateChain(s) ==
  /\ chain[s] = NoChain
  /\ chain' = [chain EXCEPT ![s] = <<>>]
  /\ UNCHANGED <<sessions, orch, ctx, saved, list, deletion, handler, pending, saver, load,
                 tasks, ghosts, counts>>

At(t, step) == handler[t].step = step

\* With the session's lock: the message is counted and becomes the summary, and
\* GetOrCreateChain sees to a chain (that it may fail is the loss below).
TakeMessage(t) ==
  LET s == handler[t].id
  IN /\ At(t, "found") /\ CanWrite(s)
     /\ Count("stored", 1)
     /\ ctx' = [ctx EXCEPT ![s] = [@ EXCEPT !.messages = ctx[s].messages + 1,
                                            !.summary = counts.stored + 1]]
     /\ chain' = [chain EXCEPT ![s] = IF @ = NoChain THEN <<>> ELSE @]
     /\ handler' = [handler EXCEPT ![t].step = "append"]
     /\ UNCHANGED <<sessions, orch, saved, list, deletion, pending, saver, load, tasks, ghosts>>

\* Mutant: only the last call is looked at.
MutAnswered(calls, from) ==
  IF from # None /\ calls # <<>> /\ Last(calls).cat = from.cat
  THEN [calls EXCEPT ![Len(calls)].done = TRUE] ELSE calls

\* updateCallHistoryResponse: the newest call of the agent without a response.
Answered(calls, from) ==
  LET open == {i \in DOMAIN calls : from # None /\ calls[i].cat = from.cat /\ ~calls[i].done}
  IN IF open = {} THEN calls
     ELSE [calls EXCEPT ![CHOOSE i \in open : \A j \in open : j <= i].done = TRUE]

\* Mutant: AppendEvent does not notice that the chain is gone.
MutAppendMessage(t) ==
  LET s == handler[t].id
  IN /\ At(t, "append")
     /\ chain' = [chain EXCEPT ![s] = Append(@, ctx[s].summary)]
     /\ ctx' = [ctx EXCEPT ![s].calls = Answered(@, handler[t].from)]
     /\ Spawn({s})
     /\ handler' = [handler EXCEPT ![t].step = "dispatch"]
     /\ UNCHANGED <<sessions, orch, saved, list, deletion, saver, load, tasks, ghosts, counts>>

\* AppendEvent (it may refuse, for the chain is gone or its active session is not
\* active or missing: this is only logged), the response of the call, and
\* AutoSaveSession in a goroutine.
AppendMessage(t) ==
  LET s == handler[t].id
  IN /\ At(t, "append")
     /\ \/ chain' = [chain EXCEPT ![s] = IF @ = NoChain THEN @ ELSE Append(@, ctx[s].summary)]
           /\ UNCHANGED counts
        \/ chain' = chain /\ Event("lost")
     /\ ctx' = [ctx EXCEPT ![s].calls = Answered(@, handler[t].from)]
     /\ Spawn({s})
     /\ handler' = [handler EXCEPT ![t].step = "dispatch"]
     /\ UNCHANGED <<sessions, orch, saved, list, deletion, saver, load, tasks, ghosts>>

\* One SendTask per call, each in a goroutine; that it fails is only logged.
SendTasks(new) ==
  LET sent == ForAgents(ToSet(new))
  IN \/ tasks' = tasks \cup sent /\ UNCHANGED counts
     \/ \E k \in sent : tasks' = tasks \cup (sent \ {k}) /\ Fails

\* New calls in the history that the client shows, without a response.
Shown(new) == [i \in DOMAIN new |-> [cat |-> new[i].cat, done |-> FALSE]]

\* Mutant: the early return keeps the session's lock.
MutDispatch(t) ==
  LET s   == handler[t].id
      new == handler[t].calls
  IN /\ At(t, "dispatch") /\ s \in orch
     /\ ctx' = [ctx EXCEPT ![s] = [@ EXCEPT !.joined = ctx[s].joined \cup {k.cat : k \in ToSet(new)},
                                            !.calls = ctx[s].calls \o Shown(new)]]
     /\ SendTasks(new)
     /\ handler' = [handler EXCEPT ![t] = None]
     /\ UNCHANGED <<sessions, orch, saved, list, chain, deletion, pending, saver, load, ghosts>>

\* The orchestrator turns the mentions into calls, or knows the session no more;
\* then a message fails after it was stored, and a result stays unacknowledged.
Dispatch(t) ==
  LET s   == handler[t].id
      new == IF s \in orch THEN handler[t].calls ELSE <<>>
  IN /\ At(t, "dispatch")
     /\ ctx' = [ctx EXCEPT ![s] = [@ EXCEPT !.joined = ctx[s].joined \cup {k.cat : k \in ToSet(new)},
                                            !.calls = ctx[s].calls \o Shown(new)]]
     /\ SendTasks(new)
     /\ handler' = [handler EXCEPT ![t] = None]
     /\ UNCHANGED <<sessions, orch, saved, list, chain, deletion, pending, saver, load, ghosts>>

-----------------------------------------------------------------------------
(* SaveSession, mostly in goroutines of AutoSaveSession.                   *)

\* It looks the session up under sm.mu; one that is gone is not saved.
LookUp(v, s) ==
  /\ saver[v] = None /\ pending[s] > 0 /\ Unlocked
  /\ pending' = [pending EXCEPT ![s] = @ - 1]
  /\ saver' = IF s \in sessions THEN [saver EXCEPT ![v] = [step |-> "found", id |-> s]] ELSE saver
  /\ UNCHANGED <<sessions, orch, ctx, saved, list, chain, deletion, handler, load, tasks,
                 ghosts, counts>>

\* Mutant: the session is read without its lock.
MutSnapshot(v) ==
  /\ saver[v].step = "found"
  /\ saver' = [saver EXCEPT ![v] = [step |-> "set", id |-> @.id, data |-> ctx[@.id]]]
  /\ UNCHANGED <<sessions, orch, ctx, saved, list, chain, deletion, handler, pending, load, tasks,
                 ghosts, counts>>

\* It reads the session with its lock, which it keeps until it returns.
Snapshot(v) ==
  /\ saver[v].step = "found" /\ CanRead(saver[v].id)
  /\ saver' = [saver EXCEPT ![v] = [step |-> "set", id |-> @.id, data |-> ctx[@.id]]]
  /\ UNCHANGED <<sessions, orch, ctx, saved, list, chain, deletion, handler, pending, load,
                 tasks, ghosts, counts>>

SetKey(v) ==
  /\ saver[v].step = "set"
  /\ \/ /\ saved' = [saved EXCEPT ![saver[v].id] = saver[v].data]
        /\ saver' = [saver EXCEPT ![v] = [step |-> "sadd", id |-> @.id]]
        /\ UNCHANGED counts
     \/ saved' = saved /\ saver' = [saver EXCEPT ![v] = None] /\ Fails
  /\ UNCHANGED <<sessions, orch, ctx, list, chain, deletion, handler, pending, load, tasks,
                 ghosts>>

AddToList(v) ==
  /\ saver[v].step = "sadd"
  /\ \/ list' = list \cup {saver[v].id} /\ UNCHANGED counts
     \/ list' = list /\ Fails
  /\ saver' = [saver EXCEPT ![v] = None]
  /\ UNCHANGED <<sessions, orch, ctx, saved, chain, deletion, handler, pending, load, tasks,
                 ghosts>>

-----------------------------------------------------------------------------
(* A crash, and LoadAllSessions while the listener already runs.           *)

\* What a restart may find of a chain whose files were being written, or were
\* overwritten by a worker that had read less: a piece is missing, or meta.json.
Damaged(q) ==
  {NoChain} \cup
  UNION {{SubSeq(q, 1, i) \o SubSeq(q, j, Len(q)) : j \in (i + 2)..(Len(q) + 1)} : i \in 0..Len(q)}

\* Of a chain that was deleted it may find a session that a worker wrote again.
Reread(s) ==
  (IF chain[s] = NoChain THEN {} ELSE Damaged(chain[s]))
  \cup (IF s \in deleted THEN {<<n>> : n \in 1..counts.stored} ELSE {})

Crash ==
  /\ MayHappen
  /\ \/ chain' = chain /\ Count("crashes", 1)
     \/ /\ \E s \in Ids : \E q \in Reread(s) : chain' = [chain EXCEPT ![s] = q]
        /\ counts' = [counts EXCEPT !.crashes = @ + 1, !.lost = @ + 1]
  /\ sessions' = {} /\ orch' = {}
  /\ ctx' = [s \in Ids |-> NewContext]
  /\ deletion' = None
  /\ handler' = [t \in Threads |-> None]
  /\ pending' = [s \in Ids |-> 0]
  /\ saver' = [v \in Savers |-> None]
  /\ load' = [Serving EXCEPT !.step = "load", !.todo = list]
  /\ UNCHANGED <<saved, list, tasks, ghosts>>

\* LoadSession puts the session into the map ...
LoadSession(s) ==
  /\ load.step = "load" /\ load.at = None /\ s \in load.todo
  /\ IF saved[s] = None
     THEN load' = [load EXCEPT !.todo = @ \ {s}] /\ UNCHANGED <<sessions, ctx>>
     ELSE /\ sessions' = sessions \cup {s}
          /\ ctx' = [ctx EXCEPT ![s] = saved[s]]
          /\ load' = [load EXCEPT !.at = [step |-> "mapped", id |-> s]]
  /\ UNCHANGED <<orch, saved, list, chain, deletion, handler, pending, saver, tasks, ghosts,
                 counts>>

\* ... and then registers it with the orchestrator.
RegisterLoaded ==
  /\ load.step = "load" /\ load.at # None
  /\ orch' = orch \cup {load.at.id}
  /\ load' = [load EXCEPT !.at = None, !.todo = @ \ {load.at.id}]
  /\ UNCHANGED <<sessions, ctx, saved, list, chain, deletion, handler, pending, saver, tasks,
                 ghosts, counts>>

StartRebuild ==
  /\ load.step = "load" /\ load.at = None /\ load.todo = {}
  /\ load' = [load EXCEPT !.step = "rebuild", !.todo = sessions]
  /\ UNCHANGED <<sessions, orch, ctx, saved, list, chain, deletion, handler, pending, saver,
                 tasks, ghosts, counts>>

HasMessage(s) == chain[s] \notin {NoChain, <<>>}

\* Mutant: the first message of the chain is taken.
MutReadLast(s) ==
  /\ load.step = "rebuild" /\ load.at = None /\ s \in load.todo
  /\ load' = IF HasMessage(s)
             THEN [load EXCEPT !.at = [step |-> "read", id |-> s, length |-> Len(chain[s])],
                               !.last = Head(chain[s])]
             ELSE [load EXCEPT !.todo = @ \ {s}]
  /\ UNCHANGED <<sessions, orch, ctx, saved, list, chain, deletion, handler, pending, saver, tasks,
                 ghosts, counts>>

\* rebuildSummariesFromChain: GetLastUserOrCatEvent, without the session's lock.
ReadLast(s) ==
  /\ load.step = "rebuild" /\ load.at = None /\ s \in load.todo
  /\ load' = IF HasMessage(s)
             THEN [load EXCEPT !.at = [step |-> "read", id |-> s, length |-> Len(chain[s])],
                             !.last = Last(chain[s])]
             ELSE [load EXCEPT !.todo = @ \ {s}]
  /\ UNCHANGED <<sessions, orch, ctx, saved, list, chain, deletion, handler, pending, saver,
                 tasks, ghosts, counts>>

RebuildSummary ==
  LET s == load.at.id
  IN /\ load.step = "rebuild" /\ load.at # None /\ CanWrite(s)
     /\ ctx' = [ctx EXCEPT ![s].summary = load.last]
     /\ load' = [load EXCEPT !.at = None, !.last = 0, !.todo = @ \ {s},
                             !.changed = IF ctx[s].summary = load.last THEN @ ELSE sessions]
     /\ UNCHANGED <<sessions, orch, saved, list, chain, deletion, handler, pending, saver,
                    tasks, ghosts, counts>>

\* If a summary changed, all sessions are saved; the HTTP server starts.
EndRebuild ==
  /\ load.step = "rebuild" /\ load.at = None /\ load.todo = {}
  /\ Spawn(load.changed)
  /\ load' = Serving
  /\ UNCHANGED <<sessions, orch, ctx, saved, list, chain, deletion, handler, saver, tasks,
                 ghosts, counts>>

Deletion   == DeleteKey \/ RemoveFromList \/ DeleteChain \/ EndDelete
Handling(t) == TakeMessage(t) \/ AppendMessage(t) \/ Dispatch(t)
Saving(v)  == (\E s \in Ids : LookUp(v, s)) \/ Snapshot(v) \/ SetKey(v) \/ AddToList(v)
Loading    ==
  \/ \E s \in Ids : LoadSession(s) \/ ReadLast(s)
  \/ RegisterLoaded \/ StartRebuild \/ RebuildSummary \/ EndRebuild

Next ==
  \/ \E s \in Ids : CreateSession(s) \/ UpdateSessionName(s) \/ StartDelete(s)
  \/ \E t \in Requests, s \in Ids, m \in SUBSET Cats : SendMessage(t, s, m)
  \/ \E k \in tasks, m \in SUBSET Cats : HandleResult(k, m)
  \/ \E k \in tasks : EndUnanswered(k)
  \/ \E s \in Ids : GetOrCreateChain(s)
  \/ \E t \in Threads : Handling(t)
  \/ \E v \in Savers : Saving(v)
  \/ Deletion \/ Loading \/ Crash

Spec == Init /\ [][Next]_vars

\* Goroutines that can go on do.
FairSpec ==
  /\ Spec
  /\ WF_vars(Deletion) /\ WF_vars(Loading)
  /\ \A t \in Threads : WF_vars(Handling(t))
  /\ \A v \in Savers : WF_vars(Saving(v))

-----------------------------------------------------------------------------
(* Correctness.                                                            *)

\* Type invariant.
TypeOK ==
  /\ sessions \subseteq Ids /\ orch \subseteq Ids /\ list \subseteq Ids
  /\ deleted \subseteq created /\ raced \subseteq created
  /\ \A s \in Ids :
       /\ ctx[s].joined \subseteq Cats
       /\ ctx[s].summary \in 0..counts.stored /\ ctx[s].messages \in 0..counts.stored
       /\ {c.cat : c \in ToSet(ctx[s].calls)} \subseteq Cats
       /\ pending[s] \in Nat
       /\ chain[s] = NoChain \/ ToSet(chain[s]) \subseteq 1..counts.stored
  /\ \A s \in sessions : s \in created
  /\ {k.id : k \in tasks} \subseteq created

\* Whoever finds a session in SessionManager finds it in the orchestrator, except
\* while a deletion or LoadSession is between the two; no failure leaves it in one.
RegisteredTogether ==
  deletion = None /\ (load.step = "load" => load.at = None) => sessions = orch

SameData(a, b) == a.summary = b.summary /\ a.messages = b.messages /\ a.calls = b.calls
                  /\ a.joined = b.joined

\* AutoSaveSession runs in goroutines in any order, some before the handler that
\* started them is through: but once they are, Redis holds what memory holds of a
\* session (its name apart), and a restart finds it in the list.
SavedCatchesUp ==
  counts.failures = 0 /\ load.step = "serving" /\ deletion = None =>
    \A s \in sessions :
      (pending[s] = 0 /\ CanRead(s) /\ \A v \in Savers : saver[v] # None => saver[v].id # s) =>
        s \in list /\ SameData(saved[s], ctx[s])

\* MessageCount and the chain, kept in two places, agree as long as every append is
\* accepted and no file of the chain is lost: before any crash they are equal, and a
\* crash never makes a session claim a message its chain lacks (a session that a save
\* brings back while it is deleted does).
ChainHasAll ==
  deletion = None /\ counts.lost = 0 =>
    \A s \in sessions \ (deleted \cup raced) : CanRead(s) =>
      LET n == IF chain[s] = NoChain THEN 0 ELSE Len(chain[s])
      IN ctx[s].messages <= n /\ (counts.crashes = 0 => ctx[s].messages = n)

\* DeleteSession leaves nothing of a session in Redis, and no message in its chain,
\* unless a handler or a save had looked it up before: these bring it back.  (A chain
\* without messages comes back with the next request for its status or the next task;
\* a restart can find messages that a worker still had in memory and wrote again.)
LeavesNothing ==
  counts.failures = 0 =>
    \A s \in deleted \ raced : /\ saved[s] = None /\ s \notin list
                               /\ counts.crashes = 0 => ~HasMessage(s)

\* A call of an agent that is shown without a response has a task that will bring one,
\* however the results of several calls of the agent are mixed up among its open calls,
\* as long as every task sent ended with a result, and none of them was empty.
OpenCallsAwaited ==
  counts.crashes = 0 /\ counts.failures = 0 /\ counts.misses = 0 /\ deletion = None =>
    \A s \in sessions \ deleted, c \in Agents :
      Cardinality({i \in DOMAIN ctx[s].calls : ctx[s].calls[i].cat = c /\ ~ctx[s].calls[i].done})
        <= Cardinality({k \in tasks : k.id = s /\ k.cat = c})
           + (IF /\ handler[Listener].step \in {"found", "append"}
                 /\ handler[Listener].from.id = s /\ handler[Listener].from.cat = c
              THEN 1 ELSE 0)

\* As long as every append is accepted and no file of a chain is lost, a summary goes
\* back to an older message only where rebuildSummariesFromChain writes what it had
\* read before a result was stored.
SummaryGoesForward ==
  [][\A s \in sessions \cap sessions' :
       ctx'[s].summary < ctx[s].summary /\ counts.lost = 0 =>
         load.step = "rebuild" /\ Len(chain[s]) > load.at.length]_vars

\* No goroutine waits for a lock for ever: handlers return, and every save is made.
WorkEnds ==
  /\ \A t \in Threads : handler[t] # None ~> handler[t] = None
  /\ \A s \in Ids : pending[s] > 0 ~> pending[s] = 0
=============================================================================
